--------------------------- MODULE EventDelivery ----------------------------
(***************************************************************************)
(* What the outbox, the relay, the broker and the inbox promise together:  *)
(* an event stored with its business transaction is applied at most once,  *)
(* only after it was stored, and in the end it is applied or parked in the *)
(* dead-letter queue for an operator.                                      *)
(***************************************************************************)
CONSTANTS Events, Routable

VARIABLES stored, applied, parked

vars == <<stored, applied, parked>>

Init == stored = {} /\ applied = {} /\ parked = {}

Store(e) ==
  /\ e \notin stored
  /\ stored' = stored \cup {e}
  /\ UNCHANGED <<applied, parked>>

\* the handler of an event may store new ones in its transaction
Apply(e, new) ==
  /\ e \in (stored \cap Routable) \ applied
  /\ new \cap stored = {}
  /\ applied' = applied \cup {e}
  /\ stored' = stored \cup new
  /\ UNCHANGED parked

\* one copy may be parked while another one is applied
Park(e) ==
  /\ e \in (stored \cap Routable) \ parked
  /\ parked' = parked \cup {e}
  /\ UNCHANGED <<stored, applied>>

Next ==
  \E e \in Events :
    Store(e) \/ Park(e) \/ \E new \in SUBSET Events : Apply(e, new)

Spec == Init /\ [][Next]_vars
=============================================================================

------------------------ MODULE SignalDeliveryProofs ------------------------
(***************************************************************************)
(* An inductive invariant of SignalDelivery for any users, record_signal   *)
(* calls, slots and websockets, in two parts: HInv is about Realtime and   *)
(* DInv about the way from the signal to the notifications.                *)
(***************************************************************************)
EXTENDS SignalDelivery, TLAPS, FiniteSetTheorems, WellFoundedInduction

-----------------------------------------------------------------------------
(* The hints *)

\* The lifespan that ends has closed the listener, unless an exception had ended
\* it, and owes nobody a hint.
ListenerKnown == app # "running" => listener \in {"closed", "dead"} /\ owed = {}

\* A hint is owed to sockets that would get it if it were sent now.
OwedHeard ==
  \A k \in Sockets, u \in Users : <<k, u>> \in owed =>
    socket[k] = "open" /\ k \in SubscribersOf(u)

HInv ==
  /\ RealtimeTypeOK
  /\ ListenerKnown
  /\ OwedHeard
  /\ HintsReachOpenSockets

-----------------------------------------------------------------------------
(* The delivery *)

\* Only events that were stored travel.
EventsTravel ==
  /\ \A e \in Events : mail[e] > 0 \/ e \in inbox => rows[e] > 0
  /\ \A h \in Slots :
       task[h].at # "idle" => task[h].event \in Events /\ rows[task[h].event] > 0

\* A copy beyond the first comes from a fault.
MailCounted == \A e \in Events : mail[e] <= rows[e] + (MaxFaults - faultsLeft)

\* A record_signal call stores its event when it returns.
RecordedLast ==
  \A r \in Records :
    record[r] \in {"idle", "found", "insert", "update"} => rows[<<r, 0>>] = 0

Claimed(h) == task[h].at \notin {"idle", "hint"}

\* The claim of an event excludes a second one, and comes before its inbox row.
ClaimsExclude ==
  \A h \in Slots : Claimed(h) =>
    /\ task[h].event \notin inbox
    /\ \A g \in Slots \ {h} : Claimed(g) => task[g].event # task[h].event

\* Each handler does its own steps only.
StagesFit ==
  \A h \in Slots :
    /\ task[h].at \in {"expired", "fanning"} => User(h) = 0
    /\ task[h].at \in {"exists", "insert", "update", "clear", "hint"} => User(h) # 0
    /\ task[h].at = "hint" => task[h].event \in inbox
    /\ task[h].at = "missing" /\ User(h) = 0 => task[h].todo # {}
    /\ task[h].at = "claimed" => task[h].insert = {} /\ task[h].announce = {}

\* What a fan-out will announce it inserts or has found.
FanOutAgrees ==
  \A h \in Slots :
    /\ task[h].insert \subseteq task[h].announce
    /\ task[h].announce \subseteq task[h].insert \cup intents

\* The events of a fan-out are stored with the inbox row of its signal.
FanOutTogether ==
  \A r \in Records, u \in Users : rows[<<r, u>>] > 0 => <<r, 0>> \in inbox

IntentsAnnounced == \A u \in Users : u \in intents <=> Announcing(u) # {}

\* A notification and the inbox row of an event of its intent are committed
\* together, or the notification is found.
NotificationsHandled ==
  \A u \in Users :
    notification[u] # "none" <=> \E r \in Records : <<r, u>> \in inbox

\* A notification that was found stays.
LooksHold ==
  \A h \in Slots :
    task[h].at \in {"exists", "update", "clear", "hint"} => notification[User(h)] # "none"

EventsKept == \A e \in Events : rows[e] > 0 /\ e \notin inbox => Pending(e)

DInv ==
  /\ DeliveryTypeOK
  /\ EventsTravel
  /\ MailCounted
  /\ RecordedLast
  /\ ClaimsExclude
  /\ StagesFit
  /\ FanOutAgrees
  /\ FanOutTogether
  /\ IntentsAnnounced
  /\ NotificationsHandled
  /\ LooksHold
  /\ EventsKept

-----------------------------------------------------------------------------
(* Both *)

\* A hint on its way names a notification that exists.
HintsNamed ==
  /\ \A u \in topic : notification[u] # "none"
  /\ sending # None => notification[sending.user] # "none"

SInv == HInv /\ DInv /\ HintsNamed

-----------------------------------------------------------------------------
(* Users and limits *)

\* A set of naturals has its smallest element, which Min finds.
LEMMA MinExists ==
  ASSUME NEW S \in SUBSET Nat, S # {}
  PROVE  Min(S) \in S /\ \A n \in S : Min(S) <= n
  <1>1. PICK m \in S : \A n \in S : ~(<<n, m>> \in OpToRel(<, Nat))
    BY NatLessThanWellFounded, WFMin
  <1>2. ASSUME NEW n \in S, n < m
        PROVE  FALSE
    <2>1. <<n, m>> \in Nat \X Nat /\ <<n, m>>[1] < <<n, m>>[2]
      BY <1>2
    <2> QED BY <1>1, <2>1 DEF OpToRel
  <1>3. \A n \in S : m <= n
    BY <1>2
  <1> QED BY <1>3, Zenon DEF Min

\* A finite set of naturals has a largest element: the one with the fewest
\* elements above it.
LEMMA LargestExists ==
  ASSUME NEW S \in SUBSET Nat, S # {}, IsFiniteSet(S)
  PROVE  \E m \in S : \A n \in S : n <= m
  <1> DEFINE Above(n) == {k \in S : k > n}
             Counts == {Cardinality(Above(n)) : n \in S}
  <1>1. \A n \in S : IsFiniteSet(Above(n)) /\ Cardinality(Above(n)) \in Nat
    BY FS_Subset, FS_CardinalityType
  <1>2. Counts \in SUBSET Nat /\ Counts # {}
    BY <1>1
  <1>3. PICK m \in S : \A n \in S : Cardinality(Above(m)) <= Cardinality(Above(n))
    <2>1. Min(Counts) \in Counts /\ \A c \in Counts : Min(Counts) <= c
      BY <1>2, MinExists
    <2> QED BY <2>1
  <1>4. ASSUME NEW n \in S, ~(n <= m)
        PROVE  FALSE
    <2>1. Above(n) \in SUBSET Above(m) /\ n \in Above(m) /\ n \notin Above(n)
      <3>1. m \in Nat /\ n \in Nat /\ S \subseteq Nat /\ n > m /\ ~(n > n)
        BY <1>4
      <3>2. \A k \in S : k > n => k > m
        BY <3>1
      <3> QED BY <3>1, <3>2
    <2>2. /\ Cardinality(Above(n)) <= Cardinality(Above(m))
          /\ Cardinality(Above(m)) = Cardinality(Above(n)) => Above(m) = Above(n)
      BY <1>1, <2>1, FS_Subset
    <2> QED BY <1>1, <1>3, <2>1, <2>2
  <1> QED BY <1>4

\* LIMIT: the first users are no more than Limit.
LEMMA FirstFew ==
  ASSUME NEW S \in SUBSET Users
  PROVE  FirstOf(S) \in SUBSET S /\ Cardinality(FirstOf(S)) <= Limit
  <1> DEFINE F == FirstOf(S)
  <1>1. F \in SUBSET S /\ S \in SUBSET Nat
    BY UsersAssumption DEF FirstOf
  <1>2. IsFiniteSet(S) /\ IsFiniteSet(F)
    BY <1>1, UsersAssumption, FS_Subset
  <1>3. CASE F = {}
    BY <1>1, <1>3, FS_EmptySet, BoundsAssumption
  <1>4. CASE F # {}
    <2>1. PICK m \in F : \A n \in F : n <= m
      BY <1>1, <1>2, <1>4, LargestExists
    <2> DEFINE Below == {v \in S : v < m}
    <2>2. Cardinality(Below) < Limit
      BY <2>1 DEF FirstOf
    <2>3. F \in SUBSET (Below \cup {m})
      <3>1. \A n \in F : n \in S /\ n \in Nat /\ m \in Nat /\ n <= m
        BY <1>1, <2>1
      <3> HIDE DEF F
      <3> QED BY <3>1
    <2>4. IsFiniteSet(Below) /\ Cardinality(Below) \in Nat
      BY <1>2, FS_Subset, FS_CardinalityType
    <2>5. /\ IsFiniteSet(Below \cup {m})
          /\ Cardinality(Below \cup {m}) = Cardinality(Below) + 1
      <3>1. m \in Nat
        BY <1>1, <2>1
      <3>2. m \notin Below
        BY <3>1
      <3> QED BY <2>4, <3>2, FS_AddElement
    <2>6. Cardinality(F) <= Cardinality(Below \cup {m}) /\ Cardinality(F) \in Nat
      BY <1>2, <2>3, <2>5, FS_Subset, FS_CardinalityType
    <2> QED BY <1>1, <2>2, <2>4, <2>5, <2>6, BoundsAssumption
  <1> QED BY <1>3, <1>4

-----------------------------------------------------------------------------
(* The proofs for the hints *)

\* Every step of the process, a lost connection, an exception that ends the
\* listener and a publish keep HInv.
LEMMA RealtimePreserves ==
  ASSUME HInv,
         \/ RealtimeStep \/ CloseBackplane \/ ConnectionLost \/ ListenerDies
         \/ \E k \in Sockets, u \in Users : Accept(k, u)
         \/ UNCHANGED hintVars
         \/ /\ \E u \in Users : Broadcast(u)
            /\ UNCHANGED <<app, listener, sending, socket, holder, subscribers>>
  PROVE  HInv'
  <1>1. ASSUME Listen
        PROVE  HInv'
    <2>1. RealtimeTypeOK'
      BY <1>1, NoneAssumption DEF Listen, HInv, RealtimeTypeOK
    <2>2. ListenerKnown'
      BY <1>1, NoneAssumption DEF Listen, HInv, ListenerKnown, RealtimeTypeOK
    <2>3. OwedHeard'
      BY <1>1, NoneAssumption DEF Listen, HInv, OwedHeard, SubscribersOf,
         RealtimeTypeOK, HintsReachOpenSockets, Underway
    <2>4. HintsReachOpenSockets'
      BY <1>1, NoneAssumption DEF Listen, HInv, HintsReachOpenSockets, Underway,
         RealtimeTypeOK, OwedHeard
    <2> QED BY <2>1, <2>2, <2>3, <2>4 DEF HInv
  <1>2. ASSUME NEW u \in Users, Receive(u)
        PROVE  HInv'
    <2>1. RealtimeTypeOK'
      BY <1>2, NoneAssumption DEF Receive, Publish, SubscribersOf, Hints,
         HInv, RealtimeTypeOK
    <2>2. ListenerKnown'
      BY <1>2, NoneAssumption DEF Receive, Publish, SubscribersOf, Hints,
         HInv, ListenerKnown, RealtimeTypeOK
    <2>3. OwedHeard'
      BY <1>2, NoneAssumption DEF Receive, Publish, SubscribersOf, Hints,
         HInv, OwedHeard, RealtimeTypeOK
    <2>4. HintsReachOpenSockets'
      BY <1>2, NoneAssumption DEF Receive, Publish, SubscribersOf, Hints,
         HInv, HintsReachOpenSockets, Underway, RealtimeTypeOK, OwedHeard
    <2> QED BY <2>1, <2>2, <2>3, <2>4 DEF HInv
  <1>3. ASSUME NEW k \in Sockets, Send(k)
        PROVE  HInv'
    <2>1. RealtimeTypeOK'
      BY <1>3, NoneAssumption DEF Send, Sent, Hints, HInv, RealtimeTypeOK
    <2>2. ListenerKnown'
      BY <1>3, NoneAssumption DEF Send, Sent, Hints, HInv, ListenerKnown,
         RealtimeTypeOK
    <2>3. OwedHeard'
      BY <1>3, NoneAssumption DEF Send, Sent, Hints, HInv, OwedHeard,
         SubscribersOf, RealtimeTypeOK
    <2>4. HintsReachOpenSockets'
      BY <1>3, NoneAssumption DEF Send, Sent, Hints, HInv,
         HintsReachOpenSockets, Underway, RealtimeTypeOK
    <2> QED BY <2>1, <2>2, <2>3, <2>4 DEF HInv
  <1>4. ASSUME NEW k \in Sockets, Stream(k)
        PROVE  HInv'
    <2>1. RealtimeTypeOK'
      BY <1>4, NoneAssumption DEF Stream, Subscribe, HInv, RealtimeTypeOK
    <2>2. OwedHeard'
      BY <1>4, NoneAssumption DEF Stream, Subscribe, HInv, OwedHeard,
         SubscribersOf, RealtimeTypeOK
    <2>3. /\ ListenerKnown' /\ HintsReachOpenSockets'
      BY <1>4 DEF Stream, Subscribe, HInv, ListenerKnown,
         HintsReachOpenSockets, Underway, SubscribersOf
    <2> QED BY <2>1, <2>2, <2>3 DEF HInv
  <1>5. ASSUME NEW k \in Sockets, Disconnect(k)
        PROVE  HInv'
    <2>1. RealtimeTypeOK'
      BY <1>5, NoneAssumption DEF Disconnect, HInv, RealtimeTypeOK
    <2>2. OwedHeard'
      BY <1>5, NoneAssumption DEF Disconnect, HInv, OwedHeard, SubscribersOf,
         RealtimeTypeOK
    <2>3. HintsReachOpenSockets'
      BY <1>5, NoneAssumption DEF Disconnect, HInv, HintsReachOpenSockets, Underway,
         RealtimeTypeOK
    <2>4. ListenerKnown'
      BY <1>5 DEF Disconnect, HInv, ListenerKnown, SubscribersOf
    <2> QED BY <2>1, <2>2, <2>3, <2>4 DEF HInv
  <1>6. ASSUME NEW k \in Sockets, Leave(k)
        PROVE  HInv'
    <2>1. RealtimeTypeOK'
      BY <1>6, NoneAssumption DEF Leave, Unsubscribe, HInv, RealtimeTypeOK
    <2>2. OwedHeard'
      BY <1>6, NoneAssumption DEF Leave, Unsubscribe, HInv, OwedHeard,
         SubscribersOf, RealtimeTypeOK
    <2>3. /\ ListenerKnown' /\ HintsReachOpenSockets'
      BY <1>6 DEF Leave, Unsubscribe, HInv, ListenerKnown,
         HintsReachOpenSockets, Underway, SubscribersOf
    <2> QED BY <2>1, <2>2, <2>3 DEF HInv
  <1>7. ASSUME NEW k \in Sockets, NEW u \in Users, Accept(k, u)
        PROVE  HInv'
    <2>1. RealtimeTypeOK'
      BY <1>7, NoneAssumption DEF Accept, HInv, RealtimeTypeOK
    <2>2. OwedHeard'
      BY <1>7, NoneAssumption DEF Accept, HInv, OwedHeard, SubscribersOf,
         RealtimeTypeOK
    <2>3. /\ ListenerKnown' /\ HintsReachOpenSockets'
      BY <1>7 DEF Accept, HInv, ListenerKnown, HintsReachOpenSockets, Underway,
         SubscribersOf
    <2> QED BY <2>1, <2>2, <2>3 DEF HInv
  <1>8. ASSUME CloseBackplane
        PROVE  HInv'
    <2>1. RealtimeTypeOK'
      BY <1>8, NoneAssumption DEF CloseBackplane, HInv, RealtimeTypeOK
    <2>2. ListenerKnown'
      BY <1>8, NoneAssumption DEF CloseBackplane, HInv, ListenerKnown,
         RealtimeTypeOK
    <2>3. OwedHeard'
      BY <1>8, NoneAssumption DEF CloseBackplane, HInv, OwedHeard,
         SubscribersOf, RealtimeTypeOK
    <2>4. HintsReachOpenSockets'
      BY <1>8, NoneAssumption DEF CloseBackplane, HInv,
         HintsReachOpenSockets, Underway, RealtimeTypeOK
    <2> QED BY <2>1, <2>2, <2>3, <2>4 DEF HInv
  <1>9. ASSUME CloseHub
        PROVE  HInv'
    <2>1. RealtimeTypeOK'
      BY <1>9, NoneAssumption DEF CloseHub, HInv, RealtimeTypeOK
    <2>2. ListenerKnown'
      BY <1>9, NoneAssumption DEF CloseHub, HInv, ListenerKnown,
         RealtimeTypeOK
    <2>3. OwedHeard'
      BY <1>9, NoneAssumption DEF CloseHub, HInv, OwedHeard, SubscribersOf,
         RealtimeTypeOK, ListenerKnown
    <2>4. HintsReachOpenSockets'
      BY <1>9 DEF CloseHub, HInv, HintsReachOpenSockets, Underway, SubscribersOf
    <2> QED BY <2>1, <2>2, <2>3, <2>4 DEF HInv
  <1>10. ASSUME ConnectionLost
        PROVE  HInv'
    <2>1. RealtimeTypeOK'
      BY <1>10, NoneAssumption DEF ConnectionLost, HInv, RealtimeTypeOK
    <2>2. ListenerKnown'
      BY <1>10, NoneAssumption DEF ConnectionLost, HInv, ListenerKnown,
         RealtimeTypeOK
    <2>3. OwedHeard'
      BY <1>10, NoneAssumption DEF ConnectionLost, HInv, OwedHeard,
         SubscribersOf, RealtimeTypeOK
    <2>4. HintsReachOpenSockets'
      BY <1>10, NoneAssumption DEF ConnectionLost, HInv,
         HintsReachOpenSockets, Underway, RealtimeTypeOK
    <2> QED BY <2>1, <2>2, <2>3, <2>4 DEF HInv
  <1>11. ASSUME NEW u \in Users, Broadcast(u),
              UNCHANGED <<app, listener, sending, socket, holder, subscribers>>
        PROVE  HInv'
    <2>1. RealtimeTypeOK'
      BY <1>11, NoneAssumption DEF Broadcast, SubscribersOf, HInv,
         RealtimeTypeOK
    <2>2. OwedHeard'
      BY <1>11, NoneAssumption DEF Broadcast, SubscribersOf, HInv, OwedHeard,
         RealtimeTypeOK
    <2>3. HintsReachOpenSockets'
      BY <1>11, NoneAssumption DEF Broadcast, SubscribersOf, HInv,
         HintsReachOpenSockets, Underway, RealtimeTypeOK
    <2>4. ListenerKnown'
      BY <1>11 DEF Broadcast, SubscribersOf, HInv, ListenerKnown
    <2> QED BY <2>1, <2>2, <2>3, <2>4 DEF HInv
  <1>12. ASSUME ListenerDies
        PROVE  HInv'
    <2>1. ASSUME NEW k \in sending.to, sending # None, Sent(k)
          PROVE  sending' \in Hints \cup {None}
      BY <2>1, NoneAssumption DEF Sent, Hints, HInv, RealtimeTypeOK
    <2>2. RealtimeTypeOK'
      BY <1>12, <2>1 DEF ListenerDies, HInv, RealtimeTypeOK
    <2>3. ListenerKnown'
      BY <1>12 DEF ListenerDies, HInv, ListenerKnown
    <2>4. OwedHeard'
      BY <1>12 DEF ListenerDies, HInv, OwedHeard, SubscribersOf
    <2>5. HintsReachOpenSockets'
      BY <1>12 DEF ListenerDies, HintsReachOpenSockets
    <2> QED BY <2>2, <2>3, <2>4, <2>5 DEF HInv
  <1>13. CASE UNCHANGED hintVars
    BY <1>13 DEF hintVars, HInv, RealtimeTypeOK, ListenerKnown, OwedHeard,
       HintsReachOpenSockets, Underway, SubscribersOf
  <1> QED
    BY <1>1, <1>2, <1>3, <1>4, <1>5, <1>6, <1>7, <1>8, <1>9, <1>10, <1>11,
       <1>12, <1>13 DEF RealtimeStep

-----------------------------------------------------------------------------
(* The proofs for the delivery *)

\* The two parts of an event.
LEMMA EventFacts ==
  /\ \A e \in Events : /\ e[1] \in Records /\ e[2] \in Users \cup {0}
                       /\ e = <<e[1], e[2]>> /\ e # None
  /\ \A r \in Records : <<r, 0>> \in Events
  /\ \A r \in Records, u \in Users : <<r, u>> \in Events /\ u # 0
  BY NoneAssumption, UsersAssumption DEF Events

\* A slot with a new task.
LEMMA TaskTyped ==
  ASSUME DInv, NEW h \in Slots, NEW t \in Tasks,
         Cardinality(t.todo \cup t.announce) <= Limit,
         task' = [task EXCEPT ![h] = t]
  PROVE  /\ task' \in [Slots -> Tasks]
         /\ \A g \in Slots : Cardinality(task'[g].todo \cup task'[g].announce) <= Limit
  BY DEF DInv, DeliveryTypeOK

LEMMA IdleTyped ==
  ASSUME DInv, NEW h \in Slots, task' = [task EXCEPT ![h] = Idle]
  PROVE  /\ task' \in [Slots -> Tasks]
         /\ \A g \in Slots : Cardinality(task'[g].todo \cup task'[g].announce) <= Limit
  <1>1. Idle \in Tasks /\ Idle.todo \cup Idle.announce = {}
    BY DEF Idle, Tasks
  <1>2. Cardinality(Idle.todo \cup Idle.announce) <= Limit
    BY <1>1, FS_EmptySet, BoundsAssumption
  <1> QED BY <1>1, <1>2, TaskTyped

\* New events, and one copy of each.
LEMMA StoreFacts ==
  ASSUME DInv, NEW new \in SUBSET Events, \A e \in new : rows[e] = 0, Store(new)
  PROVE  /\ rows' \in [Events -> 0..1]
         /\ mail' \in [Events -> 0..(1 + MaxFaults)]
         /\ \A e \in Events :
              /\ rows'[e] = IF e \in new THEN 1 ELSE rows[e]
              /\ mail'[e] = mail[e] + IF e \in new THEN 1 ELSE 0
              /\ mail'[e] <= rows'[e] + (MaxFaults - faultsLeft)
  <1>1. /\ DOMAIN rows' = Events /\ DOMAIN mail' = Events
        /\ rows' = [e \in Events |-> rows'[e]] /\ mail' = [e \in Events |-> mail'[e]]
    BY DEF Store
  <1>2. ASSUME NEW e \in Events
        PROVE  /\ rows'[e] = IF e \in new THEN 1 ELSE rows[e]
               /\ mail'[e] = mail[e] + IF e \in new THEN 1 ELSE 0
               /\ mail'[e] <= rows'[e] + (MaxFaults - faultsLeft)
               /\ rows'[e] \in 0..1 /\ mail'[e] \in 0..(1 + MaxFaults)
    <2>1. /\ rows[e] \in 0..1 /\ mail[e] \in Nat /\ faultsLeft \in 0..MaxFaults
          /\ mail[e] <= rows[e] + (MaxFaults - faultsLeft)
      BY <1>2 DEF DInv, DeliveryTypeOK, MailCounted
    <2>2. /\ rows'[e] = rows[e] + IF e \in new THEN 1 ELSE 0
          /\ mail'[e] = mail[e] + IF e \in new THEN 1 ELSE 0
      BY <1>2 DEF Store
    <2>3. CASE e \in new
      BY <2>1, <2>2, <2>3, BoundsAssumption
    <2>4. CASE e \notin new
      BY <2>1, <2>2, <2>4, BoundsAssumption
    <2> QED BY <2>3, <2>4
  <1> QED BY <1>1, <1>2

\* The event of a record_signal call that commits is new.
LEMMA SignalStored ==
  ASSUME DInv, NEW r \in Records, CommitSignal(r)
  PROVE  /\ rows' \in [Events -> 0..1] /\ mail' \in [Events -> 0..(1 + MaxFaults)]
         /\ \A e \in Events : e # <<r, 0>> => rows'[e] = rows[e]
         /\ \A e \in Events : mail'[e] <= rows'[e] + (MaxFaults - faultsLeft)
  <1>1. CASE record[r] = "insert" /\ signal # "none"
    BY <1>1 DEF CommitSignal, DInv, DeliveryTypeOK, MailCounted
  <1>2. CASE ~(record[r] = "insert" /\ signal # "none")
    <2> DEFINE new == IF payload[r] = "timed" THEN {<<r, 0>>} ELSE {}
    <2>1. new \in SUBSET Events /\ \A e \in new : e = <<r, 0>>
      BY EventFacts
    <2>2. rows[<<r, 0>>] = 0
      BY DEF CommitSignal, DInv, RecordedLast
    <2>3. Store(new)
      BY <1>2 DEF CommitSignal
    <2> HIDE DEF new
    <2> QED BY <2>1, <2>2, <2>3, StoreFacts
  <1> QED BY <1>1, <1>2

\* What an open fan-out will announce was not announced by its signal before.
LEMMA FanOutStored ==
  ASSUME DInv, NEW h \in Slots, CommitFanOut(h), task[h].insert \cap intents = {}
  PROVE  \E r \in Records :
         /\ task[h].event = <<r, 0>>
         /\ rows' \in [Events -> 0..1] /\ mail' \in [Events -> 0..(1 + MaxFaults)]
         /\ \A q \in Records : rows'[<<q, 0>>] = rows[<<q, 0>>]
         /\ \A q \in Records, u \in Users :
              rows'[<<q, u>>] = IF q = r /\ u \in task[h].announce THEN 1
                                ELSE rows[<<q, u>>]
         /\ \A e \in Events : mail'[e] <= rows'[e] + (MaxFaults - faultsLeft)
         /\ \A e \in Events : rows'[e] > 0 => rows[e] > 0 \/ mail'[e] > 0
         /\ \A e \in Events : mail'[e] > 0 => rows'[e] > 0
         /\ \A e \in Events : mail'[e] >= mail[e] /\ rows'[e] >= rows[e]
  <1>1. PICK r \in Records : task[h].event = <<r, 0>>
    BY EventFacts DEF CommitFanOut, DInv, EventsTravel, StagesFit, User
  <1> DEFINE new == {<<task[h].event[1], u>> : u \in task[h].announce}
  <1>2. task[h].announce \subseteq Users /\ task[h].event[1] = r
    BY <1>1 DEF DInv, DeliveryTypeOK, Tasks
  <1>3. new \in SUBSET Events
    BY <1>2, EventFacts
  <1>4. \A u \in Users : rows[<<r, u>>] = 0
    <2>1. <<r, 0>> \notin inbox
      BY <1>1 DEF CommitFanOut, DInv, ClaimsExclude, Claimed
    <2> QED BY <2>1, EventFacts DEF DInv, FanOutTogether, DeliveryTypeOK
  <1>5. \A e \in new : rows[e] = 0
    BY <1>2, <1>4
  <1>6. Store(new)
    BY DEF CommitFanOut
  <1>7. /\ \A q \in Records : <<q, 0>> \notin new
        /\ \A q \in Records, u \in Users :
             <<q, u>> \in new <=> q = r /\ u \in task[h].announce
    BY <1>2, EventFacts
  <1> HIDE DEF new
  <1>8. /\ rows' \in [Events -> 0..1] /\ mail' \in [Events -> 0..(1 + MaxFaults)]
        /\ \A e \in Events :
             /\ rows'[e] = IF e \in new THEN 1 ELSE rows[e]
             /\ mail'[e] = mail[e] + IF e \in new THEN 1 ELSE 0
             /\ mail'[e] <= rows'[e] + (MaxFaults - faultsLeft)
    BY <1>3, <1>5, <1>6, StoreFacts
  <1>9. \A e \in Events :
          rows[e] \in 0..1 /\ mail[e] \in Nat /\ (mail[e] > 0 => rows[e] > 0)
    BY DEF DInv, DeliveryTypeOK, EventsTravel
  <1>10. ASSUME NEW e \in Events
         PROVE  /\ rows'[e] > 0 => rows[e] > 0 \/ mail'[e] > 0
                /\ mail'[e] > 0 => rows'[e] > 0
                /\ mail'[e] >= mail[e] /\ rows'[e] >= rows[e]
    <2>1. CASE e \in new
      BY <1>5, <1>8, <1>9, <2>1
    <2>2. CASE e \notin new
      BY <1>8, <1>9, <2>2
    <2> QED BY <2>1, <2>2
  <1>11. /\ \A q \in Records : rows'[<<q, 0>>] = rows[<<q, 0>>]
         /\ \A q \in Records, u \in Users :
              rows'[<<q, u>>] = IF q = r /\ u \in task[h].announce THEN 1
                                ELSE rows[<<q, u>>]
    BY <1>7, <1>8, EventFacts
  <1> QED BY <1>1, <1>8, <1>10, <1>11

\* A transaction that is rolled back leaves a dead letter and nothing else.
LEMMA RejectedKeeps ==
  ASSUME DInv, NEW h \in Slots, Claimed(h), Rejected(h),
         UNCHANGED <<recordVars, expired, enabled, rows, mail, inbox, intents,
                     notification, changesLeft>>,
         faultsLeft' \in 0..faultsLeft
  PROVE  DInv'
  <1> USE DEF recordVars
  <1>1. /\ task' \in [Slots -> Tasks]
        /\ \A g \in Slots : Cardinality(task'[g].todo \cup task'[g].announce) <= Limit
    BY IdleTyped DEF Rejected
  <1>2. task[h].event \in Events
    BY DEF Claimed, DInv, EventsTravel
  <1>3. DeliveryTypeOK'
    BY <1>1, <1>2, BoundsAssumption DEF Rejected, DInv, DeliveryTypeOK
  <1>4. \A g \in Slots : IF g = h THEN task'[g] = Idle ELSE task'[g] = task[g]
    BY DEF Rejected, DInv, DeliveryTypeOK
  <1>5. Idle.at = "idle" /\ Idle.insert = {} /\ Idle.announce = {}
    BY DEF Idle
  <1>6. EventsTravel' /\ ClaimsExclude' /\ StagesFit' /\ FanOutAgrees' /\ LooksHold'
    BY <1>4, <1>5
       DEF DInv, EventsTravel, ClaimsExclude, Claimed, StagesFit, User,
       FanOutAgrees, LooksHold
  <1>7. MailCounted'
    BY BoundsAssumption DEF DInv, MailCounted, DeliveryTypeOK
  <1>8. RecordedLast' /\ FanOutTogether' /\ IntentsAnnounced' /\ NotificationsHandled'
    BY DEF DInv, RecordedLast, FanOutTogether, IntentsAnnounced, Announcing,
       NotificationsHandled
  <1>9. EventsKept'
    BY <1>4, <1>5 DEF Rejected, DInv, EventsKept, Pending
  <1> QED BY <1>3, <1>6, <1>7, <1>8, <1>9 DEF DInv

\* Part of a task's users is still within the limit.
LEMMA FewerUsers ==
  ASSUME NEW S \in SUBSET Users, NEW T \in SUBSET S, Cardinality(S) <= Limit
  PROVE  Cardinality(T) <= Limit
  <1>1. IsFiniteSet(S) /\ IsFiniteSet(T)
    BY UsersAssumption, FS_Subset
  <1>2. /\ Cardinality(S) \in Nat /\ Cardinality(T) \in Nat
        /\ Cardinality(T) <= Cardinality(S)
    BY <1>1, FS_Subset, FS_CardinalityType
  <1> QED BY <1>2, BoundsAssumption

\* Every step of record_signal, of the workers and of the users, and every
\* failure, keep DInv.
LEMMA DeliveryPreserves == DInv /\ [Next]_vars => DInv'
  <1> SUFFICES ASSUME DInv, [Next]_vars PROVE DInv'
    OBVIOUS
  <1>1. ASSUME NEW r \in Records, NEW x \in {"timed", "timeless"}, RecordSignal(r, x)
        PROVE  DInv'
    <2>1. DeliveryTypeOK'
      BY <1>1, BoundsAssumption DEF RecordSignal, FindSignal,
         recordUnchanged, bounds, DInv, DeliveryTypeOK
    <2>2. RecordedLast'
      BY <1>1 DEF RecordSignal, FindSignal, recordUnchanged, bounds, DInv,
         RecordedLast, DeliveryTypeOK
    <2>3. /\ MailCounted' /\ EventsTravel' /\ ClaimsExclude' /\ StagesFit'
          /\ FanOutAgrees' /\ FanOutTogether' /\ IntentsAnnounced'
          /\ NotificationsHandled' /\ LooksHold' /\ EventsKept'
      BY <1>1 DEF RecordSignal, FindSignal, recordUnchanged, bounds, DInv,
         MailCounted, EventsTravel, ClaimsExclude, StagesFit, FanOutAgrees,
         FanOutTogether, IntentsAnnounced, NotificationsHandled, LooksHold,
         EventsKept, Claimed, User, Announcing, Pending
    <2> QED BY <2>1, <2>2, <2>3 DEF DInv
  <1>2. ASSUME NEW r \in Records, MergeSignal(r)
        PROVE  DInv'
    <2>1. DeliveryTypeOK'
      BY <1>2, BoundsAssumption DEF MergeSignal, recordUnchanged, bounds,
         DInv, DeliveryTypeOK
    <2>2. RecordedLast'
      BY <1>2 DEF MergeSignal, recordUnchanged, bounds, DInv, RecordedLast,
         DeliveryTypeOK
    <2>3. /\ MailCounted' /\ EventsTravel' /\ ClaimsExclude' /\ StagesFit'
          /\ FanOutAgrees' /\ FanOutTogether' /\ IntentsAnnounced'
          /\ NotificationsHandled' /\ LooksHold' /\ EventsKept'
      BY <1>2 DEF MergeSignal, recordUnchanged, bounds, DInv, MailCounted,
         EventsTravel, ClaimsExclude, StagesFit, FanOutAgrees,
         FanOutTogether, IntentsAnnounced, NotificationsHandled, LooksHold,
         EventsKept, Claimed, User, Announcing, Pending
    <2> QED BY <2>1, <2>2, <2>3 DEF DInv
  <1>3. ASSUME NEW r \in Records, CommitSignal(r)
        PROVE  DInv'
    <2>1. MailCounted'
      BY <1>3, SignalStored DEF CommitSignal, recordUnchanged, bounds,
         MailCounted
    <2>2. DeliveryTypeOK'
      <3>1. signal' \in {"none", "timeless", "timed"}
        BY <1>3 DEF CommitSignal, DInv, DeliveryTypeOK
      <3>2. /\ record' \in [Records -> {"idle", "found", "insert", "update", "done",
                                        "failed"}]
            /\ payload' \in [Records -> {"none", "timeless", "timed"}]
        BY <1>3 DEF CommitSignal, DInv, DeliveryTypeOK
      <3> QED
        BY <1>3, <3>1, <3>2, SignalStored DEF CommitSignal, recordUnchanged,
           bounds,
           DInv, DeliveryTypeOK
    <2>3. EventsTravel'
      BY <1>3 DEF CommitSignal, Store, recordUnchanged, bounds, DInv,
         EventsTravel, DeliveryTypeOK
    <2>4. RecordedLast'
      <3>1. \A q \in Records : record'[q] \in {"idle", "found", "insert", "update"}
                                 => q # r /\ record'[q] = record[q]
        BY <1>3 DEF CommitSignal, DInv, DeliveryTypeOK
      <3>2. \A q \in Records : q # r => rows'[<<q, 0>>] = rows[<<q, 0>>]
        BY <1>3, SignalStored, EventFacts
      <3> QED BY <3>1, <3>2 DEF DInv, RecordedLast
    <2>5. FanOutTogether'
      <3>1. \A q \in Records, u \in Users : rows'[<<q, u>>] = rows[<<q, u>>]
        BY <1>3, SignalStored, EventFacts
      <3>2. inbox' = inbox
        BY <1>3 DEF CommitSignal, recordUnchanged
      <3> QED BY <3>1, <3>2 DEF DInv, FanOutTogether
    <2>6. IntentsAnnounced'
      <3>1. \A q \in Records, u \in Users : rows'[<<q, u>>] = rows[<<q, u>>]
        BY <1>3, SignalStored, EventFacts
      <3>2. intents' = intents
        BY <1>3 DEF CommitSignal, recordUnchanged
      <3> QED BY <3>1, <3>2 DEF DInv, IntentsAnnounced, Announcing
    <2>7. EventsKept'
      BY <1>3 DEF CommitSignal, Store, recordUnchanged, bounds, DInv,
         EventsKept, Pending, DeliveryTypeOK
    <2>8. /\ ClaimsExclude' /\ StagesFit' /\ FanOutAgrees'
          /\ NotificationsHandled' /\ LooksHold'
      BY <1>3 DEF CommitSignal, Store, recordUnchanged, bounds, DInv,
         ClaimsExclude, StagesFit, FanOutAgrees, NotificationsHandled,
         LooksHold, Claimed, User, Announcing, Pending
    <2> QED BY <2>1, <2>2, <2>3, <2>4, <2>5, <2>6, <2>7, <2>8 DEF DInv
  <1>4. ASSUME Expire
        PROVE  DInv'
    <2>1. DeliveryTypeOK'
      BY <1>4 DEF Expire, recordVars, bounds, eventVars, DInv, DeliveryTypeOK
    <2>2. /\ MailCounted' /\ EventsTravel' /\ RecordedLast' /\ ClaimsExclude'
          /\ StagesFit' /\ FanOutAgrees'
      BY <1>4 DEF Expire, recordVars, bounds, eventVars, DInv, MailCounted,
         EventsTravel, RecordedLast, ClaimsExclude, Claimed, StagesFit, User,
         FanOutAgrees
    <2>3. /\ FanOutTogether' /\ IntentsAnnounced' /\ NotificationsHandled'
          /\ LooksHold' /\ EventsKept'
      BY <1>4 DEF Expire, recordVars, bounds, eventVars, DInv, FanOutTogether,
         IntentsAnnounced, Announcing, NotificationsHandled, LooksHold, User,
         EventsKept, Pending
    <2> QED BY <2>1, <2>2, <2>3 DEF DInv
  <1>5. ASSUME NEW u \in Users, ProjectionChanges(u)
        PROVE  DInv'
    <2>1. DeliveryTypeOK'
      BY <1>5, BoundsAssumption DEF ProjectionChanges, recordVars, eventVars,
         DInv,
         DeliveryTypeOK
    <2>2. /\ MailCounted' /\ EventsTravel' /\ RecordedLast' /\ ClaimsExclude'
          /\ StagesFit' /\ FanOutAgrees'
      BY <1>5 DEF ProjectionChanges, recordVars, eventVars, DInv, MailCounted,
         EventsTravel, RecordedLast, ClaimsExclude, Claimed, StagesFit, User,
         FanOutAgrees
    <2>3. /\ FanOutTogether' /\ IntentsAnnounced' /\ NotificationsHandled'
          /\ LooksHold' /\ EventsKept'
      BY <1>5 DEF ProjectionChanges, recordVars, eventVars, DInv,
         FanOutTogether,
         IntentsAnnounced, Announcing, NotificationsHandled, LooksHold, User,
         EventsKept, Pending
    <2> QED BY <2>1, <2>2, <2>3 DEF DInv
  <1>6. ASSUME NEW h \in Slots, NEW e \in Events, Claim(h, e)
        PROVE  DInv'
    <2>1. MailCounted'
      BY <1>6, BoundsAssumption DEF Claim, Seen, ClaimedElsewhere, StartedAt,
         Idle, workerUnchanged, recordVars, bounds, DInv, MailCounted,
         DeliveryTypeOK
    <2>2. DeliveryTypeOK'
      <3> DEFINE t == [Idle EXCEPT !.at = StartedAt(e), !.event = e]
      <3>1. t \in Tasks /\ t.todo \cup t.announce = {}
        BY <1>6 DEF Idle, Tasks, StartedAt
      <3>2. task' = [task EXCEPT ![h] = t]
        BY <1>6 DEF Claim
      <3>3. Cardinality(t.todo \cup t.announce) <= Limit
        BY <3>1, FS_EmptySet, BoundsAssumption
      <3>4. /\ task' \in [Slots -> Tasks]
            /\ \A g \in Slots : Cardinality(task'[g].todo \cup task'[g].announce) <= Limit
        <4> HIDE DEF t
        <4> QED BY <3>1, <3>2, <3>3, TaskTyped
      <3>5. mail' \in [Events -> 0..(1 + MaxFaults)]
        BY <1>6, BoundsAssumption DEF Claim, DInv, DeliveryTypeOK
      <3> QED
        BY <1>6, <3>4, <3>5 DEF Claim, workerUnchanged, recordVars, bounds,
           DInv,
           DeliveryTypeOK
    <2>3. EventsTravel'
      BY <1>6 DEF Claim, Seen, ClaimedElsewhere, StartedAt, Idle,
         workerUnchanged, recordVars, bounds, DInv, EventsTravel,
         DeliveryTypeOK
    <2>4. ClaimsExclude'
      BY <1>6 DEF Claim, Seen, ClaimedElsewhere, StartedAt, Idle,
         workerUnchanged, recordVars, bounds, DInv, ClaimsExclude, Claimed,
         DeliveryTypeOK
    <2>5. StagesFit'
      BY <1>6 DEF Claim, Seen, ClaimedElsewhere, StartedAt, Idle,
         workerUnchanged, recordVars, bounds, DInv, StagesFit, User,
         DeliveryTypeOK
    <2>6. FanOutAgrees'
      BY <1>6 DEF Claim, Seen, ClaimedElsewhere, StartedAt, Idle,
         workerUnchanged, recordVars, bounds, DInv, FanOutAgrees,
         DeliveryTypeOK
    <2>7. LooksHold'
      BY <1>6 DEF Claim, Seen, ClaimedElsewhere, StartedAt, Idle,
         workerUnchanged, recordVars, bounds, DInv, LooksHold, User,
         DeliveryTypeOK
    <2>8. EventsKept'
      BY <1>6, EventFacts DEF Claim, Seen, ClaimedElsewhere, StartedAt, Idle,
         workerUnchanged, recordVars, bounds, DInv, EventsKept, Pending,
         DeliveryTypeOK
    <2>9. /\ RecordedLast' /\ FanOutTogether' /\ IntentsAnnounced'
          /\ NotificationsHandled'
      BY <1>6 DEF Claim, Seen, ClaimedElsewhere, StartedAt, Idle,
         workerUnchanged, recordVars, bounds, DInv, RecordedLast,
         FanOutTogether, IntentsAnnounced, NotificationsHandled, Claimed,
         User, Announcing, Pending
    <2> QED BY <2>1, <2>2, <2>3, <2>4, <2>5, <2>6, <2>7, <2>8, <2>9 DEF DInv
  <1>7. ASSUME NEW h \in Slots, NEW e \in Events, ClaimDuplicate(h, e)
        PROVE  DInv'
    <2>1. MailCounted'
      BY <1>7, BoundsAssumption DEF ClaimDuplicate, Seen, workerUnchanged,
         recordVars, bounds, DInv, MailCounted, DeliveryTypeOK
    <2>2. DeliveryTypeOK'
      BY <1>7, BoundsAssumption DEF ClaimDuplicate, Seen, workerUnchanged,
         recordVars, bounds, DInv, DeliveryTypeOK
    <2>3. EventsTravel'
      BY <1>7 DEF ClaimDuplicate, Seen, workerUnchanged, recordVars, bounds,
         DInv, EventsTravel, DeliveryTypeOK
    <2>4. EventsKept'
      BY <1>7 DEF ClaimDuplicate, Seen, workerUnchanged, recordVars, bounds,
         DInv, EventsKept, Pending, DeliveryTypeOK
    <2>5. /\ RecordedLast' /\ ClaimsExclude' /\ StagesFit' /\ FanOutAgrees'
          /\ FanOutTogether' /\ IntentsAnnounced' /\ NotificationsHandled'
          /\ LooksHold'
      BY <1>7 DEF ClaimDuplicate, Seen, workerUnchanged, recordVars, bounds,
         DInv, RecordedLast, ClaimsExclude, StagesFit, FanOutAgrees,
         FanOutTogether, IntentsAnnounced, NotificationsHandled, LooksHold,
         Claimed, User, Announcing, Pending
    <2> QED BY <2>1, <2>2, <2>3, <2>4, <2>5 DEF DInv
  <1>8. ASSUME NEW h \in Slots, SkipExpired(h)
        PROVE  DInv'
    <2>1. DeliveryTypeOK'
      <3>1. /\ task' \in [Slots -> Tasks]
            /\ \A g \in Slots :
                 Cardinality(task'[g].todo \cup task'[g].announce) <= Limit
        BY <1>8, IdleTyped DEF SkipExpired, Done
      <3> QED
        BY <1>8, <3>1, BoundsAssumption DEF SkipExpired, Done, workerUnchanged,
           recordVars, bounds, DInv, DeliveryTypeOK, EventsTravel
    <2>2. EventsTravel'
      BY <1>8 DEF SkipExpired, Done, Idle, workerUnchanged, recordVars,
         bounds, DInv, EventsTravel, DeliveryTypeOK
    <2>3. ClaimsExclude'
      BY <1>8 DEF SkipExpired, Done, Idle, workerUnchanged, recordVars,
         bounds, DInv, ClaimsExclude, Claimed, DeliveryTypeOK
    <2>4. StagesFit'
      BY <1>8 DEF SkipExpired, Done, Idle, workerUnchanged, recordVars,
         bounds, DInv, StagesFit, User, DeliveryTypeOK
    <2>5. FanOutAgrees'
      BY <1>8 DEF SkipExpired, Done, Idle, workerUnchanged, recordVars,
         bounds, DInv, FanOutAgrees, DeliveryTypeOK
    <2>6. FanOutTogether'
      BY <1>8 DEF SkipExpired, Done, Idle, workerUnchanged, recordVars,
         bounds, DInv, FanOutTogether, DeliveryTypeOK
    <2>7. NotificationsHandled'
      <3>1. User(h) = 0 /\ task[h].event \in Events
        BY <1>8 DEF SkipExpired, DInv, StagesFit, EventsTravel
      <3>2. \A r \in Records, u \in Users : <<r, u>> # task[h].event
        BY <3>1, EventFacts DEF User
      <3>3. inbox' = inbox \cup {task[h].event} /\ notification' = notification
        BY <1>8 DEF SkipExpired, Done
      <3> QED BY <3>2, <3>3 DEF DInv, NotificationsHandled
    <2>8. LooksHold'
      BY <1>8 DEF SkipExpired, Done, Idle, workerUnchanged, recordVars,
         bounds, DInv, LooksHold, User, DeliveryTypeOK
    <2>9. EventsKept'
      BY <1>8 DEF SkipExpired, Done, Idle, workerUnchanged, recordVars,
         bounds, DInv, EventsKept, Pending, DeliveryTypeOK
    <2>10. /\ MailCounted' /\ RecordedLast' /\ IntentsAnnounced'
      BY <1>8 DEF SkipExpired, Done, Idle, workerUnchanged, recordVars,
         bounds, DInv, MailCounted, RecordedLast, IntentsAnnounced, Claimed,
         User, Announcing, Pending
    <2> QED
      BY <2>1, <2>2, <2>3, <2>4, <2>5, <2>6, <2>7, <2>8, <2>9, <2>10 DEF DInv
  <1>9. ASSUME NEW h \in Slots, ListEnabled(h)
        PROVE  DInv'
    <2>1. DeliveryTypeOK'
      <3> DEFINE t == [task[h] EXCEPT !.at = "fanning", !.todo = FirstOf(enabled)]
      <3>1. task[h] \in Tasks /\ task[h].announce = {} /\ enabled \in SUBSET Users
        BY <1>9 DEF ListEnabled, DInv, DeliveryTypeOK, StagesFit
      <3>2. FirstOf(enabled) \in SUBSET Users /\ Cardinality(FirstOf(enabled)) <= Limit
        BY <3>1, FirstFew
      <3>3. t \in Tasks /\ t.todo \cup t.announce = FirstOf(enabled)
        BY <3>1, <3>2 DEF Tasks
      <3>4. task' = [task EXCEPT ![h] = t]
        BY <1>9 DEF ListEnabled
      <3>5. /\ task' \in [Slots -> Tasks]
            /\ \A g \in Slots : Cardinality(task'[g].todo \cup task'[g].announce) <= Limit
        <4> HIDE DEF t
        <4> QED BY <3>2, <3>3, <3>4, TaskTyped
      <3> QED
        BY <1>9, <3>5 DEF ListEnabled, eventVars, workerUnchanged, recordVars,
           bounds, DInv, DeliveryTypeOK
    <2>2. EventsTravel'
      BY <1>9 DEF ListEnabled, eventVars, workerUnchanged, recordVars,
         bounds, DInv, EventsTravel, DeliveryTypeOK
    <2>3. ClaimsExclude'
      BY <1>9 DEF ListEnabled, eventVars, workerUnchanged, recordVars,
         bounds, DInv, ClaimsExclude, Claimed, DeliveryTypeOK
    <2>4. StagesFit'
      BY <1>9 DEF ListEnabled, eventVars, workerUnchanged, recordVars,
         bounds, DInv, StagesFit, User, DeliveryTypeOK
    <2>5. FanOutAgrees'
      BY <1>9 DEF ListEnabled, eventVars, workerUnchanged, recordVars,
         bounds, DInv, FanOutAgrees, DeliveryTypeOK
    <2>6. LooksHold'
      BY <1>9 DEF ListEnabled, eventVars, workerUnchanged, recordVars,
         bounds, DInv, LooksHold, User, DeliveryTypeOK
    <2>7. EventsKept'
      BY <1>9 DEF ListEnabled, eventVars, workerUnchanged, recordVars,
         bounds, DInv, EventsKept, Pending, DeliveryTypeOK
    <2>8. /\ MailCounted' /\ RecordedLast' /\ FanOutTogether'
          /\ IntentsAnnounced' /\ NotificationsHandled'
      BY <1>9 DEF ListEnabled, eventVars, workerUnchanged, recordVars,
         bounds, DInv, MailCounted, RecordedLast, FanOutTogether,
         IntentsAnnounced, NotificationsHandled, Claimed, User, Announcing,
         Pending
    <2> QED BY <2>1, <2>2, <2>3, <2>4, <2>5, <2>6, <2>7, <2>8 DEF DInv
  <1>10. ASSUME NEW h \in Slots, FindIntent(h)
        PROVE  DInv'
    <2>1. DeliveryTypeOK'
      <3> DEFINE u == Min(task[h].todo)
                 t == IF u \in intents THEN [task[h] EXCEPT !.todo = task[h].todo \ {u}]
                      ELSE [task[h] EXCEPT !.at = "missing"]
      <3>1. /\ task[h] \in Tasks
            /\ Cardinality(task[h].todo \cup task[h].announce) <= Limit
        BY DEF DInv, DeliveryTypeOK
      <3>2. /\ t \in Tasks
            /\ t.todo \cup t.announce \in SUBSET (task[h].todo \cup task[h].announce)
            /\ task[h].todo \cup task[h].announce \in SUBSET Users
        <4> HIDE DEF u
        <4> QED BY <3>1 DEF Tasks
      <3>3. task' = [task EXCEPT ![h] = t]
        BY <1>10 DEF FindIntent
      <3>4. /\ task' \in [Slots -> Tasks]
            /\ \A g \in Slots : Cardinality(task'[g].todo \cup task'[g].announce) <= Limit
        <4> HIDE DEF t
        <4>1. Cardinality(t.todo \cup t.announce) <= Limit
          BY <3>1, <3>2, FewerUsers
        <4> QED BY <3>2, <3>3, <4>1, TaskTyped
      <3> QED
        BY <1>10, <3>4 DEF FindIntent, eventVars, workerUnchanged, recordVars,
           bounds, DInv, DeliveryTypeOK
    <2>2. EventsTravel'
      BY <1>10 DEF FindIntent, eventVars, workerUnchanged, recordVars,
         bounds, DInv, EventsTravel, DeliveryTypeOK
    <2>3. ClaimsExclude'
      BY <1>10 DEF FindIntent, eventVars, workerUnchanged, recordVars,
         bounds, DInv, ClaimsExclude, Claimed, DeliveryTypeOK
    <2>4. StagesFit'
      BY <1>10 DEF FindIntent, eventVars, workerUnchanged, recordVars,
         bounds, DInv, StagesFit, User, DeliveryTypeOK
    <2>5. FanOutAgrees'
      BY <1>10 DEF FindIntent, eventVars, workerUnchanged, recordVars,
         bounds, DInv, FanOutAgrees, DeliveryTypeOK
    <2>6. LooksHold'
      BY <1>10 DEF FindIntent, eventVars, workerUnchanged, recordVars,
         bounds, DInv, LooksHold, User, DeliveryTypeOK
    <2>7. EventsKept'
      BY <1>10 DEF FindIntent, eventVars, workerUnchanged, recordVars,
         bounds, DInv, EventsKept, Pending, DeliveryTypeOK
    <2>8. /\ MailCounted' /\ RecordedLast' /\ FanOutTogether'
          /\ IntentsAnnounced' /\ NotificationsHandled'
      BY <1>10 DEF FindIntent, eventVars, workerUnchanged, recordVars,
         bounds, DInv, MailCounted, RecordedLast, FanOutTogether,
         IntentsAnnounced, NotificationsHandled, Claimed, User, Announcing,
         Pending
    <2> QED BY <2>1, <2>2, <2>3, <2>4, <2>5, <2>6, <2>7, <2>8 DEF DInv
  <1>11. ASSUME NEW h \in Slots, MergeIntent(h)
        PROVE  DInv'
    <2>1. DeliveryTypeOK'
      <3> DEFINE u == Min(task[h].todo)
                 t == [task[h] EXCEPT
                         !.at = "fanning", !.todo = task[h].todo \ {u},
                         !.announce = task[h].announce \cup {u},
                         !.insert = IF u \in intents THEN task[h].insert
                                    ELSE task[h].insert \cup {u}]
      <3>1. /\ task[h] \in Tasks
            /\ Cardinality(task[h].todo \cup task[h].announce) <= Limit
        BY DEF DInv, DeliveryTypeOK
      <3>2. u \in task[h].todo /\ u \in Users
        <4>1. task[h].todo \in SUBSET Users /\ task[h].todo # {}
          BY <1>11, <3>1 DEF MergeIntent, DInv, StagesFit, User, Tasks
        <4>2. task[h].todo \in SUBSET Nat
          BY <4>1, UsersAssumption
        <4> QED BY <4>1, <4>2, MinExists
      <3>3. t \in Tasks /\ t.todo \cup t.announce = task[h].todo \cup task[h].announce
        <4> HIDE DEF u
        <4> QED BY <3>1, <3>2 DEF Tasks
      <3>4. task' = [task EXCEPT ![h] = t]
        BY <1>11 DEF MergeIntent
      <3>5. /\ task' \in [Slots -> Tasks]
            /\ \A g \in Slots : Cardinality(task'[g].todo \cup task'[g].announce) <= Limit
        <4> HIDE DEF t
        <4> QED BY <3>1, <3>3, <3>4, TaskTyped
      <3> QED
        BY <1>11, <3>5 DEF MergeIntent, eventVars, workerUnchanged, recordVars,
           bounds, DInv, DeliveryTypeOK
    <2>2. EventsTravel'
      BY <1>11 DEF MergeIntent, eventVars, workerUnchanged, recordVars,
         bounds, DInv, EventsTravel, DeliveryTypeOK
    <2>3. ClaimsExclude'
      <3>1. /\ task'[h].at = "fanning" /\ task'[h].event = task[h].event
            /\ \A g \in Slots \ {h} : task'[g] = task[g]
        BY <1>11 DEF MergeIntent, DInv, DeliveryTypeOK, Tasks
      <3>2. task[h].at = "missing" /\ inbox' = inbox
        BY <1>11 DEF MergeIntent, eventVars
      <3> QED BY <3>1, <3>2 DEF DInv, ClaimsExclude, Claimed
    <2>4. StagesFit'
      <3>1. /\ task'[h].at = "fanning" /\ task'[h].event = task[h].event
            /\ \A g \in Slots \ {h} : task'[g] = task[g]
        BY <1>11 DEF MergeIntent, DInv, DeliveryTypeOK, Tasks
      <3>2. User(h) = 0 /\ inbox' = inbox
        BY <1>11 DEF MergeIntent, User, eventVars
      <3> QED BY <3>1, <3>2 DEF DInv, StagesFit, User
    <2>5. FanOutAgrees'
      <3> DEFINE u == Min(task[h].todo)
      <3>1. /\ task'[h].announce = task[h].announce \cup {u}
            /\ task'[h].insert = IF u \in intents THEN task[h].insert
                                 ELSE task[h].insert \cup {u}
            /\ \A g \in Slots \ {h} : task'[g] = task[g]
            /\ intents' = intents
        <4>1. task[h] \in Tasks
          BY DEF DInv, DeliveryTypeOK
        <4> QED BY <1>11, <4>1 DEF MergeIntent, DInv, DeliveryTypeOK, Tasks
      <3> HIDE DEF u
      <3> QED BY <3>1 DEF DInv, FanOutAgrees
    <2>6. LooksHold'
      BY <1>11 DEF MergeIntent, eventVars, workerUnchanged, recordVars,
         bounds, DInv, LooksHold, User, DeliveryTypeOK
    <2>7. EventsKept'
      BY <1>11 DEF MergeIntent, eventVars, workerUnchanged, recordVars,
         bounds, DInv, EventsKept, Pending, DeliveryTypeOK
    <2>8. /\ MailCounted' /\ RecordedLast' /\ FanOutTogether'
          /\ IntentsAnnounced' /\ NotificationsHandled'
      BY <1>11 DEF MergeIntent, eventVars, workerUnchanged, recordVars,
         bounds, DInv, MailCounted, RecordedLast, FanOutTogether,
         IntentsAnnounced, NotificationsHandled, Claimed, User, Announcing,
         Pending
    <2> QED BY <2>1, <2>2, <2>3, <2>4, <2>5, <2>6, <2>7, <2>8 DEF DInv
  <1>12. ASSUME NEW h \in Slots, CommitFanOut(h)
        PROVE  DInv'
    <2>1. CASE task[h].insert \cap intents # {}
      BY <1>12, <2>1, RejectedKeeps, BoundsAssumption
         DEF CommitFanOut, Claimed, workerUnchanged, recordVars, bounds, DInv,
         DeliveryTypeOK
    <2>2. CASE task[h].insert \cap intents = {}
      <3>1. PICK r \in Records :
            /\ task[h].event = <<r, 0>>
            /\ rows' \in [Events -> 0..1] /\ mail' \in [Events -> 0..(1 + MaxFaults)]
            /\ \A q \in Records : rows'[<<q, 0>>] = rows[<<q, 0>>]
            /\ \A q \in Records, u \in Users :
                 rows'[<<q, u>>] = IF q = r /\ u \in task[h].announce THEN 1
                                   ELSE rows[<<q, u>>]
            /\ \A e \in Events : mail'[e] <= rows'[e] + (MaxFaults - faultsLeft)
            /\ \A e \in Events : rows'[e] > 0 => rows[e] > 0 \/ mail'[e] > 0
            /\ \A e \in Events : mail'[e] > 0 => rows'[e] > 0
            /\ \A e \in Events : mail'[e] >= mail[e] /\ rows'[e] >= rows[e]
        BY <1>12, <2>2, FanOutStored
      <3>2. /\ task' = [task EXCEPT ![h] = Idle]
            /\ inbox' = inbox \cup {<<r, 0>>}
            /\ intents' = intents \cup task[h].insert
            /\ UNCHANGED <<dlq, notification, recordVars, expired, enabled,
                           changesLeft, faultsLeft>>
        BY <1>12, <2>2, <3>1 DEF CommitFanOut, Done, workerUnchanged, bounds
      <3>3. /\ task' \in [Slots -> Tasks]
            /\ \A g \in Slots : Cardinality(task'[g].todo \cup task'[g].announce) <= Limit
        BY <3>2, IdleTyped
      <3>4. \A g \in Slots : IF g = h THEN task'[g] = Idle ELSE task'[g] = task[g]
        BY <3>2 DEF DInv, DeliveryTypeOK
      <3>5. /\ Idle.at = "idle" /\ Idle.event = None
            /\ Idle.insert = {} /\ Idle.announce = {}
        BY DEF Idle
      <3>6. /\ <<r, 0>> \in Events /\ Claimed(h) /\ rows[<<r, 0>>] > 0
            /\ task[h].insert \subseteq Users
        BY <1>12, <3>1, EventFacts DEF CommitFanOut, Claimed, DInv,
           DeliveryTypeOK,
           Tasks, EventsTravel
      <3>7. DeliveryTypeOK'
        BY <3>1, <3>2, <3>3, <3>6 DEF recordVars, DInv, DeliveryTypeOK
      <3>8. \A e \in Events : rows[e] \in 0..1 /\ rows'[e] \in 0..1 /\ mail[e] \in Nat
                              /\ mail'[e] \in Nat
        BY <3>1 DEF DInv, DeliveryTypeOK
      <3>9. EventsTravel'
        <4>1. \A e \in Events : rows[e] > 0 => rows'[e] > 0
          BY <3>1, <3>8
        <4> QED BY <3>1, <3>2, <3>4, <3>5, <3>6, <4>1 DEF DInv, EventsTravel
      <3>10. MailCounted' /\ RecordedLast'
        BY <3>1, <3>2 DEF recordVars, DInv, MailCounted, RecordedLast
      <3>11. ClaimsExclude' /\ StagesFit' /\ LooksHold'
        BY <3>1, <3>2, <3>4, <3>5, <3>6
           DEF DInv, ClaimsExclude, Claimed, StagesFit, User, LooksHold
      <3>12. FanOutAgrees'
        BY <3>2, <3>4, <3>5 DEF DInv, FanOutAgrees
      <3>13. FanOutTogether'
        BY <3>1, <3>2, EventFacts DEF DInv, FanOutTogether
      <3>14. IntentsAnnounced'
        <4> SUFFICES ASSUME NEW u \in Users
                     PROVE  u \in intents' <=> \E q \in Records : rows'[<<q, u>>] > 0
          BY DEF IntentsAnnounced, Announcing
        <4>1. u \in intents <=> \E q \in Records : rows[<<q, u>>] > 0
          BY DEF DInv, IntentsAnnounced, Announcing
        <4>2. u \in intents' <=> u \in intents \/ u \in task[h].announce
          BY <3>2 DEF DInv, FanOutAgrees
        <4>3. \A q \in Records : rows'[<<q, u>>] > 0 <=>
                rows[<<q, u>>] > 0 \/ (q = r /\ u \in task[h].announce)
          BY <3>1
        <4> QED BY <4>1, <4>2, <4>3
      <3>15. NotificationsHandled'
        BY <3>2, EventFacts DEF DInv, NotificationsHandled
      <3>16. EventsKept'
        <4> SUFFICES ASSUME NEW e \in Events, rows'[e] > 0, e \notin inbox'
                     PROVE  Pending(e)'
          BY DEF EventsKept
        <4>1. CASE mail'[e] > 0
          BY <4>1 DEF Pending
        <4>2. CASE ~(mail'[e] > 0)
          <5>1. rows[e] > 0 /\ e \notin inbox /\ e # <<r, 0>> /\ ~(mail[e] > 0)
            BY <3>1, <3>2, <3>8, <4>2
          <5>2. e \in dlq \/ \E g \in Slots : task[g].event = e
            BY <5>1 DEF DInv, EventsKept, Pending
          <5> QED BY <3>1, <3>2, <3>4, <5>1, <5>2 DEF Pending
        <4> QED BY <4>1, <4>2
      <3> QED
        BY <3>7, <3>9, <3>10, <3>11, <3>12, <3>13, <3>14, <3>15, <3>16 DEF DInv
    <2> QED BY <2>1, <2>2
  <1>13. ASSUME NEW h \in Slots, FindNotification(h)
        PROVE  DInv'
    <2>1. DeliveryTypeOK'
      <3> DEFINE t == [task[h] EXCEPT !.at =
                    IF notification[User(h)] = "none" THEN "missing" ELSE "exists"]
      <3>1. task[h] \in Tasks /\ Cardinality(task[h].todo \cup task[h].announce) <= Limit
        BY DEF DInv, DeliveryTypeOK
      <3>2. t \in Tasks /\ t.todo = task[h].todo /\ t.announce = task[h].announce
        BY <1>13, <3>1 DEF Tasks
      <3>3. task' = [task EXCEPT ![h] = t]
        BY <1>13 DEF FindNotification, User
      <3>4. /\ task' \in [Slots -> Tasks]
            /\ \A g \in Slots : Cardinality(task'[g].todo \cup task'[g].announce) <= Limit
        <4> HIDE DEF t
        <4> QED BY <3>1, <3>2, <3>3, TaskTyped
      <3> QED
        BY <1>13, <3>4 DEF FindNotification, eventVars, workerUnchanged,
           recordVars, bounds,
           DInv, DeliveryTypeOK
    <2>2. EventsTravel'
      BY <1>13 DEF FindNotification, User, eventVars, workerUnchanged,
         recordVars, bounds, DInv, EventsTravel, DeliveryTypeOK
    <2>3. ClaimsExclude'
      BY <1>13 DEF FindNotification, User, eventVars, workerUnchanged,
         recordVars, bounds, DInv, ClaimsExclude, Claimed, DeliveryTypeOK
    <2>4. StagesFit'
      BY <1>13 DEF FindNotification, User, eventVars, workerUnchanged,
         recordVars, bounds, DInv, StagesFit, DeliveryTypeOK
    <2>5. FanOutAgrees'
      BY <1>13 DEF FindNotification, User, eventVars, workerUnchanged,
         recordVars, bounds, DInv, FanOutAgrees, DeliveryTypeOK
    <2>6. LooksHold'
      BY <1>13 DEF FindNotification, User, eventVars, workerUnchanged,
         recordVars, bounds, DInv, LooksHold, DeliveryTypeOK
    <2>7. EventsKept'
      BY <1>13 DEF FindNotification, User, eventVars, workerUnchanged,
         recordVars, bounds, DInv, EventsKept, Pending, DeliveryTypeOK
    <2>8. /\ MailCounted' /\ RecordedLast' /\ FanOutTogether'
          /\ IntentsAnnounced' /\ NotificationsHandled'
      BY <1>13 DEF FindNotification, User, eventVars, workerUnchanged,
         recordVars, bounds, DInv, MailCounted, RecordedLast, FanOutTogether,
         IntentsAnnounced, NotificationsHandled, Claimed, Announcing, Pending
    <2> QED BY <2>1, <2>2, <2>3, <2>4, <2>5, <2>6, <2>7, <2>8 DEF DInv
  <1>14. ASSUME NEW h \in Slots, MergeNotification(h)
        PROVE  DInv'
    <2>1. DeliveryTypeOK'
      <3> DEFINE t == [task[h] EXCEPT !.at =
                    CASE notification[User(h)] = "none" -> "insert"
                      [] notification[User(h)] = "unread" -> "update"
                      [] notification[User(h)] = "read" -> "clear"]
      <3>1. task[h] \in Tasks /\ Cardinality(task[h].todo \cup task[h].announce) <= Limit
        BY DEF DInv, DeliveryTypeOK
      <3>2. t \in Tasks /\ t.todo = task[h].todo /\ t.announce = task[h].announce
        <4>1. notification[User(h)] \in {"none", "unread", "read"}
          BY <1>14, EventFacts DEF MergeNotification, User, DInv, EventsTravel,
             DeliveryTypeOK
        <4> QED BY <3>1, <4>1 DEF Tasks
      <3>3. task' = [task EXCEPT ![h] = t]
        BY <1>14 DEF MergeNotification, User
      <3>4. /\ task' \in [Slots -> Tasks]
            /\ \A g \in Slots : Cardinality(task'[g].todo \cup task'[g].announce) <= Limit
        <4> HIDE DEF t
        <4> QED BY <3>1, <3>2, <3>3, TaskTyped
      <3> QED
        BY <1>14, <3>4 DEF MergeNotification, eventVars, workerUnchanged,
           recordVars, bounds,
           DInv, DeliveryTypeOK
    <2>2. EventsTravel'
      BY <1>14 DEF MergeNotification, User, eventVars, workerUnchanged,
         recordVars, bounds, DInv, EventsTravel, DeliveryTypeOK
    <2>3. ClaimsExclude'
      BY <1>14 DEF MergeNotification, User, eventVars, workerUnchanged,
         recordVars, bounds, DInv, ClaimsExclude, Claimed, DeliveryTypeOK
    <2>4. StagesFit'
      BY <1>14, EventFacts DEF MergeNotification, User, eventVars,
         workerUnchanged, recordVars, bounds, DInv, StagesFit,
         DeliveryTypeOK, EventsTravel
    <2>5. FanOutAgrees'
      BY <1>14 DEF MergeNotification, User, eventVars, workerUnchanged,
         recordVars, bounds, DInv, FanOutAgrees, DeliveryTypeOK
    <2>6. LooksHold'
      BY <1>14 DEF MergeNotification, User, eventVars, workerUnchanged,
         recordVars, bounds, DInv, LooksHold, DeliveryTypeOK
    <2>7. EventsKept'
      BY <1>14 DEF MergeNotification, User, eventVars, workerUnchanged,
         recordVars, bounds, DInv, EventsKept, Pending, DeliveryTypeOK
    <2>8. /\ MailCounted' /\ RecordedLast' /\ FanOutTogether'
          /\ IntentsAnnounced' /\ NotificationsHandled'
      BY <1>14 DEF MergeNotification, User, eventVars, workerUnchanged,
         recordVars, bounds, DInv, MailCounted, RecordedLast, FanOutTogether,
         IntentsAnnounced, NotificationsHandled, Claimed, Announcing, Pending
    <2> QED BY <2>1, <2>2, <2>3, <2>4, <2>5, <2>6, <2>7, <2>8 DEF DInv
  <1>15. ASSUME NEW h \in Slots, NotificationExists(h)
        PROVE  DInv'
    <2>1. DeliveryTypeOK'
      <3>1. /\ task' \in [Slots -> Tasks]
            /\ \A g \in Slots :
                 Cardinality(task'[g].todo \cup task'[g].announce) <= Limit
        BY <1>15, IdleTyped DEF NotificationExists, Done
      <3> QED
        BY <1>15, <3>1, BoundsAssumption DEF NotificationExists, Done,
           workerUnchanged, recordVars, bounds, DInv, DeliveryTypeOK,
           EventsTravel
    <2>2. EventsTravel'
      BY <1>15 DEF NotificationExists, Done, Idle, workerUnchanged,
         recordVars, bounds, DInv, EventsTravel, DeliveryTypeOK
    <2>3. ClaimsExclude'
      BY <1>15 DEF NotificationExists, Done, Idle, workerUnchanged,
         recordVars, bounds, DInv, ClaimsExclude, Claimed, DeliveryTypeOK
    <2>4. StagesFit'
      BY <1>15 DEF NotificationExists, Done, Idle, workerUnchanged,
         recordVars, bounds, DInv, StagesFit, User, DeliveryTypeOK
    <2>5. FanOutAgrees'
      BY <1>15 DEF NotificationExists, Done, Idle, workerUnchanged,
         recordVars, bounds, DInv, FanOutAgrees, DeliveryTypeOK
    <2>6. FanOutTogether'
      BY <1>15 DEF NotificationExists, Done, Idle, workerUnchanged,
         recordVars, bounds, DInv, FanOutTogether, DeliveryTypeOK
    <2>7. NotificationsHandled'
      <3>1. PICK r \in Records, u \in Users : task[h].event = <<r, u>>
        BY <1>15, EventFacts DEF NotificationExists, DInv, EventsTravel,
           StagesFit,
           User
      <3>2. notification[u] # "none"
        BY <1>15, <3>1 DEF NotificationExists, DInv, LooksHold, User
      <3>3. inbox' = inbox \cup {<<r, u>>} /\ notification' = notification
        BY <1>15, <3>1 DEF NotificationExists, Done
      <3> QED BY <3>1, <3>2, <3>3 DEF DInv, NotificationsHandled
    <2>8. LooksHold'
      BY <1>15 DEF NotificationExists, Done, Idle, workerUnchanged,
         recordVars, bounds, DInv, LooksHold, User, DeliveryTypeOK
    <2>9. EventsKept'
      BY <1>15 DEF NotificationExists, Done, Idle, workerUnchanged,
         recordVars, bounds, DInv, EventsKept, Pending, DeliveryTypeOK
    <2>10. /\ MailCounted' /\ RecordedLast' /\ IntentsAnnounced'
      BY <1>15 DEF NotificationExists, Done, Idle, workerUnchanged,
         recordVars, bounds, DInv, MailCounted, RecordedLast,
         IntentsAnnounced, Claimed, User, Announcing, Pending
    <2> QED
      BY <2>1, <2>2, <2>3, <2>4, <2>5, <2>6, <2>7, <2>8, <2>9, <2>10 DEF DInv
  <1>16. ASSUME NEW h \in Slots, CommitNotification(h)
        PROVE  DInv'
    <2>1. PICK r \in Records, u \in Users : task[h].event = <<r, u>>
      BY <1>16, EventFacts DEF CommitNotification, DInv, EventsTravel,
         StagesFit,
         User
    <2>2. /\ Claimed(h) /\ User(h) = u /\ task[h] \in Tasks
          /\ \A v \in Users : notification[v] \in {"none", "unread", "read"}
      BY <1>16, <2>1 DEF CommitNotification, Claimed, User, DInv,
         DeliveryTypeOK
    <2>3. CASE task[h].at = "insert" /\ notification[User(h)] # "none"
      BY <1>16, <2>2, <2>3, RejectedKeeps, BoundsAssumption
         DEF CommitNotification, workerUnchanged, recordVars, bounds, DInv,
         DeliveryTypeOK
    <2>4. CASE ~(task[h].at = "insert" /\ notification[User(h)] # "none")
      <3> DEFINE t == [task[h] EXCEPT !.at = "hint"]
      <3>1. /\ task' = [task EXCEPT ![h] = t]
            /\ inbox' = inbox \cup {<<r, u>>}
            /\ notification' = IF task[h].at = "update" THEN notification
                               ELSE [notification EXCEPT ![u] = "unread"]
            /\ UNCHANGED <<rows, mail, dlq, intents, recordVars, expired, enabled,
                           changesLeft, faultsLeft>>
        BY <1>16, <2>1, <2>2, <2>4 DEF CommitNotification, workerUnchanged,
           bounds
      <3>2. /\ t \in Tasks /\ t.at = "hint" /\ t.event = <<r, u>>
            /\ t.todo = task[h].todo /\ t.insert = task[h].insert
            /\ t.announce = task[h].announce
        BY <2>1, <2>2 DEF Tasks
      <3> HIDE DEF t
      <3>3. /\ task' \in [Slots -> Tasks]
            /\ \A g \in Slots : Cardinality(task'[g].todo \cup task'[g].announce) <= Limit
        BY <3>1, <3>2, TaskTyped DEF DInv, DeliveryTypeOK
      <3>4. \A g \in Slots : IF g = h THEN task'[g] = t ELSE task'[g] = task[g]
        BY <3>1 DEF DInv, DeliveryTypeOK
      <3>5. /\ notification' \in [Users -> {"none", "unread", "read"}]
            /\ notification'[u] # "none"
            /\ \A v \in Users : v # u => notification'[v] = notification[v]
            /\ \A v \in Users : notification[v] # "none" => notification'[v] # "none"
        BY <1>16, <2>1, <2>2, <3>1
           DEF CommitNotification, DInv, DeliveryTypeOK, LooksHold
      <3>6. DeliveryTypeOK'
        BY <2>1, <3>1, <3>3, <3>5, EventFacts DEF recordVars, DInv,
           DeliveryTypeOK
      <3>7. <<r, u>> \in Events /\ rows[<<r, u>>] > 0 /\ u # 0 /\ <<r, u>>[2] = u
        BY <1>16, <2>1, EventFacts DEF CommitNotification, DInv, EventsTravel
      <3>8. EventsTravel' /\ FanOutAgrees'
        BY <3>1, <3>2, <3>4, <3>7 DEF DInv, EventsTravel, FanOutAgrees
      <3>9. ClaimsExclude'
        BY <2>1, <2>2, <3>1, <3>2, <3>4 DEF DInv, ClaimsExclude, Claimed
      <3>10. StagesFit'
        BY <3>1, <3>2, <3>4, <3>7 DEF DInv, StagesFit, User
      <3>11. LooksHold'
        <4>1. \A g \in Slots : task[g].at \in {"exists", "update", "clear", "hint"}
                                 => User(g) \in Users /\ notification[User(g)] # "none"
          BY EventFacts DEF DInv, LooksHold, EventsTravel, StagesFit, User
        <4> QED BY <3>2, <3>4, <3>5, <3>7, <4>1 DEF LooksHold, User
      <3>12. MailCounted' /\ RecordedLast' /\ FanOutTogether' /\ IntentsAnnounced'
        BY <3>1 DEF recordVars, DInv, MailCounted, RecordedLast,
           FanOutTogether,
           IntentsAnnounced, Announcing
      <3>13. NotificationsHandled'
        BY <2>1, <3>1, <3>5 DEF DInv, NotificationsHandled
      <3>14. EventsKept'
        BY <2>1, <3>1, <3>2, <3>4 DEF DInv, EventsKept, Pending
      <3> QED
        BY <3>6, <3>8, <3>9, <3>10, <3>11, <3>12, <3>13, <3>14 DEF DInv
    <2> QED BY <2>3, <2>4
  <1>17. ASSUME NEW h \in Slots, PublishHint(h)
        PROVE  DInv'
    <2>1. DeliveryTypeOK'
      <3>1. /\ task' \in [Slots -> Tasks]
            /\ \A g \in Slots :
                 Cardinality(task'[g].todo \cup task'[g].announce) <= Limit
        BY <1>17, IdleTyped DEF PublishHint
      <3> QED
        BY <1>17, <3>1, BoundsAssumption DEF PublishHint, eventVars,
           workerUnchanged, recordVars, bounds, DInv, DeliveryTypeOK,
           EventsTravel
    <2>2. EventsTravel'
      BY <1>17 DEF PublishHint, Idle, eventVars, workerUnchanged, recordVars,
         bounds, DInv, EventsTravel, DeliveryTypeOK
    <2>3. ClaimsExclude'
      BY <1>17 DEF PublishHint, Idle, eventVars, workerUnchanged, recordVars,
         bounds, DInv, ClaimsExclude, Claimed, DeliveryTypeOK
    <2>4. StagesFit'
      BY <1>17 DEF PublishHint, Idle, eventVars, workerUnchanged, recordVars,
         bounds, DInv, StagesFit, User, DeliveryTypeOK
    <2>5. FanOutAgrees'
      BY <1>17 DEF PublishHint, Idle, eventVars, workerUnchanged, recordVars,
         bounds, DInv, FanOutAgrees, DeliveryTypeOK
    <2>6. LooksHold'
      BY <1>17 DEF PublishHint, Idle, eventVars, workerUnchanged, recordVars,
         bounds, DInv, LooksHold, User, DeliveryTypeOK
    <2>7. EventsKept'
      BY <1>17 DEF PublishHint, Idle, eventVars, workerUnchanged, recordVars,
         bounds, DInv, EventsKept, Pending, DeliveryTypeOK, StagesFit
    <2>8. /\ MailCounted' /\ RecordedLast' /\ FanOutTogether'
          /\ IntentsAnnounced' /\ NotificationsHandled'
      BY <1>17 DEF PublishHint, Idle, eventVars, workerUnchanged, recordVars,
         bounds, DInv, MailCounted, RecordedLast, FanOutTogether,
         IntentsAnnounced, NotificationsHandled, Claimed, User, Announcing,
         Pending
    <2> QED BY <2>1, <2>2, <2>3, <2>4, <2>5, <2>6, <2>7, <2>8 DEF DInv
  <1>18. ASSUME NEW u \in Users, MarkRead(u)
        PROVE  DInv'
    <2>1. DeliveryTypeOK'
      BY <1>18, BoundsAssumption DEF MarkRead, MarkUserNotificationRead,
         recordVars, bounds, eventVars, DInv, DeliveryTypeOK
    <2>2. NotificationsHandled'
      BY <1>18 DEF MarkRead, MarkUserNotificationRead, recordVars, bounds,
         eventVars, DInv, NotificationsHandled, DeliveryTypeOK
    <2>3. LooksHold'
      BY <1>18 DEF MarkRead, MarkUserNotificationRead, recordVars, bounds,
         eventVars, DInv, LooksHold, User, DeliveryTypeOK
    <2>4. /\ MailCounted' /\ EventsTravel' /\ RecordedLast' /\ ClaimsExclude'
          /\ StagesFit' /\ FanOutAgrees' /\ FanOutTogether'
          /\ IntentsAnnounced' /\ EventsKept'
      BY <1>18 DEF MarkRead, MarkUserNotificationRead, recordVars, bounds,
         eventVars, DInv, MailCounted, EventsTravel, RecordedLast,
         ClaimsExclude, StagesFit, FanOutAgrees, FanOutTogether,
         IntentsAnnounced, EventsKept, Claimed, User, Announcing, Pending
    <2> QED BY <2>1, <2>2, <2>3, <2>4 DEF DInv
  <1>19. ASSUME NEW h \in Slots, HandlerFails(h),
              faultsLeft > 0, faultsLeft' = faultsLeft - 1,
              UNCHANGED <<recordVars, expired, enabled, intents, notification,
                          changesLeft>>
        PROVE  DInv'
    BY <1>19, RejectedKeeps, BoundsAssumption DEF HandlerFails, Claimed, DInv,
       DeliveryTypeOK
  <1>20. ASSUME NEW h \in Slots, HintSkipped(h),
              faultsLeft > 0, faultsLeft' = faultsLeft - 1,
              UNCHANGED <<recordVars, expired, enabled, intents, notification,
                          changesLeft>>
        PROVE  DInv'
    <2>1. MailCounted'
      BY <1>20, BoundsAssumption DEF HintSkipped, Idle, recordVars,
         eventVars, DInv, MailCounted, DeliveryTypeOK
    <2>2. DeliveryTypeOK'
      <3>1. /\ task' \in [Slots -> Tasks]
            /\ \A g \in Slots :
                 Cardinality(task'[g].todo \cup task'[g].announce) <= Limit
        BY <1>20, IdleTyped DEF HintSkipped
      <3> QED
        BY <1>20, <2>1, <3>1, BoundsAssumption DEF HintSkipped, recordVars,
           eventVars, DInv, DeliveryTypeOK, EventsTravel, MailCounted
    <2>3. EventsTravel'
      BY <1>20 DEF HintSkipped, Idle, recordVars, eventVars, DInv,
         EventsTravel, DeliveryTypeOK
    <2>4. ClaimsExclude'
      BY <1>20 DEF HintSkipped, Idle, recordVars, eventVars, DInv,
         ClaimsExclude, Claimed, DeliveryTypeOK
    <2>5. StagesFit'
      BY <1>20 DEF HintSkipped, Idle, recordVars, eventVars, DInv, StagesFit,
         User, DeliveryTypeOK
    <2>6. FanOutAgrees'
      BY <1>20 DEF HintSkipped, Idle, recordVars, eventVars, DInv,
         FanOutAgrees, DeliveryTypeOK
    <2>7. LooksHold'
      BY <1>20 DEF HintSkipped, Idle, recordVars, eventVars, DInv, LooksHold,
         User, DeliveryTypeOK
    <2>8. EventsKept'
      BY <1>20 DEF HintSkipped, Idle, recordVars, eventVars, DInv,
         EventsKept, Pending, DeliveryTypeOK, StagesFit
    <2>9. /\ RecordedLast' /\ FanOutTogether' /\ IntentsAnnounced'
          /\ NotificationsHandled'
      BY <1>20 DEF HintSkipped, Idle, recordVars, eventVars, DInv,
         RecordedLast, FanOutTogether, IntentsAnnounced,
         NotificationsHandled, Claimed, User, Announcing, Pending
    <2> QED BY <2>1, <2>2, <2>3, <2>4, <2>5, <2>6, <2>7, <2>8, <2>9 DEF DInv
  <1>21. ASSUME NEW h \in Slots, WorkerCrash(h),
              faultsLeft > 0, faultsLeft' = faultsLeft - 1,
              UNCHANGED <<recordVars, expired, enabled, intents, notification,
                          changesLeft>>
        PROVE  DInv'
    <2>1. MailCounted'
      BY <1>21, BoundsAssumption DEF WorkerCrash, Idle, recordVars, DInv,
         MailCounted, DeliveryTypeOK, EventsTravel
    <2>2. DeliveryTypeOK'
      <3>1. /\ task' \in [Slots -> Tasks]
            /\ \A g \in Slots :
                 Cardinality(task'[g].todo \cup task'[g].announce) <= Limit
        BY <1>21, IdleTyped DEF WorkerCrash
      <3> QED
        BY <1>21, <2>1, <3>1, BoundsAssumption DEF WorkerCrash, recordVars,
           DInv,
           DeliveryTypeOK, EventsTravel, MailCounted
    <2>3. EventsTravel'
      BY <1>21 DEF WorkerCrash, Idle, recordVars, DInv, EventsTravel,
         DeliveryTypeOK
    <2>4. ClaimsExclude'
      BY <1>21 DEF WorkerCrash, Idle, recordVars, DInv, ClaimsExclude,
         Claimed, DeliveryTypeOK
    <2>5. StagesFit'
      BY <1>21 DEF WorkerCrash, Idle, recordVars, DInv, StagesFit, User,
         DeliveryTypeOK
    <2>6. FanOutAgrees'
      BY <1>21 DEF WorkerCrash, Idle, recordVars, DInv, FanOutAgrees,
         DeliveryTypeOK
    <2>7. LooksHold'
      BY <1>21 DEF WorkerCrash, Idle, recordVars, DInv, LooksHold, User,
         DeliveryTypeOK
    <2>8. EventsKept'
      BY <1>21 DEF WorkerCrash, Idle, recordVars, DInv, EventsKept, Pending,
         DeliveryTypeOK
    <2>9. /\ RecordedLast' /\ FanOutTogether' /\ IntentsAnnounced'
          /\ NotificationsHandled'
      BY <1>21 DEF WorkerCrash, Idle, recordVars, DInv, RecordedLast,
         FanOutTogether, IntentsAnnounced, NotificationsHandled, Claimed,
         User, Announcing, Pending
    <2> QED BY <2>1, <2>2, <2>3, <2>4, <2>5, <2>6, <2>7, <2>8, <2>9 DEF DInv
  <1>22. ASSUME NEW e \in Events, Redeliver(e),
              faultsLeft > 0, faultsLeft' = faultsLeft - 1,
              UNCHANGED <<recordVars, expired, enabled, intents, notification,
                          changesLeft>>
        PROVE  DInv'
    <2>1. MailCounted'
      BY <1>22, BoundsAssumption DEF Redeliver, recordVars, DInv,
         MailCounted, DeliveryTypeOK
    <2>2. DeliveryTypeOK'
      <3>1. mail' \in [Events -> 0..(1 + MaxFaults)]
        <4>1. mail' \in [Events -> Nat]
          BY <1>22 DEF Redeliver, DInv, DeliveryTypeOK
        <4>2. ASSUME NEW d \in Events
              PROVE  mail'[d] \in 0..(1 + MaxFaults)
          <5>1. rows'[d] \in 0..1 /\ faultsLeft' \in 0..MaxFaults
            BY <1>22, BoundsAssumption DEF Redeliver, DInv, DeliveryTypeOK
          <5> QED BY <2>1, <4>1, <4>2, <5>1, BoundsAssumption DEF MailCounted
        <4> QED BY <4>1, <4>2
      <3> QED
        BY <1>22, <3>1, BoundsAssumption DEF Redeliver, recordVars, DInv,
           DeliveryTypeOK
    <2>3. EventsTravel'
      BY <1>22 DEF Redeliver, recordVars, DInv, EventsTravel, DeliveryTypeOK
    <2>4. EventsKept'
      BY <1>22 DEF Redeliver, recordVars, DInv, EventsKept, Pending,
         DeliveryTypeOK
    <2>5. /\ RecordedLast' /\ ClaimsExclude' /\ StagesFit' /\ FanOutAgrees'
          /\ FanOutTogether' /\ IntentsAnnounced' /\ NotificationsHandled'
          /\ LooksHold'
      BY <1>22 DEF Redeliver, recordVars, DInv, RecordedLast, ClaimsExclude,
         StagesFit, FanOutAgrees, FanOutTogether, IntentsAnnounced,
         NotificationsHandled, LooksHold, Claimed, User, Announcing, Pending
    <2> QED BY <2>1, <2>2, <2>3, <2>4, <2>5 DEF DInv
  <1>23. ASSUME UNCHANGED <<recordVars, expired, enabled, eventVars, intents,
                          notification, task>>,
               changesLeft' \in 0..changesLeft, faultsLeft' \in 0..faultsLeft
        PROVE  DInv'
    <2>1. MailCounted'
      BY <1>23, BoundsAssumption DEF eventVars, DInv, MailCounted,
         DeliveryTypeOK
    <2>2. DeliveryTypeOK'
      BY <1>23, BoundsAssumption DEF recordVars, eventVars, DInv,
         DeliveryTypeOK
    <2>3. /\ EventsTravel' /\ RecordedLast' /\ ClaimsExclude' /\ StagesFit'
          /\ FanOutAgrees' /\ FanOutTogether' /\ IntentsAnnounced'
          /\ NotificationsHandled' /\ LooksHold' /\ EventsKept'
      BY <1>23 DEF recordVars, eventVars, DInv, EventsTravel, RecordedLast,
         ClaimsExclude, Claimed, StagesFit, User, FanOutAgrees, FanOutTogether,
         IntentsAnnounced, Announcing, NotificationsHandled, LooksHold,
         EventsKept, Pending
    <2> QED BY <2>1, <2>2, <2>3 DEF DInv
  <1>24. /\ faultsLeft \in 0..MaxFaults /\ faultsLeft \in 0..faultsLeft
         /\ changesLeft \in 0..MaxChanges /\ changesLeft \in 0..changesLeft
    BY BoundsAssumption DEF DInv, DeliveryTypeOK
  <1>25. ASSUME NEW h \in Slots, WorkerStep(h)
        PROVE  DInv'
    BY <1>6, <1>7, <1>8, <1>9, <1>10, <1>11, <1>12, <1>13, <1>14, <1>15, <1>16,
       <1>17, <1>25 DEF WorkerStep
  <1>26. ASSUME World
        PROVE  DInv'
    <2>1. ASSUME AudienceChanges
          PROVE  DInv'
      <3>1. changesLeft' \in 0..changesLeft
        BY <1>24, <2>1 DEF AudienceChanges
      <3> QED BY <1>23, <1>24, <2>1, <3>1 DEF AudienceChanges
    <2> QED BY <1>4, <1>5, <1>18, <1>23, <1>24, <1>26, <2>1 DEF World, bounds
  <1>27. ASSUME Failure
        PROVE  DInv'
    <2>1. faultsLeft' \in 0..faultsLeft
      BY <1>24, <1>27 DEF Failure
    <2> QED BY <1>19, <1>20, <1>21, <1>22, <1>23, <1>24, <1>27, <2>1 DEF Failure
  <1>28. CASE UNCHANGED vars
    BY <1>23, <1>24, <1>28 DEF vars, bounds
  <1> QED
    BY <1>1, <1>2, <1>3, <1>25, <1>26, <1>27, <1>28 DEF Next

-----------------------------------------------------------------------------
(* Both *)

\* The steps that are seen by the process, and those that write notifications.
LEMMA StepKinds ==
  ASSUME [Next]_vars
  PROVE  /\ \/ \E h \in Slots : PublishHint(h)
            \/ \E h \in Slots, k \in Sockets :
                 task[h].at = "hint" /\ Accept(k, User(h))
            \/ RealtimeStep \/ CloseBackplane \/ ConnectionLost \/ ListenerDies
            \/ UNCHANGED hintVars
         /\ \/ \E h \in Slots : CommitNotification(h)
            \/ \E u \in Users : MarkRead(u)
            \/ UNCHANGED notification
  <1>1. ASSUME NEW h \in Slots, WorkerStep(h)
        PROVE  /\ PublishHint(h) \/ UNCHANGED hintVars
               /\ CommitNotification(h) \/ UNCHANGED notification
    BY <1>1
       DEF WorkerStep, Claim, ClaimDuplicate, SkipExpired, ListEnabled,
       FindIntent, MergeIntent, CommitFanOut, FindNotification,
       MergeNotification, NotificationExists, CommitNotification, PublishHint
  <1>2. ASSUME World
        PROVE  /\ \/ \E h \in Slots, k \in Sockets :
                       task[h].at = "hint" /\ Accept(k, User(h))
                  \/ RealtimeStep \/ CloseBackplane \/ UNCHANGED hintVars
               /\ (\E u \in Users : MarkRead(u)) \/ UNCHANGED notification
    BY <1>2 DEF World, Expire, ProjectionChanges, MarkRead, AudienceChanges
  <1>3. ASSUME Failure
        PROVE  /\ ConnectionLost \/ ListenerDies \/ UNCHANGED hintVars
               /\ UNCHANGED notification
    BY <1>3 DEF Failure, HandlerFails, HintSkipped, WorkerCrash, Redeliver
  <1>4. ASSUME \/ \E r \in Records, x \in {"timed", "timeless"} : RecordSignal(r, x)
               \/ \E r \in Records : MergeSignal(r) \/ CommitSignal(r)
        PROVE  UNCHANGED hintVars /\ UNCHANGED notification
    BY <1>4 DEF RecordSignal, MergeSignal, CommitSignal, recordUnchanged
  <1>5. CASE UNCHANGED vars
    BY <1>5 DEF vars
  <1> QED BY <1>1, <1>2, <1>3, <1>4, <1>5 DEF Next

\* The handler that is committed or has a hint to publish has a user.
LEMMA HandlersUser ==
  ASSUME DInv, NEW h \in Slots,
         task[h].at \in {"insert", "update", "clear", "hint"}
  PROVE  /\ User(h) \in Users
         /\ \E r \in Records : task[h].event = <<r, User(h)>>
         /\ rows[task[h].event] > 0
  BY EventFacts DEF DInv, EventsTravel, StagesFit, User

\* A notification never goes away.
LEMMA NotificationsStay ==
  ASSUME DInv, [Next]_vars, NEW u \in Users, notification[u] # "none"
  PROVE  notification'[u] # "none"
  <1>1. ASSUME NEW h \in Slots, CommitNotification(h)
        PROVE  notification'[u] # "none"
    <2>1. User(h) \in Users
      BY <1>1, HandlersUser DEF CommitNotification
    <2> QED BY <1>1, <2>1 DEF CommitNotification, DInv, DeliveryTypeOK
  <1>2. ASSUME NEW v \in Users, MarkRead(v)
        PROVE  notification'[u] # "none"
    BY <1>2 DEF MarkRead, MarkUserNotificationRead, DInv, DeliveryTypeOK
  <1> QED BY <1>1, <1>2, StepKinds

\* Every step keeps the whole invariant.
LEMMA StepPreserves == SInv /\ [Next]_vars => SInv'
  <1> SUFFICES ASSUME SInv, [Next]_vars PROVE SInv'
    OBVIOUS
  <1>1. DInv /\ HInv /\ HintsNamed
    BY DEF SInv
  <1>2. DInv'
    BY <1>1, DeliveryPreserves
  <1>3. ASSUME NEW h \in Slots, PublishHint(h)
        PROVE  /\ User(h) \in Users /\ notification[User(h)] # "none"
               /\ Broadcast(User(h))
               /\ UNCHANGED <<app, listener, sending, socket, holder, subscribers>>
    BY <1>1, <1>3, HandlersUser DEF PublishHint, DInv, LooksHold
  <1>4. HInv'
    <2>1. ASSUME NEW h \in Slots, task[h].at = "hint"
          PROVE  User(h) \in Users
      BY <1>1, <2>1, HandlersUser
    <2> QED BY <1>1, <1>3, <2>1, StepKinds, RealtimePreserves
  <1>5. /\ \A u \in topic' : u \in Users /\ notification[u] # "none"
        /\ sending' # None => /\ sending'.user \in Users
                              /\ notification[sending'.user] # "none"
    <2>1. /\ \A u \in topic : u \in Users /\ notification[u] # "none"
          /\ sending # None => /\ sending.user \in Users
                               /\ notification[sending.user] # "none"
      BY <1>1 DEF HintsNamed, HInv, RealtimeTypeOK, Hints
    <2>2. ASSUME NEW h \in Slots, PublishHint(h)
          PROVE  topic' \subseteq topic \cup {User(h)} /\ sending' = sending
      BY <1>3, <2>2 DEF Broadcast
    <2>3. ASSUME NEW u \in Users, Receive(u)
          PROVE  /\ topic' \subseteq topic /\ u \in topic
                 /\ sending' = None \/ sending'.user = u
      BY <2>3 DEF Receive, Publish
    <2>4. ASSUME NEW k \in Sockets, Send(k)
          PROVE  /\ topic' = topic /\ sending # None
                 /\ sending' = None \/ sending'.user = sending.user
      BY <1>1, <2>4 DEF Send, Sent, HInv, RealtimeTypeOK, Hints
    <2>5. ASSUME RealtimeStep, \A u \in Users : ~Receive(u), \A k \in Sockets : ~Send(k)
          PROVE  topic' \subseteq topic /\ (sending' = sending \/ sending' = None)
      BY <2>5 DEF RealtimeStep, Listen, Stream, Disconnect, Leave, CloseHub
    <2>6. ASSUME \/ CloseBackplane \/ ConnectionLost \/ UNCHANGED hintVars
                 \/ \E h \in Slots, k \in Sockets : Accept(k, User(h))
          PROVE  topic' \subseteq topic /\ (sending' = sending \/ sending' = None)
      BY <2>6 DEF CloseBackplane, ConnectionLost, Accept, hintVars
    <2>7. CASE \E h \in Slots : PublishHint(h)
      BY <1>3, <2>1, <2>2, <2>7
    <2>8. CASE RealtimeStep
      <3>1. CASE \E u \in Users : Receive(u)
        BY <2>1, <2>3, <3>1
      <3>2. CASE \E k \in Sockets : Send(k)
        BY <2>1, <2>4, <3>2
      <3>3. CASE (\A u \in Users : ~Receive(u)) /\ \A k \in Sockets : ~Send(k)
        BY <2>1, <2>5, <2>8, <3>3
      <3> QED BY <3>1, <3>2, <3>3
    <2>9. CASE \/ CloseBackplane \/ ConnectionLost \/ UNCHANGED hintVars
               \/ \E h \in Slots, k \in Sockets : Accept(k, User(h))
      BY <2>1, <2>6, <2>9
    <2>10. CASE ListenerDies
      <3>1. /\ topic' \subseteq topic
            /\ \/ sending' = sending \/ sending' = None
               \/ sending # None /\ sending'.user = sending.user
        BY <1>1, <2>10 DEF ListenerDies, Sent, HInv, RealtimeTypeOK, Hints
      <3> QED BY <2>1, <3>1
    <2> QED BY <2>7, <2>8, <2>9, <2>10, StepKinds
  <1>6. HintsNamed'
    BY <1>1, <1>5, NotificationsStay DEF HintsNamed
  <1> QED BY <1>2, <1>4, <1>6 DEF SInv

\* Before the first signal the invariant holds.
LEMMA InitHolds == Init => SInv
  <1> SUFFICES ASSUME Init PROVE SInv
    OBVIOUS
  <1>1. HInv
    BY DEF Init, RealtimeInit, HInv, RealtimeTypeOK, ListenerKnown, OwedHeard,
       HintsReachOpenSockets
  <1>2. Idle \in Tasks /\ Idle.todo \cup Idle.announce = {} /\ Idle.at = "idle"
        /\ Idle.insert = {} /\ Idle.announce = {}
    BY DEF Idle, Tasks
  <1>3. Cardinality(Idle.todo \cup Idle.announce) <= Limit
    BY <1>2, FS_EmptySet, BoundsAssumption
  <1>4. \A h \in Slots : task[h] = Idle
    BY DEF Init
  <1>5. DeliveryTypeOK
    <2>1. /\ task \in [Slots -> Tasks]
          /\ \A h \in Slots : Cardinality(task[h].todo \cup task[h].announce) <= Limit
      BY <1>2, <1>3, <1>4 DEF Init
    <2>2. /\ rows \in [Events -> 0..1] /\ mail \in [Events -> 0..(1 + MaxFaults)]
          /\ changesLeft \in 0..MaxChanges /\ faultsLeft \in 0..MaxFaults
      BY BoundsAssumption DEF Init
    <2>3. expired \in BOOLEAN
      BY Zenon DEF Init
    <2> QED BY <2>1, <2>2, <2>3 DEF Init, DeliveryTypeOK
  <1>6. EventsTravel /\ ClaimsExclude /\ StagesFit /\ FanOutAgrees /\ LooksHold
    BY <1>2, <1>4 DEF Init, EventsTravel, ClaimsExclude, Claimed, StagesFit,
       FanOutAgrees, LooksHold
  <1>7. MailCounted
    BY BoundsAssumption DEF Init, MailCounted
  <1>8. /\ RecordedLast /\ FanOutTogether /\ IntentsAnnounced
        /\ NotificationsHandled /\ EventsKept
    <2>1. \A e \in Events : ~(rows[e] > 0) /\ rows[e] = 0
      BY DEF Init
    <2>2. inbox = {} /\ intents = {} /\ \A u \in Users : notification[u] = "none"
      BY DEF Init
    <2> QED
      BY <2>1, <2>2, EventFacts DEF RecordedLast, FanOutTogether,
         IntentsAnnounced, Announcing, NotificationsHandled, EventsKept
  <1>9. HintsNamed
    BY DEF Init, RealtimeInit, HintsNamed
  <1> QED BY <1>1, <1>5, <1>6, <1>7, <1>8, <1>9 DEF SInv, DInv

-----------------------------------------------------------------------------
(* The results *)

\* SInv holds in every state of every execution.
THEOREM Invariant == Spec => []SInv
  BY InitHolds, StepPreserves, PTL DEF Spec

\* The state keeps its types: every event is stored at most once, a copy beyond
\* the first is paid for by a fault, and no fan-out exceeds its limit.
THEOREM TypeCorrect == Spec => []TypeOK
  <1>1. SInv => TypeOK
    BY DEF SInv, HInv, DInv, TypeOK
  <1> QED BY <1>1, Invariant, PTL

\* An intent exists exactly when it was announced, once for each record_signal
\* call that announced the signal, and every notification has an intent: for any
\* number of users, calls, workers, repeated deliveries and crashes.
THEOREM IntentsOnce == Spec => []AnnouncedOnce
  <1>1. ASSUME SInv, NEW u \in Users
        PROVE  /\ u \in intents <=> Announcing(u) # {}
               /\ \A r \in Announcing(u) : rows[<<r, u>>] = 1
               /\ Announcing(u) \subseteq Announcing(0)
               /\ notification[u] # "none" => u \in intents
    <2>1. u \in intents <=> Announcing(u) # {}
      BY <1>1 DEF SInv, DInv, IntentsAnnounced
    <2>2. \A r \in Announcing(u) : rows[<<r, u>>] = 1
      BY <1>1, EventFacts DEF SInv, DInv, DeliveryTypeOK, Announcing
    <2>3. Announcing(u) \subseteq Announcing(0)
      BY <1>1, EventFacts DEF SInv, DInv, FanOutTogether, EventsTravel,
         Announcing
    <2>4. notification[u] # "none" => u \in intents
      BY <1>1, <2>1, EventFacts
         DEF SInv, DInv, NotificationsHandled, EventsTravel, Announcing
    <2> QED BY <2>1, <2>2, <2>3, <2>4
  <1>2. SInv => AnnouncedOnce
    BY <1>1 DEF AnnouncedOnce
  <1> QED BY <1>2, Invariant, PTL

\* No stored event is lost before its handler commits, and an intent without a
\* notification still has an event on its way or in the dead-letter queue.
THEOREM NothingLost == Spec => []DeliveryNotLost
  <1>1. ASSUME SInv, NEW u \in intents, notification[u] = "none"
        PROVE  \E r \in Records : Pending(<<r, u>>)
    <2>1. u \in Users
      BY <1>1 DEF SInv, DInv, DeliveryTypeOK
    <2>2. PICK r \in Records : rows[<<r, u>>] > 0
      BY <1>1, <2>1 DEF SInv, DInv, IntentsAnnounced, Announcing
    <2>3. <<r, u>> \notin inbox /\ <<r, u>> \in Events
      BY <1>1, <2>1, EventFacts DEF SInv, DInv, NotificationsHandled
    <2> QED BY <1>1, <2>2, <2>3 DEF SInv, DInv, EventsKept
  <1>2. SInv => DeliveryNotLost
    BY <1>1 DEF SInv, DInv, EventsKept, DeliveryNotLost, PendingIntents
  <1> QED BY <1>2, Invariant, PTL

\* Whatever sockets open and close, a hint published while a socket could hear it
\* is on its way there, until the Redis connection or the listener is gone, and
\* every hint names a notification that its user can fetch.
THEOREM HintsRight == Spec => []HintsSound
  <1>1. SInv => HintsSound
    BY DEF SInv, HInv, HintsNamed, HintsSound, ListNotifications
  <1> QED BY <1>1, Invariant, PTL

\* One step: a notification turns unread by the event of a second call only.
LEMMA StepKeepsRead ==
  ASSUME SInv, [Next]_vars, NEW u \in Users, notification[u] = "read"
  PROVE  notification'[u] = "read" \/ \E r, s \in Announcing(u) : r # s
  <1>1. ASSUME NEW h \in Slots, CommitNotification(h)
        PROVE  notification'[u] = "read" \/ \E r, s \in Announcing(u) : r # s
    <2>1. User(h) \in Users /\ rows[task[h].event] > 0
      BY <1>1, HandlersUser DEF SInv, CommitNotification
    <2>2. PICK r \in Records : task[h].event = <<r, User(h)>>
      BY <1>1, HandlersUser DEF SInv, CommitNotification
    <2>3. CASE User(h) # u
      BY <1>1, <2>1, <2>3 DEF CommitNotification, SInv, DInv, DeliveryTypeOK
    <2>4. CASE User(h) = u
      <3>1. <<r, u>> \notin inbox /\ rows[<<r, u>>] > 0
        BY <1>1, <2>1, <2>2, <2>4
           DEF CommitNotification, SInv, DInv, ClaimsExclude, Claimed
      <3>2. PICK s \in Records : <<s, u>> \in inbox
        BY DEF SInv, DInv, NotificationsHandled
      <3>3. rows[<<s, u>>] > 0
        BY <3>2, EventFacts DEF SInv, DInv, EventsTravel
      <3> QED BY <3>1, <3>2, <3>3 DEF Announcing
    <2> QED BY <2>3, <2>4
  <1>2. ASSUME NEW v \in Users, MarkRead(v)
        PROVE  notification'[u] = "read"
    BY <1>2 DEF MarkRead, MarkUserNotificationRead, SInv, DInv, DeliveryTypeOK
  <1> QED BY <1>1, <1>2, StepKinds

\* What the user has read stays read, unless two record_signal calls announced
\* the signal.
THEOREM ReadKept == Spec => ReadStaysRead
  <1>1. SInv /\ [Next]_vars =>
          [\A u \in Users : notification[u] = "read" =>
             \/ notification'[u] = "read"
             \/ \E r, s \in Announcing(u) : r # s]_vars
    BY StepKeepsRead
  <1> QED BY <1>1, Invariant, PTL DEF Spec, ReadStaysRead

-----------------------------------------------------------------------------
(* What the workers make of the outbox's promise *)

\* The outbox rows, the inbox and the dead-letter queue are the abstract event
\* log; both events have a queue.
Delivery == INSTANCE EventDelivery WITH
  Routable <- Events,
  stored <- {e \in Events : rows[e] > 0},
  applied <- inbox,
  parked <- dlq

ImplementsDelivery == Delivery!Spec

\* A claimed event was stored and has no inbox row.
LEMMA ClaimedStored ==
  ASSUME DInv, NEW h \in Slots, Claimed(h)
  PROVE  /\ task[h].event \in Events /\ rows[task[h].event] > 0
         /\ task[h].event \notin inbox
  BY DEF Claimed, DInv, EventsTravel, ClaimsExclude

\* The signal's event and the events of its intents travel as Outbox promises
\* (its Refinement): each is handled once, after the transaction that stored it,
\* or parked, and the fan-out stores the events of a signal in the one
\* transaction that handles it.
THEOREM Refinement == Spec => ImplementsDelivery
  <1> DEFINE Stored == {e \in Events : rows[e] > 0}
  <1>1. Init => Delivery!Init
    BY DEF Init, Delivery!Init
  <1>2. ASSUME DInv, [Next]_vars
        PROVE  [Delivery!Next]_(Delivery!vars)
    <2>1. ASSUME UNCHANGED <<rows, inbox, dlq>>
          PROVE  UNCHANGED Delivery!vars
      BY <2>1 DEF Delivery!vars
    <2>2. ASSUME NEW r \in Records, CommitSignal(r)
          PROVE  Delivery!Next \/ UNCHANGED Delivery!vars
      <3>1. UNCHANGED <<inbox, dlq>>
        BY <2>2 DEF CommitSignal, recordUnchanged
      <3>2. <<r, 0>> \in Events /\ rows[<<r, 0>>] = 0
        BY <1>2, <2>2, EventFacts DEF CommitSignal, DInv, RecordedLast
      <3>3. \A e \in Events : e # <<r, 0>> => rows'[e] = rows[e]
        BY <1>2, <2>2, SignalStored
      <3>4. CASE rows'[<<r, 0>>] > 0
        <4>1. <<r, 0>> \notin Stored /\ Stored' = Stored \cup {<<r, 0>>}
          BY <3>2, <3>3, <3>4
        <4>2. Delivery!Store(<<r, 0>>)
          BY <3>1, <4>1 DEF Delivery!Store
        <4> QED BY <3>2, <4>2 DEF Delivery!Next
      <3>5. CASE ~(rows'[<<r, 0>>] > 0)
        <4>1. Stored' = Stored
          BY <3>2, <3>3, <3>5
        <4> QED BY <3>1, <4>1 DEF Delivery!vars
      <3> QED BY <3>4, <3>5
    <2>3. ASSUME NEW h \in Slots, Claimed(h), UNCHANGED <<rows, inbox>>,
                 dlq' = dlq \cup {task[h].event}
          PROVE  Delivery!Next \/ UNCHANGED Delivery!vars
      <3>1. task[h].event \in Events /\ task[h].event \in Stored
        BY <1>2, <2>3, ClaimedStored
      <3>2. CASE task[h].event \in dlq
        BY <2>1, <2>3, <3>2
      <3>3. CASE task[h].event \notin dlq
        <4>1. Delivery!Park(task[h].event)
          BY <2>3, <3>1, <3>3 DEF Delivery!Park
        <4> QED BY <3>1, <4>1 DEF Delivery!Next
      <3> QED BY <3>2, <3>3
    <2>4. ASSUME NEW h \in Slots, Claimed(h), UNCHANGED dlq,
                 \A e \in Stored : e \in Stored',
                 inbox' = inbox \cup {task[h].event}
          PROVE  Delivery!Next
      <3>1. /\ task[h].event \in Events /\ task[h].event \in Stored
            /\ task[h].event \notin inbox
        BY <1>2, <2>4, ClaimedStored
      <3>2. PICK new \in SUBSET Events : new = Stored' \ Stored
        OBVIOUS
      <3>3. new \cap Stored = {} /\ Stored' = Stored \cup new
        BY <2>4, <3>2
      <3>4. Delivery!Apply(task[h].event, new)
        BY <2>4, <3>1, <3>3 DEF Delivery!Apply
      <3> QED BY <3>1, <3>4 DEF Delivery!Next
    <2>5. ASSUME NEW h \in Slots, CommitFanOut(h)
          PROVE  Delivery!Next \/ UNCHANGED Delivery!vars
      <3>1. Claimed(h)
        BY <2>5 DEF CommitFanOut, Claimed
      <3>2. CASE task[h].insert \cap intents # {}
        BY <2>3, <2>5, <3>1, <3>2 DEF CommitFanOut, Rejected
      <3>3. CASE task[h].insert \cap intents = {}
        <4>1. \A e \in Events : rows'[e] >= rows[e] /\ rows'[e] \in 0..1
          BY <1>2, <2>5, <3>3, FanOutStored
        <4>2. \A e \in Events : rows[e] \in 0..1
          BY <1>2 DEF DInv, DeliveryTypeOK
        <4>3. \A e \in Stored : e \in Stored'
          BY <4>1, <4>2
        <4> QED BY <2>4, <2>5, <3>1, <3>3, <4>3 DEF CommitFanOut, Done
      <3> QED BY <3>2, <3>3
    <2>6. ASSUME NEW h \in Slots,
                 \/ SkipExpired(h) \/ NotificationExists(h)
                 \/ CommitNotification(h) \/ HandlerFails(h)
          PROVE  Delivery!Next \/ UNCHANGED Delivery!vars
      <3>1. /\ Claimed(h) /\ UNCHANGED rows
            /\ \/ UNCHANGED dlq /\ inbox' = inbox \cup {task[h].event}
               \/ UNCHANGED inbox /\ dlq' = dlq \cup {task[h].event}
        BY <2>6 DEF SkipExpired, NotificationExists, CommitNotification,
           HandlerFails, Done, Rejected, Claimed
      <3> QED BY <2>3, <2>4, <3>1
    <2>7. ASSUME NEW h \in Slots,
                 \/ \E e \in Events : Claim(h, e) \/ ClaimDuplicate(h, e)
                 \/ ListEnabled(h) \/ FindIntent(h) \/ MergeIntent(h)
                 \/ FindNotification(h) \/ MergeNotification(h) \/ PublishHint(h)
                 \/ HintSkipped(h) \/ WorkerCrash(h)
          PROVE  UNCHANGED <<rows, inbox, dlq>>
      BY <2>7 DEF Claim, ClaimDuplicate, ListEnabled, FindIntent, MergeIntent,
         FindNotification, MergeNotification, PublishHint, HintSkipped,
         WorkerCrash, eventVars
    <2>8. ASSUME \/ \E r \in Records, x \in {"timed", "timeless"} : RecordSignal(r, x)
                 \/ \E r \in Records : MergeSignal(r)
                 \/ World \/ UNCHANGED vars
          PROVE  UNCHANGED <<rows, inbox, dlq>>
      BY <2>8 DEF RecordSignal, MergeSignal, MarkRead, World, Expire,
         ProjectionChanges, AudienceChanges, vars, recordUnchanged, eventVars
    <2>9. ASSUME Failure
          PROVE  Delivery!Next \/ UNCHANGED Delivery!vars
      BY <2>1, <2>6, <2>7, <2>9 DEF Failure, Redeliver, eventVars
    <2>10. ASSUME NEW h \in Slots, WorkerStep(h)
           PROVE  Delivery!Next \/ UNCHANGED Delivery!vars
      BY <2>1, <2>5, <2>6, <2>7, <2>10 DEF WorkerStep
    <2>11. Delivery!Next \/ UNCHANGED Delivery!vars
      BY <1>2, <2>1, <2>2, <2>8, <2>9, <2>10 DEF Next
    <2> QED BY <2>11
  <1> QED
    BY <1>1, <1>2, Invariant, PTL
       DEF Spec, SInv, ImplementsDelivery, Delivery!Spec
=============================================================================

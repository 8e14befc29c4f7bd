------------------------------ MODULE MCOutbox ------------------------------
(* Small instances of Outbox for TLC. *)
EXTENDS Outbox

CONSTANTS e1, e2, u1, u2, u3, r1, r2, c1, c2

\* u1, u2 and u3 are durable-job.status.changed rows, which no queue takes
MCOccurredAt == [e \in Events |-> IF e \in {u1, u2, u3} THEN 0 ELSE 1]
=============================================================================

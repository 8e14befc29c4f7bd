----------------------- MODULE SubscriptionProjection -----------------------
(***************************************************************************)
(* One signal subscription: its row in an account shard, the subscribe and *)
(* unsubscribe requests that change it, the signal.subscription.updated    *)
(* events they store, and the projection row that the message workers keep *)
(* in the automation store.                                                *)
(*                                                                         *)
(* Repository.save is Session.merge: the row is selected once more (the    *)
(* record of find_by_id is already garbage collected) and COMMIT writes    *)
(* only the columns that differ from what that SELECT saw, under READ      *)
(* COMMITTED. So a save is two steps, Merge and Commit, and what happens   *)
(* between them is not seen.                                               *)
(*                                                                         *)
(* Events travel through Outbox: at least once, in any order.              *)
(***************************************************************************)
EXTENDS Integers, FiniteSets

CONSTANTS
  Requests,   \* subscribe and unsubscribe calls; a call's event has its name
  Slots,      \* deliveries the message workers process at the same time
  MaxOpen,    \* requests for this subscription open at the same time
  MaxFaults,  \* bound: crashes, failed transactions and repeated deliveries
  NoRow,
  NoEvent

ASSUME BoundsAssumption == MaxOpen \in Nat \ {0} /\ MaxFaults \in Nat

VARIABLES
  row,         \* signal_subscriptions row
  phase,       \* how far a request's transaction is
  change,      \* the subscription a request will save
  dirty,       \* the columns its merge found different
  events,      \* payload of the event a committed request stored
  mail,        \* copies of each event still to be delivered
  projection,  \* signal_subscription_projections row
  inbox,       \* committed processed_messages rows
  dlq,         \* events with a copy in the dead-letter queue
  task,        \* how far a slot's transaction is
  msg,         \* the event it handles
  stale,       \* the columns its merge found different
  faultsLeft

requestVars == <<row, phase, change, dirty, events>>
workerVars == <<projection, inbox, dlq, task, msg, stale>>
vars == <<requestVars, mail, workerVars, faultsLeft>>

Rows == [enabled : BOOLEAN, revision : 1..Cardinality(Requests)]
Columns == {"enabled", "revision"}
Dirts == (SUBSET Columns) \cup {{"insert"}}

ASSUME NamesAssumption ==
  /\ IsFiniteSet(Requests)
  /\ NoEvent \notin Requests
  /\ NoRow \notin Rows

TypeOK ==
  /\ row \in Rows \cup {NoRow}
  /\ phase \in [Requests -> {"idle", "found", "merged", "done", "failed"}]
  /\ change \in [Requests -> Rows \cup {NoRow}]
  /\ dirty \in [Requests -> Dirts]
  /\ events \in [Requests -> Rows \cup {NoRow}]
  /\ mail \in [Requests -> Nat]
  /\ projection \in Rows \cup {NoRow}
  /\ inbox \in SUBSET Requests
  /\ dlq \in SUBSET Requests
  /\ task \in [Slots -> {"idle", "claimed", "found", "merged"}]
  /\ msg \in [Slots -> Requests \cup {NoEvent}]
  /\ stale \in [Slots -> Dirts]
  /\ faultsLeft \in 0..MaxFaults

Init ==
  /\ row = NoRow
  /\ phase = [r \in Requests |-> "idle"]
  /\ change = [r \in Requests |-> NoRow]
  /\ dirty = [r \in Requests |-> {}]
  /\ events = [r \in Requests |-> NoRow]
  /\ mail = [r \in Requests |-> 0]
  /\ projection = NoRow
  /\ inbox = {}
  /\ dlq = {}
  /\ task = [h \in Slots |-> "idle"]
  /\ msg = [h \in Slots |-> NoEvent]
  /\ stale = [h \in Slots |-> {}]
  /\ faultsLeft = MaxFaults

-----------------------------------------------------------------------------
(* Session.merge and the flush at COMMIT *)

DirtyColumns(current, new) ==
  IF current = NoRow THEN {"insert"}
  ELSE {c \in Columns : current[c] # new[c]}

\* INSERT of a key that exists by now: IntegrityError, and a rollback
Conflicts(current, d) == "insert" \in d /\ current # NoRow

Flushed(current, new, d) ==
  IF "insert" \in d THEN new
  ELSE [c \in Columns |-> IF c \in d THEN new[c] ELSE current[c]]

Fault == faultsLeft > 0 /\ faultsLeft' = faultsLeft - 1

-----------------------------------------------------------------------------
(* subscribe and unsubscribe *)

Open == {r \in Requests : phase[r] \in {"found", "merged"}}

\* the revision advanced by the request and again by the save
RevisionTwiceAdvanced(current) == (IF current = NoRow THEN 0 ELSE current.revision) + 2

NextRevision(current) == (IF current = NoRow THEN 0 ELSE current.revision) + 1

Enabled(current) == current # NoRow /\ current.enabled

\* find_by_id, and the early return of a request that changes nothing
Find(r, enable) ==
  /\ phase[r] = "idle"
  /\ Cardinality(Open) < MaxOpen
  /\ IF Enabled(row) = enable
       THEN phase' = [phase EXCEPT ![r] = "done"] /\ UNCHANGED change
       ELSE /\ phase' = [phase EXCEPT ![r] = "found"]
            /\ change' = [change EXCEPT ![r] =
                 [enabled |-> enable, revision |-> NextRevision(row)]]
  /\ UNCHANGED <<row, dirty, events, mail, workerVars, faultsLeft>>

Subscribe(r) == Find(r, TRUE)

Unsubscribe(r) == Find(r, FALSE)

\* repository.save
Merge(r) ==
  /\ phase[r] = "found"
  /\ phase' = [phase EXCEPT ![r] = "merged"]
  /\ dirty' = [dirty EXCEPT ![r] = DirtyColumns(row, change[r])]
  /\ UNCHANGED <<row, change, events, mail, workerVars, faultsLeft>>

\* _record_subscription_update: the outbox row of the same transaction
RecordUpdate(r) ==
  /\ events' = [events EXCEPT ![r] = change[r]]
  /\ mail' = [mail EXCEPT ![r] = @ + 1]

Commit(r) ==
  /\ phase[r] = "merged"
  /\ IF Conflicts(row, dirty[r])
       THEN /\ phase' = [phase EXCEPT ![r] = "failed"]
            /\ UNCHANGED <<row, events, mail>>
       ELSE /\ phase' = [phase EXCEPT ![r] = "done"]
            /\ row' = Flushed(row, change[r], dirty[r])
            /\ RecordUpdate(r)
  /\ UNCHANGED <<change, dirty, workerVars, faultsLeft>>

\* The request's transaction is rolled back.
RequestFails(r) ==
  /\ r \in Open
  /\ Fault
  /\ phase' = [phase EXCEPT ![r] = "failed"]
  /\ UNCHANGED <<row, change, dirty, events, mail, workerVars>>

-----------------------------------------------------------------------------
(* _handle_signal_subscription_update *)

ClaimedElsewhere(r) == \E h \in Slots : task[h] # "idle" /\ msg[h] = r

Idle(h) == task' = [task EXCEPT ![h] = "idle"] /\ msg' = [msg EXCEPT ![h] = NoEvent]

\* A copy whose claim would wait for another transaction stays in mail.
ClaimNew(h, r) ==
  /\ task[h] = "idle"
  /\ mail[r] > 0
  /\ r \notin inbox
  /\ ~ClaimedElsewhere(r)
  /\ mail' = [mail EXCEPT ![r] = @ - 1]
  /\ task' = [task EXCEPT ![h] = "claimed"]
  /\ msg' = [msg EXCEPT ![h] = r]
  /\ UNCHANGED <<requestVars, projection, inbox, dlq, stale, faultsLeft>>

\* rowcount 0: the duplicate is acked
ClaimDuplicate(h, r) ==
  /\ task[h] = "idle"
  /\ mail[r] > 0
  /\ r \in inbox
  /\ mail' = [mail EXCEPT ![r] = @ - 1]
  /\ UNCHANGED <<requestVars, workerVars, faultsLeft>>

\* no comparison of revisions
NeverStale(r) == FALSE

\* any existing projection taken for a newer one
StaleIfPresent(r) == projection # NoRow

\* existing is not None and existing.revision >= projection.revision
IsStale(r) == projection # NoRow /\ projection.revision >= events[r].revision

FindProjection(h) ==
  /\ task[h] = "claimed"
  /\ ~IsStale(msg[h])
  /\ task' = [task EXCEPT ![h] = "found"]
  /\ UNCHANGED <<requestVars, mail, projection, inbox, dlq, msg, stale, faultsLeft>>

\* the early return, whose transaction commits the inbox row
SkipStale(h) ==
  /\ task[h] = "claimed"
  /\ IsStale(msg[h])
  /\ inbox' = inbox \cup {msg[h]}
  /\ Idle(h)
  /\ UNCHANGED <<requestVars, mail, projection, dlq, stale, faultsLeft>>

MergeProjection(h) ==
  /\ task[h] = "found"
  /\ task' = [task EXCEPT ![h] = "merged"]
  /\ stale' = [stale EXCEPT ![h] = DirtyColumns(projection, events[msg[h]])]
  /\ UNCHANGED <<requestVars, mail, projection, inbox, dlq, msg, faultsLeft>>

CommitProjection(h) ==
  /\ task[h] = "merged"
  /\ IF Conflicts(projection, stale[h])
       THEN dlq' = dlq \cup {msg[h]} /\ UNCHANGED <<projection, inbox>>
       ELSE /\ projection' = Flushed(projection, events[msg[h]], stale[h])
            /\ inbox' = inbox \cup {msg[h]}
            /\ UNCHANGED dlq
  /\ Idle(h)
  /\ UNCHANGED <<requestVars, mail, stale, faultsLeft>>

\* The handler raises: rollback, and the copy is dead-lettered.
HandlerFails(h) ==
  /\ task[h] # "idle"
  /\ Fault
  /\ dlq' = dlq \cup {msg[h]}
  /\ Idle(h)
  /\ UNCHANGED <<requestVars, mail, projection, inbox, stale>>

\* The worker dies: rollback, and the copy is requeued.
WorkerCrash(h) ==
  /\ task[h] # "idle"
  /\ Fault
  /\ mail' = [mail EXCEPT ![msg[h]] = @ + 1]
  /\ Idle(h)
  /\ UNCHANGED <<requestVars, projection, inbox, dlq, stale>>

\* A relay publishes again, or an ack is lost.
Redeliver(r) ==
  /\ events[r] # NoRow
  /\ Fault
  /\ mail' = [mail EXCEPT ![r] = @ + 1]
  /\ UNCHANGED <<requestVars, workerVars>>

-----------------------------------------------------------------------------

SlotStep(h) ==
  \/ \E r \in Requests : ClaimNew(h, r) \/ ClaimDuplicate(h, r)
  \/ FindProjection(h) \/ SkipStale(h) \/ MergeProjection(h) \/ CommitProjection(h)

Next ==
  \/ \E r \in Requests : Subscribe(r) \/ Unsubscribe(r) \/ Merge(r) \/ Commit(r)
  \/ \E h \in Slots : SlotStep(h)
  \/ \E r \in Requests : RequestFails(r) \/ Redeliver(r)
  \/ \E h \in Slots : HandlerFails(h) \/ WorkerCrash(h)

Spec == Init /\ [][Next]_vars

\* An open request runs to its end and the workers consume their queue; nobody
\* has to make a request.
LiveSpec ==
  /\ Spec
  /\ \A r \in Requests : WF_vars(Merge(r) \/ Commit(r))
  /\ \A h \in Slots : WF_vars(SlotStep(h))

-----------------------------------------------------------------------------
(* Properties *)

\* v is the payload with the highest revision among the events of S
NewestOf(v, S) ==
  IF S = {} THEN v = NoRow
  ELSE \E r \in S : v = events[r] /\ \A q \in S : events[q].revision <= events[r].revision

\* After any order, repetition, crash and dead-lettering of deliveries the
\* projection is what the newest event handled so far says.
ProjectionIsNewestHandled == NewestOf(projection, inbox)

\* A stale event does not overwrite the projection: its revision only grows and
\* it never goes away.
ProjectionNeverRegresses ==
  [][projection # NoRow =>
       projection' = projection \/ projection'.revision > projection.revision]_vars

\* When the requests stop, the projection ends up equal to the subscription,
\* unless an operator still has a dead-lettered event to replay.
ProjectionConverges == <>[](projection = row \/ dlq # {})
=============================================================================

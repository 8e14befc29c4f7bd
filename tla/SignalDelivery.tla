--------------------------- MODULE SignalDelivery ---------------------------
(***************************************************************************)
(* One signal on its way to the users who subscribed to its stock.         *)
(*                                                                         *)
(*   record_signal       the signal row and a signal.created event         *)
(*   message worker      the event becomes one delivery intent for each    *)
(*                       enabled subscription, with an event of its own    *)
(*   message worker      the intent becomes an in-app notification in the  *)
(*                       user's shard, and after the commit a Redis hint   *)
(*   websocket           Realtime                                          *)
(*                                                                         *)
(* subscription_id, intent_id and notification_id are functions of the     *)
(* signal and the user, so each is the name of the user. Events travel     *)
(* through Outbox: at least once, in any order. Repository.save is a       *)
(* merge: it selects the row again and COMMIT writes what differs from     *)
(* that SELECT, so find, merge and commit are three steps.                 *)
(***************************************************************************)
EXTENDS Realtime, FiniteSetsExt

CONSTANTS
  Records,     \* record_signal calls for this signal
  Slots,       \* deliveries the message workers process at the same time
  Limit,       \* limit of list_enabled_signal_subscriptions
  MaxChanges,  \* bound: changes of the projection, websockets, and the process's end
  MaxFaults    \* bound: crashes, failures, repeated deliveries, lost connections

\* signal.created of a record is <<r, 0>>, signal.delivery-intent.created that
\* its fan-out stores for a user is <<r, u>>
Events == Records \X (Users \cup {0})

ASSUME UsersAssumption == Users \subseteq Nat \ {0} /\ IsFiniteSet(Users)
ASSUME BoundsAssumption ==
  Limit \in Nat \ {0} /\ MaxChanges \in Nat /\ MaxFaults \in Nat
ASSUME NoneAssumption == None \notin Events \cup Hints

VARIABLES
  signal,        \* signal_events row: its expires_at
  record,        \* how far a record_signal call is
  payload,       \* expires_at of the signal it was given
  expired,       \* expires_at has passed
  enabled,       \* signal_subscription_projections rows that are enabled
  rows,          \* outbox rows of each event
  mail,          \* copies of each event still to be delivered
  inbox,         \* committed processed_messages rows
  dlq,           \* events with a copy in the dead-letter queue
  intents,       \* signal_delivery_intents rows
  notification,  \* in_app_notifications row of a user, and its read_at
  task,          \* what a slot is doing
  changesLeft,
  faultsLeft

recordVars == <<signal, record, payload>>
eventVars == <<rows, mail, inbox, dlq>>
bounds == <<changesLeft, faultsLeft>>
vars == <<recordVars, expired, enabled, eventVars, intents, notification, task,
          bounds, hintVars>>

Idle == [at |-> "idle", event |-> None, todo |-> {}, insert |-> {}, announce |-> {}]

Tasks ==
  [at : {"idle", "claimed", "expired", "fanning", "missing", "exists", "insert",
         "update", "clear", "hint"},
   event : Events \cup {None},
   todo : SUBSET Users, insert : SUBSET Users, announce : SUBSET Users]

DeliveryTypeOK ==
  /\ signal \in {"none", "timeless", "timed"}
  /\ record \in [Records -> {"idle", "found", "insert", "update", "done", "failed"}]
  /\ payload \in [Records -> {"none", "timeless", "timed"}]
  /\ expired \in BOOLEAN
  /\ enabled \subseteq Users
  /\ rows \in [Events -> 0..1]
  /\ mail \in [Events -> 0..(1 + MaxFaults)]
  /\ inbox \subseteq Events
  /\ dlq \subseteq Events
  /\ intents \subseteq Users
  /\ notification \in [Users -> {"none", "unread", "read"}]
  /\ task \in [Slots -> Tasks]
  /\ \A h \in Slots : Cardinality(task[h].todo \cup task[h].announce) <= Limit
  /\ changesLeft \in 0..MaxChanges
  /\ faultsLeft \in 0..MaxFaults

TypeOK == RealtimeTypeOK /\ DeliveryTypeOK

Init ==
  /\ RealtimeInit
  /\ signal = "none"
  /\ record = [r \in Records |-> "idle"]
  /\ payload = [r \in Records |-> "none"]
  /\ expired = FALSE
  /\ enabled = Users
  /\ rows = [e \in Events |-> 0]
  /\ mail = [e \in Events |-> 0]
  /\ inbox = {}
  /\ dlq = {}
  /\ intents = {}
  /\ notification = [u \in Users |-> "none"]
  /\ task = [h \in Slots |-> Idle]
  /\ changesLeft = MaxChanges
  /\ faultsLeft = MaxFaults

\* OutboxWriter.add, of the transaction that commits: one row, one copy to come
Store(new) ==
  /\ rows' = [e \in Events |-> rows[e] + IF e \in new THEN 1 ELSE 0]
  /\ mail' = [e \in Events |-> mail[e] + IF e \in new THEN 1 ELSE 0]

-----------------------------------------------------------------------------
(* record_signal *)

recordUnchanged == <<expired, enabled, inbox, dlq, intents, notification, task,
                     bounds, hintVars>>

FindSignal == signal

\* a signal that exists is returned as it is
RecordSignal(r, expires_at) ==
  /\ record[r] = "idle"
  /\ record' = [record EXCEPT ![r] = IF FindSignal = "none" THEN "found" ELSE "done"]
  /\ payload' = [payload EXCEPT ![r] = IF FindSignal = "none" THEN expires_at ELSE @]
  /\ UNCHANGED <<signal, rows, mail, recordUnchanged>>

MergeSignal(r) ==
  /\ record[r] = "found"
  /\ record' = [record EXCEPT ![r] = IF signal = "none" THEN "insert" ELSE "update"]
  /\ UNCHANGED <<signal, payload, rows, mail, recordUnchanged>>

\* only a signal that expires is announced
CommitSignal(r) ==
  /\ record[r] \in {"insert", "update"}
  /\ IF record[r] = "insert" /\ signal # "none"
       THEN /\ record' = [record EXCEPT ![r] = "failed"]
            /\ UNCHANGED <<signal, rows, mail>>
       ELSE /\ record' = [record EXCEPT ![r] = "done"]
            /\ signal' = payload[r]
            /\ Store(IF payload[r] = "timed" THEN {<<r, 0>>} ELSE {})
  /\ payload' = [payload EXCEPT ![r] = "none"]
  /\ UNCHANGED recordUnchanged

Expire ==
  /\ ~expired
  /\ expired' = TRUE
  /\ UNCHANGED <<recordVars, enabled, eventVars, intents, notification, task,
                 bounds, hintVars>>

\* SubscriptionProjection commits a change
ProjectionChanges(u) ==
  /\ changesLeft > 0
  /\ changesLeft' = changesLeft - 1
  /\ enabled' = IF u \in enabled THEN enabled \ {u} ELSE enabled \cup {u}
  /\ UNCHANGED <<recordVars, expired, eventVars, intents, notification, task,
                 faultsLeft, hintVars>>

-----------------------------------------------------------------------------
(* The message worker *)

workerUnchanged == <<recordVars, expired, enabled, bounds>>

ClaimedElsewhere(e) == \E h \in Slots : task[h].event = e /\ task[h].at # "hint"

\* rowcount of the claim is 0
Seen(e) == e \in inbox

StartedAt(e) == IF e[2] = 0 /\ expired THEN "expired" ELSE "claimed"

\* no row in processed_messages
ClaimWithoutInbox(h, e) ==
  /\ task[h] = Idle
  /\ mail[e] > 0
  /\ mail' = [mail EXCEPT ![e] = @ - 1]
  /\ task' = [task EXCEPT ![h] = [Idle EXCEPT !.at = StartedAt(e), !.event = e]]
  /\ UNCHANGED <<rows, inbox, dlq, intents, notification, hintVars, workerUnchanged>>

\* handle, and the claim of a new event; a copy whose claim would wait for
\* another transaction stays in mail
Claim(h, e) ==
  /\ task[h] = Idle
  /\ mail[e] > 0
  /\ ~Seen(e)
  /\ ~ClaimedElsewhere(e)
  /\ mail' = [mail EXCEPT ![e] = @ - 1]
  /\ task' = [task EXCEPT ![h] = [Idle EXCEPT !.at = StartedAt(e), !.event = e]]
  /\ UNCHANGED <<rows, inbox, dlq, intents, notification, hintVars, workerUnchanged>>

ClaimDuplicate(h, e) ==
  /\ task[h] = Idle
  /\ mail[e] > 0
  /\ Seen(e)
  /\ mail' = [mail EXCEPT ![e] = @ - 1]
  /\ UNCHANGED <<rows, inbox, dlq, intents, notification, task, hintVars,
                 workerUnchanged>>

\* the transaction commits with its inbox row, and the copy is acked
Done(h) ==
  /\ task' = [task EXCEPT ![h] = Idle]
  /\ inbox' = inbox \cup {task[h].event}

\* IntegrityError: rollback, and the copy is dead-lettered
Rejected(h) ==
  /\ task' = [task EXCEPT ![h] = Idle]
  /\ dlq' = dlq \cup {task[h].event}

-----------------------------------------------------------------------------
(* _handle_signal_created *)

SkipExpired(h) ==
  /\ task[h].at = "expired"
  /\ Done(h)
  /\ UNCHANGED <<rows, mail, dlq, intents, notification, hintVars, workerUnchanged>>

\* ORDER BY subscription_id LIMIT
FirstOf(S) == {u \in S : Cardinality({v \in S : v < u}) < Limit}

\* list_enabled_signal_subscriptions, in a session of its own
ListEnabled(h) ==
  /\ task[h].at = "claimed"
  /\ task[h].event[2] = 0
  /\ task' = [task EXCEPT ![h].at = "fanning", ![h].todo = FirstOf(enabled)]
  /\ UNCHANGED <<eventVars, intents, notification, hintVars, workerUnchanged>>

\* find_by_id of the next intent
FindIntent(h) ==
  /\ task[h].at = "fanning"
  /\ task[h].todo # {}
  /\ task' = IF Min(task[h].todo) \in intents
               THEN [task EXCEPT ![h].todo = @ \ {Min(@)}]
               ELSE [task EXCEPT ![h].at = "missing"]
  /\ UNCHANGED <<eventVars, intents, notification, hintVars, workerUnchanged>>

\* save, and the event of the intent
MergeIntent(h) ==
  LET u == Min(task[h].todo)
  IN /\ task[h].at = "missing"
     /\ task[h].event[2] = 0
     /\ task' = [task EXCEPT
          ![h].at = "fanning", ![h].todo = @ \ {u}, ![h].announce = @ \cup {u},
          ![h].insert = IF u \in intents THEN @ ELSE @ \cup {u}]
     /\ UNCHANGED <<eventVars, intents, notification, hintVars, workerUnchanged>>

CommitFanOut(h) ==
  /\ task[h].at = "fanning"
  /\ task[h].todo = {}
  /\ IF task[h].insert \cap intents # {}
       THEN Rejected(h) /\ UNCHANGED <<rows, mail, inbox, intents>>
       ELSE /\ Done(h)
            /\ intents' = intents \cup task[h].insert
            /\ Store({<<task[h].event[1], u>> : u \in task[h].announce})
            /\ UNCHANGED dlq
  /\ UNCHANGED <<notification, hintVars, workerUnchanged>>

-----------------------------------------------------------------------------
(* _handle_signal_delivery_intent_created *)

User(h) == task[h].event[2]

FindNotification(h) ==
  /\ task[h].at = "claimed"
  /\ User(h) # 0
  /\ task' = [task EXCEPT ![h].at =
       IF notification[User(h)] = "none" THEN "missing" ELSE "exists"]
  /\ UNCHANGED <<eventVars, intents, notification, hintVars, workerUnchanged>>

\* read_at is NULL in what is saved, so a row that was read is to be cleared
MergeNotification(h) ==
  /\ task[h].at = "missing"
  /\ User(h) # 0
  /\ task' = [task EXCEPT ![h].at =
       CASE notification[User(h)] = "none" -> "insert"
         [] notification[User(h)] = "unread" -> "update"
         [] notification[User(h)] = "read" -> "clear"]
  /\ UNCHANGED <<eventVars, intents, notification, hintVars, workerUnchanged>>

NotificationExists(h) ==
  /\ task[h].at = "exists"
  /\ Done(h)
  /\ UNCHANGED <<rows, mail, dlq, intents, notification, hintVars, workerUnchanged>>

\* after the commit comes the hint, and only then the ack
CommitNotification(h) ==
  /\ task[h].at \in {"insert", "update", "clear"}
  /\ IF task[h].at = "insert" /\ notification[User(h)] # "none"
       THEN Rejected(h) /\ UNCHANGED <<inbox, notification>>
       ELSE /\ task' = [task EXCEPT ![h].at = "hint"]
            /\ inbox' = inbox \cup {task[h].event}
            /\ notification' = IF task[h].at = "update" THEN notification
                               ELSE [notification EXCEPT ![User(h)] = "unread"]
            /\ UNCHANGED dlq
  /\ UNCHANGED <<rows, mail, intents, hintVars, workerUnchanged>>

\* backplane.publish, at the first or at the second attempt
PublishHint(h) ==
  /\ task[h].at = "hint"
  /\ Broadcast(User(h))
  /\ task' = [task EXCEPT ![h] = Idle]
  /\ UNCHANGED <<eventVars, intents, notification, app, listener, sending, socket,
                 holder, subscribers, workerUnchanged>>

WorkerStep(h) ==
  \/ \E e \in Events : Claim(h, e) \/ ClaimDuplicate(h, e)
  \/ SkipExpired(h) \/ ListEnabled(h) \/ FindIntent(h) \/ MergeIntent(h)
  \/ CommitFanOut(h)
  \/ FindNotification(h) \/ MergeNotification(h) \/ NotificationExists(h)
  \/ CommitNotification(h) \/ PublishHint(h)

-----------------------------------------------------------------------------
(* The user's routes *)

\* list_by_user_id: the users, here notifications, that the answer has. It is cut
\* to the newest hundred, which the notifications of one signal do not reach.
ListNotifications(u) == {v \in {u} : notification[v] # "none"}

\* Other users get 404, and a second call changes nothing. One step, because
\* whatever commits between its find and its own COMMIT, the COMMIT sets read_at.
MarkUserNotificationRead(u) ==
  /\ notification[u] = "unread"
  /\ notification' = [notification EXCEPT ![u] = "read"]

MarkRead(u) ==
  /\ MarkUserNotificationRead(u)
  /\ UNCHANGED <<recordVars, expired, enabled, eventVars, intents, task, bounds,
                 hintVars>>

-----------------------------------------------------------------------------
(* Failures *)

\* a hint is about to be published or on its way
HintPending == topic # {} \/ sending # None \/ \E h \in Slots : task[h].at = "hint"

\* the handler raises: rollback, and the copy is dead-lettered
HandlerFails(h) ==
  /\ task[h].at \notin {"idle", "hint"}
  /\ Rejected(h)
  /\ UNCHANGED <<rows, mail, inbox, hintVars>>

\* two publishes failed: RealtimeBackplaneError is logged and the copy acked
HintSkipped(h) ==
  /\ task[h].at = "hint"
  /\ task' = [task EXCEPT ![h] = Idle]
  /\ UNCHANGED <<eventVars, hintVars>>

\* the copy was acked on receipt
CrashAfterAck(h) ==
  /\ task[h].at # "idle"
  /\ task' = [task EXCEPT ![h] = Idle]
  /\ UNCHANGED <<rows, mail, inbox, dlq, hintVars>>

\* the worker dies: what it had not committed is lost, and the copy requeued
WorkerCrash(h) ==
  /\ task[h].at # "idle"
  /\ mail' = [mail EXCEPT ![task[h].event] = @ + 1]
  /\ task' = [task EXCEPT ![h] = Idle]
  /\ UNCHANGED <<rows, inbox, dlq, hintVars>>

\* the relay publishes again, or an ack is lost
Redeliver(e) ==
  /\ rows[e] > 0
  /\ mail' = [mail EXCEPT ![e] = @ + 1]
  /\ UNCHANGED <<rows, inbox, dlq, task, hintVars>>

Failure ==
  /\ faultsLeft > 0
  /\ faultsLeft' = faultsLeft - 1
  /\ \/ \E h \in Slots : HandlerFails(h) \/ HintSkipped(h) \/ WorkerCrash(h)
     \/ \E e \in Events : Redeliver(e)
     \/ (ConnectionLost \/ ListenerDies) /\ UNCHANGED <<eventVars, task>>
  /\ UNCHANGED <<recordVars, expired, enabled, intents, notification,
                 changesLeft>>

-----------------------------------------------------------------------------

\* a user whose hint is about to be published opens a websocket, or the API
\* process ends
AudienceChanges ==
  /\ changesLeft > 0
  /\ changesLeft' = changesLeft - 1
  /\ \/ \E h \in Slots, k \in Sockets : task[h].at = "hint" /\ Accept(k, User(h))
     \/ CloseBackplane
  /\ UNCHANGED <<recordVars, expired, enabled, eventVars, intents, notification,
                 task, faultsLeft>>

\* The clock, the projection, the users and the API process move at the last
\* moment before somebody notices: a user reads a notification while a worker has
\* an event about it, and the process does something while there is a hint.
\* Nothing else depends on when.
World ==
  \/ (\E r \in Records : mail[<<r, 0>>] > 0) /\ Expire
  \/ /\ \E h \in Slots : task[h].at = "claimed" /\ task[h].event[2] = 0
     /\ \E u \in Users : ProjectionChanges(u)
  \/ \E h \in Slots, u \in Users :
       task[h].event \in Records \X {u} /\ task[h].at # "hint" /\ MarkRead(u)
  \/ HintPending /\ AudienceChanges
  \/ /\ HintPending
     /\ RealtimeStep
     /\ UNCHANGED <<recordVars, expired, enabled, eventVars, intents,
                    notification, task, bounds>>

Next ==
  \/ \E r \in Records, x \in {"timed", "timeless"} : RecordSignal(r, x)
  \/ \E r \in Records : MergeSignal(r) \/ CommitSignal(r)
  \/ \E h \in Slots : WorkerStep(h)
  \/ World
  \/ Failure

Spec == Init /\ [][Next]_vars

-----------------------------------------------------------------------------
(* Properties *)

\* the record_signal calls whose events say the same: announce the signal (0),
\* or the intent of a user
Announcing(u) == {r \in Records : rows[<<r, u>>] > 0}

\* An intent and the event that announces it are stored together, and once,
\* whatever is repeated, crashes or runs at the same time; a second event of
\* the same intent needs two record_signal calls that both announced the signal.
\* Every notification has an intent.
AnnouncedOnce ==
  \A u \in Users :
    /\ u \in intents <=> Announcing(u) # {}
    /\ \A r \in Announcing(u) : rows[<<r, u>>] = 1
    /\ Announcing(u) \subseteq Announcing(0)
    /\ notification[u] # "none" => u \in intents

\* list_pending_signal_delivery_intents, without its limit: nobody changes the
\* status of an intent, so all of them stay pending
PendingIntents == intents

\* still to be handled: a copy is in the queue, in a worker or dead-lettered
Pending(e) == mail[e] > 0 \/ e \in dlq \/ \E h \in Slots : task[h].event = e

\* No crash, rollback or repeated delivery loses a stored event: until its
\* handler commits somebody still has it, so an intent without a notification
\* is on its way or waits in the dead-letter queue for an operator.
DeliveryNotLost ==
  /\ \A e \in Events : rows[e] > 0 /\ e \notin inbox => Pending(e)
  /\ \A u \in PendingIntents : notification[u] = "none" =>
       \E r \in Records : Pending(<<r, u>>)

\* A notification the user has read does not turn unread, unless its intent
\* was announced twice: a second handler may have looked before the first
\* committed, and its merge writes read_at back to NULL.
ReadStaysRead ==
  [][\A u \in Users : notification[u] = "read" =>
       \/ notification'[u] = "read"
       \/ \E r, s \in Announcing(u) : r # s]_vars

\* No websocket that closes, at any moment, takes the hints from the others, and
\* a hint, wherever it is, names a notification that GET /api/notifications
\* already returns: the client may fetch it at once.
HintsSound ==
  /\ HintsReachOpenSockets
  /\ \A u \in topic : ListNotifications(u) # {}
  /\ sending # None => ListNotifications(sending.user) # {}
=============================================================================

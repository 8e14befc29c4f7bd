------------------------------- MODULE Outbox -------------------------------
(***************************************************************************)
(* Reliable event delivery: the transactional outbox of one database, the  *)
(* relay processes that publish its rows to RabbitMQ, the queue, and the   *)
(* message workers that apply each event under the processed-message inbox.*)
(*                                                                         *)
(*   producer transaction --> outbox row --> relay --> queue --> worker    *)
(*                                              \                  \       *)
(*                                          backoff             inbox/DLQ  *)
(*                                                                         *)
(* A row's available_at is kept as the seconds still to wait, so that the  *)
(* clock may run for ever: Tick is one second for everybody.               *)
(* confirmed[r] and failed[r] are the ORM changes of the relay's open      *)
(* transaction: nobody sees them before CommitBatch, a crash drops them.   *)
(***************************************************************************)
EXTENDS Integers, FiniteSets

CONSTANTS
  Events,       \* outbox rows, identified by event_id
  Routable,     \* events whose routing key is bound to a queue
  Poison,       \* events whose payload the handler refuses
  OccurredAt,   \* occurred_at of each event, fixed by its producer
  Relays,       \* run_outbox_relay processes
  Consumers,    \* deliveries a worker may process at the same time
  BatchSize,    \* OutboxRelay.batch_size
  ExponentCap,  \* the 6 of 2 ** min(attempts, 6)
  DelayCap,     \* the 60 of min(60, ...)
  MaxFaults,    \* bound: crashes, lost connections and failed calls
  NoEvent       \* delivery of a task that has none

ASSUME EventsAssumption ==
  /\ Routable \subseteq Events
  /\ Poison \subseteq Events
  /\ NoEvent \notin Events
ASSUME OccurredAtAssumption == OccurredAt \in [Events -> Nat]
ASSUME BoundsAssumption ==
  /\ BatchSize \in Nat \ {0}
  /\ ExponentCap \in Nat \ {0}
  /\ DelayCap \in Nat \ {0}
  /\ MaxFaults \in Nat

VARIABLES
  status,      \* outbox_events.status of each event, "absent" before insert
  attempts,    \* outbox_events.attempts, counted up to ExponentCap
  wait,        \* seconds until available_at
  todo,        \* rows a relay has locked and not yet tried
  confirmed,   \* rows a relay has marked published, not yet committed
  failed,      \* rows a relay has marked for retry, not yet committed
  asleep,      \* relays in the sleep(1) after a round that published nothing
  elapsed,     \* seconds since the relay read `now', up to DelayCap
  queue,       \* copies of each event ready in its RabbitMQ queue
  dlq,         \* events with a copy in the dead-letter queue
  inbox,       \* committed processed_messages rows
  task,        \* what a consumer's handler task is doing
  delivery,    \* the event of the task's delivery
  held,        \* tasks whose delivery the broker still counts as unacked
  faultsLeft,
  effects,     \* history: committed handler transactions of each event
  sends,       \* history: copies the broker accepted
  spoiled      \* history: accepted copies whose outcome the relay lost

outboxVars == <<status, attempts, wait>>
relayVars == <<todo, confirmed, failed, asleep, elapsed>>
brokerVars == <<queue, dlq, sends>>
consumerVars == <<inbox, task, delivery, held, effects>>
vars == <<outboxVars, relayVars, brokerVars, consumerVars, faultsLeft, spoiled>>

TaskStates == {"idle", "received", "claimed", "done", "failed"}

TypeOK ==
  /\ status \in [Events -> {"absent", "pending", "published"}]
  /\ attempts \in [Events -> 0..ExponentCap]
  /\ wait \in [Events -> 0..DelayCap]
  /\ todo \in [Relays -> SUBSET Events]
  /\ confirmed \in [Relays -> SUBSET Events]
  /\ failed \in [Relays -> SUBSET Events]
  /\ asleep \in SUBSET Relays
  /\ elapsed \in [Relays -> 0..DelayCap]
  /\ queue \in [Events -> Nat]
  /\ dlq \in SUBSET Events
  /\ inbox \in SUBSET Events
  /\ task \in [Consumers -> TaskStates]
  /\ delivery \in [Consumers -> Events \cup {NoEvent}]
  /\ held \in SUBSET Consumers
  /\ faultsLeft \in 0..MaxFaults
  /\ effects \in [Events -> Nat]
  /\ sends \in [Events -> Nat]
  /\ spoiled \in [Events -> Nat]

Init ==
  /\ status = [e \in Events |-> "absent"]
  /\ attempts = [e \in Events |-> 0]
  /\ wait = [e \in Events |-> 0]
  /\ todo = [r \in Relays |-> {}]
  /\ confirmed = [r \in Relays |-> {}]
  /\ failed = [r \in Relays |-> {}]
  /\ asleep = {}
  /\ elapsed = [r \in Relays |-> 0]
  /\ queue = [e \in Events |-> 0]
  /\ dlq = {}
  /\ inbox = {}
  /\ task = [c \in Consumers |-> "idle"]
  /\ delivery = [c \in Consumers |-> NoEvent]
  /\ held = {}
  /\ faultsLeft = MaxFaults
  /\ effects = [e \in Events |-> 0]
  /\ sends = [e \in Events |-> 0]
  /\ spoiled = [e \in Events |-> 0]

-----------------------------------------------------------------------------
(* Helpers *)

Least(a, b) == IF a <= b THEN a ELSE b

\* the exponent capped, the delay not
RetryDelayUncapped(n) == 2 ^ Least(n, ExponentCap)

\* delay = min(60, 2 ** min(attempts, 6))
RetryDelay(n) == Least(DelayCap, 2 ^ Least(n, ExponentCap))

\* the rows of a relay's open transaction, all locked FOR UPDATE
Batch(r) == todo[r] \cup confirmed[r] \cup failed[r]

Locked == UNION {Batch(r) : r \in Relays}

\* FOR UPDATE without SKIP LOCKED, were nobody made to wait
DueIgnoringLocks == {e \in Events : status[e] = "pending" /\ wait[e] = 0}

\* what the WHERE clause and SKIP LOCKED leave to choose from
Due == {e \in Events : status[e] = "pending" /\ wait[e] = 0} \ Locked

\* ORDER BY occurred_at LIMIT batch_size
IsOldestOf(b, rows) ==
  /\ b \subseteq rows
  /\ Cardinality(b) = Least(BatchSize, Cardinality(rows))
  /\ \A e \in b, f \in rows \ b : OccurredAt[e] <= OccurredAt[f]

OldestOf(b, e) == e \in b /\ \A f \in b : OccurredAt[e] <= OccurredAt[f]

\* status = 'published' set before the try block, whatever publish() does
AllRows(r) == Batch(r)

\* the rows whose status the transaction changes
PublishedRows(r) == confirmed[r]

\* a SELECT for the inbox row, which sees no uncommitted row and never waits
NoClaimVisible(e) == FALSE

\* another transaction has inserted the inbox row and not yet ended
ClaimedElsewhere(e) ==
  \E c \in Consumers : task[c] = "claimed" /\ delivery[c] = e

\* no_ack=True: the broker forgets a message when it hands it over
AckedOnDelivery == {"received", "done"}

\* manual ack: after message.process() leaves its block without an exception
AckedIn == {"done"}

\* some queue is bound to the exchange with the event's routing key
Bound(e) == e \in Routable

Fault == faultsLeft > 0 /\ faultsLeft' = faultsLeft - 1

NoFault == UNCHANGED faultsLeft

-----------------------------------------------------------------------------
(* Producers and the clock *)

\* OutboxWriter.add inside a business transaction that commits; available_at
\* is occurred_at unless the caller asks for a delay.
Store(e) ==
  /\ status[e] = "absent"
  /\ status' = [status EXCEPT ![e] = "pending"]
  /\ \E d \in {0, Least(2, DelayCap)} : wait' = [wait EXCEPT ![e] = d]
  /\ NoFault
  /\ UNCHANGED <<attempts, relayVars, brokerVars, consumerVars, spoiled>>

Tick ==
  /\ wait' = [e \in Events |-> IF wait[e] = 0 THEN 0 ELSE wait[e] - 1]
  /\ elapsed' = [r \in Relays |-> IF Batch(r) = {} THEN 0
                                  ELSE Least(elapsed[r] + 1, DelayCap)]
  /\ asleep' = {}
  /\ NoFault
  /\ UNCHANGED <<status, attempts, todo, confirmed, failed, brokerVars,
                 consumerVars, spoiled>>

-----------------------------------------------------------------------------
(* Relays: one publish_pending call is one database transaction *)

SelectBatch(r) ==
  /\ Batch(r) = {}
  /\ r \notin asleep
  /\ Due # {}
  /\ \E b \in SUBSET Due : IsOldestOf(b, Due) /\ todo' = [todo EXCEPT ![r] = b]
  /\ elapsed' = [elapsed EXCEPT ![r] = 0]
  /\ NoFault
  /\ UNCHANGED <<outboxVars, confirmed, failed, asleep, brokerVars, consumerVars,
                 spoiled>>

\* The broker confirms: the loop's else branch.
PublishConfirmed(r, e) ==
  /\ OldestOf(todo[r], e)
  /\ Bound(e)
  /\ todo' = [todo EXCEPT ![r] = @ \ {e}]
  /\ confirmed' = [confirmed EXCEPT ![r] = @ \cup {e}]
  /\ queue' = [queue EXCEPT ![e] = @ + 1]
  /\ sends' = [sends EXCEPT ![e] = @ + 1]
  /\ NoFault
  /\ UNCHANGED <<outboxVars, failed, asleep, elapsed, dlq, consumerVars,
                 spoiled>>

\* A mandatory message that no queue takes comes back as a DeliveryError, one
\* of the CONNECTION_EXCEPTIONS that publish() turns into MessagePublishError.
PublishReturned(r, e) ==
  /\ OldestOf(todo[r], e)
  /\ ~Bound(e)
  /\ todo' = [todo EXCEPT ![r] = @ \ {e}]
  /\ failed' = [failed EXCEPT ![r] = @ \cup {e}]
  /\ NoFault
  /\ UNCHANGED <<outboxVars, confirmed, asleep, elapsed, brokerVars, consumerVars,
                 spoiled>>

\* The connection breaks during publish(): the message may have been accepted.
PublishFails(r, e) ==
  /\ OldestOf(todo[r], e)
  /\ Fault
  /\ todo' = [todo EXCEPT ![r] = @ \ {e}]
  /\ failed' = [failed EXCEPT ![r] = @ \cup {e}]
  /\ \/ UNCHANGED <<queue, sends, spoiled>>
     \/ /\ Bound(e)
        /\ queue' = [queue EXCEPT ![e] = @ + 1]
        /\ sends' = [sends EXCEPT ![e] = @ + 1]
        /\ spoiled' = [spoiled EXCEPT ![e] = @ + 1]
  /\ UNCHANGED <<outboxVars, confirmed, asleep, elapsed, dlq, consumerVars>>

\* The retry time is counted from the `now' read before the batch. A round
\* that published nothing is followed by a sleep, unless another database of
\* the same round did.
CommitBatch(r) ==
  /\ todo[r] = {}
  /\ Batch(r) # {}
  /\ status' = [e \in Events |->
       IF e \in PublishedRows(r) THEN "published" ELSE status[e]]
  /\ attempts' = [e \in Events |->
       IF e \in Batch(r) THEN Least(attempts[e] + 1, ExponentCap) ELSE attempts[e]]
  /\ wait' = [e \in Events |->
       IF e \in failed[r]
         THEN LET d == RetryDelay(attempts[e] + 1)
              IN IF elapsed[r] >= d THEN 0 ELSE d - elapsed[r]
         ELSE wait[e]]
  /\ confirmed' = [confirmed EXCEPT ![r] = {}]
  /\ failed' = [failed EXCEPT ![r] = {}]
  /\ \/ UNCHANGED asleep
     \/ PublishedRows(r) = {} /\ asleep' = asleep \cup {r}
  /\ NoFault
  /\ UNCHANGED <<todo, elapsed, brokerVars, consumerVars, spoiled>>

\* The process dies, or any other exception leaves session.begin(): rollback.
RelayCrash(r) ==
  /\ Batch(r) # {}
  /\ Fault
  /\ spoiled' = [e \in Events |->
       IF e \in confirmed[r] THEN spoiled[e] + 1 ELSE spoiled[e]]
  /\ todo' = [todo EXCEPT ![r] = {}]
  /\ confirmed' = [confirmed EXCEPT ![r] = {}]
  /\ failed' = [failed EXCEPT ![r] = {}]
  /\ UNCHANGED <<outboxVars, asleep, elapsed, brokerVars, consumerVars>>

-----------------------------------------------------------------------------
(* Workers: RabbitMQConsumer.process around ApplicationMessageHandler *)

Deliver(c, e) ==
  /\ task[c] = "idle"
  /\ queue[e] > 0
  /\ queue' = [queue EXCEPT ![e] = @ - 1]
  /\ task' = [task EXCEPT ![c] = "received"]
  /\ delivery' = [delivery EXCEPT ![c] = e]
  /\ held' = held \cup {c}
  /\ NoFault
  /\ UNCHANGED <<outboxVars, relayVars, dlq, sends, inbox, effects, spoiled>>

\* INSERT ... ON CONFLICT DO NOTHING: an uncommitted row of another transaction
\* makes it wait, a committed row makes rowcount 0, otherwise the row is ours.
ClaimNew(c) ==
  /\ task[c] = "received"
  /\ delivery[c] \notin Poison \cup inbox
  /\ ~ClaimedElsewhere(delivery[c])
  /\ task' = [task EXCEPT ![c] = "claimed"]
  /\ NoFault
  /\ UNCHANGED <<outboxVars, relayVars, brokerVars, inbox, delivery, held,
                 effects, spoiled>>

ClaimDuplicate(c) ==
  /\ task[c] = "received"
  /\ delivery[c] \in inbox \ Poison
  /\ task' = [task EXCEPT ![c] = "done"]
  /\ NoFault
  /\ UNCHANGED <<outboxVars, relayVars, brokerVars, inbox, delivery, held,
                 effects, spoiled>>

\* The payload is validated before the session is opened.
RaiseInvalid(c) ==
  /\ task[c] = "received"
  /\ delivery[c] \in Poison
  /\ task' = [task EXCEPT ![c] = "failed"]
  /\ NoFault
  /\ UNCHANGED <<outboxVars, relayVars, brokerVars, inbox, delivery, held,
                 effects, spoiled>>

\* an exception handler that deletes the inbox row, in place of the rollback
HandlerFailsUnclaims(c) ==
  /\ task[c] \in {"received", "claimed"}
  /\ Fault
  /\ task' = [task EXCEPT ![c] = "failed"]
  /\ inbox' = inbox \ {delivery[c]}
  /\ UNCHANGED <<outboxVars, relayVars, brokerVars, delivery, held, effects, spoiled>>

\* The handler raises and its transaction, claim included, is rolled back.
HandlerFails(c) ==
  /\ task[c] \in {"received", "claimed"}
  /\ Fault
  /\ task' = [task EXCEPT ![c] = "failed"]
  /\ UNCHANGED <<outboxVars, relayVars, brokerVars, inbox, delivery, held,
                 effects, spoiled>>

\* The claim and the handler's writes commit together. When the answer to
\* COMMIT is lost the handler raises although the transaction is durable.
CommitHandler(c) ==
  /\ task[c] = "claimed"
  /\ inbox' = inbox \cup {delivery[c]}
  /\ effects' = [effects EXCEPT ![delivery[c]] = @ + 1]
  /\ \/ NoFault /\ task' = [task EXCEPT ![c] = "done"]
     \/ Fault /\ task' = [task EXCEPT ![c] = "failed"]
  /\ UNCHANGED <<outboxVars, relayVars, brokerVars, delivery, held, spoiled>>

\* message.process() leaves its block without an exception; on a channel that
\* was lost meanwhile the ack fails and the broker has requeued the message.
Ack(c) ==
  /\ task[c] \in AckedIn
  /\ task' = [task EXCEPT ![c] = "idle"]
  /\ delivery' = [delivery EXCEPT ![c] = NoEvent]
  /\ held' = held \ {c}
  /\ NoFault
  /\ UNCHANGED <<outboxVars, relayVars, brokerVars, inbox, effects, spoiled>>

\* reject(requeue=True) under message.process(requeue=True)
RejectRequeue(c) ==
  /\ task[c] = "failed"
  /\ task' = [task EXCEPT ![c] = "idle"]
  /\ delivery' = [delivery EXCEPT ![c] = NoEvent]
  /\ held' = held \ {c}
  /\ queue' = IF c \in held THEN [queue EXCEPT ![delivery[c]] = @ + 1] ELSE queue
  /\ NoFault
  /\ UNCHANGED <<outboxVars, relayVars, dlq, sends, inbox, effects, spoiled>>

\* reject(requeue=False): the queue's x-dead-letter-exchange takes the message.
Reject(c) ==
  /\ task[c] = "failed"
  /\ task' = [task EXCEPT ![c] = "idle"]
  /\ delivery' = [delivery EXCEPT ![c] = NoEvent]
  /\ held' = held \ {c}
  /\ dlq' = IF c \in held THEN dlq \cup {delivery[c]} ELSE dlq
  /\ NoFault
  /\ UNCHANGED <<outboxVars, relayVars, queue, sends, inbox, effects, spoiled>>

\* The broker requeues the delivery of a broken connection while the handler
\* task goes on: connect_robust reconnects behind it.
ConnectionLost(c) ==
  /\ task[c] # "idle"
  /\ c \in held
  /\ Fault
  /\ held' = held \ {c}
  /\ queue' = [queue EXCEPT ![delivery[c]] = @ + 1]
  /\ UNCHANGED <<outboxVars, relayVars, dlq, sends, inbox, task, delivery, effects,
                 spoiled>>

\* The worker process dies: rollback of an open claim, requeue of the message.
WorkerCrash(c) ==
  /\ task[c] # "idle"
  /\ Fault
  /\ task' = [task EXCEPT ![c] = "idle"]
  /\ delivery' = [delivery EXCEPT ![c] = NoEvent]
  /\ held' = held \ {c}
  /\ queue' = IF c \in held THEN [queue EXCEPT ![delivery[c]] = @ + 1] ELSE queue
  /\ UNCHANGED <<outboxVars, relayVars, dlq, sends, inbox, effects, spoiled>>

-----------------------------------------------------------------------------

RelayStep(r) ==
  \/ SelectBatch(r)
  \/ \E e \in Events : PublishConfirmed(r, e) \/ PublishReturned(r, e)
  \/ CommitBatch(r)

ConsumerStep(c) ==
  \/ \E e \in Events : Deliver(c, e)
  \/ ClaimNew(c) \/ ClaimDuplicate(c) \/ RaiseInvalid(c)
  \/ CommitHandler(c) \/ Ack(c) \/ Reject(c)

FaultStep ==
  \/ \E r \in Relays : RelayCrash(r) \/ \E e \in Events : PublishFails(r, e)
  \/ \E c \in Consumers : HandlerFails(c) \/ ConnectionLost(c) \/ WorkerCrash(c)

Next ==
  \/ \E e \in Events : Store(e)
  \/ Tick
  \/ \E r \in Relays : RelayStep(r)
  \/ \E c \in Consumers : ConsumerStep(c)
  \/ FaultStep

\* Relay and workers are loops that run as long as their containers do;
\* nobody has to produce an event, and no fault has to happen.
Fairness ==
  /\ \A r \in Relays : WF_vars(RelayStep(r))
  /\ \A c \in Consumers : WF_vars(ConsumerStep(c))

Spec == Init /\ [][Next]_vars

\* A round takes no longer than the sleep between two rounds: a second passes
\* only when no relay has a transaction open or due rows to fetch.
PromptTick ==
  /\ \A r \in Relays : Batch(r) = {} /\ (r \in asleep \/ Due = {})
  /\ Tick

PromptNext ==
  \/ \E e \in Events : Store(e)
  \/ PromptTick
  \/ \E r \in Relays : RelayStep(r)
  \/ \E c \in Consumers : ConsumerStep(c)
  \/ FaultStep

PromptSpec == Init /\ [][PromptNext]_vars /\ Fairness /\ WF_vars(PromptTick)

-----------------------------------------------------------------------------
(* Properties *)

InFlight(e) == \E c \in Consumers : task[c] # "idle" /\ c \in held /\ delivery[c] = e

Kept(e) == queue[e] > 0 \/ InFlight(e) \/ e \in dlq \/ e \in inbox

\* An outbox row marked published by the relay is never lost: the broker holds
\* a copy (queued, unacked or dead-lettered) or a worker has committed it,
\* whatever crashes, reconnects and unroutable keys happen on the way.
PublishedIsSafe ==
  \A e \in Events : status[e] = "published" => Kept(e)

\* ProcessedMessageInbox.claim makes the effect of an event happen at most
\* once, and exactly once when its inbox row is committed, although relays
\* republish and the broker redelivers to several workers at the same time.
EffectOncePerInboxRow ==
  \A e \in Events : effects[e] = IF e \in inbox THEN 1 ELSE 0

\* Every copy beyond the first that reaches the broker is explained by a fault:
\* a confirm the relay never saw, or a crash between confirm and commit.
\* SKIP LOCKED relays never publish the same row side by side.
DuplicatesNeedFaults == \A e \in Events : sends[e] <= 1 + spoiled[e]

(* The inductive strengthening of the three invariants above *)

\* FOR UPDATE: the rows of an open batch are pending and belong to one relay,
\* which has tried each of them at most once.
RowLocks ==
  \A r \in Relays :
    /\ \A e \in Batch(r) : status[e] = "pending"
    /\ \A q \in Relays \ {r} : Batch(r) \cap Batch(q) = {}
    /\ todo[r] \cap (confirmed[r] \cup failed[r]) = {}
    /\ confirmed[r] \cap failed[r] = {}

Confirmed(e) == status[e] = "published" \/ \E r \in Relays : e \in confirmed[r]

\* Every copy the broker accepted was either lost track of or is the one the
\* row records, or will record at commit.
CopiesCounted ==
  \A e \in Events :
    sends[e] = spoiled[e] + (IF Confirmed(e) THEN 1 ELSE 0)

ConfirmedIsKept == \A e \in Events : Confirmed(e) => Kept(e)

\* A task's delivery and its claim agree with the inbox.
TasksAgree ==
  /\ \A c \in Consumers :
       /\ task[c] = "idle" <=> delivery[c] = NoEvent
       /\ c \in held => task[c] # "idle"
       /\ task[c] = "done" => delivery[c] \in inbox
       /\ task[c] = "claimed" => delivery[c] \notin inbox
  /\ \A c, d \in Consumers :
       c # d /\ task[c] = "claimed" /\ task[d] = "claimed" => delivery[c] # delivery[d]

\* Only stored events with a bound key travel.
TravelsStored ==
  \A e \in Events :
    Kept(e) \/ (\E c \in Consumers : delivery[c] = e) =>
      status[e] # "absent" /\ e \in Routable

IInv ==
  /\ TypeOK
  /\ RowLocks
  /\ CopiesCounted
  /\ ConfirmedIsKept
  /\ TasksAgree
  /\ EffectOncePerInboxRow
  /\ TravelsStored

-----------------------------------------------------------------------------

\* At-least-once: a stored event whose key is bound to a queue is in the end
\* processed or parked in the dead-letter queue.
EventuallyHandled ==
  \A e \in Routable : status[e] = "pending" ~> (e \in inbox \/ e \in dlq)

\* The rows, the inbox and the dead-letter queue are the abstract event log.
Delivery == INSTANCE EventDelivery WITH
  stored <- {e \in Events : status[e] # "absent"},
  applied <- inbox,
  parked <- dlq

\* Relay, broker, worker and inbox together implement the safety part of
\* EventDelivery: nothing is applied or parked that was not stored, nothing
\* twice, and nothing that is applied or parked is ever taken back.
ImplementsDelivery == Delivery!Spec
=============================================================================

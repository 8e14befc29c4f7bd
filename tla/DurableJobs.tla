---------------------------- MODULE DurableJobs -----------------------------
(***************************************************************************)
(* Durable jobs: the durable_jobs table, the trigger and cancel endpoints, *)
(* the workers that claim requested jobs from RabbitMQ, and the handler    *)
(* with its chain of retry jobs and the index job a news collection asks   *)
(* for.                                                                    *)
(*                                                                         *)
(* A row is identified by (job_type, run_key), which is unique. Run keys   *)
(* are structured as the code derives them: `{root}:retry:{n}' is the root *)
(* with attempt n, `news-index:{job_id}' has the collection job as root.   *)
(* The request event of a row reaches the workers through Outbox, whose    *)
(* promise is all that is used here: at least one delivery after the row   *)
(* is committed, perhaps delayed, perhaps repeated.                        *)
(***************************************************************************)
EXTENDS Integers

CONSTANTS
  RunKeys,      \* run keys the API clients choose
  Triggers,     \* jobs the API clients trigger
  Workers,      \* deliveries processed at the same time
  Cancellers,   \* cancel requests
  Articles,     \* news articles, by source_key
  MaxAttempts,  \* MAX_NEWS_DURABLE_JOB_ATTEMPTS
  IndexingEnabled,  \* whether the search environment is configured
  MaxFaults,    \* bound: worker crashes and repeated deliveries
  NoJob

Attempts == 0 .. MaxAttempts - 1

CollectJobs == [type : {"news_collection"}, root : RunKeys, attempt : Attempts]

IndexJobs ==
  [type : {"news_index"}, root : RunKeys \X Attempts, attempt : Attempts]

\* price snapshots, daily candles and job history: no retry, no follow-up job
OtherJobs == [type : {"other"}, root : RunKeys, attempt : {0}]

Jobs == CollectJobs \cup IndexJobs \cup OtherJobs

ASSUME ConstantsAssumption ==
  /\ MaxAttempts \in Nat \ {0}
  /\ MaxFaults \in Nat
  /\ IndexingEnabled \in BOOLEAN
  /\ Triggers \subseteq {j \in CollectJobs \cup OtherJobs : j.attempt = 0}
  /\ NoJob \notin Jobs

VARIABLES
  status,      \* durable_jobs.status, "absent" while there is no row
  keys,        \* source_keys of an index job's payload
  mail,        \* copies of the job's request message the workers will get
  articles,    \* committed news_articles rows
  indexed,     \* documents in the search index
  task,        \* what a worker's handler task is doing
  job,         \* the job of its message
  cancel,      \* progress of a cancel request
  target,      \* the job it names
  dlq,         \* jobs with a message in the dead-letter queue
  faultsLeft,
  starts,      \* history: times the job's handler was called
  orphaned,    \* history: jobs whose worker died, or lost the database, on them
  transient,   \* history: jobs whose handler met a transient error
  unretried    \* history: jobs whose retry request raised

tableVars == <<status, keys, mail>>
newsVars == <<articles, indexed>>
taskVars == <<task, job>>
cancelVars == <<cancel, target>>
historyVars == <<starts, orphaned, transient, unretried>>
vars == <<tableVars, newsVars, taskVars, cancelVars, historyVars, dlq, faultsLeft>>

Terminal == {"succeeded", "failed", "cancelled"}
Statuses == {"absent", "requested", "running"} \cup Terminal
TaskStates == {"idle", "received", "working", "retrying", "failing", "completing",
               "acking", "rejecting"}
Answers == {"cancelled", "conflict"}
CancelStates == {"idle", "read", "refused"} \cup Answers

TypeOK ==
  /\ status \in [Jobs -> Statuses]
  /\ keys \in [Jobs -> SUBSET Articles]
  /\ mail \in [Jobs -> Nat]
  /\ articles \in SUBSET Articles
  /\ indexed \in SUBSET Articles
  /\ task \in [Workers -> TaskStates]
  /\ job \in [Workers -> Jobs \cup {NoJob}]
  /\ cancel \in [Cancellers -> CancelStates]
  /\ target \in [Cancellers -> Jobs \cup {NoJob}]
  /\ dlq \in SUBSET Jobs
  /\ faultsLeft \in 0..MaxFaults
  /\ starts \in [Jobs -> Nat]
  /\ orphaned \in SUBSET Jobs
  /\ transient \in SUBSET Jobs
  /\ unretried \in SUBSET Jobs

Init ==
  /\ status = [j \in Jobs |-> "absent"]
  /\ keys = [j \in Jobs |-> {}]
  /\ mail = [j \in Jobs |-> 0]
  /\ articles = {}
  /\ indexed = {}
  /\ task = [w \in Workers |-> "idle"]
  /\ job = [w \in Workers |-> NoJob]
  /\ cancel = [c \in Cancellers |-> "idle"]
  /\ target = [c \in Cancellers |-> NoJob]
  /\ dlq = {}
  /\ faultsLeft = MaxFaults
  /\ starts = [j \in Jobs |-> 0]
  /\ orphaned = {}
  /\ transient = {}
  /\ unretried = {}

-----------------------------------------------------------------------------
(* DurableJobRepository *)

Fault == faultsLeft > 0 /\ faultsLeft' = faultsLeft - 1

NoFault == UNCHANGED faultsLeft

\* request: INSERT ... ON CONFLICT DO NOTHING and, for a new row, the request
\* event in the same transaction.
Request(j, k) ==
  IF status[j] = "absent"
    THEN /\ status' = [status EXCEPT ![j] = "requested"]
         /\ keys' = [keys EXCEPT ![j] = k]
         /\ mail' = [mail EXCEPT ![j] = @ + 1]
    ELSE UNCHANGED <<status, keys, mail>>

\* an UPDATE by job_id alone
CanTransitionAlways(j, expected) == status[j] # "absent"

\* transition: UPDATE ... WHERE status = expected. Row locks and the READ
\* COMMITTED recheck make the statement atomic against other transitions.
CanTransition(j, expected) == status[j] = expected

\* a status the enumeration does not have
SetUndeclaredStatus(j, to) ==
  status' = [status EXCEPT ![j] = IF to = "succeeded" THEN "completed" ELSE to]

SetStatus(j, to) == status' = [status EXCEPT ![j] = to]

-----------------------------------------------------------------------------
(* The HTTP endpoints *)

\* trigger_durable_job; payloads validate_durable_job_payload refuses are not
\* written at all.
Trigger(j) ==
  /\ j \in Triggers
  /\ Request(j, {})
  /\ UNCHANGED <<newsVars, taskVars, cancelVars, historyVars, dlq, faultsLeft>>

\* cancel_durable_job: the first get
CancelRead(c, j) ==
  /\ cancel[c] = "idle"
  /\ status[j] # "absent"
  /\ cancel' = [cancel EXCEPT ![c] =
       IF status[j] = "cancelled" THEN "cancelled" ELSE "read"]
  /\ target' = [target EXCEPT ![c] = j]
  /\ UNCHANGED <<tableVars, newsVars, taskVars, historyVars, dlq, faultsLeft>>

\* cancel_durable_job: the requested -> cancelled transition
CancelUpdate(c) ==
  /\ cancel[c] = "read"
  /\ IF CanTransition(target[c], "requested")
       THEN /\ SetStatus(target[c], "cancelled")
            /\ cancel' = [cancel EXCEPT ![c] = "cancelled"]
       ELSE /\ UNCHANGED status
            /\ cancel' = [cancel EXCEPT ![c] = "refused"]
  /\ UNCHANGED <<keys, mail, newsVars, taskVars, target, historyVars, dlq, faultsLeft>>

\* cancel_durable_job: the second get; 409 unless somebody else cancelled
CancelReread(c) ==
  /\ cancel[c] = "refused"
  /\ cancel' = [cancel EXCEPT ![c] =
       IF status[target[c]] = "cancelled" THEN "cancelled" ELSE "conflict"]
  /\ UNCHANGED <<tableVars, newsVars, taskVars, target, historyVars, dlq, faultsLeft>>

-----------------------------------------------------------------------------
(* DurableJobMessageHandler.handle *)

Receive(w, j) ==
  /\ task[w] = "idle"
  /\ mail[j] > 0
  /\ mail' = [mail EXCEPT ![j] = @ - 1]
  /\ task' = [task EXCEPT ![w] = "received"]
  /\ job' = [job EXCEPT ![w] = j]
  /\ UNCHANGED <<status, keys, newsVars, cancelVars, historyVars, dlq, faultsLeft>>

\* requested -> running in a transaction of its own; a message whose job
\* cannot be claimed is acked without calling the handler.
Claim(w) ==
  /\ task[w] = "received"
  /\ IF CanTransition(job[w], "requested")
       THEN /\ SetStatus(job[w], "running")
            /\ starts' = [starts EXCEPT ![job[w]] = @ + 1]
            /\ task' = [task EXCEPT ![w] = "working"]
       ELSE /\ task' = [task EXCEPT ![w] = "acking"]
            /\ UNCHANGED <<status, starts>>
  /\ UNCHANGED <<keys, mail, newsVars, job, cancelVars, orphaned, transient,
                 unretried, dlq, faultsLeft>>

\* the exception goes on to the consumer without the failed transition
MarkFailedNothing(w) ==
  /\ task[w] = "failing"
  /\ task' = [task EXCEPT ![w] = "rejecting"]
  /\ UNCHANGED <<tableVars, newsVars, job, cancelVars, historyVars, dlq, faultsLeft>>

\* running -> failed, then the exception goes on to the consumer.
MarkFailed(w) ==
  /\ task[w] = "failing"
  /\ IF CanTransition(job[w], "running")
       THEN SetStatus(job[w], "failed")
       ELSE UNCHANGED status
  /\ task' = [task EXCEPT ![w] = "rejecting"]
  /\ UNCHANGED <<keys, mail, newsVars, job, cancelVars, historyVars, dlq, faultsLeft>>

\* running -> succeeded, or 'durable job completion transition was lost'.
MarkSucceeded(w) ==
  /\ task[w] = "completing"
  /\ IF CanTransition(job[w], "running")
       THEN /\ SetStatus(job[w], "succeeded")
            /\ task' = [task EXCEPT ![w] = "acking"]
       ELSE /\ UNCHANGED status
            /\ task' = [task EXCEPT ![w] = "rejecting"]
  /\ UNCHANGED <<keys, mail, newsVars, job, cancelVars, historyVars, dlq, faultsLeft>>

Ack(w) ==
  /\ task[w] \in {"acking", "rejecting"}
  /\ dlq' = IF task[w] = "rejecting" THEN dlq \cup {job[w]} ELSE dlq
  /\ task' = [task EXCEPT ![w] = "idle"]
  /\ job' = [job EXCEPT ![w] = NoJob]
  /\ UNCHANGED <<tableVars, newsVars, cancelVars, historyVars, faultsLeft>>

-----------------------------------------------------------------------------
(* ApplicationDurableJobHandler.handle *)

Retry(j) == [j EXCEPT !.attempt = @ + 1]

\* the last retry counted as an attempt twice
HasRetryOffByOne(j) == j.attempt < MaxAttempts - 2

HasRetry(j) == j.attempt < MaxAttempts - 1

IndexJob(j) == [type |-> "news_index", root |-> <<j.root, j.attempt>>, attempt |-> 0]

\* The provider or the search backend fails in a way worth retrying:
\* YahooFinanceNewsError, or a transient httpx error after any part of the
\* bulk request was indexed.
TransientError(w) ==
  /\ task[w] = "working"
  /\ \/ /\ job[w].type = "news_collection"
        /\ UNCHANGED indexed
     \/ /\ job[w].type = "news_index"
        /\ IndexingEnabled
        /\ keys[job[w]] # {}
        /\ \E done \in SUBSET keys[job[w]] : indexed' = indexed \cup done
  /\ transient' = transient \cup {job[w]}
  /\ task' = [task EXCEPT ![w] = "retrying"]
  /\ UNCHANGED <<tableVars, articles, job, cancelVars, starts, orphaned, unretried,
                 dlq, faultsLeft>>

\* what the transaction of _request_news_retry writes
RetryRow(j) ==
  IF HasRetry(j) THEN Request(Retry(j), keys[j]) ELSE UNCHANGED tableVars

\* _request_news_retry, a transaction of its own before the job is marked
\* failed; then the transient error goes on.
RequestRetry(w) ==
  /\ task[w] = "retrying"
  /\ RetryRow(job[w])
  /\ task' = [task EXCEPT ![w] = "failing"]
  /\ UNCHANGED <<newsVars, job, cancelVars, historyVars, dlq, faultsLeft>>

\* That transaction raises, rolled back or, when only the answer to COMMIT was
\* lost, durable. Its error takes the place of the transient one.
RetryRequestFails(w) ==
  /\ task[w] = "retrying"
  /\ HasRetry(job[w])
  /\ Fault
  /\ RetryRow(job[w]) \/ UNCHANGED tableVars
  /\ unretried' = unretried \cup {job[w]}
  /\ task' = [task EXCEPT ![w] = "failing"]
  /\ UNCHANGED <<newsVars, job, cancelVars, starts, orphaned, transient, dlq>>

\* Any other exception: a bad payload (an index job without source keys always
\* raises), a provider contract error, a database error, a bulk response that
\* reports rejected documents.
PermanentError(w) ==
  /\ task[w] = "working"
  /\ \/ UNCHANGED indexed
     \/ /\ job[w].type = "news_index"
        /\ IndexingEnabled
        /\ \E done \in SUBSET keys[job[w]] : indexed' = indexed \cup done
  /\ task' = [task EXCEPT ![w] = "failing"]
  /\ UNCHANGED <<tableVars, articles, job, cancelVars, historyVars, dlq, faultsLeft>>

\* articles inserted, and the index job requested, in two transactions of
\* which the second is not reached
CollectWithoutIndexJob(w) ==
  /\ task[w] = "working"
  /\ job[w].type = "news_collection"
  /\ \E found \in SUBSET Articles : articles' = articles \cup found
  /\ task' = [task EXCEPT ![w] = "completing"]
  /\ UNCHANGED <<tableVars, indexed, job, cancelVars, historyVars, dlq, faultsLeft>>

\* _collect_news: new articles and the index job's row commit together; the
\* index job gets the keys the INSERT returned, which may be none. When the
\* answer to COMMIT is lost the handler raises although the rows are durable.
CollectNews(w) ==
  /\ task[w] = "working"
  /\ job[w].type = "news_collection"
  /\ \E found \in SUBSET Articles :
       /\ articles' = articles \cup found
       /\ IF IndexingEnabled
            THEN Request(IndexJob(job[w]), found \ articles)
            ELSE UNCHANGED tableVars
  /\ \/ NoFault /\ task' = [task EXCEPT ![w] = "completing"]
     \/ Fault /\ task' = [task EXCEPT ![w] = "failing"]
  /\ UNCHANGED <<indexed, job, cancelVars, historyVars, dlq>>

\* _index_news: documents are indexed under their source_key, or skipped
IndexNews(w) ==
  /\ task[w] = "working"
  /\ job[w].type = "news_index"
  /\ keys[job[w]] # {}
  /\ indexed' = IF IndexingEnabled THEN indexed \cup keys[job[w]] ELSE indexed
  /\ task' = [task EXCEPT ![w] = "completing"]
  /\ UNCHANGED <<tableVars, articles, job, cancelVars, historyVars, dlq, faultsLeft>>

\* the price snapshot, candle and history handlers
RunOther(w) ==
  /\ task[w] = "working"
  /\ job[w].type = "other"
  /\ task' = [task EXCEPT ![w] = "completing"]
  /\ UNCHANGED <<tableVars, newsVars, job, cancelVars, historyVars, dlq, faultsLeft>>

-----------------------------------------------------------------------------
(* Faults *)

Owns(w, j) == job[w] = j /\ task[w] \in {"working", "retrying", "failing", "completing"}

\* The process dies and the broker requeues its message.
WorkerCrash(w) ==
  /\ task[w] # "idle"
  /\ Fault
  /\ mail' = [mail EXCEPT ![job[w]] = @ + 1]
  /\ orphaned' = IF Owns(w, job[w]) THEN orphaned \cup {job[w]} ELSE orphaned
  /\ task' = [task EXCEPT ![w] = "idle"]
  /\ job' = [job EXCEPT ![w] = NoJob]
  /\ UNCHANGED <<status, keys, newsVars, cancelVars, starts, transient, unretried, dlq>>

\* One of the three transition transactions raises, rolled back or, when only
\* the answer to COMMIT was lost, durable. The message goes to the dead-letter
\* queue and nobody looks at the job again.
DatabaseError(w) ==
  /\ Fault
  /\ \/ task[w] \in {"received", "failing", "completing"} /\ UNCHANGED status
     \/ /\ task[w] = "received"
        /\ CanTransition(job[w], "requested")
        /\ SetStatus(job[w], "running")
     \/ /\ task[w] = "failing"
        /\ CanTransition(job[w], "running")
        /\ SetStatus(job[w], "failed")
     \/ /\ task[w] = "completing"
        /\ CanTransition(job[w], "running")
        /\ SetStatus(job[w], "succeeded")
  /\ orphaned' = orphaned \cup {job[w]}
  /\ task' = [task EXCEPT ![w] = "rejecting"]
  /\ UNCHANGED <<keys, mail, newsVars, job, cancelVars, starts, transient, unretried, dlq>>

\* A relay publishes again, or the broker requeues behind a lost connection.
Redeliver(j) ==
  /\ status[j] # "absent"
  /\ Fault
  /\ mail' = [mail EXCEPT ![j] = @ + 1]
  /\ UNCHANGED <<status, keys, newsVars, taskVars, cancelVars, historyVars, dlq>>

-----------------------------------------------------------------------------

HandlerStep(w) ==
  \/ TransientError(w) \/ RequestRetry(w) \/ PermanentError(w)
  \/ CollectNews(w) \/ IndexNews(w) \/ RunOther(w)

WorkerStep(w) ==
  \/ \E j \in Jobs : Receive(w, j)
  \/ Claim(w) \/ HandlerStep(w) \/ MarkFailed(w) \/ MarkSucceeded(w) \/ Ack(w)

CancelStep(c) ==
  \/ \E j \in Jobs : CancelRead(c, j)
  \/ CancelUpdate(c) \/ CancelReread(c)

WorkerFault(w) == WorkerCrash(w) \/ DatabaseError(w) \/ RetryRequestFails(w)

Next ==
  \/ \E j \in Triggers : Trigger(j)
  \/ \E c \in Cancellers : CancelStep(c)
  \/ \E w \in Workers : WorkerStep(w) \/ WorkerFault(w)
  \/ \E j \in Jobs : Redeliver(j)

Spec == Init /\ [][Next]_vars

\* The consumer loop of a running worker; handlers end because every call they
\* make has a timeout. Clients and faults owe nothing.
LiveSpec == Spec /\ \A w \in Workers : WF_vars(WorkerStep(w))

-----------------------------------------------------------------------------
(* Properties *)

\* The requested -> running claim keeps two workers from starting the same job:
\* its handler is called at most once, for every mix of repeated deliveries,
\* crashes and cancellations.
HandlerStartsOnce == \A j \in Jobs : starts[j] <= 1

\* The worker that finishes a job still finds it running, so the 'completion
\* transition was lost' error of the worker never happens.
CompletionNeverLost ==
  \A w \in Workers : task[w] \in {"failing", "completing"} => status[job[w]] = "running"

\* A running job has exactly one worker on it, unless that worker died or could
\* not reach the database.
RunningHasOwner ==
  \A j \in Jobs :
    /\ status[j] = "running" /\ j \notin orphaned => \E w \in Workers : Owns(w, j)
    /\ \A v, w \in Workers : Owns(v, j) /\ Owns(w, j) => v = w

\* A cancel request answered with success names a job whose handler was not and
\* will never be called; one answered with 409 names a job whose handler was
\* called, or whose worker was lost at the claim.
CancelAnswersTruthful ==
  \A c \in Cancellers :
    /\ cancel[c] = "cancelled" =>
         status[target[c]] = "cancelled" /\ starts[target[c]] = 0
    /\ cancel[c] = "conflict" => starts[target[c]] > 0 \/ target[c] \in orphaned

\* A retry row exists only behind an attempt that was started, was not cancelled
\* and did not succeed. An attempt marked failed after a transient error has its
\* retry row, unless it was the last attempt or the transaction that requests
\* the retry raised: the crash or the error that comes between the two
\* transactions leaves the attempt running, never failed without its retry.
RetryFollowsFailure ==
  \A j \in CollectJobs \cup IndexJobs : j.attempt < MaxAttempts - 1 =>
    /\ status[Retry(j)] # "absent" => starts[j] = 1 /\ status[j] \in {"running", "failed"}
    /\ j \in transient \ unretried /\ status[j] = "failed" => status[Retry(j)] # "absent"

\* Every stored article is named by an index job: the insert and the request
\* commit together, so no crash separates them.
ArticlesHaveIndexJob ==
  IndexingEnabled =>
    \A a \in articles : \E j \in IndexJobs : status[j] # "absent" /\ a \in keys[j]

(* The inductive strengthening of the invariants above *)

\* A claim and the row agree: the worker that claimed a job is the only one on
\* it, the row stays running for as long as it is, and only the news handlers
\* request retries.
OwnersAgree ==
  /\ \A w \in Workers :
       /\ task[w] = "idle" <=> job[w] = NoJob
       /\ task[w] \in {"working", "retrying", "failing", "completing"} =>
            status[job[w]] = "running" /\ starts[job[w]] = 1
       /\ task[w] = "retrying" => job[w] \in CollectJobs \cup IndexJobs
  /\ \A v, w \in Workers : \A j \in Jobs : Owns(v, j) /\ Owns(w, j) => v = w

StartsCounted ==
  \A j \in Jobs :
    /\ starts[j] \in {0, 1}
    /\ starts[j] = 1 => status[j] \in {"running", "succeeded", "failed"}
    /\ status[j] \in {"running", "succeeded", "failed"} => starts[j] = 1 \/ j \in orphaned

RunningKnown ==
  \A j \in Jobs :
    status[j] = "running" /\ j \notin orphaned => \E w \in Workers : Owns(w, j)

CancelsAgree ==
  \A c \in Cancellers :
    /\ cancel[c] # "idle" => target[c] \in Jobs /\ status[target[c]] # "absent"
    /\ cancel[c] = "refused" => status[target[c]] # "requested"
    /\ cancel[c] = "cancelled" => status[target[c]] = "cancelled"
    /\ cancel[c] = "conflict" => status[target[c]] \in {"running", "succeeded", "failed"}

\* A transient error is met once, before the retry; once the retry of an attempt
\* exists its worker can only mark it failed, and it does so only behind the
\* retry or the error of its request.
RetriesAgree ==
  \A j \in CollectJobs \cup IndexJobs :
    /\ j \in transient => starts[j] = 1
    /\ \A w \in Workers : Owns(w, j) /\ task[w] = "working" => j \notin transient
    /\ j.attempt < MaxAttempts - 1 /\ status[Retry(j)] # "absent" =>
         /\ status[j] \in {"running", "failed"} /\ starts[j] = 1
         /\ \A w \in Workers : Owns(w, j) => task[w] = "failing"
    /\ j.attempt < MaxAttempts - 1 /\ j \in transient \ unretried =>
         /\ status[j] = "failed" => status[Retry(j)] # "absent"
         /\ \A w \in Workers :
              Owns(w, j) /\ task[w] = "failing" => status[Retry(j)] # "absent"

\* The index job appears when its collection has left the handler.
IndexFollowsCollect ==
  \A j \in CollectJobs : status[IndexJob(j)] # "absent" =>
    /\ status[j] \in {"running", "succeeded", "failed"}
    /\ \A w \in Workers : Owns(w, j) => task[w] # "working"

JInv ==
  /\ TypeOK
  /\ OwnersAgree
  /\ StartsCounted
  /\ RunningKnown
  /\ CancelsAgree
  /\ RetriesAgree
  /\ IndexFollowsCollect
  /\ ArticlesHaveIndexJob

-----------------------------------------------------------------------------

\* succeeded, failed and cancelled are final.
TerminalIsFinal ==
  [][\A j \in Jobs : status[j] \in Terminal => status'[j] = status[j]]_vars

\* Every requested job ends, except where its worker died after the claim (a
\* redelivered message finds the job running and is acked) or lost the database
\* (the message is dead-lettered).
RequestedJobsEnd ==
  \A j \in Jobs :
    status[j] = "requested" ~> (status[j] \in Terminal \/ j \in orphaned)
=============================================================================

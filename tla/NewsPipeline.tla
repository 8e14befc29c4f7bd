---------------------------- MODULE NewsPipeline ----------------------------
(***************************************************************************)
(* The news pipeline over HybridSearch: an hourly Airflow run triggers a   *)
(* news_collection job and polls it; the job stores the new articles and,  *)
(* in the same transaction, requests a news_index job for them, which puts *)
(* them into the search index.                                             *)
(*                                                                         *)
(* That a requested job is started at most once, by one worker, and that a *)
(* job that ended stays so, is what DurableJobs establishes. A job is      *)
(* named by its kind, the Airflow run it comes from and its attempt, which *)
(* is what its run_key says. An article is the source_key of its URL.      *)
(* The RAG profile is configured (_indexing_enabled).                      *)
(***************************************************************************)
EXTENDS HybridSearch

CONSTANTS
  Intervals,    \* Airflow runs, by data_interval_start
  Feeds,        \* what the provider may answer: sets of articles
  MaxAttempts,  \* MAX_NEWS_DURABLE_JOB_ATTEMPTS
  MaxFaults     \* bound: failures, cancellations and crashes

ASSUME PipelineAssumption ==
  Feeds \subseteq SUBSET Documents /\ MaxAttempts \in Nat \ {0} /\ MaxFaults \in Nat

Kinds == {"collect", "index"}
Jobs == Kinds \X Intervals \X (0..(MaxAttempts - 1))

ASSUME WritersAreJobs == Writers = {j \in Jobs : j[1] = "index"}

VARIABLES
  dag,        \* the trigger and wait tasks of an Airflow run
  status,     \* durable_jobs rows
  doing,      \* what the worker of a running job does next
  collected,  \* the articles a collection holds in memory
  stored,     \* news_articles rows
  keys,       \* source_keys of the index job of an interval
  faultsLeft

jobVars == <<dag, status, doing, collected, stored, keys>>
vars == <<jobVars, searchVars, faultsLeft>>

JobTypeOK ==
  /\ dag \in [Intervals -> {"idle", "waiting", "succeeded", "failed"}]
  /\ status \in [Jobs -> {"none", "requested", "running", "succeeded", "failed",
                          "cancelled"}]
  /\ doing \in [Jobs -> {"none", "start", "store", "index", "retry", "fail",
                         "succeed"}]
  /\ \A j \in Jobs : doing[j] # "none" => status[j] = "running"
  /\ collected \in [Intervals -> SUBSET Documents]
  /\ stored \subseteq Documents
  /\ keys \in [Intervals -> SUBSET Documents]
  /\ faultsLeft \in 0..MaxFaults

TypeOK == SearchTypeOK /\ JobTypeOK

Init ==
  /\ SearchInit
  /\ dag = [c \in Intervals |-> "idle"]
  /\ status = [j \in Jobs |-> "none"]
  /\ doing = [j \in Jobs |-> "none"]
  /\ collected = [c \in Intervals |-> {}]
  /\ stored = {}
  /\ keys = [c \in Intervals |-> {}]
  /\ faultsLeft = MaxFaults

-----------------------------------------------------------------------------
(* Airflow *)

First(c) == <<"collect", c, 0>>

\* POST /internal/jobs/news_collection: a run_key that exists is not new
Request(j) == status' = IF status[j] = "none" THEN [status EXCEPT ![j] = "requested"]
                        ELSE status

Trigger(c) ==
  /\ dag[c] = "idle"
  /\ Request(First(c))
  /\ dag' = [dag EXCEPT ![c] = "waiting"]
  /\ UNCHANGED <<doing, collected, stored, keys, searchVars>>

\* the answer is lost; Airflow retries the task with the same run_key
TriggerLost(c) ==
  /\ dag[c] = "idle"
  /\ Request(First(c))
  /\ UNCHANGED <<dag, doing, collected, stored, keys, searchVars>>

\* GET /internal/jobs/news_collection/{job_id}
GetDurableJob(j) == status[j]

\* The retries of a wait task that raised poll a job that has ended.
Wait(c) ==
  /\ dag[c] = "waiting"
  /\ GetDurableJob(First(c)) \in {"succeeded", "failed", "cancelled"}
  /\ dag' = [dag EXCEPT ![c] =
       IF GetDurableJob(First(c)) = "succeeded" THEN "succeeded" ELSE "failed"]
  /\ UNCHANGED <<status, doing, collected, stored, keys, searchVars>>

\* execution_timeout, of every retry
WaitTimesOut(c) ==
  /\ dag[c] = "waiting"
  /\ GetDurableJob(First(c)) \in {"requested", "running"}
  /\ dag' = [dag EXCEPT ![c] = "failed"]
  /\ UNCHANGED <<status, doing, collected, stored, keys, searchVars>>

-----------------------------------------------------------------------------
(* Durable jobs *)

Claim(j) ==
  /\ status[j] = "requested"
  /\ status' = [status EXCEPT ![j] = "running"]
  /\ doing' = [doing EXCEPT ![j] = "start"]
  /\ UNCHANGED <<dag, collected, stored, keys, searchVars>>

\* whatever the job's status
CancelAny(j) ==
  /\ status[j] \in {"requested", "running"}
  /\ status' = [status EXCEPT ![j] = "cancelled"]
  /\ UNCHANGED <<dag, doing, collected, stored, keys, searchVars>>

Cancel(j) ==
  /\ status[j] = "requested"
  /\ status' = [status EXCEPT ![j] = "cancelled"]
  /\ UNCHANGED <<dag, doing, collected, stored, keys, searchVars>>

End(j, s) ==
  /\ status' = [status EXCEPT ![j] = s]
  /\ doing' = [doing EXCEPT ![j] = "none"]
  /\ collected' = IF j[1] = "collect" THEN [collected EXCEPT ![j[2]] = {}] ELSE collected
  /\ UNCHANGED <<dag, stored, keys, searchVars>>

MarkSucceeded(j) == doing[j] = "succeed" /\ End(j, "succeeded")

MarkFailed(j) == doing[j] = "fail" /\ End(j, "failed")

\* A dead worker's job stays running: its redelivered message finds it so.
WorkerCrash(j) ==
  /\ doing[j] # "none"
  /\ doing' = [doing EXCEPT ![j] = "none"]
  /\ collected' = IF j[1] = "collect" THEN [collected EXCEPT ![j[2]] = {}] ELSE collected
  /\ write' = [w \in Writers |-> IF w = j THEN "none" ELSE write[w]]
  /\ batch' = [w \in Writers |-> IF w = j THEN {} ELSE batch[w]]
  /\ UNCHANGED <<dag, status, stored, keys, docs, mapping, query>>

RetryOf(j) == <<j[1], j[2], j[3] + 1>>

\* _request_news_retry, in a transaction of its own, before the error is raised;
\* it makes no difference whether the answer to its COMMIT is lost
RequestRetry(j) ==
  /\ doing[j] = "retry"
  /\ doing' = [doing EXCEPT ![j] = "fail"]
  /\ IF j[3] >= MaxAttempts - 1 THEN UNCHANGED status ELSE Request(RetryOf(j))
  /\ UNCHANGED <<dag, collected, stored, keys, searchVars>>

\* A database error, of the transaction of the articles or of the retry too, a bad
\* payload or a provider contract error: whatever was to be written is not.
HandlerRaises(j) ==
  /\ doing[j] \in {"start", "store", "retry"}
  /\ doing' = [doing EXCEPT ![j] = "fail"]
  /\ UNCHANGED <<dag, status, collected, stored, keys, searchVars>>

-----------------------------------------------------------------------------
(* _collect_news *)

\* YahooFinanceNewsProvider.collect of every symbol; malformed articles are
\* left out and what several symbols share counts once
Collect(j, articles) ==
  /\ j[1] = "collect" /\ doing[j] = "start"
  /\ doing' = [doing EXCEPT ![j] = "store"]
  /\ collected' = [collected EXCEPT ![j[2]] = articles]
  /\ UNCHANGED <<dag, status, stored, keys, searchVars>>

\* a symbol timed out or failed: nothing of the others is stored
ProviderFails(j) ==
  /\ j[1] = "collect" /\ doing[j] = "start"
  /\ doing' = [doing EXCEPT ![j] = "retry"]
  /\ UNCHANGED <<dag, status, collected, stored, keys, searchVars>>

\* ON CONFLICT DO NOTHING ... RETURNING
InsertedKeys(articles) == articles \ stored

\* the articles and their index job, in one transaction; the handler raises when
\* the answer to COMMIT is lost
StoreArticles(j, next) ==
  /\ j[1] = "collect" /\ doing[j] = "store"
  /\ doing' = [doing EXCEPT ![j] = next]
  /\ stored' = stored \cup collected[j[2]]
  /\ keys' = [keys EXCEPT ![j[2]] = InsertedKeys(collected[j[2]])]
  /\ Request(<<"index", j[2], 0>>)
  /\ UNCHANGED <<dag, collected, searchVars>>

-----------------------------------------------------------------------------
(* _index_news *)

\* ValueError when the collection had stored nothing new
NoSourceKeys(j) ==
  /\ j[1] = "index" /\ doing[j] = "start"
  /\ keys[j[2]] = {}
  /\ doing' = [doing EXCEPT ![j] = "fail"]
  /\ UNCHANGED <<dag, status, collected, stored, keys, searchVars>>

\* the rows with these keys
FindBySourceKeys(source_keys) == source_keys \cap stored

\* NewsSearchIndexer.index: one document for each article, its id the source_key
NewsIndex(j, articles) == Index(j, articles)

IndexNews(j) ==
  /\ j[1] = "index" /\ doing[j] = "start"
  /\ keys[j[2]] # {}
  /\ doing' = [doing EXCEPT ![j] = "index"]
  /\ NewsIndex(j, FindBySourceKeys(keys[j[2]]))
  /\ UNCHANGED <<dag, status, collected, stored, keys, docs, mapping, query>>

Leave(j, next) ==
  /\ doing' = [doing EXCEPT ![j] = next]
  /\ write' = [write EXCEPT ![j] = "none"]
  /\ batch' = [batch EXCEPT ![j] = {}]
  /\ UNCHANGED <<dag, status, collected, stored, keys, docs, mapping, query>>

IndexReturns(j) == doing[j] = "index" /\ write[j] = "done" /\ Leave(j, "succeed")

\* an HTTP error that _is_transient_search_error leads to a retry; any other,
\* and the RuntimeError and ValueError of index, only to the failure
IndexRaises(j) ==
  /\ doing[j] = "index" /\ write[j] = "error"
  /\ Leave(j, "retry") \/ Leave(j, "fail")

-----------------------------------------------------------------------------

JobStep(j) ==
  \/ Claim(j) \/ MarkSucceeded(j) \/ MarkFailed(j) \/ RequestRetry(j)
  \/ \E articles \in Feeds : Collect(j, articles)
  \/ StoreArticles(j, "succeed") \/ NoSourceKeys(j)
  \/ j \in Writers /\ (IndexNews(j) \/ IndexReturns(j) \/ IndexRaises(j))

Failure ==
  /\ faultsLeft > 0
  /\ faultsLeft' = faultsLeft - 1
  /\ \/ \E c \in Intervals : TriggerLost(c) \/ WaitTimesOut(c)
     \/ \E j \in Jobs :
          \/ Cancel(j) \/ ProviderFails(j) \/ WorkerCrash(j)
          \/ HandlerRaises(j) \/ StoreArticles(j, "fail")
     \/ /\ \E w \in Writers :
             \/ HttpFails(w) \/ MappingRejected(w)
             \/ \E rejected \in SUBSET batch[w] \ {{}} : BulkRejects(w, rejected)
        /\ UNCHANGED jobVars

PipelineStep ==
  \/ /\ \/ \E c \in Intervals : Trigger(c) \/ Wait(c)
        \/ \E j \in Jobs : JobStep(j)
        \/ (\E w \in Writers : IndexStep(w)) /\ UNCHANGED jobVars
     /\ UNCHANGED faultsLeft
  \/ Failure

\* An operator searches when nothing happens, or a _bulk is about to happen.
\* Nothing sees the search, and of what the pipeline does until it is answered
\* only a _bulk is seen by it.
SearchTime ==
  \/ \A j \in Jobs : doing[j] = "none" /\ status[j] # "requested"
  \/ \E w \in Writers : write[w] = "bulk"

OperatorSearch ==
  /\ \/ SearchTime /\ \E limit \in Limits : Search(limit)
     \/ SearchStep
     \/ query.at = "sent" /\ \E w \in Writers : Bulk(w)
  /\ UNCHANGED <<jobVars, faultsLeft>>

Next == (query = NoQuery /\ PipelineStep) \/ OperatorSearch

Spec == Init /\ [][Next]_vars

-----------------------------------------------------------------------------
(* Properties *)

IndexJobs(c) == {j \in Jobs : j[1] = "index" /\ j[2] = c}

\* somebody still has to do the job, or died doing it
Open(j) == status[j] \in {"requested", "running"}

\* failed for good, or cancelled: an operator sees it in the job's row
GivenUp(c) == \E j \in IndexJobs(c) :
  status[j] = "cancelled" \/ (status[j] = "failed" /\ \A i \in IndexJobs(c) :
                                i[3] > j[3] => status[i] \in {"none", "failed"})

\* No article is forgotten on its way to the index. A stored article belongs to
\* the index job of exactly one collection; it is in the index, or that job or
\* a retry of it is open, or has failed or was cancelled where an operator can
\* see it. A job that succeeded has indexed all its articles, whatever the
\* backend rejected, and an Airflow run that succeeded has left an index job.
ArticlesReachIndex ==
  /\ \A d \in stored : \E c \in Intervals :
       /\ d \in keys[c]
       /\ \A b \in Intervals \ {c} : d \notin keys[b]
       /\ d \in docs \/ GivenUp(c) \/ \E j \in IndexJobs(c) : Open(j)
  /\ \A c \in Intervals, j \in Jobs :
       j \in IndexJobs(c) /\ status[j] = "succeeded" => keys[c] \subseteq docs
  /\ \A c \in Intervals :
       dag[c] = "succeeded" => status[<<"index", c, 0>>] # "none"
=============================================================================

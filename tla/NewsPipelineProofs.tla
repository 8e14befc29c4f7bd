------------------------- MODULE NewsPipelineProofs -------------------------
(***************************************************************************)
(* PInv is an inductive invariant of NewsPipeline for any Airflow runs,    *)
(* feeds, attempts and faults; no article is forgotten because of it. What *)
(* a search answers plays no part in it: QInv, and what is proved of rank  *)
(* fusion for any two rankings, say that.                                  *)
(***************************************************************************)
EXTENDS NewsPipeline, FiniteSetTheorems, TLAPS

FirstIndex(c) == <<"index", c, 0>>

\* j is a later attempt of what i attempts
Later(i, j) == i[1] = j[1] /\ i[2] = j[2] /\ i[3] < j[3]

\* Nothing of the job is left to be done but to record that it failed.
Past(j) == status[j] \notin {"none", "requested"} /\ doing[j] \in {"none", "fail"}

\* The next attempt is requested only by one that has given up.
AttemptsInOrder ==
  \A i, j \in Jobs : Later(i, j) /\ status[j] # "none" => Past(i)

\* Once an interval has its index job, no attempt of its collection is going to
\* store articles, or to request another that would.
CollectedOnce ==
  \A c \in Intervals : status[FirstIndex(c)] # "none" =>
    /\ status[First(c)] # "none"
    /\ \A j \in Jobs : j[1] = "collect" /\ j[2] = c =>
         status[j] # "requested" /\ doing[j] \notin {"start", "store", "retry"}

\* A collection that succeeded, and an Airflow run that saw it, left the index job.
IndexRequested ==
  /\ \A c \in Intervals :
       keys[c] # {} \/ dag[c] = "succeeded" => status[FirstIndex(c)] # "none"
  /\ \A j \in Jobs :
       j[1] = "collect" /\ (doing[j] = "succeed" \/ status[j] = "succeeded") =>
         status[FirstIndex(j[2])] # "none"

\* The stored articles are shared out among the intervals that collected them.
KeysPartition ==
  /\ stored = UNION {keys[c] : c \in Intervals}
  /\ \A b, c \in Intervals : b # c => keys[b] \cap keys[c] = {}

\* An index job writes what its interval collected, and ends when it is written.
IndexedWhole ==
  /\ \A w \in Writers : write[w] = "done" => batch[w] \subseteq docs
  /\ \A w \in Writers : doing[w] = "index" => batch[w] = keys[w[2]]
  /\ \A w \in Writers :
       doing[w] = "succeed" \/ status[w] = "succeeded" => keys[w[2]] \subseteq docs

PInv ==
  /\ IndexTypeOK /\ JobTypeOK
  /\ AttemptsInOrder /\ CollectedOnce /\ IndexRequested
  /\ KeysPartition /\ IndexedWhole

-----------------------------------------------------------------------------
(* Jobs *)

\* The names of jobs: what their parts are, that the parts are the name, and
\* which jobs write to the index.
LEMMA JobFacts ==
  /\ \A j \in Jobs : j[1] \in Kinds /\ j[2] \in Intervals /\ j[3] \in 0..(MaxAttempts - 1)
  /\ \A i, j \in Jobs : i[1] = j[1] /\ i[2] = j[2] /\ i[3] = j[3] => i = j
  /\ \A c \in Intervals : First(c) \in Jobs /\ FirstIndex(c) \in Jobs
  /\ \A c \in Intervals : First(c)[1] = "collect" /\ First(c)[2] = c /\ First(c)[3] = 0
  /\ \A c \in Intervals :
       FirstIndex(c)[1] = "index" /\ FirstIndex(c)[2] = c /\ FirstIndex(c)[3] = 0
  /\ Writers \subseteq Jobs
  /\ \A w \in Jobs : w \in Writers <=> w[1] = "index"
BY PipelineAssumption, WritersAreJobs DEF Jobs, Kinds, First, FirstIndex

\* The next attempt of a job that is not the last is a job, and the first after it.
LEMMA RetryFacts ==
  ASSUME NEW j \in Jobs, j[3] < MaxAttempts - 1
  PROVE  /\ RetryOf(j) \in Jobs
         /\ RetryOf(j)[1] = j[1] /\ RetryOf(j)[2] = j[2] /\ RetryOf(j)[3] = j[3] + 1
BY PipelineAssumption DEF Jobs, Kinds, RetryOf

\* A request only makes a job that was not there requested.
LEMMA RequestFacts ==
  ASSUME JobTypeOK, NEW j \in Jobs, Request(j)
  PROVE  /\ status' \in [Jobs -> {"none", "requested", "running", "succeeded", "failed",
                                   "cancelled"}]
         /\ status'[j] # "none"
         /\ \A k \in Jobs : status'[k] # status[k] =>
              k = j /\ status[k] = "none" /\ status'[k] = "requested"
BY DEF JobTypeOK, Request

\* A job that is not at the index, before and after, does not concern the index.
LEMMA IndexUnconcerned ==
  ASSUME IndexedWhole, UNCHANGED <<docs, write, batch, keys>>,
         \A w \in Writers : doing'[w] \in {"index", "succeed"} => doing'[w] = doing[w],
         \A w \in Writers : status'[w] = "succeeded" =>
           status[w] = "succeeded" \/ doing[w] = "succeed"
  PROVE  IndexedWhole'
BY DEF IndexedWhole

-----------------------------------------------------------------------------
(* The steps of Airflow *)

\* The collection is requested at most once, however often it is triggered.
LEMMA TriggerKeeps ==
  ASSUME PInv, faultsLeft' \in 0..MaxFaults, NEW c \in Intervals,
         Trigger(c) \/ TriggerLost(c)
  PROVE  PInv'
<1> USE DEF PInv
<1>a. Request(First(c))
  BY DEF Trigger, TriggerLost
<1>b. /\ status' \in [Jobs -> {"none", "requested", "running", "succeeded", "failed",
                                "cancelled"}]
      /\ \A k \in Jobs : status'[k] # status[k] =>
           k = First(c) /\ status[k] = "none" /\ status'[k] = "requested"
  BY <1>a, RequestFacts, JobFacts
<1>1. IndexTypeOK'
  BY DEF IndexTypeOK, Trigger, TriggerLost, searchVars
<1>2. JobTypeOK'
  BY JobFacts, <1>b DEF JobTypeOK, Trigger, TriggerLost
<1>3. AttemptsInOrder'
  BY JobFacts, <1>b DEF JobTypeOK, AttemptsInOrder, Later, Past, Trigger, TriggerLost
<1>4. CollectedOnce'
  BY JobFacts, <1>b DEF JobTypeOK, CollectedOnce, Trigger, TriggerLost
<1>5. IndexRequested'
  BY JobFacts, <1>b DEF JobTypeOK, IndexRequested, Trigger, TriggerLost
<1>6. KeysPartition'
  BY DEF JobTypeOK, KeysPartition, Trigger, TriggerLost
<1>7. IndexedWhole'
  BY JobFacts, <1>b DEF JobTypeOK, IndexTypeOK, IndexedWhole, Trigger, TriggerLost,
                        searchVars
<1> QED
  BY <1>1, <1>2, <1>3, <1>4, <1>5, <1>6, <1>7

\* A run succeeds with its collection.
LEMMA WaitKeeps ==
  ASSUME PInv, faultsLeft' \in 0..MaxFaults, NEW c \in Intervals,
         Wait(c) \/ WaitTimesOut(c)
  PROVE  PInv'
<1> USE DEF PInv
<1>1. IndexTypeOK'
  BY DEF IndexTypeOK, Wait, WaitTimesOut, GetDurableJob, searchVars
<1>2. JobTypeOK'
  BY JobFacts DEF JobTypeOK, Wait, WaitTimesOut, GetDurableJob
<1>3. AttemptsInOrder'
  BY JobFacts DEF JobTypeOK, AttemptsInOrder, Later, Past, Wait, WaitTimesOut,
                  GetDurableJob
<1>4. CollectedOnce'
  BY JobFacts DEF JobTypeOK, CollectedOnce, Wait, WaitTimesOut, GetDurableJob
<1>5. IndexRequested'
  BY JobFacts DEF JobTypeOK, IndexRequested, Wait, WaitTimesOut, GetDurableJob
<1>6. KeysPartition'
  BY DEF JobTypeOK, KeysPartition, Wait, WaitTimesOut, GetDurableJob
<1>7. IndexedWhole'
  BY JobFacts DEF JobTypeOK, IndexTypeOK, IndexedWhole, Wait, WaitTimesOut,
                  GetDurableJob, searchVars
<1> QED
  BY <1>1, <1>2, <1>3, <1>4, <1>5, <1>6, <1>7

-----------------------------------------------------------------------------
(* The steps of jobs *)

\* A job that is claimed or cancelled was requested.
LEMMA ClaimKeeps ==
  ASSUME PInv, faultsLeft' \in 0..MaxFaults, NEW j \in Jobs,
         Claim(j) \/ Cancel(j)
  PROVE  PInv'
<1> USE DEF PInv
<1>1. IndexTypeOK'
  BY DEF IndexTypeOK, Claim, Cancel, searchVars
<1>2. JobTypeOK'
  <2>1. CASE Claim(j)
    BY <2>1 DEF JobTypeOK, Claim
  <2>2. CASE Cancel(j)
    <3>1. doing[j] = "none"
      BY <2>2 DEF JobTypeOK, Cancel
    <3> QED
      BY <2>2, <3>1 DEF JobTypeOK, Cancel
  <2> QED
    BY <2>1, <2>2
<1>3. AttemptsInOrder'
  BY JobFacts DEF JobTypeOK, AttemptsInOrder, Later, Past, Claim, Cancel
<1>4. CollectedOnce'
  BY JobFacts DEF JobTypeOK, CollectedOnce, Claim, Cancel
<1>5. IndexRequested'
  BY JobFacts DEF JobTypeOK, IndexRequested, Claim, Cancel
<1>6. KeysPartition'
  BY DEF JobTypeOK, KeysPartition, Claim, Cancel
<1>7. IndexedWhole'
  <2>1. UNCHANGED <<docs, write, batch, keys>>
    BY DEF Claim, Cancel, searchVars
  <2>2. \A w \in Writers : doing'[w] \in {"index", "succeed"} => doing'[w] = doing[w]
    BY WritersAreJobs DEF JobTypeOK, Claim, Cancel
  <2>3. \A w \in Writers : status'[w] = "succeeded" => status'[w] = status[w]
    BY WritersAreJobs DEF JobTypeOK, Claim, Cancel
  <2> QED
    BY <2>1, <2>2, <2>3, IndexUnconcerned
<1> QED
  BY <1>1, <1>2, <1>3, <1>4, <1>5, <1>6, <1>7

\* A job ends as its handler left it.
LEMMA EndKeeps ==
  ASSUME PInv, faultsLeft' \in 0..MaxFaults, NEW j \in Jobs,
         MarkSucceeded(j) \/ MarkFailed(j)
  PROVE  PInv'
<1> USE DEF PInv
<1>1. IndexTypeOK'
  BY DEF IndexTypeOK, MarkSucceeded, MarkFailed, End, searchVars
<1>2. JobTypeOK'
  <2>1. /\ status' \in [Jobs -> {"none", "requested", "running", "succeeded", "failed",
                                 "cancelled"}]
        /\ doing' = [doing EXCEPT ![j] = "none"]
        /\ \A k \in Jobs : status'[k] # status[k] => k = j
    BY DEF JobTypeOK, MarkSucceeded, MarkFailed, End
  <2>2. collected' \in [Intervals -> SUBSET Documents]
    BY JobFacts DEF JobTypeOK, MarkSucceeded, MarkFailed, End
  <2>3. UNCHANGED <<dag, stored, keys>>
    BY DEF MarkSucceeded, MarkFailed, End
  <2> QED
    BY <2>1, <2>2, <2>3 DEF JobTypeOK
<1>3. AttemptsInOrder'
  BY JobFacts DEF JobTypeOK, AttemptsInOrder, Later, Past, MarkSucceeded, MarkFailed,
                  End
<1>4. CollectedOnce'
  BY JobFacts DEF JobTypeOK, CollectedOnce, MarkSucceeded, MarkFailed, End
<1>5. IndexRequested'
  <2>1. /\ doing' = [doing EXCEPT ![j] = "none"]
        /\ UNCHANGED <<dag, keys>>
        /\ \A k \in Jobs : status'[k] # status[k] => k = j /\ status'[k] # "none"
    BY DEF JobTypeOK, MarkSucceeded, MarkFailed, End
  <2>2. status'[j] = "succeeded" => doing[j] = "succeed"
    BY DEF JobTypeOK, MarkSucceeded, MarkFailed, End
  <2>3. \A c \in Intervals : keys'[c] # {} \/ dag'[c] = "succeeded" =>
          status'[FirstIndex(c)] # "none"
    BY <2>1, JobFacts DEF IndexRequested
  <2>4. ASSUME NEW k \in Jobs, k[1] = "collect",
               doing'[k] = "succeed" \/ status'[k] = "succeeded"
        PROVE  status'[FirstIndex(k[2])] # "none"
    <3>1. doing[k] = "succeed" \/ status[k] = "succeeded"
      BY <2>1, <2>2, <2>4 DEF JobTypeOK
    <3> QED
      BY <2>1, <2>4, <3>1, JobFacts DEF IndexRequested
  <2> QED
    BY <2>3, <2>4 DEF IndexRequested
<1>6. KeysPartition'
  BY DEF JobTypeOK, KeysPartition, MarkSucceeded, MarkFailed, End
<1>7. IndexedWhole'
  <2>1. /\ doing' = [doing EXCEPT ![j] = "none"]
        /\ UNCHANGED <<docs, write, batch, keys>>
    BY DEF MarkSucceeded, MarkFailed, End, searchVars
  <2>2. \A w \in Writers : doing'[w] \in {"index", "succeed"} => doing'[w] = doing[w]
    BY <2>1, WritersAreJobs DEF JobTypeOK
  <2>3. \A w \in Writers : status'[w] = "succeeded" =>
          status[w] = "succeeded" \/ doing[w] = "succeed"
    BY WritersAreJobs DEF JobTypeOK, MarkSucceeded, MarkFailed, End
  <2> QED
    BY <2>1, <2>2, <2>3, IndexUnconcerned
<1> QED
  BY <1>1, <1>2, <1>3, <1>4, <1>5, <1>6, <1>7

\* A dead worker leaves its job behind, running.
LEMMA CrashKeeps ==
  ASSUME PInv, faultsLeft' \in 0..MaxFaults, NEW j \in Jobs,
         WorkerCrash(j)
  PROVE  PInv'
<1> USE DEF PInv
<1>1. IndexTypeOK'
  BY DEF IndexTypeOK, WorkerCrash
<1>2. JobTypeOK'
  BY JobFacts DEF JobTypeOK, WorkerCrash
<1>3. AttemptsInOrder'
  BY JobFacts DEF JobTypeOK, AttemptsInOrder, Later, Past, WorkerCrash
<1>4. CollectedOnce'
  BY JobFacts DEF JobTypeOK, CollectedOnce, WorkerCrash
<1>5. IndexRequested'
  BY JobFacts DEF JobTypeOK, IndexRequested, WorkerCrash
<1>6. KeysPartition'
  BY DEF JobTypeOK, KeysPartition, WorkerCrash
<1>7. IndexedWhole'
  BY JobFacts DEF JobTypeOK, IndexTypeOK, IndexedWhole, WorkerCrash
<1> QED
  BY <1>1, <1>2, <1>3, <1>4, <1>5, <1>6, <1>7

\* An attempt requests the next one and fails.
LEMMA RetryKeeps ==
  ASSUME PInv, faultsLeft' \in 0..MaxFaults, NEW j \in Jobs,
         RequestRetry(j)
  PROVE  PInv'
<1> USE DEF PInv
<1>b. /\ status' \in [Jobs -> {"none", "requested", "running", "succeeded", "failed",
                                "cancelled"}]
      /\ \A k \in Jobs : status'[k] # status[k] =>
           /\ k[1] = j[1] /\ k[2] = j[2] /\ k[3] = j[3] + 1
           /\ status[k] = "none" /\ status'[k] = "requested"
  <2>1. CASE j[3] >= MaxAttempts - 1
    BY <2>1 DEF RequestRetry, JobTypeOK
  <2>2. CASE j[3] < MaxAttempts - 1
    <3>1. RetryOf(j) \in Jobs /\ Request(RetryOf(j))
      BY <2>2, RetryFacts, JobFacts, PipelineAssumption DEF RequestRetry
    <3> QED
      BY <2>2, <3>1, RetryFacts, RequestFacts
  <2> QED
    BY <2>1, <2>2, JobFacts, PipelineAssumption
<1>c. /\ doing[j] = "retry" /\ status[j] = "running"
      /\ doing' = [doing EXCEPT ![j] = "fail"]
      /\ UNCHANGED <<dag, collected, stored, keys>>
  BY DEF RequestRetry, JobTypeOK
<1>1. IndexTypeOK'
  BY DEF IndexTypeOK, RequestRetry, searchVars
<1>2. JobTypeOK'
  BY <1>b, <1>c DEF JobTypeOK
<1>3. AttemptsInOrder'
  <2>1. SUFFICES ASSUME NEW i \in Jobs, NEW k \in Jobs, Later(i, k), status'[k] # "none"
                 PROVE  Past(i)'
    BY DEF AttemptsInOrder, Later
  <2>2. CASE Past(i)
    BY <1>b, <1>c, <2>2 DEF Past, JobTypeOK
  <2>3. CASE ~Past(i)
    <3>1. status[k] = "none" /\ k[1] = j[1] /\ k[2] = j[2] /\ k[3] = j[3] + 1
      BY <1>b, <2>1, <2>3 DEF AttemptsInOrder
    <3>2. i[1] = j[1] /\ i[2] = j[2] /\ i[3] <= j[3]
      BY <2>1, <3>1, JobFacts, PipelineAssumption DEF Later
    <3>3. i = j
      BY <1>c, <2>3, <3>2, JobFacts, PipelineAssumption DEF AttemptsInOrder, Later
    <3> QED
      BY <1>b, <1>c, <3>3, JobFacts, PipelineAssumption DEF Past, JobTypeOK
  <2> QED
    BY <2>2, <2>3
<1>4. CollectedOnce'
  BY JobFacts, <1>b DEF JobTypeOK, CollectedOnce, RequestRetry
<1>5. IndexRequested'
  BY JobFacts, <1>b DEF JobTypeOK, IndexRequested, RequestRetry
<1>6. KeysPartition'
  BY DEF JobTypeOK, KeysPartition, RequestRetry
<1>7. IndexedWhole'
  BY JobFacts, <1>b DEF JobTypeOK, IndexTypeOK, IndexedWhole, RequestRetry, searchVars
<1> QED
  BY <1>1, <1>2, <1>3, <1>4, <1>5, <1>6, <1>7

\* What a collection holds in memory is not stored.
LEMMA CollectKeeps ==
  ASSUME PInv, faultsLeft' \in 0..MaxFaults, NEW j \in Jobs,
         (\E articles \in Feeds : Collect(j, articles)) \/ ProviderFails(j)
  PROVE  PInv'
<1> USE DEF PInv
<1>1. IndexTypeOK'
  BY DEF IndexTypeOK, Collect, ProviderFails, searchVars
<1>2. JobTypeOK'
  BY JobFacts, PipelineAssumption DEF JobTypeOK, Collect, ProviderFails
<1>3. AttemptsInOrder'
  BY JobFacts DEF JobTypeOK, AttemptsInOrder, Later, Past, Collect, ProviderFails
<1>4. CollectedOnce'
  BY JobFacts DEF JobTypeOK, CollectedOnce, Collect, ProviderFails
<1>5. IndexRequested'
  BY JobFacts DEF JobTypeOK, IndexRequested, Collect, ProviderFails
<1>6. KeysPartition'
  BY DEF JobTypeOK, KeysPartition, Collect, ProviderFails
<1>7. IndexedWhole'
  <2>1. UNCHANGED <<docs, write, batch, keys, status>>
    BY DEF Collect, ProviderFails, searchVars
  <2>2. \A w \in Writers : doing'[w] \in {"index", "succeed"} => doing'[w] = doing[w]
    BY WritersAreJobs DEF JobTypeOK, Collect, ProviderFails
  <2> QED
    BY <2>1, <2>2, IndexUnconcerned
<1> QED
  BY <1>1, <1>2, <1>3, <1>4, <1>5, <1>6, <1>7

\* The first and only time an interval stores articles it leaves the index job.
LEMMA StoreKeeps ==
  ASSUME PInv, faultsLeft' \in 0..MaxFaults, NEW j \in Jobs,
         NEW next \in {"succeed", "fail"}, StoreArticles(j, next)
  PROVE  PInv'
<1> USE DEF PInv
<1>b. /\ status' \in [Jobs -> {"none", "requested", "running", "succeeded", "failed",
                                "cancelled"}]
      /\ status'[FirstIndex(j[2])] # "none"
      /\ \A k \in Jobs : status'[k] # status[k] =>
           k = FirstIndex(j[2]) /\ status[k] = "none" /\ status'[k] = "requested"
  <2>1. Request(FirstIndex(j[2]))
    BY DEF StoreArticles, FirstIndex
  <2> QED
    BY <2>1, RequestFacts, JobFacts
<1>c. /\ j[1] = "collect" /\ j[2] \in Intervals
      /\ doing[j] = "store" /\ status[j] = "running"
  BY JobFacts DEF StoreArticles, JobTypeOK
<1>d. keys[j[2]] = {} /\ \A w \in Writers : w[2] = j[2] => status[w] = "none"
  <2>1. status[FirstIndex(j[2])] = "none"
    BY <1>c, JobFacts DEF CollectedOnce
  <2>2. keys[j[2]] = {}
    BY <1>c, <2>1 DEF IndexRequested
  <2>3. ASSUME NEW w \in Writers, w[2] = j[2], status[w] # "none"  PROVE FALSE
    <3>1. w \in Jobs /\ w[1] = "index" /\ w # FirstIndex(j[2])
      BY <2>1, <2>3, JobFacts
    <3>2. Later(FirstIndex(j[2]), w)
      BY <1>c, <2>3, <3>1, JobFacts, PipelineAssumption DEF Later
    <3> QED
      BY <1>c, <2>1, <2>3, <3>1, <3>2, JobFacts DEF AttemptsInOrder, Past
  <2> QED
    BY <2>2, <2>3
<1>1. IndexTypeOK'
  BY DEF IndexTypeOK, StoreArticles, InsertedKeys, searchVars
<1>2. JobTypeOK'
  <2>1. /\ doing' = [doing EXCEPT ![j] = next]
        /\ stored' = stored \cup collected[j[2]]
        /\ keys' = [keys EXCEPT ![j[2]] = collected[j[2]] \ stored]
        /\ UNCHANGED <<dag, collected>>
    BY DEF StoreArticles, InsertedKeys
  <2>2. \A k \in Jobs : status[k] = "running" => status'[k] = "running"
    BY <1>b
  <2> QED
    BY <1>b, <1>c, <2>1, <2>2 DEF JobTypeOK
<1>3. AttemptsInOrder'
  BY JobFacts, <1>b DEF JobTypeOK, AttemptsInOrder, Later, Past, StoreArticles,
                        InsertedKeys
<1>4. CollectedOnce'
  <2>1. status[First(j[2])] # "none"
    BY <1>c, JobFacts, PipelineAssumption DEF AttemptsInOrder, Later, Past
  <2>2. ASSUME NEW i \in Jobs, i[1] = "collect", i[2] = j[2], i # j
        PROVE  status[i] # "requested" /\ doing[i] \notin {"start", "store", "retry"}
    <3>1. i[3] < j[3] \/ j[3] < i[3]
      BY <1>c, <2>2, JobFacts, PipelineAssumption
    <3>2. Past(i) \/ status[i] = "none"
      BY <1>c, <2>2, <3>1 DEF AttemptsInOrder, Later, Past
    <3> QED
      BY <3>2 DEF Past, JobTypeOK
  <2> QED
    BY <1>b, <1>c, <2>1, <2>2, JobFacts DEF CollectedOnce, JobTypeOK, StoreArticles
<1>5. IndexRequested'
  BY JobFacts, <1>b DEF JobTypeOK, IndexRequested, StoreArticles, InsertedKeys
<1>6. KeysPartition'
  <2>1. /\ stored' = stored \cup collected[j[2]]
        /\ keys' = [keys EXCEPT ![j[2]] = collected[j[2]] \ stored]
    BY DEF StoreArticles, InsertedKeys
  <2> QED
    BY <1>c, <1>d, <2>1 DEF KeysPartition, JobTypeOK
<1>7. IndexedWhole'
  BY <1>b, <1>c, <1>d, JobFacts DEF IndexedWhole, JobTypeOK, StoreArticles, searchVars
<1> QED
  BY <1>1, <1>2, <1>3, <1>4, <1>5, <1>6, <1>7

\* A job that fails before it has written anything leaves all as it was, and so
\* does an index job without articles.
LEMMA NoKeysKeeps ==
  ASSUME PInv, faultsLeft' \in 0..MaxFaults, NEW j \in Jobs,
         NoSourceKeys(j) \/ HandlerRaises(j)
  PROVE  PInv'
<1> USE DEF PInv
<1>1. IndexTypeOK'
  BY DEF IndexTypeOK, NoSourceKeys, HandlerRaises, searchVars
<1>2. JobTypeOK'
  <2>1. /\ doing[j] # "none" /\ doing' = [doing EXCEPT ![j] = "fail"]
        /\ UNCHANGED <<dag, status, collected, stored, keys>>
    BY DEF NoSourceKeys, HandlerRaises
  <2> QED
    BY <2>1 DEF JobTypeOK
<1>3. AttemptsInOrder'
  BY JobFacts DEF JobTypeOK, AttemptsInOrder, Later, Past, NoSourceKeys, HandlerRaises
<1>4. CollectedOnce'
  BY JobFacts DEF JobTypeOK, CollectedOnce, NoSourceKeys, HandlerRaises
<1>5. IndexRequested'
  BY JobFacts DEF JobTypeOK, IndexRequested, NoSourceKeys, HandlerRaises
<1>6. KeysPartition'
  BY DEF JobTypeOK, KeysPartition, NoSourceKeys, HandlerRaises
<1>7. IndexedWhole'
  <2>1. UNCHANGED <<docs, write, batch, keys, status>>
    BY DEF NoSourceKeys, HandlerRaises, searchVars
  <2>2. \A w \in Writers : doing'[w] \in {"index", "succeed"} => doing'[w] = doing[w]
    BY WritersAreJobs DEF JobTypeOK, NoSourceKeys, HandlerRaises
  <2> QED
    BY <2>1, <2>2, IndexUnconcerned
<1> QED
  BY <1>1, <1>2, <1>3, <1>4, <1>5, <1>6, <1>7

\* An index job asks for what its interval collected.
LEMMA IndexNewsKeeps ==
  ASSUME PInv, faultsLeft' \in 0..MaxFaults, NEW j \in Writers,
         IndexNews(j)
  PROVE  PInv'
<1> USE DEF PInv
<1>1. IndexTypeOK'
  <2>1. FindBySourceKeys(keys[j[2]]) \in SUBSET Documents
    BY JobFacts DEF FindBySourceKeys, JobTypeOK
  <2> QED
    BY <2>1 DEF IndexTypeOK, IndexNews, NewsIndex, Index
<1>2. JobTypeOK'
  BY JobFacts DEF JobTypeOK, IndexNews, NewsIndex, Index, FindBySourceKeys,
                  KeysPartition
<1>3. AttemptsInOrder'
  BY JobFacts DEF JobTypeOK, AttemptsInOrder, Later, Past, IndexNews, NewsIndex,
                  Index, FindBySourceKeys, KeysPartition
<1>4. CollectedOnce'
  BY JobFacts DEF JobTypeOK, CollectedOnce, IndexNews, NewsIndex, Index,
                  FindBySourceKeys, KeysPartition
<1>5. IndexRequested'
  BY JobFacts DEF JobTypeOK, IndexRequested, IndexNews, NewsIndex, Index,
                  FindBySourceKeys, KeysPartition
<1>6. KeysPartition'
  BY DEF JobTypeOK, KeysPartition, IndexNews, NewsIndex, Index, FindBySourceKeys
<1>7. IndexedWhole'
  <2>1. FindBySourceKeys(keys[j[2]]) = keys[j[2]] /\ keys[j[2]] # {}
    BY JobFacts DEF FindBySourceKeys, KeysPartition, IndexNews
  <2>2. /\ write' = [write EXCEPT ![j] = "embed"]
        /\ batch' = [batch EXCEPT ![j] = keys[j[2]]]
    BY <2>1 DEF IndexNews, NewsIndex, Index
  <2>3. doing' = [doing EXCEPT ![j] = "index"] /\ UNCHANGED <<status, keys, docs>>
    BY DEF IndexNews
  <2> QED
    BY <2>2, <2>3, JobFacts DEF IndexedWhole, IndexTypeOK, JobTypeOK
<1> QED
  BY <1>1, <1>2, <1>3, <1>4, <1>5, <1>6, <1>7

\* An index job succeeds when all its articles are written.
LEMMA IndexEndsKeeps ==
  ASSUME PInv, faultsLeft' \in 0..MaxFaults, NEW j \in Writers,
         IndexReturns(j) \/ IndexRaises(j)
  PROVE  PInv'
<1> USE DEF PInv
<1>1. IndexTypeOK'
  BY DEF IndexTypeOK, IndexReturns, IndexRaises, Leave
<1>2. JobTypeOK'
  BY JobFacts DEF JobTypeOK, IndexReturns, IndexRaises, Leave
<1>3. AttemptsInOrder'
  BY JobFacts DEF JobTypeOK, AttemptsInOrder, Later, Past, IndexReturns, IndexRaises,
                  Leave
<1>4. CollectedOnce'
  BY JobFacts DEF JobTypeOK, CollectedOnce, IndexReturns, IndexRaises, Leave
<1>5. IndexRequested'
  BY JobFacts DEF JobTypeOK, IndexRequested, IndexReturns, IndexRaises, Leave
<1>6. KeysPartition'
  BY DEF JobTypeOK, KeysPartition, IndexReturns, IndexRaises, Leave
<1>7. IndexedWhole'
  <2>1. /\ write' = [write EXCEPT ![j] = "none"]
        /\ batch' = [batch EXCEPT ![j] = {}]
        /\ UNCHANGED <<status, keys, docs>>
        /\ doing[j] = "index"
    BY DEF IndexReturns, IndexRaises, Leave
  <2>2. PICK next \in {"succeed", "retry", "fail"} :
          /\ doing' = [doing EXCEPT ![j] = next]
          /\ next = "succeed" => write[j] = "done"
    BY DEF IndexReturns, IndexRaises, Leave
  <2>3. next = "succeed" => keys[j[2]] \subseteq docs
    BY <2>1, <2>2 DEF IndexedWhole
  <2>4. \A w \in Writers : write'[w] = "done" => batch'[w] \subseteq docs'
    BY <2>1 DEF IndexedWhole, IndexTypeOK
  <2>5. \A w \in Writers : doing'[w] = "index" => batch'[w] = keys'[w[2]]
    BY <2>1, <2>2, JobFacts DEF IndexedWhole, IndexTypeOK, JobTypeOK
  <2>6. \A w \in Writers :
          doing'[w] = "succeed" \/ status'[w] = "succeeded" => keys'[w[2]] \subseteq docs'
    BY <2>1, <2>2, <2>3, JobFacts DEF IndexedWhole, JobTypeOK
  <2> QED
    BY <2>4, <2>5, <2>6 DEF IndexedWhole
<1> QED
  BY <1>1, <1>2, <1>3, <1>4, <1>5, <1>6, <1>7

-----------------------------------------------------------------------------
(* The steps of the index and of searches *)

\* The index only grows, and a call that is done has put its documents into it.
LEMMA IndexStepKeeps ==
  ASSUME PInv, NEW w \in Writers,
         \/ IndexStep(w) \/ HttpFails(w) \/ MappingRejected(w)
         \/ \E rejected \in SUBSET batch[w] \ {{}} : BulkRejects(w, rejected)
  PROVE  /\ IndexTypeOK' /\ docs \subseteq docs' /\ batch' = batch
         /\ \A v \in Writers : write'[v] = "done" => batch[v] \subseteq docs'
<1> USE DEF PInv
<1>1. CASE \/ Embed(w) \/ IndexExists(w) \/ IndexMissing(w) \/ CreateIndex(w)
           \/ MappingRejected(w)
  BY <1>1 DEF IndexTypeOK, IndexedWhole, Embed, IndexExists, IndexMissing, CreateIndex,
              Created, MappingRejected, At
<1>2. CASE Bulk(w)
  BY <1>2 DEF IndexTypeOK, IndexedWhole, Bulk, Stored, At
<1>3. CASE HttpFails(w)
  BY <1>3 DEF IndexTypeOK, IndexedWhole, HttpFails, Created, Stored
<1>4. CASE \E rejected \in SUBSET batch[w] \ {{}} : BulkRejects(w, rejected)
  BY <1>4 DEF IndexTypeOK, IndexedWhole, BulkRejects, Stored, At
<1> QED
  BY <1>1, <1>2, <1>3, <1>4 DEF IndexStep

\* As long as the jobs do not move, the rest of the invariant is about an index
\* that grows.
LEMMA GrowingIndexKeeps ==
  ASSUME PInv, UNCHANGED jobVars, faultsLeft' \in 0..MaxFaults,
         IndexTypeOK', docs \subseteq docs', batch' = batch,
         \A v \in Writers : write'[v] = "done" => batch[v] \subseteq docs'
  PROVE  PInv'
<1> USE DEF PInv, jobVars
<1>1. JobTypeOK' /\ KeysPartition'
  BY DEF JobTypeOK, KeysPartition
<1>2. AttemptsInOrder' /\ CollectedOnce' /\ IndexRequested'
  BY DEF AttemptsInOrder, Later, Past, CollectedOnce, IndexRequested
<1>3. IndexedWhole'
  BY DEF IndexedWhole
<1> QED
  BY <1>1, <1>2, <1>3

-----------------------------------------------------------------------------
(* The invariant *)

\* It holds when nothing was ever triggered.
LEMMA InitInv == Init => PInv
<1> SUFFICES ASSUME Init  PROVE PInv
  OBVIOUS
<1> USE DEF Init, SearchInit
<1>1. IndexTypeOK
  BY DEF IndexTypeOK
<1>2. JobTypeOK
  BY PipelineAssumption DEF JobTypeOK
<1>3. AttemptsInOrder /\ CollectedOnce /\ IndexRequested
  BY JobFacts DEF AttemptsInOrder, CollectedOnce, IndexRequested
<1>4. KeysPartition
  BY DEF KeysPartition
<1>5. IndexedWhole
  BY JobFacts DEF IndexedWhole
<1> QED
  BY <1>1, <1>2, <1>3, <1>4, <1>5 DEF PInv

\* What the handler of a job does keeps it.
LEMMA JobStepKeeps ==
  ASSUME PInv, UNCHANGED faultsLeft, NEW j \in Jobs, JobStep(j)
  PROVE  PInv'
<1>1. faultsLeft' \in 0..MaxFaults
  BY DEF PInv, JobTypeOK
<1>2. CASE Claim(j)
  BY <1>1, <1>2, ClaimKeeps
<1>3. CASE MarkSucceeded(j) \/ MarkFailed(j)
  BY <1>1, <1>3, EndKeeps
<1>4. CASE RequestRetry(j)
  BY <1>1, <1>4, RetryKeeps
<1>5. CASE \E articles \in Feeds : Collect(j, articles)
  BY <1>1, <1>5, CollectKeeps
<1>6. CASE StoreArticles(j, "succeed")
  BY <1>1, <1>6, StoreKeeps
<1>7. CASE NoSourceKeys(j)
  BY <1>1, <1>7, NoKeysKeeps
<1>8. CASE j \in Writers /\ IndexNews(j)
  BY <1>1, <1>8, IndexNewsKeeps
<1>9. CASE j \in Writers /\ (IndexReturns(j) \/ IndexRaises(j))
  BY <1>1, <1>9, IndexEndsKeeps
<1> QED
  BY <1>2, <1>3, <1>4, <1>5, <1>6, <1>7, <1>8, <1>9 DEF JobStep

\* Lost answers, timeouts, cancellations, crashes and backend errors keep it.
LEMMA FailureKeeps ==
  ASSUME PInv, Failure
  PROVE  PInv'
<1>1. faultsLeft' \in 0..MaxFaults
  BY PipelineAssumption DEF PInv, JobTypeOK, Failure
<1>2. CASE \E c \in Intervals : TriggerLost(c)
  BY <1>1, <1>2, TriggerKeeps
<1>3. CASE \E c \in Intervals : WaitTimesOut(c)
  BY <1>1, <1>3, WaitKeeps
<1>4. CASE \E j \in Jobs : Cancel(j)
  BY <1>1, <1>4, ClaimKeeps
<1>5. CASE \E j \in Jobs : ProviderFails(j)
  BY <1>1, <1>5, CollectKeeps
<1>6. CASE \E j \in Jobs : WorkerCrash(j)
  BY <1>1, <1>6, CrashKeeps
<1>7. CASE /\ \E w \in Writers :
                \/ HttpFails(w) \/ MappingRejected(w)
                \/ \E rejected \in SUBSET batch[w] \ {{}} : BulkRejects(w, rejected)
           /\ UNCHANGED jobVars
  <2>1. PICK w \in Writers :
          \/ HttpFails(w) \/ MappingRejected(w)
          \/ \E rejected \in SUBSET batch[w] \ {{}} : BulkRejects(w, rejected)
    BY <1>7
  <2>2. /\ IndexTypeOK' /\ docs \subseteq docs' /\ batch' = batch
        /\ \A v \in Writers : write'[v] = "done" => batch[v] \subseteq docs'
    BY <2>1, IndexStepKeeps
  <2> QED
    BY <1>1, <1>7, <2>2, GrowingIndexKeeps
<1>8. CASE \E j \in Jobs : HandlerRaises(j)
  BY <1>1, <1>8, NoKeysKeeps
<1>9. CASE \E j \in Jobs : StoreArticles(j, "fail")
  BY <1>1, <1>9, StoreKeeps
<1> QED
  BY <1>2, <1>3, <1>4, <1>5, <1>6, <1>7, <1>8, <1>9 DEF Failure

\* Every step of the pipeline keeps it.
LEMMA PipelineStepKeeps ==
  ASSUME PInv, PipelineStep
  PROVE  PInv'
<1>1. CASE Failure
  BY <1>1, FailureKeeps
<1>2. ASSUME ~Failure  PROVE UNCHANGED faultsLeft /\ faultsLeft' \in 0..MaxFaults
  BY <1>2 DEF PipelineStep, PInv, JobTypeOK
<1>3. CASE ~Failure /\ \E c \in Intervals : Trigger(c)
  BY <1>2, <1>3, TriggerKeeps
<1>4. CASE ~Failure /\ \E c \in Intervals : Wait(c)
  BY <1>2, <1>4, WaitKeeps
<1>5. CASE ~Failure /\ \E j \in Jobs : JobStep(j)
  BY <1>2, <1>5, JobStepKeeps
<1>6. CASE ~Failure /\ (\E w \in Writers : IndexStep(w)) /\ UNCHANGED jobVars
  <2>1. PICK w \in Writers : IndexStep(w)
    BY <1>6
  <2>2. /\ IndexTypeOK' /\ docs \subseteq docs' /\ batch' = batch
        /\ \A v \in Writers : write'[v] = "done" => batch[v] \subseteq docs'
    BY <2>1, IndexStepKeeps
  <2> QED
    BY <1>2, <1>6, <2>2, GrowingIndexKeeps
<1> QED
  BY <1>1, <1>3, <1>4, <1>5, <1>6 DEF PipelineStep

\* A search changes nothing but the query.
LEMMA OperatorSearchKeeps ==
  ASSUME PInv, OperatorSearch
  PROVE  PInv'
<1>1. UNCHANGED jobVars /\ faultsLeft' \in 0..MaxFaults
  BY DEF OperatorSearch, PInv, JobTypeOK
<1>2. CASE UNCHANGED <<docs, mapping, write, batch>>
  <2>1. /\ IndexTypeOK' /\ docs \subseteq docs' /\ batch' = batch
        /\ \A v \in Writers : write'[v] = "done" => batch[v] \subseteq docs'
    BY <1>2 DEF PInv, IndexTypeOK, IndexedWhole
  <2> QED
    BY <1>1, <2>1, GrowingIndexKeeps
<1>3. CASE \E w \in Writers : Bulk(w)
  <2>1. PICK w \in Writers : IndexStep(w)
    BY <1>3 DEF IndexStep
  <2>2. /\ IndexTypeOK' /\ docs \subseteq docs' /\ batch' = batch
        /\ \A v \in Writers : write'[v] = "done" => batch[v] \subseteq docs'
    BY <2>1, IndexStepKeeps
  <2> QED
    BY <1>1, <2>2, GrowingIndexKeeps
<1>4. UNCHANGED <<docs, mapping, write, batch>> \/ \E w \in Writers : Bulk(w)
  BY DEF OperatorSearch, Search, SearchStep, KeywordHits, VectorHits, SearchUnavailable
<1> QED
  BY <1>2, <1>3, <1>4

\* So does every step.
LEMMA NextInv == PInv /\ [Next]_vars => PInv'
<1> SUFFICES ASSUME PInv, [Next]_vars  PROVE PInv'
  OBVIOUS
<1>1. CASE PipelineStep
  BY <1>1, PipelineStepKeeps
<1>2. CASE OperatorSearch
  BY <1>2, OperatorSearchKeeps
<1>3. CASE UNCHANGED vars
  <2>1. UNCHANGED jobVars /\ faultsLeft' \in 0..MaxFaults
    BY <1>3 DEF vars, PInv, JobTypeOK
  <2>2. /\ IndexTypeOK' /\ docs \subseteq docs' /\ batch' = batch
        /\ \A v \in Writers : write'[v] = "done" => batch[v] \subseteq docs'
    BY <1>3 DEF vars, searchVars, PInv, IndexTypeOK, IndexedWhole
  <2> QED
    BY <2>1, <2>2, GrowingIndexKeeps
<1> QED
  BY <1>1, <1>2, <1>3 DEF Next

\* Attempts are made in their order, the articles of an interval are stored and
\* requested to be indexed once, and what an index job ends with is written.
THEOREM Invariant == Spec => []PInv
  BY InitInv, NextInv, PTL DEF Spec

\* An index job ends in the index, open, or where an operator can see it.
LEMMA JobAccountedFor ==
  ASSUME PInv, NEW c \in Intervals, status[FirstIndex(c)] # "none"
  PROVE  keys[c] \subseteq docs \/ GivenUp(c) \/ \E j \in IndexJobs(c) : Open(j)
<1> SUFFICES ASSUME ~(keys[c] \subseteq docs), ~\E j \in IndexJobs(c) : Open(j)
             PROVE  GivenUp(c)
  OBVIOUS
<1>1. FirstIndex(c) \in IndexJobs(c)
  BY JobFacts DEF IndexJobs
<1>2. \A j \in IndexJobs(c) : status[j] \in {"none", "failed", "cancelled"}
  BY JobFacts DEF IndexJobs, Open, PInv, JobTypeOK, IndexedWhole
<1>3. CASE \E j \in IndexJobs(c) : status[j] = "cancelled"
  BY <1>3 DEF GivenUp
<1>4. CASE \A j \in IndexJobs(c) : status[j] \in {"none", "failed"}
  BY <1>1, <1>4 DEF GivenUp
<1> QED
  BY <1>2, <1>3, <1>4

\* No article is forgotten on its way from a collection to the index, whatever
\* fails, is cancelled or crashes: ArticlesReachIndex for any intervals, feeds
\* and attempts.
THEOREM ArticlesNotForgotten == Spec => []ArticlesReachIndex
<1>1. PInv => ArticlesReachIndex
  <2> SUFFICES ASSUME PInv  PROVE ArticlesReachIndex
    OBVIOUS
  <2>1. ASSUME NEW d \in stored
        PROVE  \E c \in Intervals :
                 /\ d \in keys[c]
                 /\ \A b \in Intervals \ {c} : d \notin keys[b]
                 /\ d \in docs \/ GivenUp(c) \/ \E j \in IndexJobs(c) : Open(j)
    <3>1. PICK c \in Intervals : d \in keys[c]
      BY DEF PInv, KeysPartition
    <3>2. \A b \in Intervals \ {c} : d \notin keys[b]
      BY <3>1 DEF PInv, KeysPartition
    <3>3. status[FirstIndex(c)] # "none"
      BY <3>1 DEF PInv, IndexRequested
    <3>4. keys[c] \subseteq docs \/ GivenUp(c) \/ \E j \in IndexJobs(c) : Open(j)
      BY <3>3, JobAccountedFor
    <3> QED
      BY <3>1, <3>2, <3>4
  <2>2. \A c \in Intervals, j \in Jobs :
          j \in IndexJobs(c) /\ status[j] = "succeeded" => keys[c] \subseteq docs
    BY JobFacts DEF IndexJobs, PInv, IndexedWhole
  <2>3. \A c \in Intervals : dag[c] = "succeeded" => status[<<"index", c, 0>>] # "none"
    BY DEF PInv, IndexRequested, FirstIndex
  <2> QED
    BY <2>1, <2>2, <2>3 DEF ArticlesReachIndex
<1> QED
  BY <1>1, Invariant, PTL

-----------------------------------------------------------------------------
(* Fractions *)

Fractions == Nat \X (Nat \ {0})

\* Multiplying by a positive number keeps an order, and can be undone.
LEMMA TimesKeepsOrder ==
  ASSUME NEW a \in Nat, NEW b \in Nat, NEW c \in Nat \ {0}
  PROVE  /\ a > b <=> a * c > b * c
         /\ a >= b <=> a * c >= b * c
OBVIOUS

\* The order of fractions is transitive, with or without ties.
LEMMA ExceedsTransitive ==
  ASSUME NEW x \in Fractions, NEW y \in Fractions, NEW z \in Fractions,
         ~Exceeds(y, x), ~Exceeds(z, y)
  PROVE  /\ ~Exceeds(z, x)
         /\ Exceeds(x, y) \/ Exceeds(y, z) => Exceeds(x, z)
<1> DEFINE a == x[1]  b == x[2]  c == y[1]  d == y[2]  e == z[1]  f == z[2]
<1>1. /\ a \in Nat /\ c \in Nat /\ e \in Nat
      /\ b \in Nat \ {0} /\ d \in Nat \ {0} /\ f \in Nat \ {0}
  BY DEF Fractions
<1>2. a * d >= c * b /\ c * f >= e * d
  BY <1>1 DEF Exceeds
<1> HIDE DEF a, b, c, d, e, f
<1>3. (a * d) * f >= (c * b) * f /\ (c * f) * b >= (e * d) * b
  BY <1>1, <1>2, TimesKeepsOrder
<1>4. (a * d) * f = (a * f) * d /\ (c * b) * f = (c * f) * b /\ (e * d) * b = (e * b) * d
  BY <1>1
<1>5. (a * f) * d >= (e * b) * d
  BY <1>1, <1>3, <1>4
<1>6. a * f >= e * b
  BY <1>1, <1>5, TimesKeepsOrder
<1>7. ASSUME a * d > c * b \/ c * f > e * d  PROVE a * f > e * b
  <2>1. (a * d) * f > (c * b) * f \/ (c * f) * b > (e * d) * b
    BY <1>1, <1>7, TimesKeepsOrder
  <2>2. (a * f) * d > (e * b) * d
    BY <1>1, <1>3, <1>4, <2>1
  <2> QED
    BY <1>1, <2>2, TimesKeepsOrder
<1> QED
  BY <1>1, <1>6, <1>7 DEF Exceeds, a, b, c, d, e, f

\* A sum does not get smaller with its parts, and larger with one of them.
LEMMA PlusMonotone ==
  ASSUME NEW x \in Fractions, NEW y \in Fractions, NEW u \in Fractions, NEW v \in Fractions,
         ~Exceeds(u, x), ~Exceeds(v, y)
  PROVE  /\ ~Exceeds(Plus(u, v), Plus(x, y))
         /\ Exceeds(x, u) \/ Exceeds(y, v) => Exceeds(Plus(x, y), Plus(u, v))
<1> DEFINE a == x[1]  b == x[2]  c == y[1]  d == y[2]
           p == u[1]  q == u[2]  r == v[1]  s == v[2]
<1>1. /\ a \in Nat /\ c \in Nat /\ p \in Nat /\ r \in Nat
      /\ b \in Nat \ {0} /\ d \in Nat \ {0} /\ q \in Nat \ {0} /\ s \in Nat \ {0}
  BY DEF Fractions
<1>2. a * q >= p * b /\ c * s >= r * d
  BY <1>1 DEF Exceeds
<1>a. Exceeds(Plus(x, y), Plus(u, v)) <=>
        (a * d + c * b) * (q * s) > (p * s + r * q) * (b * d)
  BY DEF Exceeds, Plus
<1>b. Exceeds(Plus(u, v), Plus(x, y)) <=>
        (p * s + r * q) * (b * d) > (a * d + c * b) * (q * s)
  BY DEF Exceeds, Plus
<1>c. (Exceeds(x, u) <=> a * q > p * b) /\ (Exceeds(y, v) <=> c * s > r * d)
  BY DEF Exceeds
<1> HIDE DEF a, b, c, d, p, q, r, s
<1>3. d * s \in Nat \ {0} /\ b * q \in Nat \ {0}
  BY <1>1
<1>4. /\ (a * q) * (d * s) >= (p * b) * (d * s)
      /\ (c * s) * (b * q) >= (r * d) * (b * q)
  <2>1. a * q \in Nat /\ p * b \in Nat /\ c * s \in Nat /\ r * d \in Nat
    BY <1>1
  <2> QED
    BY <1>2, <1>3, <2>1, TimesKeepsOrder
<1>5. (a * d + c * b) * (q * s) = (a * q) * (d * s) + (c * s) * (b * q)
  BY <1>1
<1>6. (p * s + r * q) * (b * d) = (p * b) * (d * s) + (r * d) * (b * q)
  BY <1>1
<1>7. (a * q > p * b => (a * q) * (d * s) > (p * b) * (d * s))
      /\ (c * s > r * d => (c * s) * (b * q) > (r * d) * (b * q))
  <2>1. a * q \in Nat /\ p * b \in Nat /\ c * s \in Nat /\ r * d \in Nat
    BY <1>1
  <2> QED
    BY <1>3, <2>1, TimesKeepsOrder
<1>8. /\ (a * q) * (d * s) \in Nat /\ (p * b) * (d * s) \in Nat
      /\ (c * s) * (b * q) \in Nat /\ (r * d) * (b * q) \in Nat
  BY <1>1
<1> QED
  BY <1>4, <1>5, <1>6, <1>7, <1>8, <1>a, <1>b, <1>c

\* A sum of fractions is a fraction.
LEMMA PlusType ==
  ASSUME NEW x \in Fractions, NEW y \in Fractions
  PROVE  Plus(x, y) \in Fractions
BY DEF Plus, Fractions

-----------------------------------------------------------------------------
(* Rankings *)

\* A ranking of some of the documents of S is a sequence without repetitions.
LEMMA RankingShape ==
  ASSUME NEW S, IsFiniteSet(S), NEW r \in SetToAllKPermutations(S)
  PROVE  \E k \in 0..Cardinality(S) :
           r \in [1..k -> S] /\ \A i, j \in 1..k : r[i] = r[j] => i = j
<1>1. PICK T \in SUBSET S : r \in SetToSeqs(T)
  BY DEF SetToAllKPermutations
<1>2. Cardinality(T) \in 0..Cardinality(S)
  BY FS_Subset, FS_CardinalityType
<1> QED
  BY <1>1, <1>2 DEF SetToSeqs

\* Every such sequence is a ranking.
LEMMA RankingIntro ==
  ASSUME NEW S, NEW k \in Nat, NEW r \in [1..k -> S],
         \A i, j \in 1..k : r[i] = r[j] => i = j
  PROVE  /\ r \in SetToAllKPermutations(S)
         /\ IsFiniteSet(Range(r)) /\ Cardinality(Range(r)) = k
<1>1. Range(r) \in SUBSET S
  BY DEF Range
<1>2. r \in Bijection(1..k, Range(r))
  BY DEF Bijection, Injection, Surjection, IsInjective, Range
<1>3. IsFiniteSet(1..k) /\ Cardinality(1..k) = k
  BY FS_Interval
<1>4. IsFiniteSet(Range(r)) /\ Cardinality(Range(r)) = k
  BY <1>2, <1>3, FS_Bijection DEF ExistsBijection
<1>5. r \in SetToSeqs(Range(r))
  BY <1>2, <1>4 DEF SetToSeqs, Bijection, Injection
<1> QED
  BY <1>1, <1>4, <1>5 DEF SetToAllKPermutations

\* Rankings of the index are rankings of all documents, and Unanswered is none.
LEMMA RankingFacts ==
  /\ IsFiniteSet(Documents) /\ Cardinality(Documents) \in Nat
  /\ \A S \in SUBSET Documents : SetToAllKPermutations(S) \subseteq Rankings
  /\ Unanswered \notin Rankings
<1>1. IsFiniteSet(Documents) /\ Cardinality(Documents) \in Nat
  BY SearchAssumption, FS_CardinalityType
<1>2. \A S \in SUBSET Documents : SetToAllKPermutations(S) \subseteq Rankings
  BY DEF SetToAllKPermutations, Rankings
<1>3. ASSUME Unanswered \in Rankings  PROVE FALSE
  <2>1. PICK k \in 0..Cardinality(Documents) : Unanswered \in [1..k -> Documents]
    BY <1>1, <1>3, RankingShape DEF Rankings
  <2>2. k = 1
    BY <1>1, <2>1 DEF Unanswered
  <2>3. Unanswered[1] \in Documents
    BY <2>1, <2>2
  <2> QED
    BY <2>3, SearchAssumption DEF Unanswered
<1> QED
  BY <1>1, <1>2, <1>3

\* The rank of a document is the position it has.
LEMMA RankFacts ==
  ASSUME NEW r \in Rankings, NEW d \in Range(r)
  PROVE  /\ d \in Documents
         /\ RankIn(d, r) \in 1..Cardinality(Documents)
         /\ RankIn(d, r) \in DOMAIN r /\ r[RankIn(d, r)] = d
<1>1. PICK k \in 0..Cardinality(Documents) : r \in [1..k -> Documents]
  BY RankingFacts, RankingShape DEF Rankings
<1>2. \E i \in DOMAIN r : r[i] = d
  BY DEF Range
<1>3. RankIn(d, r) \in DOMAIN r /\ r[RankIn(d, r)] = d
  BY <1>2 DEF RankIn
<1> QED
  BY <1>1, <1>3, RankingFacts

\* What was found is finite.
LEMMA FoundFacts ==
  ASSUME NEW keyword \in Rankings, NEW vector \in Rankings
  PROVE  /\ Found(keyword, vector) \subseteq Documents
         /\ IsFiniteSet(Found(keyword, vector))
         /\ Cardinality(Found(keyword, vector)) \in 0..Cardinality(Documents)
<1>1. Found(keyword, vector) \subseteq Documents
  BY RankFacts DEF Found
<1> QED
  BY <1>1, RankingFacts, FS_Subset, FS_CardinalityType

-----------------------------------------------------------------------------
(* Rank fusion *)

\* Scores are fractions, of one ranking
LEMMA RankScoreType ==
  ASSUME NEW r \in Rankings, NEW d
  PROVE  RankScore(d, r) \in Fractions
<1>1. CASE d \in Range(r)
  <2>1. RankIn(d, r) \in Nat \ {0}
    BY <1>1, RankFacts, RankingFacts
  <2> QED
    BY <1>1, <2>1, SearchAssumption DEF RankScore, Fractions
<1>2. CASE d \notin Range(r)
  BY <1>2 DEF RankScore, Fractions
<1> QED
  BY <1>1, <1>2

\* and of both.
LEMMA ScoreType ==
  ASSUME NEW keyword \in Rankings, NEW vector \in Rankings, NEW d
  PROVE  Score(d, keyword, vector) \in Fractions
BY RankScoreType, PlusType DEF Score

\* A better place in a ranking has a higher score there, and no place the lowest.
LEMMA RankScoreMonotone ==
  ASSUME NEW r \in Rankings, NEW a, NEW b, Place(a, r) <= Place(b, r)
  PROVE  /\ ~Exceeds(RankScore(b, r), RankScore(a, r))
         /\ Place(a, r) < Place(b, r) => Exceeds(RankScore(a, r), RankScore(b, r))
<1>1. \A d \in Range(r) : RankIn(d, r) \in 1..Cardinality(Documents)
  BY RankFacts
<1>2. RankConstant \in Nat /\ Cardinality(Documents) \in Nat
  BY SearchAssumption, RankingFacts
<1>3. CASE a \in Range(r) /\ b \in Range(r)
  BY <1>1, <1>2, <1>3 DEF RankScore, Place, Exceeds
<1>4. CASE a \in Range(r) /\ b \notin Range(r)
  BY <1>1, <1>2, <1>4 DEF RankScore, Place, Exceeds
<1>5. CASE a \notin Range(r)
  BY <1>1, <1>2, <1>5 DEF RankScore, Place, Exceeds
<1> QED
  BY <1>3, <1>4, <1>5

\* Whoever one ranking prefers, while the other does not object, sorts before.
LEMMA AheadSortsBefore ==
  ASSUME NEW keyword \in Rankings, NEW vector \in Rankings, NEW a, NEW b,
         AheadOf(a, b, keyword, vector)
  PROVE  SortsBefore(a, b, keyword, vector)
<1>1. /\ RankScore(a, keyword) \in Fractions /\ RankScore(b, keyword) \in Fractions
      /\ RankScore(a, vector) \in Fractions /\ RankScore(b, vector) \in Fractions
  BY RankScoreType
<1>2. /\ ~Exceeds(RankScore(b, keyword), RankScore(a, keyword))
      /\ ~Exceeds(RankScore(b, vector), RankScore(a, vector))
      /\ \/ Exceeds(RankScore(a, keyword), RankScore(b, keyword))
         \/ Exceeds(RankScore(a, vector), RankScore(b, vector))
  BY RankScoreMonotone DEF AheadOf
<1>3. Exceeds(Score(a, keyword, vector), Score(b, keyword, vector))
  BY <1>1, <1>2, PlusMonotone DEF Score
<1> QED
  BY <1>3 DEF SortsBefore

\* Scores and ids order the documents linearly: sorted() has one result.
LEMMA SortsBeforeLinear ==
  ASSUME NEW keyword \in Rankings, NEW vector \in Rankings,
         NEW a \in Documents, NEW b \in Documents, NEW c \in Documents
  PROVE  /\ ~SortsBefore(a, a, keyword, vector)
         /\ a # b =>
              SortsBefore(a, b, keyword, vector) \/ SortsBefore(b, a, keyword, vector)
         /\ SortsBefore(a, b, keyword, vector) /\ SortsBefore(b, c, keyword, vector) =>
              SortsBefore(a, c, keyword, vector)
<1> DEFINE x == Score(a, keyword, vector)
           y == Score(b, keyword, vector)
           z == Score(c, keyword, vector)
<1>1. x \in Fractions /\ y \in Fractions /\ z \in Fractions
  BY ScoreType
<1>2. a \in Nat /\ b \in Nat /\ c \in Nat
  BY SearchAssumption
<1>3. /\ SortsBefore(a, a, keyword, vector) <=> Exceeds(x, x) \/ (~Exceeds(x, x) /\ a < a)
      /\ SortsBefore(a, b, keyword, vector) <=> Exceeds(x, y) \/ (~Exceeds(y, x) /\ a < b)
      /\ SortsBefore(b, a, keyword, vector) <=> Exceeds(y, x) \/ (~Exceeds(x, y) /\ b < a)
      /\ SortsBefore(b, c, keyword, vector) <=> Exceeds(y, z) \/ (~Exceeds(z, y) /\ b < c)
      /\ SortsBefore(a, c, keyword, vector) <=> Exceeds(x, z) \/ (~Exceeds(z, x) /\ a < c)
  BY DEF SortsBefore
<1> HIDE DEF x, y, z
<1>4. \A s, t \in Fractions : ~(Exceeds(s, t) /\ Exceeds(t, s))
  BY DEF Exceeds, Fractions
<1>5. ~SortsBefore(a, a, keyword, vector)
  BY <1>1, <1>2, <1>3, <1>4
<1>6. a # b => SortsBefore(a, b, keyword, vector) \/ SortsBefore(b, a, keyword, vector)
  BY <1>1, <1>2, <1>3, <1>4
<1>7. ASSUME SortsBefore(a, b, keyword, vector), SortsBefore(b, c, keyword, vector)
      PROVE  SortsBefore(a, c, keyword, vector)
  <2>1. ~Exceeds(y, x) /\ ~Exceeds(z, y)
    BY <1>1, <1>3, <1>4, <1>7
  <2>2. ~Exceeds(z, x) /\ (Exceeds(x, y) \/ Exceeds(y, z) => Exceeds(x, z))
    BY <1>1, <2>1, ExceedsTransitive
  <2> QED
    BY <1>2, <1>3, <1>7, <2>2
<1> QED
  BY <1>5, <1>6, <1>7

\* Each number below the count of the found documents is how many are ahead of one
\* of them, and fewer are ahead of the one that sorts before.
LEMMA AheadCounts ==
  ASSUME NEW keyword \in Rankings, NEW vector \in Rankings
  PROVE  LET found == Found(keyword, vector)
             n == Cardinality(found)
         IN /\ \A d \in found : Ahead(d, keyword, vector) \in 0..(n - 1)
            /\ \A a, b \in found : SortsBefore(a, b, keyword, vector) =>
                 Ahead(a, keyword, vector) < Ahead(b, keyword, vector)
            /\ \A a, b \in found :
                 Ahead(a, keyword, vector) = Ahead(b, keyword, vector) => a = b
            /\ \A i \in 0..(n - 1) : \E d \in found : Ahead(d, keyword, vector) = i
<1> DEFINE found == Found(keyword, vector)
           n == Cardinality(found)
           before(d) == {e \in found : SortsBefore(e, d, keyword, vector)}
           ahead == [d \in found |-> Cardinality(before(d))]
<1>1. found \subseteq Documents /\ IsFiniteSet(found) /\ n \in Nat
  BY FoundFacts, RankingFacts
<1>2. \A d \in found : IsFiniteSet(before(d)) /\ Cardinality(before(d)) \in Nat
  <2> SUFFICES ASSUME NEW d \in found
               PROVE  IsFiniteSet(before(d)) /\ Cardinality(before(d)) \in Nat
    OBVIOUS
  <2>1. before(d) \in SUBSET found
    OBVIOUS
  <2> QED
    BY <1>1, <2>1, FS_Subset, FS_CardinalityType
<1>3. ASSUME NEW d \in found  PROVE ahead[d] \in 0..(n - 1)
  <2>1. before(d) \in SUBSET found /\ d \notin before(d)
    BY <1>1, SortsBeforeLinear
  <2>2. Cardinality(before(d)) <= n /\ Cardinality(before(d)) # n
    <3>1. Cardinality(before(d)) <= n /\ (n = Cardinality(before(d)) => found = before(d))
      BY <1>1, <2>1, FS_Subset
    <3> QED
      BY <2>1, <3>1
  <2> QED
    BY <1>1, <1>2, <2>2
<1>4. ASSUME NEW a \in found, NEW b \in found, SortsBefore(a, b, keyword, vector)
      PROVE  ahead[a] < ahead[b]
  <2>1. before(a) \in SUBSET before(b)
    BY <1>1, <1>4, SortsBeforeLinear
  <2>2. a \in before(b) /\ a \notin before(a)
    BY <1>1, <1>4, SortsBeforeLinear
  <2>3. /\ Cardinality(before(a)) <= Cardinality(before(b))
        /\ Cardinality(before(b)) = Cardinality(before(a)) => before(b) = before(a)
    BY <1>2, <2>1, FS_Subset
  <2>4. Cardinality(before(a)) # Cardinality(before(b))
    BY <2>2, <2>3
  <2>5. Cardinality(before(a)) \in Nat /\ Cardinality(before(b)) \in Nat
    BY <1>2
  <2> HIDE DEF before
  <2> QED
    BY <2>3, <2>4, <2>5
<1>5. \A d \in found : Ahead(d, keyword, vector) = ahead[d]
  BY DEF Ahead
<1> HIDE DEF ahead
<1>6. ahead \in [found -> 0..(n - 1)]
  BY <1>3 DEF ahead
<1>7. \A a, b \in found : ahead[a] = ahead[b] => a = b
  <2> SUFFICES ASSUME NEW a \in found, NEW b \in found, a # b  PROVE ahead[a] # ahead[b]
    OBVIOUS
  <2>1. SortsBefore(a, b, keyword, vector) \/ SortsBefore(b, a, keyword, vector)
    BY <1>1, SortsBeforeLinear
  <2>2. ahead[a] < ahead[b] \/ ahead[b] < ahead[a]
    BY <1>4, <2>1
  <2> QED
    BY <1>1, <1>6, <2>2
<1>8. \A i \in 0..(n - 1) : \E d \in found : ahead[d] = i
  <2>1. ahead \in Injection(found, 0..(n - 1))
    BY <1>6, <1>7 DEF Injection, IsInjective
  <2>2. IsFiniteSet(0..(n - 1)) /\ Cardinality(0..(n - 1)) = n
    BY <1>1, FS_Interval
  <2>3. ahead \in Surjection(found, 0..(n - 1))
    BY <2>1, <2>2, FS_Injection
  <2> QED
    BY <2>3 DEF Surjection
<1> QED
  BY <1>3, <1>4, <1>5, <1>7, <1>8

\* Position i of the result is the found document that has i - 1 others ahead.
LEMMA FusedFacts ==
  ASSUME NEW keyword \in Rankings, NEW vector \in Rankings, NEW limit \in Nat \ {0}
  PROVE  LET found == Found(keyword, vector)
             result == Fused(keyword, vector, limit)
         IN \E k \in Nat :
              /\ result \in [1..k -> found]
              /\ k <= Cardinality(found) /\ k <= limit
              /\ k = limit \/ k = Cardinality(found)
              /\ \A i \in 1..k : Ahead(result[i], keyword, vector) = i - 1
<1> DEFINE found == Found(keyword, vector)
           n == Cardinality(found)
           k == IF n < limit THEN n ELSE limit
           result == Fused(keyword, vector, limit)
<1>1. n \in Nat
  BY FoundFacts, RankingFacts
<1>2. k \in Nat /\ k <= n /\ k <= limit /\ (k = limit \/ k = n)
  BY <1>1
<1>3. result = [i \in 1..k |-> CHOOSE d \in found : Ahead(d, keyword, vector) = i - 1]
  BY DEF Fused
<1>4. ASSUME NEW i \in 1..k
      PROVE  result[i] \in found /\ Ahead(result[i], keyword, vector) = i - 1
  <2>1. i - 1 \in 0..(n - 1)
    BY <1>1, <1>2
  <2>2. \E d \in found : Ahead(d, keyword, vector) = i - 1
    BY <2>1, AheadCounts
  <2>3. result[i] = CHOOSE d \in found : Ahead(d, keyword, vector) = i - 1
    BY <1>3
  <2> QED
    BY <2>2, <2>3
<1> HIDE DEF k
<1>5. result \in [1..k -> found]
  BY <1>3, <1>4
<1> QED
  BY <1>2, <1>4, <1>5

\* What fusion returns respects both rankings, for any rankings and any limit.
LEMMA FusionRight ==
  ASSUME NEW keyword \in Rankings, NEW vector \in Rankings, NEW limit \in Nat \ {0}
  PROVE  LET found == Found(keyword, vector)
             result == Fused(keyword, vector, limit)
         IN /\ result \in Rankings
            /\ Range(result) \subseteq found
            /\ Cardinality(Range(result)) = Len(result)
            /\ Len(result) <= limit
            /\ Len(result) = limit \/ Range(result) = found
            /\ \A a, b \in found :
                 AheadOf(a, b, keyword, vector) /\ b \in Range(result) =>
                   a \in Range(result) /\ RankIn(a, result) < RankIn(b, result)
<1> DEFINE found == Found(keyword, vector)
           result == Fused(keyword, vector, limit)
           n == Cardinality(found)
           ahead(d) == Ahead(d, keyword, vector)
<1>1. PICK k \in Nat :
        /\ result \in [1..k -> found]
        /\ k <= n /\ k <= limit /\ (k = limit \/ k = n)
        /\ \A i \in 1..k : ahead(result[i]) = i - 1
  BY FusedFacts
<1>2. found \subseteq Documents /\ n \in Nat
  BY FoundFacts, RankingFacts
<1>3. /\ \A d \in found : ahead(d) \in 0..(n - 1)
      /\ \A a, b \in found : SortsBefore(a, b, keyword, vector) => ahead(a) < ahead(b)
      /\ \A a, b \in found : ahead(a) = ahead(b) => a = b
  BY AheadCounts
<1> HIDE DEF found, result, n, ahead
<1>4. \A i, j \in 1..k : result[i] = result[j] => i = j
  <2> SUFFICES ASSUME NEW i \in 1..k, NEW j \in 1..k, result[i] = result[j]  PROVE i = j
    OBVIOUS
  <2>1. i - 1 = j - 1
    BY <1>1
  <2> QED
    BY <1>1, <2>1
<1>5. result \in [1..k -> Documents]
  BY <1>1, <1>2
<1>6. result \in Rankings /\ Cardinality(Range(result)) = k
  BY <1>4, <1>5, RankingIntro DEF Rankings
<1>7. Len(result) = k
  BY <1>1
<1>8. Range(result) \subseteq found
  BY <1>1 DEF Range
<1>9. ASSUME NEW d \in found, ahead(d) < k
      PROVE  d \in Range(result) /\ RankIn(d, result) = ahead(d) + 1
  <2>1. ahead(d) + 1 \in 1..k
    BY <1>1, <1>2, <1>3, <1>9
  <2>2. ahead(result[ahead(d) + 1]) = ahead(d)
    BY <1>1, <1>2, <1>3, <2>1
  <2>3. result[ahead(d) + 1] = d
    BY <1>1, <1>3, <2>1, <2>2
  <2>4. d \in Range(result)
    BY <1>1, <2>1, <2>3 DEF Range
  <2>5. RankIn(d, result) \in 1..k /\ result[RankIn(d, result)] = d
    BY <1>1, <1>6, <2>4, RankFacts
  <2> QED
    BY <1>4, <2>1, <2>3, <2>4, <2>5
<1>10. \A d \in Range(result) : ahead(d) < k
  <2> SUFFICES ASSUME NEW d \in Range(result)  PROVE ahead(d) < k
    OBVIOUS
  <2>1. PICK i \in 1..k : d = result[i]
    BY <1>1 DEF Range
  <2> QED
    BY <1>1, <2>1
<1>11. Len(result) = limit \/ Range(result) = found
  <2>1. CASE k = n
    <3>1. \A d \in found : ahead(d) < k
      BY <1>2, <1>3, <2>1
    <3> QED
      BY <1>8, <1>9, <3>1
  <2> QED
    BY <1>1, <1>7, <2>1
<1>12. ASSUME NEW a \in found, NEW b \in found, AheadOf(a, b, keyword, vector),
              b \in Range(result)
       PROVE  a \in Range(result) /\ RankIn(a, result) < RankIn(b, result)
  <2>1. ahead(a) < ahead(b) /\ ahead(b) < k
    BY <1>3, <1>10, <1>12, AheadSortsBefore
  <2>2. ahead(a) < k
    BY <1>1, <1>2, <1>3, <2>1
  <2> QED
    BY <1>2, <1>3, <1>9, <2>1, <2>2
<1> QED
  BY <1>1, <1>6, <1>7, <1>8, <1>11, <1>12 DEF found, result

-----------------------------------------------------------------------------
(* Searches *)

\* A search that was sent has a limit; one that was answered has both rankings, and
\* its result is what fusion makes of them.
QInv ==
  /\ QueryTypeOK
  /\ query.at \in {"sent", "answered"} => query.limit \in Limits
  /\ query.at = "answered" =>
       /\ query.keyword \in Rankings /\ query.vector \in Rankings
       /\ query.result = Fused(query.keyword, query.vector, query.limit)

\* The pipeline does not touch the search.
LEMMA PipelineLeavesQuery ==
  ASSUME PipelineStep
  PROVE  UNCHANGED query
<1>1. ASSUME NEW w, IndexStep(w) \/ HttpFails(w) \/ MappingRejected(w)
      PROVE  UNCHANGED query
  BY <1>1 DEF IndexStep, Embed, IndexExists, IndexMissing, CreateIndex, Bulk, HttpFails,
              MappingRejected
<1>2. ASSUME NEW w, NEW rejected, BulkRejects(w, rejected)  PROVE UNCHANGED query
  BY <1>2 DEF BulkRejects
<1>3. ASSUME NEW c, Trigger(c) \/ TriggerLost(c) \/ Wait(c) \/ WaitTimesOut(c)
      PROVE  UNCHANGED query
  BY <1>3 DEF Trigger, TriggerLost, Wait, WaitTimesOut, searchVars
<1>4. ASSUME NEW j, \/ Cancel(j) \/ ProviderFails(j) \/ WorkerCrash(j)
                    \/ HandlerRaises(j) \/ StoreArticles(j, "fail")
      PROVE  UNCHANGED query
  BY <1>4 DEF Cancel, ProviderFails, WorkerCrash, HandlerRaises, StoreArticles, searchVars
<1>5. ASSUME NEW j, JobStep(j)  PROVE UNCHANGED query
  <2>1. CASE Claim(j) \/ RequestRetry(j) \/ StoreArticles(j, "succeed") \/ NoSourceKeys(j)
    BY <2>1 DEF Claim, RequestRetry, StoreArticles, NoSourceKeys, searchVars
  <2>2. CASE MarkSucceeded(j) \/ MarkFailed(j)
    BY <2>2 DEF MarkSucceeded, MarkFailed, End, searchVars
  <2>3. CASE \E articles \in Feeds : Collect(j, articles)
    BY <2>3 DEF Collect, searchVars
  <2>4. CASE IndexNews(j) \/ IndexReturns(j) \/ IndexRaises(j)
    BY <2>4 DEF IndexNews, IndexReturns, IndexRaises, Leave
  <2> QED
    BY <1>5, <2>1, <2>2, <2>3, <2>4 DEF JobStep
<1> QED
  BY <1>1, <1>2, <1>3, <1>4, <1>5 DEF PipelineStep, Failure

\* With the second answer the result is fused, whichever came first.
LEMMA AnsweredKeeps ==
  ASSUME QInv, query.at = "sent",
         NEW keyword \in Rankings \cup {Unanswered},
         NEW vector \in Rankings \cup {Unanswered},
         Answered(keyword, vector)
  PROVE  QInv'
<1>1. query.limit \in Limits /\ query.limit \in Nat \ {0}
  BY SearchAssumption DEF QInv
<1>2. CASE Unanswered \in {keyword, vector}
  <2>1. query' = [query EXCEPT !.keyword = keyword, !.vector = vector]
    BY <1>2 DEF Answered
  <2> QED
    BY <1>1, <2>1 DEF QInv, QueryTypeOK
<1>3. CASE Unanswered \notin {keyword, vector}
  <2>1. keyword \in Rankings /\ vector \in Rankings
    BY <1>3
  <2>2. query' = [query EXCEPT !.at = "answered", !.keyword = keyword, !.vector = vector,
                    !.result = Fused(keyword, vector, query.limit)]
    BY <1>3 DEF Answered
  <2>3. Fused(keyword, vector, query.limit) \in Rankings
    BY <1>1, <2>1, FusionRight
  <2> QED
    BY <1>1, <2>1, <2>2, <2>3 DEF QInv, QueryTypeOK
<1> QED
  BY <1>2, <1>3

\* The first few of an order of all documents are a ranking.
LEMMA NearestRanking ==
  ASSUME NEW S \in SUBSET Documents, NEW order \in SetToSeqs(S), NEW count \in Nat
  PROVE  SubSeq(order, 1, IF Len(order) < count THEN Len(order) ELSE count) \in Rankings
<1> DEFINE n == Cardinality(S)
           k == IF n < count THEN n ELSE count
           first == SubSeq(order, 1, k)
<1>1. n \in Nat
  BY RankingFacts, FS_Subset, FS_CardinalityType
<1>2. order \in [1..n -> S] /\ \A i, j \in 1..n : order[i] = order[j] => i = j
  BY DEF SetToSeqs
<1>3. Len(order) = n
  BY <1>1, <1>2
<1>4. k \in Nat /\ k <= n
  BY <1>1
<1> HIDE DEF n, k
<1>5. first = [i \in 1..k |-> order[i]]
  BY <1>1, <1>2, <1>3, <1>4
<1> HIDE DEF first
<1>6. first \in [1..k -> Documents] /\ \A i, j \in 1..k : first[i] = first[j] => i = j
  BY <1>1, <1>2, <1>4, <1>5
<1>7. first \in Rankings
  BY <1>4, <1>6, RankingIntro DEF Rankings
<1> QED
  BY <1>3, <1>7 DEF first, k

\* Every step of a search keeps QInv.
LEMMA QueryNext == PInv /\ QInv /\ [Next]_vars => QInv'
<1> SUFFICES ASSUME PInv, QInv, [Next]_vars  PROVE QInv'
  OBVIOUS
<1>1. docs \in SUBSET Documents /\ SetToAllKPermutations(docs) \subseteq Rankings
  BY RankingFacts DEF PInv, IndexTypeOK
<1>2. CASE UNCHANGED query
  BY <1>2 DEF QInv, QueryTypeOK
<1>3. CASE \E limit \in Limits : Search(limit)
  BY <1>3 DEF Search, NoQuery, QInv, QueryTypeOK
<1>4. CASE KeywordHits
  <2>1. PICK found \in SetToAllKPermutations(docs) : Answered(found, query.vector)
    BY <1>4 DEF KeywordHits
  <2>2. query.at = "sent" /\ query.vector \in Rankings \cup {Unanswered}
    BY <1>4 DEF KeywordHits, QInv, QueryTypeOK
  <2> QED
    BY <1>1, <2>1, <2>2, AnsweredKeeps
<1>5. CASE VectorHits
  <2>1. query.at = "sent" /\ query.keyword \in Rankings \cup {Unanswered}
    BY <1>5 DEF VectorHits, QInv, QueryTypeOK
  <2>2. CandidateCount(query.limit) \in Nat
    <3>1. query.limit \in Nat
      BY <2>1, SearchAssumption DEF QInv
    <3>2. MinCandidates \in Nat
      BY SearchAssumption
    <3> QED
      BY <3>1, <3>2 DEF CandidateCount
  <2>3. PICK order \in SetToSeqs(docs) :
          Answered(query.keyword,
                   SubSeq(order, 1, IF Len(order) < CandidateCount(query.limit)
                                      THEN Len(order) ELSE CandidateCount(query.limit)))
    BY <1>5 DEF VectorHits
  <2>4. SubSeq(order, 1, IF Len(order) < CandidateCount(query.limit)
                           THEN Len(order) ELSE CandidateCount(query.limit)) \in Rankings
    BY <1>1, <2>2, NearestRanking
  <2> QED
    BY <2>1, <2>3, <2>4, AnsweredKeeps
<1>6. CASE SearchUnavailable
  BY <1>6 DEF SearchUnavailable, NoQuery, QInv, QueryTypeOK
<1>7. CASE \E w \in Writers : Bulk(w)
  BY <1>2, <1>7 DEF Bulk
<1>8. CASE PipelineStep
  BY <1>2, <1>8, PipelineLeavesQuery
<1>9. CASE UNCHANGED vars
  BY <1>2, <1>9 DEF vars, searchVars
<1> QED
  BY <1>3, <1>4, <1>5, <1>6, <1>7, <1>8, <1>9 DEF Next, OperatorSearch, SearchStep

\* QInv holds of every search.
LEMMA QueryInvariant == Spec => []QInv
<1>1. Init => QInv
  BY DEF Init, SearchInit, NoQuery, QInv, QueryTypeOK
<1> QED
  BY <1>1, QueryNext, Invariant, PTL DEF Spec

\* Jobs, articles, the index, its writers and the search always have their types:
\* NewsPipeline's TypeOK.
THEOREM TypeCorrect == Spec => []TypeOK
<1>1. PInv /\ QInv => TypeOK
  BY DEF PInv, QInv, TypeOK, SearchTypeOK
<1> QED
  BY <1>1, Invariant, QueryInvariant, PTL

\* What an operator's search returns respects both rankings it was made from, for
\* any documents, limits and rank constant.
THEOREM FusionCorrect == Spec => []FusionRespectsRankings
<1>1. QInv => FusionRespectsRankings
  <2> SUFFICES ASSUME QInv, query.at = "answered"  PROVE FusionRespectsRankings
    BY DEF FusionRespectsRankings
  <2>1. /\ query.keyword \in Rankings /\ query.vector \in Rankings
        /\ query.limit \in Nat \ {0}
        /\ query.result = Fused(query.keyword, query.vector, query.limit)
    BY SearchAssumption DEF QInv
  <2>2. LET found == Found(query.keyword, query.vector)
            result == Fused(query.keyword, query.vector, query.limit)
        IN /\ Range(result) \subseteq found
           /\ Cardinality(Range(result)) = Len(result)
           /\ Len(result) <= query.limit
           /\ Len(result) = query.limit \/ Range(result) = found
           /\ \A a, b \in found :
                AheadOf(a, b, query.keyword, query.vector) /\ b \in Range(result) =>
                  a \in Range(result) /\ RankIn(a, result) < RankIn(b, result)
    BY <2>1, FusionRight
  <2> QED
    BY <2>1, <2>2, Zenon DEF FusionRespectsRankings
<1> QED
  BY <1>1, QueryInvariant, PTL

-----------------------------------------------------------------------------
(* The jobs are DurableJobs' *)

Lifecycle == INSTANCE JobLifecycle WITH Absent <- "none"

ImplementsLifecycle == Lifecycle!Spec

\* What the pipeline asks of the durable_jobs table is the life of a job that
\* DurableJobs' own LifecycleKept proves of it: no step of Airflow, of a worker or
\* of a failure starts a job twice, revives one that ended, or moves two at once.
THEOREM LifecycleKept == Spec => ImplementsLifecycle
<1> USE DEF Lifecycle!Next, Lifecycle!Move
<1>1. Init => Lifecycle!Init
  BY DEF Init, Lifecycle!Init
<1>2. ASSUME NEW j \in Jobs, Request(j)
      PROVE  Lifecycle!Next \/ UNCHANGED status
  BY <1>2 DEF Request, Lifecycle!Request
<1>3. ASSUME PInv, [Next]_vars
      PROVE  [Lifecycle!Next]_status
  <2>1. ASSUME NEW c \in Intervals, Trigger(c) \/ TriggerLost(c)
        PROVE  Lifecycle!Next \/ UNCHANGED status
    BY <1>2, <2>1, JobFacts DEF Trigger, TriggerLost
  <2>2. ASSUME NEW c \in Intervals, Wait(c) \/ WaitTimesOut(c)
        PROVE  UNCHANGED status
    BY <2>2 DEF Wait, WaitTimesOut
  <2>3. ASSUME NEW j \in Jobs, Claim(j) \/ Cancel(j)
        PROVE  Lifecycle!Next
    BY <2>3 DEF Claim, Cancel, Lifecycle!Claim, Lifecycle!Cancel
  <2>4. ASSUME NEW j \in Jobs, MarkSucceeded(j) \/ MarkFailed(j)
        PROVE  Lifecycle!Next
    <3>1. status[j] = "running"
      BY <1>3, <2>4 DEF MarkSucceeded, MarkFailed, PInv, JobTypeOK
    <3> QED
      BY <2>4, <3>1 DEF MarkSucceeded, MarkFailed, End, Lifecycle!Finish
  <2>5. ASSUME NEW j \in Jobs, RequestRetry(j)
        PROVE  Lifecycle!Next \/ UNCHANGED status
    <3>1. CASE j[3] >= MaxAttempts - 1
      BY <2>5, <3>1 DEF RequestRetry
    <3>2. CASE ~(j[3] >= MaxAttempts - 1)
      <4>1. RetryOf(j) \in Jobs
        BY <3>2, JobFacts, RetryFacts, PipelineAssumption
      <4> QED
        BY <1>2, <2>5, <3>2, <4>1 DEF RequestRetry
    <3> QED
      BY <3>1, <3>2
  <2>6. ASSUME NEW j \in Jobs, NEW next, StoreArticles(j, next)
        PROVE  Lifecycle!Next \/ UNCHANGED status
    <3>1. <<"index", j[2], 0>> \in Jobs
      BY JobFacts DEF FirstIndex
    <3> QED
      BY <1>2, <2>6, <3>1 DEF StoreArticles
  <2>7. ASSUME NEW j \in Jobs,
               \/ \E articles \in Feeds : Collect(j, articles)
               \/ NoSourceKeys(j) \/ IndexNews(j) \/ IndexReturns(j) \/ IndexRaises(j)
               \/ ProviderFails(j) \/ WorkerCrash(j) \/ HandlerRaises(j)
        PROVE  UNCHANGED status
    BY <2>7 DEF Collect, NoSourceKeys, IndexNews, IndexReturns, IndexRaises, Leave,
       ProviderFails, WorkerCrash, HandlerRaises
  <2>8. ASSUME NEW j \in Jobs, JobStep(j)
        PROVE  Lifecycle!Next \/ UNCHANGED status
    BY <2>3, <2>4, <2>5, <2>6, <2>7, <2>8 DEF JobStep
  <2>9. ASSUME Failure
        PROVE  Lifecycle!Next \/ UNCHANGED status
    BY <2>1, <2>2, <2>3, <2>6, <2>7, <2>9 DEF Failure, jobVars
  <2>10. ASSUME PipelineStep
         PROVE  Lifecycle!Next \/ UNCHANGED status
    BY <2>1, <2>2, <2>8, <2>9, <2>10 DEF PipelineStep, jobVars
  <2>11. OperatorSearch \/ UNCHANGED vars => UNCHANGED status
    BY DEF OperatorSearch, vars, jobVars
  <2>12. Lifecycle!Next \/ UNCHANGED status
    BY <1>3, <2>10, <2>11 DEF Next
  <2> QED
    BY <2>12
<1> QED
  BY <1>1, <1>3, Invariant, PTL DEF Spec, ImplementsLifecycle, Lifecycle!Spec
=============================================================================

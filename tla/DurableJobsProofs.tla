------------------------- MODULE DurableJobsProofs --------------------------
(***************************************************************************)
(* JInv is an inductive invariant of DurableJobs for any run keys, workers,*)
(* cancel requests, articles, retry limit and number of faults; the safety *)
(* properties follow from it.                                              *)
(***************************************************************************)
EXTENDS DurableJobs, TLAPS

\* `{root}:retry:{n}' names one later attempt of one job.
LEMMA RetryFacts ==
  /\ \A j \in CollectJobs \cup IndexJobs : j.attempt < MaxAttempts - 1 =>
       /\ Retry(j) \in CollectJobs \cup IndexJobs
       /\ Retry(j) # j
       /\ Retry(j).attempt # 0
  /\ \A i, j \in CollectJobs \cup IndexJobs : Retry(i) = Retry(j) => i = j
  BY ConstantsAssumption DEF CollectJobs, IndexJobs, Retry, Attempts

\* `news-index:{job_id}' names one first attempt per collection job.
LEMMA IndexFacts ==
  /\ \A j \in CollectJobs : IndexJob(j) \in IndexJobs /\ IndexJob(j).attempt = 0
  /\ \A i, j \in CollectJobs : IndexJob(i) = IndexJob(j) => i = j
  BY ConstantsAssumption DEF CollectJobs, IndexJobs, IndexJob, Attempts

\* The job types partition the rows, and clients trigger first attempts only.
LEMMA JobFacts ==
  /\ CollectJobs \subseteq Jobs /\ IndexJobs \subseteq Jobs
  /\ Triggers \subseteq Jobs
  /\ \A j \in Jobs : j.type = "news_collection" <=> j \in CollectJobs
  /\ \A j \in Jobs : j.type = "news_index" <=> j \in IndexJobs
  /\ \A j \in Triggers : j.attempt = 0 /\ j \notin IndexJobs
  BY ConstantsAssumption DEF Jobs, CollectJobs, IndexJobs, OtherJobs


\* The trigger and cancel endpoints and a repeated delivery keep JInv.
LEMMA EndpointPreserves ==
  ASSUME JInv, \/ \E j \in Triggers : Trigger(j)
               \/ \E c \in Cancellers : CancelStep(c)
               \/ \E j \in Jobs : Redeliver(j)
  PROVE  JInv'
  <1>1. ASSUME NEW j \in Triggers, Trigger(j)
        PROVE  JInv'
    <2>1. TypeOK'
      BY <1>1, ConstantsAssumption, JobFacts DEF Trigger, Request, newsVars,
         taskVars, cancelVars, historyVars, tableVars, JInv, TypeOK, Statuses,
         Terminal, TaskStates, CancelStates, Answers, OwnersAgree
    <2>2. OwnersAgree'
      BY <1>1, JobFacts DEF Trigger, Request, newsVars, taskVars, cancelVars,
         historyVars, tableVars, JInv, TypeOK, OwnersAgree, Owns
    <2>3. StartsCounted'
      BY <1>1, JobFacts DEF Trigger, Request, newsVars, taskVars, cancelVars,
         historyVars, tableVars, JInv, TypeOK, OwnersAgree, StartsCounted
    <2>4. RunningKnown'
      BY <1>1, JobFacts DEF Trigger, Request, newsVars, taskVars, cancelVars,
         historyVars, tableVars, JInv, TypeOK, OwnersAgree, RunningKnown, Owns
    <2>5. CancelsAgree'
      BY <1>1, JobFacts DEF Trigger, Request, newsVars, taskVars, cancelVars,
         historyVars, tableVars, JInv, TypeOK, OwnersAgree, CancelsAgree
    <2>6. RetriesAgree'
      BY <1>1, JobFacts, RetryFacts, IndexFacts DEF Trigger, Request, newsVars,
         taskVars, cancelVars, historyVars, tableVars, JInv, TypeOK,
         OwnersAgree, StartsCounted, RetriesAgree, Owns
    <2>7. IndexFollowsCollect'
      BY <1>1, JobFacts, RetryFacts, IndexFacts DEF Trigger, Request, newsVars,
         taskVars, cancelVars, historyVars, tableVars, JInv, TypeOK,
         OwnersAgree, IndexFollowsCollect, Owns
    <2>8. ArticlesHaveIndexJob'
      BY <1>1, JobFacts, RetryFacts, IndexFacts DEF Trigger, Request, newsVars,
         taskVars, cancelVars, historyVars, tableVars, JInv, TypeOK,
         OwnersAgree, IndexFollowsCollect, ArticlesHaveIndexJob
    <2> QED BY <2>1, <2>2, <2>3, <2>4, <2>5, <2>6, <2>7, <2>8 DEF JInv
  <1>2. ASSUME NEW c \in Cancellers, NEW j \in Jobs, CancelRead(c, j)
        PROVE  JInv'
    <2>1. TypeOK'
      BY <1>2, ConstantsAssumption, JobFacts DEF CancelRead, tableVars,
         newsVars, taskVars, historyVars, JInv, TypeOK, Statuses, Terminal,
         TaskStates, CancelStates, Answers, OwnersAgree
    <2>2. CancelsAgree'
      BY <1>2, JobFacts DEF CancelRead, tableVars, newsVars, taskVars,
         historyVars, JInv, TypeOK, OwnersAgree, CancelsAgree
    <2>3. /\ OwnersAgree' /\ StartsCounted' /\ RunningKnown' /\ RetriesAgree'
         /\ IndexFollowsCollect' /\ ArticlesHaveIndexJob'
      BY <1>2 DEF CancelRead, tableVars, newsVars, taskVars, historyVars, JInv,
         OwnersAgree, Owns, StartsCounted, RunningKnown, RetriesAgree,
         IndexFollowsCollect, ArticlesHaveIndexJob
    <2> QED BY <2>1, <2>2, <2>3 DEF JInv
  <1>3. ASSUME NEW c \in Cancellers, CancelUpdate(c)
        PROVE  JInv'
    <2>1. TypeOK'
      <3>1. status' \in [Jobs -> Statuses] /\ cancel' \in [Cancellers -> CancelStates]
        BY <1>3 DEF CancelUpdate, SetStatus, JInv, TypeOK, Statuses, Terminal,
           CancelStates, Answers
      <3> QED
        BY <1>3, <3>1 DEF CancelUpdate, newsVars, taskVars, historyVars, JInv,
           TypeOK
    <2>2. OwnersAgree'
      BY <1>3, JobFacts DEF CancelUpdate, SetStatus, CanTransition, newsVars,
         taskVars, historyVars, JInv, TypeOK, OwnersAgree, Owns
    <2>3. StartsCounted'
      BY <1>3, JobFacts DEF CancelUpdate, SetStatus, CanTransition, newsVars,
         taskVars, historyVars, JInv, TypeOK, OwnersAgree, StartsCounted
    <2>4. RunningKnown'
      BY <1>3, JobFacts DEF CancelUpdate, SetStatus, CanTransition, newsVars,
         taskVars, historyVars, JInv, TypeOK, OwnersAgree, RunningKnown, Owns
    <2>5. CancelsAgree'
      BY <1>3, JobFacts DEF CancelUpdate, SetStatus, CanTransition, newsVars,
         taskVars, historyVars, JInv, TypeOK, OwnersAgree, CancelsAgree
    <2>6. RetriesAgree'
      BY <1>3, JobFacts, RetryFacts, IndexFacts DEF CancelUpdate, SetStatus,
         CanTransition, newsVars, taskVars, historyVars, JInv, TypeOK,
         OwnersAgree, StartsCounted, RetriesAgree, Owns
    <2>7. IndexFollowsCollect'
      BY <1>3, JobFacts, RetryFacts, IndexFacts DEF CancelUpdate, SetStatus,
         CanTransition, newsVars, taskVars, historyVars, JInv, TypeOK,
         OwnersAgree, IndexFollowsCollect, Owns
    <2>8. ArticlesHaveIndexJob'
      BY <1>3, JobFacts, RetryFacts, IndexFacts DEF CancelUpdate, SetStatus,
         CanTransition, newsVars, taskVars, historyVars, JInv, TypeOK,
         OwnersAgree, IndexFollowsCollect, ArticlesHaveIndexJob
    <2> QED BY <2>1, <2>2, <2>3, <2>4, <2>5, <2>6, <2>7, <2>8 DEF JInv
  <1>4. ASSUME NEW c \in Cancellers, CancelReread(c)
        PROVE  JInv'
    <2>1. TypeOK'
      BY <1>4, ConstantsAssumption, JobFacts DEF CancelReread, tableVars,
         newsVars, taskVars, historyVars, JInv, TypeOK, Statuses, Terminal,
         TaskStates, CancelStates, Answers, OwnersAgree
    <2>2. CancelsAgree'
      BY <1>4, JobFacts DEF CancelReread, tableVars, newsVars, taskVars,
         historyVars, JInv, TypeOK, OwnersAgree, CancelsAgree, Statuses,
         Terminal
    <2>3. /\ OwnersAgree' /\ StartsCounted' /\ RunningKnown' /\ RetriesAgree'
         /\ IndexFollowsCollect' /\ ArticlesHaveIndexJob'
      BY <1>4 DEF CancelReread, tableVars, newsVars, taskVars, historyVars,
         JInv, OwnersAgree, Owns, StartsCounted, RunningKnown, RetriesAgree,
         IndexFollowsCollect, ArticlesHaveIndexJob
    <2> QED BY <2>1, <2>2, <2>3 DEF JInv
  <1>5. ASSUME NEW j \in Jobs, Redeliver(j)
        PROVE  JInv'
    <2>1. TypeOK'
      BY <1>5, ConstantsAssumption, JobFacts DEF Redeliver, Fault, newsVars, taskVars,
         cancelVars, historyVars, JInv, TypeOK, Statuses, Terminal, TaskStates,
         CancelStates, Answers, OwnersAgree
    <2>2. /\ OwnersAgree' /\ StartsCounted' /\ RunningKnown' /\ CancelsAgree'
         /\ RetriesAgree' /\ IndexFollowsCollect' /\ ArticlesHaveIndexJob'
      BY <1>5 DEF Redeliver, Fault, newsVars, taskVars, cancelVars, historyVars, JInv,
         OwnersAgree, Owns, StartsCounted, RunningKnown, CancelsAgree,
         RetriesAgree, IndexFollowsCollect, ArticlesHaveIndexJob
    <2> QED BY <2>1, <2>2 DEF JInv
  <1> QED BY <1>1, <1>2, <1>3, <1>4, <1>5 DEF CancelStep

\* The transaction that requests the retry keeps JInv, whether it commits or
\* raises.
LEMMA RetryPreserves ==
  ASSUME JInv, NEW w \in Workers, RequestRetry(w) \/ RetryRequestFails(w)
  PROVE  JInv'
  <1>0. /\ task[w] = "retrying" /\ job[w] \in Jobs /\ status[job[w]] = "running"
        /\ task' = [task EXCEPT ![w] = "failing"]
        /\ UNCHANGED <<newsVars, job, cancelVars, starts, orphaned, transient, dlq>>
    BY DEF RequestRetry, RetryRequestFails, JInv, TypeOK, OwnersAgree, historyVars
  <1>1. /\ unretried' \in SUBSET Jobs /\ unretried \subseteq unretried'
        /\ faultsLeft' \in 0..MaxFaults
    BY <1>0, ConstantsAssumption DEF RequestRetry, RetryRequestFails, Fault,
       historyVars, JInv, TypeOK
  <1>2. \/ /\ UNCHANGED tableVars
           /\ HasRetry(job[w]) => job[w] \in unretried' \/ status[Retry(job[w])] # "absent"
        \/ /\ HasRetry(job[w]) /\ status[Retry(job[w])] = "absent"
           /\ status' = [status EXCEPT ![Retry(job[w])] = "requested"]
           /\ keys' = [keys EXCEPT ![Retry(job[w])] = keys[job[w]]]
           /\ mail' = [mail EXCEPT ![Retry(job[w])] = @ + 1]
    BY DEF RequestRetry, RetryRequestFails, RetryRow, Request, tableVars
  <1>3. CASE job[w] \notin CollectJobs \cup IndexJobs
    BY <1>0, <1>3 DEF JInv, OwnersAgree
  <1>4. CASE job[w] \in CollectJobs \cup IndexJobs
    <2>0. HasRetry(job[w]) => /\ Retry(job[w]) \in CollectJobs \cup IndexJobs
                              /\ Retry(job[w]) \in Jobs
                              /\ Retry(job[w]) # job[w]
                              /\ Retry(job[w]).attempt # 0
      BY <1>4, RetryFacts, JobFacts DEF HasRetry
    <2>1. TypeOK'
      <3>1. task' \in [Workers -> TaskStates]
        BY <1>0 DEF JInv, TypeOK, TaskStates
      <3>2. /\ status' \in [Jobs -> Statuses] /\ keys' \in [Jobs -> SUBSET Articles]
            /\ mail' \in [Jobs -> Nat]
        BY <1>0, <1>2, <2>0 DEF JInv, TypeOK, tableVars, Statuses
      <3> QED BY <1>0, <1>1, <3>1, <3>2 DEF JInv, TypeOK, newsVars, cancelVars
    <2>2. OwnersAgree'
      BY <1>0, <1>2, <2>0 DEF JInv, TypeOK, OwnersAgree, Owns, tableVars
    <2>3. StartsCounted'
      BY <1>0, <1>2, <2>0 DEF JInv, TypeOK, StartsCounted, tableVars
    <2>4. RunningKnown'
      BY <1>0, <1>2, <2>0 DEF JInv, TypeOK, OwnersAgree, RunningKnown, Owns, tableVars
    <2>5. CancelsAgree'
      BY <1>0, <1>2, <2>0 DEF JInv, TypeOK, CancelsAgree, tableVars, cancelVars
    <2>6. RetriesAgree'
      BY <1>0, <1>1, <1>2, <1>4, <2>0, JobFacts, RetryFacts DEF HasRetry, JInv, TypeOK,
         OwnersAgree, StartsCounted, RetriesAgree, Owns, tableVars
    <2>7. IndexFollowsCollect'
      BY <1>0, <1>2, <1>4, <2>0, JobFacts, IndexFacts DEF JInv, TypeOK, OwnersAgree,
         IndexFollowsCollect, Owns, tableVars
    <2>8. ArticlesHaveIndexJob'
      BY <1>0, <1>2, <1>4, <2>0, JobFacts DEF JInv, TypeOK, ArticlesHaveIndexJob,
         tableVars, newsVars
    <2> QED BY <2>1, <2>2, <2>3, <2>4, <2>5, <2>6, <2>7, <2>8 DEF JInv
  <1> QED BY <1>3, <1>4

\* The job handler's outcomes, with the rows they request, keep JInv.
LEMMA HandlerPreserves ==
  ASSUME JInv, NEW p \in Workers, HandlerStep(p)
  PROVE  JInv'
  <1>1. ASSUME NEW w \in Workers, TransientError(w)
        PROVE  JInv'
    <2>0. job[w] \in Jobs /\ job[w] \in CollectJobs \cup IndexJobs
      BY <1>1, JobFacts DEF TransientError, JInv, TypeOK, OwnersAgree
    <2>1. TypeOK'
      BY <1>1, <2>0 DEF TransientError, cancelVars, tableVars, JInv, TypeOK, TaskStates
    <2>2. OwnersAgree'
      BY <1>1, <2>0 DEF TransientError, cancelVars, tableVars, JInv, TypeOK,
         OwnersAgree, Owns
    <2>3. RunningKnown'
      BY <1>1, <2>0 DEF TransientError, cancelVars, tableVars, JInv, TypeOK,
         OwnersAgree, RunningKnown, Owns
    <2>4. RetriesAgree'
      BY <1>1, <2>0, JobFacts, RetryFacts DEF TransientError, cancelVars, tableVars,
         JInv, TypeOK, OwnersAgree, RetriesAgree, Owns
    <2>5. IndexFollowsCollect'
      BY <1>1, <2>0, JobFacts DEF TransientError, cancelVars, tableVars, JInv, TypeOK,
         OwnersAgree, IndexFollowsCollect, Owns
    <2>6. /\ StartsCounted' /\ CancelsAgree' /\ ArticlesHaveIndexJob'
      BY <1>1 DEF TransientError, cancelVars, tableVars, JInv, StartsCounted,
         CancelsAgree, ArticlesHaveIndexJob
    <2> QED BY <2>1, <2>2, <2>3, <2>4, <2>5, <2>6 DEF JInv
  <1>2. ASSUME NEW w \in Workers, PermanentError(w)
        PROVE  JInv'
    <2>1. TypeOK'
      BY <1>2, ConstantsAssumption, JobFacts DEF PermanentError, tableVars,
         newsVars, cancelVars, historyVars, JInv, TypeOK, Statuses, Terminal,
         TaskStates, CancelStates, Answers, OwnersAgree
    <2>2. OwnersAgree'
      BY <1>2, JobFacts DEF PermanentError, tableVars, newsVars, cancelVars,
         historyVars, JInv, TypeOK, OwnersAgree, Owns
    <2>3. RunningKnown'
      BY <1>2, JobFacts DEF PermanentError, tableVars, newsVars, cancelVars,
         historyVars, JInv, TypeOK, OwnersAgree, RunningKnown, Owns
    <2>4. RetriesAgree'
      BY <1>2, JobFacts, RetryFacts, IndexFacts DEF PermanentError, tableVars,
         newsVars, cancelVars, historyVars, JInv, TypeOK, OwnersAgree,
         StartsCounted, RetriesAgree, Owns
    <2>5. IndexFollowsCollect'
      BY <1>2, JobFacts, RetryFacts, IndexFacts DEF PermanentError, tableVars,
         newsVars, cancelVars, historyVars, JInv, TypeOK, OwnersAgree,
         IndexFollowsCollect, Owns
    <2>6. /\ StartsCounted' /\ CancelsAgree' /\ ArticlesHaveIndexJob'
      BY <1>2 DEF PermanentError, tableVars, newsVars, cancelVars, historyVars,
         JInv, StartsCounted, CancelsAgree, ArticlesHaveIndexJob
    <2> QED BY <2>1, <2>2, <2>3, <2>4, <2>5, <2>6 DEF JInv
  <1>3. ASSUME NEW w \in Workers, CollectNews(w)
        PROVE  JInv'
    <2>1. TypeOK'
      <3>1. job[w] \in CollectJobs /\ IndexJob(job[w]) \in Jobs
        BY <1>3, JobFacts, IndexFacts DEF CollectNews, JInv, TypeOK, OwnersAgree
      <3>2. /\ articles' \in SUBSET Articles
            /\ status' \in [Jobs -> Statuses] /\ keys' \in [Jobs -> SUBSET Articles]
            /\ mail' \in [Jobs -> Nat]
        BY <1>3, <3>1 DEF CollectNews, Request, tableVars, JInv, TypeOK, Statuses
      <3>3. task' \in [Workers -> TaskStates] /\ faultsLeft' \in 0..MaxFaults
        BY <1>3, ConstantsAssumption DEF CollectNews, Fault, NoFault, JInv, TypeOK,
           TaskStates
      <3> QED BY <1>3, <3>2, <3>3 DEF CollectNews, JInv, TypeOK, cancelVars, historyVars
    <2>2. OwnersAgree'
      BY <1>3, JobFacts, RetryFacts, IndexFacts DEF CollectNews, Fault, NoFault, Request,
         tableVars, cancelVars, historyVars, JInv, TypeOK, OwnersAgree, Owns
    <2>3. StartsCounted'
      BY <1>3, JobFacts, RetryFacts, IndexFacts DEF CollectNews, Fault, NoFault, Request,
         tableVars, cancelVars, historyVars, JInv, TypeOK, OwnersAgree,
         StartsCounted
    <2>4. RunningKnown'
      BY <1>3, JobFacts, RetryFacts, IndexFacts DEF CollectNews, Fault, NoFault, Request,
         tableVars, cancelVars, historyVars, JInv, TypeOK, OwnersAgree,
         RunningKnown, Owns
    <2>5. CancelsAgree'
      BY <1>3, JobFacts, RetryFacts, IndexFacts DEF CollectNews, Fault, NoFault, Request,
         tableVars, cancelVars, historyVars, JInv, TypeOK, OwnersAgree,
         CancelsAgree
    <2>6. RetriesAgree'
      BY <1>3, JobFacts, RetryFacts, IndexFacts DEF CollectNews, Fault, NoFault, Request,
         tableVars, cancelVars, historyVars, JInv, TypeOK, OwnersAgree,
         StartsCounted, RetriesAgree, Owns
    <2>7. IndexFollowsCollect'
      BY <1>3, JobFacts, RetryFacts, IndexFacts DEF CollectNews, Fault, NoFault, Request,
         tableVars, cancelVars, historyVars, JInv, TypeOK, OwnersAgree,
         IndexFollowsCollect, Owns
    <2>8. ArticlesHaveIndexJob'
      <3> SUFFICES ASSUME IndexingEnabled, NEW a \in articles'
                   PROVE  \E j \in IndexJobs : status'[j] # "absent" /\ a \in keys'[j]
        BY DEF ArticlesHaveIndexJob
      <3>1. job[w] \in CollectJobs
        BY <1>3, JobFacts DEF CollectNews, JInv, TypeOK, OwnersAgree
      <3>2. IndexJob(job[w]) \in IndexJobs /\ status[IndexJob(job[w])] = "absent"
        BY <1>3, <3>1, IndexFacts DEF CollectNews, JInv, IndexFollowsCollect, Owns
      <3>3. PICK found \in SUBSET Articles :
              /\ articles' = articles \cup found
              /\ status' = [status EXCEPT ![IndexJob(job[w])] = "requested"]
              /\ keys' = [keys EXCEPT ![IndexJob(job[w])] = found \ articles]
        BY <1>3, <3>2 DEF CollectNews, Request
      <3>4. CASE a \in articles
        <4>1. PICK j \in IndexJobs : status[j] # "absent" /\ a \in keys[j]
          BY <3>4 DEF JInv, ArticlesHaveIndexJob
        <4>2. status'[j] # "absent" /\ a \in keys'[j]
          BY <3>2, <3>3, <4>1, JobFacts DEF JInv, TypeOK
        <4> QED BY <4>2
      <3>5. CASE a \notin articles
        BY <3>2, <3>3, <3>5, JobFacts DEF JInv, TypeOK
      <3> QED BY <3>4, <3>5
    <2> QED BY <2>1, <2>2, <2>3, <2>4, <2>5, <2>6, <2>7, <2>8 DEF JInv
  <1>4. ASSUME NEW w \in Workers, IndexNews(w)
        PROVE  JInv'
    <2>1. TypeOK'
      BY <1>4, ConstantsAssumption, JobFacts DEF IndexNews, tableVars,
         cancelVars, historyVars, JInv, TypeOK, Statuses, Terminal, TaskStates,
         CancelStates, Answers, OwnersAgree
    <2>2. OwnersAgree'
      BY <1>4, JobFacts DEF IndexNews, tableVars, cancelVars, historyVars,
         JInv, TypeOK, OwnersAgree, Owns
    <2>3. RunningKnown'
      BY <1>4, JobFacts DEF IndexNews, tableVars, cancelVars, historyVars,
         JInv, TypeOK, OwnersAgree, RunningKnown, Owns
    <2>4. RetriesAgree'
      BY <1>4, JobFacts, RetryFacts, IndexFacts DEF IndexNews, tableVars,
         cancelVars, historyVars, JInv, TypeOK, OwnersAgree, StartsCounted,
         RetriesAgree, Owns
    <2>5. IndexFollowsCollect'
      BY <1>4, JobFacts, RetryFacts, IndexFacts DEF IndexNews, tableVars,
         cancelVars, historyVars, JInv, TypeOK, OwnersAgree,
         IndexFollowsCollect, Owns
    <2>6. /\ StartsCounted' /\ CancelsAgree' /\ ArticlesHaveIndexJob'
      BY <1>4 DEF IndexNews, tableVars, cancelVars, historyVars, JInv,
         StartsCounted, CancelsAgree, ArticlesHaveIndexJob
    <2> QED BY <2>1, <2>2, <2>3, <2>4, <2>5, <2>6 DEF JInv
  <1>5. ASSUME NEW w \in Workers, RunOther(w)
        PROVE  JInv'
    <2>1. TypeOK'
      BY <1>5, ConstantsAssumption, JobFacts DEF RunOther, tableVars, newsVars,
         cancelVars, historyVars, JInv, TypeOK, Statuses, Terminal, TaskStates,
         CancelStates, Answers, OwnersAgree
    <2>2. OwnersAgree'
      BY <1>5, JobFacts DEF RunOther, tableVars, newsVars, cancelVars,
         historyVars, JInv, TypeOK, OwnersAgree, Owns
    <2>3. RunningKnown'
      BY <1>5, JobFacts DEF RunOther, tableVars, newsVars, cancelVars,
         historyVars, JInv, TypeOK, OwnersAgree, RunningKnown, Owns
    <2>4. RetriesAgree'
      BY <1>5, JobFacts, RetryFacts, IndexFacts DEF RunOther, tableVars,
         newsVars, cancelVars, historyVars, JInv, TypeOK, OwnersAgree,
         StartsCounted, RetriesAgree, Owns
    <2>5. IndexFollowsCollect'
      BY <1>5, JobFacts, RetryFacts, IndexFacts DEF RunOther, tableVars,
         newsVars, cancelVars, historyVars, JInv, TypeOK, OwnersAgree,
         IndexFollowsCollect, Owns
    <2>6. /\ StartsCounted' /\ CancelsAgree' /\ ArticlesHaveIndexJob'
      BY <1>5 DEF RunOther, tableVars, newsVars, cancelVars, historyVars, JInv,
         StartsCounted, CancelsAgree, ArticlesHaveIndexJob
    <2> QED BY <2>1, <2>2, <2>3, <2>4, <2>5, <2>6 DEF JInv
  <1> QED BY <1>1, <1>2, <1>3, <1>4, <1>5, RetryPreserves DEF HandlerStep

\* Receiving, claiming, finishing, crashing and losing the database keep JInv.
LEMMA WorkerPreserves ==
  ASSUME JInv, NEW p \in Workers, WorkerStep(p) \/ WorkerFault(p)
  PROVE  JInv'
  <1>1. ASSUME NEW w \in Workers, NEW j \in Jobs, Receive(w, j)
        PROVE  JInv'
    <2>1. TypeOK'
      BY <1>1, ConstantsAssumption, JobFacts DEF Receive, newsVars, cancelVars,
         historyVars, JInv, TypeOK, Statuses, Terminal, TaskStates,
         CancelStates, Answers, OwnersAgree
    <2>2. OwnersAgree'
      BY <1>1, ConstantsAssumption DEF Receive, newsVars, cancelVars, historyVars, JInv,
         TypeOK, OwnersAgree, Owns
    <2>3. RunningKnown'
      BY <1>1, JobFacts DEF Receive, newsVars, cancelVars, historyVars, JInv,
         TypeOK, OwnersAgree, RunningKnown, Owns
    <2>4. RetriesAgree'
      BY <1>1, JobFacts, RetryFacts, IndexFacts DEF Receive, newsVars,
         cancelVars, historyVars, JInv, TypeOK, OwnersAgree, StartsCounted,
         RetriesAgree, Owns
    <2>5. IndexFollowsCollect'
      BY <1>1, JobFacts, RetryFacts, IndexFacts DEF Receive, newsVars,
         cancelVars, historyVars, JInv, TypeOK, OwnersAgree,
         IndexFollowsCollect, Owns
    <2>6. /\ StartsCounted' /\ CancelsAgree' /\ ArticlesHaveIndexJob'
      BY <1>1 DEF Receive, newsVars, cancelVars, historyVars, JInv,
         StartsCounted, CancelsAgree, ArticlesHaveIndexJob
    <2> QED BY <2>1, <2>2, <2>3, <2>4, <2>5, <2>6 DEF JInv
  <1>2. ASSUME NEW w \in Workers, Claim(w)
        PROVE  JInv'
    <2>1. TypeOK'
      <3>1. job[w] \in Jobs
        BY <1>2 DEF Claim, JInv, TypeOK, OwnersAgree
      <3>2. status' \in [Jobs -> Statuses] /\ starts' \in [Jobs -> Nat]
        BY <1>2, <3>1 DEF Claim, SetStatus, JInv, TypeOK, Statuses
      <3>3. task' \in [Workers -> TaskStates]
        BY <1>2 DEF Claim, JInv, TypeOK, TaskStates
      <3> QED BY <1>2, <3>2, <3>3
              DEF Claim, JInv, TypeOK, newsVars, cancelVars
    <2>2. OwnersAgree'
      <3>1. job[w] \in Jobs
        BY <1>2 DEF Claim, JInv, TypeOK, OwnersAgree
      <3>2. CASE status[job[w]] = "requested"
        <4>1. starts[job[w]] = 0
          BY <3>1, <3>2 DEF JInv, StartsCounted
        <4>2. /\ status' = [status EXCEPT ![job[w]] = "running"]
              /\ starts'[job[w]] = 1
              /\ \A j \in Jobs : j # job[w] => starts'[j] = starts[j]
              /\ task' = [task EXCEPT ![w] = "working"]
              /\ job' = job
          BY <1>2, <3>1, <3>2, <4>1 DEF Claim, SetStatus, CanTransition, JInv, TypeOK
        <4>3. \A v \in Workers :
                /\ job'[v] = job[w]
                /\ task'[v] \in {"working", "retrying", "failing", "completing"}
                => v = w
          BY <3>2, <4>2 DEF JInv, TypeOK, OwnersAgree, Owns
        <4>4. \A v \in Workers, j \in Jobs : j # job[w] => (Owns(v, j)' <=> Owns(v, j))
          BY <1>2, <4>2 DEF Claim, JInv, TypeOK, Owns
        <4>5. \A u, v \in Workers : \A j \in Jobs : (Owns(u, j) /\ Owns(v, j))' => u = v
          <5> SUFFICES ASSUME NEW u \in Workers, NEW v \in Workers, NEW j \in Jobs,
                              Owns(u, j)', Owns(v, j)'
                       PROVE  u = v
            OBVIOUS
          <5>1. CASE j = job[w] BY <4>2, <4>3, <5>1 DEF Owns
          <5>2. CASE j # job[w] BY <4>4, <5>2 DEF JInv, OwnersAgree
          <5> QED BY <5>1, <5>2
        <4>6. \A v \in Workers :
                /\ task'[v] = "idle" <=> job'[v] = NoJob
                /\ task'[v] \in {"working", "retrying", "failing", "completing"} =>
                     status'[job'[v]] = "running" /\ starts'[job'[v]] = 1
                /\ task'[v] = "retrying" => job'[v] \in CollectJobs \cup IndexJobs
          BY <1>2, <3>1, <3>2, <4>2 DEF Claim, JInv, TypeOK, OwnersAgree
        <4> QED BY <4>5, <4>6 DEF OwnersAgree
      <3>3. CASE status[job[w]] # "requested"
        BY <1>2, <3>3 DEF Claim, CanTransition, JInv, TypeOK, OwnersAgree, Owns
      <3> QED BY <3>2, <3>3
    <2>3. StartsCounted'
      BY <1>2, JobFacts DEF Claim, SetStatus, CanTransition, newsVars,
         cancelVars, JInv, TypeOK, OwnersAgree, StartsCounted
    <2>4. RunningKnown'
      BY <1>2, JobFacts DEF Claim, SetStatus, CanTransition, newsVars,
         cancelVars, JInv, TypeOK, OwnersAgree, RunningKnown, Owns
    <2>5. CancelsAgree'
      BY <1>2, JobFacts DEF Claim, SetStatus, CanTransition, newsVars,
         cancelVars, JInv, TypeOK, OwnersAgree, CancelsAgree
    <2>6. RetriesAgree'
      <3>1. job[w] \in Jobs
        BY <1>2 DEF Claim, JInv, TypeOK, OwnersAgree
      <3>2. CASE status[job[w]] = "requested"
        <4>1. /\ status' = [status EXCEPT ![job[w]] = "running"]
              /\ starts' = [starts EXCEPT ![job[w]] = @ + 1]
              /\ task' = [task EXCEPT ![w] = "working"]
              /\ UNCHANGED <<job, transient, unretried>>
          BY <1>2, <3>2 DEF Claim, SetStatus, CanTransition
        <4>2. /\ starts[job[w]] = 0
              /\ job[w] \in CollectJobs \cup IndexJobs =>
                   /\ job[w] \notin transient
                   /\ job[w].attempt < MaxAttempts - 1 => status[Retry(job[w])] = "absent"
          BY <3>1, <3>2 DEF JInv, StartsCounted, RetriesAgree
        <4> QED BY <3>1, <3>2, <4>1, <4>2, JobFacts, RetryFacts
                DEF JInv, TypeOK, OwnersAgree, RetriesAgree, Owns
      <3>3. CASE status[job[w]] # "requested"
        BY <1>2, <3>1, <3>3, JobFacts DEF Claim, CanTransition, JInv, TypeOK,
           OwnersAgree, RetriesAgree, Owns
      <3> QED BY <3>2, <3>3
    <2>7. IndexFollowsCollect'
      BY <1>2, JobFacts, RetryFacts, IndexFacts DEF Claim, SetStatus,
         CanTransition, newsVars, cancelVars, JInv, TypeOK, OwnersAgree,
         IndexFollowsCollect, Owns
    <2>8. ArticlesHaveIndexJob'
      BY <1>2, JobFacts, RetryFacts, IndexFacts DEF Claim, SetStatus,
         CanTransition, newsVars, cancelVars, JInv, TypeOK, OwnersAgree,
         IndexFollowsCollect, ArticlesHaveIndexJob
    <2> QED BY <2>1, <2>2, <2>3, <2>4, <2>5, <2>6, <2>7, <2>8 DEF JInv
  <1>3. ASSUME NEW w \in Workers, MarkFailed(w)
        PROVE  JInv'
    <2>1. TypeOK'
      BY <1>3, ConstantsAssumption, JobFacts DEF MarkFailed, SetStatus,
         CanTransition, newsVars, cancelVars, historyVars, JInv, TypeOK,
         Statuses, Terminal, TaskStates, CancelStates, Answers, OwnersAgree
    <2>2. OwnersAgree'
      BY <1>3, JobFacts DEF MarkFailed, SetStatus, CanTransition, newsVars,
         cancelVars, historyVars, JInv, TypeOK, OwnersAgree, Owns
    <2>3. StartsCounted'
      BY <1>3, JobFacts DEF MarkFailed, SetStatus, CanTransition, newsVars,
         cancelVars, historyVars, JInv, TypeOK, OwnersAgree, StartsCounted
    <2>4. RunningKnown'
      BY <1>3, JobFacts DEF MarkFailed, SetStatus, CanTransition, newsVars,
         cancelVars, historyVars, JInv, TypeOK, OwnersAgree, RunningKnown, Owns
    <2>5. CancelsAgree'
      BY <1>3, JobFacts DEF MarkFailed, SetStatus, CanTransition, newsVars,
         cancelVars, historyVars, JInv, TypeOK, OwnersAgree, CancelsAgree
    <2>6. RetriesAgree'
      BY <1>3, JobFacts, RetryFacts, IndexFacts DEF MarkFailed, SetStatus,
         CanTransition, newsVars, cancelVars, historyVars, JInv, TypeOK,
         OwnersAgree, StartsCounted, RetriesAgree, Owns
    <2>7. IndexFollowsCollect'
      BY <1>3, JobFacts, RetryFacts, IndexFacts DEF MarkFailed, SetStatus,
         CanTransition, newsVars, cancelVars, historyVars, JInv, TypeOK,
         OwnersAgree, IndexFollowsCollect, Owns
    <2>8. ArticlesHaveIndexJob'
      BY <1>3, JobFacts, RetryFacts, IndexFacts DEF MarkFailed, SetStatus,
         CanTransition, newsVars, cancelVars, historyVars, JInv, TypeOK,
         OwnersAgree, IndexFollowsCollect, ArticlesHaveIndexJob
    <2> QED BY <2>1, <2>2, <2>3, <2>4, <2>5, <2>6, <2>7, <2>8 DEF JInv
  <1>4. ASSUME NEW w \in Workers, MarkSucceeded(w)
        PROVE  JInv'
    <2>1. TypeOK'
      <3>1. status' \in [Jobs -> Statuses]
        BY <1>4 DEF MarkSucceeded, SetStatus, JInv, TypeOK, Statuses, Terminal
      <3>2. task' \in [Workers -> TaskStates]
        BY <1>4 DEF MarkSucceeded, JInv, TypeOK, TaskStates
      <3> QED BY <1>4, <3>1, <3>2 DEF MarkSucceeded, JInv, TypeOK, newsVars,
              cancelVars, historyVars
    <2>2. OwnersAgree'
      BY <1>4, JobFacts DEF MarkSucceeded, SetStatus, CanTransition, newsVars,
         cancelVars, historyVars, JInv, TypeOK, OwnersAgree, Owns
    <2>3. StartsCounted'
      BY <1>4, JobFacts DEF MarkSucceeded, SetStatus, CanTransition, newsVars,
         cancelVars, historyVars, JInv, TypeOK, OwnersAgree, StartsCounted
    <2>4. RunningKnown'
      BY <1>4, JobFacts DEF MarkSucceeded, SetStatus, CanTransition, newsVars,
         cancelVars, historyVars, JInv, TypeOK, OwnersAgree, RunningKnown, Owns
    <2>5. CancelsAgree'
      BY <1>4, JobFacts DEF MarkSucceeded, SetStatus, CanTransition, newsVars,
         cancelVars, historyVars, JInv, TypeOK, OwnersAgree, CancelsAgree
    <2>6. RetriesAgree'
      BY <1>4, JobFacts, RetryFacts, IndexFacts DEF MarkSucceeded, SetStatus,
         CanTransition, newsVars, cancelVars, historyVars, JInv, TypeOK,
         OwnersAgree, StartsCounted, RetriesAgree, Owns
    <2>7. IndexFollowsCollect'
      BY <1>4, JobFacts, RetryFacts, IndexFacts DEF MarkSucceeded, SetStatus,
         CanTransition, newsVars, cancelVars, historyVars, JInv, TypeOK,
         OwnersAgree, IndexFollowsCollect, Owns
    <2>8. ArticlesHaveIndexJob'
      BY <1>4, JobFacts, RetryFacts, IndexFacts DEF MarkSucceeded, SetStatus,
         CanTransition, newsVars, cancelVars, historyVars, JInv, TypeOK,
         OwnersAgree, IndexFollowsCollect, ArticlesHaveIndexJob
    <2> QED BY <2>1, <2>2, <2>3, <2>4, <2>5, <2>6, <2>7, <2>8 DEF JInv
  <1>5. ASSUME NEW w \in Workers, Ack(w)
        PROVE  JInv'
    <2>1. TypeOK'
      BY <1>5, ConstantsAssumption, JobFacts DEF Ack, tableVars, newsVars,
         cancelVars, historyVars, JInv, TypeOK, Statuses, Terminal, TaskStates,
         CancelStates, Answers, OwnersAgree
    <2>2. OwnersAgree'
      BY <1>5, JobFacts DEF Ack, tableVars, newsVars, cancelVars, historyVars,
         JInv, TypeOK, OwnersAgree, Owns
    <2>3. RunningKnown'
      BY <1>5, JobFacts DEF Ack, tableVars, newsVars, cancelVars, historyVars,
         JInv, TypeOK, OwnersAgree, RunningKnown, Owns
    <2>4. RetriesAgree'
      BY <1>5, JobFacts, RetryFacts, IndexFacts DEF Ack, tableVars, newsVars,
         cancelVars, historyVars, JInv, TypeOK, OwnersAgree, StartsCounted,
         RetriesAgree, Owns
    <2>5. IndexFollowsCollect'
      BY <1>5, JobFacts, RetryFacts, IndexFacts DEF Ack, tableVars, newsVars,
         cancelVars, historyVars, JInv, TypeOK, OwnersAgree,
         IndexFollowsCollect, Owns
    <2>6. /\ StartsCounted' /\ CancelsAgree' /\ ArticlesHaveIndexJob'
      BY <1>5 DEF Ack, tableVars, newsVars, cancelVars, historyVars, JInv,
         StartsCounted, CancelsAgree, ArticlesHaveIndexJob
    <2> QED BY <2>1, <2>2, <2>3, <2>4, <2>5, <2>6 DEF JInv
  <1>6. ASSUME NEW w \in Workers, WorkerCrash(w)
        PROVE  JInv'
    <2>1. TypeOK'
      BY <1>6, ConstantsAssumption, JobFacts DEF WorkerCrash, Fault, Owns, newsVars,
         cancelVars, JInv, TypeOK, Statuses, Terminal, TaskStates,
         CancelStates, Answers, OwnersAgree
    <2>2. OwnersAgree'
      BY <1>6, JobFacts DEF WorkerCrash, Fault, Owns, newsVars, cancelVars, JInv,
         TypeOK, OwnersAgree
    <2>3. RunningKnown'
      BY <1>6, JobFacts DEF WorkerCrash, Fault, Owns, newsVars, cancelVars, JInv,
         TypeOK, OwnersAgree, RunningKnown
    <2>4. RetriesAgree'
      BY <1>6, JobFacts, RetryFacts, IndexFacts DEF WorkerCrash, Fault, Owns,
         newsVars, cancelVars, JInv, TypeOK, OwnersAgree, StartsCounted,
         RetriesAgree
    <2>5. IndexFollowsCollect'
      BY <1>6, JobFacts, RetryFacts, IndexFacts DEF WorkerCrash, Fault, Owns,
         newsVars, cancelVars, JInv, TypeOK, OwnersAgree, IndexFollowsCollect
    <2>6. /\ StartsCounted' /\ CancelsAgree' /\ ArticlesHaveIndexJob'
      BY <1>6 DEF WorkerCrash, Fault, Owns, newsVars, cancelVars, JInv, StartsCounted,
         CancelsAgree, ArticlesHaveIndexJob
    <2> QED BY <2>1, <2>2, <2>3, <2>4, <2>5, <2>6 DEF JInv
  <1>7. ASSUME NEW w \in Workers, DatabaseError(w)
        PROVE  JInv'
    <2>0. job[w] \in Jobs
      BY <1>7 DEF DatabaseError, JInv, TypeOK, OwnersAgree
    <2>1. TypeOK'
      <3>1. status' \in [Jobs -> Statuses] /\ orphaned' \in SUBSET Jobs
        BY <1>7, <2>0 DEF DatabaseError, SetStatus, JInv, TypeOK, Statuses, Terminal
      <3>2. task' \in [Workers -> TaskStates] /\ faultsLeft' \in 0..MaxFaults
        BY <1>7, ConstantsAssumption
           DEF DatabaseError, Fault, JInv, TypeOK, TaskStates
      <3> QED BY <1>7, <3>1, <3>2
              DEF DatabaseError, JInv, TypeOK, newsVars, cancelVars
    <2>2. OwnersAgree'
      BY <1>7, <2>0 DEF DatabaseError, SetStatus, CanTransition, newsVars,
         cancelVars, JInv, TypeOK, OwnersAgree, Owns
    <2>3. StartsCounted'
      BY <1>7, <2>0 DEF DatabaseError, SetStatus, CanTransition, newsVars,
         cancelVars, JInv, TypeOK, OwnersAgree, StartsCounted
    <2>4. RunningKnown'
      BY <1>7, <2>0 DEF DatabaseError, SetStatus, CanTransition, newsVars,
         cancelVars, JInv, TypeOK, OwnersAgree, RunningKnown, Owns
    <2>5. CancelsAgree'
      BY <1>7, <2>0 DEF DatabaseError, SetStatus, CanTransition, newsVars,
         cancelVars, JInv, TypeOK, OwnersAgree, CancelsAgree
    <2>6. RetriesAgree'
      BY <1>7, <2>0, JobFacts, RetryFacts DEF DatabaseError, SetStatus,
         CanTransition, newsVars, cancelVars, JInv, TypeOK, OwnersAgree,
         RetriesAgree, Owns
    <2>7. IndexFollowsCollect'
      BY <1>7, <2>0, JobFacts, IndexFacts DEF DatabaseError, SetStatus,
         CanTransition, newsVars, cancelVars, JInv, TypeOK, OwnersAgree,
         IndexFollowsCollect, Owns
    <2>8. ArticlesHaveIndexJob'
      BY <1>7, <2>0, JobFacts DEF DatabaseError, SetStatus, CanTransition,
         newsVars, cancelVars, JInv, TypeOK, ArticlesHaveIndexJob
    <2> QED BY <2>1, <2>2, <2>3, <2>4, <2>5, <2>6, <2>7, <2>8 DEF JInv
  <1> QED BY <1>1, <1>2, <1>3, <1>4, <1>5, <1>6, <1>7,
             HandlerPreserves, RetryPreserves DEF WorkerStep, WorkerFault

\* JInv holds in every reachable state of the job system.
THEOREM Inductive == Spec => []JInv
  <1>1. Init => JInv
    <2> SUFFICES ASSUME Init PROVE JInv OBVIOUS
    <2>1. TypeOK
      BY ConstantsAssumption DEF Init, TypeOK, Statuses, TaskStates, CancelStates
    <2>2. OwnersAgree /\ StartsCounted /\ RunningKnown /\ CancelsAgree
      BY DEF Init, OwnersAgree, Owns, StartsCounted, RunningKnown, CancelsAgree
    <2>3. RetriesAgree
      BY JobFacts, RetryFacts DEF Init, RetriesAgree
    <2>4. IndexFollowsCollect /\ ArticlesHaveIndexJob
      BY JobFacts, IndexFacts DEF Init, IndexFollowsCollect, ArticlesHaveIndexJob
    <2> QED BY <2>1, <2>2, <2>3, <2>4 DEF JInv
  <1>2. JInv /\ [Next]_vars => JInv'
    <2> SUFFICES ASSUME JInv, [Next]_vars PROVE JInv' OBVIOUS
    <2>1. CASE UNCHANGED vars
      BY <2>1 DEF vars, tableVars, newsVars, taskVars, cancelVars, historyVars,
         JInv, TypeOK, OwnersAgree, Owns, StartsCounted, RunningKnown, CancelsAgree,
         RetriesAgree, IndexFollowsCollect, ArticlesHaveIndexJob
    <2>2. CASE Next
      BY <2>2, EndpointPreserves, WorkerPreserves DEF Next
    <2> QED BY <2>1, <2>2
  <1> QED BY <1>1, <1>2, PTL DEF Spec

\* Every variable of the job system keeps its type.
THEOREM TypeCorrect == Spec => []TypeOK
  <1>1. JInv => TypeOK BY DEF JInv
  <1> QED BY <1>1, Inductive, PTL

\* The handler of a job is called at most once, for any number of workers,
\* deliveries and crashes.
THEOREM AtMostOneStart == Spec => []HandlerStartsOnce
  <1>1. JInv => HandlerStartsOnce
    BY DEF JInv, StartsCounted, HandlerStartsOnce
  <1> QED BY <1>1, Inductive, PTL

\* A worker that finishes its handler finds the row still running.
THEOREM NoLostCompletion == Spec => []CompletionNeverLost
  <1>1. JInv => CompletionNeverLost
    BY DEF JInv, OwnersAgree, CompletionNeverLost
  <1> QED BY <1>1, Inductive, PTL

\* A running row has one worker, or lost it to a crash or a database error.
THEOREM RunningIsOwned == Spec => []RunningHasOwner
  <1>1. JInv => RunningHasOwner
    BY DEF JInv, OwnersAgree, RunningKnown, RunningHasOwner
  <1> QED BY <1>1, Inductive, PTL

\* What the cancel endpoint answers stays true of the job.
THEOREM CancelSound == Spec => []CancelAnswersTruthful
  <1>1. JInv => CancelAnswersTruthful
    BY DEF JInv, TypeOK, CancelsAgree, StartsCounted, CancelAnswersTruthful
  <1> QED BY <1>1, Inductive, PTL

\* Retry rows and transient failures match, up to the retry limit and to retry
\* requests that raise, whatever crashes between the two transactions.
THEOREM RetriesSound == Spec => []RetryFollowsFailure
  <1>1. JInv => RetryFollowsFailure
    BY DEF JInv, RetriesAgree, RetryFollowsFailure
  <1> QED BY <1>1, Inductive, PTL

\* No crash leaves a stored article without an index job.
THEOREM ArticlesIndexed == Spec => []ArticlesHaveIndexJob
  <1>1. JInv => ArticlesHaveIndexJob BY DEF JInv
  <1> QED BY <1>1, Inductive, PTL

\* No step of any endpoint, worker or fault changes a terminal status.
THEOREM TerminalStable == Spec => TerminalIsFinal
  <1>1. ASSUME JInv, [Next]_vars, NEW j \in Jobs, status[j] \in Terminal
        PROVE  status'[j] = status[j]
    <2> USE <1>1 DEF Terminal
    <2>1. CASE UNCHANGED vars BY <2>1 DEF vars, tableVars
    <2>2. ASSUME NEW k \in Triggers, Trigger(k)
          PROVE  status'[j] = status[j]
      BY <2>2 DEF Trigger, Request, JInv, TypeOK
    <2>3. ASSUME NEW c \in Cancellers, CancelStep(c)
          PROVE  status'[j] = status[j]
      BY <2>3 DEF CancelStep, CancelRead, CancelUpdate, CancelReread, CanTransition,
         SetStatus, tableVars, JInv, TypeOK
    <2>4. ASSUME NEW w \in Workers, HandlerStep(w)
          PROVE  status'[j] = status[j]
      BY <2>4 DEF HandlerStep, TransientError, PermanentError, CollectNews, IndexNews,
         RunOther, RequestRetry, RetryRow, Request, tableVars, JInv, TypeOK
    <2>5. ASSUME NEW w \in Workers,
                 Claim(w) \/ MarkFailed(w) \/ MarkSucceeded(w) \/ DatabaseError(w)
          PROVE  status'[j] = status[j]
      BY <2>5 DEF Claim, MarkFailed, MarkSucceeded, DatabaseError, CanTransition,
         SetStatus, JInv, TypeOK
    <2>6. ASSUME NEW w \in Workers,
                 \/ \E k \in Jobs : Receive(w, k)
                 \/ Ack(w) \/ WorkerCrash(w)
          PROVE  status'[j] = status[j]
      BY <2>6 DEF Receive, Ack, WorkerCrash, tableVars
    <2>7. ASSUME NEW k \in Jobs, Redeliver(k)
          PROVE  status'[j] = status[j]
      BY <2>7 DEF Redeliver
    <2>8. ASSUME NEW w \in Workers, RetryRequestFails(w)
          PROVE  status'[j] = status[j]
      BY <2>8 DEF RetryRequestFails, RetryRow, Request, tableVars, JInv, TypeOK
    <2> QED BY <2>1, <2>2, <2>3, <2>4, <2>5, <2>6, <2>7, <2>8
            DEF Next, WorkerStep, WorkerFault
  <1>2. JInv /\ [Next]_vars
          => [\A j \in Jobs : status[j] \in Terminal => status'[j] = status[j]]_vars
    BY <1>1
  <1> QED BY <1>2, Inductive, PTL DEF Spec, TerminalIsFinal

-----------------------------------------------------------------------------
(* The life of a job *)

Lifecycle == INSTANCE JobLifecycle WITH Absent <- "absent"

ImplementsLifecycle == Lifecycle!Spec

\* INSERT ... ON CONFLICT DO NOTHING makes a row or leaves the table.
LEMMA RequestMoves ==
  ASSUME NEW j \in Jobs, NEW k, Request(j, k)
  PROVE  Lifecycle!Next \/ UNCHANGED status
  BY DEF Request, Lifecycle!Next, Lifecycle!Request, Lifecycle!Move

\* The table implements JobLifecycle: of all that endpoints, workers, handlers
\* and faults do, in any interleaving, each step moves one job at most, along the
\* life of a job and never back.
THEOREM LifecycleKept == Spec => ImplementsLifecycle
  <1> USE DEF Lifecycle!Next, Lifecycle!Move
  <1>1. Init => Lifecycle!Init
    BY DEF Init, Lifecycle!Init
  <1>2. ASSUME JInv, [Next]_vars
        PROVE  [Lifecycle!Next]_status
    <2>1. CASE UNCHANGED vars
      BY <2>1 DEF vars, tableVars
    <2>2. ASSUME NEW j \in Triggers, Trigger(j)
          PROVE  Lifecycle!Next \/ UNCHANGED status
      <3>1. j \in Jobs /\ Request(j, {})
        BY <2>2, ConstantsAssumption DEF Trigger, Jobs
      <3> QED BY <3>1, RequestMoves
    <2>3. ASSUME NEW c \in Cancellers, CancelStep(c)
          PROVE  Lifecycle!Next \/ UNCHANGED status
      <3>1. ASSUME CancelUpdate(c)
            PROVE  Lifecycle!Next \/ UNCHANGED status
        <4>1. target[c] \in Jobs
          BY <1>2, <3>1 DEF CancelUpdate, JInv, CancelsAgree
        <4> QED BY <3>1, <4>1 DEF CancelUpdate, CanTransition, SetStatus,
                Lifecycle!Cancel
      <3> QED BY <2>3, <3>1 DEF CancelStep, CancelRead, CancelReread, tableVars
    <2>4. ASSUME NEW w \in Workers, task[w] # "idle"
          PROVE  job[w] \in Jobs
      BY <1>2, <2>4 DEF JInv, TypeOK, OwnersAgree
    <2>5. ASSUME NEW w \in Workers,
                 Claim(w) \/ MarkFailed(w) \/ MarkSucceeded(w) \/ DatabaseError(w)
          PROVE  Lifecycle!Next \/ UNCHANGED status
      <3>1. job[w] \in Jobs
        BY <2>4, <2>5 DEF Claim, MarkFailed, MarkSucceeded, DatabaseError
      <3> QED BY <2>5, <3>1 DEF Claim, MarkFailed, MarkSucceeded, DatabaseError,
              CanTransition, SetStatus, Lifecycle!Claim, Lifecycle!Finish
    <2>6. ASSUME NEW w \in Workers, HandlerStep(w) \/ RetryRequestFails(w)
          PROVE  Lifecycle!Next \/ UNCHANGED status
      <3>1. job[w] \in Jobs
        BY <2>4, <2>6 DEF HandlerStep, TransientError, RequestRetry, RetryRequestFails,
           PermanentError, CollectNews, IndexNews, RunOther
      <3>2. ASSUME RetryRow(job[w]), task[w] = "retrying"
            PROVE  Lifecycle!Next \/ UNCHANGED status
        <4>1. job[w] \in CollectJobs \cup IndexJobs
          BY <1>2, <3>2 DEF JInv, OwnersAgree
        <4>2. CASE HasRetry(job[w])
          <5>1. Retry(job[w]) \in Jobs
            BY <4>1, <4>2, RetryFacts DEF HasRetry, Jobs
          <5>2. Request(Retry(job[w]), keys[job[w]])
            BY <3>2, <4>2 DEF RetryRow
          <5> QED BY <5>1, <5>2, RequestMoves
        <4>3. CASE ~HasRetry(job[w])
          BY <3>2, <4>3 DEF RetryRow, tableVars
        <4> QED BY <4>2, <4>3
      <3>3. ASSUME CollectNews(w)
            PROVE  Lifecycle!Next \/ UNCHANGED status
        <4>1. job[w] \in CollectJobs
          BY <3>1, <3>3, JobFacts DEF CollectNews
        <4>2. IndexJob(job[w]) \in Jobs
          BY <4>1, IndexFacts DEF Jobs
        <4>3. UNCHANGED tableVars \/ \E k : Request(IndexJob(job[w]), k)
          BY <3>3 DEF CollectNews
        <4> QED BY <4>2, <4>3, RequestMoves DEF tableVars
      <3> QED BY <2>6, <3>2, <3>3 DEF HandlerStep, TransientError, RequestRetry,
              RetryRequestFails, PermanentError, IndexNews, RunOther, tableVars
    <2>7. ASSUME NEW w \in Workers,
                 \/ \E j \in Jobs : Receive(w, j)
                 \/ Ack(w) \/ WorkerCrash(w)
          PROVE  UNCHANGED status
      BY <2>7 DEF Receive, Ack, WorkerCrash, tableVars
    <2>8. ASSUME NEW j \in Jobs, Redeliver(j)
          PROVE  UNCHANGED status
      BY <2>8 DEF Redeliver
    <2>9. Lifecycle!Next \/ UNCHANGED status
      BY <1>2, <2>1, <2>2, <2>3, <2>5, <2>6, <2>7, <2>8
         DEF Next, WorkerStep, WorkerFault
    <2> QED BY <2>9
  <1> QED
    BY <1>1, <1>2, Inductive, PTL DEF Spec, ImplementsLifecycle, Lifecycle!Spec
=============================================================================

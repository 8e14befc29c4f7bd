-------------------------- MODULE AccountApiProofs --------------------------
(***************************************************************************)
(* AInv is an inductive invariant of AccountApi, in three parts that       *)
(* follow its modules: the replay records (RInv), the reads from KIS       *)
(* (LInv) and the snapshot that captures share (SInv).                     *)
(***************************************************************************)
EXTENDS AccountApi, TLAPS, FiniteSetTheorems, SequenceTheorems

-----------------------------------------------------------------------------
(* The replay records *)

\* A request at work knows what it was asked.
RequestKept ==
  \A r \in Requests :
    stage[r] \in Working \cup {"taken", "aborting", "done", "replayed"} => req[r] # None

\* Whoever executes, or was answered from its execution, owns the record.
ClaimKept ==
  \A r \in Requests :
    stage[r] \in Working \cup {"done"} /\ req[r].key \notin dropped => Owns(r)

\* The record a request owns is about that request.
ClaimMatches ==
  \A r \in Requests :
    stage[r] \in Working \cup {"aborting"} /\ Owns(r)
      => record[req[r].key].fingerprint = Fingerprint(req[r])

\* Whoever executes has made a claim.
WorkersClaimed == \A r \in Requests : stage[r] \in Working => req[r] \in claims

\* The call c has claimed the key k, with the fingerprint of its record, and the
\* record holds the row that c asked for.
RecordOf(k, c) ==
  /\ c.key = k /\ Fingerprint(c) = record[k].fingerprint
  /\ record[k].body = Asked(c)

\* A completed record answers what a call that claimed its key asked for.
RecordsFaithful ==
  \A k \in Keys :
    record[k] # None /\ record[k].status = "completed" =>
      \E c \in claims : RecordOf(k, c)

RInv ==
  /\ ReplayTypeOK
  /\ RequestKept
  /\ WorkersClaimed
  /\ ClaimKept
  /\ ClaimMatches
  /\ RecordsFaithful
  /\ AnswersMatchRequest

-----------------------------------------------------------------------------
(* The reads from KIS *)

\* A read starts with no page.
NoPageYet ==
  \A p \in Readers : pc[p] \in {"idle", "find", "cached", "token"} => pages[p] = <<>>

\* There is room for the page that is asked for.
RoomForPage ==
  \A p \in Readers : pc[p] = "request" =>
    Len(pages[p]) < MaxPages /\ (what[p] # "holdings" => pages[p] = <<>>)

\* What is about to be cached is whole.
WritesWhole == \A p \in Readers : pc[p] = "write" => WholeList(what[p], pages[p])

LInv ==
  /\ ReadsTypeOK
  /\ NoPageYet
  /\ RoomForPage
  /\ WritesWhole
  /\ ListsWhole

-----------------------------------------------------------------------------
(* The snapshot *)

Done(p) == route[p] = "capture" /\ pc[p] = "done"

StoreTypeOK ==
  /\ route \in [Readers -> Routes]
  /\ snapshot \in Snapshots \cup {None}
  /\ positions \subseteq Codes
  /\ told \in [Readers -> Captures \cup {None}]
  /\ merged \in [Readers -> {"none", "insert", "update"}]
  /\ overwritten \in BOOLEAN
  /\ prices \subseteq Readers
  /\ candles \in Lists

\* A capture commits what its merge has chosen.
MergeChosen ==
  \A p \in Readers :
    pc[p] = "commit" /\ route[p] = "capture" => merged[p] \in {"insert", "update"}

\* Without a snapshot there is nothing of it.
NothingBefore ==
  snapshot = None =>
    positions = {} /\ captured = 0 /\ \A p \in Readers : ~Done(p)

\* Every event comes from a capture that is done.
EventsCounted == captured \in Nat /\ captured <= Cardinality({p \in Readers : Done(p)})

SInv ==
  /\ StoreTypeOK
  /\ MergeChosen
  /\ NothingBefore
  /\ EventsCounted
  /\ SnapshotsConsistent

AInv == RInv /\ LInv /\ SInv /\ faultsLeft \in 0..MaxFaults

-----------------------------------------------------------------------------
(* The proofs for the replay records *)

\* What is known of a request.
LEMMA CallFacts ==
  ASSUME NEW c \in Calls
  PROVE  /\ c.key \in Keys /\ c.user \in Users /\ c.table \in Tables
         /\ c.body \in Bodies[c.table] /\ c.body \in Values
         /\ c # None
         /\ Asked(c) \in Rows
         /\ Fingerprint(c) \in Tables \X (Values \cup {None})
  <1>1. /\ c.key \in Keys /\ c.user \in Users /\ c.table \in Tables
        /\ c.body \in Bodies[c.table] /\ c.body \in Values
    BY DEF Calls, Values
  <1>2. c # None
    BY BodiesAssumption
  <1> QED BY <1>1, <1>2 DEF Asked, Rows, Fingerprint

\* The completing script changes the record of its owner, and of that record
\* the status and the body.
LEMMA CompletedFacts ==
  ASSUME RInv, NEW r \in Requests, stage[r] = "executed"
  PROVE  /\ Completed(r) \in [Keys -> ReplayRecord \cup {None}]
         /\ \A k \in Keys :
              /\ Completed(r)[k] = None <=> record[k] = None
              /\ record[k] # None => /\ Completed(r)[k].token = record[k].token
                                     /\ Completed(r)[k].fingerprint = record[k].fingerprint
              /\ \/ Completed(r)[k] = record[k]
                 \/ k = req[r].key /\ Owns(r) /\ Completed(r)[k].body = Asked(req[r])
  <1>1. req[r] \in Calls /\ req[r].key \in Keys /\ Asked(req[r]) \in Rows
    BY CallFacts DEF RInv, ReplayTypeOK, RequestKept, Working
  <1>2. CASE ~Owns(r)
    BY <1>2 DEF Completed, RInv, ReplayTypeOK
  <1>3. CASE Owns(r)
    <2> DEFINE old == record[req[r].key]
               new == [old EXCEPT !.status = "completed", !.body = Asked(req[r])]
    <2>1. old \in ReplayRecord
      BY <1>1, <1>3 DEF Owns, RInv, ReplayTypeOK
    <2>2. /\ new \in ReplayRecord /\ new # None
          /\ new.token = old.token /\ new.fingerprint = old.fingerprint
          /\ new.body = Asked(req[r])
      BY <1>1, <2>1, BodiesAssumption DEF ReplayRecord
    <2>3. Completed(r) = [record EXCEPT ![req[r].key] = new]
      BY <1>1, <1>3, <2>1 DEF Completed, RInv, ReplayTypeOK
    <2> HIDE DEF new
    <2> QED BY <1>1, <1>3, <2>1, <2>2, <2>3 DEF RInv, ReplayTypeOK, Owns
  <1> QED BY <1>2, <1>3

\* The steps of a handler, and its failures, only move the request on: records,
\* answers and claims stay.
LEMMA MovePreserves ==
  ASSUME RInv, ReplayTypeOK', NEW r \in Requests, stage[r] \in Working,
         NEW s \in Working \cup {"aborting"}, Goto(r, s),
         UNCHANGED <<record, req, answer, dropped, claims>>
  PROVE  RInv'
  <1>1. /\ stage'[r] = s /\ \A q \in Requests \ {r} : stage'[q] = stage[q]
        /\ stage'[r] \notin {"done", "replayed", "taken"}
        /\ \A q \in Requests : Owns(q)' <=> Owns(q)
    BY DEF Goto, Owns, Working, RInv, ReplayTypeOK
  <1>2. RequestKept' /\ WorkersClaimed'
    BY <1>1 DEF RInv, RequestKept, WorkersClaimed
  <1>3. ClaimKept'
    BY <1>1 DEF RInv, ClaimKept
  <1>4. ClaimMatches'
    BY <1>1 DEF RInv, ClaimMatches
  <1>5. RecordsFaithful'
    BY DEF RInv, RecordsFaithful, RecordOf
  <1>6. AnswersMatchRequest'
    BY <1>1 DEF RInv, AnswersMatchRequest, AnsweredForAnother
  <1> QED BY <1>2, <1>3, <1>4, <1>5, <1>6 DEF RInv

\* Every step of a request, every failure and every lost record keep RInv.
LEMMA ReplayPreserves ==
  ASSUME RInv,
         \/ \E r \in Requests : Arrive(r) \/ Progress(r) \/ RequestFault(r)
         \/ \E k \in Keys : DropRecord(k)
         \/ UNCHANGED replayVars
  PROVE  RInv'
  <1>1. ASSUME NEW r \in Requests, NEW c \in Calls, Claim(r, c)
        PROVE  RInv'
    <2> DEFINE k == c.key
    <2>1. Pending(r, c) \in ReplayRecord /\ Pending(r, c) # None
      BY CallFacts, BodiesAssumption DEF Pending, ReplayRecord
    <2>2. /\ req' = [req EXCEPT ![r] = c] /\ req'[r] = c
          /\ stage'[r] \in {"claimed", "taken"}
          /\ \A q \in Requests \ {r} : req'[q] = req[q] /\ stage'[q] = stage[q]
          /\ UNCHANGED <<dirty, row, answer, dropped>>
      BY <1>1 DEF Claim, Goto, RInv, ReplayTypeOK
    <2>3. \/ /\ record[k] = None /\ record' = [record EXCEPT ![k] = Pending(r, c)]
             /\ claims' = claims \cup {c}
          \/ stage'[r] = "taken" /\ UNCHANGED <<record, claims>>
      BY <1>1 DEF Claim, Goto, RInv, ReplayTypeOK
    <2>4. ReplayTypeOK'
      <3>1. record' \in [Keys -> ReplayRecord \cup {None}] /\ claims' \subseteq Calls
        BY <2>1, <2>3, CallFacts DEF RInv, ReplayTypeOK
      <3>2. stage' \in [Requests -> Stages]
        BY <1>1 DEF Claim, Goto, RInv, ReplayTypeOK, Stages, Working
      <3>3. req' \in [Requests -> Calls \cup {None}]
        BY <2>2 DEF RInv, ReplayTypeOK
      <3> QED BY <3>1, <3>2, <3>3, <2>2 DEF RInv, ReplayTypeOK
    <2>5. RequestKept'
      BY <2>2, CallFacts DEF RInv, RequestKept
    <2>6. WorkersClaimed'
      BY <2>2, <2>3 DEF RInv, WorkersClaimed, Working
    <2>7. ASSUME NEW q \in Requests, q # r, req[q] # None
          PROVE  Owns(q)' <=> Owns(q)
      <3>1. req[q] \in Calls /\ req[q].key \in Keys /\ c.key \in Keys
        BY <2>7, CallFacts DEF RInv, ReplayTypeOK
      <3>2. Pending(r, c).token = r
        BY DEF Pending
      <3> HIDE DEF k
      <3> QED
        <4>1. CASE req[q].key = k /\ record[k] = None
                   /\ record' = [record EXCEPT ![k] = Pending(r, c)]
          BY <4>1, <3>1, <3>2, <2>2, <2>7 DEF Owns, RInv, ReplayTypeOK, k
        <4>2. CASE req[q].key # k /\ record' = [record EXCEPT ![k] = Pending(r, c)]
          BY <4>2, <3>1, <2>2, <2>7 DEF Owns, RInv, ReplayTypeOK
        <4>3. CASE UNCHANGED record
          BY <4>3, <2>2, <2>7 DEF Owns
        <4> QED BY <4>1, <4>2, <4>3, <2>3
    <2>8. stage'[r] \in Working =>
            Owns(r)' /\ record'[k].fingerprint = Fingerprint(c)
      BY <2>1, <2>2, <2>3, CallFacts DEF Owns, Pending, Working, RInv, ReplayTypeOK
    <2>9. ClaimKept'
      BY <2>2, <2>7, <2>8 DEF RInv, ClaimKept, RequestKept, Working
    <2>10. ClaimMatches'
      <3> SUFFICES ASSUME NEW q \in Requests, stage'[q] \in Working \cup {"aborting"},
                          Owns(q)'
                   PROVE  record'[req'[q].key].fingerprint = Fingerprint(req'[q])
        BY DEF ClaimMatches
      <3>1. CASE q = r
        BY <3>1, <2>2, <2>8 DEF Working
      <3>2. CASE q # r
        <4>1. /\ req[q] # None /\ req[q] \in Calls /\ req'[q] = req[q]
              /\ stage'[q] = stage[q] /\ Owns(q)
          BY <3>2, <2>2, <2>7 DEF RInv, RequestKept, ReplayTypeOK
        <4>2. record'[req[q].key] = record[req[q].key]
          BY <4>1, <2>3, CallFacts DEF Owns, RInv, ReplayTypeOK
        <4> QED BY <4>1, <4>2 DEF RInv, ClaimMatches
      <3> QED BY <3>1, <3>2
    <2>11. RecordsFaithful'
      <3> SUFFICES ASSUME NEW l \in Keys, record'[l] # None,
                          record'[l].status = "completed"
                   PROVE  \E d \in claims' : RecordOf(l, d)'
        BY DEF RecordsFaithful
      <3>1. record'[l] = record[l]
        BY <2>3 DEF Pending, RInv, ReplayTypeOK
      <3>2. PICK d \in claims : RecordOf(l, d)
        BY <3>1 DEF RInv, RecordsFaithful
      <3> QED BY <3>1, <3>2, <2>3 DEF RecordOf
    <2>12. AnswersMatchRequest'
      BY <2>2, <2>3 DEF RInv, AnswersMatchRequest, AnsweredForAnother
    <2> QED BY <2>4, <2>5, <2>6, <2>9, <2>10, <2>11, <2>12 DEF RInv
  <1>2. ASSUME NEW r \in Requests, NEW found \in Rows \cup {None}, AnswerRow(r, found)
        PROVE  RInv'
    <2>1. /\ stage'[r] = "read" /\ stage[r] = "idle"
          /\ \A q \in Requests \ {r} : stage'[q] = stage[q] /\ answer'[q] = answer[q]
          /\ UNCHANGED <<record, req, dirty, row, dropped, claims>>
      BY <1>2 DEF AnswerRow, Goto, RInv, ReplayTypeOK
    <2>2. ReplayTypeOK'
      BY <1>2 DEF AnswerRow, Goto, RInv, ReplayTypeOK, Stages, Working
    <2>3. RequestKept' /\ WorkersClaimed'
      BY <2>1 DEF RInv, RequestKept, WorkersClaimed, Working
    <2>4. ClaimKept' /\ ClaimMatches'
      BY <2>1 DEF RInv, ClaimKept, ClaimMatches, Owns, Working
    <2>5. RecordsFaithful'
      BY <2>1 DEF RInv, RecordsFaithful, RecordOf
    <2>6. AnswersMatchRequest'
      BY <2>1 DEF RInv, AnswersMatchRequest, AnsweredForAnother
    <2> QED BY <2>2, <2>3, <2>4, <2>5, <2>6 DEF RInv
  <1>3. ASSUME NEW r \in Requests, Inspect(r)
        PROVE  RInv'
    <2> DEFINE k == req[r].key
    <2>1. /\ stage[r] = "taken" /\ req[r] \in Calls /\ k \in Keys
          /\ record[k] \in ReplayRecord \cup {None}
          /\ UNCHANGED <<record, dirty, row, dropped, claims>>
      BY <1>3, CallFacts DEF Inspect, RInv, ReplayTypeOK, RequestKept
    <2>2. \/ /\ record[k] # None /\ record[k].fingerprint = Fingerprint(req[r])
             /\ record[k].status = "completed" /\ Goto(r, "replayed")
             /\ answer' = [answer EXCEPT ![r] = record[k].body] /\ req' = req
          \/ End(r, "refused") /\ UNCHANGED answer
      BY <1>3 DEF Inspect
    <2>3. /\ stage'[r] \in {"replayed", "refused"}
          /\ stage'[r] = "replayed" => req'[r] = req[r]
          /\ \A q \in Requests \ {r} :
               stage'[q] = stage[q] /\ req'[q] = req[q] /\ answer'[q] = answer[q]
      BY <2>2 DEF End, Goto, RInv, ReplayTypeOK
    <2>4. ReplayTypeOK'
      <3>1. stage' \in [Requests -> Stages] /\ req' \in [Requests -> Calls \cup {None}]
        BY <2>2 DEF End, Goto, RInv, ReplayTypeOK, Stages
      <3>2. answer' \in [Requests -> Rows \cup {None}]
        BY <2>1, <2>2 DEF RInv, ReplayTypeOK, ReplayRecord
      <3> QED BY <3>1, <3>2, <2>1 DEF RInv, ReplayTypeOK
    <2>5. RequestKept' /\ WorkersClaimed'
      BY <2>1, <2>3, CallFacts DEF RInv, RequestKept, WorkersClaimed, Working
    <2>6. ClaimKept' /\ ClaimMatches'
      BY <2>1, <2>3 DEF RInv, ClaimKept, ClaimMatches, Owns, Working
    <2>7. RecordsFaithful'
      BY <2>1 DEF RInv, RecordsFaithful, RecordOf
    <2>8. AnswersMatchRequest'
      <3> SUFFICES ASSUME NEW q \in Requests, stage'[q] \in {"done", "replayed"}
                   PROVE  answer'[q] = Asked(req'[q]) \/ AnsweredForAnother(q)'
        BY DEF AnswersMatchRequest
      <3>1. CASE q # r
        BY <3>1, <2>1, <2>3 DEF RInv, AnswersMatchRequest, AnsweredForAnother
      <3>2. CASE q = r
        <4>1. /\ record[k] # None /\ record[k].fingerprint = Fingerprint(req[r])
              /\ record[k].status = "completed" /\ stage'[r] = "replayed"
              /\ answer'[r] = record[k].body /\ req'[r] = req[r]
          BY <3>2, <2>2, <2>3 DEF End, Goto, RInv, ReplayTypeOK
        <4>2. PICK c \in claims : RecordOf(k, c)
          BY <4>1, <2>1 DEF RInv, RecordsFaithful
        <4>3. c.key = k /\ Fingerprint(c) = Fingerprint(req[r]) /\ answer'[r] = Asked(c)
          BY <4>1, <4>2 DEF RecordOf
        <4>4. CASE c = req[r]
          BY <3>2, <4>1, <4>3, <4>4
        <4>5. CASE c # req[r]
          BY <3>2, <4>1, <4>3, <4>5, <2>1 DEF AnsweredForAnother
        <4> QED BY <4>4, <4>5
      <3> QED BY <3>1, <3>2
    <2> QED BY <2>4, <2>5, <2>6, <2>7, <2>8 DEF RInv
  <1>4. ASSUME NEW r \in Requests, stage[r] = "executed",
               record' \in {record, Completed(r)},
               NEW s \in {"done", "aborting"}, Goto(r, s),
               s = "done" => answer' = [answer EXCEPT ![r] = Asked(req[r])],
               s # "done" => UNCHANGED answer,
               UNCHANGED <<req, dirty, row, dropped, claims>>
        PROVE  RInv'
    <2>1. /\ req[r] \in Calls /\ req[r] \in claims /\ req[r].key \in Keys
          /\ Asked(req[r]) \in Rows
      BY <1>4, CallFacts DEF RInv, ReplayTypeOK, RequestKept, WorkersClaimed, Working
    <2>2. /\ stage'[r] = s
          /\ \A q \in Requests \ {r} : stage'[q] = stage[q] /\ answer'[q] = answer[q]
      BY <1>4 DEF Goto, RInv, ReplayTypeOK
    <2>3. /\ record' \in [Keys -> ReplayRecord \cup {None}]
          /\ \A k \in Keys :
               /\ record'[k] = None <=> record[k] = None
               /\ record[k] # None => /\ record'[k].token = record[k].token
                                      /\ record'[k].fingerprint = record[k].fingerprint
               /\ \/ record'[k] = record[k]
                  \/ k = req[r].key /\ Owns(r) /\ record'[k].body = Asked(req[r])
      BY <1>4, CompletedFacts DEF RInv, ReplayTypeOK
    <2>4. ReplayTypeOK'
      <3>1. stage' \in [Requests -> Stages]
        BY <1>4 DEF Goto, RInv, ReplayTypeOK, Stages, Working
      <3>2. answer' \in [Requests -> Rows \cup {None}]
        BY <1>4, <2>1 DEF RInv, ReplayTypeOK
      <3> QED BY <3>1, <3>2, <2>3, <1>4 DEF RInv, ReplayTypeOK
    <2>5. RequestKept' /\ WorkersClaimed'
      BY <1>4, <2>1, <2>2, CallFacts DEF RInv, RequestKept, WorkersClaimed, Working
    <2>6. \A q \in Requests : req[q] # None => (Owns(q)' <=> Owns(q))
      BY <1>4, <2>3, CallFacts DEF Owns, RInv, ReplayTypeOK
    <2>7. ClaimKept'
      BY <1>4, <2>2, <2>6 DEF RInv, ClaimKept, RequestKept, Working
    <2>8. ClaimMatches'
      <3> SUFFICES ASSUME NEW q \in Requests,
                          stage'[q] \in Working \cup {"aborting"}, Owns(q)'
                   PROVE  record'[req[q].key].fingerprint = Fingerprint(req[q])
        BY <1>4 DEF ClaimMatches
      <3>1. /\ stage[q] \in Working \cup {"aborting"} /\ req[q] # None
            /\ req[q].key \in Keys
        BY <1>4, <2>2, CallFacts DEF RInv, ReplayTypeOK, RequestKept, Working
      <3>2. Owns(q) /\ record[req[q].key] # None
        BY <3>1, <2>6 DEF Owns
      <3> QED BY <3>1, <3>2, <2>3 DEF RInv, ClaimMatches
    <2>9. RecordsFaithful'
      <3> SUFFICES ASSUME NEW k \in Keys, record'[k] # None,
                          record'[k].status = "completed"
                   PROVE  \E c \in claims' : RecordOf(k, c)'
        BY DEF RecordsFaithful
      <3>1. CASE record'[k] = record[k]
        <4>1. PICK c \in claims : RecordOf(k, c)
          BY <3>1 DEF RInv, RecordsFaithful
        <4> QED BY <3>1, <4>1, <1>4 DEF RecordOf
      <3>2. CASE k = req[r].key /\ Owns(r) /\ record'[k].body = Asked(req[r])
        <4>1. record'[k].fingerprint = Fingerprint(req[r])
          BY <3>2, <2>3, <1>4 DEF RInv, ClaimMatches, Owns, Working
        <4>2. RecordOf(k, req[r])'
          BY <3>2, <4>1, <1>4 DEF RecordOf
        <4> QED BY <4>2, <2>1, <1>4
      <3> QED BY <3>1, <3>2, <2>3
    <2>10. AnswersMatchRequest'
      <3> SUFFICES ASSUME NEW q \in Requests, stage'[q] \in {"done", "replayed"}
                   PROVE  answer'[q] = Asked(req'[q]) \/ AnsweredForAnother(q)'
        BY DEF AnswersMatchRequest
      <3>1. CASE q # r
        BY <3>1, <1>4, <2>2 DEF RInv, AnswersMatchRequest, AnsweredForAnother
      <3>2. CASE q = r
        BY <3>2, <1>4, <2>2 DEF RInv, ReplayTypeOK
      <3> QED BY <3>1, <3>2
    <2> QED BY <2>4, <2>5, <2>7, <2>8, <2>9, <2>10 DEF RInv
  <1>5. ASSUME NEW r \in Requests, Complete(r)
        PROVE  RInv'
    BY <1>4, <1>5 DEF Complete
  <1>6. ASSUME NEW r \in Requests, CompleteFails(r)
        PROVE  RInv'
    BY <1>4, <1>6 DEF CompleteFails
  <1>7. ASSUME NEW r \in Requests, End(r, "failed"),
               stage[r] \in Working \cup {"aborting"},
               \/ UNCHANGED record
               \/ Owns(r) /\ record' = [record EXCEPT ![req[r].key] = None],
               dirty' \in [Requests -> {"none", "insert", "update"}],
               UNCHANGED <<row, answer, dropped, claims>>
        PROVE  RInv'
    <2>1. /\ stage'[r] = "failed"
          /\ \A q \in Requests \ {r} : stage'[q] = stage[q] /\ req'[q] = req[q]
      BY <1>7 DEF End, Goto, RInv, ReplayTypeOK
    <2>2. req[r] \in Calls /\ req[r].key \in Keys
      BY <1>7, CallFacts DEF RInv, ReplayTypeOK, RequestKept
    <2>3. \A k \in Keys : record'[k] # None => record'[k] = record[k]
      BY <1>7, <2>2 DEF RInv, ReplayTypeOK
    <2>4. \A q \in Requests \ {r} : req[q] # None => (Owns(q)' <=> Owns(q))
      BY <1>7, <2>1, <2>2, CallFacts DEF Owns, RInv, ReplayTypeOK
    <2>5. ReplayTypeOK'
      <3>1. stage' \in [Requests -> Stages] /\ req' \in [Requests -> Calls \cup {None}]
        BY <1>7 DEF End, Goto, RInv, ReplayTypeOK, Stages
      <3>2. record' \in [Keys -> ReplayRecord \cup {None}]
        BY <1>7 DEF RInv, ReplayTypeOK
      <3> QED BY <3>1, <3>2, <1>7 DEF RInv, ReplayTypeOK
    <2>6. RequestKept' /\ WorkersClaimed'
      BY <1>7, <2>1 DEF RInv, RequestKept, WorkersClaimed, Working
    <2>7. ClaimKept'
      BY <1>7, <2>1, <2>4 DEF RInv, ClaimKept, RequestKept, Working
    <2>8. ClaimMatches'
      <3> SUFFICES ASSUME NEW q \in Requests,
                          stage'[q] \in Working \cup {"aborting"}, Owns(q)'
                   PROVE  record'[req'[q].key].fingerprint = Fingerprint(req'[q])
        BY DEF ClaimMatches
      <3>1. /\ q # r /\ stage[q] = stage'[q] /\ req'[q] = req[q] /\ req[q] # None
            /\ req[q].key \in Keys
        BY <2>1, CallFacts DEF RInv, ReplayTypeOK, RequestKept, Working
      <3>2. Owns(q) /\ record'[req[q].key] = record[req[q].key]
        BY <3>1, <2>3, <2>4 DEF Owns
      <3> QED BY <3>1, <3>2 DEF RInv, ClaimMatches
    <2>9. RecordsFaithful'
      BY <1>7, <2>3 DEF RInv, RecordsFaithful, RecordOf
    <2>10. AnswersMatchRequest'
      BY <1>7, <2>1 DEF RInv, AnswersMatchRequest, AnsweredForAnother
    <2> QED BY <2>5, <2>6, <2>7, <2>8, <2>9, <2>10 DEF RInv
  <1>8. ASSUME NEW r \in Requests, Abort(r) \/ Dies(r)
        PROVE  RInv'
    <2>1. CASE Abort(r)
      BY <1>7, <2>1 DEF Abort, RInv, ReplayTypeOK
    <2>2. CASE Dies(r)
      BY <1>7, <2>2 DEF Dies, RInv, ReplayTypeOK
    <2> QED BY <1>8, <2>1, <2>2
  <1>9. ASSUME NEW r \in Requests,
               FindRow(r) \/ MergeRow(r) \/ HandlerFails(r) \/ Forbidden(r)
        PROVE  RInv'
    <2>1. PICK s \in Working \cup {"aborting"} : Goto(r, s)
      BY <1>9 DEF FindRow, MergeRow, HandlerFails, Forbidden, Working
    <2>2. /\ stage[r] \in Working /\ dirty' \in [Requests -> {"none", "insert", "update"}]
          /\ UNCHANGED <<record, req, row, answer, dropped, claims>>
      BY <1>9 DEF FindRow, MergeRow, HandlerFails, Forbidden, Working, RInv, ReplayTypeOK
    <2>3. stage' \in [Requests -> Stages]
      BY <2>1 DEF Goto, RInv, ReplayTypeOK, Stages
    <2>4. ReplayTypeOK'
      BY <2>2, <2>3 DEF RInv, ReplayTypeOK
    <2> QED BY <2>1, <2>2, <2>4, MovePreserves
  <1>10. ASSUME NEW r \in Requests, CommitRow(r)
        PROVE  RInv'
    <2>1. PICK s \in Working \cup {"aborting"} : Goto(r, s)
      BY <1>10 DEF CommitRow, Working
    <2>2. /\ stage[r] \in Working /\ dirty' \in [Requests -> {"none", "insert", "update"}]
          /\ UNCHANGED <<record, req, answer, dropped, claims>>
      BY <1>10 DEF CommitRow, Working, RInv, ReplayTypeOK
    <2>3. stage' \in [Requests -> Stages]
      BY <2>1 DEF Goto, RInv, ReplayTypeOK, Stages
    <2>4. req[r] \in Calls
      BY <2>2 DEF RInv, ReplayTypeOK, RequestKept
    <2>5. row' \in [Users -> [Tables -> Rows \cup {None}]]
      <3>1. /\ req[r].user \in Users /\ req[r].table \in Tables
            /\ Asked(req[r]) \in Rows
        BY <2>4, CallFacts
      <3>2. \/ row' = row
            \/ row' = [row EXCEPT ![req[r].user][req[r].table] = Asked(req[r])]
        BY <1>10 DEF CommitRow
      <3> QED BY <3>1, <3>2 DEF RInv, ReplayTypeOK
    <2>6. ReplayTypeOK'
      BY <2>2, <2>3, <2>5 DEF RInv, ReplayTypeOK
    <2> QED BY <2>1, <2>2, <2>6, MovePreserves
  <1>11. ASSUME NEW k \in Keys, DropRecord(k)
        PROVE  RInv'
    <2>1. /\ record' = [record EXCEPT ![k] = None] /\ dropped' = dropped \cup {k}
          /\ UNCHANGED <<stage, req, dirty, row, answer, claims>>
      BY <1>11 DEF DropRecord
    <2>2. \A l \in Keys : record'[l] # None => l # k /\ record'[l] = record[l]
      BY <2>1 DEF RInv, ReplayTypeOK
    <2>3. ReplayTypeOK'
      BY <2>1 DEF RInv, ReplayTypeOK
    <2>4. RequestKept' /\ WorkersClaimed' /\ AnswersMatchRequest'
      BY <2>1 DEF RInv, RequestKept, WorkersClaimed, AnswersMatchRequest,
         AnsweredForAnother
    <2>5. ClaimKept'
      <3> SUFFICES ASSUME NEW q \in Requests, stage[q] \in Working \cup {"done"},
                          req[q].key \notin dropped'
                   PROVE  Owns(q)'
        BY <2>1 DEF ClaimKept
      <3>1. Owns(q) /\ req[q].key # k
        BY <2>1 DEF RInv, ClaimKept
      <3> QED BY <3>1, <2>1 DEF Owns, RInv, ReplayTypeOK
    <2>6. ClaimMatches'
      <3> SUFFICES ASSUME NEW q \in Requests,
                          stage[q] \in Working \cup {"aborting"}, Owns(q)'
                   PROVE  record'[req[q].key].fingerprint = Fingerprint(req[q])
        BY <2>1 DEF ClaimMatches
      <3>1. req[q].key \in Keys
        BY CallFacts DEF RInv, ReplayTypeOK, RequestKept
      <3>2. Owns(q) /\ record'[req[q].key] = record[req[q].key]
        BY <3>1, <2>1, <2>2 DEF Owns
      <3> QED BY <3>2 DEF RInv, ClaimMatches
    <2>7. RecordsFaithful'
      BY <2>1, <2>2 DEF RInv, RecordsFaithful, RecordOf
    <2> QED BY <2>3, <2>4, <2>5, <2>6, <2>7 DEF RInv
  <1>12. CASE UNCHANGED replayVars
    BY <1>12 DEF replayVars, RInv, ReplayTypeOK, RequestKept, WorkersClaimed, ClaimKept,
       ClaimMatches, RecordsFaithful, RecordOf, AnswersMatchRequest,
       AnsweredForAnother, Owns
  <1>13. ASSUME NEW r \in Requests, Arrive(r)
        PROVE  RInv'
    <2>1. PICK u \in Users :
            \/ PutProfile(r, u) \/ PutConnection(r, u) \/ PutSubscription(r, u)
            \/ DeleteSubscription(r, u) \/ GetProfile(r, u) \/ GetConnection(r, u)
      BY <1>13 DEF Arrive
    <2>2. "profile" \in Tables /\ "connection" \in Tables /\ "subscription" \in Tables
      BY DEF Tables
    <2>3. ASSUME NEW k \in Keys, NEW t \in Tables, NEW b \in Bodies[t], Call(r, k, u, t, b)
          PROVE  RInv'
      <3>1. [key |-> k, user |-> u, table |-> t, body |-> b] \in Calls
        BY DEF Calls
      <3> QED BY <3>1, <2>3, <1>1 DEF Call
    <2>4. CASE PutProfile(r, u) \/ PutConnection(r, u)
      BY <2>2, <2>3, <2>4 DEF PutProfile, PutConnection
    <2>5. CASE PutSubscription(r, u) \/ DeleteSubscription(r, u)
      BY <2>2, <2>3, <2>5, BodiesAssumption DEF PutSubscription, DeleteSubscription
    <2>6. CASE GetProfile(r, u) \/ GetConnection(r, u)
      <3>1. FindProfile(u) \in Rows \cup {None} /\ FindConnection(u) \in Rows \cup {None}
        BY <2>2 DEF FindProfile, FindConnection, RInv, ReplayTypeOK
      <3> QED BY <1>2, <2>6, <3>1 DEF GetProfile, GetConnection
    <2> QED BY <2>1, <2>4, <2>5, <2>6
  <1> QED
    BY <1>3, <1>5, <1>6, <1>8, <1>9, <1>10, <1>11, <1>12, <1>13
       DEF Progress, RequestFault, UpdateProfile, LinkDefaultConnection,
       SetSubscription, Handler

-----------------------------------------------------------------------------
(* The proofs for the reads *)

\* Lists are the sequences of versions of at most MaxPages elements.
LEMMA ListFacts ==
  ASSUME NEW list \in Lists
  PROVE  list \in Seq(Versions) /\ Len(list) \in 0..MaxPages
  <1>1. PICK n \in 0..MaxPages : list \in [1..n -> Versions]
    BY DEF Lists
  <1>2. n \in Nat
    BY <1>1, ReadsAssumption
  <1> QED BY <1>1, <1>2, ReadsAssumption

LEMMA ListIntro ==
  ASSUME NEW list \in Seq(Versions), Len(list) <= MaxPages
  PROVE  list \in Lists
  <1>1. Len(list) \in 0..MaxPages /\ list \in [1..Len(list) -> Versions]
    BY ReadsAssumption, LenProperties
  <1> QED BY <1>1 DEF Lists

LEMMA EmptyList == <<>> \in Lists
  <1>1. <<>> \in Seq(Versions) /\ Len(<<>>) <= MaxPages
    BY EmptySeq, ReadsAssumption
  <1> QED BY <1>1, ListIntro, Zenon

\* A route that moves a reader on to a point outside the client, with no page
\* when a read is still to come.
LEMMA ReaderKeeps ==
  ASSUME LInv, NEW p \in Readers,
         NEW point \in {"find", "cached", "merge", "commit", "done", "failed"},
         Jump(p, point), UNCHANGED <<version, cache>>,
         what' \in [Readers -> Resources],
         pages' \in [Readers -> Lists],
         attempt' \in [Readers -> 0..MaxRetries],
         \A q \in Readers \ {p} : what'[q] = what[q] /\ pages'[q] = pages[q],
         point \in {"find", "cached"} => pages'[p] = <<>>
  PROVE  LInv'
  <1>1. pc'[p] = point /\ \A q \in Readers \ {p} : pc'[q] = pc[q]
    BY DEF Jump, LInv, ReadsTypeOK
  <1>2. ReadsTypeOK'
    BY DEF Jump, LInv, ReadsTypeOK, Points, Reading
  <1>3. NoPageYet' /\ RoomForPage' /\ WritesWhole'
    BY <1>1 DEF LInv, NoPageYet, RoomForPage, WritesWhole
  <1>4. ListsWhole'
    BY <1>1 DEF LInv, ListsWhole
  <1> QED BY <1>2, <1>3, <1>4 DEF LInv

LEMMA FinishKeeps ==
  ASSUME LInv, NEW p \in Readers, NEW point \in {"done", "failed"},
         Finish(p, point), UNCHANGED <<version, cache>>
  PROVE  LInv'
  <1>1. what' \in [Readers -> Resources] /\ pages' \in [Readers -> Lists]
    BY EmptyList DEF Finish, LInv, ReadsTypeOK, Resources
  <1>2. attempt' \in [Readers -> 0..MaxRetries]
    BY ReadsAssumption DEF Finish, LInv, ReadsTypeOK
  <1>3. \A q \in Readers \ {p} : what'[q] = what[q] /\ pages'[q] = pages[q]
    BY DEF Finish, LInv, ReadsTypeOK
  <1> QED BY <1>1, <1>2, <1>3, ReaderKeeps DEF Finish

\* The page a reader has asked for and received completes the list, or there is
\* room for another one.
LEMMA PageReceived ==
  ASSUME LInv, NEW p \in Readers, NEW reply \in Replies, ReceivePage(p, reply),
         Parsed(what[p], reply), ~(MorePages(p) /\ PageOf(p) = MaxPages)
  PROVE  /\ Append(pages[p], version) \in Lists
         /\ IF MorePages(p)
              THEN what[p] = "holdings" /\ Len(Append(pages[p], version)) < MaxPages
              ELSE WholeList(what[p], Append(pages[p], version))
  <1> DEFINE n == Len(pages[p])
             longer == Append(pages[p], version)
  <1>1. pages[p] \in Seq(Versions) /\ n \in Nat /\ n < MaxPages /\ version \in Versions
    BY ListFacts DEF ReceivePage, LInv, ReadsTypeOK, RoomForPage
  <1>2. longer \in Seq(Versions) /\ Len(longer) = n + 1 /\ longer[n + 1] = version
    BY <1>1
  <1>3. longer \in Lists
    <2>1. Len(longer) <= MaxPages
      BY <1>1, <1>2, ReadsAssumption
    <2> QED BY <1>2, <2>1, ListIntro, Zenon
  <1>4. what[p] # "holdings" => n = 0
    BY DEF ReceivePage, LInv, RoomForPage
  <1>5. Len(Book[version]) \in Nat
    BY <1>1, ReadsAssumption
  <1> HIDE DEF longer
  <1>6. CASE MorePages(p)
    BY <1>1, <1>2, <1>3, <1>4, <1>6, ReadsAssumption DEF MorePages, PageOf,
       PagesNow, longer
  <1>7. CASE ~MorePages(p)
    BY <1>1, <1>2, <1>3, <1>4, <1>5, <1>7, ReadsAssumption
       DEF MorePages, PageOf, PagesNow, WholeList, longer
  <1> QED BY <1>6, <1>7

\* Every step of a read and everything KIS and the cache do keep LInv.
LEMMA ReadsPreserve ==
  ASSUME LInv,
         \/ \E p \in Readers : ReadStep(p) \/ ReadFails(p)
         \/ KisMovesOn
         \/ \E x \in Resources : CacheExpires(x)
         \/ UNCHANGED readVars
  PROVE  LInv'
  <1>1. ASSUME NEW p \in Readers, ReadCached(p)
        PROVE  LInv'
    <2>1. ReadsTypeOK'
      <3>1. Cached(what[p]) \in Lists \cup {Missing}
        BY DEF Cached, CachedPrice, CachedDailyCandles, CachedHoldings, LInv,
           ReadsTypeOK, Resources
      <3>2. pages' \in [Readers -> Lists] /\ pc' \in [Readers -> Points]
        BY <3>1, <1>1 DEF ReadCached, Jump, LInv, ReadsTypeOK, Points, Reading
      <3> QED BY <3>2, <1>1 DEF ReadCached, LInv, ReadsTypeOK
    <2>2. NoPageYet'
      BY <1>1 DEF ReadCached, Jump, LInv, NoPageYet, ReadsTypeOK
    <2>3. RoomForPage'
      BY <1>1 DEF ReadCached, Jump, LInv, RoomForPage, ReadsTypeOK
    <2>4. WritesWhole'
      BY <1>1 DEF ReadCached, Jump, LInv, WritesWhole, ReadsTypeOK
    <2>5. ListsWhole'
      <3>1. Cached(what[p]) = cache[what[p]] /\ what[p] \in Resources
        BY DEF Cached, CachedPrice, CachedDailyCandles, CachedHoldings, LInv,
           ReadsTypeOK, Resources
      <3>2. ASSUME NEW q \in Readers, pc'[q] = "have"
            PROVE  WholeList(what'[q], pages'[q])
        BY <3>1, <3>2, <1>1 DEF ReadCached, Jump, LInv, ReadsTypeOK, ListsWhole
      <3> QED BY <3>2, <1>1 DEF ReadCached, LInv, ListsWhole
    <2> QED BY <2>1, <2>2, <2>3, <2>4, <2>5 DEF LInv
  <1>2. ASSUME NEW p \in Readers, GetToken(p)
        PROVE  LInv'
    <2>1. ReadsTypeOK'
      BY <1>2, ReadsAssumption DEF GetToken, Jump, LInv, ReadsTypeOK, Points,
         Reading
    <2>2. NoPageYet'
      BY <1>2 DEF GetToken, Jump, LInv, NoPageYet, ReadsTypeOK
    <2>3. RoomForPage'
      <3> SUFFICES ASSUME NEW q \in Readers, pc'[q] = "request"
                   PROVE  /\ Len(pages'[q]) < MaxPages
                          /\ what'[q] # "holdings" => pages'[q] = <<>>
        BY DEF RoomForPage
      <3>1. CASE q = p
        BY <3>1, <1>2, EmptySeq, ReadsAssumption DEF GetToken, LInv, NoPageYet
      <3>2. CASE q # p
        BY <3>2, <1>2 DEF GetToken, Jump, LInv, ReadsTypeOK, RoomForPage
      <3> QED BY <3>1, <3>2
    <2>4. WritesWhole'
      BY <1>2 DEF GetToken, Jump, LInv, WritesWhole, ReadsTypeOK
    <2>5. ListsWhole'
      BY <1>2, ReadsAssumption DEF GetToken, Jump, LInv, ListsWhole,
         ReadsTypeOK
    <2> QED BY <2>1, <2>2, <2>3, <2>4, <2>5 DEF LInv
  <1>3. ASSUME NEW p \in Readers, NEW reply \in Replies, ReceivePage(p, reply)
        PROVE  LInv'
    <2>1. CASE ~Parsed(what[p], reply) \/ (MorePages(p) /\ PageOf(p) = MaxPages)
      BY <2>1, <1>3, FinishKeeps DEF ReceivePage
    <2>2. CASE Parsed(what[p], reply) /\ ~(MorePages(p) /\ PageOf(p) = MaxPages)
      <3> DEFINE longer == Append(pages[p], version)
      <3>1. /\ pages' = [pages EXCEPT ![p] = longer]
            /\ attempt' = [attempt EXCEPT ![p] = 0]
            /\ pc' = [pc EXCEPT ![p] = IF MorePages(p) THEN "request" ELSE "write"]
            /\ UNCHANGED <<version, cache, what>>
        BY <2>2, <1>3 DEF ReceivePage, Jump, LInv, ReadsTypeOK
      <3>2. /\ longer \in Lists
            /\ IF MorePages(p) THEN what[p] = "holdings" /\ Len(longer) < MaxPages
               ELSE WholeList(what[p], longer)
        BY <2>2, <1>3, PageReceived
      <3> HIDE DEF longer
      <3>3. ReadsTypeOK'
        BY <3>1, <3>2, ReadsAssumption DEF LInv, ReadsTypeOK, Points, Reading
      <3>4. NoPageYet' /\ RoomForPage' /\ WritesWhole' /\ ListsWhole'
        <4>1. /\ pc'[p] = IF MorePages(p) THEN "request" ELSE "write"
              /\ pages'[p] = longer /\ what'[p] = what[p]
          BY <3>1 DEF LInv, ReadsTypeOK
        <4>2. \A q \in Readers \ {p} :
                pc'[q] = pc[q] /\ pages'[q] = pages[q] /\ what'[q] = what[q]
          BY <3>1 DEF LInv, ReadsTypeOK
        <4>3. NoPageYet' /\ RoomForPage'
          BY <3>2, <4>1, <4>2 DEF LInv, NoPageYet, RoomForPage
        <4>4. WritesWhole' /\ ListsWhole'
          BY <3>1, <3>2, <4>1, <4>2 DEF LInv, WritesWhole, ListsWhole
        <4> QED BY <4>3, <4>4
      <3> QED BY <3>3, <3>4 DEF LInv
    <2> QED BY <2>1, <2>2
  <1>4. ASSUME NEW p \in Readers, WriteCache(p)
        PROVE  LInv'
    <2>1. ReadsTypeOK'
      BY <1>4, ReadsAssumption DEF WriteCache, Jump, WriteCachedPrice,
         WriteCachedDailyCandles, WriteCachedHoldings, WriteCached, LInv,
         ReadsTypeOK, Points, Reading
    <2>2. NoPageYet'
      BY <1>4 DEF WriteCache, Jump, WriteCachedPrice,
         WriteCachedDailyCandles, WriteCachedHoldings, WriteCached, LInv,
         NoPageYet, ReadsTypeOK
    <2>3. RoomForPage'
      BY <1>4 DEF WriteCache, Jump, WriteCachedPrice,
         WriteCachedDailyCandles, WriteCachedHoldings, WriteCached, LInv,
         RoomForPage, ReadsTypeOK
    <2>4. WritesWhole'
      BY <1>4 DEF WriteCache, Jump, WriteCachedPrice,
         WriteCachedDailyCandles, WriteCachedHoldings, WriteCached, LInv,
         WritesWhole, ReadsTypeOK
    <2>5. ListsWhole'
      <3>1. /\ cache' = [cache EXCEPT ![what[p]] = pages[p]]
            /\ UNCHANGED <<what, pages>>
        BY <1>4 DEF WriteCache, WriteCachedPrice, WriteCachedDailyCandles,
           WriteCachedHoldings, WriteCached
      <3>2. WholeList(what[p], pages[p])
        BY <1>4 DEF WriteCache, LInv, WritesWhole
      <3>3. ASSUME NEW x \in Resources, cache'[x] # Missing
            PROVE  WholeList(x, cache'[x])
        BY <3>1, <3>2, <3>3 DEF LInv, ReadsTypeOK, ListsWhole
      <3>4. ASSUME NEW q \in Readers, pc'[q] = "have"
            PROVE  WholeList(what'[q], pages'[q])
        BY <3>1, <3>2, <3>4, <1>4 DEF WriteCache, Jump, LInv, ReadsTypeOK,
           ListsWhole
      <3> QED BY <3>3, <3>4 DEF ListsWhole
    <2> QED BY <2>1, <2>2, <2>3, <2>4, <2>5 DEF LInv
  <1>5. ASSUME NEW p \in Readers, RequestFails(p)
        PROVE  LInv'
    <2>1. CASE attempt[p] < MaxRetries
      <3>1. /\ attempt' \in [Readers -> 0..MaxRetries]
            /\ UNCHANGED <<version, cache, pc, what, pages>>
        BY <2>1, <1>5, ReadsAssumption DEF RequestFails, LInv, ReadsTypeOK
      <3> QED
        BY <3>1 DEF LInv, ReadsTypeOK, NoPageYet, RoomForPage, WritesWhole,
           ListsWhole
    <2>2. CASE ~(attempt[p] < MaxRetries)
      BY <2>2, <1>5, FinishKeeps DEF RequestFails
    <2> QED BY <2>1, <2>2
  <1>6. ASSUME NEW p \in Readers, ReadFails(p)
        PROVE  LInv'
    BY <1>6, FinishKeeps DEF ReadFails
  <1>7. ASSUME KisMovesOn
        PROVE  LInv'
    <2>1. ReadsTypeOK'
      BY <1>7, ReadsAssumption DEF KisMovesOn, LInv, ReadsTypeOK, Points,
         Reading, Versions
    <2>2. /\ NoPageYet' /\ RoomForPage' /\ WritesWhole' /\ ListsWhole'
      BY <1>7 DEF KisMovesOn, LInv, NoPageYet, RoomForPage, WritesWhole,
         ListsWhole
    <2> QED BY <2>1, <2>2 DEF LInv
  <1>8. ASSUME NEW x \in Resources, CacheExpires(x)
        PROVE  LInv'
    <2>1. ReadsTypeOK'
      BY <1>8, ReadsAssumption DEF CacheExpires, LInv, ReadsTypeOK, Points,
         Reading
    <2>2. ListsWhole'
      BY <1>8, ReadsAssumption DEF CacheExpires, LInv, ListsWhole,
         ReadsTypeOK
    <2>3. /\ NoPageYet' /\ RoomForPage' /\ WritesWhole'
      BY <1>8 DEF CacheExpires, LInv, NoPageYet, RoomForPage, WritesWhole
    <2> QED BY <2>1, <2>2, <2>3 DEF LInv
  <1>9. CASE UNCHANGED readVars
    BY <1>9 DEF readVars, LInv, ReadsTypeOK, NoPageYet, RoomForPage,
       WritesWhole, ListsWhole
  <1> QED
    BY <1>1, <1>2, <1>3, <1>4, <1>5, <1>6, <1>7, <1>8, <1>9 DEF ReadStep,
       GetStockPrice, GetDailyCandles, ListHoldings, ClientStep

-----------------------------------------------------------------------------
(* The proofs for the snapshot *)

\* The positions of a list are finitely many of the stocks KIS knows of.
LEMMA PositionsKnown ==
  ASSUME NEW list \in Lists
  PROVE  /\ PositionCodes(list) \in SUBSET Codes
         /\ Cardinality(PositionCodes(list)) \in 0..Cardinality(Codes)
  <1>1. ASSUME NEW i \in 1..Len(list), NEW c \in OnPage(list, i)
        PROVE  c \in Codes
    <2>1. list[i] \in Versions
      BY ListFacts, ElementOfSeq
    <2>2. i \in 1..Len(Book[list[i]]) /\ c \in Book[list[i]][i]
      BY <1>1, <2>1, ListFacts, ReadsAssumption DEF OnPage
    <2> QED BY <2>1, <2>2 DEF Codes
  <1>2. PositionCodes(list) \in SUBSET Codes
    BY <1>1 DEF PositionCodes
  <1>3. /\ Cardinality(PositionCodes(list)) \in Nat /\ Cardinality(Codes) \in Nat
        /\ Cardinality(PositionCodes(list)) <= Cardinality(Codes)
    BY <1>2, ApiAssumption, FS_Subset, FS_CardinalityType
  <1> QED BY <1>2, <1>3

\* The captures that are done can be counted.
LEMMA DoneFinite ==
  /\ IsFiniteSet({q \in Readers : Done(q)})
  /\ Cardinality({q \in Readers : Done(q)}) \in Nat
  /\ Cardinality({q \in Readers : Done(q)}) <= Cardinality(Readers)
  BY ApiAssumption, FS_Subset, FS_CardinalityType

\* What the other readers do may add a capture to those that are done.
LEMMA MoreDone ==
  ASSUME \A q \in Readers : Done(q) => Done(q)'
  PROVE  Cardinality({q \in Readers : Done(q)}) <= Cardinality({q \in Readers : Done(q)}')
  <1>1. IsFiniteSet({q \in Readers : Done(q)}')
    BY ApiAssumption, FS_Subset
  <1>2. {q \in Readers : Done(q)} \subseteq {q \in Readers : Done(q)}'
    OBVIOUS
  <1> QED BY <1>1, <1>2, FS_Subset

\* A step of one reader that saves no snapshot keeps SInv.
LEMMA RouteKeeps ==
  ASSUME SInv, NEW p \in Readers,
         StoreTypeOK', UNCHANGED <<snapshot, positions, captured, overwritten>>,
         \A q \in Readers \ {p} :
           UNCHANGED <<route[q], pc[q], told[q], merged[q]>>,
         pc[p] # "done",
         Done(p)' => snapshot # None /\ told'[p] = Capture,
         pc'[p] = "commit" /\ route'[p] = "capture" => merged'[p] \in {"insert", "update"}
  PROVE  SInv'
  <1>1. MergeChosen'
    BY DEF SInv, MergeChosen
  <1>2. NothingBefore'
    BY DEF SInv, NothingBefore, Done
  <1>3. EventsCounted'
    <2>1. \A q \in Readers : Done(q) => Done(q)'
      BY DEF Done
    <2>2. Cardinality({q \in Readers : Done(q)}') \in Nat
      BY ApiAssumption, FS_Subset, FS_CardinalityType
    <2> QED BY <2>1, <2>2, MoreDone, DoneFinite DEF SInv, EventsCounted
  <1>4. SnapshotsConsistent'
    <2>1. Capture' = Capture
      BY DEF Capture, FindSnapshot, ListPositions
    <2> QED BY <2>1 DEF SInv, SnapshotsConsistent, Done
  <1> QED BY <1>1, <1>2, <1>3, <1>4 DEF SInv

\* The commit of a capture: the first one saves what all are told, one that
\* updates is on record.
LEMMA CommitKeeps ==
  ASSUME LInv, SInv, NEW p \in Readers, CommitCapture(p)
  PROVE  SInv'
  <1>1. CASE merged[p] = "insert" /\ snapshot # None
    <2>1. /\ pc' = [pc EXCEPT ![p] = "failed"] /\ merged' = [merged EXCEPT ![p] = "none"]
          /\ UNCHANGED <<snapshot, positions, told, captured, overwritten, route,
                         prices, candles>>
      BY <1>1 DEF CommitCapture, Finish, Jump
    <2>2. StoreTypeOK'
      BY <2>1 DEF SInv, StoreTypeOK
    <2>3. pc'[p] = "failed" /\ pc[p] = "commit"
      BY <2>1 DEF CommitCapture, LInv, ReadsTypeOK
    <2>4. \A q \in Readers \ {p} : UNCHANGED <<route[q], pc[q], told[q], merged[q]>>
      BY <2>1 DEF LInv, ReadsTypeOK, SInv, StoreTypeOK
    <2> QED BY <2>1, <2>2, <2>3, <2>4, RouteKeeps DEF Done
  <1>2. CASE ~(merged[p] = "insert" /\ snapshot # None)
    <2> DEFINE codes == PositionCodes(pages[p])
    <2>1. /\ snapshot' = [captured_at |-> p, position_count |-> Cardinality(codes)]
          /\ positions' = positions \cup codes
          /\ told' = [told EXCEPT ![p] =
               [snapshot |-> [captured_at |-> p, position_count |-> Cardinality(codes)],
                positions |-> codes]]
          /\ captured' = captured + 1
          /\ overwritten' = (overwritten \/ merged[p] = "update")
          /\ pc' = [pc EXCEPT ![p] = "done"]
          /\ merged' = [merged EXCEPT ![p] = "none"]
          /\ UNCHANGED <<route, prices, candles>>
          /\ route[p] = "capture" /\ pc[p] = "commit"
      BY <1>2 DEF CommitCapture, SaveSnapshot, SavePositions, NewSnapshot,
         PositionCount,
         Finish, Jump
    <2>2. codes \in SUBSET Codes /\ Cardinality(codes) \in 0..Cardinality(Codes)
      BY PositionsKnown DEF LInv, ReadsTypeOK
    <2> HIDE DEF codes
    <2>3. snapshot' \in Snapshots /\ snapshot' # None
      BY <2>1, <2>2, ApiAssumption DEF Snapshots
    <2>4. StoreTypeOK'
      <3>1. told' \in [Readers -> Captures \cup {None}]
        BY <2>1, <2>2, <2>3 DEF SInv, StoreTypeOK, Captures
      <3>2. positions' \subseteq Codes /\ merged' \in [Readers -> {"none", "insert", "update"}]
        BY <2>1, <2>2 DEF SInv, StoreTypeOK
      <3>3. overwritten' \in BOOLEAN
        BY <2>1, Zenon DEF SInv, StoreTypeOK
      <3> QED BY <2>1, <2>3, <3>1, <3>2, <3>3 DEF SInv, StoreTypeOK
    <2>5. /\ pc'[p] = "done" /\ told'[p] = [snapshot |-> snapshot', positions |-> codes]
          /\ \A q \in Readers \ {p} : UNCHANGED <<pc[q], merged[q], told[q]>>
      BY <2>1 DEF LInv, ReadsTypeOK, SInv, StoreTypeOK
    <2>6. MergeChosen' /\ NothingBefore'
      BY <2>1, <2>3, <2>5 DEF SInv, MergeChosen, NothingBefore
    <2>7. EventsCounted'
      <3> DEFINE D == {q \in Readers : Done(q)}
      <3>1. p \notin D /\ D \cup {p} = D'
        BY <2>1, <2>5 DEF Done
      <3>2. IsFiniteSet(D) /\ Cardinality(D) \in Nat
        BY DoneFinite
      <3>3. Cardinality(D \cup {p}) = Cardinality(D) + 1
        BY <3>1, <3>2, FS_AddElement
      <3>4. captured \in Nat /\ captured <= Cardinality(D)
        BY DEF SInv, EventsCounted
      <3>5. Cardinality(D') = Cardinality(D) + 1
        BY <3>1, <3>3
      <3> HIDE DEF D
      <3>6. captured' \in Nat /\ captured' <= Cardinality(D')
        BY <2>1, <3>2, <3>4, <3>5
      <3> QED BY <3>6 DEF EventsCounted, D
    <2>8. SnapshotsConsistent'
      <3>1. CASE merged[p] = "update"
        BY <2>1, <3>1 DEF SnapshotsConsistent
      <3>2. CASE merged[p] = "insert"
        <4>1. positions = {} /\ captured = 0 /\ \A q \in Readers : ~Done(q)
          BY <1>2, <3>2 DEF SInv, NothingBefore
        <4>2. positions' = codes /\ captured' = 1
          BY <2>1, <4>1
        <4>3. Capture' = [snapshot |-> snapshot', positions |-> codes]
          BY <2>3, <4>2 DEF Capture, FindSnapshot, ListPositions
        <4>4. ASSUME NEW q \in Readers, Done(q)'
              PROVE  q = p
          BY <2>1, <2>5, <4>1, <4>4 DEF Done
        <4> QED BY <2>1, <2>5, <4>2, <4>3, <4>4 DEF SnapshotsConsistent, Done
      <3> QED BY <2>1, <3>1, <3>2 DEF SInv, MergeChosen
    <2> QED BY <2>4, <2>6, <2>7, <2>8 DEF SInv
  <1> QED BY <1>1, <1>2

\* A route that starts: no page was read yet and no capture is done by it.
LEMMA StartKeeps ==
  ASSUME LInv, SInv, NEW p \in Readers, NEW rt \in Routes,
         NEW point \in {"find", "cached", "done", "failed"}, Start(p, rt, point),
         point = "done" => rt # "capture"
  PROVE  LInv' /\ SInv'
  <1>1. pages[p] = <<>>
    BY DEF Start, LInv, NoPageYet
  <1>2. what' \in [Readers -> Resources]
    BY DEF Start, Resource, Resources, LInv, ReadsTypeOK
  <1>3. \A q \in Readers \ {p} : what'[q] = what[q] /\ pages'[q] = pages[q]
    BY DEF Start, LInv, ReadsTypeOK
  <1>4. LInv'
    BY <1>1, <1>2, <1>3, ReaderKeeps DEF Start, LInv, ReadsTypeOK
  <1>5. StoreTypeOK'
    BY DEF Start, SInv, StoreTypeOK
  <1>6. /\ \A q \in Readers \ {p} : UNCHANGED <<route[q], pc[q], told[q], merged[q]>>
        /\ pc'[p] = point /\ route'[p] = rt
    BY DEF Start, Jump, LInv, ReadsTypeOK, SInv, StoreTypeOK
  <1>7. SInv'
    BY <1>5, <1>6, RouteKeeps DEF Start, Done
  <1> QED BY <1>4, <1>7

\* A look for the snapshot: a capture that is answered is told what there is.
LEMMA LookKeeps ==
  ASSUME LInv, SInv, NEW p \in Readers, FindCapture(p) \/ FindAgain(p)
  PROVE  LInv' /\ SInv'
  <1> USE DEF FindSnapshot
  <1>1. /\ pc[p] # "done" /\ UNCHANGED <<snapshot, positions, captured, overwritten>>
        /\ UNCHANGED <<route, merged, prices, candles, version, cache>>
        /\ told' = [told EXCEPT ![p] = Capture]
    BY DEF FindCapture, FindAgain
  <1>2. Capture \in Captures \cup {None}
    BY DEF Capture, ListPositions, Captures, SInv, StoreTypeOK
  <1>3. StoreTypeOK'
    BY <1>1, <1>2 DEF SInv, StoreTypeOK
  <1>4. CASE snapshot = None
    <2>1. PICK point \in {"cached", "merge"} :
            /\ Jump(p, point) /\ UNCHANGED <<what, pages, attempt>>
            /\ point = "cached" => pages[p] = <<>>
      BY <1>4 DEF FindCapture, FindAgain, LInv, NoPageYet
    <2>2. LInv'
      BY <1>1, <2>1, ReaderKeeps DEF LInv, ReadsTypeOK
    <2>3. pc'[p] = point /\ \A q \in Readers \ {p} : UNCHANGED <<pc[q], told[q]>>
      BY <1>1, <2>1 DEF Jump, LInv, ReadsTypeOK, SInv, StoreTypeOK
    <2>4. SInv'
      BY <1>1, <1>3, <2>3, RouteKeeps DEF Done
    <2> QED BY <2>2, <2>4
  <1>5. CASE snapshot # None
    <2>1. Finish(p, "done")
      BY <1>5 DEF FindCapture, FindAgain
    <2>2. LInv'
      BY <1>1, <2>1, FinishKeeps
    <2>3. /\ pc'[p] = "done" /\ told'[p] = Capture
          /\ \A q \in Readers \ {p} : UNCHANGED <<pc[q], told[q]>>
      BY <1>1, <2>1 DEF Finish, Jump, LInv, ReadsTypeOK, SInv, StoreTypeOK
    <2>4. SInv'
      BY <1>1, <1>3, <1>5, <2>3, RouteKeeps DEF Done
    <2> QED BY <2>2, <2>4
  <1> QED BY <1>4, <1>5

\* A route that leaves has its answer and is no capture that is done.
LEMMA LeaveKeeps ==
  ASSUME LInv, SInv, NEW p \in Readers, NEW point \in {"done", "failed"},
         Leave(p, point), StoreTypeOK', pc[p] # "done",
         UNCHANGED <<version, cache, snapshot, positions, captured, overwritten, told>>,
         \A q \in Readers \ {p} : merged'[q] = merged[q]
  PROVE  LInv' /\ SInv'
  <1>1. LInv'
    BY FinishKeeps DEF Leave
  <1>2. /\ pc'[p] = point /\ route'[p] = "price"
        /\ \A q \in Readers \ {p} : UNCHANGED <<route[q], pc[q]>>
    BY DEF Leave, Finish, Jump, LInv, ReadsTypeOK, SInv, StoreTypeOK
  <1>3. SInv'
    BY <1>2, RouteKeeps DEF Done
  <1> QED BY <1>1, <1>3

\* A merge goes on to its commit with what it has found.
LEMMA MergeKeeps ==
  ASSUME LInv, SInv, NEW p \in Readers, MergeCapture(p) \/ MergeCandles(p)
  PROVE  LInv' /\ SInv'
  <1>1. /\ Jump(p, "commit") /\ pc[p] # "done"
        /\ UNCHANGED <<version, cache, what, pages, attempt>>
        /\ UNCHANGED <<route, snapshot, positions, told, captured, overwritten, prices,
                       candles>>
    BY DEF MergeCapture, MergeCandles
  <1>2. PICK found \in {"none", "insert", "update"} :
          /\ merged' = [merged EXCEPT ![p] = found]
          /\ route[p] = "capture" => found # "none"
    BY DEF MergeCapture, MergeCandles, SelectForMerge
  <1>3. LInv'
    BY <1>1, ReaderKeeps DEF LInv, ReadsTypeOK
  <1>4. StoreTypeOK'
    BY <1>1, <1>2 DEF SInv, StoreTypeOK
  <1>5. /\ pc'[p] = "commit" /\ merged'[p] = found
        /\ \A q \in Readers \ {p} : UNCHANGED <<pc[q], merged[q]>>
    BY <1>1, <1>2 DEF Jump, LInv, ReadsTypeOK, SInv, StoreTypeOK
  <1>6. SInv'
    BY <1>1, <1>2, <1>4, <1>5, RouteKeeps DEF Done
  <1> QED BY <1>3, <1>6

\* Every call of a route and every step of its own keep both invariants.
LEMMA RoutesPreserve ==
  ASSUME LInv, SInv, NEW p \in Readers, NEW u \in Users,
         \/ GetDomesticStockPrice(p) \/ CreateDomesticStockPriceSnapshot(p)
         \/ CreateDomesticDailyCandles(p) \/ ListDomesticStockHoldings(p)
         \/ ListLinkedHoldings(p, u) \/ CaptureLinkedSnapshot(p, u)
         \/ GetSnapshot(p, u) \/ ListDomesticDailyCandles(p)
         \/ GetDomesticStockPriceSnapshot(p)
         \/ FindCapture(p) \/ FindAgain(p) \/ MergeCapture(p) \/ CommitCapture(p)
         \/ AnswerRead(p) \/ SavePrice(p) \/ MergeCandles(p) \/ CommitCandles(p)
         \/ StoreFails(p)
  PROVE  LInv' /\ SInv'
  <1>1. CASE \/ GetDomesticStockPrice(p) \/ CreateDomesticStockPriceSnapshot(p)
             \/ CreateDomesticDailyCandles(p) \/ ListDomesticStockHoldings(p)
             \/ ListLinkedHoldings(p, u) \/ CaptureLinkedSnapshot(p, u)
             \/ GetDomesticStockPriceSnapshot(p)
    BY <1>1, StartKeeps
       DEF GetDomesticStockPrice, CreateDomesticStockPriceSnapshot,
       CreateDomesticDailyCandles, ListDomesticStockHoldings, ListLinkedHoldings,
       CaptureLinkedSnapshot, GetDomesticStockPriceSnapshot, Routes
  <1>2. CASE GetSnapshot(p, u)
    <2>1. LInv'
      BY <1>2, ReaderKeeps DEF GetSnapshot, LInv, ReadsTypeOK
    <2>2. Capture \in Captures \cup {None}
      BY DEF Capture, FindSnapshot, ListPositions, Captures, SInv, StoreTypeOK
    <2>3. StoreTypeOK'
      BY <1>2, <2>2 DEF GetSnapshot, GetPortfolioSnapshot, SInv, StoreTypeOK,
         Routes
    <2>4. /\ route'[p] = "get-snapshot" /\ pc'[p] = "done" /\ pc[p] = "idle"
          /\ \A q \in Readers \ {p} : UNCHANGED <<route[q], pc[q], told[q], merged[q]>>
      BY <1>2 DEF GetSnapshot, GetPortfolioSnapshot, Jump, LInv, ReadsTypeOK,
         SInv,
         StoreTypeOK
    <2>5. SInv'
      BY <1>2, <2>3, <2>4, RouteKeeps DEF GetSnapshot, Done
    <2> QED BY <2>1, <2>5
  <1>3. CASE ListDomesticDailyCandles(p)
    <2>1. pages' \in [Readers -> Lists] /\ \A q \in Readers \ {p} : pages'[q] = pages[q]
      BY <1>3 DEF ListDomesticDailyCandles, StoredCandles, LInv, ReadsTypeOK,
         SInv,
         StoreTypeOK
    <2>2. LInv'
      BY <1>3, <2>1, ReaderKeeps DEF ListDomesticDailyCandles, LInv,
         ReadsTypeOK
    <2>3. StoreTypeOK'
      BY <1>3 DEF ListDomesticDailyCandles, SInv, StoreTypeOK, Routes
    <2>4. /\ route'[p] = "list-candles" /\ pc'[p] = "done" /\ pc[p] = "idle"
          /\ \A q \in Readers \ {p} : UNCHANGED <<route[q], pc[q], told[q], merged[q]>>
      BY <1>3 DEF ListDomesticDailyCandles, Jump, LInv, ReadsTypeOK, SInv,
         StoreTypeOK
    <2>5. SInv'
      BY <1>3, <2>3, <2>4, RouteKeeps DEF ListDomesticDailyCandles, Done
    <2> QED BY <2>2, <2>5
  <1>4. CASE FindCapture(p) \/ FindAgain(p)
    BY <1>4, LookKeeps
  <1>5. CASE MergeCapture(p) \/ MergeCandles(p)
    BY <1>5, MergeKeeps
  <1>6. CASE CommitCapture(p)
    <2>1. LInv'
      BY <1>6, FinishKeeps DEF CommitCapture
    <2> QED BY <1>6, <2>1, CommitKeeps
  <1>7. CASE AnswerRead(p)
    <2>1. StoreTypeOK'
      BY <1>7 DEF AnswerRead, Leave, SInv, StoreTypeOK, Routes
    <2> QED BY <1>7, <2>1, LeaveKeeps DEF AnswerRead
  <1>8. CASE SavePrice(p)
    <2>1. StoreTypeOK'
      BY <1>8 DEF SavePrice, InsertPrice, Leave, SInv, StoreTypeOK, Routes
    <2> QED BY <1>8, <2>1, LeaveKeeps DEF SavePrice
  <1>9. CASE CommitCandles(p)
    <2>1. PICK point \in {"done", "failed"} :
            Leave(p, point) /\ (candles' = candles \/ candles' = pages[p])
      BY <1>9 DEF CommitCandles
    <2>2. StoreTypeOK'
      BY <1>9, <2>1 DEF CommitCandles, Leave, SInv, StoreTypeOK, Routes, LInv,
         ReadsTypeOK
    <2>3. \A q \in Readers \ {p} : merged'[q] = merged[q]
      BY <1>9 DEF CommitCandles, SInv, StoreTypeOK
    <2> QED BY <1>9, <2>1, <2>2, <2>3, LeaveKeeps DEF CommitCandles
  <1>10. CASE StoreFails(p)
    <2>1. StoreTypeOK'
      BY <1>10 DEF StoreFails, Leave, SInv, StoreTypeOK, Routes
    <2>2. \A q \in Readers \ {p} : merged'[q] = merged[q]
      BY <1>10 DEF StoreFails, SInv, StoreTypeOK
    <2> QED BY <1>10, <2>1, <2>2, LeaveKeeps DEF StoreFails
  <1> QED
    BY <1>1, <1>2, <1>3, <1>4, <1>5, <1>6, <1>7, <1>8, <1>9, <1>10

\* A reader inside the client neither commits nor is done.
LEMMA ClientKeeps ==
  ASSUME LInv, SInv, UNCHANGED storeVars,
         \/ \E p \in Readers : ReadStep(p) \/ ReadFails(p)
         \/ UNCHANGED pc
  PROVE  SInv'
  <1>1. ASSUME NEW q \in Readers, pc'[q] # pc[q]
        PROVE  pc[q] \in Reading /\ pc'[q] \in Reading \cup {"have", "failed"}
    BY <1>1
       DEF ReadStep, GetStockPrice, GetDailyCandles, ListHoldings, ClientStep,
       ReadCached, GetToken, RequestFails, WriteCache, ReceivePage, ReadFails,
       Finish, Jump, Reading, LInv, ReadsTypeOK
  <1>2. \A q \in Readers : /\ Done(q)' <=> Done(q)
                           /\ pc'[q] = "commit" <=> pc[q] = "commit"
                           /\ pc'[q] = "done" <=> pc[q] = "done"
    BY <1>1 DEF Done, Reading, storeVars
  <1>3. {q \in Readers : Done(q)}' = {q \in Readers : Done(q)}
    BY <1>2
  <1>4. StoreTypeOK' /\ MergeChosen'
    BY <1>2 DEF SInv, StoreTypeOK, MergeChosen, storeVars
  <1>5. NothingBefore'
    BY <1>2 DEF SInv, NothingBefore, storeVars
  <1>6. EventsCounted'
    BY <1>3 DEF SInv, EventsCounted, storeVars
  <1>7. SnapshotsConsistent'
    BY <1>2 DEF SInv, SnapshotsConsistent, Capture, FindSnapshot,
       ListPositions, storeVars
  <1> QED BY <1>4, <1>5, <1>6, <1>7 DEF SInv

-----------------------------------------------------------------------------
(* The whole *)

\* Every step of the composition keeps AInv: the requests touch only the replay
\* records and rows, the clients only the reads, the routes reads and snapshot.
LEMMA StepPreserves == AInv /\ [Next]_vars => AInv'
  <1> SUFFICES ASSUME AInv, [Next]_vars PROVE AInv'
    OBVIOUS
  <1> USE DEF AInv
  <1>1. faultsLeft' \in 0..MaxFaults
    BY ApiAssumption DEF Next, Failure, vars
  <1>2. ASSUME \/ \E r \in Requests : Arrive(r) \/ Progress(r) \/ RequestFault(r)
               \/ \E k \in Keys : DropRecord(k),
               UNCHANGED <<readVars, storeVars>>
        PROVE  AInv'
    <2>1. RInv'
      BY <1>2, ReplayPreserves
    <2>2. LInv'
      BY <1>2, ReadsPreserve
    <2>3. SInv'
      BY <1>2, ClientKeeps DEF readVars
    <2> QED BY <1>1, <2>1, <2>2, <2>3
  <1>3. ASSUME \/ \E p \in Readers : ReadStep(p) \/ ReadFails(p)
               \/ KisMovesOn
               \/ \E x \in Resources : CacheExpires(x),
               UNCHANGED <<replayVars, storeVars>>
        PROVE  AInv'
    <2>1. RInv'
      BY <1>3, ReplayPreserves
    <2>2. LInv'
      BY <1>3, ReadsPreserve
    <2>3. SInv'
      BY <1>3, ClientKeeps DEF KisMovesOn, CacheExpires
    <2> QED BY <1>1, <2>1, <2>2, <2>3
  <1>4. ASSUME NEW p \in Readers, NEW u \in Users,
               \/ GetDomesticStockPrice(p) \/ CreateDomesticStockPriceSnapshot(p)
               \/ CreateDomesticDailyCandles(p) \/ ListDomesticStockHoldings(p)
               \/ ListLinkedHoldings(p, u) \/ CaptureLinkedSnapshot(p, u)
               \/ GetSnapshot(p, u) \/ ListDomesticDailyCandles(p)
               \/ GetDomesticStockPriceSnapshot(p)
               \/ FindCapture(p) \/ FindAgain(p) \/ MergeCapture(p) \/ CommitCapture(p)
               \/ AnswerRead(p) \/ SavePrice(p) \/ MergeCandles(p) \/ CommitCandles(p)
               \/ StoreFails(p)
        PROVE  AInv'
    <2>1. UNCHANGED replayVars
      BY <1>4
         DEF GetDomesticStockPrice, CreateDomesticStockPriceSnapshot,
         CreateDomesticDailyCandles, ListDomesticStockHoldings, ListLinkedHoldings,
         CaptureLinkedSnapshot, GetDomesticStockPriceSnapshot, Start, GetSnapshot,
         ListDomesticDailyCandles, FindCapture, FindAgain, MergeCapture,
         CommitCapture, AnswerRead, SavePrice, MergeCandles, CommitCandles, StoreFails
    <2>2. RInv'
      BY <2>1, ReplayPreserves
    <2>3. LInv' /\ SInv'
      BY <1>4, RoutesPreserve
    <2> QED BY <1>1, <2>2, <2>3
  <1>5. CASE UNCHANGED vars
    <2>1. RInv'
      BY <1>5, ReplayPreserves DEF vars
    <2>2. LInv' /\ SInv'
      BY <1>5, ReadsPreserve, ClientKeeps DEF vars, readVars
    <2> QED BY <1>1, <2>1, <2>2
  <1>6. CASE NewCall
    BY <1>2, <1>4, <1>6, BodiesAssumption DEF NewCall
  <1>7. CASE Step
    BY <1>2, <1>3, <1>4, <1>7, BodiesAssumption DEF Step
  <1>8. CASE World
    BY <1>3, <1>8 DEF World, LInv, ReadsTypeOK
  <1>9. CASE Failure
    BY <1>2, <1>3, <1>4, <1>9, BodiesAssumption DEF Failure
  <1> QED BY <1>5, <1>6, <1>7, <1>8, <1>9 DEF Next

\* Before the first call AInv holds.
LEMMA InitHolds == Init => AInv
  <1> SUFFICES ASSUME Init PROVE AInv
    OBVIOUS
  <1>1. RInv
    <2>1. ReplayTypeOK
      BY DEF Init, ReplayInit, ReplayTypeOK, Stages
    <2>2. /\ RequestKept /\ WorkersClaimed /\ ClaimKept /\ ClaimMatches
          /\ RecordsFaithful /\ AnswersMatchRequest
      BY DEF Init, ReplayInit, RequestKept, WorkersClaimed, ClaimKept, ClaimMatches,
         RecordsFaithful, AnswersMatchRequest, Working
    <2> QED BY <2>1, <2>2 DEF RInv
  <1>2. LInv
    <2>1. version \in Versions
      BY ReadsAssumption DEF Init, ReadsInit, Versions
    <2>2. ReadsTypeOK
      BY <2>1, EmptyList, ReadsAssumption
         DEF Init, ReadsInit, ReadsTypeOK, Points, Resources
    <2>3. NoPageYet /\ RoomForPage /\ WritesWhole /\ ListsWhole
      BY DEF Init, ReadsInit, NoPageYet, RoomForPage, WritesWhole, ListsWhole
    <2> QED BY <2>2, <2>3 DEF LInv
  <1>3. SInv
    <2>1. StoreTypeOK
      BY EmptyList DEF Init, StoreTypeOK, Routes
    <2>2. \A p \in Readers : pc[p] = "idle" /\ ~Done(p)
      BY DEF Init, ReadsInit, Done
    <2>3. MergeChosen /\ NothingBefore /\ SnapshotsConsistent
      BY <2>2 DEF Init, MergeChosen, NothingBefore, SnapshotsConsistent
    <2>4. EventsCounted
      BY DoneFinite DEF Init, EventsCounted
    <2> QED BY <2>1, <2>3, <2>4 DEF SInv
  <1>4. faultsLeft \in 0..MaxFaults
    BY ApiAssumption DEF Init
  <1> QED BY <1>1, <1>2, <1>3, <1>4 DEF AInv

\* AInv holds in every state of every execution.
THEOREM Invariant == Spec => []AInv
  BY InitHolds, StepPreserves, PTL DEF Spec

\* Records, rows, reads and routes keep their types; in particular no list grows
\* beyond the page limit, no request is sent more often than it may be retried,
\* and no more snapshot events are stored than captures were made.
THEOREM TypeCorrect == Spec => []TypeOK
  <1>1. AInv => TypeOK
    <2> SUFFICES ASSUME AInv PROVE TypeOK
      OBVIOUS
    <2>1. captured \in 0..Cardinality(Readers)
      <3>1. Cardinality(Readers) \in Nat
        BY ApiAssumption, FS_CardinalityType
      <3> QED BY <3>1, DoneFinite DEF AInv, SInv, EventsCounted
    <2> QED BY <2>1 DEF AInv, RInv, LInv, SInv, StoreTypeOK, TypeOK
  <1> QED BY <1>1, Invariant, PTL

\* A request that works or was answered from its own work owns the record of its
\* key, and a record has one owner.
LEMMA OwnerUnique == RInv => KeyExecutesOnce
  <1> SUFFICES ASSUME RInv, NEW r \in Requests, NEW q \in Requests,
                      r # q, req[r].key = req[q].key, req[r].key \notin dropped
               PROVE  /\ ~(stage[r] \in Working /\ stage[q] \in Working)
                      /\ ~(stage[r] = "done" /\ stage[q] \in Working \cup {"done"})
    BY DEF KeyExecutesOnce
  <1> QED BY DEF RInv, ClaimKept, Owns

\* Two requests with one idempotency key are never executed at the same time or
\* one after the other's success, for any number of requests, keys and failures,
\* as long as Redis keeps the record.
THEOREM ExecutedOnce == Spec => []KeyExecutesOnce
  <1>1. AInv => KeyExecutesOnce
    BY OwnerUnique DEF AInv
  <1> QED BY <1>1, Invariant, PTL

\* For any number of users, requests, keys and failures: whoever is answered with
\* success, from an execution or from a record, is answered with the row it asked
\* for, also after Redis lost a record, unless an equal call of another user, or
\* one that linked another deployment's account, has claimed the same key.
THEOREM AnswersRight == Spec => []AnswersMatchRequest
  <1>1. AInv => AnswersMatchRequest
    BY DEF AInv, RInv
  <1> QED BY <1>1, Invariant, PTL

\* For holdings of any length, any page limit and any number of retries, nothing
\* but a whole answer of KIS is cached or handed to a route.
THEOREM ReadsWhole == Spec => []ListsWhole
  <1>1. AInv => ListsWhole
    BY DEF AInv, LInv
  <1> QED BY <1>1, Invariant, PTL

\* However many captures of one key overlap, the snapshot, its positions, its
\* event and the answers agree, unless one of them merged over another.
THEOREM SnapshotAgrees == Spec => []SnapshotsConsistent
  <1>1. AInv => SnapshotsConsistent
    BY DEF AInv, SInv
  <1> QED BY <1>1, Invariant, PTL

=============================================================================

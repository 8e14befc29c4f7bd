--------------------------- MODULE RequestReplay ---------------------------
(***************************************************************************)
(* The PUT and DELETE requests that carry an Idempotency-Key, the replay   *)
(* records in Redis that make a repeated request answer what the first one *)
(* answered, and the rows the handlers write. Neither the key nor the      *)
(* fingerprint of a record names the user.                                 *)
(*                                                                         *)
(*   SET NX -> find -> merge -> commit -> complete                         *)
(*         \-> GET (conflict, in progress, or the recorded answer)         *)
(*   any exception after the claim: abort, then the error                  *)
(*                                                                         *)
(* A row is a user and one value of its table; two bodies differ in every  *)
(* column, so the merge of one over another writes all columns or none.    *)
(* What a connection is asked to be comes from the environment of the      *)
(* process that serves it, and not from the request. A claim token is the  *)
(* name of its request. Steps and failures are separate operators:         *)
(* AccountApi puts them together and bounds the failures.                  *)
(***************************************************************************)
EXTENDS Integers, FiniteSets

CONSTANTS
  Requests,  \* calls of the routes below
  Keys,      \* Idempotency-Key values
  Users,     \* who is logged in
  Owner,     \* KIS_ACCOUNT_OWNER_USER_ID
  Bodies,    \* per table, the values a request can ask for
  None

Tables == {"profile", "connection", "subscription"}

VARIABLES
  record,   \* per key, the replay record
  stage,    \* how far a request is
  req,      \* what it asks for
  dirty,    \* what its merge found: a missing, a different or an equal row
  row,      \* each user's row of each table
  answer,   \* the row a request was answered with
  dropped,  \* history: keys whose record expired or was lost by Redis
  claims    \* history: the calls that have made a claim

replayVars == <<record, stage, req, dirty, row, answer, dropped, claims>>

Values == UNION {Bodies[t] : t \in Tables}
Rows == [user : Users, body : Values]
Calls == UNION {[key : Keys, user : Users, table : {t}, body : Bodies[t]] : t \in Tables}
ReplayRecord ==
  [token : Requests, fingerprint : Tables \X (Values \cup {None}),
   status : {"pending", "completed"}, body : Rows \cup {None}]

ASSUME BodiesAssumption ==
  /\ DOMAIN Bodies = Tables
  /\ {"on", "off"} \subseteq Bodies["subscription"]
  /\ Owner \in Users
  /\ None \notin Requests \cup Values \cup Rows \cup Calls \cup ReplayRecord

\* between the claim and the answer
Working == {"claimed", "found", "merged", "executed"}
Stages == Working \cup {"idle", "taken", "aborting", "done", "replayed", "refused",
                        "failed", "read"}

ReplayTypeOK ==
  /\ record \in [Keys -> ReplayRecord \cup {None}]
  /\ stage \in [Requests -> Stages]
  /\ req \in [Requests -> Calls \cup {None}]
  /\ dirty \in [Requests -> {"none", "insert", "update"}]
  /\ row \in [Users -> [Tables -> Rows \cup {None}]]
  /\ answer \in [Requests -> Rows \cup {None}]
  /\ dropped \subseteq Keys
  /\ claims \subseteq Calls

ReplayInit ==
  /\ record = [k \in Keys |-> None]
  /\ stage = [r \in Requests |-> "idle"]
  /\ req = [r \in Requests |-> None]
  /\ dirty = [r \in Requests |-> "none"]
  /\ row = [u \in Users |-> [t \in Tables |-> None]]
  /\ answer = [r \in Requests |-> None]
  /\ dropped = {}
  /\ claims = {}

Goto(r, s) == stage' = [stage EXCEPT ![r] = s]

\* the row a call wants
Asked(c) == [user |-> c.user, body |-> c.body]

\* an answer that no longer depends on what was asked
End(r, s) == Goto(r, s) /\ req' = [req EXCEPT ![r] = None]

-----------------------------------------------------------------------------
(* RedisRequestReplayStore *)

Owns(r) == record[req[r].key] # None /\ record[req[r].key].token = r

\* method, path and request body; PUT /connection has no request body
Fingerprint(c) == <<c.table, IF c.table = "connection" THEN None ELSE c.body>>

Pending(r, c) ==
  [token |-> r, fingerprint |-> Fingerprint(c), status |-> "pending", body |-> None]

\* SET without NX: every request gets a claim.
ClaimAnyway(r, c) ==
  /\ stage[r] = "idle"
  /\ req' = [req EXCEPT ![r] = c]
  /\ record' = [record EXCEPT ![c.key] = Pending(r, c)]
  /\ claims' = claims \cup {c}
  /\ Goto(r, "claimed")
  /\ UNCHANGED <<dirty, row, answer, dropped>>

\* claim: SET NX EX
Claim(r, c) ==
  /\ stage[r] = "idle"
  /\ req' = [req EXCEPT ![r] = c]
  /\ IF record[c.key] = None
       THEN /\ record' = [record EXCEPT ![c.key] = Pending(r, c)]
            /\ claims' = claims \cup {c}
            /\ Goto(r, "claimed")
       ELSE Goto(r, "taken") /\ UNCHANGED <<record, claims>>
  /\ UNCHANGED <<dirty, row, answer, dropped>>

\* claim: the GET after a SET NX that failed
Inspect(r) ==
  /\ stage[r] = "taken"
  /\ LET existing == record[req[r].key]
         replay == /\ existing # None
                   /\ existing.fingerprint = Fingerprint(req[r])
                   /\ existing.status = "completed"
     IN IF replay
          THEN /\ Goto(r, "replayed")
               /\ answer' = [answer EXCEPT ![r] = existing.body]
               /\ UNCHANGED req
          ELSE End(r, "refused") /\ UNCHANGED answer
  /\ UNCHANGED <<record, dirty, row, dropped, claims>>

\* The script that does not compare the token completes anybody's record.
CompletedByAnyone(r) ==
  LET k == req[r].key IN
  IF record[k] = None THEN record
  ELSE [record EXCEPT ![k].status = "completed", ![k].body = Asked(req[r])]

\* _COMPLETE_SCRIPT
Completed(r) ==
  IF Owns(r)
  THEN [record EXCEPT ![req[r].key].status = "completed",
                      ![req[r].key].body = Asked(req[r])]
  ELSE record

\* complete, and the answer; "claim was lost" when nothing was updated
Complete(r) ==
  /\ stage[r] = "executed"
  /\ record' = Completed(r)
  /\ IF Completed(r) # record
       THEN Goto(r, "done") /\ answer' = [answer EXCEPT ![r] = Asked(req[r])]
       ELSE Goto(r, "aborting") /\ UNCHANGED answer
  /\ UNCHANGED <<req, dirty, row, dropped, claims>>

\* abort and _ABORT_SCRIPT; the exception goes on
Abort(r) ==
  /\ stage[r] = "aborting"
  /\ record' = IF Owns(r) THEN [record EXCEPT ![req[r].key] = None] ELSE record
  /\ End(r, "failed")
  /\ UNCHANGED <<dirty, row, answer, dropped, claims>>

-----------------------------------------------------------------------------
(* The handlers: one transaction that looks for the row, returns when it is *)
(* as requested, and merges the new one and its event otherwise.            *)

\* the row the call is about
Current(c) == row[c.user][c.table]

\* the row is as requested, for a connection: _matches_deployment; there is
\* nothing to unsubscribe from
Matches(c) ==
  \/ Current(c) = Asked(c)
  \/ c.table = "subscription" /\ c.body = "off" /\ Current(c) = None

\* the early return
FindRow(r) ==
  /\ stage[r] = "claimed"
  /\ Goto(r, IF Matches(req[r]) THEN "executed" ELSE "found")
  /\ UNCHANGED <<record, req, dirty, row, answer, dropped, claims>>

\* the SELECT of Session.merge
MergeRow(r) ==
  /\ stage[r] = "found"
  /\ dirty' = [dirty EXCEPT ![r] =
       IF Current(req[r]) = None THEN "insert"
       ELSE IF Current(req[r]) = Asked(req[r]) THEN "none" ELSE "update"]
  /\ Goto(r, "merged")
  /\ UNCHANGED <<record, req, row, answer, dropped, claims>>

\* COMMIT; an INSERT of a row that exists by now raises
CommitRow(r) ==
  /\ stage[r] = "merged"
  /\ IF dirty[r] = "insert" /\ Current(req[r]) # None
       THEN Goto(r, "aborting") /\ UNCHANGED row
       ELSE /\ row' = IF dirty[r] = "none" THEN row
                      ELSE [row EXCEPT ![req[r].user][req[r].table] = Asked(req[r])]
            /\ Goto(r, "executed")
  /\ dirty' = [dirty EXCEPT ![r] = "none"]
  /\ UNCHANGED <<record, req, answer, dropped, claims>>

Handler(r, t) ==
  /\ req[r] # None /\ req[r].table = t
  /\ FindRow(r) \/ MergeRow(r) \/ CommitRow(r)

\* _connection_location: 403, when the claim is made and nothing is read yet
Forbidden(r) ==
  /\ stage[r] = "claimed" /\ req[r].table = "connection" /\ req[r].user # Owner
  /\ Goto(r, "aborting")
  /\ UNCHANGED <<record, req, dirty, row, answer, dropped, claims>>

UpdateProfile(r) == Handler(r, "profile")
LinkDefaultConnection(r) ==
  Forbidden(r) \/ (Handler(r, "connection") /\ req[r].user = Owner)
SetSubscription(r) == Handler(r, "subscription")

FindProfile(u) == row[u]["profile"]
FindConnection(u) == IF u = Owner THEN row[u]["connection"] ELSE None

\* the GET routes answer the row, or 404, or 403
AnswerRow(r, found) ==
  /\ stage[r] = "idle"
  /\ Goto(r, "read")
  /\ answer' = [answer EXCEPT ![r] = found]
  /\ UNCHANGED <<record, req, dirty, row, dropped, claims>>

GetProfile(r, u) == AnswerRow(r, FindProfile(u))
GetConnection(r, u) == AnswerRow(r, FindConnection(u))

-----------------------------------------------------------------------------
(* The routes *)

Call(r, k, u, t, b) == Claim(r, [key |-> k, user |-> u, table |-> t, body |-> b])

PutProfile(r, u) ==
  \E k \in Keys, b \in Bodies["profile"] : Call(r, k, u, "profile", b)
PutConnection(r, u) ==
  \E k \in Keys, b \in Bodies["connection"] : Call(r, k, u, "connection", b)
PutSubscription(r, u) == \E k \in Keys : Call(r, k, u, "subscription", "on")
DeleteSubscription(r, u) == \E k \in Keys : Call(r, k, u, "subscription", "off")

Arrive(r) ==
  \E u \in Users :
    \/ PutProfile(r, u) \/ PutConnection(r, u) \/ PutSubscription(r, u)
    \/ DeleteSubscription(r, u) \/ GetProfile(r, u) \/ GetConnection(r, u)

Progress(r) ==
  \/ Inspect(r) \/ Complete(r) \/ Abort(r)
  \/ UpdateProfile(r) \/ LinkDefaultConnection(r) \/ SetSubscription(r)

-----------------------------------------------------------------------------
(* Failures *)

\* an exception in the handler before its COMMIT
HandlerFails(r) ==
  /\ stage[r] \in {"claimed", "found", "merged"}
  /\ dirty' = [dirty EXCEPT ![r] = "none"]
  /\ Goto(r, "aborting")
  /\ UNCHANGED <<record, req, row, answer, dropped, claims>>

\* complete raises, whether or not the script has run
CompleteFails(r) ==
  /\ stage[r] = "executed"
  /\ record' \in {record, Completed(r)}
  /\ Goto(r, "aborting")
  /\ UNCHANGED <<req, dirty, row, answer, dropped, claims>>

\* abort raises, or the process dies: the record stays as it is
Dies(r) ==
  /\ stage[r] \in Working \cup {"aborting"}
  /\ dirty' = [dirty EXCEPT ![r] = "none"]
  /\ End(r, "failed")
  /\ UNCHANGED <<record, row, answer, dropped, claims>>

\* the key expires after a day, or a Redis failover loses it
DropRecord(k) ==
  /\ record[k] # None
  /\ record' = [record EXCEPT ![k] = None]
  /\ dropped' = dropped \cup {k}
  /\ UNCHANGED <<stage, req, dirty, row, answer, claims>>

RequestFault(r) == HandlerFails(r) \/ CompleteFails(r) \/ Dies(r)

-----------------------------------------------------------------------------
(* Properties *)

\* Two requests with one key are never executed at the same time, and once one
\* was answered from its own execution no other is, as long as Redis keeps the
\* record: not after a lost reply, an abort that failed or a dead process.
KeyExecutesOnce ==
  \A r, q \in Requests :
    r # q /\ req[r] # None /\ req[q] # None /\ req[r].key = req[q].key
      => \/ req[r].key \in dropped
         \/ /\ ~(stage[r] \in Working /\ stage[q] \in Working)
            /\ ~(stage[r] = "done" /\ stage[q] \in Working \cup {"done"})

\* The answer comes from the record of another call with the same key and
\* fingerprint: another user's, or one that linked another deployment's account.
AnsweredForAnother(r) ==
  /\ stage[r] = "replayed"
  /\ \E c \in claims \ {req[r]} :
       /\ c.key = req[r].key /\ Fingerprint(c) = Fingerprint(req[r])
       /\ answer[r] = Asked(c)

\* Every request that succeeds is answered with the row it asked for, also one
\* that is answered from a record, and also when Redis lost the claim of an
\* execution that is still running and another request has taken the key. The
\* one exception is what the code does when users share a key: nothing in a
\* record says whose it is, so a call with the same key, route and request body
\* gets the row of the user who claimed the key. No other body is ever returned
\* for a profile or a subscription, and nobody is answered from a key that no
\* equal call has claimed.
AnswersMatchRequest ==
  \A r \in Requests :
    stage[r] \in {"done", "replayed"} =>
      answer[r] = Asked(req[r]) \/ AnsweredForAnother(r)
=============================================================================

-------------------------- MODULE IdentitySessions --------------------------
(***************************************************************************)
(* The identity of one email address: its login_accounts row, the audit    *)
(* records of its operator grants, and its bearer sessions in Redis, which *)
(* are one key for each session and one index set for the user.            *)
(*                                                                         *)
(*   signup  find_by_email | hash the password | INSERT and COMMIT         *)
(*   login   read the account | check the password | SET, SADD, EXPIRE     *)
(*   grant   read the account | UPDATE, audit, COMMIT | SMEMBERS | DEL     *)
(*                                                                         *)
(* A bar is where other requests run. A signup, a login and a grant have   *)
(* one name for all they create: the user, the session, the audit record.  *)
(***************************************************************************)
EXTENDS Integers, FiniteSets

CONSTANTS
  Signups,    \* POST /signup calls with this email
  Logins,     \* POST /login calls with this email
  Grants,     \* runs of provision_operator for this email
  Ttl,        \* _ttl_seconds of a session and of the index
  MaxFaults,  \* bound: Redis errors
  None

ASSUME BoundsAssumption == Ttl \in Nat \ {0} /\ MaxFaults \in Nat
VARIABLES
  account,   \* login_accounts row
  audits,    \* access_level_audits rows
  signup,    \* how far a signup is
  login,     \* how far a login is
  seen,      \* the account a login or a grant has read
  grant,     \* how far a grant is
  victims,   \* the session ids its SMEMBERS returned
  session,   \* the session keys
  index,     \* the user's set of session ids
  call,      \* a refresh or a revoke of a session that has done its GET
  answer,    \* what a bearer was last told
  racing,    \* history: grants that had read "user" when the first committed
  before,    \* history: sessions that existed when a grant committed
  orphans,   \* history: sessions created between a SMEMBERS and its DEL
  faultsLeft

accountVars == <<account, audits, signup, racing>>
storeVars == <<session, index, call, answer, orphans>>
grantVars == <<grant, victims, before>>
vars == <<accountVars, storeVars, grantVars, login, seen, faultsLeft>>

AccessLevel == {"user", "operator", "developer", "administrator"}
ACCESS_LEVEL_RANK ==
  [user |-> 10, operator |-> 20, developer |-> 30, administrator |-> 40]

LoginAccount == [user : Signups, access_level : AccessLevel]
SessionData == [user : Signups, access_level : AccessLevel, ttl : 1..Ttl]
IndexEntry == [members : (SUBSET Logins) \ {{}}, ttl : 1..Ttl]

ASSUME NamesAssumption ==
  /\ None \notin LoginAccount \cup SessionData \cup IndexEntry
  /\ Logins \cap Grants = {}

TypeOK ==
  /\ account \in LoginAccount \cup {None}
  /\ audits \subseteq Grants
  /\ signup \in [Signups -> {"idle", "free", "created", "refused", "conflict"}]
  /\ login \in [Logins -> {"idle", "read", "created", "refused"}]
  /\ seen \in [Logins \cup Grants -> LoginAccount \cup {None}]
  /\ grant \in [Grants -> {"idle", "read", "committed", "listed", "done", "failed"}]
  /\ victims \in [Grants -> SUBSET Logins]
  /\ session \in [Logins -> SessionData \cup {None}]
  /\ index \in IndexEntry \cup {None}
  /\ call \in [Logins -> {"none", "refresh", "revoke"}]
  /\ answer \in {"none", "invalid", "user", "operator"}
  /\ racing \subseteq Grants
  /\ before \in [Grants -> SUBSET Logins]
  /\ orphans \subseteq Logins
  /\ faultsLeft \in 0..MaxFaults

Init ==
  /\ account = None
  /\ audits = {}
  /\ signup = [s \in Signups |-> "idle"]
  /\ login = [l \in Logins |-> "idle"]
  /\ seen = [r \in Logins \cup Grants |-> None]
  /\ grant = [g \in Grants |-> "idle"]
  /\ victims = [g \in Grants |-> {}]
  /\ session = [l \in Logins |-> None]
  /\ index = None
  /\ call = [l \in Logins |-> "none"]
  /\ answer = "none"
  /\ racing = {}
  /\ before = [g \in Grants |-> {}]
  /\ orphans = {}
  /\ faultsLeft = MaxFaults

Alive == {l \in Logins : session[l] # None}

-----------------------------------------------------------------------------
(* The Redis session store *)

Members == IF index = None THEN {} ELSE index.members

\* a set in Redis that has no members is no key
IndexOf(members, ttl) ==
  IF members = {} THEN None ELSE [members |-> members, ttl |-> ttl]

\* SET ex, SADD and EXPIRE in one transaction
Create(l, acc) ==
  /\ session' = [session EXCEPT ![l] =
       [user |-> acc.user, access_level |-> acc.access_level, ttl |-> Ttl]]
  /\ index' = IndexOf(Members \cup {l}, Ttl)

Get(l) == session[l]

\* The lifetime is added to what is left of the keys.
ExpireLater(l) ==
  /\ session' = IF Get(l) = None THEN session
                ELSE [session EXCEPT ![l].ttl = @ + Ttl]
  /\ index' = IF index = None THEN None ELSE [index EXCEPT !.ttl = @ + Ttl]

\* Only the key of the session is extended.
ExpireSessionOnly(l) ==
  /\ session' = IF Get(l) = None THEN session
                ELSE [session EXCEPT ![l].ttl = Ttl]
  /\ UNCHANGED index

\* The session that was read is written back.
SetAgain(l) ==
  /\ session' = [session EXCEPT ![l] =
       [user |-> account.user, access_level |-> account.access_level, ttl |-> Ttl]]
  /\ index' = IF index = None THEN None ELSE [index EXCEPT !.ttl = Ttl]

\* the second half of refresh: EXPIRE of both keys, of those that still exist
Expire(l) ==
  /\ session' = IF Get(l) = None THEN session
                ELSE [session EXCEPT ![l].ttl = Ttl]
  /\ index' = IF index = None THEN None ELSE [index EXCEPT !.ttl = Ttl]

\* the second half of revoke: DEL and SREM
Remove(l) ==
  /\ session' = [session EXCEPT ![l] = None]
  /\ index' = IF index = None THEN None ELSE IndexOf(Members \ {l}, index.ttl)

\* refresh and revoke do nothing unless their GET finds the session
StartCall(l, operation) ==
  /\ Get(l) # None
  /\ call[l] = "none"
  /\ call' = [call EXCEPT ![l] = operation]
  /\ UNCHANGED <<accountVars, session, index, answer, orphans, grantVars, login,
                 seen, faultsLeft>>

FinishCall(l) ==
  /\ \/ call[l] = "refresh" /\ Expire(l)
     \/ call[l] = "revoke" /\ Remove(l)
  /\ call' = [call EXCEPT ![l] = "none"]
  /\ UNCHANGED <<accountVars, answer, orphans, grantVars, login, seen, faultsLeft>>

\* one second: what has expired is gone
Tick ==
  /\ Alive # {} \/ index # None
  /\ session' = [l \in Logins |->
       IF session[l] = None \/ session[l].ttl = 1 THEN None
       ELSE [session[l] EXCEPT !.ttl = @ - 1]]
  /\ index' = IF index = None \/ index.ttl = 1 THEN None
              ELSE [index EXCEPT !.ttl = @ - 1]
  /\ UNCHANGED <<accountVars, call, answer, orphans, grantVars, login, seen, faultsLeft>>

-----------------------------------------------------------------------------
(* LoginAccount and AccessLevelAudit repositories *)

FindByEmail == account

\* Session.merge of a new user_id inserts; email is UNIQUE
SaveNew(s) == account' = [user |-> s, access_level |-> "user"]

SaveOperator == account' = [account EXCEPT !.access_level = "operator"]

SaveAudit(g) == audits' = audits \cup {g}

-----------------------------------------------------------------------------
(* signup *)

SignupFind(s) ==
  /\ signup[s] = "idle"
  /\ signup' = [signup EXCEPT ![s] = IF FindByEmail = None THEN "free" ELSE "refused"]
  /\ UNCHANGED <<account, audits, racing, storeVars, grantVars, login, seen, faultsLeft>>

\* Without the UNIQUE constraint the last signup owns the email.
SignupOverwrites(s) ==
  /\ signup[s] = "free"
  /\ SaveNew(s)
  /\ signup' = [signup EXCEPT ![s] = "created"]
  /\ UNCHANGED <<audits, racing, storeVars, grantVars, login, seen, faultsLeft>>

\* the password is hashed, the row saved; a taken email is an IntegrityError
SignupCommit(s) ==
  /\ signup[s] = "free"
  /\ IF account = None
       THEN SaveNew(s) /\ signup' = [signup EXCEPT ![s] = "created"]
       ELSE UNCHANGED account /\ signup' = [signup EXCEPT ![s] = "conflict"]
  /\ UNCHANGED <<audits, racing, storeVars, grantVars, login, seen, faultsLeft>>

PostSignup(s) == SignupFind(s) \/ SignupCommit(s)

-----------------------------------------------------------------------------
(* login *)

\* either answer: passwords are not modelled
VerifyPassword == BOOLEAN

\* the account in a transaction of its own, then the password; 401 when the
\* account is missing or the password is wrong
LoginRead(l) ==
  /\ login[l] = "idle"
  /\ \E valid_password \in VerifyPassword :
       IF FindByEmail # None /\ valid_password
         THEN /\ login' = [login EXCEPT ![l] = "read"]
              /\ seen' = [seen EXCEPT ![l] = FindByEmail]
         ELSE login' = [login EXCEPT ![l] = "refused"] /\ UNCHANGED seen
  /\ UNCHANGED <<accountVars, storeVars, grantVars, faultsLeft>>

\* the session carries the access level of the account that was read
LoginCreate(l) ==
  /\ login[l] = "read"
  /\ Create(l, seen[l])
  /\ login' = [login EXCEPT ![l] = "created"]
  /\ seen' = [seen EXCEPT ![l] = None]
  /\ UNCHANGED <<accountVars, call, answer, orphans, grantVars, faultsLeft>>

PostLogin(l) == LoginRead(l) \/ LoginCreate(l)

-----------------------------------------------------------------------------
(* Requests with a bearer session *)

\* require_access_level
Admits(level, required) ==
  level \in AccessLevel /\ ACCESS_LEVEL_RANK[level] >= ACCESS_LEVEL_RANK[required]

\* get_current_session and its 401
CurrentSession(l) == Get(l)

Answer(what) ==
  /\ answer' = what
  /\ UNCHANGED <<accountVars, session, index, call, orphans, grantVars, login, seen,
                 faultsLeft>>

\* POST /session/validate
ValidateSession(l) ==
  login[l] = "created" /\ Answer(IF Get(l) = None THEN "invalid" ELSE "user")

\* GET /operator/session: 401, 403 or the session of an operator
GetOperatorSession(l) ==
  /\ login[l] = "created"
  /\ Answer(IF CurrentSession(l) # None
                 /\ Admits(CurrentSession(l).access_level, "operator")
            THEN "operator" ELSE "invalid")

-----------------------------------------------------------------------------
(* grant_operator_access *)

\* An account that is missing or above operator is refused.
GrantRead(g) ==
  /\ grant[g] = "idle"
  /\ grant' = [grant EXCEPT ![g] =
       IF FindByEmail = None \/ FindByEmail.access_level \notin {"user", "operator"}
       THEN "failed" ELSE "read"]
  /\ seen' = [seen EXCEPT ![g] = FindByEmail]
  /\ UNCHANGED <<accountVars, storeVars, victims, before, login, faultsLeft>>

WouldChange(g) == grant[g] = "read" /\ seen[g].access_level = "user"

\* The audit record is written for every grant.
AuditAlways(g) ==
  /\ grant[g] = "read"
  /\ SaveOperator /\ SaveAudit(g)
  /\ racing' = IF audits = {} THEN {h \in Grants : WouldChange(h)} ELSE racing
  /\ grant' = [grant EXCEPT ![g] = "committed"]
  /\ before' = [before EXCEPT ![g] = Alive]
  /\ seen' = [seen EXCEPT ![g] = None]
  /\ UNCHANGED <<signup, storeVars, victims, login, faultsLeft>>

\* A grant that changes nothing returns without revoking.
RevokeOnlyAfterChange(g) ==
  /\ grant[g] = "read"
  /\ IF WouldChange(g)
       THEN /\ SaveOperator /\ SaveAudit(g)
            /\ racing' = IF audits = {} THEN {h \in Grants : WouldChange(h)} ELSE racing
            /\ grant' = [grant EXCEPT ![g] = "committed"]
       ELSE UNCHANGED <<account, audits, racing>> /\ grant' = [grant EXCEPT ![g] = "done"]
  /\ before' = [before EXCEPT ![g] = Alive]
  /\ seen' = [seen EXCEPT ![g] = None]
  /\ UNCHANGED <<signup, storeVars, victims, login, faultsLeft>>

\* the change and its audit record commit together; an operator stays one
GrantCommit(g) ==
  /\ grant[g] = "read"
  /\ IF WouldChange(g)
       THEN /\ SaveOperator /\ SaveAudit(g)
            /\ racing' = IF audits = {} THEN {h \in Grants : WouldChange(h)} ELSE racing
       ELSE UNCHANGED <<account, audits, racing>>
  /\ grant' = [grant EXCEPT ![g] = "committed"]
  /\ before' = [before EXCEPT ![g] = Alive]
  /\ seen' = [seen EXCEPT ![g] = None]
  /\ UNCHANGED <<signup, storeVars, victims, login, faultsLeft>>

\* revoke_user_sessions: SMEMBERS; with no member it is done
RevokeList(g) ==
  /\ grant[g] = "committed"
  /\ victims' = [victims EXCEPT ![g] = Members]
  /\ grant' = [grant EXCEPT ![g] = IF Members = {} THEN "done" ELSE "listed"]
  /\ UNCHANGED <<accountVars, storeVars, before, login, seen, faultsLeft>>

\* revoke_user_sessions: one DEL of the listed sessions and of the whole index
RevokeDelete(g) ==
  /\ grant[g] = "listed"
  /\ session' = [l \in Logins |-> IF l \in victims[g] THEN None ELSE session[l]]
  /\ index' = None
  /\ orphans' = orphans \cup ((Members \cap Alive) \ victims[g])
  /\ grant' = [grant EXCEPT ![g] = "done"]
  /\ victims' = [victims EXCEPT ![g] = {}]
  /\ UNCHANGED <<accountVars, call, answer, before, login, seen, faultsLeft>>

ProvisionOperator(g) ==
  GrantRead(g) \/ GrantCommit(g) \/ RevokeList(g) \/ RevokeDelete(g)

-----------------------------------------------------------------------------
(* Redis raises: the request fails where it is and nothing is undone. *)

Fault == faultsLeft > 0 /\ faultsLeft' = faultsLeft - 1

CreateFails(l) ==
  /\ login[l] = "read" /\ Fault
  /\ login' = [login EXCEPT ![l] = "refused"]
  /\ seen' = [seen EXCEPT ![l] = None]
  /\ UNCHANGED <<accountVars, storeVars, grantVars>>

RevokeFails(g) ==
  /\ grant[g] \in {"committed", "listed"} /\ Fault
  /\ grant' = [grant EXCEPT ![g] = "failed"]
  /\ victims' = [victims EXCEPT ![g] = {}]
  /\ before' = [before EXCEPT ![g] = {}]
  /\ UNCHANGED <<accountVars, storeVars, login, seen>>

-----------------------------------------------------------------------------

Next ==
  \/ Tick
  \/ \E s \in Signups : PostSignup(s)
  \/ \E l \in Logins :
       \/ PostLogin(l) \/ CreateFails(l)
       \/ ValidateSession(l) \/ GetOperatorSession(l)
       \/ \E operation \in {"refresh", "revoke"} : StartCall(l, operation)
       \/ FinishCall(l)
  \/ \E g \in Grants : ProvisionOperator(g) \/ RevokeFails(g)

Spec == Init /\ [][Next]_vars

-----------------------------------------------------------------------------
(* Properties *)

\* However signups for one email overlap between the lookup and the INSERT, the
\* account belongs to the only one that was answered with success, for ever.
OneAccountPerEmail ==
  \A s \in Signups : signup[s] = "created" <=> account # None /\ account.user = s

\* The account is an operator exactly when the audit trail says so, there are
\* several records only for grants that had all read "user" before the first of
\* them committed, and nobody is admitted to an operator route off the record.
AuditTrail ==
  /\ audits # {} <=> account # None /\ account.access_level = "operator"
  /\ audits \subseteq racing
  /\ answer = "operator" => audits # {}

\* A grant that returns has revoked every session that existed when it
\* committed, also when an earlier grant failed before it could: the only ones
\* that live on were created between the SMEMBERS and the DEL of some grant.
RevokesEarlierSessions ==
  \A g \in Grants : grant[g] = "done" => before[g] \cap Alive \subseteq orphans

\* A live session is in the index, which lives at least as long, so that a later
\* revocation finds it, except for those whose index was deleted under them.
LiveSessionsIndexed ==
  \A l \in Alive \ orphans :
    index # None /\ l \in index.members /\ index.ttl >= session[l].ttl

\* A session that was revoked or has expired never comes back, although refresh
\* reads it and extends it in two steps.
NeverRevived ==
  [][\A l \in Logins : login[l] = "created" /\ l \notin Alive => l \notin Alive']_vars
=============================================================================

----------------------- MODULE IdentitySessionsProofs -----------------------
(***************************************************************************)
(* IInv is an inductive invariant of IdentitySessions for any signups,     *)
(* logins, grants and session lifetime; the account, the audit trail and   *)
(* the revocation of sessions are correct because of it.                   *)
(***************************************************************************)
EXTENDS IdentitySessions, TLAPS

\* A request that goes on has found an account.
ReadsFound ==
  /\ \A l \in Logins : login[l] = "read" => seen[l] # None
  /\ \A g \in Grants : grant[g] = "read" => seen[g] # None

\* Whatever was read of the account is below operator or on the record.
LevelsOnRecord ==
  /\ account # None => account.access_level \in {"user", "operator"}
  /\ \A r \in Logins \cup Grants :
       seen[r] # None => account # None /\ (seen[r].access_level # "user" => audits # {})
  /\ \A l \in Alive : session[l].access_level # "user" => audits # {}

\* Once a grant is on the record, the others that will change the account raced
\* with it.
RacersKnown == audits # {} => \A h \in Grants : WouldChange(h) => h \in racing

\* A session exists from its login on, and never before.
SessionsCreated ==
  /\ \A l \in Alive : login[l] = "created"
  /\ \A g \in Grants : \A l \in before[g] : login[l] = "created"

\* What a grant has listed are the sessions it has to revoke.
VictimsListed ==
  \A g \in Grants :
    grant[g] = "listed" => before[g] \cap Alive \subseteq victims[g] \cup orphans

IInv ==
  /\ TypeOK
  /\ OneAccountPerEmail
  /\ AuditTrail
  /\ ReadsFound
  /\ LevelsOnRecord
  /\ RacersKnown
  /\ SessionsCreated
  /\ LiveSessionsIndexed
  /\ VictimsListed
  /\ RevokesEarlierSessions

-----------------------------------------------------------------------------

\* The UPDATE of a grant that read "user" finds the row and changes its level
\* only.
LEMMA OperatorSaved ==
  ASSUME IInv, NEW g \in Grants, WouldChange(g), SaveOperator
  PROVE  /\ account # None
         /\ account' \in LoginAccount /\ account' # None
         /\ account'.user = account.user /\ account'.access_level = "operator"
  <1>1. account \in LoginAccount /\ account # None
    BY NamesAssumption
       DEF IInv, TypeOK, WouldChange, ReadsFound, LevelsOnRecord
  <1> QED BY <1>1, NamesAssumption DEF SaveOperator, LoginAccount, AccessLevel

\* Every step of every request, every expiry and every failure keep IInv.
LEMMA StepPreserves == IInv /\ [Next]_vars => IInv'
  <1> SUFFICES ASSUME IInv, [Next]_vars PROVE IInv'
    OBVIOUS
  <1>1. ASSUME Tick
        PROVE  IInv'
    <2>1. TypeOK'
      <3>1. session' \in [Logins -> SessionData \cup {None}]
        BY <1>1, BoundsAssumption DEF Tick, IInv, TypeOK, SessionData
      <3>2. index' \in IndexEntry \cup {None}
        BY <1>1, BoundsAssumption DEF Tick, IInv, TypeOK, IndexEntry
      <3> QED
        BY <3>1, <3>2, <1>1 DEF Tick, accountVars, grantVars, IInv, TypeOK
    <2>2. LevelsOnRecord'
      BY <1>1, NamesAssumption DEF Tick, accountVars, storeVars, grantVars,
         IInv, LevelsOnRecord, Alive, TypeOK
    <2>3. SessionsCreated'
      BY <1>1, NamesAssumption DEF Tick, accountVars, storeVars, grantVars,
         IInv, SessionsCreated, Alive, TypeOK
    <2>4. LiveSessionsIndexed'
      BY <1>1, NamesAssumption, BoundsAssumption DEF Tick, accountVars,
         storeVars, grantVars, IInv, LiveSessionsIndexed, Alive, TypeOK,
         SessionData, IndexEntry
    <2>5. VictimsListed'
      BY <1>1, NamesAssumption DEF Tick, accountVars, storeVars, grantVars,
         IInv, VictimsListed, Alive, TypeOK
    <2>6. RevokesEarlierSessions'
      BY <1>1, NamesAssumption DEF Tick, accountVars, storeVars, grantVars,
         IInv, RevokesEarlierSessions, Alive, TypeOK
    <2>7. /\ OneAccountPerEmail' /\ AuditTrail' /\ ReadsFound'
          /\ RacersKnown'
      BY <1>1 DEF Tick, accountVars, storeVars, grantVars, IInv,
         OneAccountPerEmail, AuditTrail, ReadsFound, RacersKnown, Alive,
         WouldChange
    <2> QED BY <2>1, <2>2, <2>3, <2>4, <2>5, <2>6, <2>7 DEF IInv
  <1>2. ASSUME NEW s \in Signups, SignupFind(s)
        PROVE  IInv'
    <2>1. TypeOK'
      BY <1>2, NamesAssumption, BoundsAssumption DEF SignupFind, accountVars,
         storeVars, grantVars, IInv, TypeOK
    <2>2. OneAccountPerEmail'
      BY <1>2, NamesAssumption DEF SignupFind, accountVars, storeVars,
         grantVars, IInv, OneAccountPerEmail, TypeOK
    <2>3. /\ AuditTrail' /\ ReadsFound' /\ LevelsOnRecord' /\ RacersKnown'
          /\ SessionsCreated' /\ LiveSessionsIndexed' /\ VictimsListed'
          /\ RevokesEarlierSessions'
      BY <1>2 DEF SignupFind, accountVars, storeVars, grantVars, IInv,
         AuditTrail, ReadsFound, LevelsOnRecord, RacersKnown,
         SessionsCreated, LiveSessionsIndexed, VictimsListed,
         RevokesEarlierSessions, Alive, WouldChange
    <2> QED BY <2>1, <2>2, <2>3 DEF IInv
  <1>3. ASSUME NEW s \in Signups, SignupCommit(s)
        PROVE  IInv'
    <2>1. TypeOK'
      <3>1. account' \in LoginAccount \cup {None}
        BY <1>3 DEF SignupCommit, SaveNew, IInv, TypeOK, LoginAccount,
           AccessLevel
      <3> QED
        BY <3>1, <1>3 DEF SignupCommit, storeVars, grantVars, IInv, TypeOK
    <2>2. OneAccountPerEmail'
      <3>1. CASE account = None
        <4>1. /\ account' = [user |-> s, access_level |-> "user"]
              /\ signup' = [signup EXCEPT ![s] = "created"]
          BY <3>1, <1>3 DEF SignupCommit, SaveNew
        <4>2. account' # None
          BY <4>1, NamesAssumption DEF LoginAccount, AccessLevel
        <4> QED BY <3>1, <4>1, <4>2 DEF IInv, TypeOK, OneAccountPerEmail
      <3>2. CASE account # None
        BY <3>2, <1>3 DEF SignupCommit, IInv, TypeOK, OneAccountPerEmail
      <3> QED BY <3>1, <3>2
    <2>3. AuditTrail'
      BY <1>3, NamesAssumption DEF SignupCommit, SaveNew, accountVars,
         storeVars, grantVars, IInv, AuditTrail, TypeOK
    <2>4. LevelsOnRecord'
      BY <1>3, NamesAssumption DEF SignupCommit, SaveNew, accountVars,
         storeVars, grantVars, IInv, LevelsOnRecord, Alive, TypeOK
    <2>5. /\ ReadsFound' /\ RacersKnown' /\ SessionsCreated'
          /\ LiveSessionsIndexed' /\ VictimsListed'
          /\ RevokesEarlierSessions'
      BY <1>3 DEF SignupCommit, SaveNew, accountVars, storeVars, grantVars,
         IInv, ReadsFound, RacersKnown, SessionsCreated, LiveSessionsIndexed,
         VictimsListed, RevokesEarlierSessions, Alive, WouldChange
    <2> QED BY <2>1, <2>2, <2>3, <2>4, <2>5 DEF IInv
  <1>4. ASSUME NEW l \in Logins, LoginRead(l)
        PROVE  IInv'
    <2>1. TypeOK'
      BY <1>4, NamesAssumption, BoundsAssumption DEF LoginRead, FindByEmail,
         accountVars, storeVars, grantVars, IInv, TypeOK
    <2>2. ReadsFound'
      BY <1>4, NamesAssumption DEF LoginRead, FindByEmail, accountVars,
         storeVars, grantVars, IInv, ReadsFound, TypeOK
    <2>3. LevelsOnRecord'
      BY <1>4, NamesAssumption DEF LoginRead, FindByEmail, accountVars,
         storeVars, grantVars, IInv, LevelsOnRecord, Alive, TypeOK,
         AuditTrail
    <2>4. RacersKnown'
      BY <1>4, NamesAssumption DEF LoginRead, FindByEmail, accountVars,
         storeVars, grantVars, IInv, RacersKnown, WouldChange, TypeOK
    <2>5. SessionsCreated'
      BY <1>4, NamesAssumption DEF LoginRead, FindByEmail, accountVars,
         storeVars, grantVars, IInv, SessionsCreated, Alive, TypeOK
    <2>6. /\ OneAccountPerEmail' /\ AuditTrail' /\ LiveSessionsIndexed'
          /\ VictimsListed' /\ RevokesEarlierSessions'
      BY <1>4 DEF LoginRead, FindByEmail, accountVars, storeVars, grantVars,
         IInv, OneAccountPerEmail, AuditTrail, LiveSessionsIndexed,
         VictimsListed, RevokesEarlierSessions, Alive, WouldChange
    <2> QED BY <2>1, <2>2, <2>3, <2>4, <2>5, <2>6 DEF IInv
  <1>5. ASSUME NEW l \in Logins, LoginCreate(l)
        PROVE  IInv'
    <2>1. TypeOK'
      <3>1. seen[l] \in LoginAccount
        BY <1>5 DEF LoginCreate, IInv, TypeOK, ReadsFound
      <3>2. session' \in [Logins -> SessionData \cup {None}]
        BY <3>1, <1>5, BoundsAssumption
           DEF LoginCreate, Create, IInv, TypeOK, LoginAccount, SessionData
      <3>3. Members \subseteq Logins
        BY DEF IInv, TypeOK, Members, IndexEntry
      <3>4. index' \in IndexEntry \cup {None}
        BY <3>3, <1>5, BoundsAssumption DEF LoginCreate, Create, IndexOf,
           IndexEntry
      <3>5. seen' \in [Logins \cup Grants -> LoginAccount \cup {None}]
        BY <1>5 DEF LoginCreate, IInv, TypeOK
      <3>6. login' \in [Logins -> {"idle", "read", "created", "refused"}]
        BY <1>5 DEF LoginCreate, IInv, TypeOK
      <3> QED
        BY <3>2, <3>4, <3>5, <3>6, <1>5 DEF LoginCreate, accountVars,
           grantVars, IInv, TypeOK
    <2>2. ReadsFound'
      BY <1>5, NamesAssumption DEF LoginCreate, Create, accountVars,
         storeVars, grantVars, IInv, ReadsFound, TypeOK
    <2>3. LevelsOnRecord'
      BY <1>5, NamesAssumption DEF LoginCreate, Create, accountVars,
         storeVars, grantVars, IInv, LevelsOnRecord, Alive, TypeOK,
         ReadsFound
    <2>4. RacersKnown'
      BY <1>5, NamesAssumption DEF LoginCreate, Create, accountVars,
         storeVars, grantVars, IInv, RacersKnown, WouldChange, TypeOK
    <2>5. SessionsCreated'
      BY <1>5, NamesAssumption DEF LoginCreate, Create, accountVars,
         storeVars, grantVars, IInv, SessionsCreated, Alive, TypeOK
    <2>6. LiveSessionsIndexed'
      <3>1. index' = [members |-> Members \cup {l}, ttl |-> Ttl]
        BY <1>5 DEF LoginCreate, Create, IndexOf
      <3>2. index' # None
        <4>1. Members \subseteq Logins
          BY DEF IInv, TypeOK, Members, IndexEntry
        <4>2. index' \in IndexEntry
          BY <3>1, <4>1, BoundsAssumption DEF IndexEntry
        <4> QED BY <4>2, NamesAssumption
      <3> SUFFICES ASSUME NEW m \in Alive' \ orphans'
                   PROVE  m \in index'.members /\ index'.ttl >= session'[m].ttl
        BY <3>2 DEF LiveSessionsIndexed
      <3>3. CASE m = l
        BY <3>1, <3>3, <1>5, BoundsAssumption DEF LoginCreate, Create, IInv,
           TypeOK
      <3>4. CASE m # l
        <4>1. session'[m] = session[m] /\ m \in Alive \ orphans
          BY <3>4, <1>5 DEF LoginCreate, Create, Alive, IInv, TypeOK
        <4>2. m \in Members
          BY <4>1 DEF IInv, LiveSessionsIndexed, Members
        <4> QED
          BY <3>1, <4>1, <4>2, BoundsAssumption DEF IInv, TypeOK, Alive,
             SessionData
      <3> QED BY <3>3, <3>4
    <2>7. VictimsListed'
      BY <1>5, NamesAssumption DEF LoginCreate, Create, accountVars,
         storeVars, grantVars, IInv, VictimsListed, Alive, TypeOK,
         SessionsCreated
    <2>8. RevokesEarlierSessions'
      BY <1>5, NamesAssumption DEF LoginCreate, Create, accountVars,
         storeVars, grantVars, IInv, RevokesEarlierSessions, Alive, TypeOK,
         SessionsCreated
    <2>9. /\ OneAccountPerEmail' /\ AuditTrail'
      BY <1>5 DEF LoginCreate, Create, accountVars, storeVars, grantVars,
         IInv, OneAccountPerEmail, AuditTrail, Alive, WouldChange
    <2> QED BY <2>1, <2>2, <2>3, <2>4, <2>5, <2>6, <2>7, <2>8, <2>9 DEF IInv
  <1>6. ASSUME NEW l \in Logins, CreateFails(l)
        PROVE  IInv'
    <2>1. TypeOK'
      BY <1>6, NamesAssumption, BoundsAssumption DEF CreateFails,
         accountVars, storeVars, grantVars, IInv, TypeOK, Fault
    <2>2. ReadsFound'
      BY <1>6, NamesAssumption DEF CreateFails, accountVars, storeVars,
         grantVars, IInv, ReadsFound, TypeOK
    <2>3. LevelsOnRecord'
      BY <1>6, NamesAssumption DEF CreateFails, accountVars, storeVars,
         grantVars, IInv, LevelsOnRecord, Alive, TypeOK
    <2>4. RacersKnown'
      BY <1>6, NamesAssumption DEF CreateFails, accountVars, storeVars,
         grantVars, IInv, RacersKnown, WouldChange, TypeOK
    <2>5. SessionsCreated'
      BY <1>6, NamesAssumption DEF CreateFails, accountVars, storeVars,
         grantVars, IInv, SessionsCreated, Alive, TypeOK
    <2>6. /\ OneAccountPerEmail' /\ AuditTrail' /\ LiveSessionsIndexed'
          /\ VictimsListed' /\ RevokesEarlierSessions'
      BY <1>6 DEF CreateFails, accountVars, storeVars, grantVars, IInv,
         OneAccountPerEmail, AuditTrail, LiveSessionsIndexed, VictimsListed,
         RevokesEarlierSessions, Alive, WouldChange
    <2> QED BY <2>1, <2>2, <2>3, <2>4, <2>5, <2>6 DEF IInv
  <1>7. ASSUME NEW l \in Logins, ValidateSession(l)
        PROVE  IInv'
    <2>1. TypeOK'
      BY <1>7, NamesAssumption, BoundsAssumption DEF ValidateSession, Answer,
         accountVars, storeVars, grantVars, IInv, TypeOK
    <2>2. AuditTrail'
      BY <1>7, NamesAssumption DEF ValidateSession, Answer, accountVars,
         storeVars, grantVars, IInv, AuditTrail, TypeOK
    <2>3. /\ OneAccountPerEmail' /\ ReadsFound' /\ LevelsOnRecord'
          /\ RacersKnown' /\ SessionsCreated' /\ LiveSessionsIndexed'
          /\ VictimsListed' /\ RevokesEarlierSessions'
      BY <1>7 DEF ValidateSession, Answer, accountVars, storeVars, grantVars,
         IInv, OneAccountPerEmail, ReadsFound, LevelsOnRecord, RacersKnown,
         SessionsCreated, LiveSessionsIndexed, VictimsListed,
         RevokesEarlierSessions, Alive, WouldChange
    <2> QED BY <2>1, <2>2, <2>3 DEF IInv
  <1>8. ASSUME NEW l \in Logins, GetOperatorSession(l)
        PROVE  IInv'
    <2>1. TypeOK'
      BY <1>8, NamesAssumption, BoundsAssumption DEF GetOperatorSession,
         Answer, accountVars, storeVars, grantVars, IInv, TypeOK
    <2>2. AuditTrail'
      BY <1>8, NamesAssumption DEF GetOperatorSession, Answer, accountVars,
         storeVars, grantVars, IInv, AuditTrail, TypeOK, CurrentSession, Get,
         Admits, AccessLevel, ACCESS_LEVEL_RANK, LevelsOnRecord, Alive
    <2>3. /\ OneAccountPerEmail' /\ ReadsFound' /\ LevelsOnRecord'
          /\ RacersKnown' /\ SessionsCreated' /\ LiveSessionsIndexed'
          /\ VictimsListed' /\ RevokesEarlierSessions'
      BY <1>8 DEF GetOperatorSession, Answer, accountVars, storeVars,
         grantVars, IInv, OneAccountPerEmail, ReadsFound, LevelsOnRecord,
         RacersKnown, SessionsCreated, LiveSessionsIndexed, VictimsListed,
         RevokesEarlierSessions, Alive, WouldChange
    <2> QED BY <2>1, <2>2, <2>3 DEF IInv
  <1>9. ASSUME NEW l \in Logins, NEW operation \in {"refresh", "revoke"},
               StartCall(l, operation)
        PROVE  IInv'
    <2>1. TypeOK'
      BY <1>9, NamesAssumption, BoundsAssumption DEF StartCall, accountVars,
         storeVars, grantVars, IInv, TypeOK
    <2>2. /\ OneAccountPerEmail' /\ AuditTrail' /\ ReadsFound'
          /\ LevelsOnRecord' /\ RacersKnown' /\ SessionsCreated'
          /\ LiveSessionsIndexed' /\ VictimsListed'
          /\ RevokesEarlierSessions'
      BY <1>9 DEF StartCall, accountVars, storeVars, grantVars, IInv,
         OneAccountPerEmail, AuditTrail, ReadsFound, LevelsOnRecord,
         RacersKnown, SessionsCreated, LiveSessionsIndexed, VictimsListed,
         RevokesEarlierSessions, Alive, WouldChange
    <2> QED BY <2>1, <2>2 DEF IInv
  <1>10. ASSUME NEW l \in Logins, FinishCall(l)
        PROVE  IInv'
    <2>1. TypeOK'
      <3>1. session' \in [Logins -> SessionData \cup {None}]
        BY <1>10, BoundsAssumption DEF FinishCall, Expire, Remove, Get, IInv,
           TypeOK, SessionData
      <3>2. index' \in IndexEntry \cup {None}
        BY <1>10, BoundsAssumption
           DEF FinishCall, Expire, Remove, Members, IndexOf, IInv, TypeOK, IndexEntry
      <3> QED
        BY <3>1, <3>2, <1>10 DEF FinishCall, accountVars, grantVars, IInv,
           TypeOK
    <2>2. LevelsOnRecord'
      <3>1. ASSUME NEW m \in Alive'
            PROVE  m \in Alive /\ session'[m].access_level = session[m].access_level
        BY <1>10, NamesAssumption
           DEF FinishCall, Expire, Remove, Get, Alive, IInv, TypeOK, SessionData
      <3> QED BY <3>1, <1>10 DEF FinishCall, accountVars, IInv, LevelsOnRecord
    <2>3. SessionsCreated'
      BY <1>10, NamesAssumption DEF FinishCall, Expire, Remove, Get,
         accountVars, storeVars, grantVars, IInv, SessionsCreated, Alive,
         TypeOK
    <2>4. LiveSessionsIndexed'
      BY <1>10, NamesAssumption, BoundsAssumption DEF FinishCall, Expire,
         Remove, Get, accountVars, storeVars, grantVars, IInv,
         LiveSessionsIndexed, Alive, TypeOK, SessionData, IndexEntry,
         IndexOf, Members
    <2>5. VictimsListed'
      BY <1>10, NamesAssumption DEF FinishCall, Expire, Remove, Get,
         accountVars, storeVars, grantVars, IInv, VictimsListed, Alive,
         TypeOK
    <2>6. RevokesEarlierSessions'
      BY <1>10, NamesAssumption DEF FinishCall, Expire, Remove, Get,
         accountVars, storeVars, grantVars, IInv, RevokesEarlierSessions,
         Alive, TypeOK
    <2>7. /\ OneAccountPerEmail' /\ AuditTrail' /\ ReadsFound'
          /\ RacersKnown'
      BY <1>10 DEF FinishCall, Expire, Remove, Get, accountVars, storeVars,
         grantVars, IInv, OneAccountPerEmail, AuditTrail, ReadsFound,
         RacersKnown, Alive, WouldChange
    <2> QED BY <2>1, <2>2, <2>3, <2>4, <2>5, <2>6, <2>7 DEF IInv
  <1>11. ASSUME NEW g \in Grants, GrantRead(g)
        PROVE  IInv'
    <2>1. TypeOK'
      BY <1>11, NamesAssumption, BoundsAssumption DEF GrantRead, FindByEmail,
         accountVars, storeVars, grantVars, IInv, TypeOK
    <2>2. ReadsFound'
      BY <1>11, NamesAssumption DEF GrantRead, FindByEmail, accountVars,
         storeVars, grantVars, IInv, ReadsFound, TypeOK
    <2>3. LevelsOnRecord'
      BY <1>11, NamesAssumption DEF GrantRead, FindByEmail, accountVars,
         storeVars, grantVars, IInv, LevelsOnRecord, Alive, TypeOK,
         AuditTrail
    <2>4. RacersKnown'
      BY <1>11, NamesAssumption DEF GrantRead, FindByEmail, accountVars,
         storeVars, grantVars, IInv, RacersKnown, WouldChange, TypeOK,
         AuditTrail
    <2>5. VictimsListed'
      BY <1>11, NamesAssumption DEF GrantRead, FindByEmail, accountVars,
         storeVars, grantVars, IInv, VictimsListed, Alive, TypeOK
    <2>6. RevokesEarlierSessions'
      BY <1>11, NamesAssumption DEF GrantRead, FindByEmail, accountVars,
         storeVars, grantVars, IInv, RevokesEarlierSessions, Alive, TypeOK
    <2>7. /\ OneAccountPerEmail' /\ AuditTrail' /\ SessionsCreated'
          /\ LiveSessionsIndexed'
      BY <1>11 DEF GrantRead, FindByEmail, accountVars, storeVars, grantVars,
         IInv, OneAccountPerEmail, AuditTrail, SessionsCreated,
         LiveSessionsIndexed, Alive, WouldChange
    <2> QED BY <2>1, <2>2, <2>3, <2>4, <2>5, <2>6, <2>7 DEF IInv
  <1>12. ASSUME NEW g \in Grants, GrantCommit(g)
        PROVE  IInv'
    <2>1. TypeOK'
      <3>1. account' \in LoginAccount \cup {None}
        BY <1>12 DEF GrantCommit, SaveOperator, IInv, TypeOK, LoginAccount,
           AccessLevel,
           ReadsFound, LevelsOnRecord
      <3>2. audits' \subseteq Grants /\ racing' \subseteq Grants
        BY <1>12 DEF GrantCommit, SaveAudit, IInv, TypeOK
      <3>3. /\ grant' \in [Grants -> {"idle", "read", "committed", "listed", "done", "failed"}]
            /\ before' \in [Grants -> SUBSET Logins]
            /\ seen' \in [Logins \cup Grants -> LoginAccount \cup {None}]
        BY <1>12 DEF GrantCommit, Alive, IInv, TypeOK
      <3> QED
        BY <3>1, <3>2, <3>3, <1>12 DEF GrantCommit, storeVars, IInv, TypeOK
    <2>2. OneAccountPerEmail'
      <3>1. CASE WouldChange(g)
        BY <3>1, <1>12, OperatorSaved DEF GrantCommit, IInv, OneAccountPerEmail
      <3>2. CASE ~WouldChange(g)
        BY <3>2, <1>12 DEF GrantCommit, IInv, OneAccountPerEmail
      <3> QED BY <3>1, <3>2
    <2>3. AuditTrail'
      <3>1. CASE WouldChange(g)
        <4>1. audits' = audits \cup {g} /\ answer' = answer
          BY <3>1, <1>12 DEF GrantCommit, SaveAudit, storeVars
        <4>2. audits' \subseteq racing'
          BY <3>1, <4>1, <1>12 DEF GrantCommit, IInv, AuditTrail, RacersKnown
        <4> QED
          BY <3>1, <4>1, <4>2, <1>12, OperatorSaved DEF GrantCommit, AuditTrail
      <3>2. CASE ~WouldChange(g)
        BY <3>2, <1>12 DEF GrantCommit, storeVars, IInv, AuditTrail
      <3> QED BY <3>1, <3>2
    <2>4. ReadsFound'
      BY <1>12, NamesAssumption DEF GrantCommit, WouldChange, accountVars,
         storeVars, grantVars, IInv, ReadsFound, TypeOK
    <2>5. LevelsOnRecord'
      <3>1. CASE WouldChange(g)
        <4>1. audits' # {} /\ account' # None /\ account'.access_level = "operator"
          BY <3>1, <1>12, OperatorSaved DEF GrantCommit, SaveAudit
        <4> QED BY <4>1 DEF LevelsOnRecord
      <3>2. CASE ~WouldChange(g)
        BY <3>2, <1>12 DEF GrantCommit, storeVars, IInv, TypeOK,
           LevelsOnRecord, Alive
      <3> QED BY <3>1, <3>2
    <2>6. RacersKnown'
      BY <1>12, NamesAssumption DEF GrantCommit, WouldChange, accountVars,
         storeVars, grantVars, IInv, RacersKnown, TypeOK, SaveAudit
    <2>7. SessionsCreated'
      BY <1>12, NamesAssumption DEF GrantCommit, WouldChange, accountVars,
         storeVars, grantVars, IInv, SessionsCreated, Alive, TypeOK
    <2>8. VictimsListed'
      BY <1>12, NamesAssumption DEF GrantCommit, WouldChange, accountVars,
         storeVars, grantVars, IInv, VictimsListed, Alive, TypeOK
    <2>9. RevokesEarlierSessions'
      BY <1>12, NamesAssumption DEF GrantCommit, WouldChange, accountVars,
         storeVars, grantVars, IInv, RevokesEarlierSessions, Alive, TypeOK
    <2>10. LiveSessionsIndexed'
      BY <1>12 DEF GrantCommit, WouldChange, accountVars, storeVars,
         grantVars, IInv, LiveSessionsIndexed, Alive
    <2> QED
      BY <2>1, <2>2, <2>3, <2>4, <2>5, <2>6, <2>7, <2>8, <2>9, <2>10 DEF IInv
  <1>13. ASSUME NEW g \in Grants, RevokeList(g)
        PROVE  IInv'
    <2>1. TypeOK'
      BY <1>13, NamesAssumption, BoundsAssumption DEF RevokeList,
         accountVars, storeVars, grantVars, IInv, TypeOK, Members, IndexEntry
    <2>2. ReadsFound'
      BY <1>13, NamesAssumption DEF RevokeList, accountVars, storeVars,
         grantVars, IInv, ReadsFound, TypeOK
    <2>3. RacersKnown'
      BY <1>13, NamesAssumption DEF RevokeList, accountVars, storeVars,
         grantVars, IInv, RacersKnown, WouldChange, TypeOK
    <2>4. VictimsListed'
      BY <1>13, NamesAssumption DEF RevokeList, accountVars, storeVars,
         grantVars, IInv, VictimsListed, Alive, TypeOK, LiveSessionsIndexed,
         Members
    <2>5. RevokesEarlierSessions'
      BY <1>13, NamesAssumption DEF RevokeList, accountVars, storeVars,
         grantVars, IInv, RevokesEarlierSessions, Alive, TypeOK,
         LiveSessionsIndexed, Members
    <2>6. /\ OneAccountPerEmail' /\ AuditTrail' /\ LevelsOnRecord'
          /\ SessionsCreated' /\ LiveSessionsIndexed'
      BY <1>13 DEF RevokeList, accountVars, storeVars, grantVars, IInv,
         OneAccountPerEmail, AuditTrail, LevelsOnRecord, SessionsCreated,
         LiveSessionsIndexed, Alive, WouldChange
    <2> QED BY <2>1, <2>2, <2>3, <2>4, <2>5, <2>6 DEF IInv
  <1>14. ASSUME NEW g \in Grants, RevokeDelete(g)
        PROVE  IInv'
    <2>1. TypeOK'
      <3>1. session' \in [Logins -> SessionData \cup {None}]
        BY <1>14 DEF RevokeDelete, IInv, TypeOK
      <3>2. orphans' \subseteq Logins
        BY <1>14 DEF RevokeDelete, Alive, IInv, TypeOK
      <3>3. /\ grant' \in [Grants -> {"idle", "read", "committed", "listed", "done", "failed"}]
            /\ victims' \in [Grants -> SUBSET Logins]
        BY <1>14 DEF RevokeDelete, IInv, TypeOK
      <3> QED
        BY <3>1, <3>2, <3>3, <1>14 DEF RevokeDelete, accountVars, IInv, TypeOK
    <2>2. ReadsFound'
      BY <1>14, NamesAssumption DEF RevokeDelete, accountVars, storeVars,
         grantVars, IInv, ReadsFound, TypeOK
    <2>3. LevelsOnRecord'
      BY <1>14, NamesAssumption DEF RevokeDelete, accountVars, storeVars,
         grantVars, IInv, LevelsOnRecord, Alive, TypeOK
    <2>4. RacersKnown'
      BY <1>14, NamesAssumption DEF RevokeDelete, accountVars, storeVars,
         grantVars, IInv, RacersKnown, WouldChange, TypeOK
    <2>5. SessionsCreated'
      BY <1>14, NamesAssumption DEF RevokeDelete, accountVars, storeVars,
         grantVars, IInv, SessionsCreated, Alive, TypeOK
    <2>6. LiveSessionsIndexed'
      BY <1>14, NamesAssumption, BoundsAssumption DEF RevokeDelete,
         accountVars, storeVars, grantVars, IInv, LiveSessionsIndexed, Alive,
         TypeOK, SessionData, IndexEntry, Members
    <2>7. VictimsListed'
      BY <1>14, NamesAssumption DEF RevokeDelete, accountVars, storeVars,
         grantVars, IInv, VictimsListed, Alive, TypeOK
    <2>8. RevokesEarlierSessions'
      BY <1>14, NamesAssumption DEF RevokeDelete, accountVars, storeVars,
         grantVars, IInv, RevokesEarlierSessions, Alive, TypeOK,
         VictimsListed
    <2>9. /\ OneAccountPerEmail' /\ AuditTrail'
      BY <1>14 DEF RevokeDelete, accountVars, storeVars, grantVars, IInv,
         OneAccountPerEmail, AuditTrail, Alive, WouldChange
    <2> QED BY <2>1, <2>2, <2>3, <2>4, <2>5, <2>6, <2>7, <2>8, <2>9 DEF IInv
  <1>15. ASSUME NEW g \in Grants, RevokeFails(g)
        PROVE  IInv'
    <2>1. TypeOK'
      BY <1>15, NamesAssumption, BoundsAssumption DEF RevokeFails,
         accountVars, storeVars, grantVars, IInv, TypeOK, Fault
    <2>2. ReadsFound'
      BY <1>15, NamesAssumption DEF RevokeFails, accountVars, storeVars,
         grantVars, IInv, ReadsFound, TypeOK
    <2>3. RacersKnown'
      BY <1>15, NamesAssumption DEF RevokeFails, accountVars, storeVars,
         grantVars, IInv, RacersKnown, WouldChange, TypeOK
    <2>4. SessionsCreated'
      BY <1>15, NamesAssumption DEF RevokeFails, accountVars, storeVars,
         grantVars, IInv, SessionsCreated, Alive, TypeOK
    <2>5. VictimsListed'
      BY <1>15, NamesAssumption DEF RevokeFails, accountVars, storeVars,
         grantVars, IInv, VictimsListed, Alive, TypeOK
    <2>6. RevokesEarlierSessions'
      BY <1>15, NamesAssumption DEF RevokeFails, accountVars, storeVars,
         grantVars, IInv, RevokesEarlierSessions, Alive, TypeOK
    <2>7. /\ OneAccountPerEmail' /\ AuditTrail' /\ LevelsOnRecord'
          /\ LiveSessionsIndexed'
      BY <1>15 DEF RevokeFails, accountVars, storeVars, grantVars, IInv,
         OneAccountPerEmail, AuditTrail, LevelsOnRecord, LiveSessionsIndexed,
         Alive, WouldChange
    <2> QED BY <2>1, <2>2, <2>3, <2>4, <2>5, <2>6, <2>7 DEF IInv
  <1>16. CASE UNCHANGED vars
    BY <1>16 DEF vars, accountVars, storeVars, grantVars, IInv, TypeOK,
       OneAccountPerEmail, AuditTrail, ReadsFound, LevelsOnRecord,
       RacersKnown, SessionsCreated, LiveSessionsIndexed, VictimsListed,
       RevokesEarlierSessions, Alive, WouldChange
  <1> QED
    BY <1>1, <1>2, <1>3, <1>4, <1>5, <1>6, <1>7, <1>8, <1>9, <1>10, <1>11,
       <1>12, <1>13, <1>14, <1>15, <1>16 DEF Next, PostSignup, PostLogin,
       ProvisionOperator

-----------------------------------------------------------------------------

\* With no account, no request and no session IInv holds.
LEMMA InitHolds == Init => IInv
  <1> SUFFICES ASSUME Init PROVE IInv
    OBVIOUS
  <1>1. TypeOK
    BY BoundsAssumption DEF Init, TypeOK
  <1>2. Alive = {}
    BY DEF Init, Alive
  <1>3. OneAccountPerEmail /\ AuditTrail /\ ReadsFound /\ RacersKnown
    BY DEF Init, OneAccountPerEmail, AuditTrail, ReadsFound, RacersKnown
  <1>4. /\ LevelsOnRecord /\ SessionsCreated /\ LiveSessionsIndexed
        /\ VictimsListed /\ RevokesEarlierSessions
    BY <1>2 DEF Init, LevelsOnRecord, SessionsCreated, LiveSessionsIndexed,
       VictimsListed, RevokesEarlierSessions
  <1> QED BY <1>1, <1>3, <1>4 DEF IInv

\* IInv holds in every state of every execution.
THEOREM Invariant == Spec => []IInv
  BY InitHolds, StepPreserves, PTL DEF Spec

\* Rows, keys and requests keep their types: a session or an index that exists
\* has time left, and the index in Redis is never an empty set.
THEOREM TypeCorrect == Spec => []TypeOK
  <1>1. IInv => TypeOK
    BY DEF IInv
  <1> QED BY <1>1, Invariant, PTL

\* However many signups for one email overlap, the account is that of the only
\* one that was answered with success.
THEOREM AccountUnique == Spec => []OneAccountPerEmail
  <1>1. IInv => OneAccountPerEmail
    BY DEF IInv
  <1> QED BY <1>1, Invariant, PTL

\* The account is an operator exactly when an audit record says so, several
\* records come of grants that raced, and no operator route answers without one.
THEOREM AuditComplete == Spec => []AuditTrail
  <1>1. IInv => AuditTrail
    BY DEF IInv
  <1> QED BY <1>1, Invariant, PTL

\* A grant that returns leaves alive none of the sessions that existed when it
\* committed, except those a concurrent revocation cut from the index.
THEOREM GrantRevokes == Spec => []RevokesEarlierSessions
  <1>1. IInv => RevokesEarlierSessions
    BY DEF IInv
  <1> QED BY <1>1, Invariant, PTL

\* Every live session is in an index that lives at least as long, with the same
\* exception.
THEOREM SessionsIndexed == Spec => []LiveSessionsIndexed
  <1>1. IInv => LiveSessionsIndexed
    BY DEF IInv
  <1> QED BY <1>1, Invariant, PTL

-----------------------------------------------------------------------------

\* Only the login that creates a session brings it to life.
LEMMA StepRevivesNone ==
  ASSUME IInv, Next, NEW l \in Logins, login[l] = "created", l \notin Alive
  PROVE  l \notin Alive'
  <1> SUFFICES ASSUME session[l] = None PROVE session'[l] = None
    BY DEF Alive
  <1>1. CASE Tick
    BY <1>1 DEF Tick
  <1>2. ASSUME NEW m \in Logins, LoginCreate(m)
        PROVE  session'[l] = None
    <2>1. m # l
      BY <1>2 DEF LoginCreate
    <2> QED BY <1>2, <2>1 DEF LoginCreate, Create, IInv, TypeOK
  <1>3. ASSUME NEW m \in Logins, FinishCall(m)
        PROVE  session'[l] = None
    BY <1>3 DEF FinishCall, Expire, Remove, Get, IInv, TypeOK
  <1>4. ASSUME NEW g \in Grants, RevokeDelete(g)
        PROVE  session'[l] = None
    BY <1>4 DEF RevokeDelete
  <1>5. ASSUME NEW s \in Signups, PostSignup(s)
        PROVE  session' = session
    BY <1>5 DEF PostSignup, SignupFind, SignupCommit, storeVars
  <1>6. ASSUME NEW m \in Logins, NEW operation \in {"refresh", "revoke"},
               \/ LoginRead(m) \/ CreateFails(m) \/ ValidateSession(m)
               \/ GetOperatorSession(m) \/ StartCall(m, operation)
        PROVE  session' = session
    BY <1>6 DEF LoginRead, CreateFails, ValidateSession, GetOperatorSession,
       Answer,
       StartCall, storeVars
  <1>7. ASSUME NEW g \in Grants,
               GrantRead(g) \/ GrantCommit(g) \/ RevokeList(g) \/ RevokeFails(g)
        PROVE  session' = session
    BY <1>7 DEF GrantRead, GrantCommit, RevokeList, RevokeFails, storeVars
  <1> QED
    BY <1>1, <1>2, <1>3, <1>4, <1>5, <1>6, <1>7
       DEF Next, PostLogin, ProvisionOperator

\* A session that was revoked or has expired never comes back, although refresh
\* reads it and extends it in two steps.
THEOREM SessionsNotRevived == Spec => NeverRevived
  <1>1. IInv /\ [Next]_vars =>
          [\A l \in Logins : login[l] = "created" /\ l \notin Alive => l \notin Alive']_vars
    BY StepRevivesNone
  <1> QED BY <1>1, Invariant, PTL DEF Spec, NeverRevived

=============================================================================

-------------------------- MODULE TokenCoordinator --------------------------
(***************************************************************************)
(* KisTokenCoordinator.get_access_token: replicas share one KIS OAuth      *)
(* token through a Redis cache entry and refresh it under a Redis lock     *)
(* that expires by itself.                                                 *)
(*                                                                         *)
(*   read -> acquire -> reread -> request -> sent -> store -> release      *)
(*                 \-> wait (polls the cache until its deadline)           *)
(*                                                                         *)
(* Every remote call is a step of its own. Times are kept as the seconds   *)
(* that are left, and Tick is one second for everybody, so the clock may   *)
(* run for ever. An unusable cache entry is judged and deleted in two      *)
(* steps: "drop" is the call between them.                                 *)
(***************************************************************************)
EXTENDS Integers, FiniteSets

CONSTANTS
  Callers,     \* get_access_token calls of all replicas
  MaxTokens,   \* bound: tokens KIS issues
  Lives,       \* expires_in of the tokens KIS may issue
  Margin,      \* _TOKEN_EXPIRY_SAFETY_SECONDS
  LockTtl,     \* _REFRESH_LOCK_TTL_SECONDS
  WaitLimit,   \* _REFRESH_WAIT_TIMEOUT_SECONDS
  HoldLimit,   \* bound: seconds from taking the lock to releasing it
  MaxFaults,   \* bound: Redis errors and crashes
  None

ASSUME TimesAssumption ==
  /\ Lives \subseteq Nat \ {0}
  /\ \E longest \in Lives : \A n \in Lives : n <= longest
  /\ {Margin, LockTtl, WaitLimit, HoldLimit} \subseteq Nat \ {0}
  /\ HoldLimit < Margin
ASSUME BoundsAssumption == MaxTokens \in Nat \ {0} /\ MaxFaults \in Nat

Tokens == 1..MaxTokens
Longest == CHOOSE n \in Lives : \A m \in Lives : m <= n

CacheEntry == [token : Tokens, ttl : 1..Longest]
LockEntry == [owner : Callers, ttl : 1..LockTtl]

ASSUME NoneAssumption == None \notin Tokens \cup CacheEntry \cup LockEntry

VARIABLES
  cache,      \* the cache entry: a token and the seconds Redis keeps it
  lock,       \* the lock: its owner and the seconds Redis keeps it
  issued,     \* number of tokens issued
  full,       \* expires_in of an issued token
  life,       \* seconds until KIS refuses the token
  expires,    \* seconds until expires_at, which counts from the response
  pc,         \* the next call of a caller
  after,      \* where it goes on after deleting the cache entry
  got,        \* the token it has received or will return
  held,       \* seconds since it took the lock
  waitLeft,   \* seconds until its deadline
  overran,    \* history: a caller kept its refresh going longer than its lock
  faultsLeft

tokenVars == <<issued, full, life, expires>>
callVars == <<pc, after, got, held, waitLeft>>
vars == <<cache, lock, tokenVars, callVars, overran, faultsLeft>>

Holding == {"reread", "request", "sent", "store", "release"}
Points == Holding \cup {"idle", "read", "acquire", "wait", "drop", "done"}

\* The callers between taking the lock and giving it back.
Refreshing == {p \in Callers :
  pc[p] \in Holding \/ (pc[p] = "drop" /\ after[p] = "request")}

TypeOK ==
  /\ cache \in CacheEntry \cup {None}
  /\ lock \in LockEntry \cup {None}
  /\ issued \in 0..MaxTokens
  /\ full \in [Tokens -> 0..Longest]
  /\ life \in [Tokens -> 0..Longest]
  /\ expires \in [Tokens -> 0..Longest]
  /\ pc \in [Callers -> Points]
  /\ after \in [Callers -> {"acquire", "request", "wait"}]
  /\ got \in [Callers -> Tokens \cup {None}]
  /\ held \in [Callers -> 0..HoldLimit]
  /\ waitLeft \in [Callers -> 0..WaitLimit]
  /\ overran \in BOOLEAN
  /\ faultsLeft \in 0..MaxFaults

Init ==
  /\ cache = None
  /\ lock = None
  /\ issued = 0
  /\ full = [t \in Tokens |-> 0]
  /\ life = [t \in Tokens |-> 0]
  /\ expires = [t \in Tokens |-> 0]
  /\ pc = [p \in Callers |-> "idle"]
  /\ after = [p \in Callers |-> "acquire"]
  /\ got = [p \in Callers |-> None]
  /\ held = [p \in Callers |-> 0]
  /\ waitLeft = [p \in Callers |-> 0]
  /\ overran = FALSE
  /\ faultsLeft = MaxFaults

-----------------------------------------------------------------------------
(* Time. Redis drops what has expired; nobody holds longer than HoldLimit. *)

Less(n) == IF n = 0 THEN 0 ELSE n - 1

Aged(entry) ==
  IF entry = None \/ entry.ttl = 1 THEN None ELSE [entry EXCEPT !.ttl = @ - 1]

Tick ==
  /\ \A p \in Refreshing : held[p] < HoldLimit
  /\ cache' = Aged(cache)
  /\ lock' = Aged(lock)
  /\ life' = [t \in Tokens |-> Less(life[t])]
  /\ expires' = [t \in Tokens |-> Less(expires[t])]
  /\ held' = [p \in Callers |-> IF p \in Refreshing THEN held[p] + 1 ELSE 0]
  /\ waitLeft' = [p \in Callers |-> Less(waitLeft[p])]
  /\ overran' = (overran \/ \E p \in Refreshing : held[p] + 1 >= LockTtl)
  /\ UNCHANGED <<issued, full, pc, after, got, faultsLeft>>

-----------------------------------------------------------------------------
(* _read_cached_token *)

Goto(p, point) == pc' = [pc EXCEPT ![p] = point]

OwnsLock(p) == lock # None /\ lock.owner = p

\* not None, well-formed and expires_at > now
Usable == cache # None /\ expires[cache.token] > 0

\* GET and the checks; a usable token is kept for the answer
ReadCachedToken(p, found, missing) ==
  /\ IF Usable
       THEN /\ got' = [got EXCEPT ![p] = cache.token]
            /\ Goto(p, found)
            /\ UNCHANGED after
       ELSE /\ IF cache = None
                 THEN Goto(p, missing) /\ UNCHANGED after
                 ELSE Goto(p, "drop") /\ after' = [after EXCEPT ![p] = missing]
            /\ UNCHANGED got
  /\ UNCHANGED <<cache, lock, tokenVars, held, waitLeft, overran, faultsLeft>>

\* cache.delete: whatever the entry is by now
DropCached(p) ==
  /\ pc[p] = "drop"
  /\ cache' = None
  /\ Goto(p, after[p])
  /\ after' = [after EXCEPT ![p] = "acquire"]
  /\ UNCHANGED <<lock, tokenVars, got, held, waitLeft, overran, faultsLeft>>

-----------------------------------------------------------------------------
(* get_access_token *)

Call(p) ==
  /\ pc[p] = "idle"
  /\ Goto(p, "read")
  /\ UNCHANGED <<cache, lock, tokenVars, after, got, held, waitLeft, overran, faultsLeft>>

FirstRead(p) == pc[p] = "read" /\ ReadCachedToken(p, "done", "acquire")

\* SET without NX takes the lock from its owner.
AcquireAnyway(p) ==
  /\ pc[p] = "acquire"
  /\ lock' = [owner |-> p, ttl |-> LockTtl]
  /\ held' = [held EXCEPT ![p] = 0]
  /\ Goto(p, "reread")
  /\ UNCHANGED <<cache, tokenVars, after, got, waitLeft, overran, faultsLeft>>

\* SET key token NX EX ttl
Acquire(p) ==
  /\ pc[p] = "acquire"
  /\ IF lock = None
       THEN /\ lock' = [owner |-> p, ttl |-> LockTtl]
            /\ held' = [held EXCEPT ![p] = 0]
            /\ Goto(p, "reread")
            /\ UNCHANGED waitLeft
       ELSE /\ waitLeft' = [waitLeft EXCEPT ![p] = WaitLimit]
            /\ Goto(p, "wait")
            /\ UNCHANGED <<lock, held>>
  /\ UNCHANGED <<cache, tokenVars, after, got, overran, faultsLeft>>

\* The lock holder goes straight to KIS.
NoSecondRead(p) ==
  /\ pc[p] = "reread"
  /\ Goto(p, "request")
  /\ UNCHANGED <<cache, lock, tokenVars, after, got, held, waitLeft, overran, faultsLeft>>

\* the second look at the cache, under the lock
Reread(p) == pc[p] = "reread" /\ ReadCachedToken(p, "release", "request")

\* the finally block: the script deletes the lock of its owner only
Release(p) ==
  /\ pc[p] = "release"
  /\ lock' = IF OwnsLock(p) THEN None ELSE lock
  /\ held' = [held EXCEPT ![p] = 0]
  /\ Goto(p, "done")
  /\ UNCHANGED <<cache, tokenVars, after, got, waitLeft, overran, faultsLeft>>

-----------------------------------------------------------------------------
(* _wait_for_refresh *)

WaitRead(p) ==
  /\ pc[p] = "wait"
  /\ cache # None
  /\ ReadCachedToken(p, "done", "wait")

\* A deadline that is computed again in every round is never reached.
WaitsForEver(p) == FALSE /\ UNCHANGED vars

\* KisTokenRefreshInProgress
WaitTimeout(p) ==
  /\ pc[p] = "wait"
  /\ waitLeft[p] = 0
  /\ Goto(p, "done")
  /\ UNCHANGED <<cache, lock, tokenVars, after, got, held, waitLeft, overran, faultsLeft>>

-----------------------------------------------------------------------------
(* _request_and_cache_token *)

\* The POST, which is sent once (retry_safe=False). KIS issues a token, whose
\* life starts now, or never sees the request.
SendRequest(p) ==
  /\ pc[p] = "request"
  /\ \/ /\ issued < MaxTokens
        /\ issued' = issued + 1
        /\ \E n \in Lives :
             /\ full' = [full EXCEPT ![issued + 1] = n]
             /\ life' = [life EXCEPT ![issued + 1] = n]
        /\ got' = [got EXCEPT ![p] = issued + 1]
     \/ UNCHANGED <<issued, full, life, got>>
  /\ Goto(p, "sent")
  /\ UNCHANGED <<cache, lock, expires, after, held, waitLeft, overran, faultsLeft>>

\* _parse_token_response: expires_at = now + expires_in
ParseTokenResponse(p) ==
  /\ pc[p] = "sent"
  /\ got[p] # None
  /\ expires' = [expires EXCEPT ![got[p]] = full[got[p]]]
  /\ Goto(p, "store")
  /\ UNCHANGED <<cache, lock, issued, full, life, after, got, held, waitLeft, overran,
                 faultsLeft>>

\* No answer, an error status or an invalid body.
RequestFails(p) ==
  /\ pc[p] = "sent"
  /\ got' = [got EXCEPT ![p] = None]
  /\ Goto(p, "release")
  /\ UNCHANGED <<cache, lock, tokenVars, after, held, waitLeft, overran, faultsLeft>>

\* The token is cached for as long as it lives.
FullTtl(t) == full[t]

\* Without the lower bound of one second.
UnboundedTtl(t) == full[t] - Margin

CacheTtl(t) == IF full[t] - Margin > 1 THEN full[t] - Margin ELSE 1

StoreToken(p) ==
  /\ pc[p] = "store"
  /\ cache' = [token |-> got[p], ttl |-> CacheTtl(got[p])]
  /\ Goto(p, "release")
  /\ UNCHANGED <<lock, tokenVars, after, got, held, waitLeft, overran, faultsLeft>>

-----------------------------------------------------------------------------
(* Failures *)

\* The locals of the call are gone.
Reset(p) ==
  /\ Goto(p, "idle")
  /\ after' = [after EXCEPT ![p] = "acquire"]
  /\ got' = [got EXCEPT ![p] = None]
  /\ held' = [held EXCEPT ![p] = 0]
  /\ waitLeft' = [waitLeft EXCEPT ![p] = 0]

Fault == faultsLeft > 0 /\ faultsLeft' = faultsLeft - 1

\* A Redis call raises: the holder still goes through the finally block.
RedisError(p) ==
  /\ pc[p] \notin {"idle", "done", "request", "sent"}
  /\ Fault
  /\ Goto(p, IF p \in Refreshing /\ pc[p] # "release" THEN "release" ELSE "done")
  /\ got' = [got EXCEPT ![p] = None]
  /\ UNCHANGED <<cache, lock, tokenVars, after, held, waitLeft, overran>>

\* The replica dies; its lock stays until it expires.
Crash(p) ==
  /\ pc[p] \notin {"idle", "done"}
  /\ Fault
  /\ Reset(p)
  /\ UNCHANGED <<cache, lock, tokenVars, overran>>

\* The caller has its answer and may call again.
Return(p) ==
  /\ pc[p] = "done"
  /\ Reset(p)
  /\ UNCHANGED <<cache, lock, tokenVars, overran, faultsLeft>>

-----------------------------------------------------------------------------

CallStep(p) ==
  \/ FirstRead(p) \/ DropCached(p) \/ Acquire(p) \/ Reread(p)
  \/ WaitRead(p) \/ WaitTimeout(p)
  \/ SendRequest(p) \/ ParseTokenResponse(p) \/ RequestFails(p) \/ StoreToken(p)
  \/ Release(p) \/ Return(p)

Next ==
  \/ Tick
  \/ \E p \in Callers : Call(p) \/ CallStep(p) \/ RedisError(p) \/ Crash(p)

Spec == Init /\ [][Next]_vars

\* Calls run to their end and time passes; nobody has to call.
LiveSpec == Spec /\ WF_vars(Tick) /\ \A p \in Callers : WF_vars(CallStep(p))

-----------------------------------------------------------------------------
(* Properties *)

\* A caller that refreshes within the lock's lifetime still owns the lock, so
\* two refreshes overlap only when one of them outlasts its lock. No release,
\* crash or expiry takes the lock from somebody else.
RefreshOwnsLock ==
  \A p \in Refreshing :
    held[p] < LockTtl => OwnsLock(p)

\* As long as no refresh outlasts its lock, KIS is asked for a token only when
\* the cache has no usable one, although callers start, wait, crash and delete
\* entries in any order.
NoNeedlessRefresh ==
  [][\A p \in Callers :
       pc[p] = "request" /\ pc'[p] = "sent" /\ Usable => overran]_vars

\* A caller never takes from the cache a token that KIS has stopped accepting,
\* unless the token lived no longer than the safety margin to begin with: the
\* margin makes up for an expires_at that is counted from a late response and
\* a time to live that is counted from a late SET.
TakenAlive ==
  [][\A p \in Callers :
       got'[p] # got[p] /\ got'[p] # None
         => full'[got'[p]] <= Margin \/ life'[got'[p]] > 0]_vars

\* Every call ends, with a token or an error, whatever happens to the caller
\* that holds the lock.
CallsEnd == \A p \in Callers : pc[p] # "idle" ~> pc[p] = "idle"
=============================================================================

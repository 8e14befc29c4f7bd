----------------------- MODULE TokenCoordinatorProofs -----------------------
(***************************************************************************)
(* TInv is an inductive invariant of TokenCoordinator for any callers,     *)
(* tokens, lives and times; RefreshOwnsLock, NoNeedlessRefresh and         *)
(* TakenAlive follow from it.                                              *)
(***************************************************************************)
EXTENDS TokenCoordinator, TLAPS

\* The lock of a caller that refreshes in time is as old as its refresh.
LockAgrees ==
  \A p \in Refreshing : held[p] < LockTtl =>
    OwnsLock(p) /\ lock.ttl = LockTtl - held[p]

\* overran tells of every refresh that lasts longer than its lock.
OverrunKnown == ~overran => \A p \in Refreshing : held[p] < LockTtl

\* past the second look at the cache and before the request
Decided(p) == pc[p] = "request" \/ (pc[p] = "drop" /\ after[p] = "request")

\* What that look found is still so.
DecisionHolds == ~overran => \A p \in Callers : Decided(p) => ~Usable

\* A caller has a token only once it received one.
TokensReceived ==
  \A p \in Callers :
    /\ pc[p] \in {"idle", "read", "acquire", "wait", "drop", "reread", "request"}
         => got[p] = None
    /\ pc[p] = "store" => got[p] # None

\* Tokens somebody knows of have been issued.
TokensIssued ==
  /\ cache # None => cache.token <= issued
  /\ \A p \in Callers : got[p] # None => got[p] <= issued

\* A refresh has used up no more of its token's life than it lasts.
FreshWhileHeld ==
  \A p \in Callers : pc[p] \in {"sent", "store"} /\ got[p] # None =>
    full[got[p]] <= life[got[p]] + held[p]

\* The cache forgets a token of ordinary length before KIS does.
CacheLives ==
  cache # None => full[cache.token] <= Margin \/ cache.ttl <= life[cache.token]

TInv ==
  /\ TypeOK
  /\ LockAgrees
  /\ OverrunKnown
  /\ DecisionHolds
  /\ TokensReceived
  /\ TokensIssued
  /\ FreshWhileHeld
  /\ CacheLives

-----------------------------------------------------------------------------

\* CHOOSE finds the longest life.
LEMMA LongestFacts ==
  Longest \in Nat \ {0} /\ \A n \in Lives : n \in 1..Longest
  <1>1. Longest \in Lives /\ \A n \in Lives : n <= Longest
    BY TimesAssumption, Zenon DEF Longest
  <1> QED BY <1>1, TimesAssumption

\* One second takes an entry nowhere but to a younger one or to nothing.
LEMMA AgedCache ==
  ASSUME NEW e \in CacheEntry \cup {None}
  PROVE  Aged(e) \in CacheEntry \cup {None}
  BY LongestFacts DEF Aged, CacheEntry

LEMMA AgedLock ==
  ASSUME NEW e \in LockEntry \cup {None}
  PROVE  Aged(e) \in LockEntry \cup {None}
  BY TimesAssumption DEF Aged, LockEntry

\* A look at the cache gives a token to nobody that is refreshing.
LEMMA ReadKeepsFresh ==
  ASSUME TInv, NEW p \in Callers, NEW found \in {"done", "release"},
         NEW missing \in {"acquire", "request", "wait"},
         ReadCachedToken(p, found, missing)
  PROVE  FreshWhileHeld'
  <1> SUFFICES ASSUME NEW q \in Callers, pc'[q] \in {"sent", "store"}, got'[q] # None
               PROVE  full'[got'[q]] <= life'[got'[q]] + held'[q]
    BY DEF FreshWhileHeld
  <1>1. full' = full /\ life' = life /\ held' = held
    BY DEF ReadCachedToken, tokenVars
  <1>2. pc'[p] \notin {"sent", "store"}
    BY DEF ReadCachedToken, Goto, TInv, TypeOK
  <1>3. pc'[q] = pc[q] /\ got'[q] = got[q]
    BY <1>2 DEF ReadCachedToken, Goto, TInv, TypeOK
  <1> QED BY <1>1, <1>3 DEF TInv, FreshWhileHeld

\* Every step of a caller, every failure and every second keep TInv.
LEMMA StepPreserves == TInv /\ [Next]_vars => TInv'
  <1> SUFFICES ASSUME TInv, [Next]_vars PROVE TInv'
    OBVIOUS
  <1>1. ASSUME Tick
        PROVE  TInv'
    <2>1. TypeOK'
      <3>1. cache' \in CacheEntry \cup {None}
        BY <1>1, AgedCache DEF Tick, TInv, TypeOK
      <3>2. lock' \in LockEntry \cup {None}
        BY <1>1, AgedLock DEF Tick, TInv, TypeOK
      <3>3. life' \in [Tokens -> 0..Longest] /\ expires' \in [Tokens -> 0..Longest]
        BY <1>1, LongestFacts DEF Tick, TInv, TypeOK, Less
      <3>4. held' \in [Callers -> 0..HoldLimit]
        BY <1>1, TimesAssumption DEF Tick, TInv, TypeOK
      <3>5. waitLeft' \in [Callers -> 0..WaitLimit]
        BY <1>1, TimesAssumption DEF Tick, TInv, TypeOK, Less
      <3>6. overran' \in BOOLEAN
        BY <1>1, Zenon DEF Tick, TInv, TypeOK
      <3> QED
        BY <3>1, <3>2, <3>3, <3>4, <3>5, <3>6, <1>1 DEF Tick, TInv, TypeOK
    <2>2. LockAgrees'
      BY <1>1, TimesAssumption, NoneAssumption DEF Tick, Aged, Less, TInv,
         LockAgrees, TypeOK, LockEntry, OwnsLock, Refreshing, Holding
    <2>3. OverrunKnown'
      <3> SUFFICES ASSUME ~overran', NEW p \in Refreshing'
                   PROVE  held'[p] < LockTtl
        BY DEF OverrunKnown
      <3>1. p \in Refreshing /\ p \in Callers
        BY <1>1 DEF Tick, Refreshing
      <3>2. ~(held[p] + 1 >= LockTtl)
        BY <3>1, <1>1 DEF Tick
      <3>3. held'[p] = held[p] + 1
        BY <3>1, <1>1 DEF Tick
      <3>4. held[p] \in Nat
        BY <3>1 DEF TInv, TypeOK
      <3> QED BY <3>2, <3>3, <3>4, TimesAssumption
    <2>4. DecisionHolds'
      BY <1>1, NoneAssumption DEF Tick, Aged, Less, TInv, DecisionHolds,
         Decided, Usable, TypeOK, CacheEntry, LockAgrees, OverrunKnown,
         OwnsLock, Refreshing, Holding
    <2>5. TokensReceived'
      BY <1>1, NoneAssumption DEF Tick, Aged, Less, TInv, TokensReceived,
         TypeOK
    <2>6. TokensIssued'
      BY <1>1, BoundsAssumption, NoneAssumption DEF Tick, Aged, Less, TInv,
         TokensIssued, TypeOK, CacheEntry, Tokens
    <2>7. FreshWhileHeld'
      <3> SUFFICES ASSUME NEW p \in Callers, pc'[p] \in {"sent", "store"},
                          got'[p] # None
                   PROVE  full'[got'[p]] <= life'[got'[p]] + held'[p]
        BY DEF FreshWhileHeld
      <3>1. pc' = pc /\ got' = got /\ full' = full
        BY <1>1 DEF Tick
      <3>2. got[p] \in Tokens /\ full[got[p]] <= life[got[p]] + held[p]
        BY <3>1 DEF TInv, TypeOK, FreshWhileHeld
      <3>3. full[got[p]] \in Nat /\ life[got[p]] \in Nat /\ held[p] \in Nat
        BY <3>2 DEF TInv, TypeOK
      <3>4. held'[p] = held[p] + 1
        BY <1>1, <3>1 DEF Tick, Refreshing, Holding
      <3>5. life'[got[p]] = Less(life[got[p]])
        BY <1>1, <3>2 DEF Tick
      <3> QED BY <3>1, <3>2, <3>3, <3>4, <3>5 DEF Less
    <2>8. CacheLives'
      BY <1>1, TimesAssumption, NoneAssumption DEF Tick, Aged, Less, TInv,
         CacheLives, TypeOK, CacheEntry, Tokens
    <2> QED BY <2>1, <2>2, <2>3, <2>4, <2>5, <2>6, <2>7, <2>8 DEF TInv
  <1>2. ASSUME NEW p \in Callers, Call(p)
        PROVE  TInv'
    <2>1. TypeOK'
      BY <1>2, TimesAssumption, BoundsAssumption, NoneAssumption,
         LongestFacts DEF Call, Goto, tokenVars, TInv, TypeOK, CacheEntry,
         LockEntry, Points, Holding, Tokens
    <2>2. LockAgrees'
      BY <1>2, TimesAssumption, NoneAssumption DEF Call, Goto, tokenVars,
         TInv, LockAgrees, TypeOK, LockEntry, OwnsLock, Refreshing, Holding
    <2>3. OverrunKnown'
      BY <1>2, TimesAssumption DEF Call, Goto, tokenVars, TInv, OverrunKnown,
         TypeOK, Refreshing, Holding
    <2>4. DecisionHolds'
      BY <1>2, NoneAssumption DEF Call, Goto, tokenVars, TInv, DecisionHolds,
         Decided, Usable, TypeOK, CacheEntry, LockAgrees, OverrunKnown,
         OwnsLock, Refreshing, Holding
    <2>5. TokensReceived'
      BY <1>2, NoneAssumption DEF Call, Goto, tokenVars, TInv,
         TokensReceived, TypeOK
    <2>6. TokensIssued'
      BY <1>2, BoundsAssumption, NoneAssumption DEF Call, Goto, tokenVars,
         TInv, TokensIssued, TypeOK, CacheEntry, Tokens
    <2>7. FreshWhileHeld'
      BY <1>2, TimesAssumption DEF Call, Goto, tokenVars, TInv,
         FreshWhileHeld, TypeOK, TokensIssued, Tokens
    <2>8. CacheLives'
      BY <1>2, TimesAssumption, NoneAssumption DEF Call, Goto, tokenVars,
         TInv, CacheLives, TypeOK, CacheEntry, Tokens
    <2> QED BY <2>1, <2>2, <2>3, <2>4, <2>5, <2>6, <2>7, <2>8 DEF TInv
  <1>3. ASSUME NEW p \in Callers, FirstRead(p)
        PROVE  TInv'
    <2>1. TypeOK'
      <3>1. got' \in [Callers -> Tokens \cup {None}]
        BY <1>3, NoneAssumption DEF FirstRead, ReadCachedToken, Usable, TInv,
           TypeOK, CacheEntry
      <3>2. pc' \in [Callers -> Points]
        BY <1>3 DEF FirstRead, ReadCachedToken, Goto, TInv, TypeOK, Points,
           Holding
      <3>3. after' \in [Callers -> {"acquire", "request", "wait"}]
        BY <1>3 DEF FirstRead, ReadCachedToken, TInv, TypeOK
      <3> QED
        BY <3>1, <3>2, <3>3, <1>3 DEF FirstRead, ReadCachedToken, tokenVars,
           TInv, TypeOK
    <2>2. LockAgrees'
      BY <1>3, TimesAssumption, NoneAssumption DEF FirstRead,
         ReadCachedToken, Goto, Usable, tokenVars, TInv, LockAgrees, TypeOK,
         LockEntry, OwnsLock, Refreshing, Holding
    <2>3. OverrunKnown'
      BY <1>3, TimesAssumption DEF FirstRead, ReadCachedToken, Goto, Usable,
         tokenVars, TInv, OverrunKnown, TypeOK, Refreshing, Holding
    <2>4. DecisionHolds'
      BY <1>3, NoneAssumption DEF FirstRead, ReadCachedToken, Goto, Usable,
         tokenVars, TInv, DecisionHolds, Decided, TypeOK, CacheEntry,
         LockAgrees, OverrunKnown, OwnsLock, Refreshing, Holding
    <2>5. TokensReceived'
      BY <1>3, NoneAssumption DEF FirstRead, ReadCachedToken, Goto, Usable,
         tokenVars, TInv, TokensReceived, TypeOK
    <2>6. TokensIssued'
      BY <1>3, BoundsAssumption, NoneAssumption DEF FirstRead,
         ReadCachedToken, Goto, Usable, tokenVars, TInv, TokensIssued,
         TypeOK, CacheEntry, Tokens
    <2>7. FreshWhileHeld'
      BY <1>3, ReadKeepsFresh DEF FirstRead
    <2>8. CacheLives'
      BY <1>3, TimesAssumption, NoneAssumption DEF FirstRead,
         ReadCachedToken, Goto, Usable, tokenVars, TInv, CacheLives, TypeOK,
         CacheEntry, Tokens
    <2> QED BY <2>1, <2>2, <2>3, <2>4, <2>5, <2>6, <2>7, <2>8 DEF TInv
  <1>4. ASSUME NEW p \in Callers, DropCached(p)
        PROVE  TInv'
    <2>1. TypeOK'
      BY <1>4, TimesAssumption, BoundsAssumption, NoneAssumption,
         LongestFacts DEF DropCached, Goto, tokenVars, TInv, TypeOK,
         CacheEntry, LockEntry, Points, Holding, Tokens
    <2>2. LockAgrees'
      BY <1>4, TimesAssumption, NoneAssumption DEF DropCached, Goto,
         tokenVars, TInv, LockAgrees, TypeOK, LockEntry, OwnsLock,
         Refreshing, Holding
    <2>3. OverrunKnown'
      BY <1>4, TimesAssumption DEF DropCached, Goto, tokenVars, TInv,
         OverrunKnown, TypeOK, Refreshing, Holding
    <2>4. DecisionHolds'
      BY <1>4, NoneAssumption DEF DropCached, Goto, tokenVars, TInv,
         DecisionHolds, Decided, Usable, TypeOK, CacheEntry, LockAgrees,
         OverrunKnown, OwnsLock, Refreshing, Holding
    <2>5. TokensReceived'
      BY <1>4, NoneAssumption DEF DropCached, Goto, tokenVars, TInv,
         TokensReceived, TypeOK
    <2>6. TokensIssued'
      BY <1>4, BoundsAssumption, NoneAssumption DEF DropCached, Goto,
         tokenVars, TInv, TokensIssued, TypeOK, CacheEntry, Tokens
    <2>7. FreshWhileHeld'
      BY <1>4, TimesAssumption DEF DropCached, Goto, tokenVars, TInv,
         FreshWhileHeld, TypeOK, TokensIssued, Tokens
    <2>8. CacheLives'
      BY <1>4, TimesAssumption, NoneAssumption DEF DropCached, Goto,
         tokenVars, TInv, CacheLives, TypeOK, CacheEntry, Tokens
    <2> QED BY <2>1, <2>2, <2>3, <2>4, <2>5, <2>6, <2>7, <2>8 DEF TInv
  <1>5. ASSUME NEW p \in Callers, Acquire(p)
        PROVE  TInv'
    <2>1. TypeOK'
      <3>1. lock' \in LockEntry \cup {None}
        BY <1>5, TimesAssumption DEF Acquire, TInv, TypeOK, LockEntry
      <3>2. held' \in [Callers -> 0..HoldLimit] /\ waitLeft' \in [Callers -> 0..WaitLimit]
        BY <1>5, TimesAssumption DEF Acquire, TInv, TypeOK
      <3>3. pc' \in [Callers -> Points]
        BY <1>5 DEF Acquire, Goto, TInv, TypeOK, Points, Holding
      <3> QED BY <3>1, <3>2, <3>3, <1>5 DEF Acquire, tokenVars, TInv, TypeOK
    <2>2. LockAgrees'
      BY <1>5, TimesAssumption, NoneAssumption DEF Acquire, Goto, tokenVars,
         TInv, LockAgrees, TypeOK, LockEntry, OwnsLock, Refreshing, Holding
    <2>3. OverrunKnown'
      BY <1>5, TimesAssumption DEF Acquire, Goto, tokenVars, TInv,
         OverrunKnown, TypeOK, Refreshing, Holding
    <2>4. DecisionHolds'
      BY <1>5, NoneAssumption DEF Acquire, Goto, tokenVars, TInv,
         DecisionHolds, Decided, Usable, TypeOK, CacheEntry, LockAgrees,
         OverrunKnown, OwnsLock, Refreshing, Holding
    <2>5. TokensReceived'
      BY <1>5, NoneAssumption DEF Acquire, Goto, tokenVars, TInv,
         TokensReceived, TypeOK
    <2>6. TokensIssued'
      BY <1>5, BoundsAssumption, NoneAssumption DEF Acquire, Goto, tokenVars,
         TInv, TokensIssued, TypeOK, CacheEntry, Tokens
    <2>7. FreshWhileHeld'
      BY <1>5, TimesAssumption DEF Acquire, Goto, tokenVars, TInv,
         FreshWhileHeld, TypeOK, TokensIssued, Tokens
    <2>8. CacheLives'
      BY <1>5, TimesAssumption, NoneAssumption DEF Acquire, Goto, tokenVars,
         TInv, CacheLives, TypeOK, CacheEntry, Tokens
    <2> QED BY <2>1, <2>2, <2>3, <2>4, <2>5, <2>6, <2>7, <2>8 DEF TInv
  <1>6. ASSUME NEW p \in Callers, Reread(p)
        PROVE  TInv'
    <2>1. TypeOK'
      <3>1. got' \in [Callers -> Tokens \cup {None}]
        BY <1>6, NoneAssumption DEF Reread, ReadCachedToken, Usable, TInv,
           TypeOK, CacheEntry
      <3>2. pc' \in [Callers -> Points]
        BY <1>6 DEF Reread, ReadCachedToken, Goto, TInv, TypeOK, Points,
           Holding
      <3>3. after' \in [Callers -> {"acquire", "request", "wait"}]
        BY <1>6 DEF Reread, ReadCachedToken, TInv, TypeOK
      <3> QED
        BY <3>1, <3>2, <3>3, <1>6 DEF Reread, ReadCachedToken, tokenVars, TInv,
           TypeOK
    <2>2. LockAgrees'
      BY <1>6, TimesAssumption, NoneAssumption DEF Reread, ReadCachedToken,
         Goto, Usable, tokenVars, TInv, LockAgrees, TypeOK, LockEntry,
         OwnsLock, Refreshing, Holding
    <2>3. OverrunKnown'
      BY <1>6, TimesAssumption DEF Reread, ReadCachedToken, Goto, Usable,
         tokenVars, TInv, OverrunKnown, TypeOK, Refreshing, Holding
    <2>4. DecisionHolds'
      BY <1>6, NoneAssumption DEF Reread, ReadCachedToken, Goto, Usable,
         tokenVars, TInv, DecisionHolds, Decided, TypeOK, CacheEntry,
         LockAgrees, OverrunKnown, OwnsLock, Refreshing, Holding
    <2>5. TokensReceived'
      BY <1>6, NoneAssumption DEF Reread, ReadCachedToken, Goto, Usable,
         tokenVars, TInv, TokensReceived, TypeOK
    <2>6. TokensIssued'
      BY <1>6, BoundsAssumption, NoneAssumption DEF Reread, ReadCachedToken,
         Goto, Usable, tokenVars, TInv, TokensIssued, TypeOK, CacheEntry,
         Tokens
    <2>7. FreshWhileHeld'
      BY <1>6, ReadKeepsFresh DEF Reread
    <2>8. CacheLives'
      BY <1>6, TimesAssumption, NoneAssumption DEF Reread, ReadCachedToken,
         Goto, Usable, tokenVars, TInv, CacheLives, TypeOK, CacheEntry,
         Tokens
    <2> QED BY <2>1, <2>2, <2>3, <2>4, <2>5, <2>6, <2>7, <2>8 DEF TInv
  <1>7. ASSUME NEW p \in Callers, WaitRead(p)
        PROVE  TInv'
    <2>1. TypeOK'
      <3>1. got' \in [Callers -> Tokens \cup {None}]
        BY <1>7, NoneAssumption DEF WaitRead, ReadCachedToken, Usable, TInv,
           TypeOK, CacheEntry
      <3>2. pc' \in [Callers -> Points]
        BY <1>7 DEF WaitRead, ReadCachedToken, Goto, TInv, TypeOK, Points,
           Holding
      <3>3. after' \in [Callers -> {"acquire", "request", "wait"}]
        BY <1>7 DEF WaitRead, ReadCachedToken, TInv, TypeOK
      <3> QED
        BY <3>1, <3>2, <3>3, <1>7 DEF WaitRead, ReadCachedToken, tokenVars,
           TInv, TypeOK
    <2>2. LockAgrees'
      BY <1>7, TimesAssumption, NoneAssumption DEF WaitRead, ReadCachedToken,
         Goto, Usable, tokenVars, TInv, LockAgrees, TypeOK, LockEntry,
         OwnsLock, Refreshing, Holding
    <2>3. OverrunKnown'
      BY <1>7, TimesAssumption DEF WaitRead, ReadCachedToken, Goto, Usable,
         tokenVars, TInv, OverrunKnown, TypeOK, Refreshing, Holding
    <2>4. DecisionHolds'
      BY <1>7, NoneAssumption DEF WaitRead, ReadCachedToken, Goto, Usable,
         tokenVars, TInv, DecisionHolds, Decided, TypeOK, CacheEntry,
         LockAgrees, OverrunKnown, OwnsLock, Refreshing, Holding
    <2>5. TokensReceived'
      BY <1>7, NoneAssumption DEF WaitRead, ReadCachedToken, Goto, Usable,
         tokenVars, TInv, TokensReceived, TypeOK
    <2>6. TokensIssued'
      BY <1>7, BoundsAssumption, NoneAssumption DEF WaitRead,
         ReadCachedToken, Goto, Usable, tokenVars, TInv, TokensIssued,
         TypeOK, CacheEntry, Tokens
    <2>7. FreshWhileHeld'
      BY <1>7, ReadKeepsFresh DEF WaitRead
    <2>8. CacheLives'
      BY <1>7, TimesAssumption, NoneAssumption DEF WaitRead, ReadCachedToken,
         Goto, Usable, tokenVars, TInv, CacheLives, TypeOK, CacheEntry,
         Tokens
    <2> QED BY <2>1, <2>2, <2>3, <2>4, <2>5, <2>6, <2>7, <2>8 DEF TInv
  <1>8. ASSUME NEW p \in Callers, WaitTimeout(p)
        PROVE  TInv'
    <2>1. TypeOK'
      BY <1>8, TimesAssumption, BoundsAssumption, NoneAssumption,
         LongestFacts DEF WaitTimeout, Goto, tokenVars, TInv, TypeOK,
         CacheEntry, LockEntry, Points, Holding, Tokens
    <2>2. LockAgrees'
      BY <1>8, TimesAssumption, NoneAssumption DEF WaitTimeout, Goto,
         tokenVars, TInv, LockAgrees, TypeOK, LockEntry, OwnsLock,
         Refreshing, Holding
    <2>3. OverrunKnown'
      BY <1>8, TimesAssumption DEF WaitTimeout, Goto, tokenVars, TInv,
         OverrunKnown, TypeOK, Refreshing, Holding
    <2>4. DecisionHolds'
      BY <1>8, NoneAssumption DEF WaitTimeout, Goto, tokenVars, TInv,
         DecisionHolds, Decided, Usable, TypeOK, CacheEntry, LockAgrees,
         OverrunKnown, OwnsLock, Refreshing, Holding
    <2>5. TokensReceived'
      BY <1>8, NoneAssumption DEF WaitTimeout, Goto, tokenVars, TInv,
         TokensReceived, TypeOK
    <2>6. TokensIssued'
      BY <1>8, BoundsAssumption, NoneAssumption DEF WaitTimeout, Goto,
         tokenVars, TInv, TokensIssued, TypeOK, CacheEntry, Tokens
    <2>7. FreshWhileHeld'
      BY <1>8, TimesAssumption DEF WaitTimeout, Goto, tokenVars, TInv,
         FreshWhileHeld, TypeOK, TokensIssued, Tokens
    <2>8. CacheLives'
      BY <1>8, TimesAssumption, NoneAssumption DEF WaitTimeout, Goto,
         tokenVars, TInv, CacheLives, TypeOK, CacheEntry, Tokens
    <2> QED BY <2>1, <2>2, <2>3, <2>4, <2>5, <2>6, <2>7, <2>8 DEF TInv
  <1>9. ASSUME NEW p \in Callers, SendRequest(p)
        PROVE  TInv'
    <2>1. TypeOK'
      <3>1. issued' \in 0..MaxTokens
        BY <1>9, BoundsAssumption DEF SendRequest, TInv, TypeOK
      <3>2. full' \in [Tokens -> 0..Longest] /\ life' \in [Tokens -> 0..Longest]
        BY <1>9, LongestFacts DEF SendRequest, TInv, TypeOK
      <3>3. got' \in [Callers -> Tokens \cup {None}]
        <4>1. issued < MaxTokens => issued + 1 \in Tokens
          BY BoundsAssumption DEF TInv, TypeOK, Tokens
        <4> QED BY <4>1, <1>9 DEF SendRequest, TInv, TypeOK
      <3>4. pc' \in [Callers -> Points]
        BY <1>9 DEF SendRequest, Goto, TInv, TypeOK, Points, Holding
      <3> QED BY <3>1, <3>2, <3>3, <3>4, <1>9 DEF SendRequest, TInv, TypeOK
    <2>2. LockAgrees'
      BY <1>9, TimesAssumption, NoneAssumption DEF SendRequest, Goto, TInv,
         LockAgrees, TypeOK, LockEntry, OwnsLock, Refreshing, Holding
    <2>3. OverrunKnown'
      BY <1>9, TimesAssumption DEF SendRequest, Goto, TInv, OverrunKnown,
         TypeOK, Refreshing, Holding
    <2>4. DecisionHolds'
      BY <1>9, NoneAssumption DEF SendRequest, Goto, TInv, DecisionHolds,
         Decided, Usable, TypeOK, CacheEntry, LockAgrees, OverrunKnown,
         OwnsLock, Refreshing, Holding, TokensReceived
    <2>5. TokensReceived'
      BY <1>9, NoneAssumption DEF SendRequest, Goto, TInv, TokensReceived,
         TypeOK
    <2>6. TokensIssued'
      <3>1. CASE UNCHANGED <<issued, got>>
        BY <3>1, <1>9 DEF SendRequest, TInv, TokensIssued
      <3>2. CASE /\ issued < MaxTokens /\ issued' = issued + 1
                 /\ got' = [got EXCEPT ![p] = issued + 1]
        <4>1. cache' # None => cache'.token <= issued'
          BY <3>2, <1>9 DEF SendRequest, TInv, TypeOK, CacheEntry, Tokens,
             TokensIssued
        <4>2. ASSUME NEW q \in Callers, got'[q] # None
              PROVE  got'[q] <= issued'
          BY <3>2, <4>2 DEF TInv, TypeOK, Tokens, TokensIssued
        <4> QED BY <4>1, <4>2 DEF TokensIssued
      <3> QED BY <3>1, <3>2, <1>9 DEF SendRequest
    <2>7. FreshWhileHeld'
      <3> SUFFICES ASSUME NEW q \in Callers, pc'[q] \in {"sent", "store"}, got'[q] # None
                   PROVE  full'[got'[q]] <= life'[got'[q]] + held'[q]
        BY DEF FreshWhileHeld
      <3>1. CASE UNCHANGED <<issued, full, life, got>>
        <4>1. q # p
          BY <3>1, <1>9 DEF SendRequest, TInv, TokensReceived
        <4> QED
          BY <3>1, <4>1, <1>9 DEF SendRequest, Goto, TInv, TypeOK,
             FreshWhileHeld
      <3>2. ASSUME NEW n \in Lives, issued < MaxTokens,
                   full' = [full EXCEPT ![issued + 1] = n],
                   life' = [life EXCEPT ![issued + 1] = n],
                   got' = [got EXCEPT ![p] = issued + 1]
            PROVE  full'[got'[q]] <= life'[got'[q]] + held'[q]
        <4>1. issued + 1 \in Tokens /\ n \in Nat /\ held' = held /\ held[q] \in Nat
          BY <3>2, <1>9, TimesAssumption, BoundsAssumption DEF SendRequest,
             TInv, TypeOK, Tokens
        <4>2. CASE q = p
          BY <3>2, <4>1, <4>2 DEF TInv, TypeOK
        <4>3. CASE q # p
          <5>1. got'[q] = got[q] /\ pc'[q] = pc[q]
            BY <3>2, <4>3, <1>9 DEF SendRequest, Goto, TInv, TypeOK
          <5>2. got[q] # issued + 1
            BY <5>1 DEF TInv, TypeOK, TokensIssued, Tokens
          <5> QED BY <3>2, <4>1, <5>1, <5>2 DEF TInv, TypeOK, FreshWhileHeld
        <4> QED BY <4>2, <4>3
      <3> QED BY <3>1, <3>2, <1>9 DEF SendRequest
    <2>8. CacheLives'
      <3>1. CASE UNCHANGED <<issued, full, life, got>>
        BY <3>1, <1>9 DEF SendRequest, TInv, CacheLives
      <3>2. ASSUME NEW n \in Lives, cache # None,
                   full' = [full EXCEPT ![issued + 1] = n],
                   life' = [life EXCEPT ![issued + 1] = n]
            PROVE  full'[cache.token] <= Margin \/ cache.ttl <= life'[cache.token]
        <4>1. cache.token # issued + 1 /\ cache.token \in Tokens
          BY <3>2 DEF TInv, TypeOK, CacheEntry, TokensIssued, Tokens
        <4> QED BY <3>2, <4>1 DEF TInv, TypeOK, CacheLives
      <3> QED BY <3>1, <3>2, <1>9 DEF SendRequest, CacheLives
    <2> QED BY <2>1, <2>2, <2>3, <2>4, <2>5, <2>6, <2>7, <2>8 DEF TInv
  <1>10. ASSUME NEW p \in Callers, ParseTokenResponse(p)
        PROVE  TInv'
    <2>1. TypeOK'
      BY <1>10, TimesAssumption, BoundsAssumption, NoneAssumption,
         LongestFacts DEF ParseTokenResponse, Goto, TInv, TypeOK, CacheEntry,
         LockEntry, Points, Holding, Tokens
    <2>2. LockAgrees'
      BY <1>10, TimesAssumption, NoneAssumption DEF ParseTokenResponse, Goto,
         TInv, LockAgrees, TypeOK, LockEntry, OwnsLock, Refreshing, Holding
    <2>3. OverrunKnown'
      BY <1>10, TimesAssumption DEF ParseTokenResponse, Goto, TInv,
         OverrunKnown, TypeOK, Refreshing, Holding
    <2>4. DecisionHolds'
      BY <1>10, NoneAssumption DEF ParseTokenResponse, Goto, TInv,
         DecisionHolds, Decided, Usable, TypeOK, CacheEntry, LockAgrees,
         OverrunKnown, OwnsLock, Refreshing, Holding
    <2>5. TokensReceived'
      BY <1>10, NoneAssumption DEF ParseTokenResponse, Goto, TInv,
         TokensReceived, TypeOK
    <2>6. TokensIssued'
      BY <1>10, BoundsAssumption, NoneAssumption DEF ParseTokenResponse,
         Goto, TInv, TokensIssued, TypeOK, CacheEntry, Tokens
    <2>7. FreshWhileHeld'
      BY <1>10, TimesAssumption DEF ParseTokenResponse, Goto, TInv,
         FreshWhileHeld, TypeOK, TokensIssued, Tokens
    <2>8. CacheLives'
      BY <1>10, TimesAssumption, NoneAssumption DEF ParseTokenResponse, Goto,
         TInv, CacheLives, TypeOK, CacheEntry, Tokens
    <2> QED BY <2>1, <2>2, <2>3, <2>4, <2>5, <2>6, <2>7, <2>8 DEF TInv
  <1>11. ASSUME NEW p \in Callers, RequestFails(p)
        PROVE  TInv'
    <2>1. TypeOK'
      BY <1>11, TimesAssumption, BoundsAssumption, NoneAssumption,
         LongestFacts DEF RequestFails, Goto, tokenVars, TInv, TypeOK,
         CacheEntry, LockEntry, Points, Holding, Tokens
    <2>2. LockAgrees'
      BY <1>11, TimesAssumption, NoneAssumption DEF RequestFails, Goto,
         tokenVars, TInv, LockAgrees, TypeOK, LockEntry, OwnsLock,
         Refreshing, Holding
    <2>3. OverrunKnown'
      BY <1>11, TimesAssumption DEF RequestFails, Goto, tokenVars, TInv,
         OverrunKnown, TypeOK, Refreshing, Holding
    <2>4. DecisionHolds'
      BY <1>11, NoneAssumption DEF RequestFails, Goto, tokenVars, TInv,
         DecisionHolds, Decided, Usable, TypeOK, CacheEntry, LockAgrees,
         OverrunKnown, OwnsLock, Refreshing, Holding
    <2>5. TokensReceived'
      BY <1>11, NoneAssumption DEF RequestFails, Goto, tokenVars, TInv,
         TokensReceived, TypeOK
    <2>6. TokensIssued'
      BY <1>11, BoundsAssumption, NoneAssumption DEF RequestFails, Goto,
         tokenVars, TInv, TokensIssued, TypeOK, CacheEntry, Tokens
    <2>7. FreshWhileHeld'
      BY <1>11, TimesAssumption DEF RequestFails, Goto, tokenVars, TInv,
         FreshWhileHeld, TypeOK, TokensIssued, Tokens
    <2>8. CacheLives'
      BY <1>11, TimesAssumption, NoneAssumption DEF RequestFails, Goto,
         tokenVars, TInv, CacheLives, TypeOK, CacheEntry, Tokens
    <2> QED BY <2>1, <2>2, <2>3, <2>4, <2>5, <2>6, <2>7, <2>8 DEF TInv
  <1>12. ASSUME NEW p \in Callers, StoreToken(p)
        PROVE  TInv'
    <2> DEFINE t == got[p]
    <2>a. t \in Tokens /\ t # None
      BY <1>12 DEF StoreToken, TInv, TypeOK, TokensReceived
    <2>b. full[t] \in 0..Longest /\ life[t] \in Nat
      BY <2>a DEF TInv, TypeOK
    <2>c. CacheTtl(t) \in 1..Longest /\ (full[t] <= Margin \/ CacheTtl(t) = full[t] - Margin)
      BY <2>b, TimesAssumption, LongestFacts DEF CacheTtl
    <2>d. cache' = [token |-> t, ttl |-> CacheTtl(t)]
      BY <1>12 DEF StoreToken
    <2>1. TypeOK'
      <3>1. cache' \in CacheEntry
        BY <2>a, <2>c, <2>d DEF CacheEntry
      <3>2. pc' \in [Callers -> Points]
        BY <1>12 DEF StoreToken, Goto, TInv, TypeOK, Points, Holding
      <3> QED BY <1>12, <3>1, <3>2 DEF StoreToken, tokenVars, TInv, TypeOK
    <2>2. LockAgrees'
      BY <1>12, TimesAssumption, NoneAssumption DEF StoreToken, CacheTtl,
         Goto, tokenVars, TInv, LockAgrees, TypeOK, LockEntry, OwnsLock,
         Refreshing, Holding
    <2>3. OverrunKnown'
      BY <1>12, TimesAssumption DEF StoreToken, CacheTtl, Goto, tokenVars,
         TInv, OverrunKnown, TypeOK, Refreshing, Holding
    <2>4. DecisionHolds'
      BY <1>12, NoneAssumption DEF StoreToken, CacheTtl, Goto, tokenVars,
         TInv, DecisionHolds, Decided, Usable, TypeOK, CacheEntry,
         LockAgrees, OverrunKnown, OwnsLock, Refreshing, Holding,
         NoneAssumption
    <2>5. TokensReceived'
      BY <1>12, NoneAssumption DEF StoreToken, CacheTtl, Goto, tokenVars,
         TInv, TokensReceived, TypeOK
    <2>6. TokensIssued'
      BY <1>12, BoundsAssumption, NoneAssumption DEF StoreToken, CacheTtl,
         Goto, tokenVars, TInv, TokensIssued, TypeOK, CacheEntry, Tokens,
         TokensReceived
    <2>7. FreshWhileHeld'
      BY <1>12, TimesAssumption DEF StoreToken, CacheTtl, Goto, tokenVars,
         TInv, FreshWhileHeld, TypeOK, TokensIssued, Tokens
    <2>8. CacheLives'
      <3>1. full' = full /\ life' = life /\ pc[p] = "store"
        BY <1>12 DEF StoreToken, tokenVars
      <3>2. full[t] <= life[t] + held[p] /\ held[p] \in 0..HoldLimit
        BY <2>a, <3>1 DEF TInv, TypeOK, FreshWhileHeld
      <3>3. full[t] <= Margin \/ CacheTtl(t) <= life[t]
        BY <2>b, <2>c, <3>2, TimesAssumption
      <3>4. cache'.token = t /\ cache'.ttl = CacheTtl(t)
        BY <2>d
      <3> QED BY <3>1, <3>3, <3>4 DEF CacheLives
    <2> QED BY <2>1, <2>2, <2>3, <2>4, <2>5, <2>6, <2>7, <2>8 DEF TInv
  <1>13. ASSUME NEW p \in Callers, Release(p)
        PROVE  TInv'
    <2>1. TypeOK'
      <3>1. lock' \in LockEntry \cup {None}
        BY <1>13 DEF Release, TInv, TypeOK
      <3>2. held' \in [Callers -> 0..HoldLimit]
        BY <1>13, TimesAssumption DEF Release, TInv, TypeOK
      <3>3. pc' \in [Callers -> Points]
        BY <1>13 DEF Release, Goto, TInv, TypeOK, Points, Holding
      <3> QED BY <3>1, <3>2, <3>3, <1>13 DEF Release, tokenVars, TInv, TypeOK
    <2>2. LockAgrees'
      BY <1>13, TimesAssumption, NoneAssumption DEF Release, Goto, tokenVars,
         OwnsLock, TInv, LockAgrees, TypeOK, LockEntry, Refreshing, Holding
    <2>3. OverrunKnown'
      BY <1>13, TimesAssumption DEF Release, Goto, tokenVars, OwnsLock, TInv,
         OverrunKnown, TypeOK, Refreshing, Holding
    <2>4. DecisionHolds'
      BY <1>13, NoneAssumption DEF Release, Goto, tokenVars, OwnsLock, TInv,
         DecisionHolds, Decided, Usable, TypeOK, CacheEntry, LockAgrees,
         OverrunKnown, Refreshing, Holding
    <2>5. TokensReceived'
      BY <1>13, NoneAssumption DEF Release, Goto, tokenVars, OwnsLock, TInv,
         TokensReceived, TypeOK
    <2>6. TokensIssued'
      BY <1>13, BoundsAssumption, NoneAssumption DEF Release, Goto,
         tokenVars, OwnsLock, TInv, TokensIssued, TypeOK, CacheEntry, Tokens
    <2>7. FreshWhileHeld'
      BY <1>13, TimesAssumption DEF Release, Goto, tokenVars, OwnsLock, TInv,
         FreshWhileHeld, TypeOK, TokensIssued, Tokens
    <2>8. CacheLives'
      BY <1>13, TimesAssumption, NoneAssumption DEF Release, Goto, tokenVars,
         OwnsLock, TInv, CacheLives, TypeOK, CacheEntry, Tokens
    <2> QED BY <2>1, <2>2, <2>3, <2>4, <2>5, <2>6, <2>7, <2>8 DEF TInv
  <1>14. ASSUME NEW p \in Callers, Return(p)
        PROVE  TInv'
    <2>1. TypeOK'
      <3>1. /\ got' \in [Callers -> Tokens \cup {None}]
            /\ after' \in [Callers -> {"acquire", "request", "wait"}]
            /\ pc' \in [Callers -> Points]
        BY <1>14 DEF Return, Reset, Goto, TInv, TypeOK, Points
      <3>2. held' \in [Callers -> 0..HoldLimit] /\ waitLeft' \in [Callers -> 0..WaitLimit]
        BY <1>14, TimesAssumption DEF Return, Reset, TInv, TypeOK
      <3> QED BY <1>14, <3>1, <3>2 DEF Return, tokenVars, TInv, TypeOK
    <2>2. LockAgrees'
      BY <1>14, TimesAssumption, NoneAssumption DEF Return, Reset, Goto,
         tokenVars, TInv, LockAgrees, TypeOK, LockEntry, OwnsLock,
         Refreshing, Holding
    <2>3. OverrunKnown'
      BY <1>14, TimesAssumption DEF Return, Reset, Goto, tokenVars, TInv,
         OverrunKnown, TypeOK, Refreshing, Holding
    <2>4. DecisionHolds'
      BY <1>14, NoneAssumption DEF Return, Reset, Goto, tokenVars, TInv,
         DecisionHolds, Decided, Usable, TypeOK, CacheEntry, LockAgrees,
         OverrunKnown, OwnsLock, Refreshing, Holding
    <2>5. TokensReceived'
      BY <1>14, NoneAssumption DEF Return, Reset, Goto, tokenVars, TInv,
         TokensReceived, TypeOK
    <2>6. TokensIssued'
      BY <1>14, BoundsAssumption, NoneAssumption DEF Return, Reset, Goto,
         tokenVars, TInv, TokensIssued, TypeOK, CacheEntry, Tokens
    <2>7. FreshWhileHeld'
      BY <1>14, TimesAssumption DEF Return, Reset, Goto, tokenVars, TInv,
         FreshWhileHeld, TypeOK, TokensIssued, Tokens
    <2>8. CacheLives'
      BY <1>14, TimesAssumption, NoneAssumption DEF Return, Reset, Goto,
         tokenVars, TInv, CacheLives, TypeOK, CacheEntry, Tokens
    <2> QED BY <2>1, <2>2, <2>3, <2>4, <2>5, <2>6, <2>7, <2>8 DEF TInv
  <1>15. ASSUME NEW p \in Callers, RedisError(p)
        PROVE  TInv'
    <2>1. TypeOK'
      <3>1. got' \in [Callers -> Tokens \cup {None}] /\ pc' \in [Callers -> Points]
        BY <1>15 DEF RedisError, Goto, TInv, TypeOK, Points, Holding
      <3>2. faultsLeft' \in 0..MaxFaults
        BY <1>15, BoundsAssumption DEF RedisError, Fault, TInv, TypeOK
      <3> QED BY <1>15, <3>1, <3>2 DEF RedisError, tokenVars, TInv, TypeOK
    <2>2. LockAgrees'
      BY <1>15, TimesAssumption, NoneAssumption DEF RedisError, Fault, Goto,
         tokenVars, Refreshing, Holding, TInv, LockAgrees, TypeOK, LockEntry,
         OwnsLock
    <2>3. OverrunKnown'
      BY <1>15, TimesAssumption DEF RedisError, Fault, Goto, tokenVars,
         Refreshing, Holding, TInv, OverrunKnown, TypeOK
    <2>4. DecisionHolds'
      BY <1>15, NoneAssumption DEF RedisError, Fault, Goto, tokenVars,
         Refreshing, Holding, TInv, DecisionHolds, Decided, Usable, TypeOK,
         CacheEntry, LockAgrees, OverrunKnown, OwnsLock
    <2>5. TokensReceived'
      BY <1>15, NoneAssumption DEF RedisError, Fault, Goto, tokenVars,
         Refreshing, Holding, TInv, TokensReceived, TypeOK
    <2>6. TokensIssued'
      BY <1>15, BoundsAssumption, NoneAssumption DEF RedisError, Fault, Goto,
         tokenVars, Refreshing, Holding, TInv, TokensIssued, TypeOK,
         CacheEntry, Tokens
    <2>7. FreshWhileHeld'
      BY <1>15, TimesAssumption DEF RedisError, Fault, Goto, tokenVars,
         Refreshing, Holding, TInv, FreshWhileHeld, TypeOK, TokensIssued,
         Tokens
    <2>8. CacheLives'
      BY <1>15, TimesAssumption, NoneAssumption DEF RedisError, Fault, Goto,
         tokenVars, Refreshing, Holding, TInv, CacheLives, TypeOK,
         CacheEntry, Tokens
    <2> QED BY <2>1, <2>2, <2>3, <2>4, <2>5, <2>6, <2>7, <2>8 DEF TInv
  <1>16. ASSUME NEW p \in Callers, Crash(p)
        PROVE  TInv'
    <2>1. TypeOK'
      <3>1. got' \in [Callers -> Tokens \cup {None}]
        BY <1>16 DEF Crash, Reset, TInv, TypeOK
      <3>2. held' \in [Callers -> 0..HoldLimit] /\ waitLeft' \in [Callers -> 0..WaitLimit]
        BY <1>16, TimesAssumption DEF Crash, Reset, TInv, TypeOK
      <3>3. /\ pc' \in [Callers -> Points]
            /\ after' \in [Callers -> {"acquire", "request", "wait"}]
        BY <1>16 DEF Crash, Reset, Goto, TInv, TypeOK, Points, Holding
      <3>4. faultsLeft' \in 0..MaxFaults
        BY <1>16, BoundsAssumption DEF Crash, Fault, TInv, TypeOK
      <3> QED
        BY <3>1, <3>2, <3>3, <3>4, <1>16 DEF Crash, tokenVars, TInv, TypeOK
    <2>2. LockAgrees'
      BY <1>16, TimesAssumption, NoneAssumption DEF Crash, Fault, Reset,
         Goto, tokenVars, TInv, LockAgrees, TypeOK, LockEntry, OwnsLock,
         Refreshing, Holding
    <2>3. OverrunKnown'
      BY <1>16, TimesAssumption DEF Crash, Fault, Reset, Goto, tokenVars,
         TInv, OverrunKnown, TypeOK, Refreshing, Holding
    <2>4. DecisionHolds'
      BY <1>16, NoneAssumption DEF Crash, Fault, Reset, Goto, tokenVars,
         TInv, DecisionHolds, Decided, Usable, TypeOK, CacheEntry,
         LockAgrees, OverrunKnown, OwnsLock, Refreshing, Holding
    <2>5. TokensReceived'
      BY <1>16, NoneAssumption DEF Crash, Fault, Reset, Goto, tokenVars,
         TInv, TokensReceived, TypeOK
    <2>6. TokensIssued'
      BY <1>16, BoundsAssumption, NoneAssumption DEF Crash, Fault, Reset,
         Goto, tokenVars, TInv, TokensIssued, TypeOK, CacheEntry, Tokens
    <2>7. FreshWhileHeld'
      BY <1>16, TimesAssumption DEF Crash, Fault, Reset, Goto, tokenVars,
         TInv, FreshWhileHeld, TypeOK, TokensIssued, Tokens
    <2>8. CacheLives'
      BY <1>16, TimesAssumption, NoneAssumption DEF Crash, Fault, Reset,
         Goto, tokenVars, TInv, CacheLives, TypeOK, CacheEntry, Tokens
    <2> QED BY <2>1, <2>2, <2>3, <2>4, <2>5, <2>6, <2>7, <2>8 DEF TInv
  <1>17. CASE UNCHANGED vars
    BY <1>17 DEF vars, tokenVars, callVars, TInv, TypeOK, CacheEntry,
       LockEntry, Points, Holding, Tokens, LockAgrees, OwnsLock, Refreshing,
       OverrunKnown, DecisionHolds, Decided, Usable, TokensReceived,
       TokensIssued, FreshWhileHeld, CacheLives
  <1> QED
    BY <1>1, <1>2, <1>3, <1>4, <1>5, <1>6, <1>7, <1>8, <1>9, <1>10, <1>11,
       <1>12, <1>13, <1>14, <1>15, <1>16, <1>17 DEF Next, CallStep

-----------------------------------------------------------------------------

\* The empty cache, the free lock and the idle callers satisfy TInv.
LEMMA InitHolds == Init => TInv
  <1> SUFFICES ASSUME Init PROVE TInv
    OBVIOUS
  <1>1. TypeOK
    <2>1. /\ cache \in CacheEntry \cup {None} /\ lock \in LockEntry \cup {None}
          /\ issued \in 0..MaxTokens /\ faultsLeft \in 0..MaxFaults
      BY BoundsAssumption DEF Init
    <2>2. full \in [Tokens -> 0..Longest] /\ life = full /\ expires = full
      BY LongestFacts DEF Init
    <2>3. /\ pc \in [Callers -> Points]
          /\ after \in [Callers -> {"acquire", "request", "wait"}]
          /\ got \in [Callers -> Tokens \cup {None}]
      BY DEF Init, Points
    <2>4. held \in [Callers -> 0..HoldLimit] /\ waitLeft \in [Callers -> 0..WaitLimit]
      BY TimesAssumption DEF Init
    <2>5. overran \in BOOLEAN
      BY Zenon DEF Init
    <2> QED BY <2>1, <2>2, <2>3, <2>4, <2>5 DEF TypeOK
  <1>2. Refreshing = {}
    BY DEF Init, Refreshing, Holding
  <1>3. LockAgrees /\ OverrunKnown
    BY <1>2 DEF LockAgrees, OverrunKnown
  <1>4. DecisionHolds /\ TokensReceived /\ TokensIssued /\ FreshWhileHeld /\ CacheLives
    BY DEF Init, DecisionHolds, Usable, TokensReceived, TokensIssued,
       FreshWhileHeld, CacheLives
  <1> QED BY <1>1, <1>3, <1>4 DEF TInv

\* TInv holds in every state of every execution.
THEOREM Invariant == Spec => []TInv
  BY InitHolds, StepPreserves, PTL DEF Spec

\* The state keeps its types: no time to live reaches zero, no lock outlives
\* its lifetime and no caller waits longer than its deadline.
THEOREM TypeCorrect == Spec => []TypeOK
  <1>1. TInv => TypeOK
    BY DEF TInv
  <1> QED BY <1>1, Invariant, PTL

\* Whoever refreshes within the lock's lifetime owns the lock, for any number
\* of replicas and any order of expiry, release, crash and Redis error.
THEOREM LockHeld == Spec => []RefreshOwnsLock
  <1>1. TInv => RefreshOwnsLock
    BY DEF TInv, LockAgrees, RefreshOwnsLock
  <1> QED BY <1>1, Invariant, PTL

\* Two callers are between Acquire and Release at the same time only after a
\* refresh that outlasted its lock.
RefreshersExclude == \A p, q \in Refreshing : p # q => overran

\* One refresh at a time, for any number of replicas: the lock with its expiry
\* excludes a second refresh until the first one that lasts too long.
THEOREM OneRefresh == Spec => []RefreshersExclude
  <1>1. ASSUME TInv, NEW p \in Refreshing, NEW q \in Refreshing, ~overran
        PROVE  p = q
    <2>1. held[p] < LockTtl /\ held[q] < LockTtl
      BY <1>1 DEF TInv, OverrunKnown
    <2>2. OwnsLock(p) /\ OwnsLock(q)
      BY <1>1, <2>1 DEF TInv, LockAgrees
    <2> QED BY <2>2 DEF OwnsLock
  <1>2. TInv => RefreshersExclude
    BY <1>1 DEF RefreshersExclude
  <1> QED BY <1>2, Invariant, PTL

-----------------------------------------------------------------------------

\* One step: a request that is sent with a usable token in the cache follows a
\* refresh that outlasted its lock.
LEMMA RequestNeeded ==
  ASSUME TInv, Next, NEW p \in Callers, pc[p] = "request", pc'[p] = "sent", Usable
  PROVE  overran
  BY DEF TInv, DecisionHolds, Decided

\* KIS is asked for a token only when the cache has none to offer, as long as
\* no refresh outlasts its lock.
THEOREM RefreshNeeded == Spec => NoNeedlessRefresh
  <1>1. TInv /\ [Next]_vars =>
          [\A p \in Callers :
             pc[p] = "request" /\ pc'[p] = "sent" /\ Usable => overran]_vars
    BY RequestNeeded
  <1> QED BY <1>1, Invariant, PTL DEF Spec, NoNeedlessRefresh

\* A token read from the cache was short-lived to begin with or is alive.
LEMMA CachedAlive ==
  ASSUME TInv, Usable
  PROVE  full[cache.token] <= Margin \/ life[cache.token] > 0
  BY TimesAssumption, LongestFacts DEF TInv, TypeOK, CacheEntry, CacheLives,
     Usable

\* The same for every token a step hands to a caller, from the cache or from
\* KIS.
LEMMA TakenByStep ==
  ASSUME TInv, Next, NEW p \in Callers, got'[p] # got[p], got'[p] # None
  PROVE  full'[got'[p]] <= Margin \/ life'[got'[p]] > 0
  <1>1. ASSUME NEW q \in Callers, NEW found, NEW missing,
               ReadCachedToken(q, found, missing)
        PROVE  full'[got'[p]] <= Margin \/ life'[got'[p]] > 0
    <2>1. Usable /\ got'[p] = cache.token /\ UNCHANGED <<full, life>>
      BY <1>1 DEF ReadCachedToken, tokenVars, TInv, TypeOK
    <2> QED BY <2>1, CachedAlive
  <1>2. ASSUME NEW q \in Callers, SendRequest(q)
        PROVE  full'[got'[p]] <= Margin \/ life'[got'[p]] > 0
    <2>1. PICK n \in Lives :
            /\ issued < MaxTokens
            /\ life' = [life EXCEPT ![issued + 1] = n]
            /\ got' = [got EXCEPT ![q] = issued + 1]
      BY <1>2 DEF SendRequest
    <2>2. got'[p] = issued + 1 /\ issued + 1 \in Tokens
      BY <2>1, BoundsAssumption DEF TInv, TypeOK, Tokens
    <2> QED BY <2>1, <2>2, TimesAssumption DEF TInv, TypeOK
  <1>3. ASSUME NEW q \in Callers,
               \/ DropCached(q) \/ Acquire(q) \/ WaitTimeout(q)
               \/ ParseTokenResponse(q) \/ StoreToken(q) \/ Release(q) \/ Call(q)
        PROVE  got' = got
    BY <1>3 DEF DropCached, Acquire, WaitTimeout, ParseTokenResponse,
       StoreToken,
       Release, Call
  <1>4. ASSUME NEW q \in Callers,
               RequestFails(q) \/ Return(q) \/ RedisError(q) \/ Crash(q)
        PROVE  got' = [got EXCEPT ![q] = None]
    BY <1>4 DEF RequestFails, Return, RedisError, Crash, Reset
  <1>5. \A q \in Callers : got' # [got EXCEPT ![q] = None]
    BY DEF TInv, TypeOK
  <1>6. ~Tick
    BY DEF Tick
  <1>7. PICK q \in Callers : FirstRead(q) \/ Reread(q) \/ WaitRead(q) \/ SendRequest(q)
    BY <1>3, <1>4, <1>5, <1>6 DEF Next, CallStep
  <1> QED BY <1>1, <1>2, <1>7 DEF FirstRead, Reread, WaitRead

\* A caller never takes a dead token of ordinary life from the cache: HoldLimit
\* below Margin is all the safety margin has to make up for.
THEOREM TokensTakenAlive == Spec => TakenAlive
  <1>1. TInv /\ [Next]_vars =>
          [\A p \in Callers :
             got'[p] # got[p] /\ got'[p] # None
               => full'[got'[p]] <= Margin \/ life'[got'[p]] > 0]_vars
    BY TakenByStep
  <1> QED BY <1>1, Invariant, PTL DEF Spec, TakenAlive

=============================================================================

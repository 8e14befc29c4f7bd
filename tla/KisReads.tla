------------------------------ MODULE KisReads ------------------------------
(***************************************************************************)
(* Reads from KIS: a domestic stock price, daily candles and the stock     *)
(* holdings of the account. Each looks into its Redis cache, gets a token, *)
(* asks KIS page by page with retries, and caches the whole answer.        *)
(*                                                                         *)
(* Book is what KIS has to say: a version is a sequence of pages, a page a *)
(* set of stock codes. Prices and candles have one page. KIS may move on   *)
(* between two pages.                                                      *)
(***************************************************************************)
EXTENDS Integers, FiniteSets, Sequences

CONSTANTS
  Readers,     \* calls of the routes that read from KIS
  Book,        \* the versions of the holdings
  MaxPages,    \* _MAX_BALANCE_PAGES
  MaxRetries,  \* ExternalProviderConfig.max_retries
  Missing      \* no cache entry

Resources == {"price", "candles", "holdings"}
Versions == 1..Len(Book)
Lists == UNION {[1..n -> Versions] : n \in 0..MaxPages}

ASSUME ReadsAssumption ==
  /\ MaxPages \in Nat \ {0} /\ MaxRetries \in Nat
  /\ Len(Book) \in Nat \ {0}
  /\ \A v \in Versions : Len(Book[v]) \in Nat \ {0}
  /\ Missing \notin Lists

VARIABLES
  version,  \* what KIS answers now
  cache,    \* per resource, the cached answer
  pc,       \* the next call of a reader
  what,     \* the resource it reads
  pages,    \* the versions of the pages it has received, in order
  attempt   \* how often the current request was sent before

readVars == <<version, cache, pc, what, pages, attempt>>

\* a reader that still reads, and where its route can be before and afterwards
Reading == {"cached", "token", "request", "write"}
Points == Reading \cup {"idle", "find", "have", "merge", "commit", "done", "failed"}

ReadsTypeOK ==
  /\ version \in Versions
  /\ cache \in [Resources -> Lists \cup {Missing}]
  /\ pc \in [Readers -> Points]
  /\ what \in [Readers -> Resources]
  /\ pages \in [Readers -> Lists]
  /\ attempt \in [Readers -> 0..MaxRetries]

ReadsInit ==
  /\ version = 1
  /\ cache = [x \in Resources |-> Missing]
  /\ pc = [p \in Readers |-> "idle"]
  /\ what = [p \in Readers |-> "price"]
  /\ pages = [p \in Readers |-> <<>>]
  /\ attempt = [p \in Readers |-> 0]

Jump(p, point) == pc' = [pc EXCEPT ![p] = point]

\* the call is over and its locals are gone
Finish(p, point) ==
  /\ Jump(p, point)
  /\ what' = [what EXCEPT ![p] = "price"]
  /\ pages' = [pages EXCEPT ![p] = <<>>]
  /\ attempt' = [attempt EXCEPT ![p] = 0]

\* an order was filled, a price moved
KisMovesOn ==
  /\ version < Len(Book)
  /\ version' = version + 1
  /\ UNCHANGED <<cache, pc, what, pages, attempt>>

\* 2, 300 and 15 seconds after the SET
CacheExpires(x) ==
  /\ cache[x] # Missing
  /\ cache' = [cache EXCEPT ![x] = Missing]
  /\ UNCHANGED <<version, pc, what, pages, attempt>>

-----------------------------------------------------------------------------
(* KeyValueStore *)

CachedPrice == cache["price"]
CachedDailyCandles == cache["candles"]
CachedHoldings == cache["holdings"]

Cached(x) ==
  CASE x = "price" -> CachedPrice
    [] x = "candles" -> CachedDailyCandles
    [] x = "holdings" -> CachedHoldings

WriteCached(x, list) == cache' = [cache EXCEPT ![x] = list]

WriteCachedPrice(p) == WriteCached("price", pages[p])
WriteCachedDailyCandles(p) == WriteCached("candles", pages[p])
WriteCachedHoldings(p) == WriteCached("holdings", pages[p])

-----------------------------------------------------------------------------
(* The client methods *)

ReadCached(p) ==
  /\ pc[p] = "cached"
  /\ IF Cached(what[p]) # Missing
       THEN pages' = [pages EXCEPT ![p] = Cached(what[p])] /\ Jump(p, "have")
       ELSE UNCHANGED pages /\ Jump(p, "token")
  /\ UNCHANGED <<version, cache, what, attempt>>

\* get_access_token, which TokenCoordinator models
GetToken(p) ==
  /\ pc[p] = "token"
  /\ Jump(p, "request")
  /\ UNCHANGED <<version, cache, what, pages, attempt>>

\* The page number being asked for and the pages there are now.
PageOf(p) == Len(pages[p]) + 1
PagesNow(x) == IF x = "holdings" THEN Len(Book[version]) ELSE 1

\* At the limit the pages so far are taken for the whole list.
StopAtLimit(p) == PageOf(p) < PagesNow(what[p]) /\ PageOf(p) < MaxPages

\* tr_cont is M or F
MorePages(p) == PageOf(p) < PagesNow(what[p])

\* A reply is as it should be, or its status, its JSON or rt_cd is wrong, or one
\* of the records it carries.
Replies == {"ok", "error", "record"}

ParseResponse(reply) == reply # "error"
ParseHoldings(reply) == ParseResponse(reply) /\ reply # "record"
ParsePriceResponse(reply) == reply = "ok"
ParseDailyPriceResponse(reply) == reply = "ok"

Parsed(x, reply) ==
  CASE x = "price" -> ParsePriceResponse(reply)
    [] x = "candles" -> ParseDailyPriceResponse(reply)
    [] x = "holdings" -> ParseHoldings(reply)

\* one wrong record, or one page too many, and nothing of the list is used
ReceivePage(p, reply) ==
  /\ pc[p] = "request"
  /\ IF ~Parsed(what[p], reply) \/ (MorePages(p) /\ PageOf(p) = MaxPages)
       THEN Finish(p, "failed")
       ELSE /\ pages' = [pages EXCEPT ![p] = Append(@, version)]
            /\ attempt' = [attempt EXCEPT ![p] = 0]
            /\ Jump(p, IF MorePages(p) THEN "request" ELSE "write")
            /\ UNCHANGED what
  /\ UNCHANGED <<version, cache>>

WriteCache(p) ==
  /\ pc[p] = "write"
  /\ \/ what[p] = "price" /\ WriteCachedPrice(p)
     \/ what[p] = "candles" /\ WriteCachedDailyCandles(p)
     \/ what[p] = "holdings" /\ WriteCachedHoldings(p)
  /\ Jump(p, "have")
  /\ UNCHANGED <<version, what, pages, attempt>>

\* The number of attempts is not looked at.
RetryAlways(p) ==
  /\ pc[p] = "request"
  /\ attempt' = [attempt EXCEPT ![p] = @ + 1]
  /\ UNCHANGED <<version, cache, pc, what, pages>>

\* a page that is lost on the way, or a status 408, 425, 429 or 5xx: sent again
\* unless it was the last attempt
RequestFails(p) ==
  /\ pc[p] = "request"
  /\ IF attempt[p] < MaxRetries
       THEN attempt' = [attempt EXCEPT ![p] = @ + 1] /\ UNCHANGED <<pc, what, pages>>
       ELSE Finish(p, "failed")
  /\ UNCHANGED <<version, cache>>

ClientStep(p) ==
  \/ ReadCached(p) \/ GetToken(p) \/ RequestFails(p) \/ WriteCache(p)
  \/ \E reply \in Replies : ReceivePage(p, reply)

GetStockPrice(p) == what[p] = "price" /\ ClientStep(p)
GetDailyCandles(p) == what[p] = "candles" /\ ClientStep(p)
ListHoldings(p) == what[p] = "holdings" /\ ClientStep(p)

ReadStep(p) == GetStockPrice(p) \/ GetDailyCandles(p) \/ ListHoldings(p)

\* no token, or a Redis error
ReadFails(p) ==
  /\ pc[p] \in Reading
  /\ Finish(p, "failed")
  /\ UNCHANGED <<version, cache>>

-----------------------------------------------------------------------------
(* Properties *)

\* A list with every page up to one that was the last when it was read.
WholeList(x, list) ==
  /\ Len(list) > 0
  /\ IF x = "holdings"
       THEN /\ Len(list) <= MaxPages
            /\ Len(list) >= Len(Book[list[Len(list)]])
       ELSE Len(list) = 1

\* What is cached or handed to a caller is a whole answer, although KIS moves on
\* between two pages, requests are sent again, reads fail half way and a list
\* may have more pages than the client is willing to ask for.
ListsWhole ==
  /\ \A x \in Resources : cache[x] # Missing => WholeList(x, cache[x])
  /\ \A p \in Readers : pc[p] = "have" => WholeList(what[p], pages[p])
=============================================================================

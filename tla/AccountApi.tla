----------------------------- MODULE AccountApi -----------------------------
(***************************************************************************)
(* The routes of the account over KisReads and RequestReplay: link         *)
(* the brokerage account, list the holdings, capture a portfolio snapshot  *)
(* under an idempotency key of its own, store prices and daily candles.    *)
(*                                                                         *)
(* A capture looks for its snapshot, reads the holdings, and looks once    *)
(* more in the transaction that saves it. All captures here use one key,   *)
(* so they share one snapshot_id. captured_at is the name of the capture.  *)
(* Only the Owner has a connection, and so only the Owner has snapshots.   *)
(***************************************************************************)
EXTENDS RequestReplay, KisReads

CONSTANTS
  MaxCalls,   \* bound: calls of all routes together
  MaxFaults   \* bound: failures

VARIABLES
  route,        \* the route of a reader
  snapshot,     \* the portfolio_snapshots row
  positions,    \* its portfolio_position_snapshots rows, by stock code
  told,         \* the PortfolioSnapshotCapture a capture or a GET was answered with
  merged,       \* what the SELECTs of a merge found
  captured,     \* number of portfolio.snapshot.captured events
  overwritten,  \* history: a merge found a row that its own find had not
  prices,       \* market_price_snapshots rows, by the call that made them
  candles,      \* the domestic_daily_candles rows of a stock
  faultsLeft

storeVars == <<route, snapshot, positions, told, merged, captured, overwritten, prices,
               candles>>
vars == <<replayVars, readVars, storeVars, faultsLeft>>

Routes == {"price", "price-snapshot", "get-price-snapshot", "candles", "holdings",
           "linked-holdings", "capture", "get-snapshot", "list-candles"}

Resource(rt) ==
  CASE rt \in {"price", "price-snapshot", "get-price-snapshot"} -> "price"
    [] rt \in {"candles", "list-candles"} -> "candles"
    [] OTHER -> "holdings"

Codes == UNION UNION {{Book[v][i] : i \in 1..Len(Book[v])} : v \in Versions}

Snapshots == [captured_at : Readers, position_count : 0..Cardinality(Codes)]
Captures == [snapshot : Snapshots, positions : SUBSET Codes]

ASSUME ApiAssumption ==
  /\ MaxCalls \in Nat /\ MaxFaults \in Nat
  /\ IsFiniteSet(Readers) /\ IsFiniteSet(Codes)
  /\ None \notin Snapshots \cup Captures

TypeOK ==
  /\ ReplayTypeOK
  /\ ReadsTypeOK
  /\ route \in [Readers -> Routes]
  /\ snapshot \in Snapshots \cup {None}
  /\ positions \subseteq Codes
  /\ told \in [Readers -> Captures \cup {None}]
  /\ merged \in [Readers -> {"none", "insert", "update"}]
  /\ captured \in 0..Cardinality(Readers)
  /\ overwritten \in BOOLEAN
  /\ prices \subseteq Readers
  /\ candles \in Lists
  /\ faultsLeft \in 0..MaxFaults

Init ==
  /\ ReplayInit
  /\ ReadsInit
  /\ route = [p \in Readers |-> "price"]
  /\ snapshot = None
  /\ positions = {}
  /\ told = [p \in Readers |-> None]
  /\ merged = [p \in Readers |-> "none"]
  /\ captured = 0
  /\ overwritten = FALSE
  /\ prices = {}
  /\ candles = <<>>
  /\ faultsLeft = MaxFaults

Calling ==
  Cardinality({r \in Requests : stage[r] # "idle"})
  + Cardinality({p \in Readers : pc[p] # "idle"})

-----------------------------------------------------------------------------
(* Positions *)

\* the holdings on page i of a list
OnPage(list, i) ==
  IF i <= Len(Book[list[i]]) THEN Book[list[i]][i] ELSE {}

\* _position_models: one position per stock code
PositionCodes(list) == UNION {OnPage(list, i) : i \in 1..Len(list)}

\* Holdings are counted, a stock on two pages twice.
HoldingCount(list) ==
  Cardinality(UNION {{i} \X OnPage(list, i) : i \in 1..Len(list)})

PositionCount(list) == Cardinality(PositionCodes(list))

NewSnapshot(p) == [captured_at |-> p, position_count |-> PositionCount(pages[p])]

-----------------------------------------------------------------------------
(* The portfolio repositories *)

FindSnapshot == snapshot

ListPositions == positions

\* _find_capture
Capture == IF FindSnapshot = None THEN None
           ELSE [snapshot |-> FindSnapshot, positions |-> ListPositions]

\* the SELECTs of Session.merge
SelectForMerge(p) ==
  merged' = [merged EXCEPT ![p] = IF snapshot = None THEN "insert" ELSE "update"]

SaveSnapshot(p) == snapshot' = NewSnapshot(p)

\* the positions of stocks that are gone stay
SavePositions(p) == positions' = positions \cup PositionCodes(pages[p])

-----------------------------------------------------------------------------
(* Routes that start a read *)

\* get_active_kis_connection
ActiveConnection(u) == FindConnection(u) # None

Start(p, rt, point) ==
  /\ pc[p] = "idle"
  /\ route' = [route EXCEPT ![p] = rt]
  /\ what' = [what EXCEPT ![p] = Resource(rt)]
  /\ Jump(p, point)
  /\ UNCHANGED <<replayVars, version, cache, pages, attempt, snapshot,
                 positions, told, merged, captured, overwritten, prices,
                 candles>>

GetDomesticStockPrice(p) == Start(p, "price", "cached")
CreateDomesticStockPriceSnapshot(p) == Start(p, "price-snapshot", "cached")
CreateDomesticDailyCandles(p) == Start(p, "candles", "cached")
ListDomesticStockHoldings(p) == Start(p, "holdings", "cached")

\* 404 without a connection, 403 for another user than the Owner
ListLinkedHoldings(p, u) ==
  Start(p, "linked-holdings", IF ActiveConnection(u) THEN "cached" ELSE "failed")
CaptureLinkedSnapshot(p, u) ==
  Start(p, "capture", IF ActiveConnection(u) THEN "find" ELSE "failed")

-----------------------------------------------------------------------------
(* capture_portfolio_snapshot *)

\* _find_capture: a transaction of its own
FindCapture(p) ==
  /\ pc[p] = "find"
  /\ told' = [told EXCEPT ![p] = Capture]
  /\ IF FindSnapshot = None THEN Jump(p, "cached") /\ UNCHANGED <<what, pages, attempt>>
     ELSE Finish(p, "done")
  /\ UNCHANGED <<replayVars, version, cache, route, snapshot, positions, merged,
                 captured, overwritten, prices, candles>>

\* the second look, in the transaction that saves
FindAgain(p) ==
  /\ pc[p] = "have" /\ route[p] = "capture"
  /\ told' = [told EXCEPT ![p] = Capture]
  /\ IF FindSnapshot = None THEN Jump(p, "merge") /\ UNCHANGED <<what, pages, attempt>>
     ELSE Finish(p, "done")
  /\ UNCHANGED <<replayVars, version, cache, route, snapshot, positions, merged,
                 captured, overwritten, prices, candles>>

MergeCapture(p) ==
  /\ pc[p] = "merge" /\ route[p] = "capture"
  /\ SelectForMerge(p)
  /\ Jump(p, "commit")
  /\ UNCHANGED <<replayVars, version, cache, what, pages, attempt, route,
                 snapshot, positions, told, captured, overwritten, prices,
                 candles>>

\* COMMIT of the snapshot, its positions and the event; an INSERT of a key that
\* exists by now raises
CommitCapture(p) ==
  /\ pc[p] = "commit" /\ route[p] = "capture"
  /\ IF merged[p] = "insert" /\ snapshot # None
       THEN /\ Finish(p, "failed")
            /\ UNCHANGED <<snapshot, positions, told, captured, overwritten>>
       ELSE /\ SaveSnapshot(p)
            /\ SavePositions(p)
            /\ told' = [told EXCEPT ![p] =
                 [snapshot |-> NewSnapshot(p), positions |-> PositionCodes(pages[p])]]
            /\ captured' = captured + 1
            /\ overwritten' = (overwritten \/ merged[p] = "update")
            /\ Finish(p, "done")
  /\ merged' = [merged EXCEPT ![p] = "none"]
  /\ UNCHANGED <<replayVars, version, cache, route, prices, candles>>

\* the snapshot, or 404 when there is none or it is another user's
GetPortfolioSnapshot(p, u) ==
  told' = [told EXCEPT ![p] = IF u = Owner THEN Capture ELSE None]

GetSnapshot(p, u) ==
  /\ pc[p] = "idle"
  /\ route' = [route EXCEPT ![p] = "get-snapshot"]
  /\ GetPortfolioSnapshot(p, u)
  /\ Jump(p, "done")
  /\ UNCHANGED <<replayVars, version, cache, what, pages, attempt, snapshot,
                 positions, merged, captured, overwritten, prices, candles>>

-----------------------------------------------------------------------------
(* The other routes, once the read is there *)

Leave(p, point) == Finish(p, point) /\ route' = [route EXCEPT ![p] = "price"]

AnswerRead(p) ==
  /\ pc[p] = "have" /\ route[p] \in {"price", "holdings", "linked-holdings"}
  /\ Leave(p, "done")
  /\ UNCHANGED <<replayVars, version, cache, snapshot, positions, told, merged,
                 captured, overwritten, prices, candles>>

InsertPrice(p) == prices' = prices \cup {p}

\* save_market_price_snapshot: a new row for each call
SavePrice(p) ==
  /\ pc[p] = "have" /\ route[p] = "price-snapshot"
  /\ InsertPrice(p)
  /\ Leave(p, "done")
  /\ UNCHANGED <<replayVars, version, cache, snapshot, positions, told, merged,
                 captured, overwritten, candles>>

\* save_domestic_daily_candles: the merge of a row for each date
MergeCandles(p) ==
  /\ pc[p] = "have" /\ route[p] = "candles"
  /\ merged' = [merged EXCEPT ![p] =
       IF candles = <<>> THEN "insert"
       ELSE IF candles = pages[p] THEN "none" ELSE "update"]
  /\ Jump(p, "commit")
  /\ UNCHANGED <<replayVars, version, cache, what, pages, attempt, route,
                 snapshot, positions, told, captured, overwritten, prices,
                 candles>>

CommitCandles(p) ==
  /\ pc[p] = "commit" /\ route[p] = "candles"
  /\ IF merged[p] = "insert" /\ candles # <<>>
       THEN Leave(p, "failed") /\ UNCHANGED candles
       ELSE /\ candles' = IF merged[p] = "none" THEN candles ELSE pages[p]
            /\ Leave(p, "done")
  /\ merged' = [merged EXCEPT ![p] = "none"]
  /\ UNCHANGED <<replayVars, version, cache, snapshot, positions, told,
                 captured, overwritten, prices>>

\* list_by_stock_code
StoredCandles == candles

ListDomesticDailyCandles(p) ==
  /\ pc[p] = "idle"
  /\ route' = [route EXCEPT ![p] = "list-candles"]
  /\ pages' = [pages EXCEPT ![p] = StoredCandles]
  /\ Jump(p, "done")
  /\ UNCHANGED <<replayVars, version, cache, what, attempt, snapshot, positions,
                 told, merged, captured, overwritten, prices, candles>>

FindPrice(p) == p \in prices

\* the row some call has made, or 404
GetDomesticStockPriceSnapshot(p) ==
  \E q \in Readers : Start(p, "get-price-snapshot", IF FindPrice(q) THEN "done" ELSE "failed")

\* a transaction that fails changes nothing
StoreFails(p) ==
  /\ pc[p] \in {"merge", "commit"}
  /\ Leave(p, "failed")
  /\ merged' = [merged EXCEPT ![p] = "none"]
  /\ UNCHANGED <<replayVars, version, cache, snapshot, positions, told,
                 captured, overwritten, prices, candles>>

-----------------------------------------------------------------------------

NewCall ==
  /\ Calling < MaxCalls
  /\ \/ \E r \in Requests : Arrive(r) /\ UNCHANGED <<readVars, storeVars>>
     \/ \E p \in Readers :
          \/ GetDomesticStockPrice(p) \/ CreateDomesticStockPriceSnapshot(p)
          \/ CreateDomesticDailyCandles(p) \/ ListDomesticStockHoldings(p)
          \/ ListDomesticDailyCandles(p) \/ GetDomesticStockPriceSnapshot(p)
          \/ \E u \in Users : \/ ListLinkedHoldings(p, u) \/ CaptureLinkedSnapshot(p, u)
                             \/ GetSnapshot(p, u)

Step ==
  \/ \E r \in Requests : Progress(r) /\ UNCHANGED <<readVars, storeVars>>
  \/ \E p \in Readers : ReadStep(p) /\ UNCHANGED <<replayVars, storeVars>>
  \/ \E p \in Readers :
       \/ FindCapture(p) \/ FindAgain(p) \/ MergeCapture(p) \/ CommitCapture(p)
       \/ AnswerRead(p) \/ SavePrice(p) \/ MergeCandles(p) \/ CommitCandles(p)

\* KIS moves on and cached answers expire, at the last moment before somebody
\* looks: nothing else depends on when.
World ==
  /\ \/ (\E p \in Readers : pc[p] = "request") /\ KisMovesOn
     \/ \E p \in Readers : pc[p] = "cached" /\ CacheExpires(what[p])
  /\ UNCHANGED <<replayVars, storeVars>>

Failure ==
  /\ faultsLeft > 0
  /\ faultsLeft' = faultsLeft - 1
  /\ \/ \E r \in Requests : RequestFault(r) /\ UNCHANGED <<readVars, storeVars>>
     \/ \E k \in Keys : DropRecord(k) /\ UNCHANGED <<readVars, storeVars>>
     \/ \E p \in Readers : ReadFails(p) /\ UNCHANGED <<replayVars, storeVars>>
     \/ \E p \in Readers : StoreFails(p)

Next == \/ (NewCall \/ Step \/ World) /\ UNCHANGED faultsLeft
        \/ Failure

Spec == Init /\ [][Next]_vars

-----------------------------------------------------------------------------
(* Properties *)

\* However captures with one key overlap, they store one snapshot whose
\* position_count is the number of its positions, announce it once and are all
\* answered with it. The exception is a capture that commits between another
\* one's second look and its merge, which then writes over it.
SnapshotsConsistent ==
  snapshot # None /\ ~overwritten =>
    /\ snapshot.position_count = Cardinality(positions)
    /\ captured = 1
    /\ \A p \in Readers :
         route[p] = "capture" /\ pc[p] = "done" => told[p] = Capture
=============================================================================

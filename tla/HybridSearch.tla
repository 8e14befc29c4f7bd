---------------------------- MODULE HybridSearch ----------------------------
(***************************************************************************)
(* HybridSearchIndex: one index of a search backend, whose documents are   *)
(* found by keywords and by the nearness of their embeddings.              *)
(*                                                                         *)
(*   index   embed | HEAD the index | PUT it if it is missing | _bulk      *)
(*   search  embed | two queries at the same time | fuse the two rankings  *)
(*                                                                         *)
(* A document is its id. What a query finds and how it ranks it is up to   *)
(* the backend. Writers and readers share nothing but the index.           *)
(***************************************************************************)
EXTENDS Integers, Sequences, FiniteSets, SequencesExt

CONSTANTS
  Documents,      \* ids, in their order
  Writers,        \* calls of index
  Limits,         \* limits a search may ask for
  RankConstant,   \* 60 of the reciprocal rank
  MinCandidates   \* 20 of candidate_count

ASSUME SearchAssumption ==
  /\ Documents \subseteq Nat \ {0} /\ IsFiniteSet(Documents)
  /\ Limits \subseteq Nat \ {0} /\ IsFiniteSet(Limits)
  /\ RankConstant \in Nat /\ MinCandidates \in Nat \ {0}

VARIABLES
  docs,     \* the documents of the index
  mapping,  \* "none", "vector" (of _index_mapping) or "dynamic" (made by a _bulk)
  write,    \* how far a call of index is
  batch,    \* its documents
  query     \* the search that is being answered

searchVars == <<docs, mapping, write, batch, query>>

Rankings == SetToAllKPermutations(Documents)

Unanswered == <<0>>

NoQuery == [at |-> "none", limit |-> 0, keyword |-> Unanswered,
            vector |-> Unanswered, result |-> Unanswered]

IndexTypeOK ==
  /\ docs \subseteq Documents
  /\ mapping \in {"none", "vector", "dynamic"}
  /\ write \in [Writers -> {"none", "embed", "head", "put", "bulk", "done", "error"}]
  /\ batch \in [Writers -> SUBSET Documents]

QueryTypeOK ==
  query \in [at : {"none", "sent", "answered", "failed"}, limit : Limits \cup {0},
            keyword : Rankings \cup {Unanswered}, vector : Rankings \cup {Unanswered},
            result : Rankings \cup {Unanswered}]

SearchTypeOK == IndexTypeOK /\ QueryTypeOK

SearchInit ==
  /\ docs = {}
  /\ mapping = "none"
  /\ write = [w \in Writers |-> "none"]
  /\ batch = [w \in Writers |-> {}]
  /\ query = NoQuery

-----------------------------------------------------------------------------
(* index *)

At(w, from, to) == write[w] = from /\ write' = [write EXCEPT ![w] = to]

Index(w, documents) ==
  /\ write' = [write EXCEPT ![w] = IF documents = {} THEN "done" ELSE "embed"]
  /\ batch' = [batch EXCEPT ![w] = documents]

\* as many embeddings as documents
Embed(w) ==
  /\ At(w, "embed", "head")
  /\ UNCHANGED <<docs, mapping, batch, query>>

IndexExists(w) ==
  /\ mapping # "none"
  /\ At(w, "head", "bulk")
  /\ UNCHANGED <<docs, mapping, batch, query>>

IndexMissing(w) ==
  /\ mapping = "none"
  /\ At(w, "head", "put")
  /\ UNCHANGED <<docs, mapping, batch, query>>

Created == mapping' = IF mapping = "none" THEN "vector" ELSE mapping

\* 400 means somebody else was first
CreateIndex(w) ==
  /\ At(w, "put", "bulk")
  /\ Created
  /\ UNCHANGED <<docs, batch, query>>

\* _bulk; a missing index is made by the backend, without the embeddings
Stored(written) ==
  /\ docs' = docs \cup written
  /\ mapping' = IF mapping = "none" THEN "dynamic" ELSE mapping

Bulk(w) ==
  /\ At(w, "bulk", "done")
  /\ Stored(batch[w])
  /\ UNCHANGED <<batch, query>>

\* "errors" of the answer is not looked at
BulkUnchecked(w, rejected) ==
  /\ At(w, "bulk", "done")
  /\ Stored(batch[w] \ rejected)
  /\ UNCHANGED <<batch, query>>

\* the backend takes some of the documents: RuntimeError
BulkRejects(w, rejected) ==
  /\ At(w, "bulk", "error")
  /\ Stored(batch[w] \ rejected)
  /\ UNCHANGED <<batch, query>>

\* 400 for a mapping the backend does not accept counts as created
MappingRejected(w) ==
  /\ mapping = "none"
  /\ At(w, "put", "bulk")
  /\ UNCHANGED <<docs, mapping, batch, query>>

\* the request fails; a PUT or a _bulk may have been done all the same
HttpFails(w) ==
  /\ write[w] \in {"embed", "head", "put", "bulk"}
  /\ write' = [write EXCEPT ![w] = "error"]
  /\ \/ UNCHANGED <<docs, mapping>>
     \/ write[w] = "put" /\ Created /\ UNCHANGED docs
     \/ write[w] = "bulk" /\ Stored(batch[w])
  /\ UNCHANGED <<batch, query>>

IndexStep(w) ==
  Embed(w) \/ IndexExists(w) \/ IndexMissing(w) \/ CreateIndex(w) \/ Bulk(w)

-----------------------------------------------------------------------------
(* search *)

CandidateCount(limit) == IF 2 * limit > MinCandidates THEN 2 * limit ELSE MinCandidates

RankIn(d, ranking) == CHOOSE i \in DOMAIN ranking : ranking[i] = d

\* Scores are compared exactly, as fractions <<numerator, denominator>>.
Plus(x, y) == <<x[1] * y[2] + y[1] * x[2], x[2] * y[2]>>
Exceeds(x, y) == x[1] * y[2] > y[1] * x[2]

RankScore(d, ranking) ==
  IF d \in Range(ranking) THEN <<1, RankConstant + RankIn(d, ranking)>> ELSE <<0, 1>>

\* the later response replaces the score of the earlier one
LastScore(d, keyword, vector) ==
  IF d \in Range(vector) THEN RankScore(d, vector) ELSE RankScore(d, keyword)

Score(d, keyword, vector) == Plus(RankScore(d, keyword), RankScore(d, vector))

\* by descending score and then by id
SortsBefore(a, b, keyword, vector) ==
  LET x == Score(a, keyword, vector)
      y == Score(b, keyword, vector)
  IN Exceeds(x, y) \/ (~Exceeds(y, x) /\ a < b)

Found(keyword, vector) == Range(keyword) \cup Range(vector)

\* how many of the found documents are sorted before d
Ahead(d, keyword, vector) ==
  Cardinality({e \in Found(keyword, vector) : SortsBefore(e, d, keyword, vector)})

\* all that was found, sorted and cut
Fused(keyword, vector, limit) ==
  LET count == Cardinality(Found(keyword, vector))
  IN [i \in 1..(IF count < limit THEN count ELSE limit) |->
        CHOOSE d \in Found(keyword, vector) : Ahead(d, keyword, vector) = i - 1]

\* the query is embedded and both requests are sent
Search(limit) ==
  /\ query = NoQuery
  /\ query' = [NoQuery EXCEPT !.at = "sent", !.limit = limit]
  /\ UNCHANGED <<docs, mapping, write, batch>>

\* gather returns with the second of the two answers, and what they say is fused
Answered(keyword, vector) ==
  query' = IF Unanswered \in {keyword, vector}
             THEN [query EXCEPT !.keyword = keyword, !.vector = vector]
             ELSE [query EXCEPT !.at = "answered", !.keyword = keyword,
                     !.vector = vector, !.result = Fused(keyword, vector, query.limit)]

KeywordHits ==
  /\ query.at = "sent"
  /\ query.keyword = Unanswered
  /\ mapping # "none"
  /\ \E found \in SetToAllKPermutations(docs) :
       /\ Len(found) <= CandidateCount(query.limit)
       /\ Answered(found, query.vector)
  /\ UNCHANGED <<docs, mapping, write, batch>>

\* the k nearest, of all documents there are
VectorHits ==
  /\ query.at = "sent"
  /\ query.vector = Unanswered
  /\ mapping = "vector"
  /\ \E order \in SetToSeqs(docs) :
       Answered(query.keyword,
                SubSeq(order, 1, IF Len(order) < CandidateCount(query.limit)
                                   THEN Len(order) ELSE CandidateCount(query.limit)))
  /\ UNCHANGED <<docs, mapping, write, batch>>

\* Whatever raises ends the search: no embedding of the query, a request that
\* fails, 404 before the first document, 400 for vectors the mapping does not
\* have. The last two always do: such a query has no hits.
SearchUnavailable ==
  /\ query.at = "sent"
  /\ query' = [NoQuery EXCEPT !.at = "failed"]
  /\ UNCHANGED <<docs, mapping, write, batch>>

SearchStep == KeywordHits \/ VectorHits \/ SearchUnavailable

-----------------------------------------------------------------------------
(* Properties *)

\* rank a has in a list, where not to be found is the worst
Place(d, ranking) ==
  IF d \in Range(ranking) THEN RankIn(d, ranking) ELSE Cardinality(Documents) + 1

AheadOf(a, b, keyword, vector) ==
  /\ Place(a, keyword) <= Place(b, keyword)
  /\ Place(a, vector) <= Place(b, vector)
  /\ Place(a, keyword) < Place(b, keyword) \/ Place(a, vector) < Place(b, vector)

\* What search returns agrees with the two rankings it was made from: different
\* documents, all that were found or as many as the limit and never more, and
\* whenever one ranking
\* puts a before b and the other does not object, b is returned only after a.
FusionRespectsRankings ==
  query.at = "answered" =>
    LET keyword == query.keyword
        vector == query.vector
        result == query.result
        found == Found(keyword, vector)
    IN /\ Range(result) \subseteq found
       /\ Cardinality(Range(result)) = Len(result)
       /\ Len(result) <= query.limit
       /\ Len(result) = query.limit \/ Range(result) = found
       /\ \A a, b \in found :
            AheadOf(a, b, keyword, vector) /\ b \in Range(result) =>
              a \in Range(result) /\ RankIn(a, result) < RankIn(b, result)
=============================================================================

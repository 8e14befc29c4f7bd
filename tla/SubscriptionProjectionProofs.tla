-------------------- MODULE SubscriptionProjectionProofs --------------------
(***************************************************************************)
(* PInv is an inductive invariant of SubscriptionProjection for any        *)
(* requests and slots. As long as no two slots are between their look at   *)
(* the projection and their commit, OneAtATime is inductive as well, and   *)
(* the projection is the newest event handled. Nothing in the code keeps   *)
(* two slots from being there: run projection_race shows what then happens.*)
(***************************************************************************)
EXTENDS SubscriptionProjection, TLAPS, FiniteSetTheorems

\* The requests that have returned.
Returned == {r \in Requests : phase[r] = "done"}

\* A request stores its event when it returns.
EventsOfReturned == \A r \in Requests : phase[r] # "done" => events[r] = NoRow

\* Only events that were stored travel.
EventsTravel ==
  /\ \A r \in Requests : mail[r] > 0 \/ r \in inbox => events[r] # NoRow
  /\ \A h \in Slots : task[h] # "idle" => msg[h] \in Requests /\ events[msg[h]] # NoRow

\* Every revision was made by a request of its own.
RevisionsCounted ==
  /\ row # NoRow => row.revision <= Cardinality(Returned)
  /\ \A r \in Open :
       change[r] # NoRow /\ change[r].revision <= Cardinality(Returned) + 1

\* A merge that does not insert has found a row, and rows stay.
RowsStay ==
  /\ \A r \in Requests : phase[r] = "merged" /\ "insert" \notin dirty[r] => row # NoRow
  /\ \A h \in Slots :
       task[h] = "merged" /\ "insert" \notin stale[h] => projection # NoRow

PInv ==
  /\ TypeOK
  /\ EventsOfReturned
  /\ EventsTravel
  /\ RevisionsCounted
  /\ RowsStay

Looking(h) == task[h] \in {"found", "merged"}

\* Of any number of slots, one at a time is between its look at the projection and
\* its commit.
NoOverlap == \A g, h \in Slots : Looking(g) /\ Looking(h) => g = h

\* What the handler has found of the projection is still so.
HandlerCurrent ==
  \A h \in Slots :
    /\ task[h] \in {"found", "merged"} => ~IsStale(msg[h])
    /\ task[h] = "merged" => stale[h] = DirtyColumns(projection, events[msg[h]])

OneAtATime == HandlerCurrent /\ ProjectionIsNewestHandled

-----------------------------------------------------------------------------

\* A row is its two columns.
LEMMA RowFacts ==
  ASSUME NEW v \in Rows
  PROVE  /\ v.enabled \in BOOLEAN /\ v.revision \in 1..Cardinality(Requests)
         /\ v = [c \in Columns |-> v[c]]
         /\ v # NoRow
  BY NamesAssumption DEF Rows, Columns

\* What Session.merge finds different: the whole row when there is none.
LEMMA DirtyFacts ==
  ASSUME NEW current, NEW new
  PROVE  /\ DirtyColumns(current, new) \in Dirts
         /\ "insert" \in DirtyColumns(current, new) <=> current = NoRow
  <1>1. CASE current = NoRow
    <2>1. DirtyColumns(current, new) = {"insert"}
      BY <1>1 DEF DirtyColumns
    <2>2. {"insert"} \in Dirts /\ "insert" \in {"insert"}
      BY DEF Dirts
    <2> QED BY <1>1, <2>1, <2>2
  <1>2. CASE current # NoRow
    <2>1. DirtyColumns(current, new) \in SUBSET Columns
      BY <1>2 DEF DirtyColumns
    <2> QED BY <1>2, <2>1 DEF Dirts, Columns
  <1> QED BY <1>1, <1>2

\* The flush makes a row, whose revision is one of the two.
LEMMA FlushedFacts ==
  ASSUME NEW current \in Rows \cup {NoRow}, NEW new \in Rows, NEW d \in Dirts,
         "insert" \notin d => current # NoRow
  PROVE  /\ Flushed(current, new, d) \in Rows
         /\ \/ Flushed(current, new, d).revision = new.revision
            \/ current # NoRow /\ Flushed(current, new, d).revision = current.revision
  BY DEF Flushed, Columns, Rows

\* A flush of what the merge has found gives the row that was merged.
LEMMA FlushedExact ==
  ASSUME NEW current \in Rows \cup {NoRow}, NEW new \in Rows
  PROVE  Flushed(current, new, DirtyColumns(current, new)) = new
  BY RowFacts DEF Flushed, DirtyColumns, Columns

\* The requests that have returned can be counted.
LEMMA ReturnedFinite ==
  /\ IsFiniteSet(Returned) /\ Cardinality(Returned) \in Nat
  /\ Cardinality(Requests) \in Nat /\ Cardinality(Returned) <= Cardinality(Requests)
  /\ \A r \in Requests \ Returned :
       /\ Cardinality(Returned \cup {r}) = Cardinality(Returned) + 1
       /\ Cardinality(Returned) + 1 <= Cardinality(Requests)
  <1>1. Returned \in SUBSET Requests
    BY DEF Returned
  <1>2. /\ IsFiniteSet(Returned) /\ Cardinality(Returned) \in Nat
        /\ Cardinality(Requests) \in Nat /\ Cardinality(Returned) <= Cardinality(Requests)
    BY <1>1, NamesAssumption, FS_Subset, FS_CardinalityType
  <1>3. ASSUME NEW r \in Requests \ Returned
        PROVE  /\ Cardinality(Returned \cup {r}) = Cardinality(Returned) + 1
               /\ Cardinality(Returned) + 1 <= Cardinality(Requests)
    <2>1. Cardinality(Returned \cup {r}) = Cardinality(Returned) + 1
      BY <1>2, <1>3, FS_AddElement
    <2>2. Returned \cup {r} \in SUBSET Requests
      BY <1>1
    <2>3. Cardinality(Returned \cup {r}) <= Cardinality(Requests)
      BY <2>2, NamesAssumption, FS_Subset
    <2> QED BY <2>1, <2>3
  <1> QED BY <1>2, <1>3

\* A request that returns adds itself to them, any other step nothing.
LEMMA ReturnedGrows ==
  ASSUME PInv, NEW r \in Requests, phase[r] # "done", NEW next,
         phase' = [phase EXCEPT ![r] = next]
  PROVE  /\ next = "done" => Cardinality(Returned') = Cardinality(Returned) + 1
         /\ next # "done" => Cardinality(Returned') = Cardinality(Returned)
  <1>1. CASE next = "done"
    <2>1. Returned' = Returned \cup {r} /\ r \notin Returned
      BY <1>1 DEF Returned, PInv, TypeOK
    <2> QED BY <1>1, <2>1, ReturnedFinite
  <1>2. CASE next # "done"
    <2>1. Returned' = Returned
      BY <1>2 DEF Returned, PInv, TypeOK
    <2> QED BY <1>2, <2>1
  <1> QED BY <1>1, <1>2

\* The revision of an open request is within the number of requests.
LEMMA RevisionMade ==
  ASSUME PInv, NEW r \in Requests, phase[r] = "idle", NEW enable \in BOOLEAN
  PROVE  [enabled |-> enable, revision |-> NextRevision(row)] \in Rows
  <1>1. r \in Requests \ Returned
    BY DEF Returned
  <1>2. row # NoRow => row.revision \in Nat /\ row.revision <= Cardinality(Returned)
    BY RowFacts, ReturnedFinite DEF PInv, TypeOK, RevisionsCounted
  <1>3. NextRevision(row) \in Nat \ {0} /\ NextRevision(row) <= Cardinality(Returned) + 1
    <2>1. CASE row = NoRow
      BY <2>1, ReturnedFinite DEF NextRevision
    <2>2. CASE row # NoRow
      BY <1>2, <2>2, ReturnedFinite DEF NextRevision
    <2> QED BY <2>1, <2>2
  <1>4. NextRevision(row) \in 1..Cardinality(Requests)
    <2>1. /\ Cardinality(Returned) + 1 <= Cardinality(Requests)
          /\ Cardinality(Returned) \in Nat /\ Cardinality(Requests) \in Nat
      BY <1>1, ReturnedFinite
    <2> QED BY <1>3, <2>1
  <1> QED BY <1>4 DEF Rows

\* Every step of a request and of a slot, and every failure, keep PInv.
LEMMA StepPreserves == PInv /\ [Next]_vars => PInv'
  <1> SUFFICES ASSUME PInv, [Next]_vars PROVE PInv'
    OBVIOUS
  <1>1. ASSUME NEW r \in Requests, NEW enable \in BOOLEAN, Find(r, enable)
        PROVE  PInv'
    <2>1. TypeOK'
      <3>1. [enabled |-> enable, revision |-> NextRevision(row)] \in Rows
        BY <1>1, RevisionMade DEF Find
      <3>2. change' \in [Requests -> Rows \cup {NoRow}]
        BY <3>1, <1>1 DEF Find, PInv, TypeOK
      <3>3. phase' \in [Requests -> {"idle", "found", "merged", "done", "failed"}]
        BY <1>1 DEF Find, PInv, TypeOK
      <3> QED BY <3>2, <3>3, <1>1 DEF Find, workerVars, PInv, TypeOK
    <2>2. EventsOfReturned'
      BY <1>1 DEF Find, workerVars, PInv, EventsOfReturned, TypeOK
    <2>3. RevisionsCounted'
      <3>1. /\ Cardinality(Returned') \in Nat /\ Cardinality(Returned) \in Nat
            /\ Cardinality(Returned) <= Cardinality(Returned')
        BY <1>1, ReturnedGrows, ReturnedFinite DEF Find
      <3>2. row # NoRow => row.revision \in Nat /\ row.revision <= Cardinality(Returned)
        BY RowFacts, ReturnedFinite DEF PInv, TypeOK, RevisionsCounted
      <3>3. row' = row
        BY <1>1 DEF Find
      <3>4. ASSUME NEW q \in Open'
            PROVE  change'[q] # NoRow /\ change'[q].revision <= Cardinality(Returned') + 1
        <4>1. CASE q = r
          <5>1. /\ change' = [change EXCEPT ![r] =
                     [enabled |-> enable, revision |-> NextRevision(row)]]
            BY <4>1, <1>1 DEF Find, Open, PInv, TypeOK
          <5>2. change'[q] = [enabled |-> enable, revision |-> NextRevision(row)]
            BY <4>1, <5>1 DEF PInv, TypeOK
          <5>3. NextRevision(row) \in Nat /\ NextRevision(row) <= Cardinality(Returned') + 1
            BY <3>1, <3>2 DEF NextRevision
          <5>4. change'[q] # NoRow
            BY <5>2, <1>1, RevisionMade, RowFacts DEF Find
          <5> QED BY <5>2, <5>3, <5>4
        <4>2. CASE q # r
          <5>1. q \in Open /\ change'[q] = change[q]
            BY <4>2, <1>1 DEF Find, Open, PInv, TypeOK
          <5>2. change[q] # NoRow /\ change[q].revision <= Cardinality(Returned) + 1
            BY <5>1 DEF PInv, RevisionsCounted
          <5>3. change[q].revision \in Nat
            BY <5>1, <5>2, RowFacts, ReturnedFinite DEF PInv, TypeOK, Open
          <5> QED BY <3>1, <5>1, <5>2, <5>3
        <4> QED BY <4>1, <4>2
      <3> QED BY <3>1, <3>2, <3>3, <3>4 DEF RevisionsCounted
    <2>4. RowsStay'
      BY <1>1 DEF Find, workerVars, PInv, RowsStay, TypeOK
    <2>5. EventsTravel'
      BY <1>1 DEF Find, workerVars, PInv, EventsTravel, Returned, Open
    <2> QED BY <2>1, <2>2, <2>3, <2>4, <2>5 DEF PInv
  <1>2. ASSUME NEW r \in Requests, Merge(r)
        PROVE  PInv'
    <2>1. TypeOK'
      BY <1>2, BoundsAssumption, DirtyFacts DEF Merge, workerVars, PInv,
         TypeOK
    <2>2. EventsOfReturned'
      BY <1>2 DEF Merge, workerVars, PInv, EventsOfReturned, TypeOK
    <2>3. RevisionsCounted'
      BY <1>2 DEF Merge, workerVars, PInv, RevisionsCounted, Returned, Open,
         TypeOK
    <2>4. RowsStay'
      BY <1>2, DirtyFacts DEF Merge, workerVars, PInv, RowsStay, TypeOK
    <2>5. EventsTravel'
      BY <1>2 DEF Merge, workerVars, PInv, EventsTravel, Returned, Open
    <2> QED BY <2>1, <2>2, <2>3, <2>4, <2>5 DEF PInv
  <1>3. ASSUME NEW r \in Requests, Commit(r)
        PROVE  PInv'
    <2>1. CASE Conflicts(row, dirty[r])
      <3>1. /\ phase' = [phase EXCEPT ![r] = "failed"]
            /\ UNCHANGED <<row, events, mail, change, dirty, workerVars, faultsLeft>>
        BY <2>1, <1>3 DEF Commit
      <3>2. TypeOK' /\ EventsOfReturned' /\ EventsTravel' /\ RowsStay'
        BY <3>1, <1>3 DEF Commit, workerVars, PInv, TypeOK, EventsOfReturned,
           EventsTravel,
           RowsStay
      <3>3. Cardinality(Returned') = Cardinality(Returned) /\ Open' \subseteq Open
        BY <3>1, <1>3, ReturnedGrows DEF Commit, Open, PInv, TypeOK
      <3> QED BY <3>1, <3>2, <3>3 DEF PInv, RevisionsCounted
    <2>2. CASE ~Conflicts(row, dirty[r])
      <3> DEFINE flushed == Flushed(row, change[r], dirty[r])
      <3>1. /\ phase' = [phase EXCEPT ![r] = "done"] /\ row' = flushed
            /\ events' = [events EXCEPT ![r] = change[r]]
            /\ mail' = [mail EXCEPT ![r] = mail[r] + 1]
            /\ UNCHANGED <<change, dirty, workerVars, faultsLeft>>
            /\ phase[r] = "merged"
        BY <2>2, <1>3 DEF Commit, RecordUpdate
      <3>2. change[r] \in Rows
        BY <3>1 DEF PInv, TypeOK, RevisionsCounted, Open
      <3>3. /\ flushed \in Rows
            /\ \/ flushed.revision = change[r].revision
               \/ row # NoRow /\ flushed.revision = row.revision
        <4>1. /\ row \in Rows \cup {NoRow} /\ dirty[r] \in Dirts
              /\ "insert" \notin dirty[r] => row # NoRow
          BY <3>1 DEF PInv, TypeOK, RowsStay
        <4> QED BY <3>2, <4>1, FlushedFacts
      <3> HIDE DEF flushed
      <3>4. TypeOK'
        BY <3>1, <3>2, <3>3 DEF workerVars, PInv, TypeOK
      <3>5. EventsOfReturned'
        BY <3>1 DEF PInv, TypeOK, EventsOfReturned
      <3>6. EventsTravel'
        <4>1. \A q \in Requests : events[q] # NoRow => events'[q] # NoRow
          BY <3>1, <3>2, RowFacts DEF PInv, TypeOK
        <4>2. events'[r] # NoRow /\ \A q \in Requests \ {r} : mail'[q] = mail[q]
          BY <3>1, <3>2, RowFacts DEF PInv, TypeOK
        <4> QED BY <3>1, <4>1, <4>2 DEF workerVars, PInv, EventsTravel
      <3>7. RevisionsCounted'
        <4>1. /\ Cardinality(Returned') = Cardinality(Returned) + 1
              /\ Cardinality(Returned) \in Nat
          BY <3>1, ReturnedGrows, ReturnedFinite
        <4>2. ASSUME NEW q \in Open
              PROVE  /\ change[q] # NoRow /\ change[q].revision \in Nat
                     /\ change[q].revision <= Cardinality(Returned) + 1
          BY <4>2, RowFacts, ReturnedFinite DEF PInv, TypeOK, Open,
             RevisionsCounted
        <4>3. row # NoRow => row.revision \in Nat /\ row.revision <= Cardinality(Returned)
          BY RowFacts, ReturnedFinite DEF PInv, TypeOK, RevisionsCounted
        <4>4. r \in Open /\ Open' \subseteq Open
          BY <3>1 DEF Open, PInv, TypeOK
        <4>5. row'.revision <= Cardinality(Returned')
          BY <3>1, <3>3, <4>1, <4>2, <4>3, <4>4
        <4>6. \A q \in Open' :
                change'[q] # NoRow /\ change'[q].revision <= Cardinality(Returned') + 1
          BY <3>1, <4>1, <4>2, <4>4
        <4> QED BY <4>5, <4>6 DEF RevisionsCounted
      <3>8. RowsStay'
        BY <3>1, <3>3, RowFacts DEF workerVars, PInv, TypeOK, RowsStay
      <3> QED BY <3>4, <3>5, <3>6, <3>7, <3>8 DEF PInv
    <2> QED BY <2>1, <2>2
  <1>4. ASSUME NEW r \in Requests, RequestFails(r)
        PROVE  PInv'
    <2>1. TypeOK'
      BY <1>4, BoundsAssumption DEF RequestFails, workerVars, Open, PInv,
         TypeOK, Fault
    <2>2. EventsOfReturned'
      BY <1>4 DEF RequestFails, workerVars, Open, PInv, EventsOfReturned,
         TypeOK
    <2>3. RevisionsCounted'
      BY <1>4 DEF RequestFails, workerVars, Open, PInv, RevisionsCounted,
         Returned, TypeOK
    <2>4. RowsStay'
      BY <1>4 DEF RequestFails, workerVars, Open, PInv, RowsStay, TypeOK
    <2>5. EventsTravel'
      BY <1>4 DEF RequestFails, workerVars, Open, PInv, EventsTravel,
         Returned
    <2> QED BY <2>1, <2>2, <2>3, <2>4, <2>5 DEF PInv
  <1>5. ASSUME NEW h \in Slots, NEW r \in Requests, ClaimNew(h, r)
        PROVE  PInv'
    <2>1. TypeOK'
      BY <1>5, BoundsAssumption DEF ClaimNew, requestVars, PInv, TypeOK
    <2>2. EventsTravel'
      BY <1>5 DEF ClaimNew, requestVars, PInv, EventsTravel, TypeOK
    <2>3. RowsStay'
      BY <1>5 DEF ClaimNew, requestVars, PInv, RowsStay, TypeOK
    <2>4. /\ EventsOfReturned' /\ RevisionsCounted'
      BY <1>5 DEF ClaimNew, requestVars, PInv, EventsOfReturned,
         RevisionsCounted, Returned, Open
    <2> QED BY <2>1, <2>2, <2>3, <2>4 DEF PInv
  <1>6. ASSUME NEW h \in Slots, NEW r \in Requests, ClaimDuplicate(h, r)
        PROVE  PInv'
    <2>1. TypeOK'
      BY <1>6, BoundsAssumption DEF ClaimDuplicate, requestVars, workerVars,
         PInv, TypeOK
    <2>2. EventsTravel'
      BY <1>6 DEF ClaimDuplicate, requestVars, workerVars, PInv,
         EventsTravel, TypeOK
    <2>3. /\ EventsOfReturned' /\ RevisionsCounted' /\ RowsStay'
      BY <1>6 DEF ClaimDuplicate, requestVars, workerVars, PInv,
         EventsOfReturned, RevisionsCounted, RowsStay, Returned, Open
    <2> QED BY <2>1, <2>2, <2>3 DEF PInv
  <1>7. ASSUME NEW h \in Slots, FindProjection(h)
        PROVE  PInv'
    <2>1. TypeOK'
      BY <1>7, BoundsAssumption DEF FindProjection, requestVars, PInv, TypeOK
    <2>2. EventsTravel'
      BY <1>7 DEF FindProjection, requestVars, PInv, EventsTravel, TypeOK
    <2>3. RowsStay'
      BY <1>7 DEF FindProjection, requestVars, PInv, RowsStay, TypeOK
    <2>4. /\ EventsOfReturned' /\ RevisionsCounted'
      BY <1>7 DEF FindProjection, requestVars, PInv, EventsOfReturned,
         RevisionsCounted, Returned, Open
    <2> QED BY <2>1, <2>2, <2>3, <2>4 DEF PInv
  <1>8. ASSUME NEW h \in Slots, SkipStale(h)
        PROVE  PInv'
    <2>1. TypeOK'
      BY <1>8, BoundsAssumption DEF SkipStale, Idle, requestVars, PInv,
         TypeOK, EventsTravel
    <2>2. EventsTravel'
      BY <1>8 DEF SkipStale, Idle, requestVars, PInv, EventsTravel, TypeOK
    <2>3. RowsStay'
      BY <1>8 DEF SkipStale, Idle, requestVars, PInv, RowsStay, TypeOK
    <2>4. /\ EventsOfReturned' /\ RevisionsCounted'
      BY <1>8 DEF SkipStale, Idle, requestVars, PInv, EventsOfReturned,
         RevisionsCounted, Returned, Open
    <2> QED BY <2>1, <2>2, <2>3, <2>4 DEF PInv
  <1>9. ASSUME NEW h \in Slots, MergeProjection(h)
        PROVE  PInv'
    <2>1. TypeOK'
      BY <1>9, BoundsAssumption, DirtyFacts DEF MergeProjection, requestVars,
         PInv, TypeOK
    <2>2. EventsTravel'
      BY <1>9 DEF MergeProjection, requestVars, PInv, EventsTravel, TypeOK
    <2>3. RowsStay'
      BY <1>9, DirtyFacts DEF MergeProjection, requestVars, PInv, RowsStay,
         TypeOK
    <2>4. /\ EventsOfReturned' /\ RevisionsCounted'
      BY <1>9 DEF MergeProjection, requestVars, PInv, EventsOfReturned,
         RevisionsCounted, Returned, Open
    <2> QED BY <2>1, <2>2, <2>3, <2>4 DEF PInv
  <1>10. ASSUME NEW h \in Slots, CommitProjection(h)
        PROVE  PInv'
    <2>1. TypeOK'
      <3>1. msg[h] \in Requests /\ events[msg[h]] \in Rows
        BY <1>10 DEF CommitProjection, PInv, TypeOK, EventsTravel
      <3>2. Flushed(projection, events[msg[h]], stale[h]) \in Rows
        BY <3>1, <1>10, FlushedFacts DEF CommitProjection, PInv, TypeOK,
           RowsStay
      <3>3. /\ projection' \in Rows \cup {NoRow}
            /\ inbox' \in SUBSET Requests /\ dlq' \in SUBSET Requests
        BY <3>1, <3>2, <1>10 DEF CommitProjection, PInv, TypeOK
      <3>4. /\ task' \in [Slots -> {"idle", "claimed", "found", "merged"}]
            /\ msg' \in [Slots -> Requests \cup {NoEvent}]
        BY <1>10 DEF CommitProjection, Idle, PInv, TypeOK
      <3> QED
        BY <3>3, <3>4, <1>10 DEF CommitProjection, requestVars, PInv, TypeOK
    <2>2. EventsTravel'
      BY <1>10 DEF CommitProjection, Idle, requestVars, PInv, EventsTravel,
         TypeOK
    <2>3. RowsStay'
      <3>1. msg[h] \in Requests /\ events[msg[h]] \in Rows
        BY <1>10 DEF CommitProjection, PInv, TypeOK, EventsTravel
      <3>2. Flushed(projection, events[msg[h]], stale[h]) \in Rows
        BY <3>1, <1>10, FlushedFacts DEF CommitProjection, PInv, TypeOK,
           RowsStay
      <3>3. projection # NoRow => projection' # NoRow
        BY <3>2, <1>10, RowFacts DEF CommitProjection
      <3> QED
        BY <3>3, <1>10 DEF CommitProjection, Idle, requestVars, PInv, TypeOK,
           RowsStay
    <2>4. /\ EventsOfReturned' /\ RevisionsCounted'
      BY <1>10 DEF CommitProjection, Idle, requestVars, PInv,
         EventsOfReturned, RevisionsCounted, Returned, Open
    <2> QED BY <2>1, <2>2, <2>3, <2>4 DEF PInv
  <1>11. ASSUME NEW h \in Slots, HandlerFails(h)
        PROVE  PInv'
    <2>1. TypeOK'
      BY <1>11, BoundsAssumption DEF HandlerFails, Idle, requestVars, PInv,
         TypeOK, EventsTravel, Fault
    <2>2. EventsTravel'
      BY <1>11 DEF HandlerFails, Idle, requestVars, PInv, EventsTravel,
         TypeOK
    <2>3. RowsStay'
      BY <1>11 DEF HandlerFails, Idle, requestVars, PInv, RowsStay, TypeOK
    <2>4. /\ EventsOfReturned' /\ RevisionsCounted'
      BY <1>11 DEF HandlerFails, Idle, requestVars, PInv, EventsOfReturned,
         RevisionsCounted, Returned, Open
    <2> QED BY <2>1, <2>2, <2>3, <2>4 DEF PInv
  <1>12. ASSUME NEW h \in Slots, WorkerCrash(h)
        PROVE  PInv'
    <2>1. TypeOK'
      BY <1>12, BoundsAssumption DEF WorkerCrash, Idle, requestVars, PInv,
         TypeOK, EventsTravel, Fault
    <2>2. EventsTravel'
      BY <1>12 DEF WorkerCrash, Idle, requestVars, PInv, EventsTravel, TypeOK
    <2>3. RowsStay'
      BY <1>12 DEF WorkerCrash, Idle, requestVars, PInv, RowsStay, TypeOK
    <2>4. /\ EventsOfReturned' /\ RevisionsCounted'
      BY <1>12 DEF WorkerCrash, Idle, requestVars, PInv, EventsOfReturned,
         RevisionsCounted, Returned, Open
    <2> QED BY <2>1, <2>2, <2>3, <2>4 DEF PInv
  <1>13. ASSUME NEW r \in Requests, Redeliver(r)
        PROVE  PInv'
    <2>1. TypeOK'
      BY <1>13, BoundsAssumption DEF Redeliver, requestVars, workerVars,
         PInv, TypeOK, Fault
    <2>2. EventsTravel'
      BY <1>13 DEF Redeliver, requestVars, workerVars, PInv, EventsTravel,
         TypeOK
    <2>3. /\ EventsOfReturned' /\ RevisionsCounted' /\ RowsStay'
      BY <1>13 DEF Redeliver, requestVars, workerVars, PInv,
         EventsOfReturned, RevisionsCounted, RowsStay, Returned, Open
    <2> QED BY <2>1, <2>2, <2>3 DEF PInv
  <1>14. CASE UNCHANGED vars
    BY <1>14 DEF vars, requestVars, workerVars, PInv, TypeOK,
       EventsOfReturned, EventsTravel, RevisionsCounted, RowsStay, Returned,
       Open
  <1> QED
    BY <1>1, <1>2, <1>3, <1>4, <1>5, <1>6, <1>7, <1>8, <1>9, <1>10, <1>11,
       <1>12, <1>13, <1>14 DEF Next, SlotStep, Subscribe, Unsubscribe

-----------------------------------------------------------------------------
(* Slots that do not overlap *)

\* The commit of a handler that has looked at what is there writes the event it
\* handles, which is newer than everything handled before.
LEMMA CommitNewest ==
  ASSUME PInv, OneAtATime, NEW h \in Slots, CommitProjection(h)
  PROVE  /\ msg[h] \in Requests
         /\ projection' = events[msg[h]] /\ inbox' = inbox \cup {msg[h]}
         /\ events' = events
         /\ projection # NoRow => projection.revision < events[msg[h]].revision
         /\ ProjectionIsNewestHandled'
  <1> DEFINE m == msg[h]
  <1>1. task[h] = "merged" /\ m \in Requests /\ events[m] \in Rows
    BY DEF CommitProjection, PInv, TypeOK, EventsTravel
  <1>2. ~IsStale(m) /\ stale[h] = DirtyColumns(projection, events[m])
    BY <1>1 DEF OneAtATime, HandlerCurrent
  <1>3. ~Conflicts(projection, stale[h])
    BY <1>2, DirtyFacts DEF Conflicts
  <1>4. Flushed(projection, events[m], stale[h]) = events[m]
    BY <1>1, <1>2, FlushedExact DEF PInv, TypeOK
  <1>5. projection' = events[m] /\ inbox' = inbox \cup {m} /\ events' = events
    BY <1>3, <1>4 DEF CommitProjection, requestVars
  <1>6. projection # NoRow => projection.revision < events[m].revision
    BY <1>1, <1>2, RowFacts, ReturnedFinite DEF IsStale, PInv, TypeOK
  <1>7. ASSUME NEW q \in inbox
        PROVE  events[q].revision <= events[m].revision
    <2>1. PICK r \in inbox : projection = events[r] /\ events[q].revision <= events[r].revision
      BY <1>7 DEF OneAtATime, ProjectionIsNewestHandled, NewestOf
    <2>2. events[q] \in Rows /\ events[r] \in Rows
      BY <2>1 DEF PInv, TypeOK, EventsTravel
    <2> QED BY <1>1, <1>6, <2>1, <2>2, RowFacts, ReturnedFinite
  <1>8. events[m].revision <= events[m].revision
    BY <1>1, RowFacts, ReturnedFinite
  <1>9. ProjectionIsNewestHandled'
    BY <1>5, <1>7, <1>8 DEF ProjectionIsNewestHandled, NewestOf
  <1> QED BY <1>1, <1>5, <1>6, <1>9

\* Without overlap every step keeps OneAtATime: between the look of a slot at the
\* projection and its commit nobody else writes.
LEMMA ApartPreserves ==
  PInv /\ NoOverlap /\ OneAtATime /\ [Next]_vars => OneAtATime'
  <1> SUFFICES ASSUME PInv, NoOverlap, OneAtATime, [Next]_vars PROVE OneAtATime'
    OBVIOUS
  <1> USE DEF OneAtATime
  <1>1. ASSUME NEW r \in Requests, phase[r] # "done",
               UNCHANGED workerVars,
               events' = events \/ events' = [events EXCEPT ![r] = change[r]]
        PROVE  OneAtATime'
    <2>1. r \notin inbox /\ \A h \in Slots : task[h] # "idle" => msg[h] # r
      BY <1>1 DEF PInv, EventsOfReturned, EventsTravel
    <2>2. \A q \in Requests \ {r} : events'[q] = events[q]
      BY <1>1 DEF PInv, TypeOK
    <2>3. \A h \in Slots : task[h] # "idle" => events'[msg[h]] = events[msg[h]]
      BY <2>1, <2>2 DEF PInv, EventsTravel
    <2>4. HandlerCurrent'
      BY <1>1, <2>3 DEF HandlerCurrent, IsStale, workerVars
    <2>5. \A q \in inbox : events'[q] = events[q]
      BY <2>1, <2>2 DEF PInv, TypeOK
    <2>6. ProjectionIsNewestHandled'
      BY <1>1, <2>5 DEF ProjectionIsNewestHandled, NewestOf, workerVars
    <2> QED BY <2>4, <2>6
  <1>2. ASSUME NEW r \in Requests,
               Subscribe(r) \/ Unsubscribe(r) \/ Merge(r) \/ Commit(r) \/ RequestFails(r)
        PROVE  OneAtATime'
    <2>1. phase[r] # "done" /\ UNCHANGED workerVars
      BY <1>2 DEF Subscribe, Unsubscribe, Find, Merge, Commit, RequestFails,
         Open
    <2>2. events' = events \/ events' = [events EXCEPT ![r] = change[r]]
      BY <1>2 DEF Subscribe, Unsubscribe, Find, Merge, Commit, RecordUpdate,
         RequestFails
    <2> QED BY <1>1, <2>1, <2>2
  <1>3. ASSUME UNCHANGED <<events, workerVars>>
        PROVE  OneAtATime'
    BY <1>3 DEF workerVars, HandlerCurrent, IsStale, ProjectionIsNewestHandled,
       NewestOf
  <1>4. ASSUME NEW h \in Slots,
               \/ \E r \in Requests : ClaimNew(h, r)
               \/ HandlerFails(h) \/ WorkerCrash(h)
        PROVE  OneAtATime'
    <2>1. /\ UNCHANGED <<events, projection, inbox, stale>>
          /\ task'[h] \in {"idle", "claimed"}
          /\ \A g \in Slots \ {h} : task'[g] = task[g] /\ msg'[g] = msg[g]
      BY <1>4 DEF ClaimNew, HandlerFails, WorkerCrash, Idle, requestVars, PInv,
         TypeOK
    <2>2. HandlerCurrent'
      BY <2>1 DEF HandlerCurrent, IsStale
    <2>3. ProjectionIsNewestHandled'
      BY <2>1 DEF ProjectionIsNewestHandled, NewestOf
    <2> QED BY <2>2, <2>3
  <1>5. ASSUME NEW h \in Slots, FindProjection(h)
        PROVE  OneAtATime'
    <2>1. /\ UNCHANGED <<events, projection, inbox, msg, stale>>
          /\ task'[h] = "found" /\ ~IsStale(msg[h])
          /\ \A g \in Slots \ {h} : task'[g] = task[g]
      BY <1>5 DEF FindProjection, requestVars, PInv, TypeOK
    <2>2. HandlerCurrent'
      BY <2>1 DEF HandlerCurrent, IsStale
    <2>3. ProjectionIsNewestHandled'
      BY <2>1 DEF ProjectionIsNewestHandled, NewestOf
    <2> QED BY <2>2, <2>3
  <1>6. ASSUME NEW h \in Slots, SkipStale(h)
        PROVE  OneAtATime'
    <2> DEFINE m == msg[h]
    <2>1. /\ UNCHANGED <<events, projection, stale>> /\ inbox' = inbox \cup {m}
          /\ \A g \in Slots \ {h} : task'[g] = task[g] /\ msg'[g] = msg[g]
          /\ task'[h] = "idle" /\ task[h] = "claimed"
          /\ projection # NoRow /\ projection.revision >= events[m].revision
      BY <1>6 DEF SkipStale, Idle, IsStale, requestVars, PInv, TypeOK
    <2>2. HandlerCurrent'
      BY <2>1 DEF HandlerCurrent, IsStale
    <2>3. PICK r \in inbox :
            /\ projection = events[r]
            /\ \A q \in inbox : events[q].revision <= events[r].revision
      BY <2>1 DEF ProjectionIsNewestHandled, NewestOf
    <2>4. m \in Requests /\ events[m] \in Rows /\ events[r] \in Rows
      BY <2>1, <2>3 DEF PInv, TypeOK, EventsTravel
    <2>5. events[m].revision <= events[r].revision
      BY <2>1, <2>3, <2>4, RowFacts, ReturnedFinite
    <2>6. ProjectionIsNewestHandled'
      BY <2>1, <2>3, <2>5 DEF ProjectionIsNewestHandled, NewestOf
    <2> QED BY <2>2, <2>6
  <1>7. ASSUME NEW h \in Slots, MergeProjection(h)
        PROVE  OneAtATime'
    <2>1. /\ UNCHANGED <<events, projection, inbox, msg>>
          /\ task[h] = "found" /\ task'[h] = "merged"
          /\ stale'[h] = DirtyColumns(projection, events[msg[h]])
          /\ \A g \in Slots \ {h} : task'[g] = task[g] /\ stale'[g] = stale[g]
      BY <1>7 DEF MergeProjection, requestVars, PInv, TypeOK
    <2>2. HandlerCurrent'
      BY <2>1 DEF HandlerCurrent, IsStale
    <2>3. ProjectionIsNewestHandled'
      BY <2>1 DEF ProjectionIsNewestHandled, NewestOf
    <2> QED BY <2>2, <2>3
  <1>8. ASSUME NEW h \in Slots, CommitProjection(h)
        PROVE  OneAtATime'
    <2>1. /\ task'[h] = "idle" /\ Looking(h)
          /\ \A g \in Slots \ {h} : task'[g] = task[g]
      BY <1>8 DEF CommitProjection, Idle, PInv, TypeOK, Looking
    <2>2. \A g \in Slots : ~Looking(g)'
      BY <2>1 DEF NoOverlap, Looking
    <2>3. HandlerCurrent'
      BY <2>2 DEF HandlerCurrent, Looking
    <2> QED BY <1>8, <2>3, CommitNewest
  <1>9. ASSUME NEW r \in Requests,
               Redeliver(r) \/ \E h \in Slots : ClaimDuplicate(h, r)
        PROVE  OneAtATime'
    BY <1>3, <1>9 DEF Redeliver, ClaimDuplicate, requestVars
  <1>10. CASE UNCHANGED vars
    BY <1>3, <1>10 DEF vars, requestVars
  <1> QED
    BY <1>2, <1>4, <1>5, <1>6, <1>7, <1>8, <1>9, <1>10 DEF Next, SlotStep

-----------------------------------------------------------------------------
(* The results *)

\* Before the first request both invariants hold.
LEMMA InitHolds == Init => PInv /\ OneAtATime
  <1> SUFFICES ASSUME Init PROVE PInv /\ OneAtATime
    OBVIOUS
  <1>1. TypeOK
    BY BoundsAssumption DEF Init, TypeOK, Dirts
  <1>2. EventsOfReturned /\ EventsTravel /\ RevisionsCounted /\ RowsStay
    BY DEF Init, EventsOfReturned, EventsTravel, RevisionsCounted, RowsStay,
       Open
  <1>3. OneAtATime
    BY DEF Init, OneAtATime, HandlerCurrent, ProjectionIsNewestHandled,
       NewestOf
  <1> QED BY <1>1, <1>2, <1>3 DEF PInv

\* PInv holds in every state of every execution.
THEOREM Invariant == Spec => []PInv
  BY InitHolds, StepPreserves, PTL DEF Spec

\* For any number of requests and slots the rows keep their types, also the ones
\* that a flush of some columns has mixed: no revision exceeds the number of
\* requests that could have made it.
THEOREM TypeCorrect == Spec => []TypeOK
  <1>1. PInv => TypeOK
    BY DEF PInv
  <1> QED BY <1>1, Invariant, PTL

\* For any number of slots: if no two of them ever are between their look at the
\* projection and their commit, the projection is what the newest of the handled
\* events says, for any number of requests, also open at the same time, and any
\* order, repetition, crash and dead-lettering of deliveries. The overlap that run
\* projection_race shows is the only way to another projection.
THEOREM NewestHandled == Spec /\ []NoOverlap => []ProjectionIsNewestHandled
  <1>1. OneAtATime => ProjectionIsNewestHandled
    BY DEF OneAtATime
  <1> QED BY <1>1, ApartPreserves, InitHolds, Invariant, PTL DEF Spec

\* A slot that has looked at what is there replaces it by a newer one at most.
LEMMA StepAdvances ==
  ASSUME PInv, OneAtATime, Next, projection # NoRow
  PROVE  projection' = projection \/ projection'.revision > projection.revision
  <1>1. ASSUME NEW h \in Slots, CommitProjection(h)
        PROVE  projection'.revision > projection.revision
    <2>1. /\ projection' = events[msg[h]]
          /\ projection.revision < events[msg[h]].revision
          /\ msg[h] \in Requests
      BY <1>1, CommitNewest
    <2>2. events[msg[h]] \in Rows /\ projection \in Rows
      BY <1>1, <2>1 DEF CommitProjection, PInv, TypeOK, EventsTravel
    <2> QED BY <2>1, <2>2, RowFacts, ReturnedFinite
  <1>2. CASE \A h \in Slots : ~CommitProjection(h)
    BY <1>2
       DEF Next, SlotStep, Subscribe, Unsubscribe, Find, Merge, Commit, RequestFails,
       Redeliver, ClaimNew, ClaimDuplicate, FindProjection, SkipStale,
       MergeProjection, HandlerFails, WorkerCrash, workerVars
  <1> QED BY <1>1, <1>2

\* A stale event overwrites the projection only where two slots overlap, for any
\* number of slots.
THEOREM NeverRegresses == Spec /\ []NoOverlap => ProjectionNeverRegresses
  <1>1. PInv /\ OneAtATime /\ [Next]_vars =>
          [projection # NoRow =>
             projection' = projection \/ projection'.revision > projection.revision]_vars
    BY StepAdvances
  <1> QED
    BY <1>1, ApartPreserves, InitHolds, Invariant, PTL DEF Spec, ProjectionNeverRegresses

-----------------------------------------------------------------------------
(* What the projection worker makes of the outbox's promise *)

\* The claim of an event excludes a second one, and comes before its inbox row.
ClaimsExclude ==
  \A h \in Slots : task[h] # "idle" =>
    /\ msg[h] \notin inbox
    /\ \A g \in Slots \ {h} : task[g] # "idle" => msg[g] # msg[h]

\* A slot that gives up its event, whether the inbox row of that event is
\* committed or not, leaves the claims of the others as they are.
LEMMA IdleKeeps ==
  ASSUME TypeOK, ClaimsExclude, NEW h \in Slots, task[h] # "idle", Idle(h),
         inbox' \in {inbox, inbox \cup {msg[h]}}
  PROVE  ClaimsExclude'
  <1>1. \A g \in Slots : task'[g] # "idle" =>
          g # h /\ task'[g] = task[g] /\ msg'[g] = msg[g] /\ msg[g] # msg[h]
    BY DEF Idle, TypeOK, ClaimsExclude
  <1> QED BY <1>1 DEF ClaimsExclude

\* Every step keeps the claims exclusive.
LEMMA ClaimsPreserved ==
  PInv /\ ClaimsExclude /\ [Next]_vars => ClaimsExclude'
  <1> SUFFICES ASSUME PInv, ClaimsExclude, [Next]_vars
               PROVE  ClaimsExclude'
    OBVIOUS
  <1>1. ASSUME UNCHANGED <<task, msg, inbox>>
        PROVE  ClaimsExclude'
    BY <1>1 DEF ClaimsExclude
  <1>2. ASSUME NEW r \in Requests,
               \/ Subscribe(r) \/ Unsubscribe(r) \/ Merge(r) \/ Commit(r)
               \/ RequestFails(r) \/ Redeliver(r)
               \/ \E h \in Slots : ClaimDuplicate(h, r)
        PROVE  UNCHANGED <<task, msg, inbox>>
    BY <1>2 DEF Subscribe, Unsubscribe, Find, Merge, Commit, RequestFails, Redeliver,
       ClaimDuplicate, workerVars
  <1>3. ASSUME NEW h \in Slots, NEW r \in Requests, ClaimNew(h, r)
        PROVE  ClaimsExclude'
    <2>1. \A g \in Slots : task[g] # "idle" => msg[g] # r
      BY <1>3 DEF ClaimNew, ClaimedElsewhere
    <2>2. /\ \A g \in Slots \ {h} : task'[g] = task[g] /\ msg'[g] = msg[g]
          /\ msg'[h] = r /\ r \notin inbox /\ inbox' = inbox
      BY <1>3 DEF ClaimNew, PInv, TypeOK
    <2> QED BY <2>1, <2>2 DEF ClaimsExclude
  <1>4. ASSUME NEW h \in Slots, FindProjection(h) \/ MergeProjection(h)
        PROVE  ClaimsExclude'
    <2>1. /\ UNCHANGED <<msg, inbox>> /\ task[h] # "idle"
          /\ \A g \in Slots \ {h} : task'[g] = task[g]
      BY <1>4 DEF FindProjection, MergeProjection, PInv, TypeOK
    <2> QED BY <2>1 DEF ClaimsExclude
  <1>5. ASSUME NEW h \in Slots,
               \/ SkipStale(h) \/ CommitProjection(h)
               \/ HandlerFails(h) \/ WorkerCrash(h)
        PROVE  ClaimsExclude'
    <2>1. task[h] # "idle" /\ Idle(h) /\ inbox' \in {inbox, inbox \cup {msg[h]}}
      BY <1>5 DEF SkipStale, CommitProjection, HandlerFails, WorkerCrash
    <2> QED BY <2>1, IdleKeeps DEF PInv
  <1>6. CASE UNCHANGED vars
    BY <1>1, <1>6 DEF vars, workerVars
  <1> QED BY <1>1, <1>2, <1>3, <1>4, <1>5, <1>6 DEF Next, SlotStep

\* However often an event is delivered and whatever crashes, no two slots handle
\* it at the same time and none handles it again after its inbox row.
THEOREM HandledOnce == Spec => []ClaimsExclude
  <1>1. Init => ClaimsExclude
    BY DEF Init, ClaimsExclude
  <1> QED BY <1>1, ClaimsPreserved, Invariant, PTL DEF Spec

\* The events of the requests are the abstract event log.
Delivery == INSTANCE EventDelivery WITH
  Events <- Requests,
  Routable <- Requests,
  stored <- {r \in Requests : events[r] # NoRow},
  applied <- inbox,
  parked <- dlq

ImplementsDelivery == Delivery!Spec

\* What this module does to the events on their way from a request to the
\* projection is what Outbox promises (its Refinement): an event is handled once,
\* after the request that stored it has committed, or parked.
THEOREM Refinement == Spec => ImplementsDelivery
  <1> DEFINE Stored == {r \in Requests : events[r] # NoRow}
  <1>1. Init => Delivery!Init
    BY DEF Init, Delivery!Init
  <1>2. ASSUME PInv, ClaimsExclude, [Next]_vars
        PROVE  [Delivery!Next]_(Delivery!vars)
    <2>1. ASSUME UNCHANGED <<events, inbox, dlq>>
          PROVE  UNCHANGED Delivery!vars
      BY <2>1 DEF Delivery!vars
    <2>2. ASSUME NEW r \in Requests, Commit(r)
          PROVE  Delivery!Next \/ UNCHANGED Delivery!vars
      <3>1. CASE Conflicts(row, dirty[r])
        BY <2>1, <2>2, <3>1 DEF Commit, workerVars
      <3>2. CASE ~Conflicts(row, dirty[r])
        <4>1. /\ events' = [events EXCEPT ![r] = change[r]]
              /\ UNCHANGED <<inbox, dlq>> /\ r \in Open /\ phase[r] # "done"
          BY <2>2, <3>2 DEF Commit, RecordUpdate, workerVars, Open
        <4>2. events[r] = NoRow /\ change[r] # NoRow
          BY <1>2, <4>1 DEF PInv, EventsOfReturned, RevisionsCounted
        <4>3. r \notin Stored /\ Stored' = Stored \cup {r}
          BY <1>2, <4>1, <4>2 DEF PInv, TypeOK
        <4> QED BY <4>1, <4>3 DEF Delivery!Next, Delivery!Store
      <3> QED BY <3>1, <3>2
    <2>3. ASSUME NEW h \in Slots, task[h] # "idle"
          PROVE  msg[h] \in Requests /\ msg[h] \in Stored /\ msg[h] \notin inbox
      BY <1>2, <2>3 DEF PInv, EventsTravel, ClaimsExclude
    <2>4. ASSUME NEW h \in Slots, task[h] # "idle", UNCHANGED <<events, dlq>>,
                 inbox' = inbox \cup {msg[h]}
          PROVE  Delivery!Next
      <3>1. Delivery!Apply(msg[h], {})
        BY <2>3, <2>4 DEF Delivery!Apply
      <3> QED BY <2>3, <2>4, <3>1 DEF Delivery!Next
    <2>5. ASSUME NEW h \in Slots, task[h] # "idle", UNCHANGED <<events, inbox>>,
                 dlq' = dlq \cup {msg[h]}
          PROVE  Delivery!Next \/ UNCHANGED Delivery!vars
      <3>1. CASE msg[h] \in dlq
        BY <2>1, <2>5, <3>1
      <3>2. CASE msg[h] \notin dlq
        <4>1. Delivery!Park(msg[h])
          BY <2>3, <2>5, <3>2 DEF Delivery!Park
        <4> QED BY <2>3, <2>5, <4>1 DEF Delivery!Next
      <3> QED BY <3>1, <3>2
    <2>6. ASSUME NEW h \in Slots,
                 SkipStale(h) \/ CommitProjection(h) \/ HandlerFails(h)
          PROVE  Delivery!Next \/ UNCHANGED Delivery!vars
      <3>1. /\ task[h] # "idle" /\ UNCHANGED events
            /\ \/ inbox' = inbox \cup {msg[h]} /\ UNCHANGED dlq
               \/ dlq' = dlq \cup {msg[h]} /\ UNCHANGED inbox
        BY <2>6 DEF SkipStale, CommitProjection, HandlerFails, requestVars
      <3> QED BY <2>4, <2>5, <3>1
    <2>7. ASSUME NEW r \in Requests,
                 \/ Subscribe(r) \/ Unsubscribe(r) \/ Merge(r)
                 \/ RequestFails(r) \/ Redeliver(r)
          PROVE  UNCHANGED <<events, inbox, dlq>>
      BY <2>7 DEF Subscribe, Unsubscribe, Find, Merge, RequestFails, Redeliver,
         requestVars, workerVars
    <2>8. ASSUME NEW h \in Slots,
                 \/ \E r \in Requests : ClaimNew(h, r) \/ ClaimDuplicate(h, r)
                 \/ FindProjection(h) \/ MergeProjection(h) \/ WorkerCrash(h)
          PROVE  UNCHANGED <<events, inbox, dlq>>
      BY <2>8 DEF ClaimNew, ClaimDuplicate, FindProjection, MergeProjection,
         WorkerCrash, requestVars, workerVars
    <2>9. CASE UNCHANGED vars
      BY <2>1, <2>9 DEF vars, requestVars, workerVars
    <2>10. Delivery!Next \/ UNCHANGED Delivery!vars
      BY <1>2, <2>1, <2>2, <2>6, <2>7, <2>8, <2>9 DEF Next, SlotStep
    <2> QED BY <2>10
  <1> QED
    BY <1>1, <1>2, Invariant, HandledOnce, PTL
       DEF Spec, ImplementsDelivery, Delivery!Spec
=============================================================================

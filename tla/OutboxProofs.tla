---------------------------- MODULE OutboxProofs ----------------------------
(***************************************************************************)
(* IInv is an inductive invariant of Outbox, for any events, relays,       *)
(* consumers, batch size and number of faults; the safety properties and   *)
(* the refinement of EventDelivery follow from it.                         *)
(***************************************************************************)
EXTENDS Outbox, TLAPS

\* The initial state of the outbox, broker and workers satisfies IInv.
LEMMA InitEstablishes == Init => IInv
  <1> SUFFICES ASSUME Init PROVE IInv OBVIOUS
  <1>1. TypeOK BY BoundsAssumption DEF Init, TypeOK, TaskStates
  <1>2. RowLocks BY DEF Init, RowLocks, Batch
  <1>3. CopiesCounted /\ ConfirmedIsKept
    BY DEF Init, CopiesCounted, ConfirmedIsKept, Confirmed
  <1>4. TasksAgree /\ EffectOncePerInboxRow
    BY DEF Init, TasksAgree, EffectOncePerInboxRow
  <1>5. TravelsStored
    BY EventsAssumption DEF Init, TravelsStored, Kept, InFlight
  <1> QED BY <1>1, <1>2, <1>3, <1>4, <1>5 DEF IInv

\* Every step of a relay, its crash and its failed publish included, keeps IInv.
LEMMA RelayPreserves ==
  ASSUME IInv, NEW p \in Relays,
         \/ RelayStep(p) \/ RelayCrash(p)
         \/ \E e \in Events : PublishFails(p, e)
  PROVE  IInv'
  <1>1. ASSUME NEW r \in Relays, SelectBatch(r)
        PROVE  IInv'
    <2>1. TypeOK'
      BY <1>1, BoundsAssumption DEF SelectBatch, outboxVars, brokerVars,
        consumerVars, NoFault, IInv, TypeOK, TaskStates, Due
    <2>2. RowLocks'
      BY <1>1 DEF SelectBatch, outboxVars, brokerVars, consumerVars, NoFault,
        IInv, TypeOK, RowLocks, Batch, Due, Locked, IsOldestOf
    <2>3. /\ CopiesCounted' /\ ConfirmedIsKept' /\ TasksAgree'
          /\ EffectOncePerInboxRow' /\ TravelsStored'
      BY <1>1 DEF SelectBatch, outboxVars, brokerVars, consumerVars, NoFault,
        IInv, CopiesCounted, Confirmed, ConfirmedIsKept, Kept, InFlight,
        TasksAgree, EffectOncePerInboxRow, TravelsStored
    <2> QED BY <2>1, <2>2, <2>3 DEF IInv
  <1>2. ASSUME NEW r \in Relays, NEW e \in Events, PublishConfirmed(r, e)
        PROVE  IInv'
    <2>1. TypeOK'
      BY <1>2, BoundsAssumption DEF PublishConfirmed, Bound, outboxVars, consumerVars,
        NoFault, IInv, TypeOK, TaskStates, OldestOf
    <2>2. RowLocks'
      BY <1>2 DEF PublishConfirmed, Bound, outboxVars, consumerVars, NoFault, IInv,
        TypeOK, RowLocks, Batch, OldestOf
    <2>3. CopiesCounted'
      BY <1>2, SMTT(20) DEF PublishConfirmed, Bound, outboxVars, consumerVars,
        NoFault, IInv, TypeOK, RowLocks, Batch, CopiesCounted, Confirmed, OldestOf
    <2>4. ConfirmedIsKept'
      BY <1>2 DEF PublishConfirmed, Bound, outboxVars, consumerVars, NoFault, IInv,
        TypeOK, RowLocks, Batch, TasksAgree, ConfirmedIsKept, Confirmed, Kept,
        InFlight, OldestOf
    <2>5. TravelsStored'
      BY <1>2, EventsAssumption DEF PublishConfirmed, Bound, outboxVars, consumerVars,
        NoFault, IInv, TypeOK, RowLocks, Batch, TasksAgree, TravelsStored,
        Kept, InFlight, OldestOf
    <2>6. TasksAgree' /\ EffectOncePerInboxRow'
      BY <1>2 DEF PublishConfirmed, Bound, outboxVars, consumerVars, NoFault, IInv,
        TasksAgree, EffectOncePerInboxRow
    <2> QED BY <2>1, <2>2, <2>3, <2>4, <2>5, <2>6 DEF IInv
  <1>3. ASSUME NEW r \in Relays, NEW e \in Events, PublishReturned(r, e)
        PROVE  IInv'
    <2>1. TypeOK'
      BY <1>3, BoundsAssumption DEF PublishReturned, Bound, outboxVars, brokerVars,
        consumerVars, NoFault, IInv, TypeOK, TaskStates, OldestOf
    <2>2. RowLocks'
      BY <1>3 DEF PublishReturned, Bound, outboxVars, brokerVars, consumerVars,
        NoFault, IInv, TypeOK, RowLocks, Batch, OldestOf
    <2>3. /\ CopiesCounted' /\ ConfirmedIsKept' /\ TasksAgree'
          /\ EffectOncePerInboxRow' /\ TravelsStored'
      BY <1>3 DEF PublishReturned, Bound, outboxVars, brokerVars, consumerVars,
        NoFault, IInv, CopiesCounted, Confirmed, ConfirmedIsKept, Kept,
        InFlight, TasksAgree, EffectOncePerInboxRow, TravelsStored
    <2> QED BY <2>1, <2>2, <2>3 DEF IInv
  <1>4. ASSUME NEW r \in Relays, NEW e \in Events, PublishFails(r, e)
        PROVE  IInv'
    <2>1. TypeOK'
      <3>1. /\ todo' \in [Relays -> SUBSET Events]
            /\ failed' \in [Relays -> SUBSET Events]
        BY <1>4 DEF PublishFails, IInv, TypeOK, OldestOf
      <3>2. /\ queue' \in [Events -> Nat] /\ sends' \in [Events -> Nat]
            /\ spoiled' \in [Events -> Nat]
        BY <1>4 DEF PublishFails, IInv, TypeOK
      <3>3. faultsLeft' \in 0..MaxFaults
        BY <1>4, BoundsAssumption DEF PublishFails, Fault, IInv, TypeOK
      <3> QED
        BY <1>4, <3>1, <3>2, <3>3 DEF PublishFails, outboxVars, consumerVars,
          IInv, TypeOK
    <2>2. RowLocks'
      BY <1>4 DEF PublishFails, Bound, outboxVars, consumerVars, Fault, IInv, TypeOK,
        RowLocks, Batch, OldestOf
    <2>3. CopiesCounted'
      BY <1>4 DEF PublishFails, Bound, outboxVars, consumerVars, Fault, IInv, TypeOK,
        RowLocks, Batch, CopiesCounted, Confirmed, OldestOf
    <2>4. ConfirmedIsKept'
      <3>1. \A f \in Events : queue[f] > 0 => queue'[f] > 0
        BY <1>4 DEF PublishFails, Bound, IInv, TypeOK
      <3>2. UNCHANGED <<status, confirmed, dlq, inbox, task, delivery, held>>
        BY <1>4 DEF PublishFails, Bound, outboxVars, consumerVars
      <3> QED
        BY <3>1, <3>2 DEF IInv, ConfirmedIsKept, Confirmed, Kept, InFlight
    <2>5. TravelsStored'
      BY <1>4, EventsAssumption DEF PublishFails, Bound, outboxVars, consumerVars,
        Fault, IInv, TypeOK, RowLocks, Batch, TasksAgree, TravelsStored, Kept,
        InFlight, OldestOf
    <2>6. TasksAgree' /\ EffectOncePerInboxRow'
      BY <1>4 DEF PublishFails, Bound, outboxVars, consumerVars, Fault, IInv,
        TasksAgree, EffectOncePerInboxRow
    <2> QED BY <2>1, <2>2, <2>3, <2>4, <2>5, <2>6 DEF IInv
  <1>5. ASSUME NEW r \in Relays, CommitBatch(r)
        PROVE  IInv'
    <2>1. TypeOK'
      BY <1>5, BoundsAssumption DEF CommitBatch, brokerVars, consumerVars,
        NoFault, IInv, TypeOK, TaskStates, RetryDelay, Least, PublishedRows,
        Batch
    <2>2. RowLocks'
      BY <1>5 DEF CommitBatch, brokerVars, consumerVars, NoFault, IInv, TypeOK,
        RowLocks, Batch, PublishedRows
    <2>3. CopiesCounted'
      BY <1>5 DEF CommitBatch, brokerVars, consumerVars, NoFault, IInv, TypeOK,
        RowLocks, Batch, CopiesCounted, Confirmed, PublishedRows
    <2>4. ConfirmedIsKept'
      BY <1>5 DEF CommitBatch, brokerVars, consumerVars, NoFault, IInv, TypeOK,
        RowLocks, Batch, TasksAgree, ConfirmedIsKept, Confirmed, Kept,
        InFlight, PublishedRows
    <2>5. TravelsStored'
      BY <1>5, EventsAssumption DEF CommitBatch, brokerVars, consumerVars,
        NoFault, IInv, TypeOK, RowLocks, Batch, TasksAgree, TravelsStored,
        Kept, InFlight, PublishedRows
    <2>6. TasksAgree' /\ EffectOncePerInboxRow'
      BY <1>5 DEF CommitBatch, brokerVars, consumerVars, NoFault, IInv,
        TasksAgree, EffectOncePerInboxRow
    <2> QED BY <2>1, <2>2, <2>3, <2>4, <2>5, <2>6 DEF IInv
  <1>6. ASSUME NEW r \in Relays, RelayCrash(r)
        PROVE  IInv'
    <2>1. TypeOK'
      BY <1>6, BoundsAssumption DEF RelayCrash, outboxVars, brokerVars,
        consumerVars, Fault, IInv, TypeOK, TaskStates
    <2>2. RowLocks'
      BY <1>6 DEF RelayCrash, outboxVars, brokerVars, consumerVars, Fault,
        IInv, TypeOK, RowLocks, Batch
    <2>3. CopiesCounted'
      BY <1>6 DEF RelayCrash, outboxVars, brokerVars, consumerVars, Fault,
        IInv, TypeOK, RowLocks, Batch, CopiesCounted, Confirmed
    <2>4. ConfirmedIsKept'
      BY <1>6 DEF RelayCrash, outboxVars, brokerVars, consumerVars, Fault,
        IInv, TypeOK, RowLocks, Batch, TasksAgree, ConfirmedIsKept, Confirmed,
        Kept, InFlight
    <2>5. TasksAgree' /\ EffectOncePerInboxRow' /\ TravelsStored'
      BY <1>6 DEF RelayCrash, outboxVars, brokerVars, consumerVars, Fault,
        IInv, TasksAgree, EffectOncePerInboxRow, TravelsStored, Kept, InFlight
    <2> QED BY <2>1, <2>2, <2>3, <2>4, <2>5 DEF IInv
  <1> QED BY <1>1, <1>2, <1>3, <1>4, <1>5, <1>6 DEF RelayStep

\* Every step of a handler task, the loss of its connection or process
\* included, keeps IInv.
LEMMA ConsumerPreserves ==
  ASSUME IInv, NEW p \in Consumers,
         \/ ConsumerStep(p) \/ HandlerFails(p)
         \/ ConnectionLost(p) \/ WorkerCrash(p)
  PROVE  IInv'
  <1>1. ASSUME NEW c \in Consumers, NEW e \in Events, Deliver(c, e)
        PROVE  IInv'
    <2>1. TypeOK'
      BY <1>1, BoundsAssumption DEF Deliver, outboxVars, relayVars, NoFault,
        IInv, TypeOK, TaskStates
    <2>2. ConfirmedIsKept'
      BY <1>1 DEF Deliver, outboxVars, relayVars, NoFault, IInv, TypeOK,
        RowLocks, Batch, TasksAgree, ConfirmedIsKept, Confirmed, Kept, InFlight
    <2>3. TasksAgree'
      BY <1>1, EventsAssumption DEF Deliver, outboxVars, relayVars, NoFault,
        IInv, TypeOK, TasksAgree
    <2>4. TravelsStored'
      BY <1>1, EventsAssumption DEF Deliver, outboxVars, relayVars, NoFault,
        IInv, TypeOK, RowLocks, Batch, TasksAgree, TravelsStored, Kept,
        InFlight
    <2>5. RowLocks' /\ CopiesCounted' /\ EffectOncePerInboxRow'
      BY <1>1 DEF Deliver, outboxVars, relayVars, NoFault, IInv, RowLocks,
        Batch, CopiesCounted, Confirmed, EffectOncePerInboxRow
    <2> QED BY <2>1, <2>2, <2>3, <2>4, <2>5 DEF IInv
  <1>2. ASSUME NEW c \in Consumers, ClaimNew(c)
        PROVE  IInv'
    <2>1. TypeOK'
      BY <1>2, BoundsAssumption DEF ClaimNew, outboxVars, relayVars,
        brokerVars, NoFault, IInv, TypeOK, TaskStates
    <2>2. ConfirmedIsKept'
      BY <1>2 DEF ClaimNew, outboxVars, relayVars, brokerVars, NoFault, IInv,
        TypeOK, RowLocks, Batch, TasksAgree, ConfirmedIsKept, Confirmed, Kept,
        InFlight
    <2>3. TasksAgree'
      BY <1>2, EventsAssumption DEF ClaimNew, outboxVars, relayVars,
        brokerVars, NoFault, IInv, TypeOK, TasksAgree, ClaimedElsewhere
    <2>4. TravelsStored'
      BY <1>2, EventsAssumption DEF ClaimNew, outboxVars, relayVars,
        brokerVars, NoFault, IInv, TypeOK, RowLocks, Batch, TasksAgree,
        TravelsStored, Kept, InFlight
    <2>5. RowLocks' /\ CopiesCounted' /\ EffectOncePerInboxRow'
      BY <1>2 DEF ClaimNew, outboxVars, relayVars, brokerVars, NoFault, IInv,
        RowLocks, Batch, CopiesCounted, Confirmed, EffectOncePerInboxRow
    <2> QED BY <2>1, <2>2, <2>3, <2>4, <2>5 DEF IInv
  <1>3. ASSUME NEW c \in Consumers, ClaimDuplicate(c)
        PROVE  IInv'
    <2>1. TypeOK'
      BY <1>3, BoundsAssumption DEF ClaimDuplicate, outboxVars, relayVars,
        brokerVars, NoFault, IInv, TypeOK, TaskStates
    <2>2. ConfirmedIsKept'
      BY <1>3 DEF ClaimDuplicate, outboxVars, relayVars, brokerVars, NoFault,
        IInv, TypeOK, RowLocks, Batch, TasksAgree, ConfirmedIsKept, Confirmed,
        Kept, InFlight
    <2>3. TasksAgree'
      BY <1>3, EventsAssumption DEF ClaimDuplicate, outboxVars, relayVars,
        brokerVars, NoFault, IInv, TypeOK, TasksAgree
    <2>4. TravelsStored'
      BY <1>3, EventsAssumption DEF ClaimDuplicate, outboxVars, relayVars,
        brokerVars, NoFault, IInv, TypeOK, RowLocks, Batch, TasksAgree,
        TravelsStored, Kept, InFlight
    <2>5. RowLocks' /\ CopiesCounted' /\ EffectOncePerInboxRow'
      BY <1>3 DEF ClaimDuplicate, outboxVars, relayVars, brokerVars, NoFault,
        IInv, RowLocks, Batch, CopiesCounted, Confirmed, EffectOncePerInboxRow
    <2> QED BY <2>1, <2>2, <2>3, <2>4, <2>5 DEF IInv
  <1>4. ASSUME NEW c \in Consumers, RaiseInvalid(c)
        PROVE  IInv'
    <2>1. TypeOK'
      BY <1>4, BoundsAssumption DEF RaiseInvalid, outboxVars, relayVars,
        brokerVars, NoFault, IInv, TypeOK, TaskStates
    <2>2. ConfirmedIsKept'
      BY <1>4 DEF RaiseInvalid, outboxVars, relayVars, brokerVars, NoFault,
        IInv, TypeOK, RowLocks, Batch, TasksAgree, ConfirmedIsKept, Confirmed,
        Kept, InFlight
    <2>3. TasksAgree'
      BY <1>4, EventsAssumption DEF RaiseInvalid, outboxVars, relayVars,
        brokerVars, NoFault, IInv, TypeOK, TasksAgree
    <2>4. TravelsStored'
      BY <1>4, EventsAssumption DEF RaiseInvalid, outboxVars, relayVars,
        brokerVars, NoFault, IInv, TypeOK, RowLocks, Batch, TasksAgree,
        TravelsStored, Kept, InFlight
    <2>5. RowLocks' /\ CopiesCounted' /\ EffectOncePerInboxRow'
      BY <1>4 DEF RaiseInvalid, outboxVars, relayVars, brokerVars, NoFault,
        IInv, RowLocks, Batch, CopiesCounted, Confirmed, EffectOncePerInboxRow
    <2> QED BY <2>1, <2>2, <2>3, <2>4, <2>5 DEF IInv
  <1>5. ASSUME NEW c \in Consumers, HandlerFails(c)
        PROVE  IInv'
    <2>1. TypeOK'
      BY <1>5, BoundsAssumption DEF HandlerFails, outboxVars, relayVars,
        brokerVars, Fault, IInv, TypeOK, TaskStates
    <2>2. ConfirmedIsKept'
      BY <1>5 DEF HandlerFails, outboxVars, relayVars, brokerVars, Fault, IInv,
        TypeOK, RowLocks, Batch, TasksAgree, ConfirmedIsKept, Confirmed, Kept,
        InFlight
    <2>3. TasksAgree'
      BY <1>5, EventsAssumption DEF HandlerFails, outboxVars, relayVars,
        brokerVars, Fault, IInv, TypeOK, TasksAgree
    <2>4. TravelsStored'
      BY <1>5, EventsAssumption DEF HandlerFails, outboxVars, relayVars,
        brokerVars, Fault, IInv, TypeOK, RowLocks, Batch, TasksAgree,
        TravelsStored, Kept, InFlight
    <2>5. RowLocks' /\ CopiesCounted' /\ EffectOncePerInboxRow'
      BY <1>5 DEF HandlerFails, outboxVars, relayVars, brokerVars, Fault, IInv,
        RowLocks, Batch, CopiesCounted, Confirmed, EffectOncePerInboxRow
    <2> QED BY <2>1, <2>2, <2>3, <2>4, <2>5 DEF IInv
  <1>6. ASSUME NEW c \in Consumers, CommitHandler(c)
        PROVE  IInv'
    <2>1. TypeOK'
      BY <1>6, BoundsAssumption DEF CommitHandler, outboxVars, relayVars,
        brokerVars, Fault, NoFault, IInv, TypeOK, TaskStates, TasksAgree
    <2>2. ConfirmedIsKept'
      BY <1>6 DEF CommitHandler, outboxVars, relayVars, brokerVars, Fault,
        NoFault, IInv, TypeOK, RowLocks, Batch, TasksAgree, ConfirmedIsKept,
        Confirmed, Kept, InFlight
    <2>3. TasksAgree'
      BY <1>6, EventsAssumption DEF CommitHandler, outboxVars, relayVars,
        brokerVars, Fault, NoFault, IInv, TypeOK, TasksAgree
    <2>4. EffectOncePerInboxRow'
      BY <1>6 DEF CommitHandler, outboxVars, relayVars, brokerVars, Fault,
        NoFault, IInv, TypeOK, TasksAgree, EffectOncePerInboxRow
    <2>5. TravelsStored'
      BY <1>6, EventsAssumption DEF CommitHandler, outboxVars, relayVars,
        brokerVars, Fault, NoFault, IInv, TypeOK, RowLocks, Batch, TasksAgree,
        TravelsStored, Kept, InFlight
    <2>6. RowLocks' /\ CopiesCounted'
      BY <1>6 DEF CommitHandler, outboxVars, relayVars, brokerVars, Fault,
        NoFault, IInv, RowLocks, Batch, CopiesCounted, Confirmed
    <2> QED BY <2>1, <2>2, <2>3, <2>4, <2>5, <2>6 DEF IInv
  <1>7. ASSUME NEW c \in Consumers, Ack(c)
        PROVE  IInv'
    <2>1. TypeOK'
      BY <1>7, BoundsAssumption DEF Ack, outboxVars, relayVars, brokerVars,
        NoFault, IInv, TypeOK, TaskStates, AckedIn
    <2>2. ConfirmedIsKept'
      BY <1>7 DEF Ack, outboxVars, relayVars, brokerVars, NoFault, IInv,
        TypeOK, RowLocks, Batch, TasksAgree, ConfirmedIsKept, Confirmed, Kept,
        InFlight, AckedIn
    <2>3. TasksAgree'
      BY <1>7, EventsAssumption DEF Ack, outboxVars, relayVars, brokerVars,
        NoFault, IInv, TypeOK, TasksAgree, AckedIn
    <2>4. TravelsStored'
      BY <1>7, EventsAssumption DEF Ack, outboxVars, relayVars, brokerVars,
        NoFault, IInv, TypeOK, RowLocks, Batch, TasksAgree, TravelsStored,
        Kept, InFlight, AckedIn
    <2>5. RowLocks' /\ CopiesCounted' /\ EffectOncePerInboxRow'
      BY <1>7 DEF Ack, outboxVars, relayVars, brokerVars, NoFault, IInv,
        RowLocks, Batch, CopiesCounted, Confirmed, EffectOncePerInboxRow
    <2> QED BY <2>1, <2>2, <2>3, <2>4, <2>5 DEF IInv
  <1>8. ASSUME NEW c \in Consumers, Reject(c)
        PROVE  IInv'
    <2>1. TypeOK'
      BY <1>8, BoundsAssumption DEF Reject, outboxVars, relayVars, NoFault,
        IInv, TypeOK, TaskStates, TasksAgree
    <2>2. ConfirmedIsKept'
      BY <1>8 DEF Reject, outboxVars, relayVars, NoFault, IInv, TypeOK,
        RowLocks, Batch, TasksAgree, ConfirmedIsKept, Confirmed, Kept, InFlight
    <2>3. TasksAgree'
      BY <1>8, EventsAssumption DEF Reject, outboxVars, relayVars, NoFault,
        IInv, TypeOK, TasksAgree
    <2>4. TravelsStored'
      BY <1>8, EventsAssumption DEF Reject, outboxVars, relayVars, NoFault,
        IInv, TypeOK, RowLocks, Batch, TasksAgree, TravelsStored, Kept,
        InFlight
    <2>5. RowLocks' /\ CopiesCounted' /\ EffectOncePerInboxRow'
      BY <1>8 DEF Reject, outboxVars, relayVars, NoFault, IInv, RowLocks,
        Batch, CopiesCounted, Confirmed, EffectOncePerInboxRow
    <2> QED BY <2>1, <2>2, <2>3, <2>4, <2>5 DEF IInv
  <1>9. ASSUME NEW c \in Consumers, ConnectionLost(c)
        PROVE  IInv'
    <2>1. TypeOK'
      BY <1>9, BoundsAssumption DEF ConnectionLost, outboxVars, relayVars,
        Fault, IInv, TypeOK, TaskStates, TasksAgree
    <2>2. ConfirmedIsKept'
      BY <1>9 DEF ConnectionLost, outboxVars, relayVars, Fault, IInv, TypeOK,
        RowLocks, Batch, TasksAgree, ConfirmedIsKept, Confirmed, Kept, InFlight
    <2>3. TasksAgree'
      BY <1>9, EventsAssumption DEF ConnectionLost, outboxVars, relayVars,
        Fault, IInv, TypeOK, TasksAgree
    <2>4. TravelsStored'
      BY <1>9, EventsAssumption DEF ConnectionLost, outboxVars, relayVars,
        Fault, IInv, TypeOK, RowLocks, Batch, TasksAgree, TravelsStored, Kept,
        InFlight
    <2>5. RowLocks' /\ CopiesCounted' /\ EffectOncePerInboxRow'
      BY <1>9 DEF ConnectionLost, outboxVars, relayVars, Fault, IInv, RowLocks,
        Batch, CopiesCounted, Confirmed, EffectOncePerInboxRow
    <2> QED BY <2>1, <2>2, <2>3, <2>4, <2>5 DEF IInv
  <1>10. ASSUME NEW c \in Consumers, WorkerCrash(c)
        PROVE  IInv'
    <2>1. TypeOK'
      BY <1>10, BoundsAssumption DEF WorkerCrash, outboxVars, relayVars, Fault,
        IInv, TypeOK, TaskStates, TasksAgree
    <2>2. ConfirmedIsKept'
      BY <1>10 DEF WorkerCrash, outboxVars, relayVars, Fault, IInv, TypeOK,
        RowLocks, Batch, TasksAgree, ConfirmedIsKept, Confirmed, Kept, InFlight
    <2>3. TasksAgree'
      BY <1>10, EventsAssumption DEF WorkerCrash, outboxVars, relayVars, Fault,
        IInv, TypeOK, TasksAgree
    <2>4. TravelsStored'
      BY <1>10, EventsAssumption DEF WorkerCrash, outboxVars, relayVars, Fault,
        IInv, TypeOK, RowLocks, Batch, TasksAgree, TravelsStored, Kept,
        InFlight
    <2>5. RowLocks' /\ CopiesCounted' /\ EffectOncePerInboxRow'
      BY <1>10 DEF WorkerCrash, outboxVars, relayVars, Fault, IInv, RowLocks,
        Batch, CopiesCounted, Confirmed, EffectOncePerInboxRow
    <2> QED BY <2>1, <2>2, <2>3, <2>4, <2>5 DEF IInv
  <1> QED BY <1>1, <1>2, <1>3, <1>4, <1>5, <1>6, <1>7, <1>8, <1>9, <1>10 DEF ConsumerStep

\* A producer's commit and the passing of a second keep IInv.
LEMMA EnvironmentPreserves ==
  ASSUME IInv, Tick \/ \E e \in Events : Store(e)
  PROVE  IInv'
  <1>1. ASSUME NEW e \in Events, Store(e)
        PROVE  IInv'
    <2>1. TypeOK'
      BY <1>1, BoundsAssumption DEF Store, relayVars, brokerVars, consumerVars,
        NoFault, IInv, TypeOK, TaskStates, Least
    <2>2. RowLocks'
      BY <1>1 DEF Store, relayVars, brokerVars, consumerVars, NoFault, IInv,
        TypeOK, RowLocks, Batch
    <2>3. CopiesCounted'
      BY <1>1 DEF Store, relayVars, brokerVars, consumerVars, NoFault, IInv,
        TypeOK, RowLocks, Batch, CopiesCounted, Confirmed
    <2>4. ConfirmedIsKept'
      BY <1>1 DEF Store, relayVars, brokerVars, consumerVars, NoFault, IInv,
        TypeOK, RowLocks, Batch, TasksAgree, ConfirmedIsKept, Confirmed, Kept,
        InFlight
    <2>5. TravelsStored'
      BY <1>1, EventsAssumption DEF Store, relayVars, brokerVars, consumerVars,
        NoFault, IInv, TypeOK, RowLocks, Batch, TasksAgree, TravelsStored,
        Kept, InFlight
    <2>6. TasksAgree' /\ EffectOncePerInboxRow'
      BY <1>1 DEF Store, relayVars, brokerVars, consumerVars, NoFault, IInv,
        TasksAgree, EffectOncePerInboxRow
    <2> QED BY <2>1, <2>2, <2>3, <2>4, <2>5, <2>6 DEF IInv
  <1>2. ASSUME Tick
        PROVE  IInv'
    <2>1. TypeOK'
      BY <1>2, BoundsAssumption DEF Tick, brokerVars, consumerVars, NoFault,
        IInv, TypeOK, TaskStates, Least
    <2>2. /\ RowLocks' /\ CopiesCounted' /\ ConfirmedIsKept'
          /\ TasksAgree' /\ EffectOncePerInboxRow' /\ TravelsStored'
      BY <1>2 DEF Tick, brokerVars, consumerVars, NoFault, IInv, RowLocks,
        Batch, CopiesCounted, Confirmed, ConfirmedIsKept, Kept, InFlight,
        TasksAgree, EffectOncePerInboxRow, TravelsStored
    <2> QED BY <2>1, <2>2 DEF IInv
  <1> QED BY <1>1, <1>2

\* IInv holds in every reachable state of the delivery pipeline.
THEOREM Inductive == Spec => []IInv
  <1>1. IInv /\ [Next]_vars => IInv'
    <2> SUFFICES ASSUME IInv, [Next]_vars PROVE IInv' OBVIOUS
    <2>1. CASE UNCHANGED vars
      BY <2>1 DEF vars, outboxVars, relayVars, brokerVars, consumerVars, IInv,
         TypeOK, RowLocks, Batch, CopiesCounted, Confirmed, ConfirmedIsKept, Kept,
         InFlight, TasksAgree, EffectOncePerInboxRow, TravelsStored
    <2>2. CASE Next
      BY <2>2, RelayPreserves, ConsumerPreserves, EnvironmentPreserves
         DEF Next, FaultStep
    <2> QED BY <2>1, <2>2
  <1> QED BY <1>1, InitEstablishes, PTL DEF Spec

\* Every variable keeps its type: retry delays stay within DelayCap, deliveries
\* are events of the outbox, and no counter runs below zero.
THEOREM TypeCorrect == Spec => []TypeOK
  <1>1. IInv => TypeOK BY DEF IInv
  <1> QED BY <1>1, Inductive, PTL

\* A row the relay marked published is queued, unacked, dead-lettered or
\* processed, for every topology and any number of faults.
THEOREM NoPublishedEventLost == Spec => []PublishedIsSafe
  <1>1. IInv => PublishedIsSafe
    BY DEF IInv, ConfirmedIsKept, Confirmed, PublishedIsSafe
  <1> QED BY <1>1, Inductive, PTL

\* The inbox makes every event's effect happen exactly once per inbox row,
\* for any number of workers and redeliveries.
THEOREM ExactlyOnceEffect == Spec => []EffectOncePerInboxRow
  <1>1. IInv => EffectOncePerInboxRow BY DEF IInv
  <1> QED BY <1>1, Inductive, PTL

\* Any number of relays publish a row once, except for copies whose confirm or
\* commit was lost.
THEOREM DuplicatesExplained == Spec => []DuplicatesNeedFaults
  <1>1. IInv => DuplicatesNeedFaults
    BY DEF IInv, TypeOK, CopiesCounted, DuplicatesNeedFaults
  <1> QED BY <1>1, Inductive, PTL

\* The pipeline implements EventDelivery: rows are the stored events, the inbox
\* the applied ones and the dead-letter queue the parked ones.
THEOREM Refinement == Spec => ImplementsDelivery
  <1> DEFINE Stored == {e \in Events : status[e] # "absent"}
             AbsVars == <<Stored, inbox, dlq>>
  <1>1. Init => Delivery!Init BY DEF Init, Delivery!Init
  <1>2. ASSUME IInv, [Next]_vars
        PROVE  [Delivery!Next]_(Delivery!vars)
    <2>1. ASSUME NEW e \in Events, Store(e)
          PROVE  Delivery!Next
      <3>1. e \notin Stored /\ Stored' = Stored \cup {e}
        BY <1>2, <2>1 DEF Store, IInv, TypeOK
      <3>2. UNCHANGED <<inbox, dlq>>
        BY <2>1 DEF Store, consumerVars, brokerVars
      <3> QED BY <3>1, <3>2 DEF Delivery!Next, Delivery!Store
    <2>2. ASSUME NEW c \in Consumers, CommitHandler(c)
          PROVE  Delivery!Next
      <3>1. /\ delivery[c] \in (Stored \cap Routable) \ inbox
            /\ delivery[c] \in Events
        BY <1>2, <2>2, EventsAssumption
           DEF CommitHandler, IInv, TypeOK, TasksAgree, TravelsStored
      <3>2. /\ inbox' = inbox \cup {delivery[c]}
            /\ UNCHANGED <<Stored, dlq>>
        BY <2>2 DEF CommitHandler, outboxVars, brokerVars
      <3>3. Delivery!Apply(delivery[c], {})
        BY <3>1, <3>2 DEF Delivery!Apply
      <3> QED BY <3>1, <3>3 DEF Delivery!Next
    <2>3. ASSUME NEW c \in Consumers, Reject(c)
          PROVE  Delivery!Next \/ UNCHANGED Delivery!vars
      <3>1. UNCHANGED <<Stored, inbox>>
        BY <2>3 DEF Reject, outboxVars
      <3>2. CASE c \in held /\ delivery[c] \notin dlq
        <4>1. delivery[c] \in Stored \cap Routable /\ delivery[c] \in Events
          BY <1>2, <2>3, EventsAssumption
             DEF Reject, IInv, TypeOK, TasksAgree, TravelsStored
        <4>2. dlq' = dlq \cup {delivery[c]} BY <2>3, <3>2 DEF Reject
        <4> QED BY <3>1, <3>2, <4>1, <4>2 DEF Delivery!Next, Delivery!Park
      <3>3. CASE ~(c \in held /\ delivery[c] \notin dlq)
        <4>1. dlq' = dlq BY <2>3, <3>3 DEF Reject
        <4> QED BY <3>1, <4>1 DEF Delivery!vars
      <3> QED BY <3>2, <3>3
    <2>4. ASSUME NEW r \in Relays, CommitBatch(r)
          PROVE  UNCHANGED Delivery!vars
      <3>1. Stored' = Stored
        BY <1>2, <2>4 DEF CommitBatch, PublishedRows, IInv, TypeOK, RowLocks, Batch
      <3> QED BY <2>4, <3>1 DEF CommitBatch, consumerVars, brokerVars, Delivery!vars
    <2>5. ASSUME UNCHANGED <<status, inbox, dlq>>
          PROVE  UNCHANGED Delivery!vars
      BY <2>5 DEF Delivery!vars
    <2>6. ASSUME NEW r \in Relays,
                 \/ SelectBatch(r) \/ RelayCrash(r)
                 \/ \E e \in Events : \/ PublishConfirmed(r, e)
                                      \/ PublishReturned(r, e)
                                      \/ PublishFails(r, e)
          PROVE  UNCHANGED <<status, inbox, dlq>>
      BY <2>6 DEF SelectBatch, PublishConfirmed, Bound, PublishReturned, Bound, RelayCrash,
         PublishFails, Bound, outboxVars, brokerVars, consumerVars
    <2>7. ASSUME NEW c \in Consumers,
                 \/ \E e \in Events : Deliver(c, e)
                 \/ ClaimNew(c) \/ ClaimDuplicate(c)
                 \/ RaiseInvalid(c) \/ HandlerFails(c) \/ Ack(c)
                 \/ ConnectionLost(c) \/ WorkerCrash(c)
          PROVE  UNCHANGED <<status, inbox, dlq>>
      BY <2>7 DEF Deliver, ClaimNew, ClaimDuplicate, RaiseInvalid, HandlerFails, Ack,
         ConnectionLost, WorkerCrash, outboxVars, brokerVars
    <2>8. Tick \/ UNCHANGED vars => UNCHANGED <<status, inbox, dlq>>
      BY DEF Tick, vars, outboxVars, brokerVars, consumerVars
    <2>9. ASSUME NEW r \in Relays,
                 \/ RelayStep(r) \/ RelayCrash(r)
                 \/ \E e \in Events : PublishFails(r, e)
          PROVE  UNCHANGED Delivery!vars
      BY <2>4, <2>5, <2>6, <2>9 DEF RelayStep
    <2>10. ASSUME NEW c \in Consumers,
                  \/ ConsumerStep(c) \/ HandlerFails(c)
                  \/ ConnectionLost(c) \/ WorkerCrash(c)
           PROVE  Delivery!Next \/ UNCHANGED Delivery!vars
      BY <2>2, <2>3, <2>5, <2>7, <2>10 DEF ConsumerStep
    <2>11. Delivery!Next \/ UNCHANGED Delivery!vars
      BY <1>2, <2>1, <2>5, <2>8, <2>9, <2>10 DEF Next, FaultStep
    <2> QED BY <2>11
  <1> QED BY <1>1, <1>2, Inductive, PTL DEF Spec, ImplementsDelivery, Delivery!Spec

=============================================================================

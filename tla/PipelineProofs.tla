--------------------------- MODULE PipelineProofs ---------------------------
(***************************************************************************)
(* The composed pipeline keeps the safety half of its promise: the two     *)
(* services, which share the outbox and the broker, do not disturb each    *)
(* other's invariants.                                                     *)
(***************************************************************************)
EXTENDS Pipeline, RelayProofs, NotifierProofs

\* What a notifier does is invisible to the relays.
LEMMA NotifierStepKeepsRelay ==
    ASSUME AccountedInv, NotifierInv', NEW n \in Notifiers, NotifierStep(n), UNCHANGED relayVars
    PROVE  AccountedInv' /\ UNCHANGED <<txn, log>>
<1> USE DEF AccountedInv
<1>1. UNCHANGED <<txn, rowId, nextId, publishedAt, log>>
  BY Zenon DEF NotifierStep, NotifierRuns, StartNotifier, Assign, Poll, WriteNotification, WriteError,
     MarkDelivered, MarkDeliveredError, SetDeliveredByEventID, Marked, Commit, CommitError, StopNotifier,
     ExitNotifier, CrashNotifier, Leave, outboxVars, brokerVars
<1>2. RelayTypeOK'
  BY Zenon DEF RelayInv, RelayTypeOK, relayVars, NotifierInv, ConsumeInv, NotifierTypeOK
<1>3. RelayInv'
  BY <1>1, <1>2, SMTT(30) DEF RelayInv, IdsUnique, TodoVisible, Visible, MarkingIsLogged, Current,
     PublishedIsLogged, OnlyOrdersLogged, Logged, Copies, relayVars
<1>4. faults <= faults'
  <2>1. faults \in Nat
    BY IsCountable, Zenon DEF RelayInv, Countable
  <2>2. UNCHANGED faults \/ faults' = faults + 1
    BY Zenon DEF NotifierStep, NotifierRuns, StartNotifier, Assign, Poll, WriteNotification, WriteError,
       MarkDelivered, MarkDeliveredError, Commit, CommitError, StopNotifier, ExitNotifier, CrashNotifier,
       Fault
  <2> QED
    BY <2>1, <2>2, SMTT(30)
<1> QED
  BY <1>1, <1>3, <1>4, OutsideStepAccounts, SMTT(30)

\* What a relay does is, to the notifiers, a log that may grow by a record.
LEMMA RelayStepKeepsNotifier ==
    ASSUME RelayInv, RelayInv', NotifierInv, NEW r \in Relays, RelayStep(r), UNCHANGED notifierVars
    PROVE  NotifierInv' /\ UNCHANGED txn
<1>1. UNCHANGED <<txn, deliveredAt>>
  BY Zenon DEF RelayStep, RelayRuns, StartRelay, Tick, Scan, ScanError, Publish, PublishFails,
     PublishError, MarkPublished, MarkPublishedError, SetPublishedAt, StopRelay, ExitRelay, CrashRelay,
     outboxVars
<1>2. UNCHANGED log \/ \E e \in Events : Produce(e)
  BY Zenon DEF RelayStep, RelayRuns, StartRelay, Tick, Scan, ScanError, Publish, PublishFails,
     PublishError, MarkPublished, MarkPublishedError, StopRelay, ExitRelay, CrashRelay, brokerVars
<1>3. UNCHANGED faults \/ faults' = faults + 1
  BY Zenon DEF RelayStep, RelayRuns, StartRelay, Tick, Scan, ScanError, Publish, PublishFails,
     PublishError, MarkPublished, MarkPublishedError, StopRelay, ExitRelay, CrashRelay, Fault
<1>4. NotifierTypeOK'
  BY Zenon DEF RelayInv, RelayTypeOK, NotifierInv, ConsumeInv, NotifierTypeOK, notifierVars, groupVars,
     loopVars, sinkVars
<1> QED
  BY <1>1, <1>2, <1>3, <1>4, OutsideStepKeepsInv, Zenon

\* A notifier shows at most one more order, one that the log holds.
LEMMA NotifierStepShows ==
    ASSUME PipelineInv, NEW n \in Notifiers, NotifierStep(n)
    PROVE  \/ UNCHANGED shown
           \/ \E e \in Visible : Logged(e) /\ shown' = [shown EXCEPT ![e] = @ + 1]
<1>1. ASSUME NEW x \in batch[n], WriteNotification(n, x) \/ WriteError(n, x)
      PROVE  \E e \in Visible : Logged(e) /\ shown' = [shown EXCEPT ![e] = @ + 1]
  <2>1. x[1] \in Partitions /\ x[2] \in 1 .. Len(log[x[1]])
    BY SMTT(30) DEF PipelineInv, NotifierInv, ConsumeInv, NotifierTypeOK, Positions, OffsetsInLog, BrokerTypeOK
  <2>2. Record(x) \in Events
    BY <2>1, SMTT(30) DEF Record, PipelineInv, NotifierInv, ConsumeInv, NotifierTypeOK, BrokerTypeOK
  <2>3. PartitionOf[Record(x)] = x[1]
    BY <2>1, Zenon DEF Record, PipelineInv, NotifierInv, KeyedLog
  <2>4. Logged(Record(x))
    BY <2>1, <2>3, Zenon DEF Logged, Copies, Record
  <2>5. Record(x) \in Visible
    BY <2>2, <2>4, Zenon DEF PipelineInv, AccountedInv, RelayInv, OnlyOrdersLogged
  <2> QED
    BY <1>1, <2>4, <2>5, SMTT(30) DEF WriteNotification, WriteError
<1> QED
  BY <1>1, ZenonT(30) DEF NotifierStep, NotifierRuns, StartNotifier, Assign, Poll,
     MarkDelivered, MarkDeliveredError, Marked, Commit, CommitError, StopNotifier,
     ExitNotifier, CrashNotifier, Leave, sinkVars

\* A relay takes nothing out of the log.
LEMMA RelayStepKeepsLogged ==
    ASSUME PipelineInv, NEW r \in Relays, RelayStep(r)
    PROVE  \A f \in Events : Logged(f) => Logged(f)'
<1>1. UNCHANGED log \/ \E e \in Events : Produce(e)
  BY DEF RelayStep, RelayRuns, StartRelay, Tick, Scan, ScanError, Publish, PublishFails,
     PublishError, MarkPublished, MarkPublishedError, StopRelay, ExitRelay, CrashRelay, brokerVars
<1>2. CASE UNCHANGED log
  BY <1>2, Zenon DEF Logged, Copies
<1>3. ASSUME NEW e \in Events, Produce(e) PROVE \A f \in Events : Logged(f) => Logged(f)'
  BY <1>3, ProduceLogs, Zenon DEF PipelineInv, NotifierInv, ConsumeInv, NotifierTypeOK
<1> QED
  BY <1>1, <1>2, <1>3, ZenonT(30)

\* Init establishes the inductive invariant of the pipeline.
LEMMA InitInv == Init => PipelineInv
<1> SUFFICES ASSUME Init PROVE PipelineInv
  OBVIOUS
<1>1. NotifierInv
  BY NotifierInitPays, Zenon DEF Init
<1>2. RelayTypeOK
  BY <1>1, Zenon DEF Init, RelayInit, RelayTypeOK, NotifierInv, ConsumeInv, NotifierTypeOK
<1>3. \A e \in Events : ~Logged(e)
  BY PartitionAssumption, SMTT(30) DEF Init, BrokerInit, Logged, Copies
<1>4. RelayInv
  BY <1>2, <1>3, SMTT(30) DEF Init, OutboxInit, RelayInit, RelayInv, IdsUnique, TodoVisible, MarkingIsLogged,
     PublishedIsLogged, OnlyOrdersLogged
<1>5. AccountedInv
  BY <1>4, InitAccounts, Zenon DEF Init
<1>6. ShownIsLogged
  BY DEF Init, NotifierInit, ShownIsLogged
<1> QED
  BY <1>1, <1>5, <1>6, Zenon DEF PipelineInv

\* Every step preserves it.
LEMMA NextInv == PipelineInv /\ [Next]_vars => PipelineInv'
<1> SUFFICES ASSUME PipelineInv, [Next]_vars PROVE PipelineInv'
  OBVIOUS
<1> USE DEF PipelineInv
<1>0. RelayInv /\ faults \in Nat
  BY IsCountable, Zenon DEF AccountedInv, RelayInv, Countable
<1>1. ASSUME NEW e \in Events, OrderStep(e), UNCHANGED <<brokerVars, relayVars, notifierVars, faults>>
      PROVE  PipelineInv'
  <2>1. UNCHANGED publishedAt /\ \A f \in Visible : rowId'[f] = rowId[f]
    BY <1>0, <1>1, Zenon DEF OrderStep, Enqueue, CommitOrder, RollbackOrder, Visible, RelayInv, RelayTypeOK,
       OutboxTypeOK
  <2>2. AccountedInv'
    BY <1>0, <1>1, <2>1, OrderStepPreserves, OutsideStepAccounts, SMTT(30) DEF brokerVars
  <2>3. NotifierTypeOK' /\ UNCHANGED deliveredAt
    BY <1>1, OrderStepKeeps, Zenon DEF NotifierInv, ConsumeInv, OrderStep, Enqueue, CommitOrder, RollbackOrder
  <2>4. NotifierInv'
    BY <1>1, <2>3, OutsideStepKeepsInv, Zenon DEF brokerVars
  <2> QED
    BY <1>1, <2>2, <2>4, Zenon DEF ShownIsLogged, Logged, Copies, brokerVars, notifierVars, sinkVars
<1>2. ASSUME NEW r \in Relays, RelayStep(r), UNCHANGED notifierVars
      PROVE  PipelineInv'
  <2>1. AccountedInv'
    BY <1>2, RelayStepAccounts, Zenon
  <2>2. NotifierInv'
    BY <1>0, <1>2, <2>1, RelayStepKeepsNotifier, Zenon DEF AccountedInv
  <2>3. \A f \in Events : Logged(f) => Logged(f)'
    BY <1>2, RelayStepKeepsLogged, Zenon
  <2> QED
    BY <1>2, <2>1, <2>2, <2>3, Zenon DEF ShownIsLogged, notifierVars, sinkVars
<1>3. ASSUME NEW n \in Notifiers, NotifierStep(n), UNCHANGED relayVars
      PROVE  PipelineInv'
  <2>1. NotifierInv'
    BY <1>3, NotifierStepKeepsInv, Zenon
  <2>2. AccountedInv' /\ UNCHANGED log
    BY <1>3, <2>1, NotifierStepKeepsRelay, Zenon
  <2>3. \A f \in Events : Logged(f)' <=> Logged(f)
    BY <2>2, Zenon DEF Logged, Copies
  <2>4. ShownIsLogged'
    <3>1. shown \in [Events -> Nat]
      BY Zenon DEF NotifierInv, ConsumeInv, NotifierTypeOK
    <3>2. CASE UNCHANGED shown
      BY <2>3, <3>2, Zenon DEF ShownIsLogged
    <3>3. ASSUME NEW e \in Visible, Logged(e), shown' = [shown EXCEPT ![e] = @ + 1]
          PROVE  ShownIsLogged'
      BY <2>3, <3>1, <3>3, SMTT(30) DEF ShownIsLogged
    <3> QED
      BY <1>3, <3>2, <3>3, NotifierStepShows, SMTT(30)
  <2> QED
    BY <2>1, <2>2, <2>4, Zenon
<1>4. CASE BrokerStep /\ UNCHANGED <<outboxVars, relayVars, notifierVars>>
  <2>0. UNCHANGED <<log, deliveredAt>> /\ (UNCHANGED faults \/ faults' = faults + 1)
    BY <1>4, Zenon DEF BrokerStep, BrokerFails, BrokerRecovers, Fault, outboxVars
  <2>1. faults <= faults'
    BY <1>0, <2>0, SMTT(30)
  <2>2. AccountedInv'
    BY <1>0, <1>4, <2>0, <2>1, BrokerStepPreserves, OutsideStepAccounts, SMTT(30) DEF outboxVars
  <2>3. NotifierTypeOK'
    BY <1>4, BrokerStepKeeps, Zenon DEF NotifierInv, ConsumeInv
  <2>4. NotifierInv'
    BY <1>4, <2>0, <2>3, OutsideStepKeepsInv, Zenon
  <2> QED
    BY <1>4, <2>0, <2>2, <2>4, Zenon DEF ShownIsLogged, Logged, Copies, notifierVars, sinkVars
<1>5. CASE UNCHANGED vars
  <2>1. NotifierTypeOK'
    BY <1>5, Zenon DEF vars, NotifierInv, ConsumeInv, NotifierTypeOK, OutboxTypeOK, BrokerTypeOK, outboxVars,
       brokerVars, notifierVars, groupVars, loopVars, sinkVars
  <2>2. NotifierInv'
    BY <1>5, <2>1, OutsideStepKeepsInv, Zenon DEF vars, outboxVars, brokerVars
  <2>3. AccountedInv'
    BY <1>0, <1>5, RelayInvFrame, OutsideStepAccounts, SMTT(30) DEF vars, outboxVars, brokerVars
  <2> QED
    BY <1>5, <2>2, <2>3, Zenon DEF vars, ShownIsLogged, Logged, Copies, brokerVars, notifierVars, sinkVars
<1> QED
  BY <1>1, <1>2, <1>3, <1>4, <1>5, SMTT(30) DEF Next

\* PipelineInv holds throughout.
THEOREM PipelineInvHolds == SafetySpec => []PipelineInv
BY InitInv, NextInv, PTL DEF SafetySpec

\* A row that is delivered and not published is about to be marked by a relay,
\* or a fault came between (relay.go publish, notifier/service.go dispatch).
THEOREM DeliveredIsPublishedHolds == SafetySpec => []DeliveredIsPublished
<1>1. PipelineInv => DeliveredIsPublished
  <2> SUFFICES ASSUME PipelineInv, NEW e \in Events, deliveredAt[e], ~publishedAt[e], ~(faults > 0)
               PROVE  Marking(e) # {}
    BY Zenon DEF DeliveredIsPublished
  <2>1. Logged(e)
    BY Zenon DEF PipelineInv, NotifierInv, ConsumeInv, DeliveredIsWritten, ShownIsLogged
  <2>2. faults = 0
    BY IsCountable DEF PipelineInv, AccountedInv, RelayInv, Countable
  <2> QED
    BY <2>1, <2>2, UnmarkedIsMarking, Zenon DEF PipelineInv
<1> QED
  BY <1>1, PipelineInvHolds, PTL

\* More copies and as many faults allow more notifications.
LEMMA BoundsMultiply ==
    ASSUME NEW s \in Nat, NEW c \in Nat, NEW d \in Nat, NEW f \in Nat, s <= c * (1 + f), c <= d
    PROVE  s <= d * (1 + f)
<1>1. PICK h \in Nat : d = c + h
  <2>1. d - c \in Nat /\ d = c + (d - c)
    OBVIOUS
  <2> QED
    BY <2>1, Zenon
<1>2. (c + h) * (1 + f) = c * (1 + f) + h * (1 + f) /\ c * (1 + f) \in Nat /\ h * (1 + f) \in Nat
  OBVIOUS
<1> DEFINE k == c * (1 + f)
           j == h * (1 + f)
<1> HIDE DEF k, j
<1>3. k \in Nat /\ j \in Nat /\ s <= k /\ d * (1 + f) = k + j
  BY <1>1, <1>2, SMTT(30) DEF k, j
<1> QED
  BY <1>3

\* For any number of replicas of both services and any faults, an order is
\* notified at most as often as the relays may copy it times the notifiers may
\* repeat a copy (relay.go publish, notifier/service.go dispatch).
THEOREM NotificationBoundHolds == SafetySpec => []NotificationBound
<1>1. PipelineInv => NotificationBound
  <2> SUFFICES ASSUME PipelineInv, NEW e \in Events
               PROVE  shown[e] <= (Cardinality(Relays) + faults) * (1 + faults)
    BY Zenon DEF NotificationBound
  <2>1. BrokerTypeOK /\ faults \in Nat /\ shown[e] \in Nat
    BY FaultsAssumption, SMTT(30) DEF PipelineInv, NotifierInv, ConsumeInv, NotifierTypeOK
  <2>2. Cardinality(Copies(e)) \in Nat /\ Cardinality(Relays) \in Nat
    BY <2>1, DueCountable, RelaysCountable, Zenon
  <2>3. shown[e] <= Cardinality(Copies(e)) * (1 + faults)
    BY PaidBounds, Zenon DEF PipelineInv, RedeliveryBound
  <2>4. Cardinality(Copies(e)) <= Cardinality(Relays) + faults
    BY AccountBounds, Zenon DEF PipelineInv, DuplicateBound
  <2>5. Cardinality(Relays) + faults \in Nat
    BY <2>1, <2>2, SMTT(30)
  <2> QED
    BY <2>1, <2>2, <2>3, <2>4, <2>5, BoundsMultiply, SMTT(30)
<1> QED
  BY <1>1, PipelineInvHolds, PTL

\* The pipeline implements the safety half of the abstract specification: an
\* order is notified only after it was recorded, and neither is ever undone
\* (purchase.go, relay.go, notifier/service.go taken together).
THEOREM KeepsPromiseSafelyHolds == SafetySpec => KeepsPromiseSafely
<1>1. Init => Promise!Init
  BY DEF Init, OutboxInit, NotifierInit, Promise!Init, Visible
<1>2. PipelineInv /\ [Next]_vars => [Promise!Next]_(Promise!vars)
  <2> SUFFICES ASSUME PipelineInv, [Next]_vars
               PROVE  Promise!Next \/ UNCHANGED Promise!vars
    OBVIOUS
  <2> DEFINE notified == {e \in Events : shown[e] > 0}
  <2>1. ASSUME NEW e \in Events, OrderStep(e), UNCHANGED notifierVars
        PROVE  Promise!Next \/ UNCHANGED Promise!vars
    <3>1. UNCHANGED shown
      BY <2>1, Zenon DEF notifierVars, sinkVars
    <3>2. txn \in [Events -> {"none", "open", "committed", "aborted"}]
      BY Zenon DEF PipelineInv, NotifierInv, ConsumeInv, NotifierTypeOK, OutboxTypeOK
    <3>3. CASE CommitOrder(e)
      <4>1. e \in Events \ Visible /\ Visible' = Visible \cup {e}
        BY <3>2, <3>3, Zenon DEF CommitOrder, Visible
      <4> QED
        BY <3>1, <4>1, SMTT(30) DEF Promise!Next, Promise!Record
    <3>4. CASE Enqueue(e) \/ RollbackOrder(e)
      <4>1. Visible' = Visible
        BY <3>2, <3>4, Zenon DEF Enqueue, RollbackOrder, Visible
      <4> QED
        BY <3>1, <4>1, Zenon DEF Promise!vars
    <3> QED
      BY <2>1, <3>3, <3>4, Zenon DEF OrderStep
  <2>2. ASSUME UNCHANGED <<txn, shown>>
        PROVE  UNCHANGED Promise!vars
    BY <2>2, Zenon DEF Promise!vars, Visible
  <2>3. ASSUME NEW r \in Relays, RelayStep(r), UNCHANGED notifierVars
        PROVE  UNCHANGED <<txn, shown>>
    BY <2>3, RelayStepPreserves, RelayStepKeepsNotifier, Zenon DEF PipelineInv, AccountedInv, notifierVars,
       sinkVars
  <2>4. ASSUME NEW n \in Notifiers, NotifierStep(n), UNCHANGED relayVars
        PROVE  Promise!Next \/ UNCHANGED Promise!vars
    <3>1. UNCHANGED txn
      BY <2>4, NotifierStepKeepsInv, NotifierStepKeepsRelay, Zenon DEF PipelineInv
    <3>2. CASE UNCHANGED shown
      BY <2>2, <3>1, <3>2, SMTT(30)
    <3>3. ASSUME NEW e \in Visible, shown' = [shown EXCEPT ![e] = @ + 1]
          PROVE  Promise!Next \/ UNCHANGED Promise!vars
      <4>1. e \in Events /\ shown \in [Events -> Nat]
        BY Zenon DEF Visible, PipelineInv, NotifierInv, ConsumeInv, NotifierTypeOK
      <4>2. notified' = notified \cup {e}
        BY <3>3, <4>1, SMTT(30)
      <4>3. Visible' = Visible
        BY <3>1, Zenon DEF Visible
      <4>4. CASE e \in notified
        BY <4>2, <4>3, <4>4, Zenon DEF Promise!vars
      <4>5. CASE e \notin notified
        BY <4>1, <4>2, <4>3, <4>5, Zenon DEF Promise!Next, Promise!Notify
      <4> QED
        BY <4>4, <4>5, Zenon
    <3> QED
      BY <2>4, <3>2, <3>3, NotifierStepShows, SMTT(30)
  <2>5. CASE BrokerStep /\ UNCHANGED <<outboxVars, relayVars, notifierVars>>
    BY <2>2, <2>5, Zenon DEF outboxVars, notifierVars, sinkVars
  <2>6. CASE UNCHANGED vars
    BY <2>2, <2>6 DEF vars, outboxVars, notifierVars, sinkVars
  <2> QED
    BY <2>1, <2>2, <2>3, <2>4, <2>5, <2>6, ZenonT(30) DEF Next
<1> QED
  BY <1>1, <1>2, PipelineInvHolds, PTL DEF SafetySpec, KeepsPromiseSafely, Promise!SafetySpec

=============================================================================

---------------------------- MODULE RelayProofs ----------------------------
(***************************************************************************)
(* The relay's steps, the purchases' and the broker's preserve the         *)
(* inductive invariants RelayInv and AccountedInv of module Relay, and     *)
(* what follows for RelaySystem, for all its constants.                    *)
(***************************************************************************)
EXTENDS RelaySystem, FiniteSetTheorems, TLAPS

-----------------------------------------------------------------------------
(* The broker's log. *)

\* Producing a record keeps every record where it is and adds one, at the end
\* of the partition of its key (client.go Publish).
LEMMA ProduceAppends ==
    ASSUME BrokerTypeOK, NEW e \in Events, Produce(e)
    PROVE  /\ log' \in [Partitions -> Seq(Events)]
           /\ \A p \in Partitions : Len(log[p]) \in Nat /\ Len(log'[p]) \in Nat
           /\ \A p \in Partitions : Len(log[p]) <= Len(log'[p])
           /\ \A p \in Partitions : \A o \in 1 .. Len(log[p]) : log'[p][o] = log[p][o]
           /\ \A p \in Partitions : \A o \in 1 .. Len(log'[p]) :
                 o \in 1 .. Len(log[p]) \/ (p = PartitionOf[e] /\ log'[p][o] = e)
           /\ Len(log'[PartitionOf[e]]) = Len(log[PartitionOf[e]]) + 1
           /\ log'[PartitionOf[e]][Len(log[PartitionOf[e]]) + 1] = e
<1>1. PartitionOf[e] \in Partitions
  BY PartitionAssumption, Zenon
<1>2. \A p \in Partitions : log'[p] = IF p = PartitionOf[e] THEN Append(log[p], e) ELSE log[p]
  BY DEF BrokerTypeOK, Produce
<1>3. ASSUME NEW p \in Partitions
      PROVE  /\ log[p] \in Seq(Events)
             /\ Append(log[p], e) \in Seq(Events)
             /\ Len(Append(log[p], e)) = Len(log[p]) + 1
             /\ \A o \in 1 .. Len(log[p]) : Append(log[p], e)[o] = log[p][o]
             /\ Append(log[p], e)[Len(log[p]) + 1] = e
             /\ Len(log[p]) \in Nat
  BY DEF BrokerTypeOK
<1>4. log' \in [Partitions -> Seq(Events)]
  BY <1>1, <1>3, Zenon DEF BrokerTypeOK, Produce
<1>5. ASSUME NEW p \in Partitions
      PROVE  /\ Len(log[p]) \in Nat /\ Len(log'[p]) \in Nat
             /\ Len(log[p]) <= Len(log'[p])
             /\ \A o \in 1 .. Len(log[p]) : log'[p][o] = log[p][o]
             /\ \A o \in 1 .. Len(log'[p]) :
                   o \in 1 .. Len(log[p]) \/ (p = PartitionOf[e] /\ log'[p][o] = e)
  <2>1. CASE p = PartitionOf[e]
    <3>1. log'[p] = Append(log[p], e)
      BY <1>2, <2>1, Zenon
    <3>2. Len(log'[p]) = Len(log[p]) + 1 /\ Len(log[p]) \in Nat
      BY <1>3, <3>1
    <3>3. \A o \in 1 .. Len(log'[p]) : o \in 1 .. Len(log[p]) \/ o = Len(log[p]) + 1
      BY <3>2
    <3> QED
      BY <1>3, <2>1, <3>1, <3>2, <3>3
  <2>2. CASE p # PartitionOf[e]
    BY <1>2, <1>3, <2>2
  <2> QED
    BY <2>1, <2>2, Zenon
<1>6. /\ Len(log'[PartitionOf[e]]) = Len(log[PartitionOf[e]]) + 1
      /\ log'[PartitionOf[e]][Len(log[PartitionOf[e]]) + 1] = e
  BY <1>1, <1>2, <1>3, Zenon
<1> QED
  BY <1>4, <1>5, <1>6, Zenon

\* What is logged after producing e: what was logged, and e.
LEMMA ProduceLogs ==
    ASSUME BrokerTypeOK, NEW e \in Events, Produce(e)
    PROVE  /\ log' \in [Partitions -> Seq(Events)]
           /\ Logged(e)'
           /\ \A f \in Events : Logged(f) => Logged(f)'
           /\ \A f \in Events : f # e => Copies(f)' = Copies(f)
<1>1. \A f \in Events : PartitionOf[f] \in Partitions
  BY PartitionAssumption
<1>2. Logged(e)'
  <2>1. /\ Len(log[PartitionOf[e]]) \in Nat
        /\ Len(log'[PartitionOf[e]]) = Len(log[PartitionOf[e]]) + 1
        /\ log'[PartitionOf[e]][Len(log[PartitionOf[e]]) + 1] = e
    BY <1>1, ProduceAppends, Zenon
  <2>2. Len(log'[PartitionOf[e]]) \in 1 .. Len(log'[PartitionOf[e]])
    BY <2>1
  <2> QED
    BY <2>1, <2>2, Zenon DEF Logged, Copies
<1>3. ASSUME NEW f \in Events, NEW o \in Copies(f)
      PROVE  o \in Copies(f)'
  <2>1. o \in 1 .. Len(log[PartitionOf[f]]) /\ log[PartitionOf[f]][o] = f
    BY Zenon DEF Copies
  <2>2. /\ Len(log[PartitionOf[f]]) \in Nat /\ Len(log'[PartitionOf[f]]) \in Nat
        /\ Len(log[PartitionOf[f]]) <= Len(log'[PartitionOf[f]])
        /\ log'[PartitionOf[f]][o] = log[PartitionOf[f]][o]
    BY <1>1, <2>1, ProduceAppends, Zenon
  <2>3. o \in 1 .. Len(log'[PartitionOf[f]])
    BY <2>1, <2>2
  <2> QED
    BY <2>1, <2>2, <2>3, Zenon DEF Copies
<1>4. ASSUME NEW f \in Events, f # e
      PROVE  Copies(f)' = Copies(f)
  BY <1>1, <1>4, ProduceAppends DEF Copies
<1>5. \A f \in Events : Logged(f) => Logged(f)'
  BY <1>3, Zenon DEF Logged
<1> QED
  BY <1>2, <1>4, <1>5, ProduceAppends, Zenon

-----------------------------------------------------------------------------
(* The invariant. *)

\* RelayInv is about these variables only.
LEMMA RelayInvFrame ==
    ASSUME RelayInv, UNCHANGED <<outboxVars, brokerVars, relayVars, faults>>
    PROVE  RelayInv'
<1> USE DEF outboxVars, brokerVars, relayVars
<1>1. RelayTypeOK'
  BY DEF RelayInv, RelayTypeOK, OutboxTypeOK, BrokerTypeOK
<1>2. IdsUnique' /\ TodoVisible'
  BY DEF RelayInv, IdsUnique, TodoVisible, Visible
<1>3. \A e \in Events : Logged(e)' <=> Logged(e)
  BY DEF Logged, Copies
<1>4. MarkingIsLogged'
  BY <1>3, Zenon DEF RelayInv, MarkingIsLogged, Current
<1>5. PublishedIsLogged' /\ OnlyOrdersLogged'
  BY <1>3, Zenon DEF RelayInv, PublishedIsLogged, OnlyOrdersLogged, Visible
<1> QED
  BY <1>1, <1>2, <1>4, <1>5 DEF RelayInv

\* Purchases: ids stay distinct and visible rows stay visible.
LEMMA OrderStepPreserves ==
    ASSUME RelayInv, NEW e \in Events, OrderStep(e),
           UNCHANGED <<brokerVars, relayVars, faults>>
    PROVE  RelayInv'
<1> USE DEF RelayInv, RelayTypeOK, OutboxTypeOK
<1>1. OutboxTypeOK'
  BY DEF OrderStep, Enqueue, CommitOrder, RollbackOrder
<1>2. RelayTypeOK'
  BY <1>1, Zenon DEF BrokerTypeOK, brokerVars, relayVars
<1>3. IdsUnique'
  BY DEF IdsUnique, OrderStep, Enqueue, CommitOrder, RollbackOrder
<1>4. Visible \subseteq Visible'
  BY DEF Visible, OrderStep, Enqueue, CommitOrder, RollbackOrder
<1>5. \A f \in Visible : rowId'[f] = rowId[f]
  BY DEF Visible, OrderStep, Enqueue, CommitOrder, RollbackOrder
<1>6. TodoVisible'
  BY <1>4, Zenon DEF TodoVisible, relayVars
<1>7. \A f \in Events : Logged(f)' <=> Logged(f)
  BY Zenon DEF Logged, Copies, brokerVars
<1>8. MarkingIsLogged'
  BY <1>5, <1>7 DEF MarkingIsLogged, Current, TodoVisible, Visible, relayVars
<1>9. PublishedIsLogged'
  BY <1>7 DEF PublishedIsLogged, OrderStep, Enqueue, CommitOrder, RollbackOrder
<1>10. OnlyOrdersLogged'
  BY <1>4, <1>7, Zenon DEF OnlyOrdersLogged
<1> QED
  BY <1>2, <1>3, <1>6, <1>8, <1>9, <1>10, Zenon

\* The broker going down or coming back changes none of what RelayInv relates.
LEMMA BrokerStepPreserves ==
    ASSUME RelayInv, BrokerStep, UNCHANGED <<outboxVars, relayVars>>
    PROVE  RelayInv'
<1>0. UNCHANGED log
  BY DEF BrokerStep, BrokerFails, BrokerRecovers
<1>1. RelayTypeOK'
  <2>1. up' \in BOOLEAN
    BY Zenon DEF BrokerStep, BrokerFails, BrokerRecovers
  <2>2. faults' \in 0 .. MaxFaults
    BY FaultsAssumption DEF RelayInv, RelayTypeOK, BrokerStep, BrokerFails, BrokerRecovers, Fault
  <2> QED
    BY <1>0, <2>1, <2>2, Zenon DEF RelayInv, RelayTypeOK, OutboxTypeOK, BrokerTypeOK, outboxVars, relayVars
<1> QED
  BY <1>0, <1>1 DEF RelayInv, IdsUnique, TodoVisible, Visible, MarkingIsLogged, Current,
     PublishedIsLogged, OnlyOrdersLogged, Logged, Copies, outboxVars, relayVars

\* A step that touches neither the table nor the log preserves RelayInv if it
\* drops rows from batches at most and takes no relay to its mark.
LEMMA QuietStepPreserves ==
    ASSUME RelayInv, RelayTypeOK', UNCHANGED <<outboxVars, log>>,
           \A r \in Relays : todo'[r] \subseteq todo[r],
           \A r \in Relays : rpc'[r] = "mark" => rpc[r] = "mark" /\ todo'[r] = todo[r]
    PROVE  RelayInv'
BY DEF RelayInv, IdsUnique, TodoVisible, Visible, MarkingIsLogged, Current,
       PublishedIsLogged, OnlyOrdersLogged, Logged, Copies, outboxVars

\* One unit of the fault budget is spent.
LEMMA FaultType ==
    ASSUME faults \in 0 .. MaxFaults, NEW k, Fault(k)
    PROVE  faults' \in 0 .. MaxFaults
BY FaultsAssumption DEF Fault

\* The loop over the batch moves on.
LEMMA AdvanceQuiet ==
    ASSUME RelayInv, NEW r \in Relays, NEW e \in Events, Advance(r, e)
    PROVE  /\ rpc' \in [Relays -> {"down", "idle", "scan", "publish", "mark"}]
           /\ todo' \in [Relays -> SUBSET Events]
           /\ UNCHANGED <<fullBatch, rcancel, refused>>
           /\ \A s \in Relays : todo'[s] \subseteq todo[s]
           /\ \A s \in Relays : rpc'[s] = "mark" => rpc[s] = "mark" /\ todo'[s] = todo[s]
BY DEF RelayInv, RelayTypeOK, Advance

\* Every step of a relay preserves RelayInv.
LEMMA RelayStepPreserves ==
    ASSUME RelayInv, NEW r \in Relays, RelayStep(r)
    PROVE  RelayInv'
<1> USE DEF RelayInv
<1>1. CASE StartRelay(r) \/ Tick(r) \/ ScanError(r) \/ StopRelay(r) \/ ExitRelay(r)
  <2>1. UNCHANGED <<outboxVars, brokerVars, todo, fullBatch, refused>>
    BY <1>1 DEF StartRelay, Tick, ScanError, StopRelay, ExitRelay
  <2>2. faults' \in 0 .. MaxFaults
    BY <1>1, FaultType, Zenon DEF RelayTypeOK, StartRelay, Tick, ScanError, StopRelay, ExitRelay
  <2>3. rpc' \in [Relays -> {"down", "idle", "scan", "publish", "mark"}]
    BY <1>1 DEF RelayTypeOK, StartRelay, Tick, ScanError, StopRelay, ExitRelay
  <2>4. rcancel' \in [Relays -> BOOLEAN]
    BY <1>1, Zenon DEF RelayTypeOK, StartRelay, Tick, ScanError, StopRelay, ExitRelay
  <2>5. \A s \in Relays : rpc'[s] = "mark" => rpc[s] = "mark"
    BY <1>1 DEF RelayTypeOK, StartRelay, Tick, ScanError, StopRelay, ExitRelay
  <2>6. RelayTypeOK'
    BY <2>1, <2>2, <2>3, <2>4, SMTT(30) DEF RelayTypeOK, OutboxTypeOK, BrokerTypeOK, outboxVars, brokerVars
  <2> QED
    BY <2>1, <2>5, <2>6, QuietStepPreserves DEF brokerVars
<1>2. CASE CrashRelay(r)
  <2>1. faults' \in 0 .. MaxFaults
    BY <1>2, FaultType DEF RelayTypeOK, CrashRelay
  <2>2. RelayTypeOK'
    BY <1>2, <2>1, SMTT(30) DEF RelayTypeOK, OutboxTypeOK, BrokerTypeOK, outboxVars, brokerVars, CrashRelay
  <2> QED
    BY <1>2, <2>2, QuietStepPreserves DEF RelayTypeOK, CrashRelay, brokerVars
<1>3. CASE Scan(r)
  <2>1. GetUnpublished(BatchSize) \subseteq Visible
    BY Zenon DEF GetUnpublished
  <2>2. RelayTypeOK'
    BY <1>3, <2>1 DEF RelayTypeOK, OutboxTypeOK, BrokerTypeOK, outboxVars, brokerVars, Scan, Visible
  <2>3. TodoVisible'
    BY <1>3, <2>1, Zenon DEF Scan, TodoVisible, Visible, RelayTypeOK, outboxVars
  <2>4. MarkingIsLogged'
    BY <1>3 DEF Scan, MarkingIsLogged, Current, Logged, Copies, RelayTypeOK, outboxVars, brokerVars
  <2> QED
    BY <1>3, <2>2, <2>3, <2>4, SMTT(30) DEF Scan, IdsUnique, Visible, PublishedIsLogged, OnlyOrdersLogged,
       Logged, Copies, outboxVars, brokerVars
<1>4. ASSUME NEW e \in Events, PublishFails(r, e) \/ MarkPublishedError(r, e)
      PROVE  RelayInv'
  <2>1. Advance(r, e) /\ UNCHANGED <<outboxVars, brokerVars>>
    BY <1>4, Zenon DEF PublishFails, MarkPublishedError
  <2>2. faults' \in 0 .. MaxFaults
    BY <1>4, FaultType, Zenon DEF RelayTypeOK, PublishFails, MarkPublishedError
  <2>3. RelayTypeOK'
    BY <2>1, <2>2, AdvanceQuiet DEF RelayTypeOK, OutboxTypeOK, BrokerTypeOK, outboxVars, brokerVars
  <2> QED
    BY <2>1, <2>3, AdvanceQuiet, QuietStepPreserves, Zenon DEF brokerVars
<1>5. ASSUME NEW e \in Events, Publish(r, e)
      PROVE  RelayInv'
  <2>1. Produce(e) /\ UNCHANGED <<outboxVars, todo, up>>
    BY <1>5, Zenon DEF Publish
  <2>2. e \in Visible
    BY <1>5, Zenon DEF Publish, Current, TodoVisible
  <2>3. RelayTypeOK'
    BY <1>5, <2>1, ProduceLogs DEF RelayTypeOK, OutboxTypeOK, BrokerTypeOK, outboxVars, Publish
  <2>4. \A f \in Events : Logged(f) => Logged(f)'
    BY <2>1, ProduceLogs, Zenon DEF RelayTypeOK
  <2>5. \A f \in Events : Logged(f)' => Logged(f) \/ f = e
    BY <2>1, ProduceLogs, Zenon DEF RelayTypeOK, Logged
  <2>6. MarkingIsLogged'
    <3> SUFFICES ASSUME NEW s \in Relays, NEW f \in Events, rpc'[s] = "mark", Current(s, f)'
                 PROVE  Logged(f)'
      BY Zenon DEF MarkingIsLogged
    <3>1. Current(s, f)
      BY <2>1, Zenon DEF Current, outboxVars
    <3>2. CASE s = r
      <4>1. rowId[e] <= rowId[f] /\ rowId[f] <= rowId[e]
        BY <1>5, <3>1, <3>2, Zenon DEF Publish, Current
      <4>2. rowId[e] # 0
        BY <2>2, Zenon DEF Visible, IdsUnique
      <4>3. f = e
        BY <4>1, <4>2 DEF IdsUnique, RelayTypeOK, OutboxTypeOK
      <4> QED
        BY <4>3, <2>1, ProduceLogs, Zenon DEF RelayTypeOK
    <3>3. CASE s # r
      BY <1>5, <3>1, <3>3, <2>4, Zenon DEF Publish, MarkingIsLogged, RelayTypeOK
    <3> QED
      BY <3>2, <3>3, Zenon
  <2>7. OnlyOrdersLogged'
    BY <2>1, <2>2, <2>5, Zenon DEF OnlyOrdersLogged, Visible, outboxVars
  <2>8. PublishedIsLogged'
    BY <2>1, <2>4, Zenon DEF PublishedIsLogged, outboxVars
  <2>9. IdsUnique' /\ TodoVisible'
    BY <2>1, Zenon DEF IdsUnique, TodoVisible, Visible, outboxVars
  <2> QED
    BY <2>3, <2>6, <2>7, <2>8, <2>9
<1>6. ASSUME NEW e \in Events, PublishError(r, e)
      PROVE  RelayInv'
  <2>1. Advance(r, e) /\ UNCHANGED <<outboxVars, up>> /\ (Produce(e) \/ UNCHANGED log)
    BY <1>6, Zenon DEF PublishError
  <2>2. e \in Visible
    BY <1>6, Zenon DEF PublishError, Current, TodoVisible
  <2>3. log' \in [Partitions -> Seq(Events)]
    BY <2>1, ProduceLogs, Zenon DEF RelayTypeOK, BrokerTypeOK
  <2>4. faults' \in 0 .. MaxFaults
    BY <1>6, FaultType, Zenon DEF RelayTypeOK, PublishError
  <2>5. RelayTypeOK'
    BY <2>1, <2>3, <2>4, AdvanceQuiet, Zenon DEF RelayTypeOK, OutboxTypeOK, BrokerTypeOK, outboxVars
  <2>6. \A f \in Events : /\ Logged(f) => Logged(f)'
                          /\ Logged(f)' => Logged(f) \/ f = e
    BY <2>1, ProduceLogs, SMTT(30) DEF RelayTypeOK, Logged, Copies
  <2>7. TodoVisible' /\ IdsUnique'
    BY <2>1, AdvanceQuiet DEF TodoVisible, IdsUnique, Visible, outboxVars
  <2>8. MarkingIsLogged'
    BY <2>1, <2>6, AdvanceQuiet, Zenon DEF MarkingIsLogged, Current, outboxVars
  <2>9. OnlyOrdersLogged' /\ PublishedIsLogged'
    BY <2>1, <2>2, <2>6, Zenon DEF OnlyOrdersLogged, PublishedIsLogged, Visible, outboxVars
  <2> QED
    BY <2>5, <2>7, <2>8, <2>9, Zenon
<1>7. ASSUME NEW e \in Events, MarkPublished(r, e)
      PROVE  RelayInv'
  <2>1. Advance(r, e) /\ UNCHANGED <<brokerVars, faults, txn, rowId, nextId, deliveredAt>>
    BY <1>7, Zenon DEF MarkPublished, SetPublishedAt
  <2>2. publishedAt' = [publishedAt EXCEPT ![e] = TRUE]
    BY <1>7, Zenon DEF MarkPublished, SetPublishedAt
  <2>3. RelayTypeOK'
    BY <2>1, <2>2, AdvanceQuiet DEF RelayTypeOK, OutboxTypeOK, BrokerTypeOK, brokerVars
  <2>4. \A f \in Events : Logged(f)' <=> Logged(f)
    BY <2>1, Zenon DEF Logged, Copies, brokerVars
  <2>5. Logged(e)
    BY <1>7, Zenon DEF MarkPublished, MarkingIsLogged
  <2>6. PublishedIsLogged'
    BY <2>2, <2>4, <2>5, SMTT(30) DEF PublishedIsLogged, RelayTypeOK, OutboxTypeOK
  <2>7. TodoVisible' /\ IdsUnique' /\ OnlyOrdersLogged'
    BY <2>1, <2>4, AdvanceQuiet DEF TodoVisible, IdsUnique, OnlyOrdersLogged, Visible
  <2>8. MarkingIsLogged'
    BY <2>1, <2>4, AdvanceQuiet, Zenon DEF MarkingIsLogged, Current
  <2> QED
    BY <2>3, <2>6, <2>7, <2>8, Zenon
<1> QED
  BY <1>1, <1>2, <1>3, <1>4, <1>5, <1>6, <1>7, SMTT(30) DEF RelayStep, RelayRuns

-----------------------------------------------------------------------------
(* Every copy in the log is accounted for. *)

\* The sets that Accounted counts are finite.
Countable ==
    /\ faults \in Nat
    /\ \A e \in Events :
          /\ IsFiniteSet(Copies(e)) /\ Cardinality(Copies(e)) \in Nat
          /\ IsFiniteSet(Marking(e)) /\ Cardinality(Marking(e)) \in Nat
          /\ IsFiniteSet(Pending(e)) /\ Cardinality(Pending(e)) \in Nat

LEMMA IsCountable == RelayTypeOK => Countable
<1> SUFFICES ASSUME RelayTypeOK, NEW e \in Events
             PROVE  /\ IsFiniteSet(Copies(e)) /\ Cardinality(Copies(e)) \in Nat
                    /\ IsFiniteSet(Marking(e)) /\ Cardinality(Marking(e)) \in Nat
                    /\ IsFiniteSet(Pending(e)) /\ Cardinality(Pending(e)) \in Nat
  BY FaultsAssumption DEF Countable, RelayTypeOK
<1>1. Len(log[PartitionOf[e]]) \in Nat
  BY PartitionAssumption DEF RelayTypeOK, BrokerTypeOK
<1>2. IsFiniteSet(1 .. Len(log[PartitionOf[e]]))
  BY <1>1, FS_Interval
<1>3. Copies(e) \subseteq 1 .. Len(log[PartitionOf[e]])
  BY Zenon DEF Copies
<1>4. IsFiniteSet(Copies(e))
  BY <1>2, <1>3, FS_Subset, Zenon
<1>5. Marking(e) \subseteq Relays /\ Pending(e) \subseteq Relays
  BY Zenon DEF Marking, Pending
<1>6. IsFiniteSet(Marking(e)) /\ IsFiniteSet(Pending(e))
  BY <1>5, RelayAssumption, FS_Subset, Zenon
<1> QED
  BY <1>4, <1>6, FS_CardinalityType, Zenon

LEMMA StaysCountable == RelayTypeOK' => Countable'
BY IsCountable, PTL

LEMMA RelaysCountable == Cardinality(Relays) \in Nat
BY RelayAssumption, FS_CardinalityType, Zenon

\* A step that adds no copy and takes no replica from its mark.
LEMMA IdleStepAccounts ==
    ASSUME NEW e \in Events, Accounted(e), RelayTypeOK, RelayTypeOK',
           Copies(e)' = Copies(e), publishedAt'[e] = publishedAt[e], faults <= faults',
           Marking(e) \subseteq Marking(e)',
           publishedAt[e] => Pending(e)' \subseteq Pending(e)
    PROVE  Accounted(e)'
<1>1. /\ Cardinality(Copies(e)) \in Nat /\ Cardinality(Marking(e)) \in Nat
      /\ Cardinality(Pending(e)) \in Nat /\ Cardinality(Relays) \in Nat /\ faults \in Nat
  BY IsCountable, RelaysCountable, Zenon DEF Countable
<1>2. IsFiniteSet(Marking(e)') /\ Cardinality(Marking(e)') \in Nat /\ faults' \in Nat
  BY StaysCountable, Zenon DEF Countable
<1>3. Cardinality(Pending(e)') \in Nat /\ IsFiniteSet(Pending(e))
  BY IsCountable, StaysCountable, Zenon DEF Countable
<1>4. Cardinality(Marking(e)) <= Cardinality(Marking(e)')
  BY <1>2, FS_Subset, Zenon
<1>5. publishedAt[e] => Cardinality(Pending(e)') <= Cardinality(Pending(e))
  BY <1>3, FS_Subset, Zenon
<1> QED
  BY <1>1, <1>2, <1>3, <1>4, <1>5 DEF Accounted

\* A step that adds no copy, takes one replica from its mark, and is a fault.
LEMMA FaultStepAccounts ==
    ASSUME NEW e \in Events, Accounted(e), RelayTypeOK, RelayTypeOK',
           Copies(e)' = Copies(e), publishedAt'[e] = publishedAt[e], faults' = faults + 1,
           NEW r, Marking(e) \ {r} \subseteq Marking(e)', Pending(e)' \subseteq Pending(e)
    PROVE  Accounted(e)'
<1>1. /\ Cardinality(Copies(e)) \in Nat /\ Cardinality(Marking(e)) \in Nat /\ IsFiniteSet(Marking(e))
      /\ Cardinality(Pending(e)) \in Nat /\ IsFiniteSet(Pending(e))
      /\ Cardinality(Relays) \in Nat /\ faults \in Nat
  BY IsCountable, RelaysCountable, Zenon DEF Countable
<1>2. /\ IsFiniteSet(Marking(e)') /\ Cardinality(Marking(e)') \in Nat
      /\ Cardinality(Pending(e)') \in Nat
  BY StaysCountable, Zenon DEF Countable
<1>3. Cardinality(Marking(e)) - 1 <= Cardinality(Marking(e) \ {r})
  <2>1. Cardinality(Marking(e) \ {r}) =
           IF r \in Marking(e) THEN Cardinality(Marking(e)) - 1 ELSE Cardinality(Marking(e))
    BY <1>1, FS_RemoveElement, Zenon
  <2> QED
    BY <1>1, <2>1
<1>4. Cardinality(Marking(e) \ {r}) \in Nat
  <2>1. IsFiniteSet(Marking(e) \ {r})
    BY <1>1, FS_RemoveElement
  <2> QED
    BY <2>1, FS_CardinalityType
<1>5. Cardinality(Marking(e) \ {r}) <= Cardinality(Marking(e)')
  BY <1>2, FS_Subset
<1>6. Cardinality(Pending(e)') <= Cardinality(Pending(e))
  BY <1>1, FS_Subset, Zenon
<1> QED
  BY <1>1, <1>2, <1>3, <1>4, <1>5, <1>6 DEF Accounted

\* Producing a record adds one copy of it.
LEMMA ProduceCounts ==
    ASSUME RelayTypeOK, NEW e \in Events, Produce(e)
    PROVE  Cardinality(Copies(e)') = Cardinality(Copies(e)) + 1
<1> DEFINE last == Len(log[PartitionOf[e]]) + 1
<1>1. PartitionOf[e] \in Partitions /\ BrokerTypeOK
  BY PartitionAssumption DEF RelayTypeOK
<1>2. Len(log[PartitionOf[e]]) \in Nat
  BY <1>1 DEF BrokerTypeOK
<1>3. Copies(e)' = Copies(e) \cup {last} /\ last \notin Copies(e)
  <2> DEFINE s == log[PartitionOf[e]]
             t == log'[PartitionOf[e]]
             n == Len(s)
  <2>1. n \in Nat /\ t[n + 1] = e /\ \A o \in 1 .. n : t[o] = s[o]
    BY <1>1, <1>2, ProduceAppends, Zenon
  <2>2. Copies(e) = {o \in 1 .. n : s[o] = e} /\ Copies(e)' = {o \in 1 .. n + 1 : t[o] = e}
    BY <1>1, ProduceAppends, Zenon DEF Copies
  <2> HIDE DEF s, t, n
  <2>3. /\ {o \in 1 .. n + 1 : t[o] = e} = {o \in 1 .. n : s[o] = e} \cup {n + 1}
        /\ n + 1 \notin {o \in 1 .. n : s[o] = e}
    BY <2>1
  <2> QED
    BY <2>2, <2>3, Zenon DEF n, s
<1>4. IsFiniteSet(Copies(e))
  BY IsCountable DEF Countable
<1> QED
  BY <1>3, <1>4, FS_AddElement, Zenon

\* The row a relay stands at is unique: ids are.
LEMMA OneCurrent ==
    ASSUME RelayInv, NEW r \in Relays, NEW e \in Events, NEW f \in Events, Current(r, e), Current(r, f)
    PROVE  e = f
<1>1. rowId[e] <= rowId[f] /\ rowId[f] <= rowId[e]
  BY DEF Current
<1>2. e \in Visible
  BY DEF Current, RelayInv, TodoVisible
<1>3. rowId[e] # 0
  BY <1>2, Zenon DEF Visible, RelayInv, IdsUnique
<1> QED
  BY <1>1, <1>3 DEF RelayInv, IdsUnique, RelayTypeOK, OutboxTypeOK

\* Publish: the new copy is accounted for by the replica, now at its mark.
LEMMA PublishAccounts ==
    ASSUME AccountedInv, RelayInv', NEW r \in Relays, NEW e \in Events, Publish(r, e), NEW f \in Events
    PROVE  Accounted(f)'
<1> USE DEF AccountedInv, RelayInv
<1>1. /\ rpc[r] = "publish" /\ Current(r, e)
      /\ rpc' = [rpc EXCEPT ![r] = "mark"]
      /\ Produce(e)
      /\ UNCHANGED <<todo, rowId, publishedAt, faults>>
  BY Zenon DEF Publish, outboxVars
<1>2. \A s \in Relays, g \in Events : Current(s, g)' <=> Current(s, g)
  BY <1>1, Zenon DEF Current
<1>3. \A g \in Events : Marking(g) \subseteq Marking(g)' /\ r \notin Marking(g)
  BY <1>1, <1>2, Zenon DEF Marking, RelayTypeOK
<1>4. \A g \in Events : Pending(g)' \subseteq Pending(g)
  BY <1>1, <1>3, Zenon DEF Pending
<1>5. CASE f # e
  <2>1. Copies(f)' = Copies(f)
    BY <1>1, <1>5, ProduceLogs, Zenon DEF RelayTypeOK
  <2> QED
    BY <1>1, <1>3, <1>4, <2>1, IdleStepAccounts DEF RelayTypeOK
<1>6. CASE f = e
  <2>1. /\ Cardinality(Copies(e)) \in Nat /\ Cardinality(Relays) \in Nat /\ faults \in Nat
        /\ IsFiniteSet(Marking(e)) /\ Cardinality(Marking(e)) \in Nat
        /\ IsFiniteSet(Pending(e)) /\ Cardinality(Pending(e)) \in Nat
    BY IsCountable, RelaysCountable, Zenon DEF Countable
  <2>2. Marking(e)' = Marking(e) \cup {r}
    BY <1>1, <1>2 DEF Marking, RelayTypeOK
  <2>3. Cardinality(Marking(e)') = Cardinality(Marking(e)) + 1
    BY <1>3, <2>1, <2>2, FS_AddElement, Zenon
  <2>4. r \in Pending(e) /\ Pending(e)' = Pending(e) \ {r}
    BY <1>1, <1>3, <2>2 DEF Pending, Current
  <2>5. Cardinality(Pending(e)') = Cardinality(Pending(e)) - 1
    BY <2>1, <2>4, FS_RemoveElement, Zenon
  <2>6. Cardinality(Copies(e)') = Cardinality(Copies(e)) + 1
    BY <1>1, ProduceCounts
  <2> QED
    BY <1>1, <1>6, <2>1, <2>3, <2>5, <2>6 DEF Accounted
<1> QED
  BY <1>5, <1>6, Zenon

\* The loop moves past e: no other event's place changes.
LEMMA AdvanceCounts ==
    ASSUME RelayInv, NEW r \in Relays, NEW e \in Events, Current(r, e), Advance(r, e), UNCHANGED rowId,
           NEW f \in Events
    PROVE  /\ Marking(f) \ {r} \subseteq Marking(f)' /\ Pending(f)' \subseteq Pending(f)
           /\ rpc[r] # "mark" \/ f # e => Marking(f) \subseteq Marking(f)'
<1> USE DEF RelayInv, RelayTypeOK
<1>1. /\ \A s \in Relays \ {r} : todo'[s] = todo[s] /\ rpc'[s] = rpc[s]
      /\ todo'[r] = todo[r] \ {e} /\ rpc'[r] # "mark"
  BY DEF Advance
<1>2. \A s \in Relays \ {r} : Current(s, f)' <=> Current(s, f)
  BY <1>1 DEF Current
<1>3. Marking(f) \ {r} \subseteq Marking(f)'
  BY <1>1, <1>2, Zenon DEF Marking
<1>4. r \in Marking(f) => rpc[r] = "mark" /\ f = e
  BY OneCurrent, Zenon DEF Marking
<1>5. Pending(f)' \subseteq Pending(f)
  <2> SUFFICES ASSUME NEW s \in Relays, f \in todo'[s], s \notin Marking(f)'
               PROVE  s \in Pending(f)
    BY Zenon DEF Pending, Marking
  <2>1. CASE s = r
    <3>1. f \in todo[r] /\ f # e
      BY <1>1, <2>1, Zenon
    <3> QED
      BY <1>4, <2>1, <3>1, Zenon DEF Pending
  <2>2. CASE s # r
    BY <1>1, <1>3, <2>2, Zenon DEF Pending
  <2> QED
    BY <2>1, <2>2, Zenon
<1> QED
  BY <1>3, <1>4, <1>5

\* publish fails after the record may have been written: a fault accounts for
\* the copy.
LEMMA PublishErrorAccounts ==
    ASSUME AccountedInv, RelayInv', NEW r \in Relays, NEW e \in Events, PublishError(r, e),
           NEW f \in Events
    PROVE  Accounted(f)'
<1> USE DEF AccountedInv, RelayInv
<1>1. /\ rpc[r] = "publish" /\ Current(r, e) /\ Advance(r, e)
      /\ Produce(e) \/ UNCHANGED log
      /\ UNCHANGED <<rowId, publishedAt>>
      /\ faults' = faults + 1
  BY Zenon DEF PublishError, Fault, outboxVars
<1>2. Marking(f) \subseteq Marking(f)' /\ Pending(f)' \subseteq Pending(f)
  BY <1>1, AdvanceCounts, Zenon
<1>3. faults \in Nat
  BY IsCountable, Zenon DEF Countable
<1>4. CASE Copies(f)' = Copies(f)
  BY <1>1, <1>2, <1>3, <1>4, IdleStepAccounts, SMTT(30) DEF RelayTypeOK
<1>5. CASE f = e /\ Produce(e)
  <2>1. /\ Cardinality(Copies(e)) \in Nat /\ Cardinality(Relays) \in Nat
        /\ Cardinality(Marking(e)) \in Nat
        /\ IsFiniteSet(Pending(e)) /\ Cardinality(Pending(e)) \in Nat
    BY IsCountable, RelaysCountable, Zenon DEF Countable
  <2>2. /\ IsFiniteSet(Marking(e)') /\ Cardinality(Marking(e)') \in Nat
        /\ Cardinality(Pending(e)') \in Nat
    BY StaysCountable, Zenon DEF Countable
  <2>3. Cardinality(Marking(e)) <= Cardinality(Marking(e)')
    BY <1>2, <1>5, <2>2, FS_Subset, Zenon
  <2>4. Cardinality(Pending(e)') <= Cardinality(Pending(e))
    BY <1>2, <1>5, <2>1, FS_Subset, Zenon
  <2>5. Cardinality(Copies(e)') = Cardinality(Copies(e)) + 1
    BY <1>5, ProduceCounts, ZenonT(30)
  <2> QED
    BY <1>1, <1>3, <1>5, <2>1, <2>2, <2>3, <2>4, <2>5, SMTT(30) DEF Accounted
<1>6. CASE f # e \/ UNCHANGED log
  BY <1>1, <1>4, <1>6, ProduceLogs DEF RelayTypeOK, Copies
<1> QED
  BY <1>1, <1>5, <1>6, Zenon

\* The row is marked: the replicas at their mark and the pending ones are
\* different replicas, so together no more than there are.
LEMMA MarkAccounts ==
    ASSUME AccountedInv, RelayInv', NEW r \in Relays, NEW e \in Events, MarkPublished(r, e),
           NEW f \in Events
    PROVE  Accounted(f)'
<1> USE DEF AccountedInv, RelayInv
<1>1. /\ Current(r, e) /\ Advance(r, e)
      /\ publishedAt' = [publishedAt EXCEPT ![e] = TRUE]
      /\ UNCHANGED <<rowId, log, faults>>
  BY Zenon DEF MarkPublished, SetPublishedAt, brokerVars
<1>2. Copies(f)' = Copies(f)
  BY <1>1, Zenon DEF Copies
<1>3. Pending(f)' \subseteq Pending(f) /\ (f # e => Marking(f) \subseteq Marking(f)')
  BY <1>1, AdvanceCounts, ZenonT(30)
<1>4. CASE f # e
  <2>1. publishedAt'[f] = publishedAt[f]
    BY <1>1, <1>4, SMTT(30) DEF RelayTypeOK, OutboxTypeOK
  <2>2. faults <= faults'
    BY <1>1, SMTT(30) DEF RelayTypeOK
  <2> QED
    BY <1>2, <1>3, <1>4, <2>1, <2>2, IdleStepAccounts, SMTT(30)
<1>5. CASE f = e
  <2>1. /\ Cardinality(Copies(e)) \in Nat /\ Cardinality(Relays) \in Nat /\ faults \in Nat
        /\ IsFiniteSet(Marking(e)) /\ Cardinality(Marking(e)) \in Nat
        /\ IsFiniteSet(Pending(e)) /\ Cardinality(Pending(e)) \in Nat
    BY IsCountable, RelaysCountable, SMTT(30) DEF Countable
  <2>2. Cardinality(Pending(e)') \in Nat /\ Cardinality(Pending(e)') <= Cardinality(Pending(e))
    BY <1>3, <1>5, <2>1, FS_Subset, StaysCountable, SMTT(30) DEF Countable
  <2>3. Marking(e) \cap Pending(e) = {} /\ Marking(e) \cup Pending(e) \subseteq Relays
    BY Zenon DEF Marking, Pending
  <2>4. Cardinality(Marking(e) \cup Pending(e)) = Cardinality(Marking(e)) + Cardinality(Pending(e))
    BY <2>1, <2>3, FS_Union, FS_EmptySet
  <2>5. Cardinality(Marking(e) \cup Pending(e)) <= Cardinality(Relays)
    BY <2>3, RelayAssumption, FS_Subset, Zenon
  <2>6. publishedAt'[e]
    BY <1>1, SMTT(30) DEF RelayTypeOK, OutboxTypeOK
  <2>7. Cardinality(Copies(e)) + Cardinality(Pending(e)) <= Cardinality(Relays) + faults
    BY <2>1, <2>4, <2>5 DEF Accounted
  <2> QED
    BY <1>1, <1>2, <1>5, <2>1, <2>2, <2>6, <2>7, SMTT(30) DEF Accounted
<1> QED
  BY <1>4, <1>5

\* Every step of a relay keeps the account.
LEMMA RelayStepAccounts ==
    ASSUME AccountedInv, NEW r \in Relays, RelayStep(r)
    PROVE  AccountedInv'
<1> USE DEF AccountedInv
<1>1. RelayInv'
  BY RelayStepPreserves, Zenon
<1> SUFFICES ASSUME NEW f \in Events PROVE Accounted(f)'
  BY <1>1, Zenon
<1>2. RelayTypeOK /\ RelayTypeOK' /\ faults \in Nat
  BY <1>1, IsCountable, Zenon DEF RelayInv, Countable
<1>3. CASE StartRelay(r) \/ Tick(r) \/ ScanError(r) \/ StopRelay(r) \/ ExitRelay(r)
  <2>1. UNCHANGED <<log, todo, rowId, publishedAt>> /\ faults <= faults'
    BY <1>2, <1>3, SMTT(30) DEF StartRelay, Tick, ScanError, StopRelay, ExitRelay, Fault, outboxVars, brokerVars
  <2>2. \A s \in Relays : rpc'[s] = "mark" <=> rpc[s] = "mark"
    BY <1>2, <1>3 DEF RelayTypeOK, StartRelay, Tick, ScanError, StopRelay, ExitRelay
  <2>3. Marking(f)' = Marking(f) /\ Pending(f)' = Pending(f) /\ Copies(f)' = Copies(f)
    BY <2>1, <2>2, Zenon DEF Marking, Pending, Copies, Current
  <2> QED
    BY <1>2, <2>1, <2>3, IdleStepAccounts, Zenon
<1>4. CASE Scan(r)
  <2>1. UNCHANGED <<log, rowId, publishedAt, faults>>
    BY <1>4, Zenon DEF Scan, outboxVars, brokerVars
  <2>2. /\ \A s \in Relays \ {r} : rpc'[s] = rpc[s] /\ todo'[s] = todo[s]
        /\ rpc[r] = "scan" /\ rpc'[r] # "mark"
        /\ todo'[r] = GetUnpublished(BatchSize)
    BY <1>2, <1>4, Zenon DEF Scan, RelayTypeOK
  <2>3. Marking(f)' = Marking(f)
    BY <2>1, <2>2, Zenon DEF Marking, Current
  <2>4. publishedAt[f] => Pending(f)' \subseteq Pending(f)
    BY <2>2, <2>3, Zenon DEF Pending, GetUnpublished
  <2>5. Copies(f)' = Copies(f) /\ faults <= faults'
    BY <1>2, <2>1, SMTT(30) DEF Copies
  <2> QED
    BY <1>2, <2>1, <2>3, <2>4, <2>5, IdleStepAccounts, SMTT(30)
<1>5. CASE CrashRelay(r)
  <2>1. /\ UNCHANGED <<log, rowId, publishedAt>> /\ faults' = faults + 1
        /\ \A s \in Relays \ {r} : rpc'[s] = rpc[s] /\ todo'[s] = todo[s]
        /\ todo'[r] = {}
    BY <1>2, <1>5, Zenon DEF CrashRelay, Fault, RelayTypeOK, outboxVars, brokerVars
  <2>2. Marking(f) \ {r} \subseteq Marking(f)'
    BY <2>1, Zenon DEF Marking, Current
  <2>3. Pending(f)' \subseteq Pending(f)
    BY <2>1, <2>2 DEF Pending
  <2>4. Copies(f)' = Copies(f)
    BY <2>1, Zenon DEF Copies
  <2> QED
    BY <1>2, <2>1, <2>2, <2>3, <2>4, FaultStepAccounts, SMTT(30)
<1>6. ASSUME NEW e \in Events, PublishFails(r, e)
      PROVE  Accounted(f)'
  <2>1. /\ rpc[r] = "publish" /\ Current(r, e) /\ Advance(r, e)
        /\ UNCHANGED <<log, rowId, publishedAt, faults>>
    BY <1>6, Zenon DEF PublishFails, outboxVars, brokerVars
  <2>2. Marking(f) \subseteq Marking(f)' /\ Pending(f)' \subseteq Pending(f)
    BY <2>1, AdvanceCounts, Zenon
  <2>3. Copies(f)' = Copies(f) /\ faults <= faults'
    BY <1>2, <2>1 DEF Copies
  <2> QED
    BY <1>2, <2>1, <2>2, <2>3, IdleStepAccounts
<1>7. ASSUME NEW e \in Events, MarkPublishedError(r, e)
      PROVE  Accounted(f)'
  <2>1. /\ Current(r, e) /\ Advance(r, e) /\ faults' = faults + 1
        /\ UNCHANGED <<log, rowId, publishedAt>>
    BY <1>7, Zenon DEF MarkPublishedError, Fault, outboxVars, brokerVars
  <2>2. Marking(f) \ {r} \subseteq Marking(f)' /\ Pending(f)' \subseteq Pending(f)
    BY <2>1, AdvanceCounts, Zenon
  <2>3. Copies(f)' = Copies(f)
    BY <2>1, Zenon DEF Copies
  <2> QED
    BY <1>2, <2>1, <2>2, <2>3, FaultStepAccounts, Zenon
<1> QED
  BY <1>1, <1>3, <1>4, <1>5, <1>6, <1>7, PublishAccounts, PublishErrorAccounts, MarkAccounts, Zenon
     DEF RelayStep, RelayRuns

\* So does every step that is not a relay's: the rows that relays hold keep
\* their ids and marks.
LEMMA OutsideStepAccounts ==
    ASSUME AccountedInv, RelayInv', UNCHANGED <<log, publishedAt, relayVars>>, faults <= faults',
           \A e \in Visible : rowId'[e] = rowId[e]
    PROVE  AccountedInv'
<1> SUFFICES ASSUME NEW f \in Events PROVE Accounted(f)'
  BY Zenon DEF AccountedInv
<1>1. \A s \in Relays : \A e \in todo[s] : e \in Visible
  BY Zenon DEF AccountedInv, RelayInv, TodoVisible
<1>2. \A s \in Relays : Current(s, f)' <=> Current(s, f)
  BY <1>1, Zenon DEF Current, relayVars
<1>3. Marking(f)' = Marking(f) /\ Pending(f)' = Pending(f) /\ Copies(f)' = Copies(f)
  BY <1>2, Zenon DEF Marking, Pending, Copies, relayVars
<1> QED
  BY <1>3, IdleStepAccounts, Zenon DEF AccountedInv, RelayInv

\* The account bounds the copies.
LEMMA AccountBounds == AccountedInv => DuplicateBound
<1> SUFFICES ASSUME AccountedInv, NEW e \in Events
             PROVE  Cardinality(Copies(e)) <= Cardinality(Relays) + faults
  BY Zenon DEF DuplicateBound
<1>1. /\ Cardinality(Copies(e)) \in Nat /\ Cardinality(Marking(e)) \in Nat
      /\ Cardinality(Pending(e)) \in Nat /\ Cardinality(Relays) \in Nat /\ faults \in Nat
  BY IsCountable, RelaysCountable, Zenon DEF Countable, AccountedInv, RelayInv
<1>2. Marking(e) \subseteq Relays
  BY Zenon DEF Marking
<1>3. Cardinality(Marking(e)) <= Cardinality(Relays)
  BY <1>2, RelayAssumption, FS_Subset, Zenon
<1> QED
  BY <1>1, <1>3 DEF AccountedInv, Accounted

\* Without a fault, an unmarked event is in the log only while some replica is
\* about to mark it.
LEMMA UnmarkedIsMarking ==
    ASSUME AccountedInv, NEW e \in Events, Logged(e), ~publishedAt[e], faults = 0
    PROVE  Marking(e) # {}
<1>1. /\ Cardinality(Copies(e)) \in Nat /\ IsFiniteSet(Copies(e))
      /\ Cardinality(Marking(e)) \in Nat
  BY IsCountable, Zenon DEF Countable, AccountedInv, RelayInv
<1>2. Cardinality(Copies(e)) # 0
  BY <1>1, FS_EmptySet, Zenon DEF Logged
<1>3. Cardinality(Marking(e)) # 0
  BY <1>1, <1>2 DEF AccountedInv, Accounted
<1> QED
  BY <1>3, FS_EmptySet, Zenon

\* Nothing is logged in the beginning.
LEMMA InitAccounts ==
    ASSUME RelayInv, OutboxInit, BrokerInit, RelayInit, faults = 0
    PROVE  AccountedInv
<1> SUFFICES ASSUME NEW e \in Events PROVE Accounted(e)
  BY Zenon DEF AccountedInv
<1>1. Copies(e) = {} /\ ~publishedAt[e]
  BY PartitionAssumption DEF BrokerInit, OutboxInit, Copies
<1>2. Cardinality(Copies(e)) = 0
  BY <1>1, FS_EmptySet, Zenon
<1>3. Cardinality(Marking(e)) \in Nat
  BY IsCountable DEF Countable, RelayInv
<1> QED
  BY <1>1, <1>2, <1>3 DEF Accounted

-----------------------------------------------------------------------------
(* The relays with the purchases and the broker. *)

\* RelaySystemInit establishes the inductive invariant.
LEMMA RelaySystemInitInv == RelaySystemInit => AccountedInv
<1> SUFFICES ASSUME RelaySystemInit PROVE AccountedInv
  OBVIOUS
<1>1. OutboxTypeOK /\ BrokerTypeOK
  BY DEF RelaySystemInit, OutboxInit, BrokerInit, OutboxTypeOK, BrokerTypeOK
<1>2. RelayTypeOK
  BY <1>1, FaultsAssumption DEF RelaySystemInit, RelayInit, RelayTypeOK
<1>3. \A e \in Events : ~Logged(e)
  BY PartitionAssumption DEF RelaySystemInit, BrokerInit, Logged, Copies
<1>4. RelayInv
  BY <1>2, <1>3 DEF RelaySystemInit, OutboxInit, RelayInit, RelayInv, IdsUnique, TodoVisible, MarkingIsLogged,
     PublishedIsLogged, OnlyOrdersLogged
<1> QED
  BY <1>4, InitAccounts DEF RelaySystemInit

\* Every step preserves it.
LEMMA RelaySystemNextInv == AccountedInv /\ [RelaySystemNext]_relaySystemVars => AccountedInv'
<1> SUFFICES ASSUME AccountedInv, [RelaySystemNext]_relaySystemVars PROVE AccountedInv'
  OBVIOUS
<1>0. RelayInv /\ faults \in Nat
  BY IsCountable, Zenon DEF AccountedInv, RelayInv, Countable
<1>1. ASSUME NEW e \in Events, OrderStep(e), UNCHANGED <<brokerVars, relayVars, faults>>
      PROVE  AccountedInv'
  <2>1. RelayInv'
    BY <1>0, <1>1, OrderStepPreserves, Zenon
  <2>2. UNCHANGED publishedAt /\ \A f \in Visible : rowId'[f] = rowId[f]
    BY <1>0, <1>1, Zenon DEF OrderStep, Enqueue, CommitOrder, RollbackOrder, Visible, RelayInv, RelayTypeOK,
       OutboxTypeOK
  <2> QED
    BY <1>0, <1>1, <2>1, <2>2, OutsideStepAccounts DEF brokerVars
<1>2. ASSUME NEW r \in Relays, RelayStep(r)
      PROVE  AccountedInv'
  BY <1>2, RelayStepAccounts
<1>3. CASE BrokerStep /\ UNCHANGED <<outboxVars, relayVars>>
  <2>1. RelayInv'
    BY <1>0, <1>3, BrokerStepPreserves, Zenon
  <2>2. UNCHANGED log /\ faults <= faults'
    BY <1>0, <1>3 DEF BrokerStep, BrokerFails, BrokerRecovers, Fault
  <2> QED
    BY <1>3, <2>1, <2>2, OutsideStepAccounts DEF outboxVars
<1>4. CASE UNCHANGED relaySystemVars
  <2>1. RelayInv'
    BY <1>0, <1>4, RelayInvFrame, Zenon DEF relaySystemVars
  <2> QED
    BY <1>0, <1>4, <2>1, OutsideStepAccounts DEF relaySystemVars, outboxVars, brokerVars
<1> QED
  BY <1>1, <1>2, <1>3, <1>4, Zenon DEF RelaySystemNext

\* AccountedInv holds throughout: types, distinct row ids, and every mark and
\* every log entry accounted for (relay.go drain and publish).
THEOREM AccountedInvHolds == RelaySafetySpec => []AccountedInv
BY RelaySystemInitInv, RelaySystemNextInv, PTL DEF RelaySafetySpec

\* For any number of replicas, an event is published at most once per replica
\* and once more per fault, although the replicas claim nothing (relay.go
\* publish).
THEOREM DuplicateBoundHolds == RelaySafetySpec => []DuplicateBound
BY AccountedInvHolds, AccountBounds, PTL

\* For any number of replicas, events, partitions and faults, a row marked
\* published has its event in the broker's log (relay.go publish).
THEOREM PublishedIsLoggedHolds == RelaySafetySpec => []PublishedIsLogged
<1>1. AccountedInv => PublishedIsLogged
  BY Zenon DEF AccountedInv, RelayInv
<1> QED
  BY <1>1, AccountedInvHolds, PTL

\* The broker never holds an event whose order did not commit (purchase.go,
\* Transaction: the event is enqueued with the order).
THEOREM OnlyOrdersLoggedHolds == RelaySafetySpec => []OnlyOrdersLogged
<1>1. AccountedInv => OnlyOrdersLogged
  BY DEF AccountedInv, RelayInv
<1> QED
  BY <1>1, AccountedInvHolds, PTL

\* A marked row that no relay holds is not scanned again and so never published
\* again (relay.go drain: only unpublished rows are scanned, only rows a relay
\* scanned are published).
THEOREM SettledStaysSettledHolds == RelaySafetySpec => SettledStaysSettled
<1> DEFINE Stays == \A e \in Events : Settled(e) => Settled(e)' /\ Copies(e)' = Copies(e)
<1>1. AccountedInv /\ [RelaySystemNext]_relaySystemVars => [Stays]_relaySystemVars
  <2> SUFFICES ASSUME RelayInv, RelaySystemNext, NEW f \in Events, Settled(f)
               PROVE  Settled(f)' /\ Copies(f)' = Copies(f)
    BY DEF AccountedInv
  <2>1. CASE UNCHANGED <<outboxVars, relayVars>> /\ UNCHANGED log
    BY <2>1 DEF Settled, Copies, outboxVars, relayVars
  <2>2. ASSUME NEW e \in Events, OrderStep(e), UNCHANGED <<brokerVars, relayVars, faults>>
        PROVE  Settled(f)' /\ Copies(f)' = Copies(f)
    BY <2>2 DEF Settled, Copies, OrderStep, Enqueue, CommitOrder, RollbackOrder, brokerVars, relayVars
  <2>3. ASSUME NEW r \in Relays, RelayStep(r)
        PROVE  Settled(f)' /\ Copies(f)' = Copies(f)
    <3> USE DEF RelayStep, RelayRuns, StartRelay, Tick, ScanError, Publish, PublishFails,
              PublishError, MarkPublished, MarkPublishedError, StopRelay, ExitRelay, CrashRelay
    <3>1. UNCHANGED log \/ \E e \in Events : e \in todo[r] /\ Produce(e)
      BY <2>3, Zenon DEF Scan, Current, brokerVars
    <3>2. ASSUME NEW e \in Events, e \in todo[r], Produce(e)
          PROVE  Copies(f)' = Copies(f)
      BY <3>2, ProduceLogs, Zenon DEF Settled, RelayInv, RelayTypeOK
    <3>3. Copies(f)' = Copies(f)
      BY <3>1, <3>2, ZenonT(30) DEF Copies
    <3>4. publishedAt'[f]
      BY <2>3 DEF Scan, SetPublishedAt, Settled, RelayInv, RelayTypeOK, OutboxTypeOK, outboxVars
    <3>5. ASSUME Scan(r), NEW q \in Relays
          PROVE  f \notin todo'[q]
      <4>1. f \notin GetUnpublished(BatchSize)
        BY DEF GetUnpublished, Settled
      <4> QED
        BY <3>5, <4>1, Zenon DEF Scan, Settled, RelayInv, RelayTypeOK
    <3>6. ASSUME ~Scan(r), NEW q \in Relays
          PROVE  f \notin todo'[q]
      <4>1. todo'[q] \subseteq todo[q]
        BY <2>3, <3>6, SMTT(30) DEF Advance, RelayInv, RelayTypeOK
      <4> QED
        BY <4>1, ZenonT(30) DEF Settled
    <3> QED
      BY <3>3, <3>4, <3>5, <3>6, Zenon DEF Settled
  <2>4. CASE BrokerStep /\ UNCHANGED <<outboxVars, relayVars>>
    BY <2>1, <2>4 DEF BrokerStep, BrokerFails, BrokerRecovers
  <2> QED
    BY <2>2, <2>3, <2>4 DEF RelaySystemNext
<1> QED
  BY <1>1, AccountedInvHolds, PTL DEF RelaySafetySpec, SettledStaysSettled

=============================================================================

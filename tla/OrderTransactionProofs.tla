----------------------- MODULE OrderTransactionProofs -----------------------
(***************************************************************************)
(* The purchase transaction keeps orders whole and implements the purchase *)
(* steps of the outbox, for any requests, rows and orders of the rows.     *)
(***************************************************************************)
EXTENDS OrderTransaction, TLAPS

\* The rows that may come first are among the rows, and there is one.
LEMMA ForemostIsNext ==
    ASSUME NEW w \in Writers, NEW rows \in SUBSET Rows
    PROVE  Foremost(w, rows) \subseteq rows
BY DEF Foremost

\* Init establishes the inductive invariant.
LEMMA InitInv == Init => TransactionInv
<1> SUFFICES ASSUME Init PROVE TransactionInv
  OBVIOUS
<1>1. commits = <<>> /\ DOMAIN commits = {} /\ commits \in Seq(Writers)
  BY DEF Init
<1>2. TransactionTypeOK
  BY <1>1 DEF Init, TransactionTypeOK
<1>3. LocksAreHeld
  BY TransactionAssumption DEF Init, LocksAreHeld, Open
<1>4. OutboxFollows
  BY DEF Init, OutboxFollows, Writers, Ended
<1>5. OrdersAreWhole
  BY <1>1 DEF Init, OrdersAreWhole
<1> QED
  BY <1>1, <1>2, <1>3, <1>4, <1>5 DEF Init, TransactionInv, CommitsOnce, Writers

\* BEGIN and a row written change nothing that is visible.
LEMMA RowsPreserve ==
    ASSUME TransactionInv, NEW w \in Writers, Begin(w) \/ WriteRow(w)
    PROVE  TransactionInv'
<1> USE DEF TransactionInv
<1>1. UNCHANGED <<stock, placed, commits, txn, rowId, nextId, unconfirmed, faults>>
  BY Zenon DEF Begin, WriteRow, tableVars, rowVars
<1>2. CASE Begin(w)
  <2>0. /\ Wants[w] \subseteq Rows /\ tpc[w] = "none" /\ UNCHANGED lock
        /\ tpc' = [tpc EXCEPT ![w] = "rows"]
        /\ left' = [left EXCEPT ![w] = Wants[w]]
        /\ \E r \in Wants[w] : at' = [at EXCEPT ![w] = r]
    <3>1. Wants[w] \subseteq Rows
      BY TransactionAssumption
    <3>2. Foremost(w, Wants[w]) \subseteq Wants[w]
      BY <3>1, ForemostIsNext
    <3> QED
      BY <1>2, <3>1, <3>2, Zenon DEF Begin
  <2>1. TransactionTypeOK'
    BY <1>1, <2>0 DEF TransactionTypeOK, Open
  <2>2. LocksAreHeld'
    <3>1. ASSUME NEW v \in Writers, NEW r \in Rows
          PROVE  lock'[r] = v <=> tpc'[v] \in Open /\ r \in Wants[v] \ left'[v]
      BY <2>0 DEF LocksAreHeld, TransactionTypeOK, Open
    <3>2. ASSUME NEW v \in Writers
          PROVE  /\ tpc'[v] = "rows" => at'[v] \in left'[v] /\ left'[v] \subseteq Wants[v]
                 /\ tpc'[v] \in Open \ {"rows"} => left'[v] = {}
      BY <2>0 DEF LocksAreHeld, TransactionTypeOK, Open
    <3> QED
      BY <3>1, <3>2 DEF LocksAreHeld
  <2>3. OutboxFollows'
    BY <1>1, <1>2, SMTT(30) DEF Begin, OutboxFollows, TransactionTypeOK, Ended, Writers
  <2>4. CommitsOnce'
    BY <1>1, <1>2 DEF Begin, CommitsOnce, TransactionTypeOK
  <2> QED
    BY <1>1, <1>2, <2>1, <2>2, <2>3, <2>4 DEF Begin, OrdersAreWhole, TransactionTypeOK, Writers
<1>3. CASE WriteRow(w)
  <2> DEFINE rest == left[w] \ {at[w]}
  <2>1. /\ at[w] \in left[w] /\ left[w] \subseteq Wants[w] /\ Wants[w] \subseteq Rows
        /\ tpc[w] = "rows" /\ lock[at[w]] = Nobody
        /\ lock' = [lock EXCEPT ![at[w]] = w]
        /\ left' = [left EXCEPT ![w] = rest]
    BY <1>3, TransactionAssumption, Zenon DEF WriteRow, RowWritten, LocksAreHeld
  <2>2. \/ /\ rest = {} /\ UNCHANGED at
           /\ tpc' = [tpc EXCEPT ![w] = IF w \in Events THEN "order" ELSE "commit"]
        \/ /\ UNCHANGED tpc
           /\ \E r \in rest : at' = [at EXCEPT ![w] = r]
    <3>1. Foremost(w, rest) \subseteq rest
      BY <2>1, ForemostIsNext
    <3> QED
      BY <1>3, <3>1, Zenon DEF WriteRow, RowWritten
  <2>3. TransactionTypeOK'
    BY <1>1, <2>1, <2>2, Zenon DEF TransactionTypeOK, Open
  <2>4. LocksAreHeld'
    <3>1. ASSUME NEW v \in Writers, NEW r \in Rows
          PROVE  lock'[r] = v <=> tpc'[v] \in Open /\ r \in Wants[v] \ left'[v]
      <4>1. CASE v = w
        BY <2>1, <2>2, <4>1 DEF LocksAreHeld, TransactionTypeOK, Open
      <4>2. CASE v # w
        BY <2>1, <2>2, <4>2, TransactionAssumption DEF LocksAreHeld, TransactionTypeOK, Open
      <4> QED
        BY <4>1, <4>2
    <3>2. ASSUME NEW v \in Writers
          PROVE  /\ tpc'[v] = "rows" => at'[v] \in left'[v] /\ left'[v] \subseteq Wants[v]
                 /\ tpc'[v] \in Open \ {"rows"} => left'[v] = {}
      <4>1. CASE v = w
        BY <2>1, <2>2, <4>1 DEF LocksAreHeld, TransactionTypeOK, Open
      <4>2. CASE v # w
        BY <2>1, <2>2, <4>2 DEF LocksAreHeld, TransactionTypeOK, Open
      <4> QED
        BY <4>1, <4>2, SMTT(30)
    <3> QED
      BY <3>1, <3>2 DEF LocksAreHeld
  <2>5. OutboxFollows'
    BY <1>1, <2>1, <2>2, ZenonT(30) DEF OutboxFollows, TransactionTypeOK, Ended, Writers
  <2>6. CommitsOnce'
    BY <1>1, <2>1, <2>2 DEF CommitsOnce, TransactionTypeOK
  <2>7. /\ \A v \in unconfirmed' : tpc'[v] \in {"error", "gone"}
        /\ \A v \in Restocks : tpc'[v] \notin {"order", "outbox"}
    BY <1>1, <2>1, <2>2, TransactionAssumption DEF TransactionTypeOK, Writers
  <2> QED
    BY <1>1, <2>3, <2>4, <2>5, <2>6, <2>7 DEF OrdersAreWhole
<1> QED
  BY <1>2, <1>3

\* The two inserts change nothing that is visible.
LEMMA InsertsPreserve ==
    ASSUME TransactionInv, NEW e \in Events, AddOrder(e) \/ AddOutboxItems(e)
    PROVE  TransactionInv'
<1> USE DEF TransactionInv
<1>1. UNCHANGED <<left, at, lock, stock, placed, commits, unconfirmed, faults>>
  BY DEF AddOrder, AddOutboxItems, tableVars, upsertVars
<1>2. /\ tpc[e] \in {"order", "outbox"} /\ txn[e] = "none"
      /\ tpc' = [tpc EXCEPT ![e] = IF tpc[e] = "order" THEN "outbox" ELSE "commit"]
      /\ txn' = IF tpc[e] = "order" THEN txn ELSE [txn EXCEPT ![e] = "open"]
  <2>1. tpc[e] \in {"order", "outbox"}
    BY DEF AddOrder, AddOutboxItems
  <2>2. txn[e] = "none"
    BY <2>1, Zenon DEF OutboxFollows
  <2> QED
    BY <2>1, <2>2 DEF AddOrder, AddOutboxItems
<1>3. TransactionTypeOK'
  <2>1. tpc' \in [Writers -> {"none"} \cup Open \cup Ended]
    BY <1>2 DEF TransactionTypeOK, Open, Writers
  <2>2. txn' \in [Events -> {"none", "open", "committed", "aborted"}]
    BY <1>2 DEF TransactionTypeOK
  <2>3. rowId' \in [Events -> Nat] /\ nextId' \in Nat
    BY DEF AddOrder, AddOutboxItems, TransactionTypeOK, rowVars
  <2> QED
    BY <1>1, <2>1, <2>2, <2>3, Zenon DEF TransactionTypeOK
<1>4. LocksAreHeld'
  BY <1>1, <1>2 DEF LocksAreHeld, TransactionTypeOK, Open
<1>5. OutboxFollows'
  BY <1>2 DEF OutboxFollows, TransactionTypeOK, Ended, Writers
<1>6. CommitsOnce'
  BY <1>1, <1>2 DEF CommitsOnce, TransactionTypeOK
<1>7. /\ \A v \in unconfirmed' : tpc'[v] \in {"error", "gone"}
      /\ \A v \in Restocks : tpc'[v] \notin {"order", "outbox"}
  BY <1>1, <1>2, TransactionAssumption, Zenon DEF TransactionTypeOK, Writers
<1>8. OrdersAreWhole'
  BY <1>1, <1>2 DEF OrdersAreWhole, TransactionTypeOK
<1> QED
  BY <1>3, <1>4, <1>5, <1>6, <1>7, <1>8

\* The locks of a transaction that ends are the only ones released.
LEMMA UnlockPreserves ==
    ASSUME TransactionInv, NEW w \in Writers, tpc[w] \in Open, Unlock(w), UNCHANGED upsertVars,
           NEW a \in Ended, tpc' = [tpc EXCEPT ![w] = a]
    PROVE  LocksAreHeld' /\ lock' \in [Rows -> Writers \cup {Nobody}]
BY TransactionAssumption DEF TransactionInv, LocksAreHeld, TransactionTypeOK, Unlock, upsertVars, Open, Ended

\* A ROLLBACK leaves what is visible as it was.
LEMMA RollbackPreserves ==
    ASSUME TransactionInv, NEW w \in Writers, Rollback(w), faults' \in Nat,
           NEW a \in {"error", "gone"}, tpc' = [tpc EXCEPT ![w] = a]
    PROVE  TransactionInv'
<1> USE DEF TransactionInv
<1>1. /\ UNCHANGED <<left, at, stock, placed, commits, rowId, nextId, unconfirmed>>
      /\ tpc[w] \in Open
  BY Zenon DEF Rollback, upsertVars, tableVars, rowVars
<1>2. LocksAreHeld' /\ lock' \in [Rows -> Writers \cup {Nobody}]
  BY UnlockPreserves, Zenon DEF Rollback, Ended
<1>3. TransactionTypeOK'
  BY <1>1, <1>2 DEF Rollback, TransactionTypeOK, Ended
<1>4. w \notin unconfirmed
  BY <1>1 DEF Open
<1>5. OutboxFollows'
  BY <1>1 DEF OutboxFollows, Rollback, TransactionTypeOK, Open, Ended, Writers
<1>6. CommitsOnce'
  BY <1>1, <1>4 DEF CommitsOnce, TransactionTypeOK, Open
<1>7. \A e \in Events : txn'[e] = "committed" <=> txn[e] = "committed"
  BY DEF Rollback
<1>8. OrdersAreWhole'
  BY <1>1, <1>7 DEF OrdersAreWhole
<1> QED
  BY <1>1, <1>3, <1>2, <1>5, <1>6, <1>8, Zenon DEF TransactionTypeOK, Writers

\* COMMIT makes all of a transaction visible and nothing else.
LEMMA CommitPreserves ==
    ASSUME TransactionInv, NEW w \in Writers, Committed(w), faults' \in Nat,
           NEW a \in Ended, tpc' = [tpc EXCEPT ![w] = a],
           unconfirmed' = IF a = "ok" THEN unconfirmed ELSE unconfirmed \cup {w}
    PROVE  TransactionInv'
<1> USE DEF TransactionInv
<1> DEFINE n == Len(commits)
<1>1. /\ UNCHANGED <<left, at, rowId, nextId>>
      /\ tpc[w] = "commit" /\ commits' = Append(commits, w) /\ commits \in Seq(Writers) /\ n \in Nat
  BY DEF Committed, upsertVars, rowVars, TransactionTypeOK
<1>2. LocksAreHeld' /\ lock' \in [Rows -> Writers \cup {Nobody}]
  BY UnlockPreserves, Zenon DEF Committed, Open
<1>3. /\ commits' \in Seq(Writers)
      /\ DOMAIN commits = 1 .. n /\ DOMAIN commits' = 1 .. n + 1
      /\ commits'[n + 1] = w
      /\ \A i \in 1 .. n : commits'[i] = commits[i]
  BY <1>1, SMTT(30)
<1>4. TransactionTypeOK'
  BY <1>1, <1>2, <1>3, SMTT(30) DEF Committed, TransactionTypeOK, Ended
<1>5. OutboxFollows'
  BY <1>1 DEF OutboxFollows, Committed, TransactionTypeOK, Ended, Writers
<1>6. \A v \in Writers : (\E i \in DOMAIN commits' : commits'[i] = v)
                            <=> v = w \/ \E i \in DOMAIN commits : commits[i] = v
  BY <1>1, <1>3, SMTT(30)
<1>7. CommitsOnce'
  BY <1>1, <1>6, SMTT(30) DEF CommitsOnce, TransactionTypeOK, Ended
<1>8. OrdersAreWhole'
  <2>1. \A r \in Rows : lock[r] = w <=> r \in Wants[w]
    BY <1>1, Zenon DEF LocksAreHeld, Open
  <2>2. ASSUME NEW e \in Events
        PROVE  /\ e \in placed' <=> txn'[e] = "committed"
               /\ e \in placed' <=> \E i \in DOMAIN commits' : commits'[i] = e
    BY <1>6, Zenon DEF OrdersAreWhole, Committed, Writers
  <2>3. ASSUME NEW r \in Rows
        PROVE  \/ /\ stock'[r] = Nobody
                  /\ \A i \in DOMAIN commits' : r \notin Wants[commits'[i]]
               \/ \E i \in DOMAIN commits' :
                     /\ stock'[r] = commits'[i]
                     /\ r \in Wants[commits'[i]]
                     /\ \A j \in DOMAIN commits' : j > i => r \notin Wants[commits'[j]]
    <3>1. CASE r \in Wants[w]
      <4>1. stock'[r] = commits'[n + 1] /\ r \in Wants[commits'[n + 1]]
        BY <1>3, <2>1, <3>1 DEF Committed
      <4>2. \A j \in DOMAIN commits' : ~(j > n + 1)
        BY <1>1, <1>3
      <4> QED
        BY <1>1, <1>3, <4>1, <4>2, SMTT(30)
    <3>2. CASE r \notin Wants[w]
      <4>1. stock'[r] = stock[r]
        BY <2>1, <3>2, Zenon DEF Committed
      <4>2. CASE stock[r] = Nobody /\ \A i \in DOMAIN commits : r \notin Wants[commits[i]]
        BY <1>1, <1>3, <3>2, <4>1, <4>2
      <4>3. ASSUME NEW i \in DOMAIN commits, stock[r] = commits[i], r \in Wants[commits[i]],
                   \A j \in DOMAIN commits : j > i => r \notin Wants[commits[j]]
            PROVE  /\ i \in DOMAIN commits' /\ stock'[r] = commits'[i] /\ r \in Wants[commits'[i]]
                   /\ \A j \in DOMAIN commits' : j > i => r \notin Wants[commits'[j]]
        BY <1>1, <1>3, <3>2, <4>1, <4>3
      <4> QED
        BY <4>2, <4>3, Zenon DEF OrdersAreWhole
    <3> QED
      BY <3>1, <3>2, Zenon
  <2> QED
    BY <2>2, <2>3 DEF OrdersAreWhole
<1> QED
  BY <1>1, <1>2, <1>4, <1>5, <1>7, <1>8, Zenon DEF TransactionTypeOK, Ended, Writers

\* Every step preserves the invariant.
LEMMA NextInv == TransactionInv /\ [Next]_vars => TransactionInv'
<1> SUFFICES ASSUME TransactionInv, [Next]_vars PROVE TransactionInv'
  OBVIOUS
<1>0. faults \in Nat
  BY DEF TransactionInv, TransactionTypeOK
<1>1. ASSUME NEW w \in Writers, Begin(w) \/ WriteRow(w) PROVE TransactionInv'
  BY <1>1, RowsPreserve
<1>2. ASSUME NEW w \in Events, AddOrder(w) \/ AddOutboxItems(w) PROVE TransactionInv'
  BY <1>2, InsertsPreserve
<1>3. ASSUME NEW w \in Writers, Commit(w) PROVE TransactionInv'
  BY <1>0, <1>3, CommitPreserves, Zenon DEF Commit, Ended
<1>4. ASSUME NEW w \in Writers, CommitUnconfirmed(w) PROVE TransactionInv'
  <2>1. PICK a \in {"error", "gone"} : tpc' = [tpc EXCEPT ![w] = a]
    BY <1>4, Zenon DEF CommitUnconfirmed
  <2>2. a \in Ended /\ a # "ok" /\ faults' \in Nat
    BY <1>0, <1>4 DEF CommitUnconfirmed, Fault, Ended
  <2> QED
    BY <1>0, <1>4, <2>1, <2>2, CommitPreserves, Zenon DEF CommitUnconfirmed
<1>5. ASSUME NEW w \in Writers, Fail(w) \/ Crash(w) \/ BreakDeadlock(w) PROVE TransactionInv'
  BY <1>0, <1>5, RollbackPreserves, SMTT(30) DEF Fail, Crash, BreakDeadlock, Fault
<1>6. CASE UNCHANGED vars
  BY <1>6 DEF vars, upsertVars, tableVars, rowVars, TransactionInv, TransactionTypeOK, LocksAreHeld,
     OutboxFollows, CommitsOnce, OrdersAreWhole
<1> QED
  BY <1>1, <1>2, <1>3, <1>4, <1>5, <1>6 DEF Next, Proceed

\* TransactionInv holds throughout.
THEOREM TransactionInvHolds == SafetySpec => []TransactionInv
BY InitInv, NextInv, PTL DEF SafetySpec

\* Order, event and quantities become visible together, and commits take effect
\* one after the other (purchase.go, the transaction).
THEOREM OrdersAreWholeHolds == SafetySpec => []OrdersAreWhole
<1>1. TransactionInv => OrdersAreWhole
  BY DEF TransactionInv
<1> QED
  BY <1>1, TransactionInvHolds, PTL

\* The answer of a request tells its outcome, unless the acknowledgement of the
\* COMMIT was lost (purchase.go after Transaction).
THEOREM AnswerIsOutcomeHolds == SafetySpec => []AnswerIsOutcome
<1>1. TransactionInv => AnswerIsOutcome
  BY DEF TransactionInv, CommitsOnce, AnswerIsOutcome
<1> QED
  BY <1>1, TransactionInvHolds, PTL

\* The statements of the transaction implement the purchase steps of module
\* OutboxStore, on which the event pipeline is built (purchase.go).
THEOREM FillsOutboxHolds == SafetySpec => FillsOutbox
<1>1. Init => Outbox!OutboxInit
  BY DEF Init, Outbox!OutboxInit
<1>2. TransactionInv /\ [Next]_vars => [\E e \in Events : Outbox!OrderStep(e)]_(Outbox!outboxVars)
  <2> SUFFICES ASSUME TransactionInv, [Next]_vars
               PROVE  (\E e \in Events : Outbox!OrderStep(e)) \/ UNCHANGED Outbox!outboxVars
    OBVIOUS
  <2>1. txn \in [Events -> {"none", "open", "committed", "aborted"}]
    BY DEF TransactionInv, TransactionTypeOK
  <2>2. ASSUME UNCHANGED <<txn, rowId, nextId>> PROVE UNCHANGED Outbox!outboxVars
    BY <2>2 DEF Outbox!outboxVars
  <2>3. ASSUME NEW e \in Events, AddOutboxItems(e) PROVE Outbox!OrderStep(e)
    BY <2>3 DEF AddOutboxItems, TransactionInv, OutboxFollows, Outbox!OrderStep, Outbox!Enqueue
  <2>4. ASSUME NEW w \in Writers, Committed(w)
        PROVE  (\E e \in Events : Outbox!OrderStep(e)) \/ UNCHANGED Outbox!outboxVars
    <3>1. UNCHANGED <<rowId, nextId>> /\ txn' = [e \in Events |-> IF e = w THEN "committed" ELSE txn[e]]
      BY <2>4 DEF Committed, rowVars
    <3>2. CASE w \in Events
      <4>1. txn[w] = "open"
        BY <2>4, <3>2 DEF Committed, TransactionInv, OutboxFollows
      <4>2. Outbox!CommitOrder(w)
        BY <2>1, <3>1, <3>2, <4>1, Zenon DEF Outbox!CommitOrder
      <4> QED
        BY <3>2, <4>2, ZenonT(30) DEF Outbox!OrderStep
    <3>3. CASE w \notin Events
      BY <2>1, <2>2, <3>1, <3>3
    <3> QED
      BY <3>2, <3>3, Zenon
  <2>5. ASSUME NEW w \in Writers, Rollback(w)
        PROVE  (\E e \in Events : Outbox!OrderStep(e)) \/ UNCHANGED Outbox!outboxVars
    <3>1. /\ UNCHANGED <<rowId, nextId>>
          /\ txn' = [e \in Events |-> IF e = w /\ txn[e] = "open" THEN "aborted" ELSE txn[e]]
      BY <2>5, Zenon DEF Rollback, rowVars
    <3>2. CASE w \in Events /\ txn[w] = "open"
      <4>1. Outbox!RollbackOrder(w)
        BY <2>1, <3>1, <3>2, Zenon DEF Outbox!RollbackOrder
      <4> QED
        BY <3>2, <4>1 DEF Outbox!OrderStep
    <3>3. CASE ~(w \in Events /\ txn[w] = "open")
      BY <2>1, <2>2, <3>1, <3>3
    <3> QED
      BY <3>2, <3>3
  <2>6. ASSUME NEW w \in Writers, Begin(w) \/ WriteRow(w) \/ AddOrder(w)
        PROVE  UNCHANGED <<txn, rowId, nextId>>
    BY <2>6 DEF Begin, WriteRow, AddOrder, rowVars
  <2>7. CASE UNCHANGED vars
    BY <2>2, <2>7 DEF vars, rowVars
  <2> QED
    BY <2>2, <2>3, <2>4, <2>5, <2>6, <2>7 DEF Next, Proceed, Commit, CommitUnconfirmed, Fail, Crash,
       BreakDeadlock
<1> QED
  BY <1>1, <1>2, TransactionInvHolds, PTL DEF SafetySpec, FillsOutbox

=============================================================================

--------------------------- MODULE StartupProofs ---------------------------
(***************************************************************************)
(* What nodes that start, restart and crash on shared databases do to the  *)
(* tables and rows: StartupInv and OrdersHaveEvents are inductive together *)
(* and RowsSurvive follows from them, for any nodes, configurations,       *)
(* events and number of faults.                                            *)
(***************************************************************************)
EXTENDS Startup, TLAPS

\* The three tables of storage, by index (database.go newStorage).
LEMMA TableFacts ==
    /\ Tables[1] = "inventory" /\ Tables[2] = "orders" /\ Tables[3] = "outbox"
    /\ {Tables[i] : i \in 1 .. 3} = TableNames
    /\ \A i \in 1 .. 3 : Tables[i] \in TableNames
    /\ \A i, j \in 1 .. 3 : Tables[i] = Tables[j] => i = j
<1>1. \A i \in 1 .. 3 : i = 1 \/ i = 2 \/ i = 3
    OBVIOUS
<1>2. Tables[1] = "inventory" /\ Tables[2] = "orders" /\ Tables[3] = "outbox"
    BY DEF Tables
<1>3. {Tables[i] : i \in 1 .. 3} = TableNames
    BY <1>1, <1>2 DEF TableNames
<1> QED
    BY <1>1, <1>2, <1>3 DEF TableNames

\* A node keeps its tables in one of the databases, and the memory of a node
\* is used by that node only (service.go openDatabase).
LEMMA StoreFacts ==
    ASSUME StartupTypeOK, NEW n \in Nodes
    PROVE  /\ StoreOf(n) \in Stores
           /\ \A m \in Nodes : StoreOf(n) = m => m = n
           /\ n \in Stores /\ n \notin {"postgres", "file"}
BY StartupAssumption DEF StartupTypeOK, StoreOf, Stores

\* Where a node keeps its tables never changes.
LEMMA StoreUnchanged ==
    ASSUME UNCHANGED cfg
    PROVE  /\ \A n : StoreOf(n)' = StoreOf(n) /\ Recreates(n)' = Recreates(n) /\ Alone(n)' = Alone(n)
           /\ \A s : Kept(s)' = Kept(s)
BY DEF StoreOf, Recreates, Alone, Kept

-----------------------------------------------------------------------------
(* Types. *)

\* A node that exits or turns to the next table stays within the types.
LEMMA ExitsTypes ==
    ASSUME StartupTypeOK, NEW n \in Nodes, Exits(n), UNCHANGED <<cfg, dbUp, brokerUp>>
    PROVE  StartupTypeOK'
<1>1. NoRows \in [TableNames -> SUBSET Events]
    BY DEF NoRows
<1>2. n \in Stores
    BY DEF Stores
<1> QED
    BY <1>1, <1>2 DEF StartupTypeOK, Exits

LEMMA NextTableTypes ==
    ASSUME StartupTypeOK, NEW n \in Nodes, NEW here, NEW then, NextTable(n, here, then),
           {here, then} \subseteq {"drop", "check", "start"}
    PROVE  /\ bpc' \in [Nodes -> {"down", "drop", "check", "create", "start", "serving"}]
           /\ table' \in [Nodes -> 1 .. 3]
BY DEF StartupTypeOK, NextTable

\* A purchase adds its event to two tables of one database.
LEMMA PurchaseRows ==
    ASSUME StartupTypeOK, NEW n \in Nodes, NEW e \in Events, PurchaseItems(n, e)
    PROVE  /\ rows' \in [Stores -> [TableNames -> SUBSET Events]]
           /\ \A s \in Stores, t \in TableNames :
                 rows'[s][t] = IF s = StoreOf(n) /\ t \in {"orders", "outbox"}
                               THEN rows[s][t] \cup {e} ELSE rows[s][t]
<1>1. StoreOf(n) \in Stores
    BY StoreFacts
<1> QED
    BY <1>1 DEF StartupTypeOK, PurchaseItems, TableNames

\* Every step keeps the types.
LEMMA TypesStep ==
    ASSUME StartupTypeOK, [Next]_vars
    PROVE  StartupTypeOK'
<1>1. CASE UNCHANGED vars
    BY <1>1 DEF StartupTypeOK, vars, nodeVars, storeVars
<1>2. ASSUME NEW n \in Nodes, OpenDatabase(n)
      PROVE  StartupTypeOK'
    BY <1>2 DEF StartupTypeOK, OpenDatabase, storeVars
<1>3. ASSUME NEW n \in Nodes, DropTable(n)
      PROVE  StartupTypeOK'
    <2>1. StoreOf(n) \in Stores /\ Tables[table[n]] \in TableNames
        BY StoreFacts, TableFacts DEF StartupTypeOK
    <2>2. exists' \in [Stores -> SUBSET TableNames]
        BY <1>3, <2>1 DEF StartupTypeOK, DropTable
    <2>3. rows' \in [Stores -> [TableNames -> SUBSET Events]]
        BY <1>3, <2>1 DEF StartupTypeOK, DropTable
    <2> QED
        BY <1>3, <2>2, <2>3, NextTableTypes DEF StartupTypeOK, DropTable
<1>4. ASSUME NEW n \in Nodes, HasTable(n)
      PROVE  StartupTypeOK'
    <2>1. CASE NextTable(n, "check", "start")
        BY <1>4, <2>1, NextTableTypes DEF StartupTypeOK, HasTable, storeVars
    <2>2. CASE bpc' = [bpc EXCEPT ![n] = "create"] /\ UNCHANGED table
        BY <1>4, <2>2 DEF StartupTypeOK, HasTable, storeVars
    <2> QED
        BY <1>4, <2>1, <2>2 DEF HasTable
<1>5. ASSUME NEW n \in Nodes, CreateTable(n)
      PROVE  StartupTypeOK'
    <2>1. CASE Exits(n)
        BY <1>5, <2>1, ExitsTypes DEF CreateTable
    <2>2. CASE ~Exits(n)
        <3>1. StoreOf(n) \in Stores /\ Tables[table[n]] \in TableNames
            BY StoreFacts, TableFacts DEF StartupTypeOK
        <3>2. exists' \in [Stores -> SUBSET TableNames]
            BY <1>5, <2>2, <3>1 DEF StartupTypeOK, CreateTable
        <3> QED
            BY <1>5, <2>2, <3>2, NextTableTypes DEF StartupTypeOK, CreateTable
    <2> QED
        BY <2>1, <2>2
<1>6. ASSUME NEW n \in Nodes, MigrateFails(n) \/ SinkFails(n) \/ Crash(n)
      PROVE  StartupTypeOK'
    BY <1>6, ExitsTypes DEF MigrateFails, SinkFails, Crash
<1>7. ASSUME NEW n \in Nodes, StartService(n)
      PROVE  StartupTypeOK'
    <2>1. CASE Exits(n)
        BY <1>7, <2>1, ExitsTypes DEF StartService
    <2>2. CASE ~Exits(n)
        BY <1>7, <2>2, Zenon DEF StartupTypeOK, StartService, storeVars
    <2> QED
        BY <2>1, <2>2
<1>8. ASSUME NEW n \in Nodes, NEW e \in Events, PurchaseItems(n, e)
      PROVE  StartupTypeOK'
    BY <1>8, PurchaseRows, Zenon DEF StartupTypeOK, PurchaseItems, nodeVars
<1>9. CASE OutageStep
    BY <1>9, Zenon DEF StartupTypeOK, OutageStep, nodeVars, storeVars
<1> QED
    BY <1>1, <1>2, <1>3, <1>4, <1>5, <1>6, <1>7, <1>8, <1>9 DEF Next, NodeRuns

-----------------------------------------------------------------------------
(* The clauses of StartupInv, node by node. *)

DropsOnPurpose(m) == bpc[m] = "drop" => Recreates(m)

MigratedIsThere(m) == Kept(StoreOf(m)) => Migrated(m) \subseteq exists[StoreOf(m)]

DroppedIsEmpty(m) ==
    bpc[m] = "drop" /\ Alone(m)
        => \A i \in 1 .. 3 : i < table[m] => rows[StoreOf(m)][Tables[i]] = {}

LEMMA StartupInvByNode ==
    StartupInv <=> /\ StartupTypeOK
                   /\ \A m \in Nodes : DropsOnPurpose(m) /\ MigratedIsThere(m) /\ DroppedIsEmpty(m)
BY DEF StartupInv, DropsOnPurpose, MigratedIsThere, DroppedIsEmpty

\* A process that has exited has migrated nothing and drops nothing.
LEMMA DownClauses ==
    ASSUME NEW m \in Nodes, bpc[m] = "down"
    PROVE  DropsOnPurpose(m) /\ MigratedIsThere(m) /\ DroppedIsEmpty(m)
<1>1. Migrated(m) = {}
    BY Zenon DEF Migrated
<1> QED
    BY <1>1 DEF DropsOnPurpose, MigratedIsThere, DroppedIsEmpty

\* A step that leaves the database of m, the state of m, or what it needs of
\* both, alone keeps the clauses of m.
LEMMA FrameClauses ==
    ASSUME NEW m \in Nodes, UNCHANGED cfg, bpc'[m] = bpc[m], table'[m] = table[m],
           Kept(StoreOf(m)) => exists[StoreOf(m)] \subseteq exists'[StoreOf(m)],
           Alone(m) /\ bpc[m] = "drop"
              => \A t \in TableNames : rows'[StoreOf(m)][t] \subseteq rows[StoreOf(m)][t],
           DropsOnPurpose(m), MigratedIsThere(m), DroppedIsEmpty(m)
    PROVE  DropsOnPurpose(m)' /\ MigratedIsThere(m)' /\ DroppedIsEmpty(m)'
<1>1. /\ StoreOf(m)' = StoreOf(m) /\ Recreates(m)' = Recreates(m) /\ Alone(m)' = Alone(m)
      /\ Kept(StoreOf(m))' = Kept(StoreOf(m))
    BY StoreUnchanged, Zenon
<1>2. Migrated(m)' = Migrated(m)
    BY Zenon DEF Migrated
<1>3. DropsOnPurpose(m)' /\ MigratedIsThere(m)'
    BY <1>1, <1>2, Zenon DEF DropsOnPurpose, MigratedIsThere
<1>4. DroppedIsEmpty(m)'
    BY <1>1, TableFacts DEF DroppedIsEmpty
<1> QED
    BY <1>3, <1>4

\* A process that exits takes nothing but its own memory with it
\* (cmd/orders.go, cmd/notifier.go).
LEMMA ExitsClauses ==
    ASSUME StartupInv, NEW n \in Nodes, Exits(n), UNCHANGED cfg, StartupTypeOK'
    PROVE  StartupInv'
<1>1. SUFFICES ASSUME NEW m \in Nodes
               PROVE  DropsOnPurpose(m)' /\ MigratedIsThere(m)' /\ DroppedIsEmpty(m)'
    BY Zenon DEF StartupInv, DropsOnPurpose, MigratedIsThere, DroppedIsEmpty
<1>2. CASE m = n
    <2>1. bpc'[m] = "down"
        BY <1>2 DEF Exits, StartupInv, StartupTypeOK
    <2>2. Migrated(m)' = {}
        BY <2>1, Zenon DEF Migrated
    <2> QED
        BY <2>1, <2>2 DEF DropsOnPurpose, MigratedIsThere, DroppedIsEmpty
<1>3. CASE m # n
    <2>1. bpc'[m] = bpc[m] /\ table'[m] = table[m]
        BY <1>3 DEF Exits, StartupInv, StartupTypeOK
    <2>2. StoreOf(m) \in Stores /\ StoreOf(m) # n
        BY <1>3, StoreFacts, Zenon DEF StartupInv
    <2>3. exists'[StoreOf(m)] = exists[StoreOf(m)] /\ rows'[StoreOf(m)] = rows[StoreOf(m)]
        BY <2>2, Zenon DEF Exits, StartupInv, StartupTypeOK
    <2> QED
        BY <2>1, <2>3, FrameClauses, StartupInvByNode, Zenon
<1> QED
    BY <1>2, <1>3, Zenon

\* Every step keeps the invariant: the tables and rows of a database change
\* by the hand of a node that uses it, and disappear only where a node
\* recreates them.
LEMMA StartupInvStep ==
    ASSUME StartupInv, [Next]_vars
    PROVE  StartupInv'
<1> USE DEF StartupInv
<1>1. StartupTypeOK /\ StartupTypeOK'
    BY TypesStep, Zenon
<1>2. \A m \in Nodes : /\ DropsOnPurpose(m) /\ MigratedIsThere(m) /\ DroppedIsEmpty(m)
                        /\ StoreOf(m) \in Stores
    BY StartupInvByNode, StoreFacts, Zenon
<1> DEFINE Clauses(m) == DropsOnPurpose(m)' /\ MigratedIsThere(m)' /\ DroppedIsEmpty(m)'
<1>3. SUFFICES \/ StartupInv'
               \/ UNCHANGED cfg /\ \A m \in Nodes : Clauses(m)
    BY <1>1, Zenon DEF DropsOnPurpose, MigratedIsThere, DroppedIsEmpty
<1> HIDE DEF StartupInv
<1>4. ASSUME UNCHANGED <<cfg, nodeVars, exists>>,
             \A m \in Nodes : bpc[m] = "drop" /\ Alone(m) => rows'[StoreOf(m)] = rows[StoreOf(m)]
      PROVE  \A m \in Nodes : Clauses(m)
    BY <1>2, <1>4, FrameClauses DEF nodeVars
<1>5. CASE UNCHANGED vars \/ OutageStep
    <2>1. UNCHANGED <<cfg, nodeVars, exists, rows>>
        BY <1>5, Zenon DEF vars, OutageStep, storeVars
    <2> QED
        BY <1>4, <2>1
<1>6. ASSUME NEW n \in Nodes, NEW e \in Events, PurchaseItems(n, e)
      PROVE  UNCHANGED cfg /\ \A m \in Nodes : Clauses(m)
    <2>1. UNCHANGED <<cfg, nodeVars, exists>> /\ bpc[n] = "serving"
        BY <1>6, Zenon DEF PurchaseItems
    <2>2. ASSUME NEW m \in Nodes, bpc[m] = "drop", Alone(m)
          PROVE  rows'[StoreOf(m)] = rows[StoreOf(m)]
        <3>1. StoreOf(n) # StoreOf(m)
            BY <2>1, <2>2 DEF Alone
        <3> QED
            BY <1>1, <1>2, <1>6, <3>1 DEF PurchaseItems, StartupTypeOK
    <2> QED
        BY <1>4, <2>1, <2>2, Zenon
<1>7. ASSUME NEW n \in Nodes, Exits(n), UNCHANGED cfg
      PROVE  StartupInv'
    BY <1>1, <1>7, ExitsClauses
<1>8. ASSUME NEW n \in Nodes, UNCHANGED <<cfg, storeVars>>,
             \A m \in Nodes \ {n} : bpc'[m] = bpc[m] /\ table'[m] = table[m],
             Clauses(n)
      PROVE  \A m \in Nodes : Clauses(m)
    <2>1. ASSUME NEW m \in Nodes \ {n}
          PROVE  Clauses(m)
        BY <1>2, <1>8, FrameClauses, Zenon DEF storeVars
    <2> QED
        BY <1>8, <2>1, Zenon
<1>9. ASSUME NEW n \in Nodes, OpenDatabase(n)
      PROVE  UNCHANGED cfg /\ \A m \in Nodes : Clauses(m)
    <2>1. /\ UNCHANGED <<cfg, storeVars>> /\ table'[n] = 1
          /\ bpc'[n] = (IF Recreates(n) THEN "drop" ELSE "check")
          /\ \A m \in Nodes \ {n} : bpc'[m] = bpc[m] /\ table'[m] = table[m]
        BY <1>1, <1>9, Zenon DEF OpenDatabase, StartupTypeOK
    <2>2. Recreates(n)' = Recreates(n)
        BY <2>1, StoreUnchanged
    <2>3. Migrated(n)' = {}
        BY <2>1 DEF Migrated
    <2>4. Clauses(n)
        BY <2>1, <2>2, <2>3 DEF DropsOnPurpose, MigratedIsThere, DroppedIsEmpty
    <2> QED
        BY <1>8, <2>1, <2>4, Zenon
<1>10. ASSUME NEW n \in Nodes, HasTable(n)
       PROVE  UNCHANGED cfg /\ \A m \in Nodes : Clauses(m)
    <2>1. /\ UNCHANGED <<cfg, storeVars>> /\ bpc[n] = "check" /\ bpc'[n] # "drop"
          /\ \A m \in Nodes \ {n} : bpc'[m] = bpc[m] /\ table'[m] = table[m]
        BY <1>1, <1>10, Zenon DEF HasTable, NextTable, StartupTypeOK
    <2>2. Migrated(n)' \subseteq Migrated(n) \cup (IF Tables[table[n]] \in exists[StoreOf(n)]
                                                   THEN {Tables[table[n]]} ELSE {})
        <3>1. CASE Tables[table[n]] \in exists[StoreOf(n)] /\ table[n] < 3
            <4>1. bpc'[n] = "check" /\ table'[n] = table[n] + 1
                BY <1>1, <1>10, <3>1, Zenon DEF HasTable, NextTable, StartupTypeOK
            <4>2. \A j \in 1 .. 3 : j < table'[n] => j < table[n] \/ j = table[n]
                BY <1>1, <4>1 DEF StartupTypeOK
            <4> QED
                BY <2>1, <3>1, <4>1, <4>2, Zenon DEF Migrated
        <3>2. CASE Tables[table[n]] \in exists[StoreOf(n)] /\ ~(table[n] < 3)
            <4>1. \A j \in 1 .. 3 : j < table[n] \/ j = table[n]
                BY <1>1, <3>2, SMTT(30) DEF StartupTypeOK
            <4> QED
                BY <2>1, <3>2, <4>1, Zenon DEF Migrated
        <3>3. CASE Tables[table[n]] \notin exists[StoreOf(n)]
            <4>1. bpc'[n] = "create" /\ table'[n] = table[n]
                BY <1>1, <1>10, <3>3 DEF HasTable, StartupTypeOK
            <4> QED
                BY <2>1, <4>1 DEF Migrated
        <3> QED
            BY <3>1, <3>2, <3>3, Zenon
    <2>3. MigratedIsThere(n)'
        BY <1>2, <2>1, <2>2, StoreUnchanged DEF MigratedIsThere, storeVars
    <2>4. Clauses(n)
        BY <2>1, <2>3 DEF DropsOnPurpose, DroppedIsEmpty
    <2> QED
        BY <1>8, <2>1, <2>4, Zenon
<1>11. ASSUME NEW n \in Nodes, StartService(n), ~Exits(n)
       PROVE  UNCHANGED cfg /\ \A m \in Nodes : Clauses(m)
    <2>1. /\ UNCHANGED <<cfg, storeVars>> /\ bpc[n] = "start" /\ bpc'[n] = "serving"
          /\ \A m \in Nodes \ {n} : bpc'[m] = bpc[m] /\ table'[m] = table[m]
        BY <1>1, <1>11, Zenon DEF StartService, StartupTypeOK
    <2>2. Migrated(n)' = Migrated(n)
        BY <2>1, Zenon DEF Migrated
    <2>3. Clauses(n)
        BY <1>2, <2>1, <2>2, StoreUnchanged, Zenon DEF MigratedIsThere, DropsOnPurpose, DroppedIsEmpty, storeVars
    <2> QED
        BY <1>8, <2>1, <2>3
<1>12. ASSUME NEW n \in Nodes, CreateTable(n), ~Exits(n)
       PROVE  UNCHANGED cfg /\ \A m \in Nodes : Clauses(m)
    <2> DEFINE t == Tables[table[n]]
    <2>1. /\ UNCHANGED <<cfg, rows>> /\ bpc[n] = "create" /\ NextTable(n, "check", "start")
          /\ exists' = [exists EXCEPT ![StoreOf(n)] = @ \cup {t}]
        BY <1>12, Zenon DEF CreateTable
    <2>2. \A s \in Stores : exists[s] \subseteq exists'[s]
        BY <1>1, <2>1, Zenon DEF StartupTypeOK
    <2>3. t \in exists'[StoreOf(n)]
        BY <1>1, <1>2, <2>1, Zenon DEF StartupTypeOK
    <2>4. \A m \in Nodes \ {n} : bpc'[m] = bpc[m] /\ table'[m] = table[m]
        BY <1>1, <2>1, Zenon DEF NextTable, StartupTypeOK
    <2>5. ASSUME NEW m \in Nodes \ {n}
          PROVE  Clauses(m)
        BY <1>2, <2>1, <2>2, <2>4, FrameClauses, Zenon
    <2>6. Migrated(n)' \subseteq Migrated(n) \cup {t}
        <3>1. \A j \in 1 .. 3 : (table[n] < 3 => j < table[n] + 1) => j < table[n] \/ j = table[n]
            BY <1>1 DEF StartupTypeOK
        <3>2. IF table[n] < 3 THEN bpc'[n] = "check" /\ table'[n] = table[n] + 1 ELSE bpc'[n] = "start"
            BY <1>1, <2>1, Zenon DEF NextTable, StartupTypeOK
        <3> QED
            BY <2>1, <3>1, <3>2, Zenon DEF Migrated
    <2>7. bpc'[n] # "drop"
        BY <1>1, <2>1, Zenon DEF NextTable, StartupTypeOK
    <2>8. MigratedIsThere(n)'
        BY <1>2, <2>1, <2>2, <2>3, <2>6, StoreUnchanged, Zenon DEF MigratedIsThere
    <2>9. Clauses(n)
        BY <2>7, <2>8 DEF DropsOnPurpose, DroppedIsEmpty
    <2> QED
        BY <2>1, <2>5, <2>9, Zenon
<1>13. ASSUME NEW n \in Nodes, DropTable(n)
       PROVE  UNCHANGED cfg /\ \A m \in Nodes : Clauses(m)
    <2> DEFINE t == Tables[table[n]]
               u == StoreOf(n)
    <2>1. /\ UNCHANGED cfg /\ bpc[n] = "drop" /\ NextTable(n, "drop", "check")
          /\ exists' = [exists EXCEPT ![u] = @ \ {t}]
          /\ rows' = [rows EXCEPT ![u][t] = {}]
        BY <1>13 DEF DropTable
    <2>2. Recreates(n) /\ ~Kept(u)
        BY <1>2, <2>1, Zenon DEF DropsOnPurpose, Kept
    <2>3. \A s \in Stores : s # u => exists'[s] = exists[s]
        BY <1>1, <2>1, Zenon DEF StartupTypeOK
    <2>4. /\ \A s \in Stores, x \in TableNames : rows'[s][x] \subseteq rows[s][x]
          /\ rows'[u][t] = {}
        BY <1>1, <1>2, <2>1, TableFacts DEF StartupTypeOK
    <2>5. \A m \in Nodes \ {n} : bpc'[m] = bpc[m] /\ table'[m] = table[m]
        BY <1>1, <2>1, Zenon DEF NextTable, StartupTypeOK
    <2> HIDE DEF t, u
    <2>6. ASSUME NEW m \in Nodes \ {n}
          PROVE  Clauses(m)
        BY <1>2, <2>1, <2>2, <2>3, <2>4, <2>5, FrameClauses, Zenon
    <2>7. /\ table[n] < 3 => bpc'[n] = "drop" /\ table'[n] = table[n] + 1
          /\ ~(table[n] < 3) => bpc'[n] = "check"
        BY <1>1, <2>1, Zenon DEF NextTable, StartupTypeOK
    <2>8. DropsOnPurpose(n)' /\ MigratedIsThere(n)'
        BY <2>1, <2>2, StoreUnchanged, Zenon DEF DropsOnPurpose, MigratedIsThere, u
    <2>9. ASSUME bpc'[n] = "drop", Alone(n), NEW i \in 1 .. 3, i < table'[n]
          PROVE  rows'[u][Tables[i]] = {}
        <3>1. i < table[n] \/ i = table[n]
            BY <1>1, <2>7, <2>9, SMTT(30) DEF StartupTypeOK
        <3>2. CASE i = table[n]
            BY <2>4, <3>2 DEF t
        <3>3. CASE i < table[n]
            <4>1. rows[u][Tables[i]] = {}
                BY <1>2, <2>1, <2>9, <3>3, Zenon DEF DroppedIsEmpty, u
            <4> QED
                BY <1>2, <2>4, <4>1, TableFacts, Zenon DEF u
        <3> QED
            BY <3>1, <3>2, <3>3, Zenon
    <2>10. DroppedIsEmpty(n)'
        BY <2>1, <2>9, StoreUnchanged, Zenon DEF DroppedIsEmpty, u
    <2> QED
        BY <2>1, <2>6, <2>8, <2>10, Zenon
<1>14. ASSUME NEW n \in Nodes, MigrateFails(n) \/ SinkFails(n) \/ Crash(n)
       PROVE  Exits(n) /\ UNCHANGED cfg
    BY <1>14, Zenon DEF MigrateFails, SinkFails, Crash
<1>15. ASSUME NEW n \in Nodes, CreateTable(n) \/ StartService(n)
       PROVE  UNCHANGED cfg
    BY <1>15, Zenon DEF CreateTable, StartService
<1> QED
    BY <1>5, <1>6, <1>7, <1>9, <1>10, <1>11, <1>12, <1>13, <1>14, <1>15, Zenon DEF Next, NodeRuns

-----------------------------------------------------------------------------
(* Orders and their events. *)

\* The orders and events of database s agree.
Agree(s) == rows[s]["orders"] = rows[s]["outbox"]

\* Node n is what excuses a database whose orders and events do not.
Excuses(n, s) ==
    StoreOf(n) = s /\ Recreates(n) /\ (bpc[n] \in {"drop", "down"} \/ ~Alone(n))

\* Every step keeps orders and events in agreement, unless a node is about to
\* drop both: one that has dropped its last table leaves two empty tables.
LEMMA OrdersHaveEventsStep ==
    ASSUME StartupInv, OrdersHaveEvents, [Next]_vars
    PROVE  OrdersHaveEvents'
<1>1. StartupTypeOK /\ StartupTypeOK'
    BY TypesStep, Zenon DEF StartupInv
<1>2. \A s \in Stores : Agree(s) \/ \E n \in Nodes : Excuses(n, s)
    BY Zenon DEF OrdersHaveEvents, Agree, Excuses
<1>3. SUFFICES ASSUME NEW s \in Stores
               PROVE  Agree(s)' \/ \E n \in Nodes : Excuses(n, s)'
    BY Zenon DEF OrdersHaveEvents, Agree, Excuses
<1>4. UNCHANGED cfg
    BY Zenon DEF Next, vars, NodeRuns, OpenDatabase, DropTable, HasTable, CreateTable, MigrateFails,
           StartService, SinkFails, Crash, PurchaseItems, OutageStep
<1>5. ASSUME rows'[s] = rows[s],
             \A n \in Nodes : Excuses(n, s) => \/ bpc'[n] = bpc[n] \/ bpc'[n] \in {"drop", "down"}
                                               \/ bpc[n] \notin {"drop", "down"}
      PROVE  Agree(s)' \/ \E n \in Nodes : Excuses(n, s)'
    BY <1>2, <1>4, <1>5, StoreUnchanged DEF Agree, Excuses
<1>6. CASE UNCHANGED vars \/ OutageStep
    BY <1>5, <1>6 DEF vars, OutageStep, nodeVars, storeVars
<1>7. ASSUME NEW n \in Nodes, NEW e \in Events, PurchaseItems(n, e)
      PROVE  Agree(s)' \/ \E m \in Nodes : Excuses(m, s)'
    <2>1. UNCHANGED bpc
        BY <1>7 DEF PurchaseItems, nodeVars
    <2>2. Agree(s) => Agree(s)'
        BY <1>1, <1>7, PurchaseRows, ZenonT(30) DEF Agree, TableNames
    <2> QED
        BY <1>2, <1>4, <2>1, <2>2, StoreUnchanged DEF Excuses
<1>8. ASSUME NEW n \in Nodes, Exits(n)
      PROVE  Agree(s)' \/ \E m \in Nodes : Excuses(m, s)'
    <2>1. CASE s = n
        <3>1. rows'[s] = NoRows
            BY <1>1, <1>8, <2>1 DEF Exits, StartupTypeOK
        <3> QED
            BY <3>1 DEF Agree, NoRows, TableNames
    <2>2. CASE s # n
        <3>1. rows'[s] = rows[s] /\ \A m \in Nodes : bpc'[m] = bpc[m] \/ bpc'[m] = "down"
            BY <1>1, <1>8, <2>2 DEF Exits, StartupTypeOK
        <3> QED
            BY <1>5, <3>1
    <2> QED
        BY <2>1, <2>2
<1>9. ASSUME NEW n \in Nodes, OpenDatabase(n)
      PROVE  Agree(s)' \/ \E m \in Nodes : Excuses(m, s)'
    <2>1. UNCHANGED rows /\ \A m \in Nodes : bpc'[m] = bpc[m] \/ (m = n /\ (Recreates(n) => bpc'[n] = "drop"))
        BY <1>1, <1>9 DEF OpenDatabase, StartupTypeOK, storeVars
    <2> QED
        BY <1>5, <2>1 DEF Excuses
<1>10. ASSUME NEW n \in Nodes, HasTable(n) \/ CreateTable(n) \/ StartService(n), ~Exits(n)
       PROVE  Agree(s)' \/ \E m \in Nodes : Excuses(m, s)'
    <2>1. UNCHANGED rows /\ bpc[n] \notin {"drop", "down"}
        BY <1>10 DEF HasTable, CreateTable, StartService, storeVars
    <2>2. \A m \in Nodes \ {n} : bpc'[m] = bpc[m]
        BY <1>1, <1>10, Zenon DEF HasTable, CreateTable, StartService, NextTable, StartupTypeOK
    <2> QED
        BY <1>5, <2>1, <2>2
<1>11. ASSUME NEW n \in Nodes, DropTable(n)
       PROVE  Agree(s)' \/ \E m \in Nodes : Excuses(m, s)'
    <2>1. bpc[n] = "drop" /\ Recreates(n) /\ StoreOf(n) \in Stores
        BY <1>1, <1>11, StoreFacts DEF DropTable, StartupInv
    <2>2. \A m \in Nodes \ {n} : bpc'[m] = bpc[m]
        BY <1>1, <1>11 DEF DropTable, NextTable, StartupTypeOK
    <2>3. CASE s # StoreOf(n)
        <3>1. rows'[s] = rows[s]
            BY <1>1, <1>11, <2>3, Zenon DEF DropTable, StartupTypeOK
        <3> QED
            BY <1>5, <2>2, <2>3, <3>1 DEF Excuses
    <2>4. CASE s = StoreOf(n) /\ (table[n] < 3 \/ ~Alone(n))
        <3>1. table[n] < 3 => bpc'[n] = "drop"
            BY <1>1, <1>11, Zenon DEF DropTable, NextTable, StartupTypeOK
        <3> QED
            BY <1>4, <2>1, <2>4, <3>1, StoreUnchanged, Zenon DEF Excuses
    <2>5. CASE s = StoreOf(n) /\ table[n] = 3 /\ Alone(n)
        <3>1. rows[s]["orders"] = {}
            BY <2>1, <2>5, TableFacts, SMTT(30) DEF StartupInv
        <3>2. rows'[s]["orders"] = rows[s]["orders"] /\ rows'[s]["outbox"] = {}
            BY <1>1, <1>11, <2>1, <2>5, TableFacts DEF DropTable, StartupTypeOK, TableNames
        <3> QED
            BY <3>1, <3>2, Zenon DEF Agree
    <2> QED
        BY <1>1, <2>3, <2>4, <2>5, SMTT(30) DEF StartupTypeOK
<1> QED
    BY <1>6, <1>7, <1>8, <1>9, <1>10, <1>11, Zenon DEF Next, NodeRuns, MigrateFails, SinkFails, Crash

-----------------------------------------------------------------------------
\* A step removes rows of Postgres or of the file only where a node recreates
\* the schema of the file.
LEMMA RowsSurviveStep ==
    ASSUME StartupInv, Next
    PROVE  \A s \in {"postgres", "file"}, t \in {"orders", "outbox"} :
              \/ rows[s][t] \subseteq rows'[s][t]
              \/ s = "file" /\ \E n \in Nodes : cfg[n].recreateSchema /\ StoreOf(n) = s
<1>1. SUFFICES ASSUME NEW s \in {"postgres", "file"}, NEW t \in {"orders", "outbox"},
                      ~(rows[s][t] \subseteq rows'[s][t])
               PROVE  s = "file" /\ \E n \in Nodes : cfg[n].recreateSchema /\ StoreOf(n) = s
    OBVIOUS
<1>2. StartupTypeOK /\ s \in Stores /\ t \in TableNames /\ rows'[s] # rows[s]
    BY <1>1 DEF StartupInv, Stores, TableNames
<1>3. ASSUME NEW n \in Nodes, DropTable(n)
      PROVE  s = "file" /\ cfg[n].recreateSchema /\ StoreOf(n) = s
    <2>1. StoreOf(n) = s
        BY <1>2, <1>3, Zenon DEF DropTable, StartupTypeOK
    <2>2. Recreates(n)
        BY <1>3 DEF DropTable, StartupInv
    <2> QED
        BY <2>1, <2>2, Zenon DEF Recreates
<1>4. ASSUME NEW n \in Nodes, Exits(n)
      PROVE  FALSE
    <2>1. s # n
        BY <1>2, StoreFacts, Zenon
    <2> QED
        BY <1>2, <1>4, <2>1 DEF Exits, StartupTypeOK
<1>5. ASSUME NEW n \in Nodes, NEW e \in Events, PurchaseItems(n, e)
      PROVE  FALSE
    BY <1>1, <1>2, <1>5, PurchaseRows, Zenon
<1>6. ASSUME UNCHANGED rows
      PROVE  FALSE
    BY <1>2, <1>6
<1> QED
    BY <1>3, <1>4, <1>5, <1>6, Zenon DEF Next, NodeRuns, OpenDatabase, HasTable, CreateTable, MigrateFails,
        StartService, SinkFails, Crash, OutageStep, storeVars

-----------------------------------------------------------------------------
LEMMA StartupInitially ==
    ASSUME Init
    PROVE  StartupInv /\ OrdersHaveEvents
<1>1. StartupTypeOK
    BY DEF Init, StartupTypeOK, NoRows
<1>2. \A m \in Nodes : bpc[m] = "down"
    BY DEF Init
<1>3. StartupInv
    BY <1>1, <1>2, DownClauses, StartupInvByNode
<1>4. OrdersHaveEvents
    BY DEF Init, OrdersHaveEvents, NoRows, TableNames
<1> QED
    BY <1>3, <1>4

\* A node that starts or serves finds its tables, whatever the other nodes on
\* its database do, unless one recreates the schema there (database.go
\* newStorage; service.go serve).
THEOREM StartupCorrect == Spec => []StartupInv
<1>1. StartupInv /\ [Next]_vars => StartupInv'
    BY StartupInvStep
<1> QED
    BY <1>1, StartupInitially, PTL DEF Spec

\* Orders and outbox rows of every database agree through every start, crash
\* and half-done deleteStorage (database.go).
THEOREM OrdersKeepEvents == Spec => []OrdersHaveEvents
<1>1. StartupInv /\ OrdersHaveEvents /\ [Next]_vars => OrdersHaveEvents'
    BY OrdersHaveEventsStep
<1> QED
    BY <1>1, StartupInitially, StartupCorrect, PTL DEF Spec

\* No start, restart or lost race removes an order or an event from Postgres,
\* or from a SQLite file that no node recreates (database.go, postgres.go).
THEOREM RestartsKeepRows == Spec => RowsSurvive
<1>1. StartupInv /\ [Next]_vars =>
        [\A s \in {"postgres", "file"}, t \in {"orders", "outbox"} :
            \/ rows[s][t] \subseteq rows'[s][t]
            \/ s = "file" /\ \E n \in Nodes : cfg[n].recreateSchema /\ StoreOf(n) = s]_vars
    BY RowsSurviveStep
<1> QED
    BY <1>1, StartupCorrect, PTL DEF Spec, RowsSurvive

=============================================================================

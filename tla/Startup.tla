------------------------------ MODULE Startup ------------------------------
(***************************************************************************)
(* How the nodes of a deployment start and restart (cmd/orders.go,         *)
(* cmd/notifier.go, cmd/service.go, database/database.go NewGormDB): each  *)
(* opens its database, migrates the tables one by one, opens its client    *)
(* and pings the broker; whatever fails ends the process, and the          *)
(* supervisor (docker-compose.yml, restart: unless-stopped) starts it      *)
(* again.  Nodes that share a database migrate it at the same time:        *)
(* AutoMigrate asks whether a table exists and creates it in two           *)
(* statements.  Serving and stopping are in module Server.                 *)
(***************************************************************************)
EXTENDS Naturals, Faults

CONSTANTS Orders,       \* the nodes running the orders service
          Notifiers,    \* the nodes running the notifier
          Configs       \* what a node may be configured with

Nodes == Orders \cup Notifiers

\* The memory of a node is neither of the two databases outside it.
ASSUME StartupAssumption ==
    /\ Configs \subseteq [useMemoryDB : BOOLEAN, dbHost : BOOLEAN, recreateSchema : BOOLEAN,
                          eventBroker : BOOLEAN]
    /\ Nodes \cap {"postgres", "file"} = {}

Tables == <<"inventory", "orders", "outbox">>

TableNames == {"inventory", "orders", "outbox"}

VARIABLES cfg,          \* the configuration of each node
          bpc,          \* where it stands
          table,        \* the index of the table it is at
          exists,       \* the tables of each database
          rows,         \* the rows of each table, by event
          dbUp,         \* Postgres answers
          brokerUp      \* the broker answers

nodeVars == <<bpc, table>>
storeVars == <<exists, rows>>
vars == <<cfg, nodeVars, storeVars, dbUp, brokerUp, faults>>

\* The databases: Postgres, a SQLite file, and the memory of each node.
Stores == {"postgres", "file"} \cup Nodes

\* openDatabase: where a node keeps its tables.
StoreOf(n) ==
    IF cfg[n].useMemoryDB THEN n ELSE IF cfg[n].dbHost THEN "postgres" ELSE "file"

\* Mutant: the flag is passed to Postgres too.
RecreatesAny(n) == cfg[n].recreateSchema

\* NewGormDB drops the tables: NewPostgresDB never asks for it.
Recreates(n) == cfg[n].recreateSchema /\ StoreOf(n) # "postgres"

\* The database of n can be used.
Reachable(n) == StoreOf(n) = "postgres" => dbUp

StartupTypeOK ==
    /\ cfg \in [Nodes -> Configs]
    /\ bpc \in [Nodes -> {"down", "drop", "check", "create", "start", "serving"}]
    /\ table \in [Nodes -> 1 .. 3]
    /\ exists \in [Stores -> SUBSET TableNames]
    /\ rows \in [Stores -> [TableNames -> SUBSET Events]]
    /\ dbUp \in BOOLEAN /\ brokerUp \in BOOLEAN

NoRows == [t \in TableNames |-> {}]

Init ==
    /\ cfg \in [Nodes -> Configs]
    /\ bpc = [n \in Nodes |-> "down"]
    /\ table = [n \in Nodes |-> 1]
    /\ exists = [s \in Stores |-> {}]
    /\ rows = [s \in Stores |-> NoRows]
    /\ dbUp = TRUE /\ brokerUp = TRUE
    /\ faults = 0

-----------------------------------------------------------------------------
\* The process is started and opens its database.
OpenDatabase(n) ==
    /\ bpc[n] = "down"
    /\ Reachable(n)
    /\ bpc' = [bpc EXCEPT ![n] = IF Recreates(n) THEN "drop" ELSE "check"]
    /\ table' = [table EXCEPT ![n] = 1]
    /\ UNCHANGED <<cfg, storeVars, dbUp, brokerUp, faults>>

\* The node turns to the next table, or from the last one to `then`.
NextTable(n, here, then) ==
    /\ bpc' = [bpc EXCEPT ![n] = IF table[n] < 3 THEN here ELSE then]
    /\ table' = [table EXCEPT ![n] = IF table[n] < 3 THEN @ + 1 ELSE 1]

\* The process is gone, and a database in its memory with it.
Exits(n) ==
    /\ bpc' = [bpc EXCEPT ![n] = "down"]
    /\ exists' = [exists EXCEPT ![n] = {}]
    /\ rows' = [rows EXCEPT ![n] = NoRows]
    /\ UNCHANGED table

\* Mutant: the outbox is not dropped.
DropTwoTables(n) ==
    /\ bpc[n] = "drop"
    /\ Reachable(n)
    /\ exists' = [exists EXCEPT ![StoreOf(n)] = @ \ {Tables[table[n]]}]
    /\ rows' = [rows EXCEPT ![StoreOf(n)][Tables[table[n]]] = {}]
    /\ IF table[n] < 2 THEN NextTable(n, "drop", "check")
       ELSE bpc' = [bpc EXCEPT ![n] = "check"] /\ table' = [table EXCEPT ![n] = 1]
    /\ UNCHANGED <<cfg, dbUp, brokerUp, faults>>

\* deleteStorage, one table at a time.
DropTable(n) ==
    /\ bpc[n] = "drop"
    /\ Reachable(n)
    /\ exists' = [exists EXCEPT ![StoreOf(n)] = @ \ {Tables[table[n]]}]
    /\ rows' = [rows EXCEPT ![StoreOf(n)][Tables[table[n]]] = {}]
    /\ NextTable(n, "drop", "check")
    /\ UNCHANGED <<cfg, dbUp, brokerUp, faults>>

\* Mutant: a table is created without a look.
HasNoTable(n) ==
    /\ bpc[n] = "check"
    /\ Reachable(n)
    /\ bpc' = [bpc EXCEPT ![n] = "create"]
    /\ UNCHANGED <<cfg, table, storeVars, dbUp, brokerUp, faults>>

\* AutoMigrate: a table that exists has its columns already.
HasTable(n) ==
    /\ bpc[n] = "check"
    /\ Reachable(n)
    /\ IF Tables[table[n]] \in exists[StoreOf(n)]
       THEN NextTable(n, "check", "start")
       ELSE bpc' = [bpc EXCEPT ![n] = "create"] /\ UNCHANGED table
    /\ UNCHANGED <<cfg, storeVars, dbUp, brokerUp, faults>>

\* AutoMigrate: the table is created; if another node was faster, newStorage
\* fails and the process ends.
CreateTable(n) ==
    /\ bpc[n] = "create"
    /\ Reachable(n)
    /\ IF Tables[table[n]] \in exists[StoreOf(n)]
       THEN Exits(n)
       ELSE /\ exists' = [exists EXCEPT ![StoreOf(n)] = @ \cup {Tables[table[n]]}]
            /\ NextTable(n, "check", "start")
            /\ UNCHANGED rows
    /\ UNCHANGED <<cfg, dbUp, brokerUp, faults>>

\* Mutant: the error of a migration is dropped.
MigrateIgnored(n) ==
    /\ bpc[n] \in {"drop", "check", "create"}
    /\ ~Reachable(n)
    /\ NextTable(n, "check", "start")
    /\ UNCHANGED <<cfg, storeVars, dbUp, brokerUp, faults>>

\* A statement fails because the database does not answer.
MigrateFails(n) ==
    /\ bpc[n] \in {"drop", "check", "create"}
    /\ ~Reachable(n)
    /\ Exits(n)
    /\ UNCHANGED <<cfg, dbUp, brokerUp, faults>>

\* Start pings the broker; the no-op client always answers.
StartService(n) ==
    /\ bpc[n] = "start"
    /\ IF cfg[n].eventBroker => brokerUp
       THEN bpc' = [bpc EXCEPT ![n] = "serving"] /\ UNCHANGED <<table, storeVars>>
       ELSE Exits(n)
    /\ UNCHANGED <<cfg, dbUp, brokerUp, faults>>

\* NewSink cannot open the notification file.
SinkFails(n) ==
    /\ bpc[n] = "start"
    /\ n \in Notifiers
    /\ Fault("sink")
    /\ Exits(n)
    /\ UNCHANGED <<cfg, dbUp, brokerUp>>

\* A node is interrupted or crashes, at any point.
Crash(n) ==
    /\ bpc[n] # "down"
    /\ Fault("crash")
    /\ Exits(n)
    /\ UNCHANGED <<cfg, dbUp, brokerUp>>

\* A purchase adds its order and its event in one transaction; without its
\* tables it fails.
PurchaseItems(n, e) ==
    /\ bpc[n] = "serving"
    /\ n \in Orders
    /\ Reachable(n)
    /\ TableNames \subseteq exists[StoreOf(n)]
    /\ \A s \in Stores : e \notin rows[s]["outbox"]
    /\ rows' = [rows EXCEPT ![StoreOf(n)]["orders"] = @ \cup {e},
                            ![StoreOf(n)]["outbox"] = @ \cup {e}]
    /\ UNCHANGED <<cfg, nodeVars, exists, dbUp, brokerUp, faults>>

OutageStep ==
    /\ \/ dbUp /\ Fault("database") /\ dbUp' = FALSE /\ UNCHANGED brokerUp
       \/ ~dbUp /\ dbUp' = TRUE /\ UNCHANGED <<brokerUp, faults>>
       \/ brokerUp /\ Fault("broker") /\ brokerUp' = FALSE /\ UNCHANGED dbUp
       \/ ~brokerUp /\ brokerUp' = TRUE /\ UNCHANGED <<dbUp, faults>>
    /\ UNCHANGED <<cfg, nodeVars, storeVars>>

NodeRuns(n) ==
    \/ OpenDatabase(n) \/ DropTable(n) \/ HasTable(n) \/ CreateTable(n) \/ MigrateFails(n)
    \/ StartService(n)

Next ==
    \/ \E n \in Nodes : NodeRuns(n) \/ SinkFails(n) \/ Crash(n) \/ \E e \in Events : PurchaseItems(n, e)
    \/ OutageStep

\* Processes run, the supervisor restarts them, and outages end.
Fairness ==
    /\ \A n \in Nodes : WF_vars(NodeRuns(n))
    /\ WF_vars(~dbUp /\ OutageStep /\ dbUp')
    /\ WF_vars(~brokerUp /\ OutageStep /\ brokerUp')

Spec == Init /\ [][Next]_vars /\ Fairness

-----------------------------------------------------------------------------
\* No node drops the tables of database s.
Kept(s) == \A n \in Nodes : StoreOf(n) = s => ~Recreates(n)

\* No other node uses the database of n.
Alone(n) == \A m \in Nodes \ {n} : StoreOf(m) # StoreOf(n)

\* The tables that n has found or created since it was started.
Migrated(n) ==
    {Tables[i] : i \in {j \in 1 .. 3 : \/ bpc[n] \in {"start", "serving"}
                                       \/ bpc[n] \in {"check", "create"} /\ j < table[n]}}

\* Types, and: only a node told to recreate the schema drops tables; the
\* tables a node has migrated are there from then on, all of them once it
\* starts and serves, whoever else migrates or restarts on its database, if no
\* node recreates the schema there; and a node that drops the tables of a
\* database of its own has emptied the ones behind it (database.go newStorage,
\* deleteStorage, service.go serve).
StartupInv ==
    /\ StartupTypeOK
    /\ \A n \in Nodes :
          /\ bpc[n] = "drop" => Recreates(n)
          /\ Kept(StoreOf(n)) => Migrated(n) \subseteq exists[StoreOf(n)]
          /\ bpc[n] = "drop" /\ Alone(n)
                => \A i \in 1 .. 3 : i < table[n] => rows[StoreOf(n)][Tables[i]] = {}

\* No start, restart or lost race removes an order or its event from a database
\* that outlives the process, unless a node there is told to recreate a SQLite
\* schema; on Postgres nothing does (postgres.go, relay.go: "an unpublished row
\* simply waits for ... the next process start").
RowsSurvive ==
    [][\A s \in {"postgres", "file"}, t \in {"orders", "outbox"} :
          \/ rows[s][t] \subseteq rows'[s][t]
          \/ s = "file" /\ \E n \in Nodes : cfg[n].recreateSchema /\ StoreOf(n) = s]_vars

\* Every order has its event and every event its order, also after a crash
\* half way through deleteStorage (database.go), which drops the tables one
\* after the other: a node that recreates a schema no other node uses has
\* dropped what was left before it goes on.
OrdersHaveEvents ==
    \A s \in Stores :
        \/ rows[s]["orders"] = rows[s]["outbox"]
        \/ \E n \in Nodes :
              /\ StoreOf(n) = s /\ Recreates(n)
              /\ bpc[n] \in {"drop", "down"} \/ ~Alone(n)

\* Every node serves in the end and finds its tables from then on, whatever
\* races of the migration are lost on the way and whoever has recreated the
\* schema under whom (database.go newStorage, docker-compose.yml restart).
EventuallyServing ==
    <>[](\A n \in Nodes :
            /\ bpc[n] = "serving"
            /\ exists[StoreOf(n)] = TableNames)

=============================================================================

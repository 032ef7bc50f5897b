-------------------------- MODULE OrderTransaction --------------------------
(***************************************************************************)
(* The transaction of PurchaseItems (services/orders/purchase.go) statement *)
(* by statement, on Postgres: UpsertItems locks the inventory rows one     *)
(* after the other, AddOrder and AddOutboxItems insert, COMMIT publishes   *)
(* and unlocks.  AddItems (item.go) runs its one upsert in a transaction   *)
(* of its own and locks the same rows.  getItems has no ORDER BY, so the   *)
(* rows of a purchase come in any order, the free item last; two writers   *)
(* may wait for each other.  What a purchase reads before its transaction  *)
(* and the values it writes are in module Purchase.                        *)
(***************************************************************************)
EXTENDS Naturals, Sequences, FiniteSets, Faults

CONSTANTS Restocks,     \* AddItems requests for rows the table has
          Rows,         \* the rows of the inventory
          Wants,        \* the rows each request writes
          Gift,         \* the row of the free item, for a purchase given one
          Nobody

Writers == Events \cup Restocks

ASSUME TransactionAssumption ==
    /\ Events \cap Restocks = {}
    /\ Nobody \notin Writers
    /\ Wants \in [Writers -> SUBSET Rows \ {{}}]
    /\ Gift \in [Writers -> SUBSET Rows]

VARIABLES tpc,          \* the next statement of each request, or its answer
          left,         \* the rows its upsert has not reached
          at,           \* the one it is at
          lock,         \* the transaction that has written a row, until it ends
          stock,        \* whose version of a row is visible
          placed,       \* the visible rows of the orders table
          txn, rowId, nextId,   \* the outbox, as in module OutboxStore
          commits,      \* history: the transactions in the order of their COMMITs
          unconfirmed   \* history: those whose COMMIT was not acknowledged

upsertVars == <<left, at>>
tableVars == <<stock, placed, commits>>
rowVars == <<rowId, nextId>>
vars == <<tpc, upsertVars, lock, tableVars, txn, rowVars, unconfirmed, faults>>

Open == {"rows", "order", "outbox", "commit"}
Ended == {"ok", "error", "gone"}

TransactionTypeOK ==
    /\ tpc \in [Writers -> {"none"} \cup Open \cup Ended]
    /\ left \in [Writers -> SUBSET Rows]
    /\ at \in [Writers -> Rows \cup {Nobody}]
    /\ lock \in [Rows -> Writers \cup {Nobody}]
    /\ stock \in [Rows -> Writers \cup {Nobody}]
    /\ placed \subseteq Events
    /\ txn \in [Events -> {"none", "open", "committed", "aborted"}]
    /\ rowId \in [Events -> Nat]
    /\ nextId \in Nat
    /\ commits \in Seq(Writers)
    /\ unconfirmed \subseteq Writers
    /\ faults \in Nat

Init ==
    /\ tpc = [w \in Writers |-> "none"]
    /\ left = [w \in Writers |-> {}]
    /\ at = [w \in Writers |-> Nobody]
    /\ lock = [r \in Rows |-> Nobody]
    /\ stock = [r \in Rows |-> Nobody]
    /\ placed = {}
    /\ txn = [e \in Events |-> "none"]
    /\ rowId = [e \in Events |-> 0]
    /\ nextId = 1
    /\ commits = <<>>
    /\ unconfirmed = {}
    /\ faults = 0

-----------------------------------------------------------------------------
\* The rows that may come first among `rows`: the free item comes last.
Foremost(w, rows) == IF rows \subseteq Gift[w] THEN rows ELSE rows \ Gift[w]

\* BEGIN, and the upsert is at its first row.
Begin(w) ==
    /\ tpc[w] = "none"
    /\ tpc' = [tpc EXCEPT ![w] = "rows"]
    /\ left' = [left EXCEPT ![w] = Wants[w]]
    /\ \E r \in Foremost(w, Wants[w]) : at' = [at EXCEPT ![w] = r]
    /\ UNCHANGED <<lock, tableVars, txn, rowVars, unconfirmed, faults>>

\* The upsert goes on to its next row, the transaction to its next statement.
RowWritten(w) ==
    LET rest == left[w] \ {at[w]} IN
    /\ left' = [left EXCEPT ![w] = rest]
    /\ IF rest = {}
       THEN /\ tpc' = [tpc EXCEPT ![w] = IF w \in Events THEN "order" ELSE "commit"]
            /\ UNCHANGED at
       ELSE /\ \E r \in Foremost(w, rest) : at' = [at EXCEPT ![w] = r]
            /\ UNCHANGED tpc

\* Mutant: the upsert runs on the store and not on the transaction.
WriteRowOutside(w) ==
    /\ tpc[w] = "rows"
    /\ lock[at[w]] = Nobody
    /\ stock' = [stock EXCEPT ![at[w]] = w]
    /\ RowWritten(w)
    /\ UNCHANGED <<lock, placed, commits, txn, rowVars, unconfirmed, faults>>

\* UpsertItems writes a row once no other transaction holds it.
WriteRow(w) ==
    /\ tpc[w] = "rows"
    /\ lock[at[w]] = Nobody
    /\ lock' = [lock EXCEPT ![at[w]] = w]
    /\ RowWritten(w)
    /\ UNCHANGED <<tableVars, txn, rowVars, unconfirmed, faults>>

\* Mutant: the order is added on the store and not on the transaction.
AddOrderOutside(e) ==
    /\ tpc[e] = "order"
    /\ tpc' = [tpc EXCEPT ![e] = "outbox"]
    /\ placed' = placed \cup {e}
    /\ UNCHANGED <<upsertVars, lock, stock, commits, txn, rowVars, unconfirmed, faults>>

\* AddOrder: the row is invisible until COMMIT.
AddOrder(e) ==
    /\ tpc[e] = "order"
    /\ tpc' = [tpc EXCEPT ![e] = "outbox"]
    /\ UNCHANGED <<upsertVars, lock, tableVars, txn, rowVars, unconfirmed, faults>>

\* Mutant: the event is added on the store and not on the transaction.
AddOutboxItemsOutside(e) ==
    /\ tpc[e] = "outbox"
    /\ tpc' = [tpc EXCEPT ![e] = "commit"]
    /\ txn' = [txn EXCEPT ![e] = "committed"]
    /\ rowId' = [rowId EXCEPT ![e] = nextId]
    /\ nextId' = nextId + 1
    /\ UNCHANGED <<upsertVars, lock, tableVars, unconfirmed, faults>>

\* AddOutboxItems: the row draws its id from the sequence.
AddOutboxItems(e) ==
    /\ tpc[e] = "outbox"
    /\ tpc' = [tpc EXCEPT ![e] = "commit"]
    /\ txn' = [txn EXCEPT ![e] = "open"]
    /\ rowId' = [rowId EXCEPT ![e] = nextId]
    /\ nextId' = nextId + 1
    /\ UNCHANGED <<upsertVars, lock, tableVars, unconfirmed, faults>>

\* The locks of w are released.
Unlock(w) == lock' = [r \in Rows |-> IF lock[r] = w THEN Nobody ELSE lock[r]]

\* COMMIT in the database: all that w has written is visible at once.
Committed(w) ==
    /\ tpc[w] = "commit"
    /\ stock' = [r \in Rows |-> IF lock[r] = w THEN w ELSE stock[r]]
    /\ placed' = placed \cup ({w} \cap Events)
    /\ txn' = [e \in Events |-> IF e = w THEN "committed" ELSE txn[e]]
    /\ commits' = Append(commits, w)
    /\ Unlock(w)
    /\ UNCHANGED <<upsertVars, rowVars>>

\* The transaction returns nil and the request is answered.
Commit(w) ==
    /\ Committed(w)
    /\ tpc' = [tpc EXCEPT ![w] = "ok"]
    /\ UNCHANGED <<unconfirmed, faults>>

\* The database commits and the connection or the process is lost before the
\* acknowledgement: the request is answered with an error or not at all.
CommitUnconfirmed(w) ==
    /\ Committed(w)
    /\ Fault("commit")
    /\ \E a \in {"error", "gone"} : tpc' = [tpc EXCEPT ![w] = a]
    /\ unconfirmed' = unconfirmed \cup {w}

\* ROLLBACK: nothing of w remains but the id it drew.
Rollback(w) ==
    /\ tpc[w] \in Open
    /\ txn' = [e \in Events |-> IF e = w /\ txn[e] = "open" THEN "aborted" ELSE txn[e]]
    /\ Unlock(w)
    /\ UNCHANGED <<upsertVars, tableVars, rowVars, unconfirmed>>

\* Mutant: the handler returns without a ROLLBACK.
FailUnfinished(w) ==
    /\ tpc[w] \in Open
    /\ Fault("db")
    /\ tpc' = [tpc EXCEPT ![w] = "error"]
    /\ UNCHANGED <<upsertVars, lock, tableVars, txn, rowVars, unconfirmed>>

\* Mutant: the error of the transaction is dropped.
FailSilently(w) ==
    /\ Rollback(w)
    /\ Fault("db")
    /\ tpc' = [tpc EXCEPT ![w] = "ok"]

\* A statement fails, its request being cancelled included.
Fail(w) ==
    /\ Rollback(w)
    /\ Fault("db")
    /\ tpc' = [tpc EXCEPT ![w] = "error"]

\* The process dies; the database ends the transaction of a lost connection.
Crash(w) ==
    /\ Rollback(w)
    /\ Fault("crash")
    /\ tpc' = [tpc EXCEPT ![w] = "gone"]

\* Everybody in S waits for a row that somebody in S holds.
Waiting(S) == \A w \in S : tpc[w] = "rows" /\ lock[at[w]] \in S

\* A cycle of transactions, each waiting for the next.
Deadlock(S) == S # {} /\ Waiting(S) /\ \A T \in SUBSET S : T # {} /\ Waiting(T) => T = S

\* The database detects a deadlock and fails the statement of one of them.
BreakDeadlock(w) ==
    /\ \E S \in SUBSET Writers : w \in S /\ Deadlock(S)
    /\ Rollback(w)
    /\ tpc' = [tpc EXCEPT ![w] = "error"]
    /\ UNCHANGED faults

-----------------------------------------------------------------------------
\* What the handler of w does next, if the database lets it.
Proceed(w) ==
    \/ WriteRow(w)
    \/ w \in Events /\ (AddOrder(w) \/ AddOutboxItems(w))
    \/ Commit(w)

Next ==
    \E w \in Writers :
        \/ Begin(w) \/ Proceed(w) \/ CommitUnconfirmed(w)
        \/ Fail(w) \/ Crash(w) \/ BreakDeadlock(w)

Fairness ==
    /\ \A w \in Writers : WF_vars(Proceed(w))
    /\ WF_vars(\E w \in Writers : BreakDeadlock(w))

SafetySpec == Init /\ [][Next]_vars

Spec == SafetySpec /\ Fairness

-----------------------------------------------------------------------------
Outbox == INSTANCE OutboxStore WITH
    publishedAt <- [e \in Events |-> FALSE],
    deliveredAt <- [e \in Events |-> FALSE]

\* The statements implement the purchase steps of the event pipeline: an
\* outbox row goes from inserted to visible or to nothing, its id drawn at
\* the insert and not at COMMIT (purchase.go, AddOutboxItems).
FillsOutbox == Outbox!OutboxInit /\ [][\E e \in Events : Outbox!OrderStep(e)]_(Outbox!outboxVars)

\* The order and its event are visible together or not at all (purchase.go:
\* "they commit together or not at all"), and so are the quantities: a row of
\* the inventory is the version of the last transaction to commit that wrote
\* it, so commits take effect one after the other whatever waits for whom.
OrdersAreWhole ==
    /\ \A e \in Events : e \in placed <=> txn[e] = "committed"
    /\ \A e \in Events : e \in placed <=> \E i \in DOMAIN commits : commits[i] = e
    /\ \A r \in Rows :
          \/ /\ stock[r] = Nobody
             /\ \A i \in DOMAIN commits : r \notin Wants[commits[i]]
          \/ \E i \in DOMAIN commits :
                /\ stock[r] = commits[i]
                /\ r \in Wants[commits[i]]
                /\ \A j \in DOMAIN commits : j > i => r \notin Wants[commits[j]]

\* A request answered with success has committed; one answered with an error
\* has not, unless the acknowledgement of its COMMIT was lost (purchase.go
\* after Transaction; nothing tells the customer which).
AnswerIsOutcome ==
    \A w \in Writers :
        /\ tpc[w] = "ok" => \E i \in DOMAIN commits : commits[i] = w
        /\ tpc[w] \in {"error", "gone"} /\ w \notin unconfirmed =>
              \A i \in DOMAIN commits : commits[i] # w

\* Every request that has begun ends, also when it waits for a row (purchase.go
\* UpsertItems in any order of the rows, item.go AddItems).
EveryRequestEnds == \A w \in Writers : tpc[w] \in Open ~> tpc[w] \in Ended

-----------------------------------------------------------------------------
(* The inductive invariant of the proofs. *)

\* A transaction holds the rows its upsert has passed, until it ends.
LocksAreHeld ==
    /\ \A w \in Writers, r \in Rows :
          lock[r] = w <=> tpc[w] \in Open /\ r \in Wants[w] \ left[w]
    /\ \A w \in Writers :
          /\ tpc[w] = "rows" => at[w] \in left[w] /\ left[w] \subseteq Wants[w]
          /\ tpc[w] \in Open \ {"rows"} => left[w] = {}

\* An outbox row is open from its insert to the end of its transaction.
OutboxFollows ==
    \A e \in Events :
        /\ tpc[e] \in {"none", "rows", "order", "outbox"} => txn[e] = "none"
        /\ tpc[e] = "commit" => txn[e] = "open"
        /\ tpc[e] \in Ended => txn[e] # "open"

\* A transaction commits once, at its end.
CommitsOnce ==
    \A w \in Writers : (\E i \in DOMAIN commits : commits[i] = w) <=> tpc[w] = "ok" \/ w \in unconfirmed

TransactionInv ==
    /\ TransactionTypeOK
    /\ LocksAreHeld
    /\ OutboxFollows
    /\ CommitsOnce
    /\ \A w \in unconfirmed : tpc[w] \in {"error", "gone"}
    /\ \A w \in Restocks : tpc[w] \notin {"order", "outbox"}
    /\ OrdersAreWhole

=============================================================================

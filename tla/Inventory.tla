----------------------------- MODULE Inventory -----------------------------
(***************************************************************************)
(* The inventory table (model/items.go, database/database.go) and the      *)
(* AddItems handler (services/orders/item.go).  A row is found by its SKU, *)
(* which is unique; an upsert conflicts on the primary key.  An item's     *)
(* name goes with its SKU.                                                 *)
(***************************************************************************)
EXTENDS Integers, Sequences, FiniteSets

CONSTANTS Skus,
          NameOf,       \* the name each SKU is sold under
          Engine,       \* the database: "postgres" or "sqlite"
          Initial,      \* the table at the start, its ids drawn in order
          InitialNext,  \* the next id then
          Shipments,    \* the lists of items AddItems requests carry
          MaxId         \* bound on the ids drawn from the sequence

\* id 0 stands for a SKU without a row, as for an item without an id.
Row == [id : Nat, price : Nat, qty : Int]
NoRow == [id |-> 0, price |-> 0, qty |-> 0]

Item == [sku : Skus, id : Nat, price : Nat, qty : Int]

ASSUME InventoryAssumption ==
    /\ IsFiniteSet(Skus)
    /\ \A s, t \in Skus : NameOf[s] = NameOf[t] => s = t
    /\ Engine \in {"postgres", "sqlite"}
    /\ Initial \in [Skus -> Row]
    /\ \A s \in Skus : Initial[s].qty >= 0 /\ (Initial[s].id = 0 => Initial[s] = NoRow)
    /\ InitialNext \in Nat \ {0} /\ \A s \in Skus : Initial[s].id < InitialNext
    /\ \A s, t \in Skus : Initial[s].id # 0 /\ Initial[s].id = Initial[t].id => s = t
    /\ Shipments \subseteq Seq(Item) \ {<<>>}

VARIABLES inventory,    \* the row of each SKU
          nextItemId,   \* the id the next row without one is given
          ahead         \* history: ids written before the sequence had reached them

inventoryVars == <<inventory, nextItemId, ahead>>

InventoryInit ==
    /\ inventory = Initial
    /\ nextItemId = InitialNext
    /\ ahead = {}

Listed == {s \in Skus : inventory[s].id # 0}

-----------------------------------------------------------------------------
(* INSERT ... ON CONFLICT (id) DO UPDATE, row by row and all or nothing.    *)

\* A statement that starts: the table as it sees it, the sequence, the ids it
\* has written, and whether it still goes on.
Begin == [table |-> inventory, next |-> nextItemId, ahead |-> ahead, written |-> {}, ok |-> TRUE]

\* An item without an id draws the next one.
IdOf(st, it) == IF it.id = 0 THEN st.next ELSE it.id

\* Mutant: the sequence is set to whatever id was written last.
NextAfterReset(st, it) == IdOf(st, it) + 1

\* The sequence: Postgres advances it for a row without an id only, SQLite
\* keeps it above every id in the table.
NextAfter(st, it) ==
    IF it.id = 0 THEN st.next + 1
    ELSE IF Engine = "sqlite" /\ it.id >= st.next THEN it.id + 1 ELSE st.next

\* Mutant: the statement may update a row twice.
WrittenNever(st, id) == FALSE

\* Postgres refuses to update a row twice in a statement.
WrittenTwice(st, id) == Engine = "postgres" /\ id \in st.written

\* A row is refused if its SKU has another row or its quantity is negative.
Refused(st, it) ==
    \/ st.table[it.sku].id \notin {0, IdOf(st, it)}
    \/ WrittenTwice(st, IdOf(st, it))
    \/ it.qty < 0

\* The row replaces whatever has its id.
Replace(table, s, row) ==
    [t \in Skus |-> IF t = s THEN row ELSE IF table[t].id = row.id THEN NoRow ELSE table[t]]

UpsertRow(st, it) ==
    IF ~st.ok THEN st
    ELSE IF Refused(st, it) THEN [st EXCEPT !.next = NextAfter(st, it), !.ok = FALSE]
    ELSE LET row == [id |-> IdOf(st, it), price |-> it.price, qty |-> it.qty]
         IN  [table |-> Replace(st.table, it.sku, row),
              next |-> NextAfter(st, it),
              ahead |-> IF row.id < NextAfter(st, it) THEN st.ahead ELSE st.ahead \cup {row.id},
              written |-> st.written \cup {row.id},
              ok |-> TRUE]

\* The statement after the rows of a list.
Upserted(list) ==
    LET after[k \in 0 .. Len(list)] == IF k = 0 THEN Begin ELSE UpsertRow(after[k - 1], list[k])
    IN  after[Len(list)]

\* What a statement leaves: if refused, only Postgres's sequence keeps moving.
UpsertItems(list) ==
    LET st == Upserted(list)
    IN  /\ inventory' = IF st.ok THEN st.table ELSE inventory
        /\ nextItemId' = IF st.ok \/ Engine = "postgres" THEN st.next ELSE nextItemId
        /\ ahead' = IF st.ok THEN st.ahead ELSE ahead

\* AddItems: a list of valid items is written, all or none.  (A list with an
\* invalid item, or none, is answered at once and changes nothing.)
AddItems(its) ==
    /\ \A i \in DOMAIN its : its[i].qty >= 1
    /\ nextItemId + Cardinality({i \in DOMAIN its : its[i].id = 0}) - 1 <= MaxId
    /\ UpsertItems(its)

GetItemBySKU(s) == inventory[s]

\* The rows of the SKUs of a request; without any, every row.
GetItemsBySKU(skus) ==
    [s \in Skus |-> IF skus = {} \/ s \in skus THEN inventory[s] ELSE NoRow]

=============================================================================

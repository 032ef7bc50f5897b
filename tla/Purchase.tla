------------------------------ MODULE Purchase ------------------------------
(***************************************************************************)
(* The PurchaseItems handler (services/orders/purchase.go): requests run   *)
(* concurrently, each reads the inventory, computes new quantities in      *)
(* memory and writes them back, with its order and its outbox row, in one  *)
(* transaction.  Authentication, decoding and the format of SKUs come      *)
(* before anything is read and are left out.                               *)
(***************************************************************************)
EXTENDS Inventory, Promotions

CONSTANTS Handlers,     \* requests that may run at the same time
          Requests,     \* the SKU lists they may carry
          FreeItem,     \* the SKU of the Raspberry Pi B
          MaxOrders     \* no request starts after so many orders

ASSUME PurchaseAssumption ==
    /\ Requests \subseteq Seq(Skus)
    /\ FreeItem \in Skus /\ NameOf[FreeItem] = "Raspberry Pi B"

VARIABLES hpc,          \* where each handler stands, or its last answer
          request,      \* pReq.SKUs
          next,         \* the index of the loop over pReq.SKUs
          items,        \* the fetched rows, quantities reduced by the loop
          itemCount,    \* units of each SKU the order lists so far
          total,        \* their price
          gift,         \* the row of the free item, once added
          orders        \* the committed orders, each with its outbox row

requestVars == <<request, next, items, itemCount, total, gift>>
vars == <<inventoryVars, hpc, requestVars, orders>>

Answers == {"none", "ok", "notfound", "panic", "error"}

PurchaseTypeOK ==
    /\ inventory \in [Skus -> Row]
    /\ nextItemId \in Nat \ {0}
    /\ ahead \subseteq Nat
    /\ hpc \in [Handlers -> Answers \cup {"loop", "gift", "commit"}]
    /\ request \in [Handlers -> Seq(Skus)]
    /\ next \in [Handlers -> Nat \ {0}]
    /\ items \in [Handlers -> [Skus -> Row]]
    /\ itemCount \in [Handlers -> [Skus -> Nat]]
    /\ total \in [Handlers -> Nat]
    /\ gift \in [Handlers -> Row]

Init ==
    /\ InventoryInit
    /\ hpc = [h \in Handlers |-> "none"]
    /\ request = [h \in Handlers |-> <<>>]
    /\ next = [h \in Handlers |-> 1]
    /\ items = [h \in Handlers |-> [s \in Skus |-> NoRow]]
    /\ itemCount = [h \in Handlers |-> [s \in Skus |-> 0]]
    /\ total = [h \in Handlers |-> 0]
    /\ gift = [h \in Handlers |-> NoRow]
    /\ orders = <<>>

\* The fetched rows as the promotions see them: one item per row.
ItemList(rows) ==
    [s \in {t \in Skus : rows[t].id # 0} |-> [name |-> NameOf[s], price |-> rows[s].price]]

\* The request arrives and its items are fetched.
Fetch(h, skus) ==
    /\ hpc[h] \in Answers
    /\ Len(orders) < MaxOrders
    /\ request' = [request EXCEPT ![h] = skus]
    /\ next' = [next EXCEPT ![h] = 1]
    /\ items' = [items EXCEPT ![h] = GetItemsBySKU(Range(skus))]
    /\ itemCount' = [itemCount EXCEPT ![h] = [s \in Skus |-> 0]]
    /\ total' = [total EXCEPT ![h] = 0]
    /\ gift' = [gift EXCEPT ![h] = NoRow]
    /\ hpc' = [hpc EXCEPT ![h] = "loop"]
    /\ UNCHANGED <<inventoryVars, orders>>

\* Mutant: the count is compared before it is raised.
ShortByOne(h, s) == items[h][s].qty < itemCount[h][s]

\* The row has fewer units left than the loop has counted.
Short(h, s) == items[h][s].qty < itemCount[h][s] + 1

\* The loop takes one unit off the row of the next SKU, if it is not short;
\* a SKU without a row is a nil pointer.
CountItem(h) ==
    /\ hpc[h] = "loop"
    /\ next[h] <= Len(request[h])
    /\ LET s == request[h][next[h]]
           it == items[h][s]
       IN  IF it.id = 0
           THEN hpc' = [hpc EXCEPT ![h] = "panic"] /\ UNCHANGED requestVars
           ELSE IF Short(h, s)
           THEN hpc' = [hpc EXCEPT ![h] = "notfound"] /\ UNCHANGED requestVars
           ELSE /\ itemCount' = [itemCount EXCEPT ![h][s] = @ + 1]
                /\ total' = [total EXCEPT ![h] = @ + it.price]
                /\ items' = [items EXCEPT ![h][s].qty = @ - 1]
                /\ next' = [next EXCEPT ![h] = @ + 1]
                /\ UNCHANGED <<hpc, request, gift>>
    /\ UNCHANGED <<inventoryVars, orders>>

\* ApplyPromotions: the stock of the free item is read if a MacBook Pro is
\* among the rows.  Names are unique, so at most one free item is added.
ApplyPromotions(h) ==
    /\ hpc[h] = "loop"
    /\ next[h] > Len(request[h])
    /\ hpc' = [hpc EXCEPT ![h] =
          IF MacBookProPromotion(ItemList(items[h]), inventory[FreeItem].qty) > 0
          THEN "gift" ELSE "commit"]
    /\ UNCHANGED <<inventoryVars, requestVars, orders>>

\* The free item's row is read again; it is added if there is one left over.
AddGift(h) ==
    /\ hpc[h] = "gift"
    /\ LET dbIt == GetItemBySKU(FreeItem)
       IN  IF dbIt.qty < itemCount[h][FreeItem] + 1
           THEN UNCHANGED requestVars
           ELSE /\ gift' = [gift EXCEPT ![h] = [dbIt EXCEPT !.qty = @ - 1]]
                /\ itemCount' = [itemCount EXCEPT ![h][FreeItem] = @ + 1]
                /\ UNCHANGED <<request, next, items, total>>
    /\ hpc' = [hpc EXCEPT ![h] = "commit"]
    /\ UNCHANGED <<inventoryVars, orders>>

\* A fetched row as an item of the statement.
ItemOf(s, row) == [sku |-> s, id |-> row.id, price |-> row.price, qty |-> row.qty]

HeldItems(h) == {ItemOf(s, items[h][s]) : s \in {t \in Skus : items[h][t].id # 0}}

\* What the transaction writes: the fetched rows in any order, as the query
\* leaves it open, and the free item last.
Writes(h) ==
    LET rows == HeldItems(h)
        last == IF gift[h].id = 0 THEN <<>> ELSE <<ItemOf(FreeItem, gift[h])>>
    IN  {list \o last : list \in {l \in [1 .. Cardinality(rows) -> rows] : Range(l) = rows}}

\* Mutant: the free item is charged.
PriceWithGift(h) == total[h] + gift[h].price

Price(h) == total[h] - Deduction(ItemList(items[h]))

\* The transaction: inventory, order and outbox row together.
Commit(h) ==
    /\ hpc[h] = "commit"
    /\ \E list \in Writes(h) : list # <<>> /\ Upserted(list).ok /\ UpsertItems(list)
    /\ orders' = Append(orders, [skus |-> itemCount[h], price |-> Price(h)])
    /\ hpc' = [hpc EXCEPT ![h] = "ok"]
    /\ UNCHANGED requestVars

\* A database call fails, the transaction included: nothing is written.  (A
\* request whose first read fails is answered at once.)
DbError(h) ==
    /\ hpc[h] \in {"loop", "gift", "commit"}
    /\ hpc[h] = "loop" => /\ next[h] > Len(request[h])
                          /\ CountItemsByName(ItemList(items[h]), "MacBook Pro") > 0
    /\ hpc' = [hpc EXCEPT ![h] = "error"]
    /\ UNCHANGED <<inventoryVars, requestVars, orders>>

Next ==
    \/ \E its \in Shipments : AddItems(its) /\ UNCHANGED <<hpc, requestVars, orders>>
    \/ \E h \in Handlers :
          \/ \E skus \in Requests : Fetch(h, skus)
          \/ CountItem(h) \/ ApplyPromotions(h) \/ AddGift(h) \/ Commit(h) \/ DbError(h)

Spec == Init /\ [][Next]_vars

-----------------------------------------------------------------------------
Sold(s) == SumFunction([i \in DOMAIN orders |-> orders[i].skus[s]])

Units(skus, s) == Cardinality({i \in DOMAIN skus : skus[i] = s})

\* The units the request itself takes, without the free item.
Requested(h, s) == itemCount[h][s] - (IF s = FreeItem /\ gift[h].id # 0 THEN 1 ELSE 0)

\* Nothing the handler read has changed since.
Fresh(h) ==
    /\ \A s \in Skus : items[h][s].id # 0 =>
          inventory[s] = [items[h][s] EXCEPT !.qty = @ + Requested(h, s)]
    /\ gift[h].id # 0 => inventory[FreeItem] = [gift[h] EXCEPT !.qty = @ + 1]

\* ItemsPrice: the total quoted for a list of SKUs, -1 if an item is sold out.
ItemsPrice(skus) ==
    LET rows == GetItemsBySKU(Range(skus))
        list == ItemList(rows)
    IN  IF \E s \in DOMAIN list : rows[s].qty < 1 THEN -1
        ELSE SumFunction([s \in DOMAIN list |-> list[s].price]) - Deduction(list)

-----------------------------------------------------------------------------
\* No quantity that reaches the database is negative, whatever the requests
\* interleave with, so its CHECK constraint never refuses one (purchase.go,
\* the two loops; model/items.go, chk_inventory_non_negative).
WritesNonNegative ==
    /\ \A s \in Skus : inventory[s].qty >= 0
    /\ \A h \in Handlers : hpc[h] = "commit" =>
          gift[h].qty >= 0 /\ \A s \in Skus : items[h][s].qty >= 0

\* A purchase that commits before anything it read has changed takes exactly
\* the units its order lists, the free item included, and changes nothing else
\* of any row (purchase.go: the handler writes back whole rows, fetched long
\* before, and lists the SKUs it counted).
FreshPurchaseExact ==
    [][\A h \in Handlers : hpc[h] = "commit" /\ hpc'[h] = "ok" /\ Fresh(h) =>
          \A s \in Skus : inventory'[s] = [inventory[s] EXCEPT !.qty = @ - itemCount[h][s]]]_vars

\* The price quoted for a list is charged, plus the price of every unit after
\* the first of a SKU: the quote counts rows, the order units (item.go
\* ItemsPrice against the loop of purchase.go).
QuoteIsCharge ==
    \A h \in Handlers :
        hpc[h] = "commit" /\ Fresh(h) /\ request[h] # <<>> =>
            Price(h) = ItemsPrice(request[h])
                       + SumFunction([s \in Range(request[h]) |->
                                         (Units(request[h], s) - 1) * inventory[s].price])

\* No purchase of listed SKUs is charged less than its items cost: promotions
\* count the rows of a name, and a name has one row (promotion.go, purchase.go).
NoDiscount ==
    \A h \in Handlers : hpc[h] = "commit" /\ request[h] # <<>> => Price(h) = total[h]

\* How much stock a purchase needs: the loop compares what is left with what
\* it has counted, so k copies of a SKU need 2k - 1 units (purchase.go).
RefusalRule ==
    \A h \in Handlers : LET needed(s) == 2 * Units(request[h], s) - 1 IN
        /\ hpc[h] = "commit" /\ Fresh(h) =>
              \A s \in Skus : needed(s) <= inventory[s].qty
        /\ hpc[h] = "notfound" /\ Fresh(h) =>
              \E s \in Skus : needed(s) > inventory[s].qty

\* Adding items takes another item's row only if the request names the id of
\* that row, or, on Postgres, if that row was itself given an id before the
\* sequence had reached it: an id that was drawn is never drawn again, also
\* after a request that was refused half way (item.go AddItems, which accepts
\* any id; database.go UpsertItems).
ItemsKept ==
    [][\A its \in Shipments : AddItems(its) =>
          \A s \in Listed :
             \/ s \in Listed'
             \/ \E i \in DOMAIN its : inventory[s].id = its[i].id
             \/ Engine = "postgres" /\ inventory[s].id \in ahead]_vars

\* No more units are sold than there were: a purchase fails if concurrent
\* requests would push the quantity below zero.
NoOversell == \A s \in Skus : Sold(s) <= Initial[s].qty

-----------------------------------------------------------------------------
(* The inductive invariant of the proofs. *)

\* No two SKUs share a row.
DistinctIds(rows) ==
    \A s, t \in Skus : rows[s].id # 0 /\ rows[s].id = rows[t].id => s = t

\* The quantities a handler holds are what it has left to write: never
\* negative, and only counted for rows it has.
HeldRows ==
    \A h \in Handlers :
        /\ DistinctIds(items[h])
        /\ hpc[h] \in {"loop", "gift"} => gift[h].id = 0
        /\ gift[h].qty >= 0
        /\ \A s \in Skus :
              /\ items[h][s].qty >= 0
              /\ Requested(h, s) >= 0
              /\ Requested(h, s) > 0 => items[h][s].id # 0

\* The tables and what handlers hold of them are well formed.
RowsInv ==
    /\ PurchaseTypeOK
    /\ DistinctIds(inventory)
    /\ \A s \in Skus : inventory[s].id = 0 => inventory[s] = NoRow
    /\ HeldRows
    /\ WritesNonNegative

\* What the loop over pReq.SKUs has done when it stands at next: it has counted
\* the SKUs before it, k of a SKU only if the row has k - 1 units left, and it
\* ends behind the list or at a SKU that is short.
LoopCounts(h) ==
    /\ hpc[h] \in {"loop", "gift", "commit", "notfound"} =>
          /\ next[h] <= Len(request[h]) + 1
          /\ \A s \in Skus :
                /\ Requested(h, s) = Cardinality({i \in 1 .. next[h] - 1 : request[h][i] = s})
                /\ Requested(h, s) > 0 => items[h][s].qty >= Requested(h, s) - 1
    /\ hpc[h] \in {"gift", "commit"} => next[h] > Len(request[h])
    /\ hpc[h] = "notfound" =>
          /\ next[h] <= Len(request[h]) /\ gift[h].id = 0
          /\ items[h][request[h][next[h]]].id # 0 /\ Short(h, request[h][next[h]])

\* The price of the units counted of each SKU.
Charged(h) == [s \in Skus |-> Requested(h, s) * items[h][s].price]

\* What the loop has added up: the price of every unit it has counted, over
\* the SKUs the request names, the only ones it has rows of.
LoopTotals(h) ==
    hpc[h] \in {"loop", "gift", "commit"} =>
        /\ total[h] = SumFunctionOnSet(Charged(h), Range(request[h]))
        /\ request[h] # <<>> => \A s \in Skus : items[h][s].id # 0 => s \in Range(request[h])

\* An id the sequence has passed, or that Postgres has written ahead of it.
Passed(id) == id < nextItemId \/ (Engine = "postgres" /\ id \in ahead)

\* No row, in the table or held by a handler, has another id.
IdsDrawn ==
    /\ \A s \in Skus : Passed(inventory[s].id)
    /\ \A h \in Handlers : Passed(gift[h].id) /\ \A s \in Skus : Passed(items[h][s].id)

\* The inductive invariant (purchase.go PurchaseItems; database.go UpsertItems).
PurchaseInv ==
    /\ RowsInv
    /\ \A h \in Handlers : LoopCounts(h) /\ LoopTotals(h)
    /\ IdsDrawn

=============================================================================

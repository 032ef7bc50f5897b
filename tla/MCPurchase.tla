----------------------------- MODULE MCPurchase -----------------------------
(* Purchase on a shop of two or three items; others may arrive. *)
EXTENDS Purchase, TLC

Shop == {"mac", "pi", "tv", "new"}

Names == [s \in Shop |-> CASE s = "mac" -> "MacBook Pro" [] s = "pi" -> "Raspberry Pi B"
                           [] s = "tv" -> "Google TV" [] s = "new" -> "New"]

RowOf(i, p, q) == [id |-> i, price |-> p, qty |-> q]

Stock(m, p, t) ==
    [s \in Shop |-> CASE s = "mac" -> RowOf(1, 50, m) [] s = "pi" -> RowOf(2, 3, p)
                      [] s = "tv" -> RowOf(3, 10, t) [] s = "new" -> NoRow]

SmallStock == Stock(2, 3, 2)

\* An empty list and a SKU listed twice, which may have no row, included.
Lists == {<<>>, <<"mac">>, <<"mac", "pi">>, <<"tv", "tv">>}

Ship(i, s, p, q) == [sku |-> s, id |-> i, price |-> p, qty |-> q]

\* A new item together with a restock at a new price; an item with the id of
\* another; an item with an id that the sequence has yet to reach; two new
\* items, of which the first may draw that id and the second be refused.
Deliveries == {<<Ship(0, "new", 7, 1), Ship(1, "mac", 60, 3)>>, <<Ship(1, "new", 7, 1)>>,
               <<Ship(4, "tv", 10, 3)>>, <<Ship(0, "tv", 10, 2), Ship(0, "new", 7, 2)>>}

\* The shop before the television arrives.
TwoItems == [SmallStock EXCEPT !["tv"] = NoRow]

NoShipments == {}

Symmetry == Permutations(Handlers)

=============================================================================

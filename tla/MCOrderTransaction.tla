------------------------- MODULE MCOrderTransaction -------------------------
(* Two purchases, one with a free item, and a restock: two or all three of
   them can wait for each other. *)
EXTENDS OrderTransaction, TLC

CONSTANTS e1, e2, s1

RowsOf == (e1 :> {1, 2, 3}) @@ (e2 :> {2, 3}) @@ (s1 :> {1, 3})
GiftOf == [w \in {e1, e2, s1} |-> IF w = e1 THEN {3} ELSE {}]

=============================================================================

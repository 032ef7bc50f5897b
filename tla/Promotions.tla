----------------------------- MODULE Promotions -----------------------------
(***************************************************************************)
(* The promotions engine (promotions/engine.go, promotion.go).  A list of  *)
(* items is a function from its indices to records with the item's name    *)
(* and price; prices are whole amounts, multiples of ten where a           *)
(* percentage is taken.                                                    *)
(***************************************************************************)
EXTENDS Naturals, FiniteSets, Functions

CountItemsByName(items, name) == Cardinality({i \in DOMAIN items : items[i].name = name})

\* How many free Raspberry Pi B are added, given how many are in stock.
MacBookProPromotion(items, stock) ==
    LET n == CountItemsByName(items, "MacBook Pro")
    IN  IF stock < n THEN 0 ELSE n

\* Mutant: a group of three that is begun counts as whole.
GoogleTVRoundedUp(items) ==
    LET n == CountItemsByName(items, "Google TV")
    IN  SumFunction([i \in DOMAIN items |->
            IF items[i].name = "Google TV" THEN items[i].price * ((n + 2) \div 3) ELSE 0])

GoogleTVPromotion(items) ==
    LET n == CountItemsByName(items, "Google TV")
    IN  SumFunction([i \in DOMAIN items |->
            IF items[i].name = "Google TV" /\ n >= 3 THEN items[i].price * (n \div 3) ELSE 0])

AlexaSpeakerPromotion(items) ==
    LET n == CountItemsByName(items, "Alexa Speaker")
    IN  SumFunction([i \in DOMAIN items |->
            IF items[i].name = "Alexa Speaker" /\ n > 3 THEN (items[i].price * n) \div 10 ELSE 0])

\* The deductions of the registered promotions, added up.
Deduction(items) == GoogleTVPromotion(items) + AlexaSpeakerPromotion(items)

=============================================================================

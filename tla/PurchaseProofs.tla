--------------------------- MODULE PurchaseProofs ---------------------------
(* The safety properties of module Purchase, for all its constants. *)
EXTENDS Purchase, FiniteSetTheorems, WellFoundedInduction, TLAPS

-----------------------------------------------------------------------------
(* The upsert statement, row by row. *)

\* The least of a set of numbers: the form that induction over data takes here.
LEMMA LeastNumber ==
    ASSUME NEW T, T \subseteq Nat, T # {}
    PROVE  \E n \in T : \A m \in T : n <= m
<1>1. PICK n \in T : \A m \in T : ~(<<m, n>> \in OpToRel(<, Nat))
  BY NatLessThanWellFounded, WFMin, Zenon
<1>2. \A m \in T : ~(m < n)
  BY <1>1, Zenon DEF OpToRel
<1> QED
  BY <1>2

\* f passes through the rows of a list (the recursion of Upserted).
Runs(f, list, n) == f[0] = Begin /\ \A k \in 1 .. n : f[k] = UpsertRow(f[k - 1], list[k])

\* The recursion has a solution.
LEMMA RunExists ==
    ASSUME NEW list, NEW m \in Nat
    PROVE  \E f : Runs(f, list, m)
<1> DEFINE Upto(n) == \E f : Runs(f, list, n)
           bad == {n \in Nat : ~Upto(n)}
<1> SUFFICES ASSUME bad # {} PROVE FALSE
  BY Zenon
<1>1. PICK n \in bad : \A l \in bad : n <= l
  BY LeastNumber, Zenon
<1>2. n \in Nat /\ ~Upto(n)
  BY <1>1, Zenon
<1>3. CASE n = 0
  <2> DEFINE f == [k \in {0} |-> Begin]
  <2>1. f[0] = Begin /\ 1 .. n = {}
    BY <1>3
  <2>2. Runs(f, list, n)
    BY <2>1, Zenon DEF Runs
  <2> QED
    BY <1>2, <2>2, Zenon
<1>4. CASE n # 0
  <2>1. n - 1 \in Nat /\ ~(n <= n - 1)
    BY <1>2, <1>4
  <2>2. PICK f : Runs(f, list, n - 1)
    BY <1>1, <2>1, Zenon
  <2> DEFINE g == [k \in 0 .. n |-> IF k = n THEN UpsertRow(f[n - 1], list[n]) ELSE f[k]]
  <2>3. g[0] = f[0] /\ g[n] = UpsertRow(f[n - 1], list[n]) /\ \A k \in 1 .. n : g[k - 1] = f[k - 1]
    BY <1>2, <1>4
  <2>4. \A k \in 1 .. n : k # n => k \in 1 .. n - 1 /\ g[k] = f[k]
    BY <1>2
  <2> HIDE DEF g
  <2>5. ASSUME NEW k \in 1 .. n PROVE g[k] = UpsertRow(g[k - 1], list[k])
    <3>1. CASE k = n
      BY <2>3, <2>5, <3>1, Zenon
    <3>2. CASE k # n
      BY <2>2, <2>3, <2>4, <2>5, <3>2, Zenon DEF Runs
    <3> QED
      BY <3>1, <3>2, Zenon
  <2>6. Runs(g, list, n)
    BY <2>2, <2>3, <2>5, Zenon DEF Runs
  <2> QED
    BY <1>2, <2>6, Zenon
<1> QED
  BY <1>3, <1>4, Zenon

\* So Upserted is where such a run ends.
LEMMA UpsertedRuns ==
    ASSUME NEW list, Len(list) \in Nat
    PROVE  \E f : Runs(f, list, Len(list)) /\ Upserted(list) = f[Len(list)]
<1> DEFINE n == Len(list)
           Is(f) == f = [k \in 0 .. n |-> IF k = 0 THEN Begin ELSE UpsertRow(f[k - 1], list[k])]
<1>1. PICK f : Runs(f, list, n)
  BY RunExists, Zenon
<1> DEFINE g == [k \in 0 .. n |-> f[k]]
<1>2. \A k \in 0 .. n : k # 0 => k \in 1 .. n /\ k - 1 \in 0 .. n
  OBVIOUS
<1>3. 0 \in 0 .. n /\ n \in 0 .. n /\ \A k \in 1 .. n : k \in 0 .. n /\ k # 0
  OBVIOUS
<1>4. ASSUME NEW k \in 0 .. n PROVE g[k] = IF k = 0 THEN Begin ELSE UpsertRow(g[k - 1], list[k])
  BY <1>1, <1>2, <1>4, Zenon DEF Runs
<1>5. Is(g)
  BY <1>4, Zenon
<1> DEFINE after == CHOOSE after : Is(after)
<1>6. Is(after)
  BY <1>5, Zenon
<1>7. Upserted(list) = after[n]
  BY DEF Upserted
<1> HIDE DEF after
<1>8. Runs(after, list, n)
  BY <1>3, <1>6, Zenon DEF Runs
<1> QED
  BY <1>7, <1>8, Zenon

\* What a statement may be at any row.
Statements == [table : [Skus -> Row], next : Nat \ {0}, ahead : SUBSET Nat, written : SUBSET Nat, ok : BOOLEAN]

\* A table whose rows are well formed.
Sound(table) ==
    /\ DistinctIds(table)
    /\ \A s \in Skus : table[s].qty >= 0 /\ (table[s].id = 0 => table[s] = NoRow)

\* No row of the table has an id that the sequence has yet to reach, but those
\* that Postgres wrote ahead of it.
AllPassed(table, nxt, hd) ==
    \A s \in Skus : table[s].id < nxt \/ (Engine = "postgres" /\ table[s].id \in hd)

\* What every row of a statement preserves.
Good(st) ==
    /\ st \in Statements /\ Sound(st.table)
    /\ st.next >= nextItemId /\ ahead \subseteq st.ahead
    /\ AllPassed(inventory, nextItemId, ahead) => AllPassed(st.table, st.next, st.ahead)

\* The row that an item becomes.
RowFor(st, it) == [id |-> IdOf(st, it), price |-> it.price, qty |-> it.qty]

\* The three things that may become of a row.
RowSkipped(st, nt) == ~st.ok /\ nt = st
RowRefused(st, it, nt) ==
    /\ Refused(st, it) /\ ~nt.ok
    /\ nt.table = st.table /\ nt.next = NextAfter(st, it) /\ nt.ahead = st.ahead /\ nt.written = st.written
RowWritten(st, it, nt) ==
    /\ ~Refused(st, it) /\ st.ok /\ nt.ok
    /\ nt.table = Replace(st.table, it.sku, RowFor(st, it)) /\ nt.next = NextAfter(st, it)
    /\ nt.ahead = IF IdOf(st, it) < NextAfter(st, it) THEN st.ahead ELSE st.ahead \cup {IdOf(st, it)}
    /\ nt.written = st.written \cup {IdOf(st, it)}

\* The ids that an item draws or brings, and what it leaves of the sequence.
LEMMA IdFacts ==
    ASSUME NEW st \in Statements, NEW it \in Item
    PROVE  /\ IdOf(st, it) \in Nat \ {0} /\ NextAfter(st, it) \in Nat \ {0} /\ NextAfter(st, it) >= st.next
           /\ IdOf(st, it) < NextAfter(st, it) \/ Engine = "postgres"
           /\ it.id = 0 => IdOf(st, it) = st.next
           /\ it.id # 0 => IdOf(st, it) = it.id
<1>1. st.next \in Nat \ {0} /\ it.id \in Nat
  BY Zenon DEF Statements, Item
<1>2. Engine \in {"postgres", "sqlite"}
  BY InventoryAssumption, Zenon
<1> QED
  BY <1>1, <1>2 DEF IdOf, NextAfter

LEMMA RowCases ==
    ASSUME NEW st \in Statements, NEW it \in Item, NEW nt, nt = UpsertRow(st, it)
    PROVE  /\ nt \in Statements
           /\ RowSkipped(st, nt) \/ RowRefused(st, it, nt) \/ RowWritten(st, it, nt)
<1>1. IdOf(st, it) \in Nat \ {0} /\ NextAfter(st, it) \in Nat \ {0}
  BY IdFacts, Zenon
<1>2. it.sku \in Skus /\ it.price \in Nat /\ it.qty \in Int
  BY Zenon DEF Item
<1>3. /\ st.table \in [Skus -> Row] /\ st.next \in Nat \ {0} /\ st.ahead \in SUBSET Nat
      /\ st.written \in SUBSET Nat /\ st.ok \in BOOLEAN
  BY Zenon DEF Statements
<1>4. CASE ~st.ok
  BY <1>4, Zenon DEF UpsertRow, RowSkipped
<1>5. CASE st.ok /\ Refused(st, it)
  <2> DEFINE u == [st EXCEPT !.next = NextAfter(st, it)]
  <2>1. nt = [u EXCEPT !.ok = FALSE]
    BY <1>5, Zenon DEF UpsertRow
  <2>a. u = [table |-> st.table, next |-> NextAfter(st, it), ahead |-> st.ahead, written |-> st.written, ok |-> st.ok]
    BY DEF Statements
  <2> HIDE DEF u
  <2>2. nt = [table |-> st.table, next |-> NextAfter(st, it), ahead |-> st.ahead, written |-> st.written, ok |-> FALSE]
    BY <2>1, <2>a, Zenon
  <2>3. RowRefused(st, it, nt)
    BY <1>5, <2>2 DEF RowRefused
  <2>4. nt \in Statements
    BY <1>1, <1>3, <2>2 DEF Statements
  <2> QED
    BY <2>3, <2>4, Zenon
<1>6. CASE st.ok /\ ~Refused(st, it)
  <2> DEFINE row == RowFor(st, it)
             hd == IF IdOf(st, it) < NextAfter(st, it) THEN st.ahead ELSE st.ahead \cup {IdOf(st, it)}
  <2>1. row \in Row /\ row.id = IdOf(st, it)
    BY <1>1, <1>2, Zenon DEF RowFor, Row
  <2>2. NoRow \in Row
    BY DEF NoRow, Row
  <2>3. Replace(st.table, it.sku, row) \in [Skus -> Row]
    BY <1>3, <2>1, <2>2, Zenon DEF Replace
  <2>4. hd \in SUBSET Nat /\ st.written \cup {IdOf(st, it)} \in SUBSET Nat
    BY <1>1, <1>3, Zenon
  <2>5. nt = [table |-> Replace(st.table, it.sku, row), next |-> NextAfter(st, it),
              ahead |-> hd, written |-> st.written \cup {IdOf(st, it)}, ok |-> TRUE]
    BY <1>6, <2>1, Zenon DEF UpsertRow, RowFor
  <2> HIDE DEF hd, row
  <2>6. nt \in Statements
    BY <1>1, <2>3, <2>4, <2>5 DEF Statements
  <2>7. RowWritten(st, it, nt)
    BY <1>6, <2>5 DEF RowWritten, hd, row
  <2> QED
    BY <2>6, <2>7, Zenon
<1> QED
  BY <1>3, <1>4, <1>5, <1>6, Zenon

\* A row that is written takes its place and no other.
LEMMA ReplaceSound ==
    ASSUME NEW table \in [Skus -> Row], Sound(table), NEW s \in Skus, NEW row \in Row,
           row.id # 0, row.qty >= 0
    PROVE  Sound(Replace(table, s, row))
<1> DEFINE new == Replace(table, s, row)
<1>1. NoRow.id = 0 /\ NoRow.qty >= 0
  BY DEF NoRow
<1>2. \A t \in Skus : new[t] = IF t = s THEN row ELSE IF table[t].id = row.id THEN NoRow ELSE table[t]
  BY Zenon DEF Replace
<1> HIDE DEF new
<1>3. ASSUME NEW t \in Skus, NEW u \in Skus, new[t].id # 0, new[t].id = new[u].id
      PROVE  t = u
  <2>1. CASE t = s \/ u = s
    BY <1>1, <1>2, <1>3, <2>1, Zenon
  <2>2. CASE t # s /\ u # s
    BY <1>1, <1>2, <1>3, <2>2, Zenon DEF Sound, DistinctIds
  <2> QED
    BY <2>1, <2>2, Zenon
<1>4. \A t \in Skus : new[t].qty >= 0 /\ (new[t].id = 0 => new[t] = NoRow)
  BY <1>1, <1>2, Zenon DEF Sound
<1> QED
  BY <1>3, <1>4, Zenon DEF Sound, DistinctIds, new

\* The row of an item.
LEMMA RowForType ==
    ASSUME NEW st \in Statements, NEW it \in Item
    PROVE  /\ RowFor(st, it) \in Row /\ RowFor(st, it).id = IdOf(st, it) /\ RowFor(st, it).qty = it.qty
           /\ RowFor(st, it).price = it.price
<1>1. IdOf(st, it) \in Nat /\ it.price \in Nat /\ it.qty \in Int
  BY IdFacts, Zenon DEF Item
<1> QED
  BY <1>1, Zenon DEF RowFor, Row

LEMMA RowGood ==
    ASSUME nextItemId \in Nat \ {0}, NEW st, Good(st), NEW it \in Item, NEW nt, nt = UpsertRow(st, it)
    PROVE  Good(nt)
<1>1. st \in Statements /\ nt \in Statements
  BY RowCases, Zenon DEF Good
<1> DEFINE id == IdOf(st, it)
           nxt == NextAfter(st, it)
<1>2. /\ id \in Nat \ {0} /\ nxt \in Nat \ {0} /\ nxt >= st.next
      /\ id < nxt \/ Engine = "postgres"
  BY <1>1, IdFacts, Zenon
<1>3. /\ st.next \in Nat /\ st.table \in [Skus -> Row] /\ \A s \in Skus : st.table[s].id \in Nat
      /\ it.sku \in Skus /\ it.qty \in Int
  BY <1>1, Zenon DEF Statements, Row, Item
<1>4. CASE RowSkipped(st, nt)
  BY <1>4, Zenon DEF RowSkipped
<1> HIDE DEF id, nxt
<1>5. st.next >= nextItemId /\ nxt >= nextItemId
  BY <1>2, <1>3 DEF Good
<1>6. CASE RowRefused(st, it, nt)
  <2>1. nt.table = st.table /\ nt.next = nxt /\ nt.ahead = st.ahead
    BY <1>6, Zenon DEF RowRefused, nxt
  <2>2. AllPassed(st.table, st.next, st.ahead) => AllPassed(nt.table, nt.next, nt.ahead)
    BY <1>2, <1>3, <2>1 DEF AllPassed
  <2> QED
    BY <1>1, <1>5, <2>1, <2>2, Zenon DEF Good
<1>7. CASE RowWritten(st, it, nt)
  <2> DEFINE row == RowFor(st, it)
  <2>1. /\ nt.table = Replace(st.table, it.sku, row) /\ nt.next = nxt
        /\ nt.ahead = IF id < nxt THEN st.ahead ELSE st.ahead \cup {id}
    BY <1>7, Zenon DEF RowWritten, id, nxt
  <2>2. row \in Row /\ row.id = id /\ row.qty >= 0
    <3>1. row \in Row /\ row.id = id /\ row.qty = it.qty
      BY <1>1, RowForType, Zenon DEF id
    <3>2. ~(it.qty < 0)
      BY <1>7, Zenon DEF RowWritten, Refused
    <3> QED
      BY <1>3, <3>1, <3>2
  <2> HIDE DEF row
  <2>3. Sound(nt.table)
    <3>1. Sound(st.table) /\ row.id # 0
      BY <1>2, <2>2, Zenon DEF Good
    <3>2. Sound(Replace(st.table, it.sku, row))
      BY <1>3, <2>2, <3>1, ReplaceSound, Zenon
    <3> QED
      BY <2>1, <3>2, Zenon
  <2>4. st.ahead \subseteq nt.ahead /\ (id < nxt \/ (Engine = "postgres" /\ id \in nt.ahead))
    BY <1>2, <2>1, Zenon
  <2>5. ASSUME AllPassed(st.table, st.next, st.ahead), NEW s \in Skus
        PROVE  nt.table[s].id < nt.next \/ (Engine = "postgres" /\ nt.table[s].id \in nt.ahead)
    <3>1. nt.table[s] \in {row, NoRow, st.table[s]}
      BY <2>1, <2>5, Zenon DEF Replace
    <3>2. CASE nt.table[s] = row
      BY <2>1, <2>2, <2>4, <3>2, Zenon
    <3>3. CASE nt.table[s] = NoRow
      BY <1>2, <2>1, <3>3 DEF NoRow
    <3>4. CASE nt.table[s] = st.table[s]
      <4>1. st.table[s].id < st.next => st.table[s].id < nxt
        BY <1>2, <1>3, <2>5
      <4> QED
        BY <2>1, <2>4, <2>5, <3>4, <4>1, Zenon DEF AllPassed
    <3> QED
      BY <3>1, <3>2, <3>3, <3>4, Zenon
  <2> QED
    BY <1>1, <1>5, <2>1, <2>3, <2>4, <2>5, Zenon DEF Good, AllPassed
<1> QED
  BY <1>1, <1>4, <1>6, <1>7, RowCases, Zenon

\* A statement that starts on a well-formed table is good.
LEMMA BeginGood ==
    ASSUME RowsInv
    PROVE  Good(Begin)
<1>1. inventory \in [Skus -> Row] /\ nextItemId \in Nat \ {0} /\ ahead \subseteq Nat
  BY Zenon DEF RowsInv, PurchaseTypeOK
<1>2. /\ Begin.table = inventory /\ Begin.next = nextItemId /\ Begin.ahead = ahead
      /\ Begin.written = {} /\ Begin.ok = TRUE
  BY DEF Begin
<1>3. Begin \in Statements
  BY <1>1 DEF Begin, Statements
<1>4. Sound(inventory)
  BY Zenon DEF RowsInv, WritesNonNegative, Sound
<1>5. nextItemId >= nextItemId
  BY <1>1
<1> QED
  BY <1>2, <1>3, <1>4, <1>5, Zenon DEF Good

\* So is every row of it.
LEMMA RunGood ==
    ASSUME RowsInv, NEW list \in Seq(Item), NEW f, Runs(f, list, Len(list)), NEW k \in 0 .. Len(list)
    PROVE  Good(f[k])
<1> DEFINE bad == {i \in Nat : i <= Len(list) /\ ~Good(f[i])}
<1>1. Len(list) \in Nat /\ nextItemId \in Nat \ {0}
  BY DEF RowsInv, PurchaseTypeOK
<1>2. bad = {}
  <2> SUFFICES ASSUME bad # {} PROVE FALSE
    BY Zenon
  <2>1. PICK n \in bad : \A m \in bad : n <= m
    BY LeastNumber, Zenon
  <2>2. n \in Nat /\ n <= Len(list) /\ ~Good(f[n])
    BY <2>1, Zenon
  <2>3. n # 0
    BY <2>2, BeginGood, Zenon DEF Runs
  <2>4. n \in 1 .. Len(list) /\ n - 1 \in Nat /\ n - 1 <= Len(list) /\ ~(n <= n - 1) /\ list[n] \in Item
    BY <1>1, <2>2, <2>3
  <2>5. Good(f[n - 1])
    BY <2>1, <2>4, Zenon
  <2>6. f[n] = UpsertRow(f[n - 1], list[n])
    BY <2>4, Zenon DEF Runs
  <2> QED
    BY <1>1, <2>2, <2>4, <2>5, <2>6, RowGood, Zenon
<1>3. k \in Nat /\ k <= Len(list)
  BY <1>1
<1> QED
  BY <1>2, <1>3, Zenon

\* What a statement leaves of the table and of the sequence.
LEMMA StatementKeeps ==
    ASSUME RowsInv, NEW list \in Seq(Item), UpsertItems(list)
    PROVE  /\ inventory' \in [Skus -> Row] /\ nextItemId' \in Nat \ {0} /\ ahead' \subseteq Nat
           /\ Sound(inventory')
           /\ nextItemId' >= nextItemId /\ ahead \subseteq ahead'
           /\ AllPassed(inventory, nextItemId, ahead) => AllPassed(inventory', nextItemId', ahead')
<1>1. Len(list) \in Nat /\ Len(list) \in 0 .. Len(list)
  OBVIOUS
<1>2. PICK f : Runs(f, list, Len(list)) /\ Upserted(list) = f[Len(list)]
  BY <1>1, UpsertedRuns, Zenon
<1> DEFINE st == Upserted(list)
<1>3. Good(st) /\ Good(Begin)
  BY <1>1, <1>2, RunGood, BeginGood, Zenon
<1>4. /\ inventory' = IF st.ok THEN st.table ELSE inventory
      /\ nextItemId' = IF st.ok \/ Engine = "postgres" THEN st.next ELSE nextItemId
      /\ ahead' = IF st.ok THEN st.ahead ELSE ahead
  BY Zenon DEF UpsertItems
<1> HIDE DEF st
<1>5. /\ inventory \in [Skus -> Row] /\ nextItemId \in Nat \ {0} /\ ahead \subseteq Nat /\ Sound(inventory)
      /\ \A s \in Skus : inventory[s].id \in Nat
  BY Zenon DEF RowsInv, PurchaseTypeOK, WritesNonNegative, Sound, Row
<1>6. /\ st.table \in [Skus -> Row] /\ st.next \in Nat \ {0} /\ st.ahead \subseteq Nat /\ Sound(st.table)
      /\ st.next >= nextItemId /\ ahead \subseteq st.ahead
      /\ AllPassed(inventory, nextItemId, ahead) => AllPassed(st.table, st.next, st.ahead)
  BY <1>3, Zenon DEF Good, Statements
<1>7. nextItemId >= nextItemId
  BY <1>5
<1>8. AllPassed(inventory, nextItemId, ahead) => AllPassed(inventory, st.next, ahead)
  BY <1>5, <1>6 DEF AllPassed
<1>9. CASE st.ok
  BY <1>4, <1>6, <1>9, Zenon
<1>10. CASE ~st.ok /\ Engine = "postgres"
  BY <1>4, <1>5, <1>6, <1>8, <1>10, Zenon
<1>11. CASE ~st.ok /\ Engine # "postgres"
  BY <1>4, <1>5, <1>7, <1>11, Zenon
<1> QED
  BY <1>9, <1>10, <1>11, Zenon

\* A listed SKU keeps its row, if no item of the list names its id and the
\* sequence has passed it.
LEMMA RunKeepsRow ==
    ASSUME RowsInv, NEW list \in Seq(Item), NEW f, Runs(f, list, Len(list)), NEW k \in 0 .. Len(list),
           NEW s \in Skus, inventory[s].id # 0, inventory[s].id < nextItemId,
           \A i \in DOMAIN list : list[i].id # inventory[s].id
    PROVE  f[k].table[s].id = inventory[s].id
<1> DEFINE bad == {i \in Nat : i <= Len(list) /\ f[i].table[s].id # inventory[s].id}
<1>1. Len(list) \in Nat /\ DOMAIN list = 1 .. Len(list)
  OBVIOUS
<1>2. bad = {}
  <2> SUFFICES ASSUME bad # {} PROVE FALSE
    BY Zenon
  <2>1. PICK n \in bad : \A m \in bad : n <= m
    BY LeastNumber, Zenon
  <2>2. n \in Nat /\ n <= Len(list) /\ f[n].table[s].id # inventory[s].id
    BY <2>1, Zenon
  <2>3. n # 0
    <3>1. Begin.table = inventory
      BY DEF Begin
    <3> QED
      BY <2>2, <3>1, Zenon DEF Runs
  <2>4. n \in 1 .. Len(list) /\ n - 1 \in Nat /\ n - 1 <= Len(list) /\ ~(n <= n - 1)
        /\ n - 1 \in 0 .. Len(list) /\ list[n] \in Item /\ n \in DOMAIN list
    BY <1>1, <2>2, <2>3
  <2> DEFINE st == f[n - 1]
             it == list[n]
  <2>5. Good(st) /\ st.table[s].id = inventory[s].id
    BY <2>1, <2>4, RunGood, Zenon
  <2>6. f[n] = UpsertRow(st, it) /\ it \in Item /\ it.id # inventory[s].id
    BY <2>4, Zenon DEF Runs
  <2> HIDE DEF st, it
  <2>7. st \in Statements /\ st.next \in Nat /\ st.next >= nextItemId /\ st.table[s] \in Row
    BY <2>5, Zenon DEF Good, Statements
  <2>8. RowWritten(st, it, f[n])
    <3>1. f[n].table[s].id # st.table[s].id
      BY <2>2, <2>5, Zenon
    <3>2. RowSkipped(st, f[n]) \/ RowRefused(st, it, f[n]) \/ RowWritten(st, it, f[n])
      BY <2>6, <2>7, RowCases, Zenon
    <3> QED
      BY <3>1, <3>2, Zenon DEF RowSkipped, RowRefused
  <2>9. IdOf(st, it) # inventory[s].id
    <3>1. inventory[s].id \in Nat /\ nextItemId \in Nat
      BY Zenon DEF RowsInv, PurchaseTypeOK, Row
    <3>2. st.next # inventory[s].id
      BY <2>7, <3>1
    <3> QED
      BY <2>6, <2>7, <3>2, IdFacts, Zenon
  <2>10. it.sku # s
    BY <2>5, <2>8, <2>9, Zenon DEF RowWritten, Refused
  <2>11. f[n].table[s] = st.table[s]
    <3>1. RowFor(st, it).id = IdOf(st, it)
      BY <2>6, <2>7, RowForType, Zenon
    <3> QED
      BY <2>5, <2>8, <2>9, <2>10, <3>1, Zenon DEF RowWritten, Replace
  <2> QED
    BY <2>2, <2>5, <2>11, Zenon
<1>3. k \in Nat /\ k <= Len(list)
  BY <1>1
<1> QED
  BY <1>2, <1>3, Zenon

\* The row an item with an id becomes.
ItemRow(it) == [id |-> it.id, price |-> it.price, qty |-> it.qty]

\* The table after the first k items of a list whose ids are those of the table.
FreshAt(st, list, k) ==
    st.ok =>
        /\ \A i \in DOMAIN list : i <= k => list[i].id \in st.written /\ st.table[list[i].sku] = ItemRow(list[i])
        /\ \A i, j \in DOMAIN list : i <= k /\ j <= k /\ list[i].id = list[j].id => i = j
        /\ \A s \in Skus : \/ st.table[s] = inventory[s]
                           \/ \E i \in DOMAIN list : i <= k /\ list[i].sku = s
        /\ \A s \in Skus : st.table[s].id = inventory[s].id

\* Postgres writes every item of such a list, each on its own row, or refuses it.
LEMMA RunFresh ==
    ASSUME Engine = "postgres", RowsInv, NEW list \in Seq(Item), NEW f, Runs(f, list, Len(list)),
           NEW k \in 0 .. Len(list),
           \A i \in DOMAIN list : list[i].id # 0 /\ inventory[list[i].sku].id = list[i].id
    PROVE  FreshAt(f[k], list, k)
<1> DEFINE bad == {i \in Nat : i <= Len(list) /\ ~FreshAt(f[i], list, i)}
<1>1. Len(list) \in Nat /\ DOMAIN list = 1 .. Len(list)
  OBVIOUS
<1>2. bad = {}
  <2> SUFFICES ASSUME bad # {} PROVE FALSE
    BY Zenon
  <2>1. PICK n \in bad : \A m \in bad : n <= m
    BY LeastNumber, Zenon
  <2>2. n \in Nat /\ n <= Len(list) /\ ~FreshAt(f[n], list, n)
    BY <2>1, Zenon
  <2>3. n # 0
    <3>1. Begin.table = inventory
      BY DEF Begin
    <3>2. \A i \in DOMAIN list : ~(i <= 0)
      BY <1>1
    <3> QED
      BY <2>2, <3>1, <3>2, Zenon DEF Runs, FreshAt
  <2>4. n \in 1 .. Len(list) /\ n - 1 \in Nat /\ n - 1 <= Len(list) /\ ~(n <= n - 1)
        /\ n - 1 \in 0 .. Len(list) /\ list[n] \in Item /\ n \in DOMAIN list /\ n <= n
    BY <1>1, <2>2, <2>3
  <2> DEFINE st == f[n - 1]
             nt == f[n]
             it == list[n]
  <2>5. Good(st) /\ FreshAt(st, list, n - 1)
    BY <2>1, <2>4, RunGood, Zenon
  <2>6. nt = UpsertRow(st, it) /\ it \in Item /\ it.id # 0 /\ inventory[it.sku].id = it.id
    BY <2>4, Zenon DEF Runs
  <2>a. it = list[n] /\ ~FreshAt(nt, list, n)
    BY <2>2, Zenon
  <2> HIDE DEF st, it, nt
  <2>7. st \in Statements /\ it.sku \in Skus
    BY <2>5, <2>6, Zenon DEF Good, Item
  <2>8. nt.ok
    BY <2>a, Zenon DEF FreshAt
  <2>9. RowWritten(st, it, nt)
    <3>1. RowSkipped(st, nt) \/ RowRefused(st, it, nt) \/ RowWritten(st, it, nt)
      BY <2>6, <2>7, RowCases, Zenon
    <3> QED
      BY <2>8, <3>1, Zenon DEF RowSkipped, RowRefused
  <2>10. IdOf(st, it) = it.id /\ RowFor(st, it) = ItemRow(it) /\ ItemRow(it).id = it.id
    <3>1. IdOf(st, it) = it.id
      BY <2>6, <2>7, IdFacts, Zenon
    <3>2. RowFor(st, it) = ItemRow(it)
      BY <3>1, Zenon DEF RowFor, ItemRow
    <3>3. ItemRow(it).id = it.id
      BY DEF ItemRow
    <3> QED
      BY <3>1, <3>2, <3>3, Zenon
  <2>11. /\ st.ok /\ it.id \notin st.written /\ nt.written = st.written \cup {it.id}
         /\ nt.table = Replace(st.table, it.sku, ItemRow(it))
    BY <2>9, <2>10, Zenon DEF RowWritten, Refused, WrittenTwice
  <2>12. nt.table[it.sku] = ItemRow(it) /\ \A s \in Skus : s # it.sku => nt.table[s] = st.table[s]
    <3>1. \A s \in Skus : st.table[s].id = inventory[s].id
      BY <2>5, <2>11, Zenon DEF FreshAt
    <3>2. DistinctIds(inventory)
      BY Zenon DEF RowsInv
    <3>3. \A s \in Skus : s # it.sku => st.table[s].id # it.id
      BY <2>6, <2>7, <3>1, <3>2, ZenonT(30) DEF DistinctIds
    <3>4. \A s \in Skus : nt.table[s] = IF s = it.sku THEN ItemRow(it)
                                       ELSE IF st.table[s].id = ItemRow(it).id THEN NoRow ELSE st.table[s]
      <4>1. nt.table = Replace(st.table, it.sku, ItemRow(it))
        BY <2>11, Zenon
      <4> QED
        BY <4>1 DEF Replace
    <3> QED
      BY <2>7, <2>10, <3>3, <3>4, ZenonT(30)
  <2>13. ASSUME NEW i \in DOMAIN list, i <= n
         PROVE  list[i].id \in nt.written /\ nt.table[list[i].sku] = ItemRow(list[i])
    <3>1. CASE i = n
      BY <2>a, <2>11, <2>12, <3>1, Zenon
    <3>2. CASE i # n
      <4>1. i <= n - 1
        BY <1>1, <2>2, <2>13, <3>2, SMTT(30)
      <4>2. list[i].id \in st.written /\ st.table[list[i].sku] = ItemRow(list[i])
        BY <2>5, <2>11, <4>1, Zenon DEF FreshAt
      <4>3. list[i].sku # it.sku
        BY <2>6, <2>11, <4>2, Zenon
      <4>a. list[i] \in Item
        BY <2>13
      <4>4. list[i].sku \in Skus
        BY <4>a, Zenon DEF Item
      <4> QED
        BY <2>11, <2>12, <4>2, <4>3, <4>4, Zenon
    <3> QED
      BY <3>1, <3>2, Zenon
  <2>b. ASSUME NEW i \in DOMAIN list, NEW j \in DOMAIN list, i <= n, j <= n, list[i].id = list[j].id
        PROVE  i = j
    <3>1. \A m \in DOMAIN list : m <= n => m = n \/ m <= n - 1
      BY <1>1, <2>2
    <3>2. \A m \in DOMAIN list : m <= n - 1 => list[m].id \in st.written
      BY <2>5, <2>11, Zenon DEF FreshAt
    <3>3. CASE i <= n - 1 /\ j <= n - 1
      BY <2>5, <2>11, <2>b, <3>3, Zenon DEF FreshAt
    <3> QED
      BY <2>11, <2>a, <2>b, <3>1, <3>2, <3>3, Zenon
  <2>14. ASSUME NEW s \in Skus
         PROVE  /\ nt.table[s] = inventory[s] \/ \E i \in DOMAIN list : i <= n /\ list[i].sku = s
                /\ nt.table[s].id = inventory[s].id
    <3>1. CASE s = it.sku
      BY <2>4, <2>6, <2>10, <2>12, <2>a, <3>1, Zenon
    <3>2. CASE s # it.sku
      <4>1. \A i \in DOMAIN list : i <= n - 1 => i <= n
        BY <1>1, <2>2
      <4>2. st.table[s] = inventory[s] \/ \E i \in DOMAIN list : i <= n - 1 /\ list[i].sku = s
        BY <2>5, <2>11, Zenon DEF FreshAt
      <4>3. nt.table[s] = st.table[s] /\ st.table[s].id = inventory[s].id
        BY <2>5, <2>11, <2>12, <3>2, Zenon DEF FreshAt
      <4> QED
        BY <4>1, <4>2, <4>3, Zenon
    <3> QED
      BY <3>1, <3>2, Zenon
  <2> QED
    BY <2>13, <2>14, <2>a, <2>b, Zenon DEF FreshAt
<1>3. k \in Nat /\ k <= Len(list)
  BY <1>1
<1> QED
  BY <1>2, <1>3, Zenon

\* The items a handler writes are the rows it holds and the free item.
LEMMA WritesAreItems ==
    ASSUME RowsInv, NEW h \in Handlers, NEW list \in Writes(h)
    PROVE  /\ list \in Seq(Item)
           /\ \A i \in DOMAIN list : \/ list[i] \in HeldItems(h)
                                     \/ gift[h].id # 0 /\ list[i] = ItemOf(FreeItem, gift[h])
           /\ \A it \in HeldItems(h) : \E i \in DOMAIN list : list[i] = it /\ (gift[h].id # 0 => i # Len(list))
           /\ gift[h].id # 0 => Len(list) \in DOMAIN list /\ list[Len(list)] = ItemOf(FreeItem, gift[h])
<1> DEFINE rows == HeldItems(h)
           free == ItemOf(FreeItem, gift[h])
           last == IF gift[h].id = 0 THEN <<>> ELSE <<free>>
           held == {t \in Skus : items[h][t].id # 0}
<1>1. items[h] \in [Skus -> Row] /\ gift[h] \in Row /\ FreeItem \in Skus /\ IsFiniteSet(Skus)
  BY InventoryAssumption, PurchaseAssumption, Zenon DEF RowsInv, PurchaseTypeOK
<1>2. \A s \in Skus, r \in Row : ItemOf(s, r) \in Item
  BY DEF ItemOf, Row, Item
<1>3. rows \subseteq Item /\ free \in Item
  BY <1>1, <1>2, Zenon DEF HeldItems
<1>4. IsFiniteSet(rows)
  <2> DEFINE g == [s \in held |-> ItemOf(s, items[h][s])]
  <2>1. g \in Surjection(held, rows)
    BY Zenon DEF Surjection, HeldItems
  <2>2. IsFiniteSet(held)
    BY <1>1, FS_Subset, Zenon
  <2> QED
    BY <2>1, <2>2, FS_Surjection, Zenon
<1>5. Cardinality(rows) \in Nat
  BY <1>4, FS_CardinalityType, Zenon
<1>6. PICK l \in [1 .. Cardinality(rows) -> rows] : Range(l) = rows /\ list = l \o last
  BY Zenon DEF Writes
<1> DEFINE n == Cardinality(rows)
<1> HIDE DEF rows, free, held, n
<1>7. n \in Nat /\ l \in [1 .. n -> rows] /\ Range(l) = rows
  BY <1>5, <1>6, Zenon DEF n
<1>8. l \in Seq(rows) /\ Len(l) = n /\ DOMAIN l = 1 .. n
  BY <1>7
<1>9. l \in Seq(Item)
  BY <1>3, <1>8
<1>10. \A it \in rows : \E i \in 1 .. n : l[i] = it
  BY <1>7, <1>8, Zenon DEF Range
<1>11. CASE gift[h].id = 0
  <2>1. list = l \o <<>>
    BY <1>6, <1>11, Zenon
  <2>2. list = l
    BY <1>9, <2>1
  <2> QED
    BY <1>7, <1>8, <1>9, <1>10, <1>11, <2>2, Zenon DEF rows
<1>12. CASE gift[h].id # 0
  <2>1. list = l \o <<free>>
    BY <1>6, <1>12, Zenon
  <2>2. /\ list \in Seq(Item) /\ DOMAIN list = 1 .. n + 1 /\ Len(list) = n + 1 /\ list[n + 1] = free
        /\ \A i \in 1 .. n : list[i] = l[i]
    BY <1>3, <1>7, <1>8, <1>9, <2>1, SMTT(30)
  <2>3. n + 1 \in 1 .. n + 1 /\ \A i \in 1 .. n + 1 : i \in 1 .. n \/ i = n + 1
    BY <1>7
  <2>4. \A i \in 1 .. n : i \in 1 .. n + 1 /\ i # n + 1
    BY <1>7
  <2>5. \A i \in 1 .. n : l[i] \in rows
    BY <1>7, Zenon
  <2> QED
    BY <1>10, <1>12, <2>2, <2>3, <2>4, <2>5, ZenonT(30) DEF rows, free
<1> QED
  BY <1>11, <1>12, Zenon

-----------------------------------------------------------------------------
(* The steps of a handler. *)

\* Init establishes the inductive invariant.
LEMMA InitInv == Init => RowsInv
<1> SUFFICES ASSUME Init PROVE RowsInv
  OBVIOUS
<1>1. NoRow \in Row /\ NoRow.id = 0 /\ NoRow.qty = 0
  BY DEF NoRow, Row
<1>2. PurchaseTypeOK /\ DistinctIds(inventory) /\ \A s \in Skus : inventory[s].qty >= 0
  BY <1>1, InventoryAssumption DEF Init, InventoryInit, PurchaseTypeOK, Answers, DistinctIds
<1>3. HeldRows
  BY <1>1 DEF Init, HeldRows, DistinctIds, Requested
<1> QED
  BY <1>2, <1>3, InventoryAssumption, Zenon DEF Init, InventoryInit, RowsInv, WritesNonNegative

\* What the other handlers hold is untouched, so only h need be looked at.
LEMMA HandlerStep ==
    ASSUME RowsInv, PurchaseTypeOK', UNCHANGED inventory, NEW h \in Handlers,
           \A g \in Handlers \ {h} :
              /\ hpc'[g] = hpc[g] /\ items'[g] = items[g]
              /\ itemCount'[g] = itemCount[g] /\ gift'[g] = gift[g],
           DistinctIds(items'[h]),
           hpc'[h] \in {"loop", "gift"} => gift'[h].id = 0,
           gift'[h].qty >= 0,
           \A s \in Skus :
              /\ items'[h][s].qty >= 0
              /\ Requested(h, s)' >= 0
              /\ Requested(h, s)' > 0 => items'[h][s].id # 0
    PROVE  RowsInv'
<1>1. HeldRows'
  <2> SUFFICES ASSUME NEW g \in Handlers
               PROVE  /\ DistinctIds(items'[g])
                      /\ hpc'[g] \in {"loop", "gift"} => gift'[g].id = 0
                      /\ gift'[g].qty >= 0
                      /\ \A s \in Skus :
                            /\ items'[g][s].qty >= 0
                            /\ Requested(g, s)' >= 0
                            /\ Requested(g, s)' > 0 => items'[g][s].id # 0
    BY Zenon DEF HeldRows, DistinctIds
  <2>1. CASE g = h
    BY <2>1, Zenon
  <2>2. CASE g # h
    BY <2>2 DEF RowsInv, HeldRows, Requested
  <2> QED
    BY <2>1, <2>2, Zenon
<1>3. WritesNonNegative'
  BY <1>1, Zenon DEF RowsInv, HeldRows, WritesNonNegative
<1> QED
  BY <1>1, <1>3, Zenon DEF RowsInv, DistinctIds

\* Fetching copies rows of the table.
LEMMA FetchPreserves ==
    ASSUME RowsInv, NEW h \in Handlers, NEW skus \in Requests, Fetch(h, skus)
    PROVE  RowsInv'
<1>1. NoRow \in Row /\ NoRow.id = 0 /\ NoRow.qty = 0
  BY DEF NoRow, Row
<1>2. skus \in Seq(Skus)
  BY PurchaseAssumption, Zenon
<1> DEFINE rows == GetItemsBySKU(Range(skus))
<1>3. /\ rows \in [Skus -> Row] /\ DistinctIds(rows)
      /\ \A s \in Skus : rows[s].qty >= 0
  BY <1>1 DEF GetItemsBySKU, RowsInv, PurchaseTypeOK, DistinctIds, WritesNonNegative
<1> HIDE DEF rows
<1>4. PurchaseTypeOK'
  BY <1>1, <1>2, <1>3 DEF Fetch, RowsInv, PurchaseTypeOK, inventoryVars, Answers, rows
<1>5. /\ items'[h] = rows /\ gift'[h] = NoRow /\ itemCount'[h] = [s \in Skus |-> 0]
      /\ UNCHANGED inventory
  BY Zenon DEF Fetch, RowsInv, PurchaseTypeOK, inventoryVars, rows
<1>6. \A g \in Handlers \ {h} :
         /\ hpc'[g] = hpc[g] /\ items'[g] = items[g]
         /\ itemCount'[g] = itemCount[g] /\ gift'[g] = gift[g]
  BY DEF Fetch, RowsInv, PurchaseTypeOK
<1>7. \A s \in Skus : Requested(h, s)' = 0
  BY <1>1, <1>5 DEF Requested
<1> QED
  BY <1>1, <1>3, <1>4, <1>5, <1>6, <1>7, HandlerStep, SMTT(30)

\* The loop takes a unit only from a row that has one.
LEMMA CountItemPreserves ==
    ASSUME RowsInv, NEW h \in Handlers, CountItem(h)
    PROVE  RowsInv'
<1> DEFINE s == request[h][next[h]]
<1>1. s \in Skus
  BY DEF CountItem, Short, RowsInv, PurchaseTypeOK
<1> HIDE DEF s
<1>2. CASE hpc' \in {[hpc EXCEPT ![h] = "panic"], [hpc EXCEPT ![h] = "notfound"]} /\ UNCHANGED requestVars
  <2>1. PurchaseTypeOK'
    BY <1>2, Zenon DEF CountItem, Short, RowsInv, PurchaseTypeOK, inventoryVars, requestVars, Answers
  <2>2. hpc'[h] \in {"panic", "notfound"} /\ \A g \in Handlers \ {h} : hpc'[g] = hpc[g]
    BY <1>2 DEF RowsInv, PurchaseTypeOK
  <2>3. UNCHANGED <<inventory, items, itemCount, gift>>
    BY <1>2, Zenon DEF CountItem, Short, inventoryVars, requestVars
  <2>4. \A t \in Skus : Requested(h, t)' = Requested(h, t)
    BY <2>3 DEF Requested
  <2>5. /\ DistinctIds(items[h]) /\ gift[h].qty >= 0
        /\ \A t \in Skus : /\ items[h][t].qty >= 0
                           /\ Requested(h, t) >= 0
                           /\ Requested(h, t) > 0 => items[h][t].id # 0
    BY Zenon DEF RowsInv, HeldRows
  <2> QED
    BY <2>1, <2>2, <2>3, <2>4, <2>5, HandlerStep, Zenon
<1>3. CASE /\ items[h][s].id # 0 /\ items[h][s].qty >= itemCount[h][s] + 1
           /\ itemCount' = [itemCount EXCEPT ![h][s] = @ + 1]
           /\ total' = [total EXCEPT ![h] = @ + items[h][s].price]
           /\ items' = [items EXCEPT ![h][s].qty = @ - 1]
           /\ next' = [next EXCEPT ![h] = @ + 1]
           /\ UNCHANGED <<hpc, request, gift>>
  <2>1. items[h] \in [Skus -> Row] /\ itemCount[h] \in [Skus -> Nat] /\ total[h] \in Nat
    BY Zenon DEF RowsInv, PurchaseTypeOK
  <2>2. items[h][s] \in Row
    BY <1>1, <2>1, Zenon
  <2>3. [items[h][s] EXCEPT !.qty = @ - 1] \in Row
    BY <2>2 DEF Row
  <2>4. items' = [items EXCEPT ![h] = [items[h] EXCEPT ![s] = [items[h][s] EXCEPT !.qty = @ - 1]]]
    BY <1>3, Zenon
  <2>5. itemCount' = [itemCount EXCEPT ![h] = [itemCount[h] EXCEPT ![s] = @ + 1]]
    BY <1>3, Zenon
  <2>6. items'[h] = [items[h] EXCEPT ![s] = [items[h][s] EXCEPT !.qty = @ - 1]]
    BY <2>4, Zenon DEF RowsInv, PurchaseTypeOK
  <2>7. itemCount'[h] = [itemCount[h] EXCEPT ![s] = @ + 1]
    BY <2>5, Zenon DEF RowsInv, PurchaseTypeOK
  <2>8. /\ items' \in [Handlers -> [Skus -> Row]]
        /\ \A t \in Skus : items'[h][t].id = items[h][t].id
        /\ \A t \in Skus \ {s} : items'[h][t] = items[h][t]
        /\ items'[h][s].qty = items[h][s].qty - 1
    BY <1>1, <2>1, <2>2, <2>3, <2>4, <2>6, Zenon DEF RowsInv, PurchaseTypeOK, Row
  <2>9. /\ itemCount' \in [Handlers -> [Skus -> Nat]]
        /\ \A t \in Skus \ {s} : itemCount'[h][t] = itemCount[h][t]
        /\ itemCount'[h][s] = itemCount[h][s] + 1
    BY <1>1, <2>1, <2>5, <2>7, SMTT(30) DEF RowsInv, PurchaseTypeOK
  <2>10. total' \in [Handlers -> Nat] /\ next' \in [Handlers -> Nat \ {0}]
    <3>1. items[h][s].price \in Nat
      BY <2>2, Zenon DEF Row
    <3>2. total \in [Handlers -> Nat] /\ next \in [Handlers -> Nat \ {0}]
      BY DEF RowsInv, PurchaseTypeOK
    <3> QED
      BY <1>3, <3>1, <3>2
  <2>11. PurchaseTypeOK'
    BY <1>3, <2>8, <2>9, <2>10, Zenon DEF CountItem, Short, RowsInv, PurchaseTypeOK, inventoryVars
  <2>12. gift[h].id = 0
    BY Zenon DEF CountItem, Short, RowsInv, HeldRows
  <2>13. \A t \in Skus : Requested(h, t) = itemCount[h][t] /\ Requested(h, t)' = itemCount'[h][t]
    <3>1. \A t \in Skus : itemCount[h][t] \in Nat /\ itemCount'[h][t] \in Nat
      BY <2>1, <2>9, Zenon
    <3>2. gift'[h].id = 0
      BY <1>3, <2>12, Zenon
    <3> QED
      BY <2>12, <3>1, <3>2 DEF Requested
  <2>14. \A t \in Skus : /\ items'[h][t].qty >= 0
                         /\ itemCount'[h][t] >= 0
                         /\ itemCount'[h][t] > 0 => items'[h][t].id # 0
    <3> SUFFICES ASSUME NEW t \in Skus
                 PROVE  /\ items'[h][t].qty >= 0
                        /\ itemCount'[h][t] >= 0
                        /\ itemCount'[h][t] > 0 => items'[h][t].id # 0
      OBVIOUS
    <3>1. CASE t = s
      <4>1. items[h][s].qty \in Int /\ itemCount[h][s] \in Nat
        BY <1>1, <2>1, <2>2, ZenonT(30) DEF Row
      <4> QED
        BY <1>1, <1>3, <2>8, <2>9, <3>1, <4>1, SMTT(30)
    <3>2. CASE t # s
      BY <2>1, <2>8, <2>9, <2>13, <3>2, SMTT(30) DEF RowsInv, HeldRows
    <3> QED
      BY <3>1, <3>2, Zenon
  <2>15. DistinctIds(items'[h])
    BY <2>8 DEF DistinctIds, RowsInv, HeldRows
  <2>16. \A g \in Handlers \ {h} : items'[g] = items[g] /\ itemCount'[g] = itemCount[g]
    BY <2>4, <2>5, Zenon DEF RowsInv, PurchaseTypeOK
  <2>17. gift'[h].id = 0 /\ gift'[h].qty >= 0 /\ UNCHANGED <<inventory, hpc, gift>>
    BY <1>3, <2>12, Zenon DEF CountItem, Short, RowsInv, HeldRows, inventoryVars
  <2> QED
    BY <2>11, <2>13, <2>14, <2>15, <2>16, <2>17, HandlerStep, Zenon
<1> QED
  <2>1. items[h][s].qty \in Int /\ itemCount[h][s] \in Nat
    BY <1>1 DEF RowsInv, PurchaseTypeOK, Row
  <2>2. CASE items[h][s].id = 0 \/ items[h][s].qty < itemCount[h][s] + 1
    <3>1. hpc' \in {[hpc EXCEPT ![h] = "panic"], [hpc EXCEPT ![h] = "notfound"]} /\ UNCHANGED requestVars
      BY <2>2, Zenon DEF CountItem, Short, s
    <3> QED
      BY <1>2, <3>1, Zenon
  <2>3. CASE items[h][s].id # 0 /\ ~(items[h][s].qty < itemCount[h][s] + 1)
    <3>1. /\ itemCount' = [itemCount EXCEPT ![h][s] = @ + 1]
          /\ total' = [total EXCEPT ![h] = @ + items[h][s].price]
          /\ items' = [items EXCEPT ![h][s].qty = @ - 1]
          /\ next' = [next EXCEPT ![h] = @ + 1]
          /\ UNCHANGED <<hpc, request, gift>>
      BY <2>3, Zenon DEF CountItem, Short, s
    <3>2. items[h][s].qty >= itemCount[h][s] + 1
      BY <2>1, <2>3, SMTT(30)
    <3> QED
      BY <1>3, <2>3, <3>1, <3>2, Zenon
  <2> QED
    BY <2>2, <2>3, Zenon

\* The free item is taken only if the table has it.
LEMMA AddGiftPreserves ==
    ASSUME RowsInv, NEW h \in Handlers, AddGift(h)
    PROVE  RowsInv'
<1> DEFINE dbIt == inventory[FreeItem]
           taken == [dbIt EXCEPT !.qty = @ - 1]
<1>1. /\ FreeItem \in Skus /\ items[h] \in [Skus -> Row] /\ itemCount[h] \in [Skus -> Nat]
      /\ dbIt \in Row /\ gift[h].id = 0
  BY PurchaseAssumption, Zenon DEF AddGift, RowsInv, PurchaseTypeOK, HeldRows
<1>2. /\ taken \in Row /\ taken.id = dbIt.id /\ taken.qty = dbIt.qty - 1
      /\ dbIt.qty \in Int
  BY <1>1 DEF Row
<1> HIDE DEF taken
<1>3. /\ UNCHANGED <<inventoryVars, items, request, next, total>>
      /\ hpc' = [hpc EXCEPT ![h] = "commit"]
  BY Zenon DEF AddGift, requestVars
<1>4. \/ UNCHANGED <<gift, itemCount>>
      \/ /\ dbIt.qty >= itemCount[h][FreeItem] + 1
         /\ gift' = [gift EXCEPT ![h] = taken]
         /\ itemCount' = [itemCount EXCEPT ![h] = [itemCount[h] EXCEPT ![FreeItem] = @ + 1]]
  <2>1. CASE dbIt.qty < itemCount[h][FreeItem] + 1
    BY <2>1, Zenon DEF AddGift, GetItemBySKU, requestVars
  <2>2. CASE ~(dbIt.qty < itemCount[h][FreeItem] + 1)
    <3>1. dbIt.qty >= itemCount[h][FreeItem] + 1
      BY <1>1, <1>2, <2>2
    <3> QED
      BY <2>2, <3>1, Zenon DEF AddGift, GetItemBySKU, taken
  <2> QED
    BY <2>1, <2>2, Zenon
<1>5. /\ hpc'[h] = "commit"
      /\ hpc' \in [Handlers -> Answers \cup {"loop", "gift", "commit"}]
      /\ \A g \in Handlers \ {h} : hpc'[g] = hpc[g] /\ itemCount'[g] = itemCount[g] /\ gift'[g] = gift[g]
  BY <1>3, <1>4, Zenon DEF RowsInv, PurchaseTypeOK
<1>6. gift' \in [Handlers -> Row] /\ itemCount' \in [Handlers -> [Skus -> Nat]]
  <2>1. gift \in [Handlers -> Row] /\ itemCount \in [Handlers -> [Skus -> Nat]]
    BY Zenon DEF RowsInv, PurchaseTypeOK
  <2>2. [itemCount[h] EXCEPT ![FreeItem] = @ + 1] \in [Skus -> Nat]
    BY <1>1
  <2> QED
    BY <1>2, <1>4, <2>1, <2>2, Zenon
<1>7. PurchaseTypeOK'
  BY <1>3, <1>5, <1>6, Zenon DEF RowsInv, PurchaseTypeOK, inventoryVars
<1>8. \A s \in Skus : items[h][s].qty >= 0 /\ itemCount[h][s] \in Nat
  BY <1>1, Zenon DEF RowsInv, HeldRows
<1>9. gift'[h].qty >= 0
  BY <1>1, <1>2, <1>4, <1>8, SMTT(30) DEF RowsInv, PurchaseTypeOK, HeldRows
<1>10. \A s \in Skus : Requested(h, s) = itemCount[h][s]
  <2> SUFFICES ASSUME NEW s \in Skus PROVE Requested(h, s) = itemCount[h][s]
    OBVIOUS
  <2>1. itemCount[h][s] \in Nat
    BY <1>1, Zenon
  <2>2. Requested(h, s) = itemCount[h][s] - 0
    BY <1>1, Zenon DEF Requested
  <2> QED
    BY <2>1, <2>2, SMTT(30)
<1>11. \A s \in Skus : Requested(h, s)' >= 0 /\ (Requested(h, s)' > 0 => items[h][s].id # 0)
  <2>1. \A s \in Skus : itemCount[h][s] > 0 => items[h][s].id # 0
    BY <1>8, <1>10, Zenon DEF RowsInv, HeldRows
  <2>2. CASE UNCHANGED <<gift, itemCount>>
    BY <1>1, <1>8, <2>1, <2>2, SMTT(30) DEF Requested
  <2>3. CASE /\ dbIt.qty >= itemCount[h][FreeItem] + 1
             /\ gift' = [gift EXCEPT ![h] = taken]
             /\ itemCount' = [itemCount EXCEPT ![h] = [itemCount[h] EXCEPT ![FreeItem] = @ + 1]]
    <3>1. /\ gift'[h] = taken
          /\ itemCount'[h][FreeItem] = itemCount[h][FreeItem] + 1
          /\ \A s \in Skus \ {FreeItem} : itemCount'[h][s] = itemCount[h][s]
      BY <1>1, <2>3, Zenon DEF RowsInv, PurchaseTypeOK
    <3>2. taken.id # 0
      <4>1. dbIt.id = 0 => dbIt.qty = 0
        BY <1>1 DEF RowsInv, NoRow
      <4> QED
        BY <1>1, <1>2, <2>3, <4>1, SMTT(30)
    <3> QED
      BY <1>8, <2>1, <3>1, <3>2, SMTT(30) DEF Requested
  <2> QED
    BY <1>4, <2>2, <2>3, Zenon
<1>12. DistinctIds(items[h])
  BY Zenon DEF RowsInv, HeldRows
<1> QED
  BY <1>3, <1>5, <1>7, <1>8, <1>9, <1>11, <1>12, HandlerStep, Zenon DEF inventoryVars

\* Steps that only move a handler on, or end it.
LEMMA MovePreserves ==
    ASSUME RowsInv, NEW h \in Handlers, ApplyPromotions(h) \/ DbError(h)
    PROVE  RowsInv'
<1>1. UNCHANGED <<inventoryVars, requestVars>>
  BY Zenon DEF ApplyPromotions, DbError
<1>2. /\ hpc' \in [Handlers -> Answers \cup {"loop", "gift", "commit"}]
      /\ \A g \in Handlers \ {h} : hpc'[g] = hpc[g]
      /\ hpc'[h] \in {"loop", "gift"} => hpc[h] = "loop"
  BY Zenon DEF ApplyPromotions, DbError, RowsInv, PurchaseTypeOK, Answers
<1>3. PurchaseTypeOK'
  BY <1>1, <1>2, Zenon DEF RowsInv, PurchaseTypeOK, inventoryVars, requestVars
<1>4. UNCHANGED <<inventory, items, itemCount, gift>>
  BY <1>1 DEF inventoryVars, requestVars
<1>5. \A s \in Skus : Requested(h, s)' = Requested(h, s)
  BY <1>4, Zenon DEF Requested
<1>6. /\ DistinctIds(items[h]) /\ gift[h].qty >= 0
      /\ hpc[h] = "loop" => gift[h].id = 0
      /\ \A s \in Skus : /\ items[h][s].qty >= 0
                         /\ Requested(h, s) >= 0
                         /\ Requested(h, s) > 0 => items[h][s].id # 0
  BY Zenon DEF RowsInv, HeldRows
<1> QED
  BY <1>2, <1>3, <1>4, <1>5, <1>6, HandlerStep, Zenon

\* A change of the table leaves what the handlers hold alone.
LEMMA TableStep ==
    ASSUME RowsInv, nextItemId' \in Nat \ {0}, ahead' \subseteq Nat, UNCHANGED requestVars,
           hpc' \in [Handlers -> Answers \cup {"loop", "gift", "commit"}],
           \A g \in Handlers : hpc'[g] \in {"loop", "gift", "commit"} => hpc'[g] = hpc[g],
           inventory' \in [Skus -> Row], Sound(inventory')
    PROVE  RowsInv'
<1>1. UNCHANGED <<request, next, items, itemCount, total, gift>>
  BY DEF requestVars
<1>2. PurchaseTypeOK'
  BY <1>1, Zenon DEF RowsInv, PurchaseTypeOK
<1>3. HeldRows'
  BY <1>1 DEF RowsInv, HeldRows, DistinctIds, Requested
<1>4. /\ DistinctIds(inventory)'
      /\ \A s \in Skus : inventory'[s].qty >= 0 /\ (inventory'[s].id = 0 => inventory'[s] = NoRow)
  BY Zenon DEF Sound, DistinctIds
<1>5. WritesNonNegative'
  BY <1>1, <1>4, Zenon DEF RowsInv, HeldRows, WritesNonNegative
<1> QED
  BY <1>2, <1>3, <1>4, <1>5, Zenon DEF RowsInv

LEMMA CommitPreserves ==
    ASSUME RowsInv, NEW h \in Handlers, Commit(h)
    PROVE  RowsInv'
<1>1. PICK list \in Writes(h) : UpsertItems(list)
  BY Zenon DEF Commit
<1>2. list \in Seq(Item)
  BY WritesAreItems, Zenon
<1>3. inventory' \in [Skus -> Row] /\ nextItemId' \in Nat \ {0} /\ ahead' \subseteq Nat /\ Sound(inventory')
  BY <1>1, <1>2, StatementKeeps, Zenon
<1>4. /\ UNCHANGED requestVars
      /\ hpc' \in [Handlers -> Answers \cup {"loop", "gift", "commit"}]
      /\ \A g \in Handlers : hpc'[g] \in {"loop", "gift", "commit"} => hpc'[g] = hpc[g]
  BY Zenon DEF Commit, RowsInv, PurchaseTypeOK, Answers
<1> QED
  BY <1>3, <1>4, TableStep, Zenon

LEMMA AddItemsPreserves ==
    ASSUME RowsInv, NEW its \in Shipments, AddItems(its), UNCHANGED <<hpc, requestVars, orders>>
    PROVE  RowsInv'
<1>1. its \in Seq(Item) /\ UpsertItems(its)
  BY InventoryAssumption, Zenon DEF AddItems
<1>2. inventory' \in [Skus -> Row] /\ nextItemId' \in Nat \ {0} /\ ahead' \subseteq Nat /\ Sound(inventory')
  BY <1>1, StatementKeeps, Zenon
<1> QED
  BY <1>2, TableStep, Zenon DEF RowsInv, PurchaseTypeOK

\* Every step preserves the inductive invariant.
LEMMA NextInv == RowsInv /\ [Next]_vars => RowsInv'
<1> SUFFICES ASSUME RowsInv, [Next]_vars PROVE RowsInv'
  OBVIOUS
<1>1. ASSUME NEW its \in Shipments, AddItems(its), UNCHANGED <<hpc, requestVars, orders>>
      PROVE  RowsInv'
  BY <1>1, AddItemsPreserves, Zenon
<1>2. ASSUME NEW h \in Handlers, NEW skus \in Requests, Fetch(h, skus)
      PROVE  RowsInv'
  BY <1>2, FetchPreserves, Zenon
<1>3. ASSUME NEW h \in Handlers,
             CountItem(h) \/ ApplyPromotions(h) \/ AddGift(h) \/ Commit(h) \/ DbError(h)
      PROVE  RowsInv'
  BY <1>3, CountItemPreserves, MovePreserves, AddGiftPreserves, CommitPreserves, Zenon
<1>4. CASE UNCHANGED vars
  <2>1. UNCHANGED <<inventory, nextItemId, ahead, hpc, requestVars>>
    BY <1>4, Zenon DEF vars, inventoryVars
  <2>2. Sound(inventory')
    BY <2>1, Zenon DEF Sound, DistinctIds, RowsInv, WritesNonNegative
  <2> QED
    BY <2>1, <2>2, TableStep, Zenon DEF RowsInv, PurchaseTypeOK
<1> QED
  BY <1>1, <1>2, <1>3, <1>4, Zenon DEF Next

\* The tables stay well formed.
LEMMA RowsInvHolds == Spec => []RowsInv
BY InitInv, NextInv, PTL DEF Spec

\* For any requests, shipments and number of concurrent handlers, no negative
\* quantity is ever written (purchase.go, model/items.go CHECK).
THEOREM WritesNonNegativeHolds == Spec => []WritesNonNegative
<1>1. RowsInv => WritesNonNegative
  BY DEF RowsInv
<1> QED
  BY <1>1, RowsInvHolds, PTL

\* A row, read back from the item it was written as.
LEMMA RowOfItem ==
    ASSUME NEW s, NEW r \in Row
    PROVE  ItemRow(ItemOf(s, r)) = r /\ ItemOf(s, r).sku = s /\ ItemOf(s, r).id = r.id
BY DEF ItemRow, ItemOf, Row

\* On Postgres the rows a handler holds are written as they are, if nothing it
\* read has changed.
LEMMA FreshWrite ==
    ASSUME Engine = "postgres", RowsInv, NEW h \in Handlers, Fresh(h), Commit(h)
    PROVE  /\ \A s \in Skus : items[h][s].id # 0 => inventory'[s] = items[h][s]
           /\ gift[h].id # 0 => inventory'[FreeItem] = gift[h] /\ items[h][FreeItem].id = 0
           /\ \A s \in Skus : items[h][s].id = 0 /\ ~(gift[h].id # 0 /\ s = FreeItem) =>
                 inventory'[s] = inventory[s]
<1>1. PICK list \in Writes(h) : Upserted(list).ok /\ UpsertItems(list)
  BY Zenon DEF Commit
<1>2. items[h] \in [Skus -> Row] /\ gift[h] \in Row /\ FreeItem \in Skus
  BY PurchaseAssumption, Zenon DEF RowsInv, PurchaseTypeOK
<1> DEFINE free == ItemOf(FreeItem, gift[h])
<1>3. /\ list \in Seq(Item)
      /\ \A i \in DOMAIN list : list[i] \in HeldItems(h) \/ (gift[h].id # 0 /\ list[i] = free)
      /\ \A it \in HeldItems(h) : \E i \in DOMAIN list : list[i] = it /\ (gift[h].id # 0 => i # Len(list))
      /\ gift[h].id # 0 => Len(list) \in DOMAIN list /\ list[Len(list)] = free
  BY WritesAreItems, Zenon
<1>4. free.sku = FreeItem /\ free.id = gift[h].id /\ ItemRow(free) = gift[h]
  BY <1>2, RowOfItem, Zenon
<1> HIDE DEF free
<1>5. \A it \in HeldItems(h) : \E s \in Skus : items[h][s].id # 0 /\ it = ItemOf(s, items[h][s])
  BY Zenon DEF HeldItems
<1>6. \A s \in Skus : /\ ItemOf(s, items[h][s]).sku = s /\ ItemOf(s, items[h][s]).id = items[h][s].id
                      /\ ItemRow(ItemOf(s, items[h][s])) = items[h][s]
  BY <1>2, RowOfItem, ZenonT(30)
<1>7. \A i \in DOMAIN list : list[i].id # 0 /\ inventory[list[i].sku].id = list[i].id
  <2>1. \A s \in Skus : items[h][s].id # 0 => inventory[s].id = items[h][s].id
    <3> SUFFICES ASSUME NEW s \in Skus, items[h][s].id # 0 PROVE inventory[s].id = items[h][s].id
      BY Zenon
    <3>1. inventory[s] = [items[h][s] EXCEPT !.qty = @ + Requested(h, s)] /\ items[h][s] \in Row
      BY <1>2, Zenon DEF Fresh
    <3> QED
      BY <3>1, Zenon DEF Row
  <2>2. gift[h].id # 0 => inventory[FreeItem].id = gift[h].id
    <3>1. gift[h].id # 0 => inventory[FreeItem] = [gift[h] EXCEPT !.qty = @ + 1]
      BY Zenon DEF Fresh
    <3> QED
      BY <1>2, <3>1, Zenon DEF Row
  <2> SUFFICES ASSUME NEW i \in DOMAIN list
               PROVE  list[i].id # 0 /\ inventory[list[i].sku].id = list[i].id
    BY Zenon
  <2>3. CASE list[i] \in HeldItems(h)
    <3>1. PICK s \in Skus : items[h][s].id # 0 /\ list[i] = ItemOf(s, items[h][s])
      BY <1>5, <2>3, Zenon
    <3>2. list[i].sku = s /\ list[i].id = items[h][s].id
      BY <1>6, <3>1, Zenon
    <3> QED
      BY <2>1, <3>1, <3>2, Zenon
  <2>4. CASE gift[h].id # 0 /\ list[i] = free
    <3>1. list[i].sku = FreeItem /\ list[i].id = gift[h].id
      BY <1>4, <2>4, Zenon
    <3> QED
      BY <2>2, <2>4, <3>1, Zenon
  <2> QED
    BY <1>3, <2>3, <2>4, Zenon
<1>8. /\ \A i \in DOMAIN list : inventory'[list[i].sku] = ItemRow(list[i])
      /\ \A i, j \in DOMAIN list : list[i].id = list[j].id => i = j
      /\ \A s \in Skus : inventory'[s] = inventory[s] \/ \E i \in DOMAIN list : list[i].sku = s
  <2>1. Len(list) \in Nat /\ Len(list) \in 0 .. Len(list) /\ \A i \in DOMAIN list : i <= Len(list)
    BY <1>3
  <2>2. PICK f : Runs(f, list, Len(list)) /\ Upserted(list) = f[Len(list)]
    BY <2>1, UpsertedRuns, Zenon
  <2>3. FreshAt(Upserted(list), list, Len(list))
    <3>1. FreshAt(f[Len(list)], list, Len(list))
      BY <1>3, <1>7, <2>1, <2>2, RunFresh, ZenonT(30)
    <3> QED
      BY <2>2, <3>1, Zenon
  <2>4. inventory' = Upserted(list).table
    BY <1>1, Zenon DEF UpsertItems
  <2> QED
    BY <1>1, <2>1, <2>3, <2>4, ZenonT(30) DEF FreshAt
<1>9. ASSUME NEW s \in Skus, items[h][s].id # 0
      PROVE  /\ inventory'[s] = items[h][s]
             /\ \E i \in DOMAIN list : list[i].id = items[h][s].id /\ (gift[h].id # 0 => i # Len(list))
  <2>1. ItemOf(s, items[h][s]) \in HeldItems(h)
    BY <1>9, Zenon DEF HeldItems
  <2>2. PICK i \in DOMAIN list : list[i] = ItemOf(s, items[h][s]) /\ (gift[h].id # 0 => i # Len(list))
    BY <1>3, <2>1, Zenon
  <2>3. list[i].sku = s /\ list[i].id = items[h][s].id /\ ItemRow(list[i]) = items[h][s]
    BY <1>6, <2>2, Zenon
  <2>4. inventory'[s] = items[h][s]
    BY <1>8, <2>3, Zenon
  <2> QED
    BY <2>2, <2>3, <2>4, Zenon
<1>10. ASSUME gift[h].id # 0
       PROVE  inventory'[FreeItem] = gift[h] /\ items[h][FreeItem].id = 0
  <2>1. inventory'[FreeItem] = gift[h]
    <3>1. inventory'[list[Len(list)].sku] = ItemRow(list[Len(list)]) /\ list[Len(list)] = free
      BY <1>3, <1>8, <1>10, Zenon
    <3> QED
      BY <1>4, <3>1, Zenon
  <2>2. ASSUME items[h][FreeItem].id # 0 PROVE FALSE
    <3>1. inventory'[FreeItem] = items[h][FreeItem]
      BY <1>2, <1>9, <2>2, Zenon
    <3>2. PICK i \in DOMAIN list : list[i].id = gift[h].id /\ i # Len(list)
      BY <1>2, <1>9, <1>10, <2>1, <2>2, <3>1, Zenon
    <3> QED
      BY <1>3, <1>4, <1>8, <1>10, <3>2, ZenonT(30)
  <2> QED
    BY <2>1, <2>2, Zenon
<1>11. ASSUME NEW s \in Skus, items[h][s].id = 0, ~(gift[h].id # 0 /\ s = FreeItem)
       PROVE  inventory'[s] = inventory[s]
  <2> SUFFICES ASSUME NEW i \in DOMAIN list, list[i].sku = s PROVE FALSE
    BY <1>8, Zenon
  <2>1. CASE list[i] \in HeldItems(h)
    <3>1. PICK u \in Skus : items[h][u].id # 0 /\ list[i] = ItemOf(u, items[h][u])
      BY <1>5, <2>1, Zenon
    <3>2. list[i].sku = u
      BY <1>6, <3>1, Zenon
    <3> QED
      BY <1>11, <3>1, <3>2, Zenon
  <2>2. CASE gift[h].id # 0 /\ list[i] = free
    <3>1. list[i].sku = FreeItem
      BY <1>4, <2>2, Zenon
    <3> QED
      BY <1>11, <2>2, <3>1, Zenon
  <2> QED
    BY <1>3, <2>1, <2>2, Zenon
<1> QED
  BY <1>9, <1>10, <1>11, Zenon

\* A row with fewer units and the same id and price.
LEMMA RowReduced ==
    ASSUME NEW r \in Row, NEW u \in Row, NEW n \in Nat,
           r.id = u.id, r.price = u.price, r.qty = u.qty - n
    PROVE  r = [u EXCEPT !.qty = @ - n]
<1> DEFINE w == [u EXCEPT !.qty = u.qty - n]
<1>1. u.qty - n \in Int
  BY DEF Row
<1>2. w \in Row /\ w.id = u.id /\ w.price = u.price /\ w.qty = u.qty - n
  BY <1>1, Zenon DEF Row
<1> HIDE DEF w
<1>3. w = r
  BY <1>2 DEF Row
<1> QED
  BY <1>3, Zenon DEF w

\* On Postgres a purchase nothing has interfered with takes exactly what its
\* order lists (purchase.go, UpsertItems).
THEOREM FreshPurchaseExactHolds ==
    ASSUME Engine = "postgres"
    PROVE  Spec => FreshPurchaseExact
<1> DEFINE Exact(h) == hpc[h] = "commit" /\ hpc'[h] = "ok" /\ Fresh(h) =>
                         \A s \in Skus : inventory'[s] = [inventory[s] EXCEPT !.qty = @ - itemCount[h][s]]
           AllExact == \A h \in Handlers : Exact(h)
<1>1. RowsInv /\ [Next]_vars => [AllExact]_vars
  <2> SUFFICES ASSUME RowsInv, Next, NEW h \in Handlers,
                      hpc[h] = "commit", hpc'[h] = "ok", Fresh(h), NEW s \in Skus
               PROVE  inventory'[s] = [inventory[s] EXCEPT !.qty = @ - itemCount[h][s]]
    OBVIOUS
  <2>1. Commit(h)
    <3>1. hpc # hpc'
      OBVIOUS
    <3>2. PICK k \in Handlers : \/ \E skus \in Requests : Fetch(k, skus)
                               \/ CountItem(k) \/ ApplyPromotions(k) \/ AddGift(k)
                               \/ Commit(k) \/ DbError(k)
      BY <3>1, ZenonT(30) DEF Next
    <3>3. \E a : hpc' = [hpc EXCEPT ![k] = a]
      BY <3>1, <3>2, Zenon DEF Fetch, CountItem, ApplyPromotions, AddGift, Commit, DbError
    <3>4. k = h
      BY <3>3
    <3>5. hpc' = [hpc EXCEPT ![h] = "error"] => hpc'[h] = "error"
      BY Zenon DEF RowsInv, PurchaseTypeOK
    <3> QED
      BY <3>2, <3>4, <3>5, Zenon DEF Fetch, CountItem, ApplyPromotions, AddGift, DbError
  <2>2. /\ \A t \in Skus : items[h][t].id # 0 => inventory'[t] = items[h][t]
        /\ gift[h].id # 0 => inventory'[FreeItem] = gift[h] /\ items[h][FreeItem].id = 0
        /\ \A t \in Skus : items[h][t].id = 0 /\ ~(gift[h].id # 0 /\ t = FreeItem) => inventory'[t] = inventory[t]
    BY <2>1, FreshWrite, Zenon
  <2>3. /\ FreeItem \in Skus /\ gift[h] \in Row /\ items[h] \in [Skus -> Row] /\ inventory \in [Skus -> Row]
        /\ itemCount[h] \in [Skus -> Nat]
    BY PurchaseAssumption, Zenon DEF RowsInv, PurchaseTypeOK
  <2>7. itemCount[h][s] \in Nat /\ inventory[s].qty \in Int /\ items[h][s].qty \in Int /\ gift[h].qty \in Int
    BY <2>3, Zenon DEF Row
  <2>8. CASE gift[h].id # 0 /\ s = FreeItem
    <3>1. itemCount[h][s] = 1
      <4>1. Requested(h, s) = itemCount[h][s] - 1
        BY <2>8, Zenon DEF Requested
      <4>2. Requested(h, s) >= 0 /\ ~(Requested(h, s) > 0)
        BY <2>2, <2>3, <2>8, Zenon DEF RowsInv, HeldRows
      <4> QED
        BY <2>7, <4>1, <4>2, SMTT(30)
    <3>2. inventory[s] = [gift[h] EXCEPT !.qty = @ + 1]
      BY <2>3, <2>8, Zenon DEF Fresh
    <3>3. gift[h].id = inventory[s].id /\ gift[h].price = inventory[s].price
          /\ gift[h].qty = inventory[s].qty - 1
      BY <2>3, <2>7, <3>2, SMTT(30) DEF Row
    <3>4. inventory'[s] = gift[h]
      BY <2>2, <2>8, Zenon
    <3> QED
      BY <2>3, <3>1, <3>3, <3>4, RowReduced, SMTT(30)
  <2>9. CASE ~(gift[h].id # 0 /\ s = FreeItem)
    <3>1. Requested(h, s) = itemCount[h][s]
      <4>1. Requested(h, s) = itemCount[h][s] - 0
        BY <2>9, Zenon DEF Requested
      <4> QED
        BY <2>7, <4>1
    <3>2. CASE items[h][s].id # 0
      <4>1. inventory[s] = [items[h][s] EXCEPT !.qty = @ + itemCount[h][s]]
        BY <2>3, <3>1, <3>2, Zenon DEF Fresh
      <4>2. items[h][s].id = inventory[s].id /\ items[h][s].price = inventory[s].price
            /\ items[h][s].qty = inventory[s].qty - itemCount[h][s]
        BY <2>3, <2>7, <4>1 DEF Row
      <4>3. inventory'[s] = items[h][s]
        BY <2>2, <3>2, Zenon
      <4>4. items[h][s] \in Row /\ inventory[s] \in Row /\ itemCount[h][s] \in Nat
        BY <2>3, Zenon
      <4>5. items[h][s] = [inventory[s] EXCEPT !.qty = @ - itemCount[h][s]]
        BY <4>2, <4>4, RowReduced, SMTT(30)
      <4> QED
        BY <4>3, <4>5, Zenon
    <3>3. CASE items[h][s].id = 0
      <4>1. itemCount[h][s] = 0
        BY <2>7, <3>1, <3>3, SMTT(30) DEF RowsInv, HeldRows
      <4>3. inventory'[s] = inventory[s] /\ inventory[s] \in Row
        BY <2>2, <2>3, <2>9, <3>3, Zenon
      <4> QED
        BY <4>1, <4>3, SMTT(30) DEF Row
    <3> QED
      BY <3>2, <3>3, Zenon
  <2> QED
    BY <2>8, <2>9, Zenon
<1> QED
  BY <1>1, RowsInvHolds, PTL DEF Spec, FreshPurchaseExact

-----------------------------------------------------------------------------
(* The loop over the SKUs of a request. *)

\* The places before n at which a list has a SKU.
Places(skus, n, s) == {i \in 1 .. n - 1 : skus[i] = s}

\* Passing one more place counts it once.
LEMMA NextPlace ==
    ASSUME NEW skus \in Seq(Skus), NEW n \in Nat \ {0}, n <= Len(skus), NEW s \in Skus
    PROVE  /\ IsFiniteSet(Places(skus, n, s)) /\ Cardinality(Places(skus, n, s)) \in Nat
           /\ Cardinality(Places(skus, n + 1, s)) =
                 Cardinality(Places(skus, n, s)) + (IF skus[n] = s THEN 1 ELSE 0)
<1>1. IsFiniteSet(1 .. n - 1)
  BY FS_Interval
<1>2. Places(skus, n, s) \subseteq 1 .. n - 1
  BY Zenon DEF Places
<1>3. IsFiniteSet(Places(skus, n, s)) /\ Cardinality(Places(skus, n, s)) \in Nat
  BY <1>1, <1>2, FS_Subset, FS_CardinalityType, Zenon
<1>4. CASE skus[n] = s
  <2>1. Places(skus, n + 1, s) = Places(skus, n, s) \cup {n} /\ n \notin Places(skus, n, s)
    BY <1>4 DEF Places
  <2> QED
    BY <1>3, <1>4, <2>1, FS_AddElement, ZenonT(30)
<1>5. CASE skus[n] # s
  <2>1. Places(skus, n + 1, s) = Places(skus, n, s)
    BY <1>5 DEF Places
  <2> QED
    BY <1>3, <1>5, <2>1
<1> QED
  BY <1>3, <1>4, <1>5, Zenon

\* What the loop of a handler has counted stays true while its own variables do.
LEMMA LoopUntouched ==
    ASSUME NEW h \in Handlers, LoopCounts(h),
           hpc'[h] = hpc[h], request'[h] = request[h], next'[h] = next[h],
           items'[h] = items[h], itemCount'[h] = itemCount[h], gift'[h] = gift[h]
    PROVE  LoopCounts(h)'
BY Zenon DEF LoopCounts, Requested, Short

LEMMA FetchCounts ==
    ASSUME RowsInv, NEW h \in Handlers, NEW skus \in Requests, Fetch(h, skus)
    PROVE  LoopCounts(h)'
<1>1. NoRow.id = 0
  BY Zenon DEF NoRow
<1>2. skus \in Seq(Skus)
  BY PurchaseAssumption, Zenon
<1>3. /\ hpc'[h] = "loop" /\ request'[h] = skus /\ next'[h] = 1
      /\ itemCount'[h] = [s \in Skus |-> 0] /\ gift'[h] = NoRow
  BY Zenon DEF Fetch, RowsInv, PurchaseTypeOK
<1>4. \A s \in Skus : Requested(h, s)' = 0
  BY <1>1, <1>3 DEF Requested
<1>5. \A s \in Skus : Cardinality({i \in 1 .. next'[h] - 1 : request'[h][i] = s}) = 0
  <2> SUFFICES ASSUME NEW s \in Skus
               PROVE  Cardinality({i \in 1 .. next'[h] - 1 : request'[h][i] = s}) = 0
    OBVIOUS
  <2>1. {i \in 1 .. next'[h] - 1 : request'[h][i] = s} = {}
    BY <1>3
  <2> QED
    BY <2>1, FS_EmptySet, Zenon
<1>6. Len(skus) \in Nat
  BY <1>2
<1> QED
  BY <1>3, <1>4, <1>5, <1>6, SMTT(30) DEF LoopCounts

\* Until the free item is added, a request takes what the order lists.
LEMMA NoGift ==
    ASSUME RowsInv, NEW h \in Handlers, gift[h].id = 0
    PROVE  \A t \in Skus : Requested(h, t) = itemCount[h][t]
<1> SUFFICES ASSUME NEW t \in Skus PROVE Requested(h, t) = itemCount[h][t]
  OBVIOUS
<1>1. Requested(h, t) = itemCount[h][t] - 0
  BY Zenon DEF Requested
<1>2. itemCount[h][t] \in Nat
  BY Zenon DEF RowsInv, PurchaseTypeOK
<1> QED
  BY <1>1, <1>2, SMTT(30)

\* One unit of a SKU moves from the handler's row to its order.
CountsUnit(h, s) ==
    /\ UNCHANGED <<hpc, request, gift>>
    /\ next'[h] = next[h] + 1 /\ total'[h] = total[h] + items[h][s].price
    /\ \A t \in Skus :
          /\ itemCount'[h][t] = itemCount[h][t] + (IF t = s THEN 1 ELSE 0)
          /\ Requested(h, t)' = itemCount'[h][t]
          /\ items'[h][t].qty = items[h][t].qty - (IF t = s THEN 1 ELSE 0)
          /\ items'[h][t].id = items[h][t].id /\ items'[h][t].price = items[h][t].price

\* The loop counts one unit of a SKU that is not short.
LEMMA UnitCounted ==
    ASSUME RowsInv, NEW h \in Handlers, CountItem(h), NEW s, s = request[h][next[h]],
           items[h][s].id # 0, ~Short(h, s)
    PROVE  CountsUnit(h, s)
<1>1. s \in Skus /\ gift[h].id = 0
  BY DEF CountItem, RowsInv, PurchaseTypeOK, HeldRows
<1>2. /\ itemCount' = [itemCount EXCEPT ![h][s] = @ + 1]
      /\ total' = [total EXCEPT ![h] = @ + items[h][s].price]
      /\ items' = [items EXCEPT ![h][s].qty = @ - 1]
      /\ next' = [next EXCEPT ![h] = @ + 1]
      /\ UNCHANGED <<hpc, request, gift>>
  BY Zenon DEF CountItem
<1>3. \A t \in Skus : items[h][t].qty \in Int /\ itemCount[h][t] \in Nat
  BY DEF RowsInv, PurchaseTypeOK, Row
<1>4. next'[h] = next[h] + 1 /\ total'[h] = total[h] + items[h][s].price
  BY <1>2, ZenonT(30) DEF RowsInv, PurchaseTypeOK
<1>5. \A t \in Skus : itemCount'[h][t] = itemCount[h][t] + (IF t = s THEN 1 ELSE 0)
  <2>1. itemCount'[h] = [itemCount[h] EXCEPT ![s] = @ + 1] /\ itemCount[h] \in [Skus -> Nat]
    BY <1>2, Zenon DEF RowsInv, PurchaseTypeOK
  <2>2. itemCount'[h][s] = itemCount[h][s] + 1 /\ \A t \in Skus \ {s} : itemCount'[h][t] = itemCount[h][t]
    BY <1>1, <2>1, Zenon
  <2> QED
    BY <1>3, <2>2, SMTT(30)
<1>6. \A t \in Skus : Requested(h, t)' = itemCount'[h][t]
  <2> SUFFICES ASSUME NEW t \in Skus PROVE Requested(h, t)' = itemCount'[h][t]
    BY Zenon
  <2>1. Requested(h, t)' = itemCount'[h][t] - 0
    BY <1>1, <1>2, Zenon DEF Requested
  <2>2. itemCount'[h][t] \in Nat
    <3>1. itemCount[h][t] + 1 \in Nat /\ itemCount[h][t] + 0 \in Nat
      BY <1>3
    <3> QED
      BY <1>5, <3>1, Zenon
  <2> QED
    BY <2>1, <2>2
<1>7. \A t \in Skus : /\ items'[h][t].qty = items[h][t].qty - (IF t = s THEN 1 ELSE 0)
                      /\ items'[h][t].id = items[h][t].id /\ items'[h][t].price = items[h][t].price
  <2>1. items \in [Handlers -> [Skus -> Row]] /\ items[h] \in [Skus -> Row]
    BY Zenon DEF RowsInv, PurchaseTypeOK
  <2>2. items'[h] = [items[h] EXCEPT ![s] = [items[h][s] EXCEPT !.qty = @ - 1]]
    BY <1>2, <2>1, Zenon
  <2>3. items'[h][s] = [items[h][s] EXCEPT !.qty = @ - 1] /\ items[h][s] \in Row
    BY <1>1, <2>1, <2>2, Zenon
  <2>4. /\ items'[h][s].qty = items[h][s].qty - 1
        /\ items'[h][s].id = items[h][s].id /\ items'[h][s].price = items[h][s].price
    BY <2>3, Zenon DEF Row
  <2>5. \A t \in Skus \ {s} : items'[h][t] = items[h][t]
    BY <2>1, <2>2, Zenon
  <2>6. \A t \in Skus : items[h][t].qty - 0 = items[h][t].qty
    <3>1. \A q \in Int : q - 0 = q
      OBVIOUS
    <3> QED
      BY <1>3, <3>1, ZenonT(30)
  <2> QED
    BY <2>4, <2>5, <2>6, Zenon
<1> QED
  BY <1>2, <1>4, <1>5, <1>6, <1>7, ZenonT(30) DEF CountsUnit

\* The k-th unit of a SKU is counted only if k units were left.
LEMMA CountItemCounts ==
    ASSUME RowsInv, NEW h \in Handlers, LoopCounts(h), CountItem(h)
    PROVE  LoopCounts(h)'
<1> DEFINE n == next[h]
           skus == request[h]
           s == skus[n]
<1>1. /\ hpc[h] = "loop" /\ skus \in Seq(Skus) /\ n \in Nat \ {0} /\ n <= Len(skus) /\ s \in Skus
      /\ gift[h].id = 0
  BY SMTT(30) DEF CountItem, RowsInv, PurchaseTypeOK, HeldRows
<1>2. \A t \in Skus : items[h][t].qty \in Int /\ itemCount[h][t] \in Nat
  BY DEF RowsInv, PurchaseTypeOK, Row
<1>3. \A t \in Skus : Requested(h, t) = itemCount[h][t]
  BY <1>1, NoGift, Zenon
<1>4. CASE items[h][s].id = 0
  <2>1. hpc' = [hpc EXCEPT ![h] = "panic"]
    BY <1>4, Zenon DEF CountItem
  <2>2. hpc'[h] = "panic"
    BY <2>1, ZenonT(30) DEF RowsInv, PurchaseTypeOK
  <2> QED
    BY <2>2, Zenon DEF LoopCounts
<1>5. CASE items[h][s].id # 0 /\ Short(h, s)
  <2>1. hpc' = [hpc EXCEPT ![h] = "notfound"] /\ UNCHANGED <<request, next, items, itemCount, gift>>
    BY <1>5, Zenon DEF CountItem, requestVars
  <2>2. hpc'[h] = "notfound"
    BY <2>1 DEF RowsInv, PurchaseTypeOK
  <2>3. \A t \in Skus : Requested(h, t)' = Requested(h, t)
    BY <2>1, Zenon DEF Requested
  <2>4. Short(h, s)'
    BY <1>5, <2>1, Zenon DEF Short
  <2> QED
    BY <1>1, <1>5, <2>1, <2>2, <2>3, <2>4, SMTT(30) DEF LoopCounts
<1>6. CASE items[h][s].id # 0 /\ ~Short(h, s)
  <2>1. /\ UNCHANGED <<hpc, request, gift>> /\ n' = n + 1
        /\ \A t \in Skus : /\ itemCount'[h][t] = itemCount[h][t] + (IF t = s THEN 1 ELSE 0)
                           /\ Requested(h, t)' = itemCount'[h][t]
                           /\ items'[h][t].qty = items[h][t].qty - (IF t = s THEN 1 ELSE 0)
    <3>1. CountsUnit(h, s)
      BY <1>6, UnitCounted, Zenon
    <3> QED
      BY <3>1, Zenon DEF CountsUnit
  <2>2. hpc'[h] = "loop" /\ skus' = skus
    BY <1>1, <2>1, Zenon
  <2>3. \A t \in Skus : Cardinality(Places(skus, n + 1, t)) =
                           Cardinality(Places(skus, n, t)) + (IF s = t THEN 1 ELSE 0)
    BY <1>1, NextPlace, Zenon
  <2>4. \A t \in Skus : /\ itemCount[h][t] = Cardinality(Places(skus, n, t))
                        /\ itemCount[h][t] > 0 => items[h][t].qty >= itemCount[h][t] - 1
    BY <1>1, <1>3, ZenonT(30) DEF LoopCounts, Places
  <2>5. items[h][s].qty >= itemCount[h][s] + 1
    BY <1>1, <1>2, <1>6, SMTT(30) DEF Short
  <2> HIDE DEF n, skus, s
  <2>6. \A t \in Skus : itemCount'[h][t] = Cardinality(Places(skus, n + 1, t))
    BY <2>1, <2>3, <2>4, Zenon
  <2>7. \A t \in Skus : itemCount'[h][t] > 0 => items'[h][t].qty >= itemCount'[h][t] - 1
    BY <1>2, <2>1, <2>4, <2>5, SMTT(30)
  <2>8. \A t \in Skus : Cardinality({i \in 1 .. next'[h] - 1 : request'[h][i] = t}) = itemCount'[h][t]
    BY <1>1, <2>1, <2>2, <2>6, SMTT(30) DEF Places, n, skus
  <2>9. next'[h] <= Len(request'[h]) + 1
    BY <1>1, <2>1, <2>2, SMTT(30) DEF n, skus
  <2> QED
    BY <2>1, <2>2, <2>7, <2>8, <2>9, ZenonT(30) DEF LoopCounts
<1> QED
  BY <1>4, <1>5, <1>6, ZenonT(30)

\* The free item is not among what the request counts.
LEMMA GiftAside ==
    ASSUME RowsInv, NEW h \in Handlers, AddGift(h)
    PROVE  /\ hpc[h] = "gift" /\ hpc'[h] = "commit" /\ UNCHANGED <<request, next, items, total>>
           /\ \A s \in Skus : Requested(h, s)' = Requested(h, s)
<1> DEFINE dbIt == inventory[FreeItem]
<1>1. /\ hpc[h] = "gift" /\ gift[h].id = 0 /\ FreeItem \in Skus
      /\ dbIt \in Row /\ itemCount \in [Handlers -> [Skus -> Nat]] /\ gift \in [Handlers -> Row]
  BY PurchaseAssumption, Zenon DEF AddGift, RowsInv, PurchaseTypeOK, HeldRows
<1>2. hpc'[h] = "commit" /\ UNCHANGED <<request, next, items, total>>
  BY DEF AddGift, requestVars, RowsInv, PurchaseTypeOK
<1>3. \A s \in Skus : Requested(h, s)' = Requested(h, s)
  <2>1. CASE dbIt.qty < itemCount[h][FreeItem] + 1
    BY <2>1, Zenon DEF AddGift, GetItemBySKU, requestVars, Requested
  <2>2. CASE ~(dbIt.qty < itemCount[h][FreeItem] + 1)
    <3>1. /\ gift' = [gift EXCEPT ![h] = [dbIt EXCEPT !.qty = @ - 1]]
          /\ itemCount' = [itemCount EXCEPT ![h][FreeItem] = @ + 1]
      BY <2>2, Zenon DEF AddGift, GetItemBySKU
    <3>2. gift'[h].id # 0
      <4>1. dbIt.id = 0 => dbIt.qty = 0
        BY <1>1, SMTT(30) DEF RowsInv, NoRow
      <4>2. dbIt.id # 0
        BY <1>1, <2>2, <4>1, SMTT(30)
      <4>3. gift'[h] = [dbIt EXCEPT !.qty = @ - 1]
        BY <1>1, <3>1, Zenon
      <4> QED
        BY <1>1, <4>2, <4>3, Zenon DEF Row
    <3>3. /\ itemCount'[h][FreeItem] = itemCount[h][FreeItem] + 1
          /\ \A s \in Skus \ {FreeItem} : itemCount'[h][s] = itemCount[h][s]
          /\ \A s \in Skus : itemCount[h][s] \in Nat
      BY <1>1, <3>1, Zenon
    <3> QED
      BY <1>1, <3>2, <3>3, SMTT(30) DEF Requested
  <2> QED
    BY <2>1, <2>2, Zenon
<1> QED
  BY <1>1, <1>2, <1>3, Zenon

LEMMA AddGiftCounts ==
    ASSUME RowsInv, NEW h \in Handlers, LoopCounts(h), AddGift(h)
    PROVE  LoopCounts(h)'
BY GiftAside, Zenon DEF LoopCounts

\* The promotions are applied when the list is done, and all that is left is to end.
LEMMA EndCounts ==
    ASSUME RowsInv, NEW h \in Handlers, LoopCounts(h), ApplyPromotions(h) \/ Commit(h) \/ DbError(h)
    PROVE  LoopCounts(h)'
<1>1. CASE ApplyPromotions(h)
  <2>1. /\ hpc[h] = "loop" /\ next[h] > Len(request[h]) /\ hpc'[h] \in {"gift", "commit"}
        /\ UNCHANGED <<request, next, items, itemCount, gift>>
    BY <1>1, Zenon DEF ApplyPromotions, requestVars, RowsInv, PurchaseTypeOK
  <2>2. \A s \in Skus : Requested(h, s)' = Requested(h, s)
    BY <2>1, Zenon DEF Requested
  <2> QED
    BY <2>1, <2>2, Zenon DEF LoopCounts
<1>2. CASE Commit(h) \/ DbError(h)
  <2>1. hpc' = [hpc EXCEPT ![h] = "ok"] \/ hpc' = [hpc EXCEPT ![h] = "error"]
    BY <1>2, Zenon DEF Commit, DbError
  <2>2. hpc'[h] \in {"ok", "error"}
    BY <2>1, Zenon DEF RowsInv, PurchaseTypeOK
  <2> QED
    BY <2>2, Zenon DEF LoopCounts
<1> QED
  BY <1>1, <1>2, Zenon

\* A handler's steps leave the variables of the others alone.
LEMMA OthersUntouched ==
    ASSUME RowsInv, NEW h \in Handlers, NEW g \in Handlers, g # h,
           \/ \E skus \in Requests : Fetch(h, skus)
           \/ CountItem(h) \/ ApplyPromotions(h) \/ AddGift(h) \/ Commit(h) \/ DbError(h)
    PROVE  /\ hpc'[g] = hpc[g] /\ request'[g] = request[g] /\ next'[g] = next[g]
           /\ items'[g] = items[g] /\ itemCount'[g] = itemCount[g] /\ gift'[g] = gift[g]
           /\ total'[g] = total[g]
<1>1. CASE \E skus \in Requests : Fetch(h, skus)
  BY <1>1, Zenon DEF Fetch, RowsInv, PurchaseTypeOK
<1>2. CASE CountItem(h)
  BY <1>2, ZenonT(30) DEF CountItem, requestVars, RowsInv, PurchaseTypeOK
<1>3. CASE AddGift(h)
  BY <1>3, Zenon DEF AddGift, requestVars, RowsInv, PurchaseTypeOK
<1>4. CASE ApplyPromotions(h) \/ Commit(h) \/ DbError(h)
  BY <1>4, Zenon DEF ApplyPromotions, Commit, DbError, requestVars, RowsInv, PurchaseTypeOK
<1> QED
  BY <1>1, <1>2, <1>3, <1>4, Zenon

\* Every step keeps what the loops have counted.
LEMMA NextCounts ==
    ASSUME RowsInv, [Next]_vars, NEW g \in Handlers, LoopCounts(g)
    PROVE  LoopCounts(g)'
<1>1. CASE UNCHANGED <<hpc, requestVars>>
  BY <1>1, LoopUntouched DEF requestVars
<1>2. ASSUME NEW h \in Handlers,
             \/ \E skus \in Requests : Fetch(h, skus)
             \/ CountItem(h) \/ ApplyPromotions(h) \/ AddGift(h) \/ Commit(h) \/ DbError(h)
      PROVE  LoopCounts(g)'
  <2>1. CASE g # h
    BY <1>2, <2>1, OthersUntouched, LoopUntouched, Zenon
  <2>2. CASE g = h
    BY <1>2, <2>2, FetchCounts, CountItemCounts, AddGiftCounts, EndCounts, Zenon
  <2> QED
    BY <2>1, <2>2
<1> QED
  BY <1>1, <1>2, Zenon DEF Next, vars

-----------------------------------------------------------------------------
(* Sums over finite sets (SumFunctionOnSet of module Functions). *)

\* A least set among finite ones: the form that induction over sets takes.
LEMMA LeastSet ==
    ASSUME NEW D, IsFiniteSet(D), NEW T, T \subseteq SUBSET D, T # {}
    PROVE  \E s \in T : \A t \in T : t \subseteq s => t = s
<1>1. IsWellFoundedOn(StrictSubsetOrdering(D), SUBSET D)
  BY FS_StrictSubsetOrderingWellFounded, FS_FiniteSubsetsOfFinite, Zenon
<1>2. PICK s \in T : \A t \in T : ~(<<t, s>> \in StrictSubsetOrdering(D))
  BY <1>1, WFMin, Zenon
<1> QED
  BY <1>2, Zenon DEF StrictSubsetOrdering

\* The element that the recursion takes out of a set.
Chosen(s) == CHOOSE x \in s : TRUE

\* The equation of SumFunctionOnSet's recursion, at s.
SumAt(it, f, s) == it[s] = IF s = {} THEN 0 ELSE f[Chosen(s)] + it[s \ {Chosen(s)}]

\* it solves the recursion on the subsets of D.
Solves(it, f, D) == \A s \in SUBSET D : SumAt(it, f, s)

\* it is the function that SumFunctionOnSet chooses.
SumOf(it, f, D) == it = [s \in SUBSET D |-> IF s = {} THEN 0 ELSE f[Chosen(s)] + it[s \ {Chosen(s)}]]

LEMMA ChosenIn == \A s : s # {} => Chosen(s) \in s
BY Zenon DEF Chosen

\* The recursion has a solution on the subsets of a finite set.
LEMMA SumExists ==
    ASSUME NEW f, NEW D, IsFiniteSet(D)
    PROVE  \E it : SumOf(it, f, D)
<1> DEFINE Upto(n) == \E it : \A s \in SUBSET D : Cardinality(s) <= n => SumAt(it, f, s)
           bad == {n \in Nat : ~Upto(n)}
<1>1. \A s \in SUBSET D : IsFiniteSet(s) /\ Cardinality(s) \in Nat
  BY FS_Subset, FS_CardinalityType, Zenon
<1>2. bad = {}
  <2> SUFFICES ASSUME bad # {} PROVE FALSE
    BY Zenon
  <2>1. PICK n \in bad : \A m \in bad : n <= m
    BY LeastNumber, Zenon
  <2>2. n \in Nat /\ ~Upto(n)
    BY <2>1, Zenon
  <2>3. \A m \in Nat : m < n => Upto(m)
    <3> SUFFICES ASSUME NEW m \in Nat, m < n, ~Upto(m) PROVE FALSE
      BY Zenon
    <3>1. n <= m
      BY <2>1, Zenon
    <3> QED
      BY <2>2, <3>1
  <2>4. CASE n = 0
    <3> DEFINE zero == [s \in SUBSET D |-> 0]
    <3>1. ASSUME NEW s \in SUBSET D, Cardinality(s) <= n PROVE SumAt(zero, f, s)
      <4>1. Cardinality(s) = 0
        BY <1>1, <2>4, <3>1, SMTT(30)
      <4>2. s = {}
        BY <1>1, <4>1, FS_EmptySet, Zenon
      <4> QED
        BY <4>2, Zenon DEF SumAt
    <3> QED
      BY <2>2, <3>1, Zenon
  <2>5. CASE n # 0
    <3>1. n - 1 \in Nat /\ n - 1 < n
      BY <2>2, <2>5
    <3>2. PICK it : \A s \in SUBSET D : Cardinality(s) <= n - 1 => SumAt(it, f, s)
      BY <2>3, <3>1, Zenon
    <3> DEFINE more == [s \in SUBSET D |-> IF s = {} THEN 0 ELSE f[Chosen(s)] + it[s \ {Chosen(s)}]]
    <3>3. ASSUME NEW s \in SUBSET D, Cardinality(s) <= n PROVE SumAt(more, f, s)
      <4>1. CASE s = {}
        BY <4>1, Zenon DEF SumAt
      <4>2. CASE s # {}
        <5> DEFINE t == s \ {Chosen(s)}
        <5>1. Chosen(s) \in s /\ t \in SUBSET D
          BY <4>2, ChosenIn, Zenon
        <5>2. Cardinality(t) = Cardinality(s) - 1
          BY <1>1, <5>1, FS_RemoveElement, Zenon
        <5>3. Cardinality(t) <= n - 1
          BY <1>1, <2>2, <3>3, <5>2, SMTT(30)
        <5>4. SumAt(it, f, t)
          BY <3>2, <5>1, <5>3, Zenon
        <5>5. more[t] = it[t]
          BY <5>1, <5>4, Zenon DEF SumAt
        <5>6. more[s] = f[Chosen(s)] + it[t]
          BY <4>2, Zenon
        <5> QED
          BY <4>2, <5>5, <5>6, Zenon DEF SumAt
      <4> QED
        BY <4>1, <4>2, Zenon
    <3> QED
      BY <2>2, <3>3, Zenon
  <2> QED
    BY <2>4, <2>5, Zenon
<1>3. Cardinality(D) \in Nat
  BY FS_CardinalityType, Zenon
<1>4. PICK it : \A s \in SUBSET D : Cardinality(s) <= Cardinality(D) => SumAt(it, f, s)
  BY <1>2, <1>3, Zenon
<1>5. \A s \in SUBSET D : SumAt(it, f, s)
  BY <1>4, FS_Subset, Zenon
<1> DEFINE g == [s \in SUBSET D |-> it[s]]
<1>6. g = [s \in SUBSET D |-> IF s = {} THEN 0 ELSE f[Chosen(s)] + g[s \ {Chosen(s)}]]
  <2>1. \A s \in SUBSET D : g[s] = IF s = {} THEN 0 ELSE f[Chosen(s)] + g[s \ {Chosen(s)}]
    BY <1>5, Zenon DEF SumAt
  <2> QED
    BY <2>1, Zenon
<1> QED
  BY <1>6, Zenon DEF SumOf

\* So SumFunctionOnSet is the value of such a solution.
LEMMA SumSolved ==
    ASSUME NEW f, NEW D, IsFiniteSet(D)
    PROVE  \E it : Solves(it, f, D) /\ SumFunctionOnSet(f, D) = it[D]
<1> DEFINE it == CHOOSE it : SumOf(it, f, D)
<1>1. SumOf(it, f, D)
  BY SumExists, Zenon
<1>2. SumFunctionOnSet(f, D) = it[D]
  BY DEF SumFunctionOnSet, FoldFunctionOnSet, MapThenFoldSet, SumOf, Chosen
<1> HIDE DEF it
<1>3. Solves(it, f, D)
  BY <1>1, Zenon DEF Solves, SumAt, SumOf
<1> QED
  BY <1>2, <1>3, Zenon

\* The recursion's step at s.
Unfolds(it, f, s) == Chosen(s) \in s /\ it[s] = f[Chosen(s)] + it[s \ {Chosen(s)}]

\* A solution at a set that is not empty.
LEMMA SolutionAt ==
    ASSUME NEW D, NEW f, NEW it, Solves(it, f, D), NEW s, s \in SUBSET D, s # {}
    PROVE  Unfolds(it, f, s)
BY ChosenIn, Zenon DEF Solves, SumAt, Unfolds

\* Sums of natural numbers are natural numbers.
LEMMA SolutionIsNat ==
    ASSUME NEW D, IsFiniteSet(D), NEW f, \A x \in D : f[x] \in Nat, NEW it, Solves(it, f, D)
    PROVE  \A s \in SUBSET D : it[s] \in Nat
<1> DEFINE bad == {s \in SUBSET D : it[s] \notin Nat}
<1> SUFFICES ASSUME bad # {} PROVE FALSE
  BY Zenon
<1>a. bad \subseteq SUBSET D
  BY Zenon
<1> HIDE DEF bad
<1>1. PICK s \in bad : \A t \in bad : t \subseteq s => t = s
  BY <1>a, LeastSet
<1>2. s \in SUBSET D /\ it[s] \notin Nat
  BY <1>1, Zenon DEF bad
<1>3. CASE s = {}
  <2>1. it[s] = 0
    BY <1>2, <1>3, Zenon DEF Solves, SumAt
  <2> QED
    BY <1>2, <2>1, SMTT(30)
<1>4. CASE s # {}
  <2> DEFINE t == s \ {Chosen(s)}
  <2>1. Chosen(s) \in s /\ t \in SUBSET D /\ t # s /\ it[s] = f[Chosen(s)] + it[t]
    <3>1. Unfolds(it, f, s)
      BY <1>2, <1>4, SolutionAt, Zenon
    <3> QED
      BY <1>2, <3>1, Zenon DEF Unfolds
  <2>2. it[t] \in Nat /\ f[Chosen(s)] \in Nat
    BY <1>1, <1>2, <2>1, Zenon DEF bad
  <2> HIDE DEF t
  <2> QED
    BY <1>2, <2>1, <2>2, SMTT(30)
<1> QED
  BY <1>3, <1>4, Zenon

\* Whichever element is added last, the value is the same.
AnyFirst(it, f, D) == \A s \in SUBSET D : \A a \in s : it[s] = f[a] + it[s \ {a}]

\* A solution adds up in any order.
LEMMA SolutionStep ==
    ASSUME NEW D, IsFiniteSet(D), NEW f, \A x \in D : f[x] \in Nat, NEW it, Solves(it, f, D)
    PROVE  AnyFirst(it, f, D)
<1> DEFINE bad == {s \in SUBSET D : \E a \in s : it[s] # f[a] + it[s \ {a}]}
<1> SUFFICES ASSUME bad # {} PROVE FALSE
  BY Zenon DEF AnyFirst
<1>a. bad \subseteq SUBSET D
  BY Zenon
<1> HIDE DEF bad
<1>1. PICK s \in bad : \A t \in bad : t \subseteq s => t = s
  BY <1>a, LeastSet
<1>2. PICK a \in s : s \in SUBSET D /\ it[s] # f[a] + it[s \ {a}]
  BY <1>1, Zenon DEF bad
<1> DEFINE c == Chosen(s)
<1>3. c \in s /\ s \ {c} \in SUBSET D /\ it[s] = f[c] + it[s \ {c}] /\ s \ {c} # s
  <2>1. Unfolds(it, f, s)
    <3>1. s # {}
      BY Zenon
    <3> QED
      BY <1>2, <3>1, SolutionAt, Zenon
  <2> QED
    BY <1>2, <2>1, Zenon DEF Unfolds
<1>4. a # c
  BY <1>2, <1>3, Zenon
<1>5. s \ {a} \in SUBSET D /\ s \ {a} # s /\ (s \ {a}) \ {c} \in SUBSET D /\ a \in s \ {c} /\ c \in s \ {a}
  BY <1>2, <1>3, <1>4, Zenon
<1>6. it[s \ {c}] = f[a] + it[(s \ {c}) \ {a}]
  BY <1>1, <1>3, <1>5, Zenon DEF bad
<1>7. it[s \ {a}] = f[c] + it[(s \ {a}) \ {c}]
  BY <1>1, <1>5, Zenon DEF bad
<1>8. (s \ {c}) \ {a} = (s \ {a}) \ {c}
  BY Zenon
<1>9. f[a] \in Nat /\ f[c] \in Nat /\ it[(s \ {a}) \ {c}] \in Nat
  BY <1>2, <1>3, <1>5, SolutionIsNat, Zenon
<1> DEFINE rest == it[(s \ {a}) \ {c}]
<1>10. it[s] = f[c] + (f[a] + rest) /\ it[s \ {a}] = f[c] + rest
  BY <1>3, <1>6, <1>7, <1>8, Zenon
<1>11. it[s] # f[a] + (f[c] + rest)
  BY <1>2, <1>10, Zenon
<1> HIDE DEF rest, c
<1>12. f[a] \in Nat /\ f[c] \in Nat /\ rest \in Nat
  BY <1>9, Zenon DEF rest
<1>13. f[c] + (f[a] + rest) = f[a] + (f[c] + rest)
  BY <1>12
<1> QED
  BY <1>10, <1>11, <1>13, Zenon

\* it and jt agree on the subsets of E.
Agree(it, jt, E) == \A s \in SUBSET E : it[s] = jt[s]

\* Two solutions agree where their functions do.
LEMMA SolutionsAgree ==
    ASSUME NEW D, IsFiniteSet(D), NEW E, E \subseteq D, NEW f, NEW g, \A x \in E : f[x] = g[x],
           NEW it, Solves(it, f, D), NEW jt, Solves(jt, g, E)
    PROVE  Agree(it, jt, E)
<1> DEFINE bad == {s \in SUBSET E : it[s] # jt[s]}
<1> SUFFICES ASSUME bad # {} PROVE FALSE
  BY Zenon DEF Agree
<1>0. IsFiniteSet(E)
  BY FS_Subset, Zenon
<1>a. bad \subseteq SUBSET E
  BY Zenon
<1> HIDE DEF bad
<1>1. PICK s \in bad : \A t \in bad : t \subseteq s => t = s
  BY <1>a, <1>0, LeastSet, SMTT(30)
<1>2. s \in SUBSET E /\ s \in SUBSET D /\ it[s] # jt[s]
  BY <1>1, Zenon DEF bad
<1>3. CASE s = {}
  BY <1>2, <1>3, Zenon DEF Solves, SumAt
<1>4. CASE s # {}
  <2> DEFINE t == s \ {Chosen(s)}
  <2>1. Chosen(s) \in s /\ t \in SUBSET D /\ it[s] = f[Chosen(s)] + it[t]
    <3>1. Unfolds(it, f, s)
      BY <1>2, <1>4, SolutionAt, Zenon
    <3> QED
      BY <1>2, <3>1, Zenon DEF Unfolds
  <2>2. t \in SUBSET E /\ t # s /\ jt[s] = g[Chosen(s)] + jt[t]
    <3>1. Unfolds(jt, g, s)
      BY <1>2, <1>4, SolutionAt, Zenon
    <3> QED
      BY <1>2, <3>1, Zenon DEF Unfolds
  <2>3. it[t] = jt[t]
    BY <1>1, <2>2, Zenon DEF bad
  <2>4. f[Chosen(s)] = g[Chosen(s)]
    BY <1>2, <2>1, Zenon
  <2> QED
    BY <1>2, <2>1, <2>2, <2>3, <2>4, ZenonT(30)
<1> QED
  BY <1>3, <1>4, Zenon

\* Functions that agree on a finite set have the same sum over it.
LEMMA SumsAgree ==
    ASSUME NEW D, IsFiniteSet(D), NEW f, NEW g, \A x \in D : f[x] = g[x]
    PROVE  SumFunctionOnSet(f, D) = SumFunctionOnSet(g, D)
<1>1. PICK it : Solves(it, f, D) /\ SumFunctionOnSet(f, D) = it[D]
  BY SumSolved, Zenon
<1>2. PICK jt : Solves(jt, g, D) /\ SumFunctionOnSet(g, D) = jt[D]
  BY SumSolved, Zenon
<1>3. it[D] = jt[D]
  <2>1. D \subseteq D
    BY Zenon
  <2>2. Agree(it, jt, D)
    BY <1>1, <1>2, <2>1, SolutionsAgree, Zenon
  <2> QED
    BY <2>1, <2>2, Zenon DEF Agree
<1> QED
  BY <1>1, <1>2, <1>3, Zenon

\* Any element of a finite set may be added last.
LEMMA SumStep ==
    ASSUME NEW D, IsFiniteSet(D), NEW f, \A x \in D : f[x] \in Nat, NEW a \in D
    PROVE  /\ SumFunctionOnSet(f, D) = f[a] + SumFunctionOnSet(f, D \ {a})
           /\ SumFunctionOnSet(f, D \ {a}) \in Nat
<1> DEFINE E == D \ {a}
<1>1. E \subseteq D /\ IsFiniteSet(E)
  BY FS_Subset, Zenon
<1>2. PICK it : Solves(it, f, D) /\ SumFunctionOnSet(f, D) = it[D]
  BY SumSolved, Zenon
<1>3. PICK jt : Solves(jt, f, E) /\ SumFunctionOnSet(f, E) = jt[E]
  BY <1>1, SumSolved, Zenon
<1>4. it[E] = jt[E]
  <2>1. Agree(it, jt, E)
    BY <1>1, <1>2, <1>3, SolutionsAgree, Zenon
  <2> QED
    BY <2>1, Zenon DEF Agree
<1>5. it[D] = f[a] + it[E] /\ it[E] \in Nat
  <2>1. AnyFirst(it, f, D)
    BY <1>2, SolutionStep, Zenon
  <2>2. \A s \in SUBSET D : it[s] \in Nat
    BY <1>2, SolutionIsNat, Zenon
  <2>3. D \in SUBSET D
    BY Zenon
  <2> QED
    BY <1>1, <2>1, <2>2, <2>3, ZenonT(30) DEF AnyFirst
<1> QED
  BY <1>2, <1>3, <1>4, <1>5, Zenon

\* Zeros add up to zero.
LEMMA SumOfZeros ==
    ASSUME NEW D, IsFiniteSet(D), NEW f, \A x \in D : f[x] = 0
    PROVE  SumFunctionOnSet(f, D) = 0
<1>1. PICK it : Solves(it, f, D) /\ SumFunctionOnSet(f, D) = it[D]
  BY SumSolved, Zenon
<1> DEFINE zero == [s \in SUBSET D |-> 0]
<1>2. Solves(zero, f, D)
  <2> SUFFICES ASSUME NEW s \in SUBSET D PROVE SumAt(zero, f, s)
    BY Zenon DEF Solves
  <2>1. CASE s = {}
    BY <2>1, Zenon DEF SumAt
  <2>2. CASE s # {}
    <3>1. Chosen(s) \in D /\ s \ {Chosen(s)} \in SUBSET D
      BY <2>2, ChosenIn, Zenon
    <3>2. f[Chosen(s)] + zero[s \ {Chosen(s)}] = 0 + 0 /\ zero[s] = 0
      BY <3>1, Zenon
    <3>3. 0 + 0 = 0
      OBVIOUS
    <3> QED
      BY <2>2, <3>2, <3>3, Zenon DEF SumAt
  <2> QED
    BY <2>1, <2>2, Zenon
<1>3. it[D] = zero[D]
  <2> HIDE DEF zero
  <2>1. Agree(it, zero, D)
    BY <1>1, <1>2, D \subseteq D, SolutionsAgree, Zenon
  <2> QED
    BY <2>1, Zenon DEF Agree
<1> QED
  BY <1>1, <1>3, Zenon

\* A sum grows by what one of its terms grows.
LEMMA SumRaised ==
    ASSUME NEW D, IsFiniteSet(D), NEW f, NEW g, NEW a \in D, NEW p \in Nat,
           \A x \in D : f[x] \in Nat, g[a] = f[a] + p, \A x \in D \ {a} : g[x] = f[x]
    PROVE  SumFunctionOnSet(g, D) = SumFunctionOnSet(f, D) + p
<1> DEFINE rest == SumFunctionOnSet(f, D \ {a})
<1>1. SumFunctionOnSet(f, D) = f[a] + rest /\ rest \in Nat /\ f[a] \in Nat
  BY SumStep, Zenon
<1>2. \A x \in D : g[x] \in Nat
  <2>1. f[a] + p \in Nat
    BY <1>1
  <2> QED
    BY <2>1, Zenon
<1>3. SumFunctionOnSet(g, D) = g[a] + SumFunctionOnSet(g, D \ {a})
  BY <1>2, SumStep, Zenon
<1>4. IsFiniteSet(D \ {a})
  BY FS_Subset, Zenon
<1>5. SumFunctionOnSet(g, D \ {a}) = rest
  BY <1>4, SumsAgree, Zenon
<1> HIDE DEF rest
<1> QED
  BY <1>1, <1>3, <1>5, SMTT(30)

\* A finite sum of natural numbers is one.
LEMMA SumIsNat ==
    ASSUME NEW D, IsFiniteSet(D), NEW f, \A x \in D : f[x] \in Nat
    PROVE  SumFunctionOnSet(f, D) \in Nat
<1>1. PICK it : Solves(it, f, D) /\ SumFunctionOnSet(f, D) = it[D]
  BY SumSolved, Zenon
<1>2. \A s \in SUBSET D : it[s] \in Nat
  BY <1>1, SolutionIsNat, Zenon
<1> QED
  BY <1>1, <1>2, Zenon

\* Sums are added term by term.
LEMMA SumAdds ==
    ASSUME NEW D, IsFiniteSet(D), NEW f, NEW g, NEW w,
           \A x \in D : f[x] \in Nat /\ g[x] \in Nat /\ w[x] = f[x] + g[x]
    PROVE  SumFunctionOnSet(w, D) = SumFunctionOnSet(f, D) + SumFunctionOnSet(g, D)
<1>1. PICK it : Solves(it, f, D) /\ SumFunctionOnSet(f, D) = it[D]
  BY SumSolved, Zenon
<1>2. PICK jt : Solves(jt, g, D) /\ SumFunctionOnSet(g, D) = jt[D]
  BY SumSolved, Zenon
<1>3. PICK kt : Solves(kt, w, D) /\ SumFunctionOnSet(w, D) = kt[D]
  BY SumSolved, Zenon
<1> DEFINE bad == {s \in SUBSET D : kt[s] # it[s] + jt[s]}
<1>4. bad \subseteq SUBSET D
  BY Zenon
<1>5. ASSUME bad # {} PROVE FALSE
  <2> HIDE DEF bad
  <2>1. PICK s \in bad : \A t \in bad : t \subseteq s => t = s
    BY <1>4, <1>5, LeastSet, SMTT(30)
  <2>2. s \in SUBSET D /\ kt[s] # it[s] + jt[s]
    BY <2>1, Zenon DEF bad
  <2>3. CASE s = {}
    <3>1. it[s] = 0 /\ jt[s] = 0 /\ kt[s] = 0
      BY <1>1, <1>2, <1>3, <2>2, <2>3, ZenonT(30) DEF Solves, SumAt
    <3> QED
      BY <2>2, <3>1, SMTT(30)
  <2>4. CASE s # {}
    <3> DEFINE c == Chosen(s)
               t == s \ {c}
    <3>1. Unfolds(it, f, s) /\ Unfolds(jt, g, s) /\ Unfolds(kt, w, s)
      BY <1>1, <1>2, <1>3, <2>2, <2>4, SolutionAt, ZenonT(30)
    <3>2. /\ c \in s /\ t \in SUBSET D /\ t # s /\ t \subseteq s
          /\ it[s] = f[c] + it[t] /\ jt[s] = g[c] + jt[t] /\ kt[s] = w[c] + kt[t]
      BY <2>2, <3>1, Zenon DEF Unfolds
    <3> HIDE DEF c, t
    <3>3. kt[t] = it[t] + jt[t]
      BY <2>1, <3>2, Zenon DEF bad
    <3>4. /\ f[c] \in Nat /\ g[c] \in Nat /\ w[c] = f[c] + g[c]
      BY <2>2, <3>2, Zenon
    <3>5. it[t] \in Nat /\ jt[t] \in Nat
      BY <1>1, <1>2, <3>2, SolutionIsNat, ZenonT(30)
    <3>6. (f[c] + g[c]) + (it[t] + jt[t]) = (f[c] + it[t]) + (g[c] + jt[t])
      BY <3>4, <3>5, SMTT(30)
    <3> QED
      BY <2>2, <3>2, <3>3, <3>4, <3>6, ZenonT(30)
  <2> QED
    BY <2>3, <2>4, Zenon
<1>6. kt[D] = it[D] + jt[D]
  BY <1>5, Zenon
<1> QED
  BY <1>1, <1>2, <1>3, <1>6, Zenon

-----------------------------------------------------------------------------
(* What the loop adds up. *)

\* A list has finitely many SKUs.
LEMMA RangeFinite ==
    ASSUME NEW skus \in Seq(Skus)
    PROVE  Range(skus) \subseteq Skus /\ IsFiniteSet(Range(skus))
<1>1. skus \in [1 .. Len(skus) -> Skus] /\ DOMAIN skus = 1 .. Len(skus) /\ Len(skus) \in Nat
  OBVIOUS
<1>2. IsFiniteSet(1 .. Len(skus))
  BY <1>1, FS_Interval, SMTT(30)
<1>3. Range(skus) \subseteq Skus
  BY <1>1, Zenon DEF Range
<1>4. skus \in Surjection(1 .. Len(skus), Range(skus))
  BY <1>1, Zenon DEF Surjection, Range
<1>5. IsFiniteSet(Range(skus))
  BY <1>2, <1>4, FS_Surjection, Zenon
<1> QED
  BY <1>3, <1>5, Zenon

\* What a handler counts and charges are natural numbers.
LEMMA ChargedIsNat ==
    ASSUME RowsInv, NEW h \in Handlers, NEW s \in Skus
    PROVE  /\ Requested(h, s) \in Nat /\ items[h][s].price \in Nat
           /\ Charged(h)[s] = Requested(h, s) * items[h][s].price /\ Charged(h)[s] \in Nat
<1>1. itemCount[h][s] \in Nat /\ items[h][s].price \in Nat /\ Requested(h, s) >= 0
  BY ZenonT(30) DEF RowsInv, PurchaseTypeOK, HeldRows, Row
<1>2. itemCount[h][s] - 0 \in Int /\ itemCount[h][s] - 1 \in Int
  BY <1>1
<1>3. Requested(h, s) \in Int
  BY <1>2, Zenon DEF Requested
<1>4. Requested(h, s) \in Nat
  BY <1>1, <1>3
<1>5. Requested(h, s) * items[h][s].price \in Nat
  BY <1>1, <1>4
<1> QED
  BY <1>1, <1>4, <1>5, ZenonT(30) DEF Charged

\* The total stays the sum while neither counts nor rows change.
LEMMA TotalKept ==
    ASSUME NEW h \in Handlers, LoopTotals(h), hpc[h] \in {"loop", "gift", "commit"},
           request'[h] = request[h], total'[h] = total[h], items'[h] = items[h],
           \A s \in Skus : Requested(h, s)' = Requested(h, s)
    PROVE  LoopTotals(h)'
<1>1. Charged(h)' = Charged(h)
  BY Zenon DEF Charged
<1> QED
  BY <1>1, Zenon DEF LoopTotals

\* A request that is fetched has rows of its own SKUs only, and owes nothing.
LEMMA FetchTotals ==
    ASSUME RowsInv, NEW h \in Handlers, NEW skus \in Requests, Fetch(h, skus)
    PROVE  LoopTotals(h)'
<1>1. NoRow.id = 0 /\ skus \in Seq(Skus)
  BY PurchaseAssumption, Zenon DEF NoRow
<1>2. /\ request'[h] = skus /\ total'[h] = 0 /\ gift'[h] = NoRow
      /\ itemCount'[h] = [s \in Skus |-> 0] /\ items'[h] = GetItemsBySKU(Range(skus))
  BY Zenon DEF Fetch, RowsInv, PurchaseTypeOK
<1>3. \A s \in Skus : Charged(h)'[s] = 0
  <2> SUFFICES ASSUME NEW s \in Skus PROVE Charged(h)'[s] = 0
    BY Zenon
  <2>1. Requested(h, s)' = 0
    BY <1>1, <1>2, SMTT(30) DEF Requested
  <2>2. items'[h][s].price \in Nat
    <3>1. inventory[s].price \in Nat /\ NoRow.price \in Nat
      BY DEF RowsInv, PurchaseTypeOK, Row, NoRow
    <3>2. items'[h][s] = inventory[s] \/ items'[h][s] = NoRow
      BY <1>2, Zenon DEF GetItemsBySKU
    <3> QED
      BY <3>1, <3>2, ZenonT(30)
  <2>3. 0 * items'[h][s].price = 0
    BY <2>2
  <2>4. Charged(h)'[s] = Requested(h, s)' * items'[h][s].price
    BY Zenon DEF Charged
  <2> QED
    BY <2>1, <2>3, <2>4, Zenon
<1>4. SumFunctionOnSet(Charged(h)', Range(skus)) = 0
  BY <1>1, <1>3, RangeFinite, SumOfZeros, ZenonT(30)
<1>5. SumFunctionOnSet(Charged(h), Range(request[h]))' = 0
  BY <1>2, <1>4, Zenon
<1>6. ASSUME skus # <<>>, NEW s \in Skus, items'[h][s].id # 0 PROVE s \in Range(skus)
  <2>1. Range(skus) # {}
    <3>1. 1 \in DOMAIN skus
      BY <1>1, <1>6, SMTT(30)
    <3> QED
      BY <3>1, Zenon DEF Range
  <2> QED
    BY <1>1, <1>2, <1>6, <2>1, ZenonT(30) DEF GetItemsBySKU
<1> QED
  BY <1>2, <1>5, <1>6, Zenon DEF LoopTotals

\* A counted unit adds its price.
LEMMA CountItemTotals ==
    ASSUME RowsInv, NEW h \in Handlers, LoopTotals(h), CountItem(h)
    PROVE  LoopTotals(h)'
<1>0. PICK s : s = request[h][next[h]]
  BY Zenon
<1> DEFINE D == Range(request[h])
           p == items[h][s].price
<1>1. /\ hpc[h] = "loop" /\ request[h] \in Seq(Skus) /\ next[h] \in Nat \ {0}
      /\ next[h] <= Len(request[h]) /\ gift[h].id = 0
  BY Zenon DEF CountItem, RowsInv, PurchaseTypeOK, HeldRows
<1>2. s \in D /\ s \in Skus /\ IsFiniteSet(D) /\ D \subseteq Skus
  <2>1. next[h] \in DOMAIN request[h]
    BY <1>1
  <2>2. s \in D
    BY <1>0, <2>1, Zenon DEF Range
  <2> QED
    BY <1>1, <2>2, RangeFinite, Zenon
<1>3. CASE items[h][s].id = 0 \/ Short(h, s)
  <2>1. hpc' = [hpc EXCEPT ![h] = "panic"] \/ hpc' = [hpc EXCEPT ![h] = "notfound"]
    BY <1>0, <1>3, Zenon DEF CountItem
  <2>2. hpc'[h] \in {"panic", "notfound"}
    BY <2>1, Zenon DEF RowsInv, PurchaseTypeOK
  <2> QED
    BY <2>2, Zenon DEF LoopTotals
<1>4. CASE items[h][s].id # 0 /\ ~Short(h, s)
  <2>1. CountsUnit(h, s)
    BY <1>0, <1>4, UnitCounted, ZenonT(30)
  <2>2. \A t \in Skus : Requested(h, t) = itemCount[h][t]
    BY <1>1, NoGift, Zenon
  <2>3. \A t \in Skus : Charged(h)'[t] = Requested(h, t)' * items[h][t].price
    BY <2>1, Zenon DEF Charged, CountsUnit
  <2>4. Requested(h, s)' = Requested(h, s) + 1 /\ \A t \in Skus \ {s} : Requested(h, t)' = itemCount[h][t] + 0
    <3>1. \A t \in Skus : Requested(h, t)' = itemCount[h][t] + (IF t = s THEN 1 ELSE 0)
      BY <2>1, Zenon DEF CountsUnit
    <3> QED
      BY <1>2, <2>2, <3>1, Zenon
  <2>5. \A t \in Skus : /\ Requested(h, t) \in Nat /\ items[h][t].price \in Nat
                        /\ Charged(h)[t] = Requested(h, t) * items[h][t].price /\ Charged(h)[t] \in Nat
    BY ChargedIsNat, Zenon
  <2>6. \A t \in D \ {s} : Charged(h)'[t] = Charged(h)[t]
    <3> SUFFICES ASSUME NEW t \in Skus \ {s} PROVE Charged(h)'[t] = Charged(h)[t]
      BY <1>2, Zenon
    <3>1. itemCount[h][t] + 0 = Requested(h, t)
      BY <2>2, <2>5, SMTT(30)
    <3> QED
      BY <2>3, <2>4, <2>5, <3>1, Zenon
  <2>7. Charged(h)'[s] = Charged(h)[s] + p /\ p \in Nat
    <3>1. Charged(h)'[s] = (Requested(h, s) + 1) * p /\ Charged(h)[s] = Requested(h, s) * p
      BY <1>2, <2>3, <2>4, <2>5, Zenon
    <3>2. Requested(h, s) \in Nat /\ p \in Nat
      BY <1>2, <2>5, Zenon
    <3> HIDE DEF p
    <3>3. (Requested(h, s) + 1) * p = Requested(h, s) * p + p
      BY <3>2
    <3> QED
      BY <3>1, <3>2, <3>3, Zenon
  <2> HIDE DEF D, p
  <2>8. SumFunctionOnSet(Charged(h)', D) = SumFunctionOnSet(Charged(h), D) + p
    <3>1. \A t \in D : Charged(h)[t] \in Nat
      BY <1>2, <2>5, Zenon
    <3> QED
      BY <1>2, <2>6, <2>7, <3>1, SumRaised, ZenonT(30)
  <2>9. total[h] = SumFunctionOnSet(Charged(h), D) /\ D' = D /\ total'[h] = total[h] + p
    BY <1>1, <2>1, Zenon DEF LoopTotals, CountsUnit, D, p
  <2>10. total'[h] = SumFunctionOnSet(Charged(h), Range(request[h]))'
    BY <2>8, <2>9, Zenon DEF D
  <2>11. request'[h] # <<>> => \A t \in Skus : items'[h][t].id # 0 => t \in Range(request'[h])
    BY <1>1, <2>1, ZenonT(30) DEF LoopTotals, CountsUnit
  <2> QED
    BY <2>10, <2>11, Zenon DEF LoopTotals
<1> QED
  BY <1>3, <1>4, Zenon

\* Every step keeps what the loops have added up.
LEMMA NextTotals ==
    ASSUME RowsInv, [Next]_vars, NEW g \in Handlers, LoopTotals(g)
    PROVE  LoopTotals(g)'
<1>1. ASSUME hpc'[g] = hpc[g], request'[g] = request[g], total'[g] = total[g],
             items'[g] = items[g], itemCount'[g] = itemCount[g], gift'[g] = gift[g]
      PROVE  LoopTotals(g)'
  <2>1. \A s \in Skus : Requested(g, s)' = Requested(g, s)
    BY <1>1, Zenon DEF Requested
  <2>2. CASE hpc[g] \in {"loop", "gift", "commit"}
    BY <1>1, <2>1, <2>2, TotalKept, Zenon
  <2>3. CASE hpc[g] \notin {"loop", "gift", "commit"}
    BY <1>1, <2>3, Zenon DEF LoopTotals
  <2> QED
    BY <2>2, <2>3, Zenon
<1>2. CASE UNCHANGED <<hpc, requestVars>>
  BY <1>1, <1>2, Zenon DEF requestVars
<1>3. ASSUME NEW h \in Handlers,
             \/ \E skus \in Requests : Fetch(h, skus)
             \/ CountItem(h) \/ ApplyPromotions(h) \/ AddGift(h) \/ Commit(h) \/ DbError(h)
      PROVE  LoopTotals(g)'
  <2>1. CASE g # h
    BY <1>1, <1>3, <2>1, OthersUntouched, Zenon
  <2>2. CASE g = h /\ ((\E skus \in Requests : Fetch(h, skus)) \/ CountItem(h))
    BY <2>2, FetchTotals, CountItemTotals, Zenon
  <2>3. CASE g = h /\ AddGift(h)
    BY <2>3, GiftAside, TotalKept, Zenon
  <2>4. CASE g = h /\ ApplyPromotions(h)
    <3>1. hpc[g] = "loop" /\ UNCHANGED <<request, items, itemCount, total, gift>>
      BY <2>4, Zenon DEF ApplyPromotions, requestVars
    <3>2. \A s \in Skus : Requested(g, s)' = Requested(g, s)
      BY <3>1, Zenon DEF Requested
    <3> QED
      BY <3>1, <3>2, TotalKept, Zenon
  <2>5. CASE g = h /\ (Commit(h) \/ DbError(h))
    <3>1. hpc'[g] \in {"ok", "error"}
      BY <2>5, Zenon DEF Commit, DbError, RowsInv, PurchaseTypeOK
    <3> QED
      BY <3>1, Zenon DEF LoopTotals
  <2> QED
    BY <1>3, <2>1, <2>2, <2>3, <2>4, <2>5, ZenonT(30)
<1> QED
  BY <1>2, <1>3, Zenon DEF Next, vars

-----------------------------------------------------------------------------
(* The ids of the inventory table. *)

\* An id the sequence has passed stays so.
LEMMA StaysPassed ==
    ASSUME nextItemId \in Nat, nextItemId' \in Nat, nextItemId' >= nextItemId, ahead \subseteq ahead',
           NEW id \in Nat, Passed(id)
    PROVE  id < nextItemId' \/ (Engine = "postgres" /\ id \in ahead')
<1>1. id < nextItemId => id < nextItemId'
  OBVIOUS
<1> QED
  BY <1>1, Zenon DEF Passed

\* A statement leaves no id to the sequence that is taken already.
LEMMA StatementDrawn ==
    ASSUME RowsInv, IdsDrawn, NEW list \in Seq(Item), UpsertItems(list), UNCHANGED <<items, gift>>
    PROVE  IdsDrawn'
<1>1. /\ nextItemId' \in Nat \ {0} /\ nextItemId' >= nextItemId /\ ahead \subseteq ahead'
      /\ AllPassed(inventory, nextItemId, ahead) => AllPassed(inventory', nextItemId', ahead')
  BY StatementKeeps, Zenon
<1>2. AllPassed(inventory, nextItemId, ahead)
  BY Zenon DEF IdsDrawn, Passed, AllPassed
<1>3. \A s \in Skus : Passed(inventory[s].id)'
  BY <1>1, <1>2, Zenon DEF AllPassed, Passed
<1>4. nextItemId \in Nat /\ \A h \in Handlers : gift[h].id \in Nat /\ \A s \in Skus : items[h][s].id \in Nat
  <2>1. /\ nextItemId \in Nat /\ gift \in [Handlers -> Row] /\ items \in [Handlers -> [Skus -> Row]]
    BY Zenon DEF RowsInv, PurchaseTypeOK
  <2>2. \A r \in Row : r.id \in Nat
    BY Zenon DEF Row
  <2> QED
    BY <2>1, <2>2, Zenon
<1>5. nextItemId' \in Nat
  BY <1>1, Zenon
<1>6. \A h \in Handlers : /\ gift[h].id < nextItemId' \/ (Engine = "postgres" /\ gift[h].id \in ahead')
                          /\ \A s \in Skus : \/ items[h][s].id < nextItemId'
                                             \/ Engine = "postgres" /\ items[h][s].id \in ahead'
  BY <1>1, <1>4, <1>5, StaysPassed, Zenon DEF IdsDrawn
<1> QED
  BY <1>3, <1>6, Zenon DEF IdsDrawn, Passed

\* Every step keeps the ids of rows behind the sequence, but those that Postgres
\* was made to write ahead of it.
LEMMA NextDrawn ==
    ASSUME RowsInv, [Next]_vars, IdsDrawn
    PROVE  IdsDrawn'
<1>1. NoRow.id = 0 /\ nextItemId \in Nat \ {0}
  BY Zenon DEF NoRow, RowsInv, PurchaseTypeOK
<1>2. inventory \in [Skus -> Row] /\ items \in [Handlers -> [Skus -> Row]] /\ gift \in [Handlers -> Row]
  BY Zenon DEF RowsInv, PurchaseTypeOK
<1>3. ASSUME NEW its \in Shipments, AddItems(its), UNCHANGED requestVars
      PROVE  IdsDrawn'
  <2>1. its \in Seq(Item) /\ UpsertItems(its) /\ UNCHANGED <<items, gift>>
    BY <1>3, InventoryAssumption, Zenon DEF AddItems, requestVars
  <2> QED
    BY <2>1, StatementDrawn, Zenon
<1>4. ASSUME NEW h \in Handlers, NEW skus \in Requests, Fetch(h, skus)
      PROVE  IdsDrawn'
  <2>1. UNCHANGED <<inventory, nextItemId, ahead>>
    BY <1>4, Zenon DEF Fetch, inventoryVars
  <2>2. /\ gift'[h] = NoRow /\ \A s \in Skus : items'[h][s] \in {inventory[s], NoRow}
        /\ \A g \in Handlers \ {h} : gift'[g] = gift[g] /\ items'[g] = items[g]
    BY <1>2, <1>4, Zenon DEF Fetch, GetItemsBySKU
  <2>3. NoRow.id < nextItemId
    BY <1>1
  <2> QED
    BY <2>1, <2>2, <2>3, ZenonT(30) DEF IdsDrawn, Passed
<1>5. ASSUME NEW h \in Handlers, CountItem(h)
      PROVE  IdsDrawn'
  <2>1. UNCHANGED <<inventory, nextItemId, ahead, gift>>
    BY <1>5, Zenon DEF CountItem, inventoryVars, requestVars
  <2>2. \A g \in Handlers, s \in Skus : items'[g][s].id = items[g][s].id
    <3> SUFFICES ASSUME NEW g \in Handlers, NEW s \in Skus PROVE items'[g][s].id = items[g][s].id
      OBVIOUS
    <3>1. CASE UNCHANGED items
      BY <3>1, Zenon
    <3>2. ASSUME NEW t, items' = [items EXCEPT ![h][t].qty = @ - 1] PROVE items'[g][s].id = items[g][s].id
      BY <1>2, <3>2, SMTT(30) DEF Row
    <3> QED
      BY <1>5, <3>1, <3>2, Zenon DEF CountItem, requestVars
  <2> QED
    BY <2>1, <2>2, Zenon DEF IdsDrawn, Passed
<1>6. ASSUME NEW h \in Handlers, AddGift(h)
      PROVE  IdsDrawn'
  <2>1. UNCHANGED <<inventory, nextItemId, ahead, items>>
    BY <1>6, Zenon DEF AddGift, inventoryVars, requestVars
  <2>2. ASSUME NEW g \in Handlers PROVE gift'[g].id \in {gift[g].id, inventory[FreeItem].id}
    <3>1. CASE UNCHANGED gift
      BY <3>1, Zenon
    <3>2. CASE gift' = [gift EXCEPT ![h] = [inventory[FreeItem] EXCEPT !.qty = @ - 1]]
      <4>1. inventory[FreeItem] \in Row
        BY <1>2, PurchaseAssumption, Zenon
      <4> QED
        BY <1>2, <3>2, <4>1, Zenon DEF Row
    <3> QED
      BY <1>6, <3>1, <3>2, Zenon DEF AddGift, GetItemBySKU, requestVars
  <2>3. FreeItem \in Skus
    BY PurchaseAssumption, Zenon
  <2> QED
    BY <2>1, <2>2, <2>3, Zenon DEF IdsDrawn, Passed
<1>7. ASSUME NEW h \in Handlers, Commit(h)
      PROVE  IdsDrawn'
  <2>1. PICK list \in Writes(h) : UpsertItems(list)
    BY <1>7, Zenon DEF Commit
  <2>2. list \in Seq(Item)
    BY WritesAreItems, Zenon
  <2>3. UNCHANGED <<items, gift>>
    BY <1>7, Zenon DEF Commit, requestVars
  <2> QED
    BY <2>1, <2>2, <2>3, StatementDrawn, Zenon
<1>8. ASSUME UNCHANGED <<inventoryVars, requestVars>>
      PROVE  IdsDrawn'
  BY <1>8, Zenon DEF inventoryVars, requestVars, IdsDrawn, Passed
<1>9. \A h \in Handlers : ApplyPromotions(h) \/ DbError(h) => UNCHANGED <<inventoryVars, requestVars>>
  BY Zenon DEF ApplyPromotions, DbError
<1> QED
  BY <1>3, <1>4, <1>5, <1>6, <1>7, <1>8, <1>9, ZenonT(30) DEF Next, vars

\* The inductive invariant of the purchases, for any requests, shipments and
\* number of handlers: well-formed tables, exact counts, ids drawn once
\* (purchase.go PurchaseItems; database.go UpsertItems).
THEOREM PurchaseInvHolds == Spec => []PurchaseInv
<1>1. Init => PurchaseInv
  <2> SUFFICES ASSUME Init PROVE PurchaseInv
    OBVIOUS
  <2>1. RowsInv
    BY InitInv, Zenon
  <2>2. \A h \in Handlers : LoopCounts(h) /\ LoopTotals(h)
    BY Zenon DEF Init, LoopCounts, LoopTotals
  <2>3. NoRow.id = 0 /\ InitialNext \in Nat \ {0}
    BY InventoryAssumption, Zenon DEF NoRow
  <2>4. IdsDrawn
    <3>1. NoRow.id < InitialNext
      BY <2>3
    <3> QED
      BY <3>1, InventoryAssumption, Zenon DEF Init, InventoryInit, IdsDrawn, Passed
  <2> QED
    BY <2>1, <2>2, <2>4, Zenon DEF PurchaseInv
<1>2. PurchaseInv /\ [Next]_vars => PurchaseInv'
  <2> SUFFICES ASSUME PurchaseInv, [Next]_vars PROVE PurchaseInv'
    OBVIOUS
  <2>1. RowsInv /\ RowsInv'
    BY NextInv, Zenon DEF PurchaseInv
  <2>2. \A h \in Handlers : LoopCounts(h)' /\ LoopTotals(h)'
    BY <2>1, NextCounts, NextTotals, Zenon DEF PurchaseInv
  <2>3. IdsDrawn'
    BY <2>1, NextDrawn, Zenon DEF PurchaseInv
  <2> QED
    BY <2>1, <2>2, <2>3, Zenon DEF PurchaseInv
<1> QED
  BY <1>1, <1>2, PTL DEF Spec

\* A SKU on a list has units there.
LEMMA UnitsListed ==
    ASSUME NEW skus \in Seq(Skus), NEW s \in Skus
    PROVE  /\ IsFiniteSet({i \in DOMAIN skus : skus[i] = s}) /\ Units(skus, s) \in Nat
           /\ (\E i \in DOMAIN skus : skus[i] = s) => Units(skus, s) > 0
<1> DEFINE all == {i \in DOMAIN skus : skus[i] = s}
<1>1. DOMAIN skus = 1 .. Len(skus) /\ Len(skus) \in Nat
  OBVIOUS
<1>2. IsFiniteSet(DOMAIN skus)
  BY <1>1, FS_Interval, SMTT(30)
<1>3. IsFiniteSet(all) /\ Cardinality(all) \in Nat
  BY <1>2, FS_Subset, FS_CardinalityType, Zenon
<1>4. all # {} => Cardinality(all) # 0
  BY <1>3, FS_EmptySet, Zenon
<1>5. all # {} => Cardinality(all) > 0
  BY <1>3, <1>4, SMTT(30)
<1> QED
  BY <1>3, <1>5, Zenon DEF Units

\* At the end of the loop every SKU of the list has been counted.
LEMMA AllCounted ==
    ASSUME RowsInv, NEW h \in Handlers, LoopCounts(h), hpc[h] = "commit", NEW s \in Skus
    PROVE  Units(request[h], s) = Requested(h, s)
<1> DEFINE skus == request[h]
           n == next[h]
<1>1. /\ skus \in Seq(Skus) /\ n \in Nat /\ n <= Len(skus) + 1 /\ n > Len(skus)
      /\ Requested(h, s) = Cardinality(Places(skus, n, s))
  BY ZenonT(30) DEF RowsInv, PurchaseTypeOK, LoopCounts, Places
<1>2. n - 1 = Len(skus) /\ DOMAIN skus = 1 .. Len(skus)
  BY <1>1, SMTT(30)
<1> QED
  BY <1>1, <1>2, Zenon DEF Units, Places

\* A purchase that nothing has interfered with is carried out only if the table
\* has 2k - 1 units of every SKU it asks k of, and refused as out of stock only
\* if it has fewer of one (purchase.go, the loop over pReq.SKUs).
THEOREM RefusalRuleHolds == Spec => []RefusalRule
<1>1. PurchaseInv => RefusalRule
  <2> SUFFICES ASSUME PurchaseInv, NEW h \in Handlers, Fresh(h)
               PROVE  /\ hpc[h] = "commit" =>
                            \A s \in Skus : 2 * Units(request[h], s) - 1 <= inventory[s].qty
                      /\ hpc[h] = "notfound" =>
                            \E s \in Skus : 2 * Units(request[h], s) - 1 > inventory[s].qty
    BY Zenon DEF RefusalRule
  <2> DEFINE skus == request[h]
             n == next[h]
  <2>1. /\ RowsInv /\ LoopCounts(h) /\ skus \in Seq(Skus) /\ n \in Nat \ {0}
        /\ inventory \in [Skus -> Row] /\ items[h] \in [Skus -> Row] /\ itemCount[h] \in [Skus -> Nat]
    BY Zenon DEF PurchaseInv, RowsInv, PurchaseTypeOK
  <2>2. \A s \in Skus : /\ inventory[s].qty \in Int /\ inventory[s].qty >= 0
                        /\ items[h][s].qty \in Int /\ itemCount[h][s] \in Nat
    BY <2>1, Zenon DEF RowsInv, WritesNonNegative, Row
  <2>3. \A s \in Skus : Requested(h, s) \in Int
    <3> SUFFICES ASSUME NEW s \in Skus PROVE Requested(h, s) \in Int
      OBVIOUS
    <3>1. itemCount[h][s] \in Nat
      BY <2>2, Zenon
    <3>2. itemCount[h][s] - 0 \in Int /\ itemCount[h][s] - 1 \in Int
      BY <3>1
    <3> QED
      BY <3>2, Zenon DEF Requested
  <2>4. \A s \in Skus : items[h][s].id # 0 => inventory[s].qty = items[h][s].qty + Requested(h, s)
    <3> SUFFICES ASSUME NEW s \in Skus, items[h][s].id # 0
                 PROVE  inventory[s].qty = items[h][s].qty + Requested(h, s)
      OBVIOUS
    <3>1. inventory[s] = [items[h][s] EXCEPT !.qty = @ + Requested(h, s)] /\ items[h][s] \in Row
      BY <2>1, Zenon DEF Fresh
    <3> QED
      BY <3>1, Zenon DEF Row
  <2>5. Len(skus) \in Nat /\ DOMAIN skus = 1 .. Len(skus)
    BY <2>1, SMTT(30)
  <2>6. ASSUME hpc[h] = "commit", NEW s \in Skus
        PROVE  2 * Units(skus, s) - 1 <= inventory[s].qty
    <3>1. Requested(h, s) > 0 => items[h][s].qty >= Requested(h, s) - 1
      BY <2>1, <2>6, Zenon DEF LoopCounts
    <3>2. Units(skus, s) = Requested(h, s)
      BY <2>1, <2>6, AllCounted, Zenon
    <3>3. Requested(h, s) >= 0 /\ (Requested(h, s) > 0 => items[h][s].id # 0)
      BY <2>1, Zenon DEF RowsInv, HeldRows
    <3> HIDE DEF skus, n
    <3> QED
      BY <2>2, <2>3, <2>4, <3>1, <3>2, <3>3, SMTT(30)
  <2>7. ASSUME hpc[h] = "notfound"
        PROVE  \E s \in Skus : 2 * Units(skus, s) - 1 > inventory[s].qty
    <3> DEFINE s == skus[n]
    <3>1. n <= Len(skus) /\ gift[h].id = 0 /\ items[h][s].id # 0 /\ Short(h, s)
      BY <2>1, <2>7, ZenonT(30) DEF LoopCounts
    <3>2. s \in Skus /\ n \in DOMAIN skus
      BY <2>1, <2>5, <3>1, SMTT(30)
    <3>3. Requested(h, s) = Cardinality(Places(skus, n, s))
      BY <2>1, <2>7, <3>2, ZenonT(30) DEF LoopCounts, Places
    <3>4. Requested(h, s) = itemCount[h][s] - 0
      BY <3>1, ZenonT(30) DEF Requested
    <3>5. Cardinality(Places(skus, n + 1, s)) = Requested(h, s) + 1
      BY <2>1, <3>1, <3>2, <3>3, NextPlace, SMTT(30)
    <3>6. /\ Units(skus, s) \in Nat /\ Cardinality(Places(skus, n + 1, s)) <= Units(skus, s)
      <4> DEFINE all == {i \in DOMAIN skus : skus[i] = s}
      <4>1. IsFiniteSet(all) /\ Units(skus, s) \in Nat
        BY <2>1, <3>2, UnitsListed, ZenonT(30)
      <4>2. Places(skus, n + 1, s) \subseteq all
        BY <2>1, <2>5, <3>1, SMTT(30) DEF Places
      <4>3. Cardinality(Places(skus, n + 1, s)) <= Cardinality(all)
        BY <4>1, <4>2, FS_Subset, Zenon
      <4> QED
        BY <4>1, <4>3, Zenon DEF Units
    <3> HIDE DEF skus, n, s
    <3>7. items[h][s].qty < itemCount[h][s] + 1
      BY <3>1, Zenon DEF Short
    <3>8. inventory[s].qty = items[h][s].qty + Requested(h, s)
      BY <2>4, <3>1, <3>2, ZenonT(30)
    <3>9. 2 * Units(skus, s) - 1 > inventory[s].qty
      BY <2>2, <2>3, <3>2, <3>4, <3>5, <3>6, <3>7, <3>8, SMTT(30)
    <3> QED
      BY <3>2, <3>9, Zenon
  <2> QED
    BY <2>6, <2>7, Zenon
<1> QED
  BY <1>1, PurchaseInvHolds, PTL

\* Names are unique, so a list has at most one item of a name.
LEMMA OneOfAName ==
    ASSUME NEW rows, NEW name
    PROVE  CountItemsByName(ItemList(rows), name) \in {0, 1}
<1> DEFINE list == ItemList(rows)
           named == {s \in DOMAIN list : list[s].name = name}
<1>1. \A s \in DOMAIN list : s \in Skus /\ list[s].name = NameOf[s]
  BY Zenon DEF ItemList
<1>2. \A s, t \in named : s = t
  <2> SUFFICES ASSUME NEW s \in named, NEW t \in named PROVE s = t
    BY Zenon
  <2>1. s \in Skus /\ t \in Skus /\ NameOf[s] = NameOf[t]
    BY <1>1, Zenon
  <2> HIDE DEF named
  <2> QED
    BY <2>1, InventoryAssumption, Zenon
<1>3. CASE named = {}
  BY <1>3, FS_EmptySet, Zenon DEF CountItemsByName
<1>4. CASE named # {}
  <2>1. PICK s : named = {s}
    BY <1>2, <1>4, Zenon
  <2> QED
    BY <2>1, FS_Singleton, Zenon DEF CountItemsByName
<1> QED
  BY <1>3, <1>4, Zenon

\* So the promotions deduct nothing from a list of rows (promotion.go).
LEMMA NothingDeducted ==
    ASSUME NEW rows, IsFiniteSet({s \in Skus : rows[s].id # 0})
    PROVE  Deduction(ItemList(rows)) = 0
<1> DEFINE list == ItemList(rows)
           tvs == [i \in DOMAIN list |->
                     IF list[i].name = "Google TV" /\ CountItemsByName(list, "Google TV") >= 3
                     THEN list[i].price * (CountItemsByName(list, "Google TV") \div 3) ELSE 0]
           alexas == [i \in DOMAIN list |->
                        IF list[i].name = "Alexa Speaker" /\ CountItemsByName(list, "Alexa Speaker") > 3
                        THEN (list[i].price * CountItemsByName(list, "Alexa Speaker")) \div 10 ELSE 0]
<1>1. IsFiniteSet(DOMAIN list)
  BY Zenon DEF ItemList
<1>2. ASSUME NEW n \in {0, 1} PROVE ~(n >= 3) /\ ~(n > 3)
  BY <1>2
<1>3. ~(CountItemsByName(list, "Google TV") >= 3) /\ ~(CountItemsByName(list, "Alexa Speaker") > 3)
  BY <1>2, OneOfAName, Zenon
<1>4. (\A i \in DOMAIN list : tvs[i] = 0) /\ \A i \in DOMAIN list : alexas[i] = 0
  BY <1>3, Zenon
<1>5. SumFunction(tvs) = SumFunctionOnSet(tvs, DOMAIN list) /\ SumFunction(alexas) = SumFunctionOnSet(alexas, DOMAIN list)
  BY Zenon DEF SumFunction
<1>6. GoogleTVPromotion(list) = SumFunction(tvs) /\ AlexaSpeakerPromotion(list) = SumFunction(alexas)
  BY Zenon DEF GoogleTVPromotion, AlexaSpeakerPromotion
<1> HIDE DEF list, tvs, alexas
<1>7. GoogleTVPromotion(list) = 0 /\ AlexaSpeakerPromotion(list) = 0
  BY <1>1, <1>4, <1>5, <1>6, SumOfZeros, ZenonT(30)
<1>8. 0 + 0 = 0
  OBVIOUS
<1> QED
  BY <1>7, <1>8, Zenon DEF Deduction, list

\* What r units cost more than one.
LEMMA FirstUnit ==
    ASSUME NEW r \in Nat, NEW p \in Nat, r > 0
    PROVE  (r - 1) * p \in Nat /\ r * p = p + (r - 1) * p
BY SMTT(30)

\* A purchase that nothing has interfered with is charged what was quoted for
\* its list, plus the price of every unit after the first of a SKU: the quote
\* adds up the rows, the loop the units, and the promotions see the same rows
\* (item.go ItemsPrice; purchase.go PurchaseItems).
THEOREM QuoteIsChargeHolds == Spec => []QuoteIsCharge
<1>1. PurchaseInv => QuoteIsCharge
  <2> SUFFICES ASSUME PurchaseInv, NEW h \in Handlers, hpc[h] = "commit", Fresh(h), request[h] # <<>>
               PROVE  Price(h) = ItemsPrice(request[h])
                                 + SumFunction([s \in Range(request[h]) |->
                                                   (Units(request[h], s) - 1) * inventory[s].price])
    BY Zenon DEF QuoteIsCharge
  <2> DEFINE D == Range(request[h])
             rows == GetItemsBySKU(D)
             list == ItemList(rows)
             more == [s \in D |-> (Units(request[h], s) - 1) * inventory[s].price]
  <2>1. RowsInv /\ LoopCounts(h) /\ LoopTotals(h) /\ request[h] \in Seq(Skus)
    BY Zenon DEF PurchaseInv, RowsInv, PurchaseTypeOK
  <2>2. D \subseteq Skus /\ IsFiniteSet(D) /\ D # {}
    <3>1. 1 \in DOMAIN request[h]
      BY <2>1
    <3>2. D # {}
      BY <3>1, Zenon DEF Range
    <3> QED
      BY <2>1, <3>2, RangeFinite, Zenon
  <2>3. \A s \in D : /\ Requested(h, s) \in Nat /\ Requested(h, s) > 0 /\ items[h][s].id # 0
                     /\ Units(request[h], s) = Requested(h, s)
    <3> SUFFICES ASSUME NEW s \in D
                 PROVE  /\ Requested(h, s) \in Nat /\ Requested(h, s) > 0 /\ items[h][s].id # 0
                        /\ Units(request[h], s) = Requested(h, s)
      BY Zenon
    <3>1. s \in Skus /\ \E i \in DOMAIN request[h] : request[h][i] = s
      BY <2>2, Zenon DEF Range
    <3>2. Units(request[h], s) \in Nat /\ Units(request[h], s) > 0
      BY <2>1, <3>1, UnitsListed, Zenon
    <3>3. Units(request[h], s) = Requested(h, s)
      BY <2>1, <3>1, AllCounted, Zenon
    <3> QED
      BY <2>1, <3>1, <3>2, <3>3, ZenonT(30) DEF RowsInv, HeldRows
  <2>4. \A s \in Skus : items[h][s].id # 0 <=> s \in D
    BY <2>1, <2>3, Zenon DEF LoopTotals
  <2>5. \A s \in D : /\ rows[s] = inventory[s] /\ items[h][s] \in Row
                     /\ rows[s].id = items[h][s].id /\ rows[s].price = items[h][s].price
                     /\ rows[s].qty = items[h][s].qty + Requested(h, s)
    <3> SUFFICES ASSUME NEW s \in D
                 PROVE  /\ rows[s] = inventory[s] /\ items[h][s] \in Row
                        /\ rows[s].id = items[h][s].id /\ rows[s].price = items[h][s].price
                        /\ rows[s].qty = items[h][s].qty + Requested(h, s)
      BY Zenon
    <3>1. s \in Skus /\ rows[s] = inventory[s] /\ items[h][s] \in Row
      BY <2>1, <2>2, ZenonT(30) DEF GetItemsBySKU, RowsInv, PurchaseTypeOK
    <3>2. inventory[s] = [items[h][s] EXCEPT !.qty = @ + Requested(h, s)]
      BY <2>3, <3>1, Zenon DEF Fresh
    <3> QED
      BY <3>1, <3>2, Zenon DEF Row
  <2>6. \A s \in Skus : s \notin D => rows[s] = NoRow
    BY <2>2, Zenon DEF GetItemsBySKU
  <2>7. NoRow.id = 0
    BY Zenon DEF NoRow
  <2> HIDE DEF D, rows
  <2>8. {s \in Skus : rows[s].id # 0} = D /\ {s \in Skus : items[h][s].id # 0} = D
    BY <2>2, <2>4, <2>5, <2>6, <2>7, ZenonT(30)
  <2>9. list = [s \in D |-> [name |-> NameOf[s], price |-> rows[s].price]]
    BY <2>8, Zenon DEF ItemList
  <2>10. ItemList(items[h]) = [s \in D |-> [name |-> NameOf[s], price |-> items[h][s].price]]
    BY <2>8, Zenon DEF ItemList
  <2>11. ItemList(items[h]) = list /\ DOMAIN list = D /\ \A s \in D : list[s].price = items[h][s].price
    <3> HIDE DEF list
    <3>1. \A s \in D : [name |-> NameOf[s], price |-> rows[s].price]
                        = [name |-> NameOf[s], price |-> items[h][s].price]
      BY <2>5, Zenon
    <3>2. list = [s \in D |-> [name |-> NameOf[s], price |-> items[h][s].price]]
      BY <2>9, <3>1, Zenon
    <3>3. \A s \in D : list[s].price = items[h][s].price
      BY <3>2, ZenonT(30)
    <3> QED
      BY <2>10, <3>2, <3>3, Zenon
  <2>12. ~\E s \in D : rows[s].qty < 1
    <3> SUFFICES ASSUME NEW s \in D PROVE ~(rows[s].qty < 1)
      BY Zenon
    <3>1. /\ items[h][s].qty \in Int /\ items[h][s].qty >= 0 /\ rows[s].qty = items[h][s].qty + Requested(h, s)
          /\ Requested(h, s) \in Nat /\ Requested(h, s) > 0
      BY <2>1, <2>2, <2>3, <2>5, ZenonT(30) DEF RowsInv, HeldRows, Row
    <3> QED
      BY <3>1, SMTT(30)
  <2>13. Deduction(list) = 0
    BY <2>2, <2>8, NothingDeducted, Zenon
  <2> DEFINE prices == [s \in DOMAIN list |-> list[s].price]
  <2>14. /\ total[h] = SumFunction(prices) + SumFunction(more)
         /\ SumFunction(prices) \in Nat /\ SumFunction(more) \in Nat
    <3>1. SumFunction(prices) = SumFunctionOnSet(prices, D) /\ SumFunction(more) = SumFunctionOnSet(more, D)
      <4>1. DOMAIN prices = D /\ DOMAIN more = D
        BY <2>11, Zenon
      <4> QED
        BY <4>1, Zenon DEF SumFunction
    <3>2. \A s \in D : /\ prices[s] = items[h][s].price
                       /\ more[s] = (Requested(h, s) - 1) * items[h][s].price
      BY <2>3, <2>5, <2>11, Zenon
    <3> HIDE DEF prices, more, list
    <3>3. \A s \in D : prices[s] \in Nat /\ more[s] \in Nat /\ Charged(h)[s] = prices[s] + more[s]
      <4> SUFFICES ASSUME NEW s \in D
                   PROVE  prices[s] \in Nat /\ more[s] \in Nat /\ Charged(h)[s] = prices[s] + more[s]
        BY Zenon
      <4>1. items[h][s].price \in Nat /\ Charged(h)[s] = Requested(h, s) * items[h][s].price
        BY <2>1, <2>2, ChargedIsNat, Zenon
      <4> QED
        BY <2>3, <3>2, <4>1, FirstUnit, ZenonT(30)
    <3>4. SumFunctionOnSet(Charged(h), D) = SumFunctionOnSet(prices, D) + SumFunctionOnSet(more, D)
      BY <2>2, <3>3, SumAdds, Zenon
    <3>5. SumFunctionOnSet(prices, D) \in Nat /\ SumFunctionOnSet(more, D) \in Nat
      BY <2>2, <3>3, SumIsNat, Zenon
    <3>6. total[h] = SumFunctionOnSet(Charged(h), D)
      BY <2>1, Zenon DEF LoopTotals, D
    <3> QED
      BY <3>1, <3>4, <3>5, <3>6, ZenonT(30)
  <2> HIDE DEF list
  <2>15. ItemsPrice(request[h]) = SumFunction(prices) - Deduction(list)
    <3>1. ItemsPrice(request[h]) =
             IF \E s \in DOMAIN list : rows[s].qty < 1 THEN -1
             ELSE SumFunction([s \in DOMAIN list |-> list[s].price]) - Deduction(list)
      BY Zenon DEF ItemsPrice, list, rows, D
    <3>2. ~\E s \in DOMAIN list : rows[s].qty < 1
      BY <2>11, <2>12, Zenon
    <3> QED
      BY <3>1, <3>2, Zenon
  <2>16. Price(h) = total[h] - Deduction(list)
    BY <2>11, Zenon DEF Price
  <2> HIDE DEF prices, more
  <2>17. Price(h) = ItemsPrice(request[h]) + SumFunction(more)
    BY <2>13, <2>14, <2>15, <2>16, SMTT(30)
  <2> QED
    BY <2>17, Zenon DEF more, D
<1> QED
  BY <1>1, PurchaseInvHolds, PTL


\* Whatever is bought and whoever restocks meanwhile, a purchase pays the full
\* price of every unit it asked for (promotion.go, purchase.go).
THEOREM NoDiscountHolds == Spec => []NoDiscount
<1>1. PurchaseInv => NoDiscount
  <2> SUFFICES ASSUME PurchaseInv, NEW h \in Handlers, hpc[h] = "commit", request[h] # <<>>
               PROVE  Price(h) = total[h]
    BY ZenonT(30) DEF NoDiscount
  <2>1. LoopTotals(h) /\ request[h] \in Seq(Skus) /\ total[h] \in Nat
    BY Zenon DEF PurchaseInv, RowsInv, PurchaseTypeOK
  <2>2. {s \in Skus : items[h][s].id # 0} \subseteq Range(request[h])
    BY <2>1, Zenon DEF LoopTotals
  <2>3. IsFiniteSet({s \in Skus : items[h][s].id # 0})
    BY <2>1, <2>2, RangeFinite, FS_Subset, ZenonT(30)
  <2>4. Price(h) = total[h] - 0
    BY <2>3, NothingDeducted, Zenon DEF Price
  <2> QED
    BY <2>1, <2>4, SMTT(30)
<1> QED
  BY <1>1, PurchaseInvHolds, PTL

\* After any additions and purchases, with any ids, adding items takes another
\* item's row only if the request names its id or, on Postgres, if that row was
\* written ahead of the sequence (item.go AddItems, database.go UpsertItems).
THEOREM ItemsKeptHolds == Spec => ItemsKept
<1> DEFINE Kept(its) == \A s \in Listed : \/ s \in Listed'
                                          \/ \E i \in DOMAIN its : inventory[s].id = its[i].id
                                          \/ Engine = "postgres" /\ inventory[s].id \in ahead
           AllKept == \A its \in Shipments : AddItems(its) => Kept(its)
<1>1. PurchaseInv => [AllKept]_vars
  <2> SUFFICES ASSUME PurchaseInv, NEW its \in Shipments, AddItems(its), NEW s \in Listed,
                      \A i \in DOMAIN its : its[i].id # inventory[s].id,
                      ~(Engine = "postgres" /\ inventory[s].id \in ahead)
               PROVE  s \in Listed'
    BY Zenon
  <2>1. RowsInv /\ IdsDrawn /\ s \in Skus /\ inventory[s].id # 0
    BY Zenon DEF PurchaseInv, Listed
  <2>2. inventory[s].id < nextItemId
    BY <2>1, Zenon DEF IdsDrawn, Passed
  <2>3. its \in Seq(Item) /\ UpsertItems(its)
    BY InventoryAssumption, Zenon DEF AddItems
  <2>4. Len(its) \in Nat /\ Len(its) \in 0 .. Len(its)
    BY <2>3, SMTT(30)
  <2>5. PICK f : Runs(f, its, Len(its)) /\ Upserted(its) = f[Len(its)]
    BY <2>4, UpsertedRuns, Zenon
  <2>6. Upserted(its).table[s].id = inventory[s].id
    <3>1. f[Len(its)].table[s].id = inventory[s].id
      BY <2>1, <2>2, <2>3, <2>4, <2>5, RunKeepsRow, ZenonT(30)
    <3> QED
      BY <2>5, <3>1, Zenon
  <2>7. inventory' \in {Upserted(its).table, inventory}
    BY <2>3, Zenon DEF UpsertItems
  <2> QED
    BY <2>1, <2>6, <2>7, Zenon DEF Listed
<1> QED
  BY <1>1, PurchaseInvHolds, PTL DEF ItemsKept

=============================================================================

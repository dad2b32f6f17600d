------------------------- MODULE HeaderTablesProofs -------------------------
(***************************************************************************)
(* Theorems about HeaderTables, for tables of any size, headers of any     *)
(* length and any number of failed allocations.                            *)
(***************************************************************************)
EXTENDS HeaderTables, LoopLemmas

-----------------------------------------------------------------------------
(***************************************************************************)
(* Tables.                                                                 *)
(***************************************************************************)

\* The array is as large as max says, or lost.
Fit(t) ==
  /\ t \in Table
  /\ t.array => t.num <= t.max /\ t.max > 0 /\ Len(t.cells) = t.max

RequestOK(t) ==
  /\ Sound(t)
  /\ \A i \in 1..t.num : t.cells[i].field = "text" /\ t.cells[i].value \in {"text", "NULL"}

ResponseOK(t) ==
  /\ Sound(t)
  /\ \A i \in 1..t.num : Owned(t.cells[i])
  /\ \A i, k \in 1..t.num : t.cells[i].name = t.cells[k].name => i = k

TableOf(a, n, m, c) == [array |-> a, num |-> n, max |-> m, cells |-> c]

LEMMA Tables ==
  ASSUME NEW t \in Table
  PROVE  /\ t.array \in BOOLEAN /\ t.num \in Nat /\ t.max \in Nat /\ t.cells \in Seq(Cell)
         /\ Len(t.cells) \in Nat
         /\ t = TableOf(t.array, t.num, t.max, t.cells)
BY DEF Table, TableOf

LEMMA TableForms ==
  ASSUME NEW a \in BOOLEAN, NEW n \in Nat, NEW m \in Nat, NEW c \in Seq(Cell)
  PROVE  /\ TableOf(a, n, m, c) \in Table
         /\ TableOf(a, n, m, c).array = a /\ TableOf(a, n, m, c).num = n
         /\ TableOf(a, n, m, c).max = m /\ TableOf(a, n, m, c).cells = c
BY DEF TableOf, Table

LEMMA TableExcepts ==
  ASSUME NEW t \in Table
  PROVE  /\ \A n : [t EXCEPT !.num = n] = TableOf(t.array, n, t.max, t.cells)
         /\ \A n, m : [t EXCEPT !.num = n, !.max = m] = TableOf(t.array, n, m, t.cells)
         /\ \A m : [t EXCEPT !.max = m] = TableOf(t.array, t.num, m, t.cells)
         /\ \A c : [t EXCEPT !.cells = c] = TableOf(t.array, t.num, t.max, c)
         /\ \A a, c : [t EXCEPT !.array = a, !.cells = c] = TableOf(a, t.num, t.max, c)
         /\ \A c, n : [t EXCEPT !.cells = c, !.num = n] = TableOf(t.array, n, t.max, c)
         /\ \A k, c : [t EXCEPT !.cells[k] = c]
                       = TableOf(t.array, t.num, t.max, [t.cells EXCEPT ![k] = c])
<1>1. \A n : [t EXCEPT !.num = n] = TableOf(t.array, n, t.max, t.cells)
  BY DEF Table, TableOf
<1>2. ASSUME NEW n, NEW m
      PROVE  [t EXCEPT !.num = n, !.max = m] = TableOf(t.array, n, m, t.cells)
  <2> DEFINE u == [t EXCEPT !.num = n]
  <2>1. [t EXCEPT !.num = n, !.max = m] = [u EXCEPT !.max = m]
    OBVIOUS
  <2>2. u = TableOf(t.array, n, t.max, t.cells)
    BY DEF Table, TableOf
  <2> HIDE DEF u
  <2> QED BY <2>1, <2>2 DEF TableOf
<1>3. \A m : [t EXCEPT !.max = m] = TableOf(t.array, t.num, m, t.cells)
  BY DEF Table, TableOf
<1>4. \A c : [t EXCEPT !.cells = c] = TableOf(t.array, t.num, t.max, c)
  BY DEF Table, TableOf
<1>5. ASSUME NEW a, NEW c
      PROVE  [t EXCEPT !.array = a, !.cells = c] = TableOf(a, t.num, t.max, c)
  <2> DEFINE u == [t EXCEPT !.array = a]
  <2>1. [t EXCEPT !.array = a, !.cells = c] = [u EXCEPT !.cells = c]
    OBVIOUS
  <2>2. u = TableOf(a, t.num, t.max, t.cells)
    BY DEF Table, TableOf
  <2> HIDE DEF u
  <2> QED BY <2>1, <2>2 DEF TableOf
<1>6. ASSUME NEW c, NEW n
      PROVE  [t EXCEPT !.cells = c, !.num = n] = TableOf(t.array, n, t.max, c)
  <2> DEFINE u == [t EXCEPT !.cells = c]
  <2>1. [t EXCEPT !.cells = c, !.num = n] = [u EXCEPT !.num = n]
    OBVIOUS
  <2>2. u = TableOf(t.array, t.num, t.max, c)
    BY DEF Table, TableOf
  <2> HIDE DEF u
  <2> QED BY <2>1, <2>2 DEF TableOf
<1>7. ASSUME NEW k, NEW c
      PROVE  [t EXCEPT !.cells[k] = c] = TableOf(t.array, t.num, t.max, [t.cells EXCEPT ![k] = c])
  <2> DEFINE d == [t.cells EXCEPT ![k] = c]
  <2>1. [t EXCEPT !.cells[k] = c] = [t EXCEPT !.cells = d]
    OBVIOUS
  <2> HIDE DEF d
  <2>2. [t EXCEPT !.cells = d] = TableOf(t.array, t.num, t.max, d)
    BY <1>4
  <2> QED BY <2>1, <2>2 DEF d
<1> QED BY <1>1, <1>2, <1>3, <1>4, <1>5, <1>6, <1>7

LEMMA CellsFacts ==
  ASSUME NEW n \in Nat, NEW p \in Pointers
  PROVE  /\ Cells(n, p) \in Seq(Cell) /\ Len(Cells(n, p)) = n
         /\ \A i \in 1..n : Cells(n, p)[i] = CellOf(p)
         /\ CellOf(p) \in Cell /\ CellOf(p).field = p /\ CellOf(p).value = p
<1>1. CellOf(p) \in Cell /\ CellOf(p).field = p /\ CellOf(p).value = p
  BY DEF CellOf, Cell
<1>2. Cells(n, p) \in Seq(Cell) /\ Len(Cells(n, p)) = n
  BY <1>1, IsASeq DEF Cells
<1> QED BY <1>1, <1>2 DEF Cells

LEMMA NoTableFit == Fit(NoTable) /\ RequestOK(NoTable) /\ ResponseOK(NoTable)
<1>1. NoTable.array = FALSE /\ NoTable.num = 0 /\ NoTable \in Table
  BY DEF NoTable, Table
<1> HIDE DEF NoTable
<1> QED BY <1>1 DEF Fit, RequestOK, ResponseOK, Sound

LEMMA NewTablesFacts ==
  ASSUME NEW max \in Nat \ {0}, NEW n \in NewTables(max)
  PROVE  /\ n.failed \in {0, 1} /\ Fit(n.table)
         /\ n.failed = 0 => n.table.array /\ RequestOK(n.table) /\ ResponseOK(n.table)
<1> DEFINE c == Cells(max, "NULL")
           a == TableOf(TRUE, 0, max, c)
           b == TableOf(FALSE, 0, max, <<>>)
<1>1. c \in Seq(Cell) /\ Len(c) = max /\ \A i \in 1..max : c[i].field = "NULL" /\ c[i].value = "NULL"
  BY CellsFacts DEF Pointers
<1>2. n = [failed |-> 0, table |-> a] \/ n = [failed |-> 1, table |-> b]
  <2>1. [NoTable EXCEPT !.max = max] = b
    <3>1. NoTable = TableOf(FALSE, 0, 0, <<>>)
      BY DEF NoTable, TableOf
    <3>2. \A x : [TableOf(x, 0, 0, <<>>) EXCEPT !.max = max] = TableOf(x, 0, max, <<>>)
      BY DEF TableOf
    <3> QED BY <3>1, <3>2, Zenon
  <2> QED BY <2>1 DEF NewTables, TableOf
<1> HIDE DEF c
<1>3. a \in Table /\ a.array /\ a.num = 0 /\ a.max = max /\ a.cells = c
  <2>1. ASSUME NEW x \in BOOLEAN
        PROVE  LET u == TableOf(x, 0, max, c)
               IN  u \in Table /\ u.array = x /\ u.num = 0 /\ u.max = max /\ u.cells = c
    BY <1>1 DEF Table, TableOf
  <2> QED BY <2>1
<1>4. b \in Table /\ ~b.array
  <2>1. <<>> \in Seq(Cell)
    OBVIOUS
  <2>2. ASSUME NEW x \in BOOLEAN
        PROVE  LET u == TableOf(x, 0, max, <<>>)
               IN  u \in Table /\ u.array = x
    BY <2>1 DEF Table, TableOf
  <2> QED BY <2>2
<1> HIDE DEF a, b
<1>5. CASE n.failed = 0 /\ n.table = a
  <2>1. Fit(a)
    BY <1>1, <1>3 DEF Fit
  <2>2. Sound(a)
    BY <1>1, <1>3 DEF Sound
  <2> QED BY <1>3, <1>5, <2>1, <2>2 DEF RequestOK, ResponseOK
<1>6. CASE n.failed = 1 /\ n.table = b
  BY <1>4, <1>6 DEF Fit
<1> QED BY <1>2, <1>5, <1>6

LEMMA NothingToFault ==
  ASSUME NEW t, RequestOK(t) \/ ResponseOK(t)
  PROVE  ~FreeFaults(t)
BY DEF RequestOK, ResponseOK, Sound, Owned, FreeFaults

\* One line more, which is behind those that were there.
LEMMA GrownFacts ==
  ASSUME NEW t, Fit(t), NEW g \in Grown(t)
  PROVE  /\ g.failed \in {0, 1} /\ Fit(g.table)
         /\ g.table.num = t.num + 1
         /\ g.failed = 0 =>
              /\ g.table.array = t.array
              /\ t.array =>
                   /\ t.num + 1 \in 1..Len(g.table.cells)
                   /\ \A i \in 1..t.max : g.table.cells[i] = t.cells[i]
                   /\ \A i \in t.max + 1..g.table.max : g.table.cells[i] = CellOf("junk")
<1>1. /\ t \in Table /\ t.num \in Nat /\ t.max \in Nat /\ t.cells \in Seq(Cell)
      /\ t.array => t.num <= t.max /\ t.max > 0 /\ Len(t.cells) = t.max
  BY Tables DEF Fit
<1>2. CASE ~MustGrow(t)
  <2> DEFINE u == TableOf(t.array, t.num + 1, t.max, t.cells)
  <2>1. g = [failed |-> 0, table |-> u]
    BY <1>1, <1>2, TableExcepts DEF Grown
  <2>2. u \in Table /\ u.array = t.array /\ u.num = t.num + 1 /\ u.max = t.max /\ u.cells = t.cells
    BY <1>1 DEF Table, TableOf
  <2> HIDE DEF u
  <2>3. t.num + 1 <= t.max
    BY <1>1, <1>2 DEF MustGrow
  <2> QED BY <1>1, <2>1, <2>2, <2>3 DEF Fit
<1>3. CASE MustGrow(t)
  <2> DEFINE more == TableOf(t.array, t.num + 1, 2 * t.max, t.cells)
             c == t.cells \o Cells(t.max, "junk")
             u == TableOf(t.array, t.num + 1, 2 * t.max, c)
             w == TableOf(FALSE, t.num + 1, 2 * t.max, <<>>)
  <2>2. /\ more \in Table /\ more.array = t.array /\ more.num = t.num + 1 /\ more.max = 2 * t.max
        /\ more.cells = t.cells
    <3>1. t.num + 1 \in Nat /\ 2 * t.max \in Nat
      BY <1>1
    <3> QED BY <1>1, <3>1 DEF Table, TableOf
  <2>1. g = [failed |-> 0, table |-> u] \/ g = [failed |-> 1, table |-> w]
    <3>1. [t EXCEPT !.num = t.num + 1, !.max = 2 * t.max] = more
      <4>1. \A n, m : [t EXCEPT !.num = n, !.max = m] = TableOf(t.array, n, m, t.cells)
        BY <1>1, TableExcepts
      <4> QED BY <4>1, Zenon
    <3>2. g \in {[failed |-> 0, table |-> [more EXCEPT !.cells = more.cells \o Cells(t.max, "junk")]],
                 [failed |-> 1, table |-> [more EXCEPT !.array = FALSE, !.cells = <<>>]]}
      <4> HIDE DEF more
      <4> QED BY <1>3, <3>1 DEF Grown
    <3>3. ASSUME NEW d PROVE [more EXCEPT !.cells = d] = TableOf(t.array, t.num + 1, 2 * t.max, d)
      BY DEF TableOf
    <3>4. ASSUME NEW a, NEW d
          PROVE  [more EXCEPT !.array = a, !.cells = d] = TableOf(a, t.num + 1, 2 * t.max, d)
      <4> DEFINE v == [more EXCEPT !.array = a]
      <4>1. [more EXCEPT !.array = a, !.cells = d] = [v EXCEPT !.cells = d]
        OBVIOUS
      <4>2. v = TableOf(a, t.num + 1, 2 * t.max, t.cells)
        BY DEF TableOf
      <4> HIDE DEF v, more
      <4> QED BY <4>1, <4>2 DEF TableOf
    <3>5. [more EXCEPT !.array = FALSE, !.cells = <<>>] = w
      <4> HIDE DEF more
      <4> QED BY <3>4, Zenon
    <3> HIDE DEF w, more
    <3> QED BY <2>2, <3>2, <3>3, <3>5
  <2>3. w \in Table /\ ~w.array /\ w.num = t.num + 1
    <3>1. ASSUME NEW x \in BOOLEAN
          PROVE  LET v == TableOf(x, t.num + 1, 2 * t.max, <<>>)
                 IN  v \in Table /\ v.array = x /\ v.num = t.num + 1
      <4>1. t.num + 1 \in Nat /\ 2 * t.max \in Nat /\ <<>> \in Seq(Cell)
        BY <1>1
      <4> QED BY <4>1 DEF Table, TableOf
    <3> QED BY <3>1
  <2> HIDE DEF w, more
  <2>4. /\ Cells(t.max, "junk") \in Seq(Cell) /\ Len(Cells(t.max, "junk")) = t.max
        /\ \A i \in 1..t.max : Cells(t.max, "junk")[i] = CellOf("junk")
    BY <1>1, CellsFacts DEF Pointers
  <2>5. /\ c \in Seq(Cell) /\ Len(c) = Len(t.cells) + t.max
        /\ \A i \in 1..Len(c) :
              c[i] = IF i <= Len(t.cells) THEN t.cells[i] ELSE Cells(t.max, "junk")[i - Len(t.cells)]
    <3> DEFINE d == Cells(t.max, "junk")
    <3>1. d \in Seq(Cell) /\ Len(d) = t.max
      BY <2>4
    <3> HIDE DEF d
    <3>2. /\ t.cells \o d \in Seq(Cell) /\ Len(t.cells \o d) = Len(t.cells) + Len(d)
          /\ \A i \in 1..Len(t.cells) + Len(d) :
               (t.cells \o d)[i] = IF i <= Len(t.cells) THEN t.cells[i] ELSE d[i - Len(t.cells)]
      BY <1>1, <3>1, ConcatProperties
    <3> QED BY <1>1, <3>1, <3>2 DEF d
  <2>6. u \in Table /\ u.array = t.array /\ u.num = t.num + 1 /\ u.max = 2 * t.max /\ u.cells = c
    <3>1. t.num + 1 \in Nat /\ 2 * t.max \in Nat
      BY <1>1
    <3> HIDE DEF c
    <3> QED BY <1>1, <2>5, <3>1 DEF Table, TableOf
  <2> HIDE DEF u, c
  <2>7. CASE g.failed = 1 /\ g.table = w
    BY <2>3, <2>7 DEF Fit
  <2>8. CASE g.failed = 0 /\ g.table = u
    <3>1. t.array => t.num = t.max /\ Len(c) = 2 * t.max
      BY <1>1, <1>3, <2>5 DEF MustGrow
    <3>2. Fit(u)
      BY <1>1, <2>6, <3>1 DEF Fit
    <3>3. t.array => \A i \in 1..t.max : c[i] = t.cells[i]
      BY <1>1, <2>5, <3>1
    <3>4. ASSUME t.array, NEW i \in t.max + 1..2 * t.max PROVE c[i] = CellOf("junk")
      <4>1. i - t.max \in 1..t.max /\ i \in 1..Len(c) /\ ~(i <= Len(t.cells))
        BY <1>1, <3>1, <3>4
      <4> QED BY <1>1, <2>4, <2>5, <3>4, <4>1
    <3> QED BY <1>1, <2>6, <2>8, <3>1, <3>2, <3>3, <3>4
  <2> QED BY <2>1, <2>7, <2>8
<1> QED BY <1>2, <1>3

\* The table with c as its line k.
At(t, k, c) == TableOf(t.array, t.num, t.max, [t.cells EXCEPT ![k] = c])

LEMMA ExceptTwice ==
  ASSUME NEW f, NEW k, NEW c, NEW d
  PROVE  [[f EXCEPT ![k] = c] EXCEPT ![k] = d] = [f EXCEPT ![k] = d]
OBVIOUS

LEMMA AtFacts ==
  ASSUME NEW t \in Table, NEW k \in 1..Len(t.cells), NEW c \in Cell
  PROVE  /\ At(t, k, c) \in Table /\ At(t, k, c).array = t.array /\ At(t, k, c).num = t.num
         /\ At(t, k, c).max = t.max /\ At(t, k, c).cells = [t.cells EXCEPT ![k] = c]
         /\ At(t, k, c).cells[k] = c
         /\ \A d : At(At(t, k, c), k, d) = At(t, k, d)
<1>1. t.cells \in Seq(Cell) /\ t.array \in BOOLEAN /\ t.num \in Nat /\ t.max \in Nat
  BY Tables
<1> DEFINE e == [t.cells EXCEPT ![k] = c]
<1>2. e \in Seq(Cell) /\ e[k] = c
  BY <1>1, ExceptSeq
<1>3. \A d : [e EXCEPT ![k] = d] = [t.cells EXCEPT ![k] = d]
  BY ExceptTwice, Zenon
<1> HIDE DEF e
<1>4. /\ At(t, k, c) \in Table /\ At(t, k, c).array = t.array /\ At(t, k, c).num = t.num
      /\ At(t, k, c).max = t.max /\ At(t, k, c).cells = e
  <2> DEFINE u == TableOf(t.array, t.num, t.max, e)
  <2>1. u.array = t.array /\ u.num = t.num /\ u.max = t.max /\ u.cells = e
    BY Zenon DEF TableOf
  <2>2. u \in Table
    BY <1>1, <1>2, TableForms, Zenon
  <2>3. At(t, k, c) = u
    BY DEF At, e
  <2> HIDE DEF u
  <2> QED BY <2>1, <2>2, <2>3
<1>5. \A d : At(At(t, k, c), k, d) = At(t, k, d)
  <2> DEFINE u == At(t, k, c)
  <2>1. \A d : At(u, k, d) = TableOf(u.array, u.num, u.max, [u.cells EXCEPT ![k] = d])
    BY DEF At
  <2> HIDE DEF u
  <2>2. \A d : At(u, k, d) = TableOf(t.array, t.num, t.max, [e EXCEPT ![k] = d])
    BY <1>4, <2>1 DEF u
  <2> QED BY <1>3, <2>2 DEF At, u
<1> QED BY <1>2, <1>4, <1>5 DEF e

LEMMA AtAgain ==
  ASSUME NEW t \in Table, NEW k \in 1..Len(t.cells), NEW c \in Cell
  PROVE  At(t, k, c) \in Table /\ At(t, k, c).cells[k] = c /\ \A d : At(At(t, k, c), k, d) = At(t, k, d)
BY AtFacts, Zenon

\* Line k has become c, or is no line any more.
StoredAs(s, t, k, name, c) ==
  /\ s.failed \in {0, 1}
  /\ s.table \in Table
  /\ s.table.array = t.array /\ s.table.max = t.max
  /\ s.table.cells = [t.cells EXCEPT ![k] = c]
  /\ s.failed = 0 =>
       s.table.num = t.num /\ c.field = "text" /\ c.value = "text" /\ c.name = name
  /\ s.failed = 1 =>
       /\ s.table.num = t.num - 1 /\ c.field # "text"
       /\ c.value \in {"NULL", t.cells[k].value}

LEMMA DroppedFacts ==
  ASSUME NEW t \in Table, t.num > 0
  PROVE  /\ Dropped(t) \in Table /\ Dropped(t).array = t.array /\ Dropped(t).num = t.num - 1
         /\ Dropped(t).max = t.max /\ Dropped(t).cells = t.cells
<1>1. Dropped(t) = TableOf(t.array, t.num - 1, t.max, t.cells)
  BY TableExcepts DEF Dropped
<1>2. t.num - 1 \in Nat
  BY Tables
<1> QED BY <1>1, <1>2, Tables, TableForms

LEMMA DroppedAs ==
  ASSUME NEW t \in Table, t.num > 0, NEW k \in 1..Len(t.cells), NEW name, NEW c \in Cell,
         c.field # "text", c.value \in {"NULL", t.cells[k].value},
         NEW s, s = [failed |-> 1, table |-> Dropped(At(t, k, c))]
  PROVE  StoredAs(s, t, k, name, c)
<1> DEFINE u == At(t, k, c)
<1>1. u \in Table /\ u.num > 0 /\ u.array = t.array /\ u.num = t.num /\ u.max = t.max
      /\ u.cells = [t.cells EXCEPT ![k] = c]
  BY AtFacts
<1> HIDE DEF u
<1>2. /\ Dropped(u) \in Table /\ Dropped(u).array = u.array /\ Dropped(u).num = u.num - 1
      /\ Dropped(u).max = u.max /\ Dropped(u).cells = u.cells
  BY <1>1, DroppedFacts
<1>3. s.failed = 1 /\ s.table = Dropped(u)
  BY DEF u
<1> QED BY <1>1, <1>2, <1>3 DEF StoredAs

LEMMA StoredForms ==
  ASSUME NEW t \in Table, t.num > 0, NEW k \in 1..Len(t.cells),
         NEW name \in Names, NEW size \in Sizes, NEW s \in Stored(t, k, name, size)
  PROVE  \E c \in Cell : StoredAs(s, t, k, name, c)
<1>1. t.cells[k] \in Cell
  BY Tables
<1>2. ASSUME NEW c \in Cell PROVE [t EXCEPT !.cells[k] = c] = At(t, k, c)
  BY TableExcepts DEF At
<1>3. CASE s = [failed |-> 0,
                table |-> [t EXCEPT !.cells[k] = [field |-> "text", value |-> "text",
                                                  name |-> name, size |-> size]]]
  <2> DEFINE c == [field |-> "text", value |-> "text", name |-> name, size |-> size]
  <2>1. c \in Cell /\ c.field = "text" /\ c.value = "text" /\ c.name = name
    BY DEF Cell, Pointers
  <2>2. s = [failed |-> 0, table |-> [t EXCEPT !.cells[k] = c]]
    BY <1>3
  <2> HIDE DEF c
  <2>3. s = [failed |-> 0, table |-> At(t, k, c)]
    BY <1>2, <2>1, <2>2
  <2>4. s.failed = 0 /\ s.table = At(t, k, c)
    BY <2>3
  <2>5. StoredAs(s, t, k, name, c)
    BY <2>1, <2>4, AtFacts DEF StoredAs
  <2> QED BY <2>1, <2>5
<1>4. CASE s = [failed |-> 1,
                table |-> Dropped([t EXCEPT !.cells[k].field = "NULL", !.cells[k].name = NoName,
                                            !.cells[k].size = 0])]
  <2> DEFINE c1 == [t.cells[k] EXCEPT !.field = "NULL"]
             c2 == [c1 EXCEPT !.name = NoName]
             c == [c2 EXCEPT !.size = 0]
             v1 == [t EXCEPT !.cells[k] = c1]
             v2 == [v1 EXCEPT !.cells[k].name = NoName]
             v == [v2 EXCEPT !.cells[k].size = 0]
  <2>1. c1 \in Cell /\ c1.value = t.cells[k].value /\ c1.field = "NULL"
    BY <1>1 DEF Cell, Pointers
  <2>2. s = [failed |-> 1, table |-> Dropped(v)]
    BY <1>4
  <2> HIDE DEF c1
  <2>3. c2 \in Cell /\ c2.value = c1.value /\ c2.field = c1.field
    BY <2>1 DEF Cell
  <2>4. v1 = At(t, k, c1)
    BY <1>2, <2>1
  <2> HIDE DEF v1
  <2>5. v2 = At(t, k, c2)
    <3>1. v2 = [v1 EXCEPT !.cells[k] = [v1.cells[k] EXCEPT !.name = NoName]]
      OBVIOUS
    <3>2. v1 \in Table /\ v1.cells[k] = c1 /\ \A d : At(v1, k, d) = At(t, k, d)
      BY <2>1, <2>4, AtAgain, Zenon
    <3>3. \A d : [v1 EXCEPT !.cells[k] = d] = At(v1, k, d)
      BY <3>2, TableExcepts, Zenon DEF At
    <3>4. v2 = [v1 EXCEPT !.cells[k] = c2]
      BY <3>1, <3>2
    <3> HIDE DEF v2, c2
    <3> QED BY <3>2, <3>3, <3>4
  <2> HIDE DEF c2, v2
  <2>6. c \in Cell /\ c.value = c2.value /\ c.field = c2.field
    BY <2>3 DEF Cell
  <2>7. v = At(t, k, c)
    <3>1. v = [v2 EXCEPT !.cells[k] = [v2.cells[k] EXCEPT !.size = 0]]
      OBVIOUS
    <3>2. v2 \in Table /\ v2.cells[k] = c2 /\ \A d : At(v2, k, d) = At(t, k, d)
      BY <2>3, <2>5, AtAgain, Zenon
    <3>3. \A d : [v2 EXCEPT !.cells[k] = d] = At(v2, k, d)
      BY <3>2, TableExcepts, Zenon DEF At
    <3>4. v = [v2 EXCEPT !.cells[k] = c]
      BY <3>1, <3>2
    <3> HIDE DEF v, c
    <3> QED BY <3>2, <3>3, <3>4
  <2> HIDE DEF c, v
  <2>8. StoredAs(s, t, k, name, c)
    <3>1. c.field # "text" /\ c.value \in {"NULL", t.cells[k].value}
      BY <2>1, <2>3, <2>6
    <3>2. s = [failed |-> 1, table |-> Dropped(At(t, k, c))]
      BY <2>2, <2>7
    <3> QED BY <2>6, <3>1, <3>2, DroppedAs
  <2> QED BY <2>6, <2>8
<1>5. CASE s = [failed |-> 1,
                table |-> Dropped([t EXCEPT !.cells[k] = [CellOf("freed") EXCEPT !.value = "NULL"]])]
  <2> DEFINE c == [CellOf("freed") EXCEPT !.value = "NULL"]
  <2>1. c \in Cell /\ c.field = "freed" /\ c.value = "NULL"
    BY DEF Cell, CellOf, Pointers
  <2>2. s = [failed |-> 1, table |-> Dropped([t EXCEPT !.cells[k] = c])]
    BY <1>5
  <2> HIDE DEF c
  <2>3. s = [failed |-> 1, table |-> Dropped(At(t, k, c))]
    BY <1>2, <2>1, <2>2
  <2>4. StoredAs(s, t, k, name, c)
    BY <2>1, <2>3, DroppedAs
  <2> QED BY <2>1, <2>4
<1> QED BY <1>3, <1>4, <1>5 DEF Stored

LEMMA ClearedFacts ==
  ASSUME NEW t, Fit(t)
  PROVE  /\ Fit(Cleared(t)) /\ Cleared(t).array = t.array /\ Cleared(t).max = t.max
         /\ ResponseOK(t) => ResponseOK(Cleared(t))
<1> DEFINE d == [i \in DOMAIN t.cells |-> IF i <= t.num THEN CellOf("NULL") ELSE t.cells[i]]
           u == Cleared(t)
<1>1. /\ t \in Table /\ t.num \in Nat /\ t.max \in Nat /\ t.cells \in Seq(Cell)
      /\ t.array \in BOOLEAN
      /\ t.array => t.num <= t.max /\ t.max > 0 /\ Len(t.cells) = t.max
  BY Tables DEF Fit
<1>2. u = TableOf(t.array, 0, t.max, d)
  <2>2. u = [t EXCEPT !.cells = d, !.num = 0]
    BY DEF Cleared
  <2>3. \A c, n : [t EXCEPT !.cells = c, !.num = n] = TableOf(t.array, n, t.max, c)
    BY <1>1, TableExcepts
  <2> HIDE DEF d, u
  <2> QED BY <2>2, <2>3, Zenon
<1>3. d \in Seq(Cell) /\ Len(d) = Len(t.cells)
  <2>1. CellOf("NULL") \in Cell
    BY CellsFacts DEF Pointers
  <2>2. d = [i \in 1..Len(t.cells) |-> IF i <= t.num THEN CellOf("NULL") ELSE t.cells[i]]
    BY <1>1
  <2> HIDE DEF d
  <2>3. \A i \in 1..Len(t.cells) : (IF i <= t.num THEN CellOf("NULL") ELSE t.cells[i]) \in Cell
    BY <1>1, <2>1
  <2> QED BY <1>1, <2>2, <2>3, IsASeq
<1>4. u \in Table /\ u.array = t.array /\ u.num = 0 /\ u.max = t.max /\ u.cells = d
  <2> HIDE DEF d, u
  <2> QED BY <1>1, <1>2, <1>3, TableForms
<1>5. \A i \in 1..Len(t.cells) : d[i] = IF i <= t.num THEN CellOf("NULL") ELSE t.cells[i]
  BY <1>1
<1> HIDE DEF u, d
<1>6. Fit(u)
  BY <1>1, <1>3, <1>4 DEF Fit
<1>7. ASSUME ResponseOK(t) PROVE ResponseOK(u)
  <2>1. ASSUME t.array, NEW i \in 1..t.max PROVE ~("text" \in {d[i].field, d[i].value})
    <3>1. i \in 1..Len(t.cells)
      BY <1>1, <2>1
    <3>2. CASE i <= t.num
      <4>1. d[i] = CellOf("NULL")
        BY <1>5, <3>1, <3>2
      <4> QED BY <4>1 DEF CellOf
    <3>3. CASE ~(i <= t.num)
      <4>1. d[i] = t.cells[i] /\ i \in t.num + 1..t.max
        BY <1>1, <1>5, <3>1, <3>3
      <4> QED BY <1>7, <2>1, <4>1 DEF ResponseOK, Sound
    <3> QED BY <3>2, <3>3
  <2> QED BY <1>4, <2>1 DEF ResponseOK, Sound
<1> QED BY <1>4, <1>6, <1>7 DEF u

-----------------------------------------------------------------------------
(***************************************************************************)
(* The first line of a name.                                               *)
(***************************************************************************)

LEMMA Least ==
  ASSUME NEW S \in SUBSET Nat, S # {}
  PROVE  Min(S) \in S /\ \A k \in S : Min(S) <= k
<1>1. PICK x \in S : \A y \in S : x <= y
  BY LeastOf
<1> QED BY <1>1 DEF Min

LEMMA FoundFacts ==
  ASSUME NEW t, Fit(t), t.array, NEW name
  PROVE  \/ /\ Found(t, name) = 0
            /\ \A i \in 1..t.num : t.cells[i].field = "text" /\ t.cells[i].name # name
         \/ /\ Found(t, name) \in 1..t.num
            /\ t.cells[Found(t, name)].field # "text" \/ t.cells[Found(t, name)].name = name
<1>0. t.num \in Nat /\ t.cells \in Seq(Cell) /\ t.num <= Len(t.cells)
  BY Tables DEF Fit
<1> DEFINE I == {i \in 1..Len(Lines(t)) : Lines(t)[i].field # "text" \/ Lines(t)[i].name = name}
<1>1. Found(t, name) = IF I # {} THEN Min(I) ELSE 0
  BY DEF Found, SelectInSeq
<1>2. Len(Lines(t)) = t.num /\ \A i \in 1..t.num : Lines(t)[i] = t.cells[i]
  BY <1>0 DEF Lines
<1>3. I = {i \in 1..t.num : t.cells[i].field # "text" \/ t.cells[i].name = name}
  BY <1>2
<1>4. I \in SUBSET Nat
  BY <1>3
<1>5. CASE I = {}
  BY <1>1, <1>3, <1>5
<1>6. CASE I # {}
  <2>1. Found(t, name) \in I
    <3> HIDE DEF I
    <3> QED BY <1>1, <1>4, <1>6, Least
  <2> HIDE DEF I
  <2> QED BY <1>3, <2>1
<1> QED BY <1>5, <1>6

-----------------------------------------------------------------------------
(***************************************************************************)
(* Lines that come and go.                                                 *)
(***************************************************************************)

LEMMA FitAt ==
  ASSUME NEW t, Fit(t), NEW k \in 1..Len(t.cells), NEW c \in Cell
  PROVE  Fit(At(t, k, c)) /\ (t.array => At(t, k, c).array)
<1>1. t \in Table /\ t.cells \in Seq(Cell)
  BY Tables DEF Fit
<1>2. Len([t.cells EXCEPT ![k] = c]) = Len(t.cells)
  BY <1>1, ExceptSeq
<1> DEFINE u == At(t, k, c)
<1>3. /\ u \in Table /\ u.array = t.array /\ u.num = t.num /\ u.max = t.max
      /\ u.cells = [t.cells EXCEPT ![k] = c]
  BY <1>1, AtFacts
<1> HIDE DEF u
<1>4. Fit(u) /\ (t.array => u.array)
  BY <1>2, <1>3 DEF Fit
<1> QED BY <1>4 DEF u

\* One more line of the request.
LEMMA RequestLine ==
  ASSUME NEW t, Fit(t), t.array, RequestOK(t), NEW g \in Grown(t), g.failed = 0,
         NEW c \in Cell, c.field = "text", c.value = "NULL"
  PROVE  RequestOK(At(g.table, g.table.num, c))
<1> DEFINE n == t.num
           u == At(g.table, g.table.num, c)
<1>1. /\ Fit(g.table) /\ g.table.num = n + 1 /\ g.table.array /\ n + 1 \in 1..Len(g.table.cells)
      /\ \A i \in 1..t.max : g.table.cells[i] = t.cells[i]
      /\ \A i \in t.max + 1..g.table.max : g.table.cells[i] = CellOf("junk")
  BY GrownFacts
<1>2. /\ g.table \in Table /\ g.table.cells \in Seq(Cell) /\ Len(g.table.cells) = g.table.max
      /\ n \in Nat /\ t.max \in Nat /\ g.table.max \in Nat /\ n <= t.max
  BY <1>1, Tables DEF Fit
<1>3. u.array /\ u.num = n + 1 /\ u.max = g.table.max /\ u.cells = [g.table.cells EXCEPT ![n + 1] = c]
  BY <1>1, <1>2, AtFacts
<1> HIDE DEF u
<1>4. \A i \in 1..g.table.max : u.cells[i] = IF i = n + 1 THEN c ELSE g.table.cells[i]
  BY <1>1, <1>2, <1>3, ExceptSeq
<1> HIDE DEF n
<1>5. Sound(u)
  <2>1. ASSUME NEW i \in n + 2..g.table.max
        PROVE  ~("text" \in {u.cells[i].field, u.cells[i].value})
    <3>1. u.cells[i] = g.table.cells[i] /\ i \in 1..g.table.max
      BY <1>2, <1>4
    <3>2. CASE i <= t.max
      <4>1. g.table.cells[i] = t.cells[i] /\ i \in n + 1..t.max
        BY <1>1, <1>2, <3>2
      <4> QED BY <3>1, <4>1 DEF RequestOK, Sound, n
    <3>3. CASE ~(i <= t.max)
      <4>1. g.table.cells[i] = CellOf("junk")
        BY <1>1, <1>2, <3>3
      <4> QED BY <3>1, <4>1 DEF CellOf
    <3> QED BY <3>2, <3>3
  <2>2. n + 2 = u.num + 1
    BY <1>2, <1>3
  <2> QED BY <1>3, <2>1, <2>2 DEF Sound
<1>6. ASSUME NEW i \in 1..u.num
      PROVE  u.cells[i].field = "text" /\ u.cells[i].value \in {"text", "NULL"}
  <2>1. i \in 1..g.table.max /\ i \in 1..n + 1
    BY <1>1, <1>2, <1>3
  <2>2. CASE i = n + 1
    BY <1>4, <2>1, <2>2
  <2>3. CASE i # n + 1
    <3>1. i \in 1..n /\ i \in 1..t.max
      BY <1>2, <2>1, <2>3
    <3>2. u.cells[i] = t.cells[i]
      BY <1>1, <1>4, <2>1, <2>3, <3>1
    <3> QED BY <3>1, <3>2 DEF RequestOK, n
  <2> QED BY <2>2, <2>3
<1> QED BY <1>5, <1>6 DEF RequestOK, u

\* One more header of the response, or none.
LEMMA ResponseLine ==
  ASSUME NEW t, Fit(t), t.array, NEW g \in Grown(t), g.failed = 0,
         NEW name \in Names, NEW size \in Sizes,
         NEW s \in Stored(g.table, g.table.num, name, size)
  PROVE  /\ s.failed \in {0, 1} /\ Fit(s.table) /\ s.table.array
         /\ s.failed = 1 =>
              s.table.num = t.num /\ \A i \in 1..t.num : s.table.cells[i] = t.cells[i]
         /\ ResponseOK(t) /\ (\A i \in 1..t.num : t.cells[i].name # name) => ResponseOK(s.table)
<1> DEFINE n == t.num
           u == s.table
<1>1. /\ Fit(g.table) /\ g.table.num = n + 1 /\ g.table.array /\ n + 1 \in 1..Len(g.table.cells)
      /\ \A i \in 1..t.max : g.table.cells[i] = t.cells[i]
      /\ \A i \in t.max + 1..g.table.max : g.table.cells[i] = CellOf("junk")
  BY GrownFacts
<1>2. /\ g.table \in Table /\ g.table.cells \in Seq(Cell) /\ Len(g.table.cells) = g.table.max
      /\ n \in Nat /\ t.max \in Nat /\ g.table.max \in Nat /\ n <= t.max /\ g.table.max > 0
  BY <1>1, Tables DEF Fit
<1>3. PICK c \in Cell : StoredAs(s, g.table, n + 1, name, c)
  BY <1>1, <1>2, StoredForms
<1>4. /\ s.failed \in {0, 1} /\ u \in Table /\ u.array /\ u.max = g.table.max
      /\ u.cells = [g.table.cells EXCEPT ![n + 1] = c]
      /\ s.failed = 0 => u.num = n + 1 /\ c.field = "text" /\ c.value = "text" /\ c.name = name
      /\ s.failed = 1 => u.num = n /\ c.field # "text" /\ c.value \in {"NULL", g.table.cells[n + 1].value}
  BY <1>1, <1>2, <1>3 DEF StoredAs
<1> HIDE DEF n, u
<1>5. /\ Len(u.cells) = u.max
      /\ \A i \in 1..g.table.max : u.cells[i] = IF i = n + 1 THEN c ELSE g.table.cells[i]
  BY <1>1, <1>2, <1>4, ExceptSeq
<1>6. Fit(u)
  BY <1>1, <1>2, <1>4, <1>5 DEF Fit
<1>7. \A i \in 1..n : i \in 1..g.table.max /\ i # n + 1 /\ u.cells[i] = t.cells[i]
  BY <1>1, <1>2, <1>5
<1>8. ASSUME ResponseOK(t), \A i \in 1..n : t.cells[i].name # name
      PROVE  ResponseOK(u)
  <2>1. ASSUME NEW i \in n + 1..g.table.max
        PROVE  ~("text" \in {g.table.cells[i].field, g.table.cells[i].value})
    <3>1. CASE i <= t.max
      <4>1. g.table.cells[i] = t.cells[i] /\ i \in n + 1..t.max
        BY <1>1, <1>2, <3>1
      <4> QED BY <1>8, <4>1 DEF ResponseOK, Sound, n
    <3>2. CASE ~(i <= t.max)
      <4>1. g.table.cells[i] = CellOf("junk")
        BY <1>1, <1>2, <3>2
      <4> QED BY <4>1 DEF CellOf
    <3> QED BY <3>1, <3>2
  <2>2. ASSUME NEW i \in u.num + 1..u.max
        PROVE  ~("text" \in {u.cells[i].field, u.cells[i].value})
    <3>1. i \in n + 1..g.table.max /\ i \in 1..g.table.max
      BY <1>2, <1>4
    <3>2. CASE i # n + 1
      BY <1>5, <2>1, <3>1, <3>2
    <3>3. CASE i = n + 1
      <4>1. s.failed = 1
        BY <1>2, <1>4, <3>3
      <4>2. u.cells[i] = c
        BY <1>5, <3>1, <3>3
      <4> QED BY <1>4, <2>1, <3>1, <3>3, <4>1, <4>2
    <3> QED BY <3>2, <3>3
  <2>3. ASSUME NEW i \in 1..n PROVE Owned(u.cells[i]) /\ u.cells[i].name # name
    BY <1>7, <1>8 DEF ResponseOK, n
  <2>4. ASSUME NEW i \in 1..n, NEW k \in 1..n, u.cells[i].name = u.cells[k].name PROVE i = k
    BY <1>7, <1>8, <2>4 DEF ResponseOK, n
  <2>5. CASE s.failed = 1
    BY <1>4, <2>2, <2>3, <2>4, <2>5 DEF ResponseOK, Sound
  <2>6. CASE s.failed = 0
    <3>1. Owned(u.cells[n + 1]) /\ u.cells[n + 1].name = name
      BY <1>1, <1>2, <1>4, <1>5, <2>6 DEF Owned
    <3>2. \A i \in 1..u.num : i \in 1..n \/ i = n + 1
      BY <1>2, <1>4, <2>6
    <3>3. \A i \in 1..u.num : Owned(u.cells[i])
      BY <2>3, <3>1, <3>2
    <3>4. \A i, k \in 1..u.num : u.cells[i].name = u.cells[k].name => i = k
      BY <2>3, <2>4, <3>1, <3>2
    <3> QED BY <1>4, <2>2, <3>3, <3>4 DEF ResponseOK, Sound
  <2> QED BY <1>4, <2>5, <2>6
<1> QED BY <1>4, <1>6, <1>7, <1>8 DEF n, u

\* A header of the response that is replaced, or dropped.
LEMMA ReplacedLine ==
  ASSUME NEW t, Fit(t), t.array, NEW k \in 1..t.num,
         NEW name \in Names, NEW size \in Sizes,
         NEW s \in Stored([t EXCEPT !.cells[k] = CellOf("freed")], k, name, size)
  PROVE  /\ s.failed \in {0, 1} /\ Fit(s.table) /\ s.table.array
         /\ s.failed = 1 =>
              /\ s.table.num = t.num - 1
              /\ k = t.num => \A i \in 1..t.num - 1 : s.table.cells[i] = t.cells[i]
         /\ ResponseOK(t) /\ t.cells[k].name = name /\ (s.failed = 1 => k = t.num)
              => ResponseOK(s.table)
<1> DEFINE n == t.num
           u == s.table
           f == CellOf("freed")
           v == At(t, k, f)
<1>1. f \in Cell /\ f.value = "freed"
  BY CellsFacts DEF Pointers
<1> HIDE DEF f
<1>2. /\ t \in Table /\ t.cells \in Seq(Cell) /\ Len(t.cells) = t.max /\ n \in Nat
      /\ t.max \in Nat /\ n <= t.max /\ t.max > 0 /\ k \in 1..Len(t.cells) /\ k \in 1..n
  BY Tables DEF Fit
<1>3. [t EXCEPT !.cells[k] = f] = v
  BY <1>2, TableExcepts DEF At
<1>4. /\ v \in Table /\ v.array /\ v.num = n /\ v.max = t.max
      /\ v.cells = [t.cells EXCEPT ![k] = f] /\ v.cells[k] = f
  BY <1>1, <1>2, AtFacts
<1> HIDE DEF v
<1>5. s \in Stored(v, k, name, size)
  BY <1>3 DEF f
<1>6. v.num > 0 /\ Len(v.cells) = t.max
  BY <1>1, <1>2, <1>4, ExceptSeq
<1>7. PICK c \in Cell : StoredAs(s, v, k, name, c)
  BY <1>2, <1>4, <1>5, <1>6, StoredForms
<1>8. /\ s.failed \in {0, 1} /\ u \in Table /\ u.array /\ u.max = t.max
      /\ u.cells = [t.cells EXCEPT ![k] = c]
      /\ s.failed = 0 => u.num = n /\ c.field = "text" /\ c.value = "text" /\ c.name = name
      /\ s.failed = 1 => u.num = n - 1 /\ c.field # "text" /\ c.value # "text"
  BY <1>1, <1>2, <1>4, <1>7 DEF StoredAs
<1> HIDE DEF n, u
<1>9. /\ Len(u.cells) = u.max
      /\ \A i \in 1..t.max : u.cells[i] = IF i = k THEN c ELSE t.cells[i]
  BY <1>2, <1>8, ExceptSeq
<1>10. Fit(u)
  BY <1>2, <1>8, <1>9 DEF Fit
<1>11. ASSUME ResponseOK(t), t.cells[k].name = name, s.failed = 1 => k = n
       PROVE  ResponseOK(u)
  <2>1. ASSUME NEW i \in u.num + 1..u.max
        PROVE  ~("text" \in {u.cells[i].field, u.cells[i].value})
    <3>1. i \in 1..t.max
      BY <1>2, <1>8
    <3>2. CASE i = k
      BY <1>2, <1>8, <1>9, <3>1, <3>2
    <3>3. CASE i # k
      <4>1. i \in n + 1..t.max
        BY <1>2, <1>8, <1>11, <3>3
      <4>2. u.cells[i] = t.cells[i]
        BY <1>9, <3>1, <3>3
      <4> QED BY <1>11, <4>1, <4>2 DEF ResponseOK, Sound, n
    <3> QED BY <3>2, <3>3
  <2>2. \A i \in 1..u.num : i \in 1..n /\ i \in 1..t.max /\ (s.failed = 1 => i # k)
    BY <1>2, <1>8, <1>11
  <2>3. ASSUME NEW i \in 1..u.num PROVE Owned(u.cells[i]) /\ u.cells[i].name = t.cells[i].name
    <3>1. CASE i # k
      BY <1>9, <1>11, <2>2, <3>1 DEF ResponseOK, n
    <3>2. CASE i = k
      BY <1>8, <1>9, <1>11, <2>2, <3>2 DEF Owned
    <3> QED BY <3>1, <3>2
  <2>4. ASSUME NEW i \in 1..u.num, NEW m \in 1..u.num, u.cells[i].name = u.cells[m].name
        PROVE  i = m
    BY <1>11, <2>2, <2>3, <2>4 DEF ResponseOK, n
  <2> QED BY <1>8, <2>1, <2>3, <2>4 DEF ResponseOK, Sound
<1>12. ASSUME s.failed = 1, k = n, NEW i \in 1..n - 1 PROVE u.cells[i] = t.cells[i]
  BY <1>2, <1>9, <1>12
<1> QED BY <1>8, <1>10, <1>11, <1>12 DEF n, u

-----------------------------------------------------------------------------
(***************************************************************************)
(* The invariant.                                                          *)
(***************************************************************************)

\* Between the allocation of the tables and the end of the stream there are
\* tables, unless their allocation failed.
Inv ==
  /\ Fit(request) /\ Fit(response) /\ content \in Contents
  /\ stream # "freed" /\ parser = "headers" => request.array \/ "request" \in damaged
  /\ response.max > 0 => response.array \/ "response" \in damaged
  /\ TablesSound

LEMMA InvInit == Init => Inv
<1> SUFFICES ASSUME Init PROVE Inv
  OBVIOUS
<1>1. /\ request = NoTable /\ response = NoTable /\ content = "none" /\ parser = "start"
      /\ ~fault /\ NoTable.max = 0
  BY DEF Init, NoTable
<1>2. RequestSound /\ ResponseSound
  BY <1>1, NoTableFit DEF RequestOK, ResponseOK, RequestSound, ResponseSound
<1>3. TablesSound
  BY <1>1, <1>2 DEF TablesSound
<1> QED BY <1>1, <1>3, NoTableFit DEF Inv, Contents

\* What is kept of TablesSound in a step, table by table.
LEMMA SoundNow ==
  ASSUME Inv, ~fault
  PROVE  /\ "request" \in damaged \/ RequestOK(request)
         /\ "response" \in damaged \/ ResponseOK(response)
         /\ "content" \in damaged \/ content \in {"none", "given"}
BY DEF Inv, TablesSound, RequestSound, ResponseSound, RequestOK, ResponseOK

LEMMA SoundThen ==
  ASSUME fault' => damaged' # {},
         ~fault' => /\ "request" \in damaged' \/ RequestOK(request')
                    /\ "response" \in damaged' \/ ResponseOK(response')
                    /\ "content" \in damaged' \/ content' \in {"none", "given"}
  PROVE  TablesSound'
<1>1. RequestSound' <=> RequestOK(request')
  BY DEF RequestSound, RequestOK, Sound
<1>2. ResponseSound' <=> ResponseOK(response')
  BY DEF ResponseSound, ResponseOK, Sound
<1> QED BY <1>1, <1>2 DEF TablesSound

LEMMA InvThen ==
  ASSUME TablesSound', Fit(request'), Fit(response'), content' \in Contents,
         stream' # "freed" /\ parser' = "headers" => request'.array \/ "request" \in damaged',
         response'.max > 0 => response'.array \/ "response" \in damaged'
  PROVE  Inv'
<1>1. Fit(request)' /\ Fit(response)'
  BY DEF Fit
<1> QED BY <1>1 DEF Inv

-----------------------------------------------------------------------------
(***************************************************************************)
(* Steps.                                                                  *)
(***************************************************************************)

LEMMA MessageBeginSound == ASSUME Inv, MessageBegin PROVE Inv'
<1>1. ~fault
  BY DEF MessageBegin, Runs
<1>2. RequestMax \in Nat \ {0} /\ ResponseMax \in Nat \ {0}
  BY HeaderTablesAssumption
<1>3. PICK q \in NewTables(RequestMax), r \in NewTables(ResponseMax) :
        /\ request' = q.table /\ response' = r.table
        /\ damaged' = (damaged \ {"content"}) \union (IF q.failed = 1 THEN {"request"} ELSE {})
                              \union (IF r.failed = 1 THEN {"response"} ELSE {})
  BY DEF MessageBegin
<1>4. /\ fault' = (FreeFaults(request) \/ FreeFaults(response))
      /\ content' = "none" /\ parser' = "headers"
  BY DEF MessageBegin
<1>5. /\ q.failed \in {0, 1} /\ Fit(q.table)
      /\ q.failed = 0 => q.table.array /\ RequestOK(q.table) /\ ResponseOK(q.table)
  BY <1>2, NewTablesFacts
<1>6. /\ r.failed \in {0, 1} /\ Fit(r.table)
      /\ r.failed = 0 => r.table.array /\ RequestOK(r.table) /\ ResponseOK(r.table)
  BY <1>2, NewTablesFacts
<1>7. fault' => damaged' # {}
  <2>1. fault' => "request" \in damaged \/ "response" \in damaged
    BY <1>1, <1>4, SoundNow, NothingToFault
  <2> QED BY <1>3, <2>1
<1>8. TablesSound'
  BY <1>3, <1>4, <1>5, <1>6, <1>7, SoundThen
<1> QED BY <1>3, <1>4, <1>5, <1>6, <1>8, InvThen DEF Contents

LEMMA RequestFieldSound == ASSUME Inv, RequestField PROVE Inv'
<1> DEFINE line == [CellOf("NULL") EXCEPT !.field = "text"]
<1>1. /\ ~fault /\ parser = "headers" /\ UNCHANGED <<response, content>>
      /\ Fit(request) /\ Fit(response) /\ content \in Contents
      /\ request.array \/ "request" \in damaged
      /\ response.max > 0 => response.array \/ "response" \in damaged
  BY DEF RequestField, Runs, Inv
<1>2. PICK g \in Grown(request), f \in {0, 1} :
        /\ f = 1 => g.failed = 0
        /\ fault' = (f = 1 \/ (g.failed = 0 /\ ~g.table.array))
        /\ damaged' = IF g.failed + f > 0 THEN damaged \union {"request"} ELSE damaged
        /\ request' = IF g.failed = 0 /\ g.table.array
                      THEN [g.table EXCEPT !.cells[g.table.num] = line] ELSE g.table
  BY DEF RequestField
<1>3. line \in Cell /\ line.field = "text" /\ line.value = "NULL"
  BY DEF CellOf, Cell, Pointers
<1> HIDE DEF line
<1>4. /\ g.failed \in {0, 1} /\ Fit(g.table) /\ g.table.num = request.num + 1
      /\ g.failed = 0 =>
           /\ g.table.array = request.array
           /\ request.array => g.table.num \in 1..Len(g.table.cells)
  BY <1>1, GrownFacts
<1>5. CASE g.failed = 0 /\ g.table.array
  <2>1. request' = At(g.table, g.table.num, line)
    BY <1>2, <1>4, <1>5, TableExcepts DEF At, Fit
  <2>2. Fit(request') /\ request'.array
    BY <1>3, <1>4, <1>5, <2>1, FitAt
  <2>3. "request" \in damaged' \/ RequestOK(request')
    BY <1>1, <1>2, <1>3, <1>4, <1>5, <2>1, SoundNow, RequestLine
  <2>4. damaged \subseteq damaged' /\ (fault' => "request" \in damaged')
    <3>1. CASE f = 1
      BY <1>2, <1>5, <3>1
    <3>2. CASE f = 0
      <4>1. f # 1 /\ ~(g.failed + f > 0)
        BY <1>5, <3>2
      <4>2. ~fault' /\ damaged' = damaged
        BY <1>2, <1>5, <4>1, Zenon
      <4> QED BY <4>2
    <3> QED BY <3>1, <3>2
  <2>5. TablesSound'
    BY <1>1, <2>3, <2>4, SoundNow, SoundThen
  <2> QED BY <1>1, <2>2, <2>4, <2>5, InvThen
<1>6. CASE ~(g.failed = 0 /\ g.table.array)
  <2>1. "request" \in damaged' /\ damaged \subseteq damaged' /\ request' = g.table
    BY <1>1, <1>2, <1>4, <1>6
  <2>2. TablesSound'
    BY <1>1, <2>1, SoundNow, SoundThen
  <2> QED BY <1>1, <1>4, <2>1, <2>2, InvThen
<1> QED BY <1>5, <1>6

LEMMA RequestValueSound == ASSUME Inv, RequestValue PROVE Inv'
<1>1. /\ ~fault /\ UNCHANGED <<response, content, parser>>
      /\ request.array /\ request.num > 0 /\ request.cells[request.num].value = "NULL"
      /\ Fit(request) /\ Fit(response) /\ content \in Contents
      /\ response.max > 0 => response.array \/ "response" \in damaged
  BY DEF RequestValue, Runs, Inv
<1>2. PICK f \in {0, 1} :
        /\ fault' = (f = 1)
        /\ damaged' = IF f = 1 THEN damaged \union {"request"} ELSE damaged
        /\ request' = IF f = 1 THEN request
                      ELSE [request EXCEPT !.cells[request.num].value = "text"]
  BY DEF RequestValue
<1>3. CASE f = 1
  <2>1. TablesSound'
    BY <1>1, <1>2, <1>3, SoundThen
  <2> QED BY <1>1, <1>2, <1>3, <2>1, InvThen
<1>4. CASE f = 0
  <2> DEFINE n == request.num
             c == [request.cells[n] EXCEPT !.value = "text"]
             u == At(request, n, c)
  <2>1. /\ request \in Table /\ request.cells \in Seq(Cell) /\ n \in 1..Len(request.cells)
        /\ request.cells[n] \in Cell /\ Len(request.cells) = request.max /\ request.max \in Nat
        /\ n \in Nat
    BY <1>1, Tables DEF Fit
  <2>2. c \in Cell /\ c.field = request.cells[n].field /\ c.value = "text"
    BY <2>1 DEF Cell, Pointers
  <2>3. request' = u
    <3>1. request' = [request EXCEPT !.cells[n] = c]
      BY <1>2, <1>4
    <3> HIDE DEF c
    <3> QED BY <2>1, <3>1, TableExcepts DEF At
  <2> HIDE DEF c
  <2>4. Fit(u) /\ u.array
    BY <1>1, <2>1, <2>2, FitAt
  <2>5. u.num = n /\ u.max = request.max /\ u.cells = [request.cells EXCEPT ![n] = c]
    BY <2>1, <2>2, AtFacts
  <2> HIDE DEF u
  <2>6. \A i \in 1..request.max : u.cells[i] = IF i = n THEN c ELSE request.cells[i]
    BY <2>1, <2>2, <2>5, ExceptSeq
  <2>7. ASSUME RequestOK(request) PROVE RequestOK(u)
    <3>1. \A i \in n + 1..request.max : i \in 1..request.max /\ i # n
      BY <2>1
    <3>2. Sound(u)
      <4>1. \A i \in n + 1..request.max : u.cells[i] = request.cells[i]
        BY <2>6, <3>1
      <4>2. \A i \in n + 1..request.max :
              ~("text" \in {request.cells[i].field, request.cells[i].value})
        BY <1>1, <2>7 DEF RequestOK, Sound
      <4> HIDE DEF n
      <4> QED BY <2>4, <2>5, <4>1, <4>2 DEF Sound
    <3>3. \A i \in 1..n : i \in 1..request.max
      BY <2>1
    <3>4. \A i \in 1..n : u.cells[i].field = "text" /\ u.cells[i].value \in {"text", "NULL"}
      BY <2>1, <2>2, <2>6, <2>7, <3>3 DEF RequestOK
    <3> QED BY <2>5, <3>2, <3>4 DEF RequestOK
  <2>8. TablesSound'
    BY <1>1, <1>2, <1>4, <2>3, <2>7, SoundNow, SoundThen
  <2> QED BY <1>1, <1>2, <1>4, <2>3, <2>4, <2>8, InvThen
<1> QED BY <1>3, <1>4

LEMMA ReplaceSound ==
  ASSUME Inv, Answers, UNCHANGED <<request, content, parser>>,
         NEW name \in Names, NEW size \in Sizes, Replace(name, size)
  PROVE  Inv'
<1> DEFINE k == Found(response, name)
<1>1. /\ ~fault /\ UNCHANGED fault /\ response.array /\ k > 0
      /\ response.cells[k].field = "text"
      /\ Fit(request) /\ Fit(response) /\ content \in Contents
      /\ parser = "headers" => request.array \/ "request" \in damaged
  BY DEF Answers, Replace, Runs, Inv
<1>2. PICK s \in Stored([response EXCEPT !.cells[k] = CellOf("freed")], k, name, size) :
        /\ response' = s.table
        /\ damaged' = IF s.failed = 1 /\ k < response.num THEN damaged \union {"response"} ELSE damaged
  BY DEF Replace
<1>3. k \in 1..response.num /\ response.cells[k].name = name
  BY <1>1, FoundFacts
<1> HIDE DEF k
<1>4. /\ s.failed \in {0, 1} /\ Fit(s.table) /\ s.table.array
      /\ ResponseOK(response) /\ response.cells[k].name = name /\ (s.failed = 1 => k = response.num)
              => ResponseOK(s.table)
  BY <1>1, <1>3, ReplacedLine
<1>5. "response" \in damaged' \/ ResponseOK(response')
  <2>1. response.num \in Nat
    BY <1>1, Tables DEF Fit
  <2>2. k = response.num \/ k < response.num
    BY <1>3, <2>1
  <2> QED BY <1>1, <1>2, <1>3, <1>4, <2>2, SoundNow
<1>6. TablesSound'
  BY <1>1, <1>2, <1>5, SoundNow, SoundThen
<1> QED BY <1>1, <1>2, <1>4, <1>6, InvThen

LEMMA ExtendSound ==
  ASSUME Inv, Answers, UNCHANGED <<request, content, parser>>,
         NEW name \in Names, NEW size \in Sizes, Extend(name, size)
  PROVE  Inv'
<1>1. /\ ~fault /\ response.max > 0
      /\ response.array => Found(response, name) = 0
      /\ Fit(request) /\ Fit(response) /\ content \in Contents
      /\ parser = "headers" => request.array \/ "request" \in damaged
      /\ response.array \/ "response" \in damaged
  BY DEF Answers, Extend, Runs, Inv
<1>2. PICK g \in Grown(response) :
       \/ /\ g.failed = 1
          /\ response' = g.table
          /\ damaged' = damaged \union {"response"}
          /\ UNCHANGED fault
       \/ /\ g.failed = 0 /\ g.table.array
          /\ \E s \in Stored(g.table, g.table.num, name, size) : response' = s.table
          /\ UNCHANGED <<damaged, fault>>
       \/ /\ ~g.table.array /\ g.failed = 0
          /\ fault'
          /\ UNCHANGED <<response, damaged, failures>>
  BY DEF Extend
<1>3. Fit(g.table) /\ (g.failed = 0 => g.table.array = response.array)
  BY <1>1, GrownFacts
<1>4. CASE g.failed = 1 /\ response' = g.table /\ damaged' = damaged \union {"response"} /\ UNCHANGED fault
  <2>1. TablesSound'
    BY <1>1, <1>4, SoundNow, SoundThen
  <2> QED BY <1>1, <1>3, <1>4, <2>1, InvThen
<1>5. CASE /\ g.failed = 0 /\ g.table.array
           /\ \E s \in Stored(g.table, g.table.num, name, size) : response' = s.table
           /\ UNCHANGED <<damaged, fault>>
  <2>1. PICK s \in Stored(g.table, g.table.num, name, size) : response' = s.table
    BY <1>5
  <2>2. response.array /\ \A i \in 1..response.num : response.cells[i].name # name
    <3>1. response.array
      BY <1>3, <1>5
    <3>2. Found(response, name) \notin 1..response.num
      BY <1>1, <3>1
    <3> QED BY <1>1, <3>1, <3>2, FoundFacts
  <2>3. /\ Fit(s.table) /\ s.table.array
        /\ ResponseOK(response) => ResponseOK(s.table)
    BY <1>1, <1>5, <2>2, ResponseLine
  <2>4. TablesSound'
    BY <1>1, <1>5, <2>1, <2>3, SoundNow, SoundThen
  <2> QED BY <1>1, <1>5, <2>1, <2>3, <2>4, InvThen
<1>6. CASE ~g.table.array /\ g.failed = 0 /\ fault' /\ UNCHANGED <<response, damaged, failures>>
  <2>1. "response" \in damaged'
    BY <1>1, <1>3, <1>6
  <2>2. TablesSound'
    BY <1>6, <2>1, SoundThen
  <2> QED BY <1>1, <1>6, <2>1, <2>2, InvThen
<1> QED BY <1>2, <1>4, <1>5, <1>6

LEMMA AddResponseHeaderSound == ASSUME Inv, AddResponseHeader PROVE Inv'
<1>1. Answers /\ UNCHANGED <<request, content, parser>>
  BY DEF AddResponseHeader
<1>2. PICK name \in Names, size \in Sizes :
        Replace(name, size) \/ Extend(name, size) \/ CompareFails(name)
  BY DEF AddResponseHeader
<1>3. CASE CompareFails(name)
  <2>1. /\ ~fault /\ fault' /\ UNCHANGED <<response, damaged>> /\ response.num > 0
        /\ Fit(request) /\ Fit(response) /\ content \in Contents
        /\ parser = "headers" => request.array \/ "request" \in damaged
        /\ response.max > 0 => response.array \/ "response" \in damaged
    BY <1>1, <1>3 DEF Answers, CompareFails, Runs, Inv
  <2>2. "response" \in damaged
    <3>1. CASE ~response.array
      BY <1>1, <3>1, <2>1 DEF Answers
    <3>2. CASE response.array
      <4>1. /\ Found(response, name) > 0
            /\ response.cells[Found(response, name)].field # "text"
        BY <1>3, <3>2 DEF CompareFails
      <4>2. Found(response, name) \in 1..response.num
        BY <2>1, <3>2, <4>1, FoundFacts
      <4> QED BY <2>1, <4>1, <4>2, SoundNow DEF ResponseOK, Owned
    <3> QED BY <3>1, <3>2
  <2>3. TablesSound'
    BY <2>1, <2>2, SoundThen
  <2> QED BY <1>1, <2>1, <2>3, InvThen
<1> QED BY <1>1, <1>2, <1>3, ReplaceSound, ExtendSound

LEMMA ClearResponseHeadersSound == ASSUME Inv, ClearResponseHeaders PROVE Inv'
<1>1. /\ ~fault /\ UNCHANGED <<request, content, parser, damaged>>
      /\ fault' = FreeFaults(response) /\ response' = Cleared(response)
      /\ Fit(request) /\ Fit(response) /\ content \in Contents
      /\ parser = "headers" => request.array \/ "request" \in damaged
      /\ response.max > 0 => response.array \/ "response" \in damaged
  BY DEF ClearResponseHeaders, Answers, Runs, Inv
<1>2. /\ Fit(response') /\ response'.array = response.array /\ response'.max = response.max
      /\ ResponseOK(response) => ResponseOK(response')
  BY <1>1, ClearedFacts
<1>3. fault' => "response" \in damaged
  BY <1>1, SoundNow, NothingToFault
<1>4. TablesSound'
  BY <1>1, <1>2, <1>3, SoundNow, SoundThen
<1> QED BY <1>1, <1>2, <1>4, InvThen

\* The tables are left alone, but for a response that is cleared, and no
\* pointer that is none is used.
LEMMA BodyStep ==
  ASSUME Inv, ~fault, ~fault', stream # "freed",
         UNCHANGED request, UNCHANGED response \/ response' = Cleared(response),
         damaged \ {"content"} \subseteq damaged',
         parser' = "headers" => parser = "headers",
         content' \in Contents, "content" \in damaged' \/ content' \in {"none", "given"}
  PROVE  Inv'
<1>1. /\ Fit(request) /\ Fit(response)
      /\ parser = "headers" => request.array \/ "request" \in damaged
      /\ response.max > 0 => response.array \/ "response" \in damaged
  BY DEF Inv
<1>2. /\ Fit(response') /\ response'.array = response.array /\ response'.max = response.max
      /\ ResponseOK(response) => ResponseOK(response')
  BY <1>1, ClearedFacts
<1>3. TablesSound'
  BY <1>2, SoundNow, SoundThen
<1> QED BY <1>1, <1>2, <1>3, InvThen

LEMMA SupplySound ==
  ASSUME NEW c \in Contents, NEW d, Supply(c, d), d \in {damaged, damaged \ {"content"}},
         "content" \in d \/ c \in {"none", "given"}
  PROVE  /\ damaged \ {"content"} \subseteq damaged' /\ content' \in Contents
         /\ "content" \in damaged' \/ content' \in {"none", "given"}
<1>1. PICK g \in Added(c) :
        content' = g.content /\ damaged' = IF g.failed = 1 THEN d \union {"content"} ELSE d
  BY DEF Supply
<1>2. \/ g.failed = 0 /\ g.content = IF c \in {"none", "given"} THEN "given" ELSE "partly"
      \/ g.failed = 1 /\ g.content = "lost"
  BY DEF Added
<1> QED BY <1>1, <1>2 DEF Contents

LEMMA BodySound ==
  ASSUME Inv, AddToResponseBody \/ SetResponseBody \/ ClearResponseBody
  PROVE  Inv'
<1>1. /\ ~fault /\ ~fault' /\ stream # "freed"
      /\ UNCHANGED <<request, response, parser>> /\ content \in Contents
  BY DEF AddToResponseBody, SetResponseBody, ClearResponseBody, Answers, Runs, Inv
<1>2. CASE AddToResponseBody
  BY <1>1, <1>2, SoundNow, SupplySound, BodyStep DEF AddToResponseBody
<1>3. CASE SetResponseBody
  <2>1. Supply("none", damaged \ {"content"}) /\ "none" \in Contents
    BY <1>3 DEF SetResponseBody, Contents
  <2>2. /\ damaged \ {"content"} \subseteq damaged' /\ content' \in Contents
        /\ "content" \in damaged' \/ content' \in {"none", "given"}
    BY <2>1, SupplySound
  <2> QED BY <1>1, <2>2, BodyStep
<1>4. CASE ClearResponseBody
  BY <1>1, <1>4, BodyStep DEF ClearResponseBody, Contents
<1> QED BY <1>2, <1>3, <1>4

LEMMA SendResponseSound == ASSUME Inv, SendResponse PROVE Inv'
<1>1. /\ ~fault /\ stream # "freed" /\ response.max > 0 /\ UNCHANGED <<request, parser>>
      /\ Fit(request) /\ Fit(response) /\ content \in Contents
      /\ parser = "headers" => request.array \/ "request" \in damaged
      /\ response.array \/ "response" \in damaged
  BY DEF SendResponse, Answers, Runs, Inv
<1>2. CASE ~Sendable /\ fault' /\ UNCHANGED <<response, content, damaged>>
  <2>1. damaged # {}
    <3>1. CASE content = "lost"
      BY <1>1, <3>1, SoundNow
    <3>2. CASE content # "lost"
      <4>1. response.num > 0 /\ ~(response.array /\ \A i \in 1..response.num : Owned(response.cells[i]))
        BY <1>2, <3>2 DEF Sendable
      <4> QED BY <1>1, <4>1, SoundNow DEF ResponseOK
    <3> QED BY <3>1, <3>2
  <2>2. TablesSound'
    BY <1>2, <2>1, SoundThen
  <2> QED BY <1>1, <1>2, <2>2, InvThen
<1>3. CASE /\ UNCHANGED fault
           /\ \/ UNCHANGED <<response, content, damaged>>
              \/ /\ response' = Cleared(response) /\ content' = "none"
                 /\ damaged' = damaged \ {"content"}
  <2>1. "content" \in damaged' \/ content' \in {"none", "given"}
    BY <1>1, <1>3, SoundNow
  <2> QED BY <1>1, <1>3, <2>1, BodyStep DEF Contents
<1> QED BY <1>2, <1>3 DEF SendResponse

LEMMA OnStreamCloseSound == ASSUME Inv, OnStreamClose PROVE Inv'
<1>1. /\ ~fault /\ request' = NoTable /\ response' = NoTable /\ content' = "none"
      /\ fault' = (FreeFaults(request) \/ FreeFaults(response))
      /\ damaged' = damaged \ {"content"} /\ stream' = "freed"
  BY DEF OnStreamClose, Runs, Inv
<1>2. fault' => damaged' # {}
  <2>1. fault' => "request" \in damaged \/ "response" \in damaged
    BY <1>1, SoundNow, NothingToFault
  <2> QED BY <1>1, <2>1
<1>3. TablesSound'
  BY <1>1, <1>2, NoTableFit, SoundThen
<1>4. Fit(request') /\ Fit(response') /\ ~(response'.max > 0) /\ content' \in Contents
  BY <1>1, NoTableFit DEF NoTable, Contents
<1> QED BY <1>1, <1>3, <1>4, InvThen

LEMMA InvNext == Inv /\ [Next]_vars => Inv'
<1> SUFFICES ASSUME Inv, [Next]_vars PROVE Inv'
  OBVIOUS
<1>1. CASE HeadersEnd \/ StreamEnds
  <2>1. /\ ~fault /\ ~fault' /\ stream # "freed" /\ content \in Contents
        /\ UNCHANGED <<request, response, content, damaged>>
        /\ parser' = "headers" => parser = "headers"
    BY <1>1 DEF HeadersEnd, StreamEnds, Runs, Inv
  <2> QED BY <2>1, SoundNow, BodyStep
<1>2. CASE UNCHANGED vars
  BY <1>2 DEF vars, Inv, Fit, TablesSound, RequestSound, ResponseSound, Sound
<1> QED BY <1>1, <1>2, MessageBeginSound, RequestFieldSound, RequestValueSound,
           AddResponseHeaderSound, ClearResponseHeadersSound, BodySound, SendResponseSound,
           OnStreamCloseSound DEF Next

\* Whatever allocation fails, tables and body stay sound and no pointer is
\* used that is none, unless it was one of those TablesSound names: for tables
\* of any size, growing as often as may be, and any number of failures.
THEOREM TablesStaySound == Spec => []TablesSound
<1>1. Inv => TablesSound
  BY DEF Inv
<1> QED BY <1>1, InvInit, InvNext, PTL DEF Spec
-----------------------------------------------------------------------------
(***************************************************************************)
(* A header that cannot be added.                                          *)
(***************************************************************************)

LEMMA LinesFacts ==
  ASSUME NEW t, Fit(t), t.array
  PROVE  /\ Lines(t) \in Seq(Cell) /\ Len(Lines(t)) = t.num
         /\ \A i \in 1..t.num : Lines(t)[i] = t.cells[i]
<1>1. t.num \in Nat /\ t.cells \in Seq(Cell) /\ t.num <= Len(t.cells)
  BY Tables DEF Fit
<1>2. 1 \in Int /\ t.num \in Int /\ \A i \in 1..t.num : t.cells[i] \in Cell
  BY <1>1
<1>3. /\ SubSeq(t.cells, 1, t.num) \in Seq(Cell)
      /\ Len(SubSeq(t.cells, 1, t.num)) = t.num
      /\ \A i \in 1..t.num : SubSeq(t.cells, 1, t.num)[i] = t.cells[i]
  BY <1>1
<1> QED BY <1>3 DEF Lines

LEMMA LinesSame ==
  ASSUME NEW t, Fit(t), t.array, NEW u, Fit(u), u.array, u.num = t.num,
         \A i \in 1..t.num : u.cells[i] = t.cells[i]
  PROVE  Lines(u) = Lines(t)
<1>1. /\ Lines(t) \in Seq(Cell) /\ Lines(u) \in Seq(Cell) /\ Len(Lines(u)) = Len(Lines(t))
      /\ \A i \in 1..Len(Lines(u)) : Lines(u)[i] = Lines(t)[i]
  BY LinesFacts
<1> QED BY <1>1, SeqEqual

LEMMA LinesFront ==
  ASSUME NEW t, Fit(t), t.array, t.num > 0, NEW u, Fit(u), u.array, u.num = t.num - 1,
         \A i \in 1..t.num - 1 : u.cells[i] = t.cells[i]
  PROVE  /\ Lines(t) # <<>> /\ Last(Lines(t)) = t.cells[t.num]
         /\ Lines(u) = Front(Lines(t))
<1> DEFINE b == Lines(t)
           f == SubSeq(b, 1, Len(b) - 1)
<1>1. /\ b \in Seq(Cell) /\ Len(b) = t.num /\ \A i \in 1..t.num : b[i] = t.cells[i]
      /\ Lines(u) \in Seq(Cell) /\ Len(Lines(u)) = t.num - 1
      /\ \A i \in 1..t.num - 1 : Lines(u)[i] = t.cells[i]
      /\ t.num \in Nat
  BY LinesFacts, Tables DEF Fit
<1> HIDE DEF b
<1>2. b # <<>> /\ b[Len(b)] = t.cells[t.num]
  BY <1>1
<1>3. f \in Seq(Cell) /\ Len(f) = t.num - 1 /\ \A i \in 1..t.num - 1 : f[i] = b[i]
  BY <1>1
<1> HIDE DEF f
<1>4. Lines(u) = f
  <2>1. Len(Lines(u)) = Len(f) /\ \A i \in 1..Len(Lines(u)) : Lines(u)[i] = f[i]
    BY <1>1, <1>3
  <2> QED BY <1>1, <1>3, <2>1, SeqEqual
<1> QED BY <1>2, <1>4 DEF Front, Last, b, f

\* What FailedAddKeeps says of a step.
Keeps ==
  added'.failed /\ "response" \notin damaged' =>
    LET before == Lines(response)
    IN  \/ Lines(response') = before
        \/ /\ before # <<>> /\ Last(before).name = added'.name
           /\ Lines(response') = Front(before)

LEMMA Calls ==
  ASSUME NEW name, NEW b
  PROVE  /\ [name |-> name, failed |-> b].failed = b
         /\ [name |-> name, failed |-> b].name = name
OBVIOUS

LEMMA NoCallKeeps == ASSUME added' = NoCall PROVE Keeps
<1>1. ASSUME NEW b, b = FALSE, added' = [name |-> NoName, failed |-> b] PROVE ~added'.failed
  BY <1>1, Calls, Zenon
<1>2. ~added'.failed
  BY <1>1, Zenon DEF NoCall
<1> QED BY <1>2 DEF Keeps

LEMMA ReplaceKeeps ==
  ASSUME Inv, Answers, NEW name \in Names, NEW size \in Sizes, Replace(name, size)
  PROVE  Keeps
<1> DEFINE k == Found(response, name)
<1>1. response.array /\ k > 0 /\ response.cells[k].field = "text" /\ Fit(response)
  BY DEF Replace, Inv
<1>2. PICK s \in Stored([response EXCEPT !.cells[k] = CellOf("freed")], k, name, size) :
        /\ response' = s.table
        /\ damaged' = IF s.failed = 1 /\ k < response.num THEN damaged \union {"response"} ELSE damaged
        /\ added' = [name |-> name, failed |-> s.failed = 1]
  BY DEF Replace
<1>3. k \in 1..response.num /\ response.cells[k].name = name
  BY <1>1, FoundFacts
<1> HIDE DEF k
<1>4. /\ Fit(s.table) /\ s.table.array
      /\ s.failed = 1 =>
           /\ s.table.num = response.num - 1
           /\ k = response.num => \A i \in 1..response.num - 1 : s.table.cells[i] = response.cells[i]
  BY <1>1, <1>3, ReplacedLine
<1>5. added'.failed = (s.failed = 1) /\ added'.name = name
  BY <1>2, Calls, Zenon
<1>6. SUFFICES ASSUME added'.failed, "response" \notin damaged'
               PROVE  /\ Lines(response) # <<>> /\ Last(Lines(response)).name = name
                      /\ Lines(response') = Front(Lines(response))
  BY <1>5 DEF Keeps
<1>7. s.failed = 1
  BY <1>5, <1>6, Zenon
<1>8. k = response.num
  <2>1. response.num \in Nat
    BY <1>1, Tables DEF Fit
  <2>2. ~(k < response.num)
    BY <1>2, <1>6, <1>7
  <2> QED BY <1>3, <2>1, <2>2
<1>9. response.num > 0
  BY <1>3, <1>8
<1>10. /\ Lines(response) # <<>> /\ Last(Lines(response)) = response.cells[response.num]
       /\ Lines(s.table) = Front(Lines(response))
  BY <1>1, <1>4, <1>7, <1>8, <1>9, LinesFront
<1> QED BY <1>2, <1>3, <1>8, <1>10

LEMMA ExtendKeeps ==
  ASSUME Inv, Answers, NEW name \in Names, NEW size \in Sizes, Extend(name, size)
  PROVE  Keeps
<1>1. Fit(response)
  BY DEF Inv
<1>2. PICK g \in Grown(response) :
       \/ damaged' = damaged \union {"response"}
       \/ /\ g.failed = 0 /\ g.table.array
          /\ \E s \in Stored(g.table, g.table.num, name, size) :
               /\ response' = s.table
               /\ added' = [name |-> name, failed |-> s.failed = 1]
       \/ added' = NoCall
  BY DEF Extend
<1>3. CASE damaged' = damaged \union {"response"}
  BY <1>3 DEF Keeps
<1>4. CASE added' = NoCall
  BY <1>4, NoCallKeeps
<1>5. ASSUME g.failed = 0, g.table.array,
             NEW s \in Stored(g.table, g.table.num, name, size),
             response' = s.table, added' = [name |-> name, failed |-> s.failed = 1]
      PROVE  Keeps
  <2>1. added'.failed = (s.failed = 1)
    BY <1>5, Calls, Zenon
  <2>2. SUFFICES ASSUME added'.failed PROVE Lines(response') = Lines(response)
    BY DEF Keeps
  <2>3. s.failed = 1
    BY <2>1, <2>2, Zenon
  <2>4. response.array
    BY <1>1, <1>5, GrownFacts
  <2>5. /\ Fit(s.table) /\ s.table.array /\ s.table.num = response.num
        /\ \A i \in 1..response.num : s.table.cells[i] = response.cells[i]
    BY <1>1, <1>5, <2>3, <2>4, ResponseLine
  <2> QED BY <1>1, <1>5, <2>4, <2>5, LinesSame
<1> QED BY <1>2, <1>3, <1>4, <1>5

LEMMA NextKeeps == ASSUME Inv, Next PROVE Keeps
<1>1. CASE AddResponseHeader
  <2>1. Answers
    BY <1>1 DEF AddResponseHeader
  <2>2. PICK name \in Names, size \in Sizes :
          Replace(name, size) \/ Extend(name, size) \/ CompareFails(name)
    BY <1>1 DEF AddResponseHeader
  <2>3. CASE CompareFails(name)
    BY <2>3, NoCallKeeps DEF CompareFails
  <2> QED BY <2>1, <2>2, <2>3, ReplaceKeeps, ExtendKeeps
<1>2. CASE ~AddResponseHeader
  <2>1. added' = NoCall
    BY <1>2 DEF Next, MessageBegin, RequestField, RequestValue, HeadersEnd, ClearResponseHeaders,
                SendResponse, AddToResponseBody, SetResponseBody, ClearResponseBody, StreamEnds,
                OnStreamClose
  <2> QED BY <2>1, NoCallKeeps
<1> QED BY <1>1, <1>2

\* A call of add_response_header that fails leaves the headers that were
\* there, but for the last one, if it was to be replaced: whichever allocation
\* failed, and whatever the table had gone through before.
THEOREM FailedAddStaysKeeping == Spec => FailedAddKeeps
<1>1. Inv /\ [Next]_vars => [Keeps]_vars
  BY NextKeeps
<1> QED BY <1>1, InvInit, InvNext, PTL DEF Spec, FailedAddKeeps, Keeps
--------------------------------------------------
(***************************************************************************)
(* The head of a response, printed piece by piece.                         *)
(***************************************************************************)

\* What snprintf counts, and when it writes outside the buffer.
PrintState == [written : Nat, spilled : BOOLEAN]

\* What is left of a size_t's values is a number, and no larger than what
\* was there.
LEMMA RoomFacts ==
  ASSUME NEW a \in Int
  PROVE  a % SizeSpan \in Nat /\ (a \in Nat => a % SizeSpan <= a)
BY SizeAssumption

\* One piece: what is counted grows by no more than the piece, and nothing
\* is written outside a buffer that has room for it and the NUL.
LEMMA Printing ==
  ASSUME NEW b \in PrintState, NEW size \in Nat, NEW n \in Nat
  PROVE  /\ Snprintf(b, size, n) \in PrintState
         /\ Snprintf(b, size, n).written <= b.written + n
         /\ Snprintf(b, size, n).spilled => b.spilled \/ b.written + n + 1 > size
<1> DEFINE room == Room(size, b.written)
           stored == IF n + 1 < room THEN n + 1 ELSE room
           w == (b.written + n) % SizeSpan
           o == b.spilled \/ b.written + stored > size
           r == Snprintf(b, size, n)
<1>1. PICK x \in Nat, y \in BOOLEAN : b = [written |-> x, spilled |-> y]
  BY DEF PrintState
<1>2. b.written = x /\ b.spilled = y
  BY <1>1
<1>3. room \in Nat
  BY <1>2, RoomFacts DEF Room
<1>4. w \in Nat /\ w <= x + n
  BY <1>2, RoomFacts
<1>5. stored \in Nat /\ stored <= n + 1
  BY <1>3
<1>6. o => y \/ x + n + 1 > size
  BY <1>2, <1>5
<1>7. o \in BOOLEAN
  OBVIOUS
<1>8. r = [b EXCEPT !.written = w, !.spilled = o]
  BY DEF Snprintf
<1> HIDE DEF w, o, r
<1>9. r = [written |-> w, spilled |-> o]
  <2> DEFINE v == [b EXCEPT !.written = w]
  <2>1. r = [v EXCEPT !.spilled = o]
    BY <1>8
  <2>2. v = [written |-> w, spilled |-> y]
    BY <1>1
  <2> HIDE DEF v
  <2> QED BY <2>1, <2>2
<1>10. r.written = w /\ r.spilled = o /\ r \in PrintState
  BY <1>4, <1>7, <1>9 DEF PrintState
<1> QED BY <1>2, <1>4, <1>6, <1>10 DEF r

\* The pieces printed one after the other.
Printed(size, start, s) == FoldLeft(LAMBDA r, n : Snprintf(r, size, n), start, s)

PrintStep(size) == [x \in PrintState \X Nat |-> Snprintf(x[1], size, x[2])]

\* All the pieces as a loop, whose body is a function.
LEMMA PrintedLooped ==
  ASSUME NEW size \in Nat, NEW start \in PrintState, NEW s \in Seq(Nat)
  PROVE  Printed(size, start, s) = Looped(PrintStep(size), start, s)
<1> DEFINE Put(b, n) == Snprintf(b, size, n)
           step == PrintStep(size)
           Eq(I) == I = [d \in SUBSET DOMAIN s |->
                           IF d = {} THEN start ELSE Put(I[d \ {Max(d)}], s[Max(d)])]
           K == CHOOSE I : Eq(I)
<1>1. Printed(size, start, s) = K[DOMAIN s]
  BY DEF Printed, FoldLeft, MapThenFoldSet
<1>a. \A b \in PrintState, n \in Nat : Put(b, n) \in PrintState
  BY Printing
<1>b. step = [x \in PrintState \X Nat |-> Put(x[1], x[2])]
  BY DEF PrintStep
<1> HIDE DEF Put, step
<1>2. Machine(PrintState, Nat, step, start)
  BY <1>a, <1>b DEF Machine
<1>3. DOMAIN s = 1..Len(s) /\ Len(s) \in Nat /\ \A k \in 1..Len(s) : s[k] \in Nat
  BY LenProperties, ElementOfSeq
<1>4. PICK g \in [SUBSET DOMAIN s -> PrintState] : Solves(g, step, start, s)
  BY <1>2, Solution DEF Machine
<1>5. Eq(g)
  <2>1. ASSUME NEW d \in SUBSET DOMAIN s, d # {}
        PROVE  g[d] = Put(g[d \ {Max(d)}], s[Max(d)])
    <3>1. g[d \ {Max(d)}] \in PrintState /\ d \ {Max(d)} \in SUBSET DOMAIN s
      OBVIOUS
    <3>2. Max(d) \in DOMAIN s /\ s[Max(d)] \in Nat
      BY <1>3, <2>1, MaxIn
    <3>3. g[d] = step[<<g[d \ {Max(d)}], s[Max(d)]>>]
      BY <1>4, <2>1 DEF Solves
    <3> QED BY <1>b, <3>1, <3>2, <3>3
  <2> QED BY <1>4, <2>1 DEF Solves
<1>6. Eq(K)
  <2> HIDE DEF Eq
  <2> QED BY <1>5, Zenon
<1> HIDE DEF K
<1>7. K[{}] = start
  <2>1. {} \in SUBSET DOMAIN s
    OBVIOUS
  <2> QED BY <1>6, <2>1
<1>8. ASSUME NEW k \in 1..Len(s) PROVE K[1..k] = Put(K[1..k - 1], s[k])
  <2>1. 1..k \in SUBSET DOMAIN s /\ 1..k # {} /\ Max(1..k) = k /\ (1..k) \ {k} = 1..k - 1
    BY <1>3, UpTo
  <2>2. K[1..k] = Put(K[(1..k) \ {Max(1..k)}], s[Max(1..k)])
    BY <1>6, <2>1
  <2> QED BY <2>1, <2>2
<1>9. Follows(K, PrintState, step, start, s, Len(s))
  BY <1>b, <1>3, <1>7, <1>8 DEF Follows
<1>10. K[1..Len(s)] = Looped(step, start, s)
  BY <1>2, <1>9, FoldIsLooped
<1> QED BY <1>1, <1>3, <1>10 DEF step

\* No piece printed, and one piece more.
LEMMA PrintedFacts ==
  ASSUME NEW size \in Nat, NEW start \in PrintState
  PROVE  /\ Printed(size, start, <<>>) = start
         /\ \A s \in Seq(Nat) : Printed(size, start, s) \in PrintState
         /\ \A s \in Seq(Nat), n \in Nat :
              Printed(size, start, Append(s, n)) = Snprintf(Printed(size, start, s), size, n)
<1> DEFINE step == PrintStep(size)
           Put(b, n) == Snprintf(b, size, n)
<1>1. \A b \in PrintState, n \in Nat : Put(b, n) \in PrintState /\ step[<<b, n>>] = Put(b, n)
  BY Printing DEF PrintStep
<1>a. step = [x \in PrintState \X Nat |-> Put(x[1], x[2])]
  BY DEF PrintStep
<1>4. \A s \in Seq(Nat) : Printed(size, start, s) = Looped(step, start, s)
  BY PrintedLooped
<1> HIDE DEF step, Put
<1>2. Machine(PrintState, Nat, step, start)
  BY <1>1, <1>a DEF Machine
<1>3. /\ Looped(step, start, <<>>) = start
      /\ \A s \in Seq(Nat) : Looped(step, start, s) \in PrintState
      /\ \A s \in Seq(Nat), n \in Nat :
           Looped(step, start, Append(s, n)) = step[<<Looped(step, start, s), n>>]
  BY <1>2, LoopedFacts
<1>5. <<>> \in Seq(Nat) /\ \A s \in Seq(Nat), n \in Nat : Append(s, n) \in Seq(Nat)
  OBVIOUS
<1>6. Printed(size, start, <<>>) = start
  BY <1>3, <1>4, <1>5
<1>7. \A s \in Seq(Nat) : Printed(size, start, s) \in PrintState
  BY <1>3, <1>4
<1>8. ASSUME NEW s \in Seq(Nat), NEW n \in Nat
      PROVE  Printed(size, start, Append(s, n)) = Put(Printed(size, start, s), n)
  <2>1. Printed(size, start, Append(s, n)) = step[<<Printed(size, start, s), n>>]
    BY <1>3, <1>4, <1>5
  <2> QED BY <1>1, <1>7, <2>1
<1> QED BY <1>6, <1>7, <1>8 DEF Put

\* What is counted is at most what there is, and as long as that has its
\* room nothing is written outside.
Within(r, size, total) == r.written <= total /\ (total < size => ~r.spilled)

Empty == [written |-> 0, spilled |-> FALSE]

\* As long as the pieces together are shorter than the buffer none of them
\* is written outside, by induction over the pieces.
LEMMA PrintedWithin ==
  ASSUME NEW size \in Nat, NEW s \in Seq(Nat)
  PROVE  Within(Printed(size, Empty, s), size, Total(0, s))
<1> DEFINE P == {t \in Seq(Nat) : Within(Printed(size, Empty, t), size, Total(0, t))}
<1>1. P \in SUBSET Seq(Nat) /\ \A t \in Seq(Nat) :
        t \in P <=> Within(Printed(size, Empty, t), size, Total(0, t))
  OBVIOUS
<1> HIDE DEF P
<1>a. Empty \in PrintState /\ Empty.written = 0 /\ ~Empty.spilled
  BY DEF Empty, PrintState
<1>2. <<>> \in P
  <2>1. <<>> \in Seq(Nat)
    OBVIOUS
  <2>2. Printed(size, Empty, <<>>) = Empty /\ Total(0, <<>>) = 0
    BY <1>a, PrintedFacts, TotalFacts
  <2>3. Within(Empty, size, 0)
    BY <1>a DEF Within
  <2> QED BY <1>1, <2>1, <2>2, <2>3
<1>3. ASSUME NEW t \in P, NEW n \in Nat PROVE Append(t, n) \in P
  <2> DEFINE more == Append(t, n)
             b == Printed(size, Empty, t)
             r == Snprintf(b, size, n)
             x == Total(0, t)
  <2>1. t \in Seq(Nat) /\ more \in Seq(Nat) /\ Within(b, size, x)
    BY <1>1
  <2>2. b \in PrintState /\ Printed(size, Empty, more) = r
    BY <1>a, <2>1, PrintedFacts
  <2>3. x \in Nat /\ Total(0, more) = x + n
    BY <2>1, TotalFacts
  <2> HIDE DEF b, x, more, r
  <2>4. b.written \in Nat
    BY <2>2 DEF PrintState
  <2>5. r.written <= b.written + n /\ r \in PrintState
    BY <2>2, Printing DEF r
  <2>6. r.written \in Nat
    BY <2>5 DEF PrintState
  <2>7. r.written <= x + n
    BY <2>1, <2>3, <2>4, <2>5, <2>6 DEF Within
  <2>8. r.spilled => b.spilled \/ b.written + n + 1 > size
    BY <2>2, Printing DEF r
  <2>9. ASSUME x + n < size PROVE ~(b.written + n + 1 > size) /\ x < size
    BY <2>1, <2>3, <2>4, <2>9 DEF Within
  <2>10. ASSUME x + n < size PROVE ~r.spilled
    BY <2>1, <2>8, <2>9, <2>10 DEF Within
  <2>11. Within(r, size, x + n)
    BY <2>7, <2>10 DEF Within
  <2> QED BY <1>1, <2>1, <2>2, <2>3, <2>11 DEF more
<1>4. P = Seq(Nat)
  BY <1>1, <1>2, <1>3, TextInduction
<1> QED BY <1>1, <1>4

\* The sum of two sequences one behind the other.
LEMMA TotalJoined ==
  ASSUME NEW start \in Nat, NEW s \in Seq(Nat), NEW t \in Seq(Nat)
  PROVE  Total(start, s \o t) = Total(start, s) + Total(0, t)
<1> DEFINE Eq(r) == Total(start, s \o r) = Total(start, s) + Total(0, r)
           P == {r \in Seq(Nat) : Eq(r)}
<1>1. P \in SUBSET Seq(Nat) /\ \A r \in Seq(Nat) : r \in P <=> Eq(r)
  <2> HIDE DEF Eq
  <2> QED OBVIOUS
<1> HIDE DEF P
<1>2. <<>> \in P
  <2>1. <<>> \in Seq(Nat) /\ s \o <<>> = s
    BY ConcatEmptySeq
  <2>2. Total(0, <<>>) = 0 /\ Total(start, s) \in Nat
    BY TotalFacts
  <2>3. Eq(<<>>)
    BY <2>1, <2>2
  <2> HIDE DEF Eq
  <2> QED BY <1>1, <2>1, <2>3
<1>3. ASSUME NEW r \in P, NEW n \in Nat PROVE Append(r, n) \in P
  <2>1. r \in Seq(Nat) /\ Append(r, n) \in Seq(Nat) /\ s \o r \in Seq(Nat)
    BY <1>1, ConcatProperties
  <2>2. Eq(r)
    BY <1>1
  <2>3. s \o Append(r, n) = Append(s \o r, n)
    <3>1. <<n>> \in Seq(Nat)
      OBVIOUS
    <3>2. Append(r, n) = r \o <<n>> /\ Append(s \o r, n) = (s \o r) \o <<n>>
      BY <2>1, AppendIsConcat
    <3>3. s \o (r \o <<n>>) = (s \o r) \o <<n>>
      BY <2>1, <3>1, ConcatAssociative
    <3> QED BY <3>2, <3>3
  <2>4. Total(start, Append(s \o r, n)) = Total(start, s \o r) + n
    BY <2>1, TotalFacts
  <2>5. Total(0, Append(r, n)) = Total(0, r) + n
    BY <2>1, TotalFacts
  <2>6. Total(start, s) \in Nat /\ Total(0, r) \in Nat
    BY <2>1, TotalFacts
  <2>7. Eq(Append(r, n))
    BY <2>2, <2>3, <2>4, <2>5, <2>6
  <2> HIDE DEF Eq
  <2> QED BY <1>1, <2>1, <2>7
<1>4. P = Seq(Nat)
  BY <1>1, <1>2, <1>3, TextInduction
<1> HIDE DEF Eq
<1>5. Eq(t)
  BY <1>1, <1>4
<1> QED BY <1>5 DEF Eq

\* A sequence of one length.
LEMMA TotalOfOne ==
  ASSUME NEW n \in Nat
  PROVE  <<n>> \in Seq(Nat) /\ Total(0, <<n>>) = n
<1>1. <<>> \in Seq(Nat) /\ <<n>> = Append(<<>>, n) /\ <<n>> \in Seq(Nat)
  OBVIOUS
<1>2. Total(0, Append(<<>>, n)) = Total(0, <<>>) + n /\ Total(0, <<>>) = 0
  BY <1>1, TotalFacts
<1> QED BY <1>1, <1>2

\* Lines that keep to their share keep to it together.
LEMMA LinesBound ==
  ASSUME NEW share \in Nat, NEW s \in Seq(Nat), \A i \in 1..Len(s) : s[i] <= share
  PROVE  Total(0, s) <= share * Len(s)
<1> DEFINE Small(t) == \A i \in 1..Len(t) : t[i] <= share
           Fine(t) == Small(t) => Total(0, t) <= share * Len(t)
           P == {t \in Seq(Nat) : Fine(t)}
<1>1. P \in SUBSET Seq(Nat) /\ \A t \in Seq(Nat) : t \in P <=> Fine(t)
  <2> HIDE DEF Fine
  <2> QED OBVIOUS
<1> HIDE DEF P
<1>2. <<>> \in P
  <2>1. <<>> \in Seq(Nat) /\ Len(<<>>) = 0 /\ Total(0, <<>>) = 0 /\ share * 0 = 0
    BY TotalFacts
  <2>2. Fine(<<>>)
    BY <2>1
  <2> HIDE DEF Fine
  <2> QED BY <1>1, <2>1, <2>2
<1>3. ASSUME NEW t \in P, NEW n \in Nat PROVE Append(t, n) \in P
  <2> DEFINE more == Append(t, n)
  <2>1. t \in Seq(Nat) /\ Len(t) \in Nat /\ Fine(t)
    BY <1>1
  <2>2. /\ more \in Seq(Nat) /\ Len(more) = Len(t) + 1 /\ more[Len(t) + 1] = n
        /\ \A i \in 1..Len(t) : more[i] = t[i]
    BY <2>1
  <2>3. Total(0, more) = Total(0, t) + n /\ Total(0, t) \in Nat
    BY <2>1, TotalFacts
  <2> HIDE DEF more
  <2>4. ASSUME Small(more) PROVE Total(0, more) <= share * Len(more)
    <3>1. n <= share
      BY <2>1, <2>2, <2>4
    <3>2. Small(t)
      BY <2>1, <2>2, <2>4
    <3>3. Total(0, t) <= share * Len(t)
      BY <2>1, <3>2
    <3>4. share * (Len(t) + 1) = share * Len(t) + share
      BY <2>1
    <3>5. share * Len(t) \in Nat
      BY <2>1
    <3> HIDE DEF Small
    <3> QED BY <2>2, <2>3, <3>1, <3>3, <3>4, <3>5
  <2>5. Fine(more)
    BY <2>4
  <2> HIDE DEF Fine
  <2> QED BY <1>1, <2>2, <2>5 DEF more
<1>4. P = Seq(Nat)
  BY <1>1, <1>2, <1>3, TextInduction
<1> HIDE DEF Fine, Small
<1>5. Fine(s)
  BY <1>1, <1>4
<1> QED BY <1>5 DEF Fine, Small

\* What a head consists of.
Pieces(status, lines, body) == <<status>> \o lines \o body \o <<2>>

\* The length of a head is that of its parts.
LEMMA PiecesTotal ==
  ASSUME NEW status \in Nat, NEW lines \in Seq(Nat), NEW body \in Seq(Nat)
  PROVE  /\ Pieces(status, lines, body) \in Seq(Nat)
         /\ Total(0, Pieces(status, lines, body))
              = status + Total(0, lines) + Total(0, body) + 2
<1> DEFINE a == <<status>>
           b == a \o lines
           c == b \o body
           z == <<2>>
           d == c \o z
<1>1. a \in Seq(Nat) /\ Total(0, a) = status
  BY TotalOfOne
<1>2. z \in Seq(Nat) /\ Total(0, z) = 2
  BY TotalOfOne
<1>3. Pieces(status, lines, body) = d
  BY DEF Pieces
<1> HIDE DEF a, z
<1>4. b \in Seq(Nat) /\ Total(0, b) = Total(0, a) + Total(0, lines)
  BY <1>1, TotalJoined, ConcatProperties
<1> HIDE DEF b
<1>5. c \in Seq(Nat) /\ Total(0, c) = Total(0, b) + Total(0, body)
  BY <1>4, TotalJoined, ConcatProperties
<1> HIDE DEF c
<1>6. d \in Seq(Nat) /\ Total(0, d) = Total(0, c) + Total(0, z)
  BY <1>2, <1>5, TotalJoined, ConcatProperties
<1> HIDE DEF d
<1>7. Total(0, lines) \in Nat /\ Total(0, body) \in Nat
  BY TotalFacts
<1> QED BY <1>1, <1>2, <1>3, <1>4, <1>5, <1>6, <1>7

\* A head that is allowed has its room.
LEMMA HeadRoom ==
  ASSUME NEW status \in Nat, NEW lines \in Seq(Nat), NEW body \in Seq(Nat),
         status + Total(2, body) < HeadBase, \A i \in 1..Len(lines) : lines[i] <= HeadPerLine
  PROVE  Total(0, Pieces(status, lines, body)) < HeadSize(Len(lines))
<1>1. HeadBase \in Nat /\ HeadPerLine \in Nat
  BY HeaderTablesAssumption
<1>2. Total(0, lines) <= HeadPerLine * Len(lines)
  BY <1>1, LinesBound
<1>3. Total(2, body) = 2 + Total(0, body)
  <2>1. <<>> \in Seq(Nat) /\ <<>> \o body = body /\ Total(2, <<>>) = 2
    BY ConcatEmptySeq, TotalFacts
  <2>2. Total(2, <<>> \o body) = Total(2, <<>>) + Total(0, body)
    BY <2>1, TotalJoined
  <2> QED BY <2>1, <2>2
<1>4. Total(0, lines) \in Nat /\ Total(0, body) \in Nat /\ Len(lines) \in Nat
  BY TotalFacts
<1>5. HeadPerLine * Len(lines) \in Nat
  BY <1>1, <1>4
<1>6. Total(0, Pieces(status, lines, body)) = status + Total(0, lines) + Total(0, body) + 2
  BY PiecesTotal
<1> QED BY <1>1, <1>2, <1>3, <1>4, <1>5, <1>6 DEF HeadSize

Heads == [allowed : BOOLEAN, whole : BOOLEAN, spilled : BOOLEAN]

HeadOf(allowed, whole, spilled) == [allowed |-> allowed, whole |-> whole, spilled |-> spilled]

\* The record that PrintHead makes.
LEMMA HeadForms ==
  ASSUME NEW a, NEW w, NEW o
  PROVE  /\ HeadOf(a, w, o).allowed = a /\ HeadOf(a, w, o).whole = w /\ HeadOf(a, w, o).spilled = o
         /\ a \in BOOLEAN /\ w \in BOOLEAN /\ o \in BOOLEAN =>
              HeadOf(a, w, o) \in Heads
BY Zenon DEF HeadOf, Heads

\* A head that is printed fits, if it is allowed.
LEMMA PrintHeadFits ==
  ASSUME NEW status \in Nat, NEW lines \in Seq(Nat), NEW body \in Seq(Nat), NEW h,
         h = PrintHead(status, lines, body)
  PROVE  /\ h \in Heads
         /\ h.allowed => h.whole /\ ~h.spilled
<1> DEFINE size == HeadSize(Len(lines))
           s == Pieces(status, lines, body)
           r == Printed(size, Empty, s)
           a == /\ status + Total(2, body) < HeadBase
                /\ \A i \in 1..Len(lines) : lines[i] <= HeadPerLine
           w == r.written < size
           o == r.spilled
<1>1. h = HeadOf(a, w, o)
  BY Zenon DEF PrintHead, HeadOf, Printed, Empty, Total, Pieces
<1>2. size \in Nat
  <2>1. HeadBase \in Nat /\ HeadPerLine \in Nat /\ Len(lines) \in Nat
    BY HeaderTablesAssumption
  <2>2. HeadPerLine * Len(lines) \in Nat
    BY <2>1
  <2> QED BY <2>1, <2>2 DEF HeadSize
<1>3. s \in Seq(Nat) /\ Total(0, s) \in Nat
  BY PiecesTotal, TotalFacts
<1>4. a => Total(0, s) < size
  BY HeadRoom
<1> HIDE DEF size, s
<1>5. Within(r, size, Total(0, s))
  BY <1>2, <1>3, PrintedWithin
<1>6. r \in PrintState
  <2>1. Empty \in PrintState
    BY DEF Empty, PrintState
  <2> QED BY <1>2, <1>3, <2>1, PrintedFacts
<1> HIDE DEF r
<1>7. r.written \in Nat /\ r.spilled \in BOOLEAN
  BY <1>6 DEF PrintState
<1>8. a => w /\ ~o
  BY <1>2, <1>3, <1>4, <1>5, <1>7 DEF Within
<1>9. a \in BOOLEAN /\ w \in BOOLEAN /\ o \in BOOLEAN
  BY <1>7
<1> HIDE DEF a, w, o
<1>10. h.allowed = a /\ h.whole = w /\ h.spilled = o /\ h \in Heads
  <2>1. /\ HeadOf(a, w, o).allowed = a /\ HeadOf(a, w, o).whole = w /\ HeadOf(a, w, o).spilled = o
        /\ HeadOf(a, w, o) \in Heads
    BY <1>9, HeadForms
  <2> QED BY <1>1, <2>1, Zenon
<1> QED BY <1>8, <1>10, Zenon
-----------------------------------------------------------------------------
(***************************************************************************)
(* The types of everything else, and the head.                             *)
(***************************************************************************)

CallSet == [name : Names \union {NoName}, failed : BOOLEAN]

Rest ==
  /\ stream \in {"OPEN", "READ_ONLY", "CLOSED", "freed"}
  /\ parser \in {"start", "headers", "error"}
  /\ failures \in 0..MaxFailures
  /\ fault \in BOOLEAN
  /\ damaged \subseteq Owners
  /\ added \in CallSet
  /\ head \in Heads
  /\ HeadFits

\* The record of a call.
LEMMA CallForm ==
  ASSUME NEW name \in Names \union {NoName}, NEW b \in BOOLEAN
  PROVE  [name |-> name, failed |-> b] \in CallSet
BY Zenon DEF CallSet

\* The record of no call.
LEMMA NoCallForm == NoCall \in CallSet
<1>1. ASSUME NEW b \in BOOLEAN PROVE [name |-> NoName, failed |-> b] \in CallSet
  BY CallForm
<1> QED BY <1>1, Zenon DEF NoCall

\* Failures are counted up to their bound.
LEMMA FailsFacts ==
  ASSUME NEW n \in Nat, failures \in 0..MaxFailures, Fails(n)
  PROVE  failures' \in 0..MaxFailures
BY HeaderTablesAssumption DEF Fails

\* Nothing has failed, and no head has been printed.
LEMMA RestInit == Init => Rest
<1> SUFFICES ASSUME Init PROVE Rest
  OBVIOUS
<1>1. /\ stream = "OPEN" /\ parser = "start" /\ failures = 0 /\ damaged = {}
      /\ added = NoCall
  BY DEF Init
<1>2. fault \in BOOLEAN
  BY Zenon DEF Init
<1>3. failures \in 0..MaxFailures
  BY <1>1, HeaderTablesAssumption
<1>4. head \in Heads /\ HeadFits
  <2>1. ASSUME NEW n \in BOOLEAN, NEW y \in BOOLEAN, n = FALSE, y = TRUE, head = HeadOf(n, y, n)
        PROVE  head \in Heads /\ HeadFits
    <3>1. HeadOf(n, y, n) \in Heads /\ HeadOf(n, y, n).allowed = n
      BY HeadForms
    <3> QED BY <2>1, <3>1, Zenon DEF HeadFits
  <2> QED BY <2>1, Zenon DEF Init, HeadOf
<1> QED BY <1>1, <1>2, <1>3, <1>4, NoCallForm DEF Rest

\* A step that keeps the head.
LEMMA RestThen ==
  ASSUME Rest,
         stream' \in {"OPEN", "READ_ONLY", "CLOSED", "freed"},
         parser' \in {"start", "headers", "error"},
         failures' \in 0..MaxFailures, fault' \in BOOLEAN, damaged' \subseteq Owners,
         added' \in CallSet, UNCHANGED head
  PROVE  Rest'
BY Zenon DEF Rest, HeadFits

\* Two tables are allocated.
LEMMA MessageBeginRest == ASSUME Inv, Rest, MessageBegin PROVE Rest'
<1>1. UNCHANGED stream /\ parser' = "headers" /\ added' = NoCall
  BY DEF MessageBegin
<1>2. UNCHANGED head
  BY DEF MessageBegin
<1>3. fault' \in BOOLEAN
  BY Zenon DEF MessageBegin
<1>4. PICK q \in NewTables(RequestMax), r \in NewTables(ResponseMax) :
        /\ Fails(q.failed + r.failed)
        /\ damaged' = (damaged \ {"content"}) \union (IF q.failed = 1 THEN {"request"} ELSE {})
                              \union (IF r.failed = 1 THEN {"response"} ELSE {})
  BY DEF MessageBegin
<1>5. q.failed + r.failed \in Nat
  <2>1. q.failed \in {0, 1} /\ r.failed \in {0, 1}
    BY NewTablesFacts, HeaderTablesAssumption
  <2> QED BY <2>1
<1>6. failures' \in 0..MaxFailures
  BY <1>4, <1>5, FailsFacts DEF Rest
<1>7. damaged' \subseteq Owners
  BY <1>4 DEF Rest, Owners
<1> QED BY <1>1, <1>2, <1>3, <1>6, <1>7, NoCallForm, RestThen DEF Rest

\* The name of a header of the request.
LEMMA RequestFieldRest == ASSUME Inv, Rest, RequestField PROVE Rest'
<1>1. added' = NoCall /\ UNCHANGED <<stream, head>>
  BY DEF RequestField
<1>2. PICK g \in Grown(request), f \in {0, 1} :
        /\ Fails(g.failed + f)
        /\ parser' = IF g.failed = 0 THEN parser ELSE "error"
        /\ fault' = (f = 1 \/ (g.failed = 0 /\ ~g.table.array))
        /\ damaged' = IF g.failed + f > 0 THEN damaged \union {"request"} ELSE damaged
  BY DEF RequestField
<1>3. g.failed + f \in Nat
  <2>1. g.failed \in {0, 1}
    BY GrownFacts DEF Inv
  <2> QED BY <2>1
<1>4. failures' \in 0..MaxFailures
  BY <1>2, <1>3, FailsFacts DEF Rest
<1>5. fault' \in BOOLEAN
  BY <1>2, Zenon
<1>6. damaged' \subseteq Owners
  BY <1>2 DEF Rest, Owners
<1>7. parser' \in {"start", "headers", "error"}
  BY <1>2 DEF Rest
<1> QED BY <1>1, <1>4, <1>5, <1>6, <1>7, NoCallForm, RestThen DEF Rest

\* The value of a header of the request.
LEMMA RequestValueRest == ASSUME Rest, RequestValue PROVE Rest'
<1>1. added' = NoCall /\ UNCHANGED <<stream, parser, head>>
  BY DEF RequestValue
<1>2. PICK f \in {0, 1} :
        /\ Fails(f) /\ fault' = (f = 1)
        /\ damaged' = IF f = 1 THEN damaged \union {"request"} ELSE damaged
  BY DEF RequestValue
<1>3. failures' \in 0..MaxFailures
  BY <1>2, FailsFacts DEF Rest
<1>4. fault' \in BOOLEAN
  BY <1>2, Zenon
<1>5. damaged' \subseteq Owners
  BY <1>2 DEF Rest, Owners
<1> QED BY <1>1, <1>3, <1>4, <1>5, NoCallForm, RestThen DEF Rest

\* A header of the response.
LEMMA AddResponseHeaderRest == ASSUME Inv, Rest, AddResponseHeader PROVE Rest'
<1>1. UNCHANGED <<stream, parser, head>>
  BY DEF AddResponseHeader
<1>2. PICK name \in Names, size \in Sizes :
        Replace(name, size) \/ Extend(name, size) \/ CompareFails(name)
  BY DEF AddResponseHeader
<1>3. /\ \A c, k, n, z : \A s \in Stored(c, k, n, z) : s.failed \in {0, 1}
      /\ fault \in BOOLEAN /\ damaged \subseteq Owners /\ failures \in 0..MaxFailures
  BY DEF Stored, Rest
<1>4. ASSUME NEW t, NEW k, NEW z, NEW s \in Stored(t, k, name, z), Fails(s.failed),
             added' = [name |-> name, failed |-> s.failed = 1]
      PROVE  failures' \in 0..MaxFailures /\ added' \in CallSet
  <2>1. s.failed \in Nat
    BY <1>3
  <2>2. (s.failed = 1) \in BOOLEAN
    BY Zenon
  <2>3. added' \in CallSet
    BY <1>4, <2>2, CallForm, Zenon
  <2> QED BY <1>3, <1>4, <2>1, <2>3, FailsFacts
<1>5. CASE Replace(name, size)
  <2> DEFINE k == Found(response, name)
             t == [response EXCEPT !.cells[k] = CellOf("freed")]
  <2>1. PICK s \in Stored(t, k, name, size) :
          /\ Fails(s.failed)
          /\ damaged' = IF s.failed = 1 /\ k < response.num THEN damaged \union {"response"} ELSE damaged
          /\ added' = [name |-> name, failed |-> s.failed = 1]
    BY <1>5 DEF Replace
  <2> HIDE DEF k, t
  <2>2. damaged' \subseteq Owners /\ UNCHANGED fault
    BY <1>3, <1>5, <2>1 DEF Replace, Owners
  <2> QED BY <1>1, <1>3, <1>4, <2>1, <2>2, RestThen DEF Rest
<1>6. CASE Extend(name, size)
  <2>1. PICK g \in Grown(response) :
          \/ /\ Fails(1) /\ damaged' = damaged \union {"response"}
             /\ added' = [name |-> name, failed |-> TRUE]
             /\ UNCHANGED fault
          \/ /\ \E s \in Stored(g.table, g.table.num, name, size) :
                  /\ Fails(s.failed) /\ added' = [name |-> name, failed |-> s.failed = 1]
             /\ UNCHANGED <<damaged, fault>>
          \/ /\ fault' = TRUE /\ added' = NoCall
             /\ UNCHANGED <<damaged, failures>>
    BY <1>6, Zenon DEF Extend
  <2>2. CASE /\ Fails(1) /\ damaged' = damaged \union {"response"}
             /\ added' = [name |-> name, failed |-> TRUE]
             /\ UNCHANGED fault
    <3>1. added' \in CallSet
      <4>1. name \in Names \union {NoName} /\ TRUE \in BOOLEAN
        OBVIOUS
      <4> QED BY <2>2, <4>1, CallForm, Zenon
    <3>2. failures' \in 0..MaxFailures
      BY <1>3, <2>2, FailsFacts
    <3>3. damaged' \subseteq Owners
      BY <1>3, <2>2 DEF Owners
    <3>4. fault' \in BOOLEAN
      BY <1>3, <2>2
    <3> QED BY <1>1, <3>1, <3>2, <3>3, <3>4, RestThen DEF Rest
  <2>3. CASE /\ \E s \in Stored(g.table, g.table.num, name, size) :
                  /\ Fails(s.failed) /\ added' = [name |-> name, failed |-> s.failed = 1]
             /\ UNCHANGED <<damaged, fault>>
    BY <1>1, <1>3, <1>4, <2>3, RestThen DEF Rest
  <2>4. CASE /\ fault' = TRUE /\ added' = NoCall
             /\ UNCHANGED <<damaged, failures>>
    <3>1. fault' \in BOOLEAN
      BY <2>4, Zenon
    <3> QED BY <1>1, <1>3, <2>4, <3>1, NoCallForm, RestThen DEF Rest
  <2> QED BY <2>1, <2>2, <2>3, <2>4
<1>7. CASE CompareFails(name)
  <2>1. fault' \in BOOLEAN
    BY <1>7, Zenon DEF CompareFails
  <2> QED BY <1>1, <1>3, <1>7, <2>1, NoCallForm, RestThen DEF Rest, CompareFails
<1> QED BY <1>2, <1>5, <1>6, <1>7

\* The body of the response.
LEMMA BodyRest ==
  ASSUME Rest, AddToResponseBody \/ SetResponseBody \/ ClearResponseBody
  PROVE  Rest'
<1>1. added' = NoCall /\ UNCHANGED <<stream, parser, fault, head>>
  BY DEF AddToResponseBody, SetResponseBody, ClearResponseBody
<1>2. ASSUME NEW c, NEW d \in {damaged, damaged \ {"content"}}, Supply(c, d) PROVE Rest'
  <2>1. PICK g \in Added(c) :
          /\ Fails(g.failed)
          /\ damaged' = IF g.failed = 1 THEN d \union {"content"} ELSE d
    BY <1>2 DEF Supply
  <2>2. g.failed \in Nat
    BY DEF Added
  <2>3. failures' \in 0..MaxFailures
    BY <2>1, <2>2, FailsFacts DEF Rest
  <2>4. damaged' \subseteq Owners
    BY <2>1 DEF Rest, Owners
  <2> QED BY <1>1, <2>3, <2>4, NoCallForm, RestThen DEF Rest
<1>3. CASE ClearResponseBody
  BY <1>1, <1>3, NoCallForm, RestThen DEF Rest, ClearResponseBody
<1> QED BY <1>2, <1>3 DEF AddToResponseBody, SetResponseBody

\* The only step that prints a head, which fits if it is allowed.
LEMMA SendResponseRest == ASSUME Inv, Rest, SendResponse PROVE Rest'
<1>1. /\ UNCHANGED <<parser, failures>> /\ added' = NoCall
      /\ \/ UNCHANGED <<damaged, stream>>
         \/ damaged' = damaged /\ stream' = "CLOSED"
         \/ damaged' = damaged \ {"content"} /\ UNCHANGED stream
  BY DEF SendResponse
<1>2. fault' \in BOOLEAN
  BY Zenon DEF SendResponse, Rest
<1>3. CASE UNCHANGED head
  BY <1>1, <1>2, <1>3, NoCallForm, RestThen DEF Rest
<1>4. CASE ~UNCHANGED head
  <2>1. PICK status \in OtherSizes, body \in SeqOf(OtherSizes, 2) :
          /\ Sendable
          /\ head' = PrintHead(status, [i \in 1..response.num |-> response.cells[i].size], body)
    BY <1>4 DEF SendResponse
  <2> DEFINE lines == [i \in 1..response.num |-> response.cells[i].size]
  <2>2. status \in Nat /\ OtherSizes \subseteq Nat
    BY HeaderTablesAssumption
  <2>3. body \in Seq(Nat)
    <3>1. PICK m \in 0..2 : body \in [1..m -> OtherSizes]
      BY DEF SeqOf
    <3>2. m \in Nat /\ body = [i \in 1..m |-> body[i]] /\ \A i \in 1..m : body[i] \in OtherSizes
      BY <3>1
    <3>3. \A i \in 1..m : body[i] \in Nat
      BY <2>2, <3>2
    <3>4. [i \in 1..m |-> body[i]] \in Seq(Nat)
      BY <3>2, <3>3, IsASeq
    <3> QED BY <3>2, <3>4, Zenon
  <2>4. lines \in Seq(Nat)
    <3>1. Fit(response) /\ response.num \in Nat /\ response.cells \in Seq(Cell)
      BY Tables DEF Inv, Fit
    <3>2. response.num > 0 => response.num <= Len(response.cells)
      BY <2>1, <3>1 DEF Sendable, Fit
    <3>3. ASSUME NEW i \in 1..response.num PROVE response.cells[i].size \in Nat
      <4>1. response.cells[i] \in Cell
        BY <3>1, <3>2
      <4>2. response.cells[i].size \in Sizes \union {0}
        BY <4>1 DEF Cell
      <4>3. \A x \in Sizes \union {0} : x \in Nat
        <5>1. Sizes \subseteq Nat
          BY HeaderTablesAssumption
        <5> QED BY <5>1
      <4> QED BY <4>2, <4>3, Zenon
    <3> QED BY <3>1, <3>3
  <2> HIDE DEF lines
  <2>5. head' \in Heads /\ (head'.allowed => head'.whole /\ ~head'.spilled)
    <3>1. head' = PrintHead(status, lines, body)
      BY <2>1 DEF lines
    <3> QED BY <2>2, <2>3, <2>4, <3>1, PrintHeadFits
  <2>6. /\ stream' \in {"OPEN", "READ_ONLY", "CLOSED", "freed"}
        /\ damaged' \subseteq Owners
    BY <1>1 DEF Rest
  <2> QED BY <1>1, <1>2, <2>5, <2>6, NoCallForm, Zenon DEF Rest, HeadFits
<1> QED BY <1>3, <1>4

\* The steps that allocate nothing.
LEMMA OthersRest ==
  ASSUME Rest, HeadersEnd \/ ClearResponseHeaders \/ StreamEnds \/ OnStreamClose
  PROVE  Rest'
<1>1. /\ added' = NoCall /\ UNCHANGED <<failures, head>>
      /\ parser' \in {parser, "start"}
      /\ stream' \in {stream, "READ_ONLY", "CLOSED", "freed"}
      /\ damaged' \in {damaged, damaged \ {"content"}}
  BY DEF HeadersEnd, ClearResponseHeaders, StreamEnds, OnStreamClose
<1>2. fault' \in BOOLEAN
  <2>1. CASE HeadersEnd \/ StreamEnds
    BY <2>1 DEF HeadersEnd, StreamEnds, Rest
  <2>2. CASE ClearResponseHeaders
    BY <2>2, Zenon DEF ClearResponseHeaders, FreeFaults
  <2>3. CASE OnStreamClose
    BY <2>3, Zenon DEF OnStreamClose
  <2> QED BY <2>1, <2>2, <2>3
<1> QED BY <1>1, <1>2, NoCallForm, RestThen DEF Rest

\* Every step keeps the types and the head.
LEMMA RestNext == Inv /\ Rest /\ [Next]_vars => Rest'
<1> SUFFICES ASSUME Inv, Rest, [Next]_vars PROVE Rest'
  OBVIOUS
<1>1. CASE UNCHANGED vars
  BY <1>1, RestThen DEF vars, Rest
<1> QED BY <1>1, MessageBeginRest, RequestFieldRest, RequestValueRest, AddResponseHeaderRest,
           BodyRest, SendResponseRest, OthersRest DEF Next

\* The tables stay tables: an array that is not lost has as many cells as max
\* says and at least as many as lines are counted, through every growth.
THEOREM TypeCorrect == Spec => []TypeOK
<1>1. Inv /\ Rest => TypeOK
  BY Zenon DEF Inv, Rest, Fit, TypeOK, Heads, CallSet
<1> QED BY <1>1, InvInit, InvNext, RestInit, RestNext, PTL DEF Spec

\* No head that keeps to its shares is cut short or written outside its
\* buffer, however many headers there are and however long they may be, and
\* for a size_t of any width.
THEOREM HeadsFit == Spec => []HeadFits
<1>1. Rest => HeadFits
  BY DEF Rest
<1> QED BY <1>1, InvInit, InvNext, RestInit, RestNext, PTL DEF Spec
=============================================================================

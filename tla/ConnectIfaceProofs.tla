------------------------- MODULE ConnectIfaceProofs -------------------------
(***************************************************************************)
(* Proofs about ConnectIface, for tables of any initial size and any       *)
(* number of callbacks and requests.                                       *)
(***************************************************************************)
EXTENDS ConnectIface, SequenceTheorems, TLAPS

-----------------------------------------------------------------------------
(***************************************************************************)
(* Type correctness, with the size of the array.                           *)
(***************************************************************************)

\* The array is as large as the table believes, or there is none.
Shape(t) == Len(t.cells) \in {0, t.max}

TypeInv == TypeOK /\ Shape(table)

LEMMA CellTypes ==
  /\ CellOf(NULL) \in Cell
  /\ CellOf(Junk) \in Cell
  /\ General \in [Cell -> Cell]
BY DEF CellOf, Cell, General

LEMMA Fillings ==
  ASSUME NEW m \in Methods, NEW p \in Paths, NEW bad \in BOOLEAN
  PROVE  Router(m, p, bad) \in [Cell -> Cell] /\ Directory(bad) \in [Cell -> Cell]
BY DEF Router, Directory, Cell

\* What next_unused_cb makes of a table.
LEMMA Growth ==
  ASSUME NEW t \in Table, Shape(t), NEW u \in NextUnused(t)
  PROVE  /\ u \in Table
         /\ Shape(u)
         /\ u.count = t.count + 1
         /\ ~MustGrow(t) => u.max = t.max /\ u.cells = t.cells
         /\ MustGrow(t) => u.max = 2 * t.max
         /\ MustGrow(t) /\ u.cells # <<>> => Len(u.cells) = 2 * t.max
         /\ \A j \in 1..Len(t.cells) : u.cells # <<>> => u.cells[j] = t.cells[j]
<1> DEFINE w == [t EXCEPT !.count = t.count + 1]
           n == 2 * t.max - Len(t.cells)
           fresh == [j \in 1..n |-> CellOf(Junk)]
           g(b) == [count |-> t.count + 1, max |-> 2 * t.max,
                    cells |-> t.cells \o fresh, block |-> b]
           lost == [count |-> t.count + 1, max |-> 2 * t.max,
                    cells |-> <<>>, block |-> t.block]
<1>1. /\ t.count \in Nat /\ t.max \in Nat /\ t.block \in Nat /\ t.cells \in Seq(Cell)
      /\ Len(t.cells) \in Nat
      /\ t = [count |-> t.count, max |-> t.max, cells |-> t.cells, block |-> t.block]
  BY DEF Table
<1>2. n \in Nat
  BY <1>1 DEF Shape
<1>3. fresh \in Seq(Cell) /\ Len(fresh) = n
  BY <1>2, CellTypes
<1>4. /\ t.cells \o fresh \in Seq(Cell)
      /\ Len(t.cells \o fresh) = 2 * t.max
      /\ \A j \in 1..Len(t.cells) : (t.cells \o fresh)[j] = t.cells[j]
  BY <1>1, <1>2, <1>3
<1>5. CASE ~MustGrow(t)
  <2>1. u = w
    BY <1>5 DEF NextUnused
  <2> QED BY <1>1, <1>5, <2>1 DEF Table, Shape
<1>6. CASE MustGrow(t)
  <2>1. u = lost \/ \E b \in {t.block, t.block + 1} : u = g(b)
    BY <1>1, <1>6 DEF NextUnused
  <2>2. CASE u = lost
    BY <1>1, <1>6, <2>2 DEF Table, Shape
  <2>3. ASSUME NEW b \in {t.block, t.block + 1}, u = g(b)
        PROVE  /\ u \in Table /\ Shape(u)
               /\ u.count = t.count + 1
               /\ u.max = 2 * t.max
               /\ Len(u.cells) = 2 * t.max
               /\ \A j \in 1..Len(t.cells) : u.cells[j] = t.cells[j]
    <3>1. /\ u.count = t.count + 1 /\ u.max = 2 * t.max
          /\ u.cells = t.cells \o fresh /\ u.block = b
      BY <2>3
    <3>2. u \in Table
      <4> HIDE DEF fresh
      <4>1. b \in Nat /\ 2 * t.max \in Nat /\ t.count + 1 \in Nat
        BY <1>1
      <4> QED BY <1>4, <2>3, <4>1 DEF Table
    <3> QED BY <1>4, <3>1, <3>2 DEF Shape
  <2> QED BY <1>6, <2>1, <2>2, <2>3
<1> QED BY <1>5, <1>6

LEMMA TypeInit == Init => TypeInv
<1> SUFFICES ASSUME Init PROVE TypeInv
  OBVIOUS
<1> DEFINE c == [j \in 1..InitialMax |-> CellOf(NULL)]
<1>1. c \in Seq(Cell) /\ Len(c) = InitialMax
  BY SizeAssumption, CellTypes
<1>2. InitTable = [count |-> 0, max |-> InitialMax, cells |-> c, block |-> 0]
  <2>1. InitTable = [NoTable EXCEPT !.max = InitialMax, !.cells = c]
    BY DEF InitTable
  <2> HIDE DEF c
  <2> QED BY <2>1 DEF NoTable
<1>3. InitTable \in Table /\ Shape(InitTable)
  <2> HIDE DEF c
  <2> QED BY SizeAssumption, <1>1, <1>2 DEF Table, Shape
<1>4. NoServing \in Serving
  BY DEF NoServing, Serving, Methods, Outcome
<1>5. served \in [Methods -> Nat]
  BY DEF Init
<1> QED BY <1>3, <1>4, <1>5 DEF Init, TypeInv, TypeOK

\* What a registration does to the cell keeps the table a table.
LEMMA TypeFilled ==
  ASSUME NEW u \in Table, Shape(u), u.count \in 1..Len(u.cells), NEW c \in Cell,
         NEW v, v = [u EXCEPT !.cells[u.count] = c]
  PROVE  v \in Table /\ Shape(v)
<1> DEFINE d == [u.cells EXCEPT ![u.count] = c]
<1>1. /\ u.count \in Nat /\ u.max \in Nat /\ u.block \in Nat /\ u.cells \in Seq(Cell)
      /\ u = [count |-> u.count, max |-> u.max, cells |-> u.cells, block |-> u.block]
  BY DEF Table
<1>2. d \in Seq(Cell) /\ Len(d) = Len(u.cells)
  BY <1>1, ExceptSeq
<1>3. v = [count |-> u.count, max |-> u.max, cells |-> d, block |-> u.block]
  BY <1>1
<1> QED
  <2> HIDE DEF d
  <2> QED BY <1>1, <1>2, <1>3 DEF Table, Shape

LEMMA TypeRegister ==
  ASSUME TypeInv, NEW filled \in [Cell -> Cell],
         NEW bad \in BOOLEAN, Register(filled, bad)
  PROVE  TypeInv'
<1>1. PICK u \in NextUnused(table) :
        \/ table' = u
        \/ Valid(u) /\ table' = [u EXCEPT !.cells[u.count] = filled[@]]
  BY DEF Register
<1>2. u \in Table /\ Shape(u) /\ u.count = table.count + 1
  BY Growth DEF TypeInv, TypeOK
<1>3. table' \in Table /\ Shape(table')
  <2>1. CASE table' = u
    BY <1>2, <2>1
  <2>2. CASE Valid(u) /\ table' = [u EXCEPT !.cells[u.count] = filled[@]]
    <3>1. u.count \in 1..Len(u.cells) /\ u.cells[u.count] \in Cell
      BY <1>2, <2>2 DEF TypeInv, TypeOK, Table, Valid
    <3>2. table' = [u EXCEPT !.cells[u.count] = filled[u.cells[u.count]]]
      BY <1>2, <2>2 DEF Table
    <3> QED BY <1>2, <3>1, <3>2, TypeFilled
  <2> QED BY <1>1, <2>1, <2>2
<1>4. {failed', crashed'} \subseteq BOOLEAN
  BY DEF TypeInv, TypeOK, Register
<1> QED BY <1>3, <1>4 DEF TypeInv, TypeOK, Register

LEMMA TypePass ==
  ASSUME TypeInv, NEW o \in Outcome, Pass(o)
  PROVE  serving' \in Serving
<1>1. serving.i + 1 \in Nat /\ Append(serving.called, Here) \in Seq(Nat)
  BY DEF TypeInv, TypeOK, Serving, Here
<1>2. serving' = [method |-> serving.method, path |-> serving.path, i |-> serving.i + 1,
                  block |-> serving.block, called |-> Append(serving.called, Here),
                  outcome |-> o]
  BY DEF TypeInv, TypeOK, Serving, Pass
<1> QED BY <1>1, <1>2 DEF TypeInv, TypeOK, Serving

\* A callback registers another one.
LEMMA TypeReentrant ==
  ASSUME TypeInv, CallApplication
  PROVE  table' \in Table /\ Shape(table')
<1>1. CASE UNCHANGED table
  BY <1>1 DEF TypeInv, TypeOK
<1>2. CASE \E u \in NextUnused(table) :
             ~Lost(table, u) /\ Valid(u) /\ table' = [u EXCEPT !.cells[u.count] = General[@]]
  <2>1. PICK u \in NextUnused(table) :
          Valid(u) /\ table' = [u EXCEPT !.cells[u.count] = General[@]]
    BY <1>2
  <2>2. u \in Table /\ Shape(u) /\ u.count = table.count + 1
    BY Growth DEF TypeInv, TypeOK
  <2>3. u.count \in 1..Len(u.cells) /\ u.cells[u.count] \in Cell
    BY <2>1, <2>2 DEF TypeInv, TypeOK, Table, Valid
  <2>4. table' = [u EXCEPT !.cells[u.count] = General[u.cells[u.count]]]
    BY <2>1, <2>2 DEF Table
  <2> QED BY <2>2, <2>3, <2>4, TypeFilled, CellTypes
<1> QED BY <1>1, <1>2 DEF CallApplication

LEMMA TypeTables ==
  /\ NoTable \in Table /\ Shape(NoTable)
  /\ InitTable \in Table /\ Shape(InitTable)
  /\ [InitTable EXCEPT !.cells = <<>>] \in Table /\ Shape([InitTable EXCEPT !.cells = <<>>])
<1> DEFINE c == [j \in 1..InitialMax |-> CellOf(NULL)]
<1>1. c \in Seq(Cell) /\ Len(c) = InitialMax
  BY SizeAssumption, CellTypes
<1>2. InitTable = [NoTable EXCEPT !.max = InitialMax, !.cells = c]
  BY DEF InitTable
<1> HIDE DEF c
<1>3. InitTable = [count |-> 0, max |-> InitialMax, cells |-> c, block |-> 0]
  BY <1>2 DEF NoTable
<1>4. [InitTable EXCEPT !.cells = <<>>]
        = [count |-> 0, max |-> InitialMax, cells |-> <<>>, block |-> 0]
  BY <1>3
<1>5. <<>> \in Seq(Cell) /\ Len(<<>>) = 0 /\ InitialMax \in Nat
  BY SizeAssumption
<1>6. NoTable \in Table /\ Shape(NoTable)
  BY <1>5 DEF Table, Shape, NoTable
<1>7. InitTable \in Table /\ Shape(InitTable)
  BY <1>1, <1>3, <1>5 DEF Table, Shape
<1>8. [InitTable EXCEPT !.cells = <<>>] \in Table /\ Shape([InitTable EXCEPT !.cells = <<>>])
  <2> DEFINE w == [InitTable EXCEPT !.cells = <<>>]
  <2>1. w = [count |-> 0, max |-> InitialMax, cells |-> <<>>, block |-> 0]
    BY <1>4
  <2>2. w \in Table
    <3> HIDE DEF w
    <3> QED BY <1>5, <2>1 DEF Table
  <2>3. w.cells = <<>>
    BY <2>1
  <2> QED BY <1>5, <2>2, <2>3 DEF Shape
<1> QED BY <1>6, <1>7, <1>8

LEMMA TypeNext ==
  ASSUME TypeInv, [Next]_vars
  PROVE  TypeInv'
<1> USE DEF TypeInv, TypeOK
<1>1. CASE AddFunction
  <2>1. Register(General, FALSE)
    BY <1>1 DEF AddFunction
  <2> QED BY <2>1, TypeRegister, CellTypes
<1>2. ASSUME NEW m \in Methods, NEW p \in Paths, AddRouter(m, p)
      PROVE  TypeInv'
  BY <1>2, TypeRegister, Fillings DEF AddRouter
<1>3. CASE AddStatic
  <2>1. PICK bad \in BOOLEAN : Register(Directory(bad), bad)
    BY <1>3 DEF AddStatic
  <2>2. Directory(bad) \in [Cell -> Cell]
    BY DEF Directory, Cell
  <2> QED BY <2>1, <2>2, TypeRegister
<1>4. CASE Destroy
  BY <1>4, TypeTables DEF Destroy
<1>5. CASE InitIface
  BY <1>5, TypeTables DEF InitIface
<1>6. ASSUME NEW m \in Methods, NEW p \in Paths \union {NoPath}, Request(m, p)
      PROVE  TypeInv'
  <2>1. serving' = [method |-> m, path |-> p, i |-> 0, block |-> table.block, called |-> <<>>,
                    outcome |-> IF p = NoPath THEN "no path" ELSE "pending"]
    BY <1>6 DEF Request, NoServing
  <2>2. serving' \in Serving
    <3>1. (IF p = NoPath THEN "no path" ELSE "pending") \in Outcome
      BY DEF Outcome
    <3>2. table.block \in Nat /\ <<>> \in Seq(Nat)
      BY DEF Table
    <3> QED BY <2>1, <3>1, <3>2 DEF Serving
  <2>3. served' \in [Methods -> Nat]
    BY <1>6 DEF Request
  <2> QED BY <1>6, <2>2, <2>3 DEF Request
<1>7. CASE Crash
  BY <1>7 DEF Crash
<1>8. CASE Skip
  <2>1. [serving EXCEPT !.i = serving.i + 1] \in Serving
    BY DEF Serving
  <2> QED BY <1>8, <2>1 DEF Skip
<1>9. CASE CallApplication
  <2>1. table' \in Table /\ Shape(table')
    BY <1>9, TypeReentrant
  <2>2. serving' \in Serving
    BY <1>9, TypePass DEF CallApplication, Outcome
  <2> QED BY <1>9, <2>1, <2>2 DEF CallApplication
<1>10. CASE FileMissing
  BY <1>10, TypePass DEF FileMissing, Outcome
<1>11. CASE FileHead
  <2>1. serving' \in Serving
    BY <1>11, TypePass DEF FileHead, Outcome
  <2>2. fds' \in Nat
    BY <1>11 DEF FileHead
  <2> QED BY <1>11, <2>1, <2>2 DEF FileHead
<1>12. CASE FileUnreadable
  BY <1>12, TypePass DEF FileUnreadable, Outcome
<1>13. CASE FileServed
  BY <1>13, TypePass DEF FileServed, Outcome
<1>14. CASE NotFound
  <2>1. [serving EXCEPT !.outcome = "not found"] \in Serving
    BY DEF Serving, Outcome
  <2> QED BY <1>14, <2>1 DEF NotFound
<1>15. CASE UNCHANGED vars
  BY <1>15 DEF vars
<1>16. \A r \in Routes : r[1] \in Methods /\ r[2] \in Paths
  BY RoutesAssumption DEF Methods
<1> QED BY <1>1, <1>2, <1>3, <1>4, <1>5, <1>6, <1>7, <1>8, <1>9, <1>10, <1>11, <1>12,
           <1>13, <1>14, <1>15, <1>16 DEF Next

\* Registering, growing, destroying and serving keep every variable in its
\* type.
THEOREM TypeCorrect == Spec => []TypeOK
<1>1. TypeInv => TypeOK
  BY DEF TypeInv
<1> QED BY <1>1, TypeInit, TypeNext, PTL DEF Spec

-----------------------------------------------------------------------------
(***************************************************************************)
(* No memory outside the table is used.                                    *)
(***************************************************************************)

\* The fields that request_handler and serve_static_file read are set.
CellSound(c) ==
  /\ c.type \in {"general", "router", "static"}
  /\ c.type = "router" => c.resource \in Paths
  /\ c.type = "static" => c.resource = "directory"

\* While no allocation has failed, the callbacks in use are all there.
Whole(t) == /\ Len(t.cells) = t.max
            /\ Valid(t)
            /\ \A j \in 1..t.count : CellSound(t.cells[j])

TableInv == ~failed => Whole(table)

SoundInv == TypeInv /\ TableInv /\ TableSound

\* A new table that could be allocated.
LEMMA InitWhole == Whole(InitTable)
<1> DEFINE c == [j \in 1..InitialMax |-> CellOf(NULL)]
<1>1. Len(c) = InitialMax /\ InitialMax \in Nat
  BY SizeAssumption
<1>2. InitTable = [NoTable EXCEPT !.max = InitialMax, !.cells = c]
  BY DEF InitTable
<1> HIDE DEF c
<1> QED BY <1>1, <1>2 DEF Whole, Valid, NoTable

\* A registration that takes the cell of u and leaves c in it.
LEMMA Taken ==
  ASSUME NEW u \in Table, u.count \in 1..Len(u.cells), NEW c \in Cell,
         NEW v, v = [u EXCEPT !.cells[u.count] = c]
  PROVE  /\ v.count = u.count /\ v.max = u.max /\ v.block = u.block
         /\ Len(v.cells) = Len(u.cells)
         /\ v.cells[u.count] = c
         /\ \A j \in 1..Len(u.cells) : j # u.count => v.cells[j] = u.cells[j]
<1> DEFINE d == [u.cells EXCEPT ![u.count] = c]
<1>1. /\ u.count \in Nat /\ u.cells \in Seq(Cell)
      /\ u = [count |-> u.count, max |-> u.max, cells |-> u.cells, block |-> u.block]
  BY DEF Table
<1>2. /\ Len(d) = Len(u.cells)
      /\ \A j \in 1..Len(u.cells) : d[j] = IF j = u.count THEN c ELSE u.cells[j]
  BY <1>1, ExceptSeq
<1>3. v = [count |-> u.count, max |-> u.max, cells |-> d, block |-> u.block]
  BY <1>1
<1> QED
  <2> HIDE DEF d
  <2> QED BY <1>1, <1>2, <1>3

\* A whole table with one more sound cell is whole.
LEMMA WholeTaken ==
  ASSUME NEW t \in Table, Shape(t), Whole(t), NEW u \in NextUnused(t), ~Lost(t, u), Valid(u),
         NEW c \in Cell, CellSound(c), NEW v, v = [u EXCEPT !.cells[u.count] = c]
  PROVE  Whole(v)
<1>1. /\ u \in Table /\ Shape(u) /\ u.count = t.count + 1
      /\ \A j \in 1..Len(t.cells) : u.cells # <<>> => u.cells[j] = t.cells[j]
  BY Growth
<1>2. /\ t.count \in Nat /\ t.max \in Nat /\ Len(t.cells) \in Nat /\ t.count <= Len(t.cells)
      /\ u.max \in Nat /\ Len(u.cells) \in Nat /\ u.count <= Len(u.cells)
      /\ u.cells # <<>>
  BY <1>1 DEF Table, Whole, Valid
<1>3. u.count \in 1..Len(u.cells) /\ Len(u.cells) = u.max
  BY <1>1, <1>2 DEF Shape
<1>4. /\ v.count = u.count /\ v.max = u.max /\ Len(v.cells) = Len(u.cells)
      /\ v.cells[u.count] = c
      /\ \A j \in 1..Len(u.cells) : j # u.count => v.cells[j] = u.cells[j]
  BY <1>1, <1>3, Taken
<1>5. ASSUME NEW j \in 1..v.count PROVE CellSound(v.cells[j])
  <2>1. CASE j = u.count
    BY <1>4, <2>1
  <2>2. CASE j # u.count
    <3>1. j \in 1..t.count /\ j \in 1..Len(t.cells) /\ j \in 1..Len(u.cells)
      BY <1>1, <1>2, <1>4, <2>2
    <3>2. v.cells[j] = t.cells[j]
      BY <1>1, <1>2, <1>4, <2>2, <3>1
    <3> QED BY <3>1, <3>2 DEF Whole
  <2> QED BY <2>1, <2>2
<1> QED BY <1>2, <1>3, <1>4, <1>5 DEF Whole, Valid

\* Unless the copy of the resource failed, the cell is sound.
LEMMA Filled ==
  ASSUME NEW c \in Cell, NEW m \in Methods, NEW p \in Paths
  PROVE  /\ CellSound(General[c])
         /\ CellSound(Router(m, p, FALSE)[c])
         /\ CellSound(Directory(FALSE)[c])
BY DEF CellSound, General, Router, Directory, Cell

LEMMA SoundRegister ==
  ASSUME SoundInv, NEW filled \in [Cell -> Cell], NEW bad \in BOOLEAN,
         ~bad => \A c \in Cell : CellSound(filled[c]), Register(filled, bad)
  PROVE  TableInv' /\ TableSound'
<1> USE DEF SoundInv, TypeInv, TypeOK
<1>1. PICK u \in NextUnused(table) :
       \/ failed'
       \/ /\ ~Lost(table, u) /\ Valid(u)
          /\ table' = [u EXCEPT !.cells[u.count] = filled[@]]
          /\ failed' = (failed \/ bad)
          /\ UNCHANGED crashed
       \/ ~Lost(table, u) /\ ~Valid(u) /\ UNCHANGED failed
  BY DEF Register
<1>2. /\ u \in Table /\ Shape(u) /\ u.count = table.count + 1
      /\ ~MustGrow(table) => u.max = table.max /\ u.cells = table.cells
      /\ MustGrow(table) /\ u.cells # <<>> => Len(u.cells) = 2 * table.max
  BY Growth
<1>3. UNCHANGED moved /\ table.max > 0 /\ ~crashed
  BY DEF Register, Outside
<1>4. CASE failed'
  BY <1>4 DEF TableInv, TableSound
<1>5. CASE ~failed'
  <2>1. ~failed /\ Whole(table)
    BY <1>1, <1>5 DEF TableInv, Register
  <2>2. CASE /\ ~Lost(table, u) /\ Valid(u)
             /\ table' = [u EXCEPT !.cells[u.count] = filled[@]]
             /\ failed' = (failed \/ bad)
             /\ UNCHANGED crashed
    <3>1. u.count \in 1..Len(u.cells) /\ u.cells[u.count] \in Cell
      BY <1>2, <2>2 DEF Table, Valid
    <3>2. table' = [u EXCEPT !.cells[u.count] = filled[u.cells[u.count]]]
      BY <1>2, <2>2 DEF Table
    <3>3. CellSound(filled[u.cells[u.count]]) /\ filled[u.cells[u.count]] \in Cell
      BY <1>5, <2>2, <3>1
    <3>4. Whole(table')
      BY <2>1, <2>2, <3>2, <3>3, WholeTaken
    <3> QED BY <1>3, <2>2, <3>4 DEF TableInv, TableSound
  <2>3. CASE ~Lost(table, u) /\ ~Valid(u) /\ UNCHANGED failed
    \* Twice a size that is not zero has room for one more.
    <3>1. /\ table.count \in Nat /\ table.max \in Nat /\ table.count <= table.max
          /\ Len(table.cells) = table.max
      BY <2>1 DEF Whole, Valid, Table
    <3>2. Valid(u)
      BY <1>2, <1>3, <2>3, <3>1 DEF Lost, MustGrow, Valid
    <3> QED BY <2>3, <3>2
  <2> QED BY <1>1, <1>5, <2>2, <2>3
<1> QED BY <1>4, <1>5

LEMMA SoundReentrant ==
  ASSUME SoundInv, CallApplication
  PROVE  TableInv' /\ TableSound'
<1> USE DEF SoundInv, TypeInv, TypeOK
<1>1. TableSound'
  BY DEF CallApplication, TableSound
<1>2. CASE UNCHANGED table
  BY <1>1, <1>2 DEF CallApplication, TableInv
<1>3. CASE \E u \in NextUnused(table) :
             ~Lost(table, u) /\ Valid(u) /\ table' = [u EXCEPT !.cells[u.count] = General[@]]
  <2>1. PICK u \in NextUnused(table) :
          ~Lost(table, u) /\ Valid(u) /\ table' = [u EXCEPT !.cells[u.count] = General[@]]
    BY <1>3
  <2>2. u \in Table /\ u.count = table.count + 1
    BY Growth
  <2>3. u.count \in 1..Len(u.cells) /\ u.cells[u.count] \in Cell
    BY <2>1, <2>2 DEF Table, Valid
  <2>4. table' = [u EXCEPT !.cells[u.count] = General[u.cells[u.count]]]
    BY <2>1, <2>2 DEF Table
  <2>5. CellSound(General[u.cells[u.count]]) /\ General[u.cells[u.count]] \in Cell
    BY <2>3, CellTypes DEF CellSound, General, Cell
  <2>6. ~failed => Whole(table')
    BY <2>1, <2>4, <2>5, WholeTaken DEF TableInv
  <2> QED BY <1>1, <2>6 DEF CallApplication, TableInv
<1> QED BY <1>1, <1>2, <1>3 DEF CallApplication

\* The loop reads a cell that is not sound only in a table that is not whole.
LEMMA SoundCrash ==
  ASSUME SoundInv, Crash
  PROVE  failed
<1> SUFFICES ASSUME ~failed PROVE FALSE
  OBVIOUS
<1>1. Whole(table)
  BY DEF SoundInv, TableInv
<1>2. serving.i \in Nat /\ table.count \in Nat /\ Len(table.cells) \in Nat
  BY DEF SoundInv, TypeInv, TypeOK, Serving, Table
<1>3. Here \in 1..table.count /\ Here <= Len(table.cells)
  BY <1>1, <1>2 DEF Crash, AtEnd, Here, Whole, Valid
<1>4. CellSound(NextCell)
  BY <1>1, <1>3 DEF Whole, NextCell
<1>5. Sound
  BY <1>4 DEF Sound, CellSound, Junk
<1> QED BY <1>3, <1>5 DEF Crash

LEMMA SoundNext ==
  ASSUME SoundInv, [Next]_vars
  PROVE  SoundInv'
<1>1. TypeInv'
  BY TypeNext DEF SoundInv
<1> SUFFICES TableInv' /\ TableSound'
  BY <1>1 DEF SoundInv
<1>2. CASE AddFunction
  BY <1>2, SoundRegister, CellTypes DEF AddFunction, CellSound, General, Cell
<1>3. ASSUME NEW m \in Methods, NEW p \in Paths, AddRouter(m, p)
      PROVE  TableInv' /\ TableSound'
  <2>1. PICK bad \in BOOLEAN : Register(Router(m, p, bad), bad)
    BY <1>3 DEF AddRouter
  <2> QED BY <2>1, SoundRegister, Fillings, Filled
<1>4. CASE AddStatic
  <2>1. PICK bad \in BOOLEAN : Register(Directory(bad), bad)
    BY <1>4 DEF AddStatic
  <2>2. Directory(bad) \in [Cell -> Cell]
    BY DEF Directory, Cell
  <2>3. ~bad => \A c \in Cell : CellSound(Directory(bad)[c])
    BY DEF Directory, Cell, CellSound
  <2> QED BY <2>1, <2>2, <2>3, SoundRegister
<1>5. CASE Destroy
  <2>1. Whole(NoTable)
    BY DEF Whole, NoTable, Valid
  <2>2. ~failed => ~crashed'
    BY <1>5 DEF Destroy, Outside, SoundInv, TableInv, Whole
  <2>3. CASE failed
    BY <1>5, <2>3 DEF Destroy, TableInv, TableSound
  <2>4. CASE ~failed
    BY <1>5, <2>1, <2>2, <2>4 DEF Destroy, TableInv, TableSound
  <2> QED BY <2>3, <2>4
<1>6. CASE InitIface
  <2>1. TableSound'
    BY <1>6 DEF InitIface, Outside, TableSound
  <2>2. Whole(InitTable)
    BY InitWhole
  <2> QED BY <1>6, <2>1, <2>2 DEF InitIface, TableInv
<1>7. CASE Crash
  BY <1>7, SoundCrash DEF Crash, SoundInv, TableInv, TableSound
<1>8. CASE CallApplication
  BY <1>8, SoundReentrant
<1>9. CASE UNCHANGED <<table, failed, moved, crashed>>
  BY <1>9 DEF SoundInv, TableInv, TableSound
<1>10. \A r \in Routes : r[1] \in Methods /\ r[2] \in Paths
  BY RoutesAssumption DEF Methods
<1> QED
  BY <1>2, <1>3, <1>4, <1>5, <1>6, <1>7, <1>8, <1>9, <1>10
  DEF Next, vars, Request, Skip, FileMissing, FileHead, FileUnreadable, FileServed, NotFound

LEMMA SoundInit == Init => SoundInv
BY TypeInit, InitWhole DEF Init, SoundInv, TableInv, TableSound

\* Memory outside the table is used only after an allocation failed or after
\* a callback made the table move, for any number of callbacks and requests.
THEOREM TableStaysSound == Spec => []TableSound
<1>1. SoundInv => TableSound
  BY DEF SoundInv
<1> QED BY <1>1, SoundInit, SoundNext, PTL DEF Spec

-----------------------------------------------------------------------------
(***************************************************************************)
(* File descriptors.                                                       *)
(***************************************************************************)

\* The HEAD request that is being served has no descriptor yet.
HeadInv ==
  fds + (IF serving.outcome = "pending" /\ serving.method = "HEAD" THEN 1 ELSE 0)
    <= served["HEAD"]

LEMMA HeadNext ==
  ASSUME TypeInv, HeadInv, [Next]_vars
  PROVE  HeadInv'
<1> USE DEF TypeInv, TypeOK
<1>1. fds \in Nat /\ served["HEAD"] \in Nat /\ served \in [Methods -> Nat]
  BY DEF Methods
<1>2. ASSUME NEW o \in Outcome, Pass(o), UNCHANGED <<fds, served>>,
             serving.outcome = "pending"
      PROVE  HeadInv'
  <2>1. serving'.method = serving.method
    BY <1>2 DEF Pass, Serving
  <2> QED BY <1>1, <1>2, <2>1 DEF HeadInv
<1>3. ASSUME NEW m \in Methods, NEW p \in Paths \union {NoPath}, Request(m, p)
      PROVE  HeadInv'
  <2>1. serving'.method = m /\ UNCHANGED fds
    BY <1>3 DEF Request, NoServing
  <2>2. served' = [served EXCEPT ![m] = served[m] + 1] /\ serving.outcome # "pending"
    BY <1>3 DEF Request, Outside
  <2>3. served'["HEAD"] = IF m = "HEAD" THEN served["HEAD"] + 1 ELSE served["HEAD"]
    BY <1>1, <2>2 DEF Methods
  <2> QED BY <1>1, <2>1, <2>2, <2>3 DEF HeadInv
<1>4. CASE Skip
  <2>1. serving'.method = serving.method /\ serving'.outcome = serving.outcome
    BY <1>4 DEF Skip, Serving
  <2> QED BY <1>4, <2>1 DEF Skip, HeadInv
<1>5. CASE CallApplication
  BY <1>2, <1>5 DEF CallApplication, Reading, Chain, Outcome
<1>6. CASE FileMissing
  BY <1>2, <1>6 DEF FileMissing, Static, Reading, Chain, Outcome
<1>7. CASE FileHead
  <2>1. serving'.outcome = "head" /\ fds' = fds + 1 /\ UNCHANGED served
    BY <1>7 DEF FileHead, Pass, Serving
  <2>2. serving.outcome = "pending" /\ serving.method = "HEAD"
    BY <1>7 DEF FileHead, Static, Reading, Chain
  <2> QED BY <1>1, <2>1, <2>2 DEF HeadInv
<1>8. CASE FileUnreadable
  BY <1>2, <1>8 DEF FileUnreadable, Static, Reading, Chain, Outcome
<1>9. CASE FileServed
  BY <1>2, <1>9 DEF FileServed, Static, Reading, Chain, Outcome
<1>10. CASE NotFound
  <2>1. serving'.outcome = "not found" /\ fds' = fds /\ served' = served
    BY <1>10 DEF NotFound, Serving
  <2>2. fds <= served["HEAD"]
    BY <1>1 DEF HeadInv
  <2>3. fds + 0 = fds
    BY <1>1
  <2>4. (IF serving'.outcome = "pending" /\ serving'.method = "HEAD" THEN 1 ELSE 0) = 0
    BY <2>1
  <2> QED BY <2>1, <2>2, <2>3, <2>4 DEF HeadInv
<1>11. CASE UNCHANGED <<serving, fds, served>>
  BY <1>11 DEF HeadInv
<1> QED
  BY <1>3, <1>4, <1>5, <1>6, <1>7, <1>8, <1>9, <1>10, <1>11
  DEF Next, vars, AddFunction, AddRouter, AddStatic, Register, Destroy, InitIface, Crash

\* No descriptor stays open but those of files asked for with HEAD, one for
\* each such request at most.
THEOREM DescriptorsStayClosed == Spec => []DescriptorsClosed
<1>1. Init => TypeInv /\ HeadInv
  <2>1. NoServing.outcome # "pending"
    BY DEF NoServing
  <2>2. [m \in Methods |-> 0]["HEAD"] = 0
    BY DEF Methods
  <2>3. Init => HeadInv
    BY <2>1, <2>2 DEF Init, HeadInv
  <2> QED BY <2>3, TypeInit
<1>2. TypeInv /\ HeadInv /\ [Next]_vars => (TypeInv /\ HeadInv)'
  BY TypeNext, HeadNext
<1>3. TypeInv /\ HeadInv => DescriptorsClosed
  BY DEF TypeInv, TypeOK, HeadInv, DescriptorsClosed, Methods
<1> QED BY <1>1, <1>2, <1>3, PTL DEF Spec

-----------------------------------------------------------------------------
(***************************************************************************)
(* What destroying a table frees.                                          *)
(***************************************************************************)

\* A table that has not grown consists of cells that calloc cleared.
Cleared(t) ==
  /\ t.max = 0 \/ t.max >= InitialMax
  /\ t.count <= InitialMax =>
       \A j \in 1..Len(t.cells) : j <= InitialMax => t.cells[j].resource # Junk

ClearedInv == TypeInv /\ Cleared(table)

LEMMA InitCleared ==
  Cleared(InitTable) /\ Cleared([InitTable EXCEPT !.cells = <<>>])
<1> DEFINE c == [j \in 1..InitialMax |-> CellOf(NULL)]
<1>1. /\ Len(c) = InitialMax /\ InitialMax \in Nat
      /\ \A j \in 1..InitialMax : c[j].resource = NULL
  BY SizeAssumption DEF CellOf
<1>2. InitTable = [NoTable EXCEPT !.max = InitialMax, !.cells = c]
  BY DEF InitTable
<1> HIDE DEF c
<1>3. InitTable.max = InitialMax /\ InitTable.cells = c
  BY <1>2 DEF NoTable
<1>4. /\ [InitTable EXCEPT !.cells = <<>>].max = InitialMax
      /\ [InitTable EXCEPT !.cells = <<>>].cells = <<>>
  BY <1>2 DEF NoTable
<1> QED BY <1>1, <1>3, <1>4 DEF Cleared, NULL, Junk

\* The cells that realloc leaves uncleared are beyond InitialMax.
LEMMA ClearedGrowth ==
  ASSUME NEW t \in Table, Shape(t), Cleared(t), t.max > 0, NEW u \in NextUnused(t)
  PROVE  Cleared(u)
<1>1. /\ u \in Table /\ u.count = t.count + 1
      /\ ~MustGrow(t) => u.max = t.max /\ u.cells = t.cells
      /\ MustGrow(t) => u.max = 2 * t.max
  BY Growth
<1>2. t.count \in Nat /\ t.max \in Nat /\ InitialMax \in Nat
  BY SizeAssumption DEF Table
<1>3. CASE MustGrow(t)
  BY <1>1, <1>2, <1>3 DEF Cleared, MustGrow
<1>4. CASE ~MustGrow(t)
  BY <1>1, <1>2, <1>4 DEF Cleared
<1> QED BY <1>3, <1>4

\* A registration does not make a resource uninitialised.
LEMMA ClearedTaken ==
  ASSUME NEW u \in Table, Cleared(u), Valid(u), u.count > 0, NEW filled \in [Cell -> Cell],
         \A c \in Cell : c.resource # Junk => filled[c].resource # Junk,
         NEW v, v = [u EXCEPT !.cells[u.count] = filled[@]]
  PROVE  Cleared(v)
<1>1. u.count \in 1..Len(u.cells) /\ u.cells[u.count] \in Cell
  BY DEF Table, Valid
<1>2. v = [u EXCEPT !.cells[u.count] = filled[u.cells[u.count]]]
  BY DEF Table
<1>3. /\ v.count = u.count /\ v.max = u.max /\ Len(v.cells) = Len(u.cells)
      /\ v.cells[u.count] = filled[u.cells[u.count]]
      /\ \A j \in 1..Len(u.cells) : j # u.count => v.cells[j] = u.cells[j]
  BY <1>1, <1>2, Taken
<1> QED BY <1>1, <1>3 DEF Cleared

LEMMA FilledCleared ==
  ASSUME NEW c \in Cell, c.resource # Junk, NEW m \in Methods, NEW p \in Paths,
         NEW bad \in BOOLEAN
  PROVE  /\ General[c].resource # Junk
         /\ Router(m, p, bad)[c].resource # Junk
         /\ Directory(bad)[c].resource # Junk
BY PathsAssumption DEF General, Router, Directory, Cell, Junk, NULL

LEMMA ClearedRegister ==
  ASSUME ClearedInv, NEW filled \in [Cell -> Cell], NEW bad \in BOOLEAN,
         \A c \in Cell : c.resource # Junk => filled[c].resource # Junk, Register(filled, bad)
  PROVE  Cleared(table')
<1> USE DEF ClearedInv, TypeInv, TypeOK
<1>1. PICK u \in NextUnused(table) :
       \/ table' = u
       \/ Valid(u) /\ table' = [u EXCEPT !.cells[u.count] = filled[@]]
  BY DEF Register
<1>2. Cleared(u)
  BY ClearedGrowth DEF Register
<1>3. u \in Table /\ u.count > 0
  BY Growth DEF Table
<1> QED BY <1>1, <1>2, <1>3, ClearedTaken

LEMMA ClearedNext ==
  ASSUME ClearedInv, [Next]_vars
  PROVE  ClearedInv'
<1> SUFFICES Cleared(table')
  BY TypeNext DEF ClearedInv, Cleared
<1>1. CASE AddFunction
  BY <1>1, ClearedRegister, CellTypes DEF AddFunction, General, Cell
<1>2. ASSUME NEW m \in Methods, NEW p \in Paths, AddRouter(m, p)
      PROVE  Cleared(table')
  <2>1. PICK bad \in BOOLEAN : Register(Router(m, p, bad), bad)
    BY <1>2 DEF AddRouter
  <2> QED BY <2>1, ClearedRegister, Fillings, FilledCleared
<1>3. CASE AddStatic
  <2>1. PICK bad \in BOOLEAN : Register(Directory(bad), bad)
    BY <1>3 DEF AddStatic
  <2>2. Directory(bad) \in [Cell -> Cell]
    BY DEF Directory, Cell
  <2>3. \A c \in Cell : c.resource # Junk => Directory(bad)[c].resource # Junk
    BY DEF Directory, Cell, Junk, NULL
  <2> QED BY <2>1, <2>2, <2>3, ClearedRegister
<1>4. CASE Destroy
  BY <1>4, SizeAssumption DEF Destroy, Cleared, NoTable
<1>5. CASE InitIface
  BY <1>5, InitCleared DEF InitIface
<1>6. CASE CallApplication
  <2> USE DEF ClearedInv, TypeInv, TypeOK
  <2>1. CASE UNCHANGED table
    BY <2>1
  <2>2. CASE \E u \in NextUnused(table) :
               ~Lost(table, u) /\ Valid(u) /\ table' = [u EXCEPT !.cells[u.count] = General[@]]
    <3>1. PICK u \in NextUnused(table) :
            Valid(u) /\ table' = [u EXCEPT !.cells[u.count] = General[@]]
      BY <2>2
    <3>2. table.max > 0
      BY <1>6 DEF CallApplication, Reading, Here, Serving, Shape, Table
    <3>3. Cleared(u) /\ u \in Table /\ u.count > 0
      BY <3>2, ClearedGrowth, Growth DEF Table
    <3>4. \A c \in Cell : c.resource # Junk => General[c].resource # Junk
      BY DEF General, Cell
    <3> QED BY <3>1, <3>3, <3>4, CellTypes, ClearedTaken
  <2> QED BY <1>6, <2>1, <2>2 DEF CallApplication
<1>7. CASE UNCHANGED table
  BY <1>7 DEF ClearedInv
<1>8. \A r \in Routes : r[1] \in Methods /\ r[2] \in Paths
  BY RoutesAssumption DEF Methods
<1> QED
  BY <1>1, <1>2, <1>3, <1>4, <1>5, <1>6, <1>7, <1>8
  DEF Next, vars, Request, Crash, Skip, FileMissing, FileHead, FileUnreadable, FileServed,
      NotFound

\* Destroying a table frees an uninitialised pointer only when the table has
\* outgrown the cells that calloc cleared.
THEOREM FreesAreSetOrCleared == Spec => FreesSetOrCleared
<1>1. Init => ClearedInv
  BY TypeInit, InitCleared DEF Init, ClearedInv
<1>2. ClearedInv /\ [Next]_vars => ClearedInv'
  BY ClearedNext
<1>3. ClearedInv /\ [Next]_vars =>
        [misfreed' /\ ~misfreed => table.count > InitialMax]_vars
  <2> SUFFICES ASSUME ClearedInv, Next, misfreed', ~misfreed, ~(table.count > InitialMax)
               PROVE  FALSE
    OBVIOUS
  <2>1. Destroy
    BY DEF Next, AddFunction, AddRouter, AddStatic, Register, InitIface, Request, Crash, Skip,
           CallApplication, FileMissing, FileHead, FileUnreadable, FileServed, NotFound
  <2>2. PICK j \in 1..table.count : Valid(table) /\ table.cells[j].resource = Junk
    BY <2>1 DEF Destroy
  <2>3. table.count \in Nat /\ Len(table.cells) \in Nat /\ InitialMax \in Nat
    BY SizeAssumption DEF ClearedInv, TypeInv, TypeOK, Table
  <2>4. j \in 1..Len(table.cells) /\ j <= InitialMax /\ table.count <= InitialMax
    BY <2>2, <2>3 DEF Valid
  <2> QED BY <2>2, <2>4 DEF ClearedInv, Cleared
<1> QED BY <1>1, <1>2, <1>3, PTL DEF Spec, FreesSetOrCleared

-----------------------------------------------------------------------------
(***************************************************************************)
(* The order of the callbacks.                                             *)
(***************************************************************************)

\* What Wants says of a request for path p with method m.
Asked(c, m, p) ==
  \/ c.type = "general"
  \/ c.type = "router" /\ c.method = m /\ c.resource = p
  \/ c.type = "static" /\ m # "POST"

InOrder(s) == \A k \in 1..Len(s) : \A l \in 1..k - 1 : s[l] < s[k]

Line(i, cells, m, p) == {j \in 1..i : Asked(cells[j], m, p)}

\* s are the places, in order, of those of the first i that want the request.
InLine(s, i, cells, m, p) ==
  /\ {s[k] : k \in 1..Len(s)} = Line(i, cells, m, p)
  /\ InOrder(s)

\* The loop has not been beyond the table, and has asked those it should.
OrderInv ==
  serving.outcome = "pending" /\ ~crashed =>
    /\ serving.i <= table.count
    /\ InLine(serving.called, serving.i, table.cells, serving.method, serving.path)

\* Wants, without its CASE.
LEMMA WantsAsked ==
  ASSUME NEW c
  PROVE  Wants(c) <=> Asked(c, serving.method, serving.path)
<1>1. CASE c.type = "general"
  BY <1>1 DEF Wants, Asked
<1>2. CASE c.type = "router"
  BY <1>2 DEF Wants, Asked
<1>3. CASE c.type = "static"
  BY <1>3 DEF Wants, Asked
<1>4. CASE c.type \notin {"general", "router", "static"}
  BY <1>4 DEF Wants, Asked
<1> QED BY <1>1, <1>2, <1>3, <1>4

\* A place beyond all that are there goes to the end.
LEMMA LaterPlace ==
  ASSUME NEW s \in Seq(Nat), NEW n \in Nat, InOrder(s), \A k \in 1..Len(s) : s[k] < n
  PROVE  /\ InOrder(Append(s, n))
         /\ {Append(s, n)[k] : k \in 1..Len(Append(s, n))}
              = {s[k] : k \in 1..Len(s)} \union {n}
<1> DEFINE z == Append(s, n)
           q == Len(s)
<1>1. /\ q \in Nat /\ Len(z) = q + 1 /\ z[q + 1] = n
      /\ \A k \in 1..q : z[k] = s[k]
      /\ \A k \in 1..q : s[k] \in Nat
  OBVIOUS
<1>2. InOrder(z)
  <2> SUFFICES ASSUME NEW k \in 1..Len(z), NEW l \in 1..k - 1 PROVE z[l] < z[k]
    BY DEF InOrder
  <2> HIDE DEF z
  <2>1. CASE k = q + 1
    <3> HIDE DEF q
    <3>1. l \in 1..q
      BY <1>1, <2>1
    <3>2. z[l] = s[l] /\ z[k] = n
      BY <1>1, <2>1, <3>1
    <3>3. s[l] < n
      BY <3>1 DEF q
    <3> QED BY <3>2, <3>3
  <2>2. CASE k # q + 1
    <3>1. k \in 1..q /\ l \in 1..q
      <4> HIDE DEF q
      <4> QED BY <1>1, <2>2
    <3>2. s[l] < s[k]
      BY <3>1 DEF InOrder
    <3> QED BY <1>1, <3>1, <3>2
  <2> QED BY <2>1, <2>2
<1>3. {z[k] : k \in 1..Len(z)} = {s[k] : k \in 1..q} \union {n}
  <2> HIDE DEF z, q
  <2>1. 1..Len(z) = 1..q \union {q + 1}
    BY <1>1
  <2> QED BY <1>1, <2>1
<1> QED BY <1>2, <1>3

\* The loop is done with one more callback.
LEMMA Longer ==
  ASSUME NEW s \in Seq(Nat), NEW i \in Nat, NEW c, NEW d, NEW m, NEW p,
         InLine(s, i, c, m, p), \A j \in 1..i + 1 : d[j] = c[j]
  PROVE  /\ Line(i + 1, d, m, p) = Line(i + 1, c, m, p)
         /\ ~Asked(c[i + 1], m, p) => InLine(s, i + 1, d, m, p)
         /\ Asked(c[i + 1], m, p) => InLine(Append(s, i + 1), i + 1, d, m, p)
<1>1. Line(i + 1, d, m, p) = Line(i + 1, c, m, p)
  BY DEF Line
<1>2. /\ ~Asked(c[i + 1], m, p) => Line(i + 1, c, m, p) = Line(i, c, m, p)
      /\ Asked(c[i + 1], m, p) => Line(i + 1, c, m, p) = Line(i, c, m, p) \union {i + 1}
  BY DEF Line
<1>3. \A k \in 1..Len(s) : s[k] < i + 1
  <2> SUFFICES ASSUME NEW k \in 1..Len(s) PROVE s[k] < i + 1
    OBVIOUS
  <2>1. s[k] \in Line(i, c, m, p)
    BY DEF InLine
  <2> QED BY <2>1 DEF Line
<1>4. /\ InOrder(Append(s, i + 1))
      /\ {Append(s, i + 1)[k] : k \in 1..Len(Append(s, i + 1))}
           = {s[k] : k \in 1..Len(s)} \union {i + 1}
  <2>1. i + 1 \in Nat
    OBVIOUS
  <2> QED BY <1>3, <2>1, LaterPlace DEF InLine
<1>5. ~Asked(c[i + 1], m, p) => InLine(s, i + 1, d, m, p)
  BY <1>1, <1>2 DEF InLine
<1>6. Asked(c[i + 1], m, p) => InLine(Append(s, i + 1), i + 1, d, m, p)
  BY <1>1, <1>2, <1>4 DEF InLine
<1> QED BY <1>1, <1>5, <1>6

\* What a step of the loop does to those asked.
LEMMA OrderStep ==
  ASSUME TypeInv, OrderInv, Reading,
         \A j \in 1..Here : table'.cells[j] = table.cells[j],
         table'.count \in Nat, table'.count >= table.count,
         serving'.i = Here, serving'.method = serving.method, serving'.path = serving.path,
         \/ /\ Asked(NextCell, serving.method, serving.path)
            /\ serving'.called = Append(serving.called, Here)
         \/ /\ ~Asked(NextCell, serving.method, serving.path)
            /\ serving'.called = serving.called
  PROVE  /\ OrderInv'
         /\ InLine(serving'.called, serving'.i, table.cells, serving.method, serving.path)
<1> DEFINE s == serving.called
           i == serving.i
           c == table.cells
           d == table'.cells
           m == serving.method
           p == serving.path
<1>1. s \in Seq(Nat) /\ i \in Nat /\ table.count \in Nat /\ i + 1 <= table.count
  BY DEF TypeInv, TypeOK, Serving, Table, Reading, AtEnd
<1>2. InLine(s, i, c, m, p)
  BY DEF OrderInv, Reading, Chain
<1>3. \A j \in 1..i + 1 : d[j] = c[j]
  BY DEF Here
<1>4. /\ ~Asked(c[i + 1], m, p) =>
           InLine(s, i + 1, d, m, p) /\ InLine(s, i + 1, c, m, p)
      /\ Asked(c[i + 1], m, p) =>
           /\ InLine(Append(s, i + 1), i + 1, d, m, p)
           /\ InLine(Append(s, i + 1), i + 1, c, m, p)
  <2> HIDE DEF s, i, c, d, m, p
  <2> QED BY <1>1, <1>2, <1>3, Longer
<1>5. NextCell = c[i + 1] /\ Here = i + 1
  BY DEF NextCell, Here
<1>6. /\ InLine(serving'.called, serving'.i, table'.cells, serving'.method, serving'.path)
      /\ InLine(serving'.called, serving'.i, table.cells, serving.method, serving.path)
  BY <1>4, <1>5
<1> QED BY <1>1, <1>5, <1>6 DEF OrderInv

\* What ChainOrder says of a step.
Served ==
  /\ InLine(serving'.called, serving'.i, table.cells, serving.method, serving.path)
  /\ serving'.outcome = "not found" => serving'.i = table.count

\* What becomes of a request with a callback.
Passed == Outcome \ {"not found"}

\* A callback that is given the request has asked for it.
LEMMA OrderPass ==
  ASSUME TypeInv, OrderInv, Reading, NEW o \in Passed, Pass(o),
         Asked(NextCell, serving.method, serving.path), table' = table
  PROVE  OrderInv' /\ Served
<1>1. /\ serving'.i = Here /\ serving'.method = serving.method
      /\ serving'.path = serving.path /\ serving'.called = Append(serving.called, Here)
      /\ serving'.outcome = o
  BY DEF TypeInv, TypeOK, Serving, Pass, Here
<1>2. table.count \in Nat
  BY DEF TypeInv, TypeOK, Table
<1>3. /\ table'.count \in Nat /\ table'.count >= table.count
      /\ \A j \in 1..Here : table'.cells[j] = table.cells[j]
  BY <1>2
<1>4. serving'.outcome # "not found"
  BY <1>1 DEF Passed
<1>5. /\ OrderInv'
      /\ InLine(serving'.called, serving'.i, table.cells, serving.method, serving.path)
  BY <1>1, <1>3, OrderStep
<1> QED BY <1>4, <1>5 DEF Served

\* A cell that is read again has not changed: another one may have been taken.
LEMMA OrderReentrant ==
  ASSUME TypeInv, OrderInv, CallApplication
  PROVE  OrderInv' /\ Served
<1> USE DEF TypeInv, TypeOK
<1>1. PICK next \in BOOLEAN : Pass(IF next THEN "pending" ELSE "kept")
  BY DEF CallApplication
<1>2. /\ serving'.i = Here /\ serving'.method = serving.method
      /\ serving'.path = serving.path /\ serving'.called = Append(serving.called, Here)
      /\ serving'.outcome # "not found"
  BY <1>1 DEF Serving, Pass, Here
<1>3. /\ Reading
      /\ Asked(NextCell, serving.method, serving.path)
  BY DEF CallApplication, AsksApplication, Matches, Asked
<1>4. /\ table.count \in Nat /\ Len(table.cells) \in Nat /\ Here \in Nat
      /\ Here <= Len(table.cells) /\ Here <= table.count
  BY <1>3 DEF Reading, AtEnd, Here, Table, Serving
<1>5. /\ table'.count \in Nat /\ table'.count >= table.count
      /\ \A j \in 1..Here : table'.cells[j] = table.cells[j]
  <2>1. CASE UNCHANGED table
    BY <1>4, <2>1
  <2>2. CASE \E u \in NextUnused(table) :
               ~Lost(table, u) /\ Valid(u) /\ table' = [u EXCEPT !.cells[u.count] = General[@]]
    <3>1. PICK u \in NextUnused(table) :
            Valid(u) /\ table' = [u EXCEPT !.cells[u.count] = General[@]]
      BY <2>2
    <3>2. /\ u \in Table /\ u.count = table.count + 1
          /\ \A j \in 1..Len(table.cells) : u.cells # <<>> => u.cells[j] = table.cells[j]
      BY Growth
    <3>3. u.count \in 1..Len(u.cells) /\ u.cells[u.count] \in Cell /\ u.cells # <<>>
      BY <3>1, <3>2, <1>4 DEF Table, Valid
    <3>4. /\ table' = [u EXCEPT !.cells[u.count] = General[u.cells[u.count]]]
          /\ General[u.cells[u.count]] \in Cell
      BY <3>1, <3>2, <3>3, CellTypes DEF Table
    <3>5. /\ table'.count = u.count
          /\ \A j \in 1..Len(u.cells) : j # u.count => table'.cells[j] = u.cells[j]
      BY <3>2, <3>3, <3>4, Taken
    <3>6. ASSUME NEW j \in 1..Here PROVE table'.cells[j] = table.cells[j]
      <4>1. Len(u.cells) \in Nat /\ u.count <= Len(u.cells)
        BY <3>2, <3>3 DEF Table
      <4>2. j \in 1..Len(u.cells) /\ j # u.count /\ j \in 1..Len(table.cells)
        BY <1>4, <3>2, <4>1
      <4> QED BY <3>2, <3>3, <3>5, <4>2
    <3> QED BY <1>4, <3>2, <3>5, <3>6
  <2> QED BY <2>1, <2>2 DEF CallApplication
<1> QED BY <1>2, <1>3, <1>5, OrderStep DEF Served

LEMMA OrderNext ==
  ASSUME TypeInv, OrderInv, [Next]_vars
  PROVE  /\ OrderInv'
         /\ serving.outcome = "pending" /\ serving' # serving /\ ~crashed' => Served
<1> USE DEF TypeInv, TypeOK
<1>1. ASSUME NEW m \in Methods, NEW p \in Paths \union {NoPath}, Request(m, p)
      PROVE  OrderInv' /\ serving.outcome # "pending"
  <2>1. serving' = [method |-> m, path |-> p, i |-> 0, block |-> table.block, called |-> <<>>,
                    outcome |-> IF p = NoPath THEN "no path" ELSE "pending"]
    BY <1>1 DEF Request, NoServing
  <2>2. table.count \in Nat /\ table' = table
    BY <1>1 DEF Request, Table
  <2>3. serving'.i = 0 /\ serving'.called = <<>>
    BY <2>1
  <2>4. InLine(<<>>, 0, table'.cells, serving'.method, serving'.path)
    BY DEF InLine, InOrder, Line
  <2> QED BY <1>1, <2>2, <2>3, <2>4 DEF Request, Outside, OrderInv
<1>2. CASE Skip
  <2>1. /\ serving'.i = Here /\ serving'.method = serving.method
        /\ serving'.path = serving.path /\ serving'.called = serving.called
        /\ serving'.outcome = "pending"
    BY <1>2 DEF Skip, Reading, Chain, Serving, Here
  <2>2. ~Asked(NextCell, serving.method, serving.path)
    <3>1. serving.method \in Methods
      BY DEF Serving
    <3> QED BY <1>2, <3>1 DEF Skip, AsksApplication, Matches, Serves, Asked, Methods
  <2>3. table.count \in Nat /\ table' = table /\ Reading
    BY <1>2 DEF Skip, Table
  <2> QED BY <2>1, <2>2, <2>3, OrderStep DEF Served
<1>3. CASE CallApplication
  BY <1>3, OrderReentrant
<1>4. ASSUME Static, NEW o \in Passed, Pass(o), table' = table
      PROVE  OrderInv' /\ Served
  <2>1. Asked(NextCell, serving.method, serving.path)
    BY <1>4 DEF Static, Serves, Asked
  <2> QED BY <1>4, <2>1, OrderPass DEF Static
<1>5. CASE FileMissing
  BY <1>4, <1>5 DEF FileMissing, Passed, Outcome
<1>6. CASE FileHead
  BY <1>4, <1>6 DEF FileHead, Passed, Outcome
<1>7. CASE FileUnreadable
  BY <1>4, <1>7 DEF FileUnreadable, Passed, Outcome
<1>8. CASE FileServed
  BY <1>4, <1>8 DEF FileServed, Passed, Outcome
<1>9. CASE NotFound
  <2>1. /\ serving'.outcome = "not found" /\ serving'.i = serving.i
        /\ serving'.called = serving.called
    BY <1>9 DEF NotFound, Serving
  <2>2. serving.i = table.count
    <3>1. serving.i \in Nat /\ table.count \in Nat
      BY DEF Serving, Table
    <3>2. serving.i >= table.count /\ serving.i <= table.count
      BY <1>9 DEF NotFound, AtEnd, Chain, OrderInv
    <3> QED BY <3>1, <3>2
  <2> QED BY <1>9, <2>1, <2>2 DEF NotFound, Chain, OrderInv, Served
<1>10. CASE Crash
  BY <1>10 DEF Crash, OrderInv
<1>11. ASSUME Outside, UNCHANGED serving
       PROVE  OrderInv' /\ serving' = serving
  BY <1>11 DEF Outside, OrderInv
<1>12. CASE UNCHANGED vars
  BY <1>12 DEF vars, OrderInv
<1> QED
  BY <1>1, <1>2, <1>3, <1>5, <1>6, <1>7, <1>8, <1>9, <1>10, <1>11, <1>12
  DEF Next, AddFunction, AddRouter, AddStatic, Register, Destroy, InitIface

\* The callbacks are tried in the order of their registration, each one that
\* wants the request once and no other, and 404 is sent only when all of them,
\* those registered meanwhile included, have passed it on.
THEOREM ChainStaysInOrder == Spec => ChainOrder
<1>1. Init => TypeInv /\ OrderInv
  <2>1. NoServing.outcome # "pending"
    BY DEF NoServing
  <2> QED BY <2>1, TypeInit DEF Init, OrderInv
<1>2. TypeInv /\ OrderInv /\ [Next]_vars => (TypeInv /\ OrderInv)'
  BY TypeNext, OrderNext
<1>3. TypeInv /\ OrderInv /\ [Next]_vars =>
        [serving.outcome = "pending" /\ serving' # serving /\ ~crashed' =>
           /\ {serving'.called[k] : k \in 1..Len(serving'.called)} = Wanting(serving'.i)
           /\ \A k \in 1..Len(serving'.called) : \A l \in 1..k - 1 :
                serving'.called[l] < serving'.called[k]
           /\ serving'.outcome = "not found" => serving'.i = table.count]_vars
  <2> SUFFICES ASSUME TypeInv, OrderInv, Next, serving.outcome = "pending",
                      serving' # serving, ~crashed'
               PROVE  /\ {serving'.called[k] : k \in 1..Len(serving'.called)}
                            = Wanting(serving'.i)
                      /\ \A k \in 1..Len(serving'.called) : \A l \in 1..k - 1 :
                           serving'.called[l] < serving'.called[k]
                      /\ serving'.outcome = "not found" => serving'.i = table.count
    OBVIOUS
  <2>1. Served
    BY OrderNext
  <2>2. Wanting(serving'.i) = Line(serving'.i, table.cells, serving.method, serving.path)
    BY WantsAsked DEF Wanting, Line
  <2> QED BY <2>1, <2>2 DEF Served, InLine, InOrder
<1> QED BY <1>1, <1>2, <1>3, PTL DEF Spec, ChainOrder
=============================================================================

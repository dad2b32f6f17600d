-------------------------- MODULE QueryJsonProofs ---------------------------
(***************************************************************************)
(* Theorems about QueryJson, for queries of any length and buffers of any  *)
(* size: what the loops of query_to_json may do wrong, that an object that *)
(* fits the caller's buffer stays inside it, and that a query which is     *)
(* well formed becomes the object that it spells.                          *)
(***************************************************************************)
EXTENDS QueryJson, LoopLemmas

-----------------------------------------------------------------------------
(***************************************************************************)
(* The bytes of a text, and its keys.                                      *)
(***************************************************************************)

\* What a byte, a character, or a cell of the value may be.
Marks == QueryBytes \union {"NUL", "junk", "o", "newline", "backslash", "n"}

\* The text ends with a NUL, and nowhere else.
LEMMA Bytes ==
  ASSUME NEW text \in Seq(QueryBytes), NEW i \in Nat
  PROVE  /\ ByteAt(text, i) \in QueryBytes \union {"NUL", "junk"}
         /\ ByteAt(text, i) \in Marks
         /\ i < Len(text) => ByteAt(text, i) = text[i + 1] /\ ByteAt(text, i) \in QueryBytes
         /\ ByteAt(text, i) = "NUL" <=> i = Len(text)
<1>1. Len(text) \in Nat
  OBVIOUS
<1>2. CASE i < Len(text)
  <2>1. ByteAt(text, i) = text[i + 1]
    BY <1>1, <1>2 DEF ByteAt
  <2>2. text[i + 1] \in QueryBytes
    BY <1>1, <1>2
  <2> QED BY <1>2, <2>1, <2>2 DEF QueryBytes, Marks
<1>3. CASE i = Len(text)
  BY <1>1, <1>3 DEF ByteAt, Marks
<1>4. CASE i > Len(text)
  BY <1>1, <1>4 DEF ByteAt, Marks
<1> QED BY <1>1, <1>2, <1>3, <1>4

KeyEnds(b) == b \in {"=", "&", "NUL"}

\* The key ends at the first byte that ends one, or when its buffer is full.
LEMMA KeyLengthFacts ==
  ASSUME NEW text, NEW i \in Nat
  PROVE  /\ KeyLength(text, i) \in 0..KeySize
         /\ \A k \in 0..KeyLength(text, i) - 1 : ~KeyEnds(ByteAt(text, i + k))
         /\ KeyLength(text, i) < KeySize => KeyEnds(ByteAt(text, i + KeyLength(text, i)))
<1> DEFINE E(k) == KeyEnds(ByteAt(text, i + k))
           Good(n) == (\A k \in 0..n - 1 : ~E(k)) /\ (n < KeySize => E(n))
           P == {n \in Nat : n = KeySize \/ E(n)}
<1>1. KeySize \in Nat
  BY QueryAssumption
<1>2. KeyLength(text, i) = CHOOSE n \in 0..KeySize : Good(n)
  BY Zenon DEF KeyLength, KeyEnds
<1> HIDE DEF E
<1>3. P \in SUBSET Nat /\ P # {}
  BY <1>1
<1>4. PICK m \in P : \A k \in P : m <= k
  <2> HIDE DEF P
  <2> QED BY <1>3, LeastOf
<1>5. m \in 0..KeySize /\ Good(m)
  <2>1. m \in Nat /\ m <= KeySize
    BY <1>1, <1>4
  <2>2. ASSUME NEW k \in 0..m - 1 PROVE ~E(k)
    <3>1. k \in Nat /\ ~(m <= k)
      BY <2>1
    <3> QED BY <1>4, <3>1
  <2> QED BY <1>4, <2>1, <2>2
<1> HIDE DEF Good
<1>6. KeyLength(text, i) \in 0..KeySize /\ Good(KeyLength(text, i))
  BY <1>2, <1>5, Zenon
<1> QED BY <1>6 DEF Good, E

KeyOfParts(key, has, next) == [key |-> key, hasValue |-> has, next |-> next]

\* The fields of what was read of a key.
LEMMA KeyForms ==
  ASSUME NEW k, NEW h, NEW n
  PROVE  KeyOfParts(k, h, n).key = k /\ KeyOfParts(k, h, n).hasValue = h /\ KeyOfParts(k, h, n).next = n
BY Zenon DEF KeyOfParts

\* A key takes a byte at least, and does not go beyond the text.
LEMMA KeyFacts ==
  ASSUME NEW text \in Seq(QueryBytes), NEW i \in Nat, i < Len(text)
  PROVE  /\ KeyAt(text, i).key \in Seq(Marks)
         /\ KeyAt(text, i).next \in i + 1..Len(text)
         /\ KeyAt(text, i).hasValue \in BOOLEAN
<1> DEFINE n == KeyLength(text, i)
           end == ByteAt(text, i + n)
           full == n = KeySize
           key == SubSeq(text, i + 1, i + (IF full THEN n - 1 ELSE n))
           next == IF full \/ end = "NUL" THEN i + n ELSE i + n + 1
           has == full \/ end = "="
<1>1. KeyAt(text, i) = KeyOfParts(key, has, next)
  BY Zenon DEF KeyAt, KeyOfParts
<1>2. /\ n \in 0..KeySize
      /\ \A k \in 0..n - 1 : ~KeyEnds(ByteAt(text, i + k))
      /\ n < KeySize => KeyEnds(end)
  BY KeyLengthFacts
<1> HIDE DEF n
<1>3. KeySize \in Nat \ {0} /\ Len(text) \in Nat /\ n \in Nat
  BY <1>2, QueryAssumption
<1>4. i + n <= Len(text)
  <2>1. SUFFICES ASSUME i + n > Len(text) PROVE FALSE
    BY <1>3
  <2>2. PICK k \in 0..n - 1 : i + k = Len(text)
    <3>1. Len(text) - i \in 0..n - 1 /\ i + (Len(text) - i) = Len(text)
      BY <1>3, <2>1
    <3> QED BY <3>1
  <2>3. ByteAt(text, i + k) = "NUL"
    BY <2>2, Bytes
  <2> QED BY <1>2, <2>3 DEF KeyEnds
<1>5. end = "NUL" <=> i + n = Len(text)
  BY <1>3, Bytes
<1>6. next \in i + 1..Len(text)
  <2>1. CASE full
    BY <1>3, <1>4, <2>1
  <2>2. CASE ~full /\ end = "NUL"
    BY <1>3, <1>5, <2>2
  <2>3. CASE ~full /\ end # "NUL"
    BY <1>3, <1>4, <1>5, <2>3
  <2> QED BY <2>1, <2>2, <2>3
<1>7. key \in Seq(Marks)
  <2> DEFINE m == i + (IF full THEN n - 1 ELSE n)
  <2>1. m \in Int /\ m <= Len(text)
    BY <1>3, <1>4
  <2>2. \A k \in 1..Len(text) : text[k] \in Marks
    <3>1. \A k \in 1..Len(text) : text[k] \in QueryBytes
      OBVIOUS
    <3> QED BY <3>1 DEF Marks
  <2> HIDE DEF m
  <2>3. \A k \in i + 1..m : text[k] \in Marks
    BY <1>3, <2>1, <2>2
  <2>4. text \in Seq(Marks)
    <3>1. text = [k \in 1..Len(text) |-> text[k]]
      OBVIOUS
    <3> QED BY <1>3, <2>2, <3>1, IsASeq
  <2> QED BY <2>1, <2>3, <2>4 DEF m
<1>8. has \in BOOLEAN
  BY Zenon
<1> HIDE DEF key, next, has
<1>9. KeyAt(text, i).key = key /\ KeyAt(text, i).next = next /\ KeyAt(text, i).hasValue = has
  <2>1. LET r == KeyOfParts(key, has, next) IN r.key = key /\ r.next = next /\ r.hasValue = has
    BY KeyForms
  <2> QED BY <1>1, <2>1, Zenon
<1> QED BY <1>6, <1>7, <1>8, <1>9

-----------------------------------------------------------------------------
(***************************************************************************)
(* A value.                                                                *)
(***************************************************************************)

Faults == {"none", "overread", "overrun", "unterminated"}

\* What QueryFaults says of a fault.
FaultSeen(text, fault) ==
  /\ fault = "overread" => Last(text) = "%"
  /\ fault = "unterminated" => Len(text) > 1 /\ text[Len(text) - 1] = "%"
  /\ fault = "overrun" =>
       \E i \in 1..Len(text) : text[i] \in {"'", "%"} /\ 2 * (i - 2) >= ValueSize - 1

ValueOf(cells, pos, next, number, decimal, fault, done) ==
  [cells |-> cells, pos |-> pos, next_char |-> next, number |-> number, decimal |-> decimal,
   fault |-> fault, done |-> done]

ValueState ==
  [cells : Seq(Marks), pos : Nat, next_char : Marks, number : BOOLEAN, decimal : BOOLEAN,
   fault : Faults, done : BOOLEAN]

\* The fields of what was read of a value.
LEMMA ValueForms ==
  ASSUME NEW cells, NEW pos, NEW next, NEW number, NEW decimal, NEW fault, NEW done
  PROVE  LET v == ValueOf(cells, pos, next, number, decimal, fault, done)
         IN  /\ v.cells = cells /\ v.pos = pos /\ v.next_char = next /\ v.number = number
             /\ v.decimal = decimal /\ v.fault = fault /\ v.done = done
             /\ (/\ cells \in Seq(Marks) /\ pos \in Nat /\ next \in Marks /\ number \in BOOLEAN
                 /\ decimal \in BOOLEAN /\ fault \in Faults /\ done \in BOOLEAN)
                => v \in ValueState
BY Zenon DEF ValueOf, ValueState

\* What they may be.
LEMMA ValueFields ==
  ASSUME NEW v \in ValueState
  PROVE  /\ v.cells \in Seq(Marks) /\ v.pos \in Nat /\ v.next_char \in Marks
         /\ v.number \in BOOLEAN /\ v.decimal \in BOOLEAN
         /\ v.fault \in Faults /\ v.done \in BOOLEAN
BY Zenon DEF ValueState

\* The value that begins at place i of the text, as far as it was read: each
\* byte of it has filled a cell or two.
Reading(text, i, v) ==
  /\ i <= v.pos
  /\ ~v.done => /\ v.fault = "none"
                /\ Len(v.cells) <= 2 * (v.pos - i)
  /\ v.fault = "none" => v.pos <= Len(text)
  /\ v.fault = "none" /\ v.done => \E j \in 1..Len(v.cells) : v.cells[j] = "NUL"
  /\ FaultSeen(text, v.fault)

Values(text, i) == {v \in ValueState : Reading(text, i, v)}

\* A character fills a cell, or two.
LEMMA WrittenFacts ==
  ASSUME NEW c \in Marks
  PROVE  /\ Written(c) \in Seq(Marks) /\ Len(Written(c)) \in {1, 2}
         /\ Len(Written(c)) = 2 => c \in {"'", "newline"}
         /\ Written("NUL") = <<"NUL">>
<1>1. {"backslash", "'", "n", "NUL"} \subseteq Marks
  BY DEF Marks, QueryBytes
<1>2. CASE c = "'"
  BY <1>1, <1>2 DEF Written
<1>3. CASE c = "newline"
  BY <1>1, <1>3 DEF Written
<1>4. CASE c # "'" /\ c # "newline"
  BY <1>4 DEF Written
<1> QED BY <1>2, <1>3, <1>4

\* What a byte stands for.
CharAt(text, v) ==
  CASE ByteAt(text, v.pos) = "%" ->
         Scanned(ByteAt(text, v.pos + 1), ByteAt(text, v.pos + 2), v.next_char)
    [] ByteAt(text, v.pos) = "+" -> "o"
    [] OTHER                     -> ByteAt(text, v.pos)

\* What it may be: two cells come of a quote or of an escape.
LEMMA CharFacts ==
  ASSUME NEW text \in Seq(QueryBytes), NEW v \in ValueState
  PROVE  /\ CharAt(text, v) \in Marks
         /\ CharAt(text, v) \in {"'", "newline"} => ByteAt(text, v.pos) \in {"'", "%"}
         /\ ByteAt(text, v.pos) = "NUL" => CharAt(text, v) = "NUL"
<1> DEFINE b == ByteAt(text, v.pos)
           x == ByteAt(text, v.pos + 1)
           y == ByteAt(text, v.pos + 2)
           s == Scanned(x, y, v.next_char)
<1>1. b \in QueryBytes \union {"NUL", "junk"} /\ b \in Marks /\ v.next_char \in Marks
  BY Bytes, ValueFields
<1>2. s \in Marks
  <2> HIDE DEF x, y
  <2> QED BY <1>1 DEF Scanned, Marks
<1>3. CharAt(text, v) = CASE b = "%" -> s [] b = "+" -> "o" [] OTHER -> b
  BY DEF CharAt
<1> HIDE DEF b, s
<1>4. CharAt(text, v) = IF b = "%" THEN s ELSE IF b = "+" THEN "o" ELSE b
  BY <1>3
<1>5. b # "newline"
  BY <1>1 DEF QueryBytes
<1>6. "o" \in Marks
  BY DEF Marks
<1> QED BY <1>1, <1>2, <1>4, <1>5, <1>6 DEF b

\* The byte where the loop is when it has read a character.
PlaceOf(text, v) == IF ByteAt(text, v.pos) = "%" THEN v.pos + 2 ELSE v.pos

FaultOf(text, v) ==
  IF PlaceOf(text, v) > Len(text) THEN "overread"
  ELSE IF Len(v.cells \o Written(CharAt(text, v))) > ValueSize THEN "overrun"
  ELSE IF ByteAt(text, PlaceOf(text, v)) = "NUL" /\ CharAt(text, v) # "NUL" THEN "unterminated"
  ELSE "none"

\* A turn of the loop as a record.
LEMMA TurnForm ==
  ASSUME NEW text, NEW v \in ValueState
  PROVE  LET here  == ByteAt(text, PlaceOf(text, v))
             cells == v.cells \o Written(CharAt(text, v))
         IN  \E number, decimal, done \in BOOLEAN :
               /\ done <=> Ends(here) \/ FaultOf(text, v) # "none"
               /\ ValueByte(text, v) =
                    ValueOf(IF here = "&" THEN Append(Front(cells), "NUL") ELSE cells,
                            IF Ends(here) /\ here # "&" THEN PlaceOf(text, v) ELSE PlaceOf(text, v) + 1,
                            CharAt(text, v), number, decimal, FaultOf(text, v), done)
<1> DEFINE here  == ByteAt(text, PlaceOf(text, v))
           cells == v.cells \o Written(CharAt(text, v))
           number == v.number /\ (Ends(here) \/ NumberGoesOn(Last(cells), cells, v.decimal))
           decimal == v.decimal \/ (v.number /\ ~Ends(here) /\ Last(cells) = ".")
           done == Ends(here) \/ FaultOf(text, v) # "none"
<1>1. ValueByte(text, v) =
        ValueOf(IF here = "&" THEN Append(Front(cells), "NUL") ELSE cells,
                IF Ends(here) /\ here # "&" THEN PlaceOf(text, v) ELSE PlaceOf(text, v) + 1,
                CharAt(text, v), number, decimal, FaultOf(text, v), done)
  BY Zenon DEF ValueByte, ValueOf, CharAt, PlaceOf, FaultOf
<1>2. number \in BOOLEAN /\ decimal \in BOOLEAN /\ done \in BOOLEAN
  <2>1. v.number \in BOOLEAN /\ v.decimal \in BOOLEAN
    BY ValueFields
  <2> QED BY <2>1, Zenon
<1>3. done <=> Ends(here) \/ FaultOf(text, v) # "none"
  OBVIOUS
<1> HIDE DEF number, decimal, done, here, cells
<1>4. \E n, d, e \in BOOLEAN :
        /\ e <=> Ends(here) \/ FaultOf(text, v) # "none"
        /\ ValueByte(text, v) =
             ValueOf(IF here = "&" THEN Append(Front(cells), "NUL") ELSE cells,
                     IF Ends(here) /\ here # "&" THEN PlaceOf(text, v) ELSE PlaceOf(text, v) + 1,
                     CharAt(text, v), n, d, FaultOf(text, v), e)
  BY <1>1, <1>2, <1>3, Zenon
<1> QED BY <1>4 DEF here, cells

\* A turn reads on, fills one cell or two, and does wrong only what FaultSeen
\* says.
LEMMA TurnReads ==
  ASSUME NEW text \in Seq(QueryBytes), NEW i \in Nat, 1 <= i, i <= Len(text),
         NEW v \in Values(text, i), ~v.done, Len(v.cells) < ValueSize
  PROVE  /\ ValueByte(text, v) \in Values(text, i)
         /\ ~ValueByte(text, v).done => Len(ValueByte(text, v).cells) > Len(v.cells)
<1> DEFINE at == PlaceOf(text, v)
           here == ByteAt(text, at)
           char == CharAt(text, v)
           cells == v.cells \o Written(char)
           fault == FaultOf(text, v)
           kept == IF here = "&" THEN Append(Front(cells), "NUL") ELSE cells
           pos == IF Ends(here) /\ here # "&" THEN at ELSE at + 1
           w == ValueByte(text, v)
<1>1. PICK number, decimal, done \in BOOLEAN :
        /\ done <=> Ends(here) \/ fault # "none"
        /\ w = ValueOf(kept, pos, char, number, decimal, fault, done)
  BY TurnForm DEF Values
<1>2. /\ v \in ValueState /\ i <= v.pos /\ v.fault = "none" /\ Len(v.cells) <= 2 * (v.pos - i)
      /\ v.pos <= Len(text)
  BY DEF Values, Reading
<1>3. v.cells \in Seq(Marks) /\ v.pos \in Nat /\ Len(text) \in Nat /\ ValueSize \in Nat
  BY <1>2, ValueFields, QueryAssumption
<1>4. /\ char \in Marks
      /\ char \in {"'", "newline"} => ByteAt(text, v.pos) \in {"'", "%"}
      /\ ByteAt(text, v.pos) = "NUL" => char = "NUL"
  BY <1>2, CharFacts
<1>5. /\ Written(char) \in Seq(Marks) /\ Len(Written(char)) \in {1, 2}
      /\ Len(Written(char)) = 2 => char \in {"'", "newline"}
  BY <1>4, WrittenFacts
<1>6. cells \in Seq(Marks) /\ Len(cells) = Len(v.cells) + Len(Written(char))
  BY <1>3, <1>5, ConcatProperties
<1>7. at \in Nat /\ at \in {v.pos, v.pos + 2} /\ (at = v.pos + 2 <=> ByteAt(text, v.pos) = "%")
  BY <1>3 DEF PlaceOf
<1>8. here = "NUL" <=> at = Len(text)
  BY <1>7, Bytes
<1>9. fault = IF at > Len(text) THEN "overread" ELSE
              IF Len(cells) > ValueSize THEN "overrun" ELSE
              IF here = "NUL" /\ char # "NUL" THEN "unterminated" ELSE "none"
  BY Zenon DEF FaultOf
<1> HIDE DEF at, here, char, cells, fault, w
<1>10. /\ w.cells = kept /\ w.pos = pos /\ w.fault = fault /\ w.done = done
       /\ (/\ kept \in Seq(Marks) /\ pos \in Nat /\ fault \in Faults) => w \in ValueState
  <2> HIDE DEF kept, pos
  <2>1. LET r == ValueOf(kept, pos, char, number, decimal, fault, done)
        IN  /\ r.cells = kept /\ r.pos = pos /\ r.next_char = char /\ r.number = number
            /\ r.decimal = decimal /\ r.fault = fault /\ r.done = done
            /\ (/\ kept \in Seq(Marks) /\ pos \in Nat /\ char \in Marks /\ number \in BOOLEAN
                /\ decimal \in BOOLEAN /\ fault \in Faults /\ done \in BOOLEAN)
               => r \in ValueState
    BY ValueForms
  <2> QED BY <1>1, <1>4, <2>1, Zenon
<1>11. fault \in Faults
  BY <1>9 DEF Faults
<1>12. pos \in Nat /\ i <= pos
  BY <1>2, <1>3, <1>7
<1>13. /\ kept \in Seq(Marks)
       /\ here = "&" => kept[Len(kept)] = "NUL" /\ Len(kept) \in 1..Len(kept)
       /\ here # "&" => kept = cells
  <2>1. "NUL" \in Marks
    BY DEF Marks
  <2>2. Len(cells) >= 1 /\ Len(cells) \in Nat
    <3>1. Len(v.cells) \in Nat /\ Len(cells) \in Nat
      BY <1>3, <1>6
    <3> DEFINE n == Len(Written(char)) m == Len(v.cells) k == Len(cells)
    <3>2. n \in {1, 2} /\ k = m + n
      BY <1>5, <1>6
    <3> HIDE DEF n, m, k
    <3>3. k >= 1
      BY <3>1, <3>2 DEF m, k
    <3> QED BY <3>1, <3>3 DEF k
  <2>3. SubSeq(cells, 1, Len(cells) - 1) \in Seq(Marks)
    BY <1>6, <2>2
  <2>4. Front(cells) \in Seq(Marks)
    BY <2>3 DEF Front
  <2> QED BY <1>6, <2>1, <2>4
<1>14. ~done => fault = "none" /\ here \notin {"&", "NUL"}
  BY <1>1 DEF Ends
<1>15. fault = "none" => at <= Len(text) /\ ~(here = "NUL" /\ char # "NUL")
  BY <1>3, <1>7, <1>9
<1>16. fault = "none" => pos <= Len(text)
  BY <1>3, <1>7, <1>8, <1>15 DEF Ends
<1>17. ~done => Len(kept) <= 2 * (pos - i) /\ Len(kept) > Len(v.cells)
  <2>1. SUFFICES ASSUME ~done PROVE Len(cells) <= 2 * ((at + 1) - i) /\ Len(cells) > Len(v.cells)
    BY <1>13, <1>14 DEF Ends
  <2> DEFINE n == Len(Written(char)) m == Len(v.cells) k == Len(cells) p == v.pos
  <2>2. m \in Nat /\ p \in Nat /\ m <= 2 * (p - i)
    BY <1>2, <1>3
  <2>3. n \in {1, 2} /\ k = m + n /\ at \in {p, p + 2}
    BY <1>5, <1>6, <1>7
  <2> HIDE DEF n, m, k, p, pos, kept
  <2>4. k <= 2 * ((at + 1) - i) /\ k > m
    BY <2>2, <2>3
  <2> QED BY <2>4 DEF k, m
<1>18. fault = "none" /\ done => \E j \in 1..Len(kept) : kept[j] = "NUL"
  <2>1. CASE here = "&"
    BY <1>13, <2>1
  <2>2. CASE here = "NUL" /\ fault = "none"
    <3>1. cells = v.cells \o <<"NUL">>
      BY <1>4, <1>15, <2>2, WrittenFacts DEF cells
    <3>2. Len(v.cells) + 1 \in 1..Len(cells) /\ cells[Len(v.cells) + 1] = "NUL"
      BY <1>3, <3>1
    <3> QED BY <1>13, <2>2, <3>2
  <2> QED BY <1>1, <2>1, <2>2 DEF Ends
<1>19. FaultSeen(text, fault)
  <2>1. ASSUME fault = "overread" PROVE Last(text) = "%"
    <3>1. v.pos + 1 = Len(text) /\ ByteAt(text, v.pos) = "%"
      <4>1. at > Len(text)
        BY <1>9, <2>1
      <4>2. v.pos # Len(text)
        BY <1>3, <1>7, <4>1, Bytes
      <4> QED BY <1>2, <1>3, <1>7, <4>1, <4>2
    <3>2. text[v.pos + 1] = "%"
      BY <1>3, <3>1, Bytes
    <3> QED BY <3>1, <3>2 DEF Last
  <2>2. ASSUME fault = "unterminated" PROVE Len(text) > 1 /\ text[Len(text) - 1] = "%"
    <3>1. at = Len(text) /\ char # "NUL"
      BY <1>8, <1>9, <2>2
    <3>2. at = v.pos + 2 /\ ByteAt(text, v.pos) = "%"
      BY <1>4, <1>7, <1>8, <3>1, Bytes, <1>3
    <3>3. text[v.pos + 1] = "%"
      <4>1. v.pos < Len(text)
        BY <1>3, <3>1, <3>2
      <4>2. ByteAt(text, v.pos) = text[v.pos + 1]
        BY <1>3, <4>1, Bytes
      <4> QED BY <3>2, <4>2
    <3> QED BY <1>3, <3>1, <3>2, <3>3
  <2>3. ASSUME fault = "overrun"
        PROVE  \E k \in 1..Len(text) : text[k] \in {"'", "%"} /\ 2 * (k - 2) >= ValueSize - 1
    <3>1. Len(cells) > ValueSize /\ at <= Len(text)
      BY <1>3, <1>7, <1>9, <2>3
    <3>2. Len(v.cells) = ValueSize - 1 /\ Len(Written(char)) = 2
      <4> DEFINE n == Len(Written(char)) m == Len(v.cells) k == Len(cells)
      <4>1. m \in Nat /\ m < ValueSize /\ n \in {1, 2} /\ k = m + n /\ k > ValueSize
        BY <1>3, <1>5, <1>6, <3>1
      <4> HIDE DEF n, m, k
      <4>2. m = ValueSize - 1 /\ n = 2
        BY <1>3, <4>1
      <4> QED BY <4>2 DEF m, n
    <3>3. ByteAt(text, v.pos) \in {"'", "%"}
      BY <1>4, <1>5, <3>2
    <3>4. v.pos < Len(text)
      <4>1. ByteAt(text, v.pos) # "NUL"
        BY <3>3
      <4> QED BY <1>2, <1>3, <4>1, Bytes
    <3>5. v.pos + 1 \in 1..Len(text) /\ text[v.pos + 1] \in {"'", "%"}
      BY <1>3, <3>3, <3>4, Bytes
    <3>6. 2 * ((v.pos + 1) - 2) >= ValueSize - 1
      BY <1>2, <1>3, <3>2
    <3> QED BY <3>5, <3>6
  <2> QED BY <2>1, <2>2, <2>3 DEF FaultSeen
<1> HIDE DEF kept, pos
<1>20. /\ w \in ValueState /\ w.cells = kept /\ w.pos = pos /\ w.fault = fault /\ w.done = done
  BY <1>1, <1>10, <1>11, <1>12, <1>13
<1>21. Reading(text, i, w)
  BY <1>12, <1>14, <1>16, <1>17, <1>18, <1>19, <1>20 DEF Reading
<1> QED BY <1>17, <1>20, <1>21 DEF Values, w

\* A turn, unless the loop has ended.
Turn(text, v) == IF v.done \/ Len(v.cells) >= ValueSize THEN v ELSE ValueByte(text, v)

TurnStep(text, i) == [x \in Values(text, i) \X Nat |-> Turn(text, x[1])]

NoValue(i, next) == ValueOf(<<>>, i, next, TRUE, FALSE, "none", FALSE)

Turns(n) == [turn \in 1..n |-> turn]

\* The loop over a value, after some of its turns.
ValueAfter(text, i, next, turns) ==
  FoldLeft(LAMBDA v, turn : IF v.done \/ Len(v.cells) >= ValueSize THEN v ELSE ValueByte(text, v),
           NoValue(i, next), turns)

\* A turn leaves the value as Reading says, and fills a cell more.
LEMMA TurnKeeps ==
  ASSUME NEW text \in Seq(QueryBytes), NEW i \in Nat, 1 <= i, i <= Len(text),
         NEW v \in Values(text, i)
  PROVE  /\ Turn(text, v) \in Values(text, i)
         /\ \A n \in Nat : (~v.done => Len(v.cells) >= n \/ Len(v.cells) >= ValueSize) =>
              (~Turn(text, v).done => Len(Turn(text, v).cells) >= n + 1
                                      \/ Len(Turn(text, v).cells) >= ValueSize)
<1>1. v \in ValueState /\ v.done \in BOOLEAN /\ v.cells \in Seq(Marks) /\ ValueSize \in Nat
  BY ValueFields, QueryAssumption DEF Values
<1>2. Len(v.cells) \in Nat
  BY <1>1
<1>3. CASE v.done \/ Len(v.cells) >= ValueSize
  <2>1. Turn(text, v) = v
    BY <1>3 DEF Turn
  <2> QED BY <1>1, <1>2, <1>3, <2>1
<1>4. CASE ~v.done /\ ~(Len(v.cells) >= ValueSize)
  <2>1. Turn(text, v) = ValueByte(text, v)
    BY <1>4 DEF Turn
  <2>2. /\ ValueByte(text, v) \in Values(text, i)
        /\ ~ValueByte(text, v).done => Len(ValueByte(text, v).cells) > Len(v.cells)
    BY <1>1, <1>2, <1>4, TurnReads
  <2> DEFINE w == Turn(text, v)
  <2>3. w \in Values(text, i) /\ (~w.done => Len(w.cells) > Len(v.cells))
    BY <2>1, <2>2
  <2> HIDE DEF w
  <2>4. Len(w.cells) \in Nat
    <3>1. w.cells \in Seq(Marks)
      BY <2>3, ValueFields DEF Values
    <3> QED BY <3>1
  <2>5. ASSUME NEW n \in Nat, Len(v.cells) >= n \/ Len(v.cells) >= ValueSize, ~w.done
        PROVE  Len(w.cells) >= n + 1 \/ Len(w.cells) >= ValueSize
    BY <1>1, <1>2, <2>3, <2>4, <2>5
  <2> QED BY <1>4, <2>3, <2>5 DEF w
<1> QED BY <1>3, <1>4

\* Nothing is read of a value yet.
LEMMA NoValueRead ==
  ASSUME NEW text \in Seq(QueryBytes), NEW i \in Nat, i <= Len(text), NEW next \in Marks
  PROVE  /\ NoValue(i, next) \in Values(text, i)
         /\ NoValue(i, next).cells = <<>> /\ NoValue(i, next).pos = i
         /\ NoValue(i, next).fault = "none" /\ ~NoValue(i, next).done
<1> DEFINE none == <<>>
<1>1. none \in Seq(Marks) /\ Len(none) = 0 /\ "none" \in Faults /\ TRUE \in BOOLEAN /\ FALSE \in BOOLEAN
  BY DEF Faults
<1> HIDE DEF none
<1>2. LET v == ValueOf(none, i, next, TRUE, FALSE, "none", FALSE)
      IN  /\ v.cells = none /\ v.pos = i /\ v.next_char = next /\ v.number = TRUE
          /\ v.decimal = FALSE /\ v.fault = "none" /\ v.done = FALSE
          /\ (/\ none \in Seq(Marks) /\ i \in Nat /\ next \in Marks /\ TRUE \in BOOLEAN
              /\ FALSE \in BOOLEAN /\ "none" \in Faults /\ FALSE \in BOOLEAN)
             => v \in ValueState
  BY ValueForms
<1>3. NoValue(i, next) = ValueOf(none, i, next, TRUE, FALSE, "none", FALSE)
  BY DEF NoValue, none
<1>4. /\ NoValue(i, next).cells = none /\ NoValue(i, next).pos = i
      /\ NoValue(i, next).fault = "none" /\ NoValue(i, next).done = FALSE
      /\ NoValue(i, next) \in ValueState
  BY <1>1, <1>2, <1>3, Zenon
<1> DEFINE v == NoValue(i, next)
<1> HIDE DEF v
<1>5. Reading(text, i, v)
  <2>1. v.cells = none /\ v.pos = i /\ v.fault = "none" /\ v.done = FALSE
    BY <1>4 DEF v
  <2>2. Len(v.cells) <= 2 * (v.pos - i)
    BY <1>1, <2>1
  <2>3. FaultSeen(text, v.fault)
    BY <2>1 DEF FaultSeen
  <2> QED BY <2>1, <2>2, <2>3 DEF Reading
<1> QED BY <1>4, <1>5, Zenon DEF Values, v, none

\* The loop with a function for its body.
LEMMA ValueLooped ==
  ASSUME NEW text \in Seq(QueryBytes), NEW i \in Nat, 1 <= i, i <= Len(text),
         NEW next \in Marks, NEW turns \in Seq(Nat)
  PROVE  ValueAfter(text, i, next, turns) = Looped(TurnStep(text, i), NoValue(i, next), turns)
<1> DEFINE V == Values(text, i)
           start == NoValue(i, next)
           T(v) == Turn(text, v)
           step == TurnStep(text, i)
           Eq(I) == I = [d \in SUBSET DOMAIN turns |->
                           IF d = {} THEN start ELSE T(I[d \ {Max(d)}])]
           K == CHOOSE I : Eq(I)
<1>1. ValueAfter(text, i, next, turns) = K[DOMAIN turns]
  BY DEF ValueAfter, Turn, FoldLeft, MapThenFoldSet
<1>a. \A v \in V : T(v) \in V
  BY TurnKeeps
<1>b. step = [x \in V \X Nat |-> T(x[1])]
  BY DEF TurnStep
<1>c. start \in V
  BY NoValueRead
<1> HIDE DEF T, step, V, start
<1>2. Machine(V, Nat, step, start)
  BY <1>a, <1>b, <1>c DEF Machine
<1>3. DOMAIN turns = 1..Len(turns) /\ Len(turns) \in Nat /\ \A k \in 1..Len(turns) : turns[k] \in Nat
  BY LenProperties, ElementOfSeq
<1>4. PICK g \in [SUBSET DOMAIN turns -> V] : Solves(g, step, start, turns)
  BY <1>2, Solution DEF Machine
<1>5. Eq(g)
  <2>1. ASSUME NEW d \in SUBSET DOMAIN turns, d # {}
        PROVE  g[d] = T(g[d \ {Max(d)}])
    <3>1. g[d \ {Max(d)}] \in V /\ d \ {Max(d)} \in SUBSET DOMAIN turns
      OBVIOUS
    <3>2. Max(d) \in DOMAIN turns /\ turns[Max(d)] \in Nat
      BY <1>3, <2>1, MaxIn
    <3>3. g[d] = step[<<g[d \ {Max(d)}], turns[Max(d)]>>]
      BY <1>4, <2>1 DEF Solves
    <3> QED BY <1>b, <3>1, <3>2, <3>3
  <2> QED BY <1>4, <2>1 DEF Solves
<1>6. Eq(K)
  <2> HIDE DEF Eq
  <2> QED BY <1>5, Zenon
<1> HIDE DEF K
<1>7. K[{}] = start
  <2>1. {} \in SUBSET DOMAIN turns
    OBVIOUS
  <2> QED BY <1>6, <2>1
<1>8. ASSUME NEW k \in 1..Len(turns) PROVE K[1..k] = T(K[1..k - 1])
  <2>1. 1..k \in SUBSET DOMAIN turns /\ 1..k # {} /\ Max(1..k) = k /\ (1..k) \ {k} = 1..k - 1
    BY <1>3, UpTo
  <2>2. K[1..k] = T(K[(1..k) \ {Max(1..k)}])
    BY <1>6, <2>1
  <2> QED BY <2>1, <2>2
<1>9. Follows(K, V, step, start, turns, Len(turns))
  BY <1>b, <1>3, <1>7, <1>8 DEF Follows
<1>10. K[1..Len(turns)] = Looped(step, start, turns)
  BY <1>2, <1>9, FoldIsLooped
<1> QED BY <1>1, <1>3, <1>10 DEF step, start

\* The loop, turn by turn.
LEMMA ValueSteps ==
  ASSUME NEW text \in Seq(QueryBytes), NEW i \in Nat, 1 <= i, i <= Len(text), NEW next \in Marks
  PROVE  /\ ValueAfter(text, i, next, Turns(0)) = NoValue(i, next)
         /\ \A k \in Nat :
              /\ ValueAfter(text, i, next, Turns(k)) \in Values(text, i)
              /\ ValueAfter(text, i, next, Turns(k + 1))
                   = Turn(text, ValueAfter(text, i, next, Turns(k)))
<1> DEFINE V == Values(text, i)
           start == NoValue(i, next)
           step == TurnStep(text, i)
           After(k) == ValueAfter(text, i, next, Turns(k))
<1>1. \A v \in V : Turn(text, v) \in V
  BY TurnKeeps
<1>2. start \in V
  BY NoValueRead
<1>3. \A turns \in Seq(Nat) : ValueAfter(text, i, next, turns) = Looped(step, start, turns)
  BY ValueLooped
<1>4. \A v \in V, k \in Nat : step[<<v, k>>] = Turn(text, v)
  BY DEF TurnStep
<1>5. step \in [V \X Nat -> V]
  BY <1>1 DEF TurnStep
<1> HIDE DEF V, start, step
<1>6. Machine(V, Nat, step, start)
  BY <1>2, <1>5 DEF Machine
<1>7. /\ Looped(step, start, <<>>) = start
      /\ \A turns \in Seq(Nat) : Looped(step, start, turns) \in V
      /\ \A turns \in Seq(Nat), b \in Nat :
           Looped(step, start, Append(turns, b)) = step[<<Looped(step, start, turns), b>>]
  BY <1>6, LoopedFacts
<1>8. \A k \in Nat : Turns(k) \in Seq(Nat) /\ Turns(k + 1) = Append(Turns(k), k + 1)
  <2> TAKE k \in Nat
  <2>1. \A m \in Nat : /\ Turns(m) \in Seq(Nat) /\ Len(Turns(m)) = m
                       /\ \A j \in 1..m : Turns(m)[j] = j
    BY IsASeq DEF Turns
  <2> DEFINE more == Append(Turns(k), k + 1)
  <2>2. /\ more \in Seq(Nat) /\ Len(more) = k + 1
        /\ \A j \in 1..k : more[j] = j
        /\ more[k + 1] = k + 1
    <3> DEFINE t == Turns(k)
    <3>1. t \in Seq(Nat) /\ Len(t) = k /\ (\A j \in 1..k : t[j] = j) /\ k + 1 \in Nat
      BY <2>1
    <3> HIDE DEF t
    <3>2. /\ Append(t, k + 1) \in Seq(Nat) /\ Len(Append(t, k + 1)) = Len(t) + 1
          /\ \A j \in 1..Len(t) : Append(t, k + 1)[j] = t[j]
          /\ Append(t, k + 1)[Len(t) + 1] = k + 1
      BY <3>1, AppendProperties
    <3> QED BY <3>1, <3>2 DEF t
  <2> HIDE DEF more
  <2>3. \A j \in 1..k + 1 : more[j] = j
    BY <2>2
  <2>4. Turns(k + 1) \in Seq(Nat) /\ Len(Turns(k + 1)) = k + 1
        /\ \A j \in 1..k + 1 : Turns(k + 1)[j] = j
    BY <2>1
  <2>5. Turns(k + 1) = more
    BY <2>2, <2>3, <2>4, SeqEqual
  <2> QED BY <2>1, <2>5 DEF more
<1>9. Turns(0) = <<>>
  BY DEF Turns
<1> DEFINE none == <<>>
<1>10. After(0) = start
  <2>1. <<>> \in Seq(Nat)
    OBVIOUS
  <2> QED BY <1>3, <1>7, <1>9, <2>1
<1>11. \A k \in Nat : After(k) \in V /\ After(k + 1) = Turn(text, After(k))
  <2> TAKE k \in Nat
  <2>1. After(k) = Looped(step, start, Turns(k)) /\ After(k) \in V
    BY <1>3, <1>7, <1>8
  <2>2. k + 1 \in Nat /\ Turns(k) \in Seq(Nat) /\ Turns(k + 1) \in Seq(Nat)
        /\ Turns(k + 1) = Append(Turns(k), k + 1)
    <3>1. k + 1 \in Nat
      OBVIOUS
    <3>2. Turns(k) \in Seq(Nat) /\ Turns(k + 1) = Append(Turns(k), k + 1)
      BY <1>8, Zenon
    <3>3. Turns(k + 1) \in Seq(Nat)
      BY <1>8, <3>1, Zenon
    <3> QED BY <3>1, <3>2, <3>3
  <2>3. After(k + 1) = Looped(step, start, Turns(k + 1))
    BY <1>3, <2>2
  <2> HIDE DEF After
  <2>4. Looped(step, start, Append(Turns(k), k + 1)) = step[<<Looped(step, start, Turns(k)), k + 1>>]
    BY <1>7, <2>2
  <2>5. step[<<After(k), k + 1>>] = Turn(text, After(k))
    BY <1>4, <2>1, <2>2
  <2> QED BY <2>1, <2>2, <2>3, <2>4, <2>5
<1> QED BY <1>10, <1>11 DEF After, start, V

\* As many turns as the buffer has cells are enough to fill it.
Filled(v, n) == ~v.done => Len(v.cells) >= n \/ Len(v.cells) >= ValueSize

\* After n turns the loop has ended, or filled n cells.
LEMMA ValueTurns ==
  ASSUME NEW text \in Seq(QueryBytes), NEW i \in Nat, 1 <= i, i <= Len(text), NEW next \in Marks,
         NEW n \in Nat
  PROVE  /\ ValueAfter(text, i, next, Turns(n)) \in Values(text, i)
         /\ Filled(ValueAfter(text, i, next, Turns(n)), n)
<1> DEFINE V == Values(text, i)
           start == NoValue(i, next)
           After(k) == ValueAfter(text, i, next, Turns(k))
           Good(k) == After(k) \in V /\ Filled(After(k), k)
           P == {k \in Nat : Good(k)}
<1>1. \A v \in V : Turn(text, v) \in V /\ \A k \in Nat : Filled(v, k) => Filled(Turn(text, v), k + 1)
  BY TurnKeeps DEF Filled
<1>2. start \in V /\ start.cells = <<>>
  BY NoValueRead
<1>3. After(0) = start /\ \A k \in Nat : After(k) \in V /\ After(k + 1) = Turn(text, After(k))
  BY ValueSteps
<1> HIDE DEF V, start
<1> HIDE DEF After
<1>a. P \in SUBSET Nat /\ \A k \in Nat : k \in P <=> Good(k)
  <2> HIDE DEF Good
  <2> QED OBVIOUS
<1> HIDE DEF P
<1>12. Good(0)
  <2>1. Len(start.cells) >= 0
    BY <1>2
  <2> QED BY <1>2, <1>3, <2>1 DEF Filled
<1>13. ASSUME NEW k \in Nat, Good(k) PROVE Good(k + 1)
  BY <1>1, <1>3, <1>13
<1> HIDE DEF Good
<1>14. P = Nat
  BY <1>a, <1>12, <1>13, Induction
<1> QED BY <1>a, <1>14 DEF Good, After, V

\* What was read of a value.
LEMMA ValueFacts ==
  ASSUME NEW text \in Seq(QueryBytes), NEW i \in Nat, 1 <= i, i <= Len(text), NEW next \in Marks
  PROVE  LET v == ValueAt(text, i, next)
         IN  /\ v \in Values(text, i) /\ v.pos \in Nat /\ v.pos >= i
             /\ v.next_char \in Marks /\ v.fault \in Faults /\ FaultSeen(text, v.fault)
             /\ v.fault = "none" => v.pos <= Len(text) /\ Terminated(v.cells) \in Seq(Marks)
<1> DEFINE v == ValueAt(text, i, next)
<1>1. ValueSize \in Nat \ {0}
  BY QueryAssumption
<1>2. v = ValueAfter(text, i, next, Turns(ValueSize))
  BY Zenon DEF ValueAt, ValueAfter, NoValue, ValueOf, Turns
<1>3. v \in Values(text, i) /\ Filled(v, ValueSize)
  BY <1>1, <1>2, ValueTurns
<1> HIDE DEF v
<1>4. v.cells \in Seq(Marks) /\ v.pos \in Nat /\ v.next_char \in Marks /\ v.fault \in Faults
      /\ v.done \in BOOLEAN
  BY <1>3, ValueFields DEF Values
<1>5. /\ i <= v.pos
      /\ v.fault = "none" => v.pos <= Len(text)
      /\ v.fault = "none" /\ v.done => \E j \in 1..Len(v.cells) : v.cells[j] = "NUL"
      /\ FaultSeen(text, v.fault)
  BY <1>3 DEF Values, Reading
<1>6. ASSUME v.fault = "none" PROVE Terminated(v.cells) \in Seq(Marks)
  <2> DEFINE end == SelectInSeq(v.cells, LAMBDA c : c = "NUL")
             m == Len(v.cells)
             I == {j \in 1..m : v.cells[j] = "NUL"}
  <2>a. m \in Nat
    BY <1>4
  <2>b. end = IF I # {} THEN Min(I) ELSE 0
    BY DEF SelectInSeq
  <2> HIDE DEF end
  <2>1. m \in Nat /\ end \in 0..m /\ ((\E j \in 1..m : v.cells[j] = "NUL") => end > 0)
    <3>1. CASE I = {}
      BY <2>a, <2>b, <3>1
    <3>2. CASE I # {}
      <4>1. I \in SUBSET Nat /\ I \in SUBSET (1..m)
        BY <2>a
      <4> HIDE DEF I
      <4>2. \E j \in I : \A k \in I : j <= k
        BY <3>2, <4>1, LeastOf
      <4>3. Min(I) \in I
        BY <4>2, Zenon DEF Min
      <4>4. end = Min(I)
        BY <2>b, <3>2
      <4>5. end \in 1..m
        BY <4>1, <4>3, <4>4
      <4> QED BY <2>a, <4>5
    <3> QED BY <3>1, <3>2
  <2>2. CASE end > 0
    <3>1. Terminated(v.cells) = SubSeq(v.cells, 1, end - 1)
      BY <2>2 DEF Terminated, end
    <3>2. SubSeq(v.cells, 1, end - 1) \in Seq(Marks)
      BY <1>4, <2>1, <2>2
    <3> QED BY <3>1, <3>2
  <2>3. CASE ~(end > 0)
    <3>1. Terminated(v.cells) = SubSeq(v.cells, 1, ValueSize - 1)
      BY <2>3 DEF Terminated, end
    <3>2. m >= ValueSize
      BY <1>3, <1>4, <1>5, <1>6, <2>1, <2>3 DEF Filled
    <3>3. SubSeq(v.cells, 1, ValueSize - 1) \in Seq(Marks)
      BY <1>1, <1>4, <3>2
    <3> QED BY <3>1, <3>3
  <2> QED BY <2>2, <2>3
<1> QED BY <1>3, <1>4, <1>5, <1>6 DEF v

-----------------------------------------------------------------------------
(***************************************************************************)
(* The object.                                                             *)
(***************************************************************************)

PairOfParts(key, value, quoted) == [key |-> key, value |-> value, quoted |-> quoted]

Pairs == [key : Seq(Marks), value : Seq(Marks), quoted : BOOLEAN]

\* A pair of its parts.
LEMMA PairForms ==
  ASSUME NEW key \in Seq(Marks), NEW value \in Seq(Marks), NEW quoted \in BOOLEAN
  PROVE  PairOfParts(key, value, quoted) \in Pairs
BY Zenon DEF PairOfParts, Pairs

\* A pair is six bytes long at least.
LEMMA PairLengthFacts ==
  ASSUME NEW pair \in Pairs
  PROVE  PairLength(pair) \in Nat /\ PairLength(pair) >= 6
<1>1. pair.key \in Seq(Marks) /\ pair.value \in Seq(Marks)
  BY DEF Pairs
<1>2. Len(pair.key) \in Nat /\ Len(pair.value) \in Nat
  BY <1>1
<1> DEFINE a == Len(pair.key) b == Len(pair.value)
<1>3. PairLength(pair) = a + b + (IF pair.quoted THEN 8 ELSE 6)
  BY DEF PairLength
<1> DEFINE e == IF pair.quoted THEN 8 ELSE 6
<1>4. e \in {6, 8}
  BY Zenon
<1>a. a \in Nat /\ b \in Nat
  BY <1>2
<1> HIDE DEF a, b, e
<1>5. a + b + e \in Nat /\ a + b + e >= 6
  BY <1>a, <1>4
<1> QED BY <1>3, <1>5 DEF e

Lengths(pairs) == [i \in 1..Len(pairs) |-> PairLength(pairs[i])]

Sum(pairs) == Total(0, Lengths(pairs))

\* The bytes of no pair, and of one pair more.
LEMMA SumFacts ==
  /\ Sum(<<>>) = 0
  /\ \A pairs \in Seq(Pairs) : Sum(pairs) \in Nat
  /\ \A pairs \in Seq(Pairs), pair \in Pairs :
       Sum(Append(pairs, pair)) = Sum(pairs) + PairLength(pair)
<1>1. \A pairs \in Seq(Pairs) : /\ Lengths(pairs) \in Seq(Nat) /\ Len(Lengths(pairs)) = Len(pairs)
                                /\ \A i \in 1..Len(pairs) : Lengths(pairs)[i] = PairLength(pairs[i])
  <2> TAKE pairs \in Seq(Pairs)
  <2>1. Len(pairs) \in Nat /\ \A i \in 1..Len(pairs) : pairs[i] \in Pairs
    BY LenProperties, ElementOfSeq
  <2>2. \A i \in 1..Len(pairs) : PairLength(pairs[i]) \in Nat
    BY <2>1, PairLengthFacts
  <2> QED BY <2>1, <2>2, IsASeq DEF Lengths
<1>2. Lengths(<<>>) = <<>>
  BY DEF Lengths
<1>3. ASSUME NEW pairs \in Seq(Pairs), NEW pair \in Pairs
      PROVE  Lengths(Append(pairs, pair)) = Append(Lengths(pairs), PairLength(pair))
  <2> DEFINE s == Lengths(pairs)
             n == Len(pairs)
             k == PairLength(pair)
             more == Append(pairs, pair)
             t == Lengths(more)
             u == Append(s, k)
  <2>1. k \in Nat /\ n \in Nat
    BY PairLengthFacts, LenProperties
  <2>2. s \in Seq(Nat) /\ Len(s) = n /\ \A i \in 1..n : s[i] = PairLength(pairs[i])
    BY <1>1
  <2>3. more \in Seq(Pairs) /\ Len(more) = n + 1 /\ (\A i \in 1..n : more[i] = pairs[i])
        /\ more[n + 1] = pair
    BY AppendProperties
  <2> HIDE DEF more
  <2>4. t \in Seq(Nat) /\ Len(t) = n + 1 /\ \A i \in 1..n + 1 : t[i] = PairLength(more[i])
    BY <1>1, <2>3
  <2> HIDE DEF s, n, k, t
  <2>5. u \in Seq(Nat) /\ Len(u) = n + 1 /\ (\A i \in 1..n : u[i] = s[i]) /\ u[n + 1] = k
    <3>1. u \in Seq(Nat) /\ Len(u) = Len(s) + 1 /\ (\A i \in 1..Len(s) : u[i] = s[i])
          /\ u[Len(s) + 1] = k
      BY <2>1, <2>2, AppendProperties
    <3> QED BY <2>2, <3>1
  <2> HIDE DEF u
  <2>6. \A i \in 1..n + 1 : t[i] = u[i]
    <3> TAKE i \in 1..n + 1
    <3>1. CASE i \in 1..n
      BY <2>2, <2>3, <2>4, <2>5, <3>1
    <3>2. CASE i = n + 1
      BY <2>3, <2>4, <2>5, <3>2 DEF k
    <3> QED BY <2>1, <3>1, <3>2
  <2>7. t = u
    BY <2>4, <2>5, <2>6, SeqEqual
  <2> QED BY <2>7 DEF t, u, s, k, more
<1>4. /\ Total(0, <<>>) = 0
      /\ \A s \in Seq(Nat) : Total(0, s) \in Nat
      /\ \A s \in Seq(Nat), n \in Nat : Total(0, Append(s, n)) = Total(0, s) + n
  BY TotalFacts
<1>5. Sum(<<>>) = 0
  BY <1>2, <1>4 DEF Sum
<1>6. \A pairs \in Seq(Pairs) : Sum(pairs) \in Nat
  BY <1>1, <1>4 DEF Sum
<1>7. ASSUME NEW pairs \in Seq(Pairs), NEW pair \in Pairs
      PROVE  Sum(Append(pairs, pair)) = Sum(pairs) + PairLength(pair)
  <2>1. Lengths(pairs) \in Seq(Nat) /\ PairLength(pair) \in Nat
    BY <1>1, PairLengthFacts
  <2> QED BY <1>3, <1>4, <2>1 DEF Sum
<1> QED BY <1>5, <1>6, <1>7

QueryOf(pos, pairs, next, written, spilled, fault, done) ==
  [pos |-> pos, pairs |-> pairs, next_char |-> next, written |-> written,
   spilled |-> spilled, fault |-> fault, done |-> done]

QueryState ==
  [pos : Nat, pairs : Seq(Pairs), next_char : Marks, written : Nat,
   spilled : BOOLEAN, fault : Faults, done : BOOLEAN]

\* The fields of a query.
LEMMA QueryForms ==
  ASSUME NEW pos, NEW pairs, NEW next, NEW written, NEW spilled, NEW fault, NEW done
  PROVE  LET q == QueryOf(pos, pairs, next, written, spilled, fault, done)
         IN  /\ q.pos = pos /\ q.pairs = pairs /\ q.next_char = next /\ q.written = written
             /\ q.spilled = spilled /\ q.fault = fault /\ q.done = done
             /\ (/\ pos \in Nat /\ pairs \in Seq(Pairs) /\ next \in Marks /\ written \in Nat
                 /\ spilled \in BOOLEAN /\ fault \in Faults /\ done \in BOOLEAN)
                => q \in QueryState
BY Zenon DEF QueryOf, QueryState

\* What they may be.
LEMMA QueryFields ==
  ASSUME NEW q \in QueryState
  PROVE  /\ q.pos \in Nat /\ q.pairs \in Seq(Pairs) /\ q.next_char \in Marks /\ q.written \in Nat
         /\ q.spilled \in BOOLEAN /\ q.fault \in Faults /\ q.done \in BOOLEAN
         /\ q = QueryOf(q.pos, q.pairs, q.next_char, q.written, q.spilled, q.fault, q.done)
<1>1. /\ q.pos \in Nat /\ q.pairs \in Seq(Pairs) /\ q.next_char \in Marks /\ q.written \in Nat
      /\ q.spilled \in BOOLEAN /\ q.fault \in Faults /\ q.done \in BOOLEAN
  BY Zenon DEF QueryState
<1>2. q = QueryOf(q.pos, q.pairs, q.next_char, q.written, q.spilled, q.fault, q.done)
  BY DEF QueryState, QueryOf
<1> QED BY <1>1, <1>2

\* The query with one or two of its fields changed.
LEMMA SetPos ==
  ASSUME NEW pos, NEW pairs, NEW next, NEW written, NEW spilled, NEW fault, NEW done, NEW x
  PROVE  [QueryOf(pos, pairs, next, written, spilled, fault, done) EXCEPT !.pos = x]
           = QueryOf(x, pairs, next, written, spilled, fault, done)
BY DEF QueryOf

\* The same for its pairs,
LEMMA SetPairs ==
  ASSUME NEW pos, NEW pairs, NEW next, NEW written, NEW spilled, NEW fault, NEW done, NEW x
  PROVE  [QueryOf(pos, pairs, next, written, spilled, fault, done) EXCEPT !.pairs = x]
           = QueryOf(pos, x, next, written, spilled, fault, done)
BY DEF QueryOf

\* for what was written,
LEMMA SetWritten ==
  ASSUME NEW pos, NEW pairs, NEW next, NEW written, NEW spilled, NEW fault, NEW done, NEW x
  PROVE  [QueryOf(pos, pairs, next, written, spilled, fault, done) EXCEPT !.written = x]
           = QueryOf(pos, pairs, next, x, spilled, fault, done)
BY DEF QueryOf

\* for its fault,
LEMMA SetFault ==
  ASSUME NEW pos, NEW pairs, NEW next, NEW written, NEW spilled, NEW fault, NEW done, NEW x
  PROVE  [QueryOf(pos, pairs, next, written, spilled, fault, done) EXCEPT !.fault = x]
           = QueryOf(pos, pairs, next, written, spilled, x, done)
BY DEF QueryOf

\* and for its end.
LEMMA SetDone ==
  ASSUME NEW pos, NEW pairs, NEW next, NEW written, NEW spilled, NEW fault, NEW done, NEW x
  PROVE  [QueryOf(pos, pairs, next, written, spilled, fault, done) EXCEPT !.done = x]
           = QueryOf(pos, pairs, next, written, spilled, fault, x)
BY DEF QueryOf

\* What is counted of the object, until the count wraps: its first byte and
\* its pairs.  What fits the buffer is inside it.
Counted(pairs, written, spilled) ==
  /\ 1 + Sum(pairs) < SizeSpan => written = 1 + Sum(pairs)
  /\ Sum(pairs) < JsonSize => ~spilled
  /\ pairs # <<>> => Sum(pairs) >= 6

Stored(size, written, n) ==
  IF n + 1 < Room(size, written) THEN n + 1 ELSE Room(size, written)

\* A piece is stored inside the buffer where there is room for any of it.
LEMMA StoredFacts ==
  ASSUME NEW written \in Nat, written <= JsonSize, NEW n \in Nat
  PROVE  ~(written + Stored(JsonSize, written, n) > JsonSize)
<1>1. JsonSize \in Nat /\ SizeSpan \in Nat \ {0} /\ JsonSize < SizeSpan
  BY QueryAssumption, SizeAssumption
<1> DEFINE room == JsonSize - written
<1>2. room \in Nat /\ room < SizeSpan
  BY <1>1
<1>3. room % SizeSpan = room
  <2> HIDE DEF room
  <2> QED BY <1>1, <1>2
<1>4. Room(JsonSize, written) = room
  BY <1>3 DEF Room
<1>5. Stored(JsonSize, written, n) <= room
  <2> HIDE DEF room
  <2> QED BY <1>2, <1>4 DEF Stored
<1>6. Stored(JsonSize, written, n) \in Int
  <2> HIDE DEF room
  <2> QED BY <1>2, <1>4 DEF Stored
<1> QED BY <1>1, <1>5, <1>6

\* A piece, printed for a query.
LEMMA SnprintfQuery ==
  ASSUME NEW pos, NEW pairs, NEW next, NEW written, NEW spilled, NEW fault, NEW done, NEW n
  PROVE  Snprintf(QueryOf(pos, pairs, next, written, spilled, fault, done), JsonSize, n)
           = QueryOf(pos, pairs, next, (written + n) % SizeSpan,
                     spilled \/ written + Stored(JsonSize, written, n) > JsonSize, fault, done)
<1> DEFINE q == QueryOf(pos, pairs, next, written, spilled, fault, done)
           x == (written + n) % SizeSpan
           y == spilled \/ written + Stored(JsonSize, written, n) > JsonSize
<1>1. q.written = written /\ q.spilled = spilled
  BY Zenon DEF QueryOf
<1> HIDE DEF q
<1>2. Snprintf(q, JsonSize, n) = [q EXCEPT !.written = (q.written + n) % SizeSpan,
                !.spilled = q.spilled \/ q.written + Stored(JsonSize, q.written, n) > JsonSize]
  BY Zenon DEF Snprintf, Stored
<1>3. Snprintf(q, JsonSize, n) = [q EXCEPT !.written = x, !.spilled = y]
  BY <1>1, <1>2, Zenon
<1> HIDE DEF x, y
<1>4. [q EXCEPT !.written = x, !.spilled = y] = QueryOf(pos, pairs, next, x, y, fault, done)
  <2>1. [QueryOf(pos, pairs, next, written, spilled, fault, done) EXCEPT !.written = x, !.spilled = y]
          = QueryOf(pos, pairs, next, x, y, fault, done)
    <3> DEFINE p == QueryOf(pos, pairs, next, written, spilled, fault, done)
               r == QueryOf(pos, pairs, next, x, spilled, fault, done)
    <3>1. [p EXCEPT !.written = x] = r
      BY SetWritten
    <3>2. [p EXCEPT !.written = x, !.spilled = y] = [r EXCEPT !.spilled = y]
      BY <3>1
    <3>3. [r EXCEPT !.spilled = y] = QueryOf(pos, pairs, next, x, y, fault, done)
      BY DEF QueryOf
    <3> QED BY <3>2, <3>3
  <2> QED BY <2>1, Zenon DEF q
<1> QED BY <1>3, <1>4 DEF q, x, y

\* One pair more.
LEMMA WritePairFacts ==
  ASSUME NEW q \in QueryState, Counted(q.pairs, q.written, q.spilled), NEW pair \in Pairs
  PROVE  \E written \in Nat, spilled \in BOOLEAN :
           /\ Counted(Append(q.pairs, pair), written, spilled)
           /\ WritePair(q, pair) = QueryOf(q.pos, Append(q.pairs, pair), q.next_char,
                                           written, spilled, q.fault, q.done)
<1> DEFINE n == PairLength(pair)
           sum == Sum(q.pairs)
           w == q.written
           s == q.spilled
           more == Append(q.pairs, pair)
           x == (w + n) % SizeSpan
           y == s \/ w + Stored(JsonSize, w, n) > JsonSize
<1>1. /\ q.pairs \in Seq(Pairs) /\ w \in Nat /\ s \in BOOLEAN
      /\ q = QueryOf(q.pos, q.pairs, q.next_char, w, s, q.fault, q.done)
  BY QueryFields
<1>2. WritePair(q, pair) = QueryOf(q.pos, more, q.next_char, x, y, q.fault, q.done)
  <2> DEFINE r == QueryOf(q.pos, more, q.next_char, w, s, q.fault, q.done)
  <2>1. WritePair(q, pair) = Snprintf([q EXCEPT !.pairs = more], JsonSize, n)
    BY Zenon DEF WritePair
  <2>2. [q EXCEPT !.pairs = more] = r
    <3> HIDE DEF more, w, s
    <3>1. [QueryOf(q.pos, q.pairs, q.next_char, w, s, q.fault, q.done) EXCEPT !.pairs = more] = r
      BY SetPairs
    <3> QED BY <1>1, <3>1, Zenon
  <2>3. Snprintf(r, JsonSize, n) = QueryOf(q.pos, more, q.next_char, x, y, q.fault, q.done)
    <3> HIDE DEF more, w, s, n
    <3> QED BY SnprintfQuery
  <2> QED BY <2>1, <2>2, <2>3, Zenon
<1>3. n \in Nat /\ n >= 6 /\ sum \in Nat /\ Sum(more) = sum + n
  BY <1>1, PairLengthFacts, SumFacts
<1>4. JsonSize \in Nat /\ SizeSpan \in Nat \ {0} /\ JsonSize < SizeSpan
  BY QueryAssumption, SizeAssumption
<1>5. (1 + sum < SizeSpan => w = 1 + sum) /\ (sum < JsonSize => ~s)
  BY DEF Counted
<1> HIDE DEF n, sum, w, s, more
<1>6. x \in Nat /\ y \in BOOLEAN
  BY <1>1, <1>3, <1>4
<1>7. 1 + (sum + n) < SizeSpan => x = 1 + (sum + n)
  <2>1. SUFFICES ASSUME 1 + (sum + n) < SizeSpan PROVE x = 1 + (sum + n)
    OBVIOUS
  <2>2. w = 1 + sum /\ w + n = 1 + (sum + n)
    BY <1>3, <1>4, <1>5, <2>1
  <2>3. 1 + (sum + n) \in Nat
    BY <1>3
  <2> QED BY <1>4, <2>1, <2>2, <2>3
<1>8. sum + n < JsonSize => ~y
  <2>1. SUFFICES ASSUME sum + n < JsonSize PROVE ~y
    OBVIOUS
  <2>2. w = 1 + sum /\ ~s /\ w <= JsonSize
    BY <1>3, <1>4, <1>5, <2>1
  <2>3. ~(w + Stored(JsonSize, w, n) > JsonSize)
    BY <1>1, <1>3, <2>2, StoredFacts
  <2> QED BY <2>2, <2>3
<1> HIDE DEF x, y
<1>9. Counted(more, x, y)
  <2>1. Sum(more) >= 6
    BY <1>3
  <2> QED BY <1>3, <1>7, <1>8, <2>1 DEF Counted
<1> QED BY <1>2, <1>6, <1>9 DEF more

\* Where the loop over the text stands: after a fault nothing more is done.
Standing(text, pos, fault, done) ==
  /\ fault # "none" => done
  /\ fault = "none" => pos <= Len(text)
  /\ FaultSeen(text, fault)

Queries(text) ==
  {q \in QueryState : Standing(text, q.pos, q.fault, q.done)
                      /\ Counted(q.pairs, q.written, q.spilled)}

\* What stands and is counted as it should is one of Queries.
LEMMA QueryIn ==
  ASSUME NEW text, NEW pos \in Nat, NEW pairs \in Seq(Pairs), NEW next \in Marks,
         NEW written \in Nat, NEW spilled \in BOOLEAN, NEW fault \in Faults, NEW done \in BOOLEAN,
         Standing(text, pos, fault, done), Counted(pairs, written, spilled)
  PROVE  QueryOf(pos, pairs, next, written, spilled, fault, done) \in Queries(text)
<1> DEFINE q == QueryOf(pos, pairs, next, written, spilled, fault, done)
<1>1. LET r == QueryOf(pos, pairs, next, written, spilled, fault, done)
      IN  /\ r.pos = pos /\ r.pairs = pairs /\ r.next_char = next /\ r.written = written
          /\ r.spilled = spilled /\ r.fault = fault /\ r.done = done
          /\ (/\ pos \in Nat /\ pairs \in Seq(Pairs) /\ next \in Marks /\ written \in Nat
              /\ spilled \in BOOLEAN /\ fault \in Faults /\ done \in BOOLEAN)
             => r \in QueryState
  BY QueryForms
<1>2. /\ q.pos = pos /\ q.pairs = pairs /\ q.written = written
      /\ q.spilled = spilled /\ q.fault = fault /\ q.done = done /\ q \in QueryState
  BY <1>1, Zenon
<1> HIDE DEF q
<1>3. q \in Queries(text)
  BY <1>2, Zenon DEF Queries
<1> QED BY <1>3 DEF q

\* A pair, or the end of the text.
LEMMA PairFacts ==
  ASSUME NEW text \in Seq(QueryBytes), NEW q \in Queries(text),
         ~q.done, ByteAt(text, q.pos) # "NUL"
  PROVE  Pair(text, q) \in Queries(text)
<1>1. /\ q \in QueryState /\ Standing(text, q.pos, q.fault, q.done)
      /\ Counted(q.pairs, q.written, q.spilled)
  BY DEF Queries
<1>2. /\ q.pos \in Nat /\ q.pairs \in Seq(Pairs) /\ q.next_char \in Marks /\ q.written \in Nat
      /\ q.spilled \in BOOLEAN /\ q.fault \in Faults /\ q.done \in BOOLEAN
      /\ q = QueryOf(q.pos, q.pairs, q.next_char, q.written, q.spilled, q.fault, q.done)
  BY <1>1, QueryFields
<1>3. q.fault = "none" /\ q.pos < Len(text) /\ Len(text) \in Nat
  BY <1>1, <1>2, Bytes DEF Standing
<1> DEFINE k == KeyAt(text, q.pos)
           v == ValueAt(text, k.next, q.next_char)
           r == [q EXCEPT !.pos = v.pos, !.next_char = v.next_char]
<1>4. k.key \in Seq(Marks) /\ k.next \in q.pos + 1..Len(text) /\ k.hasValue \in BOOLEAN
  BY <1>2, <1>3, KeyFacts
<1>5. k.next \in Nat /\ k.next >= 1 /\ k.next <= Len(text)
  BY <1>2, <1>3, <1>4
<1> HIDE DEF k
<1>6. /\ v \in Values(text, k.next) /\ v.pos \in Nat /\ v.pos >= k.next
      /\ v.next_char \in Marks /\ v.fault \in Faults /\ FaultSeen(text, v.fault)
      /\ v.fault = "none" => v.pos <= Len(text) /\ Terminated(v.cells) \in Seq(Marks)
  BY <1>2, <1>5, ValueFacts
<1>7. v.number \in BOOLEAN
  BY <1>6, ValueFields DEF Values
<1> HIDE DEF v
<1>8. r = QueryOf(v.pos, q.pairs, v.next_char, q.written, q.spilled, q.fault, q.done)
  <2> DEFINE s == QueryOf(v.pos, q.pairs, q.next_char, q.written, q.spilled, q.fault, q.done)
  <2>1. [q EXCEPT !.pos = v.pos] = s
    BY <1>2, SetPos
  <2>2. r = [s EXCEPT !.next_char = v.next_char]
    <3> HIDE DEF s
    <3> QED BY <2>1
  <2>3. [s EXCEPT !.next_char = v.next_char]
          = QueryOf(v.pos, q.pairs, v.next_char, q.written, q.spilled, q.fault, q.done)
    BY DEF QueryOf
  <2> QED BY <2>2, <2>3
<1> HIDE DEF r
<1>9. Pair(text, q) =
        CASE ~k.hasValue ->
               [WritePair(q, PairOfParts(k.key, <<>>, TRUE)) EXCEPT !.pos = k.next]
          [] k.hasValue /\ ByteAt(text, k.next) = "NUL" -> [q EXCEPT !.done = TRUE]
          [] k.hasValue /\ ByteAt(text, k.next) # "NUL" /\ v.fault # "none" ->
               [r EXCEPT !.fault = v.fault, !.done = TRUE]
          [] OTHER -> WritePair(r, PairOfParts(k.key, Terminated(v.cells), ~v.number))
  BY Zenon DEF Pair, PairOfParts, k, v, r
<1>10. CASE ~k.hasValue
  <2> DEFINE pair == PairOfParts(k.key, <<>>, TRUE)
  <2>1. Pair(text, q) = [WritePair(q, pair) EXCEPT !.pos = k.next]
    BY <1>9, <1>10
  <2>2. pair \in Pairs
    <3> DEFINE none == <<>>
               t == TRUE
    <3>1. none \in Seq(Marks) /\ t \in BOOLEAN
      OBVIOUS
    <3> HIDE DEF none, t
    <3>2. PairOfParts(k.key, none, t) \in Pairs
      BY <1>4, <3>1, PairForms
    <3> QED BY <3>2 DEF none, t
  <2> HIDE DEF pair
  <2>3. PICK written \in Nat, spilled \in BOOLEAN :
          /\ Counted(Append(q.pairs, pair), written, spilled)
          /\ WritePair(q, pair) = QueryOf(q.pos, Append(q.pairs, pair), q.next_char,
                                          written, spilled, q.fault, q.done)
    BY <1>1, <2>2, WritePairFacts
  <2> DEFINE more == Append(q.pairs, pair)
  <2>4. more \in Seq(Pairs)
    BY <1>2, <2>2, AppendProperties
  <2> HIDE DEF more
  <2>5. Pair(text, q) = QueryOf(k.next, more, q.next_char, written, spilled, q.fault, q.done)
    BY <2>1, <2>3, SetPos DEF more
  <2>6. Standing(text, k.next, q.fault, q.done)
    BY <1>1, <1>3, <1>5 DEF Standing
  <2>7. Counted(more, written, spilled)
    BY <2>3 DEF more
  <2> QED BY <1>2, <1>5, <2>4, <2>5, <2>6, <2>7, QueryIn
<1>11. CASE k.hasValue /\ ByteAt(text, k.next) = "NUL"
  <2>1. Pair(text, q) = [q EXCEPT !.done = TRUE]
    BY <1>9, <1>11
  <2> DEFINE t == TRUE
  <2>t. t \in BOOLEAN
    OBVIOUS
  <2>3. Standing(text, q.pos, q.fault, t)
    BY <1>1 DEF Standing
  <2>a. Pair(text, q) = [q EXCEPT !.done = t]
    BY <2>1
  <2> HIDE DEF t
  <2>2. Pair(text, q) = QueryOf(q.pos, q.pairs, q.next_char, q.written, q.spilled, q.fault, t)
    BY <1>2, <2>a, SetDone
  <2> QED BY <1>1, <1>2, <2>t, <2>2, <2>3, QueryIn
<1>12. CASE k.hasValue /\ ByteAt(text, k.next) # "NUL" /\ v.fault # "none"
  <2>1. Pair(text, q) = [r EXCEPT !.fault = v.fault, !.done = TRUE]
    BY <1>9, <1>12
  <2> DEFINE t == TRUE
             s == QueryOf(v.pos, q.pairs, v.next_char, q.written, q.spilled, v.fault, q.done)
  <2>t. t \in BOOLEAN
    OBVIOUS
  <2>3. Standing(text, v.pos, v.fault, t)
    BY <1>6, <1>12 DEF Standing
  <2>a. Pair(text, q) = [r EXCEPT !.fault = v.fault, !.done = t]
    BY <2>1
  <2> HIDE DEF t
  <2>b. [r EXCEPT !.fault = v.fault] = s
    BY <1>8, SetFault
  <2>c. Pair(text, q) = [s EXCEPT !.done = t]
    <3> HIDE DEF s
    <3> QED BY <2>a, <2>b
  <2>2. Pair(text, q) = QueryOf(v.pos, q.pairs, v.next_char, q.written, q.spilled, v.fault, t)
    BY <2>c, SetDone
  <2> QED BY <1>1, <1>2, <1>6, <2>t, <2>2, <2>3, QueryIn
<1>13. CASE k.hasValue /\ ByteAt(text, k.next) # "NUL" /\ v.fault = "none"
  <2> DEFINE pair == PairOfParts(k.key, Terminated(v.cells), ~v.number)
  <2>1. Pair(text, q) = WritePair(r, pair)
    BY <1>9, <1>13
  <2>2. pair \in Pairs
    BY <1>4, <1>6, <1>7, <1>13, PairForms
  <2> HIDE DEF pair
  <2>3. /\ r.pos = v.pos /\ r.pairs = q.pairs /\ r.next_char = v.next_char /\ r.written = q.written
        /\ r.spilled = q.spilled /\ r.fault = q.fault /\ r.done = q.done /\ r \in QueryState
    <3>1. LET s == QueryOf(v.pos, q.pairs, v.next_char, q.written, q.spilled, q.fault, q.done)
          IN  /\ s.pos = v.pos /\ s.pairs = q.pairs /\ s.next_char = v.next_char
              /\ s.written = q.written /\ s.spilled = q.spilled /\ s.fault = q.fault
              /\ s.done = q.done
              /\ (/\ v.pos \in Nat /\ q.pairs \in Seq(Pairs) /\ v.next_char \in Marks
                  /\ q.written \in Nat /\ q.spilled \in BOOLEAN /\ q.fault \in Faults
                  /\ q.done \in BOOLEAN)
                 => s \in QueryState
      BY QueryForms
    <3> QED BY <1>2, <1>6, <1>8, <3>1, Zenon
  <2>4. PICK written \in Nat, spilled \in BOOLEAN :
          /\ Counted(Append(r.pairs, pair), written, spilled)
          /\ WritePair(r, pair) = QueryOf(r.pos, Append(r.pairs, pair), r.next_char,
                                          written, spilled, r.fault, r.done)
    <3>1. Counted(r.pairs, r.written, r.spilled)
      BY <1>1, <2>3, Zenon
    <3> QED BY <2>2, <2>3, <3>1, WritePairFacts
  <2> DEFINE more == Append(q.pairs, pair)
  <2>5. more \in Seq(Pairs)
    BY <1>2, <2>2, AppendProperties
  <2> HIDE DEF more
  <2>6. /\ Pair(text, q) = QueryOf(v.pos, more, v.next_char, written, spilled, q.fault, q.done)
        /\ Counted(more, written, spilled)
    BY <2>1, <2>3, <2>4, Zenon DEF more
  <2>7. Standing(text, v.pos, q.fault, q.done)
    BY <1>1, <1>3, <1>6, <1>13 DEF Standing
  <2> QED BY <1>2, <1>6, <2>5, <2>6, <2>7, QueryIn
<1> QED BY <1>4, <1>10, <1>11, <1>12, <1>13

\* A turn of the loop over the text.
QueryTurn(text, q) == IF q.done \/ ByteAt(text, q.pos) = "NUL" THEN q ELSE Pair(text, q)

QueryStep(text) == [x \in Queries(text) \X QueryBytes |-> QueryTurn(text, x[1])]

QueryStart == Snprintf(QueryOf(0, <<>>, "junk", 0, FALSE, "none", FALSE), JsonSize, 1)

\* A turn leaves the query one of them.
LEMMA QueryTurnStays ==
  ASSUME NEW text \in Seq(QueryBytes), NEW q \in Queries(text)
  PROVE  QueryTurn(text, q) \in Queries(text)
<1>1. q.done \in BOOLEAN
  BY QueryFields DEF Queries
<1>2. CASE q.done \/ ByteAt(text, q.pos) = "NUL"
  BY <1>2 DEF QueryTurn
<1>3. CASE ~q.done /\ ByteAt(text, q.pos) # "NUL"
  <2>1. QueryTurn(text, q) = Pair(text, q)
    BY <1>3 DEF QueryTurn
  <2> QED BY <1>3, <2>1, PairFacts
<1> QED BY <1>1, <1>2, <1>3

\* Before the loop the object is one byte long.
LEMMA QueryStarts ==
  ASSUME NEW text \in Seq(QueryBytes)
  PROVE  QueryStart \in Queries(text)
<1> DEFINE none == <<>>
           f == FALSE
           x == (0 + 1) % SizeSpan
           y == f \/ 0 + Stored(JsonSize, 0, 1) > JsonSize
<1>1. none \in Seq(Pairs) /\ f \in BOOLEAN /\ "junk" \in Marks /\ "none" \in Faults /\ 0 \in Nat
  BY DEF Marks, Faults
<1>2. JsonSize \in Nat \ {0} /\ SizeSpan \in Nat \ {0} /\ JsonSize < SizeSpan
  BY QueryAssumption, SizeAssumption
<1>3. QueryStart = QueryOf(0, none, "junk", x, y, "none", f)
  <2> HIDE DEF none, f
  <2>1. Snprintf(QueryOf(0, none, "junk", 0, f, "none", f), JsonSize, 1)
          = QueryOf(0, none, "junk", (0 + 1) % SizeSpan,
                    f \/ 0 + Stored(JsonSize, 0, 1) > JsonSize, "none", f)
    BY SnprintfQuery
  <2> QED BY <2>1, Zenon DEF QueryStart, none, f
<1>4. ~(0 + Stored(JsonSize, 0, 1) > JsonSize)
  BY <1>2, StoredFacts
<1>5. ~y /\ y \in BOOLEAN
  BY <1>4
<1>6. x = 1
  BY <1>2
<1>7. Sum(none) = 0
  BY SumFacts
<1>8. none = <<>>
  OBVIOUS
<1>9. Standing(text, 0, "none", f)
  <2>1. Len(text) \in Nat
    OBVIOUS
  <2> QED BY <2>1 DEF Standing, FaultSeen
<1> HIDE DEF x, y
<1>10. Counted(none, x, y)
  <2> HIDE DEF none
  <2> QED BY <1>5, <1>6, <1>7, <1>8 DEF Counted
<1>11. x \in Nat /\ y \in BOOLEAN
  BY <1>5, <1>6
<1> HIDE DEF none, f
<1>12. QueryOf(0, none, "junk", x, y, "none", f) \in Queries(text)
  BY <1>1, <1>9, <1>10, <1>11, QueryIn
<1> QED BY <1>3, <1>12

\* The loop over a text.
QueryAfter(text) ==
  FoldLeft(LAMBDA r, turn : IF r.done \/ ByteAt(text, r.pos) = "NUL" THEN r ELSE Pair(text, r),
           QueryStart, text)

\* f is what it has made after each of its turns.
QueryWalk(text, f) ==
  /\ f \in [0..Len(text) -> Queries(text)]
  /\ f[0] = QueryStart
  /\ \A k \in 1..Len(text) : f[k] = QueryTurn(text, f[k - 1])
  /\ QueryAfter(text) = f[Len(text)]

\* The loop takes its turns one by one.
LEMMA QueryWalked ==
  ASSUME NEW text \in Seq(QueryBytes)
  PROVE  \E f : QueryWalk(text, f)
<1> DEFINE V == Queries(text)
           start == QueryStart
           T(q) == QueryTurn(text, q)
           step == QueryStep(text)
           Eq(I) == I = [d \in SUBSET DOMAIN text |->
                           IF d = {} THEN start ELSE T(I[d \ {Max(d)}])]
           K == CHOOSE I : Eq(I)
<1>1. QueryAfter(text) = K[DOMAIN text]
  BY DEF QueryAfter, QueryTurn, FoldLeft, MapThenFoldSet
<1>a. \A q \in V : T(q) \in V
  BY QueryTurnStays
<1>b. step = [x \in V \X QueryBytes |-> T(x[1])]
  BY DEF QueryStep
<1>c. start \in V
  BY QueryStarts
<1> HIDE DEF T, step, V, start
<1>2. Machine(V, QueryBytes, step, start)
  BY <1>a, <1>b, <1>c DEF Machine
<1>3. DOMAIN text = 1..Len(text) /\ Len(text) \in Nat /\ \A k \in 1..Len(text) : text[k] \in QueryBytes
  BY LenProperties, ElementOfSeq
<1>4. PICK g \in [SUBSET DOMAIN text -> V] : Solves(g, step, start, text)
  BY <1>2, Solution DEF Machine
<1>5. Eq(g)
  <2>1. ASSUME NEW d \in SUBSET DOMAIN text, d # {}
        PROVE  g[d] = T(g[d \ {Max(d)}])
    <3>1. g[d \ {Max(d)}] \in V /\ d \ {Max(d)} \in SUBSET DOMAIN text
      OBVIOUS
    <3>2. Max(d) \in DOMAIN text /\ text[Max(d)] \in QueryBytes
      BY <1>3, <2>1, MaxIn
    <3>3. g[d] = step[<<g[d \ {Max(d)}], text[Max(d)]>>]
      BY <1>4, <2>1 DEF Solves
    <3> QED BY <1>b, <3>1, <3>2, <3>3
  <2> QED BY <1>4, <2>1 DEF Solves
<1>6. Eq(K)
  <2> HIDE DEF Eq
  <2> QED BY <1>5, Zenon
<1> HIDE DEF K
<1>7. K[{}] = start
  <2>1. {} \in SUBSET DOMAIN text
    OBVIOUS
  <2> QED BY <1>6, <2>1
<1>8. ASSUME NEW k \in 1..Len(text) PROVE K[1..k] = T(K[1..k - 1])
  <2>1. 1..k \in SUBSET DOMAIN text /\ 1..k # {} /\ Max(1..k) = k /\ (1..k) \ {k} = 1..k - 1
    BY <1>3, UpTo
  <2>2. K[1..k] = T(K[(1..k) \ {Max(1..k)}])
    BY <1>6, <2>1
  <2> QED BY <2>1, <2>2
<1> DEFINE P == {k \in Nat : k <= Len(text) => K[1..k] \in V}
           f == [k \in 0..Len(text) |-> K[1..k]]
<1>9. P = Nat
  <2>1. 0 \in P
    <3>1. 1..0 = {}
      OBVIOUS
    <3> QED BY <1>7, <1>c, <3>1
  <2>2. ASSUME NEW k \in Nat, k \in P PROVE k + 1 \in P
    <3>1. SUFFICES ASSUME k + 1 <= Len(text) PROVE K[1..k + 1] \in V
      OBVIOUS
    <3>2. k + 1 \in 1..Len(text) /\ (k + 1) - 1 = k /\ k <= Len(text)
      BY <1>3, <3>1
    <3>3. K[1..k] \in V
      BY <2>2, <3>2
    <3>4. K[1..k + 1] = T(K[1..k])
      BY <1>8, <3>2
    <3> QED BY <1>a, <3>3, <3>4
  <2> QED BY <2>1, <2>2, Induction
<1>10. /\ f \in [0..Len(text) -> V] /\ f[0] = start
       /\ \A k \in 1..Len(text) : f[k] = T(f[k - 1])
       /\ QueryAfter(text) = f[Len(text)]
  <2>1. \A k \in 0..Len(text) : K[1..k] \in V
    BY <1>3, <1>9
  <2>2. 0 \in 0..Len(text) /\ Len(text) \in 0..Len(text) /\ 1..0 = {}
    BY <1>3
  <2>3. \A k \in 1..Len(text) : k \in 0..Len(text) /\ k - 1 \in 0..Len(text)
    BY <1>3
  <2>4. f \in [0..Len(text) -> V] /\ \A k \in 0..Len(text) : f[k] = K[1..k]
    BY <2>1
  <2> HIDE DEF f, P
  <2> QED BY <1>1, <1>3, <1>7, <1>8, <2>2, <2>3, <2>4
<1> QED BY <1>10 DEF QueryWalk, V, T, start

\* It ends with one of Queries.
LEMMA QueryLooped ==
  ASSUME NEW text \in Seq(QueryBytes)
  PROVE  QueryAfter(text) \in Queries(text)
<1>1. PICK f : QueryWalk(text, f)
  BY QueryWalked
<1>2. Len(text) \in Nat
  OBVIOUS
<1> QED BY <1>1, <1>2 DEF QueryWalk

\* The length of the object without the comma behind its last pair.
LengthOf(pairs) == IF pairs = <<>> THEN 2 ELSE Sum(pairs)

\* What is made of a text.
Made(text, pairs, written, spilled, fault) ==
  /\ FaultSeen(text, fault)
  /\ LengthOf(pairs) + 1 < SizeSpan => written = LengthOf(pairs)
  /\ LengthOf(pairs) < JsonSize => ~spilled

\* What is printed behind the loop, and what it leaves alone.
LEMMA JsonFacts ==
  ASSUME NEW text \in Seq(QueryBytes)
  PROVE  LET j == QueryToJson(text)
         IN  /\ j.pairs \in Seq(Pairs) /\ Made(text, j.pairs, j.written, j.spilled, j.fault)
             /\ j.pairs = QueryAfter(text).pairs /\ j.fault = QueryAfter(text).fault
<1> DEFINE q == QueryAfter(text)
           trimmed == Trim(q.written)
           w == (trimmed + 1) % SizeSpan
           o == q.spilled \/ trimmed + Stored(JsonSize, trimmed, 1) > JsonSize
           sum == Sum(q.pairs)
           j == QueryToJson(text)
<1>1. q \in QueryState /\ Standing(text, q.pos, q.fault, q.done)
      /\ Counted(q.pairs, q.written, q.spilled)
  <2>1. q \in Queries(text)
    BY QueryLooped
  <2> QED BY <2>1 DEF Queries
<1>2. j = Snprintf([q EXCEPT !.written = Trim(q.written)], JsonSize, 1)
  BY Zenon DEF QueryToJson, QueryAfter, QueryStart, QueryOf
<1> HIDE DEF q
<1>3. /\ q.pos \in Nat /\ q.pairs \in Seq(Pairs) /\ q.next_char \in Marks /\ q.written \in Nat
      /\ q.spilled \in BOOLEAN /\ q.fault \in Faults /\ q.done \in BOOLEAN
      /\ q = QueryOf(q.pos, q.pairs, q.next_char, q.written, q.spilled, q.fault, q.done)
  BY <1>1, QueryFields
<1>4. j = QueryOf(q.pos, q.pairs, q.next_char, w, o, q.fault, q.done)
  <2> DEFINE r == QueryOf(q.pos, q.pairs, q.next_char, trimmed, q.spilled, q.fault, q.done)
  <2> HIDE DEF trimmed
  <2>1. [q EXCEPT !.written = trimmed] = r
    BY <1>3, SetWritten
  <2>2. j = Snprintf(r, JsonSize, 1)
    BY <1>2, <2>1, Zenon DEF trimmed
  <2>3. Snprintf(r, JsonSize, 1) =
          QueryOf(q.pos, q.pairs, q.next_char, (trimmed + 1) % SizeSpan,
                  q.spilled \/ trimmed + Stored(JsonSize, trimmed, 1) > JsonSize, q.fault, q.done)
    BY SnprintfQuery
  <2> QED BY <2>2, <2>3, Zenon
<1>5. JsonSize \in Nat \ {0} /\ SizeSpan \in Nat \ {0} /\ JsonSize < SizeSpan
  BY QueryAssumption, SizeAssumption
<1>6. sum \in Nat /\ (q.pairs = <<>> => sum = 0)
  BY <1>3, SumFacts
<1>7. /\ 1 + sum < SizeSpan => q.written = 1 + sum
      /\ sum < JsonSize => ~q.spilled
      /\ q.pairs # <<>> => sum >= 6
  BY <1>1 DEF Counted
<1>8. trimmed = (IF q.written > 2 THEN q.written - 2 ELSE q.written) /\ trimmed \in Nat
  BY <1>3 DEF Trim
<1> DEFINE length == LengthOf(q.pairs)
<1>9. length = IF q.pairs = <<>> THEN 2 ELSE sum
  BY DEF LengthOf
<1> HIDE DEF sum, trimmed, length
<1>10. length \in Nat /\ length >= 2 /\ sum <= length
  BY <1>6, <1>7, <1>9
<1>11. ASSUME 1 + sum < SizeSpan PROVE trimmed + 1 = length
  <2>1. CASE q.pairs = <<>>
    BY <1>6, <1>7, <1>8, <1>9, <1>11, <2>1
  <2>2. CASE q.pairs # <<>>
    BY <1>6, <1>7, <1>8, <1>9, <1>11, <2>2
  <2> QED BY <2>1, <2>2
<1>12. length + 1 < SizeSpan => w = length
  <2>1. SUFFICES ASSUME length + 1 < SizeSpan PROVE w = length
    OBVIOUS
  <2>2. trimmed + 1 = length
    BY <1>5, <1>6, <1>10, <1>11, <2>1
  <2>3. length % SizeSpan = length
    BY <1>5, <1>10, <2>1
  <2> QED BY <2>2, <2>3
<1>13. length < JsonSize => ~o
  <2>1. SUFFICES ASSUME length < JsonSize PROVE ~o
    OBVIOUS
  <2>2. sum < JsonSize /\ 1 + sum < SizeSpan
    BY <1>5, <1>6, <1>10, <2>1
  <2>3. trimmed <= JsonSize
    BY <1>5, <1>8, <1>10, <1>11, <2>1, <2>2
  <2>4. ~(trimmed + Stored(JsonSize, trimmed, 1) > JsonSize)
    BY <1>8, <2>3, StoredFacts
  <2> QED BY <1>7, <2>2, <2>4
<1> HIDE DEF w, o, j
<1>14. j.pairs = q.pairs /\ j.written = w /\ j.spilled = o /\ j.fault = q.fault
  <2>1. LET s == QueryOf(q.pos, q.pairs, q.next_char, w, o, q.fault, q.done)
        IN  /\ s.pos = q.pos /\ s.pairs = q.pairs /\ s.next_char = q.next_char
            /\ s.written = w /\ s.spilled = o /\ s.fault = q.fault
            /\ s.done = q.done
            /\ (/\ q.pos \in Nat /\ q.pairs \in Seq(Pairs) /\ q.next_char \in Marks
                /\ w \in Nat /\ o \in BOOLEAN /\ q.fault \in Faults /\ q.done \in BOOLEAN)
               => s \in QueryState
    BY QueryForms
  <2> QED BY <1>4, <2>1, Zenon
<1>15. Made(text, q.pairs, w, o, q.fault)
  BY <1>1, <1>12, <1>13 DEF Made, Standing, length
<1> QED BY <1>3, <1>14, <1>15, Zenon DEF j, q

-----------------------------------------------------------------------------
(***************************************************************************)
(* The pieces of a text.                                                   *)
(***************************************************************************)

\* p begins behind the b-th byte of the text and ends at a delimiter.
Segment(text, b, p) ==
  /\ b \in Nat /\ p \in Seq(QueryBytes) /\ b + Len(p) <= Len(text)
  /\ \A k \in 1..Len(p) : text[b + k] = p[k] /\ p[k] # "&"

\* The pieces s of a text, where they begin, and the delimiters between them.
Splits(text, s, b) ==
  /\ s \in Seq(Seq(QueryBytes)) /\ s # <<>> /\ b \in [1..Len(s) -> Nat]
  /\ b[1] = 0
  /\ \A m \in 1..Len(s) : Segment(text, b[m], s[m])
  /\ \A m \in 1..Len(s) - 1 : /\ b[m + 1] = b[m] + Len(s[m]) + 1
                              /\ b[m] + Len(s[m]) < Len(text)
                              /\ text[b[m] + Len(s[m]) + 1] = "&"
  /\ b[Len(s)] + Len(s[Len(s)]) = Len(text)

Pieced == {s \in Seq(Seq(QueryBytes)) : s # <<>>}

\* One byte more.
Piece(s, c) == IF c = "&" THEN Append(s, <<>>) ELSE Append(Front(s), Append(Last(s), c))

PieceStep == [x \in Pieced \X QueryBytes |-> Piece(x[1], x[2])]

\* The pieces with one byte more.
LEMMA PieceIn ==
  ASSUME NEW s \in Pieced, NEW c \in QueryBytes
  PROVE  /\ Piece(s, c) \in Pieced
         /\ c = "&" => Piece(s, c) = Append(s, <<>>)
         /\ c # "&" => /\ Len(Piece(s, c)) = Len(s)
                       /\ \A m \in 1..Len(s) - 1 : Piece(s, c)[m] = s[m]
                       /\ Piece(s, c)[Len(s)] = Append(s[Len(s)], c)
<1> DEFINE B == Seq(QueryBytes)
           n == Len(s)
           front == SubSeq(s, 1, n - 1)
           last == Append(s[n], c)
<1>1. s \in Seq(B) /\ s # <<>> /\ n \in Nat /\ n >= 1
  <2>1. s \in Seq(B) /\ s # <<>>
    BY DEF Pieced
  <2> QED BY <2>1, EmptySeq, LenProperties
<1>2. s[n] \in B
  BY <1>1
<1>3. last \in B
  BY <1>2, AppendProperties
<1>4. front \in Seq(B) /\ Len(front) = n - 1 /\ \A m \in 1..n - 1 : front[m] = s[m]
  <2> HIDE DEF B, n
  <2>1. n - 1 \in Nat /\ n = Len(s) /\ 1..n - 1 \subseteq 1..n
    BY <1>1 DEF n
  <2>2. \A i \in 1..n - 1 : s[i] \in B
    BY <1>1, <2>1, ElementOfSeq
  <2> QED BY <1>1, <2>1, <2>2, SubSeqProperties
<1>5. <<>> \in B
  OBVIOUS
<1>6. /\ Append(s, <<>>) \in Seq(B) /\ Append(s, <<>>) # <<>>
  <2> DEFINE none == <<>>
  <2>1. none \in B
    BY <1>5
  <2> HIDE DEF B, none
  <2>2. Append(s, none) \in Seq(B) /\ Append(s, none) # <<>>
    BY <1>1, <2>1
  <2> QED BY <2>2 DEF none
<1>7. /\ Append(front, last) \in Seq(B) /\ Append(front, last) # <<>>
      /\ Len(Append(front, last)) = n
      /\ \A m \in 1..n - 1 : Append(front, last)[m] = s[m]
      /\ Append(front, last)[n] = last
  <2> HIDE DEF B, front, last, n
  <2> QED BY <1>1, <1>3, <1>4
<1>8. Piece(s, c) = IF c = "&" THEN Append(s, <<>>) ELSE Append(front, last)
  BY DEF Piece, Front, Last
<1> HIDE DEF front
<1>9. CASE c = "&"
  BY <1>6, <1>8, <1>9 DEF Pieced
<1>10. CASE c # "&"
  BY <1>7, <1>8, <1>10 DEF Pieced
<1> QED BY <1>9, <1>10

\* The fold of Pieces.
Split(text) ==
  FoldLeft(LAMBDA ps, b : IF b = "&" THEN Append(ps, <<>>)
                          ELSE Append(Front(ps), Append(Last(ps), b)),
           <<<<>>>>, text)

\* The split is a loop, whose body is a function.
LEMMA SplitLooped ==
  /\ Machine(Pieced, QueryBytes, PieceStep, <<<<>>>>)
  /\ \A text \in Seq(QueryBytes) : Split(text) = Looped(PieceStep, <<<<>>>>, text)
<1> DEFINE V == Pieced
           start == <<<<>>>>
           T(s, c) == Piece(s, c)
           step == PieceStep
<1>a. \A s \in V, c \in QueryBytes : T(s, c) \in V
  BY PieceIn
<1>b. step = [x \in V \X QueryBytes |-> T(x[1], x[2])]
  BY DEF PieceStep
<1>c. start \in V
  BY DEF Pieced
<1>d. \A text : Split(text) = FoldLeft(LAMBDA ps, b : T(ps, b), start, text)
  BY DEF Split, Piece
<1> HIDE DEF T, step, V, start
<1>e. Machine(V, QueryBytes, step, start)
  <2>1. ASSUME NEW x \in V \X QueryBytes PROVE T(x[1], x[2]) \in V
    BY <1>a
  <2> QED BY <1>b, <1>c, <2>1 DEF Machine
<1>f. ASSUME NEW text \in Seq(QueryBytes) PROVE Split(text) = Looped(step, start, text)
  <2> DEFINE Eq(I) == I = [d \in SUBSET DOMAIN text |->
                           IF d = {} THEN start ELSE T(I[d \ {Max(d)}], text[Max(d)])]
             K == CHOOSE I : Eq(I)
  <2>1. Split(text) = K[DOMAIN text]
    BY <1>d DEF FoldLeft, MapThenFoldSet
  <2>3. DOMAIN text = 1..Len(text) /\ Len(text) \in Nat /\ \A k \in 1..Len(text) : text[k] \in QueryBytes
    BY LenProperties, ElementOfSeq
  <2>4. PICK g \in [SUBSET DOMAIN text -> V] : Solves(g, step, start, text)
    BY <1>e, Solution DEF Machine
  <2>5. Eq(g)
    <3>1. ASSUME NEW d \in SUBSET DOMAIN text, d # {}
          PROVE  g[d] = T(g[d \ {Max(d)}], text[Max(d)])
      <4>1. g[d \ {Max(d)}] \in V /\ d \ {Max(d)} \in SUBSET DOMAIN text
        OBVIOUS
      <4>2. Max(d) \in DOMAIN text /\ text[Max(d)] \in QueryBytes
        BY <2>3, <3>1, MaxIn
      <4>3. g[d] = step[<<g[d \ {Max(d)}], text[Max(d)]>>]
        BY <2>4, <3>1 DEF Solves
      <4> QED BY <1>b, <4>1, <4>2, <4>3
    <3> QED BY <2>4, <3>1 DEF Solves
  <2>6. Eq(K)
    <3> HIDE DEF Eq
    <3> QED BY <2>5, Zenon
  <2> HIDE DEF K
  <2>7. K[{}] = start
    <3>1. {} \in SUBSET DOMAIN text
      OBVIOUS
    <3> QED BY <2>6, <3>1
  <2>8. ASSUME NEW k \in 1..Len(text), K[1..k - 1] \in V
        PROVE  K[1..k] = step[<<K[1..k - 1], text[k]>>]
    <3>1. 1..k \in SUBSET DOMAIN text /\ 1..k # {} /\ Max(1..k) = k /\ (1..k) \ {k} = 1..k - 1
      BY <2>3, UpTo
    <3>2. K[1..k] = T(K[(1..k) \ {Max(1..k)}], text[Max(1..k)])
      BY <2>6, <3>1
    <3> QED BY <1>b, <2>3, <2>8, <3>1, <3>2
  <2>9. Follows(K, V, step, start, text, Len(text))
    BY <2>7, <2>8 DEF Follows
  <2>10. K[1..Len(text)] = Looped(step, start, text)
    BY <1>e, <2>9, FoldIsLooped
  <2> QED BY <2>1, <2>3, <2>10
<1> QED BY <1>e, <1>f DEF V, step, start

\* A segment of a text is one of a longer text.
LEMMA SegmentStays ==
  ASSUME NEW text \in Seq(QueryBytes), NEW b, NEW p, Segment(text, b, p), NEW c \in QueryBytes
  PROVE  Segment(Append(text, c), b, p)
<1> DEFINE more == Append(text, c)
           n == Len(text)
<1>1. /\ more \in Seq(QueryBytes) /\ Len(more) = n + 1 /\ n \in Nat
      /\ \A k \in 1..n : more[k] = text[k]
  BY AppendProperties
<1>2. /\ b \in Nat /\ p \in Seq(QueryBytes) /\ b + Len(p) <= n /\ Len(p) \in Nat
      /\ \A k \in 1..Len(p) : text[b + k] = p[k] /\ p[k] # "&"
  BY DEF Segment
<1> HIDE DEF more, n
<1>3. \A k \in 1..Len(p) : b + k \in 1..n
  BY <1>1, <1>2
<1>4. \A k \in 1..Len(p) : more[b + k] = p[k] /\ p[k] # "&"
  BY <1>1, <1>2, <1>3
<1>5. b + Len(p) <= Len(more)
  BY <1>1, <1>2
<1> QED BY <1>2, <1>4, <1>5 DEF Segment, more

\* A delimiter begins a piece, and any other byte belongs to the last one.
LEMMA SplitsStep ==
  ASSUME NEW text \in Seq(QueryBytes), NEW s, NEW b, Splits(text, s, b), NEW c \in QueryBytes
  PROVE  \E d : Splits(Append(text, c), Piece(s, c), d)
<1> DEFINE B == Seq(QueryBytes)
           more == Append(text, c)
           n == Len(text)
           m == Len(s)
           t == Piece(s, c)
<1>1. /\ more \in Seq(QueryBytes) /\ Len(more) = n + 1 /\ n \in Nat
      /\ (\A k \in 1..n : more[k] = text[k]) /\ more[n + 1] = c
  BY AppendProperties
<1>2. /\ s \in Seq(B) /\ s # <<>> /\ b \in [1..m -> Nat]
      /\ b[1] = 0
      /\ \A k \in 1..m : Segment(text, b[k], s[k])
      /\ \A k \in 1..m - 1 : /\ b[k + 1] = b[k] + Len(s[k]) + 1
                             /\ b[k] + Len(s[k]) < n
                             /\ text[b[k] + Len(s[k]) + 1] = "&"
      /\ b[m] + Len(s[m]) = n
  BY Zenon DEF Splits
<1>3. m \in Nat /\ m >= 1
  BY <1>2, EmptySeq, LenProperties
<1>4. s \in Pieced
  BY <1>2 DEF Pieced
<1>5. /\ t \in Seq(B) /\ t # <<>>
      /\ c = "&" => t = Append(s, <<>>)
      /\ c # "&" => /\ Len(t) = m
                    /\ \A k \in 1..m - 1 : t[k] = s[k]
                    /\ t[m] = Append(s[m], c)
  BY <1>4, PieceIn DEF Pieced
<1>6. \A k \in 1..m : Segment(more, b[k], s[k])
  BY <1>2, SegmentStays
<1>7. \A k \in 1..m : s[k] \in B /\ Len(s[k]) \in Nat /\ b[k] \in Nat
  <2>1. \A k \in 1..m : s[k] \in B
    BY <1>2, ElementOfSeq
  <2> QED BY <1>2, <2>1, LenProperties
<1> HIDE DEF more, n, m, t
<1>8. \A k \in 1..m - 1 : /\ b[k] + Len(s[k]) < n + 1
                          /\ more[b[k] + Len(s[k]) + 1] = "&"
  <2> TAKE k \in 1..m - 1
  <2>1. k \in 1..m
    BY <1>3
  <2> DEFINE e == b[k] + Len(s[k])
  <2>2. e \in Nat /\ e < n /\ text[e + 1] = "&"
    BY <1>2, <1>7, <2>1
  <2> HIDE DEF e
  <2>3. e + 1 \in 1..n
    BY <1>1, <2>2
  <2>4. e < n + 1 /\ more[e + 1] = "&"
    BY <1>1, <2>2, <2>3
  <2> QED BY <2>4 DEF e
<1>9. CASE c = "&"
  <2> DEFINE none == <<>>
             d == [k \in 1..m + 1 |-> IF k <= m THEN b[k] ELSE n + 1]
  <2>1. none \in B /\ Len(none) = 0
    OBVIOUS
  <2> HIDE DEF B, none
  <2>2. /\ t \in Seq(B) /\ Len(t) = m + 1 /\ t[m + 1] = none
        /\ \A k \in 1..m : t[k] = s[k]
    BY <1>2, <1>5, <1>9, <2>1, AppendProperties DEF none, m
  <2>3. /\ d \in [1..m + 1 -> Nat] /\ d[m + 1] = n + 1
        /\ \A k \in 1..m : d[k] = b[k]
    BY <1>1, <1>3, <1>7
  <2> HIDE DEF d
  <2>4. d[1] = 0
    BY <1>2, <1>3, <2>3
  <2>5. ASSUME NEW k \in 1..m + 1 PROVE Segment(more, d[k], t[k])
    <3>1. CASE k \in 1..m
      BY <1>6, <2>2, <2>3, <3>1
    <3>2. CASE k = m + 1
      <4>1. Segment(more, n + 1, none)
        BY <1>1, <2>1 DEF Segment, B
      <4> QED BY <2>2, <2>3, <3>2, <4>1
    <3> QED BY <1>3, <3>1, <3>2
  <2>6. ASSUME NEW k \in 1..m
        PROVE  /\ d[k + 1] = d[k] + Len(t[k]) + 1
               /\ d[k] + Len(t[k]) < n + 1
               /\ more[d[k] + Len(t[k]) + 1] = "&"
    <3>1. CASE k \in 1..m - 1
      <4>1. k + 1 \in 1..m
        BY <1>3, <3>1
      <4>2. t[k] = s[k] /\ d[k] = b[k] /\ d[k + 1] = b[k + 1]
        BY <2>2, <2>3, <4>1
      <4> QED BY <1>2, <1>8, <3>1, <4>2
    <3>2. CASE k = m
      <4>1. t[k] = s[m] /\ d[k] = b[m] /\ d[k + 1] = n + 1
        BY <2>2, <2>3, <3>2
      <4> QED BY <1>1, <1>2, <1>9, <4>1
    <3> QED BY <1>3, <3>1, <3>2
  <2>7. d[m + 1] + Len(t[m + 1]) = n + 1
    BY <1>1, <2>1, <2>2, <2>3
  <2>8. m = (m + 1) - 1
    BY <1>3
  <2>9. Splits(more, t, d)
    <3>1. \A k \in 1..Len(t) - 1 : /\ d[k + 1] = d[k] + Len(t[k]) + 1
                                   /\ d[k] + Len(t[k]) < Len(more)
                                   /\ more[d[k] + Len(t[k]) + 1] = "&"
      BY <1>1, <2>2, <2>6, <2>8
    <3>2. /\ d \in [1..Len(t) -> Nat] /\ (\A k \in 1..Len(t) : Segment(more, d[k], t[k]))
          /\ d[Len(t)] + Len(t[Len(t)]) = Len(more)
      BY <1>1, <2>2, <2>3, <2>5, <2>7
    <3> QED BY <1>5, <2>4, <3>1, <3>2, Zenon DEF Splits, B
  <2> QED BY <2>9 DEF more, t
<1>10. CASE c # "&"
  <2> DEFINE grown == Append(s[m], c)
  <2>1. /\ grown \in B /\ Len(grown) = Len(s[m]) + 1 /\ grown[Len(s[m]) + 1] = c
        /\ \A k \in 1..Len(s[m]) : grown[k] = s[m][k]
    <3>1. s[m] \in B
      BY <1>3, <1>7
    <3> QED BY <3>1, AppendProperties
  <2> HIDE DEF grown
  <2>2. /\ Len(t) = m /\ (\A k \in 1..m - 1 : t[k] = s[k]) /\ t[m] = grown
    BY <1>5, <1>10 DEF grown
  <2>3. Segment(more, b[m], grown)
    <3>1. m \in 1..m
      BY <1>3
    <3>2. Segment(more, b[m], s[m]) /\ b[m] \in Nat /\ Len(s[m]) \in Nat
      BY <1>6, <1>7, <3>1
    <3>3. \A k \in 1..Len(s[m]) : more[b[m] + k] = s[m][k] /\ s[m][k] # "&"
      BY <3>2 DEF Segment
    <3>4. b[m] + (Len(s[m]) + 1) = n + 1
      BY <1>1, <1>2, <3>2
    <3> DEFINE l == Len(s[m])
    <3>5. l \in Nat
      BY <3>2
    <3>6. \A k \in 1..l + 1 : more[b[m] + k] = grown[k] /\ grown[k] # "&"
      <4> TAKE k \in 1..l + 1
      <4>1. CASE k \in 1..l
        BY <2>1, <3>3, <4>1
      <4>2. CASE k = l + 1
        BY <1>1, <1>10, <2>1, <3>4, <4>2
      <4> HIDE DEF l
      <4> QED BY <3>5, <4>1, <4>2
    <3> HIDE DEF l
    <3>7. Len(grown) = l + 1
      BY <2>1 DEF l
    <3>8. b[m] + Len(grown) <= Len(more)
      BY <1>1, <3>2, <3>4, <3>7 DEF l
    <3> QED BY <2>1, <3>2, <3>6, <3>7, <3>8 DEF Segment
  <2>4. ASSUME NEW k \in 1..m PROVE Segment(more, b[k], t[k])
    <3>1. CASE k \in 1..m - 1
      BY <1>3, <1>6, <2>2, <3>1
    <3>2. CASE k = m
      BY <2>2, <2>3, <3>2
    <3> QED BY <1>3, <3>1, <3>2
  <2>5. \A k \in 1..m - 1 : /\ b[k + 1] = b[k] + Len(t[k]) + 1
                            /\ b[k] + Len(t[k]) < n + 1
                            /\ more[b[k] + Len(t[k]) + 1] = "&"
    BY <1>2, <1>8, <2>2
  <2>6. b[m] + Len(t[m]) = n + 1
    <3> DEFINE e == b[m] l == Len(s[m])
    <3>1. e \in Nat /\ l \in Nat
      BY <1>3, <1>7
    <3>2. e + l = n /\ Len(t[m]) = l + 1
      BY <1>2, <2>1, <2>2
    <3> HIDE DEF e, l
    <3>3. e + (l + 1) = n + 1
      BY <1>1, <3>1, <3>2
    <3> QED BY <3>2, <3>3 DEF e
  <2>7. Splits(more, t, b)
    <3>1. \A k \in 1..Len(t) - 1 : /\ b[k + 1] = b[k] + Len(t[k]) + 1
                                   /\ b[k] + Len(t[k]) < Len(more)
                                   /\ more[b[k] + Len(t[k]) + 1] = "&"
      BY <1>1, <2>2, <2>5
    <3>2. /\ b \in [1..Len(t) -> Nat] /\ (\A k \in 1..Len(t) : Segment(more, b[k], t[k]))
          /\ b[Len(t)] + Len(t[Len(t)]) = Len(more)
      BY <1>1, <1>2, <2>2, <2>4, <2>6
    <3> QED BY <1>2, <1>5, <3>1, <3>2, Zenon DEF Splits, B
  <2> QED BY <2>7 DEF more, t
<1> QED BY <1>9, <1>10

\* Every text is made of its pieces and the delimiters between them.
LEMMA SplitFacts ==
  ASSUME NEW text \in Seq(QueryBytes)
  PROVE  \E b : Splits(text, Split(text), b)
<1> DEFINE start == <<<<>>>>
           S(x) == Looped(PieceStep, start, x)
           Good(x) == S(x) \in Pieced /\ \E b : Splits(x, S(x), b)
           P == {x \in Seq(QueryBytes) : Good(x)}
<1>1. /\ Machine(Pieced, QueryBytes, PieceStep, start)
      /\ \A x \in Seq(QueryBytes) : Split(x) = S(x)
  BY SplitLooped
<1> HIDE DEF start
<1>2. /\ S(<<>>) = start
      /\ \A x \in Seq(QueryBytes) : S(x) \in Pieced
      /\ \A x \in Seq(QueryBytes), c \in QueryBytes : S(Append(x, c)) = PieceStep[<<S(x), c>>]
  BY <1>1, LoopedFacts
<1> HIDE DEF S
<1>a. P \in SUBSET Seq(QueryBytes) /\ \A x \in Seq(QueryBytes) : x \in P <=> Good(x)
  <2> HIDE DEF Good
  <2> QED OBVIOUS
<1> HIDE DEF P
<1>3. <<>> \in P
  <2> DEFINE none == <<>>
             b == [k \in 1..1 |-> 0]
  <2>1. none \in Seq(QueryBytes) /\ Len(none) = 0
    OBVIOUS
  <2>2. /\ start \in Seq(Seq(QueryBytes)) /\ start # <<>> /\ Len(start) = 1 /\ start[1] = none
    BY DEF start
  <2>3. b \in [1..1 -> Nat] /\ b[1] = 0
    OBVIOUS
  <2> HIDE DEF b
  <2>4. Segment(none, 0, none)
    BY <2>1 DEF Segment
  <2> HIDE DEF none
  <2>5. /\ b \in [1..Len(start) -> Nat] /\ b[1] = 0
        /\ \A m \in 1..Len(start) : Segment(none, b[m], start[m])
        /\ 1..Len(start) - 1 = {}
        /\ b[Len(start)] + Len(start[Len(start)]) = Len(none)
    BY <2>1, <2>2, <2>3, <2>4
  <2>6. Splits(none, start, b)
    BY <2>2, <2>5 DEF Splits
  <2>7. S(none) = start /\ S(none) \in Pieced
    BY <1>2, <2>1 DEF none
  <2>8. Good(none)
    BY <2>6, <2>7
  <2>9. none \in P
    BY <1>a, <2>1, <2>8
  <2> QED BY <2>9 DEF none
<1>4. ASSUME NEW x \in P, NEW c \in QueryBytes PROVE Append(x, c) \in P
  <2>1. x \in Seq(QueryBytes) /\ Good(x)
    BY <1>a
  <2>2. PICK b : Splits(x, S(x), b)
    BY <2>1
  <2>3. \E d : Splits(Append(x, c), Piece(S(x), c), d)
    BY <2>1, <2>2, SplitsStep
  <2>4. S(Append(x, c)) = Piece(S(x), c)
    BY <1>2, <2>1 DEF PieceStep
  <2>5. Append(x, c) \in Seq(QueryBytes)
    BY <2>1, AppendProperties
  <2>6. S(Append(x, c)) \in Pieced
    BY <1>2, <2>5
  <2>7. Good(Append(x, c))
    BY <2>3, <2>4, <2>6
  <2> QED BY <1>a, <2>5, <2>7
<1>5. P = Seq(QueryBytes)
  BY <1>3, <1>4, <1>a, TextInduction
<1>6. Good(text)
  BY <1>5, <1>a
<1> QED BY <1>1, <1>6

-----------------------------------------------------------------------------
(***************************************************************************)
(* What a value should be decoded to.                                      *)
(***************************************************************************)

\* The first k of the sequences s, one behind the other.
Joins(s, g) ==
  /\ g \in [0..Len(s) -> Seq(Marks)]
  /\ g[0] = <<>>
  /\ \A k \in 1..Len(s) : g[k] = g[k - 1] \o s[k]

\* One sequence more.
LEMMA JoinsOneMore ==
  ASSUME NEW s \in Seq(Seq(Marks)), NEW g, Joins(s, g), NEW x \in Seq(Marks)
  PROVE  \E h : Joins(Append(s, x), h)
<1> DEFINE C == Seq(Marks)
           n == Len(s)
           t == Append(s, x)
           h == [k \in 0..n + 1 |-> IF k <= n THEN g[k] ELSE g[n] \o x]
<1>1. g \in [0..n -> C] /\ g[0] = <<>> /\ \A k \in 1..n : g[k] = g[k - 1] \o s[k]
  BY DEF Joins
<1>2. n \in Nat /\ x \in C /\ s \in Seq(C)
  BY LenProperties
<1>3. \A y, z \in C : y \o z \in C
  OBVIOUS
<1> HIDE DEF C
<1>4. Len(t) = n + 1 /\ t[n + 1] = x /\ \A k \in 1..n : t[k] = s[k]
  BY <1>2, AppendProperties
<1> HIDE DEF n, t
<1>5. g[n] \o x \in C
  BY <1>1, <1>2, <1>3
<1>6. h \in [0..n + 1 -> C]
  BY <1>1, <1>2, <1>5
<1>7. h[n + 1] = g[n] \o x /\ \A k \in 0..n : h[k] = g[k]
  BY <1>2
<1> HIDE DEF h
<1>8. ASSUME NEW k \in 1..n + 1 PROVE h[k] = h[k - 1] \o t[k]
  <2>1. CASE k \in 1..n
    <3>1. k \in 0..n /\ k - 1 \in 0..n
      BY <1>2, <2>1
    <3> QED BY <1>1, <1>4, <1>7, <2>1, <3>1
  <2>2. CASE k = n + 1
    <3>1. k - 1 = n /\ n \in 0..n
      BY <1>2, <2>2
    <3>2. h[k] = g[n] \o x /\ h[k - 1] = g[n] /\ t[k] = x
      BY <1>4, <1>7, <2>2, <3>1
    <3> QED BY <3>2, Zenon
  <2>3. k \in 1..n \/ k = n + 1
    BY <1>2
  <2> QED BY <2>1, <2>2, <2>3, Zenon
<1>9. h[0] = <<>>
  BY <1>1, <1>2, <1>7
<1>10. Joins(t, h)
  BY <1>4, <1>6, <1>8, <1>9 DEF Joins, C
<1> QED BY <1>10 DEF t

\* Any sequences can be joined.
LEMMA JoinsExist ==
  ASSUME NEW s \in Seq(Seq(Marks))
  PROVE  \E g : Joins(s, g)
<1> DEFINE C == Seq(Marks)
           Good(x) == \E g : Joins(x, g)
           P == {x \in Seq(C) : Good(x)}
<1>a. P \in SUBSET Seq(C) /\ \A x \in Seq(C) : x \in P <=> Good(x)
  <2> HIDE DEF Good, C
  <2> QED OBVIOUS
<1>1. <<>> \in P
  <2> DEFINE g == [k \in 0..0 |-> <<>>]
             none == <<>>
  <2>1. none \in Seq(C) /\ Len(none) = 0 /\ none \in Seq(Marks)
    OBVIOUS
  <2>2. g \in [0..0 -> Seq(Marks)] /\ g[0] = <<>>
    OBVIOUS
  <2> HIDE DEF none, g
  <2>3. Joins(none, g)
    BY <2>1, <2>2 DEF Joins
  <2>4. none \in P
    <3>1. Good(none)
      BY <2>3
    <3> HIDE DEF P, Good
    <3> QED BY <1>a, <2>1, <3>1
  <2> QED BY <2>4 DEF none
<1> HIDE DEF P
<1>2. ASSUME NEW t \in P, NEW x \in C PROVE Append(t, x) \in P
  <2>1. t \in Seq(C) /\ Good(t)
    BY <1>a
  <2>2. Good(Append(t, x))
    BY <2>1, JoinsOneMore
  <2>3. Append(t, x) \in Seq(C)
    <3> HIDE DEF C
    <3> QED BY <2>1, AppendProperties
  <2> QED BY <1>a, <2>2, <2>3
<1>3. P = Seq(C)
  <2> HIDE DEF C
  <2> QED BY <1>1, <1>2, <1>a, TextInduction
<1> QED BY <1>3, <1>a

\* FlattenSeq joins all of them: the function that it takes is the only one
\* that solves its equation.
LEMMA FlattenFacts ==
  ASSUME NEW s \in Seq(Seq(Marks)), NEW g, Joins(s, g)
  PROVE  FlattenSeq(s) = g[Len(s)]
<1> DEFINE n == Len(s)
           Eq(f) == f = [i \in 1..n |-> IF i = 1 THEN s[i] ELSE f[i - 1] \o s[i]]
           F == CHOOSE f : Eq(f)
<1>1. FlattenSeq(s) = IF n = 0 THEN s ELSE F[n]
  BY Zenon DEF FlattenSeq
<1>2. /\ g \in [0..n -> Seq(Marks)] /\ g[0] = <<>>
      /\ \A k \in 1..n : g[k] = g[k - 1] \o s[k]
  BY DEF Joins
<1>3. n \in Nat /\ (n = 0 => s = <<>>) /\ \A k \in 1..n : s[k] \in Seq(Marks)
  <2>1. n \in Nat /\ \A k \in 1..n : s[k] \in Seq(Marks)
    BY LenProperties, ElementOfSeq
  <2>2. n = 0 => s = <<>>
    BY EmptySeq
  <2> QED BY <2>1, <2>2
<1> HIDE DEF n
<1>4. n >= 1 => g[1] = s[1]
  <2>1. SUFFICES ASSUME n >= 1 PROVE g[1] = s[1]
    OBVIOUS
  <2>2. 1 \in 1..n /\ 1 - 1 = 0
    BY <1>3, <2>1
  <2>3. g[1] = <<>> \o s[1] /\ s[1] \in Seq(Marks)
    BY <1>2, <1>3, <2>2
  <2> QED BY <2>3, ConcatEmptySeq
<1>5. Eq(F)
  <2> DEFINE f == [i \in 1..n |-> g[i]]
  <2>1. ASSUME NEW i \in 1..n PROVE f[i] = IF i = 1 THEN s[i] ELSE f[i - 1] \o s[i]
    <3>1. CASE i = 1
      BY <1>3, <1>4, <3>1
    <3>2. CASE i # 1
      <4>1. i - 1 \in 1..n
        BY <1>3, <3>2
      <4> QED BY <1>2, <3>2, <4>1
    <3> QED BY <3>1, <3>2
  <2>2. f = [i \in 1..n |-> f[i]]
    OBVIOUS
  <2>3. Eq(f)
    <3> HIDE DEF f
    <3> QED BY <2>1, <2>2
  <2> HIDE DEF f, Eq
  <2> QED BY <2>3, Zenon
<1> HIDE DEF F
<1> DEFINE P == {k \in Nat : k \in 1..n => F[k] = g[k]}
<1>6. 0 \in P
  OBVIOUS
<1>7. ASSUME NEW k \in Nat, k \in P PROVE k + 1 \in P
  <2>1. SUFFICES ASSUME k + 1 \in 1..n PROVE F[k + 1] = g[k + 1]
    OBVIOUS
  <2>2. F[k + 1] = IF k + 1 = 1 THEN s[k + 1] ELSE F[(k + 1) - 1] \o s[k + 1]
    BY <1>5, <2>1
  <2>3. (k + 1) - 1 = k
    OBVIOUS
  <2>4. CASE k = 0
    BY <1>3, <1>4, <2>1, <2>2, <2>4
  <2>5. CASE k # 0
    <3>1. k \in 1..n /\ k + 1 # 1
      BY <1>3, <2>1, <2>5
    <3>2. F[k] = g[k]
      BY <1>7, <3>1
    <3>3. g[k + 1] = g[k] \o s[k + 1]
      BY <1>2, <2>1, <2>3
    <3> QED BY <2>2, <2>3, <3>1, <3>2, <3>3
  <2> QED BY <2>4, <2>5
<1>8. P = Nat
  BY <1>6, <1>7, Induction
<1>9. CASE n = 0
  BY <1>1, <1>2, <1>3, <1>9 DEF n
<1>10. CASE n # 0
  <2>1. n \in P /\ n \in 1..n
    BY <1>3, <1>8, <1>10
  <2>2. F[n] = g[n]
    BY <2>1
  <2> QED BY <1>1, <1>10, <2>2 DEF n
<1> QED BY <1>9, <1>10

InEscape(w, i) == \E k \in {1, 2} : i > k /\ w[i - k] = "%"

\* What becomes of a byte of a value.
CharOf(w, i) ==
  CASE InEscape(w, i)       -> <<>>
    [] w[i] \in {"%", "+"}  -> <<"o">>
    [] w[i] = "'"           -> <<"backslash", "'">>
    [] OTHER                -> <<w[i]>>

\* g[k] is what becomes of the first k bytes.
DecodeSteps(w, g) ==
  /\ g \in [0..Len(w) -> Seq(Marks)]
  /\ g[0] = <<>>
  /\ \A k \in 1..Len(w) : g[k] = g[k - 1] \o CharOf(w, k)

\* Two digits stand behind every percent sign, so that none is in an escape.
LEMMA CharOfFacts ==
  ASSUME NEW w \in Seq(QueryBytes), WellEncoded(w), NEW i \in 1..Len(w)
  PROVE  /\ InEscape(w, i) => w[i] # "%" /\ CharOf(w, i) = <<>>
         /\ ~InEscape(w, i) => CharOf(w, i) = Written(IF w[i] \in {"%", "+"} THEN "o" ELSE w[i])
         /\ CharOf(w, i) \in Seq(Marks)
         /\ \A j \in 1..Len(CharOf(w, i)) : CharOf(w, i)[j] # "NUL"
<1>1. Len(w) \in Nat /\ \A k \in 1..Len(w) : w[k] \in QueryBytes
  BY LenProperties, ElementOfSeq
<1>2. {"o", "backslash", "'"} \union QueryBytes \subseteq Marks \ {"NUL", "newline"}
  BY DEF Marks, QueryBytes
<1>3. CASE InEscape(w, i)
  <2>1. w[i] \in HexDigits
    <3>1. PICK k \in {1, 2} : i > k /\ w[i - k] = "%"
      BY <1>3 DEF InEscape
    <3> DEFINE m == i - k
    <3>2. m \in 1..Len(w) /\ w[m] = "%" /\ (i = m + 1 \/ i = m + 2)
      BY <1>1, <3>1
    <3> HIDE DEF m
    <3>3. {w[m + 1], w[m + 2]} \subseteq HexDigits
      BY <3>2 DEF WellEncoded
    <3> QED BY <3>2, <3>3
  <2>2. w[i] # "%"
    BY <2>1 DEF HexDigits
  <2>3. CharOf(w, i) = <<>>
    BY <1>3, <2>1 DEF CharOf, HexDigits
  <2>4. <<>> \in Seq(Marks) /\ 1..Len(<<>>) = {}
    OBVIOUS
  <2> QED BY <1>3, <2>2, <2>3, <2>4
<1>4. CASE ~InEscape(w, i)
  <2>1. w[i] \in QueryBytes
    BY <1>1
  <2>2. CASE w[i] \in {"%", "+"}
    <3>1. CharOf(w, i) = <<"o">>
      BY <1>4, <2>2 DEF CharOf
    <3>2. Written("o") = <<"o">>
      BY DEF Written
    <3> QED BY <1>2, <1>4, <2>2, <3>1, <3>2
  <2>3. CASE w[i] = "'"
    <3>1. CharOf(w, i) = <<"backslash", "'">>
      BY <1>4, <2>3 DEF CharOf
    <3>2. Written("'") = <<"backslash", "'">>
      BY DEF Written
    <3> QED BY <1>2, <1>4, <2>3, <3>1, <3>2
  <2>4. CASE w[i] \notin {"%", "+"} /\ w[i] # "'"
    <3>1. CharOf(w, i) = <<w[i]>>
      BY <1>4, <2>4 DEF CharOf
    <3>2. w[i] \in Marks \ {"NUL", "newline"}
      BY <1>2, <2>1
    <3>3. Written(w[i]) = <<w[i]>>
      BY <2>4, <3>2 DEF Written
    <3> QED BY <1>4, <2>4, <3>1, <3>2, <3>3
  <2> QED BY <2>2, <2>3, <2>4
<1> QED BY <1>3, <1>4

\* A value is decoded byte by byte.
LEMMA DecodedFacts ==
  ASSUME NEW w \in Seq(QueryBytes), WellEncoded(w)
  PROVE  \E g : DecodeSteps(w, g) /\ Decoded(w) = g[Len(w)]
<1> DEFINE chars == [i \in 1..Len(w) |-> CharOf(w, i)]
           C == Seq(Marks)
<1>1. Decoded(w) = FlattenSeq(chars)
  BY Zenon DEF Decoded, CharOf, InEscape
<1>2. Len(w) \in Nat
  OBVIOUS
<1>3. \A i \in 1..Len(w) : CharOf(w, i) \in C
  BY CharOfFacts
<1>4. chars \in Seq(C) /\ Len(chars) = Len(w) /\ \A i \in 1..Len(w) : chars[i] = CharOf(w, i)
  <2> HIDE DEF C
  <2> QED BY <1>2, <1>3, IsASeq
<1> HIDE DEF chars
<1>5. PICK g : Joins(chars, g)
  BY <1>4, JoinsExist
<1>6. FlattenSeq(chars) = g[Len(w)]
  BY <1>4, <1>5, FlattenFacts
<1>7. DecodeSteps(w, g)
  BY <1>4, <1>5 DEF Joins, DecodeSteps
<1> QED BY <1>1, <1>6, <1>7

\* The way to the end: longer and longer, and without a NUL.
LEMMA DecodeGrows ==
  ASSUME NEW w \in Seq(QueryBytes), WellEncoded(w), NEW g, DecodeSteps(w, g)
  PROVE  \A k \in 0..Len(w) : /\ Len(g[k]) \in Nat /\ Len(g[k]) <= Len(g[Len(w)])
                              /\ \A j \in 1..Len(g[k]) : g[k][j] # "NUL"
<1> DEFINE n == Len(w)
           Rising(k) == \A j \in 0..k : Len(g[j]) <= Len(g[k])
           Plain(k) == \A j \in 1..Len(g[k]) : g[k][j] # "NUL"
           P == {k \in Nat : k <= n => Rising(k) /\ Plain(k)}
<1>1. /\ g \in [0..n -> Seq(Marks)] /\ g[0] = <<>>
      /\ \A k \in 1..n : g[k] = g[k - 1] \o CharOf(w, k)
  BY DEF DecodeSteps
<1>2. n \in Nat
  OBVIOUS
<1>3. \A k \in 1..n : /\ CharOf(w, k) \in Seq(Marks)
                      /\ \A j \in 1..Len(CharOf(w, k)) : CharOf(w, k)[j] # "NUL"
  BY CharOfFacts
<1> HIDE DEF n
<1>4. \A k \in 0..n : g[k] \in Seq(Marks) /\ Len(g[k]) \in Nat
  BY <1>1, LenProperties
<1>5. ASSUME NEW k \in Nat, k + 1 <= n
      PROVE  Len(g[k]) <= Len(g[k + 1]) /\ (Plain(k) => Plain(k + 1))
  <2> DEFINE x == g[k] y == CharOf(w, k + 1) z == g[k + 1]
  <2>1. k \in 0..n /\ k + 1 \in 1..n /\ (k + 1) - 1 = k
    BY <1>2, <1>5
  <2>2. /\ x \in Seq(Marks) /\ y \in Seq(Marks) /\ z = x \o y
        /\ \A j \in 1..Len(y) : y[j] # "NUL"
    BY <1>1, <1>3, <1>4, <2>1
  <2> DEFINE a == Len(x) b == Len(y)
  <2> HIDE DEF x, y, z
  <2>3. /\ Len(z) = a + b /\ a \in Nat /\ b \in Nat
        /\ (\A j \in 1..a : z[j] = x[j]) /\ \A j \in 1..b : z[a + j] = y[j]
    <3>1. /\ Len(z) = a + b /\ a \in Nat /\ b \in Nat
          /\ \A j \in 1..a + b : z[j] = IF j <= a THEN x[j] ELSE y[j - a]
      BY <2>2, ConcatProperties, LenProperties
    <3> HIDE DEF a, b
    <3>2. \A j \in 1..a : j \in 1..a + b /\ j <= a
      BY <3>1
    <3>3. \A j \in 1..b : a + j \in 1..a + b /\ ~(a + j <= a) /\ (a + j) - a = j
      BY <3>1
    <3> QED BY <3>1, <3>2, <3>3
  <2>4. a <= Len(z)
    <3> HIDE DEF a, b
    <3> QED BY <2>3
  <2>5. ASSUME \A j \in 1..a : x[j] # "NUL", NEW j \in 1..Len(z) PROVE z[j] # "NUL"
    <3> HIDE DEF a, b
    <3>1. CASE j \in 1..a
      BY <2>3, <2>5, <3>1
    <3>2. CASE j \notin 1..a
      <4>1. j - a \in 1..b /\ a + (j - a) = j
        BY <2>3, <2>5, <3>2
      <4> QED BY <2>2, <2>3, <4>1 DEF b
    <3> QED BY <3>1, <3>2
  <2> QED BY <2>4, <2>5 DEF x, z
<1> HIDE DEF Plain
<1>6. 0 \in P
  <2>1. Plain(0)
    BY <1>1 DEF Plain
  <2>2. Rising(0)
    BY <1>1
  <2> QED BY <2>1, <2>2
<1>7. ASSUME NEW k \in Nat, k \in P PROVE k + 1 \in P
  <2>1. SUFFICES ASSUME k + 1 <= n PROVE Rising(k + 1) /\ Plain(k + 1)
    OBVIOUS
  <2>2. k <= n
    BY <1>2, <2>1
  <2>3. Rising(k) /\ Plain(k)
    BY <1>7, <2>2
  <2>4. Len(g[k]) <= Len(g[k + 1]) /\ Plain(k + 1)
    BY <1>5, <2>1, <2>3
  <2>5. ASSUME NEW j \in 0..k + 1 PROVE Len(g[j]) <= Len(g[k + 1])
    <3>1. Len(g[j]) \in Nat /\ Len(g[k]) \in Nat /\ Len(g[k + 1]) \in Nat
      BY <1>2, <1>4, <2>1
    <3>2. j \in 0..k \/ j = k + 1
      OBVIOUS
    <3>3. CASE j \in 0..k
      BY <2>3, <2>4, <3>1, <3>3
    <3>4. CASE j = k + 1
      BY <3>1, <3>4
    <3> QED BY <3>2, <3>3, <3>4
  <2> QED BY <2>4, <2>5
<1>8. P = Nat
  <2>1. P \in SUBSET Nat
    OBVIOUS
  <2> HIDE DEF P
  <2> QED BY <1>6, <1>7, <2>1, Induction
<1>9. ASSUME NEW k \in 0..n PROVE Len(g[k]) <= Len(g[n]) /\ Plain(k)
  <2>1. n \in P /\ k \in P
    BY <1>2, <1>8
  <2> QED BY <1>2, <2>1
<1> QED BY <1>4, <1>9 DEF Plain, n

\* The next character: three bytes of an escape, or one byte.
LEMMA DecodeTurn ==
  ASSUME NEW w \in Seq(QueryBytes), WellEncoded(w), NEW g, DecodeSteps(w, g),
         NEW c \in 0..Len(w) - 1, ~InEscape(w, c + 1)
  PROVE  /\ w[c + 1] = "%" =>
              /\ c + 3 <= Len(w) /\ w[c + 2] \in HexDigits /\ w[c + 3] \in HexDigits
              /\ g[c + 3] = g[c] \o Written("o")
              /\ ~InEscape(w, c + 4)
         /\ w[c + 1] # "%" =>
              /\ g[c + 1] = g[c] \o Written(IF w[c + 1] = "+" THEN "o" ELSE w[c + 1])
              /\ ~InEscape(w, c + 2)
<1> DEFINE n == Len(w)
           Char(k) == CharOf(w, k)
<1>1. /\ g \in [0..n -> Seq(Marks)]
      /\ \A k \in 1..n : g[k] = g[k - 1] \o Char(k)
  BY DEF DecodeSteps
<1>2. n \in Nat /\ c \in Nat /\ c < n /\ c + 1 \in 1..n
  <2>1. n \in Nat
    OBVIOUS
  <2> HIDE DEF n
  <2>2. c \in 0..n - 1
    BY DEF n
  <2> QED BY <2>1, <2>2
<1>3. Char(c + 1) = Written(IF w[c + 1] \in {"%", "+"} THEN "o" ELSE w[c + 1])
  BY <1>2, CharOfFacts
<1> HIDE DEF Char
<1>4. g[c + 1] = g[c] \o Char(c + 1) /\ g[c] \in Seq(Marks)
  <2>1. (c + 1) - 1 = c /\ c \in 0..n
    BY <1>2
  <2> QED BY <1>1, <1>2, <2>1
<1>5. c + 1 > 1 => w[c] # "%"
  <2>1. (c + 1) - 1 = c /\ 1 \in {1, 2}
    BY <1>2
  <2> QED BY <2>1 DEF InEscape
<1>6. ASSUME w[c + 1] = "%"
      PROVE  /\ c + 3 <= n /\ w[c + 2] \in HexDigits /\ w[c + 3] \in HexDigits
             /\ g[c + 3] = g[c] \o Written("o")
             /\ ~InEscape(w, c + 4)
  <2>1. c + 3 <= n /\ w[c + 2] \in HexDigits /\ w[c + 3] \in HexDigits
    <3>1. (c + 1) + 2 <= n /\ {w[(c + 1) + 1], w[(c + 1) + 2]} \subseteq HexDigits
      BY <1>2, <1>6 DEF WellEncoded
    <3>2. (c + 1) + 2 = c + 3 /\ (c + 1) + 1 = c + 2
      BY <1>2
    <3> QED BY <3>1, <3>2
  <2>2. /\ c + 2 \in 1..n /\ (c + 2) - 1 = c + 1 /\ c + 3 \in 1..n /\ (c + 3) - 1 = c + 2
        /\ (c + 3) - 2 = c + 1 /\ c + 2 > 1 /\ c + 3 > 2
        /\ c + 4 - 1 = c + 3 /\ c + 4 - 2 = c + 2
    BY <1>2, <2>1
  <2>3. InEscape(w, c + 2)
    <3>1. 1 \in {1, 2} /\ c + 2 > 1 /\ w[(c + 2) - 1] = "%"
      BY <1>6, <2>2
    <3> QED BY <3>1, Zenon DEF InEscape
  <2>4. InEscape(w, c + 3)
    <3>1. 2 \in {1, 2} /\ c + 3 > 2 /\ w[(c + 3) - 2] = "%"
      BY <1>6, <2>2
    <3> QED BY <3>1, Zenon DEF InEscape
  <2>5. Char(c + 2) = <<>> /\ Char(c + 3) = <<>>
    BY <2>2, <2>3, <2>4, CharOfFacts DEF Char
  <2>6. g[c + 2] = g[c + 1] \o <<>> /\ g[c + 3] = g[c + 2] \o <<>>
    BY <1>1, <2>2, <2>5
  <2>7. g[c + 1] \in Seq(Marks) /\ g[c + 2] \in Seq(Marks)
    <3>1. c + 1 \in 0..n /\ c + 2 \in 0..n
      BY <1>2, <2>1
    <3> QED BY <1>1, <3>1
  <2>8. g[c + 3] = g[c + 1]
    <3>1. \A x \in Seq(Marks) : x \o <<>> = x
      BY ConcatEmptySeq
    <3> QED BY <2>6, <2>7, <3>1
  <2>9. ~InEscape(w, c + 4)
    <3>1. w[c + 3] # "%" /\ w[c + 2] # "%"
      BY <2>1 DEF HexDigits
    <3> QED BY <2>2, <3>1 DEF InEscape
  <2> QED BY <1>3, <1>4, <1>6, <2>1, <2>8, <2>9
<1>7. ASSUME w[c + 1] # "%"
      PROVE  /\ g[c + 1] = g[c] \o Written(IF w[c + 1] = "+" THEN "o" ELSE w[c + 1])
             /\ ~InEscape(w, c + 2)
  <2>1. (c + 2) - 1 = c + 1 /\ (c + 2) - 2 = c /\ (c + 2 > 2 => c + 1 > 1)
    BY <1>2
  <2>2. ~InEscape(w, c + 2)
    BY <1>5, <1>7, <2>1 DEF InEscape
  <2>3. Char(c + 1) = Written(IF w[c + 1] = "+" THEN "o" ELSE w[c + 1])
    BY <1>3, <1>7
  <2> QED BY <1>4, <2>2, <2>3
<1> QED BY <1>6, <1>7

-----------------------------------------------------------------------------
(***************************************************************************)
(* Numbers.                                                                *)
(***************************************************************************)

HasPoint(x) == \E i \in 1..Len(x) : x[i] = "."

MayStand(c, i) == c \in {"9", "."} \/ (c = "-" /\ i = 1)

\* A number with one character more.
LEMMA NumberAppend ==
  ASSUME NEW x \in Seq(Marks), NEW c \in Marks
  PROVE  /\ IsNumber(Append(x, c)) <=>
              IsNumber(x) /\ MayStand(c, Len(x) + 1) /\ (c = "." => ~HasPoint(x))
         /\ HasPoint(Append(x, c)) <=> HasPoint(x) \/ c = "."
<1> DEFINE n == Len(x)
           y == Append(x, c)
<1>1. /\ n \in Nat /\ Len(y) = n + 1 /\ y[n + 1] = c
      /\ \A i \in 1..n : y[i] = x[i]
  BY AppendProperties, LenProperties
<1>2. /\ IsNumber(x) <=> /\ \A i \in 1..n : MayStand(x[i], i)
                         /\ \A i, k \in 1..n : x[i] = "." /\ x[k] = "." => i = k
      /\ IsNumber(y) <=> /\ \A i \in 1..Len(y) : MayStand(y[i], i)
                         /\ \A i, k \in 1..Len(y) : y[i] = "." /\ y[k] = "." => i = k
  BY Zenon DEF IsNumber, MayStand
<1>3. HasPoint(x) <=> \E i \in 1..n : x[i] = "."
  BY DEF HasPoint
<1>4. HasPoint(y) <=> \E i \in 1..Len(y) : y[i] = "."
  BY DEF HasPoint
<1> HIDE DEF n, y
<1>5. n + 1 \in 1..n + 1 /\ n + 1 \notin 1..n /\ 1..n \subseteq 1..n + 1
      /\ \A i \in 1..n + 1 : i \in 1..n \/ i = n + 1
  BY <1>1
<1>6. HasPoint(y) <=> HasPoint(x) \/ c = "."
  BY <1>1, <1>3, <1>4, <1>5
<1>7. ASSUME IsNumber(y)
      PROVE  IsNumber(x) /\ MayStand(c, n + 1) /\ (c = "." => ~HasPoint(x))
  <2>1. /\ \A i \in 1..n + 1 : MayStand(y[i], i)
        /\ \A i, k \in 1..n + 1 : y[i] = "." /\ y[k] = "." => i = k
    BY <1>1, <1>2, <1>7
  <2>2. \A i \in 1..n : MayStand(x[i], i)
    BY <1>1, <1>5, <2>1
  <2>3. \A i, k \in 1..n : x[i] = "." /\ x[k] = "." => i = k
    BY <1>1, <1>5, <2>1
  <2>4. MayStand(c, n + 1)
    BY <1>1, <1>5, <2>1
  <2>5. c = "." => ~HasPoint(x)
    BY <1>1, <1>3, <1>5, <2>1
  <2> QED BY <1>2, <2>2, <2>3, <2>4, <2>5
<1>8. ASSUME IsNumber(x), MayStand(c, n + 1), c = "." => ~HasPoint(x)
      PROVE  IsNumber(y)
  <2>1. \A i \in 1..n + 1 : MayStand(y[i], i)
    BY <1>1, <1>2, <1>5, <1>8
  <2>2. \A i, k \in 1..n + 1 : y[i] = "." /\ y[k] = "." => i = k
    BY <1>1, <1>2, <1>3, <1>5, <1>8
  <2> QED BY <1>1, <1>2, <2>1, <2>2
<1> QED BY <1>6, <1>7, <1>8 DEF n, y

\* What the loop goes by is what makes a number.
LEMMA NumberGrows ==
  ASSUME NEW x \in Seq(Marks), NEW c \in Marks, NEW d,
         IsNumber(x) => (d <=> HasPoint(x))
  PROVE  LET y == x \o Written(c)
         IN  /\ IsNumber(y) <=> IsNumber(x) /\ NumberGoesOn(Last(y), y, d)
             /\ IsNumber(y) => (d \/ Last(y) = "." <=> HasPoint(y))
<1> DEFINE n == Len(x)
           y == x \o Written(c)
           dot == d
<1>1. n \in Nat
  OBVIOUS
<1>2. CASE c = "'" \/ c = "newline"
  <2>1. PICK z \in {"'", "n"} : Written(c) = <<"backslash", z>>
    BY <1>2 DEF Written
  <2>2. y \in Seq(Marks) /\ Len(y) = n + 2 /\ y[n + 1] = "backslash" /\ y[n + 2] = z
    <3>1. {"backslash", z} \subseteq Marks
      BY DEF Marks, QueryBytes
    <3> QED BY <2>1, <3>1
  <2> HIDE DEF n, y
  <2>3. n + 1 \in 1..Len(y) /\ Last(y) = z
    BY <1>1, <2>2 DEF Last
  <2>4. ~IsNumber(y)
    BY <2>2, <2>3 DEF IsNumber
  <2>5. ~NumberGoesOn(Last(y), y, dot)
    <3> HIDE DEF dot
    <3> QED BY <2>3 DEF NumberGoesOn
  <2> QED BY <2>4, <2>5, Zenon DEF y, dot
<1>3. CASE ~(c = "'" \/ c = "newline")
  <2>1. Written(c) = <<c>>
    BY <1>3 DEF Written
  <2>2. y = Append(x, c) /\ Len(y) = n + 1 /\ Last(y) = c
    <3>1. y = Append(x, c)
      BY <2>1
    <3>2. Len(Append(x, c)) = n + 1 /\ Append(x, c)[n + 1] = c
      BY AppendProperties
    <3> QED BY <3>1, <3>2 DEF Last
  <2> HIDE DEF n, y
  <2>3. /\ IsNumber(y) <=> IsNumber(x) /\ MayStand(c, n + 1) /\ (c = "." => ~HasPoint(x))
        /\ HasPoint(y) <=> HasPoint(x) \/ c = "."
    BY <2>2, NumberAppend DEF n
  <2>4. NumberGoesOn(c, y, dot) <=> c = "9" \/ (c = "." /\ ~d) \/ (c = "-" /\ n = 0)
    <3>1. Len(y) = 1 <=> n = 0
      BY <1>1, <2>2
    <3>2. NumberGoesOn(c, y, dot) <=> c = "9" \/ (c = "." /\ ~d) \/ (c = "-" /\ Len(y) = 1)
      BY Zenon DEF NumberGoesOn, dot
    <3> QED BY <3>1, <3>2, Zenon
  <2>5. MayStand(c, n + 1) <=> c = "9" \/ c = "." \/ (c = "-" /\ n = 0)
    BY <1>1 DEF MayStand
  <2>6. c = "." => c # "9" /\ c # "-"
    OBVIOUS
  <2> QED BY <2>2, <2>3, <2>4, <2>5, <2>6, Zenon DEF y, dot
<1> QED BY <1>2, <1>3

-----------------------------------------------------------------------------
(***************************************************************************)
(* The loop over a value, when all is well.                                *)
(***************************************************************************)

\* A turn of the loop, field by field.
LEMMA TurnExact ==
  ASSUME NEW text, NEW v \in ValueState
  PROVE  LET here  == ByteAt(text, PlaceOf(text, v))
             cells == v.cells \o Written(CharAt(text, v))
             w     == ValueByte(text, v)
         IN  /\ w.cells = IF here = "&" THEN Append(Front(cells), "NUL") ELSE cells
             /\ w.pos = IF Ends(here) /\ here # "&" THEN PlaceOf(text, v) ELSE PlaceOf(text, v) + 1
             /\ w.fault = FaultOf(text, v)
             /\ w.done <=> Ends(here) \/ FaultOf(text, v) # "none"
             /\ w.number <=> v.number /\ (Ends(here) \/ NumberGoesOn(Last(cells), cells, v.decimal))
             /\ w.decimal <=> v.decimal \/ (v.number /\ ~Ends(here) /\ Last(cells) = ".")
<1> DEFINE here  == ByteAt(text, PlaceOf(text, v))
           cells == v.cells \o Written(CharAt(text, v))
           w == ValueByte(text, v)
           kept == IF here = "&" THEN Append(Front(cells), "NUL") ELSE cells
           pos == IF Ends(here) /\ here # "&" THEN PlaceOf(text, v) ELSE PlaceOf(text, v) + 1
           char == CharAt(text, v)
           fault == FaultOf(text, v)
           number == v.number /\ (Ends(here) \/ NumberGoesOn(Last(cells), cells, v.decimal))
           decimal == v.decimal \/ (v.number /\ ~Ends(here) /\ Last(cells) = ".")
           done == Ends(here) \/ FaultOf(text, v) # "none"
<1>1. w = ValueOf(kept, pos, char, number, decimal, fault, done)
  BY Zenon DEF ValueByte, ValueOf, CharAt, PlaceOf, FaultOf
<1> HIDE DEF kept, pos, char, number, decimal, fault, done, w
<1>2. w.cells = kept /\ w.pos = pos /\ w.number = number /\ w.decimal = decimal
      /\ w.fault = fault /\ w.done = done
  <2>1. LET u == ValueOf(kept, pos, char, number, decimal, fault, done)
        IN  /\ u.cells = kept /\ u.pos = pos /\ u.next_char = char /\ u.number = number
            /\ u.decimal = decimal /\ u.fault = fault /\ u.done = done
            /\ (/\ kept \in Seq(Marks) /\ pos \in Nat /\ char \in Marks /\ number \in BOOLEAN
                /\ decimal \in BOOLEAN /\ fault \in Faults /\ done \in BOOLEAN)
               => u \in ValueState
    BY ValueForms
  <2> QED BY <1>1, <2>1, Zenon
<1> QED BY <1>2, Zenon DEF kept, pos, number, decimal, fault, done, w

\* The value w lies at place i of the text, and the text or the pair ends
\* behind it.
Lies(text, i, w) ==
  /\ Segment(text, i, w)
  /\ Ends(ByteAt(text, i + Len(w)))

\* The bytes of a segment as the loops read them.
LEMMA SegmentBytes ==
  ASSUME NEW text \in Seq(QueryBytes), NEW i, NEW w, Segment(text, i, w)
  PROVE  /\ Len(w) \in Nat /\ i \in Nat /\ i + Len(w) <= Len(text)
         /\ \A k \in 0..Len(w) - 1 : /\ ByteAt(text, i + k) = w[k + 1]
                                     /\ w[k + 1] \in QueryBytes \ {"&"}
<1>1. /\ i \in Nat /\ w \in Seq(QueryBytes) /\ i + Len(w) <= Len(text)
      /\ \A k \in 1..Len(w) : text[i + k] = w[k] /\ w[k] # "&"
  BY DEF Segment
<1> DEFINE n == Len(w) l == Len(text)
<1>2. n \in Nat /\ l \in Nat /\ \A k \in 1..n : w[k] \in QueryBytes
  BY <1>1, LenProperties, ElementOfSeq
<1> HIDE DEF n, l
<1>3. ASSUME NEW k \in 0..n - 1
      PROVE  ByteAt(text, i + k) = w[k + 1] /\ w[k + 1] \in QueryBytes \ {"&"}
  <2>1. k + 1 \in 1..n /\ i + k < l /\ (i + k) + 1 = i + (k + 1) /\ i + k \in Nat
    BY <1>1, <1>2 DEF n, l
  <2>2. text[i + (k + 1)] = w[k + 1] /\ w[k + 1] # "&" /\ w[k + 1] \in QueryBytes
    BY <1>1, <1>2, <2>1 DEF n
  <2>3. ByteAt(text, i + k) = text[(i + k) + 1]
    BY <2>1, Bytes DEF l
  <2> QED BY <2>1, <2>2, <2>3
<1> QED BY <1>1, <1>2, <1>3 DEF n

\* The loop has read c bytes of w, and is not in an escape.
InValue(i, w, g, v, c) ==
  /\ c \in 0..Len(w) /\ ~InEscape(w, c + 1)
  /\ v.pos = i + c /\ v.cells = g[c] /\ v.fault = "none" /\ ~v.done
  /\ v.number <=> IsNumber(g[c])
  /\ IsNumber(g[c]) => (v.decimal <=> HasPoint(g[c]))

\* The loop has read w, and what ends it.
PastValue(text, i, w, g, v) ==
  /\ v.pos = IF ByteAt(text, i + Len(w)) = "&" THEN i + Len(w) + 1 ELSE i + Len(w)
  /\ v.cells = Append(g[Len(w)], "NUL") /\ v.fault = "none" /\ v.done
  /\ v.number <=> IsNumber(g[Len(w)])

\* A turn that reads a character.
LEMMA TurnInside ==
  ASSUME NEW text \in Seq(QueryBytes), NEW i \in Nat, NEW w, Lies(text, i, w), WellEncoded(w),
         NEW g, DecodeSteps(w, g), Len(g[Len(w)]) < ValueSize,
         NEW v \in ValueState, NEW c \in 0..Len(w) - 1, InValue(i, w, g, v, c)
  PROVE  \E d : InValue(i, w, g, ValueByte(text, v), d)
<1> DEFINE n == Len(w)
           byte == w[c + 1]
           d == IF byte = "%" THEN c + 3 ELSE c + 1
           char == IF byte = "%" \/ byte = "+" THEN "o" ELSE byte
           u == ValueByte(text, v)
<1>1. /\ n \in Nat /\ i + n <= Len(text) /\ w \in Seq(QueryBytes)
      /\ \A k \in 0..n - 1 : ByteAt(text, i + k) = w[k + 1] /\ w[k + 1] \in QueryBytes \ {"&"}
  <2>1. Segment(text, i, w)
    BY DEF Lies
  <2>2. w \in Seq(QueryBytes)
    BY <2>1 DEF Segment
  <2> QED BY <2>1, <2>2, SegmentBytes
<1>2. /\ ~InEscape(w, c + 1)
      /\ v.pos = i + c /\ v.cells = g[c] /\ v.fault = "none" /\ ~v.done
      /\ v.number <=> IsNumber(g[c])
      /\ IsNumber(g[c]) => (v.decimal <=> HasPoint(g[c]))
  BY Zenon DEF InValue
<1>3. /\ byte = "%" =>
           /\ c + 3 <= n /\ w[c + 2] \in HexDigits /\ w[c + 3] \in HexDigits
           /\ g[c + 3] = g[c] \o Written("o")
           /\ ~InEscape(w, c + 4)
      /\ byte # "%" =>
           /\ g[c + 1] = g[c] \o Written(IF byte = "+" THEN "o" ELSE byte)
           /\ ~InEscape(w, c + 2)
  BY <1>1, <1>2, DecodeTurn
<1>4. /\ \A k \in 0..n : /\ Len(g[k]) \in Nat /\ Len(g[k]) <= Len(g[n])
                         /\ \A j \in 1..Len(g[k]) : g[k][j] # "NUL"
      /\ g \in [0..n -> Seq(Marks)]
  BY <1>1, DecodeGrows DEF DecodeSteps
<1> HIDE DEF n
<1>5. c \in 0..n - 1 /\ c \in 0..n /\ c \in Nat
  BY <1>1 DEF n
<1>6. /\ d \in 0..n /\ d > c /\ d - 1 \in 0..n - 1
      /\ g[d] = g[c] \o Written(char) /\ ~InEscape(w, d + 1)
  <2>1. CASE byte = "%"
    <3>1. (c + 3) + 1 = c + 4
      BY <1>5
    <3> QED BY <1>1, <1>3, <1>5, <2>1, <3>1
  <2>2. CASE byte # "%"
    <3>1. (c + 1) + 1 = c + 2
      BY <1>5
    <3>2. d = c + 1 /\ char = IF byte = "+" THEN "o" ELSE byte
      BY <2>2
    <3>3. g[c + 1] = g[c] \o Written(char) /\ ~InEscape(w, (c + 1) + 1)
      <4>1. g[c + 1] = g[c] \o Written(IF byte = "+" THEN "o" ELSE byte) /\ ~InEscape(w, c + 2)
        BY <1>3, <2>2
      <4> QED BY <3>1, <3>2, <4>1, Zenon
    <3> HIDE DEF d, char
    <3>4. d \in 0..n /\ d > c /\ d - 1 \in 0..n - 1
      BY <1>1, <1>5, <3>2
    <3> QED BY <3>2, <3>3, <3>4, Zenon
  <2> QED BY <2>1, <2>2, Zenon
<1>7. byte \in QueryBytes /\ ByteAt(text, v.pos) = byte
  BY <1>1, <1>2, <1>5
<1>8. PlaceOf(text, v) = i + (d - 1)
  <2>1. CASE byte = "%"
    BY <1>2, <1>5, <1>7, <2>1 DEF PlaceOf
  <2>2. CASE byte # "%"
    BY <1>2, <1>5, <1>7, <2>2 DEF PlaceOf
  <2> QED BY <2>1, <2>2
<1>9. CharAt(text, v) = char
  <2>1. CASE byte = "%"
    <3>1. ByteAt(text, v.pos + 1) = w[c + 2] /\ ByteAt(text, v.pos + 2) = w[c + 3]
      <4>1. /\ c + 1 \in 0..n - 1 /\ c + 2 \in 0..n - 1 /\ (i + c) + 1 = i + (c + 1)
            /\ (i + c) + 2 = i + (c + 2) /\ (c + 1) + 1 = c + 2 /\ (c + 2) + 1 = c + 3
        BY <1>1, <1>3, <1>5, <2>1
      <4> QED BY <1>1, <1>2, <4>1
    <3>2. Scanned(w[c + 2], w[c + 3], v.next_char) = "o"
      BY <1>3, <2>1 DEF Scanned
    <3>3. CharAt(text, v) = Scanned(w[c + 2], w[c + 3], v.next_char)
      BY <1>7, <2>1, <3>1 DEF CharAt
    <3> QED BY <2>1, <3>2, <3>3
  <2>2. CASE byte = "+"
    BY <1>7, <2>2 DEF CharAt
  <2>3. CASE byte # "%" /\ byte # "+"
    BY <1>7, <2>3 DEF CharAt
  <2> QED BY <2>1, <2>2, <2>3
<1>10. char \in Marks
  BY <1>7 DEF Marks, QueryBytes
<1> DEFINE here == ByteAt(text, PlaceOf(text, v))
           cells == v.cells \o Written(CharAt(text, v))
<1>11. here \in QueryBytes \ {"&"} /\ ~Ends(here) /\ here # "NUL"
  <2>1. here = w[(d - 1) + 1] /\ here \in QueryBytes \ {"&"}
    BY <1>1, <1>6, <1>8
  <2> QED BY <2>1 DEF Ends, QueryBytes
<1>12. cells = g[d]
  BY <1>2, <1>6, <1>9
<1>13. FaultOf(text, v) = "none"
  <2>1. ~(PlaceOf(text, v) > Len(text))
    <3>1. i + (d - 1) <= i + n /\ Len(text) \in Nat
      BY <1>1, <1>6
    <3> HIDE DEF d
    <3> QED BY <1>1, <1>6, <1>8, <3>1
  <2>2. ~(Len(cells) > ValueSize)
    <3>1. Len(g[d]) \in Nat /\ Len(g[n]) \in Nat /\ Len(g[d]) <= Len(g[n])
      <4>1. d \in 0..n /\ n \in 0..n
        BY <1>1, <1>6
      <4> HIDE DEF d
      <4> QED BY <1>4, <4>1
    <3>2. ValueSize \in Nat
      BY QueryAssumption
    <3>3. Len(g[n]) < ValueSize
      BY DEF n
    <3> HIDE DEF d, cells
    <3> QED BY <1>12, <3>1, <3>2, <3>3
  <2> QED BY <1>11, <2>1, <2>2, Zenon DEF FaultOf
<1>14. /\ u.cells = (IF here = "&" THEN Append(Front(cells), "NUL") ELSE cells)
       /\ u.pos = (IF Ends(here) /\ here # "&" THEN PlaceOf(text, v) ELSE PlaceOf(text, v) + 1)
       /\ u.fault = FaultOf(text, v)
       /\ u.done <=> Ends(here) \/ FaultOf(text, v) # "none"
       /\ u.number <=> v.number /\ (Ends(here) \/ NumberGoesOn(Last(cells), cells, v.decimal))
       /\ u.decimal <=> v.decimal \/ (v.number /\ ~Ends(here) /\ Last(cells) = ".")
  BY TurnExact
<1> HIDE DEF u, here, cells, d, char
<1>15. u.cells = g[d] /\ u.pos = i + d /\ u.fault = "none"
  <2>1. (i + (d - 1)) + 1 = i + d
    BY <1>6
  <2> QED BY <1>8, <1>11, <1>12, <1>13, <1>14, <2>1
<1>16. ~u.done
  BY <1>11, <1>13, <1>14, Zenon
<1>17. /\ u.number <=> v.number /\ NumberGoesOn(Last(cells), cells, v.decimal)
       /\ u.decimal <=> v.decimal \/ (v.number /\ Last(cells) = ".")
  BY <1>11, <1>14, Zenon
<1>18. /\ IsNumber(cells) <=> IsNumber(g[c]) /\ NumberGoesOn(Last(cells), cells, v.decimal)
       /\ IsNumber(cells) => (v.decimal \/ Last(cells) = "." <=> HasPoint(cells))
  <2>1. g[c] \in Seq(Marks)
    BY <1>4, <1>5
  <2>2. LET y == g[c] \o Written(char)
        IN  /\ IsNumber(y) <=> IsNumber(g[c]) /\ NumberGoesOn(Last(y), y, v.decimal)
            /\ IsNumber(y) => (v.decimal \/ Last(y) = "." <=> HasPoint(y))
    BY <1>2, <1>10, <2>1, NumberGrows
  <2>3. cells = g[c] \o Written(char)
    BY <1>6, <1>12
  <2> QED BY <2>2, <2>3, Zenon
<1>19. /\ u.number <=> IsNumber(g[d])
       /\ IsNumber(g[d]) => (u.decimal <=> HasPoint(g[d]))
  <2>1. /\ u.number <=> IsNumber(cells)
        /\ IsNumber(cells) => (u.decimal <=> HasPoint(cells))
    BY <1>2, <1>17, <1>18, Zenon
  <2> QED BY <1>12, <2>1, Zenon
<1>20. InValue(i, w, g, u, d)
  BY <1>6, <1>15, <1>16, <1>19, Zenon DEF InValue, n
<1> QED BY <1>20, Zenon DEF u

\* The turn that reads what ends the value.
LEMMA TurnAtEnd ==
  ASSUME NEW text \in Seq(QueryBytes), NEW i \in Nat, NEW w, Lies(text, i, w), WellEncoded(w),
         NEW g, DecodeSteps(w, g), Len(g[Len(w)]) < ValueSize,
         NEW v \in ValueState, InValue(i, w, g, v, Len(w))
  PROVE  PastValue(text, i, w, g, ValueByte(text, v))
<1> DEFINE n == Len(w)
           byte == ByteAt(text, i + n)
           x == g[n]
           u == ValueByte(text, v)
<1>1. n \in Nat /\ i + n <= Len(text) /\ w \in Seq(QueryBytes) /\ Ends(byte)
  <2>1. Segment(text, i, w) /\ Ends(byte)
    BY DEF Lies
  <2>2. w \in Seq(QueryBytes)
    BY <2>1 DEF Segment
  <2> QED BY <2>1, <2>2, SegmentBytes
<1>2. /\ v.pos = i + n /\ v.cells = x /\ v.fault = "none"
      /\ v.number <=> IsNumber(x)
  BY Zenon DEF InValue
<1>3. x \in Seq(Marks)
  <2> HIDE DEF n
  <2>1. n \in 0..n
    BY <1>1
  <2> QED BY <2>1 DEF DecodeSteps, n
<1> DEFINE here == ByteAt(text, PlaceOf(text, v))
           cells == v.cells \o Written(CharAt(text, v))
<1>4. PlaceOf(text, v) = i + n /\ here = byte
  <2>1. byte # "%"
    BY <1>1 DEF Ends
  <2> QED BY <1>2, <2>1 DEF PlaceOf
<1>5. CharAt(text, v) = byte
  <2>1. byte # "%" /\ byte # "+"
    BY <1>1 DEF Ends
  <2>2. ByteAt(text, v.pos) = byte
    BY <1>2
  <2> HIDE DEF byte
  <2> QED BY <2>1, <2>2 DEF CharAt
<1>6. byte \in {"&", "NUL"} /\ byte \in Marks
  BY <1>1 DEF Ends, Marks, QueryBytes
<1>7. Written(byte) = <<byte>>
  BY <1>6 DEF Written
<1>8. cells = Append(x, byte)
  <2>1. cells = x \o <<byte>>
    BY <1>2, <1>5, <1>7
  <2> HIDE DEF x, byte, cells
  <2>2. x \o <<byte>> = Append(x, byte)
    BY <1>3, <1>6
  <2> QED BY <2>1, <2>2
<1> HIDE DEF n, x, byte
<1>9. Len(x) \in Nat /\ Len(Append(x, byte)) = Len(x) + 1 /\ Front(Append(x, byte)) = x
  <2> DEFINE y == Append(x, byte) l == Len(x)
  <2>1. /\ y \in Seq(Marks) /\ Len(y) = l + 1 /\ l \in Nat
        /\ \A k \in 1..l : y[k] = x[k]
    BY <1>3, <1>6, AppendProperties, LenProperties
  <2> HIDE DEF y
  <2>2. Front(y) = SubSeq(y, 1, l)
    <3>1. Len(y) - 1 = l
      BY <2>1
    <3> QED BY <3>1 DEF Front
  <2>3. /\ SubSeq(y, 1, l) \in Seq(Marks) /\ Len(SubSeq(y, 1, l)) = l
        /\ \A k \in 1..l : SubSeq(y, 1, l)[k] = y[k]
    <3> HIDE DEF l
    <3>1. \A k \in 1..l : y[k] \in Marks
      <4>1. \A k \in 1..l : k \in 1..Len(y)
        BY <2>1
      <4> QED BY <2>1, <4>1, ElementOfSeq
    <3> QED BY <2>1, <3>1, SubSeqProperties
  <2>4. SubSeq(y, 1, l) = x
    BY <1>3, <2>1, <2>3, SeqEqual
  <2> QED BY <2>1, <2>2, <2>4 DEF y
<1>10. FaultOf(text, v) = "none"
  <2>1. ~(PlaceOf(text, v) > Len(text))
    <3>1. Len(text) \in Nat
      OBVIOUS
    <3> QED BY <1>1, <1>4, <3>1
  <2>2. ~(Len(cells) > ValueSize)
    <3>1. ValueSize \in Nat /\ Len(x) < ValueSize
      BY QueryAssumption DEF x, n
    <3> QED BY <1>8, <1>9, <3>1
  <2>3. ~(here = "NUL" /\ CharAt(text, v) # "NUL")
    BY <1>4, <1>5
  <2> QED BY <2>1, <2>2, <2>3, Zenon DEF FaultOf
<1>11. /\ u.cells = (IF here = "&" THEN Append(Front(cells), "NUL") ELSE cells)
       /\ u.pos = (IF Ends(here) /\ here # "&" THEN PlaceOf(text, v) ELSE PlaceOf(text, v) + 1)
       /\ u.fault = FaultOf(text, v)
       /\ u.done <=> Ends(here) \/ FaultOf(text, v) # "none"
       /\ u.number <=> v.number /\ (Ends(here) \/ NumberGoesOn(Last(cells), cells, v.decimal))
  BY TurnExact
<1> HIDE DEF u, here, cells
<1>12. u.cells = Append(x, "NUL")
  BY <1>4, <1>6, <1>8, <1>9, <1>11
<1>13. u.pos = IF byte = "&" THEN i + n + 1 ELSE i + n
  BY <1>1, <1>4, <1>11
<1>14. u.fault = "none" /\ u.done /\ (u.number <=> IsNumber(x))
  BY <1>1, <1>2, <1>4, <1>10, <1>11, Zenon
<1> QED BY <1>12, <1>13, <1>14, Zenon DEF PastValue, u, x, n, byte

\* A cell behind what was read is the first NUL.
LEMMA TerminatedIs ==
  ASSUME NEW x \in Seq(Marks), \A j \in 1..Len(x) : x[j] # "NUL"
  PROVE  Terminated(Append(x, "NUL")) = x
<1> DEFINE y == Append(x, "NUL") l == Len(x)
           I == {j \in 1..Len(y) : y[j] = "NUL"}
           end == SelectInSeq(y, LAMBDA c : c = "NUL")
<1>1. "NUL" \in Marks
  BY DEF Marks
<1>2. /\ y \in Seq(Marks) /\ Len(y) = l + 1 /\ l \in Nat /\ y[l + 1] = "NUL"
      /\ \A k \in 1..l : y[k] = x[k]
  BY <1>1, AppendProperties, LenProperties
<1>3. end = IF I # {} THEN Min(I) ELSE 0
  BY DEF SelectInSeq
<1>4. Terminated(y) = IF end > 0 THEN SubSeq(y, 1, end - 1) ELSE SubSeq(y, 1, ValueSize - 1)
  BY Zenon DEF Terminated
<1> HIDE DEF y, l, end
<1>5. I = {l + 1}
  BY <1>2 DEF l
<1> HIDE DEF I
<1>6. Min(I) = l + 1
  <2>1. \E m \in I : \A k \in I : m <= k
    BY <1>2, <1>5
  <2>2. Min(I) \in I
    BY <2>1, Zenon DEF Min
  <2> QED BY <1>5, <2>2
<1>7. end = l + 1
  BY <1>3, <1>5, <1>6
<1>8. Terminated(y) = SubSeq(y, 1, l)
  <2>1. end > 0 /\ end - 1 = l
    BY <1>2, <1>7
  <2> QED BY <1>4, <2>1
<1>9. /\ SubSeq(y, 1, l) \in Seq(Marks) /\ Len(SubSeq(y, 1, l)) = l
      /\ \A k \in 1..l : SubSeq(y, 1, l)[k] = y[k]
  <2>1. \A k \in 1..l : y[k] \in Marks
    <3>1. \A k \in 1..l : k \in 1..Len(y)
      BY <1>2
    <3> QED BY <1>2, <3>1, ElementOfSeq
  <2> QED BY <1>2, <2>1, SubSeqProperties
<1>10. SubSeq(y, 1, l) = x
  BY <1>2, <1>9, SeqEqual DEF l
<1> QED BY <1>8, <1>10 DEF y

\* A value whose escapes are whole and which fits the buffer is decoded.
LEMMA ValueDecoded ==
  ASSUME NEW text \in Seq(QueryBytes), NEW i \in Nat, 1 <= i, i <= Len(text), NEW next \in Marks,
         NEW w, Lies(text, i, w), WellEncoded(w), Len(Decoded(w)) < ValueSize
  PROVE  LET v == ValueAt(text, i, next)
         IN  /\ v.fault = "none"
             /\ v.pos = IF ByteAt(text, i + Len(w)) = "&" THEN i + Len(w) + 1 ELSE i + Len(w)
             /\ Terminated(v.cells) = Decoded(w)
             /\ v.number <=> IsNumber(Decoded(w))
<1> DEFINE n == Len(w)
<1>1. n \in Nat /\ w \in Seq(QueryBytes)
  <2>1. Segment(text, i, w)
    BY DEF Lies
  <2>2. w \in Seq(QueryBytes)
    BY <2>1 DEF Segment
  <2> QED BY <2>1, <2>2, SegmentBytes
<1>2. PICK g : DecodeSteps(w, g) /\ Decoded(w) = g[n]
  BY <1>1, DecodedFacts
<1>3. /\ \A k \in 0..n : /\ Len(g[k]) \in Nat /\ Len(g[k]) <= Len(g[n])
                         /\ \A j \in 1..Len(g[k]) : g[k][j] # "NUL"
      /\ g \in [0..n -> Seq(Marks)] /\ g[0] = <<>>
  BY <1>1, <1>2, DecodeGrows DEF DecodeSteps
<1>4. ValueSize \in Nat \ {0} /\ Len(g[n]) < ValueSize
  BY <1>2, QueryAssumption
<1> DEFINE After(k) == ValueAfter(text, i, next, Turns(k))
           Good(k) == (\E c : InValue(i, w, g, After(k), c)) \/ PastValue(text, i, w, g, After(k))
           P == {k \in Nat : Good(k)}
<1>5. /\ After(0) = NoValue(i, next)
      /\ \A k \in Nat : After(k) \in Values(text, i) /\ After(k + 1) = Turn(text, After(k))
  BY ValueSteps
<1>6. Filled(After(ValueSize), ValueSize)
  BY <1>4, ValueTurns
<1> HIDE DEF After
<1>7. Good(0)
  <2> DEFINE u == NoValue(i, next)
             none == <<>>
  <2>1. u.cells = none /\ u.pos = i /\ u.fault = "none" /\ ~u.done /\ u.number = TRUE /\ u.decimal = FALSE
    <3>1. u.cells = none /\ u.pos = i /\ u.fault = "none" /\ ~u.done
      BY NoValueRead
    <3>2. u.number = TRUE /\ u.decimal = FALSE
      BY Zenon DEF NoValue, ValueOf
    <3> QED BY <3>1, <3>2, Zenon
  <2>2. IsNumber(none) /\ ~HasPoint(none)
    BY DEF IsNumber, HasPoint
  <2>3. ~InEscape(w, 0 + 1) /\ 0 \in 0..n /\ i = i + 0
    <3>1. 0 + 1 = 1 /\ ~(1 > 1) /\ ~(1 > 2)
      OBVIOUS
    <3>2. ~InEscape(w, 1)
      BY <3>1 DEF InEscape
    <3> HIDE DEF n
    <3> QED BY <1>1, <3>2
  <2>4. g[0] = none
    BY <1>3
  <2> HIDE DEF u, none
  <2>5. InValue(i, w, g, u, 0)
    BY <2>1, <2>2, <2>3, <2>4, Zenon DEF InValue, n
  <2> QED BY <1>5, <2>5, Zenon DEF u
<1>8. ASSUME NEW k \in Nat, Good(k) PROVE Good(k + 1)
  <2> DEFINE v == After(k)
  <2>1. v \in ValueState /\ After(k + 1) = Turn(text, v)
    BY <1>5 DEF Values
  <2>2. v.cells \in Seq(Marks)
    BY <2>1, ValueFields
  <2>3. CASE PastValue(text, i, w, g, v)
    <3>1. v.done
      BY <2>3, Zenon DEF PastValue
    <3>2. Turn(text, v) = v
      BY <3>1, Zenon DEF Turn
    <3> QED BY <2>1, <2>3, <3>2, Zenon
  <2>4. CASE \E c : InValue(i, w, g, v, c)
    <3>1. PICK c : InValue(i, w, g, v, c)
      BY <2>4
    <3>2. c \in 0..n /\ ~v.done /\ v.cells = g[c]
      BY <3>1, Zenon DEF InValue
    <3> HIDE DEF v
    <3>3. ~(Len(v.cells) >= ValueSize)
      <4>1. Len(g[c]) \in Nat /\ Len(g[c]) <= Len(g[n]) /\ Len(g[n]) \in Nat
        <5>1. n \in 0..n
          <6> HIDE DEF n
          <6> QED BY <1>1
        <5> HIDE DEF n
        <5> QED BY <1>3, <3>2, <5>1
      <4> QED BY <1>4, <3>2, <4>1
    <3>4. Turn(text, v) = ValueByte(text, v)
      BY <3>2, <3>3, Zenon DEF Turn
    <3>5. CASE c \in 0..n - 1
      <4>1. \E d : InValue(i, w, g, ValueByte(text, v), d)
        BY <1>2, <1>4, <2>1, <3>1, <3>5, TurnInside DEF v
      <4> QED BY <2>1, <3>4, <4>1, Zenon DEF v
    <3>6. CASE c = n
      <4>1. PastValue(text, i, w, g, ValueByte(text, v))
        BY <1>2, <1>4, <2>1, <3>1, <3>6, TurnAtEnd DEF v
      <4> QED BY <2>1, <3>4, <4>1, Zenon DEF v
    <3>7. c \in 0..n - 1 \/ c = n
      <4> HIDE DEF n
      <4> QED BY <1>1, <3>2
    <3> QED BY <3>5, <3>6, <3>7
  <2> QED BY <1>8, <2>3, <2>4
<1>a. P \in SUBSET Nat /\ \A k \in Nat : k \in P <=> Good(k)
  <2> HIDE DEF Good
  <2> QED OBVIOUS
<1> HIDE DEF P, Good
<1>9. P = Nat
  BY <1>a, <1>7, <1>8, Induction
<1>10. Good(ValueSize)
  BY <1>4, <1>9, <1>a
<1> DEFINE v == After(ValueSize)
<1>11. PastValue(text, i, w, g, v)
  <2>1. ASSUME NEW c, InValue(i, w, g, v, c) PROVE FALSE
    <3>1. c \in 0..n /\ ~v.done /\ v.cells = g[c]
      BY <2>1, Zenon DEF InValue
    <3>2. Len(v.cells) >= ValueSize
      BY <1>6, <3>1, Zenon DEF Filled
    <3>3. Len(g[c]) \in Nat /\ Len(g[c]) <= Len(g[n]) /\ Len(g[n]) \in Nat
      <4>1. n \in 0..n
        <5> HIDE DEF n
        <5> QED BY <1>1
      <4> HIDE DEF n
      <4> QED BY <1>3, <3>1, <4>1
    <3> QED BY <1>4, <3>1, <3>2, <3>3
  <2> QED BY <1>10, <2>1, Zenon DEF Good
<1>12. Terminated(Append(g[n], "NUL")) = g[n]
  <2>1. n \in 0..n
    <3> HIDE DEF n
    <3> QED BY <1>1
  <2> HIDE DEF n
  <2>2. g[n] \in Seq(Marks) /\ \A j \in 1..Len(g[n]) : g[n][j] # "NUL"
    BY <1>3, <2>1
  <2> QED BY <2>2, TerminatedIs
<1>13. ValueAt(text, i, next) = v
  BY Zenon DEF ValueAt, ValueAfter, NoValue, ValueOf, Turns, After
<1> HIDE DEF v
<1>14. /\ v.pos = IF ByteAt(text, i + n) = "&" THEN i + n + 1 ELSE i + n
       /\ v.cells = Append(g[n], "NUL") /\ v.fault = "none"
       /\ v.number <=> IsNumber(g[n])
  BY <1>11, Zenon DEF PastValue
<1> QED BY <1>2, <1>12, <1>13, <1>14, Zenon

-----------------------------------------------------------------------------
(***************************************************************************)
(* A pair, when all is well.                                               *)
(***************************************************************************)

\* The first "=" of a piece.
LEMMA EqualsFacts ==
  ASSUME NEW p \in Seq(QueryBytes)
  PROVE  /\ Equals(p) \in 0..Len(p)
         /\ Equals(p) > 0 => p[Equals(p)] = "="
         /\ \A k \in 1..Len(p) : p[k] = "=" => Equals(p) > 0 /\ Equals(p) <= k
<1> DEFINE n == Len(p)
           e == Equals(p)
           I == {k \in 1..n : p[k] = "="}
<1>1. n \in Nat
  OBVIOUS
<1>2. e = IF I # {} THEN Min(I) ELSE 0
  BY DEF Equals, SelectInSeq
<1> HIDE DEF e, n
<1>3. I \in SUBSET Nat /\ I \in SUBSET (1..n)
  BY <1>1
<1>4. CASE I = {}
  BY <1>1, <1>2, <1>4 DEF e, n
<1>5. CASE I # {}
  <2> HIDE DEF I
  <2>1. \E m \in I : \A k \in I : m <= k
    BY <1>3, <1>5, LeastOf
  <2>2. Min(I) \in I /\ \A k \in I : Min(I) <= k
    BY <2>1, Zenon DEF Min
  <2>3. e \in I /\ \A k \in I : e <= k
    BY <1>2, <1>5, <2>2
  <2>4. e \in 1..n /\ p[e] = "=" /\ \A k \in 1..n : p[k] = "=" => e <= k
    BY <2>3 DEF I
  <2> QED BY <1>1, <2>4 DEF e, n
<1> QED BY <1>4, <1>5

\* The key and the value of a piece of the text.
LEMMA KeyDecoded ==
  ASSUME NEW text \in Seq(QueryBytes), NEW b, NEW p, Lies(text, b, p), Len(KeyOf(p)) < KeySize
  PROVE  LET k == KeyAt(text, b)
         IN  /\ k.key = KeyOf(p)
             /\ k.hasValue <=> Equals(p) # 0
             /\ Equals(p) = 0 =>
                  k.next = IF ByteAt(text, b + Len(p)) = "&" THEN b + Len(p) + 1 ELSE b + Len(p)
             /\ Equals(p) # 0 => k.next = b + Equals(p)
<1> DEFINE l == Len(p)
           e == Equals(p)
           m == IF e = 0 THEN l ELSE e - 1
<1>1. /\ l \in Nat /\ b \in Nat /\ b + l <= Len(text) /\ p \in Seq(QueryBytes)
      /\ Ends(ByteAt(text, b + l))
      /\ \A k \in 0..l - 1 : ByteAt(text, b + k) = p[k + 1] /\ p[k + 1] \in QueryBytes \ {"&"}
      /\ \A k \in 1..l : text[b + k] = p[k]
  <2>1. Segment(text, b, p) /\ Ends(ByteAt(text, b + l))
    BY DEF Lies
  <2>2. p \in Seq(QueryBytes) /\ \A k \in 1..l : text[b + k] = p[k]
    BY <2>1 DEF Segment
  <2> QED BY <2>1, <2>2, SegmentBytes
<1>2. /\ e \in 0..l /\ (e > 0 => p[e] = "=")
      /\ \A k \in 1..l : p[k] = "=" => e > 0 /\ e <= k
  BY <1>1, EqualsFacts
<1>3. KeyOf(p) = IF e = 0 THEN p ELSE SubSeq(p, 1, e - 1)
  BY DEF KeyOf
<1>4. \A k \in 1..l : p[k] \in QueryBytes
  BY <1>1, ElementOfSeq
<1> HIDE DEF l, e
<1>5. m \in 0..l /\ e \in Nat
  BY <1>1, <1>2
<1>6. /\ KeyOf(p) \in Seq(QueryBytes) /\ Len(KeyOf(p)) = m
      /\ \A k \in 1..m : KeyOf(p)[k] = p[k]
  <2>1. CASE e = 0
    BY <1>1, <1>3, <2>1 DEF l
  <2>2. CASE e # 0
    <3>1. \A k \in 1..e - 1 : p[k] \in QueryBytes
      <4>1. \A k \in 1..e - 1 : k \in 1..l
        BY <1>1, <1>2
      <4> QED BY <1>4, <4>1
    <3>2. /\ SubSeq(p, 1, e - 1) \in Seq(QueryBytes) /\ Len(SubSeq(p, 1, e - 1)) = e - 1
          /\ \A k \in 1..e - 1 : SubSeq(p, 1, e - 1)[k] = p[k]
      BY <1>5, <2>2, <3>1, SubSeqProperties
    <3> QED BY <1>3, <2>2, <3>2
  <2> QED BY <2>1, <2>2
<1>7. \A k \in 0..m - 1 : ~KeyEnds(ByteAt(text, b + k))
  <2> TAKE k \in 0..m - 1
  <2>1. k \in 0..l - 1 /\ k + 1 \in 1..l /\ (e > 0 => ~(e <= k + 1))
    BY <1>1, <1>5
  <2>2. ByteAt(text, b + k) = p[k + 1] /\ p[k + 1] \in QueryBytes \ {"&"} /\ p[k + 1] # "="
    BY <1>1, <1>2, <2>1
  <2> QED BY <2>2 DEF KeyEnds, QueryBytes
<1>8. /\ KeyEnds(ByteAt(text, b + m))
      /\ ByteAt(text, b + m) = "=" <=> e # 0
      /\ e = 0 => b + m = b + l
  <2>1. CASE e = 0
    <3>1. ByteAt(text, b + l) \in {"&", "NUL"}
      BY <1>1 DEF Ends
    <3>2. m = l
      BY <2>1
    <3> HIDE DEF m
    <3> QED BY <2>1, <3>1, <3>2 DEF KeyEnds
  <2>2. CASE e # 0
    <3>1. e - 1 \in 0..l - 1 /\ (e - 1) + 1 = e /\ e > 0
      BY <1>1, <1>2, <2>2
    <3>2. ByteAt(text, b + (e - 1)) = "="
      BY <1>1, <1>2, <3>1
    <3>3. m = e - 1
      BY <2>2
    <3> HIDE DEF m
    <3> QED BY <2>2, <3>2, <3>3 DEF KeyEnds
  <2> QED BY <2>1, <2>2
<1> DEFINE n == KeyLength(text, b)
<1>9. /\ n \in 0..KeySize
      /\ \A k \in 0..n - 1 : ~KeyEnds(ByteAt(text, b + k))
      /\ n < KeySize => KeyEnds(ByteAt(text, b + n))
  BY <1>1, KeyLengthFacts
<1>10. KeySize \in Nat /\ m < KeySize /\ m \in Nat
  BY <1>1, <1>5, <1>6, QueryAssumption
<1> HIDE DEF m, n
<1>11. n = m
  <2>1. n \in Nat
    BY <1>9, <1>10
  <2>2. ~(n < m)
    <3>1. SUFFICES ASSUME n < m PROVE FALSE
      OBVIOUS
    <3>2. n \in 0..m - 1 /\ n < KeySize
      BY <1>10, <2>1, <3>1
    <3> QED BY <1>7, <1>9, <3>2
  <2>3. ~(m < n)
    <3>1. SUFFICES ASSUME m < n PROVE FALSE
      OBVIOUS
    <3>2. m \in 0..n - 1
      BY <1>10, <2>1, <3>1
    <3> QED BY <1>8, <1>9, <3>2
  <2> QED BY <1>10, <2>1, <2>2, <2>3
<1> DEFINE end == ByteAt(text, b + m)
           full == m = KeySize
           key == SubSeq(text, b + 1, b + (IF full THEN m - 1 ELSE m))
           next == IF full \/ end = "NUL" THEN b + m ELSE b + m + 1
           has == full \/ end = "="
           k == KeyAt(text, b)
<1>12. k = KeyOfParts(key, has, next)
  <2>1. n = KeyLength(text, b)
    BY DEF n
  <2>2. m = KeyLength(text, b)
    BY <1>11, <2>1
  <2> QED BY <2>2, Zenon DEF KeyAt, KeyOfParts
<1>13. ~full
  BY <1>10
<1>14. key = KeyOf(p)
  <2>1. key = SubSeq(text, b + 1, b + m)
    BY <1>13
  <2>2. \A i \in b + 1..b + m : text[i] \in QueryBytes
    <3>1. Len(text) \in Nat
      OBVIOUS
    <3>2. \A i \in b + 1..b + m : i \in 1..Len(text)
      BY <1>1, <1>5, <1>10, <3>1
    <3> QED BY <3>2, ElementOfSeq
  <2> DEFINE s == SubSeq(text, b + 1, b + m)
  <2>3. /\ s \in Seq(QueryBytes) /\ Len(s) = m
        /\ \A i \in 1..m : s[i] = text[b + i]
    <3>1. b + 1 \in Int /\ b + m \in Int
      BY <1>1, <1>10
    <3>2. /\ s \in Seq(QueryBytes)
          /\ Len(s) = IF b + 1 <= b + m THEN (b + m) - (b + 1) + 1 ELSE 0
          /\ \A i \in 1..(b + m) - (b + 1) + 1 : s[i] = text[(b + 1) + i - 1]
      BY <2>2, <3>1, SubSeqProperties
    <3>3. (b + m) - (b + 1) + 1 = m /\ (b + 1 <= b + m <=> m # 0)
          /\ \A i \in 1..m : (b + 1) + i - 1 = b + i
      BY <1>1, <1>10
    <3> HIDE DEF s
    <3> QED BY <3>2, <3>3
  <2> HIDE DEF s
  <2>4. \A i \in 1..m : s[i] = KeyOf(p)[i]
    <3>1. \A i \in 1..m : i \in 1..l
      BY <1>1, <1>5
    <3> QED BY <1>1, <1>6, <2>3, <3>1
  <2>5. s = KeyOf(p)
    BY <1>6, <2>3, <2>4, SeqEqual
  <2> QED BY <2>1, <2>5 DEF s
<1>15. has <=> e # 0
  BY <1>8, <1>13
<1>16. e = 0 => next = IF ByteAt(text, b + l) = "&" THEN b + l + 1 ELSE b + l
  <2>1. SUFFICES ASSUME e = 0
                 PROVE next = IF ByteAt(text, b + l) = "&" THEN b + l + 1 ELSE b + l
    OBVIOUS
  <2>2. m = l /\ end = ByteAt(text, b + l) /\ end \in {"&", "NUL"}
    BY <1>1, <2>1 DEF m, Ends
  <2> HIDE DEF end, full
  <2> QED BY <1>13, <2>2
<1>17. e # 0 => next = b + e
  <2>1. SUFFICES ASSUME e # 0 PROVE next = b + e
    OBVIOUS
  <2>2. m = e - 1 /\ end = "="
    BY <1>8, <2>1 DEF m
  <2>3. next = b + m + 1
    <3> HIDE DEF end, full
    <3> QED BY <1>13, <2>2
  <2> HIDE DEF next
  <2> QED BY <1>1, <1>5, <2>2, <2>3
<1> HIDE DEF key, has, next, k
<1>18. k.key = key /\ k.hasValue = has /\ k.next = next
  <2>1. LET r == KeyOfParts(key, has, next) IN r.key = key /\ r.hasValue = has /\ r.next = next
    BY KeyForms
  <2> QED BY <1>12, <2>1, Zenon
<1> QED BY <1>14, <1>15, <1>16, <1>17, <1>18, Zenon DEF k, e, l

\* What is behind the first "=" of a piece is a value of the text.
LEMMA EncodedLies ==
  ASSUME NEW text \in Seq(QueryBytes), NEW b, NEW p, Lies(text, b, p), Equals(p) # 0
  PROVE  /\ Lies(text, b + Equals(p), Encoded(p))
         /\ Len(Encoded(p)) = Len(p) - Equals(p)
         /\ Equals(p) \in 1..Len(p)
<1> DEFINE l == Len(p)
           e == Equals(p)
           s == SubSeq(p, e + 1, l)
<1>1. /\ l \in Nat /\ b \in Nat /\ b + l <= Len(text) /\ p \in Seq(QueryBytes)
      /\ Ends(ByteAt(text, b + l))
      /\ \A k \in 1..l : text[b + k] = p[k] /\ p[k] # "&" /\ p[k] \in QueryBytes
  <2>1. Segment(text, b, p) /\ Ends(ByteAt(text, b + l))
    BY DEF Lies
  <2>2. p \in Seq(QueryBytes) /\ \A k \in 1..l : text[b + k] = p[k] /\ p[k] # "&"
    BY <2>1 DEF Segment
  <2>3. \A k \in 1..l : p[k] \in QueryBytes
    BY <2>2, ElementOfSeq
  <2> QED BY <2>1, <2>2, <2>3, SegmentBytes
<1>2. e \in 1..l
  <2>1. e \in 0..l /\ e # 0
    BY <1>1, EqualsFacts
  <2> HIDE DEF e, l
  <2> QED BY <1>1, <2>1
<1>3. Encoded(p) = s
  BY DEF Encoded
<1> HIDE DEF e, l
<1>4. e + 1 \in Int /\ l \in Int /\ l - (e + 1) + 1 = l - e /\ l - e \in Nat
  BY <1>1, <1>2
<1>5. \A k \in e + 1..l : p[k] \in QueryBytes
  BY <1>1, <1>2
<1>6. /\ s \in Seq(QueryBytes)
      /\ Len(s) = IF e + 1 <= l THEN l - (e + 1) + 1 ELSE 0
      /\ \A i \in 1..l - (e + 1) + 1 : s[i] = p[(e + 1) + i - 1]
  BY <1>4, <1>5, SubSeqProperties
<1> HIDE DEF s
<1>7. Len(s) = l - e
  BY <1>1, <1>2, <1>4, <1>6
<1>8. \A i \in 1..l - e : text[(b + e) + i] = s[i] /\ s[i] # "&"
  <2> TAKE i \in 1..l - e
  <2>1. (e + 1) + i - 1 = e + i /\ e + i \in 1..l /\ (b + e) + i = b + (e + i)
    BY <1>1, <1>2
  <2>2. s[i] = p[e + i]
    BY <1>4, <1>6, <2>1
  <2> QED BY <1>1, <2>1, <2>2
<1>9. (b + e) + Len(s) = b + l /\ b + e \in Nat
  BY <1>1, <1>2, <1>7
<1>10. Segment(text, b + e, s)
  BY <1>1, <1>6, <1>7, <1>8, <1>9 DEF Segment
<1>11. Ends(ByteAt(text, (b + e) + Len(s)))
  BY <1>1, <1>9
<1> QED BY <1>2, <1>3, <1>7, <1>10, <1>11 DEF Lies, e, l

\* An "=" with nothing behind it at the end of the text.
Lost(text, b, p) == Equals(p) # 0 /\ b + Equals(p) = Len(text)

NextPiece(text, b, p) ==
  IF ByteAt(text, b + Len(p)) = "&" THEN b + Len(p) + 1 ELSE b + Len(p)

\* A piece whose key and value fit becomes its pair, unless it is lost.
LEMMA PairDecoded ==
  ASSUME NEW text \in Seq(QueryBytes), NEW q \in Queries(text), ~q.done, q.pos < Len(text),
         NEW p, Lies(text, q.pos, p), Ordinary(p)
  PROVE  LET r == Pair(text, q)
         IN  /\ r.fault = "none"
             /\ Lost(text, q.pos, p) => r.done /\ r.pairs = q.pairs
             /\ ~Lost(text, q.pos, p) => /\ ~r.done /\ r.pairs = Append(q.pairs, PairOf(p))
                                         /\ r.pos = NextPiece(text, q.pos, p)
<1>1. /\ q \in QueryState /\ Standing(text, q.pos, q.fault, q.done)
      /\ Counted(q.pairs, q.written, q.spilled)
  BY DEF Queries
<1>2. /\ q.pos \in Nat /\ q.pairs \in Seq(Pairs) /\ q.next_char \in Marks /\ q.written \in Nat
      /\ q.spilled \in BOOLEAN /\ q.fault \in Faults /\ q.done \in BOOLEAN
      /\ q = QueryOf(q.pos, q.pairs, q.next_char, q.written, q.spilled, q.fault, q.done)
  BY <1>1, QueryFields
<1>3. q.fault = "none" /\ Len(text) \in Nat
  BY <1>1 DEF Standing
<1>4. Len(KeyOf(p)) < KeySize /\ WellEncoded(Encoded(p)) /\ Len(Decoded(Encoded(p))) < ValueSize
  BY DEF Ordinary
<1> DEFINE b == q.pos
           e == Equals(p)
           k == KeyAt(text, b)
           v == ValueAt(text, k.next, q.next_char)
           r == [q EXCEPT !.pos = v.pos, !.next_char = v.next_char]
           u == Pair(text, q)
<1>5. /\ k.key = KeyOf(p)
      /\ k.hasValue <=> e # 0
      /\ e = 0 => k.next = NextPiece(text, b, p)
      /\ e # 0 => k.next = b + e
  BY <1>4, KeyDecoded DEF NextPiece
<1>6. k.key \in Seq(Marks) /\ k.next \in b + 1..Len(text) /\ k.hasValue \in BOOLEAN
  BY <1>2, KeyFacts
<1>7. k.next \in Nat /\ k.next >= 1 /\ k.next <= Len(text)
  BY <1>2, <1>3, <1>6
<1> HIDE DEF k
<1>8. /\ v \in Values(text, k.next) /\ v.pos \in Nat /\ v.next_char \in Marks
      /\ v.fault = "none" => Terminated(v.cells) \in Seq(Marks)
  BY <1>2, <1>7, ValueFacts
<1>9. v.number \in BOOLEAN
  BY <1>8, ValueFields DEF Values
<1> HIDE DEF v
<1>10. u = CASE ~k.hasValue ->
                  [WritePair(q, PairOfParts(k.key, <<>>, TRUE)) EXCEPT !.pos = k.next]
             [] k.hasValue /\ ByteAt(text, k.next) = "NUL" -> [q EXCEPT !.done = TRUE]
             [] k.hasValue /\ ByteAt(text, k.next) # "NUL" /\ v.fault # "none" ->
                  [r EXCEPT !.fault = v.fault, !.done = TRUE]
             [] OTHER -> WritePair(r, PairOfParts(k.key, Terminated(v.cells), ~v.number))
  BY Zenon DEF Pair, PairOfParts, k, v, r
<1>11. ASSUME NEW pos, NEW pairs, NEW next, NEW written, NEW spilled, NEW done,
              u = QueryOf(pos, pairs, next, written, spilled, q.fault, done)
       PROVE  u.pos = pos /\ u.pairs = pairs /\ u.done = done /\ u.fault = "none"
  <2> HIDE DEF u
  <2>1. LET s == QueryOf(pos, pairs, next, written, spilled, q.fault, done)
        IN  /\ s.pos = pos /\ s.pairs = pairs /\ s.next_char = next /\ s.written = written
            /\ s.spilled = spilled /\ s.fault = q.fault /\ s.done = done
            /\ (/\ pos \in Nat /\ pairs \in Seq(Pairs) /\ next \in Marks /\ written \in Nat
                /\ spilled \in BOOLEAN /\ q.fault \in Faults /\ done \in BOOLEAN)
               => s \in QueryState
    BY QueryForms
  <2> QED BY <1>3, <1>11, <2>1, Zenon
<1>12. ByteAt(text, k.next) = "NUL" <=> k.next = Len(text)
  BY <1>7, Bytes
<1> DEFINE made == PairOf(p)
<1>13. made = PairOfParts(KeyOf(p), Decoded(Encoded(p)),
                          e = 0 \/ ~IsNumber(Decoded(Encoded(p))))
  BY Zenon DEF PairOf, PairOfParts
<1>14. PICK t : t = TRUE /\ t \in BOOLEAN
  OBVIOUS
<1> HIDE DEF u, r, e, made
<1>15. CASE e = 0
  <2> DEFINE none == <<>>
  <2>1. ~k.hasValue
    BY <1>5, <1>15
  <2> DEFINE pair == PairOfParts(k.key, none, t)
  <2>2. u = [WritePair(q, pair) EXCEPT !.pos = k.next]
    BY <1>10, <1>14, <2>1
  <2>3. none \in Seq(Marks)
    OBVIOUS
  <2>4. Decoded(Encoded(p)) = none
    <3>1. Encoded(p) = none
      BY <1>15 DEF Encoded, e
    <3>2. Decoded(none) = FlattenSeq([i \in 1..Len(none) |-> CharOf(none, i)])
      BY Zenon DEF Decoded, CharOf, InEscape
    <3>3. [i \in 1..Len(none) |-> CharOf(none, i)] = none
      OBVIOUS
    <3>4. FlattenSeq(none) = none
      BY DEF FlattenSeq
    <3> HIDE DEF none
    <3> QED BY <3>1, <3>2, <3>3, <3>4, Zenon
  <2> HIDE DEF none
  <2>5. (e = 0 \/ ~IsNumber(Decoded(Encoded(p)))) = t
    BY <1>14, <1>15, Zenon
  <2>6. pair = made
    BY <1>5, <1>13, <2>4, <2>5, Zenon
  <2>7. pair \in Pairs
    BY <1>6, <1>14, <2>3, PairForms
  <2> HIDE DEF pair
  <2>8. PICK written \in Nat, spilled \in BOOLEAN :
          /\ Counted(Append(q.pairs, pair), written, spilled)
          /\ WritePair(q, pair) = QueryOf(q.pos, Append(q.pairs, pair), q.next_char,
                                          written, spilled, q.fault, q.done)
    BY <1>1, <2>7, WritePairFacts
  <2>9. u = QueryOf(k.next, Append(q.pairs, pair), q.next_char, written, spilled, q.fault, q.done)
    BY <2>2, <2>8, SetPos
  <2>10. u.pos = k.next /\ u.pairs = Append(q.pairs, pair) /\ u.done = q.done /\ u.fault = "none"
    BY <1>11, <2>9
  <2>11. ~Lost(text, b, p)
    BY <1>15 DEF Lost, e
  <2> QED BY <1>5, <1>15, <2>6, <2>10, <2>11, Zenon DEF u, made
<1>16. CASE e # 0
  <2>1. k.hasValue /\ k.next = b + e
    BY <1>5, <1>16
  <2> DEFINE w == Encoded(p)
  <2>2. /\ Lies(text, b + e, w) /\ Len(w) = Len(p) - e
        /\ e \in 1..Len(p)
    BY <1>16, EncodedLies DEF e
  <2>3. Len(p) \in Nat
    <3>1. Segment(text, b, p)
      BY DEF Lies
    <3> QED BY <3>1, SegmentBytes
  <2>4. (b + e) + Len(w) = b + Len(p)
    <3> HIDE DEF w, b
    <3>1. b \in Nat
      BY <1>2 DEF b
    <3> QED BY <2>2, <2>3, <3>1
  <2>5. Lost(text, b, p) <=> k.next = Len(text)
    BY <1>16, <2>1 DEF Lost, e
  <2>6. CASE k.next = Len(text)
    <3>1. u = [q EXCEPT !.done = t]
      BY <1>10, <1>12, <1>14, <2>1, <2>6
    <3>2. u = QueryOf(q.pos, q.pairs, q.next_char, q.written, q.spilled, q.fault, t)
      BY <1>2, <3>1, SetDone
    <3>3. u.pairs = q.pairs /\ u.done = t /\ u.fault = "none"
      BY <1>11, <3>2
    <3> QED BY <1>14, <2>5, <2>6, <3>3, Zenon DEF u
  <2>7. CASE k.next # Len(text)
    <3>1. /\ v.fault = "none"
          /\ v.pos = IF ByteAt(text, k.next + Len(w)) = "&" THEN k.next + Len(w) + 1
                     ELSE k.next + Len(w)
          /\ Terminated(v.cells) = Decoded(w)
          /\ v.number <=> IsNumber(Decoded(w))
      <4>1. LET x == ValueAt(text, k.next, q.next_char)
            IN  /\ x.fault = "none"
                /\ x.pos = IF ByteAt(text, k.next + Len(w)) = "&" THEN k.next + Len(w) + 1
                           ELSE k.next + Len(w)
                /\ Terminated(x.cells) = Decoded(w)
                /\ x.number <=> IsNumber(Decoded(w))
        <5>1. Lies(text, k.next, w)
          BY <2>1, <2>2
        <5> HIDE DEF w
        <5> QED BY <1>2, <1>4, <1>7, <5>1, ValueDecoded DEF w
      <4> QED BY <4>1, Zenon DEF v
    <3>2. v.pos = NextPiece(text, b, p)
      <4>1. k.next + Len(w) = b + Len(p)
        BY <2>1, <2>4
      <4> HIDE DEF w
      <4> QED BY <3>1, <4>1, Zenon DEF NextPiece
    <3> DEFINE pair == PairOfParts(k.key, Terminated(v.cells), ~v.number)
    <3>3. u = WritePair(r, pair)
      BY <1>10, <1>12, <2>1, <2>7, <3>1
    <3>4. pair = made
      <4>1. ~v.number = (e = 0 \/ ~IsNumber(Decoded(w)))
        BY <1>9, <1>16, <3>1, Zenon
      <4> QED BY <1>5, <1>13, <3>1, <4>1, Zenon
    <3>5. pair \in Pairs
      BY <1>6, <1>8, <1>9, <3>1, PairForms
    <3> HIDE DEF pair
    <3>6. r = QueryOf(v.pos, q.pairs, v.next_char, q.written, q.spilled, q.fault, q.done)
      <4> DEFINE s == QueryOf(v.pos, q.pairs, q.next_char, q.written, q.spilled, q.fault, q.done)
      <4>1. [q EXCEPT !.pos = v.pos] = s
        BY <1>2, SetPos
      <4>2. r = [s EXCEPT !.next_char = v.next_char]
        <5> HIDE DEF s
        <5> QED BY <4>1 DEF r
      <4>3. [s EXCEPT !.next_char = v.next_char]
              = QueryOf(v.pos, q.pairs, v.next_char, q.written, q.spilled, q.fault, q.done)
        BY DEF QueryOf
      <4> QED BY <4>2, <4>3
    <3>7. /\ r.pos = v.pos /\ r.pairs = q.pairs /\ r.next_char = v.next_char /\ r.written = q.written
          /\ r.spilled = q.spilled /\ r.fault = q.fault /\ r.done = q.done /\ r \in QueryState
      <4>1. LET s == QueryOf(v.pos, q.pairs, v.next_char, q.written, q.spilled, q.fault, q.done)
            IN  /\ s.pos = v.pos /\ s.pairs = q.pairs /\ s.next_char = v.next_char
                /\ s.written = q.written /\ s.spilled = q.spilled /\ s.fault = q.fault
                /\ s.done = q.done
                /\ (/\ v.pos \in Nat /\ q.pairs \in Seq(Pairs) /\ v.next_char \in Marks
                    /\ q.written \in Nat /\ q.spilled \in BOOLEAN /\ q.fault \in Faults
                    /\ q.done \in BOOLEAN)
                   => s \in QueryState
        BY QueryForms
      <4> QED BY <1>2, <1>8, <3>6, <4>1, Zenon
    <3>8. PICK written \in Nat, spilled \in BOOLEAN :
            /\ Counted(Append(r.pairs, pair), written, spilled)
            /\ WritePair(r, pair) = QueryOf(r.pos, Append(r.pairs, pair), r.next_char,
                                            written, spilled, r.fault, r.done)
      <4>1. Counted(r.pairs, r.written, r.spilled)
        BY <1>1, <3>7, Zenon
      <4> QED BY <3>5, <3>7, <4>1, WritePairFacts
    <3>9. u = QueryOf(v.pos, Append(q.pairs, pair), v.next_char, written, spilled, q.fault, q.done)
      BY <3>3, <3>7, <3>8, Zenon
    <3>10. u.pos = v.pos /\ u.pairs = Append(q.pairs, pair) /\ u.done = q.done /\ u.fault = "none"
      BY <1>11, <3>9
    <3> QED BY <2>5, <2>7, <3>2, <3>4, <3>10, Zenon DEF u, made
  <2> QED BY <2>6, <2>7
<1> QED BY <1>15, <1>16

-----------------------------------------------------------------------------
(***************************************************************************)
(* The loop over the text, when all is well.                               *)
(***************************************************************************)

\* The pieces ps of a text, where they begin, and where the last one ends.
Parted(text, ps, b) ==
  /\ ps \in Seq(Seq(QueryBytes)) /\ b \in [1..Len(ps) + 1 -> Nat]
  /\ b[1] = 0 /\ b[Len(ps) + 1] = Len(text)
  /\ \A k \in 1..Len(ps) : /\ b[k] < Len(text) /\ Lies(text, b[k], ps[k])
                           /\ b[k + 1] = NextPiece(text, b[k], ps[k])
                           /\ k # Len(ps) => ~Lost(text, b[k], ps[k])

\* An empty piece at the end is none.
Kept(s) == IF Last(s) = <<>> THEN Front(s) ELSE s

\* The pieces that are kept lie in the text one behind the other.
LEMMA PartedFacts ==
  ASSUME NEW text \in Seq(QueryBytes), NEW s, NEW b, Splits(text, s, b)
  PROVE  \E d : Parted(text, Kept(s), d)
<1> DEFINE B == Seq(QueryBytes)
           n == Len(text)
           m == Len(s)
           none == <<>>
<1>1. /\ s \in Seq(B) /\ s # <<>> /\ b \in [1..m -> Nat]
      /\ b[1] = 0
      /\ \A k \in 1..m : Segment(text, b[k], s[k])
      /\ \A k \in 1..m - 1 : /\ b[k + 1] = b[k] + Len(s[k]) + 1
                             /\ b[k] + Len(s[k]) < n
                             /\ text[b[k] + Len(s[k]) + 1] = "&"
      /\ b[m] + Len(s[m]) = n
  BY Zenon DEF Splits
<1>2. m \in Nat /\ m >= 1 /\ n \in Nat
  BY <1>1, EmptySeq, LenProperties
<1>3. \A k \in 1..m : s[k] \in B /\ Len(s[k]) \in Nat /\ b[k] \in Nat
  <2>1. \A k \in 1..m : s[k] \in B
    BY <1>1, ElementOfSeq
  <2> QED BY <1>1, <2>1, LenProperties
<1>4. Kept(s) = IF s[m] = none THEN SubSeq(s, 1, m - 1) ELSE s
  BY DEF Kept, Front, Last
<1>a. none \in B /\ Len(none) = 0 /\ \A x \in B : Len(x) = 0 => x = none
  BY EmptySeq
<1> HIDE DEF B, n, m, none
<1>5. ASSUME NEW k \in 1..m - 1
      PROVE  /\ b[k] < n /\ Lies(text, b[k], s[k])
             /\ b[k + 1] = NextPiece(text, b[k], s[k])
             /\ ~Lost(text, b[k], s[k])
  <2> DEFINE x == b[k] p == s[k] l == Len(p)
  <2>1. k \in 1..m
    BY <1>2
  <2>2. x \in Nat /\ l \in Nat /\ Segment(text, x, p) /\ p \in B
    BY <1>1, <1>3, <2>1
  <2>3. b[k + 1] = x + l + 1 /\ x + l < n /\ text[x + l + 1] = "&"
    BY <1>1
  <2> HIDE DEF x, p, l
  <2>4. ByteAt(text, x + l) = "&"
    <3>1. x + l \in Nat
      BY <2>2
    <3> QED BY <2>3, <3>1, Bytes DEF n
  <2>5. Lies(text, x, p)
    BY <2>2, <2>4 DEF Lies, Ends, l
  <2>6. b[k + 1] = NextPiece(text, x, p)
    BY <2>3, <2>4 DEF NextPiece, l
  <2>7. Equals(p) \in Nat /\ Equals(p) <= l
    <3>1. Equals(p) \in 0..l
      BY <2>2, EqualsFacts DEF B, l
    <3> QED BY <2>2, <3>1
  <2>8. ~Lost(text, x, p)
    <3>1. ~(x + Equals(p) = n)
      BY <1>2, <2>2, <2>3, <2>7
    <3> QED BY <3>1 DEF Lost, n
  <2>9. x < n
    BY <1>2, <2>2, <2>3
  <2> QED BY <2>5, <2>6, <2>8, <2>9 DEF x, p
<1>6. m \in 1..m /\ b[m] \in Nat /\ Len(s[m]) \in Nat /\ s[m] \in B
  BY <1>2, <1>3
<1>7. ByteAt(text, b[m] + Len(s[m])) = "NUL"
  <2>1. b[m] + Len(s[m]) \in Nat
    BY <1>1, <1>2
  <2> QED BY <1>1, <2>1, Bytes DEF n
<1>8. CASE s[m] = none
  <2> DEFINE ps == SubSeq(s, 1, m - 1)
  <2>1. \A k \in 1..m - 1 : s[k] \in B
    BY <1>2, <1>3
  <2>2. /\ ps \in Seq(B) /\ Len(ps) = m - 1
        /\ \A k \in 1..m - 1 : ps[k] = s[k]
    <3>1. 1 \in Int /\ m - 1 \in Int
      BY <1>2
    <3>2. /\ ps \in Seq(B)
          /\ Len(ps) = IF 1 <= m - 1 THEN (m - 1) - 1 + 1 ELSE 0
          /\ \A k \in 1..(m - 1) - 1 + 1 : ps[k] = s[1 + k - 1]
      BY <2>1, <3>1, SubSeqProperties
    <3>3. (m - 1) - 1 + 1 = m - 1 /\ (~(1 <= m - 1) => m - 1 = 0)
          /\ \A k \in 1..m - 1 : 1 + k - 1 = k
      BY <1>2
    <3> HIDE DEF ps
    <3> QED BY <3>2, <3>3
  <2> HIDE DEF ps
  <2>3. b[m] = n
    BY <1>1, <1>6, <1>8, <1>a
  <2>4. (m - 1) + 1 = m /\ (m - 1) \in Nat
    BY <1>2
  <2>5. \A k \in 1..Len(ps) : /\ b[k] < n /\ Lies(text, b[k], ps[k])
                              /\ b[k + 1] = NextPiece(text, b[k], ps[k])
                              /\ k # Len(ps) => ~Lost(text, b[k], ps[k])
    BY <1>5, <2>2
  <2>6. b \in [1..Len(ps) + 1 -> Nat] /\ b[Len(ps) + 1] = n
    BY <1>1, <2>2, <2>3, <2>4
  <2>7. Parted(text, ps, b)
    BY <1>1, <2>2, <2>5, <2>6, Zenon DEF Parted, B, n
  <2> QED BY <1>4, <1>8, <2>7 DEF ps
<1>9. CASE s[m] # none
  <2> DEFINE d == [k \in 1..m + 1 |-> IF k <= m THEN b[k] ELSE n]
  <2>1. /\ d \in [1..m + 1 -> Nat] /\ d[m + 1] = n
        /\ \A k \in 1..m : d[k] = b[k]
    BY <1>2, <1>3
  <2> HIDE DEF d
  <2>2. b[m] < n
    <3>1. Len(s[m]) # 0
      BY <1>6, <1>9, <1>a
    <3> QED BY <1>1, <1>2, <1>6, <3>1
  <2>3. Lies(text, b[m], s[m])
    BY <1>1, <1>6, <1>7 DEF Lies, Ends
  <2>4. n = NextPiece(text, b[m], s[m])
    BY <1>1, <1>7 DEF NextPiece
  <2>5. ASSUME NEW k \in 1..m
        PROVE  /\ d[k] < n /\ Lies(text, d[k], s[k])
               /\ d[k + 1] = NextPiece(text, d[k], s[k])
               /\ k # m => ~Lost(text, d[k], s[k])
    <3>1. CASE k \in 1..m - 1
      <4>1. d[k] = b[k] /\ d[k + 1] = b[k + 1]
        <5>1. k + 1 \in 1..m
          BY <1>2, <3>1
        <5> QED BY <2>1, <5>1
      <4> QED BY <1>5, <3>1, <4>1
    <3>2. CASE k = m
      <4>1. d[k] = b[m] /\ d[k + 1] = n
        BY <1>6, <2>1, <3>2
      <4> QED BY <2>2, <2>3, <2>4, <3>2, <4>1
    <3>3. k \in 1..m - 1 \/ k = m
      BY <1>2
    <3> QED BY <3>1, <3>2, <3>3
  <2>6. d[1] = 0
    BY <1>1, <1>2, <2>1
  <2>7. Parted(text, s, d)
    BY <1>1, <2>1, <2>5, <2>6, Zenon DEF Parted, B, n, m
  <2> QED BY <1>4, <1>9, <2>7
<1> QED BY <1>8, <1>9

\* The pairs of the first j pieces.
Begun(ps, pairs, j) ==
  pairs \in Seq(Pairs) /\ Len(pairs) = j /\ \A i \in 1..j : pairs[i] = PairOf(ps[i])

\* The loop has read j pieces.
InText(text, ps, b, q, j) ==
  /\ j \in 0..Len(ps) /\ ~q.done /\ q.fault = "none" /\ q.pos = b[j + 1] /\ Begun(ps, q.pairs, j)
  /\ j = Len(ps) /\ j # 0 => ~Lost(text, b[j], ps[j])

\* The loop has ended in the last piece, which is lost.
OutOfText(text, ps, b, q) ==
  /\ q.done /\ q.fault = "none" /\ Len(ps) # 0 /\ Lost(text, b[Len(ps)], ps[Len(ps)])
  /\ Begun(ps, q.pairs, Len(ps) - 1)

\* A turn of the loop makes a pair of the next piece, or ends in a lost
\* one.
LEMMA TurnDecoded ==
  ASSUME NEW text \in Seq(QueryBytes), NEW ps, NEW b, Parted(text, ps, b),
         \A k \in 1..Len(ps) : Ordinary(ps[k]),
         NEW q \in Queries(text), NEW j, InText(text, ps, b, q, j), j < Len(ps)
  PROVE  LET r == QueryTurn(text, q)
         IN  \/ InText(text, ps, b, r, j + 1) /\ r.pos > q.pos
             \/ OutOfText(text, ps, b, r)
<1> DEFINE m == Len(ps)
           p == ps[j + 1]
           n == Len(text)
           r == QueryTurn(text, q)
<1>1. /\ ps \in Seq(Seq(QueryBytes)) /\ b \in [1..m + 1 -> Nat]
      /\ \A k \in 1..m : /\ b[k] < n /\ Lies(text, b[k], ps[k])
                         /\ b[k + 1] = NextPiece(text, b[k], ps[k])
                         /\ k # m => ~Lost(text, b[k], ps[k])
  BY Zenon DEF Parted
<1>2. m \in Nat /\ n \in Nat
  BY <1>1, LenProperties
<1>3. j \in 0..m /\ ~q.done /\ q.fault = "none" /\ q.pos = b[j + 1] /\ Begun(ps, q.pairs, j)
  BY Zenon DEF InText
<1>4. j \in Nat /\ j + 1 \in 1..m /\ (j + 1) - 1 = j /\ j + 1 # 0
  <2>1. j \in 0..m /\ j < m
    BY <1>3
  <2> HIDE DEF m
  <2> QED BY <1>2, <2>1
<1> HIDE DEF m
<1>5. /\ q.pos < n /\ q.pos \in Nat /\ Lies(text, q.pos, p) /\ Ordinary(p)
      /\ b[(j + 1) + 1] = NextPiece(text, q.pos, p)
      /\ j + 1 # m => ~Lost(text, q.pos, p)
  <2>1. b[j + 1] \in Nat
    <3>1. j + 1 \in 1..m + 1
      BY <1>2, <1>4
    <3> QED BY <1>1, <3>1
  <2>2. Ordinary(p)
    BY <1>4 DEF m
  <2> QED BY <1>1, <1>3, <1>4, <2>1, <2>2
<1> HIDE DEF p, n
<1>6. r = Pair(text, q)
  <2>1. ByteAt(text, q.pos) # "NUL"
    <3>1. q.pos # n
      BY <1>2, <1>5
    <3> QED BY <1>5, <3>1, Bytes DEF n
  <2> QED BY <1>3, <2>1, Zenon DEF QueryTurn
<1>7. /\ r.fault = "none"
      /\ Lost(text, q.pos, p) => r.done /\ r.pairs = q.pairs
      /\ ~Lost(text, q.pos, p) => /\ ~r.done /\ r.pairs = Append(q.pairs, PairOf(p))
                                  /\ r.pos = NextPiece(text, q.pos, p)
  <2>1. LET u == Pair(text, q)
        IN  /\ u.fault = "none"
            /\ Lost(text, q.pos, p) => u.done /\ u.pairs = q.pairs
            /\ ~Lost(text, q.pos, p) => /\ ~u.done /\ u.pairs = Append(q.pairs, PairOf(p))
                                        /\ u.pos = NextPiece(text, q.pos, p)
    BY <1>3, <1>5, PairDecoded DEF n
  <2> QED BY <1>6, <2>1, Zenon
<1>8. r.pairs \in Seq(Pairs)
  <2>1. r \in Queries(text)
    BY QueryTurnStays
  <2> HIDE DEF r
  <2>2. r \in QueryState
    BY <2>1 DEF Queries
  <2> QED BY <2>2, QueryFields
<1> HIDE DEF r
<1>9. CASE Lost(text, q.pos, p)
  <2>1. j + 1 = m
    BY <1>5, <1>9
  <2>2. Begun(ps, r.pairs, m - 1)
    BY <1>3, <1>4, <1>7, <1>9, <2>1
  <2>3. Lost(text, b[m], ps[m]) /\ m # 0
    BY <1>3, <1>4, <1>9, <2>1 DEF p
  <2>4. OutOfText(text, ps, b, r)
    BY <1>7, <1>9, <2>2, <2>3, Zenon DEF OutOfText, m
  <2> QED BY <2>4 DEF r
<1>10. CASE ~Lost(text, q.pos, p)
  <2> DEFINE made == PairOf(p)
  <2>1. r.pairs = Append(q.pairs, made) /\ r.pos = b[(j + 1) + 1] /\ ~r.done
    BY <1>5, <1>7, <1>10
  <2>2. q.pairs \in Seq(Pairs) /\ Len(q.pairs) = j /\ \A i \in 1..j : q.pairs[i] = PairOf(ps[i])
    BY <1>3 DEF Begun
  <2> HIDE DEF made
  <2>3. Begun(ps, r.pairs, j + 1)
    <3>1. /\ Len(Append(q.pairs, made)) = j + 1
          /\ Append(q.pairs, made)[j + 1] = made
          /\ \A i \in 1..j : Append(q.pairs, made)[i] = q.pairs[i]
      BY <2>2
    <3>2. made = PairOf(ps[j + 1])
      BY DEF made, p
    <3> DEFINE more == Append(q.pairs, made)
    <3>3. Len(more) = j + 1 /\ more[j + 1] = PairOf(ps[j + 1]) /\ \A i \in 1..j : more[i] = PairOf(ps[i])
      BY <2>2, <3>1, <3>2
    <3>4. more \in Seq(Pairs) /\ r.pairs = more
      BY <1>8, <2>1
    <3> HIDE DEF more
    <3>5. \A i \in 1..j + 1 : more[i] = PairOf(ps[i])
      <4> TAKE i \in 1..j + 1
      <4>1. i \in 1..j \/ i = j + 1
        BY <1>4
      <4> QED BY <3>3, <4>1
    <3> QED BY <3>3, <3>4, <3>5 DEF Begun
  <2>4. r.pos > q.pos
    <3>1. Segment(text, q.pos, p)
      BY <1>5 DEF Lies
    <3>2. Len(p) \in Nat
      BY <3>1, SegmentBytes
    <3>3. r.pos = NextPiece(text, q.pos, p)
      BY <1>7, <1>10
    <3>4. CASE ByteAt(text, q.pos + Len(p)) = "&"
      BY <1>5, <3>2, <3>3, <3>4 DEF NextPiece
    <3>5. CASE ByteAt(text, q.pos + Len(p)) # "&"
      <4>1. Ends(ByteAt(text, q.pos + Len(p)))
        BY <1>5 DEF Lies
      <4>2. ByteAt(text, q.pos + Len(p)) = "NUL"
        BY <3>5, <4>1 DEF Ends
      <4>3. q.pos + Len(p) \in Nat
        BY <1>5, <3>2
      <4>4. q.pos + Len(p) = n
        BY <4>2, <4>3, Bytes DEF n
      <4>5. r.pos = q.pos + Len(p)
        BY <3>3, <3>5 DEF NextPiece
      <4> QED BY <1>5, <4>4, <4>5, <1>2
    <3> QED BY <3>4, <3>5
  <2>5. j + 1 = m /\ j + 1 # 0 => ~Lost(text, b[j + 1], ps[j + 1])
    BY <1>3, <1>10 DEF p
  <2>6. j + 1 \in 0..m
    BY <1>2, <1>4
  <2>7. InText(text, ps, b, r, j + 1)
    BY <1>7, <2>1, <2>3, <2>5, <2>6, Zenon DEF InText, m
  <2> QED BY <2>4, <2>7 DEF r
<1> QED BY <1>9, <1>10

\* The loop makes pairs of all pieces, but for a lost one.
LEMMA QueryRead ==
  ASSUME NEW text \in Seq(QueryBytes), NEW ps, NEW b, Parted(text, ps, b),
         \A k \in 1..Len(ps) : Ordinary(ps[k])
  PROVE  LET q == QueryAfter(text)
         IN  /\ q.fault = "none"
             /\ \/ Begun(ps, q.pairs, Len(ps))
                   /\ (Len(ps) # 0 => ~Lost(text, b[Len(ps)], ps[Len(ps)]))
                \/ Begun(ps, q.pairs, Len(ps) - 1)
                   /\ Len(ps) # 0 /\ Lost(text, b[Len(ps)], ps[Len(ps)])
<1> DEFINE m == Len(ps)
           n == Len(text)
           In(q, j) == InText(text, ps, b, q, j)
           Out(q) == OutOfText(text, ps, b, q)
<1>1. /\ ps \in Seq(Seq(QueryBytes)) /\ b \in [1..m + 1 -> Nat]
      /\ b[1] = 0 /\ b[m + 1] = n
      /\ \A k \in 1..m : b[k] < n
  BY Zenon DEF Parted
<1>2. m \in Nat /\ n \in Nat
  BY <1>1, LenProperties
<1>3. PICK f : QueryWalk(text, f)
  BY QueryWalked
<1>4. /\ f \in [0..n -> Queries(text)]
      /\ f[0] = QueryStart
      /\ \A k \in 1..n : f[k] = QueryTurn(text, f[k - 1])
      /\ QueryAfter(text) = f[n]
  BY <1>3 DEF QueryWalk
<1> DEFINE Far(q, k) == q.pos >= k \/ q.pos = n
           Good(k) == (\E j : In(f[k], j) /\ Far(f[k], k)) \/ Out(f[k])
           P == {k \in Nat : k <= n => Good(k)}
<1>5. ASSUME NEW q \in Queries(text), NEW j, In(q, j)
      PROVE  /\ q.pos \in Nat /\ j \in 0..m /\ q.pos = b[j + 1] /\ ~q.done
             /\ q.pos = n <=> j = m
             /\ j < m => (\E i : In(QueryTurn(text, q), i) /\ QueryTurn(text, q).pos > q.pos)
                         \/ Out(QueryTurn(text, q))
             /\ j = m => QueryTurn(text, q) = q
  <2>1. j \in 0..m /\ q.pos = b[j + 1] /\ ~q.done
    BY <1>5, Zenon DEF InText
  <2>2. j < m => (\E i : In(QueryTurn(text, q), i) /\ QueryTurn(text, q).pos > q.pos)
                 \/ Out(QueryTurn(text, q))
    <3>1. SUFFICES ASSUME j < m
                   PROVE (\E i : In(QueryTurn(text, q), i) /\ QueryTurn(text, q).pos > q.pos)
                         \/ Out(QueryTurn(text, q))
      OBVIOUS
    <3>2. LET r == QueryTurn(text, q)
          IN  \/ InText(text, ps, b, r, j + 1) /\ r.pos > q.pos
              \/ OutOfText(text, ps, b, r)
      BY <1>5, <3>1, TurnDecoded
    <3> QED BY <3>2, Zenon
  <2> HIDE DEF m, n
  <2>3. q.pos \in Nat
    <3>1. j + 1 \in 1..m + 1
      BY <1>2, <2>1
    <3> QED BY <1>1, <2>1, <3>1
  <2>4. q.pos = n <=> j = m
    <3>1. CASE j = m
      BY <1>1, <2>1, <3>1
    <3>2. CASE j # m
      <4>1. j + 1 \in 1..m
        BY <1>2, <2>1, <3>2
      <4>2. b[j + 1] < n
        BY <1>1, <4>1
      <4> QED BY <1>2, <2>1, <2>3, <3>2, <4>2
    <3> QED BY <3>1, <3>2
  <2>5. j = m => QueryTurn(text, q) = q
    <3>1. q.pos = n => ByteAt(text, q.pos) = "NUL"
      BY <2>3, Bytes DEF n
    <3> QED BY <2>4, <3>1, Zenon DEF QueryTurn
  <2> QED BY <2>1, <2>2, <2>3, <2>4, <2>5
<1>6. ASSUME NEW q, Out(q) PROVE QueryTurn(text, q) = q
  <2>1. q.done
    BY <1>6, Zenon DEF OutOfText
  <2> QED BY <2>1, Zenon DEF QueryTurn
<1>7. In(QueryStart, 0)
  <2> DEFINE none == <<>>
  <2>1. \E x, y : QueryStart = QueryOf(0, none, "junk", x, y, "none", FALSE)
    <3>1. Snprintf(QueryOf(0, none, "junk", 0, FALSE, "none", FALSE), JsonSize, 1)
            = QueryOf(0, none, "junk", (0 + 1) % SizeSpan,
                      FALSE \/ 0 + Stored(JsonSize, 0, 1) > JsonSize, "none", FALSE)
      <4> DEFINE t == FALSE
      <4> HIDE DEF t, none
      <4>1. Snprintf(QueryOf(0, none, "junk", 0, t, "none", t), JsonSize, 1)
              = QueryOf(0, none, "junk", (0 + 1) % SizeSpan,
                        t \/ 0 + Stored(JsonSize, 0, 1) > JsonSize, "none", t)
        BY SnprintfQuery
      <4> QED BY <4>1, Zenon DEF t
    <3> QED BY <3>1, Zenon DEF QueryStart, none
  <2>2. PICK x, y : QueryStart = QueryOf(0, none, "junk", x, y, "none", FALSE)
    BY <2>1, Zenon
  <2>3. QueryStart.pos = 0 /\ QueryStart.pairs = none /\ QueryStart.fault = "none" /\ ~QueryStart.done
    BY <2>2, Zenon DEF QueryOf
  <2>4. none \in Seq(Pairs) /\ Len(none) = 0 /\ 1..0 = {}
    OBVIOUS
  <2> HIDE DEF none
  <2>5. Begun(ps, none, 0)
    BY <2>4 DEF Begun
  <2>6. 0 \in 0..m /\ 0 + 1 = 1
    BY <1>2
  <2> QED BY <1>1, <2>3, <2>5, <2>6, Zenon DEF InText
<1> HIDE DEF m, n, In, Out
<1>8. Good(0)
  <2>1. f[0] \in Queries(text)
    BY <1>2, <1>4
  <2>2. In(f[0], 0)
    BY <1>4, <1>7
  <2>3. f[0].pos \in Nat
    BY <1>5, <2>1, <2>2
  <2>4. f[0].pos >= 0
    BY <2>3
  <2> QED BY <2>2, <2>4
<1>9. ASSUME NEW k \in Nat, k + 1 <= n, Good(k) PROVE Good(k + 1)
  <2> DEFINE q == f[k] r == f[k + 1]
  <2>1. q \in Queries(text) /\ r = QueryTurn(text, q) /\ r \in Queries(text)
    <3>1. k \in 0..n /\ k + 1 \in 1..n /\ k + 1 \in 0..n /\ (k + 1) - 1 = k
      BY <1>2, <1>9
    <3> QED BY <1>4, <3>1
  <2>2. (\E j : In(q, j) /\ Far(q, k)) \/ Out(q)
    BY <1>9
  <2> HIDE DEF q, r
  <2>3. CASE Out(q)
    <3>1. r = q
      BY <1>6, <2>1, <2>3
    <3> QED BY <2>3, <3>1 DEF r
  <2>4. CASE \E j : In(q, j) /\ Far(q, k)
    <3>1. PICK j : In(q, j) /\ Far(q, k)
      BY <2>4
    <3>2. /\ q.pos \in Nat /\ j \in 0..m
          /\ q.pos = n <=> j = m
          /\ j < m => (\E i : In(r, i) /\ r.pos > q.pos) \/ Out(r)
          /\ j = m => r = q
      BY <1>5, <2>1, <3>1
    <3>3. CASE j = m
      <4>1. In(r, j) /\ Far(r, k + 1)
        BY <3>1, <3>2, <3>3
      <4> QED BY <4>1 DEF r
    <3>4. CASE j # m
      <4>1. j < m /\ q.pos >= k
        BY <1>2, <3>1, <3>2, <3>4
      <4>2. CASE Out(r)
        BY <4>2 DEF r
      <4>3. CASE \E i : In(r, i) /\ r.pos > q.pos
        <5>1. PICK i : In(r, i) /\ r.pos > q.pos
          BY <4>3
        <5>2. r.pos \in Nat
          BY <1>5, <2>1, <5>1
        <5>3. r.pos >= k + 1
          BY <3>2, <4>1, <5>1, <5>2
        <5> QED BY <5>1, <5>3 DEF r
      <4> QED BY <3>2, <4>1, <4>2, <4>3
    <3> QED BY <3>3, <3>4
  <2> QED BY <2>2, <2>3, <2>4
<1>a. P \in SUBSET Nat /\ \A k \in Nat : k \in P <=> (k <= n => Good(k))
  <2> HIDE DEF Good
  <2> QED OBVIOUS
<1> HIDE DEF P, Good
<1>10. P = Nat
  <2>1. 0 \in P
    BY <1>a, <1>8
  <2>2. ASSUME NEW k \in Nat, k \in P PROVE k + 1 \in P
    BY <1>2, <1>a, <1>9, <2>2
  <2> QED BY <1>a, <2>1, <2>2, Induction
<1>11. Good(n)
  BY <1>2, <1>10, <1>a
<1> DEFINE q == f[n]
<1>12. q \in Queries(text)
  <2>1. n \in 0..n
    BY <1>2
  <2> QED BY <1>4, <2>1
<1>13. CASE \E j : In(q, j) /\ Far(q, n)
  <2>1. PICK j : In(q, j) /\ Far(q, n)
    BY <1>13
  <2> HIDE DEF q
  <2>2. /\ q.pos \in Nat /\ j \in 0..m /\ q.pos = b[j + 1]
        /\ q.pos = n <=> j = m
    BY <1>5, <1>12, <2>1
  <2>3. j = m
    <3>1. CASE q.pos = n
      BY <2>2, <3>1
    <3>2. CASE q.pos >= n /\ q.pos # n
      <4>1. j + 1 \in 1..m
        BY <1>2, <2>2, <3>2
      <4> QED BY <1>1, <1>2, <2>2, <3>2, <4>1
    <3> QED BY <2>1, <3>1, <3>2
  <2>4. q.fault = "none" /\ Begun(ps, q.pairs, m) /\ (m # 0 => ~Lost(text, b[m], ps[m]))
    BY <2>1, <2>3, Zenon DEF In, InText, m
  <2> QED BY <1>4, <2>4, Zenon DEF q, m
<1>14. CASE Out(q)
  <2> HIDE DEF q
  <2>1. q.fault = "none" /\ Begun(ps, q.pairs, m - 1) /\ m # 0 /\ Lost(text, b[m], ps[m])
    BY <1>14, Zenon DEF Out, OutOfText, m
  <2> QED BY <1>4, <2>1, Zenon DEF q, m
<1> QED BY <1>11, <1>13, <1>14, Zenon DEF Good

\* A text that ends with "=" where its last piece has its first loses it, and
\* no other does.
LEMMA LostIs ==
  ASSUME NEW text \in Seq(QueryBytes), NEW ps, NEW b, Parted(text, ps, b)
  PROVE  (text # <<>> /\ Last(text) = "=" /\ Equals(Last(ps)) = Len(Last(ps)))
           <=> Len(ps) # 0 /\ Lost(text, b[Len(ps)], ps[Len(ps)])
<1> DEFINE m == Len(ps)
           n == Len(text)
           p == ps[m]
           x == b[m]
           e == Equals(p)
           l == Len(p)
           Ended == text # <<>> /\ text[n] = "=" /\ e = l
<1>1. /\ ps \in Seq(Seq(QueryBytes)) /\ b \in [1..m + 1 -> Nat]
      /\ b[1] = 0 /\ b[m + 1] = n
      /\ \A k \in 1..m : b[k] < n /\ Lies(text, b[k], ps[k]) /\ b[k + 1] = NextPiece(text, b[k], ps[k])
  BY Zenon DEF Parted
<1>2. m \in Nat /\ n \in Nat /\ (text = <<>> <=> n = 0)
  BY <1>1, LenProperties, EmptySeq
<1>3. (text # <<>> /\ Last(text) = "=" /\ Equals(Last(ps)) = Len(Last(ps))) <=> Ended
  BY DEF Last
<1> HIDE DEF m, n
<1>4. CASE m = 0
  <2>1. n = 0
    BY <1>1, <1>4
  <2> QED BY <1>2, <1>3, <1>4, <2>1 DEF m
<1>5. CASE m # 0
  <2>1. m \in 1..m
    BY <1>2, <1>5
  <2>2. /\ x < n /\ Lies(text, x, p) /\ n = NextPiece(text, x, p) /\ p \in Seq(QueryBytes)
    <3>1. p \in Seq(QueryBytes)
      <4> DEFINE C == Seq(QueryBytes)
      <4>1. ps \in Seq(C) /\ m = Len(ps)
        BY <1>1 DEF m
      <4> HIDE DEF C
      <4>2. ps[m] \in C
        BY <2>1, <4>1, ElementOfSeq
      <4> QED BY <4>2 DEF C
    <3>2. x < n /\ Lies(text, x, p) /\ n = NextPiece(text, x, p)
      BY <1>1, <2>1
    <3> QED BY <3>1, <3>2
  <2> HIDE DEF x, p
  <2>3. /\ x \in Nat /\ l \in Nat /\ x + l <= n
        /\ Ends(ByteAt(text, x + l))
        /\ \A k \in 1..l : text[x + k] = p[k]
    <3>1. Segment(text, x, p) /\ Ends(ByteAt(text, x + l))
      BY <2>2 DEF Lies
    <3>2. \A k \in 1..l : text[x + k] = p[k]
      BY <3>1 DEF Segment
    <3> QED BY <3>1, <3>2, SegmentBytes DEF n
  <2>4. e \in 0..l /\ (e > 0 => p[e] = "=")
    BY <2>2, EqualsFacts
  <2>5. Lost(text, x, p) <=> e # 0 /\ x + e = n
    BY DEF Lost, n
  <2> HIDE DEF e, l
  <2>6. ASSUME Lost(text, x, p) PROVE Ended
    <3>1. e \in 1..l /\ e = l /\ x + e = n
      BY <2>3, <2>4, <2>5, <2>6
    <3>2. text[n] = "="
      BY <2>3, <2>4, <3>1
    <3> QED BY <1>2, <2>2, <2>3, <3>1, <3>2
  <2>7. ASSUME Ended PROVE Lost(text, x, p)
    <3>1. ByteAt(text, x + l) # "&"
      <4>1. SUFFICES ASSUME ByteAt(text, x + l) = "&" PROVE FALSE
        OBVIOUS
      <4>2. n = x + l + 1
        BY <2>2, <4>1 DEF NextPiece, l
      <4>3. x + l \in Nat /\ x + l < n
        BY <2>3, <4>2
      <4>4. text[n] = "&"
        BY <4>1, <4>2, <4>3, Bytes DEF n
      <4> QED BY <2>7, <4>4
    <3>2. n = x + l
      BY <2>2, <3>1 DEF NextPiece, l
    <3> QED BY <2>2, <2>3, <2>5, <2>7, <3>2
  <2> QED BY <1>3, <1>5, <2>6, <2>7 DEF x, p, m
<1> QED BY <1>4, <1>5

-----------------------------------------------------------------------------
(***************************************************************************)
(* The theorems.                                                           *)
(***************************************************************************)

\* The object is that of the text.
QueryInv == query \in Seq(QueryBytes) /\ json = QueryToJson(query)

\* Every text is made into its object,
LEMMA QueryInvStep == QueryInv /\ [QueryNext]_queryVars => QueryInv'
<1> SUFFICES ASSUME QueryInv, [QueryNext]_queryVars PROVE QueryInv'
  OBVIOUS
<1>1. CASE QueryNext
  <2>1. PICK b \in QueryBytes : query' = Append(query, b)
    BY <1>1 DEF QueryNext
  <2>2. json' = QueryToJson(query')
    BY <1>1 DEF QueryNext
  <2>3. query' \in Seq(QueryBytes)
    BY <2>1, AppendProperties DEF QueryInv
  <2> QED BY <2>2, <2>3 DEF QueryInv
<1>2. CASE UNCHANGED queryVars
  <2>1. query' = query /\ json' = json
    BY <1>2, Zenon DEF queryVars
  <2> QED BY <2>1, Zenon DEF QueryInv
<1> QED BY <1>1, <1>2

\* in every state.
LEMMA QueryInvHolds == QuerySpec => []QueryInv
<1>1. QueryInit => QueryInv
  <2> SUFFICES ASSUME QueryInit PROVE QueryInv
    OBVIOUS
  <2>1. query = <<>> /\ json = QueryToJson(query)
    BY Zenon DEF QueryInit
  <2>2. query \in Seq(QueryBytes)
    BY <2>1
  <2> QED BY <2>1, <2>2 DEF QueryInv
<1> QED BY <1>1, QueryInvStep, PTL DEF QuerySpec

\* What QueryFaults and JsonFits speak of.
LEMMA JsonMade ==
  ASSUME QueryInv
  PROVE  /\ json.pairs \in Seq(Pairs)
         /\ Made(query, json.pairs, json.written, json.spilled, json.fault)
<1>1. LET j == QueryToJson(query)
      IN  j.pairs \in Seq(Pairs) /\ Made(query, j.pairs, j.written, j.spilled, j.fault)
  BY JsonFacts DEF QueryInv
<1> QED BY <1>1, Zenon DEF QueryInv

\* query_to_json reads behind the text's end only in an escape that the end
\* cuts off, leaves a value without its end only behind such an escape, and
\* writes behind the value's buffer only a character that it writes as two: for
\* texts of any length and buffers of any size.
THEOREM FaultsCorrect == QuerySpec => []QueryFaults
<1>1. QueryInv => QueryFaults
  <2> SUFFICES ASSUME QueryInv PROVE QueryFaults
    OBVIOUS
  <2>1. FaultSeen(query, json.fault)
    BY JsonMade DEF Made
  <2> QED BY <2>1, Zenon DEF FaultSeen, QueryFaults
<1> QED BY <1>1, QueryInvHolds, PTL

\* query_to_json counts the bytes of the object as long as a size_t can, and
\* an object that fits the caller's buffer is written inside it: for texts of
\* any length and buffers of any size.
THEOREM JsonStaysInside == QuerySpec => []JsonFits
<1>1. QueryInv => JsonFits
  <2> SUFFICES ASSUME QueryInv PROVE JsonFits
    OBVIOUS
  <2> DEFINE lengths == Lengths(json.pairs)
  <2>1. json.pairs \in Seq(Pairs) /\ Made(query, json.pairs, json.written, json.spilled, json.fault)
    BY JsonMade
  <2>2. lengths = <<>> <=> json.pairs = <<>>
    <3> DEFINE n == Len(json.pairs)
    <3>1. n \in Nat /\ (json.pairs = <<>> <=> n = 0)
      BY <2>1, EmptySeq, LenProperties
    <3>2. DOMAIN lengths = 1..n
      BY DEF Lengths
    <3>3. lengths = <<>> => n = 0
      <4>1. DOMAIN <<>> = {}
        OBVIOUS
      <4> HIDE DEF lengths, n
      <4>2. lengths = <<>> => 1..n = {}
        BY <3>2, <4>1
      <4>3. n \in Nat /\ (n # 0 => 1 \in 1..n)
        BY <3>1
      <4> QED BY <4>2, <4>3
    <3>4. n = 0 => lengths = <<>>
      BY DEF Lengths
    <3> QED BY <3>1, <3>3, <3>4
  <2>3. ObjectLength = IF lengths = <<>> THEN 2 ELSE Sum(json.pairs)
    BY Zenon DEF ObjectLength, Lengths, Sum, Total
  <2>4. ObjectLength = LengthOf(json.pairs)
    <3> HIDE DEF lengths
    <3> QED BY <2>2, <2>3 DEF LengthOf
  <2> QED BY <2>1, <2>4, Zenon DEF Made, JsonFits
<1> QED BY <1>1, QueryInvHolds, PTL

\* query_to_json makes of a query whose keys and values fit the buffers, and
\* whose escapes are whole, the object that it spells: the pairs of its pieces
\* in their order, decoded, each value quoted unless it is a number, and
\* without the last one only where its "=" ends the text.  For texts of any
\* length and buffers of any size.
THEOREM DecodedCorrect == QuerySpec => []QueryDecoded
<1>1. QueryInv => QueryDecoded
  <2> SUFFICES ASSUME QueryInv PROVE QueryDecoded
    OBVIOUS
  <2> DEFINE ps == Pieces
             m == Len(ps)
             q == QueryAfter(query)
             all == [i \in 1..m |-> PairOf(ps[i])]
  <2>1. query \in Seq(QueryBytes)
    BY DEF QueryInv
  <2>2. json.pairs = q.pairs /\ json.fault = q.fault
    <3>1. LET j == QueryToJson(query)
          IN  /\ j.pairs \in Seq(Pairs) /\ Made(query, j.pairs, j.written, j.spilled, j.fault)
              /\ j.pairs = QueryAfter(query).pairs /\ j.fault = QueryAfter(query).fault
      BY <2>1, JsonFacts
    <3> QED BY <3>1, Zenon DEF QueryInv
  <2>3. ps = Kept(Split(query))
    BY Zenon DEF Pieces, Split, Kept
  <2>4. PICK d : Splits(query, Split(query), d)
    BY <2>1, SplitFacts
  <2>5. PICK b : Parted(query, ps, b)
    BY <2>1, <2>3, <2>4, PartedFacts
  <2> HIDE DEF ps
  <2>6. m \in Nat
    <3>1. ps \in Seq(Seq(QueryBytes))
      BY <2>5 DEF Parted
    <3> QED BY <3>1, LenProperties
  <2>7. (query # <<>> /\ Last(query) = "=" /\ Equals(Last(ps)) = Len(Last(ps)))
          <=> m # 0 /\ Lost(query, b[m], ps[m])
    BY <2>1, <2>5, LostIs
  <2>8. ASSUME \A i \in 1..m : Ordinary(ps[i])
        PROVE  json.fault = "none" /\ json.pairs = Expected(ps)
    <3>1. /\ q.fault = "none"
          /\ \/ Begun(ps, q.pairs, m) /\ (m # 0 => ~Lost(query, b[m], ps[m]))
             \/ Begun(ps, q.pairs, m - 1) /\ m # 0 /\ Lost(query, b[m], ps[m])
      <4>1. LET r == QueryAfter(query)
            IN  /\ r.fault = "none"
                /\ \/ Begun(ps, r.pairs, Len(ps)) /\ (Len(ps) # 0 => ~Lost(query, b[Len(ps)], ps[Len(ps)]))
                   \/ Begun(ps, r.pairs, Len(ps) - 1) /\ Len(ps) # 0
                      /\ Lost(query, b[Len(ps)], ps[Len(ps)])
        BY <2>1, <2>5, <2>8, QueryRead
      <4> QED BY <4>1, Zenon
    <3>2. Expected(ps) = IF m # 0 /\ Lost(query, b[m], ps[m]) THEN Front(all) ELSE all
      BY <2>7, Zenon DEF Expected
    <3> HIDE DEF m, q
    <3>3. CASE m # 0 /\ Lost(query, b[m], ps[m])
      <4>1. q.pairs \in Seq(Pairs) /\ Len(q.pairs) = m - 1 /\ \A i \in 1..m - 1 : q.pairs[i] = PairOf(ps[i])
        BY <3>1, <3>3 DEF Begun
      <4> DEFINE T == {PairOf(ps[i]) : i \in 1..m}
      <4>2. all \in Seq(T) /\ Len(all) = m /\ \A i \in 1..m : all[i] = PairOf(ps[i])
        BY <2>6, IsASeq
      <4>3. m - 1 \in Nat /\ \A i \in 1..m - 1 : i \in 1..m
        BY <2>6, <3>3
      <4> HIDE DEF all
      <4>4. \A i \in 1..m - 1 : all[i] \in T
        BY <4>2, <4>3
      <4> HIDE DEF T
      <4>5. /\ SubSeq(all, 1, m - 1) \in Seq(T) /\ Len(SubSeq(all, 1, m - 1)) = m - 1
            /\ \A i \in 1..m - 1 : SubSeq(all, 1, m - 1)[i] = all[i]
        BY <4>2, <4>3, <4>4, SubSeqProperties
      <4>6. Front(all) = SubSeq(all, 1, m - 1)
        BY <4>2 DEF Front
      <4> DEFINE y == SubSeq(all, 1, m - 1) z == q.pairs
      <4> HIDE DEF y, z
      <4>7. y \in Seq(T) /\ Len(y) = m - 1 /\ \A i \in 1..m - 1 : y[i] = PairOf(ps[i])
        BY <4>2, <4>3, <4>5 DEF y
      <4>8. z \in Seq(Pairs) /\ Len(z) = m - 1 /\ \A i \in 1..m - 1 : z[i] = PairOf(ps[i])
        BY <4>1 DEF z
      <4>9. z = y
        <5>1. y = [i \in 1..m - 1 |-> y[i]] /\ z = [i \in 1..m - 1 |-> z[i]]
          BY <4>7, <4>8, LenProperties
        <5> QED BY <4>7, <4>8, <5>1
      <4> QED BY <2>2, <3>1, <3>2, <3>3, <4>6, <4>9 DEF y, z
    <3>4. CASE ~(m # 0 /\ Lost(query, b[m], ps[m]))
      <4>1. q.pairs \in Seq(Pairs) /\ Len(q.pairs) = m /\ \A i \in 1..m : q.pairs[i] = PairOf(ps[i])
        BY <3>1, <3>4 DEF Begun
      <4> DEFINE z == q.pairs
      <4> HIDE DEF z
      <4>2. z \in Seq(Pairs) /\ Len(z) = m /\ \A i \in 1..m : z[i] = PairOf(ps[i])
        BY <4>1 DEF z
      <4>3. z = all
        <5>1. z = [i \in 1..m |-> z[i]]
          BY <4>2, LenProperties
        <5> QED BY <4>2, <5>1
      <4> QED BY <2>2, <3>1, <3>2, <3>4, <4>3 DEF z
    <3> QED BY <3>3, <3>4
  <2>9. QueryDecoded <=> ((\A i \in 1..m : Ordinary(ps[i])) => json.fault = "none" /\ json.pairs = Expected(ps))
    BY Zenon DEF QueryDecoded, ps
  <2> QED BY <2>8, <2>9
<1> QED BY <1>1, QueryInvHolds, PTL
=============================================================================

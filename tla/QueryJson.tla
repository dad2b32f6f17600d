----------------------------- MODULE QueryJson ------------------------------
(***************************************************************************)
(* query_to_json (evweb.c): the query of a URL as a JSON object.           *)
(*                                                                         *)
(* The text is a sequence of bytes, of which each stands for its class:    *)
(* "9" a decimal digit, "a" the hexadecimal digit whose value is that of a *)
(* newline, "'" what a backslash is written before, "&" for ";" too.       *)
(* Behind it comes "NUL".  "o" is the code of any other character, which   *)
(* only an escape makes.  The words true and false are left out.           *)
(*                                                                         *)
(* The object is represented by its pairs.                                 *)
(***************************************************************************)
EXTENDS Integers, Sequences, SequencesExt, BoundedPrint

CONSTANTS
  KeySize,     \* sizeof key
  ValueSize,   \* sizeof value
  JsonSize,    \* the size of the buffer that the caller gives
  MaxQuery     \* bound: bytes of a query

ASSUME QueryAssumption ==
  /\ {KeySize, ValueSize, JsonSize} \subseteq Nat \ {0}
  /\ JsonSize < SizeSpan
  /\ MaxQuery \in Nat

QueryBytes == {"a", "9", "-", ".", "=", "&", "%", "+", "'"}

ByteAt(text, i) ==
  CASE i < Len(text) -> text[i + 1]
    [] i = Len(text) -> "NUL"
    [] OTHER         -> "junk"

-----------------------------------------------------------------------------
(***************************************************************************)
(* A key.                                                                  *)
(***************************************************************************)

\* The bytes before the first that ends the key, at most KeySize.
KeyLength(text, i) ==
  CHOOSE n \in 0..KeySize :
    /\ \A k \in 0..n - 1 : ByteAt(text, i + k) \notin {"=", "&", "NUL"}
    /\ n < KeySize => ByteAt(text, i + n) \in {"=", "&", "NUL"}

\* Of a key that fills the buffer the last byte gives way to a NUL, and what
\* follows is taken for its value.
KeyAt(text, i) ==
  LET n == KeyLength(text, i)
      end == ByteAt(text, i + n)
      full == n = KeySize
  IN  [key      |-> SubSeq(text, i + 1, i + (IF full THEN n - 1 ELSE n)),
       hasValue |-> full \/ end = "=",
       next     |-> IF full \/ end = "NUL" THEN i + n ELSE i + n + 1]

-----------------------------------------------------------------------------
(***************************************************************************)
(* A value, byte by byte.  cells is what is written to the buffer: at its  *)
(* end a byte that is written over by the next one.  next_char lives on    *)
(* from byte to byte and from value to value.                              *)
(***************************************************************************)

HexDigits == {"a", "9"}

\* sscanf("%2x"): what it makes of two bytes, or next_char as it was.
Scanned(x, y, next_char) ==
  IF x = "a" /\ y \notin HexDigits THEN "newline"
  ELSE IF x \in HexDigits \/ (x \in {"-", "+"} /\ y \in HexDigits) THEN "o"
  ELSE next_char

\* What is written for a character.
Written(c) ==
  CASE c = "'"       -> <<"backslash", "'">>
    [] c = "newline" -> <<"backslash", "n">>
    [] OTHER         -> <<c>>

\* Mutant: a value ends at a delimiter only.
EndsAtDelimiter(byte) == byte = "&"

Ends(byte) == byte \in {"&", "NUL"}

\* Mutant: any number of points.
NumberGoesOnAlways(last, cells, decimal) == last \in {"9", "."} \/ (last = "-" /\ Len(cells) = 1)

\* The last byte of cells may belong to a number: a digit, one point, a minus
\* at the beginning.
NumberGoesOn(last, cells, decimal) ==
  \/ last = "9"
  \/ last = "." /\ ~decimal
  \/ last = "-" /\ Len(cells) = 1

\* One turn of the loop; done also when something undefined was done: a byte
\* was read behind the text's end or written behind the buffer's.
ValueByte(text, v) ==
  LET byte  == ByteAt(text, v.pos)
      char  == CASE byte = "%" -> Scanned(ByteAt(text, v.pos + 1), ByteAt(text, v.pos + 2),
                                          v.next_char)
                 [] byte = "+" -> "o"
                 [] OTHER      -> byte
      at    == IF byte = "%" THEN v.pos + 2 ELSE v.pos
      here  == ByteAt(text, at)
      cells == v.cells \o Written(char)
      fault == IF at > Len(text) THEN "overread"
               ELSE IF Len(cells) > ValueSize THEN "overrun"
               ELSE IF here = "NUL" /\ char # "NUL" THEN "unterminated"
               ELSE "none"
  IN  [cells     |-> IF here = "&" THEN Append(Front(cells), "NUL") ELSE cells,
       pos       |-> IF Ends(here) /\ here # "&" THEN at ELSE at + 1,
       next_char |-> char,
       number    |-> v.number /\ (Ends(here) \/ NumberGoesOn(Last(cells), cells, v.decimal)),
       decimal   |-> v.decimal \/ (v.number /\ ~Ends(here) /\ Last(cells) = "."),
       fault     |-> fault,
       done      |-> Ends(here) \/ fault # "none"]

\* Every turn fills a cell or two.
ValueAt(text, i, next_char) ==
  FoldLeft(LAMBDA v, turn : IF v.done \/ Len(v.cells) >= ValueSize THEN v ELSE ValueByte(text, v),
           [cells |-> <<>>, pos |-> i, next_char |-> next_char, number |-> TRUE,
            decimal |-> FALSE, fault |-> "none", done |-> FALSE],
           [turn \in 1..ValueSize |-> turn])

\* What is printed of the buffer, whose last cell is a NUL.
Terminated(cells) ==
  LET end == SelectInSeq(cells, LAMBDA c : c = "NUL")
  IN  IF end > 0 THEN SubSeq(cells, 1, end - 1) ELSE SubSeq(cells, 1, ValueSize - 1)

-----------------------------------------------------------------------------
(***************************************************************************)
(* The object.                                                             *)
(***************************************************************************)

\* The bytes of  "key": "value",  with the space behind it.
PairLength(pair) ==
  Len(pair.key) + Len(pair.value) + (IF pair.quoted THEN 8 ELSE 6)

WritePair(q, pair) == Snprintf([q EXCEPT !.pairs = Append(@, pair)], JsonSize, PairLength(pair))

\* One pair, or the end of the text.
Pair(text, q) ==
  LET k == KeyAt(text, q.pos)
      v == ValueAt(text, k.next, q.next_char)
      r == [q EXCEPT !.pos = v.pos, !.next_char = v.next_char]
  IN  CASE ~k.hasValue ->
             [WritePair(q, [key |-> k.key, value |-> <<>>, quoted |-> TRUE]) EXCEPT !.pos = k.next]
        [] k.hasValue /\ ByteAt(text, k.next) = "NUL" ->
             [q EXCEPT !.done = TRUE]
        [] k.hasValue /\ ByteAt(text, k.next) # "NUL" /\ v.fault # "none" ->
             [r EXCEPT !.fault = v.fault, !.done = TRUE]
        [] OTHER ->
             WritePair(r, [key |-> k.key, value |-> Terminated(v.cells), quoted |-> ~v.number])

\* Mutant: two bytes are taken back of an empty object, too.
TrimAlways(written) == (written - 2) % SizeSpan

\* The comma and the space behind the last pair are written over.
Trim(written) == IF written > 2 THEN written - 2 ELSE written

\* Every turn takes a byte at least.
QueryToJson(text) ==
  LET start == Snprintf([pos |-> 0, pairs |-> <<>>, next_char |-> "junk", written |-> 0,
                      spilled |-> FALSE, fault |-> "none", done |-> FALSE], JsonSize, 1)
      q == FoldLeft(LAMBDA r, turn : IF r.done \/ ByteAt(text, r.pos) = "NUL" THEN r
                                     ELSE Pair(text, r),
                    start, text)
  IN  Snprintf([q EXCEPT !.written = Trim(@)], JsonSize, 1)

-----------------------------------------------------------------------------
VARIABLES
  query,   \* the text
  json     \* what is made of it

queryVars == <<query, json>>

QueryInit == query = <<>> /\ json = QueryToJson(<<>>)

\* Every text is looked at.
QueryNext ==
  /\ Len(query) < MaxQuery
  /\ \E b \in QueryBytes : query' = Append(query, b)
  /\ json' = QueryToJson(query')

QuerySpec == QueryInit /\ [][QueryNext]_queryVars

-----------------------------------------------------------------------------
(***************************************************************************)
(* What the object should be: the text is split at the delimiters, and     *)
(* each piece at its first "=".                                            *)
(***************************************************************************)
Pieces ==
  LET split == FoldLeft(LAMBDA ps, b : IF b = "&" THEN Append(ps, <<>>)
                                       ELSE Append(Front(ps), Append(Last(ps), b)),
                        <<<<>>>>, query)
  IN  IF Last(split) = <<>> THEN Front(split) ELSE split

Equals(piece) == SelectInSeq(piece, LAMBDA b : b = "=")

KeyOf(piece) == IF Equals(piece) = 0 THEN piece ELSE SubSeq(piece, 1, Equals(piece) - 1)

Encoded(piece) == IF Equals(piece) = 0 THEN <<>> ELSE SubSeq(piece, Equals(piece) + 1, Len(piece))

\* Two digits behind every percent sign; they make one character.
WellEncoded(value) ==
  \A i \in 1..Len(value) : value[i] = "%" =>
    i + 2 <= Len(value) /\ {value[i + 1], value[i + 2]} \subseteq HexDigits

Decoded(value) ==
  LET InEscape(i) == \E k \in {1, 2} : i > k /\ value[i - k] = "%"
      Char(i) == CASE InEscape(i)            -> <<>>
                   [] value[i] \in {"%", "+"} -> <<"o">>
                   [] value[i] = "'"          -> <<"backslash", "'">>
                   [] OTHER                   -> <<value[i]>>
  IN  FlattenSeq([i \in 1..Len(value) |-> Char(i)])

IsNumber(value) ==
  /\ \A i \in 1..Len(value) : value[i] \in {"9", "."} \/ (value[i] = "-" /\ i = 1)
  /\ \A i, k \in 1..Len(value) : value[i] = "." /\ value[k] = "." => i = k

PairOf(piece) ==
  [key |-> KeyOf(piece), value |-> Decoded(Encoded(piece)),
   quoted |-> Equals(piece) = 0 \/ ~IsNumber(Decoded(Encoded(piece)))]

\* A text whose last piece has an "=" and nothing behind it loses that piece.
Expected(pieces) ==
  LET pairs == [i \in 1..Len(pieces) |-> PairOf(pieces[i])]
  IN  IF query # <<>> /\ Last(query) = "=" /\ Equals(Last(pieces)) = Len(Last(pieces))
      THEN Front(pairs) ELSE pairs

Ordinary(piece) ==
  /\ Len(KeyOf(piece)) < KeySize
  /\ WellEncoded(Encoded(piece))
  /\ Len(Decoded(Encoded(piece))) < ValueSize

-----------------------------------------------------------------------------
(***************************************************************************)
(* Properties.                                                             *)
(***************************************************************************)
\* A query whose keys and values fit the buffers and whose escapes are whole
\* becomes the object it spells, each value quoted unless it is a number.
QueryDecoded ==
  LET pieces == Pieces
  IN  (\A i \in 1..Len(pieces) : Ordinary(pieces[i])) =>
        json.fault = "none" /\ json.pairs = Expected(pieces)

\* What the loops over the text may do wrong: an escape that is cut off by
\* the end of the text is read on behind it, or leaves the value without its
\* end; one character that is written as two may not fit the buffer, which
\* takes a value of which each byte before it has filled two cells at most.
QueryFaults ==
  /\ json.fault = "overread" => Last(query) = "%"
  /\ json.fault = "unterminated" => Len(query) > 1 /\ query[Len(query) - 1] = "%"
  /\ json.fault = "overrun" =>
       \E i \in 1..Len(query) : query[i] \in {"'", "%"} /\ 2 * (i - 2) >= ValueSize - 1

ObjectLength ==
  LET lengths == [i \in 1..Len(json.pairs) |-> PairLength(json.pairs[i])]
  IN  IF lengths = <<>> THEN 2 ELSE FoldLeft(+, 0, lengths)

\* The bytes counted are those of the object, without the comma behind its last
\* pair, and an object that fits the caller's buffer is written inside it.
\* (One that does not makes the room wrap, and is written outside; one that is
\* as long as a size_t can count makes the count wrap.)
JsonFits ==
  json.fault = "none" =>
    /\ ObjectLength + 1 < SizeSpan => json.written = ObjectLength
    /\ ObjectLength < JsonSize => ~json.spilled
=============================================================================

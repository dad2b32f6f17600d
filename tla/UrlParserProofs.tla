--------------------------- MODULE UrlParserProofs ---------------------------
(***************************************************************************)
(* Proofs about UrlParser, for URLs of any length, any width of an offset  *)
(* and any largest port.                                                   *)
(*                                                                         *)
(* What the loops compute is proved for every text, by induction on it     *)
(* (LoopLemmas): the fields come in order and make up the text, no front   *)
(* of it is refused when it is not.  The invariant of the specification    *)
(* then only says that both readers are in the same state and that info is *)
(* what the URL makes it.                                                  *)
(***************************************************************************)
EXTENDS UrlParser, LoopLemmas

-----------------------------------------------------------------------------
(***************************************************************************)
(* The moves and the loops as functions.                                   *)
(***************************************************************************)

\* strtoul's loop.
Digits(run) == FoldLeft(LAMBDA n, d : 10 * n + 9, 0, run)

\* Its body.
DigitStep == [x \in Nat \X Bytes |-> 10 * x[1] + 9]

\* The fold that is written in NumberAt is the loop of DigitStep.
LEMMA DigitsLooped ==
  ASSUME NEW run \in Seq(Bytes)
  PROVE  Digits(run) = Looped(DigitStep, 0, run)
<1> DEFINE Eq(I) == I = [s \in SUBSET DOMAIN run |->
                           IF s = {} THEN 0 ELSE 10 * I[s \ {Max(s)}] + 9]
           K == CHOOSE I : Eq(I)
<1>1. Digits(run) = K[DOMAIN run]
  BY DEF Digits, FoldLeft, MapThenFoldSet
<1>2. Machine(Nat, Bytes, DigitStep, 0)
  BY DEF Machine, DigitStep
<1>3. DOMAIN run = 1..Len(run) /\ Len(run) \in Nat /\ \A k \in 1..Len(run) : run[k] \in Bytes
  BY LenProperties, ElementOfSeq
<1>4. PICK g \in [SUBSET DOMAIN run -> Nat] : Solves(g, DigitStep, 0, run)
  BY <1>2, Solution DEF Machine
<1>5. Eq(g)
  <2>1. ASSUME NEW s \in SUBSET DOMAIN run, s # {}
        PROVE  g[s] = 10 * g[s \ {Max(s)}] + 9
    <3>1. g[s \ {Max(s)}] \in Nat /\ s \ {Max(s)} \in SUBSET DOMAIN run
      OBVIOUS
    <3>2. Max(s) \in DOMAIN run /\ run[Max(s)] \in Bytes
      BY <1>3, <2>1, MaxIn
    <3>3. g[s] = DigitStep[<<g[s \ {Max(s)}], run[Max(s)]>>]
      BY <1>4, <2>1 DEF Solves
    <3> QED BY <3>1, <3>2, <3>3 DEF DigitStep
  <2> QED BY <1>4, <2>1 DEF Solves
<1>6. Eq(K)
  <2> HIDE DEF Eq
  <2> QED BY <1>5, Zenon
<1> HIDE DEF K
<1>7. K[{}] = 0
  <2>1. {} \in SUBSET DOMAIN run
    OBVIOUS
  <2> QED BY <1>6, <2>1
<1>8. ASSUME NEW k \in 1..Len(run) PROVE K[1..k] = 10 * K[1..k - 1] + 9
  <2>1. 1..k \in SUBSET DOMAIN run /\ 1..k # {} /\ Max(1..k) = k /\ (1..k) \ {k} = 1..k - 1
    BY <1>3, UpTo
  <2>2. K[1..k] = 10 * K[(1..k) \ {Max(1..k)}] + 9
    BY <1>6, <2>1
  <2> QED BY <2>1, <2>2
<1>9. Follows(K, Nat, DigitStep, 0, run, Len(run))
  BY <1>3, <1>7, <1>8 DEF Follows, DigitStep
<1> QED BY <1>1, <1>2, <1>3, <1>9, FoldIsLooped

-----------------------------------------------------------------------------
\* With the first one and the error.
States == DOMAIN UrlMoves \union {"s_req_spaces_before_url", "s_dead"}

\* Those of a query and of a fragment.
Query == {"s_req_query_string_start", "s_req_query_string"}
Fragment == {"s_req_fragment_start", "s_req_fragment"}

\* The states of parse_url_char, by their fields.
LEMMA AllStates ==
  DOMAIN UrlMoves = SchemaStates \union {"s_req_host", "s_req_port", "s_req_path"} \union Query \union Fragment
BY DEF UrlMoves, SchemaStates, Query, Fragment

\* The moves of a state.
MovesOf(s, c) == IF s = "s_req_spaces_before_url" THEN FirstMoves(c) ELSE UrlMoves[s]

\* A byte that is no error is among those that lead to the next state.
LEMMA Moved ==
  ASSUME NEW s, NEW b, NEW c, ParseUrlChar(s, b, c) # "s_dead"
  PROVE  /\ ParseUrlChar(s, b, c) \in DOMAIN MovesOf(s, c)
         /\ b \in MovesOf(s, c)[ParseUrlChar(s, b, c)]
<1> DEFINE m == MovesOf(s, c)
           t == CHOOSE t \in DOMAIN m : b \in m[t]
<1>1. ParseUrlChar(s, b, c) = IF \E r \in DOMAIN m : b \in m[r] THEN t ELSE "s_dead"
  BY DEF ParseUrlChar, MovesOf
<1>2. (\E r \in DOMAIN m : b \in m[r]) /\ ParseUrlChar(s, b, c) = t
  <2> HIDE DEF m, t
  <2> QED BY <1>1
<1>3. t \in DOMAIN m /\ b \in m[t]
  <2> HIDE DEF m
  <2> QED BY <1>2, Zenon
<1> QED BY <1>2, <1>3

\* From where, and with what, each state is reached when the request is not
\* CONNECT.
From(s, b, t) ==
  \/ t = "s_req_schema" /\ b = "a" /\ s \in {"s_req_spaces_before_url", "s_req_schema"}
  \/ t = "s_req_schema_slash" /\ b = ":" /\ s = "s_req_schema"
  \/ t = "s_req_schema_slash_slash" /\ b = "/" /\ s = "s_req_schema_slash"
  \/ t = "s_req_host" /\ b = "/" /\ s = "s_req_schema_slash_slash"
  \/ t = "s_req_host" /\ b \in HostChars /\ s = "s_req_host"
  \/ t = "s_req_port" /\ b = ":" /\ s = "s_req_host"
  \/ t = "s_req_port" /\ b = "9" /\ s = "s_req_port"
  \/ t = "s_req_path" /\ b \in {"/", "*"} /\ s = "s_req_spaces_before_url"
  \/ t = "s_req_path" /\ b = "/" /\ s \in {"s_req_host", "s_req_port"}
  \/ t = "s_req_path" /\ b \in UrlChars /\ s = "s_req_path"
  \/ t = "s_req_query_string_start" /\ b = "?"
       /\ s \in {"s_req_host", "s_req_port", "s_req_path", "s_req_query_string_start"}
  \/ t = "s_req_query_string" /\ b \in UrlChars \union {"?"} /\ s \in Query
  \/ t = "s_req_fragment_start" /\ b = "#" /\ s \in {"s_req_path", "s_req_fragment_start"} \union Query
  \/ t = "s_req_fragment" /\ b \in UrlChars \union {"?", "#"} /\ s \in Fragment

\* From(s, b, t) is what the table of moves says, state by state.
LEMMA Came ==
  ASSUME NEW s \in States \ {"s_dead"}, NEW b, ParseUrlChar(s, b, FALSE) # "s_dead"
  PROVE  From(s, b, ParseUrlChar(s, b, FALSE))
<1> DEFINE t == ParseUrlChar(s, b, FALSE)
           m == MovesOf(s, FALSE)
<1>1. t \in DOMAIN m /\ b \in m[t]
  BY Moved
<1> HIDE DEF t, m
<1>2. s \in SchemaStates \union {"s_req_host", "s_req_port", "s_req_path"} \union Query \union Fragment
        \union {"s_req_spaces_before_url"}
  BY AllStates DEF States
<1>3. ASSUME s = "s_req_spaces_before_url" PROVE From(s, b, t)
  <2>1. m = [s_req_path |-> {"/", "*"}, s_req_schema |-> Alpha]
    BY <1>3 DEF m, MovesOf, FirstMoves, UrlMoves
  <2>2. t \in {"s_req_path", "s_req_schema"}
    BY <1>1, <2>1
  <2>3. /\ m["s_req_path"] = {"/", "*"}
        /\ m["s_req_schema"] = Alpha
    BY <2>1
  <2> QED BY <1>1, <1>3, <2>2, <2>3 DEF From, Alpha, Num, Query, Fragment
<1>4. ASSUME s = "s_req_schema" PROVE From(s, b, t)
  <2>1. m = [s_req_schema |-> Alpha, s_req_schema_slash |-> {":"}]
    BY <1>4 DEF m, MovesOf, FirstMoves, UrlMoves
  <2>2. t \in {"s_req_schema", "s_req_schema_slash"}
    BY <1>1, <2>1
  <2>3. /\ m["s_req_schema"] = Alpha
        /\ m["s_req_schema_slash"] = {":"}
    BY <2>1
  <2> QED BY <1>1, <1>4, <2>2, <2>3 DEF From, Alpha, Num, Query, Fragment
<1>5. ASSUME s = "s_req_schema_slash" PROVE From(s, b, t)
  <2>1. m = [s_req_schema_slash_slash |-> {"/"}]
    BY <1>5 DEF m, MovesOf, FirstMoves, UrlMoves
  <2>2. t \in {"s_req_schema_slash_slash"}
    BY <1>1, <2>1
  <2>3. /\ m["s_req_schema_slash_slash"] = {"/"}
    BY <2>1
  <2> QED BY <1>1, <1>5, <2>2, <2>3 DEF From, Alpha, Num, Query, Fragment
<1>6. ASSUME s = "s_req_schema_slash_slash" PROVE From(s, b, t)
  <2>1. m = [s_req_host |-> {"/"}]
    BY <1>6 DEF m, MovesOf, FirstMoves, UrlMoves
  <2>2. t \in {"s_req_host"}
    BY <1>1, <2>1
  <2>3. /\ m["s_req_host"] = {"/"}
    BY <2>1
  <2> QED BY <1>1, <1>6, <2>2, <2>3 DEF From, Alpha, Num, Query, Fragment
<1>7. ASSUME s = "s_req_host" PROVE From(s, b, t)
  <2>1. m = [s_req_host |-> HostChars, s_req_port |-> {":"},
            s_req_path |-> {"/"}, s_req_query_string_start |-> {"?"}]
    BY <1>7 DEF m, MovesOf, FirstMoves, UrlMoves
  <2>2. t \in {"s_req_host", "s_req_port", "s_req_path", "s_req_query_string_start"}
    BY <1>1, <2>1
  <2>3. /\ m["s_req_host"] = HostChars
        /\ m["s_req_port"] = {":"}
        /\ m["s_req_path"] = {"/"}
        /\ m["s_req_query_string_start"] = {"?"}
    BY <2>1
  <2> QED BY <1>1, <1>7, <2>2, <2>3 DEF From, Alpha, Num, Query, Fragment
<1>8. ASSUME s = "s_req_port" PROVE From(s, b, t)
  <2>1. m = [s_req_port |-> Num, s_req_path |-> {"/"}, s_req_query_string_start |-> {"?"}]
    BY <1>8 DEF m, MovesOf, FirstMoves, UrlMoves
  <2>2. t \in {"s_req_port", "s_req_path", "s_req_query_string_start"}
    BY <1>1, <2>1
  <2>3. /\ m["s_req_port"] = Num
        /\ m["s_req_path"] = {"/"}
        /\ m["s_req_query_string_start"] = {"?"}
    BY <2>1
  <2> QED BY <1>1, <1>8, <2>2, <2>3 DEF From, Alpha, Num, Query, Fragment
<1>9. ASSUME s = "s_req_path" PROVE From(s, b, t)
  <2>1. m = [s_req_path |-> UrlChars,
            s_req_query_string_start |-> {"?"}, s_req_fragment_start |-> {"#"}]
    BY <1>9 DEF m, MovesOf, FirstMoves, UrlMoves
  <2>2. t \in {"s_req_path", "s_req_query_string_start", "s_req_fragment_start"}
    BY <1>1, <2>1
  <2>3. /\ m["s_req_path"] = UrlChars
        /\ m["s_req_query_string_start"] = {"?"}
        /\ m["s_req_fragment_start"] = {"#"}
    BY <2>1
  <2> QED BY <1>1, <1>9, <2>2, <2>3 DEF From, Alpha, Num, Query, Fragment
<1>10. ASSUME s = "s_req_query_string_start" PROVE From(s, b, t)
  <2>1. m = [s_req_query_string |-> UrlChars,
            s_req_query_string_start |-> {"?"}, s_req_fragment_start |-> {"#"}]
    BY <1>10 DEF m, MovesOf, FirstMoves, UrlMoves
  <2>2. t \in {"s_req_query_string", "s_req_query_string_start", "s_req_fragment_start"}
    BY <1>1, <2>1
  <2>3. /\ m["s_req_query_string"] = UrlChars
        /\ m["s_req_query_string_start"] = {"?"}
        /\ m["s_req_fragment_start"] = {"#"}
    BY <2>1
  <2> QED BY <1>1, <1>10, <2>2, <2>3 DEF From, Alpha, Num, Query, Fragment
<1>11. ASSUME s = "s_req_query_string" PROVE From(s, b, t)
  <2>1. m = [s_req_query_string |-> UrlChars \union {"?"}, s_req_fragment_start |-> {"#"}]
    BY <1>11 DEF m, MovesOf, FirstMoves, UrlMoves
  <2>2. t \in {"s_req_query_string", "s_req_fragment_start"}
    BY <1>1, <2>1
  <2>3. /\ m["s_req_query_string"] = UrlChars \union {"?"}
        /\ m["s_req_fragment_start"] = {"#"}
    BY <2>1
  <2> QED BY <1>1, <1>11, <2>2, <2>3 DEF From, Alpha, Num, Query, Fragment
<1>12. ASSUME s = "s_req_fragment_start" PROVE From(s, b, t)
  <2>1. m = [s_req_fragment |-> UrlChars \union {"?"}, s_req_fragment_start |-> {"#"}]
    BY <1>12 DEF m, MovesOf, FirstMoves, UrlMoves
  <2>2. t \in {"s_req_fragment", "s_req_fragment_start"}
    BY <1>1, <2>1
  <2>3. /\ m["s_req_fragment"] = UrlChars \union {"?"}
        /\ m["s_req_fragment_start"] = {"#"}
    BY <2>1
  <2> QED BY <1>1, <1>12, <2>2, <2>3 DEF From, Alpha, Num, Query, Fragment
<1>13. ASSUME s = "s_req_fragment" PROVE From(s, b, t)
  <2>1. m = [s_req_fragment |-> UrlChars \union {"?", "#"}]
    BY <1>13 DEF m, MovesOf, FirstMoves, UrlMoves
  <2>2. t \in {"s_req_fragment"}
    BY <1>1, <2>1
  <2>3. /\ m["s_req_fragment"] = UrlChars \union {"?", "#"}
    BY <2>1
  <2> QED BY <1>1, <1>13, <2>2, <2>3 DEF From, Alpha, Num, Query, Fragment
<1>14. From(s, b, t)
  BY <1>2, <1>3, <1>4, <1>5, <1>6, <1>7, <1>8, <1>9, <1>10, <1>11, <1>12, <1>13
     DEF SchemaStates, Query, Fragment
<1> QED BY <1>14 DEF t

-----------------------------------------------------------------------------
\* The state of the loop.
ParseState == [s : States, p : Nat, field : Fields \union {"none"}, info : UrlInfo]

\* As on_url calls them.
Char(s, b) == ParseUrlChar(s, b, FALSE)
Byte(q, b) == ParseByte(q, b, FALSE)

\* uint16_t keeps a number that is small enough.
LEMMA OffsetFacts ==
  /\ \A n \in Nat : Offset(n) \in Offsets
  /\ \A n \in Nat : n < OffsetSpan => Offset(n) = n
  /\ 0 \in Offsets /\ 1 \in Offsets
BY UrlAssumption DEF Offset, Offsets

\* A step of on_url's reader: it stays within the states, and comes as
\* From says.
LEMMA CharIn ==
  ASSUME NEW s \in States \ {"s_dead"}, NEW b
  PROVE  Char(s, b) \in States /\ (Char(s, b) # "s_dead" => From(s, b, Char(s, b)))
<1> DEFINE t == Char(s, b)
<1>1. t # "s_dead" => From(s, b, t)
  BY Came DEF Char
<1> HIDE DEF t
<1>2. t \in States
  BY <1>1, AllStates DEF States, From, SchemaStates, Query, Fragment
<1> QED BY <1>1, <1>2 DEF t

\* Every state is one of a field.
LEMMA FieldIn ==
  ASSUME NEW s
  PROVE  Field(s) \in Fields /\ Delimiter(Field(s)) \in {0, 1}
BY DEF Field, Fields, Delimiter

\* What the loop writes of a field: that of the byte before goes on, or
\* another begins.
Here(q, f) ==
  IF f = q.field THEN [q.info.data[f] EXCEPT !.len = Offset(@ + 1)]
  ELSE [off |-> Offset(q.p + Delimiter(f)), len |-> 1 - Delimiter(f)]

\* What the loop writes of a field has the type of an entry.
LEMMA HereIn ==
  ASSUME NEW q \in ParseState, NEW f \in Fields, Delimiter(f) \in {0, 1}
  PROVE  /\ Here(q, f) \in [off : Offsets, len : Offsets]
         /\ Here(q, f).off = IF f = q.field THEN q.info.data[f].off ELSE Offset(q.p + Delimiter(f))
         /\ Here(q, f).len = IF f = q.field THEN Offset(q.info.data[f].len + 1) ELSE 1 - Delimiter(f)
<1>1. q.info \in UrlInfo /\ q.p \in Nat
  BY DEF ParseState
<1>2. q.info.data[f] \in [off : Offsets, len : Offsets]
  BY <1>1 DEF UrlInfo
<1>3. PICK o \in Offsets, l \in Offsets : q.info.data[f] = [off |-> o, len |-> l]
  BY <1>2
<1>4. Offset(l + 1) \in Offsets
  BY <1>3, OffsetFacts DEF Offsets
<1>5. Offset(q.p + Delimiter(f)) \in Offsets
  BY <1>1, OffsetFacts
<1>6. 1 - Delimiter(f) \in Offsets
  BY OffsetFacts
<1> QED BY <1>3, <1>4, <1>5, <1>6 DEF Here

\* What is left of a structure that is cleared.
LEMMA InfoEmptied ==
  ASSUME NEW x, NEW y, NEW z, NEW u, u = [set |-> x, port |-> y, data |-> z]
  PROVE  InfoCleared(u) = [set |-> {}, port |-> 0, data |-> z]
<1> DEFINE v == [u EXCEPT !.set = {}]
<1>1. InfoCleared(u) = [v EXCEPT !.port = 0]
  BY DEF InfoCleared
<1>2. v = [set |-> {}, port |-> y, data |-> z]
  OBVIOUS
<1> HIDE DEF v
<1> QED BY <1>1, <1>2

\* The loop's state after a byte of the field f that is no error.
Goes(q, r, b, f) ==
  /\ r.p = q.p + 1
  /\ r.field = f
  /\ r.info.set = q.info.set \union {f}
  /\ r.info.port = q.info.port
  /\ r.info.data = [q.info.data EXCEPT ![f] = Here(q, f)]

\* One turn of the loop: an error stays one, and what else is written.
LEMMA ByteFacts ==
  ASSUME NEW q \in ParseState, NEW b
  PROVE  /\ Byte(q, b) \in ParseState
         /\ Dead(q) => Byte(q, b) = q
         /\ ~Dead(q) => Byte(q, b).s = Char(q.s, b)
         /\ Dead(Byte(q, b)) => Byte(q, b).info = q.info
         /\ ~Dead(Byte(q, b)) => Goes(q, Byte(q, b), b, Field(Char(q.s, b)))
<1> DEFINE t == Char(q.s, b)
           f == Field(t)
           r == Byte(q, b)
<1>1. r = IF q.s = "s_dead" THEN q
          ELSE IF t = "s_dead" THEN [q EXCEPT !.s = t]
          ELSE [s |-> t, p |-> q.p + 1, field |-> f,
                info |-> [q.info EXCEPT !.set = @ \union {f}, !.data[f] = Here(q, f)]]
  BY DEF Byte, Char, ParseByte, Here
<1>2. q.s \in States /\ q.p \in Nat /\ q.field \in Fields \union {"none"} /\ q.info \in UrlInfo
  BY DEF ParseState
<1>3. ~Dead(q) => t \in States
  BY <1>2, CharIn DEF Dead
<1>4. f \in Fields /\ Delimiter(f) \in {0, 1}
  BY FieldIn
<1> HIDE DEF t, f, r
<1>5. PICK x \in SUBSET Fields, y \in 0..MaxPort, z \in [Fields -> [off : Offsets, len : Offsets]] :
        q.info = [set |-> x, port |-> y, data |-> z]
  BY <1>2 DEF UrlInfo
<1>6. Here(q, f) \in [off : Offsets, len : Offsets]
  BY <1>4, HereIn
<1> DEFINE i == [q.info EXCEPT !.set = @ \union {f}, !.data[f] = Here(q, f)]
<1>7. /\ i = [set |-> x \union {f}, port |-> y, data |-> [z EXCEPT ![f] = Here(q, f)]]
      /\ i \in UrlInfo
  <2>1. i = [set |-> x \union {f}, port |-> y, data |-> [z EXCEPT ![f] = Here(q, f)]]
    <3> DEFINE u == q.info
               h == Here(q, f)
               a == u.set \union {f}
               v == [u EXCEPT !.set = a]
    <3>1. u = [set |-> x, port |-> y, data |-> z] /\ a = x \union {f}
      BY <1>5
    <3>2. i = [v EXCEPT !.data[f] = h]
      BY DEF i
    <3> HIDE DEF u, h, a
    <3>3. v = [set |-> a, port |-> y, data |-> z]
      BY <3>1
    <3> HIDE DEF v, i
    <3>4. i = [set |-> a, port |-> y, data |-> [z EXCEPT ![f] = h]]
      BY <3>2, <3>3
    <3> QED BY <3>1, <3>4 DEF h
  <2> HIDE DEF i
  <2>2. [z EXCEPT ![f] = Here(q, f)] \in [Fields -> [off : Offsets, len : Offsets]]
    BY <1>4, <1>5, <1>6
  <2>3. x \union {f} \in SUBSET Fields
    BY <1>4, <1>5
  <2> QED BY <1>5, <2>1, <2>2, <2>3 DEF UrlInfo
<1> HIDE DEF i
<1>8. CASE q.s = "s_dead"
  BY <1>1, <1>8 DEF r, t, Dead
<1>9. CASE q.s # "s_dead" /\ t = "s_dead"
  <2>1. r = [s |-> "s_dead", p |-> q.p, field |-> q.field, info |-> q.info]
    BY <1>1, <1>2, <1>9 DEF ParseState
  <2> QED BY <1>2, <1>9, <2>1 DEF r, t, Dead, ParseState, States
<1>10. CASE q.s # "s_dead" /\ t # "s_dead"
  <2>1. r = [s |-> t, p |-> q.p + 1, field |-> f, info |-> i]
    BY <1>1, <1>10 DEF i
  <2>2. r \in ParseState
    BY <1>2, <1>3, <1>4, <1>7, <1>10, <2>1 DEF ParseState, Dead
  <2>3. Goes(q, r, b, f)
    <3>1. r.info = i /\ r.p = q.p + 1 /\ r.field = f
      BY <2>1
    <3>2. i.set = q.info.set \union {f} /\ i.port = q.info.port
      BY <1>5, <1>7
    <3>3. i.data = [q.info.data EXCEPT ![f] = Here(q, f)]
      BY <1>5, <1>7
    <3> QED BY <3>1, <3>2, <3>3 DEF Goes
  <2> QED BY <1>10, <2>1, <2>2, <2>3 DEF r, t, f, Dead
<1> QED BY <1>8, <1>9, <1>10

-----------------------------------------------------------------------------
\* Where the loop begins, of a structure that was u.
Begin(u) == [s |-> "s_req_spaces_before_url", p |-> 0, field |-> "none", info |-> InfoCleared(u)]

\* The loop of http_parser_parse_url.
Parsed(text, u) == FoldLeft(LAMBDA r, b : Byte(r, b), Begin(u), text)

\* Its body.
ByteStep == [x \in ParseState \X Bytes |-> Byte(x[1], x[2])]

\* The loop begins with a structure in which nothing is set.
LEMMA BeginFacts ==
  ASSUME NEW u \in UrlInfo
  PROVE  /\ Begin(u) \in ParseState
         /\ InfoCleared(u).set = {} /\ InfoCleared(u).port = 0
<1>1. PICK x \in SUBSET Fields, y \in 0..MaxPort, z \in [Fields -> [off : Offsets, len : Offsets]] :
        u = [set |-> x, port |-> y, data |-> z]
  BY DEF UrlInfo
<1>2. InfoCleared(u) = [set |-> {}, port |-> 0, data |-> z]
  BY <1>1, InfoEmptied
<1>3. InfoCleared(u) \in UrlInfo
  BY <1>2, UrlAssumption DEF UrlInfo
<1> QED BY <1>2, <1>3 DEF Begin, ParseState, States

\* The fold that is written in ParseUrl is the loop of ByteStep.
LEMMA ParsedLooped ==
  ASSUME NEW u \in UrlInfo, NEW text \in Seq(Bytes)
  PROVE  Parsed(text, u) = Looped(ByteStep, Begin(u), text)
<1> DEFINE start == Begin(u)
           Eq(I) == I = [s \in SUBSET DOMAIN text |->
                           IF s = {} THEN start ELSE Byte(I[s \ {Max(s)}], text[Max(s)])]
           K == CHOOSE I : Eq(I)
<1>1. Parsed(text, u) = K[DOMAIN text]
  BY DEF Parsed, FoldLeft, MapThenFoldSet
<1>a. start \in ParseState
  BY BeginFacts
<1> HIDE DEF start
<1>2. Machine(ParseState, Bytes, ByteStep, start)
  BY <1>a, ByteFacts DEF Machine, ByteStep
<1>3. DOMAIN text = 1..Len(text) /\ Len(text) \in Nat /\ \A k \in 1..Len(text) : text[k] \in Bytes
  BY LenProperties, ElementOfSeq
<1>4. PICK g \in [SUBSET DOMAIN text -> ParseState] : Solves(g, ByteStep, start, text)
  BY <1>2, Solution DEF Machine
<1>5. Eq(g)
  <2>1. ASSUME NEW s \in SUBSET DOMAIN text, s # {}
        PROVE  g[s] = Byte(g[s \ {Max(s)}], text[Max(s)])
    <3>1. g[s \ {Max(s)}] \in ParseState /\ s \ {Max(s)} \in SUBSET DOMAIN text
      OBVIOUS
    <3>2. Max(s) \in DOMAIN text /\ text[Max(s)] \in Bytes
      BY <1>3, <2>1, MaxIn
    <3>3. g[s] = ByteStep[<<g[s \ {Max(s)}], text[Max(s)]>>]
      BY <1>4, <2>1 DEF Solves
    <3> QED BY <3>1, <3>2, <3>3 DEF ByteStep
  <2> QED BY <1>4, <2>1 DEF Solves
<1>6. Eq(K)
  <2> HIDE DEF Eq
  <2> QED BY <1>5, Zenon
<1> HIDE DEF K
<1>7. K[{}] = start
  <2>1. {} \in SUBSET DOMAIN text
    OBVIOUS
  <2> QED BY <1>6, <2>1
<1>8. ASSUME NEW k \in 1..Len(text) PROVE K[1..k] = Byte(K[1..k - 1], text[k])
  <2>1. 1..k \in SUBSET DOMAIN text /\ 1..k # {} /\ Max(1..k) = k /\ (1..k) \ {k} = 1..k - 1
    BY <1>3, UpTo
  <2>2. K[1..k] = Byte(K[(1..k) \ {Max(1..k)}], text[Max(1..k)])
    BY <1>6, <2>1
  <2> QED BY <2>1, <2>2
<1>9. Follows(K, ParseState, ByteStep, start, text, Len(text))
  BY <1>3, <1>7, <1>8 DEF Follows, ByteStep
<1>10. K[1..Len(text)] = Looped(ByteStep, start, text)
  BY <1>2, <1>9, FoldIsLooped
<1> QED BY <1>1, <1>3, <1>10 DEF start

\* The loop of http_parser_parse_url on no byte, on any text, and on one
\* byte more.
LEMMA ParsedFacts ==
  ASSUME NEW u \in UrlInfo
  PROVE  /\ Parsed(<<>>, u) = Begin(u)
         /\ \A text \in Seq(Bytes) : Parsed(text, u) \in ParseState
         /\ \A text \in Seq(Bytes), b \in Bytes :
              Parsed(Append(text, b), u) = Byte(Parsed(text, u), b)
<1>1. Machine(ParseState, Bytes, ByteStep, Begin(u))
  BY BeginFacts, ByteFacts DEF Machine, ByteStep
<1>2. /\ Looped(ByteStep, Begin(u), <<>>) = Begin(u)
      /\ \A text \in Seq(Bytes) : Looped(ByteStep, Begin(u), text) \in ParseState
      /\ \A text \in Seq(Bytes), b \in Bytes :
           Looped(ByteStep, Begin(u), Append(text, b)) = ByteStep[<<Looped(ByteStep, Begin(u), text), b>>]
  BY <1>1, LoopedFacts
<1>3. <<>> \in Seq(Bytes) /\ \A text \in Seq(Bytes), b \in Bytes : Append(text, b) \in Seq(Bytes)
  OBVIOUS
<1>4. \A text \in Seq(Bytes) : Parsed(text, u) = Looped(ByteStep, Begin(u), text)
  BY ParsedLooped
<1>5. \A q \in ParseState, b \in Bytes : ByteStep[<<q, b>>] = Byte(q, b)
  BY DEF ByteStep
<1> QED BY <1>2, <1>3, <1>4, <1>5

\* The loop of strtoul on no digit, on any, and on one more.
LEMMA DigitsFacts ==
  /\ Digits(<<>>) = 0
  /\ \A run \in Seq(Bytes) : Digits(run) \in Nat
  /\ \A run \in Seq(Bytes), b \in Bytes : Digits(Append(run, b)) = 10 * Digits(run) + 9
<1>1. Machine(Nat, Bytes, DigitStep, 0)
  BY DEF Machine, DigitStep
<1>2. /\ Looped(DigitStep, 0, <<>>) = 0
      /\ \A run \in Seq(Bytes) : Looped(DigitStep, 0, run) \in Nat
      /\ \A run \in Seq(Bytes), b \in Bytes :
           Looped(DigitStep, 0, Append(run, b)) = DigitStep[<<Looped(DigitStep, 0, run), b>>]
  BY <1>1, LoopedFacts
<1>3. <<>> \in Seq(Bytes) /\ \A run \in Seq(Bytes), b \in Bytes : Append(run, b) \in Seq(Bytes)
  OBVIOUS
<1>4. \A run \in Seq(Bytes) : Digits(run) = Looped(DigitStep, 0, run)
  BY DigitsLooped
<1>5. \A n \in Nat, b \in Bytes : DigitStep[<<n, b>>] = 10 * n + 9
  BY DEF DigitStep
<1>6. Digits(<<>>) = 0
  BY <1>2, <1>3, <1>4
<1>7. \A run \in Seq(Bytes) : Digits(run) \in Nat
  BY <1>2, <1>4
<1>8. ASSUME NEW run \in Seq(Bytes), NEW b \in Bytes PROVE Digits(Append(run, b)) = 10 * Digits(run) + 9
  <2>1. Digits(Append(run, b)) = DigitStep[<<Digits(run), b>>]
    BY <1>2, <1>3, <1>4
  <2> QED BY <1>5, <1>7, <2>1
<1> QED BY <1>6, <1>7, <1>8

-----------------------------------------------------------------------------
(***************************************************************************)
(* The number at an offset is that of the digits from there to the first   *)
(* byte that is none.                                                      *)
(***************************************************************************)
\* n digits are at an offset, and no more.
IsRun(text, off, n) ==
  /\ n \in Nat
  /\ n > 0 => off + n <= Len(text)
  /\ \A i \in off + 1..off + n : text[i] \in Num
  /\ off + n < Len(text) => text[off + n + 1] \notin Num

\* There is one number of digits only.
LEMMA OneRun ==
  ASSUME NEW text, Len(text) \in Nat, NEW off \in Nat,
         NEW n, IsRun(text, off, n), NEW m, IsRun(text, off, m)
  PROVE  n = m
<1>1. n \in Nat /\ m \in Nat
  BY DEF IsRun
<1>2. ASSUME NEW x \in Nat, IsRun(text, off, x), NEW y \in Nat, IsRun(text, off, y), x < y
      PROVE  FALSE
  <2>1. off + x + 1 \in off + 1..off + y /\ off + x < Len(text)
    BY <1>2 DEF IsRun
  <2> QED BY <1>2, <2>1 DEF IsRun
<1> QED BY <1>1, <1>2

\* The length and the elements of a piece of a text.
LEMMA Subs ==
  ASSUME NEW text \in Seq(Bytes), NEW off \in Nat, NEW n \in Nat, n > 0 => off + n <= Len(text)
  PROVE  /\ SubSeq(text, off + 1, off + n) \in Seq(Bytes)
         /\ Len(SubSeq(text, off + 1, off + n)) = n
         /\ \A i \in 1..n : SubSeq(text, off + 1, off + n)[i] = text[off + i]
<1>1. \A i \in off + 1..off + n : text[i] \in Bytes
  <2>1. \A i \in off + 1..off + n : i \in 1..Len(text)
    OBVIOUS
  <2> QED BY <2>1, ElementOfSeq
<1> DEFINE s == SubSeq(text, off + 1, off + n)
<1>2. /\ s \in Seq(Bytes)
      /\ Len(s) = IF off + 1 <= off + n THEN (off + n) - (off + 1) + 1 ELSE 0
      /\ \A i \in 1..(off + n) - (off + 1) + 1 : s[i] = text[off + 1 + i - 1]
  BY <1>1, SubSeqProperties
<1> HIDE DEF s
<1>3. Len(s) = n
  BY <1>2
<1>4. ASSUME NEW i \in 1..n PROVE s[i] = text[off + i]
  <2>1. i \in 1..(off + n) - (off + 1) + 1 /\ off + 1 + i - 1 = off + i
    OBVIOUS
  <2> QED BY <1>2, <2>1
<1> QED BY <1>2, <1>3, <1>4 DEF s

\* NumberAt is the number of a run of digits.
LEMMA Numbers ==
  ASSUME NEW text \in Seq(Bytes), NEW off \in Nat
  PROVE  \E n : IsRun(text, off, n) /\ NumberAt(text, off) = Digits(SubSeq(text, off + 1, off + n))
<1> DEFINE L == IF off <= Len(text) THEN Len(text) - off ELSE 0
           from == SubSeq(text, off + 1, Len(text))
           I == {i \in 1..Len(from) : from[i] \notin Num}
           d == SelectInSeq(from, LAMBDA b : b \notin Num)
           run == IF d = 0 THEN from ELSE SubSeq(from, 1, d - 1)
<1>1. L \in Nat /\ Len(text) \in Nat /\ (L > 0 => off + L = Len(text))
  OBVIOUS
<1>2. from \in Seq(Bytes) /\ Len(from) = L /\ \A i \in 1..L : from[i] = text[off + i]
  <2>1. CASE off <= Len(text)
    <3>1. off + L = Len(text)
      BY <2>1
    <3> HIDE DEF L
    <3>2. from = SubSeq(text, off + 1, off + L)
      BY <3>1
    <3> HIDE DEF from
    <3> QED BY <1>1, <3>1, <3>2, Subs
  <2>2. CASE ~(off <= Len(text))
    <3>1. from = <<>> /\ L = 0
      BY <2>2, SubSeqEmpty
    <3> QED BY <3>1
  <2> QED BY <2>1, <2>2
<1>3. d = IF I # {} THEN Min(I) ELSE 0
  BY DEF SelectInSeq
<1>4. NumberAt(text, off) = Digits(run)
  BY DEF NumberAt, Digits
<1> HIDE DEF L, from, d
<1>5. I \in SUBSET Nat
  BY <1>1, <1>2
<1>6. CASE I = {}
  <2>1. d = 0 /\ \A i \in 1..L : text[off + i] \in Num
    BY <1>2, <1>3, <1>6
  <2>2. IsRun(text, off, L)
    <3>1. \A i \in off + 1..off + L : i - off \in 1..L /\ off + (i - off) = i
      BY <1>1
    <3>2. ~(off + L < Len(text))
      BY <1>1 DEF L
    <3> QED BY <1>1, <2>1, <3>1, <3>2 DEF IsRun
  <2>3. run = SubSeq(text, off + 1, off + L)
    <3> DEFINE s == SubSeq(text, off + 1, off + L)
    <3>1. s \in Seq(Bytes) /\ Len(s) = L /\ \A i \in 1..L : s[i] = text[off + i]
      BY <1>1, Subs
    <3> HIDE DEF s
    <3>2. from = s
      BY <1>2, <3>1, SeqEqual
    <3> QED BY <2>1, <3>2 DEF s
  <2> QED BY <1>4, <2>2, <2>3
<1>7. CASE I # {}
  <2>1. d \in I /\ \A k \in I : d <= k
    <3> HIDE DEF I
    <3>1. \E m \in I : \A k \in I : m <= k
      BY <1>5, <1>7, LeastOf
    <3>2. Min(I) \in I /\ \A k \in I : Min(I) <= k
      BY <3>1, Zenon DEF Min
    <3> QED BY <1>3, <1>7, <3>2
  <2>2. d \in 1..L /\ from[d] \notin Num /\ \A i \in 1..d - 1 : from[i] \in Num
    <3>1. d \in 1..L /\ from[d] \notin Num
      BY <1>2, <2>1
    <3>2. ASSUME NEW i \in 1..d - 1, from[i] \notin Num PROVE FALSE
      <4>1. i \in 1..Len(from) /\ i < d
        BY <1>1, <1>2, <3>1
      <4>2. i \in I
        BY <3>2, <4>1
      <4> QED BY <1>1, <2>1, <3>1, <4>1, <4>2
    <3> QED BY <3>1, <3>2
  <2> DEFINE n == d - 1
  <2>3. n \in Nat /\ n < L /\ off + n < Len(text) /\ d = n + 1
    BY <1>1, <2>2
  <2>4. IsRun(text, off, n)
    <3>1. text[off + n + 1] \notin Num
      BY <1>1, <1>2, <2>2, <2>3
    <3>2. ASSUME NEW i \in off + 1..off + n PROVE text[i] \in Num
      <4>1. i - off \in 1..d - 1 /\ i - off \in 1..L /\ off + (i - off) = i
        BY <1>1, <2>2, <2>3
      <4> QED BY <1>2, <2>2, <4>1
    <3> QED BY <2>3, <3>1, <3>2 DEF IsRun
  <2>5. run = SubSeq(text, off + 1, off + n)
    <3> DEFINE s == SubSeq(text, off + 1, off + n)
               r == SubSeq(from, 0 + 1, 0 + n)
    <3>1. s \in Seq(Bytes) /\ Len(s) = n /\ \A i \in 1..n : s[i] = text[off + i]
      BY <2>3, Subs
    <3>2. r \in Seq(Bytes) /\ Len(r) = n /\ \A i \in 1..n : r[i] = from[0 + i]
      <4>1. from \in Seq(Bytes) /\ 0 \in Nat /\ 0 + n <= Len(from)
        BY <1>1, <1>2, <2>3
      <4> QED BY <2>3, <4>1, Subs
    <3>3. run = r
      BY <2>2, <2>3
    <3> HIDE DEF s, r, run
    <3>4. \A i \in 1..n : 0 + i = i /\ i \in 1..L
      BY <1>1, <2>3
    <3>5. r = s
      BY <1>2, <3>1, <3>2, <3>4, SeqEqual
    <3> QED BY <3>3, <3>5 DEF s
  <2> QED BY <1>4, <2>4, <2>5
<1> QED BY <1>6, <1>7

\* It is that of any, as there is only one.
LEMMA NumberIs ==
  ASSUME NEW text \in Seq(Bytes), NEW off \in Nat, NEW n, IsRun(text, off, n)
  PROVE  NumberAt(text, off) = Digits(SubSeq(text, off + 1, off + n))
<1>1. PICK m : IsRun(text, off, m) /\ NumberAt(text, off) = Digits(SubSeq(text, off + 1, off + m))
  BY Numbers
<1>2. m = n
  BY <1>1, OneRun, LenProperties
<1> QED BY <1>1, <1>2

\* A number is one also when there is no digit.
LEMMA NumberIn ==
  ASSUME NEW text \in Seq(Bytes), NEW off \in Nat
  PROVE  NumberAt(text, off) \in Nat
<1>1. PICK n : IsRun(text, off, n) /\ NumberAt(text, off) = Digits(SubSeq(text, off + 1, off + n))
  BY Numbers
<1>2. SubSeq(text, off + 1, off + n) \in Seq(Bytes)
  BY <1>1, Subs DEF IsRun
<1> QED BY <1>1, <1>2, DigitsFacts

\* A text with a byte more.
LEMMA Appended ==
  ASSUME NEW text \in Seq(Bytes), NEW b \in Bytes
  PROVE  /\ Append(text, b) \in Seq(Bytes)
         /\ Len(text) \in Nat /\ Len(Append(text, b)) = Len(text) + 1
         /\ Append(text, b)[Len(text) + 1] = b
         /\ \A i \in 1..Len(text) : Append(text, b)[i] = text[i]
OBVIOUS

\* A byte more does not make the number less.
LEMMA NumberGrows ==
  ASSUME NEW text \in Seq(Bytes), NEW b \in Bytes, NEW off \in Nat
  PROVE  NumberAt(text, off) <= NumberAt(Append(text, b), off)
<1> DEFINE more == Append(text, b)
           L == Len(text)
<1>1. PICK n : IsRun(text, off, n) /\ NumberAt(text, off) = Digits(SubSeq(text, off + 1, off + n))
  BY Numbers
<1>2. /\ more \in Seq(Bytes) /\ L \in Nat /\ Len(more) = L + 1 /\ more[L + 1] = b
      /\ \A i \in 1..L : more[i] = text[i]
  BY Appended
<1>3. n \in Nat /\ (n > 0 => off + n <= L)
  BY <1>1 DEF IsRun
<1> DEFINE s == SubSeq(text, off + 1, off + n)
<1>4. s \in Seq(Bytes) /\ Len(s) = n /\ \A i \in 1..n : s[i] = text[off + i]
  BY <1>3, Subs
<1> HIDE DEF more
<1>5. \A i \in off + 1..off + n : more[i] = text[i] /\ text[i] \in Num
  <2>1. \A i \in off + 1..off + n : i \in 1..L
    BY <1>2, <1>3
  <2> QED BY <1>1, <1>2, <2>1 DEF IsRun
<1>6. CASE off + n = L /\ b \in Num
  <2>1. IsRun(more, off, n + 1)
    <3>1. \A i \in off + 1..off + (n + 1) : i \in off + 1..off + n \/ i = L + 1
      BY <1>2, <1>3, <1>6
    <3> QED BY <1>2, <1>3, <1>5, <1>6, <3>1 DEF IsRun
  <2> DEFINE r == SubSeq(more, off + 1, off + (n + 1))
             sb == Append(s, b)
  <2>2. r \in Seq(Bytes) /\ Len(r) = n + 1 /\ \A i \in 1..n + 1 : r[i] = more[off + i]
    <3>1. n + 1 \in Nat /\ off + (n + 1) <= Len(more)
      BY <1>2, <1>3, <1>6
    <3> QED BY <1>2, <3>1, Subs
  <2> HIDE DEF s, r
  <2>3. sb \in Seq(Bytes) /\ Len(sb) = n + 1 /\ sb[n + 1] = b /\ \A i \in 1..n : sb[i] = s[i]
    BY <1>4, Appended
  <2> HIDE DEF sb
  <2>4. ASSUME NEW i \in 1..n + 1 PROVE r[i] = sb[i]
    <3>1. CASE i \in 1..n
      <4>1. off + i \in off + 1..off + n
        BY <1>3, <3>1
      <4> QED BY <1>4, <1>5, <2>2, <2>3, <3>1, <4>1
    <3>2. CASE i = n + 1
      <4>1. off + i = L + 1 /\ i \in 1..n + 1
        BY <1>2, <1>3, <1>6, <3>2
      <4>2. r[i] = more[L + 1]
        BY <2>2, <4>1
      <4> QED BY <1>2, <2>3, <3>2, <4>2
    <3> QED BY <1>3, <3>1, <3>2
  <2>5. r = sb
    BY <2>2, <2>3, <2>4, SeqEqual
  <2>6. NumberAt(more, off) = Digits(r)
    BY <1>2, <2>1, NumberIs DEF r
  <2>7. Digits(sb) = 10 * Digits(s) + 9 /\ Digits(s) \in Nat
    BY <1>4, DigitsFacts DEF sb
  <2> QED BY <1>1, <2>5, <2>6, <2>7 DEF s, more
<1>7. CASE ~(off + n = L /\ b \in Num)
  <2>1. IsRun(more, off, n)
    <3>1. n > 0 => off + n <= L + 1
      BY <1>2, <1>3
    <3>2. ASSUME off + n < L + 1 PROVE more[off + n + 1] \notin Num
      <4>1. CASE off + n = L
        BY <1>2, <1>7, <4>1
      <4>2. CASE off + n < L
        <5>1. off + n + 1 \in 1..L
          BY <1>2, <1>3, <4>2
        <5> QED BY <1>1, <1>2, <4>2, <5>1 DEF IsRun
      <4> QED BY <1>2, <1>3, <3>2, <4>1, <4>2
    <3> QED BY <1>2, <1>3, <1>5, <3>1, <3>2 DEF IsRun
  <2> DEFINE r == SubSeq(more, off + 1, off + n)
  <2>2. r \in Seq(Bytes) /\ Len(r) = n /\ \A i \in 1..n : r[i] = more[off + i]
    <3>1. n > 0 => off + n <= Len(more)
      BY <1>2, <1>3
    <3> QED BY <1>2, <1>3, <3>1, Subs
  <2>3. \A i \in 1..n : off + i \in off + 1..off + n
    BY <1>3
  <2> HIDE DEF s, r
  <2>4. r = s
    BY <1>4, <1>5, <2>2, <2>3, SeqEqual
  <2>5. NumberAt(more, off) = Digits(r)
    BY <1>2, <2>1, NumberIs DEF r
  <2>6. Digits(s) \in Nat
    BY <1>4, DigitsFacts
  <2> QED BY <1>1, <2>4, <2>5, <2>6 DEF s, more
<1> QED BY <1>6, <1>7

-----------------------------------------------------------------------------
(***************************************************************************)
(* What the loop knows of the text, while it has an error in none of it.   *)
(***************************************************************************)
\* The order of the fields.
Rank(f) == CASE f = "SCHEMA" -> 1
             [] f = "HOST"   -> 2
             [] f = "PORT"   -> 3
             [] f = "PATH"   -> 4
             [] f = "QUERY"  -> 5
             [] OTHER        -> 6

\* The fields come in their order, the last one is the current one.
Placed(q, text) ==
  /\ q.p = Len(text)
  /\ q.info.port = 0
  /\ Len(text) = 0 => q.s = "s_req_spaces_before_url" /\ q.field = "none" /\ q.info.set = {}
  /\ Len(text) > 0 =>
       /\ q.s \in DOMAIN UrlMoves
       /\ q.field = Field(q.s) /\ q.field \in q.info.set
       /\ \A g \in q.info.set : Rank(g) <= Rank(q.field)

\* A step does not go back to an earlier field.
LEMMA FieldRanks ==
  ASSUME NEW s, NEW b, NEW t, From(s, b, t)
  PROVE  /\ t \in DOMAIN UrlMoves
         /\ s # "s_req_spaces_before_url" =>
              Field(t) = Field(s) \/ Rank(Field(s)) < Rank(Field(t))
<1>1. t \in DOMAIN UrlMoves
  BY AllStates DEF From, SchemaStates, Query, Fragment
<1> DEFINE F(x) == IF x \in SchemaStates THEN 1 ELSE IF x = "s_req_host" THEN 2
                   ELSE IF x = "s_req_port" THEN 3 ELSE IF x = "s_req_path" THEN 4
                   ELSE IF x \in Query THEN 5 ELSE 6
<1>2. \A x : Rank(Field(x)) = F(x) /\ (F(x) = 6 => Field(x) = "FRAGMENT")
  BY DEF Field, Rank, SchemaStates, Query, Fragment
<1>3. s # "s_req_spaces_before_url" => Field(t) = Field(s) \/ F(s) < F(t)
  BY DEF From, Field, SchemaStates, Query, Fragment
<1> HIDE DEF F
<1> QED BY <1>1, <1>2, <1>3

\* A byte more that is no error.
Next1(q, r, text, b, f) ==
  /\ q \in ParseState /\ r \in ParseState /\ f \in Fields
  /\ From(q.s, b, r.s)
  /\ f = Field(r.s)
  /\ Goes(q, r, b, f)
  /\ f # q.field => f \notin q.info.set /\ \A g \in q.info.set : Rank(g) < Rank(f)

\* A byte that is no error keeps the fields in order.
LEMMA Stepped ==
  ASSUME NEW q \in ParseState, NEW text \in Seq(Bytes), NEW b \in Bytes,
         Placed(q, text), ~Dead(Byte(q, b))
  PROVE  /\ ~Dead(q)
         /\ Next1(q, Byte(q, b), text, b, Field(Byte(q, b).s))
         /\ Placed(Byte(q, b), Append(text, b))
<1> DEFINE r == Byte(q, b)
           f == Field(r.s)
           more == Append(text, b)
<1>1. ~Dead(q) /\ r \in ParseState /\ r.s = Char(q.s, b) /\ Goes(q, r, b, f)
  BY ByteFacts
<1>2. q.s \in States \ {"s_dead"}
  BY <1>1 DEF ParseState, Dead
<1>3. From(q.s, b, r.s)
  <2>1. Char(q.s, b) # "s_dead"
    BY <1>1 DEF Dead
  <2> QED BY <1>1, <1>2, <2>1, CharIn
<1>4. f \in Fields
  BY FieldIn
<1>5. Len(text) \in Nat /\ Len(more) = Len(text) + 1
  BY Appended
<1>6. r.s \in DOMAIN UrlMoves
  BY <1>3, FieldRanks
<1> HIDE DEF r, more
<1>7. f # q.field => f \notin q.info.set /\ \A g \in q.info.set : Rank(g) < Rank(f)
  <2>1. CASE Len(text) = 0
    BY <2>1 DEF Placed
  <2>2. CASE Len(text) > 0
    <3>1. q.s # "s_req_spaces_before_url"
      BY <2>2, AllStates DEF Placed, SchemaStates, Query, Fragment
    <3>2. q.field = Field(q.s) /\ \A g \in q.info.set : Rank(g) <= Rank(q.field)
      BY <2>2 DEF Placed
    <3>3. f # q.field => Rank(q.field) < Rank(f)
      BY <1>3, <3>1, <3>2, FieldRanks
    <3>4. \A g : Rank(g) \in Nat
      BY DEF Rank
    <3> HIDE DEF f
    <3> QED BY <3>2, <3>3, <3>4
  <2> QED BY <1>5, <2>1, <2>2
<1>8. Next1(q, r, text, b, f)
  BY <1>1, <1>3, <1>4, <1>7 DEF Next1
<1>9. Placed(r, more)
  <2>1. r.p = Len(more) /\ r.info.port = 0 /\ r.field = f /\ r.info.set = q.info.set \union {f}
    BY <1>1, <1>5 DEF Goes, Placed
  <2>2. \A g \in q.info.set \union {f} : Rank(g) <= Rank(f)
    <3>1. \A g : Rank(g) \in Nat
      BY DEF Rank
    <3>2. ASSUME f = q.field, NEW g \in q.info.set PROVE Rank(g) <= Rank(f)
      <4>1. Len(text) > 0
        BY <1>4, <1>5, <3>2 DEF Placed, Fields
      <4> QED BY <3>2, <4>1 DEF Placed
    <3> HIDE DEF f
    <3> QED BY <1>7, <3>1, <3>2
  <2> QED BY <1>5, <1>6, <2>1, <2>2 DEF Placed
<1> QED BY <1>1, <1>8, <1>9 DEF r, more

\* The entries of the fields.
LEMMA Entries ==
  ASSUME NEW q, NEW r, NEW text, NEW b, NEW f, Next1(q, r, text, b, f)
  PROVE  /\ r.info.set = q.info.set \union {f}
         /\ \A g \in Fields : g # f => r.info.data[g] = q.info.data[g]
         /\ f = q.field => /\ r.info.data[f].off = q.info.data[f].off
                           /\ r.info.data[f].len = Offset(q.info.data[f].len + 1)
         /\ f # q.field => /\ r.info.data[f].off = Offset(q.p + Delimiter(f))
                           /\ r.info.data[f].len = 1 - Delimiter(f)
         /\ \A g \in Fields : /\ q.info.data[g].off \in Nat /\ q.info.data[g].len \in Nat
                              /\ r.info.data[g].off \in Nat /\ r.info.data[g].len \in Nat
         /\ Delimiter(f) \in {0, 1}
<1>1. q \in ParseState /\ r \in ParseState /\ f \in Fields /\ Goes(q, r, b, f)
  BY DEF Next1
<1>2. Delimiter(f) \in {0, 1}
  BY DEF Delimiter
<1>3. /\ Here(q, f).off = IF f = q.field THEN q.info.data[f].off ELSE Offset(q.p + Delimiter(f))
      /\ Here(q, f).len = IF f = q.field THEN Offset(q.info.data[f].len + 1) ELSE 1 - Delimiter(f)
  BY <1>1, <1>2, HereIn
<1>4. q.info.data \in [Fields -> [off : Offsets, len : Offsets]]
  BY <1>1 DEF ParseState, UrlInfo
<1>5. r.info.data \in [Fields -> [off : Offsets, len : Offsets]]
  BY <1>1 DEF ParseState, UrlInfo
<1>6. r.info.set = q.info.set \union {f} /\ r.info.data = [q.info.data EXCEPT ![f] = Here(q, f)]
  BY <1>1 DEF Goes
<1>7. r.info.data[f] = Here(q, f) /\ \A g \in Fields : g # f => r.info.data[g] = q.info.data[g]
  BY <1>1, <1>4, <1>6
<1>8. \A g \in Fields : /\ q.info.data[g].off \in Nat /\ q.info.data[g].len \in Nat
                        /\ r.info.data[g].off \in Nat /\ r.info.data[g].len \in Nat
  BY <1>4, <1>5 DEF Offsets
<1> QED BY <1>2, <1>3, <1>6, <1>7, <1>8

-----------------------------------------------------------------------------
(***************************************************************************)
(* Induction on the text.                                                  *)
(***************************************************************************)
\* Unless there is an error.
AlivePlaced(q, text) == ~Dead(q) => Placed(q, text)

\* So they are after any text.
LEMMA TextPlaced ==
  ASSUME NEW u \in UrlInfo, NEW text \in Seq(Bytes)
  PROVE  AlivePlaced(Parsed(text, u), text)
<1> DEFINE P == {t \in Seq(Bytes) : AlivePlaced(Parsed(t, u), t)}
<1>1. P \in SUBSET Seq(Bytes) /\ \A t \in Seq(Bytes) : t \in P <=> AlivePlaced(Parsed(t, u), t)
  OBVIOUS
<1> HIDE DEF P
<1>2. <<>> \in P
  <2>1. <<>> \in Seq(Bytes) /\ Len(<<>>) = 0
    OBVIOUS
  <2>2. Placed(Begin(u), <<>>)
    <3> DEFINE q == Begin(u)
               e == <<>>
    <3>1. q.s = "s_req_spaces_before_url" /\ q.p = 0 /\ q.field = "none"
          /\ q.info.set = {} /\ q.info.port = 0 /\ Len(e) = 0
      BY <2>1, BeginFacts DEF Begin
    <3> HIDE DEF q, e
    <3>2. Placed(q, e)
      BY <3>1 DEF Placed
    <3> QED BY <3>2 DEF q, e
  <2>3. AlivePlaced(Parsed(<<>>, u), <<>>)
    BY <2>2, ParsedFacts DEF AlivePlaced
  <2> QED BY <1>1, <2>1, <2>3
<1>3. ASSUME NEW t \in P, NEW b \in Bytes PROVE Append(t, b) \in P
  <2>1. t \in Seq(Bytes) /\ Append(t, b) \in Seq(Bytes) /\ AlivePlaced(Parsed(t, u), t)
    BY <1>1
  <2> DEFINE q == Parsed(t, u)
  <2>2. q \in ParseState /\ Parsed(Append(t, b), u) = Byte(q, b)
    BY <2>1, ParsedFacts
  <2>3. AlivePlaced(q, t)
    BY <2>1
  <2> HIDE DEF q
  <2>4. AlivePlaced(Byte(q, b), Append(t, b))
    <3>1. SUFFICES ASSUME ~Dead(Byte(q, b)) PROVE Placed(Byte(q, b), Append(t, b))
      BY DEF AlivePlaced
    <3>2. ~Dead(q)
      BY <2>2, <3>1, ByteFacts
    <3>3. Placed(q, t)
      BY <2>3, <3>2 DEF AlivePlaced
    <3> QED BY <2>1, <2>2, <3>1, <3>3, Stepped
  <2> QED BY <1>1, <2>1, <2>2, <2>4
<1>4. P = Seq(Bytes)
  BY <1>1, <1>2, <1>3, TextInduction
<1> QED BY <1>1, <1>4

\* What the structure held before makes no difference to what is set.
Same(q, r) ==
  /\ r.s = q.s
  /\ ~Dead(q) => /\ r.p = q.p /\ r.field = q.field /\ r.info.set = q.info.set
                 /\ \A g \in q.info.set : r.info.data[g] = q.info.data[g]

\* Two readings that agree, agree after a byte more.
LEMMA SameStep ==
  ASSUME NEW q \in ParseState, NEW r \in ParseState, NEW b \in Bytes, NEW text \in Seq(Bytes),
         Same(q, r), AlivePlaced(q, text)
  PROVE  Same(Byte(q, b), Byte(r, b))
<1> DEFINE qb == Byte(q, b)
           rb == Byte(r, b)
           f == Field(Char(q.s, b))
<1>1. CASE Dead(q)
  <2>1. Dead(r)
    BY <1>1 DEF Same, Dead
  <2>2. qb = q /\ rb = r
    BY <1>1, <2>1, ByteFacts
  <2> HIDE DEF qb, rb
  <2>3. Same(qb, rb)
    BY <2>2
  <2> QED BY <2>3 DEF qb, rb
<1>2. CASE ~Dead(q)
  <2>1. ~Dead(r) /\ r.s = q.s
    BY <1>2 DEF Same, Dead
  <2>2. qb.s = Char(q.s, b) /\ rb.s = Char(q.s, b)
    BY <1>2, <2>1, ByteFacts
  <2>3. ASSUME ~Dead(qb)
        PROVE  /\ rb.p = qb.p /\ rb.field = qb.field /\ rb.info.set = qb.info.set
               /\ \A g \in qb.info.set : rb.info.data[g] = qb.info.data[g]
    <3>1. ~Dead(rb)
      BY <2>2, <2>3 DEF Dead
    <3>2. Goes(q, qb, b, f) /\ Goes(r, rb, b, f)
      <4>1. Goes(q, qb, b, f)
        BY <2>3, ByteFacts
      <4>2. Goes(r, rb, b, Field(Char(r.s, b)))
        BY <3>1, ByteFacts
      <4> QED BY <2>1, <4>1, <4>2
    <3> HIDE DEF qb, rb
    <3>3. f \in Fields
      BY FieldIn
    <3> HIDE DEF f
    <3>4. Placed(q, text)
      BY <1>2 DEF AlivePlaced
    <3>5. f = q.field => f \in q.info.set
      <4>1. Len(text) \in Nat
        BY LenProperties
      <4> QED BY <3>3, <3>4, <4>1 DEF Placed, Fields
    <3>6. /\ r.p = q.p /\ r.field = q.field /\ r.info.set = q.info.set
          /\ \A g \in q.info.set : r.info.data[g] = q.info.data[g]
      BY <1>2 DEF Same
    <3>7. Here(r, f) = Here(q, f)
      BY <3>5, <3>6 DEF Here
    <3>8. q.info.data \in [Fields -> [off : Offsets, len : Offsets]] /\ q.info.set \in SUBSET Fields
      BY DEF ParseState, UrlInfo
    <3>9. r.info.data \in [Fields -> [off : Offsets, len : Offsets]]
      BY DEF ParseState, UrlInfo
    <3>10. qb.info.set = q.info.set \union {f} /\ qb.info.data = [q.info.data EXCEPT ![f] = Here(q, f)]
      BY <3>2 DEF Goes
    <3>11. rb.info.set = r.info.set \union {f} /\ rb.info.data = [r.info.data EXCEPT ![f] = Here(r, f)]
      BY <3>2 DEF Goes
    <3>12. ASSUME NEW g \in qb.info.set PROVE rb.info.data[g] = qb.info.data[g]
      <4>1. g \in Fields /\ (g = f \/ g \in q.info.set)
        BY <3>3, <3>8, <3>10, <3>12
      <4> QED BY <3>6, <3>7, <3>8, <3>9, <3>10, <3>11, <4>1
    <3>13. rb.p = qb.p /\ rb.field = qb.field
      BY <3>2, <3>6 DEF Goes
    <3> QED BY <3>6, <3>10, <3>11, <3>12, <3>13
  <2> QED BY <2>2, <2>3 DEF Same
<1> QED BY <1>1, <1>2

\* Two readings of a text agree.
LEMMA TextSame ==
  ASSUME NEW u \in UrlInfo, NEW w \in UrlInfo, NEW text \in Seq(Bytes)
  PROVE  Same(Parsed(text, u), Parsed(text, w))
<1> DEFINE P == {t \in Seq(Bytes) : Same(Parsed(t, u), Parsed(t, w))}
<1>1. P \in SUBSET Seq(Bytes) /\ \A t \in Seq(Bytes) : t \in P <=> Same(Parsed(t, u), Parsed(t, w))
  OBVIOUS
<1> HIDE DEF P
<1>2. <<>> \in P
  <2>1. <<>> \in Seq(Bytes)
    OBVIOUS
  <2>2. Same(Begin(u), Begin(w))
    BY BeginFacts DEF Same, Begin
  <2>3. Parsed(<<>>, u) = Begin(u) /\ Parsed(<<>>, w) = Begin(w)
    BY ParsedFacts
  <2> QED BY <1>1, <2>1, <2>2, <2>3
<1>3. ASSUME NEW t \in P, NEW b \in Bytes PROVE Append(t, b) \in P
  <2>1. t \in Seq(Bytes) /\ Append(t, b) \in Seq(Bytes) /\ Same(Parsed(t, u), Parsed(t, w))
    BY <1>1
  <2> DEFINE q == Parsed(t, u)
             r == Parsed(t, w)
  <2>2. q \in ParseState /\ Parsed(Append(t, b), u) = Byte(q, b)
    BY <2>1, ParsedFacts
  <2>3. r \in ParseState /\ Parsed(Append(t, b), w) = Byte(r, b)
    BY <2>1, ParsedFacts
  <2>4. Same(q, r)
    BY <2>1
  <2>5. AlivePlaced(q, t)
    BY <2>1, TextPlaced
  <2> HIDE DEF q, r
  <2>6. Same(Byte(q, b), Byte(r, b))
    BY <2>1, <2>2, <2>3, <2>4, <2>5, SameStep
  <2> QED BY <1>1, <2>1, <2>2, <2>3, <2>6
<1>4. P = Seq(Bytes)
  BY <1>1, <1>2, <1>3, TextInduction
<1> QED BY <1>1, <1>4

-----------------------------------------------------------------------------
(***************************************************************************)
(* What on_url makes of the loop's outcome.                                *)
(***************************************************************************)
\* The number at the port's offset.
PortNumber(q, text) == NumberAt(text, q.info.data["PORT"].off)

\* An error, or a port that is too large.
Refuses(q, text) == Dead(q) \/ ("PORT" \in q.info.set /\ PortNumber(q, text) > MaxPort)

\* The structure is filled from the loop's.
Filled(info0, q, text) ==
  /\ info0 \in UrlInfo
  /\ info0.set = q.info.set /\ info0.data = q.info.data
  /\ (~Refuses(q, text) /\ "PORT" \in q.info.set) => info0.port = PortNumber(q, text)
  /\ "PORT" \notin q.info.set => info0.port = q.info.port

\* The port's number is one.
LEMMA PortTyped ==
  ASSUME NEW q \in ParseState, NEW text \in Seq(Bytes)
  PROVE  q.info.data["PORT"].off \in Nat /\ PortNumber(q, text) \in Nat
<1>1. q.info.data["PORT"] \in [off : Offsets, len : Offsets]
  BY DEF ParseState, UrlInfo, Fields
<1>2. q.info.data["PORT"].off \in Nat
  BY <1>1 DEF Offsets
<1> QED BY <1>2, NumberIn DEF PortNumber

\* ParseUrl by the outcome of its loop.
LEMMA ParseUrlIs ==
  ASSUME NEW text \in Seq(Bytes), NEW u \in UrlInfo
  PROVE  /\ ParseUrl(text, FALSE, u).refused <=> Refuses(Parsed(text, u), text)
         /\ Filled(ParseUrl(text, FALSE, u).info, Parsed(text, u), text)
<1> DEFINE q == Parsed(text, u)
           v == PortNumber(q, text)
           numbered == ~Dead(q) /\ "PORT" \in q.info.set
           refused == Dead(q) \/ (numbered /\ PortTooLarge(v))
           new == IF numbered /\ ~refused THEN [q.info EXCEPT !.port = v] ELSE q.info
           r == ParseUrl(text, FALSE, u)
<1>1. r = [refused |-> refused, info |-> new]
  BY DEF ParseUrl, Parsed, Byte, Begin, PortNumber
<1>2. r.refused = refused /\ r.info = new
  <2> HIDE DEF r, refused, new
  <2> QED BY <1>1
<1>3. refused <=> Refuses(q, text)
  BY DEF Refuses, PortTooLarge
<1>4. q \in ParseState /\ v \in Nat
  BY ParsedFacts, PortTyped
<1>5. PICK x \in SUBSET Fields, y \in 0..MaxPort, z \in [Fields -> [off : Offsets, len : Offsets]] :
        q.info = [set |-> x, port |-> y, data |-> z]
  BY <1>4 DEF ParseState, UrlInfo
<1> HIDE DEF q, r
<1>6. Filled(new, q, text)
  <2>1. CASE numbered /\ ~refused
    <3>1. new = [set |-> x, port |-> v, data |-> z]
      <4>1. new = [q.info EXCEPT !.port = v]
        BY <2>1
      <4> HIDE DEF new, v
      <4> QED BY <1>5, <4>1
    <3>2. v \in 0..MaxPort
      BY <1>4, <2>1, UrlAssumption DEF PortTooLarge
    <3>3. v = PortNumber(q, text)
      OBVIOUS
    <3>4. "PORT" \in q.info.set
      BY <2>1
    <3> HIDE DEF new, v
    <3> QED BY <1>5, <3>1, <3>2, <3>3, <3>4 DEF Filled, UrlInfo
  <2>2. CASE ~(numbered /\ ~refused)
    <3>1. new = q.info
      BY <2>2
    <3>2. ~(~Refuses(q, text) /\ "PORT" \in q.info.set)
      BY <2>2 DEF Refuses, PortTooLarge
    <3> HIDE DEF new
    <3> QED BY <1>4, <3>1, <3>2 DEF Filled, ParseState
  <2> QED BY <2>1, <2>2
<1>7. r.refused <=> Refuses(q, text)
  <2> HIDE DEF refused
  <2> QED BY <1>2, <1>3
<1> QED BY <1>2, <1>6, <1>7 DEF q, r

\* Readings that agree are refused together.
LEMMA SameRefuses ==
  ASSUME NEW q, NEW r, Same(q, r), NEW text, Refuses(q, text)
  PROVE  Refuses(r, text)
<1>1. CASE Dead(q)
  BY <1>1 DEF Same, Dead, Refuses
<1>2. CASE ~Dead(q)
  <2>1. /\ "PORT" \in q.info.set /\ PortNumber(q, text) > MaxPort
    BY <1>2 DEF Refuses
  <2>2. r.info.set = q.info.set /\ r.info.data["PORT"] = q.info.data["PORT"]
    BY <1>2, <2>1 DEF Same
  <2> QED BY <2>1, <2>2 DEF Refuses, PortNumber
<1> QED BY <1>1, <1>2

-----------------------------------------------------------------------------
(***************************************************************************)
(* What is taken of the whole is taken of each piece.                      *)
(***************************************************************************)

\* Of a text with n bytes at the front of it: no error in these either, and
\* no port in another place.
Keeps(p, q, front, text) ==
  ~Dead(q) =>
    /\ ~Dead(p)
    /\ "PORT" \in p.info.set => /\ "PORT" \in q.info.set
                                /\ p.info.data["PORT"].off = q.info.data["PORT"].off
                                /\ PortNumber(p, front) <= PortNumber(q, text)

\* A text keeps what it has.
LEMMA KeepsItself ==
  ASSUME NEW q \in ParseState, NEW text \in Seq(Bytes)
  PROVE  Keeps(q, q, text, text)
BY PortTyped DEF Keeps

\* It does so with a byte more.
LEMMA KeepsOn ==
  ASSUME NEW p \in ParseState, NEW q \in ParseState, NEW front \in Seq(Bytes), NEW text \in Seq(Bytes),
         NEW b \in Bytes, Keeps(p, q, front, text), AlivePlaced(q, text)
  PROVE  Keeps(p, Byte(q, b), front, Append(text, b))
<1> DEFINE r == Byte(q, b)
           more == Append(text, b)
           f == Field(r.s)
<1>1. r \in ParseState /\ more \in Seq(Bytes)
  BY ByteFacts, Appended
<1>2. SUFFICES ASSUME ~Dead(r) PROVE Keeps(p, r, front, more)
  BY DEF Keeps
<1>3. ~Dead(q)
  BY <1>2, ByteFacts
<1>4. Next1(q, r, text, b, f)
  BY <1>2, <1>3, Stepped DEF AlivePlaced
<1>5. ~Dead(p)
  BY <1>3 DEF Keeps
<1> HIDE DEF r, f, more
<1>6. ASSUME "PORT" \in p.info.set
      PROVE  /\ "PORT" \in r.info.set
             /\ p.info.data["PORT"].off = r.info.data["PORT"].off
             /\ PortNumber(p, front) <= PortNumber(r, more)
  <2>1. /\ "PORT" \in q.info.set
        /\ p.info.data["PORT"].off = q.info.data["PORT"].off
        /\ PortNumber(p, front) <= PortNumber(q, text)
    BY <1>3, <1>6 DEF Keeps
  <2>2. "PORT" \in Fields
    BY DEF Fields
  <2>3. "PORT" \in r.info.set /\ r.info.data["PORT"].off = q.info.data["PORT"].off
    <3>1. f # q.field => f # "PORT"
      BY <1>4, <2>1 DEF Next1
    <3>2. /\ r.info.set = q.info.set \union {f}
          /\ \A g \in Fields : g # f => r.info.data[g] = q.info.data[g]
          /\ f = q.field => r.info.data[f].off = q.info.data[f].off
      BY <1>4, Entries
    <3> QED BY <2>1, <2>2, <3>1, <3>2
  <2>4. PortNumber(q, text) <= PortNumber(r, more)
    BY <2>3, PortTyped, NumberGrows DEF PortNumber, more
  <2>5. PortNumber(p, front) \in Nat /\ PortNumber(q, text) \in Nat /\ PortNumber(r, more) \in Nat
    BY <1>1, PortTyped
  <2> QED BY <2>1, <2>3, <2>4, <2>5
<1> QED BY <1>2, <1>5, <1>6 DEF Keeps

\* Every front of the text, by its number of bytes.
KeepsAll(text, u) ==
  \A n \in 0..Len(text) :
    Keeps(Parsed(SubSeq(text, 1, n), u), Parsed(text, u), SubSeq(text, 1, n), text)

\* The fronts of a text are those of a longer one.
LEMMA Fronts ==
  ASSUME NEW text \in Seq(Bytes), NEW n \in 0..Len(text)
  PROVE  /\ SubSeq(text, 1, n) \in Seq(Bytes)
         /\ SubSeq(text, 1, Len(text)) = text
         /\ \A b \in Bytes : SubSeq(Append(text, b), 1, n) = SubSeq(text, 1, n)
<1>1. Len(text) \in Nat
  BY LenProperties
<1> DEFINE s == SubSeq(text, 1, n)
<1>2. s \in Seq(Bytes) /\ Len(s) = n /\ \A i \in 1..n : s[i] = text[i]
  <2>1. n \in Nat /\ 0 \in Nat /\ (n > 0 => 0 + n <= Len(text))
    BY <1>1
  <2>2. SubSeq(text, 0 + 1, 0 + n) = s /\ \A i \in 1..n : 0 + i = i
    BY <2>1
  <2> HIDE DEF s
  <2>3. /\ SubSeq(text, 0 + 1, 0 + n) \in Seq(Bytes)
        /\ Len(SubSeq(text, 0 + 1, 0 + n)) = n
        /\ \A i \in 1..n : SubSeq(text, 0 + 1, 0 + n)[i] = text[0 + i]
    BY <2>1, Subs
  <2> QED BY <2>2, <2>3
<1>3. SubSeq(text, 1, Len(text)) = text
  BY SubSeqFull
<1>4. ASSUME NEW b \in Bytes PROVE SubSeq(Append(text, b), 1, n) = SubSeq(text, 1, n)
  <2> DEFINE more == Append(text, b)
             m == SubSeq(more, 1, n)
  <2>1. more \in Seq(Bytes) /\ Len(more) = Len(text) + 1 /\ \A i \in 1..Len(text) : more[i] = text[i]
    BY Appended
  <2> HIDE DEF more
  <2>2. m \in Seq(Bytes) /\ Len(m) = n /\ \A i \in 1..n : m[i] = more[i]
    <3>1. n \in Nat /\ 0 \in Nat /\ (n > 0 => 0 + n <= Len(more))
      BY <1>1, <2>1
    <3>2. SubSeq(more, 0 + 1, 0 + n) = m /\ \A i \in 1..n : 0 + i = i
      BY <3>1
    <3> HIDE DEF m
    <3>3. /\ SubSeq(more, 0 + 1, 0 + n) \in Seq(Bytes)
          /\ Len(SubSeq(more, 0 + 1, 0 + n)) = n
          /\ \A i \in 1..n : SubSeq(more, 0 + 1, 0 + n)[i] = more[0 + i]
      BY <2>1, <3>1, Subs
    <3> QED BY <3>2, <3>3
  <2>3. \A i \in 1..n : i \in 1..Len(text)
    BY <1>1
  <2> HIDE DEF s, m
  <2>4. m = s
    BY <1>2, <2>1, <2>2, <2>3, SeqEqual
  <2> QED BY <2>4 DEF m, s, more
<1> QED BY <1>2, <1>3, <1>4

\* Of any text that is taken all fronts are.
LEMMA TextKeeps ==
  ASSUME NEW u \in UrlInfo, NEW text \in Seq(Bytes)
  PROVE  KeepsAll(text, u)
<1> DEFINE P == {t \in Seq(Bytes) : KeepsAll(t, u)}
<1>1. P \in SUBSET Seq(Bytes) /\ \A t \in Seq(Bytes) : t \in P <=> KeepsAll(t, u)
  OBVIOUS
<1> HIDE DEF P
<1>2. <<>> \in P
  <2> DEFINE e == <<>>
  <2>1. e \in Seq(Bytes) /\ Len(e) = 0
    OBVIOUS
  <2> HIDE DEF e
  <2>2. SubSeq(e, 1, 0) = e
    BY <2>1, SubSeqFull
  <2>3. Keeps(Parsed(e, u), Parsed(e, u), e, e)
    BY <2>1, ParsedFacts, KeepsItself
  <2>4. KeepsAll(e, u)
    <3>1. \A n \in 0..Len(e) : n = 0
      BY <2>1
    <3> QED BY <2>2, <2>3, <3>1 DEF KeepsAll
  <2> QED BY <1>1, <2>1, <2>4 DEF e
<1>3. ASSUME NEW t \in P, NEW b \in Bytes PROVE Append(t, b) \in P
  <2> DEFINE more == Append(t, b)
  <2>1. t \in Seq(Bytes) /\ KeepsAll(t, u)
    BY <1>1
  <2>2. more \in Seq(Bytes) /\ Len(more) = Len(t) + 1 /\ Len(t) \in Nat
    BY <2>1, Appended
  <2>3. ASSUME NEW n \in 0..Len(more)
        PROVE  Keeps(Parsed(SubSeq(more, 1, n), u), Parsed(more, u), SubSeq(more, 1, n), more)
    <3>1. CASE n \in 0..Len(t)
      <4> DEFINE front == SubSeq(t, 1, n)
                 p == Parsed(front, u)
                 q == Parsed(t, u)
      <4>1. front \in Seq(Bytes) /\ SubSeq(more, 1, n) = front
        BY <2>1, <3>1, Fronts
      <4>2. p \in ParseState /\ q \in ParseState /\ Parsed(more, u) = Byte(q, b)
        BY <2>1, <4>1, ParsedFacts
      <4>3. Keeps(p, q, front, t)
        BY <2>1, <3>1 DEF KeepsAll
      <4>4. AlivePlaced(q, t)
        BY <2>1, TextPlaced
      <4> HIDE DEF front, p, q, more
      <4>5. Keeps(p, Byte(q, b), front, Append(t, b))
        BY <2>1, <4>1, <4>2, <4>3, <4>4, KeepsOn
      <4> QED BY <4>1, <4>2, <4>5 DEF p, more
    <3>2. CASE n = Len(more)
      <4> HIDE DEF more
      <4>1. SubSeq(more, 1, n) = more
        BY <2>2, <3>2, SubSeqFull
      <4>2. Keeps(Parsed(more, u), Parsed(more, u), more, more)
        BY <2>2, ParsedFacts, KeepsItself
      <4> QED BY <4>1, <4>2
    <3> HIDE DEF more
    <3> QED BY <2>2, <3>1, <3>2
  <2> HIDE DEF more
  <2>4. KeepsAll(more, u)
    BY <2>3 DEF KeepsAll
  <2> QED BY <1>1, <2>2, <2>4 DEF more
<1>4. P = Seq(Bytes)
  BY <1>1, <1>2, <1>3, TextInduction
<1> QED BY <1>1, <1>4

-----------------------------------------------------------------------------
(***************************************************************************)
(* Where the fields lie, in a text that is not too long for its offsets.   *)
(***************************************************************************)
\* Of a field.
Off(q, g) == q.info.data[g].off
Length(q, g) == q.info.data[g].len

\* The current field ends the text, the others end before.
Fits(q, text) ==
  /\ \A g \in q.info.set : /\ Off(q, g) + Length(q, g) <= Len(text)
                           /\ g # q.field => Off(q, g) + Length(q, g) < Len(text)
  /\ Len(text) > 0 => Off(q, q.field) + Length(q, q.field) = Len(text)

\* A byte more, in a text that is not too long for it.
Grows(q, r, text, b, f) ==
  /\ Next1(q, r, text, b, f) /\ Placed(q, text) /\ Fits(q, text)
  /\ text \in Seq(Bytes) /\ b \in Bytes /\ Len(text) + 1 < OffsetSpan

\* Offsets and lengths after a byte, when none of them wraps.
LEMMA Extents ==
  ASSUME NEW q, NEW r, NEW text, NEW b, NEW f, Grows(q, r, text, b, f)
  PROVE  /\ Len(text) \in Nat /\ f \in Fields
         /\ r.info.set = q.info.set \union {f}
         /\ \A g \in Fields : /\ Off(q, g) \in Nat /\ Length(q, g) \in Nat
                              /\ Off(r, g) \in Nat /\ Length(r, g) \in Nat
         /\ \A g \in q.info.set : g \in Fields /\ Off(q, g) + Length(q, g) <= Len(text)
         /\ \A g \in Fields : g # f => Off(r, g) = Off(q, g) /\ Length(r, g) = Length(q, g)
         /\ f = q.field => /\ f \in q.info.set
                           /\ Off(q, f) + Length(q, f) = Len(text)
                           /\ Off(r, f) = Off(q, f) /\ Length(r, f) = Length(q, f) + 1
         /\ f # q.field => /\ f \notin q.info.set
                           /\ Off(r, f) = Len(text) + Delimiter(f)
                           /\ Length(r, f) = 1 - Delimiter(f)
         /\ Delimiter(f) \in {0, 1}
<1>1. /\ Next1(q, r, text, b, f) /\ Placed(q, text) /\ Fits(q, text)
      /\ text \in Seq(Bytes) /\ b \in Bytes /\ Len(text) + 1 < OffsetSpan
  BY DEF Grows
<1>2. /\ r.info.set = q.info.set \union {f}
      /\ \A g \in Fields : g # f => Off(r, g) = Off(q, g) /\ Length(r, g) = Length(q, g)
      /\ f = q.field => Off(r, f) = Off(q, f) /\ Length(r, f) = Offset(Length(q, f) + 1)
      /\ f # q.field => Off(r, f) = Offset(q.p + Delimiter(f)) /\ Length(r, f) = 1 - Delimiter(f)
      /\ \A g \in Fields : /\ Off(q, g) \in Nat /\ Length(q, g) \in Nat
                           /\ Off(r, g) \in Nat /\ Length(r, g) \in Nat
      /\ Delimiter(f) \in {0, 1}
  BY <1>1, Entries DEF Off, Length
<1>3. Len(text) \in Nat
  BY <1>1, LenProperties
<1>4. f \in Fields /\ q.info.set \in SUBSET Fields
  BY <1>1 DEF Next1, ParseState, UrlInfo
<1>5. ASSUME f = q.field
      PROVE  /\ f \in q.info.set
             /\ Off(q, f) + Length(q, f) = Len(text)
             /\ Length(r, f) = Length(q, f) + 1
  <2>1. Len(text) > 0
    BY <1>1, <1>3, <1>4, <1>5 DEF Placed, Fields
  <2>2. f \in q.info.set /\ Off(q, f) + Length(q, f) = Len(text)
    BY <1>1, <1>5, <2>1 DEF Placed, Fits
  <2>3. Length(q, f) + 1 \in Nat /\ Length(q, f) + 1 < OffsetSpan
    BY <1>1, <1>2, <1>3, <1>4, <2>2, UrlAssumption
  <2> QED BY <1>2, <1>5, <2>2, <2>3, OffsetFacts
<1>6. ASSUME f # q.field
      PROVE  f \notin q.info.set /\ Off(r, f) = Len(text) + Delimiter(f)
  <2>1. f \notin q.info.set
    BY <1>1, <1>6 DEF Next1
  <2>2. q.p = Len(text)
    BY <1>1 DEF Placed
  <2>3. Len(text) + Delimiter(f) \in Nat /\ Len(text) + Delimiter(f) < OffsetSpan
    BY <1>1, <1>2, <1>3, UrlAssumption
  <2> QED BY <1>2, <1>6, <2>1, <2>2, <2>3, OffsetFacts
<1>7. \A g \in q.info.set : g \in Fields /\ Off(q, g) + Length(q, g) <= Len(text)
  BY <1>1, <1>4 DEF Fits
<1> QED BY <1>2, <1>3, <1>4, <1>5, <1>6, <1>7

\* The fields still fit after a byte more.
LEMMA FitsOn ==
  ASSUME NEW q, NEW r, NEW text, NEW b, NEW f, Grows(q, r, text, b, f)
  PROVE  Fits(r, Append(text, b))
<1> DEFINE more == Append(text, b)
           L == Len(text)
<1>1. Len(more) = L + 1 /\ r.field = f
  BY Appended DEF Grows, Next1, Goes
<1>2. /\ L \in Nat /\ f \in Fields
      /\ r.info.set = q.info.set \union {f}
      /\ \A g \in Fields : Off(q, g) \in Nat /\ Length(q, g) \in Nat
      /\ \A g \in q.info.set : g \in Fields /\ Off(q, g) + Length(q, g) <= L
      /\ \A g \in Fields : g # f => Off(r, g) = Off(q, g) /\ Length(r, g) = Length(q, g)
  BY Extents
<1> HIDE DEF more, L
<1>3. Off(r, f) + Length(r, f) = L + 1
  <2>1. /\ f = q.field => /\ Off(q, f) + Length(q, f) = L
                          /\ Off(r, f) = Off(q, f) /\ Length(r, f) = Length(q, f) + 1
        /\ f # q.field => Off(r, f) = L + Delimiter(f) /\ Length(r, f) = 1 - Delimiter(f)
        /\ Delimiter(f) \in {0, 1}
    BY Extents DEF L
  <2> QED BY <1>2, <2>1
<1>4. ASSUME NEW g \in r.info.set, g # f PROVE Off(r, g) + Length(r, g) < L + 1
  <2>1. g \in q.info.set /\ g \in Fields
    BY <1>2, <1>4
  <2>2. Off(q, g) + Length(q, g) <= L /\ Off(q, g) \in Nat /\ Length(q, g) \in Nat
    BY <1>2, <2>1
  <2> QED BY <1>2, <1>4, <2>1, <2>2
<1>5. ASSUME NEW g \in r.info.set PROVE Off(r, g) + Length(r, g) <= L + 1
  <2>1. g \in Fields
    BY <1>2, <1>5
  <2> QED BY <1>2, <1>3, <1>4, <1>5, <2>1
<1> QED BY <1>1, <1>3, <1>4, <1>5 DEF Fits, more

-----------------------------------------------------------------------------
(***************************************************************************)
(* What the fields hold.                                                   *)
(***************************************************************************)
\* The places of a field.
Span(q, g) == Off(q, g) + 1..Off(q, g) + Length(q, g)

\* No hash sign in a query.
QueryHolds(q, text) ==
  "QUERY" \in q.info.set => \A i \in Span(q, "QUERY") : text[i] # "#"

\* A path begins with / or *, and has no question mark.
PathHolds(q, text) ==
  "PATH" \in q.info.set =>
    /\ Length(q, "PATH") > 0 /\ text[Off(q, "PATH") + 1] \in {"/", "*"}
    /\ \A i \in Span(q, "PATH") : text[i] # "?"

\* A port is a run of digits.
PortHolds(q, text) ==
  "PORT" \in q.info.set => IsRun(text, Off(q, "PORT"), Length(q, "PORT"))

\* A byte more leaves the fields before where they were.
Spanned(q, r, text, more, b, f) ==
  /\ \A g \in q.info.set : \A i \in Span(q, g) : more[i] = text[i]
  /\ \A g \in Fields : g # f => Span(r, g) = Span(q, g)
  /\ f = q.field => \A i \in Span(r, f) : i \in Span(q, f) \/ i = Len(text) + 1
  /\ f # q.field => \A i \in Span(r, f) : i = Len(text) + 1
  /\ more[Len(text) + 1] = b

\* Where the fields lie after a byte, and what lies there.
LEMMA Spans ==
  ASSUME NEW q, NEW r, NEW text, NEW b, NEW f, Grows(q, r, text, b, f)
  PROVE  Spanned(q, r, text, Append(text, b), b, f)
<1>1. /\ Len(text) \in Nat /\ f \in Fields
      /\ \A g \in Fields : Off(q, g) \in Nat /\ Length(q, g) \in Nat
      /\ \A g \in q.info.set : g \in Fields /\ Off(q, g) + Length(q, g) <= Len(text)
      /\ \A g \in Fields : g # f => Off(r, g) = Off(q, g) /\ Length(r, g) = Length(q, g)
  BY Extents
<1>2. /\ f = q.field => /\ Off(q, f) + Length(q, f) = Len(text)
                        /\ Off(r, f) = Off(q, f) /\ Length(r, f) = Length(q, f) + 1
      /\ f # q.field => Off(r, f) = Len(text) + Delimiter(f) /\ Length(r, f) = 1 - Delimiter(f)
      /\ Delimiter(f) \in {0, 1}
  BY Extents
<1>3. Append(text, b)[Len(text) + 1] = b /\ \A i \in 1..Len(text) : Append(text, b)[i] = text[i]
  BY Appended DEF Grows
<1>4. ASSUME NEW g \in q.info.set, NEW i \in Span(q, g) PROVE Append(text, b)[i] = text[i]
  <2>1. i \in 1..Len(text)
    BY <1>1, <1>4 DEF Span
  <2> QED BY <1>3, <2>1
<1>5. \A g \in Fields : g # f => Span(r, g) = Span(q, g)
  BY <1>1 DEF Span
<1>6. ASSUME f = q.field, NEW i \in Span(r, f) PROVE i \in Span(q, f) \/ i = Len(text) + 1
  BY <1>1, <1>2, <1>6 DEF Span
<1>7. ASSUME f # q.field, NEW i \in Span(r, f) PROVE i = Len(text) + 1
  BY <1>1, <1>2, <1>7 DEF Span
<1> QED BY <1>3, <1>4, <1>5, <1>6, <1>7 DEF Spanned

\* What the byte that goes into a field, or begins it, can be.
LEMMA Taken ==
  ASSUME NEW q, NEW r, NEW text, NEW b, NEW f, Grows(q, r, text, b, f)
  PROVE  /\ f = "QUERY" /\ f = q.field => b # "#"
         /\ f = "QUERY" /\ f # q.field => b = "?"
         /\ f = "PATH" => b # "?"
         /\ f = "PATH" /\ f # q.field => b \in {"/", "*"}
         /\ f = "PORT" /\ f = q.field => b \in Num
         /\ f = "PORT" /\ f # q.field => b = ":"
         /\ f = "FRAGMENT" /\ f # q.field => b = "#"
         /\ f # "PORT" /\ q.field = "PORT" => b \notin Num
         /\ f \in {"PATH", "QUERY", "FRAGMENT"} \/ q.field # "PORT" \/ f = "PORT"
<1>1. From(q.s, b, r.s) /\ f = Field(r.s) /\ Placed(q, text) /\ Len(text) \in Nat
  BY LenProperties DEF Grows, Next1
<1>2. \/ q.s = "s_req_spaces_before_url" /\ q.field = "none"
      \/ q.s \in DOMAIN UrlMoves /\ q.field = Field(q.s)
  BY <1>1 DEF Placed
<1>3. q.s = "s_req_spaces_before_url" => q.field = "none"
  BY <1>2, AllStates DEF SchemaStates, Query, Fragment
<1>4. q.s # "s_req_spaces_before_url" => q.field = Field(q.s)
  BY <1>2
<1> QED BY <1>1, <1>3, <1>4 DEF From, Field, SchemaStates, Query, Fragment, UrlChars, HostChars, Alpha, Num

\* What the fields hold they hold after a byte more.
LEMMA HoldsOn ==
  ASSUME NEW q, NEW r, NEW text, NEW b, NEW f, Grows(q, r, text, b, f),
         QueryHolds(q, text), PathHolds(q, text), PortHolds(q, text)
  PROVE  /\ QueryHolds(r, Append(text, b))
         /\ PathHolds(r, Append(text, b))
         /\ PortHolds(r, Append(text, b))
<1> DEFINE more == Append(text, b)
           L == Len(text)
<1>1. /\ L \in Nat /\ f \in Fields
      /\ r.info.set = q.info.set \union {f}
      /\ \A g \in Fields : Off(q, g) \in Nat /\ Length(q, g) \in Nat
      /\ \A g \in Fields : Off(r, g) \in Nat /\ Length(r, g) \in Nat
      /\ \A g \in q.info.set : g \in Fields /\ Off(q, g) + Length(q, g) <= L
      /\ \A g \in Fields : g # f => Off(r, g) = Off(q, g) /\ Length(r, g) = Length(q, g)
  BY Extents
<1>2. /\ f = q.field => /\ f \in q.info.set /\ Off(q, f) + Length(q, f) = L
                        /\ Off(r, f) = Off(q, f) /\ Length(r, f) = Length(q, f) + 1
      /\ f # q.field => /\ f \notin q.info.set
                        /\ Off(r, f) = L + Delimiter(f) /\ Length(r, f) = 1 - Delimiter(f)
      /\ Delimiter(f) \in {0, 1}
  BY Extents
<1>b. Spanned(q, r, text, more, b, f)
  BY Spans
<1>4. Len(more) = L + 1 /\ \A i \in 1..L : more[i] = text[i]
  BY Appended DEF Grows
<1>a. {"QUERY", "PATH", "PORT"} \in SUBSET Fields
  BY DEF Fields
<1> HIDE DEF more, L
<1>3. /\ \A g \in q.info.set : \A i \in Span(q, g) : more[i] = text[i]
      /\ \A g \in Fields : g # f => Span(r, g) = Span(q, g)
      /\ f = q.field => \A i \in Span(r, f) : i \in Span(q, f) \/ i = L + 1
      /\ f # q.field => \A i \in Span(r, f) : i = L + 1
      /\ more[L + 1] = b
  BY <1>b DEF Spanned, L
<1>5. QueryHolds(r, more)
  <2>1. SUFFICES ASSUME "QUERY" \in r.info.set, NEW i \in Span(r, "QUERY") PROVE more[i] # "#"
    BY DEF QueryHolds
  <2>2. CASE f # "QUERY"
    <3>1. "QUERY" \in q.info.set /\ i \in Span(q, "QUERY")
      BY <1>1, <1>3, <1>a, <2>1, <2>2
    <3>2. text[i] # "#"
      BY <3>1 DEF QueryHolds
    <3> QED BY <1>3, <3>1, <3>2
  <2>3. CASE f = "QUERY" /\ f = q.field
    <3>1. b # "#"
      BY <2>3, Taken
    <3>2. CASE i = L + 1
      BY <1>3, <3>1, <3>2
    <3>3. CASE i \in Span(q, "QUERY")
      <4>1. "QUERY" \in q.info.set /\ text[i] # "#"
        BY <1>2, <2>3, <3>3 DEF QueryHolds
      <4> QED BY <1>3, <3>3, <4>1
    <3> QED BY <1>3, <2>1, <2>3, <3>2, <3>3
  <2>4. CASE f = "QUERY" /\ f # q.field
    <3>1. b = "?"
      BY <2>4, Taken
    <3> QED BY <1>3, <2>1, <2>4, <3>1
  <2> QED BY <2>2, <2>3, <2>4
<1>6. PathHolds(r, more)
  <2>1. SUFFICES ASSUME "PATH" \in r.info.set
                 PROVE  /\ Length(r, "PATH") > 0 /\ more[Off(r, "PATH") + 1] \in {"/", "*"}
                        /\ \A i \in Span(r, "PATH") : more[i] # "?"
    BY DEF PathHolds
  <2>2. CASE f # q.field /\ f = "PATH"
    <3>1. Delimiter(f) = 0 /\ b \in {"/", "*"}
      BY <2>2, Taken DEF Delimiter
    <3> QED BY <1>1, <1>2, <1>3, <2>2, <3>1
  <2>3. CASE ~(f # q.field /\ f = "PATH")
    <3>1. "PATH" \in q.info.set
      BY <1>1, <1>2, <2>1, <2>3
    <3>2. /\ Length(q, "PATH") > 0 /\ text[Off(q, "PATH") + 1] \in {"/", "*"}
          /\ \A i \in Span(q, "PATH") : text[i] # "?"
      BY <3>1 DEF PathHolds
    <3>3. Off(r, "PATH") = Off(q, "PATH") /\ Length(r, "PATH") > 0
      BY <1>1, <1>2, <1>a, <2>3, <3>2
    <3>4. Off(q, "PATH") + 1 \in Span(q, "PATH")
      BY <1>1, <1>a, <3>2 DEF Span
    <3>5. more[Off(q, "PATH") + 1] = text[Off(q, "PATH") + 1]
      BY <1>3, <3>1, <3>4
    <3>6. ASSUME NEW i \in Span(r, "PATH") PROVE more[i] # "?"
      <4>1. CASE i \in Span(q, "PATH")
        BY <1>3, <3>1, <3>2, <4>1
      <4>2. CASE i \notin Span(q, "PATH")
        <5>1. f = "PATH" /\ i = L + 1
          BY <1>3, <1>a, <2>3, <3>6, <4>2
        <5>2. b # "?"
          BY <5>1, Taken
        <5> QED BY <1>3, <5>1, <5>2
      <4> QED BY <4>1, <4>2
    <3> QED BY <3>2, <3>3, <3>5, <3>6
  <2> QED BY <2>2, <2>3
<1>7. PortHolds(r, more)
  <2>1. SUFFICES ASSUME "PORT" \in r.info.set
                 PROVE  IsRun(more, Off(r, "PORT"), Length(r, "PORT"))
    BY DEF PortHolds
  <2>2. CASE f = "PORT" /\ f # q.field
    <3>1. Delimiter(f) = 1
      BY <2>2 DEF Delimiter
    <3>2. Off(r, "PORT") = L + 1 /\ Length(r, "PORT") = 0
      BY <1>2, <2>2, <3>1
    <3> HIDE DEF Off, Length
    <3> QED BY <1>1, <1>4, <3>2 DEF IsRun
  <2>3. CASE f = "PORT" /\ f = q.field
    <3> DEFINE o == Off(q, "PORT")
               n == Length(q, "PORT")
    <3>1. /\ "PORT" \in q.info.set /\ o + n = L /\ o \in Nat /\ n \in Nat
          /\ Off(r, "PORT") = o /\ Length(r, "PORT") = n + 1
      BY <1>1, <1>2, <2>3
    <3>2. IsRun(text, o, n)
      BY <3>1 DEF PortHolds
    <3>3. b \in Num
      BY <2>3, Taken
    <3> HIDE DEF o, n
    <3>4. ASSUME NEW i \in o + 1..o + (n + 1) PROVE more[i] \in Num
      <4>1. CASE i = L + 1
        BY <1>3, <3>3, <4>1
      <4>2. CASE i # L + 1
        <5>1. i \in o + 1..o + n /\ i \in 1..L
          BY <1>1, <3>1, <4>2
        <5> QED BY <1>4, <3>2, <5>1 DEF IsRun
      <4> QED BY <4>1, <4>2
    <3>5. IsRun(more, o, n + 1)
      BY <1>1, <1>4, <3>1, <3>4 DEF IsRun
    <3> QED BY <3>1, <3>5
  <2>4. CASE f # "PORT"
    <3> DEFINE o == Off(q, "PORT")
               n == Length(q, "PORT")
    <3>1. /\ "PORT" \in q.info.set /\ o \in Nat /\ n \in Nat /\ o + n <= L
          /\ Off(r, "PORT") = o /\ Length(r, "PORT") = n
      BY <1>1, <1>a, <2>1, <2>4
    <3>2. IsRun(text, o, n)
      BY <3>1 DEF PortHolds
    <3>3. o + n = L => b \notin Num
      <4>1. Fits(q, text)
        BY DEF Grows
      <4>2. o + n = L => q.field = "PORT"
        BY <1>1, <3>1, <4>1 DEF Fits, L
      <4> QED BY <2>4, <4>2, Taken
    <3> HIDE DEF o, n
    <3>4. \A i \in o + 1..o + n : more[i] \in Num
      <4>1. \A i \in o + 1..o + n : i \in 1..L
        BY <1>1, <3>1
      <4> QED BY <1>4, <3>2, <4>1 DEF IsRun
    <3>5. more[o + n + 1] \notin Num
      <4>1. CASE o + n = L
        BY <1>3, <3>3, <4>1
      <4>2. CASE o + n < L
        <5>1. o + n + 1 \in 1..L
          BY <1>1, <3>1, <4>2
        <5> QED BY <1>4, <3>2, <4>2, <5>1 DEF IsRun, L
      <4> QED BY <1>1, <3>1, <4>1, <4>2
    <3>6. IsRun(more, o, n)
      BY <1>1, <1>4, <3>1, <3>4, <3>5 DEF IsRun
    <3> QED BY <3>1, <3>6
  <2> QED BY <2>2, <2>3, <2>4
<1> QED BY <1>5, <1>6, <1>7 DEF more

-----------------------------------------------------------------------------
(***************************************************************************)
(* The fields, each with its delimiter, make up the text.                  *)
(***************************************************************************)
\* A piece that ends before the byte stays as it is.
LEMMA SubKept ==
  ASSUME NEW text \in Seq(Bytes), NEW b \in Bytes, NEW o \in Nat, NEW n \in Nat, n > 0 => o + n <= Len(text)
  PROVE  SubSeq(Append(text, b), o + 1, o + n) = SubSeq(text, o + 1, o + n)
<1> DEFINE more == Append(text, b)
           s == SubSeq(text, o + 1, o + n)
           m == SubSeq(more, o + 1, o + n)
<1>1. /\ more \in Seq(Bytes) /\ Len(text) \in Nat /\ Len(more) = Len(text) + 1
      /\ \A i \in 1..Len(text) : more[i] = text[i]
  BY Appended
<1>2. s \in Seq(Bytes) /\ Len(s) = n /\ \A i \in 1..n : s[i] = text[o + i]
  BY Subs
<1> HIDE DEF more
<1>3. m \in Seq(Bytes) /\ Len(m) = n /\ \A i \in 1..n : m[i] = more[o + i]
  <2>1. n > 0 => o + n <= Len(more)
    BY <1>1
  <2> QED BY <1>1, <2>1, Subs
<1>4. \A i \in 1..n : o + i \in 1..Len(text)
  BY <1>1
<1> HIDE DEF s, m
<1>5. m = s
  BY <1>1, <1>2, <1>3, <1>4, SeqEqual
<1> QED BY <1>5 DEF m, s, more

\* A piece that ends at it grows by it.
LEMMA SubGrown ==
  ASSUME NEW text \in Seq(Bytes), NEW b \in Bytes, NEW o \in Nat, NEW n \in Nat, o + n = Len(text)
  PROVE  SubSeq(Append(text, b), o + 1, o + (n + 1)) = Append(SubSeq(text, o + 1, o + n), b)
<1> DEFINE more == Append(text, b)
           s == SubSeq(text, o + 1, o + n)
           sb == Append(s, b)
           m == SubSeq(more, o + 1, o + (n + 1))
<1>1. /\ more \in Seq(Bytes) /\ Len(text) \in Nat /\ Len(more) = Len(text) + 1
      /\ more[Len(text) + 1] = b
      /\ \A i \in 1..Len(text) : more[i] = text[i]
  BY Appended
<1>2. s \in Seq(Bytes) /\ Len(s) = n /\ \A i \in 1..n : s[i] = text[o + i]
  BY Subs
<1> HIDE DEF more
<1>3. m \in Seq(Bytes) /\ Len(m) = n + 1 /\ \A i \in 1..n + 1 : m[i] = more[o + i]
  <2>1. n + 1 \in Nat /\ o + (n + 1) <= Len(more)
    BY <1>1
  <2> QED BY <1>1, <2>1, Subs
<1> HIDE DEF s, m
<1>4. sb \in Seq(Bytes) /\ Len(sb) = n + 1 /\ sb[n + 1] = b /\ \A i \in 1..n : sb[i] = s[i]
  BY <1>2, Appended
<1> HIDE DEF sb
<1>5. ASSUME NEW i \in 1..n + 1 PROVE m[i] = sb[i]
  <2>1. CASE i = n + 1
    <3>1. o + i = Len(text) + 1
      BY <2>1
    <3> QED BY <1>1, <1>3, <1>4, <2>1, <3>1
  <2>2. CASE i # n + 1
    <3>1. i \in 1..n /\ o + i \in 1..Len(text)
      BY <1>1, <2>2
    <3> QED BY <1>1, <1>2, <1>3, <1>4, <3>1
  <2> QED BY <2>1, <2>2
<1>6. m = sb
  BY <1>3, <1>4, <1>5, SeqEqual
<1> QED BY <1>6 DEF m, sb, s, more

\* A field with its delimiter.
Part(q, g, text) ==
  IF g \in q.info.set THEN Lead(g) \o SubSeq(text, Off(q, g) + 1, Off(q, g) + Length(q, g)) ELSE <<>>

\* All of them in a row.
Spelled(q, text) ==
  Part(q, "SCHEMA", text) \o Part(q, "HOST", text) \o Part(q, "PORT", text)
    \o Part(q, "PATH", text) \o Part(q, "QUERY", text) \o Part(q, "FRAGMENT", text)

\* A delimiter is one byte or none.
LEMMA LeadIn ==
  ASSUME NEW g
  PROVE  Lead(g) \in Seq(Bytes)
<1>1. {":", "?", "#"} \in SUBSET Bytes
  BY DEF Bytes, UrlChars
<1>2. <<":">> \in Seq(Bytes) /\ <<"?">> \in Seq(Bytes) /\ <<"#">> \in Seq(Bytes) /\ <<>> \in Seq(Bytes)
  BY <1>1
<1> QED BY <1>2 DEF Lead

\* Of the parts, the current one grows by the byte.
PartsGrow(q, r, text, more, b, f) ==
  /\ \A g \in Fields : Part(q, g, text) \in Seq(Bytes)
  /\ Part(r, f, more) = Append(Part(q, f, text), b)
  /\ \A g \in Fields : g # f => Part(r, g, more) = Part(q, g, text)
  /\ \A g \in Fields : Rank(f) < Rank(g) => Part(q, g, text) = <<>>

\* The current part grows, the others stay, and those behind it are empty.
LEMMA PartsOn ==
  ASSUME NEW q, NEW r, NEW text, NEW b, NEW f, Grows(q, r, text, b, f)
  PROVE  PartsGrow(q, r, text, Append(text, b), b, f)
<1> DEFINE more == Append(text, b)
           L == Len(text)
           Sub(p, g, t) == SubSeq(t, Off(p, g) + 1, Off(p, g) + Length(p, g))
<1>1. /\ L \in Nat /\ f \in Fields
      /\ r.info.set = q.info.set \union {f}
      /\ \A g \in Fields : Off(q, g) \in Nat /\ Length(q, g) \in Nat
      /\ \A g \in q.info.set : g \in Fields /\ Off(q, g) + Length(q, g) <= L
      /\ \A g \in Fields : g # f => Off(r, g) = Off(q, g) /\ Length(r, g) = Length(q, g)
  BY Extents
<1>2. /\ f = q.field => /\ f \in q.info.set /\ Off(q, f) + Length(q, f) = L
                        /\ Off(r, f) = Off(q, f) /\ Length(r, f) = Length(q, f) + 1
      /\ f # q.field => /\ f \notin q.info.set
                        /\ Off(r, f) = L + Delimiter(f) /\ Length(r, f) = 1 - Delimiter(f)
      /\ Delimiter(f) \in {0, 1}
  BY Extents
<1>3. text \in Seq(Bytes) /\ b \in Bytes
  BY DEF Grows
<1>4. more \in Seq(Bytes) /\ Len(more) = L + 1
  BY <1>3, Appended
<1>5. ASSUME NEW g \in q.info.set PROVE Sub(q, g, text) \in Seq(Bytes) /\ Sub(q, g, more) = Sub(q, g, text)
  <2>1. Off(q, g) \in Nat /\ Length(q, g) \in Nat /\ Off(q, g) + Length(q, g) <= L
    BY <1>1, <1>5
  <2> QED BY <1>3, <2>1, Subs, SubKept
<1>6. \A g : Lead(g) \in Seq(Bytes)
  BY LeadIn
<1>7. ASSUME NEW g \in Fields PROVE Part(q, g, text) \in Seq(Bytes)
  <2>1. CASE g \in q.info.set
    <3> DEFINE s == Sub(q, g, text)
    <3>1. s \in Seq(Bytes) /\ Part(q, g, text) = Lead(g) \o s
      BY <1>5, <2>1 DEF Part
    <3> HIDE DEF s
    <3> QED BY <1>6, <3>1, ConcatProperties
  <2>2. CASE g \notin q.info.set
    BY <2>2 DEF Part
  <2> QED BY <2>1, <2>2
<1>8. ASSUME NEW g \in Fields, g # f PROVE Part(r, g, more) = Part(q, g, text)
  <2>1. g \in r.info.set <=> g \in q.info.set
    BY <1>1, <1>8
  <2>2. Sub(r, g, more) = Sub(q, g, more)
    BY <1>1, <1>8
  <2>3. g \in q.info.set => Sub(r, g, more) = Sub(q, g, text)
    BY <1>5, <2>2
  <2> QED BY <2>1, <2>3 DEF Part
<1>9. Part(r, f, more) = Append(Part(q, f, text), b)
  <2>a. Part(r, f, more) = Lead(f) \o Sub(r, f, more)
    BY <1>1 DEF Part
  <2>1. CASE f = q.field
    <3> DEFINE s == Sub(q, f, text)
               m == Sub(r, f, more)
    <3>1. /\ Off(q, f) \in Nat /\ Length(q, f) \in Nat /\ Off(q, f) + Length(q, f) = L
          /\ Off(r, f) = Off(q, f) /\ Length(r, f) = Length(q, f) + 1 /\ f \in q.info.set
      BY <1>1, <1>2, <2>1
    <3>2. s \in Seq(Bytes) /\ Part(q, f, text) = Lead(f) \o s
      BY <1>5, <3>1 DEF Part
    <3>3. m = Append(s, b)
      BY <1>3, <3>1, SubGrown
    <3>4. Part(r, f, more) = Lead(f) \o m
      BY <2>a
    <3> HIDE DEF s, m, more
    <3>5. Append(s, b) = s \o <<b>> /\ <<b>> \in Seq(Bytes)
      BY <1>3, <3>2, AppendIsConcat
    <3>6. Lead(f) \o (s \o <<b>>) = (Lead(f) \o s) \o <<b>>
      BY <1>6, <3>2, <3>5, ConcatAssociative
    <3>7. Lead(f) \o s \in Seq(Bytes)
      BY <1>6, <3>2, ConcatProperties
    <3>8. (Lead(f) \o s) \o <<b>> = Append(Lead(f) \o s, b)
      BY <1>3, <3>7, AppendIsConcat
    <3> QED BY <3>2, <3>3, <3>4, <3>5, <3>6, <3>8
  <2>2. CASE f # q.field
    <3>1. Part(q, f, text) = <<>>
      BY <1>2, <2>2 DEF Part
    <3>2. CASE Delimiter(f) = 1
      <4>1. Off(r, f) = L + 1 /\ Length(r, f) = 0
        BY <1>2, <2>2, <3>2
      <4>2. Sub(r, f, more) = <<>>
        <5> HIDE DEF more
        <5>1. Off(r, f) + 1 \in Int /\ Off(r, f) + Length(r, f) \in Int
              /\ Off(r, f) + 1 > Off(r, f) + Length(r, f)
          BY <1>1, <4>1
        <5> QED BY <1>4, <5>1, SubSeqEmpty
      <4>3. Lead(f) = <<b>>
        <5>1. (f = "PORT" /\ b = ":") \/ (f = "QUERY" /\ b = "?") \/ (f = "FRAGMENT" /\ b = "#")
          BY <2>2, <3>2, Taken DEF Delimiter
        <5> QED BY <5>1 DEF Lead
      <4>4. Part(r, f, more) = <<b>>
        <5> DEFINE m == Sub(r, f, more)
        <5>1. m = <<>>
          BY <4>2
        <5>2. <<b>> \in Seq(Bytes)
          BY <1>3
        <5>3. <<b>> \o <<>> = <<b>>
          BY <5>2, ConcatEmptySeq
        <5>4. Part(r, f, more) = <<b>> \o m
          BY <2>a, <4>3
        <5> HIDE DEF m, more
        <5> QED BY <5>1, <5>3, <5>4
      <4>5. Append(<<>>, b) = <<b>>
        OBVIOUS
      <4> HIDE DEF more
      <4> QED BY <3>1, <4>4, <4>5
    <3>3. CASE Delimiter(f) = 0
      <4>1. Off(r, f) = L /\ Length(r, f) = 1
        BY <1>2, <2>2, <3>3, <1>1
      <4>2. Lead(f) = <<>>
        <5>1. f \notin {"PORT", "QUERY", "FRAGMENT"}
          BY <3>3 DEF Delimiter
        <5> QED BY <5>1 DEF Lead
      <4>3. Sub(r, f, more) = <<b>>
        <5>1. SubSeq(more, L + 1, L + (0 + 1)) = Append(SubSeq(text, L + 1, L + 0), b)
          <6>1. L + 0 = Len(text) /\ 0 \in Nat
            BY <1>1
          <6> HIDE DEF L
          <6> QED BY <1>1, <1>3, <6>1, SubGrown DEF more
        <5>2. SubSeq(text, L + 1, L + 0) = <<>>
          <6>1. L + 1 \in Int /\ L + 0 \in Int /\ L + 1 > L + 0
            BY <1>1
          <6> HIDE DEF L
          <6> QED BY <1>3, <6>1, SubSeqEmpty
        <5>3. Sub(r, f, more) = SubSeq(more, L + 1, L + (0 + 1))
          BY <4>1, <1>1
        <5>4. Append(<<>>, b) = <<b>>
          OBVIOUS
        <5> HIDE DEF L, more
        <5> QED BY <5>1, <5>2, <5>3, <5>4
      <4>4. Part(r, f, more) = <<b>>
        <5> DEFINE m == Sub(r, f, more)
        <5>1. m = <<b>>
          BY <4>3
        <5>2. <<b>> \in Seq(Bytes)
          BY <1>3
        <5>3. <<>> \o <<b>> = <<b>>
          BY <5>2, ConcatEmptySeq
        <5>4. Part(r, f, more) = <<>> \o m
          BY <2>a, <4>2
        <5> HIDE DEF m, more
        <5> QED BY <5>1, <5>3, <5>4
      <4>5. Append(<<>>, b) = <<b>>
        OBVIOUS
      <4> HIDE DEF more
      <4> QED BY <3>1, <4>4, <4>5
    <3> QED BY <1>2, <3>2, <3>3
  <2> QED BY <2>1, <2>2
<1>10. ASSUME NEW g \in Fields, Rank(f) < Rank(g) PROVE Part(q, g, text) = <<>>
  <2>1. \A h : Rank(h) \in Nat
    BY DEF Rank
  <2>2. \A h \in q.info.set : Rank(h) <= Rank(f)
    <3>1. Placed(q, text) /\ Next1(q, r, text, b, f)
      BY DEF Grows
    <3>2. CASE f = q.field
      <4>1. L > 0
        BY <1>1, <3>1, <3>2 DEF Placed, Fields
      <4> QED BY <3>1, <3>2, <4>1 DEF Placed
    <3>3. CASE f # q.field
      BY <2>1, <3>1, <3>3 DEF Next1
    <3> QED BY <3>2, <3>3
  <2>3. g \notin q.info.set
    BY <1>10, <2>1, <2>2
  <2> QED BY <2>3 DEF Part
<1> HIDE DEF more
<1>11. PartsGrow(q, r, text, more, b, f)
  BY <1>7, <1>8, <1>9, <1>10 DEF PartsGrow
<1> QED BY <1>11 DEF more

\* Joining and appending, as the parts need it.
LEMMA Joined ==
  ASSUME NEW x \in Seq(Bytes), NEW y \in Seq(Bytes), NEW b \in Bytes
  PROVE  x \o y \in Seq(Bytes) /\ x \o Append(y, b) = Append(x \o y, b) /\ x \o <<>> = x
<1>1. <<b>> \in Seq(Bytes) /\ x \o y \in Seq(Bytes)
  BY ConcatProperties
<1>2. Append(y, b) = y \o <<b>> /\ Append(x \o y, b) = (x \o y) \o <<b>>
  BY <1>1, AppendIsConcat
<1>3. x \o (y \o <<b>>) = (x \o y) \o <<b>>
  BY <1>1, ConcatAssociative
<1> QED BY <1>1, <1>2, <1>3, ConcatEmptySeq

\* The parts make up the text with a byte more.
LEMMA SpelledOn ==
  ASSUME NEW q, NEW r, NEW text, NEW b, NEW f, Grows(q, r, text, b, f), Spelled(q, text) = text
  PROVE  Spelled(r, Append(text, b)) = Append(text, b)
<1> DEFINE more == Append(text, b)
           p1 == Part(q, "SCHEMA", text)    r1 == Part(r, "SCHEMA", more)
           p2 == Part(q, "HOST", text)      r2 == Part(r, "HOST", more)
           p3 == Part(q, "PORT", text)      r3 == Part(r, "PORT", more)
           p4 == Part(q, "PATH", text)      r4 == Part(r, "PATH", more)
           p5 == Part(q, "QUERY", text)     r5 == Part(r, "QUERY", more)
           p6 == Part(q, "FRAGMENT", text)  r6 == Part(r, "FRAGMENT", more)
<1>1. PartsGrow(q, r, text, more, b, f)
  BY PartsOn
<1>2. f \in Fields /\ b \in Bytes
  BY Extents DEF Grows
<1>3. /\ p1 \in Seq(Bytes) /\ p2 \in Seq(Bytes) /\ p3 \in Seq(Bytes)
      /\ p4 \in Seq(Bytes) /\ p5 \in Seq(Bytes) /\ p6 \in Seq(Bytes)
  BY <1>1 DEF PartsGrow, Fields
<1>4. text = ((((p1 \o p2) \o p3) \o p4) \o p5) \o p6
  BY DEF Spelled
<1>5. Spelled(r, more) = ((((r1 \o r2) \o r3) \o r4) \o r5) \o r6
  BY DEF Spelled
<1>6. /\ p1 \o p2 \in Seq(Bytes)
      /\ (p1 \o p2) \o p3 \in Seq(Bytes)
      /\ ((p1 \o p2) \o p3) \o p4 \in Seq(Bytes)
      /\ (((p1 \o p2) \o p3) \o p4) \o p5 \in Seq(Bytes)
  <2> HIDE DEF p1, p2, p3, p4, p5, p6
  <2>1. p1 \o p2 \in Seq(Bytes)
    BY <1>3, ConcatProperties
  <2>2. (p1 \o p2) \o p3 \in Seq(Bytes)
    BY <1>3, <2>1, ConcatProperties
  <2>3. ((p1 \o p2) \o p3) \o p4 \in Seq(Bytes)
    BY <1>3, <2>2, ConcatProperties
  <2>4. (((p1 \o p2) \o p3) \o p4) \o p5 \in Seq(Bytes)
    BY <1>3, <2>3, ConcatProperties
  <2> QED BY <2>1, <2>2, <2>3, <2>4
<1>7. f \in {"SCHEMA", "HOST", "PORT", "PATH", "QUERY", "FRAGMENT"}
  BY <1>2 DEF Fields
<1>8. /\ f = "SCHEMA" => /\ r1 = Append(p1, b) /\ r2 = <<>> /\ r3 = <<>> /\ r4 = <<>> /\ r5 = <<>> /\ r6 = <<>>
                         /\ p2 = <<>> /\ p3 = <<>> /\ p4 = <<>> /\ p5 = <<>> /\ p6 = <<>>
      /\ f = "HOST" => /\ r1 = p1 /\ r2 = Append(p2, b) /\ r3 = <<>> /\ r4 = <<>> /\ r5 = <<>> /\ r6 = <<>>
                       /\ p3 = <<>> /\ p4 = <<>> /\ p5 = <<>> /\ p6 = <<>>
      /\ f = "PORT" => /\ r1 = p1 /\ r2 = p2 /\ r3 = Append(p3, b) /\ r4 = <<>> /\ r5 = <<>> /\ r6 = <<>>
                       /\ p4 = <<>> /\ p5 = <<>> /\ p6 = <<>>
      /\ f = "PATH" => /\ r1 = p1 /\ r2 = p2 /\ r3 = p3 /\ r4 = Append(p4, b) /\ r5 = <<>> /\ r6 = <<>>
                       /\ p5 = <<>> /\ p6 = <<>>
      /\ f = "QUERY" => r1 = p1 /\ r2 = p2 /\ r3 = p3 /\ r4 = p4 /\ r5 = Append(p5, b) /\ r6 = <<>> /\ p6 = <<>>
      /\ f = "FRAGMENT" => r1 = p1 /\ r2 = p2 /\ r3 = p3 /\ r4 = p4 /\ r5 = p5 /\ r6 = Append(p6, b)
  <2> HIDE DEF more
  <2>1. /\ Part(r, f, more) = Append(Part(q, f, text), b)
        /\ \A g \in Fields : g # f => Part(r, g, more) = Part(q, g, text)
        /\ \A g \in Fields : Rank(f) < Rank(g) => Part(q, g, text) = <<>>
    BY <1>1 DEF PartsGrow
  <2>2. Fields = {"SCHEMA", "HOST", "PORT", "PATH", "QUERY", "FRAGMENT"}
    BY DEF Fields
  <2>3. /\ Rank("SCHEMA") = 1 /\ Rank("HOST") = 2 /\ Rank("PORT") = 3
        /\ Rank("PATH") = 4 /\ Rank("QUERY") = 5 /\ Rank("FRAGMENT") = 6
    BY DEF Rank
  <2> HIDE DEF Rank
  <2> QED BY <1>7, <2>1, <2>2, <2>3
<1> HIDE DEF more, p1, p2, p3, p4, p5, p6, r1, r2, r3, r4, r5, r6
<1> DEFINE e == <<>>
           Cat(x, y) == x \o y
           More(x) == Append(x, b)
<1>e. \A x \in Seq(Bytes) : Cat(x, e) = x
  BY <1>2, Joined
<1>j. \A x \in Seq(Bytes), y \in Seq(Bytes) : Cat(x, More(y)) = More(Cat(x, y)) /\ More(y) \in Seq(Bytes)
  BY <1>2, Joined, Appended
<1>c. /\ Cat(p1, p2) \in Seq(Bytes)
      /\ Cat(Cat(p1, p2), p3) \in Seq(Bytes)
      /\ Cat(Cat(Cat(p1, p2), p3), p4) \in Seq(Bytes)
      /\ Cat(Cat(Cat(Cat(p1, p2), p3), p4), p5) \in Seq(Bytes)
  BY <1>6
<1>d. Spelled(r, more) = Cat(Cat(Cat(Cat(Cat(r1, r2), r3), r4), r5), r6)
  BY <1>5
<1>f. /\ f = "SCHEMA" => /\ r1 = More(p1) /\ r2 = e /\ r3 = e /\ r4 = e /\ r5 = e /\ r6 = e
                         /\ p2 = e /\ p3 = e /\ p4 = e /\ p5 = e /\ p6 = e
      /\ f = "HOST" => /\ r1 = p1 /\ r2 = More(p2) /\ r3 = e /\ r4 = e /\ r5 = e /\ r6 = e
                       /\ p3 = e /\ p4 = e /\ p5 = e /\ p6 = e
      /\ f = "PORT" => /\ r1 = p1 /\ r2 = p2 /\ r3 = More(p3) /\ r4 = e /\ r5 = e /\ r6 = e
                       /\ p4 = e /\ p5 = e /\ p6 = e
      /\ f = "PATH" => /\ r1 = p1 /\ r2 = p2 /\ r3 = p3 /\ r4 = More(p4) /\ r5 = e /\ r6 = e
                       /\ p5 = e /\ p6 = e
      /\ f = "QUERY" => r1 = p1 /\ r2 = p2 /\ r3 = p3 /\ r4 = p4 /\ r5 = More(p5) /\ r6 = e /\ p6 = e
      /\ f = "FRAGMENT" => r1 = p1 /\ r2 = p2 /\ r3 = p3 /\ r4 = p4 /\ r5 = p5 /\ r6 = More(p6)
  BY <1>8
<1> HIDE DEF e, Cat, More
<1>9. Spelled(r, more) = More(Cat(Cat(Cat(Cat(Cat(p1, p2), p3), p4), p5), p6))
  <2>1. CASE f = "SCHEMA"
    BY <1>3, <1>c, <1>d, <1>e, <1>f, <1>j, <2>1
  <2>2. CASE f = "HOST"
    BY <1>3, <1>c, <1>d, <1>e, <1>f, <1>j, <2>2
  <2>3. CASE f = "PORT"
    BY <1>3, <1>c, <1>d, <1>e, <1>f, <1>j, <2>3
  <2>4. CASE f = "PATH"
    BY <1>3, <1>c, <1>d, <1>e, <1>f, <1>j, <2>4
  <2>5. CASE f = "QUERY"
    BY <1>3, <1>c, <1>d, <1>e, <1>f, <1>j, <2>5
  <2>6. CASE f = "FRAGMENT"
    BY <1>3, <1>c, <1>d, <1>e, <1>f, <1>j, <2>6
  <2> QED BY <1>7, <2>1, <2>2, <2>3, <2>4, <2>5, <2>6
<1> QED BY <1>4, <1>9 DEF more, Cat, More

-----------------------------------------------------------------------------
(***************************************************************************)
(* A port comes after a scheme and a host.                                 *)
(***************************************************************************)
\* The first colon.
Colon(text, c) == c \in 1..Len(text) /\ text[c] = ":" /\ \A i \in 1..c - 1 : text[i] # ":"

\* Nothing that ends a host.
Clear(text, from, to) == \A m \in from..to : text[m] \notin {"/", "?"}

\* A host is being read, behind the first colon.
HostAt(text, c) == Colon(text, c) /\ c + 2 <= Len(text) /\ Clear(text, c + 3, Len(text))

\* A port begins at n.
PortAt(text, c, n) ==
  Colon(text, c) /\ n \in Nat /\ c + 2 < n /\ n <= Len(text) /\ text[n] = ":" /\ Clear(text, c + 3, n - 1)

\* Where the scheme ends and the port begins, by the state.
PortPlaced(q, text) ==
  /\ q.s = "s_req_schema" => \A i \in 1..Len(text) : text[i] # ":"
  /\ q.s = "s_req_schema_slash" => Colon(text, Len(text))
  /\ q.s = "s_req_schema_slash_slash" => Colon(text, Len(text) - 1)
  /\ q.s = "s_req_host" => \E c : HostAt(text, c)
  /\ "PORT" \in q.info.set => \E c : PortAt(text, c, Off(q, "PORT"))

\* The port keeps its place after a byte more.
LEMMA PortPlacedOn ==
  ASSUME NEW q, NEW r, NEW text, NEW b, NEW f, Grows(q, r, text, b, f), PortPlaced(q, text)
  PROVE  PortPlaced(r, Append(text, b))
<1> DEFINE more == Append(text, b)
           L == Len(text)
<1>1. /\ L \in Nat /\ f \in Fields
      /\ r.info.set = q.info.set \union {f}
      /\ \A g \in Fields : g # f => Off(r, g) = Off(q, g)
      /\ f = q.field => f \in q.info.set /\ Off(r, f) = Off(q, f)
      /\ f # q.field => Off(r, f) = L + Delimiter(f)
  BY Extents
<1>2. Len(more) = L + 1 /\ more[L + 1] = b /\ \A i \in 1..L : more[i] = text[i]
  BY Appended DEF Grows
<1>3. From(q.s, b, r.s) /\ f = Field(r.s) /\ Placed(q, text)
  BY DEF Grows, Next1
<1>4. q.s = "s_req_spaces_before_url" => L = 0
  BY <1>1, <1>3, AllStates DEF Placed, SchemaStates, Query, Fragment
<1>5. q.s # "s_req_spaces_before_url" => q.field = Field(q.s)
  BY <1>1, <1>3 DEF Placed
<1> HIDE DEF more, L
<1>6. ASSUME NEW c, Colon(text, c) PROVE Colon(more, c) /\ c \in 1..L
  <2>1. c \in 1..L /\ \A i \in 1..c - 1 : i \in 1..L
    BY <1>1, <1>6 DEF Colon, L
  <2> QED BY <1>1, <1>2, <1>6, <2>1 DEF Colon
<1>7. r.s = "s_req_schema" => \A i \in 1..Len(more) : more[i] # ":"
  <2>1. SUFFICES ASSUME r.s = "s_req_schema", NEW i \in 1..L + 1 PROVE more[i] # ":"
    BY <1>2
  <2>2. b = "a" /\ q.s \in {"s_req_spaces_before_url", "s_req_schema"}
    BY <1>3, <2>1 DEF From
  <2>3. CASE i = L + 1
    BY <1>2, <2>2, <2>3
  <2>4. CASE i \in 1..L
    <3>1. q.s = "s_req_schema"
      BY <1>4, <2>2, <2>4
    <3>2. text[i] # ":"
      BY <2>4, <3>1 DEF PortPlaced, L
    <3> QED BY <1>2, <2>4, <3>2
  <2> QED BY <1>1, <2>3, <2>4
<1>8. r.s = "s_req_schema_slash" => Colon(more, Len(more))
  <2>1. SUFFICES ASSUME r.s = "s_req_schema_slash" PROVE Colon(more, L + 1)
    BY <1>2
  <2>2. b = ":" /\ q.s = "s_req_schema"
    BY <1>3, <2>1 DEF From
  <2>3. \A i \in 1..L : text[i] # ":"
    BY <2>2 DEF PortPlaced, L
  <2>4. L + 1 \in 1..L + 1 /\ (L + 1) - 1 = L
    BY <1>1
  <2> QED BY <1>2, <2>2, <2>3, <2>4 DEF Colon
<1>9. r.s = "s_req_schema_slash_slash" => Colon(more, Len(more) - 1)
  <2>1. SUFFICES ASSUME r.s = "s_req_schema_slash_slash" PROVE Colon(more, L)
    BY <1>1, <1>2
  <2>2. q.s = "s_req_schema_slash"
    BY <1>3, <2>1 DEF From
  <2>3. Colon(text, L)
    BY <2>2 DEF PortPlaced, L
  <2> QED BY <1>6, <2>3
<1>10. r.s = "s_req_host" => \E c : HostAt(more, c)
  <2>1. SUFFICES ASSUME r.s = "s_req_host" PROVE \E c : HostAt(more, c)
    OBVIOUS
  <2>2. CASE q.s = "s_req_schema_slash_slash"
    <3>1. Colon(text, L - 1)
      BY <2>2 DEF PortPlaced, L
    <3>2. Colon(more, L - 1)
      BY <1>6, <3>1
    <3>3. (L - 1) + 2 <= Len(more) /\ Clear(more, (L - 1) + 3, Len(more))
      BY <1>1, <1>2 DEF Clear
    <3> QED BY <3>2, <3>3 DEF HostAt
  <2>3. CASE q.s = "s_req_host"
    <3>1. PICK c : HostAt(text, c)
      BY <2>3 DEF PortPlaced
    <3>2. Colon(more, c) /\ c \in 1..L /\ c + 2 <= L /\ Clear(text, c + 3, L)
      BY <1>6, <3>1 DEF HostAt, L
    <3>3. b \notin {"/", "?"}
      BY <1>3, <2>1, <2>3 DEF From, HostChars, Alpha, Num
    <3>4. Clear(more, c + 3, L + 1)
      <4>1. \A m \in c + 3..L + 1 : m = L + 1 \/ (m \in c + 3..L /\ m \in 1..L)
        BY <1>1, <3>2
      <4> QED BY <1>2, <3>2, <3>3, <4>1 DEF Clear
    <3>5. c + 2 <= L + 1
      BY <1>1, <3>2
    <3>6. HostAt(more, c)
      BY <1>2, <3>2, <3>4, <3>5 DEF HostAt
    <3> QED BY <3>6
  <2> QED BY <1>3, <2>1, <2>2, <2>3 DEF From
<1>11. "PORT" \in r.info.set => \E c : PortAt(more, c, Off(r, "PORT"))
  <2>1. SUFFICES ASSUME "PORT" \in r.info.set PROVE \E c : PortAt(more, c, Off(r, "PORT"))
    OBVIOUS
  <2>2. CASE f = "PORT" /\ f # q.field
    <3>1. r.s = "s_req_port"
      BY <1>3, <2>2 DEF Field, From
    <3>2. q.s # "s_req_port"
      BY <1>5, <2>2 DEF Field, SchemaStates
    <3>3. b = ":" /\ q.s = "s_req_host"
      BY <1>3, <3>1, <3>2 DEF From
    <3>4. PICK c : HostAt(text, c)
      BY <3>3 DEF PortPlaced
    <3>5. Colon(more, c) /\ c \in 1..L /\ c + 2 <= L /\ Clear(text, c + 3, L)
      BY <1>6, <3>4 DEF HostAt, L
    <3>6. Off(r, "PORT") = L + 1
      BY <1>1, <2>2 DEF Delimiter
    <3>7. Clear(more, c + 3, (L + 1) - 1)
      <4>1. \A m \in c + 3..(L + 1) - 1 : m \in c + 3..L /\ m \in 1..L
        BY <1>1, <3>5
      <4> QED BY <1>2, <3>5, <4>1 DEF Clear
    <3>8. L + 1 \in Nat /\ c + 2 < L + 1
      BY <1>1, <3>5
    <3>9. PortAt(more, c, L + 1)
      BY <1>1, <1>2, <3>3, <3>5, <3>7, <3>8 DEF PortAt
    <3> QED BY <3>6, <3>9
  <2>3. CASE ~(f = "PORT" /\ f # q.field)
    <3> DEFINE n == Off(q, "PORT")
    <3>1. "PORT" \in q.info.set /\ Off(r, "PORT") = n
      BY <1>1, <2>1, <2>3 DEF Fields
    <3>2. PICK c : PortAt(text, c, n)
      BY <3>1 DEF PortPlaced
    <3> HIDE DEF n
    <3>3. /\ Colon(more, c) /\ c \in 1..L
          /\ n \in Nat /\ c + 2 < n /\ n <= L /\ text[n] = ":" /\ Clear(text, c + 3, n - 1)
      BY <1>6, <3>2 DEF PortAt, L
    <3>4. n \in 1..L /\ n <= L + 1
      BY <1>1, <3>3
    <3>5. Clear(more, c + 3, n - 1)
      <4>1. \A m \in c + 3..n - 1 : m \in 1..L
        BY <1>1, <3>3
      <4> QED BY <1>2, <3>3, <4>1 DEF Clear
    <3>6. PortAt(more, c, n)
      BY <1>2, <3>3, <3>4, <3>5 DEF PortAt
    <3> QED BY <3>1, <3>6
  <2> QED BY <2>2, <2>3
<1> QED BY <1>7, <1>8, <1>9, <1>10, <1>11 DEF PortPlaced, more

-----------------------------------------------------------------------------
\* All that is known of a text that the loop takes.
Known(q, text) ==
  (~Dead(q) /\ Len(text) < OffsetSpan) =>
    /\ Fits(q, text)
    /\ QueryHolds(q, text) /\ PathHolds(q, text) /\ PortHolds(q, text)
    /\ Spelled(q, text) = text
    /\ PortPlaced(q, text)

\* All of this holds of any text.
LEMMA TextKnown ==
  ASSUME NEW u \in UrlInfo, NEW text \in Seq(Bytes)
  PROVE  Known(Parsed(text, u), text)
<1> DEFINE P == {t \in Seq(Bytes) : Known(Parsed(t, u), t)}
<1>1. P \in SUBSET Seq(Bytes) /\ \A t \in Seq(Bytes) : t \in P <=> Known(Parsed(t, u), t)
  OBVIOUS
<1> HIDE DEF P
<1>2. <<>> \in P
  <2> DEFINE e == <<>>
             q == Begin(u)
  <2>1. e \in Seq(Bytes) /\ Len(e) = 0
    OBVIOUS
  <2>2. q.info.set = {} /\ q.s = "s_req_spaces_before_url"
    BY BeginFacts DEF Begin
  <2>3. Parsed(e, u) = q
    BY ParsedFacts
  <2>4. Spelled(q, e) = e
    <3>1. \A g : Part(q, g, e) = <<>>
      <4> HIDE DEF q
      <4> QED BY <2>2 DEF Part
    <3>2. <<>> \o <<>> = <<>>
      OBVIOUS
    <3> HIDE DEF q
    <3>3. Spelled(q, e) = <<>> \o <<>> \o <<>> \o <<>> \o <<>> \o <<>>
      BY <3>1 DEF Spelled
    <3> QED BY <3>2, <3>3, Zenon
  <2> HIDE DEF q, e
  <2>5. Known(q, e)
    BY <2>1, <2>2, <2>4 DEF Known, Fits, QueryHolds, PathHolds, PortHolds, PortPlaced
  <2> QED BY <1>1, <2>1, <2>3, <2>5 DEF e
<1>3. ASSUME NEW t \in P, NEW b \in Bytes PROVE Append(t, b) \in P
  <2> DEFINE q == Parsed(t, u)
             more == Append(t, b)
             r == Byte(q, b)
             f == Field(r.s)
  <2>1. t \in Seq(Bytes) /\ Known(q, t)
    BY <1>1
  <2>2. more \in Seq(Bytes) /\ Len(more) = Len(t) + 1 /\ Len(t) \in Nat
    BY <2>1, Appended
  <2>3. q \in ParseState /\ Parsed(more, u) = r /\ AlivePlaced(q, t)
    BY <2>1, ParsedFacts, TextPlaced
  <2> HIDE DEF q, r, f, more
  <2>4. Known(r, more)
    <3>1. SUFFICES ASSUME ~Dead(r), Len(more) < OffsetSpan
                   PROVE  /\ Fits(r, more)
                          /\ QueryHolds(r, more) /\ PathHolds(r, more) /\ PortHolds(r, more)
                          /\ Spelled(r, more) = more
                          /\ PortPlaced(r, more)
      BY DEF Known
    <3>2. ~Dead(q)
      BY <2>3, <3>1, ByteFacts DEF r
    <3>3. Placed(q, t)
      BY <2>3, <3>2 DEF AlivePlaced
    <3>4. Next1(q, r, t, b, f)
      BY <2>1, <2>3, <3>1, <3>3, Stepped DEF r, f
    <3>5. Len(t) < OffsetSpan /\ Len(t) + 1 < OffsetSpan
      BY <2>2, <3>1, UrlAssumption
    <3>6. /\ Fits(q, t)
          /\ QueryHolds(q, t) /\ PathHolds(q, t) /\ PortHolds(q, t)
          /\ Spelled(q, t) = t
          /\ PortPlaced(q, t)
      BY <2>1, <3>2, <3>5 DEF Known
    <3>7. Grows(q, r, t, b, f)
      BY <2>1, <3>3, <3>4, <3>5, <3>6 DEF Grows
    <3>8. Fits(r, more)
      BY <3>7, FitsOn DEF more
    <3>9. QueryHolds(r, more) /\ PathHolds(r, more) /\ PortHolds(r, more)
      BY <3>6, <3>7, HoldsOn DEF more
    <3>10. Spelled(r, more) = more
      BY <3>6, <3>7, SpelledOn DEF more
    <3>11. PortPlaced(r, more)
      BY <3>6, <3>7, PortPlacedOn DEF more
    <3> QED BY <3>8, <3>9, <3>10, <3>11
  <2> QED BY <1>1, <2>2, <2>3, <2>4 DEF more
<1>4. P = Seq(Bytes)
  BY <1>1, <1>2, <1>3, TextInduction
<1> QED BY <1>1, <1>4

-----------------------------------------------------------------------------
(***************************************************************************)
(* The URL as it comes in.                                                 *)
(***************************************************************************)

\* The two readers are in the same state, unless the method is CONNECT.
ReadAlike == ~connect => scan = Parsed(url, NoInfo).s

\* info is what the URL alone makes it, wherever it was cut and whatever the
\* structure held.
Anew(i, q, text) ==
  /\ i.set = q.info.set
  /\ \A g \in i.set : i.data[g] = q.info.data[g]
  /\ i.port = IF "PORT" \in i.set THEN PortNumber(q, text) ELSE 0

\* The verdict is on_url's.
Judged ==
  /\ verdict = "complete" => /\ ~Refuses(Parsed(url, NoInfo), url)
                             /\ Anew(info, Parsed(url, NoInfo), url)
  /\ verdict = "refused" => Refuses(Parsed(url, NoInfo), url)

\* The inductive invariant.
UrlInv == UrlTypeOK /\ ReadAlike /\ Judged

\* An empty structure is one.
LEMMA NoInfoIn ==
  NoInfo \in UrlInfo
BY UrlAssumption, OffsetFacts DEF NoInfo, UrlInfo, Fields

\* The reader of http_parser_execute stays within the states that are no
\* error.
LEMMA ScanIn ==
  ASSUME NEW s \in States \ {"s_dead"}, NEW b, NEW c \in BOOLEAN, ParseUrlChar(s, b, c) # "s_dead"
  PROVE  ParseUrlChar(s, b, c) \in DOMAIN UrlMoves
<1>1. CASE s = "s_req_spaces_before_url"
  <2> DEFINE m == MovesOf(s, c)
  <2>1. ParseUrlChar(s, b, c) \in DOMAIN m
    BY Moved
  <2>2. m = FirstMoves(c)
    BY <1>1 DEF MovesOf
  <2> HIDE DEF m
  <2>3. DOMAIN m \in SUBSET {"s_req_path", "s_req_host", "s_req_schema"}
    BY <2>2 DEF FirstMoves
  <2> QED BY <2>1, <2>3, AllStates DEF SchemaStates
<1>2. CASE s # "s_req_spaces_before_url"
  <2>1. ParseUrlChar(s, b, c) = Char(s, b)
    BY <1>2 DEF ParseUrlChar, Char
  <2>2. From(s, b, Char(s, b))
    BY <2>1, CharIn
  <2> QED BY <2>1, <2>2, FieldRanks
<1> QED BY <1>1, <1>2

\* The invariant holds at the beginning.
LEMMA UrlInvInit ==
  UrlInit => UrlInv
<1>1. SUFFICES ASSUME UrlInit PROVE UrlInv
  OBVIOUS
<1>2. Earlier \in Seq(Bytes)
  BY DEF Earlier, Bytes, UrlChars, HostChars, Alpha, Num
<1>3. info \in UrlInfo
  BY <1>1, <1>2, NoInfoIn, ParseUrlIs DEF UrlInit, Filled
<1>4. url \in Seq(Bytes) /\ handed \in 0..Len(url)
  <2>1. url = <<>> /\ handed = 0
    BY <1>1 DEF UrlInit
  <2>2. Len(<<>>) = 0 /\ <<>> \in Seq(Bytes)
    OBVIOUS
  <2> QED BY <2>1, <2>2
<1>5. UrlTypeOK
  BY <1>1, <1>3, <1>4 DEF UrlInit, UrlTypeOK
<1>6. ReadAlike
  <2>1. Parsed(<<>>, NoInfo) = Begin(NoInfo)
    BY NoInfoIn, ParsedFacts
  <2> QED BY <1>1, <2>1 DEF UrlInit, ReadAlike, Begin
<1>7. Judged
  BY <1>1 DEF UrlInit, Judged
<1> QED BY <1>5, <1>6, <1>7 DEF UrlInv

\* The bytes that are offered are bytes.
LEMMA OfferedIn ==
  Offered \in SUBSET Bytes
BY DEF Offered, Bytes, UrlChars, HostChars, Alpha, Num

\* A byte keeps the invariant.
LEMMA UrlInvByte ==
  UrlInv /\ UrlByte => UrlInv'
<1>1. SUFFICES ASSUME UrlInv, UrlByte PROVE UrlInv'
  OBVIOUS
<1>2. PICK b \in Offered : /\ ParseUrlChar(scan, b, connect) # "s_dead"
                           /\ url' = Append(url, b)
                           /\ scan' = ParseUrlChar(scan, b, connect)
  BY <1>1 DEF UrlByte
<1>3. /\ connect' = connect /\ handed' = handed /\ info' = info /\ verdict' = verdict
      /\ verdict = "reading"
  BY <1>1 DEF UrlByte
<1>4. /\ connect \in BOOLEAN /\ scan \in DOMAIN UrlMoves \union {"s_req_spaces_before_url"}
      /\ url \in Seq(Bytes) /\ handed \in 0..Len(url) /\ info \in UrlInfo
  BY <1>1 DEF UrlInv, UrlTypeOK
<1>5. b \in Bytes
  BY <1>2, OfferedIn
<1>6. scan \in States \ {"s_dead"}
  BY <1>4, AllStates DEF States, SchemaStates, Query, Fragment
<1>7. scan' \in DOMAIN UrlMoves
  BY <1>2, <1>4, <1>6, ScanIn
<1>8. url' \in Seq(Bytes) /\ handed' \in 0..Len(url')
  BY <1>2, <1>3, <1>4, <1>5, Appended
<1>9. UrlTypeOK'
  BY <1>3, <1>4, <1>7, <1>8 DEF UrlTypeOK
<1>10. ReadAlike'
  <2>1. SUFFICES ASSUME ~connect PROVE scan' = Parsed(url', NoInfo).s
    BY <1>3 DEF ReadAlike
  <2> DEFINE q == Parsed(url, NoInfo)
  <2>2. scan = q.s
    BY <1>1, <2>1 DEF UrlInv, ReadAlike
  <2>3. q \in ParseState /\ Parsed(url', NoInfo) = Byte(q, b)
    BY <1>2, <1>4, <1>5, NoInfoIn, ParsedFacts
  <2>4. connect = FALSE
    BY <1>4, <2>1
  <2>5. scan' = Char(scan, b)
    BY <1>2, <2>4 DEF Char
  <2> HIDE DEF q
  <2>6. ~Dead(q)
    BY <1>6, <2>2 DEF Dead
  <2> QED BY <2>2, <2>3, <2>5, <2>6, ByteFacts
<1>11. Judged'
  BY <1>3 DEF Judged
<1> QED BY <1>9, <1>10, <1>11 DEF UrlInv

\* What on_url leaves is what it would leave of a structure that was empty.
LEMMA UrlTaken ==
  ASSUME NEW text \in Seq(Bytes), NEW u \in UrlInfo
  PROVE  /\ ParseUrl(text, FALSE, u).info \in UrlInfo
         /\ ParseUrl(text, FALSE, u).refused <=> Refuses(Parsed(text, NoInfo), text)
         /\ ~ParseUrl(text, FALSE, u).refused => Anew(ParseUrl(text, FALSE, u).info, Parsed(text, NoInfo), text)
<1> DEFINE q == Parsed(text, NoInfo)
           r == Parsed(text, u)
           p == ParseUrl(text, FALSE, u)
<1>1. (p.refused <=> Refuses(r, text)) /\ Filled(p.info, r, text)
  BY ParseUrlIs
<1>2. Same(q, r) /\ Same(r, q)
  BY NoInfoIn, TextSame
<1>3. AlivePlaced(r, text) /\ r \in ParseState
  BY TextPlaced, ParsedFacts
<1> HIDE DEF q, r, p
<1>4. Refuses(q, text) <=> Refuses(r, text)
  BY <1>2, SameRefuses
<1>5. ASSUME ~Refuses(r, text) PROVE Anew(p.info, q, text)
  <2>1. ~Dead(r) /\ ~Dead(q)
    BY <1>2, <1>5 DEF Refuses, Same, Dead
  <2>2. r.info.port = 0
    BY <1>3, <2>1 DEF AlivePlaced, Placed
  <2>3. q.info.set = r.info.set /\ \A g \in r.info.set : q.info.data[g] = r.info.data[g]
    BY <1>2, <2>1 DEF Same
  <2>4. p.info.set = q.info.set /\ \A g \in p.info.set : p.info.data[g] = q.info.data[g]
    BY <1>1, <2>3 DEF Filled
  <2>5. "PORT" \in r.info.set => PortNumber(q, text) = PortNumber(r, text)
    BY <2>3 DEF PortNumber
  <2>6. p.info.port = IF "PORT" \in p.info.set THEN PortNumber(q, text) ELSE 0
    BY <1>1, <1>5, <2>2, <2>3, <2>5 DEF Filled
  <2> QED BY <2>4, <2>6 DEF Anew
<1>6. p.info \in UrlInfo
  BY <1>1 DEF Filled
<1> QED BY <1>1, <1>4, <1>5, <1>6 DEF p, q

\* A call of on_url keeps it, by what it leaves.
LEMMA UrlInvOn ==
  ASSUME UrlInv, NEW after \in {"reading", "complete"}, OnUrl(after)
  PROVE  UrlInv'
<1> DEFINE p == ParseUrl(url, FALSE, info)
           q == Parsed(url, NoInfo)
<1>1. /\ handed' = Len(url) /\ info' = p.info
      /\ verdict' = IF p.refused THEN "refused" ELSE after
      /\ connect' = connect /\ scan' = scan /\ url' = url
  BY DEF OnUrl
<1>2. UrlTypeOK /\ ReadAlike
  BY DEF UrlInv
<1>3. url \in Seq(Bytes) /\ info \in UrlInfo
  BY <1>2 DEF UrlTypeOK
<1>4. p.info \in UrlInfo /\ (p.refused <=> Refuses(q, url)) /\ (~p.refused => Anew(p.info, q, url))
  BY <1>3, UrlTaken
<1> HIDE DEF p
<1>5. UrlTypeOK'
  <2>1. Len(url) \in 0..Len(url)
    BY <1>3, LenProperties
  <2>2. verdict' \in {"reading", "complete", "refused"}
    BY <1>1
  <2> QED BY <1>1, <1>2, <1>4, <2>1, <2>2 DEF UrlTypeOK
<1>6. ReadAlike'
  BY <1>1, <1>2 DEF ReadAlike
<1>7. Judged'
  <2>1. verdict' = "complete" => ~p.refused
    BY <1>1
  <2>2. verdict' = "refused" => p.refused
    BY <1>1
  <2>3. Parsed(url', NoInfo) = q
    BY <1>1
  <2> HIDE DEF q
  <2> QED BY <1>1, <1>4, <2>1, <2>2, <2>3 DEF Judged
<1> QED BY <1>5, <1>6, <1>7 DEF UrlInv

\* So every step keeps it.
LEMMA UrlInvNext ==
  UrlInv /\ [UrlNext]_urlVars => UrlInv'
<1>1. SUFFICES ASSUME UrlInv, [UrlNext]_urlVars PROVE UrlInv'
  OBVIOUS
<1>2. CASE UrlByte
  BY <1>1, <1>2, UrlInvByte
<1>3. CASE UrlInvalid
  <2>1. /\ connect' = connect /\ scan' = scan /\ url' = url /\ handed' = handed /\ info' = info
        /\ verdict' = "invalid"
    BY <1>3 DEF UrlInvalid
  <2> QED BY <1>1, <2>1 DEF UrlInv, UrlTypeOK, ReadAlike, Judged
<1>4. CASE UrlCut
  <2>1. OnUrl("reading")
    BY <1>4 DEF UrlCut
  <2> QED BY <1>1, <2>1, UrlInvOn
<1>5. CASE UrlEnds
  <2>1. OnUrl("complete")
    BY <1>5 DEF UrlEnds
  <2> QED BY <1>1, <2>1, UrlInvOn
<1>6. CASE UNCHANGED urlVars
  BY <1>1, <1>6 DEF UrlInv, UrlTypeOK, ReadAlike, Judged, urlVars
<1> QED BY <1>1, <1>2, <1>3, <1>4, <1>5, <1>6 DEF UrlNext

\* UrlInv is an invariant, whatever the sizes and the length of a URL.
THEOREM UrlInvariant == UrlSpec => []UrlInv
<1> QED BY UrlInvInit, UrlInvNext, PTL DEF UrlSpec

\* No state, offset, length or port leaves its C type's range, in
\* http_parser_execute and in on_url.
THEOREM UrlTypeCorrect == UrlSpec => []UrlTypeOK
<1>1. UrlInv => UrlTypeOK
  BY DEF UrlInv
<1> QED BY <1>1, UrlInvariant, PTL

\* on_url takes every piece of a URL that it takes as a whole, wherever
\* http_parser_execute's buffers end: nothing in a front is an error, and
\* its port is a front of the whole one's digits.
THEOREM CutsCorrect == UrlSpec => []CutsDoNotMatter
<1>1. UrlInv => CutsDoNotMatter
  <2>1. SUFFICES ASSUME UrlInv, verdict = "complete", NEW n \in 1..Len(url)
                 PROVE  ~ParseUrl(Prefix(n), FALSE, NoInfo).refused
    BY DEF CutsDoNotMatter
  <2> DEFINE front == SubSeq(url, 1, n)
             p == Parsed(front, NoInfo)
             q == Parsed(url, NoInfo)
  <2>2. url \in Seq(Bytes) /\ ~Refuses(q, url)
    BY <2>1 DEF UrlInv, UrlTypeOK, Judged
  <2>3. n \in 0..Len(url)
    BY <2>2, LenProperties
  <2>4. Keeps(p, q, front, url)
    BY <2>2, <2>3, NoInfoIn, TextKeeps DEF KeepsAll
  <2>5. front \in Seq(Bytes)
    BY <2>2, <2>3, Fronts
  <2>6. p \in ParseState /\ q \in ParseState
    BY <2>2, <2>5, NoInfoIn, ParsedFacts
  <2>7. ParseUrl(front, FALSE, NoInfo).refused <=> Refuses(p, front)
    BY <2>5, NoInfoIn, ParseUrlIs
  <2>8. Prefix(n) = front
    BY DEF Prefix
  <2> HIDE DEF p, q, front
  <2>9. PortNumber(p, front) \in Nat /\ PortNumber(q, url) \in Nat
    BY <2>2, <2>5, <2>6, PortTyped
  <2>10. ~Refuses(p, front)
    BY <2>2, <2>4, <2>9, UrlAssumption DEF Keeps, Refuses
  <2> QED BY <2>7, <2>8, <2>10
<1> QED BY <1>1, UrlInvariant, PTL

\* SelectInSeq finds the first colon.
LEMMA FirstColon ==
  ASSUME NEW text \in Seq(Bytes), NEW c, Colon(text, c)
  PROVE  SelectInSeq(text, LAMBDA b : b = ":") = c
<1> DEFINE I == {i \in 1..Len(text) : text[i] = ":"}
<1>1. SelectInSeq(text, LAMBDA b : b = ":") = IF I # {} THEN Min(I) ELSE 0
  BY DEF SelectInSeq
<1>2. Len(text) \in Nat /\ c \in 1..Len(text)
  BY LenProperties DEF Colon
<1>3. c \in I /\ \A i \in I : c <= i
  <2>1. ASSUME NEW i \in I, i < c PROVE FALSE
    <3>1. i \in 1..c - 1
      BY <1>2, <2>1
    <3> QED BY <2>1, <3>1 DEF Colon
  <2> QED BY <1>2, <2>1 DEF Colon
<1>4. Min(I) \in I /\ \A i \in I : Min(I) <= i
  <2> HIDE DEF I
  <2>1. \E m \in I : \A i \in I : m <= i
    BY <1>3
  <2> QED BY <2>1, Zenon DEF Min
<1>5. Min(I) = c
  <2>1. Min(I) \in Int /\ c \in Int /\ c <= Min(I) /\ Min(I) <= c
    BY <1>2, <1>3, <1>4
  <2> HIDE DEF I
  <2> QED BY <2>1
<1> QED BY <1>1, <1>3, <1>5

\* on_url refuses a URL that http_parser_execute took only for CONNECT or
\* for a port that is too large: without CONNECT both read it in the same
\* states.
THEOREM RefusalCorrect == UrlSpec => []OnlyConnectRefused
<1>1. UrlInv => OnlyConnectRefused
  <2>1. SUFFICES ASSUME UrlInv, verdict = "refused", Len(url) < OffsetSpan, ~connect
                 PROVE  \E n \in 1..Len(url) : PortFollows(n) /\ NumberAt(url, n) > MaxPort
    BY DEF OnlyConnectRefused
  <2> DEFINE q == Parsed(url, NoInfo)
  <2>2. url \in Seq(Bytes) /\ Refuses(q, url) /\ scan = q.s
    BY <2>1 DEF UrlInv, UrlTypeOK, Judged, ReadAlike
  <2>3. scan # "s_dead"
    BY <2>1, AllStates DEF UrlInv, UrlTypeOK, SchemaStates, Query, Fragment
  <2>4. Known(q, url)
    BY <2>2, NoInfoIn, TextKnown
  <2> HIDE DEF q
  <2>5. ~Dead(q)
    BY <2>2, <2>3 DEF Dead
  <2>6. "PORT" \in q.info.set /\ NumberAt(url, Off(q, "PORT")) > MaxPort
    BY <2>2, <2>5 DEF Refuses, PortNumber, Off
  <2>7. PICK c : PortAt(url, c, Off(q, "PORT"))
    BY <2>1, <2>4, <2>5, <2>6 DEF Known, PortPlaced
  <2> DEFINE n == Off(q, "PORT")
  <2>8. /\ Colon(url, c) /\ n \in Nat /\ c + 2 < n /\ n <= Len(url) /\ url[n] = ":"
        /\ Clear(url, c + 3, n - 1)
    BY <2>7 DEF PortAt
  <2>9. Len(url) \in Nat /\ c \in 1..Len(url)
    BY <2>2, <2>8, LenProperties DEF Colon
  <2> HIDE DEF n
  <2>10. SelectInSeq(url, LAMBDA b : b = ":") = c
    BY <2>2, <2>8, FirstColon
  <2>11. n \in 1..Len(url) /\ 0 < c
    BY <2>8, <2>9
  <2>12. PortFollows(n)
    BY <2>8, <2>10, <2>11 DEF PortFollows, Clear
  <2> QED BY <2>6, <2>11, <2>12 DEF n
<1> QED BY <1>1, UrlInvariant, PTL

\* The parts in parsed_url_info make up the URL, for every URL that is
\* shorter than its offsets reach, wherever it was cut and whatever the
\* structure held before.
THEOREM PartsCorrect == UrlSpec => []PartsMakeUp
<1>1. UrlInv => PartsMakeUp
  <2>1. SUFFICES ASSUME UrlInv, verdict = "complete", Len(url) < OffsetSpan
                 PROVE  PartsMakeUp
    BY DEF PartsMakeUp
  <2> DEFINE q == Parsed(url, NoInfo)
  <2>2. url \in Seq(Bytes) /\ info \in UrlInfo /\ ~Refuses(q, url) /\ Anew(info, q, url)
    BY <2>1 DEF UrlInv, UrlTypeOK, Judged
  <2>3. Known(q, url) /\ q \in ParseState
    BY <2>2, NoInfoIn, TextKnown, ParsedFacts
  <2> HIDE DEF q
  <2>4. /\ Fits(q, url)
        /\ QueryHolds(q, url) /\ PathHolds(q, url) /\ PortHolds(q, url)
        /\ Spelled(q, url) = url
    BY <2>1, <2>2, <2>3 DEF Known, Refuses
  <2>5. info.set = q.info.set /\ info.set \in SUBSET Fields
    BY <2>2 DEF Anew, UrlInfo
  <2>6. ASSUME NEW g \in info.set
        PROVE  /\ info.data[g].off = Off(q, g) /\ info.data[g].len = Length(q, g)
               /\ Off(q, g) \in Nat /\ Length(q, g) \in Nat
               /\ Off(q, g) + Length(q, g) <= Len(url)
    <3>1. info.data[g] = q.info.data[g]
      BY <2>2, <2>6 DEF Anew
    <3>2. q.info.data[g] \in [off : Offsets, len : Offsets]
      BY <2>3, <2>5, <2>6 DEF ParseState, UrlInfo
    <3>3. Off(q, g) \in Nat /\ Length(q, g) \in Nat
      BY <3>2 DEF Off, Length, Offsets
    <3>4. Off(q, g) + Length(q, g) <= Len(url)
      BY <2>4, <2>5, <2>6 DEF Fits
    <3> QED BY <3>1, <3>3, <3>4 DEF Off, Length
  <2>7. ASSUME NEW g \in info.set
        PROVE  /\ Piece(g) = SubSeq(url, Off(q, g) + 1, Off(q, g) + Length(q, g))
               /\ Piece(g) \in Seq(Bytes) /\ Len(Piece(g)) = Length(q, g)
               /\ \A i \in 1..Length(q, g) : /\ Piece(g)[i] = url[Off(q, g) + i]
                                             /\ Off(q, g) + i \in Span(q, g)
    <3> DEFINE o == Off(q, g)
               n == Length(q, g)
               s == SubSeq(url, o + 1, o + n)
    <3>1. o \in Nat /\ n \in Nat /\ o + n <= Len(url)
      BY <2>6
    <3>2. s \in Seq(Bytes) /\ Len(s) = n /\ \A i \in 1..n : s[i] = url[o + i]
      BY <2>2, <3>1, Subs
    <3>3. Piece(g) = s
      BY <2>6 DEF Piece
    <3>4. \A i \in 1..n : o + i \in o + 1..o + n
      BY <3>1
    <3>5. Span(q, g) = o + 1..o + n
      BY DEF Span
    <3> HIDE DEF o, n, s
    <3>6. /\ Piece(g) = s
          /\ Piece(g) \in Seq(Bytes) /\ Len(Piece(g)) = n
          /\ \A i \in 1..n : Piece(g)[i] = url[o + i] /\ o + i \in Span(q, g)
      BY <3>2, <3>3, <3>4, <3>5
    <3> QED BY <3>6 DEF o, n, s
  <2>8. \A f \in info.set : info.data[f].off + info.data[f].len <= Len(url)
    BY <2>6
  <2>9. url = Delimited("SCHEMA") \o Delimited("HOST") \o Delimited("PORT")
               \o Delimited("PATH") \o Delimited("QUERY") \o Delimited("FRAGMENT")
    <3>1. ASSUME NEW g PROVE Delimited(g) = Part(q, g, url)
      BY <2>5, <2>7 DEF Delimited, Part
    <3> QED BY <2>4, <3>1 DEF Spelled
  <2>10. "QUERY" \in info.set => ~Contains(Piece("QUERY"), "#")
    <3>1. SUFFICES ASSUME "QUERY" \in info.set, NEW i \in 1..Len(Piece("QUERY"))
                   PROVE  Piece("QUERY")[i] # "#"
      BY DEF Contains
    <3>2. \A j \in Span(q, "QUERY") : url[j] # "#"
      BY <2>4, <2>5, <3>1 DEF QueryHolds
    <3> QED BY <2>7, <3>1, <3>2
  <2>11. "PATH" \in info.set => /\ Head(Piece("PATH")) \in {"/", "*"}
                                /\ ~Contains(Piece("PATH"), "?")
    <3>1. SUFFICES ASSUME "PATH" \in info.set
                   PROVE  Head(Piece("PATH")) \in {"/", "*"} /\ ~Contains(Piece("PATH"), "?")
      OBVIOUS
    <3> DEFINE s == Piece("PATH")
               o == Off(q, "PATH")
               n == Length(q, "PATH")
    <3>2. n > 0 /\ url[o + 1] \in {"/", "*"} /\ \A i \in Span(q, "PATH") : url[i] # "?"
      BY <2>4, <2>5, <3>1 DEF PathHolds
    <3>3. /\ s \in Seq(Bytes) /\ Len(s) = n
          /\ \A i \in 1..n : s[i] = url[o + i] /\ o + i \in Span(q, "PATH")
      BY <2>7, <3>1
    <3>4. n \in Nat /\ 1 \in 1..n
      BY <2>6, <3>1, <3>2
    <3> HIDE DEF s, o, n
    <3>5. Head(s) = s[1]
      BY <3>3, <3>4
    <3>6. ~Contains(s, "?")
      BY <3>2, <3>3 DEF Contains
    <3> QED BY <3>2, <3>3, <3>4, <3>5, <3>6 DEF s
  <2>12. info.port = IF "PORT" \in info.set THEN NumberAt(Piece("PORT"), 0) ELSE 0
    <3>1. CASE "PORT" \notin info.set
      BY <2>2, <3>1 DEF Anew
    <3>2. CASE "PORT" \in info.set
      <4> DEFINE s == Piece("PORT")
                 o == Off(q, "PORT")
                 n == Length(q, "PORT")
      <4>1. info.port = NumberAt(url, o)
        BY <2>2, <3>2 DEF Anew, PortNumber, Off
      <4>2. IsRun(url, o, n)
        BY <2>4, <2>5, <3>2 DEF PortHolds
      <4>3. o \in Nat /\ n \in Nat
        BY <2>6, <3>2
      <4>4. /\ s = SubSeq(url, o + 1, o + n) /\ s \in Seq(Bytes) /\ Len(s) = n
            /\ \A i \in 1..n : s[i] = url[o + i]
        BY <2>7, <3>2
      <4> HIDE DEF s, o, n
      <4>5. NumberAt(url, o) = Digits(s)
        BY <2>2, <4>2, <4>3, <4>4, NumberIs
      <4>6. IsRun(s, 0, n)
        <5>1. \A i \in 0 + 1..0 + n : i \in 1..n /\ o + i \in o + 1..o + n
          BY <4>3
        <5>2. ~(0 + n < Len(s)) /\ 0 + n <= Len(s)
          BY <4>3, <4>4
        <5> QED BY <4>2, <4>3, <4>4, <5>1, <5>2 DEF IsRun
      <4>7. SubSeq(s, 0 + 1, 0 + n) = s
        <5>1. 0 + 1 = 1 /\ 0 + n = Len(s)
          BY <4>3, <4>4
        <5> QED BY <4>4, <5>1, SubSeqFull
      <4>8. NumberAt(s, 0) = Digits(SubSeq(s, 0 + 1, 0 + n))
        <5>1. 0 \in Nat
          OBVIOUS
        <5> QED BY <4>4, <4>6, <5>1, NumberIs
      <4> QED BY <3>2, <4>1, <4>5, <4>7, <4>8 DEF s
    <3> QED BY <3>1, <3>2
  <2> QED BY <2>8, <2>9, <2>10, <2>11, <2>12 DEF PartsMakeUp
<1> QED BY <1>1, UrlInvariant, PTL
=============================================================================

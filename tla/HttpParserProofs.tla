-------------------------- MODULE HttpParserProofs --------------------------
(***************************************************************************)
(* Proofs about HttpParser, for headers, bodies and texts of any length,   *)
(* numbers of any width and any way to cut the input into buffers: its     *)
(* invariants, and that it implements HttpMessage.                         *)
(***************************************************************************)
EXTENDS HttpParser, FiniteSetTheorems, SequenceTheorems, TLAPS

-----------------------------------------------------------------------------
(***************************************************************************)
(* The invariant.                                                          *)
(***************************************************************************)

\* The text that may have a mark is that of the state.
MarkedIn(s, D) ==
  \A k \in D : \/ k = "header_field" /\ s = "s_header_field"
               \/ k = "header_value" /\ s = "s_header_value"
               \/ k = "url" /\ s \in {"s_req_schema", "s_req_path"}
               \/ k = "body" /\ s \in {"s_chunk_data", "s_chunk_data_almost_done",
                                       "s_body_identity"}

\* What the assertions rest on, of a parser q with marks D.
Asserted(q, D) ==
  /\ MarkedIn(q.state, D)
  /\ q.state = "s_chunk_size_start" => q.nread = 0
  /\ q.state \in ChunkHeadStates \union ChunkDataStates => "CHUNKED" \in q.flags
  /\ q.state \in ChunkHeadStates \ {"s_chunk_size_start"} => q.length # MaxLength
  /\ q.state \in {"s_body_identity", "s_chunk_data"} => q.length \notin {0, MaxLength}
  /\ q.state = "s_chunk_data_almost_done" => q.length = 0

\* Only the last line may miss its value, and last_was_value tells.
Paired(r) ==
  /\ \A i \in 1..Len(r.lines) - 1 : r.lines[i].valued
  /\ r.wasValue /\ r.lines # <<>> => r.lines[Len(r.lines)].valued
  /\ ~r.wasValue => r.lines # <<>>

\* After a header's name its line is there.
Named == {"s_header_value_start", "s_header_value", "s_header_value_lws",
          "s_header_almost_done"}

Lined(q, r, D) ==
  /\ q.state \in Named => r.lines # <<>>
  /\ q.state = "s_header_field" => r.lines # <<>> \/ D # {}

MarksOK(m) == DOMAIN m \subseteq Texts /\ \A k \in DOMAIN m : m[k] \in Nat

Core ==
  /\ at \in {"idle", "fresh", "reading"}
  /\ parser \in Parser
  /\ at # "idle" => parser.errno = "OK"
  /\ MarksOK(marks)
  /\ request \in Request
  /\ given \in Request
  /\ read \in Nat
  /\ Asserted(parser, DOMAIN marks)
  /\ Paired(request)
  /\ Lined(parser, request, DOMAIN marks)

\* A length is being read, as LengthSound says.
InNumber(q) ==
  /\ q.errno = "OK"
  /\ \/ q.state = "s_header_value" /\ q.header_state = "content_length"
     \/ q.state \in ChunkHeadStates \ {"s_chunk_size_start"}

\* The step leaves the length that is read alone.
QuietTo(q) == InNumber(q) => InNumber(parser) /\ q.length = parser.length
Quiet == QuietTo(parser') /\ parser'.errno # "CONTENT_LENGTH"

Counts == spelled \in 0..LengthSpan /\ due \in Nat

-----------------------------------------------------------------------------
(***************************************************************************)
(* The data callbacks.                                                     *)
(***************************************************************************)

LEMMA Appended ==
  ASSUME NEW s \in Seq(Line), NEW e \in Line
  PROVE  /\ Append(s, e) \in Seq(Line)
         /\ Len(Append(s, e)) = Len(s) + 1
         /\ Append(s, e)[Len(s) + 1] = e
         /\ \A i \in 1..Len(s) : Append(s, e)[i] = s[i]
         /\ Append(s, e) # <<>>
OBVIOUS

LEMMA LineGrows ==
  ASSUME NEW x \in Line, NEW n \in Nat
  PROVE  /\ [x EXCEPT !.field = x.field + n] \in Line
         /\ [x EXCEPT !.value = x.value + n] \in Line
BY DEF Line

\* What a piece of a text does to a request.
LEMMA Receiving ==
  ASSUME NEW r \in Request, Paired(r), NEW text \in Texts, NEW n \in Nat,
         text = "header_value" => r.lines # <<>>
  PROVE  /\ Received(r, text, n) \in Request
         /\ Paired(Received(r, text, n))
         /\ text = "header_field" \/ r.lines # <<>> => Received(r, text, n).lines # <<>>
<1> DEFINE v == Received(r, text, n)
           L == Len(r.lines)
<1>1. /\ r.url \in Nat /\ r.body \in Nat /\ r.wasValue \in BOOLEAN /\ r.lines \in Seq(Line)
      /\ L \in Nat
      /\ r = [url |-> r.url, lines |-> r.lines, wasValue |-> r.wasValue, body |-> r.body]
      /\ r.lines # <<>> => L \in 1..L /\ r.lines[L] \in Line
  BY DEF Request
<1>2. CASE text = "url"
  <2>1. v = [url |-> r.url + n, lines |-> r.lines, wasValue |-> r.wasValue, body |-> r.body]
    BY <1>1, <1>2 DEF Received
  <2> QED BY <1>1, <1>2, <2>1 DEF Request, Paired
<1>3. CASE text = "body"
  <2>1. v = [url |-> r.url, lines |-> r.lines, wasValue |-> r.wasValue, body |-> r.body + n]
    BY <1>1, <1>3 DEF Received
  <2> QED BY <1>1, <1>3, <2>1 DEF Request, Paired
<1>4. CASE text = "header_field" /\ NewLine(r)
  <2> DEFINE e == [field |-> n, value |-> 0, valued |-> FALSE]
             s == Append(r.lines, e)
  <2>1. v = [url |-> r.url, lines |-> s, wasValue |-> FALSE, body |-> r.body]
    BY <1>1, <1>4 DEF Received
  <2>2. e \in Line
    BY DEF Line
  <2> HIDE DEF e
  <2>3. /\ s \in Seq(Line) /\ Len(s) = L + 1 /\ s # <<>>
        /\ \A i \in 1..L : s[i] = r.lines[i]
    BY <1>1, <2>2, Appended
  <2>4. \A i \in 1..L : r.lines[i].valued
    BY <1>1, <1>4 DEF Paired, NewLine
  <2> HIDE DEF s
  <2> QED BY <1>1, <2>1, <2>3, <2>4 DEF Request, Paired
<1>5. CASE text = "header_field" /\ ~NewLine(r)
  <2> DEFINE e == [r.lines[L] EXCEPT !.field = r.lines[L].field + n]
             s == [r.lines EXCEPT ![L] = e]
  <2>1. v = [url |-> r.url, lines |-> s, wasValue |-> FALSE, body |-> r.body]
    BY <1>1, <1>5 DEF Received
  <2>2. r.lines # <<>>
    BY <1>5 DEF Paired, NewLine
  <2>3. e \in Line
    <3>1. r.lines[L] \in Line
      BY <1>1, <2>2
    <3> HIDE DEF L
    <3> QED BY <3>1, LineGrows
  <2> HIDE DEF e
  <2>4. /\ s \in Seq(Line) /\ Len(s) = L
        /\ \A i \in 1..L : s[i] = IF i = L THEN e ELSE r.lines[i]
    BY <1>1, <2>2, <2>3, ExceptSeq
  <2> HIDE DEF s
  <2>5. s # <<>>
    BY <1>1, <2>2, <2>4
  <2>6. \A i \in 1..Len(s) - 1 : s[i].valued
    BY <1>1, <2>4 DEF Paired
  <2> QED BY <1>1, <2>1, <2>4, <2>5, <2>6 DEF Request, Paired
<1>6. CASE text = "header_value"
  <2> DEFINE w == [r.lines[L] EXCEPT !.value = r.lines[L].value + n]
             e == [w EXCEPT !.valued = TRUE]
             s == [r.lines EXCEPT ![L] = e]
  <2>1. e \in Line /\ e.valued
    <3>1. w \in Line
      <4>1. r.lines[L] \in Line
        BY <1>1, <1>6
      <4> HIDE DEF L
      <4> QED BY <4>1, LineGrows
    <3> HIDE DEF w
    <3> QED BY <3>1 DEF Line
  <2>2. v = [url |-> r.url, lines |-> s, wasValue |-> TRUE, body |-> r.body]
    <3>1. v = [r EXCEPT !.lines[Len(r.lines)].value = @ + n,
                        !.lines[Len(r.lines)].valued = TRUE,
                        !.wasValue = TRUE]
      BY <1>6 DEF Received
    <3>2. v.lines = [[r.lines EXCEPT ![L] = w]
                       EXCEPT ![L] = [[r.lines EXCEPT ![L] = w][L] EXCEPT !.valued = TRUE]]
      BY <1>1, <3>1
    <3>3. v.lines = s
      <4>1. [r.lines EXCEPT ![L] = w][L] = w
        BY <1>1, <1>6
      <4> HIDE DEF w
      <4> QED BY <1>1, <1>6, <3>2, <4>1
    <3>4. v = [url |-> r.url, lines |-> v.lines, wasValue |-> TRUE, body |-> r.body]
      BY <1>1, <3>1
    <3> QED BY <3>3, <3>4
  <2> HIDE DEF e
  <2>3. /\ s \in Seq(Line) /\ Len(s) = L
        /\ \A i \in 1..L : s[i] = IF i = L THEN e ELSE r.lines[i]
    BY <1>1, <1>6, <2>1, ExceptSeq
  <2> HIDE DEF s
  <2>4. s # <<>>
    BY <1>1, <1>6, <2>3
  <2>5. \A i \in 1..Len(s) - 1 : s[i].valued
    BY <1>1, <2>3 DEF Paired
  <2>6. s[Len(s)].valued
    BY <1>1, <1>6, <2>1, <2>3
  <2> QED BY <1>1, <2>2, <2>3, <2>4, <2>5, <2>6 DEF Request, Paired
<1> QED BY <1>2, <1>3, <1>4, <1>5, <1>6 DEF Texts

-----------------------------------------------------------------------------
(***************************************************************************)
(* Steps.                                                                  *)
(***************************************************************************)

LEMMA MarkDomains ==
  /\ \A m : DOMAIN Passed(m) = DOMAIN m
  /\ \A m : MarksOK(m) => MarksOK(Passed(m))
  /\ \A m, text : DOMAIN Without(m, text) = DOMAIN m \ {text}
  /\ \A m, text : MarksOK(m) => MarksOK(Without(m, text))
  /\ \A text : DOMAIN Mark(text) = DOMAIN marks \union {text}
  /\ \A text \in Texts : MarksOK(marks) => MarksOK(Mark(text))
  /\ DOMAIN NoMarks = {} /\ MarksOK(NoMarks)
<1>1. \A m : DOMAIN Passed(m) = DOMAIN m /\ (MarksOK(m) => MarksOK(Passed(m)))
  BY DEF Passed, MarksOK
<1>2. \A m, text : DOMAIN Without(m, text) = DOMAIN m \ {text}
                   /\ (MarksOK(m) => MarksOK(Without(m, text)))
  BY DEF Without, MarksOK
<1>3. \A text : DOMAIN Mark(text) = DOMAIN marks \union {text}
  BY DEF Mark
<1>4. \A text \in Texts : MarksOK(marks) => MarksOK(Mark(text))
  BY DEF Mark, MarksOK
<1>5. DOMAIN NoMarks = {} /\ MarksOK(NoMarks)
  BY DEF NoMarks, MarksOK
<1> QED BY <1>1, <1>2, <1>3, <1>4, <1>5

LEMMA NewParserOK ==
  ASSUME NEW e \in {"OK", "INVALID", "CONTENT_LENGTH", "HEADER_OVERFLOW", "CALLBACK"}
  PROVE  /\ [NewParser EXCEPT !.errno = e] \in Parser
         /\ [NewParser EXCEPT !.errno = e].errno = e
         /\ [NewParser EXCEPT !.errno = e].state = "s_start_req"
<1>1. 0 \in 0..MaxHeader /\ 0 \in Lengths
  BY HeaderAssumption, LengthAssumption DEF Lengths, MaxLength
<1>2. "s_start_req" \in States /\ "general" \in Names
  BY DEF States, HeaderStates, Names
<1>3. NewParser \in Parser
  BY <1>1, <1>2 DEF NewParser, Parser
<1>4. /\ [NewParser EXCEPT !.errno = e].state = NewParser.state
      /\ [NewParser EXCEPT !.errno = e].errno = e
  BY <1>3 DEF Parser
<1> QED BY <1>3, <1>4 DEF Parser, NewParser

LEMMA NoRequestOK == NoRequest \in Request /\ Paired(NoRequest) /\ NoRequest.lines = <<>>
<1>1. <<>> \in Seq(Line)
  OBVIOUS
<1> QED BY <1>1 DEF NoRequest, Request, Paired

\* In a state like this nothing is asked of parser, marks or request.
Calm == {"s_dead", "s_start_req"} \union (LineStates \ {"s_req_schema", "s_req_path"})
          \union {"s_header_field_start", "s_headers_almost_done"}

LEMMA CalmOK ==
  ASSUME NEW q, q.state \in Calm, NEW r
  PROVE  Asserted(q, {}) /\ Lined(q, r, {})
BY DEF Calm, LineStates, Asserted, MarkedIn, Lined, Named, ChunkHeadStates, ChunkDataStates

LEMMA ErrorCore ==
  ASSUME Core, NEW e \in {"INVALID", "CONTENT_LENGTH", "HEADER_OVERFLOW", "CALLBACK"}, Error(e)
  PROVE  Core' /\ (e # "CONTENT_LENGTH" => Quiet)
<1>1. parser' \in Parser /\ parser'.state = "s_start_req" /\ parser'.errno = e
  BY NewParserOK DEF Error
<1>2. /\ request' \in Request /\ Paired(request')
      /\ at' = "idle" /\ read' = 0 /\ given' = given /\ marks' = NoMarks
  BY NoRequestOK DEF Error
<1>3. MarksOK(marks') /\ DOMAIN marks' = {}
  BY <1>2, MarkDomains
<1>4. Asserted(parser', DOMAIN marks') /\ Lined(parser', request', DOMAIN marks')
  BY <1>1, <1>3, CalmOK DEF Calm
<1>5. e # "CONTENT_LENGTH" => Quiet
  BY <1>1 DEF Quiet, QuietTo, InNumber, ChunkHeadStates
<1> QED BY <1>1, <1>2, <1>3, <1>4, <1>5 DEF Core

LEMMA ReadsCore ==
  ASSUME Core, NEW n \in Nat, NEW q \in Parser, q.errno = "OK",
         NEW m, MarksOK(m), Reads(n, q, m),
         Asserted(q, DOMAIN m), Lined(q, request, DOMAIN m)
  PROVE  Core' /\ (QuietTo(q) => Quiet)
<1>1. MarksOK(marks') /\ DOMAIN marks' = DOMAIN m
  BY MarkDomains DEF Reads
<1>2. Core'
  BY <1>1 DEF Core, Reads
<1>3. QuietTo(q) => Quiet
  BY DEF Reads, Quiet
<1> QED BY <1>2, <1>3

LEMMA CallbackCore ==
  ASSUME Core, NEW text \in Texts, NEW q \in Parser, q.errno = "OK", Callback(text, q),
         text = "header_value" => request.lines # <<>>,
         Asserted(q, DOMAIN marks \ {text}),
         q.state # "s_header_field",
         \/ request.lines # <<>>
         \/ text = "header_field" /\ text \in DOMAIN marks
         \/ q.state \notin Named
  PROVE  Core' /\ (QuietTo(q) => Quiet)
<1>1. CASE text \notin DOMAIN marks /\ Step(q)
  <2>1. DOMAIN marks \ {text} = DOMAIN marks
    BY <1>1
  <2>2. Reads(0, q, marks)
    BY <1>1 DEF Step
  <2>3. MarksOK(marks) /\ Asserted(q, DOMAIN marks) /\ Lined(q, request, DOMAIN marks)
    BY <1>1, <2>1 DEF Core, Lined
  <2> QED BY <2>2, <2>3, ReadsCore
<1>2. CASE /\ text \in DOMAIN marks
           /\ request' = Received(request, text, marks[text])
           /\ parser' = q
           /\ marks' = Passed(Without(marks, text))
           /\ at' = "reading"
           /\ UNCHANGED <<given, read>>
  <2>1. /\ request' \in Request /\ Paired(request')
        /\ text = "header_field" \/ request.lines # <<>> => request'.lines # <<>>
    BY <1>2, Receiving DEF Core, MarksOK
  <2>2. MarksOK(marks') /\ DOMAIN marks' = DOMAIN marks \ {text}
    BY <1>2, MarkDomains DEF Core
  <2>3. QuietTo(q) => Quiet
    BY <1>2 DEF Quiet
  <2> QED BY <1>2, <2>1, <2>2, <2>3 DEF Core, Lined
<1>3. CASE Error("CALLBACK")
  BY <1>3, ErrorCore
<1> QED BY <1>1, <1>2, <1>3 DEF Callback

LEMMA CompleteCore ==
  ASSUME Core, NEW q \in Parser, q.errno = "OK", NEW r \in Request, Paired(r), NEW n \in Nat,
         DOMAIN marks \subseteq {"body"}, MessageComplete(q, r, n)
  PROVE  Core' /\ Quiet
<1>1. parser' \in Parser /\ parser'.state \in Calm /\ parser'.errno = "OK"
  BY DEF MessageComplete, NewMessage, Calm, Parser, States, HeaderStates
<1>2. MarksOK(marks') /\ DOMAIN marks' = {}
  BY MarkDomains DEF MessageComplete, Core
<1>3. Asserted(parser', DOMAIN marks') /\ Lined(parser', request', DOMAIN marks')
  BY <1>1, <1>2, CalmOK
<1>4. at' \in {"idle", "reading"} /\ request' = r /\ given' = r /\ read' \in Nat
  BY DEF MessageComplete, Core
<1>5. Quiet
  BY <1>1 DEF Quiet, QuietTo, InNumber, Calm, LineStates, ChunkHeadStates
<1> QED BY <1>1, <1>2, <1>3, <1>4, <1>5 DEF Core

\* What To keeps of the parser.
LEMMA ToFacts ==
  ASSUME Core, NEW S, Byte(S), NEW s \in States
  PROVE  /\ To(s) \in Parser
         /\ To(s).errno = "OK"
         /\ To(s).state = s
         /\ To(s).header_state = parser.header_state
         /\ To(s).flags = parser.flags
         /\ To(s).length = parser.length
         /\ parser.state \in S
         /\ at # "idle" /\ parser.errno = "OK"
<1>1. parser \in Parser /\ parser.errno = "OK" /\ parser.state \in S /\ at # "idle"
  BY DEF Core, Byte
<1> DEFINE k == IF parser.state \in HeaderStates THEN parser.nread + 1 ELSE parser.nread
<1>2. k \in 0..MaxHeader
  BY HeaderAssumption, <1>1 DEF Byte, Parser
<1>3. To(s) = [[parser EXCEPT !.state = s] EXCEPT !.nread = k]
  BY <1>1 DEF To, Parser
<1> HIDE DEF k
<1> QED BY <1>1, <1>2, <1>3 DEF Parser

TextStates == {"s_header_field", "s_header_value", "s_req_schema", "s_req_path",
               "s_chunk_data", "s_chunk_data_almost_done", "s_body_identity"}

LEMMA Unmarked ==
  ASSUME Core, parser.state \notin TextStates
  PROVE  DOMAIN marks = {}
BY DEF Core, Asserted, MarkedIn, TextStates

\* Most bytes lead from one quiet state to another.
LEMMA CalmStep ==
  ASSUME Core, parser.state \notin TextStates, NEW q \in Parser, q.errno = "OK",
         q.state \in Calm, Step(q)
  PROVE  Core' /\ Quiet
<1>1. DOMAIN marks = {} /\ MarksOK(marks)
  BY Unmarked DEF Core
<1>2. Asserted(q, DOMAIN marks) /\ Lined(q, request, DOMAIN marks)
  BY <1>1, CalmOK
<1>3. QuietTo(q)
  BY DEF QuietTo, InNumber, Calm, LineStates, ChunkHeadStates
<1> QED BY <1>1, <1>2, <1>3, ReadsCore DEF Step

LEMMA CoreInit == Init => Core /\ Counts
<1> SUFFICES ASSUME Init PROVE Core /\ Counts
  OBVIOUS
<1>1. NewParser \in Parser /\ NewParser.state = "s_start_req" /\ NewParser.errno = "OK"
  <2>1. 0 \in 0..MaxHeader /\ 0 \in Lengths
    BY HeaderAssumption, LengthAssumption DEF Lengths, MaxLength
  <2> QED BY <2>1 DEF NewParser, Parser, States, HeaderStates, Names
<1>2. MarksOK(marks) /\ DOMAIN marks = {}
  BY MarkDomains DEF Init
<1>3. Asserted(parser, DOMAIN marks) /\ Lined(parser, request, DOMAIN marks)
  BY <1>1, <1>2, CalmOK DEF Init, Calm
<1>4. Counts
  BY LengthAssumption DEF Init, Counts
<1> QED BY <1>1, <1>2, <1>3, <1>4, NoRequestOK DEF Init, Core

-----------------------------------------------------------------------------
(***************************************************************************)
(* Every action keeps the invariant.                                       *)
(***************************************************************************)

LEMMA BufferStartCore == ASSUME Core, BufferStart PROVE Core' /\ Quiet
<1>1. DOMAIN marks' = StartMarks(parser.state) /\ \A k \in DOMAIN marks' : marks'[k] = 0
  BY DEF BufferStart
<1>2. parser' = parser /\ request' = request /\ parser.errno = "OK"
  BY DEF BufferStart
<1>3. MarksOK(marks')
  BY <1>1 DEF MarksOK, StartMarks, Texts
<1>4. Asserted(parser', DOMAIN marks')
  <2>1. MarkedIn(parser.state, StartMarks(parser.state))
    BY DEF MarkedIn, StartMarks
  <2> QED BY <1>1, <1>2, <2>1 DEF Core, Asserted
<1>5. Lined(parser', request', DOMAIN marks')
  <2>1. parser.state = "s_header_field" => DOMAIN marks' # {}
    BY <1>1 DEF StartMarks
  <2> QED BY <1>2, <2>1 DEF Core, Lined
<1>6. Quiet
  BY <1>2 DEF Quiet, QuietTo
<1> QED BY <1>2, <1>3, <1>4, <1>5, <1>6 DEF Core, BufferStart

LEMMA BufferEndCore == ASSUME Core, BufferEnd PROVE Core' /\ Quiet
<1>1. CASE DOMAIN marks = {} /\ at' = "idle" /\ UNCHANGED <<parser, marks, request, given, read>>
  BY <1>1 DEF Core, Asserted, Lined, Quiet, QuietTo, BufferEnd
<1>2. CASE /\ \E text \in DOMAIN marks : request' = Received(request, text, marks[text])
           /\ at' = "idle"
           /\ marks' = NoMarks
           /\ UNCHANGED <<parser, given, read>>
  <2>1. PICK text \in DOMAIN marks : request' = Received(request, text, marks[text])
    BY <1>2
  <2>2. /\ text \in Texts /\ marks[text] \in Nat
        /\ text = "header_value" => request.lines # <<>>
        /\ parser.state = "s_header_field" => text = "header_field"
    BY DEF Core, MarksOK, Asserted, MarkedIn, Lined, Named
  <2>3. /\ request' \in Request /\ Paired(request')
        /\ text = "header_field" \/ request.lines # <<>> => request'.lines # <<>>
    BY <2>1, <2>2, Receiving DEF Core
  <2>4. MarksOK(marks') /\ DOMAIN marks' = {}
    BY <1>2, MarkDomains
  <2>5. Asserted(parser', DOMAIN marks')
    BY <1>2, <2>4 DEF Core, Asserted, MarkedIn
  <2>6. Lined(parser', request', DOMAIN marks')
    BY <1>2, <2>2, <2>3 DEF Core, Lined
  <2> QED BY <1>2, <2>3, <2>4, <2>5, <2>6 DEF Core, Quiet, QuietTo, BufferEnd
<1>3. CASE Error("CALLBACK")
  BY <1>3, ErrorCore
<1> QED BY <1>1, <1>2, <1>3 DEF BufferEnd

LEMMA MessageBeginCore == ASSUME Core, MessageBegin PROVE Core' /\ Quiet
<1> DEFINE t == To("s_req_method")
           q == [t EXCEPT !.flags = {}, !.length = MaxLength]
<1>1. Byte({"s_start_req"}) /\ "s_req_method" \in States /\ MaxLength \in Lengths
  BY LengthAssumption
  DEF MessageBegin, States, HeaderStates, LineStates, Lengths, MaxLength
<1>2. t \in Parser /\ t.state = "s_req_method" /\ t.errno = "OK"
  BY <1>1, ToFacts
<1>3. parser' = q
  BY DEF MessageBegin
<1>4. q \in Parser /\ q.state = "s_req_method" /\ q.errno = "OK"
  <2> HIDE DEF t
  <2> QED BY <1>1, <1>2 DEF Parser
<1> HIDE DEF q
<1>5. DOMAIN marks = {}
  BY <1>1, Unmarked DEF Byte, TextStates
<1>6. MarksOK(marks') /\ DOMAIN marks' = {}
  BY <1>5, MarkDomains DEF MessageBegin, Core
<1>7. Asserted(parser', DOMAIN marks') /\ Lined(parser', request', DOMAIN marks')
  BY <1>3, <1>4, <1>6, CalmOK DEF Calm, LineStates
<1>8. Quiet
  BY <1>3, <1>4 DEF Quiet, QuietTo, InNumber, ChunkHeadStates
<1> QED BY <1>3, <1>4, <1>6, <1>7, <1>8, NoRequestOK DEF MessageBegin, Core

\* Bytes outside texts and numbers: the request line around the URL, the end of
\* the headers, the last chunk.
LEMMA LineCore ==
  ASSUME Core, MethodEnds \/ Version \/ LineEnds \/ HeadersAlmostDone \/ LastChunk
  PROVE  Core' /\ Quiet
<1>1. CASE MethodEnds
  <2> DEFINE t == To("s_req_spaces_before_url")
  <2>1. PICK c \in BOOLEAN : Step([t EXCEPT !.connect = c])
    BY <1>1 DEF MethodEnds
  <2>2. Byte({"s_req_method"}) /\ "s_req_spaces_before_url" \in States
    BY <1>1 DEF MethodEnds, States, HeaderStates, LineStates
  <2>3. t \in Parser /\ t.state = "s_req_spaces_before_url" /\ t.errno = "OK"
    BY <2>2, ToFacts
  <2>4. parser.state \notin TextStates
    BY <2>2 DEF Byte, TextStates
  <2> HIDE DEF t
  <2>5. /\ [t EXCEPT !.connect = c] \in Parser
        /\ [t EXCEPT !.connect = c].state = "s_req_spaces_before_url"
        /\ [t EXCEPT !.connect = c].errno = "OK"
    BY <2>3 DEF Parser
  <2> QED BY <2>1, <2>4, <2>5, CalmStep DEF Calm, LineStates
<1>2. CASE Version
  <2> DEFINE t == To("s_req_http_minor")
  <2>1. PICK m \in BOOLEAN : Step([t EXCEPT !.modern = m])
    BY <1>2 DEF Version
  <2>2. /\ Byte({"s_req_http_start", "s_req_http_minor"}) /\ "s_req_http_minor" \in States
    BY <1>2 DEF Version, States, HeaderStates, LineStates
  <2>3. t \in Parser /\ t.state = "s_req_http_minor" /\ t.errno = "OK"
    BY <2>2, ToFacts
  <2>4. parser.state \notin TextStates
    BY <2>2 DEF Byte, TextStates
  <2> HIDE DEF t
  <2>5. /\ [t EXCEPT !.modern = m] \in Parser
        /\ [t EXCEPT !.modern = m].state = "s_req_http_minor"
        /\ [t EXCEPT !.modern = m].errno = "OK"
    BY <2>3 DEF Parser
  <2> QED BY <2>1, <2>4, <2>5, CalmStep DEF Calm, LineStates
<1>3. CASE LineEnds \/ HeadersAlmostDone
  <2>1. PICK s \in Calm \intersect States :
          /\ Step(To(s))
          /\ Byte({"s_req_http_minor", "s_req_line_almost_done"} \union BetweenLines)
    BY <1>3 DEF LineEnds, HeadersAlmostDone, Byte, Calm, LineStates, States, HeaderStates,
                FieldStates
  <2>2. To(s) \in Parser /\ To(s).state = s /\ To(s).errno = "OK"
    BY <2>1, ToFacts
  <2>3. parser.state \notin TextStates
    BY <2>1 DEF Byte, TextStates, BetweenLines
  <2> QED BY <2>1, <2>2, <2>3, CalmStep
<1>4. CASE LastChunk
  <2> DEFINE t == To("s_header_field_start")
             q == [t EXCEPT !.nread = 0, !.flags = t.flags \union {"TRAILING"}]
  <2>1. Byte({"s_chunk_size_almost_done"}) /\ "s_header_field_start" \in States
    BY <1>4 DEF LastChunk, States, HeaderStates, FieldStates
  <2>2. t \in Parser /\ t.state = "s_header_field_start" /\ t.errno = "OK"
    BY <2>1, ToFacts
  <2>3. 0 \in 0..MaxHeader
    BY HeaderAssumption
  <2>4. q \in Parser /\ q.state = "s_header_field_start" /\ q.errno = "OK"
    <3> HIDE DEF t
    <3> QED BY <2>2, <2>3 DEF Parser, Flags
  <2>5. Step(q)
    BY <1>4, <2>2 DEF LastChunk, Parser
  <2>6. parser.state \notin TextStates
    BY <2>1 DEF Byte, TextStates
  <2> HIDE DEF q
  <2> QED BY <2>4, <2>5, <2>6, CalmStep DEF Calm
<1> QED BY <1>1, <1>2, <1>3, <1>4

LEMMA InsideCore == ASSUME Core, Inside \/ InsideText PROVE Core' /\ Quiet
<1> DEFINE t == To(parser.state)
<1>1. parser.state \in States /\ MarksOK(marks)
  BY DEF Core, Parser
<1>2. ASSUME NEW S, NEW n \in Nat, Byte(S), Reads(n, t, marks),
             S \subseteq {"s_start_req", "s_req_method", "s_req_spaces_before_url",
                         "s_req_http_start", "s_req_http_minor", "s_header_value_start",
                         "s_chunk_parameters", "s_header_field", "s_header_value"}
      PROVE  Core' /\ Quiet
  <2>1. /\ t \in Parser /\ t.state = parser.state /\ t.errno = "OK"
        /\ t.flags = parser.flags /\ t.length = parser.length
        /\ t.header_state = parser.header_state
        /\ parser.state \in S /\ parser.errno = "OK"
    BY <1>1, <1>2, ToFacts
  <2> HIDE DEF t
  <2>2. Asserted(t, DOMAIN marks) /\ Lined(t, request, DOMAIN marks)
    BY <1>2, <2>1 DEF Core, Asserted, Lined, ChunkHeadStates, ChunkDataStates
  <2>3. QuietTo(t)
    BY <2>1 DEF QuietTo, InNumber
  <2> QED BY <1>1, <1>2, <2>1, <2>2, <2>3, ReadsCore
<1>3. CASE Inside
  BY <1>2, <1>3 DEF Inside, Step
<1>4. CASE InsideText
  BY <1>2, <1>4 DEF InsideText, TextByte
<1> QED BY <1>3, <1>4

LEMMA UrlCore == ASSUME Core, UrlByte \/ UrlEnds PROVE Core' /\ Quiet
<1>1. CASE UrlByte
  <2>1. PICK s \in {"s_req_schema", "s_req_path"} : TextByte(To(s), Mark("url"))
    BY <1>1 DEF UrlByte
  <2>2. /\ Byte({"s_req_spaces_before_url", "s_req_schema", "s_req_path"})
        /\ s \in States /\ "url" \in Texts
    BY <1>1 DEF UrlByte, States, HeaderStates, LineStates, Texts
  <2>3. To(s) \in Parser /\ To(s).state = s /\ To(s).errno = "OK"
    BY <2>2, ToFacts
  <2>4. MarksOK(Mark("url")) /\ DOMAIN Mark("url") = DOMAIN marks \union {"url"}
    BY <2>2, MarkDomains DEF Core
  <2>5. DOMAIN marks \subseteq {"url"}
    BY <2>2 DEF Core, Asserted, MarkedIn, Byte
  <2>6. Asserted(To(s), DOMAIN Mark("url")) /\ Lined(To(s), request, DOMAIN Mark("url"))
    BY <2>3, <2>4, <2>5
    DEF Asserted, MarkedIn, Lined, Named, ChunkHeadStates, ChunkDataStates
  <2>7. QuietTo(To(s))
    BY <2>3 DEF QuietTo, InNumber, ChunkHeadStates
  <2> QED BY <2>1, <2>3, <2>4, <2>6, <2>7, ReadsCore DEF TextByte
<1>2. CASE UrlEnds
  <2>1. /\ Byte({"s_req_path"}) /\ "url" \in Texts
        /\ {"s_req_http_start", "s_req_line_almost_done", "s_header_field_start"}
              \subseteq States \intersect Calm
    BY <1>2 DEF UrlEnds, States, HeaderStates, LineStates, FieldStates, Calm, Texts
  <2>2. PICK q \in Parser :
          q.state \in Calm /\ q.errno = "OK" /\ Callback("url", q)
    <3>1. CASE Callback("url", To("s_req_http_start"))
      BY <2>1, <3>1, ToFacts
    <3>2. ASSUME NEW s \in {"s_req_line_almost_done", "s_header_field_start"},
                 Callback("url", [To(s) EXCEPT !.modern = FALSE])
          PROVE  \E q \in Parser : q.state \in Calm /\ q.errno = "OK" /\ Callback("url", q)
      <4> DEFINE t == To(s)
      <4>1. t \in Parser /\ t.state = s /\ t.errno = "OK"
        BY <2>1, ToFacts
      <4> HIDE DEF t
      <4>2. /\ [t EXCEPT !.modern = FALSE] \in Parser
            /\ [t EXCEPT !.modern = FALSE].state = s
            /\ [t EXCEPT !.modern = FALSE].errno = "OK"
        BY <4>1 DEF Parser
      <4> QED BY <2>1, <3>2, <4>2 DEF t
    <3> QED BY <1>2, <3>1, <3>2 DEF UrlEnds
  <2>3. DOMAIN marks \ {"url"} = {}
    BY <2>1 DEF Core, Asserted, MarkedIn, Byte
  <2>4. Asserted(q, {}) /\ q.state # "s_header_field" /\ q.state \notin Named
    BY <2>2, CalmOK DEF Calm, Named, LineStates
  <2>5. QuietTo(q)
    BY <2>2 DEF QuietTo, InNumber, Calm, LineStates, ChunkHeadStates
  <2> QED BY <2>1, <2>2, <2>3, <2>4, <2>5, CallbackCore
<1> QED BY <1>1, <1>2

\* A state of the headers other than those where a text is read.
LEMMA HeaderStep ==
  ASSUME Core, parser.state \notin TextStates, request.lines # <<>>,
         NEW q \in Parser, q.errno = "OK",
         q.state \in {"s_header_value_start", "s_header_value_lws", "s_header_almost_done"},
         Step(q)
  PROVE  Core' /\ Quiet
<1>1. DOMAIN marks = {} /\ MarksOK(marks)
  BY Unmarked DEF Core
<1>2. Asserted(q, DOMAIN marks) /\ Lined(q, request, DOMAIN marks)
  BY <1>1 DEF Asserted, MarkedIn, Lined, ChunkHeadStates, ChunkDataStates
<1>3. QuietTo(q)
  BY DEF QuietTo, InNumber, ChunkHeadStates
<1> QED BY <1>1, <1>2, <1>3, ReadsCore DEF Step

LEMMA FieldCore == ASSUME Core, FieldBegins \/ FieldEnds PROVE Core' /\ Quiet
<1>1. CASE FieldBegins
  <2> DEFINE t == To("s_header_field")
             q == [t EXCEPT !.header_state = "general"]
  <2>1. /\ Byte(BetweenLines) /\ "s_header_field" \in States /\ "header_field" \in Texts
        /\ TextByte(q, Mark("header_field"))
    BY <1>1 DEF FieldBegins, States, HeaderStates, FieldStates, Texts
  <2>2. t \in Parser /\ t.state = "s_header_field" /\ t.errno = "OK"
    BY <2>1, ToFacts
  <2>3. q \in Parser /\ q.state = "s_header_field" /\ q.errno = "OK"
    <3> HIDE DEF t
    <3> QED BY <2>2 DEF Parser, Names
  <2> HIDE DEF q
  <2>4. DOMAIN marks = {}
    BY <2>1, Unmarked DEF Byte, TextStates, BetweenLines
  <2>5. MarksOK(Mark("header_field")) /\ DOMAIN Mark("header_field") = {"header_field"}
    BY <2>1, <2>4, MarkDomains DEF Core
  <2>6. /\ Asserted(q, DOMAIN Mark("header_field"))
        /\ Lined(q, request, DOMAIN Mark("header_field"))
    BY <2>3, <2>5 DEF Asserted, MarkedIn, Lined, Named, ChunkHeadStates, ChunkDataStates
  <2>7. QuietTo(q)
    BY <2>3 DEF QuietTo, InNumber, ChunkHeadStates
  <2> QED BY <2>1, <2>3, <2>5, <2>6, <2>7, ReadsCore DEF TextByte
<1>2. CASE FieldEnds
  <2>1. PICK s \in {"s_header_value_start", "s_header_almost_done", "s_header_field_start"},
             h \in Names :
          Callback("header_field", [To(s) EXCEPT !.header_state = h])
    BY <1>2 DEF FieldEnds
  <2> DEFINE t == To(s)
             q == [t EXCEPT !.header_state = h]
  <2>2. Byte({"s_header_field"}) /\ s \in States /\ "header_field" \in Texts
    BY <1>2 DEF FieldEnds, States, HeaderStates, FieldStates, Texts
  <2>3. t \in Parser /\ t.state = s /\ t.errno = "OK"
    BY <2>2, ToFacts
  <2>4. q \in Parser /\ q.state = s /\ q.errno = "OK"
    <3> HIDE DEF t
    <3> QED BY <2>3 DEF Parser
  <2>5. Callback("header_field", q)
    BY <2>1
  <2> HIDE DEF q
  <2>6. /\ DOMAIN marks \ {"header_field"} = {}
        /\ request.lines # <<>> \/ "header_field" \in DOMAIN marks
    BY <2>2 DEF Core, Asserted, MarkedIn, Lined, Byte
  <2>7. Asserted(q, {}) /\ q.state # "s_header_field"
    BY <2>4 DEF Asserted, MarkedIn, ChunkHeadStates, ChunkDataStates
  <2>8. QuietTo(q)
    BY <2>4 DEF QuietTo, InNumber, ChunkHeadStates
  <2> QED BY <2>2, <2>4, <2>5, <2>6, <2>7, <2>8, CallbackCore
<1> QED BY <1>1, <1>2

LEMMA ValueEmptyCore == ASSUME Core, ValueEmpty PROVE Core' /\ Quiet
<1>1. /\ Byte({"s_header_value_start"}) /\ "header_value" \in Texts
      /\ {"s_header_almost_done", "s_header_field_start"} \subseteq States
  BY DEF ValueEmpty, Texts, States, HeaderStates, FieldStates
<1>2. request.lines # <<>> /\ DOMAIN marks = {}
  BY <1>1, Unmarked DEF Core, Lined, Named, Byte, TextStates
<1>3. /\ request' \in Request /\ Paired(request') /\ request'.lines # <<>>
  BY <1>1, <1>2, Receiving DEF ValueEmpty, Core
<1>4. MarksOK(marks') /\ DOMAIN marks' = {}
  BY <1>2, MarkDomains DEF ValueEmpty, Core
<1>5. /\ parser' \in Parser /\ parser'.errno = "OK"
      /\ parser'.state \in {"s_header_almost_done", "s_header_field_start"}
  <2>1. CASE parser' = [To("s_header_almost_done") EXCEPT !.header_state = "general"]
    <3> DEFINE t == To("s_header_almost_done")
    <3>1. t \in Parser /\ t.state = "s_header_almost_done" /\ t.errno = "OK"
      BY <1>1, ToFacts
    <3> HIDE DEF t
    <3> QED BY <2>1, <3>1 DEF Parser, Names, t
  <2>2. CASE parser' = To("s_header_field_start")
    BY <1>1, <2>2, ToFacts
  <2> QED BY <2>1, <2>2 DEF ValueEmpty
<1>6. Asserted(parser', DOMAIN marks') /\ Lined(parser', request', DOMAIN marks')
  BY <1>3, <1>4, <1>5 DEF Asserted, MarkedIn, Lined, ChunkHeadStates, ChunkDataStates
<1>7. Quiet
  BY <1>5 DEF Quiet, QuietTo, InNumber, ChunkHeadStates
<1> QED BY <1>3, <1>4, <1>5, <1>6, <1>7 DEF Core, ValueEmpty

\* The first byte of a value, whatever it means.
LEMMA ValueByteCore ==
  ASSUME Core, parser.state = "s_header_value_start",
         NEW q \in Parser, q.errno = "OK", q.state = "s_header_value",
         TextByte(q, Mark("header_value"))
  PROVE  Core' /\ (q.header_state # "content_length" => Quiet)
<1>1. request.lines # <<>> /\ DOMAIN marks = {} /\ "header_value" \in Texts
  BY Unmarked DEF Core, Lined, Named, TextStates, Texts
<1>2. MarksOK(Mark("header_value")) /\ DOMAIN Mark("header_value") = {"header_value"}
  BY <1>1, MarkDomains DEF Core
<1>3. /\ Asserted(q, DOMAIN Mark("header_value"))
      /\ Lined(q, request, DOMAIN Mark("header_value"))
  BY <1>1, <1>2 DEF Asserted, MarkedIn, Lined, ChunkHeadStates, ChunkDataStates
<1>4. q.header_state # "content_length" => QuietTo(q)
  BY DEF QuietTo, InNumber, ChunkHeadStates
<1> QED BY <1>2, <1>3, <1>4, ReadsCore DEF TextByte

LEMMA ValueBeginsCore == ASSUME Core, ValueBegins PROVE Core' /\ Quiet
<1> DEFINE t == To("s_header_value")
<1>1. Byte({"s_header_value_start"}) /\ "s_header_value" \in States
  BY DEF ValueBegins, States, HeaderStates, FieldStates
<1>2. /\ t \in Parser /\ t.state = "s_header_value" /\ t.errno = "OK"
      /\ parser.state = "s_header_value_start" /\ t.header_state = parser.header_state
  BY <1>1, ToFacts
<1>3. \/ TextByte([t EXCEPT !.header_state = "general", !.flags = t.flags \union {"UPGRADE"}],
                  Mark("header_value"))
      \/ t.header_state # "content_length" /\ TextByte(t, Mark("header_value"))
      \/ TextByte([t EXCEPT !.header_state = "general"], Mark("header_value"))
  BY <1>2 DEF ValueBegins, Parser
<1> HIDE DEF t
<1>4. ASSUME NEW f \in SUBSET Flags, NEW q, q = [t EXCEPT !.header_state = "general", !.flags = f],
             TextByte(q, Mark("header_value"))
      PROVE  Core' /\ Quiet
  <2>1. q \in Parser
    BY <1>2, <1>4 DEF Parser, Names
  <2>2. q.state = "s_header_value" /\ q.errno = "OK" /\ q.header_state = "general"
    BY <1>2, <1>4 DEF Parser
  <2> QED BY <1>2, <1>4, <2>1, <2>2, ValueByteCore
<1>5. /\ t.flags \in SUBSET Flags /\ t.flags \union {"UPGRADE"} \in SUBSET Flags
      /\ [t EXCEPT !.header_state = "general"]
           = [t EXCEPT !.header_state = "general", !.flags = t.flags]
  BY <1>2 DEF Parser, Flags
<1>6. CASE TextByte([t EXCEPT !.header_state = "general", !.flags = t.flags \union {"UPGRADE"}],
                    Mark("header_value"))
  BY <1>4, <1>5, <1>6
<1>7. CASE TextByte([t EXCEPT !.header_state = "general"], Mark("header_value"))
  BY <1>4, <1>5, <1>7
<1>8. CASE t.header_state # "content_length" /\ TextByte(t, Mark("header_value"))
  BY <1>2, <1>8, ValueByteCore
<1> QED BY <1>3, <1>6, <1>7, <1>8

LEMMA ValueEndsCore == ASSUME Core, ValueEnds PROVE Core' /\ Quiet
<1>1. PICK h \in Meaning(parser.header_state) :
       \/ Callback("header_value", [To("s_header_almost_done") EXCEPT !.header_state = h])
       \/ LET q == [To("s_header_value_lws") EXCEPT !.header_state = h]
          IN  Callback("header_value", [q EXCEPT !.flags = Flagged(q)])
  BY DEF ValueEnds
<1>2. /\ Byte({"s_header_value"}) /\ "header_value" \in Texts
      /\ {"s_header_almost_done", "s_header_value_lws"} \subseteq States
  BY DEF ValueEnds, Texts, States, HeaderStates, FieldStates
<1>3. h \in Names \union {"keep_alive", "close", "chunked"}
  BY DEF Meaning, Core, Parser, Names
<1>4. request.lines # <<>> /\ DOMAIN marks \ {"header_value"} = {}
  BY <1>2 DEF Core, Asserted, MarkedIn, Lined, Named, Byte
<1>5. ASSUME NEW q \in Parser, q.errno = "OK", Callback("header_value", q),
             q.state \in {"s_header_almost_done", "s_header_value_lws"}
      PROVE  Core' /\ Quiet
  <2>1. Asserted(q, {})
    BY <1>5 DEF Asserted, MarkedIn, ChunkHeadStates, ChunkDataStates
  <2>2. QuietTo(q)
    BY <1>5 DEF QuietTo, InNumber, ChunkHeadStates
  <2> QED BY <1>2, <1>4, <1>5, <2>1, <2>2, CallbackCore
<1>6. CASE Callback("header_value", [To("s_header_almost_done") EXCEPT !.header_state = h])
  <2> DEFINE t == To("s_header_almost_done")
             q == [t EXCEPT !.header_state = h]
  <2>1. t \in Parser /\ t.state = "s_header_almost_done" /\ t.errno = "OK"
    BY <1>2, ToFacts
  <2>2. q \in Parser /\ q.state = "s_header_almost_done" /\ q.errno = "OK"
    <3> HIDE DEF t
    <3> QED BY <1>3, <2>1 DEF Parser
  <2> QED BY <1>5, <1>6, <2>2
<1>7. CASE LET q == [To("s_header_value_lws") EXCEPT !.header_state = h]
           IN  Callback("header_value", [q EXCEPT !.flags = Flagged(q)])
  <2> DEFINE t == To("s_header_value_lws")
             u == [t EXCEPT !.header_state = h]
             q == [u EXCEPT !.flags = Flagged(u)]
  <2>1. t \in Parser /\ t.state = "s_header_value_lws" /\ t.errno = "OK"
    BY <1>2, ToFacts
  <2>2. u \in Parser /\ u.state = "s_header_value_lws" /\ u.errno = "OK"
    <3> HIDE DEF t
    <3> QED BY <1>3, <2>1 DEF Parser
  <2>3. q \in Parser /\ q.state = "s_header_value_lws" /\ q.errno = "OK"
    <3> HIDE DEF u
    <3>1. Flagged(u) \in SUBSET Flags
      BY <2>2 DEF Flagged, Parser, Flags
    <3> QED BY <2>2, <3>1 DEF Parser
  <2>4. Callback("header_value", q)
    BY <1>7
  <2> QED BY <1>5, <2>3, <2>4
<1> QED BY <1>1, <1>6, <1>7

LEMMA LineFoldCore == ASSUME Core, HeaderLineEnds \/ Fold PROVE Core' /\ Quiet
<1>1. CASE HeaderLineEnds
  <2> DEFINE t == To("s_header_value_lws")
             q == [t EXCEPT !.flags = Flagged(parser)]
  <2>1. Byte({"s_header_almost_done"}) /\ "s_header_value_lws" \in States
    BY <1>1 DEF HeaderLineEnds, States, HeaderStates, FieldStates
  <2>2. t \in Parser /\ t.state = "s_header_value_lws" /\ t.errno = "OK"
    BY <2>1, ToFacts
  <2>3. Flagged(parser) \in SUBSET Flags
    BY DEF Flagged, Core, Parser, Flags
  <2>4. q \in Parser /\ q.state = "s_header_value_lws" /\ q.errno = "OK"
    <3> HIDE DEF t
    <3> QED BY <2>2, <2>3 DEF Parser
  <2>5. Step(q)
    BY <1>1 DEF HeaderLineEnds
  <2> HIDE DEF q
  <2>6. parser.state \notin TextStates /\ request.lines # <<>>
    BY <2>1 DEF Byte, TextStates, Core, Lined, Named
  <2> QED BY <2>4, <2>5, <2>6, HeaderStep
<1>2. CASE Fold
  <2>1. Byte({"s_header_value_lws"}) /\ "s_header_value_start" \in States
    BY <1>2 DEF Fold, States, HeaderStates, FieldStates
  <2>2. /\ To("s_header_value_start") \in Parser
        /\ To("s_header_value_start").state = "s_header_value_start"
        /\ To("s_header_value_start").errno = "OK"
    BY <2>1, ToFacts
  <2>3. parser.state \notin TextStates /\ request.lines # <<>>
    BY <2>1 DEF Byte, TextStates, Core, Lined, Named
  <2> QED BY <1>2, <2>2, <2>3, HeaderStep DEF Fold
<1> QED BY <1>1, <1>2

LEMMA TrailerEndsCore == ASSUME Core, TrailerEnds PROVE Core' /\ Quiet
<1>1. /\ Byte(BetweenLines \union {"s_headers_almost_done"})
      /\ "s_headers_almost_done" \in States
      /\ MessageComplete(To("s_headers_almost_done"), request, 0)
  BY DEF TrailerEnds, States, HeaderStates, FieldStates
<1>2. To("s_headers_almost_done") \in Parser /\ To("s_headers_almost_done").errno = "OK"
  BY <1>1, ToFacts
<1>3. DOMAIN marks = {}
  BY <1>1, Unmarked DEF Byte, BetweenLines, TextStates
<1>4. request \in Request /\ Paired(request)
  BY DEF Core
<1> QED BY <1>1, <1>2, <1>3, <1>4, CompleteCore

LEMMA HeadersEndCore == ASSUME Core, HeadersEnd PROVE Core' /\ Quiet
<1> DEFINE t == To("s_headers_almost_done")
           b == "UPGRADE" \in parser.flags \/ parser.connect
           q == [t EXCEPT !.nread = 0, !.upgrade = b]
<1>1. /\ Byte(BetweenLines \union {"s_headers_almost_done"})
      /\ {"s_headers_almost_done", "s_chunk_size_start", "s_body_identity"} \subseteq States
  BY DEF HeadersEnd, States, HeaderStates, FieldStates, ChunkHeadStates
<1>2. /\ t \in Parser /\ t.errno = "OK" /\ t.flags = parser.flags /\ t.length = parser.length
  BY <1>1, ToFacts
<1>3. b \in BOOLEAN /\ 0 \in 0..MaxHeader
  BY HeaderAssumption DEF Core, Parser
<1>4. /\ q \in Parser /\ q.errno = "OK" /\ q.flags = parser.flags /\ q.length = parser.length
      /\ q.nread = 0
  <2> HIDE DEF t, b
  <2> QED BY <1>2, <1>3 DEF Parser
<1>5. DOMAIN marks = {} /\ MarksOK(marks)
  BY <1>1, Unmarked DEF Byte, BetweenLines, TextStates, Core
<1>6. request \in Request /\ Paired(request)
  BY DEF Core
<1>7. \/ MessageComplete(q, request, 0)
      \/ "CHUNKED" \in parser.flags /\ Step([q EXCEPT !.state = "s_chunk_size_start"])
      \/ parser.length \notin {0, MaxLength} /\ Step([q EXCEPT !.state = "s_body_identity"])
  BY DEF HeadersEnd
<1> HIDE DEF q
<1>8. CASE MessageComplete(q, request, 0)
  BY <1>4, <1>5, <1>6, <1>8, CompleteCore
<1>9. ASSUME NEW s \in {"s_chunk_size_start", "s_body_identity"}, Step([q EXCEPT !.state = s]),
             s = "s_chunk_size_start" => "CHUNKED" \in parser.flags,
             s = "s_body_identity" => parser.length \notin {0, MaxLength}
      PROVE  Core' /\ Quiet
  <2> DEFINE v == [q EXCEPT !.state = s]
  <2>1. /\ v \in Parser /\ v.errno = "OK" /\ v.state = s /\ v.nread = 0
        /\ v.flags = parser.flags /\ v.length = parser.length
    BY <1>1, <1>4, <1>9 DEF Parser
  <2> HIDE DEF v
  <2>2. Asserted(v, DOMAIN marks) /\ Lined(v, request, DOMAIN marks)
    BY <1>5, <1>9, <2>1 DEF Asserted, MarkedIn, Lined, Named, ChunkHeadStates, ChunkDataStates
  <2>3. Reads(0, v, marks)
    BY <1>9 DEF Step, v
  <2>4. QuietTo(v)
    BY <2>1 DEF QuietTo, InNumber, ChunkHeadStates
  <2> QED BY <1>5, <2>1, <2>2, <2>3, <2>4, ReadsCore
<1> QED BY <1>7, <1>8, <1>9

-----------------------------------------------------------------------------
(***************************************************************************)
(* Numbers.                                                                *)
(***************************************************************************)

LEMMA Wraps ==
  ASSUME NEW base \in Nat, base > 1, NEW len \in Lengths, NEW d \in 0..base - 1
  PROVE  /\ NextLength(base, len, d) \in Lengths
         /\ len * base + d \in Nat
         /\ len * base + d >= len
         /\ len * base + d < LengthSpan => NextLength(base, len, d) = len * base + d
<1> DEFINE x == len * base
<1>1. LengthSpan \in Nat /\ LengthSpan > 0 /\ len \in Nat /\ d \in Nat
  BY LengthAssumption DEF Lengths, MaxLength
<1>2. x \in Nat /\ x >= len
  BY <1>1
<1> HIDE DEF x
<1>3. x + d \in Nat /\ x + d >= len
  BY <1>1, <1>2
<1>4. (x + d) % LengthSpan \in 0..LengthSpan - 1
  BY <1>1, <1>3
<1>5. x + d < LengthSpan => (x + d) % LengthSpan = x + d
  BY <1>1, <1>3
<1> QED BY <1>3, <1>4, <1>5 DEF NextLength, Lengths, MaxLength, x

LEMMA DigitFits ==
  ASSUME NEW base \in {DecBase, HexBase}, NEW d \in 0..base - 1
  PROVE  d % LengthSpan = d /\ d \in Lengths /\ d # MaxLength
BY LengthAssumption DEF Lengths, MaxLength

LEMMA FirstDigitCore ==
  ASSUME Core, NEW base \in {DecBase, HexBase}, NEW n \in Nat, NEW S, Byte(S),
         NEW s \in States, NEW m, MarksOK(m), FirstDigit(base, n, s, m),
         \A q \in Parser : q.state = s /\ q.flags = parser.flags /\ q.length # MaxLength
            => Asserted(q, DOMAIN m) /\ Lined(q, request, DOMAIN m)
  PROVE  Core'
<1>1. PICK d \in 0..base - 1 : Reads(n, [To(s) EXCEPT !.length = d % LengthSpan], m)
  BY DEF FirstDigit
<1> DEFINE t == To(s)
           q == [t EXCEPT !.length = d]
<1>2. t \in Parser /\ t.state = s /\ t.errno = "OK" /\ t.flags = parser.flags
  BY ToFacts
<1>3. d % LengthSpan = d /\ d \in Lengths /\ d # MaxLength
  BY DigitFits
<1>4. Reads(n, q, m)
  BY <1>1, <1>3
<1>5. /\ q \in Parser /\ q.errno = "OK" /\ q.state = s /\ q.flags = parser.flags
      /\ q.length # MaxLength
  <2> HIDE DEF t
  <2> QED BY <1>2, <1>3 DEF Parser
<1> HIDE DEF q
<1> QED BY <1>4, <1>5, ReadsCore

LEMMA NextDigitCore ==
  ASSUME Core, NEW base \in {DecBase, HexBase}, NEW n \in Nat, NEW S, Byte(S),
         NextDigit(base, n),
         parser.state \in {"s_header_value", "s_chunk_size"}
  PROVE  Core'
<1>1. PICK d \in 0..base - 1 :
       \/ /\ ~LengthRefused(base, parser.length, d)
          /\ Reads(n, [To(parser.state) EXCEPT !.length = NextLength(base, @, d)], marks)
       \/ Error("CONTENT_LENGTH")
  BY DEF NextDigit
<1>2. CASE Error("CONTENT_LENGTH")
  BY <1>2, ErrorCore
<1>3. CASE /\ ~LengthRefused(base, parser.length, d)
           /\ Reads(n, [To(parser.state) EXCEPT !.length = NextLength(base, @, d)], marks)
  <2> DEFINE t == To(parser.state)
             l == NextLength(base, parser.length, d)
             q == [t EXCEPT !.length = l]
  <2>1. parser.state \in States /\ parser.length \in Lengths /\ MarksOK(marks)
    BY DEF Core, Parser
  <2>2. /\ t \in Parser /\ t.state = parser.state /\ t.errno = "OK"
        /\ t.flags = parser.flags /\ t.length = parser.length
    BY <2>1, ToFacts
  <2>3. l \in Lengths /\ l # MaxLength
    BY <1>3, <2>1, Wraps, LengthAssumption DEF LengthRefused
  <2>4. Reads(n, q, marks)
    <3> HIDE DEF t
    <3> QED BY <1>3, <2>2 DEF Parser, t
  <2>5. /\ q \in Parser /\ q.errno = "OK" /\ q.state = parser.state
        /\ q.flags = parser.flags /\ q.length # MaxLength
    <3> HIDE DEF t, l
    <3> QED BY <2>2, <2>3 DEF Parser
  <2> HIDE DEF q
  <2>6. Asserted(q, DOMAIN marks) /\ Lined(q, request, DOMAIN marks)
    BY <2>5 DEF Core, Asserted, MarkedIn, Lined, Named, ChunkHeadStates, ChunkDataStates
  <2> QED BY <2>1, <2>4, <2>5, <2>6, ReadsCore
<1> QED BY <1>1, <1>2, <1>3

LEMMA ContentLengthCore == ASSUME Core, ContentLength PROVE Core'
<1>1. CASE /\ Byte({"s_header_value_start"})
           /\ FirstDigit(DecBase, 1, "s_header_value", Mark("header_value"))
  <2>1. /\ request.lines # <<>> /\ DOMAIN marks = {} /\ "header_value" \in Texts
        /\ "s_header_value" \in States
    BY <1>1, Unmarked
    DEF Byte, Core, Lined, Named, TextStates, Texts, States, HeaderStates, FieldStates
  <2>2. MarksOK(Mark("header_value")) /\ DOMAIN Mark("header_value") = {"header_value"}
    BY <2>1, MarkDomains DEF Core
  <2>3. ASSUME NEW q \in Parser, q.state = "s_header_value"
        PROVE  /\ Asserted(q, DOMAIN Mark("header_value"))
               /\ Lined(q, request, DOMAIN Mark("header_value"))
    BY <2>1, <2>2, <2>3 DEF Asserted, MarkedIn, Lined, ChunkHeadStates, ChunkDataStates
  <2> QED BY <1>1, <2>1, <2>2, <2>3, FirstDigitCore
<1>2. CASE Byte({"s_header_value"}) /\ NextDigit(DecBase, 1)
  BY <1>2, NextDigitCore DEF Byte
<1> QED BY <1>1, <1>2 DEF ContentLength

LEMMA ChunkSizeCore == ASSUME Core, ChunkSize PROVE Core'
<1>1. CASE Byte({"s_chunk_size_start"}) /\ FirstDigit(HexBase, 0, "s_chunk_size", marks)
  <2>1. /\ DOMAIN marks = {} /\ MarksOK(marks) /\ "s_chunk_size" \in States
        /\ "CHUNKED" \in parser.flags
    BY <1>1, Unmarked
    DEF Byte, Core, Asserted, TextStates, States, HeaderStates, ChunkHeadStates
  <2>2. ASSUME NEW q \in Parser, q.state = "s_chunk_size", q.flags = parser.flags,
               q.length # MaxLength
        PROVE  Asserted(q, DOMAIN marks) /\ Lined(q, request, DOMAIN marks)
    BY <2>1, <2>2 DEF Asserted, MarkedIn, Lined, Named, ChunkHeadStates, ChunkDataStates
  <2> QED BY <1>1, <2>1, <2>2, FirstDigitCore
<1>2. CASE Byte({"s_chunk_size"}) /\ NextDigit(HexBase, 0)
  BY <1>2, NextDigitCore DEF Byte
<1> QED BY <1>1, <1>2 DEF ChunkSize

-----------------------------------------------------------------------------
(***************************************************************************)
(* Bodies.                                                                 *)
(***************************************************************************)

LEMMA ChunkHeadCore == ASSUME Core, ChunkSizeEnds \/ ChunkBegins PROVE Core' /\ Quiet
<1>1. CASE ChunkSizeEnds
  <2>1. PICK s \in {"s_chunk_size_almost_done", "s_chunk_parameters"} :
          Step(To(s)) /\ Byte({"s_chunk_size", "s_chunk_parameters"})
    BY <1>1 DEF ChunkSizeEnds, Byte
  <2>2. s \in States
    BY DEF States, HeaderStates, ChunkHeadStates
  <2>3. /\ To(s) \in Parser /\ To(s).state = s /\ To(s).errno = "OK"
        /\ To(s).flags = parser.flags /\ To(s).length = parser.length
        /\ parser.state \in {"s_chunk_size", "s_chunk_parameters"} /\ parser.errno = "OK"
    BY <2>1, <2>2, ToFacts
  <2>4. DOMAIN marks = {} /\ MarksOK(marks)
    BY <2>3, Unmarked DEF TextStates, Core
  <2>5. Asserted(To(s), DOMAIN marks) /\ Lined(To(s), request, DOMAIN marks)
    BY <2>3, <2>4
    DEF Core, Asserted, MarkedIn, Lined, Named, ChunkHeadStates, ChunkDataStates
  <2>6. QuietTo(To(s))
    BY <2>3 DEF QuietTo, InNumber, ChunkHeadStates
  <2> QED BY <2>1, <2>3, <2>4, <2>5, <2>6, ReadsCore DEF Step
<1>2. CASE ChunkBegins
  <2> DEFINE t == To("s_chunk_data")
             q == [t EXCEPT !.nread = 0]
  <2>1. /\ Byte({"s_chunk_size_almost_done"}) /\ "s_chunk_data" \in States
        /\ 0 \in 0..MaxHeader /\ parser.length > 0 /\ Reads(0, q, marks)
    BY <1>2, HeaderAssumption DEF ChunkBegins, States, ChunkDataStates, Step
  <2>2. /\ t \in Parser /\ t.state = "s_chunk_data" /\ t.errno = "OK"
        /\ t.flags = parser.flags /\ t.length = parser.length
        /\ parser.state = "s_chunk_size_almost_done"
    BY <2>1, ToFacts
  <2>3. /\ q \in Parser /\ q.state = "s_chunk_data" /\ q.errno = "OK"
        /\ q.flags = parser.flags /\ q.length = parser.length
    <3> HIDE DEF t
    <3> QED BY <2>1, <2>2 DEF Parser
  <2> HIDE DEF q
  <2>4. DOMAIN marks = {} /\ MarksOK(marks)
    BY <2>2, Unmarked DEF TextStates, Core
  <2>5. q.length \notin {0, MaxLength} /\ "CHUNKED" \in q.flags
    BY <2>1, <2>2, <2>3 DEF Core, Asserted, ChunkHeadStates
  <2>6. Asserted(q, DOMAIN marks) /\ Lined(q, request, DOMAIN marks)
    BY <2>3, <2>4, <2>5 DEF Asserted, MarkedIn, Lined, Named, ChunkHeadStates, ChunkDataStates
  <2>7. QuietTo(q)
    BY <2>3 DEF QuietTo, InNumber, ChunkHeadStates
  <2> QED BY <2>1, <2>3, <2>4, <2>6, <2>7, ReadsCore
<1> QED BY <1>1, <1>2

\* A byte of a body, with more to come or not.
LEMMA BodyTextCore ==
  ASSUME Core, NEW S, Byte(S), NEW s \in States, parser.length \in Lengths \ {0, MaxLength},
         S \subseteq {"s_chunk_data", "s_body_identity"},
         TextByte([To(s) EXCEPT !.length = @ - 1], Mark("body")),
         s \in {"s_chunk_data", "s_chunk_data_almost_done", "s_body_identity"},
         s # "s_body_identity" => "CHUNKED" \in parser.flags,
         parser.length = 1 <=> s = "s_chunk_data_almost_done"
  PROVE  Core' /\ Quiet
<1> DEFINE t == To(s)
           l == parser.length - 1
           q == [t EXCEPT !.length = l]
<1>1. /\ t \in Parser /\ t.state = s /\ t.errno = "OK"
      /\ t.flags = parser.flags /\ t.length = parser.length
  BY ToFacts
<1>2. /\ l \in Lengths /\ l # MaxLength
      /\ s = "s_chunk_data_almost_done" => l = 0
      /\ s # "s_chunk_data_almost_done" => l # 0
  BY LengthAssumption DEF Lengths, MaxLength
<1>3. TextByte(q, Mark("body"))
  <2>1. [t EXCEPT !.length = @ - 1] = q
    <3> HIDE DEF t
    <3> QED BY <1>1 DEF Parser
  <2> QED BY <2>1
<1>4. /\ q \in Parser /\ q.state = s /\ q.errno = "OK" /\ q.flags = parser.flags
      /\ q.length = l
  <2> HIDE DEF t, l
  <2> QED BY <1>1, <1>2 DEF Parser
<1> HIDE DEF q, l
<1>5. DOMAIN marks \subseteq {"body"}
  BY DEF Core, Asserted, MarkedIn, Byte
<1>6. MarksOK(Mark("body")) /\ DOMAIN Mark("body") = {"body"}
  BY <1>5, MarkDomains DEF Core, Texts
<1>7. Asserted(q, DOMAIN Mark("body")) /\ Lined(q, request, DOMAIN Mark("body"))
  BY <1>2, <1>4, <1>6
  DEF Asserted, MarkedIn, Lined, Named, ChunkHeadStates, ChunkDataStates
<1>8. QuietTo(q)
  BY <1>4 DEF QuietTo, InNumber, ChunkHeadStates
<1> QED BY <1>3, <1>4, <1>6, <1>7, <1>8, ReadsCore DEF TextByte

LEMMA BodyBytesCore == ASSUME Core, ChunkData \/ BodyByte PROVE Core' /\ Quiet
<1>1. CASE ChunkData
  <2> DEFINE s == IF parser.length = 1 THEN "s_chunk_data_almost_done" ELSE "s_chunk_data"
  <2>1. Byte({"s_chunk_data"}) /\ TextByte([To(s) EXCEPT !.length = @ - 1], Mark("body"))
    BY <1>1 DEF ChunkData
  <2>2. /\ parser.length \in Lengths \ {0, MaxLength} /\ "CHUNKED" \in parser.flags
    BY <2>1 DEF Byte, Core, Parser, Asserted, ChunkDataStates
  <2>3. s \in {"s_chunk_data", "s_chunk_data_almost_done"} /\ s \in States
    BY DEF States, ChunkDataStates
  <2>4. parser.length = 1 <=> s = "s_chunk_data_almost_done"
    OBVIOUS
  <2> HIDE DEF s
  <2> QED BY <2>1, <2>2, <2>3, <2>4, BodyTextCore
<1>2. CASE BodyByte
  <2>1. /\ Byte({"s_body_identity"}) /\ "s_body_identity" \in States
        /\ TextByte([To("s_body_identity") EXCEPT !.length = @ - 1], Mark("body"))
    BY <1>2 DEF BodyByte, States
  <2>2. parser.length \in Lengths \ {0, MaxLength} /\ parser.length # 1
    BY <1>2, <2>1 DEF BodyByte, Byte, Core, Parser, Asserted, Lengths
  <2> QED BY <2>1, <2>2, BodyTextCore
<1> QED BY <1>1, <1>2

LEMMA ChunkEndsCore == ASSUME Core, ChunkDataEnds \/ ChunkDone PROVE Core' /\ Quiet
<1>1. CASE ChunkDataEnds
  <2> DEFINE q == To("s_chunk_data_done")
  <2>1. /\ Byte({"s_chunk_data_almost_done"}) /\ "s_chunk_data_done" \in States
        /\ "body" \in Texts /\ Callback("body", q)
    BY <1>1 DEF ChunkDataEnds, States, ChunkDataStates, Texts
  <2>2. /\ q \in Parser /\ q.state = "s_chunk_data_done" /\ q.errno = "OK"
        /\ q.flags = parser.flags
    BY <2>1, ToFacts
  <2> HIDE DEF q
  <2>3. DOMAIN marks \ {"body"} = {} /\ "CHUNKED" \in parser.flags
    BY <2>1 DEF Core, Asserted, MarkedIn, Byte, ChunkDataStates
  <2>4. Asserted(q, {}) /\ q.state # "s_header_field" /\ q.state \notin Named
    BY <2>2, <2>3 DEF Asserted, MarkedIn, Named, ChunkHeadStates, ChunkDataStates
  <2>5. QuietTo(q)
    BY <2>2 DEF QuietTo, InNumber, ChunkHeadStates
  <2> QED BY <2>1, <2>2, <2>3, <2>4, <2>5, CallbackCore
<1>2. CASE ChunkDone
  <2> DEFINE t == To("s_chunk_size_start")
             q == [t EXCEPT !.nread = 0]
  <2>1. /\ Byte({"s_chunk_data_done"}) /\ "s_chunk_size_start" \in States
        /\ 0 \in 0..MaxHeader /\ Reads(0, q, marks)
    BY <1>2, HeaderAssumption
    DEF ChunkDone, States, HeaderStates, ChunkHeadStates, Step
  <2>2. /\ t \in Parser /\ t.state = "s_chunk_size_start" /\ t.errno = "OK"
        /\ t.flags = parser.flags /\ parser.state = "s_chunk_data_done"
    BY <2>1, ToFacts
  <2>3. /\ q \in Parser /\ q.state = "s_chunk_size_start" /\ q.errno = "OK"
        /\ q.flags = parser.flags /\ q.nread = 0
    <3> HIDE DEF t
    <3> QED BY <2>1, <2>2 DEF Parser
  <2> HIDE DEF q
  <2>4. DOMAIN marks = {} /\ MarksOK(marks) /\ "CHUNKED" \in parser.flags
    BY <2>2, Unmarked DEF TextStates, Core, Asserted, ChunkDataStates
  <2>5. Asserted(q, DOMAIN marks) /\ Lined(q, request, DOMAIN marks)
    BY <2>3, <2>4 DEF Asserted, MarkedIn, Lined, Named, ChunkHeadStates, ChunkDataStates
  <2>6. QuietTo(q)
    BY <2>3 DEF QuietTo, InNumber, ChunkHeadStates
  <2> QED BY <2>1, <2>3, <2>4, <2>5, <2>6, ReadsCore
<1> QED BY <1>1, <1>2

LEMMA LastBodyByteCore == ASSUME Core, LastBodyByte PROVE Core' /\ Quiet
<1> DEFINE t == To("s_body_identity")
           q == [t EXCEPT !.length = 0]
           r == Received(request, "body", WholeBody(Mark("body")))
<1>1. /\ Byte({"s_body_identity"}) /\ "s_body_identity" \in States /\ "body" \in Texts
      /\ MessageComplete(q, r, 1) \/ Error("CALLBACK")
  BY DEF LastBodyByte, States, Texts
<1>2. t \in Parser /\ t.errno = "OK"
  BY <1>1, ToFacts
<1>3. q \in Parser /\ q.errno = "OK"
  <2>1. 0 \in Lengths
    BY LengthAssumption DEF Lengths, MaxLength
  <2> HIDE DEF t
  <2> QED BY <1>2, <2>1 DEF Parser
<1> HIDE DEF q
<1>4. DOMAIN marks \subseteq {"body"}
  BY <1>1 DEF Core, Asserted, MarkedIn, Byte
<1>5. MarksOK(Mark("body")) /\ "body" \in DOMAIN Mark("body")
  BY <1>1, MarkDomains DEF Core
<1>6. WholeBody(Mark("body")) \in Nat
  BY <1>5 DEF WholeBody, MarksOK
<1>7. r \in Request /\ Paired(r)
  BY <1>1, <1>6, Receiving DEF Core
<1> HIDE DEF r
<1>8. CASE MessageComplete(q, r, 1)
  BY <1>3, <1>4, <1>7, <1>8, CompleteCore
<1>9. CASE Error("CALLBACK")
  BY <1>9, ErrorCore
<1> QED BY <1>1, <1>8, <1>9

-----------------------------------------------------------------------------
(***************************************************************************)
(* All steps.                                                              *)
(***************************************************************************)

\* The steps that leave the numbers read so far alone.
QuietNext ==
  \/ BufferStart   \/ BufferEnd         \/ Inside      \/ InsideText
  \/ MethodEnds    \/ UrlByte           \/ UrlEnds     \/ Version
  \/ LineEnds      \/ FieldBegins       \/ FieldEnds   \/ ValueEmpty
  \/ ValueBegins   \/ ValueEnds         \/ HeaderLineEnds
  \/ Fold          \/ HeadersAlmostDone \/ TrailerEnds
  \/ ChunkSizeEnds \/ LastChunk         \/ ChunkData   \/ ChunkDataEnds
  \/ ChunkDone     \/ BodyByte          \/ LastBodyByte
  \/ Refuse        \/ Overflow

LEMMA QuietNextCore == ASSUME Core, QuietNext PROVE Core' /\ Quiet
<1>1. CASE Refuse
  BY <1>1, ErrorCore DEF Refuse
<1>2. CASE Overflow
  BY <1>2, ErrorCore DEF Overflow
<1> QED
  BY <1>1, <1>2, BufferStartCore, BufferEndCore, InsideCore, LineCore, UrlCore, FieldCore,
     ValueEmptyCore, ValueBeginsCore, ValueEndsCore, LineFoldCore, TrailerEndsCore,
     ChunkHeadCore, BodyBytesCore, ChunkEndsCore, LastBodyByteCore
  DEF QuietNext

LEMMA CoreNext ==
  ASSUME Core, [Next]_vars
  PROVE  Core'
<1>1. CASE QuietNext
  BY <1>1, QuietNextCore
<1>2. CASE UNCHANGED vars
  BY <1>2 DEF vars, Core
<1> QED
  BY <1>1, <1>2, MessageBeginCore, HeadersEndCore, ContentLengthCore, ChunkSizeCore,
     ChunkHeadCore
  DEF Next, QuietNext

LEMMA Spelling ==
  ASSUME NEW n \in Nat, Spell(n)
  PROVE  /\ spelled' \in 0..LengthSpan
         /\ spelled' < LengthSpan => spelled' = n
         /\ n >= MaxLength => spelled' >= MaxLength
BY LengthAssumption DEF Spell, MaxLength

LEMMA CountsNext ==
  ASSUME Core, Counts, [Next]_vars
  PROVE  Counts'
<1>1. /\ spelled \in Nat /\ parser.length \in Nat /\ 0 \in 0..LengthSpan
      /\ DecBase \in Nat /\ HexBase \in Nat
  BY LengthAssumption DEF Counts, Core, Parser, Lengths, MaxLength
<1>2. ASSUME NEW base \in {DecBase, HexBase}, NEW d \in 0..base - 1,
             Spell(d) \/ Spell(spelled * base + d)
      PROVE  spelled' \in 0..LengthSpan
  <2>1. d \in Nat /\ spelled * base \in Nat
    BY <1>1
  <2>2. spelled * base + d \in Nat
    BY <2>1
  <2> QED BY <1>2, <2>1, <2>2, Spelling
<1>3. CASE ContentLength
  BY <1>2, <1>3 DEF ContentLength, FirstDigit, NextDigit, Counts
<1>4. CASE ChunkSize
  BY <1>2, <1>4 DEF ChunkSize, FirstDigit, NextDigit, Counts
<1>5. CASE MessageBegin
  BY <1>1, <1>5 DEF MessageBegin, Counts
<1>6. CASE HeadersEnd
  BY <1>1, <1>6 DEF HeadersEnd, Counts
<1>7. CASE ChunkBegins
  BY <1>1, <1>7 DEF ChunkBegins, Counts
<1>8. CASE UNCHANGED <<spelled, due>>
  BY <1>8 DEF Counts
<1> QED BY <1>3, <1>4, <1>5, <1>6, <1>7, <1>8 DEF Next, vars

\* Every byte and every cut keep every variable in its type.
THEOREM TypeCorrect == Spec => []TypeOK
<1>1. Core /\ Counts /\ [Next]_vars => (Core /\ Counts)'
  BY CoreNext, CountsNext
<1>2. Core /\ Counts => TypeOK
  BY DEF Core, Counts, TypeOK, MarksOK
<1> QED BY <1>1, <1>2, CoreInit, PTL DEF Spec

\* The assertions of http_parser_execute hold for every input and every way to
\* cut it into buffers.
THEOREM AssertionsAlwaysHold == Spec => []AssertionsHold
<1>1. Core /\ [Next]_vars => Core'
  BY CoreNext
<1>2. Core => AssertionsHold
  <2> SUFFICES ASSUME Core PROVE AssertionsHold
    OBVIOUS
  <2> DEFINE D == DOMAIN marks
  <2>1. \A k, l \in D : k = l
    BY DEF Core, Asserted, MarkedIn
  <2> HIDE DEF D
  <2>2. Cardinality(D) <= 1
    <3>1. CASE D = {}
      BY <3>1, FS_EmptySet
    <3>2. CASE D # {}
      <4>1. PICK k : D = {k}
        BY <2>1, <3>2
      <4>2. Cardinality({k}) = 1
        BY FS_Singleton
      <4> QED BY <4>1, <4>2
    <3> QED BY <3>1, <3>2
  <2> QED BY <2>2 DEF Core, Asserted, AssertionsHold, D
<1> QED BY <1>1, <1>2, CoreInit, PTL DEF Spec

\* Wherever a header is cut, its value goes to the line of its name.
THEOREM LinesStayPaired == Spec => []LinesPaired
<1>1. Core /\ [Next]_vars => Core'
  BY CoreNext
<1>2. Core => LinesPaired
  BY DEF Core, Paired, Lined, Named, LinesPaired
<1> QED BY <1>1, <1>2, CoreInit, PTL DEF Spec

-----------------------------------------------------------------------------
(***************************************************************************)
(* What the overflow test is good for.                                     *)
(***************************************************************************)

LEMMA Sounding ==
  /\ LengthSound =
       /\ parser.errno = "CONTENT_LENGTH" => spelled >= MaxLength
       /\ InNumber(parser) /\ spelled < MaxLength => parser.length = spelled
  /\ InNumber(parser) = (parser.errno = "OK" /\ ReadingNumber)
BY DEF LengthSound, InNumber, ReadingNumber

LEMMA FirstDigitSound ==
  ASSUME Core, Counts, NEW base \in {DecBase, HexBase}, NEW n, NEW S, Byte(S),
         NEW s \in States, NEW m, FirstDigit(base, n, s, m)
  PROVE  LengthSound'
<1>1. PICK d \in 0..base - 1 :
        Reads(n, [To(s) EXCEPT !.length = d % LengthSpan], m) /\ Spell(d)
  BY DEF FirstDigit
<1> DEFINE t == To(s)
           q == [t EXCEPT !.length = d]
<1>2. t \in Parser /\ t.errno = "OK"
  BY ToFacts
<1>3. d % LengthSpan = d /\ d \in Lengths /\ d \in Nat
  BY DigitFits DEF Lengths
<1>4. parser' = q
  BY <1>1, <1>3 DEF Reads
<1>5. q.length = d /\ q.errno = "OK"
  <2> HIDE DEF t
  <2> QED BY <1>2 DEF Parser
<1>6. spelled' < LengthSpan => spelled' = d
  BY <1>1, <1>3, Spelling
<1>7. spelled' < MaxLength => spelled' = d
  BY <1>1, <1>3, <1>6, Spelling, LengthAssumption DEF MaxLength
<1> QED BY <1>4, <1>5, <1>7 DEF LengthSound

LEMMA NextDigitSound ==
  ASSUME Core, Counts, LengthSound, NEW base \in {DecBase, HexBase}, NEW n,
         NEW S, Byte(S), NextDigit(base, n),
         InNumber(parser)
  PROVE  LengthSound'
<1>1. PICK d \in 0..base - 1 :
       /\ \/ /\ ~LengthRefused(base, parser.length, d)
             /\ Reads(n, [To(parser.state) EXCEPT !.length = NextLength(base, @, d)], marks)
          \/ /\ LengthRefused(base, parser.length, d)
             /\ Error("CONTENT_LENGTH")
       /\ Spell(spelled * base + d)
  BY DEF NextDigit
<1> DEFINE k == spelled * base + d
           l == NextLength(base, parser.length, d)
<1>2. /\ parser.length \in Lengths /\ parser.state \in States /\ spelled \in Nat
      /\ base \in Nat /\ base > 1 /\ d \in Nat
  BY LengthAssumption DEF Core, Parser, Counts
<1>3. k \in Nat /\ k >= spelled
  <2> DEFINE x == spelled * base
  <2>1. x \in Nat /\ x >= spelled
    BY <1>2
  <2> HIDE DEF x
  <2>2. x + d \in Nat /\ x + d >= spelled
    BY <1>2, <2>1
  <2> QED BY <2>2 DEF x
\* A number that fits so far has been taken as it is written.
<1>4. k < MaxLength => spelled = parser.length /\ l = k
  <2> SUFFICES ASSUME k < MaxLength PROVE spelled = parser.length /\ l = k
    OBVIOUS
  <2>1. spelled < MaxLength
    <3> HIDE DEF k
    <3> QED BY <1>2, <1>3, LengthAssumption DEF MaxLength
  <2>2. parser.length = spelled
    BY <2>1, Sounding
  <2>3. parser.length * base + d < LengthSpan
    <3> HIDE DEF k
    <3>1. k < LengthSpan
      BY <1>3, LengthAssumption DEF MaxLength
    <3> QED BY <2>2, <3>1 DEF k
  <2> QED BY <1>2, <2>2, <2>3, Wraps
<1>5. /\ spelled' < LengthSpan => spelled' = k
      /\ k >= MaxLength => spelled' >= MaxLength
      /\ spelled' \in Nat
  BY <1>1, <1>3, Spelling
<1> HIDE DEF k, l
<1>6. CASE /\ ~LengthRefused(base, parser.length, d)
           /\ Reads(n, [To(parser.state) EXCEPT !.length = NextLength(base, @, d)], marks)
  <2> DEFINE t == To(parser.state)
             q == [t EXCEPT !.length = l]
  <2>1. t \in Parser /\ t.errno = "OK" /\ t.length = parser.length
    BY <1>2, ToFacts
  <2>2. parser' = q
    <3> HIDE DEF t
    <3> QED BY <1>6, <2>1 DEF Parser, t, l, Reads
  <2>3. q.length = l /\ q.errno = "OK"
    <3> HIDE DEF t
    <3> QED BY <2>1 DEF Parser
  <2>4. spelled' < MaxLength => l = spelled'
    BY <1>3, <1>4, <1>5, LengthAssumption DEF MaxLength
  <2> HIDE DEF q
  <2> QED BY <2>2, <2>3, <2>4 DEF LengthSound
<1>7. CASE LengthRefused(base, parser.length, d) /\ Error("CONTENT_LENGTH")
  <2>1. parser'.state = "s_start_req"
    BY <1>7, NewParserOK DEF Error
  <2>2. ~ReadingNumber'
    BY <2>1 DEF ReadingNumber, ChunkHeadStates
  <2>3. k >= MaxLength
    <3>1. l < parser.length \/ l = MaxLength
      BY <1>7 DEF LengthRefused, l
    <3> QED BY <1>2, <1>3, <1>4, <3>1, LengthAssumption DEF MaxLength
  <2> QED BY <1>5, <2>2, <2>3 DEF LengthSound
<1> QED BY <1>1, <1>6, <1>7

LEMMA SoundNext ==
  ASSUME Core, Counts, LengthSound, [Next]_vars
  PROVE  LengthSound'
<1>1. ASSUME Quiet, UNCHANGED spelled
      PROVE  LengthSound'
  BY <1>1 DEF Quiet, QuietTo, InNumber, LengthSound, ReadingNumber
<1>2. CASE QuietNext /\ UNCHANGED <<spelled, due>>
  BY <1>1, <1>2, QuietNextCore
<1>3. CASE HeadersEnd
  BY <1>1, <1>3, HeadersEndCore DEF HeadersEnd
<1>4. CASE ChunkBegins
  BY <1>1, <1>4, ChunkHeadCore DEF ChunkBegins
<1>5. CASE MessageBegin
  <2>1. Byte({"s_start_req"}) /\ "s_req_method" \in States
    BY <1>5 DEF MessageBegin, States, HeaderStates, LineStates
  <2> DEFINE t == To("s_req_method")
  <2>2. t \in Parser /\ t.state = "s_req_method" /\ t.errno = "OK"
    BY <2>1, ToFacts
  <2>3. parser' = [t EXCEPT !.flags = {}, !.length = MaxLength]
    BY <1>5 DEF MessageBegin
  <2> HIDE DEF t
  <2>4. parser'.state = "s_req_method" /\ parser'.errno = "OK"
    BY <2>2, <2>3 DEF Parser
  <2> QED BY <2>4 DEF LengthSound, ReadingNumber, ChunkHeadStates
<1>6. CASE ContentLength
  <2>1. "s_header_value" \in States
    BY DEF States, HeaderStates, FieldStates
  <2>2. Byte({"s_header_value"}) /\ parser.header_state = "content_length" => InNumber(parser)
    BY DEF Byte, Core, InNumber
  <2> QED BY <1>6, <2>1, <2>2, FirstDigitSound, NextDigitSound DEF ContentLength
<1>7. CASE ChunkSize
  <2>1. "s_chunk_size" \in States
    BY DEF States, HeaderStates, ChunkHeadStates
  <2>2. Byte({"s_chunk_size"}) => InNumber(parser)
    BY DEF Byte, Core, InNumber, ChunkHeadStates
  <2> QED BY <1>7, <2>1, <2>2, FirstDigitSound, NextDigitSound DEF ChunkSize
<1>8. CASE UNCHANGED vars
  BY <1>8 DEF vars, LengthSound, ReadingNumber
<1> QED BY <1>2, <1>3, <1>4, <1>5, <1>6, <1>7, <1>8 DEF Next, QuietNext

\* Only a length that does not fit into uint64_t is refused, and one that fits
\* is taken as it is written, whatever its width and the base of its digits.
THEOREM LengthStaysSound == Spec => []LengthSound
<1>1. Core /\ Counts /\ LengthSound /\ [Next]_vars => (Core /\ Counts /\ LengthSound)'
  BY CoreNext, CountsNext, SoundNext
<1>2. Init => LengthSound
  BY DEF Init, NewParser, LengthSound, ReadingNumber, ChunkHeadStates
<1> QED BY <1>1, <1>2, CoreInit, PTL DEF Spec

-----------------------------------------------------------------------------
(***************************************************************************)
(* What a piece of a text makes of a request.                              *)
(***************************************************************************)

\* A line with f more bytes of name, v more of value.
Longer(l, f, v, valued) ==
  [field |-> l.field + f, value |-> l.value + v, valued |-> valued]

LongerLast(s, f, v, valued) == [s EXCEPT ![Len(s)] = Longer(s[Len(s)], f, v, valued)]

NewLineOf(n) == [field |-> n, value |-> 0, valued |-> FALSE]

Plainly(u, s, b) == [url |-> u, lines |-> s, body |-> b]

LEMMA LongerFacts ==
  ASSUME NEW s \in Seq(Line), s # <<>>, NEW f \in Nat, NEW v \in Nat, NEW b
  PROVE  /\ Len(LongerLast(s, f, v, b)) = Len(s)
         /\ LongerLast(s, f, v, b)[Len(s)] = Longer(s[Len(s)], f, v, b)
<1> DEFINE L == Len(s)
           e == Longer(s[L], f, v, b)
           S == Line \union {e}
<1>1. L \in 1..L /\ s \in Seq(S) /\ e \in S
  OBVIOUS
<1> HIDE DEF e, S
<1>2. Len([s EXCEPT ![L] = e]) = L /\ [s EXCEPT ![L] = e][L] = e
  BY <1>1, ExceptSeq
<1>3. [s EXCEPT ![L] = e] = LongerLast(s, f, v, b) /\ e = Longer(s[L], f, v, b)
  BY DEF LongerLast, e
<1> QED BY <1>2, <1>3

LEMMA LongerType ==
  ASSUME NEW s \in Seq(Line), s # <<>>, NEW f \in Nat, NEW v \in Nat, NEW b \in BOOLEAN
  PROVE  LongerLast(s, f, v, b) \in Seq(Line)
<1> DEFINE e == Longer(s[Len(s)], f, v, b)
<1>1. Len(s) \in 1..Len(s) /\ s[Len(s)] \in Line
  OBVIOUS
<1>2. e \in Line
  BY <1>1 DEF Line, Longer
<1> HIDE DEF e
<1>3. [s EXCEPT ![Len(s)] = e] \in Seq(Line)
  BY <1>1, <1>2, ExceptSeq
<1> QED BY <1>3 DEF LongerLast, e

\* Two pieces are as good as one.
LEMMA NameLonger ==
  ASSUME NEW x \in Line, NEW n \in Nat
  PROVE  /\ [x EXCEPT !.field = x.field + n] \in Line
         /\ [x EXCEPT !.field = x.field + n].valued = x.valued
         /\ [x EXCEPT !.field = x.field + n] = Longer(x, n, 0, x.valued)
<1> DEFINE e == [x EXCEPT !.field = x.field + n]
<1>1. e \in Line /\ e.field = x.field + n /\ e.value = x.value /\ e.valued = x.valued
  BY DEF Line
<1> HIDE DEF e
<1>2. e = [field |-> e.field, value |-> e.value, valued |-> e.valued]
  BY <1>1 DEF Line
<1>3. x.value + 0 = x.value
  BY DEF Line
<1>4. e = Longer(x, n, 0, x.valued)
  BY <1>1, <1>2, <1>3 DEF Longer
<1> QED BY <1>1, <1>4 DEF e

LEMMA LongerTwice ==
  ASSUME NEW s \in Seq(Line), s # <<>>, NEW f \in Nat, NEW v \in Nat,
         NEW g \in Nat, NEW w \in Nat, NEW b, NEW c
  PROVE  LongerLast(LongerLast(s, f, v, b), g, w, c) = LongerLast(s, f + g, v + w, c)
<1> DEFINE t == LongerLast(s, f, v, b)
           L == Len(s)
<1>1. L \in 1..L /\ s[L] \in Line
  OBVIOUS
<1>2. Len(t) = L /\ t[L] = Longer(s[L], f, v, b)
  BY LongerFacts
<1>3. Longer(t[L], g, w, c) = Longer(s[L], f + g, v + w, c)
  <2>1. s[L].field \in Nat /\ s[L].value \in Nat
    BY <1>1 DEF Line
  <2>2. t[L].field = s[L].field + f /\ t[L].value = s[L].value + v
    BY <1>2 DEF Longer
  <2>3. s[L].field + f + g = s[L].field + (f + g) /\ s[L].value + v + w = s[L].value + (v + w)
    BY <2>1
  <2> HIDE DEF t
  <2> QED BY <2>2, <2>3 DEF Longer
<1>4. LongerLast(t, g, w, c) = LongerLast(s, f + g, v + w, c)
  <2>1. LongerLast(t, g, w, c) = [t EXCEPT ![L] = Longer(s[L], f + g, v + w, c)]
    BY <1>2, <1>3 DEF LongerLast
  <2>2. t = [s EXCEPT ![L] = Longer(s[L], f, v, b)]
    BY DEF LongerLast
  <2> HIDE DEF t
  <2>3. LongerLast(t, g, w, c) = [s EXCEPT ![L] = Longer(s[L], f + g, v + w, c)]
    BY <1>1, <2>1, <2>2
  <2> QED BY <2>3 DEF LongerLast
<1> QED BY <1>4

LongerName(s, n) == LongerLast(s, n, 0, FALSE)
LongerValue(s, n) == LongerLast(s, 0, n, TRUE)

LEMMA LongerTexts ==
  ASSUME NEW s \in Seq(Line), s # <<>>, NEW f \in Nat, NEW g \in Nat
  PROVE  /\ LongerName(LongerName(s, f), g) = LongerName(s, f + g)
         /\ LongerValue(LongerValue(s, f), g) = LongerValue(s, f + g)
         /\ ~s[Len(s)].valued => LongerName(s, 0) = s
         /\ s[Len(s)].valued => LongerValue(s, 0) = s
         /\ LongerName(s, f) \in Seq(Line) /\ LongerName(s, f) # <<>>
         /\ ~LongerName(s, f)[Len(LongerName(s, f))].valued
         /\ LongerValue(s, f) \in Seq(Line) /\ LongerValue(s, f) # <<>>
<1> DEFINE L == Len(s)
<1>1. L \in 1..L /\ s[L] \in Line
  OBVIOUS
<1>2. 0 \in Nat /\ TRUE \in BOOLEAN /\ FALSE \in BOOLEAN /\ 0 + 0 = 0
  OBVIOUS
<1>3. \A b : /\ LongerLast(LongerLast(s, f, 0, b), g, 0, b) = LongerLast(s, f + g, 0, b)
             /\ LongerLast(LongerLast(s, 0, f, b), 0, g, b) = LongerLast(s, 0, f + g, b)
  <2>1. \A b : /\ LongerLast(LongerLast(s, f, 0, b), g, 0, b) = LongerLast(s, f + g, 0 + 0, b)
               /\ LongerLast(LongerLast(s, 0, f, b), 0, g, b) = LongerLast(s, 0 + 0, f + g, b)
    BY LongerTwice
  <2> QED BY <1>2, <2>1
<1>4. /\ LongerName(LongerName(s, f), g) = LongerName(s, f + g)
      /\ LongerValue(LongerValue(s, f), g) = LongerValue(s, f + g)
  BY <1>3, Zenon DEF LongerName, LongerValue
<1>5. [s EXCEPT ![L] = s[L]] = s
  BY <1>1
<1>6. /\ ~s[L].valued => LongerName(s, 0) = s
      /\ s[L].valued => LongerValue(s, 0) = s
  <2>1. \A x \in Line : /\ Longer(x, 0, 0, x.valued) = x
                        /\ ~x.valued => x.valued = FALSE
                        /\ x.valued => x.valued = TRUE
    BY DEF Longer, Line
  <2>2. Longer(s[L], 0, 0, s[L].valued) = s[L]
    BY <1>1, <2>1
  <2>3. LongerLast(s, 0, 0, s[L].valued) = s
    BY <1>5, <2>2 DEF LongerLast
  <2> QED BY <1>1, <2>1, <2>3, Zenon DEF LongerName, LongerValue
<1>7. /\ \A b : /\ LongerLast(s, f, 0, b)[L] = Longer(s[L], f, 0, b)
                /\ Len(LongerLast(s, f, 0, b)) = L /\ Len(LongerLast(s, 0, f, b)) = L
      /\ \A b \in BOOLEAN : /\ LongerLast(s, f, 0, b) \in Seq(Line)
                            /\ LongerLast(s, 0, f, b) \in Seq(Line)
  BY LongerFacts, LongerType
<1>8. /\ LongerName(s, f) \in Seq(Line) /\ Len(LongerName(s, f)) = L
      /\ LongerName(s, f)[L] = Longer(s[L], f, 0, FALSE)
      /\ LongerValue(s, f) \in Seq(Line) /\ Len(LongerValue(s, f)) = L
  BY <1>2, <1>7, Zenon DEF LongerName, LongerValue
<1>9. ~Longer(s[L], f, 0, FALSE).valued
  BY DEF Longer
<1>10. \A t \in Seq(Line) : Len(t) = L => t # <<>>
  OBVIOUS
<1> QED BY <1>4, <1>6, <1>8, <1>9, <1>10

\* A line without a value misses it.
Unvalued(r) == ~r.wasValue => ~r.lines[Len(r.lines)].valued

LEMMA ReceivedForms ==
  ASSUME NEW r \in Request, Paired(r), Unvalued(r), NEW n \in Nat
  PROVE  /\ Plain(Received(r, "url", n)) = Plainly(r.url + n, r.lines, r.body)
         /\ Plain(Received(r, "body", n)) = Plainly(r.url, r.lines, r.body + n)
         /\ r.wasValue =>
              Plain(Received(r, "header_field", n))
                = Plainly(r.url, Append(r.lines, NewLineOf(n)), r.body)
         /\ ~r.wasValue =>
              Plain(Received(r, "header_field", n))
                = Plainly(r.url, LongerName(r.lines, n), r.body)
         /\ r.lines # <<>> =>
              Plain(Received(r, "header_value", n))
                = Plainly(r.url, LongerValue(r.lines, n), r.body)
<1> DEFINE L == Len(r.lines)
<1>1. /\ r.url \in Nat /\ r.body \in Nat /\ r.wasValue \in BOOLEAN /\ r.lines \in Seq(Line)
      /\ r = [url |-> r.url, lines |-> r.lines, wasValue |-> r.wasValue, body |-> r.body]
      /\ r.lines # <<>> => L \in 1..L /\ r.lines[L] \in Line
  BY DEF Request
<1>2. Plain(Received(r, "url", n)) = Plainly(r.url + n, r.lines, r.body)
  BY <1>1 DEF Received, Plain, Plainly
<1>3. Plain(Received(r, "body", n)) = Plainly(r.url, r.lines, r.body + n)
  BY <1>1 DEF Received, Plain, Plainly
<1>4. ASSUME r.wasValue
      PROVE  Plain(Received(r, "header_field", n))
               = Plainly(r.url, Append(r.lines, NewLineOf(n)), r.body)
  BY <1>1, <1>4 DEF Received, NewLine, Plain, Plainly, NewLineOf
<1>5. ASSUME ~r.wasValue
      PROVE  Plain(Received(r, "header_field", n))
               = Plainly(r.url, LongerName(r.lines, n), r.body)
  <2> DEFINE e == [r.lines[L] EXCEPT !.field = r.lines[L].field + n]
  <2>1. Received(r, "header_field", n)
          = [url |-> r.url, lines |-> [r.lines EXCEPT ![L] = e],
             wasValue |-> FALSE, body |-> r.body]
    BY <1>1, <1>5 DEF Received, NewLine
  <2>2. e = Longer(r.lines[L], n, 0, r.lines[L].valued)
    <3>1. r.lines[L] \in Line
      BY <1>1, <1>5 DEF Paired
    <3> QED BY <3>1 DEF Longer, Line
  <2>3. r.lines[L].valued = FALSE
    <3>1. r.lines[L] \in Line
      BY <1>1, <1>5 DEF Paired
    <3> QED BY <1>5, <3>1 DEF Line, Unvalued
  <2> HIDE DEF e
  <2>4. LongerName(r.lines, n) = [r.lines EXCEPT ![L] = e]
    BY <2>2, <2>3 DEF LongerName, LongerLast
  <2> QED BY <2>1, <2>4 DEF Plain, Plainly
<1>6. ASSUME r.lines # <<>>
      PROVE  Plain(Received(r, "header_value", n))
               = Plainly(r.url, LongerValue(r.lines, n), r.body)
  <2> DEFINE w == [r.lines[L] EXCEPT !.value = r.lines[L].value + n]
             e == [w EXCEPT !.valued = TRUE]
             v == Received(r, "header_value", n)
  <2>1. v = [r EXCEPT !.lines[Len(r.lines)].value = @ + n,
                      !.lines[Len(r.lines)].valued = TRUE,
                      !.wasValue = TRUE]
    BY DEF Received
  <2>2. /\ v.lines = [[r.lines EXCEPT ![L] = w]
                        EXCEPT ![L] = [[r.lines EXCEPT ![L] = w][L] EXCEPT !.valued = TRUE]]
        /\ v.url = r.url /\ v.body = r.body
    BY <1>1, <2>1
  <2>3. v.lines = [r.lines EXCEPT ![L] = e]
    <3>1. [r.lines EXCEPT ![L] = w][L] = w
      BY <1>1, <1>6
    <3> HIDE DEF w
    <3>2. [[r.lines EXCEPT ![L] = w] EXCEPT ![L] = [w EXCEPT !.valued = TRUE]]
            = [r.lines EXCEPT ![L] = [w EXCEPT !.valued = TRUE]]
      <4> HIDE DEF L
      <4> QED BY <1>1
    <3> HIDE DEF v
    <3> QED BY <2>2, <3>1, <3>2
  <2>4. e = Longer(r.lines[L], 0, n, TRUE)
    <3> HIDE DEF v
    <3>1. r.lines[L] \in Line
      BY <1>1, <1>6
    <3>2. w \in Line /\ w.field = r.lines[L].field /\ w.value = r.lines[L].value + n
      BY <3>1 DEF Line
    <3>3. e \in Line /\ e.field = w.field /\ e.value = w.value /\ e.valued
      <4> HIDE DEF w
      <4> QED BY <3>2 DEF Line
    <3>4. r.lines[L].field + 0 = r.lines[L].field
      BY <3>1 DEF Line
    <3> HIDE DEF w, e
    <3>5. e = [field |-> e.field, value |-> e.value, valued |-> e.valued]
      BY <3>3 DEF Line
    <3>6. e.valued = TRUE
      BY <3>3 DEF Line
    <3> QED BY <3>2, <3>3, <3>4, <3>5, <3>6 DEF Longer
  <2> HIDE DEF e, v
  <2> QED BY <2>2, <2>3, <2>4 DEF Plain, Plainly, LongerValue, LongerLast, v
<1> QED BY <1>2, <1>3, <1>4, <1>5, <1>6

\* What HttpMessage lets a byte of a name, or n bytes of a value, do.
NameGrows(B, C) ==
  \/ /\ Len(B.lines) = 0 \/ B.lines[Len(B.lines)].valued
     /\ C = [B EXCEPT !.lines = Append(@, [field |-> 1, value |-> 0, valued |-> FALSE])]
  \/ /\ Len(B.lines) > 0 /\ ~B.lines[Len(B.lines)].valued
     /\ C = [B EXCEPT !.lines[Len(B.lines)].field = @ + 1]

ValueGrows(B, C, n) ==
  /\ Len(B.lines) > 0
  /\ C = [B EXCEPT !.lines[Len(B.lines)].value = @ + n,
                   !.lines[Len(B.lines)].valued = TRUE]

LEMMA GrowForms ==
  ASSUME NEW u \in Nat, NEW s \in Seq(Line), NEW b \in Nat
  PROVE  /\ s = <<>> \/ s[Len(s)].valued =>
              NameGrows(Plainly(u, s, b), Plainly(u, Append(s, NewLineOf(1)), b))
         /\ s # <<>> /\ ~s[Len(s)].valued =>
              NameGrows(Plainly(u, s, b), Plainly(u, LongerName(s, 1), b))
         /\ \A n \in Nat : s # <<>> =>
              ValueGrows(Plainly(u, s, b), Plainly(u, LongerValue(s, n), b), n)
<1> DEFINE B == Plainly(u, s, b)
           L == Len(s)
<1>1. B.lines = s /\ (s # <<>> => Len(s) > 0) /\ (s = <<>> => Len(s) = 0)
  <2>1. B.lines = s
    BY DEF Plainly
  <2> QED BY <2>1
<1>5. \A z : [B EXCEPT !.lines = z] = Plainly(u, z, b)
  BY DEF Plainly
<1>2. s = <<>> \/ s[Len(s)].valued =>
        NameGrows(B, Plainly(u, Append(s, NewLineOf(1)), b))
  <2>1. \A e : [B EXCEPT !.lines = Append(@, e)] = Plainly(u, Append(s, e), b)
    <3> HIDE DEF B
    <3> QED BY <1>1, <1>5
  <2> HIDE DEF B
  <2> QED BY <1>1, <2>1 DEF NameGrows, NewLineOf
<1>3. ASSUME s # <<>>, ~s[L].valued
      PROVE  NameGrows(B, Plainly(u, LongerName(s, 1), b))
  <2> DEFINE e == [s[L] EXCEPT !.field = s[L].field + 1]
  <2>1. [B EXCEPT !.lines[L].field = @ + 1] = Plainly(u, [s EXCEPT ![L] = e], b)
    <3>1. [B EXCEPT !.lines[L].field = @ + 1]
            = [B EXCEPT !.lines = [B.lines EXCEPT ![L] = [B.lines[L] EXCEPT !.field = @ + 1]]]
      <4> HIDE DEF B, L
      <4> QED OBVIOUS
    <3> HIDE DEF B, L
    <3> QED BY <1>1, <1>5, <3>1
  <2>2. s[L] \in Line /\ s[L].valued = FALSE
    <3>1. s[L] \in Line
      BY <1>3
    <3> QED BY <1>3, <3>1 DEF Line
  <2>3. e = Longer(s[L], 1, 0, s[L].valued)
    <3> DEFINE x == s[L]
    <3>1. x \in Line
      BY <2>2
    <3> HIDE DEF x
    <3>2. [x EXCEPT !.field = x.field + 1] = Longer(x, 1, 0, x.valued)
      BY <3>1, NameLonger
    <3> QED BY <3>2 DEF x
  <2> HIDE DEF e
  <2>4. [B EXCEPT !.lines[L].field = @ + 1] = Plainly(u, LongerName(s, 1), b)
    BY <2>1, <2>2, <2>3 DEF LongerName, LongerLast
  <2> HIDE DEF B
  <2> QED BY <1>1, <1>3, <2>4 DEF NameGrows
<1>4. ASSUME s # <<>>, NEW n \in Nat
      PROVE  ValueGrows(B, Plainly(u, LongerValue(s, n), b), n)
  <2> DEFINE w == [s[L] EXCEPT !.value = s[L].value + n]
             e == [w EXCEPT !.valued = TRUE]
             t == [s EXCEPT ![L] = w]
             v == [B EXCEPT !.lines[L].value = @ + n, !.lines[L].valued = TRUE]
  <2>1. v = Plainly(u, [t EXCEPT ![L] = [t[L] EXCEPT !.valued = TRUE]], b)
    <3> DEFINE x == [B EXCEPT !.lines[L].value = @ + n]
    <3>1. v = [x EXCEPT !.lines[L].valued = TRUE]
      OBVIOUS
    <3>2. x = Plainly(u, t, b)
      BY DEF Plainly
    <3> HIDE DEF t
    <3>3. \A z : [Plainly(u, t, b) EXCEPT !.lines[L].valued = z]
                   = Plainly(u, [t EXCEPT ![L] = [t[L] EXCEPT !.valued = z]], b)
      BY DEF Plainly
    <3> HIDE DEF x, v
    <3> QED BY <3>1, <3>2, <3>3, Zenon
  <2>2. s[L] \in Line /\ L \in 1..L
    BY <1>4
  <2>3. w \in Line /\ w.field = s[L].field /\ w.value = s[L].value + n
    BY <2>2 DEF Line
  <2>4. e \in Line /\ e.field = w.field /\ e.value = w.value /\ e.valued
    <3> HIDE DEF w
    <3> QED BY <2>3 DEF Line
  <2>5. [t EXCEPT ![L] = [t[L] EXCEPT !.valued = TRUE]] = [s EXCEPT ![L] = e]
    <3>1. t[L] = w
      BY <2>2
    <3> HIDE DEF w
    <3> QED BY <2>2, <3>1
  <2>6. e = Longer(s[L], 0, n, TRUE)
    <3> HIDE DEF w, e
    <3>1. e = [field |-> e.field, value |-> e.value, valued |-> e.valued] /\ e.valued = TRUE
      BY <2>4 DEF Line
    <3>2. s[L].field + 0 = s[L].field
      BY <2>2 DEF Line
    <3> QED BY <2>3, <2>4, <3>1, <3>2 DEF Longer
  <2> HIDE DEF e, t, v
  <2>7. v = Plainly(u, LongerValue(s, n), b)
    BY <2>1, <2>5, <2>6 DEF LongerValue, LongerLast
  <2> HIDE DEF B
  <2> QED BY <1>1, <1>4, <2>7 DEF ValueGrows, v
<1> HIDE DEF B
<1> QED BY <1>2, <1>3, <1>4 DEF B

-----------------------------------------------------------------------------
(***************************************************************************)
(* The request that is being built.                                        *)
(***************************************************************************)

\* How many bytes are marked.
Marked(text) == IF text \in DOMAIN marks THEN marks[text] ELSE 0

LEMMA BuildingForms ==
  /\ parser.errno # "OK" => Building = Plain(NoRequest)
  /\ parser.errno = "OK" /\ DOMAIN marks = {} => Building = Plain(request)
  /\ \A text : parser.errno = "OK" /\ DOMAIN marks = {text} =>
       Building = Plain(Received(request, text, marks[text]))
<1>1. \A text : (CHOOSE k \in {text} : TRUE) = text
  OBVIOUS
<1> QED BY <1>1 DEF Building

LEMMA BuildingForms2 ==
  /\ parser'.errno # "OK" => Building' = Plain(NoRequest)
  /\ parser'.errno = "OK" /\ DOMAIN marks' = {} => Building' = Plain(request')
  /\ \A text : parser'.errno = "OK" /\ DOMAIN marks' = {text} =>
       Building' = Plain(Received(request', text, marks'[text]))
<1>1. \A text : (CHOOSE k \in {text} : TRUE) = text
  OBVIOUS
<1> QED BY <1>1 DEF Building

LEMMA MarkedForms ==
  ASSUME NEW text, DOMAIN marks \subseteq {text},
         NEW m, m = Mark(text) \/ (m = marks /\ text \in DOMAIN marks)
  PROVE  DOMAIN Passed(m) = {text} /\ Passed(m)[text] = Marked(text) + 1
<1>1. DOMAIN m = {text} /\ m[text] = Marked(text)
  BY DEF Mark, Marked
<1> QED BY <1>1 DEF Passed

\* A byte of a text adds one to what is marked of it.
LEMMA TextByteForms ==
  ASSUME Core, parser.errno = "OK", NEW text \in Texts, DOMAIN marks \subseteq {text},
         NEW m, m = Mark(text) \/ (m = marks /\ text \in DOMAIN marks),
         NEW q, q.errno = "OK", TextByte(q, m)
  PROVE  /\ Building' = Plain(Received(request, text, Marked(text) + 1))
         /\ text \in DOMAIN marks => Building = Plain(Received(request, text, Marked(text)))
         /\ text \notin DOMAIN marks => Building = Plain(request) /\ Marked(text) = 0
         /\ Marked(text) \in Nat
         /\ parser' = q /\ request' = request /\ at' = "reading"
         /\ DOMAIN marks' = {text} /\ marks'[text] = Marked(text) + 1
         /\ UNCHANGED given /\ read' = read + 1
<1>1. /\ parser' = q /\ request' = request /\ at' = "reading" /\ UNCHANGED given
      /\ read' = read + 1 /\ marks' = Passed(m)
  BY DEF TextByte, Reads
<1>2. DOMAIN marks' = {text} /\ marks'[text] = Marked(text) + 1
  BY <1>1, MarkedForms
<1>3. Building' = Plain(Received(request, text, Marked(text) + 1))
  BY <1>1, <1>2, BuildingForms2
<1>4. text \in DOMAIN marks => DOMAIN marks = {text} /\ Marked(text) = marks[text]
  BY DEF Marked
<1>5. text \notin DOMAIN marks => DOMAIN marks = {} /\ Marked(text) = 0
  BY DEF Marked
<1>6. Marked(text) \in Nat
  BY <1>4, <1>5 DEF Core, MarksOK
<1> QED BY <1>1, <1>2, <1>3, <1>4, <1>5, <1>6, BuildingForms

LEMMA UrlAndBodyGrow ==
  ASSUME Core, Unvalued(request), parser.errno = "OK", NEW text \in {"url", "body"},
         DOMAIN marks \subseteq {text}
  PROVE  /\ text = "url" => Plain(Received(request, "url", Marked("url") + 1))
                              = [Building EXCEPT !.url = @ + 1]
         /\ text = "body" => Plain(Received(request, "body", Marked("body") + 1))
                               = [Building EXCEPT !.body = @ + 1]
<1> DEFINE k == Marked(text)
           r == request
<1>1. text \in Texts
  BY DEF Texts
<1>2. /\ k \in Nat
      /\ text \in DOMAIN marks => Building = Plain(Received(r, text, k))
      /\ text \notin DOMAIN marks => Building = Plain(r) /\ k = 0
  <2>1. text \in DOMAIN marks => DOMAIN marks = {text} /\ k = marks[text]
    BY DEF Marked
  <2>2. text \notin DOMAIN marks => DOMAIN marks = {} /\ k = 0
    BY DEF Marked
  <2>3. k \in Nat
    BY <1>1, <2>1, <2>2 DEF Core, MarksOK
  <2> QED BY <2>1, <2>2, <2>3, BuildingForms
<1>3. r \in Request /\ Paired(r) /\ r.url \in Nat /\ r.body \in Nat /\ r.lines \in Seq(Line)
  BY DEF Core, Request
<1>4. Plain(r) = Plainly(r.url, r.lines, r.body)
  BY DEF Plain, Plainly
<1> HIDE DEF k
<1>5. CASE text = "url"
  <2>1. \A n \in Nat : Plain(Received(r, "url", n)) = Plainly(r.url + n, r.lines, r.body)
    BY <1>3, ReceivedForms
  <2>2. /\ k + 1 \in Nat /\ r.url + 0 = r.url /\ r.url + k \in Nat
        /\ r.url + (k + 1) = (r.url + k) + 1
    BY <1>2, <1>3
  <2>3. Plain(Received(r, text, k + 1)) = Plainly(r.url + (k + 1), r.lines, r.body)
    BY <1>2, <1>5, <2>1, <2>2
  <2>4. Building = Plainly(r.url + k, r.lines, r.body)
    BY <1>2, <1>4, <1>5, <2>1, <2>2
  <2>5. [Plainly(r.url + k, r.lines, r.body) EXCEPT !.url = @ + 1]
          = Plainly((r.url + k) + 1, r.lines, r.body)
    BY DEF Plainly
  <2> QED BY <1>5, <2>2, <2>3, <2>4, <2>5 DEF k
<1>6. CASE text = "body"
  <2>1. \A n \in Nat : Plain(Received(r, "body", n)) = Plainly(r.url, r.lines, r.body + n)
    BY <1>3, ReceivedForms
  <2>2. /\ k + 1 \in Nat /\ r.body + 0 = r.body /\ r.body + k \in Nat
        /\ r.body + (k + 1) = (r.body + k) + 1
    BY <1>2, <1>3
  <2>3. Plain(Received(r, text, k + 1)) = Plainly(r.url, r.lines, r.body + (k + 1))
    BY <1>2, <1>6, <2>1, <2>2
  <2>4. Building = Plainly(r.url, r.lines, r.body + k)
    BY <1>2, <1>4, <1>6, <2>1, <2>2
  <2>5. [Plainly(r.url, r.lines, r.body + k) EXCEPT !.body = @ + 1]
          = Plainly(r.url, r.lines, (r.body + k) + 1)
    BY DEF Plainly
  <2> QED BY <1>6, <2>2, <2>3, <2>4, <2>5 DEF k
<1> QED BY <1>5, <1>6

LEMMA AppendLonger ==
  ASSUME NEW s \in Seq(Line), NEW k \in Nat
  PROVE  /\ LongerName(Append(s, NewLineOf(k)), 1) = Append(s, NewLineOf(k + 1))
         /\ Append(s, NewLineOf(k)) \in Seq(Line)
         /\ Append(s, NewLineOf(k)) # <<>>
         /\ Len(Append(s, NewLineOf(k))) = Len(s) + 1
         /\ Append(s, NewLineOf(k))[Len(s) + 1].valued = FALSE
<1> DEFINE e == NewLineOf(k)
           t == Append(s, e)
           f == NewLineOf(k + 1)
<1>1. e \in Line /\ f \in Line /\ e.valued = FALSE
  BY DEF Line, NewLineOf
<1>2. Longer(e, 1, 0, FALSE) = f
  BY DEF Longer, NewLineOf
<1> HIDE DEF e, f
<1>3. t \in Seq(Line) /\ Len(t) = Len(s) + 1 /\ t[Len(s) + 1] = e /\ t # <<>>
  BY <1>1, Appended
<1>4. [t EXCEPT ![Len(s) + 1] = f] = Append(s, f)
  <2>1. /\ [t EXCEPT ![Len(s) + 1] = f] \in Seq(Line)
        /\ Len([t EXCEPT ![Len(s) + 1] = f]) = Len(s) + 1
        /\ \A i \in 1..Len(s) + 1 :
             [t EXCEPT ![Len(s) + 1] = f][i] = IF i = Len(s) + 1 THEN f ELSE t[i]
    <3> HIDE DEF t
    <3>1. Len(s) + 1 \in 1..Len(t)
      BY <1>3
    <3> QED BY <1>1, <1>3, <3>1, ExceptSeq
  <2>2. /\ Append(s, f) \in Seq(Line) /\ Len(Append(s, f)) = Len(s) + 1
        /\ Append(s, f)[Len(s) + 1] = f
        /\ \A i \in 1..Len(s) : Append(s, f)[i] = s[i]
    BY <1>1, Appended
  <2>3. \A i \in 1..Len(s) : t[i] = s[i]
    BY <1>1, Appended
  <2> HIDE DEF t
  <2>4. \A i \in 1..Len(s) + 1 : [t EXCEPT ![Len(s) + 1] = f][i] = Append(s, f)[i]
    BY <2>1, <2>2, <2>3
  <2> QED BY <2>1, <2>2, <2>4, SeqEqual
<1> HIDE DEF t
<1>5. LongerLast(t, 1, 0, FALSE) = Append(s, f)
  BY <1>2, <1>3, <1>4 DEF LongerLast
<1> QED BY <1>1, <1>3, <1>5 DEF t, e, f, LongerName

LEMMA NamesGrow ==
  ASSUME Core, Unvalued(request), parser.errno = "OK", DOMAIN marks \subseteq {"header_field"},
         NEW m, m = Mark("header_field") \/ (m = marks /\ "header_field" \in DOMAIN marks),
         NEW q, q.errno = "OK", TextByte(q, m)
  PROVE  NameGrows(Building, Building')
<1> DEFINE k == Marked("header_field")
           r == request
           s == r.lines
           L == Len(s)
<1>1. "header_field" \in Texts
  BY DEF Texts
<1>2. /\ k \in Nat
      /\ Building' = Plain(Received(r, "header_field", k + 1))
      /\ "header_field" \in DOMAIN marks => Building = Plain(Received(r, "header_field", k))
      /\ "header_field" \notin DOMAIN marks => Building = Plain(r) /\ k = 0
  BY <1>1, TextByteForms
<1>3. r \in Request /\ Paired(r) /\ r.url \in Nat /\ r.body \in Nat /\ s \in Seq(Line)
  BY DEF Core, Request
<1>4. Plain(r) = Plainly(r.url, s, r.body)
  BY DEF Plain, Plainly
<1> HIDE DEF k
<1>5. k + 1 \in Nat /\ 0 + 1 = 1
  BY <1>2
<1>6. CASE r.wasValue
  <2>1. \A n \in Nat : Plain(Received(r, "header_field", n))
                         = Plainly(r.url, Append(s, NewLineOf(n)), r.body)
    BY <1>3, <1>6, ReceivedForms
  <2>2. Building' = Plainly(r.url, Append(s, NewLineOf(k + 1)), r.body)
    BY <1>2, <1>5, <2>1
  <2>3. CASE "header_field" \in DOMAIN marks
    <3> DEFINE t == Append(s, NewLineOf(k))
    <3>1. Building = Plainly(r.url, t, r.body)
      BY <1>2, <2>1, <2>3
    <3>2. /\ t \in Seq(Line) /\ t # <<>> /\ ~t[Len(t)].valued
          /\ LongerName(t, 1) = Append(s, NewLineOf(k + 1))
      BY <1>2, <1>3, AppendLonger
    <3> HIDE DEF t
    <3> QED BY <1>3, <2>2, <3>1, <3>2, GrowForms
  <2>4. CASE "header_field" \notin DOMAIN marks
    <3>1. s = <<>> \/ s[L].valued
      BY <1>3, <1>6 DEF Paired
    <3>2. Building = Plainly(r.url, s, r.body) /\ k + 1 = 1
      BY <1>2, <1>4, <2>4
    <3> QED BY <1>3, <2>2, <3>1, <3>2, GrowForms
  <2> QED BY <2>3, <2>4
<1>7. CASE ~r.wasValue
  <2>1. s # <<>> /\ s[L] \in Line /\ s[L].valued = FALSE
    <3>1. s # <<>>
      BY <1>3, <1>7 DEF Paired
    <3>2. s[L] \in Line
      BY <1>3, <3>1
    <3> QED BY <1>7, <3>1, <3>2 DEF Unvalued, Line
  <2>2. \A n \in Nat : Plain(Received(r, "header_field", n))
                         = Plainly(r.url, LongerName(s, n), r.body)
    BY <1>3, <1>7, <2>1, ReceivedForms
  <2>3. Building' = Plainly(r.url, LongerName(s, k + 1), r.body)
    BY <1>2, <1>5, <2>2
  <2>4. CASE "header_field" \in DOMAIN marks
    <3> DEFINE t == LongerName(s, k)
    <3>1. Building = Plainly(r.url, t, r.body)
      BY <1>2, <2>2, <2>4
    <3>2. /\ t \in Seq(Line) /\ t # <<>> /\ ~t[Len(t)].valued
          /\ LongerName(t, 1) = LongerName(s, k + 1)
      <4>1. /\ t \in Seq(Line) /\ t # <<>>
            /\ LongerName(t, 1) = LongerName(s, k + 1)
        BY <1>2, <1>3, <2>1, LongerTexts
      <4>2. ~t[Len(t)].valued
        BY <1>2, <1>3, <2>1, LongerTexts, Zenon
      <4> QED BY <4>1, <4>2
    <3> HIDE DEF t
    <3> QED BY <1>3, <2>3, <3>1, <3>2, GrowForms
  <2>5. CASE "header_field" \notin DOMAIN marks
    <3>1. Building = Plainly(r.url, s, r.body) /\ k + 1 = 1
      BY <1>2, <1>4, <2>5
    <3> QED BY <1>3, <2>1, <2>3, <3>1, GrowForms
  <2> QED BY <2>4, <2>5
<1> QED BY <1>6, <1>7

LEMMA ValuesGrow ==
  ASSUME Core, Unvalued(request), request.lines # <<>>, parser.errno = "OK",
         DOMAIN marks \subseteq {"header_value"},
         NEW m, m = Mark("header_value") \/ (m = marks /\ "header_value" \in DOMAIN marks),
         NEW q, q.errno = "OK", TextByte(q, m)
  PROVE  ValueGrows(Building, Building', 1)
<1> DEFINE k == Marked("header_value")
           r == request
           s == r.lines
           L == Len(s)
<1>1. "header_value" \in Texts
  BY DEF Texts
<1>2. /\ k \in Nat
      /\ Building' = Plain(Received(r, "header_value", k + 1))
      /\ "header_value" \in DOMAIN marks => Building = Plain(Received(r, "header_value", k))
      /\ "header_value" \notin DOMAIN marks => Building = Plain(r) /\ k = 0
  BY <1>1, TextByteForms
<1>3. r \in Request /\ Paired(r) /\ r.url \in Nat /\ r.body \in Nat /\ s \in Seq(Line)
  BY DEF Core, Request
<1>4. Plain(r) = Plainly(r.url, s, r.body)
  BY DEF Plain, Plainly
<1> HIDE DEF k
<1>5. \A n \in Nat : Plain(Received(r, "header_value", n))
                       = Plainly(r.url, LongerValue(s, n), r.body)
  BY <1>3, ReceivedForms
<1>6. Building' = Plainly(r.url, LongerValue(s, k + 1), r.body)
  <2>1. k + 1 \in Nat
    BY <1>2
  <2> QED BY <1>2, <1>5, <2>1
<1>7. CASE "header_value" \in DOMAIN marks
  <2> DEFINE t == LongerValue(s, k)
  <2>1. Building = Plainly(r.url, t, r.body)
    BY <1>2, <1>5, <1>7
  <2>2. t \in Seq(Line) /\ t # <<>> /\ LongerValue(t, 1) = LongerValue(s, k + 1)
    BY <1>2, <1>3, LongerTexts
  <2> HIDE DEF t
  <2> QED BY <1>3, <1>6, <2>1, <2>2, GrowForms
<1>8. CASE "header_value" \notin DOMAIN marks
  <2>1. Building = Plainly(r.url, s, r.body) /\ k + 1 = 1
    BY <1>2, <1>4, <1>8
  <2> QED BY <1>3, <1>6, <2>1, GrowForms
<1> QED BY <1>7, <1>8

-----------------------------------------------------------------------------
(***************************************************************************)
(* What a cut leaves behind.                                               *)
(***************************************************************************)

AfterUrl == {"s_req_schema", "s_req_path", "s_req_http_start", "s_req_http_minor",
             "s_req_line_almost_done"}

\* Between buffers nothing is marked, and last_was_value tells to which text
\* the next buffer belongs; inside a buffer the text that is read is marked.
Cut ==
  /\ Unvalued(request)
  /\ at = "idle" =>
       /\ DOMAIN marks = {}
       /\ parser.state = "s_header_field" => ~request.wasValue
       /\ parser.state = "s_header_value" => request.wasValue
  /\ at # "idle" =>
       /\ parser.state = "s_header_field" => "header_field" \in DOMAIN marks
       /\ parser.state = "s_header_value" => "header_value" \in DOMAIN marks
  /\ parser.state \in AfterUrl => request.url + Marked("url") > 0
  /\ parser.state \in LineStates => "TRAILING" \notin parser.flags

LEMMA ReceivingCut ==
  ASSUME NEW r \in Request, Paired(r), Unvalued(r), NEW text \in Texts, NEW n \in Nat
  PROVE  /\ Unvalued(Received(r, text, n))
         /\ text = "header_field" => ~Received(r, text, n).wasValue
         /\ text = "header_value" => Received(r, text, n).wasValue
         /\ text = "url" => Received(r, text, n).url = r.url + n
         /\ text # "url" => Received(r, text, n).url = r.url
<1> DEFINE v == Received(r, text, n)
           L == Len(r.lines)
<1>1. /\ r.url \in Nat /\ r.body \in Nat /\ r.wasValue \in BOOLEAN /\ r.lines \in Seq(Line)
      /\ L \in Nat
      /\ r = [url |-> r.url, lines |-> r.lines, wasValue |-> r.wasValue, body |-> r.body]
      /\ r.lines # <<>> => L \in 1..L /\ r.lines[L] \in Line
  BY DEF Request
<1>2. CASE text = "url"
  BY <1>1, <1>2 DEF Received, Unvalued
<1>3. CASE text = "body"
  BY <1>1, <1>3 DEF Received, Unvalued
<1>4. CASE text = "header_field" /\ NewLine(r)
  <2>1. v = [url |-> r.url, lines |-> Append(r.lines, NewLineOf(n)), wasValue |-> FALSE,
             body |-> r.body]
    BY <1>1, <1>4 DEF Received, NewLineOf
  <2>2. /\ Len(Append(r.lines, NewLineOf(n))) = L + 1
        /\ Append(r.lines, NewLineOf(n))[L + 1].valued = FALSE
    BY <1>1, AppendLonger
  <2>3. /\ v.url = r.url /\ v.wasValue = FALSE
        /\ v.lines = Append(r.lines, NewLineOf(n))
    BY <2>1
  <2> QED BY <1>4, <2>2, <2>3 DEF Unvalued
<1>5. CASE text = "header_field" /\ ~NewLine(r)
  <2> DEFINE e == [r.lines[L] EXCEPT !.field = r.lines[L].field + n]
             s == [r.lines EXCEPT ![L] = e]
  <2>1. v = [url |-> r.url, lines |-> s, wasValue |-> FALSE, body |-> r.body]
    BY <1>1, <1>5 DEF Received
  <2>2. r.lines # <<>>
    BY <1>5 DEF Paired, NewLine
  <2>3. e \in Line /\ e.valued = r.lines[L].valued
    <3>1. r.lines[L] \in Line
      BY <1>1, <2>2
    <3> HIDE DEF L
    <3> QED BY <3>1, NameLonger
  <2>4. ~r.lines[L].valued
    BY <1>5 DEF Unvalued, NewLine
  <2> HIDE DEF e
  <2>5. Len(s) = L /\ s[L] = e
    BY <1>1, <2>2, <2>3, ExceptSeq
  <2>6. v.url = r.url /\ v.wasValue = FALSE /\ v.lines = s
    BY <2>1
  <2> HIDE DEF s
  <2> QED BY <1>5, <2>3, <2>4, <2>5, <2>6 DEF Unvalued
<1>6. CASE text = "header_value"
  <2>1. v.url = r.url /\ v.wasValue
    BY <1>1, <1>6 DEF Received
  <2> QED BY <1>6, <2>1 DEF Unvalued
<1> QED BY <1>2, <1>3, <1>4, <1>5, <1>6 DEF Texts

-----------------------------------------------------------------------------
(***************************************************************************)
(* Steps.                                                                  *)
(***************************************************************************)

LEMMA Parts ==
  /\ "s_dead" \notin LineStates \union FieldStates
  /\ "s_start_req" \notin LineStates \union FieldStates
  /\ \A s \in FieldStates : s \notin LineStates
  /\ \A s \in ChunkHeadStates \union ChunkDataStates \union {"s_body_identity"} :
       s \notin LineStates \union FieldStates \union {"s_dead", "s_start_req"}
BY DEF LineStates, FieldStates, ChunkHeadStates, ChunkDataStates

LEMMA Stages ==
  /\ Stage = StageOf(parser)
  /\ Stage' = StageOf(parser')
BY DEF Stage

LEMMA StageCases ==
  ASSUME NEW q
  PROVE  /\ q.errno # "OK" => StageOf(q) = "error"
         /\ q.errno = "OK" =>
              /\ StageOf(q) # "error"
              /\ q.state = "s_dead" => StageOf(q) = "dead"
              /\ q.state = "s_start_req" => StageOf(q) = "start"
              /\ q.state \in LineStates => StageOf(q) = "line"
              /\ q.state \in FieldStates /\ "TRAILING" \in q.flags => StageOf(q) = "trailer"
              /\ q.state \in FieldStates /\ "TRAILING" \notin q.flags => StageOf(q) = "head"
              /\ q.state \in ChunkHeadStates \union ChunkDataStates \union {"s_body_identity"}
                   => StageOf(q) = "body"
BY Parts DEF StageOf

\* The bytes of body that were read, and that were announced and were not.
Sum == request.body + Marked("body")
Owed(q) == IF q.state \in {"s_body_identity", "s_chunk_data"} THEN q.length ELSE 0

\* No request is being read.
Over(q) == q.errno # "OK" \/ q.state \in {"s_start_req", "s_dead"}

\* The body is still to come.
Ahead(q) ==
  \/ q.state \in LineStates
  \/ q.state \in FieldStates /\ "TRAILING" \notin q.flags

Owing ==
  /\ BodyAsAnnounced
  /\ due \in Nat
  /\ ~Over(parser) =>
       /\ given = NoRequest
       /\ due = Sum + Owed(parser)
       /\ Ahead(parser) => due = 0

Steady == Owing /\ UNCHANGED due => Owing'

LEMMA SumsOK == ASSUME Core PROVE Sum \in Nat /\ Owed(parser) \in Nat
<1>1. request.body \in Nat /\ parser.length \in Nat
  BY LengthAssumption DEF Core, Request, Parser, Lengths, MaxLength
<1>2. Marked("body") \in Nat
  BY DEF Marked, Core, MarksOK
<1> QED BY <1>1, <1>2 DEF Sum, Owed

\* What keeps Owing: the sum of the bytes read and owed changes as due does.
LEMMA OwingKept ==
  ASSUME Core, Owing, NEW q, parser' = q, UNCHANGED given, due' \in Nat,
         Over(q) <=> Over(parser), Ahead(q) => Ahead(parser),
         Over(q) \/ Ahead(q) => UNCHANGED due,
         Sum' \in Nat, Owed(q) \in Nat,
         due' + (Sum + Owed(parser)) = due + (Sum' + Owed(q))
  PROVE  Owing'
<1>1. Sum \in Nat /\ Owed(parser) \in Nat /\ due \in Nat
  BY SumsOK DEF Owing
<1>2. CASE Over(q)
  BY <1>2 DEF Owing, BodyAsAnnounced
<1>3. CASE ~Over(q)
  <2>1. given = NoRequest /\ due = Sum + Owed(parser)
    BY <1>3 DEF Owing
  <2>2. due' = Sum' + Owed(q)
    <3> DEFINE a == Sum + Owed(parser)
               b == Sum' + Owed(q)
    <3>1. a \in Nat /\ b \in Nat /\ due' \in Nat /\ due' + a = a + b
      BY <1>1, <2>1
    <3>2. \A x, y, z \in Nat : x + y = y + z => x = z
      OBVIOUS
    <3> HIDE DEF a, b
    <3>3. due' = b
      BY <3>1, <3>2
    <3> QED BY <3>3 DEF b
  <2>3. Ahead(q) => due' = 0
    BY <1>3 DEF Owing
  <2>4. given' = NoRequest /\ Owed(parser') = Owed(q)
    BY <2>1
  <2> QED BY <2>2, <2>3, <2>4 DEF Owing, BodyAsAnnounced
<1> QED BY <1>2, <1>3

\* A step that HttpMessage sees only if it leads to another part of the message.
Silent(q) ==
  /\ Building' = Building
  /\ UNCHANGED <<given, read>>
  /\ parser' = q

BodyStates == ChunkHeadStates \union ChunkDataStates \union {"s_body_identity"}

\* q is in the part of the message the parser is in, or in the next.
Follows(q) ==
  \/ parser.state = "s_start_req" /\ q.state = "s_start_req"
  \/ parser.state \in LineStates /\ q.state \in LineStates
  \/ /\ parser.state \in FieldStates /\ q.state \in FieldStates
     /\ "TRAILING" \in q.flags <=> "TRAILING" \in parser.flags
  \/ parser.state \in BodyStates /\ q.state \in BodyStates
  \/ parser.state \in AfterUrl /\ q.state \in FieldStates /\ "TRAILING" \notin q.flags
  \/ /\ parser.state \in FieldStates /\ "TRAILING" \notin parser.flags
     /\ q.state \in BodyStates
  \/ parser.state \in BodyStates /\ q.state \in FieldStates /\ "TRAILING" \in q.flags

LEMMA FollowsOver ==
  ASSUME parser.errno = "OK", NEW q, q.errno = "OK", Follows(q)
  PROVE  (Over(q) <=> Over(parser)) /\ (Ahead(q) => Ahead(parser))
<1>1. AfterUrl \subseteq LineStates
  BY DEF AfterUrl, LineStates
<1> QED BY <1>1, Parts DEF Follows, Over, Ahead, BodyStates

LEMMA SteadyStep ==
  ASSUME Core, parser.errno = "OK", NEW q, q.errno = "OK", Follows(q), parser' = q,
         UNCHANGED given, Sum' \in Nat, Owed(q) \in Nat,
         Sum' + Owed(q) = Sum + Owed(parser)
  PROVE  Steady
<1> SUFFICES ASSUME Owing, UNCHANGED due PROVE Owing'
  BY DEF Steady
<1>1. (Over(q) <=> Over(parser)) /\ (Ahead(q) => Ahead(parser))
  BY FollowsOver
<1>2. due \in Nat
  BY DEF Owing
<1> QED BY <1>1, <1>2, OwingKept

LEMMA UrlRead ==
  ASSUME Core, Cut, parser.errno = "OK", parser.state \in AfterUrl
  PROVE  Building.url > 0
<1>1. DOMAIN marks \subseteq {"url"}
  BY DEF Core, Asserted, MarkedIn, AfterUrl
<1>2. request.url + Marked("url") > 0 /\ request.url \in Nat
  BY DEF Cut, Core, Request
<1>3. CASE DOMAIN marks = {}
  <2>1. Building.url = request.url /\ Marked("url") = 0
    BY <1>3, BuildingForms DEF Plain, Marked
  <2> QED BY <1>2, <2>1
<1>4. CASE DOMAIN marks = {"url"}
  <2>1. Marked("url") = marks["url"] /\ marks["url"] \in Nat /\ "url" \in Texts
    BY <1>4 DEF Marked, Core, MarksOK, Texts
  <2>2. Building = Plain(Received(request, "url", Marked("url")))
    BY <1>4, <2>1, BuildingForms
  <2>3. Received(request, "url", Marked("url")).url = request.url + Marked("url")
    BY <2>1, ReceivingCut DEF Core, Cut
  <2> QED BY <1>2, <2>2, <2>3 DEF Plain
<1> QED BY <1>1, <1>3, <1>4

LEMMA FollowMoves ==
  ASSUME Core, Cut, parser.errno = "OK", NEW q, q.errno = "OK", Follows(q), Silent(q)
  PROVE  [Message!Next]_Message!vars
<1>1. /\ Stage' = StageOf(q) /\ Building' = Building /\ Plain(given)' = Plain(given)
      /\ read' = read /\ Stage = StageOf(parser)
  BY Stages DEF Silent, Plain
<1>2. AfterUrl \subseteq LineStates
  BY DEF AfterUrl, LineStates
<1>3. \/ StageOf(q) = Stage
      \/ Stage = "line" /\ Building.url > 0 /\ StageOf(q) = "head"
      \/ Stage = "head" /\ StageOf(q) = "body"
      \/ Stage = "body" /\ StageOf(q) = "trailer"
  BY <1>1, <1>2, StageCases, UrlRead DEF Follows, BodyStates
<1>4. CASE StageOf(q) = Stage
  BY <1>1, <1>4 DEF Message!vars
<1>5. CASE Stage = "line" /\ Building.url > 0 /\ StageOf(q) = "head"
  BY <1>1, <1>5 DEF Message!HeadBegins, Message!Next
<1>6. CASE Stage = "head" /\ StageOf(q) = "body"
  BY <1>1, <1>6 DEF Message!BodyBegins, Message!Next
<1>7. CASE Stage = "body" /\ StageOf(q) = "trailer"
  BY <1>1, <1>7 DEF Message!TrailerBegins, Message!Next
<1> QED BY <1>3, <1>4, <1>5, <1>6, <1>7

LEMMA ErrorFails ==
  ASSUME Core, parser.errno = "OK",
         NEW e \in {"INVALID", "CONTENT_LENGTH", "HEADER_OVERFLOW", "CALLBACK"}, Error(e)
  PROVE  Cut' /\ Message!Next /\ Steady
<1>1. /\ parser'.errno = e /\ parser'.state = "s_start_req"
      /\ request' = NoRequest /\ marks' = NoMarks /\ at' = "idle" /\ read' = 0
      /\ given' = given
  BY NewParserOK DEF Error
<1>2. Cut'
  BY <1>1, MarkDomains DEF Cut, Unvalued, NoRequest, AfterUrl, LineStates
<1>3. Stage' = "error" /\ Stage # "error"
  <2>1. StageOf(parser') = "error" /\ StageOf(parser) # "error"
    BY <1>1, StageCases
  <2> QED BY <2>1, Stages
<1>4. Building' = Message!Empty
  BY <1>1, BuildingForms2 DEF Message!Empty, Plain, NoRequest
<1>5. Steady
  BY <1>1 DEF Steady, Owing, BodyAsAnnounced, Over
<1> QED BY <1>1, <1>2, <1>3, <1>4, <1>5 DEF Message!Next, Message!Fail

\* Where a byte that hands nothing over may lead without leaving Cut.
Between(q) ==
  /\ q.state \notin {"s_header_field", "s_header_value"}
  /\ q.state \in AfterUrl => parser.state \in AfterUrl
  /\ q.state \in LineStates => "TRAILING" \notin q.flags

\* A step as HttpMessage makes it, that brings no more and no less body than was
\* announced.
Moves == Cut' /\ [Message!Next]_Message!vars /\ Steady

LEMMA StepMoves ==
  ASSUME Core, Cut, at # "idle", DOMAIN marks = {}, NEW q, q.errno = "OK",
         Between(q), Follows(q), Step(q)
  PROVE  /\ Cut' /\ [Message!Next]_Message!vars
         /\ parser' = q /\ UNCHANGED given /\ Sum' = Sum
         /\ Owed(q) = Owed(parser) => Steady
<1>1. /\ parser.errno = "OK" /\ parser' = q /\ request' = request /\ at' = "reading"
      /\ UNCHANGED given /\ read' = read + 0 /\ read \in Nat /\ DOMAIN marks' = {}
  BY MarkDomains DEF Core, Step, Reads
<1>2. Cut'
  BY <1>1 DEF Cut, Between, Unvalued, Marked
<1>3. Silent(q)
  BY <1>1, BuildingForms, BuildingForms2 DEF Silent
<1>4. Sum' = Sum /\ Sum \in Nat /\ Owed(parser) \in Nat
  BY <1>1, SumsOK DEF Sum, Marked
<1>5. Owed(q) = Owed(parser) => Steady
  BY <1>1, <1>4, SteadyStep
<1> QED BY <1>1, <1>2, <1>3, <1>4, <1>5, FollowMoves

LEMMA CallbackMoves ==
  ASSUME Core, Cut, at # "idle", NEW text \in Texts, DOMAIN marks \subseteq {text},
         text = "header_value" => request.lines # <<>>, NEW q, q.errno = "OK",
         Between(q), Follows(q), Callback(text, q),
         Owed(q) = 0, Owed(parser) = 0
  PROVE  Cut' /\ [Message!Next]_Message!vars /\ Steady
<1>1. parser.errno = "OK"
  BY DEF Core
<1>2. CASE text \notin DOMAIN marks /\ Step(q)
  BY <1>2, StepMoves
<1>3. CASE /\ text \in DOMAIN marks
           /\ request' = Received(request, text, marks[text])
           /\ parser' = q
           /\ marks' = Passed(Without(marks, text))
           /\ at' = "reading"
           /\ UNCHANGED <<given, read>>
  <2>1. /\ DOMAIN marks' = {} /\ DOMAIN marks = {text} /\ marks[text] \in Nat
        /\ request \in Request /\ request.url \in Nat
    <3>1. DOMAIN marks' = DOMAIN marks \ {text}
      BY <1>3, MarkDomains
    <3>2. DOMAIN marks = {text} /\ marks[text] \in Nat
      BY <1>3 DEF Core, MarksOK
    <3> QED BY <3>1, <3>2 DEF Core, Request
  <2>2. /\ Unvalued(request')
        /\ text = "url" => request'.url = request.url + marks["url"]
        /\ text # "url" => request'.url = request.url
    BY <1>3, <2>1, ReceivingCut DEF Core, Cut
  <2>3. q.state \in AfterUrl => request'.url + 0 > 0
    BY <2>1, <2>2 DEF Cut, Between, Marked
  <2>4. Cut'
    BY <1>3, <2>1, <2>2, <2>3 DEF Cut, Between, Marked
  <2>5. Silent(q)
    BY <1>1, <1>3, <2>1, BuildingForms, BuildingForms2 DEF Silent
  <2>6. request'.body + 0 = request.body + Marked("body")
    BY <1>3, <2>1 DEF Marked, Received, Core, Request
  <2>7. Steady
    <3>1. Sum' = Sum /\ Sum \in Nat
      BY <2>1, <2>6, SumsOK DEF Sum, Marked
    <3> QED BY <1>1, <1>3, <3>1, SteadyStep
  <2> QED BY <1>1, <2>4, <2>5, <2>7, FollowMoves
<1>4. CASE Error("CALLBACK")
  BY <1>1, <1>4, ErrorFails
<1> QED BY <1>2, <1>3, <1>4 DEF Callback

-----------------------------------------------------------------------------
(***************************************************************************)
(* The actions.                                                            *)
(***************************************************************************)

\* A byte that only moves the parser to state s.
LEMMA ToMoves ==
  ASSUME Core, Cut, NEW S, Byte(S), parser.state \notin TextStates,
         NEW s \in States, NEW q, q.errno = "OK", q.state = s, q.flags = parser.flags,
         Step(q), s \notin {"s_header_field", "s_header_value"},
         \/ parser.state \in LineStates /\ s \in LineStates
              /\ (s \in AfterUrl => parser.state \in AfterUrl)
         \/ parser.state \in AfterUrl /\ s \in FieldStates
         \/ parser.state \in FieldStates /\ s \in FieldStates
         \/ parser.state \in BodyStates /\ s \in BodyStates
         \/ parser.state = "s_start_req" /\ s = "s_start_req"
  PROVE  /\ Cut' /\ [Message!Next]_Message!vars
         /\ parser' = q /\ UNCHANGED given /\ Sum' = Sum
         /\ s \notin {"s_chunk_data", "s_body_identity"} => Moves
<1>1. DOMAIN marks = {} /\ at # "idle"
  BY Unmarked DEF Byte
<1>2. /\ AfterUrl \subseteq LineStates
      /\ \A x \in BodyStates : x \notin LineStates
  BY Parts DEF AfterUrl, LineStates, BodyStates
<1>3. Between(q) /\ Follows(q)
  BY <1>2, Parts DEF Between, Follows, Cut
<1>4. s \notin {"s_chunk_data", "s_body_identity"} => Owed(q) = Owed(parser)
  BY DEF Owed, TextStates
<1> QED BY <1>1, <1>3, <1>4, StepMoves DEF Moves

LEMMA InsideMoves == ASSUME Core, Cut, Inside PROVE Moves
<1> DEFINE s == parser.state
           S == {"s_start_req", "s_req_method", "s_req_spaces_before_url", "s_req_http_start",
                 "s_req_http_minor", "s_header_value_start", "s_chunk_parameters"}
<1>1. Byte(S) /\ Step(To(s)) /\ s \in States /\ s \in S
  BY DEF Inside, Core, Parser, Byte
<1>2. To(s).errno = "OK" /\ To(s).state = s /\ To(s).flags = parser.flags
  BY <1>1, ToFacts
<1>3. /\ s \notin TextStates
      /\ s \notin {"s_header_field", "s_header_value", "s_chunk_data", "s_body_identity"}
      /\ s \in LineStates \union FieldStates \union BodyStates \union {"s_start_req"}
  BY <1>1 DEF TextStates, LineStates, FieldStates, BodyStates, ChunkHeadStates
<1> HIDE DEF s
<1> QED BY <1>1, <1>2, <1>3, ToMoves DEF s

LEMMA MethodEndsMoves == ASSUME Core, Cut, MethodEnds PROVE Moves
<1> DEFINE s == "s_req_spaces_before_url"
           t == To(s)
<1>1. PICK c \in BOOLEAN : Step([t EXCEPT !.connect = c])
  BY DEF MethodEnds
<1>2. Byte({"s_req_method"}) /\ s \in States
  BY DEF MethodEnds, States, HeaderStates, LineStates
<1>3. t \in Parser /\ t.state = s /\ t.errno = "OK" /\ t.flags = parser.flags
  BY <1>2, ToFacts
<1>4. /\ parser.state \notin TextStates
      /\ s \notin {"s_header_field", "s_header_value", "s_chunk_data", "s_body_identity"}
      /\ parser.state \in LineStates /\ s \in LineStates /\ s \notin AfterUrl
  BY <1>2 DEF Byte, TextStates, LineStates, AfterUrl
<1> HIDE DEF t
<1>5. /\ [t EXCEPT !.connect = c].state = s
      /\ [t EXCEPT !.connect = c].errno = "OK"
      /\ [t EXCEPT !.connect = c].flags = parser.flags
  BY <1>3 DEF Parser
<1> HIDE DEF s
<1> QED BY <1>1, <1>2, <1>4, <1>5, ToMoves

LEMMA VersionMoves == ASSUME Core, Cut, Version PROVE Moves
<1> DEFINE s == "s_req_http_minor"
           t == To(s)
<1>1. PICK m \in BOOLEAN : Step([t EXCEPT !.modern = m])
  BY DEF Version
<1>2. Byte({"s_req_http_start", "s_req_http_minor"}) /\ s \in States
  BY DEF Version, States, HeaderStates, LineStates
<1>3. t \in Parser /\ t.state = s /\ t.errno = "OK" /\ t.flags = parser.flags
  BY <1>2, ToFacts
<1>4. /\ parser.state \notin TextStates
      /\ s \notin {"s_header_field", "s_header_value", "s_chunk_data", "s_body_identity"}
      /\ parser.state \in LineStates /\ s \in LineStates /\ parser.state \in AfterUrl
  BY <1>2 DEF Byte, TextStates, LineStates, AfterUrl
<1> HIDE DEF t
<1>5. /\ [t EXCEPT !.modern = m].state = s
      /\ [t EXCEPT !.modern = m].errno = "OK"
      /\ [t EXCEPT !.modern = m].flags = parser.flags
  BY <1>3 DEF Parser
<1> HIDE DEF s
<1> QED BY <1>1, <1>2, <1>4, <1>5, ToMoves

\* Bytes that change nothing but the state.
PlainMove(S, s) == Byte(S) /\ Step(To(s))

LEMMA PlainMoves ==
  ASSUME Core, Cut, NEW S, NEW s \in States, PlainMove(S, s),
         \/ S = {"s_req_http_minor"} /\ s \in {"s_req_line_almost_done", "s_header_field_start"}
         \/ S = {"s_req_line_almost_done"} /\ s = "s_header_field_start"
         \/ S = {"s_header_value_lws"} /\ s = "s_header_value_start"
         \/ S = BetweenLines /\ s = "s_headers_almost_done"
         \/ S = {"s_chunk_size"} /\ s \in {"s_chunk_size_almost_done", "s_chunk_parameters"}
         \/ S = {"s_chunk_parameters"} /\ s = "s_chunk_size_almost_done"
  PROVE  Moves
<1>1. Byte(S) /\ Step(To(s)) /\ parser.state \in S
  BY DEF PlainMove, Byte
<1>2. To(s).errno = "OK" /\ To(s).state = s /\ To(s).flags = parser.flags
  BY <1>1, ToFacts
<1>3. /\ parser.state \notin TextStates
      /\ s \notin {"s_header_field", "s_header_value", "s_chunk_data", "s_body_identity"}
  BY <1>1 DEF TextStates, BetweenLines
<1>4. \/ parser.state \in LineStates /\ s \in LineStates /\ parser.state \in AfterUrl
      \/ parser.state \in AfterUrl /\ s \in FieldStates
      \/ parser.state \in FieldStates /\ s \in FieldStates
      \/ parser.state \in BodyStates /\ s \in BodyStates
  BY <1>1 DEF LineStates, FieldStates, BodyStates, ChunkHeadStates, AfterUrl, BetweenLines
<1> QED BY <1>1, <1>2, <1>3, <1>4, ToMoves

LEMMA PlainActions ==
  ASSUME Core, Cut, LineEnds \/ Fold \/ HeadersAlmostDone \/ ChunkSizeEnds
  PROVE  Moves
<1>1. \E S : \E s \in States :
        /\ PlainMove(S, s)
        /\ \/ S = {"s_req_http_minor"} /\ s \in {"s_req_line_almost_done", "s_header_field_start"}
           \/ S = {"s_req_line_almost_done"} /\ s = "s_header_field_start"
           \/ S = {"s_header_value_lws"} /\ s = "s_header_value_start"
           \/ S = BetweenLines /\ s = "s_headers_almost_done"
           \/ S = {"s_chunk_size"} /\ s \in {"s_chunk_size_almost_done", "s_chunk_parameters"}
           \/ S = {"s_chunk_parameters"} /\ s = "s_chunk_size_almost_done"
  <2>1. {"s_req_line_almost_done", "s_header_field_start", "s_header_value_start",
         "s_headers_almost_done", "s_chunk_size_almost_done", "s_chunk_parameters"}
           \subseteq States
    BY DEF States, HeaderStates, LineStates, FieldStates, ChunkHeadStates
  <2>2. CASE LineEnds
    BY <2>1, <2>2 DEF LineEnds, PlainMove
  <2>3. CASE Fold
    BY <2>1, <2>3 DEF Fold, PlainMove
  <2>4. CASE HeadersAlmostDone
    BY <2>1, <2>4 DEF HeadersAlmostDone, PlainMove
  <2>5. CASE ChunkSizeEnds
    BY <2>1, <2>5 DEF ChunkSizeEnds, PlainMove
  <2> QED BY <2>2, <2>3, <2>4, <2>5
<1> QED BY <1>1, PlainMoves

LEMMA HeaderLineEndsMoves ==
  ASSUME Core, Cut, HeaderLineEnds PROVE Moves
<1> DEFINE t == To("s_header_value_lws")
           f == Flagged(parser)
           q == [t EXCEPT !.flags = f]
<1>1. Byte({"s_header_almost_done"}) /\ "s_header_value_lws" \in States /\ Step(q)
  BY DEF HeaderLineEnds, States, HeaderStates, FieldStates
<1>2. t \in Parser /\ t.state = "s_header_value_lws" /\ t.errno = "OK"
  BY <1>1, ToFacts
<1>3. "TRAILING" \in f <=> "TRAILING" \in parser.flags
  BY DEF Flagged
<1> HIDE DEF t, f
<1>4. q.state = "s_header_value_lws" /\ q.errno = "OK" /\ q.flags = f
  BY <1>2 DEF Parser
<1> HIDE DEF q
<1>5. parser.state = "s_header_almost_done" /\ at # "idle"
  BY <1>1 DEF Byte
<1>6. DOMAIN marks = {}
  BY <1>5, Unmarked DEF TextStates
<1>7. Between(q) /\ Follows(q)
  BY <1>3, <1>4, <1>5 DEF Between, Follows, LineStates, FieldStates, AfterUrl
<1>8. Owed(q) = Owed(parser)
  BY <1>4, <1>5 DEF Owed
<1> QED BY <1>1, <1>4, <1>5, <1>6, <1>7, <1>8, StepMoves DEF Moves

LEMMA LastChunkMoves == ASSUME Core, Cut, LastChunk PROVE Moves
<1> DEFINE t == To("s_header_field_start")
           q == [t EXCEPT !.nread = 0, !.flags = t.flags \union {"TRAILING"}]
<1>1. Byte({"s_chunk_size_almost_done"}) /\ "s_header_field_start" \in States
  BY DEF LastChunk, States, HeaderStates, FieldStates
<1>2. t \in Parser /\ t.state = "s_header_field_start" /\ t.errno = "OK"
  BY <1>1, ToFacts
<1>3. Step(q)
  BY <1>2 DEF LastChunk, Parser
<1> HIDE DEF t
<1>4. q.state = "s_header_field_start" /\ q.errno = "OK" /\ "TRAILING" \in q.flags
  BY <1>2 DEF Parser
<1> HIDE DEF q
<1>5. parser.state = "s_chunk_size_almost_done" /\ at # "idle"
  BY <1>1 DEF Byte
<1>6. DOMAIN marks = {}
  BY <1>5, Unmarked DEF TextStates
<1>7. Between(q) /\ Follows(q)
  BY <1>4, <1>5
  DEF Between, Follows, LineStates, FieldStates, AfterUrl, BodyStates, ChunkHeadStates
<1>8. Owed(q) = Owed(parser)
  BY <1>4, <1>5 DEF Owed
<1> QED BY <1>3, <1>4, <1>5, <1>6, <1>7, <1>8, StepMoves DEF Moves

LEMMA ChunkMoves ==
  ASSUME Core, Cut, ChunkBegins \/ ChunkDone
  PROVE  /\ Cut' /\ [Message!Next]_Message!vars
         /\ Owing /\ (ChunkDone => UNCHANGED due) => Owing'
<1>1. ASSUME NEW S, Byte(S), parser.state \notin TextStates, parser.state \in BodyStates,
             NEW s \in States \intersect BodyStates, Step([To(s) EXCEPT !.nread = 0])
      PROVE  /\ Cut' /\ [Message!Next]_Message!vars
             /\ parser'.state = s /\ parser'.errno = "OK" /\ parser'.flags = parser.flags
             /\ parser'.length = parser.length
             /\ UNCHANGED given /\ Sum' = Sum
             /\ s \notin {"s_chunk_data", "s_body_identity"} => Moves
  <2> DEFINE t == To(s)
             q == [t EXCEPT !.nread = 0]
  <2>1. /\ t \in Parser /\ t.state = s /\ t.errno = "OK" /\ t.flags = parser.flags
        /\ t.length = parser.length
    BY <1>1, ToFacts
  <2>2. Step(q)
    BY <1>1
  <2> HIDE DEF t
  <2>3. q.state = s /\ q.errno = "OK" /\ q.flags = parser.flags /\ q.length = parser.length
    BY <2>1 DEF Parser
  <2> HIDE DEF q
  <2>4. s \notin {"s_header_field", "s_header_value"}
    BY <1>1 DEF BodyStates, ChunkHeadStates, ChunkDataStates
  <2> QED BY <1>1, <2>2, <2>3, <2>4, ToMoves
<1>2. CASE ChunkBegins
  <2>1. /\ Byte({"s_chunk_size_almost_done"})
        /\ Step([To("s_chunk_data") EXCEPT !.nread = 0])
    BY <1>2 DEF ChunkBegins
  <2>2. /\ parser.state \notin TextStates /\ parser.state \in BodyStates
        /\ "s_chunk_data" \in States \intersect BodyStates
    BY <2>1 DEF Byte, TextStates, BodyStates, ChunkHeadStates, ChunkDataStates, States
  <2>3. /\ Cut' /\ [Message!Next]_Message!vars
        /\ parser'.state = "s_chunk_data" /\ parser'.errno = "OK"
        /\ parser'.length = parser.length /\ UNCHANGED given /\ Sum' = Sum
    BY <1>1, <2>1, <2>2
  <2>4. ASSUME Owing PROVE Owing'
    <3>1. due' = due + parser.length /\ due \in Nat /\ parser.length \in Nat
      BY <1>2, <2>4, LengthAssumption
      DEF ChunkBegins, Owing, Core, Parser, Lengths, MaxLength
    <3>2. Owed(parser) = 0 /\ Owed(parser') = parser.length /\ Sum \in Nat
      BY <2>1, <2>3, SumsOK DEF Owed, Byte
    <3>3. ~Over(parser) /\ ~Over(parser') /\ ~Ahead(parser')
      BY <2>1, <2>3 DEF Over, Ahead, LineStates, FieldStates, Byte, Core
    <3> QED BY <2>3, <2>4, <3>1, <3>2, <3>3, OwingKept
  <2> QED BY <2>3, <2>4, <1>2 DEF ChunkBegins
<1>3. CASE ChunkDone
  <2>1. /\ Byte({"s_chunk_data_done"})
        /\ Step([To("s_chunk_size_start") EXCEPT !.nread = 0])
    BY <1>3 DEF ChunkDone
  <2>2. /\ parser.state \notin TextStates /\ parser.state \in BodyStates
        /\ "s_chunk_size_start" \in States \intersect BodyStates
    BY <2>1
    DEF Byte, TextStates, BodyStates, ChunkHeadStates, ChunkDataStates, States, HeaderStates
  <2>3. Moves
    BY <1>1, <2>1, <2>2
  <2> QED BY <1>3, <2>3 DEF Moves, Steady
<1> QED BY <1>2, <1>3

\* A digit of a number moves the parser as another byte would.
LEMMA Digits ==
  ASSUME Core, NEW S, Byte(S), NEW base \in {DecBase, HexBase}, NEW n, NEW s \in States, NEW m,
         \/ FirstDigit(base, n, s, m)
         \/ NextDigit(base, n) /\ m = marks /\ s = parser.state
  PROVE  \/ Error("CONTENT_LENGTH")
         \/ \E q : /\ q.errno = "OK" /\ q.state = s /\ q.flags = parser.flags
                   /\ Reads(n, q, m)
<1> DEFINE t == To(s)
<1>1. t \in Parser /\ t.state = s /\ t.errno = "OK" /\ t.flags = parser.flags
  BY ToFacts
<1>2. \/ Error("CONTENT_LENGTH")
      \/ \E l : Reads(n, [t EXCEPT !.length = l], m)
  <2>1. CASE FirstDigit(base, n, s, m)
    BY <2>1 DEF FirstDigit
  <2>2. CASE NextDigit(base, n) /\ m = marks /\ s = parser.state
    <3>1. PICK d \in 0..base - 1 :
           \/ Error("CONTENT_LENGTH")
           \/ Reads(n, [To(parser.state) EXCEPT !.length = NextLength(base, @, d)], marks)
      BY <2>2 DEF NextDigit
    <3>2. [t EXCEPT !.length = NextLength(base, @, d)]
            = [t EXCEPT !.length = NextLength(base, t.length, d)]
      OBVIOUS
    <3> HIDE DEF t
    <3> QED BY <2>2, <3>1, <3>2 DEF t
  <2> QED BY <2>1, <2>2
<1> HIDE DEF t
<1>3. \A l : /\ [t EXCEPT !.length = l].state = s
             /\ [t EXCEPT !.length = l].errno = "OK"
             /\ [t EXCEPT !.length = l].flags = parser.flags
  BY <1>1 DEF Parser
<1> QED BY <1>2, <1>3

LEMMA ChunkSizeMoves == ASSUME Core, Cut, ChunkSize PROVE Moves
<1>1. /\ Byte({"s_chunk_size_start", "s_chunk_size"}) /\ "s_chunk_size" \in States
      /\ parser.errno = "OK"
  BY DEF ChunkSize, Byte, Core, States, HeaderStates, ChunkHeadStates
<1>2. \/ FirstDigit(HexBase, 0, "s_chunk_size", marks)
      \/ NextDigit(HexBase, 0) /\ "s_chunk_size" = parser.state
  BY DEF ChunkSize, Byte
<1>3. \/ Error("CONTENT_LENGTH")
      \/ \E q : /\ q.errno = "OK" /\ q.state = "s_chunk_size" /\ q.flags = parser.flags
                /\ Reads(0, q, marks)
  BY <1>1, <1>2, Digits
<1>4. CASE Error("CONTENT_LENGTH")
  BY <1>1, <1>4, ErrorFails DEF Moves
<1>5. ASSUME NEW q, q.errno = "OK", q.state = "s_chunk_size", q.flags = parser.flags,
             Reads(0, q, marks)
      PROVE  Moves
  <2>1. Step(q) /\ parser.state \notin TextStates
    BY <1>1, <1>5 DEF Step, Byte, TextStates
  <2>2. parser.state \in BodyStates /\ "s_chunk_size" \in BodyStates
    BY <1>1 DEF Byte, BodyStates, ChunkHeadStates
  <2> QED BY <1>1, <1>5, <2>1, <2>2, ToMoves
<1> QED BY <1>3, <1>4, <1>5

-----------------------------------------------------------------------------
(***************************************************************************)
(* Bytes that end a text.                                                  *)
(***************************************************************************)

LEMMA UrlEndsMoves == ASSUME Core, Cut, UrlEnds PROVE Moves
<1>1. /\ Byte({"s_req_path"}) /\ "url" \in Texts
      /\ {"s_req_http_start", "s_req_line_almost_done", "s_header_field_start"} \subseteq States
      /\ parser.state = "s_req_path" /\ at # "idle"
  BY DEF UrlEnds, States, HeaderStates, LineStates, FieldStates, Texts, Byte
<1>2. DOMAIN marks \subseteq {"url"}
  BY <1>1 DEF Core, Asserted, MarkedIn
<1>3. \E q : /\ q.errno = "OK" /\ q.flags = parser.flags /\ Callback("url", q)
             /\ q.state \in {"s_req_http_start", "s_req_line_almost_done",
                             "s_header_field_start"}
  <2>1. CASE Callback("url", To("s_req_http_start"))
    BY <1>1, <2>1, ToFacts
  <2>2. ASSUME NEW s \in {"s_req_line_almost_done", "s_header_field_start"}, NEW b,
               Callback("url", [To(s) EXCEPT !.modern = b])
        PROVE  \E q : /\ q.errno = "OK" /\ q.flags = parser.flags /\ Callback("url", q)
                      /\ q.state = s
    <3> DEFINE t == To(s)
    <3>1. t \in Parser /\ t.state = s /\ t.errno = "OK" /\ t.flags = parser.flags
      BY <1>1, ToFacts
    <3>2. Callback("url", [t EXCEPT !.modern = b])
      BY <2>2
    <3> HIDE DEF t
    <3>3. /\ [t EXCEPT !.modern = b].state = s
          /\ [t EXCEPT !.modern = b].errno = "OK"
          /\ [t EXCEPT !.modern = b].flags = parser.flags
      BY <3>1 DEF Parser
    <3> QED BY <3>2, <3>3
  <2>3. \/ Callback("url", To("s_req_http_start"))
        \/ \E s \in {"s_req_line_almost_done", "s_header_field_start"}, b \in BOOLEAN :
             Callback("url", [To(s) EXCEPT !.modern = b])
    BY Zenon DEF UrlEnds
  <2> QED BY <2>1, <2>2, <2>3
<1>4. PICK q : /\ q.errno = "OK" /\ q.flags = parser.flags /\ Callback("url", q)
               /\ q.state \in {"s_req_http_start", "s_req_line_almost_done",
                               "s_header_field_start"}
  BY <1>3
<1>5. Between(q) /\ Follows(q)
  BY <1>1, <1>4 DEF Between, Follows, Cut, LineStates, FieldStates, AfterUrl
<1>9. Owed(q) = 0 /\ Owed(parser) = 0
  BY <1>1, <1>4 DEF Owed
<1> QED BY <1>1, <1>2, <1>4, <1>5, <1>9, CallbackMoves DEF Moves

LEMMA FieldEndsMoves == ASSUME Core, Cut, FieldEnds PROVE Moves
<1> DEFINE Ends == {"s_header_value_start", "s_header_almost_done", "s_header_field_start"}
<1>1. /\ Byte({"s_header_field"}) /\ "header_field" \in Texts /\ Ends \subseteq States
      /\ parser.state = "s_header_field" /\ at # "idle"
  BY DEF FieldEnds, States, HeaderStates, FieldStates, Texts, Byte
<1>2. DOMAIN marks \subseteq {"header_field"}
  BY <1>1 DEF Core, Asserted, MarkedIn
<1>3. PICK s \in Ends, h \in Names : Callback("header_field", [To(s) EXCEPT !.header_state = h])
  BY DEF FieldEnds
<1> DEFINE t == To(s)
           q == [t EXCEPT !.header_state = h]
<1>4. t \in Parser /\ t.state = s /\ t.errno = "OK" /\ t.flags = parser.flags
  BY <1>1, ToFacts
<1>5. Callback("header_field", q)
  BY <1>3
<1> HIDE DEF t
<1>6. q.state = s /\ q.errno = "OK" /\ q.flags = parser.flags
  BY <1>4 DEF Parser
<1> HIDE DEF q
<1>7. Between(q) /\ Follows(q)
  BY <1>1, <1>6 DEF Between, Follows, LineStates, FieldStates, AfterUrl
<1>9. Owed(q) = 0 /\ Owed(parser) = 0
  BY <1>1, <1>6 DEF Owed
<1> QED BY <1>1, <1>2, <1>5, <1>6, <1>7, <1>9, CallbackMoves DEF Moves

LEMMA ValueEndsMoves == ASSUME Core, Cut, ValueEnds PROVE Moves
<1>1. PICK h \in Meaning(parser.header_state) :
       \/ Callback("header_value", [To("s_header_almost_done") EXCEPT !.header_state = h])
       \/ LET q == [To("s_header_value_lws") EXCEPT !.header_state = h]
          IN  Callback("header_value", [q EXCEPT !.flags = Flagged(q)])
  BY DEF ValueEnds
<1>2. /\ Byte({"s_header_value"}) /\ "header_value" \in Texts
      /\ {"s_header_almost_done", "s_header_value_lws"} \subseteq States
      /\ parser.state = "s_header_value" /\ at # "idle"
  BY DEF ValueEnds, Texts, States, HeaderStates, FieldStates, Byte
<1>3. request.lines # <<>> /\ DOMAIN marks \subseteq {"header_value"}
  BY <1>2 DEF Core, Asserted, MarkedIn, Lined, Named
<1>4. ASSUME NEW q, q.errno = "OK", Callback("header_value", q),
             "TRAILING" \in q.flags <=> "TRAILING" \in parser.flags,
             q.state \in {"s_header_almost_done", "s_header_value_lws"}
      PROVE  Moves
  <2>1. Between(q) /\ Follows(q)
    BY <1>2, <1>4 DEF Between, Follows, LineStates, FieldStates, AfterUrl
  <2>9. Owed(q) = 0 /\ Owed(parser) = 0
    BY <1>2, <1>4 DEF Owed
  <2> QED BY <1>2, <1>3, <1>4, <2>1, <2>9, CallbackMoves DEF Moves
<1>5. CASE Callback("header_value", [To("s_header_almost_done") EXCEPT !.header_state = h])
  <2> DEFINE t == To("s_header_almost_done")
             q == [t EXCEPT !.header_state = h]
  <2>1. t \in Parser /\ t.state = "s_header_almost_done" /\ t.errno = "OK"
        /\ t.flags = parser.flags
    BY <1>2, ToFacts
  <2>2. q.state = "s_header_almost_done" /\ q.errno = "OK" /\ q.flags = parser.flags
    <3> HIDE DEF t
    <3> QED BY <2>1 DEF Parser
  <2> QED BY <1>4, <1>5, <2>2
<1>6. CASE LET q == [To("s_header_value_lws") EXCEPT !.header_state = h]
           IN  Callback("header_value", [q EXCEPT !.flags = Flagged(q)])
  <2> DEFINE t == To("s_header_value_lws")
             u == [t EXCEPT !.header_state = h]
             f == Flagged(u)
             q == [u EXCEPT !.flags = f]
  <2>1. t \in Parser /\ t.state = "s_header_value_lws" /\ t.errno = "OK"
        /\ t.flags = parser.flags
    BY <1>2, ToFacts
  <2>2. /\ u.state = "s_header_value_lws" /\ u.errno = "OK" /\ u.flags = parser.flags
        /\ DOMAIN u = DOMAIN t /\ u = [k \in DOMAIN t |-> u[k]]
    <3> HIDE DEF t
    <3> QED BY <2>1 DEF Parser
  <2>3. "TRAILING" \in f <=> "TRAILING" \in parser.flags
    <3> HIDE DEF u
    <3> QED BY <2>2 DEF Flagged
  <2>4. q.state = "s_header_value_lws" /\ q.errno = "OK" /\ q.flags = f
    <3> HIDE DEF f
    <3>1. {"state", "errno", "flags"} \subseteq DOMAIN t
      <4> HIDE DEF t
      <4> QED BY <2>1 DEF Parser
    <3> HIDE DEF u
    <3> QED BY <2>2, <3>1
  <2>5. Callback("header_value", q)
    BY <1>6
  <2> HIDE DEF q, f
  <2> QED BY <1>4, <2>3, <2>4, <2>5
<1> QED BY <1>1, <1>5, <1>6

LEMMA ChunkDataEndsMoves ==
  ASSUME Core, Cut, ChunkDataEnds PROVE Moves
<1> DEFINE q == To("s_chunk_data_done")
<1>1. /\ Byte({"s_chunk_data_almost_done"}) /\ "s_chunk_data_done" \in States
      /\ "body" \in Texts /\ Callback("body", q)
      /\ parser.state = "s_chunk_data_almost_done" /\ at # "idle"
  BY DEF ChunkDataEnds, States, ChunkDataStates, Texts, Byte
<1>2. q.state = "s_chunk_data_done" /\ q.errno = "OK"
  BY <1>1, ToFacts
<1> HIDE DEF q
<1>3. DOMAIN marks \subseteq {"body"}
  BY <1>1 DEF Core, Asserted, MarkedIn
<1>4. Between(q) /\ Follows(q)
  BY <1>1, <1>2 DEF Between, Follows, LineStates, AfterUrl, BodyStates, ChunkDataStates
<1>9. Owed(q) = 0 /\ Owed(parser) = 0
  BY <1>1, <1>2 DEF Owed
<1> QED BY <1>1, <1>2, <1>3, <1>4, <1>9, CallbackMoves DEF Moves

-----------------------------------------------------------------------------
(***************************************************************************)
(* Bytes of a text.                                                        *)
(***************************************************************************)

LEMMA TextMoves ==
  ASSUME Core, Cut, parser.errno = "OK", NEW text \in Texts, DOMAIN marks \subseteq {text},
         NEW m, m = Mark(text) \/ (m = marks /\ text \in DOMAIN marks),
         NEW q, q.errno = "OK", TextByte(q, m),
         q.state = "s_header_field" => text = "header_field",
         q.state = "s_header_value" => text = "header_value",
         q.state \in AfterUrl => text = "url",
         q.state \in LineStates => "TRAILING" \notin q.flags
  PROVE  /\ Cut'
         /\ Building' = Plain(Received(request, text, Marked(text) + 1))
         /\ Stage = StageOf(parser) /\ Stage' = StageOf(q)
         /\ Plain(given)' = Plain(given) /\ read' = read + 1
         /\ parser' = q /\ UNCHANGED given
         /\ Sum' = Sum + (IF text = "body" THEN 1 ELSE 0) /\ Sum \in Nat
<1>1. /\ Building' = Plain(Received(request, text, Marked(text) + 1))
      /\ Marked(text) \in Nat
      /\ parser' = q /\ request' = request /\ at' = "reading"
      /\ DOMAIN marks' = {text} /\ marks'[text] = Marked(text) + 1
      /\ UNCHANGED given /\ read' = read + 1
  BY TextByteForms
<1>2. request.url \in Nat
  BY DEF Core, Request
<1>3. q.state \in AfterUrl => request'.url + Marked("url")' > 0
  BY <1>1, <1>2 DEF Marked
<1>4. Cut'
  BY <1>1, <1>3 DEF Cut, Unvalued
<1>5. Sum' = Sum + (IF text = "body" THEN 1 ELSE 0) /\ Sum \in Nat
  <2>1. /\ Marked("body")' = Marked("body") + (IF text = "body" THEN 1 ELSE 0)
        /\ Marked("body") \in Nat
    BY <1>1 DEF Marked
  <2>2. request'.body = request.body /\ request.body \in Nat
    BY <1>1 DEF Core, Request
  <2> HIDE DEF Marked
  <2> QED BY <2>1, <2>2 DEF Sum
<1> QED BY <1>1, <1>4, <1>5, Stages DEF Plain

LEMMA UrlByteMoves == ASSUME Core, Cut, UrlByte PROVE Cut' /\ Message!Next /\ Steady
<1>1. PICK s \in {"s_req_schema", "s_req_path"} : TextByte(To(s), Mark("url"))
  BY DEF UrlByte
<1>2. /\ Byte({"s_req_spaces_before_url", "s_req_schema", "s_req_path"})
      /\ s \in States /\ "url" \in Texts
      /\ parser.state \in {"s_req_spaces_before_url", "s_req_schema", "s_req_path"}
  BY DEF UrlByte, States, HeaderStates, LineStates, Texts, Byte
<1> DEFINE q == To(s)
<1>3. q.state = s /\ q.errno = "OK" /\ q.flags = parser.flags /\ parser.errno = "OK"
  BY <1>2, ToFacts
<1>4. TextByte(q, Mark("url"))
  BY <1>1
<1> HIDE DEF q
<1>5. DOMAIN marks \subseteq {"url"}
  BY <1>2 DEF Core, Asserted, MarkedIn
<1>6. parser.state \in LineStates /\ q.state \in LineStates
  BY <1>2, <1>3 DEF LineStates
<1>7. /\ Cut' /\ Building' = Plain(Received(request, "url", Marked("url") + 1))
      /\ Stage = StageOf(parser) /\ Stage' = StageOf(q)
      /\ Plain(given)' = Plain(given) /\ read' = read + 1
      /\ parser' = q /\ UNCHANGED given /\ Sum' = Sum /\ Sum \in Nat
  <2>1. "TRAILING" \notin q.flags
    BY <1>3, <1>6 DEF Cut
  <2>2. q.state \notin {"s_header_field", "s_header_value"}
    BY <1>3
  <2> QED BY <1>2, <1>3, <1>4, <1>5, <2>1, <2>2, TextMoves
<1>8. Building' = [Building EXCEPT !.url = @ + 1]
  BY <1>3, <1>5, <1>7, UrlAndBodyGrow DEF Cut
<1>9. Stage = "line" /\ Stage' = "line"
  BY <1>3, <1>6, <1>7, StageCases
<1>10. Steady
  <2>1. Follows(q) /\ Owed(q) = 0 /\ Owed(parser) = 0
    BY <1>2, <1>3, <1>6 DEF Follows, Owed
  <2> QED BY <1>3, <1>7, <2>1, SteadyStep
<1> QED BY <1>7, <1>8, <1>9, <1>10 DEF Message!Next, Message!UrlByte

LEMMA BodyBytesMove == ASSUME Core, Cut, ChunkData \/ BodyByte PROVE Cut' /\ Message!Next /\ Steady
<1> DEFINE Ends == {"s_chunk_data", "s_chunk_data_almost_done", "s_body_identity"}
<1> DEFINE Shorter(s) == TextByte([To(s) EXCEPT !.length = @ - 1], Mark("body"))
           Leads(s) == Shorter(s) /\ (s = "s_chunk_data_almost_done" => parser.length = 1)
<1>0. \E s \in Ends : Leads(s)
  <2>1. CASE ChunkData /\ parser.length = 1
    <3>1. Leads("s_chunk_data_almost_done")
      BY <2>1 DEF ChunkData
    <3> HIDE DEF Leads
    <3> QED BY <3>1
  <2>2. CASE ChunkData /\ parser.length # 1
    <3>1. Leads("s_chunk_data")
      BY <2>2 DEF ChunkData
    <3> HIDE DEF Leads
    <3> QED BY <3>1
  <2>3. CASE BodyByte
    <3>1. Leads("s_body_identity")
      BY <2>3 DEF BodyByte
    <3> HIDE DEF Leads
    <3> QED BY <3>1
  <2> QED BY <2>1, <2>2, <2>3
<1> HIDE DEF Leads
<1>1. PICK s \in Ends : Leads(s)
  BY <1>0
<1> USE DEF Leads
<1> HIDE DEF Shorter
<1>2. /\ Byte({"s_chunk_data", "s_body_identity"}) /\ s \in States /\ "body" \in Texts
      /\ parser.state \in {"s_chunk_data", "s_body_identity"}
  BY DEF ChunkData, BodyByte, States, ChunkDataStates, Texts, Byte
<1> DEFINE t == To(s)
           l == t.length - 1
           q == [t EXCEPT !.length = l]
<1>3. t \in Parser /\ t.state = s /\ t.errno = "OK" /\ parser.errno = "OK"
      /\ t.length = parser.length
  BY <1>2, ToFacts
<1>4. TextByte(q, Mark("body"))
  <2>1. [To(s) EXCEPT !.length = @ - 1] = q
    OBVIOUS
  <2>2. Shorter(s)
    BY <1>1
  <2> HIDE DEF q
  <2> QED BY <2>1, <2>2 DEF Shorter
<1> HIDE DEF t, l
<1>5. q.state = s /\ q.errno = "OK" /\ q.length = l
  BY <1>3 DEF Parser
<1> HIDE DEF q
<1>6. DOMAIN marks \subseteq {"body"}
  BY <1>2 DEF Core, Asserted, MarkedIn
<1>7. parser.state \in BodyStates /\ q.state \in BodyStates
  BY <1>2, <1>5 DEF BodyStates, ChunkDataStates
<1>8. /\ Cut' /\ Building' = Plain(Received(request, "body", Marked("body") + 1))
      /\ Stage = StageOf(parser) /\ Stage' = StageOf(q)
      /\ Plain(given)' = Plain(given) /\ read' = read + 1
      /\ parser' = q /\ UNCHANGED given /\ Sum' = Sum + 1 /\ Sum \in Nat
  <2>1. q.state \notin {"s_header_field", "s_header_value"} \union AfterUrl \union LineStates
    BY <1>5 DEF AfterUrl, LineStates
  <2> QED BY <1>2, <1>3, <1>4, <1>5, <1>6, <2>1, TextMoves
<1>9. Building' = [Building EXCEPT !.body = @ + 1]
  BY <1>3, <1>6, <1>8, UrlAndBodyGrow DEF Cut
<1>10. Stage = "body" /\ Stage' = "body"
  BY <1>3, <1>5, <1>7, <1>8, StageCases DEF BodyStates
<1>11. Steady
  <2>1. parser.length \in Nat /\ parser.length > 0
    BY <1>2, LengthAssumption
    DEF Core, Asserted, Parser, Lengths, MaxLength
  <2>2. l = parser.length - 1
    BY <1>3 DEF l
  <2>3. Owed(parser) = parser.length
    BY <1>2 DEF Owed
  <2>6. Owed(q) = parser.length - 1
    <3>1. q.length = parser.length - 1
      BY <1>5, <2>2
    <3>2. CASE s = "s_chunk_data_almost_done"
      <4>1. parser.length = 1
        BY <1>1, <3>2
      <4>2. Owed(q) = 0
        BY <1>5, <3>2 DEF Owed
      <4> QED BY <4>1, <4>2
    <3>3. CASE s # "s_chunk_data_almost_done"
      BY <1>5, <3>1, <3>3 DEF Owed
    <3> QED BY <3>2, <3>3
  <2>4. Sum' + Owed(q) = Sum + Owed(parser) /\ Sum' \in Nat /\ Owed(q) \in Nat
    BY <1>8, <2>1, <2>3, <2>6
  <2>5. Follows(q)
    BY <1>7 DEF Follows
  <2> QED BY <1>3, <1>5, <1>8, <2>4, <2>5, SteadyStep
<1> QED BY <1>8, <1>9, <1>10, <1>11 DEF Message!Next, Message!BodyByte

\* In a header, or in the trailer.
LEMMA HeaderStage ==
  ASSUME NEW q, q.errno = "OK", q.state \in FieldStates, q.flags = parser.flags,
         parser.errno = "OK", parser.state \in FieldStates
  PROVE  StageOf(q) = StageOf(parser) /\ StageOf(q) \in {"head", "trailer"}
BY StageCases

LEMMA NameMoves ==
  ASSUME Core, Cut, parser.errno = "OK", DOMAIN marks \subseteq {"header_field"},
         NEW m, m = Mark("header_field") \/ (m = marks /\ "header_field" \in DOMAIN marks),
         NEW q, q.errno = "OK", q.state = "s_header_field", q.flags = parser.flags,
         parser.state \in FieldStates, TextByte(q, m)
  PROVE  Cut' /\ Message!Next /\ Steady
<1>1. "header_field" \in Texts /\ "s_header_field" \in FieldStates \ (AfterUrl \union LineStates)
  BY DEF Texts, FieldStates, AfterUrl, LineStates
<1>2. /\ Cut'
      /\ Stage = StageOf(parser) /\ Stage' = StageOf(q)
      /\ Plain(given)' = Plain(given) /\ read' = read + 1
      /\ parser' = q /\ UNCHANGED given /\ Sum' = Sum /\ Sum \in Nat
  BY <1>1, TextMoves
<1>3. NameGrows(Building, Building')
  BY NamesGrow DEF Cut
<1>4. Stage' = Stage /\ Stage \in {"head", "trailer"}
  BY <1>1, <1>2, HeaderStage
<1>5. Message!NameByte(Len(Building.lines))
  BY <1>2, <1>3, <1>4 DEF NameGrows, Message!NameByte
<1>6. Steady
  <2>1. parser.state \notin {"s_body_identity", "s_chunk_data"}
    BY DEF FieldStates
  <2>2. Follows(q) /\ Owed(q) = 0 /\ Owed(parser) = 0
    BY <1>1, <2>1 DEF Follows, Owed
  <2> QED BY <1>2, <2>2, SteadyStep
<1> QED BY <1>2, <1>6, <1>5 DEF Message!Next

\* n = 0: an empty value.
LEMMA ValueStep ==
  ASSUME NEW n \in {0, 1}, ValueGrows(Building, Building', n), read' = read + n,
         Plain(given)' = Plain(given), Stage' = Stage, Stage \in {"head", "trailer"}
  PROVE  Message!Next
BY DEF ValueGrows, Message!ValueByte, Message!Next

LEMMA ValueMoves ==
  ASSUME Core, Cut, parser.errno = "OK", DOMAIN marks \subseteq {"header_value"},
         request.lines # <<>>,
         NEW m, m = Mark("header_value") \/ (m = marks /\ "header_value" \in DOMAIN marks),
         NEW q, q.errno = "OK", q.state = "s_header_value",
         "TRAILING" \in q.flags <=> "TRAILING" \in parser.flags,
         parser.state \in FieldStates, TextByte(q, m)
  PROVE  Cut' /\ Message!Next /\ Steady
<1>1. "header_value" \in Texts /\ "s_header_value" \in FieldStates \ (AfterUrl \union LineStates)
  BY DEF Texts, FieldStates, AfterUrl, LineStates
<1>2. /\ Cut'
      /\ Stage = StageOf(parser) /\ Stage' = StageOf(q)
      /\ Plain(given)' = Plain(given) /\ read' = read + 1
      /\ parser' = q /\ UNCHANGED given /\ Sum' = Sum /\ Sum \in Nat
  BY <1>1, TextMoves
<1>3. ValueGrows(Building, Building', 1)
  BY ValuesGrow DEF Cut
<1>4. Stage' = Stage /\ Stage \in {"head", "trailer"}
  BY <1>1, <1>2, StageCases
<1>6. Steady
  <2>1. parser.state \notin {"s_body_identity", "s_chunk_data"}
    BY DEF FieldStates
  <2>2. Follows(q) /\ Owed(q) = 0 /\ Owed(parser) = 0
    BY <1>1, <2>1 DEF Follows, Owed
  <2> QED BY <1>2, <2>2, SteadyStep
<1> QED BY <1>2, <1>6, <1>3, <1>4, ValueStep

LEMMA FieldBeginsMoves == ASSUME Core, Cut, FieldBegins PROVE Cut' /\ Message!Next /\ Steady
<1> DEFINE t == To("s_header_field")
           q == [t EXCEPT !.header_state = "general"]
<1>1. /\ Byte(BetweenLines) /\ "s_header_field" \in States
      /\ TextByte(q, Mark("header_field"))
  BY DEF FieldBegins, States, HeaderStates, FieldStates
<1>2. t \in Parser /\ t.state = "s_header_field" /\ t.errno = "OK"
      /\ t.flags = parser.flags /\ parser.errno = "OK" /\ parser.state \in BetweenLines
  BY <1>1, ToFacts
<1> HIDE DEF t
<1>3. q.state = "s_header_field" /\ q.errno = "OK" /\ q.flags = parser.flags
  BY <1>2 DEF Parser
<1> HIDE DEF q
<1>4. DOMAIN marks = {} /\ parser.state \in FieldStates
  BY <1>2, Unmarked DEF TextStates, BetweenLines, FieldStates
<1> QED BY <1>1, <1>2, <1>3, <1>4, NameMoves

LEMMA InsideTextMoves == ASSUME Core, Cut, InsideText PROVE Cut' /\ Message!Next /\ Steady
<1> DEFINE q == To(parser.state)
<1>1. /\ Byte({"s_header_field", "s_header_value"}) /\ parser.state \in States
      /\ TextByte(q, marks) /\ at # "idle"
      /\ parser.state \in {"s_header_field", "s_header_value"}
  BY DEF InsideText, Core, Parser, Byte
<1>2. q.state = parser.state /\ q.errno = "OK" /\ q.flags = parser.flags /\ parser.errno = "OK"
  BY <1>1, ToFacts
<1> HIDE DEF q
<1>3. parser.state \in FieldStates
  BY <1>1 DEF FieldStates
<1>4. CASE parser.state = "s_header_field"
  <2>1. DOMAIN marks \subseteq {"header_field"} /\ "header_field" \in DOMAIN marks
    BY <1>1, <1>4 DEF Core, Asserted, MarkedIn, Cut
  <2> QED BY <1>1, <1>2, <1>3, <1>4, <2>1, NameMoves
<1>5. CASE parser.state = "s_header_value"
  <2>1. /\ DOMAIN marks \subseteq {"header_value"} /\ "header_value" \in DOMAIN marks
        /\ request.lines # <<>>
    BY <1>1, <1>5 DEF Core, Asserted, MarkedIn, Lined, Named, Cut
  <2> QED BY <1>1, <1>2, <1>3, <1>5, <2>1, ValueMoves
<1> QED BY <1>1, <1>4, <1>5

LEMMA ValueBeginsMoves == ASSUME Core, Cut, ValueBegins PROVE Cut' /\ Message!Next /\ Steady
<1> DEFINE t == To("s_header_value")
           f == t.flags \union {"UPGRADE"}
<1>1. Byte({"s_header_value_start"}) /\ "s_header_value" \in States
  BY DEF ValueBegins, States, HeaderStates, FieldStates
<1>2. /\ t \in Parser /\ t.state = "s_header_value" /\ t.errno = "OK" /\ t.flags = parser.flags
      /\ parser.state = "s_header_value_start" /\ parser.errno = "OK"
  BY <1>1, ToFacts
<1>3. \/ TextByte([t EXCEPT !.header_state = "general", !.flags = f], Mark("header_value"))
      \/ TextByte(t, Mark("header_value"))
      \/ TextByte([t EXCEPT !.header_state = "general"], Mark("header_value"))
  BY <1>2 DEF ValueBegins, Parser
<1>4. "TRAILING" \in f <=> "TRAILING" \in parser.flags
  BY <1>2
<1> HIDE DEF t, f
<1>5. \A q \in {[t EXCEPT !.header_state = "general", !.flags = f], t,
                [t EXCEPT !.header_state = "general"]} :
        /\ q.state = "s_header_value" /\ q.errno = "OK"
        /\ "TRAILING" \in q.flags <=> "TRAILING" \in parser.flags
  BY <1>2, <1>4 DEF Parser
<1>6. /\ request.lines # <<>> /\ DOMAIN marks = {} /\ parser.state \in FieldStates
  BY <1>2, Unmarked DEF Core, Lined, Named, TextStates, FieldStates
<1> QED BY <1>2, <1>3, <1>5, <1>6, ValueMoves

LEMMA ContentLengthMoves == ASSUME Core, Cut, ContentLength PROVE Cut' /\ Message!Next /\ Steady
<1> DEFINE m == IF parser.state = "s_header_value" THEN marks ELSE Mark("header_value")
<1>1. /\ Byte({"s_header_value_start", "s_header_value"}) /\ "s_header_value" \in States
      /\ parser.errno = "OK" /\ at # "idle"
      /\ parser.state \in {"s_header_value_start", "s_header_value"}
  BY DEF ContentLength, Byte, Core, States, HeaderStates, FieldStates
<1>2. \/ FirstDigit(DecBase, 1, "s_header_value", m)
      \/ NextDigit(DecBase, 1) /\ m = marks /\ "s_header_value" = parser.state
  BY DEF ContentLength, Byte
<1>3. /\ request.lines # <<>> /\ DOMAIN marks \subseteq {"header_value"}
      /\ parser.state \in FieldStates
      /\ m = Mark("header_value") \/ (m = marks /\ "header_value" \in DOMAIN marks)
  BY <1>1 DEF Core, Asserted, MarkedIn, Lined, Named, FieldStates, Cut
<1> HIDE DEF m
<1>4. \/ Error("CONTENT_LENGTH")
      \/ \E q : /\ q.errno = "OK" /\ q.state = "s_header_value" /\ q.flags = parser.flags
                /\ Reads(1, q, m)
  BY <1>1, <1>2, Digits
<1>5. CASE Error("CONTENT_LENGTH")
  BY <1>1, <1>5, ErrorFails
<1>6. ASSUME NEW q, q.errno = "OK", q.state = "s_header_value", q.flags = parser.flags,
             Reads(1, q, m)
      PROVE  Cut' /\ Message!Next /\ Steady
  BY <1>1, <1>3, <1>6, ValueMoves DEF TextByte
<1> QED BY <1>4, <1>5, <1>6

LEMMA ValueEmptyMoves == ASSUME Core, Cut, ValueEmpty PROVE Cut' /\ Message!Next /\ Steady
<1> DEFINE s == request.lines
           v == Received(request, "header_value", 0)
<1>1. /\ Byte({"s_header_value_start"}) /\ "header_value" \in Texts
      /\ {"s_header_almost_done", "s_header_field_start"} \subseteq States
      /\ parser.state = "s_header_value_start" /\ parser.errno = "OK"
  BY DEF ValueEmpty, Texts, States, HeaderStates, FieldStates, Byte, Core
<1>2. s # <<>> /\ DOMAIN marks = {}
  BY <1>1, Unmarked DEF Core, Lined, Named, TextStates
<1>3. request' = v /\ at' = "reading" /\ UNCHANGED <<given, read>> /\ DOMAIN marks' = {}
  BY <1>2, MarkDomains DEF ValueEmpty
<1>4. /\ parser'.errno = "OK" /\ parser'.flags = parser.flags
      /\ parser'.state \in {"s_header_almost_done", "s_header_field_start"}
  <2>1. CASE parser' = [To("s_header_almost_done") EXCEPT !.header_state = "general"]
    <3> DEFINE t == To("s_header_almost_done")
    <3>1. /\ t \in Parser /\ t.state = "s_header_almost_done" /\ t.errno = "OK"
          /\ t.flags = parser.flags
      BY <1>1, ToFacts
    <3> HIDE DEF t
    <3> QED BY <2>1, <3>1 DEF Parser, t
  <2>2. CASE parser' = To("s_header_field_start")
    BY <1>1, <2>2, ToFacts
  <2> QED BY <2>1, <2>2 DEF ValueEmpty
<1>5. /\ request \in Request /\ Paired(request) /\ Unvalued(request) /\ read \in Nat
      /\ request.url \in Nat /\ request.body \in Nat /\ s \in Seq(Line) /\ 0 \in Nat
  BY DEF Core, Cut, Request
<1>6. Unvalued(v)
  BY <1>1, <1>5, ReceivingCut
<1>7. /\ Building = Plainly(request.url, s, request.body)
      /\ Building' = Plainly(request.url, LongerValue(s, 0), request.body)
  <2>1. Building = Plain(request) /\ Building' = Plain(v)
    BY <1>1, <1>2, <1>3, <1>4, BuildingForms, BuildingForms2
  <2>2. Plain(v) = Plainly(request.url, LongerValue(s, 0), request.body)
    BY <1>2, <1>5, ReceivedForms
  <2>3. Plain(request) = Plainly(request.url, s, request.body)
    BY DEF Plain, Plainly
  <2> QED BY <2>1, <2>2, <2>3
<1>8. ValueGrows(Building, Building', 0)
  BY <1>2, <1>5, <1>7, GrowForms
<1> HIDE DEF v
<1>9. Cut'
  BY <1>3, <1>4, <1>6 DEF Cut, AfterUrl, LineStates
<1>10. Stage' = Stage /\ Stage \in {"head", "trailer"}
  <2>1. parser.state \in FieldStates /\ parser'.state \in FieldStates
    BY <1>1, <1>4 DEF FieldStates
  <2> QED BY <1>1, <1>4, <2>1, Stages, StageCases
<1>11. read' = read + 0 /\ Plain(given)' = Plain(given)
  BY <1>3, <1>5 DEF Plain
<1>12. Steady
  <2>1. v.body = request.body
    BY <1>2, <1>5 DEF v, Received, Request
  <2>2. Sum' = Sum /\ Sum \in Nat
    BY <1>2, <1>3, <2>1, SumsOK DEF Sum, Marked
  <2>3. Owed(parser) = 0 /\ Owed(parser') = 0
    BY <1>1, <1>4 DEF Owed
  <2>4. Follows(parser')
    BY <1>1, <1>4 DEF Follows, FieldStates
  <2> QED BY <1>1, <1>3, <1>4, <2>2, <2>3, <2>4, SteadyStep
<1> QED BY <1>8, <1>9, <1>10, <1>11, <1>12, ValueStep

-----------------------------------------------------------------------------
(***************************************************************************)
(* The ends of buffers.                                                    *)
(***************************************************************************)

\* The parser is left as it is.
LEMMA SteadyEnds ==
  ASSUME Core, UNCHANGED <<parser, given>>, Sum' = Sum
  PROVE  Steady
<1>1. Sum \in Nat /\ Owed(parser) \in Nat
  BY SumsOK
<1> SUFFICES ASSUME Owing, UNCHANGED due PROVE Owing'
  BY DEF Steady
<1>2. due \in Nat
  BY DEF Owing
<1> QED BY <1>1, <1>2, OwingKept

LEMMA BufferStartMoves ==
  ASSUME Core, Cut, BufferStart PROVE Moves
<1> DEFINE r == request
           s == r.lines
<1>1. /\ at = "idle" /\ at' = "fresh" /\ parser.errno = "OK" /\ DOMAIN marks = {}
      /\ UNCHANGED <<parser, request, given, read>>
      /\ DOMAIN marks' = StartMarks(parser.state) /\ \A k \in DOMAIN marks' : marks'[k] = 0
  BY DEF BufferStart, Cut
<1>2. /\ r \in Request /\ Paired(r) /\ Unvalued(r)
      /\ r.url \in Nat /\ r.body \in Nat /\ s \in Seq(Line) /\ r.wasValue \in BOOLEAN
      /\ 0 \in Nat /\ r.url + 0 = r.url
  BY DEF Core, Cut, Request
<1>3. Plain(r) = Plainly(r.url, s, r.body)
  BY DEF Plain, Plainly
<1>4. Building = Plain(r)
  BY <1>1, BuildingForms
<1>5. Building' = Plain(r)
  <2>1. CASE StartMarks(parser.state) = {}
    BY <1>1, <2>1, BuildingForms2
  <2>2. ASSUME NEW text, StartMarks(parser.state) = {text}
        PROVE  Building' = Plain(Received(r, text, 0))
    BY <1>1, <2>2, BuildingForms2
  <2>3. CASE parser.state = "s_header_field"
    <3>1. ~r.wasValue /\ s # <<>> /\ ~s[Len(s)].valued
      BY <1>1, <1>2, <2>3 DEF Cut, Paired, Unvalued
    <3>2. LongerName(s, 0) = s
      BY <1>2, <3>1, LongerTexts
    <3>3. Building' = Plain(Received(r, "header_field", 0))
      BY <2>2, <2>3 DEF StartMarks
    <3> QED BY <1>2, <1>3, <3>1, <3>2, <3>3, ReceivedForms
  <2>4. CASE parser.state = "s_header_value"
    <3>1. r.wasValue /\ s # <<>> /\ s[Len(s)].valued
      BY <1>1, <1>2, <2>4 DEF Cut, Paired, Core, Lined, Named
    <3>2. LongerValue(s, 0) = s
      BY <1>2, <3>1, LongerTexts
    <3>3. Building' = Plain(Received(r, "header_value", 0))
      BY <2>2, <2>4 DEF StartMarks
    <3> QED BY <1>2, <1>3, <3>1, <3>2, <3>3, ReceivedForms
  <2>5. CASE parser.state \in {"s_req_schema", "s_req_path"}
    <3>1. Building' = Plain(Received(r, "url", 0))
      BY <2>2, <2>5 DEF StartMarks
    <3> QED BY <1>2, <1>3, <3>1, ReceivedForms
  <2> QED BY <2>1, <2>3, <2>4, <2>5 DEF StartMarks
<1>6. Cut'
  <2>1. Marked("url") = 0 /\ Marked("url")' = 0
    BY <1>1 DEF Marked
  <2>2. /\ parser.state = "s_header_field" => "header_field" \in DOMAIN marks'
        /\ parser.state = "s_header_value" => "header_value" \in DOMAIN marks'
    BY <1>1 DEF StartMarks
  <2> QED BY <1>1, <2>1, <2>2 DEF Cut, Unvalued
<1>7. Stage' = Stage /\ Plain(given)' = Plain(given) /\ read' = read
  BY <1>1 DEF Stage, StageOf, Plain
<1>8. Sum' = Sum
  BY <1>1 DEF Sum, Marked, StartMarks
<1>9. Steady
  BY <1>1, <1>8, SteadyEnds
<1> QED BY <1>4, <1>5, <1>6, <1>7, <1>9 DEF Moves, Message!vars

LEMMA BufferEndMoves ==
  ASSUME Core, Cut, BufferEnd PROVE Moves
<1>1. at = "reading" /\ parser.errno = "OK"
  BY DEF BufferEnd, Core
<1>2. CASE /\ DOMAIN marks = {} /\ at' = "idle"
           /\ UNCHANGED <<parser, marks, request, given, read>>
  <2>1. Cut'
    BY <1>1, <1>2 DEF Cut, Unvalued, Marked
  <2>2. Building' = Building /\ Stage' = Stage /\ Plain(given)' = Plain(given) /\ read' = read
    BY <1>2 DEF Building, Stage, StageOf, Plain
  <2>3. Steady
    BY <1>2, SteadyEnds DEF Sum, Marked
  <2> QED BY <2>1, <2>2, <2>3 DEF Moves, Message!vars
<1>3. CASE /\ \E text \in DOMAIN marks : request' = Received(request, text, marks[text])
           /\ at' = "idle"
           /\ marks' = NoMarks
           /\ UNCHANGED <<parser, given, read>>
  <2>1. PICK text \in DOMAIN marks : request' = Received(request, text, marks[text])
    BY <1>3
  <2>2. /\ text \in Texts /\ marks[text] \in Nat /\ DOMAIN marks = {text}
        /\ DOMAIN marks' = {}
    BY <1>3, MarkDomains DEF Core, MarksOK, Asserted, MarkedIn
  <2>3. /\ parser.state = "s_header_field" => text = "header_field"
        /\ parser.state = "s_header_value" => text = "header_value"
    BY <2>2 DEF Core, Asserted, MarkedIn
  <2>4. /\ Unvalued(request')
        /\ text = "header_field" => ~request'.wasValue
        /\ text = "header_value" => request'.wasValue
        /\ text = "url" => request'.url = request.url + marks["url"]
        /\ text # "url" => request'.url = request.url
    BY <2>1, <2>2, ReceivingCut DEF Core, Cut
  <2>5. request'.url = request.url + Marked("url") /\ request'.url \in Nat
    BY <2>2, <2>4 DEF Marked, Core, Request
  <2>6. Cut'
    BY <1>3, <2>2, <2>3, <2>4, <2>5 DEF Cut, Marked
  <2>7. Building' = Building
    BY <1>1, <1>3, <2>1, <2>2, BuildingForms, BuildingForms2
  <2>8. Stage' = Stage /\ Plain(given)' = Plain(given) /\ read' = read
    BY <1>3 DEF Stage, StageOf, Plain
  <2>9. request'.body + 0 = request.body + Marked("body")
    BY <2>1, <2>2 DEF Marked, Received, Core, Request
  <2>10. Steady
    BY <1>3, <2>2, <2>9, SteadyEnds DEF Sum, Marked
  <2> QED BY <2>6, <2>7, <2>8, <2>10 DEF Moves, Message!vars
<1>4. CASE Error("CALLBACK")
  BY <1>1, <1>4, ErrorFails DEF Moves
<1> QED BY <1>2, <1>3, <1>4 DEF BufferEnd

-----------------------------------------------------------------------------
(***************************************************************************)
(* The ends of messages.                                                   *)
(***************************************************************************)

LEMMA MessageBeginMoves == ASSUME Core, Cut, MessageBegin PROVE Cut' /\ Message!Next /\ Owing'
<1> DEFINE t == To("s_req_method")
           q == [t EXCEPT !.flags = {}, !.length = MaxLength]
<1>1. Byte({"s_start_req"}) /\ "s_req_method" \in States
  BY DEF MessageBegin, States, HeaderStates, LineStates
<1>2. /\ t \in Parser /\ t.state = "s_req_method" /\ t.errno = "OK"
      /\ parser.state = "s_start_req" /\ parser.errno = "OK"
  BY <1>1, ToFacts
<1>3. parser' = q
  BY DEF MessageBegin
<1> HIDE DEF t
<1>4. q.state = "s_req_method" /\ q.errno = "OK" /\ q.flags = {}
  BY <1>2 DEF Parser
<1> HIDE DEF q
<1>5. DOMAIN marks = {}
  BY <1>2, Unmarked DEF TextStates
<1>6. /\ DOMAIN marks' = {} /\ at' = "reading" /\ request' = NoRequest /\ given' = NoRequest
      /\ read' = 0
  BY <1>5, MarkDomains DEF MessageBegin
<1>7. Cut'
  BY <1>3, <1>4, <1>6 DEF Cut, Unvalued, NoRequest, AfterUrl
<1>8. Plain(NoRequest) = Message!Empty
  BY DEF Plain, NoRequest, Message!Empty
<1>9. Building' = Message!Empty /\ Plain(given)' = Message!Empty
  BY <1>3, <1>4, <1>6, <1>8, BuildingForms2 DEF Plain
<1>10. Stage = "start" /\ Stage' = "line"
  <2>1. q.state \in LineStates
    BY <1>4 DEF LineStates
  <2> QED BY <1>2, <1>3, <1>4, <2>1, Stages, StageCases
<1>11. Owing'
  <2>1. request'.body = 0 /\ due' = 0
    BY <1>6 DEF NoRequest, MessageBegin
  <2>2. Marked("body")' = 0
    BY <1>6 DEF Marked
  <2>3. Sum' = 0
    BY <2>1, <2>2 DEF Sum
  <2>4. Owed(parser') = 0
    BY <1>3, <1>4 DEF Owed
  <2>5. Owed(parser)' = 0
    BY <2>4 DEF Owed
  <2> QED BY <1>6, <2>1, <2>3, <2>5 DEF Owing, BodyAsAnnounced
<1> QED BY <1>6, <1>7, <1>9, <1>10, <1>11 DEF Message!Next, Message!Begin

LEMMA Completes ==
  ASSUME Core, NEW q \in Parser, q.errno = "OK", NEW r, Unvalued(r), NEW n,
         DOMAIN marks \subseteq {"body"}, MessageComplete(q, r, n)
  PROVE  /\ Cut' /\ Building' = Plain(r) /\ Plain(given)' = Building'
         /\ Stage' \in {"start", "dead"} /\ read' = read + n
         /\ due' \in Nat /\ due' = r.body => Owing'
<1>1. parser'.state \in {"s_start_req", "s_dead"} /\ parser'.errno = "OK"
  BY DEF MessageComplete, NewMessage, Parser
<1>2. DOMAIN marks' = {}
  BY MarkDomains DEF MessageComplete
<1>3. request' = r /\ given' = r /\ read' = read + n
  BY DEF MessageComplete
<1>4. Cut'
  BY <1>1, <1>2, <1>3 DEF Cut, AfterUrl, LineStates
<1>5. Building' = Plain(r)
  BY <1>1, <1>2, <1>3, BuildingForms2
<1>6. Stage' \in {"start", "dead"}
  BY <1>1, Stages, StageCases
<1>7. due' \in Nat /\ due' = r.body => Owing'
  BY <1>1, <1>3 DEF Owing, BodyAsAnnounced, Over
<1> QED BY <1>3, <1>4, <1>5, <1>6, <1>7 DEF Plain

\* With the line that ends the headers or the trailer.
LEMMA HeadCompletes ==
  ASSUME Core, Cut, parser.errno = "OK", parser.state \in FieldStates \ TextStates,
         NEW q \in Parser, q.errno = "OK", MessageComplete(q, request, 0)
  PROVE  Cut' /\ Message!Next /\ Steady
<1>1. DOMAIN marks = {} /\ Unvalued(request) /\ read \in Nat
  BY Unmarked DEF Cut, Core
<1>2. /\ Cut' /\ Building' = Plain(request) /\ Plain(given)' = Building'
      /\ Stage' \in {"start", "dead"} /\ read' = read + 0
      /\ due' \in Nat /\ due' = request.body => Owing'
  BY <1>1, Completes
<1>3. Building = Plain(request) /\ read + 0 = read
  BY <1>1, BuildingForms
<1>4. Stage \in {"head", "trailer"}
  BY Stages, StageCases
<1>5. Steady
  <2>1. Sum = request.body + 0 /\ request.body \in Nat
    BY <1>1 DEF Sum, Marked, Core, Request
  <2>2. Owed(parser) = 0 /\ ~Over(parser)
    BY DEF Owed, Over, FieldStates
  <2>3. Owing => due = request.body /\ due \in Nat
    BY <2>1, <2>2 DEF Owing
  <2> QED BY <1>2, <2>3 DEF Steady
<1> QED BY <1>2, <1>3, <1>4, <1>5 DEF Message!Next, Message!Complete

LEMMA TrailerEndsMoves == ASSUME Core, Cut, TrailerEnds PROVE Cut' /\ Message!Next /\ Steady
<1>1. /\ Byte(BetweenLines \union {"s_headers_almost_done"})
      /\ "s_headers_almost_done" \in States
      /\ MessageComplete(To("s_headers_almost_done"), request, 0)
  BY DEF TrailerEnds, States, HeaderStates, FieldStates
<1>2. /\ To("s_headers_almost_done") \in Parser /\ To("s_headers_almost_done").errno = "OK"
      /\ parser.errno = "OK" /\ parser.state \in BetweenLines \union {"s_headers_almost_done"}
  BY <1>1, ToFacts
<1>3. parser.state \in FieldStates \ TextStates
  BY <1>2 DEF BetweenLines, FieldStates, TextStates
<1> QED BY <1>1, <1>2, <1>3, HeadCompletes

LEMMA HeadersEndMoves ==
  ASSUME Core, Cut, HeadersEnd
  PROVE  Cut' /\ [Message!Next]_Message!vars /\ (Owing => Owing')
<1> DEFINE t == To("s_headers_almost_done")
           b == "UPGRADE" \in parser.flags \/ parser.connect
           q == [t EXCEPT !.nread = 0, !.upgrade = b]
<1>1. /\ Byte(BetweenLines \union {"s_headers_almost_done"})
      /\ {"s_headers_almost_done", "s_chunk_size_start", "s_body_identity"} \subseteq States
      /\ "TRAILING" \notin parser.flags
  BY DEF HeadersEnd, States, HeaderStates, FieldStates, ChunkHeadStates
<1>2. /\ t \in Parser /\ t.errno = "OK" /\ t.length = parser.length /\ parser.errno = "OK" /\ at # "idle"
      /\ parser.state \in BetweenLines \union {"s_headers_almost_done"}
  BY <1>1, ToFacts
<1>3. b \in BOOLEAN /\ 0 \in 0..MaxHeader
  BY HeaderAssumption DEF Core, Parser
<1>4. q \in Parser /\ q.errno = "OK" /\ q.length = parser.length
  <2> HIDE DEF t, b
  <2> QED BY <1>2, <1>3 DEF Parser
<1>5. parser.state \in FieldStates \ TextStates
  BY <1>2 DEF BetweenLines, FieldStates, TextStates
<1>6. \/ MessageComplete(q, request, 0) /\ UNCHANGED due
      \/ \E s \in {"s_chunk_size_start", "s_body_identity"} :
           /\ Step([q EXCEPT !.state = s])
           /\ due' = IF s = "s_body_identity" THEN parser.length ELSE due
  BY DEF HeadersEnd
<1> HIDE DEF q
<1>7. CASE MessageComplete(q, request, 0) /\ UNCHANGED due
  BY <1>2, <1>4, <1>5, <1>7, HeadCompletes DEF Steady
<1>8. ASSUME NEW s \in {"s_chunk_size_start", "s_body_identity"}, Step([q EXCEPT !.state = s]),
             due' = IF s = "s_body_identity" THEN parser.length ELSE due
      PROVE  Cut' /\ [Message!Next]_Message!vars /\ (Owing => Owing')
  <2> DEFINE v == [q EXCEPT !.state = s]
  <2>1. v.errno = "OK" /\ v.state = s /\ v.length = parser.length
    BY <1>4 DEF Parser
  <2>2. Step(v)
    BY <1>8
  <2> HIDE DEF v
  <2>3. DOMAIN marks = {}
    BY <1>5, Unmarked
  <2>4. Between(v) /\ Follows(v)
    BY <1>1, <1>5, <2>1
    DEF Between, Follows, AfterUrl, LineStates, BodyStates, ChunkHeadStates
  <2>5. /\ Cut' /\ [Message!Next]_Message!vars
        /\ parser' = v /\ UNCHANGED given /\ Sum' = Sum
    BY <1>2, <2>1, <2>2, <2>3, <2>4, StepMoves
  <2>6. ASSUME Owing PROVE Owing'
    <3>1. /\ Sum \in Nat /\ parser.length \in Nat /\ due \in Nat
      BY <2>6, SumsOK, LengthAssumption DEF Core, Parser, Lengths, MaxLength, Owing
    <3>2. Owed(parser) = 0 /\ ~Over(parser) /\ Ahead(parser)
      BY <1>1, <1>2, <1>5 DEF Owed, Over, Ahead, FieldStates
    <3>3. due = 0
      BY <2>6, <3>2 DEF Owing
    <3>4. ~Over(v) /\ ~Ahead(v) /\ Owed(v) = IF s = "s_body_identity" THEN parser.length ELSE 0
      BY <2>1 DEF Owed, Over, Ahead, FieldStates, LineStates
    <3>5. Owed(v) \in Nat /\ due' = Owed(v)
      BY <1>8, <3>1, <3>3, <3>4
    <3> QED BY <2>5, <2>6, <3>1, <3>2, <3>3, <3>4, <3>5, OwingKept
  <2> QED BY <2>5, <2>6
<1> QED BY <1>6, <1>7, <1>8

LEMMA LastBodyByteMoves == ASSUME Core, Cut, LastBodyByte PROVE Cut' /\ Message!Next /\ Steady
<1> DEFINE t == To("s_body_identity")
           q == [t EXCEPT !.length = 0]
           r == Received(request, "body", WholeBody(Mark("body")))
<1>1. /\ Byte({"s_body_identity"}) /\ "s_body_identity" \in States /\ "body" \in Texts
      /\ MessageComplete(q, r, 1) \/ Error("CALLBACK")
  BY DEF LastBodyByte, States, Texts
<1>2. t \in Parser /\ t.errno = "OK" /\ parser.errno = "OK" /\ parser.state = "s_body_identity"
  BY <1>1, ToFacts
<1>3. q \in Parser /\ q.errno = "OK"
  <2>1. 0 \in Lengths
    BY LengthAssumption DEF Lengths, MaxLength
  <2> HIDE DEF t
  <2> QED BY <1>2, <2>1 DEF Parser
<1> HIDE DEF q
<1>4. DOMAIN marks \subseteq {"body"}
  BY <1>2 DEF Core, Asserted, MarkedIn
<1>5. WholeBody(Mark("body")) = Marked("body") + 1
  BY DEF WholeBody, Mark, Marked
<1>6. Marked("body") + 1 \in Nat
  BY <1>1 DEF Marked, Core, MarksOK
<1>7. Unvalued(r) /\ r = Received(request, "body", Marked("body") + 1)
  BY <1>1, <1>5, <1>6, ReceivingCut DEF Core, Cut
<1>10. r.body = request.body + (Marked("body") + 1)
  BY <1>7 DEF Received, Core, Request
<1> HIDE DEF r
<1>8. CASE MessageComplete(q, r, 1)
  <2>1. /\ Cut' /\ Building' = Plain(r) /\ Plain(given)' = Building'
        /\ Stage' \in {"start", "dead"} /\ read' = read + 1
        /\ due' \in Nat /\ due' = r.body => Owing'
    BY <1>3, <1>4, <1>7, <1>8, Completes
  <2>2. Building' = [Building EXCEPT !.body = @ + 1]
    BY <1>2, <1>4, <1>7, <2>1, UrlAndBodyGrow DEF Cut
  <2>3. Stage = "body"
    BY <1>2, Stages, StageCases
  <2>4. Steady
    <3>1. Sum + 1 = request.body + (Marked("body") + 1)
      BY <1>6, SumsOK DEF Sum, Core, Request, Marked, MarksOK
    <3>2. Owed(parser) = 1 /\ ~Over(parser)
      BY <1>2 DEF LastBodyByte, Owed, Over
    <3>3. Owing => due = r.body /\ due \in Nat
      BY <1>10, <3>1, <3>2 DEF Owing
    <3> QED BY <2>1, <3>3 DEF Steady
  <2> QED BY <2>1, <2>2, <2>3, <2>4 DEF Message!Next, Message!Complete
<1>9. CASE Error("CALLBACK")
  BY <1>2, <1>9, ErrorFails
<1> QED BY <1>1, <1>8, <1>9

-----------------------------------------------------------------------------
(***************************************************************************)
(* HttpParser implements HttpMessage.                                      *)
(***************************************************************************)

LEMMA CutInit == Init => Cut /\ Message!Init
<1> SUFFICES ASSUME Init PROVE Cut /\ Message!Init
  OBVIOUS
<1>1. /\ parser = NewParser /\ DOMAIN marks = {} /\ request = NoRequest /\ given = NoRequest
      /\ read = 0
  BY MarkDomains DEF Init
<1>2. Cut
  BY <1>1 DEF Init, Cut, Unvalued, NewParser, NoRequest, AfterUrl, LineStates
<1>3. Building = Plain(NoRequest) /\ Stage = "start"
  BY <1>1, BuildingForms, Stages, StageCases DEF NewParser
<1>4. Plain(NoRequest) = Message!Empty
  BY DEF Plain, NoRequest, Message!Empty
<1> QED BY <1>1, <1>2, <1>3, <1>4 DEF Message!Init

LEMMA OwingInit == Init => Owing
<1> SUFFICES ASSUME Init PROVE Owing
  OBVIOUS
<1>1. Over(parser) /\ given = NoRequest /\ due = 0
  BY DEF Init, NewParser, Over
<1> QED BY <1>1 DEF Owing, BodyAsAnnounced

\* The steps that change neither what was announced nor what is spelled.
LEMMA MovesPlainly ==
  ASSUME Core, Cut, Next, ~MessageBegin, ~HeadersEnd, ~ContentLength, ~ChunkSize, ~ChunkBegins
  PROVE  Moves
<1>0. UNCHANGED due
  BY DEF Next
<1>1. CASE Refuse \/ Overflow
  <2>1. parser.errno = "OK"
    BY <1>1 DEF Refuse, Overflow, Byte, Core
  <2> QED BY <1>1, <2>1, ErrorFails DEF Refuse, Overflow, Moves
<1>2. CASE ChunkDone
  BY <1>0, <1>2, ChunkMoves DEF Moves, Steady
<1>3. CASE InsideText \/ UrlByte \/ FieldBegins \/ ValueEmpty \/ ValueBegins \/ ChunkData
             \/ BodyByte \/ LastBodyByte \/ TrailerEnds
  BY <1>3, InsideTextMoves, UrlByteMoves, FieldBeginsMoves, ValueEmptyMoves,
     ValueBeginsMoves, BodyBytesMove, LastBodyByteMoves, TrailerEndsMoves DEF Moves
<1>4. CASE \/ BufferStart \/ BufferEnd \/ Inside \/ MethodEnds \/ UrlEnds \/ Version \/ LineEnds
           \/ FieldEnds \/ ValueEnds \/ HeaderLineEnds \/ Fold \/ HeadersAlmostDone
           \/ ChunkSizeEnds \/ LastChunk \/ ChunkDataEnds
  BY <1>4, BufferStartMoves, BufferEndMoves, InsideMoves, MethodEndsMoves, UrlEndsMoves,
     VersionMoves, PlainActions, FieldEndsMoves, ValueEndsMoves, HeaderLineEndsMoves,
     LastChunkMoves, ChunkDataEndsMoves DEF Moves
<1> QED BY <1>1, <1>2, <1>3, <1>4 DEF Next

LEMMA NextMoves ==
  ASSUME Core, Cut, [Next]_vars
  PROVE  Cut' /\ [Message!Next]_Message!vars /\ (Owing => Owing')
<1>1. CASE UNCHANGED vars
  <2>1. Cut'
    BY <1>1 DEF vars, Cut, Unvalued, Marked
  <2>2. UNCHANGED Message!vars
    BY <1>1 DEF vars, Message!vars, Building, Stage, StageOf, Plain
  <2>3. Owing => Owing'
    BY <1>1 DEF vars, Owing, BodyAsAnnounced, Sum, Marked, Owed, Over, Ahead
  <2> QED BY <2>1, <2>2, <2>3
<1>2. CASE MessageBegin
  BY <1>2, MessageBeginMoves
<1>3. CASE HeadersEnd
  BY <1>3, HeadersEndMoves
<1>4. CASE ContentLength
  BY <1>4, ContentLengthMoves DEF Steady, ContentLength
<1>5. CASE ChunkSize
  BY <1>5, ChunkSizeMoves DEF Moves, Steady, ChunkSize
<1>6. CASE ChunkBegins /\ ~ChunkDone
  BY <1>6, ChunkMoves
<1>7. CASE /\ Next
           /\ ~MessageBegin /\ ~HeadersEnd /\ ~ContentLength /\ ~ChunkSize /\ ~ChunkBegins
  <2>1. UNCHANGED due
    BY <1>7 DEF Next
  <2> QED BY <1>7, <2>1, MovesPlainly DEF Moves, Steady
<1>8. ~(ChunkBegins /\ ChunkDone)
  BY DEF ChunkBegins, ChunkDone, Byte
<1> QED BY <1>1, <1>2, <1>3, <1>4, <1>5, <1>6, <1>7, <1>8

\* The requests the handler gets do not depend on how their bytes were cut
\* into buffers: no byte is lost, doubled or put into another text, whatever
\* the lengths of the texts, the limits and the width of a length.
THEOREM ParserIsMessage == Spec => MessageSpec
<1>1. Core /\ Cut /\ [Next]_vars => (Core /\ Cut)' /\ [Message!Next]_Message!vars
  BY CoreNext, NextMoves
<1> QED BY <1>1, CoreInit, CutInit, PTL DEF Spec, MessageSpec, Message!Spec

\* The handler gets as many bytes of body as the request announced, in a
\* Content-Length or chunk by chunk, whatever buffers they came in.
THEOREM BodyStaysAsAnnounced == Spec => []BodyAsAnnounced
<1>1. Init => Core /\ Cut /\ Owing
  BY CoreInit, CutInit, OwingInit
<1>2. Core /\ Cut /\ Owing /\ [Next]_vars => (Core /\ Cut /\ Owing)'
  BY CoreNext, NextMoves
<1>3. Owing => BodyAsAnnounced
  BY DEF Owing
<1> QED BY <1>1, <1>2, <1>3, PTL DEF Spec
=============================================================================

----------------------------- MODULE HttpParser -----------------------------
(***************************************************************************)
(* http_parser_execute for requests, with the data callbacks of            *)
(* http-parser-callbacks.c: how the bytes of a connection, which arrive in *)
(* buffers cut anywhere, become the text of a request.                     *)
(*                                                                         *)
(* One action is one byte, or the start or the end of a buffer.  A byte is *)
(* represented by what it makes the parser do in its state: that a word    *)
(* (a method, a header's name, "close") was the one the parser knows is    *)
(* chosen where the word ends.  Texts are represented by their lengths.  A *)
(* byte that the code looks at in several states (goto reexecute_byte) is  *)
(* one action that does all of it.                                         *)
(*                                                                         *)
(* A mark points at the first byte, in this buffer, of a text that is not  *)
(* handed to its callback yet; it is represented by the number of bytes    *)
(* from there to the current one (p - FOR##_mark).                         *)
(***************************************************************************)
EXTENDS Naturals, Sequences, FiniteSets, LengthArith

CONSTANTS
  MaxHeader,    \* HTTP_MAX_HEADER_SIZE
  MaxBody,      \* bound: bytes of a chunked body
  MaxText       \* bound: bytes of a URL, of a header's name, of a value

ASSUME HeaderAssumption == MaxHeader \in Nat /\ MaxBody \in Nat /\ MaxText \in Nat

VARIABLES
  at,         \* outside http_parser_execute ("idle"), or inside, before or
              \* after the first byte of the buffer ("fresh", "reading")
  parser,     \* the http_parser
  marks,      \* the marks that are set
  request,    \* the evweb_request, as the callbacks left it
  given,      \* history: the request the handler was called with
  read,       \* history: the bytes of texts that were read of this message
  spelled,    \* history: the length the digits of the last number spell,
              \* or LengthSpan for all that do not fit
  due         \* history: the bytes of the body announced so far

vars == <<at, parser, marks, request, given, read, spelled, due>>

(***************************************************************************)
(* States of the parser.  The three states of a URL's scheme are one, the  *)
(* seven of its other parts another: s_req_path; those of "HTTP/1." are    *)
(* s_req_http_start.                                                       *)
(***************************************************************************)
LineStates == {"s_req_method", "s_req_spaces_before_url", "s_req_schema",
               "s_req_path", "s_req_http_start", "s_req_http_minor",
               "s_req_line_almost_done"}
FieldStates == {"s_header_field_start", "s_header_field", "s_header_value_start",
                "s_header_value", "s_header_value_lws", "s_header_almost_done",
                "s_headers_almost_done"}
ChunkHeadStates == {"s_chunk_size_start", "s_chunk_size", "s_chunk_parameters",
                    "s_chunk_size_almost_done"}
ChunkDataStates == {"s_chunk_data", "s_chunk_data_almost_done", "s_chunk_data_done"}

\* PARSING_HEADER
HeaderStates == {"s_dead", "s_start_req"} \union LineStates \union FieldStates
                  \union ChunkHeadStates

States == HeaderStates \union ChunkDataStates \union {"s_body_identity"}

\* What the name of a header turned out to be.
Names == {"general", "connection", "content_length", "transfer_encoding", "upgrade"}

Flags == {"CHUNKED", "KEEP_ALIVE", "CLOSE", "TRAILING", "UPGRADE"}

Texts == {"url", "header_field", "header_value", "body"}

Parser == [state : States,
           header_state : Names \union {"keep_alive", "close", "chunked"},
           flags : SUBSET Flags,
           nread : 0..MaxHeader,
           length : Lengths,        \* content_length
           modern : BOOLEAN,        \* http_major > 0 and http_minor > 0
           connect : BOOLEAN,       \* the method is CONNECT
           upgrade : BOOLEAN,
           errno : {"OK", "INVALID", "CONTENT_LENGTH", "HEADER_OVERFLOW", "CALLBACK"}]

Line == [field : Nat, value : Nat, valued : BOOLEAN]

\* wasValue: last_was_value
Request == [url : Nat, lines : Seq(Line), wasValue : BOOLEAN, body : Nat]

NoRequest == [url |-> 0, lines |-> <<>>, wasValue |-> TRUE, body |-> 0]

NoMarks == [k \in {} |-> 0]

TypeOK ==
  /\ at \in {"idle", "fresh", "reading"}
  /\ parser \in Parser
  /\ DOMAIN marks \subseteq Texts /\ \A k \in DOMAIN marks : marks[k] \in Nat
  /\ request \in Request
  /\ given \in Request
  /\ read \in Nat
  /\ spelled \in 0..LengthSpan
  /\ due \in Nat

\* http_parser_init
NewParser == [state |-> "s_start_req", header_state |-> "general", flags |-> {},
              nread |-> 0, length |-> 0, modern |-> FALSE, connect |-> FALSE,
              upgrade |-> FALSE, errno |-> "OK"]

Init ==
  /\ at = "idle"
  /\ parser = NewParser
  /\ marks = NoMarks
  /\ request = NoRequest
  /\ given = NoRequest
  /\ read = 0
  /\ spelled = 0
  /\ due = 0

-----------------------------------------------------------------------------
(***************************************************************************)
(* The data callbacks: what n bytes of a text do to the request.           *)
(***************************************************************************)

\* Mutant: every piece of a name starts a line.
NewLineAlways(r) == TRUE

\* on_header_field starts a line after a value, or at the first name.
NewLine(r) == r.wasValue

Received(r, text, n) ==
  CASE text = "url"  -> [r EXCEPT !.url = @ + n]
    [] text = "body" -> [r EXCEPT !.body = @ + n]
    [] text = "header_field" /\ NewLine(r) ->
         [r EXCEPT !.lines = Append(@, [field |-> n, value |-> 0, valued |-> FALSE]),
                   !.wasValue = FALSE]
    [] text = "header_field" /\ ~NewLine(r) ->
         [r EXCEPT !.lines[Len(r.lines)].field = @ + n, !.wasValue = FALSE]
    [] OTHER ->
         [r EXCEPT !.lines[Len(r.lines)].value = @ + n,
                   !.lines[Len(r.lines)].valued = TRUE,
                   !.wasValue = TRUE]

\* on_url refuses a URL, and any of these may fail to get memory.
Fallible == {"url", "header_field", "body"}

-----------------------------------------------------------------------------
(***************************************************************************)
(* Steps.                                                                  *)
(***************************************************************************)

\* MARK: no effect on a mark that is set.
Mark(text) ==
  [k \in DOMAIN marks \union {text} |-> IF k \in DOMAIN marks THEN marks[k] ELSE 0]

Without(m, text) == [k \in DOMAIN m \ {text} |-> m[k]]

\* The current byte is behind us.
Passed(m) == [k \in DOMAIN m |-> m[k] + 1]

\* The parser looks at a byte in one of these states.
Byte(states) ==
  /\ at # "idle"
  /\ parser.state \in states
  /\ parser.state \in HeaderStates => parser.nread < MaxHeader

\* It is now in state s, and has counted the byte.
To(s) == [parser EXCEPT !.state = s,
                        !.nread = IF parser.state \in HeaderStates THEN @ + 1 ELSE @]

\* Within MaxText there is room for one more byte of the texts in m.
Fits(m) ==
  LET last == request.lines[Len(request.lines)]
      sofar(text) == CASE text = "url"          -> request.url
                       [] text = "header_value" -> last.value
                       [] text = "header_field" -> IF NewLine(request) THEN 0 ELSE last.field
                       [] OTHER                 -> 0
  IN  \A text \in DOMAIN m : sofar(text) + m[text] < MaxText

\* A byte that calls nothing back, and is one of n bytes of a text.
Reads(n, q, m) ==
  /\ Fits(m)
  /\ parser' = q
  /\ marks' = Passed(m)
  /\ at' = "reading"
  /\ read' = read + n
  /\ UNCHANGED <<request, given>>

Step(q) == Reads(0, q, marks)
TextByte(q, m) == Reads(1, q, m)

(***************************************************************************)
(* http_parser_execute returns with an error.  The stream is destroyed, or *)
(* will be with the next buffer, and parser and request with it: nothing   *)
(* but the error is read of them any more, and nothing but it is kept.     *)
(***************************************************************************)
Error(errno) ==
  /\ parser' = [NewParser EXCEPT !.errno = errno]
  /\ request' = NoRequest
  /\ marks' = NoMarks
  /\ at' = "idle"
  /\ read' = 0
  /\ UNCHANGED given

\* A byte that ends a text, which is handed to its callback.
Callback(text, q) ==
  \/ /\ text \notin DOMAIN marks
     /\ Step(q)
  \/ /\ text \in DOMAIN marks
     /\ request' = Received(request, text, marks[text])
     /\ parser' = q
     /\ marks' = Passed(Without(marks, text))
     /\ at' = "reading"
     /\ UNCHANGED <<given, read>>
  \/ /\ text \in DOMAIN marks \intersect Fallible
     /\ Error("CALLBACK")

\* http_should_keep_alive
KeepAlive(q) == IF q.modern THEN "CLOSE" \notin q.flags ELSE "KEEP_ALIVE" \in q.flags

\* NEW_MESSAGE, after its mutant: a state of a response parser.
NewMessageUntilEof(q) == IF KeepAlive(q) THEN "s_start_req" ELSE "s_body_identity_eof"
NewMessage(q) == IF KeepAlive(q) THEN "s_start_req" ELSE "s_dead"

\* on_message_complete, at a byte that is one of n of a text; after a request
\* to upgrade, http_parser_execute returns.
MessageComplete(q, r, n) ==
  /\ parser' = [q EXCEPT !.state = NewMessage(q)]
  /\ request' = r
  /\ given' = r
  /\ read' = read + n
  /\ IF q.upgrade THEN at' = "idle" /\ marks' = NoMarks
     ELSE at' = "reading" /\ marks' = Passed(Without(marks, "body"))

-----------------------------------------------------------------------------
(***************************************************************************)
(* Buffers.                                                                *)
(***************************************************************************)

\* Mutant: a header's value that was cut is not taken up again.
StartMarksButValue(s) ==
  CASE s = "s_header_field"                -> {"header_field"}
    [] s \in {"s_req_schema", "s_req_path"} -> {"url"}
    [] OTHER                               -> {}

\* The text the first byte of a buffer continues.
StartMarks(s) ==
  CASE s = "s_header_field"                -> {"header_field"}
    [] s = "s_header_value"                -> {"header_value"}
    [] s \in {"s_req_schema", "s_req_path"} -> {"url"}
    [] OTHER                               -> {}

\* on_stream_data destroys the stream after an error or an upgrade.
BufferStart ==
  /\ at = "idle"
  /\ parser.errno = "OK" /\ ~parser.upgrade
  /\ at' = "fresh"
  /\ marks' = [k \in StartMarks(parser.state) |-> 0]
  /\ UNCHANGED <<parser, request, given, read>>

\* The bytes are used up: the callbacks of the marks left are run.
BufferEnd ==
  /\ at = "reading"
  /\ \/ /\ DOMAIN marks = {}
        /\ at' = "idle"
        /\ UNCHANGED <<parser, marks, request, given, read>>
     \/ /\ \E text \in DOMAIN marks : request' = Received(request, text, marks[text])
        /\ at' = "idle"
        /\ marks' = NoMarks
        /\ UNCHANGED <<parser, given, read>>
     \/ /\ DOMAIN marks \intersect Fallible # {}
        /\ Error("CALLBACK")

-----------------------------------------------------------------------------
(***************************************************************************)
(* The request line.                                                       *)
(***************************************************************************)

\* The first letter of a method: on_message_begin.
MessageBegin ==
  /\ Byte({"s_start_req"})
  /\ parser' = [To("s_req_method") EXCEPT !.flags = {}, !.length = MaxLength]
  /\ marks' = Passed(marks)
  /\ at' = "reading"
  /\ request' = NoRequest
  /\ given' = NoRequest
  /\ read' = 0
  /\ spelled' = 0
  /\ due' = 0

\* A byte that changes nothing: CR or LF before a request, a letter of a
\* method, a space, a byte of the version, of a chunk's parameters.
Inside ==
  /\ Byte({"s_start_req", "s_req_method", "s_req_spaces_before_url", "s_req_http_start",
           "s_req_http_minor", "s_header_value_start", "s_chunk_parameters"})
  /\ Step(To(parser.state))

\* The same within a name or a value.
InsideText ==
  /\ Byte({"s_header_field", "s_header_value"})
  /\ TextByte(To(parser.state), marks)

MethodEnds ==
  /\ Byte({"s_req_method"})
  /\ \E c \in BOOLEAN :
       Step([To("s_req_spaces_before_url") EXCEPT !.connect = c])

\* parse_url_char: a URL of CONNECT begins with its host.
UrlByte ==
  /\ Byte({"s_req_spaces_before_url", "s_req_schema", "s_req_path"})
  /\ \E s \in {"s_req_schema", "s_req_path"} :
       /\ s = "s_req_schema" => parser.state # "s_req_path" /\ ~parser.connect
       /\ TextByte(To(s), Mark("url"))

\* A space; or CR or LF, and the request is one of HTTP/0.9.
UrlEnds ==
  /\ Byte({"s_req_path"})
  /\ \/ Callback("url", To("s_req_http_start"))
     \/ \E s \in {"s_req_line_almost_done", "s_header_field_start"} :
          Callback("url", [To(s) EXCEPT !.modern = FALSE])

\* The first digit of the minor version, which later digits may make positive.
Version ==
  /\ Byte({"s_req_http_start", "s_req_http_minor"})
  /\ \E m \in BOOLEAN :
       /\ parser.state = "s_req_http_minor" => m
       /\ Step([To("s_req_http_minor") EXCEPT !.modern = m])

LineEnds ==
  \/ /\ Byte({"s_req_http_minor"})
     /\ \E s \in {"s_req_line_almost_done", "s_header_field_start"} : Step(To(s))
  \/ /\ Byte({"s_req_line_almost_done"})
     /\ Step(To("s_header_field_start"))

-----------------------------------------------------------------------------
(***************************************************************************)
(* Headers.                                                                *)
(***************************************************************************)

\* Where a byte that does not continue the last value begins something new.
BetweenLines == {"s_header_field_start", "s_header_value_lws"}

FieldBegins ==
  /\ Byte(BetweenLines)
  /\ TextByte([To("s_header_field") EXCEPT !.header_state = "general"], Mark("header_field"))

\* A colon, or CR or LF and the line has no value.
FieldEnds ==
  /\ Byte({"s_header_field"})
  /\ \E s \in {"s_header_value_start", "s_header_almost_done", "s_header_field_start"},
        h \in Names :
       Callback("header_field", [To(s) EXCEPT !.header_state = h])

\* CR or LF instead of a value.
ValueEmpty ==
  /\ Byte({"s_header_value_start"})
  /\ request' = Received(request, "header_value", 0)
  /\ marks' = Passed(Without(marks, "header_value"))
  /\ \/ parser' = [To("s_header_almost_done") EXCEPT !.header_state = "general"]
     \/ parser' = To("s_header_field_start")
  /\ at' = "reading"
  /\ UNCHANGED <<given, read>>

\* The first byte of a value, of one that is no length.
ValueBegins ==
  LET h == parser.header_state
      q == To("s_header_value")
  IN  /\ Byte({"s_header_value_start"})
      /\ \/ /\ h = "upgrade"
            /\ TextByte([q EXCEPT !.header_state = "general", !.flags = @ \union {"UPGRADE"}],
                     Mark("header_value"))
         \/ /\ h \in {"connection", "transfer_encoding"}
            /\ TextByte(q, Mark("header_value"))
         \/ /\ h \notin {"upgrade", "connection", "transfer_encoding", "content_length"}
            /\ TextByte([q EXCEPT !.header_state = "general"],
                     Mark("header_value"))

\* What the value of a header turned out to be.
Meaning(h) ==
  CASE h = "connection"        -> {"keep_alive", "close", "general"}
    [] h = "transfer_encoding" -> {"chunked", "general"}
    [] OTHER                   -> {h}

\* The end of a line makes it a flag of the message.
Flagged(q) ==
  CASE q.header_state = "keep_alive" -> q.flags \union {"KEEP_ALIVE"}
    [] q.header_state = "close"      -> q.flags \union {"CLOSE"}
    [] q.header_state = "chunked"    -> q.flags \union {"CHUNKED"}
    [] OTHER                         -> q.flags

\* CR, or LF, which is looked at again in s_header_almost_done.
ValueEnds ==
  /\ Byte({"s_header_value"})
  /\ \E h \in Meaning(parser.header_state) :
       \/ Callback("header_value", [To("s_header_almost_done") EXCEPT !.header_state = h])
       \/ LET q == [To("s_header_value_lws") EXCEPT !.header_state = h]
          IN  Callback("header_value", [q EXCEPT !.flags = Flagged(q)])

HeaderLineEnds ==
  /\ Byte({"s_header_almost_done"})
  /\ Step([To("s_header_value_lws") EXCEPT !.flags = Flagged(parser)])

\* A line that begins with a space continues the value before it.
Fold ==
  /\ Byte({"s_header_value_lws"})
  /\ Step(To("s_header_value_start"))

\* The CR of the line that ends the headers.
HeadersAlmostDone ==
  /\ Byte(BetweenLines)
  /\ Step(To("s_headers_almost_done"))

(***************************************************************************)
(* Its LF: the end of the message after a trailer; otherwise that of the   *)
(* headers, and of the message if it has no body or is to be upgraded.     *)
(***************************************************************************)
TrailerEnds ==
  /\ Byte(BetweenLines \union {"s_headers_almost_done"})
  /\ "TRAILING" \in parser.flags
  /\ MessageComplete(To("s_headers_almost_done"), request, 0)

HeadersEnd ==
  LET q == [To("s_headers_almost_done") EXCEPT
              !.nread = 0,
              !.upgrade = "UPGRADE" \in parser.flags \/ parser.connect]
      bodiless == parser.length \in {0, MaxLength}
  IN  /\ Byte(BetweenLines \union {"s_headers_almost_done"})
      /\ "TRAILING" \notin parser.flags
      /\ \/ /\ q.upgrade \/ ("CHUNKED" \notin parser.flags /\ bodiless)
            /\ MessageComplete(q, request, 0)
            /\ UNCHANGED due
         \/ /\ ~q.upgrade /\ "CHUNKED" \in parser.flags
            /\ Step([q EXCEPT !.state = "s_chunk_size_start"])
            /\ UNCHANGED due
         \/ /\ ~q.upgrade /\ "CHUNKED" \notin parser.flags /\ ~bodiless
            /\ Step([q EXCEPT !.state = "s_body_identity"])
            /\ due' = parser.length
      /\ UNCHANGED spelled

-----------------------------------------------------------------------------
(***************************************************************************)
(* Lengths and bodies.                                                     *)
(***************************************************************************)

Spell(n) == spelled' = IF n < LengthSpan THEN n ELSE LengthSpan

\* The first digit, of a Content-Length (also on a line that continues one)
\* or of the size of a chunk.
FirstDigit(base, n, s, m) ==
  \E d \in 0..base - 1 :
    /\ Reads(n, [To(s) EXCEPT !.length = d % LengthSpan], m)
    /\ Spell(d)

NextDigit(base, n) ==
  \E d \in 0..base - 1 :
    /\ \/ /\ ~LengthRefused(base, parser.length, d)
          /\ Reads(n, [To(parser.state) EXCEPT !.length = NextLength(base, @, d)], marks)
       \/ /\ LengthRefused(base, parser.length, d)
          /\ Error("CONTENT_LENGTH")
    /\ Spell(spelled * base + d)

ContentLength ==
  /\ parser.header_state = "content_length"
  /\ \/ Byte({"s_header_value_start"}) /\ FirstDigit(DecBase, 1, "s_header_value", Mark("header_value"))
     \/ Byte({"s_header_value"}) /\ NextDigit(DecBase, 1)
  /\ UNCHANGED due

ChunkSize ==
  /\ \/ Byte({"s_chunk_size_start"}) /\ FirstDigit(HexBase, 0, "s_chunk_size", marks)
     \/ Byte({"s_chunk_size"}) /\ NextDigit(HexBase, 0)
  /\ UNCHANGED due

\* CR; or a semicolon or a space, and what follows it is ignored.
ChunkSizeEnds ==
  \/ /\ Byte({"s_chunk_size"})
     /\ \E s \in {"s_chunk_size_almost_done", "s_chunk_parameters"} : Step(To(s))
  \/ /\ Byte({"s_chunk_parameters"})
     /\ Step(To("s_chunk_size_almost_done"))

LastChunk ==
  /\ Byte({"s_chunk_size_almost_done"})
  /\ parser.length = 0
  /\ Step([To("s_header_field_start") EXCEPT !.nread = 0, !.flags = @ \union {"TRAILING"}])

ChunkBegins ==
  /\ Byte({"s_chunk_size_almost_done"})
  /\ parser.length > 0
  /\ due + parser.length <= MaxBody
  /\ Step([To("s_chunk_data") EXCEPT !.nread = 0])
  /\ due' = due + parser.length
  /\ UNCHANGED spelled

\* The code takes as many bytes at once as the buffer has.
ChunkData ==
  /\ Byte({"s_chunk_data"})
  /\ TextByte([To(IF parser.length = 1 THEN "s_chunk_data_almost_done" ELSE "s_chunk_data")
             EXCEPT !.length = @ - 1], Mark("body"))

ChunkDataEnds ==
  /\ Byte({"s_chunk_data_almost_done"})
  /\ Callback("body", To("s_chunk_data_done"))

\* Mutant: the bytes of the chunk's head stay counted.
ChunkDoneCounted ==
  /\ Byte({"s_chunk_data_done"})
  /\ Step([To("s_chunk_size_start") EXCEPT !.nread = 1])

ChunkDone ==
  /\ Byte({"s_chunk_data_done"})
  /\ Step([To("s_chunk_size_start") EXCEPT !.nread = 0])

BodyByte ==
  /\ Byte({"s_body_identity"})
  /\ parser.length > 1
  /\ TextByte([To("s_body_identity") EXCEPT !.length = @ - 1], Mark("body"))

\* Mutant: without the byte the parser stands on.
WholeBodyButLast(m) == m["body"]

\* on_body's bytes: the current one, the last of the body, is among them.
WholeBody(m) == m["body"] + 1

LastBodyByte ==
  /\ Byte({"s_body_identity"})
  /\ parser.length = 1
  /\ \/ MessageComplete([To("s_body_identity") EXCEPT !.length = 0],
                        Received(request, "body", WholeBody(Mark("body"))), 1)
     \/ Error("CALLBACK")

-----------------------------------------------------------------------------
(***************************************************************************)
(* Errors.                                                                 *)
(***************************************************************************)

\* Not every byte will do in this state.
Demanding ==
  /\ parser.state \notin {"s_chunk_parameters", "s_chunk_data", "s_body_identity"}
  /\ parser.state \in {"s_header_value_start", "s_header_value"}
       => parser.header_state = "content_length"

Refuse ==
  /\ Byte(States)
  /\ Demanding
  /\ Error("INVALID")

Overflow ==
  /\ at # "idle"
  /\ parser.state \in HeaderStates
  /\ parser.nread = MaxHeader
  /\ Error("HEADER_OVERFLOW")

-----------------------------------------------------------------------------
Next ==
  \/ MessageBegin \/ HeadersEnd \/ ContentLength \/ ChunkSize \/ ChunkBegins
  \/ /\ \/ BufferStart   \/ BufferEnd         \/ Inside      \/ InsideText
        \/ MethodEnds    \/ UrlByte           \/ UrlEnds     \/ Version
        \/ LineEnds      \/ FieldBegins       \/ FieldEnds   \/ ValueEmpty
        \/ ValueBegins   \/ ValueEnds         \/ HeaderLineEnds
        \/ Fold          \/ HeadersAlmostDone \/ TrailerEnds
        \/ ChunkSizeEnds \/ LastChunk         \/ ChunkData   \/ ChunkDataEnds
        \/ ChunkDone     \/ BodyByte          \/ LastBodyByte
        \/ Refuse        \/ Overflow
     /\ UNCHANGED <<spelled, due>>

Spec == Init /\ [][Next]_vars

-----------------------------------------------------------------------------
(***************************************************************************)
(* Properties.                                                             *)
(***************************************************************************)

\* The assertions of http_parser_execute hold wherever the next byte may be
\* looked at: a chunk's size begins with no byte counted (1680), chunks are
\* read of chunked messages only (1681-1783), there is a body to read
\* (1635, 1760), and at most one mark is set when the buffer ends (1813).
AssertionsHold ==
  at # "idle" =>
    /\ parser.state = "s_chunk_size_start" => parser.nread = 0
    /\ parser.state \in ChunkHeadStates \union ChunkDataStates => "CHUNKED" \in parser.flags
    /\ parser.state \in {"s_body_identity", "s_chunk_data"}
         => parser.length \notin {0, MaxLength}
    /\ parser.state = "s_chunk_data_almost_done" => parser.length = 0
    /\ Cardinality(DOMAIN marks) <= 1

\* The handler gets as many bytes of body as were announced, in a
\* Content-Length or chunk by chunk, wherever the buffers were cut.
BodyAsAnnounced == given # NoRequest => given.body = due

\* on_header_value never writes before the first line or on one whose value
\* belongs to another name: while a value is read its line exists, and of all
\* lines only the last may have no value.
LinesPaired ==
  /\ (parser.errno = "OK" /\ parser.state \in {"s_header_value_start", "s_header_value"})
       => request.lines # <<>>
  /\ \A i \in 1..Len(request.lines) - 1 : request.lines[i].valued

\* The length is that of the digits read so far.
ReadingNumber ==
  \/ parser.state = "s_header_value" /\ parser.header_state = "content_length"
  \/ parser.state \in ChunkHeadStates \ {"s_chunk_size_start"}

\* A length that fits is taken as it is written, and only
\* one that does not fit is refused.
LengthSound ==
  /\ parser.errno = "CONTENT_LENGTH" => spelled >= MaxLength
  /\ (parser.errno = "OK" /\ ReadingNumber /\ spelled < MaxLength)
       => parser.length = spelled

\* "Overflow?" (http_parser.c:1448, 1721): a length that does not fit is
\* refused, so that the length in use is the one that was written.
OverflowRefused ==
  parser.errno = "OK" /\ ReadingNumber => spelled < LengthSpan

(***************************************************************************)
(* The parser implements HttpMessage.  What was handed over and what is    *)
(* still marked make up the request.                                       *)
(***************************************************************************)
Plain(r) == [url |-> r.url, lines |-> r.lines, body |-> r.body]

Building ==
  IF parser.errno # "OK" THEN Plain(NoRequest)
  ELSE IF DOMAIN marks = {} THEN Plain(request)
  ELSE LET text == CHOOSE k \in DOMAIN marks : TRUE
       IN  Plain(Received(request, text, marks[text]))

StageOf(q) ==
  IF q.errno # "OK" THEN "error"
  ELSE CASE q.state = "s_dead"       -> "dead"
         [] q.state = "s_start_req"  -> "start"
         [] q.state \in LineStates   -> "line"
         [] q.state \in FieldStates  -> IF "TRAILING" \in q.flags THEN "trailer" ELSE "head"
         [] OTHER                    -> "body"

Stage == StageOf(parser)

Message == INSTANCE HttpMessage WITH
             stage <- Stage, building <- Building, given <- Plain(given), read <- read

\* The requests the handler gets do not depend on how their bytes were cut
\* into buffers: no byte is lost, doubled or put into another text.
MessageSpec == Message!Spec
=============================================================================

---------------------------- MODULE HeaderTables ----------------------------
(***************************************************************************)
(* The two header tables of a connection as memory: that of the request,   *)
(* filled by on_header_field and on_header_value, and that of the          *)
(* response, filled by add_response_header and printed by send_response.   *)
(* Both are reset by on_message_begin and freed by on_stream_close, and so  *)
(* is the body of the response, which the application supplies in pieces.  *)
(*                                                                         *)
(* Every allocation may fail.  A pointer is to a "text" of its own,        *)
(* "NULL", "freed", or "junk" (realloc clears no cell).                    *)
(***************************************************************************)
EXTENDS Naturals, Sequences, SequencesExt, BoundedPrint

CONSTANTS
  Names,         \* the names of headers, up to case
  Sizes,         \* the lengths of a header's line
  OtherSizes,    \* the lengths of the lines that send_response writes itself
  HeadBase,      \* 1024
  HeadPerLine,   \* 128
  RequestMax,    \* 10
  ResponseMax,   \* 5
  MaxLines,      \* bound: lines of a table
  MaxFailures    \* bound: allocations that fail

ASSUME HeaderTablesAssumption ==
  /\ Sizes \subseteq Nat /\ OtherSizes \subseteq Nat
  /\ {HeadBase, HeadPerLine, RequestMax, ResponseMax} \subseteq Nat \ {0}
  /\ MaxLines \in Nat /\ MaxFailures \in Nat

VARIABLES
  request,    \* the table of the request
  response,   \* the table of the response
  content,    \* the body of the response
  stream,     \* the ready_state, or "freed" after on_stream_close
  parser,     \* between messages ("start"), in the headers of one, or in error
  failures,   \* the number of allocations that have failed
  fault,      \* a pointer was used that is none
  damaged,    \* history: the tables that a failed allocation left in disorder
  added,      \* history: the step was a call of add_response_header
  head        \* history: the last head that was printed

vars == <<request, response, content, stream, parser, failures, fault, damaged, added, head>>

-----------------------------------------------------------------------------
(***************************************************************************)
(* Tables.                                                                 *)
(***************************************************************************)
Pointers == {"NULL", "text", "freed", "junk"}

\* struct evweb_header_line: name and size are those of its texts.
NoName == "none"
Cell == [field : Pointers, value : Pointers, name : Names \union {NoName}, size : Sizes \union {0}]

CellOf(p) == [field |-> p, value |-> p, name |-> NoName, size |-> 0]

Cells(n, p) == [i \in 1..n |-> CellOf(p)]

\* array: header_lines is not NULL.
Table == [array : BOOLEAN, num : Nat, max : Nat, cells : Seq(Cell)]

NoTable == [array |-> FALSE, num |-> 0, max |-> 0, cells |-> <<>>]

\* calloc, which nobody asks whether it succeeded.
NewTables(max) ==
  {[failed |-> 0, table |-> [array |-> TRUE, num |-> 0, max |-> max, cells |-> Cells(max, "NULL")]],
   [failed |-> 1, table |-> [NoTable EXCEPT !.max = max]]}

Lines(t) == SubSeq(t.cells, 1, t.num)

\* free for every line: of what is no pointer, or through a table that is none.
FreeFaults(t) ==
  /\ t.num > 0
  /\ ~(t.array /\ \A i \in 1..t.num : {t.cells[i].field, t.cells[i].value} \subseteq {"NULL", "text"})

\* Mutant: the table grows one line too late.
MustGrowLate(t) == t.num + 1 > t.max + 1

MustGrow(t) == t.num + 1 > t.max

\* One line more, and a table twice as large if there is no room for it.  When
\* realloc fails the table is lost.
Grown(t) ==
  IF ~MustGrow(t) THEN {[failed |-> 0, table |-> [t EXCEPT !.num = @ + 1]]}
  ELSE LET more == [t EXCEPT !.num = @ + 1, !.max = 2 * @]
       IN  {[failed |-> 0, table |-> [more EXCEPT !.cells = @ \o Cells(t.max, "junk")]],
            [failed |-> 1, table |-> [more EXCEPT !.array = FALSE, !.cells = <<>>]]}

Owners == {"request", "response", "content"}

(***************************************************************************)
(* What content and content_length are: nothing, the bytes that were given;*)
(* NULL with the bytes counted ("lost"), or bytes of which the first are   *)
(* those of fresh memory ("partly").                                       *)
(***************************************************************************)
Contents == {"none", "given", "lost", "partly"}

TypeOK ==
  /\ \A t \in {request, response} :
       /\ t \in Table
       /\ t.array => t.num <= t.max /\ Len(t.cells) = t.max
  /\ content \in Contents
  /\ stream \in {"OPEN", "READ_ONLY", "CLOSED", "freed"}
  /\ parser \in {"start", "headers", "error"}
  /\ failures \in 0..MaxFailures
  /\ fault \in BOOLEAN
  /\ damaged \subseteq Owners
  /\ added \in [name : Names \union {NoName}, failed : BOOLEAN]
  /\ head \in [allowed : BOOLEAN, whole : BOOLEAN, spilled : BOOLEAN]

NoCall == [name |-> NoName, failed |-> FALSE]

\* The processer is calloced.
Init ==
  /\ request = NoTable
  /\ response = NoTable
  /\ content = "none"
  /\ stream = "OPEN"
  /\ parser = "start"
  /\ failures = 0
  /\ fault = FALSE
  /\ damaged = {}
  /\ added = NoCall
  /\ head = [allowed |-> FALSE, whole |-> TRUE, spilled |-> FALSE]

\* A callback or a call; nothing follows the use of a pointer that is none.
Runs == ~fault /\ stream # "freed"

Fails(n) ==
  /\ failures + n <= MaxFailures
  /\ failures' = failures + n

-----------------------------------------------------------------------------
(***************************************************************************)
(* The request's table.                                                    *)
(***************************************************************************)

\* on_message_begin.
MessageBegin ==
  /\ Runs /\ stream # "CLOSED" /\ parser = "start"
  /\ \E q \in NewTables(RequestMax), r \in NewTables(ResponseMax) :
       /\ Fails(q.failed + r.failed)
       /\ request' = q.table
       /\ response' = r.table
       /\ damaged' = (damaged \ {"content"}) \union (IF q.failed = 1 THEN {"request"} ELSE {})
                             \union (IF r.failed = 1 THEN {"response"} ELSE {})
  /\ fault' = (FreeFaults(request) \/ FreeFaults(response))
  /\ content' = "none"
  /\ parser' = "headers"
  /\ added' = NoCall
  /\ UNCHANGED <<stream, head>>

\* on_header_field, for a new line: memset clears it, wherever it is, and
\* nobody asks whether there was memory for the name.
RequestField ==
  /\ Runs /\ parser = "headers"
  /\ request.num < MaxLines
  /\ \E g \in Grown(request), f \in {0, 1} :
       LET line == [CellOf("NULL") EXCEPT !.field = "text"]
       IN  /\ f = 1 => g.failed = 0
           /\ Fails(g.failed + f)
           /\ parser' = IF g.failed = 0 THEN parser ELSE "error"
           /\ fault' = (f = 1 \/ (g.failed = 0 /\ ~g.table.array))
           /\ damaged' = IF g.failed + f > 0 THEN damaged \union {"request"} ELSE damaged
           /\ request' = IF g.failed = 0 /\ g.table.array
                         THEN [g.table EXCEPT !.cells[g.table.num] = line] ELSE g.table
  /\ added' = NoCall
  /\ UNCHANGED <<response, content, stream, head>>

\* on_header_value.
RequestValue ==
  /\ Runs /\ parser = "headers"
  /\ request.array /\ request.num > 0
  /\ request.cells[request.num].value = "NULL"
  /\ \E f \in {0, 1} :
       /\ Fails(f)
       /\ fault' = (f = 1)
       /\ damaged' = IF f = 1 THEN damaged \union {"request"} ELSE damaged
       /\ request' = IF f = 1 THEN request ELSE [request EXCEPT !.cells[request.num].value = "text"]
  /\ added' = NoCall
  /\ UNCHANGED <<response, content, stream, parser, head>>

\* The rest of the request, the handler, or an error of the parser.
HeadersEnd ==
  /\ Runs /\ parser = "headers"
  /\ parser' = "start"
  /\ added' = NoCall
  /\ UNCHANGED <<request, response, content, stream, failures, fault, damaged, head>>

-----------------------------------------------------------------------------
(***************************************************************************)
(* The response's table.                                                   *)
(***************************************************************************)

\* The application has the response since the first message began.
Answers == Runs /\ response.max > 0

\* The first line that strcasecmp finds equal or fails on; 0 if there is none.
Found(t, name) ==
  SelectInSeq(Lines(t), LAMBDA c : c.field # "text" \/ c.name = name)

\* Mutant: the line counted for a header that is not added stays counted.
DroppedNot(t) == t

Dropped(t) == [t EXCEPT !.num = @ - 1]

\* Both texts of line k, whose pointers are written over; when there is no
\* memory for one of them the last line of the table is dropped.
Stored(t, k, name, size) ==
  {[failed |-> 0,
    table |-> [t EXCEPT !.cells[k] = [field |-> "text", value |-> "text", name |-> name, size |-> size]]],
   [failed |-> 1,
    table |-> Dropped([t EXCEPT !.cells[k].field = "NULL", !.cells[k].name = NoName, !.cells[k].size = 0])],
   [failed |-> 1,
    table |-> Dropped([t EXCEPT !.cells[k] = [CellOf("freed") EXCEPT !.value = "NULL"]])]}

\* An earlier header of that name is freed and replaced.
Replace(name, size) ==
  LET k == Found(response, name)
      freed == [response EXCEPT !.cells[k] = CellOf("freed")]
  IN  /\ response.array /\ k > 0
      /\ response.cells[k].field = "text"
      /\ \E s \in Stored(freed, k, name, size) :
           /\ Fails(s.failed)
           /\ response' = s.table
           /\ damaged' = IF s.failed = 1 /\ k < response.num THEN damaged \union {"response"} ELSE damaged
           /\ added' = [name |-> name, failed |-> s.failed = 1]
      /\ UNCHANGED fault

Extend(name, size) ==
  /\ response.array => Found(response, name) = 0
  /\ ~response.array => response.num = 0
  /\ response.num < MaxLines
  /\ \E g \in Grown(response) :
       \/ /\ g.failed = 1
          /\ Fails(1)
          /\ response' = g.table
          /\ damaged' = damaged \union {"response"}
          /\ added' = [name |-> name, failed |-> TRUE]
          /\ UNCHANGED fault
       \/ /\ g.failed = 0 /\ g.table.array
          /\ \E s \in Stored(g.table, g.table.num, name, size) :
               /\ Fails(s.failed)
               /\ response' = s.table
               /\ added' = [name |-> name, failed |-> s.failed = 1]
          /\ UNCHANGED <<damaged, fault>>
       \/ /\ ~g.table.array /\ g.failed = 0
          /\ fault' = TRUE
          /\ added' = NoCall
          /\ UNCHANGED <<response, damaged, failures>>

\* A line that cannot be compared, or a table that is none.
CompareFails(name) ==
  /\ response.num > 0
  /\ response.array =>
       /\ Found(response, name) > 0
       /\ response.cells[Found(response, name)].field # "text"
  /\ fault' = TRUE
  /\ added' = NoCall
  /\ UNCHANGED <<response, damaged, failures>>

AddResponseHeader ==
  /\ Answers /\ stream = "OPEN"
  /\ \E name \in Names, size \in Sizes :
       Replace(name, size) \/ Extend(name, size) \/ CompareFails(name)
  /\ UNCHANGED <<request, content, stream, parser, head>>

\* Mutant: the pointers are cleared, the lines still counted.
ClearedStillCounted(t) ==
  [t EXCEPT !.cells = [i \in DOMAIN @ |-> IF i <= t.num THEN CellOf("NULL") ELSE @[i]]]

Cleared(t) ==
  [t EXCEPT !.cells = [i \in DOMAIN @ |-> IF i <= t.num THEN CellOf("NULL") ELSE @[i]],
            !.num = 0]

ClearResponseHeaders ==
  /\ Answers /\ stream # "CLOSED"
  /\ response.num > 0
  /\ fault' = FreeFaults(response)
  /\ response' = Cleared(response)
  /\ added' = NoCall
  /\ UNCHANGED <<request, content, stream, parser, failures, damaged, head>>

-----------------------------------------------------------------------------
(***************************************************************************)
(* The response's body.                                                    *)
(***************************************************************************)

\* realloc of what the body is, for more bytes; the old block is not freed
\* when it fails.
Added(c) ==
  {[failed |-> 0, content |-> IF c \in {"none", "given"} THEN "given" ELSE "partly"],
   [failed |-> 1, content |-> "lost"]}

\* Bytes for the body, which was c with a history of d.
Supply(c, d) ==
  \E g \in Added(c) :
    /\ Fails(g.failed)
    /\ content' = g.content
    /\ damaged' = IF g.failed = 1 THEN d \union {"content"} ELSE d

AddToResponseBody ==
  /\ Answers /\ stream = "OPEN"
  /\ Supply(content, damaged)
  /\ added' = NoCall
  /\ UNCHANGED <<request, response, stream, parser, fault, head>>

\* It clears the body before.
SetResponseBody ==
  /\ Answers /\ stream = "OPEN"
  /\ Supply("none", damaged \ {"content"})
  /\ added' = NoCall
  /\ UNCHANGED <<request, response, stream, parser, fault, head>>

ClearResponseBody ==
  /\ Answers /\ stream # "CLOSED"
  /\ content' = "none"
  /\ damaged' = damaged \ {"content"}
  /\ added' = NoCall
  /\ UNCHANGED <<request, response, stream, parser, failures, fault, head>>

-----------------------------------------------------------------------------
\* Mutant: a buffer of one size for all.
HeadSizeFixed(num) == HeadBase

HeadSize(num) == HeadBase + HeadPerLine * num

\* The head of a response with these lines: a status line, them, the lines
\* about the body, and an empty one.
PrintHead(status, lines, body) ==
  LET size == HeadSize(Len(lines))
      b    == FoldLeft(LAMBDA r, n : Snprintf(r, size, n), [written |-> 0, spilled |-> FALSE],
                       <<status>> \o lines \o body \o <<2>>)
  IN  [allowed |-> /\ status + FoldLeft(+, 2, body) < HeadBase
                   /\ \A i \in 1..Len(lines) : lines[i] <= HeadPerLine,
       whole   |-> b.written < size,
       spilled |-> b.spilled]

Owned(c) == c.field = "text" /\ c.value = "text"

\* A body that is NULL, or a line that has no text, cannot be sent.
Sendable ==
  /\ content # "lost"
  /\ response.num > 0 =>
       response.array /\ \A i \in 1..response.num : Owned(response.cells[i])

\* send_response, when there is a status; a write may close the stream.
SendResponse ==
  /\ Answers /\ stream = "OPEN"
  /\ \/ /\ ~Sendable
        /\ fault' = TRUE
        /\ UNCHANGED <<response, content, stream, damaged, head>>
     \/ /\ Sendable
        /\ \E status \in OtherSizes, body \in SeqOf(OtherSizes, 2) :
             head' = PrintHead(status, [i \in 1..response.num |-> response.cells[i].size], body)
        /\ \/ /\ stream' = "CLOSED"
              /\ UNCHANGED <<response, content, damaged>>
           \/ /\ response' = Cleared(response)
              /\ content' = "none"
              /\ damaged' = damaged \ {"content"}
              /\ UNCHANGED stream
        /\ UNCHANGED fault
  /\ added' = NoCall
  /\ UNCHANGED <<request, parser, failures>>

-----------------------------------------------------------------------------
\* evn_stream_end, or an error.
StreamEnds ==
  /\ Runs /\ stream \in {"OPEN", "READ_ONLY"}
  /\ stream' \in {"READ_ONLY", "CLOSED"} \ {stream}
  /\ added' = NoCall
  /\ UNCHANGED <<request, response, content, parser, failures, fault, damaged, head>>

\* on_stream_close.
OnStreamClose ==
  /\ Runs /\ stream = "CLOSED"
  /\ fault' = (FreeFaults(request) \/ FreeFaults(response))
  /\ request' = NoTable
  /\ response' = NoTable
  /\ content' = "none"
  /\ damaged' = damaged \ {"content"}
  /\ stream' = "freed"
  /\ added' = NoCall
  /\ UNCHANGED <<parser, failures, head>>

Next ==
  \/ MessageBegin \/ RequestField \/ RequestValue \/ HeadersEnd
  \/ AddResponseHeader \/ ClearResponseHeaders \/ SendResponse
  \/ AddToResponseBody \/ SetResponseBody \/ ClearResponseBody
  \/ StreamEnds \/ OnStreamClose

Spec == Init /\ [][Next]_vars

-----------------------------------------------------------------------------
(***************************************************************************)
(* Properties.                                                             *)
(***************************************************************************)

\* The counted lines of a table have texts of their own, a line of the
\* request perhaps no value yet, and the rest of the table has none that
\* nobody would free; no two headers of the response have one name.
Sound(t) ==
  /\ t.num > 0 => t.array
  /\ t.array => \A i \in t.num + 1..t.max : ~("text" \in {t.cells[i].field, t.cells[i].value})

RequestSound ==
  /\ Sound(request)
  /\ \A i \in 1..request.num :
       request.cells[i].field = "text" /\ request.cells[i].value \in {"text", "NULL"}

ResponseSound ==
  /\ Sound(response)
  /\ \A i \in 1..response.num : Owned(response.cells[i])
  /\ \A i, k \in 1..response.num :
       response.cells[i].name = response.cells[k].name => i = k

\* Whatever allocation fails, the tables and the body stay sound, and no
\* pointer is used that is none, unless it was the allocation of a table
\* (calloc or realloc), of a text of the request, of a text that was to replace
\* one of a line other than the last, or of the body, and the body was not
\* cleared since.
TablesSound ==
  /\ fault => damaged # {}
  /\ ~fault => /\ "request" \in damaged \/ RequestSound
               /\ "response" \in damaged \/ ResponseSound
               /\ "content" \in damaged \/ content \in {"none", "given"}

\* A call of add_response_header that fails leaves the headers that were
\* there, but for the last one, if it was to be replaced.
FailedAddKeeps ==
  [][ (added'.failed /\ "response" \notin damaged') =>
        LET before == Lines(response)
        IN  \/ Lines(response') = before
            \/ /\ before # <<>> /\ Last(before).name = added'.name
               /\ Lines(response') = Front(before) ]_vars

\* The buffer of send_response, sized by the number of the headers, holds the
\* whole head, and nothing is written outside it, when no header has more
\* than its share and what the library adds has less than the rest.
HeadFits == head.allowed => head.whole /\ ~head.spilled
=============================================================================

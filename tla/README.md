# A specification of libevweb

libevweb is a small HTTP server library in C on top of libevn (streams) and
libev (the event loop), with a copy of the joyent `http_parser`.  This
directory holds TLA+ models of the library, the configurations that check them
with TLC, and theorems about them checked with TLAPS.  Paths below are relative
to `src/source/`.

## 1. The system

Everything runs on one thread, the loop's.  The interleavings are those of
callbacks: libevn calls the library, the library's parser calls the
application's handler in the middle of a buffer, and the handler (or a later
callback of the application's own) calls back into the library.

| component | source | state | operations |
|---|---|---|---|
| TCP server | `tcp-server.c` | the listening socket; per connection a libevn stream and an `evweb_http_processer` | start, close, `on_server_close`, `on_connection`, `on_stream_data/end/timeout/error/close` |
| message framing | `http_parser.c` | `http_parser`: state, flags, content_length, nread, upgrade, errno | `http_parser_execute`, `http_should_keep_alive` |
| parser callbacks | `http-parser-callbacks.c` | `evweb_request`: url, header lines, body | `on_message_begin`, `on_url`, `on_header_field/value`, `on_headers_complete`, `on_body`, `on_message_complete` |
| response API | `evweb.c` | `evweb_response`: status, message, header lines, content | `set_response_status`, `add_response_header`, `clear_response_headers`, `set/add_to/clear_response_body`, `send_response`, `end_response`, the end on drain |
| connect interface | `evweb-connect-iface.c` | a growing array of callbacks, one static pointer to it | init, add function/router/static, destroy, `request_handler`, `serve_static_file` |
| URL parser | `http_parser.c:410-570,1906-1999` | none (called per URL fragment) | `parse_url_char`, `http_parser_parse_url` |
| query to JSON | `evweb.c:441-588` | none | `query_to_json` |

How they interact: `on_connection` allocates one processer per stream, which
holds the parser, the request and the *one* response of the connection.
`on_stream_data` feeds a buffer to the parser; the parser calls
`on_message_begin` (which resets request and response), collects, and calls
the handler once per complete message, still inside `on_stream_data`.  The API
writes to the stream; libevn may keep bytes and announce later that they have
drained, or may close the stream under a write.  `on_stream_close` frees the
processer.  The connect interface is a handler.

What is hard here:

- several messages in one buffer, or one message over many: the handler of the
  second runs while the answer to the first may be unsent;
- one response object for all requests of a connection, and handlers that may
  answer later through a pointer they kept;
- three ways to end a stream (timeout, `end_response`, drain), which look or do
  not look at `ready_state`, and which interleave with writes that fail;
- memory that is freed by `on_stream_close` while the application has a
  pointer, and the table of callbacks that moves when it grows;
- what follows a message that closes or upgrades the connection;
- 64-, 32- and 16-bit arithmetic on lengths, and memory that could not be had.

The list of hazards, each with its line and the properties that would catch it,
is in `PROJECT.json`.

## 2. The modules

| module | models | role |
|---|---|---|
| `EvnStream` | a libevn stream as the library uses it (external code) | data and outcomes of `evn_stream_write/end/destroy` |
| `EvwebServer` | `tcp-server.c`, the response API of `evweb.c`, the callbacks and the message framing of the parser | the core |
| `HttpSession` | what a connection promises to the peer and to the application | abstract specification, refined by `EvwebServer` |
| `EvwebServerProofs` | - | theorems about `EvwebServer`, and that it implements `HttpSession` |
| `MCEvwebServer` | - | values for TLC |
| `ConnectIface` | `evweb-connect-iface.c` | the callback table and the dispatch of requests |
| `ConnectIfaceProofs` | - | theorems about `ConnectIface` |
| `MCConnectIface` | - | values for TLC |
| `ConnectServer` | `evweb_start_connect_server` | composes `EvwebServer` with `ConnectIface` as its handler |
| `ConnectServerProofs` | - | theorems about `ConnectServer` |
| `MCConnectServer` | - | values for TLC |
| `HttpParser` | `http_parser_execute` for requests, the data callbacks of `http-parser-callbacks.c` | bytes to requests |
| `LengthArith` | the arithmetic on Content-Length and chunk sizes | used by `HttpParser` |
| `HttpMessage` | the request that bytes make when no buffer cuts them | abstract specification, refined by `HttpParser` |
| `HttpParserProofs` | - | theorems about `HttpParser`: that it implements `HttpMessage`, and that no byte of a body is lost |
| `MCHttpParser` | - | values for TLC |
| `UrlParser` | `parse_url_char`, `http_parser_parse_url`, `on_url` | URLs, read twice |
| `QueryJson` | `query_to_json` | text to JSON |
| `UrlParserProofs`, `QueryJsonProofs` | - | theorems about the two |
| `LoopLemmas` | - | loops over a text, for the proofs of `UrlParser`, `QueryJson` and `HeaderTables` |
| `BoundedPrint` | `written += snprintf(b + written, size - written, ...)` | used by `QueryJson` and `HeaderTables` |
| `MCText` | - | `UrlParser` and `QueryJson` side by side, for TLC |
| `HeaderTables` | the header tables of request and response and the body of the response, as memory | allocation failures, the printed head |
| `HeaderTablesProofs` | - | theorems about `HeaderTables` |
| `MCHeaderTables` | - | values for TLC |

### EvwebServer

State.  `stream[c]` is the libevn stream: its `ready_state`, whether it holds
unsent bytes, whether `on_drain` is `close_connection_on_drain`, whether a
timeout is armed.  `mem[c]` is the processer (absent, allocated, freed),
`parser[c]` and `response[c]` the two structures in it.  `at[c]` says where
the thread is: `"parse"` inside `http_parser_execute` of that connection,
`"handler"` inside the handler called from it.  `server` is the listening
socket and whether the process lives.  `dialogue`, `ends`, `held` and `stale`
are histories for the properties: what was handed to the application and
written to the peer, which calls ended the stream, which response pointers the
application has kept, and whether it used one too late.

Actions.  One per libevn callback (`Accept`, `OnStreamEnd`, `OnStreamTimeout`,
`OnDrain`, `StreamError`, `OnStreamClose`), one per step of the parser that can
call back or stop (`OnStreamData`, `MessageBegin`, `HeadersComplete`,
`BodilessComplete`, `BodyComplete`, `HandlerReturn`, `BufferDone`,
`ByteRefused`, `CallbackFails`, `RefuseUpgrade`, `LateData`), one per call of
the API.  A libevn callback starts only when no other runs (`Idle`).  Calls of
the API happen in a handler, on that request's response or on any pointer kept
(`Async`), or between callbacks on a kept pointer.  A call that only returns an
error changes nothing and is not a step; `set_response_status` stores the
status before it looks at the stream, and the action does too.

Abstraction.  The bytes of a message are gone: what the parser makes of them is
chosen (does it have a body, is the connection to be kept, is it an upgrade, is
a byte malformed).  A buffer is any number of parser steps, so all the ways to
cut messages into buffers are covered.  The data of a response are represented
by the number of the request whose handler supplied them, which is what the
properties tell apart.  Header fields are two: the one the library writes
itself and any other.  Allocation failures are left out except as failures of a
parser callback (`HeaderTables` has them).  How the bytes make these steps is
the subject of `HttpParser`: its `MessageComplete`, `HeadersEnd`, `NewMessage`,
`Refuse` and `BufferEnd` are the `BodyComplete`/`BodilessComplete`,
`HeadersComplete`, `NewMessage`, `ByteRefused` and `BufferDone` here.

libevn is not in the repository.  `EvnStream` says what its callers rely on and
leaves the rest open: a write may be taken, kept or fail and close the stream;
a FIN of both sides closes; after `evn_stream_end` unsent bytes may still drain
or not.  These are assumptions on external code.

### HttpSession

The connection seen from outside: opened once, ended once, reclaimed once;
requests reach the application in order and none after one that was to be the
last; a response is written only while the connection is open and, when
handlers answer at once, answers the latest request with its data only.  The
refinement mapping (`Phase`) forgets parser, buffers, drains and timers;
`SessionSpec` is the abstract specification as a property of the runs.

### ConnectIface

The table is the array with its `cb_count`, `max_cb_count` and cells.  A cell
holds `Junk` where `realloc` left it uninitialised and `NULL` where `calloc`
cleared it; `block` tells whether the array has moved.  Each `add_*` is one
action with the outcomes of `next_unused_cb` (room, growth in place, growth
elsewhere, failure) and of the copy of the resource.  The request handler is a
loop with one action per cell: skipped, an application callback (which may keep
the request, pass it on, or register another callback when `Reentrant`), or
`serve_static_file` with its five ways out.  Use of a cell outside the array,
of an uninitialised one or of a NULL resource sets `crashed`, and nothing
happens after it.  File names, contents and types are left out, and so is the
`exit` when `fstat` fails.

### ConnectServer

The state of both modules and `job`, what the handler has still to call.  A
message that is complete (`Enter`) is a step of the server and of the interface
at once.  `Chain` is a step of the interface inside the handler; where it
decides about the request, the calls that follow in the code become `todo`.
`LibraryCall` makes the next of them: it is the action of `EvwebServer`, on the
connection and the request that the handler was called for, or nothing when the
stream is ended, since no result is looked at.  The application calls the API
only while one of its callbacks is the cell in line (`InCallback`) or on kept
pointers between callbacks of libevn.  The rest of the server (`ServerStep`)
moves while the handler does not run.  So every step is one of `EvwebServer`'s,
and what was said there of any application holds of this one.  Registrations
precede the start of the server and succeed; `ConnectIface` has the others.

### HttpParser, LengthArith and HttpMessage

State.  `parser` is the `http_parser`; `marks` the marks of
`http_parser_execute`, each as the distance from the byte it points at to the
current one; `at` tells whether the thread is inside the function and whether
it has looked at a byte yet; `request` is the `evweb_request` as the callbacks
left it.  Texts are their lengths.  `given`, `read`, `spelled` and `due` are
histories: what the handler was called with, the bytes of texts read, the
number that the digits of a length spell, the bytes of body announced.

Actions.  One per state of the parser and effect of a byte in it, plus the start
and the end of a buffer; `Byte` and `To` hold what the loop does for every byte
(`nread` and its limit).  A byte that several states look at (`goto
reexecute_byte`) is one action: the byte that starts a header after a folded
value, the LF that ends a value, the LF that ends headers and message, the
last byte of a body.  `Callback` hands a text over, and may fail.

Abstraction.  Whether a word is one the parser knows (a method, a header's
name, `close`, `chunked`) is chosen where the word ends, so every word is
covered without letters.  The states of a URL are two here (is it inside the
scheme), which is what decides where it may end; `UrlParser` has all of them.
Of an error only its number is kept: the stream is destroyed with the parser in
it.  `LengthSpan` is 2^64; digits are to the base 10 and 16.  In the run they
are 4, 3 and 3, so that two digits already overflow, both to a smaller and to a
larger value.

`HttpMessage` builds a request from single bytes and has no buffers, marks or
callbacks.  The refinement mapping adds what is marked to what was handed over
(`Building`); `MessageSpec` therefore says that no cut of the input changes
what the handler gets.  It also fixes what the code makes of a line without a
colon: the next name continues it (`http-parser-callbacks.c:142`).

### UrlParser

A URL comes in byte by byte (`UrlByte`, with the state of `http_parser_execute`)
and is cut anywhere (`UrlCut`: `on_url`, which runs `http_parser_parse_url` on
all it has got so far, told that the method is not CONNECT).  `info` is the
`parsed_url_info`, which starts empty or as an earlier request filled it.  A
byte is its class.  `UrlMoves` is `parse_url_char` as a table.

### QueryJson

`QueryToJson` is `query_to_json` as an operator from texts to pairs, with the
position, the cells of `value`, `next_char` (which lives on from value to value
and is read uninitialised when the first escape does not scan), the flags for
numbers, and the count of bytes written.  The loops are folds whose length is
the bound that the code's loop has (a buffer's size, the text's length).  A
`fault` is a read or a write outside the buffers, after which nothing is
defined; `QueryDecoded` compares with a reference that splits the text, decodes
each piece and asks whether it is a number.  The state machine enumerates the
texts.

### HeaderTables

`content` is the response's body: nothing, the bytes given, NULL with a length
that is counted, or bytes behind uninitialised ones (`add_to_response_body`
counts the length before it asks for memory, and does not take it back).
`request` and `response` are the two tables with their counters; a cell's
pointers are to a text of their own, `NULL`, freed or junk.  Every `calloc`,
`malloc` and `realloc` may fail, up to `MaxFailures` in a behaviour.  `fault` is
the use of a pointer that is none, after which nothing happens.  `damaged` is a
history of the tables that a failure the code does not handle has left in
disorder: `TablesSound` says that these failures are the only ones to harm.
Pieces of a cut header text are left to `HttpParser`.  `PrintHead` prints the
head with `BoundedPrint`.

## 3. The runs

All runs say `CHECK_DEADLOCK FALSE`: the process may exit, and when every
connection of the finite set is freed nothing is left to happen.

| run | question | bounds | states |
|---|---|---|---|
| `server_sync` | handlers that answer at once: every property and the refinement | 1 connection, 2 messages, 4 dialogue entries, all calls | 0.7 M |
| `server_async` | pointers kept, late answers in any order | 1, 2, 3; set_status, add_header, send, end | 1.2 M |
| `server_live` | does every abandoned connection go away | 1, 2, 3; set_status, send, end | 0.2 M |
| `connect` | the table through growth, failure, reinitialisation, and requests through it | table of 1 cell growing to 4, 3 callbacks, 2 requests | 0.8 M |
| `connect_server` | what the table decides, carried out on the response, also when an earlier answer ended the stream | 1, 2 messages, 1 callback and the 404; set_status, set_body, send, end | 4.7 M |
| `parser` | `http_parser_execute` and the data callbacks, refining `HttpMessage` | header limit 11 bytes, texts and bodies of 2 bytes, lengths modulo 4 to the base 3 | 2.5 M |
| `text` | URLs cut anywhere, read twice; queries to JSON | URLs of 8 bytes, offsets modulo 8, ports to 9; queries of 6 bytes, key 2, value 3, object 16, `size_t` modulo 64 | 1.5 M |
| `headers` | the header tables under failing allocations, the printed head | 3 names (symmetric), tables of 1 line growing to 4, 3 lines, 2 failures | 0.9 M |
| `length_wraps` | *violated*: a length that does not fit is refused | as `parser` | |
| `end_with_unsent` | *violated*: `end_response` after `send_response` ends with bytes unsent | 1, 2, 4 | |
| `stale_pointer` | *violated*: a kept pointer is used after the processer is freed | 1, 2, 4 | |

Bounds.  `MaxMsgs` bounds requests per connection: two are needed for anything
about pipelining, and nothing but the number itself tells a third from a
second (`on_message_begin` resets the rest).  `MaxDialogue` bounds how many
responses are sent: with four entries two requests are handled and two
responses sent, or one request and three responses.  The runs have one connection:
what happens to several (a handler of one that answers or ends another) the
theorems cover, which hold for any set `Conns` and for every invariant and
action property of these runs.
`InitialMax` is 8 in the code and 1 in `connect`: growth happens when the table
is full, whatever its size, and with 1 it happens twice.  One callback
of any kind in `connect_server`, with the 404 behind it, is what it takes for one
to answer and the next to be asked; longer tables are `connect`'s subject.

`MaxHeader` is 80 KiB in the code and 11 in `parser`: enough for a request line
(5 bytes at this granularity) with a header line and the blank line, for a
second header line after LF-only ends, and for chunks and a trailer, whose
`nread` starts again; and small enough that the limit is met in every state.
Two bytes per text are what can be cut.  In `text` the URL is as long as its
offsets are wide, so the last offset wraps; a URL of eight bytes has room for
every part up to the query with a cut before and after each.  A query of six
bytes has two pairs, an escape, and values longer than their buffer; `Offered`
leaves out bytes that both readers of a URL treat alike.  In `headers` a table
of one line grows twice within three lines, and two failures let one hit the
repair of another.

Properties worth explaining:

- `LifeCycle`: nothing runs on a processer that is not there, also when a write
  inside a handler closes the stream under the parser's feet.  This rests on
  `EvnStream`: libevn calls `on_close` from the loop, never inside a write.
- `ResponsePurity`: what the handler of one request left in the response is not
  in the answer to the next.  Stated for handlers that answer at once; with
  kept pointers the code mixes them by design (one response per connection).
- `LastRequestIsLast`: nothing pipelined behind a closing or upgrading request
  reaches the handler.  (It relies on `HTTP_PARSER_STRICT`, the default.)
- `PromisedEndArmed`, `CloseKept`: the end that `end_response` postpones to the
  drain is still to come; and a response that said `Connection: close` is kept
  to: from then on the stream is ended, or has unsent bytes and the callback
  that ends it when they have drained.  In between pipelined requests may be
  answered behind that response, the peer may shut its half and the timeout may
  fire.  (That `end_response` itself waits for its response is a test of the
  code and nothing to check; where it does not wait is `end_with_unsent`.)
- `TimerArmed`, `Reclaimed`: no stream without a timeout; therefore no
  connection for ever.
- `OnlyDrainEndsAgain`, `NoResponseAfterEnd`: timeout and API respect an ended
  stream; only `close_connection_on_drain` does not look.
- `TableSound`: growth is never one cell late; memory outside the table is used
  only after an allocation failed or a callback moved the table.
- `ChainOrder`: callbacks are tried in order, each that wants the request and
  no other, and 404 only when none is left.
- `FreesSetOrCleared`, `DescriptorsClosed`: what exactly goes wrong with
  uninitialised resources and with HEAD, and that nothing else does.
- `OneAnswer`, `AnsweredAsDecided`: what the library decides about a request
  reaches its peer, once, whatever the writes do; a file that cannot be read, a
  URL without a path and a request that a callback kept get no response from
  the library.  Answers end the connection, except to HEAD.  A stream that was
  ended when the handler was called is excepted: nothing can be sent on it, so
  what `AnsweredAsDecided` covers is the end that is promised and not yet made.
- `AssertionsHold`: the `assert`s of `http_parser_execute` that depend on more
  than the current state.  The one on `nread` (1680) holds because each of the
  three ways to a chunk's size resets it.
- `MessageSpec`, `BodyAsAnnounced`, `LinesPaired`: no cut of the input loses,
  doubles or misplaces a byte; the body is as long as it was announced to be;
  names and values stay paired except after a line without a colon.
- `LengthSound`, `OverflowRefused`: what the overflow test does and does not do.
- `CutsDoNotMatter`, `OnlyConnectRefused`: `on_url` parses prefixes.  It never
  refuses one of a URL it takes as a whole.  What it refuses although
  `http_parser_execute` took it is a port above 65535 and every CONNECT with a
  host and port: such requests never reach the handler.
- `PartsMakeUp`: the parts are exactly the URL's, none stale.  `SCHEMA` includes
  the colon and slash and `HOST` begins with the second slash, as the states of
  the scheme are counted; this holds of the code and no text says otherwise.
- `QueryFaults`, `JsonFits`: `query_to_json` leaves its buffers only at an
  escape cut off by the end, at an escaped character on the last cell (which
  takes a text that is half as long as the buffer before it), or with an object
  longer than the caller's buffer.
- `TablesSound`, `FailedAddKeeps`: which failures of an allocation the code
  survives.
- `HeadFits`: a head whose lines are within 128 bytes on average of what the
  buffer's size assumes is printed whole and inside it.

Fairness (`FairSpec`).  Handlers return and buffers are finite, so the steps
that leave `on_stream_data` are weakly fair.  The loop runs expired timeouts
and due close callbacks even when other callbacks keep coming, each of which
disables them for a moment (`Idle`): strong fairness.  Nothing else is fair: the
peer, the application and the drain may do nothing.  `Reclaimed` is stated for
a connection that is eventually left alone by its peer (`at` stays idle), since
a peer that keeps sending on a stream keeps it busy.

### Findings

- `end_with_unsent`: `evweb.c:395-398` takes "nothing to send" for "everything
  sent", so `send_response` followed by `end_response` ends the stream while the
  response is unsent, against `evweb.c:419` and `437`.
- `length_wraps`: the test `/* Overflow? */` (`http_parser.c:1448,1721`) compares
  the wrapped product with the old value; the Content-Length
  30000000000000000000 is taken as 11553255926290448384.
- `stale_pointer`: the difficulty `README.md:7-9` describes is in the code.

## 4. The proofs

`EvwebServerProofs` proves, for every set of connections, number of messages,
length of the dialogue, subset of API calls and both kinds of application:
`TypeCorrect`, `LifeCycleHolds`, `TimerAlwaysArmed`, `PromisedEndHolds`,
`CloseIsKept`, `OnlyDrainEndsAgainHolds`, `NoResponseAfterEndHolds`,
`ResponsePurityHolds` and `LastRequestHolds`.  The assumptions are those the
module declares on its constants.

The argument, bottom up:

1. `TypeInit`, `TypeStep`: `TypeOK` is inductive; lemmas on the outcomes of
   libevn (`StreamTypes`) and on the response helpers (`ResponseTypes`) keep the
   leaves small.
2. `StreamInv` joins `LifeCycle`, `TimerArmed` and `PromisedEndArmed` with what
   they need of each other: a stream exists exactly when its processer does, so
   a step of a live connection works on a real stream.  Most actions only
   change a stream in a way that keeps these facts (`KeptByStream`), which is
   proved once.
3. `EndInv` adds to `OnlyDrainEndsAgain` that a stream with an
   entry in `ends` is ended (`READ_ONLY` or `CLOSED`), and that this is never
   undone: so a guard on `Ended` is a guard on the history.
   `NoResponseAfterEnd` follows from it, as an action property.  `CloseInv` adds
   to `CloseKept` that a connection not yet accepted has an empty dialogue; no
   operation on a stream loses an end that is made or armed (`Closing`, a part
   of `KeptByStream`), and the response that announces it makes or arms it
   (`Answered`).
4. `DialogueInv` strengthens `ResponsePurity` and `LastRequestIsLast`:
   `OwnResponse` says that between messages and in a handler the response holds
   data of the current message only (`on_message_begin` is what makes it true),
   and `ParserStops` that a parser whose last message closed it is dead, in
   error or about to be refused.

The same module proves `ServerIsSession`, that `EvwebServer` implements
`HttpSession`, under the same assumptions.  What a session promises about the
order of requests and responses needs one more invariant, `Ordered`: whatever
was said or kept is not newer than the parser's message, and older while its
head or body is read; after a handler or an upgrade the last entry of the
dialogue is of that message, unless handlers may answer late.  `OneConnection`
says that a step which is noticed by the session of one connection only is a
step of the whole; `SilentPhase`, that steps of the parser, of buffers, drains
and timers change no phase.  `NextRefines` then maps every action to a step of
the session or to none.

`ConnectIfaceProofs` proves, for every initial size of the table, every set of
paths and routes, any number of callbacks and requests, and callbacks that
register others or not: `TypeCorrect`, `TableStaysSound`,
`DescriptorsStayClosed`, `FreesAreSetOrCleared` and `ChainStaysInOrder`.  Besides the assumptions on
the numbers it needs `PathsAssumption`: a path is none of the four markers that
stand for what is no path.  The argument:

1. `Growth` says what `next_unused_cb` makes of a table, once for all
   registrations.  It needs `Shape`: the array is as large as `max_cb_count`
   says, or lost.  So `TypeInv` is `TypeOK` with `Shape`.
2. `TableSound` is not inductive; `Whole` is what it rests on while no
   allocation has failed: all cells in use are in the array, and each has the
   fields set that its type makes the loop read.  `WholeTaken` shows that one
   more registration keeps it (twice a size that is not zero has room for one
   more), `SoundCrash` that the loop then reads nothing that is not there.
3. `HeadInv` counts the HEAD request that is being served as a descriptor to
   come.
4. `Cleared` says that a table which has not outgrown `InitialMax` consists of
   cells that `calloc` cleared, and that growth always outgrows it
   (`ClearedGrowth`): an action property, since the table is gone after the
   free.
5. `OrderInv` is what `ChainOrder` says of a request that is still in the loop:
   the places in `called` are, in order, those of the first `i` cells that want
   the request.  `Longer` adds one cell, asked or skipped; a callback that
   registers another one meanwhile leaves the cells before the cursor as they
   were (`OrderReentrant`), and moves the end that 404 waits for.

`ConnectServerProofs` proves of the composition, for any connections, tables,
bounds and both kinds of application: `ConnectIsServer` and `ConnectIsIface`,
that it implements `EvwebServer` and `ConnectIface`, so that what is proved of
the server holds when the connect interface is its application;
`OneAnswerHolds` and `AnsweredAsDecidedHolds`, `ConnectTypeCorrect` and
`TableStaysInReach`.  The argument:

1. `StepIsServers` maps every step to one of the server.  A call of the library
   is one of an application if the message in the handler has a number
   (`Numbered`).
2. `Handling` says what can happen while a handler runs, which needs
   `Exclusive`: the loop is at work on one connection.  `Entering`, that a
   handler starts with an empty `job`, and by `Ordered` with no response to its
   request.
3. `Progress` is the invariant: which calls are still to be made, by what was
   decided, and what holds of response and stream before and behind each.  The
   one response is sent by the last call (`FirstResponse`); before it a status
   is set, so that `end_response` cannot end the stream unanswered
   (`AnsweringCall`).
4. `ConnectTypeCorrect` and `TableStaysInReach` take what was proved of
   `ConnectIface` as it stands (`Callbacks`, an instance of
   `ConnectIfaceProofs`): here registrations succeed and callbacks register
   nothing, so neither excuse of `TableSound` applies and the table's `Crash`
   is out of reach (`Still`, `InReach`).  `ConnectServer` has assumptions on the
   table's constants for this (`TableAssumption`).

`HttpParserProofs` proves, for every header limit, every bound on texts and
bodies, numbers of any width and every cut of the input: `TypeCorrect`,
`AssertionsAlwaysHold`, `LinesStayPaired` and `LengthStaysSound`.  From
`LengthAssumption` it needs that both bases are smaller than the span, as 10
and 16 are smaller than 2^64, so that a single digit always fits.  The argument:

1. `Core` is the inductive invariant.  Its part `Asserted` says which text may
   be marked in which state, that `nread` is 0 where a chunk's size begins, that
   chunks are read with `F_CHUNKED` set, and that a body to be read has a length
   that is neither 0 nor `ULLONG_MAX`.  `Paired` and `Lined` tie the lines to
   `last_was_value`: it says whether the last line misses its value, and after a
   name its line exists.  `AssertionsHold` alone is not inductive, since the
   flag and the length are set states before they are asserted, and a handed
   over text changes the lines long after its mark was set.
2. Every action is one of a few shapes: it reads a byte, hands a text over,
   completes a message, or refuses.  `ReadsCore`, `CallbackCore`,
   `CompleteCore` and `ErrorCore` say what each needs of the new parser; the
   lemma of an action gives it that.  `CalmStep` and `HeaderStep` do so for the
   many states of which nothing is asked.
3. `Quiet` is a step that leaves the number being read alone.  All but
   `ContentLength` and `ChunkSize` are quiet, so `LengthSound` is an argument
   about these two only: `Wraps` says that the step is exact when its result
   fits, `NextDigitSound` that a number below `ULLONG_MAX` is never refused.

The same module proves under the same assumptions `ParserIsMessage`, that
`HttpParser` implements `HttpMessage`, and `BodyStaysAsAnnounced`.  The
argument:

1. `Cut` says what a cut leaves behind, which is what makes it invisible.
   Between two buffers nothing is marked, and the line before the cut says by
   `last_was_value` which text the next buffer continues; inside a buffer the
   text that is being read is marked.
2. The requests of `HttpMessage` have the text handed over and the text marked
   in one (`Building`).  `NamesGrow` and `ValuesGrow` say that this text grows
   by each byte, wherever the marks were set; `LongerTwice`, that handing a text
   over in two parts is handing it over in one.
3. A byte that belongs to no text is no step of `HttpMessage` unless it leads to
   the next part of the message (`Follows`).  `StepMoves`, `CallbackMoves` and
   `TextMoves` say so for the three kinds of step, and the lemma of an action
   cites one of them; beginnings and ends of messages have lemmas of their own.
4. `Owing` is what `BodyAsAnnounced` needs to be inductive: until the request
   is given away, what was announced is what is stored, marked and still owed
   together, and nothing was announced before the end of the head.  Only
   `MessageBegin`, `HeadersEnd` and `ChunkBegins` change what is announced; all
   other steps are `Steady`.

`HeaderTablesProofs` proves, for every number of headers and of failed
allocations, every set of names and all lengths: `TypeCorrect`,
`TablesStaySound`, `FailedAddStaysKeeping` and `HeadsFit`.  The argument:

1. The operators on tables are described once each: `GrownFacts` (the lines
   that were there stay, the new half is `"junk"`), `StoredForms` (whether the
   texts were stored or not, one cell has changed, and the count with it),
   `FoundFacts` (the search returns a line that matches, or there is none; this
   is where the natural numbers being well founded is needed), `ClearedFacts`
   and `NothingToFault` (a sound table is freed without harm).
2. `RequestLine`, `ResponseLine` and `ReplacedLine` put them together: one more
   line keeps a sound table sound if its texts were stored, and drops the line
   again if not; a replacement that fails is harmless for the last line alone,
   since it is the last one that `num_headers--` drops.
3. `Inv` adds to `TablesSound` that an array which is there is as large as `max`
   says (`Fit`), and that a table in use is there unless its allocation failed:
   without it a `NULL` table could not be told from an empty one.  `SoundNow`
   and `SoundThen` reduce each step to the tables it changes.
4. `FailedAddKeeps` follows step by step from `Inv` and the lemmas of 2:
   `LinesSame` and `LinesFront` turn what they say of cells into the sequences
   of lines that the property compares.

5. `HeadsFit` follows the fold of `PrintHead` line by line (`LoopLemmas`): as
   long as each line takes no more than its share of the buffer, what is written
   and what is left add up to the size, so the unsigned room never wraps.
   `Rest` is the part of `TypeOK` that speaks of the head.

`LoopLemmas` is about `FoldLeft`, with which the models write the loops of the
code.  The induction theorems of the library take an operator, so they cannot
be used here; instead a property is a set of numbers or of texts, and induction
is the absence of a least counterexample (`Induction`, `TextInduction`).
`FoldLeft` is a `CHOOSE` of a function on sets of places that solves a recursive
equation: `Solution` shows that there is one, `Agree` that its solutions end
alike, and `Looped` gives the two equations that a proof needs, for the empty
text and for one element more.  The body of a loop has to be a function; each
proof begins by showing that the fold in the model is the loop of one.

`UrlParserProofs` proves, for URLs of any length, ports and offsets of any width
and everything an earlier request may have left in the structure:
`UrlTypeCorrect`, `CutsCorrect`, `RefusalCorrect` and `PartsCorrect`.  The
assumption is the one of the module, that offsets count to two at least.  The
argument:

1. `From` inverts the table of `parse_url_char`, state by state (`Came`): a
   field is entered only from certain states and by certain bytes.
2. The loop of `http_parser_parse_url` is followed byte by byte.  `Placed` says
   that fields come in their order and the last that is set is the current one;
   `Fits`, that each ends where the next begins but for the bytes between them,
   as long as offsets do not wrap; `Same`, that nothing the structure held
   before makes a difference.
3. `KeepsOn` is the core of `CutsCorrect`: a text that is taken has no front
   that is refused.  States that are no error stay so, and the number of a
   front of the port is not greater than the port's (`NumberGrows`).
4. `UrlInv` ties the two readers together: unless the method is CONNECT they
   are in the same state (`ReadAlike`), so `RefusalCorrect` is left with the
   port.

`QueryJsonProofs` proves, for texts of any length and buffers of any sizes that
are less than `size_t` counts, `FaultsCorrect`, `JsonStaysInside` and
`DecodedCorrect`:

1. `KeyFacts` says where a key ends, `TurnReads` what one turn of the loop over
   a value does: it fills one cell or two, reads on, and does wrong only what
   `FaultSeen` says.  `Reading` is its invariant, with the number of cells
   between the number of bytes read and twice that.  The model bounds the loop
   by `ValueSize` turns; `ValueTurns` shows that the bound is never what ends it.
2. `Queries` is the invariant of the loop over the text: where it stands, and
   that the bytes counted are those of the pairs as long as `size_t` can count
   them (`Counted`, `StoredFacts`).
3. The proof found the first two properties too strong as they were first
   written: an overrun needs fewer bytes than every byte of the value escaped,
   and the count wraps one byte before the object's length does.  TLC confirmed
   both with other sizes; what the module says now is what holds for all of them.
4. `DecodedCorrect` compares the loops of the code, which read the text once,
   with a reference that splits the text first and then decodes each piece.
   `SplitFacts` and `PartedFacts` say where the pieces lie in the text, by
   induction on it; `DecodedFacts` gives the reference's decoding byte by byte
   (`DecodeSteps`), so that the loop over a value can be held against it:
   `InValue` is its invariant outside of escapes, `NumberGrows` the agreement of
   the two flags with `IsNumber`.  `ValueDecoded` and `KeyDecoded` make
   `PairDecoded`, one turn of the outer loop; `InText` is that loop's invariant,
   the pairs of the first `j` pieces, and `OutOfText` where it ends when the last
   piece is lost.  `next_char` does not occur in either: in a value whose escapes
   are whole, what is left in it from the value before, or never written, is not
   read.

Model-checked only: `Reclaimed`, which is liveness under fairness.

## 5. What is not modelled, and the plan

Not modelled: the response states of `http_parser.c`, `http_parser_pause` and
`http_message_needs_eof` for responses, which the library never enters or
calls; the mapping of request methods and status codes to words; the failures
to copy a content type or a status message (`evweb.c:61-68,207-220`), which
leave the field NULL and return an error; the bytes TAB, VT and FF in a URL, on
which `assert(!isspace(ch))` (`http_parser.c:413`) stops a process built without
`NDEBUG` (every other byte that no URL contains is the class `"ctl"` of
`UrlParser`, which is refused); `max_keep_alive * 1000` (`tcp-server.c:85`),
which overflows for settings above 2147483 seconds; file names, contents and
content types in `serve_static_file`; a registration in a table that was
destroyed, which `Register` excludes (`max_cb_count` is 0, twice that too, and
the code writes into a block of no cells; the API is not meant to be used so);
the repair of a wrong loop in `on_stream_data`; logging.  In `QueryJson` the
words `true` and `false`; the double quote and control characters, which
`query_to_json` copies into the object as they are.

Planned: `HttpParser` as an implementation of the framing of `EvwebServer`.

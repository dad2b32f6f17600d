---------------------------- MODULE EvwebServer -----------------------------
(***************************************************************************)
(* The server of libevweb: tcp-server.c (the life of a connection),        *)
(* http-parser-callbacks.c and the message framing of http_parser.c (how   *)
(* buffers become requests), and the response API of evweb.c, in one       *)
(* event loop.  One action is one libevn callback, one step of the parser  *)
(* that calls back, or one call of the response API by the application.    *)
(*                                                                         *)
(* Everything runs on the loop's thread: a callback of libevn starts only  *)
(* when no other is running (Idle).  on_stream_data is the one callback    *)
(* that spans several steps: it feeds the buffer to the parser ("parse"),  *)
(* which calls the request handler ("handler") once per complete message,  *)
(* and looks at the parser's verdict when http_parser_execute returns.     *)
(*                                                                         *)
(* Allocation failures are left out, except those that make a parser       *)
(* callback fail.                                                          *)
(***************************************************************************)
EXTENDS Naturals, Sequences, EvnStream

CONSTANTS
  Conns,        \* connections; each is accepted at most once
  MaxMsgs,      \* bound: requests begun on one connection
  MaxDialogue,  \* bound: responses are sent while the dialogue is shorter
  Async,        \* TRUE: the application keeps response pointers for later
  Calls         \* the calls of the response API the application makes

ASSUME BoundsAssumption == MaxMsgs \in Nat /\ MaxDialogue \in Nat
ASSUME AsyncAssumption == Async \in BOOLEAN
ASSUME CallsAssumption ==
  Calls \subseteq {"set_status", "add_header", "clear_headers", "set_body",
                   "add_body", "clear_body", "send", "end"}

VARIABLES
  server,     \* the listening socket, and whether the process still runs
  at,         \* what the loop is doing for each connection
  stream,     \* the libevn stream
  mem,        \* the evweb_http_processer: absent, allocated or freed
  parser,     \* the http_parser inside it
  response,   \* the evweb_response inside it
  dialogue,   \* history: requests handed over, responses and refusals sent
  ends,       \* history: calls of evn_stream_end on the stream
  held,       \* messages whose response pointer the application still has
  stale       \* history: a call was made on a freed processer

vars == <<server, at, stream, mem, parser, response, dialogue, ends, held, stale>>
conn == <<stream, mem, parser, response, dialogue, ends, held, stale>>

Msgs == 1..MaxMsgs

(***************************************************************************)
(* A message's data are represented by the message whose handler supplied  *)
(* them (0: none), so that a response tells whose data it is made of.      *)
(***************************************************************************)
Source == 0..MaxMsgs

ServerState == {"down", "listening", "closed", "exited"}

\* "start": between messages.  "dead": after a message that closes the
\* connection.  "error": http_errno is set.
ParserPhase == {"start", "head", "body", "dead", "error"}

Parser == [phase : ParserPhase, msg : Source, upgrade : BOOLEAN]

\* "Connection" is the one header the library itself writes.
Fields == {"Connection", "Other"}

Response == [status : Source,                \* 0: response->status is -1
             message : Source,
             headers : [Fields -> Source],
             content : SUBSET Msgs,
             type : Source]

NoResponse == [status |-> 0, message |-> 0, headers |-> [f \in Fields |-> 0],
               content |-> {}, type |-> 0]

\* msg: the request concerned, or the one on whose behalf a response is
\* sent; of: whose data a response carries; last: the request asks for, or
\* the response announces, the end of the connection.
Event == [op : {"handle", "response", "refusal"}, msg : Source,
          of : SUBSET Msgs, last : BOOLEAN]

\* Who ended the stream, and whether it had unsent bytes then.
End == [by : {"end_response", "drain", "timeout"}, unsent : BOOLEAN]

TypeOK ==
  /\ server \in ServerState
  /\ at \in [Conns -> {"idle", "parse", "handler"}]
  /\ stream \in [Conns -> Stream]
  /\ mem \in [Conns -> {"none", "live", "freed"}]
  /\ parser \in [Conns -> Parser]
  /\ response \in [Conns -> Response]
  /\ dialogue \in [Conns -> Seq(Event)]
  /\ ends \in [Conns -> Seq(End)]
  /\ held \in [Conns -> SUBSET Source]
  /\ stale \in BOOLEAN

Init ==
  /\ server = "down"
  /\ at = [c \in Conns |-> "idle"]
  /\ stream = [c \in Conns |-> NoStream]
  /\ mem = [c \in Conns |-> "none"]
  /\ parser = [c \in Conns |-> [phase |-> "start", msg |-> 0, upgrade |-> FALSE]]
  /\ response = [c \in Conns |-> NoResponse]
  /\ dialogue = [c \in Conns |-> <<>>]
  /\ ends = [c \in Conns |-> <<>>]
  /\ held = [c \in Conns |-> {}]
  /\ stale = FALSE

-----------------------------------------------------------------------------
(***************************************************************************)
(* The loop and the server socket.                                         *)
(***************************************************************************)

Running == server # "exited"

\* The loop may start a callback.
Idle == \A c \in Conns : at[c] = "idle"

Live(c) == Running /\ mem[c] = "live"

\* A callback of libevn for the stream of c starts.
Callback(c) == Idle /\ Live(c)

\* The application has the thread: in a handler, or in a callback of its own.
ApplicationRuns == Idle \/ \E c \in Conns : at[c] = "handler"

StartServer ==
  /\ ApplicationRuns
  /\ server \in {"down", "closed"}
  /\ server' = "listening"
  /\ UNCHANGED <<at, conn>>

\* evweb_close_server: no on_close any more, so no exit; connections stay.
CloseServer ==
  /\ ApplicationRuns
  /\ server = "listening"
  /\ server' = "closed"
  /\ UNCHANGED <<at, conn>>

\* libevn closes the server socket by itself: on_server_close exits.
ServerFails ==
  /\ Idle
  /\ server = "listening"
  /\ server' = "exited"
  /\ UNCHANGED <<at, conn>>

(***************************************************************************)
(* on_connection: allocate the processer, initialise its parser, install   *)
(* the callbacks and arm the keep-alive timeout.                           *)
(***************************************************************************)
NewStream == [NoStream EXCEPT !.ready = "OPEN", !.timer = TRUE]

Accept(c) ==
  /\ Idle
  /\ server = "listening"
  /\ mem[c] = "none"
  /\ mem' = [mem EXCEPT ![c] = "live"]
  /\ stream' = [stream EXCEPT ![c] = NewStream]
  /\ UNCHANGED <<server, at, parser, response, dialogue, ends, held, stale>>

-----------------------------------------------------------------------------
(***************************************************************************)
(* on_stream_data and http_parser_execute.                                 *)
(***************************************************************************)

\* A buffer arrives and is handed to the parser.
OnStreamData(c) ==
  /\ Callback(c)
  /\ Readable(stream[c])
  /\ parser[c].phase \notin {"dead", "error"}
  /\ at' = [at EXCEPT ![c] = "parse"]
  /\ UNCHANGED <<server, conn>>

(***************************************************************************)
(* The parser refuses a byte: http_parser_execute returns less than the    *)
(* length of the buffer, and the stream is destroyed.                      *)
(***************************************************************************)
Refusing(c) ==
  /\ at' = [at EXCEPT ![c] = "idle"]
  /\ parser' = [parser EXCEPT ![c].phase = "error"]
  /\ stream' = [stream EXCEPT ![c] = EvnDestroy(@)]
  /\ UNCHANGED <<server, mem, response, dialogue, ends, held, stale>>

\* A buffer for a parser that is dead, or in error from an earlier one: its
\* first byte is refused.
LateData(c) ==
  /\ Callback(c)
  /\ Readable(stream[c])
  /\ parser[c].phase \in {"dead", "error"}
  /\ Refusing(c)

\* The parser is about to look at the next byte.
Parsing(c) == Live(c) /\ at[c] = "parse" /\ ~parser[c].upgrade

Say(c, op, k, of, last) ==
  dialogue' = [dialogue EXCEPT ![c] =
                 Append(@, [op |-> op, msg |-> k, of |-> of, last |-> last])]

\* Mutant: content_type survives on_message_begin.
ResetResponseButType(r) == [NoResponse EXCEPT !.type = r.type]

(***************************************************************************)
(* The first byte of a request: on_message_begin frees what the request    *)
(* and the response of the last message left and sets the status to -1.    *)
(***************************************************************************)
ResetResponse(r) == NoResponse

MessageBegin(c) ==
  /\ Parsing(c)
  /\ parser[c].phase = "start"
  /\ parser[c].msg < MaxMsgs
  /\ parser' = [parser EXCEPT ![c].phase = "head", ![c].msg = @ + 1]
  /\ response' = [response EXCEPT ![c] = ResetResponse(@)]
  /\ UNCHANGED <<server, at, stream, mem, dialogue, ends, held, stale>>

\* Mutants: NEW_MESSAGE() of a build without HTTP_PARSER_STRICT; a state that
\* is not one of a request parser between messages.
NewMessageLenient(close) == "start"
NewMessageUntilEof(close) == IF close THEN "body_identity_eof" ELSE "start"

\* NEW_MESSAGE(): the parser's state after a message; close says that
\* http_should_keep_alive does not hold of it.
NewMessage(close) == IF close THEN "dead" ELSE "start"

\* on_message_complete, and finish_message: the handler is called.
MessageComplete(c, close, upgrade) ==
  /\ parser' = [parser EXCEPT ![c].phase = NewMessage(close),
                              ![c].upgrade = upgrade]
  /\ Say(c, "handle", parser[c].msg, {}, close \/ upgrade)
  /\ at' = [at EXCEPT ![c] = "handler"]
  /\ UNCHANGED <<server, stream, mem, response, ends, held, stale>>

\* The blank line that ends the headers of a request with a body.
HeadersComplete(c) ==
  /\ Parsing(c)
  /\ parser[c].phase = "head"
  /\ parser' = [parser EXCEPT ![c].phase = "body"]
  /\ UNCHANGED <<server, at, stream, mem, response, dialogue, ends, held, stale>>

\* That of a request without one, or of a request to upgrade (CONNECT or an
\* Upgrade header), whose body is not read.
BodilessComplete(c) ==
  /\ Parsing(c)
  /\ parser[c].phase = "head"
  /\ \E close, upgrade \in BOOLEAN : MessageComplete(c, close, upgrade)

\* The last byte of a body.  A chunked body ends in a trailer, whose headers
\* may still decide whether the connection is kept.
BodyComplete(c) ==
  /\ Parsing(c)
  /\ parser[c].phase = "body"
  /\ \E close \in BOOLEAN : MessageComplete(c, close, FALSE)

(***************************************************************************)
(* The handler returns.  An application that answers later has kept the    *)
(* response pointer.                                                       *)
(***************************************************************************)
HandlerReturn(c) ==
  /\ Live(c)
  /\ at[c] = "handler"
  /\ at' = [at EXCEPT ![c] = "parse"]
  /\ \/ UNCHANGED held
     \/ Async /\ held' = [held EXCEPT ![c] = @ \union {parser[c].msg}]
  /\ UNCHANGED <<server, stream, mem, parser, response, dialogue, ends, stale>>

\* The buffer is used up: http_parser_execute returns its length.
BufferDone(c) ==
  /\ Parsing(c)
  /\ at' = [at EXCEPT ![c] = "idle"]
  /\ UNCHANGED <<server, conn>>

\* A malformed byte, or one that follows the message that closed the parser.
ByteRefused(c) == Parsing(c) /\ Refusing(c)

(***************************************************************************)
(* A data callback (on_url, on_body) fails on the last bytes of a buffer.  *)
(* The parser is in error, yet returns the buffer's length: the stream     *)
(* stays.                                                                  *)
(***************************************************************************)
CallbackFails(c) ==
  /\ Parsing(c)
  /\ parser[c].phase \in {"head", "body"}
  /\ at' = [at EXCEPT ![c] = "idle"]
  /\ parser' = [parser EXCEPT ![c].phase = "error"]
  /\ UNCHANGED <<server, stream, mem, response, dialogue, ends, held, stale>>

\* Mutant: the stream of a refused upgrade is not destroyed.
RefuseUpgradeKeepsStream(c) ==
  /\ Live(c)
  /\ at[c] = "parse"
  /\ parser[c].upgrade
  /\ at' = [at EXCEPT ![c] = "idle"]
  /\ \E s \in EvnWrite(stream[c]) : stream' = [stream EXCEPT ![c] = s]
  /\ Say(c, "refusal", parser[c].msg, {}, TRUE)
  /\ UNCHANGED <<server, mem, parser, response, ends, held, stale>>

\* http_parser_execute returns with parser.upgrade set: a refusal is written
\* and the stream destroyed.
RefuseUpgrade(c) ==
  /\ Live(c)
  /\ at[c] = "parse"
  /\ parser[c].upgrade
  /\ at' = [at EXCEPT ![c] = "idle"]
  /\ \E s \in EvnWrite(stream[c]) : stream' = [stream EXCEPT ![c] = EvnDestroy(s)]
  /\ Say(c, "refusal", parser[c].msg, {}, TRUE)
  /\ UNCHANGED <<server, mem, parser, response, ends, held, stale>>

Execute(c) ==
  \/ OnStreamData(c)    \/ LateData(c)         \/ MessageBegin(c)
  \/ HeadersComplete(c) \/ BodilessComplete(c) \/ BodyComplete(c)
  \/ HandlerReturn(c)   \/ BufferDone(c)       \/ ByteRefused(c)
  \/ CallbackFails(c)   \/ RefuseUpgrade(c)

-----------------------------------------------------------------------------
(***************************************************************************)
(* The other callbacks of a stream.                                        *)
(***************************************************************************)

Ending(c, s, by) ==
  ends' = [ends EXCEPT ![c] = Append(@, [by |-> by, unsent |-> s.unsent])]

\* The peer's FIN: on_stream_end only logs it.
OnStreamEnd(c) ==
  /\ Callback(c)
  /\ Readable(stream[c])
  /\ stream' = [stream EXCEPT ![c] = EvnPeerEnd(@)]
  /\ UNCHANGED <<server, at, mem, parser, response, dialogue, ends, held, stale>>

\* Mutant: the second timeout is not armed.
NotRearmed(s) == s

\* evn_stream_set_timeout, called again by on_stream_timeout.
Rearmed(s) == [s EXCEPT !.timer = TRUE]

\* Mutant: the test for READ_ONLY is forgotten.
KeepAliveExpiresAgain(s) == s.ready # "CLOSED"

\* The timeout finds our half of the stream still open.
KeepAliveExpires(s) == ~Ended(s)

(***************************************************************************)
(* on_stream_timeout.  The first timeout ends the stream and arms a second *)
(* one, which destroys it.                                                 *)
(***************************************************************************)
OnStreamTimeout(c) ==
  /\ Callback(c)
  /\ stream[c].timer
  /\ LET s == [stream[c] EXCEPT !.timer = FALSE]
     IN  \/ /\ KeepAliveExpires(s)
            /\ stream' = [stream EXCEPT ![c] = Rearmed(EvnEnd(s))]
            /\ Ending(c, s, "timeout")
         \/ /\ ~KeepAliveExpires(s)
            /\ stream' = [stream EXCEPT ![c] = EvnDestroy(s)]
            /\ UNCHANGED ends
  /\ UNCHANGED <<server, at, mem, parser, response, dialogue, held, stale>>

\* Mutant: a stream that the peer has ended is left to the peer.
CloseOnDrainIfOpen(s) == IF s.ready = "OPEN" THEN EvnEnd(s) ELSE s

\* close_connection_on_drain looks at nothing.
CloseOnDrain(s) == EvnEnd(s)

\* libevn has written everything, and calls on_drain if it is installed.
OnDrain(c) ==
  /\ Callback(c)
  /\ stream[c].unsent
  /\ LET s == [stream[c] EXCEPT !.unsent = FALSE]
     IN  \/ /\ s.endOnDrain
            /\ stream' = [stream EXCEPT ![c] = CloseOnDrain(s)]
            /\ Ending(c, s, "drain")
         \/ /\ ~s.endOnDrain
            /\ stream' = [stream EXCEPT ![c] = s]
            /\ UNCHANGED ends
  /\ UNCHANGED <<server, at, mem, parser, response, dialogue, held, stale>>

\* A socket error: on_stream_error only logs it, libevn destroys the stream.
StreamError(c) ==
  /\ Callback(c)
  /\ stream[c].ready # "CLOSED"
  /\ stream' = [stream EXCEPT ![c] = EvnDestroy(@)]
  /\ UNCHANGED <<server, at, mem, parser, response, dialogue, ends, held, stale>>

\* Mutant: the processer is freed once our half of the stream is shut.
OnStreamCloseEarly(c) ==
  /\ Callback(c)
  /\ Ended(stream[c])
  /\ mem' = [mem EXCEPT ![c] = "freed"]
  /\ UNCHANGED <<server, at, stream, parser, response, dialogue, ends, held, stale>>

\* on_stream_close frees the processer and all it owns.
OnStreamClose(c) ==
  /\ Callback(c)
  /\ stream[c].ready = "CLOSED"
  /\ mem' = [mem EXCEPT ![c] = "freed"]
  /\ UNCHANGED <<server, at, stream, parser, response, dialogue, ends, held, stale>>

StreamCallback(c) ==
  OnStreamEnd(c) \/ OnStreamTimeout(c) \/ OnDrain(c) \/ StreamError(c) \/ OnStreamClose(c)

-----------------------------------------------------------------------------
(***************************************************************************)
(* The response API.  A call that only returns an error changes nothing    *)
(* and is no step, but for set_response_status, which stores the status    *)
(* before it looks at the stream.                                          *)
(***************************************************************************)

HasPointer(c, k) ==
  \/ at[c] = "handler" /\ k = parser[c].msg
  \/ ApplicationRuns /\ k \in held[c]

\* The application makes the call on behalf of request k.
Calling(call, c, k) == call \in Calls /\ Live(c) /\ HasPointer(c, k)

SetResponseStatus(c, k) ==
  /\ Calling("set_status", c, k)
  /\ \E withMessage \in BOOLEAN :
       response' = [response EXCEPT ![c].status = k,
                                    ![c].message = IF withMessage /\ ~Ended(stream[c])
                                                   THEN k ELSE @]
  /\ UNCHANGED <<server, at, stream, mem, parser, dialogue, ends, held, stale>>

AddHeader(r, f, k) == [r EXCEPT !.headers[f] = k]

AddResponseHeader(c, k) ==
  /\ Calling("add_header", c, k)
  /\ ~Ended(stream[c])
  /\ \E f \in Fields : response' = [response EXCEPT ![c] = AddHeader(@, f, k)]
  /\ UNCHANGED <<server, at, stream, mem, parser, dialogue, ends, held, stale>>

ClearHeaders(r) == [r EXCEPT !.headers = [f \in Fields |-> 0]]

ClearResponseHeaders(c, k) ==
  /\ Calling("clear_headers", c, k)
  /\ stream[c].ready # "CLOSED"
  /\ response' = [response EXCEPT ![c] = ClearHeaders(@)]
  /\ UNCHANGED <<server, at, stream, mem, parser, dialogue, ends, held, stale>>

ClearBody(r) == [r EXCEPT !.content = {}, !.type = 0]

\* A body may be empty and come without a type.
AddBody(r, k, bytes, typed) ==
  [r EXCEPT !.content = IF bytes THEN @ \union {k} ELSE @,
            !.type = IF typed THEN k ELSE @]

SetResponseBody(c, k) ==
  /\ Calling("set_body", c, k)
  /\ ~Ended(stream[c])
  /\ \E bytes, typed \in BOOLEAN :
       response' = [response EXCEPT ![c] = AddBody(ClearBody(@), k, bytes, typed)]
  /\ UNCHANGED <<server, at, stream, mem, parser, dialogue, ends, held, stale>>

AddToResponseBody(c, k) ==
  /\ Calling("add_body", c, k)
  /\ ~Ended(stream[c])
  /\ \E bytes, typed \in BOOLEAN :
       response' = [response EXCEPT ![c] = AddBody(@, k, bytes, typed)]
  /\ UNCHANGED <<server, at, stream, mem, parser, dialogue, ends, held, stale>>

ClearResponseBody(c, k) ==
  /\ Calling("clear_body", c, k)
  /\ stream[c].ready # "CLOSED"
  /\ response' = [response EXCEPT ![c] = ClearBody(@)]
  /\ UNCHANGED <<server, at, stream, mem, parser, dialogue, ends, held, stale>>

(***************************************************************************)
(* What send_response does to the stream: it writes the header block and,  *)
(* unless that closed the stream, the content.                             *)
(***************************************************************************)
SendOutcomes(s, r) ==
  IF r.content = {} THEN EvnWrite(s) ELSE UNION {EvnWrite(t) : t \in EvnWrite(s)}

\* What it leaves of the response: nothing, unless the stream is closed.
Sent(r, s) ==
  IF s.ready = "CLOSED" THEN r
  ELSE [ClearHeaders(ClearBody(r)) EXCEPT !.status = 0, !.message = 0]

\* The messages whose data the response is made of.
Sources(r) ==
  (({r.status, r.message, r.type} \union {r.headers[f] : f \in Fields}) \ {0})
    \union r.content

\* Mutant: only a closed stream is refused.
CanSendWhileOpen(c) ==
  /\ stream[c].ready # "CLOSED"
  /\ response[c].status # 0
  /\ Len(dialogue[c]) < MaxDialogue

\* The application may send: the stream takes it and there is a status.
CanSend(c) ==
  /\ ~Ended(stream[c])
  /\ response[c].status # 0
  /\ Len(dialogue[c]) < MaxDialogue

SendResponse(c, k) ==
  /\ Calling("send", c, k)
  /\ CanSend(c)
  /\ \E s \in SendOutcomes(stream[c], response[c]) :
       /\ stream' = [stream EXCEPT ![c] = s]
       /\ response' = [response EXCEPT ![c] = Sent(@, s)]
  /\ Say(c, "response", k, Sources(response[c]), FALSE)
  /\ UNCHANGED <<server, at, mem, parser, ends, held, stale>>

(***************************************************************************)
(* end_response.  With no status set there is nothing to send and the      *)
(* stream is ended at once.                                                *)
(***************************************************************************)
EndUnanswered(c, k) ==
  /\ Calling("end", c, k)
  /\ ~Ended(stream[c])
  /\ response[c].status = 0
  /\ stream' = [stream EXCEPT ![c] = EvnEnd(@)]
  /\ Ending(c, stream[c], "end_response")
  /\ UNCHANGED <<server, at, mem, parser, response, dialogue, held, stale>>

\* Mutant: the result of send_response is lost.
NeverFinished(s) == FALSE

\* The result of send_response: all of it, and all before it, is written.
Finished(s) == ~s.unsent

\* Mutant: end_response reports that it waits, and installs nothing.
EndForgotten(s) == s

\* stream->on_drain = close_connection_on_drain.
EndOnDrain(s) == [s EXCEPT !.endOnDrain = TRUE]

\* Otherwise the response is sent with "Connection: close", and the stream
\* is ended when all is written: at once or on drain.
EndAnswered(c, k) ==
  LET r == AddHeader(response[c], "Connection", k)
  IN  /\ Calling("end", c, k)
      /\ CanSend(c)
      /\ \E s \in SendOutcomes(stream[c], r) :
           /\ response' = [response EXCEPT ![c] = Sent(r, s)]
           /\ \/ /\ s.ready = "CLOSED"
                 /\ stream' = [stream EXCEPT ![c] = s]
                 /\ UNCHANGED ends
              \/ /\ s.ready # "CLOSED" /\ Finished(s)
                 /\ stream' = [stream EXCEPT ![c] = EvnEnd(s)]
                 /\ Ending(c, s, "end_response")
              \/ /\ s.ready # "CLOSED" /\ ~Finished(s)
                 /\ stream' = [stream EXCEPT ![c] = EndOnDrain(s)]
                 /\ UNCHANGED ends
      /\ Say(c, "response", k, Sources(r), TRUE)
      /\ UNCHANGED <<server, at, mem, parser, held, stale>>

EndResponse(c, k) == EndUnanswered(c, k) \/ EndAnswered(c, k)

\* The application uses a pointer into a processer that was freed.
StaleCall(c, k) ==
  /\ Running
  /\ ApplicationRuns
  /\ mem[c] = "freed"
  /\ k \in held[c]
  /\ stale' = TRUE
  /\ UNCHANGED <<server, at, stream, mem, parser, response, dialogue, ends, held>>

Application(c, k) ==
  \/ SetResponseStatus(c, k) \/ AddResponseHeader(c, k) \/ ClearResponseHeaders(c, k)
  \/ SetResponseBody(c, k)   \/ AddToResponseBody(c, k) \/ ClearResponseBody(c, k)
  \/ SendResponse(c, k)      \/ EndResponse(c, k)       \/ StaleCall(c, k)

-----------------------------------------------------------------------------
Next ==
  \/ StartServer \/ CloseServer \/ ServerFails
  \/ \E c \in Conns : Accept(c) \/ Execute(c) \/ StreamCallback(c)
  \/ \E c \in Conns, k \in Msgs : Application(c, k)

Spec == Init /\ [][Next]_vars

(***************************************************************************)
(* Fairness: handlers return and buffers are finite, so on_stream_data     *)
(* returns; the loop runs the timeouts that have expired and the close     *)
(* callbacks that are due, even if it never stays idle.                    *)
(***************************************************************************)
ExecuteReturns(c) == HandlerReturn(c) \/ BufferDone(c) \/ ByteRefused(c)
                       \/ CallbackFails(c) \/ RefuseUpgrade(c)

Fairness ==
  \A c \in Conns : /\ WF_vars(ExecuteReturns(c))
                   /\ SF_vars(OnStreamTimeout(c))
                   /\ SF_vars(OnStreamClose(c))

FairSpec == Spec /\ Fairness
-----------------------------------------------------------------------------
(***************************************************************************)
(* Properties.                                                             *)
(***************************************************************************)

\* The processer that the parser, the handler and the callbacks use is there
\* while they run, and goes only after its stream is closed.
LifeCycle ==
  \A c \in Conns :
    /\ at[c] # "idle" => mem[c] = "live"
    /\ mem[c] = "none" <=> stream[c].ready = "ABSENT"
    /\ mem[c] = "freed" => stream[c].ready = "CLOSED"

\* A response to a pipelined request carries nothing that was given for
\* another one, if the application answers inside its handlers.
ResponsePurity ==
  ~Async => \A c \in Conns : \A i \in 1..Len(dialogue[c]) :
              dialogue[c][i].op = "response" => dialogue[c][i].of \subseteq {dialogue[c][i].msg}

\* A request that asked for the connection to be closed or upgraded is the
\* last one the application sees, however much was pipelined behind it.
LastRequestIsLast ==
  \A c \in Conns : \A i, j \in 1..Len(dialogue[c]) :
    dialogue[c][i].op = "handle" /\ dialogue[c][i].last /\ i < j
      => dialogue[c][j].op # "handle"

\* An end that end_response promised to make on drain is still to come:
\* a stream in that state has bytes whose draining will trigger it.
PromisedEndArmed ==
  \A c \in Conns : stream[c].endOnDrain /\ Writable(stream[c]) => stream[c].unsent

\* A stream that is not closed always has a timeout that will end it, also
\* after on_stream_timeout has used the first one.
TimerArmed ==
  \A c \in Conns :
    mem[c] = "live" /\ stream[c].ready # "CLOSED" => stream[c].timer

\* A response that said "Connection: close" is kept to, whatever happens to the
\* stream before it is ended: pipelined requests answered behind it, drains,
\* the peer's FIN, timeouts.  As long as the stream can be written to, it has
\* unsent bytes whose draining will end it.  (A response without content has no
\* Content-Length either: its peer waits for that end.)
CloseKept ==
  \A c \in Conns : \A i \in 1..Len(dialogue[c]) :
    dialogue[c][i].op = "response" /\ dialogue[c][i].last /\ Writable(stream[c])
      => stream[c].endOnDrain /\ stream[c].unsent

\* A stream is ended once by the timeout or the application; only the drain
\* callback, which looks at nothing, may end it again.
OnlyDrainEndsAgain ==
  \A c \in Conns : \A i \in 2..Len(ends[c]) : ends[c][i].by = "drain"

\* Once the stream has been ended, by a timeout between two requests or by
\* an earlier response, no call of the application writes a response to it.
NoResponseAfterEnd ==
  [][\A c \in Conns :
       ends[c] # <<>> /\ dialogue'[c] # dialogue[c]
         => dialogue'[c][Len(dialogue'[c])].op # "response"]_vars

\* A connection whose peer has fallen silent is torn down and its memory
\* freed, unless the process exits.
Reclaimed ==
  \A c \in Conns :
    (<>[](at[c] = "idle")) => <>[](mem[c] # "live" \/ server = "exited")

\* "did not send all data, will end connection on drain" (evweb.c:419):
\* end_response never ends a stream that has unsent bytes.
EndWaitsForDrain ==
  \A c \in Conns : \A i \in 1..Len(ends[c]) :
    ends[c][i].by = "end_response" => ~ends[c][i].unsent

\* The application does not use "the pointer for the HTTP connection after it
\* was already closed and freed" (README.md:8-9).
NoStaleCall == ~stale

(***************************************************************************)
(* The server implements HttpSession.                                      *)
(***************************************************************************)
Phase(c) ==
  CASE mem[c] = "none"  -> "absent"
    [] mem[c] = "freed" -> "freed"
    [] OTHER -> CASE Writable(stream[c])              -> "open"
                  [] stream[c].ready = "READ_ONLY"    -> "ended"
                  [] OTHER                            -> "closed"

Session == INSTANCE HttpSession WITH phase <- [c \in Conns |-> Phase(c)]

\* Seen from the two sides of the dialogue, the server is an HttpSession.
SessionSpec == Session!Spec
=============================================================================

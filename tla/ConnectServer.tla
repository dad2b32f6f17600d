---------------------------- MODULE ConnectServer ----------------------------
(***************************************************************************)
(* evweb_start_connect_server: the connect interface (ConnectIface) as the *)
(* request handler of the server (EvwebServer).  request_handler runs      *)
(* inside http_parser_execute, on the one response of its connection; what *)
(* it decides about a request it carries out by calls of the response API, *)
(* each of which may find the stream ended.                                *)
(*                                                                         *)
(* The table is filled before the server starts, by registrations that     *)
(* succeed (ConnectIface has the others), and callbacks register nothing.  *)
(***************************************************************************)
EXTENDS EvwebServer

CONSTANTS
  InitialMax, MaxCount, MaxServed, Paths, Routes   \* those of ConnectIface

\* What ConnectIface assumes of them.
ASSUME TableAssumption ==
  /\ InitialMax \in Nat \ {0} /\ MaxCount \in Nat /\ MaxServed \in Nat
  /\ Routes \subseteq {"GET", "HEAD", "POST"} \X Paths
  /\ {"NULL", "uninitialised", "directory", "no path"} \intersect Paths = {}

VARIABLES
  table, serving, served, fds, failed, moved, misfreed, crashed,
  job    \* what request_handler is doing about the request it serves

Iface == INSTANCE ConnectIface WITH Reentrant <- FALSE

iface == <<table, serving, served, fds, failed, moved, misfreed, crashed>>
connectVars == <<vars, iface, job>>

\* The calls that request_handler and serve_static_file make themselves.
LibraryCalls == {"set_status", "set_body", "send", "end"}

ASSUME LibraryCallsAssumption == LibraryCalls \subseteq Calls

\* todo: the calls still to make.  open: history, the stream was not ended
\* when the handler was called.  answered: history, a callback of the
\* application has sent or ended the response.
Job == [todo : Seq(LibraryCalls), open : BOOLEAN, answered : BOOLEAN]

NewJob(open) == [todo |-> <<>>, open |-> open, answered |-> FALSE]

ConnectTypeOK == TypeOK /\ Iface!TypeOK /\ job \in Job

ConnectInit == Init /\ Iface!Init /\ job = NewJob(FALSE)

-----------------------------------------------------------------------------
(***************************************************************************)
(* The application sets the table up, and takes it away while connections  *)
(* may still be open.                                                      *)
(***************************************************************************)
Registering ==
  /\ server = "down"
  /\ \/ Iface!AddFunction \/ Iface!AddStatic
     \/ \E r \in Routes : Iface!AddRouter(r[1], r[2])
  /\ ~failed'
  /\ UNCHANGED <<vars, job>>

Destroying ==
  /\ Running /\ Idle
  /\ Iface!Destroy
  /\ UNCHANGED <<vars, job>>

-----------------------------------------------------------------------------
(***************************************************************************)
(* request_handler.                                                        *)
(***************************************************************************)
InHandler(c) == Live(c) /\ at[c] = "handler"

\* A message is complete: whatever it asks for, the handler starts on it.
Enter(c) ==
  /\ BodilessComplete(c) \/ BodyComplete(c)
  /\ \E m \in Iface!Methods, p \in Paths \union {Iface!NoPath} : Iface!Request(m, p)
  /\ job' = NewJob(~Ended(stream[c]))

\* The callback of the application that is next in line is running.
InCallback ==
  /\ \E c \in Conns : InHandler(c)
  /\ job.todo = <<>>
  /\ Iface!Reading /\ Iface!Sound /\ Iface!AsksApplication

\* The calls that follow what was decided.  The first status of a file that
\* turns out to be unreadable is 200; that of 503 is never sent.
\* Mutant: what a callback gave for a body stays in front of the file.
FileCallsAdding == <<"set_status", "add_body", "end">>

FileCalls == <<"set_status", "set_body", "end">>
HeadCalls == <<"set_status", "send">>
UnreadableCalls == <<"set_status", "set_status">>

\* Mutant: the 404 is ended without a status.
NotFoundCallsNoStatus == <<"end">>

NotFoundCalls == <<"set_status", "end">>

Decide(calls) == job' = [job EXCEPT !.todo = calls]

\* The loop goes on, with the next callback or with what is left to do.
Chain(c) ==
  /\ InHandler(c)
  /\ job.todo = <<>>
  /\ \/ (Iface!Skip \/ Iface!CallApplication \/ Iface!FileMissing) /\ UNCHANGED job
     \/ Iface!FileServed /\ Decide(FileCalls)
     \/ Iface!FileHead /\ Decide(HeadCalls)
     \/ Iface!FileUnreadable /\ Decide(UnreadableCalls)
     \/ Iface!NotFound /\ Decide(NotFoundCalls)
  /\ UNCHANGED vars

Make(call, c, k) ==
  \/ call = "set_status" /\ SetResponseStatus(c, k)
  \/ call = "set_body" /\ SetResponseBody(c, k)
  \/ call = "send" /\ SendResponse(c, k)
  \/ call = "end" /\ EndResponse(c, k)

\* Nobody looks at what a call returns: one that finds the stream ended
\* changes nothing, and the next one is made.
LibraryCall(c) ==
  /\ InHandler(c)
  /\ job.todo # <<>>
  /\ \/ Make(Head(job.todo), c, parser[c].msg)
     \/ Head(job.todo) # "set_status" /\ Ended(stream[c]) /\ UNCHANGED vars
  /\ job' = [job EXCEPT !.todo = Tail(@)]
  /\ UNCHANGED iface

\* The handler is through with the request.
Return(c) ==
  /\ HandlerReturn(c)
  /\ job.todo = <<>>
  /\ serving.outcome # "pending"
  /\ UNCHANGED <<iface, job>>

-----------------------------------------------------------------------------
\* A call by a callback of the table, or between callbacks on a kept pointer.
ApplicationCall(c, k) ==
  /\ Idle \/ InCallback
  /\ Application(c, k)
  /\ job' = [job EXCEPT !.answered = @ \/ stream' # stream \/ dialogue' # dialogue]
  /\ UNCHANGED iface

\* The server without its handler.
ServerStep ==
  /\ \/ (Idle \/ InCallback) /\ (StartServer \/ CloseServer)
     \/ ServerFails
     \/ \E c \in Conns :
          \/ Accept(c) \/ StreamCallback(c)
          \/ OnStreamData(c) \/ LateData(c) \/ MessageBegin(c) \/ HeadersComplete(c)
          \/ BufferDone(c) \/ ByteRefused(c) \/ CallbackFails(c) \/ RefuseUpgrade(c)
  /\ UNCHANGED <<iface, job>>

ConnectNext ==
  /\ ~misfreed
  /\ \/ Registering \/ Destroying \/ ServerStep
     \/ \E c \in Conns : Enter(c) \/ Chain(c) \/ LibraryCall(c) \/ Return(c)
     \/ \E c \in Conns, k \in Msgs : ApplicationCall(c, k)

ConnectSpec == ConnectInit /\ [][ConnectNext]_connectVars

-----------------------------------------------------------------------------
(***************************************************************************)
(* Properties.                                                             *)
(***************************************************************************)

\* The responses to request k of c so far.
Responses(c, k) ==
  {i \in 1..Len(dialogue[c]) : dialogue[c][i].op = "response" /\ dialogue[c][i].msg = k}

\* However many directories, routers and the 404 are in line for a request,
\* it is given one response at most, unless a callback of the application
\* answered it and passed it on.
OneAnswer ==
  \A c \in Conns : at[c] = "handler" /\ ~job.answered =>
    \A i, j \in Responses(c, parser[c].msg) : i = j

\* A request that the library decides about is answered before the handler
\* returns, and its connection is then about to end, unless the request was
\* HEAD or the stream had been ended already; what could not be read, or has
\* no path, gets no response at all, and its peer waits for the timeout.
AnsweredAsDecided ==
  [][ \A c \in Conns :
        at[c] = "handler" /\ at'[c] = "parse" /\ job.open /\ ~job.answered =>
          /\ Responses(c, parser[c].msg) # {} <=> serving.outcome \in {"file", "head", "not found"}
          /\ serving.outcome \in {"file", "not found"} => Ended(stream[c]) \/ stream[c].endOnDrain
    ]_connectVars
=============================================================================

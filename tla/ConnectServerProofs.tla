------------------------ MODULE ConnectServerProofs -------------------------
(***************************************************************************)
(* Theorems about ConnectServer: what holds of the server and of the table *)
(* holds of both at work, and the library answers a request as it decided. *)
(***************************************************************************)
EXTENDS ConnectServer, EvwebServerProofs

-----------------------------------------------------------------------------
(***************************************************************************)
(* A step of the composition is a step of the server.                      *)
(***************************************************************************)

\* A message in the parser, or with its handler, has a number.
Numbered ==
  \A c \in Conns : parser[c].phase \in {"head", "body"} \/ at[c] = "handler"
                     => parser[c].msg # 0

\* The loop is at work on one connection at most.
Exclusive == \A c, d \in Conns : c # d => at[c] = "idle" \/ at[d] = "idle"

ServerInv == SessionInv /\ Numbered /\ Exclusive

LEMMA ServerInvInit == Init => ServerInv
<1>1. Init => Numbered /\ Exclusive
  BY DEF Init, Numbered, Exclusive
<1> QED BY <1>1, SessionInvInit DEF ServerInv

LEMMA NumberedStep ==
  ASSUME TypeOK, Numbered, [Next]_vars
  PROVE  Numbered'
<1> SUFFICES ASSUME NEW c \in Conns,
                    parser'[c].phase \in {"head", "body"} \/ at'[c] = "handler"
             PROVE  parser'[c].msg # 0
  BY DEF Numbered
<1>1. parser[c].msg \in Nat
  BY Numbers
<1>2. CASE dialogue'[c] = dialogue[c]
  <2>1. PlainStep(c)
    BY <1>2, PlainSteps
  <2> QED
    BY <1>1, <2>1 DEF PlainStep, Resting, Began, Advanced, Filled, Returned, Numbered
<1>3. CASE dialogue'[c] # dialogue[c]
  <2>1. PICK e \in Event : Handed(c, e) \/ Answered(c, e) \/ Refused(c, e)
    BY <1>3, DialogueSteps DEF DialogueStep
  <2> QED
    BY <1>1, <2>1 DEF Handed, Answered, Refused, Numbered
<1> QED BY <1>2, <1>3

LEMMA ExclusiveStep ==
  ASSUME TypeOK, Exclusive, [Next]_vars
  PROVE  Exclusive'
<1>1. CASE at' = at
  BY <1>1 DEF Exclusive
<1>2. ASSUME NEW d \in Conns, Execute(d), at' # at
      PROVE  Exclusive'
  <2>1. /\ at' = [at EXCEPT ![d] = at'[d]]
        /\ at[d] # "idle" \/ Idle
    BY <1>2 DEF TypeOK, Execute, OnStreamData, LateData, Callback, MessageBegin,
                HeadersComplete, BodilessComplete, BodyComplete, MessageComplete,
                HandlerReturn, BufferDone, ByteRefused, CallbackFails, RefuseUpgrade,
                Refusing, Parsing, conn
  <2> QED BY <2>1 DEF TypeOK, Exclusive, Idle
<1> QED
  BY <1>1, <1>2
     DEF Next, vars, StartServer, CloseServer, ServerFails, Accept, StreamCallback,
         OnStreamEnd, OnStreamTimeout, OnDrain, StreamError, OnStreamClose,
         Application, SetResponseStatus, AddResponseHeader, ClearResponseHeaders,
         SetResponseBody, AddToResponseBody, ClearResponseBody, SendResponse,
         EndResponse, EndUnanswered, EndAnswered, StaleCall

LEMMA ServerInvStep == ServerInv /\ [Next]_vars => ServerInv'
BY SessionInvStep, NumberedStep, ExclusiveStep DEF ServerInv, SessionInv, StreamInv

LEMMA StepIsServers == ServerInv /\ [ConnectNext]_connectVars => [Next]_vars
<1> SUFFICES ASSUME ServerInv, [ConnectNext]_connectVars PROVE [Next]_vars
  OBVIOUS
<1>1. CASE UNCHANGED connectVars
  BY <1>1 DEF connectVars
<1>2. CASE Registering \/ Destroying
  BY <1>2 DEF Registering, Destroying
<1>3. CASE ServerStep
  BY <1>3 DEF ServerStep, Next, Execute
<1>4. ASSUME NEW c \in Conns, Enter(c) PROVE [Next]_vars
  BY <1>4 DEF Enter, Next, Execute
<1>5. ASSUME NEW c \in Conns, Chain(c) PROVE [Next]_vars
  BY <1>5 DEF Chain
<1>6. ASSUME NEW c \in Conns, LibraryCall(c) PROVE [Next]_vars
  <2>1. parser[c].msg \in Msgs
    <3>1. parser[c].msg \in Source /\ at[c] = "handler"
      BY <1>6 DEF LibraryCall, InHandler, ServerInv, SessionInv, StreamInv, TypeOK, Parser
    <3>2. parser[c].msg # 0
      BY <3>1 DEF ServerInv, Numbered
    <3> QED BY <3>1, <3>2, BoundsAssumption DEF Source, Msgs
  <2>2. Make(Head(job.todo), c, parser[c].msg) => Application(c, parser[c].msg)
    BY DEF Make, Application
  <2>3. Make(Head(job.todo), c, parser[c].msg) \/ UNCHANGED vars
    BY <1>6 DEF LibraryCall
  <2> QED BY <2>1, <2>2, <2>3 DEF Next
<1>7. ASSUME NEW c \in Conns, Return(c) PROVE [Next]_vars
  BY <1>7 DEF Return, Next, Execute
<1>8. ASSUME NEW c \in Conns, NEW k \in Msgs, ApplicationCall(c, k) PROVE [Next]_vars
  BY <1>8 DEF ApplicationCall, Next
<1> QED
  BY <1>1, <1>2, <1>3, <1>4, <1>5, <1>6, <1>7, <1>8 DEF ConnectNext

\* The connect interface is an application of the server like any other: all
\* that was proved of EvwebServer holds of a server that it handles.
THEOREM ConnectIsServer == ConnectSpec => Spec
<1>1. ConnectInit => Init /\ ServerInv
  BY ServerInvInit DEF ConnectInit
<1>2. ConnectSpec => []ServerInv
  BY <1>1, StepIsServers, ServerInvStep, PTL DEF ConnectSpec
<1> QED BY <1>1, <1>2, StepIsServers, PTL DEF ConnectSpec, Spec

LEMMA StepIsIfaces == [ConnectNext]_connectVars => [Iface!Next]_(Iface!vars)
<1> SUFFICES ASSUME [ConnectNext]_connectVars PROVE Iface!Next \/ UNCHANGED iface
  BY DEF iface, Iface!vars
<1>1. CASE UNCHANGED connectVars
  BY <1>1 DEF connectVars
<1>2. CASE Registering \/ Destroying
  BY <1>2 DEF Registering, Destroying, Iface!Next
<1>3. CASE ServerStep
  BY <1>3 DEF ServerStep
<1>4. ASSUME NEW c \in Conns, Enter(c) PROVE Iface!Next
  BY <1>4 DEF Enter, Iface!Next
<1>5. ASSUME NEW c \in Conns, Chain(c) PROVE Iface!Next
  BY <1>5 DEF Chain, Iface!Next
<1>6. ASSUME NEW c \in Conns, LibraryCall(c) \/ Return(c) PROVE UNCHANGED iface
  BY <1>6 DEF LibraryCall, Return
<1>7. ASSUME NEW c \in Conns, NEW k \in Msgs, ApplicationCall(c, k) PROVE UNCHANGED iface
  BY <1>7 DEF ApplicationCall
<1> QED BY <1>1, <1>2, <1>3, <1>4, <1>5, <1>6, <1>7 DEF ConnectNext

\* The server works the table as ConnectIface says: the calls that follow a
\* decision, and the rest of the server, leave the table alone.
THEOREM ConnectIsIface == ConnectSpec => Iface!Spec
<1>1. ConnectInit => Iface!Init
  BY DEF ConnectInit
<1> QED BY <1>1, StepIsIfaces, PTL DEF ConnectSpec, Iface!Spec

-----------------------------------------------------------------------------
(***************************************************************************)
(* A request in its handler, until the application answers it: how far the *)
(* library is with what it decided.                                        *)
(***************************************************************************)

\* Nothing is sent, and the stream is as the handler found it.
Untold(c) == Responses(c, parser[c].msg) = {}
Fresh(c) == Untold(c) /\ (job.open => ~Ended(stream[c]))

\* One response is sent.
Told(c) ==
  /\ \A i, j \in Responses(c, parser[c].msg) : i = j
  /\ job.open => ~Untold(c)
  /\ job.open /\ serving.outcome # "head" => Ended(stream[c]) \/ stream[c].endOnDrain

HasStatus(c) == response[c].status # 0

Undecided(c) ==
  /\ serving.outcome \in {"pending", "no path", "kept"}
  /\ job.todo = <<>>
  /\ Fresh(c)

Unreadable(c) ==
  /\ serving.outcome = "unreadable"
  /\ job.todo \in {UnreadableCalls, <<"set_status">>, <<>>}
  /\ Untold(c)

\* The status is still to be set, or it is set.
Before(c) ==
  /\ \/ serving.outcome = "file" /\ job.todo = FileCalls
     \/ serving.outcome = "head" /\ job.todo = HeadCalls
     \/ serving.outcome = "not found" /\ job.todo = NotFoundCalls
  /\ Fresh(c)

Between(c) ==
  /\ \/ serving.outcome = "file" /\ job.todo \in {<<"set_body", "end">>, <<"end">>}
     \/ serving.outcome = "head" /\ job.todo = <<"send">>
     \/ serving.outcome = "not found" /\ job.todo = <<"end">>
  /\ Fresh(c)
  /\ HasStatus(c)

Behind(c) ==
  /\ serving.outcome \in {"file", "head", "not found"}
  /\ job.todo = <<>>
  /\ Told(c)

Progress(c) == Undecided(c) \/ Unreadable(c) \/ Before(c) \/ Between(c) \/ Behind(c)

\* serving is a record with these fields.
ServingShape ==
  \E m, p, i, b, called, o :
    serving = [method |-> m, path |-> p, i |-> i, block |-> b, called |-> called, outcome |-> o]

JobShape == \E todo, open, answered : job = [todo |-> todo, open |-> open, answered |-> answered]

JobInv ==
  /\ ServingShape
  /\ JobShape
  /\ \A c \in Conns : at[c] = "handler" /\ ~job.answered => Progress(c)

LEMMA ShapeStep == ServingShape /\ [Iface!Next]_(Iface!vars) => ServingShape'
<1> SUFFICES ASSUME ServingShape, Iface!Next, serving' # serving PROVE ServingShape'
  BY DEF ServingShape, Iface!vars
<1>1. PICK m, p, i, b, called, o :
        serving = [method |-> m, path |-> p, i |-> i, block |-> b, called |-> called, outcome |-> o]
  BY DEF ServingShape
<1>2. ASSUME NEW m2, NEW p2, Iface!Request(m2, p2) PROVE ServingShape'
  <2>1. serving' = [method |-> m2, path |-> p2, i |-> 0, block |-> table.block, called |-> <<>>,
                    outcome |-> IF p2 = Iface!NoPath THEN "no path" ELSE "pending"]
    BY <1>2 DEF Iface!Request, Iface!NoServing
  <2> QED BY <2>1 DEF ServingShape
<1>3. ASSUME NEW o2, Iface!Pass(o2) PROVE ServingShape'
  <2>1. serving' = [method |-> m, path |-> p, i |-> serving.i + 1, block |-> b,
                    called |-> Append(serving.called, Iface!Here), outcome |-> o2]
    BY <1>1, <1>3 DEF Iface!Pass
  <2> QED BY <2>1 DEF ServingShape
<1>4. CASE Iface!Skip
  <2>1. serving' = [method |-> m, path |-> p, i |-> serving.i + 1, block |-> b,
                    called |-> called, outcome |-> o]
    BY <1>1, <1>4 DEF Iface!Skip
  <2> QED BY <2>1 DEF ServingShape
<1>5. CASE Iface!NotFound
  <2>1. serving' = [method |-> m, path |-> p, i |-> i, block |-> b,
                    called |-> called, outcome |-> "not found"]
    BY <1>1, <1>5 DEF Iface!NotFound
  <2> QED BY <2>1 DEF ServingShape
<1>6. CASE Iface!CallApplication
  BY <1>3, <1>6 DEF Iface!CallApplication
<1> QED
  BY <1>2, <1>3, <1>4, <1>5, <1>6
     DEF Iface!Next, Iface!AddFunction, Iface!AddStatic, Iface!AddRouter, Iface!Register,
         Iface!Destroy, Iface!InitIface, Iface!Crash, Iface!FileMissing, Iface!FileHead,
         Iface!FileUnreadable, Iface!FileServed

LEMMA JobStep ==
  ASSUME JobShape, [ConnectNext]_connectVars
  PROVE  /\ JobShape'
         /\ \A c \in Conns : LibraryCall(c) =>
              /\ job'.todo = Tail(job.todo)
              /\ job'.open = job.open /\ job'.answered = job.answered
         /\ \A calls : Decide(calls) =>
              /\ job'.todo = calls
              /\ job'.open = job.open /\ job'.answered = job.answered
         /\ \A c \in Conns, k \in Msgs : ApplicationCall(c, k) =>
              /\ job'.todo = job.todo /\ job'.open = job.open
              /\ ~job'.answered => /\ ~job.answered
                                  /\ stream' = stream /\ dialogue' = dialogue
         /\ \A c \in Conns : Enter(c) => job'.todo = <<>> /\ job'.open = ~Ended(stream[c])
<1>1. PICK todo, open, answered :
        job = [todo |-> todo, open |-> open, answered |-> answered]
  BY DEF JobShape
<1>2. ASSUME NEW calls, job' = [job EXCEPT !.todo = calls]
      PROVE  job' = [todo |-> calls, open |-> open, answered |-> answered]
  BY <1>1, <1>2
<1>3. ASSUME NEW new, job' = [job EXCEPT !.answered = new]
      PROVE  job' = [todo |-> todo, open |-> open, answered |-> new]
  BY <1>1, <1>3
<1>4. ASSUME NEW c \in Conns, LibraryCall(c)
      PROVE  job' = [todo |-> Tail(job.todo), open |-> open, answered |-> answered]
  BY <1>2, <1>4 DEF LibraryCall
<1>5. ASSUME NEW calls, Decide(calls)
      PROVE  job' = [todo |-> calls, open |-> open, answered |-> answered]
  BY <1>2, <1>5 DEF Decide
<1>6. ASSUME NEW c \in Conns, NEW k \in Msgs, ApplicationCall(c, k)
      PROVE  \E new : /\ job' = [todo |-> todo, open |-> open, answered |-> new]
                      /\ ~new => ~answered /\ stream' = stream /\ dialogue' = dialogue
  <2> DEFINE new == job.answered \/ stream' # stream \/ dialogue' # dialogue
  <2>1. job' = [job EXCEPT !.answered = new]
    BY <1>6 DEF ApplicationCall
  <2>2. job' = [todo |-> todo, open |-> open, answered |-> new]
    <3> HIDE DEF new
    <3> QED BY <1>3, <2>1
  <2>3. job.answered = answered
    BY <1>1
  <2>4. ~new => ~answered /\ stream' = stream /\ dialogue' = dialogue
    BY <2>3, Zenon
  <2> QED BY <2>2, <2>4, Zenon
<1>7. ASSUME NEW c \in Conns, Enter(c)
      PROVE  job' = [todo |-> <<>>, open |-> ~Ended(stream[c]), answered |-> FALSE]
  BY <1>7, Zenon DEF Enter, NewJob
<1>8. JobShape'
  <2>1. CASE UNCHANGED job
    BY <1>1, <2>1 DEF JobShape
  <2>2. ASSUME NEW c \in Conns, LibraryCall(c) PROVE JobShape'
    BY <1>4, <2>2, Zenon DEF JobShape
  <2>3. ASSUME NEW c \in Conns, Enter(c) PROVE JobShape'
    BY <1>7, <2>3, Zenon DEF JobShape
  <2>4. ASSUME NEW c \in Conns, Chain(c) PROVE JobShape'
    BY <1>5, <2>1, <2>4, Zenon DEF JobShape, Chain
  <2>5. ASSUME NEW c \in Conns, NEW k \in Msgs, ApplicationCall(c, k) PROVE JobShape'
    BY <1>6, <2>5, Zenon DEF JobShape
  <2> QED
    BY <2>1, <2>2, <2>3, <2>4, <2>5
       DEF ConnectNext, connectVars, Registering, Destroying, ServerStep, Return
<1> QED BY <1>1, <1>4, <1>5, <1>6, <1>7, <1>8

-----------------------------------------------------------------------------
(***************************************************************************)
(* What may happen while a handler runs.                                   *)
(***************************************************************************)

LEMMA Entering ==
  ASSUME TypeOK, [ConnectNext]_connectVars, NEW c \in Conns,
         at[c] # "handler", at'[c] = "handler"
  PROVE  Enter(c)
<1>1. ASSUME NEW d \in Conns, Enter(d) PROVE Enter(c)
  <2>1. at' = [at EXCEPT ![d] = "handler"]
    BY <1>1 DEF Enter, BodilessComplete, BodyComplete, MessageComplete
  <2>2. c = d
    BY <2>1 DEF TypeOK
  <2> QED BY <1>1, <2>2
<1>2. CASE at' = at
  BY <1>2
<1>3. ASSUME NEW d \in Conns, NEW x \in {"idle", "parse"}, at' = [at EXCEPT ![d] = x]
      PROVE  FALSE
  BY <1>3 DEF TypeOK
<1>4. ~ServerStep
  BY <1>2, <1>3
     DEF ServerStep, StartServer, CloseServer, ServerFails, Accept, StreamCallback,
         OnStreamEnd, OnStreamTimeout, OnDrain, StreamError, OnStreamClose,
         OnStreamData, LateData, MessageBegin, HeadersComplete, BufferDone,
         ByteRefused, CallbackFails, RefuseUpgrade, Refusing
<1>5. ASSUME NEW d \in Conns, NEW k, Application(d, k) PROVE FALSE
  BY <1>2, <1>5
     DEF Application, SetResponseStatus, AddResponseHeader, ClearResponseHeaders,
         SetResponseBody, AddToResponseBody, ClearResponseBody, SendResponse,
         EndResponse, EndUnanswered, EndAnswered, StaleCall
<1>6. ASSUME NEW d \in Conns, LibraryCall(d) PROVE FALSE
  <2>1. Make(Head(job.todo), d, parser[d].msg) => Application(d, parser[d].msg)
    BY DEF Make, Application
  <2> QED BY <1>2, <1>5, <1>6, <2>1 DEF LibraryCall, vars
<1>7. ASSUME NEW d \in Conns, Return(d) PROVE FALSE
  BY <1>3, <1>7 DEF Return, HandlerReturn
<1> QED
  BY <1>1, <1>2, <1>4, <1>5, <1>6, <1>7
     DEF ConnectNext, connectVars, vars, Registering, Destroying, Chain, ApplicationCall

LEMMA Handling ==
  ASSUME Exclusive, [ConnectNext]_connectVars, NEW c \in Conns, at[c] = "handler"
  PROVE  \/ UNCHANGED <<at, conn, serving, job>>
         \/ Chain(c) \/ LibraryCall(c) \/ Return(c)
         \/ \E d \in Conns, k \in Msgs : ApplicationCall(d, k)
<1>1. ~Idle
  BY DEF Idle
<1>2. \A d \in Conns : at[d] # "idle" => d = c
  BY DEF Exclusive
<1>3. CASE UNCHANGED connectVars
  BY <1>3 DEF connectVars, vars, iface, conn
<1>4. CASE Registering
  BY <1>4 DEF Registering, vars, conn, Iface!AddFunction, Iface!AddStatic, Iface!AddRouter,
              Iface!Register
<1>5. ~Destroying
  BY <1>1 DEF Destroying
<1>6. CASE ServerStep
  <2>1. StartServer \/ CloseServer
    BY <1>1, <1>2, <1>6
       DEF ServerStep, ServerFails, Accept, StreamCallback, OnStreamEnd, OnStreamTimeout,
           OnDrain, StreamError, OnStreamClose, OnStreamData, LateData, Callback,
           MessageBegin, HeadersComplete, BufferDone, ByteRefused, CallbackFails,
           RefuseUpgrade, Parsing
  <2> QED BY <1>6, <2>1 DEF ServerStep, StartServer, CloseServer, iface
<1>7. ASSUME NEW d \in Conns PROVE ~Enter(d)
  BY <1>2 DEF Enter, BodilessComplete, BodyComplete, Parsing
<1>8. ASSUME NEW d \in Conns, Chain(d) \/ LibraryCall(d) \/ Return(d)
      PROVE  d = c
  BY <1>2, <1>8 DEF Chain, LibraryCall, Return, HandlerReturn, InHandler
<1> QED
  BY <1>3, <1>4, <1>5, <1>6, <1>7, <1>8 DEF ConnectNext

-----------------------------------------------------------------------------
(***************************************************************************)
(* A handler makes progress.                                               *)
(***************************************************************************)

LEMMA OutcomeStep ==
  ASSUME ServingShape
  PROVE  /\ \A o : Iface!Pass(o) => serving'.outcome = o
         /\ Iface!Skip => serving'.outcome = serving.outcome
         /\ Iface!NotFound => serving'.outcome = "not found"
<1>1. PICK m, p, i, b, called, o :
        serving = [method |-> m, path |-> p, i |-> i, block |-> b, called |-> called, outcome |-> o]
  BY DEF ServingShape
<1> QED BY <1>1 DEF Iface!Pass, Iface!Skip, Iface!NotFound

\* Only the handler's own variables matter when the server does not move.
LEMMA SameServer ==
  ASSUME NEW c \in Conns, stream'[c] = stream[c], dialogue'[c] = dialogue[c],
         parser'[c] = parser[c], job'.open = job.open
  PROVE  /\ Fresh(c)' <=> Fresh(c)
         /\ Untold(c)' <=> Untold(c)
         /\ serving'.outcome = serving.outcome => (Told(c)' <=> Told(c))
BY DEF Fresh, Untold, Told, Responses

LEMMA ChainStep ==
  ASSUME ServingShape, JobShape, [ConnectNext]_connectVars, NEW c \in Conns, Chain(c),
         Progress(c)
  PROVE  Progress(c)'
<1>1. serving.outcome = "pending" /\ job.todo = <<>> /\ UNCHANGED vars
  BY DEF Chain, Iface!Skip, Iface!CallApplication, Iface!FileMissing, Iface!FileServed,
         Iface!FileHead, Iface!FileUnreadable, Iface!NotFound, Iface!Static,
         Iface!Reading, Iface!Chain
<1>2. Fresh(c)
  BY <1>1 DEF Progress, Undecided, Unreadable, Before, Between, Behind
<1>3. stream' = stream /\ dialogue' = dialogue /\ parser' = parser
  BY <1>1 DEF vars
<1>4. CASE (Iface!Skip \/ Iface!CallApplication \/ Iface!FileMissing) /\ UNCHANGED job
  <2>1. serving'.outcome \in {"pending", "kept"}
    BY <1>1, <1>4, OutcomeStep DEF Iface!CallApplication, Iface!FileMissing
  <2>2. Fresh(c)'
    BY <1>2, <1>3, <1>4, SameServer
  <2> QED BY <1>1, <1>4, <2>1, <2>2 DEF Progress, Undecided
<1>5. ASSUME NEW calls, NEW o, Decide(calls), serving'.outcome = o
      PROVE  /\ serving'.outcome = o /\ job'.todo = calls
             /\ Fresh(c)' /\ Untold(c)'
  <2>1. job'.todo = calls /\ job'.open = job.open
    BY <1>5, JobStep
  <2> QED BY <1>2, <1>3, <1>5, <2>1, SameServer DEF Fresh
<1>6. CASE Iface!FileServed /\ Decide(FileCalls)
  <2>1. serving'.outcome = "file"
    BY <1>6, OutcomeStep DEF Iface!FileServed
  <2> QED BY <1>5, <1>6, <2>1 DEF Progress, Before
<1>7. CASE Iface!FileHead /\ Decide(HeadCalls)
  <2>1. serving'.outcome = "head"
    BY <1>7, OutcomeStep DEF Iface!FileHead
  <2> QED BY <1>5, <1>7, <2>1 DEF Progress, Before
<1>8. CASE Iface!FileUnreadable /\ Decide(UnreadableCalls)
  <2>1. serving'.outcome = "unreadable"
    BY <1>8, OutcomeStep DEF Iface!FileUnreadable
  <2> QED BY <1>5, <1>8, <2>1 DEF Progress, Unreadable
<1>9. CASE Iface!NotFound /\ Decide(NotFoundCalls)
  <2>1. serving'.outcome = "not found"
    BY <1>9, OutcomeStep
  <2> QED BY <1>5, <1>9, <2>1 DEF Progress, Before
<1> QED BY <1>4, <1>6, <1>7, <1>8, <1>9 DEF Chain

\* A response to the request in the handler is said.
LEMMA FirstResponse ==
  ASSUME TypeOK, NEW c \in Conns, Untold(c), parser' = parser,
         NEW of, NEW last, Say(c, "response", parser[c].msg, of, last)
  PROVE  /\ \A i, j \in Responses(c, parser[c].msg)' : i = j
         /\ ~Untold(c)'
<1> DEFINE e == [op |-> "response", msg |-> parser[c].msg, of |-> of, last |-> last]
<1>1. dialogue[c] \in Seq(Event)
  BY DEF TypeOK
<1>2. dialogue'[c] = Append(dialogue[c], e)
  BY DEF Say, TypeOK
<1>3. e.op = "response" /\ e.msg = parser[c].msg
  OBVIOUS
<1>4. ASSUME NEW t, t = Append(dialogue[c], e)
      PROVE  /\ Len(t) = Len(dialogue[c]) + 1 /\ Len(dialogue[c]) \in Nat
             /\ t[Len(t)] = e
             /\ \A i \in 1..Len(t) : i # Len(t) =>
                  i \in 1..Len(dialogue[c]) /\ t[i] = dialogue[c][i]
  <2> HIDE DEF e
  <2> QED BY <1>1, <1>4
<1>5. \A i \in 1..Len(dialogue[c]) :
        ~(dialogue[c][i].op = "response" /\ dialogue[c][i].msg = parser[c].msg)
  BY DEF Untold, Responses
<1>6. Responses(c, parser[c].msg)' = {Len(dialogue'[c])}
  <2> HIDE DEF e
  <2> QED BY <1>2, <1>3, <1>4, <1>5 DEF Responses
<1> QED BY <1>6 DEF Untold

LEMMA StatusIsSet ==
  ASSUME TypeOK, NEW c \in Conns, NEW k, k # 0
  PROVE  /\ SetResponseStatus(c, k) => HasStatus(c)'
         /\ SetResponseBody(c, k) /\ HasStatus(c) => HasStatus(c)'
<1>1. response[c] \in Response
  BY DEF TypeOK
<1>2. ASSUME NEW r, response' = [response EXCEPT ![c] = r] PROVE response'[c] = r
  BY <1>2 DEF TypeOK
<1>3. ASSUME NEW bytes \in BOOLEAN, NEW typed \in BOOLEAN
      PROVE  AddBody(ClearBody(response[c]), k, bytes, typed).status = response[c].status
  BY <1>1 DEF Response, AddBody, ClearBody
<1>4. SetResponseStatus(c, k) => HasStatus(c)'
  <2> SUFFICES ASSUME SetResponseStatus(c, k) PROVE response'[c].status = k
    BY DEF HasStatus
  <2>1. PICK message :
          response' = [response EXCEPT ![c].status = k, ![c].message = message]
    BY DEF SetResponseStatus
  <2> QED BY <1>1, <2>1 DEF TypeOK, Response
<1>5. SetResponseBody(c, k) /\ HasStatus(c) => HasStatus(c)'
  BY <1>2, <1>3 DEF SetResponseBody, HasStatus
<1> QED BY <1>4, <1>5

LEMMA Tuples ==
  /\ \A a : Head(<<a>>) = a /\ Tail(<<a>>) = <<>>
  /\ \A a, b : Head(<<a, b>>) = a /\ Tail(<<a, b>>) = <<b>>
  /\ \A a, b, d : Head(<<a, b, d>>) = a /\ Tail(<<a, b, d>>) = <<b, d>>
<1>1. \A a : Head(<<a>>) = a /\ Tail(<<a>>) = <<>>
  OBVIOUS
<1>2. \A a, b : Head(<<a, b>>) = a /\ Tail(<<a, b>>) = <<b>>
  OBVIOUS
<1>3. \A a, b, d : Head(<<a, b, d>>) = a /\ Tail(<<a, b, d>>) = <<b, d>>
  OBVIOUS
<1> QED BY <1>1, <1>2, <1>3

\* The calls that send nothing.
LEMMA QuietCall ==
  ASSUME TypeOK, Numbered, NEW c \in Conns, LibraryCall(c),
         Head(job.todo) \in {"set_status", "set_body"}
  PROVE  /\ stream' = stream /\ dialogue' = dialogue /\ parser' = parser
         /\ Head(job.todo) = "set_status" \/ HasStatus(c) => HasStatus(c)'
<1>1. parser[c].msg # 0
  BY DEF LibraryCall, InHandler, Numbered
<1>2. CASE Head(job.todo) = "set_status"
  <2>1. SetResponseStatus(c, parser[c].msg)
    BY <1>2 DEF LibraryCall, Make
  <2> QED BY <1>1, <2>1, StatusIsSet DEF SetResponseStatus
<1>3. CASE Head(job.todo) = "set_body"
  <2>1. SetResponseBody(c, parser[c].msg) \/ UNCHANGED vars
    BY <1>3 DEF LibraryCall, Make
  <2>2. CASE SetResponseBody(c, parser[c].msg)
    BY <1>1, <1>3, <2>2, StatusIsSet DEF SetResponseBody
  <2>3. CASE UNCHANGED vars
    BY <1>3, <2>3 DEF vars, HasStatus
  <2> QED BY <2>1, <2>2, <2>3
<1> QED BY <1>2, <1>3

\* Those that send the response.  end_response leaves no stream open, unless
\* it is to end on drain.
LEMMA AnsweringCall ==
  ASSUME TypeOK, LifeCycle, NEW c \in Conns, LibraryCall(c), Fresh(c), HasStatus(c),
         job'.open = job.open, serving'.outcome = serving.outcome,
         \/ Head(job.todo) = "end"
         \/ Head(job.todo) = "send" /\ serving.outcome = "head"
  PROVE  Told(c)'
<1>1. CASE UNCHANGED vars /\ Ended(stream[c])
  <2>1. ~job.open /\ stream' = stream /\ dialogue' = dialogue /\ parser' = parser
    BY <1>1 DEF Fresh, vars
  <2> QED BY <2>1, SameServer DEF Fresh, Untold, Told
<1>2. CASE SendResponse(c, parser[c].msg) /\ serving.outcome = "head"
  <2>1. parser' = parser /\ Say(c, "response", parser[c].msg, Sources(response[c]), FALSE)
    BY <1>2 DEF SendResponse
  <2> QED BY <1>2, <2>1, FirstResponse DEF Fresh, Told
<1>3. ~EndUnanswered(c, parser[c].msg)
  BY DEF EndUnanswered, HasStatus
<1>4. CASE EndAnswered(c, parser[c].msg)
  <2> DEFINE r == AddHeader(response[c], "Connection", parser[c].msg)
  <2>1. parser' = parser /\ Say(c, "response", parser[c].msg, Sources(r), TRUE)
    BY <1>4 DEF EndAnswered
  <2>2. stream[c] \in Stream /\ stream[c].ready # "ABSENT" /\ r \in Response
    <3>1. /\ Live(c) /\ parser[c].msg \in Source /\ response[c] \in Response
          /\ stream[c] \in Stream
      BY <1>4 DEF EndAnswered, Calling, TypeOK, Parser
    <3>2. r \in Response
      BY <3>1 DEF AddHeader, Response, Fields
    <3> QED BY <3>1, <3>2 DEF Live, LifeCycle
  <2>3. PICK s \in SendOutcomes(stream[c], r) :
          \/ s.ready = "CLOSED" /\ stream' = [stream EXCEPT ![c] = s]
          \/ stream' = [stream EXCEPT ![c] = EvnEnd(s)]
          \/ stream' = [stream EXCEPT ![c] = EndOnDrain(s)]
    BY <1>4 DEF EndAnswered
  <2>4. s \in Stream /\ s.ready # "ABSENT"
    BY <2>2, StreamTypes, KeptByStream DEF Kept
  <2>5. Ended(EvnEnd(s)) /\ EndOnDrain(s).endOnDrain
    BY <2>4, KeptByStream DEF Stream, EndOnDrain
  <2>6. Ended(stream'[c]) \/ stream'[c].endOnDrain
    BY <2>3, <2>5 DEF TypeOK, Ended
  <2> QED BY <2>1, <2>6, FirstResponse DEF Fresh, Told
<1> QED BY <1>1, <1>2, <1>3, <1>4 DEF LibraryCall, Make, EndResponse

LEMMA LibraryStep ==
  ASSUME ServerInv, JobInv, [ConnectNext]_connectVars, NEW c \in Conns, LibraryCall(c),
         Progress(c)
  PROVE  Progress(c)'
<1>1. TypeOK /\ LifeCycle /\ Numbered
  BY DEF ServerInv, SessionInv, StreamInv
<1>2. /\ job.todo # <<>> /\ job'.todo = Tail(job.todo) /\ job'.open = job.open
      /\ serving' = serving
  BY JobStep DEF JobInv, LibraryCall, iface
<1>3. CASE Unreadable(c)
  <2>1. /\ Head(job.todo) = "set_status"
        /\ Tail(job.todo) \in {<<"set_status">>, <<>>}
    BY <1>2, <1>3, Tuples, Zenon DEF Unreadable, UnreadableCalls
  <2>2. Untold(c)'
    BY <1>1, <1>2, <1>3, <2>1, QuietCall, SameServer DEF Unreadable
  <2> QED BY <1>2, <1>3, <2>1, <2>2 DEF Progress, Unreadable
<1>4. CASE Before(c)
  <2>1. /\ Head(job.todo) = "set_status"
        /\ serving.outcome = "file" => Tail(job.todo) = <<"set_body", "end">>
        /\ serving.outcome = "head" => Tail(job.todo) = <<"send">>
        /\ serving.outcome = "not found" => Tail(job.todo) = <<"end">>
    <3>1. \/ serving.outcome = "file" /\ job.todo = <<"set_status", "set_body", "end">>
          \/ serving.outcome = "head" /\ job.todo = <<"set_status", "send">>
          \/ serving.outcome = "not found" /\ job.todo = <<"set_status", "end">>
      BY <1>4 DEF Before, FileCalls, HeadCalls, NotFoundCalls
    <3>2. /\ Head(<<"set_status", "set_body", "end">>) = "set_status"
          /\ Tail(<<"set_status", "set_body", "end">>) = <<"set_body", "end">>
          /\ Head(<<"set_status", "send">>) = "set_status"
          /\ Tail(<<"set_status", "send">>) = <<"send">>
          /\ Head(<<"set_status", "end">>) = "set_status"
          /\ Tail(<<"set_status", "end">>) = <<"end">>
      BY Tuples, Zenon
    <3> QED BY <3>1, <3>2
  <2>2. Fresh(c)' /\ HasStatus(c)'
    BY <1>1, <1>2, <1>4, <2>1, QuietCall, SameServer DEF Before
  <2>3. Between(c)'
    BY <1>2, <1>4, <2>1, <2>2 DEF Before, Between
  <2> QED BY <2>3 DEF Progress
<1>5. CASE Between(c)
  <2>1. CASE serving.outcome = "file" /\ job.todo = <<"set_body", "end">>
    <3>1. Head(job.todo) = "set_body" /\ Tail(job.todo) = <<"end">>
      BY <2>1
    <3>2. Fresh(c)' /\ HasStatus(c)'
      BY <1>1, <1>2, <1>5, <3>1, QuietCall, SameServer DEF Between
    <3> QED BY <1>2, <2>1, <3>1, <3>2 DEF Progress, Between
  <2>2. ASSUME NEW x, job.todo = <<x>>, x = "end" \/ (x = "send" /\ serving.outcome = "head")
        PROVE  Progress(c)'
    <3>1. Head(job.todo) = x /\ Tail(job.todo) = <<>>
      BY <2>2, Tuples, Zenon
    <3>2. Told(c)'
      BY <1>1, <1>2, <1>5, <2>2, <3>1, AnsweringCall DEF Between
    <3> QED BY <1>2, <1>5, <3>1, <3>2 DEF Progress, Behind, Between
  <2> QED BY <1>5, <2>1, <2>2, Zenon DEF Between
<1> QED BY <1>2, <1>3, <1>4, <1>5 DEF Progress, Undecided, Behind

LEMMA ProgressStep ==
  ASSUME ServerInv, JobInv, [ConnectNext]_connectVars, NEW c \in Conns,
         at'[c] = "handler", ~job'.answered
  PROVE  Progress(c)'
<1>1. TypeOK /\ Exclusive /\ Ordered
  BY DEF ServerInv, SessionInv, StreamInv
<1>2. ServingShape /\ JobShape /\ (at[c] = "handler" /\ ~job.answered => Progress(c))
  BY DEF JobInv
<1>3. CASE at[c] # "handler"
  <2>1. Enter(c)
    BY <1>1, <1>3, Entering
  <2>2. job'.todo = <<>> /\ job'.open = ~Ended(stream[c])
    BY <1>2, <2>1, JobStep
  <2>3. serving'.outcome \in {"pending", "no path"}
    <3>1. PICK m \in Iface!Methods, p \in Paths \union {Iface!NoPath} : Iface!Request(m, p)
      BY <2>1 DEF Enter
    <3> QED BY <3>1 DEF Iface!Request, Iface!NoServing
  <2>4. PICK close \in BOOLEAN, upgrade \in BOOLEAN : MessageComplete(c, close, upgrade)
    BY <2>1 DEF Enter, BodilessComplete, BodyComplete
  <2>5. /\ parser[c].phase \in {"head", "body"}
        /\ parser'[c].msg = parser[c].msg
        /\ stream' = stream
    <3>1. parser[c].phase \in {"head", "body"}
      BY <2>1 DEF Enter, BodilessComplete, BodyComplete
    <3>2. parser'[c].msg = parser[c].msg
      BY <1>1, <2>4 DEF MessageComplete, TypeOK, Parser
    <3> QED BY <2>4, <3>1, <3>2 DEF MessageComplete
  <2>6. Untold(c)'
    <3> DEFINE e == [op |-> "handle", msg |-> parser[c].msg, of |-> {}, last |-> close \/ upgrade]
    <3>1. /\ dialogue[c] \in Seq(Event)
          /\ \A i \in 1..Len(dialogue[c]) :
               dialogue[c][i].msg < parser[c].msg /\ dialogue[c][i].msg \in Nat
          /\ parser[c].msg \in Nat
      BY <1>1, <2>5, Numbers DEF Ordered, OrderedConn
    <3>2. dialogue'[c] = Append(dialogue[c], e)
      BY <1>1, <2>4, Zenon DEF MessageComplete, Say, TypeOK
    <3>3. e.op # "response"
      BY Zenon
    <3>4. ASSUME NEW t, t = Append(dialogue[c], e)
          PROVE  \A i \in 1..Len(t) :
                   t[i] = e \/ (i \in 1..Len(dialogue[c]) /\ t[i] = dialogue[c][i])
      <4> HIDE DEF e
      <4> QED BY <3>1, <3>4
    <3>5. \A i \in 1..Len(dialogue'[c]) :
            ~(dialogue'[c][i].op = "response" /\ dialogue'[c][i].msg = parser[c].msg)
      <4> HIDE DEF e
      <4> QED BY <3>1, <3>2, <3>3, <3>4
    <3> QED BY <2>5, <3>5 DEF Untold, Responses
  <2>7. Fresh(c)'
    BY <2>2, <2>5, <2>6 DEF Fresh
  <2> QED BY <2>2, <2>3, <2>7 DEF Progress, Undecided
<1>4. CASE at[c] = "handler" /\ UNCHANGED <<at, conn, serving, job>>
  <2>1. stream' = stream /\ dialogue' = dialogue /\ parser' = parser /\ response' = response
    BY <1>4 DEF conn
  <2>2. Progress(c)
    BY <1>2, <1>4
  <2> QED
    BY <1>4, <2>1, <2>2, SameServer
       DEF Progress, Undecided, Unreadable, Before, Between, Behind, HasStatus
<1>5. CASE at[c] = "handler" /\ Chain(c)
  <2>1. ~job.answered
    BY <1>2, <1>5, JobStep DEF Chain
  <2> QED BY <1>2, <1>5, <2>1, ChainStep
<1>6. CASE at[c] = "handler" /\ LibraryCall(c)
  <2>1. ~job.answered
    BY <1>2, <1>6, JobStep
  <2> QED BY <1>2, <1>6, <2>1, LibraryStep
<1>7. ~Return(c)
  BY <1>1 DEF Return, HandlerReturn, TypeOK
<1>8. ASSUME at[c] = "handler", NEW d \in Conns, NEW k \in Msgs, ApplicationCall(d, k)
      PROVE  Progress(c)'
  <2>1. /\ job'.todo = job.todo /\ job'.open = job.open /\ ~job.answered
        /\ stream' = stream /\ dialogue' = dialogue
    BY <1>2, <1>8, JobStep
  <2>2. job.todo = <<>> /\ serving' = serving
    BY <1>8 DEF ApplicationCall, Idle, InCallback, iface
  <2>3. parser' = parser
    BY <1>8
       DEF ApplicationCall, Application, SetResponseStatus, AddResponseHeader,
           ClearResponseHeaders, SetResponseBody, AddToResponseBody, ClearResponseBody,
           SendResponse, EndResponse, EndUnanswered, EndAnswered, StaleCall
  <2>4. Progress(c)
    BY <1>2, <1>8, <2>1
  <2>5. CASE Undecided(c)
    BY <2>1, <2>2, <2>3, <2>5, SameServer DEF Progress, Undecided
  <2>6. CASE Unreadable(c)
    BY <2>1, <2>2, <2>3, <2>6, SameServer DEF Progress, Unreadable
  <2>7. CASE Behind(c)
    BY <2>1, <2>2, <2>3, <2>7, SameServer DEF Progress, Behind
  <2>8. ~Before(c) /\ ~Between(c)
    BY <2>2 DEF Before, Between, FileCalls, HeadCalls, NotFoundCalls
  <2> QED BY <2>4, <2>5, <2>6, <2>7, <2>8 DEF Progress
<1> QED BY <1>1, <1>3, <1>4, <1>5, <1>6, <1>7, <1>8, Handling

LEMMA JobInvInit == ConnectInit => JobInv
<1> SUFFICES ASSUME ConnectInit PROVE JobInv
  OBVIOUS
<1>1. ServingShape
  BY DEF ConnectInit, Iface!Init, Iface!NoServing, ServingShape
<1>2. JobShape
  BY Zenon DEF ConnectInit, NewJob, JobShape
<1>3. \A c \in Conns : at[c] # "handler"
  BY DEF ConnectInit, Init
<1> QED BY <1>1, <1>2, <1>3 DEF JobInv

LEMMA JobInvStep == ServerInv /\ JobInv /\ [ConnectNext]_connectVars => JobInv'
BY ShapeStep, JobStep, ProgressStep, StepIsIfaces DEF JobInv

LEMMA ConnectInv == ConnectSpec => [](ServerInv /\ JobInv)
<1>1. ConnectInit => ServerInv /\ JobInv
  BY ServerInvInit, JobInvInit DEF ConnectInit
<1>2. ServerInv /\ JobInv /\ [ConnectNext]_connectVars => (ServerInv /\ JobInv)'
  BY StepIsServers, ServerInvStep, JobInvStep
<1> QED BY <1>1, <1>2, PTL DEF ConnectSpec

-----------------------------------------------------------------------------
\* A request that no callback of the application answered gets one response at
\* most, whatever the table holds and whatever the writes do.
THEOREM OneAnswerHolds == ConnectSpec => []OneAnswer
<1>1. JobInv => OneAnswer
  <2> SUFFICES ASSUME JobInv, NEW c \in Conns, at[c] = "handler", ~job.answered
               PROVE  \A i, j \in Responses(c, parser[c].msg) : i = j
    BY DEF OneAnswer
  <2>1. Progress(c)
    BY DEF JobInv
  <2> QED
    BY <2>1 DEF Progress, Undecided, Unreadable, Before, Between, Behind, Fresh, Untold, Told
<1> QED BY <1>1, ConnectInv, PTL

\* When the handler of a request returns, its peer has the response that the
\* library decided on, or none if it decided on none.
THEOREM AnsweredAsDecidedHolds == ConnectSpec => AnsweredAsDecided
<1> DEFINE A == \A c \in Conns :
        at[c] = "handler" /\ at'[c] = "parse" /\ job.open /\ ~job.answered =>
          /\ Responses(c, parser[c].msg) # {} <=> serving.outcome \in {"file", "head", "not found"}
          /\ serving.outcome \in {"file", "not found"} => Ended(stream[c]) \/ stream[c].endOnDrain
<1>1. ServerInv /\ JobInv /\ [ConnectNext]_connectVars => A
  <2> SUFFICES ASSUME ServerInv, JobInv, [ConnectNext]_connectVars, NEW c \in Conns,
                      at[c] = "handler", at'[c] = "parse", job.open, ~job.answered
               PROVE  /\ Responses(c, parser[c].msg) # {} <=> serving.outcome \in {"file", "head", "not found"}
                      /\ serving.outcome \in {"file", "not found"} => Ended(stream[c]) \/ stream[c].endOnDrain
    OBVIOUS
  <2>1. Return(c)
    <3>1. ASSUME NEW d \in Conns, NEW k, Application(d, k) PROVE at' = at
      BY <3>1
         DEF Application, SetResponseStatus, AddResponseHeader, ClearResponseHeaders,
             SetResponseBody, AddToResponseBody, ClearResponseBody, SendResponse,
             EndResponse, EndUnanswered, EndAnswered, StaleCall
    <3>2. LibraryCall(c) => at' = at
      <4>1. Make(Head(job.todo), c, parser[c].msg) => Application(c, parser[c].msg)
        BY DEF Make, Application
      <4> QED BY <3>1, <4>1 DEF LibraryCall, vars
    <3>3. Chain(c) => at' = at
      BY DEF Chain, vars
    <3> QED BY <3>1, <3>2, <3>3, Handling DEF ServerInv, ApplicationCall
  <2>2. Progress(c) /\ job.todo = <<>> /\ serving.outcome # "pending"
    BY <2>1 DEF JobInv, Return
  <2>3. ~Before(c) /\ ~Between(c)
    BY <2>2 DEF Before, Between, FileCalls, HeadCalls, NotFoundCalls
  <2> QED
    BY <2>2, <2>3 DEF Progress, Undecided, Unreadable, Behind, Fresh, Untold, Told
<1> QED BY <1>1, ConnectInv, PTL DEF ConnectSpec, AnsweredAsDecided
-----------------------------------------------------------------------------
(***************************************************************************)
(* What was proved of the table holds of the table at work.                *)
(***************************************************************************)

\* The theorems about the table, for callbacks that register nothing.
Callbacks == INSTANCE ConnectIfaceProofs WITH Reentrant <- FALSE

\* The table of those theorems is the one of the server: the same module,
\* instantiated twice.
LEMMA SameTables == Iface!Spec => Callbacks!Spec
<1>1. Iface!Init => Callbacks!Init
  BY Zenon DEF
     Iface!Init, Callbacks!Init, Iface!InitTable, Callbacks!InitTable,
     Iface!NoTable, Callbacks!NoTable, Iface!CellOf, Callbacks!CellOf,
     Iface!NoServing, Callbacks!NoServing, Iface!NULL, Callbacks!NULL,
     Iface!NoPath, Callbacks!NoPath, Iface!Methods, Callbacks!Methods
<1>2. [Iface!Next]_(Iface!vars) => [Callbacks!Next]_(Callbacks!vars)
  <2>1. Iface!Next => Callbacks!Next
    BY Zenon DEF
       Iface!Methods, Callbacks!Methods, Iface!NoPath, Callbacks!NoPath,
       Iface!NULL, Callbacks!NULL, Iface!Junk, Callbacks!Junk, Iface!Cell,
       Callbacks!Cell, Iface!CellOf, Callbacks!CellOf, Iface!Table,
       Callbacks!Table, Iface!NoTable, Callbacks!NoTable, Iface!InitTable,
       Callbacks!InitTable, Iface!MustGrow, Callbacks!MustGrow, Iface!NextUnused,
       Callbacks!NextUnused, Iface!Lost, Callbacks!Lost, Iface!Valid,
       Callbacks!Valid, Iface!Outside, Callbacks!Outside, Iface!General,
       Callbacks!General, Iface!Router, Callbacks!Router, Iface!Directory,
       Callbacks!Directory, Iface!Register, Callbacks!Register,
       Iface!AddFunction, Callbacks!AddFunction, Iface!AddRouter,
       Callbacks!AddRouter, Iface!AddStatic, Callbacks!AddStatic, Iface!Destroy,
       Callbacks!Destroy, Iface!InitIface, Callbacks!InitIface, Iface!Request,
       Callbacks!Request, Iface!Chain, Callbacks!Chain, Iface!AtEnd,
       Callbacks!AtEnd, Iface!Here, Callbacks!Here, Iface!NextCell,
       Callbacks!NextCell, Iface!Reading, Callbacks!Reading, Iface!Sound,
       Callbacks!Sound, Iface!Crash, Callbacks!Crash, Iface!Matches,
       Callbacks!Matches, Iface!Serves, Callbacks!Serves, Iface!AsksApplication,
       Callbacks!AsksApplication, Iface!Skip, Callbacks!Skip, Iface!Pass,
       Callbacks!Pass, Iface!CallApplication, Callbacks!CallApplication,
       Iface!Static, Callbacks!Static, Iface!FileMissing, Callbacks!FileMissing,
       Iface!FileHead, Callbacks!FileHead, Iface!FileUnreadable,
       Callbacks!FileUnreadable, Iface!FileServed, Callbacks!FileServed,
       Iface!NotFound, Callbacks!NotFound, Iface!Next, Callbacks!Next,
       Iface!NoServing, Callbacks!NoServing
  <2> QED BY <2>1, Zenon DEF Iface!vars, Callbacks!vars
<1> QED BY <1>1, <1>2, PTL DEF Iface!Spec, Callbacks!Spec

LEMMA TableAssumptions ==
  /\ Callbacks!SizeAssumption /\ Callbacks!RoutesAssumption
  /\ Callbacks!PathsAssumption /\ Callbacks!ReentrantAssumption
BY TableAssumption
   DEF Callbacks!SizeAssumption, Callbacks!RoutesAssumption,
       Callbacks!PathsAssumption, Callbacks!ReentrantAssumption

\* What is left to do are calls that the library makes.
JobOK == job \in Job

LEMMA Jobs ==
  ASSUME NEW todo \in Seq(LibraryCalls), NEW open \in BOOLEAN, NEW answered \in BOOLEAN
  PROVE  [todo |-> todo, open |-> open, answered |-> answered] \in Job
BY Zenon DEF Job

LEMMA LibraryTexts ==
  {FileCalls, HeadCalls, UnreadableCalls, NotFoundCalls, <<>>} \subseteq Seq(LibraryCalls)
BY DEF FileCalls, HeadCalls, UnreadableCalls, NotFoundCalls, LibraryCalls

LEMMA JobOKInit == ConnectInit => JobOK
<1>1. NewJob(FALSE) \in Job
  <2>1. ASSUME NEW b \in BOOLEAN PROVE [todo |-> <<>>, open |-> b, answered |-> b] \in Job
    BY Jobs, LibraryTexts
  <2> QED BY <2>1, Zenon DEF NewJob
<1> QED BY <1>1 DEF ConnectInit, JobOK

LEMMA JobOKStep == ASSUME JobOK, [ConnectNext]_connectVars PROVE JobOK'
<1>1. PICK todo \in Seq(LibraryCalls), open \in BOOLEAN, answered \in BOOLEAN :
        job = [todo |-> todo, open |-> open, answered |-> answered]
  BY Zenon DEF JobOK, Job
<1>2. ASSUME NEW calls \in Seq(LibraryCalls), job' = [job EXCEPT !.todo = calls] PROVE JobOK'
  <2>1. job' = [todo |-> calls, open |-> open, answered |-> answered]
    BY <1>1, <1>2
  <2> QED BY <2>1, Jobs DEF JobOK
<1>3. ASSUME UNCHANGED job PROVE JobOK'
  BY <1>3 DEF JobOK
<1>4. ASSUME NEW c \in Conns, Enter(c) PROVE JobOK'
  <2>1. ASSUME NEW b \in BOOLEAN, NEW n \in BOOLEAN
        PROVE  [todo |-> <<>>, open |-> b, answered |-> n] \in Job
    BY Jobs, LibraryTexts
  <2>2. NewJob(~Ended(stream[c])) \in Job
    BY <2>1, Zenon DEF NewJob
  <2> QED BY <1>4, <2>2 DEF Enter, JobOK
<1>5. ASSUME NEW c \in Conns, Chain(c) PROVE JobOK'
  <2>1. \/ UNCHANGED job
        \/ \E calls \in {FileCalls, HeadCalls, UnreadableCalls, NotFoundCalls} : Decide(calls)
    BY <1>5, Zenon DEF Chain
  <2> QED BY <1>2, <1>3, <2>1, LibraryTexts DEF Decide
<1>6. ASSUME NEW c \in Conns, LibraryCall(c) PROVE JobOK'
  <2>1. job.todo = todo /\ job.todo # <<>> /\ job' = [job EXCEPT !.todo = Tail(job.todo)]
    BY <1>1, <1>6 DEF LibraryCall
  <2>2. Tail(todo) \in Seq(LibraryCalls)
    BY <2>1
  <2> QED BY <1>2, <2>1, <2>2
<1>7. ASSUME NEW c \in Conns, NEW k \in Msgs, ApplicationCall(c, k) PROVE JobOK'
  <2> DEFINE more == job.answered \/ stream' # stream \/ dialogue' # dialogue
  <2>1. more \in BOOLEAN
    BY Zenon
  <2>2. job' = [job EXCEPT !.answered = more]
    BY <1>7 DEF ApplicationCall
  <2> HIDE DEF more
  <2>3. job' = [todo |-> todo, open |-> open, answered |-> more]
    BY <1>1, <2>2
  <2> QED BY <2>1, <2>3, Jobs DEF JobOK
<1> QED
  BY <1>3, <1>4, <1>5, <1>6, <1>7
     DEF ConnectNext, connectVars, Registering, Destroying, ServerStep, Return

\* Server, table and job stay what they are said to be, however the calls of
\* the library, those of the application and the events of the streams mix.
THEOREM ConnectTypeCorrect == ConnectSpec => []ConnectTypeOK
<1>1. ConnectSpec => []TypeOK
  <2>1. ServerInv => TypeOK
    BY DEF ServerInv, SessionInv, StreamInv
  <2> QED BY <2>1, ConnectInv, PTL
<1>2. ConnectSpec => []Iface!TypeOK
  <2>1. Callbacks!Spec => []Callbacks!TypeOK
    BY TableAssumptions, Callbacks!TypeCorrect, PTL
  <2>2. Callbacks!TypeOK => Iface!TypeOK
    BY Zenon DEF
       Iface!TypeOK, Callbacks!TypeOK, Iface!Table, Callbacks!Table, Iface!Cell,
       Callbacks!Cell, Iface!Serving, Callbacks!Serving, Iface!Outcome,
       Callbacks!Outcome, Iface!Methods, Callbacks!Methods, Iface!NoPath,
       Callbacks!NoPath, Iface!NULL, Callbacks!NULL, Iface!Junk, Callbacks!Junk
  <2> QED BY <2>1, <2>2, SameTables, ConnectIsIface, PTL
<1>3. ConnectSpec => []JobOK
  BY JobOKInit, JobOKStep, PTL DEF ConnectSpec
<1>4. TypeOK /\ Iface!TypeOK /\ JobOK => ConnectTypeOK
  BY DEF ConnectTypeOK, JobOK
<1> QED BY <1>1, <1>2, <1>3, <1>4, PTL

\* The registrations succeeded, and the table stays where the loop found it.
Still ==
  /\ ~failed /\ ~moved
  /\ serving.outcome = "pending" => serving.block = table.block

LEMMA StillInit == ConnectInit => Still
<1> SUFFICES ASSUME ConnectInit PROVE Still
  OBVIOUS
<1>1. ~failed /\ ~moved
  BY Zenon DEF ConnectInit, Iface!Init
<1>2. serving.outcome = "no path"
  BY DEF ConnectInit, Iface!Init, Iface!NoServing
<1> QED BY <1>1, <1>2 DEF Still

LEMMA StillStep ==
  ASSUME ServingShape, Still, [ConnectNext]_connectVars
  PROVE  Still'
<1>1. PICK m, p, i, b, called, o :
        serving = [method |-> m, path |-> p, i |-> i, block |-> b, called |-> called, outcome |-> o]
  BY DEF ServingShape
<1>2. ASSUME UNCHANGED iface PROVE Still'
  BY <1>2 DEF iface, Still
<1>3. CASE Registering
  BY <1>3 DEF Registering, Iface!AddFunction, Iface!AddStatic, Iface!AddRouter, Iface!Register,
              Iface!Outside, Still
<1>4. CASE Destroying
  BY <1>4 DEF Destroying, Iface!Destroy, Iface!Outside, Still
<1>5. ASSUME NEW c \in Conns, Enter(c) PROVE Still'
  <2>1. PICK m2, p2 : Iface!Request(m2, p2)
    BY <1>5 DEF Enter
  <2>2. serving' = [method |-> m2, path |-> p2, i |-> 0, block |-> table.block, called |-> <<>>,
                    outcome |-> IF p2 = Iface!NoPath THEN "no path" ELSE "pending"]
    BY <2>1 DEF Iface!Request, Iface!NoServing
  <2>3. serving'.block = table.block
    BY <2>2
  <2> QED BY <2>1, <2>3 DEF Iface!Request, Still
<1>6. ASSUME NEW c \in Conns, Chain(c) PROVE Still'
  <2>1. /\ table' = table /\ failed' = failed /\ serving.outcome = "pending"
        /\ (moved' = moved) \/ (moved' = (moved \/ table'.block # serving.block))
    BY <1>6
       DEF Chain, Iface!Skip, Iface!CallApplication, Iface!FileMissing, Iface!FileServed,
           Iface!FileHead, Iface!FileUnreadable, Iface!NotFound, Iface!Static, Iface!Reading,
           Iface!Chain
  <2>2. serving'.block = serving.block
    <3>1. ASSUME NEW o2, Iface!Pass(o2) PROVE serving'.block = b
      BY <1>1, <3>1 DEF Iface!Pass
    <3>2. CASE Iface!CallApplication
      BY <1>1, <3>1, <3>2 DEF Iface!CallApplication
    <3>3. CASE Iface!Skip \/ Iface!NotFound
      BY <1>1, <3>3 DEF Iface!Skip, Iface!NotFound
    <3> QED
      BY <1>1, <1>6, <3>1, <3>2, <3>3
         DEF Chain, Iface!FileMissing, Iface!FileServed, Iface!FileHead, Iface!FileUnreadable
  <2>3. ~moved' /\ ~failed'
    <3>1. ~moved /\ ~failed /\ table'.block = serving.block
      BY <2>1 DEF Still
    <3>2. ASSUME moved' = (moved \/ table'.block # serving.block) PROVE ~moved'
      BY <3>1, <3>2, Zenon
    <3>3. ASSUME moved' = moved PROVE ~moved'
      BY <3>1, <3>3
    <3> QED BY <2>1, <3>1, <3>2, <3>3
  <2> QED BY <2>1, <2>2, <2>3 DEF Still
<1>7. ASSUME NEW c \in Conns, LibraryCall(c) \/ Return(c) PROVE Still'
  BY <1>2, <1>7 DEF LibraryCall, Return
<1>8. ASSUME NEW c \in Conns, NEW k \in Msgs, ApplicationCall(c, k) PROVE Still'
  BY <1>2, <1>8 DEF ApplicationCall
<1> QED
  BY <1>2, <1>3, <1>4, <1>5, <1>6, <1>7, <1>8 DEF ConnectNext, ServerStep, connectVars

\* Whatever the server does, no memory outside the table is used: the loop
\* finds the next callback in the array, with the fields that decide about it.
TableInReach ==
  /\ ~crashed
  /\ Iface!Chain /\ ~Iface!AtEnd => Iface!Reading /\ Iface!Sound

LEMMA InReach ==
  ASSUME Callbacks!SoundInv, Still
  PROVE  TableInReach
<1>1. ~crashed
  BY DEF Still, Callbacks!SoundInv, Callbacks!TableSound
<1>2. ASSUME Iface!Chain, ~Iface!AtEnd PROVE Iface!Reading /\ Iface!Sound
  <2>1. Callbacks!Whole(table) /\ serving.i \in Nat /\ table.count \in Nat
    BY DEF Still, Callbacks!SoundInv, Callbacks!TableInv, Callbacks!TypeInv, Callbacks!TypeOK,
           Callbacks!Serving, Callbacks!Table
  <2>2. serving.i + 1 \in 1..table.count /\ table.count <= Len(table.cells)
    BY <1>2, <2>1 DEF Iface!AtEnd, Callbacks!Whole, Callbacks!Valid
  <2>3. Callbacks!CellSound(table.cells[serving.i + 1])
    BY <2>1, <2>2 DEF Callbacks!Whole
  <2>4. Iface!Sound
    BY <2>3 DEF Iface!Sound, Iface!NextCell, Iface!Here, Iface!Junk, Callbacks!CellSound
  <2>5. serving.i + 1 <= Len(table.cells)
    <3>1. Len(table.cells) \in Nat
      BY DEF Callbacks!SoundInv, Callbacks!TypeInv, Callbacks!TypeOK, Callbacks!Table
    <3> QED BY <2>1, <2>2, <3>1
  <2> QED BY <1>2, <2>4, <2>5 DEF Iface!Reading, Iface!Here
<1> QED BY <1>1, <1>2 DEF TableInReach

\* The composition leaves nothing out by leaving out the table's Crash: with
\* the registrations done, no request that a server runs through it can get
\* there.  And it leaves open no more files than were asked for with HEAD.
THEOREM TableStaysInReach == ConnectSpec => [](TableInReach /\ Iface!DescriptorsClosed)
<1>1. Callbacks!Spec => []Callbacks!SoundInv
  <2>1. Callbacks!Init => Callbacks!SoundInv
    BY TableAssumptions, Callbacks!SoundInit
  <2>2. Callbacks!SoundInv /\ [Callbacks!Next]_(Callbacks!vars) => Callbacks!SoundInv'
    BY TableAssumptions, Callbacks!SoundNext
  <2> QED BY <2>1, <2>2, PTL DEF Callbacks!Spec
<1>2. Callbacks!Spec => []Callbacks!DescriptorsClosed
  BY TableAssumptions, Callbacks!DescriptorsStayClosed, PTL
<1>3. ConnectSpec => []Still
  <2>1. ServerInv /\ JobInv => ServingShape
    BY DEF JobInv
  <2> QED BY <2>1, StillInit, StillStep, ConnectInv, PTL DEF ConnectSpec
<1>4. Callbacks!DescriptorsClosed => Iface!DescriptorsClosed
  BY Zenon DEF Iface!DescriptorsClosed, Callbacks!DescriptorsClosed
<1> QED BY <1>1, <1>2, <1>3, <1>4, InReach, SameTables, ConnectIsIface, PTL
=============================================================================

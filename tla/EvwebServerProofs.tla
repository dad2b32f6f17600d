------------------------- MODULE EvwebServerProofs --------------------------
(***************************************************************************)
(* Proofs about EvwebServer, for any set of connections, any bounds and    *)
(* any application: its invariants, and that it implements HttpSession.    *)
(***************************************************************************)
EXTENDS EvwebServer, TLAPS

-----------------------------------------------------------------------------
(***************************************************************************)
(* The operators on streams and responses stay within their types.         *)
(***************************************************************************)

LEMMA StreamTypes ==
  ASSUME NEW s \in Stream
  PROVE  /\ EvnDestroy(s) \in Stream
         /\ EvnWrite(s) \subseteq Stream
         /\ s.ready # "ABSENT" => EvnEnd(s) \in Stream
         /\ EvnEnd(s) \in Stream
         /\ EvnPeerEnd(s) \in Stream
         /\ Rearmed(s) \in Stream
         /\ \A r \in Response : SendOutcomes(s, r) \subseteq Stream
<1>1. EvnDestroy(s) \in Stream
  BY DEF Stream, ReadyState, EvnDestroy
<1>2. \A t \in Stream : EvnWrite(t) \subseteq Stream
  BY DEF Stream, ReadyState, EvnDestroy, EvnWrite, Writable
<1>3. EvnEnd(s) \in Stream
  BY DEF Stream, ReadyState, EvnDestroy, EvnEnd
<1>4. EvnPeerEnd(s) \in Stream
  BY DEF Stream, ReadyState, EvnDestroy, EvnPeerEnd
<1>5. Rearmed(s) \in Stream
  BY DEF Stream, Rearmed
<1>6. \A r \in Response : SendOutcomes(s, r) \subseteq Stream
  BY <1>2 DEF SendOutcomes
<1> QED BY <1>1, <1>2, <1>3, <1>4, <1>5, <1>6

LEMMA ResponseTypes ==
  ASSUME NEW r \in Response, NEW k \in Msgs
  PROVE  /\ NoResponse \in Response
         /\ ClearHeaders(r) \in Response
         /\ ClearBody(r) \in Response
         /\ \A f \in Fields : AddHeader(r, f, k) \in Response
         /\ \A bytes, typed \in BOOLEAN : AddBody(r, k, bytes, typed) \in Response
         /\ \A s : Sent(r, s) \in Response
         /\ Sources(r) \subseteq Msgs
<1>0. 0 \in Source /\ k \in Source /\ {} \in SUBSET Msgs
  BY BoundsAssumption DEF Source, Msgs
<1> USE <1>0 DEF Response
<1>1. NoResponse \in Response
  BY DEF NoResponse
<1>2. ClearHeaders(r) \in Response
  BY DEF ClearHeaders
<1>3. ClearBody(r) \in Response
  BY DEF ClearBody
<1>4. \A f \in Fields : AddHeader(r, f, k) \in Response
  BY DEF AddHeader
<1>5. \A bytes, typed \in BOOLEAN : AddBody(r, k, bytes, typed) \in Response
  <2>1. r.content \union {k} \in SUBSET Msgs
    OBVIOUS
  <2> QED BY <2>1 DEF AddBody
<1>6. \A s : Sent(r, s) \in Response
  <2>1. ClearHeaders(ClearBody(r)) \in Response
    BY <1>3 DEF ClearHeaders
  <2> QED BY <2>1 DEF Sent
<1>7. Sources(r) \subseteq Msgs
  BY BoundsAssumption DEF Sources, Source, Msgs
<1> QED BY <1>1, <1>2, <1>3, <1>4, <1>5, <1>6, <1>7

\* What Say appends is an event, what Ending appends an end.
LEMMA SayType ==
  ASSUME TypeOK, NEW c \in Conns,
         NEW op \in {"handle", "response", "refusal"}, NEW k \in Source,
         NEW of \in SUBSET Msgs, NEW last \in BOOLEAN, Say(c, op, k, of, last)
  PROVE  dialogue' \in [Conns -> Seq(Event)]
<1> DEFINE e == [op |-> op, msg |-> k, of |-> of, last |-> last]
<1>1. e \in Event
  BY DEF Event
<1>2. Append(dialogue[c], e) \in Seq(Event)
  BY <1>1 DEF TypeOK
<1> QED BY <1>2 DEF Say, TypeOK

LEMMA EndingType ==
  ASSUME TypeOK, NEW c \in Conns, NEW s \in Stream,
         NEW by \in {"end_response", "drain", "timeout"},
         Ending(c, s, by)
  PROVE  ends' \in [Conns -> Seq(End)]
<1> DEFINE e == [by |-> by, unsent |-> s.unsent]
<1>1. e \in End
  BY DEF End, Stream
<1>2. Append(ends[c], e) \in Seq(End)
  BY <1>1 DEF TypeOK
<1> QED BY <1>2 DEF Ending, TypeOK

-----------------------------------------------------------------------------
(***************************************************************************)
(* Type correctness: TypeOK is inductive.                                  *)
(***************************************************************************)

LEMMA TypeInit == Init => TypeOK
<1> SUFFICES ASSUME Init PROVE TypeOK
  OBVIOUS
<1>1. 0 \in Source /\ NoResponse \in Response
  BY BoundsAssumption DEF Source, Response, NoResponse
<1>2. NoStream \in Stream
  BY DEF NoStream, Stream, ReadyState
<1>3. [phase |-> "start", msg |-> 0, upgrade |-> FALSE] \in Parser
  BY <1>1 DEF Parser, ParserPhase
<1>4. <<>> \in Seq(Event) /\ <<>> \in Seq(End)
  OBVIOUS
<1>5. stream \in [Conns -> Stream] /\ parser \in [Conns -> Parser]
      /\ response \in [Conns -> Response]
  BY <1>1, <1>2, <1>3 DEF Init
<1>6. dialogue \in [Conns -> Seq(Event)] /\ ends \in [Conns -> Seq(End)]
  BY <1>4 DEF Init
<1> QED BY <1>5, <1>6 DEF Init, TypeOK, ServerState

\* What the parser does.
LEMMA TypeExecute ==
  ASSUME TypeOK, NEW c \in Conns, Execute(c)
  PROVE  TypeOK'
<1> USE DEF TypeOK
<1>1. stream[c] \in Stream /\ EvnDestroy(stream[c]) \in Stream
  BY StreamTypes
<1>2. ASSUME NEW close \in BOOLEAN, NEW upgrade \in BOOLEAN,
             MessageComplete(c, close, upgrade)
      PROVE  TypeOK'
  <2>1. dialogue' \in [Conns -> Seq(Event)]
    BY <1>2, SayType DEF MessageComplete, Parser, Source
  <2>2. parser' \in [Conns -> Parser]
    <3>1. [parser[c] EXCEPT !.phase = NewMessage(close), !.upgrade = upgrade] \in Parser
      BY DEF Parser, ParserPhase, NewMessage
    <3> QED BY <1>2, <3>1 DEF MessageComplete
  <2> QED BY <1>2, <2>1, <2>2 DEF MessageComplete
<1>3. ASSUME Refusing(c)
      PROVE  TypeOK'
  <2>1. [parser[c] EXCEPT !.phase = "error"] \in Parser
    BY DEF Parser, ParserPhase
  <2> QED BY <1>1, <1>3, <2>1 DEF Refusing
<1>4. CASE OnStreamData(c)
  BY <1>4 DEF OnStreamData, conn
<1>5. CASE LateData(c)
  BY <1>3, <1>5 DEF LateData
<1>6. CASE MessageBegin(c)
  <2>1. parser[c].msg + 1 \in Source
    BY <1>6, BoundsAssumption DEF MessageBegin, Parser, Source
  <2>2. NoResponse \in Response
    BY BoundsAssumption DEF NoResponse, Response, Source
  <2>3. parser' \in [Conns -> Parser]
    BY <1>6, <2>1 DEF MessageBegin, Parser, ParserPhase
  <2> QED BY <1>6, <2>2, <2>3 DEF MessageBegin, ResetResponse
<1>7. CASE HeadersComplete(c)
  BY <1>7 DEF HeadersComplete, Parser, ParserPhase
<1>8. CASE BodilessComplete(c)
  BY <1>2, <1>8 DEF BodilessComplete
<1>9. CASE BodyComplete(c)
  BY <1>2, <1>9 DEF BodyComplete
<1>10. CASE HandlerReturn(c)
  <2>1. held' \in [Conns -> SUBSET Source]
    <3>1. parser[c].msg \in Source
      BY DEF Parser
    <3>2. held[c] \union {parser[c].msg} \in SUBSET Source
      BY <3>1
    <3>3. held' \in {held, [held EXCEPT ![c] = @ \union {parser[c].msg}]}
      BY <1>10, Zenon DEF HandlerReturn
    <3> QED BY <3>2, <3>3
  <2> QED BY <1>10, <2>1 DEF HandlerReturn
<1>11. CASE BufferDone(c)
  BY <1>11 DEF BufferDone, conn
<1>12. CASE ByteRefused(c)
  BY <1>3, <1>12 DEF ByteRefused
<1>13. CASE CallbackFails(c)
  BY <1>13 DEF CallbackFails, Parser, ParserPhase
<1>14. CASE RefuseUpgrade(c)
  <2>1. dialogue' \in [Conns -> Seq(Event)]
    BY <1>14, SayType DEF RefuseUpgrade, Parser, Source
  <2>2. \A s \in EvnWrite(stream[c]) : EvnDestroy(s) \in Stream
    BY <1>1, StreamTypes
  <2> QED BY <1>14, <2>1, <2>2 DEF RefuseUpgrade
<1> QED
  BY <1>4, <1>5, <1>6, <1>7, <1>8, <1>9, <1>10, <1>11, <1>12, <1>13, <1>14 DEF Execute

\* What the other callbacks of a stream do.
LEMMA TypeCallback ==
  ASSUME TypeOK, NEW c \in Conns, StreamCallback(c)
  PROVE  TypeOK'
<1> USE DEF TypeOK
<1>1. stream[c] \in Stream
  OBVIOUS
<1>2. \A b \in BOOLEAN : /\ [stream[c] EXCEPT !.timer = b] \in Stream
                        /\ [stream[c] EXCEPT !.unsent = b] \in Stream
  BY <1>1 DEF Stream
<1>3. CASE OnStreamEnd(c)
  BY <1>1, <1>3, StreamTypes DEF OnStreamEnd
<1>4. CASE OnStreamTimeout(c)
  <2> DEFINE s == [stream[c] EXCEPT !.timer = FALSE]
  <2>1. s \in Stream
    BY <1>2
  <2>2. EvnEnd(s) \in Stream /\ EvnDestroy(s) \in Stream
    BY <2>1, StreamTypes
  <2>3. Rearmed(EvnEnd(s)) \in Stream
    BY <2>2, StreamTypes
  <2>4. stream' \in [Conns -> Stream]
    BY <1>4, <2>2, <2>3 DEF OnStreamTimeout
  <2>5. ends' \in [Conns -> Seq(End)]
    <3>1. CASE UNCHANGED ends
      BY <3>1
    <3>2. CASE Ending(c, s, "timeout")
      BY <2>1, <3>2, EndingType
    <3> QED BY <1>4, <3>1, <3>2 DEF OnStreamTimeout
  <2> QED BY <1>4, <2>4, <2>5 DEF OnStreamTimeout
<1>5. CASE OnDrain(c)
  <2> DEFINE s == [stream[c] EXCEPT !.unsent = FALSE]
  <2>1. s \in Stream
    BY <1>2
  <2>2. EvnEnd(s) \in Stream
    BY <2>1, StreamTypes
  <2>3. stream' \in [Conns -> Stream]
    BY <1>5, <2>1, <2>2 DEF OnDrain, CloseOnDrain
  <2>4. ends' \in [Conns -> Seq(End)]
    <3>1. CASE UNCHANGED ends
      BY <3>1
    <3>2. CASE Ending(c, s, "drain")
      BY <2>1, <3>2, EndingType
    <3> QED BY <1>5, <3>1, <3>2 DEF OnDrain
  <2> QED BY <1>5, <2>3, <2>4 DEF OnDrain
<1>6. CASE StreamError(c)
  BY <1>1, <1>6, StreamTypes DEF StreamError
<1>7. CASE OnStreamClose(c)
  BY <1>7 DEF OnStreamClose
<1> QED BY <1>3, <1>4, <1>5, <1>6, <1>7 DEF StreamCallback

\* What the application does.
LEMMA TypeApplication ==
  ASSUME TypeOK, NEW c \in Conns, NEW k \in Msgs, Application(c, k)
  PROVE  TypeOK'
<1> USE DEF TypeOK
<1>1. stream[c] \in Stream /\ response[c] \in Response
  OBVIOUS
<1>2. k \in Source /\ 0 \in Source /\ "Connection" \in Fields
  BY BoundsAssumption DEF Msgs, Source, Fields
<1>3. CASE SetResponseStatus(c, k)
  <2>1. PICK withMessage \in BOOLEAN :
          response' = [response EXCEPT ![c].status = k,
                                       ![c].message = IF withMessage /\ ~Ended(stream[c])
                                                      THEN k ELSE @]
    BY <1>3 DEF SetResponseStatus
  <2>2. [response[c] EXCEPT !.status = k,
                            !.message = IF withMessage /\ ~Ended(stream[c])
                                        THEN k ELSE @] \in Response
    BY <1>1, <1>2 DEF Response
  <2> QED BY <1>3, <2>1, <2>2 DEF SetResponseStatus
<1>4. CASE AddResponseHeader(c, k)
  <2>1. \A f \in Fields : AddHeader(response[c], f, k) \in Response
    BY <1>1, ResponseTypes
  <2>2. response' \in [Conns -> Response]
    BY <1>4, <2>1 DEF AddResponseHeader
  <2> QED BY <1>4, <2>2 DEF AddResponseHeader
<1>5. CASE ClearResponseHeaders(c, k)
  BY <1>1, <1>5, ResponseTypes DEF ClearResponseHeaders
<1>6. CASE SetResponseBody(c, k)
  <2>1. ClearBody(response[c]) \in Response
    BY <1>1, ResponseTypes
  <2>2. \A bytes, typed \in BOOLEAN : AddBody(ClearBody(response[c]), k, bytes, typed) \in Response
    BY <2>1, ResponseTypes
  <2> QED BY <1>6, <2>2 DEF SetResponseBody
<1>7. CASE AddToResponseBody(c, k)
  <2>1. \A bytes, typed \in BOOLEAN : AddBody(response[c], k, bytes, typed) \in Response
    BY <1>1, ResponseTypes
  <2>2. response' \in [Conns -> Response]
    BY <1>7, <2>1 DEF AddToResponseBody
  <2> QED BY <1>7, <2>2 DEF AddToResponseBody
<1>8. CASE ClearResponseBody(c, k)
  BY <1>1, <1>8, ResponseTypes DEF ClearResponseBody
<1>9. CASE SendResponse(c, k)
  <2>1. dialogue' \in [Conns -> Seq(Event)]
    BY <1>1, <1>2, <1>9, ResponseTypes, SayType DEF SendResponse
  <2>2. \A s \in SendOutcomes(stream[c], response[c]) :
          s \in Stream /\ Sent(response[c], s) \in Response
    BY <1>1, StreamTypes, ResponseTypes
  <2> QED BY <1>9, <2>1, <2>2 DEF SendResponse
<1>10. CASE EndUnanswered(c, k)
  <2>1. ends' \in [Conns -> Seq(End)]
    BY <1>1, <1>10, EndingType DEF EndUnanswered
  <2> QED BY <1>1, <1>10, <2>1, StreamTypes DEF EndUnanswered
<1>11. CASE EndAnswered(c, k)
  <2> DEFINE r == AddHeader(response[c], "Connection", k)
  <2>1. r \in Response
    BY <1>1, <1>2, ResponseTypes
  <2>2. dialogue' \in [Conns -> Seq(Event)]
    BY <1>2, <1>11, <2>1, ResponseTypes, SayType DEF EndAnswered
  <2>3. PICK s \in SendOutcomes(stream[c], r) :
          /\ response' = [response EXCEPT ![c] = Sent(r, s)]
          /\ \/ /\ stream' = [stream EXCEPT ![c] = s]
                /\ UNCHANGED ends
             \/ /\ stream' = [stream EXCEPT ![c] = EvnEnd(s)]
                /\ Ending(c, s, "end_response")
             \/ /\ stream' = [stream EXCEPT ![c] = EndOnDrain(s)]
                /\ UNCHANGED ends
    BY <1>11 DEF EndAnswered
  <2>4. s \in Stream /\ Sent(r, s) \in Response
    BY <1>1, <2>1, StreamTypes, ResponseTypes
  <2>5. EvnEnd(s) \in Stream /\ EndOnDrain(s) \in Stream
    BY <2>4, StreamTypes DEF Stream, EndOnDrain
  <2>6. stream' \in [Conns -> Stream]
    BY <2>3, <2>4, <2>5
  <2>7. ends' \in [Conns -> Seq(End)]
    BY <2>3, <2>4, EndingType
  <2> QED BY <1>11, <2>2, <2>3, <2>4, <2>6, <2>7 DEF EndAnswered
<1>12. CASE StaleCall(c, k)
  BY <1>12 DEF StaleCall
<1> QED
  BY <1>3, <1>4, <1>5, <1>6, <1>7, <1>8, <1>9, <1>10, <1>11, <1>12
     DEF Application, EndResponse

LEMMA TypeStep == TypeOK /\ [Next]_vars => TypeOK'
<1> SUFFICES ASSUME TypeOK, [Next]_vars PROVE TypeOK'
  OBVIOUS
<1>1. CASE StartServer \/ CloseServer \/ ServerFails
  BY <1>1 DEF TypeOK, StartServer, CloseServer, ServerFails, ServerState, conn
<1>2. ASSUME NEW c \in Conns, Accept(c) PROVE TypeOK'
  <2>1. NewStream \in Stream
    BY DEF NewStream, NoStream, Stream, ReadyState
  <2> QED BY <1>2, <2>1 DEF TypeOK, Accept
<1>3. CASE UNCHANGED vars
  BY <1>3 DEF TypeOK, vars
<1> QED BY <1>1, <1>2, <1>3, TypeExecute, TypeCallback, TypeApplication DEF Next

\* The variables of the server keep their types, whatever the connections,
\* the bounds and the application.
THEOREM TypeCorrect == Spec => []TypeOK
<1> QED BY TypeInit, TypeStep, PTL DEF Spec

-----------------------------------------------------------------------------
(***************************************************************************)
(* What a step may do to the stream and the memory of a connection.  The   *)
(* invariants about them rest on this lemma alone.                         *)
(***************************************************************************)

Armed(s) == s.ready # "CLOSED" => s.timer
Promised(s) == s.endOnDrain /\ Writable(s) => s.unsent
Closing(s) == Writable(s) => s.endOnDrain /\ s.unsent

\* From s to t nothing is reopened, disarmed or forgotten.
Kept(s, t) ==
  /\ t.ready # "ABSENT"
  /\ s.ready = "CLOSED" => t.ready = "CLOSED"
  /\ Ended(s) => Ended(t)
  /\ Armed(s) => Armed(t)
  /\ Promised(s) => Promised(t)
  /\ Closing(s) => Closing(t)

LEMMA KeptReflexive == \A s : s.ready # "ABSENT" => Kept(s, s)
<1> QED BY DEF Kept

\* Each operation on a stream keeps it.
LEMMA KeptByStream ==
  ASSUME NEW s \in Stream, s.ready # "ABSENT"
  PROVE  /\ Kept(s, EvnDestroy(s))
         /\ Kept(s, EvnPeerEnd(s))
         /\ Kept(s, EvnEnd(s)) /\ Ended(EvnEnd(s))
         /\ \A t \in EvnWrite(s) : Kept(s, t)
         /\ \A r \in Response : \A t \in SendOutcomes(s, r) : Kept(s, t)
<1> USE DEF Stream, ReadyState, Kept, Armed, Promised, Closing, Ended, Writable
<1>1. Kept(s, EvnDestroy(s)) /\ Kept(s, EvnPeerEnd(s))
  BY DEF EvnDestroy, EvnPeerEnd
<1>2. Kept(s, EvnEnd(s)) /\ Ended(EvnEnd(s))
  BY DEF EvnDestroy, EvnEnd
<1>3. ASSUME NEW u \in Stream, u.ready # "ABSENT", NEW t \in EvnWrite(u)
      PROVE  Kept(u, t) /\ t \in Stream
  BY <1>3 DEF EvnDestroy, EvnWrite
<1>4. ASSUME NEW u \in Stream, NEW t, NEW v, Kept(s, u), Kept(u, v)
      PROVE  Kept(s, v)
  BY <1>4
<1>5. ASSUME NEW r \in Response, NEW t \in SendOutcomes(s, r)
      PROVE  Kept(s, t)
  <2>1. CASE r.content = {}
    BY <1>3, <2>1 DEF SendOutcomes
  <2>2. CASE r.content # {}
    <3>1. PICK u \in EvnWrite(s) : t \in EvnWrite(u)
      BY <2>2 DEF SendOutcomes
    <3>2. Kept(s, u) /\ u \in Stream /\ u.ready # "ABSENT"
      BY <1>3
    <3> QED BY <1>3, <1>4, <3>1, <3>2
  <2> QED BY <2>1, <2>2
<1> QED BY <1>1, <1>2, <1>3, <1>5

\* The four things that can happen to a connection in a step.
Untouched(c) == mem'[c] = mem[c] /\ stream'[c] = stream[c]
Accepted(c) == mem[c] = "none" /\ mem'[c] = "live" /\ stream'[c] = NewStream
Served(c) == mem[c] = "live" /\ mem'[c] = "live" /\ Kept(stream[c], stream'[c])
Freed(c) == /\ Idle
            /\ at' = at
            /\ mem'[c] = "freed"
            /\ stream[c].ready = "CLOSED"
            /\ stream'[c] = stream[c]

StreamStep(c) == Untouched(c) \/ Accepted(c) \/ Served(c) \/ Freed(c)

\* The stream of d is set to t, which keeps it; nothing else about streams
\* and memory changes.
LEMMA ServedStep ==
  ASSUME TypeOK, NEW c \in Conns, NEW d \in Conns, Live(d), NEW t,
         Kept(stream[d], t), stream' = [stream EXCEPT ![d] = t], mem' = mem
  PROVE  StreamStep(c)
BY DEF TypeOK, Live, StreamStep, Untouched, Served

LEMMA StreamSteps ==
  ASSUME TypeOK, LifeCycle, NEW c \in Conns, [Next]_vars
  PROVE  StreamStep(c)
<1>1. ASSUME NEW d \in Conns, Live(d)
      PROVE  /\ stream[d] \in Stream /\ response[d] \in Response
             /\ stream[d].ready # "ABSENT"
  BY <1>1 DEF TypeOK, LifeCycle, Live
<1>2. CASE UNCHANGED <<stream, mem>>
  BY <1>2 DEF StreamStep, Untouched
<1>3. ASSUME NEW d \in Conns, Accept(d) PROVE StreamStep(c)
  BY <1>3 DEF TypeOK, Accept, StreamStep, Untouched, Accepted
<1>4. ASSUME NEW d \in Conns, Execute(d) PROVE StreamStep(c)
  <2>1. CASE Live(d) /\ Refusing(d)
    BY <1>1, <2>1, KeptByStream, ServedStep DEF Refusing
  <2>2. CASE RefuseUpgrade(d)
    <3>1. Live(d)
      BY <2>2 DEF RefuseUpgrade
    <3>2. PICK s \in EvnWrite(stream[d]) : stream' = [stream EXCEPT ![d] = EvnDestroy(s)]
      BY <2>2 DEF RefuseUpgrade
    <3>3. Kept(stream[d], s) /\ s \in Stream /\ Kept(s, EvnDestroy(s))
      BY <1>1, <3>1, StreamTypes, KeptByStream DEF Kept
    <3>4. Kept(stream[d], EvnDestroy(s))
      BY <3>3 DEF Kept
    <3> QED BY <2>2, <3>1, <3>2, <3>4, ServedStep DEF RefuseUpgrade
  <2>3. CASE UNCHANGED <<stream, mem>>
    BY <1>2, <2>3
  <2> QED
    BY <1>4, <2>1, <2>2, <2>3
       DEF Execute, OnStreamData, LateData, Callback, MessageBegin, HeadersComplete,
           BodilessComplete, BodyComplete, MessageComplete, HandlerReturn,
           BufferDone, ByteRefused, CallbackFails, Parsing, conn
<1>5. ASSUME NEW d \in Conns, StreamCallback(d) PROVE StreamStep(c)
  <2> DEFINE s == stream[d]
  <2>1. Live(d) /\ Idle
    BY <1>5 DEF StreamCallback, OnStreamEnd, OnStreamTimeout, OnDrain, StreamError,
                OnStreamClose, Callback
  <2>2. s \in Stream /\ s.ready # "ABSENT"
    BY <1>1, <2>1
  <2>3. CASE OnStreamEnd(d)
    BY <2>1, <2>2, <2>3, KeptByStream, ServedStep DEF OnStreamEnd
  <2>4. CASE OnStreamTimeout(d)
    <3>1. Kept(s, Rearmed(EvnEnd([s EXCEPT !.timer = FALSE])))
      BY <2>2 DEF Stream, ReadyState, Kept, Armed, Promised, Closing, Ended, Writable,
                  Rearmed, EvnEnd, EvnDestroy
    <3>2. Kept(s, EvnDestroy([s EXCEPT !.timer = FALSE]))
      BY <2>2 DEF Stream, ReadyState, Kept, Armed, Promised, Closing, Ended, Writable, EvnDestroy
    <3> QED BY <2>1, <2>4, <3>1, <3>2, ServedStep DEF OnStreamTimeout
  <2>5. CASE OnDrain(d)
    <3>1. s.endOnDrain => Kept(s, CloseOnDrain([s EXCEPT !.unsent = FALSE]))
      BY <2>2 DEF Stream, ReadyState, Kept, Armed, Promised, Closing, Ended, Writable,
                  EvnEnd, EvnDestroy, CloseOnDrain
    <3>2. ~s.endOnDrain => Kept(s, [s EXCEPT !.unsent = FALSE])
      BY <2>2 DEF Stream, ReadyState, Kept, Armed, Promised, Closing, Ended, Writable
    <3>3. [s EXCEPT !.unsent = FALSE].endOnDrain = s.endOnDrain
      BY <2>2 DEF Stream
    <3> QED BY <2>1, <2>5, <3>1, <3>2, <3>3, ServedStep DEF OnDrain
  <2>6. CASE StreamError(d)
    BY <2>1, <2>2, <2>6, KeptByStream, ServedStep DEF StreamError
  <2>7. CASE OnStreamClose(d)
    BY <2>1, <2>7 DEF TypeOK, OnStreamClose, StreamStep, Untouched, Freed
  <2> QED BY <1>5, <2>3, <2>4, <2>5, <2>6, <2>7 DEF StreamCallback
<1>6. ASSUME NEW d \in Conns, NEW k \in Msgs, Application(d, k) PROVE StreamStep(c)
  <2>1. CASE SendResponse(d, k)
    <3>1. Live(d)
      BY <2>1 DEF SendResponse, Calling
    <3> QED BY <1>1, <2>1, <3>1, KeptByStream, ServedStep DEF SendResponse
  <2>2. CASE EndUnanswered(d, k)
    <3>1. Live(d)
      BY <2>2 DEF EndUnanswered, Calling
    <3> QED BY <1>1, <2>2, <3>1, KeptByStream, ServedStep DEF EndUnanswered
  <2>3. CASE EndAnswered(d, k)
    <3> DEFINE r == AddHeader(response[d], "Connection", k)
    <3>1. Live(d)
      BY <2>3 DEF EndAnswered, Calling
    <3>2. r \in Response
      BY <1>1, <3>1, ResponseTypes DEF Fields
    <3>3. PICK s \in SendOutcomes(stream[d], r) :
            \/ stream' = [stream EXCEPT ![d] = s]
            \/ stream' = [stream EXCEPT ![d] = EvnEnd(s)]
            \/ ~Finished(s) /\ stream' = [stream EXCEPT ![d] = EndOnDrain(s)]
      BY <2>3 DEF EndAnswered
    <3>4. Kept(stream[d], s) /\ s \in Stream /\ s.ready # "ABSENT"
      BY <1>1, <3>1, <3>2, StreamTypes, KeptByStream DEF Kept
    <3>5. Kept(stream[d], EvnEnd(s))
      BY <3>4, KeptByStream DEF Kept
    <3>6. ~Finished(s) => Kept(stream[d], EndOnDrain(s))
      <4>1. ~Finished(s) => Kept(s, EndOnDrain(s))
        BY <3>4 DEF EndOnDrain, Stream, Finished, Kept, Armed, Promised, Closing, Ended, Writable
      <4> QED BY <3>4, <4>1 DEF Kept
    <3> QED BY <2>3, <3>1, <3>3, <3>4, <3>5, <3>6, ServedStep DEF EndAnswered
  <2>4. CASE UNCHANGED <<stream, mem>>
    BY <1>2, <2>4
  <2> QED
    BY <1>6, <2>1, <2>2, <2>3, <2>4
       DEF Application, SetResponseStatus, AddResponseHeader, ClearResponseHeaders,
           SetResponseBody, AddToResponseBody, ClearResponseBody, EndResponse, StaleCall
<1> QED
  BY <1>2, <1>3, <1>4, <1>5, <1>6
     DEF Next, StartServer, CloseServer, ServerFails, vars, conn

-----------------------------------------------------------------------------
(***************************************************************************)
(* The life of a connection, its timeout and its promised end.             *)
(***************************************************************************)

\* The loop works for a connection only if it did or the connection is live.
LEMMA AtSteps ==
  ASSUME TypeOK, NEW c \in Conns, [Next]_vars, at'[c] # "idle"
  PROVE  at[c] # "idle" \/ mem'[c] = "live"
<1>1. CASE at' = at
  BY <1>1
<1>2. ASSUME NEW d \in Conns, Execute(d), at' # at
      PROVE  at[c] # "idle" \/ mem'[c] = "live"
  <2>1. at' = [at EXCEPT ![d] = at'[d]] /\ mem' = mem /\ Live(d)
    BY <1>2 DEF TypeOK, Execute, OnStreamData, LateData, Callback, MessageBegin,
                HeadersComplete, BodilessComplete, BodyComplete, MessageComplete,
                HandlerReturn, BufferDone, ByteRefused, CallbackFails, RefuseUpgrade,
                Refusing, Parsing, conn
  <2> QED BY <2>1 DEF TypeOK, Live
<1> QED
  BY <1>1, <1>2
     DEF Next, vars, StartServer, CloseServer, ServerFails, Accept, StreamCallback,
         OnStreamEnd, OnStreamTimeout, OnDrain, StreamError, OnStreamClose,
         Application, SetResponseStatus, AddResponseHeader, ClearResponseHeaders,
         SetResponseBody, AddToResponseBody, ClearResponseBody, SendResponse,
         EndResponse, EndUnanswered, EndAnswered, StaleCall

StreamInv == TypeOK /\ LifeCycle /\ TimerArmed /\ PromisedEndArmed

LEMMA StreamInvInit == Init => StreamInv
<1>1. Init => LifeCycle /\ TimerArmed /\ PromisedEndArmed
  BY DEF Init, LifeCycle, TimerArmed, PromisedEndArmed, NoStream
<1> QED BY <1>1, TypeInit DEF StreamInv

LEMMA StreamInvStep == StreamInv /\ [Next]_vars => StreamInv'
<1> SUFFICES ASSUME StreamInv, [Next]_vars PROVE StreamInv'
  OBVIOUS
<1>1. TypeOK'
  BY TypeStep DEF StreamInv
<1>2. ASSUME NEW c \in Conns PROVE StreamStep(c)
  BY StreamSteps DEF StreamInv
<1>3. NewStream.ready = "OPEN" /\ NewStream.timer /\ ~NewStream.endOnDrain
  BY DEF NewStream, NoStream
<1>4. LifeCycle'
  <2> SUFFICES ASSUME NEW c \in Conns
               PROVE  /\ at'[c] # "idle" => mem'[c] = "live"
                      /\ mem'[c] = "none" <=> stream'[c].ready = "ABSENT"
                      /\ mem'[c] = "freed" => stream'[c].ready = "CLOSED"
    BY DEF LifeCycle
  <2>1. CASE Untouched(c)
    BY <2>1, AtSteps DEF StreamInv, LifeCycle, Untouched
  <2>2. CASE Accepted(c)
    BY <1>3, <2>2 DEF Accepted
  <2>3. CASE Served(c)
    BY <2>3 DEF Served, Kept
  <2>4. CASE Freed(c)
    BY <2>4 DEF Freed, Idle
  <2> QED BY <1>2, <2>1, <2>2, <2>3, <2>4 DEF StreamStep
<1>5. TimerArmed'
  <2> SUFFICES ASSUME NEW c \in Conns, mem'[c] = "live", stream'[c].ready # "CLOSED"
               PROVE  stream'[c].timer
    BY DEF TimerArmed
  <2> QED
    BY <1>2, <1>3
       DEF StreamInv, TimerArmed, StreamStep, Untouched, Accepted, Served, Freed, Kept, Armed
<1>6. PromisedEndArmed'
  <2> SUFFICES ASSUME NEW c \in Conns, stream'[c].endOnDrain, Writable(stream'[c])
               PROVE  stream'[c].unsent
    BY DEF PromisedEndArmed, Writable
  <2> QED
    BY <1>2, <1>3
       DEF StreamInv, PromisedEndArmed, StreamStep, Untouched, Accepted, Served, Freed,
           Kept, Promised
<1> QED BY <1>1, <1>4, <1>5, <1>6 DEF StreamInv

\* The processer outlives whatever runs on the connection and is freed only
\* after the stream is closed.
THEOREM LifeCycleHolds == Spec => []LifeCycle
<1>1. StreamInv => LifeCycle
  BY DEF StreamInv
<1> QED BY <1>1, StreamInvInit, StreamInvStep, PTL DEF Spec

\* A timeout is armed for every stream that is not closed: on_stream_timeout
\* never leaves a connection to live forever.
THEOREM TimerAlwaysArmed == Spec => []TimerArmed
<1>1. StreamInv => TimerArmed
  BY DEF StreamInv
<1> QED BY <1>1, StreamInvInit, StreamInvStep, PTL DEF Spec

\* An end that end_response postponed is never forgotten.
THEOREM PromisedEndHolds == Spec => []PromisedEndArmed
<1>1. StreamInv => PromisedEndArmed
  BY DEF StreamInv
<1> QED BY <1>1, StreamInvInit, StreamInvStep, PTL DEF Spec

-----------------------------------------------------------------------------
(***************************************************************************)
(* How a stream is ended, and what may still be sent on it.                *)
(***************************************************************************)

\* evn_stream_end is called on c, as e records.
EndsWith(c, e) ==
  /\ ends'[c] = Append(ends[c], e)
  /\ Ended(stream'[c])
  /\ e.by # "drain" => ~Ended(stream[c])

\* The stream of d is ended and becomes t.
LEMMA EndStep ==
  ASSUME TypeOK, NEW c \in Conns, NEW d \in Conns, NEW s, NEW t,
         NEW by \in {"end_response", "drain", "timeout"},
         s.unsent \in BOOLEAN, Ending(d, s, by),
         stream' = [stream EXCEPT ![d] = t], Ended(t),
         by # "drain" => ~Ended(stream[d])
  PROVE  ends'[c] = ends[c] \/ \E e \in End : EndsWith(c, e)
<1> DEFINE e == [by |-> by, unsent |-> s.unsent]
<1>1. e \in End
  BY DEF End
<1>2. CASE c = d
  <2>1. EndsWith(c, e)
    BY <1>2 DEF TypeOK, Ending, EndsWith
  <2> QED BY <1>1, <2>1
<1>3. CASE c # d
  BY <1>3 DEF TypeOK, Ending
<1> QED BY <1>2, <1>3

LEMMA EndSteps ==
  ASSUME TypeOK, LifeCycle, NEW c \in Conns, [Next]_vars
  PROVE  ends'[c] = ends[c] \/ \E e \in End : EndsWith(c, e)
<1>1. CASE UNCHANGED ends
  BY <1>1
<1>2. ASSUME NEW d \in Conns, Live(d)
      PROVE  /\ stream[d] \in Stream /\ response[d] \in Response
             /\ stream[d].ready # "ABSENT"
  BY <1>2 DEF TypeOK, LifeCycle, Live
<1>3. ASSUME NEW d \in Conns, OnStreamTimeout(d)
      PROVE  ends'[c] = ends[c] \/ \E e \in End : EndsWith(c, e)
  <2> DEFINE s == [stream[d] EXCEPT !.timer = FALSE]
  <2>1. Live(d)
    BY <1>3 DEF OnStreamTimeout, Callback
  <2>2. /\ s \in Stream /\ s.ready # "ABSENT" /\ s.unsent \in BOOLEAN
        /\ Ended(s) = Ended(stream[d])
    BY <1>2, <2>1 DEF Stream, Ended
  <2>3. Ended(Rearmed(EvnEnd(s)))
    BY <2>2 DEF Stream, ReadyState, Ended, Rearmed, EvnEnd, EvnDestroy
  <2>4. CASE /\ KeepAliveExpires(s) /\ Ending(d, s, "timeout")
             /\ stream' = [stream EXCEPT ![d] = Rearmed(EvnEnd(s))]
    BY <2>2, <2>3, <2>4, EndStep DEF KeepAliveExpires
  <2> QED BY <1>1, <1>3, <2>4 DEF OnStreamTimeout
<1>4. ASSUME NEW d \in Conns, OnDrain(d)
      PROVE  ends'[c] = ends[c] \/ \E e \in End : EndsWith(c, e)
  <2> DEFINE s == [stream[d] EXCEPT !.unsent = FALSE]
  <2>1. Live(d)
    BY <1>4 DEF OnDrain, Callback
  <2>2. s \in Stream /\ s.ready # "ABSENT" /\ s.unsent \in BOOLEAN
    BY <1>2, <2>1 DEF Stream
  <2>3. Ended(EvnEnd(s))
    BY <2>2, KeptByStream
  <2>4. CASE /\ Ending(d, s, "drain")
             /\ stream' = [stream EXCEPT ![d] = EvnEnd(s)]
    BY <2>2, <2>3, <2>4, EndStep
  <2> QED BY <1>1, <1>4, <2>4 DEF OnDrain, CloseOnDrain
<1>5. ASSUME NEW d \in Conns, NEW k \in Msgs, EndUnanswered(d, k)
      PROVE  ends'[c] = ends[c] \/ \E e \in End : EndsWith(c, e)
  <2>1. Live(d)
    BY <1>5 DEF EndUnanswered, Calling
  <2>2. stream[d].unsent \in BOOLEAN /\ Ended(EvnEnd(stream[d]))
    BY <1>2, <2>1, KeptByStream DEF Stream
  <2> QED BY <1>5, <2>2, EndStep DEF EndUnanswered
<1>6. ASSUME NEW d \in Conns, NEW k \in Msgs, EndAnswered(d, k)
      PROVE  ends'[c] = ends[c] \/ \E e \in End : EndsWith(c, e)
  <2> DEFINE r == AddHeader(response[d], "Connection", k)
  <2>1. Live(d) /\ ~Ended(stream[d])
    BY <1>6 DEF EndAnswered, Calling, CanSend
  <2>2. r \in Response
    BY <1>2, <2>1, ResponseTypes DEF Fields
  <2>3. PICK s \in SendOutcomes(stream[d], r) :
          \/ UNCHANGED ends
          \/ /\ Finished(s)
             /\ stream' = [stream EXCEPT ![d] = EvnEnd(s)]
             /\ Ending(d, s, "end_response")
    BY <1>6 DEF EndAnswered
  <2>4. s \in Stream /\ s.ready # "ABSENT"
    <3>1. s \in Stream
      BY <1>2, <2>1, <2>2, StreamTypes
    <3>2. Kept(stream[d], s)
      BY <1>2, <2>1, <2>2, KeptByStream
    <3> QED BY <3>1, <3>2 DEF Kept
  <2>5. s.unsent \in BOOLEAN /\ Ended(EvnEnd(s))
    BY <2>4, KeptByStream DEF Stream
  <2> QED BY <1>1, <2>1, <2>3, <2>5, EndStep DEF Finished
<1> QED
  BY <1>1, <1>3, <1>4, <1>5, <1>6
     DEF Next, vars, conn, StartServer, CloseServer, ServerFails, Accept, Execute,
         OnStreamData, LateData, Refusing, MessageBegin, HeadersComplete,
         BodilessComplete, BodyComplete, MessageComplete, HandlerReturn, BufferDone,
         ByteRefused, CallbackFails, RefuseUpgrade, StreamCallback, OnStreamEnd,
         StreamError, OnStreamClose, Application, SetResponseStatus,
         AddResponseHeader, ClearResponseHeaders, SetResponseBody,
         AddToResponseBody, ClearResponseBody, SendResponse, EndResponse, StaleCall

\* The strengthening: what was ended stays ended.
EndInv ==
  /\ StreamInv
  /\ \A c \in Conns : ends[c] # <<>> => Ended(stream[c])
  /\ OnlyDrainEndsAgain

LEMMA EndInvInit == Init => EndInv
<1>1. Init => OnlyDrainEndsAgain /\ \A c \in Conns : ends[c] = <<>>
  BY DEF Init, OnlyDrainEndsAgain
<1> QED BY <1>1, StreamInvInit DEF EndInv

LEMMA EndInvStep == EndInv /\ [Next]_vars => EndInv'
<1> SUFFICES ASSUME EndInv, [Next]_vars PROVE EndInv'
  OBVIOUS
<1>1. StreamInv'
  BY StreamInvStep DEF EndInv
<1>2. ASSUME NEW c \in Conns
      PROVE  ends'[c] = ends[c] \/ \E e \in End : EndsWith(c, e)
  BY EndSteps DEF EndInv, StreamInv
<1>3. ASSUME NEW c \in Conns PROVE ends[c] \in Seq(End)
  BY DEF EndInv, StreamInv, TypeOK
<1>4. ASSUME NEW c \in Conns, ends'[c] # <<>> PROVE Ended(stream'[c])
  <2>1. CASE ends'[c] = ends[c]
    <3>1. Ended(stream[c]) /\ mem[c] # "none"
      BY <1>4, <2>1 DEF EndInv, StreamInv, LifeCycle, Ended
    <3>2. StreamStep(c)
      BY StreamSteps DEF EndInv, StreamInv
    <3> QED BY <3>1, <3>2 DEF StreamStep, Untouched, Accepted, Served, Freed, Kept
  <2> QED BY <1>2, <2>1 DEF EndsWith
<1>5. OnlyDrainEndsAgain'
  <2> SUFFICES ASSUME NEW c \in Conns, NEW i \in 2..Len(ends'[c])
               PROVE  ends'[c][i].by = "drain"
    BY DEF OnlyDrainEndsAgain
  <2>1. CASE ends'[c] = ends[c]
    BY <2>1 DEF EndInv, OnlyDrainEndsAgain
  <2>2. ASSUME NEW e \in End, EndsWith(c, e) PROVE ends'[c][i].by = "drain"
    <3>1. CASE i = Len(ends[c]) + 1
      <4>1. ends[c] # <<>>
        BY <1>3, <3>1
      <4> QED BY <1>3, <2>2, <3>1, <4>1 DEF EndsWith, EndInv
    <3>2. CASE i \in 2..Len(ends[c])
      BY <1>3, <2>2, <3>2 DEF EndsWith, EndInv, OnlyDrainEndsAgain
    <3> QED BY <1>3, <2>2, <3>1, <3>2 DEF EndsWith
  <2> QED BY <1>2, <2>1, <2>2
<1> QED BY <1>1, <1>4, <1>5 DEF EndInv

-----------------------------------------------------------------------------
(***************************************************************************)
(* The dialogue: what is handed to the application and sent for it.        *)
(***************************************************************************)

\* A request is handed over, a response sent, an upgrade refused, as e says.
Handed(c, e) ==
  /\ e.op = "handle"
  /\ Parsing(c)
  /\ parser[c].phase \in {"head", "body"}
  /\ e.msg = parser[c].msg
  /\ parser'[c].msg = parser[c].msg
  /\ parser'[c].phase \in {"start", "dead"}
  /\ e.last => parser'[c].upgrade \/ parser'[c].phase = "dead"
  /\ UNCHANGED <<stream, mem, response, held>>

Answered(c, e) ==
  /\ e.op = "response"
  /\ Live(c)
  /\ HasPointer(c, e.msg)
  /\ ~Ended(stream[c])
  /\ e.of \subseteq Sources(response[c]) \union {e.msg}
  /\ Sources(response'[c]) \subseteq Sources(response[c]) \union {e.msg}
  /\ e.last => Closing(stream'[c])
  /\ UNCHANGED <<at, parser, mem, held>>

Refused(c, e) ==
  /\ e.op = "refusal"
  /\ Live(c)
  /\ at[c] = "parse"
  /\ parser[c].upgrade
  /\ e.msg = parser[c].msg
  /\ e.of = {}
  /\ at'[c] = "idle"
  /\ stream'[c].ready = "CLOSED"
  /\ UNCHANGED <<parser, response, mem, held>>

DialogueStep(c) ==
  \/ dialogue'[c] = dialogue[c]
  \/ \E e \in Event :
       /\ dialogue'[c] = Append(dialogue[c], e)
       /\ Handed(c, e) \/ Answered(c, e) \/ Refused(c, e)

\* Calls of the response API add at most the caller's data to a response.
LEMMA SourcesGrow ==
  ASSUME NEW r \in Response, NEW k \in Msgs
  PROVE  /\ Sources(NoResponse) = {}
         /\ Sources(ClearHeaders(r)) \subseteq Sources(r)
         /\ Sources(ClearBody(r)) \subseteq Sources(r)
         /\ \A f \in Fields : Sources(AddHeader(r, f, k)) \subseteq Sources(r) \union {k}
         /\ \A bytes, typed \in BOOLEAN :
              Sources(AddBody(r, k, bytes, typed)) \subseteq Sources(r) \union {k}
         /\ \A s : Sources(Sent(r, s)) \subseteq Sources(r)
<1>0. ASSUME NEW t, t.status = r.status, t.message = r.message,
             t.type \in {r.type, k}, t.content \subseteq r.content \union {k},
             \A f \in Fields : t.headers[f] \in {r.headers[f], k}
      PROVE  Sources(t) \subseteq Sources(r) \union {k}
  BY <1>0 DEF Sources
<1> USE DEF Sources, Response
<1>1. Sources(NoResponse) = {}
  BY DEF NoResponse
<1>2. Sources(ClearHeaders(r)) \subseteq Sources(r)
  BY DEF ClearHeaders
<1>3. Sources(ClearBody(r)) \subseteq Sources(r)
  BY DEF ClearBody
<1>4. ASSUME NEW f \in Fields
      PROVE  Sources(AddHeader(r, f, k)) \subseteq Sources(r) \union {k}
  <2> DEFINE t == AddHeader(r, f, k)
  <2>1. /\ t.status = r.status /\ t.message = r.message
        /\ t.type = r.type /\ t.content = r.content
        /\ \A g \in Fields : t.headers[g] \in {r.headers[g], k}
    BY DEF AddHeader
  <2> QED BY <1>0, <2>1
<1>5. ASSUME NEW bytes \in BOOLEAN, NEW typed \in BOOLEAN
      PROVE  Sources(AddBody(r, k, bytes, typed)) \subseteq Sources(r) \union {k}
  <2> DEFINE t == AddBody(r, k, bytes, typed)
  <2>1. /\ t.status = r.status /\ t.message = r.message /\ t.headers = r.headers
        /\ t.type \in {r.type, k}
        /\ t.content \subseteq r.content \union {k}
    BY DEF AddBody
  <2> QED BY <1>0, <2>1
<1>6. \A s : Sources(Sent(r, s)) \subseteq Sources(r)
  BY DEF Sent, ClearHeaders, ClearBody
<1> QED BY <1>1, <1>2, <1>3, <1>4, <1>5, <1>6

\* Say appends its event to the dialogue of d only.
LEMMA SayStep ==
  ASSUME TypeOK, NEW c \in Conns, NEW d \in Conns,
         NEW op \in {"handle", "response", "refusal"}, NEW k \in Source,
         NEW of \in SUBSET Msgs, NEW last \in BOOLEAN, Say(d, op, k, of, last)
  PROVE  LET e == [op |-> op, msg |-> k, of |-> of, last |-> last]
         IN  /\ e \in Event
             /\ c = d => dialogue'[c] = Append(dialogue[c], e)
             /\ c # d => dialogue'[c] = dialogue[c]
BY DEF TypeOK, Say, Event

LEMMA DialogueSteps ==
  ASSUME TypeOK, NEW c \in Conns, [Next]_vars
  PROVE  DialogueStep(c)
<1>1. CASE UNCHANGED dialogue
  BY <1>1 DEF DialogueStep
<1>2. ASSUME NEW d \in Conns, Parsing(d), parser[d].phase \in {"head", "body"},
             NEW close \in BOOLEAN, NEW upgrade \in BOOLEAN,
             MessageComplete(d, close, upgrade)
      PROVE  DialogueStep(c)
  <2> DEFINE e == [op |-> "handle", msg |-> parser[d].msg, of |-> {},
                   last |-> close \/ upgrade]
  <2>0. /\ parser[d].msg \in Source /\ {} \in SUBSET Msgs
        /\ (close \/ upgrade) \in BOOLEAN
        /\ Say(d, "handle", parser[d].msg, {}, close \/ upgrade)
    BY <1>2 DEF MessageComplete, TypeOK, Parser
  <2>1. /\ e \in Event
        /\ c = d => dialogue'[c] = Append(dialogue[c], e)
        /\ c # d => dialogue'[c] = dialogue[c]
    BY <2>0, SayStep, Zenon
  <2>2. /\ parser'[d].msg = parser[d].msg
        /\ parser'[d].upgrade = upgrade
        /\ parser'[d].phase = NewMessage(close)
    BY <1>2 DEF MessageComplete, TypeOK, Parser
  <2>3. Handed(d, e)
    BY <1>2, <2>2 DEF Handed, MessageComplete, NewMessage
  <2> QED BY <2>1, <2>3 DEF DialogueStep
<1>3. ASSUME NEW d \in Conns, Execute(d) PROVE DialogueStep(c)
  <2>1. CASE RefuseUpgrade(d)
    <3> DEFINE e == [op |-> "refusal", msg |-> parser[d].msg, of |-> {}, last |-> TRUE]
    <3>1. /\ e \in Event
          /\ c = d => dialogue'[c] = Append(dialogue[c], e)
          /\ c # d => dialogue'[c] = dialogue[c]
      BY <2>1, SayStep DEF RefuseUpgrade, TypeOK, Parser
    <3>2. stream'[d].ready = "CLOSED"
      <4>1. \A s \in EvnWrite(stream[d]) : s \in Stream
        BY StreamTypes DEF TypeOK
      <4>2. \A s \in Stream : EvnDestroy(s).ready = "CLOSED"
        BY DEF Stream, EvnDestroy
      <4> QED BY <2>1, <4>1, <4>2 DEF RefuseUpgrade, TypeOK
    <3>3. Refused(d, e)
      BY <2>1, <3>2 DEF RefuseUpgrade, Refused, TypeOK
    <3> QED BY <3>1, <3>3 DEF DialogueStep
  <2>2. CASE BodilessComplete(d) \/ BodyComplete(d)
    BY <1>2, <2>2 DEF BodilessComplete, BodyComplete
  <2> QED
    BY <1>1, <1>3, <2>1, <2>2
       DEF Execute, OnStreamData, LateData, Refusing, MessageBegin, HeadersComplete,
           HandlerReturn, BufferDone, ByteRefused, CallbackFails, conn
<1>4. ASSUME NEW d \in Conns, NEW k \in Msgs, Application(d, k) PROVE DialogueStep(c)
  <2>1. k \in Source /\ Sources(response[d]) \subseteq Msgs
    BY BoundsAssumption, ResponseTypes DEF Msgs, Source, TypeOK
  <2>2. CASE SendResponse(d, k)
    <3> DEFINE e == [op |-> "response", msg |-> k, of |-> Sources(response[d]), last |-> FALSE]
    <3>1. /\ e \in Event
          /\ c = d => dialogue'[c] = Append(dialogue[c], e)
          /\ c # d => dialogue'[c] = dialogue[c]
      BY <2>1, <2>2, SayStep DEF SendResponse
    <3>2. Sources(response'[d]) \subseteq Sources(response[d]) \union {k}
      <4>1. \A s : Sources(Sent(response[d], s)) \subseteq Sources(response[d])
        BY SourcesGrow DEF TypeOK
      <4> QED BY <2>2, <4>1 DEF SendResponse, TypeOK
    <3>3. Answered(d, e)
      BY <2>2, <3>2 DEF SendResponse, Answered, Calling, CanSend
    <3> QED BY <3>1, <3>3 DEF DialogueStep
  <2>3. CASE EndAnswered(d, k)
    <3> DEFINE r == AddHeader(response[d], "Connection", k)
               e == [op |-> "response", msg |-> k, of |-> Sources(r), last |-> TRUE]
    <3>0. response[d] \in Response /\ "Connection" \in Fields /\ r \in Response
      BY ResponseTypes DEF TypeOK, Fields
    <3>1. Sources(r) \subseteq Sources(response[d]) \union {k}
      BY <3>0, SourcesGrow
    <3>2. Sources(r) \subseteq Msgs
      BY <2>1, <3>1
    <3>3. /\ e \in Event
          /\ c = d => dialogue'[c] = Append(dialogue[c], e)
          /\ c # d => dialogue'[c] = dialogue[c]
      BY <2>1, <2>3, <3>2, SayStep DEF EndAnswered
    <3>4. Sources(response'[d]) \subseteq Sources(response[d]) \union {k}
      <4>1. \A s : Sources(Sent(r, s)) \subseteq Sources(r)
        BY <3>0, SourcesGrow
      <4>2. PICK s : response' = [response EXCEPT ![d] = Sent(r, s)]
        BY <2>3 DEF EndAnswered
      <4> QED BY <3>1, <4>1, <4>2 DEF TypeOK
    <3>5. Closing(stream'[d])
      <4>1. PICK s \in SendOutcomes(stream[d], r) :
              \/ s.ready = "CLOSED" /\ stream' = [stream EXCEPT ![d] = s]
              \/ stream' = [stream EXCEPT ![d] = EvnEnd(s)]
              \/ ~Finished(s) /\ stream' = [stream EXCEPT ![d] = EndOnDrain(s)]
        BY <2>3 DEF EndAnswered
      <4>2. s \in Stream
        BY <3>0, StreamTypes DEF TypeOK
      <4>3. /\ s.ready = "CLOSED" => Closing(s)
            /\ Closing(EvnEnd(s))
            /\ ~Finished(s) => Closing(EndOnDrain(s))
        BY <4>2 DEF Stream, ReadyState, Closing, Writable, EvnEnd, EvnDestroy,
                    Finished, EndOnDrain
      <4> QED BY <4>1, <4>3 DEF TypeOK
    <3>6. Answered(d, e)
      BY <2>3, <3>1, <3>4, <3>5 DEF EndAnswered, Answered, Calling, CanSend
    <3> QED BY <3>3, <3>6 DEF DialogueStep
  <2> QED
    BY <1>1, <1>4, <2>2, <2>3
       DEF Application, SetResponseStatus, AddResponseHeader, ClearResponseHeaders,
           SetResponseBody, AddToResponseBody, ClearResponseBody, EndResponse,
           EndUnanswered, StaleCall
<1> QED
  BY <1>1, <1>3, <1>4
     DEF Next, vars, conn, StartServer, CloseServer, ServerFails, Accept,
         StreamCallback, OnStreamEnd, OnStreamTimeout, OnDrain, StreamError, OnStreamClose

\* The strengthening: a connection that is not accepted yet has said nothing,
\* so a new stream owes nothing.
CloseInv ==
  /\ StreamInv
  /\ CloseKept
  /\ \A c \in Conns : mem[c] = "none" => dialogue[c] = <<>>

LEMMA CloseInvInit == Init => CloseInv
<1>1. Init => CloseKept /\ \A c \in Conns : dialogue[c] = <<>>
  BY DEF Init, CloseKept
<1> QED BY <1>1, StreamInvInit DEF CloseInv

LEMMA CloseInvStep == CloseInv /\ [Next]_vars => CloseInv'
<1> SUFFICES ASSUME CloseInv, [Next]_vars PROVE CloseInv'
  OBVIOUS
<1>1. StreamInv'
  BY StreamInvStep DEF CloseInv
<1>2. ASSUME NEW c \in Conns
      PROVE  /\ StreamStep(c) /\ DialogueStep(c)
             /\ dialogue[c] \in Seq(Event)
  BY StreamSteps, DialogueSteps DEF CloseInv, StreamInv, TypeOK
<1>3. ASSUME NEW c \in Conns, mem'[c] = "none" PROVE dialogue'[c] = <<>>
  <2>1. mem[c] = "none" /\ dialogue[c] = <<>>
    BY <1>2, <1>3 DEF CloseInv, StreamStep, Untouched, Accepted, Served, Freed
  <2> QED
    BY <1>2, <2>1 DEF DialogueStep, Handed, Answered, Refused, Parsing, Live
<1>4. CloseKept'
  <2> SUFFICES ASSUME NEW c \in Conns, NEW i \in 1..Len(dialogue'[c]),
                      dialogue'[c][i].op = "response", dialogue'[c][i].last
               PROVE  Closing(stream'[c])
    BY DEF CloseKept, Closing, Writable
  <2>1. CASE i \in 1..Len(dialogue[c]) /\ dialogue'[c][i] = dialogue[c][i]
    <3>1. Closing(stream[c]) /\ mem[c] # "none"
      BY <2>1 DEF CloseInv, CloseKept, Closing
    <3> QED
      BY <1>2, <3>1 DEF StreamStep, Untouched, Accepted, Served, Freed, Kept
  <2>2. ASSUME NEW e \in Event, dialogue'[c] = Append(dialogue[c], e),
               Handed(c, e) \/ Answered(c, e) \/ Refused(c, e)
        PROVE  Closing(stream'[c])
    <3>1. CASE i = Len(dialogue[c]) + 1
      <4>1. dialogue'[c][i] = e
        BY <1>2, <2>2, <3>1
      <4> QED BY <2>2, <4>1 DEF Handed, Answered, Refused
    <3>2. CASE i \in 1..Len(dialogue[c])
      <4>1. dialogue'[c][i] = dialogue[c][i]
        BY <1>2, <2>2, <3>2
      <4> QED BY <2>1, <3>2, <4>1
    <3> QED BY <1>2, <2>2, <3>1, <3>2
  <2> QED BY <1>2, <2>1, <2>2 DEF DialogueStep
<1> QED BY <1>1, <1>3, <1>4 DEF CloseInv

\* A response that said "Connection: close" is kept to: whatever pipelined
\* requests, late answers, drains, FINs, timeouts and errors come before it,
\* the end of the stream is made or waits for bytes that are still to drain.
THEOREM CloseIsKept == Spec => []CloseKept
<1>1. CloseInv => CloseKept
  BY DEF CloseInv
<1> QED BY <1>1, CloseInvInit, CloseInvStep, PTL DEF Spec

\* Neither a timeout nor the application ends a stream that was ended.
THEOREM OnlyDrainEndsAgainHolds == Spec => []OnlyDrainEndsAgain
<1>1. EndInv => OnlyDrainEndsAgain
  BY DEF EndInv
<1> QED BY <1>1, EndInvInit, EndInvStep, PTL DEF Spec

\* No response is written to a stream that was ended, by whichever of the
\* timeout, the drain callback and the application came first.
THEOREM NoResponseAfterEndHolds == Spec => NoResponseAfterEnd
<1> DEFINE A == \A c \in Conns :
                  ends[c] # <<>> /\ dialogue'[c] # dialogue[c]
                    => dialogue'[c][Len(dialogue'[c])].op # "response"
<1>1. EndInv /\ [Next]_vars => A
  <2> SUFFICES ASSUME EndInv, [Next]_vars, NEW c \in Conns,
                      ends[c] # <<>>, dialogue'[c] # dialogue[c]
               PROVE  dialogue'[c][Len(dialogue'[c])].op # "response"
    OBVIOUS
  <2>1. TypeOK /\ Ended(stream[c])
    BY DEF EndInv, StreamInv
  <2>2. PICK e \in Event :
          /\ dialogue'[c] = Append(dialogue[c], e)
          /\ Handed(c, e) \/ Answered(c, e) \/ Refused(c, e)
    BY <2>1, DialogueSteps DEF DialogueStep
  <2>3. e.op # "response"
    BY <2>1, <2>2 DEF Handed, Answered, Refused
  <2>4. dialogue[c] \in Seq(Event)
    BY <2>1 DEF TypeOK
  <2>5. \A t : t = Append(dialogue[c], e) => t[Len(t)] = e
    BY <2>4
  <2>6. dialogue'[c][Len(dialogue'[c])] = e
    BY <2>2, <2>5
  <2> QED BY <2>3, <2>6
<1> QED BY <1>1, EndInvInit, EndInvStep, PTL DEF Spec, NoResponseAfterEnd

-----------------------------------------------------------------------------
(***************************************************************************)
(* Steps that leave the dialogue alone: what they do to the parser and the *)
(* response.                                                               *)
(***************************************************************************)

Resting(c) ==
  /\ parser'[c] = parser[c] /\ response'[c] = response[c] /\ held'[c] = held[c]
  /\ at'[c] # "handler" \/ at'[c] = at[c]

Began(c) ==
  /\ Parsing(c)
  /\ parser[c].phase = "start"
  /\ parser'[c].phase = "head" /\ parser'[c].msg = parser[c].msg + 1
  /\ parser'[c].upgrade = parser[c].upgrade
  /\ response'[c] = NoResponse /\ held'[c] = held[c]
  /\ at'[c] = at[c]

Advanced(c) ==
  /\ \/ parser'[c].phase = "error"
     \/ parser[c].phase = "head" /\ parser'[c].phase = "body"
  /\ parser'[c].msg = parser[c].msg /\ parser'[c].upgrade = parser[c].upgrade
  /\ response'[c] = response[c] /\ held'[c] = held[c]
  /\ at'[c] # "handler"

Filled(c) ==
  /\ \E k \in Msgs : /\ HasPointer(c, k)
                     /\ Sources(response'[c]) \subseteq Sources(response[c]) \union {k}
  /\ parser'[c] = parser[c] /\ held'[c] = held[c] /\ at'[c] = at[c]

Returned(c) ==
  /\ parser'[c] = parser[c] /\ response'[c] = response[c]
  /\ ~Async => held'[c] = held[c]
  /\ held'[c] \subseteq held[c] \union {parser[c].msg}
  /\ at[c] = "handler" /\ at'[c] = "parse"

PlainStep(c) ==
  Resting(c) \/ Began(c) \/ Advanced(c) \/ Filled(c) \/ Returned(c)

LEMMA PlainExecute ==
  ASSUME TypeOK, NEW c \in Conns, NEW d \in Conns, Execute(d),
         dialogue'[c] = dialogue[c]
  PROVE  PlainStep(c)
<1> USE DEF PlainStep, TypeOK
<1>0. ASSUME parser' = [parser EXCEPT ![d].phase = "error"], at' = [at EXCEPT ![d] = "idle"],
             UNCHANGED <<response, held>>
      PROVE  PlainStep(c)
  <2>1. CASE c = d
    <3>1. /\ parser'[c].phase = "error" /\ parser'[c].msg = parser[c].msg
          /\ parser'[c].upgrade = parser[c].upgrade
      BY <1>0, <2>1 DEF Parser
    <3> QED BY <1>0, <2>1, <3>1 DEF Advanced
  <2>2. CASE c # d
    BY <1>0, <2>2 DEF Resting
  <2> QED BY <2>1, <2>2
<1>1. ASSUME Refusing(d) PROVE PlainStep(c)
  BY <1>0, <1>1 DEF Refusing
<1>2. CASE OnStreamData(d)
  BY <1>2 DEF OnStreamData, conn, Resting
<1>3. CASE LateData(d)
  BY <1>1, <1>3 DEF LateData
<1>4. CASE MessageBegin(d)
  BY <1>4 DEF MessageBegin, ResetResponse, Resting, Began, Parser
<1>5. CASE HeadersComplete(d)
  BY <1>5 DEF HeadersComplete, Parsing, Resting, Advanced, Parser
<1>6. CASE BodilessComplete(d) \/ BodyComplete(d)
  <2>1. PICK close \in BOOLEAN, upgrade \in BOOLEAN : MessageComplete(d, close, upgrade)
    BY <1>6 DEF BodilessComplete, BodyComplete
  <2>2. c # d
    <3>1. dialogue'[d] # dialogue[d]
      BY <2>1 DEF MessageComplete, Say
    <3> QED BY <3>1
  <2> QED BY <2>1, <2>2 DEF MessageComplete, Resting
<1>7. CASE HandlerReturn(d)
  <2>1. /\ at' = [at EXCEPT ![d] = "parse"] /\ at[d] = "handler"
        /\ parser' = parser /\ response' = response
        /\ \E h \in {held[d], held[d] \union {parser[d].msg}} : held' = [held EXCEPT ![d] = h]
        /\ ~Async => held' = held
    <3>1. /\ at' = [at EXCEPT ![d] = "parse"] /\ at[d] = "handler"
          /\ parser' = parser /\ response' = response
      BY <1>7 DEF HandlerReturn
    <3>2. \/ held' = held
          \/ Async /\ held' = [held EXCEPT ![d] = @ \union {parser[d].msg}]
      BY <1>7, Zenon DEF HandlerReturn
    <3>3. held = [held EXCEPT ![d] = held[d]]
      OBVIOUS
    <3> QED BY <3>1, <3>2, <3>3, Zenon
  <2>2. CASE c = d
    BY <2>1, <2>2 DEF Returned
  <2>3. CASE c # d
    BY <2>1, <2>3 DEF Resting
  <2> QED BY <2>2, <2>3
<1>8. CASE BufferDone(d)
  BY <1>8 DEF BufferDone, conn, Resting
<1>9. CASE ByteRefused(d)
  BY <1>1, <1>9 DEF ByteRefused
<1>10. CASE CallbackFails(d)
  BY <1>0, <1>10 DEF CallbackFails
<1>11. CASE RefuseUpgrade(d)
  BY <1>11 DEF RefuseUpgrade, Resting
<1> QED
  BY <1>2, <1>3, <1>4, <1>5, <1>6, <1>7, <1>8, <1>9, <1>10, <1>11 DEF Execute

LEMMA PlainApplication ==
  ASSUME TypeOK, NEW c \in Conns, NEW d \in Conns, NEW k \in Msgs,
         Application(d, k), dialogue'[c] = dialogue[c]
  PROVE  PlainStep(c)
<1> USE DEF PlainStep, TypeOK
<1>1. response[d] \in Response
  OBVIOUS
<1>2. ASSUME NEW r, response' = [response EXCEPT ![d] = r], HasPointer(d, k),
             Sources(r) \subseteq Sources(response[d]) \union {k},
             UNCHANGED <<at, parser, held>>
      PROVE  PlainStep(c)
  BY <1>2 DEF Resting, Filled
<1>3. CASE UNCHANGED <<at, parser, response, held>>
  BY <1>3 DEF Resting
<1>4. CASE SetResponseStatus(d, k)
  <2>1. PICK withMessage \in BOOLEAN :
          response' = [response EXCEPT ![d].status = k,
                                       ![d].message = IF withMessage /\ ~Ended(stream[d])
                                                      THEN k ELSE @]
    BY <1>4 DEF SetResponseStatus
  <2> DEFINE r == [response[d] EXCEPT !.status = k,
                                      !.message = IF withMessage /\ ~Ended(stream[d])
                                                  THEN k ELSE @]
  <2>2. Sources(r) \subseteq Sources(response[d]) \union {k}
    BY <1>1 DEF Response, Sources
  <2> QED BY <1>2, <1>4, <2>1, <2>2 DEF SetResponseStatus, Calling
<1>5. CASE AddResponseHeader(d, k)
  <2>1. \A f \in Fields :
          Sources(AddHeader(response[d], f, k)) \subseteq Sources(response[d]) \union {k}
    BY <1>1, SourcesGrow
  <2> QED BY <1>2, <1>5, <2>1 DEF AddResponseHeader, Calling
<1>6. CASE ClearResponseHeaders(d, k)
  <2>1. Sources(ClearHeaders(response[d])) \subseteq Sources(response[d])
    BY <1>1, SourcesGrow
  <2> QED BY <1>2, <1>6, <2>1 DEF ClearResponseHeaders, Calling
<1>7. CASE SetResponseBody(d, k)
  <2>1. /\ ClearBody(response[d]) \in Response
        /\ Sources(ClearBody(response[d])) \subseteq Sources(response[d])
    BY <1>1, ResponseTypes, SourcesGrow
  <2>2. \A bytes, typed \in BOOLEAN :
          Sources(AddBody(ClearBody(response[d]), k, bytes, typed))
            \subseteq Sources(ClearBody(response[d])) \union {k}
    BY <2>1, SourcesGrow
  <2> QED BY <1>2, <1>7, <2>1, <2>2 DEF SetResponseBody, Calling
<1>8. CASE AddToResponseBody(d, k)
  <2>1. \A bytes, typed \in BOOLEAN :
          Sources(AddBody(response[d], k, bytes, typed)) \subseteq Sources(response[d]) \union {k}
    BY <1>1, SourcesGrow
  <2> QED BY <1>2, <1>8, <2>1 DEF AddToResponseBody, Calling
<1>9. CASE ClearResponseBody(d, k)
  <2>1. Sources(ClearBody(response[d])) \subseteq Sources(response[d])
    BY <1>1, SourcesGrow
  <2> QED BY <1>2, <1>9, <2>1 DEF ClearResponseBody, Calling
<1>10. CASE SendResponse(d, k)
  <2>1. c # d
    BY <1>10 DEF SendResponse, Say
  <2> QED BY <1>10, <2>1 DEF SendResponse, Resting
<1>11. CASE EndUnanswered(d, k)
  BY <1>3, <1>11 DEF EndUnanswered
<1>12. CASE EndAnswered(d, k)
  <2>1. c # d
    BY <1>12 DEF EndAnswered, Say
  <2>2. PICK r : response' = [response EXCEPT ![d] = r]
    BY <1>12 DEF EndAnswered
  <2> QED BY <1>12, <2>1, <2>2 DEF EndAnswered, Resting
<1>13. CASE StaleCall(d, k)
  BY <1>3, <1>13 DEF StaleCall
<1> QED
  BY <1>4, <1>5, <1>6, <1>7, <1>8, <1>9, <1>10, <1>11, <1>12, <1>13
     DEF Application, EndResponse

LEMMA PlainSteps ==
  ASSUME TypeOK, NEW c \in Conns, [Next]_vars, dialogue'[c] = dialogue[c]
  PROVE  PlainStep(c)
<1>1. CASE UNCHANGED <<at, parser, response, held>>
  BY <1>1 DEF PlainStep, Resting
<1> QED
  BY <1>1, PlainExecute, PlainApplication
     DEF Next, vars, conn, StartServer, CloseServer, ServerFails, Accept,
         StreamCallback, OnStreamEnd, OnStreamTimeout, OnDrain, StreamError, OnStreamClose

-----------------------------------------------------------------------------
(***************************************************************************)
(* Whose data a response carries, and which request is the last.           *)
(***************************************************************************)

\* Inside its handler, the only pointer to a response is the handler's, and
\* what the response holds was given since its request began.
OwnResponse ==
  ~Async => \A c \in Conns : /\ held[c] = {}
                            /\ Sources(response[c]) \subseteq {parser[c].msg}

\* After a request that is to be the last the parser starts no other one.
ParserStops ==
  \A c \in Conns : \A i \in 1..Len(dialogue[c]) :
    dialogue[c][i].op = "handle" /\ dialogue[c][i].last
      => parser[c].upgrade \/ parser[c].phase \in {"dead", "error"}

DialogueInv ==
  TypeOK /\ OwnResponse /\ ResponsePurity /\ ParserStops /\ LastRequestIsLast

LEMMA DialogueInvInit == Init => DialogueInv
<1>1. Sources(NoResponse) = {}
  BY DEF Sources, NoResponse
<1>2. Init => OwnResponse /\ ResponsePurity /\ ParserStops /\ LastRequestIsLast
  BY <1>1 DEF Init, OwnResponse, ResponsePurity, ParserStops, LastRequestIsLast
<1> QED BY <1>2, TypeInit DEF DialogueInv

LEMMA DialogueInvStep == DialogueInv /\ [Next]_vars => DialogueInv'
<1> SUFFICES ASSUME DialogueInv, [Next]_vars PROVE DialogueInv'
  OBVIOUS
<1>1. TypeOK /\ TypeOK'
  BY TypeStep DEF DialogueInv
<1>2. ASSUME NEW c \in Conns, dialogue'[c] = dialogue[c] PROVE PlainStep(c)
  BY <1>1, <1>2, PlainSteps
<1>3. ASSUME NEW c \in Conns, dialogue'[c] # dialogue[c]
      PROVE  \E e \in Event :
               /\ dialogue'[c] = Append(dialogue[c], e)
               /\ Handed(c, e) \/ Answered(c, e) \/ Refused(c, e)
  BY <1>1, <1>3, DialogueSteps DEF DialogueStep
<1>4. ASSUME NEW c \in Conns PROVE dialogue[c] \in Seq(Event)
  BY <1>1 DEF TypeOK
<1>5. ASSUME ~Async, NEW c \in Conns
      PROVE  held[c] = {} /\ Sources(response[c]) \subseteq {parser[c].msg}
  BY <1>5 DEF DialogueInv, OwnResponse
<1>6. ASSUME ~Async, NEW c \in Conns, NEW k, HasPointer(c, k) PROVE k = parser[c].msg
  BY <1>5, <1>6 DEF HasPointer
<1>7. OwnResponse'
  <2> SUFFICES ASSUME ~Async, NEW c \in Conns
               PROVE  held'[c] = {} /\ Sources(response'[c]) \subseteq {parser'[c].msg}
    BY DEF OwnResponse, Sources
  <2>1. Sources(NoResponse) = {}
    BY DEF Sources, NoResponse
  <2>2. CASE dialogue'[c] = dialogue[c]
    <3>1. CASE Resting(c) \/ Advanced(c) \/ Returned(c)
      BY <1>5, <3>1 DEF Resting, Advanced, Returned
    <3>2. CASE Began(c)
      BY <1>5, <2>1, <3>2 DEF Began
    <3>3. CASE Filled(c)
      BY <1>5, <1>6, <3>3 DEF Filled
    <3> QED BY <1>2, <2>2, <3>1, <3>2, <3>3 DEF PlainStep
  <2>3. ASSUME NEW e \in Event, Handed(c, e) \/ Answered(c, e) \/ Refused(c, e)
        PROVE  held'[c] = {} /\ Sources(response'[c]) \subseteq {parser'[c].msg}
    BY <1>5, <1>6, <2>3 DEF Handed, Answered, Refused
  <2> QED BY <1>3, <2>2, <2>3
<1>8. ResponsePurity'
  <2> SUFFICES ASSUME ~Async, NEW c \in Conns, NEW i \in 1..Len(dialogue'[c]),
                      dialogue'[c][i].op = "response"
               PROVE  dialogue'[c][i].of \subseteq {dialogue'[c][i].msg}
    BY DEF ResponsePurity
  <2>1. CASE dialogue'[c] = dialogue[c]
    BY <2>1 DEF DialogueInv, ResponsePurity
  <2>2. ASSUME NEW e \in Event, dialogue'[c] = Append(dialogue[c], e),
               Handed(c, e) \/ Answered(c, e) \/ Refused(c, e)
        PROVE  dialogue'[c][i].of \subseteq {dialogue'[c][i].msg}
    <3>1. CASE i = Len(dialogue[c]) + 1
      <4>1. dialogue'[c][i] = e
        BY <1>4, <2>2, <3>1
      <4>2. Answered(c, e)
        BY <2>2, <4>1 DEF Handed, Refused
      <4> QED BY <1>5, <1>6, <4>1, <4>2 DEF Answered
    <3>2. CASE i \in 1..Len(dialogue[c])
      <4>1. dialogue'[c][i] = dialogue[c][i]
        BY <1>4, <2>2, <3>2
      <4> QED BY <3>2, <4>1 DEF DialogueInv, ResponsePurity
    <3> QED BY <1>4, <2>2, <3>1, <3>2
  <2> QED BY <1>3, <2>1, <2>2
<1>9. ParserStops'
  <2> SUFFICES ASSUME NEW c \in Conns, NEW i \in 1..Len(dialogue'[c]),
                      dialogue'[c][i].op = "handle", dialogue'[c][i].last
               PROVE  parser'[c].upgrade \/ parser'[c].phase \in {"dead", "error"}
    BY DEF ParserStops
  <2>1. CASE dialogue'[c] = dialogue[c]
    <3>1. parser[c].upgrade \/ parser[c].phase \in {"dead", "error"}
      BY <2>1 DEF DialogueInv, ParserStops
    <3> QED
      BY <1>2, <2>1, <3>1
         DEF PlainStep, Resting, Began, Advanced, Filled, Returned, Parsing
  <2>2. ASSUME NEW e \in Event, dialogue'[c] = Append(dialogue[c], e),
               Handed(c, e) \/ Answered(c, e) \/ Refused(c, e)
        PROVE  parser'[c].upgrade \/ parser'[c].phase \in {"dead", "error"}
    <3>1. CASE i = Len(dialogue[c]) + 1
      <4>1. dialogue'[c][i] = e
        BY <1>4, <2>2, <3>1
      <4> QED BY <2>2, <4>1 DEF Handed, Answered, Refused
    <3>2. CASE i \in 1..Len(dialogue[c])
      <4>1. dialogue'[c][i] = dialogue[c][i]
        BY <1>4, <2>2, <3>2
      <4>2. parser[c].upgrade \/ parser[c].phase \in {"dead", "error"}
        BY <3>2, <4>1 DEF DialogueInv, ParserStops
      <4> QED BY <2>2, <4>2 DEF Handed, Answered, Refused, Parsing
    <3> QED BY <1>4, <2>2, <3>1, <3>2
  <2> QED BY <1>3, <2>1, <2>2
<1>10. LastRequestIsLast'
  <2> SUFFICES ASSUME NEW c \in Conns, NEW i \in 1..Len(dialogue'[c]),
                      NEW j \in 1..Len(dialogue'[c]),
                      dialogue'[c][i].op = "handle", dialogue'[c][i].last, i < j
               PROVE  dialogue'[c][j].op # "handle"
    BY DEF LastRequestIsLast
  <2>1. CASE dialogue'[c] = dialogue[c]
    BY <2>1 DEF DialogueInv, LastRequestIsLast
  <2>2. ASSUME NEW e \in Event, dialogue'[c] = Append(dialogue[c], e),
               Handed(c, e) \/ Answered(c, e) \/ Refused(c, e)
        PROVE  dialogue'[c][j].op # "handle"
    <3>1. i \in 1..Len(dialogue[c]) /\ dialogue'[c][i] = dialogue[c][i]
      BY <1>4, <2>2
    <3>2. CASE j = Len(dialogue[c]) + 1
      <4>1. dialogue'[c][j] = e
        BY <1>4, <2>2, <3>2
      <4>2. parser[c].upgrade \/ parser[c].phase \in {"dead", "error"}
        BY <3>1 DEF DialogueInv, ParserStops
      <4> QED BY <2>2, <4>1, <4>2 DEF Handed, Answered, Refused, Parsing
    <3>3. CASE j \in 1..Len(dialogue[c])
      <4>1. dialogue'[c][j] = dialogue[c][j]
        BY <1>4, <2>2, <3>3
      <4> QED BY <3>1, <3>3, <4>1 DEF DialogueInv, LastRequestIsLast
    <3> QED BY <1>4, <2>2, <3>2, <3>3
  <2> QED BY <1>3, <2>1, <2>2
<1> QED BY <1>1, <1>7, <1>8, <1>9, <1>10 DEF DialogueInv

\* Nothing given for one request of a connection is sent in the response to
\* another one, if the application answers inside its handlers.
THEOREM ResponsePurityHolds == Spec => []ResponsePurity
<1>1. DialogueInv => ResponsePurity
  BY DEF DialogueInv
<1> QED BY <1>1, DialogueInvInit, DialogueInvStep, PTL DEF Spec

\* No request follows one that asked for the end of the connection, or for
\* an upgrade.
THEOREM LastRequestHolds == Spec => []LastRequestIsLast
<1>1. DialogueInv => LastRequestIsLast
  BY DEF DialogueInv
<1> QED BY <1>1, DialogueInvInit, DialogueInvStep, PTL DEF Spec

-----------------------------------------------------------------------------
(***************************************************************************)
(* The order of the dialogue.                                              *)
(***************************************************************************)

\* No request is answered before it was handed over, and none is handed over
\* that is not newer than all that was said.
OrderedConn(c) ==
  /\ \A i \in 1..Len(dialogue[c]) : dialogue[c][i].msg <= parser[c].msg
  /\ \A k \in held[c] : k <= parser[c].msg
  /\ parser[c].phase \in {"head", "body"} =>
       /\ at[c] # "handler"
       /\ ~parser[c].upgrade
       /\ \A i \in 1..Len(dialogue[c]) : dialogue[c][i].msg < parser[c].msg
       /\ \A k \in held[c] : k < parser[c].msg
  /\ at[c] = "handler" \/ parser[c].upgrade =>
       /\ dialogue[c] # <<>>
       /\ ~Async => dialogue[c][Len(dialogue[c])].msg = parser[c].msg

Ordered == \A c \in Conns : OrderedConn(c)

SessionInv == StreamInv /\ DialogueInv /\ Ordered

LEMMA SessionInvInit == Init => SessionInv
<1>1. Init => Ordered
  BY DEF Init, Ordered, OrderedConn
<1> QED BY <1>1, StreamInvInit, DialogueInvInit DEF SessionInv

LEMMA Numbers ==
  ASSUME TypeOK, NEW c \in Conns
  PROVE  /\ parser[c].msg \in Nat
         /\ \A k \in held[c] : k \in Nat
         /\ dialogue[c] \in Seq(Event)
         /\ \A i \in 1..Len(dialogue[c]) : dialogue[c][i].msg \in Nat
         /\ \A e \in Event : e.msg \in Nat
<1>1. Source \subseteq Nat
  BY BoundsAssumption DEF Source
<1>2. parser[c] \in Parser /\ held[c] \subseteq Source /\ dialogue[c] \in Seq(Event)
  BY DEF TypeOK
<1>3. \A e \in Event : e.msg \in Nat
  BY <1>1 DEF Event
<1>4. \A i \in 1..Len(dialogue[c]) : dialogue[c][i] \in Event
  BY <1>2
<1> QED BY <1>1, <1>2, <1>3, <1>4 DEF Parser

\* Nothing is said.
LEMMA OrderedQuiet ==
  ASSUME TypeOK, NEW c \in Conns, OrderedConn(c), PlainStep(c),
         dialogue'[c] = dialogue[c]
  PROVE  OrderedConn(c)'
<1>1. /\ parser[c].msg \in Nat
      /\ \A k \in held[c] : k \in Nat
      /\ \A i \in 1..Len(dialogue[c]) : dialogue[c][i].msg \in Nat
  BY Numbers
<1>2. CASE Resting(c) \/ Advanced(c) \/ Filled(c)
  BY <1>1, <1>2 DEF OrderedConn, Resting, Advanced, Filled
<1>3. CASE Began(c)
  BY <1>1, <1>3 DEF OrderedConn, Began, Parsing
<1>4. CASE Returned(c)
  BY <1>1, <1>4 DEF OrderedConn, Returned
<1> QED BY <1>2, <1>3, <1>4 DEF PlainStep

\* e is said.
LEMMA OrderedSaid ==
  ASSUME TypeOK, OwnResponse, NEW c \in Conns, OrderedConn(c), NEW e \in Event,
         dialogue'[c] = Append(dialogue[c], e),
         Handed(c, e) \/ Answered(c, e) \/ Refused(c, e)
  PROVE  OrderedConn(c)'
<1>1. /\ parser[c].msg \in Nat /\ e.msg \in Nat
      /\ \A k \in held[c] : k \in Nat
      /\ dialogue[c] \in Seq(Event)
      /\ \A i \in 1..Len(dialogue[c]) : dialogue[c][i].msg \in Nat
  BY Numbers
<1>2. /\ Len(dialogue'[c]) = Len(dialogue[c]) + 1
      /\ dialogue'[c] # <<>>
      /\ dialogue'[c][Len(dialogue'[c])] = e
      /\ \A i \in 1..Len(dialogue'[c]) :
           \/ i \in 1..Len(dialogue[c]) /\ dialogue'[c][i] = dialogue[c][i]
           \/ dialogue'[c][i] = e
  <2>1. ASSUME NEW t, t = Append(dialogue[c], e)
        PROVE  /\ Len(t) = Len(dialogue[c]) + 1
               /\ t # <<>>
               /\ t[Len(t)] = e
               /\ \A i \in 1..Len(t) : \/ i \in 1..Len(dialogue[c]) /\ t[i] = dialogue[c][i]
                                     \/ t[i] = e
    BY <1>1, <2>1
  <2> QED BY <2>1
<1>3. CASE Handed(c, e)
  BY <1>1, <1>2, <1>3 DEF OrderedConn, Handed
<1>4. CASE Answered(c, e)
  <2>1. /\ e.msg <= parser[c].msg
        /\ parser[c].phase \in {"head", "body"} => e.msg < parser[c].msg
    BY <1>1, <1>4 DEF OrderedConn, Answered, HasPointer
  <2>2. ~Async => e.msg = parser[c].msg
    BY <1>4 DEF Answered, HasPointer, OwnResponse
  <2> QED BY <1>1, <1>2, <1>4, <2>1, <2>2 DEF OrderedConn, Answered
<1>5. CASE Refused(c, e)
  BY <1>1, <1>2, <1>5 DEF OrderedConn, Refused
<1> QED BY <1>3, <1>4, <1>5

LEMMA SessionInvStep == SessionInv /\ [Next]_vars => SessionInv'
<1> SUFFICES ASSUME SessionInv, [Next]_vars PROVE SessionInv'
  OBVIOUS
<1>1. StreamInv' /\ DialogueInv'
  BY StreamInvStep, DialogueInvStep DEF SessionInv
<1>2. TypeOK /\ OwnResponse
  BY DEF SessionInv, DialogueInv
<1>3. ASSUME NEW c \in Conns PROVE OrderedConn(c)'
  <2>1. OrderedConn(c)
    BY DEF SessionInv, Ordered
  <2>2. CASE dialogue'[c] = dialogue[c]
    BY <1>2, <2>1, <2>2, PlainSteps, OrderedQuiet
  <2>3. CASE dialogue'[c] # dialogue[c]
    BY <1>2, <2>1, <2>3, DialogueSteps, OrderedSaid DEF DialogueStep
  <2> QED BY <2>2, <2>3
<1>4. Ordered'
  BY <1>3 DEF Ordered
<1> QED BY <1>1, <1>4 DEF SessionInv

-----------------------------------------------------------------------------
(***************************************************************************)
(* A step is a step of one connection.                                     *)
(***************************************************************************)

\* Neither side of the dialogue of c notices anything.
Unnoticed(c) == Untouched(c) /\ dialogue'[c] = dialogue[c]

LEMMA OneConnection ==
  ASSUME TypeOK, [Next]_vars
  PROVE  \/ UNCHANGED <<mem, stream, dialogue>>
         \/ \E d \in Conns : \A c \in Conns \ {d} : Unnoticed(c)
<1> USE DEF TypeOK, Unnoticed, Untouched
<1>1. ASSUME NEW d \in Conns, Accept(d)
      PROVE  \A c \in Conns \ {d} : Unnoticed(c)
  BY <1>1 DEF Accept
<1>2. ASSUME NEW d \in Conns, Execute(d)
      PROVE  \A c \in Conns \ {d} : Unnoticed(c)
  BY <1>2 DEF Execute, OnStreamData, LateData, Refusing, MessageBegin, HeadersComplete,
              BodilessComplete, BodyComplete, MessageComplete, HandlerReturn,
              BufferDone, ByteRefused, CallbackFails, RefuseUpgrade, Say, conn
<1>3. ASSUME NEW d \in Conns, StreamCallback(d)
      PROVE  \A c \in Conns \ {d} : Unnoticed(c)
  BY <1>3 DEF StreamCallback, OnStreamEnd, OnStreamTimeout, OnDrain, StreamError,
              OnStreamClose
<1>4. ASSUME NEW d \in Conns, NEW k \in Msgs, Application(d, k)
      PROVE  \A c \in Conns \ {d} : Unnoticed(c)
  BY <1>4 DEF Application, SetResponseStatus, AddResponseHeader, ClearResponseHeaders,
              SetResponseBody, AddToResponseBody, ClearResponseBody, SendResponse,
              EndResponse, EndUnanswered, EndAnswered, StaleCall, Say
<1> QED
  BY <1>1, <1>2, <1>3, <1>4
     DEF Next, vars, conn, StartServer, CloseServer, ServerFails

-----------------------------------------------------------------------------
(***************************************************************************)
(* The refinement mapping.                                                 *)
(***************************************************************************)

phases == [c \in Conns |-> Phase(c)]

\* What a phase stands for.
LEMMA Phases ==
  ASSUME TypeOK, LifeCycle, NEW c \in Conns
  PROVE  /\ Phase(c) \in Session!Phase
         /\ Phase(c) = "absent" <=> mem[c] = "none"
         /\ Phase(c) = "freed" <=> mem[c] = "freed"
         /\ Phase(c) = "open" <=> mem[c] = "live" /\ ~Ended(stream[c])
         /\ Phase(c) = "closed" <=> mem[c] = "live" /\ stream[c].ready = "CLOSED"
BY DEF TypeOK, LifeCycle, Phase, Session!Phase, Stream, ReadyState, Ended, Writable

\* What happens to the phase of a connection of which nothing is said.
LEMMA SilentPhase ==
  ASSUME TypeOK, LifeCycle, TypeOK', LifeCycle', NEW c \in Conns, StreamStep(c)
  PROVE  \/ Phase(c)' = Phase(c)
         \/ Phase(c) = "absent" /\ Phase(c)' = "open"
         \/ Phase(c) = "open" /\ Phase(c)' = "ended"
         \/ Phase(c) \in {"open", "ended"} /\ Phase(c)' = "closed"
         \/ Phase(c) = "closed" /\ Phase(c)' = "freed"
<1>1. CASE Untouched(c)
  BY <1>1 DEF Untouched, Phase
<1>2. CASE Accepted(c)
  BY <1>2, Phases DEF Accepted, Phase, NewStream, NoStream, Writable
<1>3. CASE Served(c)
  <2>1. /\ mem'[c] = "live" /\ mem[c] = "live"
        /\ Ended(stream[c]) => Ended(stream'[c])
        /\ stream[c].ready = "CLOSED" => stream'[c].ready = "CLOSED"
    BY <1>3 DEF Served, Kept
  <2>2. stream[c].ready # "ABSENT" /\ stream'[c].ready # "ABSENT"
    BY <2>1 DEF LifeCycle
  <2>3. stream[c].ready \in ReadyState /\ stream'[c].ready \in ReadyState
    BY DEF TypeOK, Stream
  <2> QED BY <2>1, <2>2, <2>3 DEF Phase, Ended, Writable, ReadyState
<1>4. CASE Freed(c)
  <2>1. Phase(c)' = "freed"
    BY <1>4 DEF Freed, Phase
  <2>2. Phase(c) \in {"closed", "freed"}
    BY <1>4 DEF Freed, Phase, LifeCycle, TypeOK, Writable
  <2> QED BY <2>1, <2>2
<1> QED BY <1>1, <1>2, <1>3, <1>4 DEF StreamStep

LEMMA InitRefines == Init => Session!Init
BY DEF Init, Session!Init, Phase

LEMMA NextRefines ==
  ASSUME SessionInv, SessionInv', [Next]_vars
  PROVE  [Session!Next]_Session!vars
<1>1. /\ TypeOK /\ LifeCycle /\ OwnResponse /\ ResponsePurity /\ LastRequestIsLast
      /\ ParserStops /\ Ordered
      /\ TypeOK' /\ LifeCycle' /\ ResponsePurity'
  BY DEF SessionInv, StreamInv, DialogueInv
<1>2. ASSUME NEW c \in Conns, Unnoticed(c) PROVE Phase(c)' = Phase(c)
  BY <1>2 DEF Unnoticed, Untouched, Phase
<1>3. CASE UNCHANGED <<mem, stream, dialogue>>
  BY <1>3 DEF Phase, Session!vars
<1>4. ASSUME NEW d \in Conns, \A c \in Conns \ {d} : Unnoticed(c)
      PROVE  [Session!Next]_Session!vars
  <2>1. /\ phases' = [phases EXCEPT ![d] = Phase(d)']
        /\ phases[d] = Phase(d)
    BY <1>2, <1>4 DEF phases
  <2>2. dialogue' = [dialogue EXCEPT ![d] = dialogue'[d]]
    BY <1>1, <1>4 DEF Unnoticed, TypeOK
  <2>3. StreamStep(d)
    BY <1>1, StreamSteps
  <2>4. CASE dialogue'[d] = dialogue[d]
    <3>1. dialogue' = dialogue
      BY <1>1, <2>2, <2>4 DEF TypeOK
    <3>2. CASE Phase(d)' = Phase(d)
      <4>1. phases' = phases
        BY <2>1, <3>2 DEF phases
      <4> QED BY <3>1, <4>1 DEF Session!vars, phases
    <3>3. CASE Phase(d) = "absent" /\ Phase(d)' = "open"
      <4>1. Session!Open(d)
        BY <2>1, <3>1, <3>3 DEF Session!Open, Session!Move, phases
      <4> QED BY <4>1 DEF Session!Next
    <3>4. CASE Phase(d) = "open" /\ Phase(d)' = "ended"
      <4>1. Session!End(d)
        BY <2>1, <3>1, <3>4 DEF Session!End, Session!Move, phases
      <4> QED BY <4>1 DEF Session!Next
    <3>5. CASE Phase(d) \in {"open", "ended"} /\ Phase(d)' = "closed"
      <4>1. Session!Close(d)
        BY <2>1, <3>1, <3>5 DEF Session!Close, Session!Move, phases
      <4> QED BY <4>1 DEF Session!Next
    <3>6. CASE Phase(d) = "closed" /\ Phase(d)' = "freed"
      <4>1. Session!Reclaim(d)
        BY <2>1, <3>1, <3>6 DEF Session!Reclaim, Session!Move, phases
      <4> QED BY <4>1 DEF Session!Next
    <3> QED BY <1>1, <2>3, <3>2, <3>3, <3>4, <3>5, <3>6, SilentPhase
  <2>5. CASE dialogue'[d] # dialogue[d]
    <3>1. PICK e \in Event :
            /\ dialogue'[d] = Append(dialogue[d], e)
            /\ Handed(d, e) \/ Answered(d, e) \/ Refused(d, e)
      BY <1>1, <2>5, DialogueSteps DEF DialogueStep
    <3>2. /\ dialogue[d] \in Seq(Event)
          /\ dialogue'[d] # <<>>
          /\ dialogue'[d][Len(dialogue'[d])] = e
      <4>1. dialogue[d] \in Seq(Event)
        BY <1>1 DEF TypeOK
      <4> QED BY <3>1, <4>1
    <3>3. Session!Said(d) = e /\ Session!Say(d)
      BY <2>2, <3>1, <3>2 DEF Session!Said, Session!Say
    <3>4. OrderedConn(d)
      BY <1>1 DEF Ordered
    <3>5. CASE Handed(d, e)
      <4>1. Phase(d)' = Phase(d)
        BY <3>5 DEF Handed, Phase
      <4>2. phases' = phases
        BY <2>1, <4>1 DEF phases
      <4>3. Phase(d) \in {"open", "ended", "closed"}
        BY <1>1, <3>5, Phases DEF Handed, Parsing, Live, Session!Phase
      <4>4. \A i \in 1..Len(dialogue[d]) : dialogue[d][i].msg < e.msg
        BY <3>4, <3>5 DEF OrderedConn, Handed
      <4>5. \A i \in 1..Len(dialogue[d]) : dialogue[d][i].op = "handle" => ~dialogue[d][i].last
        BY <1>1, <3>5 DEF ParserStops, Handed, Parsing
      <4>6. Session!Handle(d)
        BY <2>1, <3>3, <3>5, <4>2, <4>3, <4>4, <4>5 DEF Session!Handle, Handed, phases
      <4> QED BY <4>6 DEF Session!Next
    <3>6. ASSUME Answered(d, e) \/ Refused(d, e) PROVE Session!AnswersLatest(d)
      <4> SUFFICES ASSUME ~Async
                   PROVE  /\ dialogue[d] # <<>>
                          /\ e.msg = dialogue[d][Len(dialogue[d])].msg
                          /\ e.of \subseteq {e.msg}
        BY <3>3 DEF Session!AnswersLatest
      <4>1. held[d] = {} /\ Sources(response[d]) \subseteq {parser[d].msg}
        BY <1>1 DEF OwnResponse
      <4>2. CASE Answered(d, e)
        BY <3>4, <4>1, <4>2 DEF Answered, HasPointer, OrderedConn
      <4>3. CASE Refused(d, e)
        BY <3>4, <4>3 DEF Refused, OrderedConn
      <4> QED BY <3>6, <4>2, <4>3
    <3>7. CASE Answered(d, e)
      <4>1. Phase(d) = "open"
        BY <1>1, <3>7, Phases DEF Answered, Live
      <4>2. Phase(d)' \in {"open", "ended", "closed"}
        BY <1>1, <2>3, <4>1, SilentPhase
      <4>3. Session!Respond(d)
        BY <2>1, <3>3, <3>6, <3>7, <4>1, <4>2
           DEF Session!Respond, Session!Move, Answered, phases
      <4> QED BY <4>3 DEF Session!Next
    <3>8. CASE Refused(d, e)
      <4>1. Phase(d) \in {"open", "ended", "closed"}
        BY <1>1, <3>8, Phases DEF Refused, Live, Session!Phase
      <4>2. Phase(d)' = "closed"
        BY <3>8 DEF Refused, Live, Phase, Writable
      <4>3. Session!Refuse(d)
        BY <2>1, <3>3, <3>6, <3>8, <4>1, <4>2
           DEF Session!Refuse, Session!Move, Refused, phases
      <4> QED BY <4>3 DEF Session!Next
    <3> QED BY <3>1, <3>5, <3>7, <3>8
  <2> QED BY <2>4, <2>5
<1> QED BY <1>1, <1>3, <1>4, OneConnection

\* Seen from the peer and the application, the server does nothing that an
\* HttpSession does not: connections are opened, ended and reclaimed once,
\* requests arrive in order and none after the last, responses are written to
\* open connections only and, from handlers, answer the latest request.
THEOREM ServerIsSession == Spec => SessionSpec
<1>1. SessionInv /\ [Next]_vars => [Session!Next]_Session!vars
  BY SessionInvStep, NextRefines
<1>2. Spec => []SessionInv
  BY SessionInvInit, SessionInvStep, PTL DEF Spec
<1> QED BY <1>1, <1>2, InitRefines, PTL DEF Spec, SessionSpec, Session!Spec
=============================================================================

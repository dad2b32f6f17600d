---------------------------- MODULE HttpSession -----------------------------
(***************************************************************************)
(* What a connection promises to the two sides of an HTTP dialogue, with   *)
(* no parser, no buffers and no event loop.  A connection is opened once,  *)
(* ended once and reclaimed once; requests are handed to the application   *)
(* in order and none after one that asked to be the last; a response is    *)
(* written only while the connection is open, answers the latest request   *)
(* and is made only of data given for that request.                        *)
(***************************************************************************)
EXTENDS Naturals, Sequences

CONSTANTS
  Conns,   \* connections
  Async    \* TRUE: the application answers after its handler has returned

VARIABLES
  phase,      \* where each connection is in its life
  dialogue    \* what was handed to the application and to the peer so far

vars == <<phase, dialogue>>

Phase == {"absent", "open", "ended", "closed", "freed"}

Init ==
  /\ phase = [c \in Conns |-> "absent"]
  /\ dialogue = [c \in Conns |-> <<>>]

Move(c, from, to) ==
  /\ phase[c] \in from
  /\ phase' = [phase EXCEPT ![c] = to]

\* What is appended to the dialogue of c.
Said(c) == dialogue'[c][Len(dialogue'[c])]

Say(c) ==
  /\ dialogue'[c] # <<>>
  /\ dialogue' = [dialogue EXCEPT ![c] = Append(@, Said(c))]

Open(c) ==
  /\ Move(c, {"absent"}, "open")
  /\ UNCHANGED dialogue

\* A request reaches the application: a later one than all before it, and
\* none after one that was to be the last.
Handle(c) ==
  /\ phase[c] \in {"open", "ended", "closed"}
  /\ Say(c)
  /\ Said(c).op = "handle"
  /\ \A i \in 1..Len(dialogue[c]) :
       /\ dialogue[c][i].op = "handle" => ~dialogue[c][i].last
       /\ dialogue[c][i].msg < Said(c).msg
  /\ UNCHANGED phase

\* It answers the latest request, with that request's data.
AnswersLatest(c) ==
  Async \/
  /\ dialogue[c] # <<>>
  /\ Said(c).msg = dialogue[c][Len(dialogue[c])].msg
  /\ Said(c).of \subseteq {Said(c).msg}

\* A response is written; the write, or the end that follows it, may also
\* end or close the connection.
Respond(c) ==
  /\ \E to \in {"open", "ended", "closed"} : Move(c, {"open"}, to)
  /\ Say(c)
  /\ Said(c).op = "response"
  /\ AnswersLatest(c)

End(c) ==
  /\ Move(c, {"open"}, "ended")
  /\ UNCHANGED dialogue

Close(c) ==
  /\ Move(c, {"open", "ended"}, "closed")
  /\ UNCHANGED dialogue

\* An upgrade is refused: the connection is closed on the spot.
Refuse(c) ==
  /\ Move(c, {"open", "ended", "closed"}, "closed")
  /\ Say(c)
  /\ Said(c).op = "refusal"
  /\ AnswersLatest(c)

Reclaim(c) ==
  /\ Move(c, {"closed"}, "freed")
  /\ UNCHANGED dialogue

Next ==
  \E c \in Conns :
    Open(c) \/ Handle(c) \/ Respond(c) \/ End(c) \/ Close(c) \/ Refuse(c) \/ Reclaim(c)

Spec == Init /\ [][Next]_vars
=============================================================================

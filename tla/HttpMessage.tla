---------------------------- MODULE HttpMessage -----------------------------
(***************************************************************************)
(* What the application gets of the bytes of a connection, if these came   *)
(* one at a time: a request is built byte by byte and given to the handler *)
(* when it is complete.  There are no buffers here, so whatever implements *)
(* this cannot let the request depend on how its bytes were cut.           *)
(***************************************************************************)
EXTENDS Naturals, Sequences

VARIABLES
  stage,      \* the part of a message the next byte belongs to
  building,   \* the request made of the bytes so far
  given,      \* the request the handler was called with, until the next begins
  read        \* the bytes of texts read of this message

vars == <<stage, building, given, read>>

Stage == {"start", "line", "head", "body", "trailer", "dead", "error"}

(***************************************************************************)
(* Texts are represented by their lengths.  valued is FALSE for a line that*)
(* still misses its value.                                                 *)
(***************************************************************************)
Line == [field : Nat, value : Nat, valued : BOOLEAN]
Request == [url : Nat, lines : Seq(Line), body : Nat]

Empty == [url |-> 0, lines |-> <<>>, body |-> 0]

Init ==
  /\ stage = "start"
  /\ building = Empty
  /\ given = Empty
  /\ read = 0

Begin ==
  /\ stage = "start"
  /\ stage' = "line"
  /\ building' = Empty
  /\ given' = Empty
  /\ read' = 0

UrlByte ==
  /\ stage = "line"
  /\ building' = [building EXCEPT !.url = @ + 1]
  /\ read' = read + 1
  /\ UNCHANGED <<stage, given>>

HeadBegins ==
  /\ stage = "line"
  /\ building.url > 0
  /\ stage' = "head"
  /\ UNCHANGED <<building, given, read>>

(***************************************************************************)
(* A byte of a header's name.  A name that follows a line without a value  *)
(* (there was no colon on it) continues that line's name.                  *)
(***************************************************************************)
NameByte(last) ==
  /\ stage \in {"head", "trailer"}
  /\ \/ /\ last = 0 \/ building.lines[last].valued
        /\ building' = [building EXCEPT !.lines =
                          Append(@, [field |-> 1, value |-> 0, valued |-> FALSE])]
     \/ /\ last > 0 /\ ~building.lines[last].valued
        /\ building' = [building EXCEPT !.lines[last].field = @ + 1]
  /\ read' = read + 1
  /\ UNCHANGED <<stage, given>>

\* A byte of its value, or (n = 0) a value that is empty.
ValueByte(last) ==
  /\ stage \in {"head", "trailer"}
  /\ last > 0
  /\ \E n \in {0, 1} :
       /\ building' = [building EXCEPT !.lines[last].value = @ + n,
                                       !.lines[last].valued = TRUE]
       /\ read' = read + n
  /\ UNCHANGED <<stage, given>>

BodyBegins ==
  /\ stage = "head"
  /\ stage' = "body"
  /\ UNCHANGED <<building, given, read>>

BodyByte ==
  /\ stage = "body"
  /\ building' = [building EXCEPT !.body = @ + 1]
  /\ read' = read + 1
  /\ UNCHANGED <<stage, given>>

TrailerBegins ==
  /\ stage = "body"
  /\ stage' = "trailer"
  /\ UNCHANGED <<building, given, read>>

\* The blank line, or the last byte of the body: the handler gets all of it.
Complete ==
  /\ \/ /\ stage \in {"head", "trailer"}
        /\ UNCHANGED <<building, read>>
     \/ /\ stage = "body"
        /\ building' = [building EXCEPT !.body = @ + 1]
        /\ read' = read + 1
  /\ given' = building'
  /\ stage' \in {"start", "dead"}

\* Nothing follows an error.
Fail ==
  /\ stage # "error"
  /\ stage' = "error"
  /\ building' = Empty
  /\ read' = 0
  /\ UNCHANGED given

Next ==
  \/ Begin \/ UrlByte \/ HeadBegins
  \/ NameByte(Len(building.lines)) \/ ValueByte(Len(building.lines))
  \/ BodyBegins \/ BodyByte \/ TrailerBegins \/ Complete \/ Fail

Spec == Init /\ [][Next]_vars
=============================================================================

----------------------------- MODULE EvnStream ------------------------------
(***************************************************************************)
(* A libevn stream, as tcp-server.c and evweb.c use it.  libevn itself is  *)
(* not in the repository: what is said of it here is what the callers rely *)
(* on, and what they do not rely on is left open.                          *)
(*                                                                         *)
(*   ready       stream->ready_state ("ABSENT": no such stream yet)        *)
(*   unsent      libevn still holds bytes the socket did not take          *)
(*   endOnDrain  stream->on_drain = close_connection_on_drain              *)
(*   timer       a timeout is armed (evn_stream_set_timeout)               *)
(***************************************************************************)

ReadyState == {"ABSENT", "OPEN", "WRITE_ONLY", "READ_ONLY", "CLOSED"}

Stream == [ready : ReadyState, unsent : BOOLEAN, endOnDrain : BOOLEAN,
           timer : BOOLEAN]

NoStream == [ready |-> "ABSENT", unsent |-> FALSE, endOnDrain |-> FALSE,
             timer |-> FALSE]

\* Our half is shut: the test that guards most calls of the response API.
Ended(s) == s.ready \in {"CLOSED", "READ_ONLY"}

Writable(s) == s.ready \in {"OPEN", "WRITE_ONLY"}

\* The peer may still send to us.
Readable(s) == s.ready \in {"OPEN", "READ_ONLY"}

\* evn_stream_destroy.  on_close runs later, from the event loop.
EvnDestroy(s) == [s EXCEPT !.ready = "CLOSED", !.unsent = FALSE]

(***************************************************************************)
(* evn_stream_write.  The socket takes the bytes, or libevn keeps what it  *)
(* did not take, or the write fails and the stream is destroyed.  Bytes    *)
(* written behind unsent ones are unsent too.  The call returns TRUE       *)
(* ("finished") when it leaves nothing unsent.                             *)
(***************************************************************************)
EvnWrite(s) ==
  IF Writable(s)
  THEN {s, [s EXCEPT !.unsent = TRUE], EvnDestroy(s)}
  ELSE {s}

(***************************************************************************)
(* evn_stream_end sends FIN.  With FINs of both sides the stream is        *)
(* closed.  Bytes still unsent may drain later or never (OnDrain is not    *)
(* fair): the callers do not say which.                                    *)
(***************************************************************************)
EvnEnd(s) ==
  CASE s.ready = "OPEN"       -> [s EXCEPT !.ready = "READ_ONLY"]
    [] s.ready = "WRITE_ONLY" -> EvnDestroy(s)
    [] OTHER                  -> s

\* The peer's FIN arrives.
EvnPeerEnd(s) ==
  IF s.ready = "OPEN" THEN [s EXCEPT !.ready = "WRITE_ONLY"] ELSE EvnDestroy(s)
=============================================================================

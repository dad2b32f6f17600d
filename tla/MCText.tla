------------------------------ MODULE MCText -------------------------------
(***************************************************************************)
(* The texts of a request for TLC: URLs that come in piece by piece        *)
(* (UrlParser), and, apart from them, queries (QueryJson).                 *)
(***************************************************************************)
EXTENDS UrlParser, QueryJson

Init == UrlInit /\ QueryInit

\* Bound: one kind of text at a time.
NoUrl == url = <<>> /\ verdict = "reading" /\ info = NoInfo /\ ~connect

Next ==
  \/ UrlNext /\ query = <<>> /\ UNCHANGED queryVars
  \/ QueryNext /\ NoUrl /\ UNCHANGED urlVars

Spec == Init /\ [][Next]_<<urlVars, queryVars>>
=============================================================================

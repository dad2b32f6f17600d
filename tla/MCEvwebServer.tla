--------------------------- MODULE MCEvwebServer ----------------------------
(***************************************************************************)
(* Values for model-checking EvwebServer.                                  *)
(***************************************************************************)
EXTENDS EvwebServer

AllCalls == {"set_status", "add_header", "clear_headers", "set_body",
             "add_body", "clear_body", "send", "end"}

\* An application that only answers.
Answering == {"set_status", "send", "end"}

\* One that also gives its responses headers.
LateAnswering == Answering \union {"add_header"}
=============================================================================

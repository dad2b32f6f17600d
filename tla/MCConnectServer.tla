--------------------------- MODULE MCConnectServer ---------------------------
(***************************************************************************)
(* Values for model-checking ConnectServer.                                *)
(***************************************************************************)
EXTENDS ConnectServer

CallsMade == LibraryCalls

RoutesUsed == {<<"GET", "p">>}
PathsUsed == {"p"}
=============================================================================

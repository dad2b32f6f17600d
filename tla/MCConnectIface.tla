--------------------------- MODULE MCConnectIface ---------------------------
(***************************************************************************)
(* Values for model-checking ConnectIface.                                 *)
(***************************************************************************)
EXTENDS ConnectIface

\* A router for "/a" sees requests for its path and for another one.
TwoPaths == {"/a", "/b"}
OneRoute == {<<"GET", "/a">>}
=============================================================================

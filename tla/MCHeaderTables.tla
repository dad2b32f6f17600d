--------------------------- MODULE MCHeaderTables ---------------------------
(***************************************************************************)
(* HeaderTables for TLC.  Names are only compared with each other.         *)
(***************************************************************************)
EXTENDS HeaderTables

NameSymmetry == Permutations(Names)
=============================================================================

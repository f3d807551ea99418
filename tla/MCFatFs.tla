------------------------------ MODULE MCFatFs ------------------------------
(***************************************************************************)
(* FatFs for TLC: names are alike.                                         *)
(***************************************************************************)
EXTENDS FatFs, TLC

Alike == Permutations(Names)
=============================================================================

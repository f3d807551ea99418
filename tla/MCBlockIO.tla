----------------------------- MODULE MCBlockIO ------------------------------
(***************************************************************************)
(* BlockIO for TLC.                                                        *)
(***************************************************************************)
EXTENDS BlockIO, TLC

\* Buffers outside HMA are alike, and so are the contents of sectors.
Alike == Permutations(Buf \ HmaBufs) \cup Permutations(Vals)
=============================================================================

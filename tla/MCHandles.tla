----------------------------- MODULE MCHandles ------------------------------
(***************************************************************************)
(* Handles for TLC: segments other than the first process are alike.       *)
(***************************************************************************)
EXTENDS Handles, TLC

Alike == Permutations(Segs \ {Root})
=============================================================================

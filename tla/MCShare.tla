------------------------------ MODULE MCShare ------------------------------
(***************************************************************************)
(* Share for TLC: processes are alike, and so are files.                   *)
(***************************************************************************)
EXTENDS Share, TLC

Alike == Permutations(Procs) \cup Permutations(Files)

\* Deny none, write and all, and a mode that is not valid.
FewModes == {<<0, 4>>, <<2, 2>>, <<2, 1>>, <<2, 6>>}

\* Apart, one inside another, past the largest offset, nothing.
FewRegions == {<<1, 1>>, <<0, 3>>, <<2, 3>>, <<3, 1>>}
=============================================================================

---------------------------- MODULE MCFileStore ----------------------------
(***************************************************************************)
(* FileStore for TLC: two concurrent saves over an initial file, a delete, *)
(* two loads and two crashes.                                              *)
(***************************************************************************)
EXTENDS FileStore, TLC

CONSTANTS s1, s2, l1, l2, d1

MCSaves == {s1, s2}
MCLoads == {l1, l2}
MCDeletes == {d1}

\* The saves are alike, and so are the loads.
MCSymmetry == Permutations(MCSaves) \cup Permutations(MCLoads)
===========================================================================

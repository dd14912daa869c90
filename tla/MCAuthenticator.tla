-------------------------- MODULE MCAuthenticator --------------------------
(***************************************************************************)
(* Authenticator for TLC: two bindings that set the same header or not,    *)
(* one header that is the caller's alone at times, and credentials that    *)
(* are issued or end at either of two times.                               *)
(***************************************************************************)
EXTENDS Authenticator, TLC

CONSTANTS h1, h2

MCHeaders == {h1, h2}
MCTimes == {2, 4}
MCSymmetry == Permutations(MCHeaders)
===========================================================================

--------------------------- MODULE MCSSOSource ---------------------------
(***************************************************************************)
(* SSOSource for TLC: three calls (a leader, a waiter and a late caller)   *)
(* and one invalidation, so that a login can be overtaken by it.           *)
(***************************************************************************)
EXTENDS SSOSource, TLC

CONSTANTS c1, c2, c3

MCCalls == {c1, c2, c3}
==========================================================================

---------------------------- MODULE MCExecSource ----------------------------
(***************************************************************************)
(* ExecSource for TLC: a limit of two bytes and output of up to two more,  *)
(* in pieces; a clock that runs one step past what the timers allow.       *)
(***************************************************************************)
EXTENDS ExecSource

MCMaxTime == 2 * Timeout + 1
=============================================================================

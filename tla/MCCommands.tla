---------------------------- MODULE MCCommands ----------------------------
(***************************************************************************)
(* Commands for TLC, over one file: two parallel print-token processes, a  *)
(* login, a logout and, in MCCommands, an import.                          *)
(***************************************************************************)
EXTENDS Commands, TLC

\* Processes that run the same command are alike.
MCSymmetry == Permutations(Printers)
===========================================================================

--------------------------- MODULE MCDeviceLogin ---------------------------
(***************************************************************************)
(* DeviceLogin for TLC: codes of two lifetimes, the longer one worth three *)
(* polls, and a caller's deadline before, at or after the end of it.       *)
(***************************************************************************)
EXTENDS DeviceLogin

MCLifetimes == {3, 9}
MCIntervals == {1, 3}
MCDeadlines == {2, 9, 20}
===========================================================================

------------------------ MODULE MCRefreshingSource ------------------------
(***************************************************************************)
(* RefreshingSource for TLC: three calls, so that two can queue for the    *)
(* semaphore while one renews, and renewals can follow one another.        *)
(***************************************************************************)
EXTENDS RefreshingSource, TLC

CONSTANTS c1, c2, c3

MCCalls == {c1, c2, c3}
===========================================================================

--------------------------- MODULE MCBrowserLogin ---------------------------
(***************************************************************************)
(* BrowserLogin for TLC: two logins that share two registered ports.       *)
(***************************************************************************)
EXTENDS BrowserLogin

CONSTANTS l1, l2, p1, p2

MCLogins == {l1, l2}
MCPorts == {p1, p2}
===========================================================================

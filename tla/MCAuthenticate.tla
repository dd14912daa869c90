--------------------------- MODULE MCAuthenticate ---------------------------
(***************************************************************************)
(* Authenticate for TLC: two teams, sessions of three lifetimes (one cut   *)
(* by MaxWait, one that the proxy leaves unsaid), a caller's deadline      *)
(* before the end of the session, at it, or after it.  Integers are four   *)
(* bits wide: of a second's two ticks, a Retry-After fits into a Duration  *)
(* up to three seconds, into an int64 up to seven.                         *)
(***************************************************************************)
EXTENDS Authenticate

CONSTANTS t1, t2

MCTeams == {t1, t2}
MCExpiresIns == {2, 9}
MCDeadlines == {1, 4, 9}

Plain == [transport |-> "ok", code |-> "2xx", header |-> NoHeader, body |-> "json",
          status |-> "ready", selection |-> "no", hasKey |-> TRUE, clean |-> TRUE,
          teamID |-> NoTeam, details |-> {}, teams |-> {}]

MCHeaders ==
    {NoHeader, [kind |-> "junk", value |-> 0]} \cup
    {[kind |-> "seconds", value |-> value] : value \in {0, 1, 4, 9}} \cup
    {[kind |-> "date", value |-> value] : value \in {3, 14}}

Errors ==
    {[Plain EXCEPT !.transport = transport] :
       transport \in {"redirect", "temporary", "permanent"}} \cup
    {[Plain EXCEPT !.code = code, !.header = after] :
       code \in {"429", "5xx", "other"}, after \in MCHeaders} \cup
    {[Plain EXCEPT !.body = body] : body \in {"cut", "unreadable", "other"}}

Bodies ==
    {[Plain EXCEPT !.status = status] : status \in {"pending", "other"}} \cup
    {[Plain EXCEPT !.clean = FALSE]} \cup
    {[Plain EXCEPT !.selection = selection, !.hasKey = hasKey, !.teamID = team,
                   !.details = details, !.teams = teams] :
       selection \in {"yes", "no", "malformed"}, hasKey \in BOOLEAN,
       team \in MCTeams \cup {NoTeam},
       details \in {{}, {t1}, {NoTeam}}, teams \in {{}, {t1}, {t2}}}

MCAnswers == Errors \cup Bodies
=============================================================================

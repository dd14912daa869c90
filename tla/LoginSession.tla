---------------------------- MODULE LoginSession ----------------------------
(***************************************************************************)
(* What a login that somebody has to approve elsewhere promises to its     *)
(* caller, whatever is polled in between.  It is opened with an end that   *)
(* does not move, and returns once: with a result while the session and    *)
(* the caller's context last, or with the verdict that tells which of them *)
(* was over first (SECURITY.md:17, "Session and request deadlines are      *)
(* absolute.").  Late names the results for which it does not look at the  *)
(* clock.                                                                  *)
(***************************************************************************)
EXTENDS Integers

CONSTANTS
    Results,  \* what a login may return by itself
    Late      \* those that it may return after its end

VARIABLES
    now,             \* the clock
    ctxErr,          \* ctx.Err() of the caller's context
    callerDeadline,  \* the deadline of that context
    progress,        \* "new", "open" or "over"
    end,             \* when the session ends
    outcome          \* what the login returned

sessionVars == <<now, ctxErr, callerDeadline, progress, end, outcome>>

SessionInit ==
    /\ now = 0
    /\ ctxErr = "none"
    /\ callerDeadline \in Nat
    /\ progress = "new"
    /\ end = 0
    /\ outcome = "none"

Lasts == now < end /\ ctxErr = "none"

\* Whose fault it is that a login is over: the caller's who canceled it, that of the
\* session's end, or that of a caller's deadline before that end.
Blames(verdict) ==
    \/ verdict = "canceled" /\ ctxErr = "canceled"
    \/ /\ verdict = "timeout" /\ now >= end
       /\ ctxErr = "none" \/ (ctxErr = "deadline" /\ callerDeadline >= end)
    \/ /\ verdict = "callerDeadline" /\ ctxErr = "deadline"
       /\ callerDeadline <= now /\ callerDeadline < end

Opens ==
    /\ progress = "new"
    /\ progress' = "open"
    /\ end' \in Nat \ {0}
    /\ UNCHANGED <<now, ctxErr, callerDeadline, outcome>>

Ends(result) ==
    /\ progress' = "over"
    /\ outcome' = result
    /\ UNCHANGED <<now, ctxErr, callerDeadline, end>>

\* The session cannot be opened.
Refused == progress = "new" /\ Ends("failed")

Finishes(result) ==
    /\ progress = "open"
    /\ Lasts \/ result \in Late
    /\ Ends(result)

GivesUp(verdict) ==
    /\ progress = "open"
    /\ Blames(verdict)
    /\ Ends(verdict)

Passes ==
    /\ progress = "open"
    /\ now' = now + 1
    /\ UNCHANGED <<ctxErr, callerDeadline, progress, end, outcome>>

CallerEnds(error) ==
    /\ progress # "over" /\ ctxErr = "none"
    /\ error = "deadline" => now >= callerDeadline
    /\ ctxErr' = error
    /\ UNCHANGED <<now, callerDeadline, progress, end, outcome>>

SessionNext ==
    \/ Opens \/ Refused \/ Passes
    \/ \E result \in Results : Finishes(result)
    \/ \E verdict \in {"canceled", "timeout", "callerDeadline"} : GivesUp(verdict)
    \/ \E error \in {"canceled", "deadline"} : CallerEnds(error)

SessionSpec == SessionInit /\ [][SessionNext]_sessionVars
===========================================================================

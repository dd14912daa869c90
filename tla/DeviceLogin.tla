---------------------------- MODULE DeviceLogin ----------------------------
(***************************************************************************)
(* Client.AuthenticateOIDCDevice: the device authorization grant.  The     *)
(* provider hands out a device code, OnAuthorization shows the user code,  *)
(* and the token endpoint is polled, more slowly after each slow_down,     *)
(* until the user has approved or the code has expired.  Time passes while *)
(* requests, waits and the callback run, and the caller's context may end  *)
(* at any time.                                                            *)
(*                                                                         *)
(* The clock counts from the answer of the device authorization endpoint.  *)
(* The interval is not wrapped around: it would take an interval of 292    *)
(* years from the provider, and a slow_down, to overflow a time.Duration.  *)
(***************************************************************************)
EXTENDS Integers

CONSTANTS
    Lifetimes,       \* the expires_in there may be, MaxWait at most
    Intervals,       \* the polling intervals there may be
    SlowDownStep,    \* slowDownStep
    RequestTimeout,
    Deadlines,       \* the deadlines the caller's context may have
    MaxTime          \* bound on the clock

ASSUME TimesAssumption ==
    /\ Lifetimes \subseteq Nat \ {0} /\ Intervals \subseteq Nat \ {0}
    /\ SlowDownStep \in Nat \ {0} /\ RequestTimeout \in Nat \ {0}
    /\ Deadlines \subseteq Nat /\ MaxTime \in Nat

VARIABLES
    now,             \* c.now()
    ctxErr,          \* ctx.Err() of the caller's context
    callerDeadline,  \* the deadline of the context
    pc,              \* what AuthenticateOIDCDevice does
    deadline,        \* the local variable deadline
    interval,        \* the local variable interval
    timer,           \* when the request times out or the wait ends
    outcome,         \* what it returned
    asked,           \* history: the interval the provider has asked for
    answered         \* history: when the last poll was answered, or -1

vars == <<now, ctxErr, callerDeadline, pc, deadline, interval, timer, outcome,
          asked, answered>>

environment == <<now, ctxErr, callerDeadline>>
pollVars == <<deadline, interval, timer, asked, answered>>

Verdicts == {"canceled", "callerDeadline", "timeout"}
Outcomes == Verdicts \cup {"credential", "expired", "denied", "protocol",
                           "failed", "callbackError"}

TypeOK ==
    /\ now \in Nat
    /\ ctxErr \in {"none", "canceled", "deadline"}
    /\ callerDeadline \in Deadlines
    /\ pc \in {"start", "announcing", "top", "polling", "waiting", "done"}
    /\ deadline \in Lifetimes \cup {0}
    /\ interval \in Nat
    /\ timer \in Int
    /\ outcome \in Outcomes \cup {"none"}
    /\ asked \in Nat
    /\ answered \in -1 .. now
    /\ outcome # "none" <=> pc = "done"

Init ==
    /\ now = 0
    /\ ctxErr = "none"
    /\ callerDeadline \in Deadlines
    /\ pc = "start"
    /\ deadline = 0
    /\ interval = 0
    /\ timer = 0
    /\ outcome = "none"
    /\ asked = 0
    /\ answered = -1

---------------------------------------------------------------------------
Least(a, b) == IF a <= b THEN a ELSE b

\* Mutant: slow_down sets the interval to the step and does not add to it.
NextIntervalReset(current, code) ==
    IF code = "slow_down" THEN SlowDownStep ELSE current

\* nextDeviceInterval
NextInterval(current, code) ==
    IF code = "slow_down" THEN current + SlowDownStep ELSE current

\* Mutant: only the caller's context and the provider end the polling.
VerdictIgnoringDeadline ==
    CASE ctxErr = "canceled" -> "canceled"
      [] ctxErr = "deadline" -> "callerDeadline"
      [] OTHER -> "go"

\* Mutant: the caller's deadline is not told from that of the device code.
VerdictBlamingCode ==
    CASE ctxErr = "canceled" -> "canceled"
      [] ctxErr = "none" /\ now < deadline -> "go"
      [] OTHER -> "timeout"

\* deviceDeadline: why polling must stop now, or "go".
Verdict ==
    LET expired == now >= deadline
    IN  CASE ctxErr = "canceled" -> "canceled"
          [] ctxErr = "deadline" ->
                IF expired /\ callerDeadline >= deadline
                THEN "timeout" ELSE "callerDeadline"
          [] OTHER -> IF expired THEN "timeout" ELSE "go"

Goes(to) ==
    /\ pc' = to
    /\ UNCHANGED <<environment, outcome>>

Returns(result) ==
    /\ pc' = "done"
    /\ outcome' = result
    /\ UNCHANGED <<environment, pollVars>>

\* The provider is discovered and hands out a device code.
Authorize ==
    /\ pc = "start"
    /\ deadline' \in Lifetimes
    /\ interval' \in Intervals
    /\ asked' = interval'
    /\ Goes("announcing")
    /\ UNCHANGED <<timer, answered>>

AuthorizeFails == pc = "start" /\ Returns("failed")

\* OnAuthorization returns nil, or there is none.
Announced ==
    /\ pc = "announcing"
    /\ Goes("top")
    /\ UNCHANGED pollVars

AnnounceFails == pc = "announcing" /\ Returns("callbackError")

\* The head of the loop: the deadline check, then postOIDCToken, which has the
\* request timeout whatever is left of the deadline.
BeginPoll ==
    /\ pc = "top"
    /\ IF Verdict # "go"
       THEN Returns(Verdict)
       ELSE /\ Goes("polling")
            /\ timer' = now + RequestTimeout
            /\ UNCHANGED <<deadline, interval, asked, answered>>

\* The user has approved: the credential is returned, with no look at the clock.
PollGranted == pc = "polling" /\ Returns("credential")

\* The claims of the id_token are wrong.
PollInvalid == pc = "polling" /\ Returns("protocol")

\* authorization_pending or slow_down: the interval follows, and the wait is cut
\* at the deadline.
PollPending(code) ==
    /\ pc = "polling"
    /\ Goes("waiting")
    /\ interval' = NextInterval(interval, code)
    /\ timer' = now + Least(interval', deadline - now)
    /\ asked' = IF code = "slow_down" THEN asked + SlowDownStep ELSE asked
    /\ answered' = now
    /\ UNCHANGED deadline

\* Any other error of the poll; a deadline that has passed comes first.
PollFails ==
    /\ pc = "polling"
    /\ \E error \in {"expired", "denied", "failed"} :
          Returns(IF Verdict = "go" THEN error ELSE Verdict)

PollTimesOut ==
    /\ pc = "polling"
    /\ now >= timer
    /\ Returns(IF Verdict = "go" THEN "failed" ELSE Verdict)

\* c.wait: the timer fires.
WaitEnds ==
    /\ pc = "waiting"
    /\ now >= timer
    /\ Goes("top")
    /\ UNCHANGED pollVars

\* c.wait: the context is done first.
WaitInterrupted ==
    /\ pc = "waiting"
    /\ ctxErr # "none"
    /\ Returns(Verdict)

\* The environment: time passes, and the caller's context ends.
Tick ==
    /\ pc \notin {"start", "done"}
    /\ now < MaxTime
    /\ now' = now + 1
    /\ UNCHANGED <<ctxErr, callerDeadline, pc, pollVars, outcome>>

ContextEnds(error) ==
    /\ pc # "done"
    /\ ctxErr = "none"
    /\ error = "deadline" => now >= callerDeadline
    /\ ctxErr' = error
    /\ UNCHANGED <<now, callerDeadline, pc, pollVars, outcome>>

Proceed ==
    \/ Authorize \/ Announced \/ BeginPoll \/ PollTimesOut \/ WaitEnds

Next ==
    \/ Proceed
    \/ AuthorizeFails \/ AnnounceFails \/ PollGranted \/ PollInvalid
    \/ PollFails \/ WaitInterrupted \/ Tick
    \/ \E code \in {"authorization_pending", "slow_down"} : PollPending(code)
    \/ \E error \in {"canceled", "deadline"} : ContextEnds(error)

Spec == Init /\ [][Next]_vars

\* The clock runs, the HTTP client honours the timeout of the request, and
\* OnAuthorization returns.
FairSpec == Spec /\ WF_vars(Tick) /\ WF_vars(Proceed)

---------------------------------------------------------------------------
\* A poll is sent no sooner after the answer to the one before than the
\* provider asked for, its slow_downs added up, though a wait may be cut short
\* by the deadline (oidc_device.go:17-18, 103, 127-133).
PollsSpacedOut ==
    [][pc = "top" /\ pc' = "polling" /\ answered >= 0 =>
          now >= answered + asked]_vars

Progress == IF pc = "start" THEN "new" ELSE IF pc = "done" THEN "over" ELSE "open"

Session == INSTANCE LoginSession WITH
    progress <- Progress,
    end <- deadline,
    Results <- Outcomes \ Verdicts,
    Late <- {"credential", "protocol", "callbackError"}

\* The device login is a session like that of Authenticate, whose end does not move
\* however often it is slowed down, and says truly what had ended; but it does not
\* look at the clock when OnAuthorization has failed (oidc_device.go:92) and when a
\* poll has succeeded (oidc_device.go:107-118), though options.go:65 says that
\* MaxWait "limits the total duration of one login session".
ActsAsSession == Session!SessionSpec

\* The device login returns, however often the provider answers slow_down
\* (oidc_device.go:102-139).
DeviceLoginReturns == <>(pc = "done")
===========================================================================

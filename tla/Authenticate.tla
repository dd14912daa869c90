---------------------------- MODULE Authenticate ----------------------------
(***************************************************************************)
(* Client.Authenticate: one login session of the proxy's CLI SSO.  Start   *)
(* opens the session, OnSession shows it to the user, and Await polls it   *)
(* until it yields a credential, asks for a team, fails, or is over.  Time *)
(* passes while requests, waits and the caller's callbacks (OnSession,     *)
(* OnEvent, SelectTeam) run, and the caller's context may end at any time. *)
(*                                                                         *)
(* The clock counts from the start of the session and stops when           *)
(* Authenticate returns.  c.now and the timers of context read one clock.  *)
(***************************************************************************)
EXTENDS PollAnswer

CONSTANTS
    ExpiresIns,      \* the expires_in there may be in the answer to Start
    Unsaid,          \* the answer of an old proxy, without expires_in
    MaxWait,         \* c.maxWait
    LegacyLifetime,  \* legacySessionLifetime
    RequestTimeout,
    Deadlines,       \* the deadlines the caller's context may have
    MaxTime          \* bound on the clock

ASSUME UnsaidAssumption == Unsaid \notin ExpiresIns
ASSUME TimesAssumption ==
    /\ ExpiresIns \subseteq Nat \ {0}
    /\ MaxWait \in Nat \ {0} /\ LegacyLifetime \in Nat \ {0}
    /\ MaxWait <= MaxInt /\ LegacyLifetime <= MaxInt
    /\ RequestTimeout \in Nat \ {0}
    /\ Deadlines \subseteq Nat
    /\ MaxTime \in Nat

VARIABLES
    now,         \* c.now()
    ctxErr,      \* ctx.Err() of the caller's context
    options,     \* AuthenticateOptions, and the deadline of the context
    pc,          \* what Authenticate does, or the callback it runs
    expiresAt,   \* session.expiresAt
    timer,       \* when the request times out or the wait ends
    header,      \* the Retry-After of the error to be retried
    offered,     \* the local variable teams
    teamID,      \* the local variable teamID; teamSelected when not NoTeam
    outcome,     \* what Authenticate returned
    issuedFor,   \* the team of the returned credential
    asked,       \* history: how many times SelectTeam was called
    notBefore    \* history: when the proxy asked to be polled again

vars == <<now, ctxErr, options, pc, expiresAt, timer, header, offered, teamID,
          outcome, issuedFor, asked, notBefore>>

environment == <<now, ctxErr, options>>
waitVars == <<header, notBefore>>
teamVars == <<offered, teamID, asked>>
resultVars == <<outcome, issuedFor>>

Verdicts == {"canceled", "callerDeadline", "timeout"}
Outcomes == Verdicts \cup {"credential", "protocol", "failed", "teamRequired",
                           "callbackError"}
Callbacks == {"session", "notifying", "announcing", "selecting"}
Locations == Callbacks \cup {"start", "top", "polling", "waiting", "done"}

TypeOK ==
    /\ now \in Nat
    /\ ctxErr \in {"none", "canceled", "deadline"}
    /\ options \in [team : Teams \cup {NoTeam}, selector : BOOLEAN,
                    deadline : Deadlines]
    /\ pc \in Locations
    /\ expiresAt \in Nat
    /\ timer \in Nat
    /\ header \in Headers
    /\ offered \in SUBSET Teams
    /\ teamID \in offered \cup {NoTeam}
    /\ outcome \in Outcomes \cup {"none"}
    /\ issuedFor \in Teams \cup {NoTeam}
    /\ asked \in Nat
    /\ notBefore \in Nat
    /\ outcome # "none" <=> pc = "done"

Init ==
    /\ now = 0
    /\ ctxErr = "none"
    /\ options \in [team : Teams \cup {NoTeam}, selector : BOOLEAN,
                    deadline : Deadlines]
    /\ pc = "start"
    /\ expiresAt = 0
    /\ timer = 0
    /\ header = NoHeader
    /\ offered = {}
    /\ teamID = NoTeam
    /\ outcome = "none"
    /\ issuedFor = NoTeam
    /\ asked = 0
    /\ notBefore = 0

---------------------------------------------------------------------------
Least(a, b) == IF a <= b THEN a ELSE b

\* Mutant: the caller's deadline is not told from the session's.
VerdictBlamingSession ==
    CASE ctxErr = "canceled" -> "canceled"
      [] ctxErr = "none" /\ now < expiresAt -> "go"
      [] OTHER -> "timeout"

\* Mutant: only the caller's context can end Await.
VerdictIgnoringSession ==
    CASE ctxErr = "canceled" -> "canceled"
      [] ctxErr = "deadline" -> "callerDeadline"
      [] OTHER -> "go"

\* awaitDeadline: why Await must stop now, or "go".
Verdict ==
    LET expired == now >= expiresAt
    IN  CASE ctxErr = "canceled" -> "canceled"
          [] ctxErr = "deadline" ->
                IF expired /\ options.deadline >= expiresAt
                THEN "timeout" ELSE "callerDeadline"
          [] OTHER -> IF expired THEN "timeout" ELSE "go"

Goes(to) ==
    /\ pc' = to
    /\ UNCHANGED <<environment, expiresAt, resultVars>>

Returns(result) ==
    /\ pc' = "done"
    /\ outcome' = result
    /\ UNCHANGED <<environment, expiresAt, timer, waitVars, teamVars, issuedFor>>

\* startExpiry: MaxWait limits what the proxy says, and only that.
StartExpiry(expiresIn) ==
    IF expiresIn = Unsaid THEN LegacyLifetime ELSE Least(expiresIn, MaxWait)

\* Start: the proxy opens a session; OnSession is called with it.
Start ==
    /\ pc = "start"
    /\ \E expiresIn \in ExpiresIns \cup {Unsaid} :
          expiresAt' = StartExpiry(expiresIn)
    /\ pc' = "session"
    /\ UNCHANGED <<environment, timer, waitVars, teamVars, resultVars>>

\* Start fails, whether by the request, its timeout or the caller's context.
StartFails ==
    /\ pc = "start"
    /\ Returns("failed")

\* OnSession returns nil, or there is none.
SessionShown ==
    /\ pc = "session"
    /\ Goes("top")
    /\ UNCHANGED <<timer, waitVars, teamVars>>

\* Mutant: an error of OnSession comes before a deadline that has passed.
SessionFailsUnchecked == pc = "session" /\ Returns("callbackError")

\* OnSession returns an error; a deadline that has passed comes first.
SessionFails ==
    /\ pc = "session"
    /\ Returns(IF Verdict = "go" THEN "callbackError" ELSE Verdict)

\* The head of Await's loop: the deadline check, and PollOnce with what is left
\* of the session as its timeout.
BeginPoll ==
    /\ pc = "top"
    /\ IF Verdict # "go"
       THEN Returns(Verdict)
       ELSE /\ Goes("polling")
            /\ timer' = now + Least(RequestTimeout, expiresAt - now)
            /\ notBefore' = 0
            /\ UNCHANGED <<header, teamVars>>

---------------------------------------------------------------------------
\* PollOnce is over, and so is the session or the caller's context: what it
\* brought is dropped.
PollTooLate ==
    /\ pc = "polling"
    /\ Verdict # "go"
    /\ Returns(Verdict)

\* Mutant: the deadline is not checked again after PollOnce.
PollEndsUnchecked == pc = "polling"

\* PollOnce is over, and there is still time.
PollEnds == pc = "polling" /\ Verdict = "go"

\* An error that may be retried; OnEvent is called first.
PollRetryable(answer) ==
    /\ PollEnds
    /\ Retryable(answer)
    /\ Goes("notifying")
    /\ header' = RetryAfter(answer)
    /\ notBefore' = Asked(header', now)
    /\ UNCHANGED <<timer, teamVars>>

\* PollOnce's context ends, an error that may be retried.
PollTimesOut ==
    /\ PollEnds
    /\ now >= timer
    /\ Goes("notifying")
    /\ header' = NoHeader
    /\ UNCHANGED <<timer, notBefore, teamVars>>

\* Any other error.
PollFails(answer) ==
    /\ PollEnds
    /\ \/ Failed(answer) /\ Returns("failed")
       \/ Refused(answer) /\ Returns("protocol")

PollPending(answer) ==
    /\ PollEnds
    /\ Pending(answer)
    /\ Goes("notifying")
    /\ header' = NoHeader
    /\ UNCHANGED <<timer, notBefore, teamVars>>

\* Mutant: a credential for another team than the selected one is taken.
PollReadyAnyTeam(answer) ==
    /\ PollEnds
    /\ Ready(answer)
    /\ pc' = "done"
    /\ outcome' = "credential"
    /\ issuedFor' = CredentialTeam(answer)
    /\ UNCHANGED <<environment, expiresAt, timer, waitVars, teamVars>>

\* A credential: it must be the selected team's, if one was selected.
PollReady(answer) ==
    /\ PollEnds
    /\ Ready(answer)
    /\ LET team == CredentialTeam(answer)
       IN  IF teamID # NoTeam /\ team # teamID THEN Returns("protocol")
           ELSE /\ pc' = "done"
                /\ outcome' = "credential"
                /\ issuedFor' = team
                /\ UNCHANGED <<environment, expiresAt, timer, waitVars, teamVars>>

\* The proxy wants a team selected, which it may ask once; OnEvent is called.
PollTeamSelection(answer) ==
    /\ PollEnds
    /\ Selection(answer)
    /\ IF teamID # NoTeam THEN Returns("protocol")
       ELSE /\ Goes("announcing")
            /\ offered' = Listed(answer)
            /\ UNCHANGED <<timer, waitVars, teamID, asked>>

---------------------------------------------------------------------------
\* OnEvent has returned; retryDelay reads the clock only now, and awaitWait waits no
\* longer than the session lasts.
Notified ==
    /\ pc = "notifying"
    /\ IF Verdict # "go"
       THEN Returns(Verdict)
       ELSE /\ Goes("waiting")
            /\ timer' = now + Least(RetryDelay(header, now), expiresAt - now)
            /\ UNCHANGED <<waitVars, teamVars>>

\* c.wait: the timer fires.
WaitEnds ==
    /\ pc = "waiting"
    /\ now >= timer
    /\ Goes("top")
    /\ UNCHANGED <<timer, waitVars, teamVars>>

\* c.wait: the context is done first.
WaitInterrupted ==
    /\ pc = "waiting"
    /\ ctxErr # "none"
    /\ Returns(Verdict)

\* The team is selected: it must be an offered one, and is polled for at once.
Selects(team) ==
    \/ team \notin offered /\ Returns("protocol")
    \/ /\ team \in offered
       /\ teamID' = team
       /\ Goes("top")
       /\ UNCHANGED <<timer, waitVars, offered, asked>>

\* Mutant: SelectTeam is called without checking the deadline after OnEvent.
AnnouncedUnchecked ==
    /\ pc = "announcing"
    /\ \/ options.team # NoTeam /\ Selects(options.team)
       \/ options.team = NoTeam /\ ~options.selector /\ Returns("teamRequired")
       \/ /\ options.team = NoTeam /\ options.selector
          /\ asked' = asked + 1
          /\ Goes("selecting")
          /\ UNCHANGED <<timer, waitVars, offered, teamID>>

\* OnEvent has returned: the caller's TeamID is selected, or SelectTeam called.
Announced ==
    /\ pc = "announcing"
    /\ \/ Verdict # "go" /\ Returns(Verdict)
       \/ Verdict = "go" /\ options.team # NoTeam /\ Selects(options.team)
       \/ /\ Verdict = "go" /\ options.team = NoTeam /\ ~options.selector
          /\ Returns("teamRequired")
       \/ /\ Verdict = "go" /\ options.team = NoTeam /\ options.selector
          /\ asked' = asked + 1
          /\ Goes("selecting")
          /\ UNCHANGED <<timer, waitVars, offered, teamID>>

\* SelectTeam has returned a team or an error.  On one clock its own context
\* ends only when awaitDeadline says so too.
Selected ==
    /\ pc = "selecting"
    /\ \/ Verdict # "go" /\ Returns(Verdict)
       \/ Verdict = "go" /\ Returns("callbackError")
       \/ Verdict = "go" /\ \E team \in Teams \cup {NoTeam} : Selects(team)

---------------------------------------------------------------------------
\* The environment: time passes, and the caller's context ends.
Tick ==
    /\ pc \notin {"start", "done"}
    /\ now < MaxTime
    /\ now' = now + 1
    /\ UNCHANGED <<ctxErr, options, pc, expiresAt, timer, waitVars, teamVars,
                   resultVars>>

ContextEnds(error) ==
    /\ pc # "done"
    /\ ctxErr = "none"
    /\ error = "deadline" => now >= options.deadline
    /\ ctxErr' = error
    /\ UNCHANGED <<now, options, pc, expiresAt, timer, waitVars, teamVars,
                   resultVars>>

\* What Authenticate does of itself, once the callback or the request is over.
Proceed ==
    \/ Start \/ SessionShown \/ BeginPoll \/ PollTooLate \/ PollTimesOut
    \/ Notified \/ WaitEnds \/ Announced \/ Selected

Next ==
    \/ Proceed
    \/ StartFails \/ SessionFails
    \/ \E answer \in Answers :
          \/ PollRetryable(answer) \/ PollFails(answer) \/ PollPending(answer)
          \/ PollReady(answer) \/ PollTeamSelection(answer)
    \/ WaitInterrupted
    \/ Tick
    \/ \E error \in {"canceled", "deadline"} : ContextEnds(error)

Spec == Init /\ [][Next]_vars

\* The clock runs, the HTTP client honours the timeout of PollOnce, and the
\* callbacks return.
FairSpec == Spec /\ WF_vars(Tick) /\ WF_vars(Proceed)

---------------------------------------------------------------------------
\* A credential that is returned was received within the session and the
\* caller's context, however late the proxy answered (poll.go:112-114).
CredentialInTime ==
    outcome = "credential" => now < expiresAt /\ ctxErr = "none"

\* A credential returned after a team was selected is that team's, and the team
\* is the caller's TeamID if there is one (poll.go:138, 146-176).
CredentialForSelectedTeam ==
    outcome = "credential" /\ teamID # NoTeam =>
        /\ issuedFor = teamID
        /\ options.team \in {NoTeam, teamID}

\* A user is asked for a team at most once in a login, whatever the proxy
\* answers to later polls (poll.go:143-145).
AskedOnce == asked <= 1

\* The proxy is not polled again before the time that its Retry-After asked for, in
\* seconds or as a date, however many seconds that are and however long OnEvent
\* takes (poll.go:125, 206-213, 286-305).
PollsNotBeforeAsked ==
    [][pc # "polling" /\ pc' = "polling" => now >= notBefore]_vars

\* No request and no wait is given longer than the session lasts, however long
\* the request timeout is or the proxy asks Await to stay away
\* (poll.go:104-109, 211-213).
WaitsWithinSession == pc \in {"polling", "waiting"} => timer <= expiresAt

\* A login timeout is blamed on the session only when it is over, and on the
\* caller's deadline only when that came first (poll.go:228-239).
BlamesTheRightDeadline ==
    /\ outcome = "timeout" => now >= expiresAt
    /\ outcome = "callerDeadline" =>
          options.deadline <= now /\ options.deadline < expiresAt

\* Once the session or the context is over no poll, wait or team selection is
\* begun, though callbacks may have taken any time (poll.go:100, 149, 208).
NothingBegunTooLate ==
    [][pc' # pc /\ pc' \in {"polling", "waiting", "selecting"} =>
          now < expiresAt /\ ctxErr = "none"]_vars

Progress == IF pc = "start" THEN "new" ELSE IF pc = "done" THEN "over" ELSE "open"

Session == INSTANCE LoginSession WITH
    callerDeadline <- options.deadline,
    progress <- Progress,
    end <- expiresAt,
    Results <- Outcomes \ Verdicts,
    Late <- {}

\* The whole login is one session with an end: every result comes within it, also an
\* error of the proxy or of a callback, and every other return says truly what had
\* ended (poll.go:93-180, 188-204, 223-238).
ActsAsSession == Session!SessionSpec

\* Authenticate returns, whatever the proxy answers (poll.go:93-180).
AuthenticateReturns == <>(pc = "done")
===========================================================================

----------------------------- MODULE PollAnswer -----------------------------
(***************************************************************************)
(* What one answer of the proxy to a poll means: PollOnce's classification *)
(* of transport errors, status codes and bodies, readyPollResult's checks  *)
(* of a body that is ready, and retryDelay, which reads a Retry-After.     *)
(*                                                                         *)
(* An answer is a record of what the code tells apart.  The order and the  *)
(* aliases of teams are left out; the checks of text for control           *)
(* characters and for the session's secret are the one field clean, which  *)
(* is FALSE, too, of metadata and lists of teams that cannot be read.      *)
(***************************************************************************)
EXTENDS Integers, FiniteSets

CONSTANTS
    Teams,         \* team IDs
    NoTeam,        \* the empty team ID
    Second,        \* ticks of a second
    MaxInt,        \* the largest int64 and the longest time.Duration
    PollInterval,
    Answers        \* the answers there may be

\* A Retry-After header: absent, a number of seconds, a date, or neither.
Headers == [kind : {"none", "seconds", "date", "junk"}, value : Nat]
NoHeader == [kind |-> "none", value |-> 0]

AnswerType ==
    [transport : {"ok", "redirect", "temporary", "permanent"},
     code : {"2xx", "429", "5xx", "other"}, header : Headers,
     body : {"json", "cut", "unreadable", "other"},
     status : {"pending", "ready", "other"},
     selection : {"yes", "no", "malformed"}, hasKey : BOOLEAN, clean : BOOLEAN,
     teamID : Teams \cup {NoTeam},
     details : SUBSET (Teams \cup {NoTeam}), teams : SUBSET (Teams \cup {NoTeam})]

ASSUME NoTeamAssumption == NoTeam \notin Teams
ASSUME AnswersAssumption ==
    /\ Answers \subseteq AnswerType
    /\ \A answer \in Answers : IsFiniteSet(answer.details \cup answer.teams)
ASSUME IntegersAssumption ==
    Second \in Nat \ {0} /\ MaxInt \in Nat \ {0} /\ PollInterval \in Nat \ {0}

---------------------------------------------------------------------------
\* client.Do and pollHTTPError: the answer is not one to be read.
Answered(answer) == answer.transport = "ok" /\ answer.code = "2xx"

\* retryablePollError
Retryable(answer) ==
    \/ answer.transport = "temporary"
    \/ answer.transport = "ok" /\ answer.code \in {"429", "5xx"}
    \/ Answered(answer) /\ answer.body = "cut"

\* The header of an HTTPError; other errors have none.
RetryAfter(answer) ==
    IF answer.transport = "ok" /\ answer.code # "2xx" THEN answer.header ELSE NoHeader

\* An error that says nothing of the protocol: a redirect, a transport error that
\* stays, a status code that is final.
Failed(answer) == ~Answered(answer) /\ ~Retryable(answer)

Read(answer) == Answered(answer) /\ answer.body = "json"

Pending(answer) == Read(answer) /\ answer.status = "pending"

\* normalizePollTeams
Listed(answer) == answer.details \cup answer.teams

\* readyPollResult before it tells a credential from a team selection.
WellFormed(answer) ==
    /\ Read(answer) /\ answer.status = "ready"
    /\ answer.clean
    /\ answer.selection = "yes" <=> ~answer.hasKey
    /\ answer.selection # "malformed"
    /\ NoTeam \notin Listed(answer)

Selection(answer) ==
    WellFormed(answer) /\ answer.selection = "yes" /\ Listed(answer) # {}

\* The credential's team, if the answer names one or there is only one.
CredentialTeam(answer) ==
    IF answer.teamID = NoTeam /\ Cardinality(Listed(answer)) = 1
    THEN CHOOSE team \in Listed(answer) : TRUE ELSE answer.teamID

\* The team of a credential must be listed, and may only be missing if none is.
Ready(answer) ==
    /\ WellFormed(answer) /\ answer.selection = "no"
    /\ answer.teamID = NoTeam => Cardinality(Listed(answer)) <= 1
    /\ CredentialTeam(answer) \in Listed(answer) \cup {NoTeam}

\* Every other answer breaks the protocol.
Refused(answer) ==
    /\ Answered(answer) /\ ~Retryable(answer)
    /\ ~Pending(answer) /\ ~Selection(answer) /\ ~Ready(answer)

---------------------------------------------------------------------------
\* Signed integers of the width of MaxInt.
Wrap(n) == ((n + MaxInt + 1) % (2 * (MaxInt + 1))) - (MaxInt + 1)

\* Mutant: seconds are multiplied without a check.
SecondsWrapped(seconds) == Wrap(seconds * Second)

\* time.Duration(seconds) * time.Second, or the longest Duration.
Seconds(seconds) ==
    IF seconds > MaxInt \div Second THEN MaxInt ELSE seconds * Second

\* retryDelay.  A number that is no int64 is no date either.
RetryDelay(header, now) ==
    IF header.kind = "seconds" /\ header.value > 0 /\ header.value <= MaxInt
    THEN Seconds(header.value)
    ELSE IF header.kind = "date" /\ header.value > now
    THEN IF header.value - now > MaxInt THEN MaxInt ELSE header.value - now
    ELSE PollInterval

\* The time before which a header asks not to be polled again, if it can be read.
Asked(header, now) ==
    CASE header.kind = "seconds" /\ header.value <= MaxInt -> now + header.value * Second
      [] header.kind = "date" -> header.value
      [] OTHER -> 0
=============================================================================

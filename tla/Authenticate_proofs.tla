------------------------- MODULE Authenticate_proofs -------------------------
(***************************************************************************)
(* Authenticate's safety, for any teams, lifetimes, delays and deadlines.  *)
(***************************************************************************)
EXTENDS Authenticate, TLAPS

\* The caller's context ends of its deadline only once that has passed.
ContextInv == ctxErr = "deadline" => options.deadline <= now

\* A team is asked for while none is selected; once SelectTeam was called, it
\* still runs, or a team is selected, or the login is over.
SelectionInv ==
    /\ asked <= 1
    /\ pc = "announcing" => teamID = NoTeam /\ asked = 0
    /\ pc = "selecting" => teamID = NoTeam /\ options.team = NoTeam
    /\ asked = 1 => pc \in {"selecting", "done"} \/ teamID # NoTeam
    /\ teamID # NoTeam => options.team \in {NoTeam, teamID}

Inv ==
    /\ TypeOK
    /\ ContextInv
    /\ SelectionInv
    /\ CredentialInTime
    /\ CredentialForSelectedTeam
    /\ WaitsWithinSession
    /\ BlamesTheRightDeadline

---------------------------------------------------------------------------
\* Every time is a natural number.
LEMMA TypesOfTimes ==
    ASSUME TypeOK
    PROVE  now \in Nat /\ expiresAt \in Nat /\ options.deadline \in Nat
<1>1. now \in Nat /\ expiresAt \in Nat
  BY TimesAssumption DEF TypeOK
<1>2. options \in [team : Teams \cup {NoTeam}, selector : BOOLEAN,
                  deadline : Deadlines]
  BY DEF TypeOK
<1>3. options.deadline \in Deadlines
  BY <1>2
<1>4. QED
  BY <1>1, <1>3, TimesAssumption

\* What awaitDeadline's verdicts say of the clock and the contexts.
LEMMA VerdictMeaning ==
    ASSUME TypeOK, ContextInv
    PROVE  /\ Verdict \in Verdicts \cup {"go"}
           /\ Verdict = "go" => now < expiresAt /\ ctxErr = "none"
           /\ Verdict = "timeout" => now >= expiresAt
           /\ Verdict = "callerDeadline" =>
                 options.deadline <= now /\ options.deadline < expiresAt
           /\ ctxErr # "none" => Verdict # "go"
<1>1. now \in Nat /\ expiresAt \in Nat /\ options.deadline \in Nat
  BY TypesOfTimes
<1> USE DEF TypeOK, ContextInv, Verdict, Verdicts
<1>2. CASE ctxErr = "canceled"
  BY <1>2
<1>3. CASE ctxErr = "deadline"
  BY <1>1, <1>3
<1>4. CASE ctxErr = "none"
  BY <1>1, <1>4
<1>5. QED
  BY <1>2, <1>3, <1>4

\* Returning with a verdict, or with an error that no property speaks of.
LEMMA ReturnsPreserves ==
    ASSUME Inv, pc # "done", NEW result \in Outcomes \ {"credential"},
           Returns(result), result \in Verdicts => result = Verdict
    PROVE  Inv'
<1>1. Verdict = "timeout" => now >= expiresAt
  BY VerdictMeaning DEF Inv
<1>2. Verdict = "callerDeadline" =>
          options.deadline <= now /\ options.deadline < expiresAt
  BY VerdictMeaning DEF Inv
<1>3. QED
  BY <1>1, <1>2, NoTeamAssumption
     DEF Inv, TypeOK, ContextInv, SelectionInv, CredentialInTime,
         CredentialForSelectedTeam, WaitsWithinSession, BlamesTheRightDeadline,
         Returns, Outcomes, Verdicts, Locations, environment, waitVars, teamVars

---------------------------------------------------------------------------
\* What an answer of the proxy brings has the types of Authenticate's variables.
LEMMA AnswerTypes ==
    ASSUME NEW answer \in Answers
    PROVE  /\ answer.header \in Headers
           /\ RetryAfter(answer) \in Headers
           /\ Selection(answer) => Listed(answer) \in SUBSET Teams
           /\ Ready(answer) => CredentialTeam(answer) \in Teams \cup {NoTeam}
<1>1. answer \in AnswerType
  BY AnswersAssumption DEF AnswersAssumption
<1>2. NoHeader \in Headers
  BY DEF NoHeader, Headers
<1>3. /\ answer.header \in Headers
      /\ answer.details \in SUBSET (Teams \cup {NoTeam})
      /\ answer.teams \in SUBSET (Teams \cup {NoTeam})
  BY <1>1 DEF AnswerType
<1>4. Selection(answer) \/ Ready(answer) => Listed(answer) \in SUBSET Teams
  BY <1>3 DEF Selection, Ready, WellFormed, Listed
<1> QED
  BY <1>2, <1>3, <1>4 DEF RetryAfter, Ready

\* The delay before the next poll, and the time that was asked for, are times.
LEMMA DelayTypes ==
    ASSUME NEW h \in Headers, NEW t \in Nat
    PROVE  RetryDelay(h, t) \in Nat /\ Asked(h, t) \in Nat
<1>1. h.value \in Nat
  BY DEF Headers
<1>2. h.value * Second \in Nat
  BY <1>1, IntegersAssumption DEF IntegersAssumption
<1>3. Asked(h, t) \in Nat
  BY <1>1, <1>2 DEF Asked
<1>4. RetryDelay(h, t) \in Nat
  BY <1>1, <1>2, IntegersAssumption DEF RetryDelay, Seconds, IntegersAssumption
<1> QED
  BY <1>3, <1>4

---------------------------------------------------------------------------
\* The steps of Inv's induction.
LEMMA InvInductive == Inv /\ [Next]_vars => Inv'
<1> SUFFICES ASSUME Inv, [Next]_vars PROVE Inv'
  OBVIOUS
<1>t. TypeOK /\ ContextInv /\ Verdict \in Verdicts \cup {"go"}
  BY VerdictMeaning DEF Inv
<1>v. /\ Verdict = "go" => now < expiresAt /\ ctxErr = "none"
      /\ ctxErr # "none" => Verdict # "go"
  BY VerdictMeaning DEF Inv
<1>n. now \in Nat /\ expiresAt \in Nat /\ options.deadline \in Nat
  BY <1>t, TypesOfTimes
<1>r. ASSUME NEW result \in Outcomes \ {"credential"}, pc # "done",
             Returns(result), result \in Verdicts => result = Verdict
      PROVE  Inv'
  BY <1>r, ReturnsPreserves
<1>e. ASSUME pc # "done", Verdict # "go", Returns(Verdict) PROVE Inv'
  BY <1>e, <1>r, <1>t DEF Outcomes, Verdicts
<1> USE NoTeamAssumption, TimesAssumption
    DEF Goes, environment, waitVars, teamVars, resultVars, Locations, Callbacks
<1>1. CASE Start
  <2>1. expiresAt' \in Nat
    <3>1. PICK expiresIn \in ExpiresIns \cup {Unsaid} : expiresAt' = StartExpiry(expiresIn)
      BY <1>1 DEF Start
    <3>2. expiresIn = Unsaid => expiresAt' = LegacyLifetime
      BY <3>1 DEF StartExpiry
    <3>3. expiresIn # Unsaid => expiresAt' = Least(expiresIn, MaxWait) /\ expiresIn \in Nat
      BY <3>1 DEF StartExpiry
    <3> QED
      BY <3>2, <3>3, IntegersAssumption DEF Least, IntegersAssumption
  <2>2. QED
    BY <1>1, <2>1
       DEF Inv, TypeOK, ContextInv, SelectionInv, CredentialInTime,
           CredentialForSelectedTeam, WaitsWithinSession,
           BlamesTheRightDeadline, Start
<1>2. CASE StartFails
  BY <1>2, <1>r DEF StartFails, Outcomes, Verdicts
<1>3. CASE SessionShown
  BY <1>3
     DEF Inv, TypeOK, ContextInv, SelectionInv, CredentialInTime,
         CredentialForSelectedTeam, WaitsWithinSession, BlamesTheRightDeadline,
         SessionShown
<1>4. CASE SessionFails
  BY <1>4, <1>r, <1>e DEF SessionFails, Outcomes, Verdicts
<1>5. CASE BeginPoll
  <2>1. CASE Verdict # "go"
    BY <1>5, <1>e, <2>1 DEF BeginPoll
  <2>2. CASE Verdict = "go"
    <3>1. /\ now + Least(RequestTimeout, expiresAt - now) \in Nat
          /\ now + Least(RequestTimeout, expiresAt - now) <= expiresAt
      BY <1>n, <1>v, <2>2 DEF Least
    <3>2. QED
      BY <1>5, <2>2, <3>1
         DEF Inv, TypeOK, ContextInv, SelectionInv, CredentialInTime,
             CredentialForSelectedTeam, WaitsWithinSession,
             BlamesTheRightDeadline, BeginPoll
  <2>3. QED
    BY <2>1, <2>2
<1>6. CASE PollTooLate
  BY <1>6, <1>e DEF PollTooLate
<1>7. ASSUME NEW answer \in Answers, PollRetryable(answer) PROVE Inv'
  <2>1. RetryAfter(answer) \in Headers /\ Asked(RetryAfter(answer), now) \in Nat
    BY <1>n, AnswerTypes, DelayTypes
  <2> QED
    BY <1>7, <2>1
     DEF Inv, TypeOK, ContextInv, SelectionInv, CredentialInTime,
         CredentialForSelectedTeam, WaitsWithinSession, BlamesTheRightDeadline,
         PollRetryable, PollEnds
<1>h. NoHeader \in Headers
  BY DEF NoHeader, Headers
<1>8. CASE PollTimesOut
  BY <1>8, <1>h
     DEF Inv, TypeOK, ContextInv, SelectionInv, CredentialInTime,
         CredentialForSelectedTeam, WaitsWithinSession, BlamesTheRightDeadline,
         PollTimesOut, PollEnds
<1>9. ASSUME NEW answer \in Answers, PollPending(answer) PROVE Inv'
  BY <1>9, <1>h
     DEF Inv, TypeOK, ContextInv, SelectionInv, CredentialInTime,
         CredentialForSelectedTeam, WaitsWithinSession, BlamesTheRightDeadline,
         PollPending, PollEnds
<1>10. ASSUME NEW answer \in Answers, PollFails(answer) PROVE Inv'
  BY <1>10, <1>r DEF PollFails, PollEnds, Outcomes, Verdicts
<1>11. ASSUME NEW answer \in Answers, PollReady(answer) PROVE Inv'
  <2>t. CredentialTeam(answer) \in Teams \cup {NoTeam}
    BY <1>11, AnswerTypes DEF PollReady
  <2>1. CASE Returns("protocol")
    BY <1>11, <1>r, <2>1 DEF PollReady, PollEnds, Outcomes, Verdicts
  <2>2. CASE ~Returns("protocol")
    BY <1>11, <1>v, <2>2, <2>t
       DEF Inv, TypeOK, ContextInv, SelectionInv, CredentialInTime,
           CredentialForSelectedTeam, WaitsWithinSession,
           BlamesTheRightDeadline, PollReady, PollEnds, Outcomes
  <2>3. QED
    BY <2>1, <2>2
<1>12. ASSUME NEW answer \in Answers, PollTeamSelection(answer) PROVE Inv'
  <2>t. Listed(answer) \in SUBSET Teams
    BY <1>12, AnswerTypes DEF PollTeamSelection
  <2>1. CASE Returns("protocol")
    BY <1>12, <1>r, <2>1 DEF PollTeamSelection, PollEnds, Outcomes, Verdicts
  <2>2. CASE ~Returns("protocol")
    BY <1>12, <2>2, <2>t
       DEF Inv, TypeOK, ContextInv, SelectionInv, CredentialInTime,
           CredentialForSelectedTeam, WaitsWithinSession,
           BlamesTheRightDeadline, PollTeamSelection, PollEnds
  <2>3. QED
    BY <2>1, <2>2
<1>13. CASE Notified
  <2>1. CASE Verdict # "go"
    BY <1>13, <1>e, <2>1 DEF Notified
  <2>2. CASE Verdict = "go"
    <3>d. RetryDelay(header, now) \in Nat
      BY <1>n, <1>t, DelayTypes DEF TypeOK
    <3>1. /\ now + Least(RetryDelay(header, now), expiresAt - now) \in Nat
          /\ now + Least(RetryDelay(header, now), expiresAt - now) <= expiresAt
      BY <1>n, <1>v, <2>2, <3>d DEF Least
    <3>2. QED
      BY <1>13, <2>2, <3>1
         DEF Inv, TypeOK, ContextInv, SelectionInv, CredentialInTime,
             CredentialForSelectedTeam, WaitsWithinSession,
             BlamesTheRightDeadline, Notified
  <2>3. QED
    BY <2>1, <2>2
<1>14. CASE WaitEnds
  BY <1>14
     DEF Inv, TypeOK, ContextInv, SelectionInv, CredentialInTime,
         CredentialForSelectedTeam, WaitsWithinSession, BlamesTheRightDeadline,
         WaitEnds
<1>15. CASE WaitInterrupted
  BY <1>15, <1>e, <1>v DEF WaitInterrupted
<1>s. ASSUME NEW team \in Teams \cup {NoTeam}, Selects(team),
             \/ pc = "announcing" /\ team = options.team /\ team # NoTeam
             \/ pc = "selecting"
      PROVE  Inv'
  <2>1. CASE Returns("protocol")
    BY <1>s, <1>r, <2>1 DEF Outcomes, Verdicts
  <2>2. CASE ~Returns("protocol")
    BY <1>s, <2>2
       DEF Inv, TypeOK, ContextInv, SelectionInv, CredentialInTime,
           CredentialForSelectedTeam, WaitsWithinSession,
           BlamesTheRightDeadline, Selects
  <2>3. QED
    BY <2>1, <2>2
<1>16. CASE Announced
  <2>1. CASE Verdict # "go"
    BY <1>16, <1>e, <2>1 DEF Announced
  <2>2. CASE Verdict = "go" /\ options.team # NoTeam
    <3>1. options.team \in Teams
      BY <1>t, <2>2 DEF TypeOK
    <3>2. QED
      BY <1>16, <1>s, <2>2, <3>1 DEF Announced
  <2>3. CASE Verdict = "go" /\ options.team = NoTeam /\ ~options.selector
    BY <1>16, <1>r, <2>3 DEF Announced, Outcomes, Verdicts
  <2>4. CASE Verdict = "go" /\ options.team = NoTeam /\ options.selector
    BY <1>16, <2>4
       DEF Inv, TypeOK, ContextInv, SelectionInv, CredentialInTime,
           CredentialForSelectedTeam, WaitsWithinSession,
           BlamesTheRightDeadline, Announced
  <2>5. options.selector \in BOOLEAN
    BY <1>t DEF TypeOK
  <2>6. QED
    BY <2>1, <2>2, <2>3, <2>4, <2>5
<1>17. CASE Selected
  <2>1. CASE Verdict # "go"
    BY <1>17, <1>e, <2>1 DEF Selected
  <2>2. CASE Returns("callbackError")
    BY <1>17, <1>r, <2>2 DEF Selected, Outcomes, Verdicts
  <2>3. CASE \E team \in Teams \cup {NoTeam} : Selects(team)
    BY <1>17, <1>s, <2>3 DEF Selected
  <2>4. QED
    BY <1>17, <2>1, <2>2, <2>3 DEF Selected
<1>18. CASE Tick
  BY <1>18, <1>n
     DEF Inv, TypeOK, ContextInv, SelectionInv, CredentialInTime,
         CredentialForSelectedTeam, WaitsWithinSession, BlamesTheRightDeadline,
         Tick
<1>19. ASSUME NEW error \in {"canceled", "deadline"}, ContextEnds(error) PROVE Inv'
  BY <1>19
     DEF Inv, TypeOK, ContextInv, SelectionInv, CredentialInTime,
         CredentialForSelectedTeam, WaitsWithinSession, BlamesTheRightDeadline,
         ContextEnds
<1>20. CASE UNCHANGED vars
  BY <1>20
     DEF Inv, TypeOK, ContextInv, SelectionInv, CredentialInTime,
         CredentialForSelectedTeam, WaitsWithinSession, BlamesTheRightDeadline,
         vars
<1>21. QED
  BY <1>1, <1>2, <1>3, <1>4, <1>5, <1>6, <1>7, <1>8, <1>9, <1>10, <1>11,
     <1>12, <1>13, <1>14, <1>15, <1>16, <1>17, <1>18, <1>19, <1>20
     DEF Next, Proceed

\* Inv holds of every reachable state.
LEMMA InvHolds == Spec => []Inv
<1>1. Init => Inv
  <2>1. NoHeader \in Headers
    BY DEF NoHeader, Headers
  <2> QED
    BY <2>1, NoTeamAssumption, TimesAssumption
     DEF Init, Inv, TypeOK, ContextInv, SelectionInv, CredentialInTime,
         CredentialForSelectedTeam, WaitsWithinSession, BlamesTheRightDeadline,
         Locations, Callbacks, Outcomes, Verdicts
<1>2. QED
  BY <1>1, InvInductive, PTL DEF Spec

---------------------------------------------------------------------------
\* The types of the session, and that only an offered team is polled for.
THEOREM TypeCorrect == Spec => []TypeOK
<1>1. Inv => TypeOK
  BY DEF Inv
<1>2. QED
  BY <1>1, InvHolds, PTL

\* No credential is returned once the session or the context is over
\* (poll.go:112-114).
THEOREM CredentialInTimeHolds == Spec => []CredentialInTime
<1>1. Inv => CredentialInTime
  BY DEF Inv
<1>2. QED
  BY <1>1, InvHolds, PTL

\* A credential is the selected team's (poll.go:138, 146-176).
THEOREM CredentialForSelectedTeamHolds == Spec => []CredentialForSelectedTeam
<1>1. Inv => CredentialForSelectedTeam
  BY DEF Inv
<1>2. QED
  BY <1>1, InvHolds, PTL

\* SelectTeam is called at most once (poll.go:143-145).
THEOREM AskedOnceHolds == Spec => []AskedOnce
<1>1. Inv => AskedOnce
  BY DEF Inv, SelectionInv, AskedOnce
<1>2. QED
  BY <1>1, InvHolds, PTL

\* No request and no wait outlasts the session (poll.go:104-109, 211-213).
THEOREM WaitsWithinSessionHolds == Spec => []WaitsWithinSession
<1>1. Inv => WaitsWithinSession
  BY DEF Inv
<1>2. QED
  BY <1>1, InvHolds, PTL

\* A timeout names the deadline that ended the login (poll.go:228-239).
THEOREM BlamesTheRightDeadlineHolds == Spec => []BlamesTheRightDeadline
<1>1. Inv => BlamesTheRightDeadline
  BY DEF Inv
<1>2. QED
  BY <1>1, InvHolds, PTL

\* No poll, wait or selection begins after the end of the session or of the
\* context (poll.go:100, 149, 208).
THEOREM NothingBegunTooLateHolds == Spec => NothingBegunTooLate
<1>1. ASSUME Inv, [Next]_vars
      PROVE  [pc' # pc /\ pc' \in {"polling", "waiting", "selecting"} =>
                 now < expiresAt /\ ctxErr = "none"]_vars
  <2>1. Verdict = "go" => now < expiresAt /\ ctxErr = "none"
    BY <1>1, VerdictMeaning DEF Inv
  <2>2. SUFFICES ASSUME Next, pc' # pc,
                        pc' \in {"polling", "waiting", "selecting"}
                 PROVE  Verdict = "go"
    BY <1>1, <2>1
  <2>3. BeginPoll \/ Notified \/ Announced
    BY <2>2
       DEF Next, Proceed, Start, StartFails, SessionShown, SessionFails,
           PollTooLate, PollRetryable, PollTimesOut, PollFails, PollPending,
           PollReady, PollTeamSelection, WaitEnds, WaitInterrupted, Selected,
           Selects, Tick, ContextEnds, Goes, Returns
  <2>4. QED
    BY <2>2, <2>3 DEF BeginPoll, Notified, Announced, Returns
<1>2. QED
  BY <1>1, InvHolds, PTL DEF Spec, NothingBegunTooLate

---------------------------------------------------------------------------
\* The wait for a Retry-After: while OnEvent runs the header is kept, then the wait
\* lasts until the time it asked for, or until the session is over.
AskedInv ==
    /\ expiresAt <= MaxInt
    /\ pc \in {"start", "session", "polling", "announcing", "selecting"} => notBefore = 0
    /\ pc = "notifying" =>
          notBefore = 0 \/ \E t \in Nat : t <= now /\ notBefore = Asked(header, t)
    /\ pc = "waiting" => timer >= notBefore \/ timer >= expiresAt
    /\ pc = "top" => now >= notBefore \/ now >= expiresAt

\* The delay read from a header reaches the time that it asked for, or is longer
\* than any session.
LEMMA DelayReaches ==
    ASSUME NEW h \in Headers, NEW t \in Nat, NEW n \in Nat, t <= n
    PROVE  n + RetryDelay(h, n) >= Asked(h, t) \/ RetryDelay(h, n) >= MaxInt
<1> USE IntegersAssumption DEF IntegersAssumption
<1>1. h.value \in Nat
  BY DEF Headers
<1>2. h.value * Second \in Nat /\ RetryDelay(h, n) \in Nat
  BY <1>1, DelayTypes
<1>3. CASE h.kind = "seconds" /\ h.value <= MaxInt /\ h.value > 0
  <2>1. Asked(h, t) = t + h.value * Second
    BY <1>3 DEF Asked
  <2>2. RetryDelay(h, n) = MaxInt \/ RetryDelay(h, n) = h.value * Second
    BY <1>3 DEF RetryDelay, Seconds
  <2> QED
    BY <1>2, <2>1, <2>2
<1>4. CASE h.kind = "seconds" /\ h.value = 0
  <2>1. Asked(h, t) = t + 0 * Second
    BY <1>4 DEF Asked
  <2> QED
    BY <1>2, <2>1
<1>5. CASE h.kind = "date"
  BY <1>1, <1>5 DEF Asked, RetryDelay
<1>6. CASE ~(h.kind = "seconds" /\ h.value <= MaxInt) /\ h.kind # "date"
  <2>1. Asked(h, t) = 0
    BY <1>6 DEF Asked
  <2> QED
    BY <1>2, <2>1
<1> QED
  BY <1>1, <1>3, <1>4, <1>5, <1>6

LEMMA AskedInvInductive == Inv /\ AskedInv /\ [Next]_vars => AskedInv'
<1> SUFFICES ASSUME Inv, AskedInv, [Next]_vars PROVE AskedInv'
  OBVIOUS
<1>t. TypeOK /\ now \in Nat /\ expiresAt \in Nat /\ timer \in Nat
      /\ notBefore \in Nat /\ header \in Headers
  BY TypesOfTimes DEF Inv, TypeOK
<1>v. Verdict = "go" => now < expiresAt
  BY VerdictMeaning DEF Inv
<1> USE TimesAssumption
    DEF AskedInv, Goes, environment, waitVars, teamVars, resultVars
<1>r. ASSUME NEW result, Returns(result) PROVE AskedInv'
  BY <1>r DEF Returns
<1>1. CASE Start
  <2>1. expiresAt' <= MaxInt
    <3>1. PICK expiresIn \in ExpiresIns \cup {Unsaid} : expiresAt' = StartExpiry(expiresIn)
      BY <1>1 DEF Start
    <3>2. expiresIn = Unsaid => expiresAt' = LegacyLifetime
      BY <3>1 DEF StartExpiry
    <3>3. expiresIn # Unsaid => expiresAt' = Least(expiresIn, MaxWait) /\ expiresIn \in Nat
      BY <3>1 DEF StartExpiry
    <3> QED
      BY <3>2, <3>3, IntegersAssumption DEF Least, IntegersAssumption
  <2> QED
    BY <1>1, <2>1 DEF Start
<1>2. CASE StartFails \/ SessionFails \/ PollTooLate \/ WaitInterrupted
  BY <1>2, <1>r DEF StartFails, SessionFails, PollTooLate, WaitInterrupted
<1>3. CASE SessionShown
  BY <1>3, <1>t DEF SessionShown
<1>4. CASE BeginPoll
  BY <1>4, <1>r DEF BeginPoll
<1>5. ASSUME NEW answer \in Answers, PollRetryable(answer) PROVE AskedInv'
  BY <1>5, <1>t DEF PollRetryable, PollEnds
<1>6. CASE PollTimesOut
  BY <1>6 DEF PollTimesOut, PollEnds
<1>7. ASSUME NEW answer \in Answers, PollPending(answer) PROVE AskedInv'
  BY <1>7 DEF PollPending, PollEnds
<1>8. ASSUME NEW answer \in Answers, PollFails(answer) PROVE AskedInv'
  BY <1>8, <1>r DEF PollFails
<1>9. ASSUME NEW answer \in Answers, PollReady(answer) PROVE AskedInv'
  BY <1>9, <1>r DEF PollReady
<1>10. ASSUME NEW answer \in Answers, PollTeamSelection(answer) PROVE AskedInv'
  BY <1>10, <1>r DEF PollTeamSelection, PollEnds
<1>11. CASE Notified
  <2>1. CASE Verdict # "go"
    BY <1>11, <1>r, <2>1 DEF Notified
  <2>2. CASE Verdict = "go"
    <3> DEFINE wait == RetryDelay(header, now)
    <3>1. wait \in Nat
      BY <1>t, DelayTypes
    <3>2. now + wait >= notBefore \/ wait >= MaxInt
      BY <1>11, <1>t, <3>1, DelayReaches DEF Notified
    <3>3. timer' = now + Least(wait, expiresAt - now)
      BY <1>11, <2>2 DEF Notified
    <3>4. timer' >= notBefore \/ timer' >= expiresAt
      <4> HIDE DEF wait
      <4> QED
        BY <1>t, <1>v, <2>2, <3>1, <3>2, <3>3, expiresAt <= MaxInt, IntegersAssumption
           DEF Least, IntegersAssumption
    <3>5. pc' = "waiting" /\ UNCHANGED <<expiresAt, notBefore>>
      BY <1>11, <2>2 DEF Notified
    <3> QED
      BY <3>4, <3>5
  <2> QED
    BY <2>1, <2>2
<1>12. CASE WaitEnds
  BY <1>12, <1>t DEF WaitEnds
<1>s. ASSUME NEW team, Selects(team), notBefore = 0 PROVE AskedInv'
  BY <1>s, <1>r, <1>t DEF Selects
<1>13. CASE Announced
  BY <1>13, <1>r, <1>s DEF Announced
<1>14. CASE Selected
  BY <1>14, <1>r, <1>s DEF Selected
<1>15. CASE Tick
  BY <1>15, <1>t DEF Tick
<1>16. ASSUME NEW error \in {"canceled", "deadline"}, ContextEnds(error) PROVE AskedInv'
  BY <1>16 DEF ContextEnds
<1>17. CASE UNCHANGED vars
  BY <1>17 DEF vars
<1> QED
  BY <1>1, <1>2, <1>3, <1>4, <1>5, <1>6, <1>7, <1>8, <1>9, <1>10, <1>11, <1>12,
     <1>13, <1>14, <1>15, <1>16, <1>17 DEF Next, Proceed

\* No poll before the time the proxy asked for, for integers of any width
\* (poll.go:125, 206-213, 286-305).
THEOREM PollsNotBeforeAskedHolds == Spec => PollsNotBeforeAsked
<1>1. Init => AskedInv
  BY IntegersAssumption DEF Init, AskedInv, IntegersAssumption
<1>2. ASSUME Inv, AskedInv, [Next]_vars
      PROVE  [pc # "polling" /\ pc' = "polling" => now >= notBefore]_vars
  <2>1. SUFFICES ASSUME Next, pc # "polling", pc' = "polling" PROVE now >= notBefore
    BY <1>2
  <2>2. BeginPoll
    BY <2>1
       DEF Next, Proceed, Start, StartFails, SessionShown, SessionFails,
           PollTooLate, PollRetryable, PollTimesOut, PollFails, PollPending,
           PollReady, PollTeamSelection, Notified, WaitEnds, WaitInterrupted,
           Announced, Selected, Selects, Tick, ContextEnds, Goes, Returns
  <2>3. Verdict = "go"
    BY <2>1, <2>2 DEF BeginPoll, Returns
  <2>4. now < expiresAt /\ now \in Nat /\ expiresAt \in Nat
    BY <1>2, <2>3, VerdictMeaning, TypesOfTimes DEF Inv
  <2> QED
    BY <1>2, <2>2, <2>4 DEF BeginPoll, AskedInv
<1> QED
  BY <1>1, <1>2, InvHolds, AskedInvInductive, PTL DEF Spec, PollsNotBeforeAsked

---------------------------------------------------------------------------
(***************************************************************************)
(* Authenticate implements LoginSession with no result that may be late.   *)
(***************************************************************************)

\* The points at which the session is open.
Open == Locations \ {"start", "done"}

\* What a verdict of awaitDeadline says is what LoginSession may blame.
LEMMA VerdictBlames ==
    ASSUME TypeOK, ContextInv
    PROVE  /\ Verdict \in Verdicts => Session!Blames(Verdict)
           /\ Verdict = "go" => Session!Lasts
<1>1. now \in Nat /\ expiresAt \in Nat /\ options.deadline \in Nat
  BY TypesOfTimes
<1> USE DEF TypeOK, ContextInv, Verdict, Verdicts, Session!Blames, Session!Lasts
<1>2. CASE ctxErr = "canceled"
  BY <1>2
<1>3. CASE ctxErr = "deadline"
  BY <1>1, <1>3
<1>4. CASE ctxErr = "none"
  BY <1>1, <1>4
<1> QED
  BY <1>2, <1>3, <1>4

\* The login is one session: opened with an end that stays, and over with a result in
\* time or with the verdict that is due (poll.go:93-180, 188-204, 223-238).
THEOREM Implements == Spec => ActsAsSession
<1>1. Init => Session!SessionInit
  <2> SUFFICES ASSUME Init PROVE Session!SessionInit
    OBVIOUS
  <2>1. options.deadline \in Nat
    BY TimesAssumption DEF Init
  <2> QED
    BY <2>1 DEF Init, Session!SessionInit, Progress
<1>2. Inv /\ [Next]_vars => [Session!SessionNext]_(Session!sessionVars)
  <2> SUFFICES ASSUME Inv, [Next]_vars
               PROVE  Session!SessionNext \/ UNCHANGED Session!sessionVars
    OBVIOUS
  <2>t. TypeOK /\ ContextInv /\ pc \in Locations
    BY DEF Inv, TypeOK
  <2>g. Verdict \in Verdicts \cup {"go"}
    BY <2>t, VerdictMeaning
  <2>v. /\ Verdict \in Verdicts => Session!Blames(Verdict)
        /\ Verdict = "go" => Session!Lasts
    BY <2>t, VerdictBlames
  <2>s. ASSUME pc \in Open, NEW to \in Open, Goes(to)
        PROVE  UNCHANGED Session!sessionVars
    BY <2>s
       DEF Goes, environment, resultVars, Open, Locations, Callbacks, Progress,
           Session!sessionVars
  <2>e. ASSUME pc \in Open, NEW result, Returns(result) PROVE Session!Ends(result)
    BY <2>e DEF Returns, environment, Progress, Open, Session!Ends
  <2>p. pc \in Open => Progress = "open"
    BY DEF Progress, Open
  <2>b. ASSUME pc \in Open, Verdict # "go", Returns(Verdict)
        PROVE  Session!SessionNext
    BY <2>b, <2>e, <2>g, <2>p, <2>v
       DEF Verdicts, Session!GivesUp, Session!SessionNext
  <2>r. ASSUME pc \in Open, Verdict = "go", NEW result \in Outcomes \ Verdicts,
               Returns(result)
        PROVE  Session!SessionNext
    BY <2>e, <2>p, <2>r, <2>v DEF Session!Finishes, Session!SessionNext
  <2>c. ASSUME pc \in Open, Verdict = "go", NEW team, Selects(team)
        PROVE  Session!SessionNext \/ UNCHANGED Session!sessionVars
    <3>1. CASE Returns("protocol")
      BY <2>c, <2>r, <3>1 DEF Outcomes, Verdicts
    <3>2. CASE Goes("top")
      BY <2>c, <2>s, <3>2 DEF Open, Locations
    <3> QED
      BY <2>c, <3>1, <3>2 DEF Selects
  <2>1. CASE Start
    <3>1. expiresAt' \in Nat \ {0}
      BY <2>1, TimesAssumption DEF Start, StartExpiry, Least
    <3> QED
      BY <2>1, <3>1
         DEF Start, environment, resultVars, Progress, Session!Opens,
             Session!SessionNext
  <2>2. CASE StartFails
    BY <2>2
       DEF StartFails, Returns, environment, Progress, Session!Refused, Session!Ends,
           Session!SessionNext
  <2>3. CASE SessionShown \/ WaitEnds \/ PollTimesOut
    BY <2>3, <2>s DEF SessionShown, WaitEnds, PollTimesOut, PollEnds, Open, Locations,
                      Callbacks
  <2>4. CASE SessionFails
    <3>1. pc \in Open
      BY <2>4 DEF SessionFails, Open, Locations, Callbacks
    <3>2. CASE Verdict = "go"
      BY <2>4, <2>r, <3>1, <3>2 DEF SessionFails, Outcomes, Verdicts
    <3>3. CASE Verdict # "go"
      BY <2>4, <2>b, <3>1, <3>3 DEF SessionFails
    <3> QED
      BY <3>2, <3>3
  <2>5. CASE BeginPoll \/ Notified
    <3>1. pc \in Open
      BY <2>5 DEF BeginPoll, Notified, Open, Locations, Callbacks
    <3>2. CASE Verdict = "go"
      BY <2>5, <2>s, <3>1, <3>2 DEF BeginPoll, Notified, Open, Locations
    <3>3. CASE Verdict # "go"
      BY <2>5, <2>b, <3>1, <3>3 DEF BeginPoll, Notified
    <3> QED
      BY <3>2, <3>3
  <2>6. CASE PollTooLate
    BY <2>6, <2>b DEF PollTooLate, Open, Locations
  <2>7. ASSUME NEW answer \in Answers, PollRetryable(answer) \/ PollPending(answer)
        PROVE  UNCHANGED Session!sessionVars
    BY <2>7, <2>s
       DEF PollRetryable, PollPending, PollEnds, Open, Locations, Callbacks
  <2>8. ASSUME NEW answer \in Answers, PollFails(answer) PROVE Session!SessionNext
    BY <2>8, <2>r DEF PollFails, PollEnds, Open, Locations, Outcomes, Verdicts
  <2>9. ASSUME NEW answer \in Answers, PollReady(answer) PROVE Session!SessionNext
    <3>1. pc \in Open /\ Verdict = "go"
      BY <2>9 DEF PollReady, PollEnds, Open, Locations
    <3>2. CASE Returns("protocol")
      BY <2>r, <3>1, <3>2 DEF Outcomes, Verdicts
    <3>3. CASE ~Returns("protocol")
      <4>1. Session!Ends("credential")
        BY <2>9, <3>1, <3>3 DEF PollReady, environment, Progress, Session!Ends
      <4> QED
        BY <2>p, <2>v, <3>1, <4>1
           DEF Session!Finishes, Session!SessionNext, Outcomes, Verdicts
    <3> QED
      BY <3>2, <3>3
  <2>10. ASSUME NEW answer \in Answers, PollTeamSelection(answer)
         PROVE  Session!SessionNext \/ UNCHANGED Session!sessionVars
    <3>1. pc \in Open /\ Verdict = "go"
      BY <2>10 DEF PollTeamSelection, PollEnds, Open, Locations
    <3>2. CASE Returns("protocol")
      BY <2>r, <3>1, <3>2 DEF Outcomes, Verdicts
    <3>3. CASE Goes("announcing")
      BY <2>s, <3>1, <3>3 DEF Open, Locations, Callbacks
    <3> QED
      BY <2>10, <3>2, <3>3 DEF PollTeamSelection
  <2>11. CASE WaitInterrupted
    <3>1. pc \in Open /\ Verdict # "go" /\ Returns(Verdict)
      BY <2>11, <2>t, VerdictMeaning DEF WaitInterrupted, Open, Locations
    <3> QED
      BY <2>b, <3>1
  <2>12. CASE Announced
    <3>1. pc \in Open
      BY <2>12 DEF Announced, Open, Locations, Callbacks
    <3>2. CASE Verdict # "go"
      BY <2>12, <2>b, <3>1, <3>2 DEF Announced
    <3>3. CASE Verdict = "go" /\ Selects(options.team)
      BY <2>c, <3>1, <3>3
    <3>4. CASE Verdict = "go" /\ Returns("teamRequired")
      BY <2>r, <3>1, <3>4 DEF Outcomes, Verdicts
    <3>5. CASE Verdict = "go" /\ Goes("selecting")
      BY <2>s, <3>1, <3>5 DEF Open, Locations, Callbacks
    <3> QED
      BY <2>12, <3>2, <3>3, <3>4, <3>5 DEF Announced
  <2>13. CASE Selected
    <3>1. pc \in Open
      BY <2>13 DEF Selected, Open, Locations, Callbacks
    <3>2. CASE Verdict # "go"
      BY <2>13, <2>b, <3>1, <3>2 DEF Selected
    <3>3. CASE Verdict = "go" /\ Returns("callbackError")
      BY <2>r, <3>1, <3>3 DEF Outcomes, Verdicts
    <3>4. ASSUME Verdict = "go", NEW team \in Teams \cup {NoTeam}, Selects(team)
          PROVE  Session!SessionNext \/ UNCHANGED Session!sessionVars
      BY <2>c, <3>1, <3>4
    <3> QED
      BY <2>13, <3>2, <3>3, <3>4 DEF Selected
  <2>14. CASE Tick
    <3>1. Progress = "open" /\ Progress' = Progress
      BY <2>14, <2>p, <2>t DEF Tick, Open, Progress
    <3> QED
      BY <2>14, <3>1 DEF Tick, resultVars, Session!Passes, Session!SessionNext
  <2>15. ASSUME NEW error \in {"canceled", "deadline"}, ContextEnds(error)
         PROVE  Session!SessionNext
    <3>1. Progress # "over" /\ Progress' = Progress
      BY <2>15 DEF ContextEnds, Progress
    <3> QED
      BY <2>15, <3>1
         DEF ContextEnds, resultVars, Session!CallerEnds, Session!SessionNext
  <2>16. CASE UNCHANGED vars
    BY <2>16 DEF vars, Progress, Session!sessionVars
  <2> QED
    BY <2>1, <2>2, <2>3, <2>4, <2>5, <2>6, <2>7, <2>8, <2>9, <2>10, <2>11, <2>12,
       <2>13, <2>14, <2>15, <2>16
       DEF Next, Proceed
<1> QED
  BY <1>1, <1>2, InvHolds, PTL DEF Spec, ActsAsSession, Session!SessionSpec
=============================================================================

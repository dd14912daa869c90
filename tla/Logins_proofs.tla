---------------------------- MODULE Logins_proofs ----------------------------
(***************************************************************************)
(* The device login keeps its types, and keeps the distance between polls  *)
(* that the provider has asked for, for any lifetimes, intervals, steps    *)
(* and deadlines.  The browser logins are safe for any number of logins    *)
(* and ports.                                                              *)
(***************************************************************************)
EXTENDS DeviceLogin, BrowserLogin, TLAPS

(***************************************************************************)
(* The device login.                                                       *)
(***************************************************************************)

LEMMA VerdictMeaning ==
    ASSUME ctxErr \in {"none", "canceled", "deadline"}
    PROVE  /\ Verdict \in Verdicts \cup {"go"}
           /\ Verdict = "go" => ~(now >= deadline)
<1>1. CASE ctxErr = "canceled"
  BY <1>1 DEF Verdict, Verdicts
<1>2. CASE ctxErr = "deadline"
  BY <1>2 DEF Verdict, Verdicts
<1>3. CASE ctxErr = "none"
  BY <1>3 DEF Verdict, Verdicts
<1> QED
  BY <1>1, <1>2, <1>3

LEMMA ReturnsType ==
    ASSUME TypeOK, NEW r \in Outcomes, Returns(r)
    PROVE  TypeOK'
BY DEF TypeOK, Returns, environment, pollVars, Outcomes, Verdicts

LEMMA Typing == TypeOK /\ [Next]_vars => TypeOK'
<1> SUFFICES ASSUME TypeOK, [Next]_vars PROVE TypeOK'
  OBVIOUS
<1>n. now \in Nat /\ timer \in Int /\ interval \in Nat /\ deadline \in Nat
  BY TimesAssumption DEF TypeOK
<1>v. Verdict \in Verdicts \cup {"go"}
  BY VerdictMeaning DEF TypeOK
<1> USE TimesAssumption DEF TypeOK, environment, pollVars, Goes
<1>1. CASE Authorize
  BY <1>1 DEF Authorize
<1>2. CASE AuthorizeFails \/ AnnounceFails \/ PollGranted \/ PollInvalid
  BY <1>2, ReturnsType
     DEF AuthorizeFails, AnnounceFails, PollGranted, PollInvalid, Outcomes
<1>3. CASE Announced
  BY <1>3 DEF Announced
<1>4. CASE BeginPoll
  <2>1. CASE Verdict = "go"
    <3>1. timer' = now + RequestTimeout
      BY <1>4, <2>1 DEF BeginPoll
    <3>2. timer' \in Int
      BY <1>n, <3>1
    <3> QED
      BY <1>4, <2>1, <3>2 DEF BeginPoll
  <2>2. CASE Verdict # "go"
    BY <1>4, <1>v, <2>2, ReturnsType DEF BeginPoll, Outcomes
  <2> QED
    BY <2>1, <2>2
<1>5. ASSUME NEW code \in {"authorization_pending", "slow_down"}, PollPending(code)
      PROVE  TypeOK'
  <2>1. interval' \in Nat /\ asked' \in Nat
    BY <1>5 DEF PollPending, NextInterval
  <2>2. timer' \in Int
    BY <1>5, <1>n, <2>1 DEF PollPending, Least
  <2>3. answered' \in -1 .. now'
    BY <1>5, <1>n DEF PollPending
  <2> QED
    BY <1>5, <2>1, <2>2, <2>3 DEF PollPending
<1>6. CASE PollFails
  BY <1>6, <1>v, ReturnsType DEF PollFails, Outcomes
<1>7. CASE PollTimesOut
  BY <1>7, <1>v, ReturnsType DEF PollTimesOut, Outcomes
<1>8. CASE WaitEnds
  BY <1>8 DEF WaitEnds
<1>9. CASE WaitInterrupted
  <2>1. Verdict \in Verdicts
    <3>1. CASE ctxErr = "canceled"
      BY <3>1 DEF Verdict, Verdicts
    <3>2. CASE ctxErr = "deadline"
      BY <3>2 DEF Verdict, Verdicts
    <3> QED
      BY <1>9, <3>1, <3>2 DEF WaitInterrupted
  <2> QED
    BY <1>9, <2>1, ReturnsType DEF WaitInterrupted, Outcomes
<1>10. CASE Tick
  <2>1. now' \in Nat /\ answered' \in -1 .. now'
    BY <1>10, <1>n DEF Tick
  <2> QED
    BY <1>10, <2>1 DEF Tick
<1>11. ASSUME NEW error \in {"canceled", "deadline"}, ContextEnds(error)
       PROVE  TypeOK'
  BY <1>11 DEF ContextEnds
<1>12. CASE UNCHANGED vars
  BY <1>12 DEF vars
<1> QED
  BY <1>1, <1>2, <1>3, <1>4, <1>5, <1>6, <1>7, <1>8, <1>9, <1>10, <1>11, <1>12
     DEF Next, Proceed

\* The state of a device login keeps its types (oidc_device.go:71-140).
THEOREM TypeCorrect == Spec => []TypeOK
<1>1. Init => TypeOK
  BY DEF Init, TypeOK
<1> QED
  BY <1>1, Typing, PTL DEF Spec

---------------------------------------------------------------------------
\* The interval is what the provider has asked for; a wait reaches from the last
\* answer over the whole of it, or to the deadline.
SpacingInv ==
    /\ interval = asked
    /\ pc \in {"start", "announcing"} => answered = -1
    /\ pc = "waiting" => timer >= answered + asked \/ timer >= deadline
    /\ pc = "top" /\ answered >= 0 => now >= answered + asked \/ now >= deadline

LEMMA SpacingInductive ==
    TypeOK /\ SpacingInv /\ [Next]_vars => SpacingInv'
<1> SUFFICES ASSUME TypeOK, SpacingInv, [Next]_vars PROVE SpacingInv'
  OBVIOUS
<1>n. /\ now \in Nat /\ timer \in Int /\ interval \in Nat /\ deadline \in Nat
      /\ asked \in Nat /\ answered \in Int
  BY TimesAssumption DEF TypeOK
<1> USE DEF SpacingInv, environment, pollVars, Goes
<1>r. ASSUME NEW r, Returns(r) PROVE SpacingInv'
  BY <1>r DEF Returns
<1>1. CASE Authorize
  BY <1>1 DEF Authorize
<1>2. CASE \/ AuthorizeFails \/ AnnounceFails \/ PollGranted \/ PollInvalid
           \/ PollFails \/ PollTimesOut \/ WaitInterrupted
  BY <1>2, <1>r
     DEF AuthorizeFails, AnnounceFails, PollGranted, PollInvalid, PollFails,
         PollTimesOut, WaitInterrupted
<1>3. CASE Announced
  BY <1>3 DEF Announced
<1>4. CASE BeginPoll
  BY <1>4, <1>r DEF BeginPoll
<1>5. ASSUME NEW code \in {"authorization_pending", "slow_down"}, PollPending(code)
      PROVE  SpacingInv'
  <2>1. interval' = asked' /\ interval' \in Nat
    <3>1. CASE code = "slow_down"
      BY <1>5, <1>n, <3>1, TimesAssumption DEF PollPending, NextInterval
    <3>2. CASE code # "slow_down"
      BY <1>5, <1>n, <3>2 DEF PollPending, NextInterval
    <3> QED
      BY <3>1, <3>2
  <2>2. timer' = now + Least(interval', deadline - now) /\ answered' = now
        /\ pc' = "waiting" /\ deadline' = deadline
    BY <1>5 DEF PollPending
  <2>3. timer' >= now + interval' \/ timer' >= deadline
    <3> DEFINE wait == interval'
               left == deadline - now
    <3>1. wait \in Nat /\ left \in Int /\ deadline = now + left
      BY <1>n, <2>1
    <3>2. timer' = now + Least(wait, left)
      BY <2>2
    <3> HIDE DEF wait, left
    <3>3. Least(wait, left) \in {wait, left}
      BY DEF Least
    <3>4. timer' = now + wait \/ timer' = deadline
      BY <3>1, <3>2, <3>3
    <3> QED
      BY <1>n, <3>1, <3>4 DEF wait
  <2> QED
    BY <2>1, <2>2, <2>3
<1>6. CASE WaitEnds
  BY <1>6, <1>n DEF WaitEnds
<1>7. CASE Tick
  BY <1>7, <1>n DEF Tick
<1>8. ASSUME NEW error \in {"canceled", "deadline"}, ContextEnds(error)
      PROVE  SpacingInv'
  BY <1>8 DEF ContextEnds
<1>9. CASE UNCHANGED vars
  BY <1>9 DEF vars
<1> QED
  BY <1>1, <1>2, <1>3, <1>4, <1>5, <1>6, <1>7, <1>8, <1>9 DEF Next, Proceed

\* No poll sooner after an answer than the provider asked for, for any sequence of
\* slow_downs and any deadline (oidc_device.go:102-139).
THEOREM PollsSpacedOutHolds == Spec => PollsSpacedOut
<1>1. Init => TypeOK /\ SpacingInv
  BY DEF Init, TypeOK, SpacingInv
<1>2. ASSUME TypeOK, SpacingInv, [Next]_vars
      PROVE  [pc = "top" /\ pc' = "polling" /\ answered >= 0 =>
                 now >= answered + asked]_vars
  <2>1. SUFFICES ASSUME Next, pc = "top", pc' = "polling", answered >= 0
                 PROVE  now >= answered + asked
    BY <1>2
  <2>2. BeginPoll
    BY <2>1
       DEF Next, Proceed, Authorize, AuthorizeFails, Announced, AnnounceFails,
           PollGranted, PollInvalid, PollPending, PollFails, PollTimesOut,
           WaitEnds, WaitInterrupted, Tick, ContextEnds
  <2>3. Verdict = "go"
    BY <2>1, <2>2 DEF BeginPoll, Returns
  <2>4. ~(now >= deadline)
    BY <1>2, <2>3, VerdictMeaning DEF TypeOK
  <2> QED
    BY <1>2, <2>1, <2>4 DEF SpacingInv
<1> QED
  BY <1>1, <1>2, Typing, SpacingInductive, PTL DEF Spec, PollsSpacedOut

---------------------------------------------------------------------------
\* The context ends of its deadline only once that has passed (oidc_device.go:190-206).
ContextInv == ctxErr = "deadline" => callerDeadline <= now

\* The points at which the session is open.
Open == {"announcing", "top", "polling", "waiting"}

\* What a verdict of deviceDeadline says is what LoginSession may blame.
LEMMA VerdictBlames ==
    ASSUME TypeOK, ContextInv
    PROVE  /\ Verdict \in Verdicts => Session!Blames(Verdict)
           /\ Verdict = "go" => Session!Lasts
           /\ ctxErr # "none" => Verdict # "go"
<1>1. now \in Nat /\ deadline \in Nat /\ callerDeadline \in Nat
  BY TimesAssumption DEF TypeOK
<1> USE DEF TypeOK, ContextInv, Verdict, Verdicts, Session!Blames, Session!Lasts
<1>2. CASE ctxErr = "canceled"
  BY <1>2
<1>3. CASE ctxErr = "deadline"
  BY <1>1, <1>3
<1>4. CASE ctxErr = "none"
  BY <1>1, <1>4
<1> QED
  BY <1>2, <1>3, <1>4

LEMMA ContextInvHolds == Spec => [](TypeOK /\ ContextInv)
<1>1. Init => TypeOK /\ ContextInv
  BY DEF Init, TypeOK, ContextInv
<1>2. TypeOK /\ ContextInv /\ [Next]_vars => ContextInv'
  <2> SUFFICES ASSUME TypeOK, ContextInv, [Next]_vars PROVE ContextInv'
    OBVIOUS
  <2>n. now \in Nat /\ callerDeadline \in Nat
    BY TimesAssumption DEF TypeOK
  <2>1. CASE Tick
    BY <2>n, <2>1 DEF Tick, ContextInv
  <2>2. ASSUME NEW error \in {"canceled", "deadline"}, ContextEnds(error)
        PROVE  ContextInv'
    BY <2>n, <2>2 DEF ContextEnds, ContextInv
  <2>3. CASE UNCHANGED environment
    BY <2>3 DEF environment, ContextInv
  <2>4. CASE UNCHANGED vars
    BY <2>4 DEF vars, ContextInv
  <2>5. ASSUME NEW code \in {"authorization_pending", "slow_down"}, PollPending(code)
        PROVE  UNCHANGED environment
    BY <2>5 DEF PollPending, Goes
  <2> QED
    BY <2>1, <2>2, <2>3, <2>4, <2>5
       DEF Next, Proceed, Authorize, AuthorizeFails, Announced, AnnounceFails,
           BeginPoll, PollGranted, PollInvalid, PollFails, PollTimesOut, WaitEnds,
           WaitInterrupted, Goes, Returns
<1> QED
  BY <1>1, <1>2, Typing, PTL DEF Spec

\* The device login is a session too; only its success, its rejection of an id_token
\* and an error of OnAuthorization may come after its end (oidc_device.go:71-140,
\* 190-206).
THEOREM Implements == Spec => ActsAsSession
<1>1. Init => Session!SessionInit
  BY TimesAssumption DEF Init, Session!SessionInit, Progress
<1>2. TypeOK /\ ContextInv /\ [Next]_vars
          => [Session!SessionNext]_(Session!sessionVars)
  <2> SUFFICES ASSUME TypeOK, ContextInv, [Next]_vars
               PROVE  Session!SessionNext \/ UNCHANGED Session!sessionVars
    OBVIOUS
  <2>g. Verdict \in Verdicts \cup {"go"}
    BY VerdictMeaning DEF TypeOK
  <2>v. /\ Verdict \in Verdicts => Session!Blames(Verdict)
        /\ Verdict = "go" => Session!Lasts
        /\ ctxErr # "none" => Verdict # "go"
    BY VerdictBlames
  <2>s. ASSUME pc \in Open, NEW to \in Open, Goes(to), deadline' = deadline
        PROVE  UNCHANGED Session!sessionVars
    BY <2>s DEF Goes, environment, Open, Progress, Session!sessionVars
  <2>e. ASSUME pc \in Open, NEW r, Returns(r) PROVE Session!Ends(r)
    BY <2>e DEF Returns, environment, pollVars, Progress, Session!Ends
  <2>p. pc \in Open => Progress = "open"
    BY DEF Progress, Open
  <2>b. ASSUME pc \in Open, Verdict # "go", Returns(Verdict)
        PROVE  Session!SessionNext
    BY <2>b, <2>e, <2>g, <2>p, <2>v
       DEF Verdicts, Session!GivesUp, Session!SessionNext
  <2>r. ASSUME pc \in Open, NEW r \in Outcomes \ Verdicts, Returns(r),
               Verdict = "go" \/ r \in {"credential", "protocol", "callbackError"}
        PROVE  Session!SessionNext
    BY <2>e, <2>p, <2>r, <2>v DEF Session!Finishes, Session!SessionNext
  <2>1. CASE Authorize
    <3>1. deadline' \in Nat \ {0}
      BY <2>1, TimesAssumption DEF Authorize
    <3> QED
      BY <2>1, <3>1
         DEF Authorize, Goes, environment, Progress, Session!Opens, Session!SessionNext
  <2>2. CASE AuthorizeFails
    BY <2>2
       DEF AuthorizeFails, Returns, environment, pollVars, Progress, Session!Refused,
           Session!Ends, Session!SessionNext
  <2>3. CASE Announced \/ WaitEnds
    BY <2>3, <2>s DEF Announced, WaitEnds, pollVars, Open
  <2>4. CASE AnnounceFails \/ PollGranted \/ PollInvalid
    BY <2>4, <2>r
       DEF AnnounceFails, PollGranted, PollInvalid, Open, Outcomes, Verdicts
  <2>5. CASE BeginPoll
    <3>1. CASE Verdict = "go"
      BY <2>5, <2>s, <3>1 DEF BeginPoll, Open
    <3>2. CASE Verdict # "go"
      BY <2>5, <2>b, <3>2 DEF BeginPoll, Open
    <3> QED
      BY <3>1, <3>2
  <2>6. ASSUME NEW code \in {"authorization_pending", "slow_down"}, PollPending(code)
        PROVE  UNCHANGED Session!sessionVars
    BY <2>6, <2>s DEF PollPending, Open
  <2>7. CASE PollFails \/ PollTimesOut
    <3>1. pc \in Open
      BY <2>7 DEF PollFails, PollTimesOut, Open
    <3>2. CASE Verdict = "go"
      BY <2>7, <2>r, <3>1, <3>2 DEF PollFails, PollTimesOut, Outcomes, Verdicts
    <3>3. CASE Verdict # "go"
      BY <2>7, <2>b, <3>1, <3>3 DEF PollFails, PollTimesOut
    <3> QED
      BY <3>2, <3>3
  <2>8. CASE WaitInterrupted
    BY <2>8, <2>b, <2>v DEF WaitInterrupted, Open
  <2>9. CASE Tick
    <3>1. Progress = "open" /\ Progress' = Progress
      BY <2>9, <2>p DEF Tick, TypeOK, Open, Progress
    <3> QED
      BY <2>9, <3>1 DEF Tick, pollVars, Session!Passes, Session!SessionNext
  <2>10. ASSUME NEW error \in {"canceled", "deadline"}, ContextEnds(error)
         PROVE  Session!SessionNext
    <3>1. Progress # "over" /\ Progress' = Progress
      BY <2>10 DEF ContextEnds, Progress
    <3> QED
      BY <2>10, <3>1
         DEF ContextEnds, pollVars, Session!CallerEnds, Session!SessionNext
  <2>11. CASE UNCHANGED vars
    BY <2>11 DEF vars, Progress, Session!sessionVars
  <2> QED
    BY <2>1, <2>2, <2>3, <2>4, <2>5, <2>6, <2>7, <2>8, <2>9, <2>10, <2>11
       DEF Next, Proceed
<1> QED
  BY <1>1, <1>2, ContextInvHolds, PTL DEF Spec, ActsAsSession, Session!SessionSpec

---------------------------------------------------------------------------
(***************************************************************************)
(* The browser logins.                                                     *)
(***************************************************************************)

\* The user is shown a session only once the login listens; it does not turn to the
\* device flow after that.
ShownInv ==
    \A l \in opened : stage[l] \in {"session", "waiting", "redeeming", "done"}

\* Nothing is served before Wait serves; while it waits, the channel holds the first
\* callback or nothing, and a code in it is the login's own.
ServedInv ==
    \A l \in Logins :
        /\ stage[l] \in {"idle", "bind", "register", "session"} =>
              outcomes[l] = {} /\ first[l] = "none"
        /\ stage[l] = "waiting" =>
              /\ outcomes[l] = {} => first[l] = "none"
              /\ \A o \in outcomes[l] : first[l] = o.verdict
        /\ \A o \in outcomes[l] : o.verdict = "code" => o.from = l

BrowserInv ==
    /\ BrowserTypeOK /\ ListenersHeldExactly /\ ShownInv /\ ServedInv
    /\ RedeemsOwnCode /\ FirstCallbackCounts

LEMMA BrowserInvInductive ==
    BrowserInv /\ [BrowserNext]_browserVars => BrowserInv'
<1> SUFFICES ASSUME BrowserInv, [BrowserNext]_browserVars PROVE BrowserInv'
  OBVIOUS
<1> USE NobodyAssumption
    DEF BrowserInv, GoTo, Flows, CallbackVerdicts, Results, Listening
<1>1. ASSUME NEW l \in Logins, Discover(l) PROVE BrowserInv'
  <2>1. BrowserTypeOK' /\ ListenersHeldExactly' /\ ShownInv'
    BY <1>1
       DEF Discover, portVars, waitVars, BrowserTypeOK, ListenersHeldExactly, ShownInv
  <2>2. ServedInv' /\ RedeemsOwnCode' /\ FirstCallbackCounts'
    BY <1>1
       DEF Discover, portVars, waitVars, ServedInv, RedeemsOwnCode, FirstCallbackCounts,
           BrowserTypeOK
  <2> QED
    BY <2>1, <2>2
<1>2. ASSUME NEW l \in Logins, NEW p \in Ports, Bind(l, p) PROVE BrowserInv'
  <2>1. BrowserTypeOK' /\ ListenersHeldExactly'
    BY <1>2 DEF Bind, waitVars, BrowserTypeOK, ListenersHeldExactly
  <2>2. ShownInv' /\ ServedInv'
    BY <1>2 DEF Bind, waitVars, ShownInv, ServedInv, BrowserTypeOK
  <2>3. RedeemsOwnCode' /\ FirstCallbackCounts'
    BY <1>2
       DEF Bind, waitVars, RedeemsOwnCode, FirstCallbackCounts, BrowserTypeOK, ShownInv,
           ServedInv
  <2> QED
    BY <2>1, <2>2, <2>3
<1>3. ASSUME NEW l \in Logins, BindFails(l) PROVE BrowserInv'
  <2>1. BrowserTypeOK' /\ ListenersHeldExactly'
    BY <1>3
       DEF BindFails, Ends, Finishes, Close, MayFallBack, waitVars, BrowserTypeOK,
           ListenersHeldExactly
  <2>2. ShownInv' /\ ServedInv'
    BY <1>3
       DEF BindFails, Ends, Finishes, Close, MayFallBack, waitVars, ShownInv, ServedInv,
           BrowserTypeOK
  <2>3. RedeemsOwnCode' /\ FirstCallbackCounts'
    BY <1>3
       DEF BindFails, Ends, Finishes, Close, MayFallBack, waitVars, RedeemsOwnCode,
           FirstCallbackCounts, BrowserTypeOK, ShownInv, ServedInv
  <2> QED
    BY <2>1, <2>2, <2>3
<1>4. ASSUME NEW l \in Logins, Register(l) PROVE BrowserInv'
  <2>1. BrowserTypeOK' /\ ListenersHeldExactly' /\ ShownInv'
    BY <1>4
       DEF Register, portVars, waitVars, BrowserTypeOK, ListenersHeldExactly, ShownInv
  <2>2. ServedInv' /\ RedeemsOwnCode' /\ FirstCallbackCounts'
    BY <1>4
       DEF Register, portVars, waitVars, ServedInv, RedeemsOwnCode, FirstCallbackCounts,
           BrowserTypeOK
  <2> QED
    BY <2>1, <2>2
<1>5. ASSUME NEW l \in Logins, StartFails(l) PROVE BrowserInv'
  <2>1. BrowserTypeOK' /\ ListenersHeldExactly'
    BY <1>5
       DEF StartFails, Ends, Finishes, Close, MayFallBack, waitVars, BrowserTypeOK,
           ListenersHeldExactly
  <2>2. ShownInv' /\ ServedInv'
    BY <1>5
       DEF StartFails, Ends, Finishes, Close, MayFallBack, waitVars, ShownInv,
           ServedInv, BrowserTypeOK
  <2>3. RedeemsOwnCode' /\ FirstCallbackCounts'
    BY <1>5
       DEF StartFails, Ends, Finishes, Close, MayFallBack, waitVars, RedeemsOwnCode,
           FirstCallbackCounts, BrowserTypeOK, ShownInv, ServedInv
  <2> QED
    BY <2>1, <2>2, <2>3
<1>6. ASSUME NEW l \in Logins, Show(l) PROVE BrowserInv'
  <2>1. BrowserTypeOK' /\ ListenersHeldExactly' /\ ShownInv'
    BY <1>6 DEF Show, portVars, waitVars, BrowserTypeOK, ListenersHeldExactly, ShownInv
  <2>2. ServedInv' /\ RedeemsOwnCode' /\ FirstCallbackCounts'
    BY <1>6
       DEF Show, portVars, waitVars, ServedInv, RedeemsOwnCode, FirstCallbackCounts,
           BrowserTypeOK
  <2> QED
    BY <2>1, <2>2
<1>7. ASSUME NEW l \in Logins, BeginWait(l) PROVE BrowserInv'
  <2>1. BrowserTypeOK' /\ ListenersHeldExactly' /\ ShownInv'
    BY <1>7
       DEF BeginWait, portVars, waitVars, BrowserTypeOK, ListenersHeldExactly, ShownInv
  <2>2. ServedInv' /\ RedeemsOwnCode' /\ FirstCallbackCounts'
    BY <1>7
       DEF BeginWait, portVars, waitVars, ServedInv, RedeemsOwnCode,
           FirstCallbackCounts, BrowserTypeOK
  <2> QED
    BY <2>1, <2>2
<1>8. ASSUME NEW l \in Logins, ReceiveOutcome(l) PROVE BrowserInv'
  <2>1. BrowserTypeOK' /\ ListenersHeldExactly'
    BY <1>8
       DEF ReceiveOutcome, Ends, Finishes, Close, MayFallBack, BrowserTypeOK,
           ListenersHeldExactly
  <2>2. ShownInv' /\ ServedInv'
    BY <1>8
       DEF ReceiveOutcome, Ends, Finishes, Close, MayFallBack, ShownInv, ServedInv,
           BrowserTypeOK
  <2>3. RedeemsOwnCode' /\ FirstCallbackCounts'
    BY <1>8
       DEF ReceiveOutcome, Ends, Finishes, Close, MayFallBack, RedeemsOwnCode,
           FirstCallbackCounts, BrowserTypeOK, ShownInv, ServedInv
  <2> QED
    BY <2>1, <2>2, <2>3
<1>9. ASSUME NEW l \in Logins, WaitIsOver(l) PROVE BrowserInv'
  <2>1. BrowserTypeOK' /\ ListenersHeldExactly'
    BY <1>9
       DEF WaitIsOver, Ends, Finishes, Close, MayFallBack, waitVars, BrowserTypeOK,
           ListenersHeldExactly
  <2>2. ShownInv' /\ ServedInv'
    BY <1>9
       DEF WaitIsOver, Ends, Finishes, Close, MayFallBack, waitVars, ShownInv,
           ServedInv, BrowserTypeOK
  <2>3. RedeemsOwnCode' /\ FirstCallbackCounts'
    BY <1>9
       DEF WaitIsOver, Ends, Finishes, Close, MayFallBack, waitVars, RedeemsOwnCode,
           FirstCallbackCounts, BrowserTypeOK, ShownInv, ServedInv
  <2> QED
    BY <2>1, <2>2, <2>3
<1>10. ASSUME NEW l \in Logins, Redeem(l) PROVE BrowserInv'
  <2>1. BrowserTypeOK' /\ ListenersHeldExactly'
    BY <1>10
       DEF Redeem, Ends, Finishes, Close, MayFallBack, waitVars, BrowserTypeOK,
           ListenersHeldExactly
  <2>2. ShownInv' /\ ServedInv'
    BY <1>10
       DEF Redeem, Ends, Finishes, Close, MayFallBack, waitVars, ShownInv, ServedInv,
           BrowserTypeOK
  <2>3. RedeemsOwnCode' /\ FirstCallbackCounts'
    BY <1>10
       DEF Redeem, Ends, Finishes, Close, MayFallBack, waitVars, RedeemsOwnCode,
           FirstCallbackCounts, BrowserTypeOK, ShownInv, ServedInv
  <2> QED
    BY <2>1, <2>2, <2>3
<1>11. ASSUME NEW l \in Logins, Device(l) PROVE BrowserInv'
  <2>1. BrowserTypeOK' /\ ListenersHeldExactly'
    BY <1>11
       DEF Device, Finishes, portVars, waitVars, BrowserTypeOK, ListenersHeldExactly
  <2>2. ShownInv' /\ ServedInv'
    BY <1>11
       DEF Device, Finishes, portVars, waitVars, ShownInv, ServedInv, BrowserTypeOK
  <2>3. RedeemsOwnCode' /\ FirstCallbackCounts'
    BY <1>11
       DEF Device, Finishes, portVars, waitVars, RedeemsOwnCode, FirstCallbackCounts,
           BrowserTypeOK, ShownInv, ServedInv
  <2> QED
    BY <2>1, <2>2, <2>3
<1>12. ASSUME NEW l \in Logins, NEW error \in {"canceled", "deadline"},
              LoginContextEnds(l, error)
       PROVE  BrowserInv'
  <2>1. BrowserTypeOK' /\ ListenersHeldExactly' /\ ShownInv'
    BY <1>12
       DEF LoginContextEnds, portVars, waitVars, BrowserTypeOK, ListenersHeldExactly,
           ShownInv
  <2>2. ServedInv' /\ RedeemsOwnCode' /\ FirstCallbackCounts'
    BY <1>12
       DEF LoginContextEnds, portVars, waitVars, ServedInv, RedeemsOwnCode,
           FirstCallbackCounts, BrowserTypeOK
  <2> QED
    BY <2>1, <2>2
<1>13. ASSUME NEW l \in Logins, NEW from \in Logins,
              NEW kind \in CallbackVerdicts \ {"mismatch"},
              Serve(l, from, kind)
       PROVE  BrowserInv'
  <2>1. BrowserTypeOK' /\ ListenersHeldExactly' /\ ShownInv'
    BY <1>13
       DEF Serve, Outcome, Parsed, Remembers, portVars, BrowserTypeOK,
           ListenersHeldExactly, ShownInv
  <2>2. ServedInv'
    <3> SUFFICES ASSUME NEW k \in Logins PROVE ServedInv!(k)'
      BY DEF ServedInv
    <3>1. CASE k # l
      BY <1>13, <3>1 DEF Serve, Remembers, ServedInv, BrowserTypeOK
    <3>2. CASE k = l
      <4>1. outcomes'[l] = {Outcome(l, from, kind)}
        BY <1>13 DEF Serve, BrowserTypeOK
      <4>2. stage[l] = "waiting" => first'[l] = Parsed(l, from, kind)
        BY <1>13 DEF Serve, Remembers, ServedInv, BrowserTypeOK
      <4>3. stage'[l] = stage[l] /\ stage[l] \in {"waiting", "redeeming"}
        BY <1>13 DEF Serve
      <4>4. \A o \in outcomes'[l] : o.verdict = Parsed(l, from, kind) /\ o.from = from
        BY <4>1 DEF Outcome
      <4> QED
        BY <3>2, <4>1, <4>2, <4>3, <4>4 DEF Parsed
    <3> QED
      BY <3>1, <3>2
  <2>3. RedeemsOwnCode' /\ FirstCallbackCounts'
    BY <1>13
       DEF Serve, Remembers, BrowserTypeOK, RedeemsOwnCode, FirstCallbackCounts
  <2> QED
    BY <2>1, <2>2, <2>3
<1>14. CASE UNCHANGED browserVars
  BY <1>14 DEF browserVars, BrowserTypeOK, ListenersHeldExactly, ShownInv, ServedInv,
         RedeemsOwnCode, FirstCallbackCounts
<1> HIDE DEF BrowserInv, GoTo, Flows, CallbackVerdicts, Results, Listening
<1>15. ASSUME NEW from \in Logins, NEW kind \in CallbackVerdicts \ {"mismatch"},
              Callback(from, kind)
       PROVE  \E l \in Logins : Serve(l, from, kind)
  BY <1>15 DEF Callback, BrowserInv, BrowserTypeOK
<1> QED
  BY <1>1, <1>2, <1>3, <1>4, <1>5, <1>6, <1>7, <1>8, <1>9, <1>10, <1>11, <1>12,
     <1>13, <1>14, <1>15
     DEF BrowserNext, Step

LEMMA BrowserInvHolds == BrowserSpec => []BrowserInv
<1>1. BrowserInit => BrowserInv
  BY NobodyAssumption
     DEF BrowserInit, BrowserInv, BrowserTypeOK, ListenersHeldExactly, ShownInv,
         ServedInv, RedeemsOwnCode, FirstCallbackCounts, Flows, CallbackVerdicts,
         Results, Listening
<1> QED
  BY <1>1, BrowserInvInductive, PTL DEF BrowserSpec

\* The state of the browser logins keeps its types, and a login has a result exactly
\* when it has returned (pkce.go:134-230, oidc.go:151-218).
THEOREM BrowserTypeCorrect == BrowserSpec => []BrowserTypeOK
<1>1. BrowserInv => BrowserTypeOK
  BY DEF BrowserInv
<1> QED
  BY <1>1, BrowserInvHolds, PTL

\* However many logins share the ports, and whenever a browser calls back, a login
\* redeems no code but its own (pkce.go:354-356).
THEOREM RedeemsOwnCodeHolds == BrowserSpec => []RedeemsOwnCode
<1>1. BrowserInv => RedeemsOwnCode
  BY DEF BrowserInv
<1> QED
  BY <1>1, BrowserInvHolds, PTL

\* No path out of a login leaks its listener, and no login listens on a port that is
\* not its own (pkce.go:187-199, 223, 289).
THEOREM ListenersHeldExactlyHolds == BrowserSpec => []ListenersHeldExactly
<1>1. BrowserInv => ListenersHeldExactly
  BY DEF BrowserInv
<1> QED
  BY <1>1, BrowserInvHolds, PTL

\* A user who was shown a browser session is not sent through the device flow as well
\* (cli.go:192-193, 240-242).
THEOREM FallsBackBeforeSessionHolds == BrowserSpec => []FallsBackBeforeSession
<1>1. BrowserInv => FallsBackBeforeSession
  BY DEF BrowserInv, ShownInv, FallsBackBeforeSession
<1> QED
  BY <1>1, BrowserInvHolds, PTL

\* The first callback that a login serves decides its outcome (pkce.go:247-250).
THEOREM FirstCallbackCountsHolds == BrowserSpec => []FirstCallbackCounts
<1>1. BrowserInv => FirstCallbackCounts
  BY DEF BrowserInv
<1> QED
  BY <1>1, BrowserInvHolds, PTL
==============================================================================

---------------------------- MODULE BrowserLogin ----------------------------
(***************************************************************************)
(* The browser logins of pkce.go and oidc.go, in the processes that run    *)
(* them: each binds a loopback port, shows an authorize URL, serves the    *)
(* callback the browser is redirected to, and redeems its code.  With      *)
(* RedirectPorts several logins, one after the other or at the same time,  *)
(* compete for the same ports, and a browser may reload or redirect late:  *)
(* a callback reaches whatever login listens on the port by then.  The     *)
(* auto flow of internal/cli turns to the device flow instead if no port   *)
(* can be bound.                                                           *)
(*                                                                         *)
(* The state, verifier and code of a login carry its name.                 *)
(***************************************************************************)
EXTENDS Integers

CONSTANTS
    Logins,  \* logins, each in a process of its own
    Ports,   \* RedirectPorts
    Nobody   \* no login

ASSUME NobodyAssumption == Nobody \notin Logins

VARIABLES
    flow,      \* how each login is made
    stage,     \* where it is
    port,      \* the ports of its RedirectURI: none or one
    holder,    \* the login whose listener is bound to each port
    opened,    \* the logins whose authorize URL has been shown
    outcomes,  \* the channel of Wait: at most one parsed callback
    codeOf,    \* the login whose code is redeemed
    ctxErrs,   \* ctx.Err() of each login
    result,    \* what each login returned
    first      \* history: what the first callback that was served said

browserVars == <<flow, stage, port, holder, opened, outcomes, codeOf, ctxErrs,
                 result, first>>

portVars == <<port, holder>>
waitVars == <<outcomes, codeOf, first>>

Flows == {"pkce", "browser", "auto"}
CallbackVerdicts == {"code", "denied", "mismatch", "callbackError"}
Results == {"credential", "denied", "mismatch", "callbackError", "timeout",
            "canceled", "loopbackUnavailable", "error"}
Listening == {"register", "session", "waiting", "redeeming"}

BrowserTypeOK ==
    /\ flow \in [Logins -> Flows]
    /\ stage \in [Logins -> Listening \cup {"idle", "bind", "device", "done"}]
    /\ port \in [Logins -> SUBSET Ports]
    /\ holder \in [Ports -> Logins \cup {Nobody}]
    /\ opened \in SUBSET Logins
    /\ outcomes \in [Logins -> SUBSET [verdict : CallbackVerdicts, from : Logins]]
    /\ codeOf \in [Logins -> Logins \cup {Nobody}]
    /\ ctxErrs \in [Logins -> {"none", "canceled", "deadline"}]
    /\ result \in [Logins -> Results \cup {"none"}]
    /\ first \in [Logins -> CallbackVerdicts \cup {"none"}]
    /\ \A l \in Logins : result[l] # "none" <=> stage[l] = "done"

BrowserInit ==
    /\ flow \in [Logins -> Flows]
    /\ stage = [l \in Logins |-> "idle"]
    /\ port = [l \in Logins |-> {}]
    /\ holder = [p \in Ports |-> Nobody]
    /\ opened = {}
    /\ outcomes = [l \in Logins |-> {}]
    /\ codeOf = [l \in Logins |-> Nobody]
    /\ ctxErrs = [l \in Logins |-> "none"]
    /\ result = [l \in Logins |-> "none"]
    /\ first = [l \in Logins |-> "none"]

---------------------------------------------------------------------------
GoTo(l, location) == stage' = [stage EXCEPT ![l] = location]

Finishes(l, r) ==
    /\ GoTo(l, "done")
    /\ result' = [result EXCEPT ![l] = r]

\* Mutant: the listener of a login is left open.
LeaveOpen(l) == holder' = holder

\* session.Close and server.Shutdown, on every path out of a login.
Close(l) ==
    holder' = [p \in Ports |-> IF holder[p] = l THEN Nobody ELSE holder[p]]

\* Mutant: the auto flow turns to the device flow after any error.
MayFallBackAlways(l, r) == flow[l] = "auto" /\ r # "credential"

\* flow == "auto" && errors.Is(err, ErrLoopbackUnavailable)
MayFallBack(l, r) == flow[l] = "auto" /\ r = "loopbackUnavailable"

\* AuthenticatePKCE or AuthenticateOIDC returns to loginFlow.
Ends(l, r) ==
    /\ Close(l)
    /\ IF MayFallBack(l, r)
       THEN GoTo(l, "device") /\ UNCHANGED result
       ELSE Finishes(l, r)

\* The contract of the proxy, or the provider's configuration, is discovered.
Discover(l) ==
    /\ stage[l] = "idle"
    /\ GoTo(l, "bind")
    /\ UNCHANGED <<flow, portVars, opened, waitVars, ctxErrs, result>>

\* listenLoopback.  Other programs use ports too, so any port that no login
\* holds may be the first free one, and there may be none.
Bind(l, p) ==
    /\ stage[l] = "bind"
    /\ holder[p] = Nobody
    /\ holder' = [holder EXCEPT ![p] = l]
    /\ port' = [port EXCEPT ![l] = {p}]
    /\ GoTo(l, IF flow[l] = "pkce" THEN "register" ELSE "session")
    /\ UNCHANGED <<flow, opened, waitVars, ctxErrs, result>>

BindFails(l) ==
    /\ stage[l] = "bind"
    /\ Ends(l, "loopbackUnavailable")
    /\ UNCHANGED <<flow, port, opened, waitVars, ctxErrs>>

\* registerPKCEClient, with the redirect URI.
Register(l) ==
    /\ stage[l] = "register"
    /\ GoTo(l, "session")
    /\ UNCHANGED <<flow, portVars, opened, waitVars, ctxErrs, result>>

\* Discovery or registration fails, for whatever reason, or OnSession does.
StartFails(l) ==
    /\ stage[l] \in {"idle", "register", "session"}
    /\ Ends(l, "error")
    /\ UNCHANGED <<flow, port, opened, waitVars, ctxErrs>>

\* OnSession shows the URL; from then on the browser may call back.
Show(l) ==
    /\ stage[l] = "session"
    /\ l \notin opened
    /\ opened' = opened \cup {l}
    /\ UNCHANGED <<flow, stage, portVars, waitVars, ctxErrs, result>>

\* OnSession returns, Wait serves the listener.
BeginWait(l) ==
    /\ stage[l] = "session"
    /\ l \in opened
    /\ GoTo(l, "waiting")
    /\ UNCHANGED <<flow, portVars, opened, waitVars, ctxErrs, result>>

---------------------------------------------------------------------------
\* Mutant: the state of the callback is not compared with the session's.
ParsedAnyState(l, from, kind) == kind

\* parseCallback, of a callback for the authorize URL of login from.
Parsed(l, from, kind) == IF from = l THEN kind ELSE "mismatch"

Outcome(l, from, kind) == [verdict |-> Parsed(l, from, kind), from |-> from]

Remembers(l, verdict) ==
    first' = [first EXCEPT ![l] = IF @ = "none" THEN verdict ELSE @]

\* Mutant: the channel keeps the latest callback.
ServeLatest(l, from, kind) ==
    /\ stage[l] \in {"waiting", "redeeming"}
    /\ outcomes' = [outcomes EXCEPT ![l] = {Outcome(l, from, kind)}]
    /\ Remembers(l, Parsed(l, from, kind))
    /\ UNCHANGED <<flow, stage, portVars, opened, codeOf, ctxErrs, result>>

\* The handler of /callback: a callback that finds the channel full is dropped.
Serve(l, from, kind) ==
    /\ stage[l] \in {"waiting", "redeeming"}
    /\ outcomes[l] = {}
    /\ outcomes' = [outcomes EXCEPT ![l] = {Outcome(l, from, kind)}]
    /\ Remembers(l, Parsed(l, from, kind))
    /\ UNCHANGED <<flow, stage, portVars, opened, codeOf, ctxErrs, result>>

\* External: the browser that was shown from's URL is redirected, once or
\* often, soon or late, to the port in it, and is served if anyone listens.
Callback(from, kind) ==
    /\ from \in opened
    /\ \E p \in port[from] : holder[p] # Nobody /\ Serve(holder[p], from, kind)

\* The select of Wait: a callback has come.
ReceiveOutcome(l) ==
    /\ stage[l] = "waiting"
    /\ \E received \in outcomes[l] :
          /\ outcomes' = [outcomes EXCEPT ![l] = {}]
          /\ \/ /\ received.verdict = "code"
                /\ codeOf' = [codeOf EXCEPT ![l] = received.from]
                /\ GoTo(l, "redeeming")
                /\ UNCHANGED <<holder, result>>
             \/ /\ received.verdict # "code"
                /\ Ends(l, received.verdict)
                /\ UNCHANGED codeOf
    /\ UNCHANGED <<flow, port, opened, first, ctxErrs>>

\* Mutant: the wait has no case <-ctx.Done().
WaitForever(l) == FALSE

\* The select of Wait: the context, of at most MaxWait, is done.
WaitIsOver(l) ==
    /\ stage[l] = "waiting"
    /\ ctxErrs[l] # "none"
    /\ Ends(l, IF ctxErrs[l] = "deadline" THEN "timeout" ELSE "canceled")
    /\ UNCHANGED <<flow, port, opened, waitVars, ctxErrs>>

\* redeemPKCECode or redeemOIDCCode.  The endpoint honours a code only with the
\* verifier of the login it was issued to.
Redeem(l) ==
    /\ stage[l] = "redeeming"
    /\ \/ codeOf[l] = l /\ Ends(l, "credential")
       \/ Ends(l, "error")
    /\ UNCHANGED <<flow, port, opened, waitVars, ctxErrs>>

\* AuthenticateOIDCDevice, as one step.
Device(l) ==
    /\ stage[l] = "device"
    /\ \E r \in {"credential", "error", "timeout", "canceled"} : Finishes(l, r)
    /\ UNCHANGED <<flow, portVars, opened, waitVars, ctxErrs>>

\* The environment: the login is interrupted, or its time is up.  Where Wait does
\* not read the context, its end is a reason for a request to fail.
LoginContextEnds(l, error) ==
    /\ stage[l] \in {"session", "waiting"}
    /\ ctxErrs[l] = "none"
    /\ ctxErrs' = [ctxErrs EXCEPT ![l] = error]
    /\ UNCHANGED <<flow, stage, portVars, opened, waitVars, result>>

Step(l) ==
    \/ Discover(l) \/ BindFails(l) \/ Register(l) \/ StartFails(l) \/ Show(l)
    \/ BeginWait(l) \/ ReceiveOutcome(l) \/ WaitIsOver(l) \/ Redeem(l)
    \/ Device(l) \/ \E p \in Ports : Bind(l, p)

BrowserNext ==
    \/ \E l \in Logins :
          \/ Step(l)
          \/ \E error \in {"canceled", "deadline"} : LoginContextEnds(l, error)
    \/ \E l \in Logins, kind \in CallbackVerdicts \ {"mismatch"} : Callback(l, kind)

BrowserSpec == BrowserInit /\ [][BrowserNext]_browserVars

\* Requests have a timeout, OnSession returns and the device flow ends; a Wait
\* has a deadline, MaxWait, and its timer fires.
FairBrowserSpec ==
    /\ BrowserSpec
    /\ \A l \in Logins : /\ WF_browserVars(Step(l))
                          /\ WF_browserVars(LoginContextEnds(l, "deadline"))

---------------------------------------------------------------------------
\* A login redeems no code but its own, though the callback of another login
\* may reach its listener (pkce.go:354-356).
RedeemsOwnCode ==
    \A l \in Logins : stage[l] = "redeeming" => codeOf[l] = l

\* A port is bound exactly while the login whose redirect URI names it may
\* still be called back; no path out of a login leaks its listener, so that a
\* retry can bind it again (pkce.go:187-199, 223, 289).
ListenersHeldExactly ==
    \A p \in Ports, l \in Logins :
        holder[p] = l <=> p \in port[l] /\ stage[l] \in Listening

\* The auto flow turns to the device flow only before the user was shown a
\* browser session (cli.go:192-193, 240-242).
FallsBackBeforeSession ==
    \A l \in Logins : stage[l] = "device" => l \notin opened

\* The first callback that is served decides: a later one neither rescues a
\* login nor spoils it (pkce.go:247-250).
FirstCallbackCounts ==
    \A l \in Logins :
        /\ stage[l] = "redeeming" => first[l] = "code"
        /\ result[l] \in CallbackVerdicts => result[l] = first[l]
        /\ result[l] = "credential" /\ l \in opened => first[l] = "code"

\* Every login that begins ends, though the browser may never call back
\* (pkce.go:228, 260-278).
EveryLoginEnds == \A l \in Logins : stage[l] # "idle" ~> stage[l] = "done"
===========================================================================

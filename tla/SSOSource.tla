---------------------------- MODULE SSOSource ----------------------------
(***************************************************************************)
(* The SSO credential source of source_static.go: concurrent callers of    *)
(* Credential share one interactive login, its result is cached while it   *)
(* is fresh, and Invalidate drops both the cache and the right of a login  *)
(* already in flight to fill it.                                           *)
(*                                                                         *)
(* Every critical section of s.mu is straight-line code, so each is one    *)
(* action; what runs outside the mutex (the login, the wait) is not.  A    *)
(* call is led through the loop at most once, so a login, the channel that *)
(* announces its end and the credential it yields all carry the name of    *)
(* the call that leads it.                                                 *)
(***************************************************************************)
EXTENDS Integers

CONSTANTS
    Calls,            \* the calls of Credential, each made by some goroutine
    NoCall,           \* Go's nil, where a call is expected
    MaxInvalidations  \* bound on the calls of Invalidate

ASSUME NoCallAssumption == NoCall \notin Calls
ASSUME MaxInvalidationsAssumption == MaxInvalidations \in Nat

VARIABLES
    cached,      \* s.cached: the login whose credential it is, or NoCall
    inFlight,    \* s.inFlight: the channel of the login in flight, or NoCall
    generation,  \* s.generation
    closed,      \* the channels that have been closed
    pc,          \* where each call is
    waitsOn,     \* the channel a waiting call took from s.inFlight
    startGen,    \* the local variable generation of a call that leads
    outcome,     \* the local err of a call that leads, as "ok" or "error"
    result,      \* what a call returned: a login's credential or NoCall
    ctxDone,     \* the calls whose context is done
    stale,       \* the logins whose credential is no longer Fresh
    beganAt      \* history: the generation when the call began

vars == <<cached, inFlight, generation, closed, pc, waitsOn, startGen,
          outcome, result, ctxDone, stale, beganAt>>

\* The fields of the source, and the local state of the calls.
sourceVars == <<cached, inFlight, generation, closed>>
loginVars  == <<startGen, outcome, stale>>

Locations == {"idle", "loop", "waiting", "login", "publish", "returned",
              "panicked"}

TypeOK ==
    /\ cached \in Calls \cup {NoCall}
    /\ inFlight \in Calls \cup {NoCall}
    /\ generation \in Nat
    /\ closed \in SUBSET Calls
    /\ pc \in [Calls -> Locations]
    /\ waitsOn \in [Calls -> Calls \cup {NoCall}]
    /\ startGen \in [Calls -> Nat]
    /\ outcome \in [Calls -> {"none", "ok", "error"}]
    /\ result \in [Calls -> Calls \cup {NoCall}]
    /\ ctxDone \in SUBSET Calls
    /\ stale \in SUBSET Calls
    /\ beganAt \in [Calls -> Nat]

Init ==
    /\ cached = NoCall
    /\ inFlight = NoCall
    /\ generation = 0
    /\ closed = {}
    /\ pc = [c \in Calls |-> "idle"]
    /\ waitsOn = [c \in Calls |-> NoCall]
    /\ startGen = [c \in Calls |-> 0]
    /\ outcome = [c \in Calls |-> "none"]
    /\ result = [c \in Calls |-> NoCall]
    /\ ctxDone = {}
    /\ stale = {}
    /\ beganAt = [c \in Calls |-> 0]

---------------------------------------------------------------------------
\* s.cached != nil && s.cached.Fresh(s.now())
CachedIsFresh == cached # NoCall /\ cached \notin stale

\* Mutant: a caller does not look for a login already in flight.
IgnoreInFlight == TRUE

\* A caller that finds no fresh credential leads when s.inFlight == nil.
MayLead == inFlight = NoCall

\* Mutant: the generation is not compared before the cache is filled.
MayCacheAnyGeneration(c) == outcome[c] = "ok"

\* Mutant: only invalidated logins fill the cache.
MayCacheNothing(c) == FALSE

\* err == nil && generation == s.generation
MayCache(c) == outcome[c] = "ok" /\ startGen[c] = generation

\* Mutant: the leader clears s.inFlight without closing the channel.
ClosedWithoutClose(c) == closed

\* close(inFlight)
ClosedAfter(c) == closed \cup {c}

Return(c, credential) ==
    /\ pc' = [pc EXCEPT ![c] = "returned"]
    /\ result' = [result EXCEPT ![c] = credential]

---------------------------------------------------------------------------
\* Credential is called; a context that is already done ends it at once.
Begin(c) ==
    /\ pc[c] = "idle"
    /\ beganAt' = [beganAt EXCEPT ![c] = generation]
    /\ \/ /\ c \in ctxDone
          /\ Return(c, NoCall)
       \/ /\ c \notin ctxDone
          /\ pc' = [pc EXCEPT ![c] = "loop"]
          /\ UNCHANGED result
    /\ UNCHANGED <<sourceVars, loginVars, waitsOn, ctxDone>>

\* First critical section: the cached credential is fresh.
ReturnCached(c) ==
    /\ pc[c] = "loop"
    /\ CachedIsFresh
    /\ Return(c, cached)
    /\ UNCHANGED <<sourceVars, loginVars, waitsOn, ctxDone, beganAt>>

\* First critical section: another login is in flight.
Join(c) ==
    /\ pc[c] = "loop"
    /\ ~CachedIsFresh
    /\ ~MayLead
    /\ pc' = [pc EXCEPT ![c] = "waiting"]
    /\ waitsOn' = [waitsOn EXCEPT ![c] = inFlight]
    /\ UNCHANGED <<sourceVars, loginVars, result, ctxDone, beganAt>>

\* First critical section: this call becomes the leader.
Lead(c) ==
    /\ pc[c] = "loop"
    /\ ~CachedIsFresh
    /\ MayLead
    /\ pc' = [pc EXCEPT ![c] = "login"]
    /\ inFlight' = c
    /\ startGen' = [startGen EXCEPT ![c] = generation]
    /\ UNCHANGED <<cached, generation, closed, outcome, stale, waitsOn,
                   result, ctxDone, beganAt>>

\* Authenticate returns; "ok" is a credential that is valid and fresh, any
\* other credential and every failure is an error.
LoginReturns(c) ==
    /\ pc[c] = "login"
    /\ \E o \in {"ok", "error"} : outcome' = [outcome EXCEPT ![c] = o]
    /\ pc' = [pc EXCEPT ![c] = "publish"]
    /\ UNCHANGED <<sourceVars, startGen, stale, waitsOn, result, ctxDone,
                   beganAt>>

\* A callback of AuthenticateOptions (the browser, the team selector, the
\* observer) panics.  Nothing is deferred: s.inFlight stays set.
LoginPanics(c) ==
    /\ pc[c] = "login"
    /\ pc' = [pc EXCEPT ![c] = "panicked"]
    /\ UNCHANGED <<sourceVars, loginVars, waitsOn, result, ctxDone, beganAt>>

\* Second critical section, and the return of the leader.
Publish(c) ==
    /\ pc[c] = "publish"
    /\ cached' = IF MayCache(c) THEN c ELSE cached
    /\ closed' = ClosedAfter(c)
    /\ inFlight' = NoCall
    /\ Return(c, IF outcome[c] = "ok" THEN c ELSE NoCall)
    /\ UNCHANGED <<generation, loginVars, waitsOn, ctxDone, beganAt>>

\* The select of a waiter: its channel is closed, or its context is done.
WakeUp(c) ==
    /\ pc[c] = "waiting"
    /\ waitsOn[c] \in closed
    /\ pc' = [pc EXCEPT ![c] = "loop"]
    /\ waitsOn' = [waitsOn EXCEPT ![c] = NoCall]
    /\ UNCHANGED <<sourceVars, loginVars, result, ctxDone, beganAt>>

\* Mutant: the wait has no case <-ctx.Done().
GiveUpNever(c) == FALSE

GiveUp(c) ==
    /\ pc[c] = "waiting"
    /\ c \in ctxDone
    /\ Return(c, NoCall)
    /\ waitsOn' = [waitsOn EXCEPT ![c] = NoCall]
    /\ UNCHANGED <<sourceVars, loginVars, ctxDone, beganAt>>

Invalidate ==
    /\ generation < MaxInvalidations
    /\ cached' = NoCall
    /\ generation' = generation + 1
    /\ UNCHANGED <<inFlight, closed, loginVars, pc, waitsOn, result, ctxDone,
                   beganAt>>

\* The environment: a caller's context ends, a credential stops being Fresh.
\* A context that ends during the login is a reason for LoginReturns to report
\* an error, so Cancel is where Credential itself reads the context.
Cancel(c) ==
    /\ c \notin ctxDone
    /\ pc[c] \in {"idle", "loop", "waiting"}
    /\ ctxDone' = ctxDone \cup {c}
    /\ UNCHANGED <<sourceVars, loginVars, pc, waitsOn, result, beganAt>>

Expire(c) ==
    /\ outcome[c] = "ok"
    /\ c \notin stale
    /\ stale' = stale \cup {c}
    /\ UNCHANGED <<sourceVars, startGen, outcome, pc, waitsOn, result,
                   ctxDone, beganAt>>

\* What a call does once it has begun.
Step(c) ==
    \/ ReturnCached(c) \/ Join(c) \/ Lead(c)
    \/ LoginReturns(c) \/ LoginPanics(c) \/ Publish(c)
    \/ WakeUp(c) \/ GiveUp(c)

Next ==
    \/ \E c \in Calls : Begin(c) \/ Step(c) \/ Cancel(c) \/ Expire(c)
    \/ Invalidate

Spec == Init /\ [][Next]_vars

\* The Go scheduler runs every runnable goroutine, sync.Mutex does not starve
\* one, and Authenticate is bounded by the session's expiry and MaxWait.  No
\* caller has to call, no context has to end, nothing has to be invalidated.
FairSpec == Spec /\ \A c \in Calls : WF_vars(Step(c))

---------------------------------------------------------------------------
InLogin == {"login", "publish"}

\* At most one call is between setting s.inFlight and clearing it
\* (source_static.go:92-115): callers that need a credential at the same time
\* never send the user through two logins at once.
SingleFlight ==
    \A a, b \in Calls : pc[a] \in InLogin /\ pc[b] \in InLogin => a = b

\* A call begun after Invalidate returned is never answered with a login that
\* had started before it, neither from the cache, nor as the waiter of the
\* login that was in flight (source_static.go:110, 129-134).
NoLoginFromBeforeInvalidate ==
    \A c \in Calls :
        result[c] # NoCall => startGen[result[c]] >= beganAt[c]

\* A waiter's channel is closed or will be: if it is not, it is the one in
\* s.inFlight, and the call that leads it has not passed its close
\* (source_static.go:82-89, 114-115).
NoLostWakeup ==
    \A c \in Calls :
        pc[c] = "waiting" /\ waitsOn[c] \notin closed =>
            /\ inFlight = waitsOn[c]
            /\ pc[waitsOn[c]] \in InLogin \cup {"panicked"}

\* A login that has been published with success.
Published(c) == outcome[c] = "ok" /\ pc[c] = "returned"

\* The user is not asked to log in again while an earlier login of the same
\* generation still has a fresh credential (source_static.go:76-80, 110-113).
OneFreshLoginPerGeneration ==
    \A a, b \in Calls :
        /\ Published(a) /\ a \notin stale
        /\ Published(b) /\ b \notin stale
        /\ startGen[a] = startGen[b]
        => a = b

\* Every call that begins returns, whatever the others do, unless the callback
\* of some login panics (source_static.go:74-122).
EveryCallReturns ==
    \/ <>(\E c \in Calls : pc[c] = "panicked")
    \/ \A c \in Calls : pc[c] # "idle" ~> pc[c] = "returned"

\* A caller whose context ends is released, even if the login it waits for was
\* abandoned by a panic (source_static.go:86-87).
CancelledCallReturns ==
    \A c \in Calls :
        c \in ctxDone /\ pc[c] # "idle" ~> pc[c] \in {"returned", "panicked"}
==========================================================================

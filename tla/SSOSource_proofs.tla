------------------------- MODULE SSOSource_proofs -------------------------
(***************************************************************************)
(* SSOSource's safety for every set of calls and any number of             *)
(* invalidations.  The invariant Inv is inductive relative to TypeOK; its  *)
(* conjuncts say what the fields of the source and the calls know of each  *)
(* other, and the properties the runs check follow from them.              *)
(***************************************************************************)
EXTENDS SSOSource, TLAPS

\* s.inFlight names the one call between setting it and clearing it, and a
\* panic leaves it set for good.
LeaderInv ==
    \A c \in Calls : pc[c] \in InLogin \cup {"panicked"} <=> inFlight = c

\* Only a leader that is done has an outcome, only a call that has returned a
\* result, and the credential a call returns is that of a login that returned.
ProgressInv ==
    \A c \in Calls :
        /\ outcome[c] = "ok" => pc[c] \in {"publish", "returned"}
        /\ result[c] # NoCall =>
              /\ pc[c] = "returned"
              /\ pc[result[c]] = "returned"

\* No generation is from the future, and a leader's is no older than its call.
GenerationInv ==
    \A c \in Calls :
        /\ startGen[c] <= generation
        /\ beganAt[c] <= generation
        /\ pc[c] \in InLogin => startGen[c] >= beganAt[c]

\* The cache holds a successful login begun after the last Invalidate.
CacheInv ==
    cached # NoCall => Published(cached) /\ startGen[cached] = generation

\* A waiter's channel is closed, or the one every new caller would wait for.
WaiterInv ==
    \A c \in Calls :
        pc[c] = "waiting" =>
            /\ waitsOn[c] # NoCall
            /\ waitsOn[c] \in closed \/ inFlight = waitsOn[c]

\* A fresh login of this generation is cached, so no leader shares a generation
\* with a fresh login.
FreshInv ==
    \A a \in Calls :
        Published(a) /\ a \notin stale =>
            /\ startGen[a] = generation => cached = a
            /\ \A c \in Calls : pc[c] \in InLogin => startGen[c] # startGen[a]

Inv ==
    /\ LeaderInv
    /\ ProgressInv
    /\ GenerationInv
    /\ NoLoginFromBeforeInvalidate
    /\ CacheInv
    /\ WaiterInv
    /\ FreshInv
    /\ OneFreshLoginPerGeneration

---------------------------------------------------------------------------
\* The types of source_static.go's SSOSource and of the local variables of its
\* calls, for every set of calls.
THEOREM TypeCorrect == Spec => []TypeOK
<1>1. Init => TypeOK
  BY NoCallAssumption DEF Init, TypeOK, Locations
<1>2. TypeOK /\ [Next]_vars => TypeOK'
  <2> SUFFICES ASSUME TypeOK, [Next]_vars PROVE TypeOK'
    OBVIOUS
  <2> USE DEF TypeOK, Locations
  <2>1. ASSUME NEW c \in Calls, Begin(c) PROVE TypeOK'
    BY <2>1 DEF Begin, Return, sourceVars, loginVars
  <2>2. ASSUME NEW c \in Calls, ReturnCached(c) PROVE TypeOK'
    BY <2>2 DEF ReturnCached, CachedIsFresh, Return, sourceVars, loginVars
  <2>3. ASSUME NEW c \in Calls, Join(c) PROVE TypeOK'
    BY <2>3 DEF Join, sourceVars, loginVars
  <2>4. ASSUME NEW c \in Calls, Lead(c) PROVE TypeOK'
    BY <2>4 DEF Lead
  <2>5. ASSUME NEW c \in Calls, LoginReturns(c) PROVE TypeOK'
    BY <2>5 DEF LoginReturns, sourceVars
  <2>6. ASSUME NEW c \in Calls, LoginPanics(c) PROVE TypeOK'
    BY <2>6 DEF LoginPanics, sourceVars, loginVars
  <2>7. ASSUME NEW c \in Calls, Publish(c) PROVE TypeOK'
    BY <2>7 DEF Publish, Return, ClosedAfter, loginVars
  <2>8. ASSUME NEW c \in Calls, WakeUp(c) PROVE TypeOK'
    BY <2>8 DEF WakeUp, sourceVars, loginVars
  <2>9. ASSUME NEW c \in Calls, GiveUp(c) PROVE TypeOK'
    BY <2>9 DEF GiveUp, Return, sourceVars, loginVars
  <2>10. CASE Invalidate
    BY <2>10 DEF Invalidate, loginVars
  <2>11. ASSUME NEW c \in Calls, Cancel(c) PROVE TypeOK'
    BY <2>11 DEF Cancel, sourceVars, loginVars
  <2>12. ASSUME NEW c \in Calls, Expire(c) PROVE TypeOK'
    BY <2>12 DEF Expire, sourceVars
  <2>13. CASE UNCHANGED vars
    BY <2>13 DEF vars
  <2>14. QED
    BY <2>1, <2>2, <2>3, <2>4, <2>5, <2>6, <2>7, <2>8, <2>9, <2>10, <2>11,
       <2>12, <2>13 DEF Next, Step
<1>3. QED
  BY <1>1, <1>2, PTL DEF Spec

---------------------------------------------------------------------------
\* The steps of Inv's induction: one per action, and for the actions that move
\* the fields of the source one per conjunct they can disturb.
LEMMA InvInductive == TypeOK /\ Inv /\ [Next]_vars => Inv'
<1> SUFFICES ASSUME TypeOK, Inv, [Next]_vars PROVE Inv'
  OBVIOUS
<1> USE NoCallAssumption DEF TypeOK, Locations, InLogin, Published, sourceVars,
                             loginVars
<1>1. ASSUME NEW c \in Calls, Begin(c) PROVE Inv'
  <2>1. LeaderInv' /\ ProgressInv' /\ GenerationInv'
    BY <1>1 DEF Begin, Return, Inv, LeaderInv, ProgressInv, GenerationInv
  <2>2. NoLoginFromBeforeInvalidate'
    BY <1>1 DEF Begin, Return, Inv, ProgressInv, NoLoginFromBeforeInvalidate
  <2>3. CacheInv' /\ WaiterInv'
    BY <1>1 DEF Begin, Return, Inv, ProgressInv, CacheInv, WaiterInv
  <2>4. FreshInv' /\ OneFreshLoginPerGeneration'
    BY <1>1 DEF Begin, Return, Inv, ProgressInv, FreshInv,
       OneFreshLoginPerGeneration
  <2>5. QED
    BY <2>1, <2>2, <2>3, <2>4 DEF Inv
<1>2. ASSUME NEW c \in Calls, ReturnCached(c) PROVE Inv'
  <2>1. LeaderInv' /\ ProgressInv' /\ GenerationInv'
    BY <1>2 DEF ReturnCached, CachedIsFresh, Return, Inv, LeaderInv,
       ProgressInv, GenerationInv, CacheInv
  <2>2. NoLoginFromBeforeInvalidate'
    BY <1>2 DEF ReturnCached, CachedIsFresh, Return, Inv, GenerationInv,
       CacheInv, NoLoginFromBeforeInvalidate
  <2>3. CacheInv' /\ WaiterInv'
    BY <1>2 DEF ReturnCached, CachedIsFresh, Return, Inv, CacheInv, WaiterInv
  <2>4. FreshInv' /\ OneFreshLoginPerGeneration'
    BY <1>2 DEF ReturnCached, CachedIsFresh, Return, Inv, ProgressInv,
       FreshInv, OneFreshLoginPerGeneration
  <2>5. QED
    BY <2>1, <2>2, <2>3, <2>4 DEF Inv
<1>3. ASSUME NEW c \in Calls, Join(c) PROVE Inv'
  BY <1>3 DEF Join, MayLead, Inv, LeaderInv, ProgressInv, GenerationInv,
       NoLoginFromBeforeInvalidate, CacheInv, WaiterInv, FreshInv,
       OneFreshLoginPerGeneration
<1>4. ASSUME NEW c \in Calls, Lead(c) PROVE Inv'
  <2>1. LeaderInv' /\ ProgressInv'
    BY <1>4 DEF Lead, MayLead, CachedIsFresh, Inv, LeaderInv, ProgressInv
  <2>2. GenerationInv'
    BY <1>4 DEF Lead, MayLead, CachedIsFresh, Inv, GenerationInv
  <2>3. NoLoginFromBeforeInvalidate'
    BY <1>4 DEF Lead, MayLead, CachedIsFresh, Inv, ProgressInv,
       NoLoginFromBeforeInvalidate
  <2>4. CacheInv' /\ WaiterInv'
    BY <1>4 DEF Lead, MayLead, CachedIsFresh, Inv, CacheInv, WaiterInv
  <2>5. FreshInv'
    BY <1>4 DEF Lead, MayLead, CachedIsFresh, Inv, ProgressInv, FreshInv,
       CacheInv
  <2>6. OneFreshLoginPerGeneration'
    BY <1>4 DEF Lead, MayLead, CachedIsFresh, Inv, OneFreshLoginPerGeneration
  <2>7. QED
    BY <2>1, <2>2, <2>3, <2>4, <2>5, <2>6 DEF Inv
<1>5. ASSUME NEW c \in Calls, LoginReturns(c) PROVE Inv'
  BY <1>5 DEF LoginReturns, Inv, LeaderInv, ProgressInv, GenerationInv,
       NoLoginFromBeforeInvalidate, CacheInv, WaiterInv, FreshInv,
       OneFreshLoginPerGeneration
<1>6. ASSUME NEW c \in Calls, LoginPanics(c) PROVE Inv'
  BY <1>6 DEF LoginPanics, Inv, LeaderInv, ProgressInv, GenerationInv,
       NoLoginFromBeforeInvalidate, CacheInv, WaiterInv, FreshInv,
       OneFreshLoginPerGeneration
<1>7. ASSUME NEW c \in Calls, Publish(c) PROVE Inv'
  <2>1. LeaderInv' /\ ProgressInv'
    BY <1>7 DEF Publish, Return, MayCache, ClosedAfter, Inv, LeaderInv,
       ProgressInv
  <2>2. GenerationInv' /\ NoLoginFromBeforeInvalidate'
    BY <1>7 DEF Publish, Return, MayCache, ClosedAfter, Inv, GenerationInv,
       NoLoginFromBeforeInvalidate
  <2>3. CacheInv'
    BY <1>7 DEF Publish, Return, MayCache, ClosedAfter, Inv, CacheInv
  <2>4. WaiterInv'
    BY <1>7 DEF Publish, Return, MayCache, ClosedAfter, Inv, LeaderInv,
       WaiterInv
  <2>5. FreshInv'
    BY <1>7 DEF Publish, Return, MayCache, ClosedAfter, Inv, LeaderInv,
       FreshInv
  <2>6. OneFreshLoginPerGeneration'
    BY <1>7 DEF Publish, Return, MayCache, ClosedAfter, Inv, FreshInv,
       OneFreshLoginPerGeneration
  <2>7. QED
    BY <2>1, <2>2, <2>3, <2>4, <2>5, <2>6 DEF Inv
<1>8. ASSUME NEW c \in Calls, WakeUp(c) PROVE Inv'
  BY <1>8 DEF WakeUp, Inv, LeaderInv, ProgressInv, GenerationInv,
       NoLoginFromBeforeInvalidate, CacheInv, WaiterInv, FreshInv,
       OneFreshLoginPerGeneration
<1>9. ASSUME NEW c \in Calls, GiveUp(c) PROVE Inv'
  BY <1>9 DEF GiveUp, Return, Inv, LeaderInv, ProgressInv, GenerationInv,
       NoLoginFromBeforeInvalidate, CacheInv, WaiterInv, FreshInv,
       OneFreshLoginPerGeneration
<1>10. CASE Invalidate
  <2>1. LeaderInv' /\ ProgressInv' /\ WaiterInv'
    BY <1>10 DEF Invalidate, Inv, LeaderInv, ProgressInv, WaiterInv
  <2>2. GenerationInv' /\ NoLoginFromBeforeInvalidate'
    BY <1>10 DEF Invalidate, Inv, GenerationInv, NoLoginFromBeforeInvalidate
  <2>3. CacheInv' /\ FreshInv'
    BY <1>10 DEF Invalidate, Inv, GenerationInv, CacheInv, FreshInv
  <2>4. OneFreshLoginPerGeneration'
    BY <1>10 DEF Invalidate, Inv, OneFreshLoginPerGeneration
  <2>5. QED
    BY <2>1, <2>2, <2>3, <2>4 DEF Inv
<1>11. ASSUME NEW c \in Calls, Cancel(c) PROVE Inv'
  BY <1>11 DEF Cancel, Inv, LeaderInv, ProgressInv, GenerationInv,
       NoLoginFromBeforeInvalidate, CacheInv, WaiterInv, FreshInv,
       OneFreshLoginPerGeneration
<1>12. ASSUME NEW c \in Calls, Expire(c) PROVE Inv'
  BY <1>12 DEF Expire, Inv, LeaderInv, ProgressInv, GenerationInv,
       NoLoginFromBeforeInvalidate, CacheInv, WaiterInv, FreshInv,
       OneFreshLoginPerGeneration
<1>13. CASE UNCHANGED vars
  BY <1>13 DEF vars, Inv, LeaderInv, ProgressInv, GenerationInv, CacheInv,
       NoLoginFromBeforeInvalidate, WaiterInv, FreshInv,
       OneFreshLoginPerGeneration
<1>14. QED
  BY <1>1, <1>2, <1>3, <1>4, <1>5, <1>6, <1>7, <1>8, <1>9, <1>10, <1>11,
     <1>12, <1>13 DEF Next, Step

\* Inv holds of every reachable state.
LEMMA InvHolds == Spec => []Inv
<1>1. Init => Inv
  BY NoCallAssumption
     DEF Init, Inv, LeaderInv, ProgressInv, GenerationInv, CacheInv, WaiterInv,
         FreshInv, NoLoginFromBeforeInvalidate, OneFreshLoginPerGeneration,
         InLogin, Published
<1>2. QED
  BY <1>1, InvInductive, TypeCorrect, PTL DEF Spec

\* At most one call is between setting s.inFlight and clearing it, for any
\* number of goroutines (source_static.go:92-115).
THEOREM SingleFlightHolds == Spec => []SingleFlight
<1>1. Inv => SingleFlight
  BY DEF Inv, LeaderInv, SingleFlight
<1>2. QED
  BY <1>1, InvHolds, PTL

\* No call begun after Invalidate is answered with a login from before it, for
\* any number of calls and invalidations (source_static.go:110, 129-134).
THEOREM NoLoginFromBeforeInvalidateHolds == Spec => []NoLoginFromBeforeInvalidate
<1>1. Inv => NoLoginFromBeforeInvalidate
  BY DEF Inv
<1>2. QED
  BY <1>1, InvHolds, PTL

\* A waiter's channel is closed, or its leader is still to close it or has
\* panicked (source_static.go:82-89, 114-115).
THEOREM NoLostWakeupHolds == Spec => []NoLostWakeup
<1>1. TypeOK /\ Inv => NoLostWakeup
  BY NoCallAssumption DEF TypeOK, Inv, LeaderInv, WaiterInv, NoLostWakeup
<1>2. QED
  BY <1>1, InvHolds, TypeCorrect, PTL

\* No second login while one of the same generation still has a fresh
\* credential (source_static.go:76-80, 110-113).
THEOREM OneFreshLoginHolds == Spec => []OneFreshLoginPerGeneration
<1>1. Inv => OneFreshLoginPerGeneration
  BY DEF Inv
<1>2. QED
  BY <1>1, InvHolds, PTL
==========================================================================

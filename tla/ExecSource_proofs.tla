-------------------------- MODULE ExecSource_proofs --------------------------
(***************************************************************************)
(* The safety properties of ExecSource for every timeout and amount of     *)
(* output.                                                                 *)
(***************************************************************************)
EXTENDS ExecSource, TLAPS

\* Once Run waits for the output the helper has ended; it has also ended once
\* os/exec has handled the end of runCtx, which it does only while Run waits.
ProcessInv ==
    /\ pc = "start" => watch = "watching"
    /\ pc = "draining" => helper \in {"ok", "failed"}
    /\ pc = "running" /\ watch # "watching" => helper # "running"

\* The helper has one timeout, and its output one more.
TimeInv ==
    /\ pc = "start" => now = 0
    /\ pc = "running" => now <= Timeout
    /\ pc = "draining" \/ (pc = "running" /\ watch # "watching") =>
          now <= drainBy /\ drainBy <= 2 * Timeout

Inv ==
    /\ TypeOK
    /\ WholeOutputOnly
    /\ ProcessInv
    /\ TimeInv

USE LimitsAssumption DEF LimitsAssumption

LEMMA InitInv == Init => Inv
  <1> SUFFICES ASSUME Init PROVE Inv
    OBVIOUS
  <1>1. TypeOK
    <2>1. ~heirs /\ heirs \in BOOLEAN
      BY DEF Init
    <2> QED
      BY <2>1 DEF Init, TypeOK, Outcomes
  <1>2. WholeOutputOnly /\ ProcessInv /\ TimeInv
    BY DEF Init, WholeOutputOnly, ProcessInv, TimeInv
  <1> QED
    BY <1>1, <1>2 DEF Inv

\* Every step of os/exec, of the helper and of the clock keeps the invariant.
LEMMA NextInv == Inv /\ [Next]_vars => Inv'
  <1> SUFFICES ASSUME Inv, [Next]_vars PROVE Inv'
    OBVIOUS
  <1> USE DEF Inv, TypeOK, Outcomes, WholeOutputOnly, ProcessInv, TimeInv, processes
  <1>1. CASE StartFails
    BY <1>1 DEF StartFails, Returns, Blamed
  <1>2. CASE Start
    BY <1>2 DEF Start
  <1>3. CASE TimesOut
    BY <1>3 DEF TimesOut, TimeoutDue
  <1>4. CASE Cancel
    <2>1. now <= Timeout /\ drainBy' = now + Timeout
      BY <1>4 DEF Cancel, WaitDelay
    <2>2. now' <= drainBy' /\ drainBy' <= 2 * Timeout
      BY <1>4, <2>1 DEF Cancel
    <2> QED
      BY <1>4, <2>1, <2>2 DEF Cancel
  <1>5. CASE Reap
    <2>1. drainBy' \in Nat /\ now' <= drainBy' /\ drainBy' <= 2 * Timeout
      BY <1>5 DEF Reap, WaitDelay
    <2> QED
      BY <1>5, <2>1 DEF Reap
  <1>6. CASE Drained
    <2>1. CASE Failed
      BY <1>6, <2>1 DEF Drained, Returns, Blamed, Failed
    <2>2. CASE ~Failed
      BY <1>6, <2>2 DEF Drained, Returns, Decoded, Failed
    <2> QED
      BY <2>1, <2>2
  <1>7. CASE DelayEnds
    BY <1>7 DEF DelayEnds, Returns, Blamed
  <1>8. ASSUME NEW n \in 1..MaxWritten, ReadFrom(n) PROVE Inv'
    BY <1>8 DEF ReadFrom
  <1>9. ASSUME NEW n \in 1..MaxWritten, Writes(n) PROVE Inv'
    BY <1>9 DEF Writes
  <1>10. CASE HelperForks
    BY <1>10 DEF HelperForks
  <1>11. CASE HeirsClose
    BY <1>11 DEF HeirsClose
  <1>12. ASSUME NEW status \in {"ok", "failed"}, HelperExits(status) PROVE Inv'
    BY <1>12 DEF HelperExits
  <1>13. ASSUME NEW error \in {"canceled", "deadline"}, CallerEnds(error) PROVE Inv'
    BY <1>13 DEF CallerEnds
  <1>14. CASE Tick
    BY <1>14 DEF Tick, Due, TimeoutDue
  <1>15. CASE UNCHANGED vars
    BY <1>15 DEF vars
  <1> QED
    BY <1>1, <1>2, <1>3, <1>4, <1>5, <1>6, <1>7, <1>8, <1>9, <1>10, <1>11, <1>12,
       <1>13, <1>14, <1>15 DEF Next, Step

LEMMA Invariance == Spec => []Inv
  BY InitInv, NextInv, PTL DEF Spec

---------------------------------------------------------------------------
\* Every variable keeps its type, and nothing is returned before Credential ends.
THEOREM TypeCorrect == Spec => []TypeOK
  <1>1. Inv => TypeOK
    BY DEF Inv
  <1> QED
    BY Invariance, <1>1, PTL

\* A credential comes from the whole output of a helper that succeeded
\* (source_exec.go:118-131).
THEOREM WholeOutputOnlyHolds == Spec => []WholeOutputOnly
  <1>1. Inv => WholeOutputOnly
    BY DEF Inv
  <1> QED
    BY Invariance, <1>1, PTL

\* Credential takes at most two timeouts, whatever holds the pipe
\* (source_exec.go:106, 112).
THEOREM EndsWithinTwoTimeoutsHolds == Spec => []EndsWithinTwoTimeouts
  <1>1. Inv => EndsWithinTwoTimeouts
    BY DEF Inv, TypeOK, TimeInv, EndsWithinTwoTimeouts
  <1> QED
    BY Invariance, <1>1, PTL
==============================================================================

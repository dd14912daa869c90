----------------------------- MODULE ExecSource -----------------------------
(***************************************************************************)
(* ExecSource.Credential: one run of an external credential helper.  The   *)
(* helper, and any process that inherits its standard output, write in     *)
(* pieces while a goroutine of os/exec copies them into a limitedBuffer.   *)
(* It copies with io.Copy, which calls ReadFrom where the target has one:  *)
(* limitedBuffer has that of the bytes.Buffer it embeds, so that its own   *)
(* Write, with the limit, is not called and overflow is never set.         *)
(* The helper is killed when its context ends, by its timeout or with the  *)
(* caller's; whoever still holds the pipe after that, or after the helper  *)
(* has exited, is given WaitDelay to let go of it.                         *)
(*                                                                         *)
(* Output is a number of bytes: the pipe keeps their order.  os/exec is    *)
(* modelled from what source_exec.go relies on.  The clock counts from the *)
(* start of the helper and does not pass a timer that is due: the bounds   *)
(* are those of the timers, scheduling takes no time.                      *)
(***************************************************************************)
EXTENDS Integers

CONSTANTS
    Limit,       \* s.maxOutputBytes
    Timeout,     \* s.timeout
    MaxWritten,  \* bound on the bytes written
    MaxTime      \* bound on the clock

ASSUME LimitsAssumption ==
    /\ Limit \in Nat \ {0} /\ Timeout \in Nat \ {0}
    /\ MaxWritten \in Nat /\ MaxTime \in Nat

VARIABLES
    pc,        \* command.Run: waiting for the helper, or for its output
    helper,    \* the helper: not started, running, exited with 0, or failed
    heirs,     \* other processes hold the helper's standard output
    written,   \* bytes written to the pipe
    buffered,  \* output.Len(): all the bytes taken from it
    runErr,    \* runCtx.Err()
    watch,     \* what os/exec knows of runCtx: unended, handled, or the cause
    drainBy,   \* when WaitDelay ends
    outcome,   \* what Credential returned
    now        \* the clock

vars == <<pc, helper, heirs, written, buffered, runErr, watch, drainBy, outcome,
          now>>

processes == <<helper, heirs, written>>

Outcomes == {"credential", "canceled", "deadline", "sourceOutput"}

TypeOK ==
    /\ pc \in {"start", "running", "draining", "done"}
    /\ helper \in {"none", "running", "ok", "failed"}
    /\ heirs \in BOOLEAN
    /\ written \in Nat /\ buffered \in Nat
    /\ runErr \in {"none", "canceled", "deadline"}
    /\ watch \in {"watching", "handled", "cause"}
    /\ drainBy \in Nat
    /\ outcome \in Outcomes \cup {"none"}
    /\ now \in Nat
    /\ buffered <= written
    /\ helper = "none" => pc \in {"start", "done"}
    /\ outcome # "none" <=> pc = "done"

Init ==
    /\ pc = "start"
    /\ helper = "none"
    /\ heirs = FALSE
    /\ written = 0 /\ buffered = 0
    /\ runErr = "none"
    /\ watch = "watching"
    /\ drainBy = 0
    /\ outcome = "none"
    /\ now = 0

---------------------------------------------------------------------------
\* command.WaitDelay
WaitDelay == Timeout

Returns(result) ==
    /\ pc' = "done"
    /\ outcome' = result

\* Run has failed: the context that ended is blamed before the helper.
Blamed == IF runErr # "none" THEN runErr ELSE "sourceOutput"

\* Run has returned nil and overflow is not set: output that is not one JSON object
\* with a valid credential is refused.
Decoded == Returns("credential") \/ Returns("sourceOutput")

\* Run's error but for that of the copying goroutine: the helper failed, or was
\* killed because runCtx had ended.
Failed == helper = "failed" \/ watch = "cause"

---------------------------------------------------------------------------
\* The checks of ctx before the helper is started, and a start that fails.
StartFails ==
    /\ pc = "start"
    /\ Returns(Blamed)
    /\ UNCHANGED <<processes, buffered, runErr, watch, drainBy, now>>

\* command.Start
Start ==
    /\ pc = "start"
    /\ runErr = "none"
    /\ pc' = "running"
    /\ helper' = "running"
    /\ UNCHANGED <<heirs, written, buffered, runErr, watch, drainBy, outcome, now>>

\* The goroutine that copies standard output: bytes.Buffer.ReadFrom reads n bytes of
\* what there is, and grows.
ReadFrom(n) ==
    /\ pc \in {"running", "draining"}
    /\ n <= written - buffered
    /\ buffered' = buffered + n
    /\ UNCHANGED <<pc, processes, runErr, watch, drainBy, outcome, now>>

\* os/exec sees that runCtx has ended while the helper is not waited for yet, and
\* kills it.  A helper that has exited may still take the signal.
Cancel ==
    /\ pc = "running"
    /\ watch = "watching" /\ runErr # "none"
    /\ drainBy' = now + WaitDelay
    /\ \/ helper = "running" /\ helper' = "failed" /\ watch' = "cause"
       \/ helper # "running" /\ watch' \in {"handled", "cause"} /\ UNCHANGED helper
    /\ UNCHANGED <<pc, heirs, written, buffered, runErr, outcome, now>>

\* Process.Wait returns.  From here on runCtx is not watched any more; unless it
\* has ended already WaitDelay starts now.
Reap ==
    /\ pc = "running"
    /\ helper # "running"
    /\ pc' = "draining"
    /\ IF watch = "watching"
       THEN watch' = "handled" /\ drainBy' = now + WaitDelay
       ELSE UNCHANGED <<watch, drainBy>>
    /\ UNCHANGED <<processes, buffered, runErr, outcome, now>>

\* The copying goroutine has reached the end of the output: nobody holds it.
Drained ==
    /\ pc = "draining"
    /\ ~heirs /\ buffered = written
    /\ IF Failed THEN Returns(Blamed) ELSE Decoded
    /\ UNCHANGED <<processes, buffered, runErr, watch, drainBy, now>>

\* Mutant: the end of WaitDelay is taken for the end of the output.
DelayAccepted ==
    /\ pc = "draining"
    /\ now >= drainBy
    /\ IF Failed THEN Returns(Blamed) ELSE Decoded
    /\ UNCHANGED <<processes, buffered, runErr, watch, drainBy, now>>

\* Mutant: WaitDelay is not set, and the output is waited for without end.
DelayNever == FALSE

\* WaitDelay ends with somebody holding the pipe, which is closed: ErrWaitDelay,
\* if nothing else had failed.
DelayEnds ==
    /\ pc = "draining"
    /\ now >= drainBy
    /\ Returns(IF Failed THEN Blamed ELSE "sourceOutput")
    /\ UNCHANGED <<processes, buffered, runErr, watch, drainBy, now>>

---------------------------------------------------------------------------
\* The environment: the helper and its heirs write, exit and close the pipe.
Writes(n) ==
    /\ helper = "running" \/ heirs
    /\ pc # "done"
    /\ written + n <= MaxWritten
    /\ written' = written + n
    /\ UNCHANGED <<pc, helper, heirs, buffered, runErr, watch, drainBy, outcome, now>>

HelperForks ==
    /\ pc = "running" /\ helper = "running"
    /\ heirs' = TRUE
    /\ UNCHANGED <<pc, helper, written, buffered, runErr, watch, drainBy, outcome, now>>

HelperExits(status) ==
    /\ pc = "running" /\ helper = "running"
    /\ helper' = status
    /\ UNCHANGED <<pc, heirs, written, buffered, runErr, watch, drainBy, outcome, now>>

HeirsClose ==
    /\ heirs /\ pc # "done"
    /\ heirs' = FALSE
    /\ UNCHANGED <<pc, helper, written, buffered, runErr, watch, drainBy, outcome, now>>

\* Mutant: the helper is given the caller's context, without the timeout.
TimeoutDueNever == FALSE

\* context.WithTimeout
TimeoutDue == runErr = "none" /\ now >= Timeout

TimesOut ==
    /\ pc \in {"running", "draining"}
    /\ TimeoutDue
    /\ runErr' = "deadline"
    /\ UNCHANGED <<pc, processes, buffered, watch, drainBy, outcome, now>>

\* The caller's context ends, and runCtx with it.
CallerEnds(error) ==
    /\ pc # "done"
    /\ runErr = "none"
    /\ runErr' = error
    /\ UNCHANGED <<pc, processes, buffered, watch, drainBy, outcome, now>>

\* Something of os/exec is due at this moment.
Due ==
    \/ TimeoutDue
    \/ pc = "running" /\ helper # "running"
    \/ pc = "running" /\ watch = "watching" /\ runErr # "none"
    \/ pc = "draining" /\ now >= drainBy

Tick ==
    /\ pc \in {"running", "draining"}
    /\ ~Due
    /\ now < MaxTime
    /\ now' = now + 1
    /\ UNCHANGED <<pc, processes, buffered, runErr, watch, drainBy, outcome>>

\* What Credential and os/exec do of themselves.
Step == StartFails \/ Start \/ TimesOut \/ Cancel \/ Reap \/ Drained \/ DelayEnds

Next ==
    \/ Step
    \/ \E n \in 1..MaxWritten : ReadFrom(n) \/ Writes(n)
    \/ HelperForks \/ HeirsClose
    \/ \E status \in {"ok", "failed"} : HelperExits(status)
    \/ \E error \in {"canceled", "deadline"} : CallerEnds(error)
    \/ Tick

Spec == Init /\ [][Next]_vars

\* Timers fire and os/exec goes on; nothing is assumed of the helper, its heirs
\* and the caller.
FairSpec == Spec /\ WF_vars(Tick) /\ WF_vars(Step)

---------------------------------------------------------------------------
\* A credential is read from the whole output of a helper that succeeded, never
\* from what a killed helper or one that left the pipe to others had written so
\* far (source_exec.go:118-131).
WholeOutputOnly ==
    outcome = "credential" =>
        /\ helper = "ok" /\ ~heirs
        /\ buffered = written

\* SECURITY.md:30 says that helpers "have bounded execution time".  The bound is
\* twice the timeout: once for the helper, once more for whoever holds its output,
\* even when the caller's context has ended (source_exec.go:106, 112).
EndsWithinTwoTimeouts == pc # "done" => now <= 2 * Timeout

\* SECURITY.md:30 says that helpers "have bounded execution time and output".  It
\* does not hold that a credential is read from no more output than the limit: the
\* limit of limitedBuffer.Write is not on the way of the output
\* (source_exec.go:114-118, 127, 186-207).
OutputIsBounded == outcome = "credential" => buffered <= Limit

\* Credential returns, whatever the helper and its heirs do
\* (source_exec.go:112, 118).
CredentialReturns == <>(pc = "done")
=============================================================================

---------------------------- MODULE WindowsStore ----------------------------
(***************************************************************************)
(* FileStore on Windows: a Save, a Load of what it has left, and between   *)
(* them and the file the retries of file_windows.go.  Another program that *)
(* has the file open makes a rename onto it fail, and its opening too when *)
(* it does not share the file; both are tried again for RetryFor.          *)
(*                                                                         *)
(* The system calls of Save before the rename are in FileStore; here they  *)
(* succeed or fail.  The clock counts while an operation is tried: each    *)
(* attempt takes its time, and the program goes on no more than Late after *)
(* an attempt was answered or a timer was due.                             *)
(***************************************************************************)
EXTENDS StoredCredential

CONSTANTS
    Given,      \* the credentials that are saved
    Foreign,    \* the files that another program or version has left
    RetryFor,   \* how long an operation is tried again
    RetryWait,  \* the wait between two attempts
    Late,       \* how late the program may go on
    Moments,    \* the times at which freshness is compared
    MaxTime,    \* bound on the clock while an attempt goes on
    Contended,  \* bound: the credentials while whose file is used others hold it
    Nothing     \* no credential, or no file

ASSUME RetryAssumption ==
    /\ RetryFor \in Nat \ {0} /\ RetryWait \in Nat \ {0} /\ Late \in Nat
    /\ MaxTime \in Nat
    /\ Moments \subseteq Nat
    /\ Nothing \notin Given /\ Nothing \notin Foreign

ASSUME ContentAssumption ==
    /\ \A c \in Given : IsCredential(c)
    /\ \A f \in Foreign : IsFile(f)

VARIABLES
    given,       \* the credential of Save, Nothing if only Load is called
    explicit,    \* Load is given a base URL
    file,        \* the credential file
    loaded,      \* what Load returned
    pc,          \* the point the program is at
    operation,   \* "replace" in Save, "open" in Load
    held,        \* how others hold the file
    tried,       \* attempts > 0
    deadline,    \* of the retries
    wakeAt,      \* when timer fires, or since when the program may go on
    ctxErr,      \* ctx.Err()
    outcome,     \* what the last call returned
    clearSince,  \* history: since when nobody is in the operation's way
    now          \* the clock

vars == <<given, explicit, file, loaded, pc, operation, held, tried, deadline,
          wakeAt, ctxErr, outcome, clearSince, now>>

data == <<given, explicit, file, loaded>>
retry == <<operation, tried, deadline, wakeAt>>

Errors == {"canceled", "deadline"}

Init ==
    /\ explicit \in BOOLEAN
    /\ \/ given \in Given /\ file = Nothing /\ pc = "save" /\ operation = "replace"
       \/ given = Nothing /\ file \in Foreign /\ pc = "load" /\ operation = "open"
    /\ loaded = Nothing
    /\ held \in {"free", "shared"}
    /\ tried = FALSE
    /\ deadline = 0 /\ wakeAt = 0 /\ clearSince = 0 /\ now = 0
    /\ ctxErr = "none"
    /\ outcome = "none"

---------------------------------------------------------------------------
\* The answer of Windows: a file open elsewhere denies its replacement, a file
\* opened without sharing violates both, and permissions may deny both.
Answer ==
    IF held = "exclusive" THEN "sharing"
    ELSE IF held = "forbidden" \/ (held = "shared" /\ operation = "replace")
    THEN "denied"
    ELSE IF operation = "open" /\ file = Nothing THEN "absent" ELSE "ok"

Blocked == Answer \in {"sharing", "denied"}

\* retryOpenError and retryReplacementError
Retried(answer) ==
    answer = "sharing" \/ (answer = "denied" /\ operation = "replace")

\* Mutant: every attempt is given the whole time again.
RemainingWhole == RetryFor

Remaining == deadline - now

\* Mutant: one wait until the deadline.
WaitWhole == Remaining

\* The last wait is cut at the deadline.
Wait == Sooner(RetryWait, Remaining)

Returns(result) ==
    /\ pc' = "done"
    /\ outcome' = result
    /\ UNCHANGED <<data, retry, held, ctxErr, clearSince, now>>

Retrying == {"loop", "try", "failed", "wait"}

\* retryCredentialFileWith is called.
Begins(op) ==
    /\ pc' = "loop"
    /\ operation' = op
    /\ tried' = FALSE
    /\ deadline' = now + RetryFor
    /\ wakeAt' = now
    /\ clearSince' = now
    /\ UNCHANGED <<data, held, ctxErr, outcome, now>>

---------------------------------------------------------------------------
\* Save before the rename: ctx, the checks of the credential, the temporary file.
SaveFails ==
    /\ pc = "save"
    /\ Returns(IF ctxErr # "none" THEN ctxErr ELSE "error")

Encode ==
    /\ pc = "save"
    /\ ctxErr = "none" /\ MaySave(given)
    /\ Begins("replace")

\* Load before the file is opened.
LoadFails ==
    /\ pc = "load"
    /\ ctxErr # "none"
    /\ Returns(ctxErr)

Open ==
    /\ pc = "load"
    /\ ctxErr = "none"
    /\ Begins("open")

\* The head of the loop finds ctx ended, or the deadline reached.
GivesUp ==
    /\ pc = "loop"
    /\ ctxErr # "none" \/ (tried /\ Remaining <= 0)
    /\ Returns(IF ctxErr # "none" THEN ctxErr ELSE "busy")

\* operation() is called.
Tries ==
    /\ pc = "loop"
    /\ ctxErr = "none" /\ ~(tried /\ Remaining <= 0)
    /\ pc' = "try"
    /\ UNCHANGED <<data, retry, held, ctxErr, outcome, clearSince, now>>

\* The attempt fails in a way that may pass.
FailsInUse ==
    /\ pc = "try"
    /\ Retried(Answer)
    /\ pc' = "failed"
    /\ tried' = TRUE
    /\ wakeAt' = now
    /\ UNCHANGED <<data, operation, deadline, held, ctxErr, outcome, clearSince, now>>

\* time.Until(deadline) after an attempt: no time is left, or a timer is set.
TimeIsUp ==
    /\ pc = "failed"
    /\ Remaining <= 0
    /\ Returns("busy")

Waits ==
    /\ pc = "failed"
    /\ Remaining > 0
    /\ pc' = "wait"
    /\ wakeAt' = now + Wait
    /\ UNCHANGED <<data, operation, tried, deadline, held, ctxErr, outcome, clearSince,
                   now>>

\* The attempt fails for good.
Fails ==
    /\ pc = "try"
    /\ ~Retried(Answer) /\ Answer # "ok"
    /\ Returns(IF Answer = "absent" THEN "noCredential" ELSE "error")

\* os.Rename; there is no directory to sync.  A Load may follow.
Replaces ==
    /\ pc = "try"
    /\ operation = "replace" /\ Answer = "ok"
    /\ file' = ToFile(given)
    /\ pc' = "load"
    /\ outcome' = "saved"
    /\ UNCHANGED <<given, explicit, loaded, retry, held, ctxErr, clearSince, now>>

\* os.Open: from here on the file is held by this program too.
Opens ==
    /\ pc = "try"
    /\ operation = "open" /\ Answer = "ok"
    /\ pc' = "read"
    /\ UNCHANGED <<data, retry, held, ctxErr, outcome, clearSince, now>>

TimerFires ==
    /\ pc = "wait"
    /\ now >= wakeAt
    /\ pc' = "loop"
    /\ UNCHANGED <<data, retry, held, ctxErr, outcome, clearSince, now>>

WaitIsCut ==
    /\ pc = "wait"
    /\ ctxErr # "none"
    /\ Returns(ctxErr)

---------------------------------------------------------------------------
\* The file is read; its reading fails, or ctx has ended meanwhile.
ReadFails ==
    /\ pc = "read"
    /\ Returns("error") \/ (ctxErr # "none" /\ Returns(ctxErr))

\* What Load makes of the file it has read, and of the base URL it was given.
Decode ==
    /\ pc = "read"
    /\ ctxErr = "none"
    /\ IF MayLoad(file) /\ (explicit => file.origin = "same")
       THEN loaded' = FromFile(file) /\ outcome' = "loaded"
       ELSE outcome' = (IF MayLoad(file) THEN "mismatch" ELSE "refused")
            /\ UNCHANGED loaded
    /\ pc' = "done"
    /\ UNCHANGED <<given, explicit, file, retry, held, ctxErr, clearSince, now>>

\* The environment: others open the file, let go of it or forbid its use.
Hold(how) ==
    /\ pc \in Retrying
    /\ given \in Contended
    /\ held # how
    /\ held' = how
    /\ clearSince' = IF Blocked THEN now ELSE clearSince
    /\ UNCHANGED <<data, pc, retry, ctxErr, outcome, now>>

End(error) ==
    /\ pc # "done"
    /\ ctxErr = "none"
    /\ ctxErr' = error
    /\ UNCHANGED <<data, pc, retry, held, outcome, clearSince, now>>

\* Attempts begun by MaxTime end by then, and what follows them within the time of
\* the retries.
Tick ==
    /\ \/ pc = "try" /\ now < MaxTime
       \/ pc \in Retrying \ {"try"} /\ now < wakeAt + Late
    /\ now < MaxTime + RetryFor + Late
    /\ now' = now + 1
    /\ UNCHANGED <<data, pc, retry, held, ctxErr, outcome, clearSince>>

Step ==
    \/ SaveFails \/ Encode \/ LoadFails \/ Open
    \/ GivesUp \/ Tries \/ FailsInUse \/ TimeIsUp \/ Waits \/ Fails \/ Replaces
    \/ Opens \/ TimerFires \/ WaitIsCut
    \/ ReadFails \/ Decode

Next ==
    \/ Step
    \/ \E how \in {"free", "shared", "exclusive", "forbidden"} : Hold(how)
    \/ \E error \in Errors : End(error)
    \/ Tick

Spec == Init /\ [][Next]_vars

\* The program goes on, its timers fire and Windows answers; nothing is assumed of
\* those who hold the file, and the context need not end.
FairSpec == Spec /\ WF_vars(Step) /\ WF_vars(Tick)

---------------------------------------------------------------------------
\* The credentials that keep their meaning: not so large that the file exceeds
\* what Load reads (file.go:22 and types.go: a key may be as long), not of an end
\* that RFC 3339 cannot write (file.go:345), not issued at the epoch with no end of
\* their own (file.go:449), and not an SSO credential said not to expire, for which
\* Load makes up an end (file.go:280).
Storable(c) ==
    /\ ~c.oversized
    /\ FormatTime(c.expiresAt) # Unreadable
    /\ c.issuedAt = 0 => c.expiresAt # NoTime \/ c.jwtExp # NoTime
    /\ ~(c.nonExpiring /\ c.method = "sso" /\ c.issuedAt # NoTime)

TeamIDs(c) == {c.teams[i].id : i \in DOMAIN c.teams}

\* The alias that a team may have: one of those given for it, or if there is none
\* that of the credential, when it is the selected team.
AliasesOf(id, teams, c) ==
    LET own == {teams[i].alias : i \in {j \in DOMAIN teams : teams[j].id = id}}
               \ {NoAlias}
    IN  IF own # {} THEN own ELSE IF id = c.teamID THEN {c.teamAlias} ELSE {NoAlias}

\* What Load returns after a Save that succeeded is the credential that was saved:
\* it is accepted, fresh at the same moments after the epoch, of the same teams,
\* each once, and no team loses its alias or gets one that was not given for it; of
\* several for one team it has one (file.go:240-298, 300-361, 417-529).
SavedIsLoadable ==
    given # Nothing /\ outcome \in {"loaded", "refused"} /\ Storable(given) =>
        /\ outcome = "loaded"
        /\ \A moment \in Moments : Fresh(loaded, moment) <=> Fresh(given, moment)
        /\ TeamIDs(loaded) = TeamIDs(given)
        /\ Len(loaded.teams) = Cardinality(TeamIDs(given))
        /\ \A i \in DOMAIN loaded.teams :
              loaded.teams[i].alias \in AliasesOf(loaded.teams[i].id, given.teams, given)

\* A credential that was loaded, from whatever file, can be saved and loaded again
\* without change: print-token and RefreshingSource do so at every renewal
\* (cli.go:366-385, source_refresh.go:92-113).
SecondSaveChangesNothing ==
    outcome = "loaded" /\ MaySave(loaded) /\ Storable(loaded) =>
        FromFile(ToFile(loaded)) = loaded

\* An operation that found the file in use fails only after RetryFor, and if the
\* file has come free at all then no longer before that than one wait, and the two
\* moments at which the program goes on after an attempt (file_windows.go:49-71).
NoticesRelease ==
    outcome = "busy" =>
        /\ now >= deadline
        /\ Blocked \/ deadline - clearSince <= RetryWait + 2 * Late

\* Save and Load return, however long others hold the file
\* (file_windows.go:46, 59-63).
EveryCallReturns == <>(pc = "done")
=============================================================================

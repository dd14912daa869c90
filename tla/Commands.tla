----------------------------- MODULE Commands -----------------------------
(***************************************************************************)
(* The commands of litellm-auth that share one credential file and one     *)
(* token endpoint, each in a process of its own: print-token, login,       *)
(* logout and import-token of internal/cli.  No lock is held between       *)
(* them, so their steps interleave wherever one of them reads or replaces  *)
(* the file or sends a request.  The file is one register (see FileStore)  *)
(* and the endpoint is modelled from how pkce.go and oidc.go use it.       *)
(*                                                                         *)
(* A process obtains at most one credential, which carries its name; a     *)
(* refresh token carries the name of the credential it was issued with.    *)
(***************************************************************************)
EXTENDS Integers

CONSTANTS
    Printers,  \* processes running print-token
    Logins,    \* processes running login
    Logouts,   \* processes running logout
    Imports,   \* processes running import-token
    Stored,    \* the credential in the file at first
    Nothing    \* no credential, no refresh token

ASSUME ProcessesAssumption ==
    /\ Printers \cap Logins = {} /\ Printers \cap Logouts = {}
    /\ Logins \cap Logouts = {}
    /\ Imports \cap (Printers \cup Logins \cup Logouts) = {}
    /\ Stored \notin Printers \cup Logins \cup Logouts \cup Imports
    /\ Nothing \notin Printers \cup Logins \cup Logouts \cup Imports \cup {Stored}

Processes == Printers \cup Logins \cup Logouts \cup Imports
Credentials == Printers \cup Logins \cup Imports \cup {Stored}

\* How a credential is renewed and revoked: the proxy's PKCE credentials, whose
\* refresh token rotates and can be revoked; those of an identity provider that
\* rotates the token or keeps it; SSO and imported ones, without a token.
Kinds == {"pkce", "rotating", "keeping", "plain"}

VARIABLES
    file,      \* the credential in the credential file, or Nothing
    kindOf,    \* the kind of each credential
    tokenOf,   \* the refresh token of each credential
    live,      \* external: the refresh tokens the endpoints honour
    at,        \* where each process is
    held,      \* the local variable credential of each process
    printed,   \* what a print-token wrote to its standard output
    stale,     \* the credentials that are no longer Fresh
    saved,     \* history: every credential that has been in the file
    overtaken, \* history: credentials a newer login replaced before they were saved
    faults     \* history: a request, a save or a delete failed half-way

commandVars == <<file, kindOf, tokenOf, live, at, held, printed, stale, saved, overtaken,
                 faults>>

registerVars == <<file, saved>>
issuerVars == <<kindOf, tokenOf, live, overtaken>>

Finished == {"done", "error", "rejected"}
Points == Finished \cup {"idle", "check", "refresh", "reload", "save",
                            "revoke", "delete", "unrevoked"}

CommandsTypeOK ==
    /\ file \in Credentials \cup {Nothing}
    /\ kindOf \in [Credentials -> Kinds]
    /\ tokenOf \in [Credentials -> Credentials \cup {Nothing}]
    /\ live \in SUBSET Credentials
    /\ at \in [Processes -> Points]
    /\ held \in [Processes -> Credentials \cup {Nothing}]
    /\ printed \in [Printers -> Credentials \cup {Nothing}]
    /\ stale \in SUBSET Credentials
    /\ saved \in SUBSET Credentials
    /\ overtaken \in SUBSET Credentials
    /\ faults \in BOOLEAN
    /\ \A p \in Printers : at[p] = "done" => printed[p] # Nothing

\* The refresh token a credential is issued with.
OwnToken(n, kind) == IF kind = "plain" THEN Nothing ELSE n

CommandsInit ==
    /\ file \in {Stored, Nothing}
    /\ saved = {file} \cap Credentials
    /\ \E kind \in Kinds :
          /\ kindOf = [n \in Credentials |-> IF n = Stored THEN kind ELSE "plain"]
          /\ tokenOf = [n \in Credentials |->
                           IF n = Stored THEN OwnToken(n, kind) ELSE Nothing]
          /\ live = {OwnToken(Stored, kind)} \cap saved
    /\ at = [p \in Processes |-> "idle"]
    /\ held = [p \in Processes |-> Nothing]
    /\ printed = [p \in Printers |-> Nothing]
    /\ stale = {}
    /\ overtaken = {}
    /\ faults = FALSE

---------------------------------------------------------------------------
Fresh(n) == n \notin stale

GoTo(p, location) == at' = [at EXCEPT ![p] = location]
Holds(p, n) == held' = [held EXCEPT ![p] = n]
Prints(p, n) ==
    /\ GoTo(p, "done")
    /\ printed' = [printed EXCEPT ![p] = n]

\* Any command may end with an error before it changes anything; one that has not
\* even read the file stays idle.
EndsEarly(p) ==
    /\ at[p] \in {"check", "reload", "refresh", "revoke"}
    /\ GoTo(p, "error")
    /\ UNCHANGED <<registerVars, issuerVars, held, printed, stale, faults>>

\* print-token: store.Load, against the explicit base URL if there is one.
PrinterLoads(p) ==
    /\ at[p] = "idle"
    /\ file # Nothing
    /\ Holds(p, file)
    /\ GoTo(p, "check")
    /\ UNCHANGED <<registerVars, issuerVars, printed, stale, faults>>

\* print-token: fresh is printed, stale is renewed if there is a refresh token.
PrinterChecks(p) ==
    /\ at[p] = "check"
    /\ \/ Fresh(held[p]) /\ Prints(p, held[p])
       \/ /\ ~Fresh(held[p]) /\ tokenOf[held[p]] = Nothing
          /\ GoTo(p, "error") /\ UNCHANGED printed
       \/ /\ ~Fresh(held[p]) /\ tokenOf[held[p]] # Nothing
          /\ GoTo(p, "refresh") /\ UNCHANGED printed
    /\ UNCHANGED <<registerVars, issuerVars, held, stale, faults>>

\* Mutant: the response's refresh token is dropped and the old one copied over.
IssueKeepingOld(p) ==
    LET old == tokenOf[held[p]]
        kind == kindOf[held[p]]
    IN  /\ old \in live
        /\ live' = IF kind = "keeping" THEN live ELSE (live \ {old}) \cup {p}
        /\ tokenOf' = [tokenOf EXCEPT ![p] = old]
        /\ kindOf' = [kindOf EXCEPT ![p] = kind]

\* External: the endpoint honours the presented token and issues p's credential.
\* A rotating endpoint forgets the old token, a keeping one does not and returns
\* none, so that the old one is copied over.
Issue(p) ==
    LET old == tokenOf[held[p]]
        kind == kindOf[held[p]]
        token == IF kind = "keeping" THEN old ELSE p
    IN  /\ old \in live
        /\ live' = IF kind = "keeping" THEN live ELSE (live \ {old}) \cup {p}
        /\ tokenOf' = [tokenOf EXCEPT ![p] = token]
        /\ kindOf' = [kindOf EXCEPT ![p] = kind]

\* print-token: client.Refresh succeeds; its result is not checked for
\* freshness.
PrinterRefreshes(p) ==
    /\ at[p] = "refresh"
    /\ Issue(p)
    /\ \E short \in BOOLEAN : stale' = IF short THEN stale \cup {p} ELSE stale
    /\ Holds(p, p)
    /\ GoTo(p, "save")
    /\ UNCHANGED <<registerVars, overtaken, printed, faults>>

\* print-token: the endpoint issued a credential and its reply was lost.
PrinterLosesReply(p) ==
    /\ at[p] = "refresh"
    /\ Issue(p)
    /\ GoTo(p, "error")
    /\ faults' = TRUE
    /\ UNCHANGED <<registerVars, overtaken, held, printed, stale>>

\* print-token: ErrRefreshRejected.
PrinterIsRejected(p) ==
    /\ at[p] = "refresh"
    /\ tokenOf[held[p]] \notin live
    /\ GoTo(p, "reload")
    /\ UNCHANGED <<registerVars, issuerVars, held, printed, stale, faults>>

\* print-token: store.Save, then the token is written out.
PrinterSaves(p) ==
    /\ at[p] = "save"
    /\ file' = held[p]
    /\ saved' = saved \cup {held[p]}
    /\ Prints(p, held[p])
    /\ UNCHANGED <<issuerVars, held, stale, faults>>

\* print-token, login, import-token: store.Save fails before it has replaced the
\* file, and the credential is gone.
CommandSaveFails(p) ==
    /\ at[p] = "save"
    /\ GoTo(p, "error")
    /\ faults' = TRUE
    /\ UNCHANGED <<registerVars, issuerVars, held, printed, stale>>

\* print-token, login, import-token: store.Save has replaced the file and cannot
\* sync the directory.
CommandSaveFailsLate(p) ==
    /\ at[p] = "save"
    /\ file' = held[p]
    /\ saved' = saved \cup {held[p]}
    /\ GoTo(p, "error")
    /\ UNCHANGED <<issuerVars, held, printed, stale, faults>>

\* Mutant: whatever the second Load finds is printed.
PrinterPrintsReloaded(p) ==
    /\ at[p] = "reload"
    /\ file # Nothing
    /\ Prints(p, file)
    /\ UNCHANGED <<registerVars, issuerVars, held, stale, faults>>

\* print-token: the second Load, after a rejection.  A fresh credential was put
\* there by a parallel process and is printed; otherwise the rejection stands.
PrinterReloads(p) ==
    /\ at[p] = "reload"
    /\ \/ file # Nothing /\ Fresh(file) /\ Prints(p, file)
       \/ (file = Nothing \/ ~Fresh(file))
          /\ GoTo(p, "rejected") /\ UNCHANGED printed
    /\ UNCHANGED <<registerVars, issuerVars, held, stale, faults>>

---------------------------------------------------------------------------
\* login: the flow yields a credential of some kind.  A PKCE login replaces the
\* proxy's older refresh tokens, those of its own user.
LoginFlow(l) ==
    /\ at[l] = "idle"
    /\ \E kind \in Kinds, replaced \in SUBSET {n \in live : kindOf[n] = "pkce"} :
          /\ kind # "pkce" => replaced = {}
          /\ kindOf' = [kindOf EXCEPT ![l] = kind]
          /\ tokenOf' = [tokenOf EXCEPT ![l] = OwnToken(l, kind)]
          /\ live' = (live \ replaced) \cup ({OwnToken(l, kind)} \ {Nothing})
          /\ overtaken' = overtaken \cup (replaced \ saved)
    /\ Holds(l, l)
    /\ GoTo(l, "save")
    /\ UNCHANGED <<registerVars, printed, stale, faults>>

\* login, import-token: store.Save, then the credential is described.
FirstSave(l) ==
    /\ at[l] = "save"
    /\ file' = l
    /\ saved' = saved \cup {l}
    /\ GoTo(l, "done")
    /\ UNCHANGED <<issuerVars, held, printed, stale, faults>>

\* import-token: one source yields a credential without a refresh token, Fresh with
\* the time of its import as IssuedAt (otherwise EndsEarly).  The one it replaces
\* is not revoked.
ImportAcquires(i) ==
    /\ at[i] = "idle"
    /\ Holds(i, i)
    /\ GoTo(i, "save")
    /\ UNCHANGED <<registerVars, issuerVars, printed, stale, faults>>

---------------------------------------------------------------------------
\* logout: store.Load, whose failure is ignored.  A PKCE credential is to be
\* revoked, unless no client can be made for its base URL or it has no
\* revocation endpoint.
LogoutLoads(o) ==
    /\ at[o] = "idle"
    /\ \/ file # Nothing /\ Holds(o, file)
       \/ UNCHANGED held
    /\ \/ held'[o] # Nothing /\ kindOf[held'[o]] = "pkce" /\ GoTo(o, "revoke")
       \/ GoTo(o, "unrevoked")
    /\ UNCHANGED <<registerVars, issuerVars, printed, stale, faults>>

\* Mutant: the failure of a revocation is ignored.
LogoutIgnoresFailure(o) ==
    /\ at[o] = "revoke"
    /\ GoTo(o, "delete")
    /\ UNCHANGED <<registerVars, issuerVars, held, printed, stale, faults>>

\* logout: RevokePKCE is answered with 200, whatever the token was.
LogoutRevokes(o) ==
    /\ at[o] = "revoke"
    /\ live' = live \ {tokenOf[held[o]]}
    /\ GoTo(o, "delete")
    /\ UNCHANGED <<registerVars, kindOf, tokenOf, overtaken, held, printed, stale,
                   faults>>

\* logout: the proxy revoked the token and its reply was lost.
LogoutLosesReply(o) ==
    /\ at[o] = "revoke"
    /\ live' = live \ {tokenOf[held[o]]}
    /\ GoTo(o, "error")
    /\ faults' = TRUE
    /\ UNCHANGED <<registerVars, kindOf, tokenOf, overtaken, held, printed, stale>>

\* logout: store.Delete.
LogoutDeletes(o) ==
    /\ at[o] \in {"delete", "unrevoked"}
    /\ file' = Nothing
    /\ GoTo(o, "done")
    /\ UNCHANGED <<saved, issuerVars, held, printed, stale, faults>>

LogoutDeleteFails(o) ==
    /\ at[o] \in {"delete", "unrevoked"}
    /\ GoTo(o, "error")
    /\ faults' = TRUE
    /\ UNCHANGED <<registerVars, issuerVars, held, printed, stale>>

\* The environment: a credential stops being Fresh.
Expire(n) ==
    /\ n \in saved \ stale
    /\ stale' = stale \cup {n}
    /\ UNCHANGED <<registerVars, issuerVars, at, held, printed, faults>>

CommandsNext ==
    \/ \E p \in Printers :
          \/ PrinterLoads(p) \/ PrinterChecks(p) \/ PrinterRefreshes(p)
          \/ PrinterLosesReply(p) \/ PrinterIsRejected(p) \/ PrinterSaves(p)
          \/ PrinterReloads(p)
    \/ \E l \in Logins : LoginFlow(l)
    \/ \E i \in Imports : ImportAcquires(i)
    \/ \E l \in Logins \cup Imports : FirstSave(l)
    \/ \E o \in Logouts :
          \/ LogoutLoads(o) \/ LogoutRevokes(o) \/ LogoutLosesReply(o)
          \/ LogoutDeletes(o) \/ LogoutDeleteFails(o)
    \/ \E p \in Processes :
          EndsEarly(p) \/ CommandSaveFails(p) \/ CommandSaveFailsLate(p)
    \/ \E n \in Credentials : Expire(n)

CommandsSpec == CommandsInit /\ [][CommandsNext]_commandVars

---------------------------------------------------------------------------
\* However the commands interleave, the file is not left with a refresh token
\* its endpoint has forgotten, unless a reply was lost, the file could not be
\* replaced or removed, or a command saved its credential only after a newer
\* login had replaced it: no lock keeps that save from overtaking the newer one
\* (cli.go:369-398, 301-315).
NoDeadTokenLeft ==
    /\ \A p \in Processes : at[p] \in Finished \cup {"idle"}
    /\ ~faults
    /\ file # Nothing /\ tokenOf[file] # Nothing
    => tokenOf[file] \in live \/ file \in overtaken

\* What print-token writes out has been in the file, so that no token is used
\* whose successor the next command could not obtain, and is fresh or has just
\* been renewed; what it reloads after a rejection is no exception
\* (cli.go:369, 386-398, pkce.go:297-299).
PrintsSavedAndFresh ==
    [][\A p \in Printers :
          printed'[p] # printed[p] =>
              /\ printed'[p] \in saved'
              /\ printed'[p] = p \/ printed'[p] \notin stale]_commandVars

\* cli.go:389 reloads after a rejection because "a parallel print-token may
\* already have rotated the token".  It does not hold that such a rotation is
\* never reported as a rejection: the other process may have yet to save.
ParallelRotationIsSeen ==
    [][\A p \in Printers :
          at[p] = "reload" /\ at'[p] = "rejected" =>
              \A q \in Printers : at[q] # "save"]_commandVars

\* A logout that has revoked the token it loaded deletes no live one, unless another
\* command has replaced the credential meanwhile: no lock keeps that from being
\* deleted without having been revoked (cli.go:300-315).
LogoutRevokesWhatItDeletes ==
    [][\A o \in Logouts :
          at[o] = "delete" /\ at'[o] = "done" /\ file = held[o] =>
              tokenOf[file] \notin live]_commandVars
===========================================================================

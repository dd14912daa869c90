------------------------- MODULE RefreshingSource -------------------------
(***************************************************************************)
(* The refreshing source of source_refresh.go, in one process: callers of  *)
(* Credential load the stored credential, and the one that holds the       *)
(* one-slot semaphore renews it when it is stale and saves the result      *)
(* before anyone uses it.  The token endpoint, which rotates refresh       *)
(* tokens or keeps them, is modelled from how RefreshPKCE and RefreshOIDC  *)
(* use it.                                                                 *)
(*                                                                         *)
(* A call renews at most once, so a renewed credential carries the name of *)
(* the call that obtained it; LoginCredential is the one a login stored.   *)
(* A refresh token carries the name of the credential it was issued with.  *)
(***************************************************************************)
EXTENDS Integers

CONSTANTS
    Calls,            \* the calls of Credential, each made by some goroutine
    LoginCredential,  \* the credential stored before the source existed
    Nothing           \* no credential, no refresh token, an error

ASSUME NothingAssumption ==
    /\ LoginCredential \notin Calls
    /\ Nothing \notin Calls \cup {LoginCredential}

Credentials == Calls \cup {LoginCredential}

VARIABLES
    slots,      \* the number of elements in the channel s.refresh
    store,      \* the credential in s.store
    tokenOf,    \* the refresh token of each credential
    live,       \* external: the refresh token the token endpoint honours
    pc,         \* where each call is
    held,       \* the local variable credential of each call
    result,     \* what a call returned
    ctxDone,    \* the calls whose context is done
    stale,      \* the credentials that are no longer Fresh
    stored,     \* history: every credential that has been in the store
    lost        \* history: a rotated token was received by no store

vars == <<slots, store, tokenOf, live, pc, held, result, ctxDone, stale,
          stored, lost>>

storeVars == <<store, stored>>
issuerVars == <<tokenOf, live, lost>>

Outside == {"idle", "load", "check", "acquire", "returned"}
Inside == {"reload", "recheck", "refresh", "save"}

TypeOK ==
    /\ slots \in Nat
    /\ store \in Credentials \cup {Nothing}
    /\ tokenOf \in [Credentials -> Credentials \cup {Nothing}]
    /\ live \in Credentials \cup {Nothing}
    /\ pc \in [Calls -> Outside \cup Inside]
    /\ held \in [Calls -> Credentials \cup {Nothing}]
    /\ result \in [Calls -> Credentials \cup {Nothing}]
    /\ ctxDone \in SUBSET Calls
    /\ stale \in SUBSET Credentials
    /\ stored \in SUBSET Credentials
    /\ lost \in BOOLEAN

\* NewRefreshingSource over a store that is empty, or holds a credential with
\* or without a refresh token.
Init ==
    /\ slots = 1
    /\ store \in {LoginCredential, Nothing}
    /\ stored = {store} \cap Credentials
    /\ live \in {LoginCredential, Nothing}
    /\ tokenOf = [n \in Credentials |->
                     IF n = LoginCredential THEN live ELSE Nothing]
    /\ pc = [c \in Calls |-> "idle"]
    /\ held = [c \in Calls |-> Nothing]
    /\ result = [c \in Calls |-> Nothing]
    /\ ctxDone = {}
    /\ stale = {}
    /\ lost = FALSE

---------------------------------------------------------------------------
Fresh(n) == n \notin stale

GoTo(c, location) == pc' = [pc EXCEPT ![c] = location]

\* Return a credential, or an error, from outside the semaphore.
Return(c, n) ==
    /\ GoTo(c, "returned")
    /\ result' = [result EXCEPT ![c] = n]

\* Mutant: the token is not put back when the call fails.
ReleaseOnSuccess(c, n) ==
    /\ slots' = IF n = Nothing THEN slots ELSE slots + 1
    /\ Return(c, n)

\* Return while holding the semaphore: the deferred send puts the token back.
Release(c, n) ==
    /\ slots' = slots + 1
    /\ Return(c, n)

\* ctx.Err() is looked at once, before anything else.
Begin(c) ==
    /\ pc[c] = "idle"
    /\ \/ c \in ctxDone /\ Return(c, Nothing)
       \/ c \notin ctxDone /\ GoTo(c, "load") /\ UNCHANGED result
    /\ UNCHANGED <<slots, storeVars, issuerVars, held, ctxDone, stale>>

\* s.store.Load, which fails when the store is empty or cannot be read.
Load(c) ==
    /\ pc[c] = "load"
    /\ \/ Return(c, Nothing) /\ UNCHANGED held
       \/ /\ store # Nothing
          /\ held' = [held EXCEPT ![c] = store]
          /\ GoTo(c, "check")
          /\ UNCHANGED result
    /\ UNCHANGED <<slots, storeVars, issuerVars, ctxDone, stale>>

\* credential.Fresh(s.now()), of the credential as it was loaded.
Check(c) ==
    /\ pc[c] = "check"
    /\ \/ Fresh(held[c]) /\ Return(c, held[c])
       \/ ~Fresh(held[c]) /\ GoTo(c, "acquire") /\ UNCHANGED result
    /\ UNCHANGED <<slots, storeVars, issuerVars, held, ctxDone, stale>>

\* <-s.refresh can proceed.
MayAcquire == slots > 0

\* Mutant: the loaded credential is used without loading it again.
AcquireWithoutReload(c) ==
    /\ pc[c] = "acquire"
    /\ MayAcquire
    /\ slots' = slots - 1
    /\ GoTo(c, "recheck")
    /\ UNCHANGED <<storeVars, issuerVars, held, result, ctxDone, stale>>

\* The select: receive from s.refresh, or see the context end.
Acquire(c) ==
    /\ pc[c] = "acquire"
    /\ MayAcquire
    /\ slots' = slots - 1
    /\ GoTo(c, "reload")
    /\ UNCHANGED <<storeVars, issuerVars, held, result, ctxDone, stale>>

GiveUp(c) ==
    /\ pc[c] = "acquire"
    /\ c \in ctxDone
    /\ Return(c, Nothing)
    /\ UNCHANGED <<slots, storeVars, issuerVars, held, ctxDone, stale>>

Reload(c) ==
    /\ pc[c] = "reload"
    /\ \/ Release(c, Nothing) /\ UNCHANGED held
       \/ /\ store # Nothing
          /\ held' = [held EXCEPT ![c] = store]
          /\ GoTo(c, "recheck")
          /\ UNCHANGED <<slots, result>>
    /\ UNCHANGED <<storeVars, issuerVars, ctxDone, stale>>

\* Another caller may have refreshed; otherwise a refresh token is needed.
Recheck(c) ==
    /\ pc[c] = "recheck"
    /\ \/ Fresh(held[c]) /\ Release(c, held[c])
       \/ ~Fresh(held[c]) /\ tokenOf[held[c]] = Nothing /\ Release(c, Nothing)
       \/ /\ ~Fresh(held[c]) /\ tokenOf[held[c]] # Nothing
          /\ GoTo(c, "refresh")
          /\ UNCHANGED <<slots, result>>
    /\ UNCHANGED <<storeVars, issuerVars, held, ctxDone, stale>>

\* The token endpoint honours the presented token and issues c's credential;
\* a rotating endpoint issues a new refresh token and forgets the old one, the
\* others leave it as it is and RefreshOIDC copies it over.
Issue(c) ==
    /\ tokenOf[held[c]] = live
    /\ \E token \in {live, c} :
          /\ live' = token
          /\ tokenOf' = [tokenOf EXCEPT ![c] = token]

\* client.Refresh returns a credential that is valid and fresh.
RefreshSucceeds(c) ==
    /\ pc[c] = "refresh"
    /\ Issue(c)
    /\ Fresh(c)
    /\ held' = [held EXCEPT ![c] = c]
    /\ GoTo(c, "save")
    /\ UNCHANGED <<slots, storeVars, result, ctxDone, stale, lost>>

\* The endpoint issued a credential that never becomes the source's: the reply
\* is lost, malformed or of another subject, or the credential is not valid or
\* already stale.
RefreshIsLost(c) ==
    /\ pc[c] = "refresh"
    /\ Issue(c)
    /\ lost' = (lost \/ live' # live)
    /\ Release(c, Nothing)
    /\ UNCHANGED <<storeVars, held, ctxDone, stale>>

\* The endpoint refuses the token, or the request does not reach it.
RefreshFails(c) ==
    /\ pc[c] = "refresh"
    /\ Release(c, Nothing)
    /\ UNCHANGED <<storeVars, issuerVars, held, ctxDone, stale>>

\* s.store.Save replaces the stored credential ...
SaveSucceeds(c) ==
    /\ pc[c] = "save"
    /\ store' = held[c]
    /\ stored' = stored \cup {held[c]}
    /\ Release(c, held[c])
    /\ UNCHANGED <<issuerVars, held, ctxDone, stale>>

\* ... replaces it and reports that the directory could not be synced ...
SaveFailsLate(c) ==
    /\ pc[c] = "save"
    /\ store' = held[c]
    /\ stored' = stored \cup {held[c]}
    /\ Release(c, Nothing)
    /\ UNCHANGED <<issuerVars, held, ctxDone, stale>>

\* Mutant: a failed save is not reported to the caller.
SaveFailsQuietly(c) ==
    /\ pc[c] = "save"
    /\ lost' = (lost \/ tokenOf[held[c]] = held[c])
    /\ Release(c, held[c])
    /\ UNCHANGED <<storeVars, tokenOf, live, held, ctxDone, stale>>

\* ... or leaves it as it was.
SaveFails(c) ==
    /\ pc[c] = "save"
    /\ lost' = (lost \/ tokenOf[held[c]] = held[c])
    /\ Release(c, Nothing)
    /\ UNCHANGED <<storeVars, tokenOf, live, held, ctxDone, stale>>

\* The environment: a context ends (where the source reads it: elsewhere it is
\* a reason for the store or the client to fail), a credential stops being
\* Fresh.
Cancel(c) ==
    /\ c \notin ctxDone
    /\ pc[c] \in {"idle", "acquire"}
    /\ ctxDone' = ctxDone \cup {c}
    /\ UNCHANGED <<slots, storeVars, issuerVars, pc, held, result, stale>>

Expire(n) ==
    /\ n \in stored \/ \E c \in Calls : pc[c] = "save" /\ held[c] = n
    /\ n \notin stale
    /\ stale' = stale \cup {n}
    /\ UNCHANGED <<slots, storeVars, issuerVars, pc, held, result, ctxDone>>

Step(c) ==
    \/ Load(c) \/ Check(c) \/ Acquire(c) \/ GiveUp(c) \/ Reload(c)
    \/ Recheck(c) \/ RefreshSucceeds(c) \/ RefreshIsLost(c) \/ RefreshFails(c)
    \/ SaveSucceeds(c) \/ SaveFailsLate(c) \/ SaveFails(c)

Next ==
    \/ \E c \in Calls : Begin(c) \/ Step(c) \/ Cancel(c)
    \/ \E n \in Credentials : Expire(n)

Spec == Init /\ [][Next]_vars

\* Every runnable goroutine runs, and requests and file operations end: the
\* HTTP client has a timeout and the store a bounded number of system calls.
FairSpec == Spec /\ \A c \in Calls : WF_vars(Step(c))

---------------------------------------------------------------------------
\* At most one call is between taking the token of s.refresh and putting it
\* back, and the deferred send never finds the channel full
\* (source_refresh.go:85-90).
OneRefresher ==
    /\ \A a, b \in Calls : pc[a] \in Inside /\ pc[b] \in Inside => a = b
    /\ slots = IF \E c \in Calls : pc[c] \in Inside THEN 0 ELSE 1

\* A refresh presents the token the endpoint honours, so it is never answered
\* with invalid_grant, unless an earlier rotation never reached the store
\* (source_refresh.go:92-103).
NeverPresentsDeadToken ==
    \A c \in Calls :
        pc[c] = "refresh" /\ ~lost => tokenOf[held[c]] = live

\* A call returns only credentials that have been in the store: a renewed one
\* is persisted before it is used (source_refresh.go:113-116, pkce.go:297-298).
SavedBeforeUse ==
    \A c \in Calls : result[c] # Nothing => result[c] \in stored

\* Callers that meet the same stale credential renew it once: of all the
\* credentials the source ever stored at most one is fresh
\* (source_refresh.go:92-98).
OneFreshCredential ==
    \A m, n \in stored : Fresh(m) /\ Fresh(n) => m = n

\* Every call that begins returns; the token of s.refresh is put back whatever
\* path its holder leaves by (source_refresh.go:85-116).
EveryCallReturns ==
    \A c \in Calls : pc[c] # "idle" ~> pc[c] = "returned"

\* The source replaces the stored credential only when it is stale and only by
\* a new one (source_refresh.go:39-40, 93-113).
Abstract == INSTANCE RenewedStore WITH NoCredential <- Nothing
ReplacesOnlyStale == Abstract!AbstractSpec
===========================================================================

# Verification of litellm-auth

This directory holds TLA+ models of litellm-auth, the Go library and command
that log a user in to a LiteLLM proxy, keep the credential in a file, renew it
and put it into requests. TLC checks every model on a small instance; TLAPS proves the
safety properties of all ten for every value of their constants.

- [The system](#the-system): components, state, operations, what is hard
- [Modules](#modules): how each module corresponds to the code
- [Runs](#runs): what TLC checks, the bounds and why they are enough
- [Fairness](#fairness)
- [Proofs](#proofs)
- [Findings](#findings), and observations that no run shows
- [Limits](#limits): what is only model-checked, what is not modelled, why
- [Plan](#plan): what comes next

Checking a model and its proofs:

    tlc -config MCSSOSource.cfg MCSSOSource
    tlapm SSOSource_proofs.tla

## The system

### Components

| component | state it keeps | operations | must be true of it |
|---|---|---|---|
| SSO source (`source_static.go`) | cached credential, channel of the login in flight, generation, mutex | `Credential`, `Invalidate` | one login at a time; nothing from before an `Invalidate` is returned after it; no waiter is forgotten |
| refreshing source (`source_refresh.go`) | a one-slot semaphore over a `CredentialStore` | `Credential` | one refresher; never presents a refresh token that was already spent; saves before it returns |
| credential file (`tokenstore/file.go`) | the file, temporary files | `Save`, `Load`, `Delete` | atomic against readers, kills and crashes; no crash brings back what a successful `Save` replaced |
| commands (`internal/cli`) | none but the credential file | `print-token`, `login`, `logout`, `whoami`, `import-token` | processes without a common lock leave no dead token behind, except where a save comes after a newer login |
| file content (`tokenstore/file.go`) | none, a conversion | `credentialForSave`, `diskCredential.credential` | what was saved is loaded again, with the same lifetime and teams |
| Windows replacement (`tokenstore/file_windows.go`) | deadline and timer of a retry | `retryCredentialFileWith` | waits for others to let go of the file, and not for ever |
| SSO login (`client.go`, `poll.go`) | the session: poll secret, expiry, selected team | `Start`, `PollOnce`, `Await`, `Authenticate` | ends by its deadline, accepts nothing after it, keeps to the selected team, comes back no sooner than it was told |
| browser login (`pkce.go`, `oidc.go`) | a loopback listener, state, verifier, nonce | `Start*`, `Wait`, `Authenticate*`, `Refresh*`, `Revoke*` | redeems only its own code; releases its port on every path |
| device login (`oidc_device.go`) | device code, interval, deadline | `AuthenticateOIDCDevice` | polls no faster than it was told; ends |
| credential (`types.go`, `jwt.go`) | none, a value | `Expiry`, `Fresh`, `Validate` | fresh only with the safety margin before the earliest end |
| authenticator (`authenticator.go`, `binder.go`) | the bindings, fixed | `Apply`, `RoundTrip` | all headers are replaced or none; what it sends has not ended |
| exec source (`source_exec.go`) | a child process, its output, a context with a timeout | `Credential` | ends in bounded time; takes whole output only |
| static, environment and file sources (`source.go`, `source_env.go`, `source_file.go`) | none | `Credential` | fail closed: the lifetime they give is the configured one or the key's |
| base URLs, options, errors | none | normalization, rendering | - |

### How they interact

An `Authenticator` calls a `Source` for each of its bindings. An SSO source calls
`Client.Authenticate`, which calls back to the program (`OnSession`, `OnEvent`,
`SelectTeam`) and polls the proxy. A refreshing source calls `CredentialStore`
(usually the credential file) and `Client.Refresh`, which posts the refresh
token to the token endpoint of the proxy or of the identity provider.
`print-token` does the same as the refreshing source in a process of its own,
*without* its semaphore; `login` runs one of the four login flows and saves;
`logout` revokes and deletes. The processes share the file and the endpoint and
nothing else. A browser is the other party of a browser login: it calls the
loopback listener back, when and as often as it likes.

### What is hard

- goroutines share a login or a renewal, and any of them may be cancelled;
- a login outlives the `Invalidate` that was meant to discard it;
- refresh tokens rotate: a token that was presented twice, or whose successor
  was not saved, ends the session;
- processes read, renew and replace one file with no lock between them;
- a kill or a crash between the system calls of `Save`, in a directory it may have
  made itself;
- three clocks (request timeout, session, caller's context) race the answer of
  a server and callbacks of any duration;
- late, repeated or foreign callbacks at a registered loopback port;
- a helper that hangs, is killed, or leaves children behind that hold its output;
- on Windows, others hold the file while it is to be replaced or opened;
- the credential file is written by one version and read by another, and its
  timestamps are decimal numbers with a sign of their own;
- credentials age while the next one is acquired.

`PROJECT.json` lists each of these hazards at its line, with the properties that
would catch it.

## Modules

A module `X` is the model, `MCX` its instance for TLC, `X_proofs` its theorems; those
about `FileStore` and `Commands` are together in `CredentialFile_proofs`, those about
`DeviceLogin` and `BrowserLogin` in `Logins_proofs`. Where two models share a module
of theorems the names that both would use are told apart (`pc` is `at` in `Commands`
and `stage` in `BrowserLogin`).
A critical section, a system call, a request or a callback is one action; the
code between two of them that touches only local variables belongs to the action
before it. Names are those of the code.

### SSOSource

`SSOSource.Credential` and `Invalidate`. The fields `s.cached`, `s.inFlight`,
`s.generation` are variables; `closed` holds the channels that were closed. Each
section under `s.mu` is one action (`ReturnCached`, `Join`, `Lead`, `Publish`,
`Invalidate`); `LoginReturns` stands for `client.Authenticate` with the
validation after it, `WakeUp` and `GiveUp` for the two cases of the `select`. A
call leads at most once, so logins, channels and credentials are named by
calls. `LoginPanics` is a panic of a callback: no `defer` resets `s.inFlight`,
and the liveness properties say exactly what that costs. `Expire` makes a
credential stop being `Fresh` at any moment.

### RenewedStore, RefreshingSource

`RefreshingSource.Credential`, one action per step from the first `Load` to
`Save`; `slots` is the number of elements in the channel `s.refresh`. The token
endpoint is external: `live` is the refresh token it honours, `Issue` decides
whether it rotates it, `RefreshIsLost` is a renewal of which nothing useful
came back. `Save` succeeds, fails, or replaces the file and fails
(`SaveFailsLate`, which is what `syncDirectory` can cause).
`RenewedStore` is the promise to everyone else who looks at the store: the
credential is replaced only when stale, only by one that was never there.

### CredentialRegister, FileStore

`FileStore` takes `Save` apart into system calls on a POSIX file system: prepare
the directory, create a temporary file, encode, sync, close, rename, sync the
directory. `path` is what the credential file names now, `onDisk` what it may name after a crash
(the directory entries since the last directory sync), `synced` the files whose
content survives a crash. `Kill` stops a process without running deferred code;
`Crash` stops all of them and picks a surviving state. All failures of `Save`
before the rename have one effect (the deferred removal of the temporary file),
so they are one action. `directory` says whether the credential directory is there
and whether it is durable: one that `preparePrivateDirectory` makes is `"made"` and
never synced into its parent, so that a crash may take it (`DirectoryIsLost`) and
everything in it; a directory found there by the first crash or at the start is
`"durable"`. `CredentialRegister` is the promise: a register with
atomic, possibly failing operations, from which a crash takes away at most what
no successful `Save` has confirmed. A register that is not `firm` - its directory
is not durable - may also be empty after a crash, even if a `Save` succeeded.

### Commands

`print-token`, `login`, `logout` and `import-token` as processes over one file (by
`CredentialRegister` a register) and one endpoint. An import saves one fresh
credential without a refresh token, whatever the file held. Each credential has a kind:
of the proxy (rotating, revocable), of an identity provider that rotates or
keeps refresh tokens, or without a token. A PKCE login makes the proxy forget older
tokens: those of the same user, so any subset of the proxy's live tokens
(`replaced` in `LoginFlow`; `pkce.go:39-41`). `overtaken` is a history variable: the
credentials whose token was replaced in this way before they were saved.

`EndsEarly` is any error before a command has changed anything (one that has not read
the file yet just stays `idle`); a process that is killed between its refresh and its
save, and a login whose last reply is lost, have the effect of `CommandSaveFails`, and
`CommandSaveFailsLate` is a `Save` that has replaced the file and cannot sync the
directory. `print-token` accepts what `client.Refresh` returns even if it is not
fresh, as the code does. A `logout` that has revoked a token is at `delete`, one
that had none to revoke, or no client to revoke it with, at `unrevoked`.

### Authenticate

`Start`, `OnSession` and the loop of `Await`, with a clock. `Verdict` is
`awaitDeadline`; `StartExpiry` is `startExpiry`, with a proxy that does not say
`expires_in`. Time passes in requests, waits and callbacks, and the caller's
context is cancelled or reaches its deadline at any point. What an answer to a
poll means is left to `PollAnswer`. `header` is the `Retry-After` of the error
that is to be retried: it is kept while `OnEvent` runs and read against the clock
only then (`retryDelay`). `notBefore` is a history variable: the time the proxy
asked for, fixed when its answer arrived. The context that `Await` derives for
`SelectTeam` ends on this clock exactly when `awaitDeadline` says so, so it has
no variable of its own.

### LoginSession

What both of the logins that are polled promise their caller: opened with an end that
does not move, over once, with a result while the session and the caller's context
last or else with a verdict that says truly which of them ended. `Blames` states that
by the clock and the deadlines and not as the code computes it. `Authenticate`
implements it with no result that may be late: an error of the proxy or of a callback
that comes after the end is reported as the end. `DeviceLogin` implements it with
three that may: `Late` names the results for which `AuthenticateOIDCDevice` does not
look at the clock; see [Observations](#observations).

### PollAnswer

Pure operators over an answer, a record of what the code tells apart: transport,
status code, `Retry-After`, how far the body can be read, its status, whether it
asks for a selection, whether it has a key, its team and its lists of teams.
`Retryable`, `Pending`, `Selection`, `Ready` and `Refused` are the classes that
`PollOnce` and `readyPollResult` sort it into; `RetryDelay` reads a header, in
integers of the width `MaxInt`. `Authenticate` extends it: every answer of the
set `Answers` may come at any poll.

### BrowserLogin

`AuthenticatePKCE`, `AuthenticateOIDC` and `loginFlow`'s `auto`, for several
logins that share `RedirectPorts`. `holder` says whose listener is bound to a
port, `outcomes` is the buffered channel of `Wait` (capacity one; the handler's
`select` with `default` drops what does not fit), `codeOf` the login whose code
is being redeemed. `Callback` is the browser: once a URL was shown it may
redirect to its port at any time and any number of times, and is served by
whoever listens there, also while the code of an earlier one is redeemed: `Wait`
shuts its server down only when it returns.

### DeviceLogin

The loop of `AuthenticateOIDCDevice` with a clock: `interval` with
`nextDeviceInterval`, `deadline`, the request timeout. `asked` and `answered`
are history variables: what the provider has asked for, added up by the model
and not by the code under test, and when the last poll was answered.

### ExecSource

One run of a helper. `written` and `buffered` count the bytes written to the pipe
and those taken from it. `ReadFrom` is the copying goroutine: `io.Copy` calls the
`ReadFrom` that `limitedBuffer` has from the `bytes.Buffer` it embeds, and not its
`Write`, so that nothing is cut and `overflow` is never set; there is no variable for
it. `pc` is where `Cmd.Run` is: waiting for the process (`running`) or for the end of
its output (`draining`). `watch` is what `os/exec` knows of the context: `cause` when
it killed the helper for it. `heirs` are processes that inherited the output and hold
the pipe after the helper is gone; `DelayEnds` is `WaitDelay`. `os/exec` is
external, modelled from what `source_exec.go` relies on: the wait delay runs from
the end of the context or from the exit of the helper, whichever is first.

### StoredCredential, WindowsStore

`StoredCredential` is the conversion between a credential and the file: `ToFile`
(`credentialForSave`), `FromFile` and `MayLoad` (`diskCredential.credential`).
`TimestampNumber` and `NumberTimestamp` write and read a time as sign, whole
seconds and fraction; `ParseTeams` merges the list of IDs with the list of details
by a fold of `AddTeam`.

`WindowsStore` is a `Save` followed by a `Load` of it, or a `Load` of a file of another
origin, around the loop of `retryCredentialFileWith`: its head (`GivesUp`, `Tries`),
the answer to an attempt (`FailsInUse`, `Fails`, `Replaces`, `Opens`), the look at the
time after it (`TimeIsUp`, `Waits`) and the end of the wait (`TimerFires`,
`WaitIsCut`). The clock counts at each of these points: an attempt may take
any time, also past the deadline, and after an attempt or a timer the program goes
on no more than `Late` later, so that it may find the deadline passed in either of
the two places that look at it. `held` is how other programs hold the file, `Answer`
what Windows then says to a rename or an open; a rename retries also what may be a
permission. `clearSince` is a history variable: since when nobody is in the way. The
rest of `Save` and `Load` is one action before the retries (`Encode`, `Open`) and one
after (`Replaces`, `Decode`): what happens between the system calls is `FileStore`'s.

### CredentialLifetime, Authenticator

`CredentialLifetime` translates `Expiry`, `Fresh` and `Validate` over records
that keep what lifetimes depend on: method, `IssuedAt`, `ExpiresAt`, the `exp`
claim of a key that is a JWT, `NonExpiring`. All text checks are one verdict.
`FromSource` is `credentialFromSource`, by which the static, environment, file and
exec sources give a key its lifetime; `MayConfigure` and `ConfigOf` are the options
of `import-token`.
`Authenticator` is `Apply`: the loop that acquires, the clone, the loop that
binds, the replacement; and the `RoundTripper`, which gives `Apply` a clone of
its own. Sources return any credential after any time. A header's value is the
binding whose credential it carries, so that two binders of one header can be
told apart.

## Runs

All passing runs explore every reachable state. `CHECK_DEADLOCK FALSE` is set
everywhere because every system here may stop: all calls have returned and the
bounded environment has nothing left to do. That nobody is stuck before that is
what the liveness properties say.

| run | states | what it asks |
|---|---|---|
| `sso_source` | 103,145 | `SingleFlight`, `OneFreshLoginPerGeneration`: no second login while one runs or its result is fresh. `NoLoginFromBeforeInvalidate`. `EveryCallReturns`, `CancelledCallReturns`: nobody waits for ever, except - until their context ends - those who wait for a login that panicked |
| `refreshing_source` | 137,260 | `NeverPresentsDeadToken` (unless a rotation never reached the store), `SavedBeforeUse`, `EveryCallReturns`, and refinement: `ReplacesOnlyStale` |
| `file_store` | 382,186 | `NeverTorn`, `NoRollbackPastSave`, `NoStrayTemp`, and refinement: `ActsAsRegister` |
| `windows_store` | 591,240 | `SavedIsLoadable`, `SecondSaveChangesNothing`: what the file keeps of a credential. `NoticesRelease`, `EveryCallReturns`: the retries neither give up too early nor miss a file that came free nor go on for ever |
| `commands` | 7,509,120 | `NoDeadTokenLeft` when all commands have ended, nothing failed half-way and the save was not overtaken by a login; `PrintsSavedAndFresh`: what is printed was saved, and is fresh or just renewed; `LogoutRevokesWhatItDeletes`, unless another command has replaced it |
| `authenticate` | 263,502 | `CredentialInTime`, `NothingBegunTooLate`, `BlamesTheRightDeadline`: the deadlines. `PollsNotBeforeAsked`: `Retry-After`. `CredentialForSelectedTeam`. `AuthenticateReturns`, and refinement: `ActsAsSession` |
| `device_login` | 48,038 | `PollsSpacedOut`, `DeviceLoginReturns`, and refinement: `ActsAsSession` |
| `browser_login` | 221,051 | `RedeemsOwnCode`, `FirstCallbackCounts`, `ListenersHeldExactly`, `FallsBackBeforeSession`, `EveryLoginEnds` |
| `exec_source` | 8,286 | `WholeOutputOnly`: what may become a credential. `EndsWithinTwoTimeouts`, `CredentialReturns` |
| `authenticator` | 518,108 | `AllOrNothing`; `MarginCoversApply`: a credential acquired no longer than the safety margin ago has not ended |
| `parallel_rotation_is_missed`, `helper_output_is_unbounded` | violations | see [Findings](#findings) |

Type invariants are proved and listed by no run; `WindowsStore` has none of its own,
what its proofs need is in `RetryInv` and `ContentInv`.

### Bounds

- `SSOSource`: three calls (a leader, a waiter, a late caller who leads next) and
  `MaxInvalidations = 1`. A login can be overtaken by the invalidation, and a
  second login can start before the first has ended. A second invalidation
  meets the same three situations; the proofs cover any number of both.
- `RefreshingSource`: three calls, so that one waits while another renews and a
  third arrives later; each credential ages independently.
- `FileStore`: two saves, two loads, a delete, `MaxCrashes = 2`. Two saves
  interleave; the second crash finds what the first one left. The directory is there
  at first or not.
- `WindowsStore`: `RetryFor = 5` with waits of 2, so that the last wait is cut, and
  `Late = 1`, which is what tells the two checks of the deadline from each other.
  `MaxTime = 8` bounds the clock while an attempt goes on, past the deadline of a `Save`
  or of a `Load` after a short one; elsewhere the clock runs `RetryFor + Late` further.
  Others take and release the file only around the one credential in `Contended`, for
  its `Save` and its `Load`: what a file contains makes no difference to the retries. A
  second has 4 ticks, and times lie on whole seconds and beside them, before and
  after the epoch, inside and past what the format can write. The kinds of lifetime
  are combined with each other, and so are lists of up to two teams.
- `Commands`: two `print-token`, a `login`, a `logout`, an `import-token`, once each.
  Conflicts here are between a command and one other that overtakes it, or
  between two renewals and a third command.
- `Authenticate`: `MaxTime = 6` lies beyond every session (`MaxWait = 4`); a
  session is cut by `MaxWait`, shorter than it, or of unsaid length; the request
  timeout is longer than what may be left of a session; a `Retry-After` is
  longer than any session; the caller's deadline is before, at or after the
  end. Two teams, one more than a wrong selection needs. Integers end at
  `MaxInt = 7` and a second has two ticks: a `Retry-After` of 4 does not fit into a
  `Duration`, one of 9 into no integer; dates are past or future, near or far.
- `DeviceLogin`: `MaxTime = 14` lies beyond the longest code (9) plus a request (3);
  intervals of 1 and 3 with steps of 2 give waits shorter than, equal to and
  cut at the deadline.
- `BrowserLogin`: two logins, two ports: they compete for one, take one after the
  other, or run side by side.
- `ExecSource`: a limit of 2 bytes and 4 to write and to read, in pieces: output ends
  below the limit, at it or above it. `Timeout = 3`, and the clock runs one past
  twice that, which is past every timer.
- `Authenticator`: two bindings of one header or of two, credentials that are
  issued or end at 2 or 4 on a clock up to 3, a margin of 1, a lifetime of 3. An
  `Apply` shorter and one longer than the margin occur, as do credentials issued
  in the future and keys whose `exp` contradicts `ExpiresAt`.

Symmetry (calls of a kind are interchangeable) is used only where no liveness
property is checked.

## Fairness

Weak fairness is assumed of what the program does by itself, never of the user,
the proxy's good will or the end of a context.

- `SSOSource`, `RefreshingSource`: of each call's own steps. The Go scheduler runs
  every runnable goroutine; `sync.Mutex` does not starve one; `Authenticate` is
  bounded by its session, requests by `RequestTimeout`, and file operations
  end. Nothing is assumed of `Cancel`, `Expire` and `Invalidate`. That a waiter
  for the semaphore gets its turn needs only weak fairness here, because every
  call passes once.
- `Authenticate`, `DeviceLogin`: of the clock, and of the steps that are the
  program's own: an expired request returns, a timer fires, a callback returns.
  No answer of the server is assumed.
- `ExecSource`: of the clock and of what `os/exec` and the code do by themselves: a
  timer fires, a killed process is waited for. The helper and its children need
  not write, exit or close anything.
- `WindowsStore`: of the clock and of the program's steps, which include that Windows
  answers an attempt. Nobody need let go of the file.
- `BrowserLogin`: of each login's steps, and of the end of its `MaxWait` timer. The
  browser may never call back.

## Proofs

Every safety property that a passing run checks, and every refinement, is proved for
every value of the constants: any number of callers, processes, logins, saves,
crashes, teams, bindings, bytes, any times. Each proof has the same shape: an
inductive invariant, a conjunction of named parts; the initial states satisfy it; one
step per action of the next-state relation shows that it is kept; and it implies the
property. Before they were proved the invariants were checked by TLC on the instances
of the runs. The assumptions are the named `ASSUME`s of the modules, which TLC
evaluates in the runs: names are distinct, times and bounds are natural numbers,
contents are those of a `Credential` or of a decoded file.

- **SSOSource_proofs.** None of the properties is inductive. `LeaderInv` says that
  `s.inFlight` names exactly the call between setting it and clearing it, which
  gives `SingleFlight` and, with `WaiterInv`, `NoLostWakeup` (a waiter's channel is
  closed or will be: proved only; the run asks for `EveryCallReturns`). `GenerationInv` orders
  the generations that calls have seen and `CacheInv` keeps the cache in the
  current one; `NoLoginFromBeforeInvalidate` follows action by action.
  `FreshInv` says that a fresh published login of the current generation *is* the
  cached one, which is why no leader can produce a second.
- **RefreshingSource_proofs.** `OneRefresher` ties the count of the semaphore to the
  calls inside it. `HeldInv`: what the caller inside holds after `Reload` is what the
  store holds, and stays so. `StoreInv`: everything stored before the current
  credential is stale. `LiveInv`: until a rotation is lost the store carries the
  live token, except while its successor is being saved. `StoreSteps` says what
  a step does to the store, and `Implements` follows from it: every step maps to `Age`,
  `Renew` or a stutter. `OneRefresher` and `OneFreshCredential` are
  stated and proved here and not listed by the run, whose properties depend on them.
- **CredentialFile_proofs**, about `FileStore`. `PastInv`: whatever `path` has named
  was synced and complete by
  then and is never written again, and a crash brings back only such files.
  `CallInv` follows a file through its `Save`, `OutdatedInv` keeps what a
  successful `Save` replaced out of `onDisk`, `TempInv` bounds the temporary files a
  crash may leave, and `DirectoryInv` says that without a directory there is nothing in
  it and no `Save` under way. `Implements` maps the system calls to `BeginSave`, `Write`,
  `AckSave`, `Read`, `AckLoad`, `Remove`, `Fail`, `Die`, `Restart` or a stutter; `firm`
  is that the directory is durable, and what is `Recoverable` includes the loss of one
  that is not.
- **CredentialFile_proofs**, about `Commands`. `NoDeadTokenLeft` speaks of states in
  which every command has ended and is far from inductive. `HoldingInv` says that a
  process holds its own credential or one that has been in the file; `UnsavedInv`
  that nobody else can have its own before it has saved it; `TokenInv` that a
  rotating token belongs to one credential only. Together they give `SaveInv`: what a
  process is about to save is alive, since no other process can have presented its
  token, or was overtaken by a login. `LeftInv` is the heart: unless something failed
  half-way, a dead token in the file that was not overtaken belongs to a moment at which
  some process has yet to save or delete. When all have ended there is none, which is
  `NoDeadTokenLeft`. `RevokedInv` keeps a revoked token dead (`SavedStays`) until the
  `logout` deletes the file, which gives `LogoutRevokesWhatItDeletes`. `PrintsSavedAndFresh` is
  an action property that follows from `HoldingInv`.
- **Authenticate_proofs.** The lemma `VerdictMeaning` says what each result of
  `awaitDeadline` means for the clock and the contexts; `SelectionInv` ties
  `asked`, `teamID` and the control state together. `NothingBegunTooLate` is an
  action property proved from the same invariant. `WaitsWithinSession` (no request
  or wait is given longer than the session lasts) is part of the invariant and
  proved; no run lists it, since a breach of it shows there as one of
  `AuthenticateReturns`. `AskedInv` is what `PollsNotBeforeAsked` needs: while
  `OnEvent` runs, the header kept in `header` was read at some time before; the
  wait that follows reaches to what it asked for, or to the end of the session. The
  lemma `DelayReaches` shows that of `retryDelay`, for integers of any width. The assumption
  is that a session is not longer than a `Duration` can say. `Implements` maps the
  login to `LoginSession`; its lemma is `VerdictBlames`, which needs `ContextInv`: a
  context that ended of its deadline did so after it.
- **Logins_proofs**, about `DeviceLogin`. `SpacingInv`: the interval the code keeps is the one the
  provider asked for, and a wait reaches over all of it or to the deadline, at which
  no further poll is made. `PollsSpacedOut` is an action property proved from it. `Implements`
  and `VerdictBlames` are the counterparts of those of `Authenticate`.
- **Logins_proofs**, about `BrowserLogin`. `ListenersHeldExactly`, `RedeemsOwnCode` and
  `FirstCallbackCounts` are parts of one invariant, since a callback is served by
  whoever holds the port. `ServedInv` relates the channel of `Wait` to the first
  callback that was served, and says that a code in it is the login's own; `ShownInv`
  that a login whose URL was shown is past the point where it could fall back.
- **ExecSource_proofs.** `ProcessInv` says
  what `pc` and `watch` tell of the process, and `TimeInv` that each of the two timers is
  set within one timeout of the start of what it limits; `EndsWithinTwoTimeouts`
  and `WholeOutputOnly` follow.
- **WindowsStore_proofs.** `RetryInv` follows `deadline`, the timer and the history
  `clearSince` through the loop and gives `NoticesRelease`: after an attempt that failed
  the file has been free at most since its answer, after a wait at most one wait and
  `Late` longer, and the program sees the deadline `Late` after that. The rest is about
  contents:
  - `TimestampsSurvive`: every time but the epoch is read back as it was written, by
    the division lemmas `Division` and `Written`; from it `LoadedAsFresh`, for all
    credentials that `Storable` admits.
  - `parseTeams` is a fold over two lists of any length. `FoldTable` shows that the
    fold has the table of results one expects, by the least length at which it would
    not (`Least`); `AddTeamFacts` is one step of it. `ParsedTeams` says what comes
    out: each team that the file names, once, with an alias that the file gives it, and
    without one only if it gives none; `Adds` and `Merges` carry both through the fold.
    `Reparsed`: a list that came out is a fixed point of writing and parsing.
  - `ContentInv` says where the file and the loaded credential come from.
    `SavedIsLoadableHolds` then follows from `SavedMayLoad` (what `Save` accepts passes
    the checks of `Load`), `LoadedAsFresh` and `SavedTeams`;
    `SecondSaveChangesNothingHolds` from `LoadedAgain`, for a file of any origin.
- **Authenticator_proofs.** `ExpiryIsEarliest` is the lemma about the arithmetic;
  `AcquiredInv` carries the margin from each acquisition to the end of `Apply`;
  `HeaderInv` says which headers the clone has so far, and `BoundByOneMore` is the
  step of the loop that binds. `ImportsEnd` is a theorem about `import-token` and
  `credentialFromSource`: an imported credential is fresh only within every end that
  its options or its key state, and one that states none is fresh only if it was
  declared non-expiring.

## Findings

Two places where the code does not do what a document or a comment of the
repository says, each with a run that shows it:

1. **A parallel rotation can be missed** (`ParallelRotationIsSeen`): after a rejected
   refresh `print-token` loads the file once more, because another `print-token`
   may have rotated the token (`cli.go:389`). If that other process has its new
   credential but has not saved it yet, the first fails with
   `ErrRefreshRejected` although the session is alive.
2. **The output of a helper is not bounded** (`OutputIsBounded`): `SECURITY.md:30-32`
   claims "bounded execution time and output". The limit is in `limitedBuffer.Write`
   (`source_exec.go:192`), but the embedded `bytes.Buffer` (`:187`) also brings
   `ReadFrom`, which `io.Copy` of `os/exec` prefers: `Write` is not called, `overflow`
   (`:127`) stays false, and output of any length is kept and decoded. The test of an
   oversized output (`source_exec_test.go:37`) passes because what it writes is no JSON.

### Observations

Met while modelling, visible in the modules, and not the subject of a run:

- A device login can return its credential after its deadline: the deadline is not
  checked after a poll that succeeds, and does not limit the poll's request
  (`oidc_device.go:107-118`), against `options.go:65` ("limits the total duration of one
  login session") and `SECURITY.md:17` ("Session and request deadlines are absolute").
  Without `"credential"` in `Late` the device login would not implement `LoginSession`.
- A `logout` can leave a live token behind: `README.md:276` says that it revokes proxy
  PKCE refresh tokens. It revokes the token it loaded and deletes the file
  (`cli.go:300-313`), which by then may hold the token that a `print-token` has rotated
  to, or that of a new login; nobody revokes that one, and `Logged out.` is printed.
  `LogoutRevokesWhatItDeletes` exempts exactly this.
- `SECURITY.md:19-20` says that `print-token` does not renew or make a network request;
  `cli.go:381-385` does both, and `README.md` describes the renewal.
- `startExpiry` applies `MaxWait` to the proxy's `expires_in` and not to the five
  minutes of a proxy that sends none (`client.go:101-104`, against
  `options.go:65`).
- `Save` accepts credentials that `Load` refuses or alters. `Storable` in `WindowsStore` is the
  list: a key near the megabyte that `Load` reads at most (`file.go:22`), an end
  beyond the year 9999 (`file.go:345`), an SSO credential issued at the epoch that
  states no end (`file.go:449`), and an SSO credential declared non-expiring, for
  which `Load` makes up an end (`file.go:280`).
- A `Retry-After` of more seconds than an `int64` holds counts as none
  (`poll.go:292`), while one that only exceeds a `Duration` is waited for.
- A helper is bounded by twice its timeout, not once: `WaitDelay` is as long again
  (`source_exec.go:112`).
- `credentialFromSource` stamps `IssuedAt` at every read. A library source that is
  configured with the SSO method and no lifetime gives a credential that ends a
  day after *every read*.
- A `print-token` that has renewed a credential, or a `login`, saves although a newer
  login has replaced its token at the proxy meanwhile (`cli.go:381-385`, `161`). The file
  then holds a dead token in place of the newer, live one. No document promises
  otherwise; `NoDeadTokenLeft` exempts exactly this (`overtaken`).
- The first `Save` into a directory that it has to make can be lost by a crash after it
  has returned nil: the new directory is not synced into its parent (`file.go:173`,
  `557-572`, against `222`). No document claims durability, and what is lost is a first
  credential: `NoRollbackPastSave` holds all the same.

## Limits

Only model-checked:

- all liveness properties (`EveryCallReturns`, `CancelledCallReturns`,
  `AuthenticateReturns`, `DeviceLoginReturns`, `EveryLoginEnds`, `CredentialReturns`):
  the proof system handles neither fairness nor `ENABLED`;
- the two violations, which are counterexamples and not theorems.

Left out of the modules, and why:

- `s.generation` is a `uint64` that is compared for equality: a wrap would need
  2^64 invalidations during one login;
- a callback of `AuthenticateOptions` that calls `Credential` of the same source
  waits for itself until its context ends; logins in `SSOSource` end by
  themselves;
- a refresh token ends of itself at the proxy some time after its issue; in `Commands`
  it ends by rotation, revocation or a newer login only;
- in `ExecSource` timers are punctual and scheduling takes no time; in `WindowsStore`
  the program is late by at most `Late`, and others may hold the file at any moment;
- `Delete` does not sync the directory, so that a crash may bring the file back:
  `CredentialRegister` allows it, since nothing in the code promises otherwise;
- the interval of a device login overflows a `time.Duration` only if the provider
  asks for 292 years;
- timers and `c.now` read one clock; a clock that jumps is not modelled;
- a custom binder writes what it likes into its clone; `Authenticator` models the
  header binders of `binder.go` and failures of any;
- contents of messages: the parsing and validation of the proxy's and the
  provider's answers decide *which* answer it is, and the models take every
  possibility; for polls `PollAnswer` has the decision itself, without the order and the
  aliases of the teams, and the answer to `Start` is an `expires_in` or none.
  Cryptographic checks (state, PKCE, `id_token`) are reduced to what they decide;
- `StoredCredential`: numbers with an exponent, the smallest `int64`, and the zero time
  of year 1 as a time of its own; fields that are copied as they are;
- `ExecSource`: which environment variables reach the helper, and the JSON of its
  output, which is valid or not;
- reading standard input, a variable or a file is success or failure; these reads
  keep no state.

Not modelled: base URLs (`url.go`, `internal/baseurl`), a pure normalization of
text; options, errors and the wiring of the commands, which build values once and
render messages.

## Plan

What could come next, in order of importance:

1. `Commands` over the `FileStore` register rather than a variable.
2. What `ParseTeams` does to the order of the teams, which no code depends on yet.

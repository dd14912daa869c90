--------------------------- MODULE Authenticator ---------------------------
(***************************************************************************)
(* Authenticator.Apply and the RoundTripper around it: the credentials of  *)
(* all bindings are acquired, one source after the other, then a clone of  *)
(* the request is given a header for each, and only then do the new        *)
(* headers replace the old ones.  A source may take any time (a login, a   *)
(* helper process), so that a credential ages while the next is acquired.  *)
(*                                                                         *)
(* A header's value is the number of the binding whose credential it is.   *)
(***************************************************************************)
EXTENDS CredentialLifetime

CONSTANTS
    N,         \* the number of bindings
    Headers,   \* the names of request headers
    Original,  \* what the caller had put in a header
    Times,     \* the times a credential may carry
    MaxTime    \* bound on the clock

Bindings == 1 .. N

ASSUME BindingsAssumption ==
    /\ N \in Nat \ {0}
    /\ Original \notin Bindings
ASSUME ClockAssumption == Times \subseteq Int /\ MaxTime \in Nat

Credentials == CredentialsOver(Times)

VARIABLES
    headerOf,    \* the header each binding's binder sets
    via,         \* Apply is called directly, or by the RoundTripper
    now,         \* a.now()
    pc,          \* which loop of Apply runs, or how it ended
    index,       \* the loop's index
    credentials, \* the local variable credentials, as far as it is filled
    caller,      \* the header of the caller's request
    request,     \* the header of the request given to Apply
    clone,       \* the header of Apply's clone
    acquiredAt   \* history: when each credential was acquired

vars == <<headerOf, via, now, pc, index, credentials, caller, request, clone,
          acquiredAt>>

setup == <<headerOf, via>>

headerVars == <<caller, request, clone>>
sourceVars == <<credentials, acquiredAt>>

HeaderMaps == [Headers -> Bindings \cup {Original}]
Untouched == [h \in Headers |-> Original]

TypeOK ==
    /\ headerOf \in [Bindings -> Headers]
    /\ via \in {"apply", "transport"}
    /\ now \in Nat
    /\ pc \in {"acquire", "bind", "applied", "sent", "failed"}
    /\ index \in 1 .. N + 1
    /\ credentials \in [Bindings -> Credentials]
    /\ caller \in HeaderMaps /\ request \in HeaderMaps /\ clone \in HeaderMaps
    /\ acquiredAt \in [Bindings -> 0 .. now]

\* Go's zero Credential.
NoCredential ==
    [method |-> "", text |-> "noHeader", origin |-> "same",
     nonExpiring |-> FALSE, issuedAt |-> NoTime, expiresAt |-> NoTime,
     jwtExp |-> NoTime]

\* NewAuthenticator copies the bindings: nobody changes them later.
Init ==
    /\ headerOf \in [Bindings -> Headers]
    /\ via \in {"apply", "transport"}
    /\ now = 0
    /\ pc = "acquire"
    /\ index = 1
    /\ credentials = [b \in Bindings |-> NoCredential]
    /\ caller = Untouched /\ request = Untouched /\ clone = Untouched
    /\ acquiredAt = [b \in Bindings |-> 0]

---------------------------------------------------------------------------
\* Mutant: a credential is used to its last moment.
AcceptsUnexpired(c) ==
    /\ c.method # "" /\ Validates(c) /\ c.origin # "other"
    /\ ~c.nonExpiring => now < Expiry(c)

\* What Apply asks of a credential: a method, validity, the origin of the
\* request if it names one, and freshness.
Accepts(c) ==
    /\ c.method # "" /\ Validates(c) /\ c.origin # "other"
    /\ Fresh(c, now)

Fails ==
    /\ pc' = "failed"
    /\ UNCHANGED <<setup, now, index, sourceVars, headerVars>>

\* binding.Source.Credential returns a credential that Apply accepts.
Acquire(c) ==
    /\ pc = "acquire" /\ index <= N
    /\ Accepts(c)
    /\ credentials' = [credentials EXCEPT ![index] = c]
    /\ acquiredAt' = [acquiredAt EXCEPT ![index] = now]
    /\ index' = index + 1
    /\ UNCHANGED <<setup, now, pc, headerVars>>

\* The source fails, or its credential is not accepted.
AcquireFails ==
    /\ pc = "acquire" /\ index <= N
    /\ Fails

\* request.Clone, once every credential has been acquired.
Clone ==
    /\ pc = "acquire" /\ index > N
    /\ clone' = request
    /\ pc' = "bind"
    /\ index' = 1
    /\ UNCHANGED <<setup, now, sourceVars, caller, request>>

\* Mutant: the binder is given the request itself.
BindInPlace ==
    /\ pc = "bind" /\ index <= N
    /\ request' = [request EXCEPT ![headerOf[index]] = index]
    /\ clone' = request'
    /\ caller' = IF via = "apply" THEN request' ELSE caller
    /\ index' = index + 1
    /\ UNCHANGED <<setup, now, pc, sourceVars>>

\* binding.Binder.Bind sets its header in the clone.
Bind ==
    /\ pc = "bind" /\ index <= N
    /\ clone' = [clone EXCEPT ![headerOf[index]] = index]
    /\ index' = index + 1
    /\ UNCHANGED <<setup, now, pc, sourceVars, caller, request>>

\* A binder, which may be the caller's own, fails; the clone is dropped.
BindFails ==
    /\ pc = "bind" /\ index <= N
    /\ Fails

\* request.Header = clone.Header
Replace ==
    /\ pc = "bind" /\ index > N
    /\ request' = clone
    /\ caller' = IF via = "apply" THEN clone ELSE caller
    /\ pc' = "applied"
    /\ UNCHANGED <<setup, now, index, sourceVars, clone>>

\* The RoundTripper, which gave Apply a clone, sends it.
Send ==
    /\ pc = "applied" /\ via = "transport"
    /\ pc' = "sent"
    /\ UNCHANGED <<setup, now, index, sourceVars, headerVars>>

\* Sources and binders take time.
Tick ==
    /\ pc \in {"acquire", "bind"}
    /\ now < MaxTime
    /\ now' = now + 1
    /\ UNCHANGED <<setup, pc, index, sourceVars, headerVars>>

Next ==
    \/ \E c \in Credentials : Acquire(c)
    \/ AcquireFails \/ Clone \/ Bind \/ BindFails \/ Replace \/ Send \/ Tick

Spec == Init /\ [][Next]_vars

---------------------------------------------------------------------------
\* The first n bindings have set their headers in the header map m, in order:
\* where two set the same one the later binding wins, and no other is touched.
BoundBy(m, n) ==
    \A h \in Headers :
        \/ m[h] = Original /\ \A b \in 1 .. n : headerOf[b] # h
        \/ /\ m[h] \in 1 .. n /\ headerOf[m[h]] = h
           /\ \A b \in 1 .. n : headerOf[b] = h => b <= m[h]

\* The headers of a request are the caller's until Apply has succeeded with
\* every binding, and then those of all bindings: no failure of a source or a
\* binder leaves some of them behind, and the RoundTripper never changes the
\* caller's request (authenticator.go:50, 74-86, 121-134).
AllOrNothing ==
    /\ request # Untouched => pc \in {"applied", "sent"}
    /\ pc \in {"applied", "sent"} => BoundBy(request, N)
    /\ caller = IF via = "apply" THEN request ELSE Untouched

\* When each credential ends for those who check it: by the proxy's word or by
\* the token's own.
Ends(c) == {c.expiresAt, c.jwtExp} \ {NoTime}

\* A credential that was acquired no longer than the safety margin ago has not
\* ended when the request is ready, though others may have been acquired since
\* (jwt.go:18-39, authenticator.go:69-71).
MarginCoversApply ==
    pc \in {"applied", "sent"} =>
        \A b \in Bindings :
            now <= acquiredAt[b] + Skew =>
                \A end \in Ends(credentials[b]) : now < end
===========================================================================

------------------------ MODULE Authenticator_proofs ------------------------
(***************************************************************************)
(* Authenticator's safety, for any number of bindings, any headers and any *)
(* times, and what its proof needs to know of a credential's lifetime.     *)
(***************************************************************************)
EXTENDS Authenticator, TLAPS

\* An end that a credential states lies more than the margin after t.
LastsFrom(c, t) == \A end \in Ends(c) : t + Skew < end

\* Every credential acquired so far had the margin left when it was acquired.
AcquiredInv ==
    /\ pc = "acquire" =>
          \A b \in Bindings : b < index => LastsFrom(credentials[b], acquiredAt[b])
    /\ pc \in {"bind", "applied", "sent"} =>
          \A b \in Bindings : LastsFrom(credentials[b], acquiredAt[b])

\* The request is untouched until the clone, which carries the headers of the
\* bindings that the loop has passed, replaces it.
HeaderInv ==
    /\ pc \in {"acquire", "bind", "failed"} => request = Untouched
    /\ pc = "bind" => BoundBy(clone, index - 1)
    /\ pc \in {"applied", "sent"} => BoundBy(request, N)
    /\ caller = IF via = "apply" THEN request ELSE Untouched

Inv == TypeOK /\ AcquiredInv /\ HeaderInv

---------------------------------------------------------------------------
\* The times of a credential are numbers where they are stated.
LEMMA CredentialTimes ==
    ASSUME NEW c \in Credentials
    PROVE  /\ c.expiresAt \in Int \cup {NoTime}
           /\ c.jwtExp \in Int \cup {NoTime}
           /\ c.issuedAt \in Int \cup {NoTime}
  BY ClockAssumption DEF Credentials, CredentialsOver

\* Expiry never says a time later than an end the credential states
\* (jwt.go:47-52).
THEOREM ExpiryIsEarliest ==
    ASSUME NEW c \in Credentials, NEW end \in Ends(c)
    PROVE  /\ Expiry(c) \in Ends(c)
           /\ Expiry(c) <= end
<1>1. /\ c.expiresAt \in Int \cup {NoTime}
      /\ c.jwtExp \in Int \cup {NoTime}
  BY CredentialTimes
<1>2. CASE c.expiresAt # NoTime /\ c.jwtExp # NoTime
  <2>1. Expiry(c) = Sooner(c.jwtExp, c.expiresAt)
    BY <1>2 DEF Expiry
  <2>2. QED
    BY <1>1, <1>2, <2>1 DEF Ends, Sooner
<1>3. CASE c.expiresAt # NoTime /\ c.jwtExp = NoTime
  BY <1>1, <1>3 DEF Ends, Expiry
<1>4. CASE c.expiresAt = NoTime /\ c.jwtExp # NoTime
  BY <1>1, <1>4 DEF Ends, Expiry
<1>5. CASE c.expiresAt = NoTime /\ c.jwtExp = NoTime
  BY <1>5 DEF Ends
<1>6. QED
  BY <1>2, <1>3, <1>4, <1>5

\* An accepted credential has the margin left.
LEMMA AcceptedLasts ==
    ASSUME NEW c \in Credentials, now \in Nat, Accepts(c)
    PROVE  LastsFrom(c, now)
<1> SUFFICES ASSUME NEW end \in Ends(c)
             PROVE  now + Skew < end
  BY DEF LastsFrom
<1>1. Fresh(c, now)
  BY DEF Accepts
<1>2. CASE c.nonExpiring
  BY <1>1, <1>2 DEF Fresh, Ends
<1>3. CASE ~c.nonExpiring
  <2>1. now + Skew < Expiry(c)
    BY <1>1, <1>3 DEF Fresh
  <2>2. Expiry(c) \in Ends(c) /\ Expiry(c) <= end
    BY ExpiryIsEarliest
  <2>3. Expiry(c) \in Int /\ end \in Int
    BY <2>2, CredentialTimes DEF Ends
  <2>4. QED
    BY <2>1, <2>2, <2>3, LifetimeAssumption
<1>4. QED
  BY <1>2, <1>3

\* One more binding sets its header.
LEMMA BoundByOneMore ==
    ASSUME NEW m \in HeaderMaps, headerOf \in [Bindings -> Headers],
           NEW n \in Bindings, BoundBy(m, n - 1)
    PROVE  BoundBy([m EXCEPT ![headerOf[n]] = n], n)
<1> DEFINE new == [m EXCEPT ![headerOf[n]] = n]
<1>0. n \in Nat /\ n >= 1 /\ N \in Nat
  BY BindingsAssumption DEF Bindings
<1> SUFFICES ASSUME NEW h \in Headers
             PROVE  \/ new[h] = Original /\ \A b \in 1 .. n : headerOf[b] # h
                    \/ /\ new[h] \in 1 .. n /\ headerOf[new[h]] = h
                       /\ \A b \in 1 .. n : headerOf[b] = h => b <= new[h]
  BY DEF BoundBy
<1>1. CASE h = headerOf[n]
  <2>1. new[h] = n
    BY <1>1 DEF HeaderMaps
  <2>2. QED
    BY <1>0, <1>1, <2>1
<1>2. CASE h # headerOf[n]
  <2>1. new[h] = m[h]
    BY <1>2 DEF HeaderMaps
  <2>2. \A b \in 1 .. n : headerOf[b] = h => b \in 1 .. n - 1
    BY <1>0, <1>2
  <2>3. \A b \in 1 .. n - 1 : b \in 1 .. n
    BY <1>0
  <2>4. \/ m[h] = Original /\ \A b \in 1 .. n - 1 : headerOf[b] # h
        \/ /\ m[h] \in 1 .. n - 1 /\ headerOf[m[h]] = h
           /\ \A b \in 1 .. n - 1 : headerOf[b] = h => b <= m[h]
    BY DEF BoundBy
  <2>5. QED
    BY <2>1, <2>2, <2>3, <2>4
<1>3. QED
  BY <1>1, <1>2

---------------------------------------------------------------------------
LEMMA InvInitially == Init => Inv
<1> SUFFICES ASSUME Init PROVE Inv
  OBVIOUS
<1>0. N \in Nat /\ N >= 1 /\ 1 \in 1 .. N + 1
  BY BindingsAssumption
<1>1. NoCredential \in Credentials
  BY DEF NoCredential, Credentials, CredentialsOver, Methods, Texts, Origins
<1>2. TypeOK
  BY <1>0, <1>1 DEF Init, TypeOK, HeaderMaps, Untouched, Bindings
<1>3. AcquiredInv
  BY <1>0 DEF Init, AcquiredInv, Bindings
<1>4. HeaderInv
  BY DEF Init, HeaderInv
<1>5. QED
  BY <1>2, <1>3, <1>4 DEF Inv

LEMMA InvInductive == Inv /\ [Next]_vars => Inv'
<1> SUFFICES ASSUME Inv, [Next]_vars PROVE Inv'
  OBVIOUS
<1> USE DEF setup, sourceVars, headerVars
<1>0. N \in Nat /\ N >= 1 /\ index \in Nat
  BY BindingsAssumption DEF Inv, TypeOK
<1>f. ASSUME pc \in {"acquire", "bind"}, Fails PROVE Inv'
  BY <1>f DEF Fails, Inv, TypeOK, AcquiredInv, HeaderInv
<1>1. ASSUME NEW c \in Credentials, Acquire(c) PROVE Inv'
  <2>1. index \in Bindings /\ index + 1 \in 1 .. N + 1
    BY <1>0, <1>1 DEF Acquire, Inv, TypeOK, Bindings
  <2>2. TypeOK'
    BY <1>1, <2>1 DEF Acquire, Inv, TypeOK
  <2>3. LastsFrom(c, now)
    BY <1>1, AcceptedLasts DEF Acquire, Inv, TypeOK
  <2>4. AcquiredInv'
    <3> SUFFICES ASSUME NEW b \in Bindings, b < index + 1
                 PROVE  LastsFrom(credentials'[b], acquiredAt'[b])
      BY <1>1, <2>1 DEF Acquire, AcquiredInv, LastsFrom, Ends
    <3>1. CASE b = index
      BY <1>1, <2>3, <3>1 DEF Acquire, Inv, TypeOK
    <3>2. CASE b # index
      <4>1. b < index
        BY <1>0, <3>2 DEF Bindings
      <4>2. credentials'[b] = credentials[b] /\ acquiredAt'[b] = acquiredAt[b]
        BY <1>1, <3>2 DEF Acquire, Inv, TypeOK
      <4>3. QED
        BY <1>1, <4>1, <4>2 DEF Acquire, Inv, AcquiredInv
    <3>3. QED
      BY <3>1, <3>2
  <2>5. HeaderInv'
    BY <1>1 DEF Acquire, Inv, HeaderInv
  <2>6. QED
    BY <2>2, <2>4, <2>5 DEF Inv
<1>2. CASE AcquireFails
  BY <1>2, <1>f DEF AcquireFails
<1>3. CASE Clone
  <2>1. \A b \in Bindings : b < index
    BY <1>0, <1>3 DEF Clone, Bindings
  <2>2. AcquiredInv'
    BY <1>3, <2>1 DEF Clone, Inv, AcquiredInv, LastsFrom, Ends
  <2>3. BoundBy(Untouched, 0)
    BY DEF BoundBy, Untouched
  <2>4. QED
    BY <1>0, <1>3, <2>2, <2>3
       DEF Clone, Inv, TypeOK, HeaderInv, BoundBy
<1>4. CASE Bind
  <2>1. index \in Bindings /\ index + 1 \in 1 .. N + 1
        /\ (index + 1) - 1 = index
    BY <1>0, <1>4 DEF Bind, Inv, TypeOK, Bindings
  <2>2. BoundBy(clone', index)
    BY <1>4, <2>1, BoundByOneMore DEF Bind, Inv, TypeOK, HeaderInv
  <2>3. TypeOK'
    BY <1>4, <2>1 DEF Bind, Inv, TypeOK, HeaderMaps
  <2>4. AcquiredInv'
    BY <1>4 DEF Bind, Inv, AcquiredInv, LastsFrom, Ends
  <2>5. HeaderInv'
    BY <1>4, <2>1, <2>2 DEF Bind, Inv, HeaderInv, BoundBy
  <2>6. QED
    BY <2>3, <2>4, <2>5 DEF Inv
<1>5. CASE BindFails
  BY <1>5, <1>f DEF BindFails
<1>6. CASE Replace
  <2>1. index - 1 = N
    BY <1>0, <1>6 DEF Replace, Inv, TypeOK
  <2>2. HeaderInv'
    BY <1>6, <2>1 DEF Replace, Inv, HeaderInv, BoundBy
  <2>3. QED
    BY <1>6, <2>2 DEF Replace, Inv, TypeOK, AcquiredInv, LastsFrom, Ends
<1>7. CASE Send
  BY <1>7 DEF Send, Inv, TypeOK, AcquiredInv, HeaderInv, BoundBy, LastsFrom, Ends
<1>8. CASE Tick
  <2>1. acquiredAt \in [Bindings -> 0 .. now + 1]
    BY DEF Inv, TypeOK
  <2>2. QED
    BY <1>8, <2>1
       DEF Tick, Inv, TypeOK, AcquiredInv, HeaderInv, BoundBy, LastsFrom, Ends
<1>9. CASE UNCHANGED vars
  BY <1>9
     DEF vars, Inv, TypeOK, AcquiredInv, HeaderInv, BoundBy, LastsFrom, Ends
<1>10. QED
  BY <1>1, <1>2, <1>3, <1>4, <1>5, <1>6, <1>7, <1>8, <1>9 DEF Next

LEMMA InvHolds == Spec => []Inv
  BY InvInitially, InvInductive, PTL DEF Spec

---------------------------------------------------------------------------
\* The state of an Apply keeps its types (authenticator.go:51-87).
THEOREM TypeCorrect == Spec => []TypeOK
<1>1. Inv => TypeOK
  BY DEF Inv
<1>2. QED
  BY <1>1, InvHolds, PTL

\* For any bindings the headers are replaced all together or not at all, and
\* the RoundTripper leaves its caller's request alone (authenticator.go:74-86,
\* 121-134).
THEOREM AllOrNothingHolds == Spec => []AllOrNothing
<1>1. Inv => AllOrNothing
  BY DEF Inv, TypeOK, HeaderInv, AllOrNothing
<1>2. QED
  BY <1>1, InvHolds, PTL

\* For any lifetimes the safety margin covers an Apply that is no longer than
\* it (jwt.go:18-39, authenticator.go:69-71).
THEOREM MarginCoversApplyHolds == Spec => []MarginCoversApply
<1>1. ASSUME Inv PROVE MarginCoversApply
  <2> SUFFICES ASSUME pc \in {"applied", "sent"}, NEW b \in Bindings,
                      now <= acquiredAt[b] + Skew,
                      NEW end \in Ends(credentials[b])
               PROVE  now < end
    BY DEF MarginCoversApply
  <2>1. acquiredAt[b] + Skew < end
    BY <1>1 DEF Inv, AcquiredInv, LastsFrom
  <2>2. acquiredAt[b] \in Int /\ now \in Int /\ end \in Int /\ Skew \in Int
    BY <1>1, CredentialTimes, LifetimeAssumption DEF Inv, TypeOK, Ends
  <2>3. QED
    BY <2>1, <2>2
<1>2. QED
  BY <1>1, InvHolds, PTL

---------------------------------------------------------------------------
\* What is imported with a TTL is not fresh once that is over, whatever end its key
\* states; and what is imported without any lifetime is accepted only if its key
\* states one: SECURITY.md:27-28 says that credentials "fail closed when their
\* expiry is unknown" (import_token.go:187-214, source.go:35-61, jwt.go:19-64).
THEOREM ImportsEnd ==
    ASSUME NEW options \in [expiresAt : Int \cup {NoTime}, ttl : Int \cup {NoTime},
                            nonExpiring : BOOLEAN],
           NEW key \in [text : Texts, jwtExp : Int \cup {NoTime}],
           NEW start \in Int, NEW moment \in Int,
           MayConfigure(options),
           Fresh(FromSource(ConfigOf(options, start), key, start), moment)
    PROVE  /\ options.ttl # NoTime => moment + Skew < start + options.ttl
           /\ options.expiresAt # NoTime => moment + Skew < options.expiresAt
           /\ key.jwtExp # NoTime => moment + Skew < key.jwtExp
           /\ options.nonExpiring \/ options.ttl # NoTime \/ options.expiresAt # NoTime
                 \/ key.jwtExp # NoTime
<1> DEFINE c == FromSource(ConfigOf(options, start), key, start)
<1>1. /\ c.method = "other" /\ c.nonExpiring = options.nonExpiring
      /\ c.jwtExp = key.jwtExp
      /\ c.expiresAt = IF options.ttl = NoTime THEN options.expiresAt
                       ELSE start + options.ttl
  BY DEF FromSource, ConfigOf
<1>2. /\ options.expiresAt \in Int \cup {NoTime} /\ options.ttl \in Int \cup {NoTime}
      /\ key.jwtExp \in Int \cup {NoTime} /\ NoTime \notin Int /\ Skew \in Int
  BY LifetimeAssumption
<1>3. options.ttl # NoTime => c.expiresAt \in Int /\ c.expiresAt = start + options.ttl
                              /\ options.expiresAt = NoTime
  BY <1>1, <1>2 DEF MayConfigure
<1>4. options.ttl = NoTime => c.expiresAt = options.expiresAt
  BY <1>1
<1>5. c.expiresAt \in Int \cup {NoTime} /\ c.jwtExp \in Int \cup {NoTime}
  BY <1>1, <1>2, <1>3, <1>4
<1>6. Fresh(c, moment)
  OBVIOUS
<1> HIDE DEF c
<1>7. CASE options.nonExpiring
  <2>1. c.expiresAt = NoTime /\ c.jwtExp = NoTime
    BY <1>1, <1>6, <1>7 DEF Fresh
  <2> QED
    BY <1>1, <1>2, <1>3, <1>4, <1>7, <2>1
<1>8. CASE ~options.nonExpiring
  <2>1. Expiry(c) # NoTime /\ moment + Skew < Expiry(c)
    BY <1>1, <1>6, <1>8 DEF Fresh
  <2>2. CASE c.expiresAt # NoTime /\ c.jwtExp # NoTime
    <3>1. Expiry(c) = Sooner(c.jwtExp, c.expiresAt)
      BY <2>2 DEF Expiry
    <3>2. moment + Skew < c.jwtExp /\ moment + Skew < c.expiresAt
      BY <1>2, <1>5, <2>1, <2>2, <3>1 DEF Sooner
    <3> QED
      BY <1>1, <1>3, <1>4, <2>2, <3>2
  <2>3. CASE c.expiresAt # NoTime /\ c.jwtExp = NoTime
    <3>1. Expiry(c) = c.expiresAt
      BY <2>3 DEF Expiry
    <3> QED
      BY <1>1, <1>3, <1>4, <2>1, <2>3, <3>1
  <2>4. CASE c.expiresAt = NoTime /\ c.jwtExp # NoTime
    <3>1. Expiry(c) = c.jwtExp
      BY <2>4 DEF Expiry
    <3> QED
      BY <1>1, <1>2, <1>3, <1>4, <2>1, <2>4, <3>1
  <2>5. CASE c.expiresAt = NoTime /\ c.jwtExp = NoTime
    BY <1>1, <2>1, <2>5 DEF Expiry
  <2> QED
    BY <2>2, <2>3, <2>4, <2>5
<1> QED
  BY <1>7, <1>8
===========================================================================

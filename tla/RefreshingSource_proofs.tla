---------------------- MODULE RefreshingSource_proofs ----------------------
(***************************************************************************)
(* RefreshingSource's safety, and that it implements RenewedStore, for     *)
(* every set of calls.                                                     *)
(***************************************************************************)
EXTENDS RefreshingSource, TLAPS

\* A call that compares and refreshes holds what the store holds; the store
\* cannot move while the semaphore is taken, and is stale once a refresh is
\* under way.  What waits to be saved has not been in the store.
HeldInv ==
    \A c \in Calls :
        /\ pc[c] \in {"check", "acquire"} => held[c] \in stored
        /\ pc[c] \in {"recheck", "refresh"} => held[c] = store /\ store # Nothing
        /\ pc[c] = "refresh" => store \in stale /\ tokenOf[store] # Nothing
        /\ pc[c] = "save" => held[c] = c /\ store \in stale
        /\ pc[c] # "returned" => c \notin stored

\* The stored credential is the last of those that have been stored, and all
\* earlier ones are stale.
StoreInv ==
    /\ store = Nothing => stored = {}
    /\ store # Nothing => store \in stored
    /\ \A n \in stored : n # store => n \in stale

\* Until a rotated token is lost, the stored credential carries the token the
\* endpoint honours, except while its successor, which then carries it, is
\* being saved.
LiveInv ==
    ~lost =>
        /\ \/ store = Nothing
           \/ tokenOf[store] \in {Nothing, live}
           \/ \E c \in Calls : pc[c] = "save"
        /\ \A c \in Calls :
              pc[c] = "save" =>
                  /\ tokenOf[c] = live
                  /\ tokenOf[c] # c => tokenOf[store] = live

Inv ==
    /\ TypeOK
    /\ OneRefresher
    /\ HeldInv
    /\ StoreInv
    /\ LiveInv
    /\ SavedBeforeUse

---------------------------------------------------------------------------
\* The steps of Inv's induction: one per action, and one per conjunct it can
\* disturb.  Only the holder of the semaphore reaches the store or the endpoint,
\* so every step inside it is compared with the store as it is now.
LEMMA InvInductive == Inv /\ [Next]_vars => Inv'
<1> SUFFICES ASSUME Inv, [Next]_vars PROVE Inv'
  OBVIOUS
<1> USE NothingAssumption DEF Inv, TypeOK, Inside, Outside, Credentials, Fresh,
        GoTo, Return, Release, storeVars, issuerVars
<1>1. ASSUME NEW c \in Calls, Begin(c) PROVE Inv'
  <2>1. TypeOK'
    BY <1>1 DEF Begin
  <2>2. OneRefresher'
    BY <1>1 DEF Begin, OneRefresher
  <2>3. HeldInv' /\ StoreInv' /\ SavedBeforeUse'
    BY <1>1 DEF Begin, OneRefresher, HeldInv, StoreInv, SavedBeforeUse
  <2>4. LiveInv'
    BY <1>1 DEF Begin, OneRefresher, HeldInv, StoreInv, LiveInv
  <2>5. QED
    BY <2>1, <2>2, <2>3, <2>4
<1>2. ASSUME NEW c \in Calls, Load(c) PROVE Inv'
  <2>1. TypeOK'
    BY <1>2 DEF Load
  <2>2. OneRefresher'
    BY <1>2 DEF Load, OneRefresher
  <2>3. HeldInv' /\ StoreInv' /\ SavedBeforeUse'
    BY <1>2 DEF Load, OneRefresher, HeldInv, StoreInv, SavedBeforeUse
  <2>4. LiveInv'
    BY <1>2 DEF Load, OneRefresher, HeldInv, StoreInv, LiveInv
  <2>5. QED
    BY <2>1, <2>2, <2>3, <2>4
<1>3. ASSUME NEW c \in Calls, Check(c) PROVE Inv'
  <2>1. TypeOK'
    BY <1>3 DEF Check
  <2>2. OneRefresher'
    BY <1>3 DEF Check, OneRefresher
  <2>3. HeldInv' /\ StoreInv' /\ SavedBeforeUse'
    BY <1>3 DEF Check, OneRefresher, HeldInv, StoreInv, SavedBeforeUse
  <2>4. LiveInv'
    BY <1>3 DEF Check, OneRefresher, HeldInv, StoreInv, LiveInv
  <2>5. QED
    BY <2>1, <2>2, <2>3, <2>4
<1>4. ASSUME NEW c \in Calls, Acquire(c) PROVE Inv'
  <2>1. TypeOK'
    BY <1>4 DEF Acquire, MayAcquire
  <2>2. OneRefresher'
    BY <1>4 DEF Acquire, MayAcquire, OneRefresher
  <2>3. HeldInv' /\ StoreInv' /\ SavedBeforeUse'
    BY <1>4 DEF Acquire, MayAcquire, OneRefresher, HeldInv, StoreInv,
           SavedBeforeUse
  <2>4. LiveInv'
    BY <1>4 DEF Acquire, MayAcquire, OneRefresher, HeldInv, StoreInv, LiveInv
  <2>5. QED
    BY <2>1, <2>2, <2>3, <2>4
<1>5. ASSUME NEW c \in Calls, GiveUp(c) PROVE Inv'
  <2>1. TypeOK'
    BY <1>5 DEF GiveUp
  <2>2. OneRefresher'
    BY <1>5 DEF GiveUp, OneRefresher
  <2>3. HeldInv' /\ StoreInv' /\ SavedBeforeUse'
    BY <1>5 DEF GiveUp, OneRefresher, HeldInv, StoreInv, SavedBeforeUse
  <2>4. LiveInv'
    BY <1>5 DEF GiveUp, OneRefresher, HeldInv, StoreInv, LiveInv
  <2>5. QED
    BY <2>1, <2>2, <2>3, <2>4
<1>6. ASSUME NEW c \in Calls, Reload(c) PROVE Inv'
  <2>1. TypeOK'
    BY <1>6 DEF Reload
  <2>2. OneRefresher'
    BY <1>6 DEF Reload, OneRefresher
  <2>3. HeldInv' /\ StoreInv' /\ SavedBeforeUse'
    BY <1>6 DEF Reload, OneRefresher, HeldInv, StoreInv, SavedBeforeUse
  <2>4. LiveInv'
    BY <1>6 DEF Reload, OneRefresher, HeldInv, StoreInv, LiveInv
  <2>5. QED
    BY <2>1, <2>2, <2>3, <2>4
<1>7. ASSUME NEW c \in Calls, Recheck(c) PROVE Inv'
  <2>1. TypeOK'
    BY <1>7 DEF Recheck
  <2>2. OneRefresher'
    BY <1>7 DEF Recheck, OneRefresher
  <2>3. HeldInv' /\ StoreInv' /\ SavedBeforeUse'
    BY <1>7 DEF Recheck, OneRefresher, HeldInv, StoreInv, SavedBeforeUse
  <2>4. LiveInv'
    BY <1>7 DEF Recheck, OneRefresher, HeldInv, StoreInv, LiveInv
  <2>5. QED
    BY <2>1, <2>2, <2>3, <2>4
<1>8. ASSUME NEW c \in Calls, RefreshSucceeds(c) PROVE Inv'
  <2>1. TypeOK' /\ OneRefresher'
    BY <1>8 DEF RefreshSucceeds, Issue, OneRefresher
  <2>2. HeldInv'
    BY <1>8 DEF RefreshSucceeds, Issue, OneRefresher, HeldInv, StoreInv
  <2>3. StoreInv' /\ SavedBeforeUse'
    BY <1>8 DEF RefreshSucceeds, Issue, HeldInv, StoreInv, SavedBeforeUse
  <2>4. LiveInv'
    BY <1>8 DEF RefreshSucceeds, Issue, OneRefresher, HeldInv, StoreInv,
           LiveInv
  <2>5. QED
    BY <2>1, <2>2, <2>3, <2>4
<1>9. ASSUME NEW c \in Calls, RefreshIsLost(c) PROVE Inv'
  <2>1. TypeOK' /\ OneRefresher'
    BY <1>9 DEF RefreshIsLost, Issue, OneRefresher
  <2>2. HeldInv' /\ StoreInv' /\ SavedBeforeUse'
    BY <1>9 DEF RefreshIsLost, Issue, OneRefresher, HeldInv, StoreInv,
           SavedBeforeUse
  <2>3. LiveInv'
    <3> SUFFICES ASSUME ~lost' PROVE LiveInv'
      BY DEF LiveInv
    <3>1. ~lost /\ live' = live
      BY <1>9 DEF RefreshIsLost
    <3>2. PICK token \in {live, c} :
            live' = token /\ tokenOf' = [tokenOf EXCEPT ![c] = token]
      BY <1>9 DEF RefreshIsLost, Issue
    <3>3. store # c
      BY <1>9 DEF RefreshIsLost, HeldInv, StoreInv
    <3>4. \A d \in Calls : pc[d] # "save" /\ pc'[d] # "save"
      BY <1>9 DEF RefreshIsLost, OneRefresher
    <3>5. QED
      BY <1>9, <3>1, <3>2, <3>3, <3>4 DEF RefreshIsLost, LiveInv
  <2>4. QED
    BY <2>1, <2>2, <2>3
<1>10. ASSUME NEW c \in Calls, RefreshFails(c) PROVE Inv'
  <2>1. TypeOK'
    BY <1>10 DEF RefreshFails
  <2>2. OneRefresher'
    BY <1>10 DEF RefreshFails, OneRefresher
  <2>3. HeldInv' /\ StoreInv' /\ SavedBeforeUse'
    BY <1>10 DEF RefreshFails, OneRefresher, HeldInv, StoreInv, SavedBeforeUse
  <2>4. LiveInv'
    BY <1>10 DEF RefreshFails, OneRefresher, HeldInv, StoreInv, LiveInv
  <2>5. QED
    BY <2>1, <2>2, <2>3, <2>4
<1>11. ASSUME NEW c \in Calls, SaveSucceeds(c) PROVE Inv'
  <2>1. TypeOK'
    BY <1>11 DEF SaveSucceeds, HeldInv
  <2>2. OneRefresher'
    BY <1>11 DEF SaveSucceeds, OneRefresher, HeldInv
  <2>3. HeldInv'
    BY <1>11 DEF SaveSucceeds, OneRefresher, HeldInv, StoreInv
  <2>4. StoreInv'
    BY <1>11 DEF SaveSucceeds, HeldInv, StoreInv
  <2>5. LiveInv'
    BY <1>11 DEF SaveSucceeds, OneRefresher, HeldInv, StoreInv, LiveInv
  <2>6. SavedBeforeUse'
    BY <1>11 DEF SaveSucceeds, HeldInv, StoreInv, SavedBeforeUse
  <2>7. QED
    BY <2>1, <2>2, <2>3, <2>4, <2>5, <2>6
<1>12. ASSUME NEW c \in Calls, SaveFailsLate(c) PROVE Inv'
  <2>1. TypeOK'
    BY <1>12 DEF SaveFailsLate, HeldInv
  <2>2. OneRefresher'
    BY <1>12 DEF SaveFailsLate, OneRefresher, HeldInv
  <2>3. HeldInv'
    BY <1>12 DEF SaveFailsLate, OneRefresher, HeldInv, StoreInv
  <2>4. StoreInv'
    BY <1>12 DEF SaveFailsLate, HeldInv, StoreInv
  <2>5. LiveInv'
    BY <1>12 DEF SaveFailsLate, OneRefresher, HeldInv, StoreInv, LiveInv
  <2>6. SavedBeforeUse'
    BY <1>12 DEF SaveFailsLate, HeldInv, StoreInv, SavedBeforeUse
  <2>7. QED
    BY <2>1, <2>2, <2>3, <2>4, <2>5, <2>6
<1>13. ASSUME NEW c \in Calls, SaveFails(c) PROVE Inv'
  <2>1. TypeOK' /\ OneRefresher'
    BY <1>13 DEF SaveFails, OneRefresher
  <2>2. HeldInv' /\ StoreInv' /\ SavedBeforeUse'
    BY <1>13 DEF SaveFails, OneRefresher, HeldInv, StoreInv, SavedBeforeUse
  <2>3. LiveInv'
    <3> SUFFICES ASSUME ~lost' PROVE LiveInv'
      BY DEF LiveInv
    <3>1. ~lost /\ tokenOf[held[c]] # held[c]
      BY <1>13 DEF SaveFails
    <3>2. held[c] = c
      BY <1>13 DEF SaveFails, HeldInv
    <3>3. tokenOf[store] = live
      BY <1>13, <3>1, <3>2 DEF SaveFails, LiveInv
    <3>4. \A d \in Calls : pc'[d] # "save"
      BY <1>13 DEF SaveFails, OneRefresher
    <3>5. QED
      BY <1>13, <3>3, <3>4 DEF SaveFails, LiveInv
  <2>4. QED
    BY <2>1, <2>2, <2>3
<1>14. ASSUME NEW c \in Calls, Cancel(c) PROVE Inv'
  <2>1. /\ TypeOK' /\ OneRefresher' /\ HeldInv'
        /\ StoreInv' /\ LiveInv' /\ SavedBeforeUse'
    BY <1>14 DEF Cancel, OneRefresher, HeldInv, StoreInv, LiveInv,
           SavedBeforeUse
  <2>2. QED
    BY <2>1
<1>15. ASSUME NEW n \in Credentials, Expire(n) PROVE Inv'
  <2>1. TypeOK' /\ OneRefresher'
    BY <1>15 DEF Expire, OneRefresher
  <2>2. HeldInv' /\ StoreInv' /\ LiveInv' /\ SavedBeforeUse'
    BY <1>15 DEF Expire, HeldInv, StoreInv, LiveInv, SavedBeforeUse
  <2>3. QED
    BY <2>1, <2>2
<1>16. CASE UNCHANGED vars
  BY <1>16 DEF vars, OneRefresher, HeldInv, StoreInv, LiveInv, SavedBeforeUse
<1>17. QED
  BY <1>1, <1>2, <1>3, <1>4, <1>5, <1>6, <1>7, <1>8, <1>9, <1>10, <1>11,
     <1>12, <1>13, <1>14, <1>15, <1>16 DEF Next, Step

\* Inv holds of every reachable state.
LEMMA InvHolds == Spec => []Inv
<1>1. Init => Inv
  <2> SUFFICES ASSUME Init PROVE Inv
    OBVIOUS
  <2> USE NothingAssumption DEF Init, Inside, Outside, Credentials
  <2>1. TypeOK
    BY DEF TypeOK
  <2>2. OneRefresher /\ HeldInv /\ SavedBeforeUse
    BY DEF OneRefresher, HeldInv, SavedBeforeUse
  <2>3. StoreInv /\ LiveInv
    BY DEF StoreInv, LiveInv
  <2>4. QED
    BY <2>1, <2>2, <2>3 DEF Inv
<1>2. QED
  BY <1>1, InvInductive, PTL DEF Spec

---------------------------------------------------------------------------
\* The types of the source's fields and of its calls' local variables.
THEOREM TypeCorrect == Spec => []TypeOK
<1>1. Inv => TypeOK
  BY DEF Inv
<1>2. QED
  BY <1>1, InvHolds, PTL

\* One call at a time holds the right to refresh, and the channel holds its
\* token exactly when none does (source_refresh.go:85-90).
THEOREM OneRefresherHolds == Spec => []OneRefresher
<1>1. Inv => OneRefresher
  BY DEF Inv
<1>2. QED
  BY <1>1, InvHolds, PTL

\* Until a rotation is lost, no refresh presents a token the endpoint has
\* forgotten (source_refresh.go:92-103).
THEOREM NeverPresentsDeadTokenHolds == Spec => []NeverPresentsDeadToken
<1>1. Inv => NeverPresentsDeadToken
  <2> SUFFICES ASSUME Inv, NEW c \in Calls, pc[c] = "refresh", ~lost
               PROVE  tokenOf[held[c]] = live
    BY DEF NeverPresentsDeadToken
  <2>1. held[c] = store /\ store # Nothing /\ tokenOf[store] # Nothing
    BY DEF Inv, HeldInv
  <2>2. \A d \in Calls : pc[d] # "save"
    BY DEF Inv, OneRefresher, Inside
  <2>3. QED
    BY <2>1, <2>2 DEF Inv, LiveInv
<1>2. QED
  BY <1>1, InvHolds, PTL

\* A renewed credential is in the store before any caller has it
\* (source_refresh.go:113-116).
THEOREM SavedBeforeUseHolds == Spec => []SavedBeforeUse
<1>1. Inv => SavedBeforeUse
  BY DEF Inv
<1>2. QED
  BY <1>1, InvHolds, PTL

\* Callers that meet the same stale credential renew it once
\* (source_refresh.go:92-98).
THEOREM OneFreshCredentialHolds == Spec => []OneFreshCredential
<1>1. Inv => OneFreshCredential
  BY DEF Inv, StoreInv, OneFreshCredential, Fresh
<1>2. QED
  BY <1>1, InvHolds, PTL

\* What one step does to the store and to what is known of it: a save that
\* reaches the store puts the call's own new credential in place of a stale one,
\* time passes for one credential, and nothing else touches them
\* (source_refresh.go:93-113).
LEMMA StoreSteps ==
  ASSUME Inv, [Next]_vars
  PROVE  \/ \E c \in Credentials : Abstract!Renew(c)
         \/ \E n \in Credentials : Abstract!Age(n)
         \/ UNCHANGED <<store, stale, stored>>
<1> DEFINE Saves(c) == SaveSucceeds(c) \/ SaveFailsLate(c)
           Asks(c) == \/ Begin(c) \/ Load(c) \/ Check(c) \/ Acquire(c)
                      \/ GiveUp(c) \/ Reload(c) \/ Recheck(c) \/ Cancel(c)
           Renews(c) == \/ SaveFails(c) \/ RefreshFails(c)
                        \/ RefreshIsLost(c) \/ RefreshSucceeds(c)
<1>split. \/ UNCHANGED vars
          \/ \E n \in Credentials : Expire(n)
          \/ \E c \in Calls : Saves(c) \/ Asks(c) \/ Renews(c)
  BY DEF Next, Step
<1>save. ASSUME NEW c \in Calls, Saves(c)
         PROVE  c \in Credentials /\ Abstract!Renew(c)
  <2>mine. held[c] = c /\ c \notin stored /\ store \in stale
    BY <1>save DEF SaveSucceeds, SaveFailsLate, Inv, HeldInv
  <2> QED
    BY <1>save, <2>mine
    DEF Credentials, Abstract!Renew, SaveSucceeds, SaveFailsLate, storeVars,
        issuerVars
<1>age. ASSUME NEW n \in Credentials, Expire(n)
        PROVE  Abstract!Age(n)
  BY <1>age DEF Abstract!Age, Expire, storeVars, issuerVars
<1>ask. ASSUME NEW c \in Calls, Asks(c)
        PROVE  UNCHANGED <<store, stale, stored>>
  BY <1>ask
  DEF Begin, Load, Check, Acquire, GiveUp, Reload, Recheck, Cancel, storeVars,
      issuerVars
<1>renew. ASSUME NEW c \in Calls, Renews(c)
          PROVE  UNCHANGED <<store, stale, stored>>
  BY <1>renew
  DEF SaveFails, RefreshFails, RefreshIsLost, RefreshSucceeds, storeVars,
      issuerVars
<1>still. UNCHANGED vars => UNCHANGED <<store, stale, stored>>
  BY DEF vars
<1> HIDE DEF Saves, Asks, Renews
<1> QED
  BY <1>split, <1>save, <1>age, <1>ask, <1>renew, <1>still

\* The source implements RenewedStore: it replaces the stored credential only
\* when it is stale, and only by a new one (source_refresh.go:93-113).
THEOREM Implements == Spec => ReplacesOnlyStale
<1>init. Init => Abstract!AbstractInit
  BY DEF Init, Credentials, Abstract!AbstractInit
<1>step. Inv /\ [Next]_vars => [Abstract!AbstractNext]_(Abstract!abstractVars)
  BY StoreSteps DEF Abstract!AbstractNext, Abstract!abstractVars
<1> QED
  BY InvHolds, <1>init, <1>step, PTL
  DEF ReplacesOnlyStale, Abstract!AbstractSpec, Spec
===========================================================================

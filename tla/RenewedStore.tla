--------------------------- MODULE RenewedStore ---------------------------
(***************************************************************************)
(* What a refreshing source promises of its store (source_refresh.go:39-   *)
(* 40, 69): the stored credential is replaced only when it is stale, and   *)
(* only by a credential that was never stored before.  Who renews, how     *)
(* often renewal fails and how callers queue for it is left open.          *)
(***************************************************************************)
CONSTANTS
    Credentials,   \* every credential there may ever be
    NoCredential   \* an empty store

VARIABLES
    store,   \* the stored credential, or NoCredential
    stale,   \* the credentials that are no longer Fresh
    stored   \* every credential that has been in the store

abstractVars == <<store, stale, stored>>

AbstractInit ==
    /\ store \in Credentials \cup {NoCredential}
    /\ stored = {store} \cap Credentials
    /\ stale = {}

\* Time passes, and a credential crosses its expiry.
Age(old) ==
    /\ stale' = stale \cup {old}
    /\ UNCHANGED <<store, stored>>

Renew(new) ==
    /\ store \in stale
    /\ new \notin stored
    /\ store' = new
    /\ stored' = stored \cup {new}
    /\ UNCHANGED stale

AbstractNext == \E n \in Credentials : Age(n) \/ Renew(n)

AbstractSpec == AbstractInit /\ [][AbstractNext]_abstractVars
===========================================================================

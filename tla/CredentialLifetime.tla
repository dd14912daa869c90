------------------------ MODULE CredentialLifetime ------------------------
(***************************************************************************)
(* How long a credential lasts: Credential.Expiry, Fresh and Validate.  A  *)
(* credential may state its end twice, in ExpiresAt and in the exp claim   *)
(* of a key that is a JWT; a LiteLLM SSO credential that states none lasts *)
(* a day from when it was issued; any other must be declared NonExpiring.  *)
(*                                                                         *)
(* Go's zero time and a key without an exp claim are both NoTime.  The     *)
(* text checks of Validate are one verdict, of which Fresh looks at one    *)
(* part: whether an authorization header can be made of the key.           *)
(***************************************************************************)
EXTENDS Integers

CONSTANTS
    NoTime,    \* the zero time.Time
    Lifetime,  \* credentialLifetime
    Skew       \* credentialClockSkew

ASSUME LifetimeAssumption ==
    /\ NoTime \notin Int
    /\ Lifetime \in Nat \ {0} /\ Skew \in Nat

\* "" is the AuthMethod of credential files older than the field; "other"
\* stands for every method but LiteLLM's SSO.
Methods == {"", "sso", "other"}
Texts == {"clean", "noHeader", "control"}
\* "same" is the origin of the request, or none at all.
Origins == {"same", "other"}

\* The credentials whose times are among times.
CredentialsOver(times) ==
    [method : Methods, text : Texts, origin : Origins, nonExpiring : BOOLEAN,
     issuedAt : times \cup {NoTime}, expiresAt : times \cup {NoTime},
     jwtExp : times \cup {NoTime}]

---------------------------------------------------------------------------
Sooner(s, t) == IF s < t THEN s ELSE t

Expiry(c) ==
    CASE c.expiresAt # NoTime /\ c.jwtExp # NoTime ->
            Sooner(c.jwtExp, c.expiresAt)
      [] c.expiresAt # NoTime /\ c.jwtExp = NoTime -> c.expiresAt
      [] c.expiresAt = NoTime /\ c.jwtExp # NoTime -> c.jwtExp
      [] OTHER ->
            IF c.method \in {"", "sso"} /\ c.issuedAt # NoTime
            THEN c.issuedAt + Lifetime ELSE NoTime

\* now may be before IssuedAt only if the key says itself when it ends.
IssuedBy(c, now) ==
    c.issuedAt # NoTime /\ c.jwtExp = NoTime => c.issuedAt <= now

Fresh(c, now) ==
    /\ c.method = "other" => c.text # "noHeader"
    /\ IF c.nonExpiring
       THEN c.expiresAt = NoTime /\ c.jwtExp = NoTime
       ELSE /\ Expiry(c) # NoTime
            /\ IssuedBy(c, now)
            /\ now + Skew < Expiry(c)

\* Validate returns nil.
Validates(c) ==
    /\ c.text = "clean"
    /\ IF c.nonExpiring
       THEN c.expiresAt = NoTime /\ c.jwtExp = NoTime
       ELSE Expiry(c) # NoTime

---------------------------------------------------------------------------
\* import-token: at most one of --expires-at, --ttl and --non-expiring is given,
\* and no TTL that is over at once.
MayConfigure(options) ==
    /\ options.ttl # NoTime => options.ttl > 0 /\ options.expiresAt = NoTime
    /\ options.nonExpiring => options.expiresAt = NoTime /\ options.ttl = NoTime

\* importedSourceConfig
ConfigOf(options, now) ==
    [method |-> "other", nonExpiring |-> options.nonExpiring,
     expiresAt |-> IF options.ttl = NoTime THEN options.expiresAt ELSE now + options.ttl]

\* credentialFromSource, of a key that was read now: the caller's config says how
\* long it lasts, unless the key does so itself.
FromSource(config, key, now) ==
    [method |-> config.method, text |-> key.text, origin |-> "same",
     nonExpiring |-> config.nonExpiring, issuedAt |-> now,
     expiresAt |-> config.expiresAt, jwtExp |-> key.jwtExp]
===========================================================================

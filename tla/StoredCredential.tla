-------------------------- MODULE StoredCredential --------------------------
(***************************************************************************)
(* The content of the credential file: credentialForSave, which FileStore. *)
(* Save encodes, and diskCredential.credential, which Load makes of what   *)
(* it decoded.  A file has the fields of a credential, each as it is       *)
(* written: IssuedAt as a decimal number of seconds, ExpiresAt as RFC 3339 *)
(* text, the teams as a list of IDs and a list of details.  Files of other *)
(* programs, or of older versions, may have any of them absent or wrong.   *)
(*                                                                         *)
(* Times count ticks, Second to the second (nanoseconds in the code), from *)
(* the Unix epoch.  All text is one verdict, as in CredentialLifetime.     *)
(***************************************************************************)
EXTENDS CredentialLifetime, SequencesExt

CONSTANTS
    Second,        \* ticks of a second
    FirstInstant,  \* the times that RFC 3339 can write: years 0 to 9999
    LastInstant,
    Unreadable,    \* a number or a text that does not parse
    NoID,          \* the empty team ID
    NoAlias        \* the empty alias

ASSUME SecondAssumption == Second \in Nat \ {0}
ASSUME InstantsAssumption ==
    /\ FirstInstant \in Int /\ LastInstant \in Int
    /\ Unreadable \notin Int \cup {NoTime}

Times == Int \cup {NoTime}
Numbers == [negative : BOOLEAN, seconds : Nat, fraction : Nat]

ASSUME NumbersAssumption == NoTime \notin Numbers /\ Unreadable \notin Numbers

\* A Credential, and a file that holds the JSON of one: their fields, and what
\* each may be.
HasFields(c) ==
    c = [method |-> c.method, text |-> c.text, origin |-> c.origin,
         nonExpiring |-> c.nonExpiring, issuedAt |-> c.issuedAt,
         expiresAt |-> c.expiresAt, jwtExp |-> c.jwtExp, oversized |-> c.oversized,
         teams |-> c.teams, teamID |-> c.teamID, teamAlias |-> c.teamAlias]

IsList(list) == list \in Seq(Range(list))

AreTeams(teams) ==
    /\ IsList(teams)
    /\ \A i \in DOMAIN teams : teams[i] = [id |-> teams[i].id, alias |-> teams[i].alias]

IsCredential(c) ==
    /\ HasFields(c)
    /\ {c.issuedAt, c.expiresAt, c.jwtExp} \subseteq Times
    /\ AreTeams(c.teams)

IsFile(f) ==
    /\ HasFields(f)
    /\ f.issuedAt \in Numbers \cup {NoTime, Unreadable}
    /\ f.expiresAt \in Times \cup {Unreadable} /\ f.jwtExp \in Times
    /\ IsList(f.teams.ids) /\ AreTeams(f.teams.details)

---------------------------------------------------------------------------
\* A number as written: a sign, whole seconds, and the ticks after the point.
Number(negative, seconds, fraction) ==
    [negative |-> negative, seconds |-> seconds, fraction |-> fraction]

\* Mutant: whole and fractional part of a negative time are written as they are.
TimestampNumberNaive(t) ==
    IF t = NoTime THEN Number(FALSE, 0, 0)
    ELSE LET seconds == t \div Second
         IN  Number(seconds < 0, IF seconds < 0 THEN -seconds ELSE seconds, t % Second)

\* timestampNumber: a time before the epoch is whole seconds down and a fraction
\* up, and is written with one sign for both.
TimestampNumber(t) ==
    IF t = NoTime THEN Number(FALSE, 0, 0)
    ELSE LET seconds == t \div Second
             ticks == t % Second
         IN  IF seconds >= 0 THEN Number(FALSE, seconds, ticks)
             ELSE IF ticks = 0 THEN Number(TRUE, -seconds, 0)
             ELSE Number(TRUE, -(seconds + 1), Second - ticks)

\* numberTimestamp, of a number without an exponent: zero is no time.
NumberTimestamp(number) ==
    LET size == number.seconds * Second + number.fraction
    IN  IF size = 0 THEN NoTime ELSE IF number.negative THEN -size ELSE size

\* parseTimestamp: an absent timestamp is no time.
ParseTimestamp(raw) == IF raw = NoTime THEN NoTime ELSE NumberTimestamp(raw)

\* ExpiresAt formatted; a year of five digits or a negative one cannot be parsed.
FormatTime(t) ==
    IF t = NoTime \/ (FirstInstant <= t /\ t <= LastInstant) THEN t ELSE Unreadable

---------------------------------------------------------------------------
\* An alias counts where there is none yet.
Named(team, alias) == IF team.alias = NoAlias THEN [team EXCEPT !.alias = alias] ELSE team

\* Mutant: a team is added as often as the file names it.
AddTeamAgain(teams, team) == Append(teams, team)

AddTeam(teams, team) ==
    IF \E i \in DOMAIN teams : teams[i].id = team.id
    THEN [i \in DOMAIN teams |->
             IF teams[i].id = team.id THEN Named(teams[i], team.alias) ELSE teams[i]]
    ELSE Append(teams, team)

\* parseTeams: the IDs, then the details, each team once; the selected team may
\* take its alias from the credential's own.
ParseTeams(file) ==
    LET listed == [i \in DOMAIN file.teams.ids |->
                      [id |-> file.teams.ids[i], alias |-> NoAlias]]
        teams == FoldLeft(AddTeam, <<>>, listed \o file.teams.details)
    IN  [i \in DOMAIN teams |->
            IF teams[i].id = file.teamID THEN Named(teams[i], file.teamAlias)
            ELSE teams[i]]

NamesEveryTeam(file) ==
    /\ \A i \in DOMAIN file.teams.ids : file.teams.ids[i] # NoID
    /\ \A i \in DOMAIN file.teams.details : file.teams.details[i].id # NoID

---------------------------------------------------------------------------
\* What credentialForSave accepts; "none" and "invalid" are origins too here.  A
\* credential without an AuthMethod cannot say that it does not expire.
MaySave(c) ==
    /\ c.origin \notin {"none", "invalid"}
    /\ ~(c.method = "" /\ c.nonExpiring)
    /\ Validates(c)
    /\ \A i \in DOMAIN c.teams : c.teams[i].id # NoID

\* credentialForSave
ToFile(c) ==
    [c EXCEPT !.issuedAt = TimestampNumber(c.issuedAt),
              !.expiresAt = FormatTime(c.expiresAt),
              !.teams = [ids |-> [i \in DOMAIN c.teams |-> c.teams[i].id],
                         details |-> c.teams]]

\* diskCredential.credential, of a file it can read.  A file without expires_at
\* gets what Expiry makes of the rest, NonExpiring or not.
FromFile(file) ==
    LET dated == [file EXCEPT !.issuedAt = ParseTimestamp(file.issuedAt),
                              !.teams = ParseTeams(file)]
    IN  [dated EXCEPT !.expiresAt =
            IF file.expiresAt = NoTime THEN Expiry(dated) ELSE file.expiresAt]

\* Load's checks: the size, the base URL, the times, the teams and Validate, which
\* may miss an expiry in a file that is older than AuthMethod.
MayLoad(file) ==
    /\ ~file.oversized
    /\ file.origin # "invalid"
    /\ Unreadable \notin {file.issuedAt, file.expiresAt}
    /\ NamesEveryTeam(file)
    /\ LET c == FromFile(file)
       IN  IF c.method = "" /\ ~c.nonExpiring THEN c.text = "clean" ELSE Validates(c)
=============================================================================

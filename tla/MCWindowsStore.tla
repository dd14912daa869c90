--------------------------- MODULE MCWindowsStore ---------------------------
(***************************************************************************)
(* WindowsStore for TLC.  Times lie around the epoch, on whole seconds of  *)
(* four ticks and beside them, and around LastInstant; the kinds of        *)
(* lifetime are combined with each other, and so are lists of up to two    *)
(* teams, but not the ones with the others.  Imported credentials are what *)
(* import-token makes of its options and a key.  Others take and release   *)
(* the file of one of the credentials only: what is in a file makes no     *)
(* difference to the retries.                                              *)
(***************************************************************************)
EXTENDS WindowsStore

MCMoments == 0..22
MCFirstInstant == -20

Issued == {-5, -4, -1, 0, 1, NoTime}
Plain == [method |-> "other", text |-> "clean", origin |-> "same", nonExpiring |-> FALSE,
          issuedAt |-> 1, expiresAt |-> 9, jwtExp |-> NoTime, oversized |-> FALSE,
          teams |-> <<>>, teamID |-> NoID, teamAlias |-> NoAlias]

Lifetimes ==
    {[Plain EXCEPT !.method = method, !.nonExpiring = forever, !.issuedAt = issued,
                   !.expiresAt = end, !.jwtExp = exp] :
       method \in Methods, forever \in BOOLEAN, issued \in Issued,
       end \in {NoTime, 0, 9, 21}, exp \in {NoTime, 7}}

Team == [id : {"a", "b"}, alias : {"x", NoAlias}]

Teams ==
    {[Plain EXCEPT !.teams = teams, !.teamID = selected, !.teamAlias = "y"] :
       teams \in BoundedSeq(Team, 2) \cup {<<[id |-> NoID, alias |-> "x"]>>},
       selected \in {"a", NoID}}

Others ==
    {[Plain EXCEPT !.oversized = TRUE], [Plain EXCEPT !.text = "control"]} \cup
    {[Plain EXCEPT !.origin = origin] : origin \in {"none", "other", "invalid"}}

Imported ==
    {FromSource(ConfigOf(options, 1), key, 1) @@ Plain :
       options \in {option \in [expiresAt : {NoTime, 9, 21}, ttl : {NoTime, 0, 5},
                                nonExpiring : BOOLEAN] : MayConfigure(option)},
       key \in [text : {"clean"}, jwtExp : {NoTime, 7}]}

MCGiven == Lifetimes \cup Teams \cup Others \cup Imported

IssuedNumbers == {NoTime, Unreadable} \cup
    {Number(negative, seconds, fraction) :
       negative \in BOOLEAN, seconds \in {0, 1}, fraction \in {0, 1}}

Files ==
    {[Plain EXCEPT !.method = method, !.nonExpiring = forever, !.issuedAt = issued,
                   !.expiresAt = end, !.teams = [ids |-> <<>>, details |-> <<>>]] :
       method \in Methods, forever \in BOOLEAN, issued \in IssuedNumbers,
       end \in {NoTime, 9, Unreadable}}

TeamFiles ==
    {[Plain EXCEPT !.issuedAt = NoTime, !.teamID = "a", !.teamAlias = "y",
                   !.teams = [ids |-> ids, details |-> details]] :
       ids \in {<<>>, <<"a">>, <<"b", "a", "b">>, <<NoID>>},
       details \in BoundedSeq(Team, 2)}

MCForeign == Files \cup TeamFiles

MCContended == {Plain}
=============================================================================

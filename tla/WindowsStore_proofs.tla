------------------------ MODULE WindowsStore_proofs ------------------------
(***************************************************************************)
(* Proofs about the credential file's content and its replacement on       *)
(* Windows: the timestamps read back as they were written, a credential    *)
(* that was saved is loaded, as fresh as it was and of the same teams, a   *)
(* second save changes nothing, and the retries last until their deadline  *)
(* and do not overlook that the file has come free.                        *)
(*                                                                         *)
(* Lists of teams are of any length, so what parseTeams computes is proved *)
(* by induction over them.                                                 *)
(***************************************************************************)
EXTENDS WindowsStore, WellFoundedInduction, SequenceTheorems, FiniteSetTheorems,
        TLAPS

(***************************************************************************)
(* Folds.  The library's induction theorems take the predicate as an       *)
(* operator; here its counterexamples are a set, and it has a least one.   *)
(***************************************************************************)

LEMMA Least ==
  ASSUME NEW T \in SUBSET Nat, T # {}
  PROVE  \E n \in T : \A k \in T : n <= k
  <1>1. PICK n \in T : \A k \in T : ~(<<k, n>> \in OpToRel(<, Nat))
    BY NatLessThanWellFounded, WFMin
  <1>2. \A k \in Nat : k < n => <<k, n>> \in OpToRel(<, Nat)
    BY DEF OpToRel
  <1>3. \A k \in T : ~(k < n)
    BY <1>1, <1>2
  <1> QED
    BY <1>3

LEMMA GreatestIsLast ==
  ASSUME NEW k \in Nat, NEW S \in SUBSET (1..k), k \in S
  PROVE  Max(S) = k
  <1>1. \A y \in S : y \in Nat /\ k >= y
    OBVIOUS
  <1>2. \A x \in S : (\A y \in S : x >= y) => x = k
    BY <1>1
  <1> QED
    BY <1>1, <1>2 DEF Max

\* parseTeams, one team after the other: m[k] is what the first k have made.
LEMMA FoldTable ==
  ASSUME NEW s, NEW n \in Nat, DOMAIN s = 1..n
  PROVE  \E m : /\ m[0] = <<>>
                /\ \A k \in 1..n : m[k] = AddTeam(m[k - 1], s[k])
                /\ m[n] = FoldLeft(AddTeam, <<>>, s)
  <1> DEFINE Folded(g, t) ==
               IF t = {} THEN <<>> ELSE AddTeam(g[t \ {Max(t)}], s[Max(t)])
             IsFold(g, N) == g = [t \in SUBSET (1..N) |-> Folded(g, t)]
             T == {N \in Nat : ~(\E g : IsFold(g, N))}
  <1>1. T = {}
    <2> SUFFICES ASSUME T # {} PROVE FALSE
      OBVIOUS
    <2>1. PICK N \in T : \A k \in T : N <= k
      <3>1. T \in SUBSET Nat
        OBVIOUS
      <3> HIDE DEF T
      <3> QED
        BY <3>1, Least
    <2>2. N \in Nat /\ \A g : ~IsFold(g, N)
      BY <2>1
    <2>3. CASE N = 0
      <3> DEFINE g == [t \in SUBSET (1..0) |-> <<>>]
      <3>1. \A t \in SUBSET (1..0) : t = {}
        OBVIOUS
      <3>2. IsFold(g, 0)
        BY <3>1
      <3> QED
        BY <2>2, <2>3, <3>2
    <2>4. CASE N # 0
      <3>1. N - 1 \in Nat
        BY <2>2, <2>4
      <3>2. N - 1 \notin T
        <4> HIDE DEF T
        <4> QED
          BY <2>1, <2>2, <3>1
      <3>3. PICK g : IsFold(g, N - 1)
        BY <3>1, <3>2
      <3> DEFINE h == [t \in SUBSET (1..N) |->
                         IF N \in t THEN AddTeam(g[t \ {N}], s[N]) ELSE g[t]]
      <3>4. ASSUME NEW t \in SUBSET (1..N) PROVE h[t] = Folded(h, t)
        <4>1. CASE N \in t
          <5>1. Max(t) = N
            BY <2>2, <4>1, GreatestIsLast
          <5>2. t \ {N} \in SUBSET (1..N) /\ t \ {N} \in SUBSET (1..N - 1)
            BY <2>2
          <5>3. h[t \ {N}] = g[t \ {N}]
            BY <5>2
          <5> QED
            BY <4>1, <5>1, <5>3
        <4>2. CASE N \notin t
          <5>1. t \in SUBSET (1..N - 1)
            BY <2>2, <4>2
          <5>2. h[t] = Folded(g, t)
            BY <3>3, <4>2, <5>1
          <5>3. t # {} => h[t \ {Max(t)}] = g[t \ {Max(t)}]
            BY <4>2
          <5> QED
            BY <5>2, <5>3
        <4> QED
          BY <4>1, <4>2
      <3>5. IsFold(h, N)
        <4> HIDE DEF Folded
        <4> QED
          BY <3>4
      <3> QED
        BY <2>2, <3>5
    <2> QED
      BY <2>3, <2>4
  <1>2. PICK g : IsFold(g, n)
    BY <1>1
  <1> DEFINE fold == CHOOSE f : IsFold(f, n)
             m == [k \in 0..n |-> fold[1..k]]
  <1>3. IsFold(fold, n)
    BY <1>2
  <1>4. FoldLeft(AddTeam, <<>>, s) = fold[1..n]
    BY DEF FoldLeft, MapThenFoldSet
  <1> HIDE DEF fold
  <1>5. \A t \in SUBSET (1..n) : fold[t] = Folded(fold, t)
    BY <1>3
  <1>6. m[0] = <<>>
    <2>1. 1..0 = {} /\ {} \in SUBSET (1..n)
      OBVIOUS
    <2>2. m[0] = fold[{}]
      BY <2>1
    <2> QED
      BY <1>5, <2>1, <2>2
  <1>7. ASSUME NEW k \in 1..n PROVE m[k] = AddTeam(m[k - 1], s[k])
    <2>1. 1..k \in SUBSET (1..n) /\ 1..k # {} /\ (1..k) \ {k} = 1..(k - 1)
      OBVIOUS
    <2>2. Max(1..k) = k
      <3>1. k \in Nat /\ 1..k \in SUBSET (1..k) /\ k \in 1..k
        OBVIOUS
      <3> QED
        BY <3>1, GreatestIsLast
    <2>3. m[k] = fold[1..k] /\ m[k - 1] = fold[1..(k - 1)]
      OBVIOUS
    <2> QED
      BY <1>5, <2>1, <2>2, <2>3
  <1>8. m[n] = fold[1..n]
    OBVIOUS
  <1> HIDE DEF m
  <1> QED
    BY <1>4, <1>6, <1>7, <1>8

---------------------------------------------------------------------------
Teams(ids, aliases) == [id : ids, alias : aliases]
IDs(teams) == {teams[i].id : i \in DOMAIN teams}
Distinct(teams) == \A i, j \in DOMAIN teams : teams[i].id = teams[j].id => i = j

LEMMA ListIsSeq ==
  ASSUME NEW S, NEW n \in Nat, NEW list \in [1..n -> S]
  PROVE  list \in Seq(S) /\ Len(list) = n
  BY SeqDef

LEMMA SeqIsList ==
  ASSUME NEW S, NEW list \in Seq(S)
  PROVE  Len(list) \in Nat /\ list \in [1..Len(list) -> S] /\ DOMAIN list = 1..Len(list)
  BY LenProperties

LEMMA ListAppend ==
  ASSUME NEW S, NEW n \in Nat, NEW list \in [1..n -> S], NEW e \in S
  PROVE  /\ Append(list, e) \in [1..n + 1 -> S]
         /\ \A i \in 1..n : Append(list, e)[i] = list[i]
         /\ Append(list, e)[n + 1] = e
  <1>1. list \in Seq(S) /\ Len(list) = n
    BY ListIsSeq
  <1>2. /\ Append(list, e) \in Seq(S) /\ Len(Append(list, e)) = n + 1
        /\ \A i \in 1..n : Append(list, e)[i] = list[i]
        /\ Append(list, e)[n + 1] = e
    BY <1>1, AppendProperties
  <1> QED
    BY <1>2, LenProperties

LEMMA ListConcat ==
  ASSUME NEW S, NEW m \in Nat, NEW s \in [1..m -> S],
         NEW n \in Nat, NEW t \in [1..n -> S]
  PROVE  /\ s \o t \in [1..m + n -> S]
         /\ \A i \in 1..m : (s \o t)[i] = s[i]
         /\ \A i \in 1..n : (s \o t)[m + i] = t[i]
  <1>1. s \in Seq(S) /\ Len(s) = m /\ t \in Seq(S) /\ Len(t) = n
    BY ListIsSeq
  <1>2. /\ s \o t \in Seq(S) /\ Len(s \o t) = m + n
        /\ \A i \in 1..m + n : (s \o t)[i] = IF i <= m THEN s[i] ELSE t[i - m]
    BY <1>1, ConcatProperties
  <1>3. s \o t \in [1..m + n -> S]
    BY <1>2, LenProperties
  <1>4. \A i \in 1..n : m + i \in 1..m + n /\ ~(m + i <= m) /\ (m + i) - m = i
    OBVIOUS
  <1>5. \A i \in 1..n : (s \o t)[m + i] = t[i]
    BY <1>2, <1>4
  <1> QED
    BY <1>2, <1>3, <1>5

LEMMA NamedFacts ==
  ASSUME NEW ids, NEW aliases, NEW team \in Teams(ids, aliases), NEW alias \in aliases
  PROVE  /\ Named(team, alias) \in Teams(ids, aliases)
         /\ Named(team, alias).id = team.id
         /\ Named(team, alias).alias = IF team.alias = NoAlias THEN alias ELSE team.alias
         /\ team.alias # NoAlias => Named(team, alias) = team
         /\ team.alias = NoAlias => Named(team, alias) = [id |-> team.id, alias |-> alias]
  BY DEF Named, Teams

\* more is teams with team merged into it: each once, an alias only where there was
\* none, and none lost.
Adds(more, k, teams, n, team) ==
    /\ Distinct(more)
    /\ IDs(more) = IDs(teams) \cup {team.id}
    /\ \A i \in 1..k :
          more[i].alias = NoAlias \/ more[i] = team \/ (i \in 1..n /\ more[i] = teams[i])
    /\ \A i \in 1..k : more[i].alias = NoAlias =>
          /\ more[i].id = team.id => team.alias = NoAlias
          /\ \/ i \in 1..n /\ teams[i].alias = NoAlias /\ more[i].id = teams[i].id
             \/ more[i].id \notin IDs(teams)

\* A team that is added again only gives its alias, and that only where it counts.
LEMMA AddTeamFacts ==
  ASSUME NEW ids, NEW aliases, NEW team \in Teams(ids, aliases), NEW n \in Nat,
         NEW teams \in [1..n -> Teams(ids, aliases)], Distinct(teams)
  PROVE  \E k \in Nat :
           /\ AddTeam(teams, team) \in [1..k -> Teams(ids, aliases)]
           /\ Adds(AddTeam(teams, team), k, teams, n, team)
  <1> DEFINE T == Teams(ids, aliases)
             more == AddTeam(teams, team)
  <1>1. /\ team.id \in ids /\ team.alias \in aliases
        /\ team = [id |-> team.id, alias |-> team.alias]
    BY DEF Teams
  <1>2. CASE \E i \in DOMAIN teams : teams[i].id = team.id
    <2>1. more = [i \in 1..n |->
                    IF teams[i].id = team.id THEN Named(teams[i], team.alias)
                    ELSE teams[i]]
      BY <1>2 DEF AddTeam
    <2>2. ASSUME NEW i \in 1..n
          PROVE  /\ more[i] \in T /\ more[i].id = teams[i].id
                 /\ \/ more[i].alias = NoAlias
                    \/ more[i] = team
                    \/ more[i] = teams[i]
                 /\ more[i].alias = NoAlias =>
                       /\ teams[i].alias = NoAlias
                       /\ teams[i].id = team.id => team.alias = NoAlias
      <3>1. teams[i] \in T
        OBVIOUS
      <3>2. CASE teams[i].id = team.id
        <4>1. more[i] = Named(teams[i], team.alias)
          BY <2>1, <3>2
        <4> HIDE DEF more
        <4> QED
          BY <1>1, <3>1, <3>2, <4>1, NamedFacts
      <3>3. CASE teams[i].id # team.id
        <4>1. more[i] = teams[i]
          BY <2>1, <3>3
        <4> HIDE DEF more
        <4> QED
          BY <3>1, <3>3, <4>1
      <3> QED
        BY <3>2, <3>3
    <2>3. more \in [1..n -> T] /\ DOMAIN more = 1..n
      BY <2>1, <2>2
    <2> HIDE DEF more
    <2>4. Distinct(more)
      BY <2>2, <2>3 DEF Distinct
    <2>5. IDs(more) = IDs(teams) /\ team.id \in IDs(teams)
      BY <1>2, <2>2, <2>3 DEF IDs
    <2>6. \A i \in 1..n : more[i].alias = NoAlias =>
            /\ more[i].id = team.id => team.alias = NoAlias
            /\ teams[i].alias = NoAlias /\ more[i].id = teams[i].id
      BY <2>2
    <2> QED
      BY <2>2, <2>3, <2>4, <2>5, <2>6 DEF more, Adds
  <1>3. CASE ~ \E i \in DOMAIN teams : teams[i].id = team.id
    <2>1. more = Append(teams, team)
      BY <1>3 DEF AddTeam
    <2>2. /\ more \in [1..n + 1 -> T]
          /\ \A i \in 1..n : more[i] = teams[i]
          /\ more[n + 1] = team
      <3> HIDE DEF more, T
      <3>1. teams \in [1..n -> T] /\ team \in T
        BY DEF T
      <3>2. Append(teams, team) \in [1..n + 1 -> T]
        BY <3>1, ListAppend
      <3>3. \A i \in 1..n : Append(teams, team)[i] = teams[i]
        BY <3>1, ListAppend
      <3>4. Append(teams, team)[n + 1] = team
        BY <3>1, ListAppend
      <3> QED
        BY <2>1, <3>2, <3>3, <3>4, Zenon
    <2>3. /\ n + 1 \in Nat /\ 1..n + 1 = (1..n) \cup {n + 1}
          /\ DOMAIN more = 1..n + 1 /\ DOMAIN teams = 1..n
      BY <2>2
    <2> HIDE DEF more
    <2>4. Distinct(more)
      BY <1>3, <2>2, <2>3 DEF Distinct
    <2>5. IDs(more) = IDs(teams) \cup {team.id}
      BY <2>2, <2>3 DEF IDs
    <2>6. team.id \notin IDs(teams)
      BY <1>3 DEF IDs
    <2>7. \A i \in 1..n : teams[i].id # team.id
      BY <1>3, <2>3
    <2>8. \A i \in 1..n + 1 : more[i].alias = NoAlias =>
            /\ more[i].id = team.id => team.alias = NoAlias
            /\ \/ i \in 1..n /\ teams[i].alias = NoAlias /\ more[i].id = teams[i].id
               \/ more[i].id \notin IDs(teams)
      BY <2>2, <2>3, <2>6, <2>7
    <2> QED
      BY <2>2, <2>3, <2>4, <2>5, <2>8 DEF more, Adds
  <1> QED
    BY <1>2, <1>3

\* teams are those of s, each once, and no alias is made up or lost.
Merges(teams, n, s, len) ==
    /\ Distinct(teams)
    /\ IDs(teams) = {s[j].id : j \in 1..len}
    /\ \A i \in 1..n : teams[i].alias = NoAlias \/ \E j \in 1..len : teams[i] = s[j]
    /\ \A i \in 1..n, j \in 1..len :
          teams[i].alias = NoAlias /\ s[j].id = teams[i].id => s[j].alias = NoAlias

\* Merging a list of teams keeps each team once, and no alias is made up or lost.
LEMMA MergedTeams ==
  ASSUME NEW ids, NEW aliases, NEW len \in Nat,
         NEW s \in [1..len -> Teams(ids, aliases)]
  PROVE  \E n \in Nat :
           /\ FoldLeft(AddTeam, <<>>, s) \in [1..n -> Teams(ids, aliases)]
           /\ Merges(FoldLeft(AddTeam, <<>>, s), n, s, len)
  <1> DEFINE T == Teams(ids, aliases)
             Merged(teams, k) ==
                \E n \in Nat : teams \in [1..n -> T] /\ Merges(teams, n, s, k)
  <1>1. PICK m : /\ m[0] = <<>>
                 /\ \A k \in 1..len : m[k] = AddTeam(m[k - 1], s[k])
                 /\ m[len] = FoldLeft(AddTeam, <<>>, s)
    BY FoldTable
  <1>2. Merged(m[0], 0)
    <2>1. 1..0 = {} /\ m[0] \in [1..0 -> T] /\ DOMAIN m[0] = {}
      BY <1>1
    <2>2. Distinct(m[0]) /\ IDs(m[0]) = {}
      BY <2>1 DEF Distinct, IDs
    <2>3. Merges(m[0], 0, s, 0)
      BY <2>1, <2>2 DEF Merges
    <2> QED
      BY <2>1, <2>3
  <1>3. ASSUME NEW k \in 1..len, Merged(m[k - 1], k - 1)
        PROVE  Merged(m[k], k)
    <2> DEFINE less == m[k - 1]
               more == m[k]
    <2>n. PICK n \in Nat : less \in [1..n -> T] /\ Merges(less, n, s, k - 1)
      BY <1>3
    <2>1. /\ less \in [1..n -> T]
          /\ Distinct(less)
          /\ IDs(less) = {s[j].id : j \in 1..k - 1}
          /\ \A i \in 1..n : less[i].alias = NoAlias \/ \E j \in 1..k - 1 : less[i] = s[j]
          /\ \A i \in 1..n, j \in 1..k - 1 :
                less[i].alias = NoAlias /\ s[j].id = less[i].id => s[j].alias = NoAlias
      BY <2>n, Zenon DEF Merges
    <2>2. more = AddTeam(less, s[k]) /\ s[k] \in T
      BY <1>1
    <2>3. 1..k = (1..k - 1) \cup {k}
      OBVIOUS
    <2> HIDE DEF less, more, T
    <2>p. PICK p \in Nat : more \in [1..p -> T] /\ Adds(more, p, less, n, s[k])
      BY <2>1, <2>2, AddTeamFacts DEF T
    <2>4. /\ more \in [1..p -> T]
          /\ Distinct(more)
          /\ IDs(more) = IDs(less) \cup {s[k].id}
          /\ \A i \in 1..p :
                \/ more[i].alias = NoAlias \/ more[i] = s[k]
                \/ i \in 1..n /\ more[i] = less[i]
          /\ \A i \in 1..p : more[i].alias = NoAlias =>
                /\ more[i].id = s[k].id => s[k].alias = NoAlias
                /\ \/ i \in 1..n /\ less[i].alias = NoAlias /\ more[i].id = less[i].id
                   \/ more[i].id \notin IDs(less)
      BY <2>p, Zenon DEF Adds
    <2>5. IDs(more) = {s[j].id : j \in 1..k}
      BY <2>1, <2>3, <2>4
    <2>6. \A i \in 1..p : more[i].alias = NoAlias \/ \E j \in 1..k : more[i] = s[j]
      BY <2>1, <2>3, <2>4
    <2>7. ASSUME NEW i \in 1..p, NEW j \in 1..k,
                 more[i].alias = NoAlias, s[j].id = more[i].id
          PROVE  s[j].alias = NoAlias
      <3>1. CASE j = k
        BY <2>4, <2>7, <3>1
      <3>2. CASE j \in 1..k - 1
        <4>1. more[i].id \in IDs(less)
          BY <2>1, <2>7, <3>2
        <4>2. i \in 1..n /\ less[i].alias = NoAlias /\ more[i].id = less[i].id
          BY <2>4, <2>7, <4>1
        <4> QED
          BY <2>1, <2>7, <3>2, <4>2
      <3> QED
        BY <2>3, <3>1, <3>2
    <2>8. Merges(more, p, s, k)
      BY <2>4, <2>5, <2>6, <2>7 DEF Merges
    <2>9. Merged(more, k)
      BY <2>4, <2>8
    <2> QED
      BY <2>9 DEF more
  <1> HIDE DEF Merged
  <1>4. \A k \in 0..len : Merged(m[k], k)
    <2> DEFINE Wrong == {k \in 0..len : ~Merged(m[k], k)}
    <2> SUFFICES ASSUME Wrong # {} PROVE FALSE
      OBVIOUS
    <2>1. PICK k \in Wrong : \A j \in Wrong : k <= j
      <3>1. Wrong \in SUBSET Nat
        OBVIOUS
      <3> HIDE DEF Wrong
      <3> QED
        BY <3>1, Least
    <2>2. k # 0 /\ k \in 1..len /\ ~Merged(m[k], k)
      BY <1>2, <2>1
    <2>3. Merged(m[k - 1], k - 1)
      BY <2>1, <2>2
    <2> QED
      BY <1>3, <2>2, <2>3
  <1>5. Merged(FoldLeft(AddTeam, <<>>, s), len)
    BY <1>1, <1>4
  <1> QED
    BY <1>5 DEF Merged

\* The selected team has its alias, if it has one at all.
Settled(teams, f) ==
    \A i \in DOMAIN teams :
        teams[i].id = f.teamID /\ teams[i].alias = NoAlias => f.teamAlias = NoAlias

LEMMA OwnAliases ==
  ASSUME NEW id, NEW teams, NEW c
  PROVE  /\ \A i \in DOMAIN teams : teams[i].id = id /\ teams[i].alias # NoAlias =>
               teams[i].alias \in AliasesOf(id, teams, c)
         /\ (\A i \in DOMAIN teams : teams[i].id = id => teams[i].alias = NoAlias) =>
               AliasesOf(id, teams, c) =
                 IF id = c.teamID THEN {c.teamAlias} ELSE {NoAlias}
  <1> DEFINE own == {teams[i].alias : i \in {j \in DOMAIN teams : teams[j].id = id}}
                    \ {NoAlias}
  <1>1. AliasesOf(id, teams, c) =
          IF own # {} THEN own ELSE IF id = c.teamID THEN {c.teamAlias} ELSE {NoAlias}
    BY DEF AliasesOf
  <1>2. \A i \in DOMAIN teams : teams[i].id = id /\ teams[i].alias # NoAlias =>
          teams[i].alias \in own
    OBVIOUS
  <1>3. (\A i \in DOMAIN teams : teams[i].id = id => teams[i].alias = NoAlias) => own = {}
    OBVIOUS
  <1> HIDE DEF own
  <1> QED
    BY <1>1, <1>2, <1>3

\* What parseTeams makes of a file: the teams it names, each once, each with an alias
\* that the file gives to that team, if there is one (file.go:474-529).
THEOREM ParsedTeams ==
  ASSUME NEW f, IsList(f.teams.ids), AreTeams(f.teams.details)
  PROVE  LET teams == ParseTeams(f)
         IN  /\ \E ids, aliases : \E n \in Nat : teams \in [1..n -> Teams(ids, aliases)]
             /\ Distinct(teams)
             /\ IDs(teams) = Range(f.teams.ids) \cup IDs(f.teams.details)
             /\ \A i \in DOMAIN teams :
                   teams[i].alias \in AliasesOf(teams[i].id, f.teams.details, f)
             /\ Settled(teams, f)
  <1> DEFINE names == f.teams.ids
             details == f.teams.details
             ids == Range(names) \cup IDs(details)
             aliases == {NoAlias, f.teamAlias} \cup
                        {details[i].alias : i \in DOMAIN details}
             T == Teams(ids, aliases)
             listed == [i \in DOMAIN names |-> [id |-> names[i], alias |-> NoAlias]]
             s == listed \o details
             merged == FoldLeft(AddTeam, <<>>, s)
             named == [i \in DOMAIN merged |->
                         IF merged[i].id = f.teamID
                         THEN Named(merged[i], f.teamAlias) ELSE merged[i]]
  <1>1. ParseTeams(f) = named
    BY DEF ParseTeams
  <1>2. PICK p \in Nat : DOMAIN names = 1..p
    BY SeqIsList DEF IsList
  <1>3. PICK q \in Nat : DOMAIN details = 1..q /\ details \in [1..q -> Range(details)]
    BY SeqIsList DEF AreTeams, IsList
  <1>4. listed \in [1..p -> T]
    BY <1>2 DEF Teams, Range
  <1>5. details \in [1..q -> T]
    <2>1. \A i \in 1..q : details[i] = [id |-> details[i].id, alias |-> details[i].alias]
      BY <1>3 DEF AreTeams
    <2>2. \A i \in 1..q : details[i].id \in ids /\ details[i].alias \in aliases
      BY <1>3 DEF IDs
    <2>3. \A i \in 1..q : details[i] \in T
      <3> HIDE DEF ids, aliases, details
      <3> SUFFICES ASSUME NEW i \in 1..q PROVE details[i] \in T
        OBVIOUS
      <3>1. [id |-> details[i].id, alias |-> details[i].alias] \in T
        BY <2>2 DEF Teams
      <3> QED
        BY <2>1, <3>1, Zenon
    <2> QED
      BY <1>3, <2>3
  <1>6. /\ \A i \in 1..p : listed[i].id = names[i] /\ listed[i].alias = NoAlias
        /\ NoAlias \in aliases /\ f.teamAlias \in aliases
    BY <1>2
  <1>7. ids = {names[i] : i \in 1..p} \cup {details[i].id : i \in 1..q}
    BY <1>2, <1>3 DEF Range, IDs
  <1>8. Range(details) = {details[i] : i \in 1..q}
    BY <1>3 DEF Range
  <1> HIDE DEF names, details, ids, aliases, T, listed
  <1>9. s \in [1..p + q -> T]
    BY <1>4, <1>5, ListConcat
  <1>10. \A i \in 1..p : s[i] = listed[i]
    BY <1>4, <1>5, ListConcat
  <1>11. \A i \in 1..q : s[p + i] = details[i]
    BY <1>4, <1>5, ListConcat
  <1> HIDE DEF s
  <1>12. \A j \in 1..p + q : j \in 1..p \/ \E i \in 1..q : j = p + i
    <2> SUFFICES ASSUME NEW j \in 1..p + q, j \notin 1..p PROVE \E i \in 1..q : j = p + i
      OBVIOUS
    <2>1. j - p \in 1..q /\ j = p + (j - p)
      OBVIOUS
    <2> QED
      BY <2>1
  <1>13. {s[j].id : j \in 1..p + q} = ids
    <2>2. \A i \in 1..q : p + i \in 1..p + q
      OBVIOUS
    <2>3. \A i \in 1..p : i \in 1..p + q
      OBVIOUS
    <2> QED
      BY <1>6, <1>7, <1>10, <1>11, <1>12, <2>2, <2>3
  <1>n. PICK n \in Nat : merged \in [1..n -> T] /\ Merges(merged, n, s, p + q)
    BY <1>9, MergedTeams DEF T
  <1>14. /\ merged \in [1..n -> T]
         /\ Distinct(merged)
         /\ IDs(merged) = {s[j].id : j \in 1..p + q}
         /\ \A i \in 1..n :
               merged[i].alias = NoAlias \/ \E j \in 1..p + q : merged[i] = s[j]
         /\ \A i \in 1..n, j \in 1..p + q :
               merged[i].alias = NoAlias /\ s[j].id = merged[i].id => s[j].alias = NoAlias
    BY <1>n, Zenon DEF Merges
  <1>15. \A i \in 1..n : merged[i].alias = NoAlias \/ merged[i] \in Range(details)
    <2>1. \A j \in 1..p + q : s[j].alias = NoAlias \/ s[j] \in Range(details)
      BY <1>6, <1>8, <1>10, <1>11, <1>12
    <2> QED
      BY <1>14, <2>1
  <1>m. \A i \in 1..n, j \in 1..q :
          merged[i].alias = NoAlias /\ details[j].id = merged[i].id =>
             details[j].alias = NoAlias
    <2>1. \A j \in 1..q : p + j \in 1..p + q
      OBVIOUS
    <2> QED
      BY <1>11, <1>14, <2>1
  <1> HIDE DEF merged
  <1>a. ASSUME NEW i \in 1..n
        PROVE  /\ merged[i].alias # NoAlias =>
                     merged[i].alias \in AliasesOf(merged[i].id, details, f)
               /\ merged[i].alias = NoAlias =>
                     AliasesOf(merged[i].id, details, f) =
                        IF merged[i].id = f.teamID THEN {f.teamAlias} ELSE {NoAlias}
    <2>1. merged[i].alias # NoAlias => \E j \in 1..q : details[j] = merged[i]
      BY <1>8, <1>15
    <2>2. DOMAIN details = 1..q
      BY <1>3
    <2>3. /\ \A j \in DOMAIN details :
                details[j].id = merged[i].id /\ details[j].alias # NoAlias =>
                   details[j].alias \in AliasesOf(merged[i].id, details, f)
          /\ (\A j \in DOMAIN details :
                details[j].id = merged[i].id => details[j].alias = NoAlias) =>
                   AliasesOf(merged[i].id, details, f) =
                      IF merged[i].id = f.teamID THEN {f.teamAlias} ELSE {NoAlias}
      BY OwnAliases, Zenon
    <2> QED
      BY <1>m, <2>1, <2>2, <2>3
  <1>16. DOMAIN merged = 1..n /\ \A i \in 1..n : merged[i] \in T
    BY <1>14
  <1>17. ASSUME NEW i \in 1..n
         PROVE  /\ named[i] \in T /\ named[i].id = merged[i].id
                /\ named[i].alias \in AliasesOf(named[i].id, details, f)
                /\ named[i].id = f.teamID /\ named[i].alias = NoAlias =>
                      f.teamAlias = NoAlias
    <2>1. CASE merged[i].id = f.teamID
      <3>1. named[i] = Named(merged[i], f.teamAlias)
        BY <1>16, <2>1
      <3> HIDE DEF named
      <3>2. /\ named[i] \in T /\ named[i].id = merged[i].id
            /\ named[i].alias = IF merged[i].alias = NoAlias THEN f.teamAlias
                                ELSE merged[i].alias
            /\ merged[i].alias # NoAlias => named[i] = merged[i]
            /\ merged[i].alias = NoAlias =>
                  named[i] = [id |-> merged[i].id, alias |-> f.teamAlias]
        BY <1>6, <1>16, <3>1, NamedFacts DEF T
      <3> QED
        BY <1>a, <2>1, <3>2
    <2>2. CASE merged[i].id # f.teamID
      <3>1. named[i] = merged[i]
        BY <1>16, <2>2
      <3> QED
        BY <1>a, <1>16, <2>2, <3>1
    <2> QED
      BY <2>1, <2>2
  <1>18. DOMAIN named = 1..n /\ named \in [1..n -> T]
    BY <1>16, <1>17
  <1> HIDE DEF named
  <1>19. Distinct(named)
    BY <1>14, <1>16, <1>17, <1>18 DEF Distinct
  <1>20. IDs(named) = ids
    <2>1. IDs(named) = {merged[i].id : i \in 1..n}
      BY <1>17, <1>18 DEF IDs
    <2> QED
      BY <1>13, <1>14, <1>16, <2>1 DEF IDs
  <1>21. Settled(named, f)
    BY <1>17, <1>18 DEF Settled
  <1> QED
    BY <1>1, <1>17, <1>18, <1>19, <1>20, <1>21 DEF T, ids, names, details

\* Teams that were parsed and written out are parsed as they were: first their IDs
\* are listed, then each takes its own alias from its details.
LEMMA Reparsed ==
  ASSUME NEW f, NEW ids, NEW aliases, NEW n \in Nat,
         NEW teams \in [1..n -> Teams(ids, aliases)],
         Distinct(teams), Settled(teams, f),
         f.teams.ids = [i \in 1..n |-> teams[i].id], f.teams.details = teams
  PROVE  ParseTeams(f) = teams
  <1> DEFINE bare(i) == [id |-> teams[i].id, alias |-> NoAlias]
             listed == [i \in 1..n |-> bare(i)]
             T == Teams(ids, aliases \cup {NoAlias})
             s == listed \o teams
             row(k) == IF k <= n THEN [i \in 1..k |-> bare(i)]
                       ELSE [i \in 1..n |-> IF i <= k - n THEN teams[i] ELSE bare(i)]
  <1>1. \A i \in 1..n :
           /\ teams[i] = [id |-> teams[i].id, alias |-> teams[i].alias]
           /\ teams[i].id \in ids /\ teams[i] \in T
           /\ bare(i) \in T /\ bare(i).id = teams[i].id /\ bare(i).alias = NoAlias
    BY DEF Teams
  <1>2. listed \in [1..n -> T] /\ teams \in [1..n -> T]
    BY <1>1
  <1>3. s \in [1..n + n -> T]
    BY <1>2, ListConcat
  <1>4. \A k \in 1..n : s[k] = bare(k)
    BY <1>2, ListConcat
  <1>5. \A k \in 1..n : s[n + k] = teams[k]
    BY <1>2, ListConcat
  <1> HIDE DEF s
  <1>0. n + n \in Nat /\ DOMAIN s = 1..n + n
    BY <1>3
  <1>6. PICK m : /\ m[0] = <<>>
                 /\ \A k \in 1..n + n : m[k] = AddTeam(m[k - 1], s[k])
                 /\ m[n + n] = FoldLeft(AddTeam, <<>>, s)
    BY <1>0, FoldTable
  <1>7. m[0] = row(0)
    BY <1>6
  <1>8. ASSUME NEW k \in 1..n + n, m[k - 1] = row(k - 1) PROVE m[k] = row(k)
    <2>1. m[k] = AddTeam(row(k - 1), s[k])
      BY <1>6, <1>8
    <2>2. CASE k <= n
      <3> DEFINE less == [i \in 1..k - 1 |-> bare(i)]
                 more == [i \in 1..k |-> bare(i)]
      <3>1. /\ k - 1 \in Nat /\ k \in 1..n
            /\ row(k - 1) = less /\ row(k) = more /\ s[k] = bare(k)
        <4>1. k - 1 \in Nat /\ k \in 1..n /\ k - 1 <= n
          BY <2>2
        <4>2. row(k - 1) = less
          BY <4>1
        <4>3. row(k) = more
          BY <2>2
        <4> QED
          BY <1>4, <4>1, <4>2, <4>3
      <3>2. \A i \in DOMAIN less : less[i].id = teams[i].id /\ i \in 1..n /\ i # k
        BY <1>1, <3>1
      <3>3. ~ \E i \in DOMAIN less : less[i].id = bare(k).id
        BY <1>1, <3>1, <3>2 DEF Distinct
      <3>4. m[k] = Append(less, bare(k))
        BY <2>1, <3>1, <3>3 DEF AddTeam
      <3>5. less \in [1..k - 1 -> T] /\ bare(k) \in T /\ (k - 1) + 1 = k
        <4>1. \A i \in 1..k - 1 : i \in 1..n
          BY <3>1
        <4> HIDE DEF bare, T
        <4> QED
          BY <1>1, <3>1, <4>1
      <3>6. Append(less, bare(k)) \in [1..k -> T]
        BY <3>1, <3>5, ListAppend
      <3>7. \A i \in 1..k - 1 : Append(less, bare(k))[i] = bare(i)
        <4>1. \A i \in 1..k - 1 : Append(less, bare(k))[i] = less[i]
          <5> HIDE DEF less, bare
          <5> QED
            BY <3>1, <3>5, ListAppend
        <4> QED
          BY <4>1
      <3>8. Append(less, bare(k))[k] = bare(k)
        <4> HIDE DEF less, bare
        <4> QED
          BY <3>1, <3>5, ListAppend
      <3>9. Append(less, bare(k)) = more
        <4> HIDE DEF less, bare
        <4>1. \A i \in 1..k : i \in 1..k - 1 \/ i = k
          OBVIOUS
        <4> QED
          BY <3>6, <3>7, <3>8, <4>1
      <3> QED
        BY <3>1, <3>4, <3>9
    <2>3. CASE ~(k <= n)
      <3> DEFINE j == k - n
                 less == [i \in 1..n |-> IF i <= j - 1 THEN teams[i] ELSE bare(i)]
      <3>1. j \in 1..n /\ s[k] = teams[j]
        <4>1. j \in 1..n /\ n + j = k
          BY <2>3
        <4> HIDE DEF j
        <4> QED
          BY <1>5, <4>1
      <3>2. row(k - 1) = less
        <4>1. CASE k - 1 = n
          <5>1. row(k - 1) = [i \in 1..n |-> bare(i)]
            BY <4>1
          <5>2. \A i \in 1..n : (IF i <= j - 1 THEN teams[i] ELSE bare(i)) = bare(i)
            BY <4>1
          <5> HIDE DEF row, bare, j
          <5> QED
            BY <5>1, <5>2
        <4>2. CASE k - 1 # n
          <5>1. ~(k - 1 <= n) /\ (k - 1) - n = j - 1
            BY <2>3, <4>2
          <5> QED
            BY <5>1
        <4> QED
          BY <4>1, <4>2
      <3>3. row(k) = [i \in 1..n |-> IF i <= j THEN teams[i] ELSE bare(i)]
        BY <2>3
      <3> HIDE DEF j
      <3>4. less[j] = bare(j) /\ DOMAIN less = 1..n
        BY <3>1
      <3>5. \A i \in 1..n : less[i].id = teams[i].id
        BY <1>1
      <3>6. \A i \in 1..n : less[i].id = teams[j].id <=> i = j
        BY <3>1, <3>5 DEF Distinct
      <3> HIDE DEF less, bare
      <3>7. AddTeam(less, teams[j]) =
              [i \in 1..n |-> IF i = j THEN Named(bare(j), teams[j].alias) ELSE less[i]]
        BY <3>1, <3>4, <3>6 DEF AddTeam
      <3>8. Named(bare(j), teams[j].alias) = teams[j]
        BY <1>1, <3>1 DEF Named, bare
      <3>9. \A i \in 1..n : (IF i = j THEN teams[j] ELSE less[i]) =
                            (IF i <= j THEN teams[i] ELSE bare(i))
        BY <3>1 DEF less
      <3> QED
        <4> HIDE DEF row
        <4>1. m[k] = [i \in 1..n |-> IF i = j THEN teams[j] ELSE less[i]]
          BY <2>1, <3>1, <3>2, <3>7, <3>8
        <4> QED
          BY <3>3, <3>9, <4>1
    <2> QED
      BY <2>2, <2>3
  <1> HIDE DEF row
  <1>9. \A k \in 0..n + n : m[k] = row(k)
    <2> DEFINE Wrong == {k \in 0..n + n : m[k] # row(k)}
    <2> SUFFICES ASSUME Wrong # {} PROVE FALSE
      OBVIOUS
    <2>1. PICK k \in Wrong : \A i \in Wrong : k <= i
      <3>1. Wrong \in SUBSET Nat
        OBVIOUS
      <3> HIDE DEF Wrong
      <3> QED
        BY <3>1, Least
    <2>2. k # 0 /\ k \in 1..n + n /\ m[k] # row(k)
      BY <1>7, <2>1
    <2>3. m[k - 1] = row(k - 1)
      BY <2>1, <2>2
    <2> QED
      BY <1>8, <2>2, <2>3
  <1>10. row(n + n) = teams
    <2>1. CASE n = 0
      BY <2>1 DEF row
    <2>2. CASE n # 0
      <3>1. row(n + n) = [i \in 1..n |-> teams[i]]
        <4>1. ~(n + n <= n) /\ \A i \in 1..n : i <= (n + n) - n
          BY <2>2
        <4> QED
          BY <4>1 DEF row
      <3> QED
        BY <3>1
    <2> QED
      BY <2>1, <2>2
  <1>11. FoldLeft(AddTeam, <<>>, s) = teams
    BY <1>6, <1>9, <1>10
  <1>12. ASSUME NEW i \in 1..n, teams[i].id = f.teamID
         PROVE  Named(teams[i], f.teamAlias) = teams[i]
    BY <1>1, <1>12 DEF Named, Settled
  <1>13. ParseTeams(f) =
           [i \in DOMAIN teams |->
              IF teams[i].id = f.teamID THEN Named(teams[i], f.teamAlias)
              ELSE teams[i]]
    <2>1. [i \in DOMAIN f.teams.ids |->
             [id |-> f.teams.ids[i], alias |-> NoAlias]] = listed
      OBVIOUS
    <2> HIDE DEF listed
    <2> QED
      BY <1>11, <2>1 DEF ParseTeams, s
  <1> QED
    BY <1>12, <1>13

---------------------------------------------------------------------------
(***************************************************************************)
(* Timestamps and retries.                                                 *)
(***************************************************************************)

USE SecondAssumption, RetryAssumption, LifetimeAssumption, InstantsAssumption
    DEF SecondAssumption, RetryAssumption, LifetimeAssumption, InstantsAssumption

LEMMA Division ==
  ASSUME NEW t \in Int
  PROVE  /\ t \div Second \in Int /\ t % Second \in 0..Second - 1
         /\ t = Second * (t \div Second) + (t % Second)
  OBVIOUS

\* How a time is written: its size, and a sign of its own if it is before the epoch.
LEMMA Written ==
  ASSUME NEW t \in Int
  PROVE  \E seconds, ticks \in Nat :
           \/ /\ seconds * Second + ticks = t
              /\ TimestampNumber(t) = Number(FALSE, seconds, ticks)
           \/ /\ seconds * Second + ticks = -t
              /\ TimestampNumber(t) = Number(TRUE, seconds, ticks)
  <1> DEFINE seconds == t \div Second
             ticks == t % Second
  <1>1. /\ seconds \in Int /\ ticks \in 0..Second - 1
        /\ t = Second * seconds + ticks
    BY Division
  <1>2. t # NoTime
    OBVIOUS
  <1>3. TimestampNumber(t) =
          IF seconds >= 0 THEN Number(FALSE, seconds, ticks)
          ELSE IF ticks = 0 THEN Number(TRUE, -seconds, 0)
          ELSE Number(TRUE, -(seconds + 1), Second - ticks)
    BY <1>2, Zenon DEF TimestampNumber
  <1> HIDE DEF seconds, ticks
  <1>4. CASE seconds >= 0
    <2>1. TimestampNumber(t) = Number(FALSE, seconds, ticks)
      BY <1>3, <1>4
    <2>2. seconds \in Nat /\ ticks \in Nat /\ seconds * Second + ticks = t
      BY <1>1, <1>4
    <2> QED
      BY <2>1, <2>2
  <1>5. CASE ~(seconds >= 0) /\ ticks = 0
    <2>1. TimestampNumber(t) = Number(TRUE, -seconds, 0)
      BY <1>3, <1>5, Zenon
    <2>2. -seconds \in Nat /\ (-seconds) * Second + 0 = -t
      BY <1>1, <1>5
    <2> QED
      BY <2>1, <2>2
  <1>6. CASE ~(seconds >= 0) /\ ticks # 0
    <2>1. TimestampNumber(t) = Number(TRUE, -(seconds + 1), Second - ticks)
      BY <1>3, <1>6, Zenon
    <2>2. -(seconds + 1) \in Nat /\ Second - ticks \in Nat
      BY <1>1, <1>6
    <2>3. (-(seconds + 1)) * Second + (Second - ticks) = -t
      BY <1>1
    <2> QED
      BY <2>1, <2>2, <2>3
  <1> QED
    BY <1>4, <1>5, <1>6

\* A timestamp before, at or after a whole second, on either side of the epoch, is
\* read back as the time that was written, except the epoch itself, which reads as
\* no time (file.go:397-472).
THEOREM TimestampsSurvive ==
  ASSUME NEW t \in Times
  PROVE  ParseTimestamp(TimestampNumber(t)) = IF t = 0 THEN NoTime ELSE t
  <1>1. CASE t = NoTime
    <2>1. TimestampNumber(t) = Number(FALSE, 0, 0)
      BY <1>1, Zenon DEF TimestampNumber
    <2> QED
      BY <1>1, <2>1 DEF ParseTimestamp, NumberTimestamp, Number
  <1>2. CASE t \in Int
    <2> PICK seconds \in Nat, ticks \in Nat :
          \/ /\ seconds * Second + ticks = t
             /\ TimestampNumber(t) = Number(FALSE, seconds, ticks)
          \/ /\ seconds * Second + ticks = -t
             /\ TimestampNumber(t) = Number(TRUE, seconds, ticks)
      BY <1>2, Written
    <2>1. TimestampNumber(t) # NoTime
      <3>1. /\ Number(TRUE, seconds, ticks) \in Numbers
            /\ Number(FALSE, seconds, ticks) \in Numbers
        BY DEF Number, Numbers
      <3> QED
        BY <3>1, NumbersAssumption
    <2>2. CASE TimestampNumber(t) = Number(FALSE, seconds, ticks)
               /\ seconds * Second + ticks = t
      <3>1. NumberTimestamp(Number(FALSE, seconds, ticks)) =
              IF seconds * Second + ticks = 0 THEN NoTime ELSE seconds * Second + ticks
        BY Zenon DEF NumberTimestamp, Number
      <3> QED
        BY <2>1, <2>2, <3>1, Zenon DEF ParseTimestamp
    <2>3. CASE TimestampNumber(t) = Number(TRUE, seconds, ticks)
               /\ seconds * Second + ticks = -t
      <3>1. NumberTimestamp(Number(TRUE, seconds, ticks)) =
              IF -t = 0 THEN NoTime ELSE -(-t)
        BY <2>3, Zenon DEF NumberTimestamp, Number
      <3>2. -(-t) = t /\ (-t = 0 <=> t = 0)
        BY <1>2
      <3> QED
        BY <2>1, <2>3, <3>1, <3>2, Zenon DEF ParseTimestamp
    <2> QED
      BY <2>2, <2>3
  <1> QED
    BY <1>1, <1>2 DEF Times

---------------------------------------------------------------------------
\* What keeps the retries within their time: the program goes on within Late, and if
\* the file has come free, it did so since the last attempt.
RetryInv ==
    /\ now \in Nat /\ deadline \in Nat /\ wakeAt \in Nat /\ clearSince \in Nat
    /\ tried \in BOOLEAN
    /\ ctxErr \in Errors \cup {"none"}
    /\ pc = "failed" =>
        /\ wakeAt <= now /\ now <= wakeAt + Late
        /\ Blocked \/ wakeAt <= clearSince
    /\ pc = "wait" => tried
    /\ pc = "wait" \/ (pc = "loop" /\ tried) =>
        /\ wakeAt <= now + RetryWait /\ now <= wakeAt + Late
        /\ Blocked \/ wakeAt <= clearSince + RetryWait + Late
    /\ pc = "failed" => tried
    /\ outcome = "busy" => pc = "done"
    /\ NoticesRelease

LEMMA InitRetryInv == Init => RetryInv
  <1> SUFFICES ASSUME Init PROVE RetryInv
    OBVIOUS
  <1>1. ~tried /\ tried \in BOOLEAN
    BY DEF Init
  <1> QED
    BY <1>1 DEF Init, RetryInv, NoticesRelease, Errors

\* A call that returns anything but "busy" leaves nothing to show.
LEMMA ReturnsRetryInv ==
  ASSUME RetryInv, NEW result, result # "busy", Returns(result)
  PROVE  RetryInv'
  BY DEF RetryInv, Returns, NoticesRelease, data, retry

LEMMA NextRetryInv == RetryInv /\ [Next]_vars => RetryInv'
  <1> SUFFICES ASSUME RetryInv, [Next]_vars PROVE RetryInv'
    OBVIOUS
  <1> USE DEF data, retry, Errors
  <1>1. CASE SaveFails \/ LoadFails \/ WaitIsCut
    <2>1. PICK result : result # "busy" /\ Returns(result)
      BY <1>1 DEF SaveFails, LoadFails, WaitIsCut, RetryInv
    <2> QED
      BY <2>1, ReturnsRetryInv
  <1>2. CASE Encode
    <2>1. ~tried' /\ tried' \in BOOLEAN
      BY <1>2 DEF Encode, Begins
    <2> QED
      BY <1>2, <2>1 DEF Encode, Begins, RetryInv, NoticesRelease
  <1>3. CASE Open
    <2>1. ~tried' /\ tried' \in BOOLEAN
      BY <1>3 DEF Open, Begins
    <2> QED
      BY <1>3, <2>1 DEF Open, Begins, RetryInv, NoticesRelease
  <1>4. CASE GivesUp
    <2>1. CASE ctxErr # "none"
      <3>1. Returns(ctxErr) /\ ctxErr # "busy"
        BY <1>4, <2>1 DEF GivesUp, RetryInv
      <3> QED
        BY <3>1, ReturnsRetryInv
    <2>2. CASE ctxErr = "none"
      <3>1. tried /\ now >= deadline
        BY <1>4, <2>2 DEF GivesUp, Remaining, RetryInv
      <3>2. Blocked \/ deadline - clearSince <= RetryWait + 2 * Late
        BY <1>4, <3>1, RetryAssumption DEF GivesUp, RetryInv
      <3> QED
        BY <1>4, <2>2, <3>1, <3>2
           DEF GivesUp, Returns, RetryInv, NoticesRelease, Blocked, Answer
    <2> QED
      BY <2>1, <2>2
  <1>5. CASE Tries
    BY <1>5 DEF Tries, RetryInv, NoticesRelease
  <1>6. CASE FailsInUse
    <2>1. Blocked /\ Blocked'
      BY <1>6 DEF FailsInUse, Retried, Blocked, Answer
    <2>2. tried' /\ tried' \in BOOLEAN /\ now <= now + Late
      BY <1>6, RetryAssumption DEF FailsInUse, RetryInv
    <2> QED
      BY <1>6, <2>1, <2>2 DEF FailsInUse, RetryInv, NoticesRelease
  <1>7. CASE TimeIsUp
    <2>1. now >= deadline
      BY <1>7 DEF TimeIsUp, Remaining, RetryInv
    <2>2. Blocked \/ deadline - clearSince <= RetryWait + 2 * Late
      BY <1>7, <2>1, RetryAssumption DEF TimeIsUp, RetryInv
    <2> QED
      BY <1>7, <2>1, <2>2
         DEF TimeIsUp, Returns, RetryInv, NoticesRelease, Blocked, Answer
  <1>8. CASE Waits
    <2>1. Wait \in Nat /\ Wait <= RetryWait
      BY <1>8, RetryAssumption DEF Waits, Wait, Sooner, Remaining, RetryInv
    <2>2. Blocked' = Blocked
      BY <1>8 DEF Waits, Blocked, Answer
    <2>3. wakeAt' \in Nat /\ wakeAt' <= now + RetryWait /\ now <= wakeAt' + Late
      BY <1>8, <2>1, RetryAssumption DEF Waits, RetryInv
    <2>4. Blocked \/ wakeAt' <= clearSince + RetryWait + Late
      BY <1>8, <2>1, RetryAssumption DEF Waits, RetryInv
    <2> QED
      BY <1>8, <2>2, <2>3, <2>4 DEF Waits, RetryInv, NoticesRelease
  <1>9. CASE Fails
    <2>1. PICK result : result # "busy" /\ Returns(result)
      BY <1>9 DEF Fails
    <2> QED
      BY <2>1, ReturnsRetryInv
  <1>10. CASE Replaces \/ Opens
    BY <1>10 DEF Replaces, Opens, RetryInv, NoticesRelease
  <1>11. CASE TimerFires
    BY <1>11 DEF TimerFires, RetryInv, NoticesRelease, Blocked, Answer
  <1>12. CASE ReadFails
    <2>1. PICK result : result # "busy" /\ Returns(result)
      BY <1>12 DEF ReadFails, RetryInv
    <2> QED
      BY <2>1, ReturnsRetryInv
  <1>13. CASE Decode
    BY <1>13 DEF Decode, RetryInv, NoticesRelease
  <1>14. ASSUME NEW how \in {"free", "shared", "exclusive", "forbidden"}, Hold(how)
         PROVE  RetryInv'
    BY <1>14, RetryAssumption DEF Hold, Retrying, RetryInv, NoticesRelease
  <1>15. ASSUME NEW error \in Errors, End(error) PROVE RetryInv'
    BY <1>15 DEF End, RetryInv, NoticesRelease, Blocked, Answer
  <1>16. CASE Tick
    BY <1>16, RetryAssumption
       DEF Tick, Retrying, RetryInv, NoticesRelease, Blocked, Answer
  <1>17. CASE UNCHANGED vars
    BY <1>17 DEF vars, RetryInv, NoticesRelease, Blocked, Answer
  <1> QED
    BY <1>1, <1>2, <1>3, <1>4, <1>5, <1>6, <1>7, <1>8, <1>9, <1>10, <1>11, <1>12,
       <1>13, <1>14, <1>15, <1>16, <1>17 DEF Next, Step

\* An operation that finds the file in use is tried until its deadline, and the file
\* has not been free by then for longer than one wait and the time the program takes
\* to go on twice (file_windows.go:49-71).
THEOREM NoticesReleaseHolds == Spec => []NoticesRelease
  <1>1. RetryInv => NoticesRelease
    BY DEF RetryInv
  <1> QED
    BY InitRetryInv, NextRetryInv, <1>1, PTL DEF Spec

---------------------------------------------------------------------------
LEMMA SameExpiry ==
  ASSUME NEW c, NEW d, c.method = d.method, c.issuedAt = d.issuedAt,
         c.expiresAt = d.expiresAt, c.jwtExp = d.jwtExp
  PROVE  Expiry(c) = Expiry(d)
  BY Zenon DEF Expiry

LEMMA WrittenFields ==
  ASSUME NEW c, HasFields(c)
  PROVE  LET f == ToFile(c)
         IN  /\ HasFields(f)
             /\ f.method = c.method /\ f.text = c.text /\ f.origin = c.origin
             /\ f.nonExpiring = c.nonExpiring /\ f.jwtExp = c.jwtExp
             /\ f.oversized = c.oversized
             /\ f.teamID = c.teamID /\ f.teamAlias = c.teamAlias
             /\ f.issuedAt = TimestampNumber(c.issuedAt)
             /\ f.expiresAt = FormatTime(c.expiresAt)
             /\ f.teams = [ids |-> [i \in DOMAIN c.teams |-> c.teams[i].id],
                           details |-> c.teams]
  <1> DEFINE teams == [ids |-> [i \in DOMAIN c.teams |-> c.teams[i].id],
                       details |-> c.teams]
             issuedAt == TimestampNumber(c.issuedAt)
             expiresAt == FormatTime(c.expiresAt)
  <1>1. ToFile(c) = [c EXCEPT !.issuedAt = issuedAt, !.expiresAt = expiresAt,
                              !.teams = teams]
    BY Zenon DEF ToFile
  <1> HIDE DEF teams, issuedAt, expiresAt
  <1>2. ToFile(c) =
          [method |-> c.method, text |-> c.text, origin |-> c.origin,
           nonExpiring |-> c.nonExpiring, issuedAt |-> issuedAt,
           expiresAt |-> expiresAt, jwtExp |-> c.jwtExp, oversized |-> c.oversized,
           teams |-> teams, teamID |-> c.teamID, teamAlias |-> c.teamAlias]
    BY <1>1 DEF HasFields
  <1> QED
    BY <1>2 DEF HasFields, teams, issuedAt, expiresAt

LEMMA ReadFields ==
  ASSUME NEW f, HasFields(f)
  PROVE  LET c == FromFile(f)
         IN  /\ HasFields(c)
             /\ c.method = f.method /\ c.text = f.text /\ c.origin = f.origin
             /\ c.nonExpiring = f.nonExpiring /\ c.jwtExp = f.jwtExp
             /\ c.oversized = f.oversized
             /\ c.teamID = f.teamID /\ c.teamAlias = f.teamAlias
             /\ c.issuedAt = ParseTimestamp(f.issuedAt)
             /\ c.teams = ParseTeams(f)
             /\ \E dated :
                   /\ dated.method = f.method /\ dated.jwtExp = f.jwtExp
                   /\ dated.issuedAt = c.issuedAt /\ dated.expiresAt = f.expiresAt
                   /\ c.expiresAt = IF f.expiresAt = NoTime THEN Expiry(dated)
                                    ELSE f.expiresAt
  <1> DEFINE issuedAt == ParseTimestamp(f.issuedAt)
             teams == ParseTeams(f)
             dated == [f EXCEPT !.issuedAt = issuedAt, !.teams = teams]
             expiresAt == IF f.expiresAt = NoTime THEN Expiry(dated) ELSE f.expiresAt
  <1>1. FromFile(f) = [dated EXCEPT !.expiresAt = expiresAt]
    BY Zenon DEF FromFile
  <1>2. /\ dated = [f EXCEPT !.issuedAt = issuedAt, !.teams = teams]
        /\ expiresAt = IF f.expiresAt = NoTime THEN Expiry(dated) ELSE f.expiresAt
    BY Zenon
  <1> HIDE DEF issuedAt, teams, dated, expiresAt
  <1>3. dated =
          [method |-> f.method, text |-> f.text, origin |-> f.origin,
           nonExpiring |-> f.nonExpiring, issuedAt |-> issuedAt,
           expiresAt |-> f.expiresAt, jwtExp |-> f.jwtExp, oversized |-> f.oversized,
           teams |-> teams, teamID |-> f.teamID, teamAlias |-> f.teamAlias]
    BY <1>2 DEF HasFields
  <1>4. FromFile(f) =
          [method |-> f.method, text |-> f.text, origin |-> f.origin,
           nonExpiring |-> f.nonExpiring, issuedAt |-> issuedAt,
           expiresAt |-> expiresAt, jwtExp |-> f.jwtExp, oversized |-> f.oversized,
           teams |-> teams, teamID |-> f.teamID, teamAlias |-> f.teamAlias]
    BY <1>1, <1>3
  <1>5. /\ dated.method = f.method /\ dated.jwtExp = f.jwtExp
        /\ dated.issuedAt = issuedAt /\ dated.expiresAt = f.expiresAt
    BY <1>3
  <1> QED
    <2> DEFINE c == FromFile(f)
    <2>1. /\ HasFields(c)
          /\ c.method = f.method /\ c.text = f.text /\ c.origin = f.origin
          /\ c.nonExpiring = f.nonExpiring /\ c.jwtExp = f.jwtExp
          /\ c.oversized = f.oversized
          /\ c.teamID = f.teamID /\ c.teamAlias = f.teamAlias
          /\ c.issuedAt = issuedAt /\ c.teams = teams /\ c.expiresAt = expiresAt
      BY <1>4 DEF HasFields
    <2> HIDE DEF c
    <2>2. \E d : /\ d.method = f.method /\ d.jwtExp = f.jwtExp
                 /\ d.issuedAt = c.issuedAt /\ d.expiresAt = f.expiresAt
                 /\ c.expiresAt = IF f.expiresAt = NoTime THEN Expiry(d) ELSE f.expiresAt
      <3> WITNESS dated
      <3> QED
        BY <1>2, <1>5, <2>1, Zenon
    <2> QED
      BY <2>1, <2>2, Zenon DEF c, issuedAt, teams

\* What Load makes of a credential that Save has written: its times, but for an
\* IssuedAt at the epoch, and an end that is the credential's own.
LEMMA LoadedLifetime ==
  ASSUME NEW c, IsCredential(c), MaySave(c), Storable(c)
  PROVE  LET d == FromFile(ToFile(c))
         IN  /\ d.method = c.method /\ d.text = c.text
             /\ d.nonExpiring = c.nonExpiring /\ d.jwtExp = c.jwtExp
             /\ d.issuedAt = IF c.issuedAt = 0 THEN NoTime ELSE c.issuedAt
             /\ Expiry(d) = Expiry(c)
             /\ c.nonExpiring => /\ c.expiresAt = NoTime /\ c.jwtExp = NoTime
                                 /\ d.expiresAt = NoTime
  <1> DEFINE f == ToFile(c)
             d == FromFile(f)
  <1>1. /\ HasFields(f)
        /\ f.method = c.method /\ f.text = c.text /\ f.nonExpiring = c.nonExpiring
        /\ f.jwtExp = c.jwtExp /\ f.issuedAt = TimestampNumber(c.issuedAt)
        /\ f.expiresAt = FormatTime(c.expiresAt)
    BY WrittenFields, Zenon DEF IsCredential
  <1>2. FormatTime(c.expiresAt) = c.expiresAt
    BY Zenon DEF FormatTime, Storable
  <1> HIDE DEF f
  <1>3. /\ d.method = f.method /\ d.text = f.text /\ d.nonExpiring = f.nonExpiring
        /\ d.jwtExp = f.jwtExp /\ d.issuedAt = ParseTimestamp(f.issuedAt)
    BY <1>1, ReadFields, Zenon
  <1>4. PICK dated :
          /\ dated.method = f.method /\ dated.jwtExp = f.jwtExp
          /\ dated.issuedAt = d.issuedAt /\ dated.expiresAt = f.expiresAt
          /\ d.expiresAt = IF f.expiresAt = NoTime THEN Expiry(dated) ELSE f.expiresAt
    BY <1>1, ReadFields, Zenon
  <1> HIDE DEF d
  <1>5. ParseTimestamp(TimestampNumber(c.issuedAt)) =
          IF c.issuedAt = 0 THEN NoTime ELSE c.issuedAt
    BY TimestampsSurvive DEF IsCredential
  <1>6. /\ d.method = c.method /\ d.text = c.text
        /\ d.jwtExp = c.jwtExp /\ d.nonExpiring = c.nonExpiring
        /\ d.issuedAt = IF c.issuedAt = 0 THEN NoTime ELSE c.issuedAt
        /\ dated.method = c.method /\ dated.jwtExp = c.jwtExp
        /\ dated.issuedAt = d.issuedAt /\ dated.expiresAt = c.expiresAt
        /\ d.expiresAt = IF c.expiresAt = NoTime THEN Expiry(dated) ELSE c.expiresAt
    BY <1>1, <1>2, <1>3, <1>4, <1>5, Zenon
  <1>7. Expiry(d) = Expiry(c)
    <2>1. CASE c.expiresAt # NoTime
      BY <1>6, <2>1, Zenon DEF Expiry
    <2>2. CASE c.expiresAt = NoTime /\ c.jwtExp # NoTime
      <3>1. Expiry(dated) = c.jwtExp /\ Expiry(c) = c.jwtExp
        BY <1>6, <2>2, Zenon DEF Expiry
      <3>2. Expiry(d) = Sooner(c.jwtExp, c.jwtExp)
        BY <1>6, <2>2, <3>1, Zenon DEF Expiry
      <3> QED
        BY <3>1, <3>2 DEF Sooner
    <2>3. CASE c.expiresAt = NoTime /\ c.jwtExp = NoTime
      <3>1. d.issuedAt = c.issuedAt
        BY <1>6, <2>3, Zenon DEF Storable
      <3>2. Expiry(dated) = Expiry(c)
        BY <1>6, <2>3, <3>1, SameExpiry, Zenon
      <3> QED
        BY <1>6, <2>3, <3>1, <3>2, Zenon DEF Expiry
    <2> QED
      BY <2>1, <2>2, <2>3
  <1>8. ASSUME c.nonExpiring
        PROVE  c.expiresAt = NoTime /\ c.jwtExp = NoTime /\ d.expiresAt = NoTime
    <2>1. c.expiresAt = NoTime /\ c.jwtExp = NoTime
      BY <1>8, Zenon DEF MaySave, Validates
    <2>2. ~(c.method \in {"", "sso"} /\ c.issuedAt # NoTime)
      BY <1>8, Zenon DEF MaySave, Storable
    <2>3. ~(dated.method \in {"", "sso"} /\ dated.issuedAt # NoTime)
      BY <1>6, <2>2
    <2>4. Expiry(dated) = NoTime
      BY <1>6, <2>1, <2>3, Zenon DEF Expiry
    <2> QED
      BY <1>6, <2>1, <2>4
  <1> QED
    BY <1>6, <1>7, <1>8, Zenon DEF d, f

\* A credential that Save accepts is fresh when it is loaded exactly when it was
\* fresh before: at every moment after the epoch, for every combination of IssuedAt,
\* ExpiresAt, exp claim, method and NonExpiring that can be stored (jwt.go:19-64,
\* file.go:240-298, 300-361).
THEOREM LoadedAsFresh ==
  ASSUME NEW c, IsCredential(c), MaySave(c), Storable(c), NEW moment \in Nat
  PROVE  Fresh(FromFile(ToFile(c)), moment) <=> Fresh(c, moment)
  <1> DEFINE d == FromFile(ToFile(c))
  <1>1. /\ d.method = c.method /\ d.text = c.text
        /\ d.nonExpiring = c.nonExpiring /\ d.jwtExp = c.jwtExp
        /\ d.issuedAt = IF c.issuedAt = 0 THEN NoTime ELSE c.issuedAt
        /\ Expiry(d) = Expiry(c)
        /\ c.nonExpiring => /\ c.expiresAt = NoTime /\ c.jwtExp = NoTime
                            /\ d.expiresAt = NoTime
    BY LoadedLifetime, Zenon
  <1> HIDE DEF d
  <1>2. IssuedBy(d, moment) <=> IssuedBy(c, moment)
    BY <1>1 DEF IssuedBy, IsCredential, Times
  <1>3. CASE c.nonExpiring
    BY <1>1, <1>3, Zenon DEF Fresh, d
  <1>4. CASE ~c.nonExpiring
    BY <1>1, <1>2, <1>4, Zenon DEF Fresh, d
  <1> QED
    BY <1>3, <1>4

LEMMA NumberIsWritten ==
  ASSUME NEW c, IsCredential(c)
  PROVE  TimestampNumber(c.issuedAt) \in Numbers
  <1>1. CASE c.issuedAt = NoTime
    BY <1>1 DEF TimestampNumber, Number, Numbers
  <1>2. CASE c.issuedAt \in Int
    <2>1. PICK seconds, ticks \in Nat :
            TimestampNumber(c.issuedAt) \in {Number(FALSE, seconds, ticks),
                                            Number(TRUE, seconds, ticks)}
      BY <1>2, Written
    <2>2. /\ Number(FALSE, seconds, ticks) \in Numbers
          /\ Number(TRUE, seconds, ticks) \in Numbers
      BY DEF Number, Numbers
    <2> QED
      BY <2>1, <2>2
  <1> QED
    BY <1>1, <1>2 DEF IsCredential, Times

LEMMA WrittenIDs ==
  ASSUME NEW c, IsCredential(c)
  PROVE  IsList([i \in DOMAIN c.teams |-> c.teams[i].id])
  <1> DEFINE ids == [i \in DOMAIN c.teams |-> c.teams[i].id]
  <1>1. PICK n \in Nat : DOMAIN c.teams = 1..n
    BY SeqIsList DEF IsCredential, AreTeams, IsList
  <1>2. DOMAIN ids = 1..n /\ \A i \in 1..n : ids[i] \in Range(ids)
    BY <1>1 DEF Range
  <1>3. ids \in [1..n -> Range(ids)]
    BY <1>2
  <1> HIDE DEF ids
  <1>4. IsList(ids)
    BY <1>3, ListIsSeq DEF IsList
  <1> QED
    BY <1>4 DEF ids

\* Load accepts what Save has written (file.go:240-361).
LEMMA SavedMayLoad ==
  ASSUME NEW c, IsCredential(c), MaySave(c), Storable(c)
  PROVE  MayLoad(ToFile(c))
  <1> DEFINE f == ToFile(c)
             d == FromFile(f)
  <1>1. /\ f.oversized = c.oversized /\ f.origin = c.origin
        /\ f.issuedAt = TimestampNumber(c.issuedAt)
        /\ f.expiresAt = FormatTime(c.expiresAt)
        /\ f.teams = [ids |-> [i \in DOMAIN c.teams |-> c.teams[i].id],
                      details |-> c.teams]
    BY WrittenFields, Zenon DEF IsCredential
  <1>2. /\ d.text = c.text /\ d.nonExpiring = c.nonExpiring /\ d.jwtExp = c.jwtExp
        /\ Expiry(d) = Expiry(c)
        /\ c.nonExpiring => /\ c.expiresAt = NoTime /\ c.jwtExp = NoTime
                            /\ d.expiresAt = NoTime
    BY LoadedLifetime, Zenon
  <1>3. MayLoad(f) <=>
          /\ ~f.oversized
          /\ f.origin # "invalid"
          /\ Unreadable \notin {f.issuedAt, f.expiresAt}
          /\ NamesEveryTeam(f)
          /\ IF d.method = "" /\ ~d.nonExpiring THEN d.text = "clean" ELSE Validates(d)
    BY Zenon DEF MayLoad
  <1> HIDE DEF f, d
  <1>4. ~f.oversized /\ f.origin # "invalid"
    BY <1>1, Zenon DEF MaySave, Storable
  <1>5. f.issuedAt # Unreadable
    BY <1>1, NumberIsWritten, NumbersAssumption DEF IsCredential
  <1>6. f.expiresAt # Unreadable
    BY <1>1, Zenon DEF Storable
  <1>7. NamesEveryTeam(f)
    <2>1. /\ f.teams.ids = [i \in DOMAIN c.teams |-> c.teams[i].id]
          /\ f.teams.details = c.teams
      BY <1>1
    <2>2. \A i \in DOMAIN c.teams : c.teams[i].id # NoID
      BY Zenon DEF MaySave
    <2> QED
      BY <2>1, <2>2 DEF NamesEveryTeam
  <1>8. Validates(d)
    BY <1>2, Zenon DEF MaySave, Validates
  <1>9. d.text = "clean"
    BY <1>8, Zenon DEF Validates
  <1> QED
    BY <1>3, <1>4, <1>5, <1>6, <1>7, <1>8, <1>9 DEF f

\* Each team of a saved credential is loaded once, with an alias given for it.
LEMMA SavedTeams ==
  ASSUME NEW c, IsCredential(c)
  PROVE  LET teams == FromFile(ToFile(c)).teams
         IN  /\ \E n \in Nat : DOMAIN teams = 1..n /\ Len(teams) = n
             /\ Distinct(teams)
             /\ IDs(teams) = IDs(c.teams)
             /\ \A i \in DOMAIN teams :
                   teams[i].alias \in AliasesOf(teams[i].id, c.teams, c)
  <1> DEFINE f == ToFile(c)
             ids == [i \in DOMAIN c.teams |-> c.teams[i].id]
  <1>1. HasFields(f) /\ f.teams = [ids |-> ids, details |-> c.teams]
        /\ f.teamID = c.teamID /\ f.teamAlias = c.teamAlias
    BY WrittenFields, Zenon DEF IsCredential
  <1>2. FromFile(f).teams = ParseTeams(f)
    BY <1>1, ReadFields, Zenon
  <1>3. f.teams.ids = ids /\ f.teams.details = c.teams /\ AreTeams(c.teams)
    BY <1>1 DEF IsCredential
  <1>4. IsList(ids)
    BY WrittenIDs
  <1>5. Range(ids) = IDs(c.teams)
    BY DEF Range, IDs
  <1> HIDE DEF f, ids
  <1> DEFINE teams == ParseTeams(f)
  <1>6. /\ \E names, aliases : \E n \in Nat : teams \in [1..n -> Teams(names, aliases)]
        /\ Distinct(teams)
        /\ IDs(teams) = Range(ids) \cup IDs(c.teams)
        /\ \A i \in DOMAIN teams :
              teams[i].alias \in AliasesOf(teams[i].id, c.teams, f)
    BY <1>3, <1>4, ParsedTeams, Zenon
  <1>a. \A id : AliasesOf(id, c.teams, f) = AliasesOf(id, c.teams, c)
    BY <1>1 DEF AliasesOf
  <1> HIDE DEF teams
  <1>p. PICK names, aliases : \E n \in Nat : teams \in [1..n -> Teams(names, aliases)]
    BY <1>6
  <1>7. PICK n \in Nat : teams \in [1..n -> Teams(names, aliases)]
    BY <1>p
  <1>8. DOMAIN teams = 1..n /\ Len(teams) = n
    BY <1>7, ListIsSeq
  <1>9. IDs(teams) = IDs(c.teams)
    BY <1>5, <1>6
  <1> QED
    BY <1>2, <1>6, <1>8, <1>9, <1>a, Zenon DEF f, teams

LEMMA WrittenIsFile ==
  ASSUME NEW c, IsCredential(c)
  PROVE  IsFile(ToFile(c))
  <1> DEFINE f == ToFile(c)
             ids == [i \in DOMAIN c.teams |-> c.teams[i].id]
  <1>1. /\ HasFields(f) /\ f.jwtExp = c.jwtExp
        /\ f.issuedAt = TimestampNumber(c.issuedAt)
        /\ f.expiresAt = FormatTime(c.expiresAt)
        /\ f.teams = [ids |-> ids, details |-> c.teams]
    BY WrittenFields, Zenon DEF IsCredential
  <1>2. f.teams.ids = ids /\ f.teams.details = c.teams /\ AreTeams(c.teams)
    BY <1>1 DEF IsCredential
  <1>3. IsList(ids)
    BY WrittenIDs
  <1> HIDE DEF f, ids
  <1>4. f.issuedAt \in Numbers
    BY <1>1, NumberIsWritten
  <1>5. f.expiresAt \in Times \cup {Unreadable} /\ f.jwtExp \in Times
    BY <1>1 DEF FormatTime, IsCredential
  <1> QED
    BY <1>1, <1>2, <1>3, <1>4, <1>5 DEF IsFile, f

\* A credential that was loaded is loaded as it was after it has been saved.
LEMMA LoadedAgain ==
  ASSUME NEW f, IsFile(f), MayLoad(f), MaySave(FromFile(f)), Storable(FromFile(f))
  PROVE  FromFile(ToFile(FromFile(f))) = FromFile(f)
  <1> DEFINE c == FromFile(f)
             g == ToFile(c)
             d == FromFile(g)
  <1>1. HasFields(f) /\ IsList(f.teams.ids) /\ AreTeams(f.teams.details)
    BY Zenon DEF IsFile
  <1>2. /\ HasFields(c) /\ c.jwtExp = f.jwtExp
        /\ c.teamID = f.teamID /\ c.teamAlias = f.teamAlias
        /\ c.issuedAt = ParseTimestamp(f.issuedAt) /\ c.teams = ParseTeams(f)
    BY <1>1, ReadFields, Zenon
  <1>3. PICK dated :
          /\ dated.method = f.method /\ dated.jwtExp = f.jwtExp
          /\ dated.issuedAt = c.issuedAt /\ dated.expiresAt = f.expiresAt
          /\ c.expiresAt = IF f.expiresAt = NoTime THEN Expiry(dated) ELSE f.expiresAt
    BY <1>1, ReadFields, Zenon
  <1>4. c.method = f.method
    BY <1>1, ReadFields, Zenon
  <1> HIDE DEF c
  <1>5. /\ HasFields(g)
        /\ g.method = c.method /\ g.text = c.text /\ g.origin = c.origin
        /\ g.nonExpiring = c.nonExpiring /\ g.jwtExp = c.jwtExp
        /\ g.oversized = c.oversized
        /\ g.teamID = c.teamID /\ g.teamAlias = c.teamAlias
        /\ g.issuedAt = TimestampNumber(c.issuedAt)
        /\ g.expiresAt = FormatTime(c.expiresAt)
        /\ g.teams = [ids |-> [i \in DOMAIN c.teams |-> c.teams[i].id],
                      details |-> c.teams]
    BY <1>2, WrittenFields, Zenon
  <1> HIDE DEF g
  <1>6. /\ HasFields(d)
        /\ d.method = g.method /\ d.text = g.text /\ d.origin = g.origin
        /\ d.nonExpiring = g.nonExpiring /\ d.jwtExp = g.jwtExp
        /\ d.oversized = g.oversized
        /\ d.teamID = g.teamID /\ d.teamAlias = g.teamAlias
        /\ d.issuedAt = ParseTimestamp(g.issuedAt) /\ d.teams = ParseTeams(g)
    BY <1>5, ReadFields, Zenon
  <1>7. PICK again :
          /\ again.method = g.method /\ again.jwtExp = g.jwtExp
          /\ again.issuedAt = d.issuedAt /\ again.expiresAt = g.expiresAt
          /\ d.expiresAt = IF g.expiresAt = NoTime THEN Expiry(again) ELSE g.expiresAt
    BY <1>5, ReadFields, Zenon
  <1> HIDE DEF d
  <1>8. c.issuedAt \in Times \ {0}
    <2>1. f.issuedAt \in Numbers \cup {NoTime}
      BY Zenon DEF IsFile, MayLoad
    <2>2. CASE f.issuedAt = NoTime
      BY <1>2, <2>2 DEF ParseTimestamp, Times
    <2>3. CASE f.issuedAt \in Numbers
      <3>1. f.issuedAt # NoTime
        BY <2>3, NumbersAssumption
      <3> DEFINE size == f.issuedAt.seconds * Second + f.issuedAt.fraction
      <3>2. size \in Nat
        BY <2>3 DEF Numbers
      <3>3. c.issuedAt = IF size = 0 THEN NoTime
                         ELSE IF f.issuedAt.negative THEN -size ELSE size
        BY <1>2, <3>1, Zenon DEF ParseTimestamp, NumberTimestamp
      <3> HIDE DEF size
      <3> QED
        BY <3>2, <3>3 DEF Times
    <2> QED
      BY <2>1, <2>2, <2>3
  <1>9. d.issuedAt = c.issuedAt
    BY <1>5, <1>6, <1>8, TimestampsSurvive
  <1>10. d.expiresAt = c.expiresAt
    <2>1. g.expiresAt = c.expiresAt
      BY <1>5, Zenon DEF c, Storable, FormatTime
    <2>2. CASE c.expiresAt # NoTime
      BY <1>7, <2>1, <2>2, Zenon
    <2>3. CASE c.expiresAt = NoTime
      <3>1. f.expiresAt = NoTime /\ Expiry(dated) = NoTime
        BY <1>3, <2>3, Zenon
      <3>2. Expiry(again) = Expiry(dated)
        <4>1. again.method = dated.method /\ again.jwtExp = dated.jwtExp
          BY <1>2, <1>3, <1>4, <1>5, <1>7
        <4>2. again.issuedAt = dated.issuedAt /\ again.expiresAt = dated.expiresAt
          BY <1>3, <1>7, <1>9, <2>1, <2>3, <3>1
        <4> QED
          BY <4>1, <4>2, SameExpiry
      <3> QED
        BY <1>7, <2>1, <2>3, <3>1, <3>2, Zenon
    <2> QED
      BY <2>2, <2>3
  <1>11. d.teams = c.teams
    <2> DEFINE teams == ParseTeams(f)
    <2>1. /\ \E ids, aliases : \E n \in Nat : teams \in [1..n -> Teams(ids, aliases)]
          /\ Distinct(teams) /\ Settled(teams, f)
      BY <1>1, ParsedTeams, Zenon
    <2>2. teams = c.teams
      BY <1>2
    <2> HIDE DEF teams
    <2>p. PICK ids, aliases : \E n \in Nat : teams \in [1..n -> Teams(ids, aliases)]
      BY <2>1
    <2>3. PICK n \in Nat : teams \in [1..n -> Teams(ids, aliases)]
      BY <2>p
    <2>4. Settled(teams, g)
      BY <1>2, <1>5, <2>1 DEF Settled
    <2>5. g.teams.ids = [i \in 1..n |-> teams[i].id] /\ g.teams.details = teams
      BY <1>5, <2>2, <2>3
    <2>6. ParseTeams(g) = teams
      BY <2>1, <2>3, <2>4, <2>5, Reparsed
    <2> QED
      BY <1>6, <2>2, <2>6
  <1>12. /\ d.method = c.method /\ d.text = c.text /\ d.origin = c.origin
         /\ d.nonExpiring = c.nonExpiring /\ d.jwtExp = c.jwtExp
         /\ d.oversized = c.oversized
         /\ d.teamID = c.teamID /\ d.teamAlias = c.teamAlias
    BY <1>5, <1>6, Zenon
  <1> QED
    BY <1>2, <1>6, <1>9, <1>10, <1>11, <1>12, Zenon DEF HasFields, c, d, g

---------------------------------------------------------------------------
\* What Load reads is a file that was found, or what Save has made of the credential
\* that it was given and has accepted.
ContentInv ==
    /\ given \in Given \cup {Nothing}
    /\ pc = "save" => given # Nothing
    /\ pc \in Retrying /\ operation = "replace" =>
          given # Nothing /\ MaySave(given)
    /\ IF given = Nothing THEN file \in Foreign
       ELSE file = Nothing \/ (MaySave(given) /\ file = ToFile(given))
    /\ pc = "read" => file # Nothing
    /\ ctxErr \in Errors \cup {"none"}
    /\ outcome \in {"loaded", "refused"} =>
          /\ pc = "done" /\ file # Nothing
          /\ IF outcome = "loaded" THEN MayLoad(file) /\ loaded = FromFile(file)
             ELSE ~MayLoad(file)

\* A call that returns neither "loaded" nor "refused" leaves the content as it is.
LEMMA ReturnsContentInv ==
  ASSUME ContentInv, NEW result, result \notin {"loaded", "refused"}, Returns(result)
  PROVE  ContentInv'
  BY DEF ContentInv, Returns, data, retry, Errors, Retrying

LEMMA ContentInvInductive == ContentInv /\ [Next]_vars => ContentInv'
  <1> SUFFICES ASSUME ContentInv, [Next]_vars PROVE ContentInv'
    OBVIOUS
  <1> USE DEF data, retry, Errors, Retrying
  <1>1. CASE SaveFails \/ LoadFails \/ GivesUp \/ TimeIsUp \/ Fails \/ WaitIsCut
            \/ ReadFails
    <2>1. PICK result : result \notin {"loaded", "refused"} /\ Returns(result)
      BY <1>1
         DEF SaveFails, LoadFails, GivesUp, TimeIsUp, Fails, WaitIsCut, ReadFails,
             ContentInv
    <2> QED
      BY <2>1, ReturnsContentInv
  <1>2. CASE Encode
    BY <1>2 DEF Encode, Begins, ContentInv
  <1>3. CASE Open
    BY <1>3 DEF Open, Begins, ContentInv
  <1>4. CASE Tries \/ FailsInUse \/ Waits
    BY <1>4 DEF Tries, FailsInUse, Waits, ContentInv
  <1>5. CASE Replaces
    BY <1>5 DEF Replaces, ContentInv
  <1>6. CASE Opens
    BY <1>6, RetryAssumption DEF Opens, Answer, ContentInv
  <1>7. CASE TimerFires
    BY <1>7 DEF TimerFires, ContentInv
  <1>8. CASE Decode
    BY <1>8 DEF Decode, ContentInv
  <1>9. ASSUME NEW how \in {"free", "shared", "exclusive", "forbidden"}, Hold(how)
        PROVE  ContentInv'
    BY <1>9 DEF Hold, ContentInv
  <1>10. ASSUME NEW error \in Errors, End(error) PROVE ContentInv'
    BY <1>10 DEF End, ContentInv
  <1>11. CASE Tick
    BY <1>11 DEF Tick, ContentInv
  <1>12. CASE UNCHANGED vars
    BY <1>12 DEF vars, ContentInv
  <1> QED
    BY <1>1, <1>2, <1>3, <1>4, <1>5, <1>6, <1>7, <1>8, <1>9, <1>10, <1>11, <1>12
       DEF Next, Step

LEMMA ContentInvHolds == Spec => []ContentInv
  <1>1. Init => ContentInv
    BY RetryAssumption DEF Init, ContentInv, Errors, Retrying
  <1> QED
    BY <1>1, ContentInvInductive, PTL DEF Spec

LEMMA ContentIsFile == ContentInv /\ file # Nothing => IsFile(file)
  BY WrittenIsFile, ContentAssumption DEF ContentInv

\* What Save has accepted and Load reads back is the same credential: accepted, fresh
\* at the same moments, of the same teams, each once, with an alias given for it, and
\* without one only where none was given
\* (file.go:240-298, 300-361, 417-472).
THEOREM SavedIsLoadableHolds == Spec => []SavedIsLoadable
  <1>1. ContentInv => SavedIsLoadable
    <2> SUFFICES ASSUME ContentInv, given # Nothing,
                        outcome \in {"loaded", "refused"}, Storable(given)
                 PROVE  /\ outcome = "loaded"
                        /\ \A moment \in Moments :
                              Fresh(loaded, moment) <=> Fresh(given, moment)
                        /\ TeamIDs(loaded) = TeamIDs(given)
                        /\ Len(loaded.teams) = Cardinality(TeamIDs(given))
                        /\ \A i \in DOMAIN loaded.teams :
                              loaded.teams[i].alias \in
                                 AliasesOf(loaded.teams[i].id, given.teams, given)
      BY DEF SavedIsLoadable
    <2>1. IsCredential(given) /\ MaySave(given) /\ file = ToFile(given)
      BY ContentAssumption DEF ContentInv
    <2>2. outcome = "loaded" /\ loaded = FromFile(ToFile(given))
      BY <2>1, SavedMayLoad DEF ContentInv
    <2>3. \A moment \in Moments : Fresh(loaded, moment) <=> Fresh(given, moment)
      BY <2>1, <2>2, LoadedAsFresh, RetryAssumption
    <2> DEFINE teams == loaded.teams
    <2>4. /\ \E n \in Nat : DOMAIN teams = 1..n /\ Len(teams) = n
          /\ Distinct(teams)
          /\ IDs(teams) = IDs(given.teams)
          /\ \A i \in DOMAIN teams :
                teams[i].alias \in AliasesOf(teams[i].id, given.teams, given)
      BY <2>1, <2>2, SavedTeams, Zenon
    <2>5. TeamIDs(loaded) = IDs(teams) /\ TeamIDs(given) = IDs(given.teams)
      BY DEF TeamIDs, IDs
    <2> HIDE DEF teams
    <2>6. PICK n \in Nat : DOMAIN teams = 1..n /\ Len(teams) = n
      BY <2>4
    <2>7. Cardinality(IDs(teams)) = n
      <3> DEFINE id == [i \in 1..n |-> teams[i].id]
      <3>1. id \in Bijection(1..n, IDs(teams))
        <4>1. id \in [1..n -> IDs(teams)]
          BY <2>6 DEF IDs
        <4>2. \A i, j \in 1..n : id[i] = id[j] => i = j
          BY <2>4, <2>6 DEF Distinct
        <4>3. \A t \in IDs(teams) : \E i \in 1..n : id[i] = t
          BY <2>6 DEF IDs
        <4> HIDE DEF id
        <4> QED
          BY <4>1, <4>2, <4>3 DEF Bijection, Injection, Surjection, IsInjective
      <3> QED
        BY <3>1, FS_CountingElements DEF ExistsBijection
    <2> QED
      BY <2>2, <2>3, <2>4, <2>5, <2>6, <2>7 DEF teams
  <1> QED
    BY <1>1, ContentInvHolds, PTL

\* A credential that was loaded, from a file of whatever origin, is loaded as it was
\* after it has been saved again (cli.go:366-385, source_refresh.go:92-113).
THEOREM SecondSaveChangesNothingHolds == Spec => []SecondSaveChangesNothing
  <1>1. ContentInv => SecondSaveChangesNothing
    <2> SUFFICES ASSUME ContentInv, outcome = "loaded", MaySave(loaded), Storable(loaded)
                 PROVE  FromFile(ToFile(loaded)) = loaded
      BY DEF SecondSaveChangesNothing
    <2>1. MayLoad(file) /\ loaded = FromFile(file) /\ file # Nothing
      BY DEF ContentInv
    <2> QED
      BY <2>1, ContentIsFile, LoadedAgain
  <1> QED
    BY <1>1, ContentInvHolds, PTL
=============================================================================

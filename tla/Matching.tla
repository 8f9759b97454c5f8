------------------------------- MODULE Matching -------------------------------
(***************************************************************************)
(* compareAllProviders(): which observations are the same game             *)
(*   .../modules/matching/matching.ts, team-aliases.ts                     *)
(*                                                                         *)
(* An observation names a row (a bookmaker's event), two teams, a start, a *)
(* tournament and whether it is still before the game.  Names stand for    *)
(* cleaned keys; what makes two of them similar (an abbreviation, a plural *)
(* or one letter) is the relation Similar.  One esport.  Tournaments are   *)
(* compared by their reviewed names, which persisted tournament aliases    *)
(* only repeat.                                                            *)
(***************************************************************************)
EXTENDS Integers, Sequences, FiniteSets

CONSTANTS
  Row, ProviderOf,   \* ProviderOf[r]: the bookmaker of row r
  Name, None,
  Reviewed,          \* Reviewed[n]: the reviewed name of n, or n
  Similar,           \* pairs of names, both ways
  Rank,              \* names by length, then alphabet
  Window             \* how far apart near starts may be (5 minutes)

ASSUME MatchingAssumption ==
  /\ None \notin Name
  /\ Reviewed \in [Name -> Name]
  /\ \A pair \in Similar : <<pair[2], pair[1]>> \in Similar
  /\ Rank \in [Name -> Nat] /\ \A n, k \in Name : Rank[n] = Rank[k] => n = k
  /\ Window \in Nat

Observation == [row : Row, a : Name, b : Name, start : Nat, tournament : STRING,
                prematch : BOOLEAN]

Members(g) == {g[n] : n \in 1..Len(g)}
RowsOf(g) == {e.row : e \in Members(g)}

\* What s has of S, in its order.
Kept(s, S) ==
  LET kept[n \in 0..Len(s)] ==
        IF n = 0 THEN <<>>
        ELSE IF s[n] \in S THEN Append(kept[n - 1], s[n]) ELSE kept[n - 1]
  IN  kept[Len(s)]

\* canonicalTeamName(): persisted aliases first, then the reviewed ones.
Canonical(n, aliases) == IF aliases[n] # None THEN aliases[n] ELSE Reviewed[n]

Pair(e, aliases) == {Canonical(e.a, aliases), Canonical(e.b, aliases)}

IsNear(e, f) == e.start - f.start \in -Window..Window

\* One team is the same and the other similar.  Only e's first team is tried as
\* the one that is the same.
AliasCandidate(e, f, aliases) ==
  /\ e.tournament = f.tournament
  /\ \E sides \in {<<f.a, f.b>>, <<f.b, f.a>>} :
       /\ Canonical(e.a, aliases) = Canonical(sides[1], aliases)
       /\ <<Canonical(e.b, aliases), Canonical(sides[2], aliases)>> \in Similar

eligible(e, f, aliases) ==
  /\ ProviderOf[e.row] # ProviderOf[f.row]
  /\ e.prematch /\ f.prematch
  /\ IF Pair(e, aliases) = Pair(f, aliases)
     THEN e.start = f.start \/ (IsNear(e, f) /\ e.tournament = f.tournament)
     ELSE IsNear(e, f) /\ AliasCandidate(e, f, aliases)

\* Rows observed twice with different contents.
Conflicts(events) ==
  {r \in RowsOf(events) :
     \E e, f \in Members(events) : e.row = r /\ f.row = r /\ e # f}

\* One observation of each row: where the first was, with what the last says.
Unique(events) ==
  LET last(r) == CHOOSE n \in 1..Len(events) :
        events[n].row = r /\ \A k \in n + 1..Len(events) : events[k].row # r
      isFirst(n) == \A k \in 1..n - 1 : events[k].row # events[n].row
      one[n \in 0..Len(events)] ==
        IF n = 0 THEN <<>>
        ELSE IF isFirst(n) THEN Append(one[n - 1], events[last(events[n].row)])
        ELSE one[n - 1]
  IN  one[Len(events)]

\* The group of seed among the rows not seen: each member in turn brings in what
\* it is eligible with.
Group(seed, all, seen, aliases) ==
  LET grown[i \in 0..Len(all)] ==
        IF i = 0 THEN <<seed>>
        ELSE LET g == grown[i - 1]
             IN  IF i > Len(g) THEN g
                 ELSE g \o Kept(all, {f \in Members(all) :
                        /\ f.row \notin seen \cup RowsOf(g)
                        /\ eligible(g[i], f, aliases)})
  IN  grown[Len(all)]

Groups(all, aliases) ==
  LET found[n \in 0..Len(all)] ==
        IF n = 0 THEN [groups |-> <<>>, seen |-> {}]
        ELSE LET sofar == found[n - 1]
                 g == Group(all[n], all, sofar.seen, aliases)
             IN  IF all[n].row \in sofar.seen THEN sofar
                 ELSE [groups |-> Append(sofar.groups, g),
                       seen |-> sofar.seen \cup RowsOf(g)]
  IN  found[Len(all)].groups

Accepted_Chains(g, conflicts, aliases) ==
  /\ Len(g) > 1
  /\ Cardinality({ProviderOf[r] : r \in RowsOf(g)}) = Len(g)
  /\ RowsOf(g) \cap conflicts = {}

\* A complete clique with one row of each of its providers.
Accepted(g, conflicts, aliases) ==
  /\ Len(g) > 1
  /\ Cardinality({ProviderOf[r] : r \in RowsOf(g)}) = Len(g)
  /\ RowsOf(g) \cap conflicts = {}
  /\ \A m, n \in 1..Len(g) : m < n => eligible(g[m], g[n], aliases)

Reason(e, g, all, conflicts, aliases) ==
  IF Len(g) > 1 \/ e.row \in conflicts THEN "ambiguous"
  ELSE IF \E f \in Members(all) :
            /\ ProviderOf[f.row] # ProviderOf[e.row]
            /\ Pair(f, aliases) = Pair(e, aliases)
       THEN "time_or_status_mismatch"
  ELSE "no_team_pair"

\* The events of the bookmakers there are, and those that have somebody to be
\* compared with.
Mine(events, providers) ==
  Kept(events, {e \in Members(events) : ProviderOf[e.row] \in providers})

Compared(events, providers) ==
  IF Cardinality(providers) < 2 THEN <<>> ELSE Unique(Mine(events, providers))

\* compareAllProviders(): the accepted groups in order, the reasons of the rows
\* left alone, and the rows with nobody to compare them with.
Compare(events, providers, aliases) ==
  LET mine == Mine(events, providers)
      all == Compared(events, providers)
      conflicts == Conflicts(mine)
      groups == Groups(all, aliases)
      accepted == {g \in Members(groups) : Accepted(g, conflicts, aliases)}
  IN  [matched |-> Kept(groups, accepted),
       unmatched |->
         UNION {{<<e.row, Reason(e, g, all, conflicts, aliases)>> : e \in Members(g)} :
                g \in Members(groups) \ accepted},
       notApplicable |-> IF Cardinality(providers) < 2 THEN RowsOf(mine) ELSE {}]

-----------------------------------------------------------------------------
(* comparison(): the canonical event of a group and the aliases it teaches. *)

SideNames(g, side, aliases) ==
  LET mapped(e) == <<Canonical(e.a, aliases), Canonical(e.b, aliases)>>
      ours == mapped(g[1])[side]
  IN  {IF mapped(e)[side] = ours \/ <<mapped(e)[side], ours>> \in Similar
       THEN mapped(e)[side] ELSE mapped(e)[3 - side] : e \in Members(g)}

Fuller(names) == CHOOSE n \in names : \A k \in names : Rank[n] >= Rank[k]

CanonicalEvent(g, aliases) ==
  [a |-> Fuller(SideNames(g, 1, aliases)), b |-> Fuller(SideNames(g, 2, aliases)),
   start |-> g[1].start]

\* Learned[n]: what n is an alias of, or None.  Reviewed aliases prevail.
Learned(g, aliases) ==
  LET first == SideNames(g, 1, aliases)
      target(n) == Fuller(IF n \in first THEN first ELSE SideNames(g, 2, aliases))
      inferred == {n \in first \cup SideNames(g, 2, aliases) :
                     <<n, target(n)>> \in Similar}
      raw == {e.a : e \in Members(g)} \cup {e.b : e \in Members(g)}
  IN  [n \in Name |->
         IF n \in raw /\ Reviewed[n] # n THEN Reviewed[n]
         ELSE IF n \in inferred THEN target(n) ELSE None]
=============================================================================

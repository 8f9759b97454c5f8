---------------------------- MODULE MatchReconcile ----------------------------
(***************************************************************************)
(* MatchingRepository                                                      *)
(*   .../modules/persistence/repositories/matching.repository.ts           *)
(*                                                                         *)
(* The end of every publication transaction groups what the fresh lists    *)
(* show and reconciles the groups with what was decided before: each group *)
(* gets one canonical event, a current one, a historical one that fits, or *)
(* a new one; every change of a decision is kept; rows that match nobody   *)
(* have an open issue.  Names a group proves to be equal are learned.      *)
(*                                                                         *)
(* The rows and their decisions are read once, before the first group; the *)
(* canonical events and the aliases are written group by group.  The query *)
(* for the lists asks for no order.  Canonical events keep the keys of     *)
(* their teams, which the labels they are stored with map back to.  The    *)
(* conflict issues, opened and never resolved, are left out.               *)
(***************************************************************************)
EXTENDS Matching

CONSTANTS
  Scope,       \* the list scopes
  SiteOf,      \* SiteOf[s]: the bookmaker of s
  Listings,    \* Listings[s]: the lists s may publish
  ListTTL,     \* how long a list is fresh
  MaxAt,       \* bound: the last instant of a publication
  MaxReviews   \* bound: decisions taken by hand

ASSUME ReconcileAssumption ==
  /\ IsFiniteSet(Scope)
  /\ \A s \in Scope : \A l \in Listings[s] :
       l \in Seq(Observation) /\ \A r \in RowsOf(l) : ProviderOf[r] = SiteOf[s]
  /\ ListTTL \in Nat /\ MaxAt \in Nat /\ MaxReviews \in Nat

VARIABLES
  lists,       \* feed_scopes: lists[s], or None
  match,       \* event_matches: match[r], or None
  last,        \* match_decisions: the last decision on r, or None
  linked,      \* match_decisions: the latest one that gave r a canonical event
  canonicals,  \* canonical_events, in the order of their creation
  team,        \* team_aliases: team[n] is what n is an alias of, or None
  issue,       \* issue[r]: the unmatched issue of r is open
  reviews

matchVars == <<lists, match, last, linked, canonicals, team, issue, reviews>>

MatchInit ==
  /\ lists = [s \in Scope |-> None]
  /\ match = [r \in Row |-> None]
  /\ last = [r \in Row |-> None]
  /\ linked = [r \in Row |-> [canonical |-> None, at |-> 0]]
  /\ canonicals = <<>>
  /\ team = [n \in Name |-> None]
  /\ issue = [r \in Row |-> FALSE]
  /\ reviews = 0

Fresh(now, at) == {s \in Scope : now[s] # None /\ now[s].at >= at - ListTTL}

Orders(S) ==
  {o \in [1..Cardinality(S) -> S] : \A s \in S : \E n \in DOMAIN o : o[n] = s}

\* What the lists show, one after the other.
Shown(now, order) ==
  LET upTo[n \in 0..Len(order)] ==
        IF n = 0 THEN <<>> ELSE upTo[n - 1] \o now[order[n]].events
  IN  upTo[Len(order)]

IsManual(r) == match[r] # None /\ match[r].status = "manual"

HistoricalId_Never(r, c, aliases) == {}

\* historicalId(): the last canonical event r was given, if it still fits c.
HistoricalId(r, c, aliases) ==
  {id \in {linked[r].canonical} \ {None} :
     LET h == canonicals[id]
     IN  Pair(h, aliases) = Pair(c, aliases) /\ IsNear(h, c)}

\* A current canonical event is taken whether it fits or not.
PriorIds(g, c, aliases) ==
  UNION {IF match[r] # None /\ match[r].canonical # None
         THEN {match[r].canonical}
         ELSE HistoricalId(r, c, aliases) : r \in RowsOf(g)}

\* An alias taught before stays as it is.
Taught(aliases, learned) ==
  [n \in Name |-> IF aliases[n] = None THEN learned[n] ELSE aliases[n]]

\* One accepted group: what it does to the aliases, the canonical events and the
\* links of its rows.  Identities that disagree are withheld.
Linked(done, g) ==
  LET c == CanonicalEvent(g, team)
      priors == PriorIds(g, c, done.team)
      id == IF priors = {} THEN Len(done.canonicals) + 1
            ELSE CHOOSE p \in priors : TRUE
  IN  IF Cardinality(priors) > 1 THEN done
      ELSE [team |-> Taught(done.team, Learned(g, team)),
            canonicals |-> IF priors = {} THEN Append(done.canonicals, c)
                           ELSE [done.canonicals EXCEPT ![id] = c],
            link |-> [r \in Row |-> IF r \in RowsOf(g) THEN id ELSE done.link[r]]]

AllLinked(groups) ==
  LET after[n \in 0..Len(groups)] ==
        IF n = 0
        THEN [team |-> team, canonicals |-> canonicals, link |-> [r \in Row |-> None]]
        ELSE Linked(after[n - 1], groups[n])
  IN  after[Len(groups)]

Decision(canonical, status, reason) ==
  [canonical |-> canonical, status |-> status, reason |-> reason]

\* What the comparison and the links say of r; None where they say nothing.
Verdict(r, result, link) ==
  IF IsManual(r) THEN None
  ELSE IF link[r] # None THEN Decision(link[r], "matched", "grouped")
  ELSE IF \E u \in result.unmatched : u[1] = r
  THEN Decision(None, "unmatched",
                (CHOOSE u \in result.unmatched : u[1] = r)[2])
  ELSE None

NotApplicable(r, result) == r \in result.notApplicable /\ ~ IsManual(r)

Changes_OfLink(r, verdict) ==
  verdict # None /\ (match[r] = None \/ match[r].canonical # verdict.canonical)

Changes(r, verdict) == verdict # None /\ match[r] # verdict

Resolved(r, verdict, result) ==
  \/ verdict # None /\ verdict.status = "matched"
  \/ NotApplicable(r, result)

\* reconcile(): the lists are now, the publication is of at.  Of two decisions of
\* the same moment either may be read as the latest.
Reconcile(now, at) ==
  \E order \in Orders(Fresh(now, at)) :
    LET result == Compare(Shown(now, order), {SiteOf[s] : s \in Fresh(now, at)}, team)
        done == AllLinked(result.matched)
        verdict == [r \in Row |-> Verdict(r, result, done.link)]
    IN  /\ team' = done.team
        /\ canonicals' = done.canonicals
        /\ match' = [r \in Row |->
             IF verdict[r] # None THEN verdict[r]
             ELSE IF NotApplicable(r, result) /\ match[r] # None
                     /\ match[r].status = "unmatched" THEN None
             ELSE match[r]]
        /\ last' = [r \in Row |-> IF Changes(r, verdict[r]) THEN verdict[r] ELSE last[r]]
        /\ \E tie \in BOOLEAN : linked' = [r \in Row |->
             IF /\ Changes(r, verdict[r]) /\ verdict[r].canonical # None
                /\ at > linked[r].at \/ (tie /\ at = linked[r].at)
             THEN [canonical |-> verdict[r].canonical, at |-> at]
             ELSE linked[r]]
        /\ issue' = [r \in Row |->
             IF Resolved(r, verdict[r], result) THEN FALSE
             ELSE issue[r] \/ (verdict[r] # None /\ verdict[r].status = "unmatched")]

\* A list newer than the last of its scope.
PublishList(s) ==
  \E at \in 1..MaxAt : \E events \in Listings[s] :
    LET now == [lists EXCEPT ![s] = [events |-> events, at |-> at]]
    IN  /\ lists[s] # None => lists[s].at < at
        /\ lists' = now
        /\ Reconcile(now, at)
        /\ UNCHANGED reviews

\* The detail of some event: no list changes, but the moment does.
PublishDetail ==
  \E at \in 1..MaxAt : Reconcile(lists, at) /\ UNCHANGED <<lists, reviews>>

\* Somebody decides about r in the database.
Review(r) ==
  /\ reviews < MaxReviews
  /\ match[r] # None
  /\ match' = [match EXCEPT ![r].status = "manual"]
  /\ reviews' = reviews + 1
  /\ UNCHANGED <<lists, last, linked, canonicals, team, issue>>

MatchNext ==
  \/ \E s \in Scope : PublishList(s)
  \/ PublishDetail
  \/ \E r \in Row : Review(r)

MatchSpec == MatchInit /\ [][MatchNext]_matchVars

-----------------------------------------------------------------------------
(* Properties.                                                             *)

\* docs/DATA_MODEL.md: decisions are kept as a history of the current link.  Unless
\* somebody decided by hand, the last decision on a row is what the row shows, and
\* the row has an open unmatched issue exactly while it is unmatched, whatever
\* groups, quorums and lists of its bookmaker come and go.
RecordsFollowMatch ==
  \A r \in Row : ~ IsManual(r) =>
    /\ match[r] # None => last[r] = match[r]
    /\ issue[r] <=> match[r] # None /\ match[r].status = "unmatched"

\* docs/MATCHING.md, docs/DATA_MODEL.md: an identity is used again after an absence.
\* A row that was linked once and is linked again keeps its canonical event while
\* the bookmakers do not change what they say of their events, except in a step
\* that learns that two names are one: the history is compared before it is known.
IdentityIsKept ==
  [][\A r \in Row :
       /\ linked[r].canonical # None /\ match'[r] # match[r]
       /\ match'[r] # None /\ match'[r].status = "matched"
       => match'[r].canonical = linked[r].canonical \/ team' # team]_matchVars

\* What the code promises of groups, without its order: the sets of compared events
\* that are eligible with one another and with nothing else, neither this way nor
\* that.
IsolatedCliques(all, aliases) ==
  {X \in SUBSET all :
     /\ \E e, f \in X : e # f
     /\ \A e, f \in X : e # f => eligible(e, f, aliases)
     /\ \A e \in X, f \in all \ X : ~ eligible(e, f, aliases) /\ ~ eligible(f, e, aliases)}

Reference(all, conflicts, aliases) ==
  {{e.row : e \in X} : X \in {X \in IsolatedCliques(all, aliases) :
                                \A e \in X : e.row \notin conflicts}}

\* docs/MATCHING.md: a group is a complete clique with no ambiguity.  Whatever order
\* the database gives the lists in, no row is in two accepted groups, nor two rows of
\* one bookmaker in the same one; each isolated clique without a conflict is an
\* accepted group, and where being eligible does not depend on who is asked (an
\* AliasCandidate does) nothing else is.
GroupsAreCliques ==
  \A order \in Orders(Fresh(lists, 0)) :
    LET events == Shown(lists, order)
        sites == {SiteOf[s] : s \in Fresh(lists, 0)}
        all == Members(Compared(events, sites))
        found == {RowsOf(g) : g \in Members(Compare(events, sites, team).matched)}
        reference == Reference(all, Conflicts(Mine(events, sites)), team)
    IN  /\ \A X, Y \in found : X = Y \/ X \cap Y = {}
        /\ \A X \in found : \A r, q \in X : r # q => ProviderOf[r] # ProviderOf[q]
        /\ reference \subseteq found
        /\ (\A e, f \in all : eligible(e, f, team) => eligible(f, e, team))
             => found \subseteq reference

=============================================================================

--------------------------- MODULE MarketAnalytics ---------------------------
(***************************************************************************)
(* MarketAnalytics                                                         *)
(*   .../modules/monitor/market-analytics.ts    analyzeMarkets() and helpers*)
(*                                                                         *)
(* The comparison the monitor makes of one canonical market (one category, *)
(* map, period and line) of one event.  Odds are hundredths; probabilities *)
(* and medians are exact fractions <<numerator, denominator>>, where the   *)
(* code has floating-point numbers, and the rounding of what is displayed  *)
(* is left out.  Providers are numbers in the order of their names.        *)
(*                                                                         *)
(* `rendered` is a function from the providers compared to what            *)
(* MonitorService.provider() made of them.                                 *)
(***************************************************************************)
EXTENDS Integers, FiniteSets

CONSTANTS
  OutlierPercent,   \* ODDS_OUTLIER_THRESHOLD_PERCENT
  ValuePercent      \* VALUE_BET_MIN_EDGE_PERCENT

\* configuration.ts requires the minimum edge to be positive.
ASSUME AnalyticsAssumption == ValuePercent \in Nat \ {0}

Side == {"teamA", "teamB"}
Opposite(side) == CHOOSE other \in Side : other # side

\* The comparable markets of a provider.
Entries(provider) ==
  IF provider.active /\ provider.status = "healthy"
  THEN {m \in provider.markets : m.status = "healthy"}
  ELSE {}

\* Two healthy selections above 1, one for each team.
TwoSided(market) ==
  /\ Cardinality(market.selections) = 2
  /\ \A s \in market.selections : s.status = "healthy" /\ s.odds > 100
  /\ {s.side : s \in market.selections} = Side

\* The valid candidates: the two prices of each provider whose market is
\* unambiguous and complete.
Books(rendered) ==
  LET valid == {p \in DOMAIN rendered :
                  /\ Cardinality(Entries(rendered[p])) = 1
                  /\ \A m \in Entries(rendered[p]) : TwoSided(m)}
      market(p) == CHOOSE m \in Entries(rendered[p]) : TRUE
  IN [p \in valid |-> [side \in Side |->
        (CHOOSE s \in market(p).selections : s.side = side).odds]]

\* The ascending order of the values of a function, the first name among equals.
Precedes(value, p, q) ==
  LET x == value[p][1] * value[q][2]
      y == value[q][1] * value[p][2]
  IN x < y \/ (x = y /\ p < q)

Ahead(value, p) == {q \in DOMAIN value : Precedes(value, q, p)}

\* sorted[k], counted from 0.
Sorted(value, k) ==
  value[CHOOSE p \in DOMAIN value : Cardinality(Ahead(value, p)) = k]

\* median(), of a function from providers to fractions.
Median(value) ==
  LET n == Cardinality(DOMAIN value)
      middle == Sorted(value, n \div 2)
      before == Sorted(value, (n \div 2) - 1)
  IN IF n % 2 = 1 THEN middle
     ELSE <<before[1] * middle[2] + middle[1] * before[2], 2 * before[2] * middle[2]>>

\* deVigProbabilities() of two prices.
Fair(book, side) ==
  <<book[Opposite(side)], book["teamA"] + book["teamB"]>>

FairProbability_Lowest(books, side) ==
  LET least == CHOOSE p \in DOMAIN books :
        \A q \in DOMAIN books : books[p][side] <= books[q][side]
  IN Fair(books[least], side)

FairProbability(books, side) ==
  Median([p \in DOMAIN books |-> Fair(books[p], side)])

\* The prices that beat the fair one by the minimum edge.
ValueBets(books, status, confidence) ==
  IF status # "matched" \/ confidence < 80 \/ Cardinality(DOMAIN books) < 3
  THEN {}
  ELSE {v \in (DOMAIN books) \X Side :
          LET fair == FairProbability(books, v[2])
          IN books[v[1]][v[2]] * fair[1] >= (100 + ValuePercent) * fair[2]}

\* The highest price of a side, the first name among equals.
BestPrice(books, side) ==
  CHOOSE p \in DOMAIN books : \A q \in DOMAIN books \ {p} :
    \/ books[p][side] > books[q][side]
    \/ books[p][side] = books[q][side] /\ p < q

Outliers(books) ==
  IF Cardinality(DOMAIN books) < 3 THEN {}
  ELSE {v \in (DOMAIN books) \X Side :
          LET median == Median([q \in DOMAIN books |-> <<books[q][v[2]], 1>>])
              gap == books[v[1]][v[2]] * median[2] - median[1]
          IN 100 * gap > OutlierPercent * median[1]
             \/ 100 * (0 - gap) > OutlierPercent * median[1]}

\* The inverses of the best prices sum to less than 1.
Arbitrage(books) ==
  LET best(side) == books[BestPrice(books, side)][side]
  IN 100 * (best("teamA") + best("teamB")) < best("teamA") * best("teamB")

Nothing == [books |-> << >>, values |-> {}, outliers |-> {}, arbitrage |-> FALSE]

\* analyzeMarkets(), for one kind of market.
AnalyzeMarkets(canonical, status, confidence, rendered) ==
  LET books == Books(rendered)
  IN IF ~canonical \/ status \notin {"matched", "partial"}
        \/ Cardinality(DOMAIN books) < 2
     THEN Nothing
     ELSE [books |-> books,
           values |-> ValueBets(books, status, confidence),
           outliers |-> Outliers(books),
           arbitrage |-> Arbitrage(books)]
=============================================================================

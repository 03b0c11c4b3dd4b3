---------------------------- MODULE Calculations ----------------------------
(***************************************************************************)
(* The arithmetic every answer rests on: MarketObservation, engine.compare *)
(* and calculations.py. A value the market did not report is None.         *)
(*                                                                         *)
(* Percentages are whole numbers. A mean is kept as the pair of its sum    *)
(* and its count: what the code asks of one is its sign and size.          *)
(***************************************************************************)
EXTENDS Integers, Sequences, FiniteSets, SequencesExt

CONSTANT None

Abs(n) == IF n < 0 THEN -n ELSE n

IsSequence(s) == s \in Seq(ToSet(s))

\* The items of seq at the places of DOMAIN earlier, each one after the items
\* at the places that are earlier than its own.
Arranged(seq, earlier) ==
  [k \in 1..Cardinality(DOMAIN earlier) |->
     seq[CHOOSE i \in DOMAIN earlier : Cardinality(earlier[i]) = k - 1]]

AtPlaces(seq, places) == Arranged(seq, [i \in places |-> {j \in places : j < i}])

\* [x for x in seq if x in values]
Only(seq, values) == AtPlaces(seq, {i \in DOMAIN seq : seq[i] \in values})

\* list(dict.fromkeys(items)): each item where it occurs first.
Unique(seq) == AtPlaces(seq, {i \in DOMAIN seq : \A j \in DOMAIN seq : seq[j] = seq[i] => i <= j})

Symbols(obs) == {obs[i].sym : i \in DOMAIN obs}

\* next((item for item in ... if item.symbol == sym), None)
Find(obs, sym) ==
  LET at == {i \in DOMAIN obs : obs[i].sym = sym}
  IN IF at = {} THEN None ELSE obs[Min(at)]

RankImproved(o) ==
  IF None \in {o.rank, o.before} THEN None ELSE o.rank < o.before

\* A metric the observation does not have is None, as getattr's default is.
Metric(o, metric) ==
  CASE metric = "price_change_24h"  -> o.change
    [] metric = "volume_change_24h" -> o.volume
    [] metric = "market_cap"        -> o.cap
    [] metric = "market_cap_rank"   -> o.rank
    [] metric = "rank_improved"     -> RankImproved(o)
    [] OTHER                        -> None

Compare(left, operator, right) ==
  /\ left # None
  /\ CASE operator = ">"  -> left > right
       [] operator = ">=" -> left >= right
       [] operator = "<"  -> left < right
       [] operator = "<=" -> left <= right
       [] operator = "==" -> left = right

Change == "price_change_24h"

\* (value is None, value or 0): an ascending order puts missing values last,
\* and reverse=True turns the whole key round.
Precedes(o, p, field) ==
  LET v == Metric(o, field)  w == Metric(p, field)
  IN \/ v # None /\ w = None
     \/ v # None /\ w # None /\ v < w

\* sorted is stable, whichever way it sorts.
SortAssets(obs, field, order) ==
  LET First(i, j) == IF order = "descending" THEN Precedes(obs[j], obs[i], field)
                                             ELSE Precedes(obs[i], obs[j], field)
      Before(i, j) == First(i, j) \/ (~First(j, i) /\ i < j)
  IN Arranged(obs, [i \in DOMAIN obs |-> {j \in DOMAIN obs : Before(j, i)}])

RankAssets(obs, field, order) ==
  LET ranked == SortAssets(obs, field, order)
  IN [k \in DOMAIN ranked |-> [rank |-> k, sym |-> ranked[k].sym,
                               change |-> ranked[k].change, move |-> None]]

FilterThreshold(obs, field, operator, value) ==
  Only(obs, {o \in ToSet(obs) : Compare(Metric(o, field), operator, value)})

Reported(values) == Only(values, ToSet(values) \ {None})

Numbers(obs, field) == Reported([i \in DOMAIN obs |-> Metric(obs[i], field)])

AggregateMean(obs, field) ==
  LET numbers == Numbers(obs, field)
  IN IF numbers = <<>> THEN None
     ELSE [sum |-> FoldSeq(LAMBDA v, s : v + s, 0, numbers), of |-> Len(numbers)]

\* percent_declining and percent_advancing are None over no assets.
MarketBreadth(obs) ==
  LET numbers == Numbers(obs, Change)
  IN [assets    |-> Len(numbers),
      advancing |-> Cardinality({i \in DOMAIN numbers : numbers[i] > 0}),
      declining |-> Cardinality({i \in DOMAIN numbers : numbers[i] < 0})]

Difference(left, right) ==
  IF None \in {left, right} THEN None ELSE left - right

RelativePerformance(o, baseline) == Difference(o.change, baseline.change)

RankChange(o) == Difference(o.before, o.rank)

PercentageChange(current, previous) ==
  IF current = None \/ previous \in {None, 0} THEN None
  ELSE ((current - previous) * 100) \div previous
=============================================================================

---------------------------- MODULE Capabilities ----------------------------
(***************************************************************************)
(* The six capabilities of intelligence/capabilities: what each one claims *)
(* from the observations of a run. A claim is [kind, names, value]: which  *)
(* sentence it is, the coins it names and the number it gives, if any.     *)
(*                                                                         *)
(* extras is [history, window, missing]: the historical observations of    *)
(* the run as [sym, price] in order, the window they were asked for, and   *)
(* the tools that gave none.                                               *)
(***************************************************************************)
EXTENDS Planning

CONSTANTS
  WideEnough,  \* 5, the observations that make a universe
  FlaggedMost  \* 5, the coins an unusual activity names

Claim(kind, names, value) == [kind |-> kind, names |-> names, value |-> value]

Claims(name, claims, limits) == [name |-> name, claims |-> claims, limits |-> limits]

If(condition, seq) == IF condition THEN seq ELSE <<>>

MoveOf(o) == Claim("move", {o.sym}, o.change)

\* MarketCapability. The three first coins are claimed for one by one.
MarketClaims(obs, fear, task) ==
  LET wide == Len(obs) >= WideEnough \/ task.universe = "top"
      breadth == MarketBreadth(obs)
      moving == Only(Upto(obs, 3), {o \in ToSet(obs) : o.change # None})
  IN Claims("market", Upto(
       If(wide /\ breadth.assets > 0,
          <<Claim("breadth", {}, breadth.declining), Claim("mean", {}, AggregateMean(obs, Change).sum)>>)
       \o [i \in DOMAIN moving |-> MoveOf(moving[i])]
       \o If(fear # None, <<Claim("fear", {}, fear)>>), 8), {})

\* The last bar a condition of the task gives each metric.
Bar(task, metric, default) ==
  LET given == Only(task.conds, {c \in ToSet(task.conds) : c.metric = metric /\ c.value # None})
  IN IF given = <<>> THEN default ELSE Abs(Last(given).value)

Unusual(o, task) ==
  \/ o.change # None /\ Abs(o.change) >= Bar(task, Change, 5)
  \/ o.volume # None /\ Abs(o.volume) >= Bar(task, "volume_change_24h", 80)
  \/ RankChange(o) # None /\ Abs(RankChange(o)) >= 5

AnomalyClaims(obs, task) ==
  LET flagged == Only(obs, {o \in ToSet(obs) : Unusual(o, task)})
      named == Upto(flagged, FlaggedMost)
  IN Claims("anomaly",
       IF flagged = <<>> THEN <<Claim("quiet", {}, None)>>
       ELSE [i \in DOMAIN named |-> Claim("unusual", {named[i].sym}, named[i].change)], {})

ReactionClaims(obs, task) ==
  LET asset == TriggerAsset(task)
      trigger == Find(obs, asset)
      breadth == MarketBreadth(obs)
      steeper == Only(obs, {o \in ToSet(obs) :
        /\ trigger # None /\ o.sym # asset
        /\ RelativePerformance(o, trigger) # None /\ RelativePerformance(o, trigger) < 0})
  IN Claims("reaction", IF asset = "" THEN <<>>
       ELSE If(trigger # None /\ trigger.change # None, <<MoveOf(trigger)>>)
         \o If(breadth.assets > 0, <<Claim("declined", {}, breadth.declining)>>)
         \o If(steeper # <<>>, <<Claim("moved more", Symbols(Upto(steeper, 5)) \cup {asset}, None)>>),
       {})

Prices(history, sym) == Only(history, {p \in ToSet(history) : p.sym = sym})

\* Mutant of HistoricalClaims: the change of a day stands for the window.
HistoricalFromLive(obs, task, extras) ==
  Claims("historical", [i \in DOMAIN obs |-> Claim("over window", {obs[i].sym}, obs[i].change)], {})

\* HistoricalCapability: without a series the missing window is named, or
\* each live quote is when no window was asked for.
HistoricalClaims(obs, task, extras) ==
  LET period == Else(extras.window, task.window)
      syms == Unique([i \in DOMAIN extras.history |-> extras.history[i].sym])
      Moved(sym) == PercentageChange(Last(Prices(extras.history, sym)).price,
                                     Head(Prices(extras.history, sym)).price)
      moved == Only(syms, {s \in ToSet(syms) : Len(Prices(extras.history, s)) >= 2 /\ Moved(s) # None})
      absent == <<Claim("no history", {}, None)>>
  IN IF extras.history = <<>>
     THEN Claims("historical",
            IF period # "" THEN absent
            ELSE [i \in DOMAIN obs |-> Claim("live only", {obs[i].sym}, None)], {"needs history"})
     ELSE Claims("historical",
            IF moved # <<>>
            THEN [i \in DOMAIN moved |-> Claim("over window", {moved[i]}, Moved(moved[i]))]
            ELSE absent, {})

\* DiscoveryCapability over the listing: no step fetches a trending list.
DiscoveryClaims(obs) ==
  LET Two(o) == Cardinality({m \in {"volume", "rank", "price"} :
        \/ m = "volume" /\ o.volume # None /\ Abs(o.volume) >= 40
        \/ m = "rank" /\ RankChange(o) \notin {None, 0}
        \/ m = "price" /\ o.change # None /\ Abs(o.change) >= 5}) >= 2
      together == Only(Upto(obs, 15), {o \in ToSet(obs) : Two(o)})
  IN Claims("discovery",
       IF together = <<>> THEN <<Claim("none together", {}, None)>>
       ELSE [i \in DOMAIN together |-> Claim("together", {together[i].sym}, None)], {})

\* |BTC| >= |mean| and fewer than 60% moved its way.
LedByBitcoin(btc, mean, breadth) ==
  /\ Abs(btc.change) * mean.of >= Abs(mean.sum)
  /\ \/ btc.change < 0 /\ breadth.declining * 100 < 60 * breadth.assets
     \/ btc.change > 0 /\ breadth.advancing * 100 < 60 * breadth.assets

RegimeClaims(obs, fear) ==
  LET btc == Find(obs, "BTC")
      tape == If(btc # None /\ AggregateMean(obs, Change) # None /\ btc.change # None,
                 <<IF LedByBitcoin(btc, AggregateMean(obs, Change), MarketBreadth(obs))
                   THEN Claim("led by bitcoin", {}, None) ELSE Claim("broad tape", {}, None)>>)
      reading == tape \o If(fear # None, <<Claim("fear", {}, fear)>>)
  IN Claims("regime", IF reading = <<>> THEN <<Claim("needs data", {"BTC"}, None)>> ELSE reading, {})

Analyze(name, obs, fear, task, extras) ==
  CASE name = "market"     -> MarketClaims(obs, fear, task)
    [] name = "anomaly"    -> AnomalyClaims(obs, task)
    [] name = "reaction"   -> ReactionClaims(obs, task)
    [] name = "historical" -> HistoricalClaims(obs, task, extras)
    [] name = "discovery"  -> DiscoveryClaims(obs)
    [] name = "regime"     -> RegimeClaims(obs, fear)

RunCapabilities(task, names, obs, fear, extras) ==
  LET chosen == SelectCapabilities(task, names)
  IN [i \in DOMAIN chosen |-> Analyze(chosen[i], obs, fear, task, extras)]

\* merge_capability_payload, into a payload that has none yet.
Merged(results) ==
  [claims |-> Unique(FlattenSeq([i \in DOMAIN results |-> results[i].claims])),
   limits |-> UNION {results[i].limits : i \in DOMAIN results}]
=============================================================================

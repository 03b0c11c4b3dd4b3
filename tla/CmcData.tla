------------------------------- MODULE CmcData -------------------------------
(***************************************************************************)
(* What becomes of a CoinMarketCap answer: cmc/normalize.py, the history   *)
(* helpers of workflow_executor.py and the headlines of news.py and        *)
(* web_news.py.                                                            *)
(*                                                                         *)
(* A raw item is [id, sym, price, change, volume, cap, rank], a field that *)
(* is absent or no number None; an observation has before, its rank in the *)
(* snapshot of the lens, too. A historical answer lists assets as          *)
(* [sym, points]; a headline is [titled, coins].                           *)
(***************************************************************************)
EXTENDS Workflows

CONSTANT HeadlinesMost  \* 8, the headlines of a brief

Quantity == Int \cup {None}

\* The items of a market answer.
IsMarket(items) ==
  /\ IsSequence(items)
  /\ \A o \in ToSet(items) :
       /\ {"id", "sym", "price", "change", "volume", "cap", "rank"} \subseteq DOMAIN o
       /\ {o.change, o.volume, o.cap, o.rank} \subseteq Quantity

\* The assets of a historical answer, each with its prints.
IsHistory(assets) ==
  /\ IsSequence(assets)
  /\ \A asset \in ToSet(assets) :
       {"sym", "points"} \subseteq DOMAIN asset /\ IsSequence(asset.points)

\* The items of a news answer, each with the coins it names.
IsNews(items) == IsSequence(items) /\ \A item \in ToSet(items) : IsSequence(item.coins)

Stablecoins == {"USDT", "USDC", "BUSD", "DAI", "TUSD", "USDE", "FDUSD",
                "USDP", "GUSD", "PYUSD"}

Volatile(obs) == Only(obs, {o \in ToSet(obs) : o.sym \notin Stablecoins})

\* previous maps ids to ranks: Lens.rank_snapshot.
NormalizeListings(items, previous) ==
  LET Before(id) == IF id \in DOMAIN previous THEN previous[id] ELSE None
      Placed(item) == [field \in DOMAIN item \cup {"before"} |->
                           IF field = "before" THEN Before(item.id) ELSE item[field]]
  IN [i \in DOMAIN items |-> Placed(items[i])]

BetterListing(candidate, current) ==
  LET Placed(o) == IF o.rank = None THEN 1000000000 ELSE o.rank
      Worth(o) == IF o.cap = None THEN 0 ELSE o.cap
  IN IF None \in {candidate.price, current.price} /\ candidate.price # current.price
     THEN candidate.price # None
     ELSE IF Placed(candidate) # Placed(current) THEN Placed(candidate) < Placed(current)
     ELSE Worth(candidate) > Worth(current)

OfSymbol(items, sym) == Only(items, {o \in ToSet(items) : o.sym = sym})

\* Mutant of IndexBySymbol: the last asset of a ticker wins.
IndexLast(obs) ==
  LET syms == Unique([i \in DOMAIN obs |-> obs[i].sym])
  IN [k \in DOMAIN syms |-> Last(OfSymbol(obs, syms[k]))]

\* The first item that no item is better than.
Best(items) ==
  items[Min({i \in DOMAIN items : \A j \in DOMAIN items : ~BetterListing(items[j], items[i])})]

\* One observation for each ticker, in the order of the tickers.
IndexBySymbol(obs) ==
  LET syms == Unique([i \in DOMAIN obs |-> obs[i].sym])
  IN [k \in DOMAIN syms |-> Best(OfSymbol(obs, syms[k]))]

SelectQuoted(items, symbols, previous) ==
  LET known == IndexBySymbol(NormalizeListings(items, previous))
      asked == Only(symbols, Symbols(known))
  IN IF asked = <<>> THEN known ELSE [i \in DOMAIN asked |-> Find(known, asked[i])]

-----------------------------------------------------------------------------
(* Historical quotes *)

ChartSeries(assets) ==
  LET priced == [i \in DOMAIN assets |->
                   [assets[i] EXCEPT !.points = Reported(@)]]
  IN Only(priced, {s \in ToSet(priced) : Len(s.points) >= 2})

\* flatten_historical_quotes keeps the last print of each asset.
Flattened(assets) ==
  [i \in DOMAIN assets |->
     [id |-> 0, sym |-> assets[i].sym, change |-> None, volume |-> None, cap |-> None,
      rank |-> None, price |-> IF assets[i].points = <<>> THEN None ELSE Last(assets[i].points)]]

HistoryPoints(chart) ==
  FlattenSeq([i \in DOMAIN chart |->
    [j \in DOMAIN chart[i].points |-> [sym |-> chart[i].sym, price |-> chart[i].points[j]]]])

\* Without a series the last prints stand for the history.
HistoryOf(assets, symbols) ==
  IF ChartSeries(assets) # <<>> THEN HistoryPoints(ChartSeries(assets))
  ELSE LET prints == SelectQuoted(Flattened(assets), symbols, <<>>)
       IN [i \in DOMAIN prints |-> [sym |-> prints[i].sym, price |-> prints[i].price]]

\* _window_moves and the window_change of a row.
WindowMove(chart, sym) ==
  LET own == OfSymbol(chart, sym)
  IN IF own = <<>> THEN None
     ELSE PercentageChange(Last(Last(own).points), Head(Last(own).points))

ComparisonRow(o, chart) ==
  [rank |-> 0, sym |-> o.sym, change |-> o.change, move |-> WindowMove(chart, o.sym)]

-----------------------------------------------------------------------------
(* Headlines *)

NormalizeContent(items) == Only(items, {item \in ToSet(items) : item.titled})

\* symbols_from_items: at most eight.
SymbolsFromItems(items) ==
  Upto(Unique(FlattenSeq([i \in DOMAIN items |-> items[i].coins])), 8)

\* attach_quotes: each headline with those of its coins that were quoted.
AttachQuotes(items, obs) ==
  LET shown == Upto(items, HeadlinesMost)
  IN [i \in DOMAIN shown |-> Only(shown[i].coins, Symbols(obs))]

\* headlines_as_news_items: a headline of the page names no coin.
PageItems(page) == [i \in DOMAIN page |-> [titled |-> TRUE, coins |-> <<>>]]
=============================================================================

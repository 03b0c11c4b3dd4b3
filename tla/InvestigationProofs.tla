------------------------- MODULE InvestigationProofs -------------------------
(***************************************************************************)
(* Theorems of Investigation: whatever the market answers or refuses.      *)
(***************************************************************************)
EXTENDS Investigation, PlanningProofs

-----------------------------------------------------------------------------
(* Sequences of observations *)

LEMMA NormalizedSequence ==
  ASSUME NEW items, IsSequence(items), NEW previous
  PROVE  IsSequence(NormalizeListings(items, previous))
<1> PICK t : t = NormalizeListings(items, previous)
  OBVIOUS
<1>1. t = [i \in DOMAIN items |-> t[i]]
  BY DEF NormalizeListings
<1> QED BY <1>1, MappedSequence

LEMMA IndexedSequence ==
  ASSUME NEW obs, IsSequence(obs)
  PROVE  IsSequence(IndexBySymbol(obs))
<1> DEFINE named == [i \in DOMAIN obs |-> obs[i].sym]
           t == IndexBySymbol(obs)
<1>1. IsSequence(named)
  BY MappedSequence
<1>2. IsSequence(Unique(named))
  BY <1>1, UniqueSequence
<1>3. t = [k \in DOMAIN Unique(named) |-> t[k]]
  BY DEF IndexBySymbol
<1> HIDE DEF t, named
<1>4. IsSequence(t)
  BY <1>2, <1>3, MappedSequence
<1> QED BY <1>4 DEF t

LEMMA QuotedSequence ==
  ASSUME NEW items, IsSequence(items), NEW symbols, IsSequence(symbols), NEW previous
  PROVE  IsSequence(SelectQuoted(items, symbols, previous))
<1> DEFINE known == IndexBySymbol(NormalizeListings(items, previous))
           asked == Only(symbols, Symbols(known))
           found == [i \in DOMAIN asked |-> Find(known, asked[i])]
<1>1. IsSequence(known)
  BY NormalizedSequence, IndexedSequence
<1>2. IsSequence(asked)
  BY OnlyFacts
<1>3. SelectQuoted(items, symbols, previous) = IF asked = <<>> THEN known ELSE found
  BY DEF SelectQuoted
<1> HIDE DEF known, asked
<1>4. IsSequence(found)
  BY <1>2, MappedSequence
<1> QED BY <1>1, <1>3, <1>4

LEMMA SortedSequence ==
  ASSUME NEW obs, IsSequence(obs), NEW field, NEW order
  PROVE  IsSequence(SortAssets(obs, field, order)) /\ Len(SortAssets(obs, field, order)) = Len(obs)
<1> DEFINE First(i, j) == IF order = "descending" THEN Precedes(obs[j], obs[i], field)
                                                  ELSE Precedes(obs[i], obs[j], field)
           Before(i, j) == First(i, j) \/ (~First(j, i) /\ i < j)
           earlier == [i \in DOMAIN obs |-> {j \in DOMAIN obs : Before(j, i)}]
<1>1. SortAssets(obs, field, order) = Arranged(obs, earlier) /\ DOMAIN earlier = DOMAIN obs
  BY DEF SortAssets
<1> HIDE DEF earlier
<1>2. IsFiniteSet(DOMAIN obs) /\ DOMAIN obs = 1..Len(obs) /\ Len(obs) \in Nat
  BY SequenceFacts
<1>3. Cardinality(DOMAIN obs) = Len(obs)
  <2>1. PICK n \in Nat : n = Len(obs)
    BY <1>2
  <2>2. Cardinality(1..n) = n
    BY FS_Interval
  <2> QED BY <1>2, <2>1, <2>2
<1> QED BY <1>1, <1>2, <1>3, ArrangedSequence

LEMMA FilteredSequence ==
  ASSUME NEW obs, IsSequence(obs)
  PROVE  /\ IsSequence(Volatile(obs))
         /\ \A bar : IsSequence(FellMore(obs, bar))
         /\ \A field, operator, value : IsSequence(FilterThreshold(obs, field, operator, value))
BY OnlyFacts DEF Volatile, FellMore, FilterThreshold

\* The items of the sequences that are made of an answer.
LEMMA NormalizedMarket ==
  ASSUME NEW items, IsMarket(items), NEW previous
  PROVE  IsMarket(NormalizeListings(items, previous))
<1> PICK t : t = NormalizeListings(items, previous)
  OBVIOUS
<1>1. IsSequence(t)
  BY NormalizedSequence DEF IsMarket
<1>2. DOMAIN t = DOMAIN items
  BY DEF NormalizeListings
<1>3. ASSUME NEW i \in DOMAIN items
      PROVE  /\ {"id", "sym", "price", "change", "volume", "cap", "rank"} \subseteq DOMAIN t[i]
             /\ {t[i].change, t[i].volume, t[i].cap, t[i].rank} \subseteq Quantity
  <2> PICK o : o = items[i]
    OBVIOUS
  <2>1. /\ {"id", "sym", "price", "change", "volume", "cap", "rank"} \subseteq DOMAIN o
        /\ {o.change, o.volume, o.cap, o.rank} \subseteq Quantity
    BY DEF IsMarket, ToSet
  <2>2. PICK before :
          t[i] = [field \in DOMAIN o \cup {"before"} |-> IF field = "before"
            THEN before ELSE o[field]]
    BY DEF NormalizeListings
  <2>3. DOMAIN o \subseteq DOMAIN t[i]
    BY <2>2
  <2>4. /\ t[i].change = o.change /\ t[i].volume = o.volume
        /\ t[i].cap = o.cap /\ t[i].rank = o.rank
    BY <2>1, <2>2
  <2> QED BY <2>1, <2>3, <2>4
<1> QED BY <1>1, <1>2, <1>3 DEF IsMarket, ToSet

LEMMA OnlyMarket ==
  ASSUME NEW items, IsMarket(items), NEW values
  PROVE  IsMarket(Only(items, values))
BY OnlyFacts DEF IsMarket

LEMMA UptoMarket ==
  ASSUME NEW items, IsMarket(items), NEW n \in Nat
  PROVE  IsMarket(Upto(items, n))
<1>1. IsSequence(Upto(items, n)) /\ ToSet(Upto(items, n)) \subseteq ToSet(items)
  BY UptoFacts DEF IsMarket
<1> QED BY <1>1 DEF IsMarket

\* What BetterListing compares.
Priced(o) == o.price # None
PlaceOf(o) == IF o.rank = None THEN 1000000000 ELSE o.rank
WorthOf(o) == IF o.cap = None THEN 0 ELSE o.cap
Ranks(a, b) == IF PlaceOf(a) # PlaceOf(b) THEN PlaceOf(a) < PlaceOf(b) ELSE WorthOf(a) > WorthOf(b)

LEMMA PricedIsBetter ==
  ASSUME NEW a, NEW b
  PROVE  BetterListing(a, b) <=> \/ Priced(a) /\ ~Priced(b)
                                 \/ (Priced(a) <=> Priced(b)) /\ Ranks(a, b)
<1>1. CASE None \in {a.price, b.price} /\ a.price # b.price
  <2>1. BetterListing(a, b) <=> a.price # None
    BY <1>1, SMT DEF BetterListing
  <2> QED BY <1>1, <2>1 DEF Priced
<1>2. CASE ~(None \in {a.price, b.price} /\ a.price # b.price)
  <2>1. BetterListing(a, b) <=> Ranks(a, b)
    BY <1>2, SMT DEF BetterListing, Ranks, PlaceOf, WorthOf
  <2> QED BY <1>2, <2>1 DEF Priced
<1> QED BY <1>1, <1>2

LEMMA BetterIsAnOrder ==
  ASSUME NEW items, IsMarket(items),
         NEW R, R = {p \in (DOMAIN items) \X (DOMAIN items) :
           BetterListing(items[p[1]], items[p[2]])}
  PROVE  WeakOrder(DOMAIN items, R)
<1>1. ASSUME NEW i \in DOMAIN items
      PROVE  PlaceOf(items[i]) \in Int /\ WorthOf(items[i]) \in Int
  BY DEF IsMarket, ToSet, Quantity, PlaceOf, WorthOf
<1>2. ASSUME NEW i \in DOMAIN items, NEW j \in DOMAIN items
      PROVE  <<i, j>> \in R <=> BetterListing(items[i], items[j])
  OBVIOUS
<1>3. ASSUME NEW i \in DOMAIN items, NEW j \in DOMAIN items, NEW k \in DOMAIN items
      PROVE  /\ ~Ranks(items[i], items[i])
             /\ Ranks(items[i], items[j]) /\ Ranks(items[j], items[k]) => Ranks(items[i], items[k])
             /\ Ranks(items[i], items[k]) => Ranks(items[i], items[j]) \/ Ranks(items[j], items[k])
  BY <1>1 DEF Ranks
<1>4. \A i \in DOMAIN items : <<i, i>> \notin R
  BY <1>2, <1>3, PricedIsBetter
<1>5. \A i, j, k \in DOMAIN items : <<i, j>> \in R /\ <<j, k>> \in R => <<i, k>> \in R
  BY <1>2, <1>3, PricedIsBetter
<1>6. \A i, j, k \in DOMAIN items : <<i, k>> \in R => <<i, j>> \in R \/ <<j, k>> \in R
  BY <1>2, <1>3, PricedIsBetter
<1> QED BY <1>4, <1>5, <1>6 DEF WeakOrder

\* There is a best item, the first of those that none is better than.
LEMMA NothingIsBetter ==
  ASSUME NEW items, IsMarket(items), NEW o \in ToSet(items)
  PROVE  /\ Best(items) \in ToSet(items)
         /\ ~BetterListing(o, Best(items))
<1> DEFINE firsts == {i \in DOMAIN items :
                        \A j \in DOMAIN items : ~BetterListing(items[j], items[i])}
<1> PICK places : places = DOMAIN items
  OBVIOUS
<1>1. /\ places \in SUBSET Nat /\ places \in SUBSET Int /\ IsFiniteSet(places)
  BY SequenceFacts DEF IsMarket
<1> PICK R : R = {p \in places \X places : BetterListing(items[p[1]], items[p[2]])}
  OBVIOUS
<1> PICK earlier : earlier = [i \in places |->
                                {j \in places : <<j, i>> \in R \/ (<<i, j>> \notin R /\ j < i)}]
  OBVIOUS
<1>2. WeakOrder(places, R)
  BY BetterIsAnOrder
<1>3. StrictOrder(places, earlier)
  BY <1>1, <1>2, StableOrder
<1>4. places # {}
  BY DEF ToSet
<1>5. PICK i \in places : earlier[i] = {}
  <2> HIDE DEF firsts
  <2> QED BY <1>1, <1>3, <1>4, FirstIsTaken
<1>6. \A j \in places : <<j, i>> \notin R
  BY <1>5
<1>7. i \in firsts
  BY <1>6
<1>8. firsts \in SUBSET Nat /\ firsts # {}
  BY <1>1, <1>7
<1> HIDE DEF firsts
<1>9. PICK x \in firsts : \A y \in firsts : x <= y
  BY <1>8, LeastNumber
<1>10. Min(firsts) \in firsts
  BY <1>9 DEF Min
<1>11. Best(items) = items[Min(firsts)]
  BY DEF Best, firsts
<1>12. \A j \in DOMAIN items : ~BetterListing(items[j], items[Min(firsts)])
  BY <1>10 DEF firsts
<1>13. Min(firsts) \in DOMAIN items
  BY <1>10 DEF firsts
<1> QED BY <1>11, <1>12, <1>13 DEF ToSet

LEMMA BestIsAnItem ==
  ASSUME NEW items, IsMarket(items), items # <<>>
  PROVE  Best(items) \in ToSet(items)
<1>1. PICK o : o \in ToSet(items)
  BY EndsAreItems DEF IsMarket
<1> QED BY <1>1, NothingIsBetter

LEMMA IndexedMarket ==
  ASSUME NEW obs, IsMarket(obs)
  PROVE  /\ IsMarket(IndexBySymbol(obs))
         /\ ToSet(IndexBySymbol(obs)) \subseteq ToSet(obs)
<1> DEFINE named == [i \in DOMAIN obs |-> obs[i].sym]
<1> PICK syms : syms = Unique(named)
  OBVIOUS
<1> PICK t : t = IndexBySymbol(obs)
  OBVIOUS
<1>1. IsSequence(obs) /\ IsSequence(t)
  BY IndexedSequence DEF IsMarket
<1>2. IsSequence(named)
  BY <1>1, MappedSequence
<1>3. ToSet(syms) \subseteq ToSet(named)
  <2> HIDE DEF named
  <2> QED BY <1>2, UniqueSequence
<1>4. t = [k \in DOMAIN syms |-> Best(OfSymbol(obs, syms[k]))]
  BY DEF IndexBySymbol
<1>5. ASSUME NEW k \in DOMAIN syms
      PROVE  t[k] \in ToSet(obs)
  <2> PICK own : own = OfSymbol(obs, syms[k])
    OBVIOUS
  <2>1. IsMarket(own) /\ ToSet(own) = ToSet(obs) \cap {o \in ToSet(obs) : o.sym = syms[k]}
    BY <1>1, OnlyMarket, OnlyFacts DEF OfSymbol
  <2>2. syms[k] \in ToSet(named)
    BY <1>3 DEF ToSet
  <2>3. PICK i \in DOMAIN obs : obs[i].sym = syms[k]
    BY <2>2 DEF ToSet
  <2>4. obs[i] \in ToSet(own)
    BY <2>1, <2>3 DEF ToSet
  <2>5. own # <<>>
    BY <2>4 DEF ToSet
  <2> QED BY <1>4, <2>1, <2>5, BestIsAnItem
<1>6. ToSet(t) \subseteq ToSet(obs)
  BY <1>4, <1>5 DEF ToSet
<1> QED BY <1>1, <1>6 DEF IsMarket

LEMMA QuotedMarket ==
  ASSUME NEW items, IsMarket(items), NEW symbols, IsSequence(symbols), NEW previous
  PROVE  IsMarket(SelectQuoted(items, symbols, previous))
<1> PICK known : known = IndexBySymbol(NormalizeListings(items, previous))
  OBVIOUS
<1> PICK asked : asked = Only(symbols, Symbols(known))
  OBVIOUS
<1>1. IsMarket(known)
  BY NormalizedMarket, IndexedMarket
<1>2. IsSequence(asked) /\ ToSet(asked) \subseteq Symbols(known)
  BY OnlyFacts
<1> PICK found : found = [i \in DOMAIN asked |-> Find(known, asked[i])]
  OBVIOUS
<1>3. SelectQuoted(items, symbols, previous) = IF asked = <<>> THEN known ELSE found
  BY DEF SelectQuoted
<1>4. IsSequence(found)
  BY <1>2, MappedSequence
<1>5. ASSUME NEW i \in DOMAIN asked
      PROVE  found[i] \in ToSet(known)
  <2>1. asked[i] \in Symbols(known)
    BY <1>2 DEF ToSet
  <2> QED BY <1>1, <2>1, FindFacts DEF IsMarket
<1>6. ToSet(found) \subseteq ToSet(known)
  BY <1>5 DEF ToSet
<1>7. IsMarket(found)
  BY <1>1, <1>4, <1>6 DEF IsMarket
<1> QED BY <1>1, <1>3, <1>7

LEMMA NewsSequence ==
  ASSUME NEW items, IsNews(items)
  PROVE  IsNews(NormalizeContent(items)) /\ IsNews(PageItems(items))
<1>1. IsNews(NormalizeContent(items))
  BY OnlyFacts DEF NormalizeContent, IsNews
<1>2. IsNews(PageItems(items))
  <2> PICK t : t = PageItems(items)
    OBVIOUS
  <2>1. t = [i \in DOMAIN items |-> t[i]]
    BY DEF PageItems
  <2>2. IsSequence(t)
    BY <2>1, MappedSequence DEF IsNews
  <2>3. \A item \in ToSet(t) : item.coins = <<>>
    BY DEF PageItems, ToSet
  <2>4. IsSequence(<<>>)
    BY DEF IsSequence
  <2> QED BY <2>2, <2>3, <2>4 DEF IsNews
<1> QED BY <1>1, <1>2


LEMMA SymbolsSequence ==
  ASSUME NEW items, IsNews(items)
  PROVE  IsSequence(SymbolsFromItems(items))
<1> PICK named : named = [i \in DOMAIN items |-> items[i].coins]
  OBVIOUS
<1>1. IsSequence(named)
  BY MappedSequence DEF IsNews
<1>2. \A i \in DOMAIN named : IsSequence(named[i])
  BY DEF IsNews, ToSet
<1>3. IsSequence(FlattenSeq(named))
  BY <1>1, <1>2, FlattenFacts
<1>4. IsSequence(Upto(Unique(FlattenSeq(named)), 8))
  BY <1>3, UniqueSequence, UptoFacts
<1> QED BY <1>4 DEF SymbolsFromItems

LEMMA HistorySequence ==
  ASSUME NEW assets, IsHistory(assets), NEW symbols, IsSequence(symbols)
  PROVE  IsSequence(HistoryOf(assets, symbols))
<1> DEFINE priced == [i \in DOMAIN assets |-> [assets[i] EXCEPT !.points = Reported(@)]]
<1>1. IsSequence(assets)
  BY DEF IsHistory
<1>2. IsSequence(priced)
  BY <1>1, MappedSequence
<1>3. \A asset \in ToSet(priced) : IsSequence(asset.points)
  <2>1. ASSUME NEW i \in DOMAIN assets
        PROVE  IsSequence(priced[i].points)
    <3> PICK asset : asset = assets[i]
      OBVIOUS
    <3>1. IsSequence(asset.points) /\ "points" \in DOMAIN asset
      BY DEF IsHistory, ToSet
    <3>2. IsSequence(Reported(asset.points))
      BY <3>1, OnlyFacts DEF Reported
    <3>3. priced[i] = [asset EXCEPT !.points = Reported(asset.points)]
      OBVIOUS
    <3> HIDE DEF priced
    <3>4. priced[i].points = Reported(asset.points)
      BY <3>1, <3>3
    <3> QED BY <3>2, <3>4
  <2> QED BY <2>1 DEF ToSet
<1> PICK chart : chart = ChartSeries(assets)
  OBVIOUS
<1>4. IsSequence(chart) /\ ToSet(chart) \subseteq ToSet(priced)
  <2>1. chart = Only(priced, {s \in ToSet(priced) : Len(s.points) >= 2})
    BY DEF ChartSeries
  <2> HIDE DEF priced
  <2> QED BY <1>2, <2>1, OnlyFacts
<1>5. IsSequence(HistoryPoints(chart))
  <2> DEFINE Prints(i) == [j \in DOMAIN chart[i].points |->
                             [sym |-> chart[i].sym, price |-> chart[i].points[j]]]
             series == [i \in DOMAIN chart |-> Prints(i)]
  <2>1. ASSUME NEW i \in DOMAIN chart
        PROVE  IsSequence(series[i])
    <3>1. IsSequence(chart[i].points)
      BY <1>3, <1>4 DEF ToSet
    <3>2. IsSequence(Prints(i))
      BY <3>1, MappedSequence
    <3> QED BY <3>2
  <2>2. IsSequence(series) /\ DOMAIN series = DOMAIN chart
    BY <1>4, MappedSequence
  <2>3. HistoryPoints(chart) = FlattenSeq(series)
    BY DEF HistoryPoints
  <2> HIDE DEF series
  <2> QED BY <2>1, <2>2, <2>3, FlattenFacts
<1>6. IsSequence(Flattened(assets))
  BY <1>1, MappedSequence DEF Flattened
<1> PICK prints : prints = SelectQuoted(Flattened(assets), symbols, <<>>)
  OBVIOUS
<1>7. IsSequence(prints)
  BY <1>6, QuotedSequence
<1>8. IsSequence([i \in DOMAIN prints |-> [sym |-> prints[i].sym, price |-> prints[i].price]])
  BY <1>7, MappedSequence
<1> QED BY <1>5, <1>8 DEF HistoryOf

-----------------------------------------------------------------------------
(* Types *)

Kinds == {"no_result", "error", "event", "news_brief", "comparison", "market_summary",
          "ranked_table"}

IsWork(w) ==
  /\ DOMAIN w = DOMAIN Fresh
  /\ IsSequence(w.obs) /\ IsNews(w.items) /\ IsSequence(w.history) /\ w.limit \in Nat

IsResult(made) == DOMAIN made = DOMAIN Blank /\ made.kind \in Kinds

Typing ==
  /\ TypeOK
  /\ calls \in Seq(CmcTools)
  /\ IsWork(work)
  /\ result = None \/ IsResult(result)
  /\ stage = "observed" => IsResult(result)

\* What Answers gives for the tools of a run, whatever the market is.
LEMMA AnswersAreTyped ==
  ASSUME NEW arg, NEW data
  PROVE  /\ arg \in Nat /\ data \in Answers("get_market_listings", arg) => IsMarket(data)
         /\ data \in Answers("get_quotes", arg) => IsMarket(data)
         /\ data \in Answers("get_quotes_historical", arg) => IsHistory(data)
         /\ data \in Answers("get_content", arg) => IsNews(data)
<1> USE InvestigationAssumption
<1>1. ASSUME arg \in Nat, data \in Answers("get_market_listings", arg)
      PROVE  IsMarket(data)
  <2>1. PICK m \in Markets : data = Upto(m, arg)
    BY <1>1 DEF Answers
  <2>2. IsMarket(m)
    OBVIOUS
  <2> QED BY <1>1, <2>1, <2>2, UptoMarket
<1>2. ASSUME data \in Answers("get_quotes", arg)
      PROVE  IsMarket(data)
  <2>1. PICK m \in Markets : data = AboutAny(m, arg)
    BY <1>2 DEF Answers
  <2>2. IsMarket(m)
    OBVIOUS
  <2> QED BY <2>1, <2>2, OnlyMarket DEF AboutAny
<1>3. ASSUME data \in Answers("get_quotes_historical", arg)
      PROVE  IsHistory(data)
  <2>1. PICK h \in Histories : data = AboutAny(h, arg)
    BY <1>3 DEF Answers
  <2>2. IsHistory(h)
    OBVIOUS
  <2> QED BY <2>1, <2>2, OnlyFacts DEF AboutAny, IsHistory
<1>4. ASSUME data \in Answers("get_content", arg)
      PROVE  IsNews(data)
  BY <1>4 DEF Answers
<1> QED BY <1>1, <1>2, <1>3, <1>4

LEMMA WorkflowsAreValid ==
  ASSUME request \in Requests
  PROVE  /\ IsWorkflow(Current) /\ IsCompiled(Current) /\ IsWorkflow(request.standing.workflow)
         /\ IsPolicy(request.standing.policy)
BY InvestigationAssumption DEF Current, IsReport

\* A workflow that presents nothing is shown as a table.
LEMMA PresentedFormat ==
  ASSUME request \in Requests
  PROVE  Presented.format \in PresentFormats /\ Presented.limit \in Nat
<1> DEFINE presents == {s \in ToSet(Current.steps) : s.type = "present"}
           shown == Only(Current.steps, presents)
<1>1. IsSequence(Current.steps)
      /\ \A step \in ToSet(Current.steps) :
            step.limit \in Nat /\ (step.type = "present" => step.format \in PresentFormats)
  BY WorkflowsAreValid DEF IsWorkflow
<1>2. IsSequence(shown) /\ ToSet(shown) \subseteq presents
  BY <1>1, OnlyFacts
<1>3. Presented = IF shown = <<>> THEN Present("ranked_table", "", 0) ELSE Last(shown)
  BY DEF Presented
<1>4. CASE shown = <<>>
  BY <1>3, <1>4 DEF Present, Step, Plain, PresentFormats
<1>5. CASE shown # <<>>
  <2>1. Last(shown) \in presents
    <3> HIDE DEF shown, presents
    <3> QED BY <1>2, <1>5, EndsAreItems
  <2> HIDE DEF shown
  <2> QED BY <1>1, <1>3, <1>5, <2>1
<1> QED BY <1>4, <1>5


-----------------------------------------------------------------------------
(* What a step of the workflow changes *)

Keeps(changed) ==
  changed.read = work.read /\ changed.missing = work.missing /\ changed.history = work.history

Asked(changed) ==
  /\ at \in DOMAIN Current.steps /\ TheStep.type = "get_quotes_historical"
  /\ changed.read = work.read
  /\ changed.missing = work.missing \/ changed.history = work.history

StepEffect ==
  /\ stage = "steps" /\ stage' = "steps" /\ at' = at + 1
  /\ calls' \in Seq(CmcTools)
  /\ IsWork(work') /\ (Keeps(work') \/ Asked(work'))
  /\ UNCHANGED <<request, asking, attempt, kept, events, snapshot, result, outcome, torn>>

\* Every call is logged, and whatever it gave was an answer.
LEMMA CallsAreLogged ==
  ASSUME calls \in Seq(CmcTools), NEW tool \in CmcTools, NEW arg, NEW data
  PROVE  Call(tool, arg, data) => calls' \in Seq(CmcTools)
<1>1. Append(calls, tool) \in Seq(CmcTools)
  BY AppendProperties
<1> QED BY <1>1 DEF Call

LEMMA TheStepIsValid ==
  ASSUME request \in Requests, at \in Nat \ {0}, NEW types, AtStep(types)
  PROVE  /\ TheStep.type \in types /\ TheStep.type \in StepTypes
         /\ TheStep.limit \in Nat /\ IsSequence(TheStep.symbols)
         /\ at \in DOMAIN Current.steps
<1>1. IsSequence(Current.steps)
  BY WorkflowsAreValid DEF IsWorkflow
<1>2. Len(Current.steps) \in Nat /\ DOMAIN Current.steps = 1..Len(Current.steps)
  BY <1>1, SequenceFacts
<1>3. at \in DOMAIN Current.steps
  BY <1>2 DEF AtStep
<1>4. TheStep \in ToSet(Current.steps) /\ TheStep.type \in types
  BY <1>3 DEF AtStep, TheStep, ToSet
<1> QED BY <1>3, <1>4, WorkflowsAreValid DEF IsWorkflow

\* A step that was done left the work well formed.
LEMMA DoneEffect ==
  ASSUME stage = "steps", NEW changed, IsWork(changed), Keeps(changed),
         calls' \in Seq(CmcTools), Done(changed)
  PROVE  StepEffect
BY DEF Done, StepEffect

LEMMA SkipEffect ==
  ASSUME Typing, stage = "steps", NEW changed, IsWork(changed), Keeps(changed),
         Skip(changed)
  PROVE  StepEffect
<1>1. calls' \in Seq(CmcTools) /\ Done(changed)
  BY DEF Skip, Typing
<1> QED BY <1>1, DoneEffect

LEMMA FetchListingsEffect ==
  ASSUME Typing, FetchListings
  PROVE  StepEffect
<1>1. request \in Requests /\ at \in Nat \ {0} /\ calls \in Seq(CmcTools)
      /\ IsWork(work) /\ work.limit \in Nat
  BY DEF Typing, TypeOK, IsWork
<1>2. stage = "steps" /\ AtStep({"get_universe", "get_market_data"})
  BY DEF FetchListings, AtStep
<1>3. Limit \in Nat
  BY <1>1, <1>2, TheStepIsValid DEF Limit
<1>4. CASE work.listed # None
  <2>1. Skip([work EXCEPT !.limit = Limit])
    BY <1>4 DEF FetchListings
  <2>2. IsWork([work EXCEPT !.limit = Limit]) /\ Keeps([work EXCEPT !.limit = Limit])
    BY <1>1, <1>3 DEF IsWork, Fresh, Keeps
  <2> QED BY <1>2, <2>1, <2>2, SkipEffect
<1>5. CASE work.listed = None
  <2> PICK limit \in Nat : limit = Limit
    BY <1>3
  <2>1. PICK data \in Answers("get_market_listings", limit + Slack) :
          LET obs == Upto(Volatile(NormalizeListings(data, snapshot)), limit)
          IN /\ Call("get_market_listings", limit + Slack, data)
             /\ Done([work EXCEPT !.limit = limit, !.obs = obs, !.listed = obs])
    BY <1>5 DEF FetchListings
  <2>2. limit + Slack \in Nat
    BY InvestigationAssumption
  <2>3. IsSequence(data)
    BY <2>2, AnswersAreTyped DEF IsMarket
  <2> PICK obs : obs = Upto(Volatile(NormalizeListings(data, snapshot)), limit)
    OBVIOUS
  <2>4. IsSequence(obs)
    BY <2>3, NormalizedSequence, FilteredSequence, UptoFacts
  <2>5. calls' \in Seq(CmcTools)
    BY <1>1, <2>1, CallsAreLogged DEF CmcTools
  <2>6. Done([work EXCEPT !.limit = limit, !.obs = obs, !.listed = obs])
    BY <2>1
  <2>7. LET changed == [work EXCEPT !.limit = limit, !.obs = obs, !.listed = obs]
        IN IsWork(changed) /\ Keeps(changed)
    BY <1>1, <2>4 DEF IsWork, Fresh, Keeps
  <2> QED BY <1>2, <2>5, <2>6, <2>7, DoneEffect
<1> QED BY <1>4, <1>5


LEMMA FetchQuotesEffect ==
  ASSUME Typing, FetchQuotes
  PROVE  StepEffect
<1>1. request \in Requests /\ at \in Nat \ {0} /\ calls \in Seq(CmcTools) /\ IsWork(work)
  BY DEF Typing, TypeOK
<1>2. stage = "steps" /\ AtStep({"get_quotes"})
  BY DEF FetchQuotes, AtStep
<1>3. CASE QuoteSymbols = <<>>
  BY <1>1, <1>2, <1>3, SkipEffect DEF FetchQuotes, Keeps
<1>4. CASE QuoteSymbols # <<>>
  <2>1. PICK data \in Answers("get_quotes", QuoteSymbols) :
          /\ Call("get_quotes", QuoteSymbols, data)
          /\ Done([work EXCEPT !.obs = SelectQuoted(data, QuoteSymbols, snapshot)])
    BY <1>4 DEF FetchQuotes
  <2>2. IsSequence(data)
    BY <2>1, AnswersAreTyped DEF IsMarket
  <2>3. IsSequence(TheStep.symbols)
    BY <1>1, <1>2, TheStepIsValid
  <2>4. IsSequence(QuoteSymbols)
    BY <1>1, <2>3, SymbolsSequence DEF QuoteSymbols, IsWork
  <2> PICK obs : obs = SelectQuoted(data, QuoteSymbols, snapshot)
    OBVIOUS
  <2>5. IsSequence(obs)
    BY <2>2, <2>4, QuotedSequence
  <2>6. calls' \in Seq(CmcTools)
    BY <1>1, <2>1, CallsAreLogged DEF CmcTools
  <2>7. IsWork([work EXCEPT !.obs = obs]) /\ Keeps([work EXCEPT !.obs = obs])
    BY <1>1, <2>5 DEF IsWork, Fresh, Keeps
  <2>8. Done([work EXCEPT !.obs = obs])
    BY <2>1
  <2> QED BY <1>2, <2>6, <2>7, <2>8, DoneEffect
<1> QED BY <1>3, <1>4

LEMMA FetchContextEffect ==
  ASSUME Typing, FetchContext
  PROVE  StepEffect
<1>1. request \in Requests /\ at \in Nat \ {0} /\ calls \in Seq(CmcTools) /\ IsWork(work)
  BY DEF Typing, TypeOK
<1>2. stage = "steps" /\ AtStep({"get_global_metrics", "get_fear_and_greed"})
  BY DEF FetchContext, AtStep
<1>3. TheStep.type \in CmcTools
  BY <1>1, <1>2, TheStepIsValid DEF CmcTools
<1>4. PICK data, context :
        /\ Call(TheStep.type, <<>>, data)
        /\ Done([work EXCEPT !.context = context])
  <2>1. PICK data \in Answers(TheStep.type, <<>>) :
          /\ Call(TheStep.type, <<>>, data)
          /\ Done([work EXCEPT !.context =
               IF TheStep.type = "get_fear_and_greed" THEN [fear |-> data]
               ELSE IF @ = None THEN [fear |-> None] ELSE @])
    BY DEF FetchContext
  <2> QED BY <2>1
<1>5. calls' \in Seq(CmcTools)
  BY <1>1, <1>3, <1>4, CallsAreLogged
<1>6. LET changed == [work EXCEPT !.context = context]
      IN IsWork(changed) /\ Keeps(changed)
  BY <1>1 DEF IsWork, Fresh, Keeps
<1> QED BY <1>2, <1>4, <1>5, <1>6, DoneEffect

LEMMA FetchContentEffect ==
  ASSUME Typing, FetchContent
  PROVE  StepEffect
<1>1. request \in Requests /\ at \in Nat \ {0} /\ calls \in Seq(CmcTools) /\ IsWork(work)
  BY DEF Typing, TypeOK
<1>2. stage = "steps"
  BY DEF FetchContent, AtStep
<1>3. ASSUME NEW items, IsNews(items)
      PROVE  LET changed == [work EXCEPT !.items = items]
             IN IsWork(changed) /\ Keeps(changed)
  BY <1>1, <1>3 DEF IsWork, Fresh, Keeps
<1>4. CASE \E data \in Answers("get_content", TheStep.symbols) :
             /\ Call("get_content", TheStep.symbols, data)
             /\ Done([work EXCEPT !.items = NormalizeContent(data)])
  <2>1. PICK data \in Answers("get_content", TheStep.symbols) :
             /\ Call("get_content", TheStep.symbols, data)
             /\ Done([work EXCEPT !.items = NormalizeContent(data)])
    BY <1>4
  <2>2. IsNews(NormalizeContent(data))
    BY AnswersAreTyped, NewsSequence
  <2>3. calls' \in Seq(CmcTools)
    BY <1>1, <2>1, CallsAreLogged DEF CmcTools
  <2> QED BY <1>2, <1>3, <2>1, <2>2, <2>3, DoneEffect
<1>5. CASE Refused("get_content", TheStep.symbols) /\ Done([work EXCEPT !.items = <<>>])
  <2>1. IsNews(<<>>)
    BY DEF IsNews, IsSequence, ToSet
  <2>2. calls' = calls
    BY <1>5 DEF Refused
  <2> QED BY <1>1, <1>2, <1>3, <1>5, <2>1, <2>2, DoneEffect
<1> QED BY <1>4, <1>5 DEF FetchContent


LEMMA FetchHistoryEffect ==
  ASSUME Typing, FetchHistory
  PROVE  StepEffect
<1>1. calls \in Seq(CmcTools) /\ IsWork(work) /\ request \in Requests /\ at \in Nat \ {0}
  BY DEF Typing, TypeOK
<1>2. stage = "steps" /\ AtStep({"get_quotes_historical"})
  BY DEF FetchHistory, AtStep
<1>3. /\ TheStep.type = "get_quotes_historical" /\ IsSequence(TheStep.symbols)
      /\ at \in DOMAIN Current.steps
  BY <1>1, <1>2, TheStepIsValid
<1> DEFINE asked == [work EXCEPT !.window = IF TheStep.op = "24h" THEN @ ELSE TheStep.op]
<1>4. IsWork(asked) /\ Keeps(asked)
  BY <1>1 DEF IsWork, Fresh, Keeps
<1>5. \/ \E data \in Answers("get_quotes_historical", TheStep.symbols) :
            /\ calls' = Append(calls, "get_quotes_historical")
            /\ Done([asked EXCEPT !.history = HistoryOf(data, TheStep.symbols),
                                  !.chart = ChartSeries(data)])
      \/ /\ calls' = calls
         /\ Done([asked EXCEPT !.missing = {"get_quotes_historical"}])
  BY DEF FetchHistory
<1> HIDE DEF asked
<1>6. Append(calls, "get_quotes_historical") \in Seq(CmcTools)
  BY <1>1, AppendProperties DEF CmcTools
<1>7. ASSUME NEW history, IsSequence(history), NEW chart,
             Done([asked EXCEPT !.history = history, !.chart = chart])
      PROVE  IsWork(work') /\ Asked(work')
  BY <1>3, <1>4, <1>7 DEF Done, IsWork, Fresh, Keeps, Asked
<1>8. ASSUME Done([asked EXCEPT !.missing = {"get_quotes_historical"}])
      PROVE  IsWork(work') /\ Asked(work')
  BY <1>3, <1>4, <1>8 DEF Done, IsWork, Fresh, Keeps, Asked
<1>9. ASSUME NEW data \in Answers("get_quotes_historical", TheStep.symbols)
      PROVE  IsSequence(HistoryOf(data, TheStep.symbols))
  BY <1>3, AnswersAreTyped, HistorySequence
<1>10. IsWork(work') /\ Asked(work') /\ calls' \in Seq(CmcTools)
  BY <1>1, <1>5, <1>6, <1>7, <1>8, <1>9
<1>11. stage' = "steps" /\ at' = at + 1
       /\ UNCHANGED <<request, asking, attempt, kept, torn, events, snapshot, result, outcome>>
  BY <1>2, <1>5 DEF Done
<1> QED BY <1>2, <1>3, <1>10, <1>11 DEF StepEffect

LEMMA SortStepEffect ==
  ASSUME Typing, SortStep
  PROVE  StepEffect
<1>1. IsWork(work) /\ stage = "steps"
  BY DEF Typing, SortStep, AtStep
<1> PICK obs : obs = SortAssets(work.obs, TheStep.field, TheStep.order)
  OBVIOUS
<1>2. IsSequence(obs)
  BY <1>1, SortedSequence DEF IsWork
<1>3. Skip([work EXCEPT !.order = TheStep.order, !.obs = obs])
  BY DEF SortStep
<1>4. LET changed == [work EXCEPT !.order = TheStep.order, !.obs = obs]
      IN IsWork(changed) /\ Keeps(changed)
  BY <1>1, <1>2 DEF IsWork, Fresh, Keeps
<1> QED BY <1>1, <1>3, <1>4, SkipEffect

LEMMA FilterEffect ==
  ASSUME Typing, FilterRelative \/ FilterStep
  PROVE  StepEffect
<1>1. IsWork(work) /\ calls \in Seq(CmcTools) /\ stage = "steps"
  BY DEF Typing, FilterRelative, FilterStep, AtStep
<1>2. ASSUME NEW obs, IsSequence(obs)
      PROVE  LET changed == [work EXCEPT !.obs = obs]
             IN IsWork(changed) /\ Keeps(changed)
  BY <1>1, <1>2 DEF IsWork, Fresh, Keeps
<1>3. CASE FilterStep
  <2> PICK obs : obs = FilterThreshold(work.obs, TheStep.field, TheStep.operator, TheStep.value)
    OBVIOUS
  <2>1. IsSequence(obs)
    BY <1>1, FilteredSequence DEF IsWork
  <2>2. Skip([work EXCEPT !.obs = obs])
    BY <1>3 DEF FilterStep
  <2> QED BY <1>1, <1>2, <2>1, <2>2, SkipEffect
<1>4. CASE FilterRelative
  <2>1. ASSUME NEW bar
        PROVE  LET changed == [work EXCEPT !.obs = FellMore(work.obs, bar)]
               IN IsWork(changed) /\ Keeps(changed)
    <3>1. IsSequence(FellMore(work.obs, bar))
      BY <1>1, FilteredSequence DEF IsWork
    <3> QED BY <1>2, <3>1
  <2>2. \/ \E bar : Skip([work EXCEPT !.obs = FellMore(work.obs, bar)])
        \/ \E bar, data : /\ Call("get_quotes", <<TheStep.relative>>, data)
                          /\ Done([work EXCEPT !.obs = FellMore(work.obs, bar)])
        \/ Refused("get_quotes", <<TheStep.relative>>) /\ Done(work)
    BY <1>4 DEF FilterRelative
  <2>3. CASE \E bar : Skip([work EXCEPT !.obs = FellMore(work.obs, bar)])
    BY <1>1, <2>1, <2>3, SkipEffect
  <2>4. CASE \E bar, data : /\ Call("get_quotes", <<TheStep.relative>>, data)
                            /\ Done([work EXCEPT !.obs = FellMore(work.obs, bar)])
    <3>1. calls' \in Seq(CmcTools)
      BY <1>1, <2>4, CallsAreLogged DEF CmcTools
    <3> QED BY <1>1, <2>1, <2>4, <3>1, DoneEffect
  <2>5. CASE Refused("get_quotes", <<TheStep.relative>>) /\ Done(work)
    BY <1>1, <2>5, DoneEffect DEF Refused, Keeps
  <2> QED BY <2>2, <2>3, <2>4, <2>5
<1> QED BY <1>3, <1>4

LEMMA StepsTyped ==
  ASSUME Typing, TakeStep
  PROVE  StepEffect
<1>1. CASE LabelStep
  BY <1>1, SkipEffect DEF LabelStep, AtStep, Typing, Keeps
<1> QED BY <1>1, FetchListingsEffect, FetchQuotesEffect, FetchContextEffect, FetchContentEffect,
           FetchHistoryEffect, SortStepEffect, FilterEffect DEF TakeStep


-----------------------------------------------------------------------------
(* The invariant *)

\* A result that is not tried again, whatever its checks say.
Final(made) ==
  /\ made.kind # "error"
  /\ made.kind = "news_brief" => made.items # 0
  /\ made.kind = "ranked_table" => made.rows # <<>>

\* A workflow whose trigger decides runs its steps once the trigger has fired.
FiredFirst ==
  stage = "steps" /\ request.honor /\ Conditional(Current) => Fired(Current.trigger, work.read)

\* The attempt that stores observations is the last one, unless it failed
\* while it stored them; the rows of a result with any were stored last.
StoresInOrder ==
  /\ IsSequence(kept)
  /\ kept # <<>> /\ ~torn =>
       /\ kept = work.obs
       /\ stage \in {"observed", "done"}
       /\ stage = "observed" => Final(result)
  /\ stage \in {"observed", "done"} /\ result.kind \in Shown => EndsWith(kept, work.obs)

\* A history that was asked for is there or missing, never both, and it was
\* asked for by the last step that could have raised.
HistoryIsLast ==
  /\ work.missing # {} => work.history = <<>>
  /\ stage \in {"trigger", "scan", "score"} => work.missing = {} /\ work.history = <<>>
  /\ stage = "steps" /\ (work.missing # {} \/ work.history # <<>>) =>
       \E i \in DOMAIN Current.steps : i < at /\ Current.steps[i].type = "get_quotes_historical"

Tables == {"ranked_table", "comparison"}

\* A result, when it is made and when its claims have been added.
ResultRests ==
  /\ stage = "observed" =>
       result.claims = <<>> /\ (result.kind # "error" => result.limits = work.missing)
  /\ stage \in {"observed", "done"} /\ result.kind \in Tables /\ result.rows # <<>> => kept # <<>>
  /\ stage = "done" =>
       /\ result.kind # "error" => work.missing \subseteq result.limits
       /\ \A claim \in ToSet(result.claims) : RestsOn(claim, kept, work.history)
       /\ outcome.status = "supported" /\ result.kind \in Tables => result.rows # <<>>

Invariant == Typing /\ FiredFirst /\ StoresInOrder /\ HistoryIsLast /\ ResultRests

LEMMA InitInvariant == Init => Invariant
<1> SUFFICES ASSUME Init PROVE Invariant
  OBVIOUS
<1>1. request \in Requests /\ asking \in BOOLEAN /\ stage = "queued" /\ attempt = 0 /\ at = 1
      /\ work = Fresh /\ calls = <<>> /\ kept = <<>> /\ result = None /\ torn = FALSE
  BY DEF Init
<1>2. IsWork(Fresh)
  <2>1. IsSequence(<<>>) /\ IsNews(<<>>)
    BY DEF IsSequence, IsNews, ToSet
  <2> QED BY <2>1, InvestigationAssumption DEF Fresh, IsWork
<1>3. 0 \in 0..MaxRetries
  BY InvestigationAssumption
<1>4. TypeOK
  <2>1. DOMAIN calls = 1..0
    <3>1. <<>> \in Seq(CmcTools) /\ Len(<<>>) = 0
      OBVIOUS
    <3> QED BY <1>1, <3>1, LenProperties
  <2>2. stage \in {"queued"} /\ at \in Nat \ {0}
    BY <1>1
  <2>3. torn \in BOOLEAN
    BY <1>1, Zenon
  <2> QED BY <1>1, <1>3, <2>1, <2>2, <2>3 DEF TypeOK
<1>5. Typing
  BY <1>1, <1>2, <1>4 DEF Typing
<1>6. IsSequence(<<>>)
  BY PairIsSequence
<1> QED BY <1>1, <1>5, <1>6
        DEF Invariant, FiredFirst, StoresInOrder, HistoryIsLast, ResultRests, Fresh

\* Before the result is there, nothing is stored, unless a failure left it.
LEMMA NothingStored ==
  ASSUME StoresInOrder, stage \notin {"observed", "done"}
  PROVE  IsSequence(kept) /\ (kept = <<>> \/ torn)
BY DEF StoresInOrder

\* What is stored behind other rows is what a sequence ends with.
LEMMA StoredLast ==
  ASSUME NEW rows, IsSequence(rows), NEW last, IsSequence(last)
  PROVE  EndsWith(rows \o last, last)
<1> PICK S : S = ToSet(rows) \cup ToSet(last)
  OBVIOUS
<1>1. rows \in Seq(S) /\ last \in Seq(S)
  <2>1. rows \in Seq(ToSet(rows)) /\ last \in Seq(ToSet(last))
    BY DEF IsSequence
  <2> QED BY <2>1
<1> PICK n \in Nat, m \in Nat : n = Len(rows) /\ m = Len(last)
  BY <1>1
<1> PICK all : all = rows \o last
  OBVIOUS
<1>2. all \in Seq(S) /\ Len(all) = n + m
      /\ \A i \in 1..(n + m) : all[i] = IF i <= n THEN rows[i] ELSE last[i - n]
  BY <1>1, ConcatProperties
<1> PICK end : end = SubSeq(all, n + 1, n + m)
  OBVIOUS
<1>3. \A i \in (n + 1)..(n + m) : all[i] \in S
  BY <1>2, ElementOfSeq
<1>4. end \in Seq(S) /\ Len(end) = m /\ \A i \in 1..m : end[i] = all[n + i]
  BY <1>3, SubSeqProperties
<1>5. \A i \in 1..m : end[i] = last[i]
  BY <1>2, <1>4
<1>6. end = last
  BY <1>1, <1>4, <1>5, SeqEqual
<1>7. n \in 0..Len(all) /\ last = SubSeq(all, n + 1, Len(all))
  <2>1. last = SubSeq(all, n + 1, n + m)
    BY <1>6
  <2>2. n \in 0..(n + m)
    OBVIOUS
  <2> QED BY <1>2, <2>1, <2>2
<1> QED BY <1>7 DEF EndsWith

\* A step that could raise comes before any history.
LEMMA NothingYet ==
  ASSUME Invariant, stage = "steps", at \in DOMAIN Current.steps,
         TheStep.type \notin {"calculate", "sort", "filter", "aggregate", "present"}
  PROVE  work.missing = {} /\ work.history = <<>>
<1>1. IsCompiled(Current)
  BY WorkflowsAreValid DEF Invariant, Typing, TypeOK
<1>2. ~\E i \in DOMAIN Current.steps : i < at /\ Current.steps[i].type = "get_quotes_historical"
  BY <1>1 DEF IsCompiled, TheStep
<1> QED BY <1>2 DEF Invariant, HistoryIsLast

\* A step that changes nothing but its place, its calls and its caches.
LEMMA StepsKeep == ASSUME Invariant, TakeStep PROVE Invariant'
<1>1. StepEffect
  BY StepsTyped DEF Invariant
<1>2. Current' = Current
  BY <1>1 DEF StepEffect, Current
<1>3. IsSequence(kept') /\ (kept' = <<>> \/ torn')
  BY <1>1, NothingStored DEF Invariant, StepEffect
<1>4. TypeOK'
  <2>1. \A i \in DOMAIN calls' : calls'[i] \in CmcTools
    BY <1>1, ElementOfSeq DEF StepEffect
  <2>2. (at + 1) \in Nat \ {0}
    BY DEF Invariant, Typing, TypeOK
  <2> QED BY <1>1, <2>1, <2>2 DEF StepEffect, Invariant, Typing, TypeOK
<1>5. Typing'
  BY <1>1, <1>4 DEF StepEffect, Invariant, Typing
<1>6. FiredFirst'
  BY <1>1, <1>2 DEF StepEffect, Keeps, Asked, Invariant, FiredFirst
<1>7. HistoryIsLast'
  <2>1. stage = "steps" /\ stage' = "steps" /\ at' = at + 1 /\ (Keeps(work') \/ Asked(work'))
    BY <1>1 DEF StepEffect
  <2>2. at \in Nat /\ DOMAIN Current.steps \subseteq Nat
    BY WorkflowsAreValid, SequenceFacts DEF Invariant, Typing, TypeOK, IsWorkflow
  <2>3. CASE Keeps(work')
    BY <1>2, <2>1, <2>2, <2>3 DEF Invariant, HistoryIsLast, Keeps
  <2>4. CASE Asked(work')
    <3>1. work.missing = {} /\ work.history = <<>>
      BY <2>1, <2>4, NothingYet DEF Asked
    <3>2. work'.missing = {} \/ work'.history = <<>>
      BY <2>4, <3>1 DEF Asked
    <3>3. at \in DOMAIN Current'.steps /\ at < at'
            /\ Current'.steps[at].type = "get_quotes_historical"
      BY <1>2, <2>1, <2>2, <2>4 DEF Asked, TheStep
    <3> QED BY <2>1, <3>2, <3>3 DEF HistoryIsLast
  <2> QED BY <2>1, <2>3, <2>4
<1> QED BY <1>1, <1>3, <1>5, <1>6, <1>7 DEF Invariant, StoresInOrder, ResultRests, StepEffect

\* A run that has made its result, or failed.
LEMMA ResultMade ==
  ASSUME Invariant, stage \notin {"observed", "done"}, stage' = "observed",
         IsResult(result'), asking' \in BOOLEAN, calls' \in Seq(CmcTools),
         work' = work, at' = at, UNCHANGED <<request, attempt>>, torn' \in BOOLEAN,
         result'.claims = <<>>, result'.kind # "error" => result'.limits = work.missing,
         IsSequence(kept'), kept' # <<>> /\ ~torn' => kept' = work.obs /\ Final(result'),
         result'.kind \in Shown => EndsWith(kept', work.obs),
         result'.kind \in Tables /\ result'.rows # <<>> => kept' # <<>>
  PROVE  Invariant'
<1>1. \A i \in DOMAIN calls' : calls'[i] \in CmcTools
  BY ElementOfSeq
<1>2. TypeOK'
  BY <1>1 DEF Invariant, Typing, TypeOK, IsResult, Kinds
<1>3. Typing'
  BY <1>2 DEF Invariant, Typing
<1>4. HistoryIsLast' /\ ResultRests'
  BY DEF Invariant, HistoryIsLast, ResultRests
<1> QED BY <1>3, <1>4 DEF Invariant, FiredFirst, StoresInOrder

\* A call that failed left nothing but its error.
LEMMA Failures ==
  ASSUME Invariant, NEW message,
         TriggerRefused(message) \/ StepRefused(message) \/ ScanRefused(message),
         message \in {"refused", "unavailable"}
  PROVE  Invariant'
<1>1. Fail(message) /\ calls' = calls /\ stage \notin {"observed", "done"}
  BY DEF TriggerRefused, StepRefused, ScanRefused, Refused, AtStep
<1>2. IsSequence(kept) /\ (kept = <<>> \/ torn)
  BY <1>1, NothingStored DEF Invariant
<1>3. IsResult(result') /\ result'.kind = "error" /\ result'.claims = <<>>
  BY <1>1 DEF Fail, FileError, IsResult, Kinds, Blank
<1>4. asking \in BOOLEAN /\ torn \in BOOLEAN /\ calls \in Seq(CmcTools)
  BY DEF Invariant, Typing, TypeOK
<1>5. stage' = "observed" /\ UNCHANGED <<request, asking, attempt, at, work, kept, torn>>
  BY <1>1 DEF Fail, FileError
<1> HIDE DEF Invariant
<1> QED BY <1>1, <1>2, <1>3, <1>4, <1>5, ResultMade DEF Tables, Shown

\* A failure after an attempt has begun to store what it found files an error,
\* behind whatever was stored, and leaves the locals of the run alone.
Breaks(message) == WaitFails(message) \/ PublishFails(message) \/ ScanFails(message)

LEMMA BreakEffect ==
  ASSUME Invariant, NEW message, Breaks(message)
  PROVE  /\ stage \in {"trigger", "steps", "score"} /\ stage' = "observed"
         /\ IsResult(result') /\ result'.kind = "error" /\ result'.claims = <<>>
         /\ result'.rows = <<>>
         /\ asking' \in BOOLEAN /\ torn' \in BOOLEAN /\ calls' \in Seq(CmcTools)
         /\ IsSequence(kept') /\ (kept' = <<>> \/ torn')
         /\ UNCHANGED <<request, attempt, at, work>>
<1>1. /\ calls \in Seq(CmcTools) /\ asking \in BOOLEAN /\ torn \in BOOLEAN
      /\ IsSequence(work.obs)
  BY DEF Invariant, Typing, TypeOK, IsWork
<1>2. /\ stage \in {"trigger", "steps", "score"} /\ FileError(message)
      /\ asking' \in {asking, FALSE}
      /\ UNCHANGED <<request, attempt, at, work>>
  BY DEF Breaks, WaitFails, PublishFails, AllRun, ScanFails
<1>3. /\ stage' = "observed" /\ IsResult(result') /\ result'.kind = "error"
      /\ result'.claims = <<>> /\ result'.rows = <<>>
  BY <1>2 DEF FileError, IsResult, Kinds, Blank
<1>4. IsSequence(kept) /\ (kept = <<>> \/ torn)
  BY <1>2, NothingStored DEF Invariant
<1>5. calls' = calls \/ \E tool \in CmcTools : \E arg, data : Call(tool, arg, data)
  BY DEF Breaks, WaitFails, PublishFails, ScanFails, ReadFear, CmcTools
<1>6. calls' \in Seq(CmcTools)
  BY <1>1, <1>5, CallsAreLogged
<1>7. CASE PublishFails(message)
  <2>1. \A n \in Nat : IsSequence(kept \o Upto(work.obs, n))
    BY <1>1, <1>4, UptoFacts, ConcatFacts
  <2>2. IsSequence(kept \o work.obs)
    BY <1>1, <1>4, ConcatFacts
  <2>3. Len(work.obs) \in Nat
    BY <1>1, SequenceFacts
  <2>4. (\E n \in Nat : kept' = kept \o Upto(work.obs, n)) \/ kept' = kept \o work.obs
    <3>1. \/ \E n \in 0..Len(work.obs) : kept' = kept \o Upto(work.obs, n)
          \/ kept' = kept \o work.obs
      BY <1>7, Zenon DEF PublishFails
    <3>2. \A n \in 0..Len(work.obs) : n \in Nat
      BY <2>3
    <3> QED BY <3>1, <3>2, Zenon
  <2>5. IsSequence(kept')
    BY <2>1, <2>2, <2>4
  <2>6. torn' = (torn \/ kept' # kept)
    BY <1>7 DEF PublishFails
  <2> QED BY <1>1, <1>2, <1>3, <1>4, <1>6, <2>5, <2>6
<1>8. CASE WaitFails(message) \/ ScanFails(message)
  <2>1. kept' = kept /\ torn' = torn
    BY <1>8 DEF WaitFails, ScanFails
  <2> QED BY <1>1, <1>2, <1>3, <1>4, <1>6, <2>1
<1> QED BY <1>7, <1>8 DEF Breaks

\* Whatever fails, an error is the result.
Failing(message) ==
  TriggerRefused(message) \/ StepRefused(message) \/ ScanRefused(message) \/ Breaks(message)

LEMMA FailingEnds ==
  ASSUME NEW message, Failing(message)
  PROVE  stage' = "observed" /\ result'.kind = "error"
<1>1. FileError(message)
  BY DEF Failing, Breaks, TriggerRefused, StepRefused, ScanRefused, Fail,
         WaitFails, PublishFails, ScanFails
<1> QED BY <1>1 DEF FileError, Blank

LEMMA BreaksKeep ==
  ASSUME Invariant, NEW message, Breaks(message)
  PROVE  Invariant'
<1> HIDE DEF Invariant
<1> QED BY BreakEffect, ResultMade DEF Tables, Shown

\* The trigger is read once, and a workflow goes on only if it fired.
LEMMA TriggerRead == ASSUME Invariant, ReadTrigger PROVE Invariant'
<1> DEFINE trigger == Current.trigger
<1>1. /\ stage = "trigger" /\ asking \in BOOLEAN /\ IsWork(work) /\ calls \in Seq(CmcTools)
      /\ work.missing = {} /\ work.history = <<>>
  BY DEF ReadTrigger, Invariant, Typing, TypeOK, HistoryIsLast
<1>2. IsSequence(kept) /\ (kept = <<>> \/ torn) /\ torn \in BOOLEAN
  BY <1>1, NothingStored DEF Invariant, Typing, TypeOK
<1>3. PICK data, read, made :
        /\ Call("get_quotes", <<trigger.asset>>, data)
        /\ IsResult(made) /\ made.kind = "no_result" /\ made.claims = <<>> /\ made.limits = {}
        /\ IF Fired(trigger, read)
           THEN stage' = "steps" /\ work' = [work EXCEPT !.read = read]
                /\ UNCHANGED <<result, asking>>
           ELSE Finish(made) /\ UNCHANGED work
  <2>1. PICK data, read :
          /\ Call("get_quotes", <<trigger.asset>>, data)
          /\ IF Fired(trigger, read)
             THEN stage' = "steps" /\ work' = [work EXCEPT !.read = read]
                  /\ UNCHANGED <<result, asking>>
             ELSE Finish(Waiting(read)) /\ UNCHANGED work
    BY DEF ReadTrigger
  <2>2. IsResult(Waiting(read)) /\ Waiting(read).kind = "no_result"
        /\ Waiting(read).claims = <<>> /\ Waiting(read).limits = {}
    BY DEF Waiting, IsResult, Kinds, Blank
  <2> HIDE DEF trigger
  <2> QED BY <2>1, <2>2
<1>4. calls' \in Seq(CmcTools)
  BY <1>1, <1>3, CallsAreLogged DEF CmcTools
<1>5. UNCHANGED <<request, attempt, at, kept, torn>>
  BY DEF ReadTrigger
<1>6. CASE Fired(trigger, read)
  <2>1. stage' = "steps" /\ work' = [work EXCEPT !.read = read] /\ UNCHANGED <<result, asking>>
    BY <1>3, <1>6
  <2>2. IsWork(work') /\ work'.read = read /\ work'.missing = {} /\ work'.history = <<>>
    BY <1>1, <2>1 DEF IsWork, Fresh
  <2>3. \A i \in DOMAIN calls' : calls'[i] \in CmcTools
    BY <1>4, ElementOfSeq
  <2>4. Typing'
    BY <1>4, <1>5, <2>1, <2>2, <2>3 DEF Invariant, Typing, TypeOK
  <2>5. Current' = Current
    BY <1>5, <2>1 DEF Current
  <2>6. FiredFirst'
    BY <1>6, <2>2, <2>5 DEF FiredFirst
  <2>7. HistoryIsLast' /\ ResultRests'
    BY <2>1, <2>2 DEF HistoryIsLast, ResultRests
  <2> QED BY <1>1, <1>2, <1>5, <2>1, <2>4, <2>6, <2>7 DEF Invariant, StoresInOrder
<1>7. CASE ~Fired(trigger, read)
  <2>1. result' = made /\ asking' = FALSE /\ stage' = "observed" /\ work' = work
    BY <1>3, <1>7 DEF Finish
  <2> HIDE DEF Invariant
  <2> QED BY <1>1, <1>2, <1>3, <1>4, <1>5, <2>1, ResultMade DEF Tables, Shown
<1> QED BY <1>6, <1>7


\* A table of observations has a row, and a brief of headlines has an item.
LEMMA TablesHaveRows ==
  ASSUME NEW obs, IsSequence(obs), NEW order, NEW limit \in Nat
  PROVE  obs # <<>> <=> RankedRows(obs, order, limit) # <<>>
<1> PICK sorted : sorted = SortAssets(obs, Change, order)
  OBVIOUS
<1>1. IsSequence(sorted) /\ Len(sorted) = Len(obs)
  BY SortedSequence
<1> PICK rows : rows = RankAssets(obs, Change, order)
  OBVIOUS
<1>2. rows = [k \in DOMAIN sorted |-> rows[k]]
  BY DEF RankAssets
<1>3. IsSequence(rows) /\ Len(rows) = Len(obs)
  BY <1>1, <1>2, MappedSequence
<1>4. Len(<<>>) = 0 /\ \A s : IsSequence(s) /\ s # <<>> => Len(s) # 0
  BY EndsAreItems
<1>5. obs # <<>> <=> rows # <<>>
  BY <1>3, <1>4
<1>6. RankedRows(obs, order, limit) = IF limit = 0 THEN rows ELSE Upto(rows, limit)
  BY DEF RankedRows
<1>7. rows = <<>> => Upto(rows, limit) = <<>>
  <2>1. IsSequence(Upto(rows, limit)) /\ ToSet(Upto(rows, limit)) \subseteq ToSet(rows)
    BY <1>3, UptoFacts
  <2>2. ToSet(<<>>) = {}
    BY PairIsSequence
  <2>3. Upto(rows, limit) # <<>> => Head(Upto(rows, limit)) \in ToSet(Upto(rows, limit))
    BY <2>1, EndsAreItems
  <2> QED BY <2>1, <2>2, <2>3
<1> QED BY <1>3, <1>5, <1>6, <1>7, UptoFacts

LEMMA BriefsHaveItems ==
  ASSUME NEW items, IsNews(items), items # <<>>, NEW obs
  PROVE  Len(AttachQuotes(items, obs)) # 0
<1> PICK shown : shown = Upto(items, HeadlinesMost)
  OBVIOUS
<1>1. IsSequence(shown) /\ shown # <<>>
  BY UptoFacts, InvestigationAssumption DEF IsNews
<1> PICK t : t = AttachQuotes(items, obs)
  OBVIOUS
<1>2. t = [i \in DOMAIN shown |-> t[i]]
  BY DEF AttachQuotes
<1>3. Len(t) = Len(shown)
  BY <1>1, <1>2, MappedSequence
<1> QED BY <1>1, <1>3, EndsAreItems

LEMMA ResultsAreFinal ==
  ASSUME request \in Requests, IsWork(work), NEW items, IsNews(items)
  PROVE  /\ IsResult(ResultOf(items))
         /\ work.obs # <<>> => Final(ResultOf(items))
         /\ ResultOf(items).claims = <<>> /\ ResultOf(items).limits = work.missing
         /\ ResultOf(items).kind \in Tables /\ ResultOf(items).rows # <<>> => work.obs # <<>>
<1> DEFINE made == ResultOf(items)
<1> PICK shown : shown = Presented
  OBVIOUS
<1>1. shown.format \in PresentFormats /\ shown.limit \in Nat
  BY PresentedFormat
<1>2. PICK base, rows, quoted :
        /\ DOMAIN base = DOMAIN Blank /\ base.claims = <<>> /\ base.limits = work.missing
        /\ shown.format = "comparison" /\ rows # <<>> => work.obs # <<>>
        /\ quoted = Len(AttachQuotes(items, work.obs))
        /\ shown.format = "news_brief" /\ items = <<>> => made = [base EXCEPT !.kind = "no_result"]
        /\ shown.format = "news_brief" /\ items # <<>> =>
             made = [base EXCEPT !.kind = "news_brief", !.items = quoted, !.rows = rows]
        /\ shown.format = "comparison" => made = [base EXCEPT !.kind = "comparison", !.rows = rows]
        /\ shown.format = "market_summary" => made = [base EXCEPT !.kind = "market_summary"]
        /\ shown.format = "ranked_table" =>
             made = [base EXCEPT !.kind = "ranked_table",
                                 !.rows = RankedRows(work.obs, work.order, shown.limit)]
  <2> DEFINE base == [Blank EXCEPT !.assets = Len(work.obs), !.limits = work.missing,
                       !.trigger = [asset |-> TriggerOf(Current),
                                    actual |-> IF TriggerRow = None
                                      THEN None ELSE TriggerRow.change]]
             Compared(chart) == [i \in DOMAIN work.obs |-> ComparisonRow(work.obs[i], chart)]
             rows == IF shown.format = "comparison" THEN Compared(work.chart) ELSE Compared(<<>>)
  <2>1. made = CASE shown.format = "news_brief"
          /\ items = <<>> -> [base EXCEPT !.kind = "no_result"]
                 [] shown.format = "news_brief" /\ items # <<>> ->
                      [base EXCEPT !.kind = "news_brief", !.items
                        = Len(AttachQuotes(items, work.obs)),
                                   !.rows = Compared(<<>>)]
                 [] shown.format = "comparison" ->
                      [base EXCEPT !.kind = "comparison", !.rows = Compared(work.chart)]
                 [] shown.format = "market_summary" -> [base EXCEPT !.kind = "market_summary"]
                 [] shown.format = "ranked_table" ->
                      [base EXCEPT !.kind = "ranked_table",
                                   !.rows = RankedRows(work.obs, work.order, shown.limit)]
    BY DEF ResultOf
  <2>2. DOMAIN base = DOMAIN Blank /\ base.claims = <<>> /\ base.limits = work.missing
    BY DEF Blank
  <2>5. work.obs = <<>> => Compared(work.chart) = <<>>
    <3> DEFINE t == Compared(work.chart)
    <3>1. t = [i \in DOMAIN work.obs |-> t[i]]
      OBVIOUS
    <3> HIDE DEF t
    <3>2. Len(t) = Len(work.obs) /\ IsSequence(t)
      BY <3>1, MappedSequence DEF IsWork
    <3>3. work.obs = <<>> => t = <<>>
      BY <3>2, EndsAreItems
    <3> QED BY <3>3 DEF t
  <2> HIDE DEF base, Compared, made
  <2>3. shown.format = "news_brief" => rows = Compared(<<>>)
    OBVIOUS
  <2>4. shown.format = "comparison" => rows = Compared(work.chart)
    OBVIOUS
  <2> HIDE DEF rows
  <2> QED BY <1>1, <2>1, <2>2, <2>3, <2>4, <2>5 DEF PresentFormats
<1> SUFFICES /\ IsResult(made) /\ (work.obs # <<>> => Final(made))
             /\ made.claims = <<>> /\ made.limits = work.missing
             /\ made.kind \in Tables /\ made.rows # <<>> => work.obs # <<>>
  OBVIOUS
<1> HIDE DEF made
<1>3. CASE shown.format = "news_brief" /\ items = <<>>
  BY <1>2, <1>3 DEF IsResult, Final, Kinds, Blank, Tables
<1>4. CASE shown.format = "news_brief" /\ items # <<>>
  <2>1. quoted # 0
    BY <1>2, <1>4, BriefsHaveItems
  <2>2. made = [base EXCEPT !.kind = "news_brief", !.items = quoted, !.rows = rows]
        /\ DOMAIN base = DOMAIN Blank /\ base.claims = <<>> /\ base.limits = work.missing
    BY <1>2, <1>4
  <2> QED BY <2>1, <2>2 DEF IsResult, Final, Kinds, Blank, Tables
<1>5. CASE shown.format = "comparison"
  BY <1>2, <1>5 DEF IsResult, Final, Kinds, Blank, Tables
<1>6. CASE shown.format = "market_summary"
  BY <1>2, <1>6 DEF IsResult, Final, Kinds, Blank, Tables
<1>7. CASE shown.format = "ranked_table"
  <2> PICK table : table = RankedRows(work.obs, work.order, shown.limit)
    OBVIOUS
  <2>1. work.obs # <<>> <=> table # <<>>
    BY <1>1, TablesHaveRows DEF IsWork
  <2>2. /\ made = [base EXCEPT !.kind = "ranked_table", !.rows = table]
        /\ DOMAIN base = DOMAIN Blank /\ base.claims = <<>> /\ base.limits = work.missing
    BY <1>2, <1>7
  <2> QED BY <2>1, <2>2 DEF IsResult, Final, Kinds, Blank, Tables
<1> QED BY <1>1, <1>3, <1>4, <1>5, <1>6, <1>7 DEF PresentFormats


LEMMA PublishKeeps == ASSUME Invariant, Publish PROVE Invariant'
<1>1. /\ stage = "steps" /\ request \in Requests /\ IsWork(work) /\ calls \in Seq(CmcTools)
      /\ IsSequence(kept) /\ (kept = <<>> \/ torn) /\ torn \in BOOLEAN
  BY NothingStored DEF Publish, AllRun, Invariant, Typing, TypeOK
<1>2. PICK items : IsNews(items) /\ Finish(ResultOf(items))
  <2>1. PICK page \in Contents :
          Finish(ResultOf(IF work.items = <<>> THEN PageItems(NormalizeContent(page))
                          ELSE work.items))
    BY DEF Publish
  <2>2. IsNews(PageItems(NormalizeContent(page)))
    BY NewsSequence, InvestigationAssumption
  <2>3. IsNews(work.items)
    BY <1>1 DEF IsWork
  <2> QED BY <2>1, <2>2, <2>3
<1>3. result' = ResultOf(items) /\ asking' = FALSE /\ stage' = "observed"
  BY <1>2 DEF Finish
<1>4. /\ IsResult(result') /\ (work.obs # <<>> => Final(result'))
      /\ result'.claims = <<>> /\ result'.limits = work.missing
      /\ result'.kind \in Tables /\ result'.rows # <<>> => work.obs # <<>>
  BY <1>1, <1>2, <1>3, ResultsAreFinal
<1>5. kept' = kept \o work.obs /\ IsSequence(work.obs)
  BY <1>1 DEF Publish, IsWork
<1>6. IsSequence(kept') /\ EndsWith(kept', work.obs)
  BY <1>1, <1>5, ConcatFacts, StoredLast
<1>7. kept = <<>> => kept' = work.obs
  <2>1. work.obs \in Seq(ToSet(work.obs))
    BY <1>5 DEF IsSequence
  <2>2. <<>> \o work.obs = work.obs
    BY <2>1
  <2> QED BY <1>5, <2>2
<1>8. work.obs # <<>> => kept' # <<>>
  <2>1. kept \in Seq(ToSet(kept) \cup ToSet(work.obs))
        /\ work.obs \in Seq(ToSet(kept) \cup ToSet(work.obs))
    <3>1. kept \in Seq(ToSet(kept)) /\ work.obs \in Seq(ToSet(work.obs))
      BY <1>1, <1>5 DEF IsSequence
    <3> QED BY <3>1
  <2> QED BY <1>5, <2>1, ConcatEqualIffEmpty
<1>9. UNCHANGED <<request, attempt, at, work, calls, torn>>
  BY DEF Publish
<1> HIDE DEF Invariant
<1> QED BY <1>1, <1>3, <1>4, <1>6, <1>7, <1>8, <1>9, ResultMade

\* The result of a scan is of events, or none.
LEMMA ScanMakesNoTable ==
  ASSUME ScanPolicy
  PROVE  \E fear, made :
           /\ IsResult(made) /\ Finish(made) /\ ReadFear(fear)
           /\ made.kind \in {"event", "no_result"} /\ made.claims = <<>> /\ made.limits = {}
<1> DEFINE Made(found, scan) == [Blank EXCEPT !.kind = IF found # {} THEN "event" ELSE "no_result",
                                   !.assets = IF found # {} THEN 0 ELSE scan.assets]
<1>1. PICK fear, found, scan : Finish(Made(found, scan)) /\ ReadFear(fear)
  BY DEF ScanPolicy
<1>2. /\ IsResult(Made(found, scan)) /\ Made(found, scan).kind \in {"event", "no_result"}
      /\ Made(found, scan).claims = <<>> /\ Made(found, scan).limits = {}
  BY DEF IsResult, Kinds, Blank
<1> HIDE DEF Made
<1> QED BY <1>1, <1>2

LEMMA ScanKeeps == ASSUME Invariant, ScanPolicy PROVE Invariant'
<1>1. /\ stage = "score" /\ IsWork(work) /\ calls \in Seq(CmcTools) /\ work.missing = {}
      /\ IsSequence(kept) /\ (kept = <<>> \/ torn) /\ torn \in BOOLEAN
  BY NothingStored DEF ScanPolicy, Invariant, Typing, TypeOK, HistoryIsLast
<1>2. PICK fear, made :
        /\ IsResult(made) /\ Finish(made)
        /\ made.kind \in {"event", "no_result"} /\ made.claims = <<>> /\ made.limits = {}
        /\ ReadFear(fear)
  BY ScanMakesNoTable
<1>3. calls' \in Seq(CmcTools)
  BY <1>1, <1>2, CallsAreLogged DEF ReadFear, CmcTools
<1>4. result' = made /\ asking' = FALSE /\ stage' = "observed"
      /\ UNCHANGED <<request, attempt, at, work, kept, torn>>
  BY <1>2 DEF Finish, ScanPolicy
<1> HIDE DEF Invariant
<1> QED BY <1>1, <1>2, <1>3, <1>4, ResultMade DEF Tables, Shown

\* The scan fetches with the call its policy is about.
LEMMA ScanIsFetched == ASSUME Invariant, FetchScan PROVE Invariant'
<1>1. /\ stage = "scan" /\ request \in Requests /\ IsWork(work) /\ calls \in Seq(CmcTools)
      /\ IsSequence(kept) /\ (kept = <<>> \/ torn)
  BY NothingStored DEF FetchScan, Invariant, Typing, TypeOK
<1> PICK tool : tool = IF Policed.universe = "symbols" THEN "get_quotes" ELSE "get_market_listings"
  OBVIOUS
<1>2. Head(ScanTools(Policed)) = tool
  BY DEF ScanTools
<1>3. PICK data \in Answers(tool, ScanCall) :
        /\ Call(tool, ScanCall, data)
        /\ work' = [work EXCEPT !.obs = Volatile(NormalizeListings(data, snapshot))]
  BY <1>2 DEF FetchScan
<1>4. IsSequence(data)
  <2>1. CASE Policed.universe = "symbols"
    BY <2>1, <1>3, AnswersAreTyped DEF IsMarket
  <2>2. CASE Policed.universe # "symbols"
    <3>1. ScanCall \in Nat
      BY <1>1, <2>2, WorkflowsAreValid DEF ScanCall, Policed, IsPolicy
    <3> QED BY <1>3, <2>2, <3>1, AnswersAreTyped DEF IsMarket
  <2> QED BY <2>1, <2>2
<1>5. IsSequence(Volatile(NormalizeListings(data, snapshot)))
  BY <1>4, NormalizedSequence, FilteredSequence
<1>6. IsWork(work')
  BY <1>1, <1>3, <1>5 DEF IsWork, Fresh
<1>7. calls' \in Seq(CmcTools)
  BY <1>1, <1>3, CallsAreLogged DEF CmcTools
<1>8. stage' = "score" /\ UNCHANGED <<request, asking, attempt, at, kept, result, torn>>
  BY DEF FetchScan
<1>9. Typing'
  BY <1>6, <1>7, <1>8, ElementOfSeq DEF Invariant, Typing, TypeOK
<1>10. HistoryIsLast'
  BY <1>1, <1>3, <1>8 DEF Invariant, HistoryIsLast
<1> QED BY <1>1, <1>8, <1>9, <1>10 DEF Invariant, FiredFirst, StoresInOrder, ResultRests

\* The capabilities of the plan are known, and the fields are checked.
LEMMA PlanIsKnown ==
  ASSUME request \in Requests
  PROVE  /\ IsSequence(Plan.caps) /\ ToSet(Plan.caps) \subseteq CapabilityNames
         /\ "fields" \in Plan.checks
BY InvestigationAssumption, PlanForRunFacts DEF Plan

\* What is claimed of a result leaves its kind, rows and items alone, takes
\* no limitation back and rests on what was stored.
LEMMA ClaimsKeepResults ==
  ASSUME NEW made, IsResult(made), request \in Requests, made.claims = <<>>,
         IsSequence(kept), IsSequence(work.history)
  PROVE  /\ IsResult(WithClaims(made))
         /\ WithClaims(made).kind = made.kind /\ WithClaims(made).rows = made.rows
         /\ made.limits \subseteq WithClaims(made).limits
         /\ Final(made) => Final(WithClaims(made))
         /\ \A claim \in ToSet(WithClaims(made).claims) : RestsOn(claim, kept, work.history)
<1>1. CASE made.kind = "no_result"
  <2>1. WithClaims(made) = made
    BY <1>1 DEF WithClaims
  <2>2. ToSet(made.claims) = {}
    BY PairIsSequence
  <2> QED BY <2>1, <2>2
<1>2. CASE made.kind # "no_result"
  <2> DEFINE stored == [i \in DOMAIN kept |-> [kept[i] EXCEPT !.before = None]]
  <2>1. PICK claims, limits :
          /\ WithClaims(made) = [made EXCEPT !.claims = claims, !.limits = made.limits \cup limits]
          /\ \A claim \in ToSet(claims) : RestsOn(claim, stored, work.history)
    <3> DEFINE fear == IF made.kind = "market_summary" /\ work.context # None
                       THEN work.context.fear ELSE None
               task == IF asking THEN request.report.task ELSE request.standing.task
               extras == IF made.kind = "error"
                 THEN [history |-> <<>>, window |-> "", missing |-> {}]
                         ELSE [history |-> work.history, window |-> work.window,
                               missing |-> work.missing]
               merged == Merged(RunCapabilities(task, Plan.caps, stored, fear, extras))
    <3>1. WithClaims(made) = [made EXCEPT !.claims = merged.claims,
                                          !.limits = made.limits \cup merged.limits]
      BY <1>2 DEF WithClaims
    <3>2. IsSequence(stored)
      <4>1. stored = [i \in DOMAIN kept |-> stored[i]]
        OBVIOUS
      <4> HIDE DEF stored
      <4> QED BY <4>1, MappedSequence
    <3>3. extras.history \in {<<>>, work.history} /\ IsSequence(extras.history)
      BY PairIsSequence
    <3> PICK fear_, task_, extras_ : fear_ = fear /\ task_ = task /\ extras_ = extras
      OBVIOUS
    <3>4. merged = Merged(RunCapabilities(task_, Plan.caps, stored, fear_, extras_))
      OBVIOUS
    <3>5. extras_.history \in {<<>>, work.history} /\ IsSequence(extras_.history)
      BY <3>3
    <3> HIDE DEF stored, fear, task, extras, merged
    <3>6. MadeFrom(merged.claims, stored, extras_.history)
      BY <3>2, <3>4, <3>5, MergedMade, PlanIsKnown, InvestigationAssumption
    <3>7. \A claim \in ToSet(merged.claims) : RestsOn(claim, stored, work.history)
      BY <3>5, <3>6 DEF MadeFrom, RestsOn
    <3> QED BY <3>1, <3>7
  <2>2. ASSUME NEW o \in ToSet(stored)
        PROVE  \E p \in ToSet(kept) : o.sym = p.sym /\ o.change = p.change
    <3>1. PICK i \in DOMAIN kept : o = [kept[i] EXCEPT !.before = None]
      BY DEF ToSet
    <3> QED BY <3>1 DEF ToSet
  <2> HIDE DEF stored
  <2>3. \A claim : RestsOn(claim, stored, work.history) => RestsOn(claim, kept, work.history)
    BY <2>2 DEF RestsOn
  <2>4. WithClaims(made).claims = claims
    BY <2>1 DEF IsResult, Blank
  <2> QED BY <2>1, <2>3, <2>4 DEF IsResult, Final, Blank, Kinds
<1> QED BY <1>1, <1>2

\* A final result is never tried again.
LEMMA FinalIsNotRepaired ==
  ASSUME NEW made, Final(made), NEW workflow, NEW plan
  PROVE  ~NeedsRepair(made, VerifyResult(made, workflow, plan))
BY DEF Final, NeedsRepair, VerifyResult

LEMMA VerifyKeeps == ASSUME Invariant, Verify PROVE Invariant'
<1>1. /\ stage = "observed" /\ IsResult(result) /\ attempt \in 0..MaxRetries
      /\ UNCHANGED <<request, asking, at, work, calls, kept, torn>>
  BY DEF Verify, Invariant, Typing, TypeOK
<1> PICK made : made = WithClaims(result)
  OBVIOUS
<1> PICK status : status = VerifyResult(made, request.standing.workflow, Plan)
  OBVIOUS
<1>2. /\ result' = made
      /\ IF NeedsRepair(made, status) /\ MayRetry
         THEN attempt' = attempt + 1 /\ stage' = "attempt"
         ELSE stage' = "done" /\ UNCHANGED attempt
  BY DEF Verify
<1>3. /\ IsResult(made) /\ (Final(result) => Final(made))
      /\ made.kind = result.kind /\ made.rows = result.rows
      /\ made.kind # "error" => work.missing \subseteq made.limits
      /\ \A claim \in ToSet(made.claims) : RestsOn(claim, kept, work.history)
  <2>1. result.claims = <<>> /\ (result.kind # "error" => result.limits = work.missing)
    BY <1>1 DEF Invariant, ResultRests
  <2>2. IsSequence(work.history) /\ IsSequence(kept)
    BY PairIsSequence DEF Invariant, Typing, IsWork, StoresInOrder
  <2> QED BY <1>1, <2>1, <2>2, ClaimsKeepResults DEF Invariant, Typing, TypeOK
<1>4. attempt' \in 0..MaxRetries
  BY <1>1, <1>2, InvestigationAssumption DEF MayRetry
<1>5. TypeOK'
  BY <1>1, <1>2, <1>3, <1>4 DEF Invariant, Typing, TypeOK, IsResult, Kinds
<1>6. Typing'
  BY <1>1, <1>2, <1>3, <1>5 DEF Invariant, Typing
<1>7. kept # <<>> /\ ~torn => ~NeedsRepair(made, status)
  BY <1>1, <1>3, FinalIsNotRepaired DEF Invariant, StoresInOrder
<1>8. StoresInOrder'
  BY <1>1, <1>2, <1>3, <1>7 DEF Invariant, StoresInOrder
<1>9. FiredFirst'
  BY <1>2 DEF FiredFirst
<1>10. HistoryIsLast'
  BY <1>1, <1>2 DEF Invariant, HistoryIsLast, Verify
<1>11. stage' = "done" => outcome'.status = status
  BY <1>2 DEF Verify, Conclude
<1>12. status = "supported" /\ made.kind \in Tables => made.rows # <<>>
  <2>1. "fields" \in Plan.checks
    BY PlanIsKnown DEF Invariant, Typing, TypeOK
  <2> QED BY <2>1 DEF VerifyResult, CheckPassed, Tables
<1>13. ResultRests'
  <2>1. work' = work /\ kept' = kept /\ stage' \in {"attempt", "done"} /\ result' = made
    BY <1>2 DEF Verify
  <2>2. made.kind \in Tables /\ made.rows # <<>> => kept # <<>>
    BY <1>1, <1>3 DEF Invariant, ResultRests
  <2> QED BY <1>3, <1>11, <1>12, <2>1, <2>2 DEF ResultRests
<1> QED BY <1>6, <1>8, <1>9, <1>10, <1>13 DEF Invariant

LEMMA Begins == ASSUME Invariant, PlanRun \/ Execute PROVE Invariant'
<1>1. /\ stage \notin {"observed", "done"}
      /\ stage' \in {"attempt", "refused", "scan", "trigger", "steps"}
      /\ UNCHANGED <<request, asking, attempt, calls, kept, result, torn>>
  BY DEF PlanRun, Execute
<1>2. IsSequence(kept) /\ (kept = <<>> \/ torn)
  BY <1>1, NothingStored DEF Invariant
<1>3. (at' = at /\ work' = work) \/ (at' = 1 /\ work' = Fresh)
  BY DEF PlanRun, Execute
<1>4. IsWork(work')
  <2>1. IsSequence(<<>>) /\ IsNews(<<>>)
    BY DEF IsSequence, IsNews, ToSet
  <2>2. IsWork(Fresh)
    BY <2>1, InvestigationAssumption DEF Fresh, IsWork
  <2> QED BY <1>3, <2>2 DEF Invariant, Typing
<1>5. Typing'
  BY <1>1, <1>3, <1>4 DEF Invariant, Typing, TypeOK
<1>6. stage' = "steps" => ~(request.honor /\ Conditional(Current))
  BY DEF PlanRun, Execute
<1>7. Current' = Current
  BY <1>1 DEF Current
<1>8. FiredFirst'
  BY <1>1, <1>6, <1>7 DEF FiredFirst
<1>9. HistoryIsLast'
  <2>1. Fresh.missing = {} /\ Fresh.history = <<>>
    BY DEF Fresh
  <2>2. CASE work' = Fresh
    BY <2>1, <2>2 DEF HistoryIsLast
  <2>3. CASE work' # Fresh
    <3>1. work' = work /\ stage' \in {"attempt", "refused"}
      BY <2>3 DEF PlanRun, Execute
    <3> QED BY <3>1 DEF Invariant, HistoryIsLast
  <2> QED BY <2>2, <2>3
<1> QED BY <1>1, <1>2, <1>5, <1>8, <1>9 DEF Invariant, StoresInOrder, ResultRests

LEMMA Unchanging ==
  ASSUME Invariant, MinutePasses \/ UNCHANGED vars
  PROVE  Invariant'
<1>1. UNCHANGED <<request, asking, stage, attempt, at, work, calls, kept, result, outcome, torn>>
  BY DEF MinutePasses, vars
<1>2. Typing'
  BY <1>1 DEF Invariant, Typing, TypeOK
<1>3. Current' = Current
  BY <1>1 DEF Current
<1>4. HistoryIsLast' /\ ResultRests'
  BY <1>1, <1>3 DEF Invariant, HistoryIsLast, ResultRests
<1> QED BY <1>1, <1>2, <1>3, <1>4 DEF Invariant, FiredFirst, StoresInOrder

LEMMA NextInvariant == Invariant /\ [Next]_vars => Invariant'
<1> SUFFICES ASSUME Invariant, [Next]_vars PROVE Invariant'
  OBVIOUS
<1> HIDE DEF Invariant
<1> QED BY Begins, TriggerRead, StepsKeep, PublishKeeps, ScanIsFetched, ScanKeeps, VerifyKeeps,
           Failures, BreaksKeep, Unchanging DEF Next, Breaks

-----------------------------------------------------------------------------
(* Theorems *)

\* Whatever a run is asked, its stage, its repairs, its calls and its result
\* are of their kinds.
THEOREM TypeCorrect == Spec => []TypeOK
<1>1. Invariant => TypeOK
  BY DEF Invariant, Typing
<1> QED BY <1>1, InitInvariant, NextInvariant, PTL DEF Spec

\* A run stores the observations of one attempt, the one its result is about,
\* because a result that came with any is never tried again; where a failure
\* in the middle of storing them leaves more, a result with rows is about
\* those that were stored last.
THEOREM AttemptsAreNotMixed == Spec => []OneAttemptObserved
<1>1. Invariant => OneAttemptObserved
  BY DEF Invariant, StoresInOrder, OneAttemptObserved, Ended
<1> QED BY <1>1, InitInvariant, NextInvariant, PTL DEF Spec

\* A history that did not come is a limitation of every answer, and nothing is
\* claimed over its window, not even by an error that replaced the answer.
THEOREM HistoriesAreNamed == Spec => []MissingHistoryIsNamed
<1>1. Invariant => MissingHistoryIsNamed
  <2> SUFFICES ASSUME Invariant, Ended, work.missing # {}
               PROVE  /\ result.kind # "error" => result.limits # {}
                      /\ ~\E c \in ToSet(result.claims) : c.kind = "over window"
    BY DEF MissingHistoryIsNamed
  <2>1. /\ result.kind # "error" => work.missing \subseteq result.limits
        /\ work.history = <<>>
        /\ \A claim \in ToSet(result.claims) : RestsOn(claim, kept, work.history)
    BY DEF Invariant, HistoryIsLast, ResultRests, Ended
  <2> QED BY <2>1 DEF RestsOn
<1> QED BY <1>1, InitInvariant, NextInvariant, PTL DEF Spec

\* A supported table or comparison was made of observations the run stored,
\* and a claim of a move or of unusual activity gives the change of one.
THEOREM FactsAreObserved == Spec => []NoFactFromNothing
<1>1. Invariant => NoFactFromNothing
  <2> SUFFICES ASSUME Invariant, Settled, result.kind \in {"ranked_table", "comparison"}
               PROVE  /\ kept # <<>>
                      /\ \A c \in ToSet(result.claims) : c.kind \in {"move", "unusual"} =>
                           \E o \in ToSet(kept) : c.names = {o.sym} /\ c.value = o.change
    BY DEF NoFactFromNothing
  <2>1. /\ result.rows # <<>> /\ (result.rows # <<>> => kept # <<>>)
        /\ \A claim \in ToSet(result.claims) : RestsOn(claim, kept, work.history)
    BY DEF Invariant, ResultRests, Settled, Ended, Tables
  <2> QED BY <2>1 DEF RestsOn
<1> QED BY <1>1, InitInvariant, NextInvariant, PTL DEF Spec


-----------------------------------------------------------------------------
(* Events *)

LEMMA PassedWasMet ==
  ASSUME NEW policy, IsPolicy(policy), NEW o, LogicPassed(policy, o)
  PROVE  MetCount(policy, o) > 0
<1> DEFINE met == {i \in DOMAIN policy.conds : Met(policy.conds[i], o)}
<1>1. met \in SUBSET DOMAIN policy.conds
  OBVIOUS
<1>2. IsFiniteSet(met)
  BY <1>1, FS_Subset DEF IsPolicy
<1>3. met # {}
  <2>1. PICK i \in Read(policy, o) : Met(policy.conds[i], o)
    BY DEF LogicPassed
  <2> QED BY <2>1 DEF Read
<1>4. PICK n \in Nat : n = Cardinality(met)
  BY <1>2, FS_CardinalityType
<1>5. n # 0
  BY <1>2, <1>3, <1>4, FS_EmptySet
<1>6. MetCount(policy, o) = n
  BY <1>4 DEF MetCount
<1> QED BY <1>5, <1>6

LEMMA ScannedEvents ==
  ASSUME NEW policy, NEW obs, NEW fear, NEW sym \in Scan(policy, obs, fear).events
  PROVE  \E o \in ToSet(obs) : o.sym = sym /\ LogicPassed(policy, o)
<1> DEFINE candidates == [i \in DOMAIN obs |-> EvaluatePolicy(obs[i], policy, fear)]
<1>1. Scan(policy, obs, fear).events
        = {candidates[i].sym : i \in {j \in DOMAIN obs : candidates[j].passed}}
  BY DEF Scan
<1>2. PICK i \in DOMAIN obs : candidates[i].passed /\ candidates[i].sym = sym
  BY <1>1
<1>3. candidates[i].sym = obs[i].sym /\ candidates[i].passed = LogicPassed(policy, obs[i])
  BY DEF EvaluatePolicy
<1> QED BY <1>2, <1>3 DEF ToSet

LEMMA StepsWithoutEvents ==
  ASSUME Invariant, [Next]_vars, ~Publish, ~ScanPolicy,
         \A message : ~PublishFails(message) /\ ~ScanFails(message)
  PROVE  events' = events
<1>1. CASE TakeStep
  BY <1>1, StepsTyped DEF StepEffect, Invariant
<1>2. CASE PlanRun \/ Execute \/ ReadTrigger \/ FetchScan \/ Verify \/ MinutePasses
  BY <1>2 DEF PlanRun, Execute, ReadTrigger, FetchScan, Verify, MinutePasses
<1>3. ASSUME NEW message, \/ TriggerRefused(message) \/ StepRefused(message)
                          \/ ScanRefused(message) \/ WaitFails(message)
      PROVE  events' = events
  BY <1>3 DEF TriggerRefused, StepRefused, ScanRefused, WaitFails, Fail
<1>4. CASE UNCHANGED vars
  BY <1>4 DEF vars
<1> QED BY <1>1, <1>2, <1>3, <1>4 DEF Next

\* An event is of a coin that was read in the attempt that created it: a
\* workflow that was waiting for its trigger publishes the coin whose quote
\* fired it, a scan those that meet a condition of the policy.
THEOREM EventsHaveCauses == Spec => EventsWereRead
<1> DEFINE Caused ==
      events' # events =>
        IF stage = "steps"
        THEN /\ work.read # None /\ events' = events \cup {work.read.sym}
             /\ LET trigger == Current.trigger
                IN Compare(Metric(work.read, trigger.metric), trigger.operator, trigger.value)
        ELSE \A sym \in events' \ events : \E o \in ToSet(work.obs) :
               o.sym = sym /\ MetCount(Policed, o) > 0
<1>1. Invariant /\ [Next]_vars => [Caused]_vars
  <2> SUFFICES ASSUME Invariant, [Next]_vars, events' # events PROVE Caused
    OBVIOUS
  <2>1. CASE Publish \/ \E message : PublishFails(message)
    <3>1. stage = "steps" /\ request.honor /\ Conditional(Current) /\ TriggerRow # None
          /\ events' = events \cup {TriggerRow.sym}
      BY <2>1 DEF Publish, PublishFails, AllRun, Promoted
    <3>2. Fired(Current.trigger, work.read)
      BY <3>1 DEF Invariant, FiredFirst
    <3>3. TriggerRow = work.read
      BY <3>2 DEF Fired, TriggerRow
    <3> QED BY <3>1, <3>2, <3>3 DEF Fired
  <2>2. CASE ScanPolicy \/ \E message : ScanFails(message)
    <3>1. PICK fear : events' \subseteq events \cup Scan(Policed, work.obs, fear).events
      BY <2>2 DEF ScanPolicy, ScanFails
    <3>2. stage = "score" /\ IsPolicy(Policed)
      BY <2>2, WorkflowsAreValid DEF ScanPolicy, ScanFails, Policed, Invariant, Typing, TypeOK
    <3>3. ASSUME NEW sym \in events' \ events
          PROVE  \E o \in ToSet(work.obs) : o.sym = sym /\ MetCount(Policed, o) > 0
      BY <3>1, <3>2, ScannedEvents, PassedWasMet
    <3> QED BY <3>2, <3>3
  <2> QED BY <2>1, <2>2, StepsWithoutEvents
<1> QED BY <1>1, InitInvariant, NextInvariant, PTL DEF Spec, EventsWereRead



-----------------------------------------------------------------------------
(* Plans *)

\* A report without a plan is an edit's; any other is the planner's, of a task
\* that names capabilities there are.
Planned(report) ==
  report.plan # None =>
    \E task, context : NamesCapabilities(task) /\ report = Compile(task, context)

RequestsArePlanned == \A q \in Requests : Planned(q.report) /\ Planned(q.standing)

LEMMA PlannedIsAccepted ==
  ASSUME NEW report, Planned(report), report.plan # None
  PROVE  report.plan.accepted /\ report.plan.tools \subseteq CmcTools
<1>1. PICK task, context : NamesCapabilities(task) /\ report = Compile(task, context)
  BY DEF Planned
<1> PICK plan : plan = PlanTask(task, context)
  OBVIOUS
<1>2. plan.accepted /\ plan.tools \subseteq CmcTools /\ {"accepted", "tools"} \subseteq DOMAIN plan
  <2>1. plan.accepted
    BY <1>1, PlannersPass
  <2> QED BY <2>1 DEF PlanTask, CapabilityPlan
<1>3. \E workflow : report.plan \in {plan, [plan EXCEPT !.workflow = workflow]}
  BY <1>1 DEF Compile, CompileFromTask
<1> QED BY <1>2, <1>3

\* The tools of a plan are registered and none of the disabled slots.
LEMMA PlansAreAllowed ==
  ASSUME NEW report, Planned(report)
  PROVE  PlanAllowed(PlanForRun(report))
<1> PICK tools : tools = PlanForRun(report).tools
  OBVIOUS
<1>1. \A type : StepTool(type) \subseteq CmcTools
  BY DEF StepTool, CmcTools
<1>2. "get_quotes" \in CmcTools /\ "get_market_listings" \in CmcTools
  BY DEF CmcTools
<1>3. \A workflow : BuiltTools(workflow) \subseteq CmcTools
  <2>1. \A workflow : ToolsFromWorkflow(workflow) \subseteq CmcTools
    BY <1>1, <1>2 DEF ToolsFromWorkflow
  <2> QED BY <1>2, <2>1 DEF BuiltTools
<1>4. CASE report.plan # None
  <2>1. tools \in {BuiltTools(report.plan.workflow), report.plan.tools}
    BY <1>4 DEF PlanForRun, ToAgentPlan, BuildAgentPlan
  <2>2. tools \subseteq CmcTools
    BY <1>3, <1>4, <2>1, PlannedIsAccepted
  <2> QED BY <2>2 DEF PlanAllowed, RequireTool, ToolAllowed, CmcTools, DisabledSlots
<1>5. CASE report.plan = None
  <2> PICK caps : caps = CapabilitiesFor(report.model, report.workflow)
    OBVIOUS
  <2> PICK empty : empty = [universe |-> "", type |-> "one_shot_research", window |-> "", caps |-> caps]
    OBVIOUS
  <2>1. tools = BuiltTools(report.workflow) \cup RequiredTools(empty, caps)
                  \cup UNION {CapabilityTool(name) : name \in ToSet(caps)}
    BY <1>5 DEF PlanForRun, PlanFromVersion, BuildAgentPlan
  <2>3. \A name : CapabilityTool(name) \subseteq CmcTools
    BY DEF CapabilityTool, CmcTools
  <2>4. ToSet(SelectCapabilities(empty, caps)) \subseteq CapabilityNames
    <3>1. IsSequence(caps) /\ ToSet(caps) \subseteq CapabilityNames
      BY CapabilitiesAreKnown
    <3>2. ToSet(<<"market">>) \subseteq CapabilityNames
      BY PairIsSequence DEF CapabilityNames
    <3> PICK chosen : chosen = Only(caps, {name \in ToSet(caps) : Accepts(name, empty)})
      OBVIOUS
    <3>3. ToSet(chosen) \subseteq CapabilityNames
      BY <3>1, OnlyFacts
    <3>4. SelectCapabilities(empty, caps) \in {<<"market">>, chosen}
      BY DEF SelectCapabilities
    <3> QED BY <3>2, <3>3, <3>4
  <2>5. RequiredTools(empty, caps) \subseteq CmcTools
    BY <2>4, RequiredAreTools
  <2>6. tools \subseteq CmcTools
    BY <1>3, <2>1, <2>3, <2>5
  <2> QED BY <2>6 DEF PlanAllowed, RequireTool, ToolAllowed, CmcTools, DisabledSlots
<1> QED BY <1>4, <1>5

\* No run is refused for its plan: what the planner makes of a task that names
\* known capabilities, and what the chief agent makes of an edited version,
\* passes the validators of CapabilityPlan and of validate_agent_plan.
THEOREM PlansPass ==
  ASSUME RequestsArePlanned
  PROVE  Spec => []PlansAreAccepted
<1>1. Init => PlansAreAccepted
  BY DEF Init, PlansAreAccepted
<1>2. Invariant /\ PlansAreAccepted /\ [Next]_vars => PlansAreAccepted'
  <2> SUFFICES ASSUME Invariant, PlansAreAccepted, [Next]_vars PROVE PlansAreAccepted'
    OBVIOUS
  <2>1. CASE PlanRun
    <3>1. Planned(request.report) /\ Planned(request.standing)
      BY DEF RequestsArePlanned, Invariant, Typing, TypeOK
    <3>2. request.report.plan # None => request.report.plan.accepted
      BY <3>1, PlannedIsAccepted
    <3>3. PlanAllowed(Plan)
      BY <3>1, PlansAreAllowed DEF Plan
    <3> QED BY <2>1, <3>2, <3>3 DEF PlanRun, PlansAreAccepted
  <2>2. CASE TakeStep
    BY <2>2, StepsTyped DEF StepEffect, Invariant, PlansAreAccepted
  <2>3. CASE Execute \/ ReadTrigger \/ Publish \/ FetchScan \/ ScanPolicy \/ Verify
    BY <2>3 DEF Execute, ReadTrigger, Publish, FetchScan, ScanPolicy, Verify, Finish,
       PlansAreAccepted
  <2>4. ASSUME NEW message, Failing(message)
        PROVE  PlansAreAccepted'
    BY <2>4, FailingEnds DEF PlansAreAccepted
  <2>5. CASE MinutePasses \/ UNCHANGED vars
    BY <2>5 DEF MinutePasses, vars, PlansAreAccepted
  <2> QED BY <2>1, <2>2, <2>3, <2>4, <2>5 DEF Next, Failing, Breaks
<1> QED BY <1>1, <1>2, InitInvariant, NextInvariant, PTL DEF Spec


-----------------------------------------------------------------------------
(* Tables of gains and declines *)

\* Which of two observations a sort puts first.
Leads(o, p, field, order) ==
  IF order = "descending" THEN Precedes(p, o, field) ELSE Precedes(o, p, field)

Leading(obs, field, order) ==
  {p \in (DOMAIN obs) \X (DOMAIN obs) : Leads(obs[p[1]], obs[p[2]], field, order)}

Stably(places, R) ==
  [i \in places |-> {j \in places : <<j, i>> \in R \/ (<<i, j>> \notin R /\ j < i)}]

LEMMA LeadingIsAnOrder ==
  ASSUME NEW obs, NEW field, NEW order,
         \A i \in DOMAIN obs : Metric(obs[i], field) \in Quantity
  PROVE  WeakOrder(DOMAIN obs, Leading(obs, field, order))
<1> PICK R : R = Leading(obs, field, order)
  OBVIOUS
<1> PICK value : value = [i \in DOMAIN obs |-> Metric(obs[i], field)]
  OBVIOUS
<1> DEFINE Below(v, w) == (v # None /\ w = None) \/ (v # None /\ w # None /\ v < w)
<1>1. ASSUME NEW u \in Quantity, NEW v \in Quantity, NEW w \in Quantity
      PROVE  /\ ~Below(u, u)
             /\ Below(u, v) /\ Below(v, w) => Below(u, w)
             /\ Below(u, w) => Below(u, v) \/ Below(v, w)
  BY DEF Quantity
<1>2. ASSUME NEW i \in DOMAIN obs, NEW j \in DOMAIN obs
      PROVE  <<i, j>> \in R <=> IF order = "descending" THEN Below(value[j], value[i])
                                                        ELSE Below(value[i], value[j])
  <2>1. <<i, j>> \in R <=> Leads(obs[i], obs[j], field, order)
    BY DEF Leading
  <2>2. /\ Precedes(obs[i], obs[j], field) <=> Below(value[i], value[j])
        /\ Precedes(obs[j], obs[i], field) <=> Below(value[j], value[i])
    BY DEF Precedes
  <2> HIDE DEF Below
  <2> QED BY <2>1, <2>2 DEF Leads
<1>3. \A i \in DOMAIN obs : value[i] \in Quantity
  OBVIOUS
<1> HIDE DEF Below
<1>4. \A i \in DOMAIN obs : <<i, i>> \notin R
  BY <1>1, <1>2, <1>3
<1>5. \A i, j, k \in DOMAIN obs : <<i, j>> \in R /\ <<j, k>> \in R => <<i, k>> \in R
  BY <1>1, <1>2, <1>3
<1>6. \A i, j, k \in DOMAIN obs : <<i, k>> \in R => <<i, j>> \in R \/ <<j, k>> \in R
  BY <1>1, <1>2, <1>3
<1> QED BY <1>4, <1>5, <1>6 DEF WeakOrder

\* What an arrangement holds, and in which order.
LEMMA ArrangedInOrder ==
  ASSUME NEW seq, NEW places, IsFiniteSet(places), NEW earlier, StrictOrder(places, earlier)
  PROVE  LET s == Arranged(seq, earlier)
         IN /\ ToSet(s) = {seq[i] : i \in places}
            /\ \A k, l \in DOMAIN s : k < l =>
                 \E i, j \in places : s[k] = seq[i] /\ s[l] = seq[j] /\ j \notin earlier[i]
<1> PICK t : t = Arranged(seq, earlier)
  OBVIOUS
<1> PICK rank : rank = [i \in places |-> Cardinality(earlier[i]) + 1]
  OBVIOUS
<1>1. PICK n \in Nat : n = Cardinality(places) /\ DOMAIN t = 1..n
  <2>1. DOMAIN earlier = places
    BY DEF StrictOrder
  <2>2. Cardinality(places) \in Nat
    BY FS_CardinalityType
  <2> QED BY <2>1, <2>2 DEF Arranged
<1>2. /\ \A k \in 1..Cardinality(places) : \E i \in places :
        Arranged(seq, earlier)[k] = seq[i] /\ rank[i] = k
      /\ ToSet(Arranged(seq, earlier)) = {seq[i] : i \in places}
  BY ArrangedItems
<1>3. /\ \A k \in 1..n : \E i \in places : t[k] = seq[i] /\ rank[i] = k
      /\ ToSet(t) = {seq[i] : i \in places}
  BY <1>1, <1>2
<1>4. \A i, j \in places : i \in earlier[j] => rank[i] < rank[j]
  BY RankFacts
<1>5. ASSUME NEW k \in 1..n, NEW l \in 1..n, k < l
      PROVE  \E i, j \in places : t[k] = seq[i] /\ t[l] = seq[j] /\ j \notin earlier[i]
  <2>1. PICK i \in places : t[k] = seq[i] /\ rank[i] = k
    BY <1>3
  <2>2. PICK j \in places : t[l] = seq[j] /\ rank[j] = l
    BY <1>3
  <2>3. ~(l < k)
    BY <1>5
  <2>4. j \notin earlier[i]
    BY <1>4, <2>1, <2>2, <2>3
  <2> QED BY <2>1, <2>2, <2>4
<1> QED BY <1>1, <1>3, <1>5

LEMMA SortIsArranged ==
  ASSUME NEW obs, NEW field, NEW order
  PROVE  SortAssets(obs, field, order)
           = Arranged(obs, Stably(DOMAIN obs, Leading(obs, field, order)))
<1> PICK places : places = DOMAIN obs
  OBVIOUS
<1> PICK R : R = Leading(obs, field, order)
  OBVIOUS
<1>1. \A i, j \in places : <<j, i>> \in R <=> Leads(obs[j], obs[i], field, order)
  BY DEF Leading
<1> DEFINE First(i, j) == IF order = "descending" THEN Precedes(obs[j], obs[i], field)
                                                  ELSE Precedes(obs[i], obs[j], field)
           Before(i, j) == First(i, j) \/ (~First(j, i) /\ i < j)
<1>2. SortAssets(obs, field, order)
        = Arranged(obs, [i \in DOMAIN obs |-> {j \in DOMAIN obs : Before(j, i)}])
  BY DEF SortAssets
<1>3. \A i, j \in places : First(i, j) <=> Leads(obs[i], obs[j], field, order)
  BY DEF Leads
<1> HIDE DEF First
<1>4. \A i, j \in places : Before(j, i) <=> (<<j, i>> \in R \/ (<<i, j>> \notin R /\ j < i))
  BY <1>1, <1>3
<1> HIDE DEF Before
<1>5. [i \in places |-> {j \in places : Before(j, i)}] = Stably(places, R)
  BY <1>4 DEF Stably
<1> QED BY <1>2, <1>5

LEMMA StablyOrdered ==
  ASSUME NEW places \in SUBSET Int, NEW R, WeakOrder(places, R)
  PROVE  StrictOrder(places, Stably(places, R))
<1> PICK earlier : earlier = [i \in places |->
                                {j \in places : <<j, i>> \in R \/ (<<i, j>> \notin R /\ j < i)}]
  OBVIOUS
<1>1. Stably(places, R) = earlier
  BY DEF Stably
<1> QED BY <1>1, StableOrder

LEMMA StableSort ==
  ASSUME NEW places \in SUBSET Int, IsFiniteSet(places), NEW seq, NEW R, WeakOrder(places, R)
  PROVE  LET s == Arranged(seq, Stably(places, R))
         IN /\ ToSet(s) = {seq[i] : i \in places}
            /\ \A k, l \in DOMAIN s : k < l =>
                 \E i, j \in places : s[k] = seq[i] /\ s[l] = seq[j] /\ <<j, i>> \notin R
<1> DEFINE earlier == Stably(places, R)
           t == Arranged(seq, earlier)
<1>1. StrictOrder(places, earlier)
  BY StablyOrdered
<1>2. \A i, j \in places : j \notin earlier[i] => <<j, i>> \notin R
  BY DEF Stably
<1> HIDE DEF earlier
<1>3. ToSet(t) = {seq[i] : i \in places}
  BY <1>1, ArrangedInOrder
<1>4. \A k, l \in DOMAIN t : k < l =>
        \E i, j \in places : t[k] = seq[i] /\ t[l] = seq[j] /\ j \notin earlier[i]
  BY <1>1, ArrangedInOrder
<1>5. ASSUME NEW k \in DOMAIN t, NEW l \in DOMAIN t, k < l
      PROVE  \E i, j \in places : t[k] = seq[i] /\ t[l] = seq[j] /\ <<j, i>> \notin R
  <2> HIDE DEF t
  <2>1. PICK i \in places, j \in places : t[k] = seq[i] /\ t[l] = seq[j] /\ j \notin earlier[i]
    BY <1>4, <1>5
  <2> QED BY <1>2, <2>1
<1>6. /\ ToSet(t) = {seq[i] : i \in places}
      /\ \A k, l \in DOMAIN t : k < l =>
           \E i, j \in places : t[k] = seq[i] /\ t[l] = seq[j] /\ <<j, i>> \notin R
  <2> HIDE DEF t
  <2> QED BY <1>3, <1>5
<1> QED BY <1>6 DEF earlier

\* A sort keeps the observations, and none comes after one that it leads.
LEMMA SortedInOrder ==
  ASSUME NEW obs, IsSequence(obs), NEW field, NEW order,
         \A i \in DOMAIN obs : Metric(obs[i], field) \in Quantity
  PROVE  LET s == SortAssets(obs, field, order)
         IN /\ IsSequence(s) /\ Len(s) = Len(obs) /\ ToSet(s) = ToSet(obs)
            /\ \A k, l \in DOMAIN s : k < l => ~Leads(s[l], s[k], field, order)
<1> PICK t : t = SortAssets(obs, field, order)
  OBVIOUS
<1> PICK R : R = Leading(obs, field, order)
  OBVIOUS
<1> PICK places : places = DOMAIN obs
  OBVIOUS
<1>1. places \in SUBSET Int /\ IsFiniteSet(places)
  BY SequenceFacts
<1>2. WeakOrder(places, R)
  BY LeadingIsAnOrder
<1>3. t = Arranged(obs, Stably(places, R))
  BY SortIsArranged
<1>4. /\ ToSet(t) = {obs[i] : i \in places}
      /\ \A k, l \in DOMAIN t : k < l =>
           \E i, j \in places : t[k] = obs[i] /\ t[l] = obs[j] /\ <<j, i>> \notin R
  BY <1>1, <1>2, <1>3, StableSort
<1>5. ToSet(t) = ToSet(obs)
  BY <1>4 DEF ToSet
<1>6. IsSequence(t) /\ Len(t) = Len(obs)
  BY SortedSequence
<1>7. \A i, j \in places : <<j, i>> \notin R => ~Leads(obs[j], obs[i], field, order)
  BY DEF Leading
<1>8. ASSUME NEW k \in DOMAIN t, NEW l \in DOMAIN t, k < l
      PROVE  ~Leads(t[l], t[k], field, order)
  <2>1. PICK i \in places, j \in places : t[k] = obs[i] /\ t[l] = obs[j] /\ <<j, i>> \notin R
    BY <1>4, <1>8
  <2> QED BY <1>7, <2>1
<1> QED BY <1>5, <1>6, <1>8

Directions == {"gainers", "losers"}

Beyond(direction, v, w) == IF direction = "gainers" THEN v > w ELSE v < w

OrderOf(direction) == IF direction = "gainers" THEN "descending" ELSE "ascending"

SignOf(direction) == IF direction = "gainers" THEN ">" ELSE "<"

Moved(listed, direction) == FilterThreshold(listed, Change, SignOf(direction), 0)

Sorted(listed, direction) == SortAssets(Moved(listed, direction), Change, OrderOf(direction))

\* The rows of a ranking of what was listed.
TableOf(listed, direction) == RankedRows(Sorted(listed, direction), OrderOf(direction), ShownLimit)

LEMMA MovedFacts ==
  ASSUME NEW listed, IsMarket(listed), NEW direction \in Directions
  PROVE  /\ IsMarket(Moved(listed, direction))
         /\ ToSet(Moved(listed, direction))
              = {o \in ToSet(listed) : o.change # None /\ Beyond(direction, o.change, 0)}
<1> DEFINE operator == SignOf(direction)
           bars == {o \in ToSet(listed) : Compare(Metric(o, Change), operator, 0)}
<1>1. Moved(listed, direction) = Only(listed, bars)
  BY DEF Moved, FilterThreshold
<1>2. ASSUME NEW o \in ToSet(listed)
      PROVE  o \in bars <=> o.change # None /\ Beyond(direction, o.change, 0)
  <2>1. Metric(o, Change) = o.change
    BY DEF Metric, Change
  <2>2. Compare(o.change, operator, 0) <=> o.change # None /\ Beyond(direction, o.change, 0)
    BY DEF Compare, Beyond, Directions, SignOf
  <2> QED BY <2>1, <2>2
<1>3. ToSet(Only(listed, bars)) = ToSet(listed) \cap bars
  BY OnlyFacts DEF IsMarket
<1>4. ToSet(listed) \cap bars = {o \in ToSet(listed) : o.change # None
        /\ Beyond(direction, o.change, 0)}
  BY <1>2
<1> QED BY <1>1, <1>3, <1>4, OnlyMarket

LEMMA SortedMarket ==
  ASSUME NEW obs, IsMarket(obs), NEW order, NEW s, s = SortAssets(obs, Change, order)
  PROVE  /\ IsMarket(s) /\ Len(s) = Len(obs) /\ ToSet(s) = ToSet(obs)
         /\ \A k, l \in DOMAIN s : k < l => ~Leads(s[l], s[k], Change, order)
<1>1. \A i \in DOMAIN obs : Metric(obs[i], Change) \in Quantity
  BY DEF Metric, Change, IsMarket, ToSet
<1> HIDE DEF Change
<1>2. /\ IsSequence(s) /\ Len(s) = Len(obs) /\ ToSet(s) = ToSet(obs)
      /\ \A k, l \in DOMAIN s : k < l => ~Leads(s[l], s[k], Change, order)
  BY <1>1, SortedInOrder DEF IsMarket
<1> QED BY <1>2 DEF IsMarket

\* The rows of a table are the first of the ranking.
LEMMA RowsAreRanked ==
  ASSUME NEW obs, IsMarket(obs), NEW order, NEW limit \in Nat,
         NEW s, s = SortAssets(obs, Change, order), NEW rows, rows = RankedRows(obs, order, limit)
  PROVE  /\ DOMAIN rows \subseteq DOMAIN s /\ DOMAIN s \subseteq Nat
         /\ \A i \in DOMAIN rows :
              1..i \subseteq DOMAIN rows /\ rows[i].sym = s[i].sym /\ rows[i].change = s[i].change
<1> PICK ranked : ranked = RankAssets(obs, Change, order)
  OBVIOUS
<1>1. ranked = [k \in DOMAIN s |-> [rank |-> k, sym |-> s[k].sym, change |-> s[k].change,
                                    move |-> None]]
  BY DEF RankAssets
<1>2. IsSequence(s)
  BY SortedMarket DEF IsMarket
<1>3. IsSequence(ranked) /\ Len(ranked) = Len(s)
  BY <1>1, <1>2, MappedSequence
<1> PICK n \in Nat : n = Len(s) /\ DOMAIN s = 1..n /\ DOMAIN ranked = 1..n
  BY <1>2, <1>3, SequenceFacts
<1> PICK m : m = IF Len(ranked) < limit THEN Len(ranked) ELSE limit
  OBVIOUS
<1>4. m \in Nat /\ m <= n
  BY <1>3
<1>5. Upto(ranked, limit) = [i \in 1..m |-> ranked[i]]
  <2>1. ranked \in Seq(ToSet(ranked))
    BY <1>3 DEF IsSequence
  <2>2. Upto(ranked, limit) = SubSeq(ranked, 1, m)
    BY DEF Upto
  <2> QED BY <1>3, <1>4, <2>1, <2>2
<1>6. rows = IF limit = 0 THEN ranked ELSE Upto(ranked, limit)
  BY DEF RankedRows
<1>7. PICK k \in Nat : k <= n /\ DOMAIN rows = 1..k /\ \A i \in 1..k : rows[i] = ranked[i]
  <2>1. CASE limit = 0
    BY <1>6, <2>1
  <2>2. CASE limit # 0
    BY <1>4, <1>5, <1>6, <2>2
  <2> QED BY <2>1, <2>2
<1>8. ASSUME NEW i \in 1..k
      PROVE  1..i \subseteq 1..k /\ i \in 1..n
  <2>1. i \in Nat /\ i <= k /\ 1 <= i /\ k <= n
    BY <1>7
  <2> QED BY <2>1
<1>9. ASSUME NEW i \in 1..k
      PROVE  rows[i].sym = s[i].sym /\ rows[i].change = s[i].change
  <2>1. i \in DOMAIN s /\ rows[i] = ranked[i]
    BY <1>7, <1>8
  <2>2. ranked[i].sym = s[i].sym /\ ranked[i].change = s[i].change
    BY <1>1, <2>1
  <2> QED BY <2>1, <2>2
<1>10. 1..k \subseteq 1..n /\ 1..n \subseteq Nat
  BY <1>8
<1>11. DOMAIN rows \subseteq DOMAIN s /\ DOMAIN s \subseteq Nat
  <2>1. DOMAIN rows = 1..k /\ DOMAIN s = 1..n
    BY <1>7
  <2> QED BY <1>10, <2>1
<1>12. \A i \in DOMAIN rows : 1..i \subseteq DOMAIN rows
  BY <1>7, <1>8
<1>13. \A i \in DOMAIN rows : rows[i].sym = s[i].sym /\ rows[i].change = s[i].change
  BY <1>7, <1>9
<1> QED BY <1>11, <1>12, <1>13

LEMMA TablesAreExtreme ==
  ASSUME NEW listed, IsMarket(listed), NEW direction \in Directions,
         NEW rows, rows = TableOf(listed, direction)
  PROVE  \A i \in DOMAIN rows :
           /\ rows[i].change # None /\ Beyond(direction, rows[i].change, 0)
           /\ \A o \in ToSet(listed) : o.change # None
             /\ Beyond(direction, o.change, rows[i].change)
                => \E j \in 1..i : rows[j].sym = o.sym
<1> PICK moved : moved = Moved(listed, direction)
  OBVIOUS
<1> PICK order : order = OrderOf(direction)
  OBVIOUS
<1> PICK once : once = SortAssets(moved, Change, order)
  OBVIOUS
<1> PICK s : s = SortAssets(once, Change, order)
  OBVIOUS
<1>1. IsMarket(moved)
      /\ ToSet(moved) = {o \in ToSet(listed) : o.change # None /\ Beyond(direction, o.change, 0)}
  BY MovedFacts
<1>2. IsMarket(once) /\ ToSet(once) = ToSet(moved)
  BY <1>1, SortedMarket
<1>3. /\ ToSet(s) = ToSet(moved)
      /\ \A k, l \in DOMAIN s : k < l => ~Leads(s[l], s[k], Change, order)
  BY <1>2, SortedMarket
<1>4. rows = RankedRows(once, order, ShownLimit)
  BY DEF TableOf, Sorted
<1>5. /\ DOMAIN rows \subseteq DOMAIN s /\ DOMAIN s \subseteq Nat
      /\ \A i \in DOMAIN rows :
           1..i \subseteq DOMAIN rows /\ rows[i].sym = s[i].sym /\ rows[i].change = s[i].change
  BY <1>2, <1>4, InvestigationAssumption, RowsAreRanked
<1>6. ASSUME NEW o \in ToSet(listed), NEW p \in ToSet(listed), o.change # None, p.change # None
      PROVE  /\ o.change \in Int /\ p.change \in Int
             /\ Leads(o, p, Change, order) <=> Beyond(direction, o.change, p.change)
  <2>1. Metric(o, Change) = o.change /\ Metric(p, Change) = p.change
    BY DEF Metric, Change
  <2>2. o.change \in Int /\ p.change \in Int
    BY <1>6 DEF IsMarket, Quantity
  <2> HIDE DEF Change
  <2>3. order = IF direction = "gainers" THEN "descending" ELSE "ascending"
    BY DEF OrderOf
  <2> QED BY <1>6, <2>1, <2>2, <2>3 DEF Leads, Precedes, Beyond, Directions
<1> SUFFICES ASSUME NEW i \in DOMAIN rows
             PROVE  /\ rows[i].change # None /\ Beyond(direction, rows[i].change, 0)
                    /\ \A o \in ToSet(listed) :
                         o.change # None /\ Beyond(direction, o.change, rows[i].change)
                           => \E j \in 1..i : rows[j].sym = o.sym
  OBVIOUS
<1>7. s[i] \in ToSet(listed) /\ s[i].change # None /\ Beyond(direction, s[i].change, 0)
      /\ i \in DOMAIN s /\ i \in Nat
  BY <1>1, <1>3, <1>5 DEF ToSet
<1>8. ASSUME NEW o \in ToSet(listed), o.change # None, Beyond(direction, o.change, s[i].change)
      PROVE  \E j \in 1..i : rows[j].sym = o.sym
  <2>1. Beyond(direction, o.change, 0)
    BY <1>6, <1>7, <1>8 DEF Beyond
  <2>2. o \in ToSet(s)
    BY <1>1, <1>3, <1>8, <2>1
  <2>3. PICK j \in DOMAIN s : s[j] = o
    BY <2>2 DEF ToSet
  <2>4. Leads(o, s[i], Change, order)
    BY <1>6, <1>7, <1>8
  <2>5. ~Beyond(direction, o.change, o.change)
    BY <1>6, <1>8 DEF Beyond
  <2>6. j # i /\ ~(i < j)
    BY <1>3, <1>7, <1>8, <2>3, <2>4, <2>5
  <2>7. j \in Nat /\ j \in 1..i
    <3>1. 1..i \subseteq DOMAIN rows
      BY <1>5
    <3>2. IsSequence(s)
      BY <1>2, SortedMarket DEF IsMarket
    <3>3. j \in Nat \ {0}
      BY <2>3, <3>2, SequenceFacts
    <3> QED BY <1>7, <2>6, <3>3
  <2>8. j \in DOMAIN rows
    BY <1>5, <2>7
  <2> QED BY <1>5, <2>3, <2>7, <2>8
<1> QED BY <1>5, <1>7, <1>8

\* A workflow that shows gains or declines.
ShowsRanking(workflow) ==
  \E step \in ToSet(workflow.steps) : step.type = "present" /\ step.op \in Directions

\* What execute_steps does with a ranking: it lists, keeps what moved that way
\* and sorts it.
IsRanking(steps, direction) ==
  /\ IsSequence(steps) /\ Len(steps) = 5
  /\ "type" \in DOMAIN steps[1] /\ "type" \in DOMAIN steps[2]
  /\ {steps[1].type, steps[2].type} \subseteq {"get_universe", "get_market_data"}
  /\ steps[3].type = "filter" /\ steps[3].relative = "" /\ steps[3].field = Change
  /\ steps[3].value = 0 /\ steps[3].operator = SignOf(direction)
  /\ steps[4].type = "sort" /\ steps[4].field = Change /\ steps[4].order = OrderOf(direction)
  /\ steps[5].type = "present" /\ steps[5].format = "ranked_table"
  /\ steps[5].op = direction /\ steps[5].limit = ShownLimit

\* Where a version shows gains or declines, the planner wrote it for a task,
\* and at most its size was edited; and that is what the run was asked.
RankingsAreCompiled ==
  \A q \in Requests : ShowsRanking(q.standing.workflow) =>
    /\ q.report.workflow = q.standing.workflow
    /\ \E task, context, limit :
         q.standing.workflow \in {Compile(task, context).workflow,
                                  Resized(Compile(task, context).workflow, limit)}

LEMMA TripleIsSequence ==
  ASSUME NEW a, NEW b, NEW c
  PROVE  IsSequence(<<a, b, c>>) /\ ToSet(<<a, b, c>>) = {a, b, c}
<1>1. ToSet(<<a, b, c>>) = {a, b, c}
  BY DEF ToSet
<1>2. <<a, b, c>> \in Seq({a, b, c})
  OBVIOUS
<1> QED BY <1>1, <1>2 DEF IsSequence

LEMMA ListedSteps ==
  ASSUME NEW limit, NEW a, NEW b, NEW c
  PROVE  LET steps == Listings(limit) \o <<a, b, c>>
         IN /\ IsSequence(steps) /\ Len(steps) = 5
            /\ steps[3] = a /\ steps[4] = b /\ steps[5] = c
            /\ "type" \in DOMAIN steps[1] /\ "type" \in DOMAIN steps[2]
            /\ steps[1].type = "get_universe" /\ steps[2].type = "get_market_data"
<1> PICK t : t = <<a, b, c>>
  OBVIOUS
<1> PICK l : l = Listings(limit)
  OBVIOUS
<1>1. IsSequence(t) /\ Len(t) = 3 /\ t[1] = a /\ t[2] = b /\ t[3] = c
  BY TripleIsSequence
<1>2. /\ IsSequence(l) /\ Len(l) = 2
      /\ l[1].type = "get_universe" /\ l[2].type = "get_market_data"
      /\ "type" \in DOMAIN l[1] /\ "type" \in DOMAIN l[2]
  <2> PICK x : x = [Step("get_universe") EXCEPT !.limit = limit]
    OBVIOUS
  <2> PICK y : y = Step("get_market_data")
    OBVIOUS
  <2>1. l = <<x, y>>
    BY DEF Listings
  <2>2. Len(l) = 2 /\ l[1] = x /\ l[2] = y /\ IsSequence(l)
    <3>1. IsSequence(<<x, y>>)
      BY PairIsSequence
    <3> QED BY <2>1, <3>1
  <2>3. /\ x.type = "get_universe" /\ y.type = "get_market_data"
        /\ "type" \in DOMAIN x /\ "type" \in DOMAIN y
    BY DEF Step, Plain
  <2> QED BY <2>2, <2>3
<1> PICK S : S = ToSet(t) \cup ToSet(l)
  OBVIOUS
<1>3. t \in Seq(S) /\ l \in Seq(S)
  BY <1>1, <1>2 DEF IsSequence
<1>4. Len(l \o t) = 5 /\ (l \o t)[1] = l[1] /\ (l \o t)[2] = l[2] /\ (l \o t)[3] = t[1]
      /\ (l \o t)[4] = t[2] /\ (l \o t)[5] = t[3]
  <2>1. /\ Len(l \o t) = Len(l) + Len(t)
        /\ \A i \in 1..(Len(l) + Len(t)) : (l \o t)[i] = IF i <= Len(l) THEN l[i] ELSE t[i - Len(l)]
    BY <1>3, ConcatProperties
  <2>2. \A i \in 1..5 : (l \o t)[i] = IF i <= 2 THEN l[i] ELSE t[i - 2]
    BY <1>1, <1>2, <2>1
  <2> QED BY <1>1, <1>2, <2>1, <2>2
<1>5. IsSequence(l \o t)
  BY <1>1, <1>2, ConcatFacts
<1> QED BY <1>1, <1>2, <1>4, <1>5

LEMMA RankingIsWritten ==
  ASSUME NEW direction \in Directions, NEW limit
  PROVE  IsRanking(ListingsRankWorkflow(direction, limit).steps, direction)
<1> DEFINE gains == direction = "gainers"
           filter == [Step("filter") EXCEPT !.field = Change, !.value = 0,
                                            !.operator = IF gains THEN ">" ELSE "<"]
           sort == [Step("sort") EXCEPT !.field = Change,
                                        !.order = IF gains THEN "descending" ELSE "ascending"]
           shown == Present("ranked_table", direction, ShownLimit)
<1>1. ListingsRankWorkflow(direction, limit).steps = Listings(limit) \o <<filter, sort, shown>>
  BY DEF ListingsRankWorkflow, Workflow
<1>2. /\ filter.type = "filter" /\ filter.relative = "" /\ filter.field = Change
      /\ filter.value = 0 /\ filter.operator = SignOf(direction)
  BY DEF Step, Plain, SignOf
<1>3. sort.type = "sort" /\ sort.field = Change /\ sort.order = OrderOf(direction)
  BY DEF Step, Plain, OrderOf
<1>4. /\ shown.type = "present" /\ shown.format = "ranked_table"
      /\ shown.op = direction /\ shown.limit = ShownLimit
  BY DEF Present, Step, Plain
<1> HIDE DEF filter, sort, shown
<1>5. LET steps == Listings(limit) \o <<filter, sort, shown>>
      IN /\ IsSequence(steps) /\ Len(steps) = 5
         /\ steps[3] = filter /\ steps[4] = sort /\ steps[5] = shown
         /\ "type" \in DOMAIN steps[1] /\ "type" \in DOMAIN steps[2]
         /\ steps[1].type = "get_universe" /\ steps[2].type = "get_market_data"
  BY ListedSteps
<1> QED BY <1>1, <1>2, <1>3, <1>4, <1>5 DEF IsRanking

\* Steps that show neither gains nor declines.
Quiet(step) ==
  "type" \in DOMAIN step /\ ~(step.type = "present" /\ step.op \in Directions)

QuietSteps(steps) == IsSequence(steps) /\ \A step \in ToSet(steps) : Quiet(step)

LEMMA QuietFacts ==
  /\ QuietSteps(<<>>)
  /\ \A a : Quiet(a) => QuietSteps(<<a>>)
  /\ \A a, b : Quiet(a) /\ Quiet(b) => QuietSteps(<<a, b>>)
  /\ \A a, b, c : Quiet(a) /\ Quiet(b) /\ Quiet(c) => QuietSteps(<<a, b, c>>)
  /\ \A s, t : QuietSteps(s) /\ QuietSteps(t) => QuietSteps(s \o t)
<1> HIDE DEF Quiet
<1>1. ASSUME NEW a, NEW b, Quiet(a), Quiet(b)
      PROVE  QuietSteps(<<>>) /\ QuietSteps(<<a>>) /\ QuietSteps(<<a, b>>)
  <2>1. /\ IsSequence(<<>>) /\ ToSet(<<>>) = {}
        /\ IsSequence(<<a>>) /\ ToSet(<<a>>) = {a}
        /\ IsSequence(<<a, b>>) /\ ToSet(<<a, b>>) = {a, b}
    BY PairIsSequence
  <2>2. \A s : IsSequence(s) /\ ToSet(s) \subseteq {a, b} => QuietSteps(s)
    BY <1>1 DEF QuietSteps
  <2> QED BY <2>1, <2>2
<1>2. ASSUME NEW a, NEW b, NEW c, Quiet(a), Quiet(b), Quiet(c)
      PROVE  QuietSteps(<<a, b, c>>)
  <2>1. IsSequence(<<a, b, c>>) /\ ToSet(<<a, b, c>>) = {a, b, c}
    BY TripleIsSequence
  <2> PICK s : s = <<a, b, c>>
    OBVIOUS
  <2>2. IsSequence(s) /\ ToSet(s) = {a, b, c}
    BY <2>1
  <2>3. QuietSteps(s)
    BY <1>2, <2>2 DEF QuietSteps
  <2> QED BY <2>3
<1>3. \A s, t : QuietSteps(s) /\ QuietSteps(t) => QuietSteps(s \o t)
  BY ConcatFacts DEF QuietSteps
<1>4. QuietSteps(<<>>)
  BY PairIsSequence DEF QuietSteps
<1> QED BY <1>1, <1>2, <1>3, <1>4

\* A workflow that shows something else than gains or declines.
Other(workflow) == DOMAIN workflow = {"trigger", "steps"} /\ QuietSteps(workflow.steps)

LEMMA OthersAreQuiet ==
  ASSUME NEW limit, NEW symbols, NEW window
  PROVE  /\ Other(NoWorkflow) /\ Other(NewsWorkflow(symbols))
    /\ Other(SnapshotWorkflow(symbols, window))
         /\ Other(MarketCapWorkflow(limit)) /\ Other(BriefWorkflow(limit))
         /\ Other(SummaryWorkflow(limit))
         /\ \A asset, threshold, order, metric, operator :
              Other(ReactionWorkflow(asset, threshold, limit, order, metric, operator))
<1>1. /\ \A type : type # "present" => Quiet(Step(type))
      /\ \A type, size : type # "present" => Quiet([Step(type) EXCEPT !.limit = size])
      /\ \A type, list : type # "present" => Quiet([Step(type) EXCEPT !.symbols = list])
      /\ \A type, op : type # "present" => Quiet([Step(type) EXCEPT !.op = op])
  BY DEF Quiet, Step, Plain
<1>2. /\ \A type, list, op : type # "present"
        => Quiet([Step(type) EXCEPT !.symbols = list, !.op = op])
      /\ \A type, list, size :
           type # "present" => Quiet([Step(type) EXCEPT !.symbols = list, !.limit = size])
      /\ \A type, field, order :
           type # "present" => Quiet([Step(type) EXCEPT !.field = field, !.order = order])
  BY DEF Quiet, Step, Plain
<1>3. \A format, op, size : op \notin Directions => Quiet(Present(format, op, size))
  BY DEF Quiet, Present, Step, Plain
<1>4. "" \notin Directions /\ "market_cap" \notin Directions
  BY DEF Directions
<1>5. \A trigger, steps : QuietSteps(steps) => Other(Workflow(trigger, steps))
  BY DEF Other, Workflow
<1> HIDE DEF Quiet
<1>6. QuietSteps(Listings(limit))
  <2>1. /\ Quiet([Step("get_universe") EXCEPT !.limit = limit])
        /\ Quiet(Step("get_market_data"))
    BY <1>1
  <2> QED BY <2>1, QuietFacts DEF Listings
<1>7. Other(NoWorkflow)
  BY <1>5, QuietFacts DEF NoWorkflow
<1>8. Other(NewsWorkflow(symbols))
  <2>1. /\ Quiet([Step("get_content") EXCEPT !.symbols = symbols, !.limit = 20])
        /\ Quiet([Step("get_quotes") EXCEPT !.symbols = symbols])
        /\ Quiet(Present("news_brief", "", 0))
    BY <1>1, <1>2, <1>3, <1>4
  <2> QED BY <1>5, <2>1, QuietFacts DEF NewsWorkflow
<1>9. Other(SnapshotWorkflow(symbols, window))
  <2> PICK op : op = IF window = "" THEN "24h" ELSE window
    OBVIOUS
  <2>1. /\ Quiet([Step("get_quotes") EXCEPT !.symbols = symbols])
        /\ Quiet([Step("get_quotes_historical") EXCEPT !.symbols = symbols, !.op = op])
        /\ Quiet(Present("comparison", "", 0))
    BY <1>1, <1>2, <1>3, <1>4
  <2> QED BY <1>5, <2>1, QuietFacts DEF SnapshotWorkflow
<1>10. Other(MarketCapWorkflow(limit))
  <2>1. /\ Quiet([Step("sort") EXCEPT !.field = "market_cap", !.order = "descending"])
        /\ Quiet(Present("ranked_table", "market_cap", limit))
    BY <1>2, <1>3, <1>4
  <2> QED BY <1>5, <1>6, <2>1, QuietFacts DEF MarketCapWorkflow
<1>11. Other(BriefWorkflow(limit)) /\ Other(SummaryWorkflow(limit))
  <2>1. /\ Quiet(Step("get_global_metrics")) /\ Quiet(Step("get_fear_and_greed")) /\ Quiet(Mean)
        /\ Quiet(Present("market_summary", "", 0))
    BY <1>1, <1>3, <1>4 DEF Mean
  <2>2. /\ QuietSteps(<<Step("get_global_metrics"), Mean, Present("market_summary", "", 0)>>)
        /\ QuietSteps(<<Step("get_global_metrics"), Step("get_fear_and_greed")>>)
        /\ QuietSteps(<<Mean, Present("market_summary", "", 0)>>)
    BY <2>1, QuietFacts
  <2>3. Other(BriefWorkflow(limit))
    BY <1>5, <1>6, <2>2, QuietFacts DEF BriefWorkflow
  <2>4. Other(SummaryWorkflow(limit))
    BY <1>5, <1>6, <2>2, QuietFacts DEF SummaryWorkflow
  <2> QED BY <2>3, <2>4
<1>12. ASSUME NEW asset, NEW threshold, NEW order, NEW metric, NEW operator
       PROVE  Other(ReactionWorkflow(asset, threshold, limit, order, metric, operator))
  <2> DEFINE steps == <<[Step("calculate") EXCEPT !.op = "percentage_change"],
                        [Step("sort") EXCEPT !.field = Change, !.order = order],
                        Present("ranked_table", "", 0)>>
  <2>1. /\ Quiet([Step("calculate") EXCEPT !.op = "percentage_change"])
        /\ Quiet([Step("sort") EXCEPT !.field = Change, !.order = order])
        /\ Quiet(Present("ranked_table", "", 0))
    BY <1>1, <1>2, <1>3, <1>4
  <2>2. QuietSteps(steps)
    BY <2>1, QuietFacts
  <2>3. QuietSteps(Listings(limit) \o steps)
    <3> HIDE DEF steps
    <3> QED BY <1>6, <2>2, QuietFacts
  <2>4. ReactionWorkflow(asset, threshold, limit, order, metric, operator)
          = IF asset = "" THEN NoWorkflow
            ELSE Workflow(Trigger(asset, metric, operator, threshold), Listings(limit) \o steps)
    BY DEF ReactionWorkflow
  <2> HIDE DEF steps
  <2> QED BY <1>5, <1>7, <2>3, <2>4
<1> QED BY <1>7, <1>8, <1>9, <1>10, <1>11, <1>12

\* What the planner writes for a task shows no gains or declines, or ranks them.
Ranked(workflow) == \E direction \in Directions : IsRanking(workflow.steps, direction)

LEMMA TasksAreRankedOrOther ==
  ASSUME NEW task
  PROVE  LET workflow == WorkflowFromTask(task)
         IN /\ DOMAIN workflow = {"trigger", "steps"}
            /\ Other(workflow) \/ Ranked(workflow)
<1> PICK w : w = WorkflowFromTask(task)
  OBVIOUS
<1> PICK limit : limit = IF task.limit = 0 THEN DefaultLimit ELSE task.limit
  OBVIOUS
<1>1. Other(ReactionOfTask(task, limit))
  BY OthersAreQuiet DEF ReactionOfTask
<1>2. Other(StandingOfTask(task))
  <2> PICK asset : asset = TriggerAsset(task)
    OBVIOUS
  <2> DEFINE quote == [Step("get_quotes") EXCEPT !.symbols = <<asset>>]
             shown == Present("comparison", "", 0)
  <2>1. Quiet(quote) /\ Quiet(shown)
    BY DEF Quiet, Step, Plain, Present, Directions
  <2> HIDE DEF quote, shown
  <2> PICK steps : steps = IF asset = "" THEN <<>> ELSE <<quote, shown>>
    OBVIOUS
  <2>2. QuietSteps(steps)
    BY <2>1, QuietFacts
  <2>3. PICK trigger : StandingOfTask(task) = Workflow(trigger, steps)
    BY DEF StandingOfTask, quote, shown
  <2>4. \A x : Other(Workflow(x, steps))
    BY <2>2 DEF Other, Workflow
  <2> QED BY <2>3, <2>4
<1>3. \A direction \in Directions :
        LET ranking == ListingsRankWorkflow(direction, limit)
        IN DOMAIN ranking = {"trigger", "steps"} /\ Ranked(ranking)
  BY RankingIsWritten DEF ListingsRankWorkflow, Workflow, Ranked
<1>4. "gainers" \in Directions /\ "losers" \in Directions
  BY DEF Directions
<1>5. PICK symbols, window :
        w \in {NewsWorkflow(task.assets), BriefWorkflow(limit), ReactionOfTask(task, limit),
               StandingOfTask(task), ListingsRankWorkflow("gainers", limit),
               ListingsRankWorkflow("losers", limit), SummaryWorkflow(limit),
               MarketCapWorkflow(limit), NoWorkflow, SnapshotWorkflow(symbols, window)}
  <2>1. PICK symbols : symbols = Upto(task.assets, 4)
    OBVIOUS
  <2>2. PICK window :
          window = Else(task.window, IF Contains(task.caps, "historical") THEN "30d" ELSE "24h")
    OBVIOUS
  <2>3. w \in {NewsWorkflow(task.assets), BriefWorkflow(limit), ReactionOfTask(task, limit),
               StandingOfTask(task), ListingsRankWorkflow("gainers", limit),
               ListingsRankWorkflow("losers", limit), SummaryWorkflow(limit),
               MarketCapWorkflow(limit), NoWorkflow, SnapshotWorkflow(symbols, window)}
    BY <2>1, <2>2 DEF WorkflowFromTask
  <2> QED BY <2>3
<1>6. /\ Other(NewsWorkflow(task.assets)) /\ Other(BriefWorkflow(limit))
      /\ Other(SummaryWorkflow(limit)) /\ Other(MarketCapWorkflow(limit)) /\ Other(NoWorkflow)
      /\ Other(SnapshotWorkflow(symbols, window))
  BY OthersAreQuiet
<1>7. /\ DOMAIN w = {"trigger", "steps"}
      /\ Other(w) \/ Ranked(w)
  <2>1. \A v : Other(v) => DOMAIN v = {"trigger", "steps"}
    BY DEF Other
  <2> QED BY <1>1, <1>2, <1>3, <1>4, <1>5, <1>6, <2>1
<1> QED BY <1>7

\* A ranking or another workflow is one whatever its trigger is.
LEMMA TriggersAside ==
  ASSUME NEW v, DOMAIN v = {"trigger", "steps"}, NEW w, DOMAIN w = {"trigger", "steps"},
         w.steps = v.steps
  PROVE  (Other(v) => Other(w)) /\ (Ranked(v) => Ranked(w))
<1>1. ASSUME Other(v)
      PROVE  Other(w)
  BY <1>1 DEF Other
<1>2. ASSUME Ranked(v)
      PROVE  Ranked(w)
  BY <1>2 DEF Ranked
<1> QED BY <1>1, <1>2

LEMMA CompiledIsRankedOrOther ==
  ASSUME NEW task, NEW context
  PROVE  LET workflow == Compile(task, context).workflow
         IN DOMAIN workflow = {"trigger", "steps"} /\ (Other(workflow) \/ Ranked(workflow))
<1> PICK inherited : inherited = Inherit(task, context)
  OBVIOUS
<1> PICK v : v = WorkflowFromTask(inherited)
  OBVIOUS
<1> PICK plan : plan = PlanTask(task, context)
  OBVIOUS
<1>1. plan.workflow = v
  BY DEF PlanTask, CapabilityPlan
<1> PICK w : w = Compile(task, context).workflow
  OBVIOUS
<1>2. w = ApplyTaskTrigger(v, inherited)
  BY <1>1 DEF Compile, CompileFromTask
<1>3. DOMAIN v = {"trigger", "steps"} /\ (Other(v) \/ Ranked(v))
  BY TasksAreRankedOrOther
<1>4. w = v \/ \E trigger : w = [v EXCEPT !.trigger = trigger]
  BY <1>2 DEF ApplyTaskTrigger
<1>5. DOMAIN w = {"trigger", "steps"} /\ w.steps = v.steps
  BY <1>3, <1>4
<1>6. Other(w) \/ Ranked(w)
  BY <1>3, <1>5, TriggersAside
<1> QED BY <1>5, <1>6


\* And so it is whatever its size is.
LEMMA ResizedIsRankedOrOther ==
  ASSUME NEW v, DOMAIN v = {"trigger", "steps"}, Other(v) \/ Ranked(v), NEW limit
  PROVE  QuietSteps(Resized(v, limit).steps) \/ Ranked(Resized(v, limit))
<1> PICK old : old = v.steps
  OBVIOUS
<1> PICK new : new = [i \in DOMAIN old |->
                        IF old[i].type \in {"get_universe", "get_market_data"}
                        THEN [old[i] EXCEPT !.limit = limit] ELSE old[i]]
  OBVIOUS
<1> PICK w : w = Resized(v, limit)
  OBVIOUS
<1>1. w.steps = new
  BY DEF Resized
<1>2. IsSequence(old)
  BY DEF Other, QuietSteps, Ranked, IsRanking
<1>3. IsSequence(new) /\ Len(new) = Len(old) /\ DOMAIN new = DOMAIN old
  BY <1>2, MappedSequence
<1>4. ASSUME NEW i \in DOMAIN old, "type" \in DOMAIN old[i]
      PROVE  new[i].type = old[i].type /\ "type" \in DOMAIN new[i]
  <2> PICK o : o = old[i]
    OBVIOUS
  <2>1. new[i] = o \/ new[i] = [o EXCEPT !.limit = limit]
    OBVIOUS
  <2>2. LET changed == [o EXCEPT !.limit = limit]
        IN changed.type = o.type /\ "type" \in DOMAIN changed
    BY <1>4
  <2> QED BY <1>4, <2>1, <2>2
<1>5. ASSUME NEW i \in DOMAIN old, old[i].type \notin {"get_universe", "get_market_data"}
      PROVE  new[i] = old[i]
  BY <1>5
<1>6. CASE Other(v)
  <2>1. ASSUME NEW i \in DOMAIN old
        PROVE  Quiet(new[i])
    <3>1. Quiet(old[i])
      BY <1>6 DEF Other, QuietSteps, ToSet
    <3>2. CASE old[i].type \in {"get_universe", "get_market_data"}
      BY <1>4, <3>1, <3>2 DEF Quiet
    <3> QED BY <1>5, <3>1, <3>2
  <2>2. \A step \in ToSet(new) : Quiet(step)
    BY <1>3, <2>1 DEF ToSet
  <2> QED BY <1>1, <1>3, <2>2 DEF QuietSteps
<1>7. CASE Ranked(v)
  <2>1. PICK direction \in Directions : IsRanking(old, direction)
    BY <1>7 DEF Ranked
  <2>2. Len(old) = 5 /\ DOMAIN old = 1..5
    <3>1. Len(old) = 5
      BY <2>1 DEF IsRanking
    <3>2. DOMAIN old = 1..Len(old)
      BY <1>2, SequenceFacts
    <3> QED BY <3>1, <3>2
  <2>3. /\ "type" \in DOMAIN old[1] /\ "type" \in DOMAIN old[2]
        /\ {old[1].type, old[2].type} \subseteq {"get_universe", "get_market_data"}
        /\ old[3].type = "filter" /\ old[4].type = "sort" /\ old[5].type = "present"
    BY <2>1 DEF IsRanking
  <2>4. /\ "type" \in DOMAIN new[1] /\ "type" \in DOMAIN new[2]
        /\ {new[1].type, new[2].type} \subseteq {"get_universe", "get_market_data"}
    <3>1. 1 \in DOMAIN old /\ 2 \in DOMAIN old
      BY <2>2
    <3> QED BY <1>4, <2>3, <3>1
  <2>5. new[3] = old[3] /\ new[4] = old[4] /\ new[5] = old[5]
    <3>1. 3 \in DOMAIN old /\ 4 \in DOMAIN old /\ 5 \in DOMAIN old
      BY <2>2
    <3> QED BY <1>5, <2>3, <3>1
  <2>6. IsSequence(new) /\ Len(new) = 5
    BY <1>3, <2>2
  <2>7. IsRanking(new, direction)
    <3>1. /\ new[3].type = "filter" /\ new[3].relative = "" /\ new[3].field = Change
          /\ new[3].value = 0 /\ new[3].operator = SignOf(direction)
      BY <2>1, <2>5 DEF IsRanking
    <3>2. new[4].type = "sort" /\ new[4].field = Change /\ new[4].order = OrderOf(direction)
      BY <2>1, <2>5 DEF IsRanking
    <3>3. /\ new[5].type = "present" /\ new[5].format = "ranked_table"
          /\ new[5].op = direction /\ new[5].limit = ShownLimit
      BY <2>1, <2>5 DEF IsRanking
    <3> QED BY <2>4, <2>6, <3>1, <3>2, <3>3 DEF IsRanking
  <2> QED BY <1>1, <2>7 DEF Ranked
<1> QED BY <1>6, <1>7


-----------------------------------------------------------------------------
(* The ranking of a run *)

\* A run of a version that shows gains or declines.
RunsRanking(direction) ==
  IsRanking(request.standing.workflow.steps, direction)
    /\ request.report.workflow = request.standing.workflow

\* Step by step, what was listed becomes what is shown.
RankedSoFar(direction) ==
  /\ stage = "trigger" => at = 1 /\ work.listed = None
  /\ stage = "steps" =>
       /\ at = 1 => work.listed = None
       /\ at # 1 => IsMarket(work.listed)
       /\ at \in {2, 3} => work.obs = work.listed
       /\ at = 4 => work.obs = Moved(work.listed, direction)
       /\ at > 4 => work.obs = Sorted(work.listed, direction) /\ work.order = OrderOf(direction)
  /\ stage \in {"observed", "done"} /\ result.kind = "ranked_table" =>
       IsMarket(work.listed) /\ result.rows = TableOf(work.listed, direction)

\* A table is a result of the version's workflow.
TablesAreOwn ==
  stage \in {"observed", "done"} /\ result.kind = "ranked_table" => ~asking

RankedInvariant ==
  TablesAreOwn /\ \A direction \in Directions : RunsRanking(direction) => RankedSoFar(direction)

LEMMA RankingIsRun ==
  ASSUME RankingsAreCompiled, request \in Requests, ShowsRanking(request.standing.workflow)
  PROVE  \E direction \in Directions : RunsRanking(direction)
<1> PICK w : w = request.standing.workflow
  OBVIOUS
<1>1. PICK task, context, limit :
        w \in {Compile(task, context).workflow, Resized(Compile(task, context).workflow, limit)}
  BY DEF RankingsAreCompiled
<1> PICK v : v = Compile(task, context).workflow
  OBVIOUS
<1>2. DOMAIN v = {"trigger", "steps"} /\ (Other(v) \/ Ranked(v))
  BY CompiledIsRankedOrOther
<1>3. QuietSteps(Resized(v, limit).steps) \/ Ranked(Resized(v, limit))
  BY <1>2, ResizedIsRankedOrOther
<1>4. QuietSteps(w.steps) \/ Ranked(w)
  BY <1>1, <1>2, <1>3 DEF Other
<1>5. ~QuietSteps(w.steps)
  BY DEF ShowsRanking, QuietSteps, Quiet
<1>6. request.report.workflow = w
  BY DEF RankingsAreCompiled
<1> QED BY <1>4, <1>5, <1>6 DEF Ranked, RunsRanking

LEMMA RankingSteps ==
  ASSUME NEW direction, RunsRanking(direction)
  PROVE  /\ IsRanking(Current.steps, direction)
         /\ DOMAIN Current.steps = 1..5
<1>1. IsRanking(Current.steps, direction)
  BY DEF RunsRanking, Current
<1>2. IsSequence(Current.steps) /\ Len(Current.steps) = 5
  BY <1>1 DEF IsRanking
<1>3. DOMAIN Current.steps = 1..Len(Current.steps)
  BY <1>2, SequenceFacts
<1> QED BY <1>1, <1>2, <1>3

\* What is shown of a ranking is its last step.
LEMMA RankingIsShown ==
  ASSUME NEW direction, RunsRanking(direction)
  PROVE  Presented = Current.steps[5]
<1> PICK steps : steps = Current.steps
  OBVIOUS
<1> PICK presents : presents = {s \in ToSet(steps) : s.type = "present"}
  OBVIOUS
<1> PICK shown : shown = Only(steps, presents)
  OBVIOUS
<1>1. IsRanking(steps, direction) /\ DOMAIN steps = 1..5
  BY RankingSteps
<1>2. IsSequence(shown) /\ ToSet(shown) = ToSet(steps) \cap presents
  <2>1. IsSequence(steps)
    BY <1>1 DEF IsRanking
  <2> QED BY <2>1, OnlyFacts
<1>3. /\ steps[1].type # "present" /\ steps[2].type # "present"
      /\ steps[3].type # "present" /\ steps[4].type # "present"
  BY <1>1 DEF IsRanking
<1>4. steps[5].type = "present"
  BY <1>1 DEF IsRanking
<1>5. presents = {steps[5]}
  <2>1. \A i \in DOMAIN steps : i = 1 \/ i = 2 \/ i = 3 \/ i = 4 \/ i = 5
    BY <1>1
  <2>2. \A i \in DOMAIN steps : steps[i].type = "present" <=> i = 5
    BY <1>3, <1>4, <2>1
  <2>3. 5 \in DOMAIN steps
    BY <1>1
  <2> QED BY <2>2, <2>3 DEF ToSet
<1>6. ToSet(shown) = {steps[5]}
  BY <1>2, <1>5
<1>7. shown # <<>>
  <2>1. ToSet(<<>>) = {}
    BY PairIsSequence
  <2> QED BY <1>6, <2>1
<1>8. Last(shown) = steps[5]
  BY <1>2, <1>6, <1>7, EndsAreItems
<1>9. Presented = IF shown = <<>> THEN Present("ranked_table", "", 0) ELSE Last(shown)
  BY DEF Presented
<1> QED BY <1>7, <1>8, <1>9

LEMMA ShownIsInWorkflow ==
  ASSUME request \in Requests, Presented.op \in Directions
  PROVE  ShowsRanking(Current)
<1> PICK steps : steps = Current.steps
  OBVIOUS
<1> PICK presents : presents = {s \in ToSet(steps) : s.type = "present"}
  OBVIOUS
<1> PICK shown : shown = Only(steps, presents)
  OBVIOUS
<1>1. IsSequence(steps)
  BY WorkflowsAreValid DEF IsWorkflow
<1>2. IsSequence(shown) /\ ToSet(shown) = ToSet(steps) \cap presents
  BY <1>1, OnlyFacts
<1>3. Presented = IF shown = <<>> THEN Present("ranked_table", "", 0) ELSE Last(shown)
  BY DEF Presented
<1>4. Present("ranked_table", "", 0).op \notin Directions
  BY DEF Present, Step, Plain, Directions
<1>5. Presented = Last(shown) /\ shown # <<>>
  BY <1>3, <1>4
<1>6. Last(shown) \in ToSet(shown)
  BY <1>2, <1>5, EndsAreItems
<1> QED BY <1>2, <1>5, <1>6 DEF ShowsRanking


\* The step of a ranking that comes next.
LEMMA RankingStep ==
  ASSUME NEW direction, RunsRanking(direction), at \in Nat \ {0}, NEW types, AtStep(types)
  PROVE  /\ at \in 1..5 /\ TheStep.type \in types
         /\ at \in {1, 2} => TheStep.type \in {"get_universe", "get_market_data"}
         /\ at = 3 => /\ TheStep.type = "filter" /\ TheStep.relative = "" /\ TheStep.field = Change
                      /\ TheStep.value = 0 /\ TheStep.operator = SignOf(direction)
         /\ at = 4 => /\ TheStep.type = "sort" /\ TheStep.field = Change
                      /\ TheStep.order = OrderOf(direction)
         /\ at = 5 => TheStep.type = "present"
<1> PICK steps : steps = Current.steps
  OBVIOUS
<1>1. IsRanking(steps, direction)
  BY RankingSteps
<1>2. at <= 5 /\ steps[at].type \in types
  BY <1>1 DEF AtStep, IsRanking
<1>3. at \in 1..5
  BY <1>2
<1>4. TheStep = steps[at]
  BY DEF TheStep
<1>5. /\ {steps[1].type, steps[2].type} \subseteq {"get_universe", "get_market_data"}
      /\ steps[3].type = "filter" /\ steps[3].relative = "" /\ steps[3].field = Change
      /\ steps[3].value = 0 /\ steps[3].operator = SignOf(direction)
      /\ steps[4].type = "sort" /\ steps[4].field = Change /\ steps[4].order = OrderOf(direction)
      /\ steps[5].type = "present"
  BY <1>1 DEF IsRanking
<1> HIDE DEF Change
<1> QED BY <1>2, <1>3, <1>4, <1>5

\* What the listing keeps of an answer is a market.
LEMMA ListedMarket ==
  ASSUME NEW limit \in Nat, NEW data \in Answers("get_market_listings", limit + Slack),
         NEW previous
  PROVE  IsMarket(Upto(Volatile(NormalizeListings(data, previous)), limit))
<1>1. limit + Slack \in Nat
  BY InvestigationAssumption
<1>2. IsMarket(data)
  BY <1>1, AnswersAreTyped
<1>3. IsMarket(NormalizeListings(data, previous))
  BY <1>2, NormalizedMarket
<1>4. IsMarket(Volatile(NormalizeListings(data, previous)))
  BY <1>3, OnlyMarket DEF Volatile
<1> QED BY <1>4, UptoMarket

LEMMA RankingIsListed ==
  ASSUME Typing, NEW direction, RunsRanking(direction), RankedSoFar(direction),
         stage = "steps", at \in {1, 2}, FetchListings
  PROVE  IsMarket(work'.listed) /\ work'.obs = work'.listed
<1>1. request \in Requests /\ IsWork(work) /\ work.limit \in Nat
  BY DEF Typing, TypeOK, IsWork
<1>2. PICK limit \in Nat : limit = Limit
  <2>1. AtStep({"get_universe", "get_market_data"})
    BY DEF FetchListings
  <2>2. at \in Nat \ {0}
    OBVIOUS
  <2>3. TheStep.limit \in Nat
    BY <1>1, <2>1, <2>2, TheStepIsValid
  <2> QED BY <1>1, <2>3 DEF Limit
<1>3. {"limit", "obs", "listed"} \subseteq DOMAIN work
  BY <1>1 DEF IsWork, Fresh
<1>4. CASE work.listed # None
  <2>1. work' = [work EXCEPT !.limit = limit]
    BY <1>2, <1>4 DEF FetchListings, Skip, Done
  <2>2. IsMarket(work.listed) /\ work.obs = work.listed
    BY <1>4 DEF RankedSoFar
  <2> QED BY <1>3, <2>1, <2>2
<1>5. CASE work.listed = None
  <2>1. PICK data \in Answers("get_market_listings", limit + Slack) :
          LET obs == Upto(Volatile(NormalizeListings(data, snapshot)), limit)
          IN work' = [work EXCEPT !.limit = limit, !.obs = obs, !.listed = obs]
    BY <1>2, <1>5 DEF FetchListings, Done
  <2> PICK obs : obs = Upto(Volatile(NormalizeListings(data, snapshot)), limit)
    OBVIOUS
  <2>2. IsMarket(obs)
    BY ListedMarket
  <2>3. work' = [work EXCEPT !.limit = limit, !.obs = obs, !.listed = obs]
    BY <2>1
  <2>4. work'.listed = obs /\ work'.obs = obs
    BY <1>3, <2>3
  <2> QED BY <2>2, <2>4
<1> QED BY <1>4, <1>5

LEMMA RankingAdvances ==
  ASSUME Typing, NEW direction \in Directions, RunsRanking(direction), RankedSoFar(direction),
         TakeStep
  PROVE  RankedSoFar(direction)'
<1>1. /\ stage = "steps" /\ stage' = "steps" /\ at' = at + 1 /\ at \in Nat \ {0}
      /\ request \in Requests /\ IsWork(work)
  BY StepsTyped DEF StepEffect, Typing, TypeOK
<1>2. PICK types : AtStep(types)
  BY DEF TakeStep, FetchListings, FetchQuotes, FetchContext, FetchContent, FetchHistory,
         SortStep, FilterRelative, FilterStep, LabelStep
<1>3. at \in 1..5
  BY <1>1, <1>2, RankingStep
<1>4. CASE at \in {1, 2}
  <2>1. TheStep.type \in {"get_universe", "get_market_data"}
    BY <1>1, <1>2, <1>4, RankingStep
  <2>2. FetchListings
    BY <2>1 DEF TakeStep, FetchQuotes, FetchContext, FetchContent, FetchHistory,
                SortStep, FilterRelative, FilterStep, LabelStep, AtStep, TheStep
  <2>3. IsMarket(work'.listed) /\ work'.obs = work'.listed
    BY <1>1, <1>4, <2>2, RankingIsListed
  <2>4. at' \in {2, 3}
    BY <1>1, <1>4
  <2> QED BY <1>1, <2>3, <2>4 DEF RankedSoFar
<1>5. CASE at = 3
  <2>1. /\ TheStep.type = "filter" /\ TheStep.relative = "" /\ TheStep.field = Change
        /\ TheStep.value = 0 /\ TheStep.operator = SignOf(direction)
    BY <1>1, <1>2, <1>5, RankingStep
  <2>2. FilterStep
    BY <2>1 DEF TakeStep, FetchListings, FetchQuotes, FetchContext, FetchContent, FetchHistory,
                SortStep, FilterRelative, LabelStep, AtStep, TheStep
  <2>3. work' = [work EXCEPT !.obs = FilterThreshold(work.obs, TheStep.field, TheStep.operator,
                                                     TheStep.value)]
    BY <2>2 DEF FilterStep, Skip, Done
  <2>4. FilterThreshold(work.obs, TheStep.field, TheStep.operator, TheStep.value)
          = Moved(work.obs, direction)
    BY <2>1 DEF Moved
  <2>5. work'.listed = work.listed /\ work'.obs = Moved(work.obs, direction)
    BY <1>1, <2>3, <2>4 DEF IsWork, Fresh
  <2>6. IsMarket(work.listed) /\ work.obs = work.listed
    BY <1>1, <1>5 DEF RankedSoFar
  <2>7. at' = 4
    BY <1>1, <1>5
  <2> QED BY <1>1, <2>5, <2>6, <2>7 DEF RankedSoFar
<1>6. CASE at = 4
  <2>1. TheStep.type = "sort" /\ TheStep.field = Change /\ TheStep.order = OrderOf(direction)
    BY <1>1, <1>2, <1>6, RankingStep
  <2>2. SortStep
    BY <2>1 DEF TakeStep, FetchListings, FetchQuotes, FetchContext, FetchContent, FetchHistory,
                FilterStep, FilterRelative, LabelStep, AtStep, TheStep
  <2>3. work' = [work EXCEPT !.order = TheStep.order,
                             !.obs = SortAssets(work.obs, TheStep.field, TheStep.order)]
    BY <2>2 DEF SortStep, Skip, Done
  <2>4. IsMarket(work.listed) /\ work.obs = Moved(work.listed, direction)
    BY <1>1, <1>6 DEF RankedSoFar
  <2>5. SortAssets(work.obs, TheStep.field, TheStep.order) = Sorted(work.listed, direction)
    BY <2>1, <2>4 DEF Sorted
  <2>6. /\ work'.listed = work.listed /\ work'.obs = Sorted(work.listed, direction)
        /\ work'.order = OrderOf(direction)
    BY <1>1, <2>1, <2>3, <2>5 DEF IsWork, Fresh
  <2>7. at' = 5
    BY <1>1, <1>6
  <2> QED BY <1>1, <2>4, <2>6, <2>7 DEF RankedSoFar
<1>7. CASE at = 5
  <2>1. TheStep.type = "present"
    BY <1>1, <1>2, <1>7, RankingStep
  <2>2. LabelStep
    BY <2>1 DEF TakeStep, FetchListings, FetchQuotes, FetchContext, FetchContent, FetchHistory,
                FilterStep, FilterRelative, SortStep, AtStep, TheStep
  <2>3. work' = work
    BY <2>2 DEF LabelStep, Skip, Done
  <2>4. at' = 6
    BY <1>1, <1>7
  <2> QED BY <1>1, <1>7, <2>3, <2>4 DEF RankedSoFar
<1> QED BY <1>3, <1>4, <1>5, <1>6, <1>7


LEMMA RankingIsPublished ==
  ASSUME Invariant, NEW direction \in Directions, RunsRanking(direction), RankedSoFar(direction),
         Publish
  PROVE  RankedSoFar(direction)' /\ TablesAreOwn'
<1>1. /\ stage = "steps" /\ at > Len(Current.steps) /\ at \in Nat
      /\ request \in Requests /\ IsWork(work)
  BY DEF Publish, AllRun, Invariant, Typing, TypeOK
<1>2. IsRanking(Current.steps, direction)
  BY RankingSteps
<1>3. Presented = Current.steps[5]
  BY RankingIsShown
<1>4. Presented.format = "ranked_table" /\ Presented.limit = ShownLimit
  BY <1>2, <1>3 DEF IsRanking
<1>5. at > 5
  BY <1>1, <1>2 DEF IsRanking
<1>6. /\ IsMarket(work.listed) /\ work.obs = Sorted(work.listed, direction)
      /\ work.order = OrderOf(direction)
  BY <1>1, <1>5 DEF RankedSoFar
<1>7. PICK items : Finish(ResultOf(items))
  BY DEF Publish
<1>8. ResultOf(items).rows = RankedRows(work.obs, work.order, ShownLimit)
  BY <1>4 DEF ResultOf, Blank
<1>9. result'.rows = TableOf(work.listed, direction) /\ stage' = "observed" /\ asking' = FALSE
  BY <1>6, <1>7, <1>8 DEF TableOf, Finish
<1>10. work' = work
  BY DEF Publish
<1> QED BY <1>6, <1>9, <1>10 DEF RankedSoFar, TablesAreOwn

\* A result that is no table, and a stage before any.
LEMMA NoTableYet ==
  ASSUME NEW direction,
         \/ stage' \notin {"trigger", "steps", "observed", "done"}
         \/ stage' = "observed" /\ result'.kind # "ranked_table"
  PROVE  RankedSoFar(direction)' /\ TablesAreOwn'
BY DEF RankedSoFar, TablesAreOwn

LEMMA RankingBegins ==
  ASSUME NEW direction, PlanRun \/ Execute
  PROVE  RankedSoFar(direction)' /\ TablesAreOwn'
<1>1. CASE PlanRun
  BY <1>1, NoTableYet DEF PlanRun
<1>2. CASE Execute
  <2>1. work'.listed = None /\ at' = 1 /\ stage' \in {"scan", "trigger", "steps"}
    BY <1>2 DEF Execute, Fresh
  <2> QED BY <2>1 DEF RankedSoFar, TablesAreOwn
<1> QED BY <1>1, <1>2

LEMMA RankingIsTriggered ==
  ASSUME Invariant, NEW direction, RankedSoFar(direction), ReadTrigger
  PROVE  RankedSoFar(direction)' /\ TablesAreOwn'
<1>1. /\ stage = "trigger" /\ at' = at /\ IsWork(work) /\ at = 1 /\ work.listed = None
  BY DEF ReadTrigger, Invariant, Typing, RankedSoFar
<1>2. \/ stage' = "observed" /\ result'.kind = "no_result"
      \/ stage' = "steps" /\ \E read : work' = [work EXCEPT !.read = read]
  <2>1. PICK read : IF Fired(Current.trigger, read)
                    THEN stage' = "steps" /\ work' = [work EXCEPT !.read = read]
                         /\ UNCHANGED <<result, asking>>
                    ELSE Finish(Waiting(read)) /\ UNCHANGED work
    BY DEF ReadTrigger
  <2>2. Waiting(read).kind = "no_result"
    BY DEF Waiting, Blank
  <2> QED BY <2>1, <2>2 DEF Finish
<1>3. CASE stage' = "observed" /\ result'.kind = "no_result"
  BY <1>3, NoTableYet
<1>4. CASE stage' = "steps" /\ \E read : work' = [work EXCEPT !.read = read]
  <2>1. work'.listed = None
    BY <1>1, <1>4 DEF IsWork, Fresh
  <2> QED BY <1>1, <1>4, <2>1 DEF RankedSoFar, TablesAreOwn
<1> QED BY <1>2, <1>3, <1>4

LEMMA RankingFails ==
  ASSUME NEW direction, NEW message, Failing(message)
  PROVE  RankedSoFar(direction)' /\ TablesAreOwn'
BY FailingEnds, NoTableYet

LEMMA RankingIsScanned ==
  ASSUME NEW direction, FetchScan \/ ScanPolicy
  PROVE  RankedSoFar(direction)' /\ TablesAreOwn'
<1>1. CASE FetchScan
  BY <1>1, NoTableYet DEF FetchScan
<1>2. CASE ScanPolicy
  <2>1. stage' = "observed" /\ result'.kind # "ranked_table"
    BY <1>2, ScanMakesNoTable DEF Finish
  <2> QED BY <2>1, NoTableYet
<1> QED BY <1>1, <1>2

LEMMA RankingIsVerified ==
  ASSUME Invariant, NEW direction, RankedSoFar(direction), TablesAreOwn, Verify
  PROVE  RankedSoFar(direction)' /\ TablesAreOwn'
<1>1. /\ stage = "observed" /\ IsResult(result) /\ result.claims = <<>> /\ request \in Requests
      /\ UNCHANGED <<asking, at, work>> /\ result' = WithClaims(result)
      /\ stage' \in {"attempt", "done"}
  BY DEF Verify, Invariant, Typing, TypeOK, ResultRests
<1>2. IsSequence(work.history) /\ IsSequence(kept)
  BY DEF Invariant, Typing, IsWork, StoresInOrder
<1>3. result'.kind = result.kind /\ result'.rows = result.rows
  BY <1>1, <1>2, ClaimsKeepResults
<1> QED BY <1>1, <1>3 DEF RankedSoFar, TablesAreOwn


LEMMA RankingUnchanged ==
  ASSUME NEW direction, RankedSoFar(direction), TablesAreOwn, MinutePasses \/ UNCHANGED vars
  PROVE  RankedSoFar(direction)' /\ TablesAreOwn'
<1>1. UNCHANGED <<asking, stage, at, work, result>>
  BY DEF MinutePasses, vars
<1> QED BY <1>1 DEF RankedSoFar, TablesAreOwn

LEMMA TablesStayOwn == ASSUME Invariant, TablesAreOwn, Verify PROVE TablesAreOwn'
<1>1. stage = "observed" /\ IsResult(result) /\ result.claims = <<>> /\ request \in Requests
      /\ asking' = asking /\ result' = WithClaims(result)
  BY DEF Verify, Invariant, Typing, TypeOK, ResultRests
<1>2. IsSequence(work.history) /\ IsSequence(kept)
  BY DEF Invariant, Typing, IsWork, StoresInOrder
<1>3. result'.kind = result.kind
  BY <1>1, <1>2, ClaimsKeepResults
<1> QED BY <1>1, <1>3 DEF TablesAreOwn

LEMMA RequestStays == ASSUME [Next]_vars PROVE UNCHANGED request
<1>1. \A message : Failing(message) => UNCHANGED request
  BY DEF Failing, Breaks, TriggerRefused, StepRefused, ScanRefused, Fail,
         WaitFails, PublishFails, ScanFails
<1>2. PlanRun \/ Execute \/ ReadTrigger \/ Publish \/ FetchScan \/ ScanPolicy \/ Verify
        \/ MinutePasses \/ UNCHANGED vars => UNCHANGED request
  BY DEF PlanRun, Execute, ReadTrigger, Publish, FetchScan, ScanPolicy, Verify, MinutePasses, vars
<1>3. TakeStep => UNCHANGED request
  <2>1. \A changed : Done(changed) \/ Skip(changed) => UNCHANGED request
    BY DEF Skip, Done
  <2> HIDE DEF Done, Skip
  <2> QED BY <2>1 DEF TakeStep, FetchListings, FetchQuotes, FetchContext, FetchContent,
                      FetchHistory, SortStep, FilterRelative, FilterStep, LabelStep
<1> QED BY <1>1, <1>2, <1>3 DEF Next, Failing, Breaks

LEMMA RankedInvariantNext ==
  ASSUME Invariant, RankedInvariant, [Next]_vars
  PROVE  RankedInvariant'
<1>1. \A direction : RunsRanking(direction)' => RunsRanking(direction)
  BY RequestStays DEF RunsRanking
<1>2. TablesAreOwn /\ "gainers" \in Directions
  BY DEF RankedInvariant, Directions
<1>3. Typing
  BY DEF Invariant
<1>4. CASE TakeStep
  <2>1. stage' = "steps"
    BY <1>3, <1>4, StepsTyped DEF StepEffect
  <2>2. TablesAreOwn'
    BY <2>1 DEF TablesAreOwn
  <2> HIDE DEF Invariant
  <2>3. \A direction \in Directions : RunsRanking(direction) => RankedSoFar(direction)'
    BY <1>3, <1>4, RankingAdvances DEF RankedInvariant
  <2> QED BY <1>1, <2>2, <2>3 DEF RankedInvariant
<1>5. CASE Publish
  <2>1. TablesAreOwn'
    BY <1>5 DEF Publish, Finish, TablesAreOwn
  <2> HIDE DEF Invariant
  <2>2. \A direction \in Directions : RunsRanking(direction) => RankedSoFar(direction)'
    BY <1>5, RankingIsPublished DEF RankedInvariant
  <2> QED BY <1>1, <2>1, <2>2 DEF RankedInvariant
<1>6. CASE PlanRun \/ Execute
  <2>1. \A direction : RankedSoFar(direction)' /\ TablesAreOwn'
    BY <1>6, RankingBegins
  <2> QED BY <2>1 DEF RankedInvariant
<1>7. CASE FetchScan \/ ScanPolicy
  <2>1. \A direction : RankedSoFar(direction)' /\ TablesAreOwn'
    BY <1>7, RankingIsScanned
  <2> QED BY <2>1 DEF RankedInvariant
<1>8. CASE \E message \in {"refused", "unavailable"} : Failing(message)
  <2>1. \A direction : RankedSoFar(direction)' /\ TablesAreOwn'
    BY <1>8, RankingFails
  <2> QED BY <2>1 DEF RankedInvariant
<1>9. CASE ReadTrigger
  <2>1. \A direction : RankedSoFar(direction) => RankedSoFar(direction)' /\ TablesAreOwn'
    BY <1>9, RankingIsTriggered
  <2>2. TablesAreOwn'
    <3>1. stage' = "observed" => asking' = FALSE
      BY <1>9 DEF ReadTrigger, Finish
    <3>2. stage' # "done"
      BY <1>9 DEF ReadTrigger, Finish
    <3> QED BY <3>1, <3>2 DEF TablesAreOwn
  <2> QED BY <1>1, <2>1, <2>2 DEF RankedInvariant
<1>10. CASE Verify
  <2>1. \A direction : RankedSoFar(direction) => RankedSoFar(direction)' /\ TablesAreOwn'
    BY <1>2, <1>10, RankingIsVerified
  <2>2. TablesAreOwn'
    BY <1>2, <1>10, TablesStayOwn
  <2> QED BY <1>1, <2>1, <2>2 DEF RankedInvariant
<1>11. CASE MinutePasses \/ UNCHANGED vars
  <2>1. \A direction : RankedSoFar(direction) => RankedSoFar(direction)'
    BY <1>2, <1>11, RankingUnchanged
  <2>2. TablesAreOwn'
    BY <1>2, <1>11 DEF TablesAreOwn, MinutePasses, vars
  <2> QED BY <1>1, <2>1, <2>2 DEF RankedInvariant
<1> HIDE DEF Invariant
<1> QED BY <1>4, <1>5, <1>6, <1>7, <1>8, <1>9, <1>10, <1>11 DEF Next, Failing, Breaks

\* A ranking of gains or declines that the planner wrote shows what moved that
\* way, most first, and leaves out nothing of the listing that moved more than
\* what it shows, however long the listing and whatever it reports.
THEOREM RankingsAreExtreme == ASSUME RankingsAreCompiled PROVE Spec => []TableIsExtreme
<1>1. Init => RankedInvariant
  BY DEF Init, RankedInvariant, TablesAreOwn, RankedSoFar
<1>2. Invariant /\ RankedInvariant /\ [Next]_vars => RankedInvariant'
  BY RankedInvariantNext
<1>3. Invariant /\ RankedInvariant => TableIsExtreme
  <2> SUFFICES ASSUME Invariant, RankedInvariant, Ended, result.kind = "ranked_table",
                      Presented.op \in Directions
               PROVE  \A i \in DOMAIN result.rows :
                        /\ result.rows[i].change # None
                        /\ Beyond(Presented.op, result.rows[i].change, 0)
                        /\ \A o \in ToSet(work.listed) :
                             o.change # None /\ Beyond(Presented.op, o.change, result.rows[i].change)
                               => \E j \in 1..i : result.rows[j].sym = o.sym
    BY DEF TableIsExtreme, Beyond, Directions
  <2>1. request \in Requests /\ ~asking /\ stage = "done"
    BY DEF Invariant, Typing, TypeOK, RankedInvariant, TablesAreOwn, Ended
  <2>2. Current = request.standing.workflow
    BY <2>1 DEF Current
  <2>3. ShowsRanking(request.standing.workflow)
    BY <2>1, <2>2, ShownIsInWorkflow
  <2>4. PICK direction \in Directions : RunsRanking(direction)
    BY <2>1, <2>3, RankingIsRun
  <2>5. IsMarket(work.listed) /\ result.rows = TableOf(work.listed, direction)
    BY <2>1, <2>4 DEF RankedInvariant, RankedSoFar
  <2>6. Presented.op = direction
    <3>1. Presented = Current.steps[5] /\ IsRanking(Current.steps, direction)
      BY <2>4, RankingIsShown, RankingSteps
    <3> QED BY <3>1 DEF IsRanking
  <2> QED BY <2>5, <2>6, TablesAreExtreme
<1> QED BY <1>1, <1>2, <1>3, InitInvariant, NextInvariant, PTL DEF Spec

-----------------------------------------------------------------------------
(* Assets that share a ticker *)

\* A ticker that the items give to a coin with a rank and a price.
HasPrincipal(items, sym) ==
  \E o \in ToSet(items) : /\ o.sym = sym /\ o.price # None
                          /\ o.rank # None /\ o.rank < 1000000000

\* No market knows a ticker by namesakes alone.
TickersHavePrincipals ==
  \A m \in Markets : \A o \in ToSet(m) : HasPrincipal(m, o.sym)

AllRanked(obs) == \A o \in ToSet(obs) : o.rank # None

\* The best of some items has a rank where one of them has one and a price.
LEMMA BestIsRanked ==
  ASSUME NEW items, IsMarket(items), NEW o \in ToSet(items),
         o.price # None, o.rank # None, o.rank < 1000000000
  PROVE  Best(items) \in ToSet(items) /\ Best(items).rank # None
<1> PICK best : best = Best(items)
  OBVIOUS
<1>1. best \in ToSet(items) /\ ~BetterListing(o, best)
  BY NothingIsBetter
<1>2. ASSUME best.rank = None
      PROVE  FALSE
  <2>1. Priced(best)
    BY <1>1, PricedIsBetter DEF Priced
  <2>2. o.rank \in Int
    BY DEF IsMarket, Quantity
  <2>3. Ranks(o, best)
    BY <1>2, <2>2 DEF Ranks, PlaceOf
  <2> QED BY <1>1, <2>1, <2>3, PricedIsBetter DEF Priced
<1> QED BY <1>1, <1>2

LEMMA PrincipalIsBest ==
  ASSUME NEW obs, IsMarket(obs), NEW sym, HasPrincipal(obs, sym)
  PROVE  Best(OfSymbol(obs, sym)).rank # None
<1> PICK own : own = OfSymbol(obs, sym)
  OBVIOUS
<1>1. IsMarket(own) /\ ToSet(own) = ToSet(obs) \cap {o \in ToSet(obs) : o.sym = sym}
  BY OnlyMarket, OnlyFacts DEF OfSymbol, IsMarket
<1>2. PICK o \in ToSet(obs) :
        o.sym = sym /\ o.price # None /\ o.rank # None /\ o.rank < 1000000000
  BY DEF HasPrincipal
<1>3. o \in ToSet(own)
  BY <1>1, <1>2
<1> QED BY <1>1, <1>2, <1>3, BestIsRanked

LEMMA IndexedRanked ==
  ASSUME NEW obs, IsMarket(obs), \A o \in ToSet(obs) : HasPrincipal(obs, o.sym)
  PROVE  AllRanked(IndexBySymbol(obs))
<1> PICK named : named = [i \in DOMAIN obs |-> obs[i].sym]
  OBVIOUS
<1> PICK syms : syms = Unique(named)
  OBVIOUS
<1> PICK t : t = IndexBySymbol(obs)
  OBVIOUS
<1>1. IsSequence(named)
  BY MappedSequence DEF IsMarket
<1>2. ToSet(syms) \subseteq ToSet(named)
  BY <1>1, UniqueSequence
<1>3. t = [k \in DOMAIN syms |-> Best(OfSymbol(obs, syms[k]))]
  BY DEF IndexBySymbol
<1>4. \A i \in DOMAIN obs : HasPrincipal(obs, obs[i].sym)
  BY DEF ToSet
<1>5. \A sym \in ToSet(named) : HasPrincipal(obs, sym)
  BY <1>4 DEF ToSet
<1>6. ASSUME NEW k \in DOMAIN syms
      PROVE  t[k].rank # None
  <2>1. syms[k] \in ToSet(named)
    BY <1>2 DEF ToSet
  <2>2. HasPrincipal(obs, syms[k])
    BY <1>5, <2>1
  <2>3. Best(OfSymbol(obs, syms[k])).rank # None
    BY <2>2, PrincipalIsBest
  <2> QED BY <1>3, <2>3
<1> QED BY <1>3, <1>6 DEF AllRanked, ToSet

\* What is asked of a market knows each ticker as the market does, and so
\* it does with the ranks before.
LEMMA AskedPrincipals ==
  ASSUME NEW m, IsMarket(m), \A o \in ToSet(m) : HasPrincipal(m, o.sym), NEW symbols
  PROVE  \A o \in ToSet(AboutAny(m, symbols)) : HasPrincipal(AboutAny(m, symbols), o.sym)
<1> PICK asked : asked = AboutAny(m, symbols)
  OBVIOUS
<1>1. ToSet(asked) = ToSet(m) \cap {o \in ToSet(m) : o.sym \in ToSet(symbols)}
  BY OnlyFacts DEF AboutAny, IsMarket
<1>2. \A o \in ToSet(m) : o.sym \in ToSet(symbols) => o \in ToSet(asked)
  BY <1>1
<1> QED BY <1>1, <1>2 DEF HasPrincipal

LEMMA NormalizedPrincipals ==
  ASSUME NEW items, IsMarket(items), \A o \in ToSet(items) : HasPrincipal(items, o.sym),
         NEW previous
  PROVE  LET known == NormalizeListings(items, previous)
         IN \A o \in ToSet(known) : HasPrincipal(known, o.sym)
<1> PICK t : t = NormalizeListings(items, previous)
  OBVIOUS
<1>1. DOMAIN t = DOMAIN items
  BY DEF NormalizeListings
<1>2. ASSUME NEW i \in DOMAIN items
      PROVE  t[i].sym = items[i].sym /\ t[i].price = items[i].price /\ t[i].rank = items[i].rank
  <2> PICK o : o = items[i]
    OBVIOUS
  <2>1. {"sym", "price", "rank"} \subseteq DOMAIN o
    BY DEF IsMarket, ToSet
  <2>2. PICK before :
          t[i] = [field \in DOMAIN o \cup {"before"} |-> IF field = "before"
            THEN before ELSE o[field]]
    BY DEF NormalizeListings
  <2> QED BY <2>1, <2>2
<1>3. ASSUME NEW i \in DOMAIN items
      PROVE  HasPrincipal(t, t[i].sym)
  <2>1. HasPrincipal(items, items[i].sym)
    BY DEF ToSet
  <2>2. PICK j \in DOMAIN items :
          /\ items[j].sym = items[i].sym /\ items[j].price # None
          /\ items[j].rank # None /\ items[j].rank < 1000000000
    BY <2>1 DEF HasPrincipal, ToSet
  <2>3. /\ t[j].sym = t[i].sym /\ t[j].price # None
        /\ t[j].rank # None /\ t[j].rank < 1000000000
    BY <1>2, <2>2
  <2>4. t[j] \in ToSet(t)
    BY <1>1 DEF ToSet
  <2> QED BY <2>3, <2>4 DEF HasPrincipal
<1> QED BY <1>1, <1>3 DEF ToSet

\* The quotes of some tickers are those of ranked coins.
LEMMA QuotedRanked ==
  ASSUME TickersHavePrincipals, NEW symbols, IsSequence(symbols),
         NEW data \in Answers("get_quotes", symbols), NEW previous
  PROVE  /\ IsMarket(SelectQuoted(data, symbols, previous))
         /\ AllRanked(SelectQuoted(data, symbols, previous))
<1>1. PICK m \in Markets : data = AboutAny(m, symbols)
  BY DEF Answers
<1>2. IsMarket(m) /\ \A o \in ToSet(m) : HasPrincipal(m, o.sym)
  BY InvestigationAssumption DEF TickersHavePrincipals
<1>3. IsMarket(data) /\ \A o \in ToSet(data) : HasPrincipal(data, o.sym)
  BY <1>1, <1>2, AskedPrincipals, AnswersAreTyped
<1> PICK items : items = NormalizeListings(data, previous)
  OBVIOUS
<1>4. IsMarket(items) /\ \A o \in ToSet(items) : HasPrincipal(items, o.sym)
  BY <1>3, NormalizedMarket, NormalizedPrincipals
<1> PICK known : known = IndexBySymbol(items)
  OBVIOUS
<1>5. AllRanked(known) /\ IsMarket(known)
  BY <1>4, IndexedRanked, IndexedMarket
<1> PICK asked : asked = Only(symbols, Symbols(known))
  OBVIOUS
<1>6. ToSet(asked) \subseteq Symbols(known)
  BY OnlyFacts
<1> PICK found : found = [i \in DOMAIN asked |-> Find(known, asked[i])]
  OBVIOUS
<1>7. SelectQuoted(data, symbols, previous) = IF asked = <<>> THEN known ELSE found
  BY DEF SelectQuoted
<1>8. ASSUME NEW i \in DOMAIN asked
      PROVE  found[i] \in ToSet(known)
  <2>1. asked[i] \in Symbols(known)
    BY <1>6 DEF ToSet
  <2> QED BY <1>5, <2>1, FindFacts DEF IsMarket
<1>9. ToSet(found) \subseteq ToSet(known)
  BY <1>8 DEF ToSet
<1>10. AllRanked(found)
  BY <1>5, <1>9 DEF AllRanked
<1>11. IsMarket(SelectQuoted(data, symbols, previous))
  BY <1>3, QuotedMarket
<1> QED BY <1>5, <1>7, <1>10, <1>11

\* A workflow that compares coins fetches them by their tickers.
Compares(workflow) == Presents(workflow, "comparison")

QuotesOnly(workflow) ==
  Compares(workflow) => \A step \in ToSet(workflow.steps) :
                          step.type \notin {"get_universe", "get_market_data"}

ComparisonsAreQuoted ==
  \A q \in Requests : QuotesOnly(q.report.workflow) /\ QuotesOnly(q.standing.workflow)

LEMMA ComparedIsInWorkflow ==
  ASSUME request \in Requests, Presented.format = "comparison"
  PROVE  Compares(Current)
<1> PICK steps : steps = Current.steps
  OBVIOUS
<1> PICK presents : presents = {s \in ToSet(steps) : s.type = "present"}
  OBVIOUS
<1> PICK shown : shown = Only(steps, presents)
  OBVIOUS
<1>1. IsSequence(steps)
  BY WorkflowsAreValid DEF IsWorkflow
<1>2. IsSequence(shown) /\ ToSet(shown) = ToSet(steps) \cap presents
  BY <1>1, OnlyFacts
<1>3. Presented = IF shown = <<>> THEN Present("ranked_table", "", 0) ELSE Last(shown)
  BY DEF Presented
<1>4. Present("ranked_table", "", 0).format # "comparison"
  BY DEF Present, Step, Plain
<1>5. Presented = Last(shown) /\ shown # <<>>
  BY <1>3, <1>4
<1>6. Last(shown) \in ToSet(shown)
  BY <1>2, <1>5, EndsAreItems
<1>7. Presented \in ToSet(steps) /\ Presented.type = "present"
  BY <1>2, <1>5, <1>6
<1> QED BY <1>7 DEF Compares, Presents, ToSet

\* The observations of a workflow that compares are of ranked coins, from its
\* first step on, and so are those its result is about.
ComparesRanked ==
  /\ stage \in {"trigger", "steps"} /\ Compares(Current) =>
       IsMarket(work.obs) /\ AllRanked(work.obs)
  /\ stage \in {"observed", "done"} /\ result.kind = "comparison" => AllRanked(work.obs)

\* Sorted or filtered, the observations of ranked coins are still that.
LEMMA RankedSubset ==
  ASSUME NEW obs, IsMarket(obs), AllRanked(obs), NEW values
  PROVE  IsMarket(Only(obs, values)) /\ AllRanked(Only(obs, values))
<1>1. ToSet(Only(obs, values)) \subseteq ToSet(obs)
  BY OnlyFacts DEF IsMarket
<1> QED BY <1>1, OnlyMarket DEF AllRanked

LEMMA RankedSorted ==
  ASSUME NEW obs, IsMarket(obs), AllRanked(obs), NEW field \in {Change, "market_cap"}, NEW order
  PROVE  IsMarket(SortAssets(obs, field, order)) /\ AllRanked(SortAssets(obs, field, order))
<1>1. \A i \in DOMAIN obs : Metric(obs[i], field) \in Quantity
  BY DEF Metric, Change, IsMarket, ToSet
<1> PICK s : s = SortAssets(obs, field, order)
  OBVIOUS
<1>2. IsSequence(s) /\ ToSet(s) = ToSet(obs)
  BY <1>1, SortedInOrder DEF IsMarket
<1> QED BY <1>2 DEF IsMarket, AllRanked

\* One step of a workflow that compares.
LEMMA ComparedStep ==
  ASSUME TickersHavePrincipals, QuotesOnly(Current), Typing, TakeStep,
         Compares(Current), IsMarket(work.obs), AllRanked(work.obs)
  PROVE  IsMarket(work'.obs) /\ AllRanked(work'.obs)
<1>1. /\ request \in Requests /\ at \in Nat \ {0} /\ IsWork(work)
      /\ {"obs", "items"} \subseteq DOMAIN work
  BY DEF Typing, TypeOK, IsWork, Fresh
<1>2. ASSUME NEW obs, IsMarket(obs), AllRanked(obs), work' = [work EXCEPT !.obs = obs]
      PROVE  IsMarket(work'.obs) /\ AllRanked(work'.obs)
  BY <1>1, <1>2
<1>3. CASE FetchListings
  <2>1. AtStep({"get_universe", "get_market_data"})
    BY <1>3 DEF FetchListings
  <2>2. TheStep.type \in {"get_universe", "get_market_data"} /\ at \in DOMAIN Current.steps
    BY <1>1, <2>1, TheStepIsValid
  <2>3. TheStep \in ToSet(Current.steps)
    BY <2>2 DEF TheStep, ToSet
  <2> QED BY <2>2, <2>3 DEF QuotesOnly
<1>4. CASE FetchQuotes
  <2>1. CASE QuoteSymbols = <<>>
    BY <1>4, <2>1 DEF FetchQuotes, Skip, Done
  <2>2. CASE QuoteSymbols # <<>>
    <3>1. PICK data \in Answers("get_quotes", QuoteSymbols) :
            work' = [work EXCEPT !.obs = SelectQuoted(data, QuoteSymbols, snapshot)]
      BY <1>4, <2>2 DEF FetchQuotes, Done
    <3>2. IsSequence(QuoteSymbols)
      <4>1. AtStep({"get_quotes"})
        BY <1>4 DEF FetchQuotes
      <4>2. IsSequence(TheStep.symbols)
        BY <1>1, <4>1, TheStepIsValid
      <4> QED BY <1>1, <4>2, SymbolsSequence DEF QuoteSymbols, IsWork
    <3> PICK obs : obs = SelectQuoted(data, QuoteSymbols, snapshot)
      OBVIOUS
    <3>3. IsMarket(obs) /\ AllRanked(obs)
      BY <3>1, <3>2, QuotedRanked
    <3> QED BY <1>2, <3>1, <3>3
  <2> QED BY <2>1, <2>2
<1>5. CASE FetchContext \/ FetchContent \/ FetchHistory
  <2>1. \/ \E context : work' = [work EXCEPT !.context = context]
        \/ \E items : work' = [work EXCEPT !.items = items]
        \/ \E window, history, chart :
             work' = [[work EXCEPT !.window = window] EXCEPT !.history = history, !.chart = chart]
        \/ \E window, missing : work' = [[work EXCEPT !.window = window] EXCEPT !.missing = missing]
    <3>1. FetchContext => \E context : work' = [work EXCEPT !.context = context]
      BY DEF FetchContext, Done
    <3>2. FetchContent => \E items : work' = [work EXCEPT !.items = items]
      BY DEF FetchContent, Done
    <3>3. FetchHistory =>
            \/ \E window, history, chart :
                 work' = [[work EXCEPT !.window = window] EXCEPT !.history = history, !.chart = chart]
            \/ \E window, missing :
                 work' = [[work EXCEPT !.window = window] EXCEPT !.missing = missing]
      BY DEF FetchHistory, Done
    <3> QED BY <1>5, <3>1, <3>2, <3>3
  <2>2. work'.obs = work.obs
    BY <1>1, <2>1
  <2> QED BY <2>2
<1>6. CASE SortStep
  <2>1. PICK obs : obs = SortAssets(work.obs, TheStep.field, TheStep.order)
    OBVIOUS
  <2>2. AtStep({"sort"}) /\ work' = [work EXCEPT !.order = TheStep.order, !.obs = obs]
    BY <1>6, <2>1 DEF SortStep, Skip, Done
  <2>3. TheStep.type = "sort" /\ at \in DOMAIN Current.steps
    BY <1>1, <2>2, TheStepIsValid
  <2>4. TheStep.field \in {Change, "market_cap"}
    BY <1>1, <2>3, WorkflowsAreValid DEF IsCompiled, TheStep, ToSet
  <2>5. IsMarket(obs) /\ AllRanked(obs)
    BY <2>1, <2>4, RankedSorted
  <2> QED BY <1>1, <2>2, <2>5
<1>7. CASE FilterRelative \/ FilterStep
  <2>1. \/ work' = work
        \/ \E bar : work' = [work EXCEPT !.obs = FellMore(work.obs, bar)]
        \/ work' = [work EXCEPT !.obs = FilterThreshold(work.obs, TheStep.field, TheStep.operator,
                                                        TheStep.value)]
    BY <1>7 DEF FilterRelative, FilterStep, Skip, Done
  <2>2. \A bar : IsMarket(FellMore(work.obs, bar)) /\ AllRanked(FellMore(work.obs, bar))
    BY RankedSubset DEF FellMore
  <2>3. LET obs == FilterThreshold(work.obs, TheStep.field, TheStep.operator, TheStep.value)
        IN IsMarket(obs) /\ AllRanked(obs)
    BY RankedSubset DEF FilterThreshold
  <2> QED BY <1>2, <2>1, <2>2, <2>3
<1>8. CASE LabelStep
  BY <1>8 DEF LabelStep, Skip, Done
<1> QED BY <1>3, <1>4, <1>5, <1>6, <1>7, <1>8 DEF TakeStep

\* Only Publish makes a comparison.
LEMMA ComparisonsArePublished ==
  ASSUME Invariant, [Next]_vars, stage' \in {"observed", "done"}, result'.kind = "comparison"
  PROVE  \/ Publish
         \/ stage \in {"observed", "done"} /\ result.kind = "comparison" /\ work' = work
<1>1. CASE TakeStep
  <2>1. stage' = "steps"
    BY <1>1, StepsTyped DEF StepEffect, Invariant
  <2> QED BY <2>1
<1>2. CASE PlanRun \/ Execute \/ FetchScan
  BY <1>2 DEF PlanRun, Execute, FetchScan
<1>3. CASE ReadTrigger
  <2>1. PICK read : stage' = "steps" \/ Finish(Waiting(read))
    BY <1>3 DEF ReadTrigger
  <2>2. Waiting(read).kind = "no_result"
    BY DEF Waiting, Blank
  <2> QED BY <2>1, <2>2 DEF Finish
<1>4. CASE ScanPolicy
  BY <1>4, ScanMakesNoTable DEF Finish
<1>5. CASE \E message \in {"refused", "unavailable"} : Failing(message)
  BY <1>5, FailingEnds
<1>6. CASE Verify
  <2>1. stage = "observed" /\ IsResult(result) /\ result.claims = <<>> /\ request \in Requests
        /\ work' = work /\ result' = WithClaims(result)
    BY <1>6 DEF Verify, Invariant, Typing, TypeOK, ResultRests
  <2>2. IsSequence(work.history) /\ IsSequence(kept)
    BY DEF Invariant, Typing, IsWork, StoresInOrder
  <2>3. result'.kind = result.kind
    BY <2>1, <2>2, ClaimsKeepResults
  <2> QED BY <2>1, <2>3
<1>7. CASE MinutePasses \/ UNCHANGED vars
  BY <1>7 DEF MinutePasses, vars
<1> HIDE DEF Invariant
<1> QED BY <1>1, <1>2, <1>3, <1>4, <1>5, <1>6, <1>7 DEF Next, Failing, Breaks

\* The comparison that is published is about what its attempt observed.
LEMMA PublishedIsRanked ==
  ASSUME Invariant, ComparesRanked, Publish, result'.kind = "comparison"
  PROVE  AllRanked(work'.obs)
<1>1. stage = "steps" /\ request \in Requests /\ work' = work
  BY DEF Publish, AllRun, Invariant, Typing, TypeOK
<1>2. PICK items : result' = ResultOf(items)
  BY DEF Publish, Finish
<1>3. Presented.format = "comparison"
  <2>1. Presented.format \in PresentFormats
    BY <1>1, PresentedFormat
  <2>2. CASE Presented.format = "news_brief"
    BY <1>2, <2>2 DEF ResultOf, Blank
  <2>3. CASE Presented.format = "market_summary"
    BY <1>2, <2>3 DEF ResultOf, Blank
  <2>4. CASE Presented.format = "ranked_table"
    BY <1>2, <2>4 DEF ResultOf, Blank
  <2> QED BY <2>1, <2>2, <2>3, <2>4 DEF PresentFormats
<1>4. AllRanked(work.obs)
  BY <1>1, <1>3, ComparedIsInWorkflow DEF ComparesRanked
<1> QED BY <1>1, <1>4

\* Where a workflow that compares is running or about to, it was before or
\* begins now.
LEMMA ComparedRuns ==
  ASSUME Invariant, [Next]_vars, stage' \in {"trigger", "steps"}
  PROVE  \/ work' = Fresh
         \/ /\ stage \in {"trigger", "steps"} /\ Current' = Current
            /\ TakeStep \/ work'.obs = work.obs
<1>1. CASE TakeStep
  BY <1>1, StepsTyped DEF StepEffect, Invariant, Current
<1>2. CASE PlanRun \/ Publish \/ FetchScan \/ ScanPolicy \/ Verify
  BY <1>2 DEF PlanRun, Publish, FetchScan, ScanPolicy, Verify, Finish
<1>3. CASE Execute
  BY <1>3 DEF Execute
<1>4. CASE \E message \in {"refused", "unavailable"} : Failing(message)
  BY <1>4, FailingEnds
<1>5. CASE ReadTrigger
  <2>1. stage = "trigger" /\ UNCHANGED request
    BY <1>5 DEF ReadTrigger
  <2>2. PICK read : stage' = "steps" /\ work' = [work EXCEPT !.read = read] /\ asking' = asking
    BY <1>5 DEF ReadTrigger, Finish
  <2>3. work'.obs = work.obs
    BY <2>2 DEF Invariant, Typing, IsWork, Fresh
  <2> QED BY <2>1, <2>2, <2>3 DEF Current
<1>6. CASE MinutePasses \/ UNCHANGED vars
  BY <1>6 DEF MinutePasses, vars, Current
<1> HIDE DEF Invariant
<1> QED BY <1>1, <1>2, <1>3, <1>4, <1>5, <1>6 DEF Next, Failing, Breaks

LEMMA ComparesRankedNext ==
  ASSUME TickersHavePrincipals, ComparisonsAreQuoted, Invariant, ComparesRanked, [Next]_vars
  PROVE  ComparesRanked'
<1>1. ASSUME stage' \in {"observed", "done"}, result'.kind = "comparison"
      PROVE  AllRanked(work'.obs)
  <2>1. CASE Publish
    BY <1>1, <2>1, PublishedIsRanked
  <2>2. CASE stage \in {"observed", "done"} /\ result.kind = "comparison" /\ work' = work
    BY <2>2 DEF ComparesRanked
  <2> QED BY <1>1, <2>1, <2>2, ComparisonsArePublished
<1>2. ASSUME stage' \in {"trigger", "steps"}, Compares(Current)'
      PROVE  IsMarket(work'.obs) /\ AllRanked(work'.obs)
  <2>1. CASE work' = Fresh
    <3>1. IsMarket(<<>>) /\ AllRanked(<<>>)
      BY PairIsSequence DEF IsMarket, AllRanked
    <3>2. work'.obs = <<>>
      BY <2>1 DEF Fresh
    <3> QED BY <3>1, <3>2
  <2>2. CASE /\ stage \in {"trigger", "steps"} /\ Current' = Current
             /\ TakeStep \/ work'.obs = work.obs
    <3>1. Compares(Current)
      BY <1>2, <2>2 DEF Compares, Presents
    <3>2. IsMarket(work.obs) /\ AllRanked(work.obs)
      BY <2>2, <3>1 DEF ComparesRanked
    <3>3. QuotesOnly(Current) /\ Typing
      BY DEF Invariant, Typing, TypeOK, ComparisonsAreQuoted, Current
    <3> QED BY <2>2, <3>1, <3>2, <3>3, ComparedStep
  <2> QED BY <1>2, <2>1, <2>2, ComparedRuns
<1> HIDE DEF Invariant
<1> QED BY <1>1, <1>2 DEF ComparesRanked

\* A comparison is never of an asset that only shares the ticker of a coin,
\* whatever else the market lists under its tickers, where the market knows
\* each ticker by a ranked and priced coin and a comparison fetches its coins
\* by their tickers.
THEOREM NamesakesAreLeftOut ==
  ASSUME TickersHavePrincipals, ComparisonsAreQuoted
  PROVE  Spec => []NamesakesStayOut
<1>1. Init => ComparesRanked
  BY DEF Init, ComparesRanked
<1>2. Invariant /\ ComparesRanked /\ [Next]_vars => ComparesRanked'
  BY ComparesRankedNext
<1>3. ComparesRanked => NamesakesStayOut
  BY DEF ComparesRanked, NamesakesStayOut, Ended, AllRanked
<1> QED BY <1>1, <1>2, <1>3, InitInvariant, NextInvariant, PTL DEF Spec

-----------------------------------------------------------------------------
(* What the planner writes *)

\* A step that filters against no other coin; in a workflow that lists it
\* compares nothing, in one that does not it lists nothing.
Simple(step, lists) ==
  /\ "type" \in DOMAIN step /\ step.relative = ""
  /\ IF lists THEN ~(step.type = "present" /\ step.format = "comparison")
     ELSE step.type \notin {"get_universe", "get_market_data"}

SimpleSteps(steps, lists) == IsSequence(steps) /\ \A step \in ToSet(steps) : Simple(step, lists)

SimpleWorkflow(workflow) ==
  /\ DOMAIN workflow = {"trigger", "steps"}
  /\ \E lists \in BOOLEAN : SimpleSteps(workflow.steps, lists)

LEMMA SimpleFacts ==
  ASSUME NEW lists \in BOOLEAN
  PROVE  /\ SimpleSteps(<<>>, lists)
         /\ \A a : Simple(a, lists) => SimpleSteps(<<a>>, lists)
         /\ \A a, b : Simple(a, lists) /\ Simple(b, lists) => SimpleSteps(<<a, b>>, lists)
         /\ \A a, b, c : Simple(a, lists) /\ Simple(b, lists) /\ Simple(c, lists)
              => SimpleSteps(<<a, b, c>>, lists)
         /\ \A s, t : SimpleSteps(s, lists) /\ SimpleSteps(t, lists) => SimpleSteps(s \o t, lists)
<1> HIDE DEF Simple
<1>1. SimpleSteps(<<>>, lists)
  BY PairIsSequence DEF SimpleSteps
<1>2. ASSUME NEW a, Simple(a, lists)
      PROVE  SimpleSteps(<<a>>, lists)
  <2>1. IsSequence(<<a>>) /\ ToSet(<<a>>) = {a}
    BY PairIsSequence
  <2> QED BY <1>2, <2>1 DEF SimpleSteps
<1>3. ASSUME NEW a, NEW b, Simple(a, lists), Simple(b, lists)
      PROVE  SimpleSteps(<<a, b>>, lists)
  <2>1. IsSequence(<<a, b>>) /\ ToSet(<<a, b>>) = {a, b}
    BY PairIsSequence
  <2> PICK s : s = <<a, b>>
    OBVIOUS
  <2>2. SimpleSteps(s, lists)
    BY <1>3, <2>1 DEF SimpleSteps
  <2> QED BY <2>2
<1>4. ASSUME NEW a, NEW b, NEW c, Simple(a, lists), Simple(b, lists), Simple(c, lists)
      PROVE  SimpleSteps(<<a, b, c>>, lists)
  <2>1. IsSequence(<<a, b, c>>) /\ ToSet(<<a, b, c>>) = {a, b, c}
    BY TripleIsSequence
  <2> PICK s : s = <<a, b, c>>
    OBVIOUS
  <2>2. SimpleSteps(s, lists)
    BY <1>4, <2>1 DEF SimpleSteps
  <2> QED BY <2>2
<1>5. \A s, t : SimpleSteps(s, lists) /\ SimpleSteps(t, lists) => SimpleSteps(s \o t, lists)
  BY ConcatFacts DEF SimpleSteps
<1> QED BY <1>1, <1>2, <1>3, <1>4, <1>5

\* Each kind of workflow is simple.
LEMMA WorkflowsAreSimple ==
  ASSUME NEW limit, NEW symbols, NEW window
  PROVE  /\ SimpleWorkflow(NoWorkflow) /\ SimpleWorkflow(NewsWorkflow(symbols))
         /\ SimpleWorkflow(SnapshotWorkflow(symbols, window))
         /\ SimpleWorkflow(MarketCapWorkflow(limit)) /\ SimpleWorkflow(BriefWorkflow(limit))
         /\ SimpleWorkflow(SummaryWorkflow(limit))
         /\ \A direction : SimpleWorkflow(ListingsRankWorkflow(direction, limit))
         /\ \A asset, threshold, order, metric, operator :
              SimpleWorkflow(ReactionWorkflow(asset, threshold, limit, order, metric, operator))
<1>1. \A trigger, steps, lists :
        lists \in BOOLEAN /\ SimpleSteps(steps, lists) => SimpleWorkflow(Workflow(trigger, steps))
  BY DEF SimpleWorkflow, Workflow
<1>2. /\ \A type : type # "present" => Simple(Step(type), TRUE)
      /\ \A type, size : type # "present" => Simple([Step(type) EXCEPT !.limit = size], TRUE)
      /\ \A type, list : type # "present" => Simple([Step(type) EXCEPT !.symbols = list], TRUE)
      /\ \A type, op : type # "present" => Simple([Step(type) EXCEPT !.op = op], TRUE)
  BY DEF Simple, Step, Plain
<1>3. /\ \A type, list, size :
           type # "present" => Simple([Step(type) EXCEPT !.symbols = list, !.limit = size], TRUE)
      /\ \A type, field, order :
           type # "present" => Simple([Step(type) EXCEPT !.field = field, !.order = order], TRUE)
      /\ \A type, field, value, operator : type # "present" =>
           Simple([Step(type) EXCEPT !.field = field, !.value = value, !.operator = operator], TRUE)
  BY DEF Simple, Step, Plain
<1>4. \A format, op, size : format # "comparison" => Simple(Present(format, op, size), TRUE)
  BY DEF Simple, Present, Step, Plain
<1>5. /\ \A op, size : Simple(Present("comparison", op, size), FALSE)
      /\ \A list : Simple([Step("get_quotes") EXCEPT !.symbols = list], FALSE)
      /\ \A list, op :
           Simple([Step("get_quotes_historical") EXCEPT !.symbols = list, !.op = op], FALSE)
  BY DEF Simple, Present, Step, Plain
<1> HIDE DEF Simple
<1>6. SimpleSteps(Listings(limit), TRUE)
  <2>1. /\ Simple([Step("get_universe") EXCEPT !.limit = limit], TRUE)
        /\ Simple(Step("get_market_data"), TRUE)
    BY <1>2
  <2> QED BY <2>1, SimpleFacts DEF Listings
<1>7. SimpleWorkflow(NoWorkflow)
  BY <1>1, SimpleFacts DEF NoWorkflow
<1>8. SimpleWorkflow(NewsWorkflow(symbols))
  <2>1. /\ Simple([Step("get_content") EXCEPT !.symbols = symbols, !.limit = 20], TRUE)
        /\ Simple([Step("get_quotes") EXCEPT !.symbols = symbols], TRUE)
        /\ Simple(Present("news_brief", "", 0), TRUE)
    BY <1>2, <1>3, <1>4
  <2> QED BY <1>1, <2>1, SimpleFacts DEF NewsWorkflow
<1>9. SimpleWorkflow(SnapshotWorkflow(symbols, window))
  <2> PICK op : op = IF window = "" THEN "24h" ELSE window
    OBVIOUS
  <2>1. /\ Simple([Step("get_quotes") EXCEPT !.symbols = symbols], FALSE)
        /\ Simple([Step("get_quotes_historical") EXCEPT !.symbols = symbols, !.op = op], FALSE)
        /\ Simple(Present("comparison", "", 0), FALSE)
    BY <1>5
  <2> QED BY <1>1, <2>1, SimpleFacts DEF SnapshotWorkflow
<1>10. SimpleWorkflow(MarketCapWorkflow(limit))
  <2>1. /\ Simple([Step("sort") EXCEPT !.field = "market_cap", !.order = "descending"], TRUE)
        /\ Simple(Present("ranked_table", "market_cap", limit), TRUE)
    BY <1>3, <1>4
  <2> QED BY <1>1, <1>6, <2>1, SimpleFacts DEF MarketCapWorkflow
<1>11. SimpleWorkflow(BriefWorkflow(limit)) /\ SimpleWorkflow(SummaryWorkflow(limit))
  <2>1. /\ Simple(Step("get_global_metrics"), TRUE) /\ Simple(Step("get_fear_and_greed"), TRUE)
        /\ Simple(Mean, TRUE) /\ Simple(Present("market_summary", "", 0), TRUE)
    BY <1>2, <1>4 DEF Mean
  <2>2. /\ SimpleSteps(<<Step("get_global_metrics"), Mean, Present("market_summary", "", 0)>>, TRUE)
        /\ SimpleSteps(<<Step("get_global_metrics"), Step("get_fear_and_greed")>>, TRUE)
        /\ SimpleSteps(<<Mean, Present("market_summary", "", 0)>>, TRUE)
    BY <2>1, SimpleFacts
  <2>3. SimpleWorkflow(BriefWorkflow(limit))
    BY <1>1, <1>6, <2>2, SimpleFacts DEF BriefWorkflow
  <2>4. SimpleWorkflow(SummaryWorkflow(limit))
    BY <1>1, <1>6, <2>2, SimpleFacts DEF SummaryWorkflow
  <2> QED BY <2>3, <2>4
<1>12. ASSUME NEW direction
       PROVE  SimpleWorkflow(ListingsRankWorkflow(direction, limit))
  <2> PICK sign : sign = IF direction = "gainers" THEN ">" ELSE "<"
    OBVIOUS
  <2> PICK order : order = IF direction = "gainers" THEN "descending" ELSE "ascending"
    OBVIOUS
  <2> DEFINE steps == <<[Step("filter") EXCEPT !.field = Change, !.value = 0, !.operator = sign],
                        [Step("sort") EXCEPT !.field = Change, !.order = order],
                        Present("ranked_table", direction, ShownLimit)>>
  <2>1. SimpleSteps(steps, TRUE)
    BY <1>3, <1>4, SimpleFacts
  <2>2. ListingsRankWorkflow(direction, limit) = Workflow(None, Listings(limit) \o steps)
    BY DEF ListingsRankWorkflow
  <2> HIDE DEF steps
  <2> QED BY <1>1, <1>6, <2>1, <2>2, SimpleFacts
<1>13. ASSUME NEW asset, NEW threshold, NEW order, NEW metric, NEW operator
       PROVE  SimpleWorkflow(ReactionWorkflow(asset, threshold, limit, order, metric, operator))
  <2> DEFINE steps == <<[Step("calculate") EXCEPT !.op = "percentage_change"],
                        [Step("sort") EXCEPT !.field = Change, !.order = order],
                        Present("ranked_table", "", 0)>>
  <2>1. SimpleSteps(steps, TRUE)
    BY <1>2, <1>3, <1>4, SimpleFacts
  <2>2. ReactionWorkflow(asset, threshold, limit, order, metric, operator)
          = IF asset = "" THEN NoWorkflow
            ELSE Workflow(Trigger(asset, metric, operator, threshold), Listings(limit) \o steps)
    BY DEF ReactionWorkflow
  <2> HIDE DEF steps
  <2> QED BY <1>1, <1>6, <1>7, <2>1, <2>2, SimpleFacts
<1> QED BY <1>7, <1>8, <1>9, <1>10, <1>11, <1>12, <1>13

\* The workflows the planner chooses among.
LEMMA TaskWorkflows ==
  ASSUME NEW task, NEW limit, limit = IF task.limit = 0 THEN DefaultLimit ELSE task.limit
  PROVE  \E symbols, window :
           WorkflowFromTask(task) \in
             {NewsWorkflow(task.assets), BriefWorkflow(limit), ReactionOfTask(task, limit),
              StandingOfTask(task), ListingsRankWorkflow("gainers", limit),
              ListingsRankWorkflow("losers", limit), SummaryWorkflow(limit),
              MarketCapWorkflow(limit), NoWorkflow, SnapshotWorkflow(symbols, window)}
<1>1. PICK symbols : symbols = Upto(task.assets, 4)
  OBVIOUS
<1>2. PICK window :
        window = Else(task.window, IF Contains(task.caps, "historical") THEN "30d" ELSE "24h")
  OBVIOUS
<1>3. WorkflowFromTask(task) \in
        {NewsWorkflow(task.assets), BriefWorkflow(limit), ReactionOfTask(task, limit),
         StandingOfTask(task), ListingsRankWorkflow("gainers", limit),
         ListingsRankWorkflow("losers", limit), SummaryWorkflow(limit),
         MarketCapWorkflow(limit), NoWorkflow, SnapshotWorkflow(symbols, window)}
  BY <1>1, <1>2 DEF WorkflowFromTask
<1> QED BY <1>3

LEMMA TasksAreSimple ==
  ASSUME NEW task
  PROVE  SimpleWorkflow(WorkflowFromTask(task))
<1> PICK w : w = WorkflowFromTask(task)
  OBVIOUS
<1> PICK limit : limit = IF task.limit = 0 THEN DefaultLimit ELSE task.limit
  OBVIOUS
<1>1. SimpleWorkflow(ReactionOfTask(task, limit))
  BY WorkflowsAreSimple DEF ReactionOfTask
<1>2. SimpleWorkflow(StandingOfTask(task))
  <2> PICK asset : asset = TriggerAsset(task)
    OBVIOUS
  <2> DEFINE quote == [Step("get_quotes") EXCEPT !.symbols = <<asset>>]
             shown == Present("comparison", "", 0)
  <2>1. Simple(quote, FALSE) /\ Simple(shown, FALSE)
    BY DEF Simple, Step, Plain, Present
  <2> HIDE DEF quote, shown
  <2> PICK steps : steps = IF asset = "" THEN <<>> ELSE <<quote, shown>>
    OBVIOUS
  <2>2. SimpleSteps(steps, FALSE)
    BY <2>1, SimpleFacts
  <2>3. PICK trigger : StandingOfTask(task) = Workflow(trigger, steps)
    BY DEF StandingOfTask, quote, shown
  <2>4. \A x : SimpleWorkflow(Workflow(x, steps))
    BY <2>2 DEF SimpleWorkflow, Workflow
  <2> QED BY <2>3, <2>4
<1>3. PICK symbols, window :
        w \in {NewsWorkflow(task.assets), BriefWorkflow(limit), ReactionOfTask(task, limit),
               StandingOfTask(task), ListingsRankWorkflow("gainers", limit),
               ListingsRankWorkflow("losers", limit), SummaryWorkflow(limit),
               MarketCapWorkflow(limit), NoWorkflow, SnapshotWorkflow(symbols, window)}
  BY TaskWorkflows
<1>4. SimpleWorkflow(w)
  BY <1>1, <1>2, <1>3, WorkflowsAreSimple
<1> QED BY <1>4

\* What a task is compiled to is what the planner wrote, with the trigger of
\* its first condition.
LEMMA CompiledSteps ==
  ASSUME NEW task, NEW context, NEW inherited, inherited = Inherit(task, context)
  PROVE  LET report == Compile(task, context)
             written == WorkflowFromTask(inherited)
         IN /\ report.workflow.steps = written.steps
            /\ DOMAIN report.workflow = {"trigger", "steps"}
            /\ inherited.conds = <<>> => report.workflow = written
            /\ report.policy = PolicyFromTask(inherited)
<1> PICK v : v = WorkflowFromTask(inherited)
  OBVIOUS
<1> PICK plan : plan = PlanTask(task, context)
  OBVIOUS
<1>1. plan.workflow = v
  BY DEF PlanTask, CapabilityPlan
<1> PICK w : w = Compile(task, context).workflow
  OBVIOUS
<1>2. w = ApplyTaskTrigger(v, inherited) /\ Compile(task, context).policy = PolicyFromTask(inherited)
  BY <1>1 DEF Compile, CompileFromTask
<1>3. DOMAIN v = {"trigger", "steps"}
  BY TasksAreSimple DEF SimpleWorkflow
<1>4. w = v \/ \E trigger : w = [v EXCEPT !.trigger = trigger]
  BY <1>2 DEF ApplyTaskTrigger
<1>5. DOMAIN w = {"trigger", "steps"} /\ w.steps = v.steps
  BY <1>3, <1>4
<1>6. inherited.conds = <<>> => w = v
  BY <1>2 DEF ApplyTaskTrigger
<1> QED BY <1>2, <1>5, <1>6

\* A workflow that an edit can be made of, and that compares only what it
\* fetched by its ticker.
Sound(workflow) ==
  /\ DOMAIN workflow = {"trigger", "steps"} /\ IsSequence(workflow.steps)
  /\ \A step \in ToSet(workflow.steps) : "type" \in DOMAIN step
  /\ QuotesOnly(workflow)

LEMMA CompiledIsSound ==
  ASSUME NEW task, NEW context
  PROVE  Sound(Compile(task, context).workflow)
<1> PICK inherited : inherited = Inherit(task, context)
  OBVIOUS
<1> PICK w : w = Compile(task, context).workflow
  OBVIOUS
<1>1. w.steps = WorkflowFromTask(inherited).steps /\ DOMAIN w = {"trigger", "steps"}
  BY CompiledSteps
<1>2. PICK lists \in BOOLEAN : SimpleSteps(w.steps, lists)
  BY <1>1, TasksAreSimple DEF SimpleWorkflow
<1>3. IsSequence(w.steps) /\ \A step \in ToSet(w.steps) : Simple(step, lists)
  BY <1>2 DEF SimpleSteps
<1>4. \A step \in ToSet(w.steps) : "type" \in DOMAIN step
  BY <1>3 DEF Simple
<1>5. QuotesOnly(w)
  <2>1. CASE lists
    <3>1. \A i \in DOMAIN w.steps : Simple(w.steps[i], TRUE)
      BY <1>3, <2>1 DEF ToSet
    <3>2. ~Compares(w)
      BY <3>1 DEF Compares, Presents, Simple
    <3> QED BY <3>2 DEF QuotesOnly
  <2>2. CASE ~lists
    <3>1. \A step \in ToSet(w.steps) : Simple(step, FALSE)
      BY <1>3, <2>2
    <3>2. \A step \in ToSet(w.steps) : step.type \notin {"get_universe", "get_market_data"}
      BY <3>1 DEF Simple
    <3> QED BY <3>2 DEF QuotesOnly
  <2> QED BY <2>1, <2>2
<1>6. Sound(w)
  BY <1>1, <1>3, <1>4, <1>5 DEF Sound
<1> QED BY <1>6

LEMMA InsertedSteps ==
  ASSUME NEW s, IsSequence(s), NEW k \in 1..(Len(s) + 1), NEW item
  PROVE  /\ IsSequence(InsertAt(s, k, item))
         /\ ToSet(InsertAt(s, k, item)) \subseteq ToSet(s) \cup {item}
<1> PICK n \in Nat : n = Len(s)
  BY SequenceFacts
<1>1. s \in Seq(ToSet(s)) /\ DOMAIN s = 1..n
  BY SequenceFacts DEF IsSequence
<1> PICK a : a = SubSeq(s, 1, k - 1)
  OBVIOUS
<1> PICK b : b = SubSeq(s, k, n)
  OBVIOUS
<1>2. a \in Seq(ToSet(s)) /\ b \in Seq(ToSet(s))
  <2>1. \A i \in 1..(k - 1) : s[i] \in ToSet(s)
    BY <1>1 DEF ToSet
  <2>2. \A i \in k..n : s[i] \in ToSet(s)
    BY <1>1 DEF ToSet
  <2>3. 1 \in Int /\ k - 1 \in Int /\ k \in Int /\ n \in Int
    OBVIOUS
  <2>4. a \in Seq(ToSet(s))
    BY <2>1, <2>3, SubSeqProperties
  <2>5. b \in Seq(ToSet(s))
    BY <2>2, <2>3, SubSeqProperties
  <2> QED BY <2>4, <2>5
<1>3. ASSUME NEW t \in Seq(ToSet(s))
      PROVE  IsSequence(t) /\ ToSet(t) \subseteq ToSet(s)
  <2> PICK m \in Nat : m = Len(t)
    BY LenProperties
  <2>1. DOMAIN t = 1..m /\ t = [i \in 1..m |-> t[i]]
    BY LenProperties
  <2>2. \A i \in 1..m : t[i] \in ToSet(s)
    BY ElementOfSeq
  <2>3. IsSequence(t)
    BY <2>1, MadeSequence
  <2>4. ToSet(t) \subseteq ToSet(s)
    BY <2>1, <2>2 DEF ToSet
  <2> QED BY <2>3, <2>4
<1>4. IsSequence(a) /\ IsSequence(b) /\ ToSet(a) \subseteq ToSet(s) /\ ToSet(b) \subseteq ToSet(s)
  BY <1>2, <1>3
<1> PICK one : one = <<item>>
  OBVIOUS
<1>5. IsSequence(one) /\ ToSet(one) = {item}
  BY PairIsSequence
<1>6. IsSequence(a \o one) /\ ToSet(a \o one) = ToSet(a) \cup {item}
  BY <1>4, <1>5, ConcatFacts
<1>7. IsSequence((a \o one) \o b) /\ ToSet((a \o one) \o b) = ToSet(a \o one) \cup ToSet(b)
  BY <1>4, <1>6, ConcatFacts
<1>8. InsertAt(s, k, item) = (a \o one) \o b
  BY DEF InsertAt
<1> QED BY <1>4, <1>6, <1>7, <1>8

\* Resized, its steps are of the same types and formats.
LEMMA ResizedIsSound ==
  ASSUME NEW workflow, Sound(workflow), NEW limit
  PROVE  Sound(Resized(workflow, limit))
<1> PICK old : old = workflow.steps
  OBVIOUS
<1> PICK new : new = [i \in DOMAIN old |->
                        IF old[i].type \in {"get_universe", "get_market_data"}
                        THEN [old[i] EXCEPT !.limit = limit] ELSE old[i]]
  OBVIOUS
<1> PICK w : w = Resized(workflow, limit)
  OBVIOUS
<1>1. IsSequence(old) /\ DOMAIN workflow = {"trigger", "steps"}
  BY DEF Sound
<1>2. w.steps = new /\ DOMAIN w = {"trigger", "steps"}
  BY <1>1 DEF Resized
<1>3. IsSequence(new) /\ DOMAIN new = DOMAIN old
  BY <1>1, MappedSequence
<1>4. ASSUME NEW i \in DOMAIN old
      PROVE  /\ "type" \in DOMAIN new[i] /\ new[i].type = old[i].type
             /\ old[i].type = "present" => new[i].format = old[i].format
  <2> PICK o : o = old[i]
    OBVIOUS
  <2>1. "type" \in DOMAIN o
    BY DEF Sound, ToSet
  <2>2. \/ new[i] = o
        \/ new[i] = [o EXCEPT !.limit = limit] /\ o.type \in {"get_universe", "get_market_data"}
    OBVIOUS
  <2>3. LET changed == [o EXCEPT !.limit = limit]
        IN changed.type = o.type /\ "type" \in DOMAIN changed
    BY <2>1
  <2> QED BY <2>1, <2>2, <2>3
<1>5. \A step \in ToSet(new) : "type" \in DOMAIN step
  BY <1>3, <1>4 DEF ToSet
<1>6. Compares(w) => Compares(workflow)
  BY <1>2, <1>3, <1>4 DEF Compares, Presents
<1>7. Compares(workflow) =>
        \A i \in DOMAIN old : old[i].type \notin {"get_universe", "get_market_data"}
  BY DEF Sound, QuotesOnly, ToSet
<1>8. Compares(w) => \A step \in ToSet(new) : step.type \notin {"get_universe", "get_market_data"}
  BY <1>3, <1>4, <1>6, <1>7 DEF ToSet
<1>9. Sound(w)
  BY <1>2, <1>3, <1>5, <1>8 DEF Sound, QuotesOnly
<1> QED BY <1>9

\* A filter before what is presented neither lists nor compares.
LEMMA SteeperIsSound ==
  ASSUME NEW workflow, Sound(workflow)
  PROVE  Sound(Steeper(workflow))
<1> PICK old : old = workflow.steps
  OBVIOUS
<1> PICK filter : filter = [Step("filter") EXCEPT !.field = Change, !.operator = "<", !.relative = "BTC"]
  OBVIOUS
<1> PICK new : new = BeforePresent(old, filter)
  OBVIOUS
<1> PICK w : w = Steeper(workflow)
  OBVIOUS
<1>1. IsSequence(old) /\ DOMAIN workflow = {"trigger", "steps"}
  BY DEF Sound
<1>2. filter.type = "filter" /\ "type" \in DOMAIN filter
  BY DEF Step, Plain
<1>3. IsSequence(new) /\ ToSet(new) \subseteq ToSet(old) \cup {filter}
  <2> PICK places : places = {i \in DOMAIN old : old[i].type = "present"}
    OBVIOUS
  <2> PICK k : k = IF places = {} THEN Len(old) + 1 ELSE Min(places)
    OBVIOUS
  <2>1. Len(old) \in Nat /\ DOMAIN old = 1..Len(old)
    BY <1>1, SequenceFacts
  <2>2. k \in 1..(Len(old) + 1)
    <3>1. CASE places = {}
      BY <2>1, <3>1
    <3>2. CASE places # {}
      <4>1. places \subseteq Nat
        BY <2>1
      <4>2. PICK x \in places : \A y \in places : x <= y
        BY <3>2, <4>1, LeastNumber
      <4>3. Min(places) \in places
        BY <4>2 DEF Min
      <4>4. k \in 1..Len(old)
        BY <2>1, <3>2, <4>3
      <4> QED BY <2>1, <4>4
    <3> QED BY <3>1, <3>2
  <2>3. new = InsertAt(old, k, filter)
    BY DEF BeforePresent
  <2> QED BY <1>1, <2>2, <2>3, InsertedSteps
<1>4. w = workflow \/ (w.steps = new /\ DOMAIN w = {"trigger", "steps"})
  BY <1>1 DEF Steeper
<1>5. ASSUME w.steps = new, DOMAIN w = {"trigger", "steps"}
      PROVE  Sound(w)
  <2>1. \A step \in ToSet(new) : "type" \in DOMAIN step
    BY <1>2, <1>3 DEF Sound
  <2>2. Compares(w) => Compares(workflow)
    <3>1. \A step \in ToSet(new) : step.type = "present" => step \in ToSet(old)
      BY <1>2, <1>3
    <3>2. \A i \in DOMAIN new : new[i].type = "present" => \E j \in DOMAIN old : old[j] = new[i]
      BY <3>1 DEF ToSet
    <3> QED BY <1>5, <3>2 DEF Compares, Presents
  <2>3. Compares(workflow) =>
          \A step \in ToSet(new) : step.type \notin {"get_universe", "get_market_data"}
    BY <1>2, <1>3 DEF Sound, QuotesOnly
  <2> QED BY <1>3, <1>5, <2>1, <2>2, <2>3 DEF Sound, QuotesOnly
<1> QED BY <1>4, <1>5

LEMMA TighterIsSound ==
  ASSUME NEW workflow, Sound(workflow)
  PROVE  Sound(Tighter(workflow))
<1> PICK w : w = Tighter(workflow)
  OBVIOUS
<1>1. w = workflow \/ \E trigger : w = [workflow EXCEPT !.trigger = trigger]
  BY DEF Tighter
<1>2. w.steps = workflow.steps /\ DOMAIN w = {"trigger", "steps"}
  BY <1>1 DEF Sound
<1> QED BY <1>2 DEF Sound, QuotesOnly, Compares, Presents

\* The workflows of versions compare only coins that were fetched by their
\* tickers: those the planner writes, whatever the task, and those that any
\* edits make of them.
THEOREM ComparisonsFetchQuotes ==
  /\ \A task, context : Sound(Compile(task, context).workflow)
  /\ \A job, edit : "workflow" \in DOMAIN job /\ Sound(job.workflow)
       => Sound(ApplyEdit(job, edit).workflow)
  /\ \A workflow : Sound(workflow) => QuotesOnly(workflow)
<1>1. ASSUME NEW job, NEW edit, "workflow" \in DOMAIN job, Sound(job.workflow)
      PROVE  Sound(ApplyEdit(job, edit).workflow)
  <2> PICK sized :
        sized = IF edit.limit # 0 THEN Resized(job.workflow, edit.limit) ELSE job.workflow
    OBVIOUS
  <2> PICK steep : steep = IF edit.steeper THEN Steeper(sized) ELSE sized
    OBVIOUS
  <2> PICK tight : tight = IF edit.bar = "trigger" THEN Tighter(steep) ELSE steep
    OBVIOUS
  <2>1. Sound(sized)
    BY <1>1, ResizedIsSound
  <2>2. Sound(steep)
    BY <2>1, SteeperIsSound
  <2>3. Sound(tight)
    BY <2>2, TighterIsSound
  <2>4. \E model, policy :
          ApplyEdit(job, edit) = [job EXCEPT !.model = model, !.workflow = tight, !.policy = policy]
    BY DEF ApplyEdit
  <2>5. ApplyEdit(job, edit).workflow = tight
    BY <1>1, <2>4
  <2> QED BY <2>3, <2>5
<1>2. \A workflow : Sound(workflow) => QuotesOnly(workflow)
  BY DEF Sound
<1> QED BY <1>1, <1>2, CompiledIsSound

-----------------------------------------------------------------------------
(* The calls of a run *)

\* Beside the tools of its own steps the planner plans those of the
\* capabilities: they account for the trigger that a condition sets, and for
\* the first call of the scan of a task without steps.
CallsAreAccounted(task) ==
  LET written == WorkflowFromTask(task)
      tools == RequiredTools(task, ChosenFor(task)) \cup ToolsFromWorkflow(written)
  IN /\ task.conds # <<>> => "get_quotes" \in tools
     /\ written.steps = <<>> => Head(ScanTools(PolicyFromTask(task))) \in tools

\* A report without a plan is an edit's, whatever it says; any other one is
\* the planner's.
Accounted(report) ==
  report.plan # None =>
    \E task, context : report = Compile(task, context) /\ CallsAreAccounted(Inherit(task, context))

RequestsAreAccounted ==
  \A q \in Requests : q.report = q.standing => Accounted(q.standing)

\* What a run may call.
MayCall(report) ==
  PlanForRun(report).tools \cup (IF report.plan = None THEN {"get_fear_and_greed"} ELSE {})

\* The calls that a workflow and its policy make: the quote of a trigger, the
\* tools of the steps, the quote of a reference, the tools of a scan.
Covers(report, tools) ==
  /\ Conditional(report.workflow) => "get_quotes" \in tools
  /\ \A step \in ToSet(report.workflow.steps) :
       /\ StepTool(step.type) \subseteq tools
       /\ step.relative # "" => "get_quotes" \in tools
  /\ report.workflow.steps = <<>> =>
       /\ Head(ScanTools(report.policy)) \in tools
       /\ Len(ScanTools(report.policy)) > 1 => "get_fear_and_greed" \in tools

LEMMA ScanToolsFacts ==
  ASSUME NEW policy
  PROVE  /\ Head(ScanTools(policy)) \in {"get_quotes", "get_market_listings"}
         /\ Head(ScanTools(policy)) \in CmcTools
         /\ Len(ScanTools(policy)) > 1 => policy.context # <<>>
<1> PICK first : first = IF policy.universe = "symbols" THEN "get_quotes" ELSE "get_market_listings"
  OBVIOUS
<1>1. ScanTools(policy) \in {<<first>> \o <<>>, <<first>> \o <<"get_fear_and_greed">>}
  BY DEF ScanTools
<1>2. Head(ScanTools(policy)) = first
  BY <1>1
<1>3. policy.context = <<>> => ScanTools(policy) = <<first>> \o <<>>
  BY DEF ScanTools
<1>4. policy.context = <<>> => Len(ScanTools(policy)) = 1
  BY <1>3
<1> QED BY <1>2, <1>4 DEF CmcTools

LEMMA MarketIsBuilt ==
  ASSUME NEW model, NEW workflow
  PROVE  "market" \in ToSet(CapabilitiesFor(model, workflow))
<1> DEFINE past == IF HasStep(workflow, "get_quotes_historical") \/ HasStep(workflow, "get_ohlcv_historical")
                   THEN <<"historical">> ELSE <<>>
           found == IF \E t \in ToolGroup("discovery") : HasStep(workflow, t)
                    THEN <<"discovery">> ELSE <<>>
           rest == CASE model = "watch_plus_workflow" -> <<"reaction", "anomaly">>
                     [] model = "scheduled"           -> <<"regime">>
                     [] model = "watch"               -> <<"anomaly">>
                     [] OTHER                         -> <<>>
<1>1. CapabilitiesFor(model, workflow) = Unique(<<"market">> \o past \o found \o rest)
  BY DEF CapabilitiesFor
<1>2. past \in {<<>>, <<"historical">>} /\ found \in {<<>>, <<"discovery">>}
      /\ rest \in {<<"reaction", "anomaly">>, <<"regime">>, <<"anomaly">>, <<>>}
  OBVIOUS
<1> HIDE DEF past, found, rest
<1>3. IsSequence(past) /\ IsSequence(found) /\ IsSequence(rest)
  <2>1. IsSequence(<<>>) /\ IsSequence(<<"historical">>) /\ IsSequence(<<"discovery">>)
    BY PairIsSequence
  <2>2. IsSequence(<<"regime">>) /\ IsSequence(<<"anomaly">>) /\ IsSequence(<<"reaction", "anomaly">>)
    BY PairIsSequence
  <2>3. IsSequence(past)
    BY <1>2, <2>1
  <2>4. IsSequence(found)
    BY <1>2, <2>1
  <2>5. IsSequence(rest)
    BY <1>2, <2>1, <2>2
  <2> QED BY <2>3, <2>4, <2>5
<1> PICK first : first = <<"market">>
  OBVIOUS
<1>4. IsSequence(first) /\ ToSet(first) = {"market"}
  BY PairIsSequence
<1>5. IsSequence(first \o past) /\ "market" \in ToSet(first \o past)
  BY <1>3, <1>4, ConcatFacts
<1>6. IsSequence((first \o past) \o found) /\ "market" \in ToSet((first \o past) \o found)
  BY <1>3, <1>5, ConcatFacts
<1>7. /\ IsSequence(((first \o past) \o found) \o rest)
      /\ "market" \in ToSet(((first \o past) \o found) \o rest)
  BY <1>3, <1>6, ConcatFacts
<1>8. "market" \in ToSet(Unique(((first \o past) \o found) \o rest))
  BY <1>7, UniqueItems
<1> QED BY <1>1, <1>8

\* Without a condition of its own, a task is triggered by a coin it names or
\* not at all.
LEMMA ConditionsHaveAssets ==
  ASSUME NEW task, task.conds = <<>>, Conditional(WorkflowFromTask(task))
  PROVE  WorkflowFromTask(task).trigger.asset # ""
<1> PICK w : w = WorkflowFromTask(task)
  OBVIOUS
<1> PICK limit : limit = IF task.limit = 0 THEN DefaultLimit ELSE task.limit
  OBVIOUS
<1>1. \A trigger, steps : Workflow(trigger, steps).trigger = trigger
  BY DEF Workflow
<1>2. /\ \A symbols : ~Conditional(NewsWorkflow(symbols))
      /\ \A symbols, window : ~Conditional(SnapshotWorkflow(symbols, window))
      /\ \A direction : ~Conditional(ListingsRankWorkflow(direction, limit))
      /\ ~Conditional(MarketCapWorkflow(limit)) /\ ~Conditional(SummaryWorkflow(limit))
      /\ ~Conditional(NoWorkflow)
  BY <1>1 DEF Conditional, NewsWorkflow, SnapshotWorkflow, ListingsRankWorkflow,
              MarketCapWorkflow, SummaryWorkflow, NoWorkflow
<1>3. ~Conditional(BriefWorkflow(limit))
  <2> PICK trigger : trigger = [Trigger("", Change, "<=", None) EXCEPT !.type = "scheduled"]
    OBVIOUS
  <2>1. trigger.type = "scheduled"
    BY DEF Trigger
  <2>2. BriefWorkflow(limit).trigger = trigger
    BY <1>1 DEF BriefWorkflow
  <2> QED BY <2>1, <2>2 DEF Conditional
<1>4. ~Conditional(StandingOfTask(task))
  BY <1>1 DEF Conditional, StandingOfTask
<1>5. Conditional(ReactionOfTask(task, limit)) => ReactionOfTask(task, limit).trigger.asset # ""
  <2>1. ASSUME NEW asset, NEW threshold, NEW order, NEW metric, NEW operator,
               Conditional(ReactionWorkflow(asset, threshold, limit, order, metric, operator))
        PROVE  ReactionWorkflow(asset, threshold, limit, order, metric, operator).trigger.asset # ""
    <3>1. asset # ""
      BY <1>2, <2>1 DEF ReactionWorkflow
    <3>2. ReactionWorkflow(asset, threshold, limit, order, metric, operator).trigger
            = Trigger(asset, metric, operator, threshold)
      BY <1>1, <3>1 DEF ReactionWorkflow
    <3>3. Trigger(asset, metric, operator, threshold).asset = asset
      BY DEF Trigger
    <3> QED BY <3>1, <3>2, <3>3
  <2> QED BY <2>1 DEF ReactionOfTask
<1>6. PICK symbols, window :
        w \in {NewsWorkflow(task.assets), BriefWorkflow(limit), ReactionOfTask(task, limit),
               StandingOfTask(task), ListingsRankWorkflow("gainers", limit),
               ListingsRankWorkflow("losers", limit), SummaryWorkflow(limit),
               MarketCapWorkflow(limit), NoWorkflow, SnapshotWorkflow(symbols, window)}
  BY TaskWorkflows
<1> QED BY <1>2, <1>3, <1>4, <1>5, <1>6

\* An edited version: its steps, the quotes of its market capability and the
\* listings of a scan.
LEMMA EditsAreCovered ==
  ASSUME NEW report, IsReport(report), report.plan = None
  PROVE  Covers(report, MayCall(report))
<1> PICK w : w = report.workflow
  OBVIOUS
<1> PICK tools : tools = MayCall(report)
  OBVIOUS
<1> PICK caps : caps = CapabilitiesFor(report.model, w)
  OBVIOUS
<1> PICK empty : empty = [universe |-> "", type |-> "one_shot_research", window |-> "", caps |-> caps]
  OBVIOUS
<1>1. tools = (BuiltTools(w) \cup RequiredTools(empty, caps)
                 \cup UNION {CapabilityTool(name) : name \in ToSet(caps)})
                \cup {"get_fear_and_greed"}
  BY DEF MayCall, PlanForRun, PlanFromVersion, BuildAgentPlan
<1>2. ToolsFromWorkflow(w) \subseteq tools /\ "get_fear_and_greed" \in tools
  BY <1>1 DEF BuiltTools
<1>3. "get_quotes" \in tools
  <2>1. "market" \in ToSet(SelectCapabilities(empty, caps))
    <3> PICK accepted : accepted = {name \in ToSet(caps) : Accepts(name, empty)}
      OBVIOUS
    <3> PICK chosen : chosen = Only(caps, accepted)
      OBVIOUS
    <3>1. IsSequence(caps)
      BY CapabilitiesAreKnown
    <3>2. SelectCapabilities(empty, caps) = IF chosen = <<>> THEN <<"market">> ELSE chosen
      BY DEF SelectCapabilities
    <3>3. "market" \in ToSet(<<"market">>)
      BY PairIsSequence
    <3>4. "market" \in ToSet(caps)
      BY MarketIsBuilt
    <3>5. Accepts("market", empty)
      BY DEF Accepts
    <3>6. ToSet(chosen) = ToSet(caps) \cap accepted
      BY <3>1, OnlyFacts
    <3>7. "market" \in ToSet(chosen)
      BY <3>4, <3>5, <3>6
    <3> QED BY <3>2, <3>3, <3>7
  <2>2. RequiredBy("market", empty) = {"get_quotes"}
    BY DEF RequiredBy, WholeMarket
  <2>3. "get_quotes" \in RequiredTools(empty, caps)
    BY <2>1, <2>2 DEF RequiredTools
  <2> QED BY <1>1, <2>3
<1>4. ASSUME NEW step \in ToSet(w.steps)
      PROVE  StepTool(step.type) \subseteq tools
  <2>1. StepTool(step.type) \subseteq ToolsFromWorkflow(w)
    BY DEF ToolsFromWorkflow, ToSet
  <2> QED BY <1>2, <2>1
<1>5. ASSUME w.steps = <<>>
      PROVE  Head(ScanTools(report.policy)) \in tools
  <2>1. "get_market_listings" \in BuiltTools(w)
    BY <1>5 DEF BuiltTools
  <2> QED BY <1>1, <1>3, <2>1, ScanToolsFacts
<1> QED BY <1>2, <1>3, <1>4, <1>5 DEF Covers

LEMMA NoContextIsRead == ASSUME NEW task PROVE PolicyFromTask(task).context = <<>>
<1> PICK symbols : symbols = IF WholeMarket(task) THEN <<>> ELSE task.assets
  OBVIOUS
<1> PICK bars : bars = Only(task.conds, {c \in ToSet(task.conds) : c.value # None})
  OBVIOUS
<1> PICK conds : conds = [i \in DOMAIN bars |-> Condition(Else(bars[i].metric, Change),
                             Else(bars[i].operator, "<="), bars[i].value, "")]
  OBVIOUS
<1> PICK universe : universe = IF symbols = <<>> THEN "listings" ELSE "symbols"
  OBVIOUS
<1> PICK limit : limit = IF task.limit = 0 THEN DefaultLimit ELSE task.limit
  OBVIOUS
<1>1. PolicyFromTask(task) = Policy(universe, limit, symbols, conds, <<>>)
  BY DEF PolicyFromTask
<1>2. Policy(universe, limit, symbols, conds, <<>>).context = <<>>
  BY DEF Policy
<1> QED BY <1>1, <1>2

\* A planned version: what was planned for its task.
LEMMA PlansAreCovered ==
  ASSUME NEW report, IsReport(report), report.plan # None, Accounted(report)
  PROVE  Covers(report, MayCall(report))
<1>1. PICK task, context :
        report = Compile(task, context) /\ CallsAreAccounted(Inherit(task, context))
  BY DEF Accounted
<1> PICK inherited : inherited = Inherit(task, context)
  OBVIOUS
<1> PICK written : written = WorkflowFromTask(inherited)
  OBVIOUS
<1> PICK w : w = report.workflow
  OBVIOUS
<1> PICK planned :
      planned = RequiredTools(inherited, ChosenFor(inherited)) \cup ToolsFromWorkflow(written)
  OBVIOUS
<1>2. report.plan.tools = planned
  <2> PICK plan : plan = PlanTask(task, context)
    OBVIOUS
  <2>1. plan.tools = planned /\ "tools" \in DOMAIN plan
    BY DEF PlanTask, CapabilityPlan, ChosenFor
  <2>2. \E workflow : report.plan \in {plan, [plan EXCEPT !.workflow = workflow]}
    BY <1>1 DEF Compile, CompileFromTask
  <2> QED BY <2>1, <2>2
<1>3. planned \subseteq MayCall(report)
  BY <1>2 DEF MayCall, PlanForRun, ToAgentPlan, BuildAgentPlan
<1>4. /\ w.steps = written.steps /\ (inherited.conds = <<>> => w = written)
      /\ report.policy = PolicyFromTask(inherited)
  BY <1>1, CompiledSteps
<1>5. ASSUME Conditional(w)
      PROVE  "get_quotes" \in planned
  <2>1. CASE inherited.conds # <<>>
    BY <1>1, <2>1 DEF CallsAreAccounted
  <2>2. CASE inherited.conds = <<>>
    <3>1. Conditional(written)
      BY <1>4, <1>5, <2>2
    <3>2. written.trigger.asset # ""
      BY <2>2, <3>1, ConditionsHaveAssets
    <3> QED BY <3>1, <3>2 DEF ToolsFromWorkflow, Conditional
  <2> QED BY <2>1, <2>2
<1>6. ASSUME NEW step \in ToSet(w.steps)
      PROVE  StepTool(step.type) \subseteq planned /\ step.relative = ""
  <2>1. StepTool(step.type) \subseteq ToolsFromWorkflow(written)
    BY <1>4 DEF ToolsFromWorkflow, ToSet
  <2>2. step.relative = ""
    BY <1>4, TasksAreSimple DEF SimpleWorkflow, SimpleSteps, Simple
  <2> QED BY <2>1, <2>2
<1>7. ASSUME w.steps = <<>>
      PROVE  /\ Head(ScanTools(report.policy)) \in planned
             /\ ~(Len(ScanTools(report.policy)) > 1)
  <2>1. Head(ScanTools(report.policy)) \in planned
    BY <1>1, <1>4, <1>7 DEF CallsAreAccounted
  <2> QED BY <1>4, <2>1, NoContextIsRead, ScanToolsFacts
<1> QED BY <1>3, <1>5, <1>6, <1>7 DEF Covers

LEMMA OwnIsCovered ==
  ASSUME RequestsAreAccounted, request \in Requests, Own
  PROVE  /\ Current = request.standing.workflow
         /\ Covers(request.standing, MayCall(request.standing))
<1>1. IsReport(request.standing) /\ Accounted(request.standing)
  BY InvestigationAssumption DEF Own, RequestsAreAccounted
<1>2. Covers(request.standing, MayCall(request.standing))
  BY <1>1, EditsAreCovered, PlansAreCovered
<1> QED BY <1>2 DEF Own, Current

\* A call logs one tool more.
CallsOne(tools) == calls' = calls \/ \E tool \in tools : calls' = Append(calls, tool)

LEMMA CalledTools ==
  ASSUME calls \in Seq(CmcTools), NEW tool \in CmcTools
  PROVE  ToSet(Append(calls, tool)) = ToSet(calls) \cup {tool}
<1> PICK n \in Nat : n = Len(calls) /\ DOMAIN calls = 1..n
  BY LenProperties
<1> PICK s : s = Append(calls, tool)
  OBVIOUS
<1>1. DOMAIN s = 1..(n + 1) /\ s[n + 1] = tool /\ \A i \in 1..n : s[i] = calls[i]
  BY AppendProperties
<1>2. ToSet(s) \subseteq ToSet(calls) \cup {tool}
  BY <1>1 DEF ToSet
<1>3. ToSet(calls) \cup {tool} \subseteq ToSet(s)
  BY <1>1 DEF ToSet
<1> QED BY <1>2, <1>3

\* A step calls the tool of its type or, to compare with another coin, quotes.
StepCalls(step) ==
  StepTool(step.type) \cup (IF step.relative # "" THEN {"get_quotes"} ELSE {})

LEMMA StepsCallTheirTools ==
  ASSUME Typing, TakeStep
  PROVE  TheStep \in ToSet(Current.steps) /\ CallsOne(StepCalls(TheStep))
<1>1. request \in Requests /\ at \in Nat \ {0}
  BY DEF Typing, TypeOK
<1>2. ASSUME NEW types, AtStep(types)
      PROVE  TheStep.type \in types /\ TheStep \in ToSet(Current.steps)
  BY <1>1, <1>2, TheStepIsValid DEF TheStep, ToSet
<1>3. /\ \A changed : Skip(changed) => calls' = calls
      /\ \A tool, arg, data : Call(tool, arg, data) => calls' = Append(calls, tool)
      /\ \A tool, arg : Refused(tool, arg) => calls' = calls
  BY DEF Skip, Call, Refused
<1>4. /\ StepTool("get_universe") = {"get_market_listings"}
      /\ StepTool("get_market_data") = {"get_market_listings"}
      /\ \A type \in {"get_quotes", "get_global_metrics", "get_fear_and_greed", "get_content",
                      "get_quotes_historical"} : StepTool(type) = {type}
  BY DEF StepTool, CmcTools
<1>5. CASE FetchListings
  <2>1. AtStep({"get_universe", "get_market_data"})
    BY <1>5 DEF FetchListings
  <2>2. calls' = calls \/ calls' = Append(calls, "get_market_listings")
    BY <1>3, <1>5 DEF FetchListings
  <2>3. "get_market_listings" \in StepCalls(TheStep)
    BY <1>2, <1>4, <2>1 DEF StepCalls
  <2> QED BY <1>2, <2>1, <2>2, <2>3 DEF CallsOne
<1>6. CASE FetchQuotes
  <2>1. AtStep({"get_quotes"})
    BY <1>6 DEF FetchQuotes
  <2>2. calls' = calls \/ calls' = Append(calls, "get_quotes")
    BY <1>3, <1>6 DEF FetchQuotes
  <2>3. "get_quotes" \in StepCalls(TheStep)
    BY <1>2, <1>4, <2>1 DEF StepCalls
  <2> QED BY <1>2, <2>1, <2>2, <2>3 DEF CallsOne
<1>7. CASE FetchContext
  <2>1. AtStep({"get_global_metrics", "get_fear_and_greed"})
    BY <1>7 DEF FetchContext
  <2>2. calls' = Append(calls, TheStep.type)
    <3>1. PICK data \in Answers(TheStep.type, <<>>) :
            /\ Call(TheStep.type, <<>>, data)
            /\ Done([work EXCEPT !.context =
                 IF TheStep.type = "get_fear_and_greed" THEN [fear |-> data]
                 ELSE IF @ = None THEN [fear |-> None] ELSE @])
      BY <1>7 DEF FetchContext
    <3>2. Call(TheStep.type, <<>>, data)
      BY <3>1
    <3> QED BY <1>3, <3>2
  <2>3. TheStep.type \in StepCalls(TheStep)
    <3> PICK type \in {"get_global_metrics", "get_fear_and_greed"} : type = TheStep.type
      BY <1>2, <2>1
    <3>1. StepTool(type) = {type}
      BY <1>4
    <3> QED BY <3>1 DEF StepCalls
  <2> QED BY <1>2, <2>1, <2>2, <2>3 DEF CallsOne
<1>8. CASE FetchContent
  <2>1. AtStep({"get_content"})
    BY <1>8 DEF FetchContent
  <2>2. calls' = calls \/ calls' = Append(calls, "get_content")
    BY <1>3, <1>8 DEF FetchContent
  <2>3. "get_content" \in StepCalls(TheStep)
    BY <1>2, <1>4, <2>1 DEF StepCalls
  <2> QED BY <1>2, <2>1, <2>2, <2>3 DEF CallsOne
<1>9. CASE FetchHistory
  <2>1. AtStep({"get_quotes_historical"})
    BY <1>9 DEF FetchHistory
  <2>2. calls' = calls \/ calls' = Append(calls, "get_quotes_historical")
    BY <1>9 DEF FetchHistory
  <2>3. "get_quotes_historical" \in StepCalls(TheStep)
    BY <1>2, <1>4, <2>1 DEF StepCalls
  <2> QED BY <1>2, <2>1, <2>2, <2>3 DEF CallsOne
<1>10. CASE SortStep \/ FilterStep \/ LabelStep
  <2>1. \E types : AtStep(types)
    BY <1>10 DEF SortStep, FilterStep, LabelStep
  <2>2. calls' = calls
    BY <1>3, <1>10 DEF SortStep, FilterStep, LabelStep
  <2> QED BY <1>2, <2>1, <2>2 DEF CallsOne
<1>11. CASE FilterRelative
  <2>1. AtStep({"filter"}) /\ TheStep.relative # ""
    BY <1>11 DEF FilterRelative
  <2>2. calls' = calls \/ calls' = Append(calls, "get_quotes")
    BY <1>3, <1>11 DEF FilterRelative
  <2>3. "get_quotes" \in StepCalls(TheStep)
    BY <2>1 DEF StepCalls
  <2> QED BY <1>2, <2>1, <2>2, <2>3 DEF CallsOne
<1> QED BY <1>5, <1>6, <1>7, <1>8, <1>9, <1>10, <1>11 DEF TakeStep

\* What keeps a run of its own version within its plan: only a workflow without
\* steps is scanned, and only one with a condition reads its trigger.
CallsKept ==
  Own =>
    /\ ToSet(calls) \subseteq MayCall(request.standing)
    /\ stage \in {"scan", "score"} => request.standing.workflow.steps = <<>>
    /\ stage = "trigger" => Conditional(request.standing.workflow)

LEMMA OwnCalls ==
  ASSUME RequestsAreAccounted, Invariant, CallsKept, [Next]_vars, Own
  PROVE  CallsOne(MayCall(request.standing) \cap CmcTools)
<1>1. request \in Requests /\ Typing
  BY DEF Invariant, Typing, TypeOK
<1> PICK tools : tools = MayCall(request.standing)
  OBVIOUS
<1>2. Current = request.standing.workflow /\ Covers(request.standing, tools)
  BY <1>1, OwnIsCovered
<1>3. \A tool, arg, data : Call(tool, arg, data) => calls' = Append(calls, tool)
  BY DEF Call
<1>4. CASE TakeStep
  <2>1. TheStep \in ToSet(Current.steps) /\ CallsOne(StepCalls(TheStep))
    BY <1>1, <1>4, StepsCallTheirTools
  <2>2. StepCalls(TheStep) \subseteq tools
    BY <1>2, <2>1 DEF Covers, StepCalls
  <2>3. StepCalls(TheStep) \subseteq CmcTools
    BY DEF StepCalls, StepTool, CmcTools
  <2> QED BY <2>1, <2>2, <2>3 DEF CallsOne
<1>5. CASE ReadTrigger \/ \E message : WaitFails(message)
  <2>1. "get_quotes" \in tools \cap CmcTools
    BY <1>2, <1>5 DEF ReadTrigger, WaitFails, CallsKept, Covers, CmcTools
  <2>2. calls' = Append(calls, "get_quotes")
    BY <1>3, <1>5 DEF ReadTrigger, WaitFails
  <2> QED BY <2>1, <2>2 DEF CallsOne
<1>6. CASE FetchScan
  <2>1. calls' = Append(calls, Head(ScanTools(Policed)))
    BY <1>3, <1>6 DEF FetchScan
  <2>2. Head(ScanTools(Policed)) \in CmcTools
    BY ScanToolsFacts
  <2>3. Head(ScanTools(Policed)) \in tools
    BY <1>2, <1>6 DEF FetchScan, CallsKept, Covers, Policed
  <2> QED BY <2>1, <2>2, <2>3 DEF CallsOne
<1>7. CASE ScanPolicy \/ \E message : ScanFails(message)
  <2>1. calls' = calls \/ (Feared /\ calls' = Append(calls, "get_fear_and_greed"))
    BY <1>3, <1>7 DEF ScanPolicy, ScanFails, ReadFear
  <2>2. Feared => "get_fear_and_greed" \in tools \cap CmcTools
    BY <1>2, <1>7 DEF ScanPolicy, ScanFails, CallsKept, Covers, Policed, Feared, CmcTools
  <2> QED BY <2>1, <2>2 DEF CallsOne
<1>8. CASE \E message \in {"refused", "unavailable"} :
             TriggerRefused(message) \/ StepRefused(message) \/ ScanRefused(message)
  BY <1>8 DEF TriggerRefused, StepRefused, ScanRefused, Refused, CallsOne
<1>9. CASE PlanRun \/ Execute \/ Publish \/ (\E message : PublishFails(message)) \/ Verify
             \/ MinutePasses \/ UNCHANGED vars
  BY <1>9 DEF PlanRun, Execute, Publish, PublishFails, Verify, MinutePasses, vars, CallsOne
<1> HIDE DEF Invariant
<1> QED BY <1>4, <1>5, <1>6, <1>7, <1>8, <1>9 DEF Next

\* A run is scanned, or its trigger read, because Execute chose so.
LEMMA OwnStages ==
  ASSUME request \in Requests, CallsKept, [Next]_vars, Own
  PROVE  /\ stage' \in {"scan", "score"} => request.standing.workflow.steps = <<>>
         /\ stage' = "trigger" => Conditional(request.standing.workflow)
<1>1. Current = request.standing.workflow
  BY DEF Own, Current
<1>2. CASE Execute
  BY <1>1, <1>2 DEF Execute
<1>3. CASE TakeStep
  <2>1. stage = "steps" /\ stage' = stage
    <3>1. \A changed : Done(changed) \/ Skip(changed) => stage' = stage
      BY DEF Skip, Done
    <3>2. \A types : AtStep(types) => stage = "steps"
      BY DEF AtStep
    <3> HIDE DEF Done, Skip, AtStep
    <3> QED BY <1>3, <3>1, <3>2 DEF TakeStep, FetchListings, FetchQuotes, FetchContext,
              FetchContent, FetchHistory, SortStep, FilterRelative, FilterStep, LabelStep
  <2> QED BY <2>1
<1>4. CASE FetchScan
  BY <1>4 DEF FetchScan, CallsKept
<1>5. CASE PlanRun \/ ReadTrigger \/ Publish \/ ScanPolicy \/ Verify
  <2>1. CASE PlanRun \/ Verify
    BY <2>1 DEF PlanRun, Verify
  <2>2. CASE ReadTrigger
    BY <2>2 DEF ReadTrigger, Finish
  <2>3. CASE Publish
    BY <2>3 DEF Publish, Finish
  <2>4. CASE ScanPolicy
    BY <2>4 DEF ScanPolicy, Finish
  <2> QED BY <1>5, <2>1, <2>2, <2>3, <2>4
<1>6. CASE \E message \in {"refused", "unavailable"} : Failing(message)
  BY <1>6, FailingEnds
<1>7. CASE MinutePasses \/ UNCHANGED vars
  BY <1>7 DEF MinutePasses, vars, CallsKept
<1> QED BY <1>2, <1>3, <1>4, <1>5, <1>6, <1>7 DEF Next, Failing, Breaks

LEMMA CallsKeptNext ==
  ASSUME RequestsAreAccounted, Invariant, CallsKept, [Next]_vars
  PROVE  CallsKept'
<1> SUFFICES ASSUME Own'
             PROVE  /\ ToSet(calls') \subseteq MayCall(request.standing)
                    /\ stage' \in {"scan", "score"} => request.standing.workflow.steps = <<>>
                    /\ stage' = "trigger" => Conditional(request.standing.workflow)
  BY RequestStays DEF CallsKept
<1>1. Own /\ request \in Requests /\ calls \in Seq(CmcTools)
  BY RequestStays DEF Own, Invariant, Typing, TypeOK
<1> PICK tools : tools = MayCall(request.standing)
  OBVIOUS
<1>2. ToSet(calls) \subseteq tools
  BY <1>1 DEF CallsKept
<1>3. CallsOne(tools \cap CmcTools)
  BY <1>1, OwnCalls
<1>4. ToSet(calls') \subseteq tools
  <2>1. CASE calls' = calls
    BY <1>2, <2>1
  <2>2. ASSUME NEW tool \in tools \cap CmcTools, calls' = Append(calls, tool)
        PROVE  ToSet(calls') \subseteq tools
    <3>1. ToSet(Append(calls, tool)) = ToSet(calls) \cup {tool}
      BY <1>1, CalledTools
    <3> QED BY <1>2, <2>2, <3>1
  <2> QED BY <1>3, <2>1, <2>2 DEF CallsOne
<1> HIDE DEF Invariant
<1> QED BY <1>1, <1>4, OwnStages

\* A run of the version of its lens calls no tool that its plan does not name
\* (but Fear & Greed, for an edited version), whatever its workflow, its
\* repairs, its references and its scans, where each version is either an
\* edit or planned from a task whose capabilities account for its condition
\* and its scan.
THEOREM CallsStayPlanned == ASSUME RequestsAreAccounted PROVE Spec => []CallsArePlanned
<1>1. Init => CallsKept
  <2>1. ToSet(<<>>) = {}
    BY PairIsSequence
  <2> QED BY <2>1 DEF Init, CallsKept
<1>2. Invariant /\ CallsKept /\ [Next]_vars => CallsKept'
  BY CallsKeptNext
<1>3. CallsKept => CallsArePlanned
  <2> SUFFICES ASSUME CallsKept, Own
               PROVE  ToSet(calls) \subseteq Plan.tools \cup Unplanned
    BY DEF CallsArePlanned
  <2>1. Plan = PlanForRun(request.standing)
    BY DEF Own, Plan
  <2>2. MayCall(request.standing) = Plan.tools \cup Unplanned
    BY <2>1 DEF MayCall, Unplanned
  <2> QED BY <2>2 DEF CallsKept
<1> QED BY <1>1, <1>2, <1>3, InitInvariant, NextInvariant, PTL DEF Spec
=============================================================================

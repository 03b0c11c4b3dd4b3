---------------------------- MODULE Investigation ----------------------------
(***************************************************************************)
(* One run, from its compiled report to its finding: AgentRuntime._loop    *)
(* around LensRuntime._execute around workflow_executor.execute_steps or   *)
(* MonitoringService.run_lens, with the calls, their minute of cache and   *)
(* what CoinMarketCap answers or refuses. RunLifecycle has the same run    *)
(* among others, without its data.                                         *)
(*                                                                         *)
(* The market may have moved between any two calls. A request is           *)
(* [report, standing, honor]: what the run was asked, what the version of  *)
(* its lens says (the same report unless a standing watch is asked a       *)
(* question) and whether the trigger decides (trigger_routine) or not      *)
(* (run_now). The event cooldown and the messages sent are EventCooldown's.*)
(***************************************************************************)
EXTENDS CmcData, Verification, PolicyEngine

CONSTANTS
  Requests,
  Markets,    \* sequences of raw items, largest first: what listings would answer
  Histories,  \* historical answers
  Contents,   \* sequences of headlines
  Fears,      \* Fear & Greed readings
  Snapshots,  \* rank snapshots a lens may have
  Slack,      \* 25, the listings fetched beyond the limit
  MaxRetries  \* 1, the repairs of a run

ASSUME InvestigationAssumption ==
  /\ MaxRetries \in Nat /\ HeadlinesMost \in Nat \ {0}
  /\ {Slack, DefaultLimit, ShownLimit, FlaggedMost} \subseteq Nat
  /\ \A m \in Markets : IsMarket(m)
  /\ \A h \in Histories : IsHistory(h)
  /\ \A items \in Contents : IsNews(items)
  /\ \A q \in Requests : IsReport(q.report) /\ IsReport(q.standing)

VARIABLES
  request,
  asking,    \* the summary of the run still says that it is an ask
  stage,
  attempt,
  at,        \* the next step
  work,      \* the locals of execute_steps
  cache,     \* by tool, the calls of the last minute
  calls,     \* the tools of the run's CmcCallLog
  kept,      \* the run's Observation rows
  events,    \* coins an event was created for
  snapshot,  \* Lens.rank_snapshot
  result,    \* the newest Result, None before the first
  outcome,   \* None, or the verification, evidence and finding of the run
  torn       \* history: an attempt failed once it had begun to store its rows

vars == <<request, asking, stage, attempt, at, work, cache, calls, kept, events, snapshot,
          result, outcome, torn>>

Fresh == [obs |-> <<>>, listed |-> None, items |-> <<>>, context |-> None, limit |-> DefaultLimit,
          order |-> "ascending", history |-> <<>>, chart |-> <<>>, window |-> "",
          missing |-> {}, read |-> None]

Plan == PlanForRun(IF request.report.task.mode = "ask" THEN request.report ELSE request.standing)

\* The workflow of an ask is the run's own, any other one the version's.
Current == IF asking THEN request.report.workflow ELSE request.standing.workflow

TriggerOf(workflow) == IF workflow.trigger = None THEN "" ELSE workflow.trigger.asset

Conditional(workflow) ==
  workflow.trigger # None /\ workflow.trigger.type = "asset_condition"

Init ==
  /\ request \in Requests
  /\ asking = (request.report.task.mode = "ask")
  /\ stage = "queued" /\ attempt = 0 /\ at = 1
  /\ work = Fresh
  /\ cache = [tool \in CmcTools |-> {}]
  /\ calls = <<>> /\ kept = <<>> /\ events = {}
  /\ snapshot \in Snapshots
  /\ result = None /\ outcome = None /\ torn = FALSE

-----------------------------------------------------------------------------
(* Calls *)

AboutAny(items, symbols) == Only(items, {o \in ToSet(items) : o.sym \in ToSet(symbols)})

Answers(tool, arg) ==
  CASE tool = "get_market_listings"   -> {Upto(m, arg) : m \in Markets}
    [] tool = "get_quotes"            -> {AboutAny(m, arg) : m \in Markets}
    [] tool = "get_quotes_historical" -> {AboutAny(h, arg) : h \in Histories}
    [] tool = "get_content"           -> Contents
    [] tool = "get_fear_and_greed"    -> Fears
    [] OTHER                          -> {<<>>}

Cached(tool, arg) == {c \in cache[tool] : c.arg = arg}

\* CMCAdapter._get and persist_call: an answer of the last minute is given
\* again, and logged again.
Call(tool, arg, data) ==
  /\ IF Cached(tool, arg) # {}
     THEN data \in {c.data : c \in Cached(tool, arg)} /\ UNCHANGED cache
     ELSE /\ data \in Answers(tool, arg)
          /\ cache' = [cache EXCEPT ![tool] = @ \cup {[arg |-> arg, data |-> data]}]
  /\ calls' = Append(calls, tool)

\* An error is raised before anything is cached or logged.
Refused(tool, arg) == Cached(tool, arg) = {} /\ UNCHANGED <<cache, calls>>

MinutePasses ==
  /\ stage \notin {"queued", "done", "refused"}
  /\ \E tool \in CmcTools : cache[tool] # {}
  /\ cache' = [tool \in CmcTools |-> {}]
  /\ UNCHANGED <<request, asking, stage, attempt, at, work, calls, kept, events, snapshot,
                 result, outcome, torn>>

-----------------------------------------------------------------------------
(* The attempt *)

\* A plan that asks for a tool that is not allowed raises.
PlanRun ==
  /\ stage = "queued"
  /\ stage' = IF (request.report.plan # None => request.report.plan.accepted) /\ PlanAllowed(Plan)
              THEN "attempt" ELSE "refused"
  /\ UNCHANGED <<request, asking, attempt, at, work, cache, calls, kept, events, snapshot,
                 result, outcome, torn>>

Execute ==
  /\ stage = "attempt"
  /\ stage' = IF Current.steps = <<>> THEN "scan"
              ELSE IF request.honor /\ Conditional(Current) THEN "trigger" ELSE "steps"
  /\ at' = 1 /\ work' = Fresh
  /\ UNCHANGED <<request, asking, attempt, cache, calls, kept, events, snapshot, result, outcome, torn>>

\* _finish_run writes the summary anew, so the run is no ask any more.
Finish(made) ==
  /\ result' = made /\ asking' = FALSE /\ stage' = "observed"

\* _fail: an error is the newest Result, whatever was stored before it.
FileError(message) ==
  /\ result' = [Blank EXCEPT !.kind = "error", !.message = message]
  /\ stage' = "observed"

Fail(message) ==
  /\ FileError(message)
  /\ UNCHANGED <<request, asking, attempt, at, work, kept, events, snapshot, outcome, torn>>

\* trigger_fired
Fired(trigger, read) ==
  /\ read # None /\ trigger.value # None
  /\ Compare(Metric(read, trigger.metric), trigger.operator, trigger.value)

\* fetch_trigger_asset
TriggerQuote(data) ==
  Find(SelectQuoted(data, <<Current.trigger.asset>>, <<>>), Current.trigger.asset)

Waiting(read) ==
  [Blank EXCEPT !.kind = "no_result",
     !.trigger = [asset |-> Current.trigger.asset,
                  actual |-> IF read = None THEN None ELSE read.change]]

ReadTrigger ==
  /\ stage = "trigger"
  /\ \E data \in Answers("get_quotes", <<Current.trigger.asset>>) :
       LET read == TriggerQuote(data)
       IN /\ Call("get_quotes", <<Current.trigger.asset>>, data)
          /\ IF Fired(Current.trigger, read)
             THEN stage' = "steps" /\ work' = [work EXCEPT !.read = read]
                  /\ UNCHANGED <<result, asking>>
             ELSE Finish(Waiting(read)) /\ UNCHANGED work
  /\ UNCHANGED <<request, attempt, at, kept, events, snapshot, outcome, torn>>

\* The Result of a condition that is not met, or the end of its run, raises.
WaitFails(message) ==
  /\ stage = "trigger"
  /\ \E data \in Answers("get_quotes", <<Current.trigger.asset>>) :
       /\ Call("get_quotes", <<Current.trigger.asset>>, data)
       /\ ~Fired(Current.trigger, TriggerQuote(data))
  /\ asking' \in {asking, FALSE}
  /\ FileError(message)
  /\ UNCHANGED <<request, attempt, at, work, kept, events, snapshot, outcome, torn>>

TriggerRefused(message) ==
  /\ stage = "trigger"
  /\ Refused("get_quotes", <<Current.trigger.asset>>)
  /\ Fail(message)

-----------------------------------------------------------------------------
(* The steps of execute_steps *)

AtStep(types) == stage = "steps" /\ at <= Len(Current.steps) /\ Current.steps[at].type \in types

TheStep == Current.steps[at]

Done(changed) ==
  /\ work' = changed /\ at' = at + 1
  /\ UNCHANGED <<request, asking, stage, attempt, kept, events, snapshot, result, outcome, torn>>

Skip(changed) == Done(changed) /\ UNCHANGED <<cache, calls>>

Limit == IF TheStep.limit = 0 THEN work.limit ELSE TheStep.limit

\* The first of the two steps fetches, more than it keeps: stablecoins go.
FetchListings ==
  /\ AtStep({"get_universe", "get_market_data"})
  /\ IF work.listed # None THEN Skip([work EXCEPT !.limit = Limit])
     ELSE \E data \in Answers("get_market_listings", Limit + Slack) :
            LET obs == Upto(Volatile(NormalizeListings(data, snapshot)), Limit)
            IN /\ Call("get_market_listings", Limit + Slack, data)
               /\ Done([work EXCEPT !.limit = Limit, !.obs = obs, !.listed = obs])

QuoteSymbols == IF TheStep.symbols = <<>> THEN SymbolsFromItems(work.items) ELSE TheStep.symbols

FetchQuotes ==
  /\ AtStep({"get_quotes"})
  /\ IF QuoteSymbols = <<>> THEN Skip(work)
     ELSE \E data \in Answers("get_quotes", QuoteSymbols) :
            /\ Call("get_quotes", QuoteSymbols, data)
            /\ Done([work EXCEPT !.obs = SelectQuoted(data, QuoteSymbols, snapshot)])

FetchContext ==
  /\ AtStep({"get_global_metrics", "get_fear_and_greed"})
  /\ \E data \in Answers(TheStep.type, <<>>) :
       /\ Call(TheStep.type, <<>>, data)
       /\ Done([work EXCEPT !.context =
            IF TheStep.type = "get_fear_and_greed" THEN [fear |-> data]
            ELSE IF @ = None THEN [fear |-> None] ELSE @])

FetchContent ==
  /\ AtStep({"get_content"})
  /\ \/ \E data \in Answers("get_content", TheStep.symbols) :
          /\ Call("get_content", TheStep.symbols, data)
          /\ Done([work EXCEPT !.items = NormalizeContent(data)])
     \/ Refused("get_content", TheStep.symbols) /\ Done([work EXCEPT !.items = <<>>])

\* The windows name their seconds, so that no two historical calls share a
\* key: this one passes by the cache.
FetchHistory ==
  /\ AtStep({"get_quotes_historical"})
  /\ LET asked == [work EXCEPT !.window = IF TheStep.op = "24h" THEN @ ELSE TheStep.op]
     IN \/ \E data \in Answers("get_quotes_historical", TheStep.symbols) :
             /\ calls' = Append(calls, "get_quotes_historical")
             /\ Done([asked EXCEPT !.history = HistoryOf(data, TheStep.symbols),
                                   !.chart = ChartSeries(data)])
        \/ UNCHANGED calls /\ Done([asked EXCEPT !.missing = {"get_quotes_historical"}])
  /\ UNCHANGED cache

SortStep ==
  /\ AtStep({"sort"})
  /\ Skip([work EXCEPT !.order = TheStep.order, !.obs = SortAssets(@, TheStep.field, TheStep.order)])

\* Every coin that fell more than the reference: its own change among the
\* observations, else its quote, else no filter.
FellMore(obs, bar) ==
  IF bar = None THEN obs ELSE Only(obs, {o \in ToSet(obs) : o.change # None /\ o.change < bar})

FilterRelative ==
  /\ AtStep({"filter"}) /\ TheStep.relative # ""
  /\ LET own == Find(work.obs, TheStep.relative)
         Against(bar) == [work EXCEPT !.obs = FellMore(@, bar)]
     IN IF own # None /\ own.change # None THEN Skip(Against(own.change))
        ELSE \/ \E data \in Answers("get_quotes", <<TheStep.relative>>) :
                  LET quote == Find(SelectQuoted(data, <<TheStep.relative>>, <<>>), TheStep.relative)
                  IN /\ Call("get_quotes", <<TheStep.relative>>, data)
                     /\ Done(Against(IF quote = None THEN None ELSE quote.change))
             \/ Refused("get_quotes", <<TheStep.relative>>) /\ Done(work)

FilterStep ==
  /\ AtStep({"filter"}) /\ TheStep.relative = ""
  /\ Skip([work EXCEPT !.obs = FilterThreshold(@, TheStep.field, TheStep.operator, TheStep.value)])

\* The market data carries the changes, means are computed when presented.
LabelStep == AtStep({"calculate", "aggregate", "present"}) /\ Skip(work)

\* Only content and history are optional.
StepRefused(message) ==
  /\ \/ /\ AtStep({"get_universe", "get_market_data"}) /\ work.listed = None
        /\ Refused("get_market_listings", Limit + Slack)
     \/ AtStep({"get_quotes"}) /\ QuoteSymbols # <<>> /\ Refused("get_quotes", QuoteSymbols)
     \/ AtStep({"get_global_metrics", "get_fear_and_greed"}) /\ Refused(TheStep.type, <<>>)
  /\ Fail(message)

-----------------------------------------------------------------------------
(* The result *)

Presented ==
  LET shown == Only(Current.steps, {s \in ToSet(Current.steps) : s.type = "present"})
  IN IF shown = <<>> THEN Present("ranked_table", "", 0) ELSE Last(shown)

\* The trigger's own quote, else its coin among the observations.
TriggerRow ==
  IF work.read # None THEN work.read ELSE Find(work.obs, TriggerOf(Current))

RankedRows(obs, order, limit) ==
  LET rows == RankAssets(obs, Change, order) IN IF limit = 0 THEN rows ELSE Upto(rows, limit)

ResultOf(items) ==
  LET shown == Presented
      obs == work.obs
      base == [Blank EXCEPT !.assets = Len(obs), !.limits = work.missing,
                 !.trigger = [asset |-> TriggerOf(Current),
                              actual |-> IF TriggerRow = None THEN None ELSE TriggerRow.change]]
      Compared(chart) == [i \in DOMAIN obs |-> ComparisonRow(obs[i], chart)]
  IN CASE shown.format = "news_brief" /\ items = <<>> -> [base EXCEPT !.kind = "no_result"]
       [] shown.format = "news_brief" /\ items # <<>> ->
            [base EXCEPT !.kind = "news_brief", !.items = Len(AttachQuotes(items, obs)),
                         !.rows = Compared(<<>>)]
       [] shown.format = "comparison" ->
            [base EXCEPT !.kind = "comparison", !.rows = Compared(work.chart)]
       [] shown.format = "market_summary" -> [base EXCEPT !.kind = "market_summary"]
       [] shown.format = "ranked_table" ->
            [base EXCEPT !.kind = "ranked_table",
                         !.rows = RankedRows(obs, work.order, shown.limit)]

AllRun == stage = "steps" /\ at > Len(Current.steps)

\* _promote_trigger_event
Promoted ==
  IF request.honor /\ Conditional(Current) /\ TriggerRow # None
  THEN events \cup {TriggerRow.sym} ELSE events

\* The headlines of the page stand in for a content call that gave none.
Publish ==
  /\ AllRun
  /\ \E page \in Contents :
       LET made == ResultOf(IF work.items = <<>> THEN PageItems(NormalizeContent(page)) ELSE work.items)
       IN Finish(made)
  /\ kept' = kept \o work.obs /\ events' = Promoted
  /\ UNCHANGED <<request, attempt, at, work, cache, calls, snapshot, outcome, torn>>

\* Storing the rows one by one, the Result, the event, the end of the run or
\* the message about it raises: what was stored stays, under an error.
PublishFails(message) ==
  /\ AllRun
  /\ \/ /\ \E n \in 0..Len(work.obs) : kept' = kept \o Upto(work.obs, n)
        /\ UNCHANGED <<asking, events>>
     \/ kept' = kept \o work.obs /\ events' = Promoted /\ asking' \in {asking, FALSE}
  /\ FileError(message)
  /\ torn' = (torn \/ kept' # kept)
  /\ UNCHANGED <<request, attempt, at, work, cache, calls, snapshot, outcome>>

\* A workflow without steps: the policy is scanned.
Policed == request.standing.policy

ScanCall == IF Policed.universe = "symbols" THEN Policed.symbols ELSE Policed.limit

FetchScan ==
  /\ stage = "scan"
  /\ \E data \in Answers(Head(ScanTools(Policed)), ScanCall) :
       /\ Call(Head(ScanTools(Policed)), ScanCall, data)
       /\ work' = [work EXCEPT !.obs = Volatile(NormalizeListings(data, snapshot))]
  /\ stage' = "score"
  /\ UNCHANGED <<request, asking, attempt, at, kept, events, snapshot, result, outcome, torn>>

Feared == Len(ScanTools(Policed)) > 1

ReadFear(fear) ==
  IF Feared THEN fear \in Fears /\ Call("get_fear_and_greed", <<>>, fear)
  ELSE fear = None /\ UNCHANGED <<cache, calls>>

RankSnapshot ==
  LET ranked == {o \in ToSet(work.obs) : o.rank # None}
  IN [id \in {o.id : o \in ranked} |-> (CHOOSE o \in ranked : o.id = id).rank]

\* The result is of all the events of the run, those of a scan that failed
\* included.
ScanPolicy ==
  /\ stage = "score"
  /\ \E fear \in Fears \cup {None} :
       LET scan == Scan(Policed, work.obs, fear)
           found == events \cup scan.events
       IN /\ ReadFear(fear)
          /\ events' = found
          /\ Finish([Blank EXCEPT !.kind = IF found # {} THEN "event" ELSE "no_result",
                       !.assets = IF found # {} THEN 0 ELSE scan.assets])
  /\ snapshot' = RankSnapshot
  /\ UNCHANGED <<request, attempt, at, work, kept, outcome, torn>>

\* Storing or announcing an event raises, or, after the last, storing the Lens
\* or the run: the events that were stored stay.
ScanFails(message) ==
  /\ stage = "score"
  /\ \E fear \in Fears \cup {None}, n \in 0..Len(work.obs) :
       /\ ReadFear(fear)
       /\ events' = events \cup (Scan(Policed, work.obs, fear).events
                                  \cap Symbols(Upto(work.obs, n)))
       /\ \/ UNCHANGED snapshot
          \/ n = Len(work.obs) /\ snapshot' = RankSnapshot
  /\ FileError(message)
  /\ UNCHANGED <<request, asking, attempt, at, work, kept, outcome, torn>>

ScanRefused(message) ==
  /\ \/ stage = "scan" /\ Refused(Head(ScanTools(Policed)), ScanCall)
     \/ stage = "score" /\ Feared /\ Refused("get_fear_and_greed", <<>>)
  /\ Fail(message)

-----------------------------------------------------------------------------
(* What is made of the result *)

\* _apply_capabilities: the stored rows, without the ranks before them.
WithClaims(made) ==
  IF made.kind = "no_result" THEN made
  ELSE LET stored == [i \in DOMAIN kept |-> [kept[i] EXCEPT !.before = None]]
           fear == IF made.kind = "market_summary" /\ work.context # None
                   THEN work.context.fear ELSE None
           task == IF asking THEN request.report.task ELSE request.standing.task
           extras == IF made.kind = "error" THEN [history |-> <<>>, window |-> "", missing |-> {}]
                     ELSE [history |-> work.history, window |-> work.window, missing |-> work.missing]
           merged == Merged(RunCapabilities(task, Plan.caps, stored, fear, extras))
       IN [made EXCEPT !.claims = merged.claims, !.limits = @ \cup merged.limits]

Observed(made) == kept # <<>> \/ made.rows # <<>> \/ made.trigger.asset # ""

Conclude(made, status) ==
  [status |-> status, evidence |-> EvidenceOf(made, status, calls, Observed(made)),
   finding |-> FindingOf(made, status)]

\* Mutant of MayRetry: one repair too many.
MayRetryOnceMore == attempt <= MaxRetries

MayRetry == attempt < MaxRetries

\* Verified against the workflow of the version, even where the run asked
\* for another one.
Verify ==
  /\ stage = "observed"
  /\ LET made == WithClaims(result)
         status == VerifyResult(made, request.standing.workflow, Plan)
     IN /\ result' = made
        /\ IF NeedsRepair(made, status) /\ MayRetry
           THEN attempt' = attempt + 1 /\ stage' = "attempt" /\ UNCHANGED outcome
           ELSE outcome' = Conclude(made, status) /\ stage' = "done" /\ UNCHANGED attempt
  /\ UNCHANGED <<request, asking, at, work, cache, calls, kept, events, snapshot, torn>>

\* Nothing but the end of a run stops it.
Over == stage \in {"done", "refused"}

TakeStep ==
  \/ FetchListings \/ FetchQuotes \/ FetchContext \/ FetchContent \/ FetchHistory
  \/ SortStep \/ FilterRelative \/ FilterStep \/ LabelStep

Next ==
  \/ PlanRun \/ Execute \/ ReadTrigger \/ TakeStep \/ Publish \/ FetchScan \/ ScanPolicy \/ Verify
  \/ \E message \in {"refused", "unavailable"} :
       \/ TriggerRefused(message) \/ StepRefused(message) \/ ScanRefused(message)
       \/ WaitFails(message) \/ PublishFails(message) \/ ScanFails(message)
  \/ MinutePasses
  \/ Over /\ UNCHANGED vars

Spec == Init /\ [][Next]_vars
-----------------------------------------------------------------------------
(* Properties *)

TypeOK ==
  /\ request \in Requests /\ asking \in BOOLEAN
  /\ stage \in {"queued", "attempt", "trigger", "steps", "scan", "score", "observed", "done", "refused"}
  /\ attempt \in 0..MaxRetries /\ at \in Nat \ {0} /\ torn \in BOOLEAN
  /\ \A i \in DOMAIN calls : calls[i] \in CmcTools
  /\ result = None \/ result.kind \in {"no_result", "error", "event", "news_brief", "comparison",
                                      "market_summary", "ranked_table"}

Ended == stage = "done"
Settled == Ended /\ outcome.status = "supported"

\* The run is of the version of its lens, not a question to a standing watch.
Own == request.report = request.standing

\* What the readers of messages and edits compile is never refused by the
\* validators of the plan: CapabilityPlan's own and validate_agent_plan's.
PlansAreAccepted == stage # "refused"

\* A run calls no tool its plan does not name, whichever steps, repairs,
\* references or scans it goes through, but for one: build_agent_plan, which
\* plans an edited version, knows no step or context of Fear & Greed.
Unplanned == IF request.standing.plan = None THEN {"get_fear_and_greed"} ELSE {}

CallsArePlanned ==
  stage # "queued" /\ Own => ToSet(calls) \subseteq Plan.tools \cup Unplanned

\* The observations of a run are those of one attempt, the one its result
\* shows: nothing but a failure that comes once an attempt has begun to store
\* its rows leaves others, which _fail and a repair keep. Even then a result
\* with rows is about the ones stored last, all of them.
Shown == {"ranked_table", "comparison", "market_summary", "news_brief"}

EndsWith(rows, last) == \E n \in 0..Len(rows) : last = SubSeq(rows, n + 1, Len(rows))

OneAttemptObserved ==
  Ended =>
    /\ kept # <<>> /\ ~torn => kept = work.obs
    /\ result.kind \in Shown => EndsWith(kept, work.obs)

\* A ranking of gains or declines shows only coins that moved that way, in
\* the order of their moves, and leaves out none of the listing that moved
\* more than one it shows.
TableIsExtreme ==
  Ended /\ result.kind = "ranked_table" /\ Presented.op \in {"gainers", "losers"} =>
    LET Beats(v, w) == IF Presented.op = "gainers" THEN v > w ELSE v < w
    IN \A i \in DOMAIN result.rows :
         /\ result.rows[i].change # None /\ Beats(result.rows[i].change, 0)
         /\ \A o \in ToSet(work.listed) : o.change # None /\ Beats(o.change, result.rows[i].change)
              => \E j \in 1..i : result.rows[j].sym = o.sym

\* A supported table or comparison rests on stored observations, and what
\* its claims say of a coin is what was observed of it.
NoFactFromNothing ==
  Settled /\ result.kind \in {"ranked_table", "comparison"} =>
    /\ kept # <<>>
    /\ \A c \in ToSet(result.claims) : c.kind \in {"move", "unusual"} =>
         \E o \in ToSet(kept) : c.names = {o.sym} /\ c.value = o.change

\* An asset that shares the ticker of a coin never stands for it in a
\* comparison, whichever attempt made it.
NamesakesStayOut ==
  Ended /\ result.kind = "comparison" => \A o \in ToSet(work.obs) : o.rank # None

\* A history that was asked for and not returned is a limitation of the
\* answer, and no claim over the window is made. An error that replaces the
\* answer once it was stored says nothing of it, and claims nothing either.
MissingHistoryIsNamed ==
  Ended /\ work.missing # {} =>
    /\ result.kind # "error" => result.limits # {}
    /\ ~\E c \in ToSet(result.claims) : c.kind = "over window"

\* A new event is of a coin that was read in the attempt that created it: it
\* met the trigger, or a condition of the policy.
EventsWereRead ==
  [][events' # events =>
       IF stage = "steps"
       THEN /\ work.read # None /\ events' = events \cup {work.read.sym}
            /\ LET trigger == Current.trigger
               IN Compare(Metric(work.read, trigger.metric), trigger.operator, trigger.value)
       ELSE \A sym \in events' \ events : \E o \in ToSet(work.obs) :
              o.sym = sym /\ MetCount(Policed, o) > 0]_vars

-----------------------------------------------------------------------------
(* What the documents say *)

\* The list of the largest coins holds the coins of the listing.
CapListHoldsTheTop ==
  Settled /\ result.kind = "ranked_table" /\ request.report.task.action = "report" =>
    RowSymbols(result) = Symbols(work.listed)
=============================================================================

------------------------------ MODULE Workflows ------------------------------
(***************************************************************************)
(* What a lens is told to do, and the workflow that does it: ClarifiedTask *)
(* and ResearchTask, WorkflowDefinition, job_compiler.workflow_from_task,  *)
(* the edits of job_compiler._apply_edit and the report that task_compiler *)
(* packs (job, policy, workflow).                                          *)
(*                                                                         *)
(* A task has the fields of a ResearchTask that something later reads. No  *)
(* limit is 0, no text is "", and words (objective, assumptions, you_asked)*)
(* are left out.                                                           *)
(***************************************************************************)
EXTENDS Calculations, TLC

CONSTANTS
  DefaultLimit,  \* 100, the listing size when none is named
  ShownLimit     \* 10, the rows of a ranking of gains or declines

Upto(seq, n) == SubSeq(seq, 1, IF Len(seq) < n THEN Len(seq) ELSE n)

Condition(metric, operator, value, asset) ==
  [metric |-> metric, operator |-> operator, value |-> value, asset |-> asset]

\* The first asset a condition or the scope names, "" when none does.
TriggerAsset(task) ==
  LET given == [i \in DOMAIN task.conds |-> task.conds[i].asset] \o task.assets
      named == Only(given, ToSet(given) \ {""})
  IN IF named = <<>> THEN "" ELSE Head(named)

-----------------------------------------------------------------------------
(* WorkflowDefinition *)

Plain == [type |-> "", limit |-> 0, symbols |-> <<>>, op |-> "", field |-> "", order |-> "",
          operator |-> "", value |-> None, relative |-> "", format |-> ""]

Step(type) == [Plain EXCEPT !.type = type]

Trigger(asset, metric, operator, value) ==
  [type |-> "asset_condition", asset |-> asset, metric |-> metric,
   operator |-> operator, value |-> value]

Workflow(trigger, steps) == [trigger |-> trigger, steps |-> steps]

NoWorkflow == Workflow(None, <<>>)

Listings(limit) == <<[Step("get_universe") EXCEPT !.limit = limit], Step("get_market_data")>>

Present(format, op, limit) ==
  [Step("present") EXCEPT !.format = format, !.op = op, !.limit = limit]

StepTypes ==
  {"get_universe", "get_market_data", "get_quotes", "get_quotes_historical",
   "get_ohlcv_historical", "get_global_metrics", "get_fear_and_greed", "get_content",
   "get_trending", "get_gainers_losers", "get_new_listings", "get_categories",
   "calculate", "sort", "filter", "aggregate", "present"}

PresentFormats == {"ranked_table", "market_summary", "comparison", "news_brief"}

\* What the validators of a WorkflowDefinition let through.
IsWorkflow(workflow) ==
  /\ IsSequence(workflow.steps)
  /\ \A step \in ToSet(workflow.steps) :
       /\ step.type \in StepTypes /\ step.limit \in Nat /\ IsSequence(step.symbols)
       /\ step.type = "present" => step.format \in PresentFormats

\* And what the compilers write: a ranking is one of numbers, and nothing is
\* fetched after a history.
IsCompiled(workflow) ==
  /\ \A step \in ToSet(workflow.steps) : step.type = "sort" => step.field \in {Change, "market_cap"}
  /\ \A i, j \in DOMAIN workflow.steps :
       workflow.steps[i].type = "get_quotes_historical" /\ i < j =>
         workflow.steps[j].type \in {"calculate", "sort", "filter", "aggregate", "present"}

HasStep(workflow, type) == \E i \in DOMAIN workflow.steps : workflow.steps[i].type = type

Presents(workflow, format) ==
  \E i \in DOMAIN workflow.steps : workflow.steps[i].type = "present"
                                   /\ workflow.steps[i].format = format

ReactionWorkflow(asset, threshold, limit, order, metric, operator) ==
  IF asset = "" THEN NoWorkflow
  ELSE Workflow(Trigger(asset, metric, operator, threshold),
         Listings(limit) \o <<[Step("calculate") EXCEPT !.op = "percentage_change"],
                              [Step("sort") EXCEPT !.field = Change, !.order = order],
                              Present("ranked_table", "", 0)>>)

SnapshotWorkflow(symbols, window) ==
  Workflow(None, <<[Step("get_quotes") EXCEPT !.symbols = symbols],
                   [Step("get_quotes_historical") EXCEPT !.symbols = symbols,
                      !.op = IF window = "" THEN "24h" ELSE window],
                   Present("comparison", "", 0)>>)

\* Mutant of ListingsRankWorkflow: only gains are filtered.
RankWithoutFilter(direction, limit) ==
  LET gains == direction = "gainers"
  IN Workflow(None, Listings(limit) \o
       <<[Step("sort") EXCEPT !.field = Change,
            !.order = IF gains THEN "descending" ELSE "ascending"],
         Present("ranked_table", direction, ShownLimit)>>)

ListingsRankWorkflow(direction, limit) ==
  LET gains == direction = "gainers"
  IN Workflow(None, Listings(limit) \o
       <<[Step("filter") EXCEPT !.field = Change, !.value = 0,
            !.operator = IF gains THEN ">" ELSE "<"],
         [Step("sort") EXCEPT !.field = Change,
            !.order = IF gains THEN "descending" ELSE "ascending"],
         Present("ranked_table", direction, ShownLimit)>>)

MarketCapWorkflow(limit) ==
  Workflow(None, Listings(limit) \o
    <<[Step("sort") EXCEPT !.field = "market_cap", !.order = "descending"],
      Present("ranked_table", "market_cap", limit)>>)

NewsWorkflow(symbols) ==
  Workflow(None, <<[Step("get_content") EXCEPT !.symbols = symbols, !.limit = 20],
                   [Step("get_quotes") EXCEPT !.symbols = symbols],
                   Present("news_brief", "", 0)>>)

Mean == [Step("aggregate") EXCEPT !.op = "mean"]

BriefWorkflow(limit) ==
  Workflow([Trigger("", Change, "<=", None) EXCEPT !.type = "scheduled"],
    Listings(limit) \o <<Step("get_global_metrics"), Mean, Present("market_summary", "", 0)>>)

SummaryWorkflow(limit) ==
  Workflow(None, <<Step("get_global_metrics"), Step("get_fear_and_greed")>> \o Listings(limit)
    \o <<Mean, Present("market_summary", "", 0)>>)

-----------------------------------------------------------------------------
(* workflow_from_task *)

IsReactionTask(task) ==
  \/ task.type = "watch_plus_investigate"
  \/ task.action = "investigate_market_reaction"
  \/ task.mode = "work" /\ Contains(task.caps, "reaction")

Else(text, default) == IF text = "" THEN default ELSE text

ReactionOfTask(task, limit) ==
  LET given     == task.conds # <<>>
      threshold == IF given /\ Head(task.conds).value # None THEN Head(task.conds).value ELSE -2
      metric    == IF given THEN Else(Head(task.conds).metric, Change) ELSE Change
      sign      == IF threshold < 0 THEN "<=" ELSE ">="
      operator  == IF given THEN Else(Head(task.conds).operator, sign) ELSE sign
      order     == IF operator \in {">", ">="} \/ threshold > 0 THEN "descending" ELSE "ascending"
  IN ReactionWorkflow(TriggerAsset(task), threshold, limit, order, metric, operator)

StandingOfTask(task) ==
  LET asset == TriggerAsset(task)
      trigger == IF task.conds = <<>> \/ Head(task.conds).value = None THEN None
                 ELSE Trigger(asset, Else(Head(task.conds).metric, Change),
                              Else(Head(task.conds).operator, "<="), Head(task.conds).value)
  IN Workflow(trigger, IF asset = "" THEN <<>>
       ELSE <<[Step("get_quotes") EXCEPT !.symbols = <<asset>>], Present("comparison", "", 0)>>)

WorkflowFromTask(task) ==
  LET limit == IF task.limit = 0 THEN DefaultLimit ELSE task.limit
      plain == task.assets = <<>>
  IN IF task.type = "news_brief" THEN NewsWorkflow(task.assets)
     ELSE IF task.type = "scheduled_brief" THEN BriefWorkflow(limit)
     ELSE IF IsReactionTask(task) THEN ReactionOfTask(task, limit)
     ELSE IF task.mode = "work" THEN StandingOfTask(task)
     ELSE IF task.action \in {"rank_gains", "rank_declines"} \/ task.output = "ranked_table"
       THEN ListingsRankWorkflow(IF task.action = "rank_gains" THEN "gainers" ELSE "losers", limit)
     ELSE IF task.action = "market_summary" \/ (Contains(task.caps, "regime") /\ plain)
       THEN SummaryWorkflow(limit)
     ELSE IF plain THEN (IF task.universe = "top" THEN MarketCapWorkflow(limit) ELSE NoWorkflow)
     ELSE SnapshotWorkflow(Upto(task.assets, 4),
            Else(task.window, IF Contains(task.caps, "historical") THEN "30d" ELSE "24h"))

-----------------------------------------------------------------------------
(* task_compiler: the policy, the trigger and the job *)

Policy(universe, limit, symbols, conds, context) ==
  [universe |-> universe, limit |-> limit, symbols |-> symbols, conds |-> conds,
   logic |-> "AND", context |-> context, severity |-> "medium"]

\* And those of an IntelligencePolicy.
IsPolicy(policy) ==
  IsFiniteSet(DOMAIN policy.conds) /\ IsSequence(policy.symbols) /\ policy.limit \in Nat

WholeMarket(task) ==
  task.universe = "top" \/ task.type \in {"scheduled_brief", "watch_plus_investigate"}

\* A condition without a value is dropped. compile_from_task narrows the
\* universe once more, to the same symbols.
PolicyFromTask(task) ==
  LET symbols == IF WholeMarket(task) THEN <<>> ELSE task.assets
      bars == Only(task.conds, {c \in ToSet(task.conds) : c.value # None})
  IN Policy(IF symbols = <<>> THEN "listings" ELSE "symbols",
            IF task.limit = 0 THEN DefaultLimit ELSE task.limit, symbols,
            [i \in DOMAIN bars |-> Condition(Else(bars[i].metric, Change),
                                             Else(bars[i].operator, "<="), bars[i].value, "")],
            <<>>)

\* The first condition becomes the trigger, whatever the mode.
ApplyTaskTrigger(workflow, task) ==
  IF task.conds = <<>> THEN workflow
  ELSE LET c == Head(task.conds)
           asset == Else(c.asset, TriggerAsset(task))
       IN IF asset = "" THEN workflow
          ELSE [workflow EXCEPT !.trigger =
                  Trigger(asset, Else(c.metric, Change), Else(c.operator, "<="), c.value)]

\* The model of the job: what a task asked for once never stands.
ExecutionModel(task) ==
  IF task.mode = "ask" THEN "task"
  ELSE IF IsReactionTask(task) THEN "watch_plus_workflow"
  ELSE IF task.type = "scheduled_brief" THEN "scheduled" ELSE "watch"

\* The planned workflow is the object the trigger is set on, so the plan
\* that is stored has the trigger too.
CompileFromTask(task, plan) ==
  LET planned  == plan.workflow # NoWorkflow
      workflow == ApplyTaskTrigger(IF planned THEN plan.workflow ELSE WorkflowFromTask(task), task)
  IN [task |-> task, policy |-> PolicyFromTask(task), model |-> ExecutionModel(task),
      workflow |-> workflow, plan |-> IF planned THEN [plan EXCEPT !.workflow = workflow] ELSE plan]

-----------------------------------------------------------------------------
(* An edit of the current job by a message that is no task of its own *)

\* HeuristicCompiler._make_stricter: the first percentage of the message
\* replaces the bar of the price, which rises by half without one, the second
\* that of the volume, which doubles.
Stricter(policy, percent, second) ==
  [policy EXCEPT !.conds = [i \in DOMAIN @ |->
     CASE @[i].metric = Change -> [@[i] EXCEPT !.value =
            IF percent # 0 THEN percent ELSE (3 * @) \div 2]
       [] @[i].metric = "volume_change_24h" -> [@[i] EXCEPT !.value =
            IF second # 0 THEN second ELSE 2 * @]
       [] OTHER -> @[i]]]

\* HeuristicCompiler.compile of a message about no coin and no volume: the
\* policy is written anew. wanted tells whether it speaks of ranks.
FreshPolicy(limit, percent, wanted) ==
  Policy("listings", limit, <<>>,
    <<Condition(Change, ">", IF percent = 0 THEN 5 ELSE percent, "")>>
      \o (IF wanted THEN <<Condition("rank_improved", "==", TRUE, "")>> ELSE <<>>),
    IF wanted THEN <<Condition("fear_greed", ">=", 70, "")>> ELSE <<>>)

BeforePresent(steps, step) ==
  LET at == {i \in DOMAIN steps : steps[i].type = "present"}
  IN InsertAt(steps, IF at = {} THEN Len(steps) + 1 ELSE Min(at), step)

Resized(workflow, limit) ==
  [workflow EXCEPT !.steps = [i \in DOMAIN @ |->
     IF @[i].type \in {"get_universe", "get_market_data"} THEN [@[i] EXCEPT !.limit = limit]
     ELSE @[i]]]

Steeper(workflow) ==
  IF \E i \in DOMAIN workflow.steps : workflow.steps[i].relative = "BTC" THEN workflow
  ELSE [workflow EXCEPT !.steps = BeforePresent(@,
          [Step("filter") EXCEPT !.field = Change, !.operator = "<", !.relative = "BTC"])]

Tighter(workflow) ==
  IF workflow.trigger = None \/ workflow.trigger.value = None THEN workflow
  ELSE [workflow EXCEPT !.trigger.value = (3 * @) \div 2]

\* An edit says some of: use top n, only what fell more than BTC, every
\* morning, be stricter. Words like "higher" or "above" raise the bar of the
\* policy only, words like "stricter" that of the trigger too.
ApplyEdit(job, edit) ==
  LET sized  == IF edit.limit # 0 THEN Resized(job.workflow, edit.limit) ELSE job.workflow
      steep  == IF edit.steeper THEN Steeper(sized) ELSE sized
      policy == IF edit.bar = "" THEN FreshPolicy(IF edit.limit = 0 THEN DefaultLimit ELSE edit.limit,
                                                  edit.percent, edit.ranks)
                ELSE Stricter(job.policy, edit.percent, edit.second)
  IN [job EXCEPT !.model = IF edit.morning THEN "scheduled" ELSE @,
                 !.workflow = IF edit.bar = "trigger" THEN Tighter(steep) ELSE steep,
                 !.policy = IF edit.limit # 0 THEN [policy EXCEPT !.limit = edit.limit]
                            ELSE policy]
=============================================================================

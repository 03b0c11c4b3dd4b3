------------------------------ MODULE Planning ------------------------------
(***************************************************************************)
(* How a task becomes a plan: research/planner.py, capability_plan.py, the *)
(* tool registry and agent.py's build_agent_plan, with the plan a run      *)
(* takes up again (agent_runtime._plan_for_run).                           *)
(*                                                                         *)
(* A plan is [caps, tools, checks, completion, persistent]: capabilities   *)
(* in their order, the tools it may call, the checks its result must pass. *)
(* The names of the steps shown to the user are left out. Every version    *)
(* has the default tool permissions, the compilers' only ones.             *)
(***************************************************************************)
EXTENDS Workflows

CmcTools ==
  {"get_market_listings", "get_quotes", "get_quotes_historical", "get_ohlcv_historical",
   "get_global_metrics", "get_fear_and_greed", "get_content", "get_trending",
   "get_gainers_losers", "get_new_listings", "get_categories", "get_category",
   "get_price_performance", "get_altcoin_season", "get_cmc_index"}

CapabilityNames == {"market", "anomaly", "reaction", "historical", "discovery", "regime"}

DisabledSlots == {"news", "on_chain", "derivatives", "dex", "rwa"}

ToolGroup(group) ==
  CASE group = "market"     -> {"get_market_listings", "get_quotes", "get_price_performance"}
    [] group = "historical" -> {"get_quotes_historical", "get_ohlcv_historical"}
    [] group = "discovery"  -> {"get_trending", "get_gainers_losers", "get_new_listings"}
    [] group = "context"    -> {"get_global_metrics", "get_fear_and_greed",
                                "get_altcoin_season", "get_cmc_index"}

CapabilityGroups(name) ==
  CASE name \in {"market", "reaction", "regime"} -> {"market", "context"}
    [] name \in {"anomaly", "discovery"}         -> {"market", "discovery"}
    [] name = "historical"                       -> {"historical"}

\* STEP_TOOLS; the other steps call nothing.
StepTool(type) ==
  CASE type \in {"get_universe", "get_market_data"} -> {"get_market_listings"}
    [] type \in CmcTools                            -> {type}
    [] OTHER                                        -> {}

ToolAllowed(name) == name \in CmcTools

\* require_sensitivity: every tool of the registry reads or analyzes.
RequireTool(name) == ToolAllowed(name) /\ name \notin DisabledSlots

-----------------------------------------------------------------------------
(* What the capabilities take on and call *)

Accepts(name, task) ==
  \/ name = "market"
  \/ Contains(task.caps, name)
  \/ name = "anomaly" /\ task.type \in {"persistent_monitor", "watch_plus_investigate"}
  \/ name = "reaction" /\ task.type = "watch_plus_investigate"
  \/ name = "historical" /\ task.window # ""
  \/ name = "regime" /\ task.type = "scheduled_brief"

SelectCapabilities(task, names) ==
  LET chosen == Only(names, {name \in ToSet(names) : Accepts(name, task)})
  IN IF chosen = <<>> THEN <<"market">> ELSE chosen

RequiredBy(name, task) ==
  CASE name = "market"     -> IF WholeMarket(task)
                              THEN {"get_market_listings", "get_global_metrics", "get_fear_and_greed"}
                              ELSE {"get_quotes"}
    [] name = "anomaly"    -> {"get_quotes", "get_market_listings", "get_trending"}
    [] name = "reaction"   -> {"get_quotes", "get_market_listings", "get_global_metrics"}
    [] name = "historical" -> {"get_quotes_historical", "get_ohlcv_historical"}
    [] name = "discovery"  -> {"get_trending", "get_gainers_losers", "get_new_listings",
                               "get_market_listings"}
    [] name = "regime"     -> {"get_quotes", "get_market_listings", "get_global_metrics",
                               "get_fear_and_greed", "get_altcoin_season"}

RequiredTools(task, names) ==
  UNION {RequiredBy(name, task) : name \in ToSet(SelectCapabilities(task, names))}

ToolsFromWorkflow(workflow) ==
  (IF workflow.trigger # None /\ workflow.trigger.asset # "" THEN {"get_quotes"} ELSE {})
    \cup UNION {StepTool(workflow.steps[i].type) : i \in DOMAIN workflow.steps}

\* _allowed_tools_for asks each capability for its tools on three tasks: a
\* plain one, a reaction and a brief.
AllowedToolsFor(caps) ==
  LET plain == [universe |-> "", type |-> "one_shot_research"]
      wide  == [universe |-> "top", type |-> "scheduled_brief"]
  IN UNION {RequiredBy(name, plain) \cup RequiredBy(name, wide)
              \cup UNION {ToolGroup(g) : g \in CapabilityGroups(name)} : name \in ToSet(caps)}

VerificationFor(workflow) ==
  (IF workflow.trigger # None /\ workflow.trigger.asset # "" THEN {"trigger"} ELSE {})
    \cup (IF HasStep(workflow, "sort") THEN {"ranking"} ELSE {})
    \cup (IF HasStep(workflow, "calculate") THEN {"percent"} ELSE {})
    \cup {"fields"}

-----------------------------------------------------------------------------
(* ResearchPlanner.plan *)

\* Only what a follow-up left blank is filled from the research at hand.
Inherit(task, context) ==
  IF ~task.follow THEN task
  ELSE LET dated == IF task.window = "" /\ context.timeframe # ""
                    THEN [task EXCEPT !.window = context.timeframe,
                                      !.caps = Unique(@ \o <<"historical", "market">>)]
                    ELSE task
       IN [dated EXCEPT !.assets = IF @ = <<>> THEN context.entities ELSE @,
                        !.universe = Else(@, context.universe)]

DefaultCapabilities(task) ==
  (CASE task.type = "watch_plus_investigate" \/ task.action = "investigate_market_reaction"
          -> <<"market", "reaction">>
     [] task.type = "persistent_monitor" -> <<"anomaly", "market">>
     [] task.type = "scheduled_brief"    -> <<"market", "regime">>
     [] OTHER                            -> <<"market">>)
    \o (IF task.window # "" THEN <<"historical">> ELSE <<>>)

\* Mutant of CapabilityPlan: the tools of the steps are not allowed for.
PlanWithoutSteps(caps, tools, workflow, persistent) ==
  [accepted |-> ToSet(caps) \subseteq CapabilityNames /\ tools \subseteq AllowedToolsFor(caps),
   caps |-> caps, tools |-> tools, workflow |-> workflow,
   checks |-> VerificationFor(workflow), persistent |-> persistent]

\* CapabilityPlan(...): its validators raise for a name that is not known and
\* for a tool that neither the capabilities nor the steps of the workflow
\* account for.
CapabilityPlan(caps, tools, workflow, persistent) ==
  [accepted |-> /\ ToSet(caps) \subseteq CapabilityNames /\ tools \subseteq CmcTools
                /\ tools \subseteq AllowedToolsFor(caps)
                     \cup UNION {StepTool(workflow.steps[i].type) : i \in DOMAIN workflow.steps},
   caps |-> Unique(caps), tools |-> tools, workflow |-> workflow,
   checks |-> VerificationFor(workflow), persistent |-> persistent]

\* Mutant of PlanTask: the tools are those of the capabilities alone.
PlanCapabilitiesOnly(task, context) ==
  LET inherited == Inherit(task, context)
      caps == IF inherited.caps = <<>> THEN DefaultCapabilities(inherited) ELSE inherited.caps
  IN CapabilityPlan(caps, RequiredTools(inherited, caps), WorkflowFromTask(inherited),
                    inherited.mode = "work")

PlanTask(task, context) ==
  LET inherited == Inherit(task, context)
      caps == IF inherited.caps = <<>> THEN DefaultCapabilities(inherited) ELSE inherited.caps
      workflow == WorkflowFromTask(inherited)
  IN CapabilityPlan(caps, RequiredTools(inherited, caps) \cup ToolsFromWorkflow(workflow),
                    workflow, inherited.mode = "work")

\* One message compiled: the task is planned, and packed as inherited.
Compile(task, context) == CompileFromTask(Inherit(task, context), PlanTask(task, context))

-----------------------------------------------------------------------------
(* build_agent_plan, and the plan of a run *)

BuiltTools(workflow) ==
  (ToolsFromWorkflow(workflow) \ {"get_fear_and_greed"})
    \cup (IF workflow.steps = <<>> THEN {"get_market_listings"} ELSE {})

BuiltChecks(workflow) ==
  LET For(types, check) == IF \E t \in types : HasStep(workflow, t) THEN {check} ELSE {}
  IN (IF workflow.trigger # None /\ workflow.trigger.asset # "" THEN {"trigger"} ELSE {})
       \cup For({"get_universe", "get_market_data"}, "assets")
       \cup For({"get_content"}, "headlines") \cup For({"calculate"}, "percent")
       \cup For({"sort"}, "ranking") \cup {"fields"}
       \cup (IF Presents(workflow, "news_brief") THEN {"quotes"} ELSE {})

BuiltCompletion(workflow) ==
  CASE Presents(workflow, "ranked_table")   -> "ranked_result_created"
    [] Presents(workflow, "market_summary") -> "report_created"
    [] Presents(workflow, "news_brief")     -> "news_brief_created"
    [] OTHER                                -> "result_created"

CapabilitiesFor(model, workflow) ==
  Unique(<<"market">>
    \o (IF HasStep(workflow, "get_quotes_historical") \/ HasStep(workflow, "get_ohlcv_historical")
        THEN <<"historical">> ELSE <<>>)
    \o (IF \E t \in ToolGroup("discovery") : HasStep(workflow, t) THEN <<"discovery">> ELSE <<>>)
    \o (CASE model = "watch_plus_workflow" -> <<"reaction", "anomaly">>
          [] model = "scheduled"           -> <<"regime">>
          [] model = "watch"               -> <<"anomaly">>
          [] OTHER                         -> <<>>))

BuildAgentPlan(model, workflow) ==
  [caps |-> CapabilitiesFor(model, workflow), tools |-> BuiltTools(workflow),
   checks |-> BuiltChecks(workflow), completion |-> BuiltCompletion(workflow),
   persistent |-> model \in {"watch", "watch_plus_workflow", "scheduled"}]

\* validate_agent_plan
PlanAllowed(plan) == \A tool \in plan.tools : RequireTool(tool)

ToAgentPlan(plan) ==
  LET built == BuildAgentPlan("none", plan.workflow)
  IN [built EXCEPT !.caps = plan.caps, !.checks = plan.checks, !.persistent = plan.persistent,
        !.tools = IF plan.tools = {} THEN @ ELSE plan.tools]

\* _apply_capability_steps
CapabilityTool(name) ==
  CASE name = "historical" -> {"get_quotes_historical"}
    [] name = "discovery"  -> {"get_trending"}
    [] name = "regime"     -> {"get_fear_and_greed"}
    [] name = "anomaly"    -> {"get_quotes"}
    [] name = "reaction"   -> {"get_market_listings"}
    [] OTHER               -> {}

\* A version without a stored capability plan is one an edit compiled. The
\* tools its capabilities need are asked of an empty task.
PlanFromVersion(model, workflow) ==
  LET plan == BuildAgentPlan(model, workflow)
      empty == [universe |-> "", type |-> "one_shot_research", window |-> "", caps |-> plan.caps]
  IN [plan EXCEPT !.tools = @ \cup RequiredTools(empty, plan.caps)
                              \cup UNION {CapabilityTool(name) : name \in ToSet(plan.caps)}]

\* A report that can be run: the parts that the models of a version check.
IsReport(report) ==
  /\ IsWorkflow(report.workflow) /\ IsCompiled(report.workflow) /\ IsPolicy(report.policy)
  /\ report.plan # None => /\ IsSequence(report.plan.caps) /\ "fields" \in report.plan.checks
                           /\ ToSet(report.plan.caps) \subseteq CapabilityNames

\* _plan_for_run: the stored capability plan, else the workflow.
PlanForRun(report) ==
  IF report.plan # None THEN ToAgentPlan(report.plan)
  ELSE PlanFromVersion(report.model, report.workflow)
=============================================================================

---------------------------- MODULE Conversation ----------------------------
(***************************************************************************)
(* The turns of a conversation with one lens, and what they keep of it:    *)
(* ConversationService._turn and _keep_watching over Lens.context_json,    *)
(* which every run writes too when it ends (agent_runtime._loop).          *)
(*                                                                         *)
(* The pending question, the research at hand and the findings are one     *)
(* JSON value. A request or run loads it when it begins, may wait for a    *)
(* model or for CoinMarketCap, and writes the whole of it back. Versions   *)
(* and routines in detail are Watching's, a run's work is Investigation's. *)
(***************************************************************************)
EXTENDS Understanding, Planning

CONSTANTS
  Web,         \* processes that answer messages, of the page or Telegram
  Messages,    \* [message, reading]: what a model makes of it, Broken or None without one
  Remembered,  \* 8, the findings kept
  MaxTurns     \* bound: the messages of the conversation

TaskTypes ==
  {"one_shot_research", "persistent_monitor", "watch_plus_investigate", "scheduled_brief",
   "news_brief"}

\* ResearchTask, by its status.
Tasks(status) ==
  [status: {status}, mode: {"ask", "work"}, type: TaskTypes, assets: Seq(STRING),
   universe: {"", "top", "symbols"}, window: STRING, limit: Nat, action: STRING, output: STRING,
   conds: Seq([metric: STRING, operator: STRING, value: Int \cup {None}, asset: STRING]),
   caps: Seq(STRING), field: STRING, said: SUBSET {"tell", "investigate"}, follow: BOOLEAN]

MessageTypes ==
  [cues: SUBSET STRING, assets: Seq(STRING), mover: STRING, named: STRING,
   percent: Nat, limit: Nat, window: STRING]

\* The words that the phrases put into a task.
Words ==
  {"", "report", "notify", "investigate_market_reaction", "market_summary", "rank_gains",
   "rank_declines", "ranked_table", "market", "regime", "reaction", "anomaly", "discovery",
   "historical", "subject", "trade", "acknowledgement", "unusual_definition", "follow_up",
   "ranking", "action", "window", "year", "30d", "price_change_24h", "volume_change_24h",
   "relative_performance", "<=", ">="}

ASSUME ConversationAssumption ==
  /\ DefaultLimit \in Nat /\ Remembered \in Nat /\ MaxTurns \in Nat
  /\ Words \subseteq STRING
  /\ \A m \in Messages :
       /\ m.message \in MessageTypes
       /\ m.reading \in {None, Broken} \cup Tasks("ready") \cup Tasks("needs_input")

VARIABLES
  context,  \* Lens.context_json
  version,  \* what is made of the newest LensVersion, None if there is none
  runs,     \* LensRuns in the order they were queued
  turns,    \* how many messages came in
  pc, mine, \* each process's place in the code and its local variables
  memory,   \* the context, had every writer changed its own part only (history)
  stale     \* a context was written over a newer one (history)

vars == <<context, version, runs, turns, pc, mine, memory, stale>>

Empty == [pending |-> None, research |-> NoContext, findings |-> <<>>]

Idle == [message |-> None, seen |-> Empty, known |-> None, task |-> None, reading |-> None,
         draft |-> None, report |-> None]

Init ==
  /\ context = Empty /\ memory = Empty /\ stale = FALSE
  /\ version = None /\ runs = <<>> /\ turns = 0
  /\ pc = [p \in Web |-> "idle"] /\ mine = [p \in Web |-> Idle]

Persistent(held) == held # None /\ held.model # "task"

Goto(p, label, locals) ==
  /\ pc' = [pc EXCEPT ![p] = label]
  /\ mine' = [mine EXCEPT ![p] = locals]

Leave(p) == Goto(p, "idle", Idle)

\* lens.save(update_fields=["context_json"]): all of it, whatever it is now.
Write(seen, new) ==
  /\ context' = new
  /\ stale' = (stale \/ context # seen)

-----------------------------------------------------------------------------
(* ResearchContext *)

ApplyTask(research, task) ==
  [task |-> task,
   entities  |-> IF task.assets # <<>> THEN Unique(task.assets) ELSE research.entities,
   universe  |-> Else(task.universe, research.universe),
   timeframe |-> Else(task.window, research.timeframe)]

\* Mutant of RememberFinding: no finding is ever forgotten.
RememberEverything(findings, run) == <<run>> \o findings

RememberFinding(findings, run) == Upto(<<run>> \o findings, Remembered)

-----------------------------------------------------------------------------
(* A turn *)

Receive(p) ==
  /\ pc[p] = "idle" /\ turns < MaxTurns
  /\ turns' = turns + 1
  /\ \E m \in Messages :
       Goto(p, IF "keep watching" \in m.message.cues THEN "keep" ELSE "read",
            [Idle EXCEPT !.message = m.message, !.reading = m.reading,
                         !.seen = context, !.known = version])
  /\ UNCHANGED <<context, version, runs, memory, stale>>

\* _store_pending: the question is asked and its task waits for the answer.
AskBack(p, task) ==
  /\ Write(mine[p].seen, [mine[p].seen EXCEPT !.pending = task])
  /\ memory' = [memory EXCEPT !.pending = task]
  /\ Leave(p)

\* Mutant of ClearPending: a question that was answered stays.
LeavePending(p) ==
  UNCHANGED <<context, stale>> /\ memory' = [memory EXCEPT !.pending = None]

\* _clear_pending. Nothing is written when there is none in memory.
ClearPending(p) ==
  /\ IF mine[p].seen.pending = None THEN UNCHANGED <<context, stale>>
     ELSE Write(mine[p].seen, [mine[p].seen EXCEPT !.pending = None])
  /\ memory' = IF mine[p].seen.pending = None THEN memory ELSE [memory EXCEPT !.pending = None]

\* understand, which takes a model its time.
Read(p) ==
  /\ pc[p] = "read"
  /\ LET seen == mine[p].seen
         task == Understand(mine[p].message, seen.pending, seen.research, mine[p].reading)
     IN IF task.status = "needs_input" THEN AskBack(p, task)
        ELSE /\ ClearPending(p)
             /\ Goto(p, "plan", [mine[p] EXCEPT !.task = task, !.draft = seen.pending,
                                                !.seen.pending = None])
  /\ UNCHANGED <<version, runs, turns>>

\* _keep_watching: the task at hand, to be done from now on.
Standing(task) ==
  [task EXCEPT
     !.mode = "work", !.status = "ready",
     !.type = IF @ # "one_shot_research" THEN @
              ELSE IF task.conds # <<>> THEN "watch_plus_investigate" ELSE "persistent_monitor",
     !.caps = IF Contains(@, "anomaly") \/ Contains(@, "reaction") THEN @
              ELSE Unique(@ \o <<"anomaly", "market">>)]

KeepWatching(p) ==
  /\ pc[p] = "keep"
  /\ LET task == mine[p].seen.research.task
     IN IF task = None THEN Leave(p)
        ELSE Goto(p, "plan", [mine[p] EXCEPT !.task = Standing(task)])
  /\ UNCHANGED <<context, version, runs, turns, memory, stale>>

\* The task is planned and compiled, and becomes the research at hand. A plan
\* that is not accepted raises.
Plan(p) ==
  /\ pc[p] = "plan"
  /\ LET seen == mine[p].seen
         report == Compile(mine[p].task, seen.research)
         applied == [seen EXCEPT !.research = ApplyTask(@, report.task)]
     IN IF ~report.plan.accepted THEN Leave(p) /\ UNCHANGED <<context, memory, stale>>
        ELSE /\ Write(seen, applied)
             /\ memory' = [memory EXCEPT !.research = ApplyTask(@, report.task)]
             /\ Goto(p, "begin", [mine[p] EXCEPT !.report = report])
  /\ UNCHANGED <<version, runs, turns>>

Held(p) ==
  [model |-> mine[p].report.model, steps |-> mine[p].report.workflow.steps,
   task |-> mine[p].report.task, message |-> mine[p].message, draft |-> mine[p].draft,
   reading |-> mine[p].reading]

\* Mutant of NewVersion: a question asked of a standing job becomes the job.
NewVersionAlways(p) == TRUE

\* A question about a standing job, or one with the steps of the question
\* before, makes no version. known is the version the turn began with.
NewVersion(p) ==
  LET known == mine[p].known
      once  == mine[p].report.model = "task"
  IN \/ known = None
     \/ mine[p].report.task.mode = "work"
     \/ ~Persistent(known) /\ ~(once /\ known.steps = mine[p].report.workflow.steps)

\* attach_compiled_job or apply_compiled_edit, and the run that is queued.
Begin(p) ==
  /\ pc[p] = "begin"
  /\ version' = IF NewVersion(p) THEN Held(p) ELSE version
  /\ runs' = Append(runs, [stage |-> "queued", seen |-> Empty, held |-> Held(p)])
  /\ Leave(p)
  /\ UNCHANGED <<context, turns, memory, stale>>

-----------------------------------------------------------------------------
(* A run *)

StartRun(r) ==
  /\ runs[r].stage = "queued"
  /\ runs' = [runs EXCEPT ![r].stage = "running", ![r].seen = context]
  /\ UNCHANGED <<context, version, turns, pc, mine, memory, stale>>

\* The finding is put into the context that the run loaded at its start.
EndRun(r) ==
  /\ runs[r].stage = "running"
  /\ Write(runs[r].seen, [runs[r].seen EXCEPT !.findings = RememberFinding(@, r)])
  /\ memory' = [memory EXCEPT !.findings = Upto(<<r>> \o @, Remembered)]
  /\ runs' = [runs EXCEPT ![r].stage = "done", ![r].seen = Empty]
  /\ UNCHANGED <<version, turns, pc, mine>>

Next ==
  \/ \E p \in Web : Receive(p) \/ Read(p) \/ KeepWatching(p) \/ Plan(p) \/ Begin(p)
  \/ \E r \in DOMAIN runs : StartRun(r) \/ EndRun(r)

Spec == Init /\ [][Next]_vars
-----------------------------------------------------------------------------
(* What theorems ask of the messages *)

\* A task has all the fields of one.
IsTask(task) == DOMAIN task = DOMAIN Research

\* What a model makes of a message is a task. A task it asks about names the
\* question, and the question is not what to do: it may have given no
\* condition, and an answer that no model reads would only finish the task.
Asks(reading) ==
  reading \notin {None, Broken} =>
    /\ IsTask(reading) /\ reading.field # "action"
    /\ reading.status = "needs_input" => reading.field # ""

ReadingsAreAsked == \A m \in Messages : Asks(m.reading)

Clear(assets) == "" \notin ToSet(assets)

\* What the code finds in a text fits together: a ticker is never empty, the
\* coin that moves is found wherever there are coins (_trigger_asset), and a
\* correction has a coin in it by its own pattern.
MessageAims(message) ==
  /\ Clear(message.assets)
  /\ "reaction" \in message.cues /\ message.assets # <<>> => message.mover # ""
  /\ "correction" \in message.cues => message.named # ""

\* What a model names are coins, and it does not say that it goes on with the
\* research at hand (_task_from_llm).
ReadingAims(reading) ==
  reading \notin {None, Broken} => Clear(reading.assets) /\ ~reading.follow

MessagesAim == \A m \in Messages : MessageAims(m.message) /\ ReadingAims(m.reading)

\* The capabilities that a model names are those there are, and a history is
\* never the only one: nothing would then account for the quotes of a trigger.
ReadingsNameCapabilities ==
  \A m \in Messages :
    m.reading \notin {None, Broken} =>
      /\ ToSet(m.reading.caps) \subseteq CapabilityNames
      /\ ToSet(m.reading.caps) # {"historical"}

-----------------------------------------------------------------------------
(* Properties *)

Contexts ==
  [pending: {None} \cup Tasks("needs_input"),
   research: [task: {None} \cup Tasks("ready"), entities: Seq(STRING),
              universe: {"", "top", "symbols"}, timeframe: STRING],
   findings: Seq(Nat)]

TypeOK ==
  /\ {context, memory} \subseteq Contexts
  /\ Len(context.findings) <= Remembered
  /\ pc \in [Web -> {"idle", "read", "keep", "plan", "begin"}]
  /\ turns \in 0..MaxTurns /\ Len(runs) <= turns
  /\ \A r \in DOMAIN runs : runs[r].stage \in {"queued", "running", "done"}

\* The open question, the research at hand and the findings are what the
\* turns and runs made them, unless one wrote back a context that another
\* had changed since it was loaded.
OnlyStaleWritesLose == ~stale => context = memory

\* The words go on with the research at hand and look for no coin: "keep
\* watching", and in a follow-up the same period, "go deeper", a short "top N",
\* and "add" with nothing to add. "Go deeper on SOL" goes deeper on the old coins.
GoesOn(task, message) ==
  LET Has(cue) == cue \in message.cues
  IN \/ Has("keep watching")
     \/ task.follow /\ \/ Has("same") \/ Has("deeper")
                       \/ Has("short") /\ message.limit # 0
                       \/ Has("add") /\ message.named = ""

\* The coins that a message names, or the question that it answers.
Coins(message, draft) ==
  (ToSet(message.assets) \cup (IF draft = None THEN {} ELSE ToSet(draft.assets))) \ {""}

\* Those, and the word that stands for one: the coin that moves, and the name in
\* a correction, after "add" or after "what about", which is taken as it is
\* written ("what about bitcoin" is about BITCOIN, though its coin is BTC).
Meant(message, draft) == Coins(message, draft) \cup ({message.named, message.mover} \ {""})

\* A message that names coins, or answers a question about some, is never
\* researched for others only, whoever read it and whatever came before, unless
\* its words go on with the research at hand.
NamedCoinsAreResearched ==
  \A r \in DOMAIN runs :
    LET held == runs[r].held
    IN /\ Coins(held.message, held.draft) # {} /\ held.task.assets # <<>>
       /\ ~GoesOn(held.task, held.message)
       => ToSet(held.task.assets) \cap Meant(held.message, held.draft) # {}

\* What counts as unusual is settled for the coin of the question, in a job
\* that stands, when no model reads the answer.
AnswersSettleTheirQuestion ==
  \A r \in DOMAIN runs :
    LET held == runs[r].held
    IN /\ held.draft # None /\ held.reading = None
       /\ held.draft.field \in {"unusual_definition", "action"}
       =>  /\ held.model # "task" /\ held.task.conds # <<>>
           /\ \A i \in DOMAIN held.task.conds : held.task.conds[i].asset = Head(held.draft.assets)

\* A question never replaces a standing job, unless the job was set while the
\* question was being read.
StandingOutlivesQuestions ==
  [][version' # version /\ Persistent(version) =>
       \/ version'.task.mode = "work"
       \/ \E p \in Web : pc[p] = "begin" /\ pc'[p] = "idle" /\ mine[p].known # version]_vars

\* docs/architecture.md: "A normal question does not become a standing job."
QuestionsNeverStand ==
  \A r \in DOMAIN runs :
    LET held == runs[r].held
    IN held.model # "task" /\ held.reading = None /\ held.draft = None =>
         held.message.cues \cap {"watch", "reaction", "brief", "keep watching"} # {}
=============================================================================

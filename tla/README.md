# KryptoLens in TLA+

This directory holds the specifications of KryptoLens (the Django and Celery
application in this repository), the TLC configurations that check them, and
TLAPS proofs of the properties that matter most. Paths such as
`run_service.py:69` are under `src/apps/`.

    tlc -config RunSafety.cfg MCRunLifecycle.tla     # one of the runs below
    tlapm RunLifecycleProofs.tla                     # one of the proof modules

## 1. The system

KryptoLens answers questions about crypto markets. A user owns *Analysts*
(`Lens` rows). A message is compiled into a job definition (`LensVersion`),
executed as a run (`LensRun`) and answered with a `Result`, a
`VerificationRecord` and an `execution_receipt` `Artifact`. A Lens may also
watch: then Celery Beat starts a run of it every 15 minutes.

**Processes.** Web processes answer requests and page polls, and execute chat
questions themselves; Celery workers execute published runs; Beat publishes.
They share only the database and the broker. There is no `ATOMIC_REQUESTS`,
and only the deletion of a Lens (and an administrator's reset) opens a
transaction: every `save()` is visible by itself, every row read before it may
be stale after it.
No row is locked, no run is claimed. The broker acknowledges a message when a
worker takes it, so a worker that dies loses it.

### Inventory

| Component | State | Operations | What makes it correct | Module |
| --- | --- | --- | --- | --- |
| Run lifecycle (`run_service`, `monitoring/tasks`, `agent_runtime`, `lenses/runtime`, `monitoring/services`) | `LensRun`, `Result`, `VerificationRecord`, receipts, messages | create, publish, poll and take over, execute, verify, repair, file, close | every run ends, once, with a receipt for what it found | `RunLifecycle` |
| Event cooldown and receipts (`monitoring/services`, `lenses/runtime`, `notifications/telegram`) | `Event`, `Notification`, counters | scan, promote, notify, stamp | a repetition is silenced, nothing else is | `EventCooldown` |
| Watching (`conversation_service`, `services`, `routine_service`, `agent_service`) | `Lens.status`, `LensVersion`, `Routine`, `Job` | message, keep watching, confirm, edit, pause, resume, toggle, Beat | the rows agree; what is watched is due | `Watching` |
| Calculations (`calculations`, `observations`, `engine.compare`) | none | sort, rank, filter, mean, breadth | missing data is not zero | `Calculations` |
| Compilers (`job_compiler`, `task_compiler`, `compiler`) | none | task to workflow, policy and job; edits | standing jobs only when asked for | `Workflows` |
| Plans, permissions (`agent`, `capability_plan`, `permissions`, `tools`, `research/planner`) | stored plan | plan, validate, project | only registered tools; a run stays within its plan | `Planning` |
| Policy engine, scoring (`engine`, `scoring`, `planner`) | none | evaluate, score | an event needs a condition that was met | `PolicyEngine` |
| Market data (`cmc/`, history and headlines) | in-memory cache, `CmcCallLog` | cached fetch, normalise | a coin's data is the coin's | `CmcData` |
| Capabilities (`capabilities/`) | none | claims from observations | a claim says what was observed | `Capabilities` |
| Verification (`verification`, `research/finding`, evidence of `agent_runtime`) | `Evidence`, `VerificationRecord` | check, retry, support claims | no unsupported claim passes | `Verification` |
| Workflow executor (`workflow_executor`, `lenses/runtime`) | locals of a run, `Observation` | trigger, steps, present | result, rows and evidence are of one attempt | `Investigation` |
| Understanding (`conversation_agent`, `research/context`) | none | read a message, an answer, a follow-up | what was named is what is researched | `Understanding` |
| Research context (`conversation_service`, `agent_runtime`) | `Lens.context_json` | merge a turn, merge a finding | no turn is lost | `Conversation` |
| Telegram, settings, deletion (`linking`, `inbound`, `notifications/views`, `agent_service`, `create_draft_lens`) | `UserPreference`, the Lenses of an account | issue and claim a code, connect, create, select, delete | a chat speaks for one account; a selected Lens exists | `Desk` |
| Routine schedule (`routine_service.py:18-31`) | `last_run_at` | due or not | once a day, none missed | |
| Status views, live status, wording, accounts | none of their own | derive a label, word an answer | | |

**How they meet.** `Understanding` reads a message, `Planning` plans its task
with the workflow that `Workflows` compiles, and `Conversation` keeps the
question, the research and the version; the version, routine and job rows are
`Watching`'s. A run is created: `RunLifecycle` has who executes it, when, how
often; `Investigation` what one execution does with its data: it fetches
(`CmcData`), steps (`Calculations`), scans (`PolicyEngine`), claims
(`Capabilities`) and verifies (`Verification`). What a match stores and sends is
`EventCooldown`'s. Beat asks Watching which routines are due. Polls read the run
and may take it over. `Desk` has the accounts around all this.

**What is hard.** Two processes execute one run; a poll takes over a run whose
message still waits; an edit lands between two reads of the newest version; a
repair reopens a run that was shown as complete; look-then-create without a
constraint (events, routines, version numbers); whole-row saves from memory;
processes and messages that are lost; windows cut at the hour and at midnight; a
conversation that chat turns and runs write whole; data that changes between two
calls of one run; a webhook that delivers again.
`PROJECT.json` lists each hazard at its line, with the property that would
catch it.

## 2. What is modelled

### RunLifecycle: one run, from request to receipt

A step is the code between two points where another process can be noticed: a
database write, or a read whose value is used later. `pc[p]` is the place of
process `p`, `mine[p]` its locals, the in-memory copy of the row included.

| Code | Actions |
| --- | --- |
| `RunService.queue_now`, `create_queued`, `enqueue` | `Request`, `Create`, `Publish`, `PublishFails`; `Chat` for a question, which needs no broker |
| `kick_if_stranded`, called by every poll | `Kick` |
| `run_active_lenses`, `run_lens` task | `Beat`, `Take` |
| `AgentRuntime._loop` | `Start`, `Plan`, `Repair`, `Accept`, `Persist`, `Receipt`, `Conclude` |
| `LensRuntime._execute`, `_finish_run`, `_fail`, `_wrap_monitor_result` | `Execute`, `Observe`, `FinishRun`, `Notify`, `Fail`, `Wrap` |
| `MonitoringService.run_lens`, as far as it changes the run | `LoadPolicy`, `Fetch`, `MonitorDone`, `Fail` |
| `apply_compiled_edit`, as far as runs notice | `Edit` |
| loss of a process or a message | `Lose` (external) |

Abstracted: what a workflow finds is chosen from the kinds and qualities that
`verify_result` and `_needs_repair` tell apart; the two seconds that
`kick_if_stranded` waits may always have passed; conversation items, agent
tasks and evidence rows are left out.

**RunContract** is the abstract specification: a run has a phase (absent, open,
closed) and the set of hands that hold it. Open runs are held; closed runs that
were let go are history. `RunLifecycle!KeepsContract` instantiates it with
`phase` and `hands` computed from the stages, the processes and the queue.

### EventCooldown: from a match to the message about it

| Code | Actions and operators |
| --- | --- |
| `event_fingerprint` | `Bucket`, `Fingerprint`, over minutes of a real clock |
| `MonitoringService.run_lens`, the scan | `Begin`, `Finish` |
| `_promote`, `_promote_trigger_event` | `Look`, `Create`: the look and the creation are two steps, the text in between is written by a language model |
| `notify_event` | `StayQuiet`, `Queue`, `Send`, `SendFails`, `Stamp` |
| failures, lost workers, repairs | `Fail`, `Die`, `Begin` of a second attempt |

Which assets match is an input. A run that two processes execute counts as two.

### Watching: versions, routines and the assignment

Every request that changes what a Lens watches, one database statement a step:
messages (`Message`, then `Number`, `Insert`, `Sync`, `Create`, `UpsertJob`,
`Ensure`, `Activate`, `Live`), "keep watching this" (`Keep`), `/confirm`
(`Confirm`, `Confirming`, `Point`), the policy editor (`EditIntent`), pause,
resume, the toggle on the routine's page, Beat with `should_run_routine`
(`Due`), and the part of a run that writes the `Job` row (`Take`, `UpsertJob`).
`Insert` fails when another request took the number (the unique constraint of
`LensVersion`). `seen` in a process's locals is the status of the Lens as the
request loaded it.

Abstracted: what a message compiles to is chosen freely from `ask` (one-shot),
`watch` and `brief` (scheduled); the clock window of a schedule is always open;
`news_unavailable`, deletion and conversation items are left out. `Confirming`
compiles a new version only below the bound `MaxVersion`.

### Investigation: one run and its data

The seven modules of operators are functions of the code without state. A
`RECURSIVE` operator appears in none of them.

| Module | Code |
| --- | --- |
| `Calculations` | `MarketObservation`, `compare`, sorting, ranking and means with values that are missing (`None`) |
| `Workflows` | `ClarifiedTask`, `WorkflowDefinition`, `workflow_from_task`, `compile_from_task`, `_apply_edit` |
| `Planning` | `ResearchPlanner`, `CapabilityPlan` with its validators, `build_agent_plan`, `_plan_for_run` |
| `CmcData` | `normalize.py`: stablecoins, tickers with namesakes, series, headlines |
| `PolicyEngine` | `evaluate_policy`, `score_candidate`, `plan_query`, the scan |
| `Capabilities` | `accepts`, `required_tools` and `analyze` of the six capabilities, `merge_capability_payload` |
| `Verification` | `verify_result`, `_needs_repair`, `claim_supported`, evidence, findings |

`Investigation` is the run that uses them: `PlanRun`, `Execute`, `ReadTrigger`,
one action for each kind of step (`FetchListings`, `FetchQuotes`, `FetchContext`,
`FetchContent`, `FetchHistory`, `SortStep`, `FilterRelative`, `FilterStep`,
`LabelStep`), `Publish`, the policy path (`FetchScan`, `ScanPolicy`), `Verify`,
which repairs or concludes, the refusals of CoinMarketCap, and `MinutePasses`,
which empties the adapter's cache. `Call` is `CMCAdapter._get` with
`persist_call`. Between two calls the market may be any of `Markets`.

Storing may fail too, between any two statements, and what was stored stays:
`WaitFails` (the result of a condition that is not met), `PublishFails` (some or
all of the rows, the result, the event, the end of the run, the message about it)
and `ScanFails` (some of the events, the snapshot of ranks). `_fail` then files an
`error` as the newest result (`FileError`), and a message that speaks of an
unavailable service has the run repaired, on top of what is there. `torn`, which is
history, says that an attempt failed once it had begun to store its rows.

Abstracted: a claim is its kind, the coins and the number it names; a mean is
its sum and count; an error is one that says the service is unavailable or
another. Historical windows name their seconds, so those calls never share a key.
Permissions are the defaults; steps that no compiler emits are left out, and so is
the policy logic OR, which no compiler writes. What a run notes in the conversation
while it fails (`record_error`) is left out.

### Conversation: what a message means and what is kept of it

`Understanding` takes a message as the set of its cues, one for each phrase test
of `conversation_agent.py`, with the coins, percentage, limit and window that the
code extracts. `UnderstandHeuristic` has the tests in the order of the code.
`FollowUp` is `resolve_follow_up`. It comes with the research that it means, which
`_lock_reaction_turn` does not change (`LockFollowUp`); the lock changes what is read
anew (`LockReactionTurn`). `MergeAnswerHeuristic` is the answer to a pending
question, `UnderstandModel` and `MergeAnswerModel` what the code makes of a
model's reading, which may be `Broken` or about coins nobody named.

`Conversation` has `Lens.context_json` and its writers: a turn (`Receive`, `Read`
with `AskBack` or `ClearPending`, `Plan`, `Begin`), "keep watching this"
(`KeepWatching`), and the runs (`StartRun`, `EndRun`). Every write is of the whole
value that its writer loaded. `memory` is the same value had each writer changed
its own part only; `stale` says that one wrote over a newer one.

### Desk: accounts, chats, codes and Lenses

| Code | Actions |
| --- | --- |
| `telegram_webhook`, `handle_telegram_update`, `_dispatch` | `Deliver`, `FindLens`, `Pick`, `Talk`, answered (`Answer`) or raised (`Raise`, and delivered again) |
| `claim_link`, `ensure_link_code` | `Clear`, `Claim`, `Issue` |
| `settings_page` | `Issue`, `Disconnect`, `SaveSettings` |
| `create_draft_lens`, `AgentService.create`, `create_draft` | `Look` (is there a blank draft?), `Create` |
| `AgentService.select`, `delete` | `Select`, `Delete`, `DeleteRefused`, `Remaining` |

A Lens is `blank` while it is a draft without a version and a request; the newest
blank one is given out again when a draft is wanted (`/create New Lens`, the page
for a new Lens). An update carries argument 0 for what no row can have: `agent:`
followed by a word, or a name that is too long for its column on PostgreSQL; the
database raises each time (`Unfit`). `Talk` may save the Lens or
give it a version, and then answers or raises, before or after it did; what else
it does is left to `Conversation` and `Watching`. `DeleteRefused` is the deletion
that a run's result, stored meanwhile, protects the version from. `joined`, `typed`,
`raced` and the fields `sole`, `talking`, `erased` of an update are history.

## 3. What the runs check

Runs that pass:

| Run | Instance | Shows |
| --- | --- | --- |
| `RunSafety` | 1 run, 1 web process, 1 worker, 2 versions of which the second monitors a policy, 1 repair, 1 loss; 1.26M states | `ResultAtHand`: nothing is verified or filed without a result; `SettledWhenIdle`: an unsettled run is owed an end by a process or waits at the broker, unless something died; `ReceiptOfNewestResult`: once nobody works on a run, its newest result has the verification and the receipt; `CompleteHasReceipt`; `FinalStays`: a run that ended is not touched again |
| `RunPromises` | 1 run, 1 web process, 1 worker, 1 repair, 1 loss; 190k states | `EveryRunEnds`: every run reaches a terminal stage and stays there, unless something of it died; `StrandedRescued`: a chat question or check lost while queued is taken over by polls; `KeepsContract`: the refinement of `RunContract` |
| `EventCooldown` | 2 scans with a repair each, 1 asset, a cooldown of 25 minutes, the clock over half an hour | `SuppressionIsRecent`: only a match less than a cooldown old silences another; `DuplicatesNeedOverlap`: one fingerprint twice means that two scans overlapped; `CountsItsReceipts`; `StampedWasSent` |
| `Watching` | 2 concurrent requests of every kind but toggle and run, up to 3 versions; 979k states | `AssignmentMatchesLens`, `RoutineMatchesJob`: when all is quiet the `Job`, the newest routine, the newest version and the status of the Lens agree, from the first undisturbed standing request on; `OwnsItsVersion`; `SecondRoutineRaces`: a second routine needs two requests that met |
| `WatchRuns` | a request, a worker, Beat, routine toggles and crashes, three kinds of jobs; 844k states | `AssignmentMatchesLens` whatever runs, toggles and crashes do |
| `Investigation` | the reports of 9 questions, 4 standing watches and 6 edits (of a reaction, of a policy without steps, of a summary), the standing ones with and without their trigger, and four questions asked of a standing watch; 3 markets (one empty, one with a namesake of Bitcoin and a stablecoin), 2 histories, 2 lots of headlines; failures between any two statements that store; 61.5k states | `PlansAreAccepted`: what the compilers and edits make never fails a plan's validators; `CallsArePlanned`: a run calls only what its plan names, but for the Fear & Greed index of an edited version; `OneAttemptObserved`: the stored rows are those of one attempt unless one failed after it began to store, and a result that shows rows is about the ones stored last; `TableIsExtreme`: a ranking of moves shows the largest ones; `NoFactFromNothing`: a supported table rests on observations and its claims repeat them; `NamesakesStayOut`; `MissingHistoryIsNamed`: an answer names the history it lacks, and nothing is claimed over its window; `EventsWereRead`: an event's coin met the trigger or a condition in the attempt that stored it |
| `Conversation` | 2 processes, 3 messages, of 8 kinds and readings (among them "go deeper on SOL", a short "top 50", "what about bitcoin", and an "also check" that adds nothing), the runs they start; 1.10M states | `OnlyStaleWritesLose`: question, research and findings are what the turns made them unless a context was written over a newer one; `NamedCoinsAreResearched`, also when a model read the message, unless the words go on with the research at hand; `AnswersSettleTheirQuestion`; `StandingOutlivesQuestions` |
| `Desk` | 2 accounts, 2 chats, 2 processes, 4 requests of which at most 2 are Telegram messages, 1 loss; 801k states | `ChatHasOneAccount` and `CodesConnectOnce`, unless two claims overlapped, a stale form was saved or a chat number was typed in; `ActiveLensIsOwn`, whatever is deleted meanwhile; `DeletesTheLensTalkedTo`: a /delete that is delivered once and alone deletes what the chat was talking to; `UpdatesAreAnswered`: no loss, no deletion and no update that raises on every delivery keeps another update from being answered |

Every module's `TypeOK` is checked by one of its runs.

Why these bounds are enough to be interesting: the lifecycle's hazards need one
run, two processes on it, one edit between two reads and one repair, and all
of these happen together in `RunSafety`. The cooldown's need two scans and a
window edge between them; its theorems are about every cooldown and clock.
Watching's need two requests that both look before either writes. An
investigation's need a market that changes between two calls, a call that is
refused, a minute that ends, a failure while its rows are stored, and one repair,
for every kind of report. The conversation's need a question, its answer, and a
turn or run at the same time: three messages and two processes. At the desk, a page
that loads a row, a claim that changes it and the form that brings it back are three
requests of one account, and the other account needs a code of its own: four. Two
messages are two claims, or a /delete, which a page and a loss disturb, beside an
update that raises on every delivery. Its theorems are about any number of either.
`RunSafety`, `RunPromises`, `EventCooldown` and `Conversation` do not check for
deadlock: with the bounds used up they stop. The other runs do.

Properties whose name says *quiet* or *settled* speak of states where nobody is
in the code; TLC reaches thousands of them, and for each property
`PROJECT.json` has a mutant, a plausible slip in one mapped definition, under
which TLC finds it violated.

### Where the code does other than the documents say

Each of these runs checks one statement of the documentation and finds the
behaviour that contradicts it.

| Run | Statement | What happens |
| --- | --- | --- |
| `DocReceiptNamesItsVersion` | README.md:54, old runs stay on the version that produced them | `_loop` reads the version once, every execution again; an edit in between files a result under another version |
| `DocKeptWatchIsDue` | README.md:49, a kept watch is run every tick | a routine that `/confirm` pinned to a question stays pinned and is never due |
| `DocCapListHoldsTheTop` | conversation_agent.py:361 and README.md:134, a list of the top coins by market cap | its task asks for a ranked table, which `workflow_from_task` takes for a ranking of losers; `_market_cap_workflow` is not reached |
| `DocQuestionsNeverStand` | docs/architecture.md:3, a question does not become a standing job | `resolve_follow_up` copies the mode of the task at hand, so a short question after a watch is compiled as a new standing version |

### Behaviour that the passing runs characterise

Their premises are exact: what a property excludes, the model does.

* Two overlapping scans may store two events with one fingerprint, and two
  overlapping requests may create two routines. A window of the cooldown ends at
  the clock, so two events may be minutes apart on both sides of its end.
* `kick_if_stranded` may execute a run that waits for a worker or that another
  process plans: two processes then execute it, and it still settles.
* A run is stored as complete before it is verified (`FinishRun`), so completeness
  is final only for a run that nobody handles. The repair of a question has lost
  the mode of its run and executes the standing workflow, against the plan of the
  question and with calls outside it.
* A message about a result that raises anything but a `TelegramError`, or an event
  that cannot be stored, leaves rows and result under an `error`; if that is repaired,
  the rows of two attempts are in one run. What the page shows is about the newer
  ones (`OneAttemptObserved`). No property forbids the mixture.
* A repair within a minute reads the same cached empty listing. A trigger that was
  not read ends as `no_result`, which passes. A `market_summary` and an event are
  supported without observations. A table of gains in descending order fails the
  ranking check, which knows one direction, and is filed as unsupported, without
  a repair; a policy scan's event carries the claims of a scan without stored rows.
* A filter against Bitcoin without a reference keeps every coin.
* `build_agent_plan`, which plans an edited version, knows no Fear & Greed: an edited
  summary, or an edited policy that speaks of ranks, reads the index outside its plan
  (`Unplanned`). Nothing refuses the call, because tools are checked before the run.
* The plan of a task covers its calls because the readers of messages name `market`,
  or read the whole market, wherever a condition or a scan needs it (`CallsAreAccounted`).
  A reading with other capabilities can give a plan that misses its own trigger or scan.
* A pending question or a finding is lost, or comes back, when a turn and a run
  write the context they loaded: `OnlyStaleWritesLose` says that nothing else loses
  them, not that it cannot happen. "Keep watching this" leaves a question open.
* Some words go on with the research at hand and look for no coin (`GoesOn`): "the
  same period for ETH", "go deeper on SOL", a short "top 20 ...", and an "also check"
  with no ticker in it keep the coins of before, and "keep watching WIF" watches
  those. "What about bitcoin" is taken as it is written: the research is about
  `BITCOIN`.
* A reaction message without a coin, locked by `_lock_reaction_turn`, becomes a
  policy about every coin. A valid reading by a model is not locked, and neither is
  the research of a follow-up.
* A `/delete` that Telegram delivers again deletes the next Lens. A settings form
  loaded before a claim brings the spent code back, and two claims that overlap
  connect two chats by one code. A chat number typed into two accounts lets both speak
  to it. The properties of `Desk` leave these cases out by name (`sole`, `raced`,
  `typed`): they say that nothing else does it.
* `agent:` with a word behind it raises in the database, nothing catches that, and
  Telegram gets a 500 for each delivery of that update. The same may happen to a
  message that `ConversationService.handle` cannot work with.
* Two requests for a draft at the same time may both find none and make two.

### Fairness

`FairSpec` assumes weak fairness of the next step of every process, and of
`Take` in every worker: a process that is executing code keeps executing, and
Celery workers take messages. Requests, edits, Beat and losses get none.
`StrandedRescued` has its own premise, `Polled`: the page of the run stays open
and polls, as `run_status.html` does every second (`hx-trigger`); without a
page nothing rescues a stranded run. `EveryRunEnds` does not use it. It excludes
runs that lost something (`lost`), because the code has no other recovery:
acknowledged messages are not delivered again.

`Desk` assumes weak fairness of `Handle` for each process, as the server goes on with a
request it has received, and strong fairness of `Retry`: Telegram delivers an update until
the webhook answers 200, and while some updates are answered with 500 every time
(`Poison`) it does not spend all of its deliveries on these. Weak fairness would not say so:
a process that is busy with an update that raises cannot take another, so `Retry` is
enabled again and again but never for long. That is an assumption about Telegram,
which the repository does not hold. `UpdatesAreAnswered` promises nothing for `Poison`
updates; without that exception TLC refutes it. Users, losses and refused deletions get
no fairness; how often an answer is lost is bounded by `MaxLosses`. `Investigation` and `Conversation` state no fairness: their
properties are about safety.

## 4. What is proved

Proved by TLAPS for every value of the constants that satisfies the module's
named assumption (`ConstantsAssumption`, `CooldownAssumption`, `WatchingAssumption`,
`DeskAssumption`, `InvestigationAssumption`, `ConversationAssumption`). The last says that
messages, and what a model makes of them, are typed; TLC evaluates all of them. Seven
theorems name a further hypothesis on the messages, requests or markets, which the checked
instance satisfies (for the messages, `MessagesFit` in `MCConversation` has TLC evaluate it).

| Theorem | Statement |
| --- | --- |
| `RunLifecycleProofs!TypeCorrectness` | `Spec => []TypeOK` |
| `RunLifecycleProofs!ResultIsAtHand` | `Spec => []ResultAtHand` |
| `RunLifecycleProofs!NoRunForgotten` | `Spec => []SettledWhenIdle` |
| `RunLifecycleProofs!FinalRunsStay` | `Spec => FinalStays` |
| `RunLifecycleProofs!NewestHasReceipt`, `CompleteRunsHaveReceipts` | `Spec => []ReceiptOfNewestResult`, `Spec => []CompleteHasReceipt` |
| `RunLifecycleProofs!LifecycleKeepsContract` | `Spec => KeepsContract` |
| `RunContractProofs!OpenRunsAreHeld`, `ClosedRunsAreHistory` | what the contract promises, hence what the lifecycle does |
| `EventCooldownProofs!WindowIsShort` | a time lies less than a cooldown after the start of its window |
| `EventCooldownProofs!TypeCorrectness`, `SuppressedIsRecent` | `Spec => []TypeOK`, `Spec => []SuppressionIsRecent` |
| `EventCooldownProofs!DuplicatesOverlap`, `StampsAreTrue`, `CountersAreTrue` | `Spec => []DuplicatesNeedOverlap`, `Spec => []StampedWasSent`, `Spec => []CountsItsReceipts` |
| `WatchingProofs!TypeCorrect`, `VersionsAreOwned` | `Spec => []TypeOK`, `Spec => []OwnsItsVersion` |
| `WatchingProofs!RoutinesOnlyRace` | `Spec => SecondRoutineRaces` |
| `WatchingProofs!AssignmentAgrees`, `RoutineAgrees` | `Spec => []AssignmentMatchesLens`, `Spec => []RoutineMatchesJob` |
| `DeskProofs!TypeCorrect`, `SelectionsHold` | `Spec => []TypeOK`, `Spec => []ActiveLensIsOwn` |
| `DeskProofs!ChatsSpeakForOne`, `CodesAreSpent` | `Spec => []ChatHasOneAccount`, `Spec => []CodesConnectOnce` |
| `DeskProofs!DeletionsAreAimed` | `Spec => []DeletesTheLensTalkedTo` |
| `ConversationProofs!MemoryIsShared` | `Spec => []OnlyStaleWritesLose` |
| `ConversationProofs!StandingJobsStay` | `Spec => StandingOutlivesQuestions` |
| `ConversationProofs!AnswersSettle` | if `ReadingsAreAsked`, `Spec => []AnswersSettleTheirQuestion` |
| `ConversationProofs!ConversationTypes` | `Spec => []TypeOK` |
| `ConversationProofs!NamedCoinsAreSought` | if `MessagesAim` and `ReadingsAreAsked`, `Spec => []NamedCoinsAreResearched` |
| `ConversationProofs!TurnsArePlanned` | if `ReadingsNameCapabilities`, `Spec => []NoPlanIsRefused` |
| `InvestigationProofs!TypeCorrect`, `AttemptsAreNotMixed` | `Spec => []TypeOK`, `Spec => []OneAttemptObserved` |
| `InvestigationProofs!EventsHaveCauses` | `Spec => EventsWereRead` |
| `InvestigationProofs!HistoriesAreNamed`, `FactsAreObserved` | `Spec => []MissingHistoryIsNamed`, `Spec => []NoFactFromNothing` |
| `PlanningProofs!PlannersPass` | the plan of a task passes its own validators |
| `InvestigationProofs!PlansPass` | if `RequestsArePlanned`, `Spec => []PlansAreAccepted` |
| `InvestigationProofs!RankingsAreExtreme` | if `RankingsAreCompiled`, `Spec => []TableIsExtreme` |
| `InvestigationProofs!NamesakesAreLeftOut` | if `TickersHavePrincipals` and `ComparisonsAreQuoted`, `Spec => []NamesakesStayOut` |
| `InvestigationProofs!ComparisonsFetchQuotes` | what is compiled from a task, and what edits make of it, compares only coins fetched by their tickers |
| `InvestigationProofs!CallsStayPlanned` | if `RequestsAreAccounted`, `Spec => []CallsArePlanned` |

**Lifecycle.** `TypeOK` carries more than types: a process has a run exactly
while it is in the code (`ProcsOK`). `ResultAtHand` is inductive together with
it. `SettledWhenIdle` is the conjunction over runs of `Tended`: each action is
shown to keep a run settled, at the broker or lost, or to hand the debt of a
terminal stage (`Owing`) on; the step that matters is that the places after the
debt is paid (`notify`, `wrap`, `verify`) only reopen a run by going back to a
place that owes. `FinalStays` follows step by step from the type invariant: an
action that writes a run's rows is of a process that handles it, a `Take` of a
message in the queue, or a `Kick` of a run that is queued.

**Receipts of runs.** The invariant `AllFiled` says of every run with a result that
it is carried (waits at the broker, is lost, or a process may still execute or
accept it), or that a process is filing the newest result, or that the newest
result is filed. It speaks of the newest result whoever stored it: a process that
leaves the loop takes that one (`AcceptStaysFiled`), so when two processes work
on a run, the last to leave files what the page shows.

**Refinement.** `phase` and `hands` are computed from the state. For every
action one lemma names the contract's action it implements (`Kick` is `Join`,
`Publish` is `Pass`, `Repair` is `Reopen` or a stutter, ...); a step of a
process that keeps its run changes only the phase, and one that leaves needs
`SettledWhenIdle` to show that it leaves the run closed, held or lost.

**Cooldown.** `SuppressionIsRecent` is not inductive. The invariant adds that no
event and no scan has looked ahead of the clock (`LookedBack`) and that what was
suppressed has an event with its fingerprint, looked for no later
(`HasItsEvent`). `WindowIsShort` gives the arithmetic: two times in the same
window differ by less than the cooldown. It rests on division lemmas about
`Floor`, and on a cooldown above an hour being rounded down to hours.

**Receipts of events.** The three other invariants rest on one observation, `Overtaken`: an
event that appears between a run's look and its own event, with the same
fingerprint, is of another run that scanned at the same time (`SeenTogether`).
Hence the event a run stores is new (`NewEvent`), which makes the receipts
countable (`CountsSoFar`) and the notification of an event the only one
(`NoteInHand`).

**Watching.** The invariant `Inv` says for every place in the code what a process
there knows (`Placed`): that the version it works with exists and is its own, that
the Lens has a version, that the routine it holds exists. Rows only grow, so a
process that stands still keeps what it knows (`StaysPlaced`); each action is
shown to bring its own process to a place where it may be. `AloneOK` adds that a
process which had the Lens to itself only goes to create a routine, or writes the
first version, while there is none: `Ready` gives that a Lens without a version
has no routine. `RoutinesOnlyRace` follows, as only `Create` appends a routine.

**Agreement.** `AssignmentMatchesLens` speaks of quiet states only, so the invariant
`CalmInv` says for every place in the code what a process knows there (`Knows`)
that had the Lens to itself and either began when all agreed or sets a standing
job (`Trusted`). The second kind begins from rows of which nothing is known: it is
enough that it read the status, that `Sync` gives the newest routine the kind of
the version it wrote, and that `AssignCalm` writes all three fields of the `Job`
at once. Whoever meets another process, or vanishes, leaves nobody trusted.

**Desk.** What belongs to whom is never written down in one place: a code, and a Lens,
may stand in a row, in the copy of a row that a form holds, and in the locals of a
claim. `CodesAreOwned` and `LensesAreOwned` say that *some* assignment of codes (of
Lenses) to accounts agrees with all of these; issuing extends the assignment, everything
else keeps it. `TypeOK` needs the first, because it says that no code is in two rows,
and `ActiveLensIsOwn` the second, with the fact that a deletion clears the row before
the Lens is gone, and that a blank draft is on some desk (`BlanksExist`), hence on the desk
of whoever finds it. `ChatsSpeakForOne` follows the processes between `Clear` and `Claim`:
outside a race, the one that has cleared finds its chat in no other row
(`ClaimsAreAlone`). `CodesAreSpent` adds that the code of a row has connected nothing
(`CodesAreFresh`). `DeletionsAreAimed` rests on `SoleUpdates`: as long as an update is
the only thing going on, at most one process has it, and the Lens that process has found
is the one that was on top or selected when the message was sent (`Aimed`).

**Conversation.** `OnlyStaleWritesLose` becomes inductive with the type of `stale`: a
write that is not stale found what its turn had loaded, so what it writes is what the
writers' own parts add up to (`FreshWrite`). `StandingOutlivesQuestions` follows action
by action, once it is known who is in the code (`Placed`). Neither asks anything of the
readings: a model may answer whatever it likes.

**Investigation.** `Invariant` has five parts. `Typing` says of every step what it leaves
in the locals. `FiredFirst` says that a workflow with a trigger runs its steps only after
the trigger fired on what this attempt read. `StoresInOrder` says that what is stored is what
the attempt at hand observed, until an attempt fails while it stores (`torn`), and that a result
with rows is about the end of what is stored: every attempt only appends. `HistoryIsLast`
says that a history is there or missing, never both, and that it was asked for by the last
step that calls, so that no refused call stands between it and the result: this needs
`IsCompiled`, which is what the compilers write. An error after the result was stored replaces it;
`ResultRests` says of every other result that it names what is missing, and of all that each
of their claims repeats a stored observation. The last rests on one lemma for each capability (`MadeFrom`), over sequences of any length.

**Rankings.** A ranking filters what moved in its direction, sorts it and cuts it. The
lemmas of `PlanningProofs` show that a stable sort is a strict total order on places, hence
that it arranges every sequence without losing a member, and that what it cuts lies
no further than what it keeps (`Leads`). `RankedSoFar` carries that from step to step, from
the listing to `TableOf`. A coin without a value never reaches the sort, as no comparison
with a missing value holds. `RankingsAreCompiled` says that a version which shows gains or
declines was written for a task and at most resized: an edit that keeps "only what fell
more than BTC" would filter a ranking of gains by losses, and then the table is not extreme.
A ranking that is asked of a standing watch executes its own steps but is presented as
the version says; `TableIsExtreme` speaks of versions that show a ranking.

**Plans.** `PlannersPass` is about any task that names known capabilities, with any workflow:
the tools of capabilities and steps are all accounted for (`ToolsAreAccounted`). One case
is excluded (`NamesCapabilities`): a task that names `historical` alone and has a trigger
would be refused, because nothing accounts for the trigger's quotes. The readers
of this code always name `market` with it (`TurnsArePlanned`); only a model's answer could
name it alone.

**Namesakes.** `ComparesRanked` says of a workflow that compares coins that its observations
are of ranked coins from the first step on. It speaks of what an attempt observes; what an
attempt that failed left stored beside it is `OneAttemptObserved`'s matter. `get_quotes` keeps the best listing of each
ticker, and a ranked and priced coin is better than anything without a rank
(`BestIsRanked`), also when only some tickers are asked for (`AskedPrincipals`); sorts and
filters add nothing. Two hypotheses: `TickersHavePrincipals`, that the market knows no ticker
by unranked or unpriced assets alone (then the code keeps one of those, as there is nothing
else), with ranks below the 10^9 that `BetterListing` takes for none; and
`ComparisonsAreQuoted`, that a comparison is not made of listings, which keep every
namesake. The second is what `ComparisonsFetchQuotes` proves of everything that the
planner writes and edits change.

**Calls.** `CallsKept` says that the tools called so far are in what the run may call
(`MayCall`), that only a workflow without steps is scanned and that only one with a condition
reads its trigger. Each action calls at most one tool more (`CallsOne`), and `Covers` says
that the plan has it: the tool of a step, the quote of a reference or a trigger, the
scan's. `EditsAreCovered` proves `Covers` of every edited version, whatever was edited,
because `build_agent_plan` always adds `market`; `PlansAreCovered` proves it of every
planned one whose task is accounted for (`CallsAreAccounted`). That hypothesis is needed: TLC finds tasks
whose capabilities name neither. The steps themselves need no hypothesis, as the planner adds
their tools, and it never writes a reference or a context (`TasksAreSimple`, `NoContextIsRead`).

**Answers.** `Answering` follows a question from the memory to the job that settles it. A
context that anyone has loaded holds no question or one that `Waits`: a task that is asked
what to do already has its conditions, all of the coin it is about. A turn between reading
and compiling carries a task that `Settles` the question it took up, and the planner keeps
the conditions and the way of working (`CompiledTask`). `Understood` goes through every way
to read a message: the phrases, the merged answer, the short follow-up, the reaction that is
locked to its trigger, and the model. `ReadingsAreAsked` is about the last: a model that asks
names the question, and does not ask what to do. The prompt lets it ask that
(`conversation_agent.py:46`), and it may do so without a condition; if the next answer is then
read without a model, because the configuration changed in between, `_finish_work` makes a job
with none. Where no model is configured the hypothesis says nothing; where one reads every
answer the property says nothing.

**Types of a conversation.** `Typing` says what each turn and run has at hand: a context
that was written, and a message and a task typed as the next step needs them. The work is in
the readers: each way of `Understanding` to make a task is shown to make one that
`ResearchTask` declares, out of the words of `Words`, the message, the research at hand and
the question, and to ask about it or not as `Contexts` says of what is kept. `Counting`
adds that a turn on its way, and each run, is a message that came in, so that there are
never more runs than messages.

**Coins.** `NamedCoinsAreResearched` speaks of runs, `Aiming` of everything before them. A turn
between reading and planning `Found` a coin of its message or of the question it answers, and
if the planner would let it inherit the coins of the research at hand, it has some already
(`Sought`): `Inherit` takes over another coin only for a task that has none. A question
that is kept about what to do has coins to answer with. There is one lemma for each way of
reading: the phrases (`PhrasesAim`), the follow-up (`FollowUpAims`), the reaction locked to
its trigger (`LockAims`), the model (`ModelAims`, whose task is replaced or completed by what
the code finds in the message itself), and the two ways to merge an answer (`AnswerAims`,
`ModelMergesAims`). `MessagesAim` only says that what the code finds in a text fits together:
no ticker is empty, `_trigger_asset` finds a coin wherever a reaction has coins, and a
correction has a coin in it, as its pattern demands. Of a model's task it asks that it
names no empty coin and does not claim to follow up, which `_task_from_llm` sees to. The words
that look for no coin are not assumed away: they are messages like others, in the instance
too, and the property names them (`GoesOn`). The coin a message means is one that
`_extract_symbols` finds, or the word that a phrase takes for a coin (`Meant`).

**Plans of turns.** `_turn` clears the question before it plans, so a plan that raises would
lose it. `NoPlanIsRefused` says that none does. It is `PlannersPass` for the tasks that the
readers make: `Naming` says that every task on its way, and every one remembered, is
`Capable`, with one lemma for each way of reading. Capabilities are only added together with
`market`, so that a history never stays alone. `ReadingsNameCapabilities` asks the same of
what a model names itself: `_task_from_llm` takes its list as it is, and the validators
refuse a name that is unknown.

**How the operators are written.** Nothing can be proved here of operators that take an
operator or fold a sequence, so the model says what they return: `Only` is the subsequence
whose members satisfy a condition, `Arranged` the one arrangement in a strict order,
`Best` the preferred one of several listings. Their existence is an induction over the
length; it goes through least numbers (`LeastNumber`) and a set of counterexamples, which
needs no induction theorem.

**Model-checked only.**
* Liveness (`EveryRunEnds`, `StrandedRescued`, `UpdatesAreAnswered`) is out of the
  prover's reach, as are `ENABLED` and recursive operators.
* The results that a violation run refutes.

Every invariant and action property of a passing run has a theorem.

## 5. What is not modelled, and why

* The phrase tables and regular expressions that find the cues of a message, and
  what a language model answers: cues and readings are inputs. The older path of
  `compile_job_report` with `understanding.py`, which recompiles a text without a
  task, is not modelled, except for its edits.
* Wording: explanations, replies, the judgement of headlines, the presentation of
  results, conversation items, names of steps.
* HTTP, the parsing of the headlines page, and the steps that no compiler emits
  (`get_ohlcv_historical`, `get_trending`, `get_gainers_losers`,
  `get_new_listings`, categories).
* The clock window of a scheduled routine: `Watching` lets a brief run on any tick.
* Status views and live status: they derive labels and write nothing.
* Two runs of one Lens that write `rank_snapshot`: `Investigation` has one.
* Row-level security, migrations, accounts, templates and configuration.

## 6. What could follow

* A module of the schedule window and of what the pages show of a run.
* The composition of `Investigation` with `RunLifecycle`: `Verdict` there is the
  set of verdicts that `VerifyResult` gives here.
* That `CallsAreAccounted` follows from the readers of `Understanding`, as `NamesCapabilities`
  does by `TurnsArePlanned`, instead of being assumed of the tasks.

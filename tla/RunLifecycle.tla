----------------------------- MODULE RunLifecycle -----------------------------
(***************************************************************************)
(* One LensRun from the request that creates it to the receipt that ends   *)
(* it: RunService (create, enqueue, kick), the Celery task run_lens, the   *)
(* AgentRuntime loop (plan, act, verify, repair, persist) around           *)
(* LensRuntime and MonitoringService, and the broker between them.         *)
(*                                                                         *)
(* Every save is its own transaction (autocommit), so a step of a process  *)
(* is the code between two points where another process can be noticed.    *)
(* All the runs are of one Lens, whose LensVersion may be edited meanwhile.*)
(*                                                                         *)
(* Time is abstracted: kick_if_stranded waits two seconds, and two seconds *)
(* may always have passed.                                                 *)
(***************************************************************************)
EXTENDS Naturals, FiniteSets

CONSTANTS
  Runs,         \* identities of LensRun rows
  Web,          \* web server processes (requests and polls)
  Workers,      \* Celery worker processes
  MaxVersion,   \* bound: LensVersions written by edits
  Legacy,       \* versions whose workflow has no steps (policy monitoring)
  MaxRetries,   \* RepairPolicy.max_retries
  MaxLosses,    \* bound: the runs that may lose a process or a message
  NoRun, NoResult

ASSUME ConstantsAssumption ==
  /\ Web \cap Workers = {}
  /\ MaxVersion \in Nat \ {0}
  /\ Legacy \subseteq 1..MaxVersion
  /\ MaxRetries \in Nat
  /\ MaxLosses \in Nat
  /\ NoRun \notin Runs
  /\ "broker" \notin Web \cup Workers

VARIABLES
  version,       \* number of the Lens's current LensVersion
  stage,         \* LensRun.stage, "absent" before the row exists
  status,        \* LensRun.status
  trigger,       \* LensRun.trigger
  mode,          \* LensRun.summary_json["mode"]: "ask" or "" (standing)
  pinned,        \* LensRun.lens_version
  latest,        \* the newest Result row of the run
  verifications, \* VerificationRecords of the run
  receipts,      \* execution_receipt Artifacts of the run
  queue,         \* run_lens messages at the broker
  pc, mine,      \* each process's place in the code and its local variables
  asked,         \* runs created for a question (history)
  lost           \* runs that lost an execution or a message (history)

db    == <<stage, status, trigger, mode, pinned, latest, verifications, receipts>>
procs == <<pc, mine>>
hist  == <<asked, lost>>
vars  == <<version, db, queue, procs, hist>>

-----------------------------------------------------------------------------
Procs    == Web \cup Workers
Versions == 1..MaxVersion
Ask      == 0    \* the workflow a question carries in LensRun.workflow_json

Terminal  == {"complete", "error"}
Stages    == {"absent", "queued", "investigating", "loading_policy",
              "fetching_cmc", "repairing"} \cup Terminal
Published == {"manual", "routine", "historical"}  \* triggers that go to the broker
Inline    == {"chat", "manual"}                   \* RunService.INLINE_TRIGGERS
Triggers  == Published \cup {"chat", "scheduled"}
Kinds     == {"ranked_table", "market_summary", "event", "no_result", "error"}
Quality   == {"sound", "flawed", "missing"}

\* found: what the payload holds. "flawed" fails one of the plan's checks;
\* "missing" is a table without rows, or an error whose message says empty,
\* missing or unavailable.
Results ==
  [kind: Kinds, found: Quality,
   version: Versions, workflow: Versions \cup {Ask}]
Verdicts == {"supported", "unsupported", "needs_more_evidence"}
Records  == [result: Results, version: Versions, verdict: Verdicts]

\* verify_result, as far as the loop tells its outcomes apart
Verdict(result) ==
  CASE result.kind = "error"      -> "unsupported"
    [] result.kind = "no_result"  -> "supported"
    [] result.kind \notin {"error", "no_result"} ->
         CASE result.found = "missing" -> "needs_more_evidence"
           [] result.found = "flawed"  -> "unsupported"
           [] result.found = "sound"   -> "supported"

NeedsRepair(result) ==
  \/ Verdict(result) = "needs_more_evidence"
  \/ result.kind \in {"ranked_table", "error"} /\ result.found = "missing"

\* What one execution of a workflow may find, as <<kind, found>>.
StepFindings ==
  ({"ranked_table"} \X Quality) \cup ({"market_summary"} \X {"sound", "flawed"})
    \cup {<<"no_result", "sound">>}
MonitorFindings == {<<"event", "sound">>, <<"event", "flawed">>, <<"no_result", "sound">>}
Failures        == {"error"} \X {"flawed", "missing"}

-----------------------------------------------------------------------------
\* The places where a process still owes its run a terminal stage.
Owing == {"publish", "start", "plan", "execute", "policy", "fetch", "observe", "finish"}
\* The places from which the loop may still reopen the run to repair it.
Active == Owing \cup {"notify", "wrap", "verify"}
\* The places after the loop, where evidence and receipt are written.
Filing == {"persist", "receipt", "close"}

Locals ==
  [run: Runs \cup {NoRun},
   trigger: Triggers,
   loopVersion: Versions,                 \* _loop's version
   execVersion: Versions,                 \* _execute's version
   bound: Versions,                       \* the in-memory run's lens_version
   ask: BOOLEAN,                          \* the in-memory run's summary mode
   workflow: Versions \cup {Ask},
   attempt: 0..MaxRetries,
   found: Kinds \X Quality,
   result: Results \cup {NoResult},
   failed: BOOLEAN]                       \* refetched run.status == "error"

Idle == [run |-> NoRun, trigger |-> "manual", loopVersion |-> 1, execVersion |-> 1,
         bound |-> 1, ask |-> FALSE, workflow |-> Ask, attempt |-> 0,
         found |-> <<"no_result", "sound">>, result |-> NoResult, failed |-> FALSE]

On(p, r)   == mine[p].run = r
Owes(p, r) == pc[p] \in Owing /\ On(p, r)
Settled(r) == <<stage[r], status[r]>> \in {<<"complete", "ok">>, <<"error", "error">>}

Goto(p, label) == pc' = [pc EXCEPT ![p] = label]

Remember(p, locals) == mine' = [mine EXCEPT ![p] = locals]

TakeUp(p, r, t, label) ==
  /\ Goto(p, label)
  /\ Remember(p, [mine[p] EXCEPT !.run = r, !.trigger = t])

Leave(p) == Goto(p, "idle") /\ Remember(p, Idle)

\* LensRun.set_stage, for a stage that is neither complete nor error
SetStage(r, s) ==
  /\ stage'  = [stage EXCEPT ![r] = s]
  /\ status' = [status EXCEPT ![r] = "running"]

\* Mutant of Close: the status is not written with the stage.
CloseStageOnly(r, s) ==
  /\ stage' = [stage EXCEPT ![r] = s]
  /\ UNCHANGED status

Close(r, s) ==
  /\ stage'  = [stage EXCEPT ![r] = s]
  /\ status' = [status EXCEPT ![r] = IF s = "complete" THEN "ok" ELSE "error"]

-----------------------------------------------------------------------------
Init ==
  /\ version       = 1
  /\ stage         = [r \in Runs |-> "absent"]
  /\ status        = [r \in Runs |-> "running"]
  /\ trigger       = [r \in Runs |-> "scheduled"]
  /\ mode          = [r \in Runs |-> ""]
  /\ pinned        = [r \in Runs |-> 1]
  /\ latest        = [r \in Runs |-> NoResult]
  /\ verifications = [r \in Runs |-> {}]
  /\ receipts      = [r \in Runs |-> {}]
  /\ queue         = {}
  /\ pc            = [p \in Procs |-> "idle"]
  /\ mine          = [p \in Procs |-> Idle]
  /\ asked         = {}
  /\ lost          = {}

\* A row that neither exists nor is promised to a message of Beat.
Unused(r) == stage[r] = "absent" /\ r \notin queue /\ \A p \in Procs : ~On(p, r)

\* RunService.create_queued / the create of AgentRuntime._loop
Create(r, t, m) ==
  /\ stage'   = [stage EXCEPT ![r] = "queued"]
  /\ trigger' = [trigger EXCEPT ![r] = t]
  /\ mode'    = [mode EXCEPT ![r] = m]
  /\ pinned'  = [pinned EXCEPT ![r] = version]
  /\ UNCHANGED <<status, latest, verifications, receipts>>

-----------------------------------------------------------------------------
(* Requests, the broker and Beat *)

\* Check now, "Run now" on a routine, a historical test: the row is created,
\* and the message is not published yet.
Request(p, r, t) ==
  /\ pc[p] = "idle" /\ p \in Web
  /\ Unused(r)
  /\ t \in Published
  /\ Create(r, t, "")
  /\ TakeUp(p, r, t, "publish")
  /\ UNCHANGED <<version, queue, hist>>

Publish(p) ==
  /\ pc[p] = "publish"
  /\ queue' = queue \cup {mine[p].run}
  /\ Leave(p)
  /\ UNCHANGED <<version, db, hist>>

\* Mutant of PublishFails: the exception is swallowed.
PublishFailsQuietly(p) ==
  /\ pc[p] = "publish"
  /\ Leave(p)
  /\ UNCHANGED <<version, db, queue, hist>>

\* The broker refused the message.
PublishFails(p) ==
  /\ pc[p] = "publish"
  /\ Close(mine[p].run, "error")
  /\ Leave(p)
  /\ UNCHANGED <<version, trigger, mode, pinned, latest, verifications, receipts, queue, hist>>

\* A chat message: the task runs in the request (apply), as a question of its
\* own ("ask") or as the first look of a standing job.
Chat(p, r, m) ==
  /\ pc[p] = "idle" /\ p \in Web
  /\ Unused(r)
  /\ Create(r, "chat", m)
  /\ TakeUp(p, r, "chat", "start")
  /\ asked' = IF m = "ask" THEN asked \cup {r} ELSE asked
  /\ UNCHANGED <<version, queue, lost>>

\* Mutants of Kick: the stage is not checked; checks are not taken over.
KickAnyStage(p, r) ==
  /\ pc[p] = "idle" /\ p \in Web
  /\ stage[r] # "absent"
  /\ trigger[r] \in Inline
  /\ TakeUp(p, r, trigger[r], "start")
  /\ UNCHANGED <<version, db, queue, hist>>

KickChatOnly(p, r) ==
  /\ pc[p] = "idle" /\ p \in Web
  /\ stage[r] = "queued"
  /\ trigger[r] = "chat"
  /\ TakeUp(p, r, trigger[r], "start")
  /\ UNCHANGED <<version, db, queue, hist>>

\* A poll of lens_run_status finds the run still queued.
Kick(p, r) ==
  /\ pc[p] = "idle" /\ p \in Web
  /\ stage[r] = "queued"
  /\ trigger[r] \in Inline
  /\ TakeUp(p, r, trigger[r], "start")
  /\ UNCHANGED <<version, db, queue, hist>>

\* run_active_lenses: a message without a run id. r is the row the task will
\* create for itself.
Beat(r) ==
  /\ Unused(r)
  /\ queue' = queue \cup {r}
  /\ UNCHANGED <<version, db, procs, hist>>

\* A worker takes a message; Celery acknowledges it before running the task.
Take(p, r) ==
  /\ pc[p] = "idle" /\ p \in Workers
  /\ r \in queue
  /\ queue' = queue \ {r}
  /\ TakeUp(p, r, trigger[r], "start")
  /\ UNCHANGED <<version, db, hist>>

\* A later message changes the job: a new LensVersion.
Edit ==
  /\ version < MaxVersion
  /\ version' = version + 1
  /\ UNCHANGED <<db, queue, procs, hist>>

-----------------------------------------------------------------------------
(* AgentRuntime._loop up to the first attempt *)

\* The task reads the lens, its version and the run (or creates the run).
Start(p) ==
  LET r == mine[p].run IN
  /\ pc[p] = "start"
  /\ IF stage[r] = "absent"
       THEN Create(r, "scheduled", "")
       ELSE UNCHANGED db
  /\ Remember(p, [mine[p] EXCEPT !.loopVersion = version, !.ask = (mode[r] = "ask")])
  /\ Goto(p, "plan")
  /\ UNCHANGED <<version, queue, hist>>

\* Plan, artifact and agent tasks, and the first stage other than queued.
Plan(p) ==
  /\ pc[p] = "plan"
  /\ SetStage(mine[p].run, "investigating")
  /\ Goto(p, "execute")
  /\ UNCHANGED <<version, trigger, mode, pinned, latest, verifications, receipts, queue, mine, hist>>

-----------------------------------------------------------------------------
(* LensRuntime._execute, entered again by a repair *)

\* The version is read again and the run is bound to it; a question runs its
\* own workflow, anything else the version's.
Execute(p) ==
  LET r == mine[p].run IN
  /\ pc[p] = "execute"
  /\ status'  = [status EXCEPT ![r] = "running"]
  /\ trigger' = [trigger EXCEPT ![r] = mine[p].trigger]
  /\ pinned'  = [pinned EXCEPT ![r] = version]
  /\ Remember(p, [mine[p] EXCEPT !.execVersion = version, !.bound = version,
                                 !.workflow = IF mine[p].ask THEN Ask ELSE version])
  /\ Goto(p, "policy")
  /\ UNCHANGED <<version, stage, mode, latest, verifications, receipts, queue, hist>>

Monitors(p) == mine[p].workflow \in Legacy

\* loading_policy; MonitoringService reads the version a third time and binds
\* the run to that one.
LoadPolicy(p) ==
  LET r == mine[p].run IN
  /\ pc[p] = "policy"
  /\ SetStage(r, "loading_policy")
  /\ IF Monitors(p)
       THEN /\ trigger' = [trigger EXCEPT ![r] = mine[p].trigger]
            /\ pinned'  = [pinned EXCEPT ![r] = version]
            /\ Remember(p, [mine[p] EXCEPT !.bound = version])
       ELSE UNCHANGED <<trigger, pinned, mine>>
  /\ Goto(p, "fetch")
  /\ UNCHANGED <<version, mode, latest, verifications, receipts, queue, hist>>

\* fetching_cmc stands for the stages set while the steps run: evaluating,
\* fetching_cmc, analyzing, scoring.
Fetch(p) ==
  /\ pc[p] = "fetch"
  /\ SetStage(mine[p].run, "fetching_cmc")
  /\ Goto(p, "observe")
  /\ UNCHANGED <<version, trigger, mode, pinned, latest, verifications, receipts, queue, mine, hist>>

ResultOf(p, f) ==
  [kind |-> f[1], found |-> f[2], version |-> mine[p].execVersion, workflow |-> mine[p].workflow]

AddResult(p, f) == latest' = [latest EXCEPT ![mine[p].run] = ResultOf(p, f)]

\* Mutant of Observe: a trigger that did not fire stores no Result.
ObserveNothing(p) ==
  /\ pc[p] = "observe" /\ ~Monitors(p)
  /\ UNCHANGED latest \/ \E f \in StepFindings : AddResult(p, f)
  /\ Goto(p, "finish")
  /\ UNCHANGED <<version, stage, status, trigger, mode, pinned, verifications, receipts, queue, mine, hist>>

\* The steps ran (or the trigger did not fire): the Result is stored first,
\* then the run is finished.
Observe(p) ==
  /\ pc[p] = "observe" /\ ~Monitors(p)
  /\ \E f \in StepFindings : AddResult(p, f)
  /\ Goto(p, "finish")
  /\ UNCHANGED <<version, stage, status, trigger, mode, pinned, verifications, receipts, queue, mine, hist>>

\* run.save() of the whole in-memory row, as _finish_run and run_lens do:
\* summary_json is rebuilt without a mode and lens_version is written back.
SaveRow(p) ==
  LET r == mine[p].run IN
  /\ Close(r, "complete")
  /\ mode'    = [mode EXCEPT ![r] = ""]
  /\ trigger' = [trigger EXCEPT ![r] = mine[p].trigger]
  /\ pinned'  = [pinned EXCEPT ![r] = mine[p].bound]

FinishRun(p) ==
  /\ pc[p] = "finish"
  /\ SaveRow(p)
  /\ Remember(p, [mine[p] EXCEPT !.ask = FALSE])
  /\ Goto(p, "notify")
  /\ UNCHANGED <<version, latest, verifications, receipts, queue, hist>>

\* notify_result, inside the same try: what Telegram does not answer with a
\* TelegramError fails the finished run.
Notify(p) ==
  /\ pc[p] = "notify"
  /\ Goto(p, "verify")
  /\ UNCHANGED <<version, db, queue, mine, hist>>

\* MonitoringService finishes the run before the Result exists.
MonitorDone(p) ==
  /\ pc[p] = "observe" /\ Monitors(p)
  /\ SaveRow(p)
  /\ \E f \in MonitorFindings : Remember(p, [mine[p] EXCEPT !.found = f, !.ask = FALSE])
  /\ Goto(p, "wrap")
  /\ UNCHANGED <<version, latest, verifications, receipts, queue, hist>>

\* The places inside a try that turns every exception into a failed run.
Guarded(p) == pc[p] \in {"fetch", "observe", "finish", "notify"}
                 \cup (IF Monitors(p) THEN {} ELSE {"policy"})

\* An exception in LensRuntime or MonitoringService: the stage first, the
\* error Result after it.
Fail(p) ==
  /\ Guarded(p)
  /\ Close(mine[p].run, "error")
  /\ \E f \in Failures : Remember(p, [mine[p] EXCEPT !.found = f])
  /\ Goto(p, "wrap")
  /\ UNCHANGED <<version, trigger, mode, pinned, latest, verifications, receipts, queue, hist>>

Wrap(p) ==
  /\ pc[p] = "wrap"
  /\ AddResult(p, mine[p].found)
  /\ Goto(p, "verify")
  /\ UNCHANGED <<version, stage, status, trigger, mode, pinned, verifications, receipts, queue, mine, hist>>

-----------------------------------------------------------------------------
(* AgentRuntime._loop after an attempt *)

\* Mutant of Repair: one retry too many.
RepairOnceMore(p) ==
  /\ pc[p] = "verify"
  /\ NeedsRepair(latest[mine[p].run])
  /\ mine[p].attempt <= MaxRetries
  /\ Remember(p, [mine[p] EXCEPT !.attempt = mine[p].attempt + 1])
  /\ SetStage(mine[p].run, "repairing")
  /\ Goto(p, "execute")
  /\ UNCHANGED <<version, trigger, mode, pinned, latest, verifications, receipts, queue, hist>>

\* run.results.order_by("-id").first() is verified; the loop repairs at most
\* max_retries times.
Repair(p) ==
  /\ pc[p] = "verify"
  /\ NeedsRepair(latest[mine[p].run])
  /\ mine[p].attempt < MaxRetries
  /\ Remember(p, [mine[p] EXCEPT !.attempt = mine[p].attempt + 1])
  /\ SetStage(mine[p].run, "repairing")
  /\ Goto(p, "execute")
  /\ UNCHANGED <<version, trigger, mode, pinned, latest, verifications, receipts, queue, hist>>

\* Mutant of Accept: a failed run is left without filing anything.
AcceptDropsErrors(p) ==
  LET r == mine[p].run IN
  /\ pc[p] = "verify"
  /\ ~ (NeedsRepair(latest[r]) /\ mine[p].attempt < MaxRetries)
  /\ IF status[r] = "error"
       THEN Leave(p)
       ELSE /\ Remember(p, [mine[p] EXCEPT !.result = latest[r], !.failed = FALSE])
            /\ Goto(p, "persist")
  /\ UNCHANGED <<version, db, queue, hist>>

\* The loop is left; the run is read again.
Accept(p) ==
  LET r == mine[p].run IN
  /\ pc[p] = "verify"
  /\ ~ (NeedsRepair(latest[r]) /\ mine[p].attempt < MaxRetries)
  /\ Remember(p, [mine[p] EXCEPT !.result = latest[r], !.failed = (status[r] = "error")])
  /\ Goto(p, "persist")
  /\ UNCHANGED <<version, db, queue, hist>>

RecordOf(p) == [result |-> mine[p].result, version |-> mine[p].loopVersion,
                verdict |-> Verdict(mine[p].result)]

\* Mutant of Persist: an unsupported result gets no receipt.
PersistSkipsReceipt(p) ==
  /\ pc[p] = "persist"
  /\ verifications' = [verifications EXCEPT ![mine[p].run] = @ \cup {RecordOf(p)}]
  /\ Goto(p, IF RecordOf(p).verdict = "unsupported" THEN "close" ELSE "receipt")
  /\ UNCHANGED <<version, stage, status, trigger, mode, pinned, latest, receipts, queue, mine, hist>>

Persist(p) ==
  /\ pc[p] = "persist"
  /\ verifications' = [verifications EXCEPT ![mine[p].run] = @ \cup {RecordOf(p)}]
  /\ Goto(p, "receipt")
  /\ UNCHANGED <<version, stage, status, trigger, mode, pinned, latest, receipts, queue, mine, hist>>

Receipt(p) ==
  /\ pc[p] = "receipt"
  /\ receipts' = [receipts EXCEPT ![mine[p].run] = @ \cup {RecordOf(p)}]
  /\ Goto(p, "close")
  /\ UNCHANGED <<version, stage, status, trigger, mode, pinned, latest, verifications, queue, mine, hist>>

\* A run that still needs evidence is complete, not an error.
Conclude(p) ==
  /\ pc[p] = "close"
  /\ IF Verdict(mine[p].result) = "needs_more_evidence" /\ ~mine[p].failed
       THEN Close(mine[p].run, "complete")
       ELSE UNCHANGED <<stage, status>>
  /\ Leave(p)
  /\ UNCHANGED <<version, trigger, mode, pinned, latest, verifications, receipts, queue, hist>>

\* The process dies, or an exception escapes the task: the message was
\* acknowledged and apply() returns a failed result nobody reads.
Lose(p) ==
  /\ pc[p] # "idle"
  /\ Cardinality(lost) < MaxLosses
  /\ lost' = lost \cup {mine[p].run}
  /\ Leave(p)
  /\ UNCHANGED <<version, db, queue, asked>>

-----------------------------------------------------------------------------
\* The next step of the code a process is in.
Proceed(p) ==
  \/ Publish(p) \/ PublishFails(p)
  \/ Start(p) \/ Plan(p)
  \/ Execute(p) \/ LoadPolicy(p) \/ Fetch(p)
  \/ Observe(p) \/ FinishRun(p) \/ Notify(p) \/ MonitorDone(p) \/ Fail(p) \/ Wrap(p)
  \/ Repair(p) \/ Accept(p)
  \/ Persist(p) \/ Receipt(p) \/ Conclude(p)

Next ==
  \/ \E p \in Procs, r \in Runs :
       \/ \E t \in Published : Request(p, r, t)
       \/ \E m \in {"ask", ""} : Chat(p, r, m)
       \/ Kick(p, r)
       \/ Take(p, r)
  \/ \E r \in Runs : Beat(r)
  \/ Edit
  \/ \E p \in Procs : Proceed(p) \/ Lose(p)

Spec == Init /\ [][Next]_vars

\* A process that is running keeps running; workers take messages.
Fairness ==
  /\ \A p \in Procs : WF_vars(Proceed(p))
  /\ \A p \in Workers : WF_vars(\E r \in Runs : Take(p, r))

FairSpec == Spec /\ Fairness

\* The page of the run stays open and polls every second.
Polled(r) == WF_vars(\E p \in Web : Kick(p, r))

-----------------------------------------------------------------------------
(* What the runs check *)

RowsOK ==
  /\ stage   \in [Runs -> Stages]
  /\ status  \in [Runs -> {"running", "ok", "error"}]
  /\ trigger \in [Runs -> Triggers]
  /\ mode    \in [Runs -> {"ask", ""}]
  /\ pinned  \in [Runs -> Versions]

FiledOK ==
  /\ version \in Versions
  /\ latest  \in [Runs -> Results \cup {NoResult}]
  /\ verifications \in [Runs -> SUBSET Records]
  /\ receipts      \in [Runs -> SUBSET Records]
  /\ queue \subseteq Runs
  /\ asked \subseteq Runs
  /\ lost  \subseteq Runs

ProcsOK ==
  /\ pc    \in [Procs -> {"idle"} \cup Active \cup Filing]
  /\ mine  \in [Procs -> Locals]
  /\ \A p \in Procs : pc[p] = "idle" <=> mine[p].run = NoRun

\* The rows of a run, what is filed under it and the processes keep their
\* types; a process has a run exactly while it is in the code.
TypeOK == RowsOK /\ FiledOK /\ ProcsOK

Handled(r) == r \in queue \/ \E p \in Procs : On(p, r)
Final(r)   == Settled(r) /\ ~Handled(r)

Tended(r) ==
  \/ stage[r] = "absent"
  \/ \E p \in Procs : Owes(p, r)
  \/ r \in queue
  \/ r \in lost
  \/ Settled(r)

\* No run is forgotten half way: one that is not settled (complete and ok, or
\* error and error) is still owed an end by a process of the loop or waits at
\* the broker, however requests, polls, workers, repairs and edits interleave;
\* only a process that died can leave it open. (enqueue, kick_if_stranded,
\* _loop, _finish_run, _fail)
SettledWhenIdle == \A r \in Runs : Tended(r)

\* The loop never verifies or files a run that has no Result: every way out of
\* an execution, the failures included, has stored one before. (_loop reads
\* results.first(), which may be None; _fail, _wrap_monitor_result)
ResultAtHand ==
  \A p \in Procs :
    /\ pc[p] \in {"finish", "notify", "verify"} => latest[mine[p].run] \in Results
    /\ pc[p] \in Filing => mine[p].result \in Results

\* The receipt is never of an older result than the page shows: once nobody
\* works on a run and nothing died, its newest Result was verified and has a
\* receipt with that very result, even after a repair or when two processes
\* executed it. (_loop: results.order_by("-id").first(), _persist_verification,
\* _persist_receipt)
ReceiptOfNewestResult ==
  \A r \in Runs \ lost :
    stage[r] # "absent" /\ ~Handled(r) /\ latest[r] # NoResult =>
      \E rec \in verifications[r] \cap receipts[r] : rec.result = latest[r]

\* A run that ended complete went through the whole loop: it has a receipt.
\* (_execute sets the stage long before _persist_receipt)
CompleteHasReceipt ==
  \A r \in Runs \ lost : Final(r) /\ stage[r] = "complete" => receipts[r] # {}

\* A run that ended is history: no late message, poll or edit gives it another
\* stage, version, result or receipt. (kick_if_stranded's stage guard, create
\* before publish)
FinalStays ==
  [][\A r \in Runs : Final(r) =>
       /\ Final(r)'
       /\ stage'[r] = stage[r] /\ pinned'[r] = pinned[r] /\ latest'[r] = latest[r]
       /\ verifications'[r] = verifications[r] /\ receipts'[r] = receipts[r]]_vars

\* Every run that is created ends and stays ended, unless something of it
\* dies: the repairs are bounded, and no two processes can reopen it for each
\* other for ever. (RepairPolicy.max_retries, _loop)
EveryRunEnds ==
  \A r \in Runs : stage[r] # "absent" ~> ([](stage[r] \in Terminal) \/ r \in lost)

\* A chat question or a check whose process or message was lost while it was
\* queued does not stay queued while its page is open. (kick_if_stranded)
StrandedRescued ==
  \A r \in Runs :
    Polled(r) => (stage[r] = "queued" /\ trigger[r] \in Inline ~> stage[r] # "queued")

-----------------------------------------------------------------------------
(* What the documents say and the code does not do *)

\* README.md:54: a run stays on the version that produced it, so the version
\* its verification and receipt name is the one its result came from.
ReceiptNamesItsVersion ==
  \A r \in Runs : \A rec \in receipts[r] : rec.version = rec.result.version

-----------------------------------------------------------------------------
(* The contract the lifecycle implements *)

Broker == "broker"

Phase(r) ==
  CASE stage[r] = "absent" -> "absent"
    [] stage[r] # "absent" -> IF Settled(r) THEN "closed" ELSE "open"

HandsOn(r) == {p \in Procs : On(p, r)} \cup {b \in {Broker} : r \in queue}

Contract == INSTANCE RunContract WITH
  Hands <- Procs \cup {Broker},
  phase <- [r \in Runs |-> Phase(r)],
  hands <- [r \in Runs |-> HandsOn(r)]

\* Whatever the stages go through, the run keeps the contract: it is always in
\* somebody's hands until it is closed, it is taken up only while it is open or
\* held, and closed and let go it is never touched again.
KeepsContract == Contract!Spec
=============================================================================

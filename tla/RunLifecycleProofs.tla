-------------------------- MODULE RunLifecycleProofs --------------------------
(***************************************************************************)
(* Theorems about RunLifecycle, for any number of runs, web processes,     *)
(* workers, versions, retries and losses.                                  *)
(***************************************************************************)
EXTENDS RunLifecycle, TLAPS

\* What verify_result answers is one of the verdicts of VerificationRecord.
LEMMA VerdictType == ASSUME NEW x \in Results PROVE Verdict(x) \in Verdicts
  BY DEF Verdict, Verdicts, Results, Kinds, Quality

\* The types and the results at hand hold together: a record can be filed only
\* because the result it names is there.
Typed == TypeOK /\ ResultAtHand

\* A process outside the code has well-typed locals.
LEMMA IdleType == Idle \in Locals
  <1>1. 1 \in Versions /\ 0 \in 0..MaxRetries
    BY ConstantsAssumption DEF Versions
  <1>2. <<"no_result", "sound">> \in Kinds \X Quality
    BY DEF Kinds, Quality
  <1> QED
    BY <1>1, <1>2 DEF Idle, Locals, Triggers, Published

\* They hold of an empty database.
LEMMA TypedInit == Init => Typed
  <1> SUFFICES ASSUME Init PROVE Typed
    OBVIOUS
  <1>1. Idle \in Locals
    BY IdleType
  <1>2. TypeOK
    <2>1. version \in Versions /\ pinned \in [Runs -> Versions]
      <3>1. 1 \in Versions
        BY ConstantsAssumption DEF Versions
      <3> QED
        BY <3>1 DEF Init
    <2>2. /\ stage   \in [Runs -> Stages]
          /\ trigger \in [Runs -> Triggers]
      BY DEF Init, Stages, Triggers, Published
    <2>3. /\ status \in [Runs -> {"running", "ok", "error"}]
          /\ mode   \in [Runs -> {"ask", ""}]
      BY DEF Init
    <2>4. /\ latest \in [Runs -> Results \cup {NoResult}]
          /\ verifications \in [Runs -> SUBSET Records]
          /\ receipts      \in [Runs -> SUBSET Records]
          /\ queue \subseteq Runs /\ asked \subseteq Runs /\ lost \subseteq Runs
      BY DEF Init
    <2>5. /\ pc   \in [Procs -> {"idle"} \cup Active \cup Filing]
          /\ mine \in [Procs -> Locals]
      BY <1>1 DEF Init
    <2>6. \A p \in Procs : pc[p] = "idle" <=> mine[p].run = NoRun
      BY DEF Init, Idle
    <2> QED
      BY <2>1, <2>2, <2>3, <2>4, <2>5, <2>6 DEF TypeOK, RowsOK, FiledOK, ProcsOK
  <1>3. ResultAtHand
    BY DEF Init, ResultAtHand, Filing
  <1> QED
    BY <1>2, <1>3 DEF Typed

\* A process that moves on with well-typed locals and a run, or leaves with
\* none, disturbs no other process.
Walk(p, label, l) ==
  /\ Goto(p, label) /\ Remember(p, l)
  /\ l \in Locals
  /\ \/ label \in Active \cup Filing /\ l.run \in Runs
     \/ label = "idle" /\ l = Idle

LEMMA WalkType ==
  ASSUME TypeOK, NEW p \in Procs, NEW label, NEW l, Walk(p, label, l)
  PROVE  /\ ProcsOK'
         /\ pc'[p] = label /\ mine'[p] = l
         /\ \A q \in Procs : q # p => pc'[q] = pc[q] /\ mine'[q] = mine[q]
  <1>1. /\ pc' \in [Procs -> {"idle"} \cup Active \cup Filing]
        /\ pc'[p] = label
        /\ \A q \in Procs : q # p => pc'[q] = pc[q]
    BY DEF Walk, Goto, TypeOK, ProcsOK
  <1>2. /\ mine' \in [Procs -> Locals]
        /\ mine'[p] = l
        /\ \A q \in Procs : q # p => mine'[q] = mine[q]
    BY DEF Walk, Remember, TypeOK, ProcsOK
  <1>3. pc'[p] = "idle" <=> mine'[p].run = NoRun
    BY <1>1, <1>2, ConstantsAssumption DEF Walk, Active, Owing, Filing, Idle
  <1> QED
    BY <1>1, <1>2, <1>3 DEF ProcsOK, TypeOK

\* A process in the code has a run.
LEMMA HasRun ==
  ASSUME TypeOK, NEW p \in Procs, pc[p] # "idle"
  PROVE  mine[p].run \in Runs /\ mine[p] \in Locals
  BY DEF TypeOK, ProcsOK, Locals

\* The three ways to move: with the same locals, out, and in.
LEMMA GoOnWalks ==
  ASSUME TypeOK, NEW p \in Procs, pc[p] # "idle",
         NEW label \in Active \cup Filing, Goto(p, label), mine' = mine
  PROVE  Walk(p, label, mine[p])
  <1>1. Remember(p, mine[p])
    BY DEF Remember, TypeOK, ProcsOK
  <1> QED
    BY <1>1, HasRun DEF Walk

LEMMA LeaveWalks ==
  ASSUME TypeOK, NEW p \in Procs, Leave(p)
  PROVE  Walk(p, "idle", Idle)
  BY IdleType DEF Walk, Leave

LEMMA TakeUpWalks ==
  ASSUME TypeOK, NEW p \in Procs, NEW r \in Runs, NEW t \in Triggers,
         NEW label \in Active, TakeUp(p, r, t, label)
  PROVE  \E l \in Locals : l.run = r /\ Walk(p, label, l)
  <1> DEFINE l == [mine[p] EXCEPT !.run = r, !.trigger = t]
  <1>1. mine[p] \in Locals
    BY DEF TypeOK, ProcsOK
  <1>2. l \in Locals /\ l.run = r
    BY <1>1 DEF Locals
  <1>3. Walk(p, label, l)
    BY <1>2 DEF Walk, TakeUp
  <1> QED
    BY <1>2, <1>3

\* The stages a row goes through are stages.
LEMMA StageType ==
  ASSUME RowsOK, NEW r \in Runs, NEW s \in Stages, SetStage(r, s) \/ Close(r, s)
  PROVE  stage' \in [Runs -> Stages] /\ status' \in [Runs -> {"running", "ok", "error"}]
  BY DEF RowsOK, SetStage, Close

\* A new row is well typed.
LEMMA CreateType ==
  ASSUME TypeOK, NEW r \in Runs, NEW t \in Triggers, NEW m \in {"ask", ""}, Create(r, t, m)
  PROVE  RowsOK'
  <1>1. stage' \in [Runs -> Stages] /\ trigger' \in [Runs -> Triggers]
    BY DEF Create, TypeOK, RowsOK, Stages
  <1>2. mode' \in [Runs -> {"ask", ""}] /\ pinned' \in [Runs -> Versions]
    BY DEF Create, TypeOK, RowsOK, FiledOK
  <1>3. status' \in [Runs -> {"running", "ok", "error"}]
    BY DEF Create, TypeOK, RowsOK
  <1> QED
    BY <1>1, <1>2, <1>3 DEF RowsOK

\* A step keeps the results at hand when it replaces a Result only by another
\* and moves its process only to where it has one.
LEMMA KeepsResults ==
  ASSUME Typed, NEW p \in Procs, NEW label, NEW l, Walk(p, label, l),
         \A r \in Runs : latest'[r] = latest[r] \/ latest'[r] \in Results,
         label \in {"finish", "notify", "verify"} => latest'[l.run] \in Results,
         label \in Filing => l.result \in Results
  PROVE  ResultAtHand'
  <1> SUFFICES ASSUME NEW q \in Procs
               PROVE  /\ pc'[q] \in {"finish", "notify", "verify"} => latest'[mine'[q].run] \in Results
                      /\ pc'[q] \in Filing => mine'[q].result \in Results
    BY DEF ResultAtHand
  <1>1. CASE q = p
    BY <1>1, WalkType DEF Typed
  <1>2. CASE q # p
    <2>1. pc'[q] = pc[q] /\ mine'[q] = mine[q]
      BY <1>2, WalkType DEF Typed
    <2>2. pc[q] # "idle" => mine[q].run \in Runs
      BY HasRun DEF Typed
    <2> QED
      BY <2>1, <2>2 DEF Typed, ResultAtHand
  <1> QED
    BY <1>1, <1>2

\* The types are kept as soon as the three parts are.
LEMMA TypedParts ==
  ASSUME RowsOK', FiledOK', ProcsOK', ResultAtHand'
  PROVE  Typed'
  BY DEF Typed, TypeOK

\* What an execution may find is a kind of Result and a quality of it.
LEMMA FindingsType == StepFindings \cup MonitorFindings \cup Failures \subseteq Kinds \X Quality
  BY DEF StepFindings, MonitorFindings, Failures, Kinds, Quality

\* A Result made of it is well typed.
LEMMA ResultType ==
  ASSUME NEW p \in Procs, mine[p] \in Locals, NEW f \in Kinds \X Quality
  PROVE  ResultOf(p, f) \in Results
  BY DEF ResultOf, Results, Locals

\* Each operation keeps the types and the results at hand.
LEMMA TypedNext == Typed /\ [Next]_vars => Typed'
  <1> SUFFICES ASSUME Typed, [Next]_vars PROVE Typed'
    OBVIOUS
  <1>0. TypeOK /\ RowsOK /\ FiledOK /\ ProcsOK /\ ResultAtHand
    BY DEF Typed, TypeOK
  <1>1. ASSUME NEW p \in Procs, NEW r \in Runs, NEW t \in Published, Request(p, r, t)
        PROVE Typed'
    <2>1. t \in Triggers /\ "publish" \in Active
      BY DEF Triggers, Active, Owing
    <2>2. PICK l \in Locals : l.run = r /\ Walk(p, "publish", l)
      BY <1>0, <1>1, <2>1, TakeUpWalks DEF Request
    <2>3. RowsOK'
      BY <1>0, <1>1, <2>1, CreateType DEF Request
    <2>4. FiledOK' /\ latest' = latest
      BY <1>0, <1>1 DEF FiledOK, Request, Create, hist
    <2> QED
      BY <1>0, <2>2, <2>3, <2>4, WalkType, KeepsResults, TypedParts DEF Filing
  <1>2. ASSUME NEW p \in Procs, Publish(p)
        PROVE Typed'
    <2>1. Walk(p, "idle", Idle) /\ mine[p].run \in Runs
      BY <1>0, <1>2, LeaveWalks, HasRun DEF Publish
    <2>2. RowsOK' /\ FiledOK' /\ latest' = latest
      BY <1>0, <1>2, <2>1 DEF RowsOK, FiledOK, Publish, db, hist
    <2> QED
      BY <1>0, <2>1, <2>2, WalkType, KeepsResults, TypedParts DEF Filing
  <1>3. ASSUME NEW p \in Procs, PublishFails(p)
        PROVE Typed'
    <2>1. Walk(p, "idle", Idle) /\ mine[p].run \in Runs
      BY <1>0, <1>3, LeaveWalks, HasRun DEF PublishFails
    <2>2. RowsOK'
      BY <1>0, <1>3, <2>1, StageType DEF RowsOK, PublishFails, Stages, Terminal
    <2>3. FiledOK' /\ latest' = latest
      BY <1>0, <1>3 DEF FiledOK, PublishFails, hist
    <2> QED
      BY <1>0, <2>1, <2>2, <2>3, WalkType, KeepsResults, TypedParts DEF Filing
  <1>4. ASSUME NEW p \in Procs, NEW r \in Runs, NEW m \in {"ask", ""}, Chat(p, r, m)
        PROVE Typed'
    <2>1. "chat" \in Triggers /\ "start" \in Active
      BY DEF Triggers, Active, Owing
    <2>2. PICK l \in Locals : l.run = r /\ Walk(p, "start", l)
      BY <1>0, <1>4, <2>1, TakeUpWalks DEF Chat
    <2>3. RowsOK'
      BY <1>0, <1>4, <2>1, CreateType DEF Chat
    <2>4. FiledOK' /\ latest' = latest
      BY <1>0, <1>4 DEF FiledOK, Chat, Create
    <2> QED
      BY <1>0, <2>2, <2>3, <2>4, WalkType, KeepsResults, TypedParts DEF Filing
  <1>5. ASSUME NEW p \in Procs, NEW r \in Runs, Kick(p, r) \/ Take(p, r)
        PROVE Typed'
    <2>1. trigger[r] \in Triggers /\ "start" \in Active
      BY <1>0 DEF RowsOK, Active, Owing
    <2>2. PICK l \in Locals : l.run = r /\ Walk(p, "start", l)
      BY <1>0, <1>5, <2>1, TakeUpWalks DEF Kick, Take
    <2>3. RowsOK' /\ FiledOK' /\ latest' = latest
      BY <1>0, <1>5 DEF RowsOK, FiledOK, Kick, Take, db, hist
    <2> QED
      BY <1>0, <2>2, <2>3, WalkType, KeepsResults, TypedParts DEF Filing
  <1>6. ASSUME NEW r \in Runs, Beat(r)
        PROVE Typed'
    <2>1. RowsOK' /\ ProcsOK' /\ ResultAtHand'
      BY <1>0, <1>6 DEF RowsOK, ProcsOK, ResultAtHand, Beat, db, procs
    <2>2. FiledOK'
      BY <1>0, <1>6 DEF FiledOK, Beat, db, hist
    <2> QED
      BY <2>1, <2>2, TypedParts
  <1>7. ASSUME NEW p \in Procs, Start(p)
        PROVE Typed'
    <2>1. mine[p].run \in Runs /\ mine[p] \in Locals
      BY <1>0, <1>7, HasRun DEF Start
    <2> DEFINE l == [mine[p] EXCEPT !.loopVersion = version, !.ask = (mode[mine[p].run] = "ask")]
    <2>2. l \in Locals /\ l.run = mine[p].run
      BY <1>0, <2>1 DEF FiledOK, Locals
    <2>3. Walk(p, "plan", l)
      BY <1>7, <2>1, <2>2 DEF Walk, Start, Active, Owing
    <2>4. RowsOK'
      <3>1. CASE stage[mine[p].run] = "absent"
        BY <1>0, <1>7, <2>1, <3>1, CreateType DEF Start, Triggers
      <3>2. CASE stage[mine[p].run] # "absent"
        BY <1>0, <1>7, <3>2 DEF Start, RowsOK, db
      <3> QED
        BY <3>1, <3>2
    <2>5. FiledOK' /\ latest' = latest
      BY <1>0, <1>7 DEF FiledOK, Start, Create, db, hist
    <2> QED
      BY <1>0, <2>3, <2>4, <2>5, WalkType, KeepsResults, TypedParts DEF Filing
  <1>8. ASSUME NEW p \in Procs, Plan(p) \/ Fetch(p)
        PROVE Typed'
    <2>1. mine[p].run \in Runs
      BY <1>0, <1>8, HasRun DEF Plan, Fetch
    <2>2. PICK label \in {"execute", "observe"} : Walk(p, label, mine[p])
      BY <1>0, <1>8, GoOnWalks DEF Plan, Fetch, Active, Owing
    <2>3. RowsOK'
      BY <1>0, <1>8, <2>1, StageType DEF RowsOK, Plan, Fetch, Stages
    <2>4. FiledOK' /\ latest' = latest
      BY <1>0, <1>8 DEF FiledOK, Plan, Fetch, hist
    <2> QED
      BY <1>0, <2>2, <2>3, <2>4, WalkType, KeepsResults, TypedParts DEF Filing
  <1>9. ASSUME NEW p \in Procs, Execute(p)
        PROVE Typed'
    <2>1. mine[p].run \in Runs /\ mine[p] \in Locals
      BY <1>0, <1>9, HasRun DEF Execute
    <2> DEFINE w == IF mine[p].ask THEN Ask ELSE version
               l == [mine[p] EXCEPT !.execVersion = version, !.bound = version, !.workflow = w]
    <2>2. version \in Versions /\ w \in Versions \cup {Ask}
      BY <1>0 DEF FiledOK
    <2> HIDE DEF w
    <2>3. l \in Locals /\ l.run = mine[p].run
      BY <2>1, <2>2 DEF Locals
    <2>4. Walk(p, "policy", l)
      BY <1>9, <2>1, <2>3 DEF Walk, Execute, Active, Owing, w
    <2>5. RowsOK'
      <3>1. mine[p].trigger \in Triggers
        BY <2>1 DEF Locals
      <3> QED
        BY <1>0, <1>9, <2>1, <2>2, <3>1 DEF RowsOK, Execute
    <2>6. FiledOK' /\ latest' = latest
      BY <1>0, <1>9 DEF FiledOK, Execute, hist
    <2> QED
      BY <1>0, <2>4, <2>5, <2>6, WalkType, KeepsResults, TypedParts DEF Filing
  <1>10. ASSUME NEW p \in Procs, LoadPolicy(p)
         PROVE Typed'
    <2>1. mine[p].run \in Runs /\ mine[p] \in Locals /\ version \in Versions
      BY <1>0, <1>10, HasRun DEF LoadPolicy, FiledOK
    <2> DEFINE l == [mine[p] EXCEPT !.bound = version]
    <2>2. l \in Locals /\ l.run = mine[p].run
      BY <2>1 DEF Locals
    <2>3. Walk(p, "fetch", l) \/ Walk(p, "fetch", mine[p])
      <3>1. CASE Monitors(p)
        BY <1>10, <2>1, <2>2, <3>1 DEF Walk, LoadPolicy, Active, Owing
      <3>2. CASE ~Monitors(p)
        BY <1>0, <1>10, <3>2, GoOnWalks DEF LoadPolicy, Active, Owing
      <3> QED
        BY <3>1, <3>2
    <2>4. RowsOK'
      <3>1. mine[p].trigger \in Triggers
        BY <2>1 DEF Locals
      <3> QED
        BY <1>0, <1>10, <2>1, <3>1, StageType DEF RowsOK, LoadPolicy, Stages
    <2>5. FiledOK' /\ latest' = latest
      BY <1>0, <1>10 DEF FiledOK, LoadPolicy, hist
    <2> QED
      BY <1>0, <2>3, <2>4, <2>5, WalkType, KeepsResults, TypedParts DEF Filing
  <1>11. ASSUME NEW p \in Procs, Observe(p)
         PROVE Typed'
    <2>1. mine[p].run \in Runs /\ mine[p] \in Locals
      BY <1>0, <1>11, HasRun DEF Observe
    <2>2. PICK f \in StepFindings : AddResult(p, f)
      BY <1>11 DEF Observe
    <2>3. ResultOf(p, f) \in Results
      BY <2>1, FindingsType, ResultType
    <2>4. Walk(p, "finish", mine[p])
      BY <1>0, <1>11, GoOnWalks DEF Observe, Active, Owing
    <2>5. RowsOK'
      BY <1>0, <1>11 DEF RowsOK, Observe
    <2>6. /\ FiledOK' /\ latest'[mine[p].run] \in Results
          /\ \A r \in Runs : latest'[r] = latest[r] \/ latest'[r] \in Results
      BY <1>0, <1>11, <2>1, <2>2, <2>3 DEF FiledOK, AddResult, Observe, hist
    <2> QED
      BY <1>0, <2>4, <2>5, <2>6, WalkType, KeepsResults, TypedParts DEF Filing
  <1>12. ASSUME NEW p \in Procs, FinishRun(p) \/ MonitorDone(p)
         PROVE Typed'
    <2>1. mine[p].run \in Runs /\ mine[p] \in Locals
      BY <1>0, <1>12, HasRun DEF FinishRun, MonitorDone
    <2>2. RowsOK'
      <3>1. SaveRow(p)
        BY <1>12 DEF FinishRun, MonitorDone
      <3>2. mine[p].trigger \in Triggers /\ mine[p].bound \in Versions
        BY <2>1 DEF Locals
      <3>3. trigger' \in [Runs -> Triggers] /\ mode' \in [Runs -> {"ask", ""}] /\ pinned' \in [Runs -> Versions]
        BY <1>0, <2>1, <3>1, <3>2 DEF RowsOK, SaveRow
      <3> QED
        BY <1>0, <2>1, <3>1, <3>3, StageType DEF RowsOK, SaveRow, Stages, Terminal
    <2>3. FiledOK' /\ latest' = latest
      BY <1>0, <1>12 DEF FiledOK, FinishRun, MonitorDone, hist
    <2>4. CASE FinishRun(p)
      <3> DEFINE l == [mine[p] EXCEPT !.ask = FALSE]
      <3>1. l \in Locals /\ l.run = mine[p].run
        BY <2>1 DEF Locals
      <3>2. Walk(p, "notify", l)
        BY <2>1, <2>4, <3>1 DEF Walk, FinishRun, Active
      <3>3. latest'[l.run] \in Results
        BY <1>0, <2>3, <2>4, <3>1 DEF ResultAtHand, FinishRun
      <3> QED
        BY <1>0, <2>2, <2>3, <3>2, <3>3, WalkType, KeepsResults, TypedParts DEF Filing
    <2>5. CASE MonitorDone(p)
      <3>1. PICK f \in MonitorFindings : Remember(p, [mine[p] EXCEPT !.found = f, !.ask = FALSE])
        BY <2>5 DEF MonitorDone
      <3> DEFINE l == [mine[p] EXCEPT !.found = f, !.ask = FALSE]
      <3>2. f \in Kinds \X Quality
        BY FindingsType
      <3>3. l \in Locals /\ l.run = mine[p].run
        BY <2>1, <3>2 DEF Locals
      <3>4. Walk(p, "wrap", l)
        BY <2>1, <2>5, <3>1, <3>3 DEF Walk, MonitorDone, Active
      <3> QED
        BY <1>0, <2>2, <2>3, <3>4, WalkType, KeepsResults, TypedParts DEF Filing
    <2> QED
      BY <1>12, <2>4, <2>5
  <1>13. ASSUME NEW p \in Procs, Notify(p)
         PROVE Typed'
    <2>1. Walk(p, "verify", mine[p]) /\ mine[p].run \in Runs
      BY <1>0, <1>13, GoOnWalks, HasRun DEF Notify, Active
    <2>2. RowsOK' /\ FiledOK' /\ latest' = latest
      BY <1>0, <1>13 DEF RowsOK, FiledOK, Notify, db, hist
    <2>3. latest[mine[p].run] \in Results
      BY <1>0, <1>13 DEF ResultAtHand, Notify
    <2> QED
      BY <1>0, <2>1, <2>2, <2>3, WalkType, KeepsResults, TypedParts DEF Filing
  <1>14. ASSUME NEW p \in Procs, Fail(p)
         PROVE Typed'
    <2>1. pc[p] # "idle"
      BY <1>14 DEF Fail, Guarded
    <2>2. mine[p].run \in Runs /\ mine[p] \in Locals
      BY <1>0, <2>1, HasRun
    <2>3. PICK f \in Failures : Remember(p, [mine[p] EXCEPT !.found = f])
      BY <1>14 DEF Fail
    <2> DEFINE l == [mine[p] EXCEPT !.found = f]
    <2>4. f \in Kinds \X Quality
      BY FindingsType
    <2>5. l \in Locals /\ l.run = mine[p].run
      BY <2>2, <2>4 DEF Locals
    <2>6. Walk(p, "wrap", l)
      BY <1>14, <2>2, <2>3, <2>5 DEF Walk, Fail, Active
    <2>7. RowsOK'
      BY <1>0, <1>14, <2>2, StageType DEF RowsOK, Fail, Stages, Terminal
    <2>8. FiledOK' /\ latest' = latest
      BY <1>0, <1>14 DEF FiledOK, Fail, hist
    <2> QED
      BY <1>0, <2>6, <2>7, <2>8, WalkType, KeepsResults, TypedParts DEF Filing
  <1>15. ASSUME NEW p \in Procs, Wrap(p)
         PROVE Typed'
    <2>1. mine[p].run \in Runs /\ mine[p] \in Locals
      BY <1>0, <1>15, HasRun DEF Wrap
    <2>2. mine[p].found \in Kinds \X Quality
      BY <2>1 DEF Locals
    <2>3. ResultOf(p, mine[p].found) \in Results
      BY <2>1, <2>2, ResultType
    <2>4. Walk(p, "verify", mine[p])
      BY <1>0, <1>15, GoOnWalks DEF Wrap, Active
    <2>5. RowsOK'
      BY <1>0, <1>15 DEF RowsOK, Wrap
    <2>6. /\ FiledOK' /\ latest'[mine[p].run] \in Results
          /\ \A r \in Runs : latest'[r] = latest[r] \/ latest'[r] \in Results
      BY <1>0, <1>15, <2>1, <2>3 DEF FiledOK, AddResult, Wrap, hist
    <2> QED
      BY <1>0, <2>4, <2>5, <2>6, WalkType, KeepsResults, TypedParts DEF Filing
  <1>16. ASSUME NEW p \in Procs, Repair(p)
         PROVE Typed'
    <2>1. mine[p].run \in Runs /\ mine[p] \in Locals
      BY <1>0, <1>16, HasRun DEF Repair
    <2> DEFINE l == [mine[p] EXCEPT !.attempt = mine[p].attempt + 1]
    <2>2. mine[p].attempt + 1 \in 0..MaxRetries
      <3>1. mine[p].attempt \in 0..MaxRetries /\ mine[p].attempt < MaxRetries
        BY <1>16, <2>1 DEF Repair, Locals
      <3> QED
        BY <3>1, ConstantsAssumption
    <2>3. l \in Locals /\ l.run = mine[p].run
      BY <2>1, <2>2 DEF Locals
    <2>4. Walk(p, "execute", l)
      BY <1>16, <2>1, <2>3 DEF Walk, Repair, Active, Owing
    <2>5. RowsOK'
      BY <1>0, <1>16, <2>1, StageType DEF RowsOK, Repair, Stages
    <2>6. FiledOK' /\ latest' = latest
      BY <1>0, <1>16 DEF FiledOK, Repair, hist
    <2> QED
      BY <1>0, <2>4, <2>5, <2>6, WalkType, KeepsResults, TypedParts DEF Filing
  <1>17. ASSUME NEW p \in Procs, Accept(p)
         PROVE Typed'
    <2>1. mine[p].run \in Runs /\ mine[p] \in Locals
      BY <1>0, <1>17, HasRun DEF Accept
    <2>2. latest[mine[p].run] \in Results
      BY <1>0, <1>17 DEF ResultAtHand, Accept
    <2> DEFINE l == [mine[p] EXCEPT !.result = latest[mine[p].run],
                                    !.failed = (status[mine[p].run] = "error")]
    <2>3. l \in Locals /\ l.run = mine[p].run /\ l.result = latest[mine[p].run]
      BY <2>1, <2>2 DEF Locals
    <2>4. Walk(p, "persist", l)
      BY <1>17, <2>1, <2>3 DEF Walk, Accept, Filing
    <2>5. RowsOK' /\ FiledOK' /\ latest' = latest
      BY <1>0, <1>17 DEF RowsOK, FiledOK, Accept, db, hist
    <2> QED
      BY <1>0, <2>2, <2>3, <2>4, <2>5, WalkType, KeepsResults, TypedParts DEF Filing
  <1>18. ASSUME NEW p \in Procs, Persist(p) \/ Receipt(p)
         PROVE Typed'
    <2>1. mine[p].run \in Runs /\ mine[p] \in Locals
      BY <1>0, <1>18, HasRun DEF Persist, Receipt
    <2>2. mine[p].result \in Results
      BY <1>0, <1>18 DEF ResultAtHand, Persist, Receipt, Filing
    <2>3. RecordOf(p) \in Records
      BY <2>1, <2>2, VerdictType DEF RecordOf, Records, Locals
    <2>4. PICK label \in {"receipt", "close"} : Walk(p, label, mine[p])
      BY <1>0, <1>18, GoOnWalks DEF Persist, Receipt, Filing
    <2>5. RowsOK'
      BY <1>0, <1>18 DEF RowsOK, Persist, Receipt
    <2>6. FiledOK' /\ latest' = latest
      BY <1>0, <1>18, <2>1, <2>3 DEF FiledOK, Persist, Receipt, hist
    <2> QED
      BY <1>0, <2>2, <2>4, <2>5, <2>6, WalkType, KeepsResults, TypedParts
  <1>19. ASSUME NEW p \in Procs, Conclude(p)
         PROVE Typed'
    <2>1. Walk(p, "idle", Idle) /\ mine[p].run \in Runs
      BY <1>0, <1>19, LeaveWalks, HasRun DEF Conclude
    <2>2. RowsOK'
      BY <1>0, <1>19, <2>1, StageType DEF RowsOK, Conclude, Stages, Terminal
    <2>3. FiledOK' /\ latest' = latest
      BY <1>0, <1>19 DEF FiledOK, Conclude, hist
    <2> QED
      BY <1>0, <2>1, <2>2, <2>3, WalkType, KeepsResults, TypedParts DEF Filing
  <1>20. ASSUME NEW p \in Procs, Lose(p)
         PROVE Typed'
    <2>1. Walk(p, "idle", Idle) /\ mine[p].run \in Runs
      BY <1>0, <1>20, LeaveWalks, HasRun DEF Lose
    <2>2. RowsOK' /\ FiledOK' /\ latest' = latest
      BY <1>0, <1>20, <2>1 DEF RowsOK, FiledOK, Lose, db
    <2> QED
      BY <1>0, <2>1, <2>2, WalkType, KeepsResults, TypedParts DEF Filing
  <1>21. CASE UNCHANGED vars
    <2>1. RowsOK' /\ FiledOK' /\ ProcsOK' /\ ResultAtHand'
      BY <1>0, <1>21 DEF RowsOK, FiledOK, ProcsOK, ResultAtHand, vars, db, procs, hist
    <2> QED
      BY <2>1, TypedParts
  <1>22. CASE Next
    <2>1. CASE Edit
      <3>1. ProcsOK' /\ RowsOK' /\ ResultAtHand'
        BY <1>0, <2>1 DEF RowsOK, ProcsOK, ResultAtHand, Edit, db, procs
      <3>2. FiledOK'
        BY <1>0, <2>1, ConstantsAssumption DEF FiledOK, Versions, Edit, db, hist
      <3> QED
        BY <3>1, <3>2, TypedParts
    <2> QED
      BY <1>1, <1>2, <1>3, <1>4, <1>5, <1>6, <1>7, <1>8, <1>9, <1>10, <1>11, <1>12, <1>13,
         <1>14, <1>15, <1>16, <1>17, <1>18, <1>19, <1>20, <1>22, <2>1 DEF Next, Proceed
  <1> QED
    BY <1>21, <1>22

-----------------------------------------------------------------------------
(* No run is forgotten half way *)

\* A step of the code a process is in disturbs no other process, and the
\* process stays with its run until it leaves.
LEMMA ProceedMoves ==
  ASSUME TypeOK, NEW p \in Procs, Proceed(p)
  PROVE  /\ \A q \in Procs : q # p => pc'[q] = pc[q] /\ mine'[q] = mine[q]
         /\ pc'[p] = "idle" \/ mine'[p].run = mine[p].run
         /\ mine[p].run \in Runs
  <1>1. pc \in [Procs -> {"idle"} \cup Active \cup Filing] /\ mine \in [Procs -> Locals]
    BY DEF TypeOK, ProcsOK
  <1>2. mine[p] \in Locals
    BY <1>1
  <1>3. pc[p] # "idle"
    BY DEF Proceed, Publish, PublishFails, Start, Plan, Execute, LoadPolicy, Fetch, Observe,
           FinishRun, MonitorDone, Fail, Guarded, Wrap, Notify, Repair, Accept, Persist, Receipt, Conclude
  <1>4. \E label : Goto(p, label)
    BY DEF Proceed, Publish, PublishFails, Start, Plan, Execute, LoadPolicy, Fetch, Observe,
           FinishRun, MonitorDone, Fail, Wrap, Notify, Repair, Accept, Persist, Receipt, Conclude, Leave
  <1>5. \A q \in Procs : q # p => pc'[q] = pc[q]
    BY <1>1, <1>4 DEF Goto
  <1>6. CASE Leave(p)
    BY <1>1, <1>2, <1>3, <1>5, <1>6, HasRun DEF Leave, Goto, Remember
  <1>7. CASE \E l : l.run = mine[p].run /\ Remember(p, l)
    BY <1>1, <1>2, <1>3, <1>5, <1>7, HasRun DEF Remember
  <1>8. CASE mine' = mine
    BY <1>3, <1>5, <1>8, HasRun
  <1>9. Start(p) => \E l : l.run = mine[p].run /\ Remember(p, l)
    <2> DEFINE l == [mine[p] EXCEPT !.loopVersion = version, !.ask = (mode[mine[p].run] = "ask")]
    <2>1. l.run = mine[p].run
      BY <1>2 DEF Locals
    <2> QED
      BY <2>1 DEF Start
  <1>10. Execute(p) => \E l : l.run = mine[p].run /\ Remember(p, l)
    <2> DEFINE l == [mine[p] EXCEPT !.execVersion = version, !.bound = version,
                                    !.workflow = IF mine[p].ask THEN Ask ELSE version]
    <2>1. l.run = mine[p].run
      BY <1>2 DEF Locals
    <2> QED
      BY <2>1 DEF Execute
  <1>11. LoadPolicy(p) => mine' = mine \/ \E l : l.run = mine[p].run /\ Remember(p, l)
    <2> DEFINE l == [mine[p] EXCEPT !.bound = version]
    <2>1. l.run = mine[p].run
      BY <1>2 DEF Locals
    <2> QED
      BY <2>1 DEF LoadPolicy
  <1>12. FinishRun(p) => \E l : l.run = mine[p].run /\ Remember(p, l)
    <2> DEFINE l == [mine[p] EXCEPT !.ask = FALSE]
    <2>1. l.run = mine[p].run
      BY <1>2 DEF Locals
    <2> QED
      BY <2>1 DEF FinishRun
  <1>13. MonitorDone(p) => \E l : l.run = mine[p].run /\ Remember(p, l)
    <2> DEFINE l(f) == [mine[p] EXCEPT !.found = f, !.ask = FALSE]
    <2>1. \A f : l(f).run = mine[p].run
      BY <1>2 DEF Locals
    <2> QED
      BY <2>1 DEF MonitorDone
  <1>14. Fail(p) => \E l : l.run = mine[p].run /\ Remember(p, l)
    <2> DEFINE l(f) == [mine[p] EXCEPT !.found = f]
    <2>1. \A f : l(f).run = mine[p].run
      BY <1>2 DEF Locals
    <2> QED
      BY <2>1 DEF Fail
  <1>15. Repair(p) => \E l : l.run = mine[p].run /\ Remember(p, l)
    <2> DEFINE l == [mine[p] EXCEPT !.attempt = mine[p].attempt + 1]
    <2>1. l.run = mine[p].run
      BY <1>2 DEF Locals
    <2> QED
      BY <2>1 DEF Repair
  <1>16. Accept(p) => \E l : l.run = mine[p].run /\ Remember(p, l)
    <2> DEFINE l == [mine[p] EXCEPT !.result = latest[mine[p].run],
                                    !.failed = (status[mine[p].run] = "error")]
    <2>1. l.run = mine[p].run
      BY <1>2 DEF Locals
    <2> QED
      BY <2>1 DEF Accept
  <1>17. Plan(p) \/ Fetch(p) \/ Observe(p) \/ Notify(p) \/ Wrap(p) \/ Persist(p) \/ Receipt(p) => mine' = mine
    BY DEF Plan, Fetch, Observe, Notify, Wrap, Persist, Receipt
  <1>18. Publish(p) \/ PublishFails(p) \/ Conclude(p) => Leave(p)
    BY DEF Publish, PublishFails, Conclude
  <1> QED
    BY <1>6, <1>7, <1>8, <1>9, <1>10, <1>11, <1>12, <1>13, <1>14, <1>15, <1>16, <1>17, <1>18 DEF Proceed

\* The invariant: a run that is not settled is in the hands of somebody who owes
\* it an end. The types are needed for it, and nothing else is.
Inv == Typed /\ SettledWhenIdle

\* A step of p keeps a run tended if p owes it an end afterwards, or leaves it
\* queued, lost or settled, or did not owe it one and leaves its rows alone.
LEMMA StaysTended ==
  ASSUME NEW p \in Procs, NEW r \in Runs, Tended(r),
         \A q \in Procs : q # p => pc'[q] = pc[q] /\ mine'[q] = mine[q],
         \/ Owes(p, r)'
         \/ r \in queue' \/ r \in lost'
         \/ Settled(r)'
         \/ /\ ~Owes(p, r)
            /\ stage'[r] = stage[r] /\ status'[r] = status[r]
            /\ queue' = queue /\ lost' = lost
  PROVE  Tended(r)'
  BY DEF Tended, Owes, On, Settled

\* The steps that reopen a run or work on it: the process owes it an end.
LEMMA WorkStaysTended ==
  ASSUME TypeOK, NEW p \in Procs, NEW r \in Runs, Tended(r), Proceed(p),
         \/ Start(p) \/ Plan(p) \/ Execute(p) \/ LoadPolicy(p) \/ Fetch(p)
         \/ Observe(p) \/ Repair(p)
  PROVE  Tended(r)'
  <1>1. /\ \A q \in Procs : q # p => pc'[q] = pc[q] /\ mine'[q] = mine[q]
        /\ pc'[p] = "idle" \/ mine'[p].run = mine[p].run
        /\ mine[p].run \in Runs
    BY ProceedMoves
  <1>2. pc'[p] \in Owing
    BY DEF TypeOK, ProcsOK, Start, Plan, Execute, LoadPolicy, Fetch, Observe, Repair, Goto, Owing
  <1>3. "idle" \notin Owing
    BY DEF Owing
  <1>4. CASE mine[p].run = r
    <2>1. Owes(p, r)'
      BY <1>1, <1>2, <1>3, <1>4 DEF Owes, On
    <2> QED
      BY <1>1, <2>1, StaysTended
  <1>5. CASE mine[p].run # r
    <2>1. ~Owes(p, r)
      BY <1>5 DEF Owes, On
    <2>2. stage'[r] = stage[r] /\ status'[r] = status[r] /\ queue' = queue /\ lost' = lost
      BY <1>1, <1>5 DEF TypeOK, RowsOK, Start, Create, Plan, Execute, LoadPolicy, Fetch,
                        Observe, Repair, SetStage, db, hist
    <2> QED
      BY <1>1, <2>1, <2>2, StaysTended
  <1> QED
    BY <1>4, <1>5

\* The steps that end an execution settle the run.
LEMMA CloseStaysTended ==
  ASSUME TypeOK, NEW p \in Procs, NEW r \in Runs, Tended(r), Proceed(p),
         PublishFails(p) \/ FinishRun(p) \/ MonitorDone(p) \/ Fail(p)
  PROVE  Tended(r)'
  <1>1. /\ \A q \in Procs : q # p => pc'[q] = pc[q] /\ mine'[q] = mine[q]
        /\ mine[p].run \in Runs
    BY ProceedMoves
  <1>2. PICK s \in Terminal : Close(mine[p].run, s)
    BY DEF PublishFails, FinishRun, MonitorDone, Fail, SaveRow, Terminal
  <1>3. queue' = queue /\ lost' = lost
    BY DEF PublishFails, FinishRun, MonitorDone, Fail, hist
  <1>4. CASE mine[p].run = r
    <2>1. Settled(r)'
      BY <1>1, <1>2, <1>4 DEF TypeOK, RowsOK, Close, Settled, Terminal
    <2> QED
      BY <1>1, <2>1, StaysTended
  <1>5. CASE mine[p].run # r
    <2>1. ~Owes(p, r)
      BY <1>5 DEF Owes, On
    <2>2. stage'[r] = stage[r] /\ status'[r] = status[r]
      BY <1>1, <1>2, <1>5 DEF TypeOK, RowsOK, Close
    <2> QED
      BY <1>1, <1>3, <2>1, <2>2, StaysTended
  <1> QED
    BY <1>4, <1>5

\* The steps after an execution leave the stage alone or settle the run.
LEMMA FileStaysTended ==
  ASSUME TypeOK, NEW p \in Procs, NEW r \in Runs, Tended(r), Proceed(p),
         Notify(p) \/ Wrap(p) \/ Accept(p) \/ Persist(p) \/ Receipt(p) \/ Conclude(p)
  PROVE  Tended(r)'
  <1>1. /\ \A q \in Procs : q # p => pc'[q] = pc[q] /\ mine'[q] = mine[q]
        /\ mine[p].run \in Runs
    BY ProceedMoves
  <1>2. ~Owes(p, r)
    BY DEF Notify, Wrap, Accept, Persist, Receipt, Conclude, Owes, Owing
  <1>3. queue' = queue /\ lost' = lost
    BY DEF Notify, Wrap, Accept, Persist, Receipt, Conclude, hist
  <1>4. Settled(r)' \/ (stage'[r] = stage[r] /\ status'[r] = status[r])
    BY <1>1 DEF TypeOK, RowsOK, Notify, Wrap, Accept, Persist, Receipt, Conclude, Close, Settled, db
  <1> QED
    BY <1>1, <1>2, <1>3, <1>4, StaysTended

LEMMA SettledNext == Inv /\ [Next]_vars => SettledWhenIdle'
  <1> SUFFICES ASSUME Inv, [Next]_vars, NEW r \in Runs PROVE Tended(r)'
    BY DEF SettledWhenIdle
  <1>0. TypeOK /\ Tended(r) /\ pc \in [Procs -> {"idle"} \cup Active \cup Filing]
        /\ mine \in [Procs -> Locals] /\ stage \in [Runs -> Stages]
    BY DEF Inv, Typed, SettledWhenIdle, TypeOK, ProcsOK, RowsOK
  <1>1. ASSUME NEW p \in Procs, NEW s \in Runs, NEW t \in Triggers, NEW label \in Owing,
               pc[p] = "idle", TakeUp(p, s, t, label),
               s = r \/ (stage'[r] = stage[r] /\ status'[r] = status[r] /\ lost' = lost
                         /\ (r \in queue => r \in queue'))
        PROVE Tended(r)'
    <2>1. \A q \in Procs : q # p => pc'[q] = pc[q] /\ mine'[q] = mine[q]
      BY <1>0, <1>1 DEF TakeUp, Goto, Remember
    <2>2. pc'[p] = label /\ mine'[p].run = s
      BY <1>0, <1>1 DEF TakeUp, Goto, Remember, Locals
    <2>3. ~Owes(p, r)
      BY <1>1 DEF Owes, Owing
    <2> QED
      BY <1>0, <1>1, <2>1, <2>2, <2>3 DEF Tended, Owes, On, Settled
  <1>2. ASSUME NEW p \in Procs, NEW s \in Runs, NEW t \in Published, Request(p, s, t)
        PROVE Tended(r)'
    BY <1>0, <1>1, <1>2 DEF Request, Create, Triggers, Owing, hist
  <1>3. ASSUME NEW p \in Procs, NEW s \in Runs, NEW m \in {"ask", ""}, Chat(p, s, m)
        PROVE Tended(r)'
    BY <1>0, <1>1, <1>3 DEF Chat, Create, Triggers, Owing
  <1>4. ASSUME NEW p \in Procs, NEW s \in Runs, Kick(p, s) \/ Take(p, s)
        PROVE Tended(r)'
    <2>1. trigger[s] \in Triggers /\ "start" \in Owing
      BY <1>0 DEF TypeOK, RowsOK, Owing
    <2> QED
      BY <1>0, <1>1, <1>4, <2>1 DEF Kick, Take, db, hist
  <1>5. ASSUME NEW s \in Runs, Beat(s) \/ Edit
        PROVE Tended(r)'
    BY <1>0, <1>5 DEF Beat, Edit, Tended, Owes, On, Settled, db, procs, hist
  <1>6. ASSUME NEW p \in Procs, Publish(p)
        PROVE Tended(r)'
    <2>1. \A q \in Procs : q # p => pc'[q] = pc[q] /\ mine'[q] = mine[q]
      BY <1>0, <1>6, ProceedMoves DEF Proceed
    <2>2. CASE mine[p].run = r
      BY <1>0, <1>6, <2>1, <2>2, StaysTended DEF Publish
    <2>3. CASE mine[p].run # r
      BY <1>0, <1>6, <2>1, <2>3 DEF Publish, Tended, Owes, On, Settled, db, hist
    <2> QED
      BY <2>2, <2>3
  <1>7. ASSUME NEW p \in Procs, Lose(p)
        PROVE Tended(r)'
    <2>1. \A q \in Procs : q # p => pc'[q] = pc[q] /\ mine'[q] = mine[q]
      BY <1>0, <1>7 DEF Lose, Leave, Goto, Remember
    <2>2. CASE mine[p].run = r
      BY <1>7, <2>2 DEF Lose, Tended
    <2>3. CASE mine[p].run # r
      BY <1>0, <1>7, <2>1, <2>3 DEF Lose, Tended, Owes, On, Settled, db
    <2> QED
      BY <2>2, <2>3
  <1>8. CASE UNCHANGED vars
    BY <1>0, <1>8 DEF vars, db, procs, hist, Tended, Owes, On, Settled
  <1>9. CASE Next
    <2>1. CASE Edit
      BY <1>0, <1>5, <2>1
    <2>2. ASSUME NEW p \in Procs, Proceed(p)
          PROVE Tended(r)'
      BY <1>0, <1>6, <2>2, WorkStaysTended, CloseStaysTended, FileStaysTended DEF Proceed
    <2> QED
      BY <1>2, <1>3, <1>4, <1>5, <1>7, <1>9, <2>1, <2>2 DEF Next
  <1> QED
    BY <1>8, <1>9

-----------------------------------------------------------------------------
(* A run that ended is history *)

RowsOf(r) ==
  <<stage[r], status[r], pinned[r], latest[r], verifications[r], receipts[r]>>

\* A process leaves the rows, the message and the losses of every run but its
\* own alone.
LEMMA OthersUntouched ==
  ASSUME TypeOK, NEW p \in Procs, NEW r \in Runs, Proceed(p), mine[p].run # r
  PROVE  /\ RowsOf(r)' = RowsOf(r)
         /\ r \in queue' <=> r \in queue
         /\ lost' = lost
  <1>1. mine[p].run \in Runs
    BY ProceedMoves
  <1>2. stage'[r] = stage[r] /\ status'[r] = status[r] /\ pinned'[r] = pinned[r]
    BY <1>1 DEF TypeOK, RowsOK, Proceed, Publish, PublishFails, Start, Create, Plan, Execute,
         LoadPolicy, Fetch, Observe, FinishRun, SaveRow, Notify, MonitorDone, Fail, Wrap, Repair,
         Accept, Persist, Receipt, Conclude, SetStage, Close, db
  <1>3. latest'[r] = latest[r] /\ verifications'[r] = verifications[r] /\ receipts'[r] = receipts[r]
    BY <1>1 DEF TypeOK, FiledOK, Proceed, Publish, PublishFails, Start, Create, Plan, Execute,
         LoadPolicy, Fetch, Observe, FinishRun, Notify, MonitorDone, Fail, Wrap, Repair,
         Accept, Persist, Receipt, Conclude, AddResult, db
  <1>4. (r \in queue' <=> r \in queue) /\ lost' = lost
    BY <1>1 DEF Proceed, Publish, PublishFails, Start, Plan, Execute,
         LoadPolicy, Fetch, Observe, FinishRun, Notify, MonitorDone, Fail, Wrap, Repair,
         Accept, Persist, Receipt, Conclude, hist
  <1> QED
    BY <1>2, <1>3, <1>4 DEF RowsOf

FinalStep == \A r \in Runs : Final(r) => Final(r)' /\ RowsOf(r)' = RowsOf(r)

\* No step takes up a run that is settled and in nobody's hands, and none writes
\* to it.
LEMMA FinalNext == TypeOK /\ [Next]_vars => FinalStep
  <1> SUFFICES ASSUME TypeOK, [Next]_vars, NEW r \in Runs, Final(r)
               PROVE  Final(r)' /\ RowsOf(r)' = RowsOf(r)
    BY DEF FinalStep
  <1>0. /\ Settled(r) /\ r \notin queue /\ \A p \in Procs : mine[p].run # r
        /\ stage[r] \in Terminal
        /\ pc \in [Procs -> {"idle"} \cup Active \cup Filing]
        /\ mine \in [Procs -> Locals] /\ stage \in [Runs -> Stages]
    BY DEF Final, Handled, On, Settled, Terminal, TypeOK, ProcsOK, RowsOK
  <1>1. SUFFICES /\ RowsOf(r)' = RowsOf(r) /\ r \notin queue'
                 /\ \A q \in Procs : mine'[q].run # r
    BY <1>0, <1>1 DEF Final, Handled, On, Settled, RowsOf
  <1>2. ASSUME NEW p \in Procs, NEW s \in Runs, NEW t, NEW label, TakeUp(p, s, t, label), s # r
        PROVE \A q \in Procs : mine'[q].run # r
    BY <1>0, <1>2 DEF TakeUp, Remember, Locals
  <1>3. ASSUME NEW p \in Procs, Leave(p)
        PROVE \A q \in Procs : mine'[q].run # r
    BY <1>0, <1>3, ConstantsAssumption DEF Leave, Remember, Idle
  <1>4. ASSUME NEW p \in Procs, NEW s \in Runs, NEW t \in Published, Request(p, s, t)
        PROVE /\ RowsOf(r)' = RowsOf(r) /\ r \notin queue'
              /\ \A q \in Procs : mine'[q].run # r
    <2>1. s # r
      BY <1>0, <1>4 DEF Request, Unused, Terminal
    <2> QED
      BY <1>0, <1>2, <1>4, <2>1 DEF Request, Create, RowsOf, TypeOK, RowsOK
  <1>5. ASSUME NEW p \in Procs, NEW s \in Runs, NEW m \in {"ask", ""}, Chat(p, s, m)
        PROVE /\ RowsOf(r)' = RowsOf(r) /\ r \notin queue'
              /\ \A q \in Procs : mine'[q].run # r
    <2>1. s # r
      BY <1>0, <1>5 DEF Chat, Unused, Terminal
    <2> QED
      BY <1>0, <1>2, <1>5, <2>1 DEF Chat, Create, RowsOf, TypeOK, RowsOK
  <1>6. ASSUME NEW p \in Procs, NEW s \in Runs, Kick(p, s) \/ Take(p, s)
        PROVE /\ RowsOf(r)' = RowsOf(r) /\ r \notin queue'
              /\ \A q \in Procs : mine'[q].run # r
    <2>1. s # r
      BY <1>0, <1>6 DEF Kick, Take, Terminal
    <2> QED
      BY <1>0, <1>2, <1>6, <2>1 DEF Kick, Take, RowsOf, db
  <1>7. ASSUME NEW s \in Runs, Beat(s) \/ Edit
        PROVE /\ RowsOf(r)' = RowsOf(r) /\ r \notin queue'
              /\ \A q \in Procs : mine'[q].run # r
    BY <1>0, <1>7 DEF Beat, Edit, Unused, Terminal, RowsOf, db, procs
  <1>8. ASSUME NEW p \in Procs, Proceed(p)
        PROVE /\ RowsOf(r)' = RowsOf(r) /\ r \notin queue'
              /\ \A q \in Procs : mine'[q].run # r
    <2>1. RowsOf(r)' = RowsOf(r) /\ r \notin queue'
      BY <1>0, <1>8, OthersUntouched
    <2>2. /\ \A q \in Procs : q # p => mine'[q] = mine[q]
          /\ pc'[p] = "idle" \/ mine'[p].run = mine[p].run
      BY <1>8, ProceedMoves
    <2>3. pc'[p] = "idle" => Leave(p)
      BY <1>0, <1>8 DEF Proceed, Publish, PublishFails, Start, Plan, Execute,
         LoadPolicy, Fetch, Observe, FinishRun, Notify, MonitorDone, Fail, Wrap, Repair,
         Accept, Persist, Receipt, Conclude, Goto
    <2> QED
      BY <1>0, <1>3, <2>1, <2>2, <2>3
  <1>9. ASSUME NEW p \in Procs, Lose(p)
        PROVE /\ RowsOf(r)' = RowsOf(r) /\ r \notin queue'
              /\ \A q \in Procs : mine'[q].run # r
    BY <1>0, <1>3, <1>9 DEF Lose, RowsOf, db
  <1>10. CASE UNCHANGED vars
    BY <1>0, <1>10 DEF vars, db, procs, RowsOf
  <1>11. CASE Next
    <2>1. CASE Edit
      BY <1>7, <2>1
    <2> QED
      BY <1>4, <1>5, <1>6, <1>7, <1>8, <1>9, <1>11, <2>1 DEF Next
  <1> QED
    BY <1>10, <1>11

-----------------------------------------------------------------------------
(* The theorems *)

\* For any instance, the types and the results at hand hold in every state.
THEOREM TypesHold == Spec => []Typed
  BY TypedInit, TypedNext, PTL DEF Spec

\* The inductive invariant of the lifecycle.
THEOREM Invariance == Spec => []Inv
  <1>1. Init => Inv
    BY TypedInit DEF Inv, Init, SettledWhenIdle, Tended
  <1>2. Inv /\ [Next]_vars => Inv'
    BY TypedNext, SettledNext DEF Inv
  <1> QED
    BY <1>1, <1>2, PTL DEF Spec

\* TypeOK, for every number of runs, processes, versions and retries.
THEOREM TypeCorrectness == Spec => []TypeOK
  BY TypesHold, PTL DEF Typed

\* The loop never verifies or files a run that has no Result.
THEOREM ResultIsAtHand == Spec => []ResultAtHand
  BY TypesHold, PTL DEF Typed

\* No run is forgotten half way, however many requests, polls, workers, repairs
\* and edits interleave.
THEOREM NoRunForgotten == Spec => []SettledWhenIdle
  BY Invariance, PTL DEF Inv

\* A run that ended is never taken up or written to again.
THEOREM FinalRunsStay == Spec => FinalStays
  <1>1. FinalStep =>
          \A r \in Runs : Final(r) =>
            /\ Final(r)'
            /\ stage'[r] = stage[r] /\ pinned'[r] = pinned[r] /\ latest'[r] = latest[r]
            /\ verifications'[r] = verifications[r] /\ receipts'[r] = receipts[r]
    BY DEF FinalStep, RowsOf
  <1> QED
    BY <1>1, FinalNext, TypeCorrectness, PTL DEF Spec, FinalStays

-----------------------------------------------------------------------------
(***************************************************************************)
(* For any number of runs, processes, versions and repairs: the newest     *)
(* result of a run that nobody handles any more has its verification and   *)
(* its receipt, and a run that ended complete has a receipt.               *)
(***************************************************************************)

\* A process that will execute the run, or that will still accept a result.
Carries(p, r) == pc[p] \in Active \ {"publish"} /\ On(p, r)
Carried(r)    == r \in queue \/ r \in lost \/ \E p \in Procs : Carries(p, r)

\* A process that files the newest result.
Files(p, r) ==
  /\ On(p, r) /\ mine[p].result = latest[r]
  /\ \/ pc[p] = "persist"
     \/ pc[p] = "receipt" /\ RecordOf(p) \in verifications[r]

Documented(r) == \E rec \in verifications[r] \cap receipts[r] : rec.result = latest[r]

\* The newest result is filed, or somebody will file it or a newer one. It does
\* not matter whose result it is: whoever leaves the loop takes the newest.
NewestFiled(r) ==
  latest[r] # NoResult => Carried(r) \/ (\E p \in Procs : Files(p, r)) \/ Documented(r)

CompleteFiled(r) ==
  stage[r] = "complete" =>
    \/ Carried(r)
    \/ \E p \in Procs : On(p, r) /\ pc[p] \in {"persist", "receipt"}
    \/ receipts[r] # {}

CloserFiled(p) == pc[p] = "close" => receipts[mine[p].run] # {}

RunFiled == \A r \in Runs : NewestFiled(r) /\ CompleteFiled(r)
AllFiled == RunFiled /\ \A p \in Procs : CloserFiled(p)

\* What the steps below speak of: every process but p stands still.
Alone(p) == \A q \in Procs : q # p => pc'[q] = pc[q] /\ mine'[q] = mine[q]

-----------------------------------------------------------------------------
\* A run stays filed when p will carry it on.
LEMMA CarriedOn ==
  ASSUME NEW r \in Runs, Carried(r)'
  PROVE  NewestFiled(r)' /\ CompleteFiled(r)'
  BY DEF NewestFiled, CompleteFiled

\* A run stays filed when nothing that is filed under it goes, no result is
\* added, and p had no part in it.
LEMMA Undisturbed ==
  ASSUME NEW p \in Procs, NEW r \in Runs, Alone(p),
         NewestFiled(r), CompleteFiled(r),
         ~ Carries(p, r), ~ (On(p, r) /\ pc[p] \in {"persist", "receipt"}),
         r \in queue => r \in queue', lost \subseteq lost',
         latest'[r] = latest[r],
         verifications[r] \subseteq verifications'[r], receipts[r] \subseteq receipts'[r],
         stage'[r] = "complete" => stage[r] = "complete" \/ receipts'[r] # {}
  PROVE  NewestFiled(r)' /\ CompleteFiled(r)'
  <1>1. \A q \in Procs : Carries(q, r) => Carries(q, r)'
    BY DEF Carries, On, Alone
  <1>2. Carried(r) => Carried(r)'
    BY <1>1 DEF Carried
  <1>3. \A q \in Procs : Files(q, r) => Files(q, r)'
    BY DEF Files, On, Alone, RecordOf
  <1>4. Documented(r) => Documented(r)'
    BY DEF Documented
  <1>5. NewestFiled(r)'
    BY <1>2, <1>3, <1>4 DEF NewestFiled
  <1>6. CompleteFiled(r)'
    BY <1>2 DEF CompleteFiled, On, Alone
  <1> QED
    BY <1>5, <1>6

\* A process that enters the code had no run before.
LEMMA EnteringIsNew ==
  ASSUME TypeOK, NEW p \in Procs, pc[p] = "idle", NEW r \in Runs
  PROVE  ~On(p, r)
  BY ConstantsAssumption DEF TypeOK, ProcsOK, On

LEMMA TakeUpAlone ==
  ASSUME TypeOK, NEW p \in Procs, NEW s, NEW t, NEW label, TakeUp(p, s, t, label)
  PROVE  Alone(p) /\ pc'[p] = label /\ mine'[p].run = s
  BY DEF TakeUp, Goto, Remember, TypeOK, ProcsOK, Locals, Alone

\* The step of a process that leaves a run alone leaves it filed.
LEMMA OthersStayFiled ==
  ASSUME TypeOK, RunFiled, NEW p \in Procs, Proceed(p), NEW r \in Runs, mine[p].run # r
  PROVE  NewestFiled(r)' /\ CompleteFiled(r)'
  <1>1. Alone(p)
    BY ProceedMoves DEF Alone
  <1>2. RowsOf(r)' = RowsOf(r) /\ (r \in queue => r \in queue') /\ lost' = lost
    BY OthersUntouched
  <1>3. ~On(p, r)
    BY DEF On
  <1> QED
    BY <1>1, <1>2, <1>3, Undisturbed DEF RunFiled, RowsOf, Carries

\* The steps up to the verification, a repair and the failures included.
LEMMA WorkStaysFiled ==
  ASSUME TypeOK, NEW p \in Procs, Proceed(p), NEW r \in Runs, mine[p].run = r,
         \/ Start(p) \/ Plan(p) \/ Execute(p) \/ LoadPolicy(p) \/ Fetch(p) \/ Observe(p)
         \/ FinishRun(p) \/ Notify(p) \/ MonitorDone(p) \/ Fail(p) \/ Wrap(p) \/ Repair(p)
  PROVE  NewestFiled(r)' /\ CompleteFiled(r)' /\ pc'[p] # "close"
  <1>1. pc'[p] \in Active \ {"publish"} /\ pc'[p] # "close" /\ pc'[p] # "idle"
    BY DEF TypeOK, ProcsOK, Start, Plan, Execute, LoadPolicy, Fetch, Observe, FinishRun, Notify,
           MonitorDone, Fail, Wrap, Repair, Goto, Active, Owing
  <1>2. mine'[p].run = r
    BY <1>1, ProceedMoves
  <1>3. Carried(r)'
    BY <1>1, <1>2 DEF Carried, Carries, On
  <1> QED
    BY <1>1, <1>3, CarriedOn

\* Publishing hands the run to the broker; when that fails it ends as an error.
LEMMA PublishStaysFiled ==
  ASSUME TypeOK, RunFiled, NEW p \in Procs, NEW r \in Runs, mine[p].run = r,
         Publish(p) \/ PublishFails(p)
  PROVE  NewestFiled(r)' /\ CompleteFiled(r)' /\ pc'[p] # "close"
  <1>1. Alone(p)
    BY ProceedMoves DEF Proceed, Alone
  <1>2. pc[p] = "publish" /\ pc'[p] = "idle"
    BY DEF Publish, PublishFails, Leave, Goto, TypeOK, ProcsOK
  <1>3. CASE Publish(p)
    <2>1. Carried(r)'
      BY <1>3 DEF Publish, Carried
    <2> QED
      BY <1>2, <2>1, CarriedOn
  <1>4. CASE PublishFails(p)
    <2>1. stage'[r] # "complete"
      BY <1>4 DEF PublishFails, Close, TypeOK, RowsOK
    <2>2. UNCHANGED <<latest, verifications, receipts, queue, lost>>
      BY <1>4 DEF PublishFails, hist
    <2>3. ~ Carries(p, r) /\ pc[p] \notin {"persist", "receipt"}
      BY <1>2 DEF Carries
    <2> QED
      BY <1>1, <1>2, <2>1, <2>2, <2>3, Undisturbed DEF RunFiled
  <1> QED
    BY <1>3, <1>4

\* Whoever leaves the loop takes the newest result, whoever stored it.
LEMMA AcceptStaysFiled ==
  ASSUME TypeOK, RunFiled, NEW p \in Procs, NEW r \in Runs, mine[p].run = r, Accept(p)
  PROVE  NewestFiled(r)' /\ CompleteFiled(r)' /\ pc'[p] # "close"
  <1>1. pc \in [Procs -> {"idle"} \cup Active \cup Filing] /\ mine \in [Procs -> Locals]
    BY DEF TypeOK, ProcsOK
  <1>2. pc'[p] = "persist" /\ latest' = latest
    BY <1>1 DEF Accept, Goto, db
  <1>3. PICK l \in Locals : l = mine[p]
    BY <1>1
  <1>4. PICK k : k = mine'[p]
    OBVIOUS
  <1>5. k = [l EXCEPT !.result = latest[r], !.failed = (status[r] = "error")]
    BY <1>1, <1>3, <1>4 DEF Accept, Remember
  <1>6. k.run = l.run /\ k.result = latest[r]
    BY <1>5 DEF Locals
  <1>7. On(p, r)' /\ Files(p, r)'
    BY <1>2, <1>3, <1>4, <1>6 DEF On, Files
  <1> QED
    BY <1>2, <1>7 DEF NewestFiled, CompleteFiled

\* The verification, then the receipt, of what the process accepted.
LEMMA PersistStaysFiled ==
  ASSUME TypeOK, RunFiled, NEW p \in Procs, NEW r \in Runs, mine[p].run = r, Persist(p)
  PROVE  NewestFiled(r)' /\ CompleteFiled(r)' /\ pc'[p] # "close"
  <1>1. /\ Alone(p) /\ mine' = mine /\ pc[p] = "persist" /\ pc'[p] = "receipt"
        /\ UNCHANGED <<stage, latest, receipts, queue, lost>>
    BY ProceedMoves DEF Persist, Proceed, Alone, Goto, TypeOK, ProcsOK, hist
  <1>2. verifications'[r] = verifications[r] \cup {RecordOf(p)}
    BY DEF Persist, TypeOK, FiledOK
  <1>3. \A q \in Procs : Carries(q, r) => Carries(q, r)'
    BY <1>1 DEF Carries, On, Alone, Active, Owing
  <1>4. Carried(r) => Carried(r)'
    BY <1>1, <1>3 DEF Carried
  <1>5. \A q \in Procs : Files(q, r) => Files(q, r)'
    BY <1>1, <1>2 DEF Files, On, Alone, RecordOf
  <1>6. Documented(r) => Documented(r)'
    BY <1>1, <1>2 DEF Documented
  <1>7. On(p, r)'
    BY <1>1 DEF On
  <1> QED
    BY <1>1, <1>4, <1>5, <1>6, <1>7 DEF RunFiled, NewestFiled, CompleteFiled

LEMMA ReceiptStaysFiled ==
  ASSUME TypeOK, RunFiled, NEW p \in Procs, NEW r \in Runs, mine[p].run = r, Receipt(p)
  PROVE  NewestFiled(r)' /\ CompleteFiled(r)' /\ receipts'[r] # {}
  <1>1. /\ Alone(p) /\ mine' = mine /\ pc[p] = "receipt"
        /\ UNCHANGED <<stage, latest, verifications, queue, lost>>
    BY ProceedMoves DEF Receipt, Proceed, Alone, TypeOK, ProcsOK, hist
  <1>2. receipts'[r] = receipts[r] \cup {RecordOf(p)}
    BY DEF Receipt, TypeOK, FiledOK
  <1>3. \A q \in Procs : Carries(q, r) => Carries(q, r)'
    BY <1>1 DEF Carries, On, Alone, Active, Owing
  <1>4. Carried(r) => Carried(r)'
    BY <1>1, <1>3 DEF Carried
  <1>5. \A q \in Procs : q # p /\ Files(q, r) => Files(q, r)'
    BY <1>1 DEF Files, On, Alone, RecordOf
  <1>6. Documented(r) => Documented(r)'
    BY <1>1, <1>2 DEF Documented
  <1>7. Files(p, r) => Documented(r)'
    BY <1>1, <1>2 DEF Files, Documented, RecordOf
  <1> QED
    BY <1>1, <1>2, <1>4, <1>5, <1>6, <1>7 DEF RunFiled, NewestFiled, CompleteFiled

\* A run is closed as complete only after its receipt.
LEMMA ConcludeStaysFiled ==
  ASSUME TypeOK, AllFiled, NEW p \in Procs, NEW r \in Runs, mine[p].run = r, Conclude(p)
  PROVE  NewestFiled(r)' /\ CompleteFiled(r)' /\ pc'[p] # "close"
  <1>1. Alone(p) /\ UNCHANGED <<latest, verifications, receipts, queue, lost>>
    BY ProceedMoves DEF Conclude, Proceed, Alone, hist
  <1>2. pc[p] = "close" /\ pc'[p] = "idle"
    BY DEF Conclude, Leave, Goto, TypeOK, ProcsOK
  <1>3. receipts[r] # {} /\ ~ Carries(p, r)
    BY <1>2 DEF AllFiled, CloserFiled, Carries, Active, Owing
  <1> QED
    BY <1>1, <1>2, <1>3, Undisturbed DEF AllFiled, RunFiled

-----------------------------------------------------------------------------
LEMMA ProceedFiled ==
  ASSUME TypeOK, AllFiled, NEW p \in Procs, Proceed(p)
  PROVE  AllFiled'
  <1>0. PICK r \in Runs : r = mine[p].run
    BY ProceedMoves
  <1>1. Alone(p) /\ (pc'[p] = "idle" \/ mine'[p].run = r)
    BY <1>0, ProceedMoves DEF Alone
  <1>2. NewestFiled(r)' /\ CompleteFiled(r)' /\ (pc'[p] # "close" \/ receipts'[r] # {})
    BY <1>0, WorkStaysFiled, PublishStaysFiled, AcceptStaysFiled, PersistStaysFiled,
       ReceiptStaysFiled, ConcludeStaysFiled DEF AllFiled, Proceed
  <1>3. \A s \in Runs : s # r => NewestFiled(s)' /\ CompleteFiled(s)'
    BY <1>0, OthersStayFiled DEF AllFiled
  <1>4. CloserFiled(p)'
    BY <1>1, <1>2 DEF CloserFiled
  <1>5. ASSUME NEW q \in Procs, q # p PROVE CloserFiled(q)'
    <2>1. receipts' = receipts \/ Receipt(p)
      BY DEF Proceed, Publish, PublishFails, Start, Create, Plan, Execute, LoadPolicy, Fetch,
             Observe, FinishRun, Notify, MonitorDone, Fail, Wrap, Repair, Accept, Persist,
             Conclude, db
    <2>2. \A s \in Runs : receipts[s] \subseteq receipts'[s]
      BY <2>1 DEF Receipt, TypeOK, FiledOK
    <2>3. pc[q] = "close" => mine[q].run \in Runs
      BY HasRun
    <2> QED
      BY <1>1, <1>5, <2>2, <2>3 DEF AllFiled, CloserFiled, Alone
  <1> QED
    BY <1>2, <1>3, <1>4, <1>5 DEF AllFiled, RunFiled

LEMMA FiledNext == TypeOK /\ AllFiled /\ [Next]_vars => AllFiled'
  <1> SUFFICES ASSUME TypeOK, AllFiled, [Next]_vars PROVE AllFiled'
    OBVIOUS
  <1>1. ASSUME NEW p \in Procs, NEW s \in Runs, NEW t, NEW label \in Owing,
               pc[p] = "idle", TakeUp(p, s, t, label), receipts' = receipts,
               verifications' = verifications, latest' = latest, lost' = lost,
               \A r \in Runs : r # s => stage'[r] = stage[r] /\ (r \in queue => r \in queue'),
               \/ label # "publish"
               \/ stage'[s] # "complete" /\ queue' = queue
        PROVE  AllFiled'
    <2>1. Alone(p) /\ pc'[p] = label /\ mine'[p].run = s
      BY <1>1, TakeUpAlone
    <2>2. \A r \in Runs : ~On(p, r)
      BY <1>1, EnteringIsNew
    <2>3. ASSUME NEW r \in Runs, r # s PROVE NewestFiled(r)' /\ CompleteFiled(r)'
      BY <1>1, <2>1, <2>2, <2>3, Undisturbed DEF AllFiled, RunFiled, Carries
    <2>4. CASE label = "publish"
      <3>1. NewestFiled(s)' /\ CompleteFiled(s)'
        BY <1>1, <2>1, <2>2, <2>4, Undisturbed DEF AllFiled, RunFiled, Carries
      <3> QED
        BY <1>1, <2>1, <2>3, <2>4, <3>1 DEF AllFiled, RunFiled, CloserFiled, Alone
    <2>5. CASE label # "publish"
      <3>1. Carried(s)'
        BY <1>1, <2>1, <2>5 DEF Carried, Carries, On, Active
      <3>2. NewestFiled(s)' /\ CompleteFiled(s)'
        BY <3>1, CarriedOn
      <3>3. "close" \notin Owing
        BY DEF Owing
      <3> QED
        BY <1>1, <2>1, <2>3, <3>2, <3>3 DEF AllFiled, RunFiled, CloserFiled, Alone
    <2> QED
      BY <2>4, <2>5
  <1>2. ASSUME NEW p \in Procs, NEW s \in Runs, NEW t \in Published, Request(p, s, t)
        PROVE  AllFiled'
    <2>1. /\ stage' = [stage EXCEPT ![s] = "queued"]
          /\ UNCHANGED <<latest, verifications, receipts, queue, lost>>
      BY <1>2 DEF Request, Create, hist
    <2>2. stage'[s] # "complete" /\ \A r \in Runs : r # s => stage'[r] = stage[r]
      BY <2>1 DEF TypeOK, RowsOK
    <2> QED
      BY <1>1, <1>2, <2>1, <2>2 DEF Request, Owing
  <1>3. ASSUME NEW p \in Procs, NEW s \in Runs, NEW m \in {"ask", ""}, Chat(p, s, m)
        PROVE  AllFiled'
    <2>1. /\ stage' = [stage EXCEPT ![s] = "queued"]
          /\ UNCHANGED <<latest, verifications, receipts, queue, lost>>
      BY <1>3 DEF Chat, Create
    <2>2. \A r \in Runs : r # s => stage'[r] = stage[r]
      BY <2>1 DEF TypeOK, RowsOK
    <2> QED
      BY <1>1, <1>3, <2>1, <2>2 DEF Chat, Owing
  <1>4. ASSUME NEW p \in Procs, NEW s \in Runs, Kick(p, s) \/ Take(p, s)
        PROVE  AllFiled'
    <2>1. /\ UNCHANGED <<stage, latest, verifications, receipts, lost>>
          /\ \A r \in Runs : r # s => (r \in queue => r \in queue')
      BY <1>4 DEF Kick, Take, db, hist
    <2> QED
      BY <1>1, <1>4, <2>1 DEF Kick, Take, Owing
  <1>5. ASSUME (\E s \in Runs : Beat(s)) \/ Edit \/ UNCHANGED vars
        PROVE  AllFiled'
    <2>1. UNCHANGED <<stage, latest, verifications, receipts, pc, mine, lost>> /\ queue \subseteq queue'
      BY <1>5 DEF Beat, Edit, vars, db, procs, hist
    <2> QED
      BY <2>1 DEF AllFiled, RunFiled, NewestFiled, CompleteFiled, CloserFiled, Carried, Carries,
                  Files, Documented, On, RecordOf
  <1>6. ASSUME NEW p \in Procs, Lose(p)
        PROVE  AllFiled'
    <2>1. /\ Alone(p) /\ pc'[p] = "idle" /\ lost' = lost \cup {mine[p].run}
          /\ UNCHANGED <<stage, latest, verifications, receipts, queue>>
      BY <1>6 DEF Lose, Leave, Goto, Remember, db, Alone, TypeOK, ProcsOK
    <2>2. ASSUME NEW r \in Runs PROVE NewestFiled(r)' /\ CompleteFiled(r)'
      <3>1. CASE mine[p].run = r
        BY <2>1, <3>1, CarriedOn DEF Carried
      <3>2. CASE mine[p].run # r
        BY <2>1, <3>2, Undisturbed DEF AllFiled, RunFiled, Carries, On
      <3> QED
        BY <3>1, <3>2
    <2> QED
      BY <2>1, <2>2 DEF AllFiled, RunFiled, CloserFiled, Alone
  <1> QED
    BY <1>2, <1>3, <1>4, <1>5, <1>6, ProceedFiled DEF Next

-----------------------------------------------------------------------------
LEMMA FiledAlways == Spec => [](TypeOK /\ AllFiled)
  <1>1. Init => TypeOK /\ AllFiled
    <2>1. Init => AllFiled
      <3> SUFFICES ASSUME Init PROVE AllFiled
        OBVIOUS
      <3>1. \A r \in Runs : latest[r] = NoResult /\ stage[r] # "complete"
        BY DEF Init
      <3>2. \A p \in Procs : pc[p] # "close"
        BY DEF Init
      <3> QED BY <3>1, <3>2 DEF AllFiled, RunFiled, NewestFiled, CompleteFiled, CloserFiled
    <2> QED
      BY <2>1, TypedInit DEF Typed
  <1>2. Typed /\ AllFiled /\ [Next]_vars => (Typed /\ AllFiled)'
    BY TypedNext, FiledNext DEF Typed
  <1>3. Init => Typed
    BY TypedInit
  <1>4. Typed => TypeOK
    BY DEF Typed
  <1> QED
    BY <1>1, <1>2, <1>3, <1>4, PTL DEF Spec

\* For any instance: once nobody works on a run and nothing of it died, its
\* newest result has its verification and its receipt, even when several
\* processes executed and repaired it.
THEOREM NewestHasReceipt == Spec => []ReceiptOfNewestResult
  <1>1. TypeOK /\ AllFiled => ReceiptOfNewestResult
    BY DEF AllFiled, RunFiled, NewestFiled, Carried, Carries, Files, Documented, Handled, On,
           ReceiptOfNewestResult
  <1> QED
    BY <1>1, FiledAlways, PTL

\* For any instance: a run that ended complete has a receipt, unless something
\* of it died.
THEOREM CompleteRunsHaveReceipts == Spec => []CompleteHasReceipt
  <1>1. TypeOK /\ AllFiled => CompleteHasReceipt
    BY DEF AllFiled, RunFiled, CompleteFiled, Carried, Carries, Handled, On, Final,
           CompleteHasReceipt
  <1> QED
    BY <1>1, FiledAlways, PTL

-----------------------------------------------------------------------------
(* RunLifecycle implements RunContract: every step of the lifecycle is a   *)
(* step of the contract on the run's phase and hands, or leaves them alone.*)

\* A run that has no row yet is in one pair of hands at most, which is about to
\* create it (run_active_lenses publishes no run id).
ReservedOnce ==
  \A r \in Runs : stage[r] = "absent" =>
    /\ \A p \in Procs : On(p, r) => pc[p] = "start" /\ r \notin queue
    /\ \A p, q \in Procs : On(p, r) /\ On(q, r) => p = q

\* What a step of p does to the hands of its run and to the others.
LEMMA HandsAfter ==
  ASSUME TypeOK, NEW p \in Procs, Proceed(p) \/ Lose(p)
  PROVE  /\ mine[p].run \in Runs
         /\ \A q \in Procs : q # p => pc'[q] = pc[q] /\ mine'[q] = mine[q]
         /\ \/ Leave(p) /\ pc'[p] = "idle" /\ mine'[p].run = NoRun
            \/ mine'[p].run = mine[p].run /\ ~Leave(p)
  <1>1. pc \in [Procs -> {"idle"} \cup Active \cup Filing] /\ mine \in [Procs -> Locals]
    BY DEF TypeOK, ProcsOK
  <1>2. CASE Lose(p)
    BY <1>1, <1>2, HasRun DEF Lose, Leave, Goto, Remember, Idle
  <1>3. CASE Proceed(p)
    <2>1. pc'[p] = "idle" <=> Leave(p)
      BY <1>1, <1>3 DEF Proceed, Publish, PublishFails, Start, Plan, Execute,
         LoadPolicy, Fetch, Observe, FinishRun, Notify, MonitorDone, Fail, Wrap, Repair,
         Accept, Persist, Receipt, Conclude, Goto, Leave
    <2>2. Leave(p) => mine'[p].run = NoRun
      BY <1>1 DEF Leave, Remember, Idle
    <2> QED
      BY <1>3, <2>1, <2>2, ProceedMoves
  <1> QED
    BY <1>2, <1>3

\* What taking a run up does to the hands.
LEMMA HandsTaken ==
  ASSUME TypeOK, NEW p \in Procs, pc[p] = "idle", NEW s \in Runs, NEW t, NEW label, TakeUp(p, s, t, label)
  PROVE  /\ mine[p].run = NoRun /\ pc'[p] = label /\ mine'[p].run = s
         /\ \A q \in Procs : q # p => pc'[q] = pc[q] /\ mine'[q] = mine[q]
  <1>1. pc \in [Procs -> {"idle"} \cup Active \cup Filing] /\ mine \in [Procs -> Locals]
        /\ mine[p].run = NoRun
    BY DEF TypeOK, ProcsOK
  <1> QED
    BY <1>1 DEF TakeUp, Goto, Remember, Locals

LEMMA ReservedNext == TypeOK /\ ReservedOnce /\ [Next]_vars => ReservedOnce'
  <1> SUFFICES ASSUME TypeOK, ReservedOnce, [Next]_vars, NEW r \in Runs, stage'[r] = "absent"
               PROVE  /\ \A q \in Procs : On(q, r)' => pc'[q] = "start" /\ r \notin queue'
                      /\ \A q1, q2 \in Procs : On(q1, r)' /\ On(q2, r)' => q1 = q2
    BY DEF ReservedOnce, On
  <1> DEFINE Once == /\ \A q \in Procs : On(q, r)' => pc'[q] = "start" /\ r \notin queue'
                     /\ \A q1, q2 \in Procs : On(q1, r)' /\ On(q2, r)' => q1 = q2
  <1>0. stage \in [Runs -> Stages]
    BY DEF TypeOK, RowsOK
  <1>1. ASSUME NEW p \in Procs, NEW s \in Runs, NEW t \in Published, Request(p, s, t)
        PROVE Once
    <2>1. s # r /\ stage[r] = "absent" /\ queue' = queue
      BY <1>0, <1>1 DEF Request, Create
    <2>2. /\ mine'[p].run = s
          /\ \A q \in Procs : q # p => pc'[q] = pc[q] /\ mine'[q] = mine[q]
      BY <1>1, HandsTaken DEF Request
    <2>3. \A q \in Procs : mine'[q].run = r => mine'[q] = mine[q] /\ pc'[q] = pc[q]
      BY <2>1, <2>2
    <2> QED
      BY <2>1, <2>3 DEF ReservedOnce, On
  <1>2. ASSUME NEW p \in Procs, NEW s \in Runs, NEW m, Chat(p, s, m)
        PROVE Once
    <2>1. s # r /\ stage[r] = "absent" /\ queue' = queue
      BY <1>0, <1>2 DEF Chat, Create
    <2>2. /\ mine'[p].run = s
          /\ \A q \in Procs : q # p => pc'[q] = pc[q] /\ mine'[q] = mine[q]
      BY <1>2, HandsTaken DEF Chat
    <2>3. \A q \in Procs : mine'[q].run = r => mine'[q] = mine[q] /\ pc'[q] = pc[q]
      BY <2>1, <2>2
    <2> QED
      BY <2>1, <2>3 DEF ReservedOnce, On
  <1>3. ASSUME NEW p \in Procs, NEW s \in Runs, Kick(p, s)
        PROVE Once
    <2>1. s # r /\ stage[r] = "absent" /\ queue' = queue
      BY <1>3 DEF Kick, db
    <2>2. /\ mine'[p].run = s
          /\ \A q \in Procs : q # p => pc'[q] = pc[q] /\ mine'[q] = mine[q]
      BY <1>3, HandsTaken DEF Kick
    <2>3. \A q \in Procs : mine'[q].run = r => mine'[q] = mine[q] /\ pc'[q] = pc[q]
      BY <2>1, <2>2
    <2> QED
      BY <2>1, <2>3 DEF ReservedOnce, On
  <1>4. ASSUME NEW p \in Procs, NEW s \in Runs, Take(p, s)
        PROVE Once
    <2>1. stage[r] = "absent" /\ s \in queue /\ queue' = queue \ {s}
      BY <1>4 DEF Take, db
    <2>2. /\ mine[p].run = NoRun /\ mine'[p].run = s /\ pc'[p] = "start"
          /\ \A q \in Procs : q # p => pc'[q] = pc[q] /\ mine'[q] = mine[q]
      BY <1>4, HandsTaken DEF Take
    <2>3. s = r => \A q \in Procs : ~On(q, r)
      BY <2>1 DEF ReservedOnce
    <2> QED
      BY <2>1, <2>2, <2>3 DEF ReservedOnce, On
  <1>5. ASSUME NEW s \in Runs, Beat(s)
        PROVE Once
    BY <1>5 DEF Beat, Unused, ReservedOnce, On, db, procs
  <1>6. CASE Edit
    BY <1>6 DEF Edit, ReservedOnce, On, db, procs
  <1>7. ASSUME NEW p \in Procs, Proceed(p)
        PROVE Once
    <2>1. mine[p].run # r
      <3> SUFFICES ASSUME mine[p].run = r PROVE FALSE
        OBVIOUS
      <3>1. stage[r] = "absent" => pc[p] = "start"
        BY DEF ReservedOnce, On
      <3>2. CASE stage[r] = "absent"
        <4>1. Start(p)
          BY <1>7, <3>1, <3>2 DEF Proceed, Publish, PublishFails, Start, Plan, Execute,
             LoadPolicy, Fetch, Observe, FinishRun, Notify, MonitorDone, Fail, Guarded, Wrap, Repair,
             Accept, Persist, Receipt, Conclude
        <4> QED
          BY <1>0, <3>2, <4>1 DEF Start, Create
      <3>3. CASE stage[r] # "absent"
        BY <1>0, <1>7, <3>3 DEF Proceed, Publish, PublishFails, Start, Create, Plan, Execute,
             LoadPolicy, Fetch, Observe, FinishRun, SaveRow, Notify, MonitorDone, Fail, Wrap, Repair,
             Accept, Persist, Receipt, Conclude, SetStage, Close, db
      <3> QED
        BY <3>2, <3>3
    <2>2. stage[r] = "absent" /\ (r \in queue' <=> r \in queue)
      BY <1>7, <2>1, OthersUntouched DEF RowsOf
    <2> QED
      BY <1>7, <2>1, <2>2, HandsAfter, ConstantsAssumption DEF ReservedOnce, On
  <1>8. ASSUME NEW p \in Procs, Lose(p)
        PROVE Once
    BY <1>8, HandsAfter, ConstantsAssumption DEF ReservedOnce, On, Lose, db
  <1>9. CASE UNCHANGED vars
    BY <1>9 DEF vars, db, procs, ReservedOnce, On
  <1> QED
    BY <1>1, <1>2, <1>3, <1>4, <1>5, <1>6, <1>7, <1>8, <1>9 DEF Next

-----------------------------------------------------------------------------
PhaseBar == [r \in Runs |-> Phase(r)]
HandsBar == [r \in Runs |-> HandsOn(r)]

\* A step that concerns run s alone, seen through the refinement mapping.
LEMMA BarStep ==
  ASSUME NEW s \in Runs,
         \A r \in Runs \ {s} : Phase(r)' = Phase(r) /\ HandsOn(r)' = HandsOn(r)
  PROVE  /\ PhaseBar' = [PhaseBar EXCEPT ![s] = Phase(s)']
         /\ HandsBar' = [HandsBar EXCEPT ![s] = HandsOn(s)']
         /\ PhaseBar[s] = Phase(s) /\ HandsBar[s] = HandsOn(s)
         /\ Phase(s)' = Phase(s) => PhaseBar' = PhaseBar
         /\ HandsOn(s)' = HandsOn(s) => HandsBar' = HandsBar
  BY DEF PhaseBar, HandsBar

\* Who is among the hands of a run, before and after a step.
LEMMA HandsMember ==
  ASSUME NEW r, NEW h
  PROVE  /\ h \in HandsOn(r)  <=> (h \in Procs /\ mine[h].run = r) \/ (h = Broker /\ r \in queue)
         /\ h \in HandsOn(r)' <=> (h \in Procs /\ mine'[h].run = r) \/ (h = Broker /\ r \in queue')
  BY DEF HandsOn, On

\* A step that changes no process's run and no message changes no hands.
LEMMA SameHands ==
  ASSUME NEW r \in Runs, \A q \in Procs : mine'[q].run = r <=> mine[q].run = r,
         r \in queue' <=> r \in queue
  PROVE  HandsOn(r)' = HandsOn(r)
  <1>1. \A h : h \in HandsOn(r)' <=> h \in HandsOn(r)
    BY HandsMember
  <1> QED
    BY <1>1

\* A process in the code is among its run's hands until it leaves.
LEMMA HandsStay ==
  ASSUME TypeOK, NEW p \in Procs, Proceed(p), ~Publish(p), NEW s, mine[p].run = s
  PROVE  /\ p \in HandsOn(s)
         /\ \A r \in Runs \ {s} : HandsOn(r)' = HandsOn(r)
         /\ Leave(p)  => HandsOn(s)' = HandsOn(s) \ {p}
         /\ ~Leave(p) => HandsOn(s)' = HandsOn(s)
  <1>1. /\ s \in Runs
        /\ \A q \in Procs : q # p => mine'[q] = mine[q]
        /\ \/ Leave(p) /\ mine'[p].run = NoRun
           \/ mine'[p].run = s /\ ~Leave(p)
    BY HandsAfter
  <1>2. queue' = queue
    BY DEF Proceed, PublishFails, Start, Plan, Execute,
         LoadPolicy, Fetch, Observe, FinishRun, Notify, MonitorDone, Fail, Wrap, Repair,
         Accept, Persist, Receipt, Conclude
  <1>3. NoRun \notin Runs /\ Broker \notin Procs
    BY ConstantsAssumption DEF Broker, Procs
  <1>4. p \in HandsOn(s)
    BY HandsMember
  <1>5. ASSUME NEW r \in Runs \ {s}
        PROVE  HandsOn(r)' = HandsOn(r)
    BY <1>1, <1>2, <1>3, SameHands
  <1>6. ASSUME ~Leave(p)
        PROVE  HandsOn(s)' = HandsOn(s)
    BY <1>1, <1>2, <1>6, SameHands
  <1>7. ASSUME Leave(p)
        PROVE  HandsOn(s)' = HandsOn(s) \ {p}
    <2>1. \A h : h \in HandsOn(s)' <=> h \in HandsOn(s) /\ h # p
      BY <1>1, <1>2, <1>3, <1>7, HandsMember
    <2> QED
      BY <2>1
  <1> QED
    BY <1>4, <1>5, <1>6, <1>7

\* A step of the code a process is in is a step of the contract.
LEMMA ProceedImplements ==
  ASSUME Inv, Inv', ReservedOnce, NEW p \in Procs, Proceed(p)
  PROVE  [Contract!Next]_(Contract!cvars)
  <1>0. PICK s \in Runs : mine[p].run = s
    BY HandsAfter DEF Inv, Typed
  <1>1. /\ TypeOK /\ stage \in [Runs -> Stages]
        /\ status \in [Runs -> {"running", "ok", "error"}]
    BY DEF Inv, Typed, TypeOK, RowsOK
  <1>2. \A r \in Runs \ {s} : Phase(r)' = Phase(r)
    BY <1>0, <1>1, OthersUntouched DEF RowsOf, Phase, Settled
  <1>3. CASE Publish(p)
    <2>1. /\ \A q \in Procs : q # p => mine'[q] = mine[q]
          /\ mine'[p].run = NoRun
          /\ queue' = queue \cup {s} /\ lost' = lost
      BY <1>0, <1>1, <1>3, HandsAfter DEF Publish, hist
    <2>2. Broker \notin Procs /\ NoRun \notin Runs
      BY ConstantsAssumption DEF Broker, Procs
    <2>3. HandsOn(s)' = (HandsOn(s) \ {p}) \cup {Broker} /\ p \in HandsOn(s)
      <3>1. \A h : h \in HandsOn(s)' <=> h = Broker \/ (h \in HandsOn(s) /\ h # p)
        BY <1>0, <2>1, <2>2, HandsMember
      <3> QED
        BY <1>0, <3>1, HandsMember
    <2>4. \A r \in Runs \ {s} : HandsOn(r)' = HandsOn(r)
      BY <1>0, <2>1, <2>2, SameHands
    <2>5. Phase(s)' = Phase(s)
      BY <1>3 DEF Publish, db, Phase, Settled
    <2>6. Contract!Pass(s, p, Broker)
      BY <1>2, <2>1, <2>3, <2>4, <2>5, BarStep DEF Contract!Pass, Contract!SetHands, PhaseBar, HandsBar
    <2> QED
      BY <2>6 DEF Contract!Next
  <1>4. ASSUME ~Publish(p)
        PROVE  /\ p \in HandsOn(s) /\ lost' = lost
               /\ PhaseBar' = [PhaseBar EXCEPT ![s] = Phase(s)'] /\ PhaseBar[s] = Phase(s)
               /\ HandsBar[s] = HandsOn(s)
               /\ Phase(s)' = Phase(s) => PhaseBar' = PhaseBar
               /\ Leave(p)  => HandsBar' = [HandsBar EXCEPT ![s] = HandsOn(s) \ {p}]
               /\ ~Leave(p) => HandsBar' = HandsBar
    <2>1. /\ p \in HandsOn(s)
          /\ \A r \in Runs \ {s} : HandsOn(r)' = HandsOn(r)
          /\ Leave(p)  => HandsOn(s)' = HandsOn(s) \ {p}
          /\ ~Leave(p) => HandsOn(s)' = HandsOn(s)
      BY <1>0, <1>1, <1>4, HandsStay
    <2>2. lost' = lost
      BY <1>1, <1>4 DEF Proceed, Publish, PublishFails, Start, Plan, Execute,
         LoadPolicy, Fetch, Observe, FinishRun, Notify, MonitorDone, Fail, Wrap, Repair,
         Accept, Persist, Receipt, Conclude, hist
    <2> QED
      BY <1>2, <2>1, <2>2, BarStep
  <1>6. ASSUME ~Publish(p), ~Leave(p), stage[s] # "absent", stage'[s] # "absent"
        PROVE  [Contract!Next]_(Contract!cvars)
    <2>1. Phase(s) \in {"open", "closed"} /\ Phase(s)' \in {"open", "closed"}
      BY <1>6 DEF Phase
    <2>2. CASE Phase(s)' = Phase(s)
      <3>1. PhaseBar' = PhaseBar /\ HandsBar' = HandsBar /\ lost' = lost
        BY <1>4, <1>6, <2>2
      <3> QED
        BY <3>1 DEF Contract!cvars, PhaseBar, HandsBar
    <2>3. CASE Phase(s) = "open" /\ Phase(s)' = "closed"
      <3>1. Contract!Shut(s)
        BY <1>4, <1>6, <2>3 DEF Contract!Shut, Contract!SetPhase, PhaseBar, HandsBar
      <3> QED
        BY <3>1 DEF Contract!Next
    <2>4. CASE Phase(s) = "closed" /\ Phase(s)' = "open"
      <3>1. Contract!Reopen(s)
        BY <1>4, <1>6, <2>4 DEF Contract!Reopen, Contract!SetPhase, PhaseBar, HandsBar
      <3> QED
        BY <3>1 DEF Contract!Next
    <2> QED
      BY <2>1, <2>2, <2>3, <2>4
  <1>7. CASE stage[s] = "absent"
    <2>1. Start(p)
      BY <1>0, <1>7 DEF ReservedOnce, On, Proceed, Publish, PublishFails, Start, Plan, Execute,
         LoadPolicy, Fetch, Observe, FinishRun, Notify, MonitorDone, Fail, Guarded, Wrap, Repair,
         Accept, Persist, Receipt, Conclude
    <2>2. ~Publish(p) /\ ~Leave(p)
      BY <1>1, <2>1 DEF Start, Publish, Leave, Goto, TypeOK, ProcsOK
    <2>3. HandsOn(s) = {p}
      <3>1. \A h : h \in HandsOn(s) <=> h = p
        BY <1>0, <1>7, HandsMember DEF ReservedOnce, On
      <3> QED
        BY <3>1
    <2>4. Phase(s) = "absent" /\ Phase(s)' = "open"
      BY <1>0, <1>1, <1>7, <2>1 DEF Start, Create, Phase, Settled
    <2>5. HandsBar' = [HandsBar EXCEPT ![s] = {p}]
      BY <1>4, <2>2, <2>3 DEF HandsBar
    <2>6. Contract!Open(s, p)
      BY <1>4, <2>2, <2>3, <2>4, <2>5 DEF Contract!Open, Contract!SetPhase, Contract!SetHands, PhaseBar, HandsBar
    <2> QED
      BY <2>6 DEF Contract!Next
  <1>8. ASSUME stage[s] # "absent"
        PROVE  stage'[s] # "absent"
    BY <1>0, <1>1, <1>8 DEF Proceed, Publish, PublishFails, Start, Create, Plan, Execute,
         LoadPolicy, Fetch, Observe, FinishRun, SaveRow, Notify, MonitorDone, Fail, Wrap, Repair,
         Accept, Persist, Receipt, Conclude, SetStage, Close, db
  <1>9. ASSUME Leave(p), ~Publish(p), stage[s] # "absent"
        PROVE  Contract!Next
    <2>1. PublishFails(p) \/ Conclude(p)
      BY <1>1, <1>9 DEF Leave, Proceed, PublishFails, Start, Plan, Execute,
         LoadPolicy, Fetch, Observe, FinishRun, Notify, MonitorDone, Fail, Wrap, Repair,
         Accept, Persist, Receipt, Conclude, Goto, TypeOK, ProcsOK
    <2>2. Settled(s)' \/ (Conclude(p) /\ Phase(s)' = Phase(s))
      BY <1>0, <1>1, <2>1 DEF PublishFails, Conclude, Close, Settled, Phase
    <2>3. CASE Settled(s)'
      <3>1. Phase(s)' = "closed"
        BY <1>8, <1>9, <2>3 DEF Phase
      <3>2. Contract!LetGo(s, p)
        BY <1>4, <1>9, <3>1 DEF Contract!LetGo, Contract!SetPhase, Contract!SetHands, PhaseBar, HandsBar
      <3> QED
        BY <3>2 DEF Contract!Next
    <2>4. CASE Conclude(p) /\ Phase(s)' = Phase(s)
      <3>1. Phase(s) = "closed" \/ HandsOn(s) \ {p} # {} \/ s \in lost
        <4>1. \/ \E q \in Procs : Owes(q, s)
              \/ s \in queue \/ s \in lost \/ Settled(s)
          BY <1>9 DEF Inv, SettledWhenIdle, Tended
        <4>2. ~Owes(p, s)
          BY <2>4 DEF Conclude, Owes, Owing
        <4>3. ASSUME NEW q \in Procs, Owes(q, s) PROVE q \in HandsOn(s) \ {p}
          BY <4>2, <4>3, HandsMember DEF Owes, On
        <4>4. s \in queue => Broker \in HandsOn(s) \ {p}
          BY HandsMember, ConstantsAssumption DEF Broker, Procs
        <4>5. Settled(s) => Phase(s) = "closed"
          BY <1>9 DEF Phase
        <4> QED
          BY <4>1, <4>3, <4>4, <4>5
      <3>2. Contract!LetGo(s, p)
        BY <1>4, <1>9, <2>4, <3>1 DEF Contract!LetGo, Contract!SetHands, PhaseBar, HandsBar
      <3> QED
        BY <3>2 DEF Contract!Next
    <2> QED
      BY <2>2, <2>3, <2>4
  <1> QED
    BY <1>3, <1>6, <1>7, <1>8, <1>9

\* A process that takes a run up joins its hands.
LEMMA HandsJoin ==
  ASSUME TypeOK, NEW p \in Procs, pc[p] = "idle", NEW s \in Runs, NEW t, NEW label,
         TakeUp(p, s, t, label), queue' \in {queue, queue \ {s}}
  PROVE  /\ \A r \in Runs \ {s} : HandsOn(r)' = HandsOn(r)
         /\ queue' = queue => HandsOn(s)' = HandsOn(s) \cup {p}
         /\ queue' = queue \ {s} => HandsOn(s)' = (HandsOn(s) \ {Broker}) \cup {p}
  <1>1. /\ mine[p].run = NoRun /\ mine'[p].run = s
        /\ \A q \in Procs : q # p => mine'[q] = mine[q]
    BY HandsTaken
  <1>2. NoRun \notin Runs /\ Broker \notin Procs
    BY ConstantsAssumption DEF Broker, Procs
  <1>3. ASSUME NEW r \in Runs \ {s}
        PROVE  HandsOn(r)' = HandsOn(r)
    BY <1>1, <1>2, SameHands
  <1>4. ASSUME queue' = queue
        PROVE  HandsOn(s)' = HandsOn(s) \cup {p}
    <2>1. \A h : h \in HandsOn(s)' <=> h \in HandsOn(s) \/ h = p
      BY <1>1, <1>2, <1>4, HandsMember
    <2> QED
      BY <2>1
  <1>5. ASSUME queue' = queue \ {s}
        PROVE  HandsOn(s)' = (HandsOn(s) \ {Broker}) \cup {p}
    <2>1. \A h : h \in HandsOn(s)' <=> (h \in HandsOn(s) /\ h # Broker) \/ h = p
      BY <1>1, <1>2, <1>5, HandsMember
    <2> QED
      BY <2>1
  <1> QED
    BY <1>3, <1>4, <1>5

LEMMA UnusedHands ==
  ASSUME NEW s \in Runs, Unused(s)
  PROVE  HandsOn(s) = {}
  <1>1. \A h : h \notin HandsOn(s)
    BY HandsMember DEF Unused, On
  <1> QED
    BY <1>1

LEMMA NextImplements ==
  ASSUME Inv, Inv', ReservedOnce, [Next]_vars
  PROVE  [Contract!Next]_(Contract!cvars)
  <1>0. TypeOK /\ stage \in [Runs -> Stages] /\ status \in [Runs -> {"running", "ok", "error"}]
    BY DEF Inv, Typed, TypeOK, RowsOK
  <1>1. ASSUME NEW p \in Procs, NEW s \in Runs, NEW t, NEW m, NEW label,
               pc[p] = "idle", Unused(s), Create(s, t, m), TakeUp(p, s, t, label),
               queue' = queue, lost' = lost
        PROVE  Contract!Next
    <2>1. HandsOn(s) = {} /\ HandsOn(s)' = {p}
      BY <1>0, <1>1, UnusedHands, HandsJoin
    <2>2. \A r \in Runs \ {s} : Phase(r)' = Phase(r) /\ HandsOn(r)' = HandsOn(r)
      BY <1>0, <1>1, HandsJoin DEF Create, Phase, Settled
    <2>3. Phase(s) = "absent" /\ Phase(s)' = "open"
      BY <1>0, <1>1 DEF Unused, Create, Phase, Settled
    <2>4. Contract!Open(s, p)
      BY <1>1, <2>1, <2>2, <2>3, BarStep DEF Contract!Open, Contract!SetPhase, Contract!SetHands, PhaseBar, HandsBar
    <2> QED
      BY <2>4 DEF Contract!Next
  <1>2. ASSUME NEW p \in Procs, NEW s \in Runs, NEW t, Request(p, s, t)
        PROVE  Contract!Next
    BY <1>1, <1>2 DEF Request, hist
  <1>3. ASSUME NEW p \in Procs, NEW s \in Runs, NEW m, Chat(p, s, m)
        PROVE  Contract!Next
    BY <1>1, <1>3 DEF Chat
  <1>4. ASSUME NEW p \in Procs, NEW s \in Runs, Kick(p, s)
        PROVE  Contract!Next
    <2>1. HandsOn(s)' = HandsOn(s) \cup {p}
      BY <1>0, <1>4, HandsJoin DEF Kick
    <2>2. \A r \in Runs \ {s} : Phase(r)' = Phase(r) /\ HandsOn(r)' = HandsOn(r)
      BY <1>0, <1>4, HandsJoin DEF Kick, Phase, Settled, db
    <2>3. Phase(s) = "open" /\ Phase(s)' = "open" /\ lost' = lost
      BY <1>4 DEF Kick, Phase, Settled, db, hist
    <2>4. Contract!Join(s, p)
      BY <2>1, <2>2, <2>3, BarStep DEF Contract!Join, Contract!SetHands, PhaseBar, HandsBar
    <2> QED
      BY <2>4 DEF Contract!Next
  <1>5. ASSUME NEW p \in Procs, NEW s \in Runs, Take(p, s)
        PROVE  Contract!Next
    <2>1. HandsOn(s)' = (HandsOn(s) \ {Broker}) \cup {p} /\ Broker \in HandsOn(s)
      BY <1>0, <1>5, HandsJoin, HandsMember DEF Take
    <2>2. \A r \in Runs \ {s} : Phase(r)' = Phase(r) /\ HandsOn(r)' = HandsOn(r)
      BY <1>0, <1>5, HandsJoin DEF Take, Phase, Settled, db
    <2>3. Phase(s)' = Phase(s) /\ lost' = lost
      BY <1>5 DEF Take, Phase, Settled, db, hist
    <2>4. Contract!Pass(s, Broker, p)
      BY <2>1, <2>2, <2>3, BarStep DEF Contract!Pass, Contract!SetHands, PhaseBar, HandsBar
    <2> QED
      BY <2>4 DEF Contract!Next
  <1>6. ASSUME NEW s \in Runs, Beat(s)
        PROVE  Contract!Next
    <2>1. mine' = mine /\ queue' = queue \cup {s} /\ lost' = lost
      BY <1>6 DEF Beat, procs, hist
    <2>2. HandsOn(s) = {} /\ HandsOn(s)' = {Broker}
      <3>1. HandsOn(s) = {}
        BY <1>6, UnusedHands DEF Beat
      <3>2. \A h : h \in HandsOn(s)' <=> h = Broker
        BY <2>1, <3>1, HandsMember
      <3> QED
        BY <3>1, <3>2
    <2>3. \A r \in Runs \ {s} : Phase(r)' = Phase(r) /\ HandsOn(r)' = HandsOn(r)
      BY <1>6, <2>1, SameHands DEF Beat, Phase, Settled, db
    <2>4. Phase(s) = "absent" /\ Phase(s)' = Phase(s)
      BY <1>6 DEF Beat, Unused, Phase, Settled, db
    <2>5. Contract!Reserve(s, Broker)
      BY <2>1, <2>2, <2>3, <2>4, BarStep DEF Contract!Reserve, Contract!SetHands, PhaseBar, HandsBar
    <2> QED
      BY <2>5 DEF Contract!Next
  <1>7. CASE Edit \/ UNCHANGED vars
    <2>1. UNCHANGED <<stage, status, mine, queue, lost>>
      BY <1>7 DEF Edit, vars, db, procs, hist
    <2>2. \A r \in Runs : Phase(r)' = Phase(r) /\ HandsOn(r)' = HandsOn(r)
      BY <2>1, SameHands DEF Phase, Settled
    <2> QED
      BY <2>1, <2>2 DEF Contract!cvars
  <1>8. ASSUME NEW p \in Procs, Lose(p)
        PROVE  Contract!Next
    <2>1. PICK s \in Runs : mine[p].run = s
      BY <1>0, <1>8, HandsAfter
    <2>2. /\ \A q \in Procs : q # p => mine'[q] = mine[q]
          /\ mine'[p].run = NoRun /\ queue' = queue /\ lost' = lost \cup {s}
      BY <1>0, <1>8, <2>1, HandsAfter DEF Lose
    <2>3. NoRun \notin Runs /\ Broker \notin Procs
      BY ConstantsAssumption DEF Broker, Procs
    <2>4. HandsOn(s)' = HandsOn(s) \ {p} /\ p \in HandsOn(s)
      <3>1. \A h : h \in HandsOn(s)' <=> h \in HandsOn(s) /\ h # p
        BY <2>1, <2>2, <2>3, HandsMember
      <3> QED
        BY <2>1, <3>1, HandsMember
    <2>5. \A r \in Runs \ {s} : Phase(r)' = Phase(r) /\ HandsOn(r)' = HandsOn(r)
      BY <1>8, <2>1, <2>2, <2>3, SameHands DEF Lose, Phase, Settled, db
    <2>6. Phase(s)' = Phase(s)
      BY <1>8 DEF Lose, Phase, Settled, db
    <2>7. Contract!Drop(s, p)
      BY <2>2, <2>4, <2>5, <2>6, BarStep DEF Contract!Drop, Contract!SetHands, PhaseBar, HandsBar
    <2> QED
      BY <2>7 DEF Contract!Next
  <1> QED
    BY <1>2, <1>3, <1>4, <1>5, <1>6, <1>7, <1>8, ProceedImplements DEF Next

LEMMA InitImplements == Init => Contract!Init
  <1> SUFFICES ASSUME Init PROVE Contract!Init
    OBVIOUS
  <1>1. \A r \in Runs : Phase(r) = "absent"
    BY DEF Init, Phase
  <1>2. \A r \in Runs : Unused(r)
    BY ConstantsAssumption DEF Init, Unused, On, Idle
  <1>3. \A r \in Runs : HandsOn(r) = {}
    BY <1>2, UnusedHands
  <1> QED
    BY <1>1, <1>3 DEF Contract!Init, Init

\* The lifecycle keeps the contract, for every number of runs, processes,
\* versions, retries and losses.
THEOREM LifecycleKeepsContract == Spec => KeepsContract
  <1>1. Init => ReservedOnce
    <2> SUFFICES ASSUME Init PROVE ReservedOnce
      OBVIOUS
    <2>1. \A p \in Procs : mine[p].run = NoRun
      BY DEF Init, Idle
    <2>2. \A r \in Runs, p \in Procs : ~On(p, r)
      BY <2>1, ConstantsAssumption DEF On
    <2> QED
      BY <2>2 DEF ReservedOnce
  <1>2. TypeOK /\ ReservedOnce /\ [Next]_vars => ReservedOnce'
    BY ReservedNext
  <1>3. Inv /\ Inv' /\ ReservedOnce /\ [Next]_vars => [Contract!Next]_(Contract!cvars)
    BY NextImplements
  <1>4. Spec => []Inv
    BY Invariance
  <1>5. Spec => []TypeOK
    BY TypeCorrectness
  <1> QED
    BY <1>1, <1>2, <1>3, <1>4, <1>5, InitImplements, PTL DEF Spec, KeepsContract, Contract!Spec
=============================================================================

------------------------- MODULE ConversationProofs -------------------------
(***************************************************************************)
(* What is proved of Conversation for every set of messages and processes: *)
(* that the memory of a conversation is what the turns and runs made it    *)
(* until a stale context is written over a newer one, that a question does *)
(* not take the place of a standing job, that the answer to a question     *)
(* about a job settles it for the coin that the question was about, that   *)
(* what is read and kept is typed, that the coins a message names are      *)
(* those that are researched, and that no turn is lost because its plan is *)
(* refused.                                                                *)
(***************************************************************************)
EXTENDS Conversation, PlanningProofs

-----------------------------------------------------------------------------
(* The memory of the conversation *)

\* The inductive invariant: a context that was loaded is the newest one, or
\* writing it back makes the conversation stale.
Remembering ==
  /\ stale \in BOOLEAN
  /\ OnlyStaleWritesLose

\* A write that leaves the conversation fresh found what the turn had loaded,
\* and that is what every writer's own part adds up to.
LEMMA FreshWrite ==
  ASSUME Remembering, NEW seen, NEW new, Write(seen, new), ~stale'
  PROVE  context = seen /\ memory = seen /\ context' = new
BY DEF Remembering, OnlyStaleWritesLose, Write

LEMMA WriteStays ==
  ASSUME Remembering, NEW seen, NEW new, Write(seen, new)
  PROVE  stale' \in BOOLEAN
BY DEF Remembering, Write

LEMMA ReadRemembers ==
  ASSUME Remembering, NEW p \in Web, Read(p)
  PROVE  Remembering'
<1> DEFINE seen == mine[p].seen
           task == Understand(mine[p].message, seen.pending, seen.research, mine[p].reading)
<1>1. CASE task.status = "needs_input"
  <2>1. AskBack(p, task)
    BY <1>1 DEF Read
  <2>2. /\ Write(seen, [seen EXCEPT !.pending = task])
        /\ memory' = [memory EXCEPT !.pending = task]
    BY <2>1 DEF AskBack
  <2> HIDE DEF seen, task
  <2>3. ~stale' => context' = memory'
    BY <2>2, FreshWrite
  <2>4. stale' \in BOOLEAN
    BY <2>2, WriteStays
  <2> QED BY <2>3, <2>4 DEF Remembering, OnlyStaleWritesLose
<1>2. CASE task.status # "needs_input"
  <2>1. ClearPending(p)
    BY <1>2 DEF Read
  <2>2. CASE seen.pending = None
    <3>1. UNCHANGED <<context, stale>> /\ memory' = memory
      BY <2>1, <2>2 DEF ClearPending
    <3> QED BY <3>1 DEF Remembering, OnlyStaleWritesLose
  <2>3. CASE seen.pending # None
    <3>1. /\ Write(seen, [seen EXCEPT !.pending = None])
          /\ memory' = [memory EXCEPT !.pending = None]
      BY <2>1, <2>3 DEF ClearPending
    <3> HIDE DEF seen, task
    <3>2. ~stale' => context' = memory'
      BY <3>1, FreshWrite
    <3>3. stale' \in BOOLEAN
      BY <3>1, WriteStays
    <3> QED BY <3>2, <3>3 DEF Remembering, OnlyStaleWritesLose
  <2> QED BY <2>2, <2>3
<1> QED BY <1>1, <1>2

LEMMA PlanRemembers ==
  ASSUME Remembering, NEW p \in Web, Plan(p)
  PROVE  Remembering'
<1> DEFINE seen == mine[p].seen
           report == Compile(mine[p].task, seen.research)
<1>1. CASE ~report.plan.accepted
  <2>1. UNCHANGED <<context, memory, stale>>
    BY <1>1 DEF Plan
  <2> QED BY <2>1 DEF Remembering, OnlyStaleWritesLose
<1>2. CASE report.plan.accepted
  <2>1. /\ Write(seen, [seen EXCEPT !.research = ApplyTask(@, report.task)])
        /\ memory' = [memory EXCEPT !.research = ApplyTask(@, report.task)]
    BY <1>2 DEF Plan
  <2> HIDE DEF seen, report
  <2>2. ~stale' => context' = memory'
    BY <2>1, FreshWrite
  <2>3. stale' \in BOOLEAN
    BY <2>1, WriteStays
  <2> QED BY <2>2, <2>3 DEF Remembering, OnlyStaleWritesLose
<1> QED BY <1>1, <1>2

LEMMA EndRunRemembers ==
  ASSUME Remembering, NEW r \in DOMAIN runs, EndRun(r)
  PROVE  Remembering'
<1> DEFINE seen == runs[r].seen
<1>1. /\ Write(seen, [seen EXCEPT !.findings = Upto(<<r>> \o @, Remembered)])
      /\ memory' = [memory EXCEPT !.findings = Upto(<<r>> \o @, Remembered)]
  BY DEF EndRun, RememberFinding
<1> HIDE DEF seen
<1>2. ~stale' => context' = memory'
  BY <1>1, FreshWrite
<1>3. stale' \in BOOLEAN
  BY <1>1, WriteStays
<1> QED BY <1>2, <1>3 DEF Remembering, OnlyStaleWritesLose

LEMMA OthersRemember ==
  ASSUME Remembering, UNCHANGED <<context, memory, stale>>
  PROVE  Remembering'
BY DEF Remembering, OnlyStaleWritesLose

\* OnlyStaleWritesLose: the question that waits, the research at hand and the
\* findings are what the turns and runs made them, unless a whole context was
\* written back over one that had changed since it was loaded.
THEOREM MemoryIsShared == Spec => []OnlyStaleWritesLose
<1>1. Init => Remembering
  BY DEF Init, Remembering, OnlyStaleWritesLose
<1>2. Remembering /\ [Next]_vars => Remembering'
  <2> SUFFICES ASSUME Remembering, [Next]_vars PROVE Remembering'
    OBVIOUS
  <2>1. CASE UNCHANGED vars
    BY <2>1, OthersRemember DEF vars
  <2>2. ASSUME NEW p \in Web, Receive(p) PROVE Remembering'
    BY <2>2, OthersRemember DEF Receive
  <2>3. ASSUME NEW p \in Web, Read(p) PROVE Remembering'
    BY <2>3, ReadRemembers
  <2>4. ASSUME NEW p \in Web, KeepWatching(p) PROVE Remembering'
    BY <2>4, OthersRemember DEF KeepWatching
  <2>5. ASSUME NEW p \in Web, Plan(p) PROVE Remembering'
    BY <2>5, PlanRemembers
  <2>6. ASSUME NEW p \in Web, Begin(p) PROVE Remembering'
    BY <2>6, OthersRemember DEF Begin
  <2>7. ASSUME NEW r \in DOMAIN runs, StartRun(r) PROVE Remembering'
    BY <2>7, OthersRemember DEF StartRun
  <2>8. ASSUME NEW r \in DOMAIN runs, EndRun(r) PROVE Remembering'
    BY <2>8, EndRunRemembers
  <2> QED BY <2>1, <2>2, <2>3, <2>4, <2>5, <2>6, <2>7, <2>8 DEF Next
<1>3. Remembering => OnlyStaleWritesLose
  BY DEF Remembering
<1> QED BY <1>1, <1>2, <1>3, PTL DEF Spec

-----------------------------------------------------------------------------
(* The standing job *)

Placed == DOMAIN pc = Web

\* Only the end of a turn makes a version, and the turn that makes one from a
\* question began when another version, or none, was the newest.
LEMMA BeginReplaces ==
  ASSUME Placed, NEW p \in Web, Begin(p), version' # version, Persistent(version)
  PROVE  \/ version'.task.mode = "work"
         \/ pc[p] = "begin" /\ pc'[p] = "idle" /\ mine[p].known # version
<1>1. NewVersion(p) /\ version' = Held(p)
  BY DEF Begin
<1>2. pc[p] = "begin" /\ pc'[p] = "idle"
  BY DEF Begin, Leave, Goto, Placed
<1>3. CASE mine[p].report.task.mode = "work"
  BY <1>1, <1>3 DEF Held
<1>4. CASE mine[p].known = None
  BY <1>2, <1>4 DEF Persistent
<1>5. CASE ~Persistent(mine[p].known)
  BY <1>2, <1>5
<1> QED BY <1>1, <1>3, <1>4, <1>5 DEF NewVersion

\* StandingOutlivesQuestions: a question takes the place of a standing job
\* only if the job was set while the question was being read.
THEOREM StandingJobsStay == Spec => StandingOutlivesQuestions
<1> DEFINE Replaced ==
             version' # version /\ Persistent(version) =>
               \/ version'.task.mode = "work"
               \/ \E p \in Web : pc[p] = "begin" /\ pc'[p] = "idle" /\ mine[p].known # version
<1>1. Init => Placed
  BY DEF Init, Placed
<1>2. Placed /\ [Next]_vars => Placed'
  BY DEF Placed, Next, vars, Receive, Read, KeepWatching, Plan, Begin, StartRun, EndRun,
         AskBack, Leave, Goto
<1>3. Placed /\ [Next]_vars => [Replaced]_vars
  <2> SUFFICES ASSUME Placed, Next PROVE Replaced
    OBVIOUS
  <2>1. ASSUME NEW p \in Web, Begin(p) PROVE Replaced
    BY <2>1, BeginReplaces
  <2>2. CASE UNCHANGED version
    BY <2>2
  <2>3. \/ \E p \in Web : Begin(p)
        \/ UNCHANGED version
    BY DEF Next, Receive, Read, KeepWatching, Plan, StartRun, EndRun
  <2> QED BY <2>1, <2>2, <2>3
<1> QED BY <1>1, <1>2, <1>3, PTL DEF Spec, StandingOutlivesQuestions
-----------------------------------------------------------------------------
(* The answer to a question *)

\* Conditions are there, each of one coin.
Bound(task, coin) ==
  task.conds # <<>> /\ \A i \in DOMAIN task.conds : task.conds[i].asset = coin

\* A task that waits for an answer. What to do is only asked once it is known
\* when.
Waits(task) ==
  /\ IsTask(task) /\ task.status = "needs_input"
  /\ task.field = "action" => Bound(task, Head(task.assets))

\* A task that is not asked what to do with it.
AsksNoAction(task) == IsTask(task) /\ task.field # "action"

\* A message without a model settles what was asked.
Settling(draft, reading) ==
  draft # None /\ reading = None /\ draft.field \in {"unusual_definition", "action"}

Settles(task, draft, reading) ==
  Settling(draft, reading) => task.mode = "work" /\ Bound(task, Head(draft.assets))

LEMMA ReadyFacts ==
  ASSUME NEW message, NEW given, DOMAIN given \subseteq DOMAIN Research,
         "field" \in DOMAIN given => given.field # "action"
  PROVE  AsksNoAction(Ready(message, given))
<1> PICK filled : filled = Filled(given, Research)
  OBVIOUS
<1>1. DOMAIN filled = DOMAIN Research
  BY DEF Filled
<1>2. "field" \in DOMAIN Research /\ Research.field = ""
  BY DEF Research
<1>3. filled.field # "action"
  BY <1>2 DEF Filled
<1>4. Ready(message, given) = [filled EXCEPT !.said = Said(message)]
  BY DEF Ready
<1> HIDE DEF Research
<1> QED BY <1>1, <1>3, <1>4 DEF AsksNoAction, IsTask

LEMMA AskWaits ==
  ASSUME NEW message, NEW field, NEW assets
  PROVE  Ask(message, field, assets).status = "needs_input"
BY DEF Ask, Ready, Filled, Research

LEMMA AskFacts ==
  ASSUME NEW message, NEW field, field # "action", NEW assets
  PROVE  AsksNoAction(Ask(message, field, assets))
<1> PICK given : given = [status |-> "needs_input", field |-> field, assets |-> assets,
                          caps |-> <<>>]
  OBVIOUS
<1>1. DOMAIN given \subseteq DOMAIN Research /\ given.field # "action"
  BY DEF Research
<1>2. AsksNoAction(Ready(message, given))
  BY <1>1, ReadyFacts
<1> QED BY <1>2 DEF Ask

\* The phrases ask for a subject or for what is unusual, never what to do.
LEMMA PhrasesAreUnderstood ==
  ASSUME NEW message
  PROVE  AsksNoAction(UnderstandHeuristic(message))
<1> PICK assets : assets = message.assets
  OBVIOUS
<1> DEFINE Good(given) == /\ DOMAIN given \subseteq DOMAIN Research
                          /\ "field" \in DOMAIN given => given.field # "action"
<1>1. \A given : Good(given) => AsksNoAction(Ready(message, given))
  BY ReadyFacts
<1>2. \A type, list : Good([type |-> type, assets |-> list])
  BY DEF Research
<1>3. \A action, caps : Good(Wide(action, caps))
  BY DEF Research, Wide
<1>4. \A mode, type, list, action, caps :
        Good(Filled([mode |-> mode, type |-> type, assets |-> list], Wide(action, caps)))
  BY DEF Research, Wide, Filled
<1>5. \A coin : Good(ReactionTask(message, coin))
  BY DEF Research, ReactionTask
<1>6. \A list, window : Good(History(list, window))
  BY DEF Research, History
<1>7. \A action : Good(Ranking(message, action))
  BY DEF Research, Ranking
<1>8. \A list : Good(Quote(list))
  BY DEF Research, Quote
<1>9. \A list, universe, caps : Good([assets |-> list, universe |-> universe, caps |-> caps])
  BY DEF Research
<1>10. Good(UnusualTask(message))
  BY DEF Research, UnusualTask
<1>11. Good(StandingWatch(message))
  BY DEF Research, StandingWatch, Filled
<1>12. \A list, field : field # "action" => AsksNoAction(Ask(message, field, list))
  BY AskFacts
<1>13. \A task, universe, limit, caps :
         AsksNoAction(task) =>
           AsksNoAction([task EXCEPT !.universe = universe, !.limit = limit, !.caps = caps])
  BY DEF AsksNoAction, IsTask
<1> HIDE DEF Good
<1> QED BY <1>1, <1>2, <1>3, <1>4, <1>5, <1>6, <1>7, <1>8, <1>9, <1>10, <1>11, <1>12, <1>13
        DEF UnderstandHeuristic

LEMMA FinishedWork ==
  ASSUME NEW draft, IsTask(draft), NEW message
  PROVE  LET task == FinishWork(draft, message)
         IN /\ IsTask(task) /\ task.status = "ready" /\ task.mode = "work"
            /\ task.conds = draft.conds /\ task.field = ""
<1>1. {"status", "mode", "conds", "field", "said", "universe", "limit", "type", "caps", "action"}
        \subseteq DOMAIN draft
  BY DEF IsTask, Research
<1> PICK named : named = [draft EXCEPT !.status = "ready", !.mode = "work", !.field = "",
                                       !.said = @ \cup Said(message)]
  OBVIOUS
<1>2. DOMAIN named = DOMAIN draft /\ named.status = "ready" /\ named.mode = "work"
      /\ named.conds = draft.conds /\ named.field = ""
  BY <1>1
<1> PICK ranked : ranked = IF draft.universe = ""
                           THEN [named EXCEPT !.universe = "top",
                                   !.limit = IF @ = 0 THEN DefaultLimit ELSE @] ELSE named
  OBVIOUS
<1>3. DOMAIN ranked = DOMAIN draft /\ ranked.status = "ready" /\ ranked.mode = "work"
      /\ ranked.conds = draft.conds /\ ranked.field = ""
  BY <1>1, <1>2
<1> PICK task : task = FinishWork(draft, message)
  OBVIOUS
<1>4. CASE draft.action = "investigate_market_reaction"
  <2>1. task = [ranked EXCEPT !.type = "watch_plus_investigate",
                              !.caps = <<"reaction", "market", "anomaly">>]
    BY <1>4 DEF FinishWork
  <2>2. DOMAIN task = DOMAIN ranked
    BY <2>1
  <2>3. {"status", "mode", "conds", "field"} \subseteq DOMAIN ranked
    BY <1>1, <1>3
  <2>4. task.status = ranked.status /\ task.mode = ranked.mode /\ task.conds = ranked.conds
        /\ task.field = ranked.field
    BY <2>1, <2>3
  <2> QED BY <1>3, <2>2, <2>4 DEF IsTask
<1>5. CASE draft.action # "investigate_market_reaction"
  <2> PICK action : action = Else(named.action, "notify")
    OBVIOUS
  <2>1. task = [named EXCEPT !.type = "persistent_monitor", !.caps = <<"anomaly", "market">>,
                             !.action = action]
    BY <1>5 DEF FinishWork
  <2>2. DOMAIN task = DOMAIN named
    BY <2>1
  <2>3. task.status = named.status /\ task.mode = named.mode /\ task.conds = named.conds
        /\ task.field = named.field
    BY <1>1, <1>2, <2>1
  <2> QED BY <1>2, <2>2, <2>3 DEF IsTask
<1> QED BY <1>4, <1>5

\* What counts as unusual is unusual for the coin of the question.
LEMMA ParsedConditions ==
  ASSUME NEW message, NEW asset
  PROVE  \A i \in DOMAIN ParseUnusual(message, asset) :
           ParseUnusual(message, asset)[i].asset = asset
<1> DEFINE falls == "drop" \in message.cues
           price == IF message.percent = 0 THEN <<>>
                    ELSE <<Condition(Change, IF falls THEN "<=" ELSE ">=",
                                     IF falls THEN -message.percent ELSE message.percent, asset)>>
           volume == IF "volume" \in message.cues
                     THEN <<Condition("volume_change_24h", ">=",
                                      IF message.percent = 0 THEN 80 ELSE message.percent, asset)>>
                     ELSE <<>>
           against == IF "combination" \in message.cues
                      THEN <<Condition("relative_performance", "<=", -3, asset)>> ELSE <<>>
           About(conds) == IsSequence(conds) /\ \A c \in ToSet(conds) : c.asset = asset
<1>1. \A metric, operator, value : Condition(metric, operator, value, asset).asset = asset
  BY DEF Condition
<1>2. About(<<>>)
  BY PairIsSequence
<1>3. ASSUME NEW c, c.asset = asset
      PROVE  About(<<c>>)
  <2>1. IsSequence(<<c>>) /\ ToSet(<<c>>) = {c}
    BY PairIsSequence
  <2> QED BY <1>3, <2>1
<1>9. \A s, t : About(s) /\ About(t) => About(s \o t)
  BY ConcatFacts
<1>4. ParseUnusual(message, asset) = (price \o volume) \o against
  BY DEF ParseUnusual
<1> HIDE DEF About
<1>5. About(price)
  BY <1>1, <1>2, <1>3
<1>6. About(volume)
  BY <1>1, <1>2, <1>3
<1>7. About(against)
  BY <1>1, <1>2, <1>3
<1> HIDE DEF price, volume, against
<1>8. About((price \o volume) \o against)
  BY <1>5, <1>6, <1>7, <1>9
<1> QED BY <1>4, <1>8 DEF About, ToSet

\* An answer to what is unusual, or to what to do, settles it or asks on.
LEMMA AnswersAreMerged ==
  ASSUME NEW message, NEW draft, Waits(draft)
  PROVE  LET task == MergeAnswerHeuristic(message, draft)
         IN /\ IsTask(task)
            /\ task.field = "action" => task.status = "needs_input" /\ Waits(task)
            /\ task.status # "needs_input" => Settles(task, draft, None)
<1>1. /\ IsTask(draft) /\ draft.status = "needs_input"
      /\ {"status", "mode", "conds", "field", "said", "universe", "limit", "type", "caps",
           "action", "assets"} \subseteq DOMAIN draft
  BY DEF Waits, IsTask, Research
<1> PICK task : task = MergeAnswerHeuristic(message, draft)
  OBVIOUS
<1> PICK asset : asset = IF draft.assets = <<>> THEN "" ELSE Head(draft.assets)
  OBVIOUS
<1> PICK conds : conds = ParseUnusual(message, asset)
  OBVIOUS
<1> PICK bounded : bounded = [draft EXCEPT !.conds = conds]
  OBVIOUS
<1> DEFINE Right == /\ IsTask(task)
                    /\ task.field = "action" => task.status = "needs_input" /\ Waits(task)
                    /\ task.status # "needs_input" => Settles(task, draft, None)
<1>2. \A i \in DOMAIN conds : conds[i].asset = asset
  BY ParsedConditions
<1>3. /\ IsTask(bounded) /\ bounded.conds = conds /\ bounded.assets = draft.assets
      /\ bounded.status = "needs_input"
      /\ \A action : [bounded EXCEPT !.action = action].conds = conds
                     /\ IsTask([bounded EXCEPT !.action = action])
  BY <1>1 DEF IsTask
<1>4. ASSUME NEW work, IsTask(work), task = FinishWork(work, message),
             Bound(work, Head(draft.assets))
      PROVE  Right
  <2>1. /\ IsTask(task) /\ task.status = "ready" /\ task.mode = "work"
        /\ task.conds = work.conds /\ task.field = ""
    BY <1>4, FinishedWork
  <2> QED BY <1>4, <2>1 DEF Settles, Bound
<1>5. ASSUME draft.field \in {"unusual_definition", ""} PROVE Right
  <2>1. task = MergeUnusual(message, draft)
    BY <1>5 DEF MergeAnswerHeuristic
  <2>2. CASE asset = ""
    <3>1. task = Ask(message, "subject", <<>>)
      BY <2>1, <2>2 DEF MergeUnusual
    <3>2. AsksNoAction(task) /\ task.status = "needs_input"
      BY <3>1, AskFacts, AskWaits
    <3> QED BY <3>2 DEF AsksNoAction
  <2>3. CASE asset # "" /\ conds = <<>>
    <3>1. task = [draft EXCEPT !.field = "unusual_definition"]
      BY <2>1, <2>3 DEF MergeUnusual
    <3>2. IsTask(task) /\ task.field # "action" /\ task.status = "needs_input"
      BY <1>1, <3>1 DEF IsTask
    <3> QED BY <3>2
  <2>4. CASE asset # "" /\ conds # <<>>
    <3>1. asset = Head(draft.assets) /\ Bound(bounded, asset)
      BY <1>2, <1>3, <2>4 DEF Bound
    <3>2. \A action : LET work == [bounded EXCEPT !.action = action]
                      IN IsTask(work) /\ Bound(work, asset)
      BY <1>3, <3>1 DEF Bound
    <3>3. \/ task = FinishWork(bounded, message)
          \/ task = FinishWork([bounded EXCEPT !.action = "notify"], message)
          \/ task = FinishWork([bounded EXCEPT !.action = "investigate_market_reaction"], message)
          \/ task = [bounded EXCEPT !.status = "needs_input", !.field = "action"]
      BY <2>1, <2>4 DEF MergeUnusual
    <3>4. CASE task = [bounded EXCEPT !.status = "needs_input", !.field = "action"]
      <4>1. /\ IsTask(task) /\ task.status = "needs_input" /\ task.conds = conds
            /\ task.assets = draft.assets
        BY <1>1, <1>3, <3>4 DEF IsTask, Research
      <4>2. Bound(task, Head(task.assets))
        BY <1>3, <3>1, <4>1 DEF Bound
      <4> QED BY <4>1, <4>2 DEF Waits
    <3>5. CASE task = FinishWork(bounded, message)
      BY <1>3, <1>4, <3>1, <3>5
    <3>6. ASSUME NEW action, task = FinishWork([bounded EXCEPT !.action = action], message)
          PROVE  Right
      BY <1>4, <3>1, <3>2, <3>6
    <3>7. CASE task = FinishWork([bounded EXCEPT !.action = "notify"], message)
      BY <3>6, <3>7
    <3>8. CASE task = FinishWork([bounded EXCEPT !.action = "investigate_market_reaction"], message)
      BY <3>6, <3>8
    <3> HIDE DEF Right
    <3> QED BY <3>3, <3>4, <3>5, <3>7, <3>8
  <2> QED BY <2>2, <2>3, <2>4
<1>6. ASSUME draft.field = "action" PROVE Right
  <2> PICK work : work = [draft EXCEPT !.action = IF "investigate" \in message.cues
                            THEN "investigate_market_reaction" ELSE "notify"]
    OBVIOUS
  <2>1. IsTask(work) /\ work.conds = draft.conds
    BY <1>1 DEF IsTask
  <2>2. Bound(work, Head(draft.assets))
    BY <1>6, <2>1 DEF Waits, Bound
  <2>3. task = FinishWork(work, message)
    BY <1>6 DEF MergeAnswerHeuristic
  <2> QED BY <1>4, <2>1, <2>2, <2>3
<1>7. ASSUME draft.field \notin {"unusual_definition", "", "action"} PROVE Right
  <2>1. task = UnderstandHeuristic(message)
    BY <1>7 DEF MergeAnswerHeuristic
  <2>2. AsksNoAction(task)
    BY <2>1, PhrasesAreUnderstood
  <2> QED BY <1>7, <2>2 DEF AsksNoAction, Settles, Settling
<1>8. Right
  <2> HIDE DEF Right
  <2> QED BY <1>5, <1>6, <1>7
<1> QED BY <1>8
-----------------------------------------------------------------------------
(* A short message, and what a model makes of one *)

LEMMA FollowUpFacts ==
  ASSUME NEW message, NEW research, research.task = None \/ IsTask(research.task)
  PROVE  FollowUp(message, research) = None \/ AsksNoAction(FollowUp(message, research))
<1> SUFFICES ASSUME IsTask(research.task), FollowUp(message, research) # None
             PROVE  AsksNoAction(FollowUp(message, research))
  BY DEF FollowUp
<1> PICK task : task = research.task
  OBVIOUS
<1>1. {"status", "window", "field", "said", "universe", "limit", "caps", "action", "assets",
        "follow"} \subseteq DOMAIN task /\ IsTask(task)
  BY DEF IsTask, Research
<1> PICK base : base = [task EXCEPT !.follow = TRUE, !.status = "ready", !.field = "",
                                    !.said = Said(message)]
  OBVIOUS
<1>2. AsksNoAction(base) /\ DOMAIN base = DOMAIN task
  BY <1>1 DEF AsksNoAction, IsTask
<1> PICK window : window = Else(base.window, research.timeframe)
  OBVIOUS
<1> DEFINE Fine(t) == AsksNoAction(t) /\ DOMAIN t = DOMAIN task
<1>3. \A t, assets : Fine(t) => Fine([t EXCEPT !.assets = assets])
  BY DEF AsksNoAction, IsTask
<1>4. \A t, other : Fine(t) => Fine([t EXCEPT !.window = other])
  BY DEF AsksNoAction, IsTask
<1>5. \A t : Fine(t) => Fine(WithHistory(t))
  BY DEF AsksNoAction, IsTask, WithHistory
<1>6. \A t : Fine(t) => Fine(Stay(t, "window")) /\ Fine(Stay(t, "follow_up"))
  BY <1>1 DEF AsksNoAction, IsTask, Stay
<1>7. \A t, assets, caps, action : Fine(t) =>
         Fine([t EXCEPT !.assets = assets, !.caps = caps, !.action = action])
  BY DEF AsksNoAction, IsTask
<1>8. \A t, limit : Fine(t) => Fine([t EXCEPT !.limit = limit, !.universe = "top"])
  BY DEF AsksNoAction, IsTask
<1>9. \A t, assets, other : Fine(t) => Fine([t EXCEPT !.assets = assets, !.window = other])
  BY DEF AsksNoAction, IsTask
<1>10. Fine(base)
  BY <1>2
<1> HIDE DEF Fine
<1>11. Fine(FollowUp(message, research))
  BY <1>3, <1>4, <1>5, <1>6, <1>7, <1>8, <1>9, <1>10 DEF FollowUp
<1> QED BY <1>11 DEF Fine

LEMMA LockedTurns ==
  ASSUME NEW message, NEW task, AsksNoAction(task)
  PROVE  AsksNoAction(LockReactionTurn(message, task))
<1>1. CASE "reaction" \notin message.cues
  BY <1>1 DEF LockReactionTurn
<1>2. CASE "reaction" \in message.cues
  <2> PICK read : read = IF task.status = "ready" /\ task.type = "watch_plus_investigate" THEN task
                         ELSE UnderstandHeuristic(message)
    OBVIOUS
  <2>1. AsksNoAction(read)
    BY PhrasesAreUnderstood
  <2> PICK coin : coin = IF message.mover = "" THEN <<>> ELSE <<message.mover>>
    OBVIOUS
  <2> PICK locked : locked = [ReactionTask(message, message.mover) EXCEPT !.assets = coin,
                    !.limit = IF message.limit = 0 /\ read.limit # 0 THEN read.limit ELSE @]
    OBVIOUS
  <2>2. DOMAIN locked \subseteq DOMAIN Research /\ "field" \notin DOMAIN locked
    BY DEF ReactionTask, Research
  <2> PICK known : known = [read EXCEPT !.status = "ready", !.said = Said(message)]
    OBVIOUS
  <2>3. DOMAIN known = DOMAIN Research /\ known.field # "action" /\ "field" \in DOMAIN known
    BY <2>1 DEF AsksNoAction, IsTask, Research
  <2>4. LockReactionTurn(message, task) = Filled(locked, known)
    BY <1>2 DEF LockReactionTurn
  <2>5. DOMAIN Filled(locked, known) = DOMAIN Research
    BY <2>2, <2>3 DEF Filled
  <2>6. Filled(locked, known).field = known.field
    BY <2>2, <2>3 DEF Filled
  <2>7. AsksNoAction(Filled(locked, known))
    BY <2>3, <2>5, <2>6 DEF AsksNoAction, IsTask
  <2> HIDE DEF AsksNoAction
  <2> QED BY <2>4, <2>7
<1> QED BY <1>1, <1>2

LEMMA TaskOfModel ==
  ASSUME NEW message, NEW answer, IsTask(answer)
  PROVE  LET task == TaskFromModel(message, answer)
         IN IsTask(task) /\ task.status = answer.status /\ task.field = answer.field
<1>1. {"status", "field"} \subseteq DOMAIN answer
  BY DEF IsTask, Research
<1> QED BY <1>1 DEF TaskFromModel, IsTask

LEMMA ModelsAreUnderstood ==
  ASSUME NEW message, NEW answer, answer # None, Asks(answer)
  PROVE  AsksNoAction(UnderstandModel(message, answer))
<1> PICK task : task = IF answer = Broken THEN Broken ELSE TaskFromModel(message, answer)
  OBVIOUS
<1>1. CASE task = Broken
  <2> PICK read : read = IF "reaction" \in message.cues THEN UnderstandHeuristic(message)
                         ELSE Ask(message, "subject", <<>>)
    OBVIOUS
  <2>1. AsksNoAction(read)
    BY PhrasesAreUnderstood, AskFacts
  <2>2. UnderstandModel(message, answer) = LockReactionTurn(message, read)
    BY <1>1 DEF UnderstandModel
  <2> QED BY <2>1, <2>2, LockedTurns
<1>2. CASE task # Broken
  <2>1. IsTask(answer) /\ answer.field # "action" /\ task = TaskFromModel(message, answer)
    BY <1>2 DEF Asks
  <2>2. IsTask(task) /\ task.field # "action"
    BY <2>1, TaskOfModel
  <2>3. {"status", "field"} \subseteq DOMAIN task
    BY <2>2 DEF IsTask, Research
  <2>4. \/ UnderstandModel(message, answer) = [task EXCEPT !.field = Else(@, "unusual_definition")]
        \/ UnderstandModel(message, answer) = [task EXCEPT !.status = "needs_input"]
        \/ UnderstandModel(message, answer) = [task EXCEPT !.status = "ready"]
    BY <1>2 DEF UnderstandModel
  <2>5. Else(task.field, "unusual_definition") # "action"
    BY <2>2 DEF Else
  <2> QED BY <2>2, <2>3, <2>4, <2>5 DEF AsksNoAction, IsTask
<1> QED BY <1>1, <1>2

LEMMA ModelsMergeAnswers ==
  ASSUME NEW message, NEW draft, NEW answer, answer # None, Asks(answer)
  PROVE  AsksNoAction(MergeAnswerModel(message, draft, answer))
<1>1. CASE answer = Broken
  BY <1>1, AskFacts DEF MergeAnswerModel
<1>2. CASE answer # Broken
  <2>1. IsTask(answer) /\ answer.field # "action"
        /\ (answer.status = "needs_input" => answer.field # "")
    BY <1>2 DEF Asks
  <2> PICK wider : wider = [message EXCEPT !.assets = Unique(draft.assets \o @)]
    OBVIOUS
  <2> PICK read : read = TaskFromModel(wider, answer)
    OBVIOUS
  <2>2. IsTask(read) /\ read.status = answer.status /\ read.field = answer.field
    BY <2>1, TaskOfModel
  <2> PICK task : task = [read EXCEPT !.said = draft.said \cup Said(message)]
    OBVIOUS
  <2>3. {"status", "field", "conds"} \subseteq DOMAIN read
    BY <2>2 DEF IsTask, Research
  <2>4. IsTask(task) /\ task.status = answer.status /\ task.field = answer.field
        /\ {"status", "field", "conds"} \subseteq DOMAIN task
    BY <2>2, <2>3 DEF IsTask
  <2> PICK merged : merged = MergeAnswerModel(message, draft, answer)
    OBVIOUS
  <2>5. CASE task.status = "needs_input"
    <3>1. merged = [task EXCEPT !.field = Else(@, draft.field)]
      BY <1>2, <2>5 DEF MergeAnswerModel
    <3>2. Else(task.field, draft.field) = answer.field
      BY <2>1, <2>4, <2>5 DEF Else
    <3> QED BY <2>1, <2>4, <3>1, <3>2 DEF AsksNoAction, IsTask
  <2>6. CASE task.status # "needs_input"
    <3>1. merged = [task EXCEPT !.status = "ready", !.field = "",
                      !.conds = IF @ = <<>> THEN draft.conds ELSE @]
      BY <1>2, <2>6 DEF MergeAnswerModel
    <3> QED BY <2>4, <3>1 DEF AsksNoAction, IsTask
  <2> QED BY <2>5, <2>6
<1> QED BY <1>1, <1>2

\* Where neither a question waits nor a model reads, a message is a follow-up or
\* read by its phrases, and locked or not.
LEMMA ReadAlone ==
  ASSUME NEW message, NEW research
  PROVE  LET followed == FollowUp(message, research)
             read == IF followed = None THEN UnderstandHeuristic(message) ELSE followed
         IN Understand(message, None, research, None) \in {read, LockReactionTurn(message, read)}
<1> PICK followed : followed = FollowUp(message, research)
  OBVIOUS
<1>1. CASE followed = None
  BY <1>1 DEF Understand
<1>2. CASE followed # None
  BY <1>2 DEF Understand, LockFollowUp
<1> QED BY <1>1, <1>2

\* What a turn makes of a message: a task that waits for an answer as it
\* should, or one that settles the question it answers.
LEMMA Understood ==
  ASSUME NEW message, NEW pending, pending = None \/ Waits(pending),
         NEW research, research.task = None \/ IsTask(research.task),
         NEW reading, Asks(reading)
  PROVE  LET task == Understand(message, pending, research, reading)
         IN /\ IsTask(task)
            /\ task.status = "needs_input" => Waits(task)
            /\ task.status # "needs_input" => Settles(task, pending, reading)
<1> PICK task : task = Understand(message, pending, research, reading)
  OBVIOUS
<1>1. CASE pending # None /\ reading = None
  <2>1. task = MergeAnswerHeuristic(message, pending)
    BY <1>1 DEF Understand
  <2>2. /\ IsTask(task)
        /\ task.field = "action" => task.status = "needs_input" /\ Waits(task)
        /\ task.status # "needs_input" => Settles(task, pending, None)
    BY <1>1, <2>1, AnswersAreMerged
  <2> QED BY <1>1, <2>2 DEF Waits
<1>2. CASE pending = None \/ reading # None
  <2>1. AsksNoAction(task)
    <3>1. CASE pending # None
      BY <1>2, <3>1, ModelsMergeAnswers DEF Understand
    <3>2. CASE pending = None /\ reading # None
      BY <3>2, ModelsAreUnderstood DEF Understand
    <3>3. CASE pending = None /\ reading = None
      <4> PICK followed : followed = FollowUp(message, research)
        OBVIOUS
      <4> PICK read : read = IF followed = None THEN UnderstandHeuristic(message) ELSE followed
        OBVIOUS
      <4>1. AsksNoAction(read)
        BY FollowUpFacts, PhrasesAreUnderstood
      <4>2. task \in {read, LockReactionTurn(message, read)}
        BY <3>3, ReadAlone
      <4> QED BY <4>1, <4>2, LockedTurns
    <3> QED BY <3>1, <3>2, <3>3
  <2>2. ~Settling(pending, reading)
    BY <1>2 DEF Settling
  <2> QED BY <2>1, <2>2 DEF AsksNoAction, Waits, Settles
<1> QED BY <1>1, <1>2
-----------------------------------------------------------------------------
(* What is compiled of a task *)

\* A plan fills in what a follow-up left blank: not the conditions, nor how the
\* work is to be done.
LEMMA CompiledTask ==
  ASSUME NEW task, IsTask(task), NEW research
  PROVE  LET report == Compile(task, research)
         IN /\ IsTask(report.task) /\ report.task.conds = task.conds
            /\ task.mode = "work" => report.model # "task"
<1> PICK kept : kept = Inherit(task, research)
  OBVIOUS
<1>1. {"window", "caps", "assets", "universe", "conds", "mode"} \subseteq DOMAIN task
  BY DEF IsTask, Research
<1>2. IsTask(kept) /\ kept.conds = task.conds /\ kept.mode = task.mode
  <2>1. CASE ~task.follow
    BY <2>1 DEF Inherit
  <2>2. CASE task.follow
    <3> PICK dated : dated = IF task.window = "" /\ research.timeframe # ""
                             THEN [task EXCEPT !.window = research.timeframe,
                                     !.caps = Unique(@ \o <<"historical", "market">>)]
                             ELSE task
      OBVIOUS
    <3>1. DOMAIN dated = DOMAIN task /\ dated.conds = task.conds /\ dated.mode = task.mode
      BY <1>1
    <3>2. kept = [dated EXCEPT !.assets = IF @ = <<>> THEN research.entities ELSE @,
                               !.universe = Else(@, research.universe)]
      BY <2>2 DEF Inherit
    <3>3. DOMAIN kept = DOMAIN dated /\ kept.conds = dated.conds /\ kept.mode = dated.mode
      BY <1>1, <3>1, <3>2
    <3> QED BY <3>1, <3>3 DEF IsTask
  <2> QED BY <2>1, <2>2
<1>3. /\ Compile(task, research).task = kept
      /\ Compile(task, research).model = ExecutionModel(kept)
  BY DEF Compile, CompileFromTask
<1>4. kept.mode = "work" => ExecutionModel(kept) # "task"
  BY DEF ExecutionModel
<1> QED BY <1>2, <1>3, <1>4

LEMMA AppendedItems ==
  ASSUME NEW s, IsSequence(s), NEW x
  PROVE  /\ IsSequence(Append(s, x))
         /\ \A i \in DOMAIN Append(s, x) :
              Append(s, x)[i] = x \/ (i \in DOMAIN s /\ Append(s, x)[i] = s[i])
<1> PICK t : t = Append(s, x)
  OBVIOUS
<1>1. PICK n \in Nat : n = Len(s) /\ DOMAIN s = 1..n
  BY SequenceFacts
<1>2. s \in Seq(ToSet(s) \cup {x})
  <2>1. s \in Seq(ToSet(s))
    BY DEF IsSequence
  <2> QED BY <2>1
<1>3. /\ t \in Seq(ToSet(s) \cup {x}) /\ Len(t) = n + 1 /\ t[n + 1] = x
      /\ \A i \in 1..n : t[i] = s[i]
  BY <1>1, <1>2, AppendProperties
<1>4. DOMAIN t = 1..(n + 1) /\ t = [i \in 1..(n + 1) |-> t[i]]
  BY <1>1, <1>3, LenProperties
<1>5. IsSequence(t)
  BY <1>1, <1>4, MadeSequence
<1>6. \A i \in 1..(n + 1) : i \in 1..n \/ i = n + 1
  BY <1>1
<1>7. ASSUME NEW i \in DOMAIN t
      PROVE  t[i] = x \/ (i \in DOMAIN s /\ t[i] = s[i])
  BY <1>1, <1>3, <1>4, <1>6
<1> QED BY <1>5, <1>7

-----------------------------------------------------------------------------
(* The question that waits, and the job that settles it *)

Loaded(seen) ==
  /\ DOMAIN seen = DOMAIN Empty
  /\ seen.pending = None \/ Waits(seen.pending)
  /\ seen.research.task = None \/ IsTask(seen.research.task)

Settled(held) ==
  Settling(held.draft, held.reading) =>
    held.model # "task" /\ Bound(held.task, Head(held.draft.assets))

TurnSettles(label, local) ==
  /\ DOMAIN local = DOMAIN Idle /\ Loaded(local.seen)
  /\ label = "read" => Asks(local.reading)
  /\ label = "keep" => local.draft = None
  /\ label = "plan" => IsTask(local.task) /\ Settles(local.task, local.draft, local.reading)
  /\ label = "begin" /\ Settling(local.draft, local.reading) =>
         local.report.model # "task" /\ Bound(local.report.task, Head(local.draft.assets))

RunSettles(run) ==
  DOMAIN run = {"stage", "seen", "held"} /\ Loaded(run.seen) /\ Settled(run.held)

\* The inductive invariant: whatever was loaded of the memory has a question
\* that waits as it should, and each turn on its way carries what settles the
\* question that it took up.
Answering ==
  /\ Loaded(context)
  /\ DOMAIN pc = Web /\ DOMAIN mine = Web
  /\ \A p \in Web : TurnSettles(pc[p], mine[p])
  /\ IsSequence(runs)
  /\ \A r \in DOMAIN runs : RunSettles(runs[r])

LEMMA EmptyIsLoaded == Loaded(Empty)
BY DEF Loaded, Empty, NoContext

LEMMA IdleSettles == TurnSettles("idle", Idle)
BY EmptyIsLoaded DEF TurnSettles, Idle

\* A turn that goes on leaves the others where they are.
LEMMA TurnsGoOn ==
  ASSUME Answering, NEW p \in Web, NEW label, NEW local, Goto(p, label, local),
         TurnSettles(label, local)
  PROVE  DOMAIN pc' = Web /\ DOMAIN mine' = Web /\ \A q \in Web : TurnSettles(pc'[q], mine'[q])
<1>1. /\ DOMAIN pc' = Web /\ DOMAIN mine' = Web
      /\ pc'[p] = label /\ mine'[p] = local
      /\ \A q \in Web : q # p => pc'[q] = pc[q] /\ mine'[q] = mine[q]
  BY DEF Goto, Answering
<1> QED BY <1>1 DEF Answering

LEMMA TurnsLeave ==
  ASSUME Answering, NEW p \in Web, Leave(p)
  PROVE  DOMAIN pc' = Web /\ DOMAIN mine' = Web /\ \A q \in Web : TurnSettles(pc'[q], mine'[q])
BY TurnsGoOn, IdleSettles DEF Leave

LEMMA ReceiveAnswers ==
  ASSUME ReadingsAreAsked, Answering, NEW p \in Web, Receive(p)
  PROVE  Answering'
<1> PICK m \in Messages :
      Goto(p, IF "keep watching" \in m.message.cues THEN "keep" ELSE "read",
           [Idle EXCEPT !.message = m.message, !.reading = m.reading,
                        !.seen = context, !.known = version])
  BY DEF Receive
<1> PICK label : label = IF "keep watching" \in m.message.cues THEN "keep" ELSE "read"
  OBVIOUS
<1> PICK local : local = [Idle EXCEPT !.message = m.message, !.reading = m.reading,
                                      !.seen = context, !.known = version]
  OBVIOUS
<1>1. /\ DOMAIN local = DOMAIN Idle /\ local.seen = context /\ local.reading = m.reading
      /\ local.draft = None /\ label \in {"keep", "read"}
  BY DEF Idle
<1>2. Loaded(context) /\ Asks(m.reading)
  BY DEF Answering, ReadingsAreAsked
<1>3. TurnSettles(label, local)
  BY <1>1, <1>2 DEF TurnSettles
<1>4. DOMAIN pc' = Web /\ DOMAIN mine' = Web /\ \A q \in Web : TurnSettles(pc'[q], mine'[q])
  BY <1>3, TurnsGoOn
<1>5. UNCHANGED <<context, runs>>
  BY DEF Receive
<1> QED BY <1>4, <1>5 DEF Answering

LEMMA ReadAnswers ==
  ASSUME Answering, NEW p \in Web, Read(p)
  PROVE  Answering'
<1> PICK local : local = mine[p]
  OBVIOUS
<1> PICK seen : seen = local.seen
  OBVIOUS
<1> PICK task : task = Understand(local.message, seen.pending, seen.research, local.reading)
  OBVIOUS
<1>1. /\ DOMAIN local = DOMAIN Idle /\ Loaded(seen) /\ Asks(local.reading)
  BY DEF Answering, TurnSettles, Read
<1>2. /\ DOMAIN seen = DOMAIN Empty
      /\ seen.pending = None \/ Waits(seen.pending)
      /\ seen.research.task = None \/ IsTask(seen.research.task)
  BY <1>1 DEF Loaded
<1>3. /\ IsTask(task)
      /\ task.status = "needs_input" => Waits(task)
      /\ task.status # "needs_input" => Settles(task, seen.pending, local.reading)
  BY <1>1, <1>2, Understood
<1>4. UNCHANGED runs
  BY DEF Read
<1>5. {"pending", "research"} \subseteq DOMAIN seen
  BY <1>1 DEF Loaded, Empty
<1>6. \A answer : answer = None \/ Waits(answer) => Loaded([seen EXCEPT !.pending = answer])
  BY <1>1, <1>5 DEF Loaded
<1>7. CASE task.status = "needs_input"
  <2>1. AskBack(p, task)
    BY <1>7 DEF Read
  <2>2. Leave(p) /\ context' = [seen EXCEPT !.pending = task]
    BY <2>1 DEF AskBack, Write
  <2>3. Loaded(context')
    BY <1>3, <1>6, <1>7, <2>2
  <2> QED BY <1>4, <2>2, <2>3, TurnsLeave DEF Answering
<1>8. CASE task.status # "needs_input"
  <2> PICK next : next = [local EXCEPT !.task = task, !.draft = seen.pending, !.seen.pending = None]
    OBVIOUS
  <2>1. ClearPending(p) /\ Goto(p, "plan", next)
    BY <1>8 DEF Read
  <2>2. context' = context \/ context' = [seen EXCEPT !.pending = None]
    BY <2>1 DEF ClearPending, Write
  <2>3. Loaded(context')
    BY <1>6, <2>2 DEF Answering
  <2>4. {"task", "draft", "seen", "reading"} \subseteq DOMAIN local
    BY <1>1 DEF Idle
  <2>5. /\ DOMAIN next = DOMAIN Idle /\ next.seen = [seen EXCEPT !.pending = None]
        /\ next.task = task /\ next.draft = seen.pending /\ next.reading = local.reading
    BY <1>1, <2>4
  <2>6. TurnSettles("plan", next)
    BY <1>3, <1>6, <1>8, <2>5 DEF TurnSettles
  <2> QED BY <1>4, <2>1, <2>3, <2>6, TurnsGoOn DEF Answering
<1> QED BY <1>7, <1>8

LEMMA KeepAnswers ==
  ASSUME Answering, NEW p \in Web, KeepWatching(p)
  PROVE  Answering'
<1> PICK local : local = mine[p]
  OBVIOUS
<1> PICK task : task = local.seen.research.task
  OBVIOUS
<1>1. /\ DOMAIN local = DOMAIN Idle /\ Loaded(local.seen) /\ local.draft = None
  BY DEF Answering, TurnSettles, KeepWatching
<1>2. UNCHANGED <<context, runs>>
  BY DEF KeepWatching
<1>3. CASE task = None
  <2>1. Leave(p)
    BY <1>3 DEF KeepWatching
  <2> QED BY <1>2, <2>1, TurnsLeave DEF Answering
<1>4. CASE task # None
  <2> PICK next : next = [local EXCEPT !.task = Standing(task)]
    OBVIOUS
  <2>1. Goto(p, "plan", next)
    BY <1>4 DEF KeepWatching
  <2>2. IsTask(task)
    BY <1>1, <1>4 DEF Loaded
  <2>3. IsTask(Standing(task))
    BY <2>2 DEF IsTask, Standing
  <2>4. /\ DOMAIN next = DOMAIN Idle /\ next.seen = local.seen
        /\ next.task = Standing(task) /\ next.draft = None
    BY <1>1 DEF Idle
  <2>5. TurnSettles("plan", next)
    BY <1>1, <2>3, <2>4 DEF TurnSettles, Settles, Settling
  <2> QED BY <1>2, <2>1, <2>5, TurnsGoOn DEF Answering
<1> QED BY <1>3, <1>4

LEMMA PlanAnswers ==
  ASSUME Answering, NEW p \in Web, Plan(p)
  PROVE  Answering'
<1> PICK local : local = mine[p]
  OBVIOUS
<1> PICK seen : seen = local.seen
  OBVIOUS
<1> PICK report : report = Compile(local.task, seen.research)
  OBVIOUS
<1>1. /\ DOMAIN local = DOMAIN Idle /\ Loaded(seen) /\ IsTask(local.task)
      /\ Settles(local.task, local.draft, local.reading)
  BY DEF Answering, TurnSettles, Plan
<1>2. UNCHANGED runs
  BY DEF Plan
<1>3. CASE ~report.plan.accepted
  <2>1. Leave(p) /\ UNCHANGED context
    BY <1>3 DEF Plan
  <2> QED BY <1>2, <2>1, TurnsLeave DEF Answering
<1>4. CASE report.plan.accepted
  <2> PICK next : next = [local EXCEPT !.report = report]
    OBVIOUS
  <2>1. /\ context' = [seen EXCEPT !.research = ApplyTask(@, report.task)]
        /\ Goto(p, "begin", next)
    BY <1>4 DEF Plan, Write
  <2>2. /\ IsTask(report.task) /\ report.task.conds = local.task.conds
        /\ local.task.mode = "work" => report.model # "task"
    BY <1>1, CompiledTask
  <2>3. ApplyTask(seen.research, report.task).task = report.task
    BY DEF ApplyTask
  <2>4. {"pending", "research"} \subseteq DOMAIN seen
    BY <1>1 DEF Loaded, Empty
  <2> PICK research : research = ApplyTask(seen.research, report.task)
    OBVIOUS
  <2>5. /\ DOMAIN context' = DOMAIN seen /\ context'.pending = seen.pending
        /\ context'.research = research
    BY <2>1, <2>4
  <2>6. Loaded(context')
    BY <1>1, <2>2, <2>3, <2>5 DEF Loaded
  <2>7. /\ DOMAIN next = DOMAIN Idle /\ next.seen = seen /\ next.report = report
        /\ next.draft = local.draft /\ next.reading = local.reading
    BY <1>1 DEF Idle
  <2>8. Settling(local.draft, local.reading) =>
          report.model # "task" /\ Bound(report.task, Head(local.draft.assets))
    BY <1>1, <2>2 DEF Settles, Bound
  <2>9. TurnSettles("begin", next)
    BY <1>1, <2>7, <2>8 DEF TurnSettles
  <2> QED BY <1>2, <2>1, <2>6, <2>9, TurnsGoOn DEF Answering
<1> QED BY <1>3, <1>4

LEMMA BeginAnswers ==
  ASSUME Answering, NEW p \in Web, Begin(p)
  PROVE  Answering'
<1> PICK local : local = mine[p]
  OBVIOUS
<1>1. Settling(local.draft, local.reading) =>
        local.report.model # "task" /\ Bound(local.report.task, Head(local.draft.assets))
  BY DEF Answering, TurnSettles, Begin
<1> PICK held : held = Held(p)
  OBVIOUS
<1>2. /\ held.draft = local.draft /\ held.reading = local.reading
      /\ held.model = local.report.model /\ held.task = local.report.task
  BY DEF Held
<1>3. Settled(held)
  BY <1>1, <1>2 DEF Settled
<1> PICK run : run = [stage |-> "queued", seen |-> Empty, held |-> held]
  OBVIOUS
<1>4. RunSettles(run)
  BY <1>3, EmptyIsLoaded DEF RunSettles
<1>5. runs' = Append(runs, run) /\ Leave(p) /\ UNCHANGED context
  BY DEF Begin
<1>6. IsSequence(runs) /\ \A r \in DOMAIN runs : RunSettles(runs[r])
  BY DEF Answering
<1>7. IsSequence(runs') /\ \A r \in DOMAIN runs' : RunSettles(runs'[r])
  BY <1>4, <1>5, <1>6, AppendedItems
<1> QED BY <1>5, <1>7, TurnsLeave DEF Answering

\* A run that goes on leaves the others where they are.
LEMMA RunsGoOn ==
  ASSUME Answering, NEW r \in DOMAIN runs, NEW stage, NEW seen, Loaded(seen),
         runs' = [runs EXCEPT ![r].stage = stage, ![r].seen = seen]
  PROVE  IsSequence(runs') /\ \A q \in DOMAIN runs' : RunSettles(runs'[q])
<1> PICK run : run = [runs[r] EXCEPT !.stage = stage, !.seen = seen]
  OBVIOUS
<1>1. PICK n \in Nat : DOMAIN runs = 1..n
  BY SequenceFacts DEF Answering
<1>2. DOMAIN runs' = 1..n /\ runs'[r] = run /\ \A q \in 1..n : q # r => runs'[q] = runs[q]
  BY <1>1
<1>3. runs' = [i \in 1..n |-> runs'[i]]
  BY <1>1
<1>4. IsSequence(runs')
  BY <1>3, MadeSequence
<1>5. RunSettles(runs[r])
  BY DEF Answering
<1>6. DOMAIN run = {"stage", "seen", "held"} /\ run.seen = seen /\ run.held = runs[r].held
  BY <1>5 DEF RunSettles
<1>7. RunSettles(run)
  BY <1>5, <1>6 DEF RunSettles
<1>8. \A q \in 1..n : RunSettles(runs[q])
  BY <1>1 DEF Answering
<1> HIDE DEF RunSettles
<1>9. \A q \in 1..n : RunSettles(runs'[q])
  BY <1>2, <1>7, <1>8
<1> QED BY <1>2, <1>4, <1>9

LEMMA StartRunAnswers ==
  ASSUME Answering, NEW r \in DOMAIN runs, StartRun(r)
  PROVE  Answering'
<1>1. /\ runs' = [runs EXCEPT ![r].stage = "running", ![r].seen = context]
      /\ UNCHANGED <<context, pc, mine>>
  BY DEF StartRun
<1>2. Loaded(context)
  BY DEF Answering
<1>3. IsSequence(runs') /\ \A q \in DOMAIN runs' : RunSettles(runs'[q])
  BY <1>1, <1>2, RunsGoOn
<1> QED BY <1>1, <1>3 DEF Answering

LEMMA EndRunAnswers ==
  ASSUME Answering, NEW r \in DOMAIN runs, EndRun(r)
  PROVE  Answering'
<1> PICK seen : seen = runs[r].seen
  OBVIOUS
<1>1. /\ runs' = [runs EXCEPT ![r].stage = "done", ![r].seen = Empty]
      /\ context' = [seen EXCEPT !.findings = RememberFinding(@, r)]
      /\ UNCHANGED <<pc, mine>>
  BY DEF EndRun, Write
<1>2. Loaded(seen)
  BY DEF Answering, RunSettles
<1>3. {"pending", "research", "findings"} \subseteq DOMAIN seen
  BY <1>2 DEF Loaded, Empty
<1>4. /\ DOMAIN context' = DOMAIN seen /\ context'.pending = seen.pending
      /\ context'.research = seen.research
  BY <1>1, <1>3
<1>5. Loaded(context')
  BY <1>2, <1>4 DEF Loaded
<1>6. IsSequence(runs') /\ \A q \in DOMAIN runs' : RunSettles(runs'[q])
  BY <1>1, EmptyIsLoaded, RunsGoOn
<1> QED BY <1>1, <1>5, <1>6 DEF Answering

\* AnswersSettleTheirQuestion: what counts as unusual, and what to do then, is
\* settled by an answer that no model reads, in a job that stands and whose
\* conditions are all of the coin of the question. A model that asks is taken
\* to name what it asks for, and never to ask what to do.
THEOREM AnswersSettle ==
  ASSUME ReadingsAreAsked
  PROVE  Spec => []AnswersSettleTheirQuestion
<1>1. Init => Answering
  <2> SUFFICES ASSUME Init PROVE Answering
    OBVIOUS
  <2>1. IsSequence(runs) /\ DOMAIN runs = {}
    <3>1. IsSequence(<<>>)
      BY PairIsSequence
    <3>2. runs = <<>>
      BY DEF Init
    <3> QED BY <3>1, <3>2
  <2>2. Loaded(context)
    BY EmptyIsLoaded DEF Init
  <2>3. /\ DOMAIN pc = Web /\ DOMAIN mine = Web
        /\ \A p \in Web : pc[p] = "idle" /\ mine[p] = Idle
    BY DEF Init
  <2>4. \A p \in Web : TurnSettles(pc[p], mine[p])
    BY <2>3, IdleSettles
  <2> QED BY <2>1, <2>2, <2>3, <2>4 DEF Answering
<1>2. Answering /\ [Next]_vars => Answering'
  <2> SUFFICES ASSUME Answering, [Next]_vars PROVE Answering'
    OBVIOUS
  <2>1. CASE UNCHANGED vars
    BY <2>1 DEF vars, Answering
  <2>2. ASSUME NEW p \in Web, Receive(p) PROVE Answering'
    BY <2>2, ReceiveAnswers
  <2>3. ASSUME NEW p \in Web, Read(p) PROVE Answering'
    BY <2>3, ReadAnswers
  <2>4. ASSUME NEW p \in Web, KeepWatching(p) PROVE Answering'
    BY <2>4, KeepAnswers
  <2>5. ASSUME NEW p \in Web, Plan(p) PROVE Answering'
    BY <2>5, PlanAnswers
  <2>6. ASSUME NEW p \in Web, Begin(p) PROVE Answering'
    BY <2>6, BeginAnswers
  <2>7. ASSUME NEW r \in DOMAIN runs, StartRun(r) PROVE Answering'
    BY <2>7, StartRunAnswers
  <2>8. ASSUME NEW r \in DOMAIN runs, EndRun(r) PROVE Answering'
    BY <2>8, EndRunAnswers
  <2> QED BY <2>1, <2>2, <2>3, <2>4, <2>5, <2>6, <2>7, <2>8 DEF Next
<1>3. Answering => AnswersSettleTheirQuestion
  <2> SUFFICES ASSUME Answering, NEW r \in DOMAIN runs,
                      Settling(runs[r].held.draft, runs[r].held.reading)
               PROVE  runs[r].held.model # "task"
                      /\ Bound(runs[r].held.task, Head(runs[r].held.draft.assets))
    BY DEF AnswersSettleTheirQuestion, Settling, Bound
  <2>1. Settled(runs[r].held)
    BY DEF Answering, RunSettles
  <2> QED BY <2>1 DEF Settled
<1> QED BY <1>1, <1>2, <1>3, PTL DEF Spec

-----------------------------------------------------------------------------
(* Tasks are typed *)

\* The conditions of a task.
Bars == Seq([metric: STRING, operator: STRING, value: Int \cup {None}, asset: STRING])

\* A task that is ready or waits.
Task ==
  [status: {"ready", "needs_input"}, mode: {"ask", "work"}, type: TaskTypes, assets: Seq(STRING),
   universe: {"", "top", "symbols"}, window: STRING, limit: Nat, action: STRING, output: STRING,
   conds: Bars,
   caps: Seq(STRING), field: STRING, said: SUBSET {"tell", "investigate"}, follow: BOOLEAN]

LEMMA TaskStatus ==
  ASSUME NEW task, NEW status \in {"ready", "needs_input"}
  PROVE  task \in Task /\ task.status = status <=> task \in Tasks(status)
BY DEF Bars, Task, Tasks

\* What is given of a task.
Given(fields) ==
  /\ DOMAIN fields \subseteq DOMAIN Research
  /\ "status" \in DOMAIN fields => fields.status \in {"ready", "needs_input"}
  /\ "mode" \in DOMAIN fields => fields.mode \in {"ask", "work"}
  /\ "type" \in DOMAIN fields => fields.type \in TaskTypes
  /\ "assets" \in DOMAIN fields => fields.assets \in Seq(STRING)
  /\ "universe" \in DOMAIN fields => fields.universe \in {"", "top", "symbols"}
  /\ "window" \in DOMAIN fields => fields.window \in STRING
  /\ "limit" \in DOMAIN fields => fields.limit \in Nat
  /\ "action" \in DOMAIN fields => fields.action \in STRING
  /\ "output" \in DOMAIN fields => fields.output \in STRING
  /\ "conds" \in DOMAIN fields =>
       fields.conds \in Bars
  /\ "caps" \in DOMAIN fields => fields.caps \in Seq(STRING)
  /\ "field" \in DOMAIN fields => fields.field \in STRING
  /\ "said" \in DOMAIN fields => fields.said \in SUBSET {"tell", "investigate"}
  /\ "follow" \in DOMAIN fields => fields.follow \in BOOLEAN

LEMMA TextLists ==
  ASSUME NEW S, NEW a \in S, NEW b \in S, NEW c \in S
  PROVE  /\ <<>> \in Seq(S) /\ <<a>> \in Seq(S) /\ <<a, b>> \in Seq(S)
         /\ <<a, b, c>> \in Seq(S)
<1>1. <<>> \in Seq(S)
  OBVIOUS
<1>2. <<a>> \in Seq(S)
  OBVIOUS
<1>3. <<a, b>> \in Seq(S)
  OBVIOUS
<1>4. <<a, b, c>> \in Seq(S)
  OBVIOUS
<1> QED BY <1>1, <1>2, <1>3, <1>4

LEMMA ResearchIsTyped == Research \in Task
<1>1. "" \in STRING /\ "report" \in STRING /\ "market" \in STRING
  BY ConversationAssumption DEF Words
<1> PICK caps : caps = <<"market">>
  OBVIOUS
<1> PICK none : none = <<>>
  OBVIOUS
<1>2. caps \in Seq(STRING)
  BY <1>1, TextLists
<1>3. none \in Seq(STRING)
  BY <1>1, TextLists
<1>4. none \in Bars
  BY DEF Bars
<1>5. Research = [status |-> "ready", mode |-> "ask", type |-> "one_shot_research", assets |-> none,
   universe |-> "", window |-> "", limit |-> 0, conds |-> none, action |-> "report",
   output |-> "report", caps |-> caps, field |-> "", said |-> {}, follow |-> FALSE]
  BY DEF Research
<1> QED BY <1>1, <1>2, <1>3, <1>4, <1>5 DEF Task, TaskTypes

LEMMA FilledTask ==
  ASSUME NEW fields, Given(fields), NEW task \in Task
  PROVE  Filled(fields, task) \in Task
<1> PICK filled : filled = Filled(fields, task)
  OBVIOUS
<1> PICK names : names = {"status", "mode", "type", "assets", "universe", "window", "limit",
                          "conds", "action", "output", "caps", "field", "said", "follow"}
  OBVIOUS
<1>1. DOMAIN task = names
  BY DEF Task
<1>2. DOMAIN fields \subseteq names
  BY DEF Given, Research
<1>3. filled = [name \in names |-> IF name \in DOMAIN fields THEN fields[name] ELSE task[name]]
  BY <1>1, <1>2 DEF Filled
<1>4. /\ filled.status \in {"ready", "needs_input"} /\ filled.mode \in {"ask", "work"}
      /\ filled.type \in TaskTypes /\ filled.assets \in Seq(STRING)
  BY <1>3 DEF Given, Task
<1>5. /\ filled.universe \in {"", "top", "symbols"} /\ filled.window \in STRING
      /\ filled.limit \in Nat /\ filled.action \in STRING /\ filled.output \in STRING
  BY <1>3 DEF Given, Task
<1>6. /\ filled.conds \in Bars
      /\ filled.caps \in Seq(STRING) /\ filled.field \in STRING
      /\ filled.said \in SUBSET {"tell", "investigate"} /\ filled.follow \in BOOLEAN
  BY <1>3 DEF Given, Task
<1>7. filled = [name \in names |-> filled[name]]
  BY <1>3
<1>8. filled \in Task
  BY <1>4, <1>5, <1>6, <1>7 DEF Task
<1> QED BY <1>8

LEMMA ReadyTask ==
  ASSUME NEW message \in MessageTypes, NEW fields, Given(fields)
  PROVE  Ready(message, fields) \in Task
<1>1. Filled(fields, Research) \in Task
  BY ResearchIsTyped, FilledTask
<1>2. Said(message) \in SUBSET {"tell", "investigate"}
  BY DEF Said
<1> QED BY <1>1, <1>2 DEF Ready, Task

LEMMA AskTask ==
  ASSUME NEW message \in MessageTypes, NEW field \in STRING, NEW assets \in Seq(STRING)
  PROVE  Ask(message, field, assets) \in Task /\ Ask(message, field, assets).status = "needs_input"
<1> PICK fields : fields = [status |-> "needs_input", field |-> field, assets |-> assets,
                            caps |-> <<>>]
  OBVIOUS
<1>1. Given(fields)
  <2>1. DOMAIN fields \subseteq DOMAIN Research
    BY DEF Research
  <2>2. fields.caps \in Seq(STRING)
    OBVIOUS
  <2> QED BY <2>1, <2>2 DEF Given
<1>2. Ready(message, fields) \in Task
  BY <1>1, ReadyTask
<1> QED BY <1>2, AskWaits DEF Ask

LEMMA TextSequence ==
  ASSUME NEW S, NEW seq
  PROVE  seq \in Seq(S) <=> IsSequence(seq) /\ ToSet(seq) \subseteq S
<1>1. ASSUME seq \in Seq(S) PROVE IsSequence(seq) /\ ToSet(seq) \subseteq S
  <2>1. PICK n \in Nat : seq \in [1..n -> S]
    BY <1>1, SeqDef
  <2>2. seq = [i \in 1..n |-> seq[i]]
    BY <2>1
  <2>3. IsSequence(seq)
    BY <2>2, MadeSequence
  <2> QED BY <2>1, <2>3 DEF ToSet
<1>2. ASSUME IsSequence(seq), ToSet(seq) \subseteq S PROVE seq \in Seq(S)
  <2>1. PICK n \in Nat : seq \in [1..n -> ToSet(seq)]
    BY <1>2, SeqDef DEF IsSequence
  <2>2. seq \in [1..n -> S]
    BY <1>2, <2>1
  <2> QED BY <2>2, SeqDef
<1> QED BY <1>1, <1>2

LEMMA UniqueTexts ==
  ASSUME NEW S, NEW seq \in Seq(S)
  PROVE  Unique(seq) \in Seq(S)
<1>1. IsSequence(seq) /\ ToSet(seq) \subseteq S
  BY TextSequence
<1>2. IsSequence(Unique(seq)) /\ ToSet(Unique(seq)) \subseteq ToSet(seq)
  BY <1>1, UniqueSequence
<1> QED BY <1>1, <1>2, TextSequence

LEMMA UptoTexts ==
  ASSUME NEW S, NEW seq \in Seq(S), NEW n \in Nat
  PROVE  Upto(seq, n) \in Seq(S) /\ Len(Upto(seq, n)) <= n
<1>1. IsSequence(seq) /\ ToSet(seq) \subseteq S
  BY TextSequence
<1>2. IsSequence(Upto(seq, n)) /\ ToSet(Upto(seq, n)) \subseteq ToSet(seq)
  BY <1>1, UptoFacts
<1>3. Upto(seq, n) \in Seq(S)
  BY <1>1, <1>2, TextSequence
<1> PICK m : m = IF Len(seq) < n THEN Len(seq) ELSE n
  OBVIOUS
<1>4. Len(seq) \in Nat
  BY LenProperties
<1>5. m \in Nat /\ m <= Len(seq) /\ m <= n
  BY <1>4
<1>6. Len(SubSeq(seq, 1, m)) = m
  BY <1>4, <1>5, SubSeqProperties
<1>7. Upto(seq, n) = SubSeq(seq, 1, m)
  BY DEF Upto
<1> QED BY <1>3, <1>5, <1>6, <1>7

LEMMA ConditionTypes ==
  ASSUME NEW metric \in STRING, NEW operator \in STRING, NEW value \in Int, NEW asset \in STRING
  PROVE  <<Condition(metric, operator, value, asset)>> \in Bars
<1> PICK bar : bar = Condition(metric, operator, value, asset)
  OBVIOUS
<1>1. bar \in [metric: STRING, operator: STRING, value: Int \cup {None}, asset: STRING]
  BY DEF Condition
<1> QED BY <1>1, TextLists DEF Bars

LEMMA TriggerTypes ==
  ASSUME NEW message \in MessageTypes, NEW asset \in STRING
  PROVE  <<PriceTrigger(message, asset)>> \in Bars
<1>1. SignedPercent(message) \in Int
  BY DEF SignedPercent, MessageTypes
<1>2. Change \in STRING /\ ">=" \in STRING /\ "<=" \in STRING
  BY ConversationAssumption DEF Words, Change
<1> QED BY <1>1, <1>2, ConditionTypes DEF PriceTrigger

LEMMA LimitTypes ==
  ASSUME NEW message \in MessageTypes
  PROVE  ListingLimit(message) \in Nat
BY ConversationAssumption DEF ListingLimit, MessageTypes

LEMMA ReactionGiven ==
  ASSUME NEW message \in MessageTypes, NEW asset \in STRING
  PROVE  Given(ReactionTask(message, asset))
<1> PICK fields : fields = ReactionTask(message, asset)
  OBVIOUS
<1>1. "investigate_market_reaction" \in STRING /\ "reaction" \in STRING /\ "market" \in STRING
      /\ "anomaly" \in STRING /\ "ranked_table" \in STRING
  BY ConversationAssumption DEF Words
<1>2. <<"reaction", "market", "anomaly">> \in Seq(STRING) /\ <<asset>> \in Seq(STRING)
  BY <1>1, TextLists
<1>3. DOMAIN fields \subseteq DOMAIN Research
  BY DEF ReactionTask, Research
<1>4. fields.conds \in Bars
  BY TriggerTypes DEF ReactionTask
<1>5. /\ fields.mode = "work" /\ fields.type = "watch_plus_investigate" /\ fields.assets = <<asset>>
      /\ fields.universe = "top" /\ fields.limit \in Nat
      /\ fields.action = "investigate_market_reaction"
      /\ fields.caps = <<"reaction", "market", "anomaly">> /\ fields.output = "ranked_table"
      /\ DOMAIN fields = {"mode", "type", "assets", "universe", "limit", "action", "caps", "output",
                          "conds"}
  BY LimitTypes DEF ReactionTask
<1>6. Given(fields)
  BY <1>1, <1>2, <1>3, <1>4, <1>5 DEF Given, TaskTypes, Bars
<1> QED BY <1>6

LEMMA FilledGiven ==
  ASSUME NEW a, NEW b, Given(a), Given(b)
  PROVE  Given(Filled(a, b))
<1> PICK fields : fields = Filled(a, b)
  OBVIOUS
<1>1. /\ DOMAIN fields = DOMAIN a \cup DOMAIN b
      /\ \A name \in DOMAIN fields :
           fields[name] = IF name \in DOMAIN a THEN a[name] ELSE b[name]
  BY DEF Filled
<1>2. DOMAIN fields \subseteq DOMAIN Research
  BY <1>1 DEF Given
<1>3. /\ "status" \in DOMAIN fields => fields.status \in {"ready", "needs_input"}
      /\ "mode" \in DOMAIN fields => fields.mode \in {"ask", "work"}
      /\ "type" \in DOMAIN fields => fields.type \in TaskTypes
      /\ "assets" \in DOMAIN fields => fields.assets \in Seq(STRING)
  BY <1>1 DEF Given
<1>4. /\ "universe" \in DOMAIN fields => fields.universe \in {"", "top", "symbols"}
      /\ "window" \in DOMAIN fields => fields.window \in STRING
      /\ "limit" \in DOMAIN fields => fields.limit \in Nat
      /\ "action" \in DOMAIN fields => fields.action \in STRING
      /\ "output" \in DOMAIN fields => fields.output \in STRING
  BY <1>1 DEF Given
<1>5. /\ "conds" \in DOMAIN fields => fields.conds \in Bars
      /\ "caps" \in DOMAIN fields => fields.caps \in Seq(STRING)
      /\ "field" \in DOMAIN fields => fields.field \in STRING
  BY <1>1 DEF Given, Bars
<1>6. /\ "said" \in DOMAIN fields => fields.said \in SUBSET {"tell", "investigate"}
      /\ "follow" \in DOMAIN fields => fields.follow \in BOOLEAN
  BY <1>1 DEF Given
<1>7. Given(fields)
  BY <1>2, <1>3, <1>4, <1>5, <1>6 DEF Given, Bars
<1> QED BY <1>7

\* What the phrases put into a task.
LEMMA PhrasesGive ==
  ASSUME NEW message \in MessageTypes, NEW assets \in Seq(STRING)
  PROVE  /\ \A type \in TaskTypes : Given([type |-> type, assets |-> assets])
         /\ \A action \in {"report", "market_summary"} :
              \A caps \in {<<"market", "regime">>, <<"regime", "market">>} :
                Given(Wide(action, caps))
         /\ \A action \in {"report", "rank_gains", "rank_declines"} :
              Given(Ranking(message, action))
         /\ Given(Quote(assets))
         /\ \A window \in STRING : Given(History(assets, window))
<1>1. Words \subseteq STRING
  BY ConversationAssumption
<1>2. "market" \in STRING /\ "regime" \in STRING /\ "historical" \in STRING
      /\ "discovery" \in STRING /\ "ranked_table" \in STRING
  BY <1>1 DEF Words
<1>3. "report" \in STRING /\ "market_summary" \in STRING /\ "rank_gains" \in STRING
      /\ "rank_declines" \in STRING
  BY <1>1 DEF Words
<1>4. \A s, t \in STRING : <<s, t>> \in Seq(STRING)
  BY TextLists
<1>5. ListingLimit(message) \in Nat /\ DefaultLimit \in Nat
  BY LimitTypes, ConversationAssumption
<1>6. Upto(assets, 4) \in Seq(STRING)
  BY UptoTexts
<1>7. \A type \in TaskTypes : Given([type |-> type, assets |-> assets])
  BY DEF Given, Research
<1>8. ASSUME NEW action \in {"report", "market_summary"},
             NEW caps \in {<<"market", "regime">>, <<"regime", "market">>}
      PROVE  Given(Wide(action, caps))
  <2>1. caps \in Seq(STRING) /\ action \in STRING
    BY <1>2, <1>3, <1>4
  <2> QED BY <1>5, <2>1 DEF Given, Research, Wide
<1>9. ASSUME NEW action \in {"report", "rank_gains", "rank_declines"}
      PROVE  Given(Ranking(message, action))
  <2>1. <<"market", "discovery">> \in Seq(STRING) /\ action \in STRING
    BY <1>2, <1>3, <1>4
  <2> QED BY <1>2, <1>5, <2>1 DEF Given, Research, Ranking
<1>10. Given(Quote(assets))
  BY DEF Given, Research, Quote
<1>11. ASSUME NEW window \in STRING PROVE Given(History(assets, window))
  <2>1. <<"historical", "market">> \in Seq(STRING)
    BY <1>2, <1>4
  <2> QED BY <1>6, <2>1 DEF Given, Research, History
<1> QED BY <1>7, <1>8, <1>9, <1>10, <1>11

LEMMA WatchGiven ==
  ASSUME NEW message \in MessageTypes, message.assets # <<>>
  PROVE  Given(StandingWatch(message)) /\ Given(UnusualTask(message))
<1>1. "market" \in STRING /\ "anomaly" \in STRING /\ "reaction" \in STRING /\ "report" \in STRING
      /\ "" \in STRING /\ "investigate_market_reaction" \in STRING /\ "notify" \in STRING
      /\ "unusual_definition" \in STRING
  BY ConversationAssumption DEF Words
<1>2. <<"anomaly", "market">> \in Seq(STRING) /\ <<"anomaly", "market", "reaction">> \in Seq(STRING)
  BY <1>1, TextLists
<1>3. message.assets \in Seq(STRING) /\ Head(message.assets) \in STRING
  BY HeadTailProperties DEF MessageTypes
<1> PICK first : first = [mode |-> "work", assets |-> message.assets,
                          conds |-> <<PriceTrigger(message, Head(message.assets))>>]
  OBVIOUS
<1>4. Given(first)
  <2>1. first.conds \in Bars
    BY <1>3, TriggerTypes
  <2> QED BY <1>3, <2>1 DEF Given, Research, Bars
<1>5. Given([type |-> "watch_plus_investigate", action |-> "investigate_market_reaction",
             caps |-> <<"anomaly", "market", "reaction">>])
  BY <1>1, <1>2 DEF Given, Research, TaskTypes
<1>6. Given([type |-> "persistent_monitor", action |-> "notify", caps |-> <<"anomaly", "market">>])
  BY <1>1, <1>2 DEF Given, Research, TaskTypes
<1>7. Given(StandingWatch(message))
  <2> HIDE DEF Given
  <2> QED BY <1>4, <1>5, <1>6, FilledGiven DEF StandingWatch
<1>8. Given(UnusualTask(message))
  BY <1>1, <1>2, <1>3 DEF Given, Research, UnusualTask, TaskTypes
<1> QED BY <1>7, <1>8

LEMMA PhrasesAreTyped ==
  ASSUME NEW message \in MessageTypes
  PROVE  UnderstandHeuristic(message) \in Task
<1> PICK assets : assets = message.assets
  OBVIOUS
<1>1. assets \in Seq(STRING) /\ Upto(assets, 4) \in Seq(STRING) /\ <<>> \in Seq(STRING)
      /\ message.window \in STRING /\ message.mover \in STRING
  BY UptoTexts DEF MessageTypes
<1>2. \A given : Given(given) => Ready(message, given) \in Task
  BY ReadyTask
<1>3. Given([type |-> "news_brief", assets |-> assets])
  BY <1>1, PhrasesGive DEF TaskTypes
<1>4. /\ Given(Wide("market_summary", <<"market", "regime">>))
      /\ Given(Wide("market_summary", <<"regime", "market">>))
  BY <1>1, PhrasesGive
<1>5. Given(Filled([mode |-> "work", type |-> "scheduled_brief", assets |-> assets],
                   Wide("report", <<"market", "regime">>)))
  <2>1. Given([mode |-> "work", type |-> "scheduled_brief", assets |-> assets])
    BY <1>1 DEF Given, Research, TaskTypes
  <2>2. Given(Wide("report", <<"market", "regime">>))
    BY <1>1, PhrasesGive
  <2> QED BY <2>1, <2>2, FilledGiven
<1>6. Given(ReactionTask(message, message.mover))
  BY <1>1, ReactionGiven
<1>7. "year" \in STRING
  BY ConversationAssumption DEF Words
<1>8. Given(History(assets, "year")) /\ Given(History(assets, message.window))
  BY <1>1, <1>7, PhrasesGive
<1>9. /\ Given(Ranking(message, "report")) /\ Given(Ranking(message, "rank_gains"))
      /\ Given(Ranking(message, "rank_declines"))
  BY <1>1, PhrasesGive
<1>10. Given(Quote(assets)) /\ Given(Quote(Upto(assets, 4)))
  BY <1>1, PhrasesGive
<1>11. "discovery" \in STRING /\ "market" \in STRING
  BY ConversationAssumption DEF Words
<1>12. <<"discovery", "market">> \in Seq(STRING) /\ <<"market", "discovery">> \in Seq(STRING)
  BY <1>11, TextLists
<1>13. Given([assets |-> assets, universe |-> "top", caps |-> <<"discovery", "market">>])
  BY <1>1, <1>12 DEF Given, Research
<1>14. assets # <<>> => Given(StandingWatch(message)) /\ Given(UnusualTask(message))
  BY WatchGiven
<1>15. \A field \in STRING :
         Ask(message, field, <<>>) \in Task /\ Ask(message, field, assets) \in Task
  BY <1>1, AskTask
<1>16. {"subject", "trade", "acknowledgement", "unusual_definition", "follow_up",
        "ranking"} \subseteq STRING
  BY ConversationAssumption DEF Words
<1>17. [Ask(message, "ranking", <<>>) EXCEPT !.universe = "top",
          !.limit = ListingLimit(message), !.caps = <<"market", "discovery">>] \in Task
  <2>1. Ask(message, "ranking", <<>>) \in Task /\ ListingLimit(message) \in Nat
    BY <1>15, <1>16, LimitTypes
  <2> QED BY <1>12, <2>1 DEF Task
<1> HIDE DEF Given, Task
<1> QED BY <1>2, <1>3, <1>4, <1>5, <1>6, <1>8, <1>9, <1>10, <1>13, <1>14, <1>15, <1>16, <1>17
        DEF UnderstandHeuristic

LEMMA JoinedTexts ==
  ASSUME NEW S, NEW s \in Seq(S), NEW t \in Seq(S)
  PROVE  s \o t \in Seq(S)
BY ConcatProperties

LEMMA ParsedBars ==
  ASSUME NEW message \in MessageTypes, NEW asset \in STRING
  PROVE  ParseUnusual(message, asset) \in Bars
<1> DEFINE falls == "drop" \in message.cues
           price == IF message.percent = 0 THEN <<>>
                    ELSE <<Condition(Change, IF falls THEN "<=" ELSE ">=",
                                     IF falls THEN -message.percent ELSE message.percent, asset)>>
           volume == IF "volume" \in message.cues
                     THEN <<Condition("volume_change_24h", ">=",
                                      IF message.percent = 0 THEN 80 ELSE message.percent, asset)>>
                     ELSE <<>>
           against == IF "combination" \in message.cues
                      THEN <<Condition("relative_performance", "<=", -3, asset)>> ELSE <<>>
<1>1. /\ Change \in STRING /\ ">=" \in STRING /\ "<=" \in STRING
      /\ "volume_change_24h" \in STRING /\ "relative_performance" \in STRING
  BY ConversationAssumption DEF Words, Change
<1>2. message.percent \in Int /\ -message.percent \in Int
  BY DEF MessageTypes
<1>3. <<>> \in Bars
  BY DEF Bars
<1>4. \A metric, operator \in STRING : \A value \in Int :
        <<Condition(metric, operator, value, asset)>> \in Bars
  BY ConditionTypes
<1>5. price \in Bars
  BY <1>1, <1>2, <1>3, <1>4
<1>6. volume \in Bars
  BY <1>1, <1>2, <1>3, <1>4
<1>7. against \in Bars
  BY <1>1, <1>3, <1>4
<1>8. ParseUnusual(message, asset) = (price \o volume) \o against
  BY DEF ParseUnusual
<1> HIDE DEF price, volume, against
<1>9. (price \o volume) \o against \in Bars
  BY <1>5, <1>6, <1>7, JoinedTexts DEF Bars
<1> QED BY <1>8, <1>9

LEMMA RetypedTask ==
  ASSUME NEW task \in Task, NEW type \in TaskTypes, NEW caps \in Seq(STRING)
  PROVE  /\ [task EXCEPT !.type = type, !.caps = caps] \in Task
         /\ \A action \in STRING :
              [task EXCEPT !.type = type, !.caps = caps, !.action = action] \in Task
<1>1. [task EXCEPT !.type = type, !.caps = caps] \in Task
  BY DEF Task
<1>2. ASSUME NEW action \in STRING
      PROVE  [task EXCEPT !.type = type, !.caps = caps, !.action = action] \in Task
  BY DEF Task
<1> QED BY <1>1, <1>2

LEMMA ActingTask ==
  ASSUME NEW task \in Task, NEW action \in STRING
  PROVE  [task EXCEPT !.action = action] \in Task
BY DEF Task

LEMMA AskingTask ==
  ASSUME NEW task \in Task, NEW status \in {"ready", "needs_input"}, NEW field \in STRING
  PROVE  /\ [task EXCEPT !.status = status, !.field = field] \in Task
         /\ [task EXCEPT !.status = status] \in Task
         /\ [task EXCEPT !.field = field] \in Task
<1>1. [task EXCEPT !.status = status, !.field = field] \in Task
  BY DEF Task
<1>2. [task EXCEPT !.status = status] \in Task
  BY DEF Task
<1>3. [task EXCEPT !.field = field] \in Task
  BY DEF Task
<1> QED BY <1>1, <1>2, <1>3

LEMMA WorkingTask ==
  ASSUME NEW task \in Task, NEW said \in SUBSET {"tell", "investigate"}
  PROVE  [task EXCEPT !.status = "ready", !.mode = "work", !.field = "", !.said = said] \in Task
<1>1. "" \in STRING
  BY ConversationAssumption DEF Words
<1> QED BY <1>1 DEF Task

LEMMA ListingTask ==
  ASSUME NEW task \in Task, NEW limit \in Nat
  PROVE  [task EXCEPT !.universe = "top", !.limit = limit] \in Task
BY DEF Task

LEMMA FinishedTask ==
  ASSUME NEW message \in MessageTypes, NEW draft \in Task
  PROVE  FinishWork(draft, message) \in Task
<1>1. "market" \in STRING /\ "anomaly" \in STRING /\ "reaction" \in STRING /\ "notify" \in STRING
  BY ConversationAssumption DEF Words
<1>2. <<"anomaly", "market">> \in Seq(STRING) /\ <<"reaction", "market", "anomaly">> \in Seq(STRING)
  BY <1>1, TextLists
<1>3. "watch_plus_investigate" \in TaskTypes /\ "persistent_monitor" \in TaskTypes
  BY DEF TaskTypes
<1>4. draft.said \cup Said(message) \in SUBSET {"tell", "investigate"}
  BY DEF Said, Task
<1> DEFINE named == [draft EXCEPT !.status = "ready", !.mode = "work", !.field = "",
                                  !.said = @ \cup Said(message)]
<1>5. named \in Task
  BY <1>4, WorkingTask
<1> DEFINE limit == IF named.limit = 0 THEN DefaultLimit ELSE named.limit
           wide  == [named EXCEPT !.universe = "top", !.limit = IF @ = 0 THEN DefaultLimit ELSE @]
           ranked == IF draft.universe = "" THEN wide ELSE named
<1> HIDE DEF named
<1>6. limit \in Nat
  BY <1>5, ConversationAssumption DEF Task
<1>7. wide \in Task
  BY <1>5, <1>6, ListingTask
<1> HIDE DEF wide
<1>8. ranked \in Task
  BY <1>5, <1>7
<1> HIDE DEF ranked
<1>9. Else(named.action, "notify") \in STRING
  BY <1>1, <1>5 DEF Else, Task
<1>10. CASE draft.action = "investigate_market_reaction"
  <2> DEFINE caps == <<"reaction", "market", "anomaly">>
             type == "watch_plus_investigate"
  <2>1. FinishWork(draft, message) = [ranked EXCEPT !.type = type, !.caps = caps]
    BY <1>10 DEF FinishWork, ranked, wide, named
  <2>2. caps \in Seq(STRING) /\ type \in TaskTypes
    BY <1>2, <1>3
  <2> HIDE DEF caps, type
  <2>3. [ranked EXCEPT !.type = type, !.caps = caps] \in Task
    BY <1>8, <2>2, RetypedTask
  <2> QED BY <2>1, <2>3
<1>11. CASE draft.action # "investigate_market_reaction"
  <2> DEFINE caps == <<"anomaly", "market">>
             type == "persistent_monitor"
             action == Else(named.action, "notify")
  <2>1. FinishWork(draft, message) = [named EXCEPT !.type = type, !.caps = caps, !.action = action]
    BY <1>11 DEF FinishWork, named
  <2>2. caps \in Seq(STRING) /\ type \in TaskTypes /\ action \in STRING
    BY <1>2, <1>3, <1>9
  <2> HIDE DEF caps, type, action
  <2>3. [named EXCEPT !.type = type, !.caps = caps, !.action = action] \in Task
    BY <1>5, <2>2, RetypedTask
  <2> QED BY <2>1, <2>3
<1> QED BY <1>10, <1>11

LEMMA MergedTask ==
  ASSUME NEW message \in MessageTypes, NEW draft \in Task
  PROVE  MergeAnswerHeuristic(message, draft) \in Task
<1>1. /\ "notify" \in STRING /\ "investigate_market_reaction" \in STRING /\ "" \in STRING
      /\ "unusual_definition" \in STRING /\ "action" \in STRING /\ "subject" \in STRING
  BY ConversationAssumption DEF Words
<1> PICK asset : asset = IF draft.assets = <<>> THEN "" ELSE Head(draft.assets)
  OBVIOUS
<1>2. asset \in STRING
  <2>1. draft.assets \in Seq(STRING)
    BY DEF Task
  <2> QED BY <1>1, <2>1, HeadTailProperties
<1> PICK conds : conds = ParseUnusual(message, asset)
  OBVIOUS
<1>3. conds \in Bars
  BY <1>2, ParsedBars
<1> PICK bounded : bounded = [draft EXCEPT !.conds = conds]
  OBVIOUS
<1>4. bounded \in Task
  BY <1>3 DEF Bars, Task
<1>5. \A action \in {"notify", "investigate_market_reaction"} :
        [bounded EXCEPT !.action = action] \in Task /\ [draft EXCEPT !.action = action] \in Task
  <2> SUFFICES ASSUME NEW action \in {"notify", "investigate_market_reaction"}
               PROVE  [bounded EXCEPT !.action = action] \in Task
                      /\ [draft EXCEPT !.action = action] \in Task
    OBVIOUS
  <2>1. action \in STRING
    BY <1>1
  <2> QED BY <1>4, <2>1, ActingTask
<1>6. \A work \in Task : FinishWork(work, message) \in Task
  BY FinishedTask
<1>7. [bounded EXCEPT !.status = "needs_input", !.field = "action"] \in Task
  BY <1>1, <1>4, AskingTask
<1>8. [draft EXCEPT !.field = "unusual_definition"] \in Task
  BY <1>1 DEF Task
<1>9. Ask(message, "subject", <<>>) \in Task
  <2>1. <<>> \in Seq(STRING)
    BY <1>1, TextLists
  <2> QED BY <1>1, <2>1, AskTask
<1>10. MergeUnusual(message, draft) \in Task
  <2> HIDE DEF Task
  <2> QED BY <1>4, <1>5, <1>6, <1>7, <1>8, <1>9 DEF MergeUnusual
<1>11. UnderstandHeuristic(message) \in Task
  BY PhrasesAreTyped
<1> HIDE DEF Task
<1> QED BY <1>5, <1>6, <1>10, <1>11 DEF MergeAnswerHeuristic

Researches ==
  [task: {None} \cup Tasks("ready"), entities: Seq(STRING), universe: {"", "top", "symbols"},
   timeframe: STRING]

LEMMA WithHistoryTask ==
  ASSUME NEW task \in Task
  PROVE  WithHistory(task) \in Task
<1>1. "historical" \in STRING /\ "market" \in STRING
  BY ConversationAssumption DEF Words
<1>2. <<"historical", "market">> \in Seq(STRING)
  BY <1>1, TextLists
<1>3. task.caps \in Seq(STRING)
  BY DEF Task
<1>4. Unique(<<"historical", "market">> \o task.caps) \in Seq(STRING)
  BY <1>2, <1>3, JoinedTexts, UniqueTexts
<1> QED BY <1>4 DEF WithHistory, Task

LEMMA StayTask ==
  ASSUME NEW task \in Task, NEW field \in STRING
  PROVE  Stay(task, field) \in Task
BY DEF Stay, Task

LEMMA FollowUpTask ==
  ASSUME NEW message \in MessageTypes, NEW research \in Researches,
         FollowUp(message, research) # None
  PROVE  FollowUp(message, research) \in Task
<1> DEFINE Has(cue) == cue \in message.cues
           base == [research.task EXCEPT !.follow = TRUE, !.status = "ready", !.field = "",
                                         !.said = Said(message)]
           window == Else(base.window, research.timeframe)
           coins == IF message.assets # <<>> THEN message.assets ELSE base.assets
           those == IF coins = <<>> THEN research.entities ELSE coins
           one   == <<message.named>>
           more  == IF message.named = "" THEN base.assets
                    ELSE Unique(Append(base.assets, message.named))
           caps  == Unique(base.caps \o <<"anomaly", "market">>)
           long  == Else(window, "30d")
           held  == IF research.entities = <<>> THEN Stay(base, "follow_up").assets
                    ELSE research.entities
<1>1. research.task # None
  BY DEF FollowUp
<1>2. research.task \in Task /\ research.entities \in Seq(STRING) /\ research.timeframe \in STRING
  BY <1>1, TaskStatus DEF Researches
<1>3. /\ "" \in STRING /\ "window" \in STRING /\ "follow_up" \in STRING /\ "30d" \in STRING
      /\ "anomaly" \in STRING /\ "market" \in STRING /\ "report" \in STRING
  BY ConversationAssumption DEF Words
<1>4. /\ message.named \in STRING /\ message.window \in STRING /\ message.assets \in Seq(STRING)
      /\ message.limit \in Nat
  BY DEF MessageTypes
<1>5. base \in Task
  BY <1>2, <1>3 DEF Task, Said
<1>6. \/ FollowUp(message, research) = [base EXCEPT !.assets = one]
      \/ FollowUp(message, research) = [base EXCEPT !.assets = more]
      \/ FollowUp(message, research) = WithHistory([base EXCEPT !.window = message.window])
      \/ FollowUp(message, research) = Stay(base, "window")
      \/ FollowUp(message, research) = [base EXCEPT !.window = window]
      \/ FollowUp(message, research)
           = [base EXCEPT !.assets = those, !.caps = caps, !.action = "report"]
      \/ FollowUp(message, research) = WithHistory([base EXCEPT !.window = long])
      \/ FollowUp(message, research) = [base EXCEPT !.limit = message.limit, !.universe = "top"]
      \/ FollowUp(message, research) = Stay(base, "follow_up")
      \/ FollowUp(message, research) = [base EXCEPT !.assets = one, !.window = window]
      \/ FollowUp(message, research) = WithHistory([base EXCEPT !.assets = one, !.window = window])
      \/ FollowUp(message, research) = [Stay(base, "follow_up") EXCEPT !.assets = held]
  BY DEF FollowUp
<1> HIDE DEF base
<1>7. base.assets \in Seq(STRING) /\ base.window \in STRING /\ base.caps \in Seq(STRING)
  BY <1>5 DEF Task
<1>8. window \in STRING
  BY <1>2, <1>7 DEF Else
<1> HIDE DEF window
<1>9. long \in STRING
  BY <1>3, <1>8 DEF Else
<1>10. one \in Seq(STRING)
  BY <1>4, TextLists
<1>11. more \in Seq(STRING)
  <2>1. Append(base.assets, message.named) \in Seq(STRING)
    BY <1>4, <1>7, AppendProperties
  <2> QED BY <1>7, <2>1, UniqueTexts
<1>12. those \in Seq(STRING)
  BY <1>2, <1>4, <1>7
<1>13. caps \in Seq(STRING)
  <2>1. <<"anomaly", "market">> \in Seq(STRING)
    BY <1>3, TextLists
  <2> QED BY <1>7, <2>1, JoinedTexts, UniqueTexts
<1>14. Stay(base, "follow_up") \in Task /\ Stay(base, "window") \in Task
  BY <1>3, <1>5, StayTask
<1>15. held \in Seq(STRING)
  BY <1>2, <1>14 DEF Task
<1> HIDE DEF one, more, those, caps, long, held
<1>16. \A t \in Task, assets \in Seq(STRING) : [t EXCEPT !.assets = assets] \in Task
  BY DEF Task
<1>17. \A t \in Task, other \in STRING : [t EXCEPT !.window = other] \in Task
  BY DEF Task
<1>18. [base EXCEPT !.assets = one, !.window = window] \in Task
  BY <1>5, <1>8, <1>10 DEF Task
<1>19. [base EXCEPT !.limit = message.limit, !.universe = "top"] \in Task
  BY <1>4, <1>5 DEF Task
<1>20. [base EXCEPT !.assets = those, !.caps = caps, !.action = "report"] \in Task
  BY <1>3, <1>5, <1>12, <1>13 DEF Task
<1>21. /\ [base EXCEPT !.assets = one] \in Task /\ [base EXCEPT !.assets = more] \in Task
       /\ [base EXCEPT !.window = message.window] \in Task
       /\ [base EXCEPT !.window = window] \in Task /\ [base EXCEPT !.window = long] \in Task
       /\ [Stay(base, "follow_up") EXCEPT !.assets = held] \in Task
  BY <1>4, <1>5, <1>8, <1>9, <1>10, <1>11, <1>14, <1>15, <1>16, <1>17
<1>22. /\ WithHistory([base EXCEPT !.window = message.window]) \in Task
       /\ WithHistory([base EXCEPT !.window = long]) \in Task
       /\ WithHistory([base EXCEPT !.assets = one, !.window = window]) \in Task
  BY <1>18, <1>21, WithHistoryTask
<1> QED BY <1>6, <1>14, <1>18, <1>19, <1>20, <1>21, <1>22

LEMMA SameGiven ==
  ASSUME NEW a, Given(a), NEW b, DOMAIN b = DOMAIN a,
         \A name \in DOMAIN a \ {"assets", "limit"} : b[name] = a[name],
         b.assets \in Seq(STRING), b.limit \in Nat
  PROVE  Given(b)
<1>1. /\ "status" \in DOMAIN b => b.status = a.status
      /\ "mode" \in DOMAIN b => b.mode = a.mode
      /\ "type" \in DOMAIN b => b.type = a.type
      /\ "universe" \in DOMAIN b => b.universe = a.universe
      /\ "window" \in DOMAIN b => b.window = a.window
      /\ "action" \in DOMAIN b => b.action = a.action
      /\ "output" \in DOMAIN b => b.output = a.output
  OBVIOUS
<1>2. /\ "conds" \in DOMAIN b => b.conds = a.conds
      /\ "caps" \in DOMAIN b => b.caps = a.caps
      /\ "field" \in DOMAIN b => b.field = a.field
      /\ "said" \in DOMAIN b => b.said = a.said
      /\ "follow" \in DOMAIN b => b.follow = a.follow
  OBVIOUS
<1>3. DOMAIN b \subseteq DOMAIN Research
  BY DEF Given
<1>4. /\ "status" \in DOMAIN b => b.status \in {"ready", "needs_input"}
      /\ "mode" \in DOMAIN b => b.mode \in {"ask", "work"}
      /\ "type" \in DOMAIN b => b.type \in TaskTypes
      /\ "universe" \in DOMAIN b => b.universe \in {"", "top", "symbols"}
      /\ "window" \in DOMAIN b => b.window \in STRING
      /\ "action" \in DOMAIN b => b.action \in STRING
      /\ "output" \in DOMAIN b => b.output \in STRING
  BY <1>1 DEF Given
<1>5. /\ "conds" \in DOMAIN b => b.conds \in Bars
      /\ "caps" \in DOMAIN b => b.caps \in Seq(STRING)
      /\ "field" \in DOMAIN b => b.field \in STRING
      /\ "said" \in DOMAIN b => b.said \in SUBSET {"tell", "investigate"}
      /\ "follow" \in DOMAIN b => b.follow \in BOOLEAN
  BY <1>2 DEF Given, Bars
<1> HIDE DEF Research
<1> QED BY <1>3, <1>4, <1>5 DEF Given, Bars

LEMMA LockedTask ==
  ASSUME NEW message \in MessageTypes, NEW task \in Task
  PROVE  LockReactionTurn(message, task) \in Task
<1>1. CASE "reaction" \notin message.cues
  BY <1>1 DEF LockReactionTurn
<1>2. CASE "reaction" \in message.cues
  <2> DEFINE read == IF task.status = "ready" /\ task.type = "watch_plus_investigate" THEN task
                     ELSE UnderstandHeuristic(message)
             coin == IF message.mover = "" THEN <<>> ELSE <<message.mover>>
             fields == ReactionTask(message, message.mover)
             limit == IF message.limit = 0 /\ read.limit # 0 THEN read.limit ELSE fields.limit
             locked == [fields EXCEPT !.assets = coin, !.limit = limit]
             known == [read EXCEPT !.status = "ready", !.said = Said(message)]
  <2>1. LockReactionTurn(message, task) = Filled(locked, known)
    BY <1>2 DEF LockReactionTurn
  <2>2. read \in Task
    BY PhrasesAreTyped
  <2>3. message.mover \in STRING
    BY DEF MessageTypes
  <2>4. coin \in Seq(STRING)
    BY <2>3, TextLists
  <2>5. Given(fields) /\ "assets" \in DOMAIN fields /\ "limit" \in DOMAIN fields
    BY <2>3, ReactionGiven DEF ReactionTask
  <2> HIDE DEF read, coin, fields
  <2>6. limit \in Nat
    BY <2>2, <2>5 DEF Given, Task
  <2> HIDE DEF limit
  <2>7. /\ DOMAIN locked = DOMAIN fields /\ locked.assets = coin /\ locked.limit = limit
        /\ \A name \in DOMAIN fields \ {"assets", "limit"} : locked[name] = fields[name]
    BY <2>5
  <2> HIDE DEF locked
  <2>8. Given(locked)
    BY <2>4, <2>5, <2>6, <2>7, SameGiven
  <2>9. Said(message) \in SUBSET {"tell", "investigate"}
    BY DEF Said
  <2>10. known \in Task
    BY <2>2, <2>9 DEF Task
  <2> HIDE DEF known
  <2> QED BY <2>1, <2>8, <2>10, FilledTask
<1> QED BY <1>1, <1>2

LEMMA ReadTask ==
  ASSUME NEW task \in Task, NEW assets \in Seq(STRING), NEW caps \in Seq(STRING),
         NEW said \in SUBSET {"tell", "investigate"}, NEW window \in STRING, NEW conds \in Bars
  PROVE  [task EXCEPT !.assets = assets, !.caps = caps, !.said = said, !.window = window,
                      !.conds = conds] \in Task
BY DEF Bars, Task

LEMMA ModelTask ==
  ASSUME NEW message \in MessageTypes, NEW answer \in Task
  PROVE  TaskFromModel(message, answer) \in Task
<1> DEFINE named == message.assets
           coins == IF /\ answer.assets # <<>>
                       /\ named = <<>> \/ ToSet(named) \cap ToSet(answer.assets) # {}
                    THEN answer.assets ELSE named
           own == ModelCapabilities(answer, Else(message.window, answer.window))
           dated == IF message.window = "" THEN <<>> ELSE <<"historical", "market">>
           caps == Unique(own \o dated)
           window == Else(message.window, answer.window)
           conds == [i \in DOMAIN answer.conds |->
                       IF answer.conds[i].asset # "" \/ coins = <<>> THEN answer.conds[i]
                       ELSE [answer.conds[i] EXCEPT !.asset = Head(coins)]]
           Item == [metric: STRING, operator: STRING, value: Int \cup {None}, asset: STRING]
<1>1. /\ "historical" \in STRING /\ "market" \in STRING /\ "reaction" \in STRING
      /\ "anomaly" \in STRING /\ "regime" \in STRING
  BY ConversationAssumption DEF Words
<1>2. /\ named \in Seq(STRING) /\ message.window \in STRING /\ answer.assets \in Seq(STRING)
      /\ answer.window \in STRING /\ answer.caps \in Seq(STRING)
  BY DEF MessageTypes, Task
<1>3. /\ <<>> \in Seq(STRING) /\ <<"historical", "market">> \in Seq(STRING)
      /\ <<"reaction", "market", "anomaly">> \in Seq(STRING)
      /\ <<"market", "regime">> \in Seq(STRING)
      /\ <<"anomaly", "market">> \in Seq(STRING) /\ <<"market">> \in Seq(STRING)
  BY <1>1, TextLists
<1>4. own \in Seq(STRING)
  BY <1>2, <1>3 DEF ModelCapabilities
<1>5. dated \in Seq(STRING)
  BY <1>3
<1>6. TaskFromModel(message, answer)
        = [answer EXCEPT !.assets = coins, !.caps = caps, !.said = Said(message),
                         !.window = window, !.conds = conds]
  BY DEF TaskFromModel
<1>7. coins \in Seq(STRING)
  BY <1>2
<1> HIDE DEF coins, own, dated
<1>8. caps \in Seq(STRING)
  BY <1>4, <1>5, JoinedTexts, UniqueTexts
<1>9. window \in STRING
  BY <1>2 DEF Else
<1>10. conds \in Bars
  <2>1. PICK n \in Nat : answer.conds \in [1..n -> Item]
    <3>1. answer.conds \in Seq(Item)
      BY DEF Bars, Task
    <3> HIDE DEF Item
    <3> QED BY <3>1, SeqDef
  <2>2. coins # <<>> => Head(coins) \in STRING
    BY <1>7, HeadTailProperties
  <2>3. \A i \in 1..n : answer.conds[i] \in Item
    BY <2>1
  <2>4. \A bar \in Item, asset \in STRING : [bar EXCEPT !.asset = asset] \in Item
    OBVIOUS
  <2>5. \A i \in 1..n : (IF answer.conds[i].asset # "" \/ coins = <<>> THEN answer.conds[i]
                         ELSE [answer.conds[i] EXCEPT !.asset = Head(coins)]) \in Item
    <3> SUFFICES ASSUME NEW i \in 1..n
                 PROVE  (IF answer.conds[i].asset # "" \/ coins = <<>> THEN answer.conds[i]
                         ELSE [answer.conds[i] EXCEPT !.asset = Head(coins)]) \in Item
      OBVIOUS
    <3>1. answer.conds[i] \in Item
      BY <2>3
    <3>2. CASE coins = <<>>
      BY <3>1, <3>2
    <3>3. CASE coins # <<>>
      <4>1. Head(coins) \in STRING
        BY <2>2, <3>3
      <4>2. [answer.conds[i] EXCEPT !.asset = Head(coins)] \in Item
        <5> HIDE DEF Item
        <5> QED BY <2>4, <3>1, <4>1
      <4> QED BY <3>1, <4>2
    <3> QED BY <3>2, <3>3
  <2>6. DOMAIN answer.conds = 1..n
    BY <2>1
  <2>7. conds \in [1..n -> Item]
    <3> HIDE DEF Item
    <3> QED BY <2>5, <2>6
  <2>8. conds \in Seq(Item)
    <3> HIDE DEF conds, Item
    <3> QED BY <2>7, SeqDef
  <2> QED BY <2>8 DEF Bars
<1>11. Said(message) \in SUBSET {"tell", "investigate"}
  BY DEF Said
<1> HIDE DEF caps, window, conds
<1>12. [answer EXCEPT !.assets = coins, !.caps = caps, !.said = Said(message),
                      !.window = window, !.conds = conds] \in Task
  BY <1>7, <1>8, <1>9, <1>10, <1>11, ReadTask
<1> QED BY <1>6, <1>12

LEMMA ModelUnderstands ==
  ASSUME NEW message \in MessageTypes, NEW answer \in {Broken} \cup Task
  PROVE  UnderstandModel(message, answer) \in Task
<1>1. "subject" \in STRING /\ "unusual_definition" \in STRING
  BY ConversationAssumption DEF Words
<1> DEFINE task == IF answer = Broken THEN Broken ELSE TaskFromModel(message, answer)
<1>2. CASE task = Broken
  <2>1. <<>> \in Seq(STRING)
    BY <1>1, TextLists
  <2>2. Ask(message, "subject", <<>>) \in Task
    BY <1>1, <2>1, AskTask
  <2> QED BY <1>2, <2>2, PhrasesAreTyped, LockedTask DEF UnderstandModel
<1>3. CASE task # Broken
  <2>1. task \in Task
    BY <1>3, ModelTask
  <2>2. \/ UnderstandModel(message, answer)
             = [task EXCEPT !.field = Else(task.field, "unusual_definition")]
        \/ UnderstandModel(message, answer) = [task EXCEPT !.status = "needs_input"]
        \/ UnderstandModel(message, answer) = [task EXCEPT !.status = "ready"]
    BY <1>3 DEF UnderstandModel
  <2> HIDE DEF task
  <2> DEFINE field == Else(task.field, "unusual_definition")
  <2>3. field \in STRING
    BY <1>1, <2>1 DEF Else, Task
  <2> HIDE DEF field
  <2>4. [task EXCEPT !.field = field] \in Task
    BY <2>1, <2>3, AskingTask
  <2>5. [task EXCEPT !.status = "needs_input"] \in Task /\ [task EXCEPT !.status = "ready"] \in Task
    BY <2>1 DEF Task
  <2> QED BY <2>2, <2>4, <2>5 DEF field
<1> QED BY <1>2, <1>3

LEMMA ModelMerges ==
  ASSUME NEW message \in MessageTypes, NEW draft \in Task, NEW answer \in {Broken} \cup Task
  PROVE  MergeAnswerModel(message, draft, answer) \in Task
<1>1. "subject" \in STRING /\ "" \in STRING
  BY ConversationAssumption DEF Words
<1>2. CASE answer = Broken
  <2>1. <<>> \in Seq(STRING)
    BY <1>1, TextLists
  <2> QED BY <1>1, <1>2, <2>1, AskTask DEF MergeAnswerModel
<1>3. CASE answer # Broken
  <2> DEFINE assets == Unique(draft.assets \o message.assets)
             wider == [message EXCEPT !.assets = assets]
             read == TaskFromModel(wider, answer)
             said == draft.said \cup Said(message)
             task == [read EXCEPT !.said = said]
             field == Else(task.field, draft.field)
             conds == IF task.conds = <<>> THEN draft.conds ELSE task.conds
  <2>1. assets \in Seq(STRING)
    <3>1. draft.assets \in Seq(STRING) /\ message.assets \in Seq(STRING)
      BY DEF Task, MessageTypes
    <3> QED BY <3>1, JoinedTexts, UniqueTexts
  <2>2. \/ MergeAnswerModel(message, draft, answer) = [task EXCEPT !.field = field]
        \/ MergeAnswerModel(message, draft, answer)
             = [task EXCEPT !.status = "ready", !.field = "", !.conds = conds]
    BY <1>3 DEF MergeAnswerModel
  <2> HIDE DEF assets
  <2>3. wider \in MessageTypes
    BY <2>1 DEF MessageTypes
  <2>4. read \in Task
    BY <1>3, <2>3, ModelTask
  <2>5. said \in SUBSET {"tell", "investigate"}
    BY DEF Said, Task
  <2> HIDE DEF wider, read, said
  <2>6. task \in Task
    BY <2>4, <2>5 DEF Task
  <2> HIDE DEF task
  <2>7. field \in STRING
    BY <2>6 DEF Else, Task
  <2>8. conds \in Bars
    BY <2>6 DEF Bars, Task
  <2> HIDE DEF field, conds
  <2>9. [task EXCEPT !.field = field] \in Task
    BY <2>6, <2>7, AskingTask
  <2>10. [task EXCEPT !.status = "ready", !.field = "", !.conds = conds] \in Task
    BY <1>1, <2>6, <2>8 DEF Bars, Task
  <2> QED BY <2>2, <2>9, <2>10
<1> QED BY <1>2, <1>3

\* What a turn makes of a message is a task, whoever reads it.
LEMMA UnderstoodTask ==
  ASSUME NEW message \in MessageTypes, NEW pending \in {None} \cup Task,
         NEW research \in Researches,
         NEW reading \in {None, Broken} \cup Task
  PROVE  Understand(message, pending, research, reading) \in Task
<1>1. CASE pending # None /\ reading = None
  BY <1>1, MergedTask DEF Understand
<1>2. CASE pending # None /\ reading # None
  BY <1>2, ModelMerges DEF Understand
<1>3. CASE pending = None /\ reading # None
  BY <1>3, ModelUnderstands DEF Understand
<1>4. CASE pending = None /\ reading = None
  <2> DEFINE followed == FollowUp(message, research)
             read == IF followed = None THEN UnderstandHeuristic(message) ELSE followed
  <2>1. read \in Task
    BY PhrasesAreTyped, FollowUpTask
  <2>2. Understand(message, pending, research, reading)
          \in {read, LockReactionTurn(message, read)}
    BY <1>4, ReadAlone
  <2> HIDE DEF read
  <2> QED BY <2>1, <2>2, LockedTask
<1> QED BY <1>1, <1>2, <1>3, <1>4

LEMMA InheritedTask ==
  ASSUME NEW task \in Tasks("ready"), NEW research \in Researches
  PROVE  Inherit(task, research) \in Tasks("ready")
<1>1. task \in Task /\ task.status = "ready"
  BY TaskStatus
<1>2. CASE ~task.follow
  BY <1>2 DEF Inherit
<1>3. CASE task.follow
  <2> DEFINE caps == Unique(task.caps \o <<"historical", "market">>)
             dated == IF task.window = "" /\ research.timeframe # ""
                      THEN [task EXCEPT !.window = research.timeframe, !.caps = caps] ELSE task
             assets == IF dated.assets = <<>> THEN research.entities ELSE dated.assets
             universe == Else(dated.universe, research.universe)
  <2>1. Inherit(task, research) = [dated EXCEPT !.assets = assets, !.universe = universe]
    BY <1>3 DEF Inherit
  <2>2. caps \in Seq(STRING)
    <3>1. "historical" \in STRING /\ "market" \in STRING
      BY ConversationAssumption DEF Words
    <3>2. <<"historical", "market">> \in Seq(STRING)
      BY <3>1, TextLists
    <3>3. task.caps \in Seq(STRING)
      BY <1>1 DEF Task
    <3> QED BY <3>2, <3>3, JoinedTexts, UniqueTexts
  <2> HIDE DEF caps
  <2>3. research.timeframe \in STRING /\ research.entities \in Seq(STRING)
        /\ research.universe \in {"", "top", "symbols"}
    BY DEF Researches
  <2>4. [task EXCEPT !.window = research.timeframe, !.caps = caps] \in Tasks("ready")
    BY <2>2, <2>3 DEF Tasks
  <2>5. dated \in Tasks("ready")
    BY <2>4
  <2> HIDE DEF dated
  <2>6. assets \in Seq(STRING) /\ universe \in {"", "top", "symbols"}
    BY <2>3, <2>5 DEF Else, Tasks
  <2> HIDE DEF assets, universe
  <2>7. [dated EXCEPT !.assets = assets, !.universe = universe] \in Tasks("ready")
    BY <2>5, <2>6 DEF Tasks
  <2> QED BY <2>1, <2>7
<1> QED BY <1>2, <1>3

LEMMA StandingTask ==
  ASSUME NEW task \in Tasks("ready")
  PROVE  Standing(task) \in Tasks("ready")
<1> DEFINE type == IF task.type # "one_shot_research" THEN task.type
                   ELSE IF task.conds # <<>> THEN "watch_plus_investigate" ELSE "persistent_monitor"
           caps == IF Contains(task.caps, "anomaly") \/ Contains(task.caps, "reaction")
                   THEN task.caps
                   ELSE Unique(task.caps \o <<"anomaly", "market">>)
<1>1. Standing(task)
        = [task EXCEPT !.mode = "work", !.status = "ready", !.type = type, !.caps = caps]
  BY DEF Standing
<1>2. type \in TaskTypes
  BY DEF Tasks, TaskTypes
<1>3. caps \in Seq(STRING)
  <2>1. "anomaly" \in STRING /\ "market" \in STRING
    BY ConversationAssumption DEF Words
  <2>2. <<"anomaly", "market">> \in Seq(STRING)
    BY <2>1, TextLists
  <2>3. task.caps \in Seq(STRING)
    BY DEF Tasks
  <2>4. Unique(task.caps \o <<"anomaly", "market">>) \in Seq(STRING)
    BY <2>2, <2>3, JoinedTexts, UniqueTexts
  <2> QED BY <2>3, <2>4
<1> HIDE DEF type, caps
<1>4. [task EXCEPT !.mode = "work", !.status = "ready", !.type = type, !.caps = caps]
        \in Tasks("ready")
  BY <1>2, <1>3 DEF Tasks
<1> QED BY <1>1, <1>4

LEMMA AppliedTask ==
  ASSUME NEW task \in Tasks("ready"), NEW research \in Researches
  PROVE  ApplyTask(research, task) \in Researches
<1> DEFINE entities == IF task.assets # <<>> THEN Unique(task.assets) ELSE research.entities
           universe == Else(task.universe, research.universe)
           timeframe == Else(task.window, research.timeframe)
<1>1. /\ task.assets \in Seq(STRING) /\ task.universe \in {"", "top", "symbols"}
      /\ task.window \in STRING
  BY DEF Tasks
<1>2. /\ research.entities \in Seq(STRING) /\ research.universe \in {"", "top", "symbols"}
      /\ research.timeframe \in STRING
  BY DEF Researches
<1>3. entities \in Seq(STRING)
  BY <1>1, <1>2, UniqueTexts
<1>4. universe \in {"", "top", "symbols"} /\ timeframe \in STRING
  BY <1>1, <1>2 DEF Else
<1>5. ApplyTask(research, task)
        = [task |-> task, entities |-> entities, universe |-> universe, timeframe |-> timeframe]
  BY DEF ApplyTask
<1> HIDE DEF entities, universe, timeframe
<1>6. [task |-> task, entities |-> entities, universe |-> universe, timeframe |-> timeframe]
        \in Researches
  BY <1>3, <1>4 DEF Researches
<1> QED BY <1>5, <1>6

-----------------------------------------------------------------------------
(* The memory of a conversation is typed *)

\* What is kept of a conversation, with as many findings as are remembered.
Kept == {c \in Contexts : Len(c.findings) <= Remembered}

Labels == {"idle", "read", "keep", "plan", "begin"}

TurnTyped(label, local) ==
  /\ DOMAIN local = DOMAIN Idle /\ local.seen \in Kept
  /\ label = "read" => /\ local.message \in MessageTypes
                       /\ local.reading \in {None, Broken} \cup Task
  /\ label = "plan" => local.task \in Tasks("ready")

RunTyped(run) ==
  /\ DOMAIN run = {"stage", "seen", "held"} /\ run.seen \in Kept
  /\ run.stage \in {"queued", "running", "done"}

\* The inductive invariant of TypeOK: each turn and run holds a context that
\* was written, the message and the task are typed where the next step reads
\* them, and every run was queued by a message that came in.
Busy == {p \in Web : pc[p] # "idle"}

Typing ==
  /\ context \in Kept /\ memory \in Kept
  /\ pc \in [Web -> Labels] /\ DOMAIN mine = Web
  /\ \A p \in Web : TurnTyped(pc[p], mine[p])
  /\ IsSequence(runs)
  /\ \A r \in DOMAIN runs : RunTyped(runs[r])

Counting ==
  /\ turns \in 0..MaxTurns
  /\ IsFiniteSet(Busy) /\ Cardinality(Busy) + Len(runs) <= turns

LEMMA KeptFacts ==
  ASSUME NEW seen \in Kept
  PROVE  /\ seen.pending \in {None} \cup Task /\ seen.research \in Researches
         /\ seen.findings \in Seq(Nat)
         /\ \A answer \in {None} \cup Tasks("needs_input") :
              [seen EXCEPT !.pending = answer] \in Kept
         /\ \A research \in Researches : [seen EXCEPT !.research = research] \in Kept
         /\ \A findings \in Seq(Nat) :
              Len(findings) <= Remembered => [seen EXCEPT !.findings = findings] \in Kept
<1>1. seen \in Contexts /\ Len(seen.findings) <= Remembered
  BY DEF Kept
<1>2. seen.pending \in {None} \cup Tasks("needs_input") /\ seen.findings \in Seq(Nat)
  BY <1>1 DEF Contexts
<1>3. seen.pending \in {None} \cup Task
  BY <1>2, TaskStatus
<1>4. seen.research \in Researches
  BY <1>1 DEF Contexts, Researches
<1>5. ASSUME NEW answer \in {None} \cup Tasks("needs_input")
      PROVE  [seen EXCEPT !.pending = answer] \in Kept
  BY <1>1 DEF Kept, Contexts
<1>6. ASSUME NEW research \in Researches
      PROVE  [seen EXCEPT !.research = research] \in Kept
  BY <1>1 DEF Kept, Contexts, Researches
<1>7. ASSUME NEW findings \in Seq(Nat), Len(findings) <= Remembered
      PROVE  [seen EXCEPT !.findings = findings] \in Kept
  BY <1>1, <1>7 DEF Kept, Contexts
<1> QED BY <1>2, <1>3, <1>4, <1>5, <1>6, <1>7

LEMMA EmptyIsKept == Empty \in Kept
<1>1. "" \in STRING /\ Remembered \in Nat
  BY ConversationAssumption DEF Words
<1> DEFINE none == <<>>
<1>2. none \in Seq(STRING) /\ none \in Seq(Nat) /\ Len(none) = 0
  OBVIOUS
<1>3. Empty = [pending |-> None, research |-> NoContext, findings |-> none]
      /\ NoContext = [task |-> None, entities |-> none, universe |-> "", timeframe |-> ""]
  BY DEF Empty, NoContext
<1> HIDE DEF none
<1>4. NoContext \in Researches
  BY <1>1, <1>2, <1>3 DEF Researches
<1>5. Empty.findings = none
  BY <1>3
<1>6. [pending |-> None, research |-> NoContext, findings |-> none] \in Contexts
  <2> HIDE DEF NoContext
  <2>1. \A research \in Researches, findings \in Seq(Nat) :
          [pending |-> None, research |-> research, findings |-> findings] \in Contexts
    BY DEF Contexts, Researches
  <2> QED BY <1>2, <1>4, <2>1, Zenon
<1>7. Empty \in Contexts
  BY <1>3, <1>6, Zenon
<1>8. Len(Empty.findings) <= Remembered
  <2>1. Len(none) = 0
    BY <1>2
  <2>2. Len(Empty.findings) = 0
    BY <1>5, <2>1, Zenon
  <2>3. Remembered \in Nat
    BY <1>1
  <2> QED BY <2>2, <2>3
<1> QED BY <1>7, <1>8 DEF Kept

LEMMA IdleTyped == TurnTyped("idle", Idle)
<1>1. Idle.seen = Empty
  BY DEF Idle
<1> QED BY <1>1, EmptyIsKept DEF TurnTyped

LEMMA TypedGoOn ==
  ASSUME Typing, NEW p \in Web, NEW label \in Labels, NEW local, Goto(p, label, local),
         TurnTyped(label, local)
  PROVE  /\ pc' \in [Web -> Labels] /\ DOMAIN mine' = Web
         /\ \A q \in Web : TurnTyped(pc'[q], mine'[q])
<1>1. /\ pc' \in [Web -> Labels] /\ DOMAIN mine' = Web
      /\ pc'[p] = label /\ mine'[p] = local
      /\ \A q \in Web : q # p => pc'[q] = pc[q] /\ mine'[q] = mine[q]
  BY DEF Goto, Typing
<1> QED BY <1>1 DEF Typing

LEMMA TypedLeave ==
  ASSUME Typing, NEW p \in Web, Leave(p)
  PROVE  /\ pc' \in [Web -> Labels] /\ DOMAIN mine' = Web
         /\ \A q \in Web : TurnTyped(pc'[q], mine'[q])
BY TypedGoOn, IdleTyped DEF Leave, Labels

LEMMA ReceiveTyped ==
  ASSUME Typing, NEW p \in Web, Receive(p)
  PROVE  Typing'
<1>1. PICK m \in Messages :
      Goto(p, IF "keep watching" \in m.message.cues THEN "keep" ELSE "read",
           [Idle EXCEPT !.message = m.message, !.reading = m.reading,
                        !.seen = context, !.known = version])
  BY DEF Receive
<1> DEFINE label == IF "keep watching" \in m.message.cues THEN "keep" ELSE "read"
           local == [Idle EXCEPT !.message = m.message, !.reading = m.reading,
                                 !.seen = context, !.known = version]
<1>2. m.message \in MessageTypes /\ m.reading \in {None, Broken} \cup Task
  BY ConversationAssumption, TaskStatus
<1>3. /\ DOMAIN local = DOMAIN Idle /\ local.seen = context /\ local.message = m.message
      /\ local.reading = m.reading
  BY DEF Idle
<1>4. label \in {"keep", "read"} /\ label \in Labels
  BY DEF Labels
<1>5. Goto(p, label, local)
  BY <1>1
<1> HIDE DEF label, local
<1>6. TurnTyped(label, local)
  BY <1>2, <1>3, <1>4 DEF TurnTyped, Typing
<1>7. /\ pc' \in [Web -> Labels] /\ DOMAIN mine' = Web
      /\ \A q \in Web : TurnTyped(pc'[q], mine'[q])
  BY <1>4, <1>5, <1>6, TypedGoOn
<1>8. UNCHANGED <<context, memory, runs>>
  BY DEF Receive
<1> QED BY <1>7, <1>8 DEF Typing

LEMMA ReadTyped ==
  ASSUME Typing, NEW p \in Web, Read(p)
  PROVE  Typing'
<1> DEFINE local == mine[p]
           seen == local.seen
           task == Understand(local.message, seen.pending, seen.research, local.reading)
           next == [local EXCEPT !.task = task, !.draft = seen.pending, !.seen.pending = None]
<1>1. /\ DOMAIN local = DOMAIN Idle /\ seen \in Kept /\ local.message \in MessageTypes
      /\ local.reading \in {None, Broken} \cup Task
  BY DEF Typing, TurnTyped, Read
<1>2. task \in Task
  BY <1>1, KeptFacts, UnderstoodTask
<1>3. task.status \in {"ready", "needs_input"}
  BY <1>2 DEF Task
<1>4. UNCHANGED runs
  BY DEF Read
<1>5. CASE task.status = "needs_input"
  <2>1. AskBack(p, task)
    BY <1>5 DEF Read
  <2>2. /\ Leave(p) /\ context' = [seen EXCEPT !.pending = task]
        /\ memory' = [memory EXCEPT !.pending = task]
    BY <2>1 DEF AskBack, Write
  <2> HIDE DEF local, seen, task
  <2>3. task \in Tasks("needs_input")
    BY <1>2, <1>5, TaskStatus
  <2>4. context' \in Kept /\ memory' \in Kept
    BY <1>1, <2>2, <2>3, KeptFacts DEF Typing
  <2> QED BY <1>4, <2>2, <2>4, TypedLeave DEF Typing
<1>6. CASE task.status # "needs_input"
  <2>1. ClearPending(p) /\ Goto(p, "plan", next)
    BY <1>6 DEF Read
  <2>2. /\ context' = context \/ context' = [seen EXCEPT !.pending = None]
        /\ memory' = memory \/ memory' = [memory EXCEPT !.pending = None]
    BY <2>1 DEF ClearPending, Write
  <2>3. [seen EXCEPT !.pending = None] \in Kept /\ [memory EXCEPT !.pending = None] \in Kept
    BY <1>1, KeptFacts DEF Typing
  <2>4. context' \in Kept /\ memory' \in Kept
    BY <2>2, <2>3 DEF Typing
  <2>5. {"task", "draft", "seen"} \subseteq DOMAIN local
    BY <1>1 DEF Idle
  <2>6. DOMAIN next = DOMAIN Idle /\ next.seen = [seen EXCEPT !.pending = None] /\ next.task = task
    BY <1>1, <2>5
  <2>7. task \in Tasks("ready")
    BY <1>2, <1>3, <1>6, TaskStatus
  <2> HIDE DEF next, task
  <2>8. TurnTyped("plan", next)
    BY <2>3, <2>6, <2>7 DEF TurnTyped
  <2> QED BY <1>4, <2>1, <2>4, <2>8, TypedGoOn DEF Typing, Labels
<1> QED BY <1>5, <1>6

LEMMA KeepTyped ==
  ASSUME Typing, NEW p \in Web, KeepWatching(p)
  PROVE  Typing'
<1> DEFINE local == mine[p]
           task == local.seen.research.task
           next == [local EXCEPT !.task = Standing(task)]
<1>1. DOMAIN local = DOMAIN Idle /\ local.seen \in Kept
  BY DEF Typing, TurnTyped
<1>2. UNCHANGED <<context, memory, runs>>
  BY DEF KeepWatching
<1>3. CASE task = None
  <2>1. Leave(p)
    BY <1>3 DEF KeepWatching
  <2> QED BY <1>2, <2>1, TypedLeave DEF Typing
<1>4. CASE task # None
  <2>1. Goto(p, "plan", next)
    BY <1>4 DEF KeepWatching
  <2>2. task \in Tasks("ready")
    BY <1>1, <1>4, KeptFacts DEF Researches
  <2>3. Standing(task) \in Tasks("ready")
    BY <2>2, StandingTask
  <2>4. DOMAIN next = DOMAIN Idle /\ next.seen = local.seen /\ next.task = Standing(task)
    BY <1>1 DEF Idle
  <2> HIDE DEF next
  <2>5. TurnTyped("plan", next)
    BY <1>1, <2>3, <2>4 DEF TurnTyped
  <2> QED BY <1>2, <2>1, <2>5, TypedGoOn DEF Typing, Labels
<1> QED BY <1>3, <1>4

LEMMA PlanTyped ==
  ASSUME Typing, NEW p \in Web, Plan(p)
  PROVE  Typing'
<1> DEFINE local == mine[p]
           seen == local.seen
           report == Compile(local.task, seen.research)
           next == [local EXCEPT !.report = report]
<1>1. DOMAIN local = DOMAIN Idle /\ seen \in Kept /\ local.task \in Tasks("ready")
  BY DEF Typing, TurnTyped, Plan
<1>2. UNCHANGED runs
  BY DEF Plan
<1>3. CASE ~report.plan.accepted
  <2>1. Leave(p) /\ UNCHANGED <<context, memory>>
    BY <1>3 DEF Plan
  <2> QED BY <1>2, <2>1, TypedLeave DEF Typing
<1>4. CASE report.plan.accepted
  <2> DEFINE applied == ApplyTask(seen.research, report.task)
             recalled == ApplyTask(memory.research, report.task)
  <2>1. /\ context' = [seen EXCEPT !.research = ApplyTask(@, report.task)]
        /\ memory' = [memory EXCEPT !.research = ApplyTask(@, report.task)]
        /\ Goto(p, "begin", next)
    BY <1>4 DEF Plan, Write
  <2>2. context' = [seen EXCEPT !.research = applied]
        /\ memory' = [memory EXCEPT !.research = recalled]
    BY <2>1
  <2>3. report.task = Inherit(local.task, seen.research)
    BY DEF Compile, CompileFromTask
  <2>4. report.task \in Tasks("ready")
    BY <1>1, <2>3, InheritedTask, KeptFacts
  <2>5. applied \in Researches /\ recalled \in Researches
    BY <1>1, <2>4, AppliedTask, KeptFacts DEF Typing
  <2>6. DOMAIN next = DOMAIN Idle /\ next.seen = seen
    BY <1>1 DEF Idle
  <2> HIDE DEF applied, recalled, next, report
  <2>7. context' \in Kept /\ memory' \in Kept
    BY <1>1, <2>2, <2>5, KeptFacts DEF Typing
  <2>8. TurnTyped("begin", next)
    BY <1>1, <2>6 DEF TurnTyped
  <2> QED BY <1>2, <2>1, <2>7, <2>8, TypedGoOn DEF Typing, Labels
<1> QED BY <1>3, <1>4

LEMMA BeginTyped ==
  ASSUME Typing, NEW p \in Web, Begin(p)
  PROVE  Typing'
<1> DEFINE run == [stage |-> "queued", seen |-> Empty, held |-> Held(p)]
<1>1. RunTyped(run)
  BY EmptyIsKept DEF RunTyped
<1>2. runs' = Append(runs, run) /\ Leave(p) /\ UNCHANGED <<context, memory>>
  BY DEF Begin
<1>3. IsSequence(runs) /\ \A r \in DOMAIN runs : RunTyped(runs[r])
  BY DEF Typing
<1> HIDE DEF run
<1>4. IsSequence(runs') /\ \A r \in DOMAIN runs' : RunTyped(runs'[r])
  BY <1>1, <1>2, <1>3, AppendedItems
<1> QED BY <1>2, <1>4, TypedLeave DEF Typing

LEMMA TypedRunsGoOn ==
  ASSUME Typing, NEW r \in DOMAIN runs, NEW stage \in {"queued", "running", "done"},
         NEW seen \in Kept,
         runs' = [runs EXCEPT ![r].stage = stage, ![r].seen = seen]
  PROVE  /\ IsSequence(runs') /\ \A q \in DOMAIN runs' : RunTyped(runs'[q])
         /\ r \in Nat /\ Len(runs') = Len(runs)
<1> DEFINE run == [runs[r] EXCEPT !.stage = stage, !.seen = seen]
<1>1. PICK n \in Nat : DOMAIN runs = 1..n /\ Len(runs) = n
  BY SequenceFacts DEF Typing
<1>2. DOMAIN runs' = 1..n /\ runs'[r] = run /\ \A q \in 1..n : q # r => runs'[q] = runs[q]
  BY <1>1
<1>3. runs' = [i \in 1..n |-> runs'[i]]
  BY <1>1
<1>4. IsSequence(runs') /\ Len(runs') = n
  BY <1>3, MadeSequence
<1>5. RunTyped(runs[r])
  BY DEF Typing
<1>6. DOMAIN run = {"stage", "seen", "held"} /\ run.seen = seen /\ run.stage = stage
  BY <1>5 DEF RunTyped
<1>7. RunTyped(run)
  BY <1>6 DEF RunTyped
<1>8. \A q \in 1..n : RunTyped(runs[q])
  BY <1>1 DEF Typing
<1> HIDE DEF RunTyped, run
<1>9. \A q \in 1..n : RunTyped(runs'[q])
  BY <1>2, <1>7, <1>8
<1> QED BY <1>1, <1>2, <1>4, <1>9

LEMMA StartRunTyped ==
  ASSUME Typing, NEW r \in DOMAIN runs, StartRun(r)
  PROVE  Typing'
<1>1. /\ runs' = [runs EXCEPT ![r].stage = "running", ![r].seen = context]
      /\ UNCHANGED <<context, memory, pc, mine>>
  BY DEF StartRun
<1>2. context \in Kept
  BY DEF Typing
<1>3. IsSequence(runs') /\ \A q \in DOMAIN runs' : RunTyped(runs'[q])
  BY <1>1, <1>2, TypedRunsGoOn
<1> QED BY <1>1, <1>3 DEF Typing

LEMMA EndRunTyped ==
  ASSUME Typing, NEW r \in DOMAIN runs, EndRun(r)
  PROVE  Typing'
<1> DEFINE seen == runs[r].seen
           found == Upto(<<r>> \o seen.findings, Remembered)
           recalled == Upto(<<r>> \o memory.findings, Remembered)
<1>1. /\ runs' = [runs EXCEPT ![r].stage = "done", ![r].seen = Empty]
      /\ context' = [seen EXCEPT !.findings = found]
      /\ memory' = [memory EXCEPT !.findings = recalled]
      /\ UNCHANGED <<pc, mine>>
  BY DEF EndRun, Write, RememberFinding
<1>2. /\ IsSequence(runs') /\ \A q \in DOMAIN runs' : RunTyped(runs'[q])
      /\ r \in Nat
  BY <1>1, EmptyIsKept, TypedRunsGoOn
<1>3. seen \in Kept /\ memory \in Kept
  BY DEF Typing, RunTyped
<1>4. <<r>> \in Seq(Nat)
  BY <1>2, TextLists
<1>5. Remembered \in Nat
  BY ConversationAssumption
<1>6. /\ found \in Seq(Nat) /\ Len(found) <= Remembered
      /\ recalled \in Seq(Nat) /\ Len(recalled) <= Remembered
  <2>1. \A findings \in Seq(Nat) : <<r>> \o findings \in Seq(Nat)
    BY <1>4, JoinedTexts
  <2> QED BY <1>3, <1>5, <2>1, KeptFacts, UptoTexts
<1> HIDE DEF seen, found, recalled
<1>7. context' \in Kept /\ memory' \in Kept
  BY <1>1, <1>3, <1>6, KeptFacts
<1> QED BY <1>1, <1>2, <1>7 DEF Typing

LEMMA NextTyped ==
  ASSUME Typing, [Next]_vars
  PROVE  Typing'
<1>1. CASE UNCHANGED vars
  BY <1>1 DEF vars, Typing
<1>2. ASSUME NEW p \in Web, Receive(p) \/ Read(p) \/ KeepWatching(p) \/ Plan(p) \/ Begin(p)
      PROVE  Typing'
  BY <1>2, ReceiveTyped, ReadTyped, KeepTyped, PlanTyped, BeginTyped
<1>3. ASSUME NEW r \in DOMAIN runs, StartRun(r) \/ EndRun(r)
      PROVE  Typing'
  BY <1>3, StartRunTyped, EndRunTyped
<1> QED BY <1>1, <1>2, <1>3 DEF Next

\* A turn on its way, and each run, is a message that came in.
LEMMA PlacesGoOn ==
  ASSUME Typing, Counting, NEW p \in Web, pc[p] # "idle", NEW label \in Labels, label # "idle",
         NEW local, Goto(p, label, local)
  PROVE  Busy' = Busy
<1>1. pc' = [pc EXCEPT ![p] = label] /\ pc \in [Web -> Labels]
  BY DEF Goto, Typing
<1> QED BY <1>1 DEF Busy

LEMMA Leaves ==
  ASSUME Typing, Counting, NEW p \in Web, pc[p] # "idle", Leave(p)
  PROVE  IsFiniteSet(Busy') /\ Cardinality(Busy') + 1 = Cardinality(Busy)
         /\ Cardinality(Busy') \in Nat
<1>1. pc' = [pc EXCEPT ![p] = "idle"] /\ pc \in [Web -> Labels]
  BY DEF Leave, Goto, Typing
<1>2. p \in Busy /\ Busy' = Busy \ {p}
  BY <1>1 DEF Busy
<1>3. IsFiniteSet(Busy)
  BY DEF Counting
<1>4. /\ IsFiniteSet(Busy \ {p}) /\ Cardinality(Busy \ {p}) = Cardinality(Busy) - 1
      /\ Cardinality(Busy) \in Nat
  BY <1>2, <1>3, FS_RemoveElement, FS_CardinalityType
<1>5. Cardinality(Busy \ {p}) \in Nat
  BY <1>4, FS_CardinalityType
<1> QED BY <1>2, <1>4, <1>5

LEMMA RunsAreCounted ==
  ASSUME Typing
  PROVE  Len(runs) \in Nat
BY SequenceFacts DEF Typing

LEMMA ReceiveCounts ==
  ASSUME Typing, Counting, NEW p \in Web, Receive(p)
  PROVE  Counting'
<1>1. /\ pc[p] = "idle" /\ turns < MaxTurns /\ turns' = turns + 1 /\ UNCHANGED runs
      /\ \E label \in {"keep", "read"} : pc' = [pc EXCEPT ![p] = label]
  BY DEF Receive, Goto
<1>2. /\ turns \in 0..MaxTurns /\ IsFiniteSet(Busy) /\ Cardinality(Busy) + Len(runs) <= turns
      /\ MaxTurns \in Nat /\ Len(runs) \in Nat
  BY RunsAreCounted, ConversationAssumption DEF Counting
<1>3. p \notin Busy /\ Busy' = Busy \cup {p}
  BY <1>1 DEF Busy, Typing
<1>4. /\ IsFiniteSet(Busy \cup {p}) /\ Cardinality(Busy \cup {p}) = Cardinality(Busy) + 1
      /\ Cardinality(Busy) \in Nat
  BY <1>2, <1>3, FS_AddElement, FS_CardinalityType
<1> QED BY <1>1, <1>2, <1>3, <1>4 DEF Counting

\* A turn that goes on or leaves without a run.
LEMMA TurnCounts ==
  ASSUME Typing, Counting, UNCHANGED <<turns, runs>>,
         NEW p \in Web, pc[p] # "idle",
         Leave(p) \/ \E label \in Labels \ {"idle"} : \E local : Goto(p, label, local)
  PROVE  Counting'
<1>1. /\ turns \in 0..MaxTurns /\ IsFiniteSet(Busy) /\ Cardinality(Busy) + Len(runs) <= turns
      /\ MaxTurns \in Nat /\ Len(runs) \in Nat
  BY RunsAreCounted, ConversationAssumption DEF Counting
<1>2. CASE Leave(p)
  <2>1. IsFiniteSet(Busy') /\ Cardinality(Busy') + 1 = Cardinality(Busy)
        /\ Cardinality(Busy') \in Nat
    BY <1>2, Leaves
  <2> QED BY <1>1, <2>1 DEF Counting
<1>3. CASE \E label \in Labels \ {"idle"} : \E local : Goto(p, label, local)
  <2>1. \A label \in Labels \ {"idle"} : \A local : Goto(p, label, local) => Busy' = Busy
    BY PlacesGoOn
  <2>2. Busy' = Busy
    BY <1>3, <2>1
  <2> QED BY <1>1, <2>2 DEF Counting
<1> QED BY <1>2, <1>3

LEMMA BeginCounts ==
  ASSUME Typing, Counting, NEW p \in Web, Begin(p)
  PROVE  Counting'
<1> DEFINE run == [stage |-> "queued", seen |-> Empty, held |-> Held(p)]
<1>1. runs' = Append(runs, run) /\ Leave(p) /\ UNCHANGED turns /\ pc[p] # "idle"
  BY DEF Begin
<1> HIDE DEF run
<1>2. /\ turns \in 0..MaxTurns /\ Cardinality(Busy) + Len(runs) <= turns
      /\ MaxTurns \in Nat /\ Len(runs) \in Nat
  BY RunsAreCounted, ConversationAssumption DEF Counting
<1>3. IsFiniteSet(Busy') /\ Cardinality(Busy') + 1 = Cardinality(Busy) /\ Cardinality(Busy') \in Nat
  BY <1>1, Leaves
<1>4. Len(runs') = Len(runs) + 1
  <2>1. runs \in Seq(ToSet(runs) \cup {run})
    <3>1. runs \in Seq(ToSet(runs))
      BY DEF Typing, IsSequence
    <3> QED BY <3>1
  <2> QED BY <1>1, <2>1, AppendProperties
<1> QED BY <1>1, <1>2, <1>3, <1>4 DEF Counting

LEMMA RunCounts ==
  ASSUME Typing, Counting, NEW r \in DOMAIN runs, StartRun(r) \/ EndRun(r)
  PROVE  Counting'
<1>1. UNCHANGED <<pc, turns>> /\ IsSequence(runs)
  BY DEF StartRun, EndRun, Typing
<1>2. Len(runs') = Len(runs)
  <2>1. CASE StartRun(r)
    <3>1. runs' = [runs EXCEPT ![r].stage = "running", ![r].seen = context] /\ context \in Kept
      BY <2>1 DEF StartRun, Typing
    <3> QED BY <3>1, TypedRunsGoOn
  <2>2. CASE EndRun(r)
    <3>1. runs' = [runs EXCEPT ![r].stage = "done", ![r].seen = Empty]
      BY <2>2 DEF EndRun
    <3> QED BY <3>1, EmptyIsKept, TypedRunsGoOn
  <2> QED BY <2>1, <2>2
<1> QED BY <1>1, <1>2 DEF Counting, Busy

LEMMA NextCounts ==
  ASSUME Typing, Counting, [Next]_vars
  PROVE  Counting'
<1>1. CASE UNCHANGED vars
  BY <1>1 DEF vars, Counting, Busy
<1>2. ASSUME NEW p \in Web, Read(p) \/ KeepWatching(p) \/ Plan(p) PROVE Counting'
  <2>1. UNCHANGED <<turns, runs>> /\ pc[p] # "idle"
    BY <1>2 DEF Read, KeepWatching, Plan
  <2>2. Leave(p) \/ \E label \in Labels \ {"idle"} : \E local : Goto(p, label, local)
    BY <1>2 DEF Read, KeepWatching, Plan, AskBack, Labels
  <2> QED BY <2>1, <2>2, TurnCounts
<1>3. ASSUME NEW p \in Web, Receive(p) \/ Begin(p) PROVE Counting'
  BY <1>3, ReceiveCounts, BeginCounts
<1>4. ASSUME NEW r \in DOMAIN runs, StartRun(r) \/ EndRun(r) PROVE Counting'
  BY <1>4, RunCounts
<1> QED BY <1>1, <1>2, <1>3, <1>4 DEF Next

LEMMA InitTyped ==
  ASSUME Init
  PROVE  Typing
<1>1. runs = <<>> /\ pc = [p \in Web |-> "idle"] /\ mine = [p \in Web |-> Idle]
      /\ context = Empty /\ memory = Empty
  BY DEF Init
<1>2. IsSequence(runs) /\ DOMAIN runs = {}
  <2>1. IsSequence(<<>>)
    BY PairIsSequence
  <2> QED BY <1>1, <2>1
<1>3. \A p \in Web : TurnTyped(pc[p], mine[p])
  BY <1>1, IdleTyped
<1> QED BY <1>1, <1>2, <1>3, EmptyIsKept DEF Typing, Labels

\* TypeOK: what is kept of a conversation is a question that waits, a task that
\* is ready with its coins, window and universe, and no more findings than are
\* remembered, whatever the messages and whoever reads them; and no turn
\* queues two runs.
THEOREM ConversationTypes == Spec => []TypeOK
<1>1. Init => Typing /\ Counting
  <2> SUFFICES ASSUME Init PROVE Counting
    BY InitTyped
  <2>1. runs = <<>> /\ turns = 0 /\ pc = [p \in Web |-> "idle"]
    BY DEF Init
  <2>2. Len(runs) = 0
    BY <2>1
  <2>3. Busy = {}
    BY <2>1 DEF Busy
  <2> QED BY <2>1, <2>2, <2>3, FS_EmptySet, ConversationAssumption DEF Counting
<1>2. Typing /\ Counting /\ [Next]_vars => (Typing /\ Counting)'
  BY NextTyped, NextCounts
<1>3. Typing /\ Counting => TypeOK
  <2> SUFFICES ASSUME Typing, Counting PROVE TypeOK
    OBVIOUS
  <2>1. {context, memory} \subseteq Contexts /\ Len(context.findings) <= Remembered
    BY DEF Typing, Kept
  <2>2. pc \in [Web -> {"idle", "read", "keep", "plan", "begin"}]
    BY DEF Typing, Labels
  <2>3. Len(runs) <= turns /\ turns \in 0..MaxTurns
    BY RunsAreCounted, FS_CardinalityType, ConversationAssumption DEF Counting
  <2>4. \A r \in DOMAIN runs : runs[r].stage \in {"queued", "running", "done"}
    BY DEF Typing, RunTyped
  <2> QED BY <2>1, <2>2, <2>3, <2>4 DEF TypeOK
<1> QED BY <1>1, <1>2, <1>3, PTL DEF Spec

-----------------------------------------------------------------------------
(* The coins of a message *)

\* One of the coins of a message is among the coins of a task that has any,
\* unless the words go on with the research at hand.
Found(task, message, draft) ==
  task.assets # <<>> /\ Coins(message, draft) # {} /\ ~GoesOn(task, message) =>
    ToSet(task.assets) \cap Meant(message, draft) # {}

\* A task that would inherit its coins does not need to.
Sought(task, message, draft) ==
  /\ Found(task, message, draft)
  /\ task.follow /\ Coins(message, draft) # {} /\ ~GoesOn(task, message) => task.assets # <<>>

\* A question that waits is about coins, if it is what to do with them.
PendingAims(task) == Clear(task.assets) /\ (task.field = "action" => task.assets # <<>>)

LEMMA SomeCoin ==
  ASSUME NEW assets \in Seq(STRING)
  PROVE  /\ ToSet(assets) \subseteq STRING
         /\ assets # <<>> => Head(assets) \in ToSet(assets)
         /\ assets = <<>> <=> ToSet(assets) = {}
<1>1. IsSequence(assets) /\ ToSet(assets) \subseteq STRING
  BY TextSequence
<1>2. assets # <<>> => Head(assets) \in ToSet(assets)
  BY <1>1, EndsAreItems
<1>3. assets = <<>> => ToSet(assets) = {}
  BY DEF ToSet
<1> QED BY <1>1, <1>2, <1>3

LEMMA NoCoins ==
  ASSUME NEW message, message.assets = <<>>
  PROVE  Coins(message, None) = {}
<1>1. ToSet(message.assets) = {}
  BY DEF ToSet
<1> QED BY <1>1 DEF Coins

\* The phrases read no other coins out of a message than it names.
LEMMA ReadyCoins ==
  ASSUME NEW message, NEW given, DOMAIN given \subseteq DOMAIN Research,
         NEW S, "assets" \in DOMAIN given => ToSet(given.assets) \subseteq S,
         "follow" \notin DOMAIN given
  PROVE  ToSet(Ready(message, given).assets) \subseteq S /\ ~Ready(message, given).follow
<1> DEFINE filled == Filled(given, Research)
<1>1. {"assets", "follow", "said"} \subseteq DOMAIN Research
      /\ Research.follow = FALSE /\ Research.assets = <<>>
  BY DEF Research
<1>2. ToSet(Research.assets) = {}
  BY <1>1, PairIsSequence
<1>3. DOMAIN filled = DOMAIN Research
      /\ filled.follow = FALSE
      /\ ToSet(filled.assets) \subseteq S
  BY <1>1, <1>2 DEF Filled
<1>4. Ready(message, given) = [filled EXCEPT !.said = Said(message)]
  BY DEF Ready
<1> HIDE DEF Research, filled
<1> QED BY <1>1, <1>3, <1>4

LEMMA AskCoins ==
  ASSUME NEW message, NEW field, NEW assets, NEW S, ToSet(assets) \subseteq S
  PROVE  /\ ToSet(Ask(message, field, assets).assets) \subseteq S
         /\ ~Ask(message, field, assets).follow
<1> DEFINE given == [status |-> "needs_input", field |-> field, assets |-> assets, caps |-> <<>>]
<1>1. /\ DOMAIN given \subseteq DOMAIN Research /\ "follow" \notin DOMAIN given
      /\ given.assets = assets
  BY DEF Research
<1>2. Ask(message, field, assets) = Ready(message, given)
  BY DEF Ask
<1> HIDE DEF given, Research
<1> QED BY <1>1, <1>2, ReadyCoins

LEMMA PhrasesAim ==
  ASSUME NEW message \in MessageTypes
  PROVE  LET task == UnderstandHeuristic(message)
         IN /\ ToSet(task.assets) \subseteq (ToSet(message.assets) \cup ({message.mover} \ {""}))
            /\ ~task.follow
<1> DEFINE assets == message.assets
           S == ToSet(message.assets) \cup ({message.mover} \ {""})
           Good(task) == ToSet(task.assets) \subseteq S /\ ~task.follow
           Gives(given) == /\ DOMAIN given \subseteq DOMAIN Research
                           /\ "assets" \in DOMAIN given => ToSet(given.assets) \subseteq S
                           /\ "follow" \notin DOMAIN given
<1>1. ToSet(<<>>) \subseteq S /\ ToSet(assets) \subseteq S
  BY PairIsSequence
<1>2. ToSet(Upto(assets, 4)) \subseteq S
  <2>1. assets \in Seq(STRING)
    BY DEF MessageTypes
  <2>2. IsSequence(assets)
    BY <2>1, TextSequence
  <2> QED BY <2>2, UptoFacts
<1>3. message.mover # "" => ToSet(<<message.mover>>) \subseteq S
  BY PairIsSequence
<1> HIDE DEF S
<1>4. \A given : Gives(given) => Good(Ready(message, given))
  BY ReadyCoins
<1>5. \A field, list : ToSet(list) \subseteq S => Good(Ask(message, field, list))
  BY AskCoins
<1>6. \A type : Gives([type |-> type, assets |-> assets])
  BY <1>1 DEF Research
<1>7. \A action, caps : Gives(Wide(action, caps))
  BY DEF Research, Wide
<1>8. \A mode, type, action, caps :
        Gives(Filled([mode |-> mode, type |-> type, assets |-> assets], Wide(action, caps)))
  BY <1>1 DEF Research, Wide, Filled
<1>9. message.mover # "" => Gives(ReactionTask(message, message.mover))
  BY <1>3 DEF Research, ReactionTask
<1>10. \A window : Gives(History(assets, window))
  BY <1>2 DEF Research, History
<1>11. \A action : Gives(Ranking(message, action))
  BY DEF Research, Ranking
<1>12. Gives(Quote(assets)) /\ Gives(Quote(Upto(assets, 4)))
  BY <1>1, <1>2 DEF Research, Quote
<1>13. \A universe, caps : Gives([assets |-> assets, universe |-> universe, caps |-> caps])
  BY <1>1 DEF Research
<1>14. Gives(UnusualTask(message))
  BY <1>1 DEF Research, UnusualTask
<1>15. Gives(StandingWatch(message))
  BY <1>1 DEF Research, StandingWatch, Filled
<1>16. \A task, universe, limit, caps :
         "assets" \in DOMAIN task /\ "follow" \in DOMAIN task /\ Good(task) =>
           Good([task EXCEPT !.universe = universe, !.limit = limit, !.caps = caps])
  OBVIOUS
<1>17. \A field, list : {"assets", "follow"} \subseteq DOMAIN Ask(message, field, list)
  BY DEF Ask, Ready, Filled, Research
<1> HIDE DEF Good, Gives
<1>18. Good([Ask(message, "ranking", <<>>) EXCEPT !.universe = "top",
               !.limit = ListingLimit(message), !.caps = <<"market", "discovery">>])
  BY <1>1, <1>5, <1>16, <1>17
<1>19. Good(UnderstandHeuristic(message))
  BY <1>1, <1>4, <1>5, <1>6, <1>7, <1>8, <1>9, <1>10, <1>11, <1>12, <1>13, <1>14, <1>15, <1>18
     DEF UnderstandHeuristic
<1> QED BY <1>19 DEF Good, S

\* A coin of the message is in reach, if it has any.
Reached(assets, message, draft) ==
  Coins(message, draft) = {} \/ ToSet(assets) \cap Meant(message, draft) # {}

LEMMA ReachedIsSought ==
  ASSUME NEW task, NEW message, NEW draft, Reached(task.assets, message, draft)
  PROVE  Sought(task, message, draft)
<1>1. ToSet(task.assets) # {} => task.assets # <<>>
  BY PairIsSequence
<1> QED BY <1>1 DEF Sought, Found, Reached

\* What is not a follow-up and has none of its own needs no coin of the message.
LEMMA NamedIsSought ==
  ASSUME NEW task, task.assets \in Seq(STRING), ~task.follow, NEW message, NEW draft,
         ToSet(task.assets) \subseteq Meant(message, draft)
  PROVE  Sought(task, message, draft)
<1>1. task.assets # <<>> => ToSet(task.assets) # {}
  BY SomeCoin
<1> QED BY <1>1 DEF Sought, Found

LEMMA AddedCoins ==
  ASSUME NEW S, NEW assets \in Seq(S), NEW coin \in S
  PROVE  /\ Unique(Append(assets, coin)) \in Seq(S)
         /\ ToSet(Unique(Append(assets, coin))) = ToSet(assets) \cup {coin}
<1> DEFINE longer == Append(assets, coin)
<1>1. longer \in Seq(S)
  BY AppendProperties
<1>2. PICK n \in Nat : n = Len(assets) /\ DOMAIN assets = 1..n
  BY LenProperties
<1>3. ToSet(longer) = ToSet(assets) \cup {coin}
  <2>1. Len(longer) = n + 1 /\ longer[n + 1] = coin /\ \A i \in 1..n : longer[i] = assets[i]
    <3> PICK t : t = Append(assets, coin)
      OBVIOUS
    <3>1. Len(t) = n + 1 /\ t[n + 1] = coin /\ \A i \in 1..n : t[i] = assets[i]
      BY <1>2, AppendProperties
    <3> QED BY <3>1
  <2> HIDE DEF longer
  <2>2. DOMAIN longer = 1..(n + 1)
    BY <1>1, <2>1, LenProperties
  <2>3. \A i \in 1..(n + 1) : i \in 1..n \/ i = n + 1
    OBVIOUS
  <2>4. n + 1 \in 1..(n + 1) /\ \A i \in 1..n : i \in 1..(n + 1)
    OBVIOUS
  <2>5. ToSet(longer) \subseteq ToSet(assets) \cup {coin}
    BY <1>2, <2>1, <2>2, <2>3 DEF ToSet
  <2>6. coin \in ToSet(longer)
    BY <2>1, <2>2, <2>4 DEF ToSet
  <2>7. ToSet(assets) \subseteq ToSet(longer)
    BY <1>2, <2>1, <2>2, <2>4 DEF ToSet
  <2> QED BY <2>5, <2>6, <2>7
<1> HIDE DEF longer
<1>4. IsSequence(longer)
  BY <1>1, TextSequence
<1>5. Unique(longer) \in Seq(S) /\ ToSet(Unique(longer)) = ToSet(longer)
  BY <1>1, <1>4, UniqueTexts, UniqueItems, UniqueSequence
<1> QED BY <1>3, <1>5 DEF longer

\* A short message goes on with the research at hand, for the coins it names if
\* it names any.
LEMMA FollowUpAims ==
  ASSUME NEW message \in MessageTypes, MessageAims(message),
         NEW research \in Researches,
         research.task = None \/ Clear(research.task.assets), Clear(research.entities),
         FollowUp(message, research) # None
  PROVE  LET task == FollowUp(message, research)
         IN /\ Clear(task.assets)
            /\ \/ task.status = "needs_input"
               \/ GoesOn(task, message)
               \/ Reached(task.assets, message, None)
<1> DEFINE base == [research.task EXCEPT !.follow = TRUE, !.status = "ready", !.field = "",
                                         !.said = Said(message)]
           window == Else(base.window, research.timeframe)
           coins == IF message.assets # <<>> THEN message.assets ELSE base.assets
           those == IF coins = <<>> THEN research.entities ELSE coins
           one   == <<message.named>>
           more  == Unique(Append(base.assets, message.named))
           added == IF message.named = "" THEN base.assets ELSE more
           held  == IF research.entities = <<>> THEN Stay(base, "follow_up").assets
                    ELSE research.entities
           caps  == Unique(base.caps \o <<"anomaly", "market">>)
           long  == Else(window, "30d")
           Has(cue) == cue \in message.cues
           Good(task) == /\ Clear(task.assets)
                         /\ \/ task.status = "needs_input"
                            \/ GoesOn(task, message)
                            \/ Reached(task.assets, message, None)
           NoneNamed == Coins(message, None) = {}
           GoOn == \/ Has("same")
                   \/ Has("deeper")
                   \/ Has("short") /\ message.limit # 0
                   \/ Has("add") /\ message.named = ""
<1>1. research.task # None
  BY DEF FollowUp
<1>2. research.task \in Task /\ research.entities \in Seq(STRING)
  BY <1>1, TaskStatus DEF Researches
<1>3. message.named \in STRING /\ message.assets \in Seq(STRING)
  BY DEF MessageTypes
<1>4. /\ {"assets", "status", "field", "window", "caps", "action", "limit", "universe", "follow"}
           \subseteq DOMAIN base
      /\ base.assets = research.task.assets /\ base.follow = TRUE
  BY <1>2 DEF Task
<1>5. base.assets \in Seq(STRING) /\ Clear(base.assets)
  BY <1>1, <1>2, <1>4 DEF Task
<1> DEFINE First == \/ Has("correction") \/ Has("add") \/ Has("same")
                    \/ message.window # "" /\ message.assets = <<>>
<1>6. First =>
        \/ Has("correction") /\ FollowUp(message, research) = [base EXCEPT !.assets = one]
        \/ Has("add") /\ FollowUp(message, research) = [base EXCEPT !.assets = added]
        \/ /\ message.assets = <<>>
           /\ FollowUp(message, research) = WithHistory([base EXCEPT !.window = message.window])
        \/ FollowUp(message, research) = Stay(base, "window")
        \/ Has("same") /\ FollowUp(message, research) = [base EXCEPT !.window = window]
  BY <1>1 DEF FollowUp
<1>6a. ~First =>
        \/ FollowUp(message, research)
             = [base EXCEPT !.assets = those, !.caps = caps, !.action = "report"]
        \/ Has("deeper") /\ FollowUp(message, research)
                              = WithHistory([base EXCEPT !.window = long])
        \/ /\ Has("short") /\ message.limit # 0
           /\ FollowUp(message, research)
                = [base EXCEPT !.limit = message.limit, !.universe = "top"]
        \/ FollowUp(message, research) = Stay(base, "follow_up")
        \/ /\ message.named # ""
           /\ \/ FollowUp(message, research) = [base EXCEPT !.assets = one, !.window = window]
              \/ FollowUp(message, research)
                   = WithHistory([base EXCEPT !.assets = one, !.window = window])
        \/ FollowUp(message, research) = [Stay(base, "follow_up") EXCEPT !.assets = held]
  BY <1>1 DEF FollowUp
<1> HIDE DEF base, window
<1>7. \A t : {"assets", "window"} \subseteq DOMAIN t =>
        /\ \A list : [t EXCEPT !.assets = list].assets = list
        /\ \A other : [t EXCEPT !.window = other].assets = t.assets
        /\ \A list, other : [t EXCEPT !.assets = list, !.window = other].assets = list
  OBVIOUS
<1>8. \A t : {"assets", "caps"} \subseteq DOMAIN t => WithHistory(t).assets = t.assets
  BY DEF WithHistory
<1>9. \A field : Stay(base, field).assets = base.assets /\ Stay(base, field).status = "needs_input"
                 /\ {"assets", "status"} \subseteq DOMAIN Stay(base, field)
  BY <1>4 DEF Stay
<1>10. [base EXCEPT !.limit = message.limit, !.universe = "top"].assets = base.assets
  BY <1>4
<1>11. \A list : [base EXCEPT !.assets = those, !.caps = list, !.action = "report"].assets = those
  <2> HIDE DEF those
  <2> QED BY <1>4
<1>12. /\ [Stay(base, "follow_up") EXCEPT !.assets = held].assets = held
       /\ [Stay(base, "follow_up") EXCEPT !.assets = held].status = "needs_input"
  <2> HIDE DEF held
  <2> QED BY <1>9
<1>13. message.assets = <<>> => NoneNamed
  BY NoCoins
<1>14. message.named # "" => Clear(one) /\ Reached(one, message, None)
  <2>1. ToSet(one) = {message.named}
    BY PairIsSequence
  <2> QED BY <2>1 DEF Clear, Reached, Meant
<1>15. message.named # "" => Clear(more) /\ Reached(more, message, None)
  <2>1. ToSet(more) = ToSet(base.assets) \cup {message.named}
    BY <1>3, <1>5, AddedCoins
  <2> QED BY <1>5, <2>1 DEF Clear, Reached, Meant
<1>16. Clear(those) /\ Reached(those, message, None)
  <2>1. CASE message.assets = <<>>
    BY <1>5, <1>13, <2>1 DEF Reached
  <2>2. CASE message.assets # <<>>
    <3>1. those = message.assets
      BY <2>2
    <3>2. Clear(message.assets) /\ ToSet(message.assets) # {}
      BY <1>3, <2>2, SomeCoin DEF MessageAims
    <3> QED BY <3>1, <3>2 DEF Clear, Reached, Meant, Coins
  <2> QED BY <2>1, <2>2
<1>17. Clear(held)
  BY <1>5, <1>9
<1>18. Clear(added) /\ (message.named # "" => Reached(added, message, None))
  <2> HIDE DEF more
  <2> QED BY <1>5, <1>15
<1>19. Has("correction") => message.named # ""
  BY DEF MessageAims
<1> HIDE DEF one, more, those, held, added
<1>20. \A t : NoneNamed /\ t.assets = base.assets => Good(t)
  BY <1>5 DEF Reached
<1>21. \A t, list : Clear(list) /\ Reached(list, message, None) /\ t.assets = list => Good(t)
  OBVIOUS
<1>22. \A t : t.assets = base.assets /\ t.status = "needs_input" => Good(t)
  BY <1>5
<1>22a. \A t : t.assets = base.assets /\ t.follow = TRUE /\ GoOn => Good(t)
  BY <1>5 DEF GoesOn
<1>23. \A t : t.assets = held /\ t.status = "needs_input" => Good(t)
  BY <1>17
<1> DEFINE Whole(t) == {"assets", "window", "caps"} \subseteq DOMAIN t
<1>24. /\ \A other : Whole([base EXCEPT !.window = other])
       /\ \A list, other : Whole([base EXCEPT !.assets = list, !.window = other])
  BY <1>4
<1>25. \A other : /\ WithHistory([base EXCEPT !.window = other]).assets = base.assets
                   /\ [base EXCEPT !.window = other].assets = base.assets
  BY <1>4, <1>7, <1>8, <1>24
<1>26. \A list : [base EXCEPT !.assets = list].assets = list
  BY <1>4
<1>27. \A list, other :
         /\ WithHistory([base EXCEPT !.assets = list, !.window = other]).assets = list
         /\ [base EXCEPT !.assets = list, !.window = other].assets = list
  <2> SUFFICES ASSUME NEW list, NEW other
               PROVE  /\ WithHistory([base EXCEPT !.assets = list, !.window = other]).assets = list
                      /\ [base EXCEPT !.assets = list, !.window = other].assets = list
    OBVIOUS
  <2> DEFINE turned == [base EXCEPT !.assets = list, !.window = other]
  <2>1. turned.assets = list /\ {"assets", "caps"} \subseteq DOMAIN turned
    BY <1>4
  <2> HIDE DEF turned
  <2>2. WithHistory(turned).assets = turned.assets
    BY <1>8, <2>1
  <2> QED BY <2>1, <2>2 DEF turned
<1> DEFINE Follows(t) == t.follow = TRUE
<1>27a. /\ \A list : Follows([base EXCEPT !.assets = list])
        /\ \A other : Follows([base EXCEPT !.window = other])
        /\ Follows([base EXCEPT !.limit = message.limit, !.universe = "top"])
  BY <1>4
<1>27b. \A other : Follows(WithHistory([base EXCEPT !.window = other]))
  <2> SUFFICES ASSUME NEW other PROVE Follows(WithHistory([base EXCEPT !.window = other]))
    OBVIOUS
  <2> DEFINE dated == [base EXCEPT !.window = other]
  <2>1. {"caps", "follow"} \subseteq DOMAIN dated /\ dated.follow = TRUE
    BY <1>4
  <2> HIDE DEF dated
  <2>2. WithHistory(dated).follow = TRUE
    BY <2>1 DEF WithHistory
  <2> QED BY <2>2 DEF dated
<1>27c. message.named = "" => added = base.assets
  BY DEF added
<1> HIDE DEF Good, NoneNamed
<1>28. Has("correction") => Good([base EXCEPT !.assets = one])
  BY <1>14, <1>19, <1>21, <1>26
<1>29. Has("add") => Good([base EXCEPT !.assets = added])
  <2>1. message.named # "" => Good([base EXCEPT !.assets = added])
    BY <1>18, <1>21, <1>26
  <2>2. Has("add") /\ message.named = "" => Good([base EXCEPT !.assets = added])
    BY <1>22a, <1>26, <1>27a, <1>27c
  <2> QED BY <2>1, <2>2
<1>30. message.assets = <<>> => Good(WithHistory([base EXCEPT !.window = message.window]))
  BY <1>13, <1>20, <1>25
<1>31. Good(Stay(base, "window")) /\ Good(Stay(base, "follow_up"))
  BY <1>9, <1>22
<1>32. Has("same") => Good([base EXCEPT !.window = window])
  <2>1. [base EXCEPT !.window = window].assets = base.assets
    BY <1>25
  <2>2. [base EXCEPT !.window = window].follow = TRUE
    BY <1>27a
  <2> QED BY <1>22a, <2>1, <2>2
<1>33. Good([base EXCEPT !.assets = those, !.caps = caps, !.action = "report"])
  BY <1>11, <1>16, <1>21
<1>34. Has("deeper") => Good(WithHistory([base EXCEPT !.window = long]))
  <2>1. WithHistory([base EXCEPT !.window = long]).assets = base.assets
    BY <1>25
  <2>2. WithHistory([base EXCEPT !.window = long]).follow = TRUE
    BY <1>27b
  <2> QED BY <1>22a, <2>1, <2>2
<1>35. Has("short") /\ message.limit # 0 =>
         Good([base EXCEPT !.limit = message.limit, !.universe = "top"])
  BY <1>10, <1>22a, <1>27a
<1>36. message.named # "" =>
         /\ Good([base EXCEPT !.assets = one, !.window = window])
         /\ Good(WithHistory([base EXCEPT !.assets = one, !.window = window]))
  BY <1>14, <1>21, <1>27
<1>37. Good([Stay(base, "follow_up") EXCEPT !.assets = held])
  BY <1>12, <1>23
<1>38. Good(FollowUp(message, research))
  BY <1>6, <1>6a, <1>28, <1>29, <1>30, <1>31, <1>32, <1>33, <1>34, <1>35, <1>36, <1>37
<1> QED BY <1>38 DEF Good

\* What the lock makes of a reaction is about the coin that moves.
LEMMA LockAims ==
  ASSUME NEW message \in MessageTypes, MessageAims(message), "reaction" \in message.cues,
         NEW task \in Task
  PROVE  LET locked == LockReactionTurn(message, task)
         IN Clear(locked.assets) /\ Reached(locked.assets, message, None)
<1> DEFINE read == IF task.status = "ready" /\ task.type = "watch_plus_investigate" THEN task
                   ELSE UnderstandHeuristic(message)
           coin == IF message.mover = "" THEN <<>> ELSE <<message.mover>>
           given == [ReactionTask(message, message.mover) EXCEPT !.assets = coin,
                       !.limit = IF message.limit = 0 /\ read.limit # 0 THEN read.limit ELSE @]
           rest == [read EXCEPT !.status = "ready", !.said = Said(message)]
<1>1. LockReactionTurn(message, task) = Filled(given, rest)
  BY DEF LockReactionTurn
<1>2. "assets" \in DOMAIN given /\ given.assets = coin
  BY DEF ReactionTask
<1> HIDE DEF given, rest
<1>3. Filled(given, rest).assets = coin
  BY <1>2 DEF Filled
<1>4. Clear(coin) /\ Reached(coin, message, None)
  <2>1. ToSet(<<>>) = {} /\ ToSet(<<message.mover>>) = {message.mover}
    BY PairIsSequence
  <2>2. CASE message.mover = ""
    <3>1. message.assets = <<>>
      BY <2>2 DEF MessageAims
    <3> QED BY <2>1, <2>2, <3>1, NoCoins DEF Clear, Reached
  <2>3. CASE message.mover # ""
    <3>1. coin = <<message.mover>>
      BY <2>3
    <3>2. message.mover \in Meant(message, None)
      BY <2>3 DEF Meant
    <3> QED BY <2>1, <2>3, <3>1, <3>2 DEF Clear, Reached
  <2> QED BY <2>2, <2>3
<1> QED BY <1>1, <1>3, <1>4

\* The coins of a model's task are those of the message, if it names any.
LEMMA ModelAims ==
  ASSUME NEW message, message.assets \in Seq(STRING), Clear(message.assets),
         NEW answer \in Task, Clear(answer.assets), ~answer.follow
  PROVE  LET task == TaskFromModel(message, answer)
         IN /\ Clear(task.assets) /\ ~task.follow
            /\ message.assets # <<>> => ToSet(task.assets) \cap ToSet(message.assets) # {}
<1> DEFINE named == message.assets
           coins == IF /\ answer.assets # <<>>
                       /\ named = <<>> \/ ToSet(named) \cap ToSet(answer.assets) # {}
                    THEN answer.assets ELSE named
           task == TaskFromModel(message, answer)
<1>1. {"assets", "follow", "caps", "said", "window", "conds"} \subseteq DOMAIN answer
  BY DEF Task
<1>2. task.assets = coins /\ task.follow = answer.follow
  BY <1>1 DEF TaskFromModel
<1> HIDE DEF task
<1>3. Clear(coins)
  OBVIOUS
<1>4. named # <<>> => ToSet(named) # {}
  BY SomeCoin
<1>5. named # <<>> => ToSet(coins) \cap ToSet(named) # {}
  BY <1>4
<1> QED BY <1>2, <1>3, <1>5 DEF task

\* A message read in its own right is about its own coins.
LEMMA PhrasesSeek ==
  ASSUME NEW message \in MessageTypes, MessageAims(message), NEW draft
  PROVE  LET task == UnderstandHeuristic(message)
         IN Clear(task.assets) /\ Sought(task, message, draft)
<1> DEFINE task == UnderstandHeuristic(message)
<1>1. /\ ToSet(task.assets) \subseteq (ToSet(message.assets) \cup ({message.mover} \ {""}))
      /\ ~task.follow
  BY PhrasesAim
<1>2. task \in Task
  BY PhrasesAreTyped
<1> HIDE DEF task
<1>3. task.assets \in Seq(STRING)
  BY <1>2 DEF Task
<1>4. Clear(task.assets)
  BY <1>1 DEF Clear, MessageAims
<1>5. ToSet(task.assets) \subseteq Meant(message, draft)
  BY <1>1, <1>4 DEF Clear, Meant, Coins
<1>6. Sought(task, message, draft)
  BY <1>1, <1>3, <1>5, NamedIsSought
<1> QED BY <1>4, <1>6 DEF task

\* What a turn makes of a message: a question that keeps its coins, or a task
\* about a coin of the message.
Aims(task, message, draft) ==
  /\ Clear(task.assets)
  /\ task.status # "needs_input" => Sought(task, message, draft)

LEMMA AskAims ==
  ASSUME NEW message, NEW field, NEW assets, Clear(assets), NEW draft
  PROVE  Aims(Ask(message, field, assets), message, draft)
<1>1. ToSet(Ask(message, field, assets).assets) \subseteq ToSet(assets)
  BY AskCoins
<1> QED BY <1>1, AskWaits DEF Aims, Clear

\* The coins of a model's task are in reach of the message.
LEMMA ModelReaches ==
  ASSUME NEW message, NEW draft, NEW named, NEW coins,
         named = {} => Coins(message, draft) = {},
         named \subseteq Coins(message, draft),
         named # {} => ToSet(coins) \cap named # {}
  PROVE  Reached(coins, message, draft)
BY DEF Reached, Meant

LEMMA ModelUnderstandsAims ==
  ASSUME NEW message \in MessageTypes, MessageAims(message),
         NEW answer \in {Broken} \cup Task, answer # None, ReadingAims(answer)
  PROVE  Aims(UnderstandModel(message, answer), message, None)
<1> DEFINE task == IF answer = Broken THEN Broken ELSE TaskFromModel(message, answer)
           read == IF "reaction" \in message.cues THEN UnderstandHeuristic(message)
                   ELSE Ask(message, "subject", <<>>)
<1>1. CASE task = Broken
  <2>1. UnderstandModel(message, answer) = LockReactionTurn(message, read)
    BY <1>1 DEF UnderstandModel
  <2>2. CASE "reaction" \in message.cues
    <3>1. read \in Task
      BY <2>2, PhrasesAreTyped
    <3> HIDE DEF read
    <3> QED BY <2>1, <2>2, <3>1, LockAims, ReachedIsSought DEF Aims
  <2>3. CASE "reaction" \notin message.cues
    <3>1. UnderstandModel(message, answer) = Ask(message, "subject", <<>>)
      BY <2>1, <2>3 DEF LockReactionTurn
    <3>2. Clear(<<>>)
      BY PairIsSequence DEF Clear
    <3> QED BY <3>1, <3>2, AskAims
  <2> QED BY <2>2, <2>3
<1>2. CASE task # Broken
  <2>1. answer \in Task /\ task = TaskFromModel(message, answer) /\ answer # Broken
    BY <1>2
  <2>2. message.assets \in Seq(STRING) /\ Clear(message.assets) /\ Clear(answer.assets)
        /\ ~answer.follow
    BY <2>1 DEF MessageTypes, MessageAims, ReadingAims
  <2>3. /\ Clear(task.assets) /\ ~task.follow
        /\ message.assets # <<>> => ToSet(task.assets) \cap ToSet(message.assets) # {}
    BY <2>1, <2>2, ModelAims
  <2>4. task \in Task
    BY <2>1, ModelTask
  <2>5. \/ UnderstandModel(message, answer)
             = [task EXCEPT !.field = Else(task.field, "unusual_definition")]
        \/ UnderstandModel(message, answer) = [task EXCEPT !.status = "needs_input"]
        \/ UnderstandModel(message, answer) = [task EXCEPT !.status = "ready"]
    BY <1>2 DEF UnderstandModel
  <2> HIDE DEF task
  <2>6. UnderstandModel(message, answer).assets = task.assets
    <3>1. [task EXCEPT !.field = Else(task.field, "unusual_definition")].assets = task.assets
      BY <2>4 DEF Task
    <3>2. [task EXCEPT !.status = "needs_input"].assets = task.assets
      BY <2>4 DEF Task
    <3>3. [task EXCEPT !.status = "ready"].assets = task.assets
      BY <2>4 DEF Task
    <3> QED BY <2>5, <3>1, <3>2, <3>3, Zenon
  <2>7. Reached(task.assets, message, None)
    <3>1. message.assets = <<>> => Coins(message, None) = {}
      BY NoCoins
    <3>2. ToSet(message.assets) \subseteq Coins(message, None)
      BY <2>2 DEF Coins, Clear
    <3> QED BY <2>3, <3>1, <3>2 DEF Reached, Meant
  <2> QED BY <2>3, <2>6, <2>7, ReachedIsSought DEF Aims
<1> QED BY <1>1, <1>2

LEMMA ModelMergesAims ==
  ASSUME NEW message \in MessageTypes, MessageAims(message),
         NEW draft \in Task, draft # None, Clear(draft.assets),
         NEW answer \in {Broken} \cup Task, answer # None, ReadingAims(answer)
  PROVE  Aims(MergeAnswerModel(message, draft, answer), message, draft)
<1>1. CASE answer = Broken
  <2>1. MergeAnswerModel(message, draft, answer) = Ask(message, "subject", <<>>)
    BY <1>1 DEF MergeAnswerModel
  <2>2. Clear(<<>>)
    BY PairIsSequence DEF Clear
  <2> QED BY <2>1, <2>2, AskAims
<1>2. CASE answer # Broken
  <2> DEFINE both == Unique(draft.assets \o message.assets)
             wider == [message EXCEPT !.assets = both]
             read == TaskFromModel(wider, answer)
             task == [read EXCEPT !.said = draft.said \cup Said(message)]
             merged == MergeAnswerModel(message, draft, answer)
  <2>1. /\ draft.assets \in Seq(STRING) /\ message.assets \in Seq(STRING)
        /\ Clear(message.assets)
    BY DEF Task, MessageTypes, MessageAims
  <2>2. both \in Seq(STRING) /\ ToSet(both) = ToSet(draft.assets) \cup ToSet(message.assets)
    <3>1. IsSequence(draft.assets) /\ IsSequence(message.assets)
      BY <2>1, TextSequence
    <3>2. /\ IsSequence(draft.assets \o message.assets)
          /\ ToSet(draft.assets \o message.assets) = ToSet(draft.assets) \cup ToSet(message.assets)
      BY <3>1, ConcatFacts
    <3>3. draft.assets \o message.assets \in Seq(STRING)
      BY <2>1, JoinedTexts
    <3> QED BY <3>2, <3>3, UniqueItems, UniqueSequence, UniqueTexts
  <2>3. \/ merged = [task EXCEPT !.field = Else(task.field, draft.field)]
        \/ merged = [task EXCEPT !.status = "ready", !.field = "",
                       !.conds = IF task.conds = <<>> THEN draft.conds ELSE task.conds]
    BY <1>2 DEF MergeAnswerModel
  <2>4. answer \in Task /\ Clear(answer.assets) /\ ~answer.follow
    BY <1>2 DEF ReadingAims
  <2> HIDE DEF both, merged
  <2>5. wider.assets = both /\ wider \in MessageTypes
    BY <2>2 DEF MessageTypes
  <2> HIDE DEF wider
  <2>6. Clear(both)
    BY <2>1, <2>2 DEF Clear
  <2>7. /\ Clear(read.assets) /\ (both # <<>> => ToSet(read.assets) \cap ToSet(both) # {})
        /\ read \in Task
    BY <2>2, <2>4, <2>5, <2>6, ModelAims, ModelTask
  <2> HIDE DEF read
  <2>8. task.assets = read.assets /\ {"assets", "field", "status", "conds"} \subseteq DOMAIN task
    BY <2>7 DEF Task
  <2> HIDE DEF task
  <2>9. merged.assets = task.assets
    <3>1. [task EXCEPT !.field = Else(task.field, draft.field)].assets = task.assets
      BY <2>8
    <3>2. [task EXCEPT !.status = "ready", !.field = "",
             !.conds = IF task.conds = <<>> THEN draft.conds ELSE task.conds].assets = task.assets
      BY <2>8
    <3> QED BY <2>3, <3>1, <3>2, Zenon
  <2>10. Reached(read.assets, message, draft)
    <3>1. both = <<>> <=> ToSet(both) = {}
      BY <2>2, SomeCoin
    <3>2. ToSet(both) \subseteq Coins(message, draft)
      BY <2>2, <2>6 DEF Coins, Clear
    <3>3. ToSet(both) = {} => Coins(message, draft) = {}
      BY <2>2 DEF Coins, MessageAims
    <3> QED BY <2>7, <3>1, <3>2, <3>3, ModelReaches
  <2>11. Aims(merged, message, draft)
    BY <2>7, <2>8, <2>9, <2>10, ReachedIsSought DEF Aims
  <2> QED BY <2>11 DEF merged
<1> QED BY <1>1, <1>2

LEMMA FinishedCoins ==
  ASSUME NEW draft, IsTask(draft), NEW message
  PROVE  FinishWork(draft, message).assets = draft.assets
<1> DEFINE named == [draft EXCEPT !.status = "ready", !.mode = "work", !.field = "",
                                  !.said = @ \cup Said(message)]
           ranked == IF draft.universe = ""
                     THEN [named EXCEPT !.universe = "top",
                             !.limit = IF @ = 0 THEN DefaultLimit ELSE @] ELSE named
           task == FinishWork(draft, message)
<1>1. {"status", "mode", "assets", "field", "said", "universe", "limit", "type", "caps", "action"}
        \subseteq DOMAIN draft
  BY DEF IsTask, Research
<1>2. DOMAIN named = DOMAIN draft /\ named.assets = draft.assets
  BY <1>1
<1>3. \/ task = [ranked EXCEPT !.type = "watch_plus_investigate",
                               !.caps = <<"reaction", "market", "anomaly">>]
      \/ task = [named EXCEPT !.type = "persistent_monitor", !.caps = <<"anomaly", "market">>,
                              !.action = Else(@, "notify")]
  BY DEF FinishWork
<1> HIDE DEF named, task
<1>4. DOMAIN ranked = DOMAIN draft /\ ranked.assets = draft.assets
  BY <1>1, <1>2
<1> HIDE DEF ranked
<1>5. [ranked EXCEPT !.type = "watch_plus_investigate",
                     !.caps = <<"reaction", "market", "anomaly">>].assets = draft.assets
  BY <1>1, <1>4
<1>6. [named EXCEPT !.type = "persistent_monitor", !.caps = <<"anomaly", "market">>,
                    !.action = Else(@, "notify")].assets = draft.assets
  BY <1>1, <1>2
<1>7. task.assets = draft.assets
  BY <1>3, <1>5, <1>6, Zenon
<1> QED BY <1>7 DEF task

\* The task that an answer finishes keeps the coins of its question.
LEMMA FinishAims ==
  ASSUME NEW work, IsTask(work), NEW draft, draft # None, NEW message,
         work.assets = draft.assets, draft.assets \in Seq(STRING), draft.assets # <<>>,
         Clear(draft.assets)
  PROVE  LET task == FinishWork(work, message)
         IN Aims(task, message, draft) /\ PendingAims(task)
<1> DEFINE task == FinishWork(work, message)
<1>1. task.assets = draft.assets
  BY FinishedCoins
<1>2. ToSet(draft.assets) # {}
  BY SomeCoin
<1> HIDE DEF task
<1>3. ToSet(task.assets) \cap Meant(message, draft) # {}
  BY <1>1, <1>2 DEF Meant, Coins, Clear
<1>4. Sought(task, message, draft)
  BY <1>3, ReachedIsSought DEF Reached
<1> QED BY <1>1, <1>4 DEF Aims, PendingAims, task

LEMMA AnswerAims ==
  ASSUME NEW message \in MessageTypes, MessageAims(message),
         NEW draft \in Task, draft # None, draft.status = "needs_input", PendingAims(draft)
  PROVE  LET task == MergeAnswerHeuristic(message, draft)
         IN Aims(task, message, draft) /\ PendingAims(task)
<1> DEFINE task == MergeAnswerHeuristic(message, draft)
           asset == IF draft.assets = <<>> THEN "" ELSE Head(draft.assets)
           conds == ParseUnusual(message, asset)
           bounded == [draft EXCEPT !.conds = conds]
           Right == Aims(task, message, draft) /\ PendingAims(task)
<1>1. /\ IsTask(draft) /\ draft.assets \in Seq(STRING) /\ Clear(draft.assets)
      /\ {"conds", "action", "assets", "status", "field"} \subseteq DOMAIN draft
  <2>1. DOMAIN draft = DOMAIN Research
    BY DEF Task, Research
  <2> QED BY <2>1 DEF Task, IsTask, PendingAims, Research
<1> HIDE DEF conds
<1>2. /\ IsTask(bounded) /\ bounded.assets = draft.assets /\ bounded.status = "needs_input"
      /\ DOMAIN bounded = DOMAIN draft
  BY <1>1 DEF IsTask
<1> HIDE DEF bounded
<1>3. \A action : LET work == [bounded EXCEPT !.action = action]
                  IN IsTask(work) /\ work.assets = draft.assets
  BY <1>1, <1>2 DEF IsTask
<1>4. ASSUME draft.field \in {"unusual_definition", ""} PROVE Right
  <2>1. task = MergeUnusual(message, draft)
    BY <1>4 DEF MergeAnswerHeuristic
  <2> HIDE DEF task
  <2>2. CASE asset = ""
    <3>1. task = Ask(message, "subject", <<>>)
      BY <2>1, <2>2 DEF MergeUnusual
    <3>2. AsksNoAction(task)
      BY <3>1, AskFacts
    <3>3. Clear(<<>>)
      BY PairIsSequence DEF Clear
    <3> QED BY <3>1, <3>2, <3>3, AskAims DEF Aims, PendingAims, AsksNoAction
  <2>3. CASE asset # ""
    <3>1. draft.assets # <<>>
      BY <2>3
    <3>2. \/ task = [draft EXCEPT !.field = "unusual_definition"]
          \/ task = FinishWork(bounded, message)
          \/ task = FinishWork([bounded EXCEPT !.action = "notify"], message)
          \/ task = FinishWork([bounded EXCEPT !.action = "investigate_market_reaction"], message)
          \/ task = [bounded EXCEPT !.status = "needs_input", !.field = "action"]
      BY <2>1, <2>3 DEF MergeUnusual, conds, bounded
    <3>3. CASE task = [draft EXCEPT !.field = "unusual_definition"]
      <4>1. task.assets = draft.assets /\ task.status = "needs_input"
        BY <1>1, <3>3
      <4> QED BY <1>1, <3>1, <4>1 DEF Aims, PendingAims
    <3>4. CASE task = [bounded EXCEPT !.status = "needs_input", !.field = "action"]
      <4>1. task.assets = draft.assets /\ task.status = "needs_input"
        BY <1>1, <1>2, <3>4
      <4> QED BY <1>1, <3>1, <4>1 DEF Aims, PendingAims
    <3>5. CASE task = FinishWork(bounded, message)
      BY <1>1, <1>2, <3>1, <3>5, FinishAims
    <3>6. CASE task = FinishWork([bounded EXCEPT !.action = "notify"], message)
      BY <1>1, <1>3, <3>1, <3>6, FinishAims
    <3>7. CASE task = FinishWork([bounded EXCEPT !.action = "investigate_market_reaction"], message)
      BY <1>1, <1>3, <3>1, <3>7, FinishAims
    <3> HIDE DEF Right
    <3> QED BY <3>2, <3>3, <3>4, <3>5, <3>6, <3>7
  <2> QED BY <2>2, <2>3
<1>5. ASSUME draft.field = "action" PROVE Right
  <2> DEFINE action == IF "investigate" \in message.cues
                       THEN "investigate_market_reaction" ELSE "notify"
             work == [draft EXCEPT !.action = action]
  <2>1. task = FinishWork(work, message)
    BY <1>5 DEF MergeAnswerHeuristic
  <2> HIDE DEF task, action
  <2>2. IsTask(work) /\ work.assets = draft.assets
    BY <1>1 DEF IsTask
  <2>3. draft.assets # <<>>
    BY <1>5 DEF PendingAims
  <2> HIDE DEF work
  <2> QED BY <1>1, <2>1, <2>2, <2>3, FinishAims
<1>6. ASSUME draft.field \notin {"unusual_definition", "", "action"} PROVE Right
  <2>1. task = UnderstandHeuristic(message)
    BY <1>6 DEF MergeAnswerHeuristic
  <2>2. Clear(task.assets) /\ Sought(task, message, draft) /\ AsksNoAction(task)
    BY <2>1, PhrasesSeek, PhrasesAreUnderstood
  <2> QED BY <2>2 DEF Aims, PendingAims, AsksNoAction
<1>7. Right
  <2> HIDE DEF Right
  <2> QED BY <1>4, <1>5, <1>6
<1> QED BY <1>7

LEMMA UnderstoodAims ==
  ASSUME NEW message \in MessageTypes, MessageAims(message),
         NEW pending \in {None} \cup Task,
         pending # None => pending.status = "needs_input" /\ PendingAims(pending),
         NEW research \in Researches,
         research.task = None \/ (IsTask(research.task) /\ Clear(research.task.assets)),
         Clear(research.entities),
         NEW reading \in {None, Broken} \cup Task, ReadingAims(reading), Asks(reading)
  PROVE  LET task == Understand(message, pending, research, reading)
         IN Aims(task, message, pending) /\ PendingAims(task)
<1> DEFINE task == Understand(message, pending, research, reading)
<1>1. CASE pending # None /\ reading = None
  <2>1. task = MergeAnswerHeuristic(message, pending)
    BY <1>1 DEF Understand
  <2> HIDE DEF task
  <2>2. pending \in Task
    BY <1>1
  <2>3. Aims(task, message, pending) /\ PendingAims(task)
    BY <1>1, <2>1, <2>2, AnswerAims
  <2> QED BY <2>3 DEF task
<1>2. CASE pending # None /\ reading # None
  <2>1. task = MergeAnswerModel(message, pending, reading)
    BY <1>2 DEF Understand
  <2> HIDE DEF task
  <2>2. pending \in Task /\ reading \in {Broken} \cup Task /\ Clear(pending.assets)
    BY <1>2 DEF PendingAims
  <2>3. Aims(task, message, pending)
    BY <1>2, <2>1, <2>2, ModelMergesAims
  <2>4. AsksNoAction(task)
    BY <1>2, <2>1, ModelsMergeAnswers
  <2> QED BY <2>3, <2>4 DEF task, Aims, PendingAims, AsksNoAction
<1>3. CASE pending = None /\ reading # None
  <2>1. task = UnderstandModel(message, reading)
    BY <1>3 DEF Understand
  <2> HIDE DEF task
  <2>2. reading \in {Broken} \cup Task
    BY <1>3
  <2>3. Aims(task, message, pending)
    BY <1>3, <2>1, <2>2, ModelUnderstandsAims
  <2>4. AsksNoAction(task)
    BY <1>3, <2>1, ModelsAreUnderstood
  <2> QED BY <2>3, <2>4 DEF task, Aims, PendingAims, AsksNoAction
<1>4. CASE pending = None /\ reading = None
  <2> DEFINE followed == FollowUp(message, research)
             read == IF followed = None THEN UnderstandHeuristic(message) ELSE followed
  <2>1. read \in Task
    BY PhrasesAreTyped, FollowUpTask
  <2>2. AsksNoAction(read)
    BY FollowUpFacts, PhrasesAreUnderstood
  <2>3. task \in {read, LockReactionTurn(message, read)}
    BY <1>4, ReadAlone
  <2>4. Aims(read, message, None)
    <3>1. CASE followed = None
      BY <3>1, PhrasesSeek DEF Aims
    <3>2. CASE followed # None
      <4>1. /\ Clear(followed.assets)
            /\ \/ followed.status = "needs_input"
               \/ GoesOn(followed, message)
               \/ Reached(followed.assets, message, None)
        BY <3>2, FollowUpAims
      <4>2. GoesOn(followed, message) => Sought(followed, message, None)
        BY DEF Sought, Found
      <4> HIDE DEF followed
      <4> QED BY <3>2, <4>1, <4>2, ReachedIsSought DEF Aims
    <3> QED BY <3>1, <3>2
  <2> HIDE DEF read, task
  <2>5. AsksNoAction(task)
    BY <2>2, <2>3, LockedTurns
  <2>6. Aims(task, message, None)
    <3>1. CASE "reaction" \in message.cues
      BY <2>1, <2>3, <2>4, <3>1, LockAims, ReachedIsSought DEF Aims
    <3>2. CASE "reaction" \notin message.cues
      BY <2>3, <2>4, <3>2 DEF LockReactionTurn
    <3> QED BY <3>1, <3>2
  <2> QED BY <1>4, <2>5, <2>6 DEF task, Aims, PendingAims, AsksNoAction
<1> QED BY <1>1, <1>2, <1>3, <1>4

-----------------------------------------------------------------------------
(* The coins of a run *)

\* What a plan fills in from the research at hand is no coin, where the message
\* names one.
LEMMA InheritAims ==
  ASSUME NEW task \in Tasks("ready"), Clear(task.assets),
         NEW research \in Researches, Clear(research.entities),
         NEW message, NEW draft, Sought(task, message, draft)
  PROVE  LET kept == Inherit(task, research)
         IN Clear(kept.assets) /\ Found(kept, message, draft)
<1>1. CASE ~task.follow
  <2>1. Inherit(task, research) = task
    BY <1>1 DEF Inherit
  <2> QED BY <2>1 DEF Sought
<1>2. CASE task.follow
  <2> DEFINE caps == Unique(task.caps \o <<"historical", "market">>)
             dated == IF task.window = "" /\ research.timeframe # ""
                      THEN [task EXCEPT !.window = research.timeframe, !.caps = caps] ELSE task
             assets == IF dated.assets = <<>> THEN research.entities ELSE dated.assets
             kept == [dated EXCEPT !.assets = assets,
                                   !.universe = Else(dated.universe, research.universe)]
  <2>1. Inherit(task, research) = kept
    BY <1>2 DEF Inherit
  <2>2. {"assets", "window", "caps", "universe", "follow"} \subseteq DOMAIN task
    BY DEF Tasks
  <2> HIDE DEF caps
  <2>3. dated.assets = task.assets /\ dated.follow = task.follow /\ DOMAIN dated = DOMAIN task
    BY <2>2
  <2> HIDE DEF dated
  <2>4. kept.assets = assets /\ kept.follow = task.follow
    BY <2>2, <2>3
  <2>4a. GoesOn(kept, message) <=> GoesOn(task, message)
    BY <2>4 DEF GoesOn
  <2> HIDE DEF kept
  <2>5. CASE task.assets = <<>>
    <3>1. kept.assets = research.entities
      BY <2>3, <2>4, <2>5
    <3>2. Coins(message, draft) = {} \/ GoesOn(task, message)
      BY <1>2, <2>5 DEF Sought
    <3> QED BY <2>1, <2>4a, <3>1, <3>2 DEF Found
  <2>6. CASE task.assets # <<>>
    <3>1. kept.assets = task.assets
      BY <2>3, <2>4, <2>6
    <3> QED BY <2>1, <2>4a, <3>1 DEF Sought, Found
  <2> QED BY <2>5, <2>6
<1> QED BY <1>1, <1>2

LEMMA AppliedCoins ==
  ASSUME NEW task, task.assets \in Seq(STRING), Clear(task.assets),
         NEW research, Clear(research.entities)
  PROVE  LET applied == ApplyTask(research, task)
         IN applied.task = task /\ Clear(applied.entities)
<1>1. IsSequence(task.assets)
  BY TextSequence
<1>2. Clear(Unique(task.assets))
  BY <1>1, UniqueSequence DEF Clear
<1> QED BY <1>2 DEF ApplyTask

\* What is remembered has no coin without a name.
Recalls(seen) ==
  /\ seen.pending # None => PendingAims(seen.pending)
  /\ seen.research.task # None => Clear(seen.research.task.assets)
  /\ Clear(seen.research.entities)

TurnAims(label, local) ==
  /\ Recalls(local.seen)
  /\ label = "read" => MessageAims(local.message) /\ ReadingAims(local.reading)
                       /\ Asks(local.reading)
  /\ label = "keep" => "keep watching" \in local.message.cues
  /\ label = "plan" => Clear(local.task.assets) /\ Sought(local.task, local.message, local.draft)
  /\ label = "begin" => Found(local.report.task, local.message, local.draft)

RunAims(run) == Recalls(run.seen) /\ Found(run.held.task, run.held.message, run.held.draft)

\* The inductive invariant: a turn between reading and planning has a coin of
\* the message, or needs none from the research at hand.
Aiming ==
  /\ Recalls(context)
  /\ \A p \in Web : TurnAims(pc[p], mine[p])
  /\ \A r \in DOMAIN runs : RunAims(runs[r])

LEMMA EmptyRecalls == Recalls(Empty)
<1>1. Clear(<<>>)
  BY PairIsSequence DEF Clear
<1>2. Empty.pending = None /\ Empty.research.task = None /\ Empty.research.entities = <<>>
  BY DEF Empty, NoContext
<1> HIDE DEF Clear
<1> QED BY <1>1, <1>2, Zenon DEF Recalls

LEMMA IdleAims == TurnAims("idle", Idle)
<1>1. Idle.seen = Empty
  BY DEF Idle
<1> QED BY <1>1, EmptyRecalls DEF TurnAims

LEMMA AimsGoOn ==
  ASSUME Typing, Aiming, NEW p \in Web, NEW label, NEW local, Goto(p, label, local),
         TurnAims(label, local)
  PROVE  \A q \in Web : TurnAims(pc'[q], mine'[q])
<1>1. /\ pc'[p] = label /\ mine'[p] = local
      /\ \A q \in Web : q # p => pc'[q] = pc[q] /\ mine'[q] = mine[q]
  BY DEF Goto, Typing
<1> QED BY <1>1 DEF Aiming

LEMMA AimsLeave ==
  ASSUME Typing, Aiming, NEW p \in Web, Leave(p)
  PROVE  \A q \in Web : TurnAims(pc'[q], mine'[q])
BY AimsGoOn, IdleAims DEF Leave

LEMMA ReceiveAims ==
  ASSUME MessagesAim, ReadingsAreAsked, Typing, Aiming, NEW p \in Web, Receive(p)
  PROVE  Aiming'
<1>1. PICK m \in Messages :
      Goto(p, IF "keep watching" \in m.message.cues THEN "keep" ELSE "read",
           [Idle EXCEPT !.message = m.message, !.reading = m.reading,
                        !.seen = context, !.known = version])
  BY DEF Receive
<1> DEFINE label == IF "keep watching" \in m.message.cues THEN "keep" ELSE "read"
           local == [Idle EXCEPT !.message = m.message, !.reading = m.reading,
                                 !.seen = context, !.known = version]
<1>2. MessageAims(m.message) /\ ReadingAims(m.reading) /\ Asks(m.reading)
  BY DEF MessagesAim, ReadingsAreAsked
<1>3. /\ local.seen = context /\ local.message = m.message
      /\ local.reading = m.reading /\ local.draft = None
  BY DEF Idle
<1>4. label \in {"keep", "read"} /\ (label = "keep" => "keep watching" \in m.message.cues)
  OBVIOUS
<1>5. Goto(p, label, local)
  BY <1>1
<1> HIDE DEF label, local
<1>6. label = "keep" => "keep watching" \in local.message.cues
  BY <1>3, <1>4
<1>7. Recalls(local.seen)
  BY <1>3 DEF Aiming
<1>8. label = "read" => MessageAims(local.message) /\ ReadingAims(local.reading)
                        /\ Asks(local.reading)
  BY <1>2, <1>3
<1>9. TurnAims(label, local)
  BY <1>4, <1>6, <1>7, <1>8 DEF TurnAims
<1>10. \A q \in Web : TurnAims(pc'[q], mine'[q])
  BY <1>5, <1>9, AimsGoOn
<1>11. UNCHANGED <<context, runs>>
  BY DEF Receive
<1> QED BY <1>10, <1>11 DEF Aiming

\* Writing a part of what is remembered leaves the other parts as they were.
LEMMA RecallsMore ==
  ASSUME NEW seen \in Kept, Recalls(seen)
  PROVE  /\ \A answer : (answer # None => PendingAims(answer)) =>
              Recalls([seen EXCEPT !.pending = answer])
         /\ \A research : (research.task # None => Clear(research.task.assets))
                          /\ Clear(research.entities) =>
              Recalls([seen EXCEPT !.research = research])
         /\ \A findings : Recalls([seen EXCEPT !.findings = findings])
<1>1. {"pending", "research", "findings"} \subseteq DOMAIN seen
  BY DEF Kept, Contexts
<1>2. ASSUME NEW answer, answer # None => PendingAims(answer)
      PROVE  Recalls([seen EXCEPT !.pending = answer])
  <2> DEFINE new == [seen EXCEPT !.pending = answer]
  <2>1. new.pending = answer /\ new.research = seen.research
    BY <1>1
  <2> HIDE DEF new
  <2>2. Recalls(new)
    BY <1>2, <2>1 DEF Recalls
  <2> QED BY <2>2 DEF new
<1>3. ASSUME NEW research, research.task # None => Clear(research.task.assets),
             Clear(research.entities)
      PROVE  Recalls([seen EXCEPT !.research = research])
  <2> DEFINE new == [seen EXCEPT !.research = research]
  <2>1. new.pending = seen.pending /\ new.research = research
    BY <1>1
  <2> HIDE DEF new
  <2>2. Recalls(new)
    BY <1>3, <2>1 DEF Recalls
  <2> QED BY <2>2 DEF new
<1>4. ASSUME NEW findings
      PROVE  Recalls([seen EXCEPT !.findings = findings])
  <2> DEFINE new == [seen EXCEPT !.findings = findings]
  <2>1. new.pending = seen.pending /\ new.research = seen.research
    BY <1>1
  <2> HIDE DEF new
  <2>2. Recalls(new)
    BY <2>1 DEF Recalls
  <2> QED BY <2>2 DEF new
<1> QED BY <1>2, <1>3, <1>4

LEMMA ReadAims ==
  ASSUME Typing, Aiming, NEW p \in Web, Read(p)
  PROVE  Aiming'
<1> DEFINE local == mine[p]
           seen == local.seen
           task == Understand(local.message, seen.pending, seen.research, local.reading)
           next == [local EXCEPT !.task = task, !.draft = seen.pending, !.seen.pending = None]
<1>1. /\ DOMAIN local = DOMAIN Idle /\ seen \in Kept /\ local.message \in MessageTypes
      /\ local.reading \in {None, Broken} \cup Task
  BY DEF Typing, TurnTyped, Read
<1>2. Recalls(seen) /\ MessageAims(local.message) /\ ReadingAims(local.reading)
      /\ Asks(local.reading)
  BY DEF Aiming, TurnAims, Read
<1>3. Aims(task, local.message, seen.pending) /\ PendingAims(task)
  <2> HIDE DEF local, seen
  <2>1. seen.pending \in {None} \cup Task /\ seen.research \in Researches
    BY <1>1, KeptFacts
  <2>2. seen.pending # None => seen.pending.status = "needs_input" /\ PendingAims(seen.pending)
    BY <1>1, <1>2 DEF Recalls, Kept, Contexts, Tasks
  <2>3. seen.research.task = None \/ IsTask(seen.research.task)
    <3>1. seen.research.task # None => DOMAIN seen.research.task = DOMAIN Research
      BY <2>1 DEF Researches, Tasks, Research
    <3> QED BY <3>1 DEF IsTask
  <2>4. seen.research.task = None \/ Clear(seen.research.task.assets)
    BY <1>2 DEF Recalls
  <2>5. Clear(seen.research.entities)
    BY <1>2 DEF Recalls
  <2> QED BY <1>1, <1>2, <2>1, <2>2, <2>3, <2>4, <2>5, UnderstoodAims
<1>4. UNCHANGED runs
  BY DEF Read
<1>5. CASE task.status = "needs_input"
  <2>1. AskBack(p, task)
    BY <1>5 DEF Read
  <2>2. Leave(p) /\ context' = [seen EXCEPT !.pending = task]
    BY <2>1 DEF AskBack, Write
  <2> HIDE DEF local, seen, task
  <2>3. Recalls(context')
    BY <1>1, <1>2, <1>3, <2>2, RecallsMore
  <2> QED BY <1>4, <2>2, <2>3, AimsLeave DEF Aiming
<1>6. CASE task.status # "needs_input"
  <2>1. ClearPending(p) /\ Goto(p, "plan", next)
    BY <1>6 DEF Read
  <2>2. context' = context \/ context' = [seen EXCEPT !.pending = None]
    BY <2>1 DEF ClearPending, Write
  <2>3. Recalls([seen EXCEPT !.pending = None])
    BY <1>1, <1>2, RecallsMore
  <2>4. Recalls(context')
    BY <2>2, <2>3 DEF Aiming
  <2>5. {"task", "draft", "seen", "message"} \subseteq DOMAIN local
    BY <1>1 DEF Idle
  <2>6. /\ next.seen = [seen EXCEPT !.pending = None] /\ next.task = task
        /\ next.message = local.message /\ next.draft = seen.pending
    BY <2>5
  <2> HIDE DEF next, task
  <2>7. TurnAims("plan", next)
    BY <1>3, <1>6, <2>3, <2>6 DEF TurnAims, Aims
  <2> QED BY <1>4, <2>1, <2>4, <2>7, AimsGoOn DEF Aiming
<1> QED BY <1>5, <1>6

LEMMA KeepAims ==
  ASSUME Typing, Aiming, NEW p \in Web, KeepWatching(p)
  PROVE  Aiming'
<1> DEFINE local == mine[p]
           task == local.seen.research.task
           next == [local EXCEPT !.task = Standing(task)]
<1>1. DOMAIN local = DOMAIN Idle /\ local.seen \in Kept
  BY DEF Typing, TurnTyped
<1>2. Recalls(local.seen) /\ "keep watching" \in local.message.cues
  BY DEF Aiming, TurnAims, KeepWatching
<1>3. UNCHANGED <<context, runs>>
  BY DEF KeepWatching
<1>4. CASE task = None
  <2>1. Leave(p)
    BY <1>4 DEF KeepWatching
  <2> QED BY <1>3, <2>1, AimsLeave DEF Aiming
<1>5. CASE task # None
  <2>1. Goto(p, "plan", next)
    BY <1>5 DEF KeepWatching
  <2>2. task \in Tasks("ready")
    BY <1>1, <1>5, KeptFacts DEF Researches
  <2>3. Standing(task).assets = task.assets
    BY <2>2 DEF Standing, Tasks
  <2>4. Clear(task.assets)
    BY <1>2, <1>5 DEF Recalls
  <2>5. /\ next.seen = local.seen /\ next.task = Standing(task)
        /\ next.message = local.message /\ next.draft = local.draft
    BY <1>1 DEF Idle
  <2> HIDE DEF next
  <2>6. Clear(next.task.assets) /\ Sought(next.task, next.message, next.draft)
    BY <1>2, <2>3, <2>4, <2>5 DEF Sought, Found, GoesOn
  <2>7. TurnAims("plan", next)
    BY <1>2, <2>5, <2>6 DEF TurnAims
  <2> QED BY <1>3, <2>1, <2>7, AimsGoOn DEF Aiming
<1> QED BY <1>4, <1>5

LEMMA PlanAims ==
  ASSUME Typing, Aiming, NEW p \in Web, Plan(p)
  PROVE  Aiming'
<1> DEFINE local == mine[p]
           seen == local.seen
           report == Compile(local.task, seen.research)
           next == [local EXCEPT !.report = report]
<1>1. DOMAIN local = DOMAIN Idle /\ seen \in Kept /\ local.task \in Tasks("ready")
  BY DEF Typing, TurnTyped, Plan
<1>2. Recalls(seen) /\ Clear(local.task.assets) /\ Sought(local.task, local.message, local.draft)
  BY DEF Aiming, TurnAims, Plan
<1>3. UNCHANGED runs
  BY DEF Plan
<1>4. CASE ~report.plan.accepted
  <2>1. Leave(p) /\ UNCHANGED context
    BY <1>4 DEF Plan
  <2> QED BY <1>3, <2>1, AimsLeave DEF Aiming
<1>5. CASE report.plan.accepted
  <2> DEFINE applied == ApplyTask(seen.research, report.task)
  <2>1. /\ context' = [seen EXCEPT !.research = ApplyTask(@, report.task)]
        /\ Goto(p, "begin", next)
    BY <1>5 DEF Plan, Write
  <2>2. context' = [seen EXCEPT !.research = applied]
    BY <2>1
  <2>3. report.task = Inherit(local.task, seen.research)
    BY DEF Compile, CompileFromTask
  <2>4. seen.research \in Researches /\ Clear(seen.research.entities)
    BY <1>1, <1>2, KeptFacts DEF Recalls
  <2>5. next.seen = seen /\ next.report = report /\ next.message = local.message
        /\ next.draft = local.draft
    BY <1>1 DEF Idle
  <2> HIDE DEF applied, next, report, seen, local
  <2>6. /\ report.task \in Tasks("ready") /\ Clear(report.task.assets)
        /\ Found(report.task, local.message, local.draft)
    BY <1>1, <1>2, <2>3, <2>4, InheritedTask, InheritAims
  <2>7. applied.task = report.task /\ Clear(applied.entities)
    <3>1. report.task.assets \in Seq(STRING)
      BY <2>6 DEF Tasks
    <3> QED BY <2>4, <2>6, <3>1, AppliedCoins DEF applied
  <2>8. Recalls(context')
    BY <1>1, <1>2, <2>2, <2>6, <2>7, RecallsMore
  <2>9. TurnAims("begin", next)
    BY <1>2, <2>5, <2>6 DEF TurnAims
  <2> QED BY <1>3, <2>1, <2>8, <2>9, AimsGoOn DEF Aiming
<1> QED BY <1>4, <1>5

LEMMA BeginAims ==
  ASSUME Typing, Aiming, NEW p \in Web, Begin(p)
  PROVE  Aiming'
<1> DEFINE local == mine[p]
           held == Held(p)
           run == [stage |-> "queued", seen |-> Empty, held |-> held]
<1>1. Found(local.report.task, local.message, local.draft)
  BY DEF Aiming, TurnAims, Begin
<1>2. held.task = local.report.task /\ held.message = local.message /\ held.draft = local.draft
  BY DEF Held
<1>3. runs' = Append(runs, run) /\ Leave(p) /\ UNCHANGED context
  BY DEF Begin
<1> HIDE DEF held
<1>4. run.seen = Empty /\ run.held = held
  OBVIOUS
<1> HIDE DEF run
<1>5. RunAims(run)
  BY <1>1, <1>2, <1>4, EmptyRecalls DEF RunAims
<1>6. IsSequence(runs) /\ \A r \in DOMAIN runs : RunAims(runs[r])
  BY DEF Typing, Aiming
<1>7. \A r \in DOMAIN runs' : RunAims(runs'[r])
  BY <1>3, <1>5, <1>6, AppendedItems
<1> QED BY <1>3, <1>7, AimsLeave DEF Aiming

LEMMA RunsAim ==
  ASSUME Typing, Aiming, NEW r \in DOMAIN runs, NEW stage, NEW seen, Recalls(seen),
         runs' = [runs EXCEPT ![r].stage = stage, ![r].seen = seen]
  PROVE  \A q \in DOMAIN runs' : RunAims(runs'[q])
<1> DEFINE run == [runs[r] EXCEPT !.stage = stage, !.seen = seen]
<1>1. DOMAIN runs' = DOMAIN runs /\ runs'[r] = run
      /\ \A q \in DOMAIN runs : q # r => runs'[q] = runs[q]
  OBVIOUS
<1>2. DOMAIN runs[r] = {"stage", "seen", "held"}
  BY DEF Typing, RunTyped
<1>3. run.seen = seen /\ run.held = runs[r].held
  BY <1>2
<1> HIDE DEF run
<1>4. RunAims(run)
  BY <1>3 DEF RunAims, Aiming
<1> QED BY <1>1, <1>4 DEF Aiming

LEMMA StartRunAims ==
  ASSUME Typing, Aiming, NEW r \in DOMAIN runs, StartRun(r)
  PROVE  Aiming'
<1>1. /\ runs' = [runs EXCEPT ![r].stage = "running", ![r].seen = context]
      /\ UNCHANGED <<context, pc, mine>>
  BY DEF StartRun
<1>2. Recalls(context)
  BY DEF Aiming
<1>3. \A q \in DOMAIN runs' : RunAims(runs'[q])
  BY <1>1, <1>2, RunsAim
<1> QED BY <1>1, <1>2, <1>3 DEF Aiming

LEMMA EndRunAims ==
  ASSUME Typing, Aiming, NEW r \in DOMAIN runs, EndRun(r)
  PROVE  Aiming'
<1> DEFINE seen == runs[r].seen
<1>1. /\ runs' = [runs EXCEPT ![r].stage = "done", ![r].seen = Empty]
      /\ context' = [seen EXCEPT !.findings = RememberFinding(@, r)]
      /\ UNCHANGED <<pc, mine>>
  BY DEF EndRun, Write
<1>2. \A q \in DOMAIN runs' : RunAims(runs'[q])
  BY <1>1, EmptyRecalls, RunsAim
<1>3. seen \in Kept /\ Recalls(seen)
  BY DEF Typing, RunTyped, Aiming, RunAims
<1> HIDE DEF seen
<1>4. Recalls(context')
  BY <1>1, <1>3, RecallsMore
<1> QED BY <1>1, <1>2, <1>4 DEF Aiming

\* NamedCoinsAreResearched: a message that names coins, or answers a question
\* about some, is never researched for others only, whoever read it and
\* whatever the conversation was about, unless its words go on with the research
\* at hand. MessagesAim says how what the code finds in a text fits together.
THEOREM NamedCoinsAreSought ==
  ASSUME MessagesAim, ReadingsAreAsked
  PROVE  Spec => []NamedCoinsAreResearched
<1>1. Init => Typing /\ Aiming
  <2> SUFFICES ASSUME Init PROVE Typing /\ Aiming
    OBVIOUS
  <2>1. Typing
    BY InitTyped
  <2>2. Recalls(context) /\ runs = <<>> /\ \A p \in Web : pc[p] = "idle" /\ mine[p] = Idle
    BY EmptyRecalls DEF Init
  <2>3. \A p \in Web : TurnAims(pc[p], mine[p])
    BY <2>2, IdleAims
  <2>4. DOMAIN runs = {}
    BY <2>2
  <2> QED BY <2>1, <2>2, <2>3, <2>4 DEF Aiming
<1>2. Typing /\ Aiming /\ [Next]_vars => (Typing /\ Aiming)'
  <2> SUFFICES ASSUME Typing, Aiming, [Next]_vars PROVE Typing' /\ Aiming'
    OBVIOUS
  <2>1. Typing'
    BY NextTyped
  <2>2. CASE UNCHANGED vars
    BY <2>1, <2>2 DEF vars, Aiming
  <2>3. ASSUME NEW p \in Web, Receive(p) PROVE Aiming'
    BY <2>3, ReceiveAims
  <2>4. ASSUME NEW p \in Web, Read(p) PROVE Aiming'
    BY <2>4, ReadAims
  <2>5. ASSUME NEW p \in Web, KeepWatching(p) PROVE Aiming'
    BY <2>5, KeepAims
  <2>6. ASSUME NEW p \in Web, Plan(p) PROVE Aiming'
    BY <2>6, PlanAims
  <2>7. ASSUME NEW p \in Web, Begin(p) PROVE Aiming'
    BY <2>7, BeginAims
  <2>8. ASSUME NEW r \in DOMAIN runs, StartRun(r) PROVE Aiming'
    BY <2>8, StartRunAims
  <2>9. ASSUME NEW r \in DOMAIN runs, EndRun(r) PROVE Aiming'
    BY <2>9, EndRunAims
  <2> QED BY <2>1, <2>2, <2>3, <2>4, <2>5, <2>6, <2>7, <2>8, <2>9 DEF Next
<1>3. Aiming => NamedCoinsAreResearched
  <2> SUFFICES ASSUME Aiming, NEW r \in DOMAIN runs
               PROVE  Found(runs[r].held.task, runs[r].held.message, runs[r].held.draft)
    BY DEF NamedCoinsAreResearched, Found
  <2> QED BY DEF Aiming, RunAims
<1> QED BY <1>1, <1>2, <1>3, PTL DEF Spec


-----------------------------------------------------------------------------
(* The capabilities of a task *)

\* Capabilities there are, and a history never alone.
Capable(caps) ==
  /\ IsSequence(caps) /\ ToSet(caps) \subseteq CapabilityNames
  /\ ToSet(caps) # {"historical"}

LEMMA NoCapabilities == Capable(<<>>)
<1>1. IsSequence(<<>>) /\ ToSet(<<>>) = {}
  BY PairIsSequence
<1>2. {} # {"historical"}
  OBVIOUS
<1> QED BY <1>1, <1>2 DEF Capable

\* The capabilities that the code names itself.
LEMMA PhrasesAreCapable ==
  ASSUME NEW a \in CapabilityNames, a # "historical", NEW b \in CapabilityNames
  PROVE  Capable(<<a>>) /\ Capable(<<a, b>>) /\ Capable(<<b, a>>)
<1>1. /\ IsSequence(<<a>>) /\ ToSet(<<a>>) = {a}
      /\ IsSequence(<<a, b>>) /\ ToSet(<<a, b>>) = {a, b}
      /\ IsSequence(<<b, a>>) /\ ToSet(<<b, a>>) = {b, a}
  BY PairIsSequence
<1>2. ASSUME NEW caps, IsSequence(caps), ToSet(caps) \subseteq {a, b}, a \in ToSet(caps)
      PROVE  Capable(caps)
  BY <1>2 DEF Capable
<1> QED BY <1>1, <1>2

LEMMA ThreeAreCapable ==
  ASSUME NEW a \in CapabilityNames, a # "historical", NEW b \in CapabilityNames,
         NEW c \in CapabilityNames
  PROVE  Capable(<<a, b, c>>)
<1>1. <<a, b, c>> \in Seq(CapabilityNames)
  OBVIOUS
<1>2. IsSequence(<<a, b, c>>)
  BY <1>1, TextSequence
<1>3. ToSet(<<a, b, c>>) = {a, b, c}
  BY DEF ToSet
<1> QED BY <1>2, <1>3 DEF Capable

\* Nothing that is added to capabilities with the market leaves a history alone.
LEMMA JoinedAreCapable ==
  ASSUME NEW caps, Capable(caps), NEW more, Capable(more),
         more = <<>> \/ "market" \in ToSet(more)
  PROVE  Capable(Unique(caps \o more)) /\ Capable(Unique(more \o caps))
<1>1. IsSequence(caps) /\ IsSequence(more)
  BY DEF Capable
<1>2. /\ IsSequence(caps \o more) /\ ToSet(caps \o more) = ToSet(caps) \cup ToSet(more)
      /\ IsSequence(more \o caps) /\ ToSet(more \o caps) = ToSet(caps) \cup ToSet(more)
  BY <1>1, ConcatFacts
<1>3. /\ IsSequence(Unique(caps \o more)) /\ IsSequence(Unique(more \o caps))
      /\ ToSet(Unique(caps \o more)) = ToSet(caps) \cup ToSet(more)
      /\ ToSet(Unique(more \o caps)) = ToSet(caps) \cup ToSet(more)
  BY <1>2, UniqueSequence, UniqueItems
<1>4. /\ ToSet(caps) \cup ToSet(more) \subseteq CapabilityNames
      /\ ToSet(caps) \cup ToSet(more) # {"historical"}
  <2>1. ToSet(<<>>) = {}
    BY PairIsSequence
  <2> QED BY <2>1 DEF Capable
<1> QED BY <1>3, <1>4 DEF Capable


LEMMA WrittenCapabilities ==
  /\ Capable(<<>>) /\ Capable(<<"market">>)
  /\ Capable(<<"market", "regime">>) /\ Capable(<<"regime", "market">>)
  /\ Capable(<<"market", "discovery">>) /\ Capable(<<"discovery", "market">>)
  /\ Capable(<<"historical", "market">>) /\ "market" \in ToSet(<<"historical", "market">>)
  /\ Capable(<<"anomaly", "market">>) /\ "market" \in ToSet(<<"anomaly", "market">>)
  /\ Capable(<<"reaction", "market", "anomaly">>) /\ Capable(<<"anomaly", "market", "reaction">>)
<1>1. {"market", "anomaly", "reaction", "historical", "discovery", "regime"} = CapabilityNames
  BY DEF CapabilityNames
<1>2. ASSUME NEW b \in CapabilityNames
      PROVE  /\ Capable(<<"market">>) /\ Capable(<<"market", b>>) /\ Capable(<<b, "market">>)
             /\ "market" \in ToSet(<<b, "market">>)
  <2>1. ToSet(<<b, "market">>) = {b, "market"}
    BY PairIsSequence
  <2> QED BY <1>1, <2>1, PhrasesAreCapable
<1>3. Capable(<<"reaction", "market", "anomaly">>) /\ Capable(<<"anomaly", "market", "reaction">>)
  BY <1>1, ThreeAreCapable
<1> QED BY <1>1, <1>2, <1>3, NoCapabilities

LEMMA ReadyIsCapable ==
  ASSUME NEW message, NEW given, DOMAIN given \subseteq DOMAIN Research,
         "caps" \in DOMAIN given => Capable(given.caps)
  PROVE  Capable(Ready(message, given).caps)
<1> DEFINE filled == Filled(given, Research)
<1>1. {"caps", "said"} \subseteq DOMAIN Research /\ Research.caps = <<"market">>
  BY DEF Research
<1>2. Capable(Research.caps)
  BY <1>1, WrittenCapabilities
<1>3. DOMAIN filled = DOMAIN Research /\ Capable(filled.caps)
  BY <1>1, <1>2 DEF Filled
<1>4. Ready(message, given) = [filled EXCEPT !.said = Said(message)]
  BY DEF Ready
<1> HIDE DEF Research, filled
<1> QED BY <1>1, <1>3, <1>4

LEMMA AskIsCapable ==
  ASSUME NEW message, NEW field, NEW assets
  PROVE  Capable(Ask(message, field, assets).caps)
<1> DEFINE given == [status |-> "needs_input", field |-> field, assets |-> assets, caps |-> <<>>]
<1>1. DOMAIN given \subseteq DOMAIN Research /\ given.caps = <<>>
  BY DEF Research
<1>2. Ask(message, field, assets) = Ready(message, given)
  BY DEF Ask
<1> HIDE DEF given, Research
<1> QED BY <1>1, <1>2, ReadyIsCapable, NoCapabilities

LEMMA HeuristicIsCapable ==
  ASSUME NEW message
  PROVE  Capable(UnderstandHeuristic(message).caps)
<1> DEFINE assets == message.assets
           Good(task) == Capable(task.caps)
           Gives(given) == /\ DOMAIN given \subseteq DOMAIN Research
                           /\ "caps" \in DOMAIN given => Capable(given.caps)
<1>1. \A given : Gives(given) => Good(Ready(message, given))
  BY ReadyIsCapable
<1>2. \A field, list : Good(Ask(message, field, list))
  BY AskIsCapable
<1>3. \A type : Gives([type |-> type, assets |-> assets])
  BY DEF Research
<1>4. \A action, caps : Capable(caps) => Gives(Wide(action, caps))
  BY DEF Research, Wide
<1>5. \A mode, type, action, caps :
        Capable(caps) =>
          Gives(Filled([mode |-> mode, type |-> type, assets |-> assets], Wide(action, caps)))
  BY DEF Research, Wide, Filled
<1>6. Gives(ReactionTask(message, message.mover))
  BY WrittenCapabilities DEF Research, ReactionTask
<1>7. \A window : Gives(History(assets, window))
  BY WrittenCapabilities DEF Research, History
<1>8. \A action : Gives(Ranking(message, action))
  BY WrittenCapabilities DEF Research, Ranking
<1>9. \A list : Gives(Quote(list))
  BY DEF Research, Quote
<1>10. Gives([assets |-> assets, universe |-> "top", caps |-> <<"discovery", "market">>])
  BY WrittenCapabilities DEF Research
<1>11. Gives(UnusualTask(message))
  BY WrittenCapabilities DEF Research, UnusualTask
<1>12. Gives(StandingWatch(message))
  BY WrittenCapabilities DEF Research, StandingWatch, Filled
<1>13. \A task, universe, limit, caps :
         "caps" \in DOMAIN task /\ Capable(caps) =>
           Good([task EXCEPT !.universe = universe, !.limit = limit, !.caps = caps])
  OBVIOUS
<1>14. \A field, list : "caps" \in DOMAIN Ask(message, field, list)
  BY DEF Ask, Ready, Filled, Research
<1> HIDE DEF Good, Gives
<1>15. Good([Ask(message, "ranking", <<>>) EXCEPT !.universe = "top",
               !.limit = ListingLimit(message), !.caps = <<"market", "discovery">>])
  BY <1>13, <1>14, WrittenCapabilities
<1>16. Capable(<<"market", "regime">>) /\ Capable(<<"regime", "market">>)
  BY WrittenCapabilities
<1> HIDE DEF Capable
<1>17. Good(UnderstandHeuristic(message))
  BY <1>1, <1>2, <1>3, <1>4, <1>5, <1>6, <1>7, <1>8, <1>9, <1>10, <1>11, <1>12, <1>15, <1>16
     DEF UnderstandHeuristic
<1> QED BY <1>17 DEF Good


LEMMA HistoryIsCapable ==
  ASSUME NEW task, "caps" \in DOMAIN task, Capable(task.caps)
  PROVE  Capable(WithHistory(task).caps)
<1> DEFINE caps == Unique(<<"historical", "market">> \o task.caps)
<1>1. WithHistory(task) = [task EXCEPT !.caps = caps]
  BY DEF WithHistory
<1>2. Capable(caps)
  BY WrittenCapabilities, JoinedAreCapable
<1> HIDE DEF caps
<1> QED BY <1>1, <1>2

\* A short message goes on with the capabilities of the research at hand.
LEMMA FollowUpIsCapable ==
  ASSUME NEW message, NEW research,
         research.task = None \/ (IsTask(research.task) /\ Capable(research.task.caps)),
         FollowUp(message, research) # None
  PROVE  Capable(FollowUp(message, research).caps)
<1> DEFINE base == [research.task EXCEPT !.follow = TRUE, !.status = "ready", !.field = "",
                                         !.said = Said(message)]
           window == Else(base.window, research.timeframe)
           coins == IF message.assets # <<>> THEN message.assets ELSE base.assets
           those == IF coins = <<>> THEN research.entities ELSE coins
           one   == <<message.named>>
           added == IF message.named = "" THEN base.assets
                    ELSE Unique(Append(base.assets, message.named))
           held  == IF research.entities = <<>> THEN Stay(base, "follow_up").assets
                    ELSE research.entities
           caps  == Unique(base.caps \o <<"anomaly", "market">>)
           long  == Else(window, "30d")
           Has(cue) == cue \in message.cues
           task  == FollowUp(message, research)
<1>1. research.task # None
  BY DEF FollowUp
<1>2. /\ {"assets", "status", "field", "window", "caps", "action", "limit", "universe"}
           \subseteq DOMAIN base
      /\ base.caps = research.task.caps
  BY <1>1 DEF IsTask, Research
<1>3. Capable(base.caps) /\ Capable(caps)
  <2>1. Capable(base.caps)
    BY <1>1, <1>2
  <2> HIDE DEF base
  <2> QED BY <2>1, WrittenCapabilities, JoinedAreCapable
<1> DEFINE First == \/ Has("correction") \/ Has("add") \/ Has("same")
                    \/ message.window # "" /\ message.assets = <<>>
<1>4. First =>
        \/ task = [base EXCEPT !.assets = one]
        \/ task = [base EXCEPT !.assets = added]
        \/ task = WithHistory([base EXCEPT !.window = message.window])
        \/ task = Stay(base, "window")
        \/ task = [base EXCEPT !.window = window]
  BY <1>1 DEF FollowUp
<1>5. ~First =>
        \/ task = [base EXCEPT !.assets = those, !.caps = caps, !.action = "report"]
        \/ task = WithHistory([base EXCEPT !.window = long])
        \/ task = [base EXCEPT !.limit = message.limit, !.universe = "top"]
        \/ task = Stay(base, "follow_up")
        \/ task = [base EXCEPT !.assets = one, !.window = window]
        \/ task = WithHistory([base EXCEPT !.assets = one, !.window = window])
        \/ task = [Stay(base, "follow_up") EXCEPT !.assets = held]
  BY <1>1 DEF FollowUp
<1> HIDE DEF base, window, those, one, added, held, caps, long, task, First
<1>6. \A list, other :
        /\ [base EXCEPT !.assets = list].caps = base.caps
        /\ [base EXCEPT !.window = other].caps = base.caps
        /\ "caps" \in DOMAIN [base EXCEPT !.window = other]
        /\ [base EXCEPT !.assets = list, !.window = other].caps = base.caps
        /\ "caps" \in DOMAIN [base EXCEPT !.assets = list, !.window = other]
  BY <1>2
<1>7. [base EXCEPT !.limit = message.limit, !.universe = "top"].caps = base.caps
  BY <1>2
<1>8. \A field, list : /\ Stay(base, field).caps = base.caps
                       /\ [Stay(base, field) EXCEPT !.assets = list].caps = base.caps
  BY <1>2 DEF Stay
<1>9. [base EXCEPT !.assets = those, !.caps = caps, !.action = "report"].caps = caps
  BY <1>2
<1>10. \A list, other :
         /\ Capable(WithHistory([base EXCEPT !.window = other]).caps)
         /\ Capable(WithHistory([base EXCEPT !.assets = list, !.window = other]).caps)
  <2>1. \A t : "caps" \in DOMAIN t /\ Capable(t.caps) => Capable(WithHistory(t).caps)
    BY HistoryIsCapable
  <2> TAKE list, other
  <2> PICK dated : dated = [base EXCEPT !.window = other]
    OBVIOUS
  <2> PICK turned : turned = [base EXCEPT !.assets = list, !.window = other]
    OBVIOUS
  <2>2. /\ "caps" \in DOMAIN dated /\ dated.caps = base.caps
        /\ "caps" \in DOMAIN turned /\ turned.caps = base.caps
    BY <1>6
  <2>3. Capable(WithHistory(dated).caps) /\ Capable(WithHistory(turned).caps)
    BY <1>3, <2>1, <2>2
  <2> QED BY <2>3
<1> DEFINE Good(t) == Capable(t.caps)
<1>11. /\ Good([base EXCEPT !.assets = one]) /\ Good([base EXCEPT !.assets = added])
       /\ Good([base EXCEPT !.window = window]) /\ Good(Stay(base, "window"))
       /\ Good(WithHistory([base EXCEPT !.window = message.window]))
  BY <1>3, <1>6, <1>8, <1>10
<1>12. /\ Good([base EXCEPT !.assets = those, !.caps = caps, !.action = "report"])
       /\ Good(WithHistory([base EXCEPT !.window = long]))
       /\ Good([base EXCEPT !.limit = message.limit, !.universe = "top"])
       /\ Good(Stay(base, "follow_up"))
       /\ Good([base EXCEPT !.assets = one, !.window = window])
       /\ Good(WithHistory([base EXCEPT !.assets = one, !.window = window]))
       /\ Good([Stay(base, "follow_up") EXCEPT !.assets = held])
  BY <1>3, <1>6, <1>7, <1>8, <1>9, <1>10
<1> HIDE DEF Good
<1>13. First => Good(task)
  BY <1>4, <1>11
<1>14. ~First => Good(task)
  BY <1>5, <1>12
<1> QED BY <1>13, <1>14 DEF Good, task

LEMMA LockedIsCapable ==
  ASSUME NEW message, NEW task, Capable(task.caps)
  PROVE  Capable(LockReactionTurn(message, task).caps)
<1>1. CASE "reaction" \notin message.cues
  BY <1>1 DEF LockReactionTurn
<1>2. CASE "reaction" \in message.cues
  <2> DEFINE read == IF task.status = "ready" /\ task.type = "watch_plus_investigate" THEN task
                     ELSE UnderstandHeuristic(message)
             coin == IF message.mover = "" THEN <<>> ELSE <<message.mover>>
             given == [ReactionTask(message, message.mover) EXCEPT !.assets = coin,
                         !.limit = IF message.limit = 0 /\ read.limit # 0 THEN read.limit ELSE @]
             rest == [read EXCEPT !.status = "ready", !.said = Said(message)]
  <2>1. LockReactionTurn(message, task) = Filled(given, rest)
    BY <1>2 DEF LockReactionTurn
  <2>2. "caps" \in DOMAIN given /\ given.caps = <<"reaction", "market", "anomaly">>
    BY DEF ReactionTask
  <2> HIDE DEF given, rest
  <2>3. Filled(given, rest).caps = <<"reaction", "market", "anomaly">>
    BY <2>2 DEF Filled
  <2> QED BY <2>1, <2>3, WrittenCapabilities
<1> QED BY <1>1, <1>2


LEMMA FinishedIsCapable ==
  ASSUME NEW draft, IsTask(draft), NEW message
  PROVE  Capable(FinishWork(draft, message).caps)
<1> DEFINE named == [draft EXCEPT !.status = "ready", !.mode = "work", !.field = "",
                                  !.said = @ \cup Said(message)]
           ranked == IF draft.universe = ""
                     THEN [named EXCEPT !.universe = "top",
                             !.limit = IF @ = 0 THEN DefaultLimit ELSE @] ELSE named
           task == FinishWork(draft, message)
           watched == [ranked EXCEPT !.type = "watch_plus_investigate",
                                     !.caps = <<"reaction", "market", "anomaly">>]
           kept == [named EXCEPT !.type = "persistent_monitor", !.caps = <<"anomaly", "market">>,
                                 !.action = Else(@, "notify")]
<1>1. {"type", "caps", "action"} \subseteq DOMAIN draft
  BY DEF IsTask, Research
<1>2. DOMAIN named = DOMAIN draft /\ DOMAIN ranked = DOMAIN draft
  OBVIOUS
<1>3. task = watched \/ task = kept
  BY DEF FinishWork
<1> HIDE DEF named, ranked, task
<1>4. /\ watched.caps = <<"reaction", "market", "anomaly">>
      /\ kept.caps = <<"anomaly", "market">>
  BY <1>1, <1>2
<1> HIDE DEF watched, kept
<1>5. Capable(watched.caps) /\ Capable(kept.caps)
  BY <1>4, WrittenCapabilities
<1>6. Capable(task.caps)
  BY <1>3, <1>5
<1> QED BY <1>6 DEF task

LEMMA AnswerIsCapable ==
  ASSUME NEW message, NEW draft, IsTask(draft), Capable(draft.caps)
  PROVE  Capable(MergeAnswerHeuristic(message, draft).caps)
<1> DEFINE task == MergeAnswerHeuristic(message, draft)
           asset == IF draft.assets = <<>> THEN "" ELSE Head(draft.assets)
           bounded == [draft EXCEPT !.conds = ParseUnusual(message, asset)]
<1>1. {"conds", "action", "status", "field", "caps"} \subseteq DOMAIN draft
  BY DEF IsTask, Research
<1>2. IsTask(bounded) /\ bounded.caps = draft.caps /\ DOMAIN bounded = DOMAIN draft
  BY <1>1 DEF IsTask
<1>3. \A action : IsTask([bounded EXCEPT !.action = action])
                  /\ IsTask([draft EXCEPT !.action = action])
  BY <1>2 DEF IsTask
<1>4. \/ task = Ask(message, "subject", <<>>)
      \/ task = [draft EXCEPT !.field = "unusual_definition"]
      \/ task = [bounded EXCEPT !.status = "needs_input", !.field = "action"]
      \/ task = UnderstandHeuristic(message)
      \/ \E work : IsTask(work) /\ task = FinishWork(work, message)
  <2>1. ASSUME draft.field \in {"unusual_definition", ""}
        PROVE  \/ task = Ask(message, "subject", <<>>)
               \/ task = [draft EXCEPT !.field = "unusual_definition"]
               \/ task = FinishWork(bounded, message)
               \/ \E action : task = FinishWork([bounded EXCEPT !.action = action], message)
               \/ task = [bounded EXCEPT !.status = "needs_input", !.field = "action"]
    <3>1. task = MergeUnusual(message, draft)
      BY <2>1 DEF MergeAnswerHeuristic
    <3> HIDE DEF task
    <3> QED BY <3>1 DEF MergeUnusual
  <2>2. ASSUME draft.field = "action"
        PROVE  \E action : task = FinishWork([draft EXCEPT !.action = action], message)
    BY <2>2 DEF MergeAnswerHeuristic
  <2>3. ASSUME draft.field \notin {"unusual_definition", "", "action"}
        PROVE  task = UnderstandHeuristic(message)
    BY <2>3 DEF MergeAnswerHeuristic
  <2> HIDE DEF task, bounded
  <2> QED BY <1>2, <1>3, <2>1, <2>2, <2>3
<1> HIDE DEF task, bounded
<1>5. /\ [draft EXCEPT !.field = "unusual_definition"].caps = draft.caps
      /\ [bounded EXCEPT !.status = "needs_input", !.field = "action"].caps = draft.caps
  BY <1>1, <1>2
<1>6. \A work : IsTask(work) => Capable(FinishWork(work, message).caps)
  BY FinishedIsCapable
<1>7. Capable(task.caps)
  BY <1>4, <1>5, <1>6, AskIsCapable, HeuristicIsCapable, Zenon
<1> QED BY <1>7 DEF task

\* A model that names capabilities names those there are.
LEMMA ModelIsCapable ==
  ASSUME NEW message, NEW answer, IsTask(answer), Capable(answer.caps)
  PROVE  LET task == TaskFromModel(message, answer)
         IN IsTask(task) /\ Capable(task.caps)
<1> DEFINE window == Else(message.window, answer.window)
           own  == ModelCapabilities(answer, window)
           more == IF message.window = "" THEN <<>> ELSE <<"historical", "market">>
           caps == Unique(own \o more)
           task == TaskFromModel(message, answer)
<1>1. {"assets", "follow", "caps", "said", "window", "conds"} \subseteq DOMAIN answer
  BY DEF IsTask, Research
<1>2. task.caps = caps /\ DOMAIN task = DOMAIN answer
  BY <1>1 DEF TaskFromModel
<1>3. Capable(own)
  BY WrittenCapabilities DEF ModelCapabilities
<1>4. Capable(more) /\ (more = <<>> \/ "market" \in ToSet(more))
  BY WrittenCapabilities
<1> HIDE DEF own, more
<1>5. Capable(caps)
  BY <1>3, <1>4, JoinedAreCapable
<1> HIDE DEF task, caps
<1> QED BY <1>2, <1>5 DEF IsTask, task

LEMMA ModelUnderstandsCapably ==
  ASSUME NEW message, NEW answer, answer # Broken => IsTask(answer) /\ Capable(answer.caps)
  PROVE  Capable(UnderstandModel(message, answer).caps)
<1> DEFINE task == IF answer = Broken THEN Broken ELSE TaskFromModel(message, answer)
           read == IF "reaction" \in message.cues THEN UnderstandHeuristic(message)
                   ELSE Ask(message, "subject", <<>>)
           understood == UnderstandModel(message, answer)
<1>1. CASE task = Broken
  <2>1. understood = LockReactionTurn(message, read)
    BY <1>1 DEF UnderstandModel
  <2>2. Capable(read.caps)
    BY AskIsCapable, HeuristicIsCapable
  <2> HIDE DEF read
  <2> QED BY <2>1, <2>2, LockedIsCapable
<1>2. CASE task # Broken
  <2>1. IsTask(task) /\ Capable(task.caps)
    BY <1>2, ModelIsCapable
  <2>2. \/ understood = [task EXCEPT !.field = Else(task.field, "unusual_definition")]
        \/ understood = [task EXCEPT !.status = "needs_input"]
        \/ understood = [task EXCEPT !.status = "ready"]
    BY <1>2 DEF UnderstandModel
  <2> HIDE DEF task, understood
  <2>3. /\ [task EXCEPT !.field = Else(task.field, "unusual_definition")].caps = task.caps
        /\ [task EXCEPT !.status = "needs_input"].caps = task.caps
        /\ [task EXCEPT !.status = "ready"].caps = task.caps
    BY <2>1 DEF IsTask, Research
  <2>4. understood.caps = task.caps
    BY <2>2, <2>3, Zenon
  <2> QED BY <2>1, <2>4 DEF understood
<1> QED BY <1>1, <1>2

LEMMA ModelMergesCapably ==
  ASSUME NEW message, NEW draft, NEW answer,
         answer # Broken => IsTask(answer) /\ Capable(answer.caps)
  PROVE  Capable(MergeAnswerModel(message, draft, answer).caps)
<1>1. CASE answer = Broken
  BY <1>1, AskIsCapable DEF MergeAnswerModel
<1>2. CASE answer # Broken
  <2> DEFINE wider == [message EXCEPT !.assets = Unique(draft.assets \o @)]
             read == TaskFromModel(wider, answer)
             task == [read EXCEPT !.said = draft.said \cup Said(message)]
             merged == MergeAnswerModel(message, draft, answer)
  <2>1. \/ merged = [task EXCEPT !.field = Else(task.field, draft.field)]
        \/ merged = [task EXCEPT !.status = "ready", !.field = "",
                       !.conds = IF task.conds = <<>> THEN draft.conds ELSE task.conds]
    BY <1>2 DEF MergeAnswerModel
  <2> HIDE DEF wider, merged
  <2>2. IsTask(read) /\ Capable(read.caps)
    BY <1>2, ModelIsCapable
  <2> HIDE DEF read
  <2>3. task.caps = read.caps /\ {"caps", "field", "status", "conds"} \subseteq DOMAIN task
    BY <2>2 DEF IsTask, Research
  <2> HIDE DEF task
  <2>4. /\ [task EXCEPT !.field = Else(task.field, draft.field)].caps = task.caps
        /\ [task EXCEPT !.status = "ready", !.field = "",
              !.conds = IF task.conds = <<>> THEN draft.conds ELSE task.conds].caps = task.caps
    BY <2>3
  <2>5. merged.caps = task.caps
    BY <2>1, <2>4, Zenon
  <2> QED BY <2>2, <2>3, <2>5 DEF merged
<1> QED BY <1>1, <1>2

\* Whatever a message says and whoever reads it, the task names capabilities
\* there are, if the model, the question and the research at hand do.
LEMMA UnderstoodIsCapable ==
  ASSUME NEW message, NEW pending, pending # None => IsTask(pending) /\ Capable(pending.caps),
         NEW research,
         research.task = None \/ (IsTask(research.task) /\ Capable(research.task.caps)),
         NEW reading, reading \notin {None, Broken} => IsTask(reading) /\ Capable(reading.caps)
  PROVE  Capable(Understand(message, pending, research, reading).caps)
<1> DEFINE task == Understand(message, pending, research, reading)
           followed == FollowUp(message, research)
           read == IF followed = None THEN UnderstandHeuristic(message) ELSE followed
<1>1. CASE pending # None /\ reading = None
  BY <1>1, AnswerIsCapable DEF Understand
<1>2. CASE pending # None /\ reading # None
  BY <1>2, ModelMergesCapably DEF Understand
<1>3. CASE pending = None /\ reading # None
  BY <1>3, ModelUnderstandsCapably DEF Understand
<1>4. CASE pending = None /\ reading = None
  <2>1. task \in {read, LockReactionTurn(message, read)}
    BY <1>4, ReadAlone
  <2>2. Capable(read.caps)
    BY HeuristicIsCapable, FollowUpIsCapable
  <2> HIDE DEF read, task
  <2>3. Capable(task.caps)
    BY <2>1, <2>2, LockedIsCapable
  <2> QED BY <2>3 DEF task
<1> QED BY <1>1, <1>2, <1>3, <1>4


LEMMA StandingIsCapable ==
  ASSUME NEW task, IsTask(task), Capable(task.caps)
  PROVE  Capable(Standing(task).caps)
<1> DEFINE more == Unique(task.caps \o <<"anomaly", "market">>)
           caps == IF Contains(task.caps, "anomaly") \/ Contains(task.caps, "reaction")
                   THEN task.caps ELSE more
<1>1. Standing(task).caps = caps
  BY DEF Standing, IsTask, Research
<1>2. Capable(more)
  BY WrittenCapabilities, JoinedAreCapable
<1> HIDE DEF more
<1> QED BY <1>1, <1>2

-----------------------------------------------------------------------------
(* The plan of a turn *)

\* What is remembered names capabilities there are.
Recollects(seen) ==
  /\ seen.pending # None => Capable(seen.pending.caps)
  /\ seen.research.task # None => Capable(seen.research.task.caps)

TurnIsCapable(label, local) ==
  /\ Recollects(local.seen)
  /\ label = "read" /\ local.reading \notin {None, Broken} => Capable(local.reading.caps)
  /\ label = "plan" => Capable(local.task.caps)

\* The inductive invariant: every task on its way, and every one remembered,
\* names capabilities there are.
Naming ==
  /\ Recollects(context)
  /\ \A p \in Web : TurnIsCapable(pc[p], mine[p])
  /\ \A r \in DOMAIN runs : Recollects(runs[r].seen)

\* No turn is lost to the validators of its own plan.
NoPlanIsRefused ==
  \A p \in Web : pc[p] = "plan" => Compile(mine[p].task, mine[p].seen.research).plan.accepted

LEMMA EmptyRecollects == Recollects(Empty)
<1>1. Empty.pending = None /\ Empty.research.task = None
  BY DEF Empty, NoContext
<1> QED BY <1>1, Zenon DEF Recollects

LEMMA IdleIsCapable == TurnIsCapable("idle", Idle)
<1>1. Idle.seen = Empty
  BY DEF Idle
<1> QED BY <1>1, EmptyRecollects DEF TurnIsCapable

LEMMA CapableGoOn ==
  ASSUME Typing, Naming, NEW p \in Web, NEW label, NEW local, Goto(p, label, local),
         TurnIsCapable(label, local)
  PROVE  \A q \in Web : TurnIsCapable(pc'[q], mine'[q])
<1>1. /\ pc'[p] = label /\ mine'[p] = local
      /\ \A q \in Web : q # p => pc'[q] = pc[q] /\ mine'[q] = mine[q]
  BY DEF Goto, Typing
<1> QED BY <1>1 DEF Naming

LEMMA CapableLeave ==
  ASSUME Typing, Naming, NEW p \in Web, Leave(p)
  PROVE  \A q \in Web : TurnIsCapable(pc'[q], mine'[q])
BY CapableGoOn, IdleIsCapable DEF Leave

LEMMA RecollectsMore ==
  ASSUME NEW seen \in Kept, Recollects(seen)
  PROVE  /\ \A answer : (answer # None => Capable(answer.caps)) =>
              Recollects([seen EXCEPT !.pending = answer])
         /\ \A research : (research.task # None => Capable(research.task.caps)) =>
              Recollects([seen EXCEPT !.research = research])
         /\ \A findings : Recollects([seen EXCEPT !.findings = findings])
<1>1. {"pending", "research", "findings"} \subseteq DOMAIN seen
  BY DEF Kept, Contexts
<1>2. ASSUME NEW answer, answer # None => Capable(answer.caps)
      PROVE  Recollects([seen EXCEPT !.pending = answer])
  <2> DEFINE new == [seen EXCEPT !.pending = answer]
  <2>1. new.pending = answer /\ new.research = seen.research
    BY <1>1
  <2> HIDE DEF new
  <2>2. Recollects(new)
    BY <1>2, <2>1 DEF Recollects
  <2> QED BY <2>2 DEF new
<1>3. ASSUME NEW research, research.task # None => Capable(research.task.caps)
      PROVE  Recollects([seen EXCEPT !.research = research])
  <2> DEFINE new == [seen EXCEPT !.research = research]
  <2>1. new.pending = seen.pending /\ new.research = research
    BY <1>1
  <2> HIDE DEF new
  <2>2. Recollects(new)
    BY <1>3, <2>1 DEF Recollects
  <2> QED BY <2>2 DEF new
<1>4. ASSUME NEW findings
      PROVE  Recollects([seen EXCEPT !.findings = findings])
  <2> DEFINE new == [seen EXCEPT !.findings = findings]
  <2>1. new.pending = seen.pending /\ new.research = seen.research
    BY <1>1
  <2> HIDE DEF new
  <2>2. Recollects(new)
    BY <2>1 DEF Recollects
  <2> QED BY <2>2 DEF new
<1> QED BY <1>2, <1>3, <1>4


LEMMA ReceiveIsCapable ==
  ASSUME ReadingsNameCapabilities, Typing, Naming, NEW p \in Web, Receive(p)
  PROVE  Naming'
<1> PICK m \in Messages :
      Goto(p, IF "keep watching" \in m.message.cues THEN "keep" ELSE "read",
           [Idle EXCEPT !.message = m.message, !.reading = m.reading,
                        !.seen = context, !.known = version])
  BY DEF Receive
<1> DEFINE label == IF "keep watching" \in m.message.cues THEN "keep" ELSE "read"
           local == [Idle EXCEPT !.message = m.message, !.reading = m.reading,
                                 !.seen = context, !.known = version]
<1>1. local.seen = context /\ local.reading = m.reading
  BY DEF Idle
<1>2. label \in {"keep", "read"} /\ Goto(p, label, local)
  OBVIOUS
<1> HIDE DEF label, local
<1>3. m.reading \notin {None, Broken} => Capable(m.reading.caps)
  <2> SUFFICES ASSUME m.reading \notin {None, Broken} PROVE Capable(m.reading.caps)
    OBVIOUS
  <2>1. m.reading.caps \in Seq(STRING)
    BY ConversationAssumption DEF Tasks
  <2>2. IsSequence(m.reading.caps)
    BY <2>1, TextSequence
  <2> QED BY <2>2 DEF ReadingsNameCapabilities, Capable
<1>4. Recollects(local.seen)
  BY <1>1 DEF Naming
<1>5. TurnIsCapable(label, local)
  BY <1>1, <1>2, <1>3, <1>4 DEF TurnIsCapable
<1>6. UNCHANGED <<context, runs>>
  BY DEF Receive
<1> QED BY <1>2, <1>5, <1>6, CapableGoOn DEF Naming

LEMMA ReadIsCapable ==
  ASSUME Typing, Naming, NEW p \in Web, Read(p)
  PROVE  Naming'
<1> DEFINE local == mine[p]
           seen == local.seen
           task == Understand(local.message, seen.pending, seen.research, local.reading)
           next == [local EXCEPT !.task = task, !.draft = seen.pending, !.seen.pending = None]
<1>1. /\ DOMAIN local = DOMAIN Idle /\ seen \in Kept
      /\ local.reading \in {None, Broken} \cup Task
  BY DEF Typing, TurnTyped, Read
<1>2. Recollects(seen) /\ (local.reading \notin {None, Broken} => Capable(local.reading.caps))
  BY DEF Naming, TurnIsCapable, Read
<1>3. Capable(task.caps)
  <2> HIDE DEF local, seen
  <2>1. \A t \in Task : IsTask(t)
    BY DEF Task, IsTask, Research
  <2>2. seen.pending \in {None} \cup Task /\ seen.research \in Researches
    BY <1>1, KeptFacts
  <2>3. seen.research.task \in {None} \cup Task
    BY <2>2, TaskStatus DEF Researches
  <2>4. seen.pending # None => IsTask(seen.pending) /\ Capable(seen.pending.caps)
    BY <1>2, <2>1, <2>2 DEF Recollects
  <2>5. \/ seen.research.task = None
        \/ IsTask(seen.research.task) /\ Capable(seen.research.task.caps)
    BY <1>2, <2>1, <2>3 DEF Recollects
  <2>6. local.reading \notin {None, Broken} => IsTask(local.reading) /\ Capable(local.reading.caps)
    BY <1>1, <1>2, <2>1
  <2> HIDE DEF IsTask, Capable
  <2> QED BY <2>4, <2>5, <2>6, UnderstoodIsCapable
<1>4. UNCHANGED runs
  BY DEF Read
<1>5. CASE task.status = "needs_input"
  <2>1. AskBack(p, task)
    BY <1>5 DEF Read
  <2>2. Leave(p) /\ context' = [seen EXCEPT !.pending = task]
    BY <2>1 DEF AskBack, Write
  <2> HIDE DEF local, seen, task
  <2>3. Recollects(context')
    BY <1>1, <1>2, <1>3, <2>2, RecollectsMore
  <2> QED BY <1>4, <2>2, <2>3, CapableLeave DEF Naming
<1>6. CASE task.status # "needs_input"
  <2>1. ClearPending(p) /\ Goto(p, "plan", next)
    BY <1>6 DEF Read
  <2>2. context' = context \/ context' = [seen EXCEPT !.pending = None]
    BY <2>1 DEF ClearPending, Write
  <2>3. Recollects([seen EXCEPT !.pending = None])
    BY <1>1, <1>2, RecollectsMore
  <2>4. Recollects(context')
    BY <2>2, <2>3 DEF Naming
  <2>5. {"task", "draft", "seen"} \subseteq DOMAIN local
    BY <1>1 DEF Idle
  <2>6. next.seen = [seen EXCEPT !.pending = None] /\ next.task = task
    BY <2>5
  <2> HIDE DEF next, task
  <2>7. TurnIsCapable("plan", next)
    BY <1>3, <2>3, <2>6 DEF TurnIsCapable
  <2> QED BY <1>4, <2>1, <2>4, <2>7, CapableGoOn DEF Naming
<1> QED BY <1>5, <1>6

LEMMA KeepIsCapable ==
  ASSUME Typing, Naming, NEW p \in Web, KeepWatching(p)
  PROVE  Naming'
<1> DEFINE local == mine[p]
           task == local.seen.research.task
           next == [local EXCEPT !.task = Standing(task)]
<1>1. DOMAIN local = DOMAIN Idle /\ local.seen \in Kept
  BY DEF Typing, TurnTyped
<1>2. Recollects(local.seen)
  BY DEF Naming, TurnIsCapable
<1>3. UNCHANGED <<context, runs>>
  BY DEF KeepWatching
<1>4. CASE task = None
  <2>1. Leave(p)
    BY <1>4 DEF KeepWatching
  <2> QED BY <1>3, <2>1, CapableLeave DEF Naming
<1>5. CASE task # None
  <2>1. Goto(p, "plan", next)
    BY <1>5 DEF KeepWatching
  <2>2. task \in Tasks("ready")
    BY <1>1, <1>5, KeptFacts DEF Researches
  <2>3. IsTask(task) /\ Capable(task.caps)
    BY <1>2, <1>5, <2>2 DEF Recollects, Tasks, IsTask, Research
  <2>4. next.seen = local.seen /\ next.task = Standing(task)
    BY <1>1 DEF Idle
  <2> HIDE DEF next, task
  <2>5. TurnIsCapable("plan", next)
    BY <1>2, <2>3, <2>4, StandingIsCapable DEF TurnIsCapable
  <2> QED BY <1>3, <2>1, <2>5, CapableGoOn DEF Naming
<1> QED BY <1>4, <1>5

LEMMA PlanIsCapable ==
  ASSUME Typing, Naming, NEW p \in Web, Plan(p)
  PROVE  Naming'
<1> DEFINE local == mine[p]
           seen == local.seen
           report == Compile(local.task, seen.research)
           next == [local EXCEPT !.report = report]
<1>1. DOMAIN local = DOMAIN Idle /\ seen \in Kept /\ local.task \in Tasks("ready")
  BY DEF Typing, TurnTyped, Plan
<1>2. Recollects(seen) /\ Capable(local.task.caps)
  BY DEF Naming, TurnIsCapable, Plan
<1>3. UNCHANGED runs
  BY DEF Plan
<1>4. CASE ~report.plan.accepted
  <2>1. Leave(p) /\ UNCHANGED context
    BY <1>4 DEF Plan
  <2> QED BY <1>3, <2>1, CapableLeave DEF Naming
<1>5. CASE report.plan.accepted
  <2> DEFINE applied == ApplyTask(seen.research, report.task)
  <2>1. /\ context' = [seen EXCEPT !.research = ApplyTask(@, report.task)]
        /\ Goto(p, "begin", next)
    BY <1>5 DEF Plan, Write
  <2>2. context' = [seen EXCEPT !.research = applied]
    BY <2>1
  <2>3. report.task = Inherit(local.task, seen.research)
    BY DEF Compile, CompileFromTask
  <2>4. next.seen = seen
    BY <1>1 DEF Idle
  <2>5. applied.task = report.task
    BY DEF ApplyTask
  <2> HIDE DEF applied, next, report, seen, local
  <2>6. NamesCapabilities(local.task)
    BY <1>1, <1>2 DEF NamesCapabilities, Capable, Tasks
  <2>7. Capable(report.task.caps)
    BY <2>3, <2>6, InheritedCapabilities DEF Capable
  <2>8. Recollects(context')
    BY <1>1, <1>2, <2>2, <2>5, <2>7, RecollectsMore
  <2>9. TurnIsCapable("begin", next)
    BY <1>2, <2>4 DEF TurnIsCapable
  <2> QED BY <1>3, <2>1, <2>8, <2>9, CapableGoOn DEF Naming
<1> QED BY <1>4, <1>5

LEMMA BeginIsCapable ==
  ASSUME Typing, Naming, NEW p \in Web, Begin(p)
  PROVE  Naming'
<1> DEFINE run == [stage |-> "queued", seen |-> Empty, held |-> Held(p)]
           Good(one) == Recollects(one.seen)
<1>1. runs' = Append(runs, run) /\ Leave(p) /\ UNCHANGED context
  BY DEF Begin
<1>2. Good(run)
  BY EmptyRecollects
<1>3. IsSequence(runs) /\ \A r \in DOMAIN runs : Good(runs[r])
  BY DEF Typing, Naming
<1> HIDE DEF run, Good
<1>4. \A r \in DOMAIN runs' : Good(runs'[r])
  BY <1>1, <1>2, <1>3, AppendedItems
<1> QED BY <1>1, <1>4, CapableLeave DEF Naming, Good

LEMMA RunsAreCapable ==
  ASSUME Typing, Naming, NEW r \in DOMAIN runs, NEW stage, NEW seen, Recollects(seen),
         runs' = [runs EXCEPT ![r].stage = stage, ![r].seen = seen]
  PROVE  \A q \in DOMAIN runs' : Recollects(runs'[q].seen)
<1> DEFINE run == [runs[r] EXCEPT !.stage = stage, !.seen = seen]
<1>1. DOMAIN runs' = DOMAIN runs /\ runs'[r] = run
      /\ \A q \in DOMAIN runs : q # r => runs'[q] = runs[q]
  OBVIOUS
<1>2. DOMAIN runs[r] = {"stage", "seen", "held"}
  BY DEF Typing, RunTyped
<1>3. run.seen = seen
  BY <1>2
<1> HIDE DEF run
<1> QED BY <1>1, <1>3 DEF Naming

LEMMA StartRunIsCapable ==
  ASSUME Typing, Naming, NEW r \in DOMAIN runs, StartRun(r)
  PROVE  Naming'
<1>1. /\ runs' = [runs EXCEPT ![r].stage = "running", ![r].seen = context]
      /\ UNCHANGED <<context, pc, mine>>
  BY DEF StartRun
<1>2. Recollects(context)
  BY DEF Naming
<1>3. \A q \in DOMAIN runs' : Recollects(runs'[q].seen)
  BY <1>1, <1>2, RunsAreCapable
<1> QED BY <1>1, <1>2, <1>3 DEF Naming

LEMMA EndRunIsCapable ==
  ASSUME Typing, Naming, NEW r \in DOMAIN runs, EndRun(r)
  PROVE  Naming'
<1> DEFINE seen == runs[r].seen
<1>1. /\ runs' = [runs EXCEPT ![r].stage = "done", ![r].seen = Empty]
      /\ context' = [seen EXCEPT !.findings = RememberFinding(@, r)]
      /\ UNCHANGED <<pc, mine>>
  BY DEF EndRun, Write
<1>2. \A q \in DOMAIN runs' : Recollects(runs'[q].seen)
  BY <1>1, EmptyRecollects, RunsAreCapable
<1>3. seen \in Kept /\ Recollects(seen)
  BY DEF Typing, RunTyped, Naming
<1> HIDE DEF seen
<1>4. Recollects(context')
  BY <1>1, <1>3, RecollectsMore
<1> QED BY <1>1, <1>2, <1>4 DEF Naming

\* NoPlanIsRefused: whatever is said, whoever reads it and whatever came before,
\* the plan that a turn makes passes its own validators (CapabilityPlan). A plan
\* that raises would lose the question, which _turn has cleared by then.
THEOREM TurnsArePlanned ==
  ASSUME ReadingsNameCapabilities
  PROVE  Spec => []NoPlanIsRefused
<1>1. Init => Typing /\ Naming
  <2> SUFFICES ASSUME Init PROVE Typing /\ Naming
    OBVIOUS
  <2>1. Typing
    BY InitTyped
  <2>2. Recollects(context) /\ runs = <<>> /\ \A p \in Web : pc[p] = "idle" /\ mine[p] = Idle
    BY EmptyRecollects DEF Init
  <2>3. \A p \in Web : TurnIsCapable(pc[p], mine[p])
    BY <2>2, IdleIsCapable
  <2>4. DOMAIN runs = {}
    BY <2>2
  <2> QED BY <2>1, <2>2, <2>3, <2>4 DEF Naming
<1>2. Typing /\ Naming /\ [Next]_vars => (Typing /\ Naming)'
  <2> SUFFICES ASSUME Typing, Naming, [Next]_vars PROVE Typing' /\ Naming'
    OBVIOUS
  <2>1. Typing'
    BY NextTyped
  <2>2. CASE UNCHANGED vars
    BY <2>1, <2>2 DEF vars, Naming
  <2>3. ASSUME NEW p \in Web, Receive(p) PROVE Naming'
    BY <2>3, ReceiveIsCapable
  <2>4. ASSUME NEW p \in Web, Read(p) PROVE Naming'
    BY <2>4, ReadIsCapable
  <2>5. ASSUME NEW p \in Web, KeepWatching(p) PROVE Naming'
    BY <2>5, KeepIsCapable
  <2>6. ASSUME NEW p \in Web, Plan(p) PROVE Naming'
    BY <2>6, PlanIsCapable
  <2>7. ASSUME NEW p \in Web, Begin(p) PROVE Naming'
    BY <2>7, BeginIsCapable
  <2>8. ASSUME NEW r \in DOMAIN runs, StartRun(r) PROVE Naming'
    BY <2>8, StartRunIsCapable
  <2>9. ASSUME NEW r \in DOMAIN runs, EndRun(r) PROVE Naming'
    BY <2>9, EndRunIsCapable
  <2> QED BY <2>1, <2>2, <2>3, <2>4, <2>5, <2>6, <2>7, <2>8, <2>9 DEF Next
<1>3. Typing /\ Naming => NoPlanIsRefused
  <2> SUFFICES ASSUME Typing, Naming, NEW p \in Web, pc[p] = "plan"
               PROVE  Compile(mine[p].task, mine[p].seen.research).plan.accepted
    BY DEF NoPlanIsRefused
  <2>1. mine[p].task \in Tasks("ready") /\ Capable(mine[p].task.caps)
    BY DEF Typing, TurnTyped, Naming, TurnIsCapable
  <2>2. NamesCapabilities(mine[p].task)
    BY <2>1 DEF NamesCapabilities, Capable, Tasks
  <2> QED BY <2>2, CompiledPlansPass
<1> QED BY <1>1, <1>2, <1>3, PTL DEF Spec
=============================================================================

---------------------------- MODULE Understanding ----------------------------
(***************************************************************************)
(* What a chat message means: conversation_agent.understand, the merge of  *)
(* an answer into a pending task, the follow-ups of research/context.py    *)
(* and the policy of a message that a model reads instead.                 *)
(*                                                                         *)
(* A message is what the code finds in its text: the set of its cues (one  *)
(* for each phrase test), the coins named, the coin that moves (mover) or  *)
(* that a short phrase names (named), a percentage, a listing limit and a  *)
(* window. 0, "" and <<>> mean that the text has none.                     *)
(***************************************************************************)
EXTENDS Workflows

Message(cues, assets) ==
  [cues |-> cues, assets |-> assets, mover |-> "", named |-> "",
   percent |-> 0, limit |-> 0, window |-> ""]

\* ClarifiedTask and ResearchTask. said keeps what later turns look for in
\* source_text: tell me or notify, investigate.
Research ==
  [status |-> "ready", mode |-> "ask", type |-> "one_shot_research", assets |-> <<>>,
   universe |-> "", window |-> "", limit |-> 0, conds |-> <<>>, action |-> "report",
   output |-> "report", caps |-> <<"market">>, field |-> "", said |-> {}, follow |-> FALSE]

Said(message) == message.cues \cap {"tell", "investigate"}

\* The fields that are given, and the others as they are by default.
Filled(given, default) ==
  [name \in DOMAIN given \cup DOMAIN default |->
     IF name \in DOMAIN given THEN given[name] ELSE default[name]]

Ready(message, task) == [Filled(task, Research) EXCEPT !.said = Said(message)]

Ask(message, field, assets) ==
  Ready(message, [status |-> "needs_input", field |-> field, assets |-> assets, caps |-> <<>>])

ListingLimit(message) == IF message.limit = 0 THEN DefaultLimit ELSE message.limit

\* A percentage with no word of direction is a fall here, a rise in ParseUnusual.
SignedPercent(message) ==
  IF message.percent = 0 THEN -2
  ELSE IF "rise" \in message.cues /\ "drop" \notin message.cues THEN message.percent
  ELSE -message.percent

PriceTrigger(message, asset) ==
  Condition(Change, IF SignedPercent(message) > 0 THEN ">=" ELSE "<=", SignedPercent(message), asset)

ReactionTask(message, asset) ==
  [mode |-> "work", type |-> "watch_plus_investigate", assets |-> <<asset>>, universe |-> "top",
   limit |-> ListingLimit(message), action |-> "investigate_market_reaction",
   caps |-> <<"reaction", "market", "anomaly">>, output |-> "ranked_table",
   conds |-> <<PriceTrigger(message, asset)>>]

Wide(action, caps) ==
  [universe |-> "top", limit |-> DefaultLimit, action |-> action, caps |-> caps]

Ranking(message, action) ==
  [universe |-> "top", limit |-> ListingLimit(message), action |-> action,
   caps |-> <<"market", "discovery">>, output |-> "ranked_table"]

Quote(assets) == [assets |-> assets]

History(assets, window) ==
  [assets |-> Upto(assets, 4), window |-> window, caps |-> <<"historical", "market">>]

StandingWatch(message) ==
  Filled([mode |-> "work", assets |-> message.assets,
          conds |-> <<PriceTrigger(message, Head(message.assets))>>],
    IF message.cues \cap {"investigate", "rank"} # {}
    THEN [type |-> "watch_plus_investigate", action |-> "investigate_market_reaction",
          caps |-> <<"anomaly", "market", "reaction">>]
    ELSE [type |-> "persistent_monitor", action |-> "notify", caps |-> <<"anomaly", "market">>])

\* Its action, left out unless the message says tell me, is stored as a report
\* in any case (from_clarified).
UnusualTask(message) ==
  [status |-> "needs_input", mode |-> "work", type |-> "persistent_monitor",
   assets |-> message.assets, universe |-> "symbols", field |-> "unusual_definition",
   caps |-> <<"anomaly", "market">>]

IsReactionMessage(message) ==
  \/ "reaction" \in message.cues
  \/ message.percent # 0 /\ {"universe", "rank"} \subseteq message.cues

\* The order of the tests is the code's: the first that holds decides.
UnderstandHeuristic(message) ==
  LET Has(cue) == cue \in message.cues
      assets == message.assets
      plain == assets = <<>>
      moves == message.percent # 0
      AskSubject == Ask(message, "subject", <<>>)
  IN IF Has("trade") THEN Ask(message, "trade", <<>>)
     ELSE IF Has("thanks") THEN Ask(message, "acknowledgement", <<>>)
     ELSE IF Has("news") THEN Ready(message, [type |-> "news_brief", assets |-> assets])
     ELSE IF Has("market") /\ plain
       THEN Ready(message, Wide("market_summary", <<"market", "regime">>))
     ELSE IF Has("fear") THEN Ready(message, Wide("market_summary", <<"regime", "market">>))
     ELSE IF Has("brief")
       THEN Ready(message, Filled([mode |-> "work", type |-> "scheduled_brief", assets |-> assets],
                                  Wide("report", <<"market", "regime">>)))
     ELSE IF IsReactionMessage(message)
       THEN IF message.mover = "" THEN AskSubject
            ELSE Ready(message, ReactionTask(message, message.mover))
     ELSE IF Has("year") /\ ~plain THEN Ready(message, History(assets, "year"))
     ELSE IF Has("cap list") THEN Ready(message, Ranking(message, "report"))
     ELSE IF message.window # "" /\ ~plain THEN Ready(message, History(assets, message.window))
     ELSE IF Has("status") THEN IF plain THEN AskSubject ELSE Ready(message, Quote(assets))
     ELSE IF Has("compare") \/ Len(assets) >= 2
       THEN IF plain THEN AskSubject ELSE Ready(message, Quote(Upto(assets, 4)))
     ELSE IF Has("gain") THEN Ready(message, Ranking(message, "rank_gains"))
     ELSE IF Has("lose") THEN Ready(message, Ranking(message, "rank_declines"))
     ELSE IF Has("discovery")
       THEN Ready(message, [assets |-> assets, universe |-> "top", caps |-> <<"discovery", "market">>])
     ELSE IF Has("unusual") /\ ~moves
       THEN IF plain THEN AskSubject ELSE Ready(message, UnusualTask(message))
     ELSE IF Has("watch") /\ moves
       THEN IF plain THEN AskSubject ELSE Ready(message, StandingWatch(message))
     ELSE IF Has("eye") /\ ~plain /\ ~moves THEN Ask(message, "unusual_definition", assets)
     ELSE IF Has("keep") /\ plain THEN Ask(message, "follow_up", <<>>)
     ELSE IF Has("volume") /\ plain
       THEN [Ask(message, "ranking", <<>>) EXCEPT !.universe = "top",
               !.limit = ListingLimit(message), !.caps = <<"market", "discovery">>]
     ELSE IF Has("decline") /\ message.limit # 0
       THEN Ready(message, Ranking(message, "rank_declines"))
     ELSE IF plain THEN AskSubject
     ELSE Ready(message, Quote(assets))

-----------------------------------------------------------------------------
(* The answer to a question *)

ParseUnusual(message, asset) ==
  LET falls == "drop" \in message.cues
      price == IF message.percent = 0 THEN <<>>
               ELSE <<Condition(Change, IF falls THEN "<=" ELSE ">=",
                                IF falls THEN -message.percent ELSE message.percent, asset)>>
      volume == IF "volume" \in message.cues
                THEN <<Condition("volume_change_24h", ">=",
                                 IF message.percent = 0 THEN 80 ELSE message.percent, asset)>> ELSE <<>>
      against == IF "combination" \in message.cues
                 THEN <<Condition("relative_performance", "<=", -3, asset)>> ELSE <<>>
  IN price \o volume \o against

FinishWork(draft, message) ==
  LET investigate == draft.action = "investigate_market_reaction"
      named == [draft EXCEPT !.status = "ready", !.mode = "work", !.field = "",
                             !.said = @ \cup Said(message)]
      ranked == IF draft.universe = ""
                THEN [named EXCEPT !.universe = "top",
                        !.limit = IF @ = 0 THEN DefaultLimit ELSE @] ELSE named
  IN IF investigate
     THEN [ranked EXCEPT !.type = "watch_plus_investigate",
             !.caps = <<"reaction", "market", "anomaly">>]
     ELSE [named EXCEPT !.type = "persistent_monitor", !.caps = <<"anomaly", "market">>,
             !.action = Else(@, "notify")]

MergeUnusual(message, draft) ==
  LET asset == IF draft.assets = <<>> THEN "" ELSE Head(draft.assets)
      conds == ParseUnusual(message, asset)
      bounded == [draft EXCEPT !.conds = conds]
      Acting(action) == FinishWork([bounded EXCEPT !.action = action], message)
  IN IF asset = "" THEN Ask(message, "subject", <<>>)
     ELSE IF conds = <<>> THEN [draft EXCEPT !.field = "unusual_definition"]
     ELSE IF draft.action \in {"notify", "report", "investigate_market_reaction"}
             /\ draft.said # {} THEN FinishWork(bounded, message)
     ELSE IF "tell" \in message.cues THEN Acting("notify")
     ELSE IF "investigate" \in message.cues THEN Acting("investigate_market_reaction")
     ELSE IF "tell" \in draft.said THEN Acting("notify")
     ELSE [bounded EXCEPT !.status = "needs_input", !.field = "action"]

\* Mutant of MergeAnswerHeuristic: every answer is read as a message of its own.
AnswerReadAlone(message, draft) == UnderstandHeuristic(message)

\* A question without a name is taken for what is unusual. An answer to any
\* other question is read as a message of its own.
MergeAnswerHeuristic(message, draft) ==
  CASE draft.field \in {"unusual_definition", ""} -> MergeUnusual(message, draft)
    [] draft.field = "action" ->
         FinishWork([draft EXCEPT !.action = IF "investigate" \in message.cues
                       THEN "investigate_market_reaction" ELSE "notify"], message)
    [] OTHER -> UnderstandHeuristic(message)

-----------------------------------------------------------------------------
(* A short message about the research at hand *)

\* A ResearchContext is [task, entities, universe, timeframe].
NoContext == [task |-> None, entities |-> <<>>, universe |-> "", timeframe |-> ""]

WithHistory(task) == [task EXCEPT !.caps = Unique(<<"historical", "market">> \o @)]

IsFresh(message) ==
  \/ "gain" \in message.cues \/ "lose" \in message.cues
  \/ "fresh" \in message.cues /\ ~({"unusual", "that"} \subseteq message.cues)

\* The question is stored as a task of its own, no follow-up (_attach_research).
Stay(task, field) == [task EXCEPT !.status = "needs_input", !.field = field, !.follow = FALSE]

\* resolve_follow_up: the task at hand, changed by a short message, or None
\* when the message is to be read as one of its own.
FollowUp(message, context) ==
  LET Has(cue) == cue \in message.cues
      base == [context.task EXCEPT !.follow = TRUE, !.status = "ready", !.field = "",
                                   !.said = Said(message)]
      window == Else(base.window, context.timeframe)
  IN IF context.task = None \/ IsFresh(message) THEN None
     ELSE IF Has("correction") THEN [base EXCEPT !.assets = <<message.named>>]
     ELSE IF Has("add")
       THEN [base EXCEPT !.assets = IF message.named = "" THEN @ ELSE Unique(Append(@, message.named))]
     ELSE IF message.window # "" /\ message.assets = <<>>
       THEN WithHistory([base EXCEPT !.window = message.window])
     ELSE IF Has("same")
       THEN IF window = "" THEN Stay(base, "window") ELSE [base EXCEPT !.window = window]
     ELSE IF Has("unusual") /\ Has("that")
       THEN LET coins == IF message.assets # <<>> THEN message.assets ELSE base.assets
            IN [base EXCEPT !.assets = IF coins = <<>> THEN context.entities ELSE coins,
                  !.caps = Unique(@ \o <<"anomaly", "market">>), !.action = "report"]
     ELSE IF Has("deeper") THEN WithHistory([base EXCEPT !.window = Else(window, "30d")])
     ELSE IF Has("short") /\ message.limit # 0
       THEN [base EXCEPT !.limit = message.limit, !.universe = "top"]
     ELSE IF Has("it") THEN Stay(base, "follow_up")
     ELSE IF Has("switch") /\ message.named # ""
       THEN LET turned == [base EXCEPT !.assets = <<message.named>>, !.window = window]
            IN IF window = "" THEN turned ELSE WithHistory(turned)
     ELSE IF message.assets = <<>> /\ ~Has("known")
       THEN [Stay(base, "follow_up") EXCEPT !.assets =
               IF context.entities = <<>> THEN @ ELSE context.entities]
     ELSE None

-----------------------------------------------------------------------------
(* A reaction message that no model read is locked to its own trigger *)

LockReactionTurn(message, task) ==
  IF "reaction" \notin message.cues THEN task
  ELSE LET read == IF task.status = "ready" /\ task.type = "watch_plus_investigate" THEN task
                   ELSE UnderstandHeuristic(message)
           coin == IF message.mover = "" THEN <<>> ELSE <<message.mover>>
       IN Filled([ReactionTask(message, message.mover) EXCEPT !.assets = coin,
                    !.limit = IF message.limit = 0 /\ read.limit # 0 THEN read.limit ELSE @],
                 [read EXCEPT !.status = "ready", !.said = Said(message)])

\* A follow-up comes with the research that it means, which the lock leaves as
\* it is. Where the lock reads the message anew, that research is dropped.
LockFollowUp(message, followed) ==
  IF \/ "reaction" \notin message.cues
     \/ followed.status = "ready" /\ followed.type = "watch_plus_investigate"
  THEN followed ELSE LockReactionTurn(message, followed)

-----------------------------------------------------------------------------
(* A model reads the message *)

\* What a model returns that is no task.
CONSTANT Broken

NothingToFetch(task) ==
  /\ task.assets = <<>> /\ task.universe = "" /\ task.conds = <<>>
  /\ task.action \notin {"rank_gains", "rank_declines", "market_summary"}
  /\ task.type \notin {"news_brief", "scheduled_brief", "watch_plus_investigate"}

\* _default_capabilities, where the model names none.
ModelCapabilities(answer, window) ==
  IF answer.caps # <<>> THEN answer.caps
  ELSE IF answer.type = "watch_plus_investigate" THEN <<"reaction", "market", "anomaly">>
  ELSE IF answer.type = "scheduled_brief" THEN <<"market", "regime">>
  ELSE IF window # "" THEN <<"historical", "market">>
  ELSE IF answer.type = "persistent_monitor" THEN <<"anomaly", "market">> ELSE <<"market">>

\* Mutant of TaskFromModel: the coins of the model replace those of the message.
TaskTrustingModel(message, answer) == answer

\* The coins the text names win over coins a model invents.
TaskFromModel(message, answer) ==
  LET named == message.assets
      coins == IF answer.assets # <<>> /\ (named = <<>> \/ ToSet(named) \cap ToSet(answer.assets) # {})
               THEN answer.assets ELSE named
      caps == ModelCapabilities(answer, Else(message.window, answer.window))
                \o (IF message.window = "" THEN <<>> ELSE <<"historical", "market">>)
  IN [answer EXCEPT !.assets = coins, !.caps = Unique(caps), !.said = Said(message),
        !.window = Else(message.window, @),
        !.conds = [i \in DOMAIN @ |-> IF @[i].asset # "" \/ coins = <<>> THEN @[i]
                                       ELSE [@[i] EXCEPT !.asset = Head(coins)]]]

\* An answer without a question for the user is an error of the model.
UnderstandModel(message, answer) ==
  LET task == IF answer = Broken THEN Broken ELSE TaskFromModel(message, answer)
  IN IF task = Broken
     THEN LockReactionTurn(message, IF "reaction" \in message.cues THEN UnderstandHeuristic(message)
                                    ELSE Ask(message, "subject", <<>>))
     ELSE IF task.status = "needs_input" THEN [task EXCEPT !.field = Else(@, "unusual_definition")]
     ELSE IF NothingToFetch(task) THEN [task EXCEPT !.status = "needs_input"]
     ELSE [task EXCEPT !.status = "ready"]

MergeAnswerModel(message, draft, answer) ==
  IF answer = Broken THEN Ask(message, "subject", <<>>)
  ELSE LET task == [TaskFromModel([message EXCEPT !.assets = Unique(draft.assets \o @)], answer)
                      EXCEPT !.said = draft.said \cup Said(message)]
       IN IF task.status = "needs_input" THEN [task EXCEPT !.field = Else(@, draft.field)]
          ELSE [task EXCEPT !.status = "ready", !.field = "",
                  !.conds = IF @ = <<>> THEN draft.conds ELSE @]

-----------------------------------------------------------------------------
(* understand: a pending question first, then the model or the phrases *)

\* answer is None where no model is configured.
Understand(message, pending, context, answer) ==
  IF pending # None
  THEN IF answer = None THEN MergeAnswerHeuristic(message, pending)
       ELSE MergeAnswerModel(message, pending, answer)
  ELSE IF answer # None THEN UnderstandModel(message, answer)
  ELSE LET followed == FollowUp(message, context)
       IN IF followed = None THEN LockReactionTurn(message, UnderstandHeuristic(message))
          ELSE LockFollowUp(message, followed)
=============================================================================

-------------------------- MODULE MCInvestigation --------------------------
(* An instance of Investigation: the reports of messages of every kind. *)
EXTENDS Understanding, Investigation

Item(id, sym, change, cap) ==
  [id |-> id, sym |-> sym, price |-> 10, change |-> change, volume |-> None, cap |-> cap, rank |-> id]

\* A second asset with the ticker of Bitcoin, as the quotes of version 3 list.
Namesake == [Item(9, "BTC", 7, 0) EXCEPT !.price = None, !.rank = None]

MCMarkets ==
  { <<Item(1, "BTC", -3, 90), Item(2, "ETH", -6, 50), Item(3, "USDC", 0, 40), Item(4, "SOL", 4, 20),
      Namesake>>,
    <<Item(1, "BTC", 2, 90), Item(2, "ETH", None, 50), Item(4, "SOL", 7, 20)>>,
    <<>> }

Assets(sym, points) == [sym |-> sym, points |-> points]
MCHistories == {<<Assets("BTC", <<10, None, 12>>), Assets("ETH", <<10>>)>>, <<>>}
MCContents == {<<[titled |-> TRUE, coins |-> <<"ETH">>], [titled |-> FALSE, coins |-> <<"SOL">>]>>, <<>>}
MCSnapshots == {(1 :> 2 @@ 4 :> 4)}

Reading(message) == Understand(message, None, NoContext, None)
Report(message) == Compile(Reading(message), NoContext)

Percent(message, percent) == [message EXCEPT !.percent = percent]

Asks == {Report(message) : message \in
  { Message({"news"}, <<>>), Message({"fear"}, <<>>), Message({"gain"}, <<>>), Message({"lose"}, <<>>), Message({"cap list"}, <<>>),
    Message({}, <<"BTC">>), Message({}, <<"BTC", "ETH">>), Message({"discovery"}, <<>>),
    [Message({}, <<"BTC">>) EXCEPT !.window = "30d"] }}

\* The questions put to a Lens that watches.
Strays == {Report(message) : message \in
  { Message({"news"}, <<>>), Message({"gain"}, <<>>), Message({}, <<"BTC", "ETH">>) }}

Reaction == [Percent(Message({"reaction", "drop", "rank"}, <<"BTC">>), 2) EXCEPT !.mover = "BTC"]

Unnamed == Percent(Message({"reaction", "drop", "rank"}, <<>>), 2)

Rise == Percent(Message({"watch", "rise", "tell"}, <<"SOL">>), 5)

Standing == {Report(message) : message \in {Reaction, Unnamed, Message({"brief"}, <<>>), Rise}}

\* What an edit makes of a report; it is stored without a plan or a task.
Edited(report, edit) ==
  LET job == ApplyEdit(report, edit)
  IN [job EXCEPT !.plan = None, !.task = [Research EXCEPT !.mode = "work", !.caps = <<>>]]

Edit(limit, steeper, bar) ==
  [limit |-> limit, steeper |-> steeper, bar |-> bar, morning |-> FALSE, percent |-> 0,
   second |-> 0, ranks |-> bar = ""]

EveryMorning(edit) == [edit EXCEPT !.morning = TRUE]

\* A reaction, a policy without steps and a summary are edited.
Edits ==
  {Edited(Report(Reaction), edit) : edit \in
     {Edit(2, TRUE, "policy"), EveryMorning(Edit(0, TRUE, "trigger"))}}
    \cup {Edited(Report(Unnamed), edit) : edit \in
            {Edit(0, FALSE, "trigger"), Edit(0, FALSE, "policy"), EveryMorning(Edit(0, FALSE, ""))}}
    \cup {Edited(Report(Message({"market"}, <<>>)), Edit(2, FALSE, ""))}

Of(report, honor) == [report |-> report, standing |-> report, honor |-> honor]
MCRequests ==
  {Of(report, TRUE) : report \in Asks} \cup {Of(report, honor) : report \in Standing \cup Edits, honor \in BOOLEAN}
    \cup {[report |-> report, standing |-> Report(Reaction), honor |-> TRUE] : report \in Strays}
    \cup {[report |-> Report(Message({"gain"}, <<>>)), standing |-> Report(Rise), honor |-> TRUE]}
=============================================================================

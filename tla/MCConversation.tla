--------------------------- MODULE MCConversation ---------------------------
(* Messages that follow one another in a conversation; processes are alike. *)
EXTENDS Conversation

Percent(message, percent) == [message EXCEPT !.percent = percent]

Switched == [Message({"switch", "short"}, <<"BTC">>) EXCEPT !.named = "BITCOIN"]
Unusually == Message({"watch", "unusual", "fresh"}, <<"BTC">>)
Dated    == [Message({"fresh"}, <<"BTC">>) EXCEPT !.window = "30d"]
Reacted  == [Percent(Message({"reaction", "drop", "rank", "fresh"}, <<"BTC">>), 2) EXCEPT !.mover = "BTC"]
Kept     == Message({"keep watching"}, <<>>)
Deepened == Message({"deeper", "short"}, <<"SOL">>)
Topped   == [Message({"short"}, <<"SOL">>) EXCEPT !.limit = 50]
\* "If ETH drops 2%, tell me, also check the top 100 that fell": THE is no
\* coin to add. After a question it is an answer.
Added    == [Percent(Message({"reaction", "drop", "tell", "add"}, <<"ETH">>), 2)
               EXCEPT !.mover = "ETH", !.limit = 100]

\* A task about a coin that nobody named.
Invented == [Research EXCEPT !.assets = <<"XRP">>]

MCMessages ==
  {[message |-> m, reading |-> None] : m \in {Switched, Unusually, Kept, Deepened, Topped, Added}}
    \cup {[message |-> Dated, reading |-> Invented], [message |-> Reacted, reading |-> Broken]}

\* What the theorems ask of the messages is so.
ASSUME MessagesFit == MessagesAim /\ ReadingsAreAsked /\ ReadingsNameCapabilities

Symmetry == Permutations(Web)
=============================================================================

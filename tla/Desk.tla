-------------------------------- MODULE Desk --------------------------------
(***************************************************************************)
(* The accounts at the desk: which Telegram chat speaks for an account,    *)
(* the one-time codes that bind it (notifications.linking), the settings   *)
(* page, and the Lenses an account creates, selects and deletes from the   *)
(* page or from Telegram (notifications.inbound, lenses.agent_service).    *)
(*                                                                         *)
(* Every statement that reaches the database is a step; only the deletion  *)
(* of a Lens is a transaction. Telegram delivers an update until the       *)
(* webhook answers it with 200, and may deliver it while it is handled.    *)
(***************************************************************************)
EXTENDS Naturals, Sequences, FiniteSets, SequencesExt

CONSTANTS
  Users, Chats, None,
  Procs,       \* processes that answer requests, of the page and the webhook
  Pages,       \* bound: who asks for which page, of [user, page]
  Forms,       \* bound: what is typed into the settings page, of [chat, on]
  MaxUpdates,  \* bound: the messages sent
  MaxRequests, \* bound: those and the pages asked for
  MaxLosses    \* bound: answers lost or too late, processes killed, deletions refused

PageLabels == {"issue", "disconnect", "create", "new", "draft", "pick", "delete", "save"}

ASSUME DeskAssumption ==
  /\ None \notin Chats \cup Users \cup {"delete", "talk"}
  /\ Pages \subseteq [user: Users, page: PageLabels]
  /\ Forms \subseteq [chat: Chats \cup {None}, on: BOOLEAN]
  /\ {MaxUpdates, MaxRequests, MaxLosses} \subseteq Nat

VARIABLES
  pref,     \* UserPreference rows
  desk,     \* each account's Lenses, the one updated last first
  made,     \* Lenses made so far
  blank,    \* Lenses that are drafts without a version and a request
  issued,   \* codes issued so far
  inbox,    \* Telegram's updates, in the order they were sent
  asked,    \* requests so far
  losses,   \* what was lost so far
  pc, mine, \* each process's place in the code and its local variables
  joined,   \* the chats that each code connected (history)
  typed,    \* accounts whose chat was typed into the settings page (history)
  raced     \* a code or a preference was read, changed by another, and written (history)

rows == <<pref, desk, made, blank, issued>>
hist == <<joined, typed, raced>>
vars == <<rows, inbox, asked, losses, pc, mine, hist>>

\* A row as UserPreference makes it; code 0 and active 0 are NULL.
Preference ==
  [chat: Chats \cup {None}, on: BOOLEAN, code: Nat, active: Nat]

NewPreference == [chat |-> None, on |-> FALSE, code |-> 0, active |-> 0]

Idle == [update |-> 0, user |-> None, row |-> NewPreference, lens |-> 0, text |-> None]

Init ==
  /\ pref = [u \in Users |-> NewPreference]
  /\ desk = [u \in Users |-> <<>>]
  /\ made = 0 /\ blank = {} /\ issued = 0 /\ inbox = <<>> /\ asked = 0 /\ losses = 0
  /\ pc = [p \in Procs |-> "idle"] /\ mine = [p \in Procs |-> Idle]
  /\ joined = <<>> /\ typed = {} /\ raced = FALSE

Goto(p, label, locals) ==
  /\ pc' = [pc EXCEPT ![p] = label]
  /\ mine' = [mine EXCEPT ![p] = locals]

Exists(lens) == \E u \in Users : lens \in ToSet(desk[u])
Speaks(chat, u) == pref[u].chat = chat /\ pref[u].on

\* Mutant of Newest: the Lens that was updated first.
Oldest(u) == IF desk[u] = <<>> THEN 0 ELSE Last(desk[u])

\* order_by("-updated_at").first(), 0 if there is none
Newest(u) == IF desk[u] = <<>> THEN 0 ELSE Head(desk[u])

\* A Lens that is saved becomes the one updated last.
Saved(u, lens) ==
  [desk EXCEPT ![u] = IF lens \in ToSet(@) THEN <<lens>> \o RemoveFirst(@, lens) ELSE @]

-----------------------------------------------------------------------------
(* Answers *)

\* The request is answered. Telegram is told, and the update is done with.
Answer(p) ==
  /\ Goto(p, "idle", Idle)
  /\ inbox' = IF mine[p].update = 0 THEN inbox ELSE [inbox EXCEPT ![mine[p].update].done = TRUE]
  /\ UNCHANGED <<asked, losses>>

\* An exception: 500, and the update is delivered again.
Raise(p) ==
  /\ Goto(p, "idle", Idle)
  /\ UNCHANGED <<inbox, asked, losses>>

Continue(p, label, locals) ==
  /\ Goto(p, label, locals)
  /\ UNCHANGED <<inbox, asked, losses>>

\* The process is killed, or its answer does not arrive.
Lose(p) ==
  /\ pc[p] # "idle" /\ losses < MaxLosses
  /\ losses' = losses + 1
  /\ Goto(p, "idle", Idle)
  /\ UNCHANGED <<rows, inbox, asked, hist>>

-----------------------------------------------------------------------------
(* Telegram *)

Updates ==
  [chat: Chats, text: {"link", "create", "new", "agent", "delete", "talk"}, arg: Nat,
   done: BOOLEAN, again: BOOLEAN, sole: BOOLEAN, talking: SUBSET Nat, erased: SUBSET Nat]

Quiet == (\A p \in Procs : pc[p] = "idle") /\ (\A i \in DOMAIN inbox : inbox[i].done)

\* The Lens that the user of an account sees a message go to.
Talking(u) == IF pref[u].active # 0 \/ desk[u] = <<>> THEN pref[u].active ELSE Head(desk[u])

\* No update that is still open has the account to itself from here on.
Disturbed == [i \in DOMAIN inbox |-> IF inbox[i].done THEN inbox[i] ELSE [inbox[i] EXCEPT !.sole = FALSE]]

\* A chat sends a message. Codes and Lenses are shown to the account's user;
\* argument 0 is what no row can have: after agent: a word that is no number,
\* after /create a name that is too long for its column. "new" is the /create
\* of the name that drafts have.
Send(chat, text, arg) ==
  /\ Len(inbox) < MaxUpdates
  /\ asked < MaxRequests /\ asked' = asked + 1
  /\ inbox' = Append(Disturbed,
       [chat |-> chat, text |-> text, arg |-> arg, done |-> FALSE, again |-> FALSE, sole |-> Quiet,
        talking |-> {Talking(u) : u \in {v \in Users : Speaks(chat, v)}}, erased |-> {}])
  /\ UNCHANGED <<rows, losses, pc, mine, hist>>

\* A chat that speaks for nobody, or sends a code nobody has, is only told so.
SendSome ==
  \E chat \in Chats :
    \/ \E u \in Users : pref[u].code # 0 /\ Send(chat, "link", pref[u].code)
    \/ \E u \in Users :
         /\ Speaks(chat, u)
         /\ \/ \E lens \in 0..made : Send(chat, "agent", lens)
            \/ \E fit \in 0..1 : Send(chat, "create", fit)
            \/ \E text \in {"new", "delete", "talk"} : Send(chat, text, 0)

\* handle_telegram_update begins. A command with a code is looked up among the
\* codes, any other message by its chat; two rows may match, and first() has
\* no order to go by.
Deliver(p, i) ==
  LET update == inbox[i]
      late   == \E q \in Procs : mine[q].update = i
      owners == IF update.text = "link" THEN {u \in Users : pref[u].code = update.arg}
                ELSE {u \in Users : Speaks(update.chat, u)}
      at     == CASE update.text = "link" -> "clear"
                  [] update.text \in {"create", "new"} -> update.text
                  [] update.text = "agent" -> "pick"
                  [] OTHER -> "lens"
  IN /\ pc[p] = "idle" /\ ~update.done
     /\ inbox' = [inbox EXCEPT ![i].again = TRUE, ![i].sole = @ /\ ~update.again,
                               ![i].done = owners = {}]
     /\ IF owners = {} THEN UNCHANGED <<pc, mine>>
        ELSE \E u \in owners :
               Goto(p, at, [update |-> i, user |-> u, row |-> pref[u],
                            lens |-> IF at = "pick" THEN update.arg ELSE 0, text |-> update.text])
     /\ losses' = IF late THEN losses + 1 ELSE losses
     /\ losses' <= MaxLosses
     /\ UNCHANGED <<rows, asked, hist>>

-----------------------------------------------------------------------------
(* Codes *)

\* Mutant of ClearOthers: the account that had the chat keeps it.
ClearNone(p) == pref

\* claim_link: the chat leaves every other account,
ClearOthers(p) ==
  LET chat == inbox[mine[p].update].chat
  IN [u \in Users |-> IF u # mine[p].user /\ pref[u].chat = chat
                      THEN [pref[u] EXCEPT !.chat = None, !.on = FALSE] ELSE pref[u]]

Clear(p) ==
  /\ pc[p] = "clear"
  /\ pref' = ClearOthers(p)
  /\ Continue(p, "claim", mine[p])
  /\ UNCHANGED <<desk, made, blank, issued, hist>>

\* Mutant of Spend: a code can be used again.
SpendNothing(u) == pref[u].code

Spend(u) == 0

\* and joins this one, whose code is spent.
Claim(p) ==
  LET u == mine[p].user
      update == inbox[mine[p].update]
  IN /\ pc[p] = "claim"
     /\ pref' = [pref EXCEPT ![u].chat = update.chat, ![u].on = TRUE, ![u].code = Spend(u)]
     /\ joined' = [joined EXCEPT ![update.arg] = @ \cup {update.chat}]
     /\ typed' = typed \ {u}
     /\ raced' = (raced \/ \E q \in Procs \ {p} : pc[q] \in {"clear", "claim"})
     /\ Answer(p)
     /\ UNCHANGED <<desk, made, blank, issued>>

-----------------------------------------------------------------------------
(* Lenses *)

\* A row that names a Lens can be saved only while there is that Lens.
Select(p) ==
  /\ pc[p] = "select"
  /\ IF Exists(mine[p].lens)
     THEN /\ pref' = [pref EXCEPT ![mine[p].user].active = mine[p].lens]
          /\ IF mine[p].text \in {"delete", "talk"} THEN Continue(p, mine[p].text, mine[p]) ELSE Answer(p)
     ELSE Raise(p) /\ UNCHANGED pref
  /\ UNCHANGED <<desk, made, blank, issued, hist>>

\* What the database refuses, each time the update is delivered.
Unfit(p) == mine[p].update # 0 /\ inbox[mine[p].update].arg = 0

\* create_draft_lens gives the name of drafts to no second Lens while one is
\* blank: the blank one updated last is returned. The page for a new Lens may
\* save its purpose into it.
Look(p) ==
  LET u == mine[p].user
      Blank(i) == desk[u][i] \in blank
  IN /\ pc[p] \in {"new", "draft"}
     /\ \/ /\ \A i \in DOMAIN desk[u] : ~Blank(i)
           /\ Continue(p, IF pc[p] = "new" THEN "name" ELSE "make", mine[p])
           /\ UNCHANGED desk
        \/ \E i \in DOMAIN desk[u] :
             /\ Blank(i) /\ \A j \in 1..i - 1 : ~Blank(j)
             /\ IF pc[p] = "draft" THEN Answer(p) ELSE Continue(p, "select", [mine[p] EXCEPT !.lens = desk[u][i]])
             /\ \/ UNCHANGED desk
                \/ pc[p] = "new" /\ mine[p].update = 0 /\ desk' = Saved(u, desk[u][i])
     /\ UNCHANGED <<pref, made, blank, issued, hist>>

\* Lens.objects.create. AgentService.create selects the Lens, create_draft does
\* not.
Create(p) ==
  LET lens == made + 1
  IN /\ pc[p] \in {"create", "name", "make"}
     /\ IF pc[p] = "create" /\ Unfit(p) THEN Raise(p) /\ UNCHANGED <<made, blank, desk>>
        ELSE /\ made' = lens /\ blank' = blank \cup {lens}
             /\ desk' = [desk EXCEPT ![mine[p].user] = <<lens>> \o @]
             /\ IF pc[p] = "make" THEN Answer(p) ELSE Continue(p, "select", [mine[p] EXCEPT !.lens = lens])
     /\ UNCHANGED <<pref, issued, hist>>

\* Mutant of Owned: the Lens is looked up by its number only.
OwnedByAnyone(u) == UNION {ToSet(desk[v]) : v \in Users}

Owned(u) == ToSet(desk[u])

\* agent:N, and the page of a Lens. The page takes numbers only; what follows
\* agent: goes to the database as it is, which raises if it is none.
Pick(p) ==
  /\ pc[p] = "pick"
  /\ IF Unfit(p) THEN Raise(p)
     ELSE IF mine[p].lens \in Owned(mine[p].user) THEN Continue(p, "select", mine[p]) ELSE Answer(p)
  /\ UNCHANGED <<rows, hist>>

\* _dispatch: the active Lens of the preference as it was loaded, which may be
\* gone. Unless it is the account's own the newest is, and is selected.
FindLens(p) ==
  LET u == mine[p].user
      active == mine[p].row.active
      found(lens) == [mine[p] EXCEPT !.lens = lens]
  IN /\ pc[p] = "lens"
     /\ IF active # 0 /\ ~Exists(active) THEN Raise(p)
        ELSE IF active \in ToSet(desk[u]) THEN Continue(p, mine[p].text, found(active))
        ELSE IF Newest(u) = 0 THEN Answer(p)
        ELSE Continue(p, "select", found(Newest(u)))
     /\ UNCHANGED <<rows, hist>>

\* ConversationService.handle, which may save the Lens, give it a request and
\* a version, and raise before or after it did. Its own state is Watching's and
\* Conversation's.
Talk(p) ==
  LET u == mine[p].user
      lens == mine[p].lens
  IN /\ pc[p] = "talk"
     /\ desk' \in {desk, Saved(u, lens)}
     /\ blank' \in {blank, blank \ {lens}}
     /\ Answer(p) \/ Raise(p)
     /\ UNCHANGED <<pref, made, issued, hist>>

\* Mutant of Forget: the preferences that name the Lens keep its number.
ForgetNothing(lens) == pref

\* active_lens is set to NULL by the deletion of its Lens.
Forget(lens) == [u \in Users |-> IF pref[u].active = lens THEN [pref[u] EXCEPT !.active = 0] ELSE pref[u]]

\* AgentService.delete: results, events and the Lens go together. A Lens that
\* is gone already is deleted again without complaint.
Delete(p) ==
  LET u == mine[p].user
      lens == mine[p].lens
  IN /\ pc[p] = "delete"
     /\ desk' = [desk EXCEPT ![u] = IF lens \in ToSet(@) THEN RemoveFirst(@, lens) ELSE @]
     /\ pref' = Forget(lens)
     /\ blank' = blank \ {lens}
     /\ inbox' = IF mine[p].update = 0 \/ lens \notin ToSet(desk[u]) THEN inbox
                 ELSE [inbox EXCEPT ![mine[p].update].erased = @ \cup {lens}]
     /\ Goto(p, "remaining", mine[p])
     /\ UNCHANGED <<made, issued, asked, losses, hist>>

\* A run of the Lens saved a result or an event meanwhile, which protects the
\* version it names: nothing is deleted.
DeleteRefused(p) ==
  /\ pc[p] = "delete" /\ losses < MaxLosses
  /\ losses' = losses + 1
  /\ Goto(p, "idle", Idle)
  /\ UNCHANGED <<rows, inbox, asked, hist>>

\* Another Lens takes the place of the deleted one.
Remaining(p) ==
  LET u == mine[p].user
  IN /\ pc[p] = "remaining"
     /\ IF Newest(u) # 0 /\ pref[u].active = 0
        THEN Continue(p, "select", [mine[p] EXCEPT !.lens = Newest(u), !.text = None])
        ELSE Answer(p)
     /\ UNCHANGED <<rows, hist>>

-----------------------------------------------------------------------------
(* Pages *)

\* A user asks for a page or posts a form. settings_page loads the row first.
Ask(p, u, label, lens, text) ==
  /\ pc[p] = "idle" /\ asked < MaxRequests
  /\ asked' = asked + 1
  /\ inbox' = Disturbed
  /\ Goto(p, label, [Idle EXCEPT !.user = u, !.row = pref[u], !.lens = lens, !.text = text])
  /\ UNCHANGED <<rows, losses, hist>>

AskSome(p) ==
  \E asking \in Pages :
    LET u == asking.user
        page == asking.page
    IN CASE page \in {"pick", "delete"} -> \E lens \in ToSet(desk[u]) : Ask(p, u, page, lens, None)
         [] page = "save" -> \E form \in Forms : Ask(p, u, page, 0, form)
         [] OTHER -> Ask(p, u, page, 0, None)

\* Mutant of NewCode: a collision with another account's code is not noticed.
CodeCollides == 1

\* The column is unique, so that a code another account has is drawn anew.
NewCode == issued + 1

\* ensure_link_code: the code in memory is shown, or a new one saved.
Issue(p) ==
  /\ pc[p] = "issue"
  /\ IF mine[p].row.code # 0 THEN UNCHANGED <<pref, issued, joined>>
     ELSE /\ issued' = issued + 1
          /\ pref' = [pref EXCEPT ![mine[p].user].code = NewCode]
          /\ joined' = Append(joined, {})
  /\ Answer(p)
  /\ UNCHANGED <<desk, made, blank, typed, raced>>

Disconnect(p) ==
  /\ pc[p] = "disconnect"
  /\ pref' = [pref EXCEPT ![mine[p].user].chat = None, ![mine[p].user].on = FALSE]
  /\ typed' = typed \ {mine[p].user}
  /\ Answer(p)
  /\ UNCHANGED <<desk, made, blank, issued, joined, raced>>

\* The form is put into the row that was loaded, and all of the row is saved.
SaveSettings(p) ==
  LET u == mine[p].user
      row == mine[p].row
      form == mine[p].text
  IN /\ pc[p] = "save"
     /\ IF row.active = 0 \/ Exists(row.active)
        THEN /\ pref' = [pref EXCEPT ![u] = [row EXCEPT !.chat = form.chat, !.on = form.on]]
             /\ typed' = typed \cup {u}
             /\ raced' = (raced \/ pref[u] # row)
             /\ Answer(p)
        ELSE Raise(p) /\ UNCHANGED <<pref, typed, raced>>
     /\ UNCHANGED <<desk, made, blank, issued, joined>>

-----------------------------------------------------------------------------
Handle(p) ==
  \/ Clear(p) \/ Claim(p) \/ Select(p) \/ Look(p) \/ Create(p) \/ Pick(p) \/ FindLens(p) \/ Talk(p)
  \/ Delete(p) \/ Remaining(p) \/ Issue(p) \/ Disconnect(p) \/ SaveSettings(p)

\* What Telegram and the server do without being asked anew.
Work == \E p \in Procs : Handle(p) \/ \E i \in DOMAIN inbox : Deliver(p, i)

\* Nothing is left to do.
Over == asked = MaxRequests /\ Quiet /\ UNCHANGED vars

Next ==
  \/ Work
  \/ SendSome
  \/ \E p \in Procs : AskSome(p) \/ Lose(p) \/ DeleteRefused(p)
  \/ Over

\* An update that may raise however often it comes: Unfit, or a message that
\* ConversationService cannot work with.
Poison(update) == update.text = "talk" \/ (update.text \in {"create", "agent"} /\ update.arg = 0)

Retry == \E p \in Procs : \E i \in DOMAIN inbox : ~Poison(inbox[i]) /\ Deliver(p, i)

\* Each process goes on with what it received, and Telegram tries again: it does
\* not spend all of its deliveries on the updates that raise.
Spec == Init /\ [][Next]_vars /\ (\A p \in Procs : WF_vars(Handle(p))) /\ SF_vars(Retry)
-----------------------------------------------------------------------------
(* Properties *)

TypeOK ==
  /\ pref \in [Users -> Preference]
  /\ \A u, v \in Users : pref[u].code \in 0..issued /\ (u # v /\ pref[u].code # 0 => pref[u].code # pref[v].code)
  /\ desk \in [Users -> Seq(1..made)]
  /\ \A lens \in blank : Exists(lens)
  /\ inbox \in Seq(Updates)
  /\ DOMAIN joined = 1..issued
  /\ typed \subseteq Users /\ raced \in BOOLEAN
  /\ \A p \in Procs : pc[p] = "idle" <=> mine[p] = Idle

\* A chat speaks for one account, unless its number was typed into the
\* settings page of an account, two codes were claimed at the same time, or a
\* settings form was saved over a row that had changed since it was loaded.
ChatHasOneAccount ==
  \A u, v \in Users :
    u # v /\ pref[u].on /\ pref[v].on /\ pref[u].chat = pref[v].chat /\ ~raced => {u, v} \cap typed # {}

\* A code connects no second chat, unless two claims overlapped or a settings
\* form was saved over a row that had changed since it was loaded.
CodesConnectOnce == raced \/ \A code \in DOMAIN joined : Cardinality(joined[code]) <= 1

\* The selected Lens exists and is the account's own, whatever was deleted,
\* selected and saved at the same time.
ActiveLensIsOwn == \A u \in Users : pref[u].active \in ToSet(desk[u]) \cup {0}

\* A /delete that is delivered once, with nothing else going on, deletes the
\* Lens that the chat was talking to when it was sent and no other.
DeletesTheLensTalkedTo ==
  \A i \in DOMAIN inbox : inbox[i].sole => inbox[i].erased \subseteq inbox[i].talking

\* Every update is answered in the end, whatever was lost, deleted or raised
\* under it and whatever else Telegram has to deliver, unless it may raise
\* however often it comes.
UpdatesAreAnswered == []<>(\A i \in DOMAIN inbox : inbox[i].done \/ Poison(inbox[i]))
=============================================================================

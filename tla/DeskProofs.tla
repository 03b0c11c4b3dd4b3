----------------------------- MODULE DeskProofs -----------------------------
(***************************************************************************)
(* For any number of accounts, chats, processes, requests and losses: a    *)
(* code and a Lens belong to one account for good, the Lens an account     *)
(* selected is its own, a chat speaks for one account and a code connects  *)
(* one chat unless two processes raced for it, and an undisturbed /delete  *)
(* deletes the Lens that the chat was talking to.                          *)
(***************************************************************************)
EXTENDS Desk, SequenceTheorems, FiniteSetTheorems, TLAPS

-----------------------------------------------------------------------------
(* Sequences without repetition in mind: what stands in them. *)

LEMMA Members ==
  ASSUME NEW S, NEW s \in Seq(S)
  PROVE  ToSet(s) \subseteq S /\ (s # <<>> => Head(s) \in ToSet(s))
<1>1. DOMAIN s = 1..Len(s) /\ Len(s) \in Nat /\ s \in [1..Len(s) -> S]
  BY LenProperties
<1>2. ToSet(s) \subseteq S
  BY <1>1 DEF ToSet
<1>3. ASSUME s # <<>> PROVE Head(s) \in ToSet(s)
  <2>1. Len(s) # 0
    BY <1>3, EmptySeq
  <2>2. 1 \in DOMAIN s /\ Head(s) = s[1]
    BY <1>1, <2>1
  <2> QED BY <2>2 DEF ToSet
<1> QED BY <1>2, <1>3

LEMMA InFront ==
  ASSUME NEW S, NEW s \in Seq(S), NEW e \in S
  PROVE  /\ <<e>> \o s \in Seq(S)
         /\ ToSet(<<e>> \o s) = {e} \cup ToSet(s)
<1> DEFINE t == <<e>> \o s
<1>1. <<e>> \in Seq(S) /\ Len(<<e>>) = 1 /\ <<e>>[1] = e
  OBVIOUS
<1>2. /\ t \in Seq(S) /\ Len(t) = 1 + Len(s)
      /\ \A i \in 1..1 + Len(s) : t[i] = IF i <= 1 THEN <<e>>[i] ELSE s[i - 1]
  BY <1>1, ConcatProperties
<1>3. DOMAIN t = 1..1 + Len(s) /\ DOMAIN s = 1..Len(s) /\ Len(s) \in Nat
  BY <1>2, LenProperties
<1> HIDE DEF t
<1>4. ASSUME NEW x \in ToSet(t) PROVE x \in {e} \cup ToSet(s)
  <2>1. PICK i \in 1..1 + Len(s) : x = t[i]
    BY <1>3 DEF ToSet
  <2>2. CASE i = 1
    BY <1>1, <1>2, <2>1, <2>2
  <2>3. CASE i # 1
    <3>1. i - 1 \in DOMAIN s /\ x = s[i - 1]
      BY <1>2, <1>3, <2>1, <2>3
    <3> QED BY <3>1 DEF ToSet
  <2> QED BY <2>2, <2>3
<1>5. e \in ToSet(t)
  BY <1>1, <1>2, <1>3 DEF ToSet
<1>6. ASSUME NEW x \in ToSet(s) PROVE x \in ToSet(t)
  <2>1. PICK i \in 1..Len(s) : x = s[i]
    BY <1>3 DEF ToSet
  <2>2. i + 1 \in 1..1 + Len(s) /\ t[i + 1] = s[(i + 1) - 1] /\ (i + 1) - 1 = i
    BY <1>2, <1>3
  <2> QED BY <1>3, <2>1, <2>2 DEF ToSet
<1> QED BY <1>2, <1>4, <1>5, <1>6 DEF t

LEMMA LeastNumber ==
  ASSUME NEW T, T \subseteq Nat, T # {}
  PROVE  \E x \in T : \A y \in T : x <= y
<1>1. IsWellFoundedOn(OpToRel(<, Nat), Nat)
  BY NatLessThanWellFounded
<1>2. \A x, y \in Nat : y < x => <<y, x>> \in OpToRel(<, Nat)
  BY DEF OpToRel
<1>3. PICK R : R = OpToRel(<, Nat)
  OBVIOUS
<1>4. IsWellFoundedOn(R, Nat)
  BY <1>1, <1>3, Zenon
<1>5. \A x, y \in Nat : y < x => <<y, x>> \in R
  BY <1>2, <1>3, Zenon
<1>6. PICK x \in T : \A y \in T : ~ (<<y, x>> \in R)
  BY <1>4, WFMin
<1>7. \A y \in T : y \in Nat /\ x \in Nat
  OBVIOUS
<1>8. \A y \in T : ~ (y < x)
  BY <1>5, <1>6, <1>7, Zenon
<1> QED BY <1>7, <1>8

\* RemoveFirst takes out one place and touches no other.
LEMMA Removing ==
  ASSUME NEW S, NEW s \in Seq(S), NEW e \in ToSet(s)
  PROVE  /\ RemoveFirst(s, e) \in Seq(S)
         /\ ToSet(RemoveFirst(s, e)) \subseteq ToSet(s)
         /\ ToSet(s) \ {e} \subseteq ToSet(RemoveFirst(s, e))
<1>1. DOMAIN s = 1..Len(s) /\ Len(s) \in Nat /\ s \in [1..Len(s) -> S]
  BY LenProperties
<1>2. PICK k \in 1..Len(s) :
        RemoveFirst(s, e) = SubSeq(s, 1, k - 1) \o SubSeq(s, k + 1, Len(s)) /\ s[k] = e
  <2> DEFINE I == {i \in 1..Len(s) : s[i] = e}
  <2>1. I # {} /\ I \subseteq Nat
    BY <1>1 DEF ToSet
  <2>2. \E i \in I : \A j \in I : i <= j
    BY <2>1, LeastNumber
  <2>3. PICK k : k = Min(I)
    OBVIOUS
  <2>4. k \in I
    BY <2>2, <2>3 DEF Min
  <2>5. RemoveFirst(s, e) = RemoveAt(s, k)
    BY <2>1, <2>3 DEF RemoveFirst, SelectInSeq
  <2> QED BY <2>4, <2>5 DEF RemoveAt
<1> DEFINE a == SubSeq(s, 1, k - 1)
           b == SubSeq(s, k + 1, Len(s))
<1>3. /\ a \in Seq(S) /\ Len(a) = k - 1
      /\ \A i \in 1..k - 1 : a[i] = s[i]
  <2>1. k - 1 \in Int /\ 1 \in Int /\ \A i \in 1..k - 1 : s[i] \in S
    BY <1>1
  <2>2. /\ a \in Seq(S) /\ Len(a) = IF 1 <= k - 1 THEN k - 1 - 1 + 1 ELSE 0
        /\ \A i \in 1..k - 1 - 1 + 1 : a[i] = s[1 + i - 1]
    BY <2>1, SubSeqProperties
  <2> HIDE DEF a
  <2> QED BY <2>2
<1>4. /\ b \in Seq(S) /\ Len(b) = Len(s) - k
      /\ \A i \in 1..Len(s) - k : b[i] = s[k + i]
  <2>1. k + 1 \in Int /\ Len(s) \in Int /\ \A i \in k + 1..Len(s) : s[i] \in S
    BY <1>1
  <2>2. /\ b \in Seq(S) /\ Len(b) = IF k + 1 <= Len(s) THEN Len(s) - (k + 1) + 1 ELSE 0
        /\ \A i \in 1..Len(s) - (k + 1) + 1 : b[i] = s[k + 1 + i - 1]
    BY <2>1, SubSeqProperties
  <2> HIDE DEF a, b
  <2>3. k \in Nat /\ k <= Len(s) /\ Len(s) \in Nat
    BY <1>1
  <2>4. Len(s) - (k + 1) + 1 = Len(s) - k
    BY <1>1, <2>3
  <2>5. Len(b) = Len(s) - k
    <3>1. CASE k + 1 <= Len(s)
      BY <2>2, <2>4, <3>1
    <3>2. CASE ~(k + 1 <= Len(s))
      <4>1. Len(s) = k
        BY <2>3, <3>2
      <4> QED BY <2>2, <2>3, <3>2, <4>1
    <3> QED BY <3>1, <3>2
  <2>6. \A i \in Int : k + 1 + i - 1 = k + i
    BY <2>3
  <2>7. ASSUME NEW i \in 1..Len(s) - k PROVE b[i] = s[k + i]
    <3>1. b[i] = s[k + 1 + i - 1]
      BY <2>2, <2>4
    <3>2. k + 1 + i - 1 = k + i
      BY <1>1, <2>3, <2>6
    <3> QED BY <3>1, <3>2
  <2> QED BY <2>2, <2>5, <2>7
<1> HIDE DEF a, b
<1>5. PICK t : t = RemoveFirst(s, e) /\ t = a \o b
  BY <1>2 DEF a, b
<1>6. /\ t \in Seq(S) /\ Len(t) = Len(s) - 1
      /\ \A i \in 1..Len(s) - 1 : t[i] = IF i <= k - 1 THEN a[i] ELSE b[i - (k - 1)]
  <2>1. /\ a \o b \in Seq(S) /\ Len(a \o b) = Len(a) + Len(b)
        /\ \A i \in 1..Len(a) + Len(b) :
             (a \o b)[i] = IF i <= Len(a) THEN a[i] ELSE b[i - Len(a)]
    BY <1>3, <1>4, ConcatProperties
  <2>2. Len(a) + Len(b) = Len(s) - 1
    BY <1>1, <1>3, <1>4
  <2> QED BY <1>3, <1>5, <2>1, <2>2
<1>7. \A i \in 1..Len(s) - 1 : t[i] = IF i < k THEN s[i] ELSE s[i + 1]
  <2> SUFFICES ASSUME NEW i \in 1..Len(s) - 1 PROVE t[i] = IF i < k THEN s[i] ELSE s[i + 1]
    OBVIOUS
  <2>1. CASE i < k
    BY <1>3, <1>6, <2>1
  <2>2. CASE i >= k
    <3>1. i - (k - 1) \in 1..Len(s) - k /\ k + (i - (k - 1)) = i + 1 /\ ~(i <= k - 1)
      BY <1>1, <2>2
    <3> QED BY <1>4, <1>6, <2>2, <3>1
  <2> QED BY <1>1, <2>1, <2>2
<1>8. DOMAIN t = 1..Len(s) - 1
  BY <1>6, LenProperties
<1>9. ASSUME NEW x \in ToSet(t) PROVE x \in ToSet(s)
  <2>1. PICK i \in 1..Len(s) - 1 : x = t[i]
    BY <1>8 DEF ToSet
  <2>2. i \in DOMAIN s /\ i + 1 \in DOMAIN s
    BY <1>1
  <2>3. x = s[i] \/ x = s[i + 1]
    BY <1>7, <2>1
  <2> QED BY <2>2, <2>3 DEF ToSet
<1>10. ASSUME NEW x \in ToSet(s) \ {e} PROVE x \in ToSet(t)
  <2>1. PICK i \in 1..Len(s) : x = s[i]
    BY <1>1 DEF ToSet
  <2>2. CASE i < k
    <3>1. i \in DOMAIN t /\ t[i] = x
      BY <1>1, <1>7, <1>8, <2>1, <2>2
    <3> QED BY <3>1 DEF ToSet
  <2>3. CASE i > k
    <3>1. i - 1 \in 1..Len(s) - 1 /\ ~(i - 1 < k) /\ (i - 1) + 1 = i
      BY <1>1, <2>3
    <3>2. i - 1 \in DOMAIN t /\ t[i - 1] = x
      BY <1>7, <1>8, <2>1, <3>1
    <3> QED BY <3>2 DEF ToSet
  <2> QED BY <1>1, <1>2, <2>1, <2>2, <2>3
<1> QED BY <1>5, <1>6, <1>9, <1>10

-----------------------------------------------------------------------------
(* Types, and what a place in the code says of the local variables. *)

Labels ==
  {"idle", "lens", "clear", "claim", "create", "new", "name", "draft", "make", "pick", "select", "talk", "delete",
   "remaining", "issue", "disconnect", "save"}

Texts == {"link", "create", "new", "agent", "delete", "talk", None}

Locals ==
  [update: Nat, user: Users \cup {None}, row: Preference, lens: Nat, text: Texts \cup Forms]

\* What holds of local variables l at label, while box is Telegram's.
Fits(label, l, box) ==
  /\ label = "idle" <=> l = Idle
  /\ label # "idle" => l.user \in Users
  /\ l.update \in 0..Len(box)
  /\ label \in {"clear", "claim"} => l.update # 0 /\ box[l.update].text = "link"
  /\ label = "lens" => l.text \in {"delete", "talk"}
  /\ label = "save" => l.text \in Forms

RowsOK ==
  /\ pref \in [Users -> Preference] /\ desk \in [Users -> Seq(1..made)]
  /\ made \in Nat /\ issued \in Nat
  /\ joined \in Seq(SUBSET Chats) /\ Len(joined) = issued
  /\ typed \subseteq Users /\ raced \in BOOLEAN

BoxOK ==
  /\ inbox \in Seq(Updates)
  /\ \A i \in 1..Len(inbox) : inbox[i].text = "link" => inbox[i].arg \in 1..issued

ProcsOK ==
  /\ pc \in [Procs -> Labels] /\ mine \in [Procs -> Locals]
  /\ \A p \in Procs : Fits(pc[p], mine[p], inbox)

Typing == RowsOK /\ BoxOK /\ ProcsOK

\* A process goes to label with locals l.
Moves(p, label, l) ==
  /\ label \in Labels /\ l \in Locals /\ Fits(label, l, inbox')
  /\ pc' = [pc EXCEPT ![p] = label] /\ mine' = [mine EXCEPT ![p] = l]

\* Updates are not taken back or changed in what was sent.
BoxGrows ==
  /\ inbox' \in Seq(Updates) /\ Len(inbox) <= Len(inbox')
  /\ \A i \in 1..Len(inbox) : /\ inbox'[i].text = inbox[i].text /\ inbox'[i].arg = inbox[i].arg
                              /\ inbox'[i].chat = inbox[i].chat

LEMMA RowTypes ==
  ASSUME NEW row \in Preference
  PROVE  /\ row.chat \in Chats \cup {None} /\ row.on \in BOOLEAN
         /\ row.code \in Nat /\ row.active \in Nat
  BY DEF Preference

LEMMA IdleType == Idle \in Locals /\ NewPreference \in Preference
<1>1. NewPreference \in Preference
  BY DEF NewPreference, Preference
<1> QED BY <1>1 DEF Idle, Locals, Texts

LEMMA LocalTypes ==
  ASSUME NEW l \in Locals
  PROVE  /\ l.update \in Nat /\ l.user \in Users \cup {None} /\ l.row \in Preference
         /\ l.lens \in Nat /\ l.text \in Texts \cup Forms
  BY DEF Locals

LEMMA UpdateTypes ==
  ASSUME BoxOK, NEW i \in 1..Len(inbox)
  PROVE  /\ inbox[i] \in Updates
         /\ inbox[i].chat \in Chats /\ inbox[i].arg \in Nat
         /\ inbox[i].done \in BOOLEAN /\ inbox[i].again \in BOOLEAN /\ inbox[i].sole \in BOOLEAN
         /\ inbox[i].talking \subseteq Nat /\ inbox[i].erased \subseteq Nat
         /\ inbox[i].text \in {"link", "create", "new", "agent", "delete", "talk"}
<1>1. inbox[i] \in Updates
  BY ElementOfSeq DEF BoxOK
<1> QED BY <1>1 DEF Updates

\* A process that fits its place in a box fits it in a box that grew.
LEMMA StillFits ==
  ASSUME BoxOK, BoxGrows, NEW label, NEW l \in Locals, Fits(label, l, inbox)
  PROVE  Fits(label, l, inbox')
<1>1. Len(inbox) \in Nat /\ Len(inbox') \in Nat /\ l.update \in Nat
  BY LenProperties, LocalTypes DEF BoxOK, BoxGrows
<1>2. l.update \in 0..Len(inbox')
  BY <1>1 DEF Fits, BoxGrows
<1>3. label \in {"clear", "claim"} => l.update # 0 /\ inbox'[l.update].text = "link"
  BY <1>1 DEF Fits, BoxGrows
<1> QED BY <1>2, <1>3 DEF Fits

LEMMA MovesKeep ==
  ASSUME BoxOK, ProcsOK, BoxGrows, NEW p \in Procs, NEW label, NEW l, Moves(p, label, l)
  PROVE  ProcsOK'
<1>1. pc' \in [Procs -> Labels] /\ mine' \in [Procs -> Locals]
  BY DEF Moves, ProcsOK
<1>2. ASSUME NEW q \in Procs PROVE Fits(pc'[q], mine'[q], inbox')
  <2>1. CASE q = p
    BY <2>1 DEF Moves, ProcsOK
  <2>2. CASE q # p
    <3>1. pc'[q] = pc[q] /\ mine'[q] = mine[q] /\ mine[q] \in Locals
      BY <2>2 DEF Moves, ProcsOK
    <3>2. Fits(pc[q], mine[q], inbox)
      BY DEF ProcsOK
    <3> QED BY <3>1, <3>2, StillFits
  <2> QED BY <2>1, <2>2
<1> QED BY <1>1, <1>2 DEF ProcsOK

LEMMA StayKeeps ==
  ASSUME BoxOK, ProcsOK, BoxGrows, UNCHANGED <<pc, mine>>
  PROVE  ProcsOK'
<1>1. ASSUME NEW q \in Procs PROVE Fits(pc[q], mine[q], inbox')
  BY StillFits DEF ProcsOK
<1> QED BY <1>1 DEF ProcsOK

LEMMA GrownBox ==
  ASSUME BoxOK, BoxGrows, Len(inbox') = Len(inbox), issued \in Nat, issued' \in Nat,
         issued <= issued'
  PROVE  BoxOK'
<1>1. ASSUME NEW i \in 1..Len(inbox'), inbox'[i].text = "link" PROVE inbox'[i].arg \in 1..issued'
  <2>1. inbox[i].arg \in 1..issued /\ inbox'[i].arg = inbox[i].arg
    BY <1>1 DEF BoxOK, BoxGrows
  <2> QED BY <2>1
<1> QED BY <1>1 DEF BoxOK, BoxGrows

LEMMA SameBox ==
  ASSUME BoxOK, inbox' = inbox
  PROVE  BoxGrows /\ Len(inbox') = Len(inbox)
<1>1. Len(inbox) \in Nat
  BY LenProperties DEF BoxOK
<1> QED BY <1>1 DEF BoxOK, BoxGrows

\* One update is written to, but not what was sent.
LEMMA OneWritten ==
  ASSUME BoxOK, NEW i \in 1..Len(inbox), NEW u \in Updates, inbox' = [inbox EXCEPT ![i] = u],
         u.text = inbox[i].text, u.arg = inbox[i].arg, u.chat = inbox[i].chat
  PROVE  BoxGrows /\ Len(inbox') = Len(inbox)
<1>1. Len(inbox) \in Nat /\ inbox \in Seq(Updates)
  BY LenProperties DEF BoxOK
<1>2. /\ inbox' \in Seq(Updates) /\ Len(inbox') = Len(inbox)
      /\ \A j \in 1..Len(inbox) : inbox'[j] = IF j = i THEN u ELSE inbox[j]
  BY <1>1, ExceptSeq
<1> QED BY <1>1, <1>2 DEF BoxGrows

-----------------------------------------------------------------------------
(* The ways to end a step. *)

LEMMA Answers ==
  ASSUME RowsOK, BoxOK, ProcsOK, NEW p \in Procs, Answer(p), issued' \in Nat, issued <= issued'
  PROVE  BoxOK' /\ ProcsOK' /\ BoxGrows /\ Len(inbox') = Len(inbox)
<1>1. mine[p].update \in Nat /\ mine[p].update \in 0..Len(inbox)
  BY LocalTypes DEF ProcsOK, Fits
<1>2. BoxGrows /\ Len(inbox') = Len(inbox)
  <2>1. CASE mine[p].update = 0
    BY <2>1, SameBox DEF Answer
  <2>2. CASE mine[p].update # 0
    <3>1. PICK i \in 1..Len(inbox) : i = mine[p].update
      BY <1>1, <2>2
    <3>2. PICK u : u = [inbox[i] EXCEPT !.done = TRUE]
      OBVIOUS
    <3>3. inbox[i] \in Updates
      BY UpdateTypes
    <3>4. /\ u \in Updates /\ u.text = inbox[i].text /\ u.arg = inbox[i].arg
          /\ u.chat = inbox[i].chat
      BY <3>2, <3>3 DEF Updates
    <3>5. inbox' = [inbox EXCEPT ![i] = u]
      BY <2>2, <3>1, <3>2 DEF Answer
    <3> QED BY <3>4, <3>5, OneWritten
  <2> QED BY <2>1, <2>2
<1>3. issued \in Nat
  BY DEF RowsOK
<1>4. BoxOK'
  BY <1>2, <1>3, GrownBox
<1>5. Moves(p, "idle", Idle)
  <2>1. Idle \in Locals /\ Len(inbox') \in Nat
    BY IdleType, LenProperties, <1>2 DEF BoxGrows
  <2>2. Fits("idle", Idle, inbox')
    BY <2>1 DEF Fits, Idle
  <2> QED BY <2>1, <2>2 DEF Moves, Answer, Goto, Labels
<1> QED BY <1>2, <1>4, <1>5, MovesKeep

LEMMA Continues ==
  ASSUME RowsOK, BoxOK, ProcsOK, NEW p \in Procs, NEW label \in Labels, NEW l \in Locals,
         Continue(p, label, l), Fits(label, l, inbox), issued' \in Nat, issued <= issued'
  PROVE  BoxOK' /\ ProcsOK' /\ BoxGrows /\ Len(inbox') = Len(inbox)
<1>1. BoxGrows /\ Len(inbox') = Len(inbox) /\ issued \in Nat
  BY SameBox DEF Continue, RowsOK
<1>2. BoxOK'
  BY <1>1, GrownBox
<1>3. Fits(label, l, inbox')
  BY <1>1, StillFits
<1>4. Moves(p, label, l)
  BY <1>3 DEF Moves, Continue, Goto
<1> QED BY <1>1, <1>2, <1>4, MovesKeep

LEMMA Raises ==
  ASSUME RowsOK, BoxOK, ProcsOK, NEW p \in Procs, Raise(p), issued' \in Nat, issued <= issued'
  PROVE  BoxOK' /\ ProcsOK' /\ BoxGrows /\ Len(inbox') = Len(inbox)
<1>1. Continue(p, "idle", Idle)
  BY DEF Raise, Continue
<1>2. Len(inbox) \in Nat
  BY LenProperties DEF BoxOK
<1>3. Fits("idle", Idle, inbox)
  BY <1>2 DEF Fits, Idle
<1> QED BY <1>1, <1>3, IdleType, Continues DEF Labels

LEMMA DisturbedBox ==
  ASSUME BoxOK
  PROVE  /\ Disturbed \in Seq(Updates) /\ Len(Disturbed) = Len(inbox)
         /\ \A i \in 1..Len(inbox) :
              Disturbed[i] = IF inbox[i].done THEN inbox[i] ELSE [inbox[i] EXCEPT !.sole = FALSE]
<1>1. Len(inbox) \in Nat /\ DOMAIN inbox = 1..Len(inbox)
  BY LenProperties DEF BoxOK
<1>2. PICK d : d = Disturbed
  OBVIOUS
<1>3. /\ d = [i \in 1..Len(inbox) |-> IF inbox[i].done THEN inbox[i]
                                     ELSE [inbox[i] EXCEPT !.sole = FALSE]]
  BY <1>1, <1>2 DEF Disturbed
<1>4. ASSUME NEW i \in 1..Len(inbox) PROVE d[i] \in Updates
  <2>1. inbox[i] \in Updates
    BY UpdateTypes
  <2>2. [inbox[i] EXCEPT !.sole = FALSE] \in Updates
    BY <2>1 DEF Updates
  <2> QED BY <1>3, <2>1, <2>2
<1>5. d \in [1..Len(inbox) -> Updates]
  BY <1>3, <1>4
<1>6. d \in Seq(Updates) /\ Len(d) = Len(inbox)
  BY <1>1, <1>5
<1> QED BY <1>2, <1>3, <1>6

LEMMA DisturbedGrows ==
  ASSUME BoxOK
  PROVE  /\ inbox' = Disturbed => BoxGrows /\ Len(inbox') = Len(inbox)
         /\ \A u \in Updates : inbox' = Append(Disturbed, u) =>
              /\ BoxGrows /\ Len(inbox') = Len(inbox) + 1 /\ inbox'[Len(inbox) + 1] = u
              /\ \A i \in 1..Len(inbox) : inbox'[i] = Disturbed[i]
<1>1. Len(inbox) \in Nat /\ DOMAIN inbox = 1..Len(inbox)
  BY LenProperties DEF BoxOK
<1>2. PICK d : d = Disturbed
  OBVIOUS
<1>3. /\ d \in Seq(Updates) /\ Len(d) = Len(inbox)
      /\ \A i \in 1..Len(inbox) :
           d[i] = IF inbox[i].done THEN inbox[i] ELSE [inbox[i] EXCEPT !.sole = FALSE]
  BY <1>2, DisturbedBox
<1>4. ASSUME NEW i \in 1..Len(inbox)
      PROVE  d[i].text = inbox[i].text /\ d[i].arg = inbox[i].arg /\ d[i].chat = inbox[i].chat
  <2>1. inbox[i] \in Updates
    BY UpdateTypes
  <2>2. PICK e : e = [inbox[i] EXCEPT !.sole = FALSE]
    OBVIOUS
  <2>3. e.text = inbox[i].text /\ e.arg = inbox[i].arg /\ e.chat = inbox[i].chat
    BY <2>1, <2>2 DEF Updates
  <2>4. d[i] = inbox[i] \/ d[i] = e
    BY <1>3, <2>2
  <2> QED BY <2>3, <2>4
<1>5. ASSUME inbox' = d PROVE BoxGrows /\ Len(inbox') = Len(inbox)
  BY <1>1, <1>3, <1>4, <1>5 DEF BoxGrows
<1>6. ASSUME NEW u \in Updates, inbox' = Append(d, u)
      PROVE  /\ BoxGrows /\ Len(inbox') = Len(inbox) + 1 /\ inbox'[Len(inbox) + 1] = u
             /\ \A i \in 1..Len(inbox) : inbox'[i] = d[i]
  <2>1. /\ inbox' \in Seq(Updates) /\ Len(inbox') = Len(inbox) + 1
        /\ inbox'[Len(inbox) + 1] = u /\ \A i \in 1..Len(inbox) : inbox'[i] = d[i]
    BY <1>3, <1>6, AppendProperties
  <2> QED BY <1>1, <1>4, <2>1 DEF BoxGrows
<1> QED BY <1>2, <1>5, <1>6

-----------------------------------------------------------------------------
(* Every action keeps the types. *)

LEMMA Here ==
  ASSUME Typing, NEW p \in Procs
  PROVE  /\ mine[p] \in Locals /\ Fits(pc[p], mine[p], inbox)
         /\ mine[p].update \in 0..Len(inbox) /\ mine[p].row \in Preference /\ mine[p].lens \in Nat
         /\ pc[p] # "idle" => mine[p].user \in Users
         /\ issued \in Nat /\ issued <= issued /\ Len(inbox) \in Nat
<1>1. mine[p] \in Locals /\ Fits(pc[p], mine[p], inbox)
  BY DEF Typing, ProcsOK
<1> QED BY <1>1, LocalTypes, LenProperties DEF Typing, RowsOK, BoxOK, Fits

LEMMA SameRows ==
  ASSUME RowsOK, UNCHANGED rows, UNCHANGED hist
  PROVE  RowsOK' /\ issued' \in Nat /\ issued <= issued'
  BY DEF RowsOK, rows, hist

\* Only the preferences changed.
LEMMA PrefRows ==
  ASSUME RowsOK, pref' \in [Users -> Preference], UNCHANGED <<desk, made, issued, hist>>
  PROVE  RowsOK' /\ issued' \in Nat /\ issued <= issued'
  BY DEF RowsOK, hist

LEMMA ClearTyped ==
  ASSUME Typing, NEW p \in Procs, Clear(p)
  PROVE  Typing' /\ BoxGrows
<1>1. /\ pc[p] = "clear" /\ pref' = ClearOthers(p) /\ Continue(p, "claim", mine[p])
      /\ UNCHANGED <<desk, made, issued, hist>>
  BY DEF Clear
<1>2. pref' \in [Users -> Preference]
  <2>1. ASSUME NEW u \in Users PROVE [pref[u] EXCEPT !.chat = None, !.on = FALSE] \in Preference
    BY DEF Typing, RowsOK, Preference
  <2> QED BY <1>1, <2>1 DEF ClearOthers, Typing, RowsOK
<1>3. Fits("claim", mine[p], inbox)
  BY <1>1, Here DEF Fits
<1>4. RowsOK' /\ issued' \in Nat /\ issued <= issued'
  BY <1>1, <1>2, PrefRows DEF Typing
<1>5. BoxOK' /\ ProcsOK' /\ BoxGrows
  BY <1>1, <1>3, <1>4, Here, Continues DEF Typing, Labels
<1> QED BY <1>4, <1>5 DEF Typing

LEMMA ClaimTyped ==
  ASSUME Typing, NEW p \in Procs, Claim(p)
  PROVE  Typing' /\ BoxGrows
<1>1. /\ mine[p].user \in Users /\ mine[p].update \in 1..Len(inbox)
      /\ inbox[mine[p].update].text = "link"
  <2>1. pc[p] = "claim"
    BY DEF Claim
  <2> QED BY <2>1, Here DEF Fits
<1>2. PICK u \in Users, i \in 1..Len(inbox) :
        u = mine[p].user /\ i = mine[p].update /\ inbox[i].text = "link"
  BY <1>1
<1>3. inbox[i].chat \in Chats /\ inbox[i].arg \in 1..issued
  BY <1>2, UpdateTypes DEF Typing, BoxOK
<1>4. pref' = [pref EXCEPT ![u] = [@ EXCEPT !.chat = inbox[i].chat, !.on = TRUE, !.code = 0]]
  BY <1>2 DEF Claim, Spend
<1>5. pref' \in [Users -> Preference]
  BY <1>3, <1>4 DEF Typing, RowsOK, Preference
<1>6. joined' \in Seq(SUBSET Chats) /\ Len(joined') = issued
  <2>1. joined \in Seq(SUBSET Chats) /\ Len(joined) = issued
    BY DEF Typing, RowsOK
  <2>2. PICK c \in 1..Len(joined) : c = inbox[i].arg
    BY <1>3, <2>1
  <2>3. joined[c] \in SUBSET Chats
    BY <2>1, ElementOfSeq
  <2>4. PICK e \in SUBSET Chats : e = joined[c] \cup {inbox[i].chat}
    BY <1>3, <2>3
  <2>5. joined' = [joined EXCEPT ![c] = e]
    BY <1>2, <2>2, <2>4 DEF Claim
  <2> QED BY <2>1, <2>5, ExceptSeq
<1>7. raced' \in BOOLEAN /\ typed' \subseteq Users
  BY DEF Claim, Typing, RowsOK
<1>8. RowsOK' /\ issued' \in Nat /\ issued <= issued'
  <2>1. UNCHANGED <<desk, made, issued>>
    BY DEF Claim
  <2> QED BY <1>5, <1>6, <1>7, <2>1 DEF Typing, RowsOK
<1>9. BoxOK' /\ ProcsOK' /\ BoxGrows
  BY <1>8, Answers DEF Typing, Claim
<1> QED BY <1>8, <1>9 DEF Typing

LEMMA SelectTyped ==
  ASSUME Typing, NEW p \in Procs, Select(p)
  PROVE  Typing' /\ BoxGrows
<1>1. pc[p] = "select" /\ UNCHANGED <<desk, made, issued, hist>>
  BY DEF Select
<1>2. PICK u \in Users : u = mine[p].user
  BY <1>1, Here
<1>3. pref' \in [Users -> Preference]
  <2>1. [pref[u] EXCEPT !.active = mine[p].lens] \in Preference
    BY Here DEF Typing, RowsOK, Preference
  <2>2. pref' = pref \/ pref' = [pref EXCEPT ![u] = [pref[u] EXCEPT !.active = mine[p].lens]]
    BY <1>2 DEF Select
  <2> QED BY <2>1, <2>2 DEF Typing, RowsOK
<1>4. RowsOK' /\ issued' \in Nat /\ issued <= issued'
  BY <1>1, <1>3, PrefRows DEF Typing
<1>5. BoxOK' /\ ProcsOK' /\ BoxGrows
  <2>1. CASE Answer(p)
    BY <1>4, <2>1, Answers DEF Typing
  <2>2. CASE Raise(p)
    BY <1>4, <2>2, Raises DEF Typing
  <2>3. CASE mine[p].text \in {"delete", "talk"} /\ Continue(p, mine[p].text, mine[p])
    <3>1. PICK label \in {"delete", "talk"} : label = mine[p].text /\ Continue(p, label, mine[p])
      BY <2>3
    <3>2. mine[p] # Idle
      BY <1>1, Here DEF Fits
    <3>3. Fits(label, mine[p], inbox)
      BY <1>2, <3>2, Here DEF Fits
    <3> QED BY <1>4, <3>1, <3>3, Here, Continues DEF Typing, Labels
  <2> QED BY <2>1, <2>2, <2>3 DEF Select
<1> QED BY <1>4, <1>5 DEF Typing

\* A Lens that is saved stays where it was but for the order.
LEMMA SavedDesk ==
  ASSUME Typing, NEW u \in Users, NEW lens, desk' = Saved(u, lens)
  PROVE  /\ desk' \in [Users -> Seq(1..made)]
         /\ \A v \in Users : ToSet(desk'[v]) = ToSet(desk[v])
<1>1. desk[u] \in Seq(1..made) /\ desk \in [Users -> Seq(1..made)]
  BY DEF Typing, RowsOK
<1>2. CASE lens \in ToSet(desk[u])
  <2>1. PICK s : s = <<lens>> \o RemoveFirst(desk[u], lens)
    OBVIOUS
  <2>2. /\ lens \in 1..made /\ RemoveFirst(desk[u], lens) \in Seq(1..made)
        /\ ToSet(RemoveFirst(desk[u], lens)) \subseteq ToSet(desk[u])
        /\ ToSet(desk[u]) \ {lens} \subseteq ToSet(RemoveFirst(desk[u], lens))
    BY <1>1, <1>2, Members, Removing
  <2>3. s \in Seq(1..made) /\ ToSet(s) = {lens} \cup ToSet(RemoveFirst(desk[u], lens))
    BY <2>1, <2>2, InFront
  <2>4. ToSet(s) = ToSet(desk[u])
    BY <1>2, <2>2, <2>3
  <2>5. desk' = [desk EXCEPT ![u] = s]
    BY <1>2, <2>1 DEF Saved
  <2> QED BY <1>1, <2>3, <2>4, <2>5
<1>3. CASE lens \notin ToSet(desk[u])
  <2>1. desk' = desk
    BY <1>1, <1>3 DEF Saved
  <2> QED BY <1>1, <2>1
<1> QED BY <1>2, <1>3

\* What a look for a blank Lens does: it goes on to make one, or one is found.
LEMMA LookCases ==
  ASSUME Typing, NEW p \in Procs, Look(p)
  PROVE  /\ pc[p] \in {"new", "draft"} /\ UNCHANGED <<pref, made, issued, hist>>
         /\ mine[p].user \in Users
         /\ \/ desk' = desk /\ \E label \in {"name", "make"} : Continue(p, label, mine[p])
            \/ \E lens \in ToSet(desk[mine[p].user]) :
                 /\ Answer(p) \/ Continue(p, "select", [mine[p] EXCEPT !.lens = lens])
                 /\ desk' = desk \/ desk' = Saved(mine[p].user, lens)
<1>1. pc[p] \in {"new", "draft"} /\ UNCHANGED <<pref, made, issued, hist>>
  BY DEF Look
<1>2. mine[p].user \in Users
  BY <1>1, Here
<1>3. CASE desk' = desk /\ Continue(p, IF pc[p] = "new" THEN "name" ELSE "make", mine[p])
  BY <1>1, <1>2, <1>3
<1>4. ASSUME NEW i \in DOMAIN desk[mine[p].user],
             IF pc[p] = "draft" THEN Answer(p)
             ELSE Continue(p, "select", [mine[p] EXCEPT !.lens = desk[mine[p].user][i]]),
             desk' = desk \/ desk' = Saved(mine[p].user, desk[mine[p].user][i])
      PROVE  \E lens \in ToSet(desk[mine[p].user]) :
               /\ Answer(p) \/ Continue(p, "select", [mine[p] EXCEPT !.lens = lens])
               /\ desk' = desk \/ desk' = Saved(mine[p].user, lens)
  <2>1. desk[mine[p].user][i] \in ToSet(desk[mine[p].user])
    BY <1>4 DEF ToSet
  <2> QED BY <1>4, <2>1
<1> QED BY <1>1, <1>2, <1>3, <1>4 DEF Look

\* Goes on with a Lens in hand.
LEMMA TakesLens ==
  ASSUME RowsOK, BoxOK, ProcsOK, NEW p \in Procs, mine[p].user \in Users, NEW lens \in Nat,
         Continue(p, "select", [mine[p] EXCEPT !.lens = lens]), issued' \in Nat, issued <= issued'
  PROVE  BoxOK' /\ ProcsOK' /\ BoxGrows
<1>1. PICK l : l = [mine[p] EXCEPT !.lens = lens]
  OBVIOUS
<1>2. mine[p] \in Locals /\ Fits(pc[p], mine[p], inbox)
  BY DEF ProcsOK
<1>3. l \in Locals /\ l.user = mine[p].user /\ l.update = mine[p].update
  BY <1>1, <1>2 DEF Locals
<1>4. l # Idle
  BY <1>3, DeskAssumption DEF Idle
<1>5. Fits("select", l, inbox)
  BY <1>2, <1>3, <1>4 DEF Fits
<1> QED BY <1>1, <1>3, <1>5, Continues DEF Labels

LEMMA LookTyped ==
  ASSUME Typing, NEW p \in Procs, Look(p)
  PROVE  Typing' /\ BoxGrows
<1>1. /\ pc[p] \in {"new", "draft"} /\ mine[p].user \in Users
      /\ UNCHANGED <<pref, made, issued, hist>>
  BY LookCases
<1>2. desk' \in [Users -> Seq(1..made)]
  <2>1. desk \in [Users -> Seq(1..made)]
    BY DEF Typing, RowsOK
  <2> QED BY <1>1, <2>1, LookCases, SavedDesk
<1>3. RowsOK' /\ issued' \in Nat /\ issued <= issued'
  BY <1>1, <1>2 DEF Typing, RowsOK, hist
<1>4. CASE Answer(p)
  BY <1>3, <1>4, Answers DEF Typing
<1>5. ASSUME NEW label \in {"name", "make"}, Continue(p, label, mine[p]) PROVE Typing' /\ BoxGrows
  <2>1. mine[p] # Idle
    BY <1>1, Here DEF Fits
  <2>2. Fits(label, mine[p], inbox)
    BY <1>1, <2>1, Here DEF Fits
  <2>3. BoxOK' /\ ProcsOK' /\ BoxGrows
    BY <1>3, <1>5, <2>2, Here, Continues DEF Typing, Labels
  <2> QED BY <1>3, <2>3 DEF Typing
<1>6. ASSUME NEW lens \in ToSet(desk[mine[p].user]),
             Continue(p, "select", [mine[p] EXCEPT !.lens = lens])
      PROVE  Typing' /\ BoxGrows
  <2>1. desk[mine[p].user] \in Seq(1..made) /\ made \in Nat
    BY <1>1 DEF Typing, RowsOK
  <2>2. lens \in 1..made
    BY <1>6, <2>1, Members
  <2>3. BoxOK' /\ ProcsOK' /\ BoxGrows
    BY <1>1, <1>3, <1>6, <2>1, <2>2, TakesLens DEF Typing
  <2> QED BY <1>3, <2>3 DEF Typing
<1> QED BY <1>4, <1>5, <1>6, LookCases

\* A Lens is made, or its name is refused and nothing is.
LEMMA CreateCases ==
  ASSUME NEW p \in Procs, Create(p)
  PROVE  /\ pc[p] \in {"create", "name", "make"} /\ UNCHANGED <<pref, issued, hist>>
         /\ \/ Raise(p) /\ UNCHANGED <<made, desk>>
            \/ /\ made' = made + 1
               /\ desk' = [desk EXCEPT ![mine[p].user] = <<made + 1>> \o @]
               /\ Answer(p) \/ Continue(p, "select", [mine[p] EXCEPT !.lens = made + 1])
  BY DEF Create

LEMMA CreateTyped ==
  ASSUME Typing, NEW p \in Procs, Create(p)
  PROVE  Typing' /\ BoxGrows
<1>1. pc[p] \in {"create", "name", "make"} /\ UNCHANGED <<pref, issued, hist>>
  BY CreateCases
<1>2. PICK u \in Users : u = mine[p].user
  BY <1>1, Here
<1>3. made \in Nat /\ desk \in [Users -> Seq(1..made)]
  BY DEF Typing, RowsOK
<1>4. CASE Raise(p) /\ UNCHANGED <<made, desk>>
  <2>1. RowsOK' /\ issued' \in Nat /\ issued <= issued'
    BY <1>1, <1>4 DEF Typing, RowsOK, hist
  <2> QED BY <1>4, <2>1, Raises DEF Typing
<1>5. CASE /\ made' = made + 1 /\ desk' = [desk EXCEPT ![u] = <<made + 1>> \o @]
           /\ Answer(p) \/ Continue(p, "select", [mine[p] EXCEPT !.lens = made + 1])
  <2>1. desk' \in [Users -> Seq(1..made')]
    <3>1. ASSUME NEW v \in Users PROVE desk[v] \in Seq(1..made')
      <4>1. 1..made \subseteq 1..made'
        BY <1>3, <1>5
      <4> QED BY <1>3, <4>1, SeqMonotonic
    <3>2. <<made + 1>> \o desk[u] \in Seq(1..made')
      <4>1. made + 1 \in 1..made'
        BY <1>3, <1>5
      <4> QED BY <3>1, <4>1, InFront
    <3> QED BY <1>3, <1>5, <3>1, <3>2
  <2>2. RowsOK' /\ issued' \in Nat /\ issued <= issued'
    BY <1>1, <1>3, <1>5, <2>1 DEF Typing, RowsOK, hist
  <2>3. PICK n \in Nat : n = made + 1
    BY <1>3
  <2>4. BoxOK' /\ ProcsOK' /\ BoxGrows
    BY <1>2, <1>5, <2>2, <2>3, Answers, TakesLens DEF Typing
  <2> QED BY <2>2, <2>4 DEF Typing
<1> QED BY <1>2, <1>4, <1>5, CreateCases

LEMMA PickTyped ==
  ASSUME Typing, NEW p \in Procs, Pick(p)
  PROVE  Typing' /\ BoxGrows
<1>1. RowsOK' /\ issued' \in Nat /\ issued <= issued'
  BY SameRows DEF Pick, Typing
<1>2. CASE Answer(p)
  BY <1>1, <1>2, Answers DEF Typing
<1>3. CASE Continue(p, "select", mine[p])
  <2>1. mine[p] # Idle /\ mine[p].user \in Users
    BY Here DEF Pick, Fits
  <2>2. Fits("select", mine[p], inbox)
    BY <2>1, Here DEF Fits
  <2> QED BY <1>1, <1>3, <2>2, Here, Continues DEF Typing, Labels
<1>4. CASE Raise(p)
  BY <1>1, <1>4, Raises DEF Typing
<1> QED BY <1>2, <1>3, <1>4 DEF Pick

LEMMA FindLensTyped ==
  ASSUME Typing, NEW p \in Procs, FindLens(p)
  PROVE  Typing' /\ BoxGrows
<1>1. RowsOK' /\ issued' \in Nat /\ issued <= issued'
  BY SameRows DEF FindLens, Typing
<1>2. CASE Answer(p)
  BY <1>1, <1>2, Answers DEF Typing
<1>3. CASE Raise(p)
  BY <1>1, <1>3, Raises DEF Typing
<1>4. pc[p] = "lens"
  BY DEF FindLens
<1>5. mine[p] # Idle /\ mine[p].user \in Users /\ mine[p].text \in {"delete", "talk"}
  BY <1>4, Here DEF Fits
<1>6. ASSUME NEW lens \in Nat, NEW label \in {"select", "delete", "talk"},
             Continue(p, label, [mine[p] EXCEPT !.lens = lens])
      PROVE  Typing' /\ BoxGrows
  <2>1. PICK l : l = [mine[p] EXCEPT !.lens = lens]
    OBVIOUS
  <2>2. /\ l \in Locals /\ l.user = mine[p].user /\ l.update = mine[p].update
        /\ l.text = mine[p].text
    BY <2>1, Here DEF Locals
  <2>3. l # Idle
    <3>1. Idle.user = None /\ None \notin Users
      BY DeskAssumption DEF Idle
    <3> QED BY <1>5, <2>2, <3>1
  <2>4. Fits(label, l, inbox)
    BY <1>5, <2>2, <2>3, Here DEF Fits
  <2>5. BoxOK' /\ ProcsOK' /\ BoxGrows
    BY <1>1, <1>6, <2>1, <2>2, <2>4, Continues DEF Typing, Labels
  <2> QED BY <1>1, <2>5 DEF Typing
<1>7. CASE Continue(p, mine[p].text, [mine[p] EXCEPT !.lens = mine[p].row.active])
  BY <1>5, <1>6, <1>7, Here, RowTypes
<1>8. CASE Continue(p, "select", [mine[p] EXCEPT !.lens = Newest(mine[p].user)])
      /\ Newest(mine[p].user) # 0
  <2>1. PICK u \in Users : u = mine[p].user
    BY <1>5
  <2>2. desk[u] \in Seq(1..made)
    BY DEF Typing, RowsOK
  <2>3. Newest(u) \in 1..made
    BY <1>8, <2>1, <2>2, Members DEF Newest
  <2> QED BY <1>6, <1>8, <2>1, <2>3 DEF Typing, RowsOK
<1> QED BY <1>2, <1>3, <1>7, <1>8 DEF FindLens

LEMMA TalkTyped ==
  ASSUME Typing, NEW p \in Procs, Talk(p)
  PROVE  Typing' /\ BoxGrows
<1>1. PICK u \in Users, lens \in Nat : u = mine[p].user /\ lens = mine[p].lens
  BY Here DEF Talk
<1>2. desk' = desk \/ desk' = Saved(u, lens)
  BY <1>1 DEF Talk
<1>3. desk' \in [Users -> Seq(1..made)]
  BY <1>2, SavedDesk DEF Typing, RowsOK
<1>4. RowsOK' /\ issued' \in Nat /\ issued <= issued'
  BY <1>3 DEF Talk, Typing, RowsOK, hist
<1>5. BoxOK' /\ ProcsOK' /\ BoxGrows
  BY <1>4, Answers, Raises DEF Talk, Typing
<1> QED BY <1>4, <1>5 DEF Typing

LEMMA DeleteTyped ==
  ASSUME Typing, NEW p \in Procs, Delete(p)
  PROVE  Typing' /\ BoxGrows
<1>1. PICK u \in Users, lens \in Nat : u = mine[p].user /\ lens = mine[p].lens
  BY Here DEF Delete
<1>2. desk' \in [Users -> Seq(1..made)]
  <2>1. desk[u] \in Seq(1..made) /\ desk \in [Users -> Seq(1..made)]
    BY DEF Typing, RowsOK
  <2>2. desk' = [desk EXCEPT ![u] = IF lens \in ToSet(@) THEN RemoveFirst(@, lens) ELSE @]
    BY <1>1 DEF Delete
  <2> QED BY <2>1, <2>2, Removing
<1>3. pref' \in [Users -> Preference]
  <2>1. ASSUME NEW v \in Users PROVE [pref[v] EXCEPT !.active = 0] \in Preference
    BY DEF Typing, RowsOK, Preference
  <2> QED BY <2>1 DEF Delete, Forget, Typing, RowsOK
<1>4. RowsOK' /\ issued' \in Nat /\ issued <= issued'
  BY <1>2, <1>3 DEF Delete, Typing, RowsOK, hist
<1>5. BoxGrows /\ Len(inbox') = Len(inbox)
  <2>1. CASE inbox' = inbox
    BY <2>1, SameBox DEF Typing
  <2>2. CASE /\ mine[p].update # 0
             /\ inbox' = [inbox EXCEPT ![mine[p].update].erased = @ \cup {lens}]
    <3>1. PICK i \in 1..Len(inbox) : i = mine[p].update
      BY <2>2, Here
    <3>2. PICK e \in SUBSET Nat : e = inbox[i].erased \cup {lens}
      BY UpdateTypes DEF Typing
    <3>3. PICK w : w = [inbox[i] EXCEPT !.erased = e]
      OBVIOUS
    <3>4. w \in Updates /\ w.text = inbox[i].text /\ w.arg = inbox[i].arg /\ w.chat = inbox[i].chat
      BY <3>3, UpdateTypes DEF Typing, Updates
    <3>5. inbox' = [inbox EXCEPT ![i] = w]
      BY <2>2, <3>1, <3>2, <3>3
    <3> QED BY <3>4, <3>5, OneWritten DEF Typing
  <2> QED BY <1>1, <2>1, <2>2 DEF Delete
<1>6. BoxOK'
  BY <1>4, <1>5, GrownBox DEF Typing, RowsOK
<1>7. ProcsOK'
  <2>1. mine[p] # Idle
    BY Here DEF Delete, Fits
  <2>2. Fits("remaining", mine[p], inbox)
    BY <1>1, <2>1, Here DEF Fits
  <2>3. Fits("remaining", mine[p], inbox')
    BY <1>5, <2>2, Here, StillFits DEF Typing
  <2>4. Moves(p, "remaining", mine[p])
    BY <2>3, Here DEF Moves, Delete, Goto, Labels
  <2> QED BY <1>5, <2>4, MovesKeep DEF Typing
<1> QED BY <1>4, <1>5, <1>6, <1>7 DEF Typing

\* A process that gives up changes nothing else.
LEMMA GivesUpTyped ==
  ASSUME Typing, NEW p \in Procs, Lose(p) \/ DeleteRefused(p)
  PROVE  Typing' /\ BoxGrows
<1>1. RowsOK' /\ issued' \in Nat /\ issued <= issued'
  BY SameRows DEF Lose, DeleteRefused, Typing
<1>2. BoxGrows /\ Len(inbox') = Len(inbox)
  BY SameBox DEF Lose, DeleteRefused, Typing
<1>3. BoxOK'
  BY <1>1, <1>2, GrownBox DEF Typing, RowsOK
<1>4. Idle \in Locals /\ Len(inbox') \in Nat
  BY IdleType, <1>3, LenProperties DEF BoxOK
<1>5. Moves(p, "idle", Idle)
  <2>1. Fits("idle", Idle, inbox')
    BY <1>4 DEF Fits, Idle
  <2> QED BY <1>4, <2>1 DEF Moves, Lose, DeleteRefused, Goto, Labels
<1> QED BY <1>1, <1>2, <1>3, <1>5, MovesKeep DEF Typing

LEMMA RemainingTyped ==
  ASSUME Typing, NEW p \in Procs, Remaining(p)
  PROVE  Typing' /\ BoxGrows
<1>1. RowsOK' /\ issued' \in Nat /\ issued <= issued'
  BY SameRows DEF Remaining, Typing
<1>2. CASE Answer(p)
  BY <1>1, <1>2, Answers DEF Typing
<1>3. PICK u \in Users : u = mine[p].user
  BY Here DEF Remaining
<1>4. CASE /\ Newest(u) # 0
           /\ Continue(p, "select", [mine[p] EXCEPT !.lens = Newest(u), !.text = None])
  <2>1. desk[u] \in Seq(1..made) /\ made \in Nat
    BY DEF Typing, RowsOK
  <2>2. PICK lens \in Nat : lens = Newest(u)
    BY <1>4, <2>1, Members DEF Newest
  <2>3. PICK l : l = [mine[p] EXCEPT !.lens = lens, !.text = None]
    OBVIOUS
  <2>4. l \in Locals /\ l.user = u /\ l.update = mine[p].update
    BY <1>3, <2>3, Here DEF Locals, Texts
  <2>5. l # Idle
    BY <2>4, DeskAssumption DEF Idle
  <2>6. Fits("select", l, inbox)
    BY <2>4, <2>5, Here DEF Fits
  <2>7. BoxOK' /\ ProcsOK' /\ BoxGrows
    BY <1>1, <1>4, <2>2, <2>3, <2>4, <2>6, Continues DEF Typing, Labels
  <2> QED BY <1>1, <2>7 DEF Typing
<1> QED BY <1>2, <1>3, <1>4 DEF Remaining

LEMMA IssueTyped ==
  ASSUME Typing, NEW p \in Procs, Issue(p)
  PROVE  Typing' /\ BoxGrows
<1>1. PICK u \in Users : u = mine[p].user
  BY Here DEF Issue
<1>2. RowsOK' /\ issued' \in Nat /\ issued <= issued'
  <2>1. CASE UNCHANGED <<pref, issued, joined>>
    BY <2>1 DEF Issue, Typing, RowsOK
  <2>2. CASE /\ issued' = issued + 1 /\ pref' = [pref EXCEPT ![u].code = NewCode]
             /\ joined' = Append(joined, {})
    <3>1. issued \in Nat /\ joined \in Seq(SUBSET Chats) /\ Len(joined) = issued
      BY DEF Typing, RowsOK
    <3>2. PICK code \in Nat : code = NewCode
      BY <3>1 DEF NewCode
    <3>3. [pref[u] EXCEPT !.code = code] \in Preference
      BY DEF Typing, RowsOK, Preference
    <3>4. pref' \in [Users -> Preference]
      BY <2>2, <3>2, <3>3 DEF Typing, RowsOK
    <3>5. joined' \in Seq(SUBSET Chats) /\ Len(joined') = issued'
      BY <2>2, <3>1, AppendProperties
    <3> QED BY <2>2, <3>1, <3>4, <3>5 DEF Issue, Typing, RowsOK
  <2> QED BY <1>1, <2>1, <2>2 DEF Issue
<1>3. BoxOK' /\ ProcsOK' /\ BoxGrows
  BY <1>2, Answers DEF Issue, Typing
<1> QED BY <1>2, <1>3 DEF Typing

LEMMA DisconnectTyped ==
  ASSUME Typing, NEW p \in Procs, Disconnect(p)
  PROVE  Typing' /\ BoxGrows
<1>1. PICK u \in Users : u = mine[p].user
  BY Here DEF Disconnect
<1>2. pref' = [pref EXCEPT ![u] = [@ EXCEPT !.chat = None, !.on = FALSE]]
  BY <1>1 DEF Disconnect
<1>3. pref' \in [Users -> Preference]
  BY <1>2 DEF Typing, RowsOK, Preference
<1>4. RowsOK' /\ issued' \in Nat /\ issued <= issued'
  BY <1>3 DEF Disconnect, Typing, RowsOK
<1>5. BoxOK' /\ ProcsOK' /\ BoxGrows
  BY <1>4, Answers DEF Disconnect, Typing
<1> QED BY <1>4, <1>5 DEF Typing

LEMMA SaveSettingsTyped ==
  ASSUME Typing, NEW p \in Procs, SaveSettings(p)
  PROVE  Typing' /\ BoxGrows
<1>1. PICK u \in Users : u = mine[p].user
  BY Here DEF SaveSettings
<1>2. mine[p].text \in Forms /\ mine[p].row \in Preference
  BY Here DEF SaveSettings, Fits
<1>3. RowsOK' /\ issued' \in Nat /\ issued <= issued'
  <2>1. PICK row : row = [mine[p].row EXCEPT !.chat = mine[p].text.chat, !.on = mine[p].text.on]
    OBVIOUS
  <2>2. row \in Preference
    <3>1. mine[p].text.chat \in Chats \cup {None} /\ mine[p].text.on \in BOOLEAN
      BY <1>2, DeskAssumption
    <3> QED BY <1>2, <2>1, <3>1 DEF Preference
  <2>3. pref' = pref \/ pref' = [pref EXCEPT ![u] = row]
    BY <1>1, <2>1 DEF SaveSettings
  <2>4. pref' \in [Users -> Preference]
    BY <2>2, <2>3 DEF Typing, RowsOK
  <2>5. typed' \subseteq Users /\ raced' \in BOOLEAN
    BY <1>1 DEF SaveSettings, Typing, RowsOK
  <2> QED BY <2>4, <2>5 DEF SaveSettings, Typing, RowsOK
<1>4. CASE Answer(p)
  BY <1>3, <1>4, Answers DEF Typing
<1>5. CASE Raise(p)
  BY <1>3, <1>5, Raises DEF Typing
<1> QED BY <1>4, <1>5 DEF SaveSettings

\* Codes are those that were issued (part of CodesAreOwned below).
CodesIssued == \A u \in Users : pref[u].code # 0 => pref[u].code \in 1..issued

\* A message just sent.
Sent(u) ==
  /\ u \in Updates /\ ~u.done /\ ~u.again /\ u.sole = Quiet /\ u.erased = {}
  /\ u.talking = {Talking(v) : v \in {w \in Users : Speaks(u.chat, w)}}

LEMMA TalkingType ==
  ASSUME Typing, NEW u \in Users
  PROVE  Talking(u) \in Nat
<1>1. pref[u].active \in Nat /\ desk[u] \in Seq(1..made)
  BY RowTypes DEF Typing, RowsOK
<1>2. desk[u] # <<>> => Head(desk[u]) \in 1..made
  BY <1>1, Members
<1> QED BY <1>1, <1>2 DEF Talking

LEMMA SendTyped ==
  ASSUME Typing, CodesIssued, SendSome
  PROVE  /\ Typing' /\ BoxGrows /\ UNCHANGED <<rows, pc, mine, hist>>
         /\ \E u : Sent(u) /\ inbox' = Append(Disturbed, u)
<1>1. PICK chat \in Chats, text \in {"link", "create", "new", "agent", "delete", "talk"}, arg \in Nat :
        /\ Send(chat, text, arg)
        /\ text = "link" => arg \in 1..issued
  <2>1. ASSUME NEW chat \in Chats, NEW u \in Users, pref[u].code # 0,
               Send(chat, "link", pref[u].code)
        PROVE  \E arg \in Nat : Send(chat, "link", arg) /\ arg \in 1..issued
    BY <2>1, RowTypes DEF Typing, RowsOK, CodesIssued
  <2>2. ASSUME NEW chat \in Chats, NEW lens \in 0..made, Send(chat, "agent", lens)
        PROVE  \E arg \in Nat : Send(chat, "agent", arg)
    BY <2>2
  <2>3. ASSUME NEW chat \in Chats, NEW text \in {"new", "delete", "talk"}, Send(chat, text, 0)
        PROVE  \E arg \in Nat : Send(chat, text, arg)
    BY <2>3
  <2>4. ASSUME NEW chat \in Chats, NEW fit \in 0..1, Send(chat, "create", fit)
        PROVE  \E arg \in Nat : Send(chat, "create", arg)
    BY <2>4
  <2> QED BY <2>1, <2>2, <2>3, <2>4 DEF SendSome
<1>2. PICK u :
        u = [chat |-> chat, text |-> text, arg |-> arg, done |-> FALSE, again |-> FALSE,
             sole |-> Quiet,
             talking |-> {Talking(w) : w \in {v \in Users : Speaks(chat, v)}}, erased |-> {}]
  OBVIOUS
<1>3. inbox' = Append(Disturbed, u) /\ UNCHANGED <<rows, pc, mine, hist>>
  BY <1>1, <1>2 DEF Send
<1>4. u.chat = chat /\ u.text = text /\ u.arg = arg
  BY <1>2
<1>5. Sent(u)
  <2>1. PICK b \in BOOLEAN : b = Quiet
    BY DEF Quiet
  <2>2. PICK t \in SUBSET Nat : t = {Talking(w) : w \in {v \in Users : Speaks(chat, v)}}
    BY TalkingType
  <2>3. u = [chat |-> chat, text |-> text, arg |-> arg, done |-> FALSE, again |-> FALSE,
             sole |-> b, talking |-> t, erased |-> {}]
    BY <1>2, <2>1, <2>2
  <2>4. u \in Updates
    BY <2>3 DEF Updates
  <2>5. ~u.done /\ ~u.again /\ u.sole = b /\ u.erased = {} /\ u.talking = t
    BY <2>3
  <2> QED BY <1>4, <2>1, <2>2, <2>4, <2>5 DEF Sent
<1>6. /\ BoxGrows /\ Len(inbox') = Len(inbox) + 1 /\ inbox'[Len(inbox) + 1] = u
  BY <1>3, <1>5, DisturbedGrows DEF Typing, Sent
<1>7. RowsOK' /\ issued' = issued
  BY <1>3, SameRows DEF Typing, rows
<1>8. BoxOK'
  <2>1. Len(inbox) \in Nat
    BY LenProperties DEF Typing, BoxOK
  <2> SUFFICES ASSUME NEW i \in 1..Len(inbox'), inbox'[i].text = "link"
               PROVE  inbox'[i].arg \in 1..issued
    BY <1>6, <1>7 DEF BoxOK, BoxGrows
  <2>2. CASE i = Len(inbox) + 1
    BY <1>1, <1>4, <1>6, <2>2
  <2>3. CASE i # Len(inbox) + 1
    <3>1. i \in 1..Len(inbox)
      BY <1>6, <2>1, <2>3
    <3> QED BY <1>6, <3>1 DEF BoxGrows, Typing, BoxOK
  <2> QED BY <2>2, <2>3
<1>9. ProcsOK'
  BY <1>3, <1>6, StayKeeps DEF Typing
<1> QED BY <1>3, <1>5, <1>7, <1>8, <1>6, <1>9 DEF Typing

\* The place where the handling of an update begins, and what it begins with.
Place(text) ==
  CASE text = "link" -> "clear" [] text \in {"create", "new"} -> text [] text = "agent" -> "pick"
    [] OTHER -> "lens"

Begun(i, u) ==
  [update |-> i, user |-> u, row |-> pref[u],
   lens |-> IF Place(inbox[i].text) = "pick" THEN inbox[i].arg ELSE 0, text |-> inbox[i].text]

Owners(i) ==
  IF inbox[i].text = "link" THEN {u \in Users : pref[u].code = inbox[i].arg}
  ELSE {u \in Users : Speaks(inbox[i].chat, u)}

Delivered(i, none) ==
  [inbox[i] EXCEPT !.again = TRUE, !.sole = inbox[i].sole /\ ~inbox[i].again, !.done = none]

\* A delivery: the update is answered at once, or a process takes it.
LEMMA DeliverCases ==
  ASSUME NEW p, NEW i \in DOMAIN inbox, Deliver(p, i)
  PROVE  /\ pc[p] = "idle" /\ ~inbox[i].done /\ UNCHANGED <<rows, asked, hist>>
         /\ \/ UNCHANGED <<pc, mine>> /\ inbox' = [inbox EXCEPT ![i] = Delivered(i, TRUE)]
            \/ /\ inbox' = [inbox EXCEPT ![i] = Delivered(i, FALSE)]
               /\ \E u \in Owners(i) : Goto(p, Place(inbox[i].text), Begun(i, u))
<1> DEFINE owners == IF inbox[i].text = "link" THEN {u \in Users : pref[u].code = inbox[i].arg}
                     ELSE {u \in Users : Speaks(inbox[i].chat, u)}
<1>1. /\ pc[p] = "idle" /\ ~inbox[i].done /\ UNCHANGED <<rows, asked, hist>>
      /\ inbox' = [inbox EXCEPT ![i].again = TRUE, ![i].sole = @ /\ ~inbox[i].again,
                                ![i].done = owners = {}]
      /\ IF owners = {} THEN UNCHANGED <<pc, mine>>
         ELSE \E u \in owners : Goto(p, Place(inbox[i].text), Begun(i, u))
  BY DEF Deliver, Place, Begun
<1>2. PICK none \in BOOLEAN : none = (owners = {})
  OBVIOUS
<1>3. inbox' = [inbox EXCEPT ![i] = Delivered(i, none)]
  BY <1>1, <1>2 DEF Delivered
<1> QED BY <1>1, <1>2, <1>3 DEF Owners

LEMMA DeliveredType ==
  ASSUME Typing, NEW i \in 1..Len(inbox), NEW none \in BOOLEAN
  PROVE  /\ Delivered(i, none) \in Updates
         /\ Delivered(i, none).text = inbox[i].text /\ Delivered(i, none).arg = inbox[i].arg
         /\ Delivered(i, none).chat = inbox[i].chat /\ Delivered(i, none).done = none
         /\ Delivered(i, none).again /\ Delivered(i, none).erased = inbox[i].erased
         /\ Delivered(i, none).talking = inbox[i].talking
         /\ Delivered(i, none).sole <=> inbox[i].sole /\ ~inbox[i].again
<1>1. inbox[i] \in Updates /\ inbox[i].sole \in BOOLEAN /\ inbox[i].again \in BOOLEAN
  BY UpdateTypes DEF Typing
<1>2. PICK b \in BOOLEAN : b = (inbox[i].sole /\ ~inbox[i].again)
  BY <1>1
<1>3. Delivered(i, none) = [inbox[i] EXCEPT !.again = TRUE, !.sole = b, !.done = none]
  BY <1>2 DEF Delivered
<1> QED BY <1>1, <1>2, <1>3 DEF Updates

LEMMA DeliverTyped ==
  ASSUME Typing, NEW p \in Procs, NEW i \in DOMAIN inbox, Deliver(p, i)
  PROVE  Typing' /\ BoxGrows
<1>1. i \in 1..Len(inbox) /\ Len(inbox) \in Nat
  BY LenProperties DEF Typing, BoxOK
<1>2. RowsOK' /\ issued' \in Nat /\ issued <= issued'
  BY SameRows, DeliverCases DEF Typing
<1>3. PICK none \in BOOLEAN : inbox' = [inbox EXCEPT ![i] = Delivered(i, none)]
  BY DeliverCases
<1>4. BoxGrows /\ Len(inbox') = Len(inbox)
  BY <1>1, <1>3, DeliveredType, OneWritten DEF Typing
<1>5. BoxOK'
  BY <1>2, <1>4, GrownBox DEF Typing, RowsOK
<1>6. ProcsOK'
  <2>1. CASE UNCHANGED <<pc, mine>>
    BY <1>4, <2>1, StayKeeps DEF Typing
  <2>2. CASE \E u \in Owners(i) : Goto(p, Place(inbox[i].text), Begun(i, u))
    <3>1. PICK u \in Users : Goto(p, Place(inbox[i].text), Begun(i, u))
      BY <2>2 DEF Owners
    <3>2. /\ inbox[i].text \in {"link", "create", "new", "agent", "delete", "talk"}
          /\ inbox[i].arg \in Nat
      BY <1>1, UpdateTypes DEF Typing
    <3>3. PICK n \in Nat : n = IF Place(inbox[i].text) = "pick" THEN inbox[i].arg ELSE 0
      BY <3>2
    <3>4. pref[u] \in Preference
      BY DEF Typing, RowsOK
    <3>5. PICK l : l = Begun(i, u)
      OBVIOUS
    <3>6. l = [update |-> i, user |-> u, row |-> pref[u], lens |-> n, text |-> inbox[i].text]
      BY <3>3, <3>5 DEF Begun
    <3>7. l \in Locals
      BY <1>1, <3>2, <3>4, <3>6 DEF Locals, Texts
    <3>8. l.update = i /\ l.user = u /\ l.text = inbox[i].text
      BY <3>6
    <3>9. l # Idle
      BY <1>1, <3>8 DEF Idle
    <3>10. PICK label \in {"clear", "create", "new", "pick", "lens"} :
             /\ label = Place(inbox[i].text)
             /\ label = "clear" => inbox[i].text = "link"
             /\ label = "lens" => inbox[i].text \in {"delete", "talk"}
      BY <3>2 DEF Place
    <3>11. Fits(label, l, inbox)
      BY <1>1, <3>8, <3>9, <3>10 DEF Fits
    <3>12. Fits(label, l, inbox')
      BY <1>4, <3>7, <3>11, StillFits DEF Typing
    <3>13. Moves(p, label, l)
      BY <3>1, <3>5, <3>7, <3>10, <3>12 DEF Moves, Goto, Labels
    <3> QED BY <1>4, <3>13, MovesKeep DEF Typing
  <2> QED BY <2>1, <2>2, DeliverCases
<1> QED BY <1>2, <1>4, <1>5, <1>6 DEF Typing

\* What a request begins with, at a page.
Asked(u, lens, text) == [Idle EXCEPT !.user = u, !.row = pref[u], !.lens = lens, !.text = text]

LEMMA AskCases ==
  ASSUME Typing, NEW p \in Procs, AskSome(p)
  PROVE  /\ pc[p] = "idle" /\ inbox' = Disturbed /\ UNCHANGED <<rows, losses, hist>>
         /\ \E u \in Users, label \in PageLabels, lens \in Nat, text \in Forms \cup {None} :
              /\ Goto(p, label, Asked(u, lens, text))
              /\ label = "save" => text \in Forms
              /\ label = "delete" => lens \in ToSet(desk[u])
<1>1. PICK u \in Users, page \in PageLabels :
        CASE page \in {"pick", "delete"} -> \E lens \in ToSet(desk[u]) : Ask(p, u, page, lens, None)
          [] page = "save" -> \E form \in Forms : Ask(p, u, page, 0, form)
          [] OTHER -> Ask(p, u, page, 0, None)
  <2>1. PICK asking \in Pages :
          CASE asking.page \in {"pick", "delete"} ->
                 \E lens \in ToSet(desk[asking.user]) : Ask(p, asking.user, asking.page, lens, None)
            [] asking.page = "save" -> \E form \in Forms : Ask(p, asking.user, asking.page, 0, form)
            [] OTHER -> Ask(p, asking.user, asking.page, 0, None)
    BY DEF AskSome
  <2>2. asking.user \in Users /\ asking.page \in PageLabels
    BY DeskAssumption
  <2> QED BY <2>1, <2>2
<1>2. PICK lens \in Nat, text \in Forms \cup {None} :
        /\ Ask(p, u, page, lens, text)
        /\ page = "save" => text \in Forms
        /\ page = "delete" => lens \in ToSet(desk[u])
  <2>1. CASE page \in {"pick", "delete"}
    <3>1. desk[u] \in Seq(1..made) /\ made \in Nat
      BY DEF Typing, RowsOK
    <3>2. ToSet(desk[u]) \subseteq 1..made
      BY <3>1, Members
    <3>3. \A lens \in ToSet(desk[u]) : lens \in Nat
      BY <3>1, <3>2
    <3> QED BY <1>1, <2>1, <3>3
  <2>2. CASE page = "save"
    BY <1>1, <2>2
  <2>3. CASE page \notin {"pick", "delete", "save"}
    BY <1>1, <2>3
  <2> QED BY <2>1, <2>2, <2>3
<1> QED BY <1>2 DEF Ask, Asked

LEMMA AskTyped ==
  ASSUME Typing, NEW p \in Procs, AskSome(p)
  PROVE  Typing' /\ BoxGrows
<1>1. RowsOK' /\ issued' \in Nat /\ issued <= issued'
  BY AskCases, SameRows DEF Typing
<1>2. BoxGrows /\ Len(inbox') = Len(inbox)
  BY AskCases, DisturbedGrows DEF Typing
<1>3. BoxOK'
  BY <1>1, <1>2, GrownBox DEF Typing, RowsOK
<1>4. PICK u \in Users, label \in PageLabels, lens \in Nat, text \in Forms \cup {None} :
        Goto(p, label, Asked(u, lens, text)) /\ (label = "save" => text \in Forms)
  BY AskCases
<1>5. PICK l : l = Asked(u, lens, text)
  OBVIOUS
<1>6. /\ l = [update |-> 0, user |-> u, row |-> pref[u], lens |-> lens, text |-> text]
      /\ pref[u] \in Preference /\ Len(inbox) \in Nat
  BY <1>5, LenProperties DEF Asked, Idle, Typing, RowsOK, BoxOK
<1>7. l \in Locals /\ l.update = 0 /\ l.user = u /\ l.text = text
  BY <1>6 DEF Locals, Texts
<1>8. l # Idle
  BY <1>7, DeskAssumption DEF Idle
<1>9. Fits(label, l, inbox)
  BY <1>4, <1>6, <1>7, <1>8 DEF Fits, PageLabels
<1>10. Fits(label, l, inbox')
  BY <1>2, <1>7, <1>9, StillFits DEF Typing
<1>11. Moves(p, label, l)
  BY <1>4, <1>5, <1>7, <1>10 DEF Moves, Goto, Labels, PageLabels
<1> QED BY <1>1, <1>2, <1>3, <1>11, MovesKeep DEF Typing

LEMMA InitTyped == Init => Typing
<1> SUFFICES ASSUME Init PROVE Typing
  OBVIOUS
<1>1. RowsOK
  <2>1. \A S : <<>> \in Seq(S) /\ Len(<<>>) = 0
    BY EmptySeq
  <2> QED BY <2>1, IdleType DEF Init, RowsOK
<1>2. BoxOK /\ Len(inbox) = 0
  BY EmptySeq DEF Init, BoxOK
<1>3. ProcsOK
  <2>1. Fits("idle", Idle, inbox)
    BY <1>2 DEF Fits, Idle
  <2> QED BY <2>1, IdleType DEF Init, ProcsOK, Labels
<1> QED BY <1>1, <1>2, <1>3 DEF Typing

LEMMA NextTyped ==
  ASSUME Typing, CodesIssued, [Next]_vars
  PROVE  Typing' /\ BoxGrows
<1>1. CASE UNCHANGED vars
  <2>1. UNCHANGED <<rows, hist, inbox, pc, mine>>
    BY <1>1 DEF vars
  <2>2. RowsOK' /\ issued' = issued /\ BoxGrows /\ Len(inbox') = Len(inbox) /\ issued \in Nat
    BY <2>1, SameRows, SameBox DEF Typing, rows, RowsOK
  <2>3. BoxOK'
    BY <2>2, GrownBox DEF Typing
  <2>4. ProcsOK'
    BY <2>1, <2>2, StayKeeps DEF Typing
  <2> QED BY <2>2, <2>3, <2>4 DEF Typing
<1>2. ASSUME NEW p \in Procs, Handle(p) PROVE Typing' /\ BoxGrows
  BY <1>2, ClearTyped, ClaimTyped, SelectTyped, LookTyped, CreateTyped, PickTyped, FindLensTyped, TalkTyped,
     DeleteTyped, RemainingTyped, IssueTyped, DisconnectTyped, SaveSettingsTyped DEF Handle
<1>3. ASSUME NEW p \in Procs, NEW i \in DOMAIN inbox, Deliver(p, i) PROVE Typing' /\ BoxGrows
  BY <1>3, DeliverTyped
<1>4. ASSUME NEW p \in Procs, AskSome(p) \/ Lose(p) \/ DeleteRefused(p) PROVE Typing' /\ BoxGrows
  BY <1>4, AskTyped, GivesUpTyped
<1>5. CASE SendSome
  BY <1>5, SendTyped
<1> QED BY <1>1, <1>2, <1>3, <1>4, <1>5 DEF Next, Work, Over

-----------------------------------------------------------------------------
(* Codes belong to one account for good. *)

\* What a process goes on with after a step: nothing, the account, the row and
\* the update it has, or a row it has just loaded.
Kept(l, k)   == l.user = k.user /\ l.row = k.row /\ l.update = k.update
Loaded(l)    == l.user \in Users /\ l.row = pref[l.user]
RowsLoaded   == \A q \in Procs : mine'[q] = Idle \/ Kept(mine'[q], mine[q]) \/ Loaded(mine'[q])

LEMMA OneMoves ==
  ASSUME Typing, NEW p \in Procs, NEW label, NEW l, Goto(p, label, l),
         l = Idle \/ Kept(l, mine[p]) \/ Loaded(l)
  PROVE  RowsLoaded
<1>1. mine' = [mine EXCEPT ![p] = l] /\ mine \in [Procs -> Locals]
  BY DEF Goto, Typing, ProcsOK
<1>2. \A q \in Procs : mine'[q] = IF q = p THEN l ELSE mine[q]
  BY <1>1
<1> QED BY <1>2 DEF RowsLoaded, Kept

LEMMA KeptExcept ==
  ASSUME NEW k \in Locals, NEW lens, NEW text
  PROVE  /\ Kept(k, k) /\ Kept([k EXCEPT !.lens = lens], k)
         /\ Kept([k EXCEPT !.lens = lens, !.text = text], k)
<1>1. PICK l : l = [k EXCEPT !.lens = lens]
  OBVIOUS
<1>2. PICK m : m = [k EXCEPT !.lens = lens, !.text = text]
  OBVIOUS
<1>3. l.user = k.user /\ l.row = k.row /\ l.update = k.update
  BY <1>1 DEF Locals
<1>4. m.user = k.user /\ m.row = k.row /\ m.update = k.update
  BY <1>2 DEF Locals
<1> QED BY <1>1, <1>2, <1>3, <1>4 DEF Kept

\* Every step of a request under way is a move of its process.
LEMMA HandleMoves ==
  ASSUME Typing, NEW p \in Procs, Handle(p)
  PROVE  /\ pc[p] # "idle"
         /\ \E label, l : Goto(p, label, l) /\ (l = Idle \/ Kept(l, mine[p]))
<1>1. mine[p] \in Locals
  BY Here
<1>2. CASE Answer(p) \/ Raise(p)
  BY <1>2 DEF Answer, Raise, Handle, Clear, Claim, Select, Look, Create, Pick, FindLens, Talk, Delete,
     Remaining, Issue, Disconnect, SaveSettings
<1>3. ASSUME NEW label, NEW l, Continue(p, label, l), Kept(l, mine[p])
      PROVE  \E ll : Goto(p, label, ll) /\ Kept(ll, mine[p])
  BY <1>3 DEF Continue
<1>4. CASE Clear(p)
  BY <1>1, <1>4, KeptExcept DEF Clear, Continue
<1>5. CASE Select(p)
  BY <1>1, <1>5, <1>2, KeptExcept DEF Select, Continue
<1>6. CASE Create(p) \/ Look(p)
  BY <1>1, <1>6, <1>2, KeptExcept, CreateCases, LookCases DEF Continue
<1>7. CASE Pick(p)
  BY <1>1, <1>7, <1>2, KeptExcept DEF Pick, Continue
<1>8. CASE FindLens(p)
  BY <1>1, <1>8, <1>2, KeptExcept DEF FindLens, Continue
<1>9. CASE Delete(p)
  BY <1>1, <1>9, KeptExcept DEF Delete
<1>10. CASE Remaining(p)
  BY <1>1, <1>10, <1>2, KeptExcept DEF Remaining, Continue
<1>11. CASE Claim(p) \/ Talk(p) \/ Issue(p) \/ Disconnect(p) \/ SaveSettings(p)
  BY <1>2, <1>11 DEF Claim, Talk, Issue, Disconnect, SaveSettings
<1> QED BY <1>4, <1>5, <1>6, <1>7, <1>8, <1>9, <1>10, <1>11 DEF Handle

LEMMA NextLoads ==
  ASSUME Typing, [Next]_vars
  PROVE  RowsLoaded
<1>1. CASE UNCHANGED mine
  BY <1>1 DEF RowsLoaded, Kept
<1>2. ASSUME NEW p \in Procs, Handle(p) PROVE RowsLoaded
  BY <1>2, HandleMoves, OneMoves
<1>3. ASSUME NEW p \in Procs, NEW i \in DOMAIN inbox, Deliver(p, i) PROVE RowsLoaded
  <2>1. CASE \E u \in Owners(i) : Goto(p, Place(inbox[i].text), Begun(i, u))
    <3>1. PICK u \in Users : Goto(p, Place(inbox[i].text), Begun(i, u))
      BY <2>1 DEF Owners
    <3>2. Loaded(Begun(i, u))
      BY DEF Loaded, Begun
    <3> QED BY <3>1, <3>2, OneMoves
  <2> QED BY <1>1, <1>3, <2>1, DeliverCases
<1>4. ASSUME NEW p \in Procs, AskSome(p) PROVE RowsLoaded
  <2>1. PICK u \in Users, label \in PageLabels, lens \in Nat, text \in Forms \cup {None} :
          Goto(p, label, Asked(u, lens, text))
    BY <1>4, AskCases
  <2>2. Loaded(Asked(u, lens, text))
    BY DEF Loaded, Asked, Idle
  <2> QED BY <2>1, <2>2, OneMoves
<1>5. ASSUME NEW p \in Procs, Lose(p) \/ DeleteRefused(p) PROVE RowsLoaded
  BY <1>5, OneMoves DEF Lose, DeleteRefused
<1>6. CASE SendSome
  BY <1>1, <1>6 DEF SendSome, Send
<1> QED BY <1>1, <1>2, <1>3, <1>4, <1>5, <1>6 DEF Next, Work, Over, vars

HasCode(owner, row, u) == row.code # 0 => row.code \in 1..issued /\ owner[row.code] = u

CodesOwnedBy(owner) ==
  /\ owner \in [1..issued -> Users]
  /\ \A u \in Users : HasCode(owner, pref[u], u)
  /\ \A p \in Procs : HasCode(owner, mine[p].row, mine[p].user)

\* Whoever was shown a code keeps it: no other row ever has it, and no process
\* writes it into another row.
CodesAreOwned == \E owner : CodesOwnedBy(owner)

\* No row has a code that it or a process of its account did not have.
OldCodes ==
  \A u \in Users : \/ pref'[u].code \in {0, pref[u].code}
                   \/ \E p \in Procs : mine[p].user = u /\ pref'[u].code = mine[p].row.code

NewCodeOf(u) ==
  /\ issued' = issued + 1 /\ pref'[u].code = issued + 1
  /\ \A v \in Users : v # u => pref'[v] = pref[v]

LEMMA HandleCodes ==
  ASSUME Typing, NEW p \in Procs, Handle(p)
  PROVE  (issued' = issued /\ OldCodes) \/ \E u \in Users : NewCodeOf(u)
<1> DEFINE u == mine[p].user
<1>1. u \in Users /\ mine[p].row \in Preference
  BY Here, HandleMoves
<1>2. pref \in [Users -> Preference]
  BY DEF Typing, RowsOK
<1>3. CASE UNCHANGED <<pref, issued>>
  BY <1>3 DEF OldCodes
<1>4. CASE Clear(p)
  <2>1. pref' = [v \in Users |-> IF v # u /\ pref[v].chat = inbox[mine[p].update].chat
                                THEN [pref[v] EXCEPT !.chat = None, !.on = FALSE] ELSE pref[v]]
    BY <1>4 DEF Clear, ClearOthers
  <2>2. \A v \in Users : [pref[v] EXCEPT !.chat = None, !.on = FALSE].code = pref[v].code
    BY <1>2 DEF Preference
  <2> QED BY <1>4, <2>1, <2>2 DEF Clear, OldCodes
<1>5. CASE Claim(p)
  <2>1. PICK row :
          row = [pref[u] EXCEPT !.chat = inbox[mine[p].update].chat, !.on = TRUE, !.code = 0]
    OBVIOUS
  <2>2. pref' = [pref EXCEPT ![u] = row]
    BY <1>5, <2>1 DEF Claim, Spend
  <2>3. row.code = 0
    BY <1>1, <1>2, <2>1 DEF Preference
  <2> QED BY <1>1, <1>2, <1>5, <2>2, <2>3 DEF Claim, OldCodes
<1>6. CASE Select(p)
  <2>1. PICK row : row = [pref[u] EXCEPT !.active = mine[p].lens]
    OBVIOUS
  <2>2. row.code = pref[u].code
    BY <1>1, <1>2, <2>1 DEF Preference
  <2>3. pref' = pref \/ pref' = [pref EXCEPT ![u] = row]
    BY <1>6, <2>1 DEF Select
  <2> QED BY <1>1, <1>2, <1>6, <2>2, <2>3 DEF Select, OldCodes
<1>7. CASE Delete(p)
  <2>1. pref' = [v \in Users |-> IF pref[v].active = mine[p].lens
                                THEN [pref[v] EXCEPT !.active = 0] ELSE pref[v]]
    BY <1>7 DEF Delete, Forget
  <2>2. \A v \in Users : [pref[v] EXCEPT !.active = 0].code = pref[v].code
    BY <1>2 DEF Preference
  <2> QED BY <1>7, <2>1, <2>2 DEF Delete, OldCodes
<1>8. CASE Issue(p)
  <2>1. CASE issued' = issued + 1 /\ pref' = [pref EXCEPT ![u].code = NewCode]
    <3>1. PICK row : row = [pref[u] EXCEPT !.code = issued + 1]
      OBVIOUS
    <3>2. row.code = issued + 1 /\ pref' = [pref EXCEPT ![u] = row]
      BY <1>1, <1>2, <2>1, <3>1 DEF Preference, NewCode
    <3>3. NewCodeOf(u)
      BY <1>1, <1>2, <2>1, <3>2 DEF NewCodeOf
    <3> QED BY <1>1, <3>3
  <2> QED BY <1>3, <1>8, <2>1 DEF Issue
<1>9. CASE Disconnect(p)
  <2>1. PICK row : row = [pref[u] EXCEPT !.chat = None, !.on = FALSE]
    OBVIOUS
  <2>2. row.code = pref[u].code /\ pref' = [pref EXCEPT ![u] = row]
    BY <1>1, <1>2, <1>9, <2>1 DEF Preference, Disconnect
  <2> QED BY <1>1, <1>2, <1>9, <2>2 DEF Disconnect, OldCodes
<1>10. CASE SaveSettings(p)
  <2>1. PICK row : row = [mine[p].row EXCEPT !.chat = mine[p].text.chat, !.on = mine[p].text.on]
    OBVIOUS
  <2>2. row.code = mine[p].row.code
    BY <1>1, <2>1 DEF Preference
  <2>3. pref' = pref \/ pref' = [pref EXCEPT ![u] = row]
    BY <1>10, <2>1 DEF SaveSettings
  <2> QED BY <1>1, <1>2, <1>10, <2>2, <2>3 DEF SaveSettings, OldCodes
<1>11. CASE Look(p) \/ Create(p) \/ Pick(p) \/ FindLens(p) \/ Talk(p) \/ Remaining(p)
  BY <1>3, <1>11 DEF Look, Create, Pick, FindLens, Talk, Remaining, rows
<1> QED BY <1>4, <1>5, <1>6, <1>7, <1>8, <1>9, <1>10, <1>11 DEF Handle

\* What does not handle a request leaves the rows alone.
LEMMA OthersKeepRows ==
  ASSUME Typing, [Next]_vars, \A p \in Procs : ~Handle(p)
  PROVE  UNCHANGED rows /\ UNCHANGED hist
<1>1. CASE \E p \in Procs : \E i \in DOMAIN inbox : Deliver(p, i)
  BY <1>1, DeliverCases
<1>2. CASE \E p \in Procs : AskSome(p)
  BY <1>2, AskCases
<1> QED BY <1>1, <1>2 DEF Next, Work, SendSome, Send, Lose, DeleteRefused, Over, vars

LEMMA NextCodes ==
  ASSUME Typing, CodesAreOwned, [Next]_vars
  PROVE  CodesAreOwned'
<1>1. PICK owner : CodesOwnedBy(owner)
  BY DEF CodesAreOwned
<1>2. issued \in Nat /\ pref \in [Users -> Preference]
  BY DEF Typing, RowsOK
<1>3. RowsLoaded /\ Idle.row.code = 0
  BY NextLoads DEF Idle, NewPreference
<1>4. CASE issued' = issued /\ OldCodes
  <2>1. ASSUME NEW u \in Users PROVE HasCode(owner, pref'[u], u)
    BY <1>1, <1>4 DEF OldCodes, CodesOwnedBy, HasCode
  <2>2. ASSUME NEW q \in Procs PROVE HasCode(owner, mine'[q].row, mine'[q].user)
    BY <1>1, <1>3 DEF RowsLoaded, Kept, Loaded, CodesOwnedBy, HasCode
  <2>3. CodesOwnedBy(owner)'
    BY <1>1, <1>4, <2>1, <2>2 DEF CodesOwnedBy, HasCode
  <2> QED BY <2>3 DEF CodesAreOwned
<1>5. ASSUME NEW u \in Users, NewCodeOf(u) PROVE CodesAreOwned'
  <2>1. PICK n \in Nat : n = issued
    BY <1>2
  <2>2. PICK new : new = [c \in 1..n + 1 |-> IF c = n + 1 THEN u ELSE owner[c]]
    OBVIOUS
  <2>3. /\ new \in [1..n + 1 -> Users] /\ new[n + 1] = u
        /\ \A c \in 1..n : new[c] = owner[c] /\ c \in 1..n + 1
    BY <1>1, <2>1, <2>2 DEF CodesOwnedBy
  <2>4. issued' = n + 1 /\ pref'[u].code = n + 1 /\ \A v \in Users : v # u => pref'[v] = pref[v]
    BY <1>5, <2>1 DEF NewCodeOf
  <2>5. ASSUME NEW v \in Users
        PROVE  pref'[v].code # 0 => pref'[v].code \in 1..n + 1 /\ new[pref'[v].code] = v
    BY <1>1, <2>1, <2>3, <2>4 DEF CodesOwnedBy, HasCode
  <2>6. ASSUME NEW q \in Procs
        PROVE  mine'[q].row.code # 0 =>
                 mine'[q].row.code \in 1..n + 1 /\ new[mine'[q].row.code] = mine'[q].user
    BY <1>1, <1>3, <2>1, <2>3 DEF RowsLoaded, Kept, Loaded, CodesOwnedBy, HasCode
  <2>7. CodesOwnedBy(new)'
    BY <2>3, <2>4, <2>5, <2>6 DEF CodesOwnedBy, HasCode
  <2> QED BY <2>7 DEF CodesAreOwned
<1>6. CASE \A p \in Procs : ~Handle(p)
  BY <1>4, <1>6, OthersKeepRows DEF rows, OldCodes
<1> QED BY <1>4, <1>5, <1>6, HandleCodes

LEMMA OwnedCodes ==
  ASSUME CodesAreOwned
  PROVE  /\ CodesIssued
         /\ \A u, v \in Users : u # v /\ pref[u].code # 0 => pref[u].code # pref[v].code
  BY DEF CodesAreOwned, CodesOwnedBy, HasCode, CodesIssued

LEMMA InitCodes == Init => CodesAreOwned
<1> SUFFICES ASSUME Init PROVE CodesAreOwned
  OBVIOUS
<1>1. PICK owner : owner = [c \in 1..0 |-> None]
  OBVIOUS
<1>2. owner \in [1..issued -> Users]
  BY <1>1 DEF Init
<1>3. CodesOwnedBy(owner)
  BY <1>2 DEF CodesOwnedBy, HasCode, Init, NewPreference, Idle
<1> QED BY <1>3 DEF CodesAreOwned

\* A blank draft is on some desk.
BlanksExist == \A lens \in blank : Exists(lens)

LEMMA NextBlanks ==
  ASSUME Typing, BlanksExist, [Next]_vars
  PROVE  BlanksExist'
<1>1. desk \in [Users -> Seq(1..made)] /\ made \in Nat
  BY DEF Typing, RowsOK
<1>2. ASSUME \A u \in Users : ToSet(desk[u]) \subseteq ToSet(desk'[u]), blank' \subseteq blank
      PROVE  BlanksExist'
  BY <1>2 DEF BlanksExist, Exists
<1>3. ASSUME NEW p \in Procs, Look(p) \/ Talk(p) PROVE BlanksExist'
  <2>1. mine[p].user \in Users /\ blank' \subseteq blank
    BY <1>3, Here, LookCases DEF Look, Talk
  <2>2. desk' = desk \/ \E lens : desk' = Saved(mine[p].user, lens)
    BY <1>3, LookCases DEF Talk
  <2>3. \A u \in Users : ToSet(desk[u]) \subseteq ToSet(desk'[u])
    BY <2>1, <2>2, SavedDesk
  <2> QED BY <1>2, <2>1, <2>3
<1>4. ASSUME NEW p \in Procs, Create(p) PROVE BlanksExist'
  <2>1. mine[p].user \in Users
    BY <1>4, Here, CreateCases
  <2>2. CASE UNCHANGED <<blank, desk>>
    BY <1>2, <2>2
  <2>3. CASE /\ blank' = blank \cup {made + 1}
             /\ desk' = [desk EXCEPT ![mine[p].user] = <<made + 1>> \o @]
    <3>1. desk[mine[p].user] \in Seq(Nat) /\ made + 1 \in Nat
      <4>1. desk[mine[p].user] \in Seq(1..made) /\ 1..made \subseteq Nat
        BY <1>1, <2>1
      <4> QED BY <1>1, <4>1, SeqMonotonic
    <3>2. desk'[mine[p].user] = <<made + 1>> \o desk[mine[p].user]
            /\ \A u \in Users : u # mine[p].user => desk'[u] = desk[u]
      BY <1>1, <2>1, <2>3
    <3>3. ToSet(desk'[mine[p].user]) = {made + 1} \cup ToSet(desk[mine[p].user])
      BY <3>1, <3>2, InFront
    <3>4. ASSUME NEW lens \in blank' PROVE \E u \in Users : lens \in ToSet(desk'[u])
      <4>1. CASE lens = made + 1
        BY <2>1, <3>3, <4>1
      <4>2. CASE lens \in blank
        <5>1. PICK u \in Users : lens \in ToSet(desk[u])
          BY <4>2 DEF BlanksExist, Exists
        <5>2. lens \in ToSet(desk'[u])
          BY <3>2, <3>3, <5>1
        <5> QED BY <5>2
      <4> QED BY <2>3, <4>1, <4>2
    <3> QED BY <3>4 DEF BlanksExist, Exists
  <2> QED BY <1>4, <2>2, <2>3 DEF Create
<1>5. ASSUME NEW p \in Procs, Delete(p) PROVE BlanksExist'
  <2>1. PICK u \in Users, lens \in Nat : u = mine[p].user /\ lens = mine[p].lens
    BY <1>5, Here DEF Delete
  <2>2. /\ desk' = [desk EXCEPT ![u] = IF lens \in ToSet(@) THEN RemoveFirst(@, lens) ELSE @]
        /\ blank' = blank \ {lens}
    BY <1>5, <2>1 DEF Delete
  <2>3. ToSet(desk[u]) \ {lens} \subseteq ToSet(desk'[u])
    BY <1>1, <2>2, Removing
  <2>4. \A v \in Users : v # u => desk'[v] = desk[v]
    BY <1>1, <2>2
  <2>5. ASSUME NEW b \in blank' PROVE \E v \in Users : b \in ToSet(desk'[v])
    <3>1. PICK v \in Users : b \in ToSet(desk[v])
      BY <2>2 DEF BlanksExist, Exists
    <3>2. b \in ToSet(desk'[v])
      BY <2>2, <2>3, <2>4, <3>1
    <3> QED BY <3>2
  <2> QED BY <2>5 DEF BlanksExist, Exists
<1>6. CASE UNCHANGED <<blank, desk>>
  BY <1>2, <1>6
<1>7. ASSUME NEW p \in Procs, Handle(p) PROVE BlanksExist'
  BY <1>3, <1>4, <1>5, <1>6, <1>7
     DEF Handle, Clear, Claim, Select, Pick, FindLens, Remaining, Issue, Disconnect, SaveSettings, rows
<1>8. CASE \A p \in Procs : ~Handle(p)
  BY <1>6, <1>8, OthersKeepRows DEF rows
<1> QED BY <1>7, <1>8

LEMMA Invariant1 == Spec => [](Typing /\ CodesAreOwned)
<1>1. Init => Typing /\ CodesAreOwned
  BY InitTyped, InitCodes
<1>2. Typing /\ CodesAreOwned /\ [Next]_vars => Typing' /\ CodesAreOwned'
  BY NextTyped, NextCodes, OwnedCodes
<1> QED BY <1>1, <1>2, PTL DEF Spec

LEMMA Invariant0 == Spec => []BlanksExist
<1>1. Init => BlanksExist
  BY DEF Init, BlanksExist
<1>2. Typing /\ BlanksExist /\ [Next]_vars => BlanksExist'
  BY NextBlanks
<1> QED BY <1>1, <1>2, Invariant1, PTL DEF Spec

\* Whatever is issued, claimed and saved at the same time, rows are rows of the
\* model, a code that was issued is never in two of them, and a process that
\* has no request holds nothing (linking.py, services.py, inbound.py).
THEOREM TypeCorrect == Spec => []TypeOK
<1>1. Typing /\ CodesAreOwned /\ BlanksExist => TypeOK
  <2> SUFFICES ASSUME Typing, CodesAreOwned, BlanksExist PROVE TypeOK
    OBVIOUS
  <2>1. \A u \in Users : pref[u].code \in 0..issued
    <3>1. \A u \in Users : pref[u].code \in Nat
      BY RowTypes DEF Typing, RowsOK
    <3> QED BY <3>1, OwnedCodes DEF CodesIssued, Typing, RowsOK
  <2>2. DOMAIN joined = 1..issued
    BY LenProperties DEF Typing, RowsOK
  <2>3. \A p \in Procs : pc[p] = "idle" <=> mine[p] = Idle
    BY DEF Typing, ProcsOK, Fits
  <2> QED BY <2>1, <2>2, <2>3, OwnedCodes DEF TypeOK, Typing, RowsOK, BoxOK, BlanksExist
<1> QED BY <1>1, Invariant0, Invariant1, PTL

-----------------------------------------------------------------------------
(* Lenses belong to one account for good. *)

HasLens(owner, lens, u) == lens # 0 => lens \in 1..made /\ owner[lens] = u

\* Places where the Lens in hand is one of the account.
OwnPlaces == {"select", "delete", "talk"}

LensesOwnedBy(owner) ==
  /\ owner \in [1..made -> Users]
  /\ \A u \in Users : HasLens(owner, pref[u].active, u)
  /\ \A u \in Users : \A lens \in ToSet(desk[u]) : HasLens(owner, lens, u)
  /\ \A p \in Procs : HasLens(owner, mine[p].row.active, mine[p].user)
  /\ \A p \in Procs : pc[p] \in OwnPlaces => HasLens(owner, mine[p].lens, mine[p].user)

LensesAreOwned == \E owner : LensesOwnedBy(owner)

\* What a step does to the rows of the Lenses.
SameActive == \A v \in Users : pref'[v].active = pref[v].active
SameLenses == made' = made /\ \A v \in Users : ToSet(desk'[v]) = ToSet(desk[v])

Selects(u, lens) ==
  /\ pref'[u].active = lens /\ \A v \in Users : v # u => pref'[v].active = pref[v].active
  /\ SameLenses

Deletes(lens) ==
  /\ \A v \in Users : pref'[v].active = IF pref[v].active = lens THEN 0 ELSE pref[v].active
  /\ made' = made
  /\ \A v \in Users : ToSet(desk[v]) \ {lens} \subseteq ToSet(desk'[v])
  /\ \A v \in Users : ToSet(desk'[v]) \subseteq ToSet(desk[v])

Creates(u) ==
  /\ SameActive /\ made' = made + 1
  /\ ToSet(desk'[u]) = {made + 1} \cup ToSet(desk[u])
  /\ \A v \in Users : v # u => desk'[v] = desk[v]

LEMMA HandleLenses ==
  ASSUME Typing, NEW p \in Procs, Handle(p)
  PROVE  \/ SameActive /\ SameLenses
         \/ pc[p] = "select" /\ Exists(mine[p].lens) /\ Selects(mine[p].user, mine[p].lens)
         \/ /\ mine[p].row.active = 0 \/ Exists(mine[p].row.active)
            /\ Selects(mine[p].user, mine[p].row.active)
         \/ Deletes(mine[p].lens)
         \/ Create(p) /\ Creates(mine[p].user)
<1> DEFINE u == mine[p].user
<1>1. u \in Users /\ mine[p].row \in Preference
  BY Here, HandleMoves
<1>2. pref \in [Users -> Preference] /\ desk \in [Users -> Seq(1..made)] /\ made \in Nat
  BY DEF Typing, RowsOK
<1>3. CASE UNCHANGED <<pref, desk, made>>
  BY <1>3 DEF SameActive, SameLenses
<1>4. CASE Clear(p)
  <2>1. pref' = [v \in Users |-> IF v # u /\ pref[v].chat = inbox[mine[p].update].chat
                                THEN [pref[v] EXCEPT !.chat = None, !.on = FALSE] ELSE pref[v]]
    BY <1>4 DEF Clear, ClearOthers
  <2>2. \A v \in Users : [pref[v] EXCEPT !.chat = None, !.on = FALSE].active = pref[v].active
    BY <1>2 DEF Preference
  <2> QED BY <1>4, <2>1, <2>2 DEF Clear, SameActive, SameLenses
<1>5. CASE Claim(p)
  <2>1. PICK row :
          row = [pref[u] EXCEPT !.chat = inbox[mine[p].update].chat, !.on = TRUE, !.code = 0]
    OBVIOUS
  <2>2. pref' = [pref EXCEPT ![u] = row]
    BY <1>5, <2>1 DEF Claim, Spend
  <2>3. row.active = pref[u].active
    BY <1>1, <1>2, <2>1 DEF Preference
  <2> QED BY <1>1, <1>2, <1>5, <2>2, <2>3 DEF Claim, SameActive, SameLenses
<1>6. CASE Select(p)
  <2>1. CASE UNCHANGED pref
    BY <1>3, <1>6, <2>1 DEF Select
  <2>2. CASE Exists(mine[p].lens) /\ pref' = [pref EXCEPT ![u].active = mine[p].lens]
    <3>1. PICK row : row = [pref[u] EXCEPT !.active = mine[p].lens]
      OBVIOUS
    <3>2. row.active = mine[p].lens /\ pref' = [pref EXCEPT ![u] = row]
      BY <1>1, <1>2, <2>2, <3>1 DEF Preference
    <3> QED BY <1>1, <1>2, <1>6, <2>2, <3>2 DEF Select, Selects, SameLenses
  <2> QED BY <1>6, <2>1, <2>2 DEF Select
<1>7. CASE Create(p)
  <2>1. CASE UNCHANGED <<made, desk>>
    BY <1>3, <1>7, <2>1, CreateCases
  <2>2. CASE made' = made + 1 /\ desk' = [desk EXCEPT ![u] = <<made + 1>> \o @]
    <3>1. ToSet(<<made + 1>> \o desk[u]) = {made + 1} \cup ToSet(desk[u])
      <4>1. desk[u] \in Seq(Nat) /\ made + 1 \in Nat
        <5>1. desk[u] \in Seq(1..made) /\ 1..made \subseteq Nat
          BY <1>1, <1>2
        <5> QED BY <1>2, <5>1, SeqMonotonic
      <4> QED BY <4>1, InFront
    <3>2. pref' = pref
      BY <1>7, CreateCases
    <3> QED BY <1>1, <1>2, <1>7, <2>2, <3>1, <3>2 DEF Creates, SameActive
  <2> QED BY <1>7, <2>1, <2>2, CreateCases
<1>8. CASE Talk(p) \/ Look(p)
  <2>1. UNCHANGED <<pref, made>>
    BY <1>8, LookCases DEF Talk
  <2>2. desk' = desk \/ \E lens : desk' = Saved(u, lens)
    BY <1>8, LookCases DEF Talk
  <2>3. SameLenses
    BY <1>1, <2>1, <2>2, SavedDesk DEF SameLenses
  <2> QED BY <2>1, <2>3 DEF SameActive
<1>9. CASE Delete(p)
  <2>1. PICK lens : lens = mine[p].lens
    OBVIOUS
  <2>2. pref' = [v \in Users |-> IF pref[v].active = lens
                                THEN [pref[v] EXCEPT !.active = 0] ELSE pref[v]]
    BY <1>9, <2>1 DEF Delete, Forget
  <2>3. \A v \in Users : [pref[v] EXCEPT !.active = 0].active = 0
    BY <1>2 DEF Preference
  <2>4. desk' = [desk EXCEPT ![u] = IF lens \in ToSet(@) THEN RemoveFirst(@, lens) ELSE @]
    BY <1>9, <2>1 DEF Delete
  <2>5. /\ ToSet(desk'[u]) \subseteq ToSet(desk[u])
        /\ ToSet(desk[u]) \ {lens} \subseteq ToSet(desk'[u])
    BY <1>1, <1>2, <2>4, Removing
  <2>6. \A v \in Users : v # u => desk'[v] = desk[v]
    BY <2>4
  <2>7. made' = made
    BY <1>9 DEF Delete
  <2> QED BY <2>1, <2>2, <2>3, <2>5, <2>6, <2>7 DEF Deletes
<1>10. CASE Issue(p)
  <2>1. CASE pref' = [pref EXCEPT ![u].code = NewCode]
    <3>1. PICK row : row = [pref[u] EXCEPT !.code = NewCode]
      OBVIOUS
    <3>2. row.active = pref[u].active /\ pref' = [pref EXCEPT ![u] = row]
      BY <1>1, <1>2, <2>1, <3>1 DEF Preference
    <3> QED BY <1>1, <1>2, <1>10, <3>2 DEF Issue, SameActive, SameLenses
  <2> QED BY <1>3, <1>10, <2>1 DEF Issue
<1>11. CASE Disconnect(p)
  <2>1. PICK row : row = [pref[u] EXCEPT !.chat = None, !.on = FALSE]
    OBVIOUS
  <2>2. row.active = pref[u].active /\ pref' = [pref EXCEPT ![u] = row]
    BY <1>1, <1>2, <1>11, <2>1 DEF Preference, Disconnect
  <2> QED BY <1>1, <1>2, <1>11, <2>2 DEF Disconnect, SameActive, SameLenses
<1>12. CASE SaveSettings(p)
  <2>1. CASE UNCHANGED pref
    BY <1>3, <1>12, <2>1 DEF SaveSettings
  <2>2. CASE /\ mine[p].row.active = 0 \/ Exists(mine[p].row.active)
             /\ pref' = [pref EXCEPT ![u] = [mine[p].row EXCEPT !.chat = mine[p].text.chat,
                                                              !.on = mine[p].text.on]]
    <3>1. PICK row : row = [mine[p].row EXCEPT !.chat = mine[p].text.chat, !.on = mine[p].text.on]
      OBVIOUS
    <3>2. row.active = mine[p].row.active /\ pref' = [pref EXCEPT ![u] = row]
      BY <1>1, <2>2, <3>1 DEF Preference
    <3> QED BY <1>1, <1>2, <1>12, <2>2, <3>2 DEF SaveSettings, Selects, SameLenses
  <2> QED BY <1>12, <2>1, <2>2 DEF SaveSettings
<1>13. CASE Pick(p) \/ FindLens(p) \/ Remaining(p)
  BY <1>3, <1>13 DEF Pick, FindLens, Remaining, rows
<1> QED BY <1>4, <1>5, <1>6, <1>7, <1>8, <1>9, <1>10, <1>11, <1>12, <1>13 DEF Handle

\* The Lens that a process has in hand where it may be selected, deleted or
\* talked to is one of its account.
LEMMA HandleHands ==
  ASSUME Typing, NEW p \in Procs, Handle(p), ~Create(p) \/ made' = made,
         NEW owner, LensesOwnedBy(owner)
  PROVE  \A q \in Procs : pc'[q] \in OwnPlaces => HasLens(owner, mine'[q].lens, mine'[q].user)
<1> DEFINE u == mine[p].user
<1>1. u \in Users /\ mine[p] \in Locals
  BY Here, HandleMoves
<1>2. \A lens \in ToSet(desk[u]) : HasLens(owner, lens, u)
  BY <1>1 DEF LensesOwnedBy
<1>3. pc[p] \in OwnPlaces => HasLens(owner, mine[p].lens, u)
  BY DEF LensesOwnedBy
<1>4. Newest(u) # 0 => Newest(u) \in ToSet(desk[u])
  <2>1. desk[u] \in Seq(1..made)
    BY <1>1 DEF Typing, RowsOK
  <2> QED BY <2>1, Members DEF Newest
<1>5. ASSUME NEW label, NEW l, Goto(p, label, l),
             label \in OwnPlaces => HasLens(owner, l.lens, l.user)
      PROVE  \A q \in Procs : pc'[q] \in OwnPlaces => HasLens(owner, mine'[q].lens, mine'[q].user)
  BY <1>5 DEF Goto, LensesOwnedBy, Typing, ProcsOK
<1>6. CASE Answer(p) \/ Raise(p)
  BY <1>5, <1>6 DEF Answer, Raise, OwnPlaces
<1>7. ASSUME NEW lens, NEW label, HasLens(owner, lens, u),
             Continue(p, label, [mine[p] EXCEPT !.lens = lens])
      PROVE  \A q \in Procs : pc'[q] \in OwnPlaces => HasLens(owner, mine'[q].lens, mine'[q].user)
  <2>1. PICK l : l = [mine[p] EXCEPT !.lens = lens]
    OBVIOUS
  <2>2. l.lens = lens /\ l.user = u
    BY <1>1, <2>1 DEF Locals
  <2> QED BY <1>5, <1>7, <2>1, <2>2 DEF Continue
<1>8. CASE Clear(p)
  BY <1>5, <1>8 DEF Clear, Continue, OwnPlaces
<1>9. CASE Select(p)
  BY <1>3, <1>5, <1>6, <1>9 DEF Select, Continue, OwnPlaces
<1>10. CASE Pick(p)
  BY <1>2, <1>5, <1>6, <1>10 DEF Pick, Continue, Owned
<1>15. CASE Look(p)
  <2>1. ASSUME NEW label \in {"name", "make"}, Continue(p, label, mine[p])
        PROVE  \A q \in Procs : pc'[q] \in OwnPlaces => HasLens(owner, mine'[q].lens, mine'[q].user)
    BY <1>5, <2>1 DEF Continue, OwnPlaces
  <2> QED BY <1>2, <1>6, <1>7, <1>15, <2>1, LookCases
<1>16. CASE Create(p)
  <2>1. made' # made + 1
    BY <1>16 DEF Typing, RowsOK
  <2>2. Raise(p)
    BY <1>16, <2>1, CreateCases, Zenon
  <2> QED BY <1>6, <2>2
<1>11. CASE FindLens(p)
  <2>1. CASE /\ mine[p].row.active \in ToSet(desk[u])
             /\ Continue(p, mine[p].text, [mine[p] EXCEPT !.lens = mine[p].row.active])
    BY <1>2, <1>7, <2>1
  <2>2. CASE Newest(u) # 0 /\ Continue(p, "select", [mine[p] EXCEPT !.lens = Newest(u)])
    BY <1>2, <1>4, <1>7, <2>2
  <2> QED BY <1>6, <1>11, <2>1, <2>2 DEF FindLens
<1>12. CASE Delete(p)
  BY <1>5, <1>12 DEF Delete, OwnPlaces
<1>13. CASE Remaining(p)
  <2>1. CASE /\ Newest(u) # 0
             /\ Continue(p, "select", [mine[p] EXCEPT !.lens = Newest(u), !.text = None])
    <3>1. PICK l : l = [mine[p] EXCEPT !.lens = Newest(u), !.text = None]
      OBVIOUS
    <3>2. l.lens = Newest(u) /\ l.user = u
      BY <1>1, <3>1 DEF Locals
    <3> QED BY <1>2, <1>4, <1>5, <2>1, <3>1, <3>2 DEF Continue
  <2> QED BY <1>6, <1>13, <2>1 DEF Remaining
<1>14. CASE Claim(p) \/ Talk(p) \/ Issue(p) \/ Disconnect(p) \/ SaveSettings(p)
  BY <1>6, <1>14 DEF Claim, Talk, Issue, Disconnect, SaveSettings
<1> QED BY <1>8, <1>9, <1>10, <1>11, <1>12, <1>13, <1>14, <1>15, <1>16 DEF Handle

LEMMA LensFrame ==
  ASSUME NEW owner, LensesOwnedBy(owner), RowsLoaded, made' = made,
         \A u \in Users : HasLens(owner, pref'[u].active, u),
         \A u \in Users : ToSet(desk'[u]) \subseteq ToSet(desk[u]),
         \A q \in Procs : pc'[q] \in OwnPlaces => HasLens(owner, mine'[q].lens, mine'[q].user)
  PROVE  LensesAreOwned'
<1>1. Idle.row.active = 0
  BY DEF Idle, NewPreference
<1>2. ASSUME NEW q \in Procs PROVE HasLens(owner, mine'[q].row.active, mine'[q].user)
  BY <1>1 DEF RowsLoaded, Kept, Loaded, LensesOwnedBy, HasLens
<1>3. LensesOwnedBy(owner)'
  BY <1>2 DEF LensesOwnedBy, HasLens
<1> QED BY <1>3 DEF LensesAreOwned

LEMMA NextLenses ==
  ASSUME Typing, LensesAreOwned, [Next]_vars
  PROVE  LensesAreOwned'
<1>1. PICK owner : LensesOwnedBy(owner)
  BY DEF LensesAreOwned
<1>2. RowsLoaded
  BY NextLoads
<1>3. ASSUME NEW p \in Procs, Handle(p), ~Create(p) \/ made' = made PROVE LensesAreOwned'
  <2>1. \A q \in Procs : pc'[q] \in OwnPlaces => HasLens(owner, mine'[q].lens, mine'[q].user)
    BY <1>1, <1>3, HandleHands
  <2>2. ~(Create(p) /\ Creates(mine[p].user))
    <3>1. made + 1 # made
      BY DEF Typing, RowsOK
    <3> QED BY <1>3, <3>1 DEF Creates
  <2>3. \A u \in Users : HasLens(owner, pref'[u].active, u)
    BY <1>1, <1>3, <2>2, HandleLenses
       DEF SameActive, Selects, Deletes, LensesOwnedBy, HasLens, OwnPlaces
  <2>4. made' = made /\ \A u \in Users : ToSet(desk'[u]) \subseteq ToSet(desk[u])
    BY <1>3, <2>2, HandleLenses DEF SameLenses, Selects, Deletes
  <2> QED BY <1>1, <1>2, <2>1, <2>3, <2>4, LensFrame
<1>4. ASSUME NEW p \in Procs, Create(p), made' # made PROVE LensesAreOwned'
  <2>1. Handle(p) /\ mine[p].user \in Users /\ mine[p] \in Locals
    BY <1>4, Here, CreateCases DEF Handle
  <2>2. PICK u \in Users, n \in Nat : u = mine[p].user /\ n = made
    BY <2>1 DEF Typing, RowsOK
  <2>3. Creates(u)
    BY <1>4, <2>1, <2>2, HandleLenses DEF SameLenses, Selects, Deletes
  <2>4. PICK new : new = [i \in 1..n + 1 |-> IF i = n + 1 THEN u ELSE owner[i]]
    OBVIOUS
  <2>5. /\ new \in [1..n + 1 -> Users] /\ new[n + 1] = u /\ made' = n + 1 /\ n + 1 \in 1..n + 1
        /\ \A i \in 1..n : new[i] = owner[i] /\ i \in 1..n + 1
    BY <1>1, <2>2, <2>3, <2>4 DEF LensesOwnedBy, Creates
  <2> DEFINE Has(i, v) == i # 0 => i \in 1..n + 1 /\ new[i] = v
  <2>6. ASSUME NEW i, NEW v, HasLens(owner, i, v) PROVE Has(i, v)
    <3>1. i # 0 => i \in 1..n /\ owner[i] = v
      BY <2>2, <2>6 DEF HasLens
    <3> QED BY <2>5, <3>1
  <2>7. ASSUME NEW v \in Users PROVE Has(pref'[v].active, v)
    <3>1. pref'[v].active = pref[v].active /\ HasLens(owner, pref[v].active, v)
      BY <1>1, <2>3 DEF Creates, SameActive, LensesOwnedBy
    <3> QED BY <2>6, <3>1
  <2>8. ASSUME NEW v \in Users, NEW i \in ToSet(desk'[v]) PROVE Has(i, v)
    <3>1. i \in ToSet(desk[v]) \/ (i = n + 1 /\ v = u)
      BY <2>2, <2>3 DEF Creates
    <3>2. i \in ToSet(desk[v]) => HasLens(owner, i, v)
      BY <1>1 DEF LensesOwnedBy
    <3>3. i = n + 1 /\ v = u => Has(i, v)
      BY <2>5
    <3> QED BY <2>6, <3>1, <3>2, <3>3
  <2>9. ASSUME NEW q \in Procs PROVE Has(mine'[q].row.active, mine'[q].user)
    <3>1. Idle.row.active = 0
      BY DEF Idle, NewPreference
    <3>2. mine'[q] = Idle \/ HasLens(owner, mine'[q].row.active, mine'[q].user)
      BY <1>1, <1>2 DEF RowsLoaded, Kept, Loaded, LensesOwnedBy
    <3> QED BY <2>6, <3>1, <3>2
  <2>10. ASSUME NEW q \in Procs, pc'[q] \in OwnPlaces PROVE Has(mine'[q].lens, mine'[q].user)
    <3>1. CASE pc'[q] = pc[q] /\ mine'[q] = mine[q]
      BY <1>1, <2>6, <2>10, <3>1 DEF LensesOwnedBy
    <3>2. CASE mine'[q].lens = n + 1 /\ mine'[q].user = u
      BY <2>5, <3>2
    <3>3. PICK l : l = [mine[p] EXCEPT !.lens = n + 1]
      OBVIOUS
    <3>4. l.lens = n + 1 /\ l.user = u
      BY <2>1, <2>2, <3>3 DEF Locals
    <3>5. Goto(p, "idle", Idle) \/ Goto(p, "select", l)
      BY <1>4, <2>2, <3>3, CreateCases DEF Answer, Continue
    <3>6. (pc'[q] = pc[q] /\ mine'[q] = mine[q]) \/ mine'[q] = l
      BY <2>10, <3>5 DEF Goto, OwnPlaces, Typing, ProcsOK
    <3> QED BY <3>1, <3>2, <3>4, <3>6
  <2>11. LensesOwnedBy(new)'
    BY <2>5, <2>7, <2>8, <2>9, <2>10 DEF LensesOwnedBy, HasLens
  <2> QED BY <2>11 DEF LensesAreOwned
<1>5. CASE \A p \in Procs : ~Handle(p)
  <2>1. UNCHANGED rows
    BY <1>5, OthersKeepRows
  <2>2. ASSUME NEW q \in Procs, pc'[q] \in OwnPlaces
        PROVE  HasLens(owner, mine'[q].lens, mine'[q].user)
    <3>1. CASE pc'[q] = pc[q] /\ mine'[q] = mine[q]
      BY <1>1, <2>2, <3>1 DEF LensesOwnedBy
    <3>2. ASSUME NEW p \in Procs, NEW label, NEW l, Goto(p, label, l),
                 label \in OwnPlaces => HasLens(owner, l.lens, l.user)
          PROVE  HasLens(owner, mine'[q].lens, mine'[q].user)
      BY <1>1, <2>2, <3>2 DEF Goto, LensesOwnedBy, Typing, ProcsOK
    <3>3. ASSUME NEW p \in Procs, NEW i \in DOMAIN inbox, Deliver(p, i)
          PROVE  HasLens(owner, mine'[q].lens, mine'[q].user)
      <4>1. CASE UNCHANGED <<pc, mine>>
        BY <3>1, <4>1
      <4>2. CASE \E u \in Owners(i) : Goto(p, Place(inbox[i].text), Begun(i, u))
        <5>1. Place(inbox[i].text) \notin OwnPlaces
          BY DEF Place, OwnPlaces
        <5> QED BY <3>2, <4>2, <5>1
      <4> QED BY <3>3, <4>1, <4>2, DeliverCases
    <3>4. ASSUME NEW p \in Procs, AskSome(p) PROVE HasLens(owner, mine'[q].lens, mine'[q].user)
      <4>1. PICK u \in Users, label \in PageLabels, lens \in Nat, text \in Forms \cup {None} :
              /\ Goto(p, label, Asked(u, lens, text))
              /\ label = "delete" => lens \in ToSet(desk[u])
        BY <3>4, AskCases
      <4>2. PICK l : l = Asked(u, lens, text)
        OBVIOUS
      <4>3. l.lens = lens /\ l.user = u
        BY <4>2 DEF Asked, Idle
      <4>4. label \in OwnPlaces => HasLens(owner, l.lens, l.user)
        BY <1>1, <4>1, <4>3 DEF LensesOwnedBy, OwnPlaces, PageLabels
      <4> QED BY <3>2, <4>1, <4>2, <4>4
    <3>5. CASE \E p \in Procs : Lose(p) \/ DeleteRefused(p)
      BY <3>2, <3>5 DEF Lose, DeleteRefused, OwnPlaces
    <3>6. CASE UNCHANGED <<pc, mine>>
      BY <3>1, <3>6
    <3> QED BY <1>5, <3>3, <3>4, <3>5, <3>6 DEF Next, Work, SendSome, Send, Over, vars
  <2> QED BY <1>1, <1>2, <2>1, <2>2, LensFrame DEF rows, LensesOwnedBy
<1> QED BY <1>3, <1>4, <1>5

\* A Lens that is on some desk is on the desk of the account it belongs to.
LEMMA OnItsDesk ==
  ASSUME Typing, NEW owner, LensesOwnedBy(owner), NEW u \in Users, NEW lens,
         HasLens(owner, lens, u), Exists(lens)
  PROVE  lens \in ToSet(desk[u])
<1>1. PICK v \in Users : lens \in ToSet(desk[v])
  BY DEF Exists
<1>2. lens \in 1..made
  <2>1. desk[v] \in Seq(1..made)
    BY DEF Typing, RowsOK
  <2> QED BY <1>1, <2>1, Members
<1>3. made \in Nat /\ HasLens(owner, lens, v)
  BY <1>1 DEF Typing, RowsOK, LensesOwnedBy
<1> QED BY <1>1, <1>2, <1>3 DEF HasLens

LEMMA NextActive ==
  ASSUME Typing, LensesAreOwned, ActiveLensIsOwn, [Next]_vars
  PROVE  ActiveLensIsOwn'
<1>1. PICK owner : LensesOwnedBy(owner)
  BY DEF LensesAreOwned
<1> DEFINE Own(u) == pref'[u].active \in ToSet(desk'[u]) \cup {0}
<1>2. CASE SameActive /\ SameLenses
  BY <1>2 DEF ActiveLensIsOwn, SameActive, SameLenses
<1>3. ASSUME NEW u \in Users, NEW lens, HasLens(owner, lens, u), lens = 0 \/ Exists(lens),
             Selects(u, lens)
      PROVE  ActiveLensIsOwn'
  <2>1. lens \in ToSet(desk[u]) \cup {0}
    BY <1>1, <1>3, OnItsDesk
  <2>2. ASSUME NEW v \in Users PROVE Own(v)
    BY <1>3, <2>1 DEF ActiveLensIsOwn, Selects, SameLenses
  <2> QED BY <2>2 DEF ActiveLensIsOwn
<1>4. ASSUME NEW lens, Deletes(lens) PROVE ActiveLensIsOwn'
  <2>1. ASSUME NEW v \in Users PROVE Own(v)
    BY <1>4 DEF ActiveLensIsOwn, Deletes
  <2> QED BY <2>1 DEF ActiveLensIsOwn
<1>5. ASSUME NEW u \in Users, Creates(u) PROVE ActiveLensIsOwn'
  <2>1. ASSUME NEW v \in Users PROVE Own(v)
    BY <1>5 DEF ActiveLensIsOwn, Creates, SameActive
  <2> QED BY <2>1 DEF ActiveLensIsOwn
<1>6. ASSUME NEW p \in Procs, Handle(p) PROVE ActiveLensIsOwn'
  <2>1. mine[p].user \in Users
    BY <1>6, Here, HandleMoves
  <2>2. HasLens(owner, mine[p].row.active, mine[p].user)
    BY <1>1 DEF LensesOwnedBy
  <2>3. pc[p] = "select" => HasLens(owner, mine[p].lens, mine[p].user)
    BY <1>1 DEF LensesOwnedBy, OwnPlaces
  <2> QED BY <1>2, <1>3, <1>4, <1>5, <1>6, <2>1, <2>2, <2>3, HandleLenses
<1>7. CASE \A p \in Procs : ~Handle(p)
  BY <1>7, OthersKeepRows DEF rows, ActiveLensIsOwn
<1> QED BY <1>6, <1>7

LEMMA InitLenses == Init => LensesAreOwned /\ ActiveLensIsOwn
<1> SUFFICES ASSUME Init PROVE LensesAreOwned /\ ActiveLensIsOwn
  OBVIOUS
<1>1. PICK owner : owner = [i \in 1..0 |-> None]
  OBVIOUS
<1>2. owner \in [1..made -> Users]
  BY <1>1 DEF Init
<1>3. \A u \in Users : ToSet(desk[u]) = {}
  <2>1. PICK s : s = <<>> /\ s \in Seq(Nat) /\ Len(s) = 0
    BY EmptySeq
  <2>2. DOMAIN s = 1..0
    BY <2>1, LenProperties
  <2> QED BY <2>1, <2>2 DEF Init, ToSet
<1>4. \A p \in Procs : pc[p] \notin OwnPlaces
  BY DEF Init, OwnPlaces
<1>5. LensesOwnedBy(owner)
  BY <1>2, <1>3, <1>4 DEF LensesOwnedBy, HasLens, Init, NewPreference, Idle
<1> QED BY <1>5 DEF LensesAreOwned, ActiveLensIsOwn, Init, NewPreference

LEMMA Invariant2 == Spec => [](LensesAreOwned /\ ActiveLensIsOwn)
<1>1. Init => LensesAreOwned /\ ActiveLensIsOwn
  BY InitLenses
<1>2. Typing /\ LensesAreOwned /\ ActiveLensIsOwn /\ [Next]_vars
      => LensesAreOwned' /\ ActiveLensIsOwn'
  BY NextLenses, NextActive
<1> QED BY <1>1, <1>2, Invariant1, PTL DEF Spec

\* The Lens that an account's row names is there and the account's own, whatever
\* processes of any account delete, select, create and save meanwhile, a form
\* that was loaded before the deletion included (inbound.py, agent_service.py).
THEOREM SelectionsHold == Spec => []ActiveLensIsOwn
  BY Invariant2, PTL

-----------------------------------------------------------------------------
(* Chats and codes. *)

\* Where the handling of a claim goes on.
ClaimPlaces == {"clear", "claim"}

LEMMA HandleLeaves ==
  ASSUME Typing, NEW p \in Procs, Handle(p), ~Clear(p)
  PROVE  pc'[p] \notin ClaimPlaces
<1>1. ASSUME NEW label, NEW l, Goto(p, label, l), label \notin ClaimPlaces
      PROVE  pc'[p] \notin ClaimPlaces
  BY <1>1 DEF Goto, Typing, ProcsOK
<1>2. CASE Answer(p) \/ Raise(p)
  BY <1>1, <1>2 DEF Answer, Raise, ClaimPlaces
<1>3. CASE Select(p)
  <2>1. CASE mine[p].text \in {"delete", "talk"} /\ Continue(p, mine[p].text, mine[p])
    BY <1>1, <2>1 DEF Continue, ClaimPlaces
  <2> QED BY <1>2, <1>3, <2>1 DEF Select
<1>4. CASE Create(p) \/ Pick(p) \/ Remaining(p)
  <2>1. CASE \E l : Continue(p, "select", l)
    BY <1>1, <2>1 DEF Continue, ClaimPlaces
  <2> QED BY <1>2, <1>4, <2>1, CreateCases, Zenon DEF Pick, Remaining
<1>8. CASE Look(p)
  <2>1. CASE \E label \in {"name", "make"} : Continue(p, label, mine[p])
    BY <1>1, <2>1 DEF Continue, ClaimPlaces
  <2>2. CASE \E l : Continue(p, "select", l)
    BY <1>1, <2>2 DEF Continue, ClaimPlaces
  <2> QED BY <1>2, <1>8, <2>1, <2>2, LookCases, Zenon
<1>5. CASE FindLens(p)
  <2>1. mine[p].text \in {"delete", "talk"}
    BY <1>5 DEF FindLens, Typing, ProcsOK, Fits
  <2>2. CASE \E l : Continue(p, mine[p].text, l)
    BY <1>1, <2>1, <2>2 DEF Continue, ClaimPlaces
  <2>3. CASE \E l : Continue(p, "select", l)
    BY <1>1, <2>3 DEF Continue, ClaimPlaces
  <2> QED BY <1>2, <1>5, <2>2, <2>3 DEF FindLens
<1>6. CASE Delete(p)
  BY <1>1, <1>6 DEF Delete, ClaimPlaces
<1>7. CASE Claim(p) \/ Talk(p) \/ Issue(p) \/ Disconnect(p) \/ SaveSettings(p)
  BY <1>2, <1>7 DEF Claim, Talk, Issue, Disconnect, SaveSettings
<1> QED BY <1>3, <1>4, <1>5, <1>6, <1>7, <1>8 DEF Handle

\* A process at a claim was there, has just cleared, or has just begun.
LEMMA NextClaims ==
  ASSUME Typing, [Next]_vars, NEW q \in Procs, pc'[q] \in ClaimPlaces
  PROVE  \/ pc'[q] = pc[q] /\ mine'[q] = mine[q]
         \/ Clear(q) /\ pc'[q] = "claim" /\ mine'[q] = mine[q]
         \/ /\ pc'[q] = "clear" /\ UNCHANGED rows
            /\ \E i \in DOMAIN inbox : \E u \in Users :
                 inbox[i].text = "link" /\ pref[u].code = inbox[i].arg /\ mine'[q] = Begun(i, u)
<1> DEFINE Goal == \/ pc'[q] = pc[q] /\ mine'[q] = mine[q]
                   \/ Clear(q) /\ pc'[q] = "claim" /\ mine'[q] = mine[q]
                   \/ /\ pc'[q] = "clear" /\ UNCHANGED rows
                      /\ \E i \in DOMAIN inbox : \E u \in Users :
                           inbox[i].text = "link" /\ pref[u].code = inbox[i].arg
                             /\ mine'[q] = Begun(i, u)
<1>1. pc \in [Procs -> Labels] /\ mine \in [Procs -> Locals]
  BY DEF Typing, ProcsOK
<1>2. ASSUME NEW p \in Procs, NEW label, NEW l, Goto(p, label, l)
      PROVE  IF q = p THEN pc'[q] = label /\ mine'[q] = l ELSE pc'[q] = pc[q] /\ mine'[q] = mine[q]
  BY <1>1, <1>2 DEF Goto
<1>3. CASE UNCHANGED <<pc, mine>>
  BY <1>3
<1>4. ASSUME NEW p \in Procs, Handle(p) PROVE Goal
  <2>1. CASE q # p
    BY <1>2, <1>4, <2>1, HandleMoves
  <2>2. CASE q = p
    <3>1. Clear(q)
      BY <1>4, <2>2, HandleLeaves
    <3>2. pc'[q] = "claim" /\ mine'[q] = mine[q]
      BY <1>1, <3>1 DEF Clear, Continue, Goto
    <3> QED BY <3>1, <3>2
  <2> QED BY <2>1, <2>2
<1>5. ASSUME NEW p \in Procs, NEW i \in DOMAIN inbox, Deliver(p, i) PROVE Goal
  <2>1. UNCHANGED rows
    BY <1>5, DeliverCases
  <2>2. ASSUME NEW u \in Owners(i), Goto(p, Place(inbox[i].text), Begun(i, u)) PROVE Goal
    <3>1. CASE q # p
      BY <1>2, <2>2, <3>1
    <3>2. CASE q = p
      <4>1. pc'[q] = Place(inbox[i].text) /\ mine'[q] = Begun(i, u)
        BY <1>2, <2>2, <3>2
      <4>2. inbox[i].text = "link" /\ pc'[q] = "clear"
        BY <4>1 DEF Place, ClaimPlaces
      <4>3. u \in Users /\ pref[u].code = inbox[i].arg
        BY <4>2 DEF Owners
      <4> QED BY <2>1, <4>1, <4>2, <4>3
    <3> QED BY <3>1, <3>2
  <2> QED BY <1>3, <1>5, <2>2, DeliverCases
<1>6. ASSUME NEW p \in Procs, AskSome(p) PROVE Goal
  <2>1. PICK label \in PageLabels : \E l : Goto(p, label, l)
    BY <1>6, AskCases
  <2>2. label \notin ClaimPlaces
    BY DEF PageLabels, ClaimPlaces
  <2> QED BY <1>2, <2>1, <2>2
<1>7. ASSUME NEW p \in Procs, Lose(p) \/ DeleteRefused(p) PROVE Goal
  BY <1>2, <1>7 DEF Lose, DeleteRefused, ClaimPlaces
<1>8. CASE SendSome
  BY <1>3, <1>8 DEF SendSome, Send
<1> QED BY <1>3, <1>4, <1>5, <1>6, <1>7, <1>8 DEF Next, Work, Over, vars

\* The chat that an update came from.
ClaimsAreAlone ==
  \A p \in Procs : \A v \in Users :
    /\ pc[p] = "claim" /\ ~raced /\ v # mine[p].user
    /\ pref[v].on /\ pref[v].chat = inbox[mine[p].update].chat
    => v \in typed

\* A step that connects no account and types in nothing.
NoNewChats ==
  /\ \A v \in Users : pref'[v].on => pref[v].on /\ pref'[v].chat = pref[v].chat
  /\ raced' = raced /\ \A v \in Users : pref'[v].on /\ v \in typed => v \in typed'

LEMMA HandleChats ==
  ASSUME Typing, NEW p \in Procs, Handle(p)
  PROVE  NoNewChats \/ Claim(p) \/ SaveSettings(p)
<1> DEFINE u == mine[p].user
<1>1. u \in Users /\ pref \in [Users -> Preference]
  BY Here, HandleMoves DEF Typing, RowsOK
<1>2. CASE UNCHANGED <<pref, typed, raced>>
  BY <1>2 DEF NoNewChats
<1>3. CASE Clear(p)
  <2>1. pref' = [v \in Users |-> IF v # u /\ pref[v].chat = inbox[mine[p].update].chat
                                THEN [pref[v] EXCEPT !.chat = None, !.on = FALSE] ELSE pref[v]]
    BY <1>3 DEF Clear, ClearOthers
  <2>2. \A v \in Users : [pref[v] EXCEPT !.chat = None, !.on = FALSE].on = FALSE
    BY <1>1 DEF Preference
  <2> QED BY <1>3, <2>1, <2>2 DEF Clear, hist, NoNewChats
<1>4. CASE Select(p)
  <2>1. CASE pref' = [pref EXCEPT ![u].active = mine[p].lens]
    <3>1. \A v \in Users : pref'[v].on = pref[v].on /\ pref'[v].chat = pref[v].chat
      BY <1>1, <2>1 DEF Preference
    <3> QED BY <1>4, <3>1 DEF Select, hist, NoNewChats
  <2>2. CASE UNCHANGED pref
    BY <1>2, <1>4, <2>2 DEF Select, hist
  <2> QED BY <1>4, <2>1, <2>2 DEF Select
<1>5. CASE Delete(p)
  <2>1. pref' = [v \in Users |-> IF pref[v].active = mine[p].lens
                                THEN [pref[v] EXCEPT !.active = 0] ELSE pref[v]]
    BY <1>5 DEF Delete, Forget
  <2>2. \A v \in Users : pref'[v].on = pref[v].on /\ pref'[v].chat = pref[v].chat
    BY <1>1, <2>1 DEF Preference
  <2> QED BY <1>5, <2>2 DEF Delete, hist, NoNewChats
<1>6. CASE Issue(p)
  <2>1. CASE pref' = [pref EXCEPT ![u].code = NewCode]
    <3>1. \A v \in Users : pref'[v].on = pref[v].on /\ pref'[v].chat = pref[v].chat
      BY <1>1, <2>1 DEF Preference
    <3> QED BY <1>6, <3>1 DEF Issue, NoNewChats
  <2> QED BY <1>2, <1>6, <2>1 DEF Issue
<1>7. CASE Disconnect(p)
  <2>1. PICK row : row = [pref[u] EXCEPT !.chat = None, !.on = FALSE]
    OBVIOUS
  <2>2. row.on = FALSE /\ pref' = [pref EXCEPT ![u] = row]
    BY <1>1, <1>7, <2>1 DEF Disconnect, Preference
  <2>3. typed' = typed \ {u} /\ raced' = raced
    BY <1>7 DEF Disconnect
  <2> QED BY <1>1, <2>2, <2>3 DEF NoNewChats
<1>8. CASE Look(p) \/ Create(p) \/ Pick(p) \/ FindLens(p) \/ Talk(p) \/ Remaining(p)
  BY <1>2, <1>8 DEF Look, Create, Pick, FindLens, Talk, Remaining, rows, hist
<1> QED BY <1>3, <1>4, <1>5, <1>6, <1>7, <1>8 DEF Handle

LEMMA ClaimWrites ==
  ASSUME Typing, NEW p \in Procs, Claim(p)
  PROVE  /\ mine[p].user \in Users /\ mine[p].update \in 1..Len(inbox)
         /\ inbox[mine[p].update].arg \in 1..issued /\ inbox[mine[p].update].chat \in Chats
         /\ pref'[mine[p].user].chat = inbox[mine[p].update].chat
         /\ pref'[mine[p].user].code = 0
         /\ \A v \in Users : v # mine[p].user => pref'[v] = pref[v]
         /\ typed' = typed \ {mine[p].user} /\ issued' = issued
         /\ pc'[p] = "idle"
         /\ raced' \/ \A q \in Procs : pc'[q] \notin ClaimPlaces
<1>1. /\ mine[p].user \in Users /\ pref \in [Users -> Preference]
      /\ mine[p].update \in 0..Len(inbox) /\ Fits(pc[p], mine[p], inbox) /\ pc[p] = "claim"
  BY Here DEF Claim, Typing, RowsOK
<1>2. mine[p].update \in 1..Len(inbox) /\ inbox[mine[p].update].text = "link"
  BY <1>1 DEF Fits
<1>3. inbox[mine[p].update].arg \in 1..issued /\ inbox[mine[p].update].chat \in Chats
  BY <1>2, UpdateTypes DEF Typing, BoxOK
<1>4. PICK row :
          row = [pref[mine[p].user] EXCEPT !.chat = inbox[mine[p].update].chat, !.on = TRUE,
                                           !.code = 0]
  OBVIOUS
<1>5. row.chat = inbox[mine[p].update].chat /\ row.code = 0
  BY <1>1, <1>4 DEF Preference
<1>6. pref' = [pref EXCEPT ![mine[p].user] = row] /\ typed' = typed \ {mine[p].user}
        /\ issued' = issued
  BY <1>4 DEF Claim, Spend
<1>7. pc'[p] = "idle" /\ \A q \in Procs : q # p => pc'[q] = pc[q]
  BY DEF Claim, Answer, Goto, Typing, ProcsOK
<1>8. raced' \/ \A q \in Procs : pc'[q] \notin ClaimPlaces
  BY <1>7 DEF Claim, ClaimPlaces
<1> QED BY <1>1, <1>2, <1>3, <1>5, <1>6, <1>7, <1>8

LEMMA SaveWrites ==
  ASSUME Typing, NEW p \in Procs, SaveSettings(p)
  PROVE  \/ UNCHANGED <<pref, typed, raced>>
         \/ /\ mine[p].user \in Users /\ pref'[mine[p].user].code = mine[p].row.code
            /\ \A v \in Users : v # mine[p].user => pref'[v] = pref[v]
            /\ typed' = typed \cup {mine[p].user}
            /\ raced' \/ (~raced /\ pref[mine[p].user] = mine[p].row)
<1> DEFINE u == mine[p].user
<1>1. u \in Users /\ mine[p].row \in Preference /\ pref \in [Users -> Preference]
  BY Here DEF SaveSettings, Typing, RowsOK
<1>2. PICK row : row = [mine[p].row EXCEPT !.chat = mine[p].text.chat, !.on = mine[p].text.on]
  OBVIOUS
<1>3. row.code = mine[p].row.code
  BY <1>1, <1>2 DEF Preference
<1>4. CASE UNCHANGED <<pref, typed, raced>>
  BY <1>4
<1>5. CASE /\ pref' = [pref EXCEPT ![u] = row] /\ typed' = typed \cup {u}
           /\ raced' = (raced \/ pref[u] # mine[p].row)
  BY <1>1, <1>3, <1>5
<1> QED BY <1>2, <1>4, <1>5 DEF SaveSettings

LEMMA SentStays ==
  ASSUME Typing, CodesIssued, [Next]_vars, NEW q \in Procs, mine[q].update # 0
  PROVE  /\ inbox'[mine[q].update].chat = inbox[mine[q].update].chat
         /\ inbox'[mine[q].update].arg = inbox[mine[q].update].arg
<1>1. mine[q].update \in 1..Len(inbox)
  BY Here
<1> QED BY <1>1, NextTyped DEF BoxGrows

\* Nobody else has the chat of a claim once the others have lost it.
LEMMA ClearedChats ==
  ASSUME Typing, NEW p \in Procs, Clear(p), NEW v \in Users, v # mine[p].user, pref'[v].on
  PROVE  pref'[v].chat # inbox[mine[p].update].chat
<1>1. pref' = [w \in Users |-> IF w # mine[p].user /\ pref[w].chat = inbox[mine[p].update].chat
                              THEN [pref[w] EXCEPT !.chat = None, !.on = FALSE] ELSE pref[w]]
  BY DEF Clear, ClearOthers
<1>2. [pref[v] EXCEPT !.chat = None, !.on = FALSE].on = FALSE
  BY DEF Typing, RowsOK, Preference
<1> QED BY <1>1, <1>2

LEMMA NextChats ==
  ASSUME Typing, CodesIssued, ClaimsAreAlone, ChatHasOneAccount, [Next]_vars
  PROVE  ClaimsAreAlone' /\ ChatHasOneAccount'
<1> DEFINE At(q) == mine[q].update
<1>1. ASSUME NEW q \in Procs, pc'[q] = "claim"
      PROVE  /\ mine'[q] = mine[q] /\ inbox'[At(q)].chat = inbox[At(q)].chat
             /\ pc[q] = "claim" \/ Clear(q)
  <2>1. mine'[q] = mine[q] /\ (pc[q] = "claim" \/ Clear(q))
    BY <1>1, NextClaims DEF ClaimPlaces
  <2>2. At(q) # 0
    BY <2>1, Here DEF Clear, Fits
  <2> QED BY <2>1, <2>2, SentStays
<1>2. CASE NoNewChats
  <2>1. ASSUME NEW q \in Procs, NEW v \in Users, pc'[q] = "claim", ~raced', v # mine'[q].user,
               pref'[v].on, pref'[v].chat = inbox'[mine'[q].update].chat
        PROVE  v \in typed'
    <3>1. mine'[q] = mine[q] /\ pref'[v].chat = inbox[At(q)].chat /\ v # mine[q].user
      BY <1>1, <2>1
    <3>2. pc[q] = "claim"
      BY <1>1, <2>1, <3>1, ClearedChats
    <3>3. v \in typed
      BY <1>2, <2>1, <3>1, <3>2 DEF NoNewChats, ClaimsAreAlone
    <3> QED BY <1>2, <2>1, <3>3 DEF NoNewChats
  <2>2. ASSUME NEW v \in Users, NEW w \in Users, v # w, pref'[v].on, pref'[w].on,
               pref'[v].chat = pref'[w].chat, ~raced'
        PROVE  {v, w} \cap typed' # {}
    <3>1. {v, w} \cap typed # {}
      BY <1>2, <2>2 DEF NoNewChats, ChatHasOneAccount
    <3> QED BY <1>2, <2>2, <3>1 DEF NoNewChats
  <2> QED BY <2>1, <2>2 DEF ClaimsAreAlone, ChatHasOneAccount
<1>3. ASSUME NEW p \in Procs, Claim(p) PROVE ClaimsAreAlone' /\ ChatHasOneAccount'
  <2> DEFINE u == mine[p].user
  <2>1. ~raced' => ~raced /\ \A q \in Procs : pc'[q] # "claim"
    BY <1>3, ClaimWrites DEF Claim, ClaimPlaces
  <2>2. /\ u \in Users /\ pref'[u].chat = inbox[At(p)].chat
        /\ \A v \in Users : v # u => pref'[v] = pref[v]
        /\ typed' = typed \ {u} /\ pc[p] = "claim"
    BY <1>3, ClaimWrites DEF Claim
  <2>3. ASSUME NEW v \in Users, v # u, pref'[v].on, pref'[v].chat = pref'[u].chat, ~raced'
        PROVE  v \in typed'
    BY <2>1, <2>2, <2>3 DEF ClaimsAreAlone
  <2>4. ASSUME NEW v \in Users, NEW w \in Users, v # w, pref'[v].on, pref'[w].on,
               pref'[v].chat = pref'[w].chat, ~raced'
        PROVE  {v, w} \cap typed' # {}
    <3>1. CASE v = u \/ w = u
      BY <2>3, <2>4, <3>1
    <3>2. CASE v # u /\ w # u
      BY <2>1, <2>2, <2>4, <3>2 DEF ChatHasOneAccount
    <3> QED BY <3>1, <3>2
  <2> QED BY <2>1, <2>4 DEF ClaimsAreAlone, ChatHasOneAccount
<1>4. ASSUME NEW p \in Procs, SaveSettings(p) PROVE ClaimsAreAlone' /\ ChatHasOneAccount'
  <2> DEFINE u == mine[p].user
  <2>1. CASE UNCHANGED <<pref, typed, raced>>
    BY <1>2, <2>1 DEF NoNewChats
  <2>2. CASE /\ u \in Users /\ \A v \in Users : v # u => pref'[v] = pref[v]
             /\ typed' = typed \cup {u} /\ ~raced
    <3>1. ASSUME NEW q \in Procs, NEW v \in Users, pc'[q] = "claim", v # mine'[q].user,
                 pref'[v].on, pref'[v].chat = inbox'[mine'[q].update].chat, v # u
          PROVE  v \in typed'
      <4>1. mine'[q] = mine[q] /\ pref'[v].chat = inbox[At(q)].chat
        BY <1>1, <3>1
      <4>2. pc[q] = "claim"
        BY <1>1, <3>1, <4>1, ClearedChats
      <4> QED BY <2>2, <3>1, <4>1, <4>2 DEF ClaimsAreAlone
    <3>2. ASSUME NEW v \in Users, NEW w \in Users, v # w, pref'[v].on, pref'[w].on,
                 pref'[v].chat = pref'[w].chat
          PROVE  {v, w} \cap typed' # {}
      BY <2>2, <3>2 DEF ChatHasOneAccount
    <3> QED BY <2>2, <3>1, <3>2 DEF ClaimsAreAlone, ChatHasOneAccount
  <2>3. CASE raced'
    BY <2>3 DEF ClaimsAreAlone, ChatHasOneAccount
  <2> QED BY <1>4, <2>1, <2>2, <2>3, SaveWrites
<1>5. CASE \A p \in Procs : ~Handle(p)
  BY <1>2, <1>5, OthersKeepRows DEF rows, hist, NoNewChats
<1> QED BY <1>2, <1>3, <1>4, <1>5, HandleChats

LEMMA Invariant3 == Spec => [](ClaimsAreAlone /\ ChatHasOneAccount)
<1>1. Init => ClaimsAreAlone /\ ChatHasOneAccount
  BY DEF Init, NewPreference, ClaimsAreAlone, ChatHasOneAccount
<1>2. /\ Typing /\ CodesAreOwned /\ ClaimsAreAlone /\ ChatHasOneAccount /\ [Next]_vars
      => ClaimsAreAlone' /\ ChatHasOneAccount'
  BY NextChats, OwnedCodes
<1> QED BY <1>1, <1>2, Invariant1, PTL DEF Spec

\* However claims, disconnections and settings of several accounts are
\* interleaved, a chat speaks for one account only, unless it was typed in, or
\* two claims or a form overlapped (linking.claim_link clears, then joins).
THEOREM ChatsSpeakForOne == Spec => []ChatHasOneAccount
  BY Invariant3, PTL

\* The code that a claim was sent with is the one in the row that was loaded.
ClaimsHoldCodes ==
  \A p \in Procs : pc[p] \in ClaimPlaces => mine[p].row.code = inbox[mine[p].update].arg

OneChat(chats) == chats = {} \/ \E chat \in Chats : chats = {chat}

\* A code that somebody has or sent has connected nothing yet.
CodesAreFresh ==
  raced \/ /\ \A code \in 1..issued : OneChat(joined[code])
           /\ \A u \in Users : pref[u].code # 0 => joined[pref[u].code] = {}
           /\ \A p \in Procs : pc[p] \in ClaimPlaces => joined[inbox[mine[p].update].arg] = {}

\* A step that neither issues a code nor uses one.
NoNewCodes ==
  /\ joined' = joined /\ issued' = issued /\ (raced => raced')
  /\ \A v \in Users : pref'[v].code \in {0, pref[v].code}

LEMMA HandleJoins ==
  ASSUME Typing, NEW p \in Procs, Handle(p)
  PROVE  \/ NoNewCodes \/ Claim(p) \/ SaveSettings(p)
         \/ /\ \E u \in Users : NewCodeOf(u)
            /\ joined' = Append(joined, {}) /\ raced' = raced
<1> DEFINE u == mine[p].user
<1>1. u \in Users /\ pref \in [Users -> Preference]
  BY Here, HandleMoves DEF Typing, RowsOK
<1>2. CASE UNCHANGED <<pref, issued, joined, raced>>
  BY <1>2 DEF NoNewCodes
<1>3. CASE Clear(p)
  <2>1. pref' = [v \in Users |-> IF v # u /\ pref[v].chat = inbox[mine[p].update].chat
                                THEN [pref[v] EXCEPT !.chat = None, !.on = FALSE] ELSE pref[v]]
    BY <1>3 DEF Clear, ClearOthers
  <2>2. \A v \in Users : [pref[v] EXCEPT !.chat = None, !.on = FALSE].code = pref[v].code
    BY <1>1 DEF Preference
  <2> QED BY <1>3, <2>1, <2>2 DEF Clear, hist, NoNewCodes
<1>4. CASE Select(p)
  <2>1. CASE pref' = [pref EXCEPT ![u].active = mine[p].lens]
    <3>1. \A v \in Users : pref'[v].code = pref[v].code
      BY <1>1, <2>1 DEF Preference
    <3> QED BY <1>4, <3>1 DEF Select, hist, NoNewCodes
  <2>2. CASE UNCHANGED pref
    BY <1>2, <1>4, <2>2 DEF Select, hist
  <2> QED BY <1>4, <2>1, <2>2 DEF Select
<1>5. CASE Delete(p)
  <2>1. pref' = [v \in Users |-> IF pref[v].active = mine[p].lens
                                THEN [pref[v] EXCEPT !.active = 0] ELSE pref[v]]
    BY <1>5 DEF Delete, Forget
  <2>2. \A v \in Users : pref'[v].code = pref[v].code
    BY <1>1, <2>1 DEF Preference
  <2> QED BY <1>5, <2>2 DEF Delete, hist, NoNewCodes
<1>6. CASE Issue(p)
  <2>1. CASE /\ issued' = issued + 1 /\ pref' = [pref EXCEPT ![u].code = NewCode]
             /\ joined' = Append(joined, {})
    <3>1. pref'[u].code = issued + 1 /\ \A v \in Users : v # u => pref'[v] = pref[v]
      BY <1>1, <2>1 DEF Preference, NewCode
    <3> QED BY <1>1, <1>6, <2>1, <3>1 DEF Issue, NewCodeOf
  <2> QED BY <1>2, <1>6, <2>1 DEF Issue
<1>7. CASE Disconnect(p)
  <2>1. PICK row : row = [pref[u] EXCEPT !.chat = None, !.on = FALSE]
    OBVIOUS
  <2>2. row.code = pref[u].code /\ pref' = [pref EXCEPT ![u] = row]
    BY <1>1, <1>7, <2>1 DEF Disconnect, Preference
  <2> QED BY <1>1, <1>7, <2>2 DEF Disconnect, NoNewCodes
<1>8. CASE Look(p) \/ Create(p) \/ Pick(p) \/ FindLens(p) \/ Talk(p) \/ Remaining(p)
  BY <1>2, <1>8 DEF Look, Create, Pick, FindLens, Talk, Remaining, rows, hist
<1> QED BY <1>3, <1>4, <1>5, <1>6, <1>7, <1>8 DEF Handle

LEMMA NextHolds ==
  ASSUME Typing, CodesIssued, ClaimsHoldCodes, [Next]_vars
  PROVE  ClaimsHoldCodes'
<1>1. ASSUME NEW q \in Procs, pc'[q] \in ClaimPlaces
      PROVE  mine'[q].row.code = inbox'[mine'[q].update].arg
  <2>1. CASE mine'[q] = mine[q] /\ pc[q] \in ClaimPlaces
    <3>1. mine[q].update # 0
      BY <2>1, Here DEF ClaimPlaces, Fits
    <3> QED BY <2>1, <3>1, SentStays DEF ClaimsHoldCodes
  <2>2. ASSUME NEW i \in DOMAIN inbox, NEW u \in Users, pref[u].code = inbox[i].arg,
               mine'[q] = Begun(i, u)
        PROVE  mine'[q].row.code = inbox'[mine'[q].update].arg
    <3>1. i \in 1..Len(inbox)
      BY LenProperties DEF Typing, BoxOK
    <3>2. inbox'[i].arg = inbox[i].arg
      BY <3>1, NextTyped DEF BoxGrows
    <3> QED BY <2>2, <3>2 DEF Begun
  <2> QED BY <1>1, <2>1, <2>2, NextClaims DEF Clear, ClaimPlaces
<1> QED BY <1>1 DEF ClaimsHoldCodes

\* A claim that is under way after a step is of a code no claim had used.
LEMMA NextSent ==
  ASSUME Typing, CodesIssued, CodesAreFresh, ~raced, [Next]_vars, NEW q \in Procs,
         pc'[q] \in ClaimPlaces
  PROVE  /\ inbox'[mine'[q].update].arg \in 1..issued
         /\ joined[inbox'[mine'[q].update].arg] = {}
<1>1. CASE mine'[q] = mine[q] /\ pc[q] \in ClaimPlaces
  <2>1. mine[q].update \in 1..Len(inbox) /\ inbox[mine[q].update].text = "link"
    BY <1>1, Here DEF ClaimPlaces, Fits
  <2>2. inbox'[mine[q].update].arg = inbox[mine[q].update].arg
          /\ inbox[mine[q].update].arg \in 1..issued
    BY <2>1, SentStays DEF Typing, BoxOK
  <2> QED BY <1>1, <2>2 DEF CodesAreFresh
<1>2. ASSUME NEW i \in DOMAIN inbox, NEW u \in Users, inbox[i].text = "link",
             pref[u].code = inbox[i].arg,
             mine'[q] = Begun(i, u)
      PROVE  /\ inbox'[mine'[q].update].arg \in 1..issued
             /\ joined[inbox'[mine'[q].update].arg] = {}
  <2>1. i \in 1..Len(inbox)
    BY LenProperties DEF Typing, BoxOK
  <2>2. inbox'[i].arg = inbox[i].arg /\ inbox[i].arg \in 1..issued
    BY <1>2, <2>1, NextTyped DEF BoxGrows, Typing, BoxOK
  <2>3. pref[u].code # 0 /\ mine'[q].update = i
    BY <1>2, <2>2 DEF Begun
  <2> QED BY <1>2, <2>2, <2>3 DEF CodesAreFresh
<1> QED BY <1>1, <1>2, NextClaims DEF Clear, ClaimPlaces

LEMMA NextFresh ==
  ASSUME Typing, CodesAreOwned, ClaimsHoldCodes, CodesAreFresh, [Next]_vars
  PROVE  CodesAreFresh'
<1>1. issued \in Nat /\ joined \in Seq(SUBSET Chats) /\ Len(joined) = issued /\ CodesIssued
  BY OwnedCodes DEF Typing, RowsOK
<1>2. CASE NoNewCodes
  <2>1. ASSUME ~raced', NEW q \in Procs, pc'[q] \in ClaimPlaces
        PROVE  joined'[inbox'[mine'[q].update].arg] = {}
    BY <1>1, <1>2, <2>1, NextSent DEF NoNewCodes
  <2>2. ASSUME ~raced', NEW v \in Users, pref'[v].code # 0 PROVE joined'[pref'[v].code] = {}
    BY <1>2, <2>2 DEF NoNewCodes, CodesAreFresh
  <2>3. ~raced' => \A code \in 1..issued' : OneChat(joined'[code])
    BY <1>2 DEF NoNewCodes, CodesAreFresh
  <2> QED BY <2>1, <2>2, <2>3 DEF CodesAreFresh
<1>3. ASSUME NEW p \in Procs, Claim(p) PROVE CodesAreFresh'
  <2> DEFINE u == mine[p].user
             update == inbox[mine[p].update]
  <2>1. /\ u \in Users /\ update.arg \in 1..issued /\ update.chat \in Chats
        /\ pref'[u].code = 0 /\ issued' = issued
        /\ \A v \in Users : v # u => pref'[v] = pref[v]
        /\ raced' \/ \A q \in Procs : pc'[q] \notin ClaimPlaces
    BY <1>3, ClaimWrites
  <2>2. /\ joined' = [joined EXCEPT ![update.arg] = @ \cup {update.chat}]
        /\ ~raced' => ~raced
        /\ pc[p] = "claim"
    BY <1>3 DEF Claim
  <2>3. \A code \in 1..issued :
          joined'[code] = IF code = update.arg
            THEN joined[code] \cup {update.chat} ELSE joined[code]
    BY <1>1, <2>1, <2>2, LenProperties
  <2>4. ~raced => joined[update.arg] = {}
    BY <2>2 DEF CodesAreFresh, ClaimPlaces
  <2>5. ASSUME ~raced', NEW code \in 1..issued' PROVE OneChat(joined'[code])
    <3>1. ~raced /\ code \in 1..issued /\ OneChat(joined[code])
      BY <2>1, <2>2, <2>5 DEF CodesAreFresh
    <3>2. CASE code = update.arg
      <4>1. joined'[code] = {update.chat}
        BY <2>3, <2>4, <3>1, <3>2
      <4> QED BY <2>1, <4>1 DEF OneChat
    <3>3. CASE code # update.arg
      BY <2>3, <3>1, <3>3
    <3> QED BY <3>2, <3>3
  <2>6. ASSUME ~raced', NEW v \in Users, pref'[v].code # 0 PROVE joined'[pref'[v].code] = {}
    <3>1. v # u /\ pref'[v].code = pref[v].code
      BY <2>1, <2>6
    <3>2. mine[p].row.code = update.arg
      BY <2>2 DEF ClaimsHoldCodes, ClaimPlaces
    <3>3. pref[v].code # update.arg /\ pref[v].code \in 1..issued
      BY <1>1, <2>1, <2>6, <3>1, <3>2 DEF CodesAreOwned, CodesOwnedBy, HasCode
    <3> QED BY <2>2, <2>3, <2>6, <3>1, <3>3 DEF CodesAreFresh
  <2> QED BY <2>1, <2>5, <2>6 DEF CodesAreFresh
<1>4. ASSUME NEW p \in Procs, SaveSettings(p) PROVE CodesAreFresh'
  <2>1. issued' = issued /\ joined' = joined
    BY <1>4 DEF SaveSettings
  <2>2. CASE UNCHANGED <<pref, typed, raced>>
    BY <1>2, <2>1, <2>2 DEF NoNewCodes
  <2>3. CASE /\ ~raced /\ pref[mine[p].user] = mine[p].row /\ ~raced'
             /\ pref'[mine[p].user].code = mine[p].row.code
             /\ \A v \in Users : v # mine[p].user => pref'[v] = pref[v]
    <3>1. \A v \in Users : pref'[v].code = pref[v].code
      BY <2>3
    <3> QED BY <1>2, <2>1, <2>3, <3>1 DEF NoNewCodes
  <2>4. CASE raced'
    BY <2>4 DEF CodesAreFresh
  <2> QED BY <1>4, <2>2, <2>3, <2>4, SaveWrites
<1>5. ASSUME NEW u \in Users, NewCodeOf(u), joined' = Append(joined, {}), raced' = raced
      PROVE  CodesAreFresh'
  <2>1. issued' = issued + 1 /\ pref'[u].code = issued + 1
          /\ \A v \in Users : v # u => pref'[v] = pref[v]
    BY <1>5 DEF NewCodeOf
  <2>2. joined'[issued + 1] = {} /\ \A code \in 1..issued : joined'[code] = joined[code]
    BY <1>1, <1>5, AppendProperties
  <2>3. ASSUME ~raced, NEW code \in 1..issued' PROVE OneChat(joined'[code])
    <3>1. code \in 1..issued \/ code = issued + 1
      BY <1>1, <2>1
    <3> QED BY <2>2, <2>3, <3>1 DEF CodesAreFresh, OneChat
  <2>4. ASSUME ~raced, NEW v \in Users, pref'[v].code # 0 PROVE joined'[pref'[v].code] = {}
    BY <1>1, <2>1, <2>2, <2>4 DEF CodesAreFresh, CodesIssued
  <2>5. ASSUME ~raced, NEW q \in Procs, pc'[q] \in ClaimPlaces
        PROVE  joined'[inbox'[mine'[q].update].arg] = {}
    BY <1>1, <2>2, <2>5, NextSent
  <2> QED BY <1>5, <2>3, <2>4, <2>5 DEF CodesAreFresh
<1>6. CASE \A p \in Procs : ~Handle(p)
  BY <1>2, <1>6, OthersKeepRows DEF rows, hist, NoNewCodes
<1> QED BY <1>2, <1>3, <1>4, <1>5, <1>6, HandleJoins

LEMMA Invariant4 == Spec => [](ClaimsHoldCodes /\ CodesAreFresh)
<1>1. Init => ClaimsHoldCodes /\ CodesAreFresh
  BY DEF Init, NewPreference, ClaimsHoldCodes, CodesAreFresh, ClaimPlaces
<1>2. /\ Typing /\ CodesAreOwned /\ ClaimsHoldCodes /\ CodesAreFresh /\ [Next]_vars
      => ClaimsHoldCodes' /\ CodesAreFresh'
  BY NextHolds, NextFresh, OwnedCodes
<1> QED BY <1>1, <1>2, Invariant1, PTL DEF Spec

\* A code that was spent connects no second chat, however its account is linked,
\* disconnected and linked again, and whatever was sent with it before: the
\* code in the row is always one that has connected nothing (linking.claim_link).
THEOREM CodesAreSpent == Spec => []CodesConnectOnce
<1>1. Typing /\ CodesAreFresh => CodesConnectOnce
  <2> SUFFICES ASSUME Typing, CodesAreFresh, ~raced, NEW code \in DOMAIN joined
               PROVE  Cardinality(joined[code]) <= 1
    BY DEF CodesConnectOnce
  <2>1. code \in 1..issued
    BY LenProperties DEF Typing, RowsOK
  <2>2. joined[code] = {} \/ \E chat \in Chats : joined[code] = {chat}
    BY <2>1 DEF CodesAreFresh, OneChat
  <2>3. Cardinality({}) = 0 /\ \A chat : Cardinality({chat}) = 1
    BY FS_EmptySet, FS_Singleton
  <2> QED BY <2>2, <2>3
<1> QED BY <1>1, Invariant1, Invariant4, PTL

-----------------------------------------------------------------------------
(* A deletion that nothing disturbs. *)

\* Nothing else goes on while a sole update is open, and one process has it.
Alone(i) ==
  /\ ~inbox[i].done => \A j \in 1..Len(inbox) : j # i => inbox[j].done
  /\ ~inbox[i].done => \A p \in Procs : pc[p] = "idle" \/ mine[p].update = i
  /\ inbox[i].done \/ ~inbox[i].again => \A p \in Procs : mine[p].update # i
  /\ \A p, q \in Procs : mine[p].update = i /\ mine[q].update = i => p = q

\* Until it is delivered, its chat talks to the Lenses it was talking to.
Untouched(i) ==
  ~inbox[i].done /\ ~inbox[i].again =>
    \A u \in Users : Speaks(inbox[i].chat, u) => Talking(u) \in inbox[i].talking

\* A deletion has one of the Lenses in hand, once it has looked for its Lens.
Targets(label, l, lenses) ==
  /\ label # "lens"
  /\ label = "delete" => l.lens \in lenses
  /\ l.text = "delete" => label \in {"select", "delete", "remaining"}
  /\ label = "select" /\ l.text = "delete" => l.lens \in lenses

Aimed(p, i) ==
  mine[p].update = i =>
    IF pc[p] = "lens" THEN /\ mine[p].row.active = pref[mine[p].user].active
                           /\ Talking(mine[p].user) \in inbox[i].talking
    ELSE Targets(pc[p], mine[p], inbox[i].talking)

SoleOK(i) ==
  /\ Alone(i) /\ Untouched(i) /\ \A p \in Procs : Aimed(p, i)
  /\ inbox[i].erased \subseteq inbox[i].talking

SoleUpdates == \A i \in 1..Len(inbox) : inbox[i].sole => SoleOK(i)

\* An update that is done with is sound if nobody works on it any more.
LEMMA Settled ==
  ASSUME NEW i, inbox[i].done, \A q \in Procs : mine[q].update # i,
         inbox[i].erased \subseteq inbox[i].talking
  PROVE  SoleOK(i)
  BY DEF SoleOK, Alone, Untouched, Aimed

LEMMA SettledNext ==
  ASSUME NEW i, inbox'[i].done, \A q \in Procs : mine'[q].update # i,
         inbox'[i].erased \subseteq inbox'[i].talking
  PROVE  SoleOK(i)'
  BY DEF SoleOK, Alone, Untouched, Aimed

\* A request writes to no update but its own.
LEMMA HandleBox ==
  ASSUME Typing, NEW p \in Procs, Handle(p)
  PROVE  /\ Len(inbox') = Len(inbox)
         /\ \A i \in 1..Len(inbox) : i # mine[p].update => inbox'[i] = inbox[i]
         /\ mine[p].update = 0 => inbox' = inbox
<1> DEFINE k == mine[p].update
<1>1. k \in 0..Len(inbox) /\ Len(inbox) \in Nat /\ DOMAIN inbox = 1..Len(inbox)
        /\ inbox \in Seq(Updates)
  BY Here, LenProperties DEF Typing, BoxOK
<1>2. ASSUME NEW u, inbox' = [inbox EXCEPT ![k] = u], k # 0
      PROVE  /\ Len(inbox') = Len(inbox)
             /\ \A i \in 1..Len(inbox) : i # k => inbox'[i] = inbox[i]
  <2>1. DOMAIN inbox' = 1..Len(inbox) /\ \A i \in 1..Len(inbox) : i # k => inbox'[i] = inbox[i]
    BY <1>1, <1>2
  <2>2. Len(inbox') = Len(inbox)
    BY <1>1, <1>2, ExceptSeq
  <2> QED BY <2>1, <2>2
<1>3. CASE inbox' = inbox
  BY <1>3
<1>4. CASE Answer(p)
  BY <1>2, <1>3, <1>4 DEF Answer
<1>5. CASE Raise(p) \/ \E label, l : Continue(p, label, l)
  BY <1>3, <1>5 DEF Raise, Continue
<1>6. CASE Delete(p)
  BY <1>2, <1>3, <1>6 DEF Delete
<1> QED BY <1>3, <1>4, <1>5, <1>6 DEF Handle, Clear, Claim, Select, Look, Create, Pick, FindLens, Talk,
           Remaining, Issue, Disconnect, SaveSettings

\* What the handler of a sole update does next: it answers, raises, deletes the
\* Lens it has in hand or goes on with one that is a target.
LEMMA HandleTargets ==
  ASSUME Typing, ActiveLensIsOwn, NEW p \in Procs, Handle(p), mine[p].update # 0,
         Aimed(p, mine[p].update)
  PROVE  \/ (Answer(p) \/ Raise(p))
         \/ /\ inbox' = inbox
            /\ \E label, l : /\ Goto(p, label, l) /\ label # "idle" /\ l.update = mine[p].update
                             /\ Targets(label, l, inbox[mine[p].update].talking)
         \/ Delete(p)
<1> DEFINE i == mine[p].update
           u == mine[p].user
           lenses == inbox[i].talking
           Goal == \/ (Answer(p) \/ Raise(p))
                   \/ /\ inbox' = inbox
                      /\ \E label, l : /\ Goto(p, label, l) /\ label # "idle" /\ l.update = i
                                       /\ Targets(label, l, lenses)
                   \/ Delete(p)
<1>1. u \in Users /\ mine[p] \in Locals
  BY Here, HandleMoves
<1>2. pc[p] # "lens" => Targets(pc[p], mine[p], lenses)
  BY DEF Aimed
<1>3. ASSUME NEW label, NEW l, Continue(p, label, l), label # "idle", l.update = i,
             Targets(label, l, lenses)
      PROVE  Goal
  BY <1>3 DEF Continue
<1>4. CASE Clear(p)
  BY <1>2, <1>3, <1>4 DEF Clear, Targets
<1>5. CASE Select(p)
  <2>1. CASE mine[p].text \in {"delete", "talk"} /\ Continue(p, mine[p].text, mine[p])
    <3>1. mine[p].text = "delete" => mine[p].lens \in lenses
      BY <1>2, <1>5 DEF Select, Targets
    <3>2. Targets(mine[p].text, mine[p], lenses)
      BY <2>1, <3>1 DEF Targets
    <3> QED BY <1>3, <2>1, <3>2
  <2> QED BY <1>5, <2>1 DEF Select
<1>6. CASE Create(p)
  <2>1. PICK l : l = [mine[p] EXCEPT !.lens = made + 1]
    OBVIOUS
  <2>2. l.update = i /\ l.text = mine[p].text
    BY <1>1, <2>1 DEF Locals
  <2>3. l.text # "delete"
    BY <1>2, <1>6, <2>2, CreateCases DEF Targets
  <2>4. Targets("select", l, lenses)
    BY <2>3 DEF Targets
  <2> QED BY <1>3, <1>6, <2>1, <2>2, <2>4, CreateCases
<1>12. CASE Look(p)
  <2>1. mine[p].text # "delete"
    BY <1>2, <1>12, LookCases DEF Targets
  <2>2. ASSUME NEW lens, Continue(p, "select", [mine[p] EXCEPT !.lens = lens]) PROVE Goal
    <3>1. PICK l : l = [mine[p] EXCEPT !.lens = lens]
      OBVIOUS
    <3>2. l.update = i /\ l.text = mine[p].text
      BY <1>1, <3>1 DEF Locals
    <3>3. Targets("select", l, lenses)
      BY <2>1, <3>2 DEF Targets
    <3> QED BY <1>3, <2>2, <3>1, <3>2, <3>3
  <2>3. ASSUME NEW label \in {"name", "make"}, Continue(p, label, mine[p]) PROVE Goal
    <3>1. Targets(label, mine[p], lenses) /\ label # "idle"
      BY <2>1 DEF Targets
    <3> QED BY <1>3, <2>3, <3>1
  <2> QED BY <1>12, <2>2, <2>3, LookCases
<1>7. CASE Pick(p)
  <2>1. mine[p].text # "delete"
    BY <1>2, <1>7 DEF Pick, Targets
  <2>2. Targets("select", mine[p], lenses)
    BY <2>1 DEF Targets
  <2> QED BY <1>3, <1>7, <2>2 DEF Pick
<1>8. CASE FindLens(p)
  <2>1. /\ mine[p].row.active = pref[u].active /\ Talking(u) \in lenses
        /\ mine[p].text \in {"delete", "talk"}
    BY <1>8, Here DEF FindLens, Aimed, Fits
  <2>2. ASSUME NEW lens, lens \in lenses, NEW label \in {mine[p].text, "select"},
               Continue(p, label, [mine[p] EXCEPT !.lens = lens])
        PROVE  Goal
    <3>1. PICK l : l = [mine[p] EXCEPT !.lens = lens]
      OBVIOUS
    <3>2. l.update = i /\ l.lens = lens /\ l.text = mine[p].text
      BY <1>1, <3>1 DEF Locals
    <3>3. Targets(label, l, lenses) /\ label # "idle"
      BY <2>1, <2>2, <3>2 DEF Targets
    <3> QED BY <1>3, <2>2, <3>1, <3>2, <3>3
  <2>3. CASE /\ mine[p].row.active \in ToSet(desk[u])
             /\ Continue(p, mine[p].text, [mine[p] EXCEPT !.lens = mine[p].row.active])
    <3>1. desk[u] \in Seq(1..made) /\ made \in Nat
      BY <1>1 DEF Typing, RowsOK
    <3>2. ToSet(desk[u]) \subseteq 1..made
      BY <3>1, Members
    <3>3. mine[p].row.active # 0
      BY <2>3, <3>1, <3>2
    <3> QED BY <2>1, <2>2, <2>3, <3>3 DEF Talking
  <2>4. CASE /\ mine[p].row.active \notin ToSet(desk[u]) /\ Newest(u) # 0
             /\ Continue(p, "select", [mine[p] EXCEPT !.lens = Newest(u)])
    <3>1. mine[p].row.active = 0
      BY <1>1, <2>1, <2>4 DEF ActiveLensIsOwn
    <3> QED BY <2>1, <2>2, <2>4, <3>1 DEF Talking, Newest
  <2> QED BY <1>8, <2>3, <2>4 DEF FindLens
<1>9. CASE Remaining(p)
  <2>1. PICK l : l = [mine[p] EXCEPT !.lens = Newest(u), !.text = None]
    OBVIOUS
  <2>2. l.update = i /\ l.text = None
    BY <1>1, <2>1 DEF Locals
  <2>3. Targets("select", l, lenses)
    BY <2>2, DeskAssumption DEF Targets
  <2> QED BY <1>3, <1>9, <2>1, <2>2, <2>3 DEF Remaining
<1>10. CASE Delete(p)
  BY <1>10
<1>11. CASE Claim(p) \/ Talk(p) \/ Issue(p) \/ Disconnect(p) \/ SaveSettings(p)
  BY <1>11 DEF Claim, Talk, Issue, Disconnect, SaveSettings
<1> QED BY <1>4, <1>5, <1>6, <1>7, <1>8, <1>9, <1>10, <1>11, <1>12 DEF Handle

\* A request that a sole update began leaves it sound, and nobody else is at work.
LEMMA HandleSole ==
  ASSUME Typing, ActiveLensIsOwn, NEW p \in Procs, Handle(p), NEW i \in 1..Len(inbox),
         inbox[i].sole, SoleOK(i), mine[p].update = i
  PROVE  SoleOK(i)'
<1>1. /\ pc[p] # "idle" /\ mine[p].user \in Users
      /\ pc \in [Procs -> Labels] /\ mine \in [Procs -> Locals]
      /\ inbox[i] \in Updates /\ i # 0
      /\ Len(inbox) \in Nat /\ inbox \in Seq(Updates) /\ DOMAIN inbox = 1..Len(inbox)
  BY HandleMoves, Here, UpdateTypes, LenProperties DEF Typing, ProcsOK, BoxOK
<1>2. /\ ~inbox[i].done /\ inbox[i].again
      /\ \A q \in Procs : q # p => pc[q] = "idle" /\ mine[q].update # i
      /\ \A j \in 1..Len(inbox) : j # i => inbox[j].done
      /\ Aimed(p, i) /\ inbox[i].erased \subseteq inbox[i].talking
  BY <1>1 DEF SoleOK, Alone
<1>3. Len(inbox') = Len(inbox) /\ \A j \in 1..Len(inbox) : j # i => inbox'[j] = inbox[j]
  BY HandleBox
<1>4. ASSUME NEW l, NEW label, Goto(p, label, l)
      PROVE  /\ pc'[p] = label /\ mine'[p] = l
             /\ \A q \in Procs : q # p => pc'[q] = "idle" /\ mine'[q] = mine[q]
  BY <1>1, <1>2, <1>4 DEF Goto
<1>5. ASSUME NEW l, NEW label, Goto(p, label, l), l.update = i,
             inbox'[i].talking = inbox[i].talking, inbox'[i].done = FALSE, inbox'[i].again = TRUE,
             inbox'[i].erased \subseteq inbox[i].talking, Targets(label, l, inbox[i].talking)
      PROVE  SoleOK(i)'
  <2>1. Alone(i)'
    BY <1>2, <1>3, <1>4, <1>5 DEF Alone
  <2>2. Untouched(i)'
    BY <1>5 DEF Untouched
  <2>3. ASSUME NEW q \in Procs PROVE Aimed(q, i)'
    BY <1>2, <1>4, <1>5, <2>3 DEF Aimed, Targets
  <2> QED BY <1>5, <2>1, <2>2, <2>3 DEF SoleOK
<1>6. CASE Answer(p)
  <2>1. Goto(p, "idle", Idle) /\ inbox' = [inbox EXCEPT ![i].done = TRUE]
    BY <1>1, <1>6 DEF Answer
  <2>2. inbox'[i].done = TRUE /\ inbox'[i].erased = inbox[i].erased
          /\ inbox'[i].talking = inbox[i].talking
    BY <1>1, <2>1 DEF Updates
  <2>3. \A q \in Procs : mine'[q].update # i
    BY <1>1, <1>2, <1>4, <2>1 DEF Idle
  <2> QED BY <1>2, <2>2, <2>3, SettledNext
<1>7. CASE Raise(p)
  <2>1. Goto(p, "idle", Idle) /\ inbox' = inbox /\ Idle.update = 0
    BY <1>7 DEF Raise, Idle
  <2>2. /\ mine'[p] = Idle /\ pc'[p] = "idle"
        /\ \A q \in Procs : pc'[q] = "idle" /\ mine'[q].update # i
    BY <1>1, <1>2, <1>4, <2>1
  <2>3. Alone(i)' /\ Untouched(i)' /\ \A q \in Procs : Aimed(q, i)'
    BY <1>2, <2>1, <2>2 DEF Alone, Untouched, Aimed
  <2> QED BY <1>2, <2>1, <2>3 DEF SoleOK
<1>8. CASE Delete(p)
  <2>1. Goto(p, "remaining", mine[p]) /\ pc[p] = "delete"
    BY <1>8 DEF Delete
  <2>2. mine[p].lens \in inbox[i].talking
    BY <1>2, <2>1 DEF Aimed, Targets
  <2>3. /\ inbox' = inbox \/ inbox' = [inbox EXCEPT ![i].erased = @ \cup {mine[p].lens}]
    BY <1>8 DEF Delete
  <2>4. /\ inbox'[i].talking = inbox[i].talking /\ inbox'[i].done = inbox[i].done
        /\ inbox'[i].again = inbox[i].again
        /\ inbox'[i].erased \subseteq inbox[i].erased \cup {mine[p].lens}
    BY <1>1, <2>3 DEF Updates
  <2>5. Targets("remaining", mine[p], inbox[i].talking)
    BY DEF Targets
  <2>6. inbox[i].done = FALSE /\ inbox[i].again = TRUE
    BY <1>1, <1>2 DEF Updates
  <2> QED BY <1>2, <1>5, <2>1, <2>2, <2>4, <2>5, <2>6
<1>9. ASSUME inbox' = inbox, NEW label, NEW l, Goto(p, label, l), l.update = i,
             Targets(label, l, inbox[i].talking)
      PROVE  SoleOK(i)'
  <2>1. inbox[i].done = FALSE /\ inbox[i].again = TRUE
    BY <1>1, <1>2 DEF Updates
  <2> QED BY <1>2, <1>5, <1>9, <2>1
<1> QED BY <1>1, <1>2, <1>6, <1>7, <1>8, <1>9, HandleTargets

LEMMA HandleKeepsSole ==
  ASSUME Typing, NEW p \in Procs, Handle(p), NEW i \in 1..Len(inbox), i = mine[p].update
  PROVE  inbox'[i].sole = inbox[i].sole
<1>1. inbox[i] \in Updates /\ DOMAIN inbox = 1..Len(inbox) /\ i # 0
  BY UpdateTypes, LenProperties DEF Typing, BoxOK
<1>2. CASE inbox' = inbox
  BY <1>2
<1>3. CASE Answer(p)
  <2>1. inbox' = [inbox EXCEPT ![i].done = TRUE]
    BY <1>1, <1>3 DEF Answer
  <2> QED BY <1>1, <2>1 DEF Updates
<1>4. CASE Raise(p) \/ \E label, l : Continue(p, label, l)
  BY <1>2, <1>4 DEF Raise, Continue
<1>5. CASE Delete(p)
  <2>1. inbox' = inbox \/ inbox' = [inbox EXCEPT ![i].erased = @ \cup {mine[p].lens}]
    BY <1>5 DEF Delete
  <2> QED BY <1>1, <2>1 DEF Updates
<1> QED BY <1>2, <1>3, <1>4, <1>5 DEF Handle, Clear, Claim, Select, Look, Create, Pick, FindLens, Talk,
           Remaining, Issue, Disconnect, SaveSettings

\* The first delivery of a sole update.
LEMMA DeliverSole ==
  ASSUME Typing, ActiveLensIsOwn, NEW p \in Procs, NEW i \in 1..Len(inbox), Deliver(p, i),
         inbox[i].sole, ~inbox[i].again, SoleOK(i)
  PROVE  SoleOK(i)'
<1>1. /\ pc \in [Procs -> Labels] /\ mine \in [Procs -> Locals]
      /\ DOMAIN inbox = 1..Len(inbox) /\ Len(inbox) \in Nat
  BY LenProperties DEF Typing, ProcsOK, BoxOK
<1>2. /\ \A q \in Procs : pc[q] = "idle" /\ mine[q].update # i
      /\ \A j \in 1..Len(inbox) : j # i => inbox[j].done
      /\ inbox[i].erased \subseteq inbox[i].talking
      /\ \A u \in Users : Speaks(inbox[i].chat, u) => Talking(u) \in inbox[i].talking
  BY <1>1, DeliverCases DEF SoleOK, Alone, Untouched
<1>3. ASSUME NEW none \in BOOLEAN, inbox' = [inbox EXCEPT ![i] = Delivered(i, none)]
      PROVE  /\ inbox'[i].done = none /\ inbox'[i].again
             /\ inbox'[i].talking = inbox[i].talking /\ inbox'[i].erased = inbox[i].erased
             /\ \A j \in 1..Len(inbox) : j # i => inbox'[j] = inbox[j]
             /\ Len(inbox') = Len(inbox)
  <2>1. /\ inbox'[i] = Delivered(i, none) /\ \A j \in 1..Len(inbox) : j # i => inbox'[j] = inbox[j]
        /\ DOMAIN inbox' = 1..Len(inbox)
    BY <1>1, <1>3
  <2>2. Len(inbox') = Len(inbox)
    BY <1>1, <1>3, DeliveredType, ExceptSeq DEF Typing, BoxOK
  <2> QED BY <2>1, <2>2, DeliveredType
<1>4. CASE UNCHANGED <<pc, mine>> /\ inbox' = [inbox EXCEPT ![i] = Delivered(i, TRUE)]
  BY <1>2, <1>3, <1>4, SettledNext
<1>5. ASSUME NEW u \in Owners(i), Goto(p, Place(inbox[i].text), Begun(i, u)),
             inbox' = [inbox EXCEPT ![i] = Delivered(i, FALSE)], UNCHANGED rows
      PROVE  SoleOK(i)'
  <2>1. /\ inbox'[i].done = FALSE /\ inbox'[i].again
        /\ inbox'[i].talking = inbox[i].talking /\ inbox'[i].erased = inbox[i].erased
        /\ \A j \in 1..Len(inbox) : j # i => inbox'[j] = inbox[j]
        /\ Len(inbox') = Len(inbox)
    BY <1>3, <1>5
  <2>2. /\ pc'[p] = Place(inbox[i].text) /\ mine'[p] = Begun(i, u)
        /\ \A q \in Procs : q # p => pc'[q] = pc[q] /\ mine'[q] = mine[q]
    BY <1>1, <1>5 DEF Goto
  <2>3. PICK l : l = Begun(i, u)
    OBVIOUS
  <2>4. l.update = i /\ l.user = u /\ l.row = pref[u] /\ l.text = inbox[i].text
    BY <2>3 DEF Begun
  <2>5. Alone(i)'
    BY <1>2, <2>1, <2>2, <2>3, <2>4 DEF Alone
  <2>6. Untouched(i)'
    BY <2>1 DEF Untouched
  <2>7. Aimed(p, i)'
    <3>1. CASE inbox[i].text \in {"link", "create", "new", "agent"}
      <4>1. pc'[p] \in {"clear", "create", "new", "pick"}
        BY <2>2, <3>1 DEF Place
      <4>2. Targets(pc'[p], mine'[p], inbox'[i].talking)
        BY <2>2, <2>3, <2>4, <3>1, <4>1 DEF Targets
      <4> QED BY <4>1, <4>2 DEF Aimed
    <3>2. CASE inbox[i].text \notin {"link", "create", "new", "agent"}
      <4>1. pc'[p] = "lens" /\ Speaks(inbox[i].chat, u) /\ u \in Users
        BY <1>5, <2>2, <3>2 DEF Place, Owners
      <4>2. Talking(u) \in inbox'[i].talking
        BY <1>2, <2>1, <4>1
      <4>3. Talking(u)' = Talking(u) /\ pref' = pref
        BY <1>5 DEF Talking, rows
      <4> QED BY <2>2, <2>3, <2>4, <4>1, <4>2, <4>3 DEF Aimed, Talking
    <3> QED BY <3>1, <3>2
  <2>8. \A q \in Procs : Aimed(q, i)'
    BY <1>2, <2>2, <2>7 DEF Aimed
  <2> QED BY <1>2, <2>1, <2>5, <2>6, <2>8 DEF SoleOK
<1> QED BY <1>1, <1>4, <1>5, DeliverCases

LEMMA NextSole ==
  ASSUME Typing, ActiveLensIsOwn, CodesIssued, SoleUpdates, [Next]_vars
  PROVE  SoleUpdates'
<1>1. /\ Len(inbox) \in Nat /\ DOMAIN inbox = 1..Len(inbox)
      /\ pc \in [Procs -> Labels] /\ mine \in [Procs -> Locals]
  BY LenProperties DEF Typing, BoxOK, ProcsOK
<1>2. ASSUME NEW i \in 1..Len(inbox), inbox[i].sole, inbox[i].done, inbox'[i] = inbox[i],
             \A q \in Procs : mine'[q].update \in {0, mine[q].update}
      PROVE  SoleOK(i)'
  <2>1. \A q \in Procs : mine[q].update # i
    BY <1>2 DEF SoleUpdates, SoleOK, Alone
  <2>2. inbox[i].erased \subseteq inbox[i].talking
    BY <1>2 DEF SoleUpdates, SoleOK
  <2> QED BY <1>2, <2>1, <2>2, SettledNext
<1>3. CASE UNCHANGED vars
  BY <1>3 DEF vars, rows, SoleUpdates, SoleOK, Alone, Untouched, Aimed, Speaks, Talking
<1>4. ASSUME NEW p \in Procs, Handle(p) PROVE SoleUpdates'
  <2>1. Len(inbox') = Len(inbox)
    BY <1>4, HandleBox
  <2>2. mine[p].update \in 0..Len(inbox) /\ pc[p] # "idle"
    BY <1>4, Here, HandleMoves
  <2>3. \A q \in Procs : mine'[q].update \in {0, mine[q].update}
    BY <1>1, <1>4, HandleMoves DEF Goto, Kept, Idle
  <2>4. ASSUME NEW i \in 1..Len(inbox), inbox'[i].sole PROVE SoleOK(i)'
    <3>1. CASE i = mine[p].update
      <4>1. inbox[i].sole
        BY <1>4, <2>4, <3>1, HandleKeepsSole
      <4> QED BY <1>4, <2>4, <3>1, <4>1, HandleSole DEF SoleUpdates
    <3>2. CASE i # mine[p].update
      <4>1. inbox'[i] = inbox[i]
        BY <1>4, <3>2, HandleBox
      <4>2. inbox[i].done
        BY <2>2, <2>4, <3>2, <4>1 DEF SoleUpdates, SoleOK, Alone
      <4> QED BY <1>2, <2>3, <2>4, <4>1, <4>2
    <3> QED BY <3>1, <3>2
  <2> QED BY <2>1, <2>4 DEF SoleUpdates
<1>5. ASSUME NEW p \in Procs, NEW i \in DOMAIN inbox, Deliver(p, i) PROVE SoleUpdates'
  <2>1. i \in 1..Len(inbox) /\ ~inbox[i].done
    BY <1>1, <1>5, DeliverCases
  <2>2. PICK none \in BOOLEAN : inbox' = [inbox EXCEPT ![i] = Delivered(i, none)]
    BY <1>5, DeliverCases
  <2>3. /\ inbox'[i] = Delivered(i, none) /\ Len(inbox') = Len(inbox)
        /\ \A j \in 1..Len(inbox) : j # i => inbox'[j] = inbox[j]
    BY <1>1, <2>1, <2>2, DeliveredType, ExceptSeq DEF Typing, BoxOK
  <2>4. inbox'[i].sole => inbox[i].sole /\ ~inbox[i].again
    BY <2>1, <2>3, DeliveredType
  <2>5. \A q \in Procs : mine'[q].update \in {i, mine[q].update}
    <3>1. CASE UNCHANGED <<pc, mine>>
      BY <3>1
    <3>2. ASSUME NEW u, Goto(p, Place(inbox[i].text), Begun(i, u))
          PROVE  \A q \in Procs : mine'[q].update \in {i, mine[q].update}
      <4>1. Begun(i, u).update = i
        BY DEF Begun
      <4> QED BY <1>1, <3>2, <4>1 DEF Goto
    <3> QED BY <1>5, <3>1, <3>2, DeliverCases
  <2>6. ASSUME NEW j \in 1..Len(inbox), inbox'[j].sole PROVE SoleOK(j)'
    <3>1. CASE j = i
      BY <1>5, <2>1, <2>4, <2>6, <3>1, DeliverSole DEF SoleUpdates
    <3>2. CASE j # i
      <4>1. inbox'[j] = inbox[j] /\ SoleOK(j)
        BY <2>3, <2>6, <3>2 DEF SoleUpdates
      <4>2. inbox[j].done /\ inbox[j].erased \subseteq inbox[j].talking
        BY <2>1, <3>2, <4>1 DEF SoleOK, Alone
      <4>3. \A q \in Procs : mine[q].update # j
        BY <4>1, <4>2 DEF SoleOK, Alone
      <4> QED BY <2>5, <3>2, <4>1, <4>2, <4>3, SettledNext
    <3> QED BY <3>1, <3>2
  <2> QED BY <2>3, <2>6 DEF SoleUpdates
<1>6. ASSUME NEW i \in 1..Len(inbox), inbox'[i] = Disturbed[i], inbox'[i].sole,
             \A q \in Procs : mine'[q].update \in {0, mine[q].update}
      PROVE  SoleOK(i)'
  <2>1. inbox[i] \in Updates
    BY UpdateTypes DEF Typing
  <2>2. [inbox[i] EXCEPT !.sole = FALSE].sole = FALSE
    BY <2>1 DEF Updates
  <2>3. inbox[i].done /\ inbox'[i] = inbox[i]
    BY <1>6, <2>2, DisturbedBox DEF Typing
  <2> QED BY <1>2, <1>6, <2>3
<1>7. ASSUME NEW p \in Procs, AskSome(p) PROVE SoleUpdates'
  <2>1. inbox' = Disturbed /\ Len(inbox') = Len(inbox)
    BY <1>7, AskCases, DisturbedGrows DEF Typing
  <2>2. PICK u \in Users, label \in PageLabels, lens \in Nat, text \in Forms \cup {None} :
          Goto(p, label, Asked(u, lens, text))
    BY <1>7, AskCases
  <2>3. Asked(u, lens, text).update = 0
    BY DEF Asked, Idle
  <2>4. \A q \in Procs : mine'[q].update \in {0, mine[q].update}
    BY <1>1, <2>2, <2>3 DEF Goto
  <2> QED BY <1>6, <2>1, <2>4 DEF SoleUpdates
<1>8. ASSUME NEW p \in Procs, Lose(p) \/ DeleteRefused(p) PROVE SoleUpdates'
  <2>1. inbox' = inbox /\ UNCHANGED rows /\ Goto(p, "idle", Idle) /\ pc[p] # "idle"
          /\ Idle.update = 0
    BY <1>8 DEF Lose, DeleteRefused, Idle
  <2>2. /\ mine'[p] = Idle /\ pc'[p] = "idle"
        /\ \A q \in Procs : q # p => pc'[q] = pc[q] /\ mine'[q] = mine[q]
    BY <1>1, <2>1 DEF Goto
  <2>3. ASSUME NEW i \in 1..Len(inbox), inbox[i].sole PROVE SoleOK(i)'
    <3>1. SoleOK(i)
      BY <2>3 DEF SoleUpdates
    <3>2. Alone(i)'
      BY <2>1, <2>2, <3>1 DEF SoleOK, Alone
    <3>3. Untouched(i)'
      BY <2>1, <3>1 DEF SoleOK, Untouched, Speaks, Talking, rows
    <3>4. ASSUME NEW q \in Procs PROVE Aimed(q, i)'
      <4>1. CASE q = p
        BY <2>1, <2>2, <4>1 DEF Aimed
      <4>2. CASE q # p
        BY <2>1, <2>2, <3>1, <4>2 DEF SoleOK, Aimed, Talking, rows
      <4> QED BY <4>1, <4>2
    <3> QED BY <2>1, <3>1, <3>2, <3>3, <3>4 DEF SoleOK
  <2> QED BY <2>1, <2>3 DEF SoleUpdates
<1>9. CASE SendSome
  <2>1. PICK u : Sent(u) /\ inbox' = Append(Disturbed, u)
    BY <1>9, SendTyped
  <2>2. UNCHANGED <<rows, pc, mine>>
    BY <1>9, SendTyped
  <2>3. /\ Len(inbox') = Len(inbox) + 1 /\ inbox'[Len(inbox) + 1] = u
        /\ \A i \in 1..Len(inbox) : inbox'[i] = Disturbed[i]
    BY <2>1, DisturbedGrows DEF Typing, Sent
  <2>4. ASSUME NEW i \in 1..Len(inbox), inbox'[i].sole PROVE SoleOK(i)'
    BY <1>6, <2>2, <2>3, <2>4
  <2>5. ASSUME NEW n \in Nat, n = Len(inbox) + 1, u.sole PROVE SoleOK(n)'
    <3>1. n = Len(inbox) + 1
      BY <2>5
    <3>2. inbox'[n] = u /\ ~u.done /\ ~u.again /\ u.erased = {}
      BY <2>1, <2>3, <3>1 DEF Sent
    <3>3. (\A p \in Procs : pc[p] = "idle") /\ \A j \in 1..Len(inbox) : inbox[j].done
      BY <1>1, <2>1, <2>5 DEF Sent, Quiet
    <3>4. \A j \in 1..Len(inbox) : inbox'[j] = inbox[j]
      BY <2>3, <3>3, DisturbedBox DEF Typing
    <3>5. \A p \in Procs : mine[p].update # n
      BY <1>1, <3>1, Here
    <3>6. Alone(n)'
      BY <1>1, <2>2, <2>3, <3>1, <3>2, <3>3, <3>4, <3>5 DEF Alone
    <3>7. Untouched(n)'
      BY <2>1, <2>2, <3>2 DEF Untouched, Sent, Speaks, Talking, rows
    <3>8. \A p \in Procs : Aimed(p, n)'
      BY <2>2, <3>5 DEF Aimed
    <3> QED BY <3>2, <3>6, <3>7, <3>8 DEF SoleOK
  <2>6. ASSUME NEW i \in 1..Len(inbox'), inbox'[i].sole PROVE SoleOK(i)'
    <3>1. i \in 1..Len(inbox) \/ (i \in Nat /\ i = Len(inbox) + 1)
      BY <1>1, <2>3
    <3>2. i = Len(inbox) + 1 => u.sole
      BY <2>3, <2>6
    <3> QED BY <2>4, <2>5, <2>6, <3>1, <3>2
  <2> QED BY <2>6 DEF SoleUpdates
<1> QED BY <1>3, <1>4, <1>5, <1>7, <1>8, <1>9 DEF Next, Work, Over

LEMMA Invariant5 == Spec => []SoleUpdates
<1>1. Init => SoleUpdates
  <2>1. Init => Len(inbox) = 0
    BY EmptySeq DEF Init
  <2> QED BY <2>1 DEF SoleUpdates
<1>2. Typing /\ CodesAreOwned /\ ActiveLensIsOwn /\ SoleUpdates /\ [Next]_vars => SoleUpdates'
  BY NextSole, OwnedCodes
<1> QED BY <1>1, <1>2, Invariant1, Invariant2, PTL DEF Spec

\* A /delete that is delivered once, with nothing else going on, deletes the
\* Lens its chat was talking to when it was sent: the selected one, or the one
\* on top that _dispatch selects first (inbound.py, AgentService.delete).
THEOREM DeletionsAreAimed == Spec => []DeletesTheLensTalkedTo
<1>1. Typing /\ SoleUpdates => DeletesTheLensTalkedTo
  BY LenProperties DEF Typing, BoxOK, SoleUpdates, SoleOK, DeletesTheLensTalkedTo
<1> QED BY <1>1, Invariant1, Invariant5, PTL
=============================================================================

------------------------- MODULE EventCooldownProofs -------------------------
(***************************************************************************)
(* For every cooldown, every set of runs and assets and any course of the  *)
(* clock: a match is suppressed only in favour of an event that was found  *)
(* less than the cooldown ago.                                             *)
(***************************************************************************)
EXTENDS EventCooldown, FiniteSetTheorems, TLAPS

LEMMA FloorBounds ==
  ASSUME NEW x \in Nat, NEW size \in Nat \ {0}
  PROVE  /\ Floor(x, size) \in Nat
         /\ Floor(x, size) <= x
         /\ x < Floor(x, size) + size
<1> DEFINE q == x \div size
<1>1. q \in Nat /\ x % size \in 0..(size - 1)
  BY Z3
<1>2. x = size * q + (x % size)
  BY Z3
<1>3. q * size = size * q /\ q * size \in Nat
  BY <1>1, Z3
<1> QED BY <1>1, <1>2, <1>3, Z3 DEF Floor

\* A window starts before the minutes in it and is shorter than the cooldown.
LEMMA BucketBounds ==
  ASSUME NEW t \in Nat
  PROVE  /\ Bucket(t) \in Nat
         /\ Bucket(t) <= t
         /\ t < Bucket(t) + Cooldown
<1> DEFINE day == Floor(t, Day)
           hour == (t % Day) \div Hour
           minute == t % Hour
<1>1. day \in Nat /\ hour \in Nat /\ minute \in 0..59 /\ t = day + hour * 60 + minute
  BY Z3 DEF Floor, Day, Hour
<1> Cooldown \in Nat \ {0}
  BY CooldownAssumption
<1>2. CASE Cooldown >= Hour
  <2> DEFINE k == Cooldown \div Hour
             start == Floor(hour, k)
  <2>1. k \in Nat \ {0} /\ k * 60 <= Cooldown
    BY <1>2, Z3 DEF Hour
  <2>2. start \in Nat /\ start <= hour /\ hour < start + k
    BY <1>1, <2>1, FloorBounds
  <2>3. Bucket(t) = day + start * 60
    BY <1>2 DEF Bucket, Hour
  <2> HIDE DEF k, start, day, hour, minute
  <2> QED BY <1>1, <2>1, <2>2, <2>3
<1>3. CASE ~ (Cooldown >= Hour)
  <2> DEFINE start == Floor(minute, Cooldown)
  <2>0. minute \in Nat
    BY <1>1
  <2> HIDE DEF minute
  <2>1. start \in Nat /\ start <= minute /\ minute < start + Cooldown
    BY <2>0, FloorBounds
  <2>2. Bucket(t) = day + (hour * 60 + start)
    BY <1>3 DEF Bucket, Hour, minute
  <2> HIDE DEF start, day, hour
  <2> QED BY <1>1, <2>1, <2>2
<1> QED BY <1>2, <1>3

\* Two minutes of one window are less than the cooldown apart.
THEOREM WindowIsShort ==
  ASSUME NEW t \in Nat, NEW u \in Nat, Bucket(t) = Bucket(u)
  PROVE  t - u < Cooldown
<1>1. t < Bucket(t) + Cooldown /\ Bucket(u) <= u /\ Bucket(t) \in Nat
  BY BucketBounds
<1> Cooldown \in Nat
  BY CooldownAssumption
<1> QED BY <1>1
-----------------------------------------------------------------------------
\* The runs remember no minute that lies ahead, and what was suppressed had its
\* event in the same window.
LookedBack ==
  /\ \A e \in events : e.looked <= now
  /\ \A r \in Runs : mine[r].looked <= now

HasItsEvent ==
  \A h \in hushed : \E e \in events :
    PrintOf(e) = Fingerprint(h.asset, h.type, h.at) /\ e.looked <= h.at

Inv == TypeOK /\ LookedBack /\ HasItsEvent

LEMMA IdleTyped ==
  ASSUME NEW type \in Types, NEW n \in 1..Attempts, NEW todo \in SUBSET Assets
  PROVE  [Idle EXCEPT !.type = type, !.todo = todo, !.attempt = n] \in Locals
<1> QED BY CooldownAssumption DEF Idle, Locals

LEMMA LeaveTyped ==
  ASSUME NEW r \in Runs, mine[r] \in Locals
  PROVE  [Idle EXCEPT !.type = mine[r].type, !.attempt = mine[r].attempt] \in Locals
<1> QED BY CooldownAssumption DEF Idle, Locals, Types

\* What looking at an asset leaves in a run's memory.
LEMMA Detecting ==
  ASSUME NEW l \in Locals, NEW a, NEW k, k = [l EXCEPT !.todo = @ \ {a}, !.detected = @ + 1]
  PROVE  k \in Locals /\ k.looked = l.looked
<1>1. l.todo \ {a} \in SUBSET Assets /\ l.detected + 1 \in Nat
  BY DEF Locals
<1>2. k.looked = l.looked
  BY DEF Locals
<1>3. k \in Locals
  BY <1>1 DEF Locals
<1> QED BY <1>2, <1>3

LEMMA Suppressing ==
  ASSUME NEW l \in Locals, NEW a, NEW k, k = [l EXCEPT !.todo = @ \ {a}, !.suppressed = @ + 1]
  PROVE  k \in Locals /\ k.looked = l.looked
<1>1. l.todo \ {a} \in SUBSET Assets /\ l.suppressed + 1 \in Nat
  BY DEF Locals
<1>2. k.looked = l.looked
  BY DEF Locals
<1>3. k \in Locals
  BY <1>1 DEF Locals
<1> QED BY <1>2, <1>3

\* The three ways of looking, and what they leave.
LEMMA Looking ==
  ASSUME NEW l \in Locals, NEW a \in Assets, NEW t \in Nat, NEW k,
         \/ k = [l EXCEPT !.todo = @ \ {a}, !.detected = @ + 1]
         \/ k = [l EXCEPT !.todo = @ \ {a}, !.suppressed = @ + 1]
         \/ k = [l EXCEPT !.todo = @ \ {a}, !.asset = a, !.looked = t]
  PROVE  k \in Locals /\ k.looked \in {l.looked, t}
<1>1. CASE k = [l EXCEPT !.todo = @ \ {a}, !.detected = @ + 1]
  BY <1>1, Detecting
<1>2. CASE k = [l EXCEPT !.todo = @ \ {a}, !.suppressed = @ + 1]
  BY <1>2, Suppressing
<1>3. CASE k = [l EXCEPT !.todo = @ \ {a}, !.asset = a, !.looked = t]
  <2>1. k.looked = t
    BY <1>3 DEF Locals
  <2>2. k \in Locals
    BY <1>3 DEF Locals
  <2> QED BY <2>1, <2>2
<1> QED BY <1>1, <1>2, <1>3

LEMMA InitInv == Init => Inv
<1> SUFFICES ASSUME Init PROVE Inv
  OBVIOUS
<1> USE CooldownAssumption DEF Init
<1>1. Idle \in Locals
  BY DEF Idle, Locals, Types
<1>2. TypeOK
  BY <1>1 DEF TypeOK, NoEvents, Idle
<1>3. LookedBack
  BY DEF LookedBack, Idle
<1>4. HasItsEvent
  BY DEF HasItsEvent
<1> QED BY <1>2, <1>3, <1>4 DEF Inv
-----------------------------------------------------------------------------
\* What a run that is before its event remembers of it.
LEMMA EventTyped ==
  ASSUME TypeOK, NEW r \in Runs, mine[r].asset # NoAsset
  PROVE  EventOf(r) \in Event
<1>1. mine[r] \in Locals
  BY DEF TypeOK
<1> QED BY <1>1 DEF EventOf, Event, Locals

LEMMA NextTyped ==
  ASSUME TypeOK, [Next]_vars
  PROVE  TypeOK'
<1> USE CooldownAssumption
<1>0. mine \in [Runs -> Locals] /\ now \in Nat
  BY DEF TypeOK
<1>1. CASE Tick
  BY <1>1 DEF TypeOK, Tick, rows, hist, EventOf
<1>2. ASSUME NEW r \in Runs, Begin(r) PROVE TypeOK'
  <2>1. PICK type \in Types, todo \in SUBSET Assets :
          Remember(r, [Idle EXCEPT !.type = type, !.todo = todo,
                         !.attempt = IF pc[r] = "failed" THEN mine[r].attempt + 1 ELSE 1])
    BY <1>2 DEF Begin
  <2>2. (IF pc[r] = "failed" THEN mine[r].attempt + 1 ELSE 1) \in 1..Attempts
    BY <1>0, <1>2 DEF Begin, Locals
  <2>3. mine' \in [Runs -> Locals]
    BY <1>0, <2>1, <2>2, IdleTyped DEF Remember
  <2>4. pc' = [pc EXCEPT ![r] = "scan"] /\ UNCHANGED <<now, rows, hushed>>
        /\ together' \subseteq SUBSET Runs
    BY <1>2 DEF Begin, Goto, TypeOK
  <2>5. \A s \in Runs \ {r} : mine'[s] = mine[s] /\ pc'[s] = pc[s]
    BY <1>0, <2>1, <2>4 DEF Remember, TypeOK
  <2>6. pc'[r] = "scan"
    BY <2>4 DEF TypeOK
  <2> QED BY <2>3, <2>4, <2>5, <2>6 DEF TypeOK, rows, EventOf, Working
<1>3. ASSUME NEW r \in Runs, Look(r) PROVE TypeOK'
  <2>1. PICK a \in mine[r].todo :
          \/ /\ mine' = [mine EXCEPT ![r] = IF mine[r].type = "trigger_fired"
                              THEN [mine[r] EXCEPT !.todo = @ \ {a}, !.detected = @ + 1]
                              ELSE [mine[r] EXCEPT !.todo = @ \ {a}, !.suppressed = @ + 1]]
             /\ hushed' = hushed \cup {[asset |-> a, type |-> mine[r].type, at |-> now]}
             /\ UNCHANGED pc
          \/ /\ mine' = [mine EXCEPT ![r] =
                              [mine[r] EXCEPT !.todo = @ \ {a}, !.asset = a, !.looked = now]]
             /\ pc' = [pc EXCEPT ![r] = "create"]
             /\ UNCHANGED hushed
    BY <1>3 DEF Look, Remember, Goto
  <2>2. a \in Assets /\ mine[r] \in Locals /\ mine[r].type \in Types /\ a # NoAsset
    BY <1>0 DEF Locals
  <2>3. /\ [mine[r] EXCEPT !.todo = @ \ {a}, !.detected = @ + 1] \in Locals
        /\ [mine[r] EXCEPT !.todo = @ \ {a}, !.suppressed = @ + 1] \in Locals
        /\ [mine[r] EXCEPT !.todo = @ \ {a}, !.asset = a, !.looked = now] \in Locals
    <3>1. PICK l \in Locals : l = mine[r]
      BY <2>2
    <3>2. [l EXCEPT !.todo = @ \ {a}, !.detected = @ + 1] \in Locals
      BY <2>2, Detecting
    <3>3. [l EXCEPT !.todo = @ \ {a}, !.suppressed = @ + 1] \in Locals
      BY <2>2, Suppressing
    <3>4. [l EXCEPT !.todo = @ \ {a}, !.asset = a, !.looked = now] \in Locals
      BY <1>0, <2>2 DEF Locals
    <3> QED BY <3>1, <3>2, <3>3, <3>4
  <2>4. mine' \in [Runs -> Locals]
    BY <1>0, <2>1, <2>3
  <2>5. UNCHANGED <<now, rows, together>> /\ pc[r] = "scan"
    BY <1>3 DEF Look
  <2>6. hushed' \subseteq Match
    BY <1>0, <2>1, <2>2 DEF TypeOK, Match
  <2>7. \A s \in Runs \ {r} : mine'[s] = mine[s] /\ pc'[s] = pc[s]
    BY <1>0, <2>1 DEF TypeOK
  <2>8. pc'[r] = "scan" \/ (pc'[r] = "create" /\ mine'[r].asset = a)
    <3>1. ASSUME mine' = [mine EXCEPT ![r] =
                              [mine[r] EXCEPT !.todo = @ \ {a}, !.asset = a, !.looked = now]]
          PROVE  mine'[r].asset = a
      <4>1. mine'[r] = [mine[r] EXCEPT !.todo = @ \ {a}, !.asset = a, !.looked = now]
        BY <1>0, <3>1
      <4>2. PICK k : k = mine'[r]
        OBVIOUS
      <4>3. PICK l \in Locals : l = mine[r]
        BY <2>2
      <4>4. k = [l EXCEPT !.todo = @ \ {a}, !.asset = a, !.looked = now]
        BY <4>1, <4>2, <4>3
      <4>5. k.asset = a
        BY <1>0, <2>2, <4>4 DEF Locals
      <4> QED BY <4>2, <4>5
    <3>2. pc \in [Runs -> Working \cup {"idle", "done", "failed", "dead"}]
      BY DEF TypeOK
    <3>3. CASE UNCHANGED pc
      BY <2>5, <3>3
    <3>4. CASE ~ UNCHANGED pc
      <4>1. pc' = [pc EXCEPT ![r] = "create"]
        BY <2>1, <3>4
      <4>2. mine'[r].asset = a
        BY <2>1, <3>1, <3>4
      <4> QED BY <3>2, <4>1, <4>2
    <3> QED BY <3>3, <3>4
  <2>9. pc' \in [Runs -> Working \cup {"idle", "done", "failed", "dead"}]
    BY <2>1 DEF TypeOK, Working
  <2> QED BY <2>2, <2>4, <2>5, <2>6, <2>7, <2>8, <2>9 DEF TypeOK, rows, EventOf
<1>4. ASSUME NEW r \in Runs, Create(r) PROVE TypeOK'
  <2>1. EventOf(r) \in Event
    BY <1>4, EventTyped DEF Create, TypeOK
  <2>2. [mine[r] EXCEPT !.detected = @ + 1] \in Locals
    BY <1>0 DEF Locals
  <2>3. mine' \in [Runs -> Locals] /\ \A s \in Runs \ {r} : mine'[s] = mine[s]
    BY <1>0, <1>4, <2>2 DEF Create, Remember
  <2>4. EventOf(r)' = EventOf(r) /\ mine'[r].asset = mine[r].asset
    BY <1>0, <1>4 DEF Create, Remember, EventOf, Locals
  <2>5. pc' = [pc EXCEPT ![r] = "notify"] /\ events' = events \cup {EventOf(r)}
        /\ UNCHANGED <<now, notes, stamped, counts, hist>> /\ pc[r] = "create"
    BY <1>4 DEF Create, Goto
  <2> QED BY <2>1, <2>3, <2>4, <2>5 DEF TypeOK, hist, EventOf, Working
<1>5. ASSUME NEW r \in Runs, Finish(r) \/ Fail(r) \/ Die(r) PROVE TypeOK'
  <2>1. PICK label \in {"done", "failed", "dead"} : Leave(r, label)
    BY <1>5 DEF Finish, Fail, Die
  <2>2. mine' \in [Runs -> Locals] /\ \A s \in Runs \ {r} : mine'[s] = mine[s]
    BY <1>0, <2>1, LeaveTyped DEF Leave, Remember
  <2>3. pc' = [pc EXCEPT ![r] = label] /\ UNCHANGED <<now, events, notes, stamped, hist>>
    BY <1>5, <2>1 DEF Leave, Goto, Finish, Fail, Die, rows
  <2>4. counts' \in [Runs -> [detected: Nat, suppressed: Nat]]
    BY <1>0, <1>5 DEF Finish, Fail, Die, rows, TypeOK, Locals
  <2> QED BY <2>2, <2>3, <2>4 DEF TypeOK, hist, EventOf, Working
<1>6. ASSUME NEW r \in Runs, StayQuiet(r) \/ Queue(r) \/ Send(r) \/ SendFails(r) \/ Stamp(r)
      PROVE  TypeOK'
  <2>1. EventOf(r) \in Event /\ EventOf(r) \in events
    BY <1>6, EventTyped DEF StayQuiet, Queue, Send, SendFails, Stamp, TypeOK
  <2>2. notes' \subseteq Note
    BY <1>6, <2>1 DEF StayQuiet, Queue, Send, SendFails, Stamp, SetNote, NoteOf, Note, TypeOK, rows
  <2>3. stamped' \subseteq Event
    BY <1>6, <2>1 DEF StayQuiet, Queue, Send, SendFails, Stamp, TypeOK, rows
  <2>4. UNCHANGED <<now, events, counts, mine, hist>>
    BY <1>6 DEF StayQuiet, Queue, Send, SendFails, Stamp, rows
  <2>5. pc[r] \in {"notify", "send", "stamp"}
        /\ \E label \in {"scan", "send", "stamp"} : pc' = [pc EXCEPT ![r] = label]
    BY <1>6 DEF StayQuiet, Queue, Send, SendFails, Stamp, Goto
  <2> QED BY <2>1, <2>2, <2>3, <2>4, <2>5 DEF TypeOK, hist, EventOf, Working
<1>7. CASE UNCHANGED vars
  BY <1>7 DEF TypeOK, vars, rows, hist, EventOf
<1> QED BY <1>1, <1>2, <1>3, <1>4, <1>5, <1>6, <1>7 DEF Next, Act

LEMMA NextLookedBack ==
  ASSUME TypeOK, LookedBack, [Next]_vars
  PROVE  LookedBack'
<1> USE CooldownAssumption
<1>0. mine \in [Runs -> Locals] /\ now \in Nat /\ events \subseteq Event
  BY DEF TypeOK
<1>1. CASE Tick
  BY <1>0, <1>1 DEF Tick, rows, LookedBack, Locals, Event
<1>2. ASSUME NEW r \in Runs, Begin(r) PROVE LookedBack'
  <2>1. mine'[r].looked = 0 /\ \A s \in Runs \ {r} : mine'[s] = mine[s]
    BY <1>0, <1>2 DEF Begin, Remember, Idle
  <2> QED BY <1>0, <1>2, <2>1 DEF Begin, LookedBack, rows
<1>3. ASSUME NEW r \in Runs, Look(r) PROVE LookedBack'
  <2>1. mine'[r].looked \in {mine[r].looked, now} /\ \A s \in Runs \ {r} : mine'[s] = mine[s]
    <3>1. PICK a \in mine[r].todo :
            \/ mine' = [mine EXCEPT ![r] = [mine[r] EXCEPT !.todo = @ \ {a}, !.detected = @ + 1]]
            \/ mine' = [mine EXCEPT ![r] = [mine[r] EXCEPT !.todo = @ \ {a}, !.suppressed = @ + 1]]
            \/ mine' = [mine EXCEPT ![r] =
                          [mine[r] EXCEPT !.todo = @ \ {a}, !.asset = a, !.looked = now]]
      BY <1>3 DEF Look, Remember
    <3>2. mine[r] \in Locals /\ a \in Assets
      BY <1>0 DEF Locals
    <3>3. \A s \in Runs \ {r} : mine'[s] = mine[s]
      BY <1>0, <3>1
    <3>4. \/ mine'[r] = [mine[r] EXCEPT !.todo = @ \ {a}, !.detected = @ + 1]
          \/ mine'[r] = [mine[r] EXCEPT !.todo = @ \ {a}, !.suppressed = @ + 1]
          \/ mine'[r] = [mine[r] EXCEPT !.todo = @ \ {a}, !.asset = a, !.looked = now]
      BY <1>0, <3>1
    <3>5. PICK k : k = mine'[r]
      OBVIOUS
    <3>6. PICK l \in Locals : l = mine[r]
      BY <3>2
    <3>7. \/ k = [l EXCEPT !.todo = @ \ {a}, !.detected = @ + 1]
          \/ k = [l EXCEPT !.todo = @ \ {a}, !.suppressed = @ + 1]
          \/ k = [l EXCEPT !.todo = @ \ {a}, !.asset = a, !.looked = now]
      BY <3>4, <3>5, <3>6
    <3>8. k.looked \in {l.looked, now}
      BY <1>0, <3>2, <3>7, Looking
    <3> QED BY <3>3, <3>5, <3>6, <3>8
  <2> QED BY <1>0, <1>3, <2>1 DEF Look, LookedBack, rows
<1>4. ASSUME NEW r \in Runs, Create(r) PROVE LookedBack'
  <2>1. \A s \in Runs : mine'[s].looked = mine[s].looked
    BY <1>0, <1>4 DEF Create, Remember, Locals
  <2>2. EventOf(r).looked = mine[r].looked
    BY DEF EventOf
  <2> QED BY <1>0, <1>4, <2>1, <2>2 DEF Create, LookedBack
<1>5. ASSUME NEW r \in Runs, Finish(r) \/ Fail(r) \/ Die(r) PROVE LookedBack'
  <2>1. mine'[r].looked = 0 /\ \A s \in Runs \ {r} : mine'[s] = mine[s]
    BY <1>0, <1>5 DEF Finish, Fail, Die, Leave, Remember, Idle
  <2> QED BY <1>0, <1>5, <2>1 DEF Finish, Fail, Die, LookedBack, rows
<1>6. ASSUME NEW r \in Runs, StayQuiet(r) \/ Queue(r) \/ Send(r) \/ SendFails(r) \/ Stamp(r)
      PROVE  LookedBack'
  BY <1>6 DEF StayQuiet, Queue, Send, SendFails, Stamp, rows, LookedBack
<1>7. CASE UNCHANGED vars
  BY <1>7 DEF vars, rows, LookedBack
<1> QED BY <1>1, <1>2, <1>3, <1>4, <1>5, <1>6, <1>7 DEF Next, Act

LEMMA NextHasItsEvent ==
  ASSUME TypeOK, LookedBack, HasItsEvent, [Next]_vars
  PROVE  HasItsEvent'
<1>1. events \subseteq events'
  BY DEF Next, Act, vars, rows, Tick, Begin, Look, Create, Finish, Fail, Die,
         StayQuiet, Queue, Send, SendFails, Stamp
<1>2. ASSUME NEW h \in hushed' \ hushed
      PROVE  \E e \in events : PrintOf(e) = Fingerprint(h.asset, h.type, h.at) /\ e.looked <= h.at
  <2>1. PICK r \in Runs : Look(r)
    BY <1>2 DEF Next, Act, vars, rows, hist, Tick, Begin, Create, Finish, Fail, Die,
                StayQuiet, Queue, Send, SendFails, Stamp
  <2>2. PICK a \in mine[r].todo : Known(r, a) /\ h = [asset |-> a, type |-> mine[r].type, at |-> now]
    BY <1>2, <2>1 DEF Look
  <2> QED BY <2>2 DEF Known, LookedBack
<1> QED BY <1>1, <1>2 DEF HasItsEvent, PrintOf, Fingerprint

\* TypeOK for every instance.
THEOREM TypeCorrectness == Spec => []TypeOK
<1>1. Init => TypeOK
  BY InitInv DEF Inv
<1>2. TypeOK /\ [Next]_vars => TypeOK'
  BY NextTyped
<1> QED BY <1>1, <1>2, PTL DEF Spec

\* For every cooldown: a match is suppressed only in favour of an event of its
\* asset and type that was found less than the cooldown ago.
THEOREM SuppressedIsRecent == Spec => []SuppressionIsRecent
<1>1. Init => Inv
  BY InitInv
<1>2. Inv /\ [Next]_vars => Inv'
  BY NextTyped, NextLookedBack, NextHasItsEvent DEF Inv
<1>3. Inv => SuppressionIsRecent
  <2> SUFFICES ASSUME Inv, NEW h \in hushed
               PROVE  \E e \in events : /\ e.asset = h.asset /\ e.type = h.type
                                        /\ e.looked <= h.at /\ h.at - e.looked < Cooldown
    BY DEF SuppressionIsRecent
  <2>1. PICK e \in events : PrintOf(e) = Fingerprint(h.asset, h.type, h.at) /\ e.looked <= h.at
    BY DEF Inv, HasItsEvent
  <2>2. e.asset = h.asset /\ e.type = h.type /\ Bucket(e.looked) = Bucket(h.at)
    BY <2>1 DEF PrintOf, Fingerprint
  <2>3. e.looked \in Nat /\ h.at \in Nat
    BY DEF Inv, TypeOK, Event, Match
  <2>4. h.at - e.looked < Cooldown
    BY <2>2, <2>3, WindowIsShort
  <2> QED BY <2>1, <2>2, <2>4
<1> QED BY <1>1, <1>2, <1>3, PTL DEF Spec

-----------------------------------------------------------------------------
(***************************************************************************)
(* For every set of runs and assets and any number of repairs: one         *)
(* fingerprint twice takes two runs that scanned at the same time, an      *)
(* event is reported at most once and stamped only when its message was    *)
(* sent, and the counters of a scan agree with its receipts.               *)
(***************************************************************************)

EventsOf(r) == {e \in events : e.run = r}

\* Two runs that scan have been seen together.
SeenTogether ==
  \A r, s \in Runs : r # s /\ Active(r) /\ Active(s) => {r, s} \in together

\* Between its look and its event a run is overtaken only by other runs that
\* scan at the same time; so the event it stores is a new one.
Overtaken ==
  \A r \in Runs : pc[r] = "create" =>
    \A e \in events : PrintOf(e) = PrintOf(EventOf(r)) =>
      e.run # r /\ {e.run, r} \in together

\* The notification of the event a run is busy with is where the run takes it
\* to be.
NoteInHand ==
  /\ \A n \in notes : n.event \in events
  /\ \A r \in Runs :
       /\ pc[r] = "notify" => \A n \in notes : n.event # EventOf(r)
       /\ pc[r] = "send"   => NoteOf(r, "queued") \in notes
       /\ pc[r] = "stamp"  => NoteOf(r, "sent") \in notes

\* The first attempt of a scan has counted what it stored.
CountsSoFar ==
  \A r \in Runs :
    /\ IsFiniteSet(EventsOf(r))
    /\ pc[r] = "idle" => EventsOf(r) = {}
    /\ mine[r].type = "policy_match" /\ mine[r].attempt = 1 =>
         /\ Active(r) => mine[r].detected = Cardinality(EventsOf(r))
         /\ pc[r] = "done" => counts[r].detected = Cardinality(EventsOf(r))

-----------------------------------------------------------------------------
\* A step of one run leaves the place and the memory of the others alone.
LEMMA OthersKeep ==
  ASSUME TypeOK, NEW r \in Runs, Begin(r) \/ Act(r) \/ Die(r), NEW s \in Runs \ {r}
  PROVE  pc'[s] = pc[s] /\ mine'[s] = mine[s] /\ EventOf(s)' = EventOf(s)
<1>1. mine \in [Runs -> Locals] /\ pc \in [Runs -> Working \cup {"idle", "done", "failed", "dead"}]
  BY DEF TypeOK
<1>2. \E l : mine' = [mine EXCEPT ![r] = l] \/ mine' = mine
  BY DEF Begin, Act, Die, Look, Create, Finish, Fail, StayQuiet, Queue, Send, SendFails,
         Stamp, Leave, Remember
<1>3. \E p : pc' = [pc EXCEPT ![r] = p] \/ pc' = pc
  BY DEF Begin, Act, Die, Look, Create, Finish, Fail, StayQuiet, Queue, Send, SendFails,
         Stamp, Leave, Goto
<1>4. pc'[s] = pc[s] /\ mine'[s] = mine[s]
  BY <1>1, <1>2, <1>3
<1> QED BY <1>4 DEF EventOf

\* The steps of a run by what they do to its place and its memory.
LEMMA BeginStep ==
  ASSUME TypeOK, NEW r \in Runs, Begin(r)
  PROVE  /\ pc[r] \in {"idle", "failed"} /\ pc'[r] = "scan"
         /\ mine'[r].detected = 0
         /\ pc[r] = "failed" => mine'[r].attempt # 1
         /\ together' = together \cup {{r, s} : s \in {q \in Runs : Active(q)}}
         /\ UNCHANGED <<now, rows, hushed>>
<1>1. mine \in [Runs -> Locals] /\ pc \in [Runs -> Working \cup {"idle", "done", "failed", "dead"}]
  BY DEF TypeOK
<1> DEFINE n == IF pc[r] = "failed" THEN mine[r].attempt + 1 ELSE 1
<1>2. PICK type \in Types, todo \in SUBSET Assets :
        mine' = [mine EXCEPT ![r] = [Idle EXCEPT !.type = type, !.todo = todo, !.attempt = n]]
  BY DEF Begin, Remember
<1>3. mine'[r] = [Idle EXCEPT !.type = type, !.todo = todo, !.attempt = n]
  BY <1>1, <1>2
<1>4. mine'[r].detected = 0 /\ mine'[r].attempt = n
  BY <1>3 DEF Idle
<1>5. pc[r] = "failed" => n # 1
  <2>1. mine[r].attempt \in 1..Attempts
    BY <1>1 DEF Locals
  <2> QED BY <2>1, <1>2, CooldownAssumption
<1> QED BY <1>1, <1>4, <1>5 DEF Begin, Goto

\* A look that finds nothing leads to an event of this minute.
LEMMA LookStep ==
  ASSUME TypeOK, NEW r \in Runs, Look(r)
  PROVE  /\ pc[r] = "scan" /\ pc'[r] \in {"scan", "create"}
         /\ mine'[r].type = mine[r].type /\ mine'[r].attempt = mine[r].attempt
         /\ mine[r].type = "policy_match" => mine'[r].detected = mine[r].detected
         /\ pc'[r] = "create" =>
              \A e \in events : PrintOf(e) # PrintOf(EventOf(r)')
         /\ UNCHANGED <<now, rows, together>>
<1>1. mine \in [Runs -> Locals] /\ pc \in [Runs -> Working \cup {"idle", "done", "failed", "dead"}]
  BY DEF TypeOK
<1>2. PICK a \in mine[r].todo :
        /\ pc[r] = "scan"
        /\ IF Known(r, a)
             THEN /\ mine' = [mine EXCEPT ![r] = IF mine[r].type = "trigger_fired"
                              THEN [mine[r] EXCEPT !.todo = @ \ {a}, !.detected = @ + 1]
                              ELSE [mine[r] EXCEPT !.todo = @ \ {a}, !.suppressed = @ + 1]]
                  /\ UNCHANGED pc
             ELSE /\ mine' = [mine EXCEPT ![r] =
                              [mine[r] EXCEPT !.todo = @ \ {a}, !.asset = a, !.looked = now]]
                  /\ pc' = [pc EXCEPT ![r] = "create"]
  BY DEF Look, Remember, Goto
<1>3. PICK l \in Locals : l = mine[r]
  BY <1>1
<1>4. PICK k : k = mine'[r]
  OBVIOUS
<1>5. UNCHANGED <<now, rows, together>>
  BY DEF Look
<1>6. CASE Known(r, a)
  <2>1. k = IF l.type = "trigger_fired" THEN [l EXCEPT !.todo = @ \ {a}, !.detected = @ + 1]
                                        ELSE [l EXCEPT !.todo = @ \ {a}, !.suppressed = @ + 1]
    BY <1>1, <1>2, <1>3, <1>4, <1>6
  <2>2. k.type = l.type /\ k.attempt = l.attempt
        /\ (l.type = "policy_match" => k.detected = l.detected)
    BY <2>1 DEF Locals
  <2>3. pc'[r] = "scan"
    BY <1>2, <1>6
  <2> QED BY <1>2, <1>3, <1>4, <1>5, <2>2, <2>3
<1>7. CASE ~ Known(r, a)
  <2>1. k = [l EXCEPT !.todo = @ \ {a}, !.asset = a, !.looked = now]
    BY <1>1, <1>2, <1>3, <1>4, <1>7
  <2>2. k.type = l.type /\ k.attempt = l.attempt /\ k.detected = l.detected
        /\ k.asset = a /\ k.looked = now
    BY <2>1 DEF Locals
  <2>3. PrintOf(EventOf(r)') = Fingerprint(a, l.type, now)
    BY <1>4, <2>2 DEF EventOf, PrintOf
  <2>4. \A e \in events : PrintOf(e) # PrintOf(EventOf(r)')
    BY <1>3, <1>7, <2>3 DEF Known
  <2>5. pc'[r] = "create"
    BY <1>1, <1>2, <1>7
  <2> QED BY <1>2, <1>3, <1>4, <1>5, <2>2, <2>4, <2>5
<1> QED BY <1>6, <1>7

LEMMA CreateStep ==
  ASSUME TypeOK, NEW r \in Runs, Create(r)
  PROVE  /\ pc[r] = "create" /\ pc'[r] = "notify"
         /\ EventOf(r)' = EventOf(r) /\ EventOf(r).run = r
         /\ mine'[r].type = mine[r].type /\ mine'[r].attempt = mine[r].attempt
         /\ mine'[r].detected = mine[r].detected + 1
         /\ events' = events \cup {EventOf(r)}
         /\ UNCHANGED <<now, notes, stamped, counts, hist>>
<1>1. mine \in [Runs -> Locals] /\ pc \in [Runs -> Working \cup {"idle", "done", "failed", "dead"}]
  BY DEF TypeOK
<1>2. PICK l \in Locals : l = mine[r]
  BY <1>1
<1>3. PICK k : k = mine'[r]
  OBVIOUS
<1>4. k = [l EXCEPT !.detected = @ + 1]
  BY <1>1, <1>2, <1>3 DEF Create, Remember
<1>5. k.type = l.type /\ k.attempt = l.attempt /\ k.asset = l.asset /\ k.looked = l.looked
      /\ k.detected = l.detected + 1
  BY <1>4 DEF Locals
<1>6. EventOf(r)' = EventOf(r) /\ EventOf(r).run = r
  BY <1>2, <1>3, <1>5 DEF EventOf
<1>7. pc[r] = "create" /\ pc'[r] = "notify" /\ events' = events \cup {EventOf(r)}
      /\ UNCHANGED <<now, notes, stamped, counts, hist>>
  BY <1>1 DEF Create, Goto
<1> QED BY <1>2, <1>3, <1>5, <1>6, <1>7

LEMMA LeaveStep ==
  ASSUME TypeOK, NEW r \in Runs, Finish(r) \/ Fail(r) \/ Die(r)
  PROVE  /\ Active(r) /\ pc'[r] \in {"done", "failed", "dead"}
         /\ mine'[r].type = mine[r].type /\ mine'[r].attempt = mine[r].attempt
         /\ \A s \in Runs \ {r} : counts'[s] = counts[s]
         /\ pc'[r] = "done" => counts'[r].detected = mine[r].detected
         /\ UNCHANGED <<now, events, notes, stamped, hist>>
<1>1. /\ mine \in [Runs -> Locals] /\ pc \in [Runs -> Working \cup {"idle", "done", "failed", "dead"}]
      /\ counts \in [Runs -> [detected: Nat, suppressed: Nat]]
  BY DEF TypeOK
<1>2. PICK label \in {"done", "failed", "dead"} :
        /\ pc' = [pc EXCEPT ![r] = label]
        /\ mine' = [mine EXCEPT ![r] =
                      [Idle EXCEPT !.type = mine[r].type, !.attempt = mine[r].attempt]]
  BY DEF Finish, Fail, Die, Leave, Goto, Remember
<1>3. mine'[r] = [Idle EXCEPT !.type = mine[r].type, !.attempt = mine[r].attempt]
  BY <1>1, <1>2
<1>4. mine'[r].type = mine[r].type /\ mine'[r].attempt = mine[r].attempt
  BY <1>3 DEF Idle
<1>5. Active(r) /\ UNCHANGED <<now, events, notes, stamped, hist>>
  BY DEF Finish, Fail, Die, Active, Working, rows
<1>6. CASE Finish(r)
  <2>1. counts' = [counts EXCEPT ![r] = [detected   |-> mine[r].detected,
                                         suppressed |-> mine[r].suppressed]]
    BY <1>6 DEF Finish
  <2> QED BY <1>1, <1>2, <1>4, <1>5, <2>1
<1>7. CASE Fail(r) \/ Die(r)
  <2>1. counts' = counts /\ pc'[r] \in {"failed", "dead"}
    BY <1>1, <1>7 DEF Fail, Die, Leave, Goto, rows
  <2> QED BY <1>2, <1>4, <1>5, <2>1
<1> QED BY <1>6, <1>7

LEMMA ReportStep ==
  ASSUME TypeOK, NEW r \in Runs,
         StayQuiet(r) \/ Queue(r) \/ Send(r) \/ SendFails(r) \/ Stamp(r)
  PROVE  /\ pc[r] \in {"notify", "send", "stamp"} /\ pc'[r] \in {"scan", "send", "stamp"}
         /\ EventOf(r)' = EventOf(r) /\ EventOf(r) \in events /\ EventOf(r).run = r
         /\ UNCHANGED <<now, events, counts, mine, hist>>
<1>1. pc \in [Runs -> Working \cup {"idle", "done", "failed", "dead"}]
  BY DEF TypeOK
<1>2. /\ pc[r] \in {"notify", "send", "stamp"} /\ pc'[r] \in {"scan", "send", "stamp"}
      /\ UNCHANGED <<now, events, counts, mine, hist>>
  BY <1>1 DEF StayQuiet, Queue, Send, SendFails, Stamp, Goto, rows
<1> QED BY <1>2 DEF EventOf, TypeOK

-----------------------------------------------------------------------------
LEMMA NextSeenTogether ==
  ASSUME TypeOK, SeenTogether, [Next]_vars
  PROVE  SeenTogether'
<1>1. CASE Tick \/ UNCHANGED vars
  BY <1>1 DEF Tick, vars, hist, SeenTogether, Active
<1>2. ASSUME NEW r \in Runs, Begin(r) PROVE SeenTogether'
  <2>1. \A s \in Runs \ {r} : pc'[s] = pc[s]
    BY <1>2, OthersKeep
  <2>2. together' = together \cup {{r, s} : s \in {q \in Runs : Active(q)}}
    BY <1>2, BeginStep
  <2>3. ASSUME NEW s \in Runs, s # r, Active(s)' PROVE {r, s} \in together' /\ {s, r} \in together'
    <3>1. Active(s)
      BY <2>1, <2>3 DEF Active
    <3>2. {r, s} \in together' /\ {s, r} = {r, s}
      BY <2>2, <3>1
    <3> QED BY <3>2
  <2>4. ASSUME NEW s \in Runs, NEW q \in Runs, s # r, q # r, s # q, Active(s)', Active(q)'
        PROVE  {s, q} \in together'
    BY <2>1, <2>2, <2>4 DEF SeenTogether, Active
  <2> QED BY <2>3, <2>4 DEF SeenTogether
<1>3. ASSUME NEW r \in Runs, Act(r) \/ Die(r) PROVE SeenTogether'
  <2>1. \A s \in Runs \ {r} : pc'[s] = pc[s]
    BY <1>3, OthersKeep
  <2>2. Active(r) /\ UNCHANGED together
    BY <1>3, LookStep, CreateStep, LeaveStep, ReportStep DEF Act, Active, Working, hist
  <2> QED BY <2>1, <2>2 DEF SeenTogether, Active
<1> QED BY <1>1, <1>2, <1>3 DEF Next

LEMMA NextOvertaken ==
  ASSUME TypeOK, SeenTogether, Overtaken, [Next]_vars
  PROVE  Overtaken'
<1>1. CASE Tick \/ UNCHANGED vars
  BY <1>1 DEF Tick, vars, rows, hist, Overtaken, EventOf
<1>2. ASSUME NEW r \in Runs, Begin(r) \/ Look(r) \/ Finish(r) \/ Fail(r) \/ Die(r)
             \/ StayQuiet(r) \/ Queue(r) \/ Send(r) \/ SendFails(r) \/ Stamp(r)
      PROVE  Overtaken'
  <2>1. events' = events /\ together \subseteq together'
    BY <1>2, BeginStep, LookStep, LeaveStep, ReportStep DEF rows, hist
  <2>2. ASSUME NEW s \in Runs \ {r}, pc'[s] = "create", NEW e \in events,
               PrintOf(e) = PrintOf(EventOf(s)')
        PROVE  e.run # s /\ {e.run, s} \in together'
    <3>1. pc[s] = "create" /\ EventOf(s)' = EventOf(s)
      BY <1>2, <2>2, OthersKeep DEF Act
    <3> QED BY <2>1, <2>2, <3>1 DEF Overtaken
  <2>3. pc'[r] = "create" => \A e \in events : PrintOf(e) # PrintOf(EventOf(r)')
    BY <1>2, BeginStep, LookStep, LeaveStep, ReportStep
  <2> QED BY <2>1, <2>2, <2>3 DEF Overtaken, PrintOf
<1>3. ASSUME NEW r \in Runs, Create(r) PROVE Overtaken'
  <2>1. /\ pc[r] = "create" /\ pc'[r] = "notify" /\ EventOf(r).run = r
        /\ events' = events \cup {EventOf(r)} /\ together' = together
    BY <1>3, CreateStep DEF hist
  <2>2. ASSUME NEW s \in Runs, pc'[s] = "create", NEW e \in events',
               PrintOf(e) = PrintOf(EventOf(s)')
        PROVE  e.run # s /\ {e.run, s} \in together'
    <3>1. s # r
      BY <2>1, <2>2
    <3>2. pc[s] = "create" /\ EventOf(s)' = EventOf(s)
      BY <1>3, <2>2, <3>1, OthersKeep DEF Act
    <3>3. CASE e \in events
      BY <2>1, <2>2, <3>2, <3>3 DEF Overtaken
    <3>4. CASE e = EventOf(r)
      BY <2>1, <3>1, <3>2, <3>4 DEF SeenTogether, Active, Working
    <3> QED BY <2>1, <3>3, <3>4
  <2> QED BY <2>2 DEF Overtaken, PrintOf
<1> QED BY <1>1, <1>2, <1>3 DEF Next, Act

\* The event a run stores is not there yet.
LEMMA NewEvent ==
  ASSUME Overtaken, NEW r \in Runs, pc[r] = "create"
  PROVE  EventOf(r) \notin events
<1>1. EventOf(r).run = r
  BY DEF EventOf
<1> QED BY <1>1 DEF Overtaken

LEMMA NextDuplicates ==
  ASSUME TypeOK, Overtaken, DuplicatesNeedOverlap, [Next]_vars
  PROVE  DuplicatesNeedOverlap'
<1>1. CASE events' = events /\ together \subseteq together'
  BY <1>1 DEF DuplicatesNeedOverlap, PrintOf
<1>2. ASSUME NEW r \in Runs, Create(r) PROVE DuplicatesNeedOverlap'
  <2>1. /\ pc[r] = "create" /\ EventOf(r).run = r
        /\ events' = events \cup {EventOf(r)} /\ together' = together
    BY <1>2, CreateStep DEF hist
  <2>2. ASSUME NEW e \in events, PrintOf(e) = PrintOf(EventOf(r))
        PROVE  e.run # r /\ {e.run, r} \in together /\ {r, e.run} \in together
    <3>1. e.run # r /\ {e.run, r} \in together
      BY <2>1, <2>2 DEF Overtaken
    <3>2. {e.run, r} = {r, e.run}
      OBVIOUS
    <3> QED BY <3>1, <3>2
  <2>3. ASSUME NEW e \in events', NEW f \in events', e # f, PrintOf(e) = PrintOf(f)
        PROVE  e.run # f.run /\ {e.run, f.run} \in together
    <3>1. CASE e \in events /\ f \in events
      BY <2>3, <3>1 DEF DuplicatesNeedOverlap
    <3>2. CASE e = EventOf(r) /\ f \in events
      BY <2>1, <2>2, <2>3, <3>2
    <3>3. CASE e \in events /\ f = EventOf(r)
      BY <2>1, <2>2, <2>3, <3>3
    <3> QED BY <2>1, <2>3, <3>1, <3>2, <3>3
  <2> QED BY <2>1, <2>3 DEF DuplicatesNeedOverlap, PrintOf
<1>3. CASE Tick \/ UNCHANGED vars
  BY <1>1, <1>3 DEF Tick, vars, rows, hist
<1>4. ASSUME NEW r \in Runs, Begin(r) \/ Look(r) \/ Finish(r) \/ Fail(r) \/ Die(r)
             \/ StayQuiet(r) \/ Queue(r) \/ Send(r) \/ SendFails(r) \/ Stamp(r)
      PROVE  DuplicatesNeedOverlap'
  BY <1>1, <1>4, BeginStep, LookStep, LeaveStep, ReportStep DEF rows, hist
<1> QED BY <1>2, <1>3, <1>4 DEF Next, Act

\* For every set of runs, with repairs: two events with one fingerprint come
\* from two runs that scanned at the same time.
THEOREM DuplicatesOverlap == Spec => []DuplicatesNeedOverlap
<1> DEFINE I == TypeOK /\ SeenTogether /\ Overtaken /\ DuplicatesNeedOverlap
<1>1. Init => I
  <2> SUFFICES ASSUME Init PROVE I
    OBVIOUS
  <2>1. TypeOK
    BY InitInv DEF Inv
  <2>2. SeenTogether /\ Overtaken /\ DuplicatesNeedOverlap
    BY DEF Init, SeenTogether, Overtaken, DuplicatesNeedOverlap, Active, Working
  <2> QED BY <2>1, <2>2
<1>2. I /\ [Next]_vars => I'
  BY NextTyped, NextSeenTogether, NextOvertaken, NextDuplicates
<1>3. I => DuplicatesNeedOverlap
  OBVIOUS
<1> HIDE DEF I
<1> QED BY <1>1, <1>2, <1>3, PTL DEF Spec

-----------------------------------------------------------------------------
\* What reporting does to the notifications and the stamps.
LEMMA NextNoteInHand ==
  ASSUME TypeOK, Overtaken, NoteInHand, StampedWasSent, [Next]_vars
  PROVE  NoteInHand' /\ StampedWasSent'
<1>1. CASE Tick \/ UNCHANGED vars
  BY <1>1 DEF Tick, vars, rows, NoteInHand, StampedWasSent, NoteOf, EventOf
<1>2. ASSUME NEW r \in Runs, Begin(r) \/ Look(r) \/ Finish(r) \/ Fail(r) \/ Die(r) \/ StayQuiet(r)
      PROVE  NoteInHand' /\ StampedWasSent'
  <2>1. UNCHANGED <<events, notes, stamped>>
    BY <1>2, BeginStep, LookStep, LeaveStep DEF rows, StayQuiet
  <2>2. pc'[r] \notin {"notify", "send", "stamp"}
    BY <1>2, BeginStep, LookStep, LeaveStep DEF StayQuiet, Goto, TypeOK
  <2>3. \A s \in Runs \ {r} : pc'[s] = pc[s] /\ EventOf(s)' = EventOf(s)
    BY <1>2, OthersKeep DEF Act
  <2> QED BY <2>1, <2>2, <2>3 DEF NoteInHand, StampedWasSent, NoteOf
<1>3. ASSUME NEW r \in Runs, Create(r) PROVE NoteInHand' /\ StampedWasSent'
  <2>1. /\ pc[r] = "create" /\ pc'[r] = "notify" /\ EventOf(r)' = EventOf(r)
        /\ events' = events \cup {EventOf(r)} /\ UNCHANGED <<notes, stamped>>
    BY <1>3, CreateStep
  <2>2. \A s \in Runs \ {r} : pc'[s] = pc[s] /\ EventOf(s)' = EventOf(s)
    BY <1>3, OthersKeep DEF Act
  <2>3. \A n \in notes : n.event # EventOf(r)
    BY <2>1, NewEvent DEF NoteInHand
  <2> QED BY <2>1, <2>2, <2>3 DEF NoteInHand, StampedWasSent, NoteOf
<1>4. ASSUME NEW r \in Runs, Queue(r) PROVE NoteInHand' /\ StampedWasSent'
  <2>1. /\ EventOf(r)' = EventOf(r) /\ EventOf(r) \in events /\ EventOf(r).run = r
        /\ UNCHANGED <<events, stamped>>
    BY <1>4, ReportStep DEF Queue
  <2>2. pc[r] = "notify" /\ pc'[r] = "send" /\ notes' = notes \cup {NoteOf(r, "queued")}
    BY <1>4 DEF Queue, Goto, TypeOK
  <2>3. \A s \in Runs \ {r} : pc'[s] = pc[s] /\ EventOf(s)' = EventOf(s) /\ EventOf(s).run = s
    BY <1>4, OthersKeep DEF Act, EventOf
  <2>4. \A n \in notes : n.event # EventOf(r)
    BY <2>2 DEF NoteInHand
  <2>5. NoteOf(r, "queued").event = EventOf(r)
    BY DEF NoteOf
  <2>6. NoteInHand'
    <3>1. \A n \in notes' : n.event \in events'
      BY <2>1, <2>2, <2>5 DEF NoteInHand
    <3>2. ASSUME NEW s \in Runs
          PROVE  /\ pc'[s] = "notify" => \A n \in notes' : n.event # EventOf(s)'
                 /\ pc'[s] = "send"   => NoteOf(s, "queued")' \in notes'
                 /\ pc'[s] = "stamp"  => NoteOf(s, "sent")' \in notes'
      BY <2>1, <2>2, <2>3, <2>5 DEF NoteInHand, NoteOf
    <3> QED BY <3>1, <3>2 DEF NoteInHand
  <2>7. StampedWasSent'
    BY <2>1, <2>2, <2>4, <2>5 DEF StampedWasSent
  <2> QED BY <2>6, <2>7
<1>5. ASSUME NEW r \in Runs, Send(r) \/ SendFails(r) PROVE NoteInHand' /\ StampedWasSent'
  <2>1. /\ EventOf(r)' = EventOf(r) /\ EventOf(r) \in events /\ EventOf(r).run = r
        /\ UNCHANGED <<events, stamped>>
    BY <1>5, ReportStep DEF Send, SendFails
  <2>2. PICK status \in {"sent", "failed"} :
          /\ notes' = (notes \ {NoteOf(r, "queued")}) \cup {NoteOf(r, status)}
          /\ pc[r] = "send" /\ pc'[r] = (IF status = "sent" THEN "stamp" ELSE "scan")
    BY <1>5 DEF Send, SendFails, SetNote, Goto, TypeOK
  <2>3. \A s \in Runs \ {r} : pc'[s] = pc[s] /\ EventOf(s)' = EventOf(s) /\ EventOf(s).run = s
    BY <1>5, OthersKeep DEF Act, EventOf
  <2>4. NoteOf(r, "queued") \in notes
    BY <2>2 DEF NoteInHand
  <2>5. \A st : /\ NoteOf(r, st).event = EventOf(r) /\ NoteOf(r, st).status = st
                /\ NoteOf(r, st).by = r
    BY DEF NoteOf
  <2>6. NoteInHand'
    <3>1. \A n \in notes' : n.event \in events'
      BY <2>1, <2>2, <2>5 DEF NoteInHand
    <3>2. ASSUME NEW s \in Runs \ {r}
          PROVE  /\ pc'[s] = "notify" => \A n \in notes' : n.event # EventOf(s)'
                 /\ pc'[s] = "send"   => NoteOf(s, "queued")' \in notes'
                 /\ pc'[s] = "stamp"  => NoteOf(s, "sent")' \in notes'
      <4>1. \A st : NoteOf(s, st)' = NoteOf(s, st) /\ NoteOf(s, st) # NoteOf(r, "queued")
        BY <2>3, <2>5 DEF NoteOf
      <4>2. EventOf(s) # EventOf(r)
        BY <2>1, <2>3
      <4> QED BY <2>2, <2>3, <2>5, <4>1, <4>2 DEF NoteInHand
    <3>3. /\ pc'[r] = "notify" => \A n \in notes' : n.event # EventOf(r)'
          /\ pc'[r] = "send"   => NoteOf(r, "queued")' \in notes'
          /\ pc'[r] = "stamp"  => NoteOf(r, "sent")' \in notes'
      BY <2>1, <2>2 DEF NoteOf
    <3> QED BY <3>1, <3>2, <3>3 DEF NoteInHand
  <2>7. \A n \in notes \ {NoteOf(r, "queued")} : n.event # EventOf(r)
    BY <2>4, <2>5 DEF StampedWasSent
  <2>8. \A n, m \in notes' : n.event = m.event => n = m
    BY <2>2, <2>5, <2>7 DEF StampedWasSent
  <2>9. \A e \in stamped : \E n \in notes' : n.event = e /\ n.status = "sent"
    BY <2>2, <2>5 DEF StampedWasSent
  <2> QED BY <2>1, <2>6, <2>8, <2>9 DEF StampedWasSent
<1>6. ASSUME NEW r \in Runs, Stamp(r) PROVE NoteInHand' /\ StampedWasSent'
  <2>1. pc[r] = "stamp" /\ pc'[r] = "scan" /\ stamped' = stamped \cup {EventOf(r)}
        /\ UNCHANGED <<events, notes>>
    BY <1>6 DEF Stamp, Goto, TypeOK
  <2>2. \A s \in Runs \ {r} : pc'[s] = pc[s] /\ EventOf(s)' = EventOf(s)
    BY <1>6, OthersKeep DEF Act
  <2>3. \E n \in notes : n.event = EventOf(r) /\ n.status = "sent"
    BY <2>1 DEF NoteInHand, NoteOf
  <2>4. NoteInHand'
    BY <2>1, <2>2 DEF NoteInHand, NoteOf
  <2>5. StampedWasSent'
    BY <2>1, <2>3 DEF StampedWasSent
  <2> QED BY <2>4, <2>5
<1> QED BY <1>1, <1>2, <1>3, <1>4, <1>5, <1>6 DEF Next, Act

\* For every set of runs, with repairs: an event is reported at most once, and
\* it is stamped only when its message was sent.
THEOREM StampsAreTrue == Spec => []StampedWasSent
<1> DEFINE I == TypeOK /\ SeenTogether /\ Overtaken /\ NoteInHand /\ StampedWasSent
<1>1. Init => I
  <2> SUFFICES ASSUME Init PROVE I
    OBVIOUS
  <2>1. TypeOK
    BY InitInv DEF Inv
  <2>2. SeenTogether /\ Overtaken /\ NoteInHand /\ StampedWasSent
    BY DEF Init, SeenTogether, Overtaken, NoteInHand, StampedWasSent, Active, Working
  <2> QED BY <2>1, <2>2
<1>2. I /\ [Next]_vars => I'
  BY NextTyped, NextSeenTogether, NextOvertaken, NextNoteInHand
<1>3. I => StampedWasSent
  OBVIOUS
<1> HIDE DEF I
<1> QED BY <1>1, <1>2, <1>3, PTL DEF Spec

-----------------------------------------------------------------------------
LEMMA NextCountsSoFar ==
  ASSUME TypeOK, Overtaken, CountsSoFar, [Next]_vars
  PROVE  CountsSoFar'
<1>1. CASE Tick \/ UNCHANGED vars
  BY <1>1 DEF Tick, vars, rows, CountsSoFar, EventsOf, Active
<1>2. ASSUME NEW r \in Runs, Begin(r) PROVE CountsSoFar'
  <2>1. /\ pc[r] \in {"idle", "failed"} /\ pc'[r] = "scan" /\ mine'[r].detected = 0
        /\ pc[r] = "failed" => mine'[r].attempt # 1
        /\ UNCHANGED rows
    BY <1>2, BeginStep
  <2>2. \A s \in Runs \ {r} : pc'[s] = pc[s] /\ mine'[s] = mine[s]
    BY <1>2, OthersKeep
  <2>3. \A s \in Runs : EventsOf(s)' = EventsOf(s)
    BY <2>1 DEF EventsOf, rows
  <2>4. Cardinality({}) = 0
    BY FS_EmptySet
  <2> QED BY <2>1, <2>2, <2>3, <2>4 DEF CountsSoFar, Active, rows
<1>3. ASSUME NEW r \in Runs, Look(r) PROVE CountsSoFar'
  <2>1. /\ pc[r] = "scan" /\ pc'[r] \in {"scan", "create"} /\ UNCHANGED rows
        /\ mine'[r].type = mine[r].type /\ mine'[r].attempt = mine[r].attempt
        /\ mine[r].type = "policy_match" => mine'[r].detected = mine[r].detected
    BY <1>3, LookStep
  <2>2. \A s \in Runs \ {r} : pc'[s] = pc[s] /\ mine'[s] = mine[s]
    BY <1>3, OthersKeep DEF Act
  <2>3. \A s \in Runs : EventsOf(s)' = EventsOf(s)
    BY <2>1 DEF EventsOf, rows
  <2> QED BY <2>1, <2>2, <2>3 DEF CountsSoFar, Active, Working, rows
<1>4. ASSUME NEW r \in Runs, Create(r) PROVE CountsSoFar'
  <2>1. /\ pc[r] = "create" /\ pc'[r] = "notify" /\ EventOf(r).run = r
        /\ mine'[r].type = mine[r].type /\ mine'[r].attempt = mine[r].attempt
        /\ mine'[r].detected = mine[r].detected + 1
        /\ events' = events \cup {EventOf(r)} /\ counts' = counts
    BY <1>4, CreateStep
  <2>2. \A s \in Runs \ {r} : pc'[s] = pc[s] /\ mine'[s] = mine[s]
    BY <1>4, OthersKeep DEF Act
  <2>3. \A s \in Runs \ {r} : EventsOf(s)' = EventsOf(s)
    BY <2>1 DEF EventsOf
  <2>4. EventsOf(r)' = EventsOf(r) \cup {EventOf(r)} /\ EventOf(r) \notin EventsOf(r)
    BY <2>1, NewEvent DEF EventsOf
  <2>5. IsFiniteSet(EventsOf(r)') /\ Cardinality(EventsOf(r)') = Cardinality(EventsOf(r)) + 1
    BY <2>4, FS_AddElement DEF CountsSoFar
  <2> QED BY <2>1, <2>2, <2>3, <2>5 DEF CountsSoFar, Active, Working
<1>5. ASSUME NEW r \in Runs, Finish(r) \/ Fail(r) \/ Die(r) PROVE CountsSoFar'
  <2>1. /\ Active(r) /\ pc'[r] \in {"done", "failed", "dead"}
        /\ mine'[r].type = mine[r].type /\ mine'[r].attempt = mine[r].attempt
        /\ \A s \in Runs \ {r} : counts'[s] = counts[s]
        /\ pc'[r] = "done" => counts'[r].detected = mine[r].detected
        /\ events' = events
    BY <1>5, LeaveStep
  <2>2. \A s \in Runs \ {r} : pc'[s] = pc[s] /\ mine'[s] = mine[s]
    BY <1>5, OthersKeep DEF Act
  <2>3. \A s \in Runs : EventsOf(s)' = EventsOf(s)
    BY <2>1 DEF EventsOf
  <2> QED BY <2>1, <2>2, <2>3 DEF CountsSoFar, Active, Working
<1>6. ASSUME NEW r \in Runs, StayQuiet(r) \/ Queue(r) \/ Send(r) \/ SendFails(r) \/ Stamp(r)
      PROVE  CountsSoFar'
  <2>1. /\ pc[r] \in {"notify", "send", "stamp"} /\ pc'[r] \in {"scan", "send", "stamp"}
        /\ UNCHANGED <<events, counts, mine>>
    BY <1>6, ReportStep
  <2>2. \A s \in Runs \ {r} : pc'[s] = pc[s]
    BY <1>6, OthersKeep DEF Act
  <2>3. \A s \in Runs : EventsOf(s)' = EventsOf(s)
    BY <2>1 DEF EventsOf
  <2> QED BY <2>1, <2>2, <2>3 DEF CountsSoFar, Active, Working
<1> QED BY <1>1, <1>2, <1>3, <1>4, <1>5, <1>6 DEF Next, Act

\* For every set of runs: the counters of a scan that was not repaired agree
\* with the receipts stored under it.
THEOREM CountersAreTrue == Spec => []CountsItsReceipts
<1> DEFINE I == TypeOK /\ SeenTogether /\ Overtaken /\ CountsSoFar
<1>1. Init => I
  <2> SUFFICES ASSUME Init PROVE I
    OBVIOUS
  <2>1. TypeOK
    BY InitInv DEF Inv
  <2>2. SeenTogether /\ Overtaken
    BY DEF Init, SeenTogether, Overtaken, Active, Working
  <2>3. \A r \in Runs : EventsOf(r) = {} /\ pc[r] = "idle"
    BY DEF Init, EventsOf
  <2>4. CountsSoFar
    BY <2>3, FS_EmptySet DEF CountsSoFar, Active, Working
  <2> QED BY <2>1, <2>2, <2>4
<1>2. I /\ [Next]_vars => I'
  BY NextTyped, NextSeenTogether, NextOvertaken, NextCountsSoFar
<1>3. I => CountsItsReceipts
  BY DEF CountsSoFar, CountsItsReceipts, EventsOf
<1> HIDE DEF I
<1> QED BY <1>1, <1>2, <1>3, PTL DEF Spec
=============================================================================

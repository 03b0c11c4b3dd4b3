---------------------------- MODULE EventCooldown ----------------------------
(***************************************************************************)
(* From a match to the receipt and the message about it: the scan of       *)
(* MonitoringService.run_lens, _promote and its twin                       *)
(* LensRuntime._promote_trigger_event, event_fingerprint, notify_event.    *)
(*                                                                         *)
(* A fingerprint names lens, asset, event type and a window of the clock.  *)
(* Nothing in the database makes it unique: a run looks for an event with  *)
(* it and creates one if there is none, and writing the explanation lies   *)
(* between the two. The runs here are of one lens, each in a process of    *)
(* its own: a run that two processes execute counts as two. Time is        *)
(* counted in minutes of UTC.                                              *)
(***************************************************************************)
EXTENDS Naturals, FiniteSets

CONSTANTS
  Runs,       \* LensRuns that scan
  Assets,
  Cooldown,   \* max(1, EVENT_COOLDOWN_MINUTES)
  Attempts,   \* bound: executions of a run, the repair included
  Start, Step, Horizon,  \* bounds: the minutes the clock shows
  NoAsset

ASSUME CooldownAssumption ==
  /\ Cooldown \in Nat \ {0}
  /\ Start \in Nat /\ Step \in Nat \ {0} /\ Horizon \in Nat
  /\ Attempts \in Nat \ {0}
  /\ NoAsset \notin Assets

VARIABLES
  now,        \* timezone.now()
  events,     \* Event rows
  notes,      \* Notification rows
  stamped,    \* events with notified_at
  counts,     \* of each run: events_detected and events_suppressed
  pc, mine,   \* each run's place in the code and its local variables
  hushed,     \* matches that were suppressed as repetitions (history)
  together    \* pairs of runs that were scanning at the same time (history)

rows  == <<events, notes, stamped, counts>>
hist  == <<hushed, together>>
vars  == <<now, rows, pc, mine, hist>>

-----------------------------------------------------------------------------
(* event_fingerprint *)

Hour   == 60
Day    == 24 * Hour
Floor(x, size) == (x \div size) * size

\* Mutant of Bucket: every window is an hour.
BucketByHour(t) == Floor(t, Hour)

\* The start of the window that t lies in. Windows are cut at the hour, and
\* those of an hour or more at midnight.
Bucket(t) ==
  LET minute == t % Hour
      hour   == (t % Day) \div Hour
  IN Floor(t, Day) +
       (IF Cooldown >= Hour
          THEN Floor(hour, Cooldown \div Hour) * Hour
          ELSE hour * Hour + Floor(minute, Cooldown))

Types == {"policy_match", "trigger_fired"}
Fingerprint(asset, type, t) == <<asset, type, Bucket(t)>>

-----------------------------------------------------------------------------
Event == [run: Runs, attempt: 1..Attempts, asset: Assets, type: Types, looked: Nat]
Note  == [event: Event, by: Runs, status: {"queued", "sent", "failed"}]
Match == [asset: Assets, type: Types, at: Nat]

PrintOf(e) == Fingerprint(e.asset, e.type, e.looked)
NoEvents   == [detected |-> 0, suppressed |-> 0]

Locals ==
  [type: Types, attempt: 1..Attempts, todo: SUBSET Assets, asset: Assets \cup {NoAsset},
   looked: Nat, detected: Nat, suppressed: Nat]

Idle == [type |-> "policy_match", attempt |-> 1, todo |-> {}, asset |-> NoAsset,
         looked |-> 0, detected |-> 0, suppressed |-> 0]

Working == {"scan", "create", "notify", "send", "stamp"}
Active(r) == pc[r] \in Working
EventOf(r) == [run |-> r, attempt |-> mine[r].attempt, asset |-> mine[r].asset,
               type |-> mine[r].type, looked |-> mine[r].looked]

Goto(r, label) == pc' = [pc EXCEPT ![r] = label]
Remember(r, locals) == mine' = [mine EXCEPT ![r] = locals]
Leave(r, label) ==
  /\ Goto(r, label)
  /\ Remember(r, [Idle EXCEPT !.type = mine[r].type, !.attempt = mine[r].attempt])

Init ==
  /\ now = Start
  /\ events = {} /\ notes = {} /\ stamped = {}
  /\ counts = [r \in Runs |-> NoEvents]
  /\ pc     = [r \in Runs |-> "idle"]
  /\ mine   = [r \in Runs |-> Idle]
  /\ hushed = {} /\ together = {}

-----------------------------------------------------------------------------
Tick ==
  /\ now + Step <= Horizon
  /\ now' = now + Step
  /\ UNCHANGED <<rows, pc, mine, hist>>

\* The listings were fetched and the policy evaluated: todo are the assets that
\* match. A run of a trigger looks at the one asset of the trigger. The counters
\* of a repair start at zero again.
Begin(r) ==
  /\ \/ pc[r] = "idle"
     \/ pc[r] = "failed" /\ mine[r].attempt < Attempts
  /\ \E type \in Types, todo \in SUBSET Assets :
       /\ type = "trigger_fired" => Cardinality(todo) <= 1
       /\ pc[r] = "failed" => type = mine[r].type
       /\ Remember(r, [Idle EXCEPT !.type = type, !.todo = todo,
                         !.attempt = IF pc[r] = "failed" THEN mine[r].attempt + 1 ELSE 1])
  /\ Goto(r, "scan")
  /\ together' = together \cup {{r, s} : s \in {q \in Runs : Active(q)}}
  /\ UNCHANGED <<now, rows, hushed>>

Known(r, a) == \E e \in events : PrintOf(e) = Fingerprint(a, mine[r].type, now)

\* Mutant of Look: only the events of this run are looked at.
LookAtOwn(r) ==
  \E a \in mine[r].todo :
    /\ pc[r] = "scan"
    /\ IF \E e \in events : e.run = r /\ PrintOf(e) = Fingerprint(a, mine[r].type, now)
         THEN /\ Remember(r, [mine[r] EXCEPT !.todo = @ \ {a}, !.suppressed = @ + 1])
              /\ hushed' = hushed \cup {[asset |-> a, type |-> mine[r].type, at |-> now]}
              /\ UNCHANGED pc
         ELSE /\ Remember(r, [mine[r] EXCEPT !.todo = @ \ {a}, !.asset = a, !.looked = now])
              /\ Goto(r, "create")
              /\ UNCHANGED hushed
    /\ UNCHANGED <<now, rows, together>>

\* Is there an event of this window? A trigger run counts the one it finds as
\* its own, a scan counts the match as suppressed.
Look(r) ==
  \E a \in mine[r].todo :
    /\ pc[r] = "scan"
    /\ IF Known(r, a)
         THEN /\ Remember(r, IF mine[r].type = "trigger_fired"
                               THEN [mine[r] EXCEPT !.todo = @ \ {a}, !.detected = @ + 1]
                               ELSE [mine[r] EXCEPT !.todo = @ \ {a}, !.suppressed = @ + 1])
              /\ hushed' = hushed \cup {[asset |-> a, type |-> mine[r].type, at |-> now]}
              /\ UNCHANGED pc
         ELSE /\ Remember(r, [mine[r] EXCEPT !.todo = @ \ {a}, !.asset = a, !.looked = now])
              /\ Goto(r, "create")
              /\ UNCHANGED hushed
    /\ UNCHANGED <<now, rows, together>>

\* Mutants of Create: the message goes out before the event is stored; the match
\* is not counted.
CreateLater(r) ==
  /\ pc[r] = "create"
  /\ Remember(r, [mine[r] EXCEPT !.detected = @ + 1])
  /\ Goto(r, "notify")
  /\ UNCHANGED <<now, rows, hist>>

CreateUncounted(r) ==
  /\ pc[r] = "create"
  /\ events' = events \cup {EventOf(r)}
  /\ Goto(r, "notify")
  /\ UNCHANGED <<now, notes, stamped, counts, mine, hist>>

\* The explanation is written (or its fallback), then the event is stored.
Create(r) ==
  /\ pc[r] = "create"
  /\ events' = events \cup {EventOf(r)}
  /\ Remember(r, [mine[r] EXCEPT !.detected = @ + 1])
  /\ Goto(r, "notify")
  /\ UNCHANGED <<now, notes, stamped, counts, hist>>

NoteOf(r, status) == [event |-> EventOf(r), by |-> r, status |-> status]

\* The severity does not ask for a message, or the user has no Telegram.
StayQuiet(r) ==
  /\ pc[r] = "notify"
  /\ Goto(r, "scan")
  /\ UNCHANGED <<now, rows, mine, hist>>

Queue(r) ==
  /\ pc[r] = "notify"
  /\ notes' = notes \cup {NoteOf(r, "queued")}
  /\ Goto(r, "send")
  /\ UNCHANGED <<now, events, stamped, counts, mine, hist>>

SetNote(r, status) == notes' = (notes \ {NoteOf(r, "queued")}) \cup {NoteOf(r, status)}

Send(r) ==
  /\ pc[r] = "send"
  /\ SetNote(r, "sent")
  /\ Goto(r, "stamp")
  /\ UNCHANGED <<now, events, stamped, counts, mine, hist>>

\* Mutant of SendFails: no return after a TelegramError.
SendFailsOn(r) ==
  /\ pc[r] = "send"
  /\ SetNote(r, "failed")
  /\ Goto(r, "stamp")
  /\ UNCHANGED <<now, events, stamped, counts, mine, hist>>

SendFails(r) ==
  /\ pc[r] = "send"
  /\ SetNote(r, "failed")
  /\ Goto(r, "scan")
  /\ UNCHANGED <<now, events, stamped, counts, mine, hist>>

Stamp(r) ==
  /\ pc[r] = "stamp"
  /\ stamped' = stamped \cup {EventOf(r)}
  /\ Goto(r, "scan")
  /\ UNCHANGED <<now, events, notes, counts, mine, hist>>

Finish(r) ==
  /\ pc[r] = "scan" /\ mine[r].todo = {}
  /\ counts' = [counts EXCEPT ![r] = [detected   |-> mine[r].detected,
                                      suppressed |-> mine[r].suppressed]]
  /\ Leave(r, "done")
  /\ UNCHANGED <<now, events, notes, stamped, hist>>

\* Anything but a TelegramError ends the scan with an error, which the loop may
\* repair; the counters are not saved.
Fail(r) ==
  /\ Active(r)
  /\ Leave(r, "failed")
  /\ UNCHANGED <<now, rows, hist>>

\* The worker is lost.
Die(r) ==
  /\ Active(r)
  /\ Leave(r, "dead")
  /\ UNCHANGED <<now, rows, hist>>

-----------------------------------------------------------------------------
Act(r) ==
  \/ Look(r) \/ Create(r) \/ Finish(r)
  \/ StayQuiet(r) \/ Queue(r) \/ Send(r) \/ SendFails(r) \/ Stamp(r)
  \/ Fail(r)

Next ==
  \/ Tick
  \/ \E r \in Runs : Begin(r) \/ Act(r) \/ Die(r)

Spec == Init /\ [][Next]_vars

-----------------------------------------------------------------------------
\* Every row and every local variable keeps its type, and an event that a run
\* is about to report is stored.
TypeOK ==
  /\ now \in Nat
  /\ events \subseteq Event /\ notes \subseteq Note /\ stamped \subseteq Event
  /\ counts \in [Runs -> [detected: Nat, suppressed: Nat]]
  /\ pc \in [Runs -> Working \cup {"idle", "done", "failed", "dead"}]
  /\ mine \in [Runs -> Locals]
  /\ hushed \subseteq Match
  /\ together \subseteq SUBSET Runs
  /\ \A r \in Runs : pc[r] \in {"create", "notify", "send", "stamp"} => mine[r].asset # NoAsset
  /\ \A r \in Runs : pc[r] \in {"notify", "send", "stamp"} => EventOf(r) \in events

\* A match is only suppressed in favour of a recent event: one of the same
\* asset and type that was found less than the cooldown ago. Windows that are
\* cut at the hour or at midnight never silence an asset for longer.
\* (event_fingerprint, _promote)
SuppressionIsRecent ==
  \A h \in hushed : \E e \in events :
    /\ e.asset = h.asset /\ e.type = h.type
    /\ e.looked <= h.at /\ h.at - e.looked < Cooldown

\* Two events with one fingerprint come from two runs that scanned at the same
\* time; no run repeats itself, not even when it is repaired after it failed
\* between the event and the message. (_promote looks before it creates)
DuplicatesNeedOverlap ==
  \A e, f \in events :
    e # f /\ PrintOf(e) = PrintOf(f) => e.run # f.run /\ {e.run, f.run} \in together

\* The counters of a scan that finished agree with the receipts stored under
\* it, unless it was repaired. (run_lens: promoted, detected)
CountsItsReceipts ==
  \A r \in Runs :
    pc[r] = "done" /\ mine[r].type = "policy_match" /\ mine[r].attempt = 1 =>
      counts[r].detected = Cardinality({e \in events : e.run = r})

\* An event is reported at most once, and it is stamped as notified only when
\* its message was sent. (notify_event: the return after a TelegramError)
StampedWasSent ==
  /\ \A n, m \in notes : n.event = m.event => n = m
  /\ \A e \in stamped : \E n \in notes : n.event = e /\ n.status = "sent"
=============================================================================

------------------------------ MODULE Watching ------------------------------
(***************************************************************************)
(* A Lens that is told to watch: its versions, its routines, its standing  *)
(* assignment (Job) and the requests, runs and Beat ticks that read and    *)
(* write them in processes of their own.                                   *)
(*                                                                         *)
(* A request loads the Lens once and keeps its status in memory while a    *)
(* message is compiled. Versions and routines are queried when they are    *)
(* needed. Every statement that reaches the database is a step; there is   *)
(* no transaction around them.                                             *)
(***************************************************************************)
EXTENDS Naturals, Sequences, FiniteSets

CONSTANTS
  Web,        \* processes that answer requests
  Workers,    \* processes that execute runs
  Defs,       \* job definitions that occur, of "ask", "watch" and "brief"
  Requests,   \* bound: the requests that arrive, a subset of Ops
  Crashes,    \* bound: whether processes are lost
  MaxVersion, \* bound: no message is compiled after so many versions
  MaxQueue    \* bound: runs that wait for a worker

ASSUME WatchingAssumption ==
  /\ Web \cap Workers = {}
  /\ {"ask"} \subseteq Defs /\ Defs \subseteq {"ask", "watch", "brief"}
  /\ Crashes \in BOOLEAN
  /\ MaxVersion \in Nat /\ MaxQueue \in Nat

VARIABLES
  lens,       \* Lens.status
  versions,   \* LensVersion rows, by number: the job they define
  routines,   \* Routine rows, by id
  job,        \* the Job row
  queue,      \* runs that wait for a worker
  pc, mine,   \* each process's place in the code and its local variables
  alone,      \* processes that had the Lens to themselves so far (history)
  clean,      \* no request was disturbed since a standing job was set (history)
  last        \* the last request, unless it was disturbed (history)

rows == <<lens, versions, routines, job, queue>>
hist == <<alone, clean, last>>
vars == <<rows, pc, mine, hist>>

Procs == Web \cup Workers

-----------------------------------------------------------------------------
(* Definitions and routines *)

Persistent(def) == def # "ask"
KindOf(def) == IF def = "brief" THEN "scheduled" ELSE "event_triggered"

Version == Len(versions)
Definition == versions[Version]
Standing == Version > 0 /\ Persistent(Definition)
\* lens.current_routine(), 0 if there is none
Newest == Len(routines)

Routine == [kind: {"manual", "event_triggered", "scheduled"}, pin: Nat, paused: BOOLEAN]
Job == [status: {"draft", "active", "paused"}, version: Nat, routine: Nat]
NoJob == [status |-> "none", version |-> 0, routine |-> 0]

\* should_run_routine, at a time the schedule allows: a routine that names no
\* version follows the newest.
Due(i) ==
  LET version == IF routines[i].pin = 0 THEN Version ELSE routines[i].pin
  IN /\ lens = "active"
     /\ ~ routines[i].paused
     /\ Persistent(versions[version])
     /\ routines[i].kind # "manual"

-----------------------------------------------------------------------------
(* Processes *)

Ops == {"ask", "work", "keep", "confirm", "edit", "pause", "resume", "toggle", "run"}

Labels == {"idle", "number", "insert", "sync", "create", "job", "newjob", "ensure",
           "activate", "live", "confirm", "point", "pausejob", "toggle", "start", "done"}

\* seen is the status of the Lens in memory; version the number that a request
\* found, makes or works with; new the routine to create and then the place to
\* go on at. What is no longer used is forgotten.
Locals ==
  [op: Ops, def: Defs, seen: {"draft", "active", "paused"}, version: Nat,
   attach: BOOLEAN, watch: BOOLEAN, confirming: BOOLEAN, running: BOOLEAN,
   new: Routine, then: Labels, made: Nat]

Fresh(kind, pin) == [kind |-> kind, pin |-> pin, paused |-> FALSE]

Blank ==
  [op |-> "run", def |-> "ask", seen |-> "draft", version |-> 0,
   attach |-> FALSE, watch |-> FALSE, confirming |-> FALSE, running |-> FALSE,
   new |-> Fresh("manual", 0), then |-> "idle", made |-> 0]

Goto(p, label) == pc' = [pc EXCEPT ![p] = label]
Remember(p, locals) == mine' = [mine EXCEPT ![p] = locals]
Busy == {p \in Procs : pc[p] # "idle"}

\* A request or a run begins: it is alone until another begins.
Meet(p, op) ==
  /\ pc[p] = "idle" /\ op \in Requests
  /\ alone' = IF Busy = {} THEN {p} ELSE {}
  /\ clean' = (clean /\ Busy = {})
  /\ UNCHANGED last

Load(op, def) ==
  [Blank EXCEPT !.op = op, !.def = def, !.seen = lens, !.version = Version]

Sent(op) == [Blank EXCEPT !.op = op]

\* A process is gone with its request half done: lost, or stopped by an
\* IntegrityError.
Vanish(p) ==
  /\ Goto(p, "idle")
  /\ Remember(p, Blank)
  /\ alone' = alone \ {p}
  /\ clean' = FALSE
  /\ last' = "none"

Init ==
  /\ lens = "draft" /\ versions = <<>> /\ routines = <<>> /\ job = NoJob
  /\ queue = 0
  /\ pc   = [p \in Procs |-> "idle"]
  /\ mine = [p \in Procs |-> Blank]
  /\ alone = {} /\ clean = TRUE /\ last = "none"

-----------------------------------------------------------------------------
(* Requests *)

\* A question about a standing job is answered without a new version, and so
\* is one that asks for the steps of the one before.
Message(p) ==
  \E def \in Defs :
    /\ Version < MaxVersion
    /\ Meet(p, IF Persistent(def) THEN "work" ELSE "ask")
    /\ \/ /\ ~ Persistent(def) /\ Version > 0
          /\ Remember(p, Sent("ask"))
          /\ Goto(p, "start")
       \/ /\ ~ Standing \/ Persistent(def)
          /\ Remember(p, IF Persistent(def) THEN [Load("work", def) EXCEPT !.watch = TRUE]
                         ELSE Load("ask", def))
          /\ Goto(p, "number")
    /\ UNCHANGED rows

\* "Keep watching this"
Keep(p) ==
  \E def \in Defs :
    /\ Persistent(def) /\ Version < MaxVersion
    /\ Meet(p, "keep")
    /\ Remember(p, [Load("keep", def) EXCEPT !.watch = TRUE])
    /\ Goto(p, "number")
    /\ UNCHANGED rows

\* Mutant of Confirm: a Lens without a job is confirmed.
ConfirmUnversioned(p) ==
  /\ ~ (lens = "active" /\ Newest > 0)
  /\ Meet(p, "confirm")
  /\ Remember(p, Load("confirm", Blank.def))
  /\ Goto(p, "confirm")
  /\ UNCHANGED rows

\* "/confirm", with or without a text; nothing happens when the Lens watches.
Confirm(p) ==
  /\ Version > 0 /\ ~ (lens = "active" /\ Newest > 0)
  /\ Meet(p, "confirm")
  /\ Remember(p, Load("confirm", Blank.def))
  /\ Goto(p, "confirm")
  /\ UNCHANGED rows

\* The policy page: an edit that starts nothing.
EditIntent(p) ==
  \E def \in Defs :
    /\ 0 < Version /\ Version < MaxVersion
    /\ Meet(p, "edit")
    /\ Remember(p, Load("edit", def))
    /\ Goto(p, "number")
    /\ UNCHANGED rows

Pause(p) ==
  /\ Meet(p, "pause")
  /\ lens' = "paused"
  /\ Remember(p, Sent("pause"))
  /\ Goto(p, "pausejob")
  /\ UNCHANGED <<versions, routines, job, queue>>

\* activate
Resume(p) ==
  /\ Version > 0
  /\ Meet(p, "resume")
  /\ Remember(p, Sent("resume"))
  /\ Goto(p, "ensure")
  /\ UNCHANGED rows

\* toggle_pause decides by the row it loaded.
Toggle(p) ==
  \E i \in 1..Newest :
    /\ Meet(p, "toggle")
    /\ Remember(p, [Sent("toggle") EXCEPT !.made = i, !.new.paused = routines[i].paused])
    /\ Goto(p, "toggle")
    /\ UNCHANGED rows

\* "Check now", and the run button of a routine
CheckNow ==
  /\ Version > 0 /\ queue < MaxQueue
  /\ queue' = queue + 1
  /\ UNCHANGED <<lens, versions, routines, job, pc, mine, hist>>

\* run_active_lenses
Beat ==
  /\ queue < MaxQueue
  /\ \E i \in 1..Newest : Due(i)
  /\ queue' = queue + 1
  /\ UNCHANGED <<lens, versions, routines, job, pc, mine, hist>>

\* A worker executes a run: it loads the Lens and its newest version.
Take(p) ==
  /\ queue > 0
  /\ Meet(p, "run")
  /\ queue' = queue - 1
  /\ Remember(p, [Load("run", Blank.def) EXCEPT !.running = TRUE])
  /\ Goto(p, "job")
  /\ UNCHANGED <<lens, versions, routines, job>>

\* A question or a work message is run in the process that answers it.
Start(p) ==
  /\ pc[p] = "start"
  /\ Remember(p, [Load(mine[p].op, Blank.def) EXCEPT !.running = TRUE])
  /\ Goto(p, "job")
  /\ UNCHANGED <<rows, hist>>

-----------------------------------------------------------------------------
(* attach_compiled_job and apply_compiled_edit *)

\* attach_compiled_job makes an edit of it when a version has appeared since
\* the request began, and then does not start to watch.
Number(p) ==
  /\ pc[p] = "number"
  /\ Remember(p, [mine[p] EXCEPT
       !.attach = (Version = 0),
       !.watch = @ /\ (mine[p].version > 0 \/ Version = 0),
       !.version = Version + 1])
  /\ Goto(p, "insert")
  /\ UNCHANGED <<rows, hist>>

\* Mutant of Insert: the number is not unique.
InsertAnyway(p) ==
  /\ pc[p] = "insert"
  /\ versions' = Append(versions, mine[p].def)
  /\ Goto(p, "sync")
  /\ UNCHANGED <<lens, routines, job, queue, mine, hist>>

\* A Lens has each version number once.
Insert(p) ==
  /\ pc[p] = "insert"
  /\ IF mine[p].version = Version + 1
       THEN /\ versions' = Append(versions, mine[p].def)
            /\ Goto(p, "sync")
            /\ UNCHANGED <<lens, routines, job, queue, mine, hist>>
       ELSE Vanish(p) /\ UNCHANGED rows

ToCreate(p, kind, pin, then) ==
  /\ Remember(p, [mine[p] EXCEPT !.new = Fresh(kind, pin), !.then = then])
  /\ Goto(p, "create")

SetKind(kind) ==
  routines' = [routines EXCEPT ![Newest].kind = kind]

\* Mutant of Sync: a routine that became manual stays manual.
SyncOneWay(p) ==
  LET def == mine[p].def
  IN /\ pc[p] = "sync"
     /\ IF Persistent(def) /\ Newest = 0
          THEN /\ ToCreate(p, KindOf(def), IF mine[p].attach THEN mine[p].version ELSE 0, "job")
               /\ UNCHANGED routines
          ELSE /\ Goto(p, "job")
               /\ IF Persistent(def) \/ Newest = 0 THEN UNCHANGED routines ELSE SetKind("manual")
               /\ UNCHANGED mine
     /\ UNCHANGED <<lens, versions, job, queue, hist>>

\* The first version brings its routine along, pinned to it; later ones change
\* the kind of the routine there is (_sync_routine).
Sync(p) ==
  LET def == mine[p].def
  IN /\ pc[p] = "sync"
     /\ UNCHANGED <<lens, versions, job, queue, hist>>
     /\ \/ /\ Persistent(def) /\ (mine[p].attach \/ Newest = 0)
           /\ ToCreate(p, KindOf(def), IF mine[p].attach THEN mine[p].version ELSE 0, "job")
           /\ UNCHANGED routines
        \/ /\ ~ mine[p].attach /\ Newest > 0
           /\ SetKind(IF Persistent(def) THEN KindOf(def) ELSE "manual")
           /\ Goto(p, "job")
           /\ UNCHANGED mine
        \/ /\ ~ Persistent(def) /\ (mine[p].attach \/ Newest = 0)
           /\ Goto(p, "job")
           /\ UNCHANGED <<routines, mine>>

Create(p) ==
  /\ pc[p] = "create"
  /\ routines' = Append(routines, mine[p].new)
  /\ Remember(p, [mine[p] EXCEPT !.new = Blank.new, !.then = "idle",
                      !.made = IF mine[p].attach THEN Newest + 1 ELSE 0])
  /\ Goto(p, mine[p].then)
  /\ UNCHANGED <<lens, versions, job, queue, hist>>

-----------------------------------------------------------------------------
(* upsert_job and _ensure_job *)

\* What is left to do once the assignment is written.
AfterJob(p) ==
  CASE mine[p].running    -> "done"
    [] mine[p].confirming -> "point"
    [] mine[p].watch      -> "ensure"
    [] mine[p].op = "keep" -> "confirm"
    [] mine[p].op = "edit" -> "done"
    [] OTHER              -> "start"

\* What it still needs to know then.
Forget(p) ==
  Remember(p, [Blank EXCEPT !.op = mine[p].op, !.seen = mine[p].seen,
                 !.version = mine[p].version, !.confirming = mine[p].confirming])

\* The status comes from the Lens in memory.
Assign(p) ==
  job' = [status  |-> IF mine[p].seen = "active" THEN "active" ELSE "draft",
          version |-> mine[p].version,
          routine |-> IF mine[p].made > 0 THEN mine[p].made ELSE Newest]

UpsertJob(p) ==
  /\ pc[p] = "job"
  /\ IF job = NoJob
       THEN Goto(p, "newjob") /\ UNCHANGED <<job, mine>>
       ELSE Assign(p) /\ Goto(p, AfterJob(p)) /\ Forget(p)
  /\ UNCHANGED <<lens, versions, routines, queue, hist>>

\* A Lens has one assignment.
NewJob(p) ==
  /\ pc[p] = "newjob"
  /\ IF job = NoJob
       THEN Assign(p) /\ Goto(p, AfterJob(p)) /\ Forget(p) /\ UNCHANGED hist
       ELSE Vanish(p) /\ UNCHANGED job
  /\ UNCHANGED <<lens, versions, routines, queue>>

-----------------------------------------------------------------------------
(* start_watching *)

\* Mutant of Ensure: a routine is created without looking.
EnsureAnother(p) ==
  /\ pc[p] = "ensure"
  /\ IF Standing /\ Newest < 2
       THEN ToCreate(p, KindOf(Definition), Version, "activate")
       ELSE Goto(p, "activate") /\ UNCHANGED mine
  /\ UNCHANGED <<rows, hist>>

\* ensure_routine: a task gets none.
Ensure(p) ==
  /\ pc[p] = "ensure"
  /\ IF Newest = 0 /\ Standing
       THEN ToCreate(p, KindOf(Definition), Version, "activate")
       ELSE Goto(p, "activate") /\ UNCHANGED mine
  /\ UNCHANGED <<rows, hist>>

Activate(p) ==
  /\ pc[p] = "activate"
  /\ lens' = "active"
  /\ Remember(p, [mine[p] EXCEPT !.seen = "active"])
  /\ Goto(p, "live")
  /\ UNCHANGED <<versions, routines, job, queue, hist>>

AfterLive(p) ==
  CASE mine[p].op = "resume" -> "done"
    [] mine[p].op = "keep" /\ ~ mine[p].confirming -> "confirm"
    [] OTHER -> "start"

\* Mutant of Live: the assignment keeps its status.
LiveRoutine(p) ==
  /\ pc[p] = "live"
  /\ job' = IF job = NoJob THEN NoJob ELSE [job EXCEPT !.routine = Newest]
  /\ Goto(p, AfterLive(p))
  /\ UNCHANGED <<lens, versions, routines, queue, mine, hist>>

Live(p) ==
  /\ pc[p] = "live"
  /\ job' = IF job = NoJob THEN NoJob ELSE [job EXCEPT !.status = "active", !.routine = Newest]
  /\ Goto(p, AfterLive(p))
  /\ UNCHANGED <<lens, versions, routines, queue, mine, hist>>

-----------------------------------------------------------------------------
(* RoutineService.confirm *)

\* A Lens that watches is left as it is. A text that is not the source of the
\* newest version is compiled to an edit first.
Confirming(p) ==
  /\ pc[p] = "confirm"
  /\ \/ /\ mine[p].seen = "active" /\ Newest > 0
        /\ Goto(p, "start")
        /\ UNCHANGED mine
     \/ /\ ~ (mine[p].seen = "active" /\ Newest > 0)
        /\ mine[p].op = "keep" => mine[p].version = Version
        /\ Remember(p, [mine[p] EXCEPT !.confirming = TRUE, !.version = Version])
        /\ Goto(p, "point")
     \/ /\ ~ (mine[p].seen = "active" /\ Newest > 0)
        /\ mine[p].op = "keep" => mine[p].version # Version
        /\ Version < MaxVersion
        /\ \E def \in Defs :
             Remember(p, [mine[p] EXCEPT !.confirming = TRUE, !.watch = FALSE, !.def = def])
        /\ Goto(p, "number")
  /\ UNCHANGED <<rows, hist>>

\* The routine of the version, or else the newest, is pinned to the version.
Pinned(version) == {i \in 1..Newest : routines[i].pin = version}

Point(p) ==
  LET version == mine[p].version
      target  == IF Pinned(version) = {} THEN Newest
                 ELSE CHOOSE i \in Pinned(version) : \A k \in Pinned(version) : i <= k
  IN /\ pc[p] = "point"
     /\ IF Newest > 0
          THEN /\ routines' = [routines EXCEPT ![target].pin = version]
               /\ Goto(p, "ensure")
               /\ UNCHANGED mine
          ELSE /\ ToCreate(p, KindOf(versions[version]), version, "ensure")
               /\ UNCHANGED routines
     /\ UNCHANGED <<lens, versions, job, queue, hist>>

-----------------------------------------------------------------------------
(* pause and toggle_pause *)

\* Mutant of PauseJob: a pause leaves the assignment alone.
PauseLensOnly(p) ==
  /\ pc[p] = "pausejob"
  /\ Goto(p, "done")
  /\ UNCHANGED <<rows, mine, hist>>

PauseJob(p) ==
  /\ pc[p] = "pausejob"
  /\ job' = IF job = NoJob THEN NoJob ELSE [job EXCEPT !.status = "paused"]
  /\ Goto(p, "done")
  /\ UNCHANGED <<lens, versions, routines, queue, mine, hist>>

Flip(p) ==
  /\ pc[p] = "toggle"
  /\ routines' = [routines EXCEPT ![mine[p].made].paused = ~ mine[p].new.paused]
  /\ Goto(p, "done")
  /\ UNCHANGED <<lens, versions, job, queue, mine, hist>>

\* A request that set a standing job and was never disturbed puts in order
\* what earlier ones left behind.
Finish(p) ==
  /\ pc[p] = "done"
  /\ Goto(p, "idle")
  /\ Remember(p, Blank)
  /\ alone' = alone \ {p}
  /\ clean' = (clean \/ (p \in alone /\ mine[p].op \in {"work", "keep"}))
  /\ last' = IF p \in alone THEN mine[p].op ELSE "none"
  /\ UNCHANGED rows

Die(p) ==
  /\ Crashes /\ pc[p] # "idle"
  /\ Vanish(p)
  /\ UNCHANGED rows

-----------------------------------------------------------------------------
Request(p) ==
  \/ Message(p) \/ Keep(p) \/ Confirm(p) \/ EditIntent(p)
  \/ Pause(p) \/ Resume(p) \/ Toggle(p)

Step(p) ==
  \/ Number(p) \/ Insert(p) \/ Sync(p) \/ Create(p)
  \/ UpsertJob(p) \/ NewJob(p)
  \/ Ensure(p) \/ Activate(p) \/ Live(p)
  \/ Confirming(p) \/ Point(p)
  \/ PauseJob(p) \/ Flip(p) \/ Start(p) \/ Finish(p)

Next ==
  \/ CheckNow \/ Beat
  \/ \E p \in Web : Request(p)
  \/ \E p \in Workers : Take(p)
  \/ \E p \in Procs : Step(p) \/ Die(p)

Spec == Init /\ [][Next]_vars

-----------------------------------------------------------------------------
RowsOK ==
  /\ lens \in {"draft", "active", "paused"}
  /\ versions \in Seq(Defs)
  /\ routines \in Seq(Routine) /\ \A i \in 1..Newest : routines[i].pin <= Version
  /\ job \in Job \cup {NoJob} /\ job.version <= Version /\ job.routine <= Newest
  /\ queue \in 0..MaxQueue

ProcsOK ==
  /\ pc \in [Procs -> Labels]
  /\ mine \in [Procs -> Locals]
  /\ \A p \in Procs : pc[p] \in {"sync", "job", "point"} => mine[p].version \in 1..Version

HistoryOK ==
  /\ alone \subseteq Busy /\ \A p, q \in alone : p = q
  /\ clean \in BOOLEAN /\ last \in Ops \cup {"none"}

\* Every row and local variable keeps its type, rows only name versions and
\* routines that exist, and a process only works on versions that do.
TypeOK == RowsOK /\ ProcsOK /\ HistoryOK

Quiet == Busy = {} /\ clean /\ Version > 0

\* When no request is under way, the assignment agrees with the Lens: it names
\* its newest version and routine and is active exactly when the Lens is. Runs,
\* edits, pauses and the rest keep that, and one undisturbed message that sets
\* a standing job restores it after whatever interleaving or crash.
\* (upsert_job, _ensure_job, start_watching, pause)
AssignmentMatchesLens ==
  Quiet =>
    /\ job.version = Version
    /\ job.routine = Newest
    /\ job.status = "active" <=> lens = "active"

\* Likewise the newest routine has the kind of the standing job that the
\* newest version defines. (_sync_routine, ensure_routine, confirm)
RoutineMatchesJob ==
  Quiet /\ Standing =>
    Newest > 0 /\ routines[Newest].kind = KindOf(Definition)

\* A second routine can only be created by a request that met another one.
\* (attach_compiled_job, _sync_routine, ensure_routine, confirm)
SecondRoutineRaces ==
  [][Newest > 0 /\ Len(routines') > Newest =>
       \E p \in Procs : pc[p] = "create" /\ p \notin alone]_vars

\* A version that a request is still working with is the one it wrote: nobody
\* else wrote the same number. (unique_together of LensVersion)
OwnsItsVersion ==
  \A p \in Procs :
    /\ pc[p] \in {"sync", "create"} /\ mine[p].then \in {"idle", "job"} =>
         versions[mine[p].version] = mine[p].def
    /\ \A q \in Procs \ {p} :
         pc[p] = "sync" /\ pc[q] = "sync" => mine[p].version # mine[q].version

-----------------------------------------------------------------------------
(* What the documentation and the comments say of a watch *)

\* README.md:49, 54: after "keep watching this" Beat writes the result of every
\* tick, unless the user paused the routine.
KeptWatchIsDue ==
  Quiet /\ last = "keep" /\ (\A i \in 1..Newest : ~ routines[i].paused) =>
    \E i \in 1..Newest : Due(i)
=============================================================================

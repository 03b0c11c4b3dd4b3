--------------------------- MODULE WatchingProofs ---------------------------
(***************************************************************************)
(* For any number of processes, versions and requests, and with crashes:   *)
(* the rows of a Lens only name versions and routines that exist, nobody   *)
(* else writes the version a request works with, and a request that had    *)
(* the Lens to itself never creates a second routine.                      *)
(***************************************************************************)
EXTENDS Watching, SequenceTheorems, TLAPS

Typed == pc \in [Procs -> Labels] /\ mine \in [Procs -> Locals]

\* A Lens with a routine or a run that waits has a version.
Ready == queue > 0 \/ Newest > 0 => Version > 0

\* What a process at a place in the code knows: the version it works with is
\* there and is the one it wrote, and so are the routines it holds.
Placed(label, l, vs, n) ==
  /\ label \in {"sync", "job", "newjob", "point"} \/ l.then = "job" => l.version \in 1..Len(vs)
  /\ label = "sync" \/ l.then = "job" => vs[l.version] = l.def
  /\ label \in {"create", "ensure", "activate", "live", "confirm", "start"} => Len(vs) > 0
  /\ l.made <= n
  /\ label = "create" => l.new.pin <= Len(vs) /\ l.then \in {"job", "ensure", "activate"}
  /\ label # "create" => l.then = "idle"

\* Where a process that has the Lens to itself counts on there being no routine.
Vacant(label, l, n) ==
  label = "create" \/ (label \in {"insert", "sync"} /\ l.attach) => n = 0

AllPlaced == \A p \in Procs : Placed(pc[p], mine[p], versions, Newest)
AloneOK ==
  \A p \in alone :
    /\ Vacant(pc[p], mine[p], Newest)
    /\ \A q \in Procs \ {p} : pc[q] = "idle"

Inv == RowsOK /\ Typed /\ HistoryOK /\ Ready /\ AllPlaced /\ AloneOK /\ OwnsItsVersion

\* What a step of p does to the rows and to the processes ...
Others(p) == \A q \in Procs \ {p} : pc'[q] = pc[q] /\ mine'[q] = mine[q]
Grow ==
  /\ versions' = versions \/ \E def \in Defs : versions' = Append(versions, def)
  /\ Newest' >= Newest

Advances(p) ==
  /\ RowsOK' /\ Typed' /\ Ready' /\ Grow /\ Others(p)
  /\ Placed(pc'[p], mine'[p], versions', Newest')
  /\ pc'[p] = "sync" => mine'[p].version > Version

\* ... and to the history.
Enters(p) ==
  /\ pc[p] = "idle"
  /\ alone' = IF Busy = {} THEN {p} ELSE {}
  /\ pc'[p] \notin {"idle", "insert", "sync", "create"}

Continues(p) ==
  /\ pc[p] # "idle"
  /\ \/ alone' = alone \ {p}
     \/ alone' = alone /\ pc'[p] # "idle"
  /\ p \in alone' => Vacant(pc'[p], mine'[p], Newest')

Remembers(p) ==
  /\ Enters(p) \/ Continues(p)
  /\ clean' \in BOOLEAN /\ last' \in Ops \cup {"none"}

-----------------------------------------------------------------------------
(* The invariant gives the properties *)

LEMMA InvTypeOK == Inv => TypeOK
  <1> SUFFICES ASSUME Inv, NEW p \in Procs
      PROVE pc[p] \in {"sync", "job", "point"} => mine[p].version \in 1..Version
    BY DEF Inv, TypeOK, ProcsOK, Typed
  <1> QED
    BY DEF Inv, AllPlaced, Placed, Version

LEMMA InitInv == Init => Inv
  <1> SUFFICES ASSUME Init PROVE Inv
    OBVIOUS
  <1> USE DEF Init
  <1>1. Blank \in Locals /\ Blank.then = "idle" /\ Blank.made = 0
    BY WatchingAssumption DEF Blank, Locals, Fresh, Routine, Ops, Labels
  <1>2. versions = <<>> /\ routines = <<>> /\ Version = 0 /\ Newest = 0
    BY EmptySeq DEF Version, Newest
  <1>3. RowsOK
    BY <1>2, EmptySeq, WatchingAssumption DEF RowsOK, NoJob
  <1>4. Typed
    BY <1>1 DEF Typed, Labels
  <1>5. HistoryOK /\ AloneOK
    BY DEF HistoryOK, AloneOK
  <1>6. Ready
    BY <1>2 DEF Ready
  <1>7. AllPlaced
    BY <1>1, <1>2 DEF AllPlaced, Placed
  <1>8. OwnsItsVersion
    BY <1>1 DEF OwnsItsVersion
  <1> QED
    BY <1>3, <1>4, <1>5, <1>6, <1>7, <1>8 DEF Inv

-----------------------------------------------------------------------------
(* What a step must do to keep it *)

\* A version that is appended leaves the earlier ones in place.
LEMMA GrowFacts ==
  ASSUME versions \in Seq(Defs), routines \in Seq(Routine), Grow
  PROVE  /\ Version \in Nat /\ Newest \in Nat /\ Version' \in Nat /\ Version' >= Version
         /\ \A i \in 1..Version : versions'[i] = versions[i]
  <1>1. Version \in Nat /\ Newest \in Nat
    BY LenProperties DEF Version, Newest
  <1>2. CASE versions' = versions
    BY <1>1, <1>2 DEF Version
  <1>3. ASSUME NEW def \in Defs, versions' = Append(versions, def)
        PROVE  Version' = Version + 1 /\ \A i \in 1..Version : versions'[i] = versions[i]
    BY <1>3, AppendProperties DEF Version
  <1> QED
    BY <1>1, <1>2, <1>3 DEF Grow

\* A process that stands still stays where it may be.
LEMMA StaysPlaced ==
  ASSUME Inv, Grow, NEW q \in Procs, pc'[q] = pc[q], mine'[q] = mine[q], Newest' \in Nat
  PROVE  Placed(pc'[q], mine'[q], versions', Newest')
  <1>1. PICK l \in Locals : l = mine[q]
    BY DEF Inv, Typed
  <1>2. PICK label \in Labels : label = pc[q]
    BY DEF Inv, Typed
  <1>3. l.version \in Nat /\ l.made \in Nat /\ l.new.pin \in Nat
    BY DEF Locals, Routine
  <1>4. Placed(label, l, versions, Newest)
    BY <1>1, <1>2 DEF Inv, AllPlaced
  <1>5. /\ Version \in Nat /\ Newest \in Nat /\ Version' \in Nat /\ Version' >= Version
        /\ \A i \in 1..Version : versions'[i] = versions[i]
    BY GrowFacts DEF Inv, RowsOK
  <1>6. Placed(label, l, versions', Newest')
    BY <1>3, <1>4, <1>5 DEF Placed, Grow, Version
  <1> QED
    BY <1>1, <1>2, <1>6

LEMMA ProcessesKept ==
  ASSUME Inv, NEW p \in Procs, Advances(p)
  PROVE  AllPlaced' /\ OwnsItsVersion'
  <1>1. Newest' \in Nat
    BY LenProperties DEF Advances, RowsOK, Newest
  <1>2. AllPlaced'
    <2> SUFFICES ASSUME NEW q \in Procs PROVE Placed(pc'[q], mine'[q], versions', Newest')
      BY DEF AllPlaced
    <2> QED
      BY <1>1, StaysPlaced DEF Advances, Others
  <1>3. ASSUME NEW q \in Procs, pc'[q] \in {"sync", "create"}, mine'[q].then \in {"idle", "job"}
        PROVE  versions'[mine'[q].version] = mine'[q].def
    BY <1>2, <1>3 DEF AllPlaced, Placed
  <1>4. ASSUME NEW q \in Procs \ {p}, pc'[p] = "sync", pc'[q] = "sync"
        PROVE  mine'[p].version # mine'[q].version
    <2>1. mine'[q] = mine[q] /\ pc[q] = "sync" /\ mine'[p].version > Version
      BY <1>4 DEF Advances, Others
    <2>2. mine[q].version \in 1..Version /\ Version \in Nat
      BY <2>1, LenProperties DEF Inv, AllPlaced, Placed, RowsOK, Version
    <2> QED
      BY <2>1, <2>2
  <1>5. ASSUME NEW q \in Procs \ {p}, NEW s \in Procs \ {p, q}, pc'[s] = "sync", pc'[q] = "sync"
        PROVE  mine'[s].version # mine'[q].version
    BY <1>5 DEF Advances, Others, Inv, OwnsItsVersion
  <1> QED
    BY <1>2, <1>3, <1>4, <1>5 DEF OwnsItsVersion

\* Only one process at a time can have the Lens to itself.
LEMMA HistoryKept ==
  ASSUME Inv, NEW p \in Procs, Advances(p), Remembers(p)
  PROVE  HistoryOK' /\ AloneOK'
  <1>1. CASE Enters(p)
    <2>1. alone' \subseteq {p} /\ (alone' # {} => \A q \in Procs \ {p} : pc'[q] = "idle")
      BY <1>1 DEF Enters, Busy, Advances, Others
    <2>2. pc'[p] # "idle" /\ Vacant(pc'[p], mine'[p], Newest')
      BY <1>1 DEF Enters, Vacant
    <2> QED
      BY <2>1, <2>2 DEF HistoryOK, AloneOK, Busy, Remembers
  <1>2. CASE Continues(p)
    <2>1. alone \subseteq {p}
      BY <1>2 DEF Continues, Inv, AloneOK, HistoryOK, Busy
    <2>2. alone' \subseteq {p} /\ (p \in alone' => p \in alone /\ pc'[p] # "idle")
      BY <1>2, <2>1 DEF Continues
    <2>3. p \in alone' => \A q \in Procs \ {p} : pc'[q] = "idle"
      BY <2>2 DEF Inv, AloneOK, Advances, Others
    <2> QED
      BY <1>2, <2>2, <2>3 DEF Continues, HistoryOK, AloneOK, Busy, Remembers
  <1> QED
    BY <1>1, <1>2 DEF Remembers

LEMMA Kept ==
  ASSUME Inv, NEW p \in Procs, Advances(p), Remembers(p)
  PROVE  Inv'
  BY ProcessesKept, HistoryKept DEF Advances, Inv

-----------------------------------------------------------------------------
(* Rows that are written, and moves in the code *)

LEMMA Counts ==
  ASSUME RowsOK
  PROVE  Version \in Nat /\ Newest \in Nat
  BY LenProperties DEF RowsOK, Version, Newest

LEMMA SameRows ==
  ASSUME Inv, UNCHANGED <<lens, versions, routines, job>>, queue' \in 0..MaxQueue,
         queue' > 0 => queue > 0 \/ Version > 0
  PROVE  RowsOK' /\ Ready' /\ Grow /\ Version' = Version /\ Newest' = Newest
  <1>1. Version' = Version /\ Newest' = Newest /\ Version \in Nat /\ Newest \in Nat
    BY Counts DEF Inv, Version, Newest
  <1>2. RowsOK'
    BY <1>1 DEF Inv, RowsOK
  <1> QED
    BY <1>1, <1>2, WatchingAssumption DEF Inv, Ready, Grow, RowsOK

LEMMA StatusWritten ==
  ASSUME Inv, UNCHANGED <<versions, routines, job, queue>>,
         lens' \in {"draft", "active", "paused"}
  PROVE  RowsOK' /\ Ready' /\ Grow /\ Version' = Version /\ Newest' = Newest
  <1>1. Version' = Version /\ Newest' = Newest /\ Version \in Nat /\ Newest \in Nat
    BY Counts DEF Inv, Version, Newest
  <1>2. RowsOK'
    BY <1>1 DEF Inv, RowsOK
  <1> QED
    BY <1>1, <1>2 DEF Inv, Ready, Grow

LEMMA JobWritten ==
  ASSUME Inv, UNCHANGED <<lens, versions, routines, queue>>, job' \in Job \cup {NoJob},
         job'.version <= Version, job'.routine <= Newest
  PROVE  RowsOK' /\ Ready' /\ Grow /\ Version' = Version /\ Newest' = Newest
  <1>1. Version' = Version /\ Newest' = Newest /\ Version \in Nat /\ Newest \in Nat
    BY Counts DEF Inv, Version, Newest
  <1>2. RowsOK'
    BY <1>1 DEF Inv, RowsOK
  <1> QED
    BY <1>1, <1>2 DEF Inv, Ready, Grow

LEMMA RoutineWritten ==
  ASSUME Inv, UNCHANGED <<lens, versions, job, queue>>,
         NEW i \in 1..Newest, NEW r \in Routine, r.pin <= Version,
         routines' = [routines EXCEPT ![i] = r]
  PROVE  RowsOK' /\ Ready' /\ Grow /\ Version' = Version /\ Newest' = Newest
  <1>1. Version \in Nat /\ Newest \in Nat /\ Version' = Version /\ routines \in Seq(Routine)
    BY Counts DEF Inv, RowsOK, Version
  <1>2. routines' \in Seq(Routine) /\ Newest' = Newest
    BY <1>1, ExceptSeq DEF Newest
  <1>3. \A k \in 1..Newest : routines'[k] = IF k = i THEN r ELSE routines[k]
    BY <1>1, ElementOfSeq, LenProperties DEF Newest
  <1>4. \A k \in 1..Newest' : routines'[k].pin <= Version'
    BY <1>1, <1>2, <1>3 DEF Inv, RowsOK
  <1>5. RowsOK'
    BY <1>1, <1>2, <1>4 DEF Inv, RowsOK
  <1> QED
    BY <1>1, <1>2, <1>5 DEF Inv, Ready, Grow

LEMMA RoutineCreated ==
  ASSUME Inv, UNCHANGED <<lens, versions, job, queue>>, Version > 0,
         NEW r \in Routine, r.pin <= Version, routines' = Append(routines, r)
  PROVE  RowsOK' /\ Ready' /\ Grow /\ Version' = Version /\ Newest' = Newest + 1
  <1>1. Version \in Nat /\ Newest \in Nat /\ Version' = Version /\ routines \in Seq(Routine)
    BY Counts DEF Inv, RowsOK, Version
  <1>2. /\ routines' \in Seq(Routine) /\ Newest' = Newest + 1
        /\ routines'[Newest + 1] = r /\ \A k \in 1..Newest : routines'[k] = routines[k]
    BY <1>1, AppendProperties DEF Newest
  <1>3. \A k \in 1..Newest' : routines'[k].pin <= Version'
    <2> SUFFICES ASSUME NEW k \in 1..(Newest + 1) PROVE routines'[k].pin <= Version
      BY <1>1, <1>2
    <2>1. CASE k \in 1..Newest
      BY <1>2, <2>1 DEF Inv, RowsOK
    <2>2. CASE k = Newest + 1
      BY <1>2, <2>2
    <2>3. k \in 1..Newest \/ k = Newest + 1
      BY <1>1
    <2> QED
      BY <2>1, <2>2, <2>3
  <1>4. job'.routine <= Newest'
    <2>1. job.routine \in Nat /\ job.routine <= Newest
      BY DEF Inv, RowsOK, Job, NoJob
    <2> QED
      BY <1>1, <1>2, <2>1
  <1>5. RowsOK'
    BY <1>1, <1>2, <1>3, <1>4 DEF Inv, RowsOK
  <1> QED
    BY <1>1, <1>2, <1>5 DEF Inv, Ready, Grow

LEMMA VersionWritten ==
  ASSUME Inv, UNCHANGED <<lens, routines, job, queue>>,
         NEW def \in Defs, versions' = Append(versions, def)
  PROVE  /\ RowsOK' /\ Ready' /\ Grow /\ Version' = Version + 1 /\ Newest' = Newest
         /\ versions'[Version + 1] = def
  <1>1. Version \in Nat /\ Newest \in Nat /\ Newest' = Newest /\ versions \in Seq(Defs)
    BY Counts DEF Inv, RowsOK, Newest
  <1>2. versions' \in Seq(Defs) /\ Version' = Version + 1 /\ versions'[Version + 1] = def
    BY <1>1, AppendProperties DEF Version
  <1>3. \A k \in 1..Newest' : routines'[k].pin <= Version'
    <2> SUFFICES ASSUME NEW k \in 1..Newest PROVE routines[k].pin <= Version + 1
      BY <1>1, <1>2
    <2>1. routines[k] \in Routine
      BY <1>1, ElementOfSeq DEF Inv, RowsOK, Newest
    <2>2. routines[k].pin \in Nat /\ routines[k].pin <= Version
      BY <2>1 DEF Inv, RowsOK, Routine
    <2> QED
      BY <1>1, <2>2
  <1>4. job'.version <= Version'
    <2>1. job.version \in Nat /\ job.version <= Version
      BY DEF Inv, RowsOK, Job, NoJob
    <2> QED
      BY <1>1, <1>2, <2>1
  <1>5. RowsOK'
    BY <1>1, <1>2, <1>3, <1>4 DEF Inv, RowsOK
  <1> QED
    BY <1>1, <1>2, <1>5 DEF Inv, Ready, Grow

\* A process goes on at label with the locals l.
Moves(p, label, l) ==
  Goto(p, label) /\ (Remember(p, l) \/ (mine' = mine /\ l = mine[p]))

LEMMA MovesTo ==
  ASSUME Inv, NEW p \in Procs, NEW label \in Labels, NEW l \in Locals, Moves(p, label, l)
  PROVE  Typed' /\ Others(p) /\ pc'[p] = label /\ mine'[p] = l
  BY DEF Moves, Goto, Remember, Inv, Typed, Others

LEMMA MoveAdvances ==
  ASSUME Inv, NEW p \in Procs, NEW label \in Labels, NEW l \in Locals, Moves(p, label, l),
         RowsOK', Ready', Grow,
         Placed(label, l, versions', Newest'), label = "sync" => l.version > Version
  PROVE  Advances(p)
  <1>1. Typed' /\ Others(p) /\ pc'[p] = label /\ mine'[p] = l
    BY MovesTo
  <1> QED
    BY <1>1 DEF Advances

\* The locals of a process, and where it may be.
LEMMA Where ==
  ASSUME Inv, NEW p \in Procs
  PROVE  mine[p] \in Locals /\ pc[p] \in Labels /\ Placed(pc[p], mine[p], versions, Newest)
  BY DEF Inv, Typed, AllPlaced

LEMMA BlankOK ==
  /\ Blank \in Locals /\ Blank.then = "idle" /\ Blank.made = 0
  /\ Blank.new = [kind |-> "manual", pin |-> 0, paused |-> FALSE]
  BY WatchingAssumption DEF Blank, Locals, Fresh, Routine, Ops, Labels

LEMMA VanishAdvances ==
  ASSUME Inv, NEW p \in Procs, UNCHANGED <<lens, versions, routines, job, queue>>,
         pc[p] # "idle", Vanish(p)
  PROVE  Advances(p) /\ Remembers(p)
  <1>1. RowsOK' /\ Ready' /\ Grow /\ Newest' = Newest /\ Newest \in Nat
    BY SameRows, Counts DEF Inv, RowsOK
  <1>2. Moves(p, "idle", Blank) /\ "idle" \in Labels
    BY DEF Vanish, Moves, Labels
  <1>3. Placed("idle", Blank, versions', Newest')
    BY <1>1, BlankOK DEF Placed
  <1>4. Advances(p)
    BY <1>1, <1>2, <1>3, BlankOK, MoveAdvances
  <1>5. Remembers(p)
    BY DEF Vanish, Remembers, Continues
  <1> QED
    BY <1>4, <1>5

-----------------------------------------------------------------------------
(* Requests *)

LEMMA LoadOK ==
  ASSUME Inv, NEW op \in Ops, NEW def \in Defs
  PROVE  /\ Load(op, def) \in Locals
         /\ Load(op, def).then = "idle" /\ Load(op, def).made = 0
         /\ Load(op, def).version = Version
  BY BlankOK, Counts DEF Inv, RowsOK, Load, Locals

LEMMA SentOK ==
  ASSUME NEW op \in Ops
  PROVE  Sent(op) \in Locals /\ Sent(op).then = "idle" /\ Sent(op).made = 0
  BY BlankOK DEF Sent, Locals

\* A process that meets the Lens goes on where nothing is taken for granted, or
\* where a version is needed and there.
LEMMA MeetKeeps ==
  ASSUME Inv, NEW p \in Procs, NEW op, Meet(p, op),
         NEW label \in {"number", "confirm", "ensure", "start", "pausejob", "toggle", "job"},
         NEW l \in Locals, Moves(p, label, l),
         RowsOK', Ready', Grow,
         l.then = "idle", l.made <= Newest',
         label \in {"confirm", "ensure", "start", "job"} => Version' > 0,
         label = "job" => l.version = Version'
  PROVE  Inv'
  <1>1. label \in Labels
    BY DEF Labels
  <1>2. Version' \in Nat
    BY LenProperties DEF RowsOK, Version
  <1>3. Placed(label, l, versions', Newest')
    BY <1>2 DEF Placed, Version
  <1>4. Advances(p)
    BY <1>1, <1>3, MoveAdvances
  <1>5. pc'[p] = label
    BY <1>1, MovesTo
  <1>6. Remembers(p)
    BY <1>5 DEF Remembers, Enters, Meet, Inv, HistoryOK
  <1> QED
    BY <1>4, <1>6, Kept

LEMMA MessageKeeps ==
  ASSUME Inv, NEW p \in Procs, Message(p)
  PROVE  Inv'
  <1>1. PICK def \in Defs :
          /\ Meet(p, IF Persistent(def) THEN "work" ELSE "ask")
          /\ \/ /\ Version > 0
                /\ Remember(p, Sent("ask"))
                /\ Goto(p, "start")
             \/ /\ Remember(p, IF Persistent(def) THEN [Load("work", def) EXCEPT !.watch = TRUE]
                               ELSE Load("ask", def))
                /\ Goto(p, "number")
          /\ UNCHANGED rows
    BY DEF Message
  <1>2. RowsOK' /\ Ready' /\ Grow /\ Version' = Version /\ Newest' = Newest /\ Newest \in Nat
    BY <1>1, SameRows, Counts DEF rows, Inv, RowsOK
  <1>3. CASE Version > 0 /\ Remember(p, Sent("ask")) /\ Goto(p, "start")
    <2>1. Moves(p, "start", Sent("ask")) /\ "ask" \in Ops
      BY <1>3 DEF Moves, Ops
    <2> QED
      BY <1>1, <1>2, <1>3, <2>1, SentOK, MeetKeeps
  <1>4. ASSUME NEW op \in {"work", "ask"}, NEW watch \in BOOLEAN,
               Remember(p, [Load(op, def) EXCEPT !.watch = watch]), Goto(p, "number")
        PROVE  Inv'
    <2>1. op \in Ops
      BY DEF Ops
    <2>2. PICK l : l = [Load(op, def) EXCEPT !.watch = watch]
      OBVIOUS
    <2>3. l \in Locals /\ l.then = "idle" /\ l.made = 0
      BY <2>1, <2>2, LoadOK DEF Locals
    <2>4. Moves(p, "number", l)
      BY <1>4, <2>2 DEF Moves
    <2> QED
      BY <1>1, <1>2, <2>3, <2>4, MeetKeeps
  <1>5. [Load("ask", def) EXCEPT !.watch = FALSE] = Load("ask", def)
    BY BlankOK DEF Load, Blank, Locals
  <1> QED
    BY <1>1, <1>3, <1>4, <1>5

LEMMA KeepKeeps ==
  ASSUME Inv, NEW p \in Procs, Keep(p)
  PROVE  Inv'
  <1>1. PICK def \in Defs :
          /\ Meet(p, "keep")
          /\ Remember(p, [Load("keep", def) EXCEPT !.watch = TRUE])
          /\ Goto(p, "number")
          /\ UNCHANGED rows
    BY DEF Keep
  <1>2. RowsOK' /\ Ready' /\ Grow /\ Newest' = Newest /\ Newest \in Nat
    BY <1>1, SameRows, Counts DEF rows, Inv, RowsOK
  <1>3. PICK l : l = [Load("keep", def) EXCEPT !.watch = TRUE]
    OBVIOUS
  <1>4. l \in Locals /\ l.then = "idle" /\ l.made = 0
    <2>1. PICK b \in Locals : b = Load("keep", def) /\ b.then = "idle" /\ b.made = 0
      BY LoadOK DEF Ops
    <2> QED
      BY <1>3, <2>1 DEF Locals
  <1>5. Moves(p, "number", l)
    BY <1>1, <1>3 DEF Moves
  <1> QED
    BY <1>1, <1>2, <1>4, <1>5, MeetKeeps

\* The requests that load the Lens and go on with it.
LEMMA LoadKeeps ==
  ASSUME Inv, NEW p \in Procs, NEW op \in Ops, NEW def \in Defs,
         NEW label \in {"number", "confirm"},
         Version > 0, Meet(p, op), Remember(p, Load(op, def)), Goto(p, label), UNCHANGED rows
  PROVE  Inv'
  <1>1. RowsOK' /\ Ready' /\ Grow /\ Version' = Version /\ Newest' = Newest /\ Newest \in Nat
    BY SameRows, Counts DEF rows, Inv, RowsOK
  <1>2. Moves(p, label, Load(op, def))
    BY DEF Moves
  <1> QED
    BY <1>1, <1>2, LoadOK, MeetKeeps

LEMMA ConfirmKeeps ==
  ASSUME Inv, NEW p \in Procs, Confirm(p)
  PROVE  Inv'
  <1>1. "confirm" \in Ops /\ Blank.def \in Defs
    BY BlankOK DEF Ops, Locals
  <1> QED
    BY <1>1, LoadKeeps DEF Confirm

LEMMA EditKeeps ==
  ASSUME Inv, NEW p \in Procs, EditIntent(p)
  PROVE  Inv'
  <1>1. "edit" \in Ops
    BY DEF Ops
  <1>2. Version > 0
    BY Counts DEF EditIntent, Inv
  <1> QED
    BY <1>1, <1>2, LoadKeeps DEF EditIntent

LEMMA PauseKeeps ==
  ASSUME Inv, NEW p \in Procs, Pause(p)
  PROVE  Inv'
  <1>1. RowsOK' /\ Ready' /\ Grow /\ Newest' = Newest /\ Newest \in Nat
    BY StatusWritten, Counts DEF Pause, Inv
  <1>2. Moves(p, "pausejob", Sent("pause")) /\ "pause" \in Ops
    BY DEF Pause, Moves, Ops
  <1> QED
    BY <1>1, <1>2, SentOK, MeetKeeps DEF Pause

LEMMA ResumeKeeps ==
  ASSUME Inv, NEW p \in Procs, Resume(p)
  PROVE  Inv'
  <1>1. RowsOK' /\ Ready' /\ Grow /\ Version' = Version /\ Newest' = Newest /\ Newest \in Nat
    BY SameRows, Counts DEF Resume, rows, Inv, RowsOK
  <1>2. Moves(p, "ensure", Sent("resume")) /\ "resume" \in Ops
    BY DEF Resume, Moves, Ops
  <1> QED
    BY <1>1, <1>2, SentOK, MeetKeeps DEF Resume

LEMMA ToggleKeeps ==
  ASSUME Inv, NEW p \in Procs, Toggle(p)
  PROVE  Inv'
  <1>1. RowsOK' /\ Ready' /\ Grow /\ Newest' = Newest /\ Newest \in Nat
    BY SameRows, Counts DEF Toggle, rows, Inv, RowsOK
  <1>2. PICK i \in 1..Newest :
          Remember(p, [Sent("toggle") EXCEPT !.made = i, !.new.paused = routines[i].paused])
    BY DEF Toggle
  <1>3. routines[i].paused \in BOOLEAN
    <2>1. routines[i] \in Routine
      BY ElementOfSeq DEF Inv, RowsOK, Newest
    <2> QED
      BY <2>1 DEF Routine
  <1>4. PICK l : l = [Sent("toggle") EXCEPT !.made = i, !.new.paused = routines[i].paused]
    OBVIOUS
  <1>5. l \in Locals /\ l.then = "idle" /\ l.made = i
    <2>1. Sent("toggle") \in Locals /\ Sent("toggle").then = "idle"
      BY SentOK DEF Ops
    <2>2. i \in Nat
      BY <1>1
    <2> QED
      BY <1>3, <1>4, <2>1, <2>2 DEF Locals, Routine
  <1>6. Moves(p, "toggle", l)
    BY <1>2, <1>4 DEF Toggle, Moves
  <1> QED
    BY <1>1, <1>5, <1>6, MeetKeeps DEF Toggle

\* A worker only finds a run when the Lens has a version.
LEMMA TakeKeeps ==
  ASSUME Inv, NEW p \in Procs, Take(p)
  PROVE  Inv'
  <1>1. Version > 0 /\ queue - 1 \in 0..MaxQueue
    BY WatchingAssumption DEF Take, Inv, Ready, RowsOK
  <1>2. RowsOK' /\ Ready' /\ Grow /\ Version' = Version /\ Newest' = Newest /\ Newest \in Nat
    BY <1>1, SameRows, Counts DEF Take, Inv
  <1>3. PICK l : l = [Load("run", Blank.def) EXCEPT !.running = TRUE]
    OBVIOUS
  <1>4. "run" \in Ops /\ Blank.def \in Defs
    BY BlankOK DEF Ops, Locals
  <1>5. l \in Locals /\ l.then = "idle" /\ l.made = 0 /\ l.version = Version
    <2>1. PICK b \in Locals :
            /\ b = Load("run", Blank.def)
            /\ b.then = "idle" /\ b.made = 0 /\ b.version = Version
      BY <1>4, LoadOK
    <2> QED
      BY <1>3, <2>1 DEF Locals
  <1>6. Moves(p, "job", l)
    BY <1>3 DEF Take, Moves
  <1> QED
    BY <1>1, <1>2, <1>5, <1>6, MeetKeeps DEF Take

-----------------------------------------------------------------------------
(* Steps *)

\* A step that leaves the history alone.
LEMMA StepKeeps ==
  ASSUME Inv, NEW p \in Procs, pc[p] # "idle", UNCHANGED hist,
         NEW label \in Labels, label # "idle", NEW l \in Locals, Moves(p, label, l),
         RowsOK', Ready', Grow,
         Placed(label, l, versions', Newest'), label = "sync" => l.version > Version,
         p \in alone => Vacant(label, l, Newest')
  PROVE  Inv'
  <1>1. Advances(p)
    BY MoveAdvances
  <1>2. pc'[p] = label /\ mine'[p] = l
    BY MovesTo
  <1>3. Remembers(p)
    BY <1>2 DEF Remembers, Continues, hist, Inv, HistoryOK
  <1> QED
    BY <1>1, <1>3, Kept

LEMMA StartKeeps ==
  ASSUME Inv, NEW p \in Procs, Start(p)
  PROVE  Inv'
  <1>1. RowsOK' /\ Ready' /\ Grow /\ Version' = Version /\ Newest' = Newest /\ Newest \in Nat
    BY SameRows, Counts DEF Start, rows, Inv, RowsOK
  <1>2. Version > 0 /\ Version \in Nat
    BY Where, Counts DEF Start, Placed, Version, Inv
  <1>3. mine[p].op \in Ops /\ Blank.def \in Defs
    BY BlankOK, Where DEF Locals
  <1>4. PICK b \in Locals :
          /\ b = Load(mine[p].op, Blank.def)
          /\ b.then = "idle" /\ b.made = 0 /\ b.version = Version
    BY <1>3, LoadOK
  <1>5. PICK l : l = [b EXCEPT !.running = TRUE]
    OBVIOUS
  <1>6. l \in Locals /\ l.then = "idle" /\ l.made = 0 /\ l.version = Version
    BY <1>4, <1>5 DEF Locals
  <1>7. Moves(p, "job", l) /\ "job" \in Labels
    BY <1>4, <1>5 DEF Start, Moves, Labels
  <1>8. Placed("job", l, versions', Newest')
    BY <1>1, <1>2, <1>6 DEF Placed, Version
  <1>9. Vacant("job", l, Newest')
    BY DEF Vacant
  <1> QED
    BY <1>1, <1>6, <1>7, <1>8, <1>9, StepKeeps DEF Start

\* Whoever finds no version and has the Lens to itself finds no routine either.
LEMMA NumberKeeps ==
  ASSUME Inv, NEW p \in Procs, Number(p)
  PROVE  Inv'
  <1>1. RowsOK' /\ Ready' /\ Grow /\ Version' = Version /\ Newest' = Newest
    BY SameRows DEF Number, rows, Inv, RowsOK
  <1>2. Version \in Nat /\ Newest \in Nat
    BY Counts DEF Inv
  <1>3. PICK k \in Locals : k = mine[p] /\ k.then = "idle" /\ k.made <= Newest
    BY Where DEF Number, Placed
  <1>4. PICK l : l = [k EXCEPT !.attach = (Version = 0),
                              !.watch = @ /\ (k.version > 0 \/ Version = 0),
                              !.version = Version + 1]
    OBVIOUS
  <1>5. l \in Locals /\ l.then = "idle" /\ l.made = k.made /\ (l.attach => Version = 0)
    <2>1. PICK attach \in BOOLEAN : attach = (Version = 0)
      OBVIOUS
    <2>2. PICK watch \in BOOLEAN : watch = (k.watch /\ (k.version > 0 \/ Version = 0))
      OBVIOUS
    <2>3. PICK number \in Nat : number = Version + 1
      BY <1>2
    <2>4. l = [k EXCEPT !.attach = attach, !.watch = watch, !.version = number]
      BY <1>4, <2>1, <2>2, <2>3
    <2>5. l \in Locals
      BY <2>4 DEF Locals
    <2>6. l.then = k.then /\ l.made = k.made /\ l.attach = attach
      BY <2>4 DEF Locals
    <2> QED
      BY <1>3, <2>1, <2>5, <2>6
  <1>6. Moves(p, "insert", l) /\ "insert" \in Labels
    BY <1>3, <1>4 DEF Number, Moves, Labels
  <1>7. Placed("insert", l, versions', Newest')
    BY <1>1, <1>3, <1>5 DEF Placed
  <1>8. Vacant("insert", l, Newest')
    BY <1>1, <1>2, <1>5 DEF Vacant, Inv, Ready
  <1> QED
    BY <1>1, <1>5, <1>6, <1>7, <1>8, StepKeeps DEF Number

LEMMA InsertKeeps ==
  ASSUME Inv, NEW p \in Procs, Insert(p)
  PROVE  Inv'
  <1>1. PICK l \in Locals : l = mine[p] /\ Placed("insert", l, versions, Newest)
    BY Where DEF Insert
  <1>2. CASE l.version = Version + 1
    <2>1. /\ RowsOK' /\ Ready' /\ Grow /\ Version' = Version + 1 /\ Newest' = Newest
          /\ versions'[Version + 1] = l.def
      BY <1>1, <1>2, VersionWritten DEF Insert, Locals
    <2>2. Version \in Nat
      BY Counts DEF Inv
    <2>3. Moves(p, "sync", l) /\ "sync" \in Labels
      BY <1>1, <1>2 DEF Insert, Moves, Labels
    <2>4. Placed("sync", l, versions', Newest')
      BY <1>1, <1>2, <2>1, <2>2 DEF Placed, Version
    <2>5. p \in alone => Vacant("sync", l, Newest')
      BY <1>1, <2>1 DEF Insert, Inv, AloneOK, Vacant
    <2> QED
      BY <1>1, <1>2, <2>1, <2>2, <2>3, <2>4, <2>5, StepKeeps DEF Insert
  <1>3. CASE l.version # Version + 1
    BY <1>1, <1>3, VanishAdvances, Kept DEF Insert, rows
  <1> QED
    BY <1>2, <1>3

\* What ToCreate leaves behind.
LEMMA ToCreateKeeps ==
  ASSUME Inv, NEW p \in Procs, pc[p] # "idle", UNCHANGED <<rows, hist>>,
         NEW kind, NEW pin \in Nat, NEW then \in {"job", "ensure", "activate"},
         kind \in {"event_triggered", "scheduled"}, pin <= Version, Version > 0,
         ToCreate(p, kind, pin, then),
         then = "job" => mine[p].version \in 1..Version /\ versions[mine[p].version] = mine[p].def,
         p \in alone => Newest = 0
  PROVE  Inv'
  <1>1. RowsOK' /\ Ready' /\ Grow /\ Version' = Version /\ Newest' = Newest /\ versions' = versions
    BY SameRows DEF rows, Inv, RowsOK
  <1>2. PICK k \in Locals : k = mine[p] /\ k.made <= Newest
    BY Where DEF Placed
  <1>3. PICK l : l = [k EXCEPT !.new = Fresh(kind, pin), !.then = then]
    OBVIOUS
  <1>4. /\ l \in Locals /\ l.then = then /\ l.new.pin = pin
        /\ l.made = k.made /\ l.version = k.version /\ l.def = k.def
    BY <1>3 DEF Locals, Fresh, Routine, Labels
  <1>5. Moves(p, "create", l) /\ "create" \in Labels
    BY <1>2, <1>3 DEF ToCreate, Moves, Labels
  <1>6. Placed("create", l, versions', Newest')
    BY <1>1, <1>2, <1>4 DEF Placed, Version
  <1>7. p \in alone => Vacant("create", l, Newest')
    BY <1>1 DEF Vacant
  <1> QED
    BY <1>1, <1>4, <1>5, <1>6, <1>7, StepKeeps
LEMMA RoutineOf ==
  ASSUME Inv, NEW i \in 1..Newest
  PROVE  routines[i] \in Routine /\ routines[i].pin \in Nat /\ routines[i].pin <= Version
  <1>1. routines[i] \in Routine
    BY ElementOfSeq DEF Inv, RowsOK, Newest
  <1> QED
    BY <1>1 DEF Inv, RowsOK, Routine

\* A step that goes on with the same locals.
LEMMA GoesOn ==
  ASSUME Inv, NEW p \in Procs, pc[p] \notin {"idle", "create"}, UNCHANGED hist,
         NEW label \in Labels \ {"idle", "sync", "insert", "create"}, Goto(p, label), mine' = mine,
         RowsOK', Ready', Grow,
         label \in {"job", "newjob", "point"} => mine[p].version \in 1..Version,
         label \in {"ensure", "activate", "live", "confirm", "start"} => Version > 0
  PROVE  Inv'
  <1>1. PICK l \in Locals : l = mine[p] /\ Placed(pc[p], l, versions, Newest)
    BY Where
  <1>2. /\ Version \in Nat /\ Newest \in Nat /\ Version' \in Nat /\ Version' >= Version
        /\ Newest' \in Nat /\ Newest' >= Newest
    BY GrowFacts, Counts, LenProperties DEF Inv, RowsOK, Newest, Grow
  <1>3. l.version \in Nat /\ l.made \in Nat
    BY DEF Locals
  <1>4. Moves(p, label, l)
    BY <1>1 DEF Moves
  <1>5. Placed(label, l, versions', Newest')
    BY <1>1, <1>2, <1>3 DEF Placed, Version
  <1>6. Vacant(label, l, Newest')
    BY DEF Vacant
  <1> QED
    BY <1>4, <1>5, <1>6, StepKeeps

\* The first routine is only created where there was none; a kind is changed
\* in place.
LEMMA SyncKeeps ==
  ASSUME Inv, NEW p \in Procs, Sync(p)
  PROVE  Inv'
  <1>1. pc[p] = "sync" /\ UNCHANGED <<lens, versions, job, queue, hist>>
    BY DEF Sync
  <1>2. mine[p].version \in 1..Version /\ versions[mine[p].version] = mine[p].def
    BY <1>1, Where DEF Placed, Version
  <1>3. Version \in Nat /\ Newest \in Nat /\ "job" \in Labels
    BY Counts DEF Inv, Labels
  <1>4. \A def : KindOf(def) \in {"event_triggered", "scheduled"}
    BY DEF KindOf
  <1>5. CASE /\ mine[p].attach \/ Newest = 0
             /\ ToCreate(p, KindOf(mine[p].def),
                         IF mine[p].attach THEN mine[p].version ELSE 0, "job")
             /\ UNCHANGED routines
    <2>1. p \in alone => Newest = 0
      BY <1>1, <1>5 DEF Inv, AloneOK, Vacant
    <2>2. PICK pin \in Nat : pin = IF mine[p].attach THEN mine[p].version ELSE 0
      BY <1>2
    <2>3. pin <= Version /\ Version > 0 /\ UNCHANGED <<rows, hist>>
      BY <1>1, <1>2, <1>3, <1>5, <2>2 DEF rows
    <2> QED
      BY <1>1, <1>2, <1>4, <1>5, <2>1, <2>2, <2>3, ToCreateKeeps
  <1>6. ASSUME NEW kind \in {"event_triggered", "scheduled", "manual"},
               Newest > 0, SetKind(kind), Goto(p, "job"), UNCHANGED mine
        PROVE  Inv'
    <2>1. PICK r \in Routine : r = routines[Newest] /\ r.pin <= Version
      BY <1>3, <1>6, RoutineOf
    <2>2. PICK t : t = [r EXCEPT !.kind = kind]
      OBVIOUS
    <2>3. t \in Routine /\ t.pin <= Version
      BY <1>6, <2>1, <2>2 DEF Routine
    <2>4. routines' = [routines EXCEPT ![Newest] = t]
      BY <1>6, <2>1, <2>2 DEF SetKind
    <2>5. Newest \in 1..Newest
      BY <1>3, <1>6
    <2>6. RowsOK' /\ Ready' /\ Grow
      BY <1>1, <2>3, <2>4, <2>5, RoutineWritten
    <2> QED
      BY <1>1, <1>2, <1>3, <1>6, <2>6, GoesOn
  <1>7. CASE Goto(p, "job") /\ UNCHANGED <<routines, mine>>
    <2>1. RowsOK' /\ Ready' /\ Grow
      BY <1>1, <1>7, SameRows DEF Inv, RowsOK
    <2> QED
      BY <1>1, <1>2, <1>3, <1>7, <2>1, GoesOn
  <1> QED
    BY <1>4, <1>5, <1>6, <1>7 DEF Sync

LEMMA CreateKeeps ==
  ASSUME Inv, NEW p \in Procs, Create(p)
  PROVE  Inv'
  <1>1. Version \in Nat /\ Newest \in Nat
    BY Counts DEF Inv
  <1>2. PICK k \in Locals : k = mine[p] /\ Placed("create", k, versions, Newest)
    BY Where DEF Create
  <1>3. /\ k.new \in Routine /\ k.new.pin <= Version /\ Version > 0
        /\ k.then \in {"job", "ensure", "activate"}
    BY <1>2 DEF Placed, Locals, Version
  <1>4. /\ RowsOK' /\ Ready' /\ Grow
        /\ Version' = Version /\ Newest' = Newest + 1 /\ versions' = versions
    BY <1>2, <1>3, RoutineCreated DEF Create
  <1>5. PICK made \in Nat : made = IF k.attach THEN Newest + 1 ELSE 0
    BY <1>1
  <1>6. PICK l : l = [k EXCEPT !.new = Blank.new, !.then = "idle", !.made = made]
    OBVIOUS
  <1>7. l \in Locals
    BY <1>6, BlankOK DEF Locals, Labels
  <1>8. l.then = "idle" /\ l.made = made /\ l.version = k.version
    BY <1>6 DEF Locals
  <1>9. Moves(p, k.then, l) /\ k.then \in Labels
    BY <1>2, <1>3, <1>5, <1>6 DEF Create, Moves, Labels
  <1>10. made <= Newest'
    BY <1>1, <1>4, <1>5
  <1>11. k.then = "job" => k.version \in 1..Version
    BY <1>2 DEF Placed, Version
  <1>12. Placed(k.then, l, versions', Newest')
    BY <1>3, <1>4, <1>8, <1>10, <1>11 DEF Placed, Version
  <1>13. Vacant(k.then, l, Newest')
    BY <1>3 DEF Vacant
  <1> QED
    BY <1>3, <1>4, <1>7, <1>9, <1>12, <1>13, StepKeeps DEF Create

\* The assignment is written, by an update or an insert.
LEMMA AssignKeeps ==
  ASSUME Inv, NEW p \in Procs, pc[p] \in {"job", "newjob"},
         Assign(p), Goto(p, AfterJob(p)), Forget(p),
         UNCHANGED <<lens, versions, routines, queue, hist>>
  PROVE  Inv'
  <1>1. Version \in Nat /\ Newest \in Nat
    BY Counts DEF Inv
  <1>2. PICK k \in Locals : k = mine[p] /\ Placed(pc[p], k, versions, Newest)
    BY Where
  <1>3. k.version \in 1..Version /\ k.made \in Nat /\ k.made <= Newest
    BY <1>2 DEF Placed, Version, Locals
  <1>4. job' \in Job /\ job'.version <= Version /\ job'.routine <= Newest
    <2>1. PICK status \in {"draft", "active"} :
            status = IF k.seen = "active" THEN "active" ELSE "draft"
      OBVIOUS
    <2>2. PICK routine \in 0..Newest : routine = IF k.made > 0 THEN k.made ELSE Newest
      BY <1>1, <1>3
    <2>3. job' = [status |-> status, version |-> k.version, routine |-> routine]
      BY <1>2, <2>1, <2>2 DEF Assign
    <2> QED
      BY <1>1, <1>3, <2>3 DEF Job
  <1>5. RowsOK' /\ Ready' /\ Grow /\ Version' = Version /\ Newest' = Newest
    BY <1>4, JobWritten
  <1>6. PICK l : l = [Blank EXCEPT !.op = k.op, !.seen = k.seen,
                        !.version = k.version, !.confirming = k.confirming]
    OBVIOUS
  <1>7. l \in Locals
    BY <1>6, BlankOK DEF Locals
  <1>8. l.then = "idle" /\ l.made = 0 /\ l.version = k.version
    BY <1>6, BlankOK DEF Locals
  <1>9. PICK label \in {"done", "point", "ensure", "confirm", "start"} : label = AfterJob(p)
    BY DEF AfterJob
  <1>10. Moves(p, label, l) /\ label \in Labels
    BY <1>2, <1>6, <1>9 DEF Forget, Moves, Labels
  <1>11. Placed(label, l, versions', Newest')
    BY <1>1, <1>3, <1>5, <1>8 DEF Placed, Version
  <1>12. Vacant(label, l, Newest')
    BY <1>9 DEF Vacant
  <1> QED
    BY <1>5, <1>7, <1>9, <1>10, <1>11, <1>12, StepKeeps

LEMMA UpsertJobKeeps ==
  ASSUME Inv, NEW p \in Procs, UpsertJob(p)
  PROVE  Inv'
  <1>1. CASE job = NoJob
    <2>1. RowsOK' /\ Ready' /\ Grow
      BY <1>1, SameRows DEF UpsertJob, Inv, RowsOK
    <2>2. mine[p].version \in 1..Version /\ "newjob" \in Labels
      BY Where DEF UpsertJob, Placed, Version, Labels
    <2> QED
      BY <1>1, <2>1, <2>2, GoesOn DEF UpsertJob
  <1> QED
    BY <1>1, AssignKeeps DEF UpsertJob

LEMMA NewJobKeeps ==
  ASSUME Inv, NEW p \in Procs, NewJob(p)
  PROVE  Inv'
  <1>1. CASE job = NoJob
    BY <1>1, AssignKeeps DEF NewJob
  <1>2. CASE job # NoJob
    BY <1>2, VanishAdvances, Kept DEF NewJob
  <1> QED
    BY <1>1, <1>2
LEMMA EnsureKeeps ==
  ASSUME Inv, NEW p \in Procs, Ensure(p)
  PROVE  Inv'
  <1>1. Version > 0 /\ Version \in Nat
    BY Where, Counts DEF Ensure, Placed, Version, Inv
  <1>2. CASE Newest = 0 /\ Standing
    <2>1. KindOf(Definition) \in {"event_triggered", "scheduled"}
      BY DEF KindOf
    <2> QED
      BY <1>1, <1>2, <2>1, ToCreateKeeps DEF Ensure
  <1>3. CASE ~ (Newest = 0 /\ Standing)
    <2>1. RowsOK' /\ Ready' /\ Grow
      BY SameRows DEF Ensure, rows, Inv, RowsOK
    <2>2. "activate" \in Labels
      BY DEF Labels
    <2> QED
      BY <1>1, <1>3, <2>1, <2>2, GoesOn DEF Ensure
  <1> QED
    BY <1>2, <1>3

LEMMA ActivateKeeps ==
  ASSUME Inv, NEW p \in Procs, Activate(p)
  PROVE  Inv'
  <1>1. /\ RowsOK' /\ Ready' /\ Grow
        /\ Version' = Version /\ Newest' = Newest /\ versions' = versions
    BY StatusWritten DEF Activate
  <1>2. PICK k \in Locals : k = mine[p] /\ Placed("activate", k, versions, Newest)
    BY Where DEF Activate
  <1>3. PICK l : l = [k EXCEPT !.seen = "active"]
    OBVIOUS
  <1>4. l \in Locals /\ l.then = k.then /\ l.made = k.made
    BY <1>3 DEF Locals
  <1>5. Moves(p, "live", l) /\ "live" \in Labels
    BY <1>2, <1>3 DEF Activate, Moves, Labels
  <1>6. Placed("live", l, versions', Newest')
    BY <1>1, <1>2, <1>4 DEF Placed
  <1>7. Vacant("live", l, Newest')
    BY DEF Vacant
  <1> QED
    BY <1>1, <1>4, <1>5, <1>6, <1>7, StepKeeps DEF Activate

LEMMA LiveKeeps ==
  ASSUME Inv, NEW p \in Procs, Live(p)
  PROVE  Inv'
  <1>1. Version > 0 /\ Version \in Nat /\ Newest \in Nat
    BY Where, Counts DEF Live, Placed, Version, Inv
  <1>2. job' \in Job \cup {NoJob} /\ job'.version <= Version /\ job'.routine <= Newest
    <2>1. CASE job = NoJob
      BY <2>1 DEF Live, Inv, RowsOK
    <2>2. ASSUME NEW j \in Job, j = job, j # NoJob
          PROVE  job' \in Job /\ job'.version <= Version /\ job'.routine <= Newest
      <3>1. job' = [j EXCEPT !.status = "active", !.routine = Newest]
        BY <2>2 DEF Live
      <3>2. j.version <= Version /\ j.version \in Nat
        BY <2>2 DEF Inv, RowsOK, Job
      <3>3. job' = [status |-> "active", version |-> j.version, routine |-> Newest]
        BY <3>1 DEF Job
      <3>4. job' \in Job
        BY <1>1, <3>2, <3>3 DEF Job
      <3> QED
        BY <1>1, <3>2, <3>3, <3>4
    <2> QED
      BY <2>1, <2>2 DEF Inv, RowsOK
  <1>3. RowsOK' /\ Ready' /\ Grow
    BY <1>2, JobWritten DEF Live
  <1>4. AfterLive(p) \in {"done", "confirm", "start"}
    BY DEF AfterLive
  <1>5. {"done", "confirm", "start"} \subseteq Labels \ {"idle", "sync", "insert", "create"}
    BY DEF Labels
  <1> QED
    BY <1>1, <1>3, <1>4, <1>5, GoesOn DEF Live

\* A confirmation works with the newest version, or compiles one.
LEMMA ConfirmingKeeps ==
  ASSUME Inv, NEW p \in Procs, Confirming(p)
  PROVE  Inv'
  <1>1. /\ RowsOK' /\ Ready' /\ Grow
        /\ Version' = Version /\ Newest' = Newest /\ versions' = versions
    BY SameRows DEF Confirming, rows, Inv, RowsOK
  <1>2. PICK k \in Locals : k = mine[p] /\ Placed("confirm", k, versions, Newest)
    BY Where DEF Confirming
  <1>3. Version > 0 /\ Version \in Nat /\ k.made <= Newest /\ k.then = "idle"
    BY <1>2, Counts DEF Placed, Version, Inv
  <1>4. CASE Goto(p, "start") /\ UNCHANGED mine
    <2>1. "start" \in Labels
      BY DEF Labels
    <2> QED
      BY <1>1, <1>3, <1>4, <2>1, GoesOn DEF Confirming
  <1>5. ASSUME NEW label \in {"point", "number"}, NEW l \in Locals,
               l.then = k.then, l.made = k.made,
               label = "point" => l.version = Version,
               Remember(p, l), Goto(p, label)
        PROVE  Inv'
    <2>1. Moves(p, label, l) /\ label \in Labels
      BY <1>5 DEF Moves, Labels
    <2>2. Placed(label, l, versions', Newest')
      BY <1>1, <1>3, <1>5 DEF Placed, Version
    <2>3. Vacant(label, l, Newest')
      BY DEF Vacant
    <2> QED
      BY <1>1, <1>5, <2>1, <2>2, <2>3, StepKeeps DEF Confirming
  <1>6. CASE Remember(p, [mine[p] EXCEPT !.confirming = TRUE, !.version = Version])
             /\ Goto(p, "point")
    <2>1. PICK l : l = [k EXCEPT !.confirming = TRUE, !.version = Version]
      OBVIOUS
    <2>2. l \in Locals
      BY <1>3, <2>1 DEF Locals
    <2>3. l.then = k.then /\ l.made = k.made /\ l.version = Version
      BY <2>1 DEF Locals
    <2> QED
      BY <1>2, <1>5, <1>6, <2>1, <2>2, <2>3
  <1>7. ASSUME NEW def \in Defs, Goto(p, "number"),
               Remember(p, [mine[p] EXCEPT !.confirming = TRUE, !.watch = FALSE, !.def = def])
        PROVE  Inv'
    <2>1. PICK l : l = [k EXCEPT !.confirming = TRUE, !.watch = FALSE, !.def = def]
      OBVIOUS
    <2>2. l \in Locals /\ l.then = k.then /\ l.made = k.made
      BY <2>1 DEF Locals
    <2> QED
      BY <1>2, <1>5, <1>7, <2>1, <2>2
  <1> QED
    BY <1>4, <1>6, <1>7 DEF Confirming

\* A field of a routine is written; an id that no routine has changes nothing.
LEMMA FieldWritten ==
  ASSUME Inv, UNCHANGED <<lens, versions, job, queue>>, NEW i, NEW r,
         routines' = [routines EXCEPT ![i] = r],
         i \in 1..Newest => r \in Routine /\ r.pin <= Version
  PROVE  RowsOK' /\ Ready' /\ Grow /\ Version' = Version /\ Newest' = Newest
  <1>1. CASE i \in 1..Newest
    BY <1>1, RoutineWritten
  <1>2. CASE i \notin 1..Newest
    <2>1. DOMAIN routines = 1..Newest /\ routines = [k \in 1..Newest |-> routines[k]]
      BY LenProperties DEF Inv, RowsOK, Newest
    <2>2. routines' = routines
      BY <1>2, <2>1
    <2> QED
      BY <2>2, SameRows DEF Inv, RowsOK
  <1> QED
    BY <1>1, <1>2

\* Which routine is pinned does not matter; the version is there.
LEMMA PointKeeps ==
  ASSUME Inv, NEW p \in Procs, Point(p)
  PROVE  Inv'
  <1>1. mine[p].version \in 1..Version /\ Version \in Nat /\ Newest \in Nat
    BY Where, Counts DEF Point, Placed, Version, Inv
  <1>2. CASE Newest > 0
    <2>1. PICK i : routines' = [routines EXCEPT ![i].pin = mine[p].version]
      BY <1>2 DEF Point
    <2>2. PICK r : r = [routines[i] EXCEPT !.pin = mine[p].version]
      OBVIOUS
    <2>3. ASSUME i \in 1..Newest PROVE r \in Routine /\ r.pin <= Version
      <3>1. routines[i] \in Routine
        BY <2>3, RoutineOf
      <3> QED
        BY <1>1, <2>2, <3>1 DEF Routine
    <2>4. RowsOK' /\ Ready' /\ Grow
      BY <2>1, <2>2, <2>3, FieldWritten DEF Point
    <2>5. "ensure" \in Labels
      BY DEF Labels
    <2> QED
      BY <1>1, <1>2, <2>4, <2>5, GoesOn DEF Point
  <1>3. CASE ~ Newest > 0
    <2>1. KindOf(versions[mine[p].version]) \in {"event_triggered", "scheduled"}
      BY DEF KindOf
    <2>2. UNCHANGED <<rows, hist>> /\ pc[p] # "idle" /\ Newest = 0 /\ Version > 0
      BY <1>1, <1>3 DEF Point, rows
    <2> QED
      BY <1>1, <1>3, <2>1, <2>2, ToCreateKeeps DEF Point
  <1> QED
    BY <1>2, <1>3

LEMMA PauseJobKeeps ==
  ASSUME Inv, NEW p \in Procs, PauseJob(p)
  PROVE  Inv'
  <1>1. job' \in Job \cup {NoJob} /\ job'.version <= Version /\ job'.routine <= Newest
    <2>1. CASE job = NoJob
      BY <2>1 DEF PauseJob, Inv, RowsOK
    <2>2. ASSUME NEW j \in Job, j = job, j # NoJob
          PROVE  job' \in Job /\ job'.version <= Version /\ job'.routine <= Newest
      <3>1. job' = [j EXCEPT !.status = "paused"]
        BY <2>2 DEF PauseJob
      <3>2. j.version <= Version /\ j.routine <= Newest
        BY <2>2 DEF Inv, RowsOK
      <3> QED
        BY <3>1, <3>2 DEF Job
    <2> QED
      BY <2>1, <2>2 DEF Inv, RowsOK
  <1>2. RowsOK' /\ Ready' /\ Grow
    BY <1>1, JobWritten DEF PauseJob
  <1>3. "done" \in Labels
    BY DEF Labels
  <1> QED
    BY <1>2, <1>3, GoesOn DEF PauseJob

LEMMA FlipKeeps ==
  ASSUME Inv, NEW p \in Procs, Flip(p)
  PROVE  Inv'
  <1>1. PICK i : i = mine[p].made
    OBVIOUS
  <1>2. PICK paused \in BOOLEAN : paused = (~ mine[p].new.paused)
    OBVIOUS
  <1>3. PICK r : r = [routines[i] EXCEPT !.paused = paused]
    OBVIOUS
  <1>4. routines' = [routines EXCEPT ![i] = r]
    BY <1>1, <1>2, <1>3 DEF Flip
  <1>5. ASSUME i \in 1..Newest PROVE r \in Routine /\ r.pin <= Version
    <2>1. routines[i] \in Routine /\ routines[i].pin <= Version
      BY <1>5, RoutineOf
    <2> QED
      BY <1>3, <2>1 DEF Routine
  <1>6. RowsOK' /\ Ready' /\ Grow
    BY <1>4, <1>5, FieldWritten DEF Flip
  <1>7. "done" \in Labels
    BY DEF Labels
  <1> QED
    BY <1>6, <1>7, GoesOn DEF Flip

LEMMA FinishKeeps ==
  ASSUME Inv, NEW p \in Procs, Finish(p)
  PROVE  Inv'
  <1>1. RowsOK' /\ Ready' /\ Grow /\ Newest' = Newest /\ Newest \in Nat
    BY SameRows, Counts DEF Finish, rows, Inv, RowsOK
  <1>2. Moves(p, "idle", Blank) /\ "idle" \in Labels
    BY DEF Finish, Moves, Labels
  <1>3. Placed("idle", Blank, versions', Newest')
    BY <1>1, BlankOK DEF Placed
  <1>4. Advances(p)
    BY <1>1, <1>2, <1>3, BlankOK, MoveAdvances
  <1>5. mine[p].op \in Ops
    BY Where DEF Locals
  <1>6. Remembers(p)
    BY <1>5 DEF Finish, Remembers, Continues, Inv, HistoryOK
  <1> QED
    BY <1>4, <1>6, Kept

LEMMA DieKeeps ==
  ASSUME Inv, NEW p \in Procs, Die(p)
  PROVE  Inv'
  BY VanishAdvances, Kept DEF Die, rows

\* A run that is queued finds a version: a routine needs one to be there.
LEMMA QueueKeeps ==
  ASSUME Inv, CheckNow \/ Beat
  PROVE  Inv'
  <1>1. Version > 0 /\ queue' \in 0..MaxQueue
    BY WatchingAssumption, Counts DEF CheckNow, Beat, Inv, Ready, RowsOK
  <1>2. RowsOK' /\ Ready' /\ Version' = Version /\ Newest' = Newest
    BY <1>1, SameRows DEF CheckNow, Beat
  <1>3. UNCHANGED <<lens, versions, routines, job, pc, mine, hist>>
    BY DEF CheckNow, Beat
  <1> QED
    BY <1>2, <1>3 DEF Inv, Typed, HistoryOK, AllPlaced, AloneOK, OwnsItsVersion, hist, Busy

-----------------------------------------------------------------------------
(* The theorems *)

LEMMA NextInv == Inv /\ [Next]_vars => Inv'
  <1> SUFFICES ASSUME Inv, [Next]_vars PROVE Inv'
    OBVIOUS
  <1>1. CASE UNCHANGED vars
    BY <1>1 DEF vars, rows, hist, Inv, RowsOK, Typed, HistoryOK, Ready, AllPlaced, AloneOK,
                OwnsItsVersion, Busy, Version, Newest
  <1>2. CASE CheckNow \/ Beat
    BY <1>2, QueueKeeps
  <1>3. ASSUME NEW p \in Web, Request(p) PROVE Inv'
    BY <1>3, MessageKeeps, KeepKeeps, ConfirmKeeps, EditKeeps, PauseKeeps, ResumeKeeps,
       ToggleKeeps DEF Request, Procs
  <1>4. ASSUME NEW p \in Workers, Take(p) PROVE Inv'
    BY <1>4, TakeKeeps DEF Procs
  <1>5. ASSUME NEW p \in Procs, Step(p) PROVE Inv'
    BY <1>5, NumberKeeps, InsertKeeps, SyncKeeps, CreateKeeps, UpsertJobKeeps, NewJobKeeps,
       EnsureKeeps, ActivateKeeps, LiveKeeps, ConfirmingKeeps, PointKeeps, PauseJobKeeps,
       FlipKeeps, StartKeeps, FinishKeeps DEF Step
  <1>6. ASSUME NEW p \in Procs, Die(p) PROVE Inv'
    BY <1>6, DieKeeps
  <1> QED
    BY <1>1, <1>2, <1>3, <1>4, <1>5, <1>6 DEF Next

LEMMA Invariant == Spec => []Inv
  <1> QED
    BY InitInv, NextInv, PTL DEF Spec

\* Rows and local variables keep their types, and rows only name versions and
\* routines that exist, through any interleaving and any crash.
\* (attach_compiled_job, apply_compiled_edit, upsert_job, confirm)
THEOREM TypeCorrect == Spec => []TypeOK
  BY Invariant, InvTypeOK, PTL

\* However many requests and runs work on a Lens, the version that one of them
\* still works with is the one it wrote. (unique_together of LensVersion)
THEOREM VersionsAreOwned == Spec => []OwnsItsVersion
  <1>1. Inv => OwnsItsVersion
    BY DEF Inv
  <1> QED
    BY <1>1, Invariant, PTL

\* No request that had the Lens to itself ever creates a second routine,
\* whatever requests and crashes came before it.
\* (attach_compiled_job, _sync_routine, ensure_routine, confirm)
THEOREM RoutinesOnlyRace == Spec => SecondRoutineRaces
  <1>1. ASSUME Inv, Next, Newest > 0, Len(routines') > Newest
        PROVE  \E p \in Procs : pc[p] = "create" /\ p \notin alone
    <2>1. routines \in Seq(Routine) /\ Newest \in Nat
      BY <1>1, Counts DEF Inv, RowsOK
    <2>2. \A i, r : Len([routines EXCEPT ![i] = r]) = Newest
      BY <2>1 DEF Newest
    <2>3. routines' # routines /\ \A i, r : routines' # [routines EXCEPT ![i] = r]
      BY <1>1, <2>1, <2>2 DEF Newest
    <2>4. PICK p \in Procs : Create(p)
      <3>1. ~CheckNow /\ ~Beat
        BY <2>3 DEF CheckNow, Beat
      <3>2. ASSUME NEW p \in Web PROVE ~Request(p)
        <4>1. ~Message(p) /\ ~Keep(p) /\ ~Confirm(p)
          BY <2>3 DEF Message, Keep, Confirm, rows
        <4>2. ~EditIntent(p) /\ ~Pause(p) /\ ~Resume(p) /\ ~Toggle(p)
          BY <2>3 DEF EditIntent, Pause, Resume, Toggle, rows
        <4> QED BY <4>1, <4>2 DEF Request
      <3>3. ASSUME NEW p \in Procs PROVE ~Take(p) /\ ~Die(p)
        BY <2>3 DEF Take, Die, rows
      <3>4. ASSUME NEW p \in Procs, Step(p) PROVE Create(p)
        <4>1. ~Number(p) /\ ~Insert(p) /\ ~UpsertJob(p) /\ ~NewJob(p) /\ ~Finish(p)
          BY <2>3 DEF Number, Insert, UpsertJob, NewJob, Finish, rows
        <4>2. ~Sync(p) /\ ~Point(p) /\ ~Flip(p)
          BY <2>3 DEF Sync, SetKind, Point, Flip
        <4>3. ~Ensure(p) /\ ~Activate(p) /\ ~Live(p) /\ ~Confirming(p) /\ ~PauseJob(p) /\ ~Start(p)
          BY <2>3 DEF Ensure, Activate, Live, Confirming, PauseJob, Start, rows
        <4> QED BY <3>4, <4>1, <4>2, <4>3 DEF Step
      <3> QED BY <1>1, <3>1, <3>2, <3>3, <3>4 DEF Next, Procs
    <2>5. p \notin alone
      BY <1>1, <2>4 DEF Create, Inv, AloneOK, Vacant
    <2> QED
      BY <2>4, <2>5 DEF Create
  <1>2. Inv /\ [Next]_vars =>
          [Newest > 0 /\ Len(routines') > Newest =>
             \E p \in Procs : pc[p] = "create" /\ p \notin alone]_vars
    BY <1>1
  <1> QED
    BY <1>2, Invariant, PTL DEF Spec, SecondRoutineRaces

-----------------------------------------------------------------------------
(***************************************************************************)
(* For any number of processes, versions and requests, and with crashes:   *)
(* when all is quiet, the assignment and the newest routine agree with the *)
(* Lens from the first undisturbed request for a standing job on.          *)
(***************************************************************************)

KindAgrees == Standing => Newest > 0 /\ routines[Newest].kind = KindOf(Definition)
Written    == job # NoJob /\ job.version = Version
JobAgrees  == job.version = Version /\ job.routine = Newest
Agrees ==
  Version > 0 => JobAgrees /\ (job.status = "active" <=> lens = "active") /\ KindAgrees

\* Places on the way to a new assignment, those that have a version to work
\* with, and those on the way to watching.
ToJob(label, l) == label = "create" /\ l.then = "job"
Compiling(label, l) == label \in {"number", "insert", "sync", "job", "newjob"} \/ ToJob(label, l)
Numbered(label, l) == label \in {"sync", "job", "newjob", "point"} \/ ToJob(label, l)
Starting(label, l) ==
  label \in {"ensure", "activate", "live", "point"} \/ (label = "create" /\ l.then # "job")

\* What a process knows that has the Lens to itself, and either began when all
\* agreed or sets a standing job.
Knows(label, l) ==
  /\ Compiling(label, l) \/ label = "confirm" => l.seen = lens
  /\ label \in {"number", "insert", "sync", "create", "confirm"} \/ Starting(label, l) => l.made = 0
  /\ Starting(label, l) \/ label = "confirm" => l.attach = FALSE
  /\ Numbered(label, l) => l.version = Version
  /\ label = "create" => l.new.kind = KindOf(Definition)
  /\ label \in {"job", "newjob"} => l.made \in {0, Newest} /\ KindAgrees
  /\ Starting(label, l) => Written /\ (label # "create" => KindAgrees)
  /\ label = "live" => lens = "active" /\ l.seen = "active"
  /\ label \in {"confirm", "start", "toggle", "done"} => Agrees
  /\ label = "pausejob" => lens # "active" /\ (Version > 0 => JobAgrees /\ KindAgrees)

SetsJob(op) == op \in {"work", "keep"}
Trusted(p)  == p \in alone /\ (clean \/ SetsJob(mine[p].op))

CalmInv ==
  /\ clean => Busy \subseteq alone
  /\ clean /\ Busy = {} => Agrees
  /\ \A p \in Procs : Trusted(p) => Knows(pc[p], mine[p])

-----------------------------------------------------------------------------
(* What a step must do to keep it *)

\* A process that has the Lens to itself is the only busy one.
LEMMA OnlyOne ==
  ASSUME Inv, NEW p \in Procs, pc[p] # "idle"
  PROVE  alone \subseteq {p}
  BY DEF Inv, AloneOK, HistoryOK, Busy

LEMMA StepCalm ==
  ASSUME Inv, CalmInv, NEW p \in Procs, pc[p] # "idle", UNCHANGED hist,
         NEW label \in Labels, label # "idle", NEW l \in Locals, Moves(p, label, l),
         l.op = mine[p].op,
         Trusted(p) /\ Knows(pc[p], mine[p]) => Knows(label, l)'
  PROVE  CalmInv'
  <1>1. pc'[p] = label /\ mine'[p] = l /\ Others(p)
    BY MovesTo
  <1>2. Busy' = Busy /\ p \in Busy
    BY <1>1 DEF Others, Busy
  <1>3. ASSUME NEW q \in Procs, Trusted(q)' PROVE q = p /\ Trusted(p)
    BY <1>1, <1>3, OnlyOne DEF Trusted, hist
  <1>4. Trusted(p) => Knows(label, l)'
    BY DEF CalmInv
  <1> QED
    BY <1>1, <1>2, <1>3, <1>4 DEF CalmInv, hist

LEMMA MeetCalm ==
  ASSUME Inv, CalmInv, NEW p \in Procs, NEW op, Meet(p, op),
         NEW label \in Labels, label # "idle", NEW l \in Locals, Moves(p, label, l), l.op = op,
         (clean \/ SetsJob(op)) /\ (clean => Agrees) => Knows(label, l)'
  PROVE  CalmInv'
  <1>1. pc'[p] = label /\ mine'[p] = l /\ Others(p)
    BY MovesTo
  <1>2. CASE Busy = {}
    <2>1. alone' = {p} /\ clean' = clean /\ Busy' = {p}
      BY <1>1, <1>2 DEF Meet, Busy, Others, Inv, HistoryOK
    <2>2. Trusted(p)' => Knows(label, l)'
      BY <1>1, <1>2, <2>1 DEF Trusted, CalmInv
    <2>3. \A q \in Procs : Trusted(q)' => q = p
      BY <2>1 DEF Trusted
    <2> QED
      BY <1>1, <2>1, <2>2, <2>3 DEF CalmInv
  <1>3. CASE Busy # {}
    <2>1. alone' = {} /\ clean' = FALSE
      BY <1>3 DEF Meet
    <2> QED
      BY <2>1 DEF CalmInv, Trusted
  <1> QED
    BY <1>2, <1>3

\* What a process leaves behind that vanishes is nobody's to rely on.
LEMMA VanishCalm ==
  ASSUME Inv, NEW p \in Procs, pc[p] # "idle", Vanish(p)
  PROVE  CalmInv'
  <1>1. alone' = {} /\ clean' = FALSE
    BY OnlyOne DEF Vanish
  <1> QED
    BY <1>1 DEF CalmInv, Trusted

LEMMA SameAgreement ==
  ASSUME UNCHANGED <<lens, versions, routines, job>>
  PROVE  /\ Version' = Version /\ Newest' = Newest /\ Definition' = Definition
         /\ KindAgrees' = KindAgrees /\ Written' = Written /\ JobAgrees' = JobAgrees
         /\ Agrees' = Agrees
  BY DEF Version, Newest, Definition, KindAgrees, Standing, Written, JobAgrees, Agrees

\* The rows of versions and routines say what kind the routine should have.
LEMMA SameKinds ==
  ASSUME UNCHANGED <<versions, routines>>
  PROVE  /\ Version' = Version /\ Newest' = Newest /\ Definition' = Definition
         /\ KindAgrees' = KindAgrees
  BY DEF Version, Newest, Definition, KindAgrees, Standing

LEMMA AgreesIsWritten == Agrees /\ Version > 0 => Written /\ KindAgrees /\ JobAgrees
  BY DEF Agrees, JobAgrees, Written, NoJob

LEMMA LoadIs ==
  ASSUME Inv, NEW op \in Ops, NEW def \in Defs
  PROVE  /\ Load(op, def) \in Locals /\ Load(op, def).op = op /\ Load(op, def).def = def
         /\ Load(op, def).seen = lens /\ Load(op, def).version = Version
         /\ Load(op, def).made = 0 /\ Load(op, def).attach = FALSE
         /\ Load(op, def).then = "idle"
  BY BlankOK, Counts DEF Inv, RowsOK, Load, Locals, Blank

LEMMA SentIs ==
  ASSUME NEW op \in Ops
  PROVE  /\ Sent(op) \in Locals /\ Sent(op).op = op
         /\ Sent(op).made = 0 /\ Sent(op).attach = FALSE
  BY BlankOK DEF Sent, Locals, Blank

-----------------------------------------------------------------------------
(* Requests *)

\* What begins with a message to compile has read the status.
LEMMA NumberIsKnown ==
  ASSUME NEW l, l.seen = lens', l.made = 0
  PROVE  Knows("number", l)'
  BY DEF Knows, Compiling, Numbered, Starting, ToJob

LEMMA MessageCalm ==
  ASSUME Inv, CalmInv, NEW p \in Procs, Message(p)
  PROVE  CalmInv'
  <1>1. PICK def \in Defs :
          /\ Meet(p, IF Persistent(def) THEN "work" ELSE "ask")
          /\ \/ /\ ~ Persistent(def)
                /\ Remember(p, Sent("ask"))
                /\ Goto(p, "start")
             \/ /\ Remember(p, IF Persistent(def) THEN [Load("work", def) EXCEPT !.watch = TRUE]
                               ELSE Load("ask", def))
                /\ Goto(p, "number")
          /\ UNCHANGED rows
    BY DEF Message
  <1>2. CASE ~ Persistent(def) /\ Remember(p, Sent("ask")) /\ Goto(p, "start")
    <2>1. Moves(p, "start", Sent("ask")) /\ "ask" \in Ops /\ "start" \in Labels
      BY <1>2 DEF Moves, Ops, Labels
    <2>2. Meet(p, "ask") /\ ~ SetsJob("ask")
      BY <1>1, <1>2 DEF SetsJob
    <2>3. Agrees' = Agrees
      BY <1>1, SameAgreement DEF rows
    <2>4. Agrees => Knows("start", Sent("ask"))'
      BY <2>3 DEF Knows, Compiling, Numbered, Starting, ToJob
    <2> QED
      BY <2>1, <2>2, <2>4, SentIs, MeetCalm
  <1>3. ASSUME NEW op \in {"work", "ask"}, NEW watch \in BOOLEAN, Meet(p, op),
               Remember(p, [Load(op, def) EXCEPT !.watch = watch]), Goto(p, "number")
        PROVE  CalmInv'
    <2>1. op \in Ops
      BY DEF Ops
    <2>2. PICK b \in Locals : b = Load(op, def) /\ b.op = op /\ b.seen = lens /\ b.made = 0
      BY <2>1, LoadIs
    <2>3. PICK l : l = [b EXCEPT !.watch = watch]
      OBVIOUS
    <2>4. l \in Locals /\ l.op = op /\ l.seen = lens /\ l.made = 0
      BY <2>2, <2>3 DEF Locals
    <2>5. Moves(p, "number", l) /\ "number" \in Labels
      BY <1>3, <2>2, <2>3 DEF Moves, Labels
    <2>6. lens' = lens
      BY <1>1 DEF rows
    <2> QED
      BY <1>3, <2>4, <2>5, <2>6, NumberIsKnown, MeetCalm
  <1>4. [Load("ask", def) EXCEPT !.watch = FALSE] = Load("ask", def)
    BY BlankOK DEF Load, Blank, Locals
  <1> QED
    BY <1>1, <1>2, <1>3, <1>4

LEMMA KeepCalm ==
  ASSUME Inv, CalmInv, NEW p \in Procs, Keep(p)
  PROVE  CalmInv'
  <1>1. PICK def \in Defs :
          /\ Meet(p, "keep")
          /\ Remember(p, [Load("keep", def) EXCEPT !.watch = TRUE])
          /\ Goto(p, "number")
          /\ UNCHANGED rows
    BY DEF Keep
  <1>2. PICK b \in Locals : b = Load("keep", def) /\ b.op = "keep" /\ b.seen = lens /\ b.made = 0
    <2>1. "keep" \in Ops
      BY DEF Ops
    <2> QED
      BY <2>1, LoadIs
  <1>3. PICK l : l = [b EXCEPT !.watch = TRUE]
    OBVIOUS
  <1>4. l \in Locals /\ l.op = "keep" /\ l.seen = lens /\ l.made = 0
    BY <1>2, <1>3 DEF Locals
  <1>5. Moves(p, "number", l) /\ "number" \in Labels
    BY <1>1, <1>2, <1>3 DEF Moves, Labels
  <1>6. lens' = lens
    BY <1>1 DEF rows
  <1> QED
    BY <1>1, <1>4, <1>5, <1>6, NumberIsKnown, MeetCalm

LEMMA ConfirmCalm ==
  ASSUME Inv, CalmInv, NEW p \in Procs, Confirm(p)
  PROVE  CalmInv'
  <1>1. Blank.def \in Defs /\ "confirm" \in Ops /\ "confirm" \in Labels /\ ~ SetsJob("confirm")
    BY BlankOK DEF Locals, Ops, Labels, SetsJob
  <1>2. PICK l \in Locals :
          /\ l = Load("confirm", Blank.def)
          /\ l.op = "confirm" /\ l.seen = lens /\ l.made = 0 /\ l.attach = FALSE
    BY <1>1, LoadIs
  <1>3. Moves(p, "confirm", l)
    BY <1>2 DEF Confirm, Moves
  <1>4. Agrees' = Agrees /\ lens' = lens
    BY SameAgreement DEF Confirm, rows
  <1>5. Agrees => Knows("confirm", l)'
    BY <1>2, <1>4 DEF Knows, Compiling, Numbered, Starting, ToJob
  <1> QED
    BY <1>1, <1>2, <1>3, <1>5, MeetCalm DEF Confirm

LEMMA EditCalm ==
  ASSUME Inv, CalmInv, NEW p \in Procs, EditIntent(p)
  PROVE  CalmInv'
  <1>1. PICK def \in Defs : Remember(p, Load("edit", def))
    BY DEF EditIntent
  <1>2. "edit" \in Ops /\ "number" \in Labels
    BY DEF Ops, Labels
  <1>3. PICK l \in Locals :
          l = Load("edit", def) /\ l.op = "edit" /\ l.seen = lens /\ l.made = 0
    BY <1>2, LoadIs
  <1>4. Moves(p, "number", l) /\ lens' = lens
    BY <1>1, <1>3 DEF EditIntent, Moves, rows
  <1> QED
    BY <1>2, <1>3, <1>4, NumberIsKnown, MeetCalm DEF EditIntent

LEMMA PauseCalm ==
  ASSUME Inv, CalmInv, NEW p \in Procs, Pause(p)
  PROVE  CalmInv'
  <1>1. "pause" \in Ops /\ "pausejob" \in Labels /\ ~ SetsJob("pause")
    BY DEF Ops, Labels, SetsJob
  <1>2. Moves(p, "pausejob", Sent("pause")) /\ lens' # "active"
    BY DEF Pause, Moves
  <1>3. Version' = Version /\ KindAgrees' = KindAgrees /\ JobAgrees' = JobAgrees
    BY SameKinds DEF Pause, JobAgrees
  <1>4. Agrees => Knows("pausejob", Sent("pause"))'
    BY <1>2, <1>3 DEF Knows, Compiling, Numbered, Starting, ToJob, Agrees
  <1> QED
    BY <1>1, <1>2, <1>4, SentIs, MeetCalm DEF Pause

LEMMA ResumeCalm ==
  ASSUME Inv, CalmInv, NEW p \in Procs, Resume(p)
  PROVE  CalmInv'
  <1>1. "resume" \in Ops /\ "ensure" \in Labels /\ ~ SetsJob("resume")
    BY DEF Ops, Labels, SetsJob
  <1>2. Moves(p, "ensure", Sent("resume"))
    BY DEF Resume, Moves
  <1>3. Written' = Written /\ KindAgrees' = KindAgrees
    BY SameAgreement DEF Resume, rows
  <1>4. Agrees => Written /\ KindAgrees
    BY AgreesIsWritten DEF Resume
  <1>5. PICK l \in Locals : l = Sent("resume") /\ l.op = "resume" /\ l.made = 0 /\ l.attach = FALSE
    BY <1>1, SentIs
  <1>6. Agrees => Knows("ensure", l)'
    BY <1>3, <1>4, <1>5 DEF Knows, Compiling, Numbered, Starting, ToJob
  <1> QED
    BY <1>1, <1>2, <1>5, <1>6, MeetCalm DEF Resume

LEMMA ToggleCalm ==
  ASSUME Inv, CalmInv, NEW p \in Procs, Toggle(p)
  PROVE  CalmInv'
  <1>1. "toggle" \in Ops /\ "toggle" \in Labels /\ ~ SetsJob("toggle")
    BY DEF Ops, Labels, SetsJob
  <1>2. PICK i \in 1..Newest :
          Remember(p, [Sent("toggle") EXCEPT !.made = i, !.new.paused = routines[i].paused])
    BY DEF Toggle
  <1>3. PICK b \in Locals : b = Sent("toggle") /\ b.op = "toggle"
    BY <1>1, SentIs
  <1>4. PICK paused \in BOOLEAN : paused = routines[i].paused
    BY RoutineOf DEF Routine
  <1>5. PICK l : l = [b EXCEPT !.made = i, !.new.paused = paused]
    OBVIOUS
  <1>6. l \in Locals /\ l.op = "toggle"
    <2>1. i \in Nat
      BY Counts DEF Inv
    <2> QED
      BY <1>3, <1>5, <2>1 DEF Locals, Routine
  <1>7. Moves(p, "toggle", l)
    BY <1>2, <1>3, <1>4, <1>5 DEF Toggle, Moves
  <1>8. Agrees' = Agrees
    BY SameAgreement DEF Toggle, rows
  <1>9. Agrees => Knows("toggle", l)'
    BY <1>8 DEF Knows, Compiling, Numbered, Starting, ToJob
  <1> QED
    BY <1>1, <1>6, <1>7, <1>9, MeetCalm DEF Toggle

\* A run has read the status, the newest version and no routine.
LEMMA JobIsKnown ==
  ASSUME NEW l, l.seen = lens', l.made = 0, l.version = Version', KindAgrees'
  PROVE  Knows("job", l)'
  BY DEF Knows, Compiling, Numbered, Starting, ToJob

LEMMA TakeCalm ==
  ASSUME Inv, CalmInv, NEW p \in Procs, Take(p)
  PROVE  CalmInv'
  <1>1. Blank.def \in Defs /\ "run" \in Ops /\ "job" \in Labels /\ ~ SetsJob("run")
    BY BlankOK DEF Locals, Ops, Labels, SetsJob
  <1>2. PICK b \in Locals :
          /\ b = Load("run", Blank.def)
          /\ b.op = "run" /\ b.seen = lens /\ b.made = 0 /\ b.version = Version
    BY <1>1, LoadIs
  <1>3. PICK l : l = [b EXCEPT !.running = TRUE]
    OBVIOUS
  <1>4. l \in Locals /\ l.op = "run" /\ l.seen = lens /\ l.made = 0 /\ l.version = Version
    BY <1>2, <1>3 DEF Locals
  <1>5. Moves(p, "job", l)
    BY <1>2, <1>3 DEF Take, Moves
  <1>6. lens' = lens /\ Version' = Version /\ KindAgrees' = KindAgrees
    BY SameKinds DEF Take
  <1>7. Agrees => KindAgrees
    BY AgreesIsWritten, Counts DEF Inv, KindAgrees, Standing
  <1>8. Agrees => Knows("job", l)'
    BY <1>4, <1>6, <1>7, JobIsKnown
  <1> QED
    BY <1>1, <1>4, <1>5, <1>8, MeetCalm DEF Take

-----------------------------------------------------------------------------
(* Steps *)

LEMMA StartCalm ==
  ASSUME Inv, CalmInv, NEW p \in Procs, Start(p)
  PROVE  CalmInv'
  <1>1. mine[p].op \in Ops /\ Blank.def \in Defs /\ "job" \in Labels
    BY BlankOK, Where DEF Locals, Labels
  <1>2. PICK b \in Locals :
          /\ b = Load(mine[p].op, Blank.def)
          /\ b.op = mine[p].op /\ b.seen = lens /\ b.made = 0 /\ b.version = Version
    BY <1>1, LoadIs
  <1>3. PICK l : l = [b EXCEPT !.running = TRUE]
    OBVIOUS
  <1>4. l \in Locals /\ l.op = b.op /\ l.seen = lens /\ l.made = 0 /\ l.version = Version
    BY <1>2, <1>3 DEF Locals
  <1>5. Moves(p, "job", l)
    BY <1>2, <1>3 DEF Start, Moves
  <1>6. lens' = lens /\ Version' = Version /\ KindAgrees' = KindAgrees
    BY SameKinds DEF Start, rows
  <1>7. Agrees => KindAgrees
    BY AgreesIsWritten, Counts DEF Inv, KindAgrees, Standing
  <1>8. Knows(pc[p], mine[p]) => Knows("job", l)'
    BY <1>4, <1>6, <1>7, JobIsKnown DEF Start, Knows
  <1> QED
    BY <1>1, <1>2, <1>4, <1>5, <1>8, StepCalm DEF Start

LEMMA NumberCalm ==
  ASSUME Inv, CalmInv, NEW p \in Procs, Number(p)
  PROVE  CalmInv'
  <1>1. PICK k \in Locals : k = mine[p]
    BY Where
  <1>2. PICK attach \in BOOLEAN : attach = (Version = 0)
    OBVIOUS
  <1>3. PICK watch \in BOOLEAN : watch = (k.watch /\ (k.version > 0 \/ Version = 0))
    OBVIOUS
  <1>4. PICK number \in Nat : number = Version + 1
    BY Counts DEF Inv
  <1>5. PICK l : l = [k EXCEPT !.attach = attach, !.watch = watch, !.version = number]
    OBVIOUS
  <1>6. l \in Locals
    BY <1>5 DEF Locals
  <1>7. l.op = k.op /\ l.seen = k.seen /\ l.made = k.made
    BY <1>5 DEF Locals
  <1>8. Moves(p, "insert", l) /\ "insert" \in Labels /\ lens' = lens
    BY <1>1, <1>2, <1>3, <1>4, <1>5 DEF Number, Moves, Labels, rows
  <1>9. Knows("number", k) => Knows("insert", l)'
    BY <1>7, <1>8 DEF Knows, Compiling, Numbered, Starting, ToJob
  <1> QED
    BY <1>1, <1>6, <1>7, <1>8, <1>9, StepCalm DEF Number

LEMMA InsertCalm ==
  ASSUME Inv, CalmInv, NEW p \in Procs, Insert(p)
  PROVE  CalmInv'
  <1>1. PICK l \in Locals : l = mine[p]
    BY Where
  <1>2. CASE l.version = Version + 1
    <2>1. Version' = Version + 1 /\ lens' = lens
      BY <1>1, <1>2, VersionWritten DEF Insert, Locals
    <2>2. Moves(p, "sync", l) /\ "sync" \in Labels
      BY <1>1, <1>2 DEF Insert, Moves, Labels
    <2>3. Knows("insert", l) => Knows("sync", l)'
      BY <1>2, <2>1 DEF Knows, Compiling, Numbered, Starting, ToJob
    <2> QED
      BY <1>1, <1>2, <2>2, <2>3, StepCalm DEF Insert
  <1>3. CASE l.version # Version + 1
    BY <1>1, <1>3, VanishCalm DEF Insert
  <1> QED
    BY <1>2, <1>3
LEMMA ToCreateCalm ==
  ASSUME Inv, CalmInv, NEW p \in Procs, pc[p] # "idle", UNCHANGED <<rows, hist>>,
         NEW kind \in {"event_triggered", "scheduled"}, NEW pin \in Nat,
         NEW then \in {"job", "ensure", "activate"}, ToCreate(p, kind, pin, then),
         Knows(pc[p], mine[p]) =>
           /\ kind = KindOf(Definition) /\ mine[p].made = 0
           /\ then = "job" => mine[p].seen = lens /\ mine[p].version = Version
           /\ then # "job" => mine[p].attach = FALSE /\ Written
  PROVE  CalmInv'
  <1>1. PICK k \in Locals : k = mine[p]
    BY Where
  <1>2. PICK l : l = [k EXCEPT !.new = Fresh(kind, pin), !.then = then]
    OBVIOUS
  <1>3. l \in Locals
    BY <1>2 DEF Locals, Fresh, Routine, Labels
  <1>4. /\ l.op = k.op /\ l.then = then /\ l.new.kind = kind /\ l.made = k.made
        /\ l.version = k.version /\ l.seen = k.seen /\ l.attach = k.attach
    BY <1>2 DEF Locals, Fresh
  <1>5. Moves(p, "create", l) /\ "create" \in Labels
    BY <1>1, <1>2 DEF ToCreate, Moves, Labels
  <1>6. lens' = lens /\ Version' = Version /\ Definition' = Definition /\ Written' = Written
    BY SameAgreement DEF rows
  <1>7. Knows(pc[p], k) => Knows("create", l)'
    BY <1>1, <1>4, <1>6 DEF Knows, Compiling, Numbered, Starting, ToJob
  <1> QED
    BY <1>1, <1>3, <1>4, <1>5, <1>7, StepCalm

\* The routine that is there takes the kind of the newest version.
LEMMA SyncCalm ==
  ASSUME Inv, CalmInv, NEW p \in Procs, Sync(p)
  PROVE  CalmInv'
  <1>1. pc[p] = "sync" /\ UNCHANGED <<lens, versions, job, queue, hist>> /\ "job" \in Labels
    BY DEF Sync, Labels
  <1>2. PICK k \in Locals : k = mine[p] /\ Placed("sync", k, versions, Newest)
    BY <1>1, Where
  <1>3. k.version \in 1..Version /\ versions[k.version] = k.def
    BY <1>2 DEF Placed, Version
  <1>4. Version \in Nat /\ Newest \in Nat /\ routines \in Seq(Routine)
    BY Counts DEF Inv, RowsOK
  <1>5. ASSUME Knows("sync", k)
        PROVE  k.seen = lens /\ k.made = 0 /\ k.version = Version /\ k.def = Definition
    BY <1>3, <1>5 DEF Knows, Compiling, Numbered, Definition
  <1>6. Version' = Version /\ Definition' = Definition /\ lens' = lens /\ Standing' = Standing
    BY <1>1 DEF Version, Definition, Standing
  <1>7. CASE ToCreate(p, KindOf(k.def), IF k.attach THEN k.version ELSE 0, "job")
             /\ UNCHANGED routines
    <2>1. PICK pin \in Nat : pin = IF k.attach THEN k.version ELSE 0
      BY <1>3
    <2>2. KindOf(k.def) \in {"event_triggered", "scheduled"}
      BY DEF KindOf
    <2>3. UNCHANGED <<rows, hist>>
      BY <1>1, <1>7 DEF rows
    <2> QED
      BY <1>1, <1>2, <1>5, <1>7, <2>1, <2>2, <2>3, ToCreateCalm
  <1>8. ASSUME Goto(p, "job"), UNCHANGED mine,
               Knows("sync", k) => KindAgrees'
        PROVE  CalmInv'
    <2>1. Moves(p, "job", k)
      BY <1>2, <1>8 DEF Moves
    <2>2. Knows("sync", k) => Knows("job", k)'
      BY <1>5, <1>6, <1>8, JobIsKnown
    <2> QED
      BY <1>1, <1>2, <2>1, <2>2, StepCalm
  <1>9. ASSUME NEW kind, kind = IF Persistent(k.def) THEN KindOf(k.def) ELSE "manual",
               Newest > 0, SetKind(kind), Knows("sync", k)
        PROVE  KindAgrees'
    <2>1. PICK r \in Routine : r = routines[Newest]
      BY <1>4, <1>9, RoutineOf
    <2>2. PICK t : t = [r EXCEPT !.kind = kind]
      OBVIOUS
    <2>3. t \in Routine /\ t.kind = kind
      BY <1>9, <2>2 DEF Routine, KindOf
    <2>4. routines' = [routines EXCEPT ![Newest] = t]
      BY <1>9, <2>1, <2>2 DEF SetKind
    <2>5. Newest \in 1..Len(routines)
      BY <1>4, <1>9 DEF Newest
    <2>6. Len(routines') = Len(routines) /\ routines'[Newest] = t
      BY <1>4, <2>3, <2>4, <2>5, ExceptSeq
    <2>7. Newest' = Newest
      BY <2>6 DEF Newest
    <2>8. Standing' => kind = KindOf(Definition')
      BY <1>5, <1>6, <1>9 DEF Standing
    <2> QED
      BY <1>9, <2>3, <2>6, <2>7, <2>8 DEF KindAgrees
  <1>10. ASSUME ~ Persistent(k.def), UNCHANGED routines, Knows("sync", k)
         PROVE  KindAgrees'
    BY <1>5, <1>6, <1>10 DEF KindAgrees, Standing
  <1> QED
    BY <1>2, <1>7, <1>8, <1>9, <1>10 DEF Sync

\* The first routine is of the kind of the newest version.
LEMMA CreateCalm ==
  ASSUME Inv, CalmInv, NEW p \in Procs, Create(p)
  PROVE  CalmInv'
  <1>1. Version \in Nat /\ Newest \in Nat /\ routines \in Seq(Routine)
    BY Counts DEF Inv, RowsOK
  <1>2. PICK k \in Locals : k = mine[p] /\ Placed("create", k, versions, Newest)
    BY Where DEF Create
  <1>3. k.then \in {"job", "ensure", "activate"} /\ k.new \in Routine
    BY <1>2 DEF Placed, Locals
  <1>4. PICK made \in Nat : made = IF k.attach THEN Newest + 1 ELSE 0
    BY <1>1
  <1>5. PICK l : l = [k EXCEPT !.new = Blank.new, !.then = "idle", !.made = made]
    OBVIOUS
  <1>6. l \in Locals
    BY <1>5, BlankOK DEF Locals, Labels
  <1>7. /\ l.op = k.op /\ l.seen = k.seen /\ l.made = made /\ l.version = k.version
        /\ l.attach = k.attach
    BY <1>5 DEF Locals
  <1>8. Moves(p, k.then, l) /\ k.then \in Labels
    BY <1>2, <1>3, <1>4, <1>5 DEF Create, Moves, Labels
  <1>9. Newest' = Newest + 1 /\ routines'[Newest + 1] = k.new
    BY <1>1, <1>2, <1>3, AppendProperties DEF Create, Newest
  <1>10. /\ Version' = Version /\ Definition' = Definition /\ lens' = lens /\ Written' = Written
    BY DEF Create, Version, Definition, Written
  <1>11. Knows("create", k) => KindAgrees'
    BY <1>1, <1>9, <1>10 DEF Knows, KindAgrees
  <1>12. Knows("create", k) /\ k.then = "job" => Knows("job", l)'
    <2>1. ASSUME Knows("create", k), k.then = "job"
          PROVE  l.seen = lens' /\ l.version = Version'
      BY <1>7, <1>10, <2>1 DEF Knows, Compiling, Numbered, ToJob
    <2>2. l.made \in {0, Newest + 1}
      BY <1>4, <1>7
    <2> QED
      BY <1>9, <1>11, <2>1, <2>2 DEF Knows, Compiling, Numbered, Starting, ToJob
  <1>13. ASSUME NEW label \in {"ensure", "activate"}, k.then = label, Knows("create", k)
         PROVE  Knows(label, l)'
    <2>1. l.attach = FALSE /\ l.made = 0 /\ Written'
      BY <1>4, <1>7, <1>10, <1>13 DEF Knows, Starting
    <2> QED
      BY <1>11, <1>13, <2>1 DEF Knows, Compiling, Numbered, Starting, ToJob
  <1>14. Knows("create", k) => Knows(k.then, l)'
    BY <1>3, <1>12, <1>13
  <1>15. k.then # "idle"
    BY <1>3
  <1> QED
    BY <1>2, <1>6, <1>7, <1>8, <1>14, <1>15, StepCalm DEF Create
\* The assignment takes the version the process works with, the newest routine
\* and the status it read: for whoever is alone these are those of the Lens.
LEMMA AssignCalm ==
  ASSUME Inv, CalmInv, NEW p \in Procs, pc[p] \in {"job", "newjob"},
         Assign(p), Goto(p, AfterJob(p)), Forget(p),
         UNCHANGED <<lens, versions, routines, queue, hist>>
  PROVE  CalmInv'
  <1>1. PICK k \in Locals : k = mine[p] /\ Placed(pc[p], k, versions, Newest)
    BY Where
  <1>2. k.version \in 1..Version /\ Version \in Nat /\ Newest \in Nat
    BY <1>1, Counts DEF Placed, Version, Inv
  <1>3. PICK l : l = [Blank EXCEPT !.op = k.op, !.seen = k.seen,
                        !.version = k.version, !.confirming = k.confirming]
    OBVIOUS
  <1>4. l \in Locals
    BY <1>3, BlankOK DEF Locals
  <1>5. /\ l.op = k.op /\ l.seen = k.seen /\ l.version = k.version
        /\ l.made = 0 /\ l.attach = FALSE
    BY <1>3 DEF Blank
  <1>6. PICK label \in {"done", "point", "ensure", "confirm", "start"} : label = AfterJob(p)
    BY DEF AfterJob
  <1>7. Moves(p, label, l) /\ label \in Labels
    BY <1>1, <1>3, <1>6 DEF Forget, Moves, Labels
  <1>8. Version' = Version /\ Newest' = Newest /\ KindAgrees' = KindAgrees /\ lens' = lens
    BY SameKinds
  <1>9. ASSUME Knows(pc[p], k) PROVE Knows(label, l)'
    <2>1. k.seen = lens /\ k.version = Version /\ k.made \in {0, Newest} /\ KindAgrees
      BY <1>9 DEF Knows, Compiling, Numbered
    <2>2. job' = [status  |-> IF k.seen = "active" THEN "active" ELSE "draft",
                  version |-> k.version, routine |-> Newest]
      BY <1>1, <1>2, <2>1 DEF Assign
    <2>3. /\ job'.version = Version' /\ job'.routine = Newest'
          /\ job'.status = "active" <=> lens' = "active"
      BY <1>8, <2>1, <2>2
    <2>4. Agrees'
      BY <1>8, <2>1, <2>3 DEF Agrees, JobAgrees
    <2>5. Written' /\ KindAgrees'
      BY <1>2, <1>8, <2>1, <2>3 DEF Written, NoJob
    <2> QED
      BY <1>5, <1>8, <2>1, <2>4, <2>5 DEF Knows, Compiling, Numbered, Starting, ToJob
  <1> QED
    BY <1>1, <1>4, <1>5, <1>6, <1>7, <1>9, StepCalm

LEMMA UpsertJobCalm ==
  ASSUME Inv, CalmInv, NEW p \in Procs, UpsertJob(p)
  PROVE  CalmInv'
  <1>1. CASE job = NoJob
    <2>1. PICK k \in Locals : k = mine[p]
      BY Where
    <2>2. Moves(p, "newjob", k) /\ "newjob" \in Labels
      BY <1>1, <2>1 DEF UpsertJob, Moves, Labels
    <2>3. lens' = lens /\ Version' = Version /\ Newest' = Newest /\ KindAgrees' = KindAgrees
      BY SameKinds DEF UpsertJob
    <2>4. Knows("job", k) => Knows("newjob", k)'
      BY <2>3 DEF Knows, Compiling, Numbered, Starting, ToJob
    <2> QED
      BY <2>1, <2>2, <2>4, StepCalm DEF UpsertJob
  <1> QED
    BY <1>1, AssignCalm DEF UpsertJob

LEMMA NewJobCalm ==
  ASSUME Inv, CalmInv, NEW p \in Procs, NewJob(p)
  PROVE  CalmInv'
  BY AssignCalm, VanishCalm DEF NewJob

LEMMA EnsureCalm ==
  ASSUME Inv, CalmInv, NEW p \in Procs, Ensure(p)
  PROVE  CalmInv'
  <1>1. PICK k \in Locals : k = mine[p]
    BY Where
  <1>2. Version \in Nat
    BY Counts DEF Inv
  <1>3. CASE Newest = 0 /\ Standing
    <2>1. KindOf(Definition) \in {"event_triggered", "scheduled"}
      BY DEF KindOf
    <2>2. Knows("ensure", k) => k.made = 0 /\ k.attach = FALSE /\ Written
      BY DEF Knows, Starting
    <2> QED
      BY <1>1, <1>2, <1>3, <2>1, <2>2, ToCreateCalm DEF Ensure
  <1>4. CASE ~ (Newest = 0 /\ Standing)
    <2>1. Moves(p, "activate", k) /\ "activate" \in Labels
      BY <1>1, <1>4 DEF Ensure, Moves, Labels
    <2>2. Written' = Written /\ KindAgrees' = KindAgrees
      BY SameAgreement DEF Ensure, rows
    <2>3. Knows("ensure", k) => Knows("activate", k)'
      BY <2>2 DEF Knows, Compiling, Numbered, Starting, ToJob
    <2> QED
      BY <1>1, <2>1, <2>3, StepCalm DEF Ensure
  <1> QED
    BY <1>3, <1>4

LEMMA ActivateCalm ==
  ASSUME Inv, CalmInv, NEW p \in Procs, Activate(p)
  PROVE  CalmInv'
  <1>1. PICK k \in Locals : k = mine[p]
    BY Where
  <1>2. PICK l : l = [k EXCEPT !.seen = "active"]
    OBVIOUS
  <1>3. /\ l \in Locals /\ l.op = k.op /\ l.seen = "active" /\ l.made = k.made
        /\ l.attach = k.attach
    BY <1>2 DEF Locals
  <1>4. Moves(p, "live", l) /\ "live" \in Labels /\ lens' = "active"
    BY <1>1, <1>2 DEF Activate, Moves, Labels
  <1>5. Written' = Written /\ KindAgrees' = KindAgrees
    BY SameKinds DEF Activate, Written
  <1>6. Knows("activate", k) => Knows("live", l)'
    BY <1>3, <1>4, <1>5 DEF Knows, Compiling, Numbered, Starting, ToJob
  <1> QED
    BY <1>1, <1>3, <1>4, <1>6, StepCalm DEF Activate

LEMMA LiveCalm ==
  ASSUME Inv, CalmInv, NEW p \in Procs, Live(p)
  PROVE  CalmInv'
  <1>1. PICK k \in Locals : k = mine[p]
    BY Where
  <1>2. PICK label \in {"done", "confirm", "start"} : label = AfterLive(p)
    BY DEF AfterLive
  <1>3. Moves(p, label, k) /\ label \in Labels
    BY <1>1, <1>2 DEF Live, Moves, Labels
  <1>4. Version' = Version /\ Newest' = Newest /\ KindAgrees' = KindAgrees /\ lens' = lens
    BY SameKinds DEF Live
  <1>5. ASSUME Knows("live", k) PROVE Knows(label, k)'
    <2>1. /\ k.made = 0 /\ k.attach = FALSE /\ k.seen = lens /\ lens = "active"
          /\ Written /\ KindAgrees
      BY <1>5 DEF Knows, Starting
    <2>2. PICK j \in Job : j = job /\ j # NoJob /\ j.version = Version
      BY <2>1 DEF Inv, RowsOK, Written
    <2>3. job' = [j EXCEPT !.status = "active", !.routine = Newest]
      BY <2>2 DEF Live
    <2>4. job'.status = "active" /\ job'.version = Version /\ job'.routine = Newest
      BY <2>2, <2>3 DEF Job
    <2>5. Agrees'
      BY <1>4, <2>1, <2>4 DEF Agrees, JobAgrees
    <2> QED
      BY <1>4, <2>1, <2>5 DEF Knows, Compiling, Numbered, Starting, ToJob
  <1> QED
    BY <1>1, <1>2, <1>3, <1>5, StepCalm DEF Live
LEMMA ConfirmingCalm ==
  ASSUME Inv, CalmInv, NEW p \in Procs, Confirming(p)
  PROVE  CalmInv'
  <1>1. PICK k \in Locals : k = mine[p] /\ Placed("confirm", k, versions, Newest)
    BY Where DEF Confirming
  <1>2. Version > 0 /\ Version \in Nat /\ {"start", "point", "number"} \subseteq Labels
    BY <1>1, Counts DEF Placed, Version, Inv, Labels
  <1>3. /\ lens' = lens /\ Version' = Version /\ Written' = Written
        /\ KindAgrees' = KindAgrees /\ Agrees' = Agrees
    BY SameAgreement DEF Confirming, rows
  <1>4. CASE Goto(p, "start") /\ UNCHANGED mine
    <2>1. Moves(p, "start", k)
      BY <1>1, <1>4 DEF Moves
    <2>2. Knows("confirm", k) => Knows("start", k)'
      BY <1>3 DEF Knows, Compiling, Numbered, Starting, ToJob
    <2> QED
      BY <1>1, <1>2, <2>1, <2>2, StepCalm DEF Confirming
  <1>5. CASE Remember(p, [mine[p] EXCEPT !.confirming = TRUE, !.version = Version])
             /\ Goto(p, "point")
    <2>1. PICK l : l = [k EXCEPT !.confirming = TRUE, !.version = Version]
      OBVIOUS
    <2>2. l \in Locals
      BY <1>2, <2>1 DEF Locals
    <2>3. l.op = k.op /\ l.made = k.made /\ l.attach = k.attach /\ l.version = Version
      BY <2>1 DEF Locals
    <2>4. Moves(p, "point", l)
      BY <1>1, <1>5, <2>1 DEF Moves
    <2>5. Knows("confirm", k) => Knows("point", l)'
      BY <1>2, <1>3, <2>3, AgreesIsWritten DEF Knows, Compiling, Numbered, Starting, ToJob
    <2> QED
      BY <1>1, <1>2, <2>2, <2>3, <2>4, <2>5, StepCalm DEF Confirming
  <1>6. ASSUME NEW def \in Defs, Goto(p, "number"),
               Remember(p, [mine[p] EXCEPT !.confirming = TRUE, !.watch = FALSE, !.def = def])
        PROVE  CalmInv'
    <2>1. PICK l : l = [k EXCEPT !.confirming = TRUE, !.watch = FALSE, !.def = def]
      OBVIOUS
    <2>2. l \in Locals /\ l.op = k.op /\ l.made = k.made /\ l.seen = k.seen
      BY <2>1 DEF Locals
    <2>3. Moves(p, "number", l)
      BY <1>1, <1>6, <2>1 DEF Moves
    <2>4. Knows("confirm", k) => Knows("number", l)'
      BY <1>3, <2>2, NumberIsKnown DEF Knows, Compiling
    <2> QED
      BY <1>1, <1>2, <2>2, <2>3, <2>4, StepCalm DEF Confirming
  <1> QED
    BY <1>4, <1>5, <1>6 DEF Confirming

\* Writing another field of a routine leaves the kinds as they are.
LEMMA FieldKeepsKinds ==
  ASSUME Inv, UNCHANGED versions, NEW i, NEW r,
         routines' = [routines EXCEPT ![i] = r],
         i \in 1..Newest => r \in Routine /\ r.kind = routines[i].kind
  PROVE  Version' = Version /\ Newest' = Newest /\ KindAgrees' = KindAgrees
  <1>1. routines \in Seq(Routine) /\ Newest \in Nat /\ DOMAIN routines = 1..Newest
    BY LenProperties DEF Inv, RowsOK, Newest
  <1>2. Newest' = Newest
    BY <1>1 DEF Newest
  <1>3. Newest > 0 => routines'[Newest].kind = routines[Newest].kind
    BY <1>1
  <1>4. Version' = Version /\ Definition' = Definition /\ Standing' = Standing
    BY DEF Version, Definition, Standing
  <1> QED
    BY <1>2, <1>3, <1>4 DEF KindAgrees

LEMMA PointCalm ==
  ASSUME Inv, CalmInv, NEW p \in Procs, Point(p)
  PROVE  CalmInv'
  <1>1. PICK k \in Locals : k = mine[p] /\ Placed("point", k, versions, Newest)
    BY Where DEF Point
  <1>2. k.version \in 1..Version /\ Version \in Nat /\ Newest \in Nat
    BY <1>1, Counts DEF Placed, Version, Inv
  <1>3. CASE Newest > 0
    <2>1. PICK i : routines' = [routines EXCEPT ![i].pin = k.version]
      BY <1>1, <1>3 DEF Point
    <2>2. PICK r : r = [routines[i] EXCEPT !.pin = k.version]
      OBVIOUS
    <2>3. ASSUME i \in 1..Newest PROVE r \in Routine /\ r.kind = routines[i].kind
      <3>1. PICK t \in Routine : t = routines[i]
        BY <2>3, RoutineOf
      <3> QED
        BY <1>2, <2>2, <3>1 DEF Routine
    <2>4. Version' = Version /\ KindAgrees' = KindAgrees
      BY <2>1, <2>2, <2>3, FieldKeepsKinds DEF Point
    <2>5. Written' = Written
      BY <2>4 DEF Point, Written
    <2>6. Moves(p, "ensure", k) /\ "ensure" \in Labels
      BY <1>1, <1>3 DEF Point, Moves, Labels
    <2>7. Knows("point", k) => Knows("ensure", k)'
      BY <2>4, <2>5 DEF Knows, Compiling, Numbered, Starting, ToJob
    <2> QED
      BY <1>1, <2>6, <2>7, StepCalm DEF Point
  <1>4. CASE ~ Newest > 0
    <2>1. KindOf(versions[k.version]) \in {"event_triggered", "scheduled"}
      BY DEF KindOf
    <2>2. UNCHANGED <<rows, hist>> /\ pc[p] = "point"
          /\ ToCreate(p, KindOf(versions[k.version]), k.version, "ensure")
      BY <1>1, <1>4 DEF Point, rows
    <2>3. Knows("point", k) =>
            k.version = Version /\ k.made = 0 /\ k.attach = FALSE /\ Written
      BY DEF Knows, Numbered, Starting
    <2>4. Knows("point", k) => KindOf(versions[k.version]) = KindOf(Definition)
      BY <2>3 DEF Definition
    <2>5. k.version \in Nat
      BY <1>2
    <2> QED
      BY <1>1, <2>1, <2>2, <2>3, <2>4, <2>5, ToCreateCalm
  <1> QED
    BY <1>3, <1>4

LEMMA PauseJobCalm ==
  ASSUME Inv, CalmInv, NEW p \in Procs, PauseJob(p)
  PROVE  CalmInv'
  <1>1. PICK k \in Locals : k = mine[p]
    BY Where
  <1>2. Moves(p, "done", k) /\ "done" \in Labels
    BY <1>1 DEF PauseJob, Moves, Labels
  <1>3. Version' = Version /\ Newest' = Newest /\ KindAgrees' = KindAgrees /\ lens' = lens
    BY SameKinds DEF PauseJob
  <1>4. ASSUME Knows("pausejob", k) PROVE Agrees'
    <2>1. CASE Version > 0
      <3>1. job.version = Version /\ job.routine = Newest /\ KindAgrees /\ lens # "active"
        BY <1>4, <2>1 DEF Knows, JobAgrees
      <3>2. PICK j \in Job : j = job /\ j # NoJob
        BY <2>1, <3>1 DEF Inv, RowsOK, NoJob
      <3>3. job' = [j EXCEPT !.status = "paused"]
        BY <3>2 DEF PauseJob
      <3>4. job'.status = "paused" /\ job'.version = Version /\ job'.routine = Newest
        BY <3>1, <3>2, <3>3 DEF Job
      <3> QED
        BY <1>3, <3>1, <3>4 DEF Agrees, JobAgrees
    <2>2. CASE ~ Version > 0
      BY <1>3, <2>2 DEF Agrees
    <2> QED
      BY <2>1, <2>2
  <1>5. Knows("pausejob", k) => Knows("done", k)'
    BY <1>4 DEF Knows, Compiling, Numbered, Starting, ToJob
  <1> QED
    BY <1>1, <1>2, <1>5, StepCalm DEF PauseJob

LEMMA FlipCalm ==
  ASSUME Inv, CalmInv, NEW p \in Procs, Flip(p)
  PROVE  CalmInv'
  <1>1. PICK k \in Locals : k = mine[p]
    BY Where
  <1>2. PICK paused \in BOOLEAN : paused = (~ k.new.paused)
    OBVIOUS
  <1>3. PICK r : r = [routines[k.made] EXCEPT !.paused = paused]
    OBVIOUS
  <1>4. routines' = [routines EXCEPT ![k.made] = r]
    BY <1>1, <1>2, <1>3 DEF Flip
  <1>5. ASSUME k.made \in 1..Newest PROVE r \in Routine /\ r.kind = routines[k.made].kind
    <2>1. PICK t \in Routine : t = routines[k.made]
      BY <1>5, RoutineOf
    <2> QED
      BY <1>3, <2>1 DEF Routine
  <1>6. Version' = Version /\ Newest' = Newest /\ KindAgrees' = KindAgrees
    BY <1>4, <1>5, FieldKeepsKinds DEF Flip
  <1>7. Agrees' = Agrees
    BY <1>6 DEF Agrees, JobAgrees, Flip
  <1>8. Moves(p, "done", k) /\ "done" \in Labels
    BY <1>1 DEF Flip, Moves, Labels
  <1>9. Knows("toggle", k) => Knows("done", k)'
    BY <1>7 DEF Knows, Compiling, Numbered, Starting, ToJob
  <1> QED
    BY <1>1, <1>8, <1>9, StepCalm DEF Flip

\* Only a request that had the Lens to itself leaves the history clean.
LEMMA FinishCalm ==
  ASSUME Inv, CalmInv, NEW p \in Procs, Finish(p)
  PROVE  CalmInv'
  <1>1. pc'[p] = "idle" /\ \A q \in Procs \ {p} : pc'[q] = pc[q]
    BY DEF Finish, Goto, Inv, Typed
  <1>2. alone' = {} /\ Agrees' = Agrees
    BY OnlyOne, SameAgreement DEF Finish, rows
  <1>3. ASSUME clean'
        PROVE  Busy' = {} /\ Agrees
    <2>1. p \in Busy
      BY DEF Finish, Busy
    <2>2. p \in alone /\ Trusted(p)
      BY <1>3, <2>1 DEF Finish, CalmInv, Trusted, SetsJob
    <2>3. Agrees
      BY <2>2 DEF CalmInv, Knows, Finish
    <2>4. Busy' = {}
      BY <1>1, <2>2 DEF Inv, AloneOK, Busy
    <2> QED
      BY <2>3, <2>4
  <1> QED
    BY <1>2, <1>3 DEF CalmInv, Trusted

LEMMA DieCalm ==
  ASSUME Inv, NEW p \in Procs, Die(p)
  PROVE  CalmInv'
  BY VanishCalm DEF Die

LEMMA SameCalm ==
  ASSUME CalmInv, UNCHANGED <<lens, versions, routines, job, pc, mine, hist>>
  PROVE  CalmInv'
  <1>1. /\ Version' = Version /\ Newest' = Newest /\ Definition' = Definition
        /\ KindAgrees' = KindAgrees /\ Written' = Written /\ JobAgrees' = JobAgrees
        /\ Agrees' = Agrees
    BY SameAgreement
  <1>2. \A label, l : Knows(label, l)' = Knows(label, l)
    BY <1>1 DEF Knows
  <1> QED
    BY <1>1, <1>2 DEF CalmInv, Trusted, Busy, hist

-----------------------------------------------------------------------------
(* The theorems *)

LEMMA InitCalm == Init => CalmInv
  BY EmptySeq DEF Init, CalmInv, Trusted, Busy, Agrees, Version

LEMMA NextCalm == Inv /\ CalmInv /\ [Next]_vars => CalmInv'
  <1> SUFFICES ASSUME Inv, CalmInv, [Next]_vars PROVE CalmInv'
    OBVIOUS
  <1>1. CASE UNCHANGED vars \/ CheckNow \/ Beat
    BY <1>1, SameCalm DEF vars, rows, CheckNow, Beat
  <1>2. ASSUME NEW p \in Web, Request(p) PROVE CalmInv'
    BY <1>2, MessageCalm, KeepCalm, ConfirmCalm, EditCalm, PauseCalm, ResumeCalm,
       ToggleCalm DEF Request, Procs
  <1>3. ASSUME NEW p \in Workers, Take(p) PROVE CalmInv'
    BY <1>3, TakeCalm DEF Procs
  <1>4. ASSUME NEW p \in Procs, Step(p) PROVE CalmInv'
    BY <1>4, NumberCalm, InsertCalm, SyncCalm, CreateCalm, UpsertJobCalm, NewJobCalm,
       EnsureCalm, ActivateCalm, LiveCalm, ConfirmingCalm, PointCalm, PauseJobCalm,
       FlipCalm, StartCalm, FinishCalm DEF Step
  <1>5. ASSUME NEW p \in Procs, Die(p) PROVE CalmInv'
    BY <1>5, DieCalm
  <1> QED
    BY <1>1, <1>2, <1>3, <1>4, <1>5 DEF Next

LEMMA CalmInvariant == Spec => []CalmInv
  BY Invariant, InitCalm, NextCalm, PTL DEF Spec

\* When all is quiet, the assignment names the newest version and routine and
\* has the status of the Lens, whatever interleavings and crashes came before
\* the last standing job that was set undisturbed.
\* (upsert_job, _ensure_job, start_watching, pause)
THEOREM AssignmentAgrees == Spec => []AssignmentMatchesLens
  <1>1. CalmInv => AssignmentMatchesLens
    BY DEF CalmInv, AssignmentMatchesLens, Quiet, Agrees, JobAgrees
  <1> QED
    BY <1>1, CalmInvariant, PTL

\* Likewise the newest routine has the kind of the job that stands.
\* (_sync_routine, ensure_routine, confirm)
THEOREM RoutineAgrees == Spec => []RoutineMatchesJob
  <1>1. CalmInv => RoutineMatchesJob
    BY DEF CalmInv, RoutineMatchesJob, Quiet, Agrees, KindAgrees
  <1> QED
    BY <1>1, CalmInvariant, PTL
=============================================================================

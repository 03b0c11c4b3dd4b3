------------------------------ MODULE RunContract ------------------------------
(***************************************************************************)
(* What RunService and the loop promise of a run, whatever its stages: a   *)
(* run that is open is in somebody's hands, and a run that was closed and  *)
(* let go is history.                                                      *)
(*                                                                         *)
(* A hand is whoever may still act on the run: a process in the code that  *)
(* handles it, or the broker while a message for it waits.                 *)
(***************************************************************************)
CONSTANTS Runs, Hands

VARIABLES
  phase,  \* of each run: absent, open, closed
  hands,  \* of each run: the hands it is in
  lost    \* runs that somebody dropped without closing them

cvars == <<phase, hands, lost>>

Init ==
  /\ phase = [r \in Runs |-> "absent"]
  /\ hands = [r \in Runs |-> {}]
  /\ lost  = {}

SetPhase(r, f) == phase' = [phase EXCEPT ![r] = f]
SetHands(r, H) == hands' = [hands EXCEPT ![r] = H]

\* Work is promised before the run exists (a message of Beat).
Reserve(r, h) ==
  /\ phase[r] = "absent" /\ hands[r] = {}
  /\ SetHands(r, {h})
  /\ UNCHANGED <<phase, lost>>

\* The run is created, by the hand that was promised it or by a new one.
Open(r, h) ==
  /\ phase[r] = "absent" /\ hands[r] \subseteq {h}
  /\ SetPhase(r, "open")
  /\ SetHands(r, {h})
  /\ UNCHANGED lost

\* One hand gives the run to another (request to broker, broker to worker).
Pass(r, h, g) ==
  /\ h \in hands[r]
  /\ SetHands(r, (hands[r] \ {h}) \cup {g})
  /\ UNCHANGED <<phase, lost>>

\* A further hand takes up a run that is open, never one that is closed.
Join(r, h) ==
  /\ phase[r] = "open"
  /\ SetHands(r, hands[r] \cup {h})
  /\ UNCHANGED <<phase, lost>>

\* Whoever holds the run may close it and open it again (a repair).
Shut(r) ==
  /\ phase[r] = "open" /\ hands[r] # {}
  /\ SetPhase(r, "closed")
  /\ UNCHANGED <<hands, lost>>

Reopen(r) ==
  /\ phase[r] = "closed" /\ hands[r] # {}
  /\ SetPhase(r, "open")
  /\ UNCHANGED <<hands, lost>>

\* A hand lets go: it closes the run, or the run is closed, or somebody else
\* still has it, or it was dropped before.
LetGo(r, h) ==
  /\ h \in hands[r]
  /\ \/ SetPhase(r, "closed")
     \/ /\ phase[r] = "closed" \/ hands[r] \ {h} # {} \/ r \in lost
        /\ UNCHANGED phase
  /\ SetHands(r, hands[r] \ {h})
  /\ UNCHANGED lost

Drop(r, h) ==
  /\ h \in hands[r]
  /\ SetHands(r, hands[r] \ {h})
  /\ lost' = lost \cup {r}
  /\ UNCHANGED phase

Next ==
  \E r \in Runs :
    \/ \E h \in Hands : Reserve(r, h) \/ Open(r, h) \/ Join(r, h) \/ LetGo(r, h) \/ Drop(r, h)
    \/ \E h, g \in Hands : Pass(r, h, g)
    \/ Shut(r) \/ Reopen(r)

Spec == Init /\ [][Next]_cvars

-----------------------------------------------------------------------------
ContractTypeOK ==
  /\ phase \in [Runs -> {"absent", "open", "closed"}]
  /\ hands \in [Runs -> SUBSET Hands]
  /\ lost \subseteq Runs

\* An open run is in somebody's hands, unless it was dropped: nothing waits
\* for ever because everybody thought another would do it.
OpenIsHeld ==
  \A r \in Runs : phase[r] = "open" /\ hands[r] = {} => r \in lost

\* A run that was closed and let go is never touched again.
ClosedIsHistory ==
  [][\A r \in Runs : phase[r] = "closed" /\ hands[r] = {} =>
       phase'[r] = "closed" /\ hands'[r] = {}]_cvars
=============================================================================

--------------------------- MODULE RunContractProofs ---------------------------
(***************************************************************************)
(* What the contract promises, for any set of runs and hands.              *)
(***************************************************************************)
EXTENDS RunContract, TLAPS

LEMMA ContractTyped == Spec => []ContractTypeOK
  <1>1. Init => ContractTypeOK
    BY DEF Init, ContractTypeOK
  <1>2. ContractTypeOK /\ [Next]_cvars => ContractTypeOK'
    BY DEF ContractTypeOK, Next, cvars, Reserve, Open, Pass, Join, Shut, Reopen, LetGo, Drop,
           SetPhase, SetHands
  <1> QED
    BY <1>1, <1>2, PTL DEF Spec

\* An open run is in somebody's hands unless it was dropped.
THEOREM OpenRunsAreHeld == Spec => []OpenIsHeld
  <1>1. Init => OpenIsHeld
    BY DEF Init, OpenIsHeld
  <1>2. ContractTypeOK /\ OpenIsHeld /\ [Next]_cvars => OpenIsHeld'
    BY DEF ContractTypeOK, OpenIsHeld, Next, cvars, Reserve, Open, Pass, Join, Shut, Reopen, LetGo, Drop,
           SetPhase, SetHands
  <1> QED
    BY <1>1, <1>2, ContractTyped, PTL DEF Spec

\* A run that was closed and let go is never touched again.
THEOREM ClosedRunsAreHistory == Spec => ClosedIsHistory
  <1>1. ContractTypeOK /\ [Next]_cvars =>
          \A r \in Runs : phase[r] = "closed" /\ hands[r] = {} =>
            phase'[r] = "closed" /\ hands'[r] = {}
    BY DEF ContractTypeOK, Next, cvars, Reserve, Open, Pass, Join, Shut, Reopen, LetGo, Drop,
           SetPhase, SetHands
  <1> QED
    BY <1>1, ContractTyped, PTL DEF Spec, ClosedIsHistory
=============================================================================

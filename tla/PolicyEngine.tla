---------------------------- MODULE PolicyEngine ----------------------------
(***************************************************************************)
(* The policy path of a lens whose workflow has no steps: engine.py,       *)
(* scoring.py, planner.plan_query and the scan of MonitoringService as a   *)
(* function of what it fetched. EventCooldown has its events in time.      *)
(*                                                                         *)
(* A policy is the one Workflows compiles. Every compiled policy stores    *)
(* its events, notifies by Telegram, joins its conditions by AND and       *)
(* leaves stablecoins out. fear is the Fear & Greed value or None.         *)
(***************************************************************************)
EXTENDS Workflows

Severity(score) == IF score >= 4 THEN "high" ELSE IF score >= 2 THEN "medium" ELSE "low"

SeverityRank(severity) ==
  CASE severity = "low" -> 1 [] severity = "medium" -> 2 [] severity = "high" -> 3

\* A condition whose metric the observation lacks is skipped.
Read(policy, o) == {i \in DOMAIN policy.conds : Metric(o, policy.conds[i].metric) # None}

Met(c, o) == Compare(Metric(o, c.metric), c.operator, c.value)

MetCount(policy, o) == Cardinality({i \in DOMAIN policy.conds : Met(policy.conds[i], o)})

\* Mutant of LogicPassed: a policy none of whose metrics was read passes.
LogicSkipped(policy, o) == \A i \in Read(policy, o) : Met(policy.conds[i], o)

LogicPassed(policy, o) ==
  /\ Read(policy, o) # {}
  /\ \A i \in Read(policy, o) : Met(policy.conds[i], o)

\* _threshold: the first condition on the metric.
Threshold(policy, metric) ==
  LET given == AtPlaces(policy.conds, {i \in DOMAIN policy.conds : policy.conds[i].metric = metric})
  IN IF given = <<>> THEN None ELSE Head(given).value

\* Twice the bar and more. Only a rise can be that strong.
Strong(policy, o, metric) ==
  /\ Threshold(policy, metric) # None /\ Metric(o, metric) # None
  /\ Metric(o, metric) >= 2 * Abs(Threshold(policy, metric))

ContextConfirmed(policy, fear) ==
  /\ policy.context # <<>> /\ fear # None
  /\ \A i \in DOMAIN policy.context :
       Compare(fear, policy.context[i].operator, policy.context[i].value)

One(condition) == IF condition THEN 1 ELSE 0

\* score_candidate
Score(policy, o, fear) ==
  MetCount(policy, o)
    + One(Strong(policy, o, Change)) + One(Strong(policy, o, "volume_change_24h"))
    + One(/\ RankImproved(o) = TRUE
          /\ ~\E i \in DOMAIN policy.conds : policy.conds[i].metric = "rank_improved"
                                            /\ Met(policy.conds[i], o))
    + One(ContextConfirmed(policy, fear))

EvaluatePolicy(o, policy, fear) ==
  LET passed == LogicPassed(policy, o)
      loud == SeverityRank(Severity(Score(policy, o, fear))) >= SeverityRank(policy.severity)
  IN [sym |-> o.sym, passed |-> passed, met |-> MetCount(policy, o), notify |-> passed /\ loud,
      suppressed |-> (passed /\ ~loud) \/ (~passed /\ MetCount(policy, o) > 0)]

\* near_match_payload: some conditions met, not all.
NearMatch(candidate) == ~candidate.passed /\ candidate.met > 0

\* plan_query: the calls of a scan. The primary one comes first.
ScanTools(policy) ==
  <<IF policy.universe = "symbols" THEN "get_quotes" ELSE "get_market_listings">>
    \o (IF policy.context # <<>> THEN <<"get_fear_and_greed">> ELSE <<>>)

\* The scan of run_lens over observations without stablecoins.
Scan(policy, obs, fear) ==
  LET candidates == [i \in DOMAIN obs |-> EvaluatePolicy(obs[i], policy, fear)]
      Such(Test(_)) == {candidates[i].sym : i \in {j \in DOMAIN obs : Test(candidates[j])}}
  IN [events |-> Such(LAMBDA c : c.passed), told |-> Such(LAMBDA c : c.notify),
      near |-> Such(NearMatch), assets |-> Len(obs)]
=============================================================================

---------------------------- MODULE Verification ----------------------------
(***************************************************************************)
(* What the program vouches for: intelligence/verification.py, the retry   *)
(* rule and the evidence of agent_runtime.py, and research/finding.py.     *)
(*                                                                         *)
(* A result is [kind, rows, assets, items, trigger, message, claims]: rows *)
(* as RankAssets makes them, trigger the payload's [asset, actual], items  *)
(* the number of headlines, message the class of an error's text.          *)
(***************************************************************************)
EXTENDS Capabilities

Blank == [kind |-> "", rows |-> <<>>, assets |-> 0, items |-> 0,
          trigger |-> [asset |-> "", actual |-> None], message |-> "", claims |-> <<>>,
          limits |-> {}]

\* The coins whose symbol is two to five letters: no other is ever found in
\* the words of a claim.
CONSTANT Spellable

Changes(rows) == Reported([i \in DOMAIN rows |-> rows[i].change])

Ascending(values) == \A i, j \in DOMAIN values : i < j => values[i] <= values[j]

\* Neighbours that report no change are skipped, and only a rising order passes.
RankingPassed(rows) == Changes(rows) # <<>> /\ Ascending(Changes(rows))

TriggerAnswered(result, workflow) ==
  \/ result.kind = "no_result"
  \/ result.trigger.actual # None
  \/ workflow.trigger = None
  \/ workflow.trigger.asset = ""

\* _run_check. A row always has the field of its change, whatever it holds.
CheckPassed(check, result, workflow) ==
  LET nothing == result.kind = "no_result"
  IN CASE check = "trigger"   -> TriggerAnswered(result, workflow)
       [] check = "assets"    -> nothing \/ result.assets > 0
       [] check = "percent"   -> nothing \/ result.rows # <<>>
       [] check = "ranking"   -> nothing \/ RankingPassed(result.rows)
       [] check = "headlines" -> nothing \/ result.items > 0
       [] check = "quotes"    -> nothing \/ result.rows # <<>>
       [] check = "fields"    -> \/ result.kind \in {"no_result", "event", "market_summary", "news_brief"}
                                 \/ result.rows # <<>>

\* Mutant of VerifyResult: an empty ranking is a passed one.
VerifyNonempty(result, workflow, plan) ==
  IF result.kind = "error" THEN "unsupported"
  ELSE IF \E check \in plan.checks : result.rows # <<>> /\ ~CheckPassed(check, result, workflow)
    THEN "unsupported"
  ELSE "supported"

\* verify_result. A plan always asks for at least the fields.
VerifyResult(result, workflow, plan) ==
  LET failed == {check \in plan.checks : ~CheckPassed(check, result, workflow)}
  IN IF result.kind = "error" THEN "unsupported"
     ELSE IF result.kind = "no_result" THEN IF failed = {} THEN "supported" ELSE "inconclusive"
     ELSE IF result.kind = "news_brief" /\ result.items = 0 THEN "needs_more_evidence"
     ELSE IF result.kind = "ranked_table" /\ result.rows = <<>> THEN "needs_more_evidence"
     ELSE IF failed # {} THEN "unsupported" ELSE "supported"

\* Mutant of NeedsRepair: a table that failed its checks is tried again too.
RepairUnsupported(result, status) == status \in {"needs_more_evidence", "unsupported"}

NeedsRepair(result, status) ==
  \/ status = "needs_more_evidence"
  \/ result.kind = "ranked_table" /\ result.rows = <<>>
  \/ result.kind = "error" /\ result.message = "unavailable"

-----------------------------------------------------------------------------
(* Evidence *)

RowSymbols(result) == {result.rows[i].sym : i \in DOMAIN result.rows}

\* claim_supported looks for the symbol of a row among the words of the
\* claim. Every claim has some word that could be one.
ClaimSupported(claim, result, observed) ==
  IF RowSymbols(result) # {}
  THEN IF claim.names \cap RowSymbols(result) \cap Spellable # {} THEN "supported" ELSE "unsupported"
  ELSE IF observed THEN "unsupported" ELSE "inconclusive"

\* _fallback_claims: the title and what each call observed.
FallbackClaims(result, called) ==
  <<Claim("title", {}, None)>> \o [i \in DOMAIN called |-> Claim("observed", {}, called[i])]

\* _persist_evidence: one row for each claim.
EvidenceOf(result, status, called, observed) ==
  LET claims == IF result.claims = <<>> THEN FallbackClaims(result, called) ELSE result.claims
      Standing(claim) == LET read == ClaimSupported(claim, result, observed)
                         IN IF status = "needs_more_evidence" /\ read = "supported"
                            THEN "needs_more_evidence" ELSE read
  IN [i \in DOMAIN claims |-> [claim |-> claims[i], status |-> Standing(claims[i])]]

\* finding_from_result: the first claim stands for the result.
FindingOf(result, status) ==
  [claim |-> IF result.claims = <<>> THEN Claim("title", {}, None) ELSE Head(result.claims),
   verification |-> status, kind |-> result.kind, supported |-> status = "supported"]

\* Finding.grounded, of a finding that has its claim and its evidence.
Grounded(finding) == finding.verification = "supported"
=============================================================================

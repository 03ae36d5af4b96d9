------------------------------ MODULE StatusRules ------------------------------
(***************************************************************************)
(* What the service makes of a candidate assessment: the gate that refuses *)
(* an unsupported pass (agents/gates.py), the status that is displayed     *)
(* (domain/status_rules.py) and what the run does about the assessment     *)
(* (services/reviews.py).                                                  *)
(***************************************************************************)

EvidenceStates == {"missing", "partial", "matched", "uncertain"}
Severities == {"critical", "warning", "opportunity", "none"}

\* A candidate: what it says, whether it cites evidence and recommends anything.
Candidates == [evidence : EvidenceStates, severity : Severities,
               doubt : BOOLEAN, cited : BOOLEAN, advised : BOOLEAN]

\* validate_assessment.
Supported(c) == c.evidence = "matched" => c.cited

\* The candidate leaves something for the user to confirm.
Asks(c) == c.doubt \/ c.evidence = "uncertain"

\* calculate_display_status, for a requirement that is mandatory or not.
DisplayStatus(mandatory, c) ==
    IF Asks(c) THEN "needs_confirmation"
    ELSE IF (mandatory /\ c.evidence = "missing") \/ c.severity = "critical"
        THEN "high_risk"
    ELSE IF c.evidence = "matched" THEN "satisfied"
    ELSE IF c.severity = "opportunity" THEN "optimize"
    ELSE "needs_evidence"

\* _ensure_confirmation_or_action lists an action for a gap that is not asked
\* about and comes with a recommendation.
Advises(mandatory, c) ==
    /\ ~ Asks(c)
    /\ DisplayStatus(mandatory, c) \notin {"satisfied", "needs_confirmation"}
    /\ c.advised

\* A candidate, as far as its consequences differ.
VerdictOf(mandatory, c) ==
    CASE Asks(c)                 -> "needs_confirmation"
      [] Advises(mandatory, c)   -> "advised_gap"
      [] OTHER                   -> "satisfied"

=============================================================================

------------------------------ MODULE InfoFlow ------------------------------
(* The information-flow audit (orchestration/info_flow.py, drift.py): a      *)
(* heuristic score of how far an output departs from its source, a critic's  *)
(* score where one is asked for, and what the two mean to the user.  A text  *)
(* is what the audit sees of it; scores are percentages.                     *)

EXTENDS Integers, FiniteSets

CONSTANT Words      \* the content words and falsifiable claims of texts

ASSUME WordsAssumption == IsFiniteSet(Words)

Hedge == {"no", "inside", "leading"}
Text == [blank: BOOLEAN, words: SUBSET Words, hedge: Hedge, questions: Nat]

NoScore == -1       \* the critic was not asked, or its answer did not parse
EscalateAt == 40    \* HEURISTIC_ESCALATION_THRESHOLD
GateAt == 70        \* DEFAULT_GATE_THRESHOLD, the critic's pause threshold too

Larger(a, b) == IF a >= b THEN a ELSE b

\* The part of `all' that is not in `seen', in percent.
Missing(all, seen) ==
    IF all = {} THEN 0
    ELSE (100 * Cardinality(all \ seen)) \div Cardinality(all)

\* compute_drift_score.  A plan's step is covered by a work entry that carries
\* its id or mentions one of its words; without any work there is no opinion.
PlanVsAction(steps, work) ==
    IF work = {} THEN 0
    ELSE Missing(steps, {s \in steps : \E e \in work :
                            e.step = s.id \/ e.words \cap s.words # {}})

\* _heuristic_reported_vs_truth: facts is what the ground truth says, or
\* NoFacts when there is none to compare with.
NoFacts == Words
ReportedVsTruth(report, facts) ==
    IF report.blank THEN 100
    ELSE IF report.hedge = "leading" THEN 55
    ELSE Missing(report.words, facts)

Hedged(text) == text.hedge # "no" \/ text.questions >= 2

\* _heuristic_relayed_vs_source: dropping the source's doubt weighs 60.
RelayedVsSource(source, relay) ==
    IF source.blank THEN 0
    ELSE Larger(Missing(source.words, relay.words),
                IF Hedged(source) /\ ~Hedged(relay) THEN 60 ELSE 0)

\* audit_info_flow, given the heuristic's score and the critic's answer, which
\* is only asked for above the threshold or when the caller insists.
Audit(heuristic, critic, insist) ==
    LET llm == IF insist \/ heuristic >= EscalateAt THEN critic ELSE NoScore IN
    [score |-> Larger(heuristic, llm),
     confidence |->
        IF llm = NoScore
        THEN IF heuristic < EscalateAt \div 2 THEN "high" ELSE "medium"
        ELSE IF (heuristic >= EscalateAt) = (llm >= EscalateAt) THEN "high" ELSE "low"]

\* InfoFlowAuditReport.should_raise_gate.
RaisesGate(report) ==
    \/ report.score >= GateAt
    \/ report.confidence = "low" /\ report.score >= EscalateAt

Level == {"high", "medium", "low"}

\* confidence_level_for_drift.
LevelFor(score) == IF score < 30 THEN "high" ELSE IF score < GateAt THEN "medium" ELSE "low"
Rank(level) == CASE level = "high" -> 0 [] level = "medium" -> 1 [] level = "low" -> 2

\* Mutant of Combined: the last audit has the last word.
CombinedLast(first, second) == LevelFor(second.score)
\* combine_confidence_payloads of two reports: the worse level, the first on a tie.
Combined(first, second) ==
    LET primary == IF Rank(LevelFor(second.score)) > Rank(LevelFor(first.score))
                   THEN second ELSE first
    IN LevelFor(primary.score)
=============================================================================

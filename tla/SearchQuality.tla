---------------------------- MODULE SearchQuality ----------------------------
(***************************************************************************)
(* SearchEvaluatorNode (agents/nodes/search_evaluator.py): the gates that  *)
(* decide whether the results of a web search are enough.  A list of       *)
(* results is abstracted to the figures the gates look at, in percent; the *)
(* scores are in tenths of a point.                                        *)
(***************************************************************************)
EXTENDS Naturals

Percent == 0..100

\* A list without a quality signal counts 25; one whose pages were not fetched
\* has full coverage.
Evidence == [count : Nat, quality : Percent, relevance : Percent,
             keywords : BOOLEAN, coverage : Percent]

NoEvidence == [count |-> 0, quality |-> 0, relevance |-> 0,
               keywords |-> FALSE, coverage |-> 0]

CountScore(e) ==
    CASE e.count <= 3 -> 100 * e.count
      [] e.count = 4 -> 350
      [] OTHER -> 400

\* average quality * 0.4
QualityScore(e) == 4 * e.quality

\* Without keywords the middle of the scale, 10 points.
RelevanceScore(e) == IF e.keywords /\ e.count > 0 THEN 2 * e.relevance ELSE 100

TotalScore(e) == CountScore(e) + QualityScore(e) + RelevanceScore(e)

\* _should_retry: why the search is to be tried again, "" when it is enough.
RetryReason(e) ==
    IF e.count = 0 THEN "no_results"
    ELSE IF e.count < 3 THEN "insufficient_results"
    ELSE IF e.quality < 55 THEN "low_quality"
    ELSE IF e.keywords /\ e.relevance < 45 THEN "low_relevance"
    ELSE IF e.coverage < 25 THEN "low_content_coverage"
    ELSE IF TotalScore(e) < 550 THEN "overall_low_score"
    ELSE ""

Accepted(e) == RetryReason(e) = ""
=============================================================================

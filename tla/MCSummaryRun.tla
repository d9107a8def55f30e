---------------------------- MODULE MCSummaryRun ----------------------------
(***************************************************************************)
(* Instances of SummaryRun.                                                *)
(***************************************************************************)
EXTENDS SummaryRun

CONSTANTS r1, r2

TwoRuns == {r1, r2}
=============================================================================

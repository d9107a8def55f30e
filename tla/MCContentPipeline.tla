------------------------- MODULE MCContentPipeline -------------------------
(***************************************************************************)
(* Instances of ContentPipeline.                                           *)
(***************************************************************************)
EXTENDS ContentPipeline

CONSTANTS r1, ingest, consumer, reconciler, nobody

OneRequest == {r1}
NoRequest == {}
AllOps == {"text", "download", "summary", "block", "delete"}
SummaryOps == {"summary", "block"}
=============================================================================

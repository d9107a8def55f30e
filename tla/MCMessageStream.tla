--------------------------- MODULE MCMessageStream ---------------------------
(* Pages that wait for one answer of a few tokens, made by at most two     *)
(* runs.  Seq(Token) in the type invariant is only tested for membership.  *)
EXTENDS MessageStream
=============================================================================

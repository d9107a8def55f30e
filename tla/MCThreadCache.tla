---------------------------- MODULE MCThreadCache ----------------------------
(* A page that reads a thread while its answers are made.                  *)
EXTENDS ThreadCache
=============================================================================

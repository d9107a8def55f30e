-------------------------- MODULE MCAgentMessage --------------------------
(* One thread: a message, the messages that regenerate or follow it, and   *)
(* the workers that may run them.                                          *)
EXTENDS AgentMessage, TLC

AgentSymmetry == Permutations(Messages) \union Permutations(Workers)
=============================================================================

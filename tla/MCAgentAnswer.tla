---------------------------- MODULE MCAgentAnswer ----------------------------
(* The three retries of the code, every gate of the evaluator at its         *)
(* threshold, and a question for each way through the classification.        *)
EXTENDS AgentAnswer

Seen(count, quality, relevance, coverage) ==
    [count |-> count, quality |-> quality, relevance |-> relevance,
     keywords |-> TRUE, coverage |-> coverage]

MCWebResults == {Seen(2, 90, 90, 100), Seen(3, 54, 90, 100), Seen(3, 90, 44, 100),
                 Seen(5, 90, 90, 24), Seen(3, 55, 45, 25)}

MCQuestions == {{}, {"greeting"}, {"now"}, {"find", "mine"}, {"mine"}, {"why"}, {"year"}}
=============================================================================

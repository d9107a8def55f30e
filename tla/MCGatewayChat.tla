--------------------------- MODULE MCGatewayChat ---------------------------
(* The route chat: gpu-llm, codex of routing_policy.json, with one slot on *)
(* each, and the three kinds of request that take different ways through    *)
(* it.                                                                     *)
EXTENDS GatewayChat

CONSTANTS gpu, codex

MCProviders == {gpu, codex}
MCUnprobed == {codex}
MCMaxInflight == [p \in MCProviders |-> 1]
MCRoute == [chat |-> <<gpu, codex>>]
MCRemote == {codex}
MCMinLevel == [p \in MCProviders |-> IF p = gpu THEN 0 ELSE 1]
MCMaxLevel == [p \in MCProviders |-> 1]
MCSpecLists == {<<gpu, codex>>, <<gpu>>, <<codex>>}

Ask(explicit, remote, stream) ==
    [explicit |-> explicit, stream |-> stream,
     profile |-> [workload |-> "chat", level |-> 1, remote_allowed |-> remote]]
MCRequests == {Ask(FALSE, FALSE, TRUE), Ask(FALSE, TRUE, FALSE),
               Ask(TRUE, FALSE, FALSE)}
=============================================================================

--------------------------- MODULE MCProviderPool ---------------------------
(* A small pool: one probed provider with two slots and one unprobed       *)
(* provider with one slot, as gpu-llm and codex of routing_policy.json.    *)
EXTENDS ProviderPool

CONSTANTS gpu, codex

MCProviders == {gpu, codex}
MCUnprobed == {codex}
MCMaxInflight == [p \in MCProviders |-> IF p = gpu THEN 2 ELSE 1]
MCSpecLists == {<<gpu, codex>>, <<codex>>}
=============================================================================

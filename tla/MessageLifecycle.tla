-------------------------- MODULE MessageLifecycle --------------------------
(***************************************************************************)
(* What a chat thread promises about its assistant messages, whatever      *)
(* brokers, workers, locks and finalizers do: at most one answer is being  *)
(* made, an answer settles once, and an answer that is being regenerated   *)
(* stays until its replacement is complete.                                *)
(***************************************************************************)
CONSTANT Messages       \* the assistant messages of one thread

VARIABLES
    state,              \* the state of each message
    replaced            \* the messages each one replaces once it is complete

lifecycleVars == <<state, replaced>>

Settled == {"completed", "failed", "deleted"}

LifecycleInit ==
    /\ state = [m \in Messages |-> "absent"]
    /\ replaced = [m \in Messages |-> {}]

Accept(m, old) ==
    /\ state[m] = "absent"
    /\ \A n \in Messages : state[n] # "active"
    /\ \A n \in old : state[n] \in Settled
    /\ state' = [state EXCEPT ![m] = "active"]
    /\ replaced' = [replaced EXCEPT ![m] = old]

Complete(m) ==
    /\ state[m] = "active"
    /\ state' = [n \in Messages |->
                   IF n = m THEN "completed"
                   ELSE IF n \in replaced[m] THEN "deleted" ELSE state[n]]
    /\ UNCHANGED replaced

Fail(m) ==
    /\ state[m] = "active"
    /\ state' = [state EXCEPT ![m] = "failed"]
    /\ UNCHANGED replaced

LifecycleNext ==
    \E m \in Messages :
        \/ \E old \in SUBSET Messages : Accept(m, old)
        \/ Complete(m)
        \/ Fail(m)

LifecycleSpec == LifecycleInit /\ [][LifecycleNext]_lifecycleVars
=============================================================================

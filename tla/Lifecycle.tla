----------------------------- MODULE Lifecycle -----------------------------
(***************************************************************************)
(* The lifecycle graph of a service instance                               *)
(* (scripts/ubb_supervisor/state_machine.py) and the groups of states that *)
(* supervisor.py tests for.                                                *)
(***************************************************************************)

States == {"stopped", "starting", "ready", "running", "maintenance", "stopping", "failed"}

(* TRANSITIONS: the edges of the graph, by source state.                   *)
Transitions ==
    [stopped     |-> {"starting"},
     starting    |-> {"ready", "failed"},
     ready       |-> {"running", "maintenance", "stopping", "failed"},
     running     |-> {"maintenance", "stopping", "failed"},
     maintenance |-> {"running", "stopping", "failed"},
     stopping    |-> {"stopped", "failed"},
     failed      |-> {"starting", "stopped"}]

(* validate_transition: FALSE where the code raises InvalidTransitionError. *)
MayTransition(old, new) == new \in Transitions[old]

ActiveStates == {"ready", "running", "maintenance"}
StaleStates == {"starting", "ready", "stopping"}
=============================================================================

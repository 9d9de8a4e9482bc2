--------------------------- MODULE MCSupervision ---------------------------
(* Both supervisors of child processes, the runtime's LifecycleManager and *)
(* the agent, for TLC.  They are different processes and share nothing, so *)
(* in one behaviour one of them runs and the other one stays in its        *)
(* initial state.                                                          *)
EXTENDS Lifecycle, Agent

VARIABLE live

SupervisionInit ==
  /\ Init /\ AgentInit
  /\ live \in {"lifecycle", "agent"}
  /\ live = "lifecycle" => \A c \in Supervised : handle[c]

SupervisionNext ==
  \/ live = "lifecycle" /\ Next /\ UNCHANGED <<agentVars, live>>
  \/ live = "agent" /\ AgentNext /\ UNCHANGED <<vars, live>>

SupervisionSpec ==
  /\ SupervisionInit /\ [][SupervisionNext]_<<vars, agentVars, live>>
  /\ live = "lifecycle" => Fairness
  /\ live = "agent" => AgentFairness

=============================================================================

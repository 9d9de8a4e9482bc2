------------------------------ MODULE MCEngine ------------------------------
(* Instances of Engine for TLC.                                            *)
EXTENDS Engine

CONSTANTS
  c1, c2, p1, p2, bad, k1, k2, k3,
  Groups    \* the groups of methods the instance explores

OneClient == {c1}
TwoClients == {c1, c2}
ThreeCmds == {k1, k2, k3}
TwoPrograms == {p1, p2}
ProgramsAndBad == {p1, p2, bad}

ControlOps == {"start", "stop", "pause", "resume", "step_cycle"}
SwapOps == {"start", "stop", "prepare_swap", "commit_swap", "rollback_swap"}

\* All methods are called, but in one behaviour only those of one group: the
\* callers of the others leave their part of the state alone.
VARIABLE group

Quiet(g) ==
  CASE g = "control" -> UNCHANGED <<confVars, swapVars, progVars, hmiVars>>
    [] g = "config"  -> UNCHANGED <<paused, steps, swapVars, progVars, hmiVars>>
    [] g = "program" -> UNCHANGED <<paused, steps, confVars, hmiVars>>
    [] g = "hmi"     -> UNCHANGED <<paused, steps, confVars, swapVars, progVars>>

GroupInit == Init /\ group \in Groups
GroupNext == Next /\ Quiet(group) /\ UNCHANGED group
GroupSpec == GroupInit /\ [][GroupNext]_<<vars, group>> /\ Fairness
=============================================================================

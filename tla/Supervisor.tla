----------------------------- MODULE Supervisor -----------------------------
(***************************************************************************)
(* What a supervisor of child processes promises                           *)
(* (docs/modules/agent/agent-architecture-design.md, "supervision tree"):  *)
(* a child that exits is restarted within a budget of starts or given up,  *)
(* a live child is ended only when the supervisor shuts down, nothing is   *)
(* started from then on, and the supervisor ends only when no process is   *)
(* left.  Agent implements this specification (SupervisorSpec there).      *)
(***************************************************************************)
EXTENDS Naturals

CONSTANTS
  Kids,
  MaxStarts    \* how often one child may be started

VARIABLES
  process,     \* "none", "alive", or "exited" and not yet waited for
  started,     \* number of starts of each child
  closing,     \* the supervisor is shutting down
  ended        \* and has ended

vars == <<process, started, closing, ended>>

Init ==
  /\ process \in [Kids -> {"alive", "none"}]
  /\ started = [k \in Kids |-> IF process[k] = "alive" THEN 1 ELSE 0]
  /\ closing = FALSE /\ ended = FALSE

Exit(k) ==
  /\ process[k] = "alive"
  /\ process' = [process EXCEPT ![k] = "exited"]
  /\ UNCHANGED <<started, closing, ended>>

Restart(k) ==
  /\ ~closing /\ process[k] = "exited" /\ started[k] < MaxStarts
  /\ process' = [process EXCEPT ![k] = "alive"]
  /\ started' = [started EXCEPT ![k] = @ + 1]
  /\ UNCHANGED <<closing, ended>>

Remove(k) ==
  /\ process[k] = "exited" \/ (closing /\ process[k] = "alive")
  /\ process' = [process EXCEPT ![k] = "none"]
  /\ UNCHANGED <<started, closing, ended>>

Close ==
  /\ ~closing /\ closing' = TRUE
  /\ UNCHANGED <<process, started, ended>>

End ==
  /\ closing /\ ~ended /\ ended' = TRUE
  /\ \A k \in Kids : process[k] = "none"
  /\ UNCHANGED <<process, started, closing>>

Next == Close \/ End \/ \E k \in Kids : Exit(k) \/ Restart(k) \/ Remove(k)

Spec == Init /\ [][Next]_vars
=============================================================================

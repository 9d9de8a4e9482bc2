------------------------------- MODULE Agent -------------------------------
(***************************************************************************)
(* The supervisor process (crates/audesys-agent): the main loop of main.rs *)
(* over the ManagedProcess state machines of monitor.rs.  The main thread  *)
(* is apc with the index i of the child it is at; the children are         *)
(* processes of their own that exit at any time, and SIGINT or SIGTERM may *)
(* arrive at any time.                                                     *)
(***************************************************************************)
EXTENDS Integers, Sequences, FiniteSets

CONSTANTS
  NSupervised,    \* number of configured children
  AgentRetries    \* MAX_RETRIES

ASSUME SupervisedAssumption == NSupervised \in Nat \ {0}
ASSUME AgentRetriesAssumption == AgentRetries \in Nat

Supervised == 1..NSupervised

VARIABLES
  apc, i, any_change,
  SHUTDOWN,
  handle,         \* child.is_some()
  attempts, state,    \* restart_count and state
  aproc,           \* the operating system's processes
  starts,         \* successful spawns of each child
  late            \* the shutdown deadline has passed

childVars == <<handle, attempts, state, aproc, starts>>
agentVars == <<apc, i, any_change, SHUTDOWN, childVars, late>>

\* Each configured child is spawned, or is Failed from the start.
AgentInit ==
  /\ apc = "loop" /\ i = 1 /\ any_change = FALSE /\ SHUTDOWN = FALSE
  /\ handle \in [Supervised -> BOOLEAN]
  /\ attempts = [c \in Supervised |-> 0]
  /\ state = [c \in Supervised |-> IF handle[c] THEN "running" ELSE "failed"]
  /\ aproc = [c \in Supervised |-> IF handle[c] THEN "alive" ELSE "none"]
  /\ starts = [c \in Supervised |-> IF handle[c] THEN 1 ELSE 0]
  /\ late = FALSE

-----------------------------------------------------------------------------
(* The environment.                                                        *)

ChildExit(c) ==
  /\ aproc[c] = "alive"
  /\ aproc' = [aproc EXCEPT ![c] = "exited"]
  /\ UNCHANGED <<apc, i, any_change, SHUTDOWN, handle, attempts, state, starts, late>>

Signal ==
  /\ ~SHUTDOWN
  /\ SHUTDOWN' = TRUE
  /\ UNCHANGED <<apc, i, any_change, childVars, late>>

DeadlinePasses ==
  /\ apc = "wait" /\ ~late
  /\ late' = TRUE
  /\ UNCHANGED <<apc, i, any_change, SHUTDOWN, childVars>>

-----------------------------------------------------------------------------
(* ManagedProcess.                                                         *)

Reaped(c, s) ==
  /\ handle' = [handle EXCEPT ![c] = FALSE]
  /\ aproc' = [aproc EXCEPT ![c] = "none"]
  /\ state' = [state EXCEPT ![c] = s]
  /\ UNCHANGED <<attempts, starts>>

\* Mutant: the counter counts only this restart.
Respawn_Resets(c) ==
  /\ aproc' = [aproc EXCEPT ![c] = "alive"]
  /\ attempts' = [attempts EXCEPT ![c] = 0]
  /\ state' = [state EXCEPT ![c] = "restarting"]
  /\ starts' = [starts EXCEPT ![c] = IF @ > AgentRetries + 1 THEN @ ELSE @ + 1]
  /\ UNCHANGED handle

\* A successful restart; the backoff is recorded in the state, not waited for.
Respawn(c) ==
  /\ aproc' = [aproc EXCEPT ![c] = "alive"]
  /\ attempts' = [attempts EXCEPT ![c] = @ + 1]
  /\ state' = [state EXCEPT ![c] = "restarting"]
  /\ starts' = [starts EXCEPT ![c] = @ + 1]
  /\ UNCHANGED handle

\* check() of a child whose process has exited: restart, or Failed when the
\* spawn fails or no retry is left.  try_wait fails only for a process that
\* is gone, and gives the same outcome.
Restart(c) ==
  \/ attempts[c] < AgentRetries /\ Respawn(c)
  \/ Reaped(c, "failed")

\* check(): whether it reports a change.
Changed(c) == handle[c] /\ aproc[c] = "exited"
Check(c) == IF Changed(c) THEN Restart(c) ELSE UNCHANGED childVars

\* Mutant: the handle is kept, so that a later check() finds an exited child.
Kill_KeepsHandle(c) ==
  /\ aproc' = [aproc EXCEPT ![c] = IF handle[c] THEN "exited" ELSE @]
  /\ UNCHANGED <<handle, attempts, state, starts>>

\* kill(): SIGKILL and wait.
Kill(c) == IF handle[c] THEN Reaped(c, state[c]) ELSE UNCHANGED childVars

-----------------------------------------------------------------------------
(* main.                                                                   *)

\* Mutant: the loop does not test SHUTDOWN.
LoopHead_IgnoresSignal ==
  /\ apc = "loop"
  /\ apc' = "check"
  /\ i' = 1 /\ any_change' = FALSE
  /\ UNCHANGED <<SHUTDOWN, childVars, late>>

LoopHead ==
  /\ apc = "loop"
  /\ apc' = IF SHUTDOWN THEN "kill" ELSE "check"
  /\ i' = 1 /\ any_change' = FALSE
  /\ UNCHANGED <<SHUTDOWN, childVars, late>>

CheckChild ==
  /\ apc = "check" /\ i <= NSupervised
  /\ IF state[i] = "failed" THEN UNCHANGED <<childVars, any_change>>
     ELSE Check(i) /\ any_change' = (any_change \/ Changed(i))
  /\ i' = i + 1
  /\ UNCHANGED <<apc, SHUTDOWN, late>>

\* push_status connects, authenticates and sends one frame per child whenever
\* some state changed.  It reads no answer that matters and repeats nothing,
\* so that it leaves no trace in the agent; then the loop sleeps or ends.
PushStatus ==
  /\ apc = "check" /\ i > NSupervised
  /\ apc' = IF \A c \in Supervised : state[c] = "failed" THEN "kill" ELSE "sleep"
  /\ i' = 1
  /\ UNCHANGED <<any_change, SHUTDOWN, childVars, late>>

Wake ==
  /\ apc = "sleep" /\ apc' = "loop"
  /\ UNCHANGED <<i, any_change, SHUTDOWN, childVars, late>>

KillChild ==
  /\ apc = "kill" /\ i <= NSupervised
  /\ Kill(i)
  /\ i' = i + 1
  /\ UNCHANGED <<apc, any_change, SHUTDOWN, late>>

KillDone ==
  /\ apc = "kill" /\ i > NSupervised
  /\ apc' = "wait" /\ i' = 1
  /\ UNCHANGED <<any_change, SHUTDOWN, childVars, late>>

\* Wait for child i while it has a handle: past the deadline kill it, else
\* go on to the next child once check() reports a change.
WaitChild ==
  /\ apc = "wait" /\ i <= NSupervised
  /\ IF handle[i] /\ ~late THEN Check(i) ELSE Kill(i)
  /\ i' = IF handle[i] /\ ~late /\ ~Changed(i) THEN i ELSE i + 1
  /\ UNCHANGED <<apc, any_change, SHUTDOWN, late>>

WaitDone ==
  /\ apc = "wait" /\ i > NSupervised
  /\ apc' = "exit"
  /\ UNCHANGED <<i, any_change, SHUTDOWN, childVars, late>>

AgentMain == LoopHead \/ CheckChild \/ PushStatus \/ Wake
        \/ KillChild \/ KillDone \/ WaitChild \/ WaitDone

AgentNext == AgentMain \/ Signal \/ DeadlinePasses \/ \E c \in Supervised : ChildExit(c)

AgentSpec == AgentInit /\ [][AgentNext]_agentVars

\* The main thread runs; push_status returns because of its read timeout.
AgentFairness == WF_agentVars(AgentMain)

-----------------------------------------------------------------------------
(* Properties.                                                             *)

TypeSupervised ==
  /\ handle \in [Supervised -> BOOLEAN] /\ starts \in [Supervised -> Nat]
  /\ attempts \in [Supervised -> 0..AgentRetries]
  /\ state \in [Supervised -> {"running", "restarting", "failed"}]
  /\ aproc \in [Supervised -> {"none", "alive", "exited"}]

\* Every variable stays in its type, and no counter exceeds MAX_RETRIES.
AgentTypeOK ==
  /\ apc \in {"loop", "check", "sleep", "kill", "wait", "exit"} /\ i \in 1..(NSupervised + 1)
  /\ any_change \in BOOLEAN /\ SHUTDOWN \in BOOLEAN /\ late \in BOOLEAN
  /\ TypeSupervised

\* A child is started at most 1 + MAX_RETRIES times in the life of the agent.
StartsBounded == \A c \in Supervised : starts[c] <= AgentRetries + 1

\* A child in state Failed is never started again and has no process.
FailedIsFinal ==
  [][\A c \in Supervised :
       state[c] = "failed" => state'[c] = "failed" /\ aproc'[c] = "none"]_agentVars

\* When the agent exits none of its children is left running, although the
\* deadline loop calls the check() that restarts exited children.
ExitLeavesNone == apc = "exit" => \A c \in Supervised : aproc[c] = "none"

\* The agent as a supervisor: a child is a handle with a process, and the
\* shutdown starts when the main loop is left.
Promise == INSTANCE Supervisor WITH
  Kids <- Supervised, MaxStarts <- AgentRetries + 1,
  process <- aproc, started <- starts,
  closing <- (apc \in {"kill", "wait", "exit"}), ended <- (apc = "exit")

\* The agent keeps the promise of Supervisor: an exited child is started again
\* at most MAX_RETRIES times, a live one is ended only by the shutdown, no
\* child is started once the shutdown has begun (its deadline loop calls the
\* check() that restarts exited children), and the agent ends with no process
\* left.
SupervisorSpec == Promise!Spec

\* The number of steps main has left when SHUTDOWN is set: what remains of
\* the pass over the children, the sleep, the kill loop and the deadline loop.
StepsLeft ==
  CASE apc = "check" -> 3 * NSupervised + 7 - i
    [] apc = "sleep" -> 2 * NSupervised + 5
    [] apc = "loop" -> 2 * NSupervised + 4
    [] apc = "kill" -> 2 * NSupervised + 4 - i
    [] apc = "wait" -> NSupervised + 2 - i
    [] apc = "exit" -> 0

\* Once SHUTDOWN is set every step of main is one of at most 3N + 6 steps
\* that are left to it, whatever its children do meanwhile: the deadline loop
\* of main.rs never has a child to poll for.
AgentWindsDown ==
  [][SHUTDOWN =>
       /\ AgentMain => StepsLeft' < StepsLeft
       /\ ~AgentMain => StepsLeft' = StepsLeft]_agentVars

\* The agent exits after a signal, wherever in its loop the signal finds it,
\* and when all its children have failed.
AgentEnds == (SHUTDOWN \/ \A c \in Supervised : state[c] = "failed") ~> apc = "exit"

-----------------------------------------------------------------------------
(* Inductive strengthening, used in Supervision_proofs.                    *)

\* A process is behind a handle, a Failed child has none, and the restarts are
\* counted.
ChildInv(c) ==
  /\ handle[c] <=> aproc[c] # "none"
  /\ state[c] = "failed" => ~handle[c]
  /\ starts[c] <= attempts[c] + 1

\* The kill loop has cleared the handles of the children it has passed.
KillInv ==
  \A c \in Supervised :
    (apc = "kill" /\ c < i) \/ apc \in {"wait", "exit"} => ~handle[c]

AgentInv == KillInv /\ \A c \in Supervised : ChildInv(c)
=============================================================================

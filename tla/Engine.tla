------------------------------- MODULE Engine -------------------------------
(***************************************************************************)
(* The runtime engine (crates/audesys-runtime/src/engine.rs): the control  *)
(* thread that start_with_cycle spawns, and the methods that the IPC       *)
(* connection threads, the main thread and the simulation harness call on  *)
(* it while it runs.                                                       *)
(*                                                                         *)
(* The control thread is the program counter pc; one label per access to   *)
(* shared state, so that a call of another thread can fall between any two *)
(* accesses that no lock joins.  A section the code runs under a lock it   *)
(* shares with the callers is one action.  A caller c is idle or in the    *)
(* middle of a method that takes more than one step (cpc[c], carg[c]).     *)
(*                                                                         *)
(* Values are abstract: a program, a command or a layout is the identity   *)
(* of one byte string some caller sent; no two calls send the same one.    *)
(* The data flow of the cycle body (barriers, program, push) is left out.  *)
(***************************************************************************)
EXTENDS Integers, Sequences, FiniteSets

CONSTANTS
  Clients,      \* threads that call the engine
  Ops,          \* the methods they call in this instance
  Cmds,         \* configuration commands (ConfigCommand ids)
  Programs,     \* HAL programs that deserialize
  WellFormed,   \* those HalProgram::is_well_formed accepts
  MaxDeploys,   \* bound on deploy_hmi_layout calls
  MaxSteps,     \* bound on step_cycle calls
  None          \* Option::None

AllOps ==
  {"start", "stop", "pause", "resume", "step_cycle", "set_lock_level",
   "queue_config", "apply_config_now", "load_hal_program", "prepare_swap",
   "commit_swap", "rollback_swap", "deploy_hmi_layout"}

ASSUME OpsAssumption == Ops \subseteq AllOps
ASSUME ProgramsAssumption == WellFormed \subseteq Programs /\ None \notin Programs
ASSUME BoundsAssumption == MaxDeploys \in Nat /\ MaxSteps \in Nat

\* LockLevel: None, Load, Config, Params, Run, All.
Levels == 0..5
Run == 4

VARIABLES
  pc,               \* control thread; "done" when no thread is running
  running, paused, step_requested,
  lock_level,
  config_queue,
  applied,          \* commands handed to the middleware, in order
  accepted,         \* commands queue_config answered Ok to, in order
  sent,             \* commands some caller has submitted
  pending_swap, swap_committed,
  taken,            \* the program the control thread is installing
  hal_program, hal_executor,
  used,             \* programs some caller has sent
  committed,        \* programs that were pending when a commit_swap checked
  discarded,        \* programs a rollback_swap or another prepare_swap
                    \* removed while they were pending
  hmi_gen,          \* hmi_layout_generation
  pending_hmi,      \* generation of pending_hmi_layout, 0 when it is None
  hmi_layout,       \* generation of the active layout, 0 when it is None
  budget,           \* cycles that may still start under the present pause
  steps,            \* step_cycle calls so far
  cpc, carg         \* a caller's position in its call and its local value

loopVars == <<pc, running, paused, step_requested, budget, steps>>
confVars == <<lock_level, config_queue, applied, accepted, sent>>
swapVars == <<pending_swap, swap_committed, used, committed, discarded>>
progVars == <<taken, hal_program, hal_executor>>
hmiVars  == <<hmi_gen, pending_hmi, hmi_layout>>
callVars == <<cpc, carg>>
vars == <<loopVars, confVars, swapVars, progVars, hmiVars, callVars>>

\* pending_swap's write lock is held from the take to the end of the block.
SwapLocked == pc \in {"swap_program", "swap_executor", "swap_clear"}

-----------------------------------------------------------------------------
Init ==
  /\ pc = "done" /\ running = FALSE /\ paused = FALSE /\ step_requested = FALSE
  /\ budget = 0 /\ steps = 0
  /\ lock_level = 0 /\ config_queue = <<>> /\ applied = <<>>
  /\ accepted = <<>> /\ sent = {}
  /\ pending_swap = None /\ swap_committed = FALSE
  /\ used = {} /\ committed = {} /\ discarded = {}
  /\ taken = None /\ hal_program = None /\ hal_executor = None
  /\ hmi_gen = 0 /\ pending_hmi = 0 /\ hmi_layout = 0
  /\ cpc = [c \in Clients |-> "idle"] /\ carg = [c \in Clients |-> None]

-----------------------------------------------------------------------------
(* The control thread.                                                     *)

Goto(from, to) == pc = from /\ pc' = to

\* A step of the control thread that only tests shared flags.
Test(from, to) ==
  /\ Goto(from, to)
  /\ UNCHANGED <<running, paused, step_requested, budget, steps>>
  /\ UNCHANGED <<confVars, swapVars, progVars, hmiVars, callVars>>

\* while running { ...
LoopHead == Test("loop", IF running THEN "wait_running" ELSE "done")

\* Mutant: the first pause loop does not test running.
WaitRunning_Untested == Test("wait_running", "wait_paused")

\* First pause loop: while running && paused && !step_requested { sleep }.
WaitRunning == Test("wait_running", IF running THEN "wait_paused" ELSE "check")
WaitPaused == Test("wait_paused", IF paused THEN "wait_step" ELSE "check")
WaitStep == Test("wait_step", IF step_requested THEN "check" ELSE "wait_running")

\* if !running { break }
CheckRunning == Test("check", IF running THEN "again_paused" ELSE "done")

\* Second pause loop, which does not test running.
AgainPaused == Test("again_paused", IF paused THEN "again_step" ELSE "clear_step")
AgainStep == Test("again_step", IF step_requested THEN "clear_step" ELSE "again_paused")

\* Mutant: the step request is not cleared when the cycle starts.
StartCycle_KeepsStep ==
  /\ Goto("clear_step", "config")
  /\ budget' = IF paused THEN budget - 1 ELSE budget
  /\ UNCHANGED <<running, paused, step_requested, steps>>
  /\ UNCHANGED <<confVars, swapVars, progVars, hmiVars, callVars>>

\* step_requested.store(false): the cycle starts here.
StartCycle ==
  /\ Goto("clear_step", "config")
  /\ step_requested' = FALSE
  /\ budget' = IF paused THEN budget - 1 ELSE budget
  /\ UNCHANGED <<running, paused, steps>>
  /\ UNCHANGED <<confVars, swapVars, progVars, hmiVars, callVars>>

\* Mutant: the queue is copied instead of drained.
ApplyConfig_Copies ==
  /\ Goto("config", "swap")
  /\ applied' = applied \o config_queue
  /\ UNCHANGED <<running, paused, step_requested, budget, steps>>
  /\ UNCHANGED <<lock_level, config_queue, accepted, sent>>
  /\ UNCHANGED <<swapVars, progVars, hmiVars, callVars>>

\* Mutant: the queue is cleared without applying its commands.
ApplyConfig_Drops ==
  /\ Goto("config", "swap")
  /\ config_queue' = <<>>
  /\ UNCHANGED <<running, paused, step_requested, budget, steps>>
  /\ UNCHANGED <<lock_level, applied, accepted, sent>>
  /\ UNCHANGED <<swapVars, progVars, hmiVars, callVars>>

\* Config Barrier: drain the queue into the middleware and apply it, under
\* the config_queue lock.  The runtime never raises the middleware's own lock
\* level, so the middleware accepts every command.
ApplyConfig ==
  /\ Goto("config", "swap")
  /\ applied' = applied \o config_queue
  /\ config_queue' = <<>>
  /\ UNCHANGED <<running, paused, step_requested, budget, steps>>
  /\ UNCHANGED <<lock_level, accepted, sent>>
  /\ UNCHANGED <<swapVars, progVars, hmiVars, callVars>>

\* Mutant: the boundary never looks at the committed flag.
SwapTest_Skipped == Test("swap", "hmi")

\* if swap_committed { ...
SwapTest == Test("swap", IF swap_committed THEN "swap_lock" ELSE "hmi")

\* Mutant: the pending program is read and left in place.
SwapTake_Peeks ==
  /\ Goto("swap_lock", IF pending_swap = None THEN "swap_clear" ELSE "swap_program")
  /\ taken' = pending_swap
  /\ UNCHANGED <<running, paused, step_requested, budget, steps>>
  /\ UNCHANGED <<pending_swap, swap_committed, used, committed, discarded>>
  /\ UNCHANGED <<hal_program, hal_executor, confVars, hmiVars, callVars>>

\* pending_swap.write(), pending.take()
SwapTake ==
  /\ Goto("swap_lock", IF pending_swap = None THEN "swap_clear" ELSE "swap_program")
  /\ taken' = pending_swap
  /\ pending_swap' = None
  /\ UNCHANGED <<running, paused, step_requested, budget, steps>>
  /\ UNCHANGED <<swap_committed, used, committed, discarded, hal_program, hal_executor>>
  /\ UNCHANGED <<confVars, hmiVars, callVars>>

\* *hal_program.write() = Some(program)
SwapProgram ==
  /\ Goto("swap_program", "swap_executor")
  /\ hal_program' = taken
  /\ UNCHANGED <<running, paused, step_requested, budget, steps>>
  /\ UNCHANGED <<taken, hal_executor>>
  /\ UNCHANGED <<confVars, swapVars, hmiVars, callVars>>

\* *hal_executor.write() = Some(executor)
SwapExecutor ==
  /\ Goto("swap_executor", "swap_clear")
  /\ hal_executor' = taken
  /\ taken' = None
  /\ UNCHANGED <<running, paused, step_requested, budget, steps>>
  /\ UNCHANGED hal_program
  /\ UNCHANGED <<confVars, swapVars, hmiVars, callVars>>

\* swap_committed.store(false), then the lock on pending_swap is released.
SwapClear ==
  /\ Goto("swap_clear", "hmi")
  /\ swap_committed' = FALSE
  /\ UNCHANGED <<running, paused, step_requested, budget, steps>>
  /\ UNCHANGED <<pending_swap, used, committed, discarded>>
  /\ UNCHANGED <<confVars, progVars, hmiVars, callVars>>

\* Take the pending HMI layout and write the file; the layout becomes active
\* only if the write succeeds, and it is no longer pending in either case.
ApplyHmi ==
  /\ Goto("hmi", "read_barrier")
  /\ pending_hmi' = 0
  /\ hmi_layout' \in IF pending_hmi = 0 THEN {hmi_layout} ELSE {hmi_layout, pending_hmi}
  /\ UNCHANGED <<running, paused, step_requested, budget, steps, hmi_gen>>
  /\ UNCHANGED <<confVars, swapVars, progVars, callVars>>

\* Where the control thread is in the cycle body: at the read barrier, in the
\* program (the executor's lock is held while it runs), at the write barrier.
\* What these phases do to the signals is in FieldBus, HalVm and Ipc.
ReadBarrier == Test("read_barrier", "execute")
Execute == Test("execute", "write_barrier")
WriteBarrier == Test("write_barrier", "loop")

EngineStep ==
  \/ LoopHead \/ WaitRunning \/ WaitPaused \/ WaitStep \/ CheckRunning
  \/ AgainPaused \/ AgainStep \/ StartCycle
  \/ ApplyConfig \/ SwapTest \/ SwapTake \/ SwapProgram \/ SwapExecutor \/ SwapClear
  \/ ApplyHmi \/ ReadBarrier \/ Execute \/ WriteBarrier

-----------------------------------------------------------------------------
(* Calls.  Idle(c, op): caller c is free to call op.                       *)

Idle(c, op) == op \in Ops /\ cpc[c] = "idle"

Enter(c, at, value) ==
  /\ cpc' = [cpc EXCEPT ![c] = at]
  /\ carg' = [carg EXCEPT ![c] = value]

Return(c) == Enter(c, "idle", None)

\* start_with_cycle: main and the harness call it when no thread runs.
Start ==
  /\ "start" \in Ops /\ pc = "done"
  /\ running' = TRUE /\ pc' = "loop"
  /\ UNCHANGED <<paused, step_requested, budget, steps>>
  /\ UNCHANGED <<confVars, swapVars, progVars, hmiVars, callVars>>

Stop ==
  /\ "stop" \in Ops /\ running
  /\ running' = FALSE
  /\ UNCHANGED <<pc, paused, step_requested, budget, steps>>
  /\ UNCHANGED <<confVars, swapVars, progVars, hmiVars, callVars>>

\* paused.store(true); a new pause lets the cycle being started finish.
SetPaused ==
  /\ paused' = TRUE
  /\ budget' = IF paused THEN budget ELSE 1

Pause(c) ==
  /\ Idle(c, "pause")
  /\ SetPaused
  /\ UNCHANGED <<pc, running, step_requested, steps>>
  /\ UNCHANGED <<confVars, swapVars, progVars, hmiVars, callVars>>

Resume(c) ==
  /\ Idle(c, "resume")
  /\ paused' = FALSE /\ budget' = 0
  /\ UNCHANGED <<pc, running, step_requested, steps>>
  /\ UNCHANGED <<confVars, swapVars, progVars, hmiVars, callVars>>

\* step_cycle: two stores.
StepPause(c) ==
  /\ Idle(c, "step_cycle") /\ steps < MaxSteps
  /\ SetPaused
  /\ steps' = steps + 1
  /\ Enter(c, "step_request", None)
  /\ UNCHANGED <<pc, running, step_requested>>
  /\ UNCHANGED <<confVars, swapVars, progVars, hmiVars>>

StepRequest(c) ==
  /\ cpc[c] = "step_request"
  /\ step_requested' = TRUE
  /\ budget' = IF paused THEN budget + 1 ELSE budget
  /\ Return(c)
  /\ UNCHANGED <<pc, running, paused, steps>>
  /\ UNCHANGED <<confVars, swapVars, progVars, hmiVars>>

\* set_lock_level: under the write lock; a lower level is an error.
SetLockLevel(c) ==
  /\ Idle(c, "set_lock_level")
  /\ \E new \in Levels : new > lock_level /\ lock_level' = new
  /\ UNCHANGED <<config_queue, applied, accepted, sent>>
  /\ UNCHANGED <<loopVars, swapVars, progVars, hmiVars, callVars>>

\* queue_config: the level's read lock is held across the push.
QueueConfig(c) ==
  /\ Idle(c, "queue_config")
  /\ \E cmd \in Cmds \ sent :
       /\ sent' = sent \cup {cmd}
       /\ IF lock_level >= Run
            THEN UNCHANGED <<config_queue, accepted>>
            ELSE /\ config_queue' = Append(config_queue, cmd)
                 /\ accepted' = Append(accepted, cmd)
  /\ UNCHANGED <<lock_level, applied>>
  /\ UNCHANGED <<loopVars, swapVars, progVars, hmiVars, callVars>>

ApplyConfigNow(c) ==
  /\ Idle(c, "apply_config_now")
  /\ config_queue # <<>>
  /\ applied' = applied \o config_queue
  /\ config_queue' = <<>>
  /\ UNCHANGED <<lock_level, accepted, sent>>
  /\ UNCHANGED <<loopVars, swapVars, progVars, hmiVars, callVars>>

\* load_hal_program: validate, then replace the program and the executor
\* under two separate locks, whatever the control thread is doing.
LoadProgram(c) ==
  /\ Idle(c, "load_hal_program")
  /\ \E p \in Programs \ used :
       /\ used' = used \cup {p}
       /\ IF p \in WellFormed
            THEN hal_program' = p /\ Enter(c, "load_executor", p)
            ELSE UNCHANGED <<hal_program, callVars>>
  /\ UNCHANGED <<pending_swap, swap_committed, committed, discarded, taken, hal_executor>>
  /\ UNCHANGED <<loopVars, confVars, hmiVars>>

LoadExecutor(c) ==
  /\ cpc[c] = "load_executor"
  /\ hal_executor' = carg[c]
  /\ Return(c)
  /\ UNCHANGED <<taken, hal_program>>
  /\ UNCHANGED <<loopVars, confVars, swapVars, hmiVars>>

\* Mutant: the program is stored without validation.
PrepareSwap_Unchecked(c) ==
  /\ Idle(c, "prepare_swap") /\ ~SwapLocked
  /\ \E p \in Programs \ used : used' = used \cup {p} /\ pending_swap' = p
  /\ UNCHANGED <<swap_committed, committed, discarded>>
  /\ UNCHANGED <<loopVars, confVars, progVars, hmiVars, callVars>>

\* prepare_swap: validate and overwrite whatever is pending.
PrepareSwap(c) ==
  /\ Idle(c, "prepare_swap") /\ ~SwapLocked
  /\ \E p \in Programs \ used :
       /\ used' = used \cup {p}
       /\ IF p \in WellFormed
            THEN /\ pending_swap' = p
                 /\ discarded' = discarded \cup ({pending_swap} \ {None})
            ELSE UNCHANGED <<pending_swap, discarded>>
  /\ UNCHANGED <<swap_committed, committed>>
  /\ UNCHANGED <<loopVars, confVars, progVars, hmiVars, callVars>>

\* commit_swap: check under a read lock that is released, then raise the flag.
CommitCheck(c) ==
  /\ Idle(c, "commit_swap") /\ ~SwapLocked
  /\ pending_swap # None
  /\ committed' = committed \cup {pending_swap}
  /\ Enter(c, "commit_store", pending_swap)
  /\ UNCHANGED <<pending_swap, swap_committed, used, discarded>>
  /\ UNCHANGED <<loopVars, confVars, progVars, hmiVars>>

\* Mutant: the commit installs the program at once.
CommitStore_Installs(c) ==
  /\ cpc[c] = "commit_store"
  /\ hal_program' = carg[c] /\ hal_executor' = carg[c]
  /\ Return(c)
  /\ UNCHANGED <<swap_committed, pending_swap, used, committed, discarded, taken>>
  /\ UNCHANGED <<loopVars, confVars, hmiVars>>

CommitStore(c) ==
  /\ cpc[c] = "commit_store"
  /\ swap_committed' = TRUE
  /\ Return(c)
  /\ UNCHANGED <<pending_swap, used, committed, discarded>>
  /\ UNCHANGED <<loopVars, confVars, progVars, hmiVars>>

\* Mutant: only the flag is cleared, the program stays pending.
RollbackDrop_Keeps(c) ==
  /\ Idle(c, "rollback_swap") /\ ~SwapLocked
  /\ discarded' = discarded \cup ({pending_swap} \ {None})
  /\ Enter(c, "rollback_store", None)
  /\ UNCHANGED <<pending_swap, swap_committed, used, committed>>
  /\ UNCHANGED <<loopVars, confVars, progVars, hmiVars>>

\* rollback_swap: drop the pending program, then clear the flag.
RollbackDrop(c) ==
  /\ Idle(c, "rollback_swap") /\ ~SwapLocked
  /\ discarded' = discarded \cup ({pending_swap} \ {None})
  /\ pending_swap' = None
  /\ Enter(c, "rollback_store", None)
  /\ UNCHANGED <<swap_committed, used, committed>>
  /\ UNCHANGED <<loopVars, confVars, progVars, hmiVars>>

RollbackStore(c) ==
  /\ cpc[c] = "rollback_store"
  /\ swap_committed' = FALSE
  /\ Return(c)
  /\ UNCHANGED <<pending_swap, used, committed, discarded>>
  /\ UNCHANGED <<loopVars, confVars, progVars, hmiVars>>

\* deploy_hmi_layout of a layout that parses: take the next generation, then
\* overwrite the pending layout.
DeployGeneration(c) ==
  /\ Idle(c, "deploy_hmi_layout") /\ hmi_gen < MaxDeploys
  /\ hmi_gen' = hmi_gen + 1
  /\ Enter(c, "deploy_store", hmi_gen + 1)
  /\ UNCHANGED <<pending_hmi, hmi_layout>>
  /\ UNCHANGED <<loopVars, confVars, swapVars, progVars>>

DeployStore(c) ==
  /\ cpc[c] = "deploy_store"
  /\ pending_hmi' = carg[c]
  /\ Return(c)
  /\ UNCHANGED <<hmi_gen, hmi_layout>>
  /\ UNCHANGED <<loopVars, confVars, swapVars, progVars>>

\* The second half of a call that has begun.
Finish(c) ==
  \/ StepRequest(c) \/ LoadExecutor(c) \/ CommitStore(c)
  \/ RollbackStore(c) \/ DeployStore(c)

Call(c) ==
  \/ Pause(c) \/ Resume(c) \/ StepPause(c)
  \/ SetLockLevel(c) \/ QueueConfig(c) \/ ApplyConfigNow(c)
  \/ LoadProgram(c) \/ PrepareSwap(c) \/ CommitCheck(c) \/ RollbackDrop(c)
  \/ DeployGeneration(c)

Next ==
  \/ EngineStep
  \/ Start \/ Stop
  \/ \E c \in Clients : Call(c) \/ Finish(c)

Spec == Init /\ [][Next]_vars

\* The control thread and a thread inside a call are scheduled by the OS and
\* keep running; nobody is obliged to call.
Fairness == WF_vars(EngineStep) /\ \A c \in Clients : WF_vars(Finish(c))

FairSpec == Spec /\ Fairness

-----------------------------------------------------------------------------
(* Properties.                                                             *)

ControlPoints ==
  {"done", "loop", "wait_running", "wait_paused", "wait_step", "check",
   "again_paused", "again_step", "clear_step", "config", "swap", "swap_lock",
   "swap_program", "swap_executor", "swap_clear", "hmi",
   "read_barrier", "execute", "write_barrier"}

CallPoints ==
  {"idle", "step_request", "load_executor", "commit_store", "rollback_store",
   "deploy_store"}

TypeLoop ==
  /\ pc \in ControlPoints
  /\ running \in BOOLEAN /\ paused \in BOOLEAN /\ step_requested \in BOOLEAN
  /\ budget \in Int /\ steps \in 0..MaxSteps

TypeConf ==
  /\ lock_level \in Levels
  /\ config_queue \in Seq(Cmds) /\ applied \in Seq(Cmds) /\ accepted \in Seq(Cmds)
  /\ sent \subseteq Cmds

TypeSwap ==
  /\ {pending_swap, taken, hal_program, hal_executor} \subseteq WellFormed \cup {None}
  /\ swap_committed \in BOOLEAN
  /\ used \subseteq Programs /\ committed \subseteq WellFormed /\ discarded \subseteq WellFormed

TypeHmi ==
  hmi_gen \in 0..MaxDeploys /\ pending_hmi \in 0..hmi_gen /\ hmi_layout \in 0..hmi_gen

TypeCall ==
  /\ cpc \in [Clients -> CallPoints]
  /\ carg \in [Clients -> WellFormed \cup {None} \cup Nat]
  /\ \A c \in Clients :
       /\ cpc[c] \in {"load_executor", "commit_store"} => carg[c] \in WellFormed
       /\ cpc[c] = "deploy_store" => carg[c] \in 1..hmi_gen

\* Every variable stays in its type; a program that is pending, installed or
\* about to be installed has passed the check for a Halt instruction, and no
\* generation exceeds the counter deploy_hmi_layout draws them from.
TypeOK == TypeLoop /\ TypeConf /\ TypeSwap /\ TypeHmi /\ TypeCall

\* Every command queue_config accepted is handed to the middleware exactly
\* once and in the order of acceptance, whether the control thread's barrier
\* or a caller's apply_config_now drains the queue.
ConfigFifo == accepted = applied \o config_queue

\* Once the lock level has reached Run it never drops below it again and no
\* further command is accepted, however set_lock_level and queue_config
\* calls of different threads interleave.
RunFreezesConfig ==
  [][lock_level >= Run => lock_level' >= lock_level /\ accepted' = accepted]_vars

\* Under a pause, the number of cycles that start is at most one (the cycle
\* whose pause test had already passed) plus one per step_cycle call.
PauseHolds == paused => budget >= 0

\* A program that rollback_swap dropped while it was pending, or that another
\* prepare_swap replaced, is never installed, also when the boundary was about
\* to take it.
DiscardedNeverRuns == discarded \cap {taken, hal_program, hal_executor} = {}

MidCycle == pc \in {"read_barrier", "execute", "write_barrier"}

\* Between the read barrier and the write barrier of a cycle the program that
\* runs is replaced by nobody but a direct load_hal_program in its second
\* store: never by the swap block, a commit or a rollback.
ProgramFixedMidCycle ==
  [][MidCycle /\ hal_executor' # hal_executor
       => \E c \in Clients : cpc[c] = "load_executor" /\ hal_executor' = carg[c]]_vars

\* Where programs arrive only by hot-swap, it is not replaced at all.
SwapsOnlyAtBoundary == [][MidCycle => hal_executor' = hal_executor]_vars

\* Outside the swap block, the stored program and the executor belong to the
\* same program: a hot-swap leaves no intermediate state behind.
SwapConsistent == ~SwapLocked => hal_program = hal_executor

\* The swap block seen as one step: the program it has taken is pending and
\* the swap is armed until the executor is replaced.
Swapping == pc \in {"swap_lock", "swap_program", "swap_executor"}
HS == INSTANCE HotSwap WITH
        Programs <- WellFormed,
        pending  <- IF pc \in {"swap_program", "swap_executor"} THEN taken ELSE pending_swap,
        armed    <- Swapping \/ (swap_committed /\ pc # "swap_clear"),
        active   <- hal_executor,
        loading  <- [c \in Clients |-> IF cpc[c] = "load_executor" THEN carg[c] ELSE None]

\* The swap block with its several locks, raced by prepare, commit, rollback
\* and load calls, implements a replacement in one step at the boundary.
HotSwapSpec == HS!Spec

\* Only a program that was pending when a commit_swap call checked it runs.
OnlyCommittedRuns == hal_executor \in committed \cup {None}

\* Deploys running in different threads never share a generation, and no
\* deploy in progress holds the generation of the pending or active layout.
GenerationsDistinct ==
  /\ \A c, d \in Clients :
       cpc[c] = "deploy_store" /\ cpc[d] = "deploy_store" /\ c # d => carg[c] # carg[d]
  /\ \A c \in Clients :
       cpc[c] = "deploy_store" => carg[c] \notin {pending_hmi, hmi_layout}
  /\ pending_hmi # 0 => pending_hmi # hmi_layout

\* An accepted command reaches the middleware, unless the engine is stopped
\* or paused.
AcceptedApplied ==
  \A cmd \in Cmds :
    (\E i \in DOMAIN accepted : accepted[i] = cmd)
      ~> ((\E i \in DOMAIN applied : applied[i] = cmd) \/ ~running \/ paused)

\* A pending program whose swap is armed does not stay pending: the next
\* boundary takes it, unless it is replaced or rolled back before.  Its flag is
\* lost only to a rollback_swap that is between its two steps.
ArmedSwapLeaves ==
  \A p \in WellFormed :
    (swap_committed /\ pending_swap = p)
      ~> \/ pending_swap # p \/ ~running \/ paused
         \/ \E c \in Clients : cpc[c] = "rollback_store"

\* After stop() the control thread ends, so that joining it returns.
StopEnds == ~running ~> (pc = "done" \/ running)

\* After stop() the control thread ends or is in the second pause loop, the
\* only place that does not look at the running flag.
StopEndsOrPaused ==
  ~running ~> (pc = "done" \/ running \/ (paused /\ pc \in {"again_paused", "again_step"}))

\* Steps of the control thread that are left once running is false.
StepsToEnd ==
  CASE pc = "done" -> 0
    [] pc \in {"loop", "check"} -> 1
    [] pc \in {"wait_running", "write_barrier"} -> 2
    [] pc \in {"wait_step", "execute"} -> 3
    [] pc \in {"wait_paused", "read_barrier"} -> 4
    [] pc = "hmi" -> 5
    [] pc = "swap_clear" -> 6
    [] pc = "swap_executor" -> 7
    [] pc = "swap_program" -> 8
    [] pc = "swap_lock" -> 9
    [] pc = "swap" -> 10
    [] pc = "config" -> 11
    [] pc = "clear_step" -> 12
    [] pc = "again_paused" -> 13
    [] pc = "again_step" -> 14

\* After stop() every step of the control thread leaves it fewer steps to its
\* end, whatever the callers do meanwhile; the one exception is the test of
\* paused in the second pause loop, which a pause makes it repeat.
StopWindsDown ==
  [][~running /\ ~running' /\ pc' # pc
       => StepsToEnd' < StepsToEnd \/ (paused /\ pc = "again_paused")]_vars

-----------------------------------------------------------------------------
(* Inductive strengthenings, used in Engine_proofs.                        *)

\* Under a pause, a cycle can start only past the second pause test or on a
\* step request, and the budget covers that cycle.
PauseInv == paused => budget >= IF step_requested \/ pc = "clear_step" THEN 1 ELSE 0

\* Programs a caller is about to install with load_hal_program.
Loading == {carg[c] : c \in {d \in Clients : cpc[d] = "load_executor"}}
Installed == {taken, hal_program, hal_executor} \cup Loading

\* Every stored program was sent once; the pending one is stored nowhere else
\* and no stored one has been discarded.
ProgramInv ==
  /\ Installed \cup {pending_swap} \subseteq used \cup {None}
  /\ discarded \subseteq used
  /\ pending_swap # None => pending_swap \notin Installed
  /\ discarded \cap (Installed \cup {pending_swap}) = {}

\* Without direct loads, the control thread is the only one that installs a
\* program, and the two stores of a swap differ only between them.
SwapInv ==
  /\ \A c \in Clients : cpc[c] # "load_executor"
  /\ IF pc = "swap_executor" THEN hal_program = taken ELSE hal_program = hal_executor

\* While the swap block holds the lock, nothing is pending; the program it
\* took exists until it is installed.
TakeInv ==
  /\ SwapLocked => pending_swap = None
  /\ pc \in {"swap_program", "swap_executor"} => taken # None

=============================================================================

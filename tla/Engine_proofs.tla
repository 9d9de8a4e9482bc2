--------------------------- MODULE Engine_proofs ---------------------------
(***************************************************************************)
(* Proofs about Engine, for any number of callers, commands, programs and  *)
(* any bounds.  Liveness stays with TLC.                                   *)
(***************************************************************************)
EXTENDS Engine, SequenceTheorems, TLAPS

-----------------------------------------------------------------------------
(* Type correctness, one group of variables at a time.                     *)

\* A step of the control thread or of a caller that only tests or moves.
LEMMA FrameTypes ==
  ASSUME TypeOK
  PROVE  /\ UNCHANGED loopVars => TypeLoop'
         /\ UNCHANGED confVars => TypeConf'
         /\ UNCHANGED <<swapVars, progVars>> => TypeSwap'
         /\ UNCHANGED hmiVars => TypeHmi'
         /\ UNCHANGED <<callVars, hmi_gen>> => TypeCall'
<1>1. UNCHANGED loopVars => TypeLoop'
  BY DEF TypeOK, TypeLoop, loopVars
<1>2. UNCHANGED confVars => TypeConf'
  BY DEF TypeOK, TypeConf, confVars
<1>3. UNCHANGED <<swapVars, progVars>> => TypeSwap'
  BY DEF TypeOK, TypeSwap, swapVars, progVars
<1>4. UNCHANGED hmiVars => TypeHmi'
  BY DEF TypeOK, TypeHmi, hmiVars
<1>5. UNCHANGED <<callVars, hmi_gen>> => TypeCall'
  BY DEF TypeOK, TypeCall, callVars
<1> QED
  BY <1>1, <1>2, <1>3, <1>4, <1>5

\* The flags and the control point of the loop stay typed.
LEMMA LoopTypes == TypeOK /\ [Next]_vars => TypeLoop'
<1> SUFFICES ASSUME TypeOK, [Next]_vars PROVE TypeLoop'
  OBVIOUS
<1> USE BoundsAssumption DEF TypeOK, TypeLoop
<1>1. CASE UNCHANGED loopVars
  BY <1>1, FrameTypes
<1>2. ASSUME NEW from, NEW to \in ControlPoints, Goto(from, to),
             UNCHANGED <<running, paused, step_requested, budget, steps>>
      PROVE  TypeLoop'
  BY <1>2 DEF Goto
<1>3. CASE EngineStep
  <2>1. CASE StartCycle
    <3>1. budget' \in {budget, budget - 1} /\ step_requested' = FALSE
          /\ pc' = "config" /\ UNCHANGED <<running, paused, steps>>
      BY <2>1 DEF StartCycle, Goto
    <3>2. budget' \in Int
      BY <3>1
    <3>3. pc' \in ControlPoints
      BY <3>1 DEF ControlPoints
    <3> QED
      BY <3>1, <3>2, <3>3
  <2>2. CASE LoopHead \/ WaitRunning \/ WaitPaused \/ WaitStep \/ CheckRunning
             \/ AgainPaused \/ AgainStep
    BY <2>2, <1>2 DEF LoopHead, WaitRunning, WaitPaused, WaitStep, CheckRunning,
                      AgainPaused, AgainStep, Test, ControlPoints
  <2>3. CASE ApplyConfig \/ SwapTest \/ SwapTake \/ SwapProgram \/ SwapExecutor
    BY <2>3, <1>2 DEF ApplyConfig, SwapTest, SwapTake, SwapProgram, SwapExecutor, Test, ControlPoints
  <2>4. CASE SwapClear \/ ApplyHmi \/ ReadBarrier \/ Execute \/ WriteBarrier
    BY <2>4, <1>2 DEF SwapClear, ApplyHmi, ReadBarrier, Execute, WriteBarrier, Test, ControlPoints
  <2> QED
    BY <1>3, <2>1, <2>2, <2>3, <2>4 DEF EngineStep
<1>4. CASE Start \/ Stop
  BY <1>4 DEF Start, Stop, ControlPoints
<1>5. ASSUME NEW c \in Clients, Call(c) \/ Finish(c) PROVE TypeLoop'
  <2>1. CASE Pause(c) \/ Resume(c)
    <3>1. /\ budget' \in {budget, 0, 1} /\ paused' \in BOOLEAN
          /\ UNCHANGED <<pc, running, step_requested, steps>>
      BY <2>1 DEF Pause, Resume, SetPaused
    <3> QED
      BY <3>1
  <2>2. CASE StepPause(c)
    <3>1. /\ budget' \in {budget, 1} /\ paused' = TRUE
          /\ steps < MaxSteps /\ steps' = steps + 1
          /\ UNCHANGED <<pc, running, step_requested>>
      BY <2>2 DEF StepPause, SetPaused
    <3> QED
      BY <3>1
  <2>3. CASE StepRequest(c)
    <3>1. /\ budget' \in {budget, budget + 1} /\ step_requested' = TRUE
          /\ UNCHANGED <<pc, running, paused, steps>>
      BY <2>3 DEF StepRequest
    <3> QED
      BY <3>1
  <2> QED
    BY <1>1, <1>5, <2>1, <2>2, <2>3
    DEF Call, Finish, SetLockLevel, QueueConfig, ApplyConfigNow, LoadProgram, LoadExecutor,
        PrepareSwap, CommitCheck, CommitStore, RollbackDrop, RollbackStore,
        DeployGeneration, DeployStore
<1> QED
  BY <1>1, <1>3, <1>4, <1>5 DEF Next, vars

\* What a step may do to the configuration variables: nothing, raise the
\* level, submit one command (queued only below Run), or drain the queue.
LEMMA ConfSteps ==
  [Next]_vars =>
    \/ UNCHANGED confVars
    \/ /\ \E new \in Levels : new > lock_level /\ lock_level' = new
       /\ UNCHANGED <<config_queue, applied, accepted, sent>>
    \/ /\ \E cmd \in Cmds :
            /\ sent' = sent \cup {cmd}
            /\ \/ UNCHANGED <<config_queue, accepted>>
               \/ /\ ~(lock_level >= Run)
                  /\ config_queue' = Append(config_queue, cmd)
                  /\ accepted' = Append(accepted, cmd)
       /\ UNCHANGED <<lock_level, applied>>
    \/ /\ applied' = applied \o config_queue /\ config_queue' = <<>>
       /\ UNCHANGED <<lock_level, accepted, sent>>
<1> SUFFICES ASSUME Next PROVE ConfSteps!2
  BY DEF vars
<1>1. CASE EngineStep
  BY <1>1 DEF EngineStep, LoopHead, WaitRunning, WaitPaused, WaitStep, CheckRunning, AgainPaused,
     AgainStep, StartCycle, ApplyConfig, SwapTest, SwapTake, SwapProgram, SwapExecutor,
     SwapClear, ApplyHmi, ReadBarrier, Execute, WriteBarrier, Test
<1>2. CASE Start \/ Stop
  BY <1>2 DEF Start, Stop
<1>3. ASSUME NEW c \in Clients, SetLockLevel(c) \/ QueueConfig(c) \/ ApplyConfigNow(c)
      PROVE  ConfSteps!2
  BY <1>3 DEF SetLockLevel, QueueConfig, ApplyConfigNow
<1>4. ASSUME NEW c \in Clients, Call(c) \/ Finish(c) PROVE ConfSteps!2
  BY <1>3, <1>4 DEF Call, Finish, Pause, Resume, StepPause, StepRequest, LoadProgram, LoadExecutor,
     PrepareSwap, CommitCheck, CommitStore, RollbackDrop, RollbackStore, DeployGeneration, DeployStore
<1> QED
  BY <1>1, <1>2, <1>4 DEF Next

\* The lock level and the command sequences stay typed.
LEMMA ConfTypes == TypeOK /\ [Next]_vars => TypeConf'
<1> SUFFICES ASSUME TypeOK, [Next]_vars PROVE TypeConf'
  OBVIOUS
<1> USE DEF TypeOK, TypeConf
<1>1. CASE UNCHANGED confVars
  BY <1>1, FrameTypes
<1>2. CASE /\ \E new \in Levels : new > lock_level /\ lock_level' = new
           /\ UNCHANGED <<config_queue, applied, accepted, sent>>
  BY <1>2
<1>3. ASSUME NEW cmd \in Cmds, sent' = sent \cup {cmd}, UNCHANGED <<lock_level, applied>>,
             \/ UNCHANGED <<config_queue, accepted>>
             \/ config_queue' = Append(config_queue, cmd) /\ accepted' = Append(accepted, cmd)
      PROVE  TypeConf'
  <2>1. Append(config_queue, cmd) \in Seq(Cmds) /\ Append(accepted, cmd) \in Seq(Cmds)
    BY AppendProperties
  <2> QED
    BY <1>3, <2>1
<1>4. CASE /\ applied' = applied \o config_queue /\ config_queue' = <<>>
           /\ UNCHANGED <<lock_level, accepted, sent>>
  BY <1>4, ConcatProperties, EmptySeq
<1> QED
  BY <1>1, <1>2, <1>3, <1>4, ConfSteps

\* A stored program has passed is_well_formed.
LEMMA SwapTypes == TypeOK /\ [Next]_vars => TypeSwap'
<1> SUFFICES ASSUME TypeOK, [Next]_vars PROVE TypeSwap'
  OBVIOUS
<1> USE ProgramsAssumption DEF TypeOK, TypeSwap, TypeCall, swapVars, progVars
<1>1. CASE UNCHANGED <<swapVars, progVars>>
  BY <1>1
<1>2. CASE EngineStep
  <2>1. CASE SwapTake \/ SwapProgram
    BY <2>1 DEF SwapTake, SwapProgram
  <2>2. CASE SwapExecutor \/ SwapClear
    BY <2>2 DEF SwapExecutor, SwapClear
  <2> QED
    BY <1>1, <1>2, <2>1, <2>2 DEF EngineStep, LoopHead, WaitRunning, WaitPaused, WaitStep,
       CheckRunning, AgainPaused, AgainStep, StartCycle, ApplyConfig, SwapTest, ApplyHmi,
       ReadBarrier, Execute, WriteBarrier, Test
<1>3. CASE Start \/ Stop
  BY <1>1, <1>3 DEF Start, Stop
<1>4. ASSUME NEW c \in Clients, Call(c) \/ Finish(c) PROVE TypeSwap'
  <2>1. CASE LoadProgram(c)
    BY <2>1 DEF LoadProgram
  <2>2. CASE LoadExecutor(c)
    BY <2>2 DEF LoadExecutor
  <2>3. CASE PrepareSwap(c)
    BY <2>3 DEF PrepareSwap
  <2>4. CASE CommitCheck(c) \/ CommitStore(c)
    BY <2>4 DEF CommitCheck, CommitStore
  <2>5. CASE RollbackDrop(c) \/ RollbackStore(c)
    BY <2>5 DEF RollbackDrop, RollbackStore
  <2> QED
    BY <1>1, <1>4, <2>1, <2>2, <2>3, <2>4, <2>5 DEF Call, Finish, Pause, Resume, StepPause,
       StepRequest, SetLockLevel, QueueConfig, ApplyConfigNow, DeployGeneration, DeployStore
<1> QED
  BY <1>1, <1>2, <1>3, <1>4 DEF Next, vars

\* Generations never exceed the counter.
LEMMA HmiTypes == TypeOK /\ [Next]_vars => TypeHmi'
<1> SUFFICES ASSUME TypeOK, [Next]_vars PROVE TypeHmi'
  OBVIOUS
<1> USE BoundsAssumption DEF TypeOK, TypeHmi, hmiVars
<1>1. CASE UNCHANGED hmiVars
  BY <1>1
<1>2. CASE EngineStep
  <2>1. CASE ApplyHmi
    BY <2>1 DEF ApplyHmi
  <2> QED
    BY <1>1, <1>2, <2>1 DEF EngineStep, LoopHead, WaitRunning, WaitPaused, WaitStep,
       CheckRunning, AgainPaused, AgainStep, StartCycle, ApplyConfig, SwapTest, SwapTake,
       SwapProgram, SwapExecutor, SwapClear, ReadBarrier, Execute, WriteBarrier, Test
<1>3. CASE Start \/ Stop
  BY <1>1, <1>3 DEF Start, Stop
<1>4. ASSUME NEW c \in Clients, Call(c) \/ Finish(c) PROVE TypeHmi'
  <2>1. CASE DeployGeneration(c)
    BY <2>1 DEF DeployGeneration
  <2>2. CASE DeployStore(c)
    BY <2>2 DEF DeployStore, TypeCall
  <2> QED
    BY <1>1, <1>4, <2>1, <2>2 DEF Call, Finish, Pause, Resume, StepPause, StepRequest,
       SetLockLevel, QueueConfig, ApplyConfigNow, LoadProgram, LoadExecutor, PrepareSwap,
       CommitCheck, CommitStore, RollbackDrop, RollbackStore
<1> QED
  BY <1>1, <1>2, <1>3, <1>4 DEF Next, vars

\* What a step may do to the positions of the callers: one caller enters the
\* second half of a call or returns.
LEMMA CallSteps ==
  [Next]_vars =>
    \/ UNCHANGED <<callVars, hmi_gen>>
    \/ \E c \in Clients : Return(c) /\ UNCHANGED hmi_gen
    \/ \E c \in Clients : LoadProgram(c) /\ UNCHANGED hmi_gen
    \/ \E c \in Clients : CommitCheck(c) /\ UNCHANGED hmi_gen
    \/ \E c \in Clients : DeployGeneration(c)
    \/ \E c \in Clients, at \in {"step_request", "rollback_store"} :
         Enter(c, at, None) /\ UNCHANGED hmi_gen
<1> SUFFICES ASSUME Next PROVE CallSteps!2
  BY DEF vars, hmiVars
<1> USE DEF hmiVars
<1>1. CASE EngineStep
  BY <1>1 DEF EngineStep, LoopHead, WaitRunning, WaitPaused, WaitStep, CheckRunning, AgainPaused,
     AgainStep, StartCycle, ApplyConfig, SwapTest, SwapTake, SwapProgram, SwapExecutor,
     SwapClear, ApplyHmi, ReadBarrier, Execute, WriteBarrier, Test
<1>2. CASE Start \/ Stop
  BY <1>2 DEF Start, Stop
<1>3. ASSUME NEW c \in Clients, Call(c) PROVE CallSteps!2
  BY <1>3 DEF Call, Pause, Resume, StepPause, SetLockLevel, QueueConfig, ApplyConfigNow,
     LoadProgram, PrepareSwap, CommitCheck, RollbackDrop
<1>4. ASSUME NEW c \in Clients, Finish(c) PROVE CallSteps!2
  BY <1>4 DEF Finish, StepRequest, LoadExecutor, CommitStore, RollbackStore, DeployStore
<1> QED
  BY <1>1, <1>2, <1>3, <1>4 DEF Next

\* A caller's local value is what its position in the call needs.
LEMMA CallTypes == TypeOK /\ [Next]_vars => TypeCall'
<1> SUFFICES ASSUME TypeOK, [Next]_vars PROVE TypeCall'
  OBVIOUS
<1> USE DEF TypeOK, TypeCall
<1>1. CASE UNCHANGED <<callVars, hmi_gen>>
  BY <1>1, FrameTypes
<1>2. ASSUME NEW c \in Clients, NEW at \in {"idle", "step_request", "rollback_store"},
             Enter(c, at, None), UNCHANGED hmi_gen
      PROVE  TypeCall'
  BY <1>2 DEF Enter, CallPoints
<1>3. ASSUME NEW c \in Clients, LoadProgram(c), UNCHANGED hmi_gen PROVE TypeCall'
  BY <1>3 DEF LoadProgram, Enter, CallPoints, callVars
<1>4. ASSUME NEW c \in Clients, CommitCheck(c), UNCHANGED hmi_gen PROVE TypeCall'
  BY <1>4 DEF CommitCheck, Enter, CallPoints, TypeSwap
<1>5. ASSUME NEW c \in Clients, DeployGeneration(c) PROVE TypeCall'
  BY <1>5 DEF DeployGeneration, Enter, CallPoints, TypeHmi
<1> QED
  BY <1>1, <1>2, <1>3, <1>4, <1>5, CallSteps DEF Return

\* Type correctness of the engine's state: pausing, queueing, swapping,
\* loading and deploying calls keep every variable in its type, and only
\* programs that passed validation are ever stored.
THEOREM EngineTypeOK == Spec => []TypeOK
<1>1. Init => TypeOK
  <2> SUFFICES ASSUME Init PROVE TypeOK
    OBVIOUS
  <2> USE BoundsAssumption DEF Init
  <2>1. TypeLoop
    <3>1. pc = "done" /\ budget = 0 /\ steps = 0
      OBVIOUS
    <3>2. running \in BOOLEAN /\ paused \in BOOLEAN /\ step_requested \in BOOLEAN
      OBVIOUS
    <3> QED
      BY ONLY BoundsAssumption, <3>1, <3>2 DEF TypeLoop, ControlPoints
  <2>2. TypeConf
    <3>1. <<>> \in Seq(Cmds)
      BY EmptySeq
    <3>2. config_queue = <<>> /\ applied = <<>> /\ accepted = <<>> /\ sent = {} /\ lock_level = 0
      OBVIOUS
    <3> QED
      BY ONLY <3>1, <3>2 DEF TypeConf, Levels
  <2>3. TypeSwap /\ TypeHmi
    <3>1. /\ pending_swap = None /\ taken = None /\ hal_program = None /\ hal_executor = None
          /\ used = {} /\ committed = {} /\ discarded = {} /\ swap_committed \in BOOLEAN
      OBVIOUS
    <3>2. hmi_gen = 0 /\ pending_hmi = 0 /\ hmi_layout = 0
      OBVIOUS
    <3> QED
      BY ONLY BoundsAssumption, <3>1, <3>2 DEF TypeSwap, TypeHmi
  <2>4. TypeCall
    <3>1. cpc = [c \in Clients |-> "idle"] /\ carg = [c \in Clients |-> None]
      OBVIOUS
    <3> QED
      BY ONLY <3>1 DEF TypeCall, CallPoints
  <2> QED
    BY <2>1, <2>2, <2>3, <2>4 DEF TypeOK
<1>2. TypeOK /\ [Next]_vars => TypeOK'
  BY LoopTypes, ConfTypes, SwapTypes, HmiTypes, CallTypes DEF TypeOK
<1> QED
  BY <1>1, <1>2, PTL DEF Spec

-----------------------------------------------------------------------------
(* The Config Barrier.                                                     *)

\* Accepted commands are applied exactly once and in order of acceptance:
\* the queue and the middleware's log always make up the accepted sequence.
THEOREM EngineConfigFifo == Spec => []ConfigFifo
<1>1. Init => ConfigFifo
  <2> SUFFICES ASSUME Init PROVE ConfigFifo
    OBVIOUS
  <2>1. config_queue = <<>> /\ applied = <<>> /\ accepted = <<>>
    BY DEF Init
  <2>2. <<>> \o <<>> = <<>>
    BY EmptySeq, ConcatEmptySeq
  <2> QED
    BY <2>1, <2>2 DEF ConfigFifo
<1>2. TypeOK /\ ConfigFifo /\ [Next]_vars => ConfigFifo'
  <2> SUFFICES ASSUME TypeOK, ConfigFifo, [Next]_vars PROVE ConfigFifo'
    OBVIOUS
  <2> USE DEF ConfigFifo, TypeOK, TypeConf
  <2>1. CASE UNCHANGED <<config_queue, applied, accepted>>
    BY <2>1
  <2>2. ASSUME NEW cmd \in Cmds, config_queue' = Append(config_queue, cmd),
               accepted' = Append(accepted, cmd), UNCHANGED applied
        PROVE  ConfigFifo'
    <3>1. Append(applied \o config_queue, cmd) = applied \o Append(config_queue, cmd)
      <4>1. applied \o config_queue \in Seq(Cmds) /\ <<cmd>> \in Seq(Cmds)
        BY ConcatProperties
      <4>2. Append(applied \o config_queue, cmd) = (applied \o config_queue) \o <<cmd>>
        BY <4>1, AppendIsConcat
      <4>3. Append(config_queue, cmd) = config_queue \o <<cmd>>
        BY AppendIsConcat
      <4> QED
        BY <4>1, <4>2, <4>3, ConcatAssociative
    <3> QED
      BY <2>2, <3>1
  <2>3. CASE applied' = applied \o config_queue /\ config_queue' = <<>> /\ UNCHANGED accepted
    <3>1. applied \o config_queue \in Seq(Cmds)
      BY ConcatProperties
    <3>2. (applied \o config_queue) \o <<>> = applied \o config_queue
      BY <3>1, ConcatEmptySeq
    <3> QED
      BY <2>3, <3>2
  <2> QED
    BY <2>1, <2>2, <2>3, ConfSteps DEF confVars
<1> QED
  BY <1>1, <1>2, EngineTypeOK, PTL DEF Spec

\* From Run on, the level never drops and no command is accepted, whatever
\* the interleaving of set_lock_level and queue_config.
THEOREM EngineRunFreezesConfig == Spec => RunFreezesConfig
<1>1. TypeOK /\ [Next]_vars =>
        [lock_level >= Run => lock_level' >= lock_level /\ accepted' = accepted]_vars
  <2> SUFFICES ASSUME TypeOK, [Next]_vars, lock_level >= Run
               PROVE  lock_level' >= lock_level /\ accepted' = accepted
    OBVIOUS
  <2>1. lock_level \in Int
    BY DEF TypeOK, TypeConf, Levels
  <2> QED
    BY <2>1, ConfSteps DEF Levels, Run, confVars
<1> QED
  BY <1>1, EngineTypeOK, PTL DEF Spec, RunFreezesConfig

-----------------------------------------------------------------------------
(* Pausing.                                                                *)

\* While the engine is paused at most one cycle starts besides those that
\* step_cycle asked for: PauseInv is inductive and bounds the budget.
THEOREM EnginePauseHolds == Spec => []PauseHolds
<1>1. Init => PauseInv
  BY DEF Init, PauseInv
<1>2. TypeOK /\ PauseInv /\ [Next]_vars => PauseInv'
  <2> SUFFICES ASSUME TypeOK, PauseInv, [Next]_vars PROVE PauseInv'
    OBVIOUS
  <2> USE DEF PauseInv, TypeOK, TypeLoop
  <2>1. CASE UNCHANGED loopVars
    BY <2>1 DEF loopVars
  <2>2. ASSUME NEW from, NEW to, Goto(from, to), to # "clear_step" \/ ~paused \/ step_requested,
               UNCHANGED <<running, paused, step_requested, budget, steps>>
        PROVE  PauseInv'
    BY <2>2 DEF Goto
  <2>3. CASE EngineStep
    <3>1. CASE StartCycle
      BY <3>1 DEF StartCycle, Goto
    <3>2. CASE LoopHead \/ WaitRunning \/ WaitPaused \/ WaitStep \/ CheckRunning
      BY <3>2, <2>2 DEF LoopHead, WaitRunning, WaitPaused, WaitStep, CheckRunning, Test
    <3>3. CASE AgainPaused \/ AgainStep
      BY <3>3, <2>2 DEF AgainPaused, AgainStep, Test
    <3>4. CASE ApplyConfig \/ SwapTest \/ SwapTake \/ SwapProgram \/ SwapExecutor
      BY <3>4, <2>2 DEF ApplyConfig, SwapTest, SwapTake, SwapProgram, SwapExecutor, Test
    <3>5. CASE SwapClear \/ ApplyHmi \/ ReadBarrier \/ Execute \/ WriteBarrier
      BY <3>5, <2>2 DEF SwapClear, ApplyHmi, ReadBarrier, Execute, WriteBarrier, Test
    <3> QED
      BY <2>3, <3>1, <3>2, <3>3, <3>4, <3>5 DEF EngineStep
  <2>4. CASE Start \/ Stop
    <3>1. pc' \in {pc, "loop"} /\ UNCHANGED <<paused, step_requested, budget>>
      BY <2>4 DEF Start, Stop
    <3> QED
      BY <3>1
  <2>5. ASSUME NEW c \in Clients, Call(c) \/ Finish(c) PROVE PauseInv'
    <3>1. CASE Pause(c) \/ StepPause(c)
      BY <3>1 DEF Pause, StepPause, SetPaused
    <3>2. CASE Resume(c)
      BY <3>2 DEF Resume
    <3>3. CASE StepRequest(c)
      BY <3>3 DEF StepRequest
    <3> QED
      BY <2>1, <2>5, <3>1, <3>2, <3>3
      DEF Call, Finish, SetLockLevel, QueueConfig, ApplyConfigNow, LoadProgram, LoadExecutor,
          PrepareSwap, CommitCheck, CommitStore, RollbackDrop, RollbackStore,
          DeployGeneration, DeployStore
  <2> QED
    BY <2>1, <2>3, <2>4, <2>5 DEF Next, vars
<1>3. TypeOK /\ PauseInv => PauseHolds
  BY DEF TypeOK, TypeLoop, PauseInv, PauseHolds
<1> QED
  BY <1>1, <1>2, <1>3, EngineTypeOK, PTL DEF Spec

-----------------------------------------------------------------------------
(* Hot-swap.                                                               *)

\* A step that touches neither the programs nor the calls in progress keeps
\* ProgramInv.
LEMMA ProgramFrame ==
  ASSUME ProgramInv, UNCHANGED <<pending_swap, used, discarded, progVars, Loading>>
  PROVE  ProgramInv'
BY DEF ProgramInv, Installed, progVars

\* A caller that is not loading before or after a step leaves Loading alone.
LEMMA LoadingFrame ==
  ASSUME TypeOK, NEW c \in Clients, cpc[c] # "load_executor",
         NEW at, NEW value, at # "load_executor", Enter(c, at, value)
  PROVE  Loading' = Loading
<1>1. \A d \in Clients : cpc'[d] = "load_executor" <=> cpc[d] = "load_executor"
  BY DEF TypeOK, TypeCall, Enter
<1>2. \A d \in Clients : cpc[d] = "load_executor" => carg'[d] = carg[d]
  BY DEF TypeOK, TypeCall, Enter
<1> QED
  BY <1>1, <1>2 DEF Loading

\* A program that rollback_swap dropped, or that another prepare_swap replaced
\* while it was pending, is never installed, whatever the interleaving of
\* prepares, commits, rollbacks, loads and boundaries.
THEOREM EngineDiscardedNeverRuns == Spec => []DiscardedNeverRuns
<1>1. Init => ProgramInv
  <2> SUFFICES ASSUME Init PROVE ProgramInv
    OBVIOUS
  <2>1. Loading = {}
    BY DEF Init, Loading
  <2> QED
    BY <2>1 DEF Init, ProgramInv, Installed
<1>2. TypeOK /\ ProgramInv /\ [Next]_vars => ProgramInv'
  <2> SUFFICES ASSUME TypeOK, ProgramInv, [Next]_vars PROVE ProgramInv'
    OBVIOUS
  <2>1. CASE UNCHANGED <<swapVars, progVars, callVars>>
    <3>1. Loading' = Loading
      BY <2>1 DEF Loading, callVars
    <3> QED
      BY <2>1, <3>1, ProgramFrame DEF swapVars
  <2>2. CASE EngineStep
    <3>1. CASE SwapTake \/ SwapProgram \/ SwapExecutor
      <4>1. Loading' = Loading
        BY <3>1 DEF SwapTake, SwapProgram, SwapExecutor, Loading, callVars
      <4>2. CASE SwapTake
        <5>1. Installed' = {pending_swap, hal_program, hal_executor} \cup Loading
          BY <4>1, <4>2 DEF SwapTake, Installed
        <5>2. pending_swap' = None /\ UNCHANGED <<used, discarded>>
          BY <4>2 DEF SwapTake
        <5>3. Installed' \subseteq Installed \cup {pending_swap}
          BY <5>1 DEF Installed
        <5> QED
          BY <5>2, <5>3, ProgramsAssumption DEF ProgramInv, TypeOK, TypeSwap
      <4>3. CASE SwapProgram
        BY <4>1, <4>3 DEF SwapProgram, ProgramInv, Installed, swapVars
      <4>4. CASE SwapExecutor
        BY <4>1, <4>4, ProgramsAssumption
        DEF SwapExecutor, ProgramInv, Installed, swapVars, TypeOK, TypeSwap
      <4> QED
        BY <3>1, <4>2, <4>3, <4>4
    <3>2. CASE SwapClear
      <4>1. Loading' = Loading
        BY <3>2 DEF SwapClear, Loading, callVars
      <4> QED
        BY <3>2, <4>1, ProgramFrame DEF SwapClear
    <3> QED
      BY <2>1, <2>2, <3>1, <3>2
      DEF EngineStep, LoopHead, WaitRunning, WaitPaused, WaitStep, CheckRunning, AgainPaused,
          AgainStep, StartCycle, ApplyConfig, SwapTest, ApplyHmi, ReadBarrier, Execute,
          WriteBarrier, Test
  <2>3. CASE Start \/ Stop
    BY <2>1, <2>3 DEF Start, Stop
  <2>4. ASSUME NEW c \in Clients, Call(c) \/ Finish(c) PROVE ProgramInv'
    <3>1. CASE LoadProgram(c)
      <4>1. PICK p \in Programs \ used :
              /\ used' = used \cup {p}
              /\ IF p \in WellFormed THEN hal_program' = p /\ Enter(c, "load_executor", p)
                                     ELSE UNCHANGED <<hal_program, callVars>>
        BY <3>1 DEF LoadProgram
      <4>2. Loading' \subseteq Loading \cup {p}
        BY <4>1 DEF Loading, Enter, callVars, TypeOK, TypeCall
      <4>3. hal_program' \in {hal_program, p}
        BY <4>1
      <4>4. UNCHANGED <<pending_swap, discarded, taken, hal_executor>>
        BY <3>1 DEF LoadProgram
      <4> QED
        BY <4>1, <4>2, <4>3, <4>4, ProgramsAssumption DEF ProgramInv, Installed
    <3>2. CASE LoadExecutor(c)
      <4>1. Loading' \subseteq Loading
        BY <3>2 DEF LoadExecutor, Loading, Return, Enter, TypeOK, TypeCall
      <4>2. hal_executor' \in Loading
        BY <3>2 DEF LoadExecutor, Loading
      <4> QED
        BY <3>2, <4>1, <4>2 DEF LoadExecutor, ProgramInv, Installed, swapVars
    <3>3. CASE PrepareSwap(c)
      <4>1. Loading' = Loading
        BY <3>3 DEF PrepareSwap, Loading, callVars
      <4> QED
        BY <3>3, <4>1, ProgramsAssumption DEF PrepareSwap, ProgramInv, Installed, progVars
    <3>4. CASE CommitCheck(c) \/ CommitStore(c) \/ RollbackStore(c) \/ StepPause(c)
               \/ StepRequest(c) \/ DeployGeneration(c) \/ DeployStore(c)
      <4>1. Loading' = Loading
        BY <3>4, LoadingFrame DEF CommitCheck, CommitStore, RollbackStore, StepPause,
           StepRequest, DeployGeneration, DeployStore, Idle, Return
      <4> QED
        BY <3>4, <4>1, ProgramFrame DEF CommitCheck, CommitStore, RollbackStore, StepPause,
           StepRequest, DeployGeneration, DeployStore, swapVars
    <3>5. CASE RollbackDrop(c)
      <4>1. Loading' = Loading
        BY <3>5, LoadingFrame DEF RollbackDrop, Idle
      <4> QED
        BY <3>5, <4>1, ProgramsAssumption
        DEF RollbackDrop, ProgramInv, Installed, progVars, TypeOK, TypeSwap
    <3> QED
      BY <2>1, <2>4, <3>1, <3>2, <3>3, <3>4, <3>5
      DEF Call, Finish, Pause, Resume, SetLockLevel, QueueConfig, ApplyConfigNow
  <2> QED
    BY <2>1, <2>2, <2>3, <2>4 DEF Next, vars
<1>3. ProgramInv => DiscardedNeverRuns
  BY DEF ProgramInv, Installed, DiscardedNeverRuns
<1> QED
  BY <1>1, <1>2, <1>3, EngineTypeOK, PTL DEF Spec

\* Without direct loads, every step keeps SwapInv.
LEMMA SwapInvStep ==
  ASSUME "load_hal_program" \notin Ops, TypeOK, SwapInv, [Next]_vars
  PROVE  SwapInv'
<1>1. CASE UNCHANGED <<progVars, callVars>> /\ pc' = pc
  BY <1>1 DEF SwapInv, progVars, callVars
<1>2. CASE EngineStep
  <2>1. UNCHANGED callVars
    BY <1>2 DEF EngineStep, LoopHead, WaitRunning, WaitPaused, WaitStep, CheckRunning,
       AgainPaused, AgainStep, StartCycle, ApplyConfig, SwapTest, SwapTake, SwapProgram,
       SwapExecutor, SwapClear, ApplyHmi, ReadBarrier, Execute, WriteBarrier, Test
  <2>2. IF pc' = "swap_executor" THEN hal_program' = taken' ELSE hal_program' = hal_executor'
    BY <1>2 DEF EngineStep, LoopHead, WaitRunning, WaitPaused, WaitStep, CheckRunning,
       AgainPaused, AgainStep, StartCycle, ApplyConfig, SwapTest, SwapTake, SwapProgram,
       SwapExecutor, SwapClear, ApplyHmi, ReadBarrier, Execute, WriteBarrier, Test, Goto,
       SwapInv, progVars
  <2> QED
    BY <2>1, <2>2 DEF SwapInv, callVars
<1>3. CASE Start \/ Stop
  <2>1. pc' \in {pc, "loop"} /\ (pc' # pc => pc = "done") /\ UNCHANGED <<progVars, callVars>>
    BY <1>3 DEF Start, Stop
  <2> QED
    BY <2>1 DEF SwapInv, progVars, callVars
<1>4. ASSUME NEW c \in Clients, Call(c) \/ Finish(c) PROVE SwapInv'
  <2>1. ~LoadProgram(c) /\ ~LoadExecutor(c)
    BY DEF LoadProgram, LoadExecutor, Idle, SwapInv
  <2>2. pc' = pc /\ UNCHANGED progVars
    BY <1>4, <2>1 DEF Call, Finish, Pause, Resume, SetLockLevel, QueueConfig, ApplyConfigNow,
       PrepareSwap, CommitCheck, CommitStore, RollbackDrop, RollbackStore, StepPause,
       StepRequest, DeployGeneration, DeployStore, loopVars
  <2>3. UNCHANGED callVars \/ \E at, value : at # "load_executor" /\ Enter(c, at, value)
    BY <1>4, <2>1 DEF Call, Finish, Pause, Resume, SetLockLevel, QueueConfig, ApplyConfigNow,
       PrepareSwap, CommitCheck, CommitStore, RollbackDrop, RollbackStore, StepPause,
       StepRequest, DeployGeneration, DeployStore, Return
  <2>4. \A d \in Clients : cpc'[d] # "load_executor"
    BY <2>3 DEF SwapInv, Enter, callVars, TypeOK, TypeCall
  <2> QED
    BY <2>2, <2>4 DEF SwapInv, progVars
<1> QED
  BY <1>1, <1>2, <1>3, <1>4 DEF Next, vars, loopVars

\* When programs arrive only by hot-swap, the stored program and the executor
\* are of the same program whenever the swap block is not running: no caller
\* finds an intermediate state.
THEOREM EngineSwapConsistent ==
  ASSUME "load_hal_program" \notin Ops
  PROVE  Spec => []SwapConsistent
<1>1. Init => SwapInv
  BY DEF Init, SwapInv
<1>2. TypeOK /\ SwapInv /\ [Next]_vars => SwapInv'
  BY SwapInvStep
<1>3. SwapInv => SwapConsistent
  BY DEF SwapInv, SwapConsistent, SwapLocked
<1> QED
  BY <1>1, <1>2, <1>3, EngineTypeOK, PTL DEF Spec

\* Who can replace the executor, step by step: the swap block or the second
\* store of a direct load.
LEMMA ExecutorMoves ==
  ASSUME Next, hal_executor' # hal_executor
  PROVE  SwapExecutor \/ \E c \in Clients : LoadExecutor(c)
<1>1. CASE EngineStep
  BY <1>1 DEF EngineStep, LoopHead, WaitRunning, WaitPaused, WaitStep, CheckRunning,
     AgainPaused, AgainStep, StartCycle, ApplyConfig, SwapTest, SwapTake, SwapProgram,
     SwapClear, ApplyHmi, ReadBarrier, Execute, WriteBarrier, Test, progVars
<1>2. CASE Start \/ Stop
  BY <1>2 DEF Start, Stop, progVars
<1>3. ASSUME NEW c \in Clients, Call(c) \/ Finish(c) PROVE LoadExecutor(c)
  BY <1>3 DEF Call, Finish, Pause, Resume, SetLockLevel, QueueConfig, ApplyConfigNow,
     LoadProgram, PrepareSwap, CommitCheck, CommitStore, RollbackDrop, RollbackStore,
     StepPause, StepRequest, DeployGeneration, DeployStore, progVars
<1> QED
  BY <1>1, <1>2, <1>3 DEF Next

\* Whatever the callers do, in the middle of a cycle only the second store of a
\* load_hal_program replaces the program that runs.
THEOREM EngineProgramFixedMidCycle == Spec => ProgramFixedMidCycle
<1>1. [Next]_vars => [MidCycle /\ hal_executor' # hal_executor
        => \E c \in Clients : cpc[c] = "load_executor" /\ hal_executor' = carg[c]]_vars
  <2> SUFFICES ASSUME Next, MidCycle, hal_executor' # hal_executor
               PROVE  \E c \in Clients : cpc[c] = "load_executor" /\ hal_executor' = carg[c]
    OBVIOUS
  <2>1. ~SwapExecutor
    BY DEF SwapExecutor, Goto, MidCycle
  <2> QED
    BY <2>1, ExecutorMoves DEF LoadExecutor
<1> QED
  BY <1>1, PTL DEF Spec, ProgramFixedMidCycle

\* When programs arrive only by hot-swap, the program that runs is the same
\* from the read barrier of a cycle to its write barrier.
THEOREM EngineSwapsOnlyAtBoundary ==
  ASSUME "load_hal_program" \notin Ops
  PROVE  Spec => SwapsOnlyAtBoundary
<1>1. Init => SwapInv
  BY DEF Init, SwapInv
<1>2. TypeOK /\ SwapInv /\ [Next]_vars => SwapInv'
  BY SwapInvStep
<1>3. SwapInv /\ [Next]_vars => [MidCycle => hal_executor' = hal_executor]_vars
  BY ExecutorMoves DEF SwapInv, SwapExecutor, LoadExecutor, Goto, MidCycle
<1> QED
  BY <1>1, <1>2, <1>3, EngineTypeOK, PTL DEF Spec, SwapsOnlyAtBoundary

\* Nothing is pending while the swap block of the cycle holds the lock, whatever callers do.
LEMMA TakeInvStep ==
  ASSUME TypeOK, TakeInv, [Next]_vars
  PROVE  TakeInv'
<1>1. CASE EngineStep
  BY <1>1 DEF EngineStep, LoopHead, WaitRunning, WaitPaused, WaitStep, CheckRunning,
     AgainPaused, AgainStep, StartCycle, ApplyConfig, SwapTest, SwapTake, SwapProgram,
     SwapExecutor, SwapClear, ApplyHmi, ReadBarrier, Execute, WriteBarrier, Test, Goto,
     TakeInv, SwapLocked, swapVars, progVars
<1>2. CASE Start \/ Stop
  <2>1. pc' \in {pc, "loop"} /\ UNCHANGED <<pending_swap, taken>>
    BY <1>2 DEF Start, Stop, swapVars, progVars
  <2> QED
    BY <2>1 DEF TakeInv, SwapLocked
<1>3. ASSUME NEW c \in Clients, Call(c) \/ Finish(c) PROVE TakeInv'
  <2>1. pc' = pc /\ taken' = taken
    BY <1>3 DEF Call, Finish, Pause, Resume, SetLockLevel, QueueConfig, ApplyConfigNow,
       LoadProgram, LoadExecutor, PrepareSwap, CommitCheck, CommitStore, RollbackDrop,
       RollbackStore, StepPause, StepRequest, DeployGeneration, DeployStore, loopVars, progVars
  <2>2. pending_swap' = pending_swap \/ ~SwapLocked
    BY <1>3 DEF Call, Finish, Pause, Resume, SetLockLevel, QueueConfig, ApplyConfigNow,
       LoadProgram, LoadExecutor, PrepareSwap, CommitCheck, CommitStore, RollbackDrop,
       RollbackStore, StepPause, StepRequest, DeployGeneration, DeployStore, swapVars
  <2> QED
    BY <2>1, <2>2 DEF TakeInv, SwapLocked
<1>4. CASE UNCHANGED vars
  BY <1>4 DEF vars, loopVars, swapVars, progVars, TakeInv, SwapLocked
<1> QED
  BY <1>1, <1>2, <1>3, <1>4 DEF Next

\* The mapped variables of HotSwap.
Pending == IF pc \in {"swap_program", "swap_executor"} THEN taken ELSE pending_swap
Armed == Swapping \/ (swap_committed /\ pc # "swap_clear")
LoadingOf == [c \in Clients |-> IF cpc[c] = "load_executor" THEN carg[c] ELSE None]

\* The loads in progress change only with the two steps of load_hal_program.
LEMMA LoadingSteps ==
  ASSUME TypeOK, [Next]_vars
  PROVE  \/ LoadingOf' = LoadingOf
         \/ \E c \in Clients : LoadProgram(c) /\ \E p \in WellFormed : LoadingOf' = [LoadingOf EXCEPT ![c] = p]
         \/ \E c \in Clients : LoadExecutor(c) /\ LoadingOf' = [LoadingOf EXCEPT ![c] = None]
<1>0. cpc \in [Clients -> CallPoints] /\ DOMAIN carg = Clients
  BY DEF TypeOK, TypeCall
<1>1. CASE UNCHANGED callVars
  BY <1>1 DEF callVars, LoadingOf
<1>2. ASSUME NEW c \in Clients, NEW at, NEW value, Enter(c, at, value)
      PROVE  LoadingOf' = [LoadingOf EXCEPT ![c] = IF at = "load_executor" THEN value ELSE None]
  BY <1>0, <1>2 DEF Enter, LoadingOf
<1>3. ASSUME NEW c \in Clients, NEW at, NEW value, Enter(c, at, value),
             at # "load_executor", cpc[c] # "load_executor"
      PROVE  LoadingOf' = LoadingOf
  BY <1>0, <1>3 DEF Enter, LoadingOf
<1>4. ASSUME NEW c \in Clients, Call(c) \/ Finish(c), ~UNCHANGED callVars
      PROVE  \/ LoadingOf' = LoadingOf
             \/ LoadProgram(c) /\ \E p \in WellFormed : LoadingOf' = [LoadingOf EXCEPT ![c] = p]
             \/ LoadExecutor(c) /\ LoadingOf' = [LoadingOf EXCEPT ![c] = None]
  <2>1. CASE LoadProgram(c)
    <3>1. PICK p \in WellFormed : Enter(c, "load_executor", p)
      BY <1>4, <2>1 DEF LoadProgram
    <3> QED
      BY <1>2, <2>1, <3>1
  <2>2. CASE LoadExecutor(c)
    BY <1>2, <2>2 DEF LoadExecutor, Return
  <2>3. CASE ~LoadProgram(c) /\ ~LoadExecutor(c)
    <3>1. cpc[c] # "load_executor" /\ \E at, value : at # "load_executor" /\ Enter(c, at, value)
      BY <1>4, <2>3 DEF Call, Finish, Pause, Resume, SetLockLevel, QueueConfig, ApplyConfigNow,
         PrepareSwap, CommitCheck, CommitStore, RollbackDrop, RollbackStore, StepPause,
         StepRequest, DeployGeneration, DeployStore, Return, Idle
    <3> QED
      BY <1>3, <3>1
  <2> QED
    BY <2>1, <2>2, <2>3
<1>5. CASE EngineStep \/ Start \/ Stop
  BY <1>1, <1>5 DEF EngineStep, LoopHead, WaitRunning, WaitPaused, WaitStep, CheckRunning,
     AgainPaused, AgainStep, StartCycle, ApplyConfig, SwapTest, SwapTake, SwapProgram,
     SwapExecutor, SwapClear, ApplyHmi, ReadBarrier, Execute, WriteBarrier, Test, Start, Stop
<1> QED
  BY <1>1, <1>4, <1>5 DEF Next, vars

\* A step that leaves the mapped variables alone, or the engine's steps that
\* are the steps of HotSwap.
LEMMA SwapSteps ==
  ASSUME TypeOK, TakeInv, [Next]_vars, \A c \in Clients : ~LoadExecutor(c)
  PROVE  \/ UNCHANGED <<Pending, Armed, hal_executor>>
         \/ Pending' \in WellFormed /\ UNCHANGED <<Armed, hal_executor>>
         \/ Pending' = None /\ UNCHANGED <<Armed, hal_executor>>
         \/ Armed' = TRUE /\ UNCHANGED <<Pending, hal_executor>>
         \/ Armed' = FALSE /\ UNCHANGED <<Pending, hal_executor>>
         \/ /\ Armed /\ Armed' = FALSE /\ Pending' = None
            /\ hal_executor' = IF Pending = None THEN hal_executor ELSE Pending
<1> USE DEF Pending, Armed, Swapping
<1>1. CASE UNCHANGED <<pc, pending_swap, swap_committed, taken, hal_executor>>
  BY <1>1
<1>2. CASE EngineStep
  <2>1. CASE SwapTake
    <3>1. CASE pending_swap = None
      BY <2>1, <3>1 DEF SwapTake, Goto
    <3>2. CASE pending_swap # None
      BY <2>1, <3>2 DEF SwapTake, Goto
    <3> QED
      BY <3>1, <3>2
  <2>2. CASE SwapExecutor
    <3>1. /\ pc = "swap_executor" /\ pc' = "swap_clear" /\ pending_swap = None /\ taken # None
          /\ hal_executor' = taken /\ pending_swap' = pending_swap
      BY <2>2 DEF SwapExecutor, Goto, TakeInv, SwapLocked, swapVars
    <3> QED
      BY <3>1
  <2>3. CASE SwapClear
    BY <2>3 DEF SwapClear, Goto, progVars
  <2>4. CASE SwapProgram
    BY <2>4 DEF SwapProgram, Goto, swapVars
  <2>5. CASE SwapTest
    <3>1. /\ pc = "swap" /\ pc' = IF swap_committed THEN "swap_lock" ELSE "hmi"
          /\ UNCHANGED <<pending_swap, swap_committed, taken, hal_executor>>
      BY <2>5 DEF SwapTest, Test, Goto, swapVars, progVars
    <3>2. swap_committed \in BOOLEAN
      BY DEF TypeOK, TypeSwap
    <3> QED
      BY <3>1, <3>2
  <2>6. CASE ~(SwapTake \/ SwapExecutor \/ SwapClear \/ SwapProgram \/ SwapTest)
    <3>1. /\ pc \notin {"swap", "swap_lock", "swap_program", "swap_executor", "swap_clear"}
          /\ pc' \notin {"swap_lock", "swap_program", "swap_executor", "swap_clear"}
          /\ UNCHANGED <<pending_swap, swap_committed, taken, hal_executor>>
      BY <1>2, <2>6 DEF EngineStep, LoopHead, WaitRunning, WaitPaused, WaitStep, CheckRunning,
         AgainPaused, AgainStep, StartCycle, ApplyConfig, ApplyHmi, ReadBarrier, Execute,
         WriteBarrier, Test, Goto, swapVars, progVars
    <3> QED
      BY <3>1
  <2> QED
    BY <2>1, <2>2, <2>3, <2>4, <2>5, <2>6
<1>3. CASE Start \/ Stop
  <2>1. /\ pc' = pc \/ (pc = "done" /\ pc' = "loop")
        /\ UNCHANGED <<pending_swap, swap_committed, taken, hal_executor>>
    BY <1>3 DEF Start, Stop, swapVars, progVars
  <2> QED
    BY <2>1
<1>4. ASSUME NEW c \in Clients, PrepareSwap(c) \/ RollbackDrop(c)
      PROVE  \/ UNCHANGED <<Pending, Armed, hal_executor>>
             \/ Pending' \in WellFormed /\ UNCHANGED <<Armed, hal_executor>>
             \/ Pending' = None /\ UNCHANGED <<Armed, hal_executor>>
  <2>1. /\ ~SwapLocked
        /\ UNCHANGED <<pc, swap_committed, taken, hal_executor>>
        /\ pending_swap' \in WellFormed \cup {None, pending_swap}
    BY <1>4 DEF PrepareSwap, RollbackDrop, loopVars, progVars
  <2>2. pending_swap \in WellFormed \cup {None}
    BY DEF TypeOK, TypeSwap
  <2> QED
    BY <2>1, <2>2 DEF SwapLocked
<1>5. ASSUME NEW c \in Clients, CommitStore(c) \/ RollbackStore(c)
      PROVE  \/ Armed' = Armed /\ UNCHANGED <<Pending, hal_executor>>
             \/ Armed' = TRUE /\ UNCHANGED <<Pending, hal_executor>>
             \/ Armed' = FALSE /\ UNCHANGED <<Pending, hal_executor>>
  <2>1. /\ UNCHANGED <<pc, pending_swap, taken, hal_executor>>
        /\ swap_committed' \in BOOLEAN
    BY <1>5 DEF CommitStore, RollbackStore, loopVars, progVars
  <2> QED
    BY <2>1
<1>6. ASSUME NEW c \in Clients, Call(c) \/ Finish(c),
             ~(PrepareSwap(c) \/ RollbackDrop(c) \/ CommitStore(c) \/ RollbackStore(c))
      PROVE  UNCHANGED <<pc, pending_swap, swap_committed, taken, hal_executor>>
  BY <1>6 DEF Call, Finish, Pause, Resume, SetLockLevel, QueueConfig, ApplyConfigNow,
     LoadProgram, CommitCheck, StepPause, StepRequest, DeployGeneration, DeployStore,
     loopVars, swapVars, progVars
<1> QED
  BY <1>1, <1>2, <1>3, <1>4, <1>5, <1>6 DEF Next, vars, loopVars, swapVars, progVars

\* A step that is not one of load_hal_program changes the loads in progress in
\* no way.
LEMMA OtherSteps ==
  ASSUME TypeOK, [Next]_vars,
         \A c \in Clients : ~LoadExecutor(c) /\ ~(LoadProgram(c) /\ LoadingOf' # LoadingOf)
  PROVE  LoadingOf' = LoadingOf
BY LoadingSteps

\* The engine implements HotSwap: the swap block, which takes several locks one
\* after the other while callers prepare, commit, roll back and load, replaces
\* the program in one step.
THEOREM EngineImplementsHotSwap == Spec => HotSwapSpec
<1>1. Init => TakeInv
  BY DEF Init, TakeInv, SwapLocked
<1>2. TypeOK /\ TakeInv /\ [Next]_vars => TakeInv'
  BY TakeInvStep
<1>3. Init => HS!Init
  BY DEF Init, HS!Init, Swapping
<1>4. TypeOK /\ TakeInv /\ [Next]_vars => [HS!Next]_HS!vars
  <2> SUFFICES ASSUME TypeOK, TakeInv, [Next]_vars PROVE [HS!Next]_HS!vars
    OBVIOUS
  <2>1. ASSUME NEW c \in Clients, LoadExecutor(c) PROVE HS!Next
    <3>1. /\ hal_executor' = carg[c] /\ cpc[c] = "load_executor" /\ carg[c] \in WellFormed
          /\ UNCHANGED <<Pending, Armed>>
      BY <2>1 DEF LoadExecutor, Pending, Armed, Swapping, loopVars, swapVars, TypeOK, TypeCall
    <3>2. LoadingOf' = [LoadingOf EXCEPT ![c] = None]
      BY <2>1 DEF LoadExecutor, Return, Enter, LoadingOf, TypeOK, TypeCall
    <3>3. LoadingOf[c] = carg[c] /\ carg[c] # None
      BY <3>1, ProgramsAssumption DEF LoadingOf
    <3>4. HS!EndLoad(c)
      BY <3>1, <3>2, <3>3 DEF HS!EndLoad, LoadingOf, Pending, Armed
    <3> QED
      BY <3>4 DEF HS!Next
  <2>2. ASSUME NEW c \in Clients, LoadProgram(c), LoadingOf' # LoadingOf PROVE HS!Next
    <3>1. UNCHANGED <<Pending, Armed, hal_executor>>
      BY <2>2 DEF LoadProgram, Pending, Armed, Swapping, loopVars
    <3>2. \E p \in WellFormed : LoadingOf' = [LoadingOf EXCEPT ![c] = p]
      <4>1. PICK p \in WellFormed : Enter(c, "load_executor", p)
        BY <2>2 DEF LoadProgram, LoadingOf, callVars
      <4> QED
        BY <4>1 DEF Enter, LoadingOf, TypeOK, TypeCall
    <3>3. HS!BeginLoad(c)
      BY <3>1, <3>2 DEF HS!BeginLoad, LoadingOf, Pending, Armed
    <3> QED
      BY <3>3 DEF HS!Next
  <2>3. CASE \A c \in Clients : ~LoadExecutor(c) /\ ~(LoadProgram(c) /\ LoadingOf' # LoadingOf)
    <3>1. LoadingOf' = LoadingOf
      BY <2>3, OtherSteps
    <3> QED
      BY <2>3, <3>1, SwapSteps DEF HS!Next, HS!Prepare, HS!Drop, HS!Arm, HS!Disarm, HS!Boundary,
         HS!vars, Pending, Armed, LoadingOf
  <2> QED
    BY <2>1, <2>2, <2>3
<1> QED
  BY <1>1, <1>2, <1>3, <1>4, EngineTypeOK, PTL DEF Spec, HotSwapSpec, HS!Spec

-----------------------------------------------------------------------------
(* HMI layouts.                                                            *)

\* Deploys of any number of threads draw distinct generations, distinct also
\* from those of the pending and the active layout.
THEOREM EngineGenerationsDistinct == Spec => []GenerationsDistinct
<1>1. Init => GenerationsDistinct
  BY DEF Init, GenerationsDistinct
<1>2. TypeOK /\ GenerationsDistinct /\ [Next]_vars => GenerationsDistinct'
  <2> SUFFICES ASSUME TypeOK, GenerationsDistinct, [Next]_vars PROVE GenerationsDistinct'
    OBVIOUS
  <2>1. CASE UNCHANGED <<hmiVars, callVars>>
    BY <2>1 DEF GenerationsDistinct, hmiVars, callVars
  <2>2. CASE EngineStep
    <3>1. CASE ApplyHmi
      BY <3>1 DEF ApplyHmi, GenerationsDistinct, TypeOK, TypeHmi, TypeCall, callVars
    <3> QED
      BY <2>1, <2>2, <3>1
      DEF EngineStep, LoopHead, WaitRunning, WaitPaused, WaitStep, CheckRunning, AgainPaused,
          AgainStep, StartCycle, ApplyConfig, SwapTest, SwapTake, SwapProgram, SwapExecutor,
          SwapClear, ReadBarrier, Execute, WriteBarrier, Test
  <2>3. CASE Start \/ Stop
    BY <2>1, <2>3 DEF Start, Stop
  <2>4. ASSUME NEW c \in Clients, Call(c) \/ Finish(c) PROVE GenerationsDistinct'
    <3>1. CASE DeployGeneration(c)
      <4>1. \A d \in Clients : d # c => cpc'[d] = cpc[d] /\ carg'[d] = carg[d]
        BY <3>1 DEF DeployGeneration, Enter, TypeOK, TypeCall
      <4>2. carg'[c] = hmi_gen + 1
        BY <3>1 DEF DeployGeneration, Enter, TypeOK, TypeCall
      <4>3. UNCHANGED <<pending_hmi, hmi_layout>>
        BY <3>1 DEF DeployGeneration
      <4>4. /\ hmi_gen + 1 \notin {pending_hmi, hmi_layout}
            /\ \A d \in Clients : cpc[d] = "deploy_store" => carg[d] # hmi_gen + 1
        BY DEF TypeOK, TypeHmi, TypeCall
      <4>5. \A d, e \in Clients :
              cpc'[d] = "deploy_store" /\ cpc'[e] = "deploy_store" /\ d # e => carg'[d] # carg'[e]
        BY <4>1, <4>2, <4>4 DEF GenerationsDistinct
      <4>6. \A d \in Clients : cpc'[d] = "deploy_store" => carg'[d] \notin {pending_hmi, hmi_layout}
        BY <4>1, <4>2, <4>4 DEF GenerationsDistinct
      <4> QED
        BY <4>3, <4>5, <4>6 DEF GenerationsDistinct
    <3>2. CASE DeployStore(c)
      <4>1. \A d \in Clients : d # c => cpc'[d] = cpc[d] /\ carg'[d] = carg[d]
        BY <3>2 DEF DeployStore, Return, Enter, TypeOK, TypeCall
      <4>2. cpc'[c] = "idle" /\ pending_hmi' = carg[c] /\ hmi_layout' = hmi_layout
        BY <3>2 DEF DeployStore, Return, Enter, TypeOK, TypeCall
      <4>3. cpc[c] = "deploy_store"
        BY <3>2 DEF DeployStore
      <4> QED
        BY <4>1, <4>2, <4>3 DEF GenerationsDistinct
    <3>3. ASSUME NEW at, NEW value, at # "deploy_store", Enter(c, at, value), UNCHANGED hmiVars
          PROVE  GenerationsDistinct'
      <4>1. \A d \in Clients : cpc'[d] = "deploy_store" => cpc[d] = "deploy_store" /\ carg'[d] = carg[d]
        BY <3>3 DEF Enter, TypeOK, TypeCall
      <4> QED
        BY <3>3, <4>1 DEF GenerationsDistinct, hmiVars
    <3>4. CASE LoadProgram(c)
      <4>1. UNCHANGED callVars \/ \E p : Enter(c, "load_executor", p)
        BY <3>4 DEF LoadProgram
      <4> QED
        BY <2>1, <3>3, <3>4, <4>1 DEF LoadProgram
    <3> QED
      BY <2>1, <2>4, <3>1, <3>2, <3>3, <3>4
      DEF Call, Finish, Pause, Resume, SetLockLevel, QueueConfig, ApplyConfigNow, PrepareSwap,
          CommitCheck, CommitStore, RollbackDrop, RollbackStore, StepPause, StepRequest,
          LoadExecutor, Return
  <2> QED
    BY <2>1, <2>2, <2>3, <2>4 DEF Next, vars
<1> QED
  BY <1>1, <1>2, EngineTypeOK, PTL DEF Spec

\* Where the control thread goes when running is false.
LEMMA StoppedMoves ==
  ASSUME TypeOK, Next, ~running, ~running', pc' # pc
  PROVE  \/ pc' = "done" /\ pc \in {"loop", "check"}
         \/ pc' = "check" /\ pc \in {"wait_running", "wait_paused", "wait_step"}
         \/ <<pc, pc'>> \in {<<"wait_paused", "wait_step">>, <<"wait_step", "wait_running">>,
              <<"again_paused", "clear_step">>, <<"again_step", "clear_step">>,
              <<"again_step", "again_paused">>, <<"clear_step", "config">>, <<"config", "swap">>,
              <<"swap", "swap_lock">>, <<"swap", "hmi">>, <<"swap_lock", "swap_clear">>,
              <<"swap_lock", "swap_program">>, <<"swap_program", "swap_executor">>,
              <<"swap_executor", "swap_clear">>, <<"swap_clear", "hmi">>,
              <<"hmi", "read_barrier">>, <<"read_barrier", "execute">>,
              <<"execute", "write_barrier">>, <<"write_barrier", "loop">>}
         \/ paused /\ pc = "again_paused"
<1>1. CASE LoopHead \/ WaitRunning \/ WaitPaused \/ WaitStep \/ CheckRunning
  BY <1>1 DEF LoopHead, WaitRunning, WaitPaused, WaitStep, CheckRunning, Test, Goto
<1>2. CASE AgainPaused \/ AgainStep \/ StartCycle
  BY <1>2 DEF AgainPaused, AgainStep, StartCycle, Test, Goto
<1>3. CASE ApplyConfig \/ SwapTest \/ SwapTake \/ SwapProgram \/ SwapExecutor \/ SwapClear
  BY <1>3 DEF ApplyConfig, SwapTest, SwapTake, SwapProgram, SwapExecutor, SwapClear, Test, Goto
<1>4. CASE ApplyHmi \/ ReadBarrier \/ Execute \/ WriteBarrier
  BY <1>4 DEF ApplyHmi, ReadBarrier, Execute, WriteBarrier, Test, Goto
<1>5. ~Start /\ ~Stop
  BY DEF Start, Stop
<1>6. ASSUME NEW c \in Clients, Call(c) \/ Finish(c) PROVE FALSE
  BY <1>6 DEF Call, Finish, Pause, Resume, SetLockLevel, QueueConfig, ApplyConfigNow,
     LoadProgram, LoadExecutor, PrepareSwap, CommitCheck, CommitStore, RollbackDrop,
     RollbackStore, StepPause, StepRequest, DeployGeneration, DeployStore, loopVars
<1> QED
  BY <1>1, <1>2, <1>3, <1>4, <1>5, <1>6 DEF Next, EngineStep

\* After stop() the control thread has at most fourteen steps to take, and
\* takes them towards its end, except while a pause keeps it in its second
\* pause loop: that loop is the only way a join can wait for ever.
THEOREM EngineStopWindsDown == Spec => [](StepsToEnd \in 0..14) /\ StopWindsDown
<1>1. TypeOK => StepsToEnd \in 0..14
  BY DEF TypeOK, TypeLoop, ControlPoints, StepsToEnd
<1>2. TypeOK /\ [Next]_vars =>
        [~running /\ ~running' /\ pc' # pc
           => StepsToEnd' < StepsToEnd \/ (paused /\ pc = "again_paused")]_vars
  <2> SUFFICES ASSUME TypeOK, Next, ~running, ~running', pc' # pc,
                      ~(paused /\ pc = "again_paused")
               PROVE  StepsToEnd' < StepsToEnd
    OBVIOUS
  <2> QED
    BY StoppedMoves DEF StepsToEnd
<1> QED
  BY <1>1, <1>2, EngineTypeOK, PTL DEF Spec, StopWindsDown
=============================================================================

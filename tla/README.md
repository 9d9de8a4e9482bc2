# AUDESYS in TLA+

This directory models the AUDESYS controller and the tools around it: the
runtime with its engine, supervision, IPC and adapters, the in-process
middleware, the virtual machine of the control programs and the compilers that
produce them. TLC checks the modules on small instances; TLAPS proves the
central safety properties for every value of the constants.

`PROJECT.json` lists the runs, the mutants that show each property can fail,
the source lines of every definition, the hazards and the theorems. Paths
below are relative to `src/crates/`.

To repeat a run: `tlc -workers 2 -config Ipc.cfg MCIpc`. To repeat a proof:
`tlapm Engine_proofs.tla`.

## The system and its modules

One process, the controller, runs a control cycle on a thread of its own: it
applies queued configuration, takes over a hot-swapped program at the cycle
boundary, reads monitored signals from the middleware, scans the program in a
virtual machine, publishes the result, pushes subscribed signals to IPC
clients and checks its child processes. Other threads call the engine (IPC
connections, the main thread, the simulation), publish signals (field bus
adapters) or read them (virtual devices). An agent process supervises the
controller and its companions.

| Module | Code | State and steps |
|---|---|---|
| `Engine` | `audesys-runtime/src/engine.rs` | The control thread is `pc`, one label per access to shared state; callers are `cpc`. One action per method, two where a method takes two locks in turn. |
| `HotSwap` | the promise of `prepare_swap`, `commit_swap`, `rollback_swap` | Prepare, drop, arm, disarm, boundary and direct load over the pending program, the armed flag and the program that runs; `Engine` implements it. |
| `Lifecycle` | `audesys-runtime/src/lifecycle.rs` | List of children, processes, a clock; `spawn`, `health_check`, `shutdown_all` with its polls and, past the deadline, its blocking `wait()`. |
| `Agent` | `audesys-agent/src/{main,monitor}.rs` | Main loop over `ManagedProcess`, the signal handler, the status push. |
| `Supervisor` | the promise of the agent's loop | Five actions over processes, their starts and the end; `Agent` implements it. |
| `InprocQoS` | `audesys-amw-inproc/src/qos.rs` | Lock level and configuration queue; a load and the action on it are two steps. |
| `InprocStream` | `.../stream.rs` | Bounded channel of the three policies, with the retries of Backpressure. |
| `InprocTransport` | `.../transport.rs` | One signal, its subscribers, the lock held during callbacks, shutdown. |
| `InprocRpc` | `.../transport.rs` | Calls whose handler answers, fails, panics or is late. |
| `VirtualDevices` | `audesys-runtime/src/virtual_{modbus,hart}.rs`, `audesys-modbus/src/client.rs` | Listener threads, connections, all function codes, the masters. |
| `Ipc` | `audesys-runtime/src/ipc.rs`, `audesys-runtime-client/src/lib.rs`, push phase of `engine.rs` | Streams of frames, connection threads, sessions and roles, subscriptions and their mutex, client calls with timeouts. |
| `FieldBus` | `audesys-modbus/src/{adapter,mapping}.rs`, `audesys-hart/src/adapter.rs`, `adapter_manager.rs`, barriers of `engine.rs` | A device, poll threads, the write cache, the manager, one program from input to output. |
| `HalVm` | `audesys-hal-ir/src/{executor,vm,instruction,types}.rs`, `audesys-hal-core/src/value.rs` | Registers, flag, call stack, signals; one action per kind of instruction, and the scan around it. |
| `FunctionBlocks` | `audesys-hal-ir/src/{executor,vm}.rs` | Timers, counters, flip-flops, edge detectors, and the history of their inputs. |
| `AxisGroup` | `audesys-cnc-axis-group/src` | The program generators as sequences of instructions. |
| `CncMotion` | `audesys-cnc-motion/src/profile.rs` | The velocity profiles as instructions. |
| `ILCompiler`, `LDCompiler`, `SFCCompiler`, `FBDCompiler`, `STParser`, `STCompiler`, `GCode` | the compilers | Source to instructions, as operators; beside each, what its source means. |
| `LadderLogic` | `audesys-ld-semantics/src/lib.rs` | The evaluator of ladder diagrams and its cycle. |
| `Sources` | none | The families of programs that are compiled and scanned. |

`MCEngine`, `MCSupervision`, `MCInproc`, `MCIpc` and `MCControl` instantiate
these for TLC. Where a run covers objects that share no state, a variable
(`group`, `live`, `part`, `menu`) chooses which of them is at work in a
behaviour; the others stay in an initial state. That keeps every interleaving
within an object and leaves out only the product of independent ones.

A payload, a program or a layout is an identity; a name is a member of a small
set. Conversions that a property depends on are modelled by what they do:
registers to values and back, values to coils, words and floats, source text
(as words or tokens) to instructions. An arc of G-code is cut into quarter turns
(in the code into chords of at most 30 degrees), and begins and ends straight
beside, above or below its center.

## The runs

### Passing

**engine_methods** (`MCEngine`, `EngineMethods.cfg`): two callers and every
method. `TypeOK`; `PauseHolds`: at most one cycle starts in a pause besides
those asked for; `ConfigFifo`: accepted commands are applied in order, each
once; `DiscardedNeverRuns`: a program rolled back, or replaced while it was
pending, never reaches the executor; `ProgramFixedMidCycle`: between the read
and the write barrier only the second store of a direct `load_hal_program`
replaces the program; `StopEndsOrPaused`: after `stop()` the thread ends, or is
in the second pause wait; `AcceptedApplied`: an accepted command is applied in
the end; `HotSwapSpec`: the code, which takes several locks in turn, implements
`HotSwap`, direct loads included; `ArmedSwapLeaves`: a committed swap is taken,
unless a rollback is between its two stores (where a commit is lost, see
below).

**supervision** (`MCSupervision`): children that exit at any time.
`RestartRate`: at most MAX_RETRIES restarts in any window; `NoOrphan`: each
process started is in the list until reaped, from the push that follows its
fork on; `SupervisorSpec`: the agent's loop of polls, restarts, kills and waits
implements the five actions of `Supervisor`, with a limit on the starts of a
child over the agent's whole life and none after the shutdown has begun;
`ExitLeavesNone`: it leaves no process; `ShutdownEnds`, `AgentEnds`: both shut
down whatever the children do. For the runtime's children this hangs on the
kill that comes before the blocking `wait()`.

**inproc** (`MCInproc`): `DeliveredInOrder`, `SubscriberSeesAll` (streams of
each policy); `QosFifo` (commands are applied in the order in which they
entered the queue); `RunAdmitsOnlyInFlight` (a call that passed its test before
Run may still enter the queue at Run, and no other does); `PushAgreesWithPull`
(once two publishers are done, a subscriber has heard each value published
since it subscribed, and the one a reader finds last unless publications
overlapped); `CallAnswered` (each RPC call returns); `MastersToldTruth` (each
value a master reads was held by its signal during the call, a write that
succeeded was published, whatever timed out before); `StopHolds` (after
`stop()` a virtual device takes one more request at most).

**ipc** (`MCIpc`): `AnswersInOrder` (the answers a client reads are those to
its calls in order, each once or, for a granted authentication, twice);
`PushesSubscribed` (each push still to be written in a cycle belongs to a
subscription that is in the list and to its connection's present session, since
the cycle keeps the mutex while it writes); `Authority` (the engine is paused,
stepped, swapped or loaded only for a configuring role the whitelist allows, in
an unexpired session); `RequestHandled` and `CycleReturns` (neither a
connection nor the cycle waits forever on the subscriptions' mutex and full
sockets).

**control** (`MCControl`): `BlocksFollowInputs` (the outputs of TON, TOF, CTU,
CTUD, SR and RS, and of TP while its input is on, are the stated functions of
their input history; CTD and a TP whose input has fallen are not what vm.rs
describes, see below); `VmSafe` (no jump, call or return leaves the program);
`ScanEnds` (of the programs of `Sources` and the axis group, all of which are
meant to end); `ILComputes`, `LadderAgrees`, `StComputes`, `GcodeMoves` (the
compiled programs of the families in `Sources` leave the signals as their
source says, ladders as the evaluator says; arcs turn the right way round the
right center, quarter point by quarter point); `LadderCycle` (the evaluator
finds a path exactly where there is one, coils are seen by the rungs below);
`CacheTruthful` (the device holds what the write cache says);
`InputReachesOutput` (a steady input reaches the device's output after a fault
or a forced value); `AdaptersStop` and `StopIsFinal` (after `stop_all` the
threads end, and once their passes are over nothing is written or published,
also if `start_all` is called again).

### Violations: where the code and its documentation disagree

- **engine_stop_hang**: a `pause()` between the two pause loops keeps the
  control thread alive after `stop()` (engine.rs:185).
- **engine_uncommitted**: prepare A, commit, prepare B installs B, which was
  never committed (engine.rs:206).
- **axis_homing**: one scan runs all homing states, because `JumpIf` on a
  register never jumps (homing.rs:319, executor.rs:403).
- **timer_pulse**: the pulse of a TP ends as soon as its input falls, where
  vm.rs:16 promises a fixed duration (executor.rs:570).
- **field_lost_answer**: a write whose answer is lost is never corrected once
  the signal returns to the cached value (modbus adapter.rs:201).
- **ipc_own_answer**: a granted authentication is answered twice, so later
  calls read the answer to the call before (ipc.rs:624).
- **ipc_push**: a subscription is removed as soon as its own request has been
  answered, and nothing is pushed (ipc.rs:1292).

## Bounds

Bounds are constants in the guards, named `Max...`; symmetry is not used.

- Engine: two callers give every race of two calls with the control thread;
  three commands show an order; two valid programs and a malformed one show
  replacement; three deployments and two steps exceed what a cycle can take.
  `engine_methods` lets a behaviour call the methods of one of four groups,
  which share no state but `running`; the proofs have no such restriction.
- Supervision: two children, two retries, a window of three ticks in a time of
  six: a window closes and reopens, and both limits are reached; the deadline
  of the shutdown falls before and after the end of a killed child.
- Middleware: depth 2 with five writes fills, overflows and drains a queue; two
  publishers, two subscriptions and three publications let publications overlap
  and subscribers come and go in the middle of one; two overlapping calls and
  two versions of a handler.
- Virtual devices: two masters, up to two connections and two queries, one
  stop, two starts in the scenario about restarting. The scenarios cover every
  function code, the last address, a register without a signal, and frames with
  no or an unknown function code.
- IPC: two connections where connections share state (subscriptions), one
  elsewhere; buffers of two frames, so that both sides block; one to three
  requests per connection, by menu.
- Control: function blocks with a preset of 5 ms, 2 counts and scans of 2 ms,
  six scans, so that presets fall inside and at the end of a scan; one axis
  group of two axes with unlike limits and homing directions; two poll threads
  and one disturbance (a failed poll or write, or a forced value), in
  `field_lost_answer` three.
- Languages: `Sources` holds 162 Instruction List programs, 24 ladders, 4
  charts and 6 block diagrams, scanned for all values of two input signals, and
  86 Structured Text programs, 87 G-code programs, 2 arcs by radius, 18 moves
  and 4 moves too short for their speed. They stay within what the compilers
  support; the constructs outside it are listed below.

`CHECK_DEADLOCK FALSE` stands where the system really stops: a shut down
supervisor, closed connections, exhausted bounds of clients.

## Fairness

Weak fairness is assumed of threads that are running: the control thread and a
caller inside a method (`Engine`), the agent's main loop, the shutdown loop and
the clock (`Lifecycle`), poll threads and the join (`FieldBus`), the machine
inside a scan (`HalVm`), a publisher (`InprocTransport`), and the waiting end
of an RPC call, whose timeout ends it. A process that has been killed ends
(`Lifecycle`), which is what SIGKILL means and what the blocking `wait()` of
`shutdown_all` relies on. Nothing is assumed of those who need not act: nobody
has to call, publish, send, or exit unless killed.

Strong fairness is assumed in one place (`IpcFairness`): the connection
threads and the cycle compete for the subscriptions' mutex, which is free
between two of the cycle's sleeps; and a subscribed client reads its socket. A
client that never reads does stall the cycle: `CycleReturns` is stated under
the assumption that clients read.

## What is proved

Assumptions are the named `ASSUME`s of the modules: natural numbers for the
bounds, at least one retry (a stream may have depth 0, which nothing in the
code refuses), that `None` and `Nobody` are no values, that the threads of a
set differ from those of another, that the RPC calls are finitely many
(`RpcAssumption`), that a field device speaks Modbus or HART, and two about the
inputs. `SignalsAssumption`: mapped addresses have a signal, and a frame that
writes has a value. `CodeAssumption`: every place a program can come to has an
instruction whose registers exist. TLC evaluates the latter for every program
the compilers and generators emit in `Sources`.

- `Engine_proofs`. `EngineTypeOK`, `EngineConfigFifo`,
  `EngineRunFreezesConfig`, `EnginePauseHolds`, `EngineDiscardedNeverRuns` and
  `EngineGenerationsDistinct` for any callers, commands and programs.
  `PauseHolds` alone is not inductive: a step request not yet consumed must be
  covered by the budget (`PauseInv`). A program counts as discarded when a
  rollback drops it or a prepare replaces it; for `DiscardedNeverRuns` one
  needs that a pending program is stored nowhere else, the callers in the
  middle of a direct load included (`ProgramInv`). `EngineProgramFixedMidCycle`
  holds with every method and needs no invariant: the executor has two writers
  (`ExecutorMoves`). `EngineStopWindsDown`: after `stop()` the control thread
  has at most fourteen steps left and each reduces them, except the test of
  `paused` in the second pause loop. `EngineImplementsHotSwap` holds with every
  method too; it rests on `TakeInv` (nothing is pending while the swap block
  holds the lock), and the refinement maps the whole block to one step and a
  direct load to its beginning and end. `EngineSwapConsistent` and
  `EngineSwapsOnlyAtBoundary` assume that no caller uses `load_hal_program`,
  which does replace the program in the middle of a cycle; they rest on
  `SwapInv` (stored program and executor differ only between the two stores).
- `Supervision_proofs`, runtime children: `LifecycleTypeOK`,
  `LifecycleRestartRate`, `LifecycleNoOrphan`. The rate needs the history of a
  child related to its counter and last start (`RestartInv`).
  `LifecycleShutdownComplete`: whatever `shutdown_all` still waits for, in its
  polls or in the blocking `wait()`, has been killed or has exited, and nothing
  is left when it returns. It needs that no child is twice in the list
  (`ShutdownInv`), which removing one entry at a time relies on. Agent:
  `AgentTypeCorrect`, `AgentStartsBounded`, `AgentExitLeavesNone`,
  `AgentFailedFinal`, from `AgentInv`: a child's starts and attempts, and the
  handles the kill loop has already cleared. `AgentImplementsSupervisor`
  (`SupervisorSpec`) for any number of children and retries: each step of the
  loop is one of the five actions or none. `AgentStepsRunOut`: once SHUTDOWN is
  set main has at most 3N + 6 steps left and each of its steps reduces them.
- `Inproc_proofs`, QoS: `QosTypeCorrect`, `QosRunAdmitsOnlyInFlight`,
  `QosQueueFifo`. Signals: `TransportPushAgrees` (`PushAgreesWithPull`) for any
  publishers and subscriptions, from `TransportInv`: a value published since a
  subscriber came has been heard or is still due by its publisher
  (`HeardOrDue`), and a publication that began alone is the last one
  (`LastAlone`). Calls: `RpcOkMeansDone`, from `RpcInv`: a result that is still
  to be read is Ok only if the handler of that call took effect.
  `RpcCountersAgree`: the three counters are the numbers of calls begun, timed
  out and rejected.
- `InprocStream_proofs`. `StreamTypeCorrect`, `StreamBounded` (the queue holds
  at most Depth values, but for a DropOldest channel of depth 0, which holds
  the newest), `StreamLossless` (without DropOldest),
  `StreamSubscriberSeesAll`, `StreamDeliveredInOrder`, which needs that a
  waiting write has the highest number (`WritesInv`). `StreamRetriesFutile`: a
  Backpressure write that found the queue full finds it full at every retry,
  since it sleeps with the mutex held. `StreamErrorMeansNotSent`: the value of
  a write that answered the timeout error was neither stored nor passed to a
  callback. Both from `OutcomeInv`: a number is stored, notified or given up
  only once its write is no longer waiting.
- `VirtualDevices_proofs`: `StopTakesOneMore` (`StopHolds`) for any masters,
  connections, stops and starts. It needs that one listener at a time has the
  port, and that none waits for a frame once one has been taken after `stop()`
  (`OneListener`); and what each thread has in hand (`Shape`).
- `VirtualTruth_proofs`, on top of it: `VirtualTruth` (`MastersToldTruth`) for
  any maps, requests and signals. The invariant follows an answer from the
  listener that collects it, through the connection, to the master: as long as
  the call it answers is open, each word collected is one the signal has held
  since the call began (`TruthOnItsWay`, `SeenByMaster`), and an answer to an
  earlier call has another transaction number (`TidsUsed`).
- `Ipc_proofs`, for any connections, calls, roles and buffer sizes:
  `IpcTypeCorrect`, `IpcAnswersInOrder`, `IpcPushesSubscribed`, `IpcSubsMutex`
  and `IpcAuthority`, from `IpcInv`. For the answers the requests under way are
  numbered up to the last call, and the answer a thread is about to write
  counts as sent (`Numbered`, `Unread`); for the subscriptions an entry carries
  the number of its connection's present session, by which it is removed
  (`SubsOfSession`); for the authority a session was granted by the whitelist
  when it began (`SessionsGranted`).
- `Control_proofs`, virtual machine: `VmStaysInCode` (`VmSafe`) for every
  program that `CodeAssumption` admits, all inputs and any number of scans. The
  invariant `VmInv` adds that the instruction pointer is a reachable place and
  that each return address belongs to a reachable call, since a return pops
  what some call pushed earlier. `VmScanPublishes`: the write-back of the whole
  signal table changes only signals that a reachable `Store` names, from
  `TableInv`: during a scan the table differs from the registry only there.
  Function blocks: `BlocksCorrect` (`BlocksFollowInputs`) for every preset,
  cycle time and number of scans, from `BlocksInv`: what a block kept is what
  was read, and what TP and CTD really do. Field bus: `FieldCacheTruthful` for
  any number of poll threads and values, if no answer is lost, from `FieldInv`:
  a thread between its write and the cache has the client, and the device holds
  its value. `FieldClientDiscipline`, for both protocols: whoever has the
  client's mutex is inside a pass and never comes to lock it again.
  `FieldPassesRunOut` and `FieldStopIsFinal`: after `stop_all` each poll thread
  has at most seven steps left, and then nothing is written or published, also
  if `start_all` is called again. The discipline is inductive as stated
  (`FieldControlInv` adds types); the other two need where a thread can be
  (`PcInv`).

TLC has checked the inductive invariants on the small instances before they
were proved.

Only model-checked:

- all liveness (`StopEndsOrPaused`, `AcceptedApplied`, `ArmedSwapLeaves`,
  `ShutdownEnds`, `AgentEnds`, `CallAnswered`, `RequestHandled`,
  `CycleReturns`, `ScanEnds`, `InputReachesOutput`, `AdaptersStop`), since
  fairness and ENABLED are out of the prover's reach. Of `AgentEnds`,
  `AdaptersStop` and `StopEndsOrPaused` the safety half is proved: the
  theorems on steps that run out (`AgentStepsRunOut`, `FieldPassesRunOut`,
  `EngineStopWindsDown`) leave to TLC that an enabled step is taken;
- `ILComputes`, `LadderAgrees`, `StComputes`, `GcodeMoves` and `LadderCycle`:
  the compilers, and what a source means, are recursive over the source, and
  the prover has no induction over data.

## Disagreements met while modelling that no run shows

The models follow the code in these points; the families of `Sources` avoid
the constructs whose result is not what the source says.

Engine and runtime
- The compute phase takes the write lock of the signals inside an `if let`
  that still holds the read lock (engine.rs:264), so a registered computed
  signal blocks the cycle; and a clone of a `ComputeFn` always yields 0.0.
- `load_hal_program` replaces the program in the middle of a cycle.
- `rollback_swap` drops the program and clears the flag in two steps, so a
  commit in between is lost (`ArmedSwapLeaves` leaves these steps out);
  overlapping HMI deployments may be applied in
  another order than that of their generations.
- `LifecycleManager`: Failed is not permanent, the backoff is not waited for,
  and attempts that fail to start are not limited.
- The agent pushes its status with method id 0x07, which the controller reads
  as LOAD_PROGRAM (agent main.rs:25), and does not wait for its backoff.

Middleware and IPC
- Two setters can lower the lock level; a method named `configureComponent`
  counts as Load and is refused at Config; when two publications overlap, a
  subscriber and a reader may end with different values.
- A Backpressure write sleeps with the mutex held, so no reader can make room.
- The handler of a timed out RPC call still takes effect.
- An expired session is not reset; session ids are 1 on every connection; a
  read timeout inside a frame loses the framing; breakpoints are dropped by
  load and swap, and take no effect because debug mode is never enabled.

Devices
- `AdapterManager` started twice runs two poll threads and keeps one handle; a
  device that restarts is not noticed by the write cache.
- `drain_rx` of the HART client fails on every timeout (client.rs:125).
- The virtual Modbus device stores only the first of several written values and
  echoes the full count, refuses function 16 with one register, and panics on
  an address beyond the last in checked builds; a second `start()` while the old
  thread waits in `accept()` revives the old one. `ModbusClient` stays
  "connected" after the device has hung up.

Virtual machine and axis programs
- `Ret` skips the instruction after the call; division of U8 and U32 by zero
  panics; a `Jump` without an immediate never advances.
- CTU has no R and CTD no LD input (vm.rs:39 and :41 name both), so a CTD
  stays at 0 with its output on.
- A program that is written to loop forever stops the control cycle.
- The alarm output is always on; the soft limits clobber their maximum; backlash
  is added every cycle; combined programs with backlash have unrelocated jumps.
- The trapezoidal program has no Halt (the runs append one); short moves use
  overwritten and inverted factors; only distances that are multiples of the
  step are exact.

Compilers
- Instruction List: a comparison that is false skips the next instruction;
  operands of OR, ORN, XOR, arithmetic and comparisons are not loaded from
  signals; S and R set a register only; literals read unknown signals.
- Ladder: a branch on a variable not yet loaded reads 0; SET and RESET do not
  reach signals. The evaluator forgets edges from cycle to cycle.
- Charts: a step that leads to itself never ends the scan; a condition that is
  a single variable always holds, and the constant 1 never does.
- Block diagrams: `CAL` jumps to Halt, so outputs are not written.
- Structured Text: variables are not loaded from signals; AND, OR and NOT in
  conditions are wrong, and a comparison used as a value is inverted; the target
  as a right operand is clobbered; deeply nested right operands or EXIT outside
  a loop panic; the FOR variable is not stored.
- G-code: a clockwise arc with a positive radius goes the long way round,
  because its center is put on the side of the counterclockwise one
  (compiler.rs:506; the comment above it promises the short arc); jumps of feed
  moves are not relocated; a rapid move to Y or Z 0 is
  skipped; lines with coordinates only are ignored; of several G words the last
  wins; without M2 or M30 there is no Halt.

## Not modelled

- Byte formats: frames of IPC, encodings, HART frames and flatbuffers. Messages
  arrive whole.
- Characters to words or tokens in the compilers; calls of function blocks in
  Structured Text; arrays, strings and widths of integers in the machine, as no
  program here comes near the width of a type.
- Computed signals, audit log, discovery, liveliness and security domains.
- The configuration file and its watcher, which no binary uses; fault lists and
  scenes of the simulation.
- The Zenoh middleware, an in-memory skeleton so far.
- Health endpoint, metrics and logging: outputs that nothing reads back.
- The debug adapter and the Theia bridge, which translate one request into one
  call; the layout of diagrams; generated code and the binding of libmodbus.
- Everything in TypeScript: the studio and its editors, the backend that counts,
  admits and logs requests before it calls the bridge, and the HMI panels.

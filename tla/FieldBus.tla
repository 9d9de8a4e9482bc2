------------------------------ MODULE FieldBus ------------------------------
(* A field device, the poll threads of its protocol adapter (crates        *)
(* audesys-modbus and audesys-hart, adapter.rs), the AdapterManager that   *)
(* starts and stops them, the transport's two signals and the engine cycle *)
(* that connects them: the read mapping publishes signal "in", which the   *)
(* engine monitors; its program copies "in" to "out", which the engine     *)
(* owns; the write mapping pushes "out" to the device.                     *)
(*                                                                         *)
(* One label per access to what is shared.  The transport and the cache    *)
(* have locks of their own, held for one access; the client's mutex is     *)
(* `client`.  A device answers, or a poll fails: the request is lost, or   *)
(* only its answer is.                                                     *)
EXTENDS Integers, Sequences, FiniteSets

CONSTANTS
  Threads,     \* poll threads, one per start_all
  Protocols,   \* subset of {"modbus", "hart"}
  Words,       \* what the input register of the device may hold
  Forced,      \* values an operator or the simulation publishes
  Faults,      \* subset of {"request", "answer"}: what gets lost
  MaxEvents,   \* bound: input changes, forced values and faults
  None         \* Option::None, no thread

ASSUME FieldAssumption ==
  None \notin Threads /\ MaxEvents \in Nat /\ Protocols \subseteq {"modbus", "hart"}

Signals == {"in", "out"}

(* HalValue: of the types the two mappings tell apart *)
Word(n) == [type |-> "U16", n |-> n]
LongWord(n) == [type |-> "U32", n |-> n]
OddBlob == [type |-> "Blob", n |-> 0]      \* of an odd number of bytes

VARIABLES
  protocol,                     \* of this adapter (rigid)
  device_in, device_out,        \* the device's registers
  transport,                    \* signal -> value or None
  cache,                        \* signal_cache of the write mapping, or None
  client,                       \* the thread that holds the client's mutex
  tpc, value,                   \* poll thread -> label, the value it carries
  shutdown, handle, mpc,        \* AdapterManager: the flag, the kept handle
  epc, registered,                \* the engine's cycle and its signals
  events

threadVars == <<tpc, value, client>>
managerVars == <<shutdown, handle, mpc>>
engineVars == <<epc, registered>>
fieldVars == <<protocol, device_in, device_out, transport, cache, threadVars,
               managerVars, engineVars, events>>

FieldInit ==
  /\ protocol \in Protocols
  /\ device_in \in Words /\ device_out = <<0, 0>>
  /\ transport = [s \in Signals |-> None] /\ cache = None
  /\ client = None
  /\ tpc = [t \in Threads |-> "unborn"] /\ value = [t \in Threads |-> None]
  /\ shutdown = FALSE /\ handle = None /\ mpc = "idle"
  /\ epc = "read" /\ registered = [s \in Signals |-> Word(0)]
  /\ events = 0

Goto(t, label) == tpc' = [tpc EXCEPT ![t] = label]
Happens == events < MaxEvents /\ events' = events + 1

-----------------------------------------------------------------------------
(* registers_to_halvalue, of a mapping whose type is U16, and              *)
(* halvalue_to_registers, of the values that reach the write mapping       *)

FromRegisters(regs) == Word(regs[1])

Encodes(v) == v.type # "Blob"

ToRegisters(v) ==
  IF v.type = "U16" THEN <<v.n>> ELSE <<v.n \div 65536, v.n % 65536>>

\* write_single_register, write_multiple_registers
Overwritten(regs, v) ==
  [i \in 1..2 |-> IF i \in DOMAIN ToRegisters(v) THEN ToRegisters(v)[i] ELSE regs[i]]

-----------------------------------------------------------------------------
(* The poll thread *)

\* Mutant: only the thread whose handle is kept is told to stop.
LoopHead_OnlyKept(t) ==
  /\ tpc[t] = "loop"
  /\ Goto(t, IF shutdown /\ handle = t THEN "ended" ELSE "read")
  /\ UNCHANGED <<protocol, device_in, device_out, transport, cache, value, client,
                 managerVars, engineVars, events>>
LoopHead(t) ==
  /\ tpc[t] = "loop"
  /\ Goto(t, IF shutdown THEN "ended" ELSE "read")
  /\ UNCHANGED <<protocol, device_in, device_out, transport, cache, value, client,
                 managerVars, engineVars, events>>

\* The end of a pass: whatever the thread holds of the client is released.
EndPass(t) ==
  /\ Goto(t, "loop") /\ client' = (IF client = t THEN None ELSE client)
  /\ value' = [value EXCEPT ![t] = None]

Holder(t) == IF protocol = "hart" THEN t ELSE None

\* The client is locked for one exchange; HART keeps it for the whole pass.
PollRead(t) ==
  /\ tpc[t] = "read" /\ client = None
  /\ value' = [value EXCEPT ![t] = FromRegisters(<<device_in>>)]
  /\ client' = Holder(t) /\ Goto(t, "publish")
  /\ UNCHANGED <<protocol, device_in, device_out, transport, cache,
                 managerVars, engineVars, events>>

\* Log and skip: the next mapping is polled.
PollReadFails(t) ==
  /\ tpc[t] = "read" /\ client = None /\ Happens
  /\ client' = Holder(t) /\ Goto(t, "look")
  /\ UNCHANGED <<protocol, device_in, device_out, transport, cache, value,
                 managerVars, engineVars>>

\* publish_signal; the cache of a read mapping is written and never read.
PublishIn(t) ==
  /\ tpc[t] = "publish" /\ Goto(t, "look")
  /\ transport' = [transport EXCEPT !["in"] = value[t]]
  /\ value' = [value EXCEPT ![t] = None]
  /\ UNCHANGED <<protocol, device_in, device_out, cache, client, managerVars, engineVars, events>>

\* read_signal of the write mapping; nothing to do before the first value.
LookOut(t) ==
  /\ tpc[t] = "look"
  /\ IF transport["out"] = None THEN EndPass(t)
     ELSE /\ value' = [value EXCEPT ![t] = transport["out"]]
          /\ Goto(t, "compare") /\ UNCHANGED client
  /\ UNCHANGED <<protocol, device_in, device_out, transport, cache,
                 managerVars, engineVars, events>>

\* Skip if unchanged.  The writes of HART are no-ops, which are cached.
CompareOut(t) ==
  /\ tpc[t] = "compare"
  /\ IF cache = value[t] \/ (protocol = "hart" /\ ~Encodes(value[t]))
     THEN EndPass(t)
     ELSE /\ Goto(t, IF protocol = "modbus" THEN "write" ELSE "cacheOut")
          /\ UNCHANGED <<value, client>>
  /\ UNCHANGED <<protocol, device_in, device_out, transport, cache,
                 managerVars, engineVars, events>>

\* Mutant: the client is released between the write and the cache.
PollWrite_Unlocks(t) ==
  /\ tpc[t] = "write" /\ client = None /\ Encodes(value[t])
  /\ device_out' = Overwritten(device_out, value[t])
  /\ UNCHANGED client /\ Goto(t, "cacheOut")
  /\ UNCHANGED <<protocol, device_in, transport, cache, value, managerVars, engineVars, events>>
PollWrite(t) ==
  /\ tpc[t] = "write" /\ client = None /\ Encodes(value[t])
  /\ device_out' = Overwritten(device_out, value[t])
  /\ client' = t /\ Goto(t, "cacheOut")
  /\ UNCHANGED <<protocol, device_in, transport, cache, value, managerVars, engineVars, events>>

\* A value that has no registers is refused in every pass.
PollWriteRefused(t) ==
  /\ tpc[t] = "write" /\ client = None /\ ~Encodes(value[t])
  /\ EndPass(t)
  /\ UNCHANGED <<protocol, device_in, device_out, transport, cache,
                 managerVars, engineVars, events>>

\* Mutant: the value is cached though the write failed.
PollWriteFails_Caches(t) ==
  /\ tpc[t] = "write" /\ client = None /\ Encodes(value[t]) /\ Happens
  /\ cache' = value[t] /\ EndPass(t)
  /\ UNCHANGED <<protocol, device_in, device_out, transport, managerVars, engineVars>>
\* When only the answer is lost the device has the value all the same.
PollWriteFails(t) ==
  /\ tpc[t] = "write" /\ client = None /\ Encodes(value[t]) /\ Happens
  /\ \E f \in Faults :
       device_out' = IF f = "answer" THEN Overwritten(device_out, value[t]) ELSE device_out
  /\ EndPass(t)
  /\ UNCHANGED <<protocol, device_in, transport, cache, managerVars, engineVars>>

\* The client is still locked.
CacheOut(t) ==
  /\ tpc[t] = "cacheOut"
  /\ cache' = value[t] /\ EndPass(t)
  /\ UNCHANGED <<protocol, device_in, device_out, transport, managerVars, engineVars, events>>

PollStep(t) ==
  \/ LoopHead(t) \/ PollRead(t) \/ PollReadFails(t) \/ PublishIn(t) \/ LookOut(t)
  \/ CompareOut(t) \/ PollWrite(t) \/ PollWriteRefused(t) \/ PollWriteFails(t) \/ CacheOut(t)

-----------------------------------------------------------------------------
(* AdapterManager: its methods take &mut self.  start_all called again     *)
(* drops the handle of the thread before; shutdown is never reset.         *)

StartAll ==
  /\ mpc = "idle"
  /\ \E t \in Threads :
       /\ tpc[t] = "unborn" /\ Goto(t, "loop") /\ handle' = t
  /\ UNCHANGED <<protocol, device_in, device_out, transport, cache, value, client,
                 shutdown, mpc, engineVars, events>>

StopAll ==
  /\ mpc = "idle"
  /\ shutdown' = TRUE /\ mpc' = "join"
  /\ UNCHANGED <<protocol, device_in, device_out, transport, cache, threadVars, handle,
                 engineVars, events>>

JoinAll ==
  /\ mpc = "join" /\ (handle # None => tpc[handle] = "ended")
  /\ handle' = None /\ mpc' = "idle"
  /\ UNCHANGED <<protocol, device_in, device_out, transport, cache, threadVars, shutdown,
                 engineVars, events>>

-----------------------------------------------------------------------------
(* The engine's cycle *)

\* Read barrier and program: nobody else sees the registry in between.
ReadAndExecute ==
  /\ epc = "read" /\ epc' = "write"
  /\ LET in == IF transport["in"] = None THEN registered["in"] ELSE transport["in"]
     IN registered' = [in |-> in, out |-> in]
  /\ UNCHANGED <<protocol, device_in, device_out, transport, cache, threadVars,
                 managerVars, events>>

WriteBarrier ==
  /\ epc = "write" /\ epc' = "read"
  /\ transport' = [transport EXCEPT !["out"] = registered["out"]]
  /\ UNCHANGED <<protocol, device_in, device_out, cache, threadVars, managerVars,
                 registered, events>>

CycleStep == ReadAndExecute \/ WriteBarrier

-----------------------------------------------------------------------------
(* The environment *)

DeviceChanges ==
  /\ Happens
  /\ \E n \in Words \ {device_in} : device_in' = n
  /\ UNCHANGED <<protocol, device_out, transport, cache, threadVars, managerVars, engineVars>>

\* WRITE_SIGNAL of an IPC client, set_signal of the simulation: either signal.
ForceSignal ==
  /\ Happens
  /\ \E s \in Signals, v \in Forced : transport' = [transport EXCEPT ![s] = v]
  /\ UNCHANGED <<protocol, device_in, device_out, cache, threadVars, managerVars, engineVars>>

FieldNext ==
  \/ \E t \in Threads : PollStep(t)
  \/ StartAll \/ StopAll \/ JoinAll
  \/ CycleStep
  \/ DeviceChanges \/ ForceSignal

\* Threads that can run do so in the end; a mutex that is free for good is
\* taken.
PollFairness == (\A t \in Threads : WF_fieldVars(PollStep(t))) /\ WF_fieldVars(JoinAll)
FieldFairness == PollFairness /\ WF_fieldVars(CycleStep)

FieldSpec == FieldInit /\ [][FieldNext]_fieldVars /\ FieldFairness

-----------------------------------------------------------------------------
(* Properties.                                                             *)

DeviceHolds(v) == \A i \in DOMAIN ToRegisters(v) : device_out[i] = ToRegisters(v)[i]

\* Between the writes, which hold the client, the device holds what the cache
\* of the Modbus adapter says it was sent: skipping a value "if unchanged"
\* never leaves the device with another one, however many poll threads race,
\* as long as no answer is lost.
CacheTruthful ==
  protocol = "modbus" /\ cache # None /\ (\A t \in Threads : tpc[t] # "cacheOut")
    => DeviceHolds(cache)

Polled == ~shutdown /\ \E t \in Threads : tpc[t] # "unborn"

\* An input that stays what it is gets to the engine's registry and, through
\* the write mapping ("push changed values back to Modbus devices"), to the
\* device's output, though a value was forced or a poll failed before.
InputReachesOutput ==
  \A n \in Words :
    <>[](device_in = n /\ Polled) =>
      <>[](registered["in"] = Word(n) /\ (protocol = "modbus" => DeviceHolds(Word(n))))

\* stop_all returns and every poll thread ends, those included whose handle
\* another start_all has dropped.
AdaptersStop ==
  shutdown ~> (mpc = "idle" /\ \A t \in Threads : tpc[t] \in {"unborn", "ended"})

\* Where a poll thread is while it has the client, after an exchange: Modbus
\* keeps it from a write to the cache, HART to the end of the pass.  None of
\* these labels waits for the client.
InsidePass == IF protocol = "hart" THEN {"publish", "look", "compare", "cacheOut"} ELSE {"cacheOut"}

\* The client's mutex is never waited for by the thread that has it, so that
\* its holder always goes on and gives it up.  A HART pass has the client from
\* its first exchange to its end: the passes of several poll threads (start_all
\* called again) do not interleave, and none comes to a second lock.
ClientDiscipline ==
  /\ client # None => client \in Threads /\ tpc[client] \in InsidePass
  /\ \A t \in Threads : tpc[t] \in InsidePass => client = t
  /\ protocol = "hart" => \A t \in Threads : tpc[t] # "write"

\* The steps a poll thread has left once the flag is set.
PassLeft(t) ==
  CASE tpc[t] = "read" -> 7    [] tpc[t] = "publish" -> 6 [] tpc[t] = "look" -> 5
    [] tpc[t] = "compare" -> 4 [] tpc[t] = "write" -> 3   [] tpc[t] = "cacheOut" -> 2
    [] tpc[t] = "unborn" -> 2  [] tpc[t] = "loop" -> 1    [] tpc[t] = "ended" -> 0

\* After stop_all has set the flag every step of a poll thread is one of the
\* at most seven it has left, also of the threads that start_all starts later.
PassesRunOut ==
  [][shutdown => \A t \in Threads :
       /\ PassLeft(t)' <= PassLeft(t)
       /\ PollStep(t) => PassLeft(t)' < PassLeft(t)]_fieldVars

\* No thread is inside a pass, and the flag is set.
PollsOver == shutdown /\ \A t \in Threads : tpc[t] \in {"unborn", "loop", "ended"}

\* stop_all is final: once the passes that were under way have ended, no
\* write reaches the device and no poll publishes, even if start_all is called
\* again (the flag is never reset).
StopIsFinal ==
  [][PollsOver =>
       /\ PollsOver' /\ device_out' = device_out /\ cache' = cache
       /\ transport'["in"] # transport["in"] => ForceSignal]_fieldVars

\* Strengthening: a thread between its write and the cache has the client, and
\* the device holds its value.
FieldInv ==
  /\ DOMAIN tpc = Threads /\ tpc = [t \in Threads |-> tpc[t]]
  /\ DOMAIN value = Threads /\ value = [t \in Threads |-> value[t]]
  /\ protocol = "modbus" => \A t \in Threads :
       tpc[t] = "cacheOut" => client = t /\ DeviceHolds(value[t])
  /\ CacheTruthful
=============================================================================

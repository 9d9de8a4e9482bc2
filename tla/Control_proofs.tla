--------------------------- MODULE Control_proofs ---------------------------
(* Proofs about the control side of the runtime: the virtual machine stays   *)
(* in its program, the outputs of the function blocks follow their inputs,   *)
(* and the cache of the Modbus adapter tells what the device holds.          *)
EXTENDS HalVm, FunctionBlocks, FieldBus, SequenceTheorems, TLAPS

-----------------------------------------------------------------------------
(* HalVm: for every program whose reachable places have instructions.  That *)
(* the machine is at one of them is inductive together with the same for    *)
(* the calls on its stack (VmInv).                                          *)

\* A reachable instruction leads to reachable ones.
LEMMA StaysReachable ==
  ASSUME NEW code, WellFormed(code), NEW i \in Reachable(code), NEW k \in Successors(code, i, Reachable(code))
  PROVE  k \in Reachable(code)
BY DEF WellFormed, Flow

\* The machine goes on to where its instruction leads.
LEMMA StepFollowsFlow ==
  ASSUME VmInv, Step, phase' = "run"
  PROVE  ip' \in Successors(Code[program], ip, Reachable(Code[program]))
<1> DEFINE inst == Instruction  code == Code[program]
<1>1. ip \in Reachable(code) /\ inst = code[ip + 1] /\ ExecuteInstruction(inst)
  BY DEF Step, Running, VmInv, Instruction
<1>2. CASE Nop(inst)
  BY <1>1, <1>2 DEF Nop, Advance, Successors, BlockRuns
<1>3. CASE ExecLoad(inst) \/ ExecLoadIndex(inst) \/ ExecStoreIndex(inst)
  BY <1>1, <1>3 DEF ExecLoad, ExecLoadIndex, ExecStoreIndex, Advance, Successors
<1>4. CASE ExecArithBinop(inst)
  BY <1>1, <1>4 DEF ExecArithBinop, Advance, Successors, Arithmetic, Bitwises
<1>5. CASE ExecUnary(inst) \/ ExecStore(inst)
  BY <1>1, <1>5 DEF ExecUnary, ExecStore, Advance, Successors
<1>6. CASE ExecCompare(inst)
  BY <1>1, <1>6 DEF ExecCompare, Advance, Successors, Comparisons
<1>7. CASE ExecJump(inst)
  BY <1>1, <1>7 DEF ExecJump, Successors
<1>8. CASE ExecJumpIf(inst)
  BY <1>1, <1>8 DEF ExecJumpIf, JumpTaken, Advance, Successors
<1>9. CASE ExecCall(inst)
  BY <1>1, <1>9 DEF ExecCall, Successors
<1>10. CASE ExecRet(inst)
  <2>1. /\ inst.op = "Ret" /\ ip' = call_stack[Len(call_stack)] + 1
        /\ Len(call_stack) \in 1..Len(call_stack)
    BY <1>10, EmptySeq, LenProperties DEF ExecRet, VmInv
  <2>2. PICK c \in Calls(code, Reachable(code)) : call_stack[Len(call_stack)] = c + 1
    BY <2>1 DEF VmInv
  <2>3. c \in Int
    BY <2>2, CodeAssumption DEF Calls, WellFormed, VmInv
  <2>4. Successors(code, ip, Reachable(code)) = {d + 2 : d \in Calls(code, Reachable(code))}
    BY <1>1, <2>1 DEF Successors
  <2>5. ip' = c + 2
    BY <2>1, <2>2, <2>3
  <2> QED BY <2>2, <2>4, <2>5
<1>11. CASE ExecHalt(inst)
  BY <1>11 DEF ExecHalt
<1> QED
  BY <1>1, <1>2, <1>3, <1>4, <1>5, <1>6, <1>7, <1>8, <1>9, <1>10, <1>11 DEF ExecuteInstruction

\* What a program of DOMAIN Code is like.
LEMMA Places ==
  ASSUME NEW p \in DOMAIN Code, NEW i \in Reachable(Code[p])
  PROVE  /\ i \in 0..Len(Code[p]) - 1 /\ i \in Nat /\ i < Len(Code[p])
         /\ \A n \in DOMAIN Code[p][i + 1].args :
              Code[p][i + 1].args[n].k = "R" => Code[p][i + 1].args[n].r \in Registers
         /\ 0 \in Reachable(Code[p])
<1>1. WellFormed(Code[p])
  BY CodeAssumption
<1>2. i \in 0..Len(Code[p]) - 1
  BY <1>1 DEF WellFormed
<1>3. i < Len(Code[p])
  BY <1>2
<1> QED BY <1>1, <1>2, <1>3 DEF WellFormed

\* The calls to return from stay calls of the program.
LEMMA StackStep ==
  ASSUME VmInv, Step
  PROVE  /\ call_stack' \in Seq(Nat)
         /\ \A k \in 1..Len(call_stack') :
              call_stack'[k] \in {c + 1 : c \in Calls(Code[program], Reachable(Code[program]))}
<1> DEFINE inst == Instruction  code == Code[program]  returns == {c + 1 : c \in Calls(code, Reachable(code))}
<1> SUFFICES call_stack' \in Seq(Nat) /\ \A k \in 1..Len(call_stack') : call_stack'[k] \in returns
  OBVIOUS
<1>1. ip \in Reachable(code) /\ inst = code[ip + 1] /\ ExecuteInstruction(inst)
  BY DEF Step, Running, VmInv, Instruction
<1>2. call_stack \in Seq(Nat) /\ \A k \in 1..Len(call_stack) : call_stack[k] \in returns
  BY DEF VmInv
<1> HIDE DEF returns
<1>3. CASE UNCHANGED call_stack
  BY <1>2, <1>3
<1>4. CASE ExecCall(inst)
  <2>1. inst.op = "Call" /\ call_stack' = Append(call_stack, ip + 1)
    BY <1>4 DEF ExecCall
  <2>2. ip \in Nat
    BY <1>1, Places DEF VmInv
  <2>3. ip \in Calls(code, Reachable(code))
    BY <1>1, <2>1 DEF Calls
  <2>4. ip + 1 \in returns
    BY <2>3 DEF returns
  <2>5. /\ call_stack' \in Seq(Nat) /\ Len(call_stack') = Len(call_stack) + 1 /\ Len(call_stack) \in Nat
        /\ \A k \in 1..Len(call_stack) : call_stack'[k] = call_stack[k]
        /\ call_stack'[Len(call_stack) + 1] = ip + 1
    BY <1>2, <2>1, <2>2, AppendProperties, LenProperties
  <2> QED BY <1>2, <2>4, <2>5
<1>5. CASE ExecRet(inst)
  <2>1. call_stack # <<>> /\ call_stack' = SubSeq(call_stack, 1, Len(call_stack) - 1)
    BY <1>5 DEF ExecRet
  <2>2. Len(call_stack) \in Nat /\ Len(call_stack) # 0
    BY <1>2, <2>1, EmptySeq, LenProperties
  <2>a. 1 \in 1..Len(call_stack) + 1 /\ Len(call_stack) - 1 \in 0..Len(call_stack)
        /\ 1 <= Len(call_stack) - 1 + 1 /\ Len(call_stack) - 1 - 1 + 1 = Len(call_stack) - 1
    BY <2>2
  <2>3. call_stack' \in Seq(Nat) /\ Len(call_stack') = Len(call_stack) - 1
        /\ \A k \in 1..Len(call_stack) - 1 : call_stack'[k] = call_stack[k]
    BY <1>2, <2>1, <2>2, <2>a, SubSeqProperties
  <2>4. \A k \in 1..Len(call_stack') : k \in 1..Len(call_stack) /\ k \in 1..Len(call_stack) - 1
    BY <2>2, <2>3
  <2> QED BY Zenon, <1>2, <2>3, <2>4
<1> QED
  BY <1>1, <1>3, <1>4, <1>5 DEF ExecuteInstruction, Nop, ExecLoad, ExecLoadIndex, ExecStoreIndex,
     ExecArithBinop, ExecUnary, ExecCompare, ExecStore, ExecJump, ExecJumpIf, ExecHalt

\* A step of the machine does not go to rest.
LEMMA StepRuns == ASSUME Step PROVE phase' \in {"run", "halted"} /\ UNCHANGED program
<1>1. phase = "run" /\ ExecuteInstruction(Instruction) /\ UNCHANGED program
  BY DEF Step, Running
<1> QED
  BY <1>1 DEF ExecuteInstruction, Nop, ExecLoad, ExecLoadIndex, ExecStoreIndex, ExecArithBinop, ExecUnary,
     ExecCompare, ExecStore, ExecJump, ExecJumpIf, ExecCall, ExecRet, ExecHalt

\* The machine starts with VmInv, and every step keeps it.
LEMMA VmStart == VmInit => VmInv
<1> SUFFICES ASSUME VmInit PROVE VmInv
  OBVIOUS
<1>1. <<>> \in Seq(Nat) /\ Len(<<>>) = 0
  BY EmptySeq
<1> QED BY <1>1 DEF VmInit, VmInv

\* Beginning a scan, an instruction and ending a scan keep VmInv.
LEMMA VmStep == VmInv /\ [VmNext]_vmVars => VmInv'
<1> SUFFICES ASSUME VmInv, [VmNext]_vmVars PROVE VmInv'
  OBVIOUS
<1>1. <<>> \in Seq(Nat) /\ Len(<<>>) = 0
  BY EmptySeq
<1>2. CASE BeginScan
  <2>1. 0 \in Reachable(Code[program])
    BY CodeAssumption DEF VmInv, WellFormed
  <2> QED BY <1>1, <1>2, <2>1 DEF VmInv, BeginScan, ResetVm
<1>3. CASE Step
  <2>1. phase' = "run" => ip' \in Reachable(Code[program])
    <3> SUFFICES ASSUME phase' = "run" PROVE ip' \in Reachable(Code[program])
      OBVIOUS
    <3>1. WellFormed(Code[program]) /\ ip \in Reachable(Code[program])
      BY <1>3, CodeAssumption DEF VmInv, Step, Running
    <3> QED BY <1>3, <3>1, StepFollowsFlow, StaysReachable
  <2> QED BY <1>3, <2>1, StackStep, StepRuns DEF VmInv
<1>4. CASE EndScan
  BY <1>1, <1>4 DEF VmInv, EndScan, ResetVm
<1>5. CASE UNCHANGED vmVars
  BY <1>5 DEF VmInv, vmVars, machine
<1> QED BY <1>2, <1>3, <1>4, <1>5 DEF VmNext

\* Every program whose reachable places have instructions stays within them,
\* whatever its jumps, calls and returns, its registers and the inputs.
THEOREM VmStaysInCode == VmSpec => []VmSafe
<1>1. VmInv => VmSafe
  BY Places DEF VmInv, VmSafe, Running, Instruction
<1> QED BY <1>1, VmStart, VmStep, PTL DEF VmSpec

\* An instruction leaves the table as it is, or is a reachable Store that sets
\* the signal it names.
LEMMA StepStores ==
  ASSUME VmInv, Step
  PROVE  \/ UNCHANGED signals
         \/ \E s \in Stored(Code[program]) :
              /\ DOMAIN signals' = DOMAIN signals \cup {s}
              /\ \A x \in DOMAIN signals : x # s => signals'[x] = signals[x]
<1> DEFINE inst == Instruction  code == Code[program]
<1>1. ip \in Reachable(code) /\ inst = code[ip + 1] /\ ExecuteInstruction(inst)
  BY DEF Step, Running, VmInv, Instruction
<1>2. CASE ExecStore(inst)
  <2>1. inst.args[1].s \in Stored(code)
    BY <1>1, <1>2 DEF ExecStore, Stored
  <2>2. signals' = [s \in DOMAIN signals \cup {inst.args[1].s} |->
                      IF s = inst.args[1].s THEN ReadReg(inst.args[2]) ELSE signals[s]]
    BY <1>2 DEF ExecStore
  <2> HIDE DEF inst, code
  <2>3. /\ DOMAIN signals' = DOMAIN signals \cup {inst.args[1].s}
        /\ \A x \in DOMAIN signals : x # inst.args[1].s => signals'[x] = signals[x]
    BY <2>2
  <2>4. \E s \in Stored(code) :
              /\ DOMAIN signals' = DOMAIN signals \cup {s}
              /\ \A x \in DOMAIN signals : x # s => signals'[x] = signals[x]
    BY <2>1, <2>3
  <2> QED BY <2>4 DEF code
<1>3. CASE UNCHANGED signals
  BY <1>3
<1> QED
  BY <1>1, <1>2, <1>3 DEF ExecuteInstruction, Nop, ExecLoad, ExecLoadIndex, ExecStoreIndex, ExecArithBinop,
     ExecUnary, ExecCompare, ExecJump, ExecJumpIf, ExecCall, ExecRet, ExecHalt

\* For every program and every registry, a scan changes no signal but those
\* the program can store to: the copy of the whole table back to the registry
\* gives every other signal the value the engine copied in.
THEOREM VmScanPublishes == VmSpec => ScanPublishes
<1>1. VmInit => TableInv
  BY DEF VmInit, TableInv
<1>2. VmInv /\ TableInv /\ [VmNext]_vmVars => TableInv'
  <2> SUFFICES ASSUME VmInv, TableInv, [VmNext]_vmVars PROVE TableInv'
    OBVIOUS
  <2>1. CASE BeginScan
    BY <2>1 DEF BeginScan, TableInv
  <2>2. CASE Step
    <3>1. phase # "idle" /\ UNCHANGED <<program, registry>>
      BY <2>2 DEF Step, Running
    <3> QED BY <2>2, <3>1, StepStores DEF TableInv
  <2>3. CASE EndScan
    BY <2>3 DEF EndScan, TableInv
  <2>4. CASE UNCHANGED vmVars
    BY <2>4 DEF vmVars, machine, TableInv
  <2> QED BY <2>1, <2>2, <2>3, <2>4 DEF VmNext
<1>3. TableInv => [EndScan => /\ DOMAIN registry' = DOMAIN registry
                              /\ \A s \in DOMAIN registry \ Stored(Code[program]) :
                                   registry'[s] = registry[s]]_vmVars
  BY DEF TableInv, EndScan
<1> QED BY <1>1, <1>2, <1>3, VmStart, VmStep, PTL DEF VmSpec, ScanPublishes

-----------------------------------------------------------------------------
(* FunctionBlocks: for every preset time, preset value and cycle time the  *)
(* outputs of a function block follow from the history of its inputs.  The *)
(* property is inductive once the block's own memory of the last scan is   *)
(* tied to the inputs of that scan (BlocksInv).                            *)

\* A freshly loaded program satisfies the invariant.
LEMMA BlocksStart == BlocksInit => BlocksInv
<1> SUFFICES ASSUME BlocksInit PROVE BlocksInv
  OBVIOUS
<1>1. BlocksTypeOK
  BY DEF BlocksInit, NewTimer, NewCounter, NewSr, NewEdge, BlocksTypeOK
<1>2. BlocksExact
  BY BlockAssumption DEF BlocksInit, NewTimer, NewCounter, NewSr, NewEdge, BlocksExact, TonFollows,
     TofFollows, TpFollows, CtuFollows, CtdFollows, CtudFollows, SrFollows, Least, FlipFlops
<1> QED
  BY <1>1, <1>2 DEF BlocksInit, NewTimer, NewCounter, NewSr, NewEdge, BlocksInv

\* A load leaves the invariant true: block and history start again together.
LEMMA BlocksLoad == BlocksInv /\ Load => BlocksInv'
<1> SUFFICES ASSUME BlocksInv, Load PROVE BlocksInv'
  OBVIOUS
<1>1. BlocksTypeOK'
  BY DEF Load, BlocksInv, BlocksTypeOK
<1>2. BlocksExact'
  BY BlockAssumption DEF Load, BlocksExact, TonFollows, TofFollows, TpFollows,
     CtuFollows, CtdFollows, CtudFollows, SrFollows, Least, FlipFlops
<1> QED
  BY <1>1, <1>2 DEF Load, BlocksInv

\* A scan keeps the types.
LEMMA BlocksScanType ==
  ASSUME BlocksTypeOK, NEW x \in BOOLEAN, NEW y \in BOOLEAN,
         Run(x, y), Observe(x, y), UNCHANGED block
  PROVE  BlocksTypeOK'
<1>1. block' \in Timers \cup Counters \cup FlipFlops \cup Triggers
  BY DEF BlocksTypeOK
<1>2. /\ scans' \in Nat /\ a' \in BOOLEAN /\ b' \in BOOLEAN
      /\ on_for' \in Nat /\ off_for' \in Nat /\ ever_on' \in BOOLEAN
      /\ ups' \in Nat /\ downs' \in Nat /\ last' \in {"none", "set", "reset"}
  BY BlockAssumption DEF BlocksTypeOK, Observe
<1>3. CASE TimerRun(x)
  <2>1. elapsed_ms' \in Nat
    <3>1. elapsed_ms + CycleMs \in Nat /\ 0 + CycleMs \in Nat /\ elapsed_ms \in Nat
      BY BlockAssumption DEF BlocksTypeOK
    <3>2. CASE Ton(x)
      BY <3>1, <3>2, BlockAssumption DEF Ton, Elapse
    <3>3. CASE Tof(x)
      BY <3>1, <3>3, BlockAssumption DEF Tof, Elapse
    <3>4. CASE Tp(x)
      BY <3>1, <3>4, BlockAssumption DEF Tp
    <3> QED
      BY <1>3, <3>2, <3>3, <3>4 DEF TimerRun
  <2>2. q' \in BOOLEAN
    BY <1>3 DEF BlocksTypeOK, TimerRun, Ton, Tof, Tp
  <2> QED
    BY <1>1, <1>2, <1>3, <2>1, <2>2 DEF BlocksTypeOK, TimerRun, KeepInput
<1>4. CASE CounterRun(x, y)
  <2>1. cv' \in Nat
    BY <1>4, BlockAssumption DEF BlocksTypeOK, CounterRun, Up, Down, Least
  <2>2. q' \in BOOLEAN /\ qu' \in BOOLEAN /\ qd' \in BOOLEAN
    <3>1. CASE block = "CTUD"
      BY <1>4, <3>1 DEF CounterRun
    <3>2. CASE block = "CTU"
      BY <1>4, <3>2 DEF BlocksTypeOK, CounterRun
    <3>3. CASE block = "CTD"
      BY <1>4, <3>3 DEF BlocksTypeOK, CounterRun
    <3> QED
      BY <1>4, <3>1, <3>2, <3>3 DEF CounterRun
  <2> QED
    BY <1>1, <1>2, <1>4, <2>1, <2>2 DEF BlocksTypeOK, CounterRun
<1>5. CASE SrRun(x, y)
  BY <1>1, <1>2, <1>5 DEF BlocksTypeOK, SrRun, Set, Reset
<1>6. CASE EdgeRun(x)
  BY <1>1, <1>2, <1>6 DEF BlocksTypeOK, EdgeRun
<1> QED
  BY <1>3, <1>4, <1>5, <1>6 DEF Run

\* A scan of an on-delay timer.
LEMMA TonScan ==
  ASSUME BlocksInv, block = "TON", NEW x \in BOOLEAN, NEW y \in BOOLEAN,
         Ton(x), Observe(x, y)
  PROVE  TonFollows'
BY BlockAssumption DEF BlocksInv, BlocksTypeOK, BlocksExact, TonFollows, Timers,
   Ton, Elapse, Expired, Observe, Least

\* A scan of an off-delay timer.
LEMMA TofScan ==
  ASSUME BlocksInv, block = "TOF", NEW x \in BOOLEAN, NEW y \in BOOLEAN,
         Tof(x), Observe(x, y)
  PROVE  TofFollows'
<1>1. /\ TofFollows /\ in_val = a /\ (~ever_on => ~a) /\ (a => off_for = 0)
      /\ elapsed_ms \in Nat /\ off_for \in Nat /\ on_for \in Nat /\ a \in BOOLEAN /\ q \in BOOLEAN
      /\ ever_on \in BOOLEAN
  BY DEF BlocksInv, BlocksTypeOK, BlocksExact, Timers
<1>2. a' = x /\ ever_on' = (ever_on \/ x) /\ off_for' = IF x THEN 0 ELSE off_for + CycleMs
  BY DEF Observe
<1>3. CASE x
  BY <1>1, <1>2, <1>3 DEF Tof, TofFollows
<1>4. CASE ~x /\ q
  <2>1. ever_on /\ elapsed_ms + CycleMs = off_for + CycleMs
    BY <1>1, <1>4, BlockAssumption DEF TofFollows, Least
  <2>2. elapsed_ms' = (IF off_for' >= PT THEN PT ELSE off_for') /\ q' = ~(off_for' >= PT)
    BY <1>2, <1>4, <2>1 DEF Tof, Elapse, Expired
  <2>3. off_for' \in Nat
    BY <1>1, <1>2, <1>4, BlockAssumption
  <2>4. a' = FALSE /\ ever_on' = TRUE
    BY <1>1, <1>2, <1>4, <2>1
  <2>5. CASE off_for' >= PT
    <3>1. ~(off_for' < PT) /\ Least(off_for', PT) = PT
      BY <2>3, <2>5, BlockAssumption DEF Least
    <3>2. q' = FALSE /\ elapsed_ms' = PT
      BY <2>2, <2>5
    <3> QED
      BY <2>4, <3>1, <3>2 DEF TofFollows
  <2>6. CASE ~(off_for' >= PT)
    <3>1. off_for' < PT /\ Least(off_for', PT) = off_for'
      BY <2>3, <2>6, BlockAssumption DEF Least
    <3>2. q' = TRUE /\ elapsed_ms' = off_for'
      BY <2>2, <2>6
    <3> QED
      BY <2>4, <3>1, <3>2 DEF TofFollows
  <2> QED
    BY <2>5, <2>6
<1>5. CASE ~x /\ ~q
  BY <1>1, <1>2, <1>5, BlockAssumption DEF Tof, TofFollows, Least
<1> QED
  BY <1>3, <1>4, <1>5

\* What a pulse timer must show after a scan with the input on.
LEMMA TpOn ==
  ASSUME on_for \in Nat, on_for' = on_for + CycleMs, a' = TRUE,
         elapsed_ms' = (IF on_for' >= PT THEN PT ELSE on_for'),
         q' = ~(on_for' >= PT)
  PROVE  TpFollows'
<1>1. on_for' \in Nat
  BY BlockAssumption
<1>2. CASE on_for' >= PT
  <2>1. ~(on_for' < PT) /\ Least(on_for', PT) = PT
    BY <1>1, <1>2, BlockAssumption DEF Least
  <2>2. q' = FALSE /\ elapsed_ms' = PT
    BY <1>2
  <2> QED
    BY <2>1, <2>2 DEF TpFollows
<1>3. CASE ~(on_for' >= PT)
  <2>1. on_for' < PT /\ Least(on_for', PT) = on_for'
    BY <1>1, <1>3, BlockAssumption DEF Least
  <2>2. q' = TRUE /\ elapsed_ms' = on_for'
    BY <1>3
  <2> QED
    BY <2>1, <2>2 DEF TpFollows
<1> QED
  BY <1>2, <1>3

\* A scan of a pulse timer.
LEMMA TpScan ==
  ASSUME BlocksInv, block = "TP", NEW x \in BOOLEAN, NEW y \in BOOLEAN,
         Tp(x), Observe(x, y)
  PROVE  TpFollows'
<1>1. /\ TpFollows /\ in_val = a /\ (~a => on_for = 0) /\ elapsed_ms \in Nat /\ on_for \in Nat
      /\ a \in BOOLEAN /\ q \in BOOLEAN
  BY DEF BlocksInv, BlocksTypeOK, BlocksExact, Timers
<1>2. a' = x /\ on_for' = IF x THEN on_for + CycleMs ELSE 0
  BY DEF Observe
<1>3. CASE x /\ ~a
  <2>1. 0 + CycleMs = on_for'
    BY <1>1, <1>2, <1>3, BlockAssumption
  <2>2. elapsed_ms' = (IF on_for' >= PT THEN PT ELSE on_for') /\ q' = ~(on_for' >= PT)
    BY <1>1, <1>3, <2>1 DEF Tp
  <2> QED
    BY <1>1, <1>2, <1>3, <2>2, TpOn
<1>4. CASE x /\ a
  <2>1. CASE q
    <3>1. elapsed_ms + CycleMs = on_for'
      BY <1>1, <1>2, <1>4, <2>1, BlockAssumption DEF TpFollows, Least
    <3>2. elapsed_ms' = (IF on_for' >= PT THEN PT ELSE on_for') /\ q' = ~(on_for' >= PT)
      BY <1>1, <1>4, <2>1, <3>1 DEF Tp
    <3> QED
      BY <1>1, <1>2, <1>4, <3>2, TpOn
  <2>2. CASE ~q
    <3>1. on_for >= PT /\ elapsed_ms = PT
      BY <1>1, <1>4, <2>2, BlockAssumption DEF TpFollows, Least
    <3>2. on_for' >= PT /\ on_for' \in Nat
      BY <1>1, <1>2, <1>4, <3>1, BlockAssumption
    <3>3. elapsed_ms' = PT /\ ~q'
      BY <1>1, <1>4, <2>2, <3>1 DEF Tp
    <3> QED
      BY <3>2, <3>3, BlockAssumption DEF TpFollows, Least
  <2> QED
    BY <1>1, <2>1, <2>2
<1>5. CASE ~x
  BY <1>1, <1>2, <1>5 DEF Tp, TpFollows
<1> QED
  BY <1>3, <1>4, <1>5

\* A scan of an up counter: cv is the number of rising edges, cut off at PV.
LEMMA CtuScan ==
  ASSUME BlocksInv, block = "CTU", NEW x \in BOOLEAN, NEW y \in BOOLEAN,
         CounterRun(x, y), Observe(x, y)
  PROVE  CtuFollows'
<1>1. cv = Least(ups, PV) /\ cu_val = a /\ ups \in Nat /\ a \in BOOLEAN
  BY DEF BlocksInv, BlocksTypeOK, BlocksExact, CtuFollows, Counters
<1>2. cv' = (IF x /\ ~cu_val THEN Up(cv) ELSE cv) /\ q' = (cv' >= PV)
  BY DEF CounterRun
<1>3. ups' = IF x /\ ~a THEN ups + 1 ELSE ups
  BY DEF Observe
<1>4. cv' = Least(ups', PV)
  BY <1>1, <1>2, <1>3, BlockAssumption DEF Up, Least
<1> QED
  BY <1>2, <1>4 DEF CtuFollows

\* A scan of a down counter.
LEMMA CtdScan ==
  ASSUME BlocksInv, block = "CTD", NEW x \in BOOLEAN, NEW y \in BOOLEAN,
         CounterRun(x, y), Observe(x, y)
  PROVE  CtdFollows'
<1>1. cv = 0
  BY DEF BlocksInv, BlocksExact, CtdFollows
<1>2. cv' = (IF y /\ ~cd_val THEN Down(cv) ELSE cv) /\ q' = (cv' <= 0)
  BY DEF CounterRun
<1>3. cv' = 0
  BY <1>1, <1>2 DEF Down
<1>4. cv' <= 0
  BY <1>3
<1>5. q' = TRUE
  BY <1>2, <1>4
<1> QED
  BY <1>3, <1>5 DEF CtdFollows

\* A scan of an up-down counter: an edge cut off at zero only makes cv larger,
\* and no edge is cut off at PV while there were at most PV of them.
LEMMA CtudScan ==
  ASSUME BlocksInv, block = "CTUD", NEW x \in BOOLEAN, NEW y \in BOOLEAN,
         CounterRun(x, y), Observe(x, y)
  PROVE  CtudFollows'
<1> DEFINE up == IF x /\ ~a THEN Up(cv) ELSE cv
<1>1. /\ cv <= PV /\ cv <= ups /\ (ups <= PV => cv >= ups - downs)
      /\ cu_val = a /\ cd_val = b /\ ups \in Nat /\ downs \in Nat /\ cv \in Nat
      /\ a \in BOOLEAN /\ b \in BOOLEAN
  BY DEF BlocksInv, BlocksTypeOK, BlocksExact, CtudFollows, Counters
<1>2. cv' = IF y /\ ~b THEN Down(up) ELSE up
  BY <1>1 DEF CounterRun
<1>3. qu' = (cv' >= PV) /\ qd' = (cv' <= 0) /\ q' = qu'
  BY DEF CounterRun
<1>4. ups' = (IF x /\ ~a THEN ups + 1 ELSE ups) /\ downs' = (IF y /\ ~b THEN downs + 1 ELSE downs)
  BY DEF Observe
<1>5. up \in Nat /\ up <= PV /\ up <= ups' /\ (ups' <= PV => up >= ups' - downs)
  BY <1>1, <1>4, BlockAssumption DEF Up, Least
<1>6. cv' \in Nat /\ cv' <= up /\ cv' >= up - (IF y /\ ~b THEN 1 ELSE 0)
  <2> HIDE DEF up
  <2> QED
    BY <1>2, <1>5 DEF Down
<1>7. cv' \in Nat /\ cv' <= PV /\ cv' <= ups' /\ (ups' <= PV => cv' >= ups' - downs')
  <2> HIDE DEF up
  <2> QED
    BY <1>1, <1>4, <1>5, <1>6, BlockAssumption
<1>8. (cv' >= PV <=> cv' = PV) /\ (cv' <= 0 <=> cv' = 0)
  BY <1>7, BlockAssumption
<1>9. (qu' <=> cv' = PV) /\ (qd' <=> cv' = 0) /\ (q' <=> qu')
  BY <1>3, <1>8
<1> QED
  BY <1>7, <1>9 DEF CtudFollows

\* A scan of a flip-flop.
LEMMA SrScan ==
  ASSUME BlocksInv, block \in FlipFlops, NEW x \in BOOLEAN, NEW y \in BOOLEAN,
         SrRun(x, y), Observe(x, y)
  PROVE  SrFollows'
<1>1. SrFollows
  BY DEF BlocksInv, BlocksExact
<1>2. CASE x /\ y
  BY <1>2 DEF SrRun, Set, Reset, Observe, SrFollows, FlipFlops
<1>3. CASE ~x \/ ~y
  BY <1>1, <1>3 DEF SrRun, Set, Reset, Observe, SrFollows, FlipFlops
<1> QED
  BY <1>2, <1>3

\* A scan keeps the invariant.
LEMMA BlocksScan == BlocksInv /\ Scan => BlocksInv'
<1> SUFFICES ASSUME BlocksInv, Scan PROVE BlocksInv'
  OBVIOUS
<1>1. PICK x \in BOOLEAN, y \in BOOLEAN : Run(x, y) /\ Observe(x, y)
  BY DEF Scan
<1>2. block' = block
  BY DEF Scan
<1>3. BlocksTypeOK'
  BY <1>1, <1>2, BlocksScanType DEF BlocksInv
<1>4. /\ block = "TON" => Ton(x)
      /\ block = "TOF" => Tof(x)
      /\ block = "TP" => Tp(x)
  BY <1>1 DEF Run, TimerRun, CounterRun, SrRun, EdgeRun, FlipFlops
<1>5. /\ block \in Counters => CounterRun(x, y)
      /\ block \in FlipFlops => SrRun(x, y)
  BY <1>1 DEF Run, TimerRun, CounterRun, SrRun, EdgeRun, Counters, FlipFlops
<1>6. BlocksExact'
  BY <1>1, <1>2, <1>4, <1>5, TonScan, TofScan, TpScan, CtuScan, CtdScan, CtudScan, SrScan
     DEF BlocksExact, Counters
<1>7. (block \in Timers => in_val = a)'
  BY <1>1, <1>2 DEF Run, TimerRun, KeepInput, CounterRun, SrRun, EdgeRun, Timers, FlipFlops, Observe
<1>8. (block \in Counters => cu_val = a /\ cd_val = b)'
  BY <1>1, <1>2, <1>5 DEF CounterRun, Observe
<1>9. (~ever_on => ~a)' /\ (~a => on_for = 0)' /\ (a => off_for = 0)'
  BY <1>1 DEF Observe
<1>10. scans' # 0
  BY <1>1 DEF Observe, BlocksInv, BlocksTypeOK
<1> QED
  BY <1>3, <1>6, <1>7, <1>8, <1>9, <1>10 DEF BlocksInv

\* For every PT, PV and cycle time, the outputs of the blocks follow from the
\* history of their inputs since the program was loaded: all of TON, TOF, CTU,
\* CTUD and the flip-flops, and TP while its input stays on.
THEOREM BlocksCorrect == BlocksSpec => []BlocksFollowInputs
<1>1. BlocksInv /\ [BlocksNext]_blockVars => BlocksInv'
  <2>1. ASSUME BlocksInv, UNCHANGED blockVars PROVE BlocksInv'
    <3> USE <2>1 DEF blockVars, blockState, inputHistory, BlocksInv
    <3>1. BlocksTypeOK'
      BY DEF BlocksTypeOK
    <3>2. BlocksExact'
      <4>1. /\ (TonFollows <=> TonFollows') /\ (TofFollows <=> TofFollows')
            /\ (TpFollows <=> TpFollows')
        BY DEF TonFollows, TofFollows, TpFollows
      <4>2. /\ (CtuFollows <=> CtuFollows') /\ (CtdFollows <=> CtdFollows')
            /\ (CtudFollows <=> CtudFollows') /\ (SrFollows <=> SrFollows')
        BY DEF CtuFollows, CtdFollows, CtudFollows, SrFollows
      <4> QED
        BY <4>1, <4>2 DEF BlocksExact
    <3> QED
      BY <3>1, <3>2
  <2> QED
    BY <2>1, BlocksScan, BlocksLoad DEF BlocksNext
<1>2. BlocksInv => BlocksFollowInputs
  BY DEF BlocksInv, BlocksExact, BlocksFollowInputs, BlocksTypeOK, TpFollows, TpHeld
<1> QED
  BY <1>1, <1>2, BlocksStart, PTL DEF BlocksSpec

-----------------------------------------------------------------------------
(* FieldBus: for any number of poll threads and any faults but lost        *)
(* answers.                                                                *)

\* Only these change what the invariant is about.
fieldCore == <<protocol, device_out, cache, tpc, value, client>>

\* halvalue_to_registers gives one register or two.
LEMMA RegistersOneOrTwo ==
  ASSUME NEW v
  PROVE  DOMAIN ToRegisters(v) \subseteq 1..2
  BY DEF ToRegisters

\* What write_single_register and write_multiple_registers leave is what was
\* sent.
LEMMA OverwrittenHolds ==
  ASSUME NEW v, NEW regs, NEW i \in DOMAIN ToRegisters(v)
  PROVE  Overwritten(regs, v)[i] = ToRegisters(v)[i]
  BY RegistersOneOrTwo DEF Overwritten

\* A pass that ends anywhere but at the cache leaves the invariant: the
\* client is only given up by the thread that has it.
LEMMA EndPassKeeps ==
  ASSUME FieldInv, NEW t \in Threads, EndPass(t), tpc[t] # "cacheOut",
         protocol' = protocol, device_out' = device_out, cache' = cache
  PROVE  FieldInv'
  BY DEF FieldInv, EndPass, Goto, CacheTruthful, DeviceHolds

\* So does a thread that goes on with the client untouched.
LEMMA GotoKeeps ==
  ASSUME FieldInv, NEW t \in Threads, NEW label, Goto(t, label),
         tpc[t] # "cacheOut", protocol = "modbus" => label # "cacheOut",
         value' = value \/ (\E v : value' = [value EXCEPT ![t] = v]),
         client' = client \/ client = None,
         protocol' = protocol, device_out' = device_out, cache' = cache
  PROVE  FieldInv'
  BY FieldAssumption DEF FieldInv, Goto, CacheTruthful, DeviceHolds

\* The write: no other thread can be between its write and the cache.
LEMMA PollWriteKeeps ==
  ASSUME FieldInv, NEW t \in Threads, PollWrite(t)
  PROVE  FieldInv'
<1>1. protocol = "modbus" => \A u \in Threads : tpc[u] # "cacheOut"
  BY FieldAssumption DEF FieldInv, PollWrite
<1>2. DeviceHolds(value[t])'
  BY OverwrittenHolds DEF PollWrite, DeviceHolds
<1>3. QED
  BY <1>1, <1>2 DEF FieldInv, PollWrite, Goto, CacheTruthful, DeviceHolds

\* The cache: it takes over the value that the device holds.
LEMMA CacheOutKeeps ==
  ASSUME FieldInv, NEW t \in Threads, CacheOut(t)
  PROVE  FieldInv'
<1>1. protocol = "modbus" => DeviceHolds(value[t]) /\ \A u \in Threads : u # t => tpc[u] # "cacheOut"
  BY DEF FieldInv, CacheOut
<1>2. QED
  BY <1>1 DEF FieldInv, CacheOut, EndPass, Goto, CacheTruthful, DeviceHolds

\* A request that is lost leaves the device as it was.
LEMMA PollWriteFailsKeeps ==
  ASSUME FieldInv, "answer" \notin Faults, NEW t \in Threads, PollWriteFails(t)
  PROVE  FieldInv'
<1>1. device_out' = device_out
  BY DEF PollWriteFails
<1>2. QED
  BY <1>1, EndPassKeeps DEF PollWriteFails

\* Every step of a poll thread keeps the invariant.
LEMMA PollStepKeeps ==
  ASSUME FieldInv, "answer" \notin Faults, NEW t \in Threads, PollStep(t)
  PROVE  FieldInv'
<1>1. CASE LoopHead(t)
  <2>1. \E l \in {"ended", "read"} : Goto(t, l)
    BY <1>1 DEF LoopHead
  <2>2. QED
    BY <1>1, <2>1, GotoKeeps DEF LoopHead
<1>2. CASE PollRead(t)
  BY <1>2, GotoKeeps DEF PollRead
<1>3. CASE PollReadFails(t)
  BY <1>3, GotoKeeps DEF PollReadFails
<1>4. CASE PublishIn(t)
  BY <1>4, GotoKeeps DEF PublishIn
<1>5. CASE LookOut(t)
  <2>1. CASE transport["out"] = None
    BY <1>5, <2>1, EndPassKeeps DEF LookOut
  <2>2. CASE transport["out"] # None
    BY <1>5, <2>2, GotoKeeps DEF LookOut
  <2>3. QED
    BY <2>1, <2>2
<1>6. CASE CompareOut(t)
  <2>1. CASE EndPass(t)
    BY <1>6, <2>1, EndPassKeeps DEF CompareOut
  <2>2. CASE ~EndPass(t)
    <3> DEFINE l == IF protocol = "modbus" THEN "write" ELSE "cacheOut"
    <3>1. Goto(t, l) /\ UNCHANGED <<value, client>>
      BY Zenon, <1>6, <2>2 DEF CompareOut
    <3>2. protocol = "modbus" => l # "cacheOut"
      OBVIOUS
    <3> HIDE DEF l
    <3>3. QED
      BY <1>6, <3>1, <3>2, GotoKeeps DEF CompareOut
  <2>3. QED
    BY <2>1, <2>2
<1>7. CASE PollWrite(t)
  BY <1>7, PollWriteKeeps
<1>8. CASE PollWriteRefused(t)
  BY <1>8, EndPassKeeps DEF PollWriteRefused
<1>9. CASE PollWriteFails(t)
  BY <1>9, PollWriteFailsKeeps
<1>10. CASE CacheOut(t)
  BY <1>10, CacheOutKeeps
<1>11. QED
  BY <1>1, <1>2, <1>3, <1>4, <1>5, <1>6, <1>7, <1>8, <1>9, <1>10 DEF PollStep

\* What leaves the threads, the device and the cache alone keeps it too.
LEMMA CoreKeeps ==
  ASSUME FieldInv, UNCHANGED fieldCore
  PROVE  FieldInv'
  BY DEF fieldCore, FieldInv, CacheTruthful, DeviceHolds

\* Every step of the adapter, its manager, the engine and the environment.
LEMMA FieldStepKeeps ==
  ASSUME FieldInv, "answer" \notin Faults, [FieldNext]_fieldVars
  PROVE  FieldInv'
<1>1. CASE \E t \in Threads : PollStep(t)
  BY <1>1, PollStepKeeps
<1>2. CASE StartAll
  <2>1. PICK t \in Threads : tpc[t] = "unborn" /\ Goto(t, "loop")
    BY <1>2 DEF StartAll
  <2>2. QED
    BY <1>2, <2>1, GotoKeeps DEF StartAll
<1>3. CASE StopAll \/ JoinAll
  BY <1>3, CoreKeeps DEF StopAll, JoinAll, threadVars, fieldCore
<1>4. CASE CycleStep
  BY <1>4, CoreKeeps DEF CycleStep, ReadAndExecute, WriteBarrier, threadVars, fieldCore
<1>5. CASE DeviceChanges \/ ForceSignal
  BY <1>5, CoreKeeps DEF DeviceChanges, ForceSignal, threadVars, fieldCore
<1>6. CASE UNCHANGED fieldVars
  BY <1>6, CoreKeeps DEF fieldVars, threadVars, fieldCore
<1>7. QED
  BY <1>1, <1>2, <1>3, <1>4, <1>5, <1>6 DEF FieldNext

\* poll_write of the Modbus adapter, for any number of poll threads of one
\* adapter and whatever its manager, the engine and operators do: between two
\* writes the device holds the value that is cached as written, so that no
\* value is skipped which the device does not have.  Answers arrive, requests
\* may be lost.
THEOREM FieldCacheTruthful ==
  ASSUME "answer" \notin Faults
  PROVE  FieldSpec => []CacheTruthful
<1>1. FieldInit => FieldInv
  BY DEF FieldInit, FieldInv, CacheTruthful
<1>2. FieldInv /\ [FieldNext]_fieldVars => FieldInv'
  BY FieldStepKeeps
<1>3. FieldInv => CacheTruthful
  BY DEF FieldInv
<1>4. QED
  BY <1>1, <1>2, <1>3, PTL DEF FieldSpec

\* The variables ClientDiscipline is about are in their types.
FieldControlInv == tpc = [t \in Threads |-> tpc[t]] /\ protocol \in {"modbus", "hart"} /\ ClientDiscipline

\* A pass that ends gives the client up, if its thread has it.
LEMMA EndPassReleases ==
  ASSUME FieldControlInv, NEW t \in Threads, EndPass(t), protocol' = protocol,
         client \in {None, t} \/ tpc[t] \in {"look", "compare"}
  PROVE  FieldControlInv'
BY FieldAssumption DEF FieldControlInv, ClientDiscipline, EndPass, Goto, InsidePass

\* Every step of a poll thread keeps the discipline of the client.
LEMMA PollStepDiscipline ==
  ASSUME FieldControlInv, NEW t \in Threads, PollStep(t)
  PROVE  FieldControlInv'
<1> USE FieldAssumption DEF FieldControlInv, ClientDiscipline, InsidePass
<1>0. protocol' = protocol
  BY DEF PollStep, LoopHead, PollRead, PollReadFails, PublishIn, LookOut, CompareOut, PollWrite,
     PollWriteRefused, PollWriteFails, CacheOut
<1>1. CASE LoopHead(t)
  BY <1>1 DEF LoopHead, Goto
<1>2. CASE PollRead(t) \/ PollReadFails(t)
  <2>1. /\ client = None /\ client' = Holder(t)
        /\ \E l \in {"publish", "look"} : tpc' = [tpc EXCEPT ![t] = l]
    BY <1>2 DEF PollRead, PollReadFails, Goto
  <2>2. CASE protocol = "hart"
    BY <1>0, <2>1, <2>2 DEF Holder
  <2>3. CASE protocol # "hart"
    BY <1>0, <2>1, <2>3 DEF Holder
  <2> QED BY <2>2, <2>3
<1>3. CASE PublishIn(t)
  BY <1>3 DEF PublishIn, Goto
<1>4. CASE EndPass(t) /\ tpc[t] \in {"look", "compare", "cacheOut"}
  BY <1>0, <1>4, EndPassReleases
<1>5. CASE EndPass(t) /\ tpc[t] = "write" /\ client = None
  BY <1>0, <1>5, EndPassReleases
<1>6. CASE LookOut(t) /\ ~EndPass(t)
  BY <1>6 DEF LookOut, Goto
<1>7. CASE CompareOut(t) /\ ~EndPass(t)
  <2>1. tpc[t] = "compare" /\ client' = client
        /\ tpc' = [tpc EXCEPT ![t] = IF protocol = "modbus" THEN "write" ELSE "cacheOut"]
    BY <1>7 DEF CompareOut, Goto
  <2>2. CASE protocol = "hart"
    BY <1>0, <2>1, <2>2
  <2>3. CASE protocol = "modbus"
    BY <1>0, <2>1, <2>3
  <2> QED BY <2>2, <2>3
<1>8. CASE PollWrite(t)
  BY <1>8 DEF PollWrite, Goto
<1> QED
  BY <1>1, <1>2, <1>3, <1>4, <1>5, <1>6, <1>7, <1>8
  DEF PollStep, LookOut, CompareOut, PollWriteRefused, PollWriteFails, CacheOut

\* For any number of poll threads, of either protocol and with any faults, no
\* thread waits for the client while it has it, and HART passes exclude each
\* other: the mutex cannot be what keeps an adapter from stopping.
THEOREM FieldClientDiscipline == FieldSpec => []ClientDiscipline
<1>1. FieldInit => FieldControlInv
  BY FieldAssumption DEF FieldInit, FieldControlInv, ClientDiscipline, InsidePass
<1>2. FieldControlInv /\ [FieldNext]_fieldVars => FieldControlInv'
  <2> SUFFICES ASSUME FieldControlInv, [FieldNext]_fieldVars PROVE FieldControlInv'
    OBVIOUS
  <2>1. CASE \E t \in Threads : PollStep(t)
    BY <2>1, PollStepDiscipline
  <2>2. CASE StartAll
    BY <2>2, FieldAssumption DEF StartAll, Goto, FieldControlInv, ClientDiscipline, InsidePass
  <2>3. CASE UNCHANGED <<protocol, tpc, client>>
    BY <2>3 DEF FieldControlInv, ClientDiscipline, InsidePass
  <2> QED
    BY <2>1, <2>2, <2>3 DEF FieldNext, StopAll, JoinAll, CycleStep, ReadAndExecute, WriteBarrier,
       DeviceChanges, ForceSignal, threadVars, fieldVars
<1>3. FieldControlInv => ClientDiscipline
  BY DEF FieldControlInv
<1> QED BY <1>1, <1>2, <1>3, PTL DEF FieldSpec

\* The labels of a poll thread.
PassLabels == {"unborn", "loop", "read", "publish", "look", "compare", "write", "cacheOut", "ended"}
PcInv == tpc \in [Threads -> PassLabels]

\* A step of a poll thread moves no other thread, and once the flag is set it
\* leaves its thread fewer steps.
LEMMA PollMoves ==
  ASSUME PcInv, NEW t \in Threads, PollStep(t)
  PROVE  /\ \E l \in PassLabels : tpc' = [tpc EXCEPT ![t] = l]
         /\ shutdown => PassLeft(t)' < PassLeft(t)
<1> USE DEF PcInv, PassLabels, PassLeft, Goto
<1>1. CASE LoopHead(t)
  <2>1. CASE shutdown
    BY <1>1, <2>1 DEF LoopHead
  <2>2. CASE ~shutdown
    BY <1>1, <2>2 DEF LoopHead
  <2> QED BY <2>1, <2>2
<1>2. CASE PollRead(t) \/ PollReadFails(t)
  BY <1>2 DEF PollRead, PollReadFails
<1>3. CASE PublishIn(t)
  BY <1>3 DEF PublishIn
<1>4. CASE EndPass(t) /\ tpc[t] \in {"look", "compare", "write", "cacheOut"}
  BY <1>4 DEF EndPass
<1>5. CASE LookOut(t) /\ ~EndPass(t)
  BY <1>5 DEF LookOut
<1>6. CASE CompareOut(t) /\ ~EndPass(t)
  <2>1. CASE protocol = "modbus"
    BY <1>6, <2>1 DEF CompareOut
  <2>2. CASE protocol # "modbus"
    BY <1>6, <2>2 DEF CompareOut
  <2> QED BY <2>1, <2>2
<1>7. CASE PollWrite(t)
  BY <1>7 DEF PollWrite
<1> QED
  BY <1>1, <1>2, <1>3, <1>4, <1>5, <1>6, <1>7
  DEF PollStep, LookOut, CompareOut, PollWriteRefused, PollWriteFails, CacheOut

\* What moves the poll threads: their own steps and start_all.
LEMMA ThreadMoves ==
  ASSUME [FieldNext]_fieldVars
  PROVE  \/ tpc' = tpc
         \/ \E t \in Threads : PollStep(t)
         \/ \E t \in Threads : tpc[t] = "unborn" /\ tpc' = [tpc EXCEPT ![t] = "loop"]
BY DEF FieldNext, StartAll, Goto, StopAll, JoinAll, CycleStep, ReadAndExecute, WriteBarrier, DeviceChanges,
   ForceSignal, threadVars, fieldVars

\* The labels stay labels.
LEMMA PcKept == PcInv /\ [FieldNext]_fieldVars => PcInv'
<1> SUFFICES ASSUME PcInv, [FieldNext]_fieldVars PROVE PcInv'
  OBVIOUS
<1>1. tpc' = tpc \/ \E t \in Threads, l \in PassLabels : tpc' = [tpc EXCEPT ![t] = l]
  BY ThreadMoves, PollMoves DEF PassLabels
<1> QED BY <1>1 DEF PcInv

\* Once the flag is set a poll thread has at most seven steps left and each of
\* its steps is one of them, also when start_all starts it after that: with
\* ClientDiscipline and the fairness of the threads, the argument for
\* AdaptersStop.
THEOREM FieldPassesRunOut == FieldSpec => PassesRunOut
<1>1. FieldInit => PcInv
  BY DEF FieldInit, PcInv, PassLabels
<1>2. PcInv /\ [FieldNext]_fieldVars
        => [shutdown => \A t \in Threads : /\ PassLeft(t)' <= PassLeft(t)
                                           /\ PollStep(t) => PassLeft(t)' < PassLeft(t)]_fieldVars
  <2> SUFFICES ASSUME PcInv, [FieldNext]_fieldVars, shutdown, NEW t \in Threads
               PROVE  /\ PassLeft(t)' <= PassLeft(t)
                      /\ PollStep(t) => PassLeft(t)' < PassLeft(t)
    OBVIOUS
  <2>1. PollStep(t) => PassLeft(t)' < PassLeft(t)
    BY PollMoves
  <2>2. PassLeft(t) \in Nat
    BY DEF PcInv, PassLabels, PassLeft
  <2>3. CASE tpc'[t] = tpc[t]
    <3>1. PassLeft(t)' = PassLeft(t)
      BY <2>3 DEF PassLeft
    <3> QED BY <2>1, <2>2, <3>1
  <2>4. CASE PollStep(t)
    <3>1. PassLeft(t)' \in Nat
      BY PcKept DEF PcInv, PassLabels, PassLeft
    <3> QED BY <2>1, <2>2, <2>4, <3>1
  <2>5. CASE tpc[t] = "unborn" /\ tpc'[t] = "loop"
    BY <2>5 DEF PassLeft
  <2>6. tpc'[t] = tpc[t] \/ PollStep(t) \/ (tpc[t] = "unborn" /\ tpc'[t] = "loop")
    BY ThreadMoves, PollMoves DEF PcInv
  <2> QED BY <2>1, <2>3, <2>4, <2>5, <2>6
<1> QED BY <1>1, <1>2, PcKept, PTL DEF FieldSpec, PassesRunOut

\* When the passes under way have ended after stop_all, nothing an adapter does
\* reaches the device, its cache or the signal it publishes any more, whether
\* or not start_all is called again.
THEOREM FieldStopIsFinal == FieldSpec => StopIsFinal
<1>1. FieldInit => PcInv
  BY DEF FieldInit, PcInv, PassLabels
<1>2. PcInv /\ [FieldNext]_fieldVars
        => [PollsOver => /\ PollsOver' /\ device_out' = device_out /\ cache' = cache
                         /\ transport'["in"] # transport["in"] => ForceSignal]_fieldVars
  <2> SUFFICES ASSUME PcInv, FieldNext, PollsOver
               PROVE  /\ PollsOver' /\ device_out' = device_out /\ cache' = cache
                      /\ transport'["in"] # transport["in"] => ForceSignal
    OBVIOUS
  <2>1. ASSUME NEW t \in Threads, PollStep(t)
        PROVE  LoopHead(t)
    BY <2>1 DEF PollsOver, PollStep, PollRead, PollReadFails, PublishIn, LookOut, CompareOut, PollWrite,
       PollWriteRefused, PollWriteFails, CacheOut
  <2>2. ASSUME NEW t \in Threads, LoopHead(t)
        PROVE  PollsOver' /\ UNCHANGED <<device_out, cache, transport>>
    BY <2>2 DEF LoopHead, Goto, PollsOver, PcInv, managerVars
  <2>3. CASE StartAll
    BY <2>3 DEF StartAll, Goto, PollsOver, PcInv
  <2>4. CASE StopAll \/ JoinAll \/ ReadAndExecute \/ DeviceChanges
    BY <2>4 DEF StopAll, JoinAll, ReadAndExecute, DeviceChanges, threadVars, managerVars, PollsOver
  <2>5. CASE WriteBarrier
    <3>1. transport'["in"] = transport["in"]
      BY <2>5 DEF WriteBarrier
    <3> QED BY <2>5, <3>1 DEF WriteBarrier, threadVars, managerVars, PollsOver
  <2>6. CASE ForceSignal
    BY <2>6 DEF ForceSignal, threadVars, managerVars, PollsOver
  <2> QED BY <2>1, <2>2, <2>3, <2>4, <2>5, <2>6 DEF FieldNext, CycleStep
<1> QED BY <1>1, <1>2, PcKept, PTL DEF FieldSpec, StopIsFinal
=============================================================================

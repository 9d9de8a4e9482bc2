------------------------------- MODULE HalVm -------------------------------
(* The HAL IR virtual machine (crates/audesys-hal-ir) and the way the      *)
(* engine runs it once per cycle: reset, copy the signal registry into the *)
(* VM's signal table, run to Halt, publish the table back, reset.          *)
(* The executor's write lock is held for the whole scan, so only the       *)
(* environment of the next scan interleaves with it.  Floating point       *)
(* numbers are the integers the programs use; no program here comes near   *)
(* the width of an integer type, so widths are left out.  Registers hold   *)
(* no array.  debug_mode is never set outside the executor's own tests, so *)
(* breakpoints and traces do not act.  The function blocks are in          *)
(* FunctionBlocks.                                                         *)
EXTENDS Integers, Sequences

CONSTANTS
  Code,      \* program name -> its instructions
  Registry0, \* program name -> the engine's signals and their values
  Inputs     \* program name -> what may come from outside: functions on signals

Registers == 0..15

(* HalValue: [t |-> type, v |-> number], a Bool is 0 or 1 *)
S32(n) == [t |-> "S32", v |-> n]
U32(n) == [t |-> "U32", v |-> n]
U8(n) == [t |-> "U8", v |-> n]
F64(n) == [t |-> "F64", v |-> n]
Bool(n) == [t |-> "Bool", v |-> n]

(* Operand *)
Reg(r) == [k |-> "R", r |-> r]
Imm(v) == [k |-> "I", v |-> v]
Sig(s) == [k |-> "S", s |-> s]

(* Instruction, and its constructors *)
Instr(op, args) == [op |-> op, args |-> args]
LoadImm(r, v) == Instr("Load", <<Reg(r), Imm(v)>>)
LoadSig(r, s) == Instr("Load", <<Reg(r), Sig(s)>>)
Arith(op, x, y, out) == Instr(op, <<Reg(x), Reg(y), Reg(out)>>)
Cmp(op, x, y) == Instr(op, <<Reg(x), Reg(y)>>)
StoreSig(s, r) == Instr("Store", <<Sig(s), Reg(r)>>)
JumpTo(target) == Instr("Jump", <<Imm(U32(target))>>)
JumpIfTo(target) == Instr("JumpIf", <<Imm(U32(target))>>)
CallTo(target) == Instr("Call", <<Imm(U32(target))>>)
Halt == Instr("Halt", <<>>)

\* Where the instructions at the places in from lead.  A return skips the
\* instruction after the call.
Calls(code, from) == {i \in from : code[i + 1].op = "Call"}
Successors(code, i, from) ==
  LET inst == code[i + 1]
      target == IF inst.args[1].k = "I" THEN {inst.args[1].v.v} ELSE {}
  IN CASE inst.op = "Jump" -> IF inst.args[1].k = "I" THEN target ELSE {i}
       [] inst.op = "JumpIf" -> target \cup {i + 1}
       [] inst.op = "Call" -> {inst.args[1].v.v}
       [] inst.op = "Ret" -> {c + 2 : c \in Calls(code, from)}
       [] inst.op = "Halt" -> {}
       [] OTHER -> {i + 1}
Flow(code, from) == UNION {Successors(code, i, from) : i \in from}

\* The places a program can come to.  after[k, from] are those that 2^k steps
\* lead to.
Reachable(code) ==
  LET after[k \in Nat, from \in SUBSET Nat] ==
        IF k = 0 THEN from \cup Flow(code, from \cap (0..Len(code) - 1))
        ELSE LET half == after[k - 1, from]
             IN IF half = from THEN from ELSE after[k - 1, half]
  IN after[CHOOSE k \in 0..Len(code) : 2^k >= Len(code), {0}]

\* The machine cannot leave such a program but by halting, and the registers
\* it uses exist.  What is not reachable does not matter: code after M30, or
\* the return from a call of the last instruction.
WellFormed(code) ==
  LET places == Reachable(code)
  IN /\ 0 \in places /\ places \subseteq 0..Len(code) - 1 /\ Flow(code, places) \subseteq places
     /\ \A i \in places : \A n \in DOMAIN code[i + 1].args :
          code[i + 1].args[n].k = "R" => code[i + 1].args[n].r \in Registers

ASSUME CodeAssumption == \A p \in DOMAIN Code : WellFormed(Code[p])

VARIABLES
  program,                             \* the loaded program (rigid)
  registry,                            \* the engine's signal registry
  phase,                               \* "idle", "run", "halted"
  registers, flags_zero, ip, signals, call_stack   \* Vm

machine == <<registers, flags_zero, ip, signals, call_stack>>
vmVars == <<program, registry, phase, machine>>

ZeroRegisters == [r \in Registers |-> S32(0)]

VmInit ==
  /\ program \in DOMAIN Code
  /\ registry = Registry0[program]
  /\ phase = "idle"
  /\ registers = ZeroRegisters /\ flags_zero = FALSE /\ ip = 0
  /\ signals = <<>> /\ call_stack = <<>>

-----------------------------------------------------------------------------
(* Operators of HalValue *)

Numeric(x, y) == x.t = y.t /\ x.t # "Bool"

\* Rust divides towards zero.
Quotient(m, n) == LET k == (IF m < 0 THEN -m ELSE m) \div (IF n < 0 THEN -n ELSE n)
                  IN IF (m < 0) = (n < 0) THEN k ELSE -k

Arithmetic == {"Add", "Sub", "Mul", "Div", "Mod"}
Bitwises == {"And", "Or", "Xor"}
Comparisons == {"Eq", "Neq", "Gt", "Lt", "Gte", "Lte"}

\* Of two numbers, bit by bit.
BitAnd[m \in Nat, n \in Nat] ==
  IF m = 0 \/ n = 0 THEN 0 ELSE (m % 2) * (n % 2) + 2 * BitAnd[m \div 2, n \div 2]

ByZero(op, y) == op \in {"Div", "Mod"} /\ y.v = 0 /\ y.t \in {"S32", "F64"}

BinOp(op, x, y) ==
  LET result == CASE op = "Add" -> x.v + y.v
                  [] op = "Sub" -> x.v - y.v
                  [] op = "Mul" -> x.v * y.v
                  [] op = "Div" -> Quotient(x.v, y.v)
                  [] op = "Mod" -> x.v - y.v * Quotient(x.v, y.v)
                  [] op = "And" -> BitAnd[x.v, y.v]
                  [] op = "Or" -> x.v + y.v - BitAnd[x.v, y.v]
                  [] op = "Xor" -> x.v + y.v - 2 * BitAnd[x.v, y.v]
  IN IF \/ ByZero(op, y)
        \/ op \in Arithmetic /\ ~Numeric(x, y)
        \/ op \in Bitwises /\ (x.t # y.t \/ x.t = "F64")
     THEN S32(0)
     ELSE [t |-> x.t, v |-> result]

Negated(x) == IF x.t \in {"S32", "F64"} THEN [x EXCEPT !.v = -x.v] ELSE S32(0)

Complement(x) ==
  CASE x.t = "Bool" -> Bool(1 - x.v)
    [] x.t = "S32" -> S32(-x.v - 1)
    [] x.t = "U8" -> U8(255 - x.v)
    [] OTHER -> S32(0)

\* Values of different types are different and not ordered; nor are Bools.
Holds(op, x, y) ==
  CASE op = "Eq" -> x = y
    [] op = "Neq" -> x # y
    [] op = "Gt" -> Numeric(x, y) /\ x.v > y.v
    [] op = "Lt" -> Numeric(x, y) /\ x.v < y.v
    [] op = "Gte" -> Numeric(x, y) /\ x.v >= y.v
    [] op = "Lte" -> Numeric(x, y) /\ x.v <= y.v

-----------------------------------------------------------------------------
(* One step of the executor *)

Running == phase = "run" /\ ip < Len(Code[program])
Instruction == Code[program][ip + 1]

ReadReg(o) == IF o.k = "R" THEN registers[o.r] ELSE S32(0)
DestReg(o) == IF o.k = "R" THEN o.r ELSE 0
WriteReg(r, x) == registers' = [registers EXCEPT ![r] = x]
Advance == ip' = ip + 1

BlockRuns == {"TimerRun", "CounterRun", "SrRun", "EdgeRun"}

\* A function block instruction with too few operands does nothing either;
\* with all of them it is in FunctionBlocks.
Nop(inst) ==
  /\ inst.op \in {"Nop"} \cup BlockRuns /\ Len(inst.args) < 2
  /\ Advance /\ UNCHANGED <<registers, flags_zero, signals, call_stack, phase>>

\* An unknown signal reads as Bool(false).
LoadedValue(o) ==
  CASE o.k = "I" -> o.v
    [] o.k = "R" -> registers[o.r]
    [] o.k = "S" -> IF o.s \in DOMAIN signals THEN signals[o.s] ELSE Bool(0)

ExecLoad(inst) ==
  /\ inst.op = "Load"
  /\ WriteReg(inst.args[1].r, LoadedValue(inst.args[2]))
  /\ Advance /\ UNCHANGED <<flags_zero, signals, call_stack, phase>>

\* Indexing what is no array: the element is the zero of its type, and
\* storing an element changes nothing.
ExecLoadIndex(inst) ==
  /\ inst.op = "LoadIndex"
  /\ WriteReg(inst.args[1].r, [registers[inst.args[2].r] EXCEPT !.v = 0])
  /\ Advance /\ UNCHANGED <<flags_zero, signals, call_stack, phase>>

ExecStoreIndex(inst) ==
  /\ inst.op = "StoreIndex"
  /\ Advance /\ UNCHANGED <<registers, flags_zero, signals, call_stack, phase>>

ExecArithBinop(inst) ==
  /\ inst.op \in Arithmetic \cup Bitwises
  /\ WriteReg(DestReg(inst.args[3]), BinOp(inst.op, ReadReg(inst.args[1]), ReadReg(inst.args[2])))
  /\ Advance /\ UNCHANGED <<flags_zero, signals, call_stack, phase>>

ExecUnary(inst) ==
  /\ inst.op \in {"Neg", "Not"}
  /\ WriteReg(DestReg(inst.args[2]), IF inst.op = "Neg" THEN Negated(ReadReg(inst.args[1]))
                                      ELSE Complement(ReadReg(inst.args[1])))
  /\ Advance /\ UNCHANGED <<flags_zero, signals, call_stack, phase>>

ExecCompare(inst) ==
  /\ inst.op \in Comparisons
  /\ flags_zero' = Holds(inst.op, ReadReg(inst.args[1]), ReadReg(inst.args[2]))
  /\ Advance /\ UNCHANGED <<registers, signals, call_stack, phase>>

ExecStore(inst) ==
  /\ inst.op = "Store"
  /\ signals' = [s \in DOMAIN signals \cup {inst.args[1].s} |->
                   IF s = inst.args[1].s THEN ReadReg(inst.args[2]) ELSE signals[s]]
  /\ Advance /\ UNCHANGED <<registers, flags_zero, call_stack, phase>>

ExecJump(inst) ==
  /\ inst.op = "Jump"
  /\ ip' = IF inst.args[1].k = "I" THEN inst.args[1].v.v ELSE ip
  /\ UNCHANGED <<registers, flags_zero, signals, call_stack, phase>>

\* Only an immediate first operand is a target: with any other the flag is
\* not acted on.
JumpTaken(inst) == flags_zero /\ inst.args[1].k = "I"

\* Mutant: a jump that is taken leaves ip where it is.
ExecJumpIf_Stays(inst) ==
  /\ inst.op = "JumpIf"
  /\ IF JumpTaken(inst) THEN UNCHANGED ip ELSE Advance
  /\ UNCHANGED <<registers, flags_zero, signals, call_stack, phase>>
ExecJumpIf(inst) ==
  /\ inst.op = "JumpIf"
  /\ IF JumpTaken(inst) THEN ip' = inst.args[1].v.v ELSE Advance
  /\ UNCHANGED <<registers, flags_zero, signals, call_stack, phase>>

ExecCall(inst) ==
  /\ inst.op = "Call"
  /\ call_stack' = Append(call_stack, ip + 1)
  /\ ip' = inst.args[1].v.v
  /\ UNCHANGED <<registers, flags_zero, signals, phase>>

\* step advances ip after Ret as after any instruction that is no jump: the
\* instruction after the Call is skipped.
ExecRet(inst) ==
  /\ inst.op = "Ret" /\ call_stack # <<>>
  /\ call_stack' = SubSeq(call_stack, 1, Len(call_stack) - 1)
  /\ ip' = call_stack[Len(call_stack)] + 1
  /\ IF inst.args # <<>> THEN WriteReg(0, ReadReg(inst.args[1])) ELSE UNCHANGED registers
  /\ UNCHANGED <<flags_zero, signals, phase>>

\* Mutant: a return from the main body does not halt.
ExecHalt_RetGoesOn(inst) ==
  /\ \/ inst.op = "Halt" /\ phase' = "halted"
     \/ inst.op = "Ret" /\ call_stack = <<>> /\ UNCHANGED phase
  /\ Advance /\ UNCHANGED <<registers, flags_zero, signals, call_stack>>
\* Halt, or a return from the main body.
ExecHalt(inst) ==
  /\ \/ inst.op = "Halt"
     \/ inst.op = "Ret" /\ call_stack = <<>>
  /\ phase' = "halted"
  /\ Advance /\ UNCHANGED <<registers, flags_zero, signals, call_stack>>

ExecuteInstruction(inst) ==
  \/ Nop(inst) \/ ExecLoad(inst) \/ ExecLoadIndex(inst) \/ ExecStoreIndex(inst)
  \/ ExecArithBinop(inst) \/ ExecUnary(inst) \/ ExecCompare(inst) \/ ExecStore(inst)
  \/ ExecJump(inst) \/ ExecJumpIf(inst) \/ ExecCall(inst) \/ ExecRet(inst) \/ ExecHalt(inst)

Step ==
  /\ Running
  /\ \E inst \in {Instruction} : ExecuteInstruction(inst)
  /\ UNCHANGED <<program, registry>>

-----------------------------------------------------------------------------
(* The engine around it *)

ResetVm ==
  /\ registers' = ZeroRegisters /\ flags_zero' = FALSE /\ ip' = 0
  /\ call_stack' = <<>>

\* The read barrier of a cycle takes over what came from outside; then the VM
\* is reset and gets the registry.
BeginScan ==
  /\ phase = "idle" /\ phase' = "run"
  /\ \E new \in Inputs[program] :
       registry' = [s \in DOMAIN registry |-> IF s \in DOMAIN new THEN new[s] ELSE registry[s]]
  /\ ResetVm /\ signals' = registry'
  /\ UNCHANGED program

\* Only registered signals are published back.
EndScan ==
  /\ phase = "halted" /\ phase' = "idle"
  /\ registry' = [s \in DOMAIN registry |-> signals[s]]
  /\ ResetVm /\ signals' = <<>>
  /\ UNCHANGED program

VmNext == BeginScan \/ Step \/ EndScan

\* The engine thread goes on while it can run.
VmFairness == WF_vmVars(Step) /\ WF_vmVars(EndScan)

VmSpec == VmInit /\ [][VmNext]_vmVars /\ VmFairness

-----------------------------------------------------------------------------
(* Properties.                                                             *)

\* step never finds its "IP out of bounds" assertion false, whatever jumps,
\* calls and returns led there, and never uses a register that is not there;
\* at rest, between scans, the machine is as new.
VmSafe ==
  /\ phase = "run" =>
       /\ Running
       /\ \E inst \in {Instruction} : \A n \in DOMAIN inst.args :
            inst.args[n].k = "R" => inst.args[n].r \in Registers
  /\ phase = "idle" => registers = ZeroRegisters /\ call_stack = <<>> /\ ip = 0

\* The inductive invariant: the machine is at a place the program can come to,
\* and so are the calls it is to return from.
VmInv ==
  /\ program \in DOMAIN Code /\ phase \in {"idle", "run", "halted"}
  /\ phase = "run" => ip \in Reachable(Code[program])
  /\ call_stack \in Seq(Nat)
  /\ \A k \in 1..Len(call_stack) :
       call_stack[k] \in {c + 1 : c \in Calls(Code[program], Reachable(Code[program]))}
  /\ phase = "idle" => registers = ZeroRegisters /\ call_stack = <<>> /\ ip = 0

\* The signals a program can store to.
Stored(code) ==
  {code[i + 1].args[1].s : i \in {j \in Reachable(code) : code[j + 1].op = "Store"}}

\* What a scan publishes: the registry keeps its signals, and a signal that no
\* reachable Store of the program names keeps the value it had when the scan
\* began, although the engine writes the whole table back.
ScanPublishes ==
  [][EndScan => /\ DOMAIN registry' = DOMAIN registry
                /\ \A s \in DOMAIN registry \ Stored(Code[program]) :
                     registry'[s] = registry[s]]_vmVars

\* Strengthening: during a scan the table has every signal of the registry and
\* differs from it only where the program stored.
TableInv ==
  phase # "idle" =>
    /\ DOMAIN registry \subseteq DOMAIN signals
    /\ \A s \in DOMAIN registry \ Stored(Code[program]) : signals[s] = registry[s]

\* run_to_halt returns, so that the engine's cycle goes on.
ScanEnds == phase = "run" ~> phase = "idle"
=============================================================================

----------------------------- MODULE MCControl -----------------------------
(* The control side of the runtime for TLC: the virtual machine with its   *)
(* programs, written and compiled, a ladder in its evaluator, one function *)
(* block, and a field device behind its adapter.  They share no state      *)
(* here, so in one behaviour one of them is at work and the others stay in *)
(* an initial state.                                                       *)
EXTENDS FunctionBlocks, AxisGroup, FieldBus, Sources

VARIABLE part

(* Programs of the virtual machine *)

XAxis ==
  [index |-> 0, label |-> "X", soft_limit_min |-> 0, soft_limit_max |-> 1000,
   soft_limit_enable |-> TRUE, backlash_distance |-> 0, backlash_enable |-> FALSE,
   home_search_vel |-> 50, home_latch_vel |-> 5, home_offset |-> 0,
   home_direction |-> "Negative"]
YAxis == [XAxis EXCEPT !.index = 1, !.label = "Y", !.soft_limit_enable = FALSE, !.home_direction = "Positive"]
Slack == [XAxis EXCEPT !.backlash_distance = 3, !.backlash_enable = TRUE]

\* A loop that adds 1, 2 and 3, as the compilers emit it.
Loop ==
  <<LoadImm(0, S32(1)), LoadImm(1, S32(3)), Cmp("Gt", 0, 1), JumpIfTo(8),
    Arith("Add", 2, 0, 2), LoadImm(3, S32(1)), Arith("Add", 0, 3, 0), JumpTo(1),
    StoreSig("sum", 2), Halt>>

\* Every other instruction, after a call whose return skips one.
Others ==
  <<CallTo(5), StoreSig("lost", 0), Instr("Nop", <<>>), Arith("Div", 1, 2, 3), Halt,
    LoadImm(1, S32(-7)), Instr("Neg", <<Reg(1), Reg(2)>>), Instr("Not", <<Reg(2), Reg(3)>>),
    Arith("Xor", 2, 2, 4), Instr("LoadIndex", <<Reg(5), Reg(2), Reg(1)>>),
    Instr("StoreIndex", <<Reg(2), Reg(5), Reg(1)>>), Instr("Load", <<Reg(6), Reg(2)>>),
    Instr("Ret", <<Reg(2)>>)>>

Axes == GenerateCombined(<<XAxis, YAxis>>)
Backlash == GenerateBacklash(<<Slack>>)

\* A program is its place in this list.
Written ==
  <<[language |-> "axes", i |-> 1], [language |-> "backlash", i |-> 2], [language |-> "loop", i |-> 3],
    [language |-> "others", i |-> 4], [language |-> "underflow", i |-> 5]>>
MCPrograms == Written \o Catalogue
MCCode == <<Axes, Backlash, Loop, Others, <<Instr("Ret", <<>>)>> >> \o Compiled

MCRegistry0 ==
  Map(MCPrograms, LAMBDA c :
    CASE c.language = "axes" -> AxisRegistry(<<XAxis, YAxis>>)
      [] c.language = "backlash" -> AxisRegistry(<<Slack>>)
      [] c.language = "loop" -> [s \in {"sum"} |-> S32(0)]
      [] c.language = "others" -> [s \in {"lost"} |-> S32(0)]
      [] c.language = "underflow" -> <<>>
      [] OTHER -> SignalsOf(c.language))

MCInputs ==
  Map(MCPrograms, LAMBDA c :
    CASE c.language = "axes" -> SwitchInputs(<<XAxis, YAxis>>)
      [] c.language = "backlash" -> MotionInputs(<<Slack>>)
      [] OTHER -> InputsOf(c.language))

(* Values of two registers, and one that has no registers *)
MCForced == {LongWord(65537), OddBlob}

-----------------------------------------------------------------------------
ControlInit ==
  /\ part \in {"vm", "ladder", "block", "field"}
  /\ LadderInit /\ (part # "ladder" => ladder = 1)
  /\ BlocksInit /\ (part # "block" => block = "TON")
  /\ FieldInit /\ (part # "field" => protocol = "modbus" /\ device_in = 0)
  /\ VmInit /\ (part # "vm" => program = 1)

ControlNext ==
  /\ \/ part = "vm" /\ VmNext /\ UNCHANGED <<ladderVars, blockVars, fieldVars>>
     \/ part = "ladder" /\ LadderNext /\ UNCHANGED <<vmVars, blockVars, fieldVars>>
     \/ part = "block" /\ BlocksNext /\ UNCHANGED <<vmVars, ladderVars, fieldVars>>
     \/ part = "field" /\ FieldNext /\ UNCHANGED <<vmVars, ladderVars, blockVars>>
  /\ UNCHANGED part

\* In a part that is not at work only the cycle could take a step.
ControlSpec ==
  /\ ControlInit /\ [][ControlNext]_<<vmVars, ladderVars, blockVars, fieldVars, part>>
  /\ VmFairness /\ PollFairness /\ WF_fieldVars(part = "field" /\ CycleStep)

\* At the end of a scan the registered signals are what the source of a
\* program in one of these languages says.
Computes(languages) ==
  phase = "halted" /\ MCPrograms[program].language \in languages =>
    LET expected == Expected(MCPrograms[program], registry)
    IN \A s \in DOMAIN expected : signals[s] = expected[s]

\* Instruction List, and the charts and block diagrams that are compiled to
\* it: the accumulator, the registers of the variables and the targets of
\* jumps act as the source says, whatever the inputs are; a chart takes the
\* step its first transition leads to once the condition holds, repeating the
\* step's actions until then; a pin has the value of its last wire.
ILComputes == Computes({"IL", "SFC", "FBD"})

\* A ladder compiled to Instruction List, with a branch beside its series and
\* a rung that reads another's coil, leaves the outputs the evaluator of
\* ladder diagrams gives for the same rungs.
LadderAgrees == Computes({"LD"})

\* Structured Text: precedence and association in the parser, scratch
\* registers, and the jumps of nested statements, loops and EXIT together
\* leave the variables as the tree says.
StComputes == Computes({"ST"})

\* G-code leaves the axes where its moves end, absolute and incremental,
\* straight and along arcs of the three planes that end on their circle, and
\* the spindle as the last command before M2 or M30 says; a velocity profile
\* sums up to its move.  An arc that is given by its center, or turns left and
\* is given by its radius, goes the right way round the right center.
GcodeMoves ==
  /\ Computes({"G", "quarter", "motion"})
  /\ phase = "halted" /\ MCPrograms[program].language = "quarter" => ArcsTurn

\* evaluate_cycle follows a path of closed contacts from the left rail to
\* the output of each rung, in whatever order it visits the nodes, and the
\* coils keep, set or reset what the rungs below read.
LadderCycle ==
  [][part = "ladder" => \E inputs \in LadderIns[ladder] :
                          memory' = CycleMeaning(Ladders[ladder], inputs @@ memory)]_ladderVars

\* Homing is a "SEEK->LATCH->BACKOFF->DONE state machine" (lib.rs) that waits
\* for a limit switch between its states: no scan skips one.
HomingInOrder == [][MCPrograms[program].language = "axes" => HomingStep(<<XAxis, YAxis>>)]_vmVars
=============================================================================

----------------------------- MODULE AxisGroup -----------------------------
(* The program generators of the CNC axis group                            *)
(* (crates/audesys-cnc-axis-group): homing, soft limits, backlash and      *)
(* alarm, and their combination, as sequences of instructions of HalVm.    *)
(* An axis is a record of its AxisConfig; the signal                       *)
(* "group.<g>.axis.<n>.<suffix>" is <<label, suffix>>.                      *)
EXTENDS HalVm, SequencesExt

Multiplier(axis) == IF axis.home_direction = "Positive" THEN 1 ELSE -1
LimitSignal(axis) ==
  <<axis.label, IF axis.home_direction = "Positive" THEN "limit_pos" ELSE "limit_neg">>

(* A block skipped unless a condition holds: the instructions of           *)
(* emit_jump_if_not, a JumpIf on a register, and the block.  patch_jump    *)
(* gives the jump its target, the instruction after the block; here the    *)
(* target is the distance until Patched makes it the index.                *)
SkipUnless(test, cond, body) ==
  test \o <<Instr("JumpIf", <<Reg(cond), Imm(U32(Len(body) + 1))>>)>> \o body

Patched(c) ==
  LET placed(n) ==
        CASE c[n].op = "Jump" -> JumpTo(n - 1 + c[n].args[1].v.v)
          [] c[n].op = "JumpIf" -> Instr("JumpIf", <<c[n].args[1], Imm(U32(n - 1 + c[n].args[2].v.v))>>)
          [] OTHER -> c[n]
  IN [n \in DOMAIN c |-> placed(n)] \o <<>>

\* dst = src + 0
Copy(src, dst, zero) == Arith("Add", src, zero, dst)
CmpEqImm(r, temp, n) == <<LoadImm(temp, F64(n)), Cmp("Eq", r, temp)>>
Constants(zero, one) == <<LoadImm(zero, F64(0)), LoadImm(one, F64(1))>>

-----------------------------------------------------------------------------
(* homing.rs *)

HomingAxis(axis) ==
  LET R_IDX == 0  R_STATE == 1  R_LIMIT == 2  R_VEL == 3
      R_DIR == 4  R_SCRATCH == 5  R_ZERO == 6  R_ONE == 7
      S(suffix) == <<axis.label, suffix>>
      test(r) == <<LoadImm(R_DIR, F64(1)), LoadImm(R_DIR, F64(0)), Cmp("Eq", r, R_DIR)>>
      setState(n) == <<LoadImm(R_SCRATCH, U8(n)), StoreSig(S("homing_state"), R_SCRATCH)>>
      move(dir, vel) == <<LoadImm(R_DIR, F64(dir)), LoadImm(R_VEL, F64(vel))>>
      writeVel == <<Arith("Mul", R_VEL, R_DIR, R_SCRATCH), StoreSig(S("vel_cmd"), R_SCRATCH)>>
      inState(n, body) ==
        SkipUnless(<<Copy(R_STATE, R_SCRATCH, R_ZERO)>> \o CmpEqImm(R_SCRATCH, R_VEL, n) \o test(R_SCRATCH),
                   R_SCRATCH, body)
      ifLimit(n, body) ==
        SkipUnless(<<LoadSig(R_LIMIT, LimitSignal(axis))>> \o CmpEqImm(R_LIMIT, R_VEL, n) \o test(R_LIMIT),
                   R_LIMIT, body)
      idle == move(Multiplier(axis), axis.home_search_vel) \o setState(1) \o writeVel
              \o <<StoreSig(S("enable"), R_ONE), StoreSig(S("pos_cmd"), R_ZERO)>>
      seek == ifLimit(1, setState(2) \o move(-Multiplier(axis), axis.home_latch_vel) \o writeVel)
      latch == ifLimit(0, setState(3) \o <<LoadImm(R_SCRATCH, F64(axis.home_offset)),
                 StoreSig(S("pos_cmd"), R_SCRATCH), StoreSig(S("vel_cmd"), R_ZERO)>>)
      backoff == setState(4) \o <<StoreSig(S("homed"), R_ONE), StoreSig(S("enable"), R_ZERO)>>
  IN <<LoadImm(R_IDX, U32(axis.index)), LoadSig(R_STATE, S("homing_state"))>>
     \o inState(0, idle) \o inState(1, seek) \o inState(2, latch) \o inState(3, backoff)

GenerateHoming(axes) ==
  Patched(Constants(6, 7) \o FlattenSeq([n \in DOMAIN axes |-> HomingAxis(axes[n])]) \o <<Halt>>)

-----------------------------------------------------------------------------
(* limits.rs: R_MAX is borrowed as the temporary of every test. *)

LimitsAxis(axis) ==
  LET R_POS == 0  R_HOMED == 1  R_MIN == 2  R_MAX == 3
      R_FAULT == 4  R_SCRATCH == 5  R_ZERO == 6
      S(suffix) == <<axis.label, suffix>>
      test == CmpEqImm(R_SCRATCH, R_MAX, 0)
      clampIf(op, r, bound) ==
        <<LoadImm(r, F64(bound))>>
        \o SkipUnless(<<Copy(R_POS, R_SCRATCH, R_ZERO), Cmp(op, R_SCRATCH, r)>> \o test, R_SCRATCH,
                      <<Copy(r, R_POS, R_ZERO), LoadImm(R_FAULT, F64(1))>>)
      homed == <<LoadImm(R_FAULT, F64(0))>>
               \o clampIf("Lt", R_MIN, axis.soft_limit_min) \o clampIf("Gt", R_MAX, axis.soft_limit_max)
               \o <<StoreSig(S("pos_fault"), R_FAULT), StoreSig(S("pos_cmd"), R_POS)>>
  IN IF ~axis.soft_limit_enable THEN <<>>
     ELSE <<LoadSig(R_POS, S("pos_cmd")), LoadSig(R_HOMED, S("homed"))>>
          \o SkipUnless(<<Copy(R_HOMED, R_SCRATCH, R_ZERO)>> \o CmpEqImm(R_SCRATCH, R_MAX, 1) \o test,
                        R_SCRATCH, homed)

GenerateSoftLimits(axes) ==
  Patched(Constants(6, 7) \o FlattenSeq([n \in DOMAIN axes |-> LimitsAxis(axes[n])]) \o <<Halt>>)

-----------------------------------------------------------------------------
(* backlash.rs *)

BacklashAxis(axis) ==
  LET R_POS == 0  R_VEL == 1  R_LAST_DIR == 2  R_NEW_DIR == 3
      R_BACKLASH == 4  R_COMP == 5  R_SCRATCH == 6  R_ZERO == 7
      S(suffix) == <<axis.label, suffix>>
      ifCmp(op, x, y, body) ==
        SkipUnless(<<Copy(x, R_SCRATCH, R_ZERO), Cmp(op, R_SCRATCH, y)>> \o CmpEqImm(R_SCRATCH, R_BACKLASH, 0),
                   R_SCRATCH, body)
      negative == ifCmp("Lt", R_VEL, R_ZERO, <<LoadImm(R_NEW_DIR, F64(-1))>>)
      sign == ifCmp("Gt", R_VEL, R_ZERO, <<LoadImm(R_NEW_DIR, F64(1)), JumpTo(Len(negative) + 1)>>) \o negative
      compensate == <<LoadImm(R_BACKLASH, F64(axis.backlash_distance)),
                      Arith("Mul", R_BACKLASH, R_NEW_DIR, R_COMP), Arith("Add", R_POS, R_COMP, R_POS)>>
      reversal == <<LoadImm(R_BACKLASH, F64(0))>>
                  \o ifCmp("Neq", R_NEW_DIR, R_BACKLASH, ifCmp("Neq", R_NEW_DIR, R_LAST_DIR, compensate))
  IN IF ~axis.backlash_enable \/ axis.backlash_distance = 0 THEN <<>>
     ELSE <<LoadSig(R_POS, S("pos_cmd")), LoadSig(R_VEL, S("vel_cmd")), LoadSig(R_LAST_DIR, S("last_dir")),
            LoadImm(R_NEW_DIR, F64(0))>> \o sign \o reversal
          \o <<StoreSig(S("last_dir"), R_NEW_DIR), StoreSig(S("pos_cmd"), R_POS)>>

GenerateBacklash(axes) ==
  Patched(Constants(7, 8) \o FlattenSeq([n \in DOMAIN axes |-> BacklashAxis(axes[n])]) \o <<Halt>>)

-----------------------------------------------------------------------------
(* alarm.rs: cmp_ne_imm uses R_SCRATCH for both sides. *)

AlarmAxis(axis) ==
  LET R_ANY_FAULT == 0  R_STATE == 1  R_SCRATCH == 3  R_ZERO == 4
      fault(suffix) ==
        <<LoadSig(R_SCRATCH, <<axis.label, suffix>>)>>
        \o SkipUnless(<<LoadImm(R_SCRATCH, F64(0)), Copy(R_SCRATCH, R_SCRATCH, R_ZERO),
                        Cmp("Neq", R_SCRATCH, R_SCRATCH)>> \o CmpEqImm(R_SCRATCH, R_STATE, 0),
                      R_SCRATCH, <<LoadImm(R_ANY_FAULT, F64(1))>>)
  IN fault("pos_fault") \o fault("vel_fault")

GenerateAlarm(axes) ==
  LET R_ANY_FAULT == 0  R_STATE == 1  R_NEW_STATE == 2  R_ZERO == 4
  IN Patched(Constants(4, 5) \o <<LoadImm(R_ANY_FAULT, F64(0))>>
       \o FlattenSeq([n \in DOMAIN axes |-> AlarmAxis(axes[n])])
       \o <<StoreSig(<<"group", "any_fault">>, R_ANY_FAULT), LoadSig(R_STATE, <<"group", "alarm_state">>),
         Copy(R_ANY_FAULT, R_NEW_STATE, R_ZERO), StoreSig(<<"group", "alarm_state">>, R_NEW_STATE), Halt>>)

\* The four programs one after the other, without their halts; the targets of
\* the jumps stay what they were.
GenerateCombined(axes) ==
  LET notHalt(i) == i.op # "Halt"
  IN SelectSeq(GenerateHoming(axes) \o GenerateSoftLimits(axes) \o GenerateBacklash(axes)
               \o GenerateAlarm(axes), notHalt) \o <<Halt>>

-----------------------------------------------------------------------------
(* The signals of a group, with the zero of their pin type *)

AxisPins ==
  [homing_state |-> U8(0), pos_cmd |-> F64(0), vel_cmd |-> F64(0), enable |-> Bool(0),
   limit_pos |-> Bool(0), limit_neg |-> Bool(0), homed |-> Bool(0),
   pos_fault |-> Bool(0), vel_fault |-> Bool(0), last_dir |-> F64(0)]
GroupPins == [alarm_state |-> U8(0), any_fault |-> Bool(0)]

Labels(axes) == {axes[n].label : n \in DOMAIN axes}

AxisRegistry(axes) ==
  [s \in (Labels(axes) \X DOMAIN AxisPins) \cup ({"group"} \X DOMAIN GroupPins) |->
     IF s[1] = "group" THEN GroupPins[s[2]] ELSE AxisPins[s[2]]]

\* Limit switches and velocity faults come from outside; the motion program
\* commands position and velocity.
SwitchInputs(axes) == [Labels(axes) \X {"limit_pos", "limit_neg", "vel_fault"} -> {Bool(0), Bool(1)}]
MotionInputs(axes) == [Labels(axes) \X {"pos_cmd", "vel_cmd"} -> {F64(-1), F64(0), F64(1)}]

-----------------------------------------------------------------------------
(* Properties.                                                             *)

\* From one scan to the next homing goes on by at most one of its states
\* IDLE (0), SEEK (1), LATCH (2), BACKOFF (3), DONE (4).
HomingStep(axes) ==
  \A n \in DOMAIN axes :
    LET s == <<axes[n].label, "homing_state">>
    IN registry'[s].v \in {registry[s].v, registry[s].v + 1}
=============================================================================

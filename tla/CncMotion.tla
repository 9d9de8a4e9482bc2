------------------------------ MODULE CncMotion ------------------------------
(* The motion planner (crates/audesys-cnc-motion): the program of the        *)
(* virtual machine that moves the axes along a straight line with a          *)
(* trapezoidal or a triangular velocity profile.                            *)
(* Lengths are whole numbers of 1/60 mm and times of dt = 10 ms, so that a   *)
(* feedrate of 100 mm/min is 1 and 500 mm/s^2 is 3.  A move goes along one   *)
(* axis, and the peak of a triangular one is a multiple of a: all numbers    *)
(* of the program are then whole.                                           *)
EXTENDS HalVm, SequencesExt

MoCounter == 0
MoPos == <<1, 2, 3>>
MoZero == 4
MoOne == 5
MoVel == 6
MoVStep == 7
MoTStep == 8
MoRatio == 9
MoAxisStep == 10
MoDt == 11

PosSignals == <<"axis.0.pos", "axis.1.pos", "axis.2.pos">>
Axes3 == 1..3

\* A profile is [d, start : Axes3 -> Int, feedrate, a].
Magnitude(n) == IF n < 0 THEN -n ELSE n
Distance(d) == Magnitude(d[1]) + Magnitude(d[2]) + Magnitude(d[3])
Ceiling(m, n) == (m + n - 1) \div n
Root(n) == CHOOSE r \in 0..n : r * r <= n /\ n < (r + 1) * (r + 1)

\* The X axis is always moved along, the others only when they move.
Moving(p) == SelectSeq(<<1, 2, 3>>, LAMBDA x : x = 1 \/ p.d[x] # 0)

\* Mutant: every axis moves forwards by the whole step.
AxisStep_NoRatio(p, x) ==
  <<LoadImm(MoRatio, F64(1)), Arith("Mul", MoTStep, MoRatio, MoAxisStep),
    Arith("Add", MoPos[x], MoAxisStep, MoPos[x]), StoreSig(PosSignals[x], MoPos[x])>>
AxisStep(p, x) ==
  <<LoadImm(MoRatio, F64(Quotient(p.d[x], Distance(p.d)))), Arith("Mul", MoTStep, MoRatio, MoAxisStep),
    Arith("Add", MoPos[x], MoAxisStep, MoPos[x]), StoreSig(PosSignals[x], MoPos[x])>>

\* tstep, and the step of every axis.
Steps(p) ==
  <<Arith("Mul", MoVel, MoDt, MoTStep)>> \o FlattenSeq([i \in DOMAIN Moving(p) |-> AxisStep(p, Moving(p)[i])])

\* Count down, and back to loop_start.
Again(loop_start) ==
  <<Arith("Sub", MoCounter, MoOne, MoCounter), Cmp("Gt", MoCounter, MoZero), JumpIfTo(loop_start)>>

\* emit_profile_phase, at index n: change is "Add" while it accelerates,
\* "Sub" while it slows down, "" at constant speed.
ProfilePhase(p, n, cycles, v_target, change) ==
  IF cycles = 0 THEN <<>>
  ELSE <<LoadImm(MoVStep, F64(p.a)), LoadImm(MoVel, F64(IF change = "Add" THEN 0 ELSE v_target)),
         LoadImm(MoCounter, F64(cycles))>>
       \o Steps(p)
       \o (IF change = "" THEN <<>> ELSE <<Arith(change, MoVel, MoVStep, MoVel)>>)
       \o Again(n + 3)

StartAt(p, axes) == [i \in DOMAIN axes |-> LoadImm(MoPos[axes[i]], F64(p.start[axes[i]]))]

\* emit_triangular_motion, with what emit_g1 loads before it.  The steps
\* overwrite the register that holds cycles_half.
Triangular(p, n) ==
  LET cycles_half == IF p.a > Root(Distance(p.d) * p.a) THEN 1 ELSE Quotient(Root(Distance(p.d) * p.a), p.a)
      head == <<LoadImm(MoVel, F64(0)), LoadImm(MoVStep, F64(Quotient(Root(Distance(p.d) * p.a), cycles_half)))>>
              \o StartAt(p, Moving(p))
              \o <<LoadImm(MoCounter, F64(2 * cycles_half)), LoadImm(MoRatio, F64(cycles_half))>>
      test == n + Len(head) + Len(Steps(p))
  IN head \o Steps(p)
     \o <<Cmp("Gt", MoCounter, MoRatio), JumpIfTo(test + 4),
          Arith("Add", MoVel, MoVStep, MoVel), JumpTo(test + 5),
          Arith("Sub", MoVel, MoVStep, MoVel)>>
     \o Again(n + Len(head))

\* emit_g1, at index n.
EmitG1(p, n) ==
  LET v_target == IF p.feedrate > 0 THEN p.feedrate ELSE 1
      cycles_accel == Ceiling(v_target, p.a)
      \* dist_cruise, times a
      cruise == Distance(p.d) * p.a - v_target * v_target
      cycles_cruise == Ceiling(cruise, p.a * v_target)
      head == StartAt(p, Moving(p))
      accel == ProfilePhase(p, n + Len(head), cycles_accel, v_target, "Add")
      at_speed == ProfilePhase(p, n + Len(head \o accel), cycles_cruise, v_target, "")
      decel == ProfilePhase(p, n + Len(head \o accel \o at_speed), cycles_accel, v_target, "Sub")
  IN IF Distance(p.d) = 0 THEN <<>>
     ELSE IF cruise <= 0 THEN Triangular(p, n)
     ELSE head \o accel \o at_speed \o decel

\* generate_trapezoidal_program: the targets of its jumps count from its own
\* beginning, and it has no Halt.
TrapezoidalProgram(p) ==
  <<LoadImm(MoDt, F64(1)), LoadImm(MoZero, F64(0)), LoadImm(MoOne, F64(1))>> \o EmitG1(p, 3)

-----------------------------------------------------------------------------
\* The signals when a move has ended.
MoveMeaning(p, env) ==
  [s \in DOMAIN env |->
     IF \E i \in DOMAIN Moving(p) : PosSignals[Moving(p)[i]] = s
     THEN LET x == SelectInSeq(PosSignals, LAMBDA q : q = s) IN F64(p.start[x] + p.d[x])
     ELSE env[s]]
=============================================================================

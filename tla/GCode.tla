------------------------------- MODULE GCode -------------------------------
(* The G-code compiler (crates/audesys-gcode-compiler): lines of words to    *)
(* commands, commands to instructions of the virtual machine.  A line is a   *)
(* sequence of words <<letter, number>>; lengths are in the unit of          *)
(* CncMotion.  Angles are in quarter turns: an arc begins and ends straight  *)
(* beside, above or below its center, and a chord spans a quarter turn (in   *)
(* the code at most 30 degrees).                                             *)
EXTENDS CncMotion

Letters == {"G", "M", "X", "Y", "Z", "I", "J", "K", "R", "F", "S", "P", "T"}
AxisLetters == <<"X", "Y", "Z">>
EnableSignals == <<"axis.0.enable", "axis.1.enable", "axis.2.enable">>
GcStep == 0
GcPos == <<2, 3, 4>>
GcAccel == 3

\* parse_line: the last word of a letter counts; N, / and % do not.
ParseWords(words) ==
  LET used == {words[i][1] : i \in DOMAIN words} \cap Letters
  IN [l \in used |-> words[SelectLastInSeq(words, LAMBDA w : w[1] = l)][2]]

\* parse_all: a line without such words is skipped.
ParseAll(source) ==
  SelectSeq([i \in DOMAIN source |-> ParseWords(source[i])], LAMBDA cmd : DOMAIN cmd # {})

WordOf(cmd, l) == IF l \in DOMAIN cmd THEN cmd[l] ELSE 0
Is(cmd, l, numbers) == l \in DOMAIN cmd /\ cmd[l] \in numbers

Kind(cmd) ==
  CASE Is(cmd, "G", 0..3) -> "Motion"
    [] ~Is(cmd, "G", 0..3) /\ Is(cmd, "M", {3, 4, 5}) -> "Spindle"
    [] ~Is(cmd, "M", {3, 4, 5}) /\ Is(cmd, "G", {17, 18, 19, 20, 21, 80, 90, 91}) -> "Modal"
    [] ~Is(cmd, "G", {0, 1, 2, 3, 17, 18, 19, 20, 21, 80, 90, 91}) /\ Is(cmd, "M", {2, 30}) -> "ProgramControl"
    [] OTHER -> "Unknown"

-----------------------------------------------------------------------------
(* ModalState.  motion_mode, unit_mode and spindle_rpm act on no instruction. *)
ModalInit == [coord_mode |-> 90, plane |-> 17, feedrate |-> 0, pos |-> [x \in Axes3 |-> 0]]

\* Mutant: every position is absolute.
UpdatePosition_Absolute(state, cmd) ==
  [x \in Axes3 |-> IF AxisLetters[x] \in DOMAIN cmd THEN cmd[AxisLetters[x]] ELSE state.pos[x]]
UpdatePosition(state, cmd) ==
  [x \in Axes3 |->
     IF state.coord_mode = 90
     THEN IF AxisLetters[x] \in DOMAIN cmd THEN cmd[AxisLetters[x]] ELSE state.pos[x]
     ELSE state.pos[x] + WordOf(cmd, AxisLetters[x])]

AdvanceModal(state, cmd) ==
  CASE Kind(cmd) = "Motion" ->
         [state EXCEPT !.pos = UpdatePosition(state, cmd), !.feedrate = IF "F" \in DOMAIN cmd THEN cmd["F"] ELSE @]
    [] Kind(cmd) = "Modal" /\ cmd["G"] \in {17, 18, 19} -> [state EXCEPT !.plane = cmd["G"]]
    [] Kind(cmd) = "Modal" /\ cmd["G"] \in {90, 91} -> [state EXCEPT !.coord_mode = cmd["G"]]
    [] OTHER -> state

-----------------------------------------------------------------------------
(* Arcs: the axes a and b of the plane and the third one *)

PlaneAxes(plane) == CASE plane = 17 -> <<1, 2, 3>> [] plane = 18 -> <<3, 1, 2>> [] plane = 19 -> <<2, 3, 1>>
OffsetLetters == <<"I", "J", "K">>

Square(n) == n * n
Error == [ok |-> FALSE, code |-> <<>>]
Emitted(code) == [ok |-> TRUE, code |-> code]

\* calculate_arc_center: <<a, b>>, or <<>> for an error.  With a radius the
\* center lies on the left of the chord, whichever way the arc turns.
ArcCenter(s, e, axes, cmd) ==
  LET a == axes[1]
      b == axes[2]
      chord == Square(e[a] - s[a]) + Square(e[b] - s[b])
      r == WordOf(cmd, "R")
      aside == (IF r > 0 THEN 1 ELSE -1) * Root(Quotient(4 * r * r - chord, chord))
  IN CASE DOMAIN cmd \cap {"I", "J", "K"} # {} ->
            <<s[a] + WordOf(cmd, OffsetLetters[a]), s[b] + WordOf(cmd, OffsetLetters[b])>>
       [] DOMAIN cmd \cap {"I", "J", "K"} = {} /\ "R" \in DOMAIN cmd ->
            IF chord = 0 \/ 4 * r * r < chord THEN <<>>
            ELSE <<Quotient(s[a] + e[a] - aside * (e[b] - s[b]), 2), Quotient(s[b] + e[b] + aside * (e[a] - s[a]), 2)>>
       [] OTHER -> <<>>

\* atan2, from -1 to 2, and the points of the unit circle.
Angle(b, a) ==
  CASE b = 0 /\ a >= 0 -> 0 [] b = 0 /\ a < 0 -> 2 [] a = 0 /\ b > 0 -> 1 [] a = 0 /\ b < 0 -> -1
Cos(angle) == <<1, 0, -1, 0>>[1 + (angle % 4)]
Sin(angle) == <<0, 1, 0, -1>>[1 + (angle % 4)]

\* Mutant: G2 and G3 turn the same way.
Sweep_OneWay(g, from, to, full_circle) ==
  IF full_circle THEN 4 ELSE IF to < from THEN to - from + 4 ELSE to - from

\* The signed angle of the arc: clockwise for G2.
Sweep(g, from, to, full_circle) ==
  CASE full_circle /\ g = 2 -> -4
    [] full_circle /\ g = 3 -> 4
    [] ~full_circle /\ g = 2 -> IF to > from THEN to - from - 4 ELSE to - from
    [] ~full_circle /\ g = 3 -> IF to < from THEN to - from + 4 ELSE to - from

\* The ends of the chords, <<a, b, linear>>: on the circle through the start,
\* in the direction of the end.  There are none when start and end lie in the
\* same direction from the center but differ.
ArcPoints(g, s, e, axes, center) ==
  LET a == axes[1]
      b == axes[2]
      l == axes[3]
      radius == Root(Square(s[a] - center[1]) + Square(s[b] - center[2]))
      from == Angle(s[b] - center[2], s[a] - center[1])
      sweep == Sweep(g, from, Angle(e[b] - center[2], e[a] - center[1]), e[a] = s[a] /\ e[b] = s[b])
      num_segments == Magnitude(sweep)
      angle(i) == from + i * Quotient(sweep, num_segments)
  IN [i \in 1..num_segments |->
        <<center[1] + radius * Cos(angle(i)), center[2] + radius * Sin(angle(i)),
          s[l] + Quotient(i * (e[l] - s[l]), num_segments)>>]

\* emit_arc
EmitArc(prev, next, cmd) ==
  LET axes == PlaneAxes(prev.plane)
      center == ArcCenter(prev.pos, next.pos, axes, cmd)
      points == ArcPoints(cmd["G"], prev.pos, next.pos, axes, center)
      store(x, value) == <<LoadImm(GcPos[1], F64(value)), StoreSig(PosSignals[x], GcPos[1]),
                           StoreSig(EnableSignals[x], GcStep)>>
      chord(p) == store(axes[1], p[1]) \o store(axes[2], p[2]) \o store(axes[3], p[3])
  IN IF center = <<>> \/ center = <<prev.pos[axes[1]], prev.pos[axes[2]]>> THEN Error
     ELSE Emitted(IF points = <<>> THEN <<>>
                  ELSE <<LoadImm(GcStep, Bool(1))>> \o FlattenSeq([i \in DOMAIN points |-> chord(points[i])]))

-----------------------------------------------------------------------------
(* The other commands *)

\* emit_g0: Y and Z are left out at 0.
EmitG0(pos) ==
  LET store(x) == <<LoadImm(GcPos[x], F64(pos[x])), StoreSig(PosSignals[x], GcPos[x]),
                    LoadImm(GcStep, Bool(1)), StoreSig(EnableSignals[x], GcStep)>>
  IN FlattenSeq([x \in Axes3 |-> IF x = 1 \/ pos[x] # 0 THEN store(x) ELSE <<>>])

\* The instructions of G1 are appended as they are: their jumps are not moved.
EmitMotion(state, cmd) ==
  LET next == AdvanceModal(state, cmd)
      d == [x \in Axes3 |-> next.pos[x] - state.pos[x]]
  IN CASE cmd["G"] = 0 -> Emitted(EmitG0(next.pos))
       [] cmd["G"] = 1 -> Emitted(IF Distance(d) = 0 THEN <<>>
                                  ELSE TrapezoidalProgram([d |-> d, start |-> state.pos,
                                                           feedrate |-> next.feedrate, a |-> GcAccel]))
       [] cmd["G"] \in {2, 3} -> EmitArc(state, next, cmd)

Put(value, s) == <<LoadImm(GcStep, value), StoreSig(s, GcStep)>>
SpindleOff == <<LoadImm(GcStep, Bool(0)), StoreSig("spindle.cw", GcStep), StoreSig("spindle.ccw", GcStep)>>

EmitSpindle(cmd) ==
  (IF "S" \in DOMAIN cmd THEN Put(F64(cmd["S"]), "spindle.rpm") ELSE <<>>)
  \o CASE cmd["M"] = 3 -> Put(Bool(1), "spindle.cw")
       [] cmd["M"] = 4 -> Put(Bool(1), "spindle.ccw")
       [] cmd["M"] = 5 -> SpindleOff \o Put(F64(0), "spindle.rpm")

EmitProgramControl(cmd) == (IF cmd["M"] = 30 THEN SpindleOff ELSE <<>>) \o <<Halt>>

\* A line with no G and no M is passed over, whatever the motion mode.
Emit(state, cmd) ==
  CASE Kind(cmd) = "Motion" -> EmitMotion(state, cmd)
    [] Kind(cmd) = "Spindle" -> Emitted(EmitSpindle(cmd))
    [] Kind(cmd) = "Modal" -> Emitted(<<>>)
    [] Kind(cmd) = "ProgramControl" -> Emitted(EmitProgramControl(cmd))
    [] Kind(cmd) = "Unknown" -> IF DOMAIN cmd \cap {"G", "M"} # {} THEN Error ELSE Emitted(<<>>)

\* compile_commands; <<>> stands for Err.
Extended(acc, e, state) == [code |-> acc.code \o e.code, ok |-> acc.ok /\ e.ok, state |-> state]
CodeOrErr(acc) == IF acc.ok THEN acc.code ELSE <<>>
GcodeCompile(source) ==
  LET put(acc, cmd) == Extended(acc, Emit(acc.state, cmd), AdvanceModal(acc.state, cmd))
      begin == [code |-> <<LoadImm(5, F64(0)), LoadImm(6, F64(1))>>, ok |-> TRUE, state |-> ModalInit]
  IN CodeOrErr(FoldLeft(put, begin, ParseAll(source)))

-----------------------------------------------------------------------------
(* What a G-code program means for the positions and the spindle: lines are  *)
(* obeyed until M2 or M30; the spindle turns one way or not at all.          *)

Spindle(m, s) == ("spindle.cw" :> Bool(IF m = 3 THEN 1 ELSE 0)) @@ ("spindle.ccw" :> Bool(IF m = 4 THEN 1 ELSE 0)) @@ s

LineMeaning(st, line) ==
  LET cmd == ParseWords(line)
      moved == [x \in Axes3 |->
                  IF ~(AxisLetters[x] \in DOMAIN cmd) THEN st.pos[x]
                  ELSE IF st.inc THEN st.pos[x] + cmd[AxisLetters[x]] ELSE cmd[AxisLetters[x]]]
      rpm == IF "S" \in DOMAIN cmd THEN "spindle.rpm" :> F64(cmd["S"]) ELSE <<>>
  IN CASE st.ended -> st
       [] ~st.ended /\ Is(cmd, "G", 0..3) ->
            [st EXCEPT !.pos = moved, !.env = [x \in {PosSignals[i] : i \in Axes3} |->
                                                  F64(moved[SelectInSeq(PosSignals, LAMBDA q : q = x)])] @@ @]
       [] ~st.ended /\ Is(cmd, "G", {90, 91}) -> [st EXCEPT !.inc = cmd["G"] = 91]
       [] ~st.ended /\ Is(cmd, "M", {3, 4}) -> [st EXCEPT !.env = Spindle(cmd["M"], rpm @@ @)]
       [] ~st.ended /\ Is(cmd, "M", {5}) -> [st EXCEPT !.env = Spindle(5, ("spindle.rpm" :> F64(0)) @@ @)]
       [] ~st.ended /\ Is(cmd, "M", {2}) -> [st EXCEPT !.ended = TRUE]
       [] ~st.ended /\ Is(cmd, "M", {30}) -> [st EXCEPT !.ended = TRUE, !.env = Spindle(5, @)]
       [] OTHER -> st

\* The quarter points of an arc about the origin, from v to w: v is turned to
\* the right for G2, to the left for G3, until it is w.
Turned(g, v) == IF g = 2 THEN <<v[2], -v[1]>> ELSE <<-v[2], v[1]>>
ArcMeaning(g, v, w) ==
  LET round == [i \in 1..4 |-> FoldLeft(LAMBDA u, k : Turned(g, u), v, [k \in 1..i |-> k])]
  IN SubSeq(round, 1, SelectInSeq(round, LAMBDA u : u = w))

GcodeMeaning(source, env) ==
  FoldLeft(LineMeaning, [pos |-> [x \in Axes3 |-> 0], inc |-> FALSE, ended |-> FALSE, env |-> env], source).env
=============================================================================

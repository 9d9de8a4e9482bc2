---------------------------- MODULE SFCCompiler ----------------------------
(* The sequential function chart compiler (crates/audesys-sfc-compiler):     *)
(* lines of a chart to steps and transitions, steps to Instruction List.     *)
(* A line is <<"STEP", name>>, <<"ACTION", qualifier, body>>, <<"END_STEP">>, *)
(* <<"TRANSITION", from, to, condition>> or <<"END_TRANSITION">>.  A body is  *)
(* an IL line, or assigns an expression to a variable; an expression is a    *)
(* constant's text, a variable, its negation, or two operands and an         *)
(* operator.                                                                *)
EXTENDS ILCompiler

Variable(v) == [k |-> "var", v |-> v]
Inverse_(v) == [k |-> "not", v |-> v]
Binary(l, op, r) == [k |-> "bin", l |-> l, op |-> op, r |-> r]
Assignment(v, e) == [k |-> "assign", v |-> v, e |-> e]
RawIL(line) == [k |-> "raw", line |-> line]

\* il_op_for
IlOpFor ==
  ("+" :> "ADD") @@ ("-" :> "SUB") @@ ("*" :> "MUL") @@ ("/" :> "DIV") @@ ("=" :> "EQ") @@
  ("<>" :> "NE") @@ ("<" :> "LT") @@ ("<=" :> "LE") @@ (">" :> "GT") @@ (">=" :> "GE")

\* A step without a name, and any other line, is dropped.
SfcTokens(source) ==
  SelectSeq(source, LAMBDA l : /\ l[1] \in {"STEP", "ACTION", "END_STEP", "TRANSITION", "END_TRANSITION"}
                               /\ l[1] = "STEP" => l[2] # "")

-----------------------------------------------------------------------------
(* Parsing: acc.current holds the open step, if any *)

ParseSteps(tokens) ==
  LET close(acc) == [steps |-> acc.steps \o acc.current, current |-> <<>>]
      put(acc, t) ==
        CASE t[1] = "STEP" -> [close(acc) EXCEPT !.current = <<[name |-> t[2], actions |-> <<>>]>>]
          [] t[1] = "ACTION" /\ acc.current # <<>> -> [acc EXCEPT !.current[1].actions = Append(@, t[3])]
          [] t[1] = "END_STEP" -> close(acc)
          [] OTHER -> acc
  IN close(FoldLeft(put, [steps |-> <<>>, current |-> <<>>], tokens)).steps

ParseTransitions(tokens) == SelectSeq(tokens, LAMBDA t : t[1] = "TRANSITION")

\* link_transitions fails for a step that is not there; of several
\* transitions from one step the first is kept.
Linked(steps, transitions) ==
  LET names == {steps[i].name : i \in DOMAIN steps}
  IN \A t \in ToSet(transitions) : {t[2], t[3]} \subseteq names

\* Mutant: the last one is kept.
TransitionOf_Last(transitions, name) == SelectLastInSeq(transitions, LAMBDA t : t[2] = name)
TransitionOf(transitions, name) == SelectInSeq(transitions, LAMBDA t : t[2] = name)

-----------------------------------------------------------------------------
(* Instruction List *)

ExprToIL(e, target) ==
  CASE e.k = "const" -> <<Line(<<"LD", e.text>>), Line(<<"ST", target>>)>>
    [] e.k = "var" -> <<Line(<<"LD", e.v>>), Line(<<"ST", target>>)>>
    [] e.k = "not" -> <<Line(<<"LD", e.v>>), Line(<<"NOT">>), Line(<<"ST", target>>)>>
    [] e.k = "bin" -> <<Line(<<"LD", e.l>>), Line(<<IlOpFor[e.op], e.r>>), Line(<<"ST", target>>)>>

ActionBodyToIL(body) == IF body.k = "raw" THEN <<body.line>> ELSE ExprToIL(body.e, body.v)

TransitionConditionToIL(c) ==
  CASE c.k = "const" -> <<Line(<<"LD", c.text>>)>>
    [] c.k = "var" -> <<Line(<<"LD", c.v>>), Line(<<"NE", "0">>)>>
    [] c.k = "not" -> <<Line(<<"LD", c.v>>), Line(<<"NOT">>)>>
    [] c.k = "bin" -> <<Line(<<"LD", c.l>>), Line(<<IlOpFor[c.op], c.r>>)>>

\* Only the last step may be without a transition; HALT is no mnemonic of IL.
StepLines(steps, transitions, i) ==
  LET t == TransitionOf(transitions, steps[i].name)
  IN <<Labelled(steps[i].name, <<>>)>>
     \o FlattenSeq([a \in DOMAIN steps[i].actions |-> ActionBodyToIL(steps[i].actions[a])])
     \o IF t = 0 THEN <<Line(<<"HALT">>)>>
        ELSE TransitionConditionToIL(transitions[t][4])
             \o <<Line(<<"JMPC", transitions[t][3]>>), Line(<<"JMP", steps[i].name>>)>>

\* <<>> stands for Err.
SFCCompile(source) ==
  LET tokens == SfcTokens(source)
      steps == ParseSteps(tokens)
      transitions == ParseTransitions(tokens)
  IN IF \/ steps = <<>> \/ ~Linked(steps, transitions)
        \/ \E i \in 1..Len(steps) - 1 : TransitionOf(transitions, steps[i].name) = 0
     THEN <<>>
     ELSE <<Line(<<"JMP", steps[1].name>>)>>
          \o FlattenSeq([i \in DOMAIN steps |-> StepLines(steps, transitions, i)])

-----------------------------------------------------------------------------
(* What a chart means: from the first step, its actions, then the step its   *)
(* transition leads to as soon as the condition holds.  A raw line that only *)
(* loads changes no variable.                                                *)

ExprValue(e, env) ==
  CASE e.k = "const" -> IF e.text \in {"1", "0"} THEN Bool(IF e.text = "1" THEN 1 ELSE 0) ELSE S32(0)
    [] e.k = "var" -> ValueOf(env, e.v)
    [] e.k = "not" -> Complement(ValueOf(env, e.v))
    [] e.k = "bin" ->
         LET il == IlOpFor[e.op]
             x == ValueOf(env, e.l)
             y == ValueOf(env, e.r)
         IN IF il \in DOMAIN ILCompare THEN Truth(Holds(ILCompare[il], x, y)) ELSE BinOp(ILBinary[il], x, y)

RECURSIVE ChartRun(_, _, _, _)
ChartRun(chart, step, env, fuel) ==
  LET steps == ParseSteps(chart)
      transitions == ParseTransitions(chart)
      i == SelectInSeq(steps, LAMBDA s : s.name = step)
      t == SelectInSeq(transitions, LAMBDA u : u[2] = step)
      acted == FoldLeft(LAMBDA e, body : IF body.k = "raw" THEN e ELSE (body.v :> ExprValue(body.e, e)) @@ e,
                        env, steps[i].actions)
  IN IF t = 0 \/ fuel = 0 THEN acted
     ELSE ChartRun(chart, IF ExprValue(transitions[t][4], acted).v # 0 THEN transitions[t][3] ELSE step,
                   acted, fuel - 1)

ChartMeaning(chart, env) == ChartRun(chart, ParseSteps(chart)[1].name, env, 8)
=============================================================================

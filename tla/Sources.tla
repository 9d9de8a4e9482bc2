------------------------------ MODULE Sources ------------------------------
(* Families of programs in each language of the compilers, small enough for *)
(* TLC to scan every one of them, with what each is expected to compute.    *)
EXTENDS LDCompiler, SFCCompiler, FBDCompiler, STCompiler, GCode, LadderLogic

\* What Make gives for each member of a sequence, one after the other.
Each(list, Make(_)) == FlattenSeq([i \in DOMAIN list |-> Make(list[i])])
Map(list, Make(_)) == [i \in DOMAIN list |-> Make(list[i])] \o <<>>

(* Instruction List: two statements between a load and two stores, with a    *)
(* label to jump to.  OR, ORN and XOR only name a, which has been loaded.    *)
ILMiddle ==
  << <<"AND", "b">>, <<"ANDN", "b">>, <<"NOT">>, <<"OR", "a">>, <<"ORN", "a">>, <<"XOR", "a">>,
     <<"JMPC", "L">>, <<"JMPCN", "L">>, <<"RET">> >>
ILProgram(first, m1, m2) ==
  <<Line(<<first, "a">>), Line(m1), Line(m2), Line(<<"ST", "y">>), Labelled("L", <<"ST", "z">>)>>
ILSources ==
  Each(<<"LD", "LDN">>, LAMBDA f : Each(ILMiddle, LAMBDA m1 : Map(ILMiddle, LAMBDA m2 : ILProgram(f, m1, m2))))

(* Ladder diagrams as text: a rung with a series and, perhaps, a branch      *)
(* beside it, and a rung that reads its coil.  The same as networks.         *)
Kinds == <<"NO", "NC">>
LDRung(first, second, branch, reads) == [first |-> first, second |-> second, branch |-> branch, reads |-> reads]
LDSources ==
  Each(Kinds, LAMBDA f : Each(Kinds, LAMBDA s : Each(<<"", "NO", "NC">>, LAMBDA b : Map(Kinds, LAMBDA r : LDRung(f, s, b, r)))))
LDText(r) ==
  << <<"NETWORK">>, <<r.first, "a">>, <<r.second, "b">> >>
  \o (IF r.branch = "" THEN <<>> ELSE << <<"|" \o r.branch, "a">> >>)
  \o << <<"OUT", "y">>, <<"NETWORK">>, <<r.reads, "y">>, <<"NO", "b">>, <<"OUT", "z">> >>
LDDiagram(r) ==
  LET series == <<Contact(r.first, "a"), Contact(r.second, "b")>>
  IN <<[network |-> IF r.branch = "" THEN SerialNetwork(series)
                    ELSE ParallelNetwork(<<series, <<Contact(r.branch, "a")>> >>),
        coils |-> <<Coil("OUT", "y")>>],
       [network |-> SerialNetwork(<<Contact(r.reads, "y"), Contact("NO", "b")>>),
        coils |-> <<Coil("OUT", "z")>>]>>

(* Charts: the first step's action and condition, and where its second       *)
(* transition, which is never taken, leads.                                  *)
Chart(e, cond, other) ==
  << <<"STEP", "S1">>, <<"ACTION", "N", Assignment("z", Variable("a"))>>,
     <<"ACTION", "N", Assignment("y", e)>>, <<"END_STEP">>,
     <<"TRANSITION", "S1", "S2", cond>>, <<"TRANSITION", "S1", other, cond>>,
     <<"STEP", "S2">>, <<"ACTION", "N", Assignment("z", Inverse_("b"))>>, <<"END_STEP">>,
     <<"TRANSITION", "S2", "S3", Binary("y", "=", "y")>>,
     <<"STEP", "S3">>, <<"ACTION", "N", RawIL(Line(<<"LD", "b">>))>>,
     <<"ACTION", "N", Assignment("y", Variable("z"))>>, <<"END_STEP">> >>
SFCSources ==
  Each(<<"S1", "S3">>, LAMBDA other :
    Map(<<Inverse_("y"), Binary("y", "=", "a")>>, LAMBDA cond : Chart(Inverse_("y"), cond, other)))

(* Structured Text: trees, written out as tokens.  An operand is put in      *)
(* parentheses where its operator binds less, or on the right as much.       *)
Binds(op) == CASE op \in {"*", "/", "MOD"} -> 5 [] op \in {"+", "-"} -> 4 [] op \in {"AND"} -> 2 [] op = "OR" -> 1 [] OTHER -> 3

RECURSIVE ExprText(_), StmtText(_)
Within(e, binds) ==
  IF e.k = "bin" /\ Binds(e.op) < binds THEN <<Kw("(")>> \o ExprText(e) \o <<Kw(")")>> ELSE ExprText(e)
ExprText(e) ==
  CASE e.k = "int" -> << <<"int", e.n>> >>
    [] e.k = "var" -> <<Id(e.v)>>
    [] e.k = "un" -> <<Kw(e.op)>> \o Within(e.e, 6)
    [] e.k = "bin" -> Within(e.l, Binds(e.op)) \o <<Kw(e.op)>> \o Within(e.r, Binds(e.op) + 1)

BlockText(stmts) == FlattenSeq([i \in DOMAIN stmts |-> StmtText(stmts[i])])
Ending(word) == <<Kw(word), Kw(";")>>
ArmText(arm) ==
  FlattenSeq([i \in DOMAIN arm.values |->
                << <<"int", arm.values[i]>>, Kw(IF i = Len(arm.values) THEN ":" ELSE ",")>>]) \o BlockText(arm.body)
StmtText(s) ==
  CASE s.s = "assign" -> <<Id(s.v), Kw(":=")>> \o ExprText(s.e) \o <<Kw(";")>>
    [] s.s = "if" -> <<Kw("IF")>> \o ExprText(s.cond) \o <<Kw("THEN")>> \o BlockText(s.then)
                     \o (IF s.else = <<>> THEN <<>> ELSE <<Kw("ELSE")>> \o BlockText(s.else)) \o Ending("END_IF")
    [] s.s = "while" -> <<Kw("WHILE")>> \o ExprText(s.cond) \o <<Kw("DO")>> \o BlockText(s.body) \o Ending("END_WHILE")
    [] s.s = "repeat" -> <<Kw("REPEAT")>> \o BlockText(s.body) \o <<Kw("UNTIL")>> \o ExprText(s.cond) \o Ending("END_REPEAT")
    [] s.s = "for" -> <<Kw("FOR"), Id(s.v), Kw(":=")>> \o ExprText(s.from) \o <<Kw("TO")>> \o ExprText(s.to)
                      \o (IF s.by = StInt(1) THEN <<>> ELSE <<Kw("BY")>> \o ExprText(s.by))
                      \o <<Kw("DO")>> \o BlockText(s.body) \o Ending("END_FOR")
    [] s.s = "case" -> <<Kw("CASE"), Id(s.v), Kw("OF")>> \o FlattenSeq([i \in DOMAIN s.cases |-> ArmText(s.cases[i])])
                       \o (IF s.else = <<>> THEN <<>> ELSE <<Kw("ELSE")>> \o BlockText(s.else)) \o Ending("END_CASE")
    [] s.s \in {"exit", "return"} -> <<Kw(IF s.s = "exit" THEN "EXIT" ELSE "RETURN"), Kw(";")>>

Names == <<"x", "y", "i">>
STDecl == [n \in DOMAIN Names |-> [name |-> Names[n], type |-> "DINT"]]
STText(body) ==
  <<Kw("PROGRAM"), Id("p"), Kw("VAR")>>
  \o FlattenSeq([n \in DOMAIN Names |-> <<Id(Names[n]), Kw(":"), Kw("DINT"), Kw(";")>>]) \o <<Kw("END_VAR"), Kw(";")>>
  \o BlockText(body)
  \o <<Kw("FUNCTION"), Id("f"), Kw(":"), Kw("DINT"), Kw(";"), Kw("RETURN"), Kw(";"), Kw("END_FUNCTION"), Kw(";"),
        Kw("END_PROGRAM")>>

X == StVar("x")
Y == StVar("y")
Inc(v, e) == Assign(v, StBin(StVar(v), "+", e))
ArithOps == <<"+", "-", "*", "/", "MOD">>
CompareOps == <<"=", "<>", ">", "<", ">=", "<=">>

\* The target of an assignment is no right operand of its own expression.
Computed ==
  Each(ArithOps, LAMBDA p : Map(ArithOps, LAMBDA q : StBin(StBin(X, p, StInt(3)), q, StInt(2))))
  \o Each(ArithOps, LAMBDA p : Map(ArithOps, LAMBDA q : StBin(X, p, StBin(StInt(5), q, StInt(2)))))
  \o <<StUn("-", X), StBin(StUn("-", X), "+", StInt(2)), StUn("-", StBin(X, "-", StInt(9)))>>

Statements ==
  Map(Computed, LAMBDA e : Assign("y", e))
  \o Each(CompareOps, LAMBDA op : Map(<<6, 7>>, LAMBDA n :
       If(StBin(X, op, StInt(n)), <<Inc("x", Y)>>, IF n = 6 THEN <<>> ELSE <<Assign("y", StInt(0))>>)))
  \o Each(<<Exit, Return>>, LAMBDA leave : Map(<<7, 9, 11>>, LAMBDA n :
       While(StBin(X, "<", StInt(n)), <<Inc("x", StInt(1)), Inc("y", X), If(StBin(Y, ">", StInt(20)), <<leave>>, <<>>)>>)))
  \o Each(<<1, 2>>, LAMBDA by : Map(<<0, 1, 2, 3>>, LAMBDA n :
       For("i", StInt(1), StInt(n), StInt(by), <<Inc("y", StBin(StVar("i"), "*", X))>>)))
  \o Map(<<0, 8, 9>>, LAMBDA n : Repeat(<<Inc("x", StInt(1))>>, StBin(X, ">=", StInt(n))))
  \o Map(<<2, 7, 8>>, LAMBDA n :
       Case("x", <<[values |-> <<n, 3>>, body |-> <<Inc("y", X)>>], [values |-> <<7>>, body |-> <<Inc("x", Y)>>]>>,
            <<Assign("x", StInt(0))>>))
  \o <<Case("x", <<[values |-> <<8>>, body |-> <<Inc("y", X)>>]>>, <<>>)>>

STBody(s) == <<Assign("x", StInt(7)), Assign("y", StInt(1)), s, Inc("y", X)>>
STSources == Map(Statements, STBody)

(* Block diagrams: one block, its pins wired, one of them twice.             *)
MCAlphabetical == <<"IN", "PT">>
FBDSources ==
  Each(<<"TON", "CTU">>, LAMBDA kind : Map(<<"a", "b", "y">>, LAMBDA v :
    << <<"BLOCK", "f", kind>>, <<"IN", "f", "IN", "b">>, <<"IN", "f", "PT", "a">>, <<"IN", "f", "IN", v>> >>))
FBDMeaning(source, env) == ("f.IN" :> ValueOf(env, source[4][4])) @@ ("f.PT" :> ValueOf(env, "a")) @@ env

(* G-code: two lines after a first move, and arcs that end on their circle;  *)
(* the spindle is stopped before it turns the other way, and no move returns *)
(* Y or Z to 0.                                                              *)
GLines ==
  << << <<"G", 91>> >>, << <<"G", 90>> >>, << <<"G", 0>>, <<"X", 60>>, <<"Z", -60>> >>,
     << <<"N", 10>>, <<"G", 0>>, <<"Y", 60>>, <<"F", 5>>, <<"Y", 120>> >>,
     << <<"M", 3>>, <<"S", 100>> >>, << <<"M", 5>>, <<"S", 7>> >>, << <<"G", 2>>, <<"I", 60>> >>, << <<"M", 2>> >>,
     << <<"/", 0>> >> >>
GArcs ==
  << << << <<"G", 91>> >>, << <<"G", 2>>, <<"X", 120>>, <<"I", 60>> >> >>,
     << << <<"G", 18>> >>, << <<"G", 3>>, <<"X", 180>>, <<"R", 60>>, <<"Y", 30>> >> >>,
     << << <<"G", 19>> >>, << <<"G", 3>>, <<"Y", 180>>, <<"Z", 240>>, <<"R", -60>> >> >>,
     << << <<"G", 91>> >>, << <<"G", 2>>, <<"X", 60>>, <<"Y", 60>>, <<"I", 60>> >> >>,
     << << <<"G", 18>> >>, << <<"G", 2>>, <<"X", 120>>, <<"Z", 120>>, <<"K", -60>>, <<"Y", 60>> >> >>,
     << << <<"M", 3>>, <<"S", 9>> >>, << <<"M", 5>> >>, << <<"M", 4>> >> >> >>
GProgram(lines, last) ==
  << << <<"G", 0>>, <<"X", 60>>, <<"Y", 120>>, <<"Z", 180>> >> >> \o lines \o << << <<"M", last>> >>, << <<"G", 0>>, <<"X", 1>> >> >>
GSources ==
  Each(GLines, LAMBDA m1 : Map(GLines, LAMBDA m2 : GProgram(<<m1, m2>>, 30))) \o Map(GArcs, LAMBDA arc : GProgram(arc, 2))

(* Arcs from a point v beside, above or below their center to w, in each     *)
(* plane, given by the center or, anticlockwise, by the radius.              *)
Directions == {<<60, 0>>, <<0, 60>>, <<-60, 0>>, <<0, -60>>}
About(axes, v) == [x \in Axes3 |-> CASE x = axes[1] -> 180 + v[1] [] x = axes[2] -> 240 + v[2] [] x = axes[3] -> 0]
CenterArc(g, axes, v) == ("G" :> g) @@ (OffsetLetters[axes[1]] :> -v[1]) @@ (OffsetLetters[axes[2]] :> -v[2])
RadiusArc(g, r) == ("G" :> g) @@ ("R" :> r)
ArcPath(cmd, axes, v, w) ==
  LET points == ArcPoints(cmd["G"], About(axes, v), About(axes, w), axes,
                          ArcCenter(About(axes, v), About(axes, w), axes, cmd))
  IN [i \in DOMAIN points |-> <<points[i][1] - 180, points[i][2] - 240>>]

\* The chords follow the circle from the start to the end, to the right for
\* G2, to the left for G3; a positive radius selects the quarter to the left,
\* a negative one the other three.
ArcsTurn ==
  \A axes \in {PlaneAxes(17), PlaneAxes(18), PlaneAxes(19)}, v, w \in Directions :
    /\ \A g \in {2, 3} : ArcPath(CenterArc(g, axes, v), axes, v, w) = ArcMeaning(g, v, w)
    /\ Len(ArcMeaning(3, v, w)) = 1 => ArcPath(RadiusArc(3, 60), axes, v, w) = ArcMeaning(3, v, w)
    /\ Len(ArcMeaning(3, v, w)) = 3 => ArcPath(RadiusArc(3, -60), axes, v, w) = ArcMeaning(3, v, w)

(* Quarters given by a radius, from the origin to 60, 60.                    *)
Quarters == Map(<<3, 2>>, LAMBDA g : << << <<"G", g>>, <<"X", 60>>, <<"Y", 60>>, <<"R", 60>> >>, << <<"M", 2>> >> >>)

(* Moves: along each axis, forwards and backwards, at a speed that is a      *)
(* multiple of a, over a distance the profile covers exactly.                *)
Move(x, length, v) ==
  [d |-> [n \in Axes3 |-> IF n = x THEN length ELSE 0], start |-> <<10, 20, 30>>, feedrate |-> v, a |-> 3]
Moves == Each(<<1, 2, 3>>, LAMBDA x : Each(<<18, 60, -36>>, LAMBDA length : Map(<<3, 6>>, LAMBDA v : Move(x, length, v))))

\* Moves too short to reach their speed: only that a scan ends is claimed.
Shorts == Each(<<1, 2>>, LAMBDA x : Map(<<3, -12>>, LAMBDA length : Move(x, length, 6)))

(* Ladders for the evaluator: latches, a diamond, and a rung that reads the  *)
(* coils of the rungs above.                                                 *)
Diamond(k) ==
  [nodes |-> 4, left |-> 0, out |-> 3,
   edges |-> <<Edge(0, 1, Contact("NO", "a")), Edge(0, 2, Contact(k, "b")), Edge(1, 2, Contact("NC", "b")),
               Edge(1, 3, Contact("NO", "m")), Edge(2, 3, Contact(k, "m"))>>]
MCLadders ==
  Each(<<Diamond("NO"), Diamond("NC"),
         ParallelNetwork(<< <<Contact("NO", "a"), Contact("NC", "b")>>, <<Contact("NO", "m")>> >>)>>, LAMBDA n :
    Each(<<"SET", "OUT">>, LAMBDA c : Map(<<"OUT", "NEG", "RESET">>, LAMBDA d :
      <<[network |-> n, coils |-> <<Coil(c, "m"), Coil(d, "y")>>],
        [network |-> SerialNetwork(<<Contact("NO", "b"), Contact("NC", "y")>>), coils |-> <<Coil("RESET", "m")>>]>>)))
MCLadderIns == [n \in DOMAIN MCLadders |-> [{"a", "b"} -> BOOLEAN]]

-----------------------------------------------------------------------------
(* All of them: language k, member i of its family.                          *)

Languages == <<"IL", "LD", "SFC", "FBD", "ST", "G", "quarter", "motion", "short">>
Sizes ==
  [IL |-> Len(ILSources), LD |-> Len(LDSources), SFC |-> Len(SFCSources), FBD |-> Len(FBDSources),
   ST |-> Len(STSources), G |-> Len(GSources), quarter |-> Len(Quarters), motion |-> Len(Moves), short |-> Len(Shorts)]
Catalogue == Each(Languages, LAMBDA k : [i \in 1..Sizes[k] |-> [language |-> k, i |-> i]])

Compiled ==
  Map(ILSources, ILCompile)
  \o Map(LDSources, LAMBDA r : ILCompile(LDCompile(LDText(r))))
  \o Map(SFCSources, LAMBDA c : ILCompile(SFCCompile(c)))
  \o Map(FBDSources, LAMBDA d : ILCompile(FBDCompile(d)))
  \o Map(STSources, LAMBDA body : STCompile(STText(body)))
  \o Map(GSources \o Quarters, GcodeCompile)
  \o Map(Moves \o Shorts, LAMBDA p : Append(TrapezoidalProgram(p), Halt))

Relays == [s \in {"a", "b", "y", "z"} |-> Bool(0)]
Machine == [s \in ToSet(PosSignals) \cup {"spindle.rpm"} |-> F64(0)] @@ [s \in {"spindle.cw", "spindle.ccw"} |-> Bool(0)]
SignalsOf(k) == CASE k = "ST" -> [s \in {"x", "y"} |-> S32(0)] [] k \in {"G", "quarter", "motion", "short"} -> Machine [] OTHER -> Relays
InputsOf(k) == IF k \in {"IL", "LD", "SFC", "FBD"} THEN [{"a", "b"} -> {Bool(0), Bool(1)}] ELSE {<<>>}

\* The registered signals when member c has been scanned from env.
Lit(env) == [s \in DOMAIN env |-> env[s] = Bool(1)]
Expected(c, env) ==
  CASE c.language = "IL" -> ILMeaning(ILSources[c.i], env)
    [] c.language = "LD" -> LET lit == EvaluateCycle(LDDiagram(LDSources[c.i]), Lit(env))
                            IN [s \in DOMAIN lit |-> Truth(lit[s])]
    [] c.language = "SFC" -> ChartMeaning(SFCSources[c.i], env)
    [] c.language = "FBD" -> FBDMeaning(FBDSources[c.i], env)
    [] c.language = "ST" -> LET last == STMeaning(STDecl, STSources[c.i]) IN [s \in {"x", "y"} |-> S32(last[s])]
    [] c.language = "G" -> GcodeMeaning(GSources[c.i], env)
    [] c.language = "quarter" -> GcodeMeaning(Quarters[c.i], env)
    [] c.language = "motion" -> MoveMeaning(Moves[c.i], env)
=============================================================================

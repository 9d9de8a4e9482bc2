----------------------------- MODULE STCompiler -----------------------------
(* The Structured Text code generator (crates/audesys-hal-binding-gen,       *)
(* codegen.rs): syntax trees to instructions of the virtual machine.         *)
(* decl is the sequence of declared variables, which gives each its          *)
(* register.  Code is generated for the index n it will start at.  Calls     *)
(* and fields of function block instances are left out.                      *)
EXTENDS HalVm, STParser

MAX_VAR_REGS == 13
Scratches == <<14, 15, 13>>   \* in the order alloc_scratch tries them

Compares == ("=" :> "Eq") @@ ("<>" :> "Neq") @@ (">" :> "Gt") @@ ("<" :> "Lt") @@ (">=" :> "Gte") @@ ("<=" :> "Lte")
Ariths == ("+" :> "Add") @@ ("-" :> "Sub") @@ ("*" :> "Mul") @@ ("/" :> "Div") @@ ("MOD" :> "Mod")
Logics == ("AND" :> "And") @@ ("OR" :> "Or") @@ ("XOR" :> "Xor")

IntegerTypes == {"INT", "DINT", "SINT", "USINT", "UINT", "ULINT", "LINT", "BYTE", "WORD", "DWORD",
                 "TIME", "DATE", "TOD", "DT"}

(* Declarations *)
Declared(decl, v) == \E i \in DOMAIN decl : decl[i].name = v
VarReg(decl, v) == SelectInSeq(decl, LAMBDA d : d.name = v) - 1
VarType(decl, v) == decl[VarReg(decl, v) + 1].type

\* zero_for_var: the zero added to copy a variable has the declared type.
ZeroOf ==
  [INT |-> "S16", DINT |-> "S32", TIME |-> "S32", SINT |-> "S8", LINT |-> "S64", BOOL |-> "Bool",
   USINT |-> "U8", BYTE |-> "U8", UINT |-> "U16", WORD |-> "U16", ULINT |-> "U32", DWORD |-> "U32",
   DATE |-> "U32", TOD |-> "U32", DT |-> "U32", REAL |-> "F32", LREAL |-> "F64"]
Zero(type) == [t |-> ZeroOf[type], v |-> 0]

\* alloc_scratch panics when the three are in use, and var_reg refuses an
\* undeclared variable; the code then names a register that is none.
Alloc(avail) == IF avail = {} THEN -1 ELSE Scratches[SelectInSeq(Scratches, LAMBDA r : r \in avail)]
Failed == <<Instr("Load", <<Reg(-1)>>)>>
\* What Make gives for code generated before it.
With(code, Make(_)) == Make(code)

Fails(code) == \E i \in DOMAIN code : \E j \in DOMAIN code[i].args : code[i].args[j] = Reg(-1)

-----------------------------------------------------------------------------
(* Types *)

Compatible(a, b) ==
  \/ a = b
  \/ a = "INT" /\ b \in IntegerTypes
  \/ b = "INT" /\ a \in IntegerTypes
  \/ {a, b} = {"REAL", "LREAL"}

RECURSIVE TypeOf(_, _)
\* "error" stands for CodegenError.
TypeOf(e, decl) ==
  CASE e.k = "int" -> "INT"
    [] e.k = "real" -> "REAL"
    [] e.k = "bool" -> "BOOL"
    [] e.k \in {"var", "idx"} ->
         IF ~Declared(decl, e.v) THEN "error"
         ELSE IF e.k = "idx" /\ VarType(decl, e.v) = "ARRAY" THEN "INT" ELSE VarType(decl, e.v)
    [] e.k = "bin" ->
         LET l == TypeOf(e.l, decl)
             r == TypeOf(e.r, decl)
         IN CASE "error" \in {l, r} -> "error"
              [] "error" \notin {l, r} /\ e.op \in DOMAIN Compares -> "BOOL"
              [] "error" \notin {l, r} /\ e.op \in {"AND", "OR"} -> IF {l, r} = {"BOOL"} THEN "BOOL" ELSE "error"
              [] OTHER -> IF Compatible(l, r) THEN l ELSE "error"
    [] e.k = "un" ->
         LET t == TypeOf(e.e, decl)
         IN IF t \in (IF e.op = "-" THEN {"INT", "REAL", "DINT", "LREAL"} ELSE IntegerTypes \cup {"BOOL"})
            THEN t ELSE "error"

AssignChecks(v, e, decl) ==
  /\ Declared(decl, v)
  /\ CASE e.k = "int" -> VarType(decl, v) \in IntegerTypes
       [] e.k = "real" -> VarType(decl, v) \in {"REAL", "LREAL"}
       [] OTHER -> TypeOf(e, decl) # "error" /\ Compatible(TypeOf(e, decl), VarType(decl, v))

-----------------------------------------------------------------------------
(* Expressions *)

RECURSIVE CompileExpr(_, _, _, _, _)

\* Both operands of a comparison, each in a scratch register, the right one
\* first, and the comparison.
CompileOperands(e, n, avail, decl) ==
  LET rs == Alloc(avail)
      ls == Alloc(avail \ {rs})
  IN With(CompileExpr(e.r, rs, n, avail \ {rs}, decl), LAMBDA right :
       right \o CompileExpr(e.l, ls, n + Len(right), avail \ {rs, ls}, decl) \o <<Cmp(Compares[e.op], ls, rs)>>)

\* compile_cmp_expr: the jump over the load of TRUE is taken when the
\* comparison holds.
CompileCmpExpr(e, d, n, avail, decl) ==
  With(CompileOperands(e, n, avail, decl), LAMBDA test :
    test \o <<LoadImm(d, Bool(0)), JumpIfTo(n + Len(test) + 3), LoadImm(d, Bool(1))>>)

CompileExpr(e, d, n, avail, decl) ==
  CASE e.k = "int" -> <<LoadImm(d, S32(e.n))>>
    [] e.k = "real" -> <<LoadImm(d, [t |-> "F32", v |-> e.n])>>
    [] e.k = "bool" -> <<LoadImm(d, Bool(IF e.b THEN 1 ELSE 0))>>
    [] e.k = "var" ->
         IF ~Declared(decl, e.v) THEN Failed
         ELSE IF VarReg(decl, e.v) = d THEN <<>>
         ELSE <<LoadImm(d, Zero(VarType(decl, e.v))), Arith("Add", VarReg(decl, e.v), d, d)>>
    [] e.k = "bin" /\ e.op \in DOMAIN Ariths ->
         LET s == Alloc(avail)
         IN With(CompileExpr(e.l, d, n, avail, decl), LAMBDA left :
              left \o CompileExpr(e.r, s, n + Len(left), avail \ {s}, decl) \o <<Arith(Ariths[e.op], d, s, d)>>)
    [] e.k = "bin" /\ e.op \in DOMAIN Compares -> CompileCmpExpr(e, d, n, avail, decl)
    [] e.k = "bin" /\ e.op \in DOMAIN Logics ->
         LET s == Alloc(avail)
         IN With(CompileExpr(e.l, d, n, avail \ {s}, decl), LAMBDA left :
              left \o CompileExpr(e.r, s, n + Len(left), avail \ {s}, decl) \o <<Arith(Logics[e.op], d, s, d)>>)
    [] e.k = "un" /\ e.op = "-" ->
         LET zero == Alloc(avail)
         IN CompileExpr(e.e, d, n, avail, decl) \o <<LoadImm(zero, S32(0)), Arith("Sub", zero, d, d)>>
    [] e.k = "un" /\ e.op = "NOT" -> CompileExpr(e.e, d, n, avail, decl) \o <<Arith("Not", d, d, d)>>
    [] e.k = "idx" ->
         LET i == Alloc(avail)
         IN CompileExpr(e.e, i, n, avail \ {i}, decl)
            \o <<Instr("LoadIndex", <<Reg(d), Reg(VarReg(decl, e.v)), Reg(i)>>)>>

-----------------------------------------------------------------------------
(* Conditions: the code, and the indices of the jumps the statement patches  *)

AllScratch == {13, 14, 15}

\* patch_jump for each j of jumps, in code that starts at n.
Patch(code, n, jumps, target) ==
  [i \in DOMAIN code |-> IF n + i - 1 \in jumps THEN Instr(code[i].op, <<Imm(U32(target))>>) ELSE code[i]] \o <<>>

\* A test and the jump after it, whose target is still to be patched.
Tested(test, n) == [code |-> Append(test, JumpIfTo(0)), else |-> {n + Len(test)}, end |-> {}]

RECURSIVE BoolCond(_, _, _)
BoolCond(e, n, decl) ==
  CASE e.k = "bin" /\ e.op \in DOMAIN Compares -> Tested(CompileOperands(e, n, AllScratch, decl), n)
    [] e.k = "bin" /\ e.op = "AND" ->
         With(BoolCond(e.l, n, decl), LAMBDA l :
         With(BoolCond(e.r, n + Len(l.code), decl), LAMBDA r :
           [code |-> l.code \o r.code, else |-> l.else \cup r.else, end |-> l.end \cup r.end]))
    [] e.k = "bin" /\ e.op = "OR" ->
         With(BoolCond(e.l, n, decl), LAMBDA l :
         With(BoolCond(e.r, n + Len(l.code) + 1, decl), LAMBDA r :
           LET or_then == n + Len(l.code)
           IN [code |-> Append(Patch(l.code, n, l.else, or_then + 1), JumpTo(0)) \o r.code,
               else |-> r.else, end |-> l.end \cup {or_then} \cup r.end]))
    [] e.k = "un" /\ e.op = "NOT" ->
         With(BoolCond(e.e, n, decl), LAMBDA inner :
           [code |-> inner.code, else |-> inner.end, end |-> inner.else])
    [] OTHER ->
         Tested(CompileExpr(e, 14, n, AllScratch \ {14}, decl) \o <<LoadImm(15, Bool(1)), Cmp("Eq", 14, 15)>>, n)

-----------------------------------------------------------------------------
(* Statements: the code, and the jumps of EXIT that their loop patches       *)

Plain(code) == [code |-> code, exits |-> {}]

RECURSIVE CompileStmt(_, _, _)

CompileBlock(stmts, n, decl) ==
  FoldLeft(LAMBDA acc, s : With(CompileStmt(s, n + Len(acc.code), decl), LAMBDA c :
                             [code |-> acc.code \o c.code, exits |-> acc.exits \cup c.exits]),
           Plain(<<>>), stmts)

CompileIf(s, n, decl) ==
  With(BoolCond(s.cond, n, decl), LAMBDA cond :
  With(CompileBlock(s.then, n + Len(cond.code) + 1, decl), LAMBDA then :
    LET to_else == n + Len(cond.code)
        to_end == to_else + 1 + Len(then.code)
    IN With(CompileBlock(s.else, to_end + 1, decl), LAMBDA else :
         [code |-> Patch(cond.code, n, cond.else \cup cond.end, to_else + 1) \o <<JumpTo(to_end + 1)>>
                   \o then.code \o <<JumpTo(to_end + 1 + Len(else.code))>> \o else.code,
          exits |-> then.exits \cup else.exits])))

\* end jumps of the condition stay at 0 here and in CompileRepeat.
CompileWhile(s, n, decl) ==
  With(BoolCond(s.cond, n, decl), LAMBDA cond :
    LET exit_jump == n + Len(cond.code)
    IN With(CompileBlock(s.body, exit_jump + 1, decl), LAMBDA body :
         LET exit == exit_jump + 2 + Len(body.code)
         IN Plain(Patch(cond.code, n, cond.else, exit_jump + 1) \o <<JumpTo(exit)>>
                  \o Patch(body.code, exit_jump + 1, body.exits, exit) \o <<JumpTo(n)>>)))

ForTest == "Gt"

CompileFor(s, n, decl) ==
  With(CompileExpr(s.from, VarReg(decl, s.v), n, AllScratch, decl), LAMBDA from :
  With(CompileExpr(s.to, 14, n + Len(from), AllScratch \ {14}, decl), LAMBDA to :
    LET r == VarReg(decl, s.v)
        start == n + Len(from)
        body_at == start + Len(to) + 2
    IN With(CompileBlock(s.body, body_at, decl), LAMBDA body :
       With(CompileExpr(s.by, 14, body_at + Len(body.code), AllScratch \ {14}, decl), LAMBDA by :
         LET exit == body_at + Len(body.code) + Len(by) + 2
         IN Plain(from \o to \o <<Cmp(ForTest, r, 14), JumpIfTo(exit)>>
                  \o Patch(body.code, body_at, body.exits, exit)
                  \o by \o <<Arith("Add", r, 14, r), JumpTo(start)>>)))))

CompileRepeat(s, n, decl) ==
  With(CompileBlock(s.body, n, decl), LAMBDA body :
  With(BoolCond(s.cond, n + Len(body.code), decl), LAMBDA cond :
    LET exit == n + Len(body.code) + Len(cond.code) + 1
    IN Plain(Patch(body.code, n, body.exits, exit)
             \o Patch(cond.code, n + Len(body.code), cond.else, exit) \o <<JumpTo(n)>>)))

\* One arm: a test and a jump for each value, the jump past the body, the
\* body, and the jump to the end, which CompileCase patches.
CompileArm(r, arm, n, decl) ==
  LET k == Len(arm.values)
      body_at == n + 3 * k + 1
      test(v) == <<LoadImm(14, S32(v)), Cmp("Eq", r, 14), JumpIfTo(body_at)>>
  IN With(CompileBlock(arm.body, body_at, decl), LAMBDA body :
       [code |-> FlattenSeq([i \in 1..k |-> test(arm.values[i])])
                 \o <<JumpTo(body_at + Len(body.code) + 1)>> \o body.code \o <<JumpTo(0)>>,
        exits |-> body.exits])

CompileCase(s, n, decl) ==
  With(FoldLeft(LAMBDA acc, arm : With(CompileArm(VarReg(decl, s.v), arm, n + Len(acc.code), decl), LAMBDA c :
                  [code |-> acc.code \o c.code, exits |-> acc.exits \cup c.exits,
                   ends |-> acc.ends \cup {n + Len(acc.code) + Len(c.code) - 1}]),
                [code |-> <<>>, exits |-> {}, ends |-> {}], s.cases), LAMBDA arms :
  With(CompileBlock(s.else, n + Len(arms.code), decl), LAMBDA else :
    [code |-> Patch(arms.code, n, arms.ends, n + Len(arms.code) + Len(else.code)) \o else.code,
     exits |-> arms.exits \cup else.exits]))

\* Only the first four arguments are passed, and the call goes to 0.
CompileCall(s, n, decl) ==
  LET put(code, i) == code \o CompileExpr(s.args[i], i - 1, n + Len(code), AllScratch, decl)
  IN Plain(FoldLeft(put, <<>>, SelectSeq([i \in DOMAIN s.args |-> i], LAMBDA i : i <= 4)) \o <<CallTo(0)>>)

CompileStmt(s, n, decl) ==
  CASE s.s = "assign" ->
         Plain(Append(CompileExpr(s.e, VarReg(decl, s.v), n, AllScratch, decl), StoreSig(s.v, VarReg(decl, s.v))))
    [] s.s = "array" ->
         LET r == VarReg(decl, s.v)
         IN With(CompileExpr(s.i, 14, n, AllScratch \ {14}, decl), LAMBDA i :
              Plain(i \o CompileExpr(s.e, 15, n + Len(i), {13}, decl)
                    \o <<Instr("StoreIndex", <<Reg(r), Reg(14), Reg(15)>>), StoreSig(s.v, r)>>))
    [] s.s = "if" -> CompileIf(s, n, decl)
    [] s.s = "while" -> CompileWhile(s, n, decl)
    [] s.s = "for" -> CompileFor(s, n, decl)
    [] s.s = "repeat" -> CompileRepeat(s, n, decl)
    [] s.s = "case" -> CompileCase(s, n, decl)
    [] s.s = "return" -> Plain(<<Halt>>)
    [] s.s = "exit" -> [code |-> <<JumpTo(0)>>, exits |-> {n}]
    [] s.s = "call" -> CompileCall(s, n, decl)

-----------------------------------------------------------------------------
RECURSIVE StmtChecks(_, _)
\* check_assign, check_condition and the checks of FOR, in every statement.
StmtChecks(s, decl) ==
  LET all(stmts) == \A i \in DOMAIN stmts : StmtChecks(stmts[i], decl)
  IN CASE s.s = "assign" -> AssignChecks(s.v, s.e, decl)
       [] s.s = "if" -> TypeOf(s.cond, decl) = "BOOL" /\ all(s.then) /\ all(s.else)
       [] s.s \in {"while", "repeat"} -> TypeOf(s.cond, decl) = "BOOL" /\ all(s.body)
       [] s.s = "for" -> Declared(decl, s.v) /\ VarType(decl, s.v) \in {"INT", "DINT"} /\ all(s.body)
       [] s.s = "case" -> Declared(decl, s.v) /\ all(s.else) /\ \A i \in DOMAIN s.cases : all(s.cases[i].body)
       [] OTHER -> TRUE

Checks(stmts, decl) == \A i \in DOMAIN stmts : StmtChecks(stmts[i], decl)

\* compile_ast; <<>> stands for an error or a panic.  An EXIT outside a loop panics.
CompileAst(prog) ==
  LET main == [body |-> prog.body, last |-> Halt]
      functions == [i \in DOMAIN prog.functions |-> [body |-> prog.functions[i].body, last |-> Instr("Ret", <<>>)]]
  IN With(FoldLeft(LAMBDA acc, part : With(CompileBlock(part.body, Len(acc.code), prog.decl), LAMBDA c :
                     [code |-> Append(acc.code \o c.code, part.last), exits |-> acc.exits \cup c.exits]),
                   Plain(<<>>), <<main>> \o functions), LAMBDA all :
       IF /\ Len(prog.decl) <= MAX_VAR_REGS
          /\ Checks(prog.body, prog.decl)
          /\ \A i \in DOMAIN prog.functions : Checks(prog.functions[i].body, prog.decl)
          /\ all.exits = {} /\ ~Fails(all.code)
       THEN all.code ELSE <<>>)

STCompile(tokens) ==
  With(ParseProgram(tokens), LAMBDA p : IF p.pos = 0 THEN <<>> ELSE CompileAst(p.v))

-----------------------------------------------------------------------------
(* What Structured Text means: variables hold integers and start at 0;       *)
(* st.left says whether EXIT or RETURN is leaving what encloses it.          *)

RECURSIVE ExprMeaning(_, _), StmtMeaning(_, _)

ExprMeaning(e, env) ==
  CASE e.k = "int" -> e.n
    [] e.k = "var" -> env[e.v]
    [] e.k = "un" -> IF e.op = "-" THEN -ExprMeaning(e.e, env) ELSE ~ExprMeaning(e.e, env)
    [] e.k = "bin" ->
         LET x == ExprMeaning(e.l, env)
             y == ExprMeaning(e.r, env)
         IN CASE e.op = "+" -> x + y
              [] e.op = "-" -> x - y
              [] e.op = "*" -> x * y
              [] e.op = "/" -> IF y = 0 THEN 0 ELSE Quotient(x, y)
              [] e.op = "MOD" -> IF y = 0 THEN 0 ELSE x - y * Quotient(x, y)
              [] e.op = "=" -> x = y
              [] e.op = "<>" -> x # y
              [] e.op = ">" -> x > y
              [] e.op = "<" -> x < y
              [] e.op = ">=" -> x >= y
              [] e.op = "<=" -> x <= y
              [] e.op = "AND" -> x /\ y
              [] e.op = "OR" -> x \/ y

BlockMeaning(stmts, st) ==
  FoldLeft(LAMBDA a, s : IF a.left = "no" THEN StmtMeaning(s, a) ELSE a, st, stmts)

\* A loop s goes on after its body, or has been left.
LoopMeaning(s, goes_on, st) ==
  CASE st.left = "exit" -> [st EXCEPT !.left = "no"]
    [] st.left = "no" /\ goes_on -> StmtMeaning(s, st)
    [] OTHER -> st

StmtMeaning(s, st) ==
  CASE s.s = "assign" -> [st EXCEPT !.env[s.v] = ExprMeaning(s.e, st.env)]
    [] s.s = "if" -> BlockMeaning(IF ExprMeaning(s.cond, st.env) THEN s.then ELSE s.else, st)
    [] s.s = "while" ->
         IF ExprMeaning(s.cond, st.env) THEN LoopMeaning(s, TRUE, BlockMeaning(s.body, st)) ELSE st
    [] s.s = "repeat" ->
         LET done == BlockMeaning(s.body, st) IN LoopMeaning(s, ~ExprMeaning(s.cond, done.env), done)
    [] s.s = "for" ->
         LET i == StVar(s.v)
         IN BlockMeaning(<<Assign(s.v, s.from),
                           While(StBin(i, "<=", s.to), Append(s.body, Assign(s.v, StBin(i, "+", s.by))))>>, st)
    [] s.s = "case" ->
         LET arms == SelectSeq(s.cases, LAMBDA c : Contains(c.values, st.env[s.v]))
         IN BlockMeaning(IF arms = <<>> THEN s.else ELSE Head(arms).body, st)
    [] s.s \in {"exit", "return"} -> [st EXCEPT !.left = s.s]

\* The variables when the body has ended.
STMeaning(decl, body) ==
  BlockMeaning(body, [env |-> [v \in {decl[i].name : i \in DOMAIN decl} |-> 0], left |-> "no"]).env
=============================================================================

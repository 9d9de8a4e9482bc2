----------------------------- MODULE ILCompiler -----------------------------
(* The Instruction List compiler (crates/audesys-il-compiler): source lines *)
(* to tokens, tokens to statements, statements to instructions of the       *)
(* virtual machine.  A source line is its label, or "", and its words;      *)
(* comments and letter case are left out.                                   *)
EXTENDS HalVm, SequencesExt

CR == 14     \* the accumulator
TRUE_REG == 15
TEMP1 == 12
USER_REG_MAX == 9

Line(words) == [label |-> "", words |-> words]
Labelled(name, words) == [label |-> name, words |-> words]

(* Mnemonics *)
ILBinary == [OR |-> "Or", XOR |-> "Xor", ADD |-> "Add", SUB |-> "Sub", MUL |-> "Mul",
             DIV |-> "Div", MOD |-> "Mod"]
ILCompare == [GT |-> "Gt", GE |-> "Gte", EQ |-> "Eq", NE |-> "Neq", LE |-> "Lte", LT |-> "Lt"]
ILBlocks == [TON |-> "TimerRun", TOF |-> "TimerRun", TP |-> "TimerRun", CTU |-> "CounterRun",
             CTD |-> "CounterRun", R_TRIG |-> "EdgeRun", F_TRIG |-> "EdgeRun",
             SR |-> "SrRun", RS |-> "SrRun"]
Jumps == {"JMP", "JMPC", "JMPCN", "CAL"}
Mnemonics == DOMAIN ILBinary \cup DOMAIN ILCompare \cup DOMAIN ILBlocks \cup Jumps
             \cup {"LD", "LDN", "ST", "AND", "ANDN", "ORN", "RET", "S", "R", "NOT"}

-----------------------------------------------------------------------------
(* lexer.rs and parser.rs *)

Op(name) == <<"op", name>>
Ident(name) == <<"ident", name>>
Label(name) == <<"label", name>>

\* After a label every word is a token; otherwise a line that does not start
\* with a mnemonic is dropped, and so is what follows the first operand.
LineTokens(line) ==
  LET word(w) == IF w \in Mnemonics THEN Op(w) ELSE Ident(w)
      n == Len(line.words)
  IN IF line.label # ""
     THEN <<Label(line.label)>> \o [i \in 1..n |-> word(line.words[i])]
     ELSE IF n = 0 \/ ~(line.words[1] \in Mnemonics) THEN <<>>
     ELSE <<Op(line.words[1])>> \o (IF n > 1 THEN <<Ident(line.words[2])>> ELSE <<>>)

Tokenize(source) == FlattenSeq([i \in DOMAIN source |-> LineTokens(source[i])])

\* The name at i, or "?".
ExpectIdent(tokens, i) ==
  IF i \in DOMAIN tokens /\ tokens[i][1] = "ident" THEN tokens[i][2] ELSE "?"

\* Each mnemonic or label makes a statement; identifiers no mnemonic takes
\* are skipped.
Parse(tokens) ==
  LET heads == SelectSeq([i \in DOMAIN tokens |-> i], LAMBDA i : tokens[i][1] # "ident")
      statement(i) ==
        IF tokens[i][1] = "label" THEN [op |-> "label", arg |-> tokens[i][2]]
        ELSE [op |-> tokens[i][2],
              arg |-> IF tokens[i][2] \in {"RET", "NOT"} THEN "" ELSE ExpectIdent(tokens, i + 1)]
  IN [n \in DOMAIN heads |-> statement(heads[n])]

-----------------------------------------------------------------------------
(* codegen.rs *)

\* Operands that get a register; ST names its signal directly.
NeedsReg(s) == ~(s.op \in Jumps \cup {"label", "ST", "RET", "NOT"})

\* get_var_reg: registers in the order of first use.
VarRegs(stmts) ==
  FoldLeft(LAMBDA names, s : IF NeedsReg(s) /\ ~Contains(names, s.arg)
                             THEN Append(names, s.arg) ELSE names, <<>>, stmts)
RegOf(names, v) == SelectInSeq(names, LAMBDA w : w = v) - 1

CopyReg(dest, src) == Instr("Load", <<Reg(dest), Reg(src)>>)
NotReg(r) == Instr("Not", <<Reg(r), Reg(r)>>)

\* materialize_cr_from_flags at index n: done_ip is n + 5, one past the
\* instruction that follows the four.
Materialize(n) ==
  <<JumpIfTo(n + 3), LoadImm(CR, Bool(0)), JumpTo(n + 5), LoadImm(CR, Bool(1))>>

\* Mutant: the two conditional jumps swapped.
BranchOp_Swapped(op) == IF op = "JMPC" THEN "Neq" ELSE "Eq"
BranchOp(op) == IF op = "JMPC" THEN "Eq" ELSE "Neq"

\* The code of statement s whose operand is in register r, at index n, its
\* label at target.  Only LD, LDN, AND and ANDN read their signal.
ILEmit(s, r, n, target) ==
  CASE s.op = "label" -> <<>>
    [] s.op = "LD" -> <<LoadSig(r, s.arg), CopyReg(CR, r)>>
    [] s.op = "LDN" -> <<LoadSig(r, s.arg), CopyReg(CR, r), NotReg(CR)>>
    [] s.op = "ST" -> <<StoreSig(s.arg, CR)>>
    [] s.op = "AND" -> <<LoadSig(r, s.arg), Arith("And", CR, r, CR)>>
    [] s.op = "ANDN" -> <<LoadSig(r, s.arg), CopyReg(TEMP1, r), NotReg(TEMP1), Arith("And", CR, TEMP1, CR)>>
    [] s.op = "ORN" -> <<CopyReg(TEMP1, r), NotReg(TEMP1), Arith("Or", CR, TEMP1, CR)>>
    [] s.op \in DOMAIN ILBinary -> <<Arith(ILBinary[s.op], CR, r, CR)>>
    [] s.op \in DOMAIN ILCompare -> <<Cmp(ILCompare[s.op], CR, r)>> \o Materialize(n + 1)
    [] s.op = "JMP" -> <<JumpTo(target)>>
    [] s.op \in {"JMPC", "JMPCN"} -> <<Cmp(BranchOp(s.op), CR, TRUE_REG), JumpIfTo(target)>>
    [] s.op = "CAL" -> <<CallTo(target)>>
    [] s.op = "RET" -> <<Instr("Ret", <<>>)>>
    [] s.op = "S" -> <<LoadImm(r, Bool(1))>>
    [] s.op = "R" -> <<LoadImm(r, Bool(0))>>
    [] s.op = "NOT" -> <<NotReg(CR)>>
    [] s.op \in DOMAIN ILBlocks -> <<Instr(ILBlocks[s.op], <<Reg(r)>>)>>

\* A label no statement has stands for the final Halt.  With more than ten
\* variables the compiler panics: there is no program.
ILCodegen(stmts) ==
  LET names == VarRegs(stmts)
      emit(i, n, target) == ILEmit(stmts[i], RegOf(names, stmts[i].arg), n, target)
      \* start[i]: the index of the first instruction of statement i
      start == FoldLeft(LAMBDA at, i : Append(at, Last(at) + Len(emit(i, 0, 0))),
                        <<1>>, [i \in DOMAIN stmts |-> i])
      halt_ip == Last(start)
      target(name) ==
        LET i == SelectLastInSeq(stmts, LAMBDA s : s.op = "label" /\ s.arg = name)
        IN IF i = 0 THEN halt_ip ELSE start[i]
  IN IF Len(names) > USER_REG_MAX + 1 THEN <<>>
     ELSE <<LoadImm(TRUE_REG, Bool(1))>>
          \o FlattenSeq([i \in DOMAIN stmts |-> emit(i, start[i], target(stmts[i].arg))])
          \o <<Halt>>

ILCompile(source) == ILCodegen(Parse(Tokenize(source)))

-----------------------------------------------------------------------------
(* What Instruction List means: a statement acts on the accumulator and on  *)
(* the variables, which are the signals.                                    *)

ValueOf(env, v) == IF v \in DOMAIN env THEN env[v] ELSE Bool(0)
Truth(b) == Bool(IF b THEN 1 ELSE 0)

\* The accumulator after s, before it was cr, with operand x.
Accumulator(s, cr, x) ==
  CASE s.op = "LD" -> x
    [] s.op = "LDN" -> Complement(x)
    [] s.op = "AND" -> BinOp("And", cr, x)
    [] s.op = "ANDN" -> BinOp("And", cr, Complement(x))
    [] s.op = "ORN" -> BinOp("Or", cr, Complement(x))
    [] s.op = "NOT" -> Complement(cr)
    [] s.op \in DOMAIN ILBinary -> BinOp(ILBinary[s.op], cr, x)
    [] s.op \in DOMAIN ILCompare -> Truth(Holds(ILCompare[s.op], cr, x))
    [] OTHER -> cr

RECURSIVE ILRun(_, _, _, _, _)
\* The variables when stmts, at statement n, has ended; at most fuel
\* statements are run.
ILRun(stmts, n, cr, env, fuel) ==
  IF n > Len(stmts) \/ fuel = 0 THEN env
  ELSE LET s == stmts[n]
           jumps == \/ s.op \in {"JMP", "CAL"}
                    \/ s.op = "JMPC" /\ cr = Bool(1)
                    \/ s.op = "JMPCN" /\ cr # Bool(1)
           at == SelectLastInSeq(stmts, LAMBDA l : l.op = "label" /\ l.arg = s.arg)
           next == CASE s.op = "RET" \/ (jumps /\ at = 0) -> Len(stmts) + 1
                     [] jumps /\ at # 0 -> at
                     [] OTHER -> n + 1
           to == CASE s.op = "ST" -> cr [] s.op = "S" -> Bool(1) [] s.op = "R" -> Bool(0)
       IN ILRun(stmts, next, Accumulator(s, cr, ValueOf(env, s.arg)),
                IF s.op \in {"ST", "S", "R"} THEN (s.arg :> to) @@ env ELSE env, fuel - 1)

ILMeaning(source, env) == ILRun(Parse(Tokenize(source)), 1, S32(0), env, 50)
=============================================================================

------------------------------ MODULE STParser ------------------------------
(* The Structured Text parser (crates/audesys-hal-binding-gen, parser.rs):   *)
(* recursive descent over tokens, precedence climbing for expressions.       *)
(* A token is <<"kw", text>> for a keyword or a sign, <<"id", name>>,        *)
(* <<"int", n>> or <<"real", n>>.  What a parse function returns is [v, pos], *)
(* the tree and the position after it; pos = 0 is ParseError.                *)
EXTENDS Integers, Sequences, SequencesExt

Kw(text) == <<"kw", text>>
Id(name) == <<"id", name>>

(* Expr and Statement *)
StInt(n) == [k |-> "int", n |-> n]
StReal(n) == [k |-> "real", n |-> n]
StBool(b) == [k |-> "bool", b |-> b]
StVar(v) == [k |-> "var", v |-> v]
StBin(l, op, r) == [k |-> "bin", l |-> l, op |-> op, r |-> r]
StUn(op, e) == [k |-> "un", op |-> op, e |-> e]
StIndex(v, e) == [k |-> "idx", v |-> v, e |-> e]
StField(v, f) == [k |-> "fld", v |-> v, f |-> f]

Assign(v, e) == [s |-> "assign", v |-> v, e |-> e]
ArrayAssign(v, i, e) == [s |-> "array", v |-> v, i |-> i, e |-> e]
If(cond, then, else) == [s |-> "if", cond |-> cond, then |-> then, else |-> else]
While(cond, body) == [s |-> "while", cond |-> cond, body |-> body]
For(v, from, to, by, body) == [s |-> "for", v |-> v, from |-> from, to |-> to, by |-> by, body |-> body]
Repeat(body, cond) == [s |-> "repeat", body |-> body, cond |-> cond]
Case(v, cases, else) == [s |-> "case", v |-> v, cases |-> cases, else |-> else]
Return == [s |-> "return"]
Exit == [s |-> "exit"]
FunCall(f, args) == [s |-> "call", f |-> f, args |-> args]

BinOps == {"+", "-", "*", "/", "=", "<>", ">", "<", ">=", "<=", "AND", "OR", "MOD", "XOR"}
VarTypes == {"INT", "REAL", "BOOL", "DINT", "LREAL", "BYTE", "WORD", "DWORD", "SINT", "USINT",
             "UINT", "ULINT", "LINT", "TIME", "DATE", "TOD", "DT", "TON", "TP", "CTU", "CTD",
             "CTUD", "SR", "RS", "R_TRIG", "F_TRIG"}

Precedence(op) ==
  CASE op \in {"OR", "XOR"} -> 1
    [] op = "AND" -> 2
    [] op \in {"=", "<>", ">", "<", ">=", "<="} -> 3
    [] op \in {"+", "-"} -> 4
    [] op \in {"*", "/", "MOD"} -> 5

-----------------------------------------------------------------------------
Got(v, pos) == [v |-> v, pos |-> pos]
Fail == Got(<<>>, 0)
Tok(ts, i) == IF i \in DOMAIN ts THEN ts[i] ELSE <<"eof">>
IsOp(ts, i) == Tok(ts, i)[1] = "kw" /\ Tok(ts, i)[2] \in BinOps

\* expect: the position after token t at i.
After(ts, i, t) == IF i # 0 /\ Tok(ts, i) = t THEN i + 1 ELSE 0

\* The tree v when the tokens up to pos were there too.
Made(v, pos) == IF pos = 0 THEN Fail ELSE Got(v, pos)

\* Parsing goes on with what r found, unless that is an error (the ? of Rust).
Then(r, Rest(_)) == IF r.pos = 0 THEN Fail ELSE Rest(r)

\* Mutant: operators of one level group to the right.
NextPrec_Right(op) == Precedence(op)
\* An operand on the right takes only operators that bind tighter.
NextPrec(op) == Precedence(op) + 1

RECURSIVE ParseExprPrec(_, _, _), Climb(_, _, _), ParseUnary(_, _)

ParseExpression(ts, i) == IF i = 0 THEN Fail ELSE ParseExprPrec(ts, i, 0)

ParsePrimary(ts, i) ==
  LET t == Tok(ts, i)
  IN CASE t[1] = "int" -> Got(StInt(t[2]), i + 1)
       [] t[1] = "real" -> Got(StReal(t[2]), i + 1)
       [] t[1] = "id" /\ t[2] \in {"TRUE", "FALSE"} -> Got(StBool(t[2] = "TRUE"), i + 1)
       [] t[1] = "id" /\ ~(t[2] \in {"TRUE", "FALSE"}) ->
            (CASE Tok(ts, i + 1) = Kw("[") ->
                    Then(ParseExpression(ts, i + 2), LAMBDA e :
                      Made(StIndex(t[2], e.v), After(ts, e.pos, Kw("]"))))
               [] Tok(ts, i + 1) = Kw(".") ->
                    IF Tok(ts, i + 2)[1] = "id" THEN Got(StField(t[2], Tok(ts, i + 2)[2]), i + 3) ELSE Fail
               [] OTHER -> Got(StVar(t[2]), i + 1))
       [] t = Kw("(") ->
            Then(ParseExpression(ts, i + 1), LAMBDA e : Made(e.v, After(ts, e.pos, Kw(")"))))
       [] OTHER -> Fail

ParseUnary(ts, i) ==
  IF Tok(ts, i) \in {Kw("-"), Kw("NOT")}
  THEN Then(ParseUnary(ts, i + 1), LAMBDA e : Got(StUn(Tok(ts, i)[2], e.v), e.pos))
  ELSE ParsePrimary(ts, i)

\* The loop of parse_expr_prec, with what has been parsed on the left.
Climb(ts, left, min_prec) ==
  IF left.pos = 0 \/ ~IsOp(ts, left.pos) THEN left
  ELSE LET op == Tok(ts, left.pos)[2]
       IN IF Precedence(op) < min_prec THEN left
          ELSE Then(ParseExprPrec(ts, left.pos + 1, NextPrec(op)), LAMBDA right :
                 Climb(ts, Got(StBin(left.v, op, right.v), right.pos), min_prec))

ParseExprPrec(ts, i, min_prec) == Climb(ts, ParseUnary(ts, i), min_prec)

-----------------------------------------------------------------------------
(* Statements *)

RECURSIVE ParseStatement(_, _), ParseBlock(_, _, _), ParseArgs(_, _), ParseValues(_, _), ParseCases(_, _)

\* Statements up to a token that satisfies one of the stops.
ParseBlock(ts, i, stops) ==
  IF i = 0 THEN Fail
  ELSE IF Tok(ts, i) \in stops \/ (Tok(ts, i)[1] = "int" /\ Kw("END_CASE") \in stops) THEN Got(<<>>, i)
  ELSE Then(ParseStatement(ts, i), LAMBDA s :
       Then(ParseBlock(ts, s.pos, stops), LAMBDA rest : Got(<<s.v>> \o rest.v, rest.pos)))

ParseElse(ts, i, end) ==
  IF Tok(ts, i) = Kw("ELSE") THEN ParseBlock(ts, i + 1, {end}) ELSE Got(<<>>, i)

\* The end keyword and its semicolon.
Closed(ts, i, end) == After(ts, After(ts, i, end), Kw(";"))

ParseIf(ts, i) ==
  Then(ParseExpression(ts, i + 1), LAMBDA cond :
  Then(ParseBlock(ts, After(ts, cond.pos, Kw("THEN")), {Kw("ELSE"), Kw("END_IF")}), LAMBDA then :
  Then(ParseElse(ts, then.pos, Kw("END_IF")), LAMBDA else :
    Made(If(cond.v, then.v, else.v), Closed(ts, else.pos, Kw("END_IF"))))))

ParseWhile(ts, i) ==
  Then(ParseExpression(ts, i + 1), LAMBDA cond :
  Then(ParseBlock(ts, After(ts, cond.pos, Kw("DO")), {Kw("END_WHILE")}), LAMBDA body :
    Made(While(cond.v, body.v), Closed(ts, body.pos, Kw("END_WHILE")))))

ParseFor(ts, i) ==
  IF Tok(ts, i + 1)[1] # "id" THEN Fail
  ELSE Then(ParseExpression(ts, After(ts, i + 2, Kw(":="))), LAMBDA from :
       Then(ParseExpression(ts, After(ts, from.pos, Kw("TO"))), LAMBDA to :
       Then(IF Tok(ts, to.pos) = Kw("BY") THEN ParseExpression(ts, to.pos + 1) ELSE Got(StInt(1), to.pos), LAMBDA by :
       Then(ParseBlock(ts, After(ts, by.pos, Kw("DO")), {Kw("END_FOR")}), LAMBDA body :
         Made(For(Tok(ts, i + 1)[2], from.v, to.v, by.v, body.v), Closed(ts, body.pos, Kw("END_FOR")))))))

ParseValues(ts, i) ==
  IF Tok(ts, i)[1] # "int" THEN Fail
  ELSE CASE Tok(ts, i + 1) = Kw(":") -> Got(<<Tok(ts, i)[2]>>, i + 2)
         [] Tok(ts, i + 1) = Kw(",") -> Then(ParseValues(ts, i + 2), LAMBDA rest :
                                          Got(<<Tok(ts, i)[2]>> \o rest.v, rest.pos))
         [] OTHER -> Fail

ParseCases(ts, i) ==
  IF i = 0 \/ Tok(ts, i) \in {Kw("ELSE"), Kw("END_CASE")} THEN Got(<<>>, i)
  ELSE Then(ParseValues(ts, i), LAMBDA values :
       Then(ParseBlock(ts, values.pos, {Kw("ELSE"), Kw("END_CASE")}), LAMBDA body :
       Then(ParseCases(ts, body.pos), LAMBDA rest :
         Got(<<[values |-> values.v, body |-> body.v]>> \o rest.v, rest.pos))))

ParseCase(ts, i) ==
  IF Tok(ts, i + 1)[1] # "id" THEN Fail
  ELSE Then(ParseCases(ts, After(ts, i + 2, Kw("OF"))), LAMBDA cases :
       Then(ParseElse(ts, cases.pos, Kw("END_CASE")), LAMBDA else :
         Made(Case(Tok(ts, i + 1)[2], cases.v, else.v), Closed(ts, else.pos, Kw("END_CASE")))))

ParseRepeat(ts, i) ==
  Then(ParseBlock(ts, i + 1, {Kw("UNTIL")}), LAMBDA body :
  Then(ParseExpression(ts, After(ts, body.pos, Kw("UNTIL"))), LAMBDA cond :
    Made(Repeat(body.v, cond.v), Closed(ts, cond.pos, Kw("END_REPEAT")))))

ParseArgs(ts, i) ==
  Then(ParseExpression(ts, i), LAMBDA e :
    IF Tok(ts, e.pos) # Kw(",") THEN Got(<<e.v>>, e.pos)
    ELSE Then(ParseArgs(ts, e.pos + 1), LAMBDA rest : Got(<<e.v>> \o rest.v, rest.pos)))

ParseIdentStmt(ts, i) ==
  LET v == Tok(ts, i)[2]
      value(j) == ParseExpression(ts, After(ts, j, Kw(":=")))
  IN IF Tok(ts, i)[1] # "id" THEN Fail
     ELSE CASE Tok(ts, i + 1) = Kw("[") ->
                 Then(ParseExpression(ts, i + 2), LAMBDA index :
                 Then(value(After(ts, index.pos, Kw("]"))), LAMBDA e :
                   Made(ArrayAssign(v, index.v, e.v), After(ts, e.pos, Kw(";")))))
            [] Tok(ts, i + 1) = Kw(":=") ->
                 Then(value(i + 1), LAMBDA e : Made(Assign(v, e.v), After(ts, e.pos, Kw(";"))))
            [] Tok(ts, i + 1) = Kw("(") ->
                 Then(IF Tok(ts, i + 2) = Kw(")") THEN Got(<<>>, i + 2) ELSE ParseArgs(ts, i + 2), LAMBDA args :
                   Made(FunCall(v, args.v), Closed(ts, args.pos, Kw(")"))))
            [] OTHER -> Fail

ParseStatement(ts, i) ==
  LET t == Tok(ts, i)
  IN CASE t = Kw("IF") -> ParseIf(ts, i)
       [] t = Kw("WHILE") -> ParseWhile(ts, i)
       [] t = Kw("FOR") -> ParseFor(ts, i)
       [] t = Kw("CASE") -> ParseCase(ts, i)
       [] t = Kw("REPEAT") -> ParseRepeat(ts, i)
       [] t = Kw("RETURN") -> Made(Return, After(ts, i + 1, Kw(";")))
       [] t = Kw("EXIT") -> Made(Exit, After(ts, i + 1, Kw(";")))
       [] OTHER -> ParseIdentStmt(ts, i)

-----------------------------------------------------------------------------
(* Programs *)

RECURSIVE ParseVars(_, _, _), ParseFunctionVars(_, _), ParseBody(_, _), ParseVarType(_, _)

Closing(ts, i) == After(ts, After(ts, i, Kw("]")), Kw("OF"))

\* The position after a type: of an array or a string more than one token.
ParseVarType(ts, i) ==
  LET t == Tok(ts, i)
  IN CASE i = 0 -> Fail
       [] i # 0 /\ t = Kw("ARRAY") ->
            Then(ParseExpression(ts, After(ts, i + 1, Kw("["))), LAMBDA lo :
            Then(ParseExpression(ts, After(ts, lo.pos, Kw(".."))), LAMBDA hi :
            Then(ParseVarType(ts, Closing(ts, hi.pos)), LAMBDA element : Got("ARRAY", element.pos))))
       [] i # 0 /\ t = Kw("STRING") ->
            IF Tok(ts, i + 1) # Kw("(") THEN Got("STRING", i + 1)
            ELSE Made("STRING", IF Tok(ts, i + 2)[1] = "int" THEN After(ts, i + 3, Kw(")")) ELSE 0)
       [] i # 0 /\ t[1] = "kw" /\ t[2] \in VarTypes -> Got(t[2], i + 1)
       [] OTHER -> Fail

\* Declarations up to END_VAR; a name declared twice is an error.
ParseVars(ts, i, seen) ==
  IF Tok(ts, i) = Kw("END_VAR") THEN Got(<<>>, i + 1)
  ELSE LET name == Tok(ts, i)[2]
       IN IF Tok(ts, i)[1] # "id" THEN Fail
          ELSE Then(ParseVarType(ts, After(ts, i + 1, Kw(":"))), LAMBDA type :
               IF After(ts, type.pos, Kw(";")) = 0 \/ name \in seen THEN Fail
               ELSE Then(ParseVars(ts, type.pos + 1, seen \cup {name}), LAMBDA rest :
                      Got(<<[name |-> name, type |-> type.v]>> \o rest.v, rest.pos)))

\* parse_var_block: the semicolon after END_VAR may be left out.
ParseVarBlock(ts, i) ==
  Then(ParseVars(ts, i + 1, {}), LAMBDA block :
    Got(block.v, IF Tok(ts, block.pos) = Kw(";") THEN block.pos + 1 ELSE block.pos))

\* The declarations of a function: a parameter block needs its semicolon.
ParseFunctionVars(ts, i) ==
  CASE Tok(ts, i) \in {Kw("VAR_INPUT"), Kw("VAR_OUTPUT"), Kw("VAR_IN_OUT")} ->
         ParseFunctionVars(ts, After(ts, ParseVars(ts, i + 1, {}).pos, Kw(";")))
    [] Tok(ts, i) = Kw("VAR") -> ParseFunctionVars(ts, ParseVarBlock(ts, i).pos)
    [] OTHER -> Got(<<>>, i)

ParseFunctionDef(ts, i) ==
  IF Tok(ts, i + 1)[1] # "id" THEN Fail
  ELSE Then(ParseVarType(ts, After(ts, i + 2, Kw(":"))), LAMBDA type :
       Then(ParseFunctionVars(ts, After(ts, type.pos, Kw(";"))), LAMBDA locals :
       Then(ParseBlock(ts, locals.pos, {Kw("END_FUNCTION")}), LAMBDA body :
         Made([name |-> Tok(ts, i + 1)[2], body |-> body.v], Closed(ts, body.pos, Kw("END_FUNCTION"))))))

\* Statements and functions, in any order, up to END_PROGRAM.
ParseBody(ts, i) ==
  IF Tok(ts, i) = Kw("END_PROGRAM") THEN Got([body |-> <<>>, functions |-> <<>>], i + 1)
  ELSE LET function == Tok(ts, i) = Kw("FUNCTION")
       IN Then(IF function THEN ParseFunctionDef(ts, i) ELSE ParseStatement(ts, i), LAMBDA item :
          Then(ParseBody(ts, item.pos), LAMBDA rest :
            Got(IF function THEN [rest.v EXCEPT !.functions = <<item.v>> \o @]
                ELSE [rest.v EXCEPT !.body = <<item.v>> \o @], rest.pos)))

ParseProgram(ts) ==
  IF Tok(ts, 1) # Kw("PROGRAM") \/ Tok(ts, 2)[1] # "id" THEN Fail
  ELSE Then(IF Tok(ts, 3) = Kw("VAR") THEN ParseVarBlock(ts, 3) ELSE Got(<<>>, 3), LAMBDA decl :
       Then(ParseBody(ts, decl.pos), LAMBDA rest :
         Got([decl |-> decl.v, body |-> rest.v.body, functions |-> rest.v.functions], rest.pos)))
=============================================================================

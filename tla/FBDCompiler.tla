---------------------------- MODULE FBDCompiler ----------------------------
(* The function block diagram compiler (crates/audesys-fbd-compiler):        *)
(* BLOCK and wiring statements to blocks, blocks to Instruction List.  A     *)
(* statement is <<"BLOCK", name, kind>>, <<"IN", block, pin, source>>,       *)
(* <<"OUT", target, block, pin>> or <<"PLAIN", target, source>>.             *)
EXTENDS ILCompiler

CONSTANT Alphabetical   \* pins and outputs in the order of a BTreeMap

FbKinds == {"TON", "TOF", "TP", "CTU", "CTD", "CTUD", "SR", "RS", "R_TRIG", "F_TRIG"}

DeclaredBefore(source, i) == {source[j][2] : j \in {j \in 1..i - 1 : source[j][1] = "BLOCK"}}

\* The errors of parse_blocks: an unknown kind, a name used twice, a wire of
\* a block not declared above it, an output with the name of a block; and no
\* block at all.
ParseFails(source) ==
  \/ \A i \in DOMAIN source : source[i][1] # "BLOCK"
  \/ \E i \in DOMAIN source :
       LET s == source[i]
       IN CASE s[1] = "BLOCK" -> ~(s[3] \in FbKinds) \/ s[2] \in DeclaredBefore(source, i)
            [] s[1] = "IN" -> ~(s[2] \in DeclaredBefore(source, i))
            [] s[1] = "OUT" -> s[2] \in DeclaredBefore(source, i) \/ ~(s[3] \in DeclaredBefore(source, i))
            [] OTHER -> FALSE

\* Mutant: the first wire of a pin wins.
WireOf_First(wires, pin) == wires[SelectInSeq(wires, LAMBDA w : w[1] = pin)][2]
WireOf(wires, pin) == wires[SelectLastInSeq(wires, LAMBDA w : w[1] = pin)][2]

\* A map from pins to wires, as the sequence of its pairs in order.
BTree(wires) ==
  LET pins == SelectSeq(Alphabetical, LAMBDA p : \E i \in DOMAIN wires : wires[i][1] = p)
  IN [i \in DOMAIN pins |-> <<pins[i], WireOf(wires, pins[i])>>]

Wires(source, Test(_), Pair(_)) ==
  LET chosen == SelectSeq(source, Test)
  IN BTree([i \in DOMAIN chosen |-> Pair(chosen[i])])

Dot(block, pin) == block \o "." \o pin

BlockLines(source, block) ==
  LET inputs == Wires(source, LAMBDA s : s[1] = "IN" /\ s[2] = block, LAMBDA s : <<s[3], s[4]>>)
  IN FlattenSeq([i \in DOMAIN inputs |->
                   <<Line(<<"LD", inputs[i][2]>>), Line(<<"ST", Dot(block, inputs[i][1])>>)>>])
     \o <<Line(<<"CAL", block>>)>>

\* A plain output belongs to no block and is lost.
OutputLines(source, block) ==
  LET outputs == Wires(source, LAMBDA s : s[1] = "OUT" /\ s[3] = block, LAMBDA s : <<s[2], s[4]>>)
  IN FlattenSeq([i \in DOMAIN outputs |->
                   <<Line(<<"LD", Dot(block, outputs[i][2])>>), Line(<<"ST", outputs[i][1]>>)>>])

\* <<>> stands for Err.
FBDCompile(source) ==
  LET blocks == SelectSeq(source, LAMBDA s : s[1] = "BLOCK")
      all(Lines(_)) == FlattenSeq([i \in DOMAIN blocks |-> Lines(blocks[i][2])])
  IN IF ParseFails(source) THEN <<>>
     ELSE all(LAMBDA b : BlockLines(source, b)) \o all(LAMBDA b : OutputLines(source, b))
=============================================================================

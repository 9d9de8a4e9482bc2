----------------------------- MODULE LDCompiler -----------------------------
(* The ladder diagram compiler (crates/audesys-ld-compiler): lines of a      *)
(* ladder text to networks, networks to Instruction List.  A line is         *)
(* <<keyword, variable>>, a parallel branch has the keywords "|NO", "|NC",   *)
(* "|P" and "|N".                                                           *)
EXTENDS ILCompiler

Contacts == {"NO", "NC"}
Parallels == {"|NO", "|NC"}
EdgeContacts == {"P", "N", "|P", "|N"}
Coils == {"OUT", "SET", "RESET"}

\* A line that is nothing else starts a network.
ParseLine(line) ==
  IF line[1] \in Contacts \cup Parallels \cup EdgeContacts \cup Coils THEN line ELSE <<"NETWORK">>

\* parse_networks: an empty network is dropped.
ParseNetworks(tokens) ==
  LET put(nets, token) ==
        IF token[1] = "NETWORK" THEN Append(nets, <<>>)
        ELSE Append(Front(nets), Append(Last(nets), token))
  IN SelectSeq(FoldLeft(put, << <<>> >>, tokens), LAMBDA net : net # <<>>)

ElementLines(element, first) ==
  LET kind == element[1]
      v == element[2]
  IN CASE kind \in Contacts ->
            <<Line(<<CASE first /\ kind = "NO" -> "LD" [] first /\ kind = "NC" -> "LDN"
                       [] ~first /\ kind = "NO" -> "AND" [] ~first /\ kind = "NC" -> "ANDN", v>>)>>
       [] kind \in Parallels -> <<Line(<<IF kind = "|NO" THEN "OR" ELSE "ORN", v>>)>>
       [] kind \in EdgeContacts ->
            <<Line(<<IF first THEN "LD" ELSE "AND", v>>),
              Line(<<IF kind \in {"P", "|P"} THEN "R_TRIG" ELSE "F_TRIG", v>>)>>
       [] kind \in Coils -> <<Line(<<CASE kind = "OUT" -> "ST" [] kind = "SET" -> "S" [] kind = "RESET" -> "R", v>>)>>

\* Mutant: the flag for the first contact is never cleared.
NotYet_Always(net, i) == TRUE
\* No contact of the series comes before element i.
NotYet(net, i) == \A j \in 1..i - 1 : ~(net[j][1] \in Contacts \cup EdgeContacts)

GenerateIL(networks) ==
  FlattenSeq([n \in DOMAIN networks |->
    FlattenSeq([i \in DOMAIN networks[n] |-> ElementLines(networks[n][i], NotYet(networks[n], i))])])

LDCompile(source) == GenerateIL(ParseNetworks([i \in DOMAIN source |-> ParseLine(source[i])]))
=============================================================================

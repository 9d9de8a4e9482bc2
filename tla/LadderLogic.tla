---------------------------- MODULE LadderLogic ----------------------------
(* Power flow through ladder diagrams (crates/audesys-ld-semantics): a      *)
(* network of contacts from the left rail to an output node, its            *)
(* evaluation along a topological order, coils, and the scan of a list of   *)
(* rungs.                                                                   *)
EXTENDS Integers, Sequences, SequencesExt

CONSTANTS
  Ladders,   \* name -> a sequence of rungs
  LadderIns  \* name -> the variables set from outside between scans

(* A contact is [kind |-> "NO", "NC", "P" or "N", var |-> v]; an edge also  *)
(* has source and target; a network its number of nodes, edges, left and    *)
(* out; a coil is [kind |-> "OUT", "SET", "RESET" or "NEG", var |-> v].     *)
Contact(kind, v) == [kind |-> kind, var |-> v]
Coil(kind, v) == [kind |-> kind, var |-> v]
Edge(source, target, contact) == [source |-> source, target |-> target, contact |-> contact]

Outgoing(network, node) == SelectSeq(network.edges, LAMBDA e : e.source = node)

-----------------------------------------------------------------------------
(* rebuild_topo: nodes are taken from the end of the queue, and queued when *)
(* every edge into them has been followed                                   *)

RECURSIVE TopoFrom(_, _, _)
TopoFrom(network, queue, in_degree) ==
  IF queue = <<>> THEN <<>>
  ELSE LET node == Last(queue)
           visit(acc, e) ==
             LET left == IF acc.deg[e.target] = 0 THEN 0 ELSE acc.deg[e.target] - 1
             IN [deg |-> [acc.deg EXCEPT ![e.target] = left],
                 queue |-> IF left = 0 THEN Append(acc.queue, e.target) ELSE acc.queue]
           next == FoldLeft(visit, [deg |-> in_degree, queue |-> Front(queue)], Outgoing(network, node))
       IN <<node>> \o TopoFrom(network, next.queue, next.deg)

InDegree(network) ==
  [n \in 0..network.nodes - 1 |-> Len(SelectSeq(network.edges, LAMBDA e : e.target = n))]

TopologicalOrder(network) == TopoFrom(network, <<network.left>>, InDegree(network))

-----------------------------------------------------------------------------
(* evaluate_power_flow: acc.power holds the nodes reached so far, acc.prev  *)
(* the EdgeState                                                            *)

GetBool(values, v) == IF v \in DOMAIN values THEN values[v] ELSE FALSE

Passes(contact, snapshot, prev) ==
  LET now == GetBool(snapshot, contact.var)
      before == GetBool(prev, contact.var)
  IN CASE contact.kind = "NO" -> now
       [] contact.kind = "NC" -> ~now
       [] contact.kind = "P" -> ~before /\ now
       [] contact.kind = "N" -> before /\ ~now

\* is_rising and is_falling record the value they have looked at.
Recorded(contact, snapshot, prev) ==
  IF contact.kind \in {"P", "N"} THEN (contact.var :> GetBool(snapshot, contact.var)) @@ prev ELSE prev

FollowEdge(acc, e, snapshot) ==
  [power |-> IF Passes(e.contact, snapshot, acc.prev) THEN acc.power \cup {e.target} ELSE acc.power,
   prev |-> Recorded(e.contact, snapshot, acc.prev)]

EvaluatePowerFlow(network, snapshot, prev) ==
  LET node_step(acc, node) ==
        IF node \in acc.power
        THEN FoldLeft(LAMBDA a, e : FollowEdge(a, e, snapshot), acc, Outgoing(network, node))
        ELSE acc
      end == FoldLeft(node_step, [power |-> {network.left}, prev |-> prev], TopologicalOrder(network))
  IN [power |-> network.out \in end.power, prev |-> end.prev]

\* Mutant: a latch that has no power is reset.
Energized_Unlatched(coil, power, vars) == IF coil.kind = "NEG" THEN ~power ELSE power /\ coil.kind # "RESET"
Energized(coil, power, vars) ==
  CASE coil.kind = "OUT" -> power
    [] coil.kind = "NEG" -> ~power
    [] coil.kind = "SET" -> power \/ GetBool(vars, coil.var)
    [] coil.kind = "RESET" -> ~power /\ GetBool(vars, coil.var)

\* The coils of a rung read the store as it was before the rung.
ApplyCoils(coils, power, vars) ==
  FoldLeft(LAMBDA store, coil : (coil.var :> Energized(coil, power, vars)) @@ store, vars, coils)

\* evaluate_cycle: each rung sees what the rungs above it wrote.  The
\* EdgeState is a new one in every cycle.
EvaluateCycle(rungs, vars) ==
  FoldLeft(LAMBDA acc, rung :
             LET flow == EvaluatePowerFlow(rung.network, acc.vars, acc.prev)
             IN [vars |-> ApplyCoils(rung.coils, flow.power, acc.vars), prev |-> flow.prev],
           [vars |-> vars, prev |-> <<>>], rungs).vars

(* build_serial_network and build_parallel_network *)
SerialNetwork(contacts) ==
  [nodes |-> Len(contacts) + 1, left |-> 0, out |-> Len(contacts),
   edges |-> [i \in DOMAIN contacts |-> Edge(i - 1, i, contacts[i])]]

ParallelNetwork(branches) ==
  LET add(net, branch) ==
        LET n == Len(branch)
            node(i) == IF i = 0 THEN 0 ELSE IF i = n THEN 1 ELSE net.nodes + i - 1
        IN [net EXCEPT !.nodes = @ + (IF n = 0 THEN 0 ELSE n - 1),
                       !.edges = @ \o [i \in 1..n |-> Edge(node(i - 1), node(i), branch[i])]]
  IN FoldLeft(add, [nodes |-> 2, left |-> 0, out |-> 1, edges |-> <<>>], branches)

-----------------------------------------------------------------------------
(* A ladder scanned again and again *)
VARIABLES ladder, memory

ladderVars == <<ladder, memory>>

LadderInit == ladder \in DOMAIN Ladders /\ memory = <<>>

LadderScan(inputs) ==
  /\ memory' = EvaluateCycle(Ladders[ladder], inputs @@ memory)
  /\ UNCHANGED ladder

LadderNext == \E inputs \in LadderIns[ladder] : LadderScan(inputs)

LadderSpec == LadderInit /\ [][LadderNext]_ladderVars

-----------------------------------------------------------------------------
(* What power flow means: a path of closed contacts from the rail.          *)

RECURSIVE Powered(_, _, _)
Powered(network, node, snapshot) ==
  \/ node = network.left
  \/ \E i \in DOMAIN network.edges :
       LET e == network.edges[i]
       IN /\ e.target = node
          /\ Passes(e.contact, snapshot, <<>>)
          /\ Powered(network, e.source, snapshot)

RungMeaning(rung, store) ==
  LET power == Powered(rung.network, rung.network.out, store)
      coils == ToSet(rung.coils)
      turns_on(c) == IF c.kind = "NEG" THEN ~power ELSE power /\ c.kind # "RESET"
      holds(c) == c.kind \in {"SET", "RESET"} /\ ~power
  IN [v \in DOMAIN store \cup {c.var : c \in coils} |->
        IF \A c \in coils : c.var = v => holds(c) THEN GetBool(store, v)
        ELSE \E c \in coils : c.var = v /\ turns_on(c)]

CycleMeaning(rungs, store) == FoldLeft(LAMBDA s, rung : RungMeaning(rung, s), store, rungs)
=============================================================================

------------------------- MODULE VirtualTruth_proofs -------------------------
(* Proofs about VirtualDevices: what a master is told was true while it      *)
(* asked.                                                                    *)
EXTENDS VirtualDevices_proofs

-----------------------------------------------------------------------------
(* The truth on its way *)

\* What was truthful stays so while the call sees more.
LEMMA StillTruthful ==
  ASSUME NEW g, NEW h, \A s \in DOMAIN Published : g[s] \subseteq h[s], NEW r, NEW ws
  PROVE  /\ WordsHeld(g, r, ws) => WordsHeld(h, r, ws)
         /\ ModbusTruthful(g, r, ws) => ModbusTruthful(h, r, ws)
         /\ \A slots : SlotsHeld(g, slots, ws) => SlotsHeld(h, slots, ws)
<1>1. ASSUME NEW i, r.fc \in Reads, IsMapped(r, i) PROVE Readings(g, r, i) \subseteq Readings(h, r, i)
  BY <1>1, MappedSignal DEF Readings
<1>2. WordsHeld(g, r, ws) => WordsHeld(h, r, ws)
  BY <1>1 DEF WordsHeld
<1>3. ModbusTruthful(g, r, ws) => ModbusTruthful(h, r, ws)
  BY <1>2, MappedSignal DEF ModbusTruthful
<1>4. ASSUME NEW slots, SlotsHeld(g, slots, ws) PROVE SlotsHeld(h, slots, ws)
  <2>1. \A a \in DOMAIN Mapped["slots"] : Mapped["slots"][a] \in DOMAIN Published
    BY SignalsAssumption DEF Tables
  <2> QED BY <1>4, <2>1 DEF SlotsHeld
<1> QED BY Zenon, <1>2, <1>3, <1>4

\* Nothing is true of no words but what must be.
LEMMA NoWords ==
  ASSUME NEW h, NEW r
  PROVE  WordsHeld(h, r, <<>>) /\ SlotsHeld(h, r, <<>>)
BY EmptySeq DEF WordsHeld, SlotsHeld

\* A call that goes on: it is the same, and has seen what it had seen.
GoesOn(m) ==
  /\ qpc'[m] = qpc[m] /\ call'[m] = call[m]
  /\ \A s \in DOMAIN Published : held[m][s] \subseteq held'[m][s]

\* A listener goes on with its request.
SameFrame(l) == lpc[l] = "handle" /\ frame'[l] = frame[l]

\* What a step puts on its way is truthful to a call that goes on when what
\* it adds is.
LEMMA TruthGoesOn ==
  ASSUME NEW m \in Masters, TruthOnItsWay(m), GoesOn(m),
         \A r \in Queued' : r \in Queued \/ r.tid # call[m].tid,
         \A l \in Listeners : lpc'[l] = "handle" =>
           \/ frame'[l] \in Queued /\ words'[l] = <<>>
           \/ SameFrame(l) /\ words'[l] = words[l]
           \/ SameFrame(l) /\ (qpc[m] = "sent" /\ WordsHeld(held'[m], frame[l], words[l]) =>
                                 WordsHeld(held'[m], frame[l], words'[l])),
         \A a \in Given' :
           \/ a \in Given
           \/ qpc[m] = "sent" /\ a.tid = call[m].tid /\ a.exc = 0 =>
                ModbusTruthful(held'[m], call[m], a.words)
  PROVE  TruthOnItsWay(m)'
<1> SUFFICES ASSUME qpc[m] = "sent"
             PROVE  /\ \A r \in Queued' : r.tid = call[m].tid => r = call[m]
                    /\ \A l \in Listeners : lpc'[l] = "handle" /\ frame'[l].tid = call[m].tid =>
                         frame'[l] = call[m] /\ WordsHeld(held'[m], call[m], words'[l])
                    /\ \A a \in Given' : a.tid = call[m].tid /\ a.exc = 0 =>
                         ModbusTruthful(held'[m], call[m], a.words)
  BY Zenon DEF TruthOnItsWay, GoesOn
<1>1. /\ \A r \in Queued : r.tid = call[m].tid => r = call[m]
      /\ \A l \in Listeners : lpc[l] = "handle" /\ frame[l].tid = call[m].tid =>
           frame[l] = call[m] /\ WordsHeld(held[m], call[m], words[l])
      /\ \A a \in Given : a.tid = call[m].tid /\ a.exc = 0 => ModbusTruthful(held[m], call[m], a.words)
  BY Zenon DEF TruthOnItsWay
<1>2. \A ws : /\ WordsHeld(held[m], call[m], ws) => WordsHeld(held'[m], call[m], ws)
              /\ ModbusTruthful(held[m], call[m], ws) => ModbusTruthful(held'[m], call[m], ws)
  BY Zenon, StillTruthful DEF GoesOn
<1>3. ASSUME NEW l \in Listeners, lpc'[l] = "handle", frame'[l].tid = call[m].tid
      PROVE  frame'[l] = call[m] /\ WordsHeld(held'[m], call[m], words'[l])
  <2>1. CASE frame'[l] \in Queued /\ words'[l] = <<>>
    BY Zenon, <1>1, <1>3, <2>1, NoWords
  <2>2. CASE SameFrame(l) /\ ~(frame'[l] \in Queued /\ words'[l] = <<>>)
    <3>1. frame[l] = call[m] /\ WordsHeld(held'[m], call[m], words[l])
      BY Zenon, <1>1, <1>2, <1>3, <2>2 DEF SameFrame
    <3>2. words'[l] = words[l] \/ WordsHeld(held'[m], frame[l], words'[l])
      BY Zenon, <1>3, <2>2, <3>1
    <3> QED BY Zenon, <2>2, <3>1, <3>2 DEF SameFrame
  <2> QED BY Zenon, <1>3, <2>1, <2>2
<1> QED BY Zenon, <1>1, <1>2, <1>3

\* Nothing new is on its way.
Steady ==
  /\ Queued' \subseteq Queued /\ Given' \subseteq Given
  /\ \A l \in Listeners : lpc'[l] = "handle" => SameFrame(l) /\ words'[l] = words[l]

\* A call that goes on while nothing new is on its way.
LEMMA TruthSteady ==
  ASSUME NEW m \in Masters, TruthOnItsWay(m), GoesOn(m), Steady PROVE TruthOnItsWay(m)'
BY Zenon, TruthGoesOn DEF Steady

\* A call that goes on has seen what the signals hold.
LEMMA SeenGoesOn ==
  ASSUME NEW m \in Masters, SeenByMaster(m), GoesOn(m), words'[m] = words[m],
         qpc[m] # "idle" => \A s \in DOMAIN Published : plant'[s] \in held'[m][s]
  PROVE  SeenByMaster(m)'
<1>1. SlotsHeld(held[m], SlotsOf(call[m].cmd), words[m]) => SlotsHeld(held'[m], SlotsOf(call[m].cmd), words[m])
  BY Zenon, StillTruthful DEF GoesOn
<1> QED BY <1>1 DEF SeenByMaster, GoesOn

\* A master that is left alone, while no signal changes.
LEMMA LeftAlone ==
  ASSUME NEW m \in Masters, SeenByMaster(m), qpc'[m] = qpc[m], call'[m] = call[m],
         held'[m] = held[m], words'[m] = words[m], plant' = plant
  PROVE  GoesOn(m) /\ SeenByMaster(m)'
BY DEF GoesOn, SeenByMaster

\* A master without a call.
LEMMA Idle ==
  ASSUME NEW m \in Masters, qpc'[m] = "idle" PROVE TruthOnItsWay(m)' /\ SeenByMaster(m)'
BY DEF TruthOnItsWay, SeenByMaster

\* What is on its way is typed.
LEMMA OnItsWayTyped ==
  ASSUME Shape PROVE Queued \subseteq ModbusRequests /\ Given \subseteq ModbusAnswers
<1>1. ASSUME NEW S, NEW ss \in Seq(Seq(S)), NEW x \in AllOf(ss) PROVE x \in S
  <2>1. PICK k \in DOMAIN ss : x \in Range(ss[k])
    BY <1>1 DEF AllOf
  <2>2. ss[k] \in Seq(S)
    BY <1>1, <2>1, LenProperties, ElementOfSeq
  <2>3. PICK i \in DOMAIN ss[k] : x = ss[k][i]
    BY <2>1 DEF Range
  <2> QED BY <2>2, <2>3, LenProperties, ElementOfSeq
<1>2. requests \in Seq(Seq(ModbusRequests)) /\ answers \in Seq(Seq(ModbusAnswers))
  BY DEF Shape, VirtualTypeOK
<1>3. Queued \subseteq ModbusRequests
  BY <1>1, <1>2 DEF Queued
<1>4. Given \subseteq ModbusAnswers
  BY <1>1, <1>2 DEF Given
<1> QED BY <1>3, <1>4

\* The steps that put nothing new on its way.
LEMMA SteadySteps ==
  ASSUME Shape, Shape',
         \/ ProgramPublishes \/ Start \/ Stop
         \/ \E l \in Listeners :
              Bind(l) \/ Accept(l) \/ ServeHead(l) \/ Silence(l) \/ ReadPanics(l)
         \/ \E m \in Masters :
              \/ Connect(m) \/ Disconnect(m) \/ Answered(m) \/ CallFails(m)
              \/ HartCommand(m) \/ ReadSlot(m) \/ HartAnswers(m)
  PROVE  Steady
<1>a. lpc \in [Listeners -> OpenLabels \cup {"unborn", "bind", "ended"}]
      /\ words \in [Listeners \cup Masters -> Seq(Int)]
      /\ requests \in Seq(Seq(ModbusRequests)) /\ answers \in Seq(Seq(ModbusAnswers))
  BY Zenon DEF Shape, VirtualTypeOK
<1>b. ASSUME Queued' \subseteq Queued, Given' \subseteq Given,
             UNCHANGED <<frame, words>>,
             \/ UNCHANGED lpc
             \/ \E l : \/ lpc' = [lpc EXCEPT ![l] = "bind"] \/ lpc' = [lpc EXCEPT ![l] = "accept"]
                       \/ lpc' = [lpc EXCEPT ![l] = "serve"] \/ lpc' = [lpc EXCEPT ![l] = "header"]
                       \/ lpc' = [lpc EXCEPT ![l] = "ended"]
      PROVE  Steady
  BY <1>a, <1>b DEF Steady, SameFrame
<1>c. UNCHANGED requests => Queued' \subseteq Queued
  BY DEF Queued
<1>d. UNCHANGED answers => Given' \subseteq Given
  BY DEF Given
<1>1. CASE ProgramPublishes \/ Stop
  BY Zenon, <1>1, <1>b, <1>c, <1>d DEF ProgramPublishes, Stop, listenerVars, socketVars
<1>2. CASE Start
  <2>1. \E l : lpc' = [lpc EXCEPT ![l] = "bind"]
    BY Zenon, <1>2 DEF Start, Wait
  <2>2. UNCHANGED <<frame, words, requests, answers>>
    BY <1>2 DEF Start, socketVars
  <2> QED BY Zenon, <1>b, <1>c, <1>d, <2>1, <2>2
<1>3. ASSUME NEW l \in Listeners,
             Bind(l) \/ Accept(l) \/ ServeHead(l) \/ Silence(l) \/ ReadPanics(l)
      PROVE  Steady
  <2>1. /\ UNCHANGED <<frame, words, requests, answers>>
        /\ \/ lpc' = [lpc EXCEPT ![l] = "accept"]
           \/ lpc' = [lpc EXCEPT ![l] = "serve"] \/ lpc' = [lpc EXCEPT ![l] = "header"]
           \/ lpc' = [lpc EXCEPT ![l] = "ended"]
    <3>1. CASE Bind(l)
      BY <3>1 DEF Bind, Wait, socketVars
    <3>2. CASE Accept(l)
      BY <3>2 DEF Accept, Close, Wait
    <3>3. CASE ServeHead(l)
      BY <3>3 DEF ServeHead, HangUp, Wait
    <3>4. CASE Silence(l)
      BY Zenon, <3>4 DEF Silence, HangUp, Wait
    <3>5. CASE ReadPanics(l)
      BY <3>5 DEF ReadPanics, Close, Wait
    <3> QED BY Zenon, <1>3, <3>1, <3>2, <3>3, <3>4, <3>5
  <2> QED BY <1>b, <1>c, <1>d, <2>1
<1>4. ASSUME NEW m \in Masters, Connect(m) PROVE Steady
  <2>1. requests' = Append(requests, <<>>) /\ answers' = Append(answers, <<>>)
        /\ UNCHANGED <<lpc, frame, words>>
    BY <1>4 DEF Connect, listenerVars
  <2>2. AllOf(Append(requests, <<>>)) \subseteq AllOf(requests)
    BY <1>a, Opened
  <2>3. AllOf(Append(answers, <<>>)) \subseteq AllOf(answers)
    BY <1>a, Opened
  <2>4. Queued' \subseteq Queued /\ Given' \subseteq Given
    BY <2>1, <2>2, <2>3 DEF Queued, Given
  <2> QED BY <1>b, <2>1, <2>4
<1>5. ASSUME NEW m \in Masters, Disconnect(m) \/ CallFails(m) \/ HartCommand(m) PROVE Steady
  <2>1. UNCHANGED <<requests, answers, lpc, frame, words>>
    BY Zenon, <1>5 DEF Disconnect, CallFails, HartCommand, listenerVars, socketVars
  <2> QED BY <1>b, <1>c, <1>d, <2>1
<1>6. ASSUME NEW m \in Masters, Answered(m) PROVE Steady
  <2>1. /\ answers[socket[m]] # <<>> /\ answers' = [answers EXCEPT ![socket[m]] = Tail(@)]
        /\ UNCHANGED <<requests, lpc, frame, words>> /\ socket[m] \in 1..Len(answers)
    BY Zenon, <1>6 DEF Answered, listenerVars, Shape, ConnectionsMade, InHand, Connections
  <2>2. AllOf([answers EXCEPT ![socket[m]] = Tail(@)]) \subseteq AllOf(answers)
    BY Zenon, <1>a, <2>1, Taken
  <2>3. Given' \subseteq Given
    BY Zenon, <2>1, <2>2 DEF Given
  <2> QED BY <1>b, <1>c, <2>1, <2>3
<1>7. ASSUME NEW m \in Masters, ReadSlot(m) \/ HartAnswers(m) PROVE Steady
  <2>1. /\ UNCHANGED <<requests, answers, lpc, frame>>
        /\ \/ \E v : words' = [words EXCEPT ![m] = Append(@, v)]
           \/ words' = [words EXCEPT ![m] = <<>>]
    BY Zenon, <1>7 DEF ReadSlot, HartAnswers, socketVars
  <2>2. \A l \in Listeners : l # m
    BY VirtualAssumption DEF Listeners
  <2>3. \A l \in Listeners : words'[l] = words[l]
    BY <1>a, <2>1, <2>2
  <2> QED BY Zenon, <1>c, <1>d, <2>1, <2>3 DEF Steady, SameFrame
<1> QED BY Zenon, <1>1, <1>2, <1>3, <1>4, <1>5, <1>6, <1>7

\* Whatever is on its way keeps an old transaction number.
LEMMA TidsKept ==
  ASSUME Shape, TidsUsed, queries' \in Nat, queries <= queries', Queued' \subseteq Queued,
         \A l \in Listeners : lpc'[l] = "handle" => frame'[l] \in Queued \/ SameFrame(l),
         \A a \in Given' : a \in Given \/ \E l \in Listeners : lpc[l] = "handle" /\ a.tid = frame[l].tid,
         \A m \in Masters : qpc'[m] = "sent" => qpc[m] = "sent" /\ call'[m] = call[m]
  PROVE  TidsUsed'
<1>1. \A r \in Queued \cup Given : r.tid \in Int
  BY Zenon, OnItsWayTyped DEF ModbusRequests, ModbusAnswers
<1>2. queries \in Nat
      /\ (\A l \in Listeners : lpc[l] = "handle" => frame[l].tid \in Int)
      /\ (\A m \in Masters : qpc[m] = "sent" => call[m].tid \in Int)
  BY Zenon DEF Shape, VirtualTypeOK, InHand, ModbusRequests
<1>3. \A r \in Queued' : r.tid < queries'
  BY <1>1, <1>2 DEF TidsUsed
<1>4. ASSUME NEW a \in Given' PROVE a.tid < queries'
  <2>1. CASE a \in Given
    BY <1>1, <1>2, <2>1 DEF TidsUsed
  <2>2. CASE \E l \in Listeners : lpc[l] = "handle" /\ a.tid = frame[l].tid
    BY <1>2, <2>2 DEF TidsUsed
  <2> QED BY Zenon, <2>1, <2>2
<1>5. ASSUME NEW l \in Listeners, lpc'[l] = "handle" PROVE frame'[l].tid < queries'
  BY <1>1, <1>2, <1>5 DEF TidsUsed, SameFrame
<1>6. ASSUME NEW m \in Masters, qpc'[m] = "sent" PROVE call'[m].tid < queries'
  BY <1>2, <1>6 DEF TidsUsed
<1> QED BY Zenon, <1>3, <1>4, <1>5, <1>6 DEF TidsUsed

Truth == TidsUsed /\ \A m \in Masters : TruthOnItsWay(m) /\ SeenByMaster(m)

\* The steps of the program, of start() and stop(), and of listeners and
\* masters that put nothing new on its way.
LEMMA TruthProgram ==
  ASSUME Shape, Shape', Truth, ProgramPublishes PROVE Truth'
<1>1. PICK s \in DOMAIN Published : \E v \in Published[s] : Publishes(s, v)
  BY DEF ProgramPublishes
<1>2. PICK v \in HalValues : Publishes(s, v)
  BY <1>1, SignalsAssumption
<1>3. /\ \A m \in Masters : \A t \in DOMAIN Published : held[m][t] \subseteq held'[m][t]
      /\ \A m \in Masters : qpc[m] # "idle" =>
           ((\A t \in DOMAIN Published : plant[t] \in held[m][t]) =>
              \A t \in DOMAIN Published : plant'[t] \in held'[m][t])
  BY <1>2, SeenByAll DEF Shape
<1>4. UNCHANGED <<qpc, call, words, queries>> /\ queries \in Nat
  BY Zenon DEF ProgramPublishes, masterVars, listenerVars, Shape, VirtualTypeOK
<1>5. Steady
  BY Zenon, SteadySteps
<1>6. TidsUsed'
  BY <1>4, <1>5, TidsKept DEF Truth, Steady
<1>7. ASSUME NEW m \in Masters PROVE TruthOnItsWay(m)' /\ SeenByMaster(m)'
  <2>1. GoesOn(m)
    BY Zenon, <1>3, <1>4 DEF GoesOn
  <2>2. TruthOnItsWay(m)'
    BY <1>5, <2>1, TruthSteady DEF Truth
  <2>3. qpc[m] # "idle" => \A t \in DOMAIN Published : plant'[t] \in held'[m][t]
    BY Zenon, <1>3 DEF Truth, SeenByMaster
  <2>4. SeenByMaster(m)'
    BY <1>4, <2>1, <2>3, SeenGoesOn DEF Truth
  <2> QED BY <2>2, <2>4
<1> QED BY <1>6, <1>7 DEF Truth

\* The listeners and the masters that do not touch the calls.
LEMMA TruthAside ==
  ASSUME Shape, Shape', Truth,
         \/ Start \/ Stop
         \/ \E l \in Listeners :
              Bind(l) \/ Accept(l) \/ ServeHead(l) \/ Silence(l) \/ ReadPanics(l)
         \/ \E m \in Masters : Connect(m) \/ Disconnect(m)
  PROVE  Truth'
<1>1. UNCHANGED <<qpc, call, words, queries, plant, held>>
  <2>1. CASE Start \/ Stop
    BY <2>1 DEF Start, Stop, masterVars
  <2>2. ASSUME NEW l \in Listeners,
               Bind(l) \/ Accept(l) \/ ServeHead(l) \/ Silence(l) \/ ReadPanics(l)
        PROVE  UNCHANGED <<qpc, call, words, queries, plant, held>>
    <3>1. CASE Bind(l) \/ Accept(l)
      BY <3>1 DEF Bind, Accept, masterVars
    <3>2. CASE ServeHead(l) \/ Silence(l) \/ ReadPanics(l)
      BY Zenon, <3>2 DEF ServeHead, Silence, ReadPanics, masterVars
    <3> QED BY Zenon, <2>2, <3>1, <3>2
  <2>3. ASSUME NEW m \in Masters, Connect(m) \/ Disconnect(m)
        PROVE  UNCHANGED <<qpc, call, words, queries, plant, held>>
    BY Zenon, <2>3 DEF Connect, Disconnect, listenerVars
  <2> QED BY Zenon, <2>1, <2>2, <2>3
<1>2. Steady /\ queries \in Nat
  BY Zenon, SteadySteps DEF Shape, VirtualTypeOK
<1>3. TidsUsed'
  BY <1>1, <1>2, TidsKept DEF Truth, Steady
<1>4. ASSUME NEW m \in Masters PROVE TruthOnItsWay(m)' /\ SeenByMaster(m)'
  <2>1. GoesOn(m) /\ SeenByMaster(m)'
    BY Zenon, <1>1, LeftAlone DEF Truth
  <2> QED BY <1>2, <2>1, TruthSteady DEF Truth
<1> QED BY <1>3, <1>4 DEF Truth

\* Calls that return, and HART commands.
LEMMA TruthMasters ==
  ASSUME Shape, Shape', Truth, NEW n \in Masters,
         Answered(n) \/ CallFails(n) \/ HartCommand(n) \/ ReadSlot(n) \/ HartAnswers(n)
  PROVE  Truth'
<1>1. Steady /\ queries \in Nat
  BY Zenon, SteadySteps DEF Shape, VirtualTypeOK
<1>2. \A m \in Masters \ {n} : qpc'[m] = qpc[m] /\ call'[m] = call[m] /\ held'[m] = held[m]
                               /\ words'[m] = words[m]
  <2>1. qpc \in [Masters -> {"idle", "sent", "slots"}] /\ words \in [Listeners \cup Masters -> Seq(Int)]
    BY Zenon DEF Shape, VirtualTypeOK
  <2>2. CASE Answered(n) \/ CallFails(n)
    BY Zenon, <2>2, Returned DEF Answered, CallFails, listenerVars
  <2>3. CASE HartCommand(n)
    <3>1. PICK cmd \in 0..4 : Asks(n, [cmd |-> cmd])
      BY <2>3 DEF HartCommand
    <3>2. [cmd |-> cmd] \in HartCommands
      BY <3>1 DEF HartCommands
    <3>3. \A m \in Masters \ {n} : call'[m] = call[m] /\ held'[m] = held[m]
      BY Zenon, <3>1, <3>2, Asked
    <3> QED BY Zenon, <2>1, <2>3, <3>3 DEF HartCommand, listenerVars
  <2>4. CASE ReadSlot(n) \/ HartAnswers(n)
    <3>1. /\ UNCHANGED <<qpc, call, held>> \/ Returns(n)
          /\ (\E v : words' = [words EXCEPT ![n] = Append(@, v)]) \/ words' = [words EXCEPT ![n] = <<>>]
      BY Zenon, <2>4 DEF ReadSlot, HartAnswers
    <3>2. \A m \in Masters \ {n} : qpc'[m] = qpc[m] /\ call'[m] = call[m] /\ held'[m] = held[m]
      BY <3>1, Returned
    <3> QED BY <2>1, <3>1, <3>2
  <2> QED BY Zenon, <2>2, <2>3, <2>4
<1>3. plant' = plant
  <2>1. CASE Answered(n) \/ CallFails(n) \/ HartCommand(n)
    BY Zenon, <2>1 DEF Answered, CallFails, HartCommand
  <2>2. CASE ReadSlot(n) \/ HartAnswers(n)
    BY Zenon, <2>2 DEF ReadSlot, HartAnswers
  <2> QED BY <2>1, <2>2
<1>4. ASSUME NEW m \in Masters \ {n} PROVE TruthOnItsWay(m)' /\ SeenByMaster(m)'
  <2>1. GoesOn(m) /\ SeenByMaster(m)'
    BY Zenon, <1>2, <1>3, LeftAlone DEF Truth
  <2> QED BY <1>1, <2>1, TruthSteady DEF Truth
<1>5. queries' \in Nat /\ queries <= queries' /\ qpc'[n] # "sent" /\ TruthOnItsWay(n)' /\ SeenByMaster(n)'
  <2>1. CASE Answered(n) \/ CallFails(n) \/ HartAnswers(n)
    <3>1. Returns(n) /\ UNCHANGED queries
      BY Zenon, <2>1 DEF Answered, CallFails, HartAnswers
    <3> QED BY <1>1, <3>1, Returned, Idle
  <2>2. CASE HartCommand(n)
    <3>1. PICK cmd \in 0..4 : Asks(n, [cmd |-> cmd])
      BY <2>2 DEF HartCommand
    <3>2. [cmd |-> cmd] \in HartCommands
      BY <3>1 DEF HartCommands
    <3>3. /\ queries' \in Nat /\ queries' = queries + 1 /\ qpc[n] = "idle"
          /\ \A s \in DOMAIN Published : held'[n][s] = {plant[s]}
      BY Zenon, <3>1, <3>2, Asked
    <3>4. qpc'[n] = "slots" /\ words'[n] = <<>>
      BY Zenon, <2>2, <3>3 DEF HartCommand, listenerVars, Shape, InHand, VirtualTypeOK
    <3>5. SeenByMaster(n)'
      BY Zenon, <1>3, <3>3, <3>4, NoWords DEF SeenByMaster
    <3>6. TruthOnItsWay(n)'
      BY Zenon, <3>4 DEF TruthOnItsWay
    <3> QED BY <1>1, <3>3, <3>4, <3>5, <3>6
  <2>3. CASE ReadSlot(n)
    <3> DEFINE slots == SlotsOf(call[n].cmd)
               slot == slots[Len(words[n]) + 1]  v == AsFloat(plant[Mapped["slots"][slot]])
    <3>1. UNCHANGED queries /\ qpc[n] = "slots"
      BY Zenon, <2>3 DEF ReadSlot
    <3>2. CASE slot \notin DOMAIN Mapped["slots"]
      <4>1. Returns(n)
        BY Zenon, <2>3, <3>2 DEF ReadSlot
      <4> QED BY <1>1, <3>1, <4>1, Returned, Idle
    <3>3. CASE slot \in DOMAIN Mapped["slots"]
      <4>1. words' = [words EXCEPT ![n] = Append(@, v)] /\ UNCHANGED <<qpc, call, held>>
        BY Zenon, <2>3, <3>3 DEF ReadSlot
      <4>2. Mapped["slots"][slot] \in DOMAIN Published
        BY Zenon, <3>3, SignalsAssumption DEF Tables
      <4>3. plant[Mapped["slots"][slot]] \in held[n][Mapped["slots"][slot]]
            /\ SlotsHeld(held[n], slots, words[n])
        BY Zenon, <3>1, <4>2 DEF Truth, SeenByMaster
      <4>4. plant[Mapped["slots"][slot]] \in HalValues \cup {Nobody} /\ words[n] \in Seq(Int)
        BY Zenon, <4>2 DEF Shape, VirtualTypeOK
      <4>5. v \in Int
        BY Zenon, <4>4, ConvertedTyped
      <4>6. v \in {AsFloat(w) : w \in held[n][Mapped["slots"][slot]]}
        BY Zenon, <4>3
      <4> HIDE DEF v, slots
      <4>7. /\ words'[n] = Append(words[n], v) /\ Len(words[n]) \in Nat
            /\ Len(Append(words[n], v)) = Len(words[n]) + 1
            /\ \A i \in 1..Len(words[n]) : Append(words[n], v)[i] = words[n][i]
            /\ Append(words[n], v)[Len(words[n]) + 1] = v
        <5>1. words'[n] = Append(words[n], v)
          BY <4>1 DEF Shape, VirtualTypeOK
        <5> QED BY <4>4, <4>5, <5>1, Grown
      <4>8. SlotsHeld(held[n], slots, words'[n])
        <5> SUFFICES ASSUME NEW i \in 1..Len(words'[n])
                     PROVE  /\ slots[i] \in DOMAIN Mapped["slots"]
                            /\ words'[n][i] \in {AsFloat(w) : w \in held[n][Mapped["slots"][slots[i]]]}
          BY DEF SlotsHeld
        <5>1. CASE i \in 1..Len(words[n])
          BY Zenon, <4>3, <4>7, <5>1 DEF SlotsHeld
        <5>2. CASE i = Len(words[n]) + 1
          BY Zenon, <3>3, <4>6, <4>7, <5>2
        <5>3. Len(words'[n]) = Len(words[n]) + 1 /\ Len(words[n]) \in Nat
          BY <4>7
        <5> QED BY <5>1, <5>2, <5>3
      <4>9. SeenByMaster(n)'
        BY Zenon, <1>3, <3>1, <4>1, <4>8 DEF Truth, SeenByMaster, slots
      <4>10. TruthOnItsWay(n)' /\ qpc'[n] # "sent"
        BY Zenon, <3>1, <4>1 DEF TruthOnItsWay
      <4> QED BY <1>1, <3>1, <4>9, <4>10
    <3> QED BY Zenon, <3>2, <3>3
  <2> QED BY Zenon, <2>1, <2>2, <2>3
<1>6. TidsUsed'
  <2>1. \A m \in Masters : qpc'[m] = "sent" => qpc[m] = "sent" /\ call'[m] = call[m]
    BY Zenon, <1>2, <1>5
  <2> QED BY Zenon, <1>1, <1>5, <2>1, TidsKept DEF Truth, Steady
<1> QED BY <1>4, <1>5, <1>6 DEF Truth

\* A listener takes a request.
LEMMA TruthTakeFrame ==
  ASSUME Shape, Shape', Truth, NEW l \in Listeners, TakeFrame(l) PROVE Truth'
<1> DEFINE r == Head(requests[serving[l]])
<1>1. /\ lpc[l] = "header" /\ requests[serving[l]] # <<>>
      /\ requests' = [requests EXCEPT ![serving[l]] = Tail(@)]
      /\ \/ lpc' = [lpc EXCEPT ![l] = "accept"] /\ UNCHANGED frame
         \/ frame' = [frame EXCEPT ![l] = r] /\ lpc' = [lpc EXCEPT ![l] = "handle"]
      /\ UNCHANGED <<plant, words, answers, masterVars, held>>
  BY DEF TakeFrame, HangUp, Wait
<1>2. /\ serving[l] \in 1..Len(requests) /\ requests \in Seq(Seq(ModbusRequests))
      /\ words[l] = <<>> /\ queries \in Nat
      /\ lpc \in [Listeners -> OpenLabels \cup {"unborn", "bind", "ended"}]
      /\ frame \in [Listeners -> ModbusRequests \cup {Nobody}]
  BY Zenon, <1>1 DEF Shape, ConnectionsMade, InHand, Connections, VirtualTypeOK
<1>3. /\ AllOf([requests EXCEPT ![serving[l]] = Tail(@)]) \subseteq AllOf(requests)
      /\ Head(requests[serving[l]]) \in AllOf(requests)
  BY Zenon, <1>1, <1>2, Taken
<1>4. Queued' \subseteq Queued /\ r \in Queued /\ Given' = Given
  BY Zenon, <1>1, <1>3 DEF Queued, Given
<1> HIDE DEF r
<1>5. \A k \in Listeners : lpc'[k] = "handle" =>
        \/ frame'[k] \in Queued /\ words'[k] = <<>>
        \/ SameFrame(k) /\ words'[k] = words[k]
  BY Zenon, <1>1, <1>2, <1>4 DEF SameFrame
<1>6. TidsUsed'
  BY <1>1, <1>2, <1>4, <1>5, TidsKept DEF Truth, masterVars
<1>7. ASSUME NEW m \in Masters PROVE TruthOnItsWay(m)' /\ SeenByMaster(m)'
  <2>1. GoesOn(m) /\ SeenByMaster(m)'
    BY Zenon, <1>1, LeftAlone DEF Truth, masterVars
  <2> QED BY Zenon, <1>4, <1>5, <2>1, TruthGoesOn DEF Truth
<1> QED BY Zenon, <1>6, <1>7 DEF Truth

\* A listener answers: the answer is truthful to the calls it is one to.
LEMMA TruthAnswer ==
  ASSUME Shape, Truth, NEW l \in Listeners, lpc[l] = "handle",
         NEW exc \in Nat, NEW ws \in Seq(Int), Respond(l, exc, ws),
         UNCHANGED <<requests, masterVars>>,
         \A m \in Masters : GoesOn(m) /\ SeenByMaster(m)',
         \A m \in Masters : exc = 0 /\ qpc[m] = "sent" /\ frame[l] = call[m] =>
                              ModbusTruthful(held'[m], call[m], ws)
  PROVE  Truth'
<1> DEFINE a == [tid |-> frame[l].tid, exc |-> exc, words |-> ws]
<1>1. /\ Given' \subseteq Given \cup {a} /\ lpc'[l] = "serve"
      /\ \A k \in Listeners \ {l} : lpc'[k] = lpc[k] /\ frame'[k] = frame[k]
      /\ \A k \in (Listeners \cup Masters) \ {l} : words'[k] = words[k]
  BY Zenon, Responded
<1>2. a.tid = frame[l].tid /\ a.exc = exc /\ a.words = ws
  BY Zenon
<1> HIDE DEF a
<1>3. Queued' = Queued /\ queries' = queries /\ queries \in Nat
  BY DEF Queued, masterVars, Shape, VirtualTypeOK
<1>4. \A k \in Listeners : lpc'[k] = "handle" => SameFrame(k) /\ words'[k] = words[k]
  BY Zenon, <1>1 DEF SameFrame
<1>5. TidsUsed'
  <2>1. \A b \in Given' : b \in Given \/ \E k \in Listeners : lpc[k] = "handle" /\ b.tid = frame[k].tid
    BY Zenon, <1>1, <1>2
  <2>2. \A m \in Masters : qpc'[m] = "sent" => qpc[m] = "sent" /\ call'[m] = call[m]
    BY Zenon DEF masterVars
  <2> QED BY <1>3, <1>4, <2>1, <2>2, TidsKept DEF Truth
<1>6. ASSUME NEW m \in Masters PROVE TruthOnItsWay(m)'
  <2>1. ASSUME qpc[m] = "sent", a.tid = call[m].tid, a.exc = 0
        PROVE  ModbusTruthful(held'[m], call[m], a.words)
    <3>1. frame[l] = call[m]
      BY Zenon, <1>2, <2>1 DEF Truth, TruthOnItsWay
    <3> QED BY Zenon, <1>2, <2>1, <3>1
  <2> QED BY Zenon, <1>1, <1>3, <1>4, <2>1, TruthGoesOn DEF Truth
<1> QED BY Zenon, <1>5, <1>6 DEF Truth

\* The answers that read no signal and publish nothing.
LEMMA TruthReadEnds ==
  ASSUME Shape, Truth, NEW l \in Listeners, Refuse(l) \/ ReadEnds(l) PROVE Truth'
<1>1. lpc[l] = "handle" /\ words[l] \in Seq(Int) /\ <<>> \in Seq(Int) /\ Refusal(frame[l]) \in Nat
      /\ UNCHANGED <<plant, held, requests, masterVars>>
  BY Zenon, EmptySeq, RefusalTyped DEF Refuse, ReadEnds, Allowed, Shape, VirtualTypeOK
<1>2. \A m \in Masters : m # l
  BY Zenon, VirtualAssumption DEF Listeners
<1>3. words' = [words EXCEPT ![l] = <<>>] /\ words \in [Listeners \cup Masters -> Seq(Int)]
  BY Zenon DEF Refuse, ReadEnds, Respond, Shape, VirtualTypeOK
<1>4. ASSUME NEW m \in Masters PROVE GoesOn(m) /\ SeenByMaster(m)'
  <2>1. words'[m] = words[m]
    BY <1>2, <1>3
  <2> QED BY Zenon, <1>1, <2>1, LeftAlone DEF Truth, masterVars
<1>5. CASE Refuse(l)
  <2>1. Respond(l, Refusal(frame[l]), <<>>) /\ Refusal(frame[l]) # 0
    BY Zenon, <1>5 DEF Refuse
  <2> QED BY Zenon, <1>1, <1>4, <2>1, TruthAnswer
<1>6. CASE ReadEnds(l)
  <2>1. Respond(l, 0, words[l]) /\ frame[l].fc \in Reads /\ Len(words[l]) = frame[l].count
    BY <1>6 DEF ReadEnds, Allowed
  <2>2. ASSUME NEW m \in Masters, qpc[m] = "sent", frame[l] = call[m]
        PROVE  ModbusTruthful(held'[m], call[m], words[l])
    <3>1. WordsHeld(held[m], call[m], words[l])
      BY Zenon, <1>1, <2>2 DEF Truth, TruthOnItsWay
    <3> QED BY Zenon, <1>1, <2>1, <2>2, <3>1 DEF ModbusTruthful
  <2> QED BY Zenon, <1>1, <1>4, <2>1, <2>2, TruthAnswer
<1> QED BY <1>5, <1>6

\* A listener reads one address: the word is what its signal holds now.
LEMMA TruthReadNext ==
  ASSUME Shape, Truth, NEW l \in Listeners, ReadNext(l) PROVE Truth'
<1> DEFINE r == frame[l]  i == Len(words[l])
           v == IF IsMapped(r, i) THEN plant[SignalAt(r, i)] ELSE Nobody
<1>1. /\ lpc[l] = "handle" /\ r.fc \in Reads /\ words[l] \in Seq(Int) /\ <<>> \in Seq(Int)
      /\ IF IsMapped(r, i) \/ r.fc = 2
         THEN words' = [words EXCEPT ![l] = Append(@, Converted(r.fc, v))] /\ UNCHANGED <<lpc, frame, answers>>
         ELSE Respond(l, 2, <<>>)
      /\ UNCHANGED <<plant, held, requests, masterVars>>
  BY Zenon, EmptySeq DEF ReadNext, Allowed, Shape, VirtualTypeOK
<1>2. IsMapped(r, i) => SignalAt(r, i) \in DOMAIN Published
  BY Zenon, <1>1, MappedSignal
<1>3. v \in HalValues \cup {Nobody}
  BY <1>2 DEF Shape, VirtualTypeOK
<1>4. Converted(r.fc, v) \in Int
  BY Zenon, <1>1, <1>3, ConvertedTyped
<1>5. ~IsMapped(r, i) /\ r.fc = 2 => Converted(r.fc, v) = 0
  BY DEF Converted, AsInput, IsInt
<1>6. IsMapped(r, i) => v = plant[SignalAt(r, i)]
  OBVIOUS
<1>7. \A m \in Masters : m # l
  BY VirtualAssumption DEF Listeners
<1>8. words \in [Listeners \cup Masters -> Seq(Int)] /\ queries \in Nat
  BY DEF Shape, VirtualTypeOK
<1> HIDE DEF r, i, v
<1>9. CASE ~(IsMapped(r, i) \/ r.fc = 2)
  <2>1. Respond(l, 2, <<>>) /\ words' = [words EXCEPT ![l] = <<>>]
    BY Zenon, <1>1, <1>9 DEF Respond
  <2>2. ASSUME NEW m \in Masters PROVE GoesOn(m) /\ SeenByMaster(m)'
    <3>1. words'[m] = words[m]
      BY Zenon, <1>7, <1>8, <2>1
    <3> QED BY Zenon, <1>1, <3>1, LeftAlone DEF Truth, masterVars
  <2>3. /\ 2 \in Nat
        /\ \A m \in Masters : 2 = 0 /\ qpc[m] = "sent" /\ frame[l] = call[m] =>
                               ModbusTruthful(held'[m], call[m], <<>>)
    OBVIOUS
  <2> QED BY Zenon, <1>1, <2>1, <2>2, <2>3, TruthAnswer
<1>10. CASE IsMapped(r, i) \/ r.fc = 2
  <2> DEFINE w == Append(words[l], Converted(r.fc, v))
  <2>1. /\ words' = [words EXCEPT ![l] = w] /\ UNCHANGED <<lpc, frame, answers>>
    BY Zenon, <1>1, <1>10
  <2>2. /\ Len(w) = Len(words[l]) + 1 /\ Len(words[l]) \in Nat
        /\ \A j \in 1..Len(words[l]) : w[j] = words[l][j]
        /\ w[Len(words[l]) + 1] = Converted(r.fc, v)
    BY <1>1, <1>4, Grown
  <2> HIDE DEF w
  <2>3. words'[l] = w /\ \A k \in (Listeners \cup Masters) \ {l} : words'[k] = words[k]
    BY <1>8, <2>1
  <2>4. Queued' = Queued /\ Given' = Given
    BY <1>1, <2>1 DEF Queued, Given
  <2>5. \A k \in Listeners : lpc'[k] = "handle" => SameFrame(k) /\ (k # l => words'[k] = words[k])
    BY Zenon, <2>1, <2>3 DEF SameFrame
  <2>6. TidsUsed'
    BY <1>1, <1>8, <2>4, <2>5, TidsKept DEF Truth, masterVars
  <2>7. ASSUME NEW m \in Masters PROVE TruthOnItsWay(m)' /\ SeenByMaster(m)'
    <3>1. GoesOn(m) /\ SeenByMaster(m)' /\ held'[m] = held[m]
      BY Zenon, <1>1, <1>7, <2>3, LeftAlone DEF Truth, masterVars
    <3>2. ASSUME qpc[m] = "sent", WordsHeld(held'[m], frame[l], words[l])
          PROVE  WordsHeld(held'[m], frame[l], words'[l])
      <4>1. IsMapped(r, i) => Converted(r.fc, v) \in Readings(held[m], r, i)
        BY Zenon, <1>2, <1>6, <3>2 DEF Truth, SeenByMaster, Readings
      <4>2. Len(words[l]) = i /\ i + 1 - 1 = i /\ frame[l] = r
        BY <2>2 DEF i, r
      <4>3. ASSUME NEW j \in 1..Len(w)
            PROVE  /\ r.fc \in Reads
                   /\ IF IsMapped(r, j - 1) THEN w[j] \in Readings(held[m], r, j - 1)
                      ELSE r.fc = 2 /\ w[j] = 0
        <5>1. CASE j \in 1..Len(words[l])
          BY Zenon, <2>2, <3>1, <3>2, <4>2, <5>1 DEF WordsHeld
        <5>2. CASE j = i + 1
          <6>1. j - 1 = i /\ w[j] = Converted(r.fc, v)
            BY <2>2, <4>2, <5>2
          <6> QED BY Zenon, <1>1, <1>5, <1>10, <4>1, <6>1
        <5> QED BY <2>2, <4>2, <5>1, <5>2
      <4> QED BY Zenon, <2>3, <3>1, <4>2, <4>3 DEF WordsHeld
    <3>3. \A k \in Listeners : lpc'[k] = "handle" =>
            \/ SameFrame(k) /\ words'[k] = words[k]
            \/ SameFrame(k) /\ (qpc[m] = "sent" /\ WordsHeld(held'[m], frame[k], words[k]) =>
                                  WordsHeld(held'[m], frame[k], words'[k]))
      BY <2>5, <3>2
    <3>4. TruthOnItsWay(m)'
      BY Zenon, <2>4, <3>1, <3>3, TruthGoesOn DEF Truth
    <3> QED BY <3>1, <3>4
  <2> QED BY <2>6, <2>7 DEF Truth
<1> QED BY <1>9, <1>10

\* A listener publishes the value of a write, and answers.
LEMMA TruthWrite ==
  ASSUME Shape, Truth, NEW l \in Listeners, WriteSignal(l) PROVE Truth'
<1> DEFINE s == SignalAt(frame[l], 0)  v == FirstWritten(frame[l])
<1>1. /\ lpc[l] = "handle" /\ frame[l].fc \in Writes /\ frame[l] \in ModbusRequests
      /\ \/ IsMapped(frame[l], 0) /\ Publishes(s, v) /\ Respond(l, 0, <<>>)
         \/ UNCHANGED <<plant, held>> /\ Respond(l, 2, <<>>)
      /\ UNCHANGED <<requests, masterVars>> /\ <<>> \in Seq(Int)
  BY Zenon, EmptySeq DEF WriteSignal, Allowed, Shape, InHand
<1>2. IsMapped(frame[l], 0) => s \in DOMAIN Published
  BY Zenon, <1>1, MappedSignal
<1>3. v \in HalValues
  BY Zenon, <1>1, WrittenTyped
<1>4. \A m \in Masters : m # l
  BY VirtualAssumption DEF Listeners
<1>5. words' = [words EXCEPT ![l] = <<>>] /\ words \in [Listeners \cup Masters -> Seq(Int)]
  BY <1>1 DEF Respond, Shape, VirtualTypeOK
<1>6. \A m \in Masters : words'[m] = words[m] /\ qpc'[m] = qpc[m] /\ call'[m] = call[m]
  BY Zenon, <1>1, <1>4, <1>5 DEF masterVars
<1> HIDE DEF s, v
<1>7. CASE UNCHANGED <<plant, held>> /\ Respond(l, 2, <<>>)
  <2>1. ASSUME NEW m \in Masters PROVE GoesOn(m) /\ SeenByMaster(m)'
    BY <1>6, <1>7, LeftAlone DEF Truth
  <2>2. /\ 2 \in Nat
        /\ \A m \in Masters : 2 = 0 /\ qpc[m] = "sent" /\ frame[l] = call[m] =>
                               ModbusTruthful(held'[m], call[m], <<>>)
    OBVIOUS
  <2> QED BY Zenon, <1>1, <1>7, <2>1, <2>2, TruthAnswer
<1>8. CASE IsMapped(frame[l], 0) /\ Publishes(s, v) /\ Respond(l, 0, <<>>)
  <2>1. /\ \A m \in Masters : \A t \in DOMAIN Published : held[m][t] \subseteq held'[m][t]
        /\ \A m \in Masters : qpc[m] # "idle" =>
             /\ v \in held'[m][s]
             /\ (\A t \in DOMAIN Published : plant[t] \in held[m][t]) =>
                  \A t \in DOMAIN Published : plant'[t] \in held'[m][t]
    BY Zenon, <1>2, <1>3, <1>8, SeenByAll DEF Shape
  <2>2. ASSUME NEW m \in Masters PROVE GoesOn(m) /\ SeenByMaster(m)'
    <3>1. GoesOn(m)
      BY Zenon, <1>6, <2>1 DEF GoesOn
    <3>2. qpc[m] # "idle" => \A t \in DOMAIN Published : plant'[t] \in held'[m][t]
      BY <2>1 DEF Truth, SeenByMaster
    <3> QED BY Zenon, <1>6, <3>1, <3>2, SeenGoesOn DEF Truth
  <2>3. ASSUME NEW m \in Masters, qpc[m] = "sent", frame[l] = call[m]
        PROVE  ModbusTruthful(held'[m], call[m], <<>>)
    <3>a. \A fc \in Writes : fc \notin Reads
      BY DEF Reads, Writes
    <3>1. frame[l].fc \notin Reads
      BY Zenon, <1>1, <3>a
    <3> QED BY Zenon, <1>1, <1>8, <2>1, <2>3, <3>1 DEF ModbusTruthful, s, v
  <2> QED BY Zenon, <1>1, <1>8, <2>2, <2>3, TruthAnswer
<1> QED BY Zenon, <1>1, <1>7, <1>8

\* A call begins, with a transaction number of its own.
LEMMA TruthSend ==
  ASSUME Shape, Truth, NEW n \in Masters, Send(n) PROVE Truth'
<1>1. PICK q \in scenario.requests :
        /\ Asks(n, [q EXCEPT !.tid = queries])
        /\ requests' = IF hung_up[socket[n]] THEN requests
                       ELSE [requests EXCEPT ![socket[n]] = Append(@, [q EXCEPT !.tid = queries])]
  BY Zenon DEF Send
<1>2. /\ socket[n] # Nobody /\ qpc' = [qpc EXCEPT ![n] = "sent"]
      /\ UNCHANGED <<plant, lpc, frame, words, answers>>
  BY DEF Send, listenerVars
<1>3. q \in ModbusRequests /\ queries \in Int /\ queries \in Nat
  BY <1>1, SignalsAssumption DEF Shape, VirtualTypeOK
<1> DEFINE r == [q EXCEPT !.tid = queries]
<1>4. r \in ModbusRequests /\ r.tid = queries
  BY Zenon, <1>3 DEF ModbusRequests
<1> HIDE DEF r
<1>5. /\ Asks(n, r)
      /\ requests' = IF hung_up[socket[n]] THEN requests
                     ELSE [requests EXCEPT ![socket[n]] = Append(@, r)]
  BY <1>1 DEF r
<1>6. /\ queries' \in Nat /\ queries' = queries + 1 /\ qpc[n] = "idle" /\ call'[n] = r
      /\ \A s \in DOMAIN Published : held'[n][s] = {plant[s]}
      /\ \A m \in Masters \ {n} : call'[m] = call[m] /\ held'[m] = held[m]
  BY Zenon, <1>4, <1>5, Asked
<1>7. qpc'[n] = "sent" /\ \A m \in Masters \ {n} : qpc'[m] = qpc[m]
  BY <1>2 DEF Shape, VirtualTypeOK
<1>8. socket[n] \in 1..Len(requests) /\ requests \in Seq(Seq(ModbusRequests))
  BY <1>2 DEF Shape, ConnectionsMade, Connections, VirtualTypeOK
<1>9. AllOf([requests EXCEPT ![socket[n]] = Append(@, r)]) \subseteq AllOf(requests) \cup {r}
  BY Zenon, <1>4, <1>8, Written
<1>10. Queued' \subseteq Queued \cup {r} /\ Given' = Given
  BY Zenon, <1>2, <1>5, <1>9 DEF Queued, Given
<1>11. /\ \A x \in Queued \cup Given : x.tid < queries /\ x.tid \in Int
       /\ \A l \in Listeners : lpc[l] = "handle" => frame[l].tid < queries /\ frame[l].tid \in Int
       /\ \A m \in Masters : qpc[m] = "sent" => call[m].tid < queries /\ call[m].tid \in Int
  BY Zenon, OnItsWayTyped DEF Truth, TidsUsed, Shape, InHand, ModbusRequests, ModbusAnswers
<1>12. TidsUsed'
  <2>1. \A x \in Queued' \cup Given' : x.tid < queries'
    BY <1>3, <1>4, <1>6, <1>10, <1>11
  <2>2. \A l \in Listeners : lpc'[l] = "handle" => frame'[l].tid < queries'
    BY <1>2, <1>3, <1>6, <1>11
  <2>3. \A m \in Masters : qpc'[m] = "sent" => call'[m].tid < queries'
    BY <1>3, <1>4, <1>6, <1>7, <1>11
  <2> QED BY Zenon, <2>1, <2>2, <2>3 DEF TidsUsed
<1>13. ASSUME NEW m \in Masters \ {n} PROVE TruthOnItsWay(m)' /\ SeenByMaster(m)'
  <2>1. GoesOn(m) /\ SeenByMaster(m)'
    BY Zenon, <1>2, <1>6, <1>7, LeftAlone DEF Truth
  <2>2. CASE qpc[m] = "sent"
    <3>1. \A x \in Queued' : x \in Queued \/ x.tid # call[m].tid
      BY <1>3, <1>4, <1>10, <1>11, <2>2
    <3>2. \A l \in Listeners : lpc'[l] = "handle" => SameFrame(l) /\ words'[l] = words[l]
      BY <1>2 DEF SameFrame
    <3> QED BY Zenon, <1>10, <2>1, <3>1, <3>2, TruthGoesOn DEF Truth
  <2>3. CASE qpc[m] # "sent"
    BY Zenon, <1>7, <2>1, <2>3 DEF TruthOnItsWay
  <2> QED BY <2>2, <2>3
<1>14. TruthOnItsWay(n)'
  <2>1. \A x \in Queued' : x.tid = call'[n].tid => x = call'[n]
    BY <1>3, <1>4, <1>6, <1>10, <1>11
  <2>2. \A x \in Given' : x.tid # call'[n].tid
    BY <1>3, <1>4, <1>6, <1>10, <1>11
  <2>3. \A l \in Listeners : lpc'[l] = "handle" => frame'[l].tid # call'[n].tid
    BY <1>2, <1>3, <1>4, <1>6, <1>11
  <2> QED BY Zenon, <2>1, <2>2, <2>3 DEF TruthOnItsWay
<1>15. SeenByMaster(n)'
  BY Zenon, <1>2, <1>6, <1>7 DEF SeenByMaster
<1> QED BY Zenon, <1>12, <1>13, <1>14, <1>15 DEF Truth

\* Every step keeps what is on its way truthful.
LEMMA TruthNext ==
  ASSUME Shape, Shape', Truth, VirtualNext PROVE Truth'
<1>1. ASSUME NEW l \in Listeners, ListenerStep(l) PROVE Truth'
  BY Zenon, <1>1, TruthAside, TruthTakeFrame, TruthReadEnds, TruthReadNext, TruthWrite DEF ListenerStep
<1>2. ASSUME NEW m \in Masters, MasterStep(m) PROVE Truth'
  BY Zenon, <1>2, TruthAside, TruthMasters, TruthSend DEF MasterStep
<1>3. CASE ProgramPublishes \/ Start \/ Stop
  BY <1>3, TruthProgram, TruthAside
<1> QED BY Zenon, <1>1, <1>2, <1>3 DEF VirtualNext

\* The loop current and the percentage are within their ranges.
LEMMA CurrentInRange ==
  ASSUME NEW pv \in Int
  PROVE  \E a, b \in Int : Current(pv) = <<a, b>> /\ InLoopRange(a, b)
<1>1. ASSUME NEW w \in Int, 0 <= w, w <= 100
      PROVE  400 + w * 16 \in Int /\ w * 100 \in Int /\ InLoopRange(400 + w * 16, w * 100)
  BY <1>1 DEF InLoopRange
<1>2. PICK w \in Int : 0 <= w /\ w <= 100 /\ Current(pv) = <<400 + w * 16, w * 100>>
  <2>1. CASE pv < 0
    BY <2>1 DEF Current
  <2>2. CASE pv > 100
    BY <2>2 DEF Current
  <2>3. CASE 0 <= pv /\ pv <= 100
    BY <2>3 DEF Current
  <2> QED BY <2>1, <2>2, <2>3
<1> QED BY <1>1, <1>2

\* A value followed by two.
LEMMA OneThenTwo ==
  ASSUME NEW x \in Int, NEW a \in Int, NEW b \in Int PROVE <<x>> \o <<a, b>> = <<x, a, b>>
<1> DEFINE s == <<x>>  t == <<a, b>>  u == <<x, a, b>>
<1>1. s \in Seq(Int) /\ t \in Seq(Int) /\ u \in Seq(Int) /\ Len(s) = 1 /\ Len(t) = 2 /\ Len(u) = 3
      /\ s[1] = x /\ t[1] = a /\ t[2] = b /\ u[1] = x /\ u[2] = a /\ u[3] = b
  OBVIOUS
<1> HIDE DEF s, t, u
<1>2. /\ s \o t \in Seq(Int) /\ Len(s \o t) = Len(s) + Len(t)
      /\ \A i \in 1..Len(s) + Len(t) : (s \o t)[i] = IF i <= Len(s) THEN s[i] ELSE t[i - Len(s)]
  BY Zenon, <1>1, ConcatProperties
<1>3. ASSUME NEW i \in 1..Len(s \o t) PROVE (s \o t)[i] = u[i]
  <2>1. i = 1 \/ i = 2 \/ i = 3
    BY <1>1, <1>2
  <2>2. i \in 1..Len(s) + Len(t)
    BY <1>2
  <2>3. (s \o t)[i] = IF i <= Len(s) THEN s[i] ELSE t[i - Len(s)]
    BY <1>2, <2>2
  <2> QED BY <1>1, <2>1, <2>3
<1>4. s \o t = u
  <2>1. Len(s \o t) = Len(u) /\ s \o t \in Seq(Int) /\ u \in Seq(Int)
    BY <1>1, <1>2
  <2> QED BY <1>3, <2>1, SeqEqual, Zenon
<1> QED BY <1>4 DEF s, t, u

\* The inductive invariant gives each call that succeeds a truthful answer.
LEMMA ToldTruth ==
  ASSUME Shape, Truth PROVE MastersToldTruth
<1>1. ASSUME NEW m \in Masters, Accepts(m)
      PROVE  ModbusTruthful(held[m], call[m], Head(answers[socket[m]]).words)
  <2>1. qpc[m] = "sent" /\ answers[socket[m]] # <<>>
        /\ Head(answers[socket[m]]).tid = call[m].tid /\ Head(answers[socket[m]]).exc = 0
    BY <1>1 DEF Accepts
  <2>2. socket[m] \in 1..Len(answers) /\ answers \in Seq(Seq(ModbusAnswers))
    BY Zenon, <2>1 DEF Shape, ConnectionsMade, InHand, Connections, VirtualTypeOK
  <2>3. Head(answers[socket[m]]) \in AllOf(answers)
    BY Zenon, <2>1, <2>2, Taken
  <2> QED BY Zenon, <2>1, <2>3 DEF Truth, TruthOnItsWay, Given
<1>2. ASSUME NEW m \in Masters, Answering(m)
      PROVE  HartTruthful(held[m], call[m].cmd, Response(m))
  <2>1. /\ qpc[m] = "slots" /\ Len(words[m]) = Len(SlotsOf(call[m].cmd))
        /\ words[m] \in Seq(Int) /\ SlotsHeld(held[m], SlotsOf(call[m].cmd), words[m])
    BY <1>2 DEF Answering, Shape, VirtualTypeOK, Truth, SeenByMaster
  <2>2. CASE call[m].cmd # 2
    BY Zenon, <2>1, <2>2 DEF HartTruthful, Response
  <2>3. CASE call[m].cmd = 2
    <3>1. SlotsOf(call[m].cmd) = <<0>> /\ Len(<<0>>) = 1
      BY <2>3 DEF SlotsOf
    <3>2. Len(words[m]) = 1 /\ words[m][1] \in Int
      BY <2>1, <3>1, ElementOfSeq
    <3>3. PICK x \in Int : words[m] = <<x>>
      BY <2>1, <3>2, SeqEqual
    <3>4. PICK a, b \in Int : Current(x) = <<a, b>> /\ InLoopRange(a, b)
      BY Zenon, CurrentInRange
    <3>5. Response(m) = <<x, a, b>>
      <4>1. Response(m) = words[m] \o Current(words[m][1]) /\ words[m][1] = x
        BY <2>3, <3>3 DEF Response
      <4>2. Response(m) = <<x>> \o <<a, b>>
        BY <3>3, <3>4, <4>1, Zenon
      <4> QED BY <4>2, OneThenTwo
    <3>6. Response(m)[1] = x /\ Response(m)[2] = a /\ Response(m)[3] = b
      BY <3>5
    <3>7. SlotsHeld(held[m], SlotsOf(call[m].cmd), <<Response(m)[1]>>)
      BY <2>1, <3>3, <3>6
    <3> QED BY Zenon, <2>3, <3>4, <3>6, <3>7 DEF HartTruthful
  <2> QED BY Zenon, <2>2, <2>3
<1> QED BY Zenon, <1>1, <1>2 DEF MastersToldTruth

\* Every call that succeeds, of a Modbus master or a HART command, returned
\* what its signals held in the course of the call; a write was published.
THEOREM VirtualTruth == VirtualSpec => []MastersToldTruth
<1>1. VirtualInit => Shape /\ Truth
  <2> SUFFICES ASSUME VirtualInit PROVE Shape /\ Truth
    OBVIOUS
  <2>1. \A m \in Masters : qpc[m] = "idle"
    BY DEF VirtualInit
  <2>2. \A l \in Listeners : lpc[l] = "unborn"
    BY DEF VirtualInit
  <2>3. Queued = {} /\ Given = {}
    BY DEF VirtualInit, Queued, Given, AllOf
  <2>4. TidsUsed
    BY Zenon, <2>1, <2>2, <2>3 DEF TidsUsed
  <2>5. \A m \in Masters : TruthOnItsWay(m) /\ SeenByMaster(m)
    BY Zenon, <2>1 DEF TruthOnItsWay, SeenByMaster
  <2> QED BY <2>4, <2>5, ShapeInit DEF Truth
<1>2. Shape /\ Truth /\ [VirtualNext]_virtualVars => Shape' /\ Truth'
  <2>1. CASE VirtualNext
    BY <2>1, ShapeNext, TruthNext
  <2>2. CASE UNCHANGED virtualVars
    <3>1. Shape => Shape'
      BY <2>2 DEF Shape, VirtualTypeOK, ConnectionsMade, InHand, Connections, virtualVars, listenerVars,
                  socketVars, masterVars
    <3>2. UNCHANGED <<plant, lpc, frame, words, requests, answers, qpc, call, queries, held>>
      BY <2>2 DEF virtualVars, listenerVars, socketVars, masterVars
    <3>3. Queued' = Queued /\ Given' = Given
      BY Zenon, <3>2 DEF Queued, Given
    <3>4. TidsUsed => TidsUsed'
      BY <3>2, <3>3 DEF TidsUsed
    <3>5. \A m \in Masters : TruthOnItsWay(m) => TruthOnItsWay(m)'
      BY Zenon, <3>2, <3>3 DEF TruthOnItsWay
    <3>6. \A m \in Masters : SeenByMaster(m) => SeenByMaster(m)'
      BY Zenon, <3>2 DEF SeenByMaster
    <3> QED BY Zenon, <3>1, <3>4, <3>5, <3>6 DEF Truth
  <2> QED BY <2>1, <2>2
<1>3. Shape /\ Truth => MastersToldTruth
  BY ToldTruth
<1> QED BY <1>1, <1>2, <1>3, PTL DEF VirtualSpec
=============================================================================

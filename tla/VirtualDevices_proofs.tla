------------------------ MODULE VirtualDevices_proofs ------------------------
(* Proofs about VirtualDevices, for any masters, listener threads, requests, *)
(* mappings and published values, and any number of calls: what listeners    *)
(* and masters have in hand, and what stop() leaves running.                 *)
EXTENDS VirtualDevices, SequenceTheorems, TLAPS

-----------------------------------------------------------------------------
(* Streams *)

\* A sequence that grew by one element.
LEMMA Grown ==
  ASSUME NEW S, NEW s \in Seq(S), NEW e \in S
  PROVE  /\ Append(s, e) \in Seq(S) /\ Len(s) \in Nat /\ Len(Append(s, e)) = Len(s) + 1
         /\ \A i \in 1..Len(s) : Append(s, e)[i] = s[i]
         /\ Append(s, e)[Len(s) + 1] = e
         /\ Range(Append(s, e)) = Range(s) \cup {e}
<1>1. /\ Append(s, e) \in Seq(S) /\ Len(s) \in Nat /\ Len(Append(s, e)) = Len(s) + 1
      /\ \A i \in 1..Len(s) : Append(s, e)[i] = s[i]
      /\ Append(s, e)[Len(s) + 1] = e
      /\ DOMAIN s = 1..Len(s) /\ DOMAIN Append(s, e) = 1..Len(s) + 1
  BY AppendProperties, LenProperties
<1> DEFINE t == Append(s, e)
<1> HIDE DEF t
<1>2. Range(t) = Range(s) \cup {e}
  <2>1. ASSUME NEW x \in Range(t) PROVE x \in Range(s) \cup {e}
    <3>1. PICK i \in 1..Len(s) + 1 : x = t[i]
      BY <1>1 DEF Range, t
    <3> QED BY <1>1, <3>1 DEF Range, t
  <2>2. ASSUME NEW x \in Range(s) PROVE x \in Range(t)
    <3>1. PICK i \in 1..Len(s) : x = s[i]
      BY <1>1 DEF Range
    <3>2. i \in DOMAIN t /\ x = t[i]
      BY <1>1, <3>1 DEF t
    <3> QED BY <3>2 DEF Range
  <2>3. e \in Range(t)
    BY <1>1 DEF Range, t
  <2> QED BY <2>1, <2>2, <2>3
<1> QED BY <1>1, <1>2 DEF t

\* A sequence without its head.
LEMMA Shrunk ==
  ASSUME NEW S, NEW s \in Seq(S), s # <<>>
  PROVE  /\ Tail(s) \in Seq(S) /\ Head(s) \in S /\ Head(s) \in Range(s)
         /\ Range(Tail(s)) \subseteq Range(s)
<1>1. /\ Tail(s) \in Seq(S) /\ Head(s) \in S /\ Head(s) = s[1]
      /\ Len(s) \in Nat \ {0} /\ DOMAIN s = 1..Len(s)
      /\ DOMAIN Tail(s) = 1..Len(s) - 1
      /\ \A i \in 1..Len(s) - 1 : Tail(s)[i] = s[i + 1]
  BY HeadTailProperties, LenProperties, EmptySeq
<1>2. ASSUME NEW x \in Range(Tail(s)) PROVE x \in Range(s)
  <2>1. PICK i \in 1..Len(s) - 1 : x = s[i + 1]
    BY <1>1 DEF Range
  <2> QED BY <1>1, <2>1 DEF Range
<1> QED BY <1>1, <1>2 DEF Range

\* What is on its way once the stream of one connection has changed.
LEMMA Replaced ==
  ASSUME NEW S, NEW ss \in Seq(Seq(S)), NEW k \in 1..Len(ss), NEW u \in Seq(S)
  PROVE  /\ [ss EXCEPT ![k] = u] \in Seq(Seq(S)) /\ Len([ss EXCEPT ![k] = u]) = Len(ss)
         /\ AllOf([ss EXCEPT ![k] = u]) \subseteq AllOf(ss) \cup Range(u)
         /\ Range(ss[k]) \subseteq AllOf(ss)
<1>1. ss[k] \in Seq(S) /\ DOMAIN ss = 1..Len(ss)
  BY ElementOfSeq, LenProperties
<1> DEFINE tt == [ss EXCEPT ![k] = u]
<1>2. tt \in Seq(Seq(S)) /\ Len(tt) = Len(ss)
      /\ \A j \in 1..Len(ss) : tt[j] = IF j = k THEN u ELSE ss[j]
  BY ExceptSeq
<1>3. DOMAIN tt = 1..Len(ss)
  BY <1>1
<1> HIDE DEF tt
<1>4. ASSUME NEW x \in AllOf(tt) PROVE x \in AllOf(ss) \cup Range(u)
  <2>1. PICK j \in 1..Len(ss) : x \in Range(tt[j])
    BY <1>3 DEF AllOf
  <2>2. x \in Range(ss[j]) \/ x \in Range(u)
    BY Zenon, <1>2, <2>1
  <2> QED BY <1>1, <2>2 DEF AllOf
<1>5. Range(ss[k]) \subseteq AllOf(ss)
  BY <1>1 DEF AllOf
<1> QED BY Zenon, <1>2, <1>4, <1>5 DEF tt

\* A connection carries one thing more.
LEMMA Written ==
  ASSUME NEW S, NEW ss \in Seq(Seq(S)), NEW k \in 1..Len(ss), NEW e \in S
  PROVE  /\ [ss EXCEPT ![k] = Append(@, e)] \in Seq(Seq(S))
         /\ Len([ss EXCEPT ![k] = Append(@, e)]) = Len(ss)
         /\ AllOf([ss EXCEPT ![k] = Append(@, e)]) \subseteq AllOf(ss) \cup {e}
<1>1. ss[k] \in Seq(S)
  BY ElementOfSeq
<1>2. Append(ss[k], e) \in Seq(S) /\ Range(Append(ss[k], e)) = Range(ss[k]) \cup {e}
  BY <1>1, Grown
<1> DEFINE u == Append(ss[k], e)
<1>3. [ss EXCEPT ![k] = Append(@, e)] = [ss EXCEPT ![k] = u]
  OBVIOUS
<1> HIDE DEF u
<1>4. u \in Seq(S) /\ Range(u) = Range(ss[k]) \cup {e}
  BY <1>2 DEF u
<1>5. /\ [ss EXCEPT ![k] = u] \in Seq(Seq(S)) /\ Len([ss EXCEPT ![k] = u]) = Len(ss)
      /\ AllOf([ss EXCEPT ![k] = u]) \subseteq AllOf(ss) \cup Range(u)
      /\ Range(ss[k]) \subseteq AllOf(ss)
  BY Zenon, <1>4, Replaced
<1> QED BY Zenon, <1>3, <1>4, <1>5

\* A connection was read.
LEMMA Taken ==
  ASSUME NEW S, NEW ss \in Seq(Seq(S)), NEW k \in 1..Len(ss), ss[k] # <<>>
  PROVE  /\ [ss EXCEPT ![k] = Tail(@)] \in Seq(Seq(S))
         /\ Len([ss EXCEPT ![k] = Tail(@)]) = Len(ss)
         /\ AllOf([ss EXCEPT ![k] = Tail(@)]) \subseteq AllOf(ss)
         /\ Head(ss[k]) \in AllOf(ss) /\ Head(ss[k]) \in S
<1>1. ss[k] \in Seq(S)
  BY ElementOfSeq
<1>2. /\ Tail(ss[k]) \in Seq(S) /\ Range(Tail(ss[k])) \subseteq Range(ss[k])
      /\ Head(ss[k]) \in Range(ss[k]) /\ Head(ss[k]) \in S
  BY <1>1, Shrunk
<1> DEFINE u == Tail(ss[k])
<1>3. [ss EXCEPT ![k] = Tail(@)] = [ss EXCEPT ![k] = u]
  OBVIOUS
<1> HIDE DEF u
<1>4. u \in Seq(S) /\ Range(u) \subseteq Range(ss[k])
  BY <1>2 DEF u
<1>5. /\ [ss EXCEPT ![k] = u] \in Seq(Seq(S)) /\ Len([ss EXCEPT ![k] = u]) = Len(ss)
      /\ AllOf([ss EXCEPT ![k] = u]) \subseteq AllOf(ss) \cup Range(u)
      /\ Range(ss[k]) \subseteq AllOf(ss)
  BY Zenon, <1>4, Replaced
<1> QED BY Zenon, <1>2, <1>3, <1>4, <1>5

\* A new connection carries nothing.
LEMMA Opened ==
  ASSUME NEW S, NEW ss \in Seq(Seq(S))
  PROVE  /\ Append(ss, <<>>) \in Seq(Seq(S)) /\ Len(Append(ss, <<>>)) = Len(ss) + 1
         /\ AllOf(Append(ss, <<>>)) \subseteq AllOf(ss)
<1>1. <<>> \in Seq(S) /\ Range(<<>>) = {}
  BY EmptySeq DEF Range
<1> DEFINE tt == Append(ss, <<>>)
<1>2. /\ tt \in Seq(Seq(S)) /\ Len(tt) = Len(ss) + 1 /\ Len(ss) \in Nat
      /\ DOMAIN tt = 1..Len(ss) + 1 /\ DOMAIN ss = 1..Len(ss)
      /\ \A i \in 1..Len(ss) : tt[i] = ss[i]
      /\ tt[Len(ss) + 1] = <<>>
  BY <1>1, AppendProperties, LenProperties
<1> HIDE DEF tt
<1>3. ASSUME NEW x \in AllOf(tt) PROVE x \in AllOf(ss)
  <2>1. PICK j \in 1..Len(ss) + 1 : x \in Range(tt[j])
    BY <1>2 DEF AllOf
  <2>2. j \in 1..Len(ss) /\ x \in Range(ss[j])
    BY <1>1, <1>2, <2>1
  <2> QED BY <1>2, <2>2 DEF AllOf
<1> QED BY <1>2, <1>3 DEF tt

-----------------------------------------------------------------------------
(* Values and signals *)

\* The address of a read or a write that is mapped has a signal.
LEMMA MappedSignal ==
  ASSUME NEW r, r.fc \in Reads \cup Writes, NEW i, IsMapped(r, i)
  PROVE  SignalAt(r, i) \in DOMAIN Published
<1>1. Table(r.fc) \in Tables
  BY DEF Table, Tables, Reads, Writes
<1> QED BY <1>1, SignalsAssumption DEF IsMapped, SignalAt

\* What is read of a signal is a number.
LEMMA ConvertedTyped ==
  ASSUME NEW v \in HalValues \cup {Nobody}
  PROVE  /\ AsFloat(v) \in Int
         /\ \A fc \in Reads : Converted(fc, v) \in Int
<1>1. ASSUME NEW types, IsInt(v, types) PROVE v.n \in Int
  BY <1>1 DEF IsInt, HalValues
<1>2. AsFloat(v) \in Int
  BY <1>1 DEF AsFloat
<1>3. AsCoil(v) \in Int /\ AsInput(v) \in Int
  BY DEF AsCoil, AsInput
<1>4. AsWord(v) \in Int
  <2>1. CASE IsInt(v, {"Bool", "U16", "U32", "S32"})
    <3>1. v.n \in Int /\ v.n % 65536 \in Int
      BY <1>1, <2>1
    <3>2. ~IsInt(v, {"F32"})
      BY <2>1 DEF IsInt
    <3> QED BY <2>1, <3>1, <3>2 DEF AsWord
  <2>2. CASE ~IsInt(v, {"Bool", "U16", "U32", "S32"}) /\ IsInt(v, {"F32"})
    BY <1>1, <2>2 DEF AsWord
  <2>3. CASE ~IsInt(v, {"Bool", "U16", "U32", "S32"}) /\ ~IsInt(v, {"F32"})
    BY <2>3 DEF AsWord
  <2> QED BY <2>1, <2>2, <2>3
<1>5. ASSUME NEW fc \in Reads PROVE Converted(fc, v) \in Int
  BY <1>3, <1>4 DEF Converted, Reads
<1> QED BY <1>2, <1>5

\* What a write publishes is a value of the transport.
LEMMA WrittenTyped ==
  ASSUME NEW r \in ModbusRequests, r.fc \in Writes
  PROVE  FirstWritten(r) \in HalValues
<1>1. r.values \in Seq(Int) /\ r.values # <<>>
  BY DEF ModbusRequests
<1>2. r.values[1] \in Int
  BY <1>1, EmptySeq, ElementOfSeq
<1>3. r.values[1] % 2 \in Int
  BY <1>2
<1>4. ASSUME NEW n \in Int
      PROVE  [type |-> "Bool", n |-> n] \in HalValues /\ [type |-> "U16", n |-> n] \in HalValues
  BY DEF HalValues, HalTypes
<1>5. CASE r.fc = 5
  <2>1. r.values[1] = 65280 => FirstWritten(r) = [type |-> "Bool", n |-> 1]
    BY <1>5 DEF FirstWritten
  <2>2. r.values[1] # 65280 => FirstWritten(r) = [type |-> "Bool", n |-> 0]
    BY <1>5 DEF FirstWritten
  <2>3. [type |-> "Bool", n |-> 0] \in HalValues /\ [type |-> "Bool", n |-> 1] \in HalValues
    BY DEF HalValues, HalTypes
  <2> QED BY <2>1, <2>2, <2>3
<1>6. CASE r.fc = 15
  <2>1. FirstWritten(r) = [type |-> "Bool", n |-> r.values[1] % 2]
    BY <1>6 DEF FirstWritten
  <2> QED BY Zenon, <1>3, <1>4, <2>1
<1>7. CASE r.fc \in {6, 16}
  <2>1. FirstWritten(r) = [type |-> "U16", n |-> r.values[1]]
    BY <1>7 DEF FirstWritten
  <2> QED BY Zenon, <1>2, <1>4, <2>1
<1> QED BY <1>5, <1>6, <1>7 DEF Writes

\* A refusal is an exception code, and an unknown function is refused.
LEMMA RefusalTyped ==
  ASSUME NEW r
  PROVE  Refusal(r) \in Nat /\ (Refusal(r) = 0 => r.fc \in Reads \cup Writes)
BY DEF Refusal

\* A publication is seen by all calls under way.
LEMMA SeenByAll ==
  ASSUME VirtualTypeOK, NEW s \in DOMAIN Published, NEW v \in HalValues, Publishes(s, v)
  PROVE  /\ plant' \in [DOMAIN Published -> HalValues \cup {Nobody}]
         /\ held' \in [Masters -> [DOMAIN Published -> SUBSET (HalValues \cup {Nobody})]]
         /\ \A m \in Masters : \A t \in DOMAIN Published : held[m][t] \subseteq held'[m][t]
         /\ \A m \in Masters : qpc[m] # "idle" =>
              /\ v \in held'[m][s]
              /\ (\A t \in DOMAIN Published : plant[t] \in held[m][t]) =>
                   \A t \in DOMAIN Published : plant'[t] \in held'[m][t]
<1>1. /\ plant \in [DOMAIN Published -> HalValues \cup {Nobody}]
      /\ held \in [Masters -> [DOMAIN Published -> SUBSET (HalValues \cup {Nobody})]]
  BY DEF VirtualTypeOK
<1>2. plant' \in [DOMAIN Published -> HalValues \cup {Nobody}]
  BY <1>1 DEF Publishes
<1>3. ASSUME NEW m \in Masters
      PROVE  /\ held'[m] \in [DOMAIN Published -> SUBSET (HalValues \cup {Nobody})]
             /\ \A t \in DOMAIN Published : held[m][t] \subseteq held'[m][t]
             /\ qpc[m] # "idle" => v \in held'[m][s]
  BY <1>1 DEF Publishes
<1>4. DOMAIN held' = Masters /\ held' = [m \in Masters |-> held'[m]]
  BY DEF Publishes
<1>5. held' \in [Masters -> [DOMAIN Published -> SUBSET (HalValues \cup {Nobody})]]
  BY <1>3, <1>4
<1>6. \A t \in DOMAIN Published : plant'[t] = IF t = s THEN v ELSE plant[t]
  BY <1>1 DEF Publishes
<1> QED BY <1>2, <1>3, <1>5, <1>6

-----------------------------------------------------------------------------
(* Types, connections, and what is in hand *)

Shape == VirtualTypeOK /\ ConnectionsMade /\ InHand

\* A listener's answer joins those of its connection.
LEMMA Responded ==
  ASSUME Shape, NEW l \in Listeners, lpc[l] = "handle",
         NEW exc \in Nat, NEW ws \in Seq(Int), Respond(l, exc, ws)
  PROVE  /\ answers' \in Seq(Seq(ModbusAnswers)) /\ Len(answers') = Len(answers)
         /\ Given' \subseteq Given \cup {[tid |-> frame[l].tid, exc |-> exc, words |-> ws]}
         /\ lpc' \in [Listeners -> OpenLabels \cup {"unborn", "bind", "ended"}]
         /\ frame' \in [Listeners -> ModbusRequests \cup {Nobody}]
         /\ words' \in [Listeners \cup Masters -> Seq(Int)]
         /\ lpc'[l] = "serve" /\ words'[l] = <<>>
         /\ \A k \in Listeners \ {l} : lpc'[k] = lpc[k] /\ frame'[k] = frame[k]
         /\ \A k \in (Listeners \cup Masters) \ {l} : words'[k] = words[k]
<1>1. frame[l] \in ModbusRequests /\ serving[l] \in 1..Len(answers)
  BY DEF Shape, ConnectionsMade, InHand, Connections
<1>2. frame[l].tid \in Int
  BY <1>1 DEF ModbusRequests
<1> DEFINE a == [tid |-> frame[l].tid, exc |-> exc, words |-> ws]
<1>3. a \in ModbusAnswers
  BY <1>2 DEF ModbusAnswers
<1>4. answers \in Seq(Seq(ModbusAnswers)) /\ answers' = [answers EXCEPT ![serving[l]] = Append(@, a)]
  BY DEF Shape, VirtualTypeOK, Respond
<1> HIDE DEF a
<1>5. /\ answers' \in Seq(Seq(ModbusAnswers)) /\ Len(answers') = Len(answers)
      /\ AllOf(answers') \subseteq AllOf(answers) \cup {a}
  <2>1. /\ [answers EXCEPT ![serving[l]] = Append(@, a)] \in Seq(Seq(ModbusAnswers))
        /\ Len([answers EXCEPT ![serving[l]] = Append(@, a)]) = Len(answers)
        /\ AllOf([answers EXCEPT ![serving[l]] = Append(@, a)]) \subseteq AllOf(answers) \cup {a}
    BY Zenon, <1>1, <1>3, <1>4, Written
  <2> QED BY Zenon, <1>4, <2>1
<1>6. /\ lpc \in [Listeners -> OpenLabels \cup {"unborn", "bind", "ended"}]
      /\ frame \in [Listeners -> ModbusRequests \cup {Nobody}]
      /\ words \in [Listeners \cup Masters -> Seq(Int)]
  BY DEF Shape, VirtualTypeOK
<1>7. /\ lpc' = [lpc EXCEPT ![l] = "serve"]
      /\ frame' = [frame EXCEPT ![l] = Nobody]
      /\ words' = [words EXCEPT ![l] = <<>>]
  BY DEF Respond, Wait
<1>8. <<>> \in Seq(Int) /\ "serve" \in OpenLabels
  BY EmptySeq DEF OpenLabels
<1>9. /\ lpc' \in [Listeners -> OpenLabels \cup {"unborn", "bind", "ended"}]
      /\ frame' \in [Listeners -> ModbusRequests \cup {Nobody}]
      /\ words' \in [Listeners \cup Masters -> Seq(Int)]
      /\ lpc'[l] = "serve" /\ words'[l] = <<>>
      /\ \A k \in Listeners \ {l} : lpc'[k] = lpc[k] /\ frame'[k] = frame[k]
      /\ \A k \in (Listeners \cup Masters) \ {l} : words'[k] = words[k]
  BY <1>6, <1>7, <1>8
<1> QED BY <1>5, <1>9 DEF Given, a

\* All that Respond leaves alone.
LEMMA ShapeResponded ==
  ASSUME Shape, NEW l \in Listeners, lpc[l] = "handle",
         NEW exc \in Nat, NEW ws \in Seq(Int), Respond(l, exc, ws),
         UNCHANGED <<scenario, running, serving, bound, stops, backlog, requests, hung_up,
                     masterVars, updates, late>>,
         plant' \in [DOMAIN Published -> HalValues \cup {Nobody}],
         held' \in [Masters -> [DOMAIN Published -> SUBSET (HalValues \cup {Nobody})]]
  PROVE  Shape'
<1>1. /\ answers' \in Seq(Seq(ModbusAnswers)) /\ Len(answers') = Len(answers)
      /\ lpc' \in [Listeners -> OpenLabels \cup {"unborn", "bind", "ended"}]
      /\ frame' \in [Listeners -> ModbusRequests \cup {Nobody}]
      /\ words' \in [Listeners \cup Masters -> Seq(Int)]
      /\ lpc'[l] = "serve" /\ words'[l] = <<>>
      /\ \A k \in Listeners \ {l} : lpc'[k] = lpc[k] /\ frame'[k] = frame[k]
      /\ \A k \in (Listeners \cup Masters) \ {l} : words'[k] = words[k]
  BY Zenon, Responded
<1>2. VirtualTypeOK'
  BY <1>1 DEF Shape, VirtualTypeOK, masterVars
<1>3. ConnectionsMade'
  BY Zenon, <1>1 DEF Shape, ConnectionsMade, Connections, masterVars
<1>4. \A m \in Masters : words'[m] = words[m]
  BY Zenon, <1>1, VirtualAssumption DEF Listeners
<1>5. InHand'
  BY Zenon, <1>1, <1>4 DEF Shape, InHand, Connections, masterVars
<1> QED BY <1>2, <1>3, <1>5 DEF Shape

\* The shape of the state holds from the start.
LEMMA ShapeInit ==
  ASSUME VirtualInit PROVE Shape
<1>1. <<>> \in Seq(Int) /\ <<>> \in Seq(Seq(ModbusRequests)) /\ <<>> \in Seq(Seq(ModbusAnswers))
      /\ <<>> \in Seq(BOOLEAN) /\ <<>> \in Seq(Nat) /\ Len(<<>>) = 0
  BY EmptySeq
<1>2. /\ plant \in [DOMAIN Published -> HalValues \cup {Nobody}]
      /\ lpc \in [Listeners -> OpenLabels \cup {"unborn", "bind", "ended"}]
      /\ serving \in [Listeners -> Nat \cup {Nobody}]
      /\ frame \in [Listeners -> ModbusRequests \cup {Nobody}]
  BY DEF VirtualInit
<1>3. /\ words \in [Listeners \cup Masters -> Seq(Int)]
      /\ socket \in [Masters -> Nat \cup {Nobody}]
      /\ qpc \in [Masters -> {"idle", "sent", "slots"}]
  BY <1>1 DEF VirtualInit
<1>4. /\ call \in [Masters -> ModbusRequests \cup HartCommands \cup {Nobody}]
      /\ held \in [Masters -> [DOMAIN Published -> SUBSET (HalValues \cup {Nobody})]]
  BY DEF VirtualInit, Unseen
<1>5. VirtualTypeOK
  BY Zenon, <1>1, <1>2, <1>3, <1>4 DEF VirtualTypeOK, VirtualInit
<1>6. ConnectionsMade
  BY <1>1 DEF ConnectionsMade, VirtualInit, Connections
<1>7. InHand
  BY DEF InHand, VirtualInit
<1> QED BY <1>5, <1>6, <1>7 DEF Shape

\* A call begins.
LEMMA Asked ==
  ASSUME Shape, NEW m \in Masters, NEW r \in ModbusRequests \cup HartCommands, Asks(m, r)
  PROVE  /\ call' \in [Masters -> ModbusRequests \cup HartCommands \cup {Nobody}]
         /\ held' \in [Masters -> [DOMAIN Published -> SUBSET (HalValues \cup {Nobody})]]
         /\ queries' \in Nat /\ queries' = queries + 1 /\ qpc[m] = "idle" /\ call'[m] = r
         /\ \A s \in DOMAIN Published : held'[m][s] = {plant[s]}
         /\ \A n \in Masters \ {m} : call'[n] = call[n] /\ held'[n] = held[n]
<1>1. /\ call \in [Masters -> ModbusRequests \cup HartCommands \cup {Nobody}]
      /\ held \in [Masters -> [DOMAIN Published -> SUBSET (HalValues \cup {Nobody})]]
      /\ queries \in Nat
      /\ \A s \in DOMAIN Published : plant[s] \in HalValues \cup {Nobody}
  BY DEF Shape, VirtualTypeOK
<1> DEFINE now == [s \in DOMAIN Published |-> {plant[s]}]
<1>2. now \in [DOMAIN Published -> SUBSET (HalValues \cup {Nobody})]
  BY <1>1
<1>3. \A s \in DOMAIN Published : now[s] = {plant[s]}
  OBVIOUS
<1>4. call' = [call EXCEPT ![m] = r] /\ held' = [held EXCEPT ![m] = now] /\ queries' = queries + 1
      /\ qpc[m] = "idle"
  BY DEF Asks
<1> HIDE DEF now
<1>5. /\ call' \in [Masters -> ModbusRequests \cup HartCommands \cup {Nobody}]
      /\ call'[m] = r /\ \A n \in Masters \ {m} : call'[n] = call[n]
  BY <1>1, <1>4
<1>6. /\ held' \in [Masters -> [DOMAIN Published -> SUBSET (HalValues \cup {Nobody})]]
      /\ held'[m] = now /\ \A n \in Masters \ {m} : held'[n] = held[n]
  BY <1>1, <1>2, <1>4
<1> QED BY <1>1, <1>3, <1>4, <1>5, <1>6

\* A call returns.
LEMMA Returned ==
  ASSUME Shape, NEW m \in Masters, Returns(m)
  PROVE  /\ call' \in [Masters -> ModbusRequests \cup HartCommands \cup {Nobody}]
         /\ held' \in [Masters -> [DOMAIN Published -> SUBSET (HalValues \cup {Nobody})]]
         /\ qpc' \in [Masters -> {"idle", "sent", "slots"}] /\ qpc'[m] = "idle"
         /\ \A n \in Masters \ {m} : qpc'[n] = qpc[n] /\ call'[n] = call[n] /\ held'[n] = held[n]
<1>1. /\ call \in [Masters -> ModbusRequests \cup HartCommands \cup {Nobody}]
      /\ held \in [Masters -> [DOMAIN Published -> SUBSET (HalValues \cup {Nobody})]]
      /\ qpc \in [Masters -> {"idle", "sent", "slots"}]
  BY DEF Shape, VirtualTypeOK
<1>2. Unseen \in [DOMAIN Published -> SUBSET (HalValues \cup {Nobody})]
  BY DEF Unseen
<1>3. /\ call' = [call EXCEPT ![m] = Nobody] /\ held' = [held EXCEPT ![m] = Unseen]
      /\ qpc' = [qpc EXCEPT ![m] = "idle"]
  BY DEF Returns
<1> QED BY <1>1, <1>2, <1>3

\* The listener hangs up and goes back to accept().
LEMMA HungUp ==
  ASSUME Shape, NEW l \in Listeners, lpc[l] \in {"serve", "header"}, HangUp(l)
  PROVE  /\ hung_up' \in Seq(BOOLEAN) /\ Len(hung_up') = Len(hung_up)
         /\ lpc' \in [Listeners -> OpenLabels \cup {"unborn", "bind", "ended"}]
         /\ serving' \in [Listeners -> Nat \cup {Nobody}]
         /\ lpc'[l] = "accept" /\ UNCHANGED <<bound, backlog>>
         /\ \A k \in Listeners \ {l} : lpc'[k] = lpc[k] /\ serving'[k] = serving[k]
<1>1. /\ hung_up \in Seq(BOOLEAN) /\ serving[l] \in 1..Len(hung_up)
      /\ lpc \in [Listeners -> OpenLabels \cup {"unborn", "bind", "ended"}]
      /\ serving \in [Listeners -> Nat \cup {Nobody}]
  BY Zenon DEF Shape, VirtualTypeOK, ConnectionsMade, Connections
<1>2. /\ [hung_up EXCEPT ![serving[l]] = TRUE] \in Seq(BOOLEAN)
      /\ Len([hung_up EXCEPT ![serving[l]] = TRUE]) = Len(hung_up)
  BY <1>1, ExceptSeq
<1>3. "accept" \in OpenLabels
  BY DEF OpenLabels
<1> QED BY <1>1, <1>2, <1>3 DEF HangUp, Wait

\* The listener ends, and resets the connections that queue.
LEMMA Closed ==
  ASSUME Shape, NEW l \in Listeners, Close(l)
  PROVE  /\ hung_up' \in Seq(BOOLEAN) /\ Len(hung_up') = Len(hung_up)
         /\ lpc' \in [Listeners -> OpenLabels \cup {"unborn", "bind", "ended"}]
         /\ serving' \in [Listeners -> Nat \cup {Nobody}]
         /\ lpc'[l] = "ended" /\ bound' = Nobody /\ backlog' = <<>>
         /\ \A k \in Listeners \ {l} : lpc'[k] = lpc[k] /\ serving'[k] = serving[k]
<1>1. /\ hung_up \in Seq(BOOLEAN) /\ Len(hung_up) \in Nat /\ DOMAIN hung_up = 1..Len(hung_up)
      /\ lpc \in [Listeners -> OpenLabels \cup {"unborn", "bind", "ended"}]
      /\ serving \in [Listeners -> Nat \cup {Nobody}]
  BY LenProperties DEF Shape, VirtualTypeOK
<1>2. hung_up' \in [1..Len(hung_up) -> BOOLEAN]
  BY <1>1, LenProperties DEF Close, Shape, VirtualTypeOK
<1>3. hung_up' \in Seq(BOOLEAN) /\ Len(hung_up') = Len(hung_up)
  BY <1>1, <1>2
<1> QED BY <1>1, <1>3 DEF Close, Wait

\* A step that leaves connections, ports and sockets alone.
LEMMA MadeKept ==
  ASSUME ConnectionsMade, UNCHANGED <<requests, answers, hung_up, backlog, lpc, serving, socket>>
  PROVE  ConnectionsMade'
BY DEF ConnectionsMade, Connections

\* A listener takes up, serves or drops a connection.
LEMMA MadeMoved ==
  ASSUME ConnectionsMade, NEW l \in Listeners, UNCHANGED <<requests, socket>>,
         Len(answers') = Len(answers), Len(hung_up') = Len(hung_up),
         \A i \in 1..Len(backlog') : backlog'[i] \in Connections,
         lpc'[l] \in {"serve", "header", "handle"} => serving'[l] \in Connections,
         \A k \in Listeners \ {l} : lpc'[k] = lpc[k] /\ serving'[k] = serving[k]
  PROVE  ConnectionsMade'
BY DEF ConnectionsMade, Connections

\* A listener's end leaves no connection waiting.
LEMMA MadeClosed ==
  ASSUME ConnectionsMade, NEW l \in Listeners, UNCHANGED <<requests, answers, socket>>,
         Len(hung_up') = Len(hung_up), lpc'[l] = "ended", backlog' = <<>>,
         \A k \in Listeners \ {l} : lpc'[k] = lpc[k] /\ serving'[k] = serving[k]
  PROVE  ConnectionsMade'
BY DEF ConnectionsMade, Connections

\* Every step keeps the shape of the state.
LEMMA ShapeNext ==
  ASSUME Shape, VirtualNext PROVE Shape'
<1> USE DEF Shape
<1>1. CASE ProgramPublishes
  <2>1. PICK s \in DOMAIN Published : \E v \in Published[s] : Publishes(s, v)
    BY <1>1 DEF ProgramPublishes
  <2>2. PICK v \in HalValues : Publishes(s, v)
    BY Zenon, <2>1, SignalsAssumption
  <2>3. /\ plant' \in [DOMAIN Published -> HalValues \cup {Nobody}]
        /\ held' \in [Masters -> [DOMAIN Published -> SUBSET (HalValues \cup {Nobody})]]
    BY Zenon, <2>2, SeenByAll
  <2>4. updates' \in Nat /\ UNCHANGED <<virtual, scenario, listenerVars, socketVars, masterVars, late>>
    BY <1>1 DEF ProgramPublishes, VirtualTypeOK
  <2>5. VirtualTypeOK'
    BY <2>3, <2>4 DEF VirtualTypeOK, listenerVars, socketVars, masterVars
  <2>6. ConnectionsMade'
    BY Zenon, <2>4, MadeKept DEF listenerVars, socketVars, masterVars
  <2>7. InHand'
    BY Zenon, <2>4 DEF InHand, Connections, listenerVars, socketVars, masterVars
  <2> QED BY <2>5, <2>6, <2>7
<1>2. CASE Start
  <2>1. PICK l \in 1..scenario.starts : lpc[l] = "unborn" /\ lpc' = [lpc EXCEPT ![l] = "bind"]
    BY Zenon, <1>2 DEF Start, Wait
  <2>2. l \in Listeners
    BY <2>1, SignalsAssumption, VirtualAssumption DEF VirtualTypeOK, Listeners
  <2>3. /\ lpc' \in [Listeners -> OpenLabels \cup {"unborn", "bind", "ended"}]
        /\ lpc'[l] = "bind" /\ \A k \in Listeners \ {l} : lpc'[k] = lpc[k]
    BY <2>1, <2>2 DEF VirtualTypeOK
  <2>4. running' = TRUE /\ late' = 0
        /\ UNCHANGED <<virtual, scenario, plant, serving, frame, words, bound, stops, socketVars,
                       masterVars, held, updates>>
    BY <1>2 DEF Start
  <2>5. VirtualTypeOK'
    BY <2>3, <2>4 DEF VirtualTypeOK, socketVars, masterVars
  <2>6. ConnectionsMade'
    BY Zenon, <2>3, <2>4 DEF ConnectionsMade, Connections, socketVars, masterVars
  <2>7. InHand'
    BY <2>1, <2>3, <2>4 DEF InHand, Connections, socketVars, masterVars
  <2> QED BY <2>5, <2>6, <2>7
<1>3. CASE Stop
  <2>1. running' = FALSE /\ stops' \in Nat
        /\ UNCHANGED <<virtual, scenario, plant, lpc, serving, frame, words, bound, socketVars,
                       masterVars, held, updates, late>>
    BY <1>3 DEF Stop, VirtualTypeOK
  <2>2. VirtualTypeOK'
    BY Zenon, <2>1 DEF VirtualTypeOK, socketVars, masterVars
  <2>3. ConnectionsMade'
    BY Zenon, <2>1, MadeKept DEF socketVars, masterVars
  <2>4. InHand'
    BY Zenon, <2>1 DEF InHand, Connections, socketVars, masterVars
  <2> QED BY <2>2, <2>3, <2>4
<1>4. ASSUME NEW l \in Listeners, Bind(l) PROVE Shape'
  <2>1. /\ lpc[l] = "bind" /\ bound' \in Listeners \cup {Nobody}
        /\ lpc' \in [Listeners -> OpenLabels \cup {"unborn", "bind", "ended"}]
        /\ lpc'[l] \in {"accept", "ended"} /\ \A k \in Listeners \ {l} : lpc'[k] = lpc[k]
    BY Zenon, <1>4 DEF Bind, Wait, VirtualTypeOK, OpenLabels
  <2>2. UNCHANGED <<virtual, scenario, plant, running, serving, frame, words, stops, socketVars,
                    masterVars, held, updates, late>>
    BY <1>4 DEF Bind
  <2>3. VirtualTypeOK'
    BY <2>1, <2>2 DEF VirtualTypeOK, socketVars, masterVars
  <2>4. ConnectionsMade'
    BY Zenon, <2>1, <2>2 DEF ConnectionsMade, Connections, socketVars, masterVars
  <2>5. InHand'
    BY <2>1, <2>2 DEF InHand, Connections, socketVars, masterVars
  <2> QED BY <2>3, <2>4, <2>5
<1>5. ASSUME NEW l \in Listeners, Accept(l) PROVE Shape'
  <2>1. /\ lpc[l] = "accept" /\ backlog # <<>>
        /\ UNCHANGED <<virtual, scenario, plant, running, frame, words, stops, requests, answers,
                       masterVars, held, updates, late>>
    BY <1>5 DEF Accept
  <2>2. CASE running
    <3>1. /\ serving' = [serving EXCEPT ![l] = Head(backlog)] /\ backlog' = Tail(backlog)
          /\ lpc' = [lpc EXCEPT ![l] = "serve"] /\ UNCHANGED <<bound, hung_up>>
      BY <1>5, <2>2 DEF Accept, Wait
    <3>2. /\ Head(backlog) = backlog[1] /\ 1 \in 1..Len(backlog) /\ Head(backlog) \in Nat
          /\ Tail(backlog) \in Seq(Nat) /\ Len(Tail(backlog)) = Len(backlog) - 1
          /\ Len(backlog) \in Nat
          /\ \A i \in 1..Len(backlog) - 1 : Tail(backlog)[i] = backlog[i + 1]
      BY <2>1, HeadTailProperties, EmptySeq, LenProperties DEF VirtualTypeOK
    <3>3. \A i \in 1..Len(backlog') : backlog'[i] \in Connections
      BY <3>1, <3>2 DEF ConnectionsMade
    <3>4. /\ lpc' \in [Listeners -> OpenLabels \cup {"unborn", "bind", "ended"}]
          /\ serving' \in [Listeners -> Nat \cup {Nobody}]
          /\ lpc'[l] = "serve" /\ serving'[l] = backlog[1]
          /\ \A k \in Listeners \ {l} : lpc'[k] = lpc[k] /\ serving'[k] = serving[k]
      BY Zenon, <3>1, <3>2 DEF VirtualTypeOK, OpenLabels
    <3>5. VirtualTypeOK'
      BY Zenon, <2>1, <3>1, <3>2, <3>4 DEF VirtualTypeOK, masterVars
    <3>6. ConnectionsMade'
      <4>1. backlog[1] \in Connections
        BY <3>2 DEF ConnectionsMade
      <4> QED BY Zenon, <2>1, <3>1, <3>3, <3>4, <4>1, MadeMoved DEF masterVars
    <3>7. InHand'
      BY Zenon, <2>1, <3>1, <3>4 DEF InHand, Connections, masterVars
    <3> QED BY <3>5, <3>6, <3>7
  <2>3. CASE ~running
    <3>1. /\ hung_up' \in Seq(BOOLEAN) /\ Len(hung_up') = Len(hung_up)
          /\ lpc' \in [Listeners -> OpenLabels \cup {"unborn", "bind", "ended"}]
          /\ serving' \in [Listeners -> Nat \cup {Nobody}]
          /\ lpc'[l] = "ended" /\ bound' = Nobody /\ backlog' = <<>>
          /\ \A k \in Listeners \ {l} : lpc'[k] = lpc[k] /\ serving'[k] = serving[k]
      BY Zenon, <1>5, <2>3, Closed DEF Accept
    <3>2. <<>> \in Seq(Nat) /\ Len(<<>>) = 0
      BY Zenon, EmptySeq
    <3>5. VirtualTypeOK'
      BY Zenon, <2>1, <3>1, <3>2 DEF VirtualTypeOK, masterVars
    <3>6. ConnectionsMade'
      BY Zenon, <2>1, <3>1, MadeClosed DEF masterVars
    <3>7. InHand'
      BY <2>1, <3>1 DEF InHand, Connections, masterVars
    <3> QED BY <3>5, <3>6, <3>7
  <2> QED BY Zenon, <2>2, <2>3
<1>6. ASSUME NEW l \in Listeners, ServeHead(l) \/ Silence(l) PROVE Shape'
  <2>1. /\ lpc[l] \in {"serve", "header"}
        /\ UNCHANGED <<virtual, scenario, plant, running, frame, words, stops, requests, answers,
                       masterVars, held, updates, late>>
    BY Zenon, <1>6 DEF ServeHead, Silence
  <2>2. CASE HangUp(l)
    <3>1. /\ hung_up' \in Seq(BOOLEAN) /\ Len(hung_up') = Len(hung_up)
          /\ lpc' \in [Listeners -> OpenLabels \cup {"unborn", "bind", "ended"}]
          /\ serving' \in [Listeners -> Nat \cup {Nobody}]
          /\ lpc'[l] = "accept" /\ UNCHANGED <<bound, backlog>>
          /\ \A k \in Listeners \ {l} : lpc'[k] = lpc[k] /\ serving'[k] = serving[k]
      BY Zenon, <2>1, <2>2, HungUp
    <3>5. VirtualTypeOK'
      BY Zenon, <2>1, <3>1 DEF VirtualTypeOK, masterVars
    <3>6. ConnectionsMade'
      BY Zenon, <2>1, <3>1 DEF ConnectionsMade, Connections, masterVars
    <3>7. InHand'
      BY Zenon, <2>1, <3>1 DEF InHand, Connections, masterVars
    <3> QED BY <3>5, <3>6, <3>7
  <2>3. CASE ~HangUp(l)
    <3>1. lpc[l] = "serve" /\ lpc' = [lpc EXCEPT ![l] = "header"]
          /\ UNCHANGED <<serving, bound, backlog, hung_up>>
      BY <1>6, <2>3 DEF ServeHead, Silence, Wait
    <3>2. /\ lpc' \in [Listeners -> OpenLabels \cup {"unborn", "bind", "ended"}]
          /\ lpc'[l] = "header" /\ \A k \in Listeners \ {l} : lpc'[k] = lpc[k]
      BY Zenon, <3>1 DEF VirtualTypeOK, OpenLabels
    <3>5. VirtualTypeOK'
      BY Zenon, <2>1, <3>1, <3>2 DEF VirtualTypeOK, masterVars
    <3>6. ConnectionsMade'
      BY Zenon, <2>1, <3>1, <3>2 DEF ConnectionsMade, Connections, masterVars
    <3>7. InHand'
      BY <2>1, <3>1, <3>2 DEF InHand, Connections, masterVars
    <3> QED BY <3>5, <3>6, <3>7
  <2> QED BY Zenon, <2>2, <2>3
<1>7. ASSUME NEW l \in Listeners, TakeFrame(l) PROVE Shape'
  <2> DEFINE r == Head(requests[serving[l]])
  <2>1. /\ lpc[l] = "header" /\ requests[serving[l]] # <<>>
        /\ requests' = [requests EXCEPT ![serving[l]] = Tail(@)]
        /\ IF r.size < 0 THEN HangUp(l) /\ UNCHANGED frame
           ELSE /\ frame' = [frame EXCEPT ![l] = r] /\ lpc' = [lpc EXCEPT ![l] = "handle"]
                /\ UNCHANGED <<serving, bound, backlog, hung_up>>
        /\ late' = (IF running THEN 0 ELSE late + 1)
        /\ UNCHANGED <<virtual, scenario, plant, running, words, stops, answers, masterVars, held, updates>>
    BY Zenon, <1>7 DEF TakeFrame, Wait
  <2>2. serving[l] \in 1..Len(requests) /\ requests \in Seq(Seq(ModbusRequests))
    BY Zenon, <2>1 DEF ConnectionsMade, Connections, VirtualTypeOK
  <2>3. /\ [requests EXCEPT ![serving[l]] = Tail(@)] \in Seq(Seq(ModbusRequests))
        /\ Len([requests EXCEPT ![serving[l]] = Tail(@)]) = Len(requests)
        /\ Head(requests[serving[l]]) \in ModbusRequests
    BY Zenon, <2>1, <2>2, Taken
  <2> HIDE DEF r
  <2>4. requests' \in Seq(Seq(ModbusRequests)) /\ Len(requests') = Len(requests) /\ late' \in Nat
        /\ r \in ModbusRequests
    BY <2>1, <2>3 DEF VirtualTypeOK, r
  <2>5. CASE r.size < 0
    <3>1. /\ hung_up' \in Seq(BOOLEAN) /\ Len(hung_up') = Len(hung_up)
          /\ lpc' \in [Listeners -> OpenLabels \cup {"unborn", "bind", "ended"}]
          /\ serving' \in [Listeners -> Nat \cup {Nobody}]
          /\ lpc'[l] = "accept" /\ UNCHANGED <<bound, backlog>>
          /\ \A k \in Listeners \ {l} : lpc'[k] = lpc[k] /\ serving'[k] = serving[k]
      BY <2>1, <2>5, HungUp
    <3>4. UNCHANGED frame
      BY Zenon, <2>1, <2>5
    <3>5. VirtualTypeOK'
      BY Zenon, <2>1, <2>4, <3>1, <3>4 DEF VirtualTypeOK, masterVars
    <3>6. ConnectionsMade'
      BY Zenon, <2>1, <2>4, <3>1 DEF ConnectionsMade, Connections, masterVars
    <3>7. InHand'
      BY Zenon, <2>1, <2>4, <3>1, <3>4 DEF InHand, Connections, masterVars
    <3> QED BY <3>5, <3>6, <3>7
  <2>6. CASE ~(r.size < 0)
    <3>1. /\ frame' = [frame EXCEPT ![l] = r] /\ lpc' = [lpc EXCEPT ![l] = "handle"]
          /\ UNCHANGED <<serving, bound, backlog, hung_up>>
      BY <2>1, <2>6
    <3>2. /\ lpc' \in [Listeners -> OpenLabels \cup {"unborn", "bind", "ended"}]
          /\ frame' \in [Listeners -> ModbusRequests \cup {Nobody}]
          /\ lpc'[l] = "handle" /\ frame'[l] = r
          /\ \A k \in Listeners \ {l} : lpc'[k] = lpc[k] /\ frame'[k] = frame[k]
      BY Zenon, <2>4, <3>1 DEF VirtualTypeOK, OpenLabels
    <3>5. VirtualTypeOK'
      BY Zenon, <2>1, <2>4, <3>1, <3>2 DEF VirtualTypeOK, masterVars
    <3>6. ConnectionsMade'
      BY <2>1, <2>4, <3>1, <3>2 DEF ConnectionsMade, Connections, masterVars
    <3>7. InHand'
      BY <2>1, <2>4, <3>1, <3>2 DEF InHand, Connections, masterVars
    <3> QED BY <3>5, <3>6, <3>7
  <2> QED BY Zenon, <2>5, <2>6
<1>8. ASSUME NEW l \in Listeners, Refuse(l) \/ ReadEnds(l) PROVE Shape'
  <2>1. /\ lpc[l] = "handle" /\ Refusal(frame[l]) \in Nat /\ words[l] \in Seq(Int) /\ <<>> \in Seq(Int)
    BY Zenon, <1>8, RefusalTyped, EmptySeq DEF Refuse, ReadEnds, Allowed, VirtualTypeOK
  <2>2. \E exc \in Nat : \E ws \in Seq(Int) : Respond(l, exc, ws)
    BY Zenon, <1>8, <2>1 DEF Refuse, ReadEnds
  <2>3. UNCHANGED <<scenario, plant, running, serving, bound, stops, backlog, requests, hung_up,
                    masterVars, held, updates, late>>
    BY Zenon, <1>8 DEF Refuse, ReadEnds
  <2>4. /\ plant' \in [DOMAIN Published -> HalValues \cup {Nobody}]
        /\ held' \in [Masters -> [DOMAIN Published -> SUBSET (HalValues \cup {Nobody})]]
    BY <2>3 DEF VirtualTypeOK
  <2> HIDE DEF Shape
  <2> QED BY Zenon, <2>1, <2>2, <2>3, <2>4, ShapeResponded
<1>9. ASSUME NEW l \in Listeners, ReadNext(l) PROVE Shape'
  <2> DEFINE r == frame[l]  i == Len(words[l])
             v == IF IsMapped(r, i) THEN plant[SignalAt(r, i)] ELSE Nobody
  <2>1. /\ lpc[l] = "handle" /\ r.fc \in Reads /\ words[l] \in Seq(Int)
        /\ IF IsMapped(r, i) \/ r.fc = 2
           THEN words' = [words EXCEPT ![l] = Append(@, Converted(r.fc, v))] /\ UNCHANGED <<lpc, frame, answers>>
           ELSE Respond(l, 2, <<>>)
        /\ UNCHANGED <<scenario, plant, running, serving, bound, stops, backlog, requests, hung_up,
                       masterVars, held, updates, late>>
    BY Zenon, <1>9 DEF ReadNext, Allowed, VirtualTypeOK
  <2>2. v \in HalValues \cup {Nobody}
    BY <2>1, MappedSignal DEF VirtualTypeOK
  <2>3. Converted(r.fc, v) \in Int
    BY Zenon, <2>1, <2>2, ConvertedTyped
  <2> HIDE DEF r, i, v
  <2>4. CASE IsMapped(r, i) \/ r.fc = 2
    <3>1. words' = [words EXCEPT ![l] = Append(@, Converted(r.fc, v))] /\ UNCHANGED <<lpc, frame, answers>>
      BY Zenon, <2>1, <2>4
    <3>2. Append(words[l], Converted(r.fc, v)) \in Seq(Int)
      BY Zenon, <2>1, <2>3, Grown
    <3>3. words' \in [Listeners \cup Masters -> Seq(Int)]
          /\ \A k \in (Listeners \cup Masters) \ {l} : words'[k] = words[k]
      BY <3>1, <3>2 DEF VirtualTypeOK
    <3>4. \A m \in Masters : words'[m] = words[m]
      BY Zenon, <3>3, VirtualAssumption DEF Listeners
    <3>5. VirtualTypeOK'
      BY <2>1, <3>1, <3>3 DEF VirtualTypeOK, masterVars
    <3>6. ConnectionsMade'
      BY Zenon, <2>1, <3>1 DEF ConnectionsMade, Connections, masterVars
    <3>7. InHand'
      BY Zenon, <2>1, <3>1, <3>3, <3>4 DEF InHand, Connections, masterVars
    <3> QED BY <3>5, <3>6, <3>7
  <2>5. CASE ~(IsMapped(r, i) \/ r.fc = 2)
    <3>1. Respond(l, 2, <<>>) /\ <<>> \in Seq(Int)
      BY Zenon, <2>1, <2>5, EmptySeq
    <3>2. /\ plant' \in [DOMAIN Published -> HalValues \cup {Nobody}]
          /\ held' \in [Masters -> [DOMAIN Published -> SUBSET (HalValues \cup {Nobody})]]
      BY Zenon, <2>1 DEF VirtualTypeOK
    <3> HIDE DEF Shape
    <3> QED BY Zenon, <2>1, <3>1, <3>2, ShapeResponded
  <2> QED BY Zenon, <2>4, <2>5
<1>10. ASSUME NEW l \in Listeners, ReadPanics(l) PROVE Shape'
  <2>1. /\ lpc[l] = "handle"
        /\ UNCHANGED <<virtual, scenario, plant, running, frame, words, stops, requests, answers,
                       masterVars, held, updates, late>>
    BY Zenon, <1>10 DEF ReadPanics, Allowed
  <2>2. /\ hung_up' \in Seq(BOOLEAN) /\ Len(hung_up') = Len(hung_up)
        /\ lpc' \in [Listeners -> OpenLabels \cup {"unborn", "bind", "ended"}]
        /\ serving' \in [Listeners -> Nat \cup {Nobody}]
        /\ lpc'[l] = "ended" /\ bound' = Nobody /\ backlog' = <<>>
        /\ \A k \in Listeners \ {l} : lpc'[k] = lpc[k] /\ serving'[k] = serving[k]
    BY Zenon, <1>10, Closed DEF ReadPanics
  <2>3. <<>> \in Seq(Nat) /\ Len(<<>>) = 0
    BY EmptySeq
  <2>5. VirtualTypeOK'
    BY <2>1, <2>2, <2>3 DEF VirtualTypeOK, masterVars
  <2>6. ConnectionsMade'
    BY Zenon, <2>1, <2>2, MadeClosed DEF masterVars
  <2>7. InHand'
    BY Zenon, <2>1, <2>2 DEF InHand, Connections, masterVars
  <2> QED BY <2>5, <2>6, <2>7
<1>11. ASSUME NEW l \in Listeners, WriteSignal(l) PROVE Shape'
  <2> DEFINE s == SignalAt(frame[l], 0)  v == FirstWritten(frame[l])
  <2>1. /\ lpc[l] = "handle" /\ frame[l].fc \in Writes /\ frame[l] \in ModbusRequests
        /\ \/ IsMapped(frame[l], 0) /\ Publishes(s, v) /\ Respond(l, 0, <<>>)
           \/ UNCHANGED <<plant, held>> /\ Respond(l, 2, <<>>)
        /\ UNCHANGED <<scenario, running, serving, bound, stops, backlog, requests, hung_up,
                       masterVars, updates, late>>
    BY Zenon, <1>11 DEF WriteSignal, Allowed, InHand
  <2>2. IsMapped(frame[l], 0) => s \in DOMAIN Published
    BY Zenon, <2>1, MappedSignal
  <2>3. v \in HalValues
    BY Zenon, <2>1, WrittenTyped
  <2> HIDE DEF s, v
  <2>4. /\ plant' \in [DOMAIN Published -> HalValues \cup {Nobody}]
        /\ held' \in [Masters -> [DOMAIN Published -> SUBSET (HalValues \cup {Nobody})]]
    <3>1. CASE UNCHANGED <<plant, held>>
      BY Zenon, <3>1 DEF VirtualTypeOK
    <3>2. CASE IsMapped(frame[l], 0) /\ Publishes(s, v)
      BY Zenon, <2>2, <2>3, <3>2, SeenByAll
    <3> QED BY Zenon, <2>1, <3>1, <3>2
  <2>5. \E exc \in Nat : Respond(l, exc, <<>>)
    BY <2>1
  <2>6. <<>> \in Seq(Int)
    BY EmptySeq
  <2> HIDE DEF Shape
  <2> QED BY Zenon, <2>1, <2>4, <2>5, <2>6, ShapeResponded
<1>12. ASSUME NEW m \in Masters, Connect(m) PROVE Shape'
  <2>1. /\ socket[m] = Nobody
        /\ socket' = [socket EXCEPT ![m] = Len(requests) + 1]
        /\ backlog' = Append(backlog, Len(requests) + 1)
        /\ requests' = Append(requests, <<>>) /\ answers' = Append(answers, <<>>)
        /\ hung_up' = Append(hung_up, FALSE)
        /\ UNCHANGED <<virtual, scenario, plant, listenerVars, qpc, call, queries, held, updates, late>>
    BY <1>12 DEF Connect
  <2>2. requests \in Seq(Seq(ModbusRequests)) /\ answers \in Seq(Seq(ModbusAnswers))
        /\ hung_up \in Seq(BOOLEAN) /\ backlog \in Seq(Nat) /\ Len(requests) \in Nat
    BY LenProperties DEF VirtualTypeOK
  <2>3. requests' \in Seq(Seq(ModbusRequests)) /\ Len(requests') = Len(requests) + 1
    BY <2>1, <2>2, Opened
  <2>4. answers' \in Seq(Seq(ModbusAnswers)) /\ Len(answers') = Len(answers) + 1
    BY Zenon, <2>1, <2>2, Opened
  <2>5. hung_up' \in Seq(BOOLEAN) /\ Len(hung_up') = Len(hung_up) + 1
    BY <2>1, <2>2, Grown
  <2>6. /\ backlog' \in Seq(Nat) /\ Len(backlog) \in Nat /\ Len(backlog') = Len(backlog) + 1
        /\ \A i \in 1..Len(backlog) : backlog'[i] = backlog[i]
        /\ backlog'[Len(backlog) + 1] = Len(requests) + 1
    BY <2>1, <2>2, Grown
  <2>7. /\ socket' \in [Masters -> Nat \cup {Nobody}]
        /\ \A n \in Masters : socket'[n] = IF n = m THEN Len(requests) + 1 ELSE socket[n]
    BY <2>1, <2>2 DEF VirtualTypeOK
  <2>8. VirtualTypeOK'
    BY <2>1, <2>3, <2>4, <2>5, <2>6, <2>7 DEF VirtualTypeOK, listenerVars
  <2>9. Connections \subseteq Connections' /\ Len(requests) + 1 \in Connections'
    BY <2>2, <2>3 DEF Connections
  <2>10. \A i \in 1..Len(backlog') : backlog'[i] \in Connections'
    BY <2>6, <2>9 DEF ConnectionsMade
  <2>11. ConnectionsMade'
    BY Zenon, <2>1, <2>3, <2>4, <2>5, <2>7, <2>9, <2>10 DEF ConnectionsMade, listenerVars
  <2>12. InHand'
    BY Zenon, <2>1, <2>7, <2>9 DEF InHand, listenerVars
  <2> QED BY <2>8, <2>11, <2>12
<1>13. ASSUME NEW m \in Masters, Disconnect(m) PROVE Shape'
  <2>1. /\ qpc[m] = "idle" /\ socket' = [socket EXCEPT ![m] = Nobody]
        /\ UNCHANGED <<virtual, scenario, plant, listenerVars, socketVars, qpc, call, queries, held,
                       updates, late>>
    BY Zenon, <1>13 DEF Disconnect
  <2>2. /\ socket' \in [Masters -> Nat \cup {Nobody}]
        /\ \A n \in Masters : socket'[n] = IF n = m THEN Nobody ELSE socket[n]
    BY Zenon, <2>1 DEF VirtualTypeOK
  <2>5. VirtualTypeOK'
    BY <2>1, <2>2 DEF VirtualTypeOK, listenerVars, socketVars
  <2>6. ConnectionsMade'
    BY Zenon, <2>1, <2>2 DEF ConnectionsMade, Connections, listenerVars, socketVars
  <2>7. InHand'
    BY Zenon, <2>1, <2>2 DEF InHand, Connections, listenerVars, socketVars
  <2> QED BY <2>5, <2>6, <2>7
<1>14. ASSUME NEW m \in Masters, Send(m) PROVE Shape'
  <2>1. PICK q \in scenario.requests :
          /\ Asks(m, [q EXCEPT !.tid = queries])
          /\ requests' = IF hung_up[socket[m]] THEN requests
                         ELSE [requests EXCEPT ![socket[m]] = Append(@, [q EXCEPT !.tid = queries])]
    BY Zenon, <1>14 DEF Send
  <2>2. /\ socket[m] # Nobody /\ qpc' = [qpc EXCEPT ![m] = "sent"]
        /\ UNCHANGED <<virtual, scenario, plant, listenerVars, backlog, answers, hung_up, socket,
                       updates, late>>
    BY <1>14 DEF Send
  <2>3. q \in ModbusRequests /\ queries \in Int
    BY <2>1, SignalsAssumption DEF VirtualTypeOK
  <2> DEFINE r == [q EXCEPT !.tid = queries]
  <2>4. r \in ModbusRequests
    BY Zenon, <2>3 DEF ModbusRequests
  <2> HIDE DEF r
  <2>5. /\ Asks(m, r)
        /\ requests' = IF hung_up[socket[m]] THEN requests
                       ELSE [requests EXCEPT ![socket[m]] = Append(@, r)]
    BY <2>1 DEF r
  <2>6. /\ call' \in [Masters -> ModbusRequests \cup HartCommands \cup {Nobody}]
        /\ held' \in [Masters -> [DOMAIN Published -> SUBSET (HalValues \cup {Nobody})]]
        /\ queries' \in Nat /\ qpc[m] = "idle" /\ call'[m] = r
        /\ \A n \in Masters \ {m} : call'[n] = call[n]
    BY Zenon, <2>4, <2>5, Asked
  <2>7. /\ qpc' \in [Masters -> {"idle", "sent", "slots"}] /\ qpc'[m] = "sent"
        /\ \A n \in Masters \ {m} : qpc'[n] = qpc[n]
    BY Zenon, <2>2 DEF VirtualTypeOK
  <2>8. socket[m] \in 1..Len(requests) /\ requests \in Seq(Seq(ModbusRequests))
    BY Zenon, <2>2 DEF ConnectionsMade, Connections, VirtualTypeOK
  <2>9. /\ [requests EXCEPT ![socket[m]] = Append(@, r)] \in Seq(Seq(ModbusRequests))
        /\ Len([requests EXCEPT ![socket[m]] = Append(@, r)]) = Len(requests)
    BY <2>4, <2>8, Written
  <2>10. requests' \in Seq(Seq(ModbusRequests)) /\ Len(requests') = Len(requests)
    BY Zenon, <2>5, <2>8, <2>9
  <2>11. VirtualTypeOK'
    BY Zenon, <2>2, <2>6, <2>7, <2>10 DEF VirtualTypeOK, listenerVars
  <2>12. ConnectionsMade'
    BY Zenon, <2>2, <2>10 DEF ConnectionsMade, Connections, listenerVars
  <2>13. InHand'
    BY Zenon, <2>2, <2>4, <2>6, <2>7, <2>8, <2>10 DEF InHand, Connections, listenerVars
  <2> QED BY <2>11, <2>12, <2>13
<1>15. ASSUME NEW m \in Masters, Answered(m) \/ CallFails(m) PROVE Shape'
  <2>1. /\ qpc[m] = "sent" /\ Returns(m)
        /\ \/ answers[socket[m]] # <<>> /\ answers' = [answers EXCEPT ![socket[m]] = Tail(@)]
           \/ UNCHANGED answers
        /\ UNCHANGED <<virtual, scenario, plant, listenerVars, backlog, requests, hung_up, socket,
                       queries, updates, late>>
    BY Zenon, <1>15 DEF Answered, CallFails, socketVars
  <2>2. socket[m] \in 1..Len(answers) /\ answers \in Seq(Seq(ModbusAnswers))
    BY Zenon, <2>1 DEF ConnectionsMade, InHand, Connections, VirtualTypeOK
  <2>3. answers' \in Seq(Seq(ModbusAnswers)) /\ Len(answers') = Len(answers)
    <3>1. CASE answers[socket[m]] # <<>> /\ answers' = [answers EXCEPT ![socket[m]] = Tail(@)]
      <4>1. /\ [answers EXCEPT ![socket[m]] = Tail(@)] \in Seq(Seq(ModbusAnswers))
            /\ Len([answers EXCEPT ![socket[m]] = Tail(@)]) = Len(answers)
        BY <2>2, <3>1, Taken
      <4> QED BY <3>1, <4>1
    <3>2. CASE UNCHANGED answers
      BY <2>2, <3>2
    <3> QED BY Zenon, <2>1, <3>1, <3>2
  <2>4. /\ call' \in [Masters -> ModbusRequests \cup HartCommands \cup {Nobody}]
        /\ held' \in [Masters -> [DOMAIN Published -> SUBSET (HalValues \cup {Nobody})]]
        /\ qpc' \in [Masters -> {"idle", "sent", "slots"}] /\ qpc'[m] = "idle"
        /\ \A n \in Masters \ {m} : qpc'[n] = qpc[n] /\ call'[n] = call[n]
    BY Zenon, <2>1, Returned
  <2>5. VirtualTypeOK'
    BY Zenon, <2>1, <2>3, <2>4 DEF VirtualTypeOK, listenerVars
  <2>6. ConnectionsMade'
    BY Zenon, <2>1, <2>3 DEF ConnectionsMade, Connections, listenerVars
  <2>7. InHand'
    BY Zenon, <2>1, <2>4 DEF InHand, Connections, listenerVars
  <2> QED BY <2>5, <2>6, <2>7
<1>16. ASSUME NEW m \in Masters, HartCommand(m) PROVE Shape'
  <2>1. PICK cmd \in 0..4 : Asks(m, [cmd |-> cmd])
    BY <1>16 DEF HartCommand
  <2>2. /\ qpc' = [qpc EXCEPT ![m] = "slots"]
        /\ UNCHANGED <<virtual, scenario, plant, listenerVars, socketVars, socket, updates, late>>
    BY <1>16 DEF HartCommand
  <2> DEFINE r == [cmd |-> cmd]
  <2>3. r \in HartCommands /\ Asks(m, r)
    BY Zenon, <2>1 DEF HartCommands
  <2> HIDE DEF r
  <2>4. /\ call' \in [Masters -> ModbusRequests \cup HartCommands \cup {Nobody}]
        /\ held' \in [Masters -> [DOMAIN Published -> SUBSET (HalValues \cup {Nobody})]]
        /\ queries' \in Nat /\ qpc[m] = "idle" /\ call'[m] = r
        /\ \A n \in Masters \ {m} : call'[n] = call[n]
    BY Zenon, <2>3, Asked
  <2>5. /\ qpc' \in [Masters -> {"idle", "sent", "slots"}] /\ qpc'[m] = "slots"
        /\ \A n \in Masters \ {m} : qpc'[n] = qpc[n]
    BY Zenon, <2>2 DEF VirtualTypeOK
  <2>6. VirtualTypeOK'
    BY <2>2, <2>4, <2>5 DEF VirtualTypeOK, listenerVars, socketVars
  <2>7. ConnectionsMade'
    BY Zenon, <2>2, MadeKept DEF listenerVars, socketVars
  <2>8. InHand'
    BY Zenon, <2>2, <2>3, <2>4, <2>5 DEF InHand, Connections, listenerVars, socketVars
  <2> QED BY <2>6, <2>7, <2>8
<1>17. ASSUME NEW m \in Masters, ReadSlot(m) \/ HartAnswers(m) PROVE Shape'
  <2> DEFINE slot == SlotsOf(call[m].cmd)[Len(words[m]) + 1]
             v == AsFloat(plant[Mapped["slots"][slot]])
  <2>1. /\ qpc[m] = "slots"
        /\ \/ /\ slot \in DOMAIN Mapped["slots"]
              /\ words' = [words EXCEPT ![m] = Append(@, v)] /\ UNCHANGED <<qpc, call, held>>
           \/ Returns(m) /\ words' = [words EXCEPT ![m] = <<>>]
        /\ UNCHANGED <<virtual, scenario, plant, running, lpc, serving, frame, bound, stops, socketVars,
                       socket, queries, updates, late>>
    BY Zenon, <1>17 DEF ReadSlot, HartAnswers, Answering
  <2>2. slot \in DOMAIN Mapped["slots"] => v \in Int
    <3> SUFFICES ASSUME slot \in DOMAIN Mapped["slots"] PROVE v \in Int
      BY Zenon
    <3>1. Mapped["slots"][slot] \in DOMAIN Published
      BY Zenon, SignalsAssumption DEF Tables
    <3>2. plant[Mapped["slots"][slot]] \in HalValues \cup {Nobody}
      BY <3>1 DEF VirtualTypeOK
    <3> QED BY Zenon, <3>2, ConvertedTyped
  <2> HIDE DEF v, slot
  <2>3. \A l \in Listeners : l # m
    BY Zenon, VirtualAssumption DEF Listeners
  <2>4. CASE /\ slot \in DOMAIN Mapped["slots"]
             /\ words' = [words EXCEPT ![m] = Append(@, v)] /\ UNCHANGED <<qpc, call, held>>
    <3>1. words[m] \in Seq(Int)
      BY Zenon DEF VirtualTypeOK
    <3>2. Append(words[m], v) \in Seq(Int)
      BY Zenon, <2>2, <2>4, <3>1, Grown
    <3>3. words' \in [Listeners \cup Masters -> Seq(Int)]
          /\ \A k \in (Listeners \cup Masters) \ {m} : words'[k] = words[k]
      BY Zenon, <2>4, <3>2 DEF VirtualTypeOK
    <3>5. VirtualTypeOK'
      BY <2>1, <2>4, <3>3 DEF VirtualTypeOK, socketVars
    <3>6. ConnectionsMade'
      BY Zenon, <2>1, MadeKept DEF socketVars
    <3>7. InHand'
      BY Zenon, <2>1, <2>3, <2>4, <3>3 DEF InHand, Connections, socketVars
    <3> QED BY <3>5, <3>6, <3>7
  <2>5. CASE Returns(m) /\ words' = [words EXCEPT ![m] = <<>>]
    <3>1. /\ call' \in [Masters -> ModbusRequests \cup HartCommands \cup {Nobody}]
          /\ held' \in [Masters -> [DOMAIN Published -> SUBSET (HalValues \cup {Nobody})]]
          /\ qpc' \in [Masters -> {"idle", "sent", "slots"}] /\ qpc'[m] = "idle"
          /\ \A n \in Masters \ {m} : qpc'[n] = qpc[n] /\ call'[n] = call[n]
      BY <2>5, Returned
    <3>2. <<>> \in Seq(Int)
      BY Zenon, EmptySeq
    <3>3. /\ words' \in [Listeners \cup Masters -> Seq(Int)] /\ words'[m] = <<>>
          /\ \A k \in (Listeners \cup Masters) \ {m} : words'[k] = words[k]
      BY Zenon, <2>5, <3>2 DEF VirtualTypeOK
    <3>5. VirtualTypeOK'
      BY <2>1, <3>1, <3>3 DEF VirtualTypeOK, socketVars
    <3>6. ConnectionsMade'
      BY Zenon, <2>1, MadeKept DEF socketVars
    <3>7. InHand'
      BY Zenon, <2>1, <2>3, <3>1, <3>3 DEF InHand, Connections, socketVars
    <3> QED BY <3>5, <3>6, <3>7
  <2> QED BY Zenon, <2>1, <2>4, <2>5
<1> QED
  BY Zenon, <1>1, <1>2, <1>3, <1>4, <1>5, <1>6, <1>7, <1>8, <1>9, <1>10, <1>11, <1>12, <1>13, <1>14, <1>15,
     <1>16, <1>17 DEF VirtualNext, ListenerStep, MasterStep

-----------------------------------------------------------------------------
(* stop() *)

\* A listener that changes its label keeps the port, or gives it back.
LEMMA OneListenerMoved ==
  ASSUME Shape, OneListener, NEW l \in Listeners, lpc[l] \in OpenLabels,
         lpc' \in [Listeners -> OpenLabels \cup {"unborn", "bind", "ended"}],
         \A k \in Listeners \ {l} : lpc'[k] = lpc[k],
         bound' = bound \/ (bound' = Nobody /\ lpc'[l] = "ended"),
         UNCHANGED <<running, late>>, lpc'[l] = "header" => running \/ lpc[l] = "header"
  PROVE  OneListener'
<1>1. \A k \in Listeners \ {l} : lpc[k] \notin OpenLabels
  BY DEF OneListener
<1>2. \A k \in Listeners : lpc'[k] \in OpenLabels => bound' = k
  BY <1>1 DEF OneListener, OpenLabels
<1> QED BY <1>2 DEF OneListener

\* Every step keeps the port with one listener, and the count of the frames
\* taken after stop() at one.
LEMMA OneListenerNext ==
  ASSUME Shape, Shape', OneListener, VirtualNext PROVE OneListener'
<1>b. /\ lpc' \in [Listeners -> OpenLabels \cup {"unborn", "bind", "ended"}]
      /\ lpc \in [Listeners -> OpenLabels \cup {"unborn", "bind", "ended"}]
      /\ late \in Nat /\ running \in BOOLEAN /\ bound \in Listeners \cup {Nobody}
  BY Zenon DEF Shape, VirtualTypeOK
<1>c. Nobody \notin Listeners
  BY VirtualAssumption DEF Listeners
<1>a. /\ lpc' \in [Listeners -> OpenLabels \cup {"unborn", "bind", "ended"}]
      /\ lpc \in [Listeners -> OpenLabels \cup {"unborn", "bind", "ended"}]
      /\ late \in Nat /\ running \in BOOLEAN /\ bound \in Listeners \cup {Nobody}
      /\ Nobody \notin Listeners
  BY <1>b, <1>c
<1>1. CASE UNCHANGED <<lpc, bound, running, late>>
  BY <1>1 DEF OneListener
<1>2. CASE Start
  <2>1. PICK l : lpc' = [lpc EXCEPT ![l] = "bind"]
    BY Zenon, <1>2 DEF Start, Wait
  <2>2. late' = 0 /\ UNCHANGED bound
    BY <1>2 DEF Start
  <2>3. "bind" \notin OpenLabels
    BY DEF OpenLabels
  <2> QED BY <1>a, <2>1, <2>2, <2>3 DEF OneListener
<1>3. CASE Stop
  BY <1>3, <1>a DEF Stop, OneListener
<1>4. ASSUME NEW l \in Listeners, Bind(l) PROVE OneListener'
  <2>1. lpc[l] = "bind" /\ UNCHANGED <<late, running>>
    BY Zenon, <1>4 DEF Bind
  <2>2. CASE bound = Nobody
    <3>1. bound' = l /\ lpc' = [lpc EXCEPT ![l] = "accept"]
      BY <1>4, <2>2 DEF Bind, Wait
    <3>2. \A k \in Listeners : lpc[k] \notin OpenLabels
      BY Zenon, <1>a, <2>2 DEF OneListener
    <3> QED BY Zenon, <1>a, <2>1, <3>1, <3>2 DEF OneListener
  <2>3. CASE bound # Nobody
    <3>1. bound' = bound /\ lpc' = [lpc EXCEPT ![l] = "ended"]
      BY <1>4, <2>3 DEF Bind, Wait
    <3>2. "ended" \notin OpenLabels
      BY Zenon DEF OpenLabels
    <3> QED BY Zenon, <1>a, <2>1, <3>1, <3>2 DEF OneListener
  <2> QED BY <2>2, <2>3
<1>5. ASSUME NEW l \in Listeners,
             \/ Accept(l) \/ ServeHead(l) \/ Silence(l) \/ Refuse(l)
             \/ ReadNext(l) \/ ReadEnds(l) \/ ReadPanics(l) \/ WriteSignal(l)
      PROVE  OneListener'
  <2>1. /\ lpc[l] \in {"accept", "serve", "header", "handle"} /\ UNCHANGED <<running, late>>
        /\ \/ lpc' = lpc \/ lpc' = [lpc EXCEPT ![l] = "serve"] \/ lpc' = [lpc EXCEPT ![l] = "accept"]
           \/ lpc' = [lpc EXCEPT ![l] = "ended"]
           \/ running /\ lpc' = [lpc EXCEPT ![l] = "header"]
        /\ bound' = bound \/ (bound' = Nobody /\ lpc' = [lpc EXCEPT ![l] = "ended"])
    <3>1. CASE Accept(l)
      BY Zenon, <3>1 DEF Accept, Close, Wait
    <3>2. CASE ServeHead(l)
      BY Zenon, <3>2 DEF ServeHead, HangUp, Wait
    <3>3. CASE Silence(l)
      BY Zenon, <3>3 DEF Silence, HangUp, Wait
    <3>4. CASE Refuse(l) \/ ReadEnds(l)
      BY Zenon, <3>4 DEF Refuse, ReadEnds, Allowed, Respond, Wait
    <3>5. CASE ReadNext(l)
      BY <3>5 DEF ReadNext, Allowed, Respond, Wait
    <3>6. CASE ReadPanics(l)
      BY Zenon, <3>6 DEF ReadPanics, Allowed, Close, Wait
    <3>7. CASE WriteSignal(l)
      BY Zenon, <3>7 DEF WriteSignal, Allowed, Respond, Wait
    <3> QED BY Zenon, <1>5, <3>1, <3>2, <3>3, <3>4, <3>5, <3>6, <3>7
  <2>2. /\ \A k \in Listeners \ {l} : lpc'[k] = lpc[k]
        /\ lpc'[l] = "header" => running \/ lpc[l] = "header"
        /\ bound' = bound \/ (bound' = Nobody /\ lpc'[l] = "ended")
        /\ lpc[l] \in OpenLabels
    BY Zenon, <1>a, <2>1 DEF OpenLabels
  <2> QED BY Zenon, <1>a, <2>1, <2>2, OneListenerMoved
<1>6. ASSUME NEW l \in Listeners, TakeFrame(l) PROVE OneListener'
  <2>1. /\ lpc[l] = "header" /\ UNCHANGED <<bound, running>>
        /\ lpc' = [lpc EXCEPT ![l] = "handle"] \/ lpc' = [lpc EXCEPT ![l] = "accept"]
        /\ late' = (IF running THEN 0 ELSE late + 1)
    BY <1>6 DEF TakeFrame, HangUp, Wait
  <2>2. late = 0 /\ bound = l /\ \A k \in Listeners \ {l} : lpc[k] \notin OpenLabels
    BY <2>1 DEF OneListener, OpenLabels
  <2>3. "header" \in OpenLabels
    BY DEF OpenLabels
  <2>4. \A k \in Listeners : lpc'[k] # "header"
    BY Zenon, <1>a, <2>1, <2>2, <2>3
  <2>5. \A k \in Listeners : lpc'[k] \in OpenLabels => bound' = k
    BY Zenon, <1>a, <2>1, <2>2
  <2>6. late' = 0 \/ (late' = 1 /\ ~running')
    BY <1>a, <2>1, <2>2
  <2> QED BY Zenon, <2>4, <2>5, <2>6 DEF OneListener
<1>7. CASE ProgramPublishes
  BY Zenon, <1>1, <1>7 DEF ProgramPublishes, listenerVars
<1>8. ASSUME NEW m \in Masters, MasterStep(m) PROVE OneListener'
  <2>1. CASE Connect(m) \/ Disconnect(m) \/ Send(m)
    BY Zenon, <1>1, <2>1 DEF Connect, Disconnect, Send, listenerVars
  <2>2. CASE Answered(m) \/ CallFails(m) \/ HartCommand(m)
    BY <1>1, <2>2 DEF Answered, CallFails, HartCommand, listenerVars
  <2>3. CASE ReadSlot(m) \/ HartAnswers(m)
    BY Zenon, <1>1, <2>3 DEF ReadSlot, HartAnswers
  <2> QED BY <1>8, <2>1, <2>2, <2>3 DEF MasterStep
<1> QED
  BY Zenon, <1>2, <1>3, <1>4, <1>5, <1>6, <1>7, <1>8 DEF VirtualNext, ListenerStep

\* After stop() the device takes one more request at most, whatever the
\* masters and the restarts do.
THEOREM StopTakesOneMore == VirtualSpec => []StopHolds
<1>1. VirtualInit => Shape /\ OneListener
  <2> SUFFICES ASSUME VirtualInit PROVE Shape /\ OneListener
    OBVIOUS
  <2>1. OneListener
    BY DEF VirtualInit, OneListener, OpenLabels
  <2> QED BY <2>1, ShapeInit
<1>2. Shape /\ OneListener /\ [VirtualNext]_virtualVars => Shape' /\ OneListener'
  <2>1. CASE VirtualNext
    BY <2>1, ShapeNext, OneListenerNext
  <2>2. CASE UNCHANGED virtualVars
    <3>1. Shape => Shape'
      BY <2>2 DEF Shape, VirtualTypeOK, ConnectionsMade, InHand, Connections, virtualVars, listenerVars,
                  socketVars, masterVars
    <3>2. OneListener => OneListener'
      BY <2>2 DEF OneListener, virtualVars, listenerVars
    <3> QED BY Zenon, <3>1, <3>2
  <2> QED BY <2>1, <2>2
<1>3. Shape /\ OneListener => StopHolds
  BY DEF OneListener, StopHolds
<1> QED BY <1>1, <1>2, <1>3, PTL DEF VirtualSpec
=============================================================================

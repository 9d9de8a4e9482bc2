--------------------------- MODULE Inproc_proofs ---------------------------
(* Proofs about the in-process middleware: its QoS gate, for every number of *)
(* callers; the signals of its transport, for any publishers and             *)
(* subscribers; its RPC calls, for any number of them.  Its streams are in   *)
(* InprocStream_proofs.                                                      *)
EXTENDS InprocQoS, InprocTransport, InprocRpc, SequenceTheorems, FiniteSetTheorems, TLAPS

-----------------------------------------------------------------------------
(* InprocQoS *)

\* The lock levels of LockLevel are the numbers 0 to 5.
LEMMA LevelsAreNaturals == Levels = 0..5 /\ Levels \subseteq Int
  BY DEF Levels

\* set_lock_level, queue_config and apply_queued preserve the types.
LEMMA QosTypeStep == QosTypeOK /\ [QosNext]_qosVars => QosTypeOK'
<1> SUFFICES ASSUME QosTypeOK, [QosNext]_qosVars PROVE QosTypeOK'
  OBVIOUS
<1> USE CallsAssumption, LevelsAreNaturals
<1>1. CASE apply_queued
  <2>1. /\ config_queue' \in Seq(Methods) /\ applied' \in Seq(Methods)
    BY <1>1, EmptySeq, ConcatProperties DEF apply_queued, QosTypeOK
  <2> QED BY <1>1, <2>1 DEF apply_queued, QosTypeOK, threadVars
<1>2. ASSUME NEW t \in Threads, SetBegin(t) PROVE QosTypeOK'
  BY <1>2 DEF SetBegin, Begin, QosTypeOK
<1>3. ASSUME NEW t \in Threads, SetStore(t) PROVE QosTypeOK'
  BY <1>3 DEF SetStore, End, QosTypeOK, Levels
<1>4. ASSUME NEW t \in Threads, QueueBegin(t) PROVE QosTypeOK'
  BY <1>4 DEF QueueBegin, Begin, QosTypeOK
<1>5. ASSUME NEW t \in Threads, QueuePush(t) PROVE QosTypeOK'
  <2>1. method[t] \in Methods /\ seen[t] \in Levels
    BY <1>5 DEF QueuePush, QosTypeOK
  <2>2. /\ config_queue' \in Seq(Methods) /\ accepted' \in Seq(Methods)
    <3>1. CASE can_queue(seen[t], required_lock_level(method[t]))
      <4>1. config_queue' = Append(config_queue, method[t]) /\ accepted' = Append(accepted, method[t])
        BY <1>5, <3>1 DEF QueuePush
      <4> QED BY <2>1, <4>1, AppendProperties DEF QosTypeOK
    <3>2. CASE ~can_queue(seen[t], required_lock_level(method[t]))
      BY <1>5, <3>2 DEF QueuePush, QosTypeOK
    <3> QED BY <3>1, <3>2
  <2>3. /\ tpc' \in [Threads -> {"idle", "set", "queue"}]
        /\ seen' \in [Threads -> Levels] /\ level' \in [Threads -> Levels]
        /\ method' \in [Threads -> Methods \cup {None}]
    BY <1>5 DEF QueuePush, End, QosTypeOK, Levels
  <2>4. \A u \in Threads : /\ tpc'[u] = "set" => u \in Setters
                           /\ tpc'[u] = "queue" => u \in Queuers /\ method'[u] \in Methods
    BY <1>5 DEF QueuePush, End, QosTypeOK
  <2> QED BY <1>5, <2>2, <2>3, <2>4 DEF QueuePush, QosTypeOK
<1>6. CASE UNCHANGED qosVars
  BY <1>6 DEF qosVars, threadVars, QosTypeOK
<1> QED BY <1>1, <1>2, <1>3, <1>4, <1>5, <1>6 DEF QosNext

\* A new InprocQoS has the types.
LEMMA QosInitial == QosInit => QosTypeOK
  BY CallsAssumption, EmptySeq DEF QosInit, QosTypeOK, Levels, Methods

\* The types hold for any set of callers.
THEOREM QosTypeCorrect == QosSpec => []QosTypeOK
  BY QosInitial, QosTypeStep, PTL DEF QosSpec

\* Once Run is reached, only calls that loaded the level before add a command.
THEOREM QosRunAdmitsOnlyInFlight == QosSpec => RunAdmitsOnlyInFlight
<1>1. QosTypeOK /\ [QosNext]_qosVars =>
        [accepted' # accepted /\ lock_level >= Run
           => \E t \in Threads : tpc[t] = "queue" /\ seen[t] < Run /\ tpc'[t] = "idle"]_qosVars
  <2> SUFFICES ASSUME QosTypeOK, QosNext, accepted' # accepted
               PROVE \E t \in Threads : tpc[t] = "queue" /\ seen[t] < Run /\ tpc'[t] = "idle"
    OBVIOUS
  <2>1. PICK t \in Threads : QueuePush(t)
    BY DEF QosNext, apply_queued, SetBegin, SetStore, QueueBegin
  <2>2. can_queue(seen[t], required_lock_level(method[t]))
    BY <2>1 DEF QueuePush
  <2>3. seen[t] < Run
    BY <2>2 DEF can_queue, Load, Config, Params, Run, QosTypeOK, Levels
  <2>4. tpc[t] = "queue" /\ tpc'[t] = "idle"
    BY <2>1 DEF QueuePush, End, QosTypeOK
  <2> QED BY <2>3, <2>4
<1> QED BY <1>1, QosTypeCorrect, PTL DEF QosSpec, RunAdmitsOnlyInFlight

\* Every command answered Queued is applied once and in order.
THEOREM QosQueueFifo == QosSpec => []QosFifo
<1>1. QosInit => QosFifo
  BY ConcatEmptySeq, EmptySeq DEF QosInit, QosFifo
<1>2. QosTypeOK /\ QosTypeOK' /\ QosFifo /\ [QosNext]_qosVars => QosFifo'
  <2> SUFFICES ASSUME QosTypeOK, QosTypeOK', QosFifo, [QosNext]_qosVars PROVE QosFifo'
    OBVIOUS
  <2>1. CASE apply_queued
    BY <2>1, ConcatEmptySeq, ConcatProperties DEF apply_queued, QosFifo, QosTypeOK
  <2>2. ASSUME NEW t \in Threads, QueuePush(t) PROVE QosFifo'
    <3>1. method[t] \in Methods
      BY <2>2 DEF QueuePush, QosTypeOK
    <3>2. Append(applied \o config_queue, method[t]) = applied \o Append(config_queue, method[t])
      <4>1. applied \o config_queue \in Seq(Methods) /\ <<method[t]>> \in Seq(Methods)
        BY <3>1, ConcatProperties DEF QosTypeOK
      <4>2. Append(applied \o config_queue, method[t]) = (applied \o config_queue) \o <<method[t]>>
        BY <3>1, <4>1, AppendIsConcat
      <4>3. Append(config_queue, method[t]) = config_queue \o <<method[t]>>
        <5>1. config_queue \in Seq(Methods)
          BY DEF QosTypeOK
        <5> QED BY <3>1, <5>1, AppendIsConcat
      <4> QED
        <5>1. applied \in Seq(Methods) /\ config_queue \in Seq(Methods)
          BY DEF QosTypeOK
        <5>2. (applied \o config_queue) \o <<method[t]>> = applied \o (config_queue \o <<method[t]>>)
          BY <4>1, <5>1, ConcatAssociative
        <5> QED BY <4>2, <4>3, <5>2
    <3>3. CASE can_queue(seen[t], required_lock_level(method[t]))
      <4>1. /\ config_queue' = Append(config_queue, method[t])
            /\ accepted' = Append(accepted, method[t]) /\ applied' = applied
        BY <2>2, <3>3 DEF QueuePush
      <4> QED BY Zenon, <3>2, <4>1 DEF QosFifo
    <3>4. CASE ~can_queue(seen[t], required_lock_level(method[t]))
      BY <2>2, <3>4 DEF QueuePush, QosFifo
    <3> QED BY <3>3, <3>4
  <2> QED BY Zenon, <2>1, <2>2 DEF QosNext, qosVars, SetBegin, SetStore, QueueBegin, QosFifo
<1> QED BY <1>1, <1>2, QosTypeCorrect, PTL DEF QosSpec

-----------------------------------------------------------------------------
(* InprocTransport *)

\* What a list holds after an entry was added, taken from the front, or
\* removed.
LEMMA Added ==
  ASSUME NEW S, NEW s \in Seq(S), NEW e \in S
  PROVE  Append(s, e) \in Seq(S) /\ Range(Append(s, e)) = Range(s) \cup {e}
<1>1. /\ Append(s, e) \in Seq(S) /\ Len(s) \in Nat
      /\ \A i \in 1..Len(s) : Append(s, e)[i] = s[i]
      /\ Append(s, e)[Len(s) + 1] = e
      /\ DOMAIN s = 1..Len(s) /\ DOMAIN Append(s, e) = 1..Len(s) + 1
  BY AppendProperties, LenProperties
<1> DEFINE t == Append(s, e)
<1> HIDE DEF t
<1>2. \A x \in Range(t) : x \in Range(s) \cup {e}
  BY <1>1 DEF Range, t
<1>3. \A x \in Range(s) : x \in Range(t)
  BY <1>1 DEF Range, t
<1>4. e \in Range(t)
  BY <1>1 DEF Range, t
<1> QED BY <1>1, <1>2, <1>3, <1>4 DEF t

LEMMA TakenOff ==
  ASSUME NEW S, NEW s \in Seq(S), s # <<>>
  PROVE  /\ Tail(s) \in Seq(S) /\ Head(s) \in S
         /\ \A x \in Range(s) : x = Head(s) \/ x \in Range(Tail(s))
<1>1. /\ Tail(s) \in Seq(S) /\ Head(s) \in S /\ Head(s) = s[1] /\ Len(s) \in Nat
      /\ Len(Tail(s)) = Len(s) - 1 /\ \A i \in 1..Len(s) - 1 : Tail(s)[i] = s[i + 1]
      /\ DOMAIN s = 1..Len(s) /\ DOMAIN Tail(s) = 1..Len(s) - 1
  BY HeadTailProperties, LenProperties
<1>2. ASSUME NEW i \in 1..Len(s), i # 1 PROVE s[i] \in Range(Tail(s))
  <2>1. i - 1 \in 1..Len(s) - 1 /\ i - 1 + 1 = i
    BY <1>1, <1>2
  <2> QED BY Zenon, <1>1, <2>1 DEF Range
<1> QED BY <1>1, <1>2 DEF Range

LEMMA Removed ==
  ASSUME NEW S, NEW s \in Seq(S), NEW i \in DOMAIN s
  PROVE  /\ SubSeq(s, 1, i - 1) \o SubSeq(s, i + 1, Len(s)) \in Seq(S)
         /\ Range(SubSeq(s, 1, i - 1) \o SubSeq(s, i + 1, Len(s))) \subseteq Range(s)
<1> DEFINE T == Range(s)  t == SubSeq(s, 1, i - 1) \o SubSeq(s, i + 1, Len(s))
<1>1. Len(s) \in Nat /\ DOMAIN s = 1..Len(s) /\ i \in 1..Len(s) /\ \A k \in 1..Len(s) : s[k] \in T /\ s[k] \in S
  BY LenProperties, ElementOfSeq DEF Range
<1>2. \A k \in 1..i - 1 : k \in 1..Len(s)
  BY <1>1
<1>3. \A k \in i + 1..Len(s) : k \in 1..Len(s)
  BY <1>1
<1>a. i - 1 \in Int /\ i + 1 \in Int /\ Len(s) \in Int /\ 1 \in Int
  BY <1>1
<1>4. /\ \A k \in 1..i - 1 : s[k] \in T /\ s[k] \in S
      /\ \A k \in i + 1..Len(s) : s[k] \in T /\ s[k] \in S
  BY Zenon, <1>1, <1>2, <1>3
<1> HIDE DEF T
<1>5. SubSeq(s, 1, i - 1) \in Seq(T) /\ SubSeq(s, i + 1, Len(s)) \in Seq(T)
  BY <1>a, <1>4, SubSeqProperties
<1>6. SubSeq(s, 1, i - 1) \in Seq(S) /\ SubSeq(s, i + 1, Len(s)) \in Seq(S)
  BY <1>a, <1>4, SubSeqProperties
<1>7. t \in Seq(T) /\ t \in Seq(S)
  BY <1>5, <1>6, ConcatProperties
<1> HIDE DEF t
<1>8. \A x \in Range(t) : x \in T
  BY <1>7, LenProperties, ElementOfSeq DEF Range
<1> QED BY <1>7, <1>8 DEF T, t

\* A publisher's step keeps the invariant.
LEMMA TransportPublishers ==
  ASSUME TransportInv, NEW p \in Publishers, PublishStore(p) \/ Publish(p)
  PROVE  TransportInv'
<1> USE DEF TransportInv
<1>1. CASE PublishStore(p)
  <2>1. /\ ppc[p] = "idle" /\ published' = published + 1 /\ signal' = published + 1
        /\ pval' = [pval EXCEPT ![p] = published + 1] /\ ppc' = [ppc EXCEPT ![p] = "stored"]
        /\ alone' = \A q \in Publishers : ppc[q] = "idle"
        /\ UNCHANGED <<callbacks, next_sub_id, todo, last, heard, since, spc>>
    BY <1>1 DEF PublishStore, subVars
  <2>2. /\ pval' \in [Publishers -> Nat] /\ pval'[p] = published + 1
        /\ \A q \in Publishers \ {p} : pval'[q] = pval[q] /\ ppc'[q] = ppc[q]
        /\ ppc' \in [Publishers -> {"idle", "stored", "calling"}] /\ ppc'[p] = "stored"
    BY <2>1 DEF TransportTypeOK
  <2>3. TransportTypeOK'
    BY <2>1, <2>2 DEF TransportTypeOK
  <2>4. \A q \in Publishers, s \in SubIds : Due(q, s) => q # p /\ Due(q, s)'
    BY <2>1, <2>2 DEF Due
  <2>5. \A s \in SubIds : Due(p, s)'
    BY <2>2 DEF Due
  <2>6. \A s \in Range(callbacks) : s \in SubIds /\ since[s] \in Nat
    BY ElementOfSeq, LenProperties DEF TransportTypeOK, Range
  <2>7. HeardOrDue'
    <3> SUFFICES ASSUME NEW s \in Range(callbacks), NEW v \in since[s] + 1..published + 1
                 PROVE  v \in heard[s] \/ \E q \in Publishers : pval'[q] = v /\ Due(q, s)'
      BY <2>1 DEF HeardOrDue
    <3>1. CASE v = published + 1
      BY <2>2, <2>5, <2>6, <3>1
    <3>2. CASE v # published + 1
      <4>1. v \in since[s] + 1..published
        BY <2>6, <3>2 DEF TransportTypeOK
      <4>2. v \in heard[s] \/ \E q \in Publishers : pval[q] = v /\ Due(q, s)
        BY <4>1 DEF HeardOrDue
      <4> QED BY <2>2, <2>4, <2>6, <4>2
    <3> QED BY <3>1, <3>2
  <2>8. LastAlone'
    <3>1. spc' = "up" => signal' = published'
      BY <2>1
    <3>2. ASSUME alone', NEW q \in Publishers, ppc'[q] # "idle"
          PROVE  pval'[q] = published' /\ \A r \in Publishers \ {q} : ppc'[r] = "idle"
      BY Zenon, <2>1, <2>2, <3>2
    <3>3. ASSUME NEW s \in Range(callbacks) PROVE \E q \in Publishers : Due(q, s)'
      BY <2>5, <2>6
    <3> QED BY <2>1, <3>1, <3>2, <3>3 DEF LastAlone
  <2> QED BY <2>3, <2>7, <2>8
<1>2. CASE PublishLock(p)
  <2>1. /\ ppc[p] = "stored" /\ ppc' = [ppc EXCEPT ![p] = "calling"]
        /\ todo' = [todo EXCEPT ![p] = callbacks]
        /\ UNCHANGED <<signal, callbacks, next_sub_id, published, pval, alone, last, heard, since, spc>>
    BY <1>2 DEF PublishLock, subVars
  <2>2. /\ todo' \in [Publishers -> Seq(SubIds)] /\ todo'[p] = callbacks
        /\ \A q \in Publishers \ {p} : todo'[q] = todo[q] /\ ppc'[q] = ppc[q]
        /\ ppc' \in [Publishers -> {"idle", "stored", "calling"}] /\ ppc'[p] = "calling"
    BY <2>1 DEF TransportTypeOK
  <2>3. TransportTypeOK'
    BY <2>1, <2>2 DEF TransportTypeOK
  <2>4. \A q \in Publishers, s \in Range(callbacks) : Due(q, s) => Due(q, s)'
    BY <2>1, <2>2 DEF Due
  <2>5. HeardOrDue'
    BY <2>1, <2>4 DEF HeardOrDue
  <2>6. LastAlone'
    BY <2>1, <2>2, <2>4 DEF LastAlone
  <2> QED BY <2>3, <2>5, <2>6
<1>3. CASE Callback(p)
  <2> DEFINE h == Head(todo[p])
  <2>1. /\ ppc[p] = "calling" /\ todo[p] # <<>> /\ last' = [last EXCEPT ![h] = pval[p]]
        /\ heard' = [heard EXCEPT ![h] = @ \cup {pval[p]}] /\ todo' = [todo EXCEPT ![p] = Tail(@)]
        /\ UNCHANGED <<signal, callbacks, next_sub_id, published, ppc, pval, alone, since, spc>>
    BY <1>3 DEF Callback
  <2>2. /\ Tail(todo[p]) \in Seq(SubIds) /\ h \in SubIds
        /\ \A s \in Range(todo[p]) : s = h \/ s \in Range(Tail(todo[p]))
    BY <2>1, TakenOff DEF TransportTypeOK
  <2> HIDE DEF h
  <2>3. /\ todo' \in [Publishers -> Seq(SubIds)] /\ todo'[p] = Tail(todo[p])
        /\ \A q \in Publishers \ {p} : todo'[q] = todo[q]
        /\ last' \in [SubIds -> Nat] /\ last'[h] = pval[p]
        /\ \A s \in SubIds \ {h} : last'[s] = last[s] /\ heard'[s] = heard[s]
        /\ heard' \in [SubIds -> SUBSET Nat] /\ heard'[h] = heard[h] \cup {pval[p]}
    BY <2>1, <2>2 DEF TransportTypeOK
  <2>4. TransportTypeOK'
    BY Zenon, <2>1, <2>3 DEF TransportTypeOK
  <2>5. \A q \in Publishers, s \in SubIds : Due(q, s) => Due(q, s)' \/ (q = p /\ s = h)
    BY <2>1, <2>2, <2>3 DEF Due
  <2>6. \A s \in Range(callbacks) : s \in SubIds
    BY ElementOfSeq, LenProperties DEF TransportTypeOK, Range
  <2>7. HeardOrDue'
    <3> SUFFICES ASSUME NEW s \in Range(callbacks), NEW v \in since[s] + 1..published
                 PROVE  v \in heard'[s] \/ \E q \in Publishers : pval[q] = v /\ Due(q, s)'
      BY <2>1 DEF HeardOrDue
    <3>1. v \in heard[s] \/ \E q \in Publishers : pval[q] = v /\ Due(q, s)
      BY Zenon DEF HeardOrDue
    <3> QED BY Zenon, <2>3, <2>5, <2>6, <3>1
  <2>8. LastAlone'
    <3>1. ASSUME alone, NEW s \in Range(callbacks), since[s] < published
          PROVE  last'[s] = published \/ \E q \in Publishers : Due(q, s)'
      <4>1. last[s] = published \/ \E q \in Publishers : Due(q, s)
        BY Zenon, <3>1 DEF LastAlone
      <4>2. pval[p] = published
        BY <2>1, <3>1 DEF LastAlone
      <4> QED BY Zenon, <2>3, <2>5, <2>6, <4>1, <4>2
    <3> QED BY <2>1, <3>1 DEF LastAlone
  <2> QED BY <2>4, <2>7, <2>8
<1>4. CASE PublishDone(p)
  <2>1. /\ ppc[p] = "calling" /\ todo[p] = <<>> /\ ppc' = [ppc EXCEPT ![p] = "idle"]
        /\ UNCHANGED <<signal, callbacks, next_sub_id, published, pval, todo, alone, last, heard, since, spc>>
    BY <1>4 DEF PublishDone, subVars
  <2>2. /\ \A q \in Publishers \ {p} : ppc'[q] = ppc[q]
        /\ ppc' \in [Publishers -> {"idle", "stored", "calling"}] /\ ppc'[p] = "idle"
    BY <2>1 DEF TransportTypeOK
  <2>3. TransportTypeOK'
    BY <2>1, <2>2 DEF TransportTypeOK
  <2>4. Range(todo[p]) = {}
    BY <2>1 DEF Range
  <2>5. \A q \in Publishers, s \in Range(callbacks) : Due(q, s) => Due(q, s)'
    BY <2>1, <2>2, <2>4 DEF Due
  <2>6. HeardOrDue'
    BY <2>1, <2>5 DEF HeardOrDue
  <2>7. LastAlone'
    BY <2>1, <2>2, <2>5 DEF LastAlone
  <2> QED BY <2>3, <2>6, <2>7
<1> QED BY <1>1, <1>2, <1>3, <1>4 DEF Publish

\* Fewer subscribers, and nothing else that the invariant is about, keep it.
LEMMA TransportFewer ==
  ASSUME TransportInv, callbacks' \in Seq(SubIds), Range(callbacks') \subseteq Range(callbacks),
         UNCHANGED <<next_sub_id, pubVars, subVars>>, signal' \in Nat, spc' \in {"up", "signals", "down"},
         spc' = "up" => spc = "up" /\ UNCHANGED signal
  PROVE  TransportInv'
<1> USE DEF pubVars, subVars
<1>1. TransportTypeOK'
  BY DEF TransportInv, TransportTypeOK
<1>2. \A p \in Publishers, s \in SubIds : Due(p, s)' <=> Due(p, s)
  BY DEF Due
<1>3. \A s \in Range(callbacks) : s \in SubIds
  BY ElementOfSeq, LenProperties DEF TransportInv, TransportTypeOK, Range
<1>4. HeardOrDue'
  BY <1>2, <1>3 DEF TransportInv, HeardOrDue
<1>5. LastAlone'
  BY <1>2, <1>3 DEF TransportInv, LastAlone
<1> QED BY <1>1, <1>4, <1>5 DEF TransportInv

\* A subscriber misses nothing that is published from then on.
LEMMA TransportSubscribe == ASSUME TransportInv, subscribe_signal PROVE TransportInv'
<1> USE DEF TransportInv
<1>1. /\ next_sub_id <= MaxSubs /\ next_sub_id' = next_sub_id + 1
      /\ callbacks' = Append(callbacks, next_sub_id) /\ since' = [since EXCEPT ![next_sub_id] = published]
      /\ UNCHANGED <<signal, published, ppc, pval, todo, alone, last, heard, spc>>
  BY DEF subscribe_signal, pubVars
<1>2. next_sub_id \in SubIds
  BY <1>1 DEF TransportTypeOK, SubIds
<1>3. callbacks' \in Seq(SubIds) /\ Range(callbacks') = Range(callbacks) \cup {next_sub_id}
  BY <1>1, <1>2, Added DEF TransportTypeOK
<1>4. /\ since' \in [SubIds -> Nat] /\ since'[next_sub_id] = published
      /\ \A s \in SubIds \ {next_sub_id} : since'[s] = since[s]
  BY <1>1, <1>2 DEF TransportTypeOK
<1>5. TransportTypeOK'
  BY <1>1, <1>3, <1>4 DEF TransportTypeOK
<1>6. \A p \in Publishers, s \in SubIds : Due(p, s)' <=> Due(p, s)
  BY <1>1 DEF Due
<1>7. \A s \in Range(callbacks) : s \in SubIds
  BY ElementOfSeq, LenProperties DEF TransportTypeOK, Range
<1>8. published + 1..published = {} /\ ~(published < published)
  BY DEF TransportTypeOK
<1>9. HeardOrDue'
  BY <1>1, <1>3, <1>4, <1>6, <1>7, <1>8 DEF HeardOrDue
<1>10. LastAlone'
  BY <1>1, <1>3, <1>4, <1>6, <1>7, <1>8 DEF LastAlone
<1> QED BY <1>5, <1>9, <1>10

\* Whatever publishers and subscribers do, a subscriber hears every value that
\* is published while it subscribes, and without overlapping publications the
\* stored value last.
THEOREM TransportPushAgrees == TransportSpec => []PushAgreesWithPull
<1>1. TransportInit => TransportInv
  <2> SUFFICES ASSUME TransportInit PROVE TransportInv
    OBVIOUS
  <2>1. <<>> \in Seq(SubIds) /\ Range(<<>>) = {}
    BY EmptySeq DEF Range
  <2>2. TransportTypeOK
    BY <2>1 DEF TransportInit, TransportTypeOK
  <2> QED BY <2>1, <2>2 DEF TransportInit, TransportInv, HeardOrDue, LastAlone
<1>2. TransportInv /\ [TransportNext]_transportVars => TransportInv'
  <2> SUFFICES ASSUME TransportInv, [TransportNext]_transportVars PROVE TransportInv'
    OBVIOUS
  <2>1. callbacks \in Seq(SubIds) /\ signal \in Nat /\ spc \in {"up", "signals", "down"}
    BY DEF TransportInv, TransportTypeOK
  <2>2. ASSUME NEW s \in SubIds, unsubscribe_signal(s) PROVE TransportInv'
    <3>1. PICK i \in DOMAIN callbacks : callbacks' = SubSeq(callbacks, 1, i - 1) \o SubSeq(callbacks, i + 1, Len(callbacks))
      BY Zenon, <2>2 DEF unsubscribe_signal
    <3>2. callbacks' \in Seq(SubIds) /\ Range(callbacks') \subseteq Range(callbacks)
      BY <2>1, <3>1, Removed
    <3>3. UNCHANGED <<signal, next_sub_id, pubVars, subVars, spc>>
      BY <2>2 DEF unsubscribe_signal
    <3> QED BY <2>1, <3>2, <3>3, TransportFewer
  <2>3. CASE ShutdownSignals
    <3>1. /\ spc' = "signals" /\ signal' = 0 /\ 0 \in Nat
          /\ UNCHANGED <<callbacks, next_sub_id, pubVars, subVars>>
      BY <2>3 DEF ShutdownSignals
    <3> QED BY <2>1, <3>1, TransportFewer
  <2>4. CASE ShutdownCallbacks
    <3>1. /\ spc' = "down" /\ callbacks' = <<>>
          /\ UNCHANGED <<signal, next_sub_id, pubVars, subVars>>
      BY <2>4 DEF ShutdownCallbacks
    <3>2. <<>> \in Seq(SubIds) /\ Range(<<>>) = {}
      BY EmptySeq DEF Range
    <3> QED BY <2>1, <3>1, <3>2, TransportFewer
  <2>5. CASE UNCHANGED transportVars
    BY <2>1, <2>5, TransportFewer DEF transportVars
  <2> QED
    BY <2>2, <2>3, <2>4, <2>5, TransportPublishers, TransportSubscribe DEF TransportNext
<1>3. TransportInv => PushAgreesWithPull
  <2> SUFFICES ASSUME TransportInv, Quiet, NEW s \in Range(callbacks)
               PROVE  /\ since[s] + 1..published \subseteq heard[s]
                      /\ alone /\ since[s] < published => last[s] = signal
    BY DEF PushAgreesWithPull
  <2>1. \A p \in Publishers : ~Due(p, s)
    BY DEF Quiet, Due
  <2> QED BY <2>1 DEF TransportInv, HeardOrDue, LastAlone, Quiet
<1> QED BY <1>1, <1>2, <1>3, PTL DEF TransportSpec

-----------------------------------------------------------------------------
(* InprocRpc *)

\* RpcInv holds before any call.
LEMMA RpcInitial == RpcInit => RpcInv
BY DEF RpcInit, RpcInv, Answers

\* Every step of callers and handler threads keeps RpcInv.
LEMMA RpcStep == RpcInv /\ [RpcNext]_rpcVars => RpcInv'
<1> SUFFICES ASSUME RpcInv, [RpcNext]_rpcVars PROVE RpcInv'
  OBVIOUS
<1>1. CASE Register \/ ClearHandlers
  BY <1>1 DEF RpcInv, Register, ClearHandlers
<1>2. ASSUME NEW c \in Calls, CallUnknown(c) PROVE RpcInv'
  BY <1>2 DEF RpcInv, CallUnknown, Answers
<1>3. ASSUME NEW c \in Calls, Call(c) PROVE RpcInv'
  BY <1>3 DEF RpcInv, Call
<1>4. ASSUME NEW c \in Calls, HandlerReturns(c) PROVE RpcInv'
  BY <1>4 DEF RpcInv, HandlerReturns
<1>5. ASSUME NEW c \in Calls, HandlerPanics(c) PROVE RpcInv'
  BY <1>5 DEF RpcInv, HandlerPanics
<1>6. ASSUME NEW c \in Calls, Receive(c) PROVE RpcInv'
  BY <1>6 DEF RpcInv, Receive, Answers
<1>7. ASSUME NEW c \in Calls, Disconnected(c) \/ TimesOut(c) PROVE RpcInv'
  BY <1>7 DEF RpcInv, Disconnected, TimesOut, Answers
<1>8. CASE UNCHANGED rpcVars
  BY <1>8 DEF RpcInv, rpcVars
<1> QED BY <1>1, <1>2, <1>3, <1>4, <1>5, <1>6, <1>7, <1>8 DEF RpcNext, Answer

\* A caller that is told Ok has had its own handler run to its end, however
\* calls, registrations, panics and timeouts interleave.
THEOREM RpcOkMeansDone == RpcSpec => []OkMeansDone
<1>1. RpcInv => OkMeansDone
  BY DEF RpcInv, OkMeansDone
<1> QED BY <1>1, RpcInitial, RpcStep, PTL DEF RpcSpec

\* The calls with an answer among those of A, when one call gets the answer v.
LEMMA OneMoreAnswered ==
  ASSUME RpcInv, NEW c \in Calls, NEW v, NEW A, cpc' = [cpc EXCEPT ![c] = v]
  PROVE  /\ v \in A /\ cpc[c] \notin A
              => Cardinality(AnsweredBy(A))' = Cardinality(AnsweredBy(A)) + 1
         /\ (v \in A <=> cpc[c] \in A)
              => Cardinality(AnsweredBy(A))' = Cardinality(AnsweredBy(A))
<1>1. \A d \in Calls : cpc'[d] = IF d = c THEN v ELSE cpc[d]
  BY DEF RpcInv
<1>2. ASSUME v \in A, cpc[c] \notin A
      PROVE  Cardinality(AnsweredBy(A))' = Cardinality(AnsweredBy(A)) + 1
  <2>1. /\ AnsweredBy(A)' = AnsweredBy(A) \cup {c}
        /\ c \notin AnsweredBy(A) /\ AnsweredBy(A) \in SUBSET Calls
    BY <1>1, <1>2 DEF AnsweredBy
  <2>2. IsFiniteSet(AnsweredBy(A))
    BY <2>1, RpcAssumption, FS_Subset
  <2> QED BY <2>1, <2>2, FS_AddElement
<1>3. ASSUME v \in A <=> cpc[c] \in A
      PROVE  AnsweredBy(A)' = AnsweredBy(A)
  BY <1>1, <1>3 DEF AnsweredBy
<1> QED BY <1>2, <1>3

\* For any finite set of calls the statistics of the transport agree with the
\* answers: nothing is counted twice and nothing is missed.
THEOREM RpcCountersAgree == RpcSpec => []CountersAgree
<1>1. RpcInit => CountersAgree
  <2> SUFFICES ASSUME RpcInit PROVE CountersAgree
    OBVIOUS
  <2>1. /\ AnsweredBy(Answers \cup {"waiting"}) = {} /\ AnsweredBy({"Timeout"}) = {}
        /\ AnsweredBy({"NotFound", "Disconnected"}) = {}
    BY DEF RpcInit, AnsweredBy, Answers
  <2> QED BY <2>1, FS_EmptySet DEF RpcInit, CountersAgree
<1>2. RpcInv /\ CountersAgree /\ [RpcNext]_rpcVars => CountersAgree'
  <2> SUFFICES ASSUME RpcInv, CountersAgree, [RpcNext]_rpcVars PROVE CountersAgree'
    OBVIOUS
  <2> DEFINE Begun == Answers \cup {"waiting"}
             Late == {"Timeout"}
             Refused == {"NotFound", "Disconnected"}
  <2>1. CASE UNCHANGED <<cpc, counters>>
    BY <2>1 DEF CountersAgree, AnsweredBy, counters
  <2>2. CASE Register \/ ClearHandlers \/ \E c \in Calls : HandlerReturns(c) \/ HandlerPanics(c)
    BY <2>1, <2>2 DEF Register, ClearHandlers, HandlerReturns, HandlerPanics
  <2>3. CASE UNCHANGED rpcVars
    BY <2>1, <2>3 DEF rpcVars
  <2>4. ASSUME NEW c \in Calls, CallUnknown(c) PROVE CountersAgree'
    <3>1. /\ "NotFound" \in Begun \cap Refused /\ "NotFound" \notin Late
          /\ cpc[c] \notin Begun /\ cpc[c] \notin Refused /\ cpc[c] \notin Late
      BY <2>4 DEF CallUnknown, Answers
    <3>2. cpc' = [cpc EXCEPT ![c] = "NotFound"]
      BY <2>4 DEF CallUnknown
    <3>3. /\ Cardinality(AnsweredBy(Begun))' = Cardinality(AnsweredBy(Begun)) + 1
          /\ Cardinality(AnsweredBy(Late))' = Cardinality(AnsweredBy(Late))
          /\ Cardinality(AnsweredBy(Refused))' = Cardinality(AnsweredBy(Refused)) + 1
      <4> HIDE DEF Begun, Late, Refused
      <4> QED BY <3>1, <3>2, OneMoreAnswered
    <3> QED BY <2>4, <3>3 DEF CallUnknown, CountersAgree
  <2>5. ASSUME NEW c \in Calls, Call(c) PROVE CountersAgree'
    <3>1. /\ "waiting" \in Begun /\ "waiting" \notin Refused /\ "waiting" \notin Late
          /\ cpc[c] \notin Begun /\ cpc[c] \notin Refused /\ cpc[c] \notin Late
      BY <2>5 DEF Call, Answers
    <3>2. cpc' = [cpc EXCEPT ![c] = "waiting"]
      BY <2>5 DEF Call
    <3>3. /\ Cardinality(AnsweredBy(Begun))' = Cardinality(AnsweredBy(Begun)) + 1
          /\ Cardinality(AnsweredBy(Late))' = Cardinality(AnsweredBy(Late))
          /\ Cardinality(AnsweredBy(Refused))' = Cardinality(AnsweredBy(Refused))
      <4> HIDE DEF Begun, Late, Refused
      <4> QED BY <3>1, <3>2, OneMoreAnswered
    <3> QED BY <2>5, <3>3 DEF Call, CountersAgree
  <2>6. ASSUME NEW c \in Calls, Receive(c) PROVE CountersAgree'
    <3>1. /\ result[c] \in Begun /\ result[c] \notin Refused /\ result[c] \notin Late
          /\ cpc[c] \in Begun /\ cpc[c] \notin Refused /\ cpc[c] \notin Late
      BY <2>6 DEF Receive, RpcInv, Answers
    <3>2. cpc' = [cpc EXCEPT ![c] = result[c]]
      BY <2>6 DEF Receive
    <3>3. /\ Cardinality(AnsweredBy(Begun))' = Cardinality(AnsweredBy(Begun))
          /\ Cardinality(AnsweredBy(Late))' = Cardinality(AnsweredBy(Late))
          /\ Cardinality(AnsweredBy(Refused))' = Cardinality(AnsweredBy(Refused))
      <4> HIDE DEF Begun, Late, Refused
      <4> QED BY <3>1, <3>2, OneMoreAnswered
    <3> QED BY <2>6, <3>3 DEF Receive, CountersAgree, counters
  <2>7. ASSUME NEW c \in Calls, Disconnected(c) PROVE CountersAgree'
    <3>1. /\ "Disconnected" \in Begun \cap Refused /\ "Disconnected" \notin Late
          /\ cpc[c] \in Begun /\ cpc[c] \notin Refused /\ cpc[c] \notin Late
      BY <2>7 DEF Disconnected, Answers
    <3>2. cpc' = [cpc EXCEPT ![c] = "Disconnected"]
      BY <2>7 DEF Disconnected
    <3>3. /\ Cardinality(AnsweredBy(Begun))' = Cardinality(AnsweredBy(Begun))
          /\ Cardinality(AnsweredBy(Late))' = Cardinality(AnsweredBy(Late))
          /\ Cardinality(AnsweredBy(Refused))' = Cardinality(AnsweredBy(Refused)) + 1
      <4> HIDE DEF Begun, Late, Refused
      <4> QED BY <3>1, <3>2, OneMoreAnswered
    <3> QED BY <2>7, <3>3 DEF Disconnected, CountersAgree
  <2>8. ASSUME NEW c \in Calls, TimesOut(c) PROVE CountersAgree'
    <3>1. /\ "Timeout" \in Begun \cap Late /\ "Timeout" \notin Refused
          /\ cpc[c] \in Begun /\ cpc[c] \notin Refused /\ cpc[c] \notin Late
      BY <2>8 DEF TimesOut, Answers
    <3>2. cpc' = [cpc EXCEPT ![c] = "Timeout"]
      BY <2>8 DEF TimesOut
    <3>3. /\ Cardinality(AnsweredBy(Begun))' = Cardinality(AnsweredBy(Begun))
          /\ Cardinality(AnsweredBy(Late))' = Cardinality(AnsweredBy(Late)) + 1
          /\ Cardinality(AnsweredBy(Refused))' = Cardinality(AnsweredBy(Refused))
      <4> HIDE DEF Begun, Late, Refused
      <4> QED BY <3>1, <3>2, OneMoreAnswered
    <3> QED BY <2>8, <3>3 DEF TimesOut, CountersAgree
  <2> QED
    BY <2>2, <2>3, <2>4, <2>5, <2>6, <2>7, <2>8 DEF RpcNext, Answer
<1> QED BY <1>1, <1>2, RpcInitial, RpcStep, PTL DEF RpcSpec
=============================================================================

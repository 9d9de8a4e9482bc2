------------------------ MODULE InprocStream_proofs ------------------------
(***************************************************************************)
(* Proofs about InprocStream, for every policy, depth and retry limit.     *)
(***************************************************************************)
EXTENDS InprocStream, SequenceTheorems, TLAPS

USE PoliciesAssumption, DepthAssumption, StreamBoundsAssumption

\* Append and Tail, index by index.
LEMMA Pushed ==
  ASSUME NEW s \in Seq(Nat), NEW v \in Nat
  PROVE  /\ Len(s) \in Nat /\ Append(s, v) \in Seq(Nat) /\ Len(Append(s, v)) = Len(s) + 1
         /\ \A i \in 1..Len(s) : s[i] \in Nat /\ Append(s, v)[i] = s[i]
         /\ Append(s, v)[Len(s) + 1] = v
BY LenProperties, AppendProperties, ElementOfSeq

\* What taking the first element of a queue that is not empty (pop_front) leaves.
LEMMA Popped ==
  ASSUME NEW s \in Seq(Nat), s # <<>>
  PROVE  /\ Len(s) \in Nat /\ Len(s) > 0
         /\ Tail(s) \in Seq(Nat) /\ Len(Tail(s)) = Len(s) - 1
         /\ \A i \in 1..(Len(s) - 1) : Tail(s)[i] = s[i + 1]
         /\ Head(s) = s[1] /\ Head(s) \in Nat
         /\ s = <<Head(s)>> \o Tail(s)
<1>1. Len(s) \in Nat /\ Len(s) # 0
  BY LenProperties, EmptySeq
<1>2. /\ Tail(s) \in Seq(Nat) /\ Len(Tail(s)) = Len(s) - 1
      /\ \A i \in 1..Len(Tail(s)) : Tail(s)[i] = s[i + 1]
      /\ Head(s) \in Nat
  BY HeadTailProperties
<1>3. Head(s) = s[1]
  OBVIOUS
<1>4. s = <<Head(s)>> \o Tail(s)
  BY HeadTailProperties, SMT
<1> QED
  BY <1>1, <1>2, <1>3, <1>4

\* A queue that is the end of what was stored still is, when a value enters both.
LEMMA PushSuffix ==
  ASSUME NEW q \in Seq(Nat), NEW s \in Seq(Nat), NEW v \in Nat, IsEndOf(q, s)
  PROVE  IsEndOf(Append(q, v), Append(s, v))
<1>1. /\ Len(q) \in Nat /\ Len(s) \in Nat /\ Len(q) <= Len(s)
      /\ Len(Append(q, v)) = Len(q) + 1 /\ Len(Append(s, v)) = Len(s) + 1
  BY Pushed DEF IsEndOf
<1>2. ASSUME NEW i \in 1..(Len(q) + 1)
      PROVE  Append(q, v)[i] = Append(s, v)[Len(s) - Len(q) + i]
  <2>1. CASE i = Len(q) + 1
    BY <1>1, <2>1, Pushed
  <2>2. CASE i \in 1..Len(q)
    <3>1. Len(s) - Len(q) + i \in 1..Len(s)
      BY <1>1, <2>2
    <3> QED
      BY <2>2, <3>1, Pushed DEF IsEndOf
  <2>3. i = Len(q) + 1 \/ i \in 1..Len(q)
    BY <1>1
  <2> QED
    BY <2>1, <2>2, <2>3
<1>3. \A i \in 1..(Len(q) + 1) : Len(s) + 1 - (Len(q) + 1) + i = Len(s) - Len(q) + i
  BY <1>1
<1>4. \A i \in 1..(Len(q) + 1) : Append(q, v)[i] = Append(s, v)[Len(s) + 1 - (Len(q) + 1) + i]
  BY <1>2, <1>3
<1>5. Len(q) + 1 <= Len(s) + 1
  BY <1>1
<1> QED
  <2> DEFINE Q == Append(q, v)
             T == Append(s, v)
  <2>1. Len(Q) = Len(q) + 1 /\ Len(T) = Len(s) + 1
    BY <1>1
  <2>2. \A i \in 1..(Len(q) + 1) : Q[i] = T[Len(s) + 1 - (Len(q) + 1) + i]
    BY <1>4
  <2> HIDE DEF Q, T
  <2>3. IsEndOf(Q, T)
    BY <1>5, <2>1, <2>2 DEF IsEndOf
  <2> QED
    BY <2>3 DEF Q, T

\* What pop_front leaves of a queue is still the end of what was stored.
LEMMA PopSuffix ==
  ASSUME NEW q \in Seq(Nat), NEW s \in Seq(Nat), q # <<>>, IsEndOf(q, s)
  PROVE  IsEndOf(Tail(q), s)
<1>1. /\ Len(q) \in Nat /\ Len(s) \in Nat /\ Len(q) > 0 /\ Len(q) <= Len(s)
      /\ Len(Tail(q)) = Len(q) - 1
  BY Popped, LenProperties DEF IsEndOf
<1>2. ASSUME NEW i \in 1..(Len(q) - 1)
      PROVE  Tail(q)[i] = s[Len(s) - (Len(q) - 1) + i]
  <2>1. Tail(q)[i] = q[i + 1] /\ i + 1 \in 1..Len(q)
    BY <1>1, Popped
  <2>2. q[i + 1] = s[Len(s) - Len(q) + (i + 1)]
    BY <2>1 DEF IsEndOf
  <2>3. Len(s) - Len(q) + (i + 1) = Len(s) - (Len(q) - 1) + i
    BY <1>1
  <2> QED
    BY <2>1, <2>2, <2>3
<1> QED
  BY <1>1, <1>2 DEF IsEndOf

\* The queue changes in four ways.  v is the value of the write.
Kept == UNCHANGED <<queue, stored, reads>>
Entered(v) == /\ Full => queue = <<>> /\ policy = "DropOldest"
              /\ PushBack(queue, v) /\ UNCHANGED reads
Replaced(v) == Full /\ queue # <<>> /\ policy = "DropOldest" /\ PushBack(Tail(queue), v) /\ UNCHANGED reads
Taken == /\ queue # <<>> /\ queue' = Tail(queue)
         /\ reads' = Append(reads, Head(queue)) /\ UNCHANGED stored

\* A channel keeps the policy it was created with.
LEMMA PolicyFixed == [StreamNext]_streamVars => policy' = policy
BY DEF StreamNext, streamVars, Write, WriteFull, Retry, Read, Subscribe, DropReader

\* Each step of a channel keeps its queue, takes the first value, or lets one enter,
\* in a free place or in that of the oldest.
LEMMA QueueSteps ==
  ASSUME StreamTypeOK, [StreamNext]_streamVars
  PROVE  Kept \/ Taken \/ \E v \in Nat : Entered(v) \/ Replaced(v)
<1> USE DEF Kept, Entered, Replaced, Taken
<1>1. CASE Write
  BY <1>1 DEF Write, MakeRoom, StreamTypeOK
<1>2. CASE Retry
  BY <1>2 DEF Retry, StreamTypeOK
<1> QED
  BY <1>1, <1>2 DEF StreamNext, streamVars, WriteFull, Read, Subscribe, DropReader

\* Every step of a channel leaves sequences of written values.
LEMMA QueueTypes ==
  ASSUME StreamTypeOK, [StreamNext]_streamVars
  PROVE  queue' \in Seq(Nat) /\ stored' \in Seq(Nat) /\ reads' \in Seq(Nat)
<1>1. queue \in Seq(Nat) /\ stored \in Seq(Nat) /\ reads \in Seq(Nat)
  BY DEF StreamTypeOK
<1>2. CASE Kept
  BY <1>1, <1>2 DEF Kept
<1>3. CASE Taken
  BY <1>1, <1>3, Popped, Pushed DEF Taken
<1>4. ASSUME NEW v \in Nat, Entered(v)
      PROVE  queue' \in Seq(Nat) /\ stored' \in Seq(Nat) /\ reads' \in Seq(Nat)
  BY <1>1, <1>4, Pushed DEF Entered, PushBack
<1>5. ASSUME NEW v \in Nat, Replaced(v)
      PROVE  queue' \in Seq(Nat) /\ stored' \in Seq(Nat) /\ reads' \in Seq(Nat)
  BY <1>1, <1>5, Popped, Pushed DEF Replaced, PushBack
<1> QED
  BY <1>2, <1>3, <1>4, <1>5, QueueSteps

\* Every operation of the stream channel preserves the types.
LEMMA StreamTypeStep == StreamTypeOK /\ [StreamNext]_streamVars => StreamTypeOK'
<1> SUFFICES ASSUME StreamTypeOK, [StreamNext]_streamVars PROVE StreamTypeOK'
  OBVIOUS
<1>0. policy' = policy
  BY PolicyFixed
<1>1. queue' \in Seq(Nat) /\ stored' \in Seq(Nat) /\ reads' \in Seq(Nat)
  BY QueueTypes
<1>2. ASSUME NEW v \in Nat, AnswerOk(v) PROVE ok' \in Seq(Nat) /\ notified' \in Seq(Nat)
  BY <1>2, Pushed DEF AnswerOk, StreamTypeOK
<1>3. CASE Write
  BY <1>0, <1>1, <1>2, <1>3 DEF Write, StreamTypeOK
<1>4. CASE WriteFull
  BY <1>0, <1>1, <1>4 DEF WriteFull, StreamTypeOK
<1>5. CASE Retry
  <2>1. ok' \in Seq(Nat) /\ notified' \in Seq(Nat)
    BY <1>2, <1>5 DEF Retry, StreamTypeOK
  <2>2. waiting' \in Nat /\ retries' \in 0..(MaxStreamRetries - 1) /\ timed_out' \subseteq Nat
    <3>1. waiting \in Nat /\ retries \in 0..(MaxStreamRetries - 1) /\ timed_out \subseteq Nat
      BY DEF StreamTypeOK
    <3>2. \/ waiting' = 0 /\ retries' = 0 /\ timed_out' = timed_out
          \/ waiting' = waiting /\ retries' = retries + 1 /\ retries < MaxStreamRetries - 1
             /\ timed_out' = timed_out
          \/ waiting' = 0 /\ retries' = 0 /\ timed_out' = timed_out \cup {waiting}
      BY <1>5 DEF Retry
    <3>3. retries' \in 0..(MaxStreamRetries - 1)
      BY <3>1, <3>2
    <3>4. timed_out' \subseteq Nat
      BY <3>1, <3>2
    <3>5. waiting' \in Nat
      BY <3>1, <3>2
    <3> QED
      BY <3>3, <3>4, <3>5
  <2> QED
    BY <1>0, <1>1, <1>5, <2>1, <2>2 DEF Retry, StreamTypeOK
<1>6. CASE Subscribe
  BY <1>0, <1>1, <1>6, LenProperties DEF Subscribe, StreamTypeOK
<1> QED
  BY <1>1, <1>3, <1>4, <1>5, <1>6 DEF StreamNext, Read, DropReader, streamVars, StreamTypeOK

\* A new channel has the types.
LEMMA StreamInitial == StreamInit => StreamTypeOK
<1> SUFFICES ASSUME StreamInit PROVE StreamTypeOK
  OBVIOUS
<1>1. <<>> \in Seq(Nat)
  BY EmptySeq
<1>2. subscribed \in BOOLEAN /\ reader \in BOOLEAN
  BY DEF StreamInit
<1>3. 0 \in 0..(MaxStreamRetries - 1) /\ {} \subseteq Nat
  OBVIOUS
<1> QED
  BY <1>1, <1>2, <1>3 DEF StreamInit, StreamTypeOK

\* Types, for every policy, depth and retry limit.
THEOREM StreamTypeCorrect == StreamSpec => []StreamTypeOK
BY StreamInitial, StreamTypeStep, PTL DEF StreamSpec

\* The queue never outgrows queue_depth, a depth of 0 included, at which
\* DropOldest keeps one value and the other policies none.
THEOREM StreamBounded == StreamSpec => []QueueBounded
<1>1. StreamInit => QueueBounded
  BY EmptySeq DEF StreamInit, QueueBounded
<1>2. StreamTypeOK /\ QueueBounded /\ [StreamNext]_streamVars => QueueBounded'
  <2> SUFFICES ASSUME StreamTypeOK, QueueBounded, [StreamNext]_streamVars PROVE QueueBounded'
    OBVIOUS
  <2>1. queue \in Seq(Nat) /\ Len(queue) \in Nat /\ policy' = policy
    BY LenProperties, PolicyFixed DEF StreamTypeOK
  <2>2. CASE Kept
    BY <2>1, <2>2 DEF Kept, QueueBounded
  <2>3. CASE Taken
    <3>1. Len(queue) > 0 /\ Len(queue') = Len(queue) - 1
      BY <2>1, <2>3, Popped DEF Taken
    <3> QED
      BY <2>1, <3>1 DEF QueueBounded
  <2>4. ASSUME NEW v \in Nat, Entered(v) PROVE QueueBounded'
    <3>1. Len(queue') = Len(queue) + 1
      BY <2>1, <2>4, Pushed DEF Entered, PushBack
    <3>2. CASE ~Full
      BY <2>1, <3>1, <3>2 DEF Full, QueueBounded
    <3>3. CASE Full
      <4>1. Len(queue) = 0 /\ policy = "DropOldest"
        BY <2>4, <3>3, EmptySeq DEF Entered
      <4> QED
        BY <2>1, <3>1, <4>1 DEF QueueBounded
    <3> QED
      BY <3>2, <3>3
  <2>5. ASSUME NEW v \in Nat, Replaced(v) PROVE QueueBounded'
    <3>1. Tail(queue) \in Seq(Nat) /\ Len(Tail(queue)) = Len(queue) - 1
      BY <2>1, <2>5, Popped DEF Replaced
    <3>2. Len(queue') = Len(Tail(queue)) + 1
      BY <2>5, <3>1, Pushed DEF Replaced, PushBack
    <3> QED
      BY <2>1, <3>1, <3>2 DEF QueueBounded
  <2> QED
    BY <2>2, <2>3, <2>4, <2>5, QueueSteps
<1> QED
  BY <1>1, <1>2, StreamTypeCorrect, PTL DEF StreamSpec

\* Whatever the policy, the queue is the end of what was put into it.
THEOREM StreamQueueIsSuffix == StreamSpec => []QueueIsSuffix
<1>1. StreamInit => QueueIsSuffix
  BY EmptySeq DEF StreamInit, QueueIsSuffix, IsEndOf
<1>2. StreamTypeOK /\ QueueIsSuffix /\ [StreamNext]_streamVars => QueueIsSuffix'
  <2> SUFFICES ASSUME StreamTypeOK, QueueIsSuffix, [StreamNext]_streamVars PROVE QueueIsSuffix'
    OBVIOUS
  <2>1. queue \in Seq(Nat) /\ stored \in Seq(Nat) /\ IsEndOf(queue, stored)
    BY DEF StreamTypeOK, QueueIsSuffix
  <2>2. CASE Kept
    BY <2>1, <2>2 DEF Kept, QueueIsSuffix
  <2>3. CASE Taken
    BY <2>1, <2>3, PopSuffix DEF Taken, QueueIsSuffix
  <2>4. ASSUME NEW v \in Nat, Entered(v) PROVE QueueIsSuffix'
    BY <2>1, <2>4, PushSuffix DEF Entered, PushBack, QueueIsSuffix
  <2>5. ASSUME NEW v \in Nat, Replaced(v) PROVE QueueIsSuffix'
    <3>1. Tail(queue) \in Seq(Nat) /\ IsEndOf(Tail(queue), stored)
      BY <2>1, <2>5, Popped, PopSuffix DEF Replaced
    <3> QED
      BY <2>1, <2>5, <3>1, PushSuffix DEF Replaced, PushBack, QueueIsSuffix
  <2> QED
    BY <2>2, <2>3, <2>4, <2>5, QueueSteps
<1> QED
  BY <1>1, <1>2, StreamTypeCorrect, PTL DEF StreamSpec

\* A value that enters a queue is appended to what was read and is queued.
LEMMA ConcatPush ==
  ASSUME NEW a \in Seq(Nat), NEW b \in Seq(Nat), NEW v \in Nat
  PROVE  Append(a \o b, v) = a \o Append(b, v)
<1>1. <<v>> \in Seq(Nat) /\ a \o b \in Seq(Nat)
  BY ConcatProperties
<1>2. Append(a \o b, v) = (a \o b) \o <<v>>
  BY <1>1, AppendIsConcat
<1>3. Append(b, v) = b \o <<v>>
  BY AppendIsConcat
<1>4. (a \o b) \o <<v>> = a \o (b \o <<v>>)
  BY <1>1, ConcatAssociative
<1> QED
  BY Zenon, <1>2, <1>3, <1>4

\* A value read moves from the queue to what was read: both together stay the same.
LEMMA ConcatPop ==
  ASSUME NEW a \in Seq(Nat), NEW b \in Seq(Nat), b # <<>>
  PROVE  Append(a, Head(b)) \o Tail(b) = a \o b
<1>1. Head(b) \in Nat /\ Tail(b) \in Seq(Nat) /\ b = <<Head(b)>> \o Tail(b)
  BY Popped
<1>2. <<Head(b)>> \in Seq(Nat)
  BY <1>1
<1>3. Append(a, Head(b)) = a \o <<Head(b)>>
  BY <1>1, AppendIsConcat
<1>4. (a \o <<Head(b)>>) \o Tail(b) = a \o (<<Head(b)>> \o Tail(b))
  BY <1>1, <1>2, ConcatAssociative
<1> QED
  BY <1>1, <1>3, <1>4

\* Under Backpressure and DropNewest nothing that entered the queue is lost.
THEOREM StreamLossless == StreamSpec => []Lossless
<1>1. StreamInit => Lossless
  BY EmptySeq, ConcatEmptySeq DEF StreamInit, Lossless
<1>2. StreamTypeOK /\ Lossless /\ [StreamNext]_streamVars => Lossless'
  <2> SUFFICES ASSUME StreamTypeOK, Lossless, [StreamNext]_streamVars, policy # "DropOldest"
               PROVE  stored' = reads' \o queue'
    BY PolicyFixed DEF Lossless
  <2>1. /\ queue \in Seq(Nat) /\ stored \in Seq(Nat) /\ reads \in Seq(Nat)
        /\ stored = reads \o queue
    BY DEF StreamTypeOK, Lossless
  <2>2. CASE Kept
    BY <2>1, <2>2 DEF Kept
  <2>3. CASE Taken
    BY <2>1, <2>3, ConcatPop DEF Taken
  <2>4. ASSUME NEW v \in Nat, Entered(v) PROVE stored' = reads' \o queue'
    BY <2>1, <2>4, ConcatPush DEF Entered, PushBack
  <2> QED
    BY <2>2, <2>3, <2>4, QueueSteps DEF Replaced
<1> QED
  BY <1>1, <1>2, StreamTypeCorrect, PTL DEF StreamSpec

\* A callback that is not registered yet has seen nothing.
Unsubscribed == ~subscribed => reader = FALSE \/ notified = <<>>

\* A callback sees every write answered Ok ok_before it was registered, once and
\* in order.
THEOREM StreamSubscriberSeesAll == StreamSpec => []SubscriberSeesAll
<1> DEFINE Inv == Unsubscribed /\ SubscriberSeesAll
<1>1. StreamInit => Inv
  BY DEF StreamInit, Unsubscribed, SubscriberSeesAll
<1>2. StreamTypeOK /\ Inv /\ [StreamNext]_streamVars => Inv'
  <2> SUFFICES ASSUME StreamTypeOK, Unsubscribed, SubscriberSeesAll, [StreamNext]_streamVars PROVE Inv'
    OBVIOUS
  <2>1. ok \in Seq(Nat) /\ notified \in Seq(Nat) /\ ok_before \in Nat
        /\ Len(ok) \in Nat /\ Len(notified) \in Nat
    BY LenProperties DEF StreamTypeOK
  <2>2. CASE UNCHANGED <<ok, notified, ok_before, subscribed, reader>>
    BY <2>2 DEF Unsubscribed, SubscriberSeesAll
  <2>3. ASSUME NEW v \in Nat, AnswerOk(v), UNCHANGED <<ok_before, subscribed, reader>> PROVE Inv'
    <3>1. CASE ~subscribed
      BY <2>3, <3>1 DEF AnswerOk, Unsubscribed, SubscriberSeesAll
    <3>2. CASE subscribed
      <4>1. ok' = Append(ok, v) /\ notified' = Append(notified, v)
        BY <2>3, <3>2 DEF AnswerOk
      <4>2. /\ Len(ok') = Len(ok) + 1 /\ Len(notified') = Len(notified) + 1
            /\ \A i \in 1..Len(ok) : ok'[i] = ok[i]
            /\ ok'[Len(ok) + 1] = v
            /\ \A i \in 1..Len(notified) : notified'[i] = notified[i]
            /\ notified'[Len(notified) + 1] = v
        BY <2>1, <4>1, Pushed
      <4>3. /\ Len(ok) = ok_before + Len(notified)
            /\ \A i \in 1..Len(notified) : notified[i] = ok[ok_before + i]
        BY <3>2 DEF SubscriberSeesAll
      <4>4. Len(ok') = ok_before + Len(notified')
        BY <2>1, <4>2, <4>3
      <4>5. ASSUME NEW i \in 1..(Len(notified) + 1) PROVE notified'[i] = ok'[ok_before + i]
        <5>1. CASE i = Len(notified) + 1
          <6>1. ok_before + i = Len(ok) + 1
            BY <2>1, <4>3, <5>1
          <6> QED
            BY <4>2, <5>1, <6>1
        <5>2. CASE i \in 1..Len(notified)
          <6>1. ok_before + i \in 1..Len(ok)
            BY <2>1, <4>3, <5>2
          <6> QED
            BY <4>2, <4>3, <5>2, <6>1
        <5>3. i = Len(notified) + 1 \/ i \in 1..Len(notified)
          BY <2>1
        <5> QED
          BY <5>1, <5>2, <5>3
      <4> QED
        BY <2>3, <3>2, <4>2, <4>4, <4>5 DEF Unsubscribed, SubscriberSeesAll
    <3> QED
      BY <3>1, <3>2
  <2>4. CASE Subscribe
    <3>1. notified = <<>> /\ notified' = <<>> /\ ok_before' = Len(ok) /\ ok' = ok
      BY <2>4 DEF Subscribe, Unsubscribed
    <3>2. Len(<<>>) = 0
      BY EmptySeq
    <3> QED
      BY <2>1, <2>4, <3>1, <3>2 DEF Subscribe, Unsubscribed, SubscriberSeesAll
  <2>5. CASE Write
    <3>1. written + 1 \in Nat
      BY DEF StreamTypeOK
    <3> QED
      BY <2>3, <2>5, <3>1 DEF Write
  <2>6. CASE Retry
    <3>1. waiting \in Nat
      BY DEF StreamTypeOK
    <3> QED
      BY <2>2, <2>3, <2>6, <3>1 DEF Retry
  <2>7. CASE DropReader
    BY <2>7 DEF DropReader, Unsubscribed, SubscriberSeesAll
  <2> QED
    BY <2>2, <2>4, <2>5, <2>6, <2>7 DEF StreamNext, streamVars, WriteFull, Read
<1> QED
  BY <1>1, <1>2, StreamTypeCorrect, PTL DEF StreamSpec
\* Pushing a value larger than all others, and moving the head of one
\* sequence to the end of the other, keep the order.
LEMMA PushIncreasing ==
  ASSUME NEW s \in Seq(Nat), NEW v \in Nat, Increasing(s), \A i \in 1..Len(s) : s[i] < v
  PROVE  Increasing(Append(s, v))
<1> DEFINE T == Append(s, v)
<1>1. /\ Len(s) \in Nat /\ Len(T) = Len(s) + 1
      /\ \A i \in 1..Len(s) : T[i] = s[i]
      /\ T[Len(s) + 1] = v
  BY Pushed
<1> HIDE DEF T
<1>2. ASSUME NEW i \in 1..(Len(s) + 1), NEW j \in 1..(Len(s) + 1), i < j PROVE T[i] < T[j]
  <2>1. i \in 1..Len(s)
    BY <1>1, <1>2
  <2>2. CASE j = Len(s) + 1
    BY <1>1, <2>1, <2>2
  <2>3. CASE j \in 1..Len(s)
    BY <1>1, <1>2, <2>1, <2>3 DEF Increasing
  <2>4. j = Len(s) + 1 \/ j \in 1..Len(s)
    BY <1>1
  <2> QED
    BY <2>2, <2>3, <2>4
<1>3. Increasing(T)
  BY <1>1, <1>2 DEF Increasing
<1> QED
  BY <1>3 DEF T

\* In a queue of increasing numbers the first is below all that remain.
LEMMA PopIncreasing ==
  ASSUME NEW s \in Seq(Nat), s # <<>>, Increasing(s)
  PROVE  /\ Increasing(Tail(s))
         /\ \A j \in 1..Len(Tail(s)) : Head(s) < Tail(s)[j]
<1> DEFINE T == Tail(s)
<1>1. /\ Len(s) \in Nat /\ Len(s) > 0 /\ Len(T) = Len(s) - 1
      /\ \A i \in 1..(Len(s) - 1) : T[i] = s[i + 1]
      /\ Head(s) = s[1]
  BY Popped
<1> HIDE DEF T
<1>2. ASSUME NEW i \in 1..(Len(s) - 1), NEW j \in 1..(Len(s) - 1), i < j PROVE T[i] < T[j]
  <2>1. i + 1 \in 1..Len(s) /\ j + 1 \in 1..Len(s) /\ i + 1 < j + 1
    BY <1>1, <1>2
  <2> QED
    BY <1>1, <2>1 DEF Increasing
<1>3. ASSUME NEW j \in 1..(Len(s) - 1) PROVE s[1] < T[j]
  <2>1. 1 \in 1..Len(s) /\ j + 1 \in 1..Len(s) /\ 1 < j + 1
    BY <1>1
  <2> QED
    BY <1>1, <2>1 DEF Increasing
<1>4. Increasing(T) /\ \A j \in 1..Len(T) : Head(s) < T[j]
  BY <1>1, <1>2, <1>3 DEF Increasing
<1> QED
  BY <1>4 DEF T

\* All values handed out so far are at most n.
UpTo(n) == /\ \A i \in 1..Len(reads) : reads[i] <= n
           /\ \A i \in 1..Len(queue) : queue[i] <= n
NewUpTo(n) == /\ \A i \in 1..Len(reads') : reads'[i] <= n
              /\ \A i \in 1..Len(queue') : queue'[i] <= n

\* A value above all read and queued ones keeps the order when it enters.
LEMMA OrderPush ==
  ASSUME NEW q \in Seq(Nat), NEW v \in Nat, reads \in Seq(Nat), reads' = reads,
         queue' = Append(q, v), Increasing(reads), Increasing(q),
         \A i \in 1..Len(reads), j \in 1..Len(q) : reads[i] < q[j],
         \A i \in 1..Len(reads) : reads[i] < v,
         \A j \in 1..Len(q) : q[j] < v
  PROVE  ReadsInOrder' /\ NewUpTo(v)
<1>1. /\ Len(q) \in Nat /\ Len(queue') = Len(q) + 1
      /\ \A i \in 1..Len(q) : q[i] \in Nat /\ queue'[i] = q[i]
      /\ queue'[Len(q) + 1] = v
  BY Pushed
<1>2. Increasing(queue')
  BY PushIncreasing
<1>3. \A j \in 1..(Len(q) + 1) : j = Len(q) + 1 \/ j \in 1..Len(q)
  BY <1>1
<1>4. \A i \in 1..Len(reads), j \in 1..Len(queue') : reads[i] < queue'[j]
  BY <1>1, <1>3
<1>5. \A i \in 1..Len(reads) : reads[i] \in Nat
  BY ElementOfSeq, LenProperties
<1>6. NewUpTo(v)
  BY <1>1, <1>3, <1>5 DEF NewUpTo
<1> QED
  BY <1>2, <1>4, <1>6 DEF ReadsInOrder, Increasing

\* Every operation of the channel keeps the order of reads, a waiting write (Backpressure)
\* having a number above all stored ones.
LEMMA OrderStep ==
  ASSUME StreamTypeOK, ReadsInOrder, WritesInv, [StreamNext]_streamVars
  PROVE  ReadsInOrder' /\ WritesInv'
<1>1. /\ queue \in Seq(Nat) /\ reads \in Seq(Nat) /\ written \in Nat /\ waiting \in Nat
      /\ Len(queue) \in Nat /\ Len(reads) \in Nat
      /\ \A i \in 1..Len(reads) : reads[i] \in Nat
      /\ \A i \in 1..Len(queue) : queue[i] \in Nat
  BY LenProperties, ElementOfSeq DEF StreamTypeOK
<1>2. /\ Increasing(reads) /\ Increasing(queue)
      /\ \A i \in 1..Len(reads), j \in 1..Len(queue) : reads[i] < queue[j]
  BY DEF ReadsInOrder
<1>3. waiting # 0 => waiting = written
  BY DEF WritesInv
<1>4. UpTo(Below)
  BY DEF WritesInv, UpTo
<1>5. Below \in Int /\ (waiting = 0 => Below = written) /\ (waiting # 0 => Below = written - 1)
  BY <1>1 DEF Below
<1>6. ASSUME NEW v \in Nat, v = Below + 1, PushBack(queue, v), reads' = reads
      PROVE  ReadsInOrder' /\ NewUpTo(v)
  <2>1. /\ \A i \in 1..Len(reads) : reads[i] < v
        /\ \A j \in 1..Len(queue) : queue[j] < v
    BY <1>1, <1>4, <1>5, <1>6 DEF UpTo
  <2> QED
    BY <1>1, <1>2, <1>6, <2>1, OrderPush DEF PushBack
<1>7. ASSUME queue # <<>>
      PROVE  /\ Tail(queue) \in Seq(Nat) /\ Increasing(Tail(queue))
             /\ \A i \in 1..Len(reads), j \in 1..Len(Tail(queue)) : reads[i] < Tail(queue)[j]
             /\ \A j \in 1..Len(Tail(queue)) : Tail(queue)[j] <= Below
             /\ \A j \in 1..Len(Tail(queue)) : Head(queue) < Tail(queue)[j]
             /\ Head(queue) = queue[1] /\ 1 \in 1..Len(queue)
  <2> DEFINE T == Tail(queue)
  <2>1. /\ T \in Seq(Nat) /\ Len(T) = Len(queue) - 1 /\ Len(queue) > 0
        /\ \A j \in 1..(Len(queue) - 1) : T[j] = queue[j + 1]
        /\ Head(queue) = queue[1]
    BY <1>1, <1>7, Popped
  <2>2. Increasing(T) /\ \A j \in 1..Len(T) : Head(queue) < T[j]
    BY <1>1, <1>2, <1>7, PopIncreasing
  <2> HIDE DEF T
  <2>3. \A j \in 1..Len(T) : j + 1 \in 1..Len(queue) /\ T[j] = queue[j + 1]
    BY <1>1, <2>1
  <2>4. 1 \in 1..Len(queue)
    BY <1>1, <2>1
  <2>5. /\ \A i \in 1..Len(reads), j \in 1..Len(T) : reads[i] < T[j]
        /\ \A j \in 1..Len(T) : T[j] <= Below
    BY <1>2, <1>4, <2>3 DEF UpTo
  <2> QED
    BY <2>1, <2>2, <2>4, <2>5 DEF T
<1>8. CASE UNCHANGED <<queue, reads>>
  <2>1. ReadsInOrder'
    BY <1>2, <1>8 DEF ReadsInOrder, Increasing
  <2>2. UpTo(Below)'
        /\ (waiting' # 0 => waiting' = written')
    <3>1. ASSUME Below' \in Int, Below' >= Below PROVE UpTo(Below)'
      BY <1>1, <1>4, <1>5, <1>8, <3>1 DEF UpTo
    <3>2. CASE Write
      BY <1>1, <1>5, <3>1, <3>2 DEF Write, MutexFree, Below
    <3>3. CASE WriteFull
      BY <1>1, <1>5, <3>1, <3>3 DEF WriteFull, MutexFree, Below
    <3>4. CASE Retry
      BY <1>1, <1>3, <1>5, <3>1, <3>4 DEF Retry, MutexFree, Below
    <3>5. CASE UNCHANGED <<written, waiting>>
      BY <1>1, <1>3, <1>5, <3>1, <3>5 DEF Below
    <3> QED
      BY <3>2, <3>3, <3>4, <3>5 DEF StreamNext, streamVars, Read, Subscribe, DropReader
  <2> QED
    BY <2>1, <2>2 DEF WritesInv, UpTo
<1>9. CASE Write /\ ~UNCHANGED <<queue, reads>>
  <2>1. MutexFree /\ written + 1 \in Nat /\ written + 1 = Below + 1 /\ reads' = reads
        /\ Below' = written + 1 /\ waiting' = 0
    BY <1>1, <1>5, <1>9 DEF Write, MutexFree, Below
  <2>2. CASE PushBack(queue, written + 1)
    <3>1. ReadsInOrder' /\ NewUpTo(written + 1)
      BY <1>6, <2>1, <2>2
    <3> QED
      BY <2>1, <3>1 DEF WritesInv, NewUpTo
  <2>3. CASE queue # <<>> /\ PushBack(Tail(queue), written + 1)
    <3>1. queue # <<>>
      BY <2>3
    <3>2. /\ \A i \in 1..Len(reads) : reads[i] < written + 1
          /\ \A j \in 1..Len(Tail(queue)) : Tail(queue)[j] <= written
      <4>1. Below = written
        BY <1>1, <1>5, <2>1 DEF MutexFree
      <4>2. \A i \in 1..Len(reads) : reads[i] <= written
        BY <1>4, <4>1 DEF UpTo
      <4>3. \A j \in 1..Len(Tail(queue)) : Tail(queue)[j] <= written
        BY <1>7, <3>1, <4>1
      <4> QED
        BY <1>1, <4>2, <4>3
    <3>3. \A j \in 1..Len(Tail(queue)) : Tail(queue)[j] < written + 1
      <4>1. \A j \in 1..Len(Tail(queue)) : Tail(queue)[j] \in Nat
        BY <1>7, <3>1, ElementOfSeq, LenProperties
      <4> QED
        BY <1>1, <3>2, <4>1
    <3>4. ReadsInOrder' /\ NewUpTo(written + 1)
      BY <1>1, <1>2, <1>7, <2>1, <2>3, <3>1, <3>2, <3>3, OrderPush DEF PushBack
    <3> QED
      BY <2>1, <3>4 DEF WritesInv, NewUpTo
  <2> QED
    BY <1>9, <2>1, <2>2, <2>3 DEF Write, MakeRoom
<1>10. CASE Retry /\ ~UNCHANGED <<queue, reads>>
  <2>1. waiting # 0 /\ waiting = Below + 1 /\ PushBack(queue, waiting) /\ reads' = reads
        /\ waiting' = 0 /\ written' = written /\ waiting = written
    BY <1>1, <1>3, <1>5, <1>10 DEF Retry, MutexFree
  <2>2. ReadsInOrder' /\ NewUpTo(waiting)
    BY <1>1, <1>6, <2>1
  <2> QED
    BY <2>1, <2>2 DEF WritesInv, NewUpTo, Below
<1>11. CASE Read
  <2>1. /\ queue # <<>> /\ queue' = Tail(queue) /\ reads' = Append(reads, Head(queue))
        /\ waiting' = waiting /\ written' = written
    BY <1>11 DEF Read
  <2>2. Head(queue) \in Nat /\ \A i \in 1..Len(reads) : reads[i] < Head(queue)
    BY <1>1, <1>2, <1>7, <2>1
  <2>3. Increasing(reads')
    BY <1>1, <1>2, <2>1, <2>2, PushIncreasing
  <2>4. /\ Len(reads') = Len(reads) + 1 /\ reads'[Len(reads) + 1] = Head(queue)
        /\ \A i \in 1..Len(reads) : reads'[i] = reads[i]
    BY <1>1, <2>1, <2>2, Pushed
  <2>5. \A i \in 1..(Len(reads) + 1) : i = Len(reads) + 1 \/ i \in 1..Len(reads)
    BY <1>1
  <2>6. Head(queue) <= Below
    BY <1>4, <1>7, <2>1 DEF UpTo
  <2>7. ReadsInOrder'
    BY <1>7, <2>1, <2>3, <2>4, <2>5 DEF ReadsInOrder
  <2>8. \A i \in 1..Len(reads') : reads'[i] <= Below
    BY <1>4, <2>4, <2>5, <2>6 DEF UpTo
  <2> QED
    BY <1>3, <1>7, <2>1, <2>7, <2>8 DEF WritesInv, Below
<1> QED
  BY <1>8, <1>9, <1>10, <1>11 DEF StreamNext, streamVars, WriteFull, Subscribe, DropReader

\* The reader gets values in the order of the writes and none twice, whatever
\* the policy drops.
THEOREM StreamReadsInOrder == StreamSpec => []ReadsInOrder
<1>1. StreamInit => ReadsInOrder /\ WritesInv
  BY EmptySeq DEF StreamInit, ReadsInOrder, Increasing, WritesInv
<1>2. StreamTypeOK /\ ReadsInOrder /\ WritesInv /\ [StreamNext]_streamVars => ReadsInOrder' /\ WritesInv'
  BY OrderStep
<1> QED
  BY <1>1, <1>2, StreamTypeCorrect, PTL DEF StreamSpec

\* For any depth and policy, reads and queue keep the order of the writes, and
\* the queue is the unbroken end of what push stored; all of it that was not
\* read, unless the policy is DropOldest.
THEOREM StreamDeliveredInOrder == StreamSpec => []DeliveredInOrder
<1>1. QueueIsSuffix /\ ReadsInOrder /\ Lossless => DeliveredInOrder
  BY DEF DeliveredInOrder
<1> QED
  BY <1>1, StreamQueueIsSuffix, StreamReadsInOrder, StreamLossless, PTL

\* Steps by what they do to the answers: none, the value v is stored or passed
\* to the callback, or the waiting write gives up.
NoAnswer == UNCHANGED <<stored, notified, timed_out>> /\ Below <= Below'
Sent(v) == /\ v = Below + 1 /\ Below' = v /\ waiting' = 0
           /\ stored' \in {stored, Append(stored, v)} /\ notified' \in {notified, Append(notified, v)}
           /\ UNCHANGED timed_out
GivenUp == /\ waiting = Below + 1 /\ Below' = waiting /\ waiting' = 0
           /\ timed_out' = timed_out \cup {waiting} /\ UNCHANGED <<stored, notified>>

\* Every step is one of them.
LEMMA OutcomeSteps ==
  ASSUME StreamTypeOK, OutcomeInv, [StreamNext]_streamVars
  PROVE  /\ NoAnswer \/ GivenUp \/ \E v \in Nat : Sent(v)
         /\ waiting' # 0 => waiting' = written' /\ Full'
<1>1. /\ waiting \in Nat /\ written \in Nat /\ Below \in Int
      /\ waiting # 0 => waiting = written /\ Full
  BY DEF StreamTypeOK, OutcomeInv, RetriesFutile, Below
<1>2. CASE Write
  <2>1. Sent(written + 1)
    BY <1>1, <1>2 DEF Write, MutexFree, PushBack, AnswerOk, Sent, Below
  <2>2. written + 1 \in Nat /\ waiting' = 0
    BY <1>1, <2>1 DEF Sent
  <2> QED BY <2>1, <2>2
<1>3. CASE WriteFull
  BY <1>1, <1>3 DEF WriteFull, MutexFree, NoAnswer, Below, Full
<1>4. CASE Retry
  <2>1. CASE retries < MaxStreamRetries - 1
    BY <1>1, <1>4, <2>1 DEF Retry, MutexFree, NoAnswer, Below, Full
  <2>2. CASE ~(retries < MaxStreamRetries - 1)
    BY <1>1, <1>4, <2>2 DEF Retry, MutexFree, GivenUp, Below, Full
  <2> QED BY <2>1, <2>2
<1>5. CASE Read \/ Subscribe \/ DropReader
  BY <1>1, <1>5 DEF Read, Subscribe, DropReader, MutexFree, NoAnswer, Below
<1>6. CASE UNCHANGED streamVars
  BY <1>1, <1>6 DEF streamVars, NoAnswer, Below, Full
<1> QED BY <1>2, <1>3, <1>4, <1>5, <1>6 DEF StreamNext

\* A value above all values of s can be appended: the bound moves to it, and
\* it is another one than those that are not in s and below it.
LEMMA AppendAbove ==
  ASSUME NEW s \in Seq(Nat), NEW v \in Nat, NEW t, t \in {s, Append(s, v)},
         \A i \in 1..Len(s) : s[i] < v
  PROVE  /\ \A i \in 1..Len(t) : t[i] <= v
         /\ \A w \in Nat : w < v /\ NotIn(w, s) => NotIn(w, t)
<1>1. /\ Len(s) \in Nat /\ \A i \in 1..Len(s) : s[i] \in Nat
      /\ Len(Append(s, v)) = Len(s) + 1 /\ Append(s, v)[Len(s) + 1] = v
      /\ \A i \in 1..Len(s) : Append(s, v)[i] = s[i]
  BY Pushed, LenProperties, ElementOfSeq
<1>2. \A i \in 1..(Len(s) + 1) : i \in 1..Len(s) \/ i = Len(s) + 1
  BY <1>1
<1>3. CASE t = s
  BY <1>1, <1>3
<1>4. CASE t = Append(s, v)
  BY <1>1, <1>2, <1>4 DEF NotIn
<1> QED BY <1>3, <1>4

\* Every step keeps OutcomeInv: a number is stored, or given up, or still free.
LEMMA OutcomeStep == StreamTypeOK /\ OutcomeInv /\ [StreamNext]_streamVars => OutcomeInv'
<1> SUFFICES ASSUME StreamTypeOK, OutcomeInv, [StreamNext]_streamVars PROVE OutcomeInv'
  OBVIOUS
<1>1. /\ stored \in Seq(Nat) /\ notified \in Seq(Nat) /\ timed_out \subseteq Nat
      /\ Below \in Int /\ Below' \in Int
      /\ \A i \in 1..Len(stored) : stored[i] \in Nat
      /\ \A i \in 1..Len(notified) : notified[i] \in Nat
  <2>1. /\ stored \in Seq(Nat) /\ notified \in Seq(Nat) /\ timed_out \subseteq Nat
        /\ waiting \in Nat /\ written \in Nat
    BY DEF StreamTypeOK
  <2>2. waiting' \in Nat /\ written' \in Nat
    BY StreamTypeStep DEF StreamTypeOK
  <2>3. Below \in Int /\ Below' \in Int
    BY <2>1, <2>2 DEF Below
  <2> QED BY <2>1, <2>3, Pushed
<1>2. waiting' # 0 => waiting' = written' /\ Full'
  BY OutcomeSteps
<1>3. CASE NoAnswer
  BY <1>1, <1>2, <1>3 DEF NoAnswer, OutcomeInv, RetriesFutile, ErrorMeansNotSent, NotIn
<1>4. CASE GivenUp
  <2>1. /\ NotIn(waiting, stored) /\ NotIn(waiting, notified)
    BY <1>1, <1>4 DEF GivenUp, OutcomeInv, NotIn
  <2>2. ErrorMeansNotSent'
    BY <1>4, <2>1 DEF GivenUp, OutcomeInv, ErrorMeansNotSent, NotIn
  <2> QED
    BY <1>1, <1>2, <1>4, <2>2 DEF GivenUp, OutcomeInv, RetriesFutile
<1>5. ASSUME NEW v \in Nat, Sent(v) PROVE OutcomeInv'
  <2>1. /\ \A i \in 1..Len(stored) : stored[i] < v
        /\ \A i \in 1..Len(notified) : notified[i] < v
        /\ \A w \in timed_out : w < v /\ w \in Nat
    BY <1>1, <1>5 DEF Sent, OutcomeInv
  <2>2. /\ \A i \in 1..Len(stored') : stored'[i] <= v
        /\ \A w \in Nat : w < v /\ NotIn(w, stored) => NotIn(w, stored')
    <3>1. stored' \in {stored, Append(stored, v)}
      BY <1>5 DEF Sent
    <3> QED BY <1>1, <2>1, <3>1, AppendAbove DEF NotIn
  <2>3. /\ \A i \in 1..Len(notified') : notified'[i] <= v
        /\ \A w \in Nat : w < v /\ NotIn(w, notified) => NotIn(w, notified')
    <3>1. notified' \in {notified, Append(notified, v)}
      BY <1>5 DEF Sent
    <3> QED BY <1>1, <2>1, <3>1, AppendAbove DEF NotIn
  <2>4. timed_out' = timed_out /\ Below' = v /\ waiting' = 0
    BY <1>5 DEF Sent
  <2>5. \A w \in timed_out : NotIn(w, stored) /\ NotIn(w, notified)
    BY DEF OutcomeInv, ErrorMeansNotSent
  <2>6. \A w \in timed_out : NotIn(w, stored') /\ NotIn(w, notified')
    BY <2>1, <2>2, <2>3, <2>5
  <2>7. ErrorMeansNotSent'
    BY <2>4, <2>6 DEF ErrorMeansNotSent, NotIn
  <2>8. \A w \in timed_out' : w <= Below'
    BY <2>1, <2>4
  <2> QED
    BY <2>2, <2>3, <2>4, <2>7, <2>8 DEF OutcomeInv, RetriesFutile
<1> QED BY <1>3, <1>4, <1>5, OutcomeSteps

\* A new channel has stored nothing and given up nothing.
LEMMA OutcomeInitial == StreamInit => OutcomeInv
BY EmptySeq DEF StreamInit, OutcomeInv, RetriesFutile, ErrorMeansNotSent, NotIn

\* For any depth and retry limit the retries of a Backpressure write are in
\* vain: the queue it found full stays full until it gives up.
THEOREM StreamRetriesFutile == StreamSpec => []RetriesFutile
<1>1. OutcomeInv => RetriesFutile
  BY DEF OutcomeInv
<1> QED BY <1>1, OutcomeInitial, OutcomeStep, StreamTypeCorrect, PTL DEF StreamSpec

\* The timeout error of write says the truth: the value is not in the stream
\* and will not be, and no subscriber was told of it.
THEOREM StreamErrorMeansNotSent == StreamSpec => []ErrorMeansNotSent
<1>1. OutcomeInv => ErrorMeansNotSent
  BY DEF OutcomeInv
<1> QED BY <1>1, OutcomeInitial, OutcomeStep, StreamTypeCorrect, PTL DEF StreamSpec
=============================================================================

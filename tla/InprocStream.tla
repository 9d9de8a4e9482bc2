---------------------------- MODULE InprocStream ----------------------------
(***************************************************************************)
(* The stream channel of the in-process middleware                         *)
(* (crates/audesys-amw-inproc/src/stream.rs): a bounded queue behind one   *)
(* mutex, with one writer handle and one reader handle that live on two    *)
(* threads (the handles are Send and not Sync).                            *)
(*                                                                         *)
(* write holds the mutex for its whole call, so it is one step, except     *)
(* under Backpressure with a full queue, where it sleeps between retries   *)
(* with the mutex held.  A value is the number of its write.               *)
(***************************************************************************)
EXTENDS Integers, Sequences

CONSTANTS
  Policies,          \* the values of QueuePolicy the instance explores
  Depth,             \* queue_depth
  MaxStreamRetries,  \* BACKPRESSURE_MAX_RETRIES
  MaxWrites          \* bound on the writes

ASSUME PoliciesAssumption == Policies \subseteq {"DropOldest", "DropNewest", "Backpressure"}
ASSUME DepthAssumption == Depth \in Nat   \* a u32 that nothing validates
ASSUME StreamBoundsAssumption == MaxStreamRetries \in Nat \ {0} /\ MaxWrites \in Nat

VARIABLES
  policy,       \* QueuePolicy of the channel
  queue,
  subscribed,   \* the reader's callback is registered
  reader,       \* the reader handle exists
  written,      \* writes begun
  waiting,      \* value of the write that retries with the mutex held, or 0
  retries,      \* retries it has made
  stored,     \* values put into the queue, in order
  reads,        \* values read, in order
  ok,           \* values whose write answered Ok, in order
  timed_out,       \* values whose write answered the timeout error
  notified,     \* values the callback was called with, in order
  ok_before         \* number of Ok writes when the callback was registered

streamVars == <<policy, queue, subscribed, reader, written, waiting, retries, stored, reads, ok,
          timed_out, notified, ok_before>>

StreamInit ==
  /\ policy \in Policies
  /\ queue = <<>> /\ subscribed = FALSE /\ reader = TRUE
  /\ written = 0 /\ waiting = 0 /\ retries = 0
  /\ stored = <<>> /\ reads = <<>> /\ ok = <<>> /\ timed_out = {}
  /\ notified = <<>> /\ ok_before = 0

MutexFree == waiting = 0   \* the mutex can be taken

Full == Len(queue) >= Depth

\* queue.push_back
PushBack(q, v) ==
  /\ queue' = Append(q, v)
  /\ stored' = Append(stored, v)

\* Mutant: the value that makes room is the newest one in the queue.
MakeRoom_Newest(q) == SubSeq(q, 1, Len(q) - 1)

\* queue.pop_front of the DropOldest policy; a queue of depth 0 is full though
\* there is nothing to pop.
MakeRoom(q) == IF q = <<>> THEN q ELSE Tail(q)

\* Mutant: a callback is only called for values that can be read.
AnswerOk_Queued(v) ==
  /\ ok' = Append(ok, v)
  /\ notified' = IF subscribed /\ ~Full THEN Append(notified, v) ELSE notified

\* push returned Ok: notify_subscribers, then Ok to the caller.
AnswerOk(v) ==
  /\ ok' = Append(ok, v)
  /\ notified' = IF subscribed THEN Append(notified, v) ELSE notified

\* write, when push needs no retry.
Write ==
  /\ MutexFree /\ written < MaxWrites
  /\ ~(Full /\ policy = "Backpressure")
  /\ written' = written + 1
  /\ \/ ~Full /\ PushBack(queue, written + 1)
     \/ Full /\ policy = "DropOldest" /\ PushBack(MakeRoom(queue), written + 1)
     \/ Full /\ policy = "DropNewest" /\ UNCHANGED <<queue, stored>>
  /\ AnswerOk(written + 1)
  /\ UNCHANGED <<policy, subscribed, reader, waiting, retries, reads, timed_out, ok_before>>

\* write, when push finds the queue full and starts to retry.
WriteFull ==
  /\ MutexFree /\ written < MaxWrites
  /\ Full /\ policy = "Backpressure"
  /\ written' = written + 1 /\ waiting' = written + 1 /\ retries' = 0
  /\ UNCHANGED <<policy, queue, subscribed, reader, stored, reads, ok, timed_out, notified, ok_before>>

\* One round of the retry loop: sleep, look again; after the last, the error.
Retry ==
  /\ ~MutexFree
  /\ IF ~Full
       THEN /\ PushBack(queue, waiting) /\ AnswerOk(waiting)
            /\ waiting' = 0 /\ retries' = 0
            /\ UNCHANGED timed_out
       ELSE /\ UNCHANGED <<queue, stored, ok, notified>>
            /\ IF retries < MaxStreamRetries - 1
                 THEN retries' = retries + 1 /\ UNCHANGED <<waiting, timed_out>>
                 ELSE retries' = 0 /\ waiting' = 0 /\ timed_out' = timed_out \cup {waiting}
  /\ UNCHANGED <<policy, subscribed, reader, written, reads, ok_before>>


\* StreamReader::read of a value (None from an empty queue changes nothing).
Read ==
  /\ MutexFree /\ reader /\ queue # <<>>
  /\ reads' = Append(reads, Head(queue))
  /\ queue' = Tail(queue)
  /\ UNCHANGED <<policy, subscribed, reader, written, waiting, retries, stored, ok, timed_out,
                 notified, ok_before>>

Subscribe ==
  /\ MutexFree /\ reader /\ ~subscribed
  /\ subscribed' = TRUE /\ ok_before' = Len(ok)
  /\ UNCHANGED <<policy, queue, reader, written, waiting, retries, stored, reads, ok, timed_out, notified>>

\* Drop of the reader handle: subscribers.clear().
DropReader ==
  /\ MutexFree /\ reader
  /\ reader' = FALSE /\ subscribed' = FALSE
  /\ UNCHANGED <<policy, queue, written, waiting, retries, stored, reads, ok, timed_out, notified, ok_before>>

StreamNext == Write \/ WriteFull \/ Retry \/ Read \/ Subscribe \/ DropReader

StreamSpec == StreamInit /\ [][StreamNext]_streamVars

-----------------------------------------------------------------------------
(* Properties.                                                             *)

\* Types; a write makes fewer than BACKPRESSURE_MAX_RETRIES retries before its last.
StreamTypeOK ==
  /\ policy \in Policies
  /\ queue \in Seq(Nat) /\ stored \in Seq(Nat) /\ reads \in Seq(Nat)
  /\ ok \in Seq(Nat) /\ notified \in Seq(Nat)
  /\ written \in Nat /\ waiting \in Nat /\ ok_before \in Nat
  /\ retries \in 0..(MaxStreamRetries - 1)
  /\ timed_out \subseteq Nat
  /\ subscribed \in BOOLEAN /\ reader \in BOOLEAN

\* The queue never holds more than queue_depth values, except that DropOldest
\* holds one value in a queue of depth 0, which no write finds room in.
QueueBounded ==
  \/ Len(queue) <= Depth
  \/ Depth = 0 /\ policy = "DropOldest" /\ Len(queue) = 1

IsEndOf(q, s) ==
  /\ Len(q) <= Len(s)
  /\ \A i \in 1..Len(q) : q[i] = s[Len(s) - Len(q) + i]

\* Whatever the policy, the queue is the end of what was put into it: an
\* overflow never makes a hole or reorders what a reader will get.
QueueIsSuffix == IsEndOf(queue, stored)

\* Under Backpressure and DropNewest whatever was put into the queue is read
\* once and in order, or is still in the queue.
Lossless == policy # "DropOldest" => stored = reads \o queue

Increasing(s) == \A i, j \in 1..Len(s) : i < j => s[i] < s[j]

\* The reader gets values in the order of the writes, with no repetition,
\* though DropOldest takes values from the head between two reads.
ReadsInOrder ==
  /\ Increasing(reads) /\ Increasing(queue)
  /\ \A i \in 1..Len(reads), j \in 1..Len(queue) : reads[i] < queue[j]

\* What a reader got, and what it will get, is in the order of the writes and
\* without repetition, an overflow leaves no hole in what is queued, and
\* without DropOldest nothing that was stored is missing.
DeliveredInOrder == QueueIsSuffix /\ ReadsInOrder /\ Lossless

\* A registered callback has seen every write answered Ok since it was
\* registered, once and in order, also the values DropNewest discards.
SubscriberSeesAll ==
  subscribed =>
    /\ Len(ok) = ok_before + Len(notified)
    /\ \A i \in 1..Len(notified) : notified[i] = ok[ok_before + i]

\* A Backpressure write that finds the queue full finds it full at every
\* retry, because it sleeps with the mutex held and no reader can make room:
\* such a write always ends in the timeout error.
RetriesFutile == waiting # 0 => Full

NotIn(v, s) == \A i \in 1..Len(s) : s[i] # v

\* A write that answered the timeout error left nothing behind: its value was
\* not stored and no callback was called with it, so that a caller who writes
\* it again does not send it twice.
ErrorMeansNotSent == \A v \in timed_out : NotIn(v, stored) /\ NotIn(v, notified)

\* Strengthening: numbers of writes already begun, the waiting one not yet used.
Below == IF waiting = 0 THEN written ELSE written - 1
WritesInv ==
  /\ waiting # 0 => waiting = written
  /\ \A i \in 1..Len(reads) : reads[i] <= Below
  /\ \A i \in 1..Len(queue) : queue[i] <= Below

\* And so for what was stored, notified and given up.
OutcomeInv ==
  /\ waiting # 0 => waiting = written
  /\ \A v \in timed_out : v <= Below
  /\ \A i \in 1..Len(stored) : stored[i] <= Below
  /\ \A i \in 1..Len(notified) : notified[i] <= Below
  /\ RetriesFutile /\ ErrorMeansNotSent
=============================================================================

-------------------------- MODULE InprocTransport --------------------------
(***************************************************************************)
(* Signals of the in-process transport                                     *)
(* (crates/audesys-amw-inproc/src/transport.rs): one signal, its stored    *)
(* value and its push subscribers.  publish_signal stores the value under  *)
(* one lock, then calls the subscribers under the read side of another;    *)
(* subscribe_signal, unsubscribe_signal and shutdown take the write side.  *)
(* A value is the number of its publication.                               *)
(***************************************************************************)
EXTENDS Integers, Sequences, Functions

CONSTANTS
  Publishers,    \* threads that publish (the cycle thread, IPC sessions, adapters)
  MaxPublishes,  \* bound on publications
  MaxSubs        \* bound on subscriptions

VARIABLES
  signal,        \* stored value, 0 if the signal does not exist
  callbacks,     \* subscriber ids, in order of subscription
  next_sub_id,
  published,     \* publications begun
  ppc, pval, todo,   \* per publisher: step, value, subscribers still to call
  last,          \* per subscriber: the value of its last callback, 0 if none
  heard,         \* per subscriber: the values of all its callbacks
  since,         \* per subscriber: publications begun when it subscribed
  alone,         \* the last publication began when none was under way
  spc            \* progress of shutdown

SubIds == 1..MaxSubs
pubVars == <<published, ppc, pval, todo, alone>>
subVars == <<last, heard, since>>
transportVars == <<signal, callbacks, next_sub_id, pubVars, subVars, spc>>

TransportInit ==
  /\ signal = 0 /\ callbacks = <<>> /\ next_sub_id = 1 /\ published = 0
  /\ ppc = [p \in Publishers |-> "idle"] /\ pval = [p \in Publishers |-> 0]
  /\ todo = [p \in Publishers |-> <<>>]
  /\ last = [s \in SubIds |-> 0] /\ since = [s \in SubIds |-> 0]
  /\ heard = [s \in SubIds |-> {}] /\ alone = TRUE
  /\ spc = "up"

\* The write side of the callbacks lock can be taken.
CallbacksFree == \A p \in Publishers : ppc[p] # "calling"

\* Mutant: the value is not stored.
PublishStore_NotStored(p) ==
  /\ ppc[p] = "idle" /\ published < MaxPublishes
  /\ published' = published + 1
  /\ pval' = [pval EXCEPT ![p] = published']
  /\ ppc' = [ppc EXCEPT ![p] = "stored"]
  /\ alone' = \A q \in Publishers : ppc[q] = "idle"
  /\ UNCHANGED <<signal, callbacks, next_sub_id, todo, subVars, spc>>

\* publish_signal: the value is stored.
PublishStore(p) ==
  /\ ppc[p] = "idle" /\ published < MaxPublishes
  /\ published' = published + 1
  /\ signal' = published'
  /\ pval' = [pval EXCEPT ![p] = published']
  /\ ppc' = [ppc EXCEPT ![p] = "stored"]
  /\ alone' = \A q \in Publishers : ppc[q] = "idle"
  /\ UNCHANGED <<callbacks, next_sub_id, todo, subVars, spc>>

\* callbacks.read()
PublishLock(p) ==
  /\ ppc[p] = "stored"
  /\ ppc' = [ppc EXCEPT ![p] = "calling"]
  /\ todo' = [todo EXCEPT ![p] = callbacks]
  /\ UNCHANGED <<signal, callbacks, next_sub_id, published, pval, alone, subVars, spc>>

\* One callback, in the publisher's thread.
Callback(p) ==
  /\ ppc[p] = "calling" /\ todo[p] # <<>>
  /\ last' = [last EXCEPT ![Head(todo[p])] = pval[p]]
  /\ heard' = [heard EXCEPT ![Head(todo[p])] = @ \cup {pval[p]}]
  /\ todo' = [todo EXCEPT ![p] = Tail(@)]
  /\ UNCHANGED <<signal, callbacks, next_sub_id, published, ppc, pval, alone, since, spc>>

\* The read guard is dropped and publish_signal returns.
PublishDone(p) ==
  /\ ppc[p] = "calling" /\ todo[p] = <<>>
  /\ ppc' = [ppc EXCEPT ![p] = "idle"]
  /\ UNCHANGED <<signal, callbacks, next_sub_id, published, pval, todo, alone, subVars, spc>>

subscribe_signal ==
  /\ CallbacksFree /\ next_sub_id <= MaxSubs
  /\ next_sub_id' = next_sub_id + 1
  /\ callbacks' = Append(callbacks, next_sub_id)
  /\ since' = [since EXCEPT ![next_sub_id] = published]
  /\ UNCHANGED <<signal, pubVars, last, heard, spc>>

\* Ids are not used twice: there is one entry to remove.
unsubscribe_signal(s) ==
  /\ CallbacksFree
  /\ \E i \in DOMAIN callbacks :
       /\ callbacks[i] = s
       /\ callbacks' = SubSeq(callbacks, 1, i - 1) \o SubSeq(callbacks, i + 1, Len(callbacks))
  /\ UNCHANGED <<signal, next_sub_id, pubVars, subVars, spc>>

\* shutdown clears the signals, then the callbacks.
ShutdownSignals ==
  /\ spc = "up" /\ spc' = "signals"
  /\ signal' = 0
  /\ UNCHANGED <<callbacks, next_sub_id, pubVars, subVars>>

ShutdownCallbacks ==
  /\ spc = "signals" /\ CallbacksFree /\ spc' = "down"
  /\ callbacks' = <<>>
  /\ UNCHANGED <<signal, next_sub_id, pubVars, subVars>>

Publish(p) == PublishLock(p) \/ Callback(p) \/ PublishDone(p)

TransportNext ==
  \/ \E p \in Publishers : PublishStore(p) \/ Publish(p)
  \/ subscribe_signal
  \/ \E s \in SubIds : unsubscribe_signal(s)
  \/ ShutdownSignals \/ ShutdownCallbacks

TransportSpec == TransportInit /\ [][TransportNext]_transportVars
TransportFairness == \A p \in Publishers : WF_transportVars(Publish(p))

-----------------------------------------------------------------------------
(* Properties.                                                             *)

Quiet == spc = "up" /\ \A p \in Publishers : ppc[p] = "idle"

\* When no publication is under way, a subscriber has been called with every
\* value published since it subscribed; its last one is the stored value,
\* unless publications of several threads overlapped.
PushAgreesWithPull ==
  Quiet => \A s \in Range(callbacks) :
             /\ since[s] + 1..published \subseteq heard[s]
             /\ alone /\ since[s] < published => last[s] = signal

-----------------------------------------------------------------------------
(* The inductive invariant *)

TransportTypeOK ==
  /\ signal \in Nat /\ published \in Nat /\ next_sub_id \in Nat \ {0}
  /\ callbacks \in Seq(SubIds)
  /\ ppc \in [Publishers -> {"idle", "stored", "calling"}]
  /\ pval \in [Publishers -> Nat] /\ todo \in [Publishers -> Seq(SubIds)]
  /\ last \in [SubIds -> Nat] /\ heard \in [SubIds -> SUBSET Nat] /\ since \in [SubIds -> Nat]
  /\ alone \in BOOLEAN /\ spc \in {"up", "signals", "down"}

\* The publisher is still to call the subscriber.
Due(p, s) == ppc[p] = "stored" \/ (ppc[p] = "calling" /\ s \in Range(todo[p]))

\* A value that was published has been heard, or is due.
HeardOrDue ==
  \A s \in Range(callbacks) : \A v \in since[s] + 1..published :
    v \in heard[s] \/ \E p \in Publishers : pval[p] = v /\ Due(p, s)

\* A publication that began alone and is under way is the last one.
LastAlone ==
  /\ spc = "up" => signal = published
  /\ alone =>
       /\ \A p \in Publishers : ppc[p] # "idle" =>
            pval[p] = published /\ \A q \in Publishers \ {p} : ppc[q] = "idle"
       /\ \A s \in Range(callbacks) : since[s] < published =>
            last[s] = published \/ \E p \in Publishers : Due(p, s)

TransportInv == TransportTypeOK /\ HeardOrDue /\ LastAlone
=============================================================================

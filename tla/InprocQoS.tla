----------------------------- MODULE InprocQoS -----------------------------
(***************************************************************************)
(* Lock level and configuration queue of the in-process middleware         *)
(* (crates/audesys-amw-inproc/src/qos.rs).  The level is an atomic that    *)
(* set_lock_level and queue_config load first and act on later; the queue  *)
(* has a mutex of its own.  A thread t is idle or between the load and the *)
(* action, with the level it loaded in seen[t].                            *)
(***************************************************************************)
EXTENDS Integers, Sequences

CONSTANTS
  Setters,    \* threads that call set_lock_level
  Queuers,    \* threads that call queue_config
  MaxCalls,   \* bound on queue_config calls
  None

ASSUME CallsAssumption == MaxCalls \in Nat

\* LockLevel
Load == 1
Config == 2
Params == 3
Run == 4
Levels == 0..5

\* The methods of the configuration interface and the words of their names
\* that required_lock_level looks for.
Words == [loadComponent |-> {"load", "component"}, unloadComponent |-> {"load", "component"},
          configureComponent |-> {"component"}, linkPin |-> {}, addFunction |-> {},
          removeFunction |-> {}, setParam |-> {"param"}]
Methods == DOMAIN Words

VARIABLES
  lock_level, config_queue,
  applied,      \* methods that apply_queued answered for, in order
  accepted,     \* methods that queue_config answered Queued to, in order
  calls,
  tpc, seen,
  level,        \* argument of set_lock_level
  method        \* argument of queue_config

Threads == Setters \cup Queuers
threadVars == <<tpc, seen, level, method>>
qosVars == <<lock_level, config_queue, applied, accepted, calls, threadVars>>

QosInit ==
  /\ lock_level = 0 /\ config_queue = <<>> /\ applied = <<>> /\ accepted = <<>>
  /\ calls = 0
  /\ tpc = [t \in Threads |-> "idle"] /\ seen = [t \in Threads |-> 0]
  /\ level = [t \in Threads |-> 0] /\ method = [t \in Threads |-> None]

\* The level a method needs, by the words of its name.
required_lock_level(m) ==
  IF Words[m] \cap {"load", "component"} # {} THEN Load
  ELSE IF "param" \in Words[m] THEN Params ELSE Config

\* Mutant: Run is treated like Params.
can_queue_AtRun(current, required) ==
  \/ current <= Load
  \/ current \in {Config, Params} /\ required >= current
  \/ current = Run /\ required >= Params

can_queue(current, required) ==
  \/ current <= Load
  \/ current \in {Config, Params} /\ required >= current

\* load_level(), the first step of both calls.
Begin(t, at, l, m) ==
  /\ tpc[t] = "idle"
  /\ tpc' = [tpc EXCEPT ![t] = at]
  /\ seen' = [seen EXCEPT ![t] = lock_level]
  /\ level' = [level EXCEPT ![t] = l]
  /\ method' = [method EXCEPT ![t] = m]

End(t) ==
  /\ tpc' = [tpc EXCEPT ![t] = "idle"]
  /\ seen' = [seen EXCEPT ![t] = 0]
  /\ level' = [level EXCEPT ![t] = 0]
  /\ method' = [method EXCEPT ![t] = None]

SetBegin(t) ==
  /\ t \in Setters
  /\ \E l \in Levels : Begin(t, "set", l, None)
  /\ UNCHANGED <<lock_level, config_queue, applied, accepted, calls>>

\* Reject a level below the loaded one, else store.
SetStore(t) ==
  /\ tpc[t] = "set"
  /\ lock_level' = IF level[t] < seen[t] THEN lock_level ELSE level[t]
  /\ End(t)
  /\ UNCHANGED <<config_queue, applied, accepted, calls>>

QueueBegin(t) ==
  /\ t \in Queuers /\ calls < MaxCalls
  /\ calls' = calls + 1
  /\ \E m \in Methods : Begin(t, "queue", 0, m)
  /\ UNCHANGED <<lock_level, config_queue, applied, accepted>>

QueuePush(t) ==
  /\ tpc[t] = "queue"
  /\ IF can_queue(seen[t], required_lock_level(method[t]))
       THEN /\ config_queue' = Append(config_queue, method[t])
            /\ accepted' = Append(accepted, method[t])
       ELSE UNCHANGED <<config_queue, accepted>>
  /\ End(t)
  /\ UNCHANGED <<lock_level, applied, calls>>

\* Mutant: the queue is applied last in, first out.
apply_queued_LastFirst ==
  /\ config_queue # <<>>
  /\ applied' = Append(applied, config_queue[Len(config_queue)])
  /\ config_queue' = SubSeq(config_queue, 1, Len(config_queue) - 1)
  /\ UNCHANGED <<lock_level, accepted, calls, threadVars>>

\* apply_queued, by the control thread.
apply_queued ==
  /\ config_queue # <<>>
  /\ applied' = applied \o config_queue
  /\ config_queue' = <<>>
  /\ UNCHANGED <<lock_level, accepted, calls, threadVars>>

QosNext ==
  \/ apply_queued
  \/ \E t \in Threads : SetBegin(t) \/ SetStore(t) \/ QueueBegin(t) \/ QueuePush(t)

QosSpec == QosInit /\ [][QosNext]_qosVars

-----------------------------------------------------------------------------
(* Properties.                                                             *)

\* The level and the threads' locals have their types; in particular the
\* atomic never holds a value that load_level would have to clamp.
QosTypeOK ==
  /\ lock_level \in Levels /\ calls \in 0..MaxCalls
  /\ config_queue \in Seq(Methods) /\ applied \in Seq(Methods) /\ accepted \in Seq(Methods)
  /\ tpc \in [Threads -> {"idle", "set", "queue"}]
  /\ seen \in [Threads -> Levels] /\ level \in [Threads -> Levels]
  /\ method \in [Threads -> Methods \cup {None}]
  /\ \A t \in Threads : tpc[t] = "set" => t \in Setters
  /\ \A t \in Threads : tpc[t] = "queue" => t \in Queuers /\ method[t] \in Methods

\* Once Run is reached, queue_config adds a command only for a call that had
\* loaded the level before: at most one late command per thread.
RunAdmitsOnlyInFlight ==
  [][accepted' # accepted /\ lock_level >= Run
       => \E t \in Threads : tpc[t] = "queue" /\ seen[t] < Run /\ tpc'[t] = "idle"]_qosVars

\* Every command answered Queued is applied once, in the order of the answers,
\* however apply_queued overlaps with queue_config.
QosFifo == accepted = applied \o config_queue
=============================================================================

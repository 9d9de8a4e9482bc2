----------------------------- MODULE Lifecycle -----------------------------
(***************************************************************************)
(* Child supervision in the runtime (crates/audesys-runtime/src/           *)
(* lifecycle.rs): LifecycleManager and its two users.  The main thread     *)
(* owns the manager: it spawns children (as the module's tests do; main.rs *)
(* itself configures none yet) and, once it has joined the control thread, *)
(* calls shutdown_all.  The control thread calls health_check at the end   *)
(* of every cycle (engine.rs).  The mutex on the list of children makes    *)
(* health_check one action; shutdown_all keeps it until the list is empty. *)
(*                                                                         *)
(* Time advances in ticks of one engine cycle; a child process may exit at *)
(* any time.                                                               *)
(***************************************************************************)
EXTENDS Integers, Sequences, FiniteSets

CONSTANTS
  Children,     \* names of the children main may spawn
  MaxRetries,   \* MAX_RETRIES
  Window,       \* RESTART_WINDOW_MS, in ticks
  Timeout,      \* the argument of shutdown_all, in ticks
  MaxTime       \* bound on the clock

ASSUME RetriesAssumption == MaxRetries \in Nat \ {0}
ASSUME TimesAssumption == Window \in Nat /\ Timeout \in Nat /\ MaxTime \in Nat

VARIABLES
  now,
  children,       \* the managed list, in spawn order
  proc,           \* the process behind each name
  restart_count, last_start,
  restarts,       \* times at which each child was restarted
  mpc, marg,      \* main thread: position, and the child or the deadline
  failed          \* names shutdown_all reports

clockVars == <<now, restarts>>
policyVars == <<restart_count, last_start>>
mainVars == <<mpc, marg, failed>>
vars == <<clockVars, children, proc, policyVars, mainVars>>

Managed == {children[i] : i \in DOMAIN children}

Init ==
  /\ now = 0 /\ children = <<>>
  /\ proc = [c \in Children |-> "none"]
  /\ restart_count = [c \in Children |-> 0] /\ last_start = [c \in Children |-> 0]
  /\ restarts = [c \in Children |-> <<>>]
  /\ mpc = "idle" /\ marg = 0 /\ failed = {}

-----------------------------------------------------------------------------
(* The environment: time passes, a process exits.                          *)

Tick ==
  /\ now < MaxTime
  /\ now' = now + 1
  /\ UNCHANGED <<restarts, children, proc, policyVars, mainVars>>

Exit(c) ==
  /\ proc[c] \in {"alive", "killed"}
  /\ proc' = [proc EXCEPT ![c] = "exited"]
  /\ UNCHANGED <<clockVars, children, policyVars, mainVars>>

-----------------------------------------------------------------------------
(* spawn: fork and exec, then enter the child in the list.                 *)

SpawnFork(c) ==
  /\ mpc = "idle" /\ proc[c] = "none"
  /\ proc' = [proc EXCEPT ![c] = "alive"]
  /\ mpc' = "push" /\ marg' = c
  /\ UNCHANGED <<clockVars, children, policyVars, failed>>

SpawnPush ==
  /\ mpc = "push"
  /\ children' = Append(children, marg)
  /\ restart_count' = [restart_count EXCEPT ![marg] = 0]
  /\ last_start' = [last_start EXCEPT ![marg] = now]
  /\ mpc' = "idle" /\ marg' = 0
  /\ UNCHANGED <<clockVars, proc, failed>>

-----------------------------------------------------------------------------
(* health_check.                                                           *)

\* Mutant: the counter is reset at every check.
CountAt_AlwaysReset(c, t) == 0

\* The restart counter of an exited child at time t: it is reset when the
\* window has passed since the last start.
CountAt(c, t) == IF t - last_start[c] >= Window THEN 0 ELSE restart_count[c]

MayRestart(n) == n < MaxRetries

\* The children try_wait finds exited when it fails for `lost`, and those of
\* them a restart is attempted for.
Exited(lost) == {c \in Managed \ lost : proc[c] = "exited"}
Due(lost) == {c \in Exited(lost) : MayRestart(CountAt(c, now + 1))}

\* One pass over the list: `again` are the due children that spawn succeeds
\* for.  A restart is at once; the backoff is only reported.  The pass ends a
\* cycle, so the clock advances.
CheckAll(lost, again) ==
  /\ now' = now + 1
  /\ proc' = [c \in Children |-> IF c \in again THEN "alive" ELSE proc[c]]
  /\ restart_count' = [c \in Children |->
       IF c \in again THEN CountAt(c, now') + 1
       ELSE IF c \in Exited(lost) THEN CountAt(c, now') ELSE restart_count[c]]
  /\ last_start' = [c \in Children |-> IF c \in again THEN now' ELSE last_start[c]]
  /\ restarts' = [c \in Children |->
       IF c \in again THEN Append(restarts[c], now') ELSE restarts[c]]
  /\ UNCHANGED <<children, mainVars>>

HealthCheck ==
  /\ mpc \in {"idle", "push"} /\ now < MaxTime
  /\ \E lost \in SUBSET {c \in Managed : proc[c] = "exited"} :
       \E again \in SUBSET Due(lost) : CheckAll(lost, again)

-----------------------------------------------------------------------------
(* shutdown_all: kill every child, then poll the first of the list until   *)
(* it has exited.  From the deadline on, or when try_wait fails, it is     *)
(* killed again and waited for, without a bound and with the lock held.    *)

\* Mutant: a signal a child may ignore in place of SIGKILL.
Killed_Ignored(S) == proc

\* The processes after SIGKILL to the children in S.
Killed(S) == [c \in Children |-> IF c \in S /\ proc[c] = "alive" THEN "killed" ELSE proc[c]]

ShutdownKill ==
  /\ mpc = "idle" /\ now + Timeout <= MaxTime
  /\ proc' = Killed(Managed)
  /\ mpc' = "reap" /\ marg' = now + Timeout
  /\ UNCHANGED <<clockVars, children, policyVars, failed>>

\* Remove the first child, which has been waited for.
RemoveFirst ==
  /\ proc' = [proc EXCEPT ![Head(children)] = "none"]
  /\ children' = Tail(children)
  /\ UNCHANGED <<clockVars, policyVars, marg>>

\* try_wait finds the first child exited.
Reap ==
  /\ mpc = "reap" /\ children # <<>>
  /\ proc[Head(children)] = "exited"
  /\ RemoveFirst
  /\ UNCHANGED <<mpc, failed>>

\* kill, and on to the blocking wait.
KillFirst ==
  /\ proc' = Killed({Head(children)})
  /\ mpc' = "wait"
  /\ UNCHANGED <<clockVars, children, policyVars, marg, failed>>

\* Mutant: the child is dropped from the list without kill and wait.
ReapLate_Forgets ==
  /\ mpc = "reap" /\ children # <<>>
  /\ proc[Head(children)] # "exited" /\ now >= marg
  /\ children' = Tail(children)
  /\ failed' = failed \cup {Head(children)}
  /\ UNCHANGED <<proc, clockVars, policyVars, mpc, marg>>

\* try_wait finds the first child running past the deadline.
ReapLate ==
  /\ mpc = "reap" /\ children # <<>>
  /\ proc[Head(children)] # "exited" /\ now >= marg
  /\ KillFirst

\* try_wait fails.
ReapError ==
  /\ mpc = "reap" /\ children # <<>>
  /\ KillFirst

\* wait returns, which it does only once the process has exited; the name is
\* reported.
Waited ==
  /\ mpc = "wait" /\ proc[Head(children)] = "exited"
  /\ RemoveFirst
  /\ mpc' = "reap"
  /\ failed' = failed \cup {Head(children)}

ShutdownDone ==
  /\ mpc = "reap" /\ children = <<>>
  /\ mpc' = "down" /\ marg' = 0
  /\ UNCHANGED <<clockVars, children, proc, policyVars, failed>>

Main == SpawnPush \/ ShutdownKill \/ Reap \/ ReapLate \/ ReapError \/ Waited \/ ShutdownDone
        \/ \E c \in Children : SpawnFork(c)

Next == Tick \/ HealthCheck \/ Main \/ \E c \in Children : Exit(c)

Spec == Init /\ [][Next]_vars

\* The clock advances, shutdown_all keeps polling, and a process that was sent
\* SIGKILL, which it cannot ignore, exits.  Nothing is assumed of a child that
\* was not killed.
Fairness ==
  /\ WF_vars(Tick) /\ WF_vars(Reap \/ ReapLate \/ Waited \/ ShutdownDone)
  /\ \A c \in Children : WF_vars(proc[c] = "killed" /\ Exit(c))

FairSpec == Spec /\ Fairness

-----------------------------------------------------------------------------
(* Properties.                                                             *)

ProcStates == {"none", "alive", "exited", "killed"}

\* Every variable stays in its type, and no counter exceeds MAX_RETRIES.
TypeOK ==
  /\ now \in 0..MaxTime
  /\ children \in Seq(Children)
  /\ proc \in [Children -> ProcStates]
  /\ restart_count \in [Children -> 0..MaxRetries]
  /\ last_start \in [Children -> 0..now]
  /\ restarts \in [Children -> Seq(0..now)]
  /\ mpc \in {"idle", "push", "reap", "wait", "down"}
  /\ marg \in IF mpc = "push" THEN Children ELSE Nat
  /\ mpc = "wait" => children # <<>>
  /\ failed \subseteq Children

\* At most MaxRetries of the times in T lie in any window.
RateOf(T) ==
  \A i \in DOMAIN T : i + MaxRetries \in DOMAIN T => T[i + MaxRetries] - T[i] >= Window

\* health_check restarts a child at most MAX_RETRIES times in any window of
\* RESTART_WINDOW_MS, although the window it tests starts anew with every
\* restart and a failed restart leaves the counter reset.
RestartRate == \A c \in Children : RateOf(restarts[c])

\* Every process the manager started is in its list (or about to be entered
\* in it), so when shutdown_all has returned none is left.
NoOrphan ==
  \A c \in Children :
    proc[c] # "none" => c \in Managed \/ (mpc = "push" /\ marg = c)

\* shutdown_all never waits for a child that was not told to go: while it polls
\* and while it is in the blocking wait, each child in its list has been killed
\* or has exited.  When it has returned no process is left.
ShutdownComplete ==
  /\ mpc \in {"reap", "wait"} => \A c \in Managed : proc[c] \in {"killed", "exited"}
  /\ mpc = "down" => children = <<>> /\ \A c \in Children : proc[c] = "none"

\* shutdown_all returns, although past the deadline it waits without a bound
\* for a child, whichever of them exit late and wherever try_wait fails.
ShutdownEnds == mpc \in {"reap", "wait"} ~> mpc = "down"

-----------------------------------------------------------------------------
(* Inductive strengthening, used in Supervision_proofs.                    *)

Ordered(T) == \A i, j \in 1..Len(T) : i <= j => T[i] <= T[j]

\* Of the restarts at T, the counter n counts the last n.  The ones it does
\* not count any more lie a full window before the first one it counts, or
\* before t.
Uncounted(T, n, t) ==
  /\ n <= Len(T)
  /\ n = 0 /\ Len(T) > 0 => t - T[Len(T)] >= Window
  /\ 0 < n /\ n < Len(T) => T[Len(T) - n + 1] - T[Len(T) - n] >= Window

RestartHistory(c) ==
  /\ Ordered(restarts[c]) /\ RateOf(restarts[c])
  /\ Uncounted(restarts[c], restart_count[c], now)
  /\ restarts[c] # <<>> => last_start[c] = restarts[c][Len(restarts[c])]

\* A child that is not in the list has never been restarted, until
\* shutdown_all empties the list.
Fresh(c) ==
  mpc \in {"idle", "push"} =>
    /\ c \notin Managed => restarts[c] = <<>>
    /\ c \in Managed => ~(mpc = "push" /\ marg = c)
    /\ c \in Managed \/ (mpc = "push" /\ marg = c) => proc[c] # "none"

RestartInv == \A c \in Children : RestartHistory(c) /\ Fresh(c)

\* No name is twice in the list.
Distinct(s) == \A j, k \in DOMAIN s : s[j] = s[k] => j = k
=============================================================================

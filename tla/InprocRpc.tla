----------------------------- MODULE InprocRpc -----------------------------
(***************************************************************************)
(* rpc_call and register_rpc_handler of the in-process transport           *)
(* (crates/audesys-amw-inproc/src/transport.rs).  A call runs its handler  *)
(* on a thread of its own and waits for the answer or for the timeout; the *)
(* thread is never stopped.                                                *)
(***************************************************************************)
EXTENDS Integers, FiniteSets

CONSTANTS
  Calls,      \* concurrent calls of one method
  MaxVersion  \* bound on registrations of its handler

ASSUME RpcAssumption == IsFiniteSet(Calls)

VARIABLES
  handler,    \* version of the registered handler, 0 if there is none
  versions,   \* registrations so far
  used,       \* handler a call has cloned
  cpc,        \* caller: idle, waiting, and its answer
  hpc,        \* handler thread: none, running, sent, dropped
  result,     \* what the handler sent
  effects,    \* calls whose handler has run to its end
  rpc_calls, rpc_timeouts, rpc_rejected

counters == <<rpc_calls, rpc_timeouts, rpc_rejected>>
rpcVars == <<handler, versions, used, cpc, hpc, result, effects, counters>>

Answers == {"Ok", "Error", "Timeout", "NotFound", "Disconnected"}

RpcInit ==
  /\ handler = 0 /\ versions = 0
  /\ used = [c \in Calls |-> 0]
  /\ cpc = [c \in Calls |-> "idle"] /\ hpc = [c \in Calls |-> "none"]
  /\ result = [c \in Calls |-> "none"]
  /\ effects = {}
  /\ rpc_calls = 0 /\ rpc_timeouts = 0 /\ rpc_rejected = 0

\* register_rpc_handler replaces the handler.
Register ==
  /\ versions < MaxVersion
  /\ versions' = versions + 1 /\ handler' = versions'
  /\ UNCHANGED <<used, cpc, hpc, result, effects, counters>>

\* The part of shutdown that clears the handlers.
ClearHandlers ==
  /\ handler # 0 /\ handler' = 0
  /\ UNCHANGED <<versions, used, cpc, hpc, result, effects, counters>>

\* rpc_call of a method without handler.
CallUnknown(c) ==
  /\ cpc[c] = "idle" /\ handler = 0
  /\ rpc_calls' = rpc_calls + 1 /\ rpc_rejected' = rpc_rejected + 1
  /\ cpc' = [cpc EXCEPT ![c] = "NotFound"]
  /\ UNCHANGED <<handler, versions, used, hpc, result, effects, rpc_timeouts>>

\* rpc_call clones the handler and spawns its thread.
Call(c) ==
  /\ cpc[c] = "idle" /\ handler # 0
  /\ rpc_calls' = rpc_calls + 1
  /\ used' = [used EXCEPT ![c] = handler]
  /\ cpc' = [cpc EXCEPT ![c] = "waiting"] /\ hpc' = [hpc EXCEPT ![c] = "running"]
  /\ UNCHANGED <<handler, versions, result, effects, rpc_timeouts, rpc_rejected>>

\* The handler returns and the thread sends its result, listened to or not.
HandlerReturns(c) ==
  /\ hpc[c] = "running"
  /\ hpc' = [hpc EXCEPT ![c] = "sent"]
  /\ \E r \in {"Ok", "Error"} :
       /\ result' = [result EXCEPT ![c] = r]
       /\ effects' = IF r = "Ok" THEN effects \cup {c} ELSE effects
  /\ UNCHANGED <<handler, versions, used, cpc, counters>>

\* The handler panics: the sender is dropped.
HandlerPanics(c) ==
  /\ hpc[c] = "running"
  /\ hpc' = [hpc EXCEPT ![c] = "dropped"]
  /\ UNCHANGED <<handler, versions, used, cpc, result, effects, counters>>

\* recv_timeout returns the result.
Receive(c) ==
  /\ cpc[c] = "waiting" /\ hpc[c] = "sent"
  /\ cpc' = [cpc EXCEPT ![c] = result[c]]
  /\ UNCHANGED <<handler, versions, used, hpc, result, effects, counters>>

\* Mutant: a handler that panicked is waited for like one that is slow.
Disconnected_Ignored(c) ==
  /\ cpc[c] = "waiting" /\ hpc[c] = "dropped" /\ FALSE
  /\ UNCHANGED rpcVars

Disconnected(c) ==
  /\ cpc[c] = "waiting" /\ hpc[c] = "dropped"
  /\ cpc' = [cpc EXCEPT ![c] = "Disconnected"]
  /\ rpc_rejected' = rpc_rejected + 1
  /\ UNCHANGED <<handler, versions, used, hpc, result, effects, rpc_calls, rpc_timeouts>>

\* The time is over before the thread has sent anything.
TimesOut(c) ==
  /\ cpc[c] = "waiting" /\ hpc[c] = "running"
  /\ cpc' = [cpc EXCEPT ![c] = "Timeout"]
  /\ rpc_timeouts' = rpc_timeouts + 1
  /\ UNCHANGED <<handler, versions, used, hpc, result, effects, rpc_calls, rpc_rejected>>

Answer(c) == Receive(c) \/ Disconnected(c) \/ TimesOut(c)

RpcNext ==
  \/ Register \/ ClearHandlers
  \/ \E c \in Calls : CallUnknown(c) \/ Call(c) \/ HandlerReturns(c) \/ HandlerPanics(c)
                        \/ Answer(c)

RpcSpec == RpcInit /\ [][RpcNext]_rpcVars

\* recv_timeout returns at the latest when its time is over; nothing is
\* assumed of the handlers.
RpcFairness == \A c \in Calls : WF_rpcVars(Answer(c))

-----------------------------------------------------------------------------
(* Properties.                                                             *)

\* rpc_call answers every call, also when its handler panics or never returns,
\* and says Ok only when this call's handler has run to its end.
CallAnswered ==
  \A c \in Calls : cpc[c] = "waiting" ~> \/ cpc[c] = "Ok" /\ c \in effects
                                         \/ cpc[c] \in Answers \ {"Ok"}

\* A caller that was told Ok was told so by a handler that did its work, and
\* no answer is taken for that of another call.
OkMeansDone == \A c \in Calls : cpc[c] = "Ok" => hpc[c] = "sent" /\ c \in effects

\* The inductive invariant: so it is for a result that is still to be read.
RpcInv ==
  /\ cpc \in [Calls -> Answers \cup {"idle", "waiting"}]
  /\ hpc \in [Calls -> {"none", "running", "sent", "dropped"}]
  /\ result \in [Calls -> {"none", "Ok", "Error"}]
  /\ \A c \in Calls :
       /\ cpc[c] = "idle" => hpc[c] = "none"
       /\ hpc[c] = "sent" => result[c] # "none"
       /\ result[c] = "Ok" => hpc[c] = "sent" /\ c \in effects
       /\ cpc[c] = "Ok" => result[c] = "Ok"

AnsweredBy(answers) == {c \in Calls : cpc[c] \in answers}

\* The statistics of the transport agree with what the callers were told: every
\* call begun is counted, every timeout and every rejection once, whatever the
\* order in which concurrent calls end.
CountersAgree ==
  /\ rpc_calls = Cardinality(AnsweredBy(Answers \cup {"waiting"}))
  /\ rpc_timeouts = Cardinality(AnsweredBy({"Timeout"}))
  /\ rpc_rejected = Cardinality(AnsweredBy({"NotFound", "Disconnected"}))
=============================================================================

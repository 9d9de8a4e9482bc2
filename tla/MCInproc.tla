------------------------------ MODULE MCInproc ------------------------------
(* The in-process middleware for TLC: its QoS gate, one stream channel, one *)
(* signal, one RPC method, and the virtual devices bound to its signals.    *)
(* The objects of the middleware share no state (middleware.rs only         *)
(* delegates to them), so in one behaviour one of them is used and the      *)
(* others stay in their initial states.                                     *)
EXTENDS InprocQoS, InprocStream, InprocTransport, InprocRpc, VirtualDevices, TLC

VARIABLE part

(* The requests of the masters: registers, coils, and what a device refuses *)
(* or ignores.  Input 65535 has the last address, register 9 no signal; a   *)
(* frame may have no function code, or one the device does not know.        *)
Query(fc, addr, count, values, size) ==
  [tid |-> 0, fc |-> fc, addr |-> addr, count |-> count, values |-> values, size |-> size]

Restarted == [requests |-> {Query(3, 0, 2, <<>>, 4), Query(6, 1, 1, <<5>>, 4)}, starts |-> 2]
StartedOnce ==
  {{Query(1, 0, 1, <<>>, 4), Query(5, 0, 1, <<65280>>, 4), Query(15, 0, 1, <<1>>, 6)},
   {Query(4, 7, 1, <<>>, 4), Query(16, 0, 2, <<3, 4>>, 9), Query(16, 0, 1, <<3>>, 7)},
   {Query(2, 65535, 2, <<>>, 4), Query(6, 9, 1, <<5>>, 4)},
   {Query(7, 0, 0, <<>>, 0), Query(0, 0, 0, <<>>, -1)}}
MCScenarios == {Restarted} \cup {[requests |-> rs, starts |-> 1] : rs \in StartedOnce}

MCMapped ==
  [coils |-> 0 :> "on", discrete_inputs |-> 0 :> "on",
   holding_regs |-> 0 :> "level" @@ 1 :> "rate", input_regs |-> 0 :> "level",
   slots |-> 0 :> "level" @@ 2 :> "rate"]
MCPublished ==
  [on |-> {}, level |-> {[type |-> "U32", n |-> 65537]}, rate |-> {}]

InprocInit ==
  /\ QosInit /\ StreamInit /\ TransportInit /\ RpcInit /\ VirtualInit
  /\ part \in {"qos", "stream", "signal", "rpc", "virtual"}
  /\ part # "stream" => policy = "DropNewest"   \* one idle channel is enough
  /\ virtual = "hart" \/ part # "virtual" => scenario = Restarted
  /\ part # "virtual" => virtual = "hart"

InprocNext ==
  /\ \/ part = "qos" /\ QosNext /\ UNCHANGED <<streamVars, transportVars, rpcVars, virtualVars>>
     \/ part = "stream" /\ StreamNext /\ UNCHANGED <<qosVars, transportVars, rpcVars, virtualVars>>
     \/ part = "signal" /\ TransportNext /\ UNCHANGED <<qosVars, streamVars, rpcVars, virtualVars>>
     \/ part = "rpc" /\ RpcNext /\ UNCHANGED <<qosVars, streamVars, transportVars, virtualVars>>
     \/ part = "virtual" /\ VirtualNext /\ UNCHANGED <<qosVars, streamVars, transportVars, rpcVars>>
  /\ UNCHANGED part

InprocSpec ==
  /\ InprocInit /\ [][InprocNext]_<<qosVars, streamVars, transportVars, rpcVars, virtualVars, part>>
  /\ TransportFairness /\ RpcFairness
=============================================================================

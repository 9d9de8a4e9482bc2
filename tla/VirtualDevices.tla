--------------------------- MODULE VirtualDevices ---------------------------
(* The virtual field devices of the simulation (audesys-runtime,           *)
(* virtual_modbus.rs and virtual_hart.rs) and the masters that query them  *)
(* (ModbusClient of audesys-modbus, client.rs).  A device answers from the *)
(* signals of the transport, which the control program goes on publishing. *)
(*                                                                         *)
(* The listener thread of the Modbus device serves one connection at a     *)
(* time: it drops a silent one after 100 ms, and the others queue.  A call *)
(* of a master fails after a second, whatever becomes of its request: the  *)
(* answer may come later.  One label per access to what is shared.         *)
EXTENDS Integers, Sequences, FiniteSets, Functions

CONSTANTS
  Masters,       \* threads that query the device
  MaxStarts,     \* bound: listener threads, one per start()
  Devices,       \* subset of {"modbus", "hart"}
  Scenarios,     \* [requests, starts]: what masters may ask, how often start() is called
  Mapped,        \* table -> (address -> signal): map_coil, map_slot, ...
  Published,     \* signal -> the values the program may publish
  MaxConnects, MaxQueries, MaxUpdates, MaxStops,   \* bounds
  Nobody         \* no thread, no connection, no value

ASSUME VirtualAssumption ==
  /\ MaxConnects \in Nat /\ MaxQueries \in Nat /\ MaxUpdates \in Nat /\ MaxStops \in Nat
  /\ MaxStarts \in Nat /\ Masters \cap (1..MaxStarts) = {}
  /\ Nobody \notin Masters \cup Nat

Listeners == 1..MaxStarts

\* A HalValue, of the types that the conversions tell apart.
HalTypes == {"Bool", "U16", "U32", "S32", "F32"}
HalValues == [type : HalTypes, n : Int]

Reads == {1, 2, 3, 4}
Writes == {5, 6, 15, 16}

\* What a frame says; one that writes has a value.
ModbusRequests ==
  {r \in [tid : Int, fc : Int, addr : Int, count : Nat, values : Seq(Int), size : Int] :
     r.fc \in Writes => r.values # <<>>}

Tables == {"coils", "discrete_inputs", "holding_regs", "input_regs", "slots"}

\* Mapped addresses have a signal of the transport.
ASSUME SignalsAssumption ==
  /\ \A s \in DOMAIN Published : Published[s] \subseteq HalValues
  /\ \A t \in Tables : \A a \in DOMAIN Mapped[t] : Mapped[t][a] \in DOMAIN Published
  /\ \A sc \in Scenarios : sc.requests \subseteq ModbusRequests /\ sc.starts \in 0..MaxStarts

VARIABLES
  virtual, scenario,              \* the kind of device, one of Scenarios (rigid)
  plant,                          \* the transport: signal -> value or Nobody
  running, lpc, serving, frame, words,   \* the listeners: label, connection, request, answer so far
  bound, backlog,                 \* who has the port, connections not accepted
  requests, answers, hung_up,     \* of each connection made
  socket, qpc, call,              \* of each master: connection, label, request
  held,                           \* what each signal has held since a call began
  queries, updates, stops, late   \* counters; frames taken since the last stop

listenerVars == <<running, lpc, serving, frame, words, bound, stops>>
socketVars == <<backlog, requests, answers, hung_up>>
masterVars == <<socket, qpc, call, queries>>
virtualVars == <<virtual, scenario, plant, listenerVars, socketVars, masterVars, held, updates, late>>

Unseen == [s \in DOMAIN Published |-> {}]

VirtualInit ==
  /\ virtual \in Devices /\ scenario \in Scenarios
  /\ plant = [s \in DOMAIN Published |-> Nobody]
  /\ running = FALSE /\ bound = Nobody /\ backlog = <<>> /\ stops = 0 /\ late = 0
  /\ lpc = [l \in Listeners |-> "unborn"]
  /\ serving = [l \in Listeners |-> Nobody] /\ frame = [l \in Listeners |-> Nobody]
  /\ words = [l \in Listeners \cup Masters |-> <<>>]
  /\ requests = <<>> /\ answers = <<>> /\ hung_up = <<>>
  /\ socket = [m \in Masters |-> Nobody] /\ qpc = [m \in Masters |-> "idle"]
  /\ call = [m \in Masters |-> Nobody] /\ held = [m \in Masters |-> Unseen]
  /\ queries = 0 /\ updates = 0

-----------------------------------------------------------------------------
(* The transport *)

Wait(l, label) == lpc' = [lpc EXCEPT ![l] = label]

\* publish_signal, by the program or for a master; what the masters whose
\* queries are under way could see.
Publishes(s, v) ==
  /\ plant' = [plant EXCEPT ![s] = v]
  /\ held' = [m \in Masters |-> IF qpc[m] = "idle" THEN held[m]
                                ELSE [held[m] EXCEPT ![s] = @ \cup {v}]]

ProgramPublishes ==
  /\ updates < MaxUpdates /\ updates' = updates + 1
  /\ \E s \in DOMAIN Published : \E v \in Published[s] : Publishes(s, v)
  /\ UNCHANGED <<virtual, scenario, listenerVars, socketVars, masterVars, late>>

(* HalValue as the bit of a coil or of a discrete input, as a register      *)
(* (`v as u16`), and as the f32 of a HART slot.  The numbers of an F32 are  *)
(* whole here.                                                              *)

IsInt(v, types) == v # Nobody /\ v.type \in types

AsCoil(v) == IF IsInt(v, {"Bool", "U16", "U32"}) /\ v.n # 0 THEN 1 ELSE 0
AsInput(v) == IF IsInt(v, {"Bool"}) /\ v.n # 0 THEN 1 ELSE 0
AsWord(v) ==
  CASE IsInt(v, {"Bool", "U16", "U32", "S32"}) -> v.n % 65536
    [] IsInt(v, {"F32"}) -> IF v.n < 0 THEN 0 ELSE IF v.n > 65535 THEN 65535 ELSE v.n
    [] OTHER -> 0
AsFloat(v) == IF IsInt(v, {"Bool", "U16", "U32", "S32", "F32"}) THEN v.n ELSE 0

-----------------------------------------------------------------------------
(* Requests: [tid, fc, addr, count, values, size], size the bytes after    *)
(* the function code, -1 for a frame without one; answers: [tid, exc,      *)
(* words], exc 0 when it is no exception.                                  *)

Table(fc) ==
  CASE fc \in {1, 5, 15} -> "coils" [] fc = 2 -> "discrete_inputs"
    [] fc \in {3, 6, 16} -> "holding_regs" [] fc = 4 -> "input_regs"

MinSize(fc) == CASE fc = 15 -> 6 [] fc = 16 -> 8 [] OTHER -> 4
MaxCount(fc) == IF fc \in {1, 2} THEN 2000 ELSE 125

\* The checks of the handlers before they touch a signal.
Refusal(r) ==
  CASE r.fc \notin Reads \cup Writes -> 1
    [] OTHER ->
       IF \/ r.size < MinSize(r.fc)
          \/ r.fc \in Reads /\ (r.count = 0 \/ r.count > MaxCount(r.fc))
          \/ r.fc = 5 /\ r.values[1] \notin {65280, 0}
       THEN 3 ELSE 0

\* u16 addresses: in a release build the sum wraps.
LastAddress == 65535
Address(r, i) == (r.addr + i) % 65536
IsMapped(r, i) == Address(r, i) \in DOMAIN Mapped[Table(r.fc)]
SignalAt(r, i) == Mapped[Table(r.fc)][Address(r, i)]

\* What one address of a read answers, from the value of its signal.
Converted(fc, v) ==
  CASE fc = 1 -> AsCoil(v) [] fc = 2 -> AsInput(v) [] fc \in {3, 4} -> AsWord(v)

\* What a write updates: of several coils or registers the first only.
FirstWritten(r) ==
  CASE r.fc = 5 -> [type |-> "Bool", n |-> IF r.values[1] = 65280 THEN 1 ELSE 0]
    [] r.fc = 15 -> [type |-> "Bool", n |-> r.values[1] % 2]
    [] r.fc \in {6, 16} -> [type |-> "U16", n |-> r.values[1]]

-----------------------------------------------------------------------------
(* VirtualModbusTcpDevice: its listener threads *)

\* start(): another thread, whether or not the one before has ended.
Start ==
  /\ virtual = "modbus"
  /\ \E l \in 1..scenario.starts :
       /\ lpc[l] = "unborn" /\ \A k \in 1..l - 1 : lpc[k] # "unborn"
       /\ Wait(l, "bind")
  /\ running' = TRUE /\ late' = 0
  /\ UNCHANGED <<virtual, scenario, plant, serving, frame, words, bound, stops, socketVars, masterVars,
                 held, updates>>

\* stop(), and drop: nobody is woken.
Stop ==
  /\ running /\ stops < MaxStops /\ stops' = stops + 1
  /\ running' = FALSE
  /\ UNCHANGED <<virtual, scenario, plant, lpc, serving, frame, words, bound, socketVars, masterVars,
                 held, updates, late>>

\* The port is taken while another listener has it.
Bind(l) ==
  /\ lpc[l] = "bind"
  /\ IF bound = Nobody THEN bound' = l /\ Wait(l, "accept")
     ELSE UNCHANGED bound /\ Wait(l, "ended")
  /\ UNCHANGED <<virtual, scenario, plant, running, serving, frame, words, stops, socketVars, masterVars,
                 held, updates, late>>

\* The thread ends with its listener, which resets the queue.
Close(l) ==
  /\ Wait(l, "ended") /\ bound' = Nobody /\ backlog' = <<>>
  /\ hung_up' = [k \in DOMAIN hung_up |->
                   hung_up[k] \/ k = serving[l] \/ k \in {backlog[i] : i \in DOMAIN backlog}]
  /\ serving' = [serving EXCEPT ![l] = Nobody]

\* incoming(): the flag is looked at once there is a connection.
Accept(l) ==
  /\ lpc[l] = "accept" /\ backlog # <<>>
  /\ IF running
     THEN /\ serving' = [serving EXCEPT ![l] = Head(backlog)] /\ backlog' = Tail(backlog)
          /\ Wait(l, "serve") /\ UNCHANGED <<bound, hung_up>>
     ELSE Close(l)
  /\ UNCHANGED <<virtual, scenario, plant, running, frame, words, stops, requests, answers, masterVars,
                 held, updates, late>>

\* The connection is dropped, and the next one accepted.
HangUp(l) ==
  /\ Wait(l, "accept")
  /\ hung_up' = [hung_up EXCEPT ![serving[l]] = TRUE]
  /\ serving' = [serving EXCEPT ![l] = Nobody]
  /\ UNCHANGED <<bound, backlog>>

\* Mutant: the flag is looked at between connections only.
ServeHead_Unflagged(l) ==
  /\ lpc[l] = "serve" /\ Wait(l, "header") /\ UNCHANGED <<serving, bound, backlog, hung_up>>
  /\ UNCHANGED <<virtual, scenario, plant, running, frame, words, stops, requests, answers, masterVars,
                 held, updates, late>>
\* The head of handle_client's loop.
ServeHead(l) ==
  /\ lpc[l] = "serve"
  /\ IF running THEN Wait(l, "header") /\ UNCHANGED <<serving, bound, backlog, hung_up>>
     ELSE HangUp(l)
  /\ UNCHANGED <<virtual, scenario, plant, running, frame, words, stops, requests, answers, masterVars,
                 held, updates, late>>

\* read_exact of the header and of the rest of the frame.
TakeFrame(l) ==
  /\ lpc[l] = "header" /\ requests[serving[l]] # <<>>
  /\ LET r == Head(requests[serving[l]])
     IN IF r.size < 0 THEN HangUp(l) /\ UNCHANGED frame
        ELSE /\ frame' = [frame EXCEPT ![l] = r] /\ Wait(l, "handle")
             /\ UNCHANGED <<serving, bound, backlog, hung_up>>
  /\ requests' = [requests EXCEPT ![serving[l]] = Tail(@)]
  /\ late' = (IF running THEN 0 ELSE late + 1)
  /\ UNCHANGED <<virtual, scenario, plant, running, words, stops, answers, masterVars, held, updates>>

\* 100 ms without a request, or the master has closed.
Silence(l) ==
  /\ lpc[l] = "header" /\ requests[serving[l]] = <<>> /\ HangUp(l)
  /\ UNCHANGED <<virtual, scenario, plant, running, frame, words, stops, requests, answers, masterVars,
                 held, updates, late>>

\* exception_response, read_response, echo_response: the transaction is the
\* request's.
Respond(l, exc, ws) ==
  /\ answers' = [answers EXCEPT ![serving[l]] =
                   Append(@, [tid |-> frame[l].tid, exc |-> exc, words |-> ws])]
  /\ frame' = [frame EXCEPT ![l] = Nobody] /\ words' = [words EXCEPT ![l] = <<>>]
  /\ Wait(l, "serve")

Refuse(l) ==
  /\ lpc[l] = "handle" /\ words[l] = <<>> /\ Refusal(frame[l]) # 0
  /\ Respond(l, Refusal(frame[l]), <<>>)
  /\ UNCHANGED <<virtual, scenario, plant, running, serving, bound, stops, backlog, requests, hung_up,
                 masterVars, held, updates, late>>

Allowed(l, fcs) == lpc[l] = "handle" /\ Refusal(frame[l]) = 0 /\ frame[l].fc \in fcs

\* The loop of handle_read_coils, handle_read_discrete_inputs and
\* handle_read_registers, one read_signal at a time: an address without a
\* signal is an exception, but for an input, which is off.
ReadNext(l) ==
  /\ Allowed(l, Reads) /\ Len(words[l]) < frame[l].count
  /\ LET r == frame[l]  i == Len(words[l])
     IN IF IsMapped(r, i) \/ r.fc = 2
        THEN /\ words' = [words EXCEPT ![l] =
                  Append(@, Converted(r.fc, IF IsMapped(r, i) THEN plant[SignalAt(r, i)] ELSE Nobody))]
             /\ UNCHANGED <<lpc, frame, answers>>
        ELSE Respond(l, 2, <<>>)
  /\ UNCHANGED <<virtual, scenario, plant, running, serving, bound, stops, backlog, requests, hung_up,
                 masterVars, held, updates, late>>

ReadEnds(l) ==
  /\ Allowed(l, Reads) /\ Len(words[l]) = frame[l].count
  /\ Respond(l, 0, words[l])
  /\ UNCHANGED <<virtual, scenario, plant, running, serving, bound, stops, backlog, requests, hung_up,
                 masterVars, held, updates, late>>

\* A build that checks overflow panics where the address would wrap.
ReadPanics(l) ==
  /\ Allowed(l, Reads) /\ Len(words[l]) < frame[l].count /\ frame[l].addr + Len(words[l]) > LastAddress
  /\ Close(l)
  /\ UNCHANGED <<virtual, scenario, plant, running, frame, words, stops, requests, answers, masterVars,
                 held, updates, late>>

\* Mutant: the request is echoed without a look at the result.
Write_Echoed(l) ==
  /\ Allowed(l, Writes)
  /\ IF IsMapped(frame[l], 0) THEN Publishes(SignalAt(frame[l], 0), FirstWritten(frame[l]))
     ELSE UNCHANGED <<plant, held>>
  /\ Respond(l, 0, <<>>)
  /\ UNCHANGED <<virtual, scenario, running, serving, bound, stops, backlog, requests, hung_up,
                 masterVars, updates, late>>
\* handle_write_single_coil and its three sisters.
WriteSignal(l) ==
  /\ Allowed(l, Writes)
  /\ IF IsMapped(frame[l], 0)
     THEN Publishes(SignalAt(frame[l], 0), FirstWritten(frame[l])) /\ Respond(l, 0, <<>>)
     ELSE UNCHANGED <<plant, held>> /\ Respond(l, 2, <<>>)
  /\ UNCHANGED <<virtual, scenario, running, serving, bound, stops, backlog, requests, hung_up,
                 masterVars, updates, late>>

ListenerStep(l) ==
  \/ Bind(l) \/ Accept(l) \/ ServeHead(l) \/ TakeFrame(l) \/ Silence(l) \/ Refuse(l)
  \/ ReadNext(l) \/ ReadEnds(l) \/ ReadPanics(l) \/ WriteSignal(l)

-----------------------------------------------------------------------------
(* ModbusClient.  A call on no connection, or with a count the client      *)
(* refuses, changes nothing and is left out.                               *)

Connect(m) ==
  /\ virtual = "modbus" /\ socket[m] = Nobody /\ bound # Nobody /\ Len(requests) < MaxConnects
  /\ socket' = [socket EXCEPT ![m] = Len(requests) + 1]
  /\ backlog' = Append(backlog, Len(requests) + 1)
  /\ requests' = Append(requests, <<>>) /\ answers' = Append(answers, <<>>)
  /\ hung_up' = Append(hung_up, FALSE)
  /\ UNCHANGED <<virtual, scenario, plant, listenerVars, qpc, call, queries, held, updates, late>>

\* Requests that have been sent still reach the device.
Disconnect(m) ==
  /\ socket[m] # Nobody /\ qpc[m] = "idle"
  /\ socket' = [socket EXCEPT ![m] = Nobody]
  /\ UNCHANGED <<virtual, scenario, plant, listenerVars, socketVars, qpc, call, queries, held,
                 updates, late>>

\* A call begins, when every signal is what it is, and returns.
Asks(m, r) ==
  /\ qpc[m] = "idle" /\ queries < MaxQueries /\ queries' = queries + 1
  /\ call' = [call EXCEPT ![m] = r]
  /\ held' = [held EXCEPT ![m] = [s \in DOMAIN Published |-> {plant[s]}]]
Returns(m) ==
  /\ qpc' = [qpc EXCEPT ![m] = "idle"] /\ call' = [call EXCEPT ![m] = Nobody]
  /\ held' = [held EXCEPT ![m] = Unseen]

\* check_connected, the counts, and the request on its way.
Send(m) ==
  /\ virtual = "modbus" /\ socket[m] # Nobody
  /\ \E r \in scenario.requests :
       /\ r.fc \in Reads => r.count > 0
       /\ r.fc \in {3, 4} => r.count <= MaxCount(r.fc)
       /\ Asks(m, [r EXCEPT !.tid = queries])
       /\ requests' = IF hung_up[socket[m]] THEN requests
                      ELSE [requests EXCEPT ![socket[m]] = Append(@, [r EXCEPT !.tid = queries])]
  /\ qpc' = [qpc EXCEPT ![m] = "sent"]
  /\ UNCHANGED <<virtual, scenario, plant, listenerVars, backlog, answers, hung_up, socket, updates, late>>

\* libmodbus takes the next answer; one to another transaction is an error,
\* and so is an exception.
Accepts(m) ==
  /\ qpc[m] = "sent" /\ answers[socket[m]] # <<>>
  /\ LET answer == Head(answers[socket[m]]) IN answer.tid = call[m].tid /\ answer.exc = 0

Answered(m) ==
  /\ qpc[m] = "sent" /\ answers[socket[m]] # <<>> /\ Returns(m)
  /\ answers' = [answers EXCEPT ![socket[m]] = Tail(@)]
  /\ UNCHANGED <<virtual, scenario, plant, listenerVars, backlog, requests, hung_up, socket, queries,
                 updates, late>>

\* No answer within a second, or the device has hung up: connected stays set.
CallFails(m) ==
  /\ qpc[m] = "sent" /\ answers[socket[m]] = <<>> /\ Returns(m)
  /\ UNCHANGED <<virtual, scenario, plant, listenerVars, socketVars, socket, queries, updates, late>>

-----------------------------------------------------------------------------
(* VirtualHARTDevice: handle_command, run by the thread that queries it.     *)

\* A finite set of numbers, sorted.
Sorted(numbers) ==
  CHOOSE s \in [1..Cardinality(numbers) -> numbers] : \A i, j \in DOMAIN s : i < j => s[i] < s[j]

\* The slots a command reads: the first one, or all that are mapped, sorted.
SlotsOf(cmd) ==
  CASE cmd \in {1, 2} -> <<0>>
    [] cmd = 3 -> Sorted(DOMAIN Mapped["slots"])
    [] OTHER -> <<>>

HartCommand(m) ==
  /\ virtual = "hart"
  /\ \E cmd \in 0..4 : Asks(m, [cmd |-> cmd])
  /\ qpc' = [qpc EXCEPT ![m] = "slots"]
  /\ UNCHANGED <<virtual, scenario, plant, listenerVars, socketVars, socket, updates, late>>

\* read_slot_f32; without a signal the command answers STATUS_ERR.
ReadSlot(m) ==
  /\ qpc[m] = "slots" /\ Len(words[m]) < Len(SlotsOf(call[m].cmd))
  /\ LET slot == SlotsOf(call[m].cmd)[Len(words[m]) + 1]
     IN IF slot \in DOMAIN Mapped["slots"]
        THEN /\ words' = [words EXCEPT ![m] = Append(@, AsFloat(plant[Mapped["slots"][slot]]))]
             /\ UNCHANGED <<qpc, call, held>>
        ELSE Returns(m) /\ words' = [words EXCEPT ![m] = <<>>]
  /\ UNCHANGED <<virtual, scenario, plant, running, lpc, serving, frame, bound, stops, socketVars,
                 socket, queries, updates, late>>

\* Of command 2: 4 to 20 mA over the range 0 to 100, and percent, in
\* hundredths.
Current(pv) ==
  LET within == IF pv < 0 THEN 0 ELSE IF pv > 100 THEN 100 ELSE pv
  IN <<400 + within * 16, within * 100>>

Response(m) == IF call[m].cmd = 2 THEN words[m] \o Current(words[m][1]) ELSE words[m]

Answering(m) == qpc[m] = "slots" /\ Len(words[m]) = Len(SlotsOf(call[m].cmd))

HartAnswers(m) ==
  /\ Answering(m) /\ Returns(m) /\ words' = [words EXCEPT ![m] = <<>>]
  /\ UNCHANGED <<virtual, scenario, plant, running, lpc, serving, frame, bound, stops, socketVars,
                 socket, queries, updates, late>>

MasterStep(m) ==
  \/ Connect(m) \/ Disconnect(m) \/ Send(m) \/ Answered(m) \/ CallFails(m)
  \/ HartCommand(m) \/ ReadSlot(m) \/ HartAnswers(m)

VirtualNext ==
  \/ ProgramPublishes \/ Start \/ Stop
  \/ \E l \in Listeners : ListenerStep(l)
  \/ \E m \in Masters : MasterStep(m)

VirtualSpec == VirtualInit /\ [][VirtualNext]_virtualVars

-----------------------------------------------------------------------------
(* Properties *)

\* The values an address could have been read as, when the signals held h.
Readings(h, r, i) == {Converted(r.fc, v) : v \in h[SignalAt(r, i)]}

\* Each word is what its address could have been read as.
WordsHeld(h, r, ws) ==
  \A i \in 1..Len(ws) :
    /\ r.fc \in Reads
    /\ IF IsMapped(r, i - 1) THEN ws[i] \in Readings(h, r, i - 1) ELSE r.fc = 2 /\ ws[i] = 0

ModbusTruthful(h, r, ws) ==
  IF r.fc \in Reads THEN Len(ws) = r.count /\ WordsHeld(h, r, ws)
  ELSE r.fc \in Writes /\ IsMapped(r, 0) /\ FirstWritten(r) \in h[SignalAt(r, 0)]

SlotsHeld(h, slots, ws) ==
  \A i \in 1..Len(ws) :
    /\ slots[i] \in DOMAIN Mapped["slots"]
    /\ ws[i] \in {AsFloat(v) : v \in h[Mapped["slots"][slots[i]]]}

\* 4 to 20 mA, and 0 to 100 percent, in hundredths.
InLoopRange(current, percent) ==
  400 <= current /\ current <= 2000 /\ 0 <= percent /\ percent <= 10000

HartTruthful(h, cmd, response) ==
  IF cmd = 2
  THEN /\ SlotsHeld(h, SlotsOf(cmd), <<response[1]>>)
       /\ InLoopRange(response[2], response[3])
  ELSE Len(response) = Len(SlotsOf(cmd)) /\ SlotsHeld(h, SlotsOf(cmd), response)

\* A call that succeeds tells the truth: each value a read returns is one its
\* signal held between the call and its return, and a write has been
\* published in that time.  Answers to queries that timed out, the queue of
\* connections, restarts of the device and other masters do not matter.
MastersToldTruth ==
  \A m \in Masters :
    /\ Accepts(m) => ModbusTruthful(held[m], call[m], Head(answers[socket[m]]).words)
    /\ Answering(m) => HartTruthful(held[m], call[m].cmd, Response(m))

\* After stop() the device takes one more request at most, of a connection it
\* was waiting on, even though a thread that waits in accept() is not woken
\* and another start() may find the port taken.
StopHolds == late <= 1

-----------------------------------------------------------------------------
(* The inductive invariant *)

HartCommands == [cmd : 0..4]
ModbusAnswers == [tid : Int, exc : Nat, words : Seq(Int)]
OpenLabels == {"accept", "serve", "header", "handle"}
Connections == 1..Len(requests)

\* The type invariant.
VirtualTypeOK ==
  /\ scenario \in Scenarios
  /\ plant \in [DOMAIN Published -> HalValues \cup {Nobody}]
  /\ running \in BOOLEAN /\ bound \in Listeners \cup {Nobody}
  /\ lpc \in [Listeners -> OpenLabels \cup {"unborn", "bind", "ended"}]
  /\ serving \in [Listeners -> Nat \cup {Nobody}]
  /\ frame \in [Listeners -> ModbusRequests \cup {Nobody}]
  /\ words \in [Listeners \cup Masters -> Seq(Int)]
  /\ requests \in Seq(Seq(ModbusRequests)) /\ answers \in Seq(Seq(ModbusAnswers))
  /\ hung_up \in Seq(BOOLEAN) /\ backlog \in Seq(Nat)
  /\ socket \in [Masters -> Nat \cup {Nobody}]
  /\ qpc \in [Masters -> {"idle", "sent", "slots"}]
  /\ call \in [Masters -> ModbusRequests \cup HartCommands \cup {Nobody}]
  /\ held \in [Masters -> [DOMAIN Published -> SUBSET (HalValues \cup {Nobody})]]
  /\ queries \in Nat /\ updates \in Nat /\ stops \in Nat /\ late \in Nat

\* Connections in use are connections that were made.
ConnectionsMade ==
  /\ Len(answers) = Len(requests) /\ Len(hung_up) = Len(requests)
  /\ \A i \in 1..Len(backlog) : backlog[i] \in Connections
  /\ \A l \in Listeners : lpc[l] \in {"serve", "header", "handle"} => serving[l] \in Connections
  /\ \A m \in Masters : socket[m] \in Connections \cup {Nobody}

\* What listeners and masters have in hand at their labels.
InHand ==
  /\ \A l \in Listeners :
       /\ lpc[l] = "handle" => frame[l] \in ModbusRequests
       /\ lpc[l] \notin {"handle", "ended"} => words[l] = <<>>
  /\ \A m \in Masters :
       /\ qpc[m] = "sent" => call[m] \in ModbusRequests /\ socket[m] \in Connections
       /\ qpc[m] = "slots" => call[m] \in HartCommands
       /\ qpc[m] # "slots" => words[m] = <<>>

\* One thread has the port, and none waits for a frame once one has been
\* taken after stop().
OneListener ==
  /\ \A l \in Listeners : lpc[l] \in OpenLabels => bound = l
  /\ late = 0 \/ (late = 1 /\ ~running /\ \A l \in Listeners : lpc[l] # "header")

\* The requests not taken, and the answers not read, of all connections.
AllOf(streams) == UNION {Range(streams[k]) : k \in DOMAIN streams}
Queued == AllOf(requests)
Given == AllOf(answers)

\* The next call has a new transaction number.
TidsUsed ==
  /\ \A r \in Queued \cup Given : r.tid < queries
  /\ \A l \in Listeners : lpc[l] = "handle" => frame[l].tid < queries
  /\ \A m \in Masters : qpc[m] = "sent" => call[m].tid < queries

\* Whatever carries the transaction of a call that waits is that call's
\* request, or a truthful answer to it, in part or as a whole.
TruthOnItsWay(m) ==
  qpc[m] = "sent" =>
    /\ \A r \in Queued : r.tid = call[m].tid => r = call[m]
    /\ \A l \in Listeners : lpc[l] = "handle" /\ frame[l].tid = call[m].tid =>
         frame[l] = call[m] /\ WordsHeld(held[m], call[m], words[l])
    /\ \A a \in Given : a.tid = call[m].tid /\ a.exc = 0 => ModbusTruthful(held[m], call[m], a.words)

\* The masters under way have seen what the signals hold, and what a HART
\* command has read so far.
SeenByMaster(m) ==
  /\ qpc[m] # "idle" => \A s \in DOMAIN Published : plant[s] \in held[m][s]
  /\ qpc[m] = "slots" => SlotsHeld(held[m], SlotsOf(call[m].cmd), words[m])

\* The inductive invariant from which StopHolds and MastersToldTruth follow.
VirtualInv ==
  /\ VirtualTypeOK /\ ConnectionsMade /\ InHand /\ OneListener /\ TidsUsed
  /\ \A m \in Masters : TruthOnItsWay(m) /\ SeenByMaster(m)
=============================================================================

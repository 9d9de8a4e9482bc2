--------------------------------- MODULE Ipc ---------------------------------
(***************************************************************************)
(* The controller's IPC: connection threads of the server                  *)
(* (crates/audesys-runtime/src/ipc.rs), the synchronous client library     *)
(* (crates/audesys-runtime-client/src/lib.rs) and the phase of the         *)
(* engine's cycle that pushes subscribed signals (engine.rs).              *)
(*                                                                         *)
(* A connection is a pair of FIFO streams of frames; the one towards the   *)
(* client is a socket buffer of Capacity frames, and a write to a full one *)
(* blocks.  The content of an answer is abstracted to the number of the    *)
(* call it answers.                                                        *)
(***************************************************************************)
EXTENDS Naturals, Sequences, FiniteSets

CONSTANTS
  Clients,     \* connections
  Signals,     \* names a client may subscribe to
  Registered,  \* those of them in the engine's signal registry
  IPs,         \* instruction pointers of breakpoints
  Uids,        \* user ids of the peers
  None,        \* no session, no token, no argument
  AskedRoles,  \* roles a client asks for
  Capacity,    \* frames a socket buffer holds
  MaxCalls     \* bound on the requests of one client

ASSUME IpcAssumption ==
  /\ Registered \subseteq Signals
  /\ Capacity \in Nat \ {0} /\ MaxCalls \in Nat
  /\ None \notin Clients /\ "engine" \notin Clients \cup {None}

VARIABLES
  uid,                        \* SO_PEERCRED of every connection
  cpc,                        \* client: new, idle, wait, auth, closed
  calls,                      \* requests a client has sent
  session_token,              \* token the client has cached
  c2s, s2c,                   \* streams of the connections
  accepting,                  \* IpcServer.running
  spc,                        \* connection thread
  session,                    \* SessionInfo of the connection
  next_sid,                   \* next_session_id, one counter per connection
  expired,                    \* the session's expires_at_ms has passed
  out,                        \* frame the thread is about to write
  subs, subs_lock,            \* subscriptions and the owner of their mutex
  epc, todo,                  \* the push phase of the cycle
  paused, step_requested,     \* what the debug methods do to the engine
  prepared, swap_committed,   \* hot-swap flags of the engine
  loaded, breakpoints         \* the engine's executor

clientVars == <<cpc, calls, session_token>>
serverVars == <<accepting, spc, session, next_sid, expired, out>>
engineVars == <<paused, step_requested, prepared, swap_committed, loaded, breakpoints>>
pushVars == <<epc, todo>>
subsVars == <<subs, subs_lock>>
ipcVars == <<uid, clientVars, c2s, s2c, serverVars, subsVars, pushVars, engineVars>>

\* Permissions of the methods: can_config, can_read and can_write.
ConfigRoles == {"Engineer", "Supervisor", "System"}
WriteRoles == ConfigRoles \cup {"Hmi"}
AllRoles == WriteRoles \cup {"Operator", "Auditor"}

ASSUME RolesAssumption == None \notin AllRoles

\* default_whitelist and is_uid_allowed.
Whitelist ==
  [Supervisor |-> {0, 1000}, Engineer |-> {1000}, Operator |-> {1000, 1001},
   Auditor |-> {1000}, System |-> {0}]

\* role_from_u8 knows every role that role_to_u8 encodes but Hmi.
DecodedRoles == AllRoles \ {"Hmi"}

QueueMethods == {"CONFIG_COMMAND", "LOAD_HAL_CONFIG"}
DebugMethods == {"PAUSE", "RESUME", "STEP_CYCLE"}
SwapMethods == {"PREPARE_SWAP", "COMMIT_SWAP", "ROLLBACK_SWAP"}
BreakpointMethods == {"SET_BREAKPOINT", "CLEAR_BREAKPOINT"}
InspectMethods == {"LIST_BREAKPOINTS", "READ_REGISTERS", "DEBUG_STATE"}
QueryMethods == {"READ_SIGNAL", "SIGNAL_SNAPSHOT", "HEALTH_QUERY"}
LayoutMethods == {"DEPLOY_HMI_LAYOUT", "GET_HMI_LAYOUT"}
SubscriptionMethods == {"SUBSCRIBE_SIGNAL", "UNSUBSCRIBE_SIGNAL"}
ConfigMethods ==
  QueueMethods \cup DebugMethods \cup SwapMethods \cup BreakpointMethods
    \cup {"LOAD_PROGRAM", "DEPLOY_HMI_LAYOUT"}
ReadMethods == InspectMethods \cup QueryMethods \cup SubscriptionMethods \cup {"GET_HMI_LAYOUT"}
Methods == ConfigMethods \cup ReadMethods \cup {"WRITE_SIGNAL", "UNKNOWN"}

\* Arguments a method is called with; None stands for a payload the method refuses.
Args(m) ==
  CASE m \in BreakpointMethods -> IPs \cup {None}
    [] m \in SubscriptionMethods -> Signals \cup {None}
    [] m \in {"DEPLOY_HMI_LAYOUT", "READ_REGISTERS", "WRITE_SIGNAL"} -> {"some", None}
    [] OTHER -> {"some"}

Allowed(m, role) ==
  \/ m = "UNKNOWN"
  \/ m \in ConfigMethods /\ role \in ConfigRoles
  \/ m \in ReadMethods /\ role # None
  \/ m = "WRITE_SIGNAL" /\ role \in WriteRoles

\* No connection is open; earlier ones may have paused the engine or loaded a program.
IpcInit ==
  /\ uid \in [Clients -> Uids]
  /\ cpc = [c \in Clients |-> "new"]
  /\ calls = [c \in Clients |-> 0]
  /\ session_token = [c \in Clients |-> None]
  /\ c2s = [c \in Clients |-> <<>>] /\ s2c = [c \in Clients |-> <<>>]
  /\ accepting = TRUE
  /\ spc = [c \in Clients |-> "none"]
  /\ session = [c \in Clients |-> None]
  /\ next_sid = [c \in Clients |-> 1]
  /\ expired = [c \in Clients |-> FALSE]
  /\ out = [c \in Clients |-> None]
  /\ subs = {} /\ subs_lock = None
  /\ epc = "cycle" /\ todo = {}
  /\ paused \in BOOLEAN /\ step_requested = FALSE
  /\ prepared = FALSE /\ swap_committed = FALSE
  /\ loaded \in BOOLEAN /\ breakpoints = {}

Frame(kind, n, tok) == [kind |-> kind, n |-> n, tok |-> tok]
Push == Frame("push", 0, None)
Room(c) == Len(s2c[c]) < Capacity \/ cpc[c] = "closed"
Sent(c, f) == IF cpc[c] = "closed" THEN s2c ELSE [s2c EXCEPT ![c] = Append(@, f)]

-----------------------------------------------------------------------------
(* The client library. *)

\* RuntimeClient::connect, while the listener is bound.
Connect(c) ==
  /\ cpc[c] = "new" /\ accepting
  /\ cpc' = [cpc EXCEPT ![c] = "idle"]
  /\ UNCHANGED <<uid, calls, session_token, c2s, s2c, serverVars, subsVars, pushVars, engineVars>>

SendFrame(c, m, a, tok, pc) ==
  /\ cpc[c] = "idle" /\ calls[c] < MaxCalls
  /\ calls' = [calls EXCEPT ![c] = @ + 1]
  /\ c2s' = [c2s EXCEPT ![c] = Append(@, [m |-> m, a |-> a, tok |-> tok, n |-> calls'[c]])]
  /\ cpc' = [cpc EXCEPT ![c] = pc]
  /\ UNCHANGED <<uid, session_token, s2c, serverVars, subsVars, pushVars, engineVars>>

\* authenticate: the request carries a zeroed token.
Authenticate(c) == \E r \in AskedRoles : SendFrame(c, "AUTH_REQUEST", r, None, "auth")

\* send_request, the body of every other method.
SendRequest(c) ==
  \E m \in Methods : \E a \in Args(m) : SendFrame(c, m, a, session_token[c], "wait")

\* authenticate caches the token of an OK answer to an auth request.
CachedToken(c, answer) ==
  IF cpc[c] = "auth" /\ answer.tok # None THEN answer.tok ELSE session_token[c]

\* read_response: the first frame of the stream is the answer, whatever it answers.
Receive(c) ==
  /\ cpc[c] \in {"wait", "auth"} /\ s2c[c] # <<>>
  /\ s2c' = [s2c EXCEPT ![c] = Tail(@)]
  /\ session_token' = [session_token EXCEPT ![c] = CachedToken(c, Head(s2c[c]))]
  /\ cpc' = [cpc EXCEPT ![c] = "idle"]
  /\ UNCHANGED <<uid, calls, c2s, serverVars, subsVars, pushVars, engineVars>>

\* read_raw_frame, on a connection that receives pushes.
ReadRaw(c) ==
  /\ cpc[c] = "idle" /\ s2c[c] # <<>>
  /\ s2c' = [s2c EXCEPT ![c] = Tail(@)]
  /\ UNCHANGED <<uid, clientVars, c2s, serverVars, subsVars, pushVars, engineVars>>

\* The read timeout of connect: the call fails, its answer may still come.
ReadTimeout(c) ==
  /\ cpc[c] \in {"wait", "auth"} /\ s2c[c] = <<>>
  /\ cpc' = [cpc EXCEPT ![c] = "idle"]
  /\ UNCHANGED <<uid, calls, session_token, c2s, s2c, serverVars, subsVars, pushVars, engineVars>>

\* The client is dropped; what it has sent stays readable, what it has not read is lost.
Close(c) ==
  /\ cpc[c] \in {"idle", "wait", "auth"}
  /\ cpc' = [cpc EXCEPT ![c] = "closed"] /\ s2c' = [s2c EXCEPT ![c] = <<>>]
  /\ UNCHANGED <<uid, calls, session_token, c2s, serverVars, subsVars, pushVars, engineVars>>

-----------------------------------------------------------------------------
(* The server: accept loop, token check and dispatch of a request. *)

Accept(c) ==
  /\ accepting /\ spc[c] = "none" /\ cpc[c] # "new"
  /\ spc' = [spc EXCEPT ![c] = "read"]
  /\ UNCHANGED <<uid, clientVars, c2s, s2c, accepting, session, next_sid, expired, out,
                 subsVars, pushVars, engineVars>>

\* IpcServer::stop ends the accept loop and no connection thread.
StopServer ==
  /\ accepting /\ accepting' = FALSE
  /\ UNCHANGED <<uid, clientVars, c2s, s2c, spc, session, next_sid, expired, out,
                 subsVars, pushVars, engineVars>>

\* The clock passes the session's expires_at_ms.
Expire(c) ==
  /\ session[c] # None /\ ~expired[c]
  /\ expired' = [expired EXCEPT ![c] = TRUE]
  /\ UNCHANGED <<uid, clientVars, c2s, s2c, accepting, spc, session, next_sid, out,
                 subsVars, pushVars, engineVars>>

\* End of file: the thread leaves its loop, past the removal of subscriptions.
EndOfFile(c) ==
  /\ spc[c] = "read" /\ c2s[c] = <<>> /\ cpc[c] = "closed"
  /\ spc' = [spc EXCEPT ![c] = "end"]
  /\ UNCHANGED <<uid, clientVars, c2s, s2c, accepting, session, next_sid, expired, out,
                 subsVars, pushVars, engineVars>>

Request(c) == Head(c2s[c])
RoleOf(c) == IF session[c] = None THEN None ELSE session[c].role

\* Mutant: the frame stays in the stream.
TakeAnd_Peeks(c, pc) ==
  /\ spc[c] = "read" /\ c2s[c] # <<>>
  /\ out' = [out EXCEPT ![c] = Frame("reply", Request(c).n, None)]
  /\ spc' = [spc EXCEPT ![c] = pc]
  /\ UNCHANGED <<uid, clientVars, c2s, s2c, accepting, next_sid, pushVars>>

\* read_frame, and an answer to be written at pc: "write" is an error followed by
\* continue, "answer" goes on to the end of the loop's body.
TakeAnd(c, pc) ==
  /\ spc[c] = "read" /\ c2s[c] # <<>>
  /\ c2s' = [c2s EXCEPT ![c] = Tail(@)]
  /\ out' = [out EXCEPT ![c] = Frame("reply", Request(c).n, None)]
  /\ spc' = [spc EXCEPT ![c] = pc]
  /\ UNCHANGED <<uid, clientVars, s2c, accepting, next_sid, pushVars>>

\* Mutant: the session's expiry is not looked at.
TokenCurrent_Expired(c) == Request(c).tok = session[c]

TokenCurrent(c) == Request(c).tok = session[c] /\ ~expired[c]

\* With a session: a second auth request, or a token that verify_wire_token refuses.
RefuseToken(c) ==
  /\ TakeAnd(c, "write")
  /\ session[c] # None /\ (Request(c).m = "AUTH_REQUEST" \/ ~TokenCurrent(c))
  /\ UNCHANGED <<session, expired, subsVars, engineVars>>

\* The token expires between verify_wire_token and the check of the session.
ExpiresMeanwhile(c) ==
  /\ TakeAnd(c, "write")
  /\ session[c] # None /\ Request(c).m # "AUTH_REQUEST" /\ TokenCurrent(c)
  /\ session' = [session EXCEPT ![c] = None] /\ expired' = [expired EXCEPT ![c] = TRUE]
  /\ UNCHANGED <<subsVars, engineVars>>

\* The request reaches the match on method_id; without a session no token is looked at.
Dispatch(c, ms, pc) ==
  /\ TakeAnd(c, pc)
  /\ session[c] = None \/ TokenCurrent(c)
  /\ Request(c).m \in ms
  /\ UNCHANGED <<session, expired>>

Serve(c, ms, pc) ==
  /\ Dispatch(c, ms, pc)
  /\ Allowed(Request(c).m, RoleOf(c)) /\ Request(c).a # None

\* "unauthorized", or a payload that is too short or empty.
Refuse(c) ==
  /\ Dispatch(c, Methods, "write")
  /\ ~Allowed(Request(c).m, RoleOf(c)) \/ Request(c).a = None
  /\ UNCHANGED <<subsVars, engineVars>>

AuthGranted(c) ==
  LET r == Request(c).a IN r \in DecodedRoles /\ uid[c] \in Whitelist[r]

\* METHOD_AUTH_REQUEST: handle_auth writes the token, and so does the match arm.
AuthRequest(c) ==
  /\ spc[c] = "read" /\ c2s[c] # <<>> /\ Request(c).m = "AUTH_REQUEST" /\ session[c] = None
  /\ c2s' = [c2s EXCEPT ![c] = Tail(@)]
  /\ IF AuthGranted(c)
     THEN LET sess == [sid |-> next_sid[c], role |-> Request(c).a] IN
          /\ session' = [session EXCEPT ![c] = sess]
          /\ next_sid' = [next_sid EXCEPT ![c] = @ + 1]
          /\ expired' = [expired EXCEPT ![c] = FALSE]
          /\ out' = [out EXCEPT ![c] = Frame("auth", Request(c).n, sess)]
          /\ spc' = [spc EXCEPT ![c] = "auth"]
     ELSE /\ out' = [out EXCEPT ![c] = Frame("reply", Request(c).n, None)]
          /\ spc' = [spc EXCEPT ![c] = "answer"]
          /\ UNCHANGED <<session, next_sid, expired>>
  /\ UNCHANGED <<uid, clientVars, s2c, accepting, subsVars, pushVars, engineVars>>

\* Methods that change nothing of the state kept here: queue_config and deploy_hmi_layout
\* (modelled in Engine), publish_signal of the middleware, and the queries.
Answer(c) ==
  /\ Serve(c, QueueMethods \cup QueryMethods \cup LayoutMethods \cup {"WRITE_SIGNAL", "UNKNOWN"},
           "answer")
  /\ UNCHANGED <<subsVars, engineVars>>

\* METHOD_LOAD_PROGRAM: a well-formed program gets an executor without breakpoints.
LoadProgram(c) ==
  /\ Serve(c, {"LOAD_PROGRAM"}, "answer")
  /\ \/ loaded' = TRUE /\ breakpoints' = {}
     \/ UNCHANGED <<loaded, breakpoints>>
  /\ UNCHANGED <<subsVars, paused, step_requested, prepared, swap_committed>>

\* METHOD_PAUSE, METHOD_RESUME and METHOD_STEP_CYCLE.
DebugControl(c) ==
  /\ Serve(c, DebugMethods, "answer")
  /\ paused' = (Request(c).m # "RESUME")
  /\ step_requested' = (step_requested \/ Request(c).m = "STEP_CYCLE")
  /\ UNCHANGED <<subsVars, prepared, swap_committed, loaded, breakpoints>>

\* METHOD_PREPARE_SWAP, METHOD_COMMIT_SWAP and METHOD_ROLLBACK_SWAP.
Swap(c) ==
  /\ Serve(c, SwapMethods, "answer")
  /\ CASE Request(c).m = "PREPARE_SWAP" ->
            prepared' \in {prepared, TRUE} /\ UNCHANGED swap_committed
       [] Request(c).m = "COMMIT_SWAP" ->
            swap_committed' = (swap_committed \/ prepared) /\ UNCHANGED prepared
       [] OTHER -> prepared' = FALSE /\ swap_committed' = FALSE
  /\ UNCHANGED <<subsVars, paused, step_requested, loaded, breakpoints>>

\* METHOD_SET_BREAKPOINT and METHOD_CLEAR_BREAKPOINT: an error without a program.
Breakpoint(c) ==
  /\ Serve(c, BreakpointMethods, "answer")
  /\ breakpoints' = IF ~loaded THEN breakpoints
                    ELSE IF Request(c).m = "SET_BREAKPOINT" THEN breakpoints \cup {Request(c).a}
                    ELSE breakpoints \ {Request(c).a}
  /\ UNCHANGED <<subsVars, paused, step_requested, prepared, swap_committed, loaded>>

\* METHOD_LIST_BREAKPOINTS and METHOD_READ_REGISTERS leave the body early without a program;
\* METHOD_DEBUG_STATE answers with defaults.
Inspect(c) ==
  /\ Serve(c, InspectMethods,
           IF loaded \/ Request(c).m = "DEBUG_STATE" THEN "answer" ELSE "write")
  /\ UNCHANGED <<subsVars, engineVars>>

\* METHOD_SUBSCRIBE_SIGNAL: the mutex is held until the answer is written.
Subscribe(c) ==
  /\ Serve(c, {"SUBSCRIBE_SIGNAL"}, "subscribed")
  /\ subs_lock = None /\ subs_lock' = c
  /\ subs' = subs \cup {[s |-> Request(c).a, sid |-> session[c].sid, c |-> c]}
  /\ UNCHANGED engineVars

\* METHOD_UNSUBSCRIBE_SIGNAL drops the entries of the signal with this session id.
Unsubscribe(c) ==
  /\ Serve(c, {"UNSUBSCRIBE_SIGNAL"}, "answer")
  /\ subs_lock = None
  /\ subs' = {e \in subs : e.s # Request(c).a \/ e.sid # session[c].sid}
  /\ UNCHANGED <<subs_lock, engineVars>>

\* An answer is about to be written.
WritingLabels == {"auth", "write", "answer", "subscribed"}

\* write_all of the answer; an auth request is answered twice, subscribe unlocks.
AfterWrite(c) ==
  IF spc[c] = "auth" THEN "answer"
  ELSE IF spc[c] = "write" \/ session[c] = None THEN "read" ELSE "cleanup"

\* Mutant: the mutex is not released after the answer to subscribe.
WriteAnswer_KeepsLock(c) ==
  /\ spc[c] \in WritingLabels /\ Room(c)
  /\ s2c' = Sent(c, out[c])
  /\ spc' = [spc EXCEPT ![c] = AfterWrite(c)]
  /\ out' = [out EXCEPT ![c] = IF spc[c] = "auth" THEN @ ELSE None]
  /\ UNCHANGED <<uid, clientVars, c2s, accepting, session, next_sid, expired, subsVars,
                 pushVars, engineVars>>

WriteAnswer(c) ==
  /\ spc[c] \in WritingLabels /\ Room(c)
  /\ s2c' = Sent(c, out[c])
  /\ spc' = [spc EXCEPT ![c] = AfterWrite(c)]
  /\ out' = [out EXCEPT ![c] = IF spc[c] = "auth" THEN @ ELSE None]
  /\ subs_lock' = IF spc[c] = "subscribed" THEN None ELSE subs_lock
  /\ UNCHANGED <<uid, clientVars, c2s, accepting, session, next_sid, expired, subs,
                 pushVars, engineVars>>

\* Mutant: the thread ends after the removal.
Cleanup_Breaks(c) ==
  /\ spc[c] = "cleanup" /\ subs_lock = None
  /\ subs' = {e \in subs : e.sid # session[c].sid}
  /\ spc' = [spc EXCEPT ![c] = "end"]
  /\ UNCHANGED <<uid, clientVars, c2s, s2c, accepting, session, next_sid, expired, out,
                 subs_lock, pushVars, engineVars>>

\* The end of the loop's body: every entry with this session id is removed.
Cleanup(c) ==
  /\ spc[c] = "cleanup" /\ subs_lock = None
  /\ subs' = {e \in subs : e.sid # session[c].sid}
  /\ spc' = [spc EXCEPT ![c] = "read"]
  /\ UNCHANGED <<uid, clientVars, c2s, s2c, accepting, session, next_sid, expired, out,
                 subs_lock, pushVars, engineVars>>

-----------------------------------------------------------------------------
(* The engine's cycle: swap at the boundary, then the push of signals. *)

Boundary ==
  /\ epc = "cycle" /\ (~paused \/ step_requested)
  /\ epc' = "lock" /\ step_requested' = FALSE
  /\ swap_committed' = FALSE /\ prepared' = (prepared /\ ~swap_committed)
  /\ loaded' = (loaded \/ (swap_committed /\ prepared))
  /\ breakpoints' = IF swap_committed /\ prepared THEN {} ELSE breakpoints
  /\ UNCHANGED <<uid, clientVars, c2s, s2c, serverVars, subsVars, todo, paused>>

\* Mutant: the mutex is held only while the subscriptions are copied.
PushLock_Copies ==
  /\ epc = "lock" /\ subs_lock = None
  /\ todo' = {e \in subs : e.s \in Registered}
  /\ epc' = "push"
  /\ UNCHANGED <<uid, clientVars, c2s, s2c, serverVars, subsVars, engineVars>>

PushLock ==
  /\ epc = "lock" /\ subs_lock = None /\ subs_lock' = "engine"
  /\ todo' = {e \in subs : e.s \in Registered}
  /\ epc' = "push"
  /\ UNCHANGED <<uid, clientVars, c2s, s2c, serverVars, subs, engineVars>>

\* write_all of one frame, with the mutex held.
PushOne(e) ==
  /\ epc = "push" /\ e \in todo /\ Room(e.c)
  /\ s2c' = Sent(e.c, Push)
  /\ todo' = todo \ {e}
  /\ UNCHANGED <<uid, clientVars, c2s, serverVars, subsVars, epc, engineVars>>

PushDone ==
  /\ epc = "push" /\ todo = {}
  /\ subs_lock' = None /\ epc' = "cycle"
  /\ UNCHANGED <<uid, clientVars, c2s, s2c, serverVars, subs, todo, engineVars>>

-----------------------------------------------------------------------------
ClientStep(c) ==
  \/ Connect(c) \/ Authenticate(c) \/ SendRequest(c) \/ Receive(c) \/ ReadRaw(c)
  \/ ReadTimeout(c) \/ Close(c)

ServerStep(c) ==
  \/ EndOfFile(c) \/ RefuseToken(c) \/ ExpiresMeanwhile(c) \/ Refuse(c) \/ AuthRequest(c)
  \/ Answer(c) \/ LoadProgram(c) \/ DebugControl(c) \/ Swap(c) \/ Breakpoint(c) \/ Inspect(c)
  \/ Subscribe(c) \/ Unsubscribe(c) \/ WriteAnswer(c) \/ Cleanup(c)

EngineStep == Boundary \/ PushLock \/ (\E e \in todo : PushOne(e)) \/ PushDone

IpcNext ==
  \/ \E c \in Clients : ClientStep(c) \/ ServerStep(c) \/ Accept(c) \/ Expire(c)
  \/ StopServer \/ EngineStep

IpcSpec == IpcInit /\ [][IpcNext]_ipcVars

\* Threads take their steps.  The cycle sleeps between two holds of the subscriptions' mutex,
\* so that a thread waiting for it gets it; a client reads what it is sent.
IpcFairness ==
  /\ \A c \in Clients :
       SF_ipcVars(ServerStep(c)) /\ WF_ipcVars(Receive(c)) /\ WF_ipcVars(ReadRaw(c))
  /\ SF_ipcVars(EngineStep)

IpcFairSpec == IpcSpec /\ IpcFairness

\* No call of a client waits as long as its read timeout.
PatientSpec ==
  IpcInit /\ [][IpcNext /\ \A c \in Clients : ~ReadTimeout(c)]_ipcVars /\ IpcFairness

-----------------------------------------------------------------------------
(* Properties. *)

SessionInfos == [sid : Nat, role : DecodedRoles]
Tokens == SessionInfos \cup {None}
Requests ==
  {r \in [m : Methods \cup {"AUTH_REQUEST"}, a : IPs \cup Signals \cup AskedRoles \cup {"some", None},
          tok : Tokens, n : Nat] :
     r.m # "AUTH_REQUEST" => r.a \in Args(r.m)}
Frames == [kind : {"reply", "auth", "push"}, n : Nat, tok : Tokens]
Subscriptions == [s : Signals, sid : Nat, c : Clients]

\* The variables have the types of the fields they stand for.
IpcTypeOK ==
  /\ uid \in [Clients -> Uids]
  /\ cpc \in [Clients -> {"new", "idle", "wait", "auth", "closed"}]
  /\ calls \in [Clients -> Nat] /\ session_token \in [Clients -> Tokens]
  /\ c2s \in [Clients -> Seq(Requests)] /\ s2c \in [Clients -> Seq(Frames)]
  /\ accepting \in BOOLEAN
  /\ spc \in [Clients -> {"none", "read", "end", "cleanup"} \cup WritingLabels]
  /\ session \in [Clients -> Tokens] /\ next_sid \in [Clients -> Nat]
  /\ expired \in [Clients -> BOOLEAN] /\ out \in [Clients -> Frames \cup {None}]
  /\ \A c \in Clients : spc[c] \in WritingLabels => out[c] \in Frames
  /\ subs \subseteq Subscriptions /\ subs_lock \in Clients \cup {None, "engine"}
  /\ epc \in {"cycle", "lock", "push"} /\ todo \subseteq Subscriptions
  /\ paused \in BOOLEAN /\ step_requested \in BOOLEAN
  /\ prepared \in BOOLEAN /\ swap_committed \in BOOLEAN
  /\ loaded \in BOOLEAN /\ breakpoints \subseteq IPs

\* What is on its way to a client: the frames sent, and the one about to be written.
Unread(c) == IF spc[c] \in WritingLabels THEN Append(s2c[c], out[c]) ELSE s2c[c]

IsAnswer(f) == f.kind # "push"
Follows(f, g) == g.n = f.n + 1 \/ (g = f /\ f.kind = "auth")

\* Of two answers with pushes at most between them, the second follows the first.
InOrder(frames) ==
  \A i, j \in DOMAIN frames :
    /\ i < j /\ IsAnswer(frames[i]) /\ IsAnswer(frames[j])
    /\ \A k \in i + 1..j - 1 : ~IsAnswer(frames[k])
    => Follows(frames[i], frames[j])

\* The last of the answers is the one to request n.
LastAnswers(frames, n) ==
  \A i \in DOMAIN frames :
    IsAnswer(frames[i]) /\ (\A k \in i + 1..Len(frames) : ~IsAnswer(frames[k]))
    => frames[i].n = n

\* handle_connection answers the requests of a connection in the order in which they were
\* sent, each of them once, and a granted auth request twice; none is skipped or overtaken.
AnswersInOrder ==
  \A c \in Clients :
    InOrder(Unread(c)) /\ LastAnswers(Unread(c), calls[c] - Len(c2s[c]))

\* A signal is pushed only to a connection that has subscribed to it in its present session
\* and has not unsubscribed since, although every frame of a push phase may wait for room in
\* its socket while requests are handled (write_all with the subscriptions locked, engine.rs).
PushesSubscribed ==
  epc = "push" => \A e \in todo : e \in subs /\ session[e.c] # None /\ e.sid = session[e.c].sid

\* Requests are numbered without a gap, what is about to be written is an answer, and nothing
\* is on its way to a client that has gone.
Numbered ==
  \A c \in Clients :
    /\ \A i \in 1..Len(c2s[c]) : c2s[c][i].n = calls[c] - Len(c2s[c]) + i
    /\ spc[c] \in WritingLabels => IsAnswer(out[c])
    /\ spc[c] = "auth" => out[c].kind = "auth"
    /\ cpc[c] = "closed" => s2c[c] = <<>>

\* The mutex of the subscriptions is held by the thread that answers a subscribe request or by
\* the cycle while it pushes, and the entries it pushes for stay subscribed meanwhile.
SubsMutex ==
  /\ \A c \in Clients : spc[c] = "subscribed" <=> subs_lock = c
  /\ epc = "push" <=> subs_lock = "engine"
  /\ epc = "push" => todo \subseteq subs

\* Strengthening: the removal at the end of handle_connection's loop leaves no entry of a
\* connection whose thread reads its next request.
SubscriptionWindow == \A e \in subs : spc[e.c] \in {"subscribed", "cleanup"}

\* A subscription has the id of its connection's session.
SubsOfSession == \A e \in subs : session[e.c] # None /\ e.sid = session[e.c].sid

\* Every session was granted by the whitelist.
SessionsGranted == \A c \in Clients : session[c] # None => uid[c] \in Whitelist[session[c].role]

IpcInv ==
  /\ IpcTypeOK /\ Numbered /\ AnswersInOrder
  /\ SubsMutex /\ SubsOfSession /\ SubscriptionWindow /\ SessionsGranted

\* The engine is paused, stepped, swapped, loaded or given a breakpoint only at a cycle
\* boundary or by a request on a connection whose session has a configuring role that the
\* whitelist allows the peer, and has not expired (can_config, is_uid_allowed, verify_wire_token).
Authority ==
  [][\/ engineVars' = engineVars \/ epc' # epc
     \/ \E c \in Clients :
          /\ c2s[c] # <<>> /\ c2s'[c] = Tail(c2s[c])
          /\ session[c] # None /\ ~expired[c] /\ session[c].role \in ConfigRoles
          /\ uid[c] \in Whitelist[session[c].role]]_ipcVars

\* A request that reached an accepted connection is handled, although the thread may wait for
\* the subscriptions' mutex and for room in the socket.
RequestHandled ==
  \A c \in Clients :
    (spc[c] # "none" /\ c2s[c] # <<>>) ~> (c2s[c] = <<>> /\ spc[c] \in {"read", "end"})

\* The cycle returns from its push phase as long as subscribed clients read what they are sent
\* (write_all to a subscriber's stream with the subscriptions locked, engine.rs).
CycleReturns == epc # "cycle" ~> epc = "cycle"

\* "Build a wire request frame, send it, read the response": the response that send_request
\* and authenticate read is the one to the request they have sent.
OwnAnswer ==
  [][\A c \in Clients :
       /\ cpc[c] \in {"wait", "auth"} /\ cpc'[c] = "idle"
       /\ s2c[c] # <<>> /\ s2c'[c] = Tail(s2c[c])
       => Head(s2c[c]).n = calls[c]]_ipcVars

\* "After subscribing, the Controller will send unsolicited SIGNAL_PUSH frames every cycle":
\* a subscription to a registered signal is followed by a push.
SubscribedPushed ==
  \A c \in Clients :
    (\E e \in subs : e.c = c /\ e.s \in Registered)
      ~> (cpc[c] = "closed" \/ paused \/ \E i \in 1..Len(s2c[c]) : s2c[c][i].kind = "push")
=============================================================================

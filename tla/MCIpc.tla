-------------------------------- MODULE MCIpc --------------------------------
(* The controller's IPC for TLC.  In one behaviour the clients use the       *)
(* methods of one menu.  Subscriptions are what the connections share: there *)
(* both clients run, from the state in which they have authenticated.  The   *)
(* other menus are about one connection: sessions and data from its start,   *)
(* with expiring sessions, debugging with an engine that is running.         *)
EXTENDS Ipc

CONSTANTS c1, c2

VARIABLE menu

Menus ==
  [subscriptions |-> SubscriptionMethods,
   sessions |-> {"AUTH_REQUEST", "WRITE_SIGNAL", "PREPARE_SWAP"},
   debugging |-> DebugMethods \cup SwapMethods \cup BreakpointMethods \cup InspectMethods
                   \cup {"LOAD_PROGRAM"},
   data |-> QueueMethods \cup QueryMethods \cup LayoutMethods
              \cup {"WRITE_SIGNAL", "UNKNOWN", "AUTH_REQUEST"}]

Roles ==
  [subscriptions |-> {}, sessions |-> {"Engineer", "Operator", "Hmi"}, debugging |-> {},
   data |-> {"Engineer", "Operator"}]

\* The connections cs are authenticated, and one of the two answers is still unread.
Authenticated(cs, role) ==
  LET sess == [sid |-> 1, role |-> role]
      For(x, y) == [c \in Clients |-> IF c \in cs THEN x ELSE y] IN
  /\ cpc = For("idle", "new") /\ spc = For("read", "none")
  /\ session = For(sess, None) /\ session_token = For(sess, None)
  /\ next_sid = For(2, 1)
  /\ s2c = For(<<Frame("auth", 0, sess)>>, <<>>)
  /\ uid = [c \in Clients |-> 1000]
  /\ calls = [c \in Clients |-> 0] /\ c2s = [c \in Clients |-> <<>>]
  /\ expired = [c \in Clients |-> FALSE] /\ out = [c \in Clients |-> None]
  /\ accepting = TRUE /\ subs = {} /\ subs_lock = None /\ epc = "cycle" /\ todo = {}
  /\ paused = FALSE /\ step_requested = FALSE /\ prepared = FALSE /\ swap_committed = FALSE
  /\ loaded \in BOOLEAN /\ breakpoints = {}

MenuInit ==
  \/ menu = "subscriptions" /\ Authenticated({c1, c2}, "Operator") /\ ~loaded
  \/ menu = "debugging" /\ Authenticated({c1}, "Engineer")
  \/ menu = "sessions" /\ IpcInit /\ uid = [c \in Clients |-> 1000] /\ paused /\ loaded
  \/ menu = "data" /\ IpcInit /\ uid[c2] = 1000 /\ paused /\ loaded

\* Calls of a client; MaxCalls is 3.
Limit(c) ==
  CASE menu = "subscriptions" -> 1 [] menu = "sessions" -> 3 [] OTHER -> 2

MenuNext ==
  /\ IpcNext /\ UNCHANGED menu
  /\ \A c \in Clients :
       calls'[c] > calls[c] =>
         LET r == c2s'[c][Len(c2s'[c])] IN
         /\ calls'[c] <= Limit(c) /\ r.m \in Menus[menu]
         /\ r.m = "AUTH_REQUEST" => r.a \in Roles[menu]
  /\ menu # "sessions" => UNCHANGED accepting
  /\ menu \in {"subscriptions", "debugging"} => UNCHANGED expired
  /\ menu # "subscriptions" => cpc'[c2] = "new"

MenuSpec == MenuInit /\ [][MenuNext]_<<ipcVars, menu>> /\ IpcFairness
=============================================================================

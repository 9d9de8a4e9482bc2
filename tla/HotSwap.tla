------------------------------ MODULE HotSwap ------------------------------
(***************************************************************************)
(* What a hot-swap of the running program promises                         *)
(* (docs/modules/runtime/upgrade-strategy.md): programs are prepared while *)
(* the active one runs, and one cycle boundary replaces the active program *)
(* by the prepared one in a single step, if the swap was armed by a commit *)
(* and not disarmed by a rollback.  Besides, a client may load a program   *)
(* directly; nothing else changes the active program.  Engine implements   *)
(* this specification (HotSwapSpec there).                                 *)
(***************************************************************************)
CONSTANTS Clients, Programs, None

VARIABLES
  pending,   \* the prepared program
  armed,     \* the next boundary installs it
  active,    \* the program the cycles run
  loading    \* the program each client is loading directly

vars == <<pending, armed, active, loading>>

Init ==
  /\ pending = None /\ armed = FALSE /\ active = None
  /\ loading = [c \in Clients |-> None]

Prepare ==
  /\ pending' \in Programs
  /\ UNCHANGED <<armed, active, loading>>

Drop ==
  /\ pending' = None
  /\ UNCHANGED <<armed, active, loading>>

Arm == armed' = TRUE /\ UNCHANGED <<pending, active, loading>>

Disarm == armed' = FALSE /\ UNCHANGED <<pending, active, loading>>

Boundary ==
  /\ armed
  /\ active' = IF pending = None THEN active ELSE pending
  /\ pending' = None /\ armed' = FALSE
  /\ UNCHANGED loading

BeginLoad(c) ==
  /\ \E p \in Programs : loading' = [loading EXCEPT ![c] = p]
  /\ UNCHANGED <<pending, armed, active>>

EndLoad(c) ==
  /\ loading[c] # None
  /\ active' = loading[c] /\ loading' = [loading EXCEPT ![c] = None]
  /\ UNCHANGED <<pending, armed>>

Next ==
  \/ Prepare \/ Drop \/ Arm \/ Disarm \/ Boundary
  \/ \E c \in Clients : BeginLoad(c) \/ EndLoad(c)

Spec == Init /\ [][Next]_vars
=============================================================================

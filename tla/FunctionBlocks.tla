--------------------------- MODULE FunctionBlocks ---------------------------
(* The stateful function blocks of the HAL IR virtual machine              *)
(* (crates/audesys-hal-ir): timers, counters, flip-flops and edge          *)
(* detectors.  Their state lives in the Vm beside the registers, survives  *)
(* the reset at both ends of a scan, and is lost when a program is loaded. *)
(* One block is run once per scan with the two inputs its instruction      *)
(* reads from registers; a register that holds no Bool counts as false.    *)
EXTENDS Integers

CONSTANTS
  PT,        \* preset time in ms, an immediate of TimerRun
  PV,        \* preset value, an immediate of CounterRun
  CycleMs,   \* cycle_time_ms, set by the engine before every scan
  MaxScans   \* bound: scans after a load

ASSUME BlockAssumption == PT \in Nat /\ PV \in Nat /\ CycleMs \in Nat /\ MaxScans \in Nat

Timers == {"TON", "TOF", "TP"}
Counters == {"CTU", "CTD", "CTUD"}
FlipFlops == {"SR", "RS"}
Triggers == {"R_TRIG", "F_TRIG"}

VARIABLES
  block,                           \* the block of this behaviour (rigid)
  in_val, elapsed_ms,              \* TimerState
  cu_val, cd_val, cv, qu, qd,      \* CounterState
  q1, q2,                          \* SrState
  last_clk,                        \* EdgeState
  q,                               \* Q of a timer, a counter or an edge detector
  (* history of the inputs since the program was loaded *)
  scans, a, b,       \* number of scans, inputs of the last one
  on_for, off_for,   \* how long the first input has been on, or off, in ms
  ever_on,           \* it has been on
  ups, downs,        \* rising edges of the inputs
  last               \* last effective set or reset

blockState == <<in_val, elapsed_ms, cu_val, cd_val, cv, qu, qd, q1, q2, last_clk, q>>
inputHistory == <<scans, a, b, on_for, off_for, ever_on, ups, downs, last>>
blockVars == <<block, blockState, inputHistory>>

\* A block as add_timer, add_counter, add_sr and add_edge create it.
NewTimer == in_val = FALSE /\ elapsed_ms = 0 /\ q = FALSE
NewCounter == cu_val = FALSE /\ cd_val = FALSE /\ cv = 0 /\ qu = FALSE /\ qd = FALSE /\ q = FALSE
NewSr == q1 = FALSE /\ q2 = FALSE
NewEdge == last_clk = FALSE /\ q = FALSE

BlocksInit ==
  /\ block \in Timers \cup Counters \cup FlipFlops \cup Triggers
  /\ NewTimer /\ NewCounter /\ NewSr /\ NewEdge
  /\ scans = 0 /\ a = FALSE /\ b = FALSE
  /\ on_for = 0 /\ off_for = 0 /\ ever_on = FALSE
  /\ ups = 0 /\ downs = 0 /\ last = "none"

\* load_hal_program and the hot-swap create a new Executor with a new Vm: its
\* blocks start again, whatever they had counted.
Load ==
  /\ in_val' = FALSE /\ elapsed_ms' = 0
  /\ cu_val' = FALSE /\ cd_val' = FALSE /\ cv' = 0 /\ qu' = FALSE /\ qd' = FALSE
  /\ q1' = FALSE /\ q2' = FALSE /\ last_clk' = FALSE /\ q' = FALSE
  /\ scans' = 0 /\ a' = FALSE /\ b' = FALSE
  /\ on_for' = 0 /\ off_for' = 0 /\ ever_on' = FALSE
  /\ ups' = 0 /\ downs' = 0 /\ last' = "none"
  /\ UNCHANGED block

-----------------------------------------------------------------------------
(* exec_timer_run *)

Elapse == IF elapsed_ms + CycleMs >= PT THEN PT ELSE elapsed_ms + CycleMs

Expired == elapsed_ms + CycleMs >= PT

Ton(in) ==
  \/ ~in /\ q' = FALSE /\ elapsed_ms' = 0
  \/ in /\ elapsed_ms >= PT /\ q' = TRUE /\ UNCHANGED elapsed_ms
  \/ in /\ elapsed_ms < PT /\ elapsed_ms' = Elapse /\ q' = (q \/ Expired)

Tof(in) ==
  \/ in /\ q' = TRUE /\ elapsed_ms' = 0
  \/ ~in /\ q /\ elapsed_ms' = Elapse /\ q' = ~Expired
  \/ ~in /\ ~q /\ UNCHANGED <<q, elapsed_ms>>

\* The time of a pulse starts again with a rising edge, and the pulse ends
\* with the input.
Tp(in) ==
  LET rises == in /\ ~in_val
      start == IF rises THEN 0 ELSE elapsed_ms
      over == start + CycleMs >= PT
  IN \/ (q \/ rises) /\ elapsed_ms' = (IF over THEN PT ELSE start + CycleMs)
                     /\ q' = (in /\ ~over)
     \/ ~q /\ ~rises /\ UNCHANGED <<q, elapsed_ms>>

\* Mutant: the input of this scan is not kept.
KeepInput_Forgets(in) == UNCHANGED in_val
KeepInput(in) == in_val' = in

TimerRun(in) ==
  /\ \/ block = "TON" /\ Ton(in)
     \/ block = "TOF" /\ Tof(in)
     \/ block = "TP" /\ Tp(in)
  /\ KeepInput(in)
  /\ UNCHANGED <<cu_val, cd_val, cv, qu, qd, q1, q2, last_clk>>

-----------------------------------------------------------------------------
(* exec_counter_run: edges are found by comparing with the last scan. *)

Least(m, n) == IF m <= n THEN m ELSE n
Up(n) == Least(n + 1, PV)
Down(n) == IF n > 0 THEN n - 1 ELSE 0

CounterRun(cu, cd) ==
  LET up == IF cu /\ ~cu_val THEN Up(cv) ELSE cv
      down(n) == IF cd /\ ~cd_val THEN Down(n) ELSE n
  IN /\ cu_val' = cu /\ cd_val' = cd
     /\ \/ block = "CTU" /\ cv' = up /\ q' = (cv' >= PV) /\ UNCHANGED <<qu, qd>>
        \/ block = "CTD" /\ cv' = down(cv) /\ q' = (cv' <= 0) /\ UNCHANGED <<qu, qd>>
        \/ block = "CTUD" /\ cv' = down(up) /\ qu' = (cv' >= PV) /\ qd' = (cv' <= 0) /\ q' = qu'
     /\ UNCHANGED <<in_val, elapsed_ms, q1, q2, last_clk>>

(* exec_sr_run *)

Set == q1' = TRUE /\ q2' = FALSE
Reset == q1' = FALSE /\ q2' = TRUE

SrRun(s1, r) ==
  /\ \/ block = "SR" /\ s1 /\ Set
     \/ block = "SR" /\ ~s1 /\ r /\ Reset
     \/ block = "RS" /\ r /\ Reset
     \/ block = "RS" /\ ~r /\ s1 /\ Set
     \/ block \in FlipFlops /\ ~s1 /\ ~r /\ UNCHANGED <<q1, q2>>
  /\ UNCHANGED <<in_val, elapsed_ms, cu_val, cd_val, cv, qu, qd, last_clk, q>>

(* exec_edge_run *)

EdgeRun(clk) ==
  /\ \/ block = "R_TRIG" /\ q' = (clk /\ ~last_clk)
     \/ block = "F_TRIG" /\ q' = (~clk /\ last_clk)
  /\ last_clk' = clk
  /\ UNCHANGED <<in_val, elapsed_ms, cu_val, cd_val, cv, qu, qd, q1, q2>>

-----------------------------------------------------------------------------
(* One scan: the inputs are what the program computed, so anything. *)

Observe(x, y) ==
  /\ scans' = scans + 1 /\ a' = x /\ b' = y
  /\ on_for' = (IF x THEN on_for + CycleMs ELSE 0)
  /\ off_for' = (IF x THEN 0 ELSE off_for + CycleMs)
  /\ ever_on' = (ever_on \/ x)
  /\ ups' = (IF x /\ ~a THEN ups + 1 ELSE ups)
  /\ downs' = (IF y /\ ~b THEN downs + 1 ELSE downs)
  /\ last' = (IF x /\ y THEN (IF block = "SR" THEN "set" ELSE "reset")
              ELSE IF x THEN "set" ELSE IF y THEN "reset" ELSE last)

Run(x, y) == TimerRun(x) \/ CounterRun(x, y) \/ SrRun(x, y) \/ EdgeRun(x)

Scan ==
  /\ scans < MaxScans
  /\ \E x, y \in BOOLEAN : Run(x, y) /\ Observe(x, y)
  /\ UNCHANGED block

BlocksNext == Scan \/ Load

BlocksSpec == BlocksInit /\ [][BlocksNext]_blockVars

-----------------------------------------------------------------------------
(* Properties.                                                             *)

\* Types of the blocks and of the history.
BlocksTypeOK ==
  /\ block \in Timers \cup Counters \cup FlipFlops \cup Triggers
  /\ in_val \in BOOLEAN /\ elapsed_ms \in Nat
  /\ cu_val \in BOOLEAN /\ cd_val \in BOOLEAN /\ cv \in Nat /\ qu \in BOOLEAN /\ qd \in BOOLEAN
  /\ q1 \in BOOLEAN /\ q2 \in BOOLEAN /\ last_clk \in BOOLEAN /\ q \in BOOLEAN
  /\ scans \in Nat /\ a \in BOOLEAN /\ b \in BOOLEAN
  /\ on_for \in Nat /\ off_for \in Nat /\ ever_on \in BOOLEAN
  /\ ups \in Nat /\ downs \in Nat /\ last \in {"none", "set", "reset"}

\* TON: Q is on when the input has been on for PT; ET is that time, up to PT.
TonFollows == (q <=> a /\ scans > 0 /\ on_for >= PT) /\ elapsed_ms = Least(on_for, PT)

\* TOF: Q is on with the input and for PT after it; ET is the time since then.
TofFollows ==
  /\ q <=> a \/ (ever_on /\ off_for < PT)
  /\ elapsed_ms = IF a \/ ~ever_on THEN 0 ELSE Least(off_for, PT)

\* TP, while the input stays on: Q is on until its rise is PT ago.
TpHeld == a => (q <=> on_for < PT) /\ elapsed_ms = Least(on_for, PT)

\* "TP: IN rising edge triggers fixed-duration Q pulse" (vm.rs): a pulse does
\* not end before its time has elapsed, unless a program is loaded.
TpPulse == [][block = "TP" /\ q /\ ~q' => scans' = 0 \/ elapsed_ms' >= PT]_blockVars

\* CTU counts the rising edges up to PV.
CtuFollows == cv = Least(ups, PV) /\ (scans > 0 => (q <=> cv >= PV))

\* CTUD stays between the edges counted up and their difference, and never
\* leaves 0..PV: only what is cut off at PV can make it smaller.
CtudFollows ==
  /\ cv <= PV /\ cv <= ups
  /\ ups <= PV => cv >= ups - downs
  /\ scans > 0 => (qu <=> cv = PV) /\ (qd <=> cv = 0) /\ (q <=> qu)

\* SR and RS show the last set or reset, which wins over the other by kind.
SrFollows == (q1 <=> last = "set") /\ (q2 <=> last = "reset")

\* After any number of scans with any inputs since the program was loaded, the
\* outputs of the blocks of exec_timer_run, exec_counter_run and exec_sr_run
\* are a function of the history of their inputs.  Nothing is claimed of a TP
\* whose input has fallen, nor of a CTD: it has no load input, and so nothing
\* to count down from.
BlocksFollowInputs ==
  /\ block = "TON" => TonFollows
  /\ block = "TOF" => TofFollows
  /\ block = "TP" => TpHeld
  /\ block = "CTU" => CtuFollows
  /\ block = "CTUD" => CtudFollows
  /\ block \in FlipFlops => SrFollows

-----------------------------------------------------------------------------
(* Inductive strengthening, used in Control_proofs.                        *)

\* What a TP and a CTD do: the pulse ends with the input, and the counter
\* stays at zero.
TpFollows == (q <=> a /\ on_for < PT) /\ (a => elapsed_ms = Least(on_for, PT))
CtdFollows == cv = 0 /\ (scans > 0 => q)

BlocksExact ==
  /\ block = "TON" => TonFollows
  /\ block = "TOF" => TofFollows
  /\ block = "TP" => TpFollows
  /\ block = "CTU" => CtuFollows
  /\ block = "CTD" => CtdFollows
  /\ block = "CTUD" => CtudFollows
  /\ block \in FlipFlops => SrFollows

\* What the blocks keep of the last scan is what was read then.
BlocksInv ==
  /\ BlocksTypeOK /\ BlocksExact
  /\ block \in Timers => in_val = a
  /\ block \in Counters => cu_val = a /\ cd_val = b
  /\ ~ever_on => ~a
  /\ ~a => on_for = 0
  /\ a => off_for = 0
  /\ scans = 0 => ~a /\ ~ever_on /\ on_for = 0 /\ ups = 0
=============================================================================

------------------------- MODULE Supervision_proofs -------------------------
(* Proofs about the two supervisors: Agent, for any number of children and   *)
(* retries, and Lifecycle, for any children, retries and window.             *)
EXTENDS Agent, Lifecycle, SequenceTheorems, TLAPS

-----------------------------------------------------------------------------
(* Agent *)

USE SupervisedAssumption, AgentRetriesAssumption

\* check() and kill() keep the children's types and invariant and give no
\* child a handle it does not have.
LEMMA CheckStep ==
  ASSUME TypeSupervised, \A c \in Supervised : ChildInv(c), NEW d \in Supervised,
         state[d] # "failed", Check(d)
  PROVE  /\ TypeSupervised' /\ \A c \in Supervised : ChildInv(c)'
         /\ \A c \in Supervised : ~handle[c] => ~handle'[c]
         /\ \A c \in Supervised : state[c] = "failed" => state'[c] = "failed"
<1>1. CASE UNCHANGED childVars
  BY <1>1 DEF TypeSupervised, ChildInv, childVars
<1>2. CASE Changed(d) /\ attempts[d] < AgentRetries /\ Respawn(d)
  <2>1. TypeSupervised'
    BY <1>2 DEF Respawn, TypeSupervised
  <2> QED
    BY <1>2, <2>1 DEF Changed, Respawn, TypeSupervised, ChildInv
<1>3. CASE Changed(d) /\ Reaped(d, "failed")
  BY <1>3 DEF Reaped, TypeSupervised, ChildInv
<1> QED
  BY <1>1, <1>2, <1>3 DEF Check, Restart

\* Killing a child clears its handle and gives no other child one.
LEMMA KillStep ==
  ASSUME TypeSupervised, \A c \in Supervised : ChildInv(c), NEW d \in Supervised, Kill(d)
  PROVE  /\ TypeSupervised' /\ \A c \in Supervised : ChildInv(c)'
         /\ ~handle'[d] /\ \A c \in Supervised : ~handle[c] => ~handle'[c]
         /\ state' = state
<1>1. CASE ~handle[d] /\ UNCHANGED childVars
  BY <1>1 DEF TypeSupervised, ChildInv, childVars
<1>2. CASE handle[d] /\ Reaped(d, state[d])
  BY <1>2 DEF Reaped, TypeSupervised, ChildInv
<1> QED
  BY <1>1, <1>2 DEF Kill

\* Every step keeps the types and AgentInv.
LEMMA AgentStep == AgentTypeOK /\ AgentInv /\ [AgentNext]_agentVars => AgentTypeOK' /\ AgentInv'
<1> SUFFICES ASSUME AgentTypeOK, AgentInv, [AgentNext]_agentVars PROVE AgentTypeOK' /\ AgentInv'
  OBVIOUS
<1>0. TypeSupervised /\ \A c \in Supervised : ChildInv(c)
  BY DEF AgentTypeOK, AgentInv
<1>1. ASSUME UNCHANGED childVars, KillInv',
             TypeSupervised' => AgentTypeOK'
      PROVE  AgentTypeOK' /\ AgentInv'
  BY <1>0, <1>1 DEF TypeSupervised, AgentInv, ChildInv, childVars
<1>2. CASE UNCHANGED agentVars
  BY <1>0, <1>1, <1>2 DEF agentVars, childVars, AgentTypeOK, AgentInv, KillInv
<1>3. ASSUME NEW c \in Supervised, ChildExit(c) PROVE AgentTypeOK' /\ AgentInv'
  <2>1. TypeSupervised' /\ \A d \in Supervised : ChildInv(d)'
    BY <1>0, <1>3 DEF ChildExit, TypeSupervised, ChildInv
  <2> QED
    BY <1>3, <2>1 DEF ChildExit, AgentTypeOK, AgentInv, KillInv
<1>4. CASE Signal \/ DeadlinePasses \/ LoopHead \/ PushStatus \/ Wake \/ KillDone \/ WaitDone
  <2>1. UNCHANGED childVars
    BY <1>4 DEF Signal, DeadlinePasses, LoopHead, PushStatus, Wake, KillDone, WaitDone
  <2>2. KillInv'
    <3>1. /\ apc' = "kill" => i' = 1 \/ (apc = "kill" /\ i' = i)
          /\ apc' \in {"wait", "exit"} => apc \in {"wait", "exit"} \/ (apc = "kill" /\ i = NSupervised + 1)
      BY <1>4 DEF Signal, DeadlinePasses, LoopHead, PushStatus, Wake, KillDone, WaitDone, AgentTypeOK
    <3> QED
      BY <2>1, <3>1 DEF AgentInv, KillInv, childVars, Supervised
  <2>3. TypeSupervised' => AgentTypeOK'
    <3>1. i' \in {1, i}
      BY <1>4 DEF Signal, DeadlinePasses, LoopHead, PushStatus, Wake, KillDone, WaitDone
    <3>2. any_change' \in BOOLEAN /\ SHUTDOWN' \in BOOLEAN /\ late' \in BOOLEAN
      BY <1>4 DEF Signal, DeadlinePasses, LoopHead, PushStatus, Wake, KillDone, WaitDone, AgentTypeOK
    <3>3. apc' \in {"loop", "check", "sleep", "kill", "wait", "exit"}
      BY <1>4 DEF Signal, DeadlinePasses, LoopHead, PushStatus, Wake, KillDone, WaitDone, AgentTypeOK
    <3>4. i' \in 1..(NSupervised + 1)
      BY <3>1 DEF AgentTypeOK
    <3> QED
      BY <3>2, <3>3, <3>4 DEF AgentTypeOK
  <2> QED
    BY <1>1, <2>1, <2>2, <2>3
<1>5. CASE CheckChild
  <2>1. i \in Supervised
    BY <1>5 DEF CheckChild, AgentTypeOK, Supervised
  <2>2. /\ TypeSupervised' /\ \A c \in Supervised : ChildInv(c)'
        /\ \A c \in Supervised : ~handle[c] => ~handle'[c]
    <3>1. CASE state[i] = "failed"
      BY <1>0, <1>5, <3>1 DEF CheckChild, childVars, TypeSupervised, ChildInv
    <3>2. CASE state[i] # "failed"
      BY <1>0, <1>5, <2>1, <3>2, CheckStep DEF CheckChild
    <3> QED
      BY <3>1, <3>2
  <2>3. any_change' \in BOOLEAN
    BY <1>5 DEF CheckChild, AgentTypeOK
  <2> QED
    BY <1>5, <2>1, <2>2, <2>3 DEF CheckChild, AgentTypeOK, AgentInv, KillInv, Supervised
<1>6. CASE KillChild
  <2>1. i \in Supervised
    BY <1>6 DEF KillChild, AgentTypeOK, Supervised
  <2>2. /\ TypeSupervised' /\ \A c \in Supervised : ChildInv(c)'
        /\ ~handle'[i] /\ \A c \in Supervised : ~handle[c] => ~handle'[c]
    BY <1>0, <1>6, <2>1, KillStep DEF KillChild
  <2>3. KillInv'
    BY <1>6, <2>1, <2>2 DEF KillChild, AgentInv, KillInv, Supervised
  <2> QED
    BY <1>6, <2>1, <2>2, <2>3 DEF KillChild, AgentTypeOK, AgentInv, Supervised
<1>7. CASE WaitChild
  <2>1. i \in Supervised /\ ~handle[i]
    BY <1>7 DEF WaitChild, AgentTypeOK, AgentInv, KillInv, Supervised
  <2>2. UNCHANGED childVars /\ i' = i + 1
    BY <1>7, <2>1 DEF WaitChild, Kill
  <2> QED
    BY <1>1, <1>7, <2>1, <2>2 DEF WaitChild, AgentTypeOK, AgentInv, KillInv, Supervised, childVars
<1> QED
  BY <1>2, <1>3, <1>4, <1>5, <1>6, <1>7 DEF AgentNext, AgentMain

\* The agent starts with the types and the invariant.
LEMMA AgentStart == AgentInit => AgentTypeOK /\ AgentInv
<1> SUFFICES ASSUME AgentInit PROVE AgentTypeOK /\ AgentInv
  OBVIOUS
<1>1. TypeSupervised
  BY DEF AgentInit, TypeSupervised
<1>2. \A c \in Supervised : ChildInv(c)
  <2> SUFFICES ASSUME NEW c \in Supervised PROVE ChildInv(c)
    OBVIOUS
  <2>1. CASE handle[c]
    BY <2>1 DEF AgentInit, ChildInv
  <2>2. CASE ~handle[c]
    BY <2>2 DEF AgentInit, ChildInv
  <2> QED
    BY <2>1, <2>2
<1>3. KillInv
  BY DEF AgentInit, KillInv
<1>4. i \in 1..(NSupervised + 1)
  BY DEF AgentInit
<1>5. {any_change, SHUTDOWN, late} \subseteq BOOLEAN
      /\ apc \in {"loop", "check", "sleep", "kill", "wait", "exit"}
  BY DEF AgentInit
<1> QED
  BY <1>1, <1>2, <1>3, <1>4, <1>5 DEF AgentTypeOK, AgentInv

\* The agent's variables stay in their types, and no restart counter exceeds
\* MAX_RETRIES.
THEOREM AgentTypeCorrect == AgentSpec => []AgentTypeOK
BY AgentStart, AgentStep, PTL DEF AgentSpec

\* A child is started at most 1 + MAX_RETRIES times.
THEOREM AgentStartsBounded == AgentSpec => []StartsBounded
<1>1. AgentTypeOK /\ AgentInv => StartsBounded
  BY DEF AgentTypeOK, TypeSupervised, AgentInv, ChildInv, StartsBounded
<1> QED
  BY <1>1, AgentStart, AgentStep, PTL DEF AgentSpec

\* No child process survives the agent.
THEOREM AgentExitLeavesNone == AgentSpec => []ExitLeavesNone
<1>1. AgentTypeOK /\ AgentInv => ExitLeavesNone
  BY DEF AgentInv, ChildInv, KillInv, ExitLeavesNone
<1> QED
  BY <1>1, AgentStart, AgentStep, PTL DEF AgentSpec

\* A failed child stays failed and has no process, whatever the main loop, the
\* shutdown and the processes do.
THEOREM AgentFailedFinal == AgentSpec => FailedIsFinal
<1>1. AgentTypeOK /\ AgentInv /\ [AgentNext]_agentVars
        => [\A c \in Supervised : state[c] = "failed" => state'[c] = "failed"]_agentVars
  <2> SUFFICES ASSUME AgentTypeOK, AgentInv, AgentNext, NEW c \in Supervised, state[c] = "failed"
               PROVE  state'[c] = "failed"
    OBVIOUS
  <2>0. TypeSupervised /\ \A d \in Supervised : ChildInv(d)
    BY DEF AgentTypeOK, AgentInv
  <2>1. CASE CheckChild
    <3>1. i \in Supervised
      BY <2>1 DEF CheckChild, AgentTypeOK, Supervised
    <3> QED
      BY <2>0, <2>1, <3>1, CheckStep DEF CheckChild, childVars
  <2>2. CASE KillChild
    <3>1. i \in Supervised
      BY <2>2 DEF KillChild, AgentTypeOK, Supervised
    <3> QED
      BY <2>0, <2>2, <3>1, KillStep DEF KillChild
  <2>3. CASE WaitChild
    <3>1. i \in Supervised /\ ~handle[i]
      BY <2>3 DEF WaitChild, AgentTypeOK, AgentInv, KillInv, Supervised
    <3> QED
      BY <2>3, <3>1 DEF WaitChild, Kill, childVars
  <2> QED
    BY <2>1, <2>2, <2>3 DEF AgentNext, AgentMain, ChildExit, Signal, DeadlinePasses, LoopHead, PushStatus, Wake,
       KillDone, WaitDone, childVars
<1>2. AgentTypeOK' /\ AgentInv' => \A c \in Supervised : state'[c] = "failed" => aproc'[c] = "none"
  BY DEF AgentTypeOK, TypeSupervised, AgentInv, ChildInv
<1>3. AgentTypeOK /\ AgentInv /\ [AgentNext]_agentVars
        => [\A c \in Supervised : state[c] = "failed" => state'[c] = "failed" /\ aproc'[c] = "none"]_agentVars
  BY <1>1, <1>2, AgentStep
<1> QED
  BY <1>3, AgentStart, AgentStep, PTL DEF AgentSpec, FailedIsFinal

\* A step of one child is a step of Supervisor, if it is not shutting down:
\* check() restarts within the budget or gives the child up.
LEMMA CheckPromised ==
  ASSUME TypeSupervised, NEW d \in Supervised, ChildInv(d), Check(d),
         apc \notin {"kill", "wait", "exit"}, apc' = apc
  PROVE  Promise!Restart(d) \/ Promise!Remove(d) \/ UNCHANGED Promise!vars
<1>1. CASE UNCHANGED childVars
  BY <1>1 DEF childVars, Promise!vars
<1>2. CASE Changed(d) /\ attempts[d] < AgentRetries /\ Respawn(d)
  <2>1. starts[d] < AgentRetries + 1
    BY <1>2 DEF ChildInv, TypeSupervised
  <2> QED
    BY <1>2, <2>1 DEF Changed, Respawn, Promise!Restart
<1>3. CASE Changed(d) /\ Reaped(d, "failed")
  BY <1>3 DEF Changed, Reaped, Promise!Remove
<1> QED
  BY <1>1, <1>2, <1>3 DEF Check, Restart

\* kill() ends the process of a child while the supervisor shuts down.
LEMMA KillPromised ==
  ASSUME TypeSupervised, NEW d \in Supervised, ChildInv(d), Kill(d), apc = "kill", apc' = apc
  PROVE  Promise!Remove(d) \/ UNCHANGED Promise!vars
<1>1. CASE ~handle[d] /\ UNCHANGED childVars
  BY <1>1 DEF childVars, Promise!vars
<1>2. CASE handle[d] /\ Reaped(d, state[d])
  <2>1. aproc[d] \in {"alive", "exited"}
    BY <1>2 DEF ChildInv, TypeSupervised
  <2> QED
    BY <1>2, <2>1 DEF Reaped, Promise!Remove
<1> QED
  BY <1>1, <1>2 DEF Kill

\* The agent implements Supervisor: each step of its main thread, of a child
\* or of the environment is a step of the abstract supervisor or leaves its
\* state alone.  The deadline loop, whose check() could restart a child, finds
\* no handle (KillInv), so it never does.
THEOREM AgentImplementsSupervisor == AgentSpec => SupervisorSpec
<1>1. AgentInit => Promise!Init
  <2> SUFFICES ASSUME AgentInit PROVE Promise!Init
    OBVIOUS
  <2>1. aproc \in [Supervised -> {"alive", "none"}]
    BY DEF AgentInit
  <2>2. \A c \in Supervised : handle[c] <=> aproc[c] = "alive"
    BY DEF AgentInit
  <2>3. starts = [c \in Supervised |-> IF aproc[c] = "alive" THEN 1 ELSE 0]
    BY <2>2 DEF AgentInit
  <2>4. (apc \in {"kill", "wait", "exit"}) = FALSE /\ (apc = "exit") = FALSE
    BY DEF AgentInit
  <2> QED
    BY <2>1, <2>3, <2>4 DEF Promise!Init
<1>2. AgentTypeOK /\ AgentInv /\ [AgentNext]_agentVars => [Promise!Next]_Promise!vars
  <2> SUFFICES ASSUME AgentTypeOK, AgentInv, [AgentNext]_agentVars
               PROVE  Promise!Next \/ UNCHANGED Promise!vars
    OBVIOUS
  <2>0. TypeSupervised /\ \A c \in Supervised : ChildInv(c)
    BY DEF AgentTypeOK, AgentInv
  <2>1. CASE UNCHANGED <<apc, childVars>>
    BY <2>1 DEF childVars, Promise!vars
  <2>2. ASSUME NEW c \in Supervised, ChildExit(c) PROVE Promise!Next
    <3>1. Promise!Exit(c)
      BY <2>2 DEF ChildExit, Promise!Exit
    <3> QED
      BY <3>1 DEF Promise!Next
  <2>3. CASE CheckChild
    <3>1. i \in Supervised /\ apc \notin {"kill", "wait", "exit"} /\ apc' = apc
      BY <2>3 DEF CheckChild, AgentTypeOK, Supervised
    <3>2. CASE state[i] = "failed"
      BY <2>1, <2>3, <3>2 DEF CheckChild
    <3>3. CASE state[i] # "failed"
      BY <2>0, <2>3, <3>1, <3>3, CheckPromised DEF CheckChild, Promise!Next
    <3> QED
      BY <3>2, <3>3
  <2>4. CASE KillChild
    <3>1. i \in Supervised /\ apc = "kill" /\ apc' = apc
      BY <2>4 DEF KillChild, AgentTypeOK, Supervised
    <3> QED
      BY <2>0, <2>4, <3>1, KillPromised DEF KillChild, Promise!Next
  <2>5. CASE WaitChild
    <3>1. i \in Supervised /\ ~handle[i] /\ apc' = apc
      BY <2>5 DEF WaitChild, AgentTypeOK, AgentInv, KillInv, Supervised
    <3> QED
      BY <2>1, <2>5, <3>1 DEF WaitChild, Kill
  <2>6. CASE LoopHead \/ PushStatus \/ Wake \/ KillDone
    <3>1. UNCHANGED childVars
      BY <2>6 DEF LoopHead, PushStatus, Wake, KillDone
    <3>2. /\ apc # "exit" /\ apc' # "exit"
          /\ apc \in {"kill", "wait", "exit"} => apc' \in {"kill", "wait", "exit"}
      BY <2>6 DEF LoopHead, PushStatus, Wake, KillDone
    <3> QED
      BY <3>1, <3>2 DEF childVars, Promise!vars, Promise!Next, Promise!Close
  <2>7. CASE WaitDone
    <3>1. \A c \in Supervised : aproc[c] = "none"
      BY <2>0, <2>7 DEF WaitDone, AgentInv, KillInv, ChildInv
    <3>2. Promise!End
      BY <2>7, <3>1 DEF WaitDone, childVars, Promise!End
    <3> QED
      BY <3>2 DEF Promise!Next
  <2> QED
    BY <2>1, <2>2, <2>3, <2>4, <2>5, <2>6, <2>7
    DEF AgentNext, AgentMain, Signal, DeadlinePasses, agentVars
<1> QED
  BY <1>1, <1>2, AgentStart, AgentStep, PTL DEF AgentSpec, SupervisorSpec, Promise!Spec

\* After the signal the main thread has at most 3N + 6 steps left and each of
\* its steps is one of them: it cannot be kept in a loop by children that exit
\* or refuse to.  With the fairness of AgentFairness this is the argument for
\* the signal's half of AgentEnds.
THEOREM AgentStepsRunOut ==
  AgentSpec => [](StepsLeft \in 0..(3 * NSupervised + 6)) /\ AgentWindsDown
<1>1. AgentTypeOK => StepsLeft \in 0..(3 * NSupervised + 6)
  BY DEF AgentTypeOK, StepsLeft
<1>2. AgentTypeOK /\ AgentInv /\ [AgentNext]_agentVars
        => [SHUTDOWN => /\ AgentMain => StepsLeft' < StepsLeft
                        /\ ~AgentMain => StepsLeft' = StepsLeft]_agentVars
  <2> SUFFICES ASSUME AgentTypeOK, AgentInv, AgentNext, SHUTDOWN
               PROVE  /\ AgentMain => StepsLeft' < StepsLeft
                      /\ ~AgentMain => StepsLeft' = StepsLeft
    OBVIOUS
  <2>0. i \in 1..(NSupervised + 1) /\ NSupervised \in Nat
    BY DEF AgentTypeOK
  <2>1. CASE ~AgentMain
    BY <2>1 DEF AgentNext, Signal, DeadlinePasses, ChildExit, StepsLeft
  <2>2. ASSUME LoopHead PROVE StepsLeft' < StepsLeft
    BY <2>2 DEF LoopHead, StepsLeft
  <2>3. ASSUME CheckChild \/ KillChild PROVE StepsLeft' < StepsLeft
    <3>1. apc \in {"check", "kill"} /\ apc' = apc /\ i' = i + 1
      BY <2>3 DEF CheckChild, KillChild
    <3> QED
      BY <2>0, <3>1 DEF StepsLeft
  <2>4. ASSUME PushStatus PROVE StepsLeft' < StepsLeft
    BY <2>0, <2>4 DEF PushStatus, StepsLeft
  <2>5. ASSUME Wake PROVE StepsLeft' < StepsLeft
    BY <2>5 DEF Wake, StepsLeft
  <2>6. ASSUME KillDone PROVE StepsLeft' < StepsLeft
    BY <2>0, <2>6 DEF KillDone, StepsLeft
  <2>7. ASSUME WaitChild PROVE StepsLeft' < StepsLeft
    <3>1. i \in Supervised /\ ~handle[i]
      BY <2>7 DEF WaitChild, AgentTypeOK, AgentInv, KillInv, Supervised
    <3>2. apc = "wait" /\ apc' = "wait" /\ i' = i + 1
      BY <2>7, <3>1 DEF WaitChild
    <3> QED
      BY <2>0, <3>2 DEF StepsLeft
  <2>8. ASSUME WaitDone PROVE StepsLeft' < StepsLeft
    BY <2>0, <2>8 DEF WaitDone, StepsLeft
  <2> QED
    BY <2>1, <2>2, <2>3, <2>4, <2>5, <2>6, <2>7, <2>8 DEF AgentMain
<1> QED
  BY <1>1, <1>2, AgentStart, AgentStep, PTL DEF AgentSpec, AgentWindsDown

-----------------------------------------------------------------------------
(* Lifecycle *)

USE RetriesAssumption, TimesAssumption

\* The managed children are names of children.
LEMMA ManagedType == TypeOK => Managed \subseteq Children
BY ElementOfSeq DEF TypeOK, Managed

\* Sequences after Append and Tail, index by index.
LEMMA AppendIndices ==
  ASSUME NEW S, NEW s \in Seq(S), NEW e \in S
  PROVE  /\ Len(s) \in Nat /\ DOMAIN s = 1..Len(s)
         /\ DOMAIN Append(s, e) = 1..(Len(s) + 1) /\ Len(Append(s, e)) = Len(s) + 1
         /\ \A k \in 1..Len(s) : s[k] \in S /\ Append(s, e)[k] = s[k]
         /\ Append(s, e)[Len(s) + 1] = e
BY LenProperties, AppendProperties, ElementOfSeq

\* Entering a child in the list adds its name, removing the first child
\* removes at most its name.
LEMMA ManagedPush ==
  ASSUME children \in Seq(Children), NEW c \in Children, children' = Append(children, c)
  PROVE  Managed' = Managed \cup {c}
<1>1. /\ Len(children) \in Nat
      /\ DOMAIN children = 1..Len(children) /\ DOMAIN children' = 1..(Len(children) + 1)
      /\ \A k \in 1..Len(children) : children'[k] = children[k]
      /\ children'[Len(children) + 1] = c
  BY AppendIndices
<1>2. Managed' \subseteq Managed \cup {c}
  BY <1>1 DEF Managed
<1>3. Managed \cup {c} \subseteq Managed'
  BY <1>1 DEF Managed
<1> QED
  BY <1>2, <1>3

\* When the first child is taken from the list (shutdown_all), all others stay in it.
LEMMA ManagedTail ==
  ASSUME children \in Seq(Children), children # <<>>, children' = Tail(children)
  PROVE  Managed \subseteq Managed' \cup {Head(children)}
<1>1. /\ Len(children) \in Nat /\ Len(children') = Len(children) - 1
      /\ DOMAIN children = 1..Len(children) /\ DOMAIN children' = 1..Len(children')
      /\ \A k \in 1..Len(children') : children'[k] = children[k + 1]
  BY HeadTailProperties, LenProperties
<1> SUFFICES ASSUME NEW k \in DOMAIN children, children[k] # Head(children)
             PROVE  children[k] \in Managed'
  BY DEF Managed
<1>2. k # 1
  OBVIOUS
<1>3. k - 1 \in DOMAIN children' /\ children'[k - 1] = children[k]
  BY <1>1, <1>2
<1> QED
  BY <1>3 DEF Managed

\* A gap up to b is one up to any later time t.
LEMMA LaterGap ==
  ASSUME NEW a \in Nat, NEW b \in Nat, NEW t \in Nat, NEW w \in Nat, b - a >= w, b <= t
  PROVE  t - a >= w
OBVIOUS

\* A restart at time t keeps the history of a child that has been restarted
\* at the times R, the last n of which the counter counts.
LEMMA HistoryPush ==
  ASSUME NEW R \in Seq(Nat), NEW n \in Nat, NEW t \in Nat, n < MaxRetries,
         Ordered(R), RateOf(R), Uncounted(R, n, t), \A k \in 1..Len(R) : R[k] <= t
  PROVE  /\ Ordered(Append(R, t)) /\ RateOf(Append(R, t))
         /\ Uncounted(Append(R, t), n + 1, t)
<1> DEFINE L == Len(R)
           S == Append(R, t)
<1>1. /\ L \in Nat /\ DOMAIN R = 1..L /\ DOMAIN S = 1..(L + 1) /\ Len(S) = L + 1
      /\ \A k \in 1..L : R[k] \in Nat /\ S[k] = R[k]
      /\ S[L + 1] = t
  BY AppendIndices
<1>2. /\ \A k, j \in 1..L : k <= j => R[k] <= R[j]
      /\ n <= L
      /\ n = 0 /\ L > 0 => t - R[L] >= Window
      /\ 0 < n /\ n < L => R[L - n + 1] - R[L - n] >= Window
  BY DEF Ordered, Uncounted
<1> HIDE DEF L, S
<1>3. Ordered(S)
  BY <1>1, <1>2 DEF Ordered
<1>4. Uncounted(S, n + 1, t)
  <2>1. n < L => S[L + 1 - n] - S[L - n] >= Window
    <3>1. CASE n = 0
      BY <1>1, <1>2, <3>1
    <3>2. CASE n > 0 /\ n < L
      <4>1. L - n \in 1..L /\ L - n + 1 \in 1..L /\ L + 1 - n = L - n + 1
        BY <1>1, <3>2
      <4> QED
        BY <1>1, <1>2, <3>2, <4>1
    <3> QED
      BY <1>1, <3>1, <3>2
  <2>2. L + 1 - (n + 1) + 1 = L + 1 - n /\ L + 1 - (n + 1) = L - n
    BY <1>1
  <2> QED
    BY <1>1, <1>2, <2>1, <2>2 DEF Uncounted
<1>5. RateOf(S)
  <2> SUFFICES ASSUME NEW k \in 1..(L + 1), k + MaxRetries \in 1..(L + 1)
               PROVE  S[k + MaxRetries] - S[k] >= Window
    BY <1>1 DEF RateOf
  <2>1. CASE k + MaxRetries \in 1..L
    <3>0. k \in 1..L
      BY <1>1, <2>1
    <3>1. R[k + MaxRetries] - R[k] >= Window
      BY <1>1, <2>1, <3>0 DEF RateOf
    <3> QED
      BY <1>1, <2>1, <3>0, <3>1
  <2>2. CASE k + MaxRetries = L + 1
    <3>1. k \in 1..L /\ k <= L - n /\ L - n \in 1..L
      BY <1>1, <1>2, <2>2
    <3>2. R[k] <= R[L - n] /\ R[k] \in Nat /\ R[L - n] \in Nat
      BY <1>1, <1>2, <3>1
    <3>3. t - R[L - n] >= Window
      <4>1. CASE n = 0
        BY <1>1, <1>2, <3>1, <4>1
      <4>2. CASE n > 0
        <5>1. L - n + 1 \in 1..L /\ n < L
          BY <1>1, <3>1, <4>2
        <5>2. R[L - n + 1] \in Nat /\ R[L - n + 1] <= t
          BY <5>1, <1>1 DEF L
        <5>3. R[L - n + 1] - R[L - n] >= Window
          BY <1>2, <4>2, <5>1
        <5> QED
          BY <3>2, <5>2, <5>3, LaterGap
      <4> QED
        BY <4>1, <4>2
    <3>4. S[k + MaxRetries] = t /\ S[k] = R[k]
      BY <1>1, <2>2, <3>1
    <3> QED
      BY <1>1, <3>1, <3>2, <3>3, <3>4
  <2> QED
    BY <1>1, <2>1, <2>2
<1> QED
  BY <1>3, <1>4, <1>5 DEF S

\* A restart needs retries left and is of a managed child that has exited.
LEMMA AgainType ==
  ASSUME TypeOK, NEW lost, NEW again \in SUBSET Due(lost)
  PROVE  /\ again \subseteq Managed /\ again \subseteq Children
         /\ \A c \in again : proc[c] = "exited" /\ CountAt(c, now + 1) < MaxRetries
BY ManagedType DEF Due, Exited, MayRestart

\* Every variable stays in its type; no restart counter exceeds MAX_RETRIES.
THEOREM LifecycleTypeOK == Spec => []TypeOK
<1>1. Init => TypeOK
  BY DEF Init, TypeOK, ProcStates
<1>2. TypeOK /\ [Next]_vars => TypeOK'
  <2> SUFFICES ASSUME TypeOK, [Next]_vars PROVE TypeOK'
    OBVIOUS
  <2> USE DEF TypeOK, ProcStates
  <2>1. CASE UNCHANGED vars
    BY <2>1 DEF vars, clockVars, policyVars, mainVars
  <2>2. CASE Tick
    <3>1. now' = now + 1 /\ now' \in 0..MaxTime /\ 0..now \subseteq 0..now'
      BY <2>2 DEF Tick
    <3>2. last_start' \in [Children -> 0..now']
      BY <2>2, <3>1 DEF Tick, policyVars
    <3>3. restarts' \in [Children -> Seq(0..now')]
      <4>1. \A s \in Seq(0..now) : s \in Seq(0..now')
        BY <3>1
      <4> QED
        BY <2>2, <4>1 DEF Tick
    <3> QED
      BY Zenon, <2>2, <3>1, <3>2, <3>3 DEF Tick, policyVars, mainVars
  <2>3. ASSUME NEW c \in Children, Exit(c) PROVE TypeOK'
    BY <2>3 DEF Exit, clockVars, policyVars, mainVars
  <2>4. ASSUME NEW c \in Children, SpawnFork(c) PROVE TypeOK'
    BY <2>4 DEF SpawnFork, clockVars, policyVars
  <2>5. CASE SpawnPush
    BY <2>5 DEF SpawnPush, clockVars
  <2>6. CASE HealthCheck
    <3>1. PICK lost : \E again \in SUBSET Due(lost) : CheckAll(lost, again)
      BY <2>6 DEF HealthCheck
    <3>10. PICK again \in SUBSET Due(lost) : CheckAll(lost, again)
      BY <3>1
    <3>2. now' = now + 1 /\ now' \in 0..MaxTime
      BY <2>6, <3>10 DEF HealthCheck, CheckAll
    <3>3. \A c \in Children : CountAt(c, now + 1) \in 0..MaxRetries
      BY DEF CountAt
    <3>4. \A c \in again : CountAt(c, now + 1) + 1 \in 0..MaxRetries
      <4>1. \A c \in again : c \in Children /\ CountAt(c, now + 1) < MaxRetries
        BY AgainType
      <4> QED
        BY ONLY <3>3, <4>1, RetriesAssumption
    <3>5. restart_count' \in [Children -> 0..MaxRetries]
      <4>1. restart_count' = [c \in Children |->
              IF c \in again THEN CountAt(c, now + 1) + 1
              ELSE IF c \in Exited(lost) THEN CountAt(c, now + 1) ELSE restart_count[c]]
        BY <3>10, <3>2 DEF CheckAll
      <4>2. \A c \in Children : restart_count[c] \in 0..MaxRetries
        OBVIOUS
      <4> QED
        BY ONLY <3>3, <3>4, <4>1, <4>2
    <3>6. last_start' \in [Children -> 0..now']
      BY <3>10, <3>2 DEF CheckAll
    <3>7. restarts' \in [Children -> Seq(0..now')]
      <4>1. \A s \in Seq(0..now) : s \in Seq(0..now')
        BY <3>2
      <4>2. \A s \in Seq(0..now') : Append(s, now') \in Seq(0..now')
        BY <3>2
      <4>3. restarts' = [c \in Children |->
              IF c \in again THEN Append(restarts[c], now') ELSE restarts[c]]
        BY <3>10 DEF CheckAll
      <4> QED
        BY <4>1, <4>2, <4>3
    <3>8. proc' \in [Children -> ProcStates]
      BY <3>10 DEF CheckAll
    <3> QED
      BY <3>10, <3>2, <3>5, <3>6, <3>7, <3>8 DEF CheckAll, mainVars
  <2>7. CASE ShutdownKill
    BY <2>7 DEF ShutdownKill, Killed, clockVars, policyVars
  <2>8. CASE Reap \/ Waited
    <3>1. children # <<>> /\ RemoveFirst /\ mpc \in {"reap", "wait"} /\ mpc' = "reap"
      BY <2>8 DEF Reap, Waited
    <3>2. failed' \subseteq Children
      BY <2>8, <3>1, HeadTailProperties DEF Reap, Waited
    <3> QED
      BY <3>1, <3>2 DEF RemoveFirst, clockVars, policyVars
  <2>10. CASE ReapLate \/ ReapError
    BY <2>10 DEF ReapLate, ReapError, KillFirst, Killed, clockVars, policyVars
  <2>9. CASE ShutdownDone
    BY <2>9 DEF ShutdownDone, clockVars, policyVars
  <2> QED
    BY <2>1, <2>2, <2>3, <2>4, <2>5, <2>6, <2>7, <2>8, <2>9, <2>10 DEF Next, Main
<1> QED
  BY <1>1, <1>2, PTL DEF Spec

\* Every step keeps RestartInv.
LEMMA RestartInvStep == TypeOK /\ TypeOK' /\ RestartInv /\ [Next]_vars => RestartInv'
<1> SUFFICES ASSUME TypeOK, TypeOK', RestartInv, [Next]_vars PROVE RestartInv'
  OBVIOUS
<1> DEFINE L(c) == Len(restarts[c])
<1>0. ASSUME NEW c \in Children
      PROVE  /\ restarts[c] \in Seq(Nat) /\ L(c) \in Nat
             /\ \A k \in 1..L(c) : restarts[c][k] \in 0..now
             /\ now \in Nat /\ restart_count[c] \in Nat
  <2>1. restarts[c] \in Seq(0..now) /\ now \in Nat
    BY DEF TypeOK
  <2>2. restarts[c] \in [1..L(c) -> 0..now] /\ L(c) \in Nat
    BY <2>1, LenProperties
  <2>3. restarts[c] \in Seq(Nat)
    BY <2>1
  <2>4. restart_count[c] \in Nat
    BY DEF TypeOK
  <2> QED
    BY <2>1, <2>2, <2>3, <2>4
<1>1. ASSUME now' >= now, UNCHANGED <<restarts, restart_count, last_start>>
      PROVE  \A c \in Children : RestartHistory(c)'
  <2> SUFFICES ASSUME NEW c \in Children PROVE RestartHistory(c)'
    OBVIOUS
  <2>1. now' \in Nat
    BY DEF TypeOK
  <2>2. L(c) > 0 => restarts[c][L(c)] \in Nat
    BY <1>0
  <2>3. now \in Nat /\ L(c) \in Nat
    BY <1>0
  <2>4. RestartHistory(c)
    BY DEF RestartInv
  <2>5. Uncounted(restarts[c], restart_count[c], now')
    BY <1>1, <2>1, <2>2, <2>3, <2>4 DEF RestartHistory, Uncounted
  <2> QED
    BY <1>1, <2>4, <2>5 DEF RestartHistory
<1>2. CASE UNCHANGED vars
  BY <1>2 DEF vars, clockVars, policyVars, mainVars, RestartInv, RestartHistory,
     Fresh, Managed, Ordered, RateOf, Uncounted
<1>3. CASE Tick
  <2>1. \A c \in Children : Fresh(c)'
    BY <1>3 DEF Tick, mainVars, RestartInv, Fresh, Managed
  <2> QED
    BY <1>1, <1>3, <2>1 DEF Tick, policyVars, RestartInv, TypeOK
<1>4. ASSUME NEW c \in Children, Exit(c) PROVE RestartInv'
  <2>1. \A d \in Children : Fresh(d)'
    BY <1>4 DEF Exit, clockVars, mainVars, RestartInv, Fresh, Managed, TypeOK
  <2> QED
    BY <1>1, <1>4, <2>1 DEF Exit, clockVars, policyVars, RestartInv, TypeOK
<1>5. ASSUME NEW c \in Children, SpawnFork(c) PROVE RestartInv'
  <2>1. \A d \in Children : Fresh(d)'
    BY <1>5 DEF SpawnFork, clockVars, RestartInv, Fresh, Managed, TypeOK
  <2> QED
    BY <1>1, <1>5, <2>1 DEF SpawnFork, clockVars, policyVars, RestartInv, TypeOK
<1>6. CASE SpawnPush
  <2>1. Managed' = Managed \cup {marg}
    BY <1>6, ManagedPush DEF SpawnPush, TypeOK
  <2>2. marg \in Children /\ restarts[marg] = <<>>
    BY <1>6 DEF SpawnPush, RestartInv, Fresh, TypeOK
  <2>3. \A d \in Children : RestartHistory(d)'
    <3> SUFFICES ASSUME NEW d \in Children PROVE RestartHistory(d)'
      OBVIOUS
    <3>1. UNCHANGED <<now, restarts>>
      BY <1>6 DEF SpawnPush, clockVars
    <3>2. CASE d = marg
      <4>1. restart_count'[d] = 0 /\ restarts[d] = <<>> /\ Len(restarts[d]) = 0
        BY <1>6, <2>2, <3>2, EmptySeq DEF SpawnPush, TypeOK
      <4> QED
        BY <3>1, <4>1 DEF RestartInv, RestartHistory, Uncounted
    <3>3. CASE d # marg
      <4>1. restart_count'[d] = restart_count[d] /\ last_start'[d] = last_start[d]
        BY <1>6, <2>2, <3>3 DEF SpawnPush, TypeOK
      <4> QED
        BY <3>1, <4>1 DEF RestartInv, RestartHistory
    <3> QED
      BY <3>2, <3>3
  <2>4. \A d \in Children : Fresh(d)'
    <3>1. proc[marg] # "none"
      BY <1>6, <2>2 DEF SpawnPush, RestartInv, Fresh
    <3> QED
      BY <1>6, <2>1, <2>2, <3>1 DEF SpawnPush, clockVars, RestartInv, Fresh
  <2> QED
    BY <2>3, <2>4 DEF RestartInv
<1>7. CASE HealthCheck
  <2>1. PICK lost : \E again \in SUBSET Due(lost) : CheckAll(lost, again)
    BY <1>7 DEF HealthCheck
  <2>2. PICK again \in SUBSET Due(lost) : CheckAll(lost, again)
    BY <2>1
  <2>3. now' = now + 1 /\ UNCHANGED <<Managed, mpc, marg>>
    BY <2>2 DEF CheckAll, Managed, mainVars
  <2>4. ASSUME NEW c \in Children PROVE Fresh(c)'
    <3>1. c \notin Managed => restarts'[c] = restarts[c] /\ proc'[c] = proc[c]
      BY <2>2, AgainType DEF CheckAll
    <3>2. proc'[c] \in {proc[c], "alive"}
      BY <2>2 DEF CheckAll
    <3> QED
      BY <2>3, <3>1, <3>2 DEF RestartInv, Fresh
  <2>5. ASSUME NEW c \in Children
        PROVE  /\ CountAt(c, now + 1) \in Nat
               /\ Uncounted(restarts[c], restart_count[c], now + 1)
               /\ Uncounted(restarts[c], CountAt(c, now + 1), now + 1)
    <3>1. L(c) > 0 => restarts[c][L(c)] \in Nat
      BY <1>0
    <3>2. Uncounted(restarts[c], restart_count[c], now)
      BY DEF RestartInv, RestartHistory
    <3>3. L(c) > 0 => last_start[c] = restarts[c][L(c)]
      BY <1>0, EmptySeq DEF RestartInv, RestartHistory
    <3>4. Uncounted(restarts[c], restart_count[c], now + 1)
      BY <1>0, <3>1, <3>2 DEF Uncounted
    <3>5. CASE (now + 1) - last_start[c] >= Window
      <4>1. Uncounted(restarts[c], 0, now + 1)
        BY <1>0, <3>1, <3>3, <3>5 DEF Uncounted
      <4>2. CountAt(c, now + 1) = 0
        BY Zenon, <3>5 DEF CountAt
      <4> QED BY <3>4, <4>1, <4>2
    <3>6. CASE ~((now + 1) - last_start[c] >= Window)
      <4>1. CountAt(c, now + 1) = restart_count[c] /\ restart_count[c] \in Nat
        BY Zenon, <1>0, <3>6 DEF CountAt
      <4> QED BY <3>4, <4>1
    <3> QED BY <3>5, <3>6
  <2>6. ASSUME NEW c \in Children, c \in again PROVE RestartHistory(c)'
    <3>1. restarts'[c] = Append(restarts[c], now + 1) /\ last_start'[c] = now + 1
          /\ restart_count'[c] = CountAt(c, now + 1) + 1
      BY <2>2, <2>3, <2>6 DEF CheckAll
    <3>2. CountAt(c, now + 1) < MaxRetries
      BY <2>6, AgainType
    <3>3. Ordered(restarts[c]) /\ RateOf(restarts[c])
      BY DEF RestartInv, RestartHistory
    <3>4. now + 1 \in Nat /\ \A k \in 1..L(c) : restarts[c][k] <= now + 1
      BY <1>0
    <3>5. /\ Ordered(restarts'[c]) /\ RateOf(restarts'[c])
          /\ Uncounted(restarts'[c], restart_count'[c], now + 1)
      BY <1>0, <2>5, <3>1, <3>2, <3>3, <3>4, HistoryPush
    <3>6. last_start'[c] = restarts'[c][Len(restarts'[c])]
      BY <1>0, <3>1, <3>4, AppendProperties
    <3> QED
      BY <2>3, <3>5, <3>6 DEF RestartHistory
  <2>7. ASSUME NEW c \in Children, c \notin again PROVE RestartHistory(c)'
    <3>1. restarts'[c] = restarts[c] /\ last_start'[c] = last_start[c]
      BY <2>2, <2>7 DEF CheckAll
    <3>2. restart_count'[c] \in {restart_count[c], CountAt(c, now + 1)}
      BY <2>2, <2>3, <2>7 DEF CheckAll
    <3> QED
      BY <2>3, <2>5, <3>1, <3>2 DEF RestartInv, RestartHistory
  <2> QED
    BY <2>4, <2>6, <2>7 DEF RestartInv
<1>8. CASE ShutdownKill \/ Reap \/ ReapLate \/ ReapError \/ Waited \/ ShutdownDone
  <2> USE DEF ShutdownKill, Reap, ReapLate, ReapError, Waited, ShutdownDone, KillFirst, RemoveFirst
  <2>1. \A c \in Children : Fresh(c)'
    BY <1>8 DEF Fresh
  <2>2. UNCHANGED <<now, restarts, restart_count, last_start>>
    BY <1>8 DEF clockVars, policyVars
  <2> QED
    BY <1>1, <2>1, <2>2 DEF RestartInv, TypeOK
<1> QED
  BY <1>2, <1>3, <1>4, <1>5, <1>6, <1>7, <1>8 DEF Next, Main

\* The manager starts with RestartInv.
LEMMA RestartInvInit == Init => RestartInv
<1> SUFFICES ASSUME Init PROVE RestartInv
  OBVIOUS
<1>1. Managed = {}
  BY DEF Init, Managed
<1> QED
  BY <1>1 DEF Init, RestartInv, RestartHistory, Fresh, Ordered, Uncounted, RateOf

\* In any window of the configured length a child is restarted at most
\* MAX_RETRIES times, for any number of children, retries and window.
THEOREM LifecycleRestartRate == Spec => []RestartRate
<1>1. RestartInv => RestartRate
  BY DEF RestartInv, RestartHistory, RestartRate
<1> QED
  BY <1>1, RestartInvInit, RestartInvStep, LifecycleTypeOK, PTL DEF Spec

\* No process outlives its entry in the list, so none is left when
\* shutdown_all returns.
THEOREM LifecycleNoOrphan == Spec => []NoOrphan
<1>1. Init => NoOrphan
  BY DEF Init, NoOrphan
<1>2. TypeOK /\ NoOrphan /\ [Next]_vars => NoOrphan'
  <2> SUFFICES ASSUME TypeOK, NoOrphan, [Next]_vars PROVE NoOrphan'
    OBVIOUS
  <2>1. CASE SpawnPush
    <3>1. Managed' = Managed \cup {marg}
      BY <2>1, ManagedPush DEF SpawnPush, TypeOK
    <3> QED
      BY <2>1, <3>1 DEF SpawnPush, NoOrphan
  <2>2. CASE Reap \/ Waited
    <3>1. mpc \in {"reap", "wait"} /\ children # <<>> /\ RemoveFirst
      BY <2>2 DEF Reap, Waited, TypeOK
    <3>2. Managed \subseteq Managed' \cup {Head(children)}
      BY <3>1, ManagedTail DEF RemoveFirst, TypeOK
    <3>3. proc'[Head(children)] = "none" /\ \A c \in Children : proc'[c] # "none" => proc'[c] = proc[c]
      BY <3>1 DEF RemoveFirst, TypeOK
    <3> QED
      BY <3>1, <3>2, <3>3 DEF NoOrphan
  <2>3. CASE HealthCheck
    <3>1. PICK lost : \E again \in SUBSET Due(lost) : CheckAll(lost, again)
      BY <2>3 DEF HealthCheck
    <3>2. PICK again \in SUBSET Due(lost) : CheckAll(lost, again)
      BY <3>1
    <3>3. UNCHANGED <<Managed, mpc, marg>> /\ again \subseteq Managed
      BY <3>2, AgainType DEF CheckAll, Managed, mainVars
    <3> QED
      BY <3>2, <3>3 DEF CheckAll, NoOrphan
  <2>4. CASE UNCHANGED <<children, mainVars>> /\ \A c \in Children : proc'[c] # "none" => proc[c] # "none"
    BY <2>4 DEF NoOrphan, Managed, mainVars
  <2>5. ASSUME NEW c \in Children, Exit(c) PROVE NoOrphan'
    BY <2>4, <2>5 DEF Exit, TypeOK
  <2>6. ASSUME NEW c \in Children, SpawnFork(c) PROVE NoOrphan'
    BY <2>6 DEF SpawnFork, NoOrphan, Managed, TypeOK
  <2>7. CASE ShutdownKill \/ ReapLate \/ ReapError \/ ShutdownDone
    <3>1. mpc # "push" /\ children' = children
      BY <2>7 DEF ShutdownKill, ReapLate, ReapError, KillFirst, ShutdownDone
    <3>2. \A c \in Children : proc'[c] # "none" => proc[c] # "none"
      BY <2>7 DEF ShutdownKill, ReapLate, ReapError, KillFirst, Killed, ShutdownDone, TypeOK
    <3> QED
      BY <3>1, <3>2 DEF NoOrphan, Managed
  <2> QED
    BY <2>1, <2>2, <2>3, <2>4, <2>5, <2>6, <2>7 DEF Next, Main, Tick, vars
<1> QED
  BY <1>1, <1>2, LifecycleTypeOK, PTL DEF Spec

\* Taking the first child of a list without repetitions leaves a list without
\* repetitions in which its name does not occur.
LEMMA DistinctTail ==
  ASSUME children \in Seq(Children), children # <<>>, Distinct(children), children' = Tail(children)
  PROVE  Distinct(children') /\ Managed' = Managed \ {Head(children)}
<1>1. /\ Len(children) \in Nat /\ Len(children') = Len(children) - 1
      /\ DOMAIN children = 1..Len(children) /\ DOMAIN children' = 1..Len(children')
      /\ \A k \in 1..Len(children') : children'[k] = children[k + 1]
      /\ Head(children) = children[1] /\ 1 \in DOMAIN children
  BY HeadTailProperties, LenProperties
<1>2. Distinct(children')
  BY <1>1 DEF Distinct
<1>3. \A c \in Managed' : c \in Managed /\ c # Head(children)
  <2> SUFFICES ASSUME NEW k \in DOMAIN children'
               PROVE  children'[k] \in Managed /\ children'[k] # Head(children)
    BY DEF Managed
  <2>1. k + 1 \in DOMAIN children /\ children'[k] = children[k + 1] /\ k + 1 # 1
    BY <1>1
  <2> QED
    BY <1>1, <2>1 DEF Managed, Distinct
<1> QED
  BY <1>2, <1>3, ManagedTail

\* Entering a name that is not in the list keeps the list without repetitions.
LEMMA DistinctPush ==
  ASSUME children \in Seq(Children), NEW c \in Children, c \notin Managed, Distinct(children),
         children' = Append(children, c)
  PROVE  Distinct(children')
<1>1. /\ Len(children) \in Nat
      /\ DOMAIN children = 1..Len(children) /\ DOMAIN children' = 1..(Len(children) + 1)
      /\ \A k \in 1..Len(children) : children'[k] = children[k]
      /\ children'[Len(children) + 1] = c
  BY AppendIndices
<1>2. \A k \in 1..Len(children) : children[k] # c
  BY <1>1 DEF Managed
<1> QED
  BY <1>1, <1>2 DEF Distinct

\* What shutdown_all finds in its list, at the start of a step and after it.
ShutdownInv == Distinct(children) /\ ShutdownComplete

\* Every step keeps ShutdownInv: spawn enters only a name that has no process,
\* shutdown_all kills every child before it waits, and nothing restarts a
\* child while it waits.
LEMMA ShutdownInvStep ==
  TypeOK /\ NoOrphan /\ RestartInv /\ ShutdownInv /\ [Next]_vars => ShutdownInv'
<1> SUFFICES ASSUME TypeOK, NoOrphan, RestartInv, ShutdownInv, [Next]_vars PROVE ShutdownInv'
  OBVIOUS
<1>0. children \in Seq(Children) /\ proc \in [Children -> ProcStates] /\ Managed \subseteq Children
  BY ManagedType DEF TypeOK
<1>1. CASE UNCHANGED <<children, mainVars>> /\ mpc \in {"idle", "push"}
  BY <1>1 DEF mainVars, ShutdownInv, ShutdownComplete
<1>2. CASE UNCHANGED <<children, proc, mainVars>>
  BY <1>2 DEF mainVars, ShutdownInv, ShutdownComplete, Managed
<1>3. ASSUME NEW c \in Children, Exit(c) PROVE ShutdownInv'
  <2>1. /\ UNCHANGED <<children, mpc, marg, Managed>> /\ proc[c] # "none"
        /\ \A d \in Children : proc'[d] \in {proc[d], "exited"}
    BY <1>0, <1>3 DEF Exit, mainVars, Managed
  <2> QED
    BY <1>0, <2>1 DEF ShutdownInv, ShutdownComplete
<1>4. ASSUME NEW c \in Children, SpawnFork(c) PROVE ShutdownInv'
  BY <1>4 DEF SpawnFork, ShutdownInv, ShutdownComplete
<1>5. CASE SpawnPush
  <2>1. marg \in Children /\ marg \notin Managed
    BY <1>0, <1>5 DEF SpawnPush, RestartInv, Fresh, TypeOK
  <2>2. Distinct(children')
    BY <1>0, <1>5, <2>1, DistinctPush DEF SpawnPush, ShutdownInv
  <2> QED
    BY <1>5, <2>2 DEF SpawnPush, ShutdownInv, ShutdownComplete
<1>6. CASE ShutdownKill
  <2>1. \A c \in Managed : proc[c] # "none"
    BY <1>0, <1>6 DEF ShutdownKill, RestartInv, Fresh
  <2>2. \A c \in Managed : proc'[c] \in {"killed", "exited"}
    BY <1>0, <1>6, <2>1 DEF ShutdownKill, Killed, ProcStates
  <2> QED
    BY <1>6, <2>2 DEF ShutdownKill, ShutdownInv, ShutdownComplete, Managed
<1>7. CASE Reap \/ Waited
  <2>1. mpc \in {"reap", "wait"} /\ mpc' = "reap" /\ children # <<>> /\ children' = Tail(children)
        /\ proc' = [proc EXCEPT ![Head(children)] = "none"]
    BY <1>7 DEF Reap, Waited, RemoveFirst, TypeOK
  <2>2. Distinct(children') /\ Managed' = Managed \ {Head(children)}
    BY <1>0, <2>1, DistinctTail DEF ShutdownInv
  <2>3. \A c \in Managed' : proc'[c] = proc[c]
    BY <1>0, <2>1, <2>2
  <2> QED
    BY <2>1, <2>2, <2>3 DEF ShutdownInv, ShutdownComplete
<1>8. CASE ShutdownDone
  <2>1. Managed = {} /\ children = <<>> /\ mpc = "reap"
    BY <1>8 DEF ShutdownDone, Managed
  <2>2. \A c \in Children : proc[c] = "none"
    BY <2>1 DEF NoOrphan
  <2> QED
    BY <1>8, <2>1, <2>2 DEF ShutdownDone, ShutdownInv, ShutdownComplete
<1>9. CASE HealthCheck
  BY <1>1, <1>9 DEF HealthCheck, CheckAll
<1>10. CASE ReapLate \/ ReapError
  <2>1. mpc = "reap" /\ mpc' = "wait" /\ UNCHANGED <<children, Managed>>
        /\ proc' = Killed({Head(children)})
    BY <1>10 DEF ReapLate, ReapError, KillFirst, Managed
  <2>2. \A c \in Managed : proc'[c] \in {"killed", "exited"}
    BY <1>0, <2>1 DEF Killed, ShutdownInv, ShutdownComplete
  <2> QED
    BY <2>1, <2>2 DEF ShutdownInv, ShutdownComplete
<1> QED
  BY <1>2, <1>3, <1>4, <1>5, <1>6, <1>7, <1>8, <1>9, <1>10 DEF Next, Main, Tick, vars

\* shutdown_all always finds the next child of its list killed or exited, also
\* the one it is in the blocking wait for, and no process is left when it has
\* returned.
THEOREM LifecycleShutdownComplete == Spec => []ShutdownComplete
<1>1. Init => RestartInv
  BY RestartInvInit
<1>2. Init => ShutdownInv
  BY DEF Init, ShutdownInv, ShutdownComplete, Distinct
<1>3. ShutdownInv => ShutdownComplete
  BY DEF ShutdownInv
<1> QED
  BY <1>1, <1>2, <1>3, ShutdownInvStep, RestartInvStep, LifecycleNoOrphan, LifecycleTypeOK, PTL DEF Spec
=============================================================================

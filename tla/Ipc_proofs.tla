---------------------------- MODULE Ipc_proofs ----------------------------
(* Proofs about Ipc, for any number of connections and calls, any signals  *)
(* and any capacity of the sockets.                                        *)
EXTENDS Ipc, SequenceTheorems, TLAPS

-----------------------------------------------------------------------------
(* Streams of frames                                                       *)

\* A stream after a write, index by index.
LEMMA Appended ==
  ASSUME NEW S, NEW s \in Seq(S), NEW e \in S
  PROVE  /\ Append(s, e) \in Seq(S) /\ Len(s) \in Nat /\ DOMAIN s = 1..Len(s)
         /\ DOMAIN Append(s, e) = 1..(Len(s) + 1) /\ Len(Append(s, e)) = Len(s) + 1
         /\ \A i \in 1..Len(s) : s[i] \in S /\ Append(s, e)[i] = s[i]
         /\ Append(s, e)[Len(s) + 1] = e
BY LenProperties, AppendProperties, ElementOfSeq

\* The same of what is known to be a stream before and after.
LEMMA AppendedTo ==
  ASSUME NEW S, NEW s \in Seq(S), NEW e, NEW t \in Seq(S), t = Append(s, e)
  PROVE  /\ Len(s) \in Nat /\ Len(t) = Len(s) + 1
         /\ \A i \in 1..Len(s) : t[i] = s[i]
         /\ t[Len(s) + 1] = e
BY LenProperties, AppendProperties

\* A stream after a read, index by index.
LEMMA Read ==
  ASSUME NEW S, NEW s \in Seq(S), s # <<>>
  PROVE  /\ Tail(s) \in Seq(S) /\ Head(s) \in S /\ Head(s) = s[1]
         /\ Len(s) \in Nat \ {0} /\ DOMAIN s = 1..Len(s)
         /\ Len(Tail(s)) = Len(s) - 1 /\ DOMAIN Tail(s) = 1..(Len(s) - 1)
         /\ \A i \in 1..(Len(s) - 1) : Tail(s)[i] = s[i + 1]
BY HeadTailProperties, LenProperties, ElementOfSeq

\* A write at the end of a stream does not hinder a read at its head.
LEMMA TailOfAppend ==
  ASSUME NEW S, NEW s \in Seq(S), NEW e \in S, s # <<>>
  PROVE  Append(s, e) # <<>> /\ Tail(Append(s, e)) = Append(Tail(s), e)
<1>1. Append(s, e) \in Seq(S) /\ Tail(s) \in Seq(S) /\ Append(s, e) # <<>>
  BY Appended, Read, AppendProperties
<1> DEFINE t == Tail(Append(s, e))  u == Append(Tail(s), e)
<1>2. t \in Seq(S) /\ u \in Seq(S) /\ Len(t) = Len(s) /\ Len(u) = Len(s)
  BY <1>1, Appended, Read
<1>3. ASSUME NEW i \in 1..Len(s) PROVE t[i] = u[i]
  <2>1. CASE i = Len(s)
    BY <1>1, <2>1, Appended, Read
  <2>2. CASE i \in 1..(Len(s) - 1)
    BY <1>1, <2>2, Appended, Read
  <2> QED BY <2>1, <2>2, Read
<1> QED BY Zenon, <1>1, <1>2, <1>3, SeqEqual

\* Nothing sent is in order.
LEMMA EmptyInOrder ==
  ASSUME NEW s, DOMAIN s = {}, NEW n
  PROVE  InOrder(s) /\ LastAnswers(s, n)
BY DEF InOrder, LastAnswers

\* An answer that is read leaves the others in order.
LEMMA OrderAfterRead ==
  ASSUME NEW s \in Seq(Frames), s # <<>>, NEW n, InOrder(s), LastAnswers(s, n)
  PROVE  InOrder(Tail(s)) /\ LastAnswers(Tail(s), n)
<1>1. /\ Len(s) \in Nat \ {0} /\ DOMAIN s = 1..Len(s)
      /\ Len(Tail(s)) = Len(s) - 1 /\ DOMAIN Tail(s) = 1..(Len(s) - 1)
      /\ \A i \in 1..(Len(s) - 1) : Tail(s)[i] = s[i + 1]
  BY Read
<1>2. ASSUME NEW i \in DOMAIN Tail(s), NEW j \in DOMAIN Tail(s), i < j,
             IsAnswer(Tail(s)[i]), IsAnswer(Tail(s)[j]),
             \A k \in i + 1..j - 1 : ~IsAnswer(Tail(s)[k])
      PROVE  Follows(Tail(s)[i], Tail(s)[j])
  <2>1. /\ i + 1 \in DOMAIN s /\ j + 1 \in DOMAIN s /\ i + 1 < j + 1
        /\ Tail(s)[i] = s[i + 1] /\ Tail(s)[j] = s[j + 1]
    BY <1>1, <1>2
  <2>2. ASSUME NEW k \in (i + 1) + 1..(j + 1) - 1 PROVE ~IsAnswer(s[k])
    <3>1. k - 1 \in i + 1..j - 1 /\ k - 1 \in 1..(Len(s) - 1) /\ Tail(s)[k - 1] = s[k]
      BY <1>1, <1>2
    <3> QED BY Zenon, <1>2, <3>1
  <2> QED BY <1>2, <2>1, <2>2 DEF InOrder
<1>3. ASSUME NEW i \in DOMAIN Tail(s), IsAnswer(Tail(s)[i]),
             \A k \in i + 1..Len(Tail(s)) : ~IsAnswer(Tail(s)[k])
      PROVE  Tail(s)[i].n = n
  <2>1. i + 1 \in DOMAIN s /\ Tail(s)[i] = s[i + 1]
    BY <1>1, <1>3
  <2>2. ASSUME NEW k \in (i + 1) + 1..Len(s) PROVE ~IsAnswer(s[k])
    <3>1. k - 1 \in i + 1..Len(Tail(s)) /\ Tail(s)[k - 1] = s[k]
      BY <1>1, <1>3
    <3> QED BY <1>3, <3>1
  <2> QED BY <1>3, <2>1, <2>2 DEF LastAnswers
<1> QED BY Zenon, <1>2, <1>3 DEF InOrder, LastAnswers

\* A push leaves the answers in order.
LEMMA OrderAfterPush ==
  ASSUME NEW s \in Seq(Frames), NEW f \in Frames, ~IsAnswer(f), NEW n,
         InOrder(s), LastAnswers(s, n)
  PROVE  InOrder(Append(s, f)) /\ LastAnswers(Append(s, f), n)
<1> DEFINE t == Append(s, f)
<1>1. /\ Len(s) \in Nat /\ DOMAIN s = 1..Len(s) /\ Len(t) = Len(s) + 1
      /\ DOMAIN t = 1..(Len(s) + 1) /\ \A i \in 1..Len(s) : t[i] = s[i]
      /\ t[Len(s) + 1] = f
  BY Appended
<1> HIDE DEF t
<1>2. InOrder(t)
  BY <1>1 DEF InOrder
<1>3. LastAnswers(t, n)
  <2> SUFFICES ASSUME NEW i \in DOMAIN t, IsAnswer(t[i]),
                      \A k \in i + 1..Len(t) : ~IsAnswer(t[k])
               PROVE  t[i].n = n
    BY DEF LastAnswers
  <2>1. i \in DOMAIN s /\ t[i] = s[i]
    BY <1>1
  <2>2. \A k \in i + 1..Len(s) : ~IsAnswer(s[k])
    BY <1>1, <2>1
  <2> QED BY <2>1, <2>2 DEF LastAnswers
<1> QED BY <1>2, <1>3 DEF t

\* The answer to the next request comes after the others.
LEMMA OrderAfterAnswer ==
  ASSUME NEW s \in Seq(Frames), NEW f \in Frames, IsAnswer(f), NEW n,
         InOrder(s), LastAnswers(s, n), f.n = n + 1
  PROVE  InOrder(Append(s, f)) /\ LastAnswers(Append(s, f), f.n)
<1> DEFINE t == Append(s, f)
<1>1. /\ Len(s) \in Nat /\ DOMAIN s = 1..Len(s) /\ Len(t) = Len(s) + 1
      /\ DOMAIN t = 1..(Len(s) + 1) /\ \A i \in 1..Len(s) : t[i] = s[i]
      /\ t[Len(s) + 1] = f
  BY Appended
<1> HIDE DEF t
<1>2. ASSUME NEW i \in DOMAIN t, NEW j \in DOMAIN t, i < j, IsAnswer(t[i]), IsAnswer(t[j]),
             \A k \in i + 1..j - 1 : ~IsAnswer(t[k])
      PROVE  Follows(t[i], t[j])
  <2>1. CASE j = Len(s) + 1
    <3>1. i \in DOMAIN s /\ t[i] = s[i] /\ \A k \in i + 1..Len(s) : ~IsAnswer(s[k])
      BY <1>1, <1>2, <2>1
    <3>2. s[i].n = n
      BY <1>2, <3>1 DEF LastAnswers
    <3> QED BY <1>1, <2>1, <3>1, <3>2 DEF Follows
  <2>2. CASE j \in 1..Len(s)
    <3>1. i \in DOMAIN s /\ j \in DOMAIN s /\ t[i] = s[i] /\ t[j] = s[j]
      BY <1>1, <1>2, <2>2
    <3>2. \A k \in i + 1..j - 1 : ~IsAnswer(s[k])
      BY <1>1, <1>2, <2>2
    <3> QED BY <1>2, <3>1, <3>2 DEF InOrder
  <2> QED BY <1>1, <2>1, <2>2
<1>3. LastAnswers(t, f.n)
  BY <1>1 DEF LastAnswers
<1> QED BY <1>2, <1>3 DEF InOrder, t

\* The token of an auth request is sent twice.
LEMMA OrderAfterRepeat ==
  ASSUME NEW s \in Seq(Frames), NEW f \in Frames, f.kind = "auth", NEW n,
         InOrder(Append(s, f)), LastAnswers(Append(s, f), n)
  PROVE  InOrder(Append(Append(s, f), f)) /\ LastAnswers(Append(Append(s, f), f), n)
<1> DEFINE t == Append(s, f)  u == Append(t, f)
<1>1. /\ t \in Seq(Frames) /\ Len(s) \in Nat /\ Len(t) = Len(s) + 1 /\ DOMAIN t = 1..(Len(s) + 1)
      /\ t[Len(s) + 1] = f
  BY Appended
<1>2. /\ Len(u) = Len(s) + 2 /\ DOMAIN u = 1..(Len(s) + 2)
      /\ u[Len(s) + 2] = f /\ \A i \in 1..(Len(s) + 1) : u[i] = t[i]
  BY <1>1, Appended
<1> HIDE DEF t, u
<1>3. IsAnswer(f)
  BY DEF IsAnswer
<1>4. f.n = n
  BY <1>1, <1>3 DEF LastAnswers, t
<1>5. ASSUME NEW i \in DOMAIN u, NEW j \in DOMAIN u, i < j, IsAnswer(u[i]), IsAnswer(u[j]),
             \A k \in i + 1..j - 1 : ~IsAnswer(u[k])
      PROVE  Follows(u[i], u[j])
  <2>1. CASE j = Len(s) + 2
    <3>1. i = Len(s) + 1
      BY <1>1, <1>2, <1>3, <1>5, <2>1
    <3> QED BY <1>1, <1>2, <2>1, <3>1 DEF Follows
  <2>2. CASE j \in 1..(Len(s) + 1)
    <3>1. i \in DOMAIN t /\ j \in DOMAIN t /\ u[i] = t[i] /\ u[j] = t[j]
      BY <1>1, <1>2, <1>5, <2>2
    <3>2. \A k \in i + 1..j - 1 : ~IsAnswer(t[k])
      BY <1>1, <1>2, <1>5, <2>2
    <3> QED BY <1>5, <3>1, <3>2 DEF InOrder, t
  <2> QED BY <1>1, <1>2, <2>1, <2>2
<1>6. LastAnswers(u, n)
  BY <1>1, <1>2, <1>3, <1>4 DEF LastAnswers
<1> QED BY Zenon, <1>5, <1>6 DEF InOrder, t, u

\* A push before the answer that is about to be written.
LEMMA OrderAfterInsert ==
  ASSUME NEW s \in Seq(Frames), NEW f \in Frames, NEW p \in Frames, IsAnswer(f), ~IsAnswer(p), NEW n,
         InOrder(Append(s, f)), LastAnswers(Append(s, f), n)
  PROVE  InOrder(Append(Append(s, p), f)) /\ LastAnswers(Append(Append(s, p), f), n)
<1> DEFINE t == Append(s, f)  u == Append(Append(s, p), f)
<1>1. /\ Len(s) \in Nat /\ Len(t) = Len(s) + 1 /\ DOMAIN t = 1..(Len(s) + 1)
      /\ t[Len(s) + 1] = f /\ \A i \in 1..Len(s) : t[i] = s[i]
  BY Appended
<1>2. /\ Len(u) = Len(s) + 2 /\ DOMAIN u = 1..(Len(s) + 2) /\ u[Len(s) + 2] = f
      /\ u[Len(s) + 1] = p /\ \A i \in 1..Len(s) : u[i] = s[i]
  BY Appended
<1> HIDE DEF t, u
<1>3. f.n = n
  BY <1>1 DEF LastAnswers, t
<1>4. ASSUME NEW i \in DOMAIN u, NEW j \in DOMAIN u, i < j, IsAnswer(u[i]), IsAnswer(u[j]),
             \A k \in i + 1..j - 1 : ~IsAnswer(u[k])
      PROVE  Follows(u[i], u[j])
  <2>1. i \in 1..Len(s) /\ u[i] = t[i] /\ i \in DOMAIN t
    BY <1>1, <1>2, <1>4
  <2>2. CASE j = Len(s) + 2
    <3>1. \A k \in i + 1..(Len(s) + 1) - 1 : ~IsAnswer(t[k])
      BY <1>1, <1>2, <1>4, <2>2
    <3>2. Len(s) + 1 \in DOMAIN t /\ i < Len(s) + 1 /\ IsAnswer(t[Len(s) + 1]) /\ IsAnswer(t[i])
      BY <1>1, <1>4, <2>1
    <3>3. Follows(t[i], t[Len(s) + 1])
      BY <2>1, <3>1, <3>2 DEF InOrder, t
    <3> QED BY <1>1, <1>2, <2>1, <2>2, <3>3
  <2>3. CASE j \in 1..Len(s)
    <3>1. j \in DOMAIN t /\ u[j] = t[j] /\ \A k \in i + 1..j - 1 : ~IsAnswer(t[k])
      BY <1>1, <1>2, <1>4, <2>3
    <3> QED BY Zenon, <1>4, <2>1, <3>1 DEF InOrder, t
  <2> QED BY <1>1, <1>2, <1>4, <2>2, <2>3
<1>5. LastAnswers(u, n)
  BY <1>1, <1>2, <1>3 DEF LastAnswers
<1> QED BY Zenon, <1>4, <1>5 DEF InOrder, t, u

-----------------------------------------------------------------------------
(* Types                                                                   *)

\* The labels at which a connection thread writes an answer, and the others.
LEMMA Labels ==
  /\ WritingLabels = {"auth", "write", "answer", "subscribed"}
  /\ \A l \in {"none", "read", "end", "cleanup"} : l \notin WritingLabels
BY DEF WritingLabels

\* The streams to the clients after a write to one of them.
LEMMA SentTypes ==
  ASSUME s2c \in [Clients -> Seq(Frames)], NEW c \in Clients, NEW f \in Frames
  PROVE  Sent(c, f) \in [Clients -> Seq(Frames)]
<1>1. Append(s2c[c], f) \in Seq(Frames)
  BY Zenon, Appended
<1> QED BY <1>1 DEF Sent

\* A request that is sent has the types.
LEMMA SendTypes ==
  ASSUME IpcTypeOK, NEW c \in Clients, NEW m, NEW a, NEW tok \in Tokens, NEW pc \in {"wait", "auth"},
         SendFrame(c, m, a, tok, pc),
         \/ m \in Methods /\ a \in Args(m)
         \/ m = "AUTH_REQUEST" /\ a \in AskedRoles
  PROVE  IpcTypeOK'
<1> DEFINE r == [m |-> m, a |-> a, tok |-> tok, n |-> calls'[c]]
<1>1. calls' \in [Clients -> Nat] /\ calls'[c] \in Nat
  BY DEF IpcTypeOK, SendFrame
<1>2. a \in IPs \cup Signals \cup AskedRoles \cup {"some", None}
  BY DEF Args
<1>3. m = "AUTH_REQUEST" => m \notin Methods
  BY DEF Methods, ConfigMethods, ReadMethods, QueueMethods, DebugMethods, SwapMethods,
         BreakpointMethods, InspectMethods, QueryMethods, SubscriptionMethods
<1>4. r \in Requests
  BY <1>1, <1>2, <1>3 DEF Requests
<1>5. Append(c2s[c], r) \in Seq(Requests)
  BY <1>4, Appended DEF IpcTypeOK
<1>6. c2s' \in [Clients -> Seq(Requests)]
  BY <1>5 DEF SendFrame, IpcTypeOK
<1>7. cpc' \in [Clients -> {"new", "idle", "wait", "auth", "closed"}]
  BY DEF SendFrame, IpcTypeOK
<1>8. UNCHANGED <<uid, session_token, s2c, serverVars, subsVars, pushVars, engineVars>>
  BY Zenon DEF SendFrame
<1> QED BY Zenon, <1>1, <1>6, <1>7, <1>8 DEF IpcTypeOK, serverVars, subsVars, pushVars, engineVars

\* The client library keeps the types.
LEMMA ClientTypes ==
  ASSUME IpcTypeOK, NEW c \in Clients, ClientStep(c)
  PROVE  IpcTypeOK'
<1>1. CASE Connect(c)
  BY Zenon, <1>1 DEF Connect, IpcTypeOK, serverVars, subsVars, pushVars, engineVars
<1>2. CASE Authenticate(c)
  BY <1>2, SendTypes DEF Authenticate, Tokens
<1>3. CASE SendRequest(c)
  BY Zenon, <1>3, SendTypes DEF SendRequest, IpcTypeOK
<1>4. CASE Receive(c)
  <2>1. Tail(s2c[c]) \in Seq(Frames) /\ Head(s2c[c]) \in Frames
    BY <1>4, Read DEF Receive, IpcTypeOK
  <2>2. CachedToken(c, Head(s2c[c])) \in Tokens
    BY <2>1 DEF Frames, CachedToken, IpcTypeOK
  <2> QED BY <1>4, <2>1, <2>2 DEF Receive, IpcTypeOK, serverVars, subsVars, pushVars, engineVars
<1>5. CASE ReadRaw(c)
  <2>1. Tail(s2c[c]) \in Seq(Frames)
    BY <1>5, Read DEF ReadRaw, IpcTypeOK
  <2> QED BY <1>5, <2>1 DEF ReadRaw, IpcTypeOK, clientVars, serverVars, subsVars, pushVars, engineVars
<1>6. CASE ReadTimeout(c)
  BY <1>6 DEF ReadTimeout, IpcTypeOK, serverVars, subsVars, pushVars, engineVars
<1>7. CASE Close(c)
  <2>1. <<>> \in Seq(Frames)
    BY EmptySeq
  <2> QED BY <1>7, <2>1 DEF Close, IpcTypeOK, serverVars, subsVars, pushVars, engineVars
<1> QED BY <1>1, <1>2, <1>3, <1>4, <1>5, <1>6, <1>7 DEF ClientStep

\* What TakeAnd does to a connection.
LEMMA Takes ==
  ASSUME IpcTypeOK, NEW c \in Clients, NEW pc, TakeAnd(c, pc)
  PROVE  /\ spc[c] = "read" /\ c2s[c] # <<>> /\ Request(c) \in Requests /\ Request(c) = c2s[c][1]
         /\ c2s' = [c2s EXCEPT ![c] = Tail(@)] /\ Tail(c2s[c]) \in Seq(Requests)
         /\ c2s' \in [Clients -> Seq(Requests)]
         /\ Frame("reply", Request(c).n, None) \in Frames
         /\ out' = [out EXCEPT ![c] = Frame("reply", Request(c).n, None)]
         /\ out' \in [Clients -> Frames \cup {None}]
         /\ spc' = [spc EXCEPT ![c] = pc]
         /\ \A d \in Clients : spc'[d] \in WritingLabels => out'[d] \in Frames
         /\ UNCHANGED <<uid, cpc, calls, session_token, s2c, accepting, next_sid, epc, todo>>
<1>1. Request(c) \in Requests /\ Tail(c2s[c]) \in Seq(Requests) /\ Request(c) = c2s[c][1]
  BY Read DEF TakeAnd, Request, IpcTypeOK
<1>2. Frame("reply", Request(c).n, None) \in Frames
  BY <1>1 DEF Requests, Frame, Frames, Tokens
<1> QED BY <1>1, <1>2 DEF TakeAnd, IpcTypeOK, clientVars, pushVars

\* A served or refused request leaves the types if what it does to the engine and to the
\* subscriptions does.
LEMMA TakeTypes ==
  ASSUME IpcTypeOK, NEW c \in Clients, NEW pc \in {"write", "answer", "subscribed"}, TakeAnd(c, pc),
         session' \in [Clients -> Tokens], expired' \in [Clients -> BOOLEAN],
         subs' \subseteq Subscriptions, subs_lock' \in Clients \cup {None, "engine"},
         paused' \in BOOLEAN, step_requested' \in BOOLEAN, prepared' \in BOOLEAN,
         swap_committed' \in BOOLEAN, loaded' \in BOOLEAN, breakpoints' \subseteq IPs
  PROVE  IpcTypeOK'
<1>1. spc' \in [Clients -> {"none", "read", "end", "cleanup"} \cup WritingLabels]
  <2>1. pc \in WritingLabels
    BY Labels
  <2>2. spc' = [spc EXCEPT ![c] = pc]
    BY Takes
  <2> QED BY <2>1, <2>2 DEF IpcTypeOK
<1>2. /\ c2s' \in [Clients -> Seq(Requests)] /\ out' \in [Clients -> Frames \cup {None}]
      /\ \A d \in Clients : spc'[d] \in WritingLabels => out'[d] \in Frames
      /\ UNCHANGED <<uid, cpc, calls, session_token, s2c, accepting, next_sid, epc, todo>>
  BY Takes
<1> QED BY Zenon, <1>1, <1>2 DEF IpcTypeOK

\* The connection threads keep the types.
LEMMA ServerTypes ==
  ASSUME IpcTypeOK, NEW c \in Clients, ServerStep(c)
  PROVE  IpcTypeOK'
<1> USE DEF subsVars, engineVars, Dispatch, Serve
<1>1. CASE EndOfFile(c)
  BY <1>1, Labels DEF EndOfFile, IpcTypeOK, clientVars, pushVars
<1>2. CASE RefuseToken(c)
  BY Zenon, <1>2, TakeTypes DEF RefuseToken, IpcTypeOK
<1>3. CASE ExpiresMeanwhile(c)
  BY Zenon, <1>3, TakeTypes DEF ExpiresMeanwhile, IpcTypeOK, Tokens
<1>4. CASE Refuse(c)
  BY Zenon, <1>4, TakeTypes DEF Refuse, IpcTypeOK
<1>5. CASE AuthRequest(c)
  <2>1. Request(c) \in Requests /\ Tail(c2s[c]) \in Seq(Requests)
    BY Zenon, <1>5, Read DEF AuthRequest, Request, IpcTypeOK
  <2>2. c2s' \in [Clients -> Seq(Requests)]
    BY <1>5, <2>1 DEF AuthRequest, IpcTypeOK
  <2>3. Request(c).n \in Nat
    BY <2>1 DEF Requests
  <2>4. CASE AuthGranted(c)
    <3> DEFINE sess == [sid |-> next_sid[c], role |-> Request(c).a]
    <3>1. sess \in Tokens
      BY <2>4 DEF IpcTypeOK, AuthGranted, SessionInfos, Tokens
    <3>2. Frame("auth", Request(c).n, sess) \in Frames
      BY Zenon, <2>3, <3>1 DEF Frame, Frames
    <3>3. /\ session' = [session EXCEPT ![c] = sess] /\ next_sid' = [next_sid EXCEPT ![c] = @ + 1]
          /\ expired' = [expired EXCEPT ![c] = FALSE] /\ spc' = [spc EXCEPT ![c] = "auth"]
          /\ out' = [out EXCEPT ![c] = Frame("auth", Request(c).n, sess)]
          /\ UNCHANGED <<uid, clientVars, s2c, accepting, subsVars, pushVars, engineVars>>
      BY <1>5, <2>4 DEF AuthRequest
    <3> HIDE DEF sess
    <3> QED BY <2>2, <3>1, <3>2, <3>3, Labels DEF IpcTypeOK, clientVars, pushVars
  <2>5. CASE ~AuthGranted(c)
    <3>1. Frame("reply", Request(c).n, None) \in Frames
      BY Zenon, <2>3 DEF Frame, Frames, Tokens
    <3>2. /\ out' = [out EXCEPT ![c] = Frame("reply", Request(c).n, None)]
          /\ spc' = [spc EXCEPT ![c] = "answer"]
          /\ UNCHANGED <<session, next_sid, expired>>
          /\ UNCHANGED <<uid, clientVars, s2c, accepting, subsVars, pushVars, engineVars>>
      BY Zenon, <1>5, <2>5 DEF AuthRequest
    <3> QED BY Zenon, <2>2, <3>1, <3>2, Labels DEF IpcTypeOK, clientVars, pushVars
  <2> QED BY <2>4, <2>5
<1>6. CASE Answer(c)
  BY Zenon, <1>6, TakeTypes DEF Answer, IpcTypeOK
<1>7. CASE LoadProgram(c)
  BY Zenon, <1>7, TakeTypes DEF LoadProgram, IpcTypeOK
<1>8. CASE DebugControl(c)
  BY Zenon, <1>8, TakeTypes DEF DebugControl, IpcTypeOK
<1>9. CASE Swap(c)
  <2>1. prepared' \in BOOLEAN /\ swap_committed' \in BOOLEAN
    BY Zenon, <1>9 DEF Swap, SwapMethods, IpcTypeOK
  <2> QED BY Zenon, <1>9, <2>1, TakeTypes DEF Swap, IpcTypeOK
<1>10. CASE Breakpoint(c)
  <2>1. Request(c).a \in IPs
    <3>1. Request(c) \in Requests /\ Request(c).m \in BreakpointMethods /\ Request(c).a # None
      BY Zenon, <1>10, Takes DEF Breakpoint
    <3>2. Request(c).m # "AUTH_REQUEST" /\ Request(c).a \in Args(Request(c).m)
      BY <3>1 DEF Requests, BreakpointMethods
    <3> QED BY <3>1, <3>2 DEF Args, BreakpointMethods, SubscriptionMethods
  <2> QED BY Zenon, <1>10, <2>1, TakeTypes DEF Breakpoint, IpcTypeOK
<1>11. CASE Inspect(c)
  BY Zenon, <1>11, TakeTypes DEF Inspect, IpcTypeOK
<1>12. CASE Subscribe(c)
  <2>1. Request(c).a \in Signals
    <3>1. Request(c) \in Requests /\ Request(c).m = "SUBSCRIBE_SIGNAL" /\ Request(c).a # None
      BY <1>12, Takes DEF Subscribe
    <3> QED BY <3>1 DEF Requests, Args, BreakpointMethods, SubscriptionMethods
  <2>2. session[c] # None
    BY Zenon, <1>12, RolesAssumption DEF Subscribe, Allowed, RoleOf, ConfigRoles, WriteRoles, AllRoles,
       ConfigMethods, QueueMethods, DebugMethods, SwapMethods, BreakpointMethods
  <2>3. [s |-> Request(c).a, sid |-> session[c].sid, c |-> c] \in Subscriptions
    BY Zenon, <2>1, <2>2 DEF IpcTypeOK, Tokens, SessionInfos, Subscriptions
  <2> QED BY Zenon, <1>12, <2>3, TakeTypes DEF Subscribe, IpcTypeOK
<1>13. CASE Unsubscribe(c)
  BY Zenon, <1>13, TakeTypes DEF Unsubscribe, IpcTypeOK
<1>14. CASE WriteAnswer(c)
  <2>1. Sent(c, out[c]) \in [Clients -> Seq(Frames)]
    BY Zenon, <1>14, SentTypes DEF WriteAnswer, IpcTypeOK
  <2>2. AfterWrite(c) \in {"read", "answer", "cleanup"}
    BY Zenon DEF AfterWrite
  <2>3. AfterWrite(c) \in WritingLabels => spc[c] = "auth" /\ out'[c] = out[c]
    BY <1>14, Labels DEF AfterWrite, WriteAnswer, IpcTypeOK
  <2>4. AfterWrite(c) \in {"none", "read", "end", "cleanup"} \cup WritingLabels
    BY Zenon, <2>2, Labels
  <2> HIDE DEF Dispatch, Serve
  <2> QED BY Zenon, <1>14, <2>1, <2>3, <2>4 DEF WriteAnswer, IpcTypeOK, clientVars, pushVars
<1>15. CASE Cleanup(c)
  BY Zenon, <1>15, Labels DEF Cleanup, IpcTypeOK, clientVars, pushVars
<1> QED BY <1>1, <1>2, <1>3, <1>4, <1>5, <1>6, <1>7, <1>8, <1>9, <1>10, <1>11, <1>12, <1>13,
           <1>14, <1>15 DEF ServerStep

\* The accept loop, the clock and the cycle keep the types.
LEMMA OtherTypes ==
  ASSUME IpcTypeOK,
         (\E c \in Clients : Accept(c) \/ Expire(c)) \/ StopServer \/ EngineStep \/ UNCHANGED ipcVars
  PROVE  IpcTypeOK'
<1> USE DEF clientVars, serverVars, subsVars, pushVars, engineVars
<1>1. ASSUME NEW c \in Clients, Accept(c) PROVE IpcTypeOK'
  BY Zenon, <1>1 DEF Accept, IpcTypeOK, WritingLabels
<1>2. ASSUME NEW c \in Clients, Expire(c) PROVE IpcTypeOK'
  BY Zenon, <1>2 DEF Expire, IpcTypeOK
<1>3. CASE StopServer
  BY Zenon, <1>3 DEF StopServer, IpcTypeOK
<1>4. CASE Boundary
  BY Zenon, <1>4 DEF Boundary, IpcTypeOK
<1>5. CASE PushLock
  BY Zenon, <1>5 DEF PushLock, IpcTypeOK
<1>6. ASSUME NEW e \in todo, PushOne(e) PROVE IpcTypeOK'
  <2>1. e \in Subscriptions /\ e.c \in Clients
    BY DEF IpcTypeOK, Subscriptions
  <2>2. Push \in Frames
    BY Zenon DEF Push, Frame, Frames, Tokens
  <2>3. Sent(e.c, Push) \in [Clients -> Seq(Frames)]
    BY Zenon, <2>1, <2>2, SentTypes DEF IpcTypeOK
  <2> QED BY <1>6, <2>3 DEF PushOne, IpcTypeOK
<1>7. CASE PushDone
  BY Zenon, <1>7 DEF PushDone, IpcTypeOK
<1>8. CASE UNCHANGED ipcVars
  BY <1>8 DEF ipcVars, IpcTypeOK
<1> QED BY <1>1, <1>2, <1>3, <1>4, <1>5, <1>6, <1>7, <1>8 DEF EngineStep

\* Every step of the server, its clients and the engine keeps the types.
LEMMA IpcTypeStep == IpcTypeOK /\ [IpcNext]_ipcVars => IpcTypeOK'
  BY ClientTypes, ServerTypes, OtherTypes DEF IpcNext

\* Before the first connection the types hold.
LEMMA IpcTypeInit == IpcInit => IpcTypeOK
<1>1. <<>> \in Seq(Requests) /\ <<>> \in Seq(Frames) /\ None \in Tokens
  BY EmptySeq DEF Tokens
<1> SUFFICES ASSUME IpcInit PROVE IpcTypeOK
  OBVIOUS
<1>2. /\ cpc \in [Clients -> {"new", "idle", "wait", "auth", "closed"}]
      /\ spc \in [Clients -> {"none", "read", "end", "cleanup"} \cup WritingLabels]
      /\ calls \in [Clients -> Nat] /\ next_sid \in [Clients -> Nat]
      /\ expired \in [Clients -> BOOLEAN] /\ out \in [Clients -> Frames \cup {None}]
  BY DEF IpcInit
<1>3. /\ session_token \in [Clients -> Tokens] /\ session \in [Clients -> Tokens]
      /\ c2s \in [Clients -> Seq(Requests)] /\ s2c \in [Clients -> Seq(Frames)]
  BY <1>1 DEF IpcInit
<1>4. \A c \in Clients : spc[c] \notin WritingLabels
  BY Labels DEF IpcInit
<1> QED BY Zenon, <1>2, <1>3, <1>4 DEF IpcInit, IpcTypeOK

-----------------------------------------------------------------------------
(* Answers                                                                 *)

\* What the answers of one connection depend on.
Stream(c) == <<cpc[c], calls[c], c2s[c], s2c[c], spc[c], out[c]>>

\* The part of Numbered and AnswersInOrder that is about one connection.
StreamOK(c) ==
  /\ \A i \in 1..Len(c2s[c]) : c2s[c][i].n = calls[c] - Len(c2s[c]) + i
  /\ spc[c] \in WritingLabels => IsAnswer(out[c])
  /\ spc[c] = "auth" => out[c].kind = "auth"
  /\ cpc[c] = "closed" => s2c[c] = <<>>
  /\ InOrder(Unread(c)) /\ LastAnswers(Unread(c), calls[c] - Len(c2s[c]))

\* The two invariants are about one connection at a time.
LEMMA StreamsOK == Numbered /\ AnswersInOrder <=> \A c \in Clients : StreamOK(c)
BY DEF Numbered, AnswersInOrder, StreamOK

\* A step that leaves a connection alone leaves its answers in order.
LEMMA StreamKept ==
  ASSUME NEW c \in Clients, StreamOK(c), Stream(c)' = Stream(c)
  PROVE  StreamOK(c)'
BY DEF StreamOK, Stream, Unread

\* A request that is sent is on the connection of its client only.
LEMMA SendElsewhere ==
  ASSUME IpcTypeOK, NEW c \in Clients, NEW m, NEW a, NEW tok, NEW pc, SendFrame(c, m, a, tok, pc)
  PROVE  \A d \in Clients \ {c} : Stream(d)' = Stream(d)
BY DEF SendFrame, Stream, IpcTypeOK, serverVars

\* An auth request that is answered changes its own connection only.
LEMMA AuthElsewhere ==
  ASSUME IpcTypeOK, NEW c \in Clients, AuthRequest(c)
  PROVE  \A d \in Clients \ {c} : Stream(d)' = Stream(d)
<1>1. ASSUME NEW d \in Clients \ {c}
      PROVE  c2s'[d] = c2s[d] /\ spc'[d] = spc[d] /\ out'[d] = out[d]
  BY <1>1 DEF AuthRequest, IpcTypeOK
<1>2. UNCHANGED <<cpc, calls, s2c>>
  BY Zenon DEF AuthRequest, clientVars
<1> QED BY Zenon, <1>1, <1>2 DEF Stream

\* What is on its way to a client is frames.
LEMMA UnreadTypes == ASSUME IpcTypeOK, NEW c \in Clients PROVE Unread(c) \in Seq(Frames)
BY Zenon, Appended DEF Unread, IpcTypeOK

\* The requests of a stream are numbered up to k.
NumberedTo(s, k) == \A i \in 1..Len(s) : s[i].n = k - Len(s) + i

\* They are numbered up to k + 1 with request k + 1.
LEMMA NumbersAfterSend ==
  ASSUME NEW s \in Seq(Requests), NEW k \in Nat, NumberedTo(s, k), NEW r, r.n = k + 1,
         Append(s, r) \in Seq(Requests)
  PROVE  NumberedTo(Append(s, r), k + 1) /\ (k + 1) - Len(Append(s, r)) = k - Len(s)
<1> DEFINE t == Append(s, r)
<1>1. /\ Len(s) \in Nat /\ Len(t) = Len(s) + 1
      /\ \A i \in 1..Len(s) : t[i] = s[i]
      /\ t[Len(s) + 1] = r
  BY AppendedTo
<1> SUFFICES NumberedTo(t, k + 1) /\ (k + 1) - Len(t) = k - Len(s)
  OBVIOUS
<1> HIDE DEF t
<1>2. ASSUME NEW i \in 1..Len(t) PROVE t[i].n = (k + 1) - Len(t) + i
  <2>1. CASE i \in 1..Len(s)
    BY <1>1, <2>1 DEF NumberedTo
  <2>2. CASE i = Len(s) + 1
    BY <1>1, <2>2
  <2> QED BY <1>1, <2>1, <2>2
<1> QED BY <1>1, <1>2 DEF NumberedTo

\* The client: a request goes to the end of its stream, with the next number.
LEMMA SendKeepsOrder ==
  ASSUME IpcTypeOK, NEW c \in Clients, StreamOK(c), NEW m, NEW a, NEW tok, NEW pc \in {"wait", "auth"},
         SendFrame(c, m, a, tok, pc), IpcTypeOK'
  PROVE  StreamOK(c)'
<1> DEFINE r == [m |-> m, a |-> a, tok |-> tok, n |-> calls'[c]]
<1>1. /\ calls'[c] = calls[c] + 1 /\ calls[c] \in Nat /\ c2s'[c] = Append(c2s[c], r)
      /\ cpc'[c] = pc /\ spc' = spc /\ out' = out /\ s2c' = s2c
  BY DEF SendFrame, IpcTypeOK, serverVars
<1>2. c2s[c] \in Seq(Requests) /\ c2s'[c] \in Seq(Requests)
  BY Zenon DEF IpcTypeOK
<1>3. r.n = calls[c] + 1
  BY <1>1
<1> HIDE DEF r
<1>4. NumberedTo(c2s[c], calls[c])
  BY Zenon DEF StreamOK, NumberedTo
<1>5. NumberedTo(c2s'[c], calls'[c]) /\ calls'[c] - Len(c2s'[c]) = calls[c] - Len(c2s[c])
  <2>1. Append(c2s[c], r) \in Seq(Requests)
    BY Zenon, <1>1, <1>2
  <2>2. /\ NumberedTo(Append(c2s[c], r), calls[c] + 1)
        /\ (calls[c] + 1) - Len(Append(c2s[c], r)) = calls[c] - Len(c2s[c])
    BY Zenon, <1>1, <1>2, <1>3, <1>4, <2>1, NumbersAfterSend
  <2> QED BY Zenon, <1>1, <2>2
<1>6. Unread(c)' = Unread(c)
  BY Zenon, <1>1 DEF Unread
<1> QED BY Zenon, <1>1, <1>5, <1>6 DEF StreamOK, NumberedTo

\* A client that connects or times out sends and reads nothing.
LEMMA WaitKeepsOrder ==
  ASSUME IpcTypeOK, NEW c \in Clients, StreamOK(c), Connect(c) \/ ReadTimeout(c)
  PROVE  StreamOK(c)'
<1>1. cpc'[c] # "closed" /\ UNCHANGED <<calls, c2s, s2c, spc, out>>
  BY DEF Connect, ReadTimeout, IpcTypeOK, clientVars, serverVars
<1>2. Unread(c)' = Unread(c)
  BY Zenon, <1>1 DEF Unread
<1> QED BY Zenon, <1>1, <1>2 DEF StreamOK

\* A frame that is read, or lost with its client, leaves the others in order.
LEMMA ReadKeepsOrder ==
  ASSUME IpcTypeOK, NEW c \in Clients, StreamOK(c), s2c[c] # <<>>, s2c'[c] = Tail(s2c[c]),
         cpc[c] # "closed", cpc'[c] # "closed", calls'[c] = calls[c], c2s'[c] = c2s[c],
         spc'[c] = spc[c], out'[c] = out[c]
  PROVE  StreamOK(c)'
<1>1. Unread(c) \in Seq(Frames) /\ s2c[c] \in Seq(Frames)
  BY UnreadTypes DEF IpcTypeOK
<1>2. Unread(c)' = Tail(Unread(c)) /\ Unread(c) # <<>>
  <2>1. CASE spc[c] \in WritingLabels
    <3>1. out[c] \in Frames
      BY <2>1 DEF IpcTypeOK
    <3>2. Tail(Append(s2c[c], out[c])) = Append(Tail(s2c[c]), out[c]) /\ Append(s2c[c], out[c]) # <<>>
      BY <1>1, <3>1, TailOfAppend
    <3> QED BY <2>1, <3>2 DEF Unread
  <2>2. CASE spc[c] \notin WritingLabels
    BY Zenon, <2>2 DEF Unread
  <2> QED BY <2>1, <2>2
<1>3. InOrder(Unread(c)') /\ LastAnswers(Unread(c)', calls[c] - Len(c2s[c]))
  BY Zenon, <1>1, <1>2, OrderAfterRead DEF StreamOK
<1> QED BY <1>3 DEF StreamOK

\* A client that is dropped leaves what the thread is about to write.
LEMMA CloseKeepsOrder ==
  ASSUME IpcTypeOK, NEW c \in Clients, StreamOK(c), Close(c)
  PROVE  StreamOK(c)'
<1> DEFINE n == calls[c] - Len(c2s[c])
<1>1. s2c'[c] = <<>> /\ UNCHANGED <<calls, c2s, spc, out>>
  BY DEF Close, IpcTypeOK, serverVars
<1>2. s2c[c] \in Seq(Frames)
  BY DEF IpcTypeOK
<1>3. InOrder(Unread(c)') /\ LastAnswers(Unread(c)', n)
  <2>1. CASE spc[c] \in WritingLabels
    <3>1. out[c] \in Frames /\ IsAnswer(out[c])
      BY <2>1 DEF IpcTypeOK, StreamOK
    <3>2. Unread(c) = Append(s2c[c], out[c]) /\ Unread(c)' = Append(<<>>, out[c])
      BY Zenon, <1>1, <2>1 DEF Unread
    <3>3. /\ Len(Unread(c)) = Len(s2c[c]) + 1 /\ DOMAIN Unread(c) = 1..(Len(s2c[c]) + 1)
          /\ Unread(c)[Len(s2c[c]) + 1] = out[c] /\ Len(s2c[c]) \in Nat
      BY <1>2, <3>1, <3>2, Appended
    <3>4. out[c].n = n
      BY <3>1, <3>3 DEF StreamOK, LastAnswers
    <3>5. /\ <<>> \in Seq(Frames) /\ Len(<<>>) = 0 /\ DOMAIN Unread(c)' = 1..1
          /\ Len(Unread(c)') = 1 /\ Unread(c)'[1] = out[c]
      BY <3>1, <3>2, EmptySeq, Appended
    <3> QED BY <3>4, <3>5 DEF InOrder, LastAnswers
  <2>2. CASE spc[c] \notin WritingLabels
    <3>1. Unread(c)' = <<>> /\ DOMAIN Unread(c)' = {}
      BY <1>1, <2>2 DEF Unread
    <3> QED BY Zenon, <3>1, EmptyInOrder
  <2> QED BY Zenon, <2>1, <2>2
<1> QED BY <1>1, <1>3 DEF StreamOK

\* The thread takes the first request and has its answer ready.
LEMMA TakeKeepsOrder ==
  ASSUME IpcTypeOK, NEW c \in Clients, StreamOK(c), spc[c] = "read", c2s[c] # <<>>,
         c2s'[c] = Tail(c2s[c]), out'[c] \in Frames, IsAnswer(out'[c]), out'[c].n = Request(c).n,
         spc'[c] \in WritingLabels, spc'[c] = "auth" => out'[c].kind = "auth",
         UNCHANGED <<cpc, calls, s2c>>
  PROVE  StreamOK(c)'
<1> DEFINE n == calls[c] - Len(c2s[c])
<1>1. /\ Len(c2s[c]) \in Nat \ {0} /\ Len(c2s'[c]) = Len(c2s[c]) - 1 /\ Request(c) = c2s[c][1]
      /\ \A i \in 1..(Len(c2s[c]) - 1) : c2s'[c][i] = c2s[c][i + 1]
  BY Read DEF IpcTypeOK, Request
<1>2. calls[c] \in Nat /\ s2c[c] \in Seq(Frames)
  BY DEF IpcTypeOK
<1>3. out'[c].n = n + 1 /\ calls'[c] - Len(c2s'[c]) = n + 1
  BY <1>1, <1>2 DEF StreamOK
<1>4. ASSUME NEW i \in 1..Len(c2s'[c]) PROVE c2s'[c][i].n = calls'[c] - Len(c2s'[c]) + i
  <2>1. i + 1 \in 1..Len(c2s[c]) /\ c2s'[c][i] = c2s[c][i + 1]
    BY <1>1
  <2>2. c2s[c][i + 1].n = n + (i + 1)
    BY <2>1 DEF StreamOK
  <2> QED BY <1>1, <1>2, <1>3, <2>1, <2>2
<1>5. Unread(c) = s2c[c] /\ Unread(c)' = Append(s2c[c], out'[c])
  BY Zenon, Labels DEF Unread
<1>6. InOrder(Unread(c)') /\ LastAnswers(Unread(c)', n + 1)
  BY <1>2, <1>3, <1>5, OrderAfterAnswer DEF StreamOK
<1> QED BY Zenon, <1>3, <1>4, <1>6 DEF StreamOK

\* The answer is written: to the client, or to nobody when the client has gone.
LEMMA WriteKeepsOrder ==
  ASSUME IpcTypeOK, NEW c \in Clients, StreamOK(c), WriteAnswer(c)
  PROVE  StreamOK(c)'
<1> DEFINE n == calls[c] - Len(c2s[c])
<1>1. /\ spc[c] \in WritingLabels /\ out[c] \in Frames /\ IsAnswer(out[c]) /\ s2c[c] \in Seq(Frames)
      /\ spc'[c] = AfterWrite(c) /\ UNCHANGED <<cpc, calls, c2s>>
      /\ s2c'[c] = IF cpc[c] = "closed" THEN s2c[c] ELSE Append(s2c[c], out[c])
  BY Zenon DEF WriteAnswer, IpcTypeOK, StreamOK, Sent, clientVars
<1>2. Unread(c) = Append(s2c[c], out[c])
  BY Zenon, <1>1 DEF Unread
<1>3. CASE spc[c] = "auth"
  <2>1. spc'[c] = "answer" /\ out'[c] = out[c] /\ out[c].kind = "auth"
    <3>1. AfterWrite(c) = "answer"
      BY <1>3 DEF AfterWrite
    <3>2. out'[c] = out[c]
      BY Zenon, <1>3 DEF WriteAnswer, IpcTypeOK
    <3> QED BY <1>1, <1>3, <3>1, <3>2 DEF StreamOK
  <2>2. CASE cpc[c] = "closed"
    <3>1. Unread(c)' = Unread(c)
      BY Zenon, <1>1, <1>2, <2>1, <2>2, Labels DEF Unread
    <3> QED BY Zenon, <1>1, <2>1, <2>2, <3>1 DEF StreamOK
  <2>3. CASE cpc[c] # "closed"
    <3>1. Unread(c)' = Append(Unread(c), out[c])
      BY Zenon, <1>1, <1>2, <2>1, <2>3, Labels DEF Unread
    <3>2. InOrder(Unread(c)') /\ LastAnswers(Unread(c)', n)
      BY Zenon, <1>1, <1>2, <2>1, <3>1, OrderAfterRepeat DEF StreamOK
    <3> QED BY Zenon, <1>1, <2>1, <2>3, <3>2 DEF StreamOK
  <2> QED BY Zenon, <2>2, <2>3
<1>4. CASE spc[c] # "auth"
  <2>1. spc'[c] \notin WritingLabels /\ spc'[c] # "auth"
    BY Zenon, <1>1, <1>4, Labels DEF AfterWrite
  <2>2. CASE cpc[c] = "closed"
    <3>1. Unread(c)' = <<>> /\ DOMAIN Unread(c)' = {}
      BY <1>1, <2>1, <2>2 DEF Unread, StreamOK
    <3>2. InOrder(Unread(c)') /\ LastAnswers(Unread(c)', n)
      BY Zenon, <3>1, EmptyInOrder
    <3> QED BY Zenon, <1>1, <2>1, <2>2, <3>2 DEF StreamOK
  <2>3. CASE cpc[c] # "closed"
    <3>1. Unread(c)' = Unread(c)
      BY Zenon, <1>1, <1>2, <2>1, <2>3 DEF Unread
    <3> QED BY Zenon, <1>1, <2>1, <2>3, <3>1 DEF StreamOK
  <2> QED BY <2>2, <2>3
<1> QED BY Zenon, <1>3, <1>4

\* A push goes to the end of what was sent, before the answer about to be written.
LEMMA PushKeepsOrder ==
  ASSUME IpcTypeOK, NEW c \in Clients, StreamOK(c), cpc[c] # "closed",
         s2c'[c] = Append(s2c[c], Push), UNCHANGED <<cpc, calls, c2s, spc, out>>
  PROVE  StreamOK(c)'
<1> DEFINE n == calls[c] - Len(c2s[c])
<1>1. Push \in Frames /\ ~IsAnswer(Push) /\ s2c[c] \in Seq(Frames)
  BY Zenon DEF Push, Frame, Frames, Tokens, IsAnswer, IpcTypeOK
<1>2. CASE spc[c] \in WritingLabels
  <2>1. out[c] \in Frames /\ IsAnswer(out[c])
    BY <1>2 DEF IpcTypeOK, StreamOK
  <2>2. Unread(c) = Append(s2c[c], out[c]) /\ Unread(c)' = Append(Append(s2c[c], Push), out[c])
    BY Zenon, <1>2 DEF Unread
  <2>3. InOrder(Unread(c)') /\ LastAnswers(Unread(c)', n)
    BY Zenon, <1>1, <2>1, <2>2, OrderAfterInsert DEF StreamOK
  <2> QED BY Zenon, <2>3 DEF StreamOK
<1>3. CASE spc[c] \notin WritingLabels
  <2>1. Unread(c) = s2c[c] /\ Unread(c)' = Append(s2c[c], Push)
    BY Zenon, <1>3 DEF Unread
  <2>2. InOrder(Unread(c)') /\ LastAnswers(Unread(c)', n)
    BY Zenon, <1>1, <2>1, OrderAfterPush DEF StreamOK
  <2> QED BY Zenon, <2>2 DEF StreamOK
<1> QED BY Zenon, <1>2, <1>3

\* Every request but a first auth request is read by TakeAnd, whatever comes of it.
LEMMA ServeTakes ==
  ASSUME NEW c,
         \/ RefuseToken(c) \/ ExpiresMeanwhile(c) \/ Refuse(c) \/ Answer(c) \/ LoadProgram(c)
         \/ DebugControl(c) \/ Swap(c) \/ Breakpoint(c) \/ Inspect(c) \/ Subscribe(c)
         \/ Unsubscribe(c)
  PROVE  \E pc \in {"write", "answer", "subscribed"} : TakeAnd(c, pc)
BY Zenon DEF RefuseToken, ExpiresMeanwhile, Refuse, Answer, LoadProgram, DebugControl, Swap, Breakpoint,
   Inspect, Subscribe, Unsubscribe, Serve, Dispatch

\* Requests, answers and pushes of every step, for all connections.
LEMMA AnswersStep ==
  ASSUME IpcTypeOK, IpcTypeOK', \A c \in Clients : StreamOK(c), [IpcNext]_ipcVars
  PROVE  \A c \in Clients : StreamOK(c)'
<1> USE DEF clientVars, serverVars, pushVars
\* It is enough to look at the connection whose step it is.
<1>1. ASSUME NEW c \in Clients, StreamOK(c)',
             \A d \in Clients \ {c} : Stream(d)' = Stream(d)
      PROVE  \A d \in Clients : StreamOK(d)'
  BY <1>1, StreamKept
<1>2. ASSUME NEW c \in Clients, ClientStep(c) PROVE \A d \in Clients : StreamOK(d)'
  <2>1. \A d \in Clients \ {c} : Stream(d)' = Stream(d)
    <3>1. CASE Connect(c)
      BY Zenon, <3>1 DEF IpcTypeOK, Stream, Connect
    <3>2. CASE Authenticate(c) \/ SendRequest(c)
      BY Zenon, <3>2, SendElsewhere DEF Authenticate, SendRequest
    <3>3. CASE Receive(c) \/ ReadRaw(c) \/ ReadTimeout(c)
      BY Zenon, <3>3 DEF IpcTypeOK, Stream, Receive, ReadRaw, ReadTimeout
    <3>4. CASE Close(c)
      BY Zenon, <3>4 DEF IpcTypeOK, Stream, Close
    <3> QED BY Zenon, <1>2, <3>1, <3>2, <3>3, <3>4 DEF ClientStep
  <2>2. StreamOK(c)'
    <3>1. CASE Connect(c) \/ ReadTimeout(c)
      BY Zenon, <3>1, WaitKeepsOrder
    <3>2. CASE Authenticate(c)
      BY <3>2, SendKeepsOrder DEF Authenticate
    <3>3. CASE SendRequest(c)
      BY <3>3, SendKeepsOrder DEF SendRequest
    <3>4. CASE Receive(c)
      BY Zenon, <3>4, ReadKeepsOrder DEF Receive, IpcTypeOK
    <3>5. CASE ReadRaw(c)
      BY Zenon, <3>5, ReadKeepsOrder DEF ReadRaw, IpcTypeOK
    <3>6. CASE Close(c)
      BY <3>6, CloseKeepsOrder
    <3> QED BY <1>2, <3>1, <3>2, <3>3, <3>4, <3>5, <3>6 DEF ClientStep
  <2> QED BY <1>1, <2>1, <2>2
<1>3. ASSUME NEW c \in Clients, NEW pc \in {"write", "answer", "subscribed"}, TakeAnd(c, pc)
      PROVE  \A d \in Clients : StreamOK(d)'
  <2>1. \A d \in Clients \ {c} : Stream(d)' = Stream(d)
    BY <1>3 DEF TakeAnd, IpcTypeOK, Stream
  <2>2. /\ spc[c] = "read" /\ c2s[c] # <<>> /\ c2s'[c] = Tail(c2s[c]) /\ spc'[c] = pc
        /\ out'[c] = Frame("reply", Request(c).n, None) /\ out'[c] \in Frames
        /\ UNCHANGED <<cpc, calls, s2c>>
    <3>1. c \in DOMAIN c2s /\ c \in DOMAIN spc /\ c \in DOMAIN out
      BY DEF IpcTypeOK
    <3>2. Frame("reply", Request(c).n, None) \in Frames
      BY Zenon, <1>3, Takes
    <3> QED BY Zenon, <1>3, <3>1, <3>2 DEF TakeAnd
  <2>3. IsAnswer(out'[c]) /\ out'[c].n = Request(c).n
    BY <2>2 DEF Frame, IsAnswer
  <2>4. StreamOK(c)'
    BY Zenon, <2>2, <2>3, Labels, TakeKeepsOrder
  <2> QED BY Zenon, <1>1, <2>1, <2>4
<1>4. ASSUME NEW c \in Clients, ServerStep(c) PROVE \A d \in Clients : StreamOK(d)'
  <2>1. CASE \/ RefuseToken(c) \/ ExpiresMeanwhile(c) \/ Refuse(c) \/ Answer(c) \/ LoadProgram(c)
             \/ DebugControl(c) \/ Swap(c) \/ Breakpoint(c) \/ Inspect(c) \/ Subscribe(c)
             \/ Unsubscribe(c)
    <3>1. \E pc \in {"write", "answer", "subscribed"} : TakeAnd(c, pc)
      BY Zenon, <2>1, ServeTakes
    <3> QED BY <1>3, <3>1
  <2>2. CASE AuthRequest(c)
    <3>1. \A d \in Clients \ {c} : Stream(d)' = Stream(d)
      BY Zenon, <2>2, AuthElsewhere
    <3>2. /\ spc[c] = "read" /\ c2s[c] # <<>> /\ c2s'[c] = Tail(c2s[c])
          /\ UNCHANGED <<cpc, calls, s2c>>
      BY Zenon, <2>2 DEF AuthRequest, IpcTypeOK
    <3>3. \/ /\ spc'[c] = "answer"
             /\ out'[c] = Frame("reply", Request(c).n, None)
          \/ /\ spc'[c] = "auth"
             /\ out'[c] = Frame("auth", Request(c).n, [sid |-> next_sid[c], role |-> Request(c).a])
      BY Zenon, <2>2 DEF AuthRequest, IpcTypeOK
    <3>4. /\ IsAnswer(out'[c]) /\ out'[c].n = Request(c).n
          /\ spc'[c] = "auth" => out'[c].kind = "auth"
      BY <3>3 DEF Frame, IsAnswer
    <3>5. spc'[c] \in WritingLabels /\ out'[c] \in Frames
      BY Zenon, <3>3, Labels DEF IpcTypeOK
    <3>6. StreamOK(c)'
      BY Zenon, <3>2, <3>4, <3>5, TakeKeepsOrder
    <3> QED BY <1>1, <3>1, <3>6
  <2>3. CASE EndOfFile(c) \/ Cleanup(c)
    <3>1. \A d \in Clients \ {c} : Stream(d)' = Stream(d)
      BY Zenon, <2>3 DEF EndOfFile, Cleanup, IpcTypeOK, Stream
    <3>2. /\ UNCHANGED <<cpc, calls, c2s, s2c, out>>
          /\ spc[c] \notin WritingLabels /\ spc'[c] \notin WritingLabels /\ spc'[c] # "auth"
      BY Zenon, <2>3, Labels DEF EndOfFile, Cleanup, IpcTypeOK
    <3>3. StreamOK(c)'
      BY <3>2 DEF StreamOK, Unread
    <3> QED BY <1>1, <3>1, <3>3
  <2>4. CASE WriteAnswer(c)
    <3>1. \A d \in Clients \ {c} : Stream(d)' = Stream(d)
      BY Zenon, <2>4 DEF WriteAnswer, Sent, IpcTypeOK, Stream
    <3> QED BY Zenon, <1>1, <2>4, <3>1, WriteKeepsOrder
  <2> QED BY <1>4, <2>1, <2>2, <2>3, <2>4 DEF ServerStep
<1>5. ASSUME NEW c \in Clients, Accept(c) PROVE \A d \in Clients : StreamOK(d)'
  <2>1. \A d \in Clients \ {c} : Stream(d)' = Stream(d)
    BY Zenon, <1>5 DEF Accept, IpcTypeOK, Stream
  <2>2. /\ UNCHANGED <<cpc, calls, c2s, s2c, out>>
        /\ spc[c] \notin WritingLabels /\ spc'[c] \notin WritingLabels /\ spc'[c] # "auth"
    BY Zenon, <1>5, Labels DEF Accept, IpcTypeOK
  <2>3. StreamOK(c)'
    BY <2>2 DEF StreamOK, Unread
  <2> QED BY <1>1, <2>1, <2>3
<1>6. CASE UNCHANGED <<cpc, calls, c2s, s2c, spc, out>>
  BY Zenon, <1>6, StreamKept DEF Stream
<1>7. ASSUME NEW e \in todo, PushOne(e) PROVE \A d \in Clients : StreamOK(d)'
  <2>1. e.c \in Clients
    BY Zenon DEF IpcTypeOK, Subscriptions
  <2>2. CASE cpc[e.c] = "closed"
    <3>1. UNCHANGED <<cpc, calls, c2s, s2c, spc, out>>
      BY Zenon, <1>7, <2>2 DEF PushOne, Sent
    <3> QED BY Zenon, <1>6, <3>1
  <2>3. CASE cpc[e.c] # "closed"
    <3>1. \A d \in Clients \ {e.c} : Stream(d)' = Stream(d)
      BY Zenon, <1>7, <2>1 DEF PushOne, Sent, IpcTypeOK, Stream
    <3>2. s2c'[e.c] = Append(s2c[e.c], Push) /\ UNCHANGED <<cpc, calls, c2s, spc, out>>
      BY Zenon, <1>7, <2>1, <2>3 DEF PushOne, Sent, IpcTypeOK
    <3>3. StreamOK(e.c)'
      BY Zenon, <2>1, <2>3, <3>2, PushKeepsOrder
    <3> QED BY Zenon, <1>1, <2>1, <3>1, <3>3
  <2> QED BY Zenon, <2>2, <2>3
<1>8. CASE (\E c \in Clients : Expire(c)) \/ StopServer \/ Boundary \/ PushLock \/ PushDone
  BY Zenon, <1>6, <1>8 DEF Expire, StopServer, Boundary, PushLock, PushDone
<1>9. CASE UNCHANGED ipcVars
  BY Zenon, <1>6, <1>9 DEF ipcVars
<1> QED BY <1>2, <1>4, <1>5, <1>7, <1>8, <1>9 DEF IpcNext, EngineStep

\* Before the first connection there is nothing to order.
LEMMA AnswersInit ==
  ASSUME IpcInit, NEW c \in Clients
  PROVE  StreamOK(c)
<1>1. /\ c2s[c] = <<>> /\ s2c[c] = <<>> /\ spc[c] = "none" /\ cpc[c] = "new"
      /\ spc[c] \notin WritingLabels
  BY Zenon, Labels DEF IpcInit
<1>2. Unread(c) = <<>> /\ DOMAIN Unread(c) = {} /\ Len(c2s[c]) = 0
  BY <1>1 DEF Unread
<1>3. \A i \in 1..Len(c2s[c]) : c2s[c][i].n = calls[c] - Len(c2s[c]) + i
  BY <1>2
<1>4. InOrder(Unread(c)) /\ LastAnswers(Unread(c), calls[c] - Len(c2s[c]))
  BY Zenon, <1>2, EmptyInOrder
<1> QED BY Zenon, <1>1, <1>3, <1>4, Labels DEF StreamOK

-----------------------------------------------------------------------------
(* Subscriptions and sessions                                              *)

SubsInv == SubsMutex /\ SubsOfSession /\ SubscriptionWindow /\ SessionsGranted

\* What SubsInv is about.
subsCore == <<uid, spc, session, subs, subs_lock, epc, todo>>

\* A request that is read and changes neither sessions nor subscriptions.
LEMMA TakeKeepsSubs ==
  ASSUME IpcTypeOK, SubsInv, NEW c \in Clients, NEW pc \in {"write", "answer"}, TakeAnd(c, pc),
         UNCHANGED <<session, subs, subs_lock>>
  PROVE  SubsInv'
<1>1. spc[c] = "read" /\ spc' = [spc EXCEPT ![c] = pc] /\ UNCHANGED <<uid, epc, todo>>
  BY DEF TakeAnd, pushVars
<1>2. \A e \in subs : e.c # c
  BY Zenon, <1>1 DEF SubsInv, SubscriptionWindow
<1>3. SubsMutex'
  BY Zenon, <1>1 DEF SubsInv, SubsMutex, IpcTypeOK
<1>4. SubscriptionWindow'
  BY Zenon, <1>1, <1>2 DEF SubsInv, SubscriptionWindow, IpcTypeOK, Subscriptions
<1>5. SubsOfSession' /\ SessionsGranted'
  BY Zenon, <1>1 DEF SubsInv, SubsOfSession, SessionsGranted
<1> QED BY <1>3, <1>4, <1>5 DEF SubsInv

\* A request that is served on a session has been allowed by its role.
LEMMA ServedOnSession ==
  ASSUME NEW c \in Clients, NEW ms, NEW pc, Serve(c, ms, pc),
         ms \subseteq ConfigMethods \/ ms \subseteq SubscriptionMethods
  PROVE  /\ session[c] # None /\ TokenCurrent(c)
         /\ ms \subseteq ConfigMethods => session[c].role \in ConfigRoles
<1>1. Request(c).m \in ms /\ Allowed(Request(c).m, RoleOf(c))
  BY DEF Serve, Dispatch
<1>2. RoleOf(c) # None /\ (ms \subseteq ConfigMethods => RoleOf(c) \in ConfigRoles)
  <2>1. CASE ms \subseteq ConfigMethods
    <3>1. /\ Request(c).m \in ConfigMethods /\ Request(c).m \notin ReadMethods
          /\ Request(c).m \notin {"UNKNOWN", "WRITE_SIGNAL"}
      BY Zenon, <1>1, <2>1 DEF ConfigMethods, ReadMethods, QueueMethods, DebugMethods, SwapMethods,
         BreakpointMethods, InspectMethods, QueryMethods, SubscriptionMethods
    <3>2. RoleOf(c) \in ConfigRoles
      BY <1>1, <3>1 DEF Allowed
    <3> QED BY <3>2, RolesAssumption DEF AllRoles, WriteRoles
  <2>2. CASE ms \subseteq SubscriptionMethods
    <3>1. /\ Request(c).m \in SubscriptionMethods /\ Request(c).m \notin ConfigMethods
          /\ Request(c).m \notin {"UNKNOWN", "WRITE_SIGNAL"}
      BY Zenon, <1>1, <2>2 DEF ConfigMethods, QueueMethods, DebugMethods, SwapMethods,
         BreakpointMethods, SubscriptionMethods
    <3>2. RoleOf(c) # None
      BY <1>1, <3>1 DEF Allowed
    <3>3. ~(ms \subseteq ConfigMethods)
      BY Zenon, <1>1, <3>1
    <3> QED BY <3>2, <3>3
  <2> QED BY <2>1, <2>2
<1>3. session[c] # None /\ RoleOf(c) = session[c].role
  BY Zenon, <1>2 DEF RoleOf
<1>4. TokenCurrent(c)
  BY <1>3 DEF Serve, Dispatch
<1> QED BY Zenon, <1>2, <1>3, <1>4

\* Every step keeps the subscriptions to the thread that handles a subscribe request.
LEMMA SubsStep ==
  ASSUME IpcTypeOK, SubsInv, [IpcNext]_ipcVars
  PROVE  SubsInv'
<1> USE DEF clientVars, serverVars, pushVars, subsVars
<1>1. CASE UNCHANGED subsCore
  BY Zenon, <1>1 DEF subsCore, SubsInv, SubsMutex, SubsOfSession, SubscriptionWindow, SessionsGranted
<1>2. ASSUME NEW c \in Clients, ClientStep(c) \/ Expire(c) PROVE SubsInv'
  BY Zenon, <1>1, <1>2 DEF subsCore, ClientStep, Connect, Authenticate, SendRequest, SendFrame, Receive,
     ReadRaw, ReadTimeout, Close, Expire
<1>3. ASSUME NEW c \in Clients, Accept(c) \/ EndOfFile(c) PROVE SubsInv'
  <2>1. /\ spc[c] \in {"none", "read"} /\ \E l \in {"read", "end"} : spc' = [spc EXCEPT ![c] = l]
        /\ UNCHANGED <<uid, session, subs, subs_lock, epc, todo>>
    BY Zenon, <1>3 DEF Accept, EndOfFile
  <2>2. \A e \in subs : e.c # c
    BY Zenon, <2>1 DEF SubsInv, SubscriptionWindow
  <2>3. SubsMutex'
    BY Zenon, <2>1 DEF SubsInv, SubsMutex, IpcTypeOK
  <2>4. SubscriptionWindow'
    BY Zenon, <2>1, <2>2 DEF SubsInv, SubscriptionWindow, IpcTypeOK, Subscriptions
  <2>5. SubsOfSession' /\ SessionsGranted'
    BY Zenon, <2>1 DEF SubsInv, SubsOfSession, SessionsGranted
  <2> QED BY Zenon, <2>3, <2>4, <2>5 DEF SubsInv
<1>4. ASSUME NEW c \in Clients, ServerStep(c) PROVE SubsInv'
  <2>1. CASE EndOfFile(c)
    BY <1>3, <2>1
  <2>2. CASE \/ RefuseToken(c) \/ Refuse(c) \/ Answer(c) \/ LoadProgram(c)
             \/ DebugControl(c) \/ Swap(c) \/ Breakpoint(c) \/ Inspect(c)
    <3>1. /\ \E pc \in {"write", "answer"} : TakeAnd(c, pc)
          /\ UNCHANGED <<session, subs, subs_lock>>
      BY Zenon, <2>2 DEF RefuseToken, Refuse, Answer, LoadProgram, DebugControl, Swap, Breakpoint,
         Inspect, Serve, Dispatch
    <3> QED BY <3>1, TakeKeepsSubs
  <2>3. CASE ExpiresMeanwhile(c)
    <3>1. /\ spc[c] = "read" /\ spc' = [spc EXCEPT ![c] = "write"]
          /\ session' = [session EXCEPT ![c] = None]
          /\ UNCHANGED <<uid, subs, subs_lock, epc, todo>>
      BY <2>3 DEF ExpiresMeanwhile, TakeAnd
    <3>2. \A e \in subs : e.c # c /\ e.c \in Clients
      BY Zenon, <3>1 DEF SubsInv, SubscriptionWindow, IpcTypeOK, Subscriptions
    <3>3. SubsMutex'
      BY <3>1 DEF SubsInv, SubsMutex, IpcTypeOK
    <3>4. SubscriptionWindow' /\ SubsOfSession'
      BY Zenon, <3>1, <3>2 DEF SubsInv, SubscriptionWindow, SubsOfSession, IpcTypeOK
    <3>5. SessionsGranted'
      BY Zenon, <3>1 DEF SubsInv, SessionsGranted, IpcTypeOK
    <3> QED BY <3>3, <3>4, <3>5 DEF SubsInv
  <2>4. CASE AuthRequest(c)
    <3>1. /\ spc[c] = "read" /\ \E l \in {"auth", "answer"} : spc' = [spc EXCEPT ![c] = l]
          /\ UNCHANGED <<uid, subs, subs_lock, epc, todo>>
          /\ \/ session' = session
             \/ /\ session' = [session EXCEPT ![c] = [sid |-> next_sid[c], role |-> Request(c).a]]
                /\ AuthGranted(c)
      BY Zenon, <2>4 DEF AuthRequest
    <3>2. \A e \in subs : e.c # c /\ e.c \in Clients
      BY Zenon, <3>1 DEF SubsInv, SubscriptionWindow, IpcTypeOK, Subscriptions
    <3>3. SubsMutex'
      BY <3>1 DEF SubsInv, SubsMutex, IpcTypeOK
    <3>4. SubscriptionWindow' /\ SubsOfSession'
      BY Zenon, <3>1, <3>2 DEF SubsInv, SubscriptionWindow, SubsOfSession, IpcTypeOK
    <3>5. SessionsGranted'
      BY <3>1 DEF SubsInv, SessionsGranted, IpcTypeOK, AuthGranted
    <3> QED BY <3>3, <3>4, <3>5 DEF SubsInv
  <2>5. CASE Subscribe(c)
    <3>1. /\ spc[c] = "read" /\ spc' = [spc EXCEPT ![c] = "subscribed"]
          /\ subs_lock = None /\ subs_lock' = c
          /\ subs' = subs \cup {[s |-> Request(c).a, sid |-> session[c].sid, c |-> c]}
          /\ UNCHANGED <<uid, session, epc, todo>>
      BY Zenon, <2>5 DEF Subscribe, Serve, Dispatch, TakeAnd
    <3>2. session[c] # None
      BY Zenon, <2>5, ServedOnSession DEF Subscribe, SubscriptionMethods
    <3>3. SubsMutex'
      <4>1. epc # "push" /\ c # "engine" /\ c # None
        BY Zenon, <3>1, IpcAssumption DEF SubsInv, SubsMutex
      <4> QED BY Zenon, <3>1, <4>1, IpcAssumption DEF SubsInv, SubsMutex, IpcTypeOK
    <3>4. SubscriptionWindow' /\ SubsOfSession'
      BY <3>1, <3>2 DEF SubsInv, SubscriptionWindow, SubsOfSession, IpcTypeOK, Subscriptions
    <3> QED BY Zenon, <3>1, <3>3, <3>4 DEF SubsInv, SessionsGranted
  <2>6. CASE Unsubscribe(c)
    <3>1. /\ spc[c] = "read" /\ spc' = [spc EXCEPT ![c] = "answer"]
          /\ subs_lock = None /\ subs' \subseteq subs /\ UNCHANGED <<uid, session, epc, todo, subs_lock>>
      BY Zenon, <2>6 DEF Unsubscribe, Serve, Dispatch, TakeAnd
    <3>2. \A e \in subs : e.c # c /\ e.c \in Clients
      BY Zenon, <3>1 DEF SubsInv, SubscriptionWindow, IpcTypeOK, Subscriptions
    <3>3. SubsMutex'
      BY <3>1, IpcAssumption DEF SubsInv, SubsMutex, IpcTypeOK
    <3>4. SubscriptionWindow' /\ SubsOfSession'
      BY Zenon, <3>1, <3>2 DEF SubsInv, SubscriptionWindow, SubsOfSession, IpcTypeOK
    <3> QED BY <3>1, <3>3, <3>4 DEF SubsInv, SessionsGranted
  <2>7. CASE WriteAnswer(c)
    <3>1. /\ spc[c] \in WritingLabels /\ spc' = [spc EXCEPT ![c] = AfterWrite(c)]
          /\ subs_lock' = IF spc[c] = "subscribed" THEN None ELSE subs_lock
          /\ UNCHANGED <<uid, session, subs, epc, todo>>
      BY <2>7 DEF WriteAnswer
    <3>2. AfterWrite(c) # "subscribed"
      BY DEF AfterWrite
    <3>3. ASSUME NEW e \in subs, e.c = c PROVE spc[c] = "subscribed" /\ AfterWrite(c) = "cleanup"
      <4>1. spc[c] = "subscribed" /\ session[c] # None
        BY Zenon, <3>1, <3>3, Labels DEF SubsInv, SubscriptionWindow, SubsOfSession
      <4> QED BY Zenon, <4>1 DEF AfterWrite
    <3>4. SubsMutex'
      BY Zenon, <3>1, <3>2, IpcAssumption DEF SubsInv, SubsMutex, IpcTypeOK
    <3>5. SubscriptionWindow'
      BY Zenon, <3>1, <3>3 DEF SubsInv, SubscriptionWindow, IpcTypeOK, Subscriptions
    <3> QED BY Zenon, <3>1, <3>4, <3>5 DEF SubsInv, SubsOfSession, SessionsGranted
  <2>8. CASE Cleanup(c)
    <3>1. /\ spc[c] = "cleanup" /\ spc' = [spc EXCEPT ![c] = "read"]
          /\ subs_lock = None /\ subs' = {e \in subs : e.sid # session[c].sid}
          /\ UNCHANGED <<uid, session, subs_lock, epc, todo>>
      BY Zenon, <2>8 DEF Cleanup
    <3>2. \A e \in subs' : e \in subs /\ e.c # c
      BY Zenon, <3>1 DEF SubsInv, SubsOfSession
    <3>3. SubsMutex'
      BY Zenon, <3>1, IpcAssumption DEF SubsInv, SubsMutex, IpcTypeOK
    <3>4. SubscriptionWindow' /\ SubsOfSession'
      BY Zenon, <3>1, <3>2 DEF SubsInv, SubscriptionWindow, SubsOfSession, IpcTypeOK, Subscriptions
    <3> QED BY Zenon, <3>1, <3>3, <3>4 DEF SubsInv, SessionsGranted
  <2> QED BY <1>4, <2>1, <2>2, <2>3, <2>4, <2>5, <2>6, <2>7, <2>8 DEF ServerStep
<1>5. CASE StopServer \/ UNCHANGED ipcVars
  BY Zenon, <1>1, <1>5 DEF subsCore, StopServer, ipcVars
<1>6. CASE EngineStep
  <2>1. UNCHANGED <<uid, spc, session, subs>>
    BY <1>6 DEF EngineStep, Boundary, PushLock, PushOne, PushDone
  <2>2. SubsMutex'
    <3>1. CASE Boundary
      BY Zenon, <2>1, <3>1 DEF Boundary, SubsInv, SubsMutex
    <3>2. CASE PushLock
      BY Zenon, <2>1, <3>2, IpcAssumption DEF PushLock, SubsInv, SubsMutex
    <3>3. CASE \E e \in todo : PushOne(e)
      BY Zenon, <2>1, <3>3 DEF PushOne, SubsInv, SubsMutex
    <3>4. CASE PushDone
      BY Zenon, <2>1, <3>4, IpcAssumption DEF PushDone, SubsInv, SubsMutex
    <3> QED BY Zenon, <1>6, <3>1, <3>2, <3>3, <3>4 DEF EngineStep
  <2> QED BY Zenon, <2>1, <2>2 DEF SubsInv, SubsOfSession, SubscriptionWindow, SessionsGranted
<1> QED BY Zenon, <1>2, <1>3, <1>4, <1>5, <1>6 DEF IpcNext

\* Before the first connection there is no subscription and no session.
LEMMA SubsInit == IpcInit => SubsInv
BY IpcAssumption DEF IpcInit, SubsInv, SubsMutex, SubsOfSession, SubscriptionWindow, SessionsGranted

-----------------------------------------------------------------------------
(* Theorems                                                                *)

\* The inductive invariant holds throughout.
LEMMA IpcInvariant == IpcSpec => []IpcInv
<1>1. IpcInit => IpcInv
  BY IpcTypeInit, AnswersInit, StreamsOK, SubsInit DEF IpcInv, SubsInv
<1>2. IpcInv /\ [IpcNext]_ipcVars => IpcInv'
  <2> SUFFICES ASSUME IpcInv, [IpcNext]_ipcVars PROVE IpcInv'
    OBVIOUS
  <2>1. IpcTypeOK'
    BY IpcTypeStep DEF IpcInv
  <2>2. \A c \in Clients : StreamOK(c)'
    BY Zenon, <2>1, AnswersStep, StreamsOK DEF IpcInv
  <2>3. Numbered' /\ AnswersInOrder'
    BY <2>2 DEF StreamOK, Numbered, AnswersInOrder
  <2>4. SubsInv'
    BY SubsStep DEF IpcInv, SubsInv
  <2> QED BY <2>1, <2>3, <2>4 DEF IpcInv, SubsInv
<1> QED BY <1>1, <1>2, PTL DEF IpcSpec

\* Every variable of the server, the clients and the engine keeps its type, for any number of
\* connections and calls.
THEOREM IpcTypeCorrect == IpcSpec => []IpcTypeOK
<1>1. IpcInv => IpcTypeOK
  BY DEF IpcInv
<1> QED BY <1>1, IpcInvariant, PTL

\* handle_connection answers the requests of each connection in order, none skipped and none
\* overtaken, however pushes, timeouts of the client and other connections interleave.
THEOREM IpcAnswersInOrder == IpcSpec => []AnswersInOrder
<1>1. IpcInv => AnswersInOrder
  BY DEF IpcInv
<1> QED BY <1>1, IpcInvariant, PTL

\* The cycle pushes only for entries that are subscribed in the present session of their
\* connection: what unsubscribe or the end of handle_connection's loop removes is not pushed.
THEOREM IpcPushesSubscribed == IpcSpec => []PushesSubscribed
<1>1. IpcInv => PushesSubscribed
  BY DEF IpcInv, SubsMutex, SubsOfSession, PushesSubscribed
<1> QED BY <1>1, IpcInvariant, PTL

\* The subscriptions' mutex excludes the connection threads and the push phase of the cycle from
\* one another, so that the cycle pushes to no entry that has been removed.
THEOREM IpcSubsMutex == IpcSpec => []SubsMutex
<1>1. IpcInv => SubsMutex
  BY DEF IpcInv
<1> QED BY <1>1, IpcInvariant, PTL

\* Only a request on a session with a configuring role that the whitelist grants the peer, and
\* that has not expired, or the cycle's own boundary changes what the engine runs.
THEOREM IpcAuthority == IpcSpec => Authority
<1> DEFINE A == \/ engineVars' = engineVars \/ epc' # epc
                \/ \E c \in Clients :
                     /\ c2s[c] # <<>> /\ c2s'[c] = Tail(c2s[c])
                     /\ session[c] # None /\ ~expired[c] /\ session[c].role \in ConfigRoles
                     /\ uid[c] \in Whitelist[session[c].role]
<1>1. IpcInv /\ [IpcNext]_ipcVars => [A]_ipcVars
  <2> SUFFICES ASSUME IpcInv, IpcNext PROVE A
    BY Zenon
  <2>1. ASSUME NEW c \in Clients, NEW ms, NEW pc, Serve(c, ms, pc), ms \subseteq ConfigMethods
        PROVE  A
    <3>1. session[c] # None /\ ~expired[c] /\ session[c].role \in ConfigRoles
      BY Zenon, <2>1, ServedOnSession DEF TokenCurrent
    <3>2. uid[c] \in Whitelist[session[c].role]
      BY Zenon, <3>1 DEF IpcInv, SessionsGranted
    <3>3. c2s[c] # <<>> /\ c2s'[c] = Tail(c2s[c])
      BY Zenon, <2>1 DEF Serve, Dispatch, TakeAnd, IpcInv, IpcTypeOK
    <3> QED BY Zenon, <3>1, <3>2, <3>3
  <2>2. ASSUME NEW c \in Clients, ServerStep(c) PROVE A
    <3> USE DEF ConfigMethods
    <3>1. CASE LoadProgram(c)
      BY Zenon, <2>1, <3>1 DEF LoadProgram
    <3>2. CASE DebugControl(c)
      BY Zenon, <2>1, <3>2 DEF DebugControl
    <3>3. CASE Swap(c)
      BY Zenon, <2>1, <3>3 DEF Swap
    <3>4. CASE Breakpoint(c)
      BY Zenon, <2>1, <3>4 DEF Breakpoint
    <3>5. CASE \/ EndOfFile(c) \/ RefuseToken(c) \/ ExpiresMeanwhile(c) \/ Refuse(c) \/ AuthRequest(c)
               \/ Answer(c) \/ Inspect(c) \/ Subscribe(c) \/ Unsubscribe(c) \/ WriteAnswer(c)
               \/ Cleanup(c)
      BY Zenon, <3>5 DEF EndOfFile, RefuseToken, ExpiresMeanwhile, Refuse, AuthRequest, Answer, Inspect,
         Subscribe, Unsubscribe, WriteAnswer, Cleanup
    <3> QED BY Zenon, <2>2, <3>1, <3>2, <3>3, <3>4, <3>5 DEF ServerStep
  <2>3. ASSUME NEW c \in Clients, ClientStep(c) \/ Accept(c) \/ Expire(c) PROVE A
    BY Zenon, <2>3 DEF ClientStep, Connect, Authenticate, SendRequest, SendFrame, Receive, ReadRaw,
       ReadTimeout, Close, Accept, Expire
  <2>4. CASE StopServer \/ EngineStep
    BY Zenon, <2>4 DEF StopServer, EngineStep, Boundary, PushLock, PushOne, PushDone
  <2> QED BY Zenon, <2>2, <2>3, <2>4 DEF IpcNext
<1> QED BY <1>1, IpcInvariant, PTL DEF IpcSpec, Authority
=============================================================================

-------------------------- MODULE SessionSendProofs --------------------------
(***************************************************************************)
(* Proofs about what Send does to the buffers, for every value of the      *)
(* constants: a posted WSASend reads pinned buffers, a healthy connection  *)
(* is dropped only for the three causes named, and as long as no pop of    *)
(* sendQueue_ overlaps a push the send path implements SendChannel and     *)
(* loses nothing.                                                          *)
(***************************************************************************)
EXTENDS SessionProofs, SequenceTheorems

-----------------------------------------------------------------------------
(* Sequences. *)

\* Popping moves the front of the queue to the end of what is drained.
LEMMA PopMoves ==
  ASSUME NEW S, NEW b \in Seq(S), NEW q \in Seq(S), q # <<>>
  PROVE  Append(b, Head(q)) \o Tail(q) = b \o q
  <1>1. Head(q) \in S /\ Tail(q) \in Seq(S) /\ Len(Tail(q)) = Len(q) - 1
        /\ \A i \in 1 .. Len(Tail(q)) : Tail(q)[i] = q[i + 1]
    BY HeadTailProperties
  <1>2. <<Head(q)>> \in Seq(S) /\ Append(b, Head(q)) = b \o <<Head(q)>>
    BY <1>1
  <1>3. (b \o <<Head(q)>>) \o Tail(q) = b \o (<<Head(q)>> \o Tail(q))
    BY <1>1, <1>2, ConcatAssociative
  <1>4. <<Head(q)>> \o Tail(q) = q
    OBVIOUS
  <1>5. QED
    BY <1>2, <1>3, <1>4

\* What was put in front can be taken off again.
LEMMA FrontAndRest ==
  ASSUME NEW S, NEW b \in Seq(S), NEW q \in Seq(S)
  PROVE  /\ SubSeq(b \o q, 1, Len(b)) = b
         /\ SubSeq(b \o q, Len(b) + 1, Len(b \o q)) = q
         /\ Len(b \o q) = Len(b) + Len(q)
  OBVIOUS

\* Concatenation is associative.
LEMMA Associative == \A u, v, x \in Seq(Nat) : (u \o v) \o x = u \o (v \o x)
  OBVIOUS

\* Wherever a sequence is cut, the parts put behind another make the whole.
LEMMA CutAnywhere ==
  ASSUME NEW w \in Seq(Nat), NEW s \in Seq(Nat), NEW n \in 1..Len(s)
  PROVE  (w \o SubSeq(s, 1, n)) \o SubSeq(s, n + 1, Len(s)) = w \o s
  <1> DEFINE front == SubSeq(s, 1, n)
             rest == SubSeq(s, n + 1, Len(s))
  <1>1. \A i \in 1..Len(s) : s[i] \in Nat
    BY ElementOfSeq
  <1>2. w \in Seq(Nat) /\ front \in Seq(Nat) /\ rest \in Seq(Nat)
    BY <1>1, SubSeqProperties
  <1>3. front \o rest = s
    BY <1>2
  <1> HIDE DEF front, rest
  <1>4. (w \o front) \o rest = w \o (front \o rest)
    BY ONLY <1>2, Associative
  <1>5. (w \o front) \o rest = w \o s
    BY ONLY <1>3, <1>4
  <1>6. QED
    BY <1>5 DEF front, rest

\* What was put behind is a suffix.
LEMMA BehindIsSuffix ==
  ASSUME NEW S, NEW w \in Seq(S), NEW b \in Seq(S)
  PROVE  IsSuffix(b, w \o b)
  BY DEF IsSuffix, IsPrefix, Reverse
-----------------------------------------------------------------------------
(* What a step does to the buffers. *)

\* What an action that stays off the buffers keeps.
BuffersKept ==
  /\ UNCHANGED <<pushes, sendQueue, sendBuffers, raced, wire>>
  /\ io'["Send"] = io["Send"]
  /\ faults \subseteq faults'

OffBuffers(t) ==
  \/ ProcessConnect(t) \/ ProcessRecv(t) \/ ProcessDisconnect(t)
  \/ AddSession(t) \/ OnConnected(t) \/ RegisterRecv(t) \/ WSARecv(t) \/ OnRecv(t)
  \/ FinishRecv(t) \/ Broadcast(t) \/ SendCheck(t) \/ SendLock(t) \/ SendExchange(t)
  \/ RegisterSend(t) \/ Drain(t) \/ ClearFlag(t) \/ CheckEmpty(t)
  \/ Disconnect(t) \/ RegisterDisconnect(t) \/ ReleaseSession(t)

\* All actions but SendPush, Pop, WSASend and ProcessSend are of this kind.
LEMMA OffBuffersKeeps ==
  ASSUME TypeOK, NEW t \in Threads, OffBuffers(t)
  PROVE  BuffersKept
  <1>1. UNCHANGED <<pushes, sendQueue, sendBuffers, raced, wire>>
    BY DEF OffBuffers, ProcessConnect, ProcessRecv, ProcessDisconnect, AddSession, OnConnected,
      GameOnConnected, ClientOnConnected, RegisterRecv, WSARecv, OnRecv, GameOnRecv, ClientOnRecv,
      FinishRecv, Broadcast, SendCheck, SendLock, SendExchange, RegisterSend, Drain, ClearFlag,
      CheckEmpty, Disconnect, RegisterDisconnect, ReleaseSession, sending
  <1>2. io'["Send"] = io["Send"]
    BY DEF OffBuffers, TypeOK, Ops, ProcessConnect, ProcessRecv, ProcessDisconnect, AddSession,
      OnConnected, GameOnConnected, ClientOnConnected, RegisterRecv, WSARecv, OnRecv, GameOnRecv,
      ClientOnRecv, FinishRecv, Broadcast, SendCheck, SendLock, SendExchange, RegisterSend, Drain,
      ClearFlag, CheckEmpty, Disconnect, RegisterDisconnect, ReleaseSession, Dequeue, Post, Refuse,
      events
  <1>3. faults \subseteq faults'
    BY DEF OffBuffers, ProcessConnect, ProcessRecv, ProcessDisconnect, AddSession, OnConnected,
      GameOnConnected, ClientOnConnected, RegisterRecv, WSARecv, OnRecv, GameOnRecv, ClientOnRecv,
      FinishRecv, Broadcast, SendCheck, SendLock, SendExchange, RegisterSend, Drain, ClearFlag,
      CheckEmpty, Disconnect, RegisterDisconnect, ReleaseSession, Refuse, outside
  <1>4. QED
    BY <1>1, <1>2, <1>3 DEF BuffersKept

\* The thread that works on sendEvent_ finds it out of use.
LEMMA SenderOwnsEvent ==
  ASSUME Inv, NEW t \in Threads, pc[t] \in SendPcs
  PROVE  io["Send"] = "idle"
  BY DEF Inv, SendInv, SendEventExclusive, InSend

\* The completion of a send finds nobody at work on sendEvent_.
LEMMA SendInFlightIsAlone ==
  ASSUME Inv, io["Send"] # "idle", NEW t \in Threads
  PROVE  pc[t] \notin SendPcs
  BY SenderOwnsEvent

-----------------------------------------------------------------------------
(* What is in flight. *)

\* sendEvent_ holds what the socket took last, as long as it is in use.
PostedAtEnd ==
  io["Send"] # "idle" => \E w \in Seq(Nat) : wire = w \o sendBuffers

\* A WSASend with no buffer is remembered.
EmptyIsNoted ==
  io["Send"] # "idle" => sendBuffers # <<>> \/ "empty" \in faults

InFlight == PostedAtEnd /\ EmptyIsNoted

\* Only WSASend puts sendEvent_ in use, and nobody touches the buffers until its
\* completion is dequeued.
LEMMA NextInFlight ==
  ASSUME Inv, InFlight, [Next]_vars
  PROVE  InFlight'
  <1>0. TypeOK
    BY DEF Inv
  <1>1. ASSUME NEW t \in Threads, OffBuffers(t) PROVE InFlight'
    BY <1>0, <1>1, OffBuffersKeeps DEF BuffersKept, InFlight, PostedAtEnd, EmptyIsNoted
  <1>2. ASSUME NEW t \in Threads, SendPush(t) PROVE InFlight'
    BY <1>2 DEF SendPush, InFlight, PostedAtEnd, EmptyIsNoted, events, outside
  <1>3. ASSUME NEW t \in Threads, Pop(t) PROVE InFlight'
    <2>1. io["Send"] = "idle" /\ io' = io
      BY <1>3, SenderOwnsEvent DEF Pop, SendPcs, events
    <2>2. QED
      BY <2>1 DEF InFlight, PostedAtEnd, EmptyIsNoted
  <1>4. ASSUME NEW t \in Threads, WSASend(t) PROVE InFlight'
    <2>1. io["Send"] = "idle"
      BY <1>4, SenderOwnsEvent DEF WSASend, SendPcs
    <2>2. CASE Post("Send")
      <3>1. /\ wire' = wire \o sendBuffers
            /\ sendBuffers' = sendBuffers
            /\ sendBuffers = <<>> => "empty" \in faults'
        BY <1>4, <2>1, <2>2, <1>0 DEF WSASend, Post, Refuse, TypeOK, Ops
      <3>2. wire \in Seq(Nat)
        BY <1>0 DEF TypeOK
      <3>3. QED
        BY <3>1, <3>2 DEF InFlight, PostedAtEnd, EmptyIsNoted
    <2>3. CASE Refuse("Send")
      BY <2>1, <2>3 DEF Refuse, InFlight, PostedAtEnd, EmptyIsNoted
    <2>4. QED
      BY <1>4, <2>2, <2>3 DEF WSASend
  <1>5. ASSUME NEW t \in Threads, ProcessSend(t) PROVE InFlight'
    <2>1. io'["Send"] = "idle"
      BY <1>0, <1>5 DEF ProcessSend, Dequeue, TypeOK, Ops
    <2>2. QED
      BY <2>1 DEF InFlight, PostedAtEnd, EmptyIsNoted
  <1>6. CASE KernelStep
    <2>1. UNCHANGED <<wire, sendBuffers, faults>> /\ CompletesOnly
      BY <1>0, <1>6, KernelSteps
    <2>2. io'["Send"] # "idle" => io["Send"] # "idle"
      BY <2>1 DEF CompletesOnly, Ops
    <2>3. QED
      BY <2>1, <2>2 DEF InFlight, PostedAtEnd, EmptyIsNoted
  <1>7. QED
    BY <1>1, <1>2, <1>3, <1>4, <1>5, <1>6 DEF Next, Handle, Step, OffBuffers, KernelStep

-----------------------------------------------------------------------------
(* The causes of a disconnect. *)

Cause == sock # "open" \/ "reject" \in faults \/ "empty" \in faults

\* Whoever is about to disconnect, and what will make somebody do so, has a cause.
Caused ==
  /\ \A t \in Threads : connected /\ pc[t] = "disconnect" => Cause
  /\ io["Recv"] = "zero" => Cause
  /\ io["Send"] = "zero" => Cause

\* What went wrong is remembered.
LEMMA FaultsGrow == [Next]_vars => faults \subseteq faults'
  BY DEF Next, Handle, Step, ProcessConnect, ProcessRecv, ProcessSend, ProcessDisconnect,
    AddSession, OnConnected, RegisterRecv, WSARecv, OnRecv, FinishRecv, Broadcast, SendCheck,
    SendLock, SendPush, SendExchange, RegisterSend, Drain, Pop, WSASend, ClearFlag, CheckEmpty,
    Disconnect, RegisterDisconnect, ReleaseSession, Refuse, outside, Kernel, CompleteConnect,
    CompleteRecvEnd, CompleteSend, CompleteDisconnect, CompleteRecvData, PeerClose, AtRest, vars

\* A cause stays: once it is not open, the transport opens only while the session
\* connects, when there is nothing to disconnect.
LEMMA CauseStays ==
  ASSUME TypeOK, [Next]_vars, Cause
  PROVE  Cause' \/ CompleteConnect
  <1>1. faults \subseteq faults'
    BY FaultsGrow
  <1>2. sock # "open" => sock' # "open" \/ CompleteConnect
    BY DEF Next, Handle, Step, ProcessConnect, ProcessRecv, ProcessSend, ProcessDisconnect,
      AddSession, OnConnected, RegisterRecv, WSARecv, OnRecv, FinishRecv, Broadcast, SendCheck,
      SendLock, SendPush, SendExchange, RegisterSend, Drain, Pop, WSASend, ClearFlag, CheckEmpty,
      Disconnect, RegisterDisconnect, ReleaseSession, outside, Kernel,
      CompleteRecvEnd, CompleteSend, CompleteDisconnect, CompleteRecvData, PeerClose, AtRest, vars
  <1>3. QED
    BY <1>1, <1>2 DEF Cause

\* A completion of 0 bytes of these two events comes from the kernel.
LEMMA ZeroFromKernel ==
  ASSUME TypeOK, [Next]_vars
  PROVE  /\ io'["Recv"] = "zero" => io["Recv"] = "zero" \/ CompleteRecvEnd
         /\ io'["Send"] = "zero" => io["Send"] = "zero" \/ CompleteSend
  <1> USE DEF TypeOK, Ops, events
  <1>1. CASE \E t \in Threads : Handle(t)
    BY <1>1 DEF Handle, ProcessConnect, ProcessRecv, ProcessSend, ProcessDisconnect, Dequeue
  <1>2. CASE \E t \in Threads : WSARecv(t) \/ WSASend(t) \/ RegisterDisconnect(t)
    BY <1>2 DEF WSARecv, WSASend, RegisterDisconnect, Post, Refuse
  <1>3. CASE io' = io
    BY <1>3
  <1>4. CASE CompleteConnect \/ CompleteDisconnect \/ CompleteRecvData
    BY <1>4 DEF CompleteConnect, CompleteDisconnect, CompleteRecvData, Complete
  <1>5. CASE CompleteRecvEnd \/ CompleteSend
    BY <1>5 DEF CompleteRecvEnd, CompleteSend, Complete
  <1>6. QED
    BY <1>1, <1>2, <1>3, <1>4, <1>5
    DEF Next, Step, Kernel, AddSession, OnConnected, GameOnConnected, ClientOnConnected,
      RegisterRecv, OnRecv, GameOnRecv, ClientOnRecv, FinishRecv, Broadcast, SendCheck, SendLock,
      SendPush, SendExchange, RegisterSend, Drain, Pop, ClearFlag, CheckEmpty, Disconnect,
      ReleaseSession, PeerClose, AtRest, vars

\* A thread comes to "disconnect" by a completion of 0 bytes or a rejection.
LEMMA DisconnectFrom ==
  ASSUME Inv, [Next]_vars, NEW t \in Threads, pc'[t] = "disconnect"
  PROVE  \/ pc[t] = "disconnect"
         \/ io["Recv"] = "zero" \/ io["Send"] = "zero"
         \/ "reject" \in faults'
  <1>0. TypeOK
    BY DEF Inv
  <1> USE <1>0 DEF TypeOK, Goto, Return, CallSend
  <1>1. ASSUME NEW u \in Threads, Handle(u)
        PROVE  pc[t] = "disconnect" \/ io["Recv"] = "zero" \/ io["Send"] = "zero"
    BY <1>1 DEF Handle, ProcessConnect, ProcessRecv, ProcessSend, ProcessDisconnect, Dequeue
  <1>2. ASSUME NEW u \in Threads, FinishRecv(u)
        PROVE  pc[t] = "disconnect" \/ "reject" \in faults'
    BY <1>2 DEF FinishRecv
  <1>3. ASSUME NEW u \in Threads,
               \/ AddSession(u) \/ OnConnected(u) \/ RegisterRecv(u) \/ WSARecv(u) \/ OnRecv(u)
               \/ Disconnect(u) \/ RegisterDisconnect(u) \/ ReleaseSession(u)
        PROVE  pc[t] = "disconnect"
    BY <1>3 DEF AddSession, OnConnected, GameOnConnected, ClientOnConnected, RegisterRecv, WSARecv,
      OnRecv, GameOnRecv, ClientOnRecv, Disconnect, RegisterDisconnect, ReleaseSession
  <1>4. ASSUME NEW u \in Threads,
               \/ Broadcast(u) \/ SendCheck(u) \/ SendLock(u) \/ SendPush(u) \/ SendExchange(u)
        PROVE  pc[t] = "disconnect"
    BY <1>4 DEF Broadcast, SendCheck, SendLock, SendPush, SendExchange
  <1>5. ASSUME NEW u \in Threads,
               \/ RegisterSend(u) \/ Drain(u) \/ Pop(u) \/ WSASend(u) \/ ClearFlag(u)
               \/ CheckEmpty(u)
        PROVE  pc[t] = "disconnect"
    BY <1>5 DEF RegisterSend, Drain, Pop, WSASend, ClearFlag, CheckEmpty
  <1>6. CASE KernelStep
    BY <1>6, KernelSteps
  <1>7. QED
    BY <1>1, <1>2, <1>3, <1>4, <1>5, <1>6 DEF Next, Step, KernelStep

\* connected_ rises before there is anybody to take it down.
LEMMA ConnectedFrom ==
  ASSUME Inv, Fresh, [Next]_vars, connected', NEW t \in Threads, pc'[t] = "disconnect"
  PROVE  connected
  <1>0. TypeOK
    BY DEF Inv
  <1>1. ASSUME NEW u \in Threads, ProcessConnect(u) PROVE FALSE
    <2>1. io["Connect"] # "idle"
      BY <1>1 DEF ProcessConnect, Dequeue
    <2>2. \A v \in Threads : pc[v] = "idle"
      BY <2>1 DEF Fresh
    <2>3. QED
      BY <1>0, <1>1, <2>2 DEF ProcessConnect, Goto, TypeOK
  <1>2. CASE KernelStep
    BY <1>0, <1>2, KernelSteps
  <1>3. CASE \E u \in Threads : Disconnect(u)
    BY <1>3 DEF Disconnect
  <1>4. CASE \E u \in Threads : \/ AddSession(u) \/ OnConnected(u) \/ OffLife(u)
                                \/ RegisterDisconnect(u) \/ ProcessDisconnect(u)
                                \/ ReleaseSession(u)
    BY <1>0, <1>4, OffLifeKeeps
    DEF LifeKept, AddSession, OnConnected, RegisterDisconnect, ProcessDisconnect, ReleaseSession
  <1>5. QED
    BY <1>1, <1>2, <1>3, <1>4 DEF Next, Handle, Step, OffLife, KernelStep

\* The kernel has a cause for every completion of 0 bytes it makes, and whoever
\* acts on one inherits it.
LEMMA NextCaused ==
  ASSUME Inv, Fresh, InFlight, Caused, [Next]_vars
  PROVE  Caused'
  <1>0. TypeOK
    BY DEF Inv
  <1>1. CASE CompleteConnect
    <2>1. io["Connect"] # "idle" /\ UNCHANGED <<pc, connected>>
      BY <1>1 DEF CompleteConnect, Complete, control
    <2>2. ~connected /\ io["Recv"] = "idle" /\ io["Send"] = "idle"
      BY <2>1 DEF Fresh, Ops
    <2>3. io'["Recv"] = "idle" /\ io'["Send"] = "idle"
      BY <1>0, <1>1, <2>2 DEF CompleteConnect, Complete, TypeOK, Ops
    <2>4. QED
      BY <2>1, <2>2, <2>3 DEF Caused
  <1>2. CASE ~CompleteConnect
    <2>1. Cause => Cause'
      BY <1>0, <1>2, CauseStays
    <2>2. ASSUME io'["Recv"] = "zero" PROVE Cause'
      BY <1>0, <2>1, <2>2, ZeroFromKernel DEF Caused, CompleteRecvEnd, Cause, outside
    <2>3. ASSUME io'["Send"] = "zero" PROVE Cause'
      <3>1. CASE CompleteSend
        <4>1. io["Send"] # "idle" /\ UNCHANGED <<sock, faults>>
          BY <3>1 DEF CompleteSend, Complete, outside
        <4>2. CASE sendBuffers = <<>>
          BY <4>1, <4>2 DEF InFlight, EmptyIsNoted, Cause
        <4>3. CASE sendBuffers # <<>>
          <5>1. io["Send"] = "pending"
            BY <3>1 DEF CompleteSend, Complete
          <5>2. CASE sock \in {"closed", "down"}
            BY <5>2, <4>1 DEF Cause
          <5>3. CASE Complete("Send", "ok")
            BY <1>0, <2>3, <5>3 DEF Complete, TypeOK, Ops
          <5>4. QED
            BY <3>1, <4>3, <5>2, <5>3 DEF CompleteSend
        <4>4. QED
          BY <4>2, <4>3
      <3>2. CASE io["Send"] = "zero"
        BY <2>1, <3>2 DEF Caused
      <3>3. QED
        BY <1>0, <2>3, <3>1, <3>2, ZeroFromKernel
    <2>4. ASSUME NEW t \in Threads, connected', pc'[t] = "disconnect" PROVE Cause'
      <3>1. connected
        BY <2>4, ConnectedFrom
      <3>2. CASE "reject" \in faults'
        BY <3>2 DEF Cause
      <3>3. CASE pc[t] = "disconnect" \/ io["Recv"] = "zero" \/ io["Send"] = "zero"
        BY <2>1, <3>1, <3>3 DEF Caused
      <3>4. QED
        BY <2>4, <3>2, <3>3, DisconnectFrom
    <2>5. QED
      BY <2>2, <2>3, <2>4 DEF Caused
  <1>3. QED
    BY <1>1, <1>2

-----------------------------------------------------------------------------
(* The refinement. *)

\* An action that stays off the buffers leaves the channel as it is.
LEMMA KeptChannel ==
  ASSUME UNCHANGED <<pushes, sendQueue, sendBuffers, wire>>,
         io'["Send"] = "idle" <=> io["Send"] = "idle"
  PROVE  UNCHANGED <<pushes, Unsent, wire>>
  BY DEF Unsent

\* The step of the channel that a step of the session is; a drop is remembered.
ChannelStep ==
  \/ UNCHANGED <<pushes, Unsent, wire>>
  \/ Channel!Accept
  \/ Channel!Transmit
  \/ Channel!Drop /\ "Send" \in faults'

\* The channel's sequences, typed.
LEMMA UnsentTyped == TypeOK => Unsent \in Seq(Nat) /\ wire \in Seq(Nat) /\ pushes \in Nat
  <1>1. <<>> \in Seq(Nat)
    OBVIOUS
  <1>2. QED
    BY <1>1 DEF TypeOK, Unsent

\* WSASend takes what was drained: all of it, from the front of what is unsent.
LEMMA WSASendStep ==
  ASSUME Inv, NEW t \in Threads, WSASend(t)
  PROVE  ChannelStep
  <1>0. TypeOK
    BY DEF Inv
  <1>1. io["Send"] = "idle" /\ Unsent = sendBuffers \o sendQueue
    BY <1>0, SenderOwnsEvent DEF WSASend, SendPcs, Unsent
  <1>2. sendBuffers \in Seq(Nat) /\ sendQueue \in Seq(Nat) /\ wire \in Seq(Nat)
    BY <1>0 DEF TypeOK
  <1>3. /\ SubSeq(Unsent, 1, Len(sendBuffers)) = sendBuffers
        /\ SubSeq(Unsent, Len(sendBuffers) + 1, Len(Unsent)) = sendQueue
        /\ Len(Unsent) = Len(sendBuffers) + Len(sendQueue)
    BY <1>1, <1>2, FrontAndRest
  <1>4. UNCHANGED <<sendQueue, pushes>>
    BY DEF WSASend
  <1>5. <<>> \o sendQueue = sendQueue
    BY <1>2
  <1>6. Len(sendBuffers) \in 0 .. Len(Unsent) /\ (sendBuffers # <<>> => Len(sendBuffers) > 0)
    BY <1>2, <1>3
  <1>7. CASE Post("Send")
    <2>1. io'["Send"] = "pending" /\ wire' = wire \o sendBuffers
      BY <1>0, <1>1, <1>7 DEF WSASend, Post, Refuse, TypeOK, Ops
    <2>2. Unsent' = sendQueue
      BY <1>4, <1>5, <2>1 DEF Unsent
    <2>3. CASE sendBuffers = <<>>
      BY <1>1, <1>2, <1>4, <1>5, <2>1, <2>2, <2>3 DEF ChannelStep
    <2>4. CASE sendBuffers # <<>>
      <3>1. Len(sendBuffers) \in 1 .. Len(Unsent)
        BY <1>6, <2>4
      <3>2. /\ wire' = wire \o SubSeq(Unsent, 1, Len(sendBuffers))
            /\ Unsent' = SubSeq(Unsent, Len(sendBuffers) + 1, Len(Unsent))
        BY <1>3, <2>1, <2>2
      <3>3. QED
        BY <1>4, <3>1, <3>2, Zenon DEF ChannelStep, Channel!Transmit
    <2>5. QED
      BY <2>3, <2>4
  <1>8. CASE Refuse("Send") /\ sendBuffers' = <<>> /\ wire' = wire
    <2>1. io' = io /\ "Send" \in faults'
      BY <1>8 DEF Refuse
    <2>2. Unsent' = sendQueue
      BY <1>1, <1>4, <1>5, <1>8, <2>1 DEF Unsent
    <2>3. CASE sendBuffers = <<>>
      BY <1>1, <1>4, <1>5, <1>8, <2>2, <2>3 DEF ChannelStep
    <2>4. CASE sendBuffers # <<>>
      <3>1. Len(sendBuffers) \in 1 .. Len(Unsent)
        BY <1>6, <2>4
      <3>2. Unsent' = SubSeq(Unsent, Len(sendBuffers) + 1, Len(Unsent))
        BY <1>3, <2>2
      <3>3. QED
        BY <1>4, <1>8, <2>1, <3>1, <3>2, Zenon DEF ChannelStep, Channel!Drop
    <2>5. QED
      BY <2>3, <2>4
  <1>9. QED
    BY <1>7, <1>8 DEF WSASend

\* The overlap that may tear std::queue: RegisterSend pops under a mutex of its own
\* while another thread pushes under lock_. The code does not exclude it.
Apart == Torn => ~\E t, u \in Threads : pc[t] = "push" /\ pc[u] = "pop"

Untorn == Torn => ~raced

\* No push runs into a pop that ran beside it, as long as they stay apart.
LEMMA NextUntorn ==
  ASSUME TypeOK, Apart, Untorn, [Next]_vars
  PROVE  Untorn'
  <1>1. CASE \E t \in Threads : Pop(t)
    BY <1>1 DEF Pop, Apart, Untorn
  <1>2. CASE \E t \in Threads : SendPush(t)
    BY <1>2 DEF SendPush, Untorn
  <1>3. ASSUME NEW t \in Threads, OffBuffers(t) \/ WSASend(t) \/ ProcessSend(t)
        PROVE  raced' = raced
    BY <1>3, OffBuffersKeeps DEF BuffersKept, WSASend, ProcessSend
  <1>4. CASE KernelStep
    BY <1>4, KernelSteps DEF Untorn
  <1>5. QED
    BY <1>1, <1>2, <1>3, <1>4 DEF Next, Handle, Step, OffBuffers, KernelStep, Untorn

\* A push is accepted, a pop moves a buffer between two places that both count,
\* a completion ends what was already sent.
LEMMA NextChannel ==
  ASSUME Apart, Untorn, Inv, [Next]_vars
  PROVE  ChannelStep
  <1>0. TypeOK
    BY DEF Inv
  <1>1. ASSUME NEW t \in Threads, OffBuffers(t) PROVE ChannelStep
    BY <1>0, <1>1, OffBuffersKeeps, KeptChannel DEF BuffersKept, ChannelStep
  <1>2. ASSUME NEW t \in Threads, SendPush(t) PROVE ChannelStep
    <2>1. PushResults(pushes + 1) = {<<pushes + 1>>}
      BY <1>2 DEF PushResults, SendPush, Apart, Untorn
    <2>2. sendQueue' = sendQueue \o <<pushes + 1>>
      BY <1>2, <2>1 DEF SendPush
    <2>3. UNCHANGED <<io, sendBuffers, wire>> /\ pushes' = pushes + 1
      BY <1>2 DEF SendPush, events
    <2>4. DEFINE held == IF io["Send"] = "idle" THEN sendBuffers ELSE <<>>
    <2>5. held \in Seq(Nat) /\ sendQueue \in Seq(Nat) /\ pushes \in Nat
      BY <1>0 DEF TypeOK
    <2>6. Unsent = held \o sendQueue /\ Unsent' = held \o (sendQueue \o <<pushes + 1>>)
      BY <2>2, <2>3 DEF Unsent
    <2>7. Unsent' = Append(Unsent, pushes + 1)
      <3> HIDE DEF held
      <3>1. QED
        BY <2>5, <2>6
    <2>8. QED
      BY <2>3, <2>7 DEF ChannelStep, Channel!Accept
  <1>3. ASSUME NEW t \in Threads, Pop(t) PROVE ChannelStep
    <2>1. io["Send"] = "idle" /\ sendQueue # <<>>
      BY <1>3, SenderOwnsEvent DEF Pop, SendPcs, Inv, SendInv, PopHasBuffer
    <2>2. UNCHANGED <<io, pushes, wire>>
      BY <1>3 DEF Pop, events
    <2>3. Append(sendBuffers, Head(sendQueue)) \o Tail(sendQueue) = sendBuffers \o sendQueue
      BY <1>0, <2>1, PopMoves DEF TypeOK
    <2>4. Unsent' = Unsent
      BY <1>3, <2>1, <2>2, <2>3 DEF Pop, Unsent
    <2>5. QED
      BY <2>2, <2>4 DEF ChannelStep
  <1>4. ASSUME NEW t \in Threads, WSASend(t) PROVE ChannelStep
    BY <1>4, WSASendStep
  <1>5. ASSUME NEW t \in Threads, ProcessSend(t) PROVE ChannelStep
    <2>1. io["Send"] # "idle" /\ sendBuffers' = <<>> /\ UNCHANGED <<sendQueue, pushes, wire>>
      BY <1>5 DEF ProcessSend, Dequeue
    <2>2. Unsent' = Unsent
      BY <2>1 DEF Unsent
    <2>3. QED
      BY <2>1, <2>2 DEF ChannelStep
  <1>6. CASE KernelStep
    <2>1. UNCHANGED <<pushes, sendQueue, sendBuffers, wire>> /\ CompletesOnly
      BY <1>0, <1>6, KernelSteps
    <2>2. io'["Send"] = "idle" <=> io["Send"] = "idle"
      BY <2>1 DEF CompletesOnly, Ops
    <2>3. QED
      BY <2>1, <2>2, KeptChannel DEF ChannelStep
  <1>7. QED
    BY <1>1, <1>2, <1>3, <1>4, <1>5, <1>6 DEF Next, Handle, Step, OffBuffers, KernelStep

\* Tickets in their order, one more.
LEMMA OneMore ==
  ASSUME NEW n \in Nat
  PROVE  Append([i \in 1..n |-> i], n + 1) = [i \in 1..(n + 1) |-> i]
  OBVIOUS

\* Unless Winsock refused a WSASend, the tickets handed to the socket and those still
\* held are all of them, in the order of the pushes.
AllOnTheirWay == "Send" \notin faults => wire \o Unsent = [i \in 1..pushes |-> i]

\* Each step of the channel that drops nothing keeps all tickets in order.
LEMMA NextAllOnTheirWay ==
  ASSUME Apart, Untorn, Inv, AllOnTheirWay, [Next]_vars
  PROVE  AllOnTheirWay'
  <1> SUFFICES ASSUME "Send" \notin faults'
               PROVE  (wire \o Unsent = [i \in 1..pushes |-> i])'
    BY DEF AllOnTheirWay
  <1>1. wire \o Unsent = [i \in 1..pushes |-> i]
    BY FaultsGrow DEF AllOnTheirWay
  <1>2. wire \in Seq(Nat) /\ Unsent \in Seq(Nat) /\ pushes \in Nat
    BY UnsentTyped DEF Inv
  <1>3. CASE UNCHANGED <<pushes, Unsent, wire>>
    BY <1>1, <1>3
  <1>4. CASE Channel!Accept
    <2>1. wire' \o Unsent' = wire \o Append(Unsent, pushes + 1) /\ pushes' = pushes + 1
      BY <1>4 DEF Channel!Accept
    <2>2. wire \o Append(Unsent, pushes + 1) = Append(wire \o Unsent, pushes + 1)
      BY <1>2
    <2>3. QED
      BY <1>1, <1>2, <2>1, <2>2, OneMore
  <1>5. CASE Channel!Transmit
    <2>1. PICK n \in 1..Len(Unsent) :
            /\ wire' = wire \o SubSeq(Unsent, 1, n)
            /\ Unsent' = SubSeq(Unsent, n + 1, Len(Unsent))
            /\ pushes' = pushes
      BY <1>5 DEF Channel!Transmit
    <2>2. (wire \o SubSeq(Unsent, 1, n)) \o SubSeq(Unsent, n + 1, Len(Unsent)) = wire \o Unsent
      BY <1>2, CutAnywhere
    <2>3. QED
      BY <1>1, <2>1, <2>2
  <1>6. QED
    BY <1>3, <1>4, <1>5, NextChannel DEF ChannelStep

-----------------------------------------------------------------------------
(* The theorems. *)

BufferInv == LifeInv /\ InFlight /\ Caused

\* The invariant holds of a session that is still connecting.
LEMMA InitBufferInv == Init => BufferInv
  <1> SUFFICES ASSUME Init PROVE BufferInv
    OBVIOUS
  <1>1. InFlight /\ Caused
    BY DEF Init, InFlight, PostedAtEnd, EmptyIsNoted, Caused, Cause, Ops
  <1>2. QED
    BY <1>1, InitLifeInv DEF BufferInv

\* Every step preserves it.
LEMMA NextBufferInv == BufferInv /\ [Next]_vars => BufferInv'
  BY NextLifeInv, NextInFlight, NextCaused DEF BufferInv, LifeInv

\* Every reachable state satisfies the inductive invariant.
THEOREM BufferInvariance == Spec => []BufferInv
  BY InitBufferInv, NextBufferInv, PTL DEF Spec

\* The buffers a posted WSASend reads stay in sendEvent_ as long as the kernel
\* has them, whoever pushes, drains or disconnects meanwhile.
THEOREM InFlightIsPinned == Spec => []InFlightPinned
  <1>1. BufferInv => InFlightPinned
    <2> SUFFICES ASSUME BufferInv, io["Send"] = "pending"
                 PROVE  IsSuffix(sendBuffers, wire) /\ (sendBuffers # <<>> \/ "empty" \in faults)
      BY DEF InFlightPinned
    <2>1. PICK w \in Seq(Nat) : wire = w \o sendBuffers
      BY DEF BufferInv, InFlight, PostedAtEnd
    <2>2. sendBuffers \in Seq(Nat)
      BY DEF BufferInv, LifeInv, Inv, TypeOK
    <2>3. IsSuffix(sendBuffers, wire)
      BY <2>1, <2>2, BehindIsSuffix
    <2>4. QED
      BY <2>3 DEF BufferInv, InFlight, EmptyIsNoted
  <1>2. QED
    BY <1>1, BufferInvariance, PTL

\* Tearing is all that loses: whether or not an overlap would tear std::queue, in every
\* behaviour in which none that could takes place no buffer is lost, sent twice or
\* overtaken, whatever flags, drains and teardowns interleave, unless Winsock refuses a
\* WSASend (Session::Send, RegisterSend, ProcessSend).
THEOREM OnlyTearingLoses == Spec /\ []Apart => []AllOnTheirWay
  <1>1. Init => Untorn /\ AllOnTheirWay
    <2> SUFFICES ASSUME Init PROVE Untorn /\ AllOnTheirWay
      OBVIOUS
    <2>1. wire \o Unsent = <<>> /\ pushes = 0
      BY DEF Init, Unsent, Ops
    <2>2. [i \in 1..0 |-> i] = <<>>
      OBVIOUS
    <2>3. QED
      BY <2>1, <2>2 DEF Init, Untorn, AllOnTheirWay
  <1>2. Apart /\ Inv /\ Untorn /\ AllOnTheirWay /\ [Next]_vars
          => Untorn' /\ AllOnTheirWay'
    BY NextUntorn, NextAllOnTheirWay DEF Inv
  <1>3. QED
    BY <1>1, <1>2, Invariance, PTL DEF Spec

\* A connection goes down only after the stream ended, the callback rejected the
\* data, or a WSASend was posted with no buffer.
THEOREM DisconnectAlwaysHasCause == Spec => DisconnectHasCause
  <1>1. BufferInv /\ [Next]_vars =>
          [connected /\ ~connected' =>
             sock # "open" \/ "reject" \in faults \/ "empty" \in faults]_vars
    <2> SUFFICES ASSUME BufferInv, [Next]_vars, connected, ~connected'
                 PROVE  Cause
      BY DEF Cause
    <2>0. TypeOK
      BY DEF BufferInv, LifeInv, Inv
    <2>1. CASE \E t \in Threads : Disconnect(t)
      BY <2>1 DEF Disconnect, BufferInv, Caused
    <2>2. CASE KernelStep
      BY <2>0, <2>2, KernelSteps
    <2>3. CASE \E t \in Threads : \/ AddSession(t) \/ OnConnected(t) \/ OffLife(t)
                                  \/ RegisterDisconnect(t) \/ ProcessDisconnect(t)
                                  \/ ReleaseSession(t) \/ ProcessConnect(t)
      BY <2>0, <2>3, OffLifeKeeps
      DEF LifeKept, AddSession, OnConnected, RegisterDisconnect, ProcessDisconnect,
        ReleaseSession, ProcessConnect
    <2>4. QED
      BY <2>1, <2>2, <2>3 DEF Next, Handle, Step, OffLife, KernelStep
  <1>2. QED
    BY <1>1, BufferInvariance, PTL DEF Spec, DisconnectHasCause

\* As long as no overlap tears std::queue, the send path with its flag, its drain and
\* its refused calls implements the channel that SendChannel specifies; where an overlap
\* tears nothing (Torn = FALSE) every behaviour does.
THEOREM SendImplementsChannel == Spec /\ []Apart => ImplementsChannel
  <1>1. Init => Channel!Init /\ Untorn
    BY DEF Init, Channel!Init, Unsent, Ops, Untorn
  <1>2. Inv /\ Apart /\ Untorn /\ [Next]_vars => Untorn'
    BY NextUntorn DEF Inv
  <1>3. Apart /\ Untorn /\ Inv /\ [Next]_vars => [Channel!Next]_(Channel!chan)
    BY NextChannel DEF ChannelStep, Channel!Next, Channel!chan
  <1>4. QED
    BY <1>1, <1>2, <1>3, Invariance, PTL DEF Spec, Channel!Spec, ImplementsChannel
=============================================================================

---------------------------- MODULE SessionProofs ----------------------------
(***************************************************************************)
(* Proofs about Session, for any number of worker threads, any number of   *)
(* calls, either role and every fault.  First the types and the exclusive  *)
(* use of sendEvent_, of recvEvent_ and of recvBuf_; then the life of the  *)
(* session: one teardown, tables that agree with it, owners that last as   *)
(* long as the operations they own.                                        *)
(***************************************************************************)
EXTENDS SessionProperties, TLAPS

-----------------------------------------------------------------------------
(* The strengthened invariants.                                            *)

\* The flag is set as long as anybody works on sendEvent_ or WSASend is out:
\* what SendExchange and ProcessSend rely on.
FlagCoversSend ==
  (\E t \in Threads : InSend(t)) \/ io["Send"] # "idle" => sendRegistered

\* Nobody pops from an empty queue: the drain loop's empty() test still holds
\* when the front is taken, since only the flag's holder takes.
PopHasBuffer == \A t \in Threads : pc[t] = "pop" => sendQueue # <<>>

SendInv == SendEventExclusive /\ FlagCoversSend /\ PopHasBuffer

\* A return address is kept only while the thread is inside Send.
CalledInsideSend ==
  \A t \in Threads : ret[t] # "idle" =>
    pc[t] \in SendPcs \cup {"sendCheck", "lock", "push", "exchange"}

Inv == TypeOK /\ SendInv /\ CalledInsideSend /\ RecvEventExclusive

-----------------------------------------------------------------------------
(* Types, in four parts that different actions disturb.                    *)

ControlOK ==
  /\ pc \in [Threads -> Labels]
  /\ ret \in [Threads -> {"idle", "recvDone", "recvCheck"}]

EventsOK ==
  /\ io \in [Ops -> OpStates]
  /\ owner \in [Ops -> BOOLEAN]

QueuesOK ==
  /\ sendQueue \in Seq(Nat)
  /\ sendBuffers \in Seq(Nat)
  /\ pushes \in Nat
  /\ wire \in Seq(Nat)

RestOK ==
  /\ connected \in BOOLEAN
  /\ sendRegistered \in BOOLEAN
  /\ lock \in Threads \cup {NoThread}
  /\ raced \in BOOLEAN
  /\ inService \in BOOLEAN
  /\ inManager \in BOOLEAN
  /\ sock \in Transports
  /\ calls \in 0..MaxCalls
  /\ faults \subseteq {"Recv", "Send", "Disconnect", "empty", "reject"}

\* Labels and return addresses stay within their sets.
LEMMA NextControl == ControlOK /\ [Next]_vars => ControlOK'
  <1> SUFFICES ASSUME ControlOK, [Next]_vars PROVE ControlOK'
    OBVIOUS
  <1> USE DEF ControlOK, Labels, SendPcs, RecvPcs, Goto, Return, CallSend, Dequeue
  <1>1. ASSUME NEW t \in Threads, Handle(t) PROVE ControlOK'
    BY <1>1 DEF Handle, ProcessConnect, ProcessRecv, ProcessSend, ProcessDisconnect
  <1>2. ASSUME NEW t \in Threads, Step(t) PROVE ControlOK'
    <2>1. CASE AddSession(t) \/ OnConnected(t) \/ RegisterRecv(t) \/ WSARecv(t) \/ OnRecv(t)
               \/ FinishRecv(t)
      BY <2>1 DEF AddSession, OnConnected, GameOnConnected, ClientOnConnected, RegisterRecv,
        WSARecv, OnRecv, GameOnRecv, ClientOnRecv, FinishRecv
    <2>2. CASE SendCheck(t) \/ SendLock(t) \/ SendPush(t) \/ SendExchange(t)
      BY <2>2 DEF SendCheck, SendLock, SendPush, SendExchange
    <2>3. CASE RegisterSend(t) \/ Drain(t) \/ Pop(t) \/ WSASend(t) \/ ClearFlag(t) \/ CheckEmpty(t)
      BY <2>3 DEF RegisterSend, Drain, Pop, WSASend, ClearFlag, CheckEmpty
    <2>4. CASE Disconnect(t) \/ RegisterDisconnect(t) \/ ReleaseSession(t)
      BY <2>4 DEF Disconnect, RegisterDisconnect, ReleaseSession
    <2>5. QED
      BY <1>2, <2>1, <2>2, <2>3, <2>4 DEF Step
  <1>3. ASSUME NEW t \in Threads, Broadcast(t) PROVE ControlOK'
    BY <1>3 DEF Broadcast
  <1>4. CASE Kernel \/ CompleteRecvData \/ PeerClose \/ AtRest \/ UNCHANGED vars
    BY <1>4 DEF Kernel, CompleteConnect, CompleteRecvEnd, CompleteSend, CompleteDisconnect,
      CompleteRecvData, PeerClose, AtRest, vars, control
  <1>5. QED
    BY <1>1, <1>2, <1>3, <1>4 DEF Next

\* Posting, refusing, dequeuing and completing keep the events well typed.
LEMMA EventSteps ==
  ASSUME EventsOK, NEW op \in Ops, NEW t, NEW result \in OpStates,
         \/ Post(op) \/ Refuse(op) \/ Dequeue(t, op, result)
         \/ Complete(op, result) /\ UNCHANGED owner
         \/ UNCHANGED events
  PROVE  EventsOK'
  BY DEF EventsOK, Post, Refuse, Dequeue, Complete, OpStates, events

\* ... and every action does only that to them, or claims the owner for a send.
LEMMA NextEvents == EventsOK /\ [Next]_vars => EventsOK'
  <1> SUFFICES ASSUME EventsOK, [Next]_vars PROVE EventsOK'
    OBVIOUS
  <1> USE EventSteps DEF Ops, OpStates
  <1>1. ASSUME NEW t \in Threads, Handle(t) PROVE EventsOK'
    BY <1>1 DEF Handle, ProcessConnect, ProcessRecv, ProcessSend, ProcessDisconnect
  <1>2. ASSUME NEW t \in Threads, Step(t) PROVE EventsOK'
    <2>1. CASE WSARecv(t) \/ WSASend(t) \/ RegisterDisconnect(t)
      BY <2>1 DEF WSARecv, WSASend, RegisterDisconnect
    <2>2. CASE RegisterSend(t)
      BY <2>2 DEF RegisterSend, EventsOK, events
    <2>3. QED
      BY <1>2, <2>1, <2>2 DEF Step, AddSession, OnConnected, GameOnConnected, ClientOnConnected,
        RegisterRecv, OnRecv, GameOnRecv, ClientOnRecv, FinishRecv, SendCheck, SendLock, SendPush,
        SendExchange, Drain, Pop, ClearFlag, CheckEmpty, Disconnect, ReleaseSession
  <1>3. ASSUME NEW t \in Threads, Broadcast(t) PROVE EventsOK'
    BY <1>3 DEF Broadcast
  <1>4. CASE Kernel \/ CompleteRecvData
    BY <1>4 DEF Kernel, CompleteConnect, CompleteRecvEnd, CompleteSend, CompleteDisconnect,
      CompleteRecvData
  <1>5. CASE PeerClose \/ AtRest \/ UNCHANGED vars
    BY <1>5 DEF PeerClose, AtRest, vars
  <1>6. QED
    BY <1>1, <1>2, <1>3, <1>4, <1>5 DEF Next

\* A torn push leaves tickets at the tail, nothing else.
LEMMA PushResultsAreSeqs ==
  ASSUME NEW m \in Nat
  PROVE  PushResults(m) \subseteq Seq(Nat)
  <1>1. Stale \in Nat
    BY DEF Stale
  <1>2. /\ <<m>> \in Seq(Nat) /\ <<>> \in Seq(Nat)
        /\ <<m, Stale>> \in Seq(Nat) /\ <<Stale>> \in Seq(Nat)
    BY <1>1
  <1>3. PushResults(m) \subseteq {<<m>>, <<>>, <<m, Stale>>, <<Stale>>}
    BY DEF PushResults
  <1>4. QED
    BY <1>2, <1>3

\* Tickets only: Pop takes from a queue that has one.
LEMMA NextQueues == QueuesOK /\ PopHasBuffer /\ [Next]_vars => QueuesOK'
  <1> SUFFICES ASSUME QueuesOK, PopHasBuffer, [Next]_vars PROVE QueuesOK'
    OBVIOUS
  <1> USE DEF QueuesOK
  <1>1. ASSUME NEW t \in Threads, SendPush(t) PROVE QueuesOK'
    <2>1. \A tail \in PushResults(pushes + 1) : tail \in Seq(Nat)
      BY PushResultsAreSeqs
    <2>2. \A tail \in Seq(Nat) : sendQueue \o tail \in Seq(Nat)
      OBVIOUS
    <2>3. QED
      BY <1>1, <2>1, <2>2 DEF SendPush
  <1>2. ASSUME NEW t \in Threads, Pop(t) PROVE QueuesOK'
    BY <1>2 DEF Pop, PopHasBuffer
  <1>3. ASSUME NEW t \in Threads, WSASend(t) PROVE QueuesOK'
    <2>1. wire \o sendBuffers \in Seq(Nat) /\ <<>> \in Seq(Nat)
      OBVIOUS
    <2>2. QED
      BY <1>3, <2>1 DEF WSASend
  <1>4. ASSUME NEW t \in Threads, ProcessSend(t) PROVE QueuesOK'
    BY <1>4 DEF ProcessSend
  <1>5. CASE UNCHANGED sending
    BY <1>5 DEF sending
  <1>6. ASSUME NEW t \in Threads, SendLock(t) \/ SendExchange(t) \/ ClearFlag(t) PROVE QueuesOK'
    BY <1>6 DEF SendLock, SendExchange, ClearFlag
  <1>7. QED
    BY <1>1, <1>2, <1>3, <1>4, <1>5, <1>6
    DEF Next, Handle, Step, Kernel, ProcessConnect, ProcessRecv, ProcessDisconnect, AddSession,
      OnConnected, GameOnConnected, ClientOnConnected, RegisterRecv, WSARecv, OnRecv, GameOnRecv,
      ClientOnRecv, FinishRecv, Broadcast, SendCheck, RegisterSend, Drain, CheckEmpty, Disconnect,
      RegisterDisconnect, ReleaseSession, CompleteConnect, CompleteRecvEnd, CompleteSend,
      CompleteDisconnect, CompleteRecvData, PeerClose, AtRest, vars

\* The flags, the lock, the tables and the bounded counters.
LEMMA NextRest == RestOK /\ [Next]_vars => RestOK'
  <1> SUFFICES ASSUME RestOK, [Next]_vars PROVE RestOK'
    OBVIOUS
  <1> USE SessionAssumption DEF RestOK, Transports, outside, tables, sending
  <1>1. ASSUME NEW t \in Threads, Handle(t) PROVE RestOK'
    BY <1>1 DEF Handle, ProcessConnect, ProcessRecv, ProcessSend, ProcessDisconnect
  <1>2. ASSUME NEW t \in Threads, Step(t) PROVE RestOK'
    <2>1. CASE AddSession(t) \/ OnConnected(t) \/ RegisterRecv(t) \/ WSARecv(t) \/ OnRecv(t)
               \/ FinishRecv(t)
      BY <2>1 DEF AddSession, OnConnected, GameOnConnected, ClientOnConnected, RegisterRecv,
        WSARecv, OnRecv, GameOnRecv, ClientOnRecv, FinishRecv, Refuse
    <2>2. CASE SendCheck(t) \/ SendLock(t) \/ SendPush(t) \/ SendExchange(t)
      BY <2>2 DEF SendCheck, SendLock, SendPush, SendExchange
    <2>3. CASE RegisterSend(t) \/ Drain(t) \/ Pop(t) \/ WSASend(t) \/ ClearFlag(t) \/ CheckEmpty(t)
      BY <2>3 DEF RegisterSend, Drain, Pop, WSASend, ClearFlag, CheckEmpty, Refuse
    <2>4. CASE Disconnect(t) \/ RegisterDisconnect(t) \/ ReleaseSession(t)
      BY <2>4 DEF Disconnect, RegisterDisconnect, ReleaseSession, Refuse
    <2>5. QED
      BY <1>2, <2>1, <2>2, <2>3, <2>4 DEF Step
  <1>3. ASSUME NEW t \in Threads, Broadcast(t) PROVE RestOK'
    BY <1>3 DEF Broadcast
  <1>4. CASE Kernel \/ CompleteRecvData \/ PeerClose \/ AtRest \/ UNCHANGED vars
    BY <1>4 DEF Kernel, CompleteConnect, CompleteRecvEnd, CompleteSend, CompleteDisconnect,
      CompleteRecvData, PeerClose, AtRest, vars
  <1>5. QED
    BY <1>1, <1>2, <1>3, <1>4 DEF Next

\* The four parts make up TypeOK.
LEMMA TypeParts == TypeOK <=> ControlOK /\ EventsOK /\ QueuesOK /\ RestOK
  BY DEF TypeOK, ControlOK, EventsOK, QueuesOK, RestOK

\* TypeOK is inductive once Pop is known to find a buffer.
LEMMA NextTypeOK == TypeOK /\ PopHasBuffer /\ [Next]_vars => TypeOK'
  <1>1. TypeOK' <=> ControlOK' /\ EventsOK' /\ QueuesOK' /\ RestOK'
    BY DEF TypeOK, ControlOK, EventsOK, QueuesOK, RestOK
  <1>2. QED
    BY <1>1, TypeParts, NextControl, NextEvents, NextQueues, NextRest

-----------------------------------------------------------------------------
\* What the kernel may do to the session: complete posted operations.
KernelStep ==
  Kernel \/ CompleteRecvData \/ PeerClose \/ AtRest \/ UNCHANGED vars

CompletesOnly ==
  \A op \in Ops : \/ io'[op] = io[op]
                  \/ /\ io[op] = "pending"
                     /\ io'[op] \in {"ok", "zero"}

\* One completion changes one pending operation.
LEMMA CompleteCompletes ==
  ASSUME io \in [Ops -> OpStates], NEW op \in Ops, NEW result \in {"ok", "zero"},
         Complete(op, result)
  PROVE  CompletesOnly
  BY DEF Complete, CompletesOnly

\* The kernel and the peer leave everything the threads own as it is.
LEMMA KernelSteps ==
  ASSUME TypeOK, KernelStep
  PROVE  /\ UNCHANGED <<pc, ret, connected, sendRegistered, lock, sendQueue, sendBuffers, raced,
                        pushes, wire, owner, inService, inManager, faults>>
         /\ CompletesOnly
  <1>1. UNCHANGED <<control, connected, sending, owner, tables, faults>>
    BY DEF KernelStep, Kernel, CompleteConnect, CompleteRecvEnd, CompleteSend, CompleteDisconnect,
      CompleteRecvData, PeerClose, AtRest, vars, events, outside
  <1>2. CompletesOnly
    <2>1. CASE PeerClose \/ AtRest \/ UNCHANGED vars
      BY <2>1 DEF PeerClose, AtRest, vars, events, CompletesOnly
    <2>2. CASE Kernel \/ CompleteRecvData
      <3>1. PICK op \in Ops, result \in {"ok", "zero"} : Complete(op, result)
        BY <2>2 DEF Kernel, CompleteConnect, CompleteRecvEnd, CompleteSend, CompleteDisconnect,
          CompleteRecvData, Ops
      <3>2. io \in [Ops -> OpStates]
        BY DEF TypeOK
      <3>3. QED
        BY <3>1, <3>2, CompleteCompletes
    <2>3. QED
      BY <2>1, <2>2 DEF KernelStep
  <1>3. QED
    BY <1>1, <1>2 DEF control, sending, tables

-----------------------------------------------------------------------------
(* sendEvent_.                                                             *)

\* What an action that stays off sendEvent_ keeps.
SendKept ==
  /\ \A u \in Threads : InSend(u)' => InSend(u)
  /\ \A u \in Threads : pc'[u] = "pop" => pc[u] = "pop"
  /\ sendQueue # <<>> => sendQueue' # <<>>
  /\ io["Send"]' = io["Send"]
  /\ sendRegistered' = sendRegistered

\* ... and by that the invariant.
LEMMA KeptSendInv == SendInv /\ SendKept => SendInv'
  BY DEF SendInv, SendKept, SendEventExclusive, FlagCoversSend, PopHasBuffer

OffSend(t) ==
  \/ ProcessConnect(t) \/ ProcessRecv(t) \/ ProcessDisconnect(t)
  \/ AddSession(t) \/ OnConnected(t) \/ RegisterRecv(t) \/ WSARecv(t) \/ OnRecv(t)
  \/ FinishRecv(t) \/ Broadcast(t) \/ SendCheck(t) \/ SendLock(t) \/ SendPush(t)
  \/ Disconnect(t) \/ RegisterDisconnect(t) \/ ReleaseSession(t)

\* All actions but those of RegisterSend and ProcessSend are of this kind.
LEMMA OffSendKeeps ==
  ASSUME TypeOK, NEW t \in Threads, OffSend(t)
  PROVE  SendKept
  <1>1. /\ \A u \in Threads : InSend(u)' => InSend(u)
        /\ \A u \in Threads : pc'[u] = "pop" => pc[u] = "pop"
    BY DEF OffSend, TypeOK, InSend, SendPcs, ProcessConnect, ProcessRecv, ProcessDisconnect,
      AddSession, OnConnected, GameOnConnected, ClientOnConnected, RegisterRecv, WSARecv, OnRecv,
      GameOnRecv, ClientOnRecv, FinishRecv, Broadcast, SendCheck, SendLock, SendPush, Disconnect,
      RegisterDisconnect, ReleaseSession, Dequeue, Goto, Return, CallSend
  <1>2. io["Send"]' = io["Send"]
    BY DEF OffSend, TypeOK, Ops, ProcessConnect, ProcessRecv, ProcessDisconnect, AddSession,
      OnConnected, GameOnConnected, ClientOnConnected, RegisterRecv, WSARecv, OnRecv, GameOnRecv,
      ClientOnRecv, FinishRecv, Broadcast, SendCheck, SendLock, SendPush, Disconnect,
      RegisterDisconnect, ReleaseSession, Dequeue, Post, Refuse, events
  <1>3. sendRegistered' = sendRegistered
    BY DEF OffSend, ProcessConnect, ProcessRecv, ProcessDisconnect, AddSession, OnConnected,
      GameOnConnected, ClientOnConnected, RegisterRecv, WSARecv, OnRecv, GameOnRecv, ClientOnRecv,
      FinishRecv, Broadcast, SendCheck, SendLock, SendPush, Disconnect, RegisterDisconnect,
      ReleaseSession, sending
  <1>4. CASE SendPush(t)
    <2>1. \A tail \in PushResults(pushes + 1) : tail \in Seq(Nat)
      BY PushResultsAreSeqs DEF TypeOK
    <2>2. \A tail \in Seq(Nat) : sendQueue # <<>> => sendQueue \o tail # <<>>
      BY DEF TypeOK
    <2>3. sendQueue # <<>> => sendQueue' # <<>>
      BY <1>4, <2>1, <2>2 DEF SendPush
    <2>4. QED
      BY <1>1, <1>2, <1>3, <2>3 DEF SendKept
  <1>5. CASE sendQueue' = sendQueue
    BY <1>1, <1>2, <1>3, <1>5 DEF SendKept
  <1>6. QED
    BY <1>4, <1>5 DEF OffSend, ProcessConnect, ProcessRecv, ProcessDisconnect, AddSession,
      OnConnected, GameOnConnected, ClientOnConnected, RegisterRecv, WSARecv, OnRecv, GameOnRecv,
      ClientOnRecv, FinishRecv, Broadcast, SendCheck, SendLock, Disconnect, RegisterDisconnect,
      ReleaseSession, sending

\* The flag is what excludes: whoever wins the exchange finds nobody at work and
\* nothing posted; whoever dequeues the completion inherits the flag from it.
LEMMA NextSendInv == TypeOK /\ SendInv /\ [Next]_vars => SendInv'
  <1> SUFFICES ASSUME TypeOK, SendInv, [Next]_vars PROVE SendInv'
    OBVIOUS
  <1>1. ASSUME NEW t \in Threads, OffSend(t) PROVE SendInv'
    BY <1>1, OffSendKeeps, KeptSendInv
  <1>2. ASSUME NEW t \in Threads, SendExchange(t) PROVE SendInv'
    <2>1. CASE sendRegistered
      <3>1. SendKept
        BY <1>2, <2>1 DEF SendKept, SendExchange, TypeOK, InSend, SendPcs, Return, events
      <3>2. QED
        BY <3>1, KeptSendInv
    <2>2. CASE ~sendRegistered
      <3>1. /\ \A u \in Threads : ~InSend(u)
            /\ io["Send"] = "idle"
        BY <2>2 DEF SendInv, FlagCoversSend
      <3>2. /\ \A u \in Threads : u # t => ~InSend(u)'
            /\ pc'[t] = "regSend"
        BY <1>2, <2>2, <3>1 DEF SendExchange, Goto, TypeOK, InSend
      <3>3. sendRegistered' /\ io' = io
        BY <1>2 DEF SendExchange, events
      <3>4. QED
        BY <3>1, <3>2, <3>3 DEF SendInv, SendEventExclusive, FlagCoversSend, PopHasBuffer, InSend,
          SendPcs
    <2>3. QED
      BY <2>1, <2>2
  <1>3. ASSUME NEW t \in Threads, RegisterSend(t) \/ Drain(t) \/ Pop(t) \/ CheckEmpty(t) PROVE SendInv'
    <2>1. InSend(t)
      BY <1>3 DEF RegisterSend, Drain, Pop, CheckEmpty, InSend, SendPcs
    <2>2. \A u \in Threads : u # t => ~InSend(u)
      BY <2>1 DEF SendInv, SendEventExclusive
    <2>3. \A u \in Threads : u # t => ~InSend(u)'
      BY <1>3, <2>2 DEF RegisterSend, Drain, Pop, CheckEmpty, InSend, TypeOK, Goto, Return
    <2>4. pc'[t] = "pop" => sendQueue' # <<>>
      BY <1>3 DEF RegisterSend, Drain, Pop, CheckEmpty, TypeOK, Goto, Return, sending
    <2>5. io' = io /\ sendRegistered' = sendRegistered
      BY <1>3 DEF RegisterSend, Drain, Pop, CheckEmpty, events, sending
    <2>6. QED
      BY <2>1, <2>2, <2>3, <2>4, <2>5 DEF SendInv, SendEventExclusive, FlagCoversSend,
        PopHasBuffer, InSend, SendPcs
  <1>4. ASSUME NEW t \in Threads, WSASend(t) PROVE SendInv'
    <2>1. InSend(t)
      BY <1>4 DEF WSASend, InSend, SendPcs
    <2>2. \A u \in Threads : u # t => ~InSend(u)
      BY <2>1 DEF SendInv, SendEventExclusive
    <2>3. \A u \in Threads : u # t => ~InSend(u)'
      BY <1>4, <2>2 DEF WSASend, InSend, TypeOK, Goto, Return
    <2>4. io["Send"] = "idle" /\ sendRegistered /\ sendRegistered'
      BY <1>4, <2>1 DEF WSASend, SendInv, SendEventExclusive, FlagCoversSend
    <2>5. \/ pc'[t] = "clear" /\ io' = io
          \/ pc'[t] \in {"idle", "recvDone", "recvCheck"} /\ io'["Send"] = "pending"
      BY <1>4, <2>4 DEF WSASend, TypeOK, Ops, Goto, Return, Post, Refuse
    <2>6. QED
      BY <2>3, <2>4, <2>5 DEF SendInv, SendEventExclusive, FlagCoversSend, PopHasBuffer, InSend,
        SendPcs
  <1>5. ASSUME NEW t \in Threads, ClearFlag(t) PROVE SendInv'
    <2>1. InSend(t)
      BY <1>5 DEF ClearFlag, InSend, SendPcs
    <2>2. (\A u \in Threads : u # t => ~InSend(u)) /\ io["Send"] = "idle"
      BY <2>1 DEF SendInv, SendEventExclusive
    <2>3. \A u \in Threads : ~InSend(u)'
      BY <1>5, <2>2 DEF ClearFlag, InSend, SendPcs, TypeOK, Return
    <2>4. io' = io
      BY <1>5 DEF ClearFlag, events
    <2>5. QED
      BY <2>2, <2>3, <2>4 DEF SendInv, SendEventExclusive, FlagCoversSend, PopHasBuffer, InSend,
        SendPcs
  <1>6. ASSUME NEW t \in Threads, ProcessSend(t) PROVE SendInv'
    <2>1. io["Send"] # "idle"
      BY <1>6 DEF ProcessSend, Dequeue
    <2>2. (\A u \in Threads : ~InSend(u)) /\ sendRegistered
      BY <2>1 DEF SendInv, SendEventExclusive, FlagCoversSend
    <2>3. \A u \in Threads : u # t => ~InSend(u)'
      BY <1>6, <2>2 DEF ProcessSend, InSend, TypeOK, Goto
    <2>4. pc'[t] \in {"disconnect", "checkEmpty"} /\ io'["Send"] = "idle"
      BY <1>6 DEF ProcessSend, Dequeue, TypeOK, Ops, Goto
    <2>5. sendRegistered'
      BY <1>6, <2>2 DEF ProcessSend
    <2>6. QED
      BY <2>3, <2>4, <2>5 DEF SendInv, SendEventExclusive, FlagCoversSend, PopHasBuffer, InSend,
        SendPcs
  <1>7. CASE CompleteSend
    <2>1. io["Send"] = "pending" /\ io'["Send"] \in {"ok", "zero"}
      BY <1>7 DEF CompleteSend, Complete, TypeOK, Ops
    <2>2. UNCHANGED <<pc, sendRegistered, sendQueue>>
      BY <1>7 DEF CompleteSend, control, sending
    <2>3. QED
      BY <2>1, <2>2 DEF SendInv, SendEventExclusive, FlagCoversSend, PopHasBuffer, InSend
  <1>8. CASE \/ CompleteConnect \/ CompleteRecvEnd \/ CompleteDisconnect \/ CompleteRecvData \/ PeerClose
             \/ AtRest \/ UNCHANGED vars
    <2>1. SendKept
      BY <1>8 DEF SendKept, InSend, CompleteConnect, CompleteRecvEnd, CompleteDisconnect,
        CompleteRecvData, PeerClose, AtRest, Complete, TypeOK, Ops, vars, control, sending, events
    <2>2. QED
      BY <2>1, KeptSendInv
  <1>9. QED
    BY <1>1, <1>2, <1>3, <1>4, <1>5, <1>6, <1>7, <1>8 DEF Next, Handle, Step, Kernel, OffSend

-----------------------------------------------------------------------------
(* recvEvent_ and recvBuf_.                                                *)

\* Only CallSend keeps a return address, and every way out of Send uses it up.
LEMMA NextCalledInsideSend ==
  TypeOK /\ CalledInsideSend /\ [Next]_vars => CalledInsideSend'
  <1> SUFFICES ASSUME TypeOK, CalledInsideSend, [Next]_vars PROVE CalledInsideSend'
    OBVIOUS
  <1> USE DEF TypeOK, CalledInsideSend, SendPcs, Goto, Return, CallSend, Dequeue
  <1>1. ASSUME NEW t \in Threads, Handle(t) PROVE CalledInsideSend'
    BY <1>1 DEF Handle, ProcessConnect, ProcessRecv, ProcessSend, ProcessDisconnect
  <1>2. ASSUME NEW t \in Threads, Step(t) PROVE CalledInsideSend'
    <2>1. CASE AddSession(t) \/ OnConnected(t) \/ RegisterRecv(t) \/ WSARecv(t) \/ OnRecv(t)
               \/ FinishRecv(t)
      BY <2>1 DEF AddSession, OnConnected, GameOnConnected, ClientOnConnected, RegisterRecv,
        WSARecv, OnRecv, GameOnRecv, ClientOnRecv, FinishRecv
    <2>2. CASE SendCheck(t) \/ SendLock(t) \/ SendPush(t) \/ SendExchange(t)
      BY <2>2 DEF SendCheck, SendLock, SendPush, SendExchange
    <2>3. CASE RegisterSend(t) \/ Drain(t) \/ Pop(t) \/ WSASend(t) \/ ClearFlag(t) \/ CheckEmpty(t)
      BY <2>3 DEF RegisterSend, Drain, Pop, WSASend, ClearFlag, CheckEmpty
    <2>4. CASE Disconnect(t) \/ RegisterDisconnect(t) \/ ReleaseSession(t)
      BY <2>4 DEF Disconnect, RegisterDisconnect, ReleaseSession
    <2>5. QED
      BY <1>2, <2>1, <2>2, <2>3, <2>4 DEF Step
  <1>3. ASSUME NEW t \in Threads, Broadcast(t) PROVE CalledInsideSend'
    BY <1>3 DEF Broadcast
  <1>4. CASE Kernel \/ CompleteRecvData \/ PeerClose \/ AtRest \/ UNCHANGED vars
    BY <1>4 DEF Kernel, CompleteConnect, CompleteRecvEnd, CompleteSend, CompleteDisconnect,
      CompleteRecvData, PeerClose, AtRest, vars, control
  <1>5. QED
    BY <1>1, <1>2, <1>3, <1>4 DEF Next

\* What an action that stays off the receive chain keeps.
RecvKept ==
  /\ \A u \in Threads : InRecv(u)' => InRecv(u)
  /\ io["Connect"]' = io["Connect"] \/ io["Connect"] # "idle"
  /\ io["Recv"]' = io["Recv"]

\* ... and by that the invariant.
LEMMA KeptRecv == RecvEventExclusive /\ RecvKept => RecvEventExclusive'
  BY DEF RecvKept, RecvEventExclusive

OffRecv(t) ==
  \/ ProcessSend(t) \/ ProcessDisconnect(t) \/ AddSession(t) \/ OnConnected(t)
  \/ RegisterRecv(t) \/ OnRecv(t) \/ FinishRecv(t) \/ Broadcast(t)
  \/ SendCheck(t) \/ SendLock(t) \/ SendPush(t) \/ SendExchange(t)
  \/ RegisterSend(t) \/ Drain(t) \/ Pop(t) \/ WSASend(t) \/ ClearFlag(t) \/ CheckEmpty(t)
  \/ Disconnect(t) \/ RegisterDisconnect(t) \/ ReleaseSession(t)

\* All actions of a thread but ProcessConnect, ProcessRecv and WSARecv are of this kind.
LEMMA OffRecvKeeps ==
  ASSUME TypeOK, CalledInsideSend, NEW t \in Threads, OffRecv(t)
  PROVE  RecvKept
  <1>1. \A u \in Threads : InRecv(u)' => InRecv(u)
    <2> USE DEF TypeOK, InRecv, RecvPcs, CalledInsideSend, SendPcs, Goto, Return, CallSend, Dequeue
    <2>1. CASE ProcessSend(t) \/ ProcessDisconnect(t) \/ Broadcast(t)
      BY <2>1 DEF ProcessSend, ProcessDisconnect, Broadcast
    <2>2. CASE AddSession(t) \/ OnConnected(t) \/ RegisterRecv(t) \/ OnRecv(t) \/ FinishRecv(t)
      BY <2>2 DEF AddSession, OnConnected, GameOnConnected, ClientOnConnected, RegisterRecv,
        OnRecv, GameOnRecv, ClientOnRecv, FinishRecv
    <2>3. CASE SendCheck(t) \/ SendLock(t) \/ SendPush(t) \/ SendExchange(t)
      BY <2>3 DEF SendCheck, SendLock, SendPush, SendExchange
    <2>4. CASE RegisterSend(t) \/ Drain(t) \/ Pop(t) \/ WSASend(t) \/ ClearFlag(t) \/ CheckEmpty(t)
      BY <2>4 DEF RegisterSend, Drain, Pop, WSASend, ClearFlag, CheckEmpty
    <2>5. CASE Disconnect(t) \/ RegisterDisconnect(t) \/ ReleaseSession(t)
      BY <2>5 DEF Disconnect, RegisterDisconnect, ReleaseSession
    <2>6. QED
      BY <2>1, <2>2, <2>3, <2>4, <2>5 DEF OffRecv
  <1>2. io["Connect"]' = io["Connect"] /\ io["Recv"]' = io["Recv"]
    BY DEF OffRecv, TypeOK, Ops, ProcessSend, ProcessDisconnect, AddSession, OnConnected,
      GameOnConnected, ClientOnConnected, RegisterRecv, OnRecv, GameOnRecv, ClientOnRecv,
      FinishRecv, Broadcast, SendCheck, SendLock, SendPush, SendExchange, RegisterSend, Drain,
      Pop, WSASend, ClearFlag, CheckEmpty, Disconnect, RegisterDisconnect, ReleaseSession,
      Dequeue, Post, Refuse, events
  <1>3. QED
    BY <1>1, <1>2 DEF RecvKept

\* The token passes from the connect to the thread, to the posted receive and back.
LEMMA NextRecv ==
  TypeOK /\ CalledInsideSend /\ RecvEventExclusive /\ [Next]_vars => RecvEventExclusive'
  <1> SUFFICES ASSUME TypeOK, CalledInsideSend, RecvEventExclusive, [Next]_vars PROVE RecvEventExclusive'
    OBVIOUS
  <1>1. ASSUME NEW t \in Threads, OffRecv(t) PROVE RecvEventExclusive'
    BY <1>1, OffRecvKeeps, KeptRecv
  <1>2. ASSUME NEW t \in Threads, ProcessConnect(t) PROVE RecvEventExclusive'
    <2>1. io["Connect"] # "idle" /\ io["Recv"] = "idle" /\ \A u \in Threads : ~InRecv(u)
      BY <1>2 DEF ProcessConnect, Dequeue, RecvEventExclusive
    <2>2. io'["Connect"] = "idle" /\ io'["Recv"] = "idle"
      BY <1>2, <2>1 DEF ProcessConnect, Dequeue, TypeOK, Ops
    <2>3. \A u \in Threads : u # t => ~InRecv(u)'
      BY <1>2, <2>1 DEF ProcessConnect, InRecv, TypeOK, Goto
    <2>4. QED
      BY <2>2, <2>3 DEF RecvEventExclusive
  <1>3. ASSUME NEW t \in Threads, ProcessRecv(t) PROVE RecvEventExclusive'
    <2>1. io["Connect"] = "idle" /\ io["Recv"] # "idle" /\ \A u \in Threads : ~InRecv(u)
      BY <1>3 DEF ProcessRecv, Dequeue, RecvEventExclusive
    <2>2. io'["Connect"] = "idle" /\ io'["Recv"] = "idle"
      BY <1>3, <2>1 DEF ProcessRecv, Dequeue, TypeOK, Ops
    <2>3. \A u \in Threads : u # t => ~InRecv(u)'
      BY <1>3, <2>1 DEF ProcessRecv, InRecv, TypeOK, Goto
    <2>4. QED
      BY <2>2, <2>3 DEF RecvEventExclusive
  <1>4. ASSUME NEW t \in Threads, WSARecv(t) PROVE RecvEventExclusive'
    <2>1. InRecv(t) /\ ret[t] = "idle"
      BY <1>4 DEF WSARecv, InRecv, RecvPcs, CalledInsideSend, SendPcs
    <2>2. /\ io["Connect"] = "idle" /\ io["Recv"] = "idle"
          /\ \A u \in Threads : u # t => ~InRecv(u)
      BY <2>1 DEF RecvEventExclusive
    <2>3. io'["Connect"] = "idle" /\ io'["Recv"] # "clash"
      BY <1>4, <2>2 DEF WSARecv, Post, Refuse, TypeOK, Ops
    <2>4. \A u \in Threads : ~InRecv(u)'
      BY <1>4, <2>1, <2>2 DEF WSARecv, InRecv, RecvPcs, TypeOK, Goto
    <2>5. QED
      BY <2>3, <2>4 DEF RecvEventExclusive
  <1>5. CASE Kernel \/ CompleteRecvData \/ PeerClose \/ AtRest \/ UNCHANGED vars
    <2>1. \A u \in Threads : InRecv(u)' <=> InRecv(u)
      BY <1>5, KernelSteps DEF KernelStep, InRecv
    <2>2. \A op \in {"Connect", "Recv"} :
            \/ io'[op] = io[op]
            \/ io[op] # "idle" /\ io'[op] \in {"ok", "zero"}
      BY <1>5, KernelSteps DEF KernelStep, CompletesOnly, Ops
    <2>3. QED
      BY <2>1, <2>2 DEF RecvEventExclusive
  <1>6. QED
    BY <1>1, <1>2, <1>3, <1>4, <1>5 DEF Next, Handle, Step, Kernel, OffRecv

-----------------------------------------------------------------------------
(* The theorems.                                                           *)

\* The invariant holds of a session that is still connecting.
LEMMA InitInv == Init => Inv
  <1> SUFFICES ASSUME Init PROVE Inv
    OBVIOUS
  <1>1. TypeOK
    <2>1. ControlOK
      BY DEF Init, ControlOK, Labels
    <2>2. EventsOK
      BY DEF Init, EventsOK, Ops, OpStates
    <2>3. QueuesOK
      <3>1. <<>> \in Seq(Nat)
        OBVIOUS
      <3>2. QED
        BY <3>1 DEF Init, QueuesOK
    <2>4. RestOK
      <3>1. 0 \in 0..MaxCalls
        BY SessionAssumption
      <3>2. QED
        BY <3>1 DEF Init, RestOK, Transports
    <2>5. QED
      BY <2>1, <2>2, <2>3, <2>4, TypeParts
  <1>2. SendInv
    BY DEF Init, SendInv, SendEventExclusive, FlagCoversSend, PopHasBuffer, InSend, SendPcs, Ops
  <1>3. CalledInsideSend /\ RecvEventExclusive
    BY DEF Init, CalledInsideSend, RecvEventExclusive, InRecv, RecvPcs, Ops
  <1>4. QED
    BY <1>1, <1>2, <1>3 DEF Inv

\* Every step preserves it.
LEMMA NextInv == Inv /\ [Next]_vars => Inv'
  BY NextTypeOK, NextSendInv, NextCalledInsideSend, NextRecv DEF Inv, SendInv

\* Every reachable state satisfies the inductive invariant.
THEOREM Invariance == Spec => []Inv
  BY InitInv, NextInv, PTL DEF Spec

\* The handlers, whatever their interleaving, keep every field within its type;
\* in particular Pop never takes the front of an empty sendQueue_.
THEOREM TypeCorrect == Spec => []TypeOK
  <1>1. Inv => TypeOK
    BY DEF Inv
  <1>2. QED
    BY <1>1, Invariance, PTL

\* sendRegistered_ alone keeps sendEvent_ to one user, although the mutex of
\* RegisterSend and ProcessSend is a local one: whatever the number of workers
\* and of concurrent Send calls, one thread at most is between RegisterSend and
\* the end of ProcessSend, none while a WSASend is out, and the OVERLAPPED is
\* never posted twice.
THEOREM SendEventIsExclusive == Spec => []SendEventExclusive
  <1>1. Inv => SendEventExclusive
    BY DEF Inv, SendInv
  <1>2. QED
    BY <1>1, Invariance, PTL

\* recvEvent_ and the unlocked recvBuf_ have one user at a time: connecting, the
\* posted WSARecv and the thread in ProcessConnect or ProcessRecv exclude one
\* another, a callback that sends included.
THEOREM RecvEventIsExclusive == Spec => []RecvEventExclusive
  <1>1. Inv => RecvEventExclusive
    BY DEF Inv
  <1>2. QED
    BY <1>1, Invariance, PTL

-----------------------------------------------------------------------------
(* The life of the session: the strengthened invariants.                   *)

Opening == {"addSession", "onConnected"}

\* Until ProcessConnect runs, nothing else has happened to the session.
Fresh ==
  io["Connect"] # "idle" =>
    /\ \A u \in Threads : pc[u] = "idle"
    /\ \A op \in Ops \ {"Connect"} : io[op] = "idle"
    /\ ~connected /\ ~sendRegistered /\ ~inService /\ ~inManager

\* While ProcessConnect has not called OnConnected, the thread in it is alone:
\* nothing is posted, nobody can find the session to broadcast to it.
OpeningAlone ==
  \A t \in Threads : pc[t] \in Opening =>
    /\ \A u \in Threads : u # t => pc[u] = "idle"
    /\ \A op \in Ops : io[op] = "idle"
    /\ connected /\ ~sendRegistered /\ ~inManager
    /\ pc[t] = "onConnected" => inService

\* The service counts a session from AddSession to ReleaseSession.
CountedWhileAlive ==
  /\ connected => inService \/ \E t \in Threads : pc[t] = "addSession"
  /\ (\E t \in Threads : InDisconnect(t)) => inService
  /\ io["Disconnect"] # "idle" => inService

-----------------------------------------------------------------------------
(* Opening. *)

\* The actions of a thread once OnConnected has run.
Later(t) ==
  \/ ProcessRecv(t) \/ ProcessSend(t) \/ ProcessDisconnect(t) \/ Broadcast(t)
  \/ RegisterRecv(t) \/ WSARecv(t) \/ OnRecv(t) \/ FinishRecv(t)
  \/ SendCheck(t) \/ SendLock(t) \/ SendPush(t) \/ SendExchange(t)
  \/ RegisterSend(t) \/ Drain(t) \/ Pop(t) \/ WSASend(t) \/ ClearFlag(t) \/ CheckEmpty(t)
  \/ Disconnect(t) \/ RegisterDisconnect(t) \/ ReleaseSession(t)

\* None of them is possible before: there is nothing to dequeue, nobody else runs,
\* and the session is not listed.
LEMMA LaterIsLater ==
  ASSUME TypeOK, Fresh, OpeningAlone, NEW t \in Threads, Later(t)
  PROVE  /\ io["Connect"] = "idle"
         /\ \A u \in Threads : pc[u] \notin Opening
  <1>1. \/ pc[t] \notin Opening \cup {"idle"}
        \/ \E op \in Ops \ {"Connect"} : io[op] # "idle"
        \/ inManager
    BY DEF Later, Opening, Ops, Dequeue, ProcessRecv, ProcessSend, ProcessDisconnect, Broadcast,
      RegisterRecv, WSARecv, OnRecv, GameOnRecv, ClientOnRecv, FinishRecv, SendCheck, SendLock,
      SendPush, SendExchange, RegisterSend, Drain, Pop, WSASend, ClearFlag, CheckEmpty,
      Disconnect, RegisterDisconnect, ReleaseSession
  <1>2. pc[t] \notin Opening
    BY DEF Later, Opening, Dequeue, ProcessRecv, ProcessSend, ProcessDisconnect, Broadcast,
      RegisterRecv, WSARecv, OnRecv, GameOnRecv, ClientOnRecv, FinishRecv, SendCheck, SendLock,
      SendPush, SendExchange, RegisterSend, Drain, Pop, WSASend, ClearFlag, CheckEmpty,
      Disconnect, RegisterDisconnect, ReleaseSession
  <1>3. QED
    BY <1>1, <1>2 DEF Fresh, OpeningAlone, Opening

\* None of them goes back.
LEMMA LaterStays ==
  ASSUME Inv, NEW t \in Threads, Later(t)
  PROVE  /\ io'["Connect"] = io["Connect"]
         /\ \A u \in Threads : pc'[u] \in Opening => pc[u] \in Opening
  <1>1. TypeOK /\ CalledInsideSend
    BY DEF Inv
  <1>2. io'["Connect"] = io["Connect"]
    BY <1>1 DEF Later, TypeOK, Ops, ProcessRecv, ProcessSend, ProcessDisconnect, Broadcast,
      RegisterRecv, WSARecv, OnRecv, GameOnRecv, ClientOnRecv, FinishRecv, SendCheck, SendLock,
      SendPush, SendExchange, RegisterSend, Drain, Pop, WSASend, ClearFlag, CheckEmpty,
      Disconnect, RegisterDisconnect, ReleaseSession, Dequeue, Post, Refuse, events
  <1>3. pc'[t] \notin Opening /\ \A u \in Threads : u # t => pc'[u] = pc[u]
    <2> USE <1>1 DEF TypeOK, Opening, Goto, Return, CallSend
    <2>1. CASE ProcessRecv(t) \/ ProcessSend(t) \/ ProcessDisconnect(t) \/ Broadcast(t)
      BY <2>1 DEF ProcessRecv, ProcessSend, ProcessDisconnect, Broadcast
    <2>2. CASE RegisterRecv(t) \/ WSARecv(t) \/ OnRecv(t) \/ FinishRecv(t)
      BY <2>2 DEF RegisterRecv, WSARecv, OnRecv, GameOnRecv, ClientOnRecv, FinishRecv
    <2>3. CASE SendCheck(t) \/ SendLock(t) \/ SendPush(t) \/ SendExchange(t)
      BY <2>3 DEF SendCheck, SendLock, SendPush, SendExchange
    <2>4. CASE RegisterSend(t) \/ Drain(t) \/ Pop(t) \/ WSASend(t) \/ ClearFlag(t) \/ CheckEmpty(t)
      BY <2>4 DEF RegisterSend, Drain, Pop, WSASend, ClearFlag, CheckEmpty
    <2>5. CASE Disconnect(t) \/ RegisterDisconnect(t) \/ ReleaseSession(t)
      BY <2>5 DEF Disconnect, RegisterDisconnect, ReleaseSession
    <2>6. QED
      BY <2>1, <2>2, <2>3, <2>4, <2>5 DEF Later
  <1>4. QED
    BY <1>2, <1>3

\* Opening happens once, alone, and in order.
LEMMA NextOpening ==
  ASSUME Inv, Fresh, OpeningAlone, [Next]_vars
  PROVE  Fresh' /\ OpeningAlone'
  <1>0. TypeOK
    BY DEF Inv
  <1>1. ASSUME NEW t \in Threads, Later(t) PROVE Fresh' /\ OpeningAlone'
    <2>1. io'["Connect"] = "idle" /\ \A u \in Threads : pc'[u] \notin Opening
      BY <1>0, <1>1, LaterIsLater, LaterStays
    <2>2. QED
      BY <2>1 DEF Fresh, OpeningAlone
  <1>2. ASSUME NEW t \in Threads, ProcessConnect(t) PROVE Fresh' /\ OpeningAlone'
    <2>1. io["Connect"] # "idle"
      BY <1>2 DEF ProcessConnect, Dequeue
    <2>2. \A op \in Ops : io'[op] = "idle"
      BY <1>0, <1>2, <2>1 DEF Fresh, ProcessConnect, Dequeue, TypeOK, Ops
    <2>3. pc'[t] = "addSession" /\ \A u \in Threads : u # t => pc'[u] = "idle"
      BY <1>0, <1>2, <2>1 DEF Fresh, ProcessConnect, Goto, TypeOK
    <2>4. connected' /\ ~sendRegistered' /\ ~inManager'
      BY <1>2, <2>1 DEF Fresh, ProcessConnect, sending, tables
    <2>5. QED
      BY <2>2, <2>3, <2>4 DEF Fresh, OpeningAlone, Opening, Ops
  <1>3. ASSUME NEW t \in Threads, AddSession(t) PROVE Fresh' /\ OpeningAlone'
    <2>1. pc[t] \in Opening
      BY <1>3 DEF AddSession, Opening
    <2>2. UNCHANGED <<io, connected, sendRegistered, inManager>> /\ inService'
      BY <1>3 DEF AddSession, events, sending
    <2>3. pc'[t] = "onConnected" /\ \A u \in Threads : u # t => pc'[u] = pc[u]
      BY <1>0, <1>3 DEF AddSession, Goto, TypeOK
    <2>4. QED
      BY <2>1, <2>2, <2>3 DEF Fresh, OpeningAlone, Opening, Ops
  <1>4. ASSUME NEW t \in Threads, OnConnected(t) PROVE Fresh' /\ OpeningAlone'
    <2>1. pc[t] \in Opening
      BY <1>4 DEF OnConnected, GameOnConnected, ClientOnConnected, Opening
    <2>2. io' = io
      BY <1>4 DEF OnConnected, GameOnConnected, ClientOnConnected, events
    <2>3. pc'[t] \notin Opening /\ \A u \in Threads : u # t => pc'[u] = pc[u]
      BY <1>0, <1>4 DEF OnConnected, GameOnConnected, ClientOnConnected, Opening, Goto, CallSend,
        TypeOK
    <2>4. QED
      BY <2>1, <2>2, <2>3 DEF Fresh, OpeningAlone, Opening, Ops
  <1>5. CASE KernelStep
    <2>1. /\ UNCHANGED <<pc, connected, sendRegistered, inService, inManager>>
          /\ CompletesOnly
      BY <1>0, <1>5, KernelSteps
    <2>2. \A op \in Ops : io[op] = "idle" <=> io'[op] = "idle"
      BY <2>1 DEF CompletesOnly
    <2>3. "Connect" \in Ops
      BY DEF Ops
    <2>4. QED
      BY <2>1, <2>2, <2>3 DEF Fresh, OpeningAlone
  <1>6. QED
    BY <1>1, <1>2, <1>3, <1>4, <1>5 DEF Next, Handle, Step, Later, KernelStep

-----------------------------------------------------------------------------
(* Tearing down. *)

\* What an action that neither opens nor tears down keeps.
LifeKept ==
  /\ \A u \in Threads : pc'[u] \in {"discEx", "release"} => pc[u] = pc'[u]
  /\ \A u \in Threads : pc[u] = "addSession" => pc'[u] = "addSession"
  /\ io["Disconnect"]' = io["Disconnect"]
  /\ UNCHANGED <<connected, inService, inManager>>

Teardown ==
  DisconnectExclusive /\ CountedWhileAlive /\ ReleaseFindsSession /\ ListedIsCounted

\* ... and by that the invariant.
LEMMA KeptTeardown == Teardown /\ LifeKept => Teardown'
  <1> SUFFICES ASSUME Teardown, LifeKept PROVE Teardown'
    OBVIOUS
  <1>1. \A u \in Threads : InDisconnect(u)' => InDisconnect(u)
    BY DEF LifeKept, InDisconnect
  <1>2. DisconnectExclusive'
    BY <1>1 DEF Teardown, LifeKept, DisconnectExclusive
  <1>3. CountedWhileAlive'
    BY <1>1 DEF Teardown, LifeKept, CountedWhileAlive
  <1>4. ReleaseFindsSession' /\ ListedIsCounted'
    BY DEF Teardown, LifeKept, ReleaseFindsSession, ListedIsCounted
  <1>5. QED
    BY <1>2, <1>3, <1>4 DEF Teardown

OffLife(t) ==
  \/ ProcessRecv(t) \/ ProcessSend(t) \/ Broadcast(t)
  \/ RegisterRecv(t) \/ WSARecv(t) \/ OnRecv(t) \/ FinishRecv(t)
  \/ SendCheck(t) \/ SendLock(t) \/ SendPush(t) \/ SendExchange(t)
  \/ RegisterSend(t) \/ Drain(t) \/ Pop(t) \/ WSASend(t) \/ ClearFlag(t) \/ CheckEmpty(t)

\* Receiving and sending are of this kind.
LEMMA OffLifeKeeps ==
  ASSUME TypeOK, NEW t \in Threads, OffLife(t)
  PROVE  LifeKept
  <1>1. /\ pc[t] # "addSession" /\ pc'[t] \notin {"discEx", "release"}
        /\ \A u \in Threads : u # t => pc'[u] = pc[u]
    <2> USE DEF TypeOK, Goto, Return, CallSend, Dequeue
    <2>1. CASE ProcessRecv(t) \/ ProcessSend(t) \/ Broadcast(t)
      BY <2>1 DEF ProcessRecv, ProcessSend, Broadcast
    <2>2. CASE RegisterRecv(t) \/ WSARecv(t) \/ OnRecv(t) \/ FinishRecv(t)
      BY <2>2 DEF RegisterRecv, WSARecv, OnRecv, GameOnRecv, ClientOnRecv, FinishRecv
    <2>3. CASE SendCheck(t) \/ SendLock(t) \/ SendPush(t) \/ SendExchange(t)
      BY <2>3 DEF SendCheck, SendLock, SendPush, SendExchange
    <2>4. CASE RegisterSend(t) \/ Drain(t) \/ Pop(t) \/ WSASend(t) \/ ClearFlag(t) \/ CheckEmpty(t)
      BY <2>4 DEF RegisterSend, Drain, Pop, WSASend, ClearFlag, CheckEmpty
    <2>5. QED
      BY <2>1, <2>2, <2>3, <2>4 DEF OffLife
  <1>2. io["Disconnect"]' = io["Disconnect"]
    BY DEF OffLife, TypeOK, Ops, ProcessRecv, ProcessSend, Broadcast, RegisterRecv, WSARecv,
      OnRecv, GameOnRecv, ClientOnRecv, FinishRecv, SendCheck, SendLock, SendPush, SendExchange,
      RegisterSend, Drain, Pop, WSASend, ClearFlag, CheckEmpty, Dequeue, Post, Refuse, events
  <1>3. UNCHANGED <<connected, inService, inManager>>
    BY DEF OffLife, ProcessRecv, ProcessSend, Broadcast, RegisterRecv, WSARecv, OnRecv,
      GameOnRecv, ClientOnRecv, FinishRecv, SendCheck, SendLock, SendPush, SendExchange,
      RegisterSend, Drain, Pop, WSASend, ClearFlag, CheckEmpty, tables
  <1>4. QED
    BY <1>1, <1>2, <1>3 DEF LifeKept

\* The winner of the exchange in Disconnect passes the right to tear down to
\* DisconnectEx, and its completion to the thread that releases.
LEMMA NextTeardown ==
  ASSUME Inv, Fresh, OpeningAlone, Teardown, [Next]_vars
  PROVE  Teardown'
  <1>0. TypeOK
    BY DEF Inv
  <1> USE DEF InDisconnect
  <1>1. ASSUME NEW t \in Threads, OffLife(t) PROVE Teardown'
    BY <1>0, <1>1, OffLifeKeeps, KeptTeardown
  <1>2. ASSUME NEW t \in Threads, ProcessConnect(t) PROVE Teardown'
    <2>1. io["Connect"] # "idle"
      BY <1>2 DEF ProcessConnect, Dequeue
    <2>2. io'["Disconnect"] = "idle"
      BY <1>0, <1>2, <2>1 DEF Fresh, ProcessConnect, Dequeue, TypeOK, Ops
    <2>3. pc'[t] = "addSession" /\ \A u \in Threads : u # t => pc'[u] = "idle"
      BY <1>0, <1>2, <2>1 DEF Fresh, ProcessConnect, Goto, TypeOK
    <2>4. ~inManager'
      BY <1>2, <2>1 DEF Fresh, ProcessConnect, tables
    <2>5. QED
      BY <2>2, <2>3, <2>4
      DEF Teardown, DisconnectExclusive, CountedWhileAlive, ReleaseFindsSession, ListedIsCounted
  <1>3. ASSUME NEW t \in Threads, AddSession(t) \/ OnConnected(t) PROVE Teardown'
    <2>1. /\ \A u \in Threads : u # t => pc[u] = "idle"
          /\ io["Disconnect"] = "idle"
          /\ connected
          /\ pc[t] = "onConnected" => inService
      BY <1>3 DEF AddSession, OnConnected, GameOnConnected, ClientOnConnected, OpeningAlone,
        Opening, Ops
    <2>2. io' = io /\ connected' = connected
      BY <1>3 DEF AddSession, OnConnected, GameOnConnected, ClientOnConnected, events
    <2>3. pc'[t] \notin {"discEx", "release"} /\ \A u \in Threads : u # t => pc'[u] = "idle"
      BY <1>0, <1>3, <2>1 DEF AddSession, OnConnected, GameOnConnected, ClientOnConnected, TypeOK,
        Goto, CallSend
    <2>4. inService'
      BY <1>3, <2>1 DEF AddSession, OnConnected, GameOnConnected, ClientOnConnected
    <2>5. QED
      BY <2>1, <2>2, <2>3, <2>4
      DEF Teardown, DisconnectExclusive, CountedWhileAlive, ReleaseFindsSession, ListedIsCounted
  <1>4. ASSUME NEW t \in Threads, Disconnect(t) PROVE Teardown'
    <2>1. UNCHANGED <<io, inService, inManager>> /\ ~connected'
      BY <1>4 DEF Disconnect, events, tables
    <2>2. /\ \A u \in Threads : u # t => pc'[u] = pc[u]
          /\ pc'[t] = IF connected THEN "discEx" ELSE "idle"
      BY <1>0, <1>4 DEF Disconnect, TypeOK, Goto
    <2>3. connected => inService
      BY <1>4 DEF Disconnect, Teardown, CountedWhileAlive, OpeningAlone, Opening
    <2>4. CASE connected
      <3>1. io["Disconnect"] = "idle" /\ \A u \in Threads : ~InDisconnect(u)
        BY <2>4 DEF Teardown, DisconnectExclusive
      <3>2. QED
        BY <2>1, <2>2, <2>3, <2>4, <3>1
        DEF Teardown, DisconnectExclusive, CountedWhileAlive, ReleaseFindsSession, ListedIsCounted
    <2>5. CASE ~connected
      <3>1. \A u \in Threads : InDisconnect(u)' => InDisconnect(u) /\ pc'[u] = pc[u]
        BY <2>2, <2>5
      <3>2. QED
        BY <2>1, <2>5, <3>1
        DEF Teardown, DisconnectExclusive, CountedWhileAlive, ReleaseFindsSession, ListedIsCounted
    <2>6. QED
      BY <2>4, <2>5
  <1>5. ASSUME NEW t \in Threads, RegisterDisconnect(t) PROVE Teardown'
    <2>1. /\ ~connected /\ io["Disconnect"] = "idle" /\ inService
          /\ \A u \in Threads : u # t => ~InDisconnect(u)
      BY <1>5 DEF RegisterDisconnect, Teardown, DisconnectExclusive, CountedWhileAlive
    <2>2. UNCHANGED <<connected, inService, inManager>>
      BY <1>5 DEF RegisterDisconnect, tables
    <2>3. \A u \in Threads : ~InDisconnect(u)'
      BY <1>0, <1>5, <2>1 DEF RegisterDisconnect, TypeOK, Goto
    <2>4. io'["Disconnect"] # "clash"
      BY <1>0, <1>5, <2>1 DEF RegisterDisconnect, Post, Refuse, TypeOK, Ops
    <2>5. QED
      BY <2>1, <2>2, <2>3, <2>4
      DEF Teardown, DisconnectExclusive, CountedWhileAlive, ReleaseFindsSession, ListedIsCounted
  <1>6. ASSUME NEW t \in Threads, ProcessDisconnect(t) PROVE Teardown'
    <2>1. io["Disconnect"] # "idle"
      BY <1>6 DEF ProcessDisconnect, Dequeue
    <2>2. ~connected /\ inService /\ \A u \in Threads : ~InDisconnect(u)
      BY <2>1 DEF Teardown, DisconnectExclusive, CountedWhileAlive
    <2>3. io'["Disconnect"] = "idle"
      BY <1>0, <1>6 DEF ProcessDisconnect, Dequeue, TypeOK, Ops
    <2>4. UNCHANGED <<connected, inService>> /\ ~inManager'
      BY <1>6 DEF ProcessDisconnect
    <2>5. pc'[t] = "release" /\ \A u \in Threads : u # t => ~InDisconnect(u)'
      BY <1>0, <1>6, <2>2 DEF ProcessDisconnect, TypeOK, Goto
    <2>6. QED
      BY <2>2, <2>3, <2>4, <2>5
      DEF Teardown, DisconnectExclusive, CountedWhileAlive, ReleaseFindsSession, ListedIsCounted
  <1>7. ASSUME NEW t \in Threads, ReleaseSession(t) PROVE Teardown'
    <2>1. /\ ~connected /\ io["Disconnect"] = "idle" /\ ~inManager
          /\ \A u \in Threads : u # t => ~InDisconnect(u)
      BY <1>7 DEF ReleaseSession, Teardown, DisconnectExclusive, ReleaseFindsSession
    <2>2. UNCHANGED <<connected, inManager, io>>
      BY <1>7 DEF ReleaseSession, events
    <2>3. \A u \in Threads : ~InDisconnect(u)'
      BY <1>0, <1>7, <2>1 DEF ReleaseSession, TypeOK, Goto
    <2>4. QED
      BY <2>1, <2>2, <2>3
      DEF Teardown, DisconnectExclusive, CountedWhileAlive, ReleaseFindsSession, ListedIsCounted
  <1>8. CASE KernelStep
    <2>1. /\ UNCHANGED <<pc, connected, inService, inManager>>
          /\ CompletesOnly
      BY <1>0, <1>8, KernelSteps
    <2>2. \/ io'["Disconnect"] = io["Disconnect"]
          \/ io["Disconnect"] # "idle" /\ io'["Disconnect"] \in {"ok", "zero"}
      BY <2>1 DEF CompletesOnly, Ops
    <2>3. QED
      BY <2>1, <2>2
      DEF Teardown, DisconnectExclusive, CountedWhileAlive, ReleaseFindsSession, ListedIsCounted
  <1>9. QED
    BY <1>1, <1>2, <1>3, <1>4, <1>5, <1>6, <1>7, <1>8 DEF Next, Handle, Step, OffLife, KernelStep

-----------------------------------------------------------------------------
\* What keeps a session that was torn down on its way out of the table.
LEMMA KeptTornDown ==
  ASSUME TornDownLeaves,
         connected => connected', inService' => inService,
         \A u \in Threads : InDisconnect(u) => pc'[u] = pc[u],
         io["Disconnect"] # "idle" => io'["Disconnect"] # "idle",
         faults \subseteq faults'
  PROVE  TornDownLeaves'
  BY DEF TornDownLeaves, InDisconnect

\* The token of the teardown is lost at two places only: released with the
\* session, or refused by Winsock, which faults remembers.
LEMMA NextTornDown ==
  ASSUME Inv, OpeningAlone, Teardown, TornDownLeaves, [Next]_vars
  PROVE  TornDownLeaves'
  <1>0. TypeOK
    BY DEF Inv
  <1>1. ASSUME NEW t \in Threads, OffLife(t) \/ OnConnected(t) PROVE TornDownLeaves'
    <2>1. UNCHANGED <<connected, inService>> /\ io'["Disconnect"] = io["Disconnect"]
      BY <1>0, <1>1, OffLifeKeeps
      DEF LifeKept, OnConnected, GameOnConnected, ClientOnConnected, events
    <2>2. pc[t] \notin {"discEx", "release"}
      BY <1>1 DEF OffLife, ProcessRecv, ProcessSend, Broadcast, RegisterRecv, WSARecv,
        OnRecv, FinishRecv, SendCheck, SendLock, SendPush, SendExchange, RegisterSend, Drain,
        Pop, WSASend, ClearFlag, CheckEmpty, OnConnected, Dequeue
    <2>3. \A u \in Threads : u # t => pc'[u] = pc[u]
      <3> USE <1>0 DEF TypeOK, Goto, Return, CallSend
      <3>1. CASE ProcessRecv(t) \/ ProcessSend(t) \/ Broadcast(t) \/ OnConnected(t)
        BY <3>1 DEF ProcessRecv, ProcessSend, Broadcast, OnConnected, GameOnConnected,
          ClientOnConnected, Dequeue
      <3>2. CASE RegisterRecv(t) \/ WSARecv(t) \/ OnRecv(t) \/ FinishRecv(t)
        BY <3>2 DEF RegisterRecv, WSARecv, OnRecv, GameOnRecv, ClientOnRecv, FinishRecv
      <3>3. CASE SendCheck(t) \/ SendLock(t) \/ SendPush(t) \/ SendExchange(t)
        BY <3>3 DEF SendCheck, SendLock, SendPush, SendExchange
      <3>4. CASE RegisterSend(t) \/ Drain(t) \/ Pop(t) \/ WSASend(t) \/ ClearFlag(t) \/ CheckEmpty(t)
        BY <3>4 DEF RegisterSend, Drain, Pop, WSASend, ClearFlag, CheckEmpty
      <3>5. QED
        BY <1>1, <3>1, <3>2, <3>3, <3>4 DEF OffLife
    <2>4. faults \subseteq faults'
      BY <1>1 DEF OffLife, ProcessRecv, ProcessSend, Broadcast, RegisterRecv, WSARecv, OnRecv,
        FinishRecv, SendCheck, SendLock, SendPush, SendExchange, RegisterSend, Drain, Pop, WSASend,
        ClearFlag, CheckEmpty, OnConnected, Refuse, outside
    <2>5. QED
      BY <2>1, <2>2, <2>3, <2>4, KeptTornDown DEF InDisconnect
  <1>2. ASSUME NEW t \in Threads, ProcessConnect(t) PROVE TornDownLeaves'
    BY <1>2 DEF ProcessConnect, TornDownLeaves
  <1>3. ASSUME NEW t \in Threads, AddSession(t) PROVE TornDownLeaves'
    BY <1>3 DEF AddSession, OpeningAlone, Opening, TornDownLeaves
  <1>4. ASSUME NEW t \in Threads, Disconnect(t) PROVE TornDownLeaves'
    <2>1. UNCHANGED <<io, inService, faults>> /\ pc[t] = "disconnect"
      BY <1>4 DEF Disconnect, events, tables, outside
    <2>2. /\ \A u \in Threads : u # t => pc'[u] = pc[u]
          /\ pc'[t] = IF connected THEN "discEx" ELSE "idle"
      BY <1>0, <1>4 DEF Disconnect, TypeOK, Goto
    <2>3. CASE connected
      BY <2>2, <2>3 DEF TornDownLeaves, InDisconnect
    <2>4. CASE ~connected
      BY <2>1, <2>2, <2>4, KeptTornDown DEF InDisconnect
    <2>5. QED
      BY <2>3, <2>4
  <1>5. ASSUME NEW t \in Threads, RegisterDisconnect(t) PROVE TornDownLeaves'
    <2>1. \/ io'["Disconnect"] # "idle"
          \/ "Disconnect" \in faults'
      BY <1>0, <1>5 DEF RegisterDisconnect, Post, Refuse, TypeOK, Ops
    <2>2. QED
      BY <2>1 DEF TornDownLeaves
  <1>6. ASSUME NEW t \in Threads, ProcessDisconnect(t) PROVE TornDownLeaves'
    <2>1. pc'[t] = "release"
      BY <1>0, <1>6 DEF ProcessDisconnect, TypeOK, Goto
    <2>2. QED
      BY <2>1 DEF TornDownLeaves, InDisconnect
  <1>7. ASSUME NEW t \in Threads, ReleaseSession(t) PROVE TornDownLeaves'
    BY <1>7 DEF ReleaseSession, TornDownLeaves
  <1>8. CASE KernelStep
    <2>1. UNCHANGED <<pc, connected, inService, faults>> /\ CompletesOnly
      BY <1>0, <1>8, KernelSteps
    <2>2. io["Disconnect"] # "idle" => io'["Disconnect"] # "idle"
      BY <2>1 DEF CompletesOnly, Ops
    <2>3. QED
      BY <2>1, <2>2, KeptTornDown
  <1>9. QED
    BY <1>1, <1>2, <1>3, <1>4, <1>5, <1>6, <1>7, <1>8
    DEF Next, Handle, Step, OffLife, KernelStep

-----------------------------------------------------------------------------
(* The flag and the posted receive. *)

\* Whoever gives up sendEvent_ has cleared the flag, posted, or gone to disconnect;
\* RegisterSend gives up without any of them only when the connection is down.
LEMMA NextFlag ==
  ASSUME Inv, Fresh, FlagHasOwner, [Next]_vars
  PROVE  FlagHasOwner'
  <1>0. TypeOK
    BY DEF Inv
  <1> USE DEF FlagHasOwner
  <1>1. ASSUME NEW t \in Threads, ProcessConnect(t) PROVE FlagHasOwner'
    BY <1>1 DEF ProcessConnect, Dequeue, Fresh, sending
  <1>2. ASSUME NEW t \in Threads, Disconnect(t) \/ ClearFlag(t) PROVE FlagHasOwner'
    BY <1>2 DEF Disconnect, ClearFlag
  <1>3. ASSUME NEW t \in Threads, ProcessSend(t) PROVE FlagHasOwner'
    BY <1>0, <1>3 DEF ProcessSend, Goto, TypeOK, InSend, SendPcs
  <1>4. ASSUME NEW t \in Threads, WSASend(t) PROVE FlagHasOwner'
    <2>1. \/ io'["Send"] # "idle"
          \/ pc'[t] = "clear"
      BY <1>0, <1>4 DEF WSASend, Post, Goto, TypeOK, Ops
    <2>2. QED
      BY <2>1 DEF InSend, SendPcs
  <1>5. ASSUME NEW t \in Threads, RegisterSend(t) \/ Drain(t) \/ Pop(t) \/ CheckEmpty(t)
        PROVE  FlagHasOwner'
    <2>1. pc'[t] \in SendPcs \/ ~connected
      BY <1>0, <1>5 DEF RegisterSend, Drain, Pop, CheckEmpty, Goto, TypeOK, SendPcs
    <2>2. connected' = connected
      BY <1>5 DEF RegisterSend, Drain, Pop, CheckEmpty
    <2>3. QED
      BY <2>1, <2>2 DEF InSend
  <1>6. ASSUME NEW t \in Threads, SendExchange(t) PROVE FlagHasOwner'
    <2>1. CASE sendRegistered
      BY <1>0, <1>6, <2>1 DEF SendExchange, Return, TypeOK, InSend, SendPcs, events
    <2>2. CASE ~sendRegistered
      BY <1>0, <1>6, <2>2 DEF SendExchange, Goto, TypeOK, InSend, SendPcs
    <2>3. QED
      BY <2>1, <2>2
  <1>7. ASSUME NEW t \in Threads,
               \/ ProcessRecv(t) \/ ProcessDisconnect(t) \/ AddSession(t) \/ OnConnected(t)
               \/ RegisterRecv(t) \/ WSARecv(t) \/ OnRecv(t) \/ FinishRecv(t) \/ Broadcast(t)
               \/ SendCheck(t) \/ SendLock(t) \/ SendPush(t)
               \/ RegisterDisconnect(t) \/ ReleaseSession(t)
        PROVE  FlagHasOwner'
    <2>1. /\ pc[t] \notin SendPcs \cup {"disconnect"}
          /\ \A u \in Threads : u # t => pc'[u] = pc[u]
      BY <1>0, <1>7 DEF ProcessRecv, ProcessDisconnect, AddSession, OnConnected, GameOnConnected,
        ClientOnConnected, RegisterRecv, WSARecv, OnRecv, GameOnRecv, ClientOnRecv, FinishRecv,
        Broadcast, SendCheck, SendLock, SendPush, RegisterDisconnect, ReleaseSession, Dequeue,
        Goto, Return, CallSend, TypeOK, SendPcs
    <2>2. UNCHANGED <<connected, sendRegistered>>
      BY <1>7 DEF ProcessRecv, ProcessDisconnect, AddSession, OnConnected, GameOnConnected,
        ClientOnConnected, RegisterRecv, WSARecv, OnRecv, GameOnRecv, ClientOnRecv, FinishRecv,
        Broadcast, SendCheck, SendLock, SendPush, RegisterDisconnect, ReleaseSession, sending
    <2>3. io'["Send"] = io["Send"]
      BY <1>0, <1>7 DEF ProcessRecv, ProcessDisconnect, AddSession, OnConnected, GameOnConnected,
        ClientOnConnected, RegisterRecv, WSARecv, OnRecv, GameOnRecv, ClientOnRecv, FinishRecv,
        Broadcast, SendCheck, SendLock, SendPush, RegisterDisconnect, ReleaseSession, Dequeue,
        Post, Refuse, TypeOK, Ops, events
    <2>4. QED
      BY <2>1, <2>2, <2>3 DEF InSend
  <1>8. CASE KernelStep
    <2>1. UNCHANGED <<pc, connected, sendRegistered>> /\ CompletesOnly
      BY <1>0, <1>8, KernelSteps
    <2>2. io["Send"] # "idle" => io'["Send"] # "idle"
      BY <2>1 DEF CompletesOnly, Ops
    <2>3. QED
      BY <2>1, <2>2 DEF InSend
  <1>9. QED
    BY <1>1, <1>2, <1>3, <1>4, <1>5, <1>6, <1>7, <1>8 DEF Next, Handle, Step, KernelStep

\* The receive chain ends only in a refused WSARecv or a disconnect.
LEMMA NextListens ==
  ASSUME Inv, LiveSessionListens, [Next]_vars
  PROVE  LiveSessionListens'
  <1>0. TypeOK
    BY DEF Inv
  <1> USE DEF LiveSessionListens
  <1>1. ASSUME NEW t \in Threads, ProcessConnect(t) \/ ProcessRecv(t) PROVE LiveSessionListens'
    <2>1. pc'[t] \in RecvPcs \cup {"disconnect"}
      BY <1>0, <1>1 DEF ProcessConnect, ProcessRecv, Goto, TypeOK, RecvPcs
    <2>2. QED
      BY <2>1 DEF InRecv
  <1>2. ASSUME NEW t \in Threads, AddSession(t) \/ OnConnected(t) \/ OnRecv(t) \/ FinishRecv(t)
        PROVE  LiveSessionListens'
    <2>1. pc'[t] \in RecvPcs \cup {"disconnect"} \/ ret'[t] # "idle"
      BY <1>0, <1>2 DEF AddSession, OnConnected, GameOnConnected, ClientOnConnected, OnRecv,
        GameOnRecv, ClientOnRecv, FinishRecv, Goto, CallSend, TypeOK, RecvPcs
    <2>2. QED
      BY <2>1 DEF InRecv
  <1>3. ASSUME NEW t \in Threads, RegisterRecv(t) PROVE LiveSessionListens'
    BY <1>0, <1>3 DEF RegisterRecv, Goto, TypeOK, InRecv, RecvPcs
  <1>4. ASSUME NEW t \in Threads, WSARecv(t) PROVE LiveSessionListens'
    BY <1>0, <1>4 DEF WSARecv, Post, Refuse, TypeOK, Ops
  <1>5. ASSUME NEW t \in Threads, Disconnect(t) PROVE LiveSessionListens'
    BY <1>5 DEF Disconnect
  <1>6. ASSUME NEW t \in Threads,
               \/ ProcessSend(t) \/ ProcessDisconnect(t) \/ Broadcast(t)
               \/ SendCheck(t) \/ SendLock(t) \/ SendPush(t) \/ SendExchange(t)
               \/ RegisterSend(t) \/ Drain(t) \/ Pop(t) \/ WSASend(t) \/ ClearFlag(t) \/ CheckEmpty(t)
               \/ RegisterDisconnect(t) \/ ReleaseSession(t)
        PROVE  LiveSessionListens'
    <2>1. \A u \in Threads : u # t => pc'[u] = pc[u] /\ ret'[u] = ret[u]
      BY <1>0, <1>6 DEF ProcessSend, ProcessDisconnect, Broadcast, SendCheck, SendLock, SendPush,
        SendExchange, RegisterSend, Drain, Pop, WSASend, ClearFlag, CheckEmpty,
        RegisterDisconnect, ReleaseSession, Dequeue, Goto, Return, CallSend, TypeOK
    <2>2. pc[t] \notin RecvPcs \cup {"disconnect"}
      BY <1>6 DEF ProcessSend, ProcessDisconnect, Broadcast, SendCheck, SendLock, SendPush,
        SendExchange, RegisterSend, Drain, Pop, WSASend, ClearFlag, CheckEmpty,
        RegisterDisconnect, ReleaseSession, Dequeue, RecvPcs
    <2>3. ret[t] # "idle" => ret'[t] # "idle" \/ pc'[t] \in RecvPcs
      <3> USE <1>0 DEF TypeOK, Goto, Return, RecvPcs
      <3>1. CASE SendCheck(t) \/ SendLock(t) \/ SendPush(t) \/ SendExchange(t)
        BY <3>1 DEF SendCheck, SendLock, SendPush, SendExchange
      <3>2. CASE RegisterSend(t) \/ Drain(t) \/ Pop(t) \/ WSASend(t) \/ ClearFlag(t) \/ CheckEmpty(t)
        BY <3>2 DEF RegisterSend, Drain, Pop, WSASend, ClearFlag, CheckEmpty
      <3>3. CASE ProcessSend(t) \/ ProcessDisconnect(t) \/ RegisterDisconnect(t) \/ ReleaseSession(t)
        BY <3>3 DEF ProcessSend, ProcessDisconnect, RegisterDisconnect, ReleaseSession
      <3>4. CASE Broadcast(t)
        BY <3>4 DEF Broadcast, Inv, CalledInsideSend, SendPcs
      <3>5. QED
        BY <1>6, <3>1, <3>2, <3>3, <3>4
    <2>4. "Recv" \in faults => "Recv" \in faults'
      BY <1>6 DEF ProcessSend, ProcessDisconnect, Broadcast, SendCheck, SendLock, SendPush,
        SendExchange, RegisterSend, Drain, Pop, WSASend, ClearFlag, CheckEmpty,
        RegisterDisconnect, ReleaseSession, Refuse, outside
    <2>5. connected' = connected
      BY <1>6 DEF ProcessSend, ProcessDisconnect, Broadcast, SendCheck, SendLock, SendPush,
        SendExchange, RegisterSend, Drain, Pop, WSASend, ClearFlag, CheckEmpty,
        RegisterDisconnect, ReleaseSession
    <2>6. io'["Recv"] = io["Recv"]
      BY <1>0, <1>6 DEF ProcessSend, ProcessDisconnect, Broadcast, SendCheck, SendLock, SendPush,
        SendExchange, RegisterSend, Drain, Pop, WSASend, ClearFlag, CheckEmpty,
        RegisterDisconnect, ReleaseSession, Dequeue, Post, Refuse, TypeOK, Ops, events
    <2>7. QED
      BY <2>1, <2>2, <2>3, <2>4, <2>5, <2>6 DEF InRecv
  <1>7. CASE KernelStep
    <2>1. UNCHANGED <<pc, ret, connected, faults>> /\ CompletesOnly
      BY <1>0, <1>7, KernelSteps
    <2>2. io["Recv"] # "idle" => io'["Recv"] # "idle"
      BY <2>1 DEF CompletesOnly, Ops
    <2>3. QED
      BY <2>1, <2>2 DEF InRecv
  <1>8. QED
    BY <1>1, <1>2, <1>3, <1>4, <1>5, <1>6, <1>7 DEF Next, Handle, Step, KernelStep

-----------------------------------------------------------------------------
(* Owners. *)

\* Of every event but sendEvent_ the owner is set exactly while it is in use.
OwnerMatches(op) == owner[op] <=> io[op] # "idle"

SendOwnerMatches ==
  /\ io["Send"] # "idle" => owner["Send"]
  /\ owner["Send"] => \/ io["Send"] # "idle"
                      \/ \E t \in Threads : pc[t] \in {"drain", "pop", "wsaSend"}

OwnersMatch ==
  /\ \A op \in {"Connect", "Recv", "Disconnect"} : OwnerMatches(op)
  /\ SendOwnerMatches

\* The two properties about owners, put together.
LEMMA OwnersAreMatched == OwnersMatch <=> OwnedWhileInFlight /\ NoOwnerLeak
  BY DEF OwnersMatch, OwnerMatches, SendOwnerMatches, OwnedWhileInFlight, NoOwnerLeak, Ops

\* Posting and dequeuing keep the match, and so does a refusal when the event was
\* not in use.
LEMMA EventOwners ==
  ASSUME TypeOK, NEW op \in Ops, NEW other \in Ops, NEW t, NEW result,
         OwnerMatches(other),
         \/ Post(op)
         \/ Refuse(op) /\ (op = other => io[op] = "idle")
         \/ Dequeue(t, op, result)
         \/ UNCHANGED events
  PROVE  OwnerMatches(other)'
  <1>1. EventsOK
    BY TypeParts
  <1>2. QED
    BY <1>1 DEF EventsOK, OwnerMatches, Post, Refuse, Dequeue, events

\* An event is only ever refused when it was not in use: the exclusive use of
\* the three events is what makes dropping the owner safe.
LEMMA NextOwners ==
  ASSUME Inv, DisconnectExclusive, OwnersMatch, [Next]_vars
  PROVE  OwnersMatch'
  <1>0. TypeOK /\ SendEventExclusive /\ RecvEventExclusive
    BY DEF Inv, SendInv
  <1>1. ASSUME NEW other \in {"Connect", "Recv", "Disconnect"} PROVE OwnerMatches(other)'
    <2>0. other \in Ops /\ OwnerMatches(other) /\ other # "Send"
      BY DEF Ops, OwnersMatch
    <2>1. ASSUME NEW t \in Threads, Handle(t) PROVE OwnerMatches(other)'
      BY <1>0, <2>0, <2>1, EventOwners
      DEF Handle, ProcessConnect, ProcessRecv, ProcessSend, ProcessDisconnect, Ops
    <2>2. ASSUME NEW t \in Threads, WSARecv(t) PROVE OwnerMatches(other)'
      <3>1. io["Recv"] = "idle"
        BY <1>0, <2>2 DEF WSARecv, RecvEventExclusive, InRecv, RecvPcs
      <3>2. QED
        BY <1>0, <2>0, <2>2, <3>1, EventOwners DEF WSARecv, Ops
    <2>3. ASSUME NEW t \in Threads, WSASend(t) PROVE OwnerMatches(other)'
      BY <1>0, <2>0, <2>3, EventOwners DEF WSASend, Ops
    <2>4. ASSUME NEW t \in Threads, RegisterDisconnect(t) PROVE OwnerMatches(other)'
      <3>1. io["Disconnect"] = "idle"
        BY <2>4 DEF RegisterDisconnect, DisconnectExclusive, InDisconnect
      <3>2. QED
        BY <1>0, <2>0, <2>4, <3>1, EventOwners DEF RegisterDisconnect, Ops
    <2>5. ASSUME NEW t \in Threads, RegisterSend(t) PROVE OwnerMatches(other)'
      BY <1>0, <2>0, <2>5 DEF RegisterSend, OwnerMatches, TypeOK
    <2>6. ASSUME NEW t \in Threads,
                 \/ AddSession(t) \/ OnConnected(t) \/ RegisterRecv(t) \/ OnRecv(t) \/ FinishRecv(t)
                 \/ Broadcast(t) \/ SendCheck(t) \/ SendLock(t) \/ SendPush(t) \/ SendExchange(t)
                 \/ Drain(t) \/ Pop(t) \/ ClearFlag(t) \/ CheckEmpty(t)
                 \/ Disconnect(t) \/ ReleaseSession(t)
          PROVE  OwnerMatches(other)'
      <3>1. UNCHANGED events
        BY <2>6 DEF AddSession, OnConnected, GameOnConnected, ClientOnConnected, RegisterRecv,
          OnRecv, GameOnRecv, ClientOnRecv, FinishRecv, Broadcast, SendCheck, SendLock, SendPush,
          SendExchange, Drain, Pop, ClearFlag, CheckEmpty, Disconnect, ReleaseSession
      <3>2. QED
        BY <2>0, <3>1 DEF OwnerMatches, events
    <2>7. CASE KernelStep
      <3>1. owner' = owner /\ CompletesOnly
        BY <1>0, <2>7, KernelSteps
      <3>2. QED
        BY <2>0, <3>1 DEF CompletesOnly, OwnerMatches
    <2>8. QED
      BY <2>1, <2>2, <2>3, <2>4, <2>5, <2>6, <2>7 DEF Next, Step, KernelStep
  <1>2. SendOwnerMatches'
    <2>0. SendOwnerMatches /\ "Send" \in Ops
      BY DEF OwnersMatch, Ops
    <2> USE DEF SendOwnerMatches
    <2>1. ASSUME NEW t \in Threads, ProcessSend(t) PROVE SendOwnerMatches'
      BY <1>0, <2>1 DEF ProcessSend, Dequeue, TypeOK, Ops
    <2>2. ASSUME NEW t \in Threads, RegisterSend(t) PROVE SendOwnerMatches'
      <3>1. CASE connected
        BY <1>0, <2>2, <3>1 DEF RegisterSend, Goto, TypeOK, Ops
      <3>2. CASE ~connected
        <4>1. /\ \A u \in Threads : pc[u] \in {"drain", "pop", "wsaSend"} => pc'[u] = pc[u]
              /\ UNCHANGED <<io, owner>>
          BY <1>0, <2>2, <3>2 DEF RegisterSend, Return, TypeOK
        <4>2. QED
          BY <2>0, <4>1
      <3>3. QED
        BY <3>1, <3>2
    <2>3. ASSUME NEW t \in Threads, WSASend(t) PROVE SendOwnerMatches'
      <3>1. io["Send"] = "idle"
        BY <1>0, <2>3 DEF WSASend, SendEventExclusive, InSend, SendPcs
      <3>2. QED
        BY <1>0, <2>3, <3>1 DEF WSASend, Post, Refuse, TypeOK, Ops
    <2>4. ASSUME NEW t \in Threads, Drain(t) \/ Pop(t) PROVE SendOwnerMatches'
      <3>1. pc'[t] \in {"drain", "pop", "wsaSend"} /\ UNCHANGED <<io, owner>>
        BY <1>0, <2>4 DEF Drain, Pop, Goto, TypeOK, events
      <3>2. QED
        BY <2>0, <3>1
    <2>5. ASSUME NEW t \in Threads,
                 \/ ProcessConnect(t) \/ ProcessRecv(t) \/ ProcessDisconnect(t)
                 \/ AddSession(t) \/ OnConnected(t) \/ RegisterRecv(t) \/ WSARecv(t) \/ OnRecv(t)
                 \/ FinishRecv(t) \/ Broadcast(t) \/ SendCheck(t) \/ SendLock(t) \/ SendPush(t)
                 \/ SendExchange(t) \/ ClearFlag(t) \/ CheckEmpty(t)
                 \/ Disconnect(t) \/ RegisterDisconnect(t) \/ ReleaseSession(t)
          PROVE  SendOwnerMatches'
      <3>1. \A u \in Threads : pc[u] \in {"drain", "pop", "wsaSend"} => pc'[u] = pc[u]
        BY <1>0, <2>5 DEF ProcessConnect, ProcessRecv, ProcessDisconnect, AddSession, OnConnected,
          GameOnConnected, ClientOnConnected, RegisterRecv, WSARecv, OnRecv, GameOnRecv,
          ClientOnRecv, FinishRecv, Broadcast, SendCheck, SendLock, SendPush, SendExchange,
          ClearFlag, CheckEmpty, Disconnect, RegisterDisconnect, ReleaseSession, Dequeue, Goto,
          Return, CallSend, TypeOK
      <3>2. io'["Send"] = io["Send"] /\ owner'["Send"] = owner["Send"]
        BY <1>0, <2>5 DEF ProcessConnect, ProcessRecv, ProcessDisconnect, AddSession, OnConnected,
          GameOnConnected, ClientOnConnected, RegisterRecv, WSARecv, OnRecv, GameOnRecv,
          ClientOnRecv, FinishRecv, Broadcast, SendCheck, SendLock, SendPush, SendExchange,
          ClearFlag, CheckEmpty, Disconnect, RegisterDisconnect, ReleaseSession, Dequeue, Post,
          Refuse, TypeOK, Ops, events
      <3>3. QED
        BY <2>0, <3>1, <3>2
    <2>6. CASE KernelStep
      <3>1. UNCHANGED <<pc, owner>> /\ CompletesOnly
        BY <1>0, <2>6, KernelSteps
      <3>2. QED
        BY <2>0, <3>1 DEF CompletesOnly
    <2>7. QED
      BY <2>1, <2>2, <2>3, <2>4, <2>5, <2>6 DEF Next, Handle, Step, KernelStep
  <1>3. QED
    BY <1>1, <1>2 DEF OwnersMatch

-----------------------------------------------------------------------------
(* The theorems. *)

LifeInv ==
  /\ Inv /\ Fresh /\ OpeningAlone /\ Teardown /\ TornDownLeaves
  /\ FlagHasOwner /\ LiveSessionListens /\ OwnersMatch

\* The invariant holds of a session that is still connecting.
LEMMA InitLifeInv == Init => LifeInv
  <1> SUFFICES ASSUME Init PROVE LifeInv
    OBVIOUS
  <1>1. Inv
    BY InitInv
  <1>2. Fresh /\ OpeningAlone
    BY DEF Init, Fresh, OpeningAlone, Opening, Ops
  <1>3. Teardown
    BY DEF Init, Teardown, DisconnectExclusive, CountedWhileAlive, ReleaseFindsSession,
      ListedIsCounted, InDisconnect, Ops
  <1>4. FlagHasOwner /\ LiveSessionListens /\ TornDownLeaves
    BY DEF Init, FlagHasOwner, LiveSessionListens, TornDownLeaves
  <1>5. OwnersMatch
    BY DEF Init, OwnersMatch, OwnerMatches, SendOwnerMatches, Ops
  <1>6. QED
    BY <1>1, <1>2, <1>3, <1>4, <1>5 DEF LifeInv

\* Every step preserves it.
LEMMA NextLifeInv == LifeInv /\ [Next]_vars => LifeInv'
  <1> SUFFICES ASSUME LifeInv, [Next]_vars PROVE LifeInv'
    OBVIOUS
  <1>1. DisconnectExclusive
    BY DEF LifeInv, Teardown
  <1>2. QED
    BY <1>1, NextInv, NextOpening, NextTeardown, NextTornDown, NextFlag, NextListens, NextOwners
    DEF LifeInv

\* Every reachable state satisfies the inductive invariant.
THEOREM LifeInvariance == Spec => []LifeInv
  BY InitLifeInv, NextLifeInv, PTL DEF Spec

\* Disconnect's exchange on connected_ lets one caller through, however many
\* threads find the connection broken: one thread tears down, DisconnectEx is
\* posted once and only after connected_ went down.
THEOREM DisconnectIsExclusive == Spec => []DisconnectExclusive
  <1>1. LifeInv => DisconnectExclusive
    BY DEF LifeInv, Teardown
  <1>2. QED
    BY <1>1, LifeInvariance, PTL

\* The assertion in Service::ReleaseSession never fires: the thread about to
\* release the session finds it in the table, already off the broadcast list.
THEOREM ReleaseNeverCrashes == Spec => []ReleaseFindsSession
  <1>1. LifeInv => ReleaseFindsSession
    BY DEF LifeInv, Teardown
  <1>2. QED
    BY <1>1, LifeInvariance, PTL

\* A session whose connection went down is on its way out of the service's table,
\* unless Winsock refused its DisconnectEx.
THEOREM TornDownAlwaysLeaves == Spec => []TornDownLeaves
  <1>1. LifeInv => TornDownLeaves
    BY DEF LifeInv
  <1>2. QED
    BY <1>1, LifeInvariance, PTL

\* A session that can be broadcast to is one the service holds.
THEOREM ListedIsAlwaysCounted == Spec => []ListedIsCounted
  <1>1. LifeInv => ListedIsCounted
    BY DEF LifeInv, Teardown
  <1>2. QED
    BY <1>1, LifeInvariance, PTL

\* A live connection's sendRegistered_ is never left set with nobody to clear it,
\* torn queue and refused calls included.
THEOREM FlagAlwaysHasOwner == Spec => []FlagHasOwner
  <1>1. LifeInv => FlagHasOwner
    BY DEF LifeInv
  <1>2. QED
    BY <1>1, LifeInvariance, PTL

\* A live connection always has a receive posted or about to be, unless Winsock
\* refused one.
THEOREM LiveSessionAlwaysListens == Spec => []LiveSessionListens
  <1>1. LifeInv => LiveSessionListens
    BY DEF LifeInv
  <1>2. QED
    BY <1>1, LifeInvariance, PTL

\* Whatever is posted or queued at the completion port has its owner: the kernel
\* never works on a freed session and Dispatch never dereferences a null owner.
THEOREM InFlightIsOwned == Spec => []OwnedWhileInFlight
  <1>1. LifeInv => OwnedWhileInFlight
    BY OwnersAreMatched DEF LifeInv
  <1>2. QED
    BY <1>1, LifeInvariance, PTL

\* No event keeps its owner once it is out of use, refused calls included, so no
\* event keeps a dead session alive.
THEOREM OwnersAreDropped == Spec => []NoOwnerLeak
  <1>1. LifeInv => NoOwnerLeak
    BY OwnersAreMatched DEF LifeInv
  <1>2. QED
    BY <1>1, LifeInvariance, PTL

\* connected_ rises only in the one ProcessConnect of a session never counted
\* before: a session once disconnected stays so.
THEOREM NeverReconnects == Spec => NoReconnect
  <1>1. LifeInv /\ [Next]_vars => [~connected /\ connected' => ~inService /\ io["Connect"] # "idle"]_vars
    <2> SUFFICES ASSUME LifeInv, [Next]_vars, ~connected, connected'
                 PROVE  ~inService /\ io["Connect"] # "idle"
      OBVIOUS
    <2>1. TypeOK
      BY DEF LifeInv, Inv
    <2>2. CASE \E t \in Threads : ProcessConnect(t)
      <3>1. io["Connect"] # "idle"
        BY <2>2 DEF ProcessConnect, Dequeue
      <3>2. QED
        BY <3>1 DEF LifeInv, Fresh
    <2>3. CASE KernelStep
      BY <2>1, <2>3, KernelSteps
    <2>4. CASE \E t \in Threads : \/ AddSession(t) \/ OnConnected(t) \/ OffLife(t)
                                  \/ RegisterDisconnect(t) \/ ProcessDisconnect(t) \/ ReleaseSession(t)
      BY <2>1, <2>4, OffLifeKeeps
      DEF LifeKept, AddSession, OnConnected, GameOnConnected, ClientOnConnected,
        RegisterDisconnect, ProcessDisconnect, ReleaseSession
    <2>5. CASE \E t \in Threads : Disconnect(t)
      BY <2>5 DEF Disconnect
    <2>6. QED
      BY <2>2, <2>3, <2>4, <2>5 DEF Next, Handle, Step, OffLife, KernelStep
  <1>2. QED
    BY <1>1, LifeInvariance, PTL DEF Spec, NoReconnect

\* The session enters the broadcast list only in OnConnected, while the connection
\* is up and no disconnect is out: its removal is final.
THEOREM RemovalStaysFinal == Spec => RemovalIsFinal
  <1>1. LifeInv /\ [Next]_vars => [~inManager /\ inManager' => connected /\ io["Disconnect"] = "idle"]_vars
    <2> SUFFICES ASSUME LifeInv, [Next]_vars, ~inManager, inManager'
                 PROVE  connected /\ io["Disconnect"] = "idle"
      OBVIOUS
    <2>1. TypeOK
      BY DEF LifeInv, Inv
    <2>2. CASE \E t \in Threads : OnConnected(t)
      BY <2>2 DEF OnConnected, GameOnConnected, ClientOnConnected, LifeInv, OpeningAlone, Opening,
        Ops
    <2>3. CASE KernelStep
      BY <2>1, <2>3, KernelSteps
    <2>4. CASE \E t \in Threads : \/ AddSession(t) \/ ProcessConnect(t) \/ OffLife(t) \/ Disconnect(t)
                                  \/ RegisterDisconnect(t) \/ ProcessDisconnect(t) \/ ReleaseSession(t)
      BY <2>1, <2>4, OffLifeKeeps
      DEF LifeKept, AddSession, ProcessConnect, Disconnect, RegisterDisconnect, ProcessDisconnect,
        ReleaseSession, tables
    <2>5. QED
      BY <2>2, <2>3, <2>4 DEF Next, Handle, Step, OffLife, KernelStep
  <1>2. QED
    BY <1>1, LifeInvariance, PTL DEF Spec, RemovalIsFinal
-----------------------------------------------------------------------------
(* Session implements SessionLifetime. *)

\* A step that opens, disconnects and releases nothing keeps the stage.  It ends a
\* hold on the session at will, and begins one from the broadcast list only.
Minor(t) == OffLife(t) \/ RegisterDisconnect(t) \/ ProcessDisconnect(t)

\* It is the step of somebody who has the session already, or a broadcast.
LEMMA MinorHolds ==
  ASSUME LifeInv, NEW t \in Threads, Minor(t)
  PROVE  /\ Held \/ inService
         /\ connected => inService
         /\ UNCHANGED <<Stage, inService>>
  <1>0. TypeOK /\ Inv /\ Fresh /\ OpeningAlone /\ Teardown /\ OwnedWhileInFlight
    BY OwnersAreMatched DEF LifeInv, Inv
  <1>1. Held \/ inService
    <2>1. \/ pc[t] # "idle"
          \/ \E op \in Ops : io[op] # "idle"
          \/ inManager
      BY DEF Minor, OffLife, Ops, Dequeue, ProcessRecv, ProcessSend, ProcessDisconnect, Broadcast,
        RegisterRecv, WSARecv, OnRecv, GameOnRecv, ClientOnRecv, FinishRecv, SendCheck, SendLock,
        SendPush, SendExchange, RegisterSend, Drain, Pop, WSASend, ClearFlag, CheckEmpty,
        RegisterDisconnect
    <2>2. QED
      BY <1>0, <2>1 DEF Held, OwnedWhileInFlight, Teardown, ListedIsCounted
  <1>2. Later(t)
    BY DEF Minor, OffLife, Later
  <1>3. io["Connect"] = "idle" /\ io'["Connect"] = "idle" /\ \A u \in Threads : pc[u] # "addSession"
    BY <1>0, <1>2, LaterIsLater, LaterStays DEF Opening
  <1>4. connected => inService
    BY <1>0, <1>3 DEF Teardown, CountedWhileAlive
  <1>5. UNCHANGED <<connected, inService>>
    BY <1>0, OffLifeKeeps DEF Minor, LifeKept, RegisterDisconnect, ProcessDisconnect, tables
  <1>6. QED
    BY <1>1, <1>3, <1>4, <1>5 DEF Stage

\* Every step of the session is a step of its lifetime, or none.
LEMMA StepImplementsLifetime ==
  ASSUME LifeInv, [Next]_vars
  PROVE  [Lifetime!Next]_<<Stage, inService, Held>>
  <1>0. TypeOK /\ Inv /\ Fresh /\ OpeningAlone /\ Teardown /\ OwnedWhileInFlight
    BY OwnersAreMatched DEF LifeInv, Inv
  <1>1. ASSUME NEW t \in Threads, ProcessConnect(t) PROVE Lifetime!Connect
    <2>1. io["Connect"] # "idle" /\ io'["Connect"] = "idle" /\ connected' /\ UNCHANGED inService
      BY <1>0, <1>1 DEF ProcessConnect, Dequeue, TypeOK, Ops, tables
    <2>2. Stage = "made" /\ Stage' = "connected"
      BY <2>1 DEF Stage
    <2>3. Held
      BY <1>0, <2>1 DEF Held, OwnedWhileInFlight, Ops
    <2>4. Held'
      BY <1>0, <1>1 DEF Held, ProcessConnect, Goto, TypeOK
    <2>5. QED
      BY <2>1, <2>2, <2>3, <2>4 DEF Lifetime!Connect
  <1>2. ASSUME NEW t \in Threads, AddSession(t) PROVE Lifetime!List
    <2>1. io["Connect"] = "idle" /\ connected
      BY <1>0, <1>2 DEF AddSession, OpeningAlone, Opening, Ops
    <2>2. UNCHANGED <<io, connected>> /\ inService'
      BY <1>2 DEF AddSession, events
    <2>3. Stage = "connected" /\ UNCHANGED Stage
      BY <2>1, <2>2 DEF Stage
    <2>4. Held /\ Held'
      BY <1>0, <1>2 DEF Held, AddSession, Goto, TypeOK
    <2>5. QED
      BY <2>2, <2>3, <2>4 DEF Lifetime!List
  <1>3. ASSUME NEW t \in Threads, OnConnected(t) PROVE UNCHANGED <<Stage, inService, Held>>
    <2>1. UNCHANGED <<io, connected, inService>>
      BY <1>3 DEF OnConnected, events
    <2>2. Held /\ Held'
      BY <1>0, <1>3
      DEF Held, OnConnected, GameOnConnected, ClientOnConnected, Goto, CallSend, TypeOK
    <2>3. QED
      BY <2>1, <2>2 DEF Stage
  <1>4. ASSUME NEW t \in Threads, Disconnect(t)
        PROVE  Lifetime!Disconnect \/ Lifetime!LetGo \/ UNCHANGED <<Stage, inService, Held>>
    <2>1. io["Connect"] = "idle" /\ \A u \in Threads : pc[u] # "addSession"
      BY <1>0, <1>4, LaterIsLater DEF Later, Opening
    <2>2. UNCHANGED <<io, inService>> /\ ~connected'
      BY <1>4 DEF Disconnect, events, tables
    <2>3. Stage = (IF connected THEN "connected" ELSE "closed") /\ Stage' = "closed"
      BY <2>1, <2>2 DEF Stage
    <2>4. Held
      BY <1>4 DEF Held, Disconnect
    <2>5. CASE connected
      <3>1. inService
        BY <1>0, <2>1, <2>5 DEF Teardown, CountedWhileAlive
      <3>2. Held'
        BY <1>0, <1>4, <2>5 DEF Held, Disconnect, Goto, TypeOK
      <3>3. QED
        BY <2>2, <2>3, <2>5, <3>1, <3>2 DEF Lifetime!Disconnect
    <2>6. CASE ~connected
      BY <2>2, <2>3, <2>4, <2>6 DEF Lifetime!LetGo
    <2>7. QED
      BY <2>5, <2>6
  <1>5. ASSUME NEW t \in Threads, ReleaseSession(t) PROVE Lifetime!Release
    <2>1. io["Connect"] = "idle"
      BY <1>0, <1>5, LaterIsLater DEF Later
    <2>2. ~connected /\ inService
      BY <1>0, <1>5
      DEF ReleaseSession, Teardown, DisconnectExclusive, InDisconnect, ReleaseFindsSession
    <2>3. UNCHANGED <<io, connected>> /\ ~inService'
      BY <1>5 DEF ReleaseSession, events
    <2>4. Stage = "closed" /\ UNCHANGED Stage
      BY <2>1, <2>2, <2>3 DEF Stage
    <2>5. Held /\ Held' \in BOOLEAN
      BY <1>5 DEF Held, ReleaseSession
    <2>6. QED
      BY <2>2, <2>3, <2>4, <2>5 DEF Lifetime!Release
  <1>6. ASSUME NEW t \in Threads, Minor(t)
        PROVE  Lifetime!Find \/ Lifetime!LetGo \/ UNCHANGED <<Stage, inService, Held>>
    <2>1. /\ Held \/ inService
          /\ connected => inService
          /\ UNCHANGED <<Stage, inService>>
      BY <1>6, MinorHolds
    <2>2. Stage = "connected" => inService
      BY <2>1 DEF Stage
    <2>3. CASE Held /\ ~Held'
      BY <2>1, <2>2, <2>3 DEF Lifetime!LetGo
    <2>4. CASE ~Held /\ Held'
      BY <2>1, <2>4 DEF Lifetime!Find
    <2>5. CASE Held <=> Held'
      BY <2>1, <2>5 DEF Held
    <2>6. QED
      BY <2>3, <2>4, <2>5
  <1>7. CASE KernelStep
    <2>1. /\ UNCHANGED <<pc, connected, inService, owner>>
          /\ CompletesOnly
      BY <1>0, <1>7, KernelSteps
    <2>2. io["Connect"] # "idle" <=> io'["Connect"] # "idle"
      BY <2>1 DEF CompletesOnly, Ops
    <2>3. QED
      BY <2>1, <2>2 DEF Stage, Held
  <1>8. QED
    BY <1>1, <1>2, <1>3, <1>4, <1>5, <1>6, <1>7
    DEF Next, Handle, Step, KernelStep, Minor, OffLife, Lifetime!Next

\* For any number of workers, refused calls and a torn queue included: a session is
\* counted before anybody can disconnect it, disconnected and released at most once,
\* and reached by nobody after the table, the events and the threads let go of it.
THEOREM SessionImplementsLifetime == Spec => ImplementsLifetime
  <1>1. Init => Lifetime!Init
    <2> SUFFICES ASSUME Init PROVE Lifetime!Init
      OBVIOUS
    <2>1. Stage = "made" /\ ~inService
      BY DEF Init, Stage, Ops
    <2>2. Held
      BY DEF Init, Held, Ops
    <2>3. QED
      BY <2>1, <2>2 DEF Lifetime!Init
  <1>2. LifeInv /\ [Next]_vars => [Lifetime!Next]_<<Stage, inService, Held>>
    BY StepImplementsLifetime
  <1>3. QED
    BY <1>1, <1>2, LifeInvariance, PTL DEF Spec, Lifetime!Spec, Lifetime!vars, ImplementsLifetime

\* A session that was destroyed is not used again: no event of its own is posted or
\* queued, no thread is on its way to it, and nobody can find it.
THEOREM GoneStaysGone == Spec => GoneIsFinal
  <1>1. LifeInv /\ LifeInv' /\ [Lifetime!Next]_<<Stage, inService, Held>>
          => [Unreferenced => Unreferenced']_vars
    <2> SUFFICES ASSUME LifeInv', [Lifetime!Next]_<<Stage, inService, Held>>, ~inService, ~Held
                 PROVE  Unreferenced'
      BY DEF Unreferenced
    <2>1. Stage # "unmade"
      BY DEF Stage
    <2>2. ~inService' /\ ~Held'
      BY <2>1
      DEF Lifetime!Next, Lifetime!Make, Lifetime!Connect, Lifetime!List, Lifetime!Disconnect,
        Lifetime!Release, Lifetime!Find, Lifetime!LetGo
    <2>3. ~inManager'
      BY <2>2 DEF LifeInv, Teardown, ListedIsCounted
    <2>4. QED
      BY <2>2, <2>3 DEF Unreferenced
  <1>2. LifeInv /\ [Next]_vars => [Lifetime!Next]_<<Stage, inService, Held>>
    BY StepImplementsLifetime
  <1>3. QED
    BY <1>1, <1>2, LifeInvariance, PTL DEF Spec, GoneIsFinal
=============================================================================

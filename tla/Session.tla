------------------------------- MODULE Session -------------------------------
(***************************************************************************)
(* One connection of the server core (ServerCore/Session.cpp) run by the   *)
(* worker threads that loop in IOCPCore::Dispatch.                         *)
(*                                                                         *)
(* Every variable the threads share is touched in a step of its own, so    *)
(* that Send, RegisterSend, ProcessSend, ProcessRecv and Disconnect        *)
(* interleave as they do on the machine.  A thread's place in the code is  *)
(* pc[t]; ret[t] is where a nested call (Send from a callback, then        *)
(* RegisterSend from Send) returns to.                                     *)
(*                                                                         *)
(* The kernel is the environment: it completes a posted operation with     *)
(* some bytes ("ok") or with none ("zero": end of stream or an error,      *)
(* which Dispatch hands to the object all the same).                       *)
(***************************************************************************)
EXTENDS Integers, Sequences, SequencesExt

CONSTANTS
  Threads,      \* the worker threads
  NoThread,     \* lock_ is free
  Role,         \* "server": GameSession; "client": DummyClient's ServerSession
  MaxCalls,     \* bound: receives plus Send calls of other sessions' threads
  Refusals,     \* calls Winsock may refuse at once (other than WSA_IO_PENDING)
  MayReject,    \* a subclass's OnRecv may return an illegal length
  ConnectFails, \* the client's ConnectEx may complete with an error
  Torn          \* an unlocked pop overlapping a push may tear std::queue

Ops == {"Connect", "Recv", "Send", "Disconnect"}

ASSUME SessionAssumption ==
  /\ NoThread \notin Threads
  /\ Role \in {"server", "client"}
  /\ MaxCalls \in Nat
  /\ Refusals \subseteq {"Recv", "Send", "Disconnect"}
  /\ MayReject \in BOOLEAN
  /\ ConnectFails \in BOOLEAN
  /\ Torn \in BOOLEAN

VARIABLES
  pc, ret,          \* place in the code and return address of each thread
  connected,        \* connected_
  sendRegistered,   \* sendRegistered_
  lock,             \* holder of lock_
  sendQueue,        \* sendQueue_, buffers named by their ticket
  sendBuffers,      \* sendEvent_.sendBuffers
  raced,            \* a pop ran inside the push now in progress
  io,               \* the OVERLAPPED of each of the session's four events
  owner,            \* does the event's owner hold the session?
  inService,        \* the session is in Service::sessions_
  inManager,        \* the session is in GSessionManager.Sessions_
  sock,             \* the transport
  calls,            \* receives and foreign Send calls so far
  pushes,           \* tickets drawn: the number of pushes so far
  wire,             \* tickets accepted by WSASend, in order
  faults            \* what went wrong so far: refused calls, "empty" or "reject"

control  == <<pc, ret>>
sending  == <<sendRegistered, lock, sendQueue, sendBuffers, raced, pushes, wire>>
events   == <<io, owner>>
tables   == <<inService, inManager>>
outside  == <<sock, calls, faults>>
vars == <<control, connected, sending, events, tables, outside>>

Stale == 0    \* the ticket of a slot whose shared_ptr is already destroyed

SendPcs == {"regSend", "drain", "pop", "wsaSend", "clear", "checkEmpty"}
RecvPcs == {"addSession", "onConnected", "onRecv", "recvDone", "recvCheck", "wsaRecv"}
Labels  == {"idle", "sendCheck", "lock", "push", "exchange", "disconnect",
            "discEx", "release"} \cup SendPcs \cup RecvPcs

Transports == {"connecting", "open", "failed", "closed", "down"}
OpStates   == {"idle", "pending", "ok", "zero", "clash"}

TypeOK ==
  /\ pc \in [Threads -> Labels]
  /\ ret \in [Threads -> {"idle", "recvDone", "recvCheck"}]
  /\ connected \in BOOLEAN
  /\ sendRegistered \in BOOLEAN
  /\ lock \in Threads \cup {NoThread}
  /\ sendQueue \in Seq(Nat)
  /\ sendBuffers \in Seq(Nat)
  /\ raced \in BOOLEAN
  /\ io \in [Ops -> OpStates]
  /\ owner \in [Ops -> BOOLEAN]
  /\ inService \in BOOLEAN
  /\ inManager \in BOOLEAN
  /\ sock \in Transports
  /\ calls \in 0..MaxCalls
  /\ pushes \in Nat
  /\ wire \in Seq(Nat)
  /\ faults \subseteq {"Recv", "Send", "Disconnect", "empty", "reject"}

-----------------------------------------------------------------------------
(* Control flow. *)

Goto(t, label) ==
  /\ pc' = [pc EXCEPT ![t] = label]
  /\ UNCHANGED ret

Return(t) ==
  /\ pc' = [pc EXCEPT ![t] = ret[t]]
  /\ ret' = [ret EXCEPT ![t] = "idle"]

\* Mutant: a callback that sent skips RegisterRecv's test on the way back.
CallSendSkippingCheck(t, back) ==
  /\ pc' = [pc EXCEPT ![t] = "sendCheck"]
  /\ ret' = [ret EXCEPT ![t] = IF back = "idle" THEN back ELSE "wsaRecv"]

CallSend(t, back) ==
  /\ pc' = [pc EXCEPT ![t] = "sendCheck"]
  /\ ret' = [ret EXCEPT ![t] = back]

(***************************************************************************)
(* An event's OVERLAPPED.  Posting it while it is in use is the "clash"    *)
(* that must not happen.  Dispatch dequeues a completion, copies the       *)
(* owner, and every Process handler starts by dropping the owner.          *)
(***************************************************************************)
\* Mutant: the owner is not set.
PostUnowned(op) ==
  /\ io' = [io EXCEPT ![op] = IF @ = "idle" THEN "pending" ELSE "clash"]
  /\ UNCHANGED owner

Post(op) ==
  /\ io' = [io EXCEPT ![op] = IF @ = "idle" THEN "pending" ELSE "clash"]
  /\ owner' = [owner EXCEPT ![op] = TRUE]

\* Mutant: the owner is not dropped when the call is refused.
RefuseKeepingOwner(op) ==
  /\ owner' = [owner EXCEPT ![op] = TRUE]
  /\ faults' = faults \cup {op}
  /\ UNCHANGED io

Refuse(op) ==
  /\ owner' = [owner EXCEPT ![op] = FALSE]
  /\ faults' = faults \cup {op}
  /\ UNCHANGED io

Dequeue(t, op, result) ==
  /\ pc[t] = "idle"
  /\ io[op] = result
  /\ io' = [io EXCEPT ![op] = "idle"]
  /\ owner' = [owner EXCEPT ![op] = FALSE]

\* A socket whose connect failed refuses everything with WSAENOTCONN.
Accepts(op)   == sock # "failed"
MayRefuse(op) == op \in Refusals \/ sock = "failed"

-----------------------------------------------------------------------------
(* Connecting: ProcessConnect, run for a ConnectEx completion whatever its  *)
(* status, or by Listener::ProcessAccept.                                   *)

ProcessConnect(t) ==
  /\ \E result \in {"ok", "zero"} : Dequeue(t, "Connect", result)
  /\ connected' = TRUE
  /\ Goto(t, "addSession")
  /\ UNCHANGED <<sending, tables, outside>>

AddSession(t) ==
  /\ pc[t] = "addSession"
  /\ inService' = TRUE
  /\ Goto(t, "onConnected")
  /\ UNCHANGED <<connected, sending, events, inManager, outside>>

GameOnConnected(t) ==
  /\ Role = "server"
  /\ inManager' = TRUE
  /\ Goto(t, "recvCheck")

ClientOnConnected(t) ==
  /\ Role = "client"
  /\ CallSend(t, "recvCheck")
  /\ UNCHANGED inManager

OnConnected(t) ==
  /\ pc[t] = "onConnected"
  /\ GameOnConnected(t) \/ ClientOnConnected(t)
  /\ UNCHANGED <<connected, sending, events, inService, outside>>

-----------------------------------------------------------------------------
(* Receiving. *)

RegisterRecv(t) ==
  /\ pc[t] = "recvCheck"
  /\ Goto(t, IF connected THEN "wsaRecv" ELSE "idle")
  /\ UNCHANGED <<connected, sending, events, tables, outside>>

\* Mutant: the caller registers once more after WSARecv.
WSARecvTwice(t) ==
  /\ pc[t] = "wsaRecv"
  /\ Accepts("Recv") /\ Post("Recv") /\ Goto(t, "recvCheck")
  /\ UNCHANGED <<connected, sending, tables, outside>>

WSARecv(t) ==
  /\ pc[t] = "wsaRecv"
  /\ \/ Accepts("Recv") /\ Post("Recv") /\ UNCHANGED faults
     \/ MayRefuse("Recv") /\ Refuse("Recv")
  /\ Goto(t, "idle")
  /\ UNCHANGED <<connected, sending, tables, sock, calls>>

ProcessRecv(t) ==
  /\ \/ Dequeue(t, "Recv", "zero") /\ Goto(t, "disconnect")
     \/ Dequeue(t, "Recv", "ok") /\ Goto(t, "onRecv")
  /\ UNCHANGED <<connected, sending, tables, outside>>

\* The server's OnRecv broadcasts to the listed sessions, itself among them.
GameOnRecv(t) ==
  /\ Role = "server"
  /\ IF inManager THEN CallSend(t, "recvDone") ELSE Goto(t, "recvDone")

\* The client's answers on its own session.
ClientOnRecv(t) == Role = "client" /\ CallSend(t, "recvDone")

OnRecv(t) ==
  /\ pc[t] = "onRecv"
  /\ GameOnRecv(t) \/ ClientOnRecv(t)
  /\ UNCHANGED <<connected, sending, events, tables, outside>>

\* Mutant: ProcessRecv does not register the next receive.
FinishRecvForgets(t) ==
  /\ pc[t] = "recvDone"
  /\ Goto(t, "idle")
  /\ UNCHANGED <<connected, sending, events, tables, outside>>

FinishRecv(t) ==
  /\ pc[t] = "recvDone"
  /\ \/ Goto(t, "recvCheck") /\ UNCHANGED faults
     \/ MayReject /\ Goto(t, "disconnect") /\ faults' = faults \cup {"reject"}
  /\ UNCHANGED <<connected, sending, events, tables, sock, calls>>

-----------------------------------------------------------------------------
(* Sending. *)

\* A thread running another session's OnRecv broadcasts to this one: it copies
\* the shared_ptr out of Sessions_ and calls Send, however late.
Broadcast(t) ==
  /\ pc[t] = "idle"
  /\ inManager
  /\ calls < MaxCalls
  /\ calls' = calls + 1
  /\ CallSend(t, "idle")
  /\ UNCHANGED <<connected, sending, events, tables, sock, faults>>

SendCheck(t) ==
  /\ pc[t] = "sendCheck"
  /\ IF connected THEN Goto(t, "lock") ELSE Return(t)
  /\ UNCHANGED <<connected, sending, events, tables, outside>>

SendLock(t) ==
  /\ pc[t] = "lock"
  /\ lock = NoThread
  /\ lock' = t
  /\ Goto(t, "push")
  /\ UNCHANGED <<connected, sendRegistered, sendQueue, sendBuffers, raced, pushes, wire,
                 events, tables, outside>>

\* What a push leaves at the tail when a pop ran beside it: both updates, its
\* own lost (the new buffer is not counted), the pop's lost (one slot too many
\* counted), or the slot counted is the one the pop destroyed.
PushResults(m) ==
  IF Torn /\ (raced \/ \E u \in Threads : pc[u] = "pop")
  THEN {<<m>>, <<>>, <<m, Stale>>, <<Stale>>}
  ELSE {<<m>>}

SendPush(t) ==
  /\ pc[t] = "push"
  /\ pushes' = pushes + 1
  /\ \E tail \in PushResults(pushes + 1) : sendQueue' = sendQueue \o tail
  /\ raced' = FALSE
  /\ Goto(t, "exchange")
  /\ UNCHANGED <<connected, sendRegistered, lock, sendBuffers, wire,
                 events, tables, outside>>

\* Mutant: every sender registers, whatever the flag was.
SendExchangeIgnoringFlag(t) ==
  /\ pc[t] = "exchange"
  /\ sendRegistered' = TRUE
  /\ lock' = NoThread
  /\ Goto(t, "regSend")
  /\ UNCHANGED <<connected, sendQueue, sendBuffers, raced, pushes, wire,
                 events, tables, outside>>

\* Mutant: a sender that need not register leaves with the lock.
SendExchangeKeepingLock(t) ==
  /\ pc[t] = "exchange"
  /\ sendRegistered' = TRUE
  /\ IF sendRegistered THEN Return(t) /\ UNCHANGED lock
     ELSE Goto(t, "regSend") /\ lock' = NoThread
  /\ UNCHANGED <<connected, sendQueue, sendBuffers, raced, pushes, wire,
                 events, tables, outside>>

SendExchange(t) ==
  /\ pc[t] = "exchange"
  /\ sendRegistered' = TRUE
  /\ lock' = NoThread
  /\ IF sendRegistered THEN Return(t) ELSE Goto(t, "regSend")
  /\ UNCHANGED <<connected, sendQueue, sendBuffers, raced, pushes, wire,
                 events, tables, outside>>

RegisterSend(t) ==
  /\ pc[t] = "regSend"
  /\ IF connected
     THEN Goto(t, "drain") /\ owner' = [owner EXCEPT !["Send"] = TRUE]
     ELSE Return(t) /\ UNCHANGED owner
  /\ UNCHANGED <<connected, sending, io, tables, outside>>

\* The loop's empty() test; RegisterSend's scoped_lock is on a local mutex
\* and excludes nobody.
Drain(t) ==
  /\ pc[t] = "drain"
  /\ Goto(t, IF sendQueue = <<>> THEN "wsaSend" ELSE "pop")
  /\ UNCHANGED <<connected, sending, events, tables, outside>>

\* Mutant: the drained buffers are stacked.
PopReversed(t) ==
  /\ pc[t] = "pop"
  /\ sendQueue' = Tail(sendQueue)
  /\ sendBuffers' = <<Head(sendQueue)>> \o sendBuffers
  /\ Goto(t, "drain")
  /\ UNCHANGED <<connected, sendRegistered, lock, raced, pushes, wire, events, tables, outside>>

\* Mutant: the buffer is popped before it is kept.
PopDiscarding(t) ==
  /\ pc[t] = "pop"
  /\ sendQueue' = Tail(sendQueue)
  /\ Goto(t, "drain")
  /\ UNCHANGED <<connected, sendRegistered, lock, sendBuffers, raced, pushes, wire,
                 events, tables, outside>>

Pop(t) ==
  /\ pc[t] = "pop"
  /\ sendQueue' = Tail(sendQueue)
  /\ sendBuffers' = Append(sendBuffers, Head(sendQueue))
  /\ raced' = (raced \/ \E u \in Threads : pc[u] = "push")
  /\ Goto(t, "drain")
  /\ UNCHANGED <<connected, sendRegistered, lock, pushes, wire, events, tables, outside>>

\* Mutant: the buffers are dropped as soon as they are posted.
WSASendUnpinned(t) ==
  /\ pc[t] = "wsaSend"
  /\ Accepts("Send") /\ Post("Send")
  /\ wire' = wire \o sendBuffers
  /\ sendBuffers' = <<>>
  /\ Return(t)
  /\ UNCHANGED <<connected, sendRegistered, lock, sendQueue, raced, pushes, tables, outside>>

\* WSASend; with no buffer at all it either fails or completes with 0 bytes.
WSASend(t) ==
  /\ pc[t] = "wsaSend"
  /\ \/ /\ Accepts("Send")
        /\ Post("Send")
        /\ wire' = wire \o sendBuffers
        /\ faults' = IF sendBuffers = <<>> THEN faults \cup {"empty"} ELSE faults
        /\ Return(t)
        /\ UNCHANGED sendBuffers
     \/ /\ MayRefuse("Send") \/ sendBuffers = <<>>
        /\ Refuse("Send")
        /\ sendBuffers' = <<>>
        /\ Goto(t, "clear")
        /\ UNCHANGED wire
  /\ UNCHANGED <<connected, sendRegistered, lock, sendQueue, raced, pushes,
                 tables, sock, calls>>

\* Mutant: the flag stays set.
ClearFlagForgotten(t) ==
  /\ pc[t] = "clear"
  /\ Return(t)
  /\ UNCHANGED <<connected, sending, events, tables, outside>>

\* sendRegistered_.store(false), after a refused WSASend or by ProcessSend.
ClearFlag(t) ==
  /\ pc[t] = "clear"
  /\ sendRegistered' = FALSE
  /\ Return(t)
  /\ UNCHANGED <<connected, lock, sendQueue, sendBuffers, raced, pushes, wire,
                 events, tables, outside>>

\* Mutant: the test for zero bytes is the wrong way round.
ProcessSendSwapped(t) ==
  /\ \/ Dequeue(t, "Send", "ok") /\ Goto(t, "disconnect")
     \/ Dequeue(t, "Send", "zero") /\ Goto(t, "checkEmpty")
  /\ sendBuffers' = <<>>
  /\ UNCHANGED <<connected, sendRegistered, lock, sendQueue, raced, pushes, wire,
                 tables, outside>>

ProcessSend(t) ==
  /\ \/ Dequeue(t, "Send", "zero") /\ Goto(t, "disconnect")
     \/ Dequeue(t, "Send", "ok") /\ Goto(t, "checkEmpty")
  /\ sendBuffers' = <<>>
  /\ UNCHANGED <<connected, sendRegistered, lock, sendQueue, raced, pushes, wire,
                 tables, outside>>

CheckEmpty(t) ==
  /\ pc[t] = "checkEmpty"
  /\ Goto(t, IF sendQueue = <<>> THEN "clear" ELSE "regSend")
  /\ UNCHANGED <<connected, sending, events, tables, outside>>

-----------------------------------------------------------------------------
(* Disconnecting. *)

\* Mutant: store instead of exchange, every caller disconnects.
DisconnectUnguarded(t) ==
  /\ pc[t] = "disconnect"
  /\ connected' = FALSE
  /\ Goto(t, "discEx")
  /\ UNCHANGED <<sending, events, tables, outside>>

\* Mutant: the exchange is tested the wrong way round.
DisconnectInverted(t) ==
  /\ pc[t] = "disconnect"
  /\ connected' = FALSE
  /\ Goto(t, IF connected THEN "idle" ELSE "discEx")
  /\ UNCHANGED <<sending, events, tables, outside>>

Disconnect(t) ==
  /\ pc[t] = "disconnect"
  /\ connected' = FALSE
  /\ Goto(t, IF connected THEN "discEx" ELSE "idle")
  /\ UNCHANGED <<sending, events, tables, outside>>

RegisterDisconnect(t) ==
  /\ pc[t] = "discEx"
  /\ \/ Accepts("Disconnect") /\ Post("Disconnect") /\ sock' = "down" /\ UNCHANGED faults
     \/ MayRefuse("Disconnect") /\ Refuse("Disconnect") /\ UNCHANGED sock
  /\ Goto(t, "idle")
  /\ UNCHANGED <<connected, sending, tables, calls>>

\* Mutant: OnDisconnected does not unlist the session.
ProcessDisconnectStaysListed(t) ==
  /\ \E result \in {"ok", "zero"} : Dequeue(t, "Disconnect", result)
  /\ Goto(t, "release")
  /\ UNCHANGED <<connected, sending, tables, outside>>

ProcessDisconnect(t) ==
  /\ \E result \in {"ok", "zero"} : Dequeue(t, "Disconnect", result)
  /\ inManager' = FALSE
  /\ Goto(t, "release")
  /\ UNCHANGED <<connected, sending, inService, outside>>

ReleaseSession(t) ==
  /\ pc[t] = "release"
  /\ inService' = FALSE
  /\ Goto(t, "idle")
  /\ UNCHANGED <<connected, sending, events, inManager, outside>>

-----------------------------------------------------------------------------
(* The kernel and the peer. *)

Complete(op, result) ==
  /\ io[op] = "pending"
  /\ io' = [io EXCEPT ![op] = result]

CompleteConnect ==
  /\ \/ Complete("Connect", "ok") /\ sock' = "open"
     \/ /\ ConnectFails /\ Role = "client"
        /\ Complete("Connect", "zero") /\ sock' = "failed"
  /\ UNCHANGED <<control, connected, sending, owner, tables, calls, faults>>

CompleteRecvData ==
  /\ sock = "open"
  /\ calls < MaxCalls
  /\ Complete("Recv", "ok")
  /\ calls' = calls + 1
  /\ UNCHANGED <<control, connected, sending, owner, tables, sock, faults>>

CompleteRecvEnd ==
  /\ sock \in {"closed", "down"}
  /\ Complete("Recv", "zero")
  /\ UNCHANGED <<control, connected, sending, owner, tables, outside>>

CompleteSend ==
  /\ \/ sendBuffers # <<>> /\ sock \in {"open", "closed"} /\ Complete("Send", "ok")
     \/ (sendBuffers = <<>> \/ sock \in {"closed", "down"}) /\ Complete("Send", "zero")
  /\ UNCHANGED <<control, connected, sending, owner, tables, outside>>

CompleteDisconnect ==
  /\ \E result \in {"ok", "zero"} : Complete("Disconnect", result)
  /\ UNCHANGED <<control, connected, sending, owner, tables, outside>>

PeerClose ==
  /\ sock = "open"
  /\ sock' = "closed"
  /\ UNCHANGED <<control, connected, sending, events, tables, calls, faults>>

Kernel == CompleteConnect \/ CompleteRecvEnd \/ CompleteSend \/ CompleteDisconnect

\* Every worker waits in GetQueuedCompletionStatus(INFINITE) and no completion
\* is queued: the server is at rest, not deadlocked.
AtRest ==
  /\ \A t \in Threads : pc[t] = "idle"
  /\ \A op \in Ops : io[op] \notin {"ok", "zero"}
  /\ UNCHANGED vars

-----------------------------------------------------------------------------

Init ==
  /\ pc = [t \in Threads |-> "idle"]
  /\ ret = [t \in Threads |-> "idle"]
  /\ connected = FALSE
  /\ sendRegistered = FALSE
  /\ lock = NoThread
  /\ sendQueue = <<>>
  /\ sendBuffers = <<>>
  /\ raced = FALSE
  /\ io = [op \in Ops |-> IF op = "Connect" THEN "pending" ELSE "idle"]
  /\ owner = [op \in Ops |-> op = "Connect"]
  /\ inService = FALSE
  /\ inManager = FALSE
  /\ sock = "connecting"
  /\ calls = 0
  /\ pushes = 0
  /\ wire = <<>>
  /\ faults = {}

\* A thread dequeues a completion of the session.
Handle(t) == ProcessConnect(t) \/ ProcessRecv(t) \/ ProcessSend(t) \/ ProcessDisconnect(t)

\* A thread that is inside a handler goes on.
Step(t) ==
  \/ AddSession(t) \/ OnConnected(t)
  \/ RegisterRecv(t) \/ WSARecv(t) \/ OnRecv(t) \/ FinishRecv(t)
  \/ SendCheck(t) \/ SendLock(t) \/ SendPush(t) \/ SendExchange(t)
  \/ RegisterSend(t) \/ Drain(t) \/ Pop(t) \/ WSASend(t) \/ ClearFlag(t) \/ CheckEmpty(t)
  \/ Disconnect(t) \/ RegisterDisconnect(t) \/ ReleaseSession(t)

Next ==
  \/ \E t \in Threads : Handle(t) \/ Step(t) \/ Broadcast(t)
  \/ Kernel \/ CompleteRecvData \/ PeerClose
  \/ AtRest

Spec == Init /\ [][Next]_vars

(***************************************************************************)
(* The operating system schedules every worker inside a handler, the       *)
(* workers together dequeue what is queued, and the kernel completes what  *)
(* is posted.  Nothing makes the peer send or close, or another session    *)
(* broadcast.                                                              *)
(***************************************************************************)
Fairness ==
  /\ \A t \in Threads : WF_vars(Step(t))
  /\ WF_vars(\E t \in Threads : Handle(t))
  /\ WF_vars(CompleteConnect)
  /\ WF_vars(CompleteRecvEnd)
  /\ WF_vars(CompleteSend)
  /\ WF_vars(CompleteDisconnect)

FairSpec == Spec /\ Fairness
=============================================================================

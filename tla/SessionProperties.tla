-------------------------- MODULE SessionProperties --------------------------
(***************************************************************************)
(* What one connection promises, whatever the interleaving of the workers. *)
(***************************************************************************)
EXTENDS Session, FiniteSets

\* t is in RegisterSend or ProcessSend: it works on sendEvent_.
InSend(t) == pc[t] \in SendPcs

\* t carries the receive chain: ProcessConnect or ProcessRecv up to WSARecv,
\* a Send called from a callback included.
InRecv(t) == pc[t] \in RecvPcs \/ ret[t] # "idle"

\* t tears the connection down.
InDisconnect(t) == pc[t] \in {"discEx", "release"}

-----------------------------------------------------------------------------

\* sendRegistered_ is the only lock RegisterSend and ProcessSend really have
\* (their scoped_lock is on a local mutex): whoever works on sendEvent_ works
\* alone, no WSASend is outstanding meanwhile, and the event is never posted twice.
SendEventExclusive ==
  /\ \A t, u \in Threads : InSend(t) /\ InSend(u) => t = u
  /\ (\E t \in Threads : InSend(t)) => io["Send"] = "idle"
  /\ io["Send"] # "clash"

\* RecvBuf has no lock at all: connecting, the posted WSARecv and the thread in
\* ProcessRecv hand one token on, so that recvEvent_ and recvBuf_ have one user.
RecvEventExclusive ==
  /\ \A t, u \in Threads : InRecv(t) /\ InRecv(u) => t = u
  /\ (\E t \in Threads : InRecv(t)) => io["Connect"] = "idle" /\ io["Recv"] = "idle"
  /\ io["Connect"] = "idle" \/ io["Recv"] = "idle"
  /\ io["Recv"] # "clash"

\* The exchange in Disconnect lets one caller through: DisconnectEx is posted at
\* most once, only after connected_ went down, and nobody else is tearing down.
DisconnectExclusive ==
  /\ \A t, u \in Threads : InDisconnect(t) /\ InDisconnect(u) => t = u
  /\ (\E t \in Threads : InDisconnect(t)) => ~connected /\ io["Disconnect"] = "idle"
  /\ io["Disconnect"] # "idle" => ~connected
  /\ io["Disconnect"] # "clash"

\* sendRegistered_ is never left set by everyone on a live connection: somebody
\* drains, a WSASend is outstanding, or a disconnect is on its way. Otherwise
\* every later Send would only queue and nothing would ever be sent again.
FlagHasOwner ==
  sendRegistered /\ connected =>
    \/ io["Send"] # "idle"
    \/ \E t \in Threads : InSend(t) \/ pc[t] = "disconnect"

\* A live connection listens: a WSARecv is posted or a thread is on its way to
\* post it (or to disconnect), unless Winsock refused one, after which
\* RegisterRecv only logs and the session stays, deaf.
LiveSessionListens ==
  connected =>
    \/ io["Recv"] # "idle"
    \/ \E t \in Threads : InRecv(t) \/ pc[t] = "disconnect"
    \/ "Recv" \in faults

\* The kernel works on a session's memory only while the event's owner keeps the
\* session alive, and IOCPCore::Dispatch, which dereferences the owner of
\* whatever it dequeues, never finds it null.
OwnedWhileInFlight == \A op \in Ops : io[op] # "idle" => owner[op]

\* The converse: an owner left in an event that nobody uses is a cycle that keeps
\* the session and its socket for ever. When nothing runs and nothing is
\* posted, no event holds the session.
NoOwnerLeak ==
  /\ \A op \in {"Connect", "Recv", "Disconnect"} : owner[op] => io[op] # "idle"
  /\ owner["Send"] =>
       io["Send"] # "idle" \/ \E t \in Threads : pc[t] \in {"drain", "pop", "wsaSend"}

\* ReleaseSession's ASSERT_CRASH(sessions_.erase(session) != 0): whoever releases
\* finds the session in the table, so it is released once and after AddSession.
ReleaseFindsSession ==
  \A t \in Threads : pc[t] = "release" => inService /\ ~inManager

\* A session that was torn down leaves the service's table: its DisconnectEx is
\* about to be posted, posted, or completed and being handled. Nobody tries
\* again, so one that Winsock refused leaves the session counted for ever.
TornDownLeaves ==
  ~connected /\ inService =>
    \/ io["Disconnect"] # "idle"
    \/ \E t \in Threads : InDisconnect(t)
    \/ "Disconnect" \in faults

\* A session that can be broadcast to is one the service counts.
ListedIsCounted == inManager => inService

\* The buffers a posted WSASend reads stay referenced by sendEvent_, at the end
\* of what was handed to the socket, as long as the kernel has them.
InFlightPinned ==
  io["Send"] = "pending" =>
    /\ IsSuffix(sendBuffers, wire)
    /\ sendBuffers # <<>> \/ "empty" \in faults

\* Buffers not yet handed to the socket: those drained but not submitted, then
\* those still queued.
Unsent == (IF io["Send"] = "idle" THEN sendBuffers ELSE <<>>) \o sendQueue

\* Where std::queue is not torn, no buffer is sent twice, overtaken or forgotten
\* unless Winsock refused a WSASend.
NothingLost ==
  ~Torn /\ "Send" \notin faults => wire \o Unsent = [i \in 1..pushes |-> i]

\* DummyClient's OnConnected tells the user "Connected To Server": that is what it
\* means to be called. ProcessConnect calls it for every ConnectEx completion, a
\* failed one too, since Dispatch hands errors on as completions of 0 bytes.
AnnouncedConnected ==
  \A t \in Threads : pc[t] = "onConnected" => sock # "failed"

\* A connection once gone never comes back, so a session disconnects and is
\* released at most once.
NoReconnect ==
  [][~connected /\ connected' => ~inService /\ io["Connect"] # "idle"]_vars

\* Nobody re-lists a session whose OnDisconnected has run: removal from the
\* broadcast list is final although Add and Remove run on different threads.
RemovalIsFinal ==
  [][~inManager /\ inManager' => connected /\ io["Disconnect"] = "idle"]_vars

\* The server drops a connection only for a reason: the stream ended, the
\* callback rejected the data, or a WSASend was posted with no buffer. The last
\* happens to a healthy connection: a Send that pushed but has not reached its
\* exchange is drained by another thread, finds the flag clear, and submits nothing.
DisconnectHasCause ==
  [][connected /\ ~connected' =>
       sock # "open" \/ "reject" \in faults \/ "empty" \in faults]_vars

\* Where std::queue is not torn, the send path implements SendChannel: Pop moves a
\* buffer between two places that both count as outstanding, WSASend hands over or
\* drops exactly what was drained.
Channel == INSTANCE SendChannel WITH
  accepted <- pushes, outstanding <- Unsent, sent <- wire

ImplementsChannel == Channel!Spec

\* Where a session is in its life, and whether an event or a thread holds it.
Stage == IF io["Connect"] # "idle" THEN "made" ELSE IF connected THEN "connected" ELSE "closed"
Held  == (\E op \in Ops : owner[op]) \/ \E t \in Threads : pc[t] # "idle"

Lifetime == INSTANCE SessionLifetime WITH stage <- Stage, listed <- inService, held <- Held

\* Whatever the workers do, a session is counted before anybody can disconnect it, is
\* disconnected and released once and in this order, and nobody comes to it, from the
\* broadcast list or with a completion, once the table, the events and the threads
\* have let go of it.
ImplementsLifetime == Lifetime!Spec

\* No shared_ptr holds the session any more: its destructor has run.
Unreferenced == ~inService /\ ~inManager /\ ~Held

\* Then nothing touches it ever again: no completion that Dispatch would hand to
\* its freed event, no broadcast that began before.
GoneIsFinal == [][Unreferenced => Unreferenced']_vars

-----------------------------------------------------------------------------
(* Liveness. *)

\* Stranded: buffers queued, the flag clear and every thread away. It happens
\* when a push falls between CheckEmpty (or a refused WSASend) and ClearFlag;
\* only a later Send gets the queue going again.
Stranded ==
  /\ connected /\ ~sendRegistered /\ sendQueue # <<>>
  /\ \A t \in Threads : pc[t] = "idle"

\* A queued buffer is drained, lost to a disconnect, or stranded with the flag
\* clear, where the next Send takes it along.
QueuedIsDrained ==
  \A k \in 1..(MaxCalls + 1) :
    (\E i \in DOMAIN sendQueue : sendQueue[i] = k) ~>
      \/ ~\E i \in DOMAIN sendQueue : sendQueue[i] = k
      \/ ~connected
      \/ Stranded

\* When the peer closes, the session leaves both tables and every event lets go
\* of it, so its destructor closes the socket.
ClosedIsReclaimed == sock = "closed" ~> Unreferenced

\* Every handler comes back to Dispatch: no thread waits for lock_ or spins in
\* RegisterSend's loop for ever.
HandlersReturn == \A t \in Threads : pc[t] # "idle" ~> pc[t] = "idle"
=============================================================================

------------------------------ MODULE Listener -------------------------------
(***************************************************************************)
(* The game server's way from start-up to a session per client: main and   *)
(* ServerService::Start, Listener::StartAccept, then the workers' accept   *)
(* handlers, with the tables of Service (ServerCore/Listener.cpp,          *)
(* ServerCore/Service.cpp, GameServer/GameServer.cpp).                     *)
(*                                                                         *)
(* A session is a number, in the order of creation.  It is alive while     *)
(* some shared_ptr holds it: an AcceptEvent's session_, a local of a       *)
(* handler, Service::sessions_, or the owner of one of its own events.     *)
(* What a connected session does is Session's; here it leaves one day.     *)
(***************************************************************************)
EXTENDS Integers, FiniteSets

CONSTANTS
  Events,       \* the AcceptEvents: as many as maxSessionCnt_
  Workers, Main,
  Clients,      \* those that connect, each once
  None,         \* no event, no client
  Faults,       \* calls Winsock may refuse: see below
  MaxRefusals,  \* bound: AcceptEx and DisconnectEx calls refused, and accepts
                \* completed with an error
  MaxSessions   \* bound: sessions created, enough never to be reached

ASSUME ListenerAssumption ==
  /\ Main \notin Workers
  /\ None \notin Events \cup Clients
  /\ Faults \subseteq {"setup", "port", "check", "recv", "disconnect"}
  /\ MaxRefusals \in Nat
  /\ MaxSessions \in Nat

VARIABLES
  phase,        \* how far main is
  pc, ev, held, \* per thread: place in the code, AcceptEvent at hand, and the
                \* sessions its stack frames hold
  acceptEvents, \* acceptEvents_
  session,      \* session_ of each AcceptEvent, 0 for nullptr
  io,           \* the OVERLAPPED of each AcceptEvent
  made,         \* sessions created so far
  sock,         \* the connection of each session's socket; "stuck": open, and its
                \* DisconnectEx was refused
  peer,         \* the client the kernel gave each session
  connected,    \* the sessions whose connected_ is set
  sessions, sessionCnt, \* sessions_, sessionCnt_
  busy,         \* the sessions that are the owner of one of their own events, or at
                \* work in a handler of one
  arrived, waiting,     \* the clients that connected, and the backlog
  refusals

threads == <<pc, ev, held>>
pool    == <<acceptEvents, session, io>>
life    == <<made, sock, peer, connected, busy>>
table   == <<sessions, sessionCnt>>
outside == <<arrived, waiting, refusals>>
vars == <<phase, threads, pool, life, table, outside>>

Threads == Workers \cup {Main}
Ids == 1..MaxSessions

Labels == {"idle", "check", "connect", "add", "onConnected", "listen",
           "create", "acceptEx", "return"}

TypeOK ==
  /\ phase \in {"setup", "accepting", "serving", "crashed"}
  /\ pc \in [Threads -> Labels]
  /\ ev \in [Threads -> Events \cup {None}]
  /\ held \in [Threads -> SUBSET Ids]
  /\ acceptEvents \subseteq Events
  /\ session \in [Events -> 0..MaxSessions]
  /\ io \in [Events -> {"idle", "posted", "done"}]
  /\ made \in 0..MaxSessions
  /\ sock \in [Ids -> {"fresh", "open", "down", "stuck"}]
  /\ peer \in [Ids -> Clients \cup {None}]
  /\ connected \subseteq Ids
  /\ sessions \subseteq Ids
  /\ sessionCnt \in Nat
  /\ busy \subseteq Ids
  /\ waiting \subseteq arrived /\ arrived \subseteq Clients
  /\ refusals \in 0..MaxRefusals

\* An event or a handler has a shared_ptr to the session, or the table has.
Held(s) ==
  \/ \E e \in Events : session[e] = s
  \/ \E t \in Threads : s \in held[t]
  \/ s \in busy
Alive(s) == s \in sessions \/ Held(s)

\* Disconnect has run for it.
Ended(s) == sock[s] \in {"down", "stuck"}

Goto(t, label) == pc' = [pc EXCEPT ![t] = label]

\* The session a handler works on.
At(t) == session[ev[t]]

-----------------------------------------------------------------------------
(* Start-up, by main alone. *)

\* StartAccept down to Listen; ServerService::Start fails if any call does, and
\* main asserts that it does not.
StartAccept ==
  /\ phase = "setup"
  /\ \/ phase' = "accepting"
     \/ "setup" \in Faults /\ phase' = "crashed"
  /\ UNCHANGED <<threads, pool, life, table, outside>>

\* The next turn of StartAccept's loop: a new event for RegisterAccept.
NewAcceptEvent(e) ==
  /\ phase = "accepting" /\ pc[Main] = "idle"
  /\ e \in Events \ acceptEvents
  /\ acceptEvents' = acceptEvents \cup {e}
  /\ ev' = [ev EXCEPT ![Main] = e]
  /\ Goto(Main, "create")
  /\ UNCHANGED <<phase, held, session, io, life, table, outside>>

\* Start returned true: main launches the workers and joins them for ever.
Launch ==
  /\ phase = "accepting" /\ pc[Main] = "idle"
  /\ acceptEvents = Events
  /\ phase' = "serving"
  /\ UNCHANGED <<threads, pool, life, table, outside>>

-----------------------------------------------------------------------------
(* RegisterAccept. *)

\* Mutant: an event that has a session keeps it.
CreateSessionOnce(t) ==
  /\ pc[t] = "create"
  /\ made < MaxSessions
  /\ made' = made + 1
  /\ session' = [session EXCEPT ![ev[t]] = IF @ = 0 THEN made + 1 ELSE @]
  /\ held' = [held EXCEPT ![t] = @ \cup {made + 1}]
  /\ Goto(t, "acceptEx")
  /\ UNCHANGED <<phase, ev, acceptEvents, io, sock, peer, connected, busy, table, outside>>

\* Service::CreateSession and the event's new session_, which drops the old one.
\* If the port refuses the socket it is nullptr, and AcceptEx's arguments crash.
CreateSession(t) ==
  /\ pc[t] = "create"
  /\ \/ /\ made < MaxSessions
        /\ made' = made + 1
        /\ session' = [session EXCEPT ![ev[t]] = made + 1]
        /\ held' = [held EXCEPT ![t] = @ \cup {made + 1}]
        /\ Goto(t, "acceptEx")
        /\ UNCHANGED phase
     \/ /\ "port" \in Faults
        /\ phase' = "crashed"
        /\ session' = [session EXCEPT ![ev[t]] = 0]
        /\ UNCHANGED <<pc, held, made>>
  /\ UNCHANGED <<ev, acceptEvents, io, sock, peer, connected, busy, table, outside>>

\* Mutant: a call that is pending is taken for a refused one.
AcceptExPendingRetried(t) ==
  /\ pc[t] = "acceptEx"
  /\ IF sock[At(t)] = "fresh"
     THEN /\ io' = [io EXCEPT ![ev[t]] = "posted"]
          /\ \/ ev' = [ev EXCEPT ![t] = None] /\ Goto(t, "return")
             \/ Goto(t, "create") /\ UNCHANGED ev
     ELSE Goto(t, "create") /\ UNCHANGED <<io, ev>>
  /\ UNCHANGED <<phase, held, acceptEvents, session, life, table, outside>>

\* AcceptEx.  A refused call is followed by another RegisterAccept one frame deeper:
\* the session it was made for stays in the frame above.
AcceptEx(t) ==
  /\ pc[t] = "acceptEx"
  /\ \/ /\ io' = [io EXCEPT ![ev[t]] = "posted"]
        /\ ev' = [ev EXCEPT ![t] = None]
        /\ Goto(t, "return")
        /\ UNCHANGED refusals
     \/ /\ refusals < MaxRefusals
        /\ refusals' = refusals + 1
        /\ Goto(t, "create")
        /\ UNCHANGED <<io, ev>>
  /\ UNCHANGED <<phase, held, acceptEvents, session, life, table, arrived, waiting>>

\* Mutant: a frame's session is never dropped.
ReturnHolding(t) ==
  /\ pc[t] = "return"
  /\ Goto(t, "idle")
  /\ UNCHANGED <<phase, ev, held, pool, life, table, outside>>

\* All frames return and drop their sessions. The event may be done again already.
Return(t) ==
  /\ pc[t] = "return"
  /\ held' = [held EXCEPT ![t] = {}]
  /\ Goto(t, "idle")
  /\ UNCHANGED <<phase, ev, pool, life, table, outside>>

-----------------------------------------------------------------------------
(* Dispatch, ProcessAccept and the session's ProcessConnect. *)

\* A worker dequeues the completion, good or bad, and ProcessAccept copies session_.
Dispatch(t, e) ==
  /\ phase = "serving" /\ t \in Workers /\ pc[t] = "idle"
  /\ io[e] = "done"
  /\ io' = [io EXCEPT ![e] = "idle"]
  /\ ev' = [ev EXCEPT ![t] = e]
  /\ held' = [held EXCEPT ![t] = {session[e]}]
  /\ Goto(t, "check")
  /\ UNCHANGED <<phase, acceptEvents, session, life, table, outside>>

\* Mutant: the completion is taken for a success, as Session::ProcessConnect takes it.
CheckNothing(t) ==
  /\ pc[t] = "check"
  /\ Goto(t, "connect")
  /\ UNCHANGED <<phase, ev, held, pool, life, table, outside>>

\* Mutant: a failed check returns without registering the event again.
CheckAndForget(t) ==
  /\ pc[t] = "check"
  /\ \/ /\ peer[At(t)] # None
        /\ Goto(t, "connect")
        /\ UNCHANGED ev
     \/ /\ peer[At(t)] = None \/ "check" \in Faults
        /\ ev' = [ev EXCEPT ![t] = None]
        /\ Goto(t, "return")
  /\ UNCHANGED <<phase, held, pool, life, table, outside>>

\* SetUpdateAcceptSocket and getpeername fail on a socket without a connection, and
\* may fail when the client has reset it since.
CheckAccepted(t) ==
  /\ pc[t] = "check"
  /\ \/ peer[At(t)] # None /\ Goto(t, "connect")
     \/ (peer[At(t)] = None \/ "check" \in Faults) /\ Goto(t, "create")
  /\ UNCHANGED <<phase, ev, held, pool, life, table, outside>>

ProcessConnect(t) ==
  /\ pc[t] = "connect"
  /\ connected' = connected \cup {At(t)}
  /\ Goto(t, "add")
  /\ UNCHANGED <<phase, ev, held, pool, made, sock, peer, busy, table, outside>>

\* Under lock_, so one step.
AddSession(t) ==
  /\ pc[t] = "add"
  /\ sessionCnt' = sessionCnt + 1
  /\ sessions' = sessions \cup {At(t)}
  /\ Goto(t, "onConnected")
  /\ UNCHANGED <<phase, ev, held, pool, life, outside>>

\* GameSession::OnConnected puts the session on the broadcast list.
OnConnected(t) ==
  /\ pc[t] = "onConnected"
  /\ Goto(t, "listen")
  /\ UNCHANGED <<phase, ev, held, pool, life, table, outside>>

\* RegisterRecv tests connected_ and posts later, or Winsock refuses: then the
\* session stays in the table until a broadcast fails.
RegisterRecv(t) ==
  /\ pc[t] = "listen"
  /\ \/ busy' = busy \cup {At(t)}
     \/ (At(t) \notin connected \/ "recv" \in Faults) /\ UNCHANGED busy
  /\ Goto(t, "create")
  /\ UNCHANGED <<phase, ev, held, pool, made, sock, peer, connected, table, outside>>

-----------------------------------------------------------------------------
(* A connected session ends, by other workers: Session has the details. *)

\* Mutant: OnConnected runs before AddSession.
AnnouncedEarly(s) == s \in connected

\* Other workers can reach the session: it is on the broadcast list, and later it
\* receives.
Announced(s) ==
  s \in connected /\ ~ \E t \in Threads : pc[t] \in {"add", "onConnected"} /\ At(t) = s

\* A handler of s brings connected_ down. If DisconnectEx is refused nobody tries
\* again: the connection stays open, and the table keeps the session for ever.
Disconnect(s) ==
  /\ Announced(s)
  /\ connected' = connected \ {s}
  /\ \/ sock' = [sock EXCEPT ![s] = "down"] /\ UNCHANGED refusals
     \/ /\ "disconnect" \in Faults /\ refusals < MaxRefusals
        /\ refusals' = refusals + 1
        /\ sock' = [sock EXCEPT ![s] = "stuck"]
  /\ busy' = busy \cup {s}
  /\ UNCHANGED <<phase, threads, pool, made, peer, table, arrived, waiting>>

\* ProcessDisconnect's ReleaseSession; a receive or a send may still be out.
ReleaseSession(s) ==
  /\ s \in busy \cap sessions /\ sock[s] = "down"
  /\ sessions' = sessions \ {s}
  /\ sessionCnt' = sessionCnt - 1
  /\ busy' \in {busy, busy \ {s}}
  /\ UNCHANGED <<phase, threads, pool, made, sock, peer, connected, outside>>

\* The last event out completes and drops its owner, for a disconnected session the
\* disconnect or a later one.
LastCompletion(s) ==
  /\ s \in busy
  /\ sock[s] = "stuck" \/ (sock[s] = "down" /\ s \notin sessions)
  /\ busy' = busy \ {s}
  /\ UNCHANGED <<phase, threads, pool, made, sock, peer, connected, table, outside>>

-----------------------------------------------------------------------------
(* The kernel and the clients. *)

Arrive(c) ==
  /\ phase \in {"accepting", "serving"}
  /\ c \in Clients \ arrived
  /\ arrived' = arrived \cup {c}
  /\ waiting' = waiting \cup {c}
  /\ UNCHANGED <<phase, threads, pool, life, table, refusals>>

CompleteAccept(e, c) ==
  /\ io[e] = "posted" /\ c \in waiting
  /\ io' = [io EXCEPT ![e] = "done"]
  /\ waiting' = waiting \ {c}
  /\ peer' = [peer EXCEPT ![session[e]] = c]
  /\ sock' = [sock EXCEPT ![session[e]] = "open"]
  /\ UNCHANGED <<phase, threads, acceptEvents, session, made, connected, busy, table,
                 arrived, refusals>>

CompleteWithError(e) ==
  /\ io[e] = "posted" /\ refusals < MaxRefusals
  /\ io' = [io EXCEPT ![e] = "done"]
  /\ refusals' = refusals + 1
  /\ UNCHANGED <<phase, threads, acceptEvents, session, life, table, arrived, waiting>>

\* Every worker waits in GetQueuedCompletionStatus and nothing is queued.
AtRest ==
  /\ phase = "serving"
  /\ \A t \in Threads : pc[t] = "idle"
  /\ \A e \in Events : io[e] = "posted"
  /\ waiting = {}
  /\ UNCHANGED vars

Crashed == phase = "crashed" /\ UNCHANGED vars

-----------------------------------------------------------------------------

Init ==
  /\ phase = "setup"
  /\ pc = [t \in Threads |-> "idle"]
  /\ ev = [t \in Threads |-> None]
  /\ held = [t \in Threads |-> {}]
  /\ acceptEvents = {}
  /\ session = [e \in Events |-> 0]
  /\ io = [e \in Events |-> "idle"]
  /\ made = 0
  /\ sock = [s \in Ids |-> "fresh"]
  /\ peer = [s \in Ids |-> None]
  /\ connected = {}
  /\ sessions = {} /\ sessionCnt = 0
  /\ busy = {}
  /\ arrived = {} /\ waiting = {}
  /\ refusals = 0

RegisterAccept(t) == CreateSession(t) \/ AcceptEx(t) \/ Return(t)

ProcessAccept(t) ==
  CheckAccepted(t) \/ ProcessConnect(t) \/ AddSession(t) \/ OnConnected(t) \/ RegisterRecv(t)

Step(t) == phase # "crashed" /\ (RegisterAccept(t) \/ ProcessAccept(t))

Startup == StartAccept \/ (\E e \in Events : NewAcceptEvent(e)) \/ Launch

Dequeue == \E t \in Workers, e \in Events : Dispatch(t, e)

Reclaim(s) == phase # "crashed" /\ (ReleaseSession(s) \/ LastCompletion(s))

SessionEnds ==
  \E s \in Ids : Reclaim(s) \/ (phase # "crashed" /\ Disconnect(s))

Kernel ==
  /\ phase # "crashed"
  /\ \E e \in Events : CompleteWithError(e) \/ \E c \in Clients : CompleteAccept(e, c)

Next ==
  \/ Startup
  \/ \E t \in Threads : Step(t)
  \/ Dequeue \/ SessionEnds \/ Kernel
  \/ \E c \in Clients : Arrive(c)
  \/ AtRest \/ Crashed

Spec == Init /\ [][Next]_vars

(***************************************************************************)
(* The operating system schedules main and every worker, the workers       *)
(* together dequeue what is queued, the kernel gives a waiting client to a *)
(* posted accept, and a disconnected session is released (ClosedIsReclaimed *)
(* of SessionProperties) unless the call was refused: what a stuck session *)
(* has out ends when its client chooses. Nothing makes one come or leave.  *)
(***************************************************************************)
Fairness ==
  /\ WF_vars(Startup)
  /\ \A t \in Threads : WF_vars(Step(t))
  /\ WF_vars(Dequeue)
  /\ \A c \in Clients : WF_vars(phase # "crashed" /\ \E e \in Events : CompleteAccept(e, c))
  /\ \A s \in Ids : WF_vars(sock[s] = "down" /\ Reclaim(s))

FairSpec == Spec /\ Fairness
=============================================================================

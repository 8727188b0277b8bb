----------------------------- MODULE ClientStart -----------------------------
(***************************************************************************)
(* The start of the dummy client: GlobalCore's constructor loads Winsock,  *)
(* main makes a port, ClientService::Start creates and connects            *)
(* maxSessionCnt sessions on the main thread, and only then are the        *)
(* workers launched that take the completions of these connects.           *)
(*                                                                         *)
(* Every call of the system may be refused.  CreateIoCompletionPort says   *)
(* so with NULL, but the constructor of IOCPCore compares with             *)
(* INVALID_HANDLE_VALUE: the program goes on with no port, and each        *)
(* Register then makes a port of its own that nobody waits at.             *)
(***************************************************************************)
EXTENDS Integers, FiniteSets

CONSTANTS MaxSessionCnt,  \* maxSessionCnt of the service
          Workers         \* the threads main launches

ASSUME StartAssumption == MaxSessionCnt \in Nat /\ IsFiniteSet(Workers)

VARIABLES pc,         \* the place of the main thread
          port,       \* iocpHandle_: "none", "open", "null"
          session,    \* of each session created: its connect
          socket,     \* the socket of the session being created
          launched,   \* threads_
          serving,    \* of each worker: the session it dispatches, or 0
          sessionCnt, \* sessionCnt_ of the service
          crashed     \* ASSERT_CRASH or a null pointer

vars == <<pc, port, session, socket, launched, serving, sessionCnt, crashed>>

Ids == 1 .. MaxSessionCnt
Connects == {"none", "pending", "queued", "lost", "served"}

Init ==
  /\ pc = "SocketUtils::Init"
  /\ port = "none" /\ socket = "none"
  /\ session = [i \in Ids |-> "none"]
  /\ launched = {} /\ serving = [w \in Workers |-> 0]
  /\ sessionCnt = 0 /\ crashed = FALSE

i == Cardinality({n \in Ids : session[n] # "none"}) + 1

Crash ==
  /\ crashed' = TRUE
  /\ UNCHANGED <<pc, port, session, socket, launched, serving, sessionCnt>>

-----------------------------------------------------------------------------
(* The main thread *)

\* What the calls of the system may answer.
BindWindowsFunction(sock) == IF sock = "valid" THEN BOOLEAN ELSE {FALSE}
SetReuseAddr(sock) == IF sock = "valid" THEN BOOLEAN ELSE {FALSE}
BindAnyAddress(sock) == IF sock = "valid" THEN BOOLEAN ELSE {FALSE}
NewSocket == {"valid", "invalid"}

\* WSAStartup and the look-up of three functions are asserted; the socket they
\* are looked up with is not, but WSAIoctl fails on a bad one.
SocketUtilsInit ==
  /\ pc = "SocketUtils::Init"
  /\ \E started \in BOOLEAN, sock \in NewSocket :
       \E bound \in BindWindowsFunction(sock) :
         IF started /\ bound
         THEN /\ pc' = "IOCPCore"
              /\ UNCHANGED <<port, session, socket, launched, serving,
                             sessionCnt, crashed>>
         ELSE Crash

IOCPCore ==
  /\ pc = "IOCPCore"
  /\ port' \in {"open", "null"}
  /\ pc' = "Start"
  /\ UNCHANGED <<session, socket, launched, serving, sessionCnt, crashed>>

\* The factory makes a session, whose socket may be INVALID_SOCKET.
CreateSocket ==
  /\ pc = "Start" /\ i \in Ids
  /\ socket' \in NewSocket
  /\ pc' = "Register"
  /\ UNCHANGED <<port, session, launched, serving, sessionCnt, crashed>>

\* CreateIoCompletionPort refuses INVALID_HANDLE_VALUE for an open port, and
\* with no port takes it for the request of a new one.
MayRegister ==
  {r \in BOOLEAN : (port = "open" /\ socket = "invalid") => ~r}

\* CreateSession returns nullptr when the port refuses, and Connect is
\* called on it.
Register ==
  /\ pc = "Register"
  /\ \E ok \in MayRegister :
       IF ok
       THEN /\ pc' = "Connect"
            /\ UNCHANGED <<port, session, socket, launched, serving,
                           sessionCnt, crashed>>
       ELSE Crash

\* RegisterConnect: SetReuseAddr, BindAnyAddress and ConnectEx.  One failure
\* ends Start, and main's assertion the program, whatever is pending.
Connect ==
  /\ pc = "Connect"
  /\ \E reuse \in SetReuseAddr(socket), bound \in BindAnyAddress(socket),
        posted \in BOOLEAN :
       IF reuse /\ bound /\ posted
       THEN /\ session' = [session EXCEPT ![i] = "pending"]
            /\ socket' = "none"
            /\ pc' = "Start"
            /\ UNCHANGED <<port, launched, serving, sessionCnt, crashed>>
       ELSE Crash

\* Mutant: the loop ends one session early.
StartedEarly ==
  /\ pc = "Start" /\ i + 1 \notin Ids
  /\ pc' = "Launch"
  /\ UNCHANGED <<port, session, socket, launched, serving, sessionCnt, crashed>>

Started ==
  /\ pc = "Start" /\ i \notin Ids
  /\ pc' = "Launch"
  /\ UNCHANGED <<port, session, socket, launched, serving, sessionCnt, crashed>>

\* ThreadManager::Launch; a thread runs from the moment it is constructed.
Launch ==
  /\ pc = "Launch"
  /\ \/ /\ launched # Workers
        /\ \E w \in Workers \ launched : launched' = launched \cup {w}
        /\ UNCHANGED <<pc, port, session, socket, serving, sessionCnt, crashed>>
     \/ /\ launched # Workers
        /\ Crash  \* no thread to be had: std::system_error
     \/ /\ launched = Workers
        /\ pc' = "Join"
        /\ UNCHANGED <<port, session, socket, launched, serving, sessionCnt,
                       crashed>>

MainStep ==
  ~crashed /\ (SocketUtilsInit \/ IOCPCore \/ CreateSocket \/ Register
               \/ Connect \/ Started \/ Launch)

-----------------------------------------------------------------------------
(* The workers and the system *)

\* A connect ends, well or not; its completion goes to the port its socket
\* was registered with.
ConnectEnds ==
  /\ ~crashed
  /\ \E n \in Ids :
       /\ session[n] = "pending"
       /\ session' = [session EXCEPT ![n] =
                        IF port = "open" THEN "queued" ELSE "lost"]
  /\ UNCHANGED <<pc, port, socket, launched, serving, sessionCnt, crashed>>

\* Mutant: a worker that dequeued nothing goes back to the port.
DequeueQuietly(w) ==
  /\ ~crashed /\ w \in launched /\ serving[w] = 0 /\ port = "open"
  /\ \E n \in Ids :
       /\ session[n] = "queued"
       /\ session' = [session EXCEPT ![n] = "served"]
       /\ serving' = [serving EXCEPT ![w] = n]
  /\ UNCHANGED <<pc, port, socket, launched, sessionCnt, crashed>>

\* GetQueuedCompletionStatus takes a completion, or fails on a null port and
\* leaves iocpEvent null, which is dereferenced all the same.
Dequeue(w) ==
  /\ ~crashed /\ w \in launched /\ serving[w] = 0
  /\ \/ \E n \in Ids :
          /\ port = "open" /\ session[n] = "queued"
          /\ session' = [session EXCEPT ![n] = "served"]
          /\ serving' = [serving EXCEPT ![w] = n]
          /\ UNCHANGED <<pc, port, socket, launched, sessionCnt, crashed>>
     \/ port = "null" /\ Crash

\* ProcessConnect up to AddSession: sessionCnt counts the connects handled. That
\* Service::ReleaseSession takes a session off again, at the end of its
\* connection, is Session's.
ProcessConnect(w) ==
  /\ ~crashed /\ serving[w] # 0
  /\ sessionCnt' = sessionCnt + 1
  /\ serving' = [serving EXCEPT ![w] = 0]
  /\ UNCHANGED <<pc, port, session, socket, launched, crashed>>

WorkerStep(w) == Dequeue(w) \/ ProcessConnect(w)

\* Nothing is left to do but wait: main in Join, the workers at the port.
AtRest ==
  /\ crashed \/ (pc = "Join" /\ sessionCnt = MaxSessionCnt)
  /\ UNCHANGED vars

Next ==
  MainStep \/ ConnectEnds \/ (\E w \in Workers : WorkerStep(w)) \/ AtRest

\* The system runs every thread and ends every connect.
Fairness ==
  /\ WF_vars(MainStep) /\ WF_vars(ConnectEnds)
  /\ \A w \in Workers : WF_vars(WorkerStep(w))

Spec == Init /\ [][Next]_vars /\ Fairness

-----------------------------------------------------------------------------
(* Properties *)

TypeOK ==
  /\ pc \in {"SocketUtils::Init", "IOCPCore", "Start", "Register", "Connect",
             "Launch", "Join"}
  /\ port \in {"none", "open", "null"}
  /\ socket \in {"none", "valid", "invalid"}
  /\ session \in [Ids -> Connects]
  /\ launched \subseteq Workers
  /\ serving \in [Workers -> Ids \cup {0}]
  /\ sessionCnt \in 0 .. MaxSessionCnt
  /\ crashed \in BOOLEAN

\* A client that serves at all has posted every connect on one open port: a
\* start that fails half way, or on no port, ends before any session is
\* announced, and no completion is counted twice (ClientService::Start,
\* Service.cpp:45-62; IOCPCore's constructor, IOCPCore.cpp:5-9).
ServesAllOrNone ==
  sessionCnt > 0 =>
    /\ port = "open"
    /\ \A n \in Ids : session[n] # "none"
    /\ sessionCnt <= Cardinality({n \in Ids : session[n] = "served"})

\* The start is decided: either the program ends, or every connect it posted
\* is handled, those that completed before the first worker ran included.
\* A port that could not be made does not leave a client that waits for
\* ever, although its constructor lets it pass (IOCPCore.cpp:8).
StartIsDecided == <>(crashed \/ sessionCnt = MaxSessionCnt)
=============================================================================

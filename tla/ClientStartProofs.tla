-------------------------- MODULE ClientStartProofs --------------------------
(***************************************************************************)
(* ServesAllOrNone for any number of sessions and workers.                 *)
(*                                                                         *)
(* Nothing is served before Launch, because no worker exists; Launch is    *)
(* reached only when the loop of Start has posted a connect for every      *)
(* session; and a completion taken from the port is either counted or in   *)
(* the hands of one worker.                                                *)
(***************************************************************************)
EXTENDS ClientStart, FiniteSetTheorems, TLAPS

Served == {n \in Ids : session[n] = "served"}
Busy == {w \in Workers : serving[w] # 0}

\* TypeOK, save the bound on sessionCnt.
Types ==
  /\ pc \in {"SocketUtils::Init", "IOCPCore", "Start", "Register", "Connect",
             "Launch", "Join"}
  /\ port \in {"none", "open", "null"}
  /\ socket \in {"none", "valid", "invalid"}
  /\ session \in [Ids -> Connects]
  /\ launched \subseteq Workers
  /\ serving \in [Workers -> Ids \cup {0}]
  /\ sessionCnt \in Nat
  /\ crashed \in BOOLEAN

Launching == pc \in {"Launch", "Join"}

NobodyBefore ==
  ~Launching => /\ launched = {} /\ sessionCnt = 0
                /\ Busy = {} /\ Served = {}

AllPosted == Launching => \A n \in Ids : session[n] # "none"

ServedOnPort == Served # {} => port = "open"

EachCountedOnce == sessionCnt + Cardinality(Busy) = Cardinality(Served)

StartInv == Types /\ NobodyBefore /\ AllPosted /\ ServedOnPort /\ EachCountedOnce

\* The sets that are counted are finite.
LEMMA Finite ==
  /\ IsFiniteSet(Ids) /\ Cardinality(Ids) = MaxSessionCnt
  /\ IsFiniteSet(Served) /\ Cardinality(Served) \in 0 .. MaxSessionCnt
  /\ IsFiniteSet(Busy) /\ Cardinality(Busy) \in Nat
<1>1. IsFiniteSet(Ids) /\ Cardinality(Ids) = MaxSessionCnt
  BY StartAssumption, FS_Interval DEF Ids
<1>2. Served \in SUBSET Ids /\ Busy \in SUBSET Workers
  BY DEF Served, Busy
<1>3. IsFiniteSet(Served) /\ Cardinality(Served) <= MaxSessionCnt
  BY <1>1, <1>2, FS_Subset
<1>4. IsFiniteSet(Busy)
  BY <1>2, FS_Subset, StartAssumption
<1>5. Cardinality(Served) \in Nat /\ Cardinality(Busy) \in Nat
  BY <1>3, <1>4, FS_CardinalityType
<1> QED
  BY <1>1, <1>3, <1>4, <1>5, StartAssumption

\* When the loop ends, every session has been created and connected: the
\* sessions made so far are counted, and the count is the whole of Ids.
LEMMA LoopMakesAll ==
  ASSUME i \notin Ids
  PROVE  \A n \in Ids : session[n] # "none"
<1> DEFINE Made == {n \in Ids : session[n] # "none"}
<1>1. Made \in SUBSET Ids
  OBVIOUS
<1>2. /\ IsFiniteSet(Made) /\ Cardinality(Made) <= MaxSessionCnt
      /\ Cardinality(Ids) = Cardinality(Made) => Ids = Made
  BY <1>1, Finite, FS_Subset
<1>3. Cardinality(Made) \in Nat
  BY <1>2, FS_CardinalityType
<1>4. Cardinality(Made) + 1 \notin 1 .. MaxSessionCnt
  BY DEF i, Ids
<1>5. Cardinality(Made) = MaxSessionCnt
  BY <1>2, <1>3, <1>4, StartAssumption
<1> QED
  BY <1>2, <1>5, Finite

\* The start of the program.
LEMMA InitStart == Init => StartInv
<1> SUFFICES ASSUME Init PROVE StartInv
  OBVIOUS
<1>1. Busy = {} /\ Served = {}
  BY DEF Init, Busy, Served
<1>2. Types /\ ~Launching
  BY DEF Init, Types, Launching, Connects
<1>3. EachCountedOnce
  BY <1>1, FS_EmptySet DEF Init, EachCountedOnce
<1> QED
  BY <1>1, <1>2, <1>3 DEF Init, StartInv, NobodyBefore, AllPosted, ServedOnPort

\* Before Launch a step of main keeps what nobody has touched yet; what it
\* has to show is the types, and on entering Launch that all is posted.
LEMMA MainBefore ==
  ASSUME StartInv, Types', ~Launching,
         launched' = launched, serving' = serving, sessionCnt' = sessionCnt,
         Served' = {}, Launching' => \A n \in Ids : session'[n] # "none"
  PROVE  StartInv'
<1>1. Busy' = {} /\ launched' = {} /\ sessionCnt' = 0
  BY DEF StartInv, NobodyBefore, Busy
<1>2. EachCountedOnce'
  BY <1>1, FS_EmptySet DEF EachCountedOnce
<1> QED
  BY <1>1, <1>2 DEF StartInv, NobodyBefore, AllPosted, ServedOnPort, Launching

\* A crash changes nothing but crashed.
LEMMA CrashKeeps ==
  ASSUME StartInv, Crash
  PROVE  StartInv'
BY DEF StartInv, Crash, Types, NobodyBefore, AllPosted, ServedOnPort,
       EachCountedOnce, Launching, Served, Busy, Ids, Connects

\* Each step of the main thread keeps the invariant.
LEMMA MainKeeps ==
  ASSUME StartInv, MainStep
  PROVE  StartInv'
<1> USE DEF StartInv
<1>1. ASSUME ~Launching, UNCHANGED <<session, launched, serving, sessionCnt>>,
             Types', Launching' => \A n \in Ids : session[n] # "none"
      PROVE  StartInv'
  <2>1. Served' = {}
    BY <1>1 DEF NobodyBefore, Served
  <2> QED
    BY <1>1, <2>1, MainBefore DEF Types
<1>2. CASE SocketUtilsInit
  <2>1. CASE Crash
    BY <2>1, CrashKeeps
  <2>2. CASE /\ pc' = "IOCPCore"
             /\ UNCHANGED <<port, session, socket, launched, serving,
                            sessionCnt, crashed>>
    BY <1>1, <1>2, <2>2 DEF SocketUtilsInit, Types, Launching, Connects
  <2> QED
    BY <1>2, <2>1, <2>2 DEF SocketUtilsInit
<1>3. CASE IOCPCore
  BY <1>1, <1>3 DEF IOCPCore, Types, Launching, Connects
<1>4. CASE CreateSocket
  BY <1>1, <1>4 DEF CreateSocket, Types, Launching, Connects, NewSocket
<1>5. CASE Register
  <2>1. CASE Crash
    BY <2>1, CrashKeeps
  <2>2. CASE /\ pc' = "Connect"
             /\ UNCHANGED <<port, session, socket, launched, serving,
                            sessionCnt, crashed>>
    BY <1>1, <1>5, <2>2 DEF Register, Types, Launching, Connects
  <2> QED
    BY <1>5, <2>1, <2>2 DEF Register
<1>6. CASE Connect
  <2>1. CASE Crash
    BY <2>1, CrashKeeps
  <2>2. CASE /\ session' = [session EXCEPT ![i] = "pending"]
             /\ socket' = "none"
             /\ pc' = "Start"
             /\ UNCHANGED <<port, launched, serving, sessionCnt, crashed>>
    <3>1. ~Launching /\ ~Launching'
      BY <1>6, <2>2 DEF Connect, Launching
    <3>2. session' \in [Ids -> Connects]
      BY <2>2 DEF Types, Connects
    <3>3. Types'
      BY <2>2, <3>2 DEF Types
    <3>4. Served' = {}
      BY <2>2, <3>1 DEF NobodyBefore, Served, Types
    <3> QED
      BY <2>2, <3>1, <3>3, <3>4, MainBefore
  <2> QED
    BY <1>6, <2>1, <2>2 DEF Connect
<1>7. CASE Started
  <2>1. \A n \in Ids : session[n] # "none"
    BY <1>7, LoopMakesAll DEF Started
  <2> QED
    BY <1>1, <1>7, <2>1 DEF Started, Types, Launching, Connects
<1>8. CASE Launch
  <2>1. CASE Crash
    BY <2>1, CrashKeeps
  <2>2. ASSUME Launching, Launching', launched' \subseteq Workers,
               UNCHANGED <<port, session, socket, serving, sessionCnt, crashed>>
        PROVE  StartInv'
    <3>1. Types'
      BY <2>2 DEF Types, Launching
    <3>2. Served' = Served /\ Busy' = Busy
      BY <2>2 DEF Served, Busy
    <3> QED
      BY <2>2, <3>1, <3>2
      DEF NobodyBefore, AllPosted, ServedOnPort, EachCountedOnce
  <2> QED
    BY <1>8, <2>1, <2>2 DEF Launch, Launching, Types
<1> QED
  BY <1>2, <1>3, <1>4, <1>5, <1>6, <1>7, <1>8 DEF MainStep

\* A connect that ends is not yet served.
LEMMA ConnectEndsKeeps ==
  ASSUME StartInv, ConnectEnds
  PROVE  StartInv'
<1> PICK n \in Ids :
      /\ session[n] = "pending"
      /\ session' = [session EXCEPT ![n] =
                       IF port = "open" THEN "queued" ELSE "lost"]
  BY DEF ConnectEnds
<1>1. UNCHANGED <<pc, port, socket, launched, serving, sessionCnt, crashed>>
  BY DEF ConnectEnds
<1>2. session' \in [Ids -> Connects]
  BY DEF StartInv, Types, Connects
<1>3. Types'
  BY <1>1, <1>2 DEF StartInv, Types
<1>4. Served' = Served /\ Busy' = Busy
  BY <1>1 DEF StartInv, Types, Served, Busy
<1>5. AllPosted'
  BY <1>1 DEF StartInv, AllPosted, Types, Launching
<1> QED
  BY <1>1, <1>3, <1>4, <1>5
  DEF StartInv, NobodyBefore, ServedOnPort, EachCountedOnce, Launching

\* A completion that is dequeued moves into the hands of a free worker.
LEMMA DequeueKeeps ==
  ASSUME StartInv, NEW w \in Workers, Dequeue(w)
  PROVE  StartInv'
<1>1. CASE Crash
  BY <1>1, CrashKeeps
<1>2. ASSUME NEW n \in Ids, port = "open", session[n] = "queued",
             session' = [session EXCEPT ![n] = "served"],
             serving' = [serving EXCEPT ![w] = n],
             UNCHANGED <<pc, port, socket, launched, sessionCnt, crashed>>
      PROVE  StartInv'
  <2>1. w \in launched /\ serving[w] = 0
    BY DEF Dequeue
  <2>2. n # 0
    BY <1>2, StartAssumption DEF Ids
  <2>3. session' \in [Ids -> Connects] /\ serving' \in [Workers -> Ids \cup {0}]
    BY <1>2 DEF StartInv, Types, Connects
  <2>4. Types'
    BY <1>2, <2>3 DEF StartInv, Types
  <2>5. Launching
    BY <2>1 DEF StartInv, NobodyBefore
  <2>6. Served' = Served \cup {n} /\ n \notin Served
    BY <1>2 DEF StartInv, Types, Served
  <2>7. Busy' = Busy \cup {w} /\ w \notin Busy
    BY <1>2, <2>1, <2>2 DEF StartInv, Types, Busy
  <2>8. /\ Cardinality(Served') = Cardinality(Served) + 1
        /\ Cardinality(Busy') = Cardinality(Busy) + 1
    BY <2>6, <2>7, Finite, FS_AddElement
  <2>9. EachCountedOnce'
    BY <1>2, <2>8, Finite DEF StartInv, Types, EachCountedOnce
  <2>10. AllPosted'
    BY <1>2, <2>5 DEF StartInv, AllPosted, Types, Launching
  <2> QED
    BY <1>2, <2>4, <2>5, <2>9, <2>10
    DEF StartInv, NobodyBefore, ServedOnPort, Launching
<1> QED
  BY <1>1, <1>2 DEF Dequeue

\* The worker counts what it holds, once.
LEMMA ProcessConnectKeeps ==
  ASSUME StartInv, NEW w \in Workers, ProcessConnect(w)
  PROVE  StartInv'
<1>1. /\ serving[w] # 0 /\ sessionCnt' = sessionCnt + 1
      /\ serving' = [serving EXCEPT ![w] = 0]
      /\ UNCHANGED <<pc, port, session, socket, launched, crashed>>
  BY DEF ProcessConnect
<1>2. Types'
  BY <1>1 DEF StartInv, Types
<1>3. Served' = Served
  BY <1>1 DEF Served
<1>4. Busy' = Busy \ {w} /\ w \in Busy
  BY <1>1 DEF StartInv, Types, Busy
<1>5. Cardinality(Busy') = Cardinality(Busy) - 1
  BY <1>4, Finite, FS_RemoveElement
<1>6. EachCountedOnce'
  BY <1>1, <1>3, <1>5, Finite DEF StartInv, Types, EachCountedOnce
<1>7. Launching
  BY <1>4 DEF StartInv, NobodyBefore
<1> QED
  BY <1>1, <1>2, <1>3, <1>6, <1>7
  DEF StartInv, NobodyBefore, AllPosted, ServedOnPort, Launching

\* Every step keeps the invariant.
LEMMA NextKeeps == StartInv /\ [Next]_vars => StartInv'
<1> SUFFICES ASSUME StartInv, [Next]_vars PROVE StartInv'
  OBVIOUS
<1>1. CASE UNCHANGED vars
  BY <1>1 DEF vars, StartInv, Types, NobodyBefore, AllPosted, ServedOnPort,
              EachCountedOnce, Launching, Served, Busy
<1>2. CASE MainStep
  BY <1>2, MainKeeps
<1>3. CASE ConnectEnds
  BY <1>3, ConnectEndsKeeps
<1>4. ASSUME NEW w \in Workers, WorkerStep(w) PROVE StartInv'
  BY <1>4, DequeueKeeps, ProcessConnectKeeps DEF WorkerStep
<1> QED
  BY <1>1, <1>2, <1>3, <1>4 DEF Next, AtRest

\* The bound on sessionCnt: no more is counted than there are sessions.
LEMMA StartInvType == StartInv => TypeOK
<1> SUFFICES ASSUME StartInv PROVE TypeOK
  OBVIOUS
<1>1. sessionCnt \in 0 .. MaxSessionCnt
  BY Finite, StartAssumption DEF StartInv, Types, EachCountedOnce
<1> QED
  BY <1>1 DEF StartInv, Types, TypeOK

\* What is counted was taken from the port after Launch.
LEMMA StartInvServes == StartInv => ServesAllOrNone
<1> SUFFICES ASSUME StartInv, sessionCnt > 0
             PROVE  /\ port = "open"
                    /\ \A n \in Ids : session[n] # "none"
                    /\ sessionCnt <= Cardinality(Served)
  BY DEF ServesAllOrNone, Served
<1>1. sessionCnt <= Cardinality(Served) /\ Cardinality(Served) # 0
  BY Finite DEF StartInv, Types, EachCountedOnce
<1>2. Served # {}
  BY <1>1, FS_EmptySet
<1>3. Launching
  BY DEF StartInv, NobodyBefore
<1> QED
  BY <1>1, <1>2, <1>3 DEF StartInv, ServedOnPort, AllPosted

\* The invariant holds in every reachable state of the start-up.
THEOREM StartInvariance == Spec => []StartInv
BY InitStart, NextKeeps, PTL DEF Spec

\* No counter or table of the start leaves its type; in particular
\* sessionCnt_ never exceeds maxSessionCnt_ (Service.cpp:26-31, 45-62).
THEOREM StartTypeCorrect == Spec => []TypeOK
BY StartInvariance, StartInvType, PTL

\* A client that serves any session has connected them all, on one open
\* port (ClientService::Start, Service.cpp:45-62; main, DummyClient.cpp:57-73).
THEOREM ServesAllOrNoneAlways == Spec => []ServesAllOrNone
BY StartInvariance, StartInvServes, PTL
=============================================================================

---------------------------- MODULE ListenerProofs ----------------------------
(***************************************************************************)
(* The listener's pool of accept events and the service's tables, for any  *)
(* number of events, workers, clients and faults.  An accept event is a    *)
(* token: the kernel, the port's queue or one thread has it, and with it   *)
(* the session it points to, which nobody else can reach until it is       *)
(* connected.  IInv says so; the properties follow from it, and that the   *)
(* listener implements AcceptService and SessionLifetime.                  *)
(***************************************************************************)
EXTENDS ListenerProperties, FiniteSetTheorems, TLAPS

\* The places in RegisterAccept and ProcessAccept where an event is at hand.
Handling == {"check", "connect", "add", "onConnected", "listen", "create", "acceptEx"}

\* The event passes from hand to hand.
PoolInv ==
  /\ \A t \in Threads : pc[t] \in Handling <=> ev[t] # None
  /\ \A t, u \in Threads : ev[t] # None /\ ev[t] = ev[u] => t = u
  /\ \A t \in Threads : ev[t] # None => io[ev[t]] = "idle" /\ ev[t] \in acceptEvents
  /\ \A e \in acceptEvents : io[e] # "idle" \/ \E t \in Threads : ev[t] = e
  /\ \A e \in Events : e \notin acceptEvents => io[e] = "idle"

\* Sessions are made once and belong to one event.
MadeInv ==
  /\ \A s \in Ids : s > made =>
       sock[s] = "fresh" /\ peer[s] = None /\ s \notin connected \cup sessions \cup busy
  /\ \A e \in Events : session[e] <= made
  /\ \A e, f \in Events : e # f /\ session[e] = session[f] => session[e] = 0

\* A session nobody but the holder of its event can reach.
Unknown(s) ==
  s \in Ids /\ s \notin connected \cup sessions \cup busy /\ sock[s] \in {"fresh", "open"}
NeverUsed(s) == Unknown(s) /\ sock[s] = "fresh"

\* What the holder of an event knows of its session.
HolderInv ==
  /\ \A e \in Events :
       /\ io[e] = "posted" => NeverUsed(session[e])
       /\ io[e] = "done" => Unknown(session[e])
  /\ \A t \in Threads :
       /\ pc[t] = "acceptEx" => NeverUsed(At(t))
       /\ pc[t] = "check" => Unknown(At(t))
       /\ pc[t] = "connect" => Unknown(At(t)) /\ peer[At(t)] # None
       /\ pc[t] = "add" =>
            At(t) \in connected /\ At(t) \notin sessions /\ At(t) \notin busy
       /\ pc[t] \in {"onConnected", "listen"} => At(t) \in Ids /\ peer[At(t)] # None

\* The tables.
TableInv ==
  /\ ConnectedHasClient
  /\ \A s \in Ids : sock[s] = "fresh" => peer[s] = None
  /\ \A s \in connected : sock[s] = "open"
  /\ CountIsSize

IInv == TypeOK /\ PoolInv /\ MadeInv /\ HolderInv /\ TableInv

-----------------------------------------------------------------------------

\* The invariant holds before the listener starts.
LEMMA InitIInv == Init => IInv
  <1> SUFFICES ASSUME Init PROVE IInv  OBVIOUS
  <1> USE ListenerAssumption DEF Init
  <1>1. TypeOK
    BY DEF TypeOK, Labels, Ids, Threads
  <1>2. PoolInv
    BY DEF PoolInv, Handling
  <1>3. MadeInv
    BY DEF MadeInv, Ids
  <1>4. HolderInv
    BY DEF HolderInv
  <1>5. TableInv
    BY FS_EmptySet DEF TableInv, ConnectedHasClient, CountIsSize
  <1> QED  BY <1>1, <1>2, <1>3, <1>4, <1>5 DEF IInv

\* Where a handler uses its session, it has one.
LEMMA HandlerHasSession ==
  ASSUME TypeOK, HolderInv
  PROVE  /\ \A t \in Threads : pc[t] \in {"connect", "add", "listen"} => At(t) \in Ids
         /\ \A e \in Events : io[e] # "idle" => session[e] \in Ids
  BY DEF TypeOK, HolderInv, NeverUsed, Unknown

\* Only finitely many sessions are ever made.
LEMMA TablesAreFinite ==
  ASSUME TypeOK
  PROVE  IsFiniteSet(sessions) /\ Cardinality(sessions) \in Nat
  <1>1. IsFiniteSet(Ids) /\ sessions \in SUBSET Ids
    BY ListenerAssumption, FS_Interval DEF TypeOK, Ids
  <1> QED  BY <1>1, FS_Subset, FS_CardinalityType

\* Every step preserves the types.
LEMMA TypeStep == ASSUME IInv, [Next]_vars PROVE TypeOK'
  <1> USE ListenerAssumption
      DEF TypeOK, Goto, Labels, Ids, Threads, threads, pool, life, table, outside
  <1>0. TypeOK /\ HolderInv /\ CountIsSize
    BY DEF IInv, TableInv
  <1>1. CASE Startup
    <2>1. CASE StartAccept \/ Launch
      BY <1>0, <2>1 DEF StartAccept, Launch
    <2>2. ASSUME NEW e \in Events, NewAcceptEvent(e) PROVE TypeOK'
      BY <1>0, <2>2 DEF NewAcceptEvent
    <2> QED  BY <1>1, <2>1, <2>2 DEF Startup
  <1>2. ASSUME NEW t \in Threads, CreateSession(t) PROVE TypeOK'
    <2>1. CASE phase' = "crashed" /\ UNCHANGED <<pc, held, made>>
      BY <1>0, <1>2, <2>1 DEF CreateSession
    <2>2. CASE /\ made < MaxSessions /\ made' = made + 1
               /\ session' = [session EXCEPT ![ev[t]] = made + 1]
               /\ held' = [held EXCEPT ![t] = @ \cup {made + 1}]
               /\ Goto(t, "acceptEx") /\ UNCHANGED phase
      <3>1. made + 1 \in Ids /\ made' \in 0..MaxSessions
        BY <1>0, <2>2
      <3>2. held' \in [Threads -> SUBSET Ids]
        BY <1>0, <2>2, <3>1
      <3> QED  BY <1>0, <1>2, <2>2, <3>1, <3>2 DEF CreateSession
    <2> QED  BY <1>2, <2>1, <2>2 DEF CreateSession
  <1>3. ASSUME NEW t \in Threads, AcceptEx(t) PROVE TypeOK'
    <2>1. CASE io' = [io EXCEPT ![ev[t]] = "posted"] /\ UNCHANGED refusals
      BY <1>0, <1>3, <2>1 DEF AcceptEx
    <2>2. CASE refusals < MaxRefusals /\ refusals' = refusals + 1 /\ UNCHANGED <<io, ev>>
      <3>1. refusals' \in 0..MaxRefusals
        BY <1>0, <2>2
      <3> QED  BY <1>0, <1>3, <2>2, <3>1 DEF AcceptEx
    <2> QED  BY <1>3, <2>1, <2>2 DEF AcceptEx
  <1>4. ASSUME NEW t \in Threads,
               Return(t) \/ CheckAccepted(t) \/ OnConnected(t)
        PROVE TypeOK'
    BY <1>0, <1>4 DEF Return, CheckAccepted, OnConnected
  <1>5. ASSUME NEW t \in Threads,
               ProcessConnect(t) \/ AddSession(t) \/ RegisterRecv(t)
        PROVE TypeOK'
    <2>1. At(t) \in Ids
      BY <1>0, <1>5, HandlerHasSession DEF ProcessConnect, AddSession, RegisterRecv
    <2>2. CASE ProcessConnect(t)
      BY <1>0, <2>2, <2>1 DEF ProcessConnect
    <2>3. CASE AddSession(t)
      <3>1. sessions' \subseteq Ids
        BY <1>0, <2>3, <2>1 DEF AddSession
      <3>2. sessionCnt' \in Nat
        BY <1>0, <2>3 DEF AddSession
      <3> QED  BY <1>0, <2>3, <3>1, <3>2 DEF AddSession
    <2>4. CASE RegisterRecv(t)
      <3>1. busy' \subseteq Ids
        BY <1>0, <2>4, <2>1 DEF RegisterRecv
      <3> QED  BY <1>0, <2>4, <3>1 DEF RegisterRecv
    <2> QED  BY <1>5, <2>2, <2>3, <2>4
  <1>6. ASSUME NEW t \in Workers, NEW e \in Events, Dispatch(t, e) PROVE TypeOK'
    <2>1. session[e] \in Ids
      BY <1>0, <1>6, HandlerHasSession DEF Dispatch
    <2> QED  BY <1>0, <1>6, <2>1 DEF Dispatch
  <1>7. ASSUME NEW s \in Ids, Disconnect(s) \/ LastCompletion(s) PROVE TypeOK'
    <2>1. CASE Disconnect(s)
      <3>1. refusals' \in 0..MaxRefusals
        BY <1>0, <2>1 DEF Disconnect
      <3>2. sock' \in [Ids -> {"fresh", "open", "down", "stuck"}]
        BY <1>0, <2>1 DEF Disconnect
      <3> QED  BY <1>0, <2>1, <3>1, <3>2 DEF Disconnect
    <2>2. CASE LastCompletion(s)
      BY <1>0, <2>2 DEF LastCompletion
    <2> QED  BY <1>7, <2>1, <2>2
  <1>8. ASSUME NEW s \in Ids, ReleaseSession(s) PROVE TypeOK'
    <2>1. sessionCnt # 0
      BY <1>0, <1>8, TablesAreFinite, FS_EmptySet DEF CountIsSize, ReleaseSession
    <2> QED  BY <1>0, <1>8, <2>1 DEF ReleaseSession
  <1>9. ASSUME NEW e \in Events, NEW c \in Clients, CompleteAccept(e, c) PROVE TypeOK'
    <2>1. session[e] \in Ids
      BY <1>0, <1>9, HandlerHasSession DEF CompleteAccept
    <2> QED  BY <1>0, <1>9, <2>1 DEF CompleteAccept
  <1>10. ASSUME NEW c \in Clients, Arrive(c) PROVE TypeOK'
    BY <1>0, <1>10 DEF Arrive
  <1>12. ASSUME NEW e \in Events, CompleteWithError(e) PROVE TypeOK'
    BY <1>0, <1>12 DEF CompleteWithError
  <1>11. CASE UNCHANGED vars
    BY <1>0, <1>11 DEF vars
  <1> QED
    BY <1>1, <1>2, <1>3, <1>4, <1>5, <1>6, <1>7, <1>8, <1>9, <1>10, <1>11, <1>12
    DEF Next, Step, RegisterAccept, ProcessAccept, Dequeue, SessionEnds, Reclaim,
        Kernel, AtRest, Crashed

-----------------------------------------------------------------------------
(* The pool of events. *)

\* A thread that goes on in its handler keeps its event.
LEMMA WalkKeepsPool ==
  ASSUME PoolInv, TypeOK, NEW t \in Threads, pc[t] \in Handling,
         NEW label \in Handling, Goto(t, label), UNCHANGED <<ev, io, acceptEvents>>
  PROVE  PoolInv'
  BY DEF PoolInv, TypeOK, Goto

\* The actions that touch no accept event keep the pool.
LEMMA RestKeepsPool ==
  ASSUME PoolInv, UNCHANGED <<pc, ev, io, acceptEvents>>
  PROVE  PoolInv'
  BY DEF PoolInv

\* Every step preserves the pool of accept events.
LEMMA PoolStep == ASSUME IInv, [Next]_vars PROVE PoolInv'
  <1> USE ListenerAssumption DEF Goto, Threads, threads, pool, life, table, outside
  <1>0. TypeOK /\ PoolInv
    BY DEF IInv
  <1>1. ASSUME NEW e \in Events, NewAcceptEvent(e) PROVE PoolInv'
    <2>1. ev[Main] = None /\ io[e] = "idle" /\ \A t \in Threads : ev[t] # e
      BY <1>0, <1>1 DEF NewAcceptEvent, PoolInv, TypeOK, Handling
    <2> QED  BY <1>0, <1>1, <2>1 DEF NewAcceptEvent, PoolInv, TypeOK, Handling
  <1>2. ASSUME NEW t \in Threads, CreateSession(t) PROVE PoolInv'
    <2>1. CASE Goto(t, "acceptEx")
      BY <1>0, <1>2, <2>1, WalkKeepsPool DEF CreateSession, Handling
    <2>2. CASE UNCHANGED pc
      BY <1>0, <1>2, <2>2, RestKeepsPool DEF CreateSession
    <2> QED  BY <1>2, <2>1, <2>2 DEF CreateSession
  <1>3. ASSUME NEW t \in Threads, AcceptEx(t) PROVE PoolInv'
    <2>1. CASE /\ io' = [io EXCEPT ![ev[t]] = "posted"]
               /\ ev' = [ev EXCEPT ![t] = None] /\ Goto(t, "return")
      <3>1. ev[t] \in acceptEvents /\ \A u \in Threads : ev[u] = ev[t] => u = t
        BY <1>0, <1>3 DEF AcceptEx, PoolInv, TypeOK, Handling
      <3> QED  BY <1>0, <1>3, <2>1, <3>1 DEF AcceptEx, PoolInv, TypeOK, Handling
    <2>2. CASE Goto(t, "create") /\ UNCHANGED <<io, ev>>
      BY <1>0, <1>3, <2>2, WalkKeepsPool DEF AcceptEx, Handling
    <2> QED  BY <1>3, <2>1, <2>2 DEF AcceptEx
  <1>4. ASSUME NEW t \in Threads, Return(t) PROVE PoolInv'
    BY <1>0, <1>4 DEF Return, PoolInv, TypeOK, Handling
  <1>5. ASSUME NEW t \in Threads, ProcessAccept(t) PROVE PoolInv'
    BY <1>0, <1>5, WalkKeepsPool
    DEF ProcessAccept, CheckAccepted, ProcessConnect, AddSession, OnConnected,
        RegisterRecv, Handling
  <1>6. ASSUME NEW t \in Workers, NEW e \in Events, Dispatch(t, e) PROVE PoolInv'
    <2>1. e \in acceptEvents /\ ev[t] = None /\ \A u \in Threads : ev[u] # e
      BY <1>0, <1>6 DEF Dispatch, PoolInv, TypeOK, Handling
    <2> QED  BY <1>0, <1>6, <2>1 DEF Dispatch, PoolInv, TypeOK, Handling
  <1>7. ASSUME NEW e \in Events, io[e] = "posted", io' = [io EXCEPT ![e] = "done"],
               UNCHANGED <<pc, ev, acceptEvents>>
        PROVE PoolInv'
    BY <1>0, <1>7 DEF PoolInv, TypeOK
  <1>8. CASE UNCHANGED <<pc, ev, io, acceptEvents>>
    BY <1>0, <1>8, RestKeepsPool
  <1> QED
    BY <1>1, <1>2, <1>3, <1>4, <1>5, <1>6, <1>7, <1>8
    DEF Next, Startup, StartAccept, Launch, Step, RegisterAccept, Dequeue, SessionEnds,
        Reclaim, Disconnect, ReleaseSession, LastCompletion, Kernel, CompleteAccept,
        CompleteWithError, Arrive, AtRest, Crashed, vars

-----------------------------------------------------------------------------
(* Sessions are made once. *)

\* Every step preserves what is known of the sessions made.
LEMMA MadeStep == ASSUME IInv, [Next]_vars PROVE MadeInv'
  <1> USE ListenerAssumption DEF Ids, threads, pool, life, table, outside
  <1>0. TypeOK /\ MadeInv /\ PoolInv /\ HolderInv
    BY DEF IInv
  <1>1. ASSUME NEW t \in Threads, CreateSession(t) PROVE MadeInv'
    <2>1. CASE /\ made < MaxSessions /\ made' = made + 1
               /\ session' = [session EXCEPT ![ev[t]] = made + 1]
      BY <1>0, <1>1, <2>1 DEF CreateSession, MadeInv, TypeOK
    <2>2. CASE session' = [session EXCEPT ![ev[t]] = 0] /\ UNCHANGED made
      BY <1>0, <1>1, <2>2 DEF CreateSession, MadeInv, TypeOK
    <2> QED  BY <1>1, <2>1, <2>2 DEF CreateSession
  <1>2. ASSUME NEW t \in Threads, ProcessConnect(t) \/ AddSession(t) \/ RegisterRecv(t)
        PROVE MadeInv'
    <2>1. At(t) \in Ids /\ At(t) <= made
      BY <1>0, <1>2, HandlerHasSession
      DEF ProcessConnect, AddSession, RegisterRecv, At, MadeInv, PoolInv, TypeOK, Handling
    <2>2. CASE ProcessConnect(t)
      BY <1>0, <2>1, <2>2 DEF ProcessConnect, MadeInv, TypeOK
    <2>3. CASE AddSession(t)
      BY <1>0, <2>1, <2>3 DEF AddSession, MadeInv, TypeOK
    <2>4. CASE RegisterRecv(t)
      BY <1>0, <2>1, <2>4 DEF RegisterRecv, MadeInv, TypeOK
    <2> QED  BY <1>2, <2>2, <2>3, <2>4
  <1>3. ASSUME NEW s \in Ids, Disconnect(s) PROVE MadeInv'
    <2>1. s <= made
      BY <1>0, <1>3 DEF Disconnect, Announced, MadeInv, TypeOK
    <2> QED  BY <1>0, <1>3, <2>1 DEF Disconnect, MadeInv, TypeOK
  <1>4. ASSUME NEW s \in Ids, ReleaseSession(s) \/ LastCompletion(s) PROVE MadeInv'
    BY <1>0, <1>4 DEF ReleaseSession, LastCompletion, MadeInv, TypeOK
  <1>5. ASSUME NEW e \in Events, NEW c \in Clients, CompleteAccept(e, c) PROVE MadeInv'
    <2>1. session[e] \in Ids /\ session[e] <= made
      BY <1>0, <1>5, HandlerHasSession DEF CompleteAccept, MadeInv
    <2> QED  BY <1>0, <1>5, <2>1 DEF CompleteAccept, MadeInv, TypeOK
  <1>6. CASE UNCHANGED <<session, made, sock, peer, connected, sessions, busy>>
    BY <1>0, <1>6 DEF MadeInv
  <1> QED
    BY <1>1, <1>2, <1>3, <1>4, <1>5, <1>6
    DEF Next, Startup, StartAccept, NewAcceptEvent, Launch, Step, RegisterAccept, AcceptEx,
        Return, ProcessAccept, CheckAccepted, OnConnected, Dequeue, Dispatch, SessionEnds,
        Reclaim, Kernel, CompleteWithError, Arrive, AtRest, Crashed, vars

-----------------------------------------------------------------------------
(* What a holder knows stays true. *)

\* The places where a handler has a session.
HasSession == Handling \ {"create"}

\* Different holders have different events, and so different sessions.
LEMMA HoldersDiffer ==
  ASSUME TypeOK, PoolInv, MadeInv, HolderInv
  PROVE  /\ \A t \in Threads : pc[t] \in HasSession =>
              At(t) \in Ids /\ ev[t] \in Events /\ io[ev[t]] = "idle"
         /\ \A t, u \in Threads :
              t # u /\ pc[t] \in HasSession /\ pc[u] \in HasSession => At(t) # At(u)
         /\ \A t \in Threads, e \in Events :
              pc[t] \in HasSession /\ io[e] # "idle" => At(t) # session[e]
         /\ \A e, f \in Events :
              e # f /\ io[e] # "idle" /\ io[f] # "idle" => session[e] # session[f]
  <1>1. \A t \in Threads : pc[t] \in HasSession =>
          At(t) \in Ids /\ ev[t] \in Events /\ io[ev[t]] = "idle"
    BY DEF TypeOK, PoolInv, HolderInv, HasSession, Handling, NeverUsed, Unknown
  <1>2. \A e \in Events : io[e] # "idle" => session[e] # 0
    BY HandlerHasSession DEF Ids
  <1>3. \A e \in Events : session[e] = 0 => session[e] \notin Ids
    BY DEF Ids
  <1> QED
    BY <1>1, <1>2, <1>3 DEF At, PoolInv, MadeInv, HasSession, Handling

\* Every step preserves who may hold a session that is not connected.
LEMMA HolderStep == ASSUME IInv, [Next]_vars PROVE HolderInv'
  <1> USE ListenerAssumption DEF Goto, threads, pool, life, table, outside
  <1>0. TypeOK /\ PoolInv /\ MadeInv /\ HolderInv
    BY DEF IInv
  <1>a. USE DEF HolderInv, At, NeverUsed, Unknown
  <1>1. ASSUME NEW e \in Events, NewAcceptEvent(e) PROVE HolderInv'
    BY <1>0, <1>1 DEF NewAcceptEvent, TypeOK
  <1>2. ASSUME NEW t \in Threads, CreateSession(t) PROVE HolderInv'
    <2>1. /\ ev[t] \in Events /\ io[ev[t]] = "idle"
          /\ \A u \in Threads : u # t /\ pc[u] \in HasSession => ev[u] # ev[t]
      BY <1>0, <1>2 DEF CreateSession, PoolInv, TypeOK, HasSession, Handling
    <2>2. CASE /\ made < MaxSessions /\ made' = made + 1
               /\ session' = [session EXCEPT ![ev[t]] = made + 1]
               /\ Goto(t, "acceptEx")
      <3>1. NeverUsed(made + 1)
        BY <1>0, <2>2 DEF MadeInv, TypeOK, Ids
      <3> QED  BY <1>0, <1>2, <2>1, <2>2, <3>1 DEF CreateSession, TypeOK, HasSession, Handling
    <2>3. CASE session' = [session EXCEPT ![ev[t]] = 0] /\ UNCHANGED pc
      BY <1>0, <1>2, <2>1, <2>3 DEF CreateSession, TypeOK, HasSession, Handling
    <2> QED  BY <1>2, <2>2, <2>3 DEF CreateSession
  <1>3. ASSUME NEW t \in Threads, AcceptEx(t) PROVE HolderInv'
    BY <1>0, <1>3 DEF AcceptEx, TypeOK
  <1>4. ASSUME NEW t \in Threads, Return(t) \/ CheckAccepted(t) \/ OnConnected(t)
        PROVE HolderInv'
    BY <1>0, <1>4 DEF Return, CheckAccepted, OnConnected, TypeOK
  <1>5. ASSUME NEW t \in Threads, ProcessConnect(t) PROVE HolderInv'
    BY <1>0, <1>5, HoldersDiffer DEF ProcessConnect, TypeOK, HasSession, Handling
  <1>6. ASSUME NEW t \in Threads, AddSession(t) PROVE HolderInv'
    <2>1. ConnectedHasClient
      BY DEF IInv, TableInv
    <2> QED
      BY <1>0, <1>6, <2>1, HoldersDiffer
      DEF AddSession, ConnectedHasClient, TypeOK, HasSession, Handling
  <1>7. ASSUME NEW t \in Threads, RegisterRecv(t) PROVE HolderInv'
    BY <1>0, <1>7, HoldersDiffer DEF RegisterRecv, TypeOK, HasSession, Handling
  <1>8. ASSUME NEW t \in Workers, NEW e \in Events, Dispatch(t, e) PROVE HolderInv'
    BY <1>0, <1>8 DEF Dispatch, TypeOK, Threads
  <1>9. ASSUME NEW s \in Ids, Disconnect(s) PROVE HolderInv'
    BY <1>0, <1>9 DEF Disconnect, Announced, TypeOK
  <1>10. ASSUME NEW s \in Ids, ReleaseSession(s) \/ LastCompletion(s) PROVE HolderInv'
    BY <1>0, <1>10 DEF ReleaseSession, LastCompletion, TypeOK
  <1>11. ASSUME NEW e \in Events, NEW c \in Clients, CompleteAccept(e, c) PROVE HolderInv'
    BY <1>0, <1>11, HoldersDiffer DEF CompleteAccept, TypeOK, HasSession, Handling
  <1>12. ASSUME NEW e \in Events, CompleteWithError(e) PROVE HolderInv'
    BY <1>0, <1>12 DEF CompleteWithError, TypeOK
  <1>13. CASE UNCHANGED <<pc, ev, session, io, sock, peer, connected, sessions, busy>>
    BY <1>0, <1>13
  <1> QED
    BY <1>1, <1>2, <1>3, <1>4, <1>5, <1>6, <1>7, <1>8, <1>9, <1>10, <1>11, <1>12, <1>13
    DEF Next, Startup, StartAccept, Launch, Step, RegisterAccept, ProcessAccept, Dequeue,
        SessionEnds, Reclaim, Kernel, Arrive, AtRest, Crashed, vars

-----------------------------------------------------------------------------
(* The tables. *)

\* Every step preserves the table of sessions and its counter.
LEMMA TableStep == ASSUME IInv, [Next]_vars PROVE TableInv'
  <1> USE ListenerAssumption DEF Goto, threads, pool, life, table, outside
  <1>0. TypeOK /\ HolderInv /\ TableInv
    BY DEF IInv
  <1>a. USE DEF TableInv, ConnectedHasClient, CountIsSize
  <1>1. ASSUME NEW t \in Threads, ProcessConnect(t) PROVE TableInv'
    <2>1. Unknown(At(t)) /\ peer[At(t)] # None
      BY <1>0, <1>1 DEF ProcessConnect, HolderInv
    <2> QED  BY <1>0, <1>1, <2>1 DEF ProcessConnect, Unknown
  <1>2. ASSUME NEW t \in Threads, AddSession(t) PROVE TableInv'
    <2>1. At(t) \in connected /\ At(t) \notin sessions
      BY <1>0, <1>2 DEF AddSession, HolderInv
    <2>2. Cardinality(sessions') = Cardinality(sessions) + 1
      BY <1>0, <1>2, <2>1, TablesAreFinite, FS_AddElement DEF AddSession
    <2> QED  BY <1>0, <1>2, <2>1, <2>2 DEF AddSession
  <1>3. ASSUME NEW s \in Ids, Disconnect(s) PROVE TableInv'
    BY <1>0, <1>3 DEF Disconnect, TypeOK
  <1>4. ASSUME NEW s \in Ids, ReleaseSession(s) PROVE TableInv'
    <2>1. Cardinality(sessions') = Cardinality(sessions) - 1
      BY <1>0, <1>4, TablesAreFinite, FS_RemoveElement DEF ReleaseSession
    <2> QED  BY <1>0, <1>4, <2>1 DEF ReleaseSession
  <1>5. ASSUME NEW e \in Events, NEW c \in Clients, CompleteAccept(e, c) PROVE TableInv'
    <2>1. Unknown(session[e])
      BY <1>0, <1>5 DEF CompleteAccept, HolderInv, NeverUsed
    <2> QED  BY <1>0, <1>5, <2>1 DEF CompleteAccept, TypeOK, Unknown
  <1>6. CASE UNCHANGED <<sock, peer, connected, sessions, sessionCnt>>
    BY <1>0, <1>6
  <1> QED
    BY <1>1, <1>2, <1>3, <1>4, <1>5, <1>6
    DEF Next, Startup, StartAccept, NewAcceptEvent, Launch, Step, RegisterAccept,
        CreateSession, AcceptEx, Return, ProcessAccept, CheckAccepted, OnConnected,
        RegisterRecv, Dequeue, Dispatch, SessionEnds, Reclaim, LastCompletion, Kernel,
        CompleteWithError, Arrive, AtRest, Crashed, vars

-----------------------------------------------------------------------------

\* Every step preserves the inductive invariant.
LEMMA IStep == IInv /\ [Next]_vars => IInv'
  BY TypeStep, PoolStep, MadeStep, HolderStep, TableStep DEF IInv

\* Every reachable state satisfies it.
LEMMA IInvariance == Spec => []IInv
  BY InitIInv, IStep, PTL DEF Spec

\* Every variable keeps its type: no session is taken out of an empty table,
\* no handler works on a session that was never made.
THEOREM ListenerTypeCorrect == Spec => []TypeOK
  <1>1. IInv => TypeOK
    BY DEF IInv
  <1> QED  BY <1>1, IInvariance, PTL

\* Each accept event is posted, completed, or in one thread's hands: none is
\* lost on a failing path and none is used twice, so that they need no lock.
THEOREM EventAlwaysHasOneUser == Spec => []EventHasOneUser
  <1>1. ASSUME IInv PROVE EventHasOneUser
    <2>0. TypeOK /\ PoolInv
      BY <1>1 DEF IInv
    <2> SUFFICES ASSUME NEW e \in acceptEvents
                 PROVE  \E x : Users(e) = {x}
      BY FS_Singleton DEF EventHasOneUser
    <2>e. e \in Events
      BY <2>0 DEF TypeOK
    <2>1. CASE io[e] # "idle"
      <3>1. \A t \in Threads : ev[t] # e
        BY <2>0, <2>e, <2>1, ListenerAssumption DEF PoolInv
      <3>2. Users(e) = {None}
        BY <2>1, <3>1 DEF Users
      <3> QED  BY <3>2
    <2>2. CASE io[e] = "idle"
      <3>1. PICK t \in Threads : ev[t] = e
        BY <2>0, <2>2 DEF PoolInv
      <3>2. \A u \in Threads : ev[u] = e => u = t
        BY <2>0, <2>e, <3>1, ListenerAssumption DEF PoolInv
      <3>3. Users(e) = {t}
        BY <2>2, <3>1, <3>2 DEF Users
      <3> QED  BY <3>3
    <2> QED  BY <2>1, <2>2
  <1> QED  BY <1>1, IInvariance, PTL

\* What AcceptEx is given nobody else knows.
THEOREM PostedIsAlwaysFresh == Spec => []PostedIsFresh
  <1>1. ASSUME IInv PROVE PostedIsFresh
    <2>1. \A e \in Events : io[e] = "posted" => NeverUsed(session[e]) /\ session[e] # 0
      BY <1>1, ListenerAssumption DEF IInv, HolderInv, NeverUsed, Unknown, Ids
    <2> QED  BY <1>1, <2>1 DEF IInv, MadeInv, PostedIsFresh, NeverUsed, Unknown
  <1> QED  BY <1>1, IInvariance, PTL

\* A session that is connected or counted has a client, failed accepts or not.
THEOREM ConnectedAlwaysHasClient == Spec => []ConnectedHasClient
  <1>1. IInv => ConnectedHasClient
    BY DEF IInv, TableInv
  <1> QED  BY <1>1, IInvariance, PTL

\* A session is in the table and in the count once, from an open connection to one that
\* was shut down, and never again; one whose DisconnectEx was refused stays.
THEOREM SessionsAreCountedOnce == Spec => CountedOnce
  <1> DEFINE Once ==
        /\ \A s \in sessions' \ sessions : s \in connected /\ sock[s] = "open"
        /\ \A s \in sessions \ sessions' : sock[s] = "down"
        /\ \A s \in Ids : Ended(s) => sock'[s] = sock[s] /\ s \notin connected'
  <1>1. ASSUME IInv, [Next]_vars PROVE Once
    <2>0. TypeOK /\ HolderInv /\ TableInv
      BY <1>1 DEF IInv
    <2> USE DEF threads, pool, life, table, outside
    <2>a. \A s \in Ids : Ended(s) => s \notin connected
      BY <2>0 DEF TableInv, Ended
    <2>1. ASSUME NEW t \in Threads, ProcessConnect(t) PROVE Once
      <3>1. ~Ended(At(t))
        BY <2>0, <2>1 DEF ProcessConnect, HolderInv, Unknown, Ended
      <3>2. UNCHANGED <<sock, sessions>> /\ connected' = connected \cup {At(t)}
        BY <2>1 DEF ProcessConnect
      <3> QED  BY <2>a, <3>1, <3>2
    <2>2. ASSUME NEW t \in Threads, AddSession(t) PROVE Once
      <3>1. At(t) \in connected /\ sock[At(t)] = "open"
        BY <2>0, <2>2 DEF AddSession, HolderInv, TableInv
      <3>2. UNCHANGED <<sock, connected>> /\ sessions' = sessions \cup {At(t)}
        BY <2>2 DEF AddSession
      <3> QED  BY <2>a, <3>1, <3>2
    <2>3. ASSUME NEW s \in Ids, Disconnect(s) PROVE Once
      <3>1. sock[s] = "open" /\ UNCHANGED sessions /\ connected' \subseteq connected
        BY <2>0, <2>3 DEF Disconnect, Announced, TableInv
      <3>2. \A u \in Ids : u # s => sock'[u] = sock[u]
        BY <2>0, <2>3 DEF Disconnect, TypeOK
      <3> QED  BY <2>a, <3>1, <3>2 DEF Ended
    <2>4. ASSUME NEW s \in Ids, ReleaseSession(s) PROVE Once
      BY <2>a, <2>4 DEF ReleaseSession
    <2>5. ASSUME NEW e \in Events, NEW c \in Clients, CompleteAccept(e, c) PROVE Once
      <3>1. sock[session[e]] = "fresh" /\ UNCHANGED <<sessions, connected>>
        BY <2>0, <2>5 DEF CompleteAccept, HolderInv, NeverUsed
      <3>2. \A u \in Ids : u # session[e] => sock'[u] = sock[u]
        BY <2>0, <2>5 DEF CompleteAccept, TypeOK
      <3> QED  BY <2>a, <3>1, <3>2 DEF Ended
    <2>6. CASE UNCHANGED <<sock, connected, sessions>>
      BY <2>a, <2>6
    <2> QED
      BY <1>1, <2>1, <2>2, <2>3, <2>4, <2>5, <2>6
      DEF Next, Startup, StartAccept, NewAcceptEvent, Launch, Step, RegisterAccept,
          CreateSession, AcceptEx, Return, ProcessAccept, CheckAccepted, OnConnected,
          RegisterRecv, Dequeue, Dispatch, SessionEnds, Reclaim, LastCompletion, Kernel,
          CompleteWithError, Arrive, AtRest, Crashed, vars
  <1>2. IInv /\ [Next]_vars => [Once]_vars
    BY <1>1
  <1>3. IInv => CountIsSize
    BY DEF IInv, TableInv
  <1> QED  BY <1>2, <1>3, IInvariance, PTL DEF Spec, CountedOnce

-----------------------------------------------------------------------------
(***************************************************************************)
(* The listener implements AcceptService.  A client is where its session   *)
(* is, so the proof first needs that it has one, and that a session, once  *)
(* let go of, is never held again.                                         *)
(***************************************************************************)

\* A client that left the backlog has one session, and no other client has that.
ClientInv ==
  /\ \A s \in Ids : sock[s] = "fresh" <=> peer[s] = None
  /\ \A s \in Ids : peer[s] # None => peer[s] \in arrived \ waiting
  /\ \A s, u \in Ids : peer[s] # None /\ peer[s] = peer[u] => s = u
  /\ \A c \in arrived \ waiting : \E s \in Ids : peer[s] = c

\* From ProcessConnect on, the handler or the table holds the session.
HeldInv ==
  \A s \in connected : s \in sessions \/ \E t \in Threads : pc[t] = "add" /\ At(t) = s

\* The kernel gives the client of a completed accept to a session without one.
LEMMA ClientStep == ASSUME IInv, ClientInv, [Next]_vars PROVE ClientInv'
  <1> USE ListenerAssumption DEF threads, pool, life, table, outside
  <1>0. TypeOK /\ HolderInv /\ TableInv
    BY DEF IInv
  <1>1. ASSUME NEW e \in Events, NEW c \in Clients, CompleteAccept(e, c) PROVE ClientInv'
    <2> DEFINE n == session[e]
    <2>1. n \in Ids /\ sock[n] = "fresh" /\ peer[n] = None
      BY <1>0, <1>1 DEF CompleteAccept, HolderInv, NeverUsed, Unknown, ClientInv
    <2>2. /\ c \in waiting /\ waiting' = waiting \ {c} /\ arrived' = arrived
          /\ peer' = [peer EXCEPT ![n] = c] /\ sock' = [sock EXCEPT ![n] = "open"]
          /\ c \in arrived /\ c # None
      BY <1>0, <1>1 DEF CompleteAccept, TypeOK
    <2> HIDE DEF n
    <2>3. /\ peer'[n] = c /\ sock'[n] = "open"
          /\ \A s \in Ids : s # n => peer'[s] = peer[s] /\ sock'[s] = sock[s]
      BY <1>0, <2>1, <2>2 DEF TypeOK
    <2>4. \A s \in Ids : peer[s] # c
      BY <2>2 DEF ClientInv
    <2>5. (\A s \in Ids : sock[s] = "fresh" <=> peer[s] = None)'
      BY <2>1, <2>2, <2>3 DEF ClientInv
    <2>6. (\A s \in Ids : peer[s] # None => peer[s] \in arrived \ waiting)'
      BY <2>1, <2>2, <2>3, <2>4 DEF ClientInv
    <2>7. (\A s, u \in Ids : peer[s] # None /\ peer[s] = peer[u] => s = u)'
      BY <2>3, <2>4 DEF ClientInv
    <2>8. (\A d \in arrived \ waiting : \E s \in Ids : peer[s] = d)'
      <3> SUFFICES ASSUME NEW d \in arrived' \ waiting' PROVE \E s \in Ids : peer'[s] = d
        OBVIOUS
      <3>1. CASE d = c
        BY <2>1, <2>3, <3>1
      <3>2. CASE d # c
        <4>1. PICK s \in Ids : peer[s] = d
          BY <2>2, <3>2 DEF ClientInv
        <4>2. d # None
          BY <1>0, <2>2, ListenerAssumption DEF TypeOK
        <4> QED  BY <2>1, <2>3, <4>1, <4>2
      <3> QED  BY <3>1, <3>2
    <2> QED  BY <2>5, <2>6, <2>7, <2>8 DEF ClientInv
  <1>2. ASSUME NEW c \in Clients, Arrive(c) PROVE ClientInv'
    <2>1. /\ c \notin arrived /\ UNCHANGED <<peer, sock>>
          /\ arrived' = arrived \cup {c} /\ waiting' = waiting \cup {c}
      BY <1>2 DEF Arrive
    <2> QED  BY <2>1 DEF ClientInv
  <1>3. ASSUME NEW s \in Ids, Disconnect(s) PROVE ClientInv'
    <2>1. peer[s] # None
      BY <1>0, <1>3 DEF Disconnect, Announced, TableInv, ConnectedHasClient
    <2>2. /\ UNCHANGED <<peer, arrived, waiting>> /\ sock'[s] # "fresh"
          /\ \A u \in Ids : u # s => sock'[u] = sock[u]
      BY <1>0, <1>3 DEF Disconnect, TypeOK
    <2> QED  BY <2>1, <2>2 DEF ClientInv
  <1>4. CASE UNCHANGED <<sock, peer, arrived, waiting>>
    BY <1>4 DEF ClientInv
  <1> QED
    BY <1>1, <1>2, <1>3, <1>4
    DEF Next, Startup, StartAccept, NewAcceptEvent, Launch, Step, RegisterAccept,
        CreateSession, AcceptEx, Return, ProcessAccept, CheckAccepted, ProcessConnect,
        AddSession, OnConnected, RegisterRecv, Dequeue, Dispatch, SessionEnds, Reclaim,
        ReleaseSession, LastCompletion, Kernel, CompleteWithError, AtRest, Crashed, vars

\* A connected session leaves the handler for the table, and the table only when it
\* is connected no more.
LEMMA HeldStep == ASSUME IInv, HeldInv, [Next]_vars PROVE HeldInv'
  <1> USE ListenerAssumption DEF Goto, threads, pool, life, table, outside
  <1>0. TypeOK /\ PoolInv /\ HolderInv /\ TableInv
    BY DEF IInv
  <1> DEFINE Adds(t) == pc[t] = "add" => pc'[t] = "add" /\ At(t)' = At(t)
  <1>1. ASSUME connected' \subseteq connected, connected \cap sessions \subseteq sessions' \cup (connected \ connected'),
               \A t \in Threads : Adds(t)
        PROVE  HeldInv'
    BY <1>1 DEF HeldInv
  <1>2. ASSUME NEW t \in Threads, CreateSession(t) \/ AcceptEx(t) \/ Return(t) \/ CheckAccepted(t)
                                  \/ OnConnected(t) \/ RegisterRecv(t)
        PROVE  HeldInv'
    <2>1. UNCHANGED <<connected, sessions>>
      BY <1>2 DEF CreateSession, AcceptEx, Return, CheckAccepted, OnConnected, RegisterRecv
    <2>2. pc[t] # "add"
      BY <1>2 DEF CreateSession, AcceptEx, Return, CheckAccepted, OnConnected, RegisterRecv
    <2>3. \A u \in Threads : u # t => pc'[u] = pc[u] /\ ev'[u] = ev[u]
      BY <1>0, <1>2
      DEF CreateSession, AcceptEx, Return, CheckAccepted, OnConnected, RegisterRecv, TypeOK
    <2>4. \A u \in Threads : pc[u] = "add" => session'[ev[u]] = session[ev[u]]
      <3>1. CASE UNCHANGED session
        BY <3>1
      <3>2. CASE CreateSession(t)
        <4>1. \A u \in Threads : pc[u] = "add" => ev[u] \in Events /\ ev[u] # ev[t]
          BY <1>0, <2>2, <3>2 DEF CreateSession, PoolInv, TypeOK, Handling
        <4>2. \A e \in Events : e # ev[t] => session'[e] = session[e]
          BY <1>0, <3>2 DEF CreateSession, TypeOK
        <4> QED  BY <4>1, <4>2
      <3> QED
        BY <1>2, <3>1, <3>2 DEF AcceptEx, Return, CheckAccepted, OnConnected, RegisterRecv
    <2>5. \A u \in Threads : Adds(u)
      BY <2>2, <2>3, <2>4 DEF At
    <2> QED  BY <1>1, <2>1, <2>5
  <1>3. ASSUME NEW t \in Threads, ProcessConnect(t) PROVE HeldInv'
    <2>1. /\ connected' = connected \cup {At(t)} /\ UNCHANGED <<sessions, ev, session>>
          /\ pc'[t] = "add" /\ \A u \in Threads : u # t => pc'[u] = pc[u]
          /\ pc[t] = "connect"
      BY <1>0, <1>3 DEF ProcessConnect, TypeOK
    <2>2. \A u \in Threads : At(u)' = At(u)
      BY <2>1 DEF At
    <2> QED  BY <2>1, <2>2 DEF HeldInv
  <1>4. ASSUME NEW t \in Threads, AddSession(t) PROVE HeldInv'
    <2>1. /\ sessions' = sessions \cup {At(t)} /\ UNCHANGED <<connected, ev, session>>
          /\ \A u \in Threads : u # t => pc'[u] = pc[u]
      BY <1>0, <1>4 DEF AddSession, TypeOK
    <2>2. \A u \in Threads : At(u)' = At(u)
      BY <2>1 DEF At
    <2> QED  BY <2>1, <2>2 DEF HeldInv
  <1>5. ASSUME NEW t \in Workers, NEW e \in Events, Dispatch(t, e) PROVE HeldInv'
    <2>1. /\ UNCHANGED <<connected, sessions, session>> /\ pc[t] = "idle"
          /\ \A u \in Threads : u # t => pc'[u] = pc[u] /\ ev'[u] = ev[u]
      BY <1>0, <1>5 DEF Dispatch, TypeOK, Threads
    <2>2. \A u \in Threads : Adds(u)
      BY <2>1 DEF At
    <2> QED  BY <1>1, <2>1, <2>2
  <1>6. ASSUME NEW e \in Events, NewAcceptEvent(e) PROVE HeldInv'
    <2>1. /\ UNCHANGED <<connected, sessions, session>> /\ pc[Main] = "idle"
          /\ \A u \in Threads : u # Main => pc'[u] = pc[u] /\ ev'[u] = ev[u]
      BY <1>0, <1>6 DEF NewAcceptEvent, TypeOK, Threads
    <2>2. \A u \in Threads : Adds(u)
      BY <2>1 DEF At
    <2> QED  BY <1>1, <2>1, <2>2
  <1>7. ASSUME NEW s \in Ids, Disconnect(s) \/ ReleaseSession(s) \/ LastCompletion(s) PROVE HeldInv'
    <2>1. /\ UNCHANGED <<pc, ev, session>> /\ connected' \subseteq connected
          /\ connected \cap sessions \subseteq sessions'
      BY <1>0, <1>7 DEF Disconnect, ReleaseSession, LastCompletion, TableInv
    <2>2. \A u \in Threads : Adds(u)
      BY <2>1 DEF At
    <2> QED  BY <1>1, <2>1, <2>2
  <1>8. CASE UNCHANGED <<pc, ev, session, connected, sessions>>
    BY <1>8 DEF HeldInv, At
  <1> QED
    BY <1>2, <1>3, <1>4, <1>5, <1>6, <1>7, <1>8
    DEF Next, Startup, StartAccept, Launch, Step, RegisterAccept, ProcessAccept, Dequeue,
        SessionEnds, Reclaim, Kernel, CompleteAccept, CompleteWithError, Arrive, AtRest,
        Crashed, vars

\* Every reachable state satisfies both.
LEMMA ServiceInvariance == Spec => [](ClientInv /\ HeldInv)
  <1>1. Init => ClientInv /\ HeldInv
    BY DEF Init, ClientInv, HeldInv
  <1>2. IInv /\ ClientInv /\ HeldInv /\ [Next]_vars => (ClientInv /\ HeldInv)'
    BY ClientStep, HeldStep
  <1> QED  BY <1>1, <1>2, IInvariance, PTL DEF Spec

\* Where the client of session s is.
Stage(s) ==
  IF sock[s] = "stuck" THEN "abandoned"
  ELSE IF sock[s] = "down" \/ ~ Alive(s) THEN "closed"
  ELSE IF s \in connected THEN "served" ELSE "taken"

\* A client's place is its session's.
LEMMA ClientAtSession ==
  ASSUME ClientInv
  PROVE  \A s \in Ids : peer[s] # None => ClientAt(peer[s]) = Stage(s)
  <1> SUFFICES ASSUME NEW s \in Ids, peer[s] # None PROVE ClientAt(peer[s]) = Stage(s)
    OBVIOUS
  <1>1. peer[s] \in arrived /\ peer[s] \notin waiting
    BY DEF ClientInv
  <1>2. (CHOOSE i \in Ids : peer[i] = peer[s]) = s
    BY DEF ClientInv
  <1> QED  BY <1>1, <1>2 DEF ClientAt, Stage

\* So it is after a step.
LEMMA ClientAtSessionNext ==
  ASSUME ClientInv'
  PROVE  \A s \in Ids, c \in Clients :
           peer'[s] = c /\ c # None => ClientAt(c)' = Stage(s)'
  <1> SUFFICES ASSUME NEW s \in Ids, NEW c \in Clients, peer'[s] = c, c # None
               PROVE  ClientAt(c)' = Stage(s)'
    OBVIOUS
  <1>1. c \in arrived' /\ c \notin waiting'
    BY DEF ClientInv
  <1>2. (CHOOSE i \in Ids : peer'[i] = c) = s
    BY DEF ClientInv
  <1> QED  BY <1>1, <1>2 DEF ClientAt, Stage

\* A client whose session keeps its stage, or who has none, stays where it is.
LEMMA ClientStays ==
  ASSUME TypeOK, ClientInv, ClientInv', NEW c \in Clients,
         c \in arrived' <=> c \in arrived, c \in waiting' <=> c \in waiting,
         \A s \in Ids : peer[s] = c => peer'[s] = c /\ Stage(s)' = Stage(s)
  PROVE  ClientAt(c)' = ClientAt(c)
  <1>1. CASE c \in arrived \ waiting
    <2>1. PICK s \in Ids : peer[s] = c
      BY <1>1 DEF ClientInv
    <2>2. c # None /\ peer'[s] = c
      BY <2>1, ListenerAssumption
    <2>3. ClientAt(c) = Stage(s)
      BY <2>1, <2>2, ClientAtSession
    <2>4. ClientAt(c)' = Stage(s)'
      BY <2>2, ClientAtSessionNext
    <2> QED  BY <2>1, <2>3, <2>4
  <1>2. CASE c \notin arrived \ waiting
    BY <1>2 DEF ClientAt
  <1> QED  BY <1>1, <1>2

\* Sessions only lose what holds them, and a disconnected one is shut down.
Declines(s) ==
  /\ sock[s] = "down" => sock'[s] = "down"
  /\ sock[s] = "stuck" <=> sock'[s] = "stuck"
  /\ Alive(s)' => Alive(s)
  /\ s \in connected' => s \in connected
  /\ s \in connected \ connected' => sock'[s] = "down"

\* Then its client stays where it is, or is closed.
LEMMA DeclineCloses ==
  ASSUME NEW s \in Ids, Declines(s)
  PROVE  Stage(s)' \in {Stage(s), "closed"}
  BY DEF Declines, Stage

\* A step that only lets go of sessions is a Close of their clients, or nothing.
LEMMA DeclineImplementsClose ==
  ASSUME TypeOK, ClientInv, ClientInv', UNCHANGED <<peer, arrived, waiting>>,
         \A s \in Ids : peer[s] # None => Declines(s)
  PROVE  [Service!Next]_([c \in Clients |-> ClientAt(c)])
  <1> DEFINE C == {c \in Clients : ClientAt(c)' # ClientAt(c)}
  <1>1. ASSUME NEW c \in C
        PROVE  ClientAt(c) \in {"taken", "served"} /\ ClientAt(c)' = "closed"
    <2>1. PICK s \in Ids : peer[s] = c /\ Stage(s)' # Stage(s)
      BY <1>1, ClientStays
    <2>2. c # None /\ Stage(s)' \in {Stage(s), "closed"}
      BY <1>1, <2>1, ListenerAssumption, DeclineCloses
    <2>3. ClientAt(c) = Stage(s) /\ ClientAt(c)' = Stage(s)'
      BY <2>1, <2>2, ClientAtSession, ClientAtSessionNext
    <2>4. Stage(s) \in {"taken", "served", "closed"}
      <3>1. peer[s] # None
        BY <2>1, <2>2
      <3>2. sock[s] # "stuck"
        BY <2>1, <3>1 DEF Stage, Declines
      <3> QED  BY <3>2 DEF Stage
    <2> QED  BY <2>1, <2>2, <2>3, <2>4
  <1>2. \A c \in Clients \ C : ClientAt(c)' = ClientAt(c)
    OBVIOUS
  <1>3. C \in SUBSET Clients
    OBVIOUS
  <1> HIDE DEF C
  <1>4. CASE C = {}
    BY <1>2, <1>4
  <1>5. CASE C # {}
    <2>1. Service!Close(C)
      BY <1>1, <1>2, <1>3, <1>5 DEF Service!Close
    <2> QED  BY <1>3, <2>1 DEF Service!Next
  <1> QED  BY <1>4, <1>5

\* A session in somebody's hands is held by its event.
LEMMA HandlerHolds ==
  ASSUME TypeOK, NEW t \in Threads, ev[t] \in Events
  PROVE  Alive(At(t))
  BY DEF Alive, Held, At

\* A connected session is held.
LEMMA ConnectedIsAlive ==
  ASSUME TypeOK, PoolInv, HeldInv, NEW s \in connected
  PROVE  Alive(s)
  <1>1. CASE s \in sessions
    BY <1>1 DEF Alive, Held
  <1>2. ASSUME NEW t \in Threads, pc[t] = "add", At(t) = s PROVE Alive(s)
    <2>1. ev[t] \in Events
      BY <1>2 DEF TypeOK, PoolInv, Handling
    <2> QED  BY <1>2, <2>1, HandlerHolds
  <1> QED  BY <1>1, <1>2 DEF HeldInv

\* No step of a worker or of main brings a session back to life, but for the one it
\* creates, and only ProcessConnect connects one.
LEMMA StepDeclines ==
  ASSUME IInv, NEW t \in Threads,
         RegisterAccept(t) \/ CheckAccepted(t) \/ AddSession(t) \/ OnConnected(t) \/ RegisterRecv(t),
         NEW s \in Ids, s # made' \/ made' = made
  PROVE  Declines(s)
  <1> USE DEF Declines, threads, pool, life, table, outside
  <1>0. TypeOK /\ PoolInv /\ MadeInv /\ made \in Int
    BY ListenerAssumption DEF IInv, TypeOK
  <1>1. UNCHANGED <<sock, connected>>
    BY DEF RegisterAccept, CreateSession, AcceptEx, Return, CheckAccepted, AddSession,
           OnConnected, RegisterRecv
  <1>2. Alive(s)' => Alive(s)
    <2>1. CASE CreateSession(t)
      <3>1. \A e \in Events : session'[e] = s => session[e] = s
        <4>1. CASE made' = made + 1 /\ session' = [session EXCEPT ![ev[t]] = made + 1]
          BY <1>0, <4>1 DEF TypeOK, Ids
        <4>2. CASE session' = [session EXCEPT ![ev[t]] = 0]
          BY <1>0, <4>2 DEF TypeOK, Ids
        <4> QED  BY <2>1, <4>1, <4>2 DEF CreateSession
      <3>2. \A u \in Threads : s \in held'[u] => s \in held[u]
        <4>1. CASE made' = made + 1 /\ held' = [held EXCEPT ![t] = @ \cup {made + 1}]
          BY <1>0, <4>1 DEF TypeOK, Ids
        <4> QED  BY <2>1, <4>1 DEF CreateSession
      <3>3. UNCHANGED <<sessions, busy>>
        BY <2>1 DEF CreateSession
      <3> QED  BY <3>1, <3>2, <3>3 DEF Alive, Held
    <2>2. CASE AcceptEx(t) \/ CheckAccepted(t) \/ OnConnected(t)
      BY <2>2 DEF AcceptEx, CheckAccepted, OnConnected, Alive, Held
    <2>3. CASE Return(t)
      <3>1. UNCHANGED <<session, sessions, busy>> /\ \A u \in Threads : held'[u] \subseteq held[u]
        BY <1>0, <2>3 DEF Return, TypeOK
      <3> QED  BY <3>1 DEF Alive, Held
    <2>4. CASE AddSession(t) \/ RegisterRecv(t)
      <3>1. UNCHANGED <<session, held>> /\ sessions' \cup busy' \subseteq sessions \cup busy \cup {At(t)}
        BY <2>4 DEF AddSession, RegisterRecv
      <3>2. Alive(At(t))
        BY <1>0, <2>4, HandlerHolds DEF AddSession, RegisterRecv, PoolInv, TypeOK, Handling
      <3> QED  BY <3>1, <3>2 DEF Alive, Held
    <2> QED  BY <2>1, <2>2, <2>3, <2>4 DEF RegisterAccept
  <1> QED  BY <1>1, <1>2

\* A worker that dequeues an accept holds what its event held.
LEMMA DispatchDeclines ==
  ASSUME IInv, NEW t \in Workers, NEW e \in Events, Dispatch(t, e), NEW s \in Ids
  PROVE  Declines(s)
  <1> USE DEF Declines, threads, pool, life, table, outside
  <1>1. UNCHANGED <<sock, connected, session, sessions, busy>>
    BY DEF Dispatch
  <1>2. \A u \in Threads : s \in held'[u] => s \in held[u] \/ session[e] = s
    BY DEF IInv, TypeOK, Dispatch
  <1> QED  BY <1>1, <1>2 DEF Alive, Held

\* The end of a connected session lets go of it, step by step, unless its DisconnectEx
\* is refused.
LEMMA EndDeclines ==
  ASSUME IInv, HeldInv, NEW u \in Ids,
         Disconnect(u) \/ ReleaseSession(u) \/ LastCompletion(u),
         sock'[u] = "stuck" => sock[u] = "stuck",
         NEW s \in Ids
  PROVE  Declines(s)
  <1> USE DEF Declines, threads, pool, life, table, outside
  <1>0. TypeOK /\ PoolInv /\ TableInv
    BY DEF IInv
  <1>1. CASE Disconnect(u)
    <2>1. Alive(u)
      BY <1>0, <1>1, ConnectedIsAlive DEF Disconnect, Announced
    <2>2. UNCHANGED <<session, held, sessions>> /\ busy' = busy \cup {u}
      BY <1>1 DEF Disconnect
    <2>3. Alive(s)' => Alive(s)
      BY <2>1, <2>2 DEF Alive, Held
    <2>4. sock[u] = "open" /\ connected' = connected \ {u}
      BY <1>0, <1>1 DEF Disconnect, Announced, TableInv
    <2>5. sock'[u] = "down" /\ \A i \in Ids : i # u => sock'[i] = sock[i]
      BY <1>0, <1>1, <2>4 DEF Disconnect, TypeOK
    <2> QED  BY <2>3, <2>4, <2>5
  <1>2. CASE ReleaseSession(u) \/ LastCompletion(u)
    BY <1>2 DEF ReleaseSession, LastCompletion, Alive, Held
  <1> QED  BY <1>1, <1>2

\* A refused DisconnectEx abandons the client of the session.
LEMMA RefusedImplementsAbandon ==
  ASSUME IInv, ClientInv, ClientInv', HeldInv, NEW n \in Ids, Disconnect(n),
         sock'[n] = "stuck"
  PROVE  \E c \in Clients : Service!Abandon(c)
  <1> USE DEF threads, pool, life, table, outside
  <1>0. TypeOK /\ PoolInv /\ TableInv
    BY DEF IInv
  <1>1. n \in connected /\ sock[n] = "open" /\ peer[n] # None
    BY <1>0 DEF Disconnect, Announced, TableInv, ConnectedHasClient
  <1>c. PICK c \in Clients : c = peer[n]
    BY <1>0, <1>1 DEF TypeOK
  <1>2. /\ UNCHANGED <<peer, session, held, sessions, arrived, waiting>>
        /\ connected' = connected \ {n} /\ busy' = busy \cup {n}
        /\ \A s \in Ids : s # n => sock'[s] = sock[s]
    BY <1>0 DEF Disconnect, TypeOK
  <1>3. Alive(n)
    BY <1>0, <1>1, ConnectedIsAlive
  <1>4. \A s \in Ids : s # n => (Alive(s)' <=> Alive(s))
    BY <1>2 DEF Alive, Held
  <1>5. Stage(n) = "served" /\ Stage(n)' = "abandoned"
    BY <1>1, <1>3 DEF Stage
  <1>6. \A s \in Ids : s # n => Stage(s)' = Stage(s)
    BY <1>2, <1>4 DEF Stage
  <1>7. c # None /\ peer[n] = c /\ peer'[n] = c
    BY <1>2, <1>c, ListenerAssumption
  <1>8. ClientAt(c) = "served" /\ ClientAt(c)' = "abandoned"
    BY <1>5, <1>7, ClientAtSession, ClientAtSessionNext
  <1>9. ASSUME NEW d \in Clients, d # c PROVE ClientAt(d)' = ClientAt(d)
    <2>1. \A s \in Ids : peer[s] = d => peer'[s] = d /\ Stage(s)' = Stage(s)
      BY <1>2, <1>6, <1>7, <1>9
    <2> QED  BY <1>0, <1>2, <2>1, ClientStays
  <1> QED  BY <1>8, <1>9 DEF Service!Abandon, Service!Move

\* ProcessConnect serves the client of the session at hand, which the event holds.
LEMMA ConnectImplementsServe ==
  ASSUME IInv, ClientInv, ClientInv', NEW t \in Threads, ProcessConnect(t)
  PROVE  \E c \in Clients : Service!Serve(c)
  <1> USE DEF threads, pool, life, table, outside
  <1>0. TypeOK /\ PoolInv /\ HolderInv
    BY DEF IInv
  <1>a. At(t) \in Ids /\ peer[At(t)] \in Clients
    BY <1>0 DEF ProcessConnect, HolderInv, Unknown, TypeOK
  <1>b. PICK n \in Ids : n = At(t)
    BY <1>a
  <1>c. PICK c \in Clients : c = peer[n]
    BY <1>a, <1>b
  <1>1. c # None /\ n \notin connected /\ sock[n] \in {"fresh", "open"} /\ ev[t] \in Events
    BY <1>0, <1>b, ListenerAssumption
    DEF ProcessConnect, HolderInv, PoolInv, Unknown, TypeOK, Handling
  <1>2. /\ UNCHANGED <<sock, peer, session, held, sessions, busy, arrived, waiting>>
        /\ connected' = connected \cup {n}
    BY <1>b DEF ProcessConnect
  <1>3. Alive(n)
    BY <1>0, <1>1, <1>b, HandlerHolds
  <1>4. \A s \in Ids : Alive(s)' <=> Alive(s)
    BY <1>2 DEF Alive, Held
  <1>5. Stage(n) = "taken" /\ Stage(n)' = "served"
    BY <1>1, <1>2, <1>3, <1>4 DEF Stage
  <1>6. \A s \in Ids : s # n => Stage(s)' = Stage(s)
    BY <1>2, <1>4 DEF Stage
  <1>7. peer[n] = c /\ peer'[n] = c
    BY <1>2, <1>c
  <1>8. ClientAt(c) = "taken" /\ ClientAt(c)' = "served"
    BY <1>1, <1>5, <1>7, ClientAtSession, ClientAtSessionNext
  <1>9. ASSUME NEW d \in Clients, d # c PROVE ClientAt(d)' = ClientAt(d)
    <2>1. \A s \in Ids : peer[s] = d => peer'[s] = d /\ Stage(s)' = Stage(s)
      BY <1>2, <1>6, <1>7, <1>9
    <2> QED  BY <1>0, <1>2, <2>1, ClientStays
  <1> QED  BY <1>1, <1>8, <1>9 DEF Service!Serve, Service!Move

\* The kernel's accept takes a client from the backlog, for a session nobody else had.
LEMMA AcceptImplementsTake ==
  ASSUME IInv, ClientInv, ClientInv', NEW e \in Events, NEW c \in Clients, CompleteAccept(e, c)
  PROVE  Service!Take(c)
  <1> USE DEF threads, pool, life, table, outside
  <1>0. TypeOK /\ HolderInv
    BY DEF IInv
  <1>n. PICK n \in Ids : n = session[e]
    BY <1>0 DEF CompleteAccept, HolderInv, NeverUsed, Unknown
  <1>1. n \notin connected /\ peer[n] = None
    BY <1>0, <1>n DEF CompleteAccept, HolderInv, NeverUsed, Unknown, ClientInv
  <1>2. /\ UNCHANGED <<session, held, sessions, busy, connected, arrived>>
        /\ c \in waiting /\ waiting' = waiting \ {c} /\ c \in arrived
        /\ peer' = [peer EXCEPT ![n] = c] /\ sock' = [sock EXCEPT ![n] = "open"]
    BY <1>0, <1>n DEF CompleteAccept, TypeOK
  <1>3. Alive(n)
    BY <1>n DEF Alive, Held
  <1>4. \A s \in Ids : Alive(s)' <=> Alive(s)
    BY <1>2 DEF Alive, Held
  <1>5. c # None
    BY ListenerAssumption
  <1>6. Stage(n)' = "taken" /\ peer'[n] = c
    BY <1>0, <1>1, <1>2, <1>3, <1>4 DEF Stage, TypeOK
  <1>7. ClientAt(c) = "waiting" /\ ClientAt(c)' = "taken"
    <2>1. ClientAt(c)' = "taken"
      BY <1>1, <1>5, <1>6, ClientAtSessionNext
    <2> QED  BY <1>2, <2>1 DEF ClientAt
  <1>8. ASSUME NEW d \in Clients, d # c PROVE ClientAt(d)' = ClientAt(d)
    <2>1. \A s \in Ids : s # n => peer'[s] = peer[s] /\ sock'[s] = sock[s]
      BY <1>0, <1>1, <1>2 DEF TypeOK
    <2>2. d # None
      BY ListenerAssumption
    <2>3. \A s \in Ids : peer[s] = d => peer'[s] = d /\ Stage(s)' = Stage(s)
      BY <1>1, <1>2, <1>4, <2>1, <2>2 DEF Stage
    <2> QED  BY <1>0, <1>2, <1>8, <2>3, ClientStays
  <1> QED  BY <1>7, <1>8 DEF Service!Take, Service!Move

\* A client that connects waits in the backlog.
LEMMA ArriveImplementsArrive ==
  ASSUME IInv, ClientInv, ClientInv', NEW c \in Clients, Arrive(c)
  PROVE  Service!Arrive(c)
  <1> USE DEF threads, pool, life, table, outside
  <1>1. /\ UNCHANGED <<session, held, sessions, busy, connected, peer, sock>>
        /\ c \notin arrived /\ arrived' = arrived \cup {c} /\ waiting' = waiting \cup {c}
    BY DEF Arrive
  <1>2. \A s \in Ids : Stage(s)' = Stage(s)
    BY <1>1 DEF Stage, Alive, Held
  <1>3. ClientAt(c) = "away" /\ ClientAt(c)' = "waiting"
    BY <1>1 DEF ClientAt
  <1>4. ASSUME NEW d \in Clients, d # c PROVE ClientAt(d)' = ClientAt(d)
    BY <1>1, <1>2, <1>4, ClientStays DEF IInv
  <1> QED  BY <1>3, <1>4 DEF Service!Arrive, Service!Move

\* Every step of the listener is a step of AcceptService, or none.
LEMMA StepImplementsService ==
  ASSUME IInv, ClientInv, HeldInv, [Next]_vars
  PROVE  [Service!Next]_([c \in Clients |-> ClientAt(c)])
  <1> USE DEF threads, pool, life, table, outside
  <1>0. TypeOK /\ ClientInv'
    BY ClientStep DEF IInv
  <1>1. ASSUME UNCHANGED <<peer, arrived, waiting>>, \A s \in Ids : peer[s] # None => Declines(s)
        PROVE  [Service!Next]_([c \in Clients |-> ClientAt(c)])
    BY <1>0, <1>1, DeclineImplementsClose
  <1>2. ASSUME NEW t \in Threads,
               \/ RegisterAccept(t) \/ CheckAccepted(t) \/ AddSession(t)
               \/ OnConnected(t) \/ RegisterRecv(t)
        PROVE  UNCHANGED <<peer, arrived, waiting>> /\ \A s \in Ids : peer[s] # None => Declines(s)
    <2>1. UNCHANGED <<peer, arrived, waiting>>
      BY <1>2
      DEF RegisterAccept, CreateSession, AcceptEx, Return, CheckAccepted, AddSession,
          OnConnected, RegisterRecv
    <2>2. \A s \in Ids : peer[s] # None => s # made' \/ made' = made
      <3>1. made \in Int /\ \A s \in Ids : s \in Int /\ (s > made => peer[s] = None)
        BY ListenerAssumption DEF IInv, TypeOK, MadeInv, Ids
      <3>2. made' \in {made, made + 1}
        BY <1>2
        DEF RegisterAccept, CreateSession, AcceptEx, Return, CheckAccepted, AddSession,
            OnConnected, RegisterRecv
      <3> QED  BY <3>1, <3>2
    <2> QED  BY <1>2, <2>1, <2>2, StepDeclines
  <1>3. ASSUME NEW t \in Workers, NEW e \in Events, Dispatch(t, e)
        PROVE  UNCHANGED <<peer, arrived, waiting>> /\ \A s \in Ids : Declines(s)
    BY <1>3, DispatchDeclines DEF Dispatch
  <1>4. ASSUME NEW u \in Ids, Disconnect(u) \/ ReleaseSession(u) \/ LastCompletion(u),
               sock'[u] = "stuck" => sock[u] = "stuck"
        PROVE  UNCHANGED <<peer, arrived, waiting>> /\ \A s \in Ids : Declines(s)
    BY <1>4, EndDeclines DEF Disconnect, ReleaseSession, LastCompletion
  <1>9. ASSUME NEW u \in Ids, Disconnect(u) \/ ReleaseSession(u) \/ LastCompletion(u)
        PROVE  [Service!Next]_([c \in Clients |-> ClientAt(c)])
    <2>1. CASE Disconnect(u) /\ sock'[u] = "stuck"
      BY <1>0, <2>1, RefusedImplementsAbandon DEF Service!Next
    <2>2. CASE sock'[u] = "stuck" => sock[u] = "stuck"
      BY <1>1, <1>4, <1>9, <2>2
    <2> QED  BY <1>9, <2>1, <2>2 DEF ReleaseSession, LastCompletion
  <1>5. CASE UNCHANGED <<session, held, sock, peer, connected, sessions, busy, arrived, waiting>>
    BY <1>5, <1>1 DEF Declines, Alive, Held
  <1>6. ASSUME NEW t \in Threads, ProcessConnect(t) PROVE Service!Next
    BY <1>0, <1>6, ConnectImplementsServe DEF Service!Next
  <1>7. ASSUME NEW e \in Events, NEW c \in Clients, CompleteAccept(e, c) PROVE Service!Next
    BY <1>0, <1>7, AcceptImplementsTake DEF Service!Next
  <1>8. ASSUME NEW c \in Clients, Arrive(c) PROVE Service!Next
    BY <1>0, <1>8, ArriveImplementsArrive DEF Service!Next
  <1> QED
    BY <1>1, <1>2, <1>3, <1>5, <1>6, <1>7, <1>8, <1>9
    DEF Next, Startup, StartAccept, NewAcceptEvent, Launch, Step, ProcessAccept, Dequeue,
        SessionEnds, Reclaim, Kernel, CompleteWithError, AtRest, Crashed, vars

\* Whatever the events, the workers and the kernel do, a client sees AcceptService: it
\* goes from the backlog to one session of its own, is served or closed, and who was
\* closed, or abandoned when DisconnectEx was refused, is never served again.
THEOREM ListenerImplementsService == Spec => ImplementsService
  <1>1. Init => Service!Init
    <2> SUFFICES ASSUME Init PROVE Service!Init
      OBVIOUS
    <2>1. \A c \in Clients : ClientAt(c) = "away"
      BY DEF Init, ClientAt
    <2> QED  BY <2>1 DEF Service!Init
  <1>2. IInv /\ ClientInv /\ HeldInv /\ [Next]_vars
          => [Service!Next]_([c \in Clients |-> ClientAt(c)])
    BY StepImplementsService
  <1> QED
    BY <1>1, <1>2, IInvariance, ServiceInvariance, PTL
    DEF Spec, Service!Spec, ImplementsService

-----------------------------------------------------------------------------
(***************************************************************************)
(* Every session the listener makes implements SessionLifetime, as Session *)
(* does.                                                                   *)
(***************************************************************************)

\* A session in the table is connected or was disconnected.
ListedInv == \A s \in sessions : s \in connected \/ Ended(s)

\* It is listed while connected; the kernel opens fresh ones only.
LEMMA ListedStep == ASSUME IInv, ListedInv, [Next]_vars PROVE ListedInv'
  <1> USE DEF threads, pool, life, table, outside
  <1>0. TypeOK /\ HolderInv
    BY DEF IInv
  <1>1. ASSUME NEW t \in Threads, AddSession(t) PROVE ListedInv'
    BY <1>0, <1>1 DEF AddSession, HolderInv, ListedInv, Ended
  <1>2. ASSUME NEW t \in Threads, ProcessConnect(t) PROVE ListedInv'
    BY <1>2 DEF ProcessConnect, ListedInv, Ended
  <1>3. ASSUME NEW s \in Ids, Disconnect(s) PROVE ListedInv'
    BY <1>0, <1>3 DEF Disconnect, ListedInv, Ended, TypeOK
  <1>4. ASSUME NEW e \in Events, NEW c \in Clients, CompleteAccept(e, c) PROVE ListedInv'
    <2>1. session[e] \notin sessions
      BY <1>0, <1>4 DEF CompleteAccept, HolderInv, NeverUsed, Unknown
    <2> QED  BY <1>0, <1>4, <2>1 DEF CompleteAccept, ListedInv, Ended, TypeOK
  <1>5. CASE UNCHANGED <<connected, sock>> /\ sessions' \subseteq sessions
    BY <1>5 DEF ListedInv, Ended
  <1> QED
    BY <1>1, <1>2, <1>3, <1>4, <1>5
    DEF Next, Startup, StartAccept, NewAcceptEvent, Launch, Step, RegisterAccept, CreateSession,
        AcceptEx, Return, ProcessAccept, CheckAccepted, OnConnected, RegisterRecv, Dequeue,
        Dispatch, SessionEnds, Reclaim, ReleaseSession, LastCompletion, Kernel,
        CompleteWithError, Arrive, AtRest, Crashed, vars

\* A step that changes neither stage nor table, and holds nothing it did not find,
\* is a Find, a LetGo or nothing: what is connected and not listed is still held.
LEMMA HoldingImplements ==
  ASSUME IInv', HeldInv', NEW s \in Ids,
         UNCHANGED <<StageOf(s), s \in sessions>>, Alive(s)' => Alive(s)
  PROVE  [Lifetime(s)!Next]_(Lifetime(s)!vars)
  <1>1. CASE Held(s) /\ ~Held(s)'
    <2>1. StageOf(s) = "connected" => s \in connected'
      BY DEF StageOf, Ended
    <2>2. ASSUME NEW t \in Threads, pc'[t] = "add", At(t)' = s PROVE FALSE
      <3>1. ev'[t] \in Events
        BY <2>2 DEF IInv, TypeOK, PoolInv, Handling
      <3> QED  BY <1>1, <2>2, <3>1 DEF Held, At
    <2>3. StageOf(s) = "connected" => s \in sessions'
      BY <2>1, <2>2 DEF HeldInv
    <2>4. Lifetime(s)!LetGo
      BY <1>1, <2>3 DEF Lifetime!LetGo
    <2> QED  BY <2>4 DEF Lifetime!Next
  <1>2. CASE ~Held(s) /\ Held(s)'
    <2>1. Lifetime(s)!Find
      BY <1>2 DEF Lifetime!Find, Alive
    <2> QED  BY <2>1 DEF Lifetime!Next
  <1>3. CASE Held(s) <=> Held(s)'
    <2>1. Held(s)' = Held(s)
      BY <1>3 DEF Held
    <2> QED  BY <2>1 DEF Lifetime!vars
  <1> QED  BY <1>1, <1>2, <1>3

\* CreateSession makes the next session, which the event and the handler hold.
LEMMA CreateImplementsMake ==
  ASSUME IInv, NEW t \in Threads, CreateSession(t), NEW s \in Ids, made' = made + 1, s = made'
  PROVE  Lifetime(s)!Make
  <1> USE DEF threads, pool, life, table, outside
  <1>0. TypeOK /\ PoolInv /\ MadeInv /\ made \in Int /\ s \in Int
    BY ListenerAssumption DEF IInv, TypeOK, Ids
  <1>1. s > made /\ ~(s > made')
    BY <1>0
  <1>2. s \notin connected /\ sock[s] = "fresh"
    BY <1>0, <1>1 DEF MadeInv
  <1>3. UNCHANGED <<connected, sock, sessions>>
    BY DEF CreateSession
  <1>4. StageOf(s) = "unmade" /\ StageOf(s)' = "made"
    BY <1>1, <1>2, <1>3 DEF StageOf, Ended
  <1>5. s \in held'[t]
    <2>1. made' # made
      BY <1>0
    <2> QED  BY <1>0, <2>1 DEF CreateSession, TypeOK
  <1> QED  BY <1>3, <1>4, <1>5 DEF Lifetime!Make, Held

\* What a handler does besides: it holds the session it has.
LEMMA StepImplementsHolding ==
  ASSUME IInv, IInv', HeldInv', NEW t \in Threads, NEW s \in Ids,
         RegisterAccept(t) \/ CheckAccepted(t) \/ OnConnected(t) \/ RegisterRecv(t),
         s # made' \/ made' = made
  PROVE  [Lifetime(s)!Next]_(Lifetime(s)!vars)
  <1> USE DEF threads, pool, life, table, outside
  <1>1. UNCHANGED <<connected, sock, sessions>> /\ made' \in {made, made + 1}
    BY DEF RegisterAccept, CreateSession, AcceptEx, Return, CheckAccepted, OnConnected, RegisterRecv
  <1>2. made \in Int /\ s \in Int
    BY ListenerAssumption DEF IInv, TypeOK, Ids
  <1>3. s > made <=> s > made'
    BY <1>1, <1>2
  <1>4. UNCHANGED <<StageOf(s), s \in sessions>>
    BY <1>1, <1>3 DEF StageOf, Ended
  <1>5. Alive(s)' => Alive(s)
    BY StepDeclines DEF Declines
  <1> QED  BY <1>4, <1>5, HoldingImplements

\* ProcessConnect connects the session at hand, ...
LEMMA ConnectImplementsConnect ==
  ASSUME IInv, NEW t \in Threads, ProcessConnect(t), NEW s \in Ids
  PROVE  [Lifetime(s)!Next]_(Lifetime(s)!vars)
  <1> USE DEF threads, pool, life, table, outside
  <1>0. TypeOK /\ PoolInv /\ MadeInv /\ HolderInv
    BY DEF IInv
  <1>1. UNCHANGED <<made, sock, sessions, session, held, busy>> /\ connected' = connected \cup {At(t)}
    BY DEF ProcessConnect
  <1>2. Held(s)' = Held(s) /\ UNCHANGED (s \in sessions)
    BY <1>1 DEF Held
  <1>3. CASE s = At(t)
    <2>1. s \notin connected /\ ~Ended(s) /\ ~(s > made)
      BY <1>0, <1>3 DEF ProcessConnect, HolderInv, Unknown, Ended, MadeInv
    <2>2. StageOf(s) = "made" /\ StageOf(s)' = "connected"
      BY <1>1, <1>3, <2>1 DEF StageOf, Ended
    <2>3. Held(s)
      BY <1>0, <1>3 DEF ProcessConnect, Held, At, TypeOK, PoolInv, Handling
    <2>4. Lifetime(s)!Connect
      BY <1>2, <2>2, <2>3 DEF Lifetime!Connect
    <2> QED  BY <2>4 DEF Lifetime!Next
  <1>4. CASE s # At(t)
    <2>1. UNCHANGED StageOf(s)
      BY <1>1, <1>4 DEF StageOf, Ended
    <2> QED  BY <1>2, <2>1 DEF Lifetime!vars
  <1> QED  BY <1>3, <1>4

\* ... and AddSession lists it.
LEMMA AddImplementsList ==
  ASSUME IInv, NEW t \in Threads, AddSession(t), NEW s \in Ids
  PROVE  [Lifetime(s)!Next]_(Lifetime(s)!vars)
  <1> USE DEF threads, pool, life, table, outside
  <1>0. TypeOK /\ PoolInv /\ MadeInv /\ HolderInv
    BY DEF IInv
  <1>1. UNCHANGED <<made, sock, connected, session, held, busy>> /\ sessions' = sessions \cup {At(t)}
    BY DEF AddSession
  <1>2. Held(s)' = Held(s) /\ UNCHANGED StageOf(s)
    BY <1>1 DEF Held, StageOf, Ended
  <1>3. CASE s = At(t)
    <2>1. s \in connected /\ ~(s > made)
      BY <1>0, <1>3 DEF AddSession, HolderInv, MadeInv
    <2>2. StageOf(s) = "connected"
      BY <2>1 DEF StageOf, Ended
    <2>3. Held(s)
      BY <1>0, <1>3 DEF AddSession, Held, At, TypeOK, PoolInv, Handling
    <2>4. Lifetime(s)!List
      BY <1>1, <1>2, <1>3, <2>2, <2>3 DEF Lifetime!List
    <2> QED  BY <2>4 DEF Lifetime!Next
  <1>4. CASE s # At(t)
    BY <1>1, <1>2, <1>4 DEF Lifetime!vars
  <1> QED  BY <1>3, <1>4

\* Disconnect comes when the session is announced, so it is listed, ...
LEMMA DisconnectImplementsDisconnect ==
  ASSUME IInv, HeldInv, NEW u \in Ids, Disconnect(u), NEW s \in Ids
  PROVE  [Lifetime(s)!Next]_(Lifetime(s)!vars)
  <1> USE DEF threads, pool, life, table, outside
  <1>0. TypeOK /\ MadeInv
    BY DEF IInv
  <1>1. /\ UNCHANGED <<made, sessions, session, held>> /\ connected' = connected \ {u}
        /\ \E end \in {"down", "stuck"} : sock' = [sock EXCEPT ![u] = end]
        /\ busy' = busy \cup {u}
    BY DEF Disconnect
  <1>2. CASE s = u
    <2>1. s \in connected /\ s \in sessions
      BY <1>2 DEF Disconnect, Announced, HeldInv
    <2>2. ~(s > made)
      BY <1>0, <2>1 DEF MadeInv
    <2>3. StageOf(s) = "connected" /\ StageOf(s)' = "closed"
      BY <1>0, <1>1, <1>2, <2>1, <2>2 DEF StageOf, Ended, TypeOK
    <2>4. Held(s)'
      BY <1>1, <1>2 DEF Held
    <2>5. Lifetime(s)!Disconnect
      BY <1>1, <2>1, <2>3, <2>4 DEF Lifetime!Disconnect
    <2> QED  BY <2>5 DEF Lifetime!Next
  <1>3. CASE s # u
    <2>1. sock'[s] = sock[s]
      BY <1>0, <1>1, <1>3 DEF TypeOK
    <2>2. UNCHANGED <<StageOf(s), s \in sessions>> /\ Held(s)' = Held(s)
      BY <1>1, <1>3, <2>1 DEF StageOf, Ended, Held
    <2> QED  BY <2>2 DEF Lifetime!vars
  <1> QED  BY <1>2, <1>3

\* ... ReleaseSession after it.
LEMMA ReleaseImplementsRelease ==
  ASSUME IInv, ListedInv, NEW u \in Ids, ReleaseSession(u), NEW s \in Ids
  PROVE  [Lifetime(s)!Next]_(Lifetime(s)!vars)
  <1> USE DEF threads, pool, life, table, outside
  <1>0. TypeOK /\ MadeInv /\ TableInv
    BY DEF IInv
  <1>1. UNCHANGED <<made, sock, connected, session, held>> /\ sessions' = sessions \ {u}
    BY DEF ReleaseSession
  <1>2. UNCHANGED StageOf(s)
    BY <1>1 DEF StageOf, Ended
  <1>3. CASE s = u
    <2>1. s \in busy /\ s \in sessions /\ s \notin connected
      BY <1>0, <1>3 DEF ReleaseSession, TableInv
    <2>2. StageOf(s) = "closed"
      BY <1>0, <2>1 DEF StageOf, Ended, MadeInv, ListedInv
    <2>3. Held(s) /\ Held(s)' \in BOOLEAN
      BY <2>1 DEF Held
    <2>4. Lifetime(s)!Release
      BY <1>1, <1>2, <1>3, <2>1, <2>2, <2>3 DEF Lifetime!Release
    <2> QED  BY <2>4 DEF Lifetime!Next
  <1>4. CASE s # u
    <2>1. s \in busy' <=> s \in busy
      BY <1>4 DEF ReleaseSession
    <2>2. UNCHANGED (s \in sessions) /\ Held(s)' = Held(s)
      BY <1>1, <1>4, <2>1 DEF Held
    <2> QED  BY <1>2, <2>2 DEF Lifetime!vars
  <1> QED  BY <1>3, <1>4

\* The kernel opens a session that nobody has connected yet.
LEMMA AcceptKeepsLifetime ==
  ASSUME IInv, NEW e \in Events, NEW c \in Clients, CompleteAccept(e, c), NEW s \in Ids
  PROVE  [Lifetime(s)!Next]_(Lifetime(s)!vars)
  <1> USE DEF threads, pool, life, table, outside
  <1>1. UNCHANGED <<made, connected, sessions, session, held, busy>>
    BY DEF CompleteAccept
  <1>2. sock[session[e]] = "fresh" /\ sock' = [sock EXCEPT ![session[e]] = "open"]
    BY DEF CompleteAccept, IInv, HolderInv, NeverUsed
  <1>3. Ended(s) <=> Ended(s)'
    BY <1>2 DEF IInv, TypeOK, Ended
  <1>4. UNCHANGED <<StageOf(s), s \in sessions>> /\ Held(s)' = Held(s)
    BY <1>1, <1>3 DEF StageOf, Ended, Held
  <1> QED  BY <1>4 DEF Lifetime!vars

\* Every step of the listener is a step in the lifetime of each session, or none.
LEMMA StepImplementsLifetime ==
  ASSUME IInv, HeldInv, ListedInv, [Next]_vars, NEW s \in Ids
  PROVE  [Lifetime(s)!Next]_(Lifetime(s)!vars)
  <1> USE DEF threads, pool, life, table, outside
  <1>0. IInv' /\ HeldInv'
    BY IStep, HeldStep
  <1>1. ASSUME NEW t \in Threads,
               RegisterAccept(t) \/ CheckAccepted(t) \/ OnConnected(t) \/ RegisterRecv(t)
        PROVE  [Lifetime(s)!Next]_(Lifetime(s)!vars)
    <2>1. CASE s # made' \/ made' = made
      BY <1>0, <1>1, <2>1, StepImplementsHolding
    <2>2. CASE s = made' /\ made' # made
      <3>1. CreateSession(t) /\ made' = made + 1
        BY <1>1, <2>2
        DEF RegisterAccept, CreateSession, AcceptEx, Return, CheckAccepted, OnConnected, RegisterRecv
      <3>2. Lifetime(s)!Make
        BY <2>2, <3>1, CreateImplementsMake
      <3> QED  BY <3>2 DEF Lifetime!Next
    <2> QED  BY <2>1, <2>2
  <1>2. ASSUME NEW t \in Workers, NEW e \in Events, Dispatch(t, e)
        PROVE  [Lifetime(s)!Next]_(Lifetime(s)!vars)
    <2>1. UNCHANGED <<StageOf(s), s \in sessions>>
      BY <1>2 DEF Dispatch, StageOf, Ended
    <2>2. Alive(s)' => Alive(s)
      BY <1>2, DispatchDeclines DEF Declines
    <2> QED  BY <1>0, <2>1, <2>2, HoldingImplements
  <1>3. ASSUME NEW u \in Ids, LastCompletion(u)
        PROVE  [Lifetime(s)!Next]_(Lifetime(s)!vars)
    <2>1. UNCHANGED <<StageOf(s), s \in sessions>>
      BY <1>3 DEF LastCompletion, StageOf, Ended
    <2>2. UNCHANGED sock
      BY <1>3 DEF LastCompletion
    <2>3. Alive(s)' => Alive(s)
      BY <1>3, <2>2, EndDeclines DEF Declines
    <2> QED  BY <1>0, <2>1, <2>3, HoldingImplements
  <1>4. CASE UNCHANGED <<made, session, held, sock, connected, sessions, busy>>
    <2>1. UNCHANGED <<StageOf(s), s \in sessions>> /\ Held(s)' = Held(s)
      BY <1>4 DEF StageOf, Ended, Held
    <2> QED  BY <2>1 DEF Lifetime!vars
  <1> QED
    BY <1>1, <1>2, <1>3, <1>4, ConnectImplementsConnect, AddImplementsList,
       DisconnectImplementsDisconnect, ReleaseImplementsRelease, AcceptKeepsLifetime
    DEF Next, Startup, StartAccept, NewAcceptEvent, Launch, Step, ProcessAccept, Dequeue,
        SessionEnds, Reclaim, Kernel, CompleteWithError, Arrive, AtRest, Crashed, vars

\* What the listener says of a session in a few steps is within what Session shows in
\* detail: both implement SessionLifetime, here for every session that is ever made.
THEOREM ListenerImplementsLifetime == Spec => ImplementsLifetime
  <1>1. Init => ListedInv /\ \A s \in Ids : Lifetime(s)!Init
    <2> SUFFICES ASSUME Init PROVE ListedInv /\ \A s \in Ids : Lifetime(s)!Init
      OBVIOUS
    <2>1. \A s \in Ids : s > made
      BY ListenerAssumption DEF Init, Ids
    <2>2. \A s \in Ids : StageOf(s) = "unmade"
      BY <2>1 DEF StageOf, Ended
    <2>3. \A s \in Ids : ~Held(s)
      BY DEF Init, Held, Ids
    <2> QED  BY <2>2, <2>3 DEF Init, ListedInv, Lifetime!Init
  <1>2. IInv /\ ListedInv /\ [Next]_vars => ListedInv'
    BY ListedStep
  <1>3. IInv /\ HeldInv /\ ListedInv /\ [Next]_vars
          => [\A s \in Ids : [Lifetime(s)!Next]_(Lifetime(s)!vars)]_vars
    BY StepImplementsLifetime
  <1> QED
    BY <1>1, <1>2, <1>3, IInvariance, ServiceInvariance, PTL DEF Spec, ImplementsLifetime

=============================================================================

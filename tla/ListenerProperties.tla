-------------------------- MODULE ListenerProperties -------------------------
(* What the listener and the service's tables promise. *)
EXTENDS Listener

\* The users of an accept event: the kernel or the queue of the port, or a thread.
Users(e) ==
  {t \in Threads : ev[t] = e} \cup (IF io[e] = "idle" THEN {} ELSE {None})

\* Every accept event that StartAccept made is in one place only: posted, completed,
\* or in the hands of one thread, on every path through RegisterAccept and
\* ProcessAccept. So a failed accept costs no event, maxSessionCnt_ accepts are
\* outstanding for ever, and session_ and the OVERLAPPED need no lock.
EventHasOneUser ==
  \A e \in acceptEvents : Cardinality(Users(e)) = 1

\* AcceptEx is given a session that is fresh: no other event has it, no client, no
\* table, no other thread. session_ is shared with nobody while the call is out.
PostedIsFresh ==
  \A e \in Events : io[e] = "posted" =>
    /\ session[e] # 0 /\ sock[session[e]] = "fresh"
    /\ session[e] \notin connected \cup sessions \cup busy
    /\ \A f \in Events \ {e} : session[f] # session[e]

\* IOCPCore::Dispatch hands on a failed completion like a good one; the checks in
\* ProcessAccept are what keeps a session without a client out of the tables.
ConnectedHasClient ==
  \A s \in connected \cup sessions : peer[s] # None

\* sessionCnt_ is the size of sessions_ whenever lock_ is free.
CountIsSize == sessionCnt = Cardinality(sessions)

\* A session is in sessions_, and counted, during one stretch of its life: AddSession
\* finds it connected and its connection open, although other workers may be at it by
\* then; it leaves only after its DisconnectEx was accepted, so that one whose
\* DisconnectEx was refused stays for ever; and once ended it is never connected nor
\* counted again, although its accept event and the handler that accepted it may still
\* hold it (AddSession and ReleaseSession, Service.cpp:26-38).
CountedOnce ==
  /\ []CountIsSize
  /\ [][ /\ \A s \in sessions' \ sessions : s \in connected /\ sock[s] = "open"
         /\ \A s \in sessions \ sessions' : sock[s] = "down"
         /\ \A s \in Ids : Ended(s) => sock'[s] = sock[s] /\ s \notin connected' ]_vars

-----------------------------------------------------------------------------

\* Where a session is in its life.
StageOf(s) ==
  IF s > made THEN "unmade"
  ELSE IF s \in connected THEN "connected"
  ELSE IF Ended(s) THEN "closed" ELSE "made"

Lifetime(s) == INSTANCE SessionLifetime WITH
  stage <- StageOf(s), listed <- s \in sessions, held <- Held(s)

\* Every session lives as Session shows in detail, a refused DisconnectEx included: it
\* is counted before it can be disconnected; Disconnect, ReleaseSession and
\* LastCompletion, which stand for its own steps, come in that order and once; and
\* neither an event nor a handler comes back to a session that all have let go of.
ImplementsLifetime ==
  /\ \A s \in Ids : Lifetime(s)!Init
  /\ [][\A s \in Ids : [Lifetime(s)!Next]_(Lifetime(s)!vars)]_vars

\* Where a client is, as it sees it.
ClientAt(c) ==
  IF c \notin arrived THEN "away"
  ELSE IF c \in waiting THEN "waiting"
  ELSE LET s == CHOOSE i \in Ids : peer[i] = c
       IN  IF sock[s] = "stuck" THEN "abandoned"
           ELSE IF sock[s] = "down" \/ ~ Alive(s) THEN "closed"
           ELSE IF s \in connected THEN "served" ELSE "taken"

Service == INSTANCE AcceptService WITH at <- [c \in Clients |-> ClientAt(c)]

\* Every client gets one session and one only, goes from the backlog to it, is served or
\* closed, and the session of a client that was closed, or that a refused DisconnectEx
\* left behind, serves nobody again.
ImplementsService == Service!Spec

\* The same with AcceptService's fairness: while AcceptEx is refused finitely often and
\* DisconnectEx never, no client waits for ever, however many connected before it, and
\* a taken client is served or closed.
ServesEveryone == Service!FairSpec

\* The memory and the socket of a session that ended are given back: its accept
\* event, the handler's frames, the table and its own events all let go of it.
EndedIsFreed == \A s \in Ids : sock[s] = "down" ~> ~ Alive(s)
=============================================================================

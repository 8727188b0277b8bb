--------------------------- MODULE GameBroadcast ---------------------------
(***************************************************************************)
(* GameSessionManager: the set of sessions every worker of the game server *)
(* inserts into, erases from and walks over.  The statement                *)
(* "scoped_lock(lock_);" of its three functions takes no lock that         *)
(* outlives the statement, so nothing excludes them from each other here.  *)
(*                                                                         *)
(* std::set<shared_ptr> is ordered by address: a session is its address.   *)
(* Two accesses that overlap, one of them an insert or an erase, and an    *)
(* iterator advanced from an erased node have no defined outcome: from     *)
(* then on broken holds and nothing is said.                               *)
(***************************************************************************)
EXTENDS Integers, Sequences, FiniteSets, Functions

CONSTANTS Sessions,  \* addresses of sessions
          Workers,   \* the threads that dispatch completions
          None,      \* no session
          MaxSent    \* bound: receives of all sessions

ASSUME BroadcastAssumption ==
  Sessions \subseteq Nat /\ None \notin Sessions /\ MaxSent \in Nat

VARIABLES listed,     \* Sessions_
          life,       \* of each session: its way through Add and Remove
          connected,  \* connected_ of each session
          armed,      \* the sessions with a receive posted
          sent,       \* of each session: the messages received from it
          inbox,      \* of each session: the messages sent to it
          doing,      \* of each worker: "idle", "insert", "erase", "walk", "next"
          subject,    \* of each worker: the session whose handler it runs
          message,    \* of each walk: its SendBuf, named by sender and number
          cursor,     \* of each worker: the session the walk is at
          stayed,     \* of each walk: those listed and connected throughout
          broken      \* an access without a defined outcome happened

vars == <<listed, life, connected, armed, sent, inbox, doing, subject,
          message, cursor, stayed, broken>>
walks == <<message, cursor, stayed>>

Init ==
  /\ listed = {} /\ connected = {} /\ armed = {}
  /\ life = [s \in Sessions |-> "new"]
  /\ sent = [s \in Sessions |-> 0]
  /\ inbox = [s \in Sessions |-> <<>>]
  /\ doing = [w \in Workers |-> "idle"]
  /\ subject = [w \in Workers |-> None]
  /\ message = [w \in Workers |-> <<>>]
  /\ cursor = [w \in Workers |-> None]
  /\ stayed = [w \in Workers |-> {}]
  /\ broken = FALSE

Modifying == \E w \in Workers : doing[w] \in {"insert", "erase"}

Walking(w) == doing[w] \in {"walk", "next"}

\* Mutant: the walk goes on with the node it is at.
FollowingOrSame(a) ==
  LET rest == {s \in listed : a <= s}
  IN IF rest = {} THEN None ELSE CHOOSE s \in rest : \A r \in rest : s <= r

\* The node the iterator goes to from address a, or end().
Following(a) ==
  LET rest == {s \in listed : a < s}
  IN IF rest = {} THEN None ELSE CHOOSE s \in rest : \A r \in rest : s <= r

-----------------------------------------------------------------------------
Idle(w) ==
  /\ doing' = [doing EXCEPT ![w] = "idle"]
  /\ subject' = [subject EXCEPT ![w] = None]

\* A worker enters insert or erase on behalf of s.
Enter(w, s, what) ==
  /\ doing[w] = "idle"
  /\ doing' = [doing EXCEPT ![w] = what]
  /\ subject' = [subject EXCEPT ![w] = s]
  /\ broken' = Modifying

\* ProcessConnect raises connected_, and OnConnected calls Add.
Add(w, s) ==
  /\ life[s] = "new"
  /\ Enter(w, s, "insert")
  /\ life' = [life EXCEPT ![s] = "adding"]
  /\ connected' = connected \cup {s}
  /\ UNCHANGED <<listed, armed, sent, inbox, walks>>

\* Sessions_.insert returns, and ProcessConnect posts the first receive.
Inserted(w) ==
  LET s == subject[w]
  IN /\ doing[w] = "insert"
     /\ listed' = listed \cup {s}
     /\ life' = [life EXCEPT ![s] = "member"]
     /\ armed' = armed \cup ({s} \cap connected)
     /\ Idle(w)
     /\ UNCHANGED <<connected, sent, inbox, walks, broken>>

\* Session::Disconnect, called by the handler of a receive or of a send that
\* ended; both are posted only for a session that is listed.
Drop(s) ==
  /\ s \in connected /\ s \in listed
  /\ connected' = connected \ {s}
  /\ stayed' = [w \in Workers |-> stayed[w] \ {s}]
  /\ UNCHANGED <<listed, life, armed, sent, inbox, doing, subject,
                 message, cursor, broken>>

\* ProcessDisconnect: OnDisconnected calls Remove, on a worker of its own.
Remove(w, s) ==
  /\ life[s] = "member" /\ s \notin connected
  /\ Enter(w, s, "erase")
  /\ life' = [life EXCEPT ![s] = "gone"]
  /\ UNCHANGED <<listed, connected, armed, sent, inbox, walks>>

Erased(w) ==
  /\ doing[w] = "erase"
  /\ listed' = listed \ {subject[w]}
  /\ Idle(w)
  /\ UNCHANGED <<life, connected, armed, sent, inbox, walks, broken>>

-----------------------------------------------------------------------------
\* Mutant: the next receive is posted before OnRecv is called.
ReceiveRearmed(w, s) ==
  /\ doing[w] = "idle" /\ s \in armed
  /\ FoldFunction(+, 0, sent) < MaxSent
  /\ sent' = [sent EXCEPT ![s] = @ + 1]
  /\ message' = [message EXCEPT ![w] = <<s, sent[s] + 1>>]
  /\ doing' = [doing EXCEPT ![w] = "walk"]
  /\ subject' = [subject EXCEPT ![w] = s]
  /\ cursor' = [cursor EXCEPT ![w] = Following(-1)]
  /\ stayed' = [stayed EXCEPT ![w] = listed \cap connected]
  /\ broken' = Modifying
  /\ UNCHANGED <<listed, life, connected, armed, inbox>>

\* A receive with data completes: OnRecv copies it and starts Broadcast.
Receive(w, s) ==
  /\ doing[w] = "idle" /\ s \in armed
  /\ FoldFunction(+, 0, sent) < MaxSent
  /\ armed' = armed \ {s}
  /\ sent' = [sent EXCEPT ![s] = @ + 1]
  /\ message' = [message EXCEPT ![w] = <<s, sent[s] + 1>>]
  /\ doing' = [doing EXCEPT ![w] = "walk"]
  /\ subject' = [subject EXCEPT ![w] = s]
  /\ cursor' = [cursor EXCEPT ![w] = Following(-1)]
  /\ stayed' = [stayed EXCEPT ![w] = listed \cap connected]
  /\ broken' = Modifying
  /\ UNCHANGED <<listed, life, connected, inbox>>

\* gamesession is a copy of the shared_ptr: Send is safe on a session that
\* was erased since, and returns early on one that is not connected.
Send(w) ==
  LET to == cursor[w]
  IN /\ doing[w] = "walk" /\ to # None
     /\ inbox' = IF to \in connected
                 THEN [inbox EXCEPT ![to] = Append(@, message[w])]
                 ELSE inbox
     /\ doing' = [doing EXCEPT ![w] = "next"]
     /\ UNCHANGED <<listed, life, connected, armed, sent, subject, walks, broken>>

Advance(w) ==
  /\ doing[w] = "next"
  /\ cursor' = [cursor EXCEPT ![w] = Following(cursor[w])]
  /\ doing' = [doing EXCEPT ![w] = "walk"]
  /\ broken' = (Modifying \/ cursor[w] \notin listed)
  /\ UNCHANGED <<listed, life, connected, armed, sent, inbox, subject,
                 message, stayed>>

\* The walk is over; ProcessRecv posts the next receive.
Done(w) ==
  /\ doing[w] = "walk" /\ cursor[w] = None
  /\ armed' = armed \cup ({subject[w]} \cap connected)
  /\ Idle(w)
  /\ message' = [message EXCEPT ![w] = <<>>]
  /\ stayed' = [stayed EXCEPT ![w] = {}]
  /\ UNCHANGED <<listed, life, connected, sent, inbox, cursor, broken>>

Next ==
  /\ ~broken
  /\ \/ \E s \in Sessions : Drop(s)
     \/ \E w \in Workers :
          \/ \E s \in Sessions : Add(w, s) \/ Remove(w, s) \/ Receive(w, s)
          \/ Inserted(w) \/ Erased(w) \/ Send(w) \/ Advance(w) \/ Done(w)

Spec == Init /\ [][Next]_vars

-----------------------------------------------------------------------------
(* Properties *)

CountOf(s, m) == Cardinality({i \in DOMAIN inbox[s] : inbox[s][i] = m})

\* Sessions that come and go between the steps of a walk neither hide a
\* session from it nor make it visit one twice: a broadcast reaches each
\* session at most once, and those that were there throughout exactly once
\* (Broadcast, GameSessionManager.cpp:22-25).
StayersGetIt ==
  ~broken =>
    \A w \in Workers : Walking(w) =>
      /\ \A s \in Sessions : CountOf(s, message[w]) <= 1
      /\ cursor[w] = None =>
           \A s \in stayed[w] : CountOf(s, message[w]) = 1

\* Every session gets the messages of one sender in the order they were
\* received, although five workers broadcast at once: the next receive of
\* the sender is posted only when its last broadcast is done
\* (ProcessRecv, Session.cpp:243-255).
SenderOrder ==
  ~broken =>
    \A s \in Sessions : \A i, j \in DOMAIN inbox[s] :
      i < j /\ inbox[s][i][1] = inbox[s][j][1] =>
        inbox[s][i][2] < inbox[s][j][2]

\* What lock_ is declared for: no access to Sessions_ while another changes
\* it, and no iterator left on an erased node (GameSessionManager.h:13).
ListIsLocked == ~broken
=============================================================================

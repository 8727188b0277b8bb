---------------------------- MODULE AcceptService ----------------------------
(***************************************************************************)
(* What the server promises a client that connects, without events,        *)
(* threads or sessions: it is taken from the backlog once, then served or  *)
(* closed. A client whose connection the server could not shut down is     *)
(* abandoned: connected, and served no more. Who is closed or abandoned    *)
(* stays so.                                                               *)
(***************************************************************************)
CONSTANT Clients

VARIABLE at    \* where each client is

Init == at = [c \in Clients |-> "away"]

Move(c, from, to) == at[c] = from /\ at' = [at EXCEPT ![c] = to]

Arrive(c) == Move(c, "away", "waiting")
Take(c)   == Move(c, "waiting", "taken")
Serve(c)  == Move(c, "taken", "served")
Abandon(c) == Move(c, "served", "abandoned")

\* A handler that returns may drop the connections of several clients.
Close(C) ==
  /\ C # {}
  /\ \A c \in C : at[c] \in {"taken", "served"}
  /\ at' = [c \in Clients |-> IF c \in C THEN "closed" ELSE at[c]]

Next ==
  \/ \E c \in Clients : Arrive(c) \/ Take(c) \/ Serve(c) \/ Abandon(c)
  \/ \E C \in SUBSET Clients : Close(C)

Spec == Init /\ [][Next]_at

\* Nobody waits for ever, and nobody is taken and then forgotten.
Fairness ==
  \A c \in Clients :
    /\ WF_at(Take(c))
    /\ WF_at(Serve(c) \/ \E C \in SUBSET Clients : c \in C /\ at[c] = "taken" /\ Close(C))

FairSpec == Spec /\ Fairness
=============================================================================

--------------------------- MODULE SessionLifetime ---------------------------
(***************************************************************************)
(* The life of one session as its reference count and the service's table  *)
(* show it: made, connected and counted once, disconnected once, released  *)
(* once, and not reached by anybody after the last reference is gone.      *)
(* Session implements it step by step; Listener, which leaves those steps  *)
(* out, implements it for every session it makes.                          *)
(***************************************************************************)
VARIABLES stage,   \* "unmade", "made", "connected", "closed"
          listed,  \* the service's table holds the session
          held     \* an event or a handler does

vars == <<stage, listed, held>>

Init ==
  /\ \/ stage = "unmade" /\ ~held
     \/ stage = "made" /\ held
  /\ ~listed

Make == stage = "unmade" /\ stage' = "made" /\ held' /\ UNCHANGED listed

Connect == stage = "made" /\ held /\ stage' = "connected" /\ UNCHANGED <<listed, held>>

List == stage = "connected" /\ held /\ listed' /\ UNCHANGED <<stage, held>>

\* Only who finds the session, or was called for it, disconnects it.
Disconnect == stage = "connected" /\ listed /\ stage' = "closed" /\ held' /\ UNCHANGED listed

Release ==
  /\ stage = "closed" /\ listed /\ held
  /\ ~listed' /\ held' \in BOOLEAN /\ UNCHANGED stage

\* A reference is copied out of a table.
Find == listed /\ held' /\ UNCHANGED <<stage, listed>>

\* The last event or handler lets go.  A connected session is in the table by then.
LetGo ==
  /\ held /\ (stage = "connected" => listed)
  /\ ~held' /\ UNCHANGED <<stage, listed>>

Next == Make \/ Connect \/ List \/ Disconnect \/ Release \/ Find \/ LetGo

Spec == Init /\ [][Next]_vars
=============================================================================

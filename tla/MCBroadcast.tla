----------------------------- MODULE MCBroadcast -----------------------------
(* Small instances of GameBroadcast. *)
EXTENDS GameBroadcast, TLC

CONSTANTS w1, w2

TwoWorkers == {w1, w2}
ThreeSessions == 1 .. 3
TwoSessions == 1 .. 2
WorkerSymmetry == Permutations(TwoWorkers)
=============================================================================

---------------------------- MODULE MCClientStart ----------------------------
(* A small instance of ClientStart. *)
EXTENDS ClientStart

CONSTANTS w1, w2

TwoWorkers == {w1, w2}
=============================================================================

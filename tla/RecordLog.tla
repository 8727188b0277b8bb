------------------------------ MODULE RecordLog ------------------------------
(***************************************************************************)
(* What the log files promise whoever reads them, however many programs    *)
(* write and roll them: a record that was accepted comes behind all those  *)
(* before it; records are given up from the oldest on, and the most recent *)
(* ones never.  RollingLog implements it.                                  *)
(***************************************************************************)
EXTENDS Integers

CONSTANT Least  \* how many of the last records are never given up

VARIABLES last,  \* the number of records accepted
          kept   \* those that can still be read

vars == <<last, kept>>

Init == last = 0 /\ kept = {}

Accept == last' = last + 1 /\ kept' = kept \cup {last'}

GiveUp ==
  /\ kept' # kept /\ kept' \subseteq kept
  /\ \A old \in kept \ kept', new \in kept' : old < new
  /\ \A n \in 1 .. last : last - n < Least => n \in kept'
  /\ UNCHANGED last

Next == Accept \/ GiveUp

Spec == Init /\ [][Next]_vars
=============================================================================

------------------------------ MODULE MCListener -----------------------------
(* Instances of Listener for TLC; the constants are given in the cfg files.  *)
EXTENDS ListenerProperties, TLC

Symmetry == Permutations(Workers) \cup Permutations(Events) \cup Permutations(Clients)
=============================================================================

---------------------------- MODULE MCRollingLog ----------------------------
(* A small instance of RollingLog with the text of its files. *)
EXTENDS LogFiles, TLC

CONSTANTS a1, a2, b1

\* A server with two workers and a client in the same directory.
ServerAndClient == {{a1, a2}, {b1}}
Letters == {"a", "\r", Quote, "lead", "trail", "null", "1", "2", "3", "4"}

\* Records of four kinds, from four threads.
FourStatements ==
  LET texts == <<<<"a", "\r">>, <<"lead", "trail">>, Null, <<Quote, "a">>>>
  IN [n \in 1 .. 4 |-> [severity |-> n + 1, tid |-> ToString(n), text |-> texts[n]]]

Workers == Permutations({a1, a2})
=============================================================================

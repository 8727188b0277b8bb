----------------------------- MODULE SendChannel -----------------------------
(***************************************************************************)
(* What Session::Send promises its callers, without threads, flags or      *)
(* events: buffers are numbered as they are accepted and reach the socket  *)
(* in that order, each at most once. Those at the front may be dropped     *)
(* together, when Winsock refuses them.                                    *)
(***************************************************************************)
EXTENDS Integers, Sequences, SequencesExt

VARIABLES
  accepted,     \* number of buffers accepted so far
  outstanding,  \* accepted, not yet handed to the socket
  sent          \* handed to the socket

chan == <<accepted, outstanding, sent>>

Init ==
  /\ accepted = 0
  /\ outstanding = <<>>
  /\ sent = <<>>

Accept ==
  /\ accepted' = accepted + 1
  /\ outstanding' = Append(outstanding, accepted + 1)
  /\ UNCHANGED sent

\* The first n outstanding buffers are handed over by one WSASend.
Transmit ==
  /\ \E n \in 1..Len(outstanding) :
       /\ sent' = sent \o SubSeq(outstanding, 1, n)
       /\ outstanding' = SubSeq(outstanding, n + 1, Len(outstanding))
  /\ UNCHANGED accepted

Drop ==
  /\ \E n \in 1..Len(outstanding) :
       outstanding' = SubSeq(outstanding, n + 1, Len(outstanding))
  /\ UNCHANGED <<accepted, sent>>

Next == Accept \/ Transmit \/ Drop

Spec == Init /\ [][Next]_chan
=============================================================================

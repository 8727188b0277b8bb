------------------------------ MODULE MCRecvBuf ------------------------------
(* Instances of RecvBuf for TLC; the constants are given in the cfg files.   *)
EXTENDS RecvBuf
=============================================================================

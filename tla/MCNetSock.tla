----------------------------- MODULE MCNetSock ------------------------------
(* Instances for TLC: two processes that compete for the path, one of them  *)
(* with a connection; as many descriptors as a process can need, so that    *)
(* each free number is taken by the next who asks; two attempts to connect. *)
EXTENDS NetSock

CONSTANTS A, B

TwoProcs == {A, B}
OneTalker == {A}
=============================================================================

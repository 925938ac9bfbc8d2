---------------------------- MODULE MCProcSignal ----------------------------
(* Instances for TLC: two signals, so that the registration of one can move *)
(* the element of the other, and two handlers to tell apart.                *)
EXTENDS ProcSignal

Two == {1, 2}
Low == 1
Handlers == {"a", "b"}
=============================================================================

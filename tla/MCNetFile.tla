----------------------------- MODULE MCNetFile ------------------------------
(* Bounds for TLC.  Two blocks are the least for which a change can fall   *)
(* between the check before a block and the read of the next one; two      *)
(* transfers the least for which one can leave something to the next.      *)
EXTENDS NetFile
=============================================================================

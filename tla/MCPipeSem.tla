----------------------------- MODULE MCPipeSem ------------------------------
(***************************************************************************)
(* Small instances of PipeSem.  A byte has 4 values and the size header 2  *)
(* bytes, the smallest in which a header has a low and a high byte.        *)
(***************************************************************************)
EXTENDS PipeSem, TLC

ShortMsgs == {<<1>>, <<3, 2>>}
(* The first one leaves room for a second write in a pipe of 5 bytes; the  *)
(* last one and its header are larger than that pipe, and it is as long as *)
(* a byte has values.                                                      *)
LongMsgs == {<< >>, <<3, 2>>, <<1, 3, 2, 1>>}
(* The last one and its header are larger than a pipe of 4 bytes. *)
OneMsgSet == {<< >>, <<1>>, <<3, 2>>, <<1, 3, 2>>}
=============================================================================

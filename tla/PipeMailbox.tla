---------------------------- MODULE PipeMailbox -----------------------------
(***************************************************************************)
(* What a semaphored pipe promises about contents: a mailbox for one       *)
(* message.  A message put into the empty box is what the next taking      *)
(* gives, unless the receiving side throws the box's content away.         *)
(***************************************************************************)
EXTENDS Sequences

CONSTANTS
  Msgs,      (* the messages                                              *)
  None       (* the empty box                                             *)

VARIABLES
  box,
  taken      (* the messages taken so far                                  *)

vars == <<box, taken>>

Init == box = None /\ taken = << >>

Put(m) == box = None /\ box' = m /\ UNCHANGED taken

Take ==
  /\ box # None
  /\ taken' = Append(taken, box)
  /\ box' = None

Discard == box # None /\ box' = None /\ UNCHANGED taken

Next == (\E m \in Msgs : Put(m)) \/ Take \/ Discard

Spec == Init /\ [][Next]_vars
=============================================================================

------------------------------ MODULE PipeTurn ------------------------------
(***************************************************************************)
(* What the lock byte of a semaphored pipe (nxs-pipesem) promises.         *)
(*                                                                         *)
(* Two processes share a pipe and a turn.  The writing process touches the *)
(* pipe only while it is its turn, the reading process only while it is    *)
(* its own, and nobody takes the turn from the other one while the other   *)
(* one is touching the pipe.  Only the reader can switch the channel on,   *)
(* and only the reader can hand an untouched turn back to the writer.      *)
(***************************************************************************)

VARIABLES
  turn,      (* "off" until the reader enables the channel, then whose turn *)
  user       (* who is touching the pipe now                                *)

vars == <<turn, user>>

TypeOK ==
  /\ turn \in {"off", "writer", "reader"}
  /\ user \in {"nobody", "writer", "reader"}

Init == turn = "off" /\ user = "nobody"

(* The writer starts touching the pipe. *)
WriterEnter ==
  /\ turn = "writer" /\ user = "nobody"
  /\ user' = "writer" /\ UNCHANGED turn

(* The writer stops: a complete message passes the turn, a failure or the  *)
(* death of the process leaves it where it was.                            *)
WriterLeave ==
  /\ user = "writer" /\ user' = "nobody"
  /\ turn' \in {turn, "reader"}

ReaderEnter ==
  /\ turn = "reader" /\ user = "nobody"
  /\ user' = "reader" /\ UNCHANGED turn

ReaderLeave ==
  /\ user = "reader" /\ user' = "nobody"
  /\ turn' \in {turn, "writer"}

(* The reader (re)enables the channel without touching the pipe. *)
Enable ==
  /\ user # "reader"
  /\ turn' = "writer" /\ UNCHANGED user

Next == WriterEnter \/ WriterLeave \/ ReaderEnter \/ ReaderLeave \/ Enable

Spec == Init /\ [][Next]_vars
=============================================================================

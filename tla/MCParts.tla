------------------------------ MODULE MCParts -------------------------------
(* Bounds for TLC.  Four addresses: with three elements one is in the      *)
(* middle of a list, or below another in a tree, and the fourth makes room *)
(* for an insertion at each place; arrays of up to three elements that     *)
(* grow by one or by two; three descriptors, so that a removal moves one   *)
(* past another; chains of three buffers of up to two characters, so that  *)
(* a move can cross a whole one; three log files and lines before and      *)
(* after a rotation and of a handler.  A byte counts to three, so that an  *)
(* owner's name of five characters is cut.                                 *)
EXTENDS Parts, TLC

MCStrings == {<< >>, <<"a">>, <<"b", "c">>}
MCWidth == [byte |-> 1, len |-> 2, size |-> 2, mode |-> 1, id |-> 1, time |-> 2]
Name(n, c) == [i \in 1 .. n |-> <<c + i, 0>>]
MCFiles ==
  {[name |-> Name(2, 10), size |-> 3, type |-> 8, mode |-> 15, uid |-> 1, gid |-> 2,
    uname |-> Name(1, 20), gname |-> Name(1, 30), atime |-> 4, mtime |-> 5, ctime |-> 6]}
MCNames == {Name(5, 40)}
MCUsers == [n \in {Name(1, 20), Name(1, 30)} |-> 7]

(* The addresses are alike, and a part that is not at work starts in one   *)
(* way.                                                                    *)
MCInit ==
  /\ Init
  /\ root = CHOOSE e \in Elems : TRUE
  /\ which # "list" => callbacks
  /\ which # "buf" => buf.len = 0 /\ buf.mem = << >> /\ other.len = 2
  /\ which # "log" => path = "" /\ mode = "REOPEN"

MCSpec == MCInit /\ [][Next]_vars
=============================================================================

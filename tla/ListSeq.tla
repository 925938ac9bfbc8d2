------------------------------ MODULE ListSeq -------------------------------
(***************************************************************************)
(* What a list of nxs-list promises its user: a sequence of elements with  *)
(* a position, which is on one of them or nowhere (0).  Every operation    *)
(* that returns an element says which.                                     *)
(***************************************************************************)
EXTENDS Integers, Sequences

CONSTANTS
  Elems,  (* the elements there can be                                     *)
  NULL    (* no element                                                    *)

VARIABLES
  seq,    (* the elements, in order                                        *)
  cur,    (* the position                                                  *)
  ret     (* the element returned by the last operation                    *)

vars == <<seq, cur, ret>>

Size == Len(seq)
InUse == {seq[i] : i \in 1 .. Size}
Fresh == Elems \ InUse
ElementAt(s, i) == IF i \in 1 .. Len(s) THEN s[i] ELSE NULL

Init == seq = << >> /\ cur = 0 /\ ret = NULL

(* e comes to stand before the element at i. *)
Insert(i, e) == seq' = SubSeq(seq, 1, i - 1) \o <<e>> \o SubSeq(seq, i, Size)
Delete(i) == seq' = SubSeq(seq, 1, i - 1) \o SubSeq(seq, i + 1, Size)

(* The position stays on its element; without one it goes to the new one. *)
AddHead(e) == Insert(1, e) /\ cur' = cur + 1 /\ ret' = e
AddTail(e) ==
  /\ Insert(Size + 1, e) /\ ret' = e
  /\ cur' = IF cur = 0 THEN Size + 1 ELSE cur

(* Beside the position, which moves to the new element *)
AddAfter(e) ==
  \/ cur = 0 /\ AddTail(e)
  \/ cur # 0 /\ Insert(cur + 1, e) /\ cur' = cur + 1 /\ ret' = e
AddBefore(e) ==
  \/ cur = 0 /\ AddHead(e)
  \/ cur # 0 /\ Insert(cur, e) /\ cur' = cur /\ ret' = e

(* What is returned is the new first, or last, element; a position on the  *)
(* element that goes moves to it.                                          *)
DelHead ==
  /\ seq # << >> /\ Delete(1) /\ ret' = ElementAt(seq, 2)
  /\ cur' = IF cur = 1 /\ Size > 1 THEN 1 ELSE IF cur = 0 THEN 0 ELSE cur - 1
DelTail ==
  /\ seq # << >> /\ Delete(Size) /\ ret' = ElementAt(seq, Size - 1)
  /\ cur' = IF cur = Size THEN Size - 1 ELSE cur

(* The element at the position goes, the position moves on or back. *)
Del(next) ==
  /\ cur # 0 /\ Delete(cur)
  /\ cur' = IF ~next THEN cur - 1 ELSE IF cur = Size THEN 0 ELSE cur
  /\ ret' = ElementAt(seq, IF next THEN cur + 1 ELSE cur - 1)

Clear == seq' = << >> /\ cur' = 0 /\ ret' = NULL

(* The position goes to an end, to an element, one on or one back. *)
Move(i) == cur' = i /\ ret' = ElementAt(seq, i) /\ UNCHANGED seq
MoveNext == cur # 0 /\ Move(IF cur = Size THEN 0 ELSE cur + 1)
MovePrev == cur # 0 /\ Move(cur - 1)
MoveEnd == Move(Size) \/ Move(IF seq = << >> THEN 0 ELSE 1)
MoveTo == \E i \in 1 .. Size : Move(i)

Look == UNCHANGED <<seq, cur>> /\ ret' \in {ElementAt(seq, i) : i \in {1, cur, Size}}

Next ==
  \/ \E e \in Fresh : AddHead(e) \/ AddTail(e) \/ AddAfter(e) \/ AddBefore(e)
  \/ DelHead \/ DelTail \/ (\E next \in BOOLEAN : Del(next)) \/ Clear
  \/ MoveNext \/ MovePrev \/ MoveEnd \/ MoveTo \/ Look

Spec == Init /\ [][Next]_vars
=============================================================================

----------------------------- MODULE TextQueue ------------------------------
(***************************************************************************)
(* What a chain of buffers promises: a text that grows at its end, loses   *)
(* read parts at its beginning, and is read from a place in it.            *)
(***************************************************************************)
EXTENDS Integers, Sequences

CONSTANTS Strings   (* what the text grows by *)

VARIABLES
  text,   (* the characters that are kept                                  *)
  place,  (* how many of them lie before the next one to read              *)
  asked,  (* what the last call was asked for, and how many                *)
  taken   (* what it has read                                              *)

vars == <<text, place, asked, taken>>

Init == text = << >> /\ place = 0 /\ taken = << >> /\ asked = <<"other", 0>>

Left == Len(text) - place
Least(m, n) == IF m < n THEN m ELSE n

Grow(s) ==
  /\ text' = text \o s /\ taken' = << >> /\ asked' = <<"other", 0>>
  /\ UNCHANGED place

(* As many characters as asked for, or all that are left; a "read" may      *)
(* forget what lies before the next one, a "get" does not.                 *)
Read(k) ==
  /\ asked'[1] \in {"get", "read"} /\ (asked'[1] = "get" => k = 0)
  /\ LET n == Least(asked'[2], Left)
     IN /\ k <= place + n
        /\ taken' = SubSeq(text, place + 1, place + n)
        /\ text' = SubSeq(text, k + 1, Len(text)) /\ place' = place + n - k

(* A whole buffer is read, its beginning before the place included. *)
ReadWhole(i, n) ==
  /\ i <= place /\ place <= i + n /\ i + n <= Len(text)
  /\ taken' = SubSeq(text, i + 1, i + n)
  /\ place' = i + n /\ asked' = <<"other", 0>> /\ UNCHANGED text

(* To another place in the text: as many characters on or back as asked    *)
(* for, or to the beginning of some buffer.                                *)
Move ==
  /\ place' \in 0 .. Len(text) - 1 /\ taken' = << >> /\ UNCHANGED text
  /\ \/ asked'[1] = "seek" /\ place' = place + asked'[2]
     \/ asked' = <<"other", 0>>

(* What lies before the place is forgotten, as far as buffers go. *)
Forget(k) ==
  /\ k <= place /\ text' = SubSeq(text, k + 1, Len(text)) /\ place' = place - k
  /\ taken' = << >> /\ asked' = <<"other", 0>>

Lose == text' = << >> /\ place' = 0 /\ taken' = << >> /\ asked' = <<"other", 0>>

Next ==
  \/ \E s \in Strings : Grow(s)
  \/ \E k \in 0 .. Len(text) : Read(k) \/ Forget(k) \/ \E n \in 1 .. Len(text) : ReadWhole(k, n)
  \/ Move \/ Lose

Spec == Init /\ [][Next]_vars
=============================================================================

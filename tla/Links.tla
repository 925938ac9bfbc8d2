-------------------------------- MODULE Links ---------------------------------
(* Elements on a heap and what their links lead to.  An element is the     *)
(* address that calloc gave it.                                            *)
EXTENDS Integers, Sequences, FiniteSets

CONSTANTS
  Elems,  (* addresses                                                     *)
  NULL

ASSUME HeapAssumption == IsFiniteSet(Elems) /\ NULL \notin Elems

Pointer == Elems \cup {NULL}

(* What is met when following a link from e *)
Followed(link, e) ==
  LET at[i \in 0 .. Cardinality(Elems)] ==
        IF i = 0 THEN e ELSE IF at[i - 1] = NULL THEN NULL ELSE link[at[i - 1]]
  IN at

(* The elements met, in order *)
Walk(link, e) ==
  LET at == Followed(link, e)
      met == {i \in 0 .. Cardinality(Elems) : at[i] # NULL}
  IN [i \in 1 .. Cardinality(met) |-> at[i - 1]]

(* The place of p in s *)
Place(s, p) ==
  LET at == {i \in 1 .. Len(s) : s[i] = p}
  IN IF at = {} THEN Len(s) + 1 ELSE CHOOSE i \in at : TRUE

(* The element of s at i, if there is one *)
At(s, i) == IF i \in 1 .. Len(s) THEN s[i] ELSE NULL

(* Each element is in s once, and the links lead from one to the next, or  *)
(* back.                                                                   *)
Once(s) == \A i, j \in 1 .. Len(s) : s[i] = s[j] => i = j
Linked(link, s) == \A i \in 1 .. Len(s) : link[s[i]] = At(s, i + 1)
LinkedBack(link, s) == \A i \in 1 .. Len(s) : link[s[i]] = At(s, i - 1)
=============================================================================

---------------------------- MODULE LinkedList ------------------------------
(***************************************************************************)
(* nxs-list: a doubly linked list with a position, as the links and        *)
(* pointers that nxs-list.c keeps.  An element is the address that calloc  *)
(* gave it; an address that was freed can be given again, to a new element.*)
(* Functions that return data return the element whose data it is.         *)
(***************************************************************************)
EXTENDS Links

VARIABLES
  live,       (* elements allocated                                        *)
  next, prev, (* the links of each element                                 *)
  data,       (* data of each: "none" allocated, "raw", or "ready" once    *)
              (* init_callback has run                                     *)
  head, tail, ptr, count,
  sized,      (* list->size is not 0: the list is initialised              *)
  callbacks,  (* it has an init_callback and a free_callback               *)
  saved,      (* what the caller keeps of nxs_list_ptr_get                 *)
  ret         (* the result of the last call                               *)

heap == <<live, next, prev, data>>
list == <<head, tail, ptr, count, sized, callbacks>>
vars == <<heap, list, saved, ret>>

Init ==
  /\ live = {} /\ data = [e \in Elems |-> "none"]
  /\ next = [e \in Elems |-> NULL] /\ prev = [e \in Elems |-> NULL]
  /\ head = NULL /\ tail = NULL /\ ptr = NULL /\ count = 0
  /\ sized = TRUE /\ callbacks \in BOOLEAN
  /\ saved = NULL /\ ret = NULL
-----------------------------------------------------------------------------
(* The list as it is read from its head *)
Forward == Walk(next, head)
Elements == {Forward[i] : i \in 1 .. Len(Forward)}
-----------------------------------------------------------------------------
(***************************************************************************)
(* Elements come and go                                                    *)
(***************************************************************************)

(* calloc of the element and its data, init_callback *)
New(e) ==
  /\ sized /\ e \in Elems \ live
  /\ live' = live \cup {e} /\ count' = count + 1
  /\ data' = [data EXCEPT ![e] = IF callbacks THEN "ready" ELSE "raw"]
  /\ ret' = e

(* free_callback, then free of the data and of the element, whose links are *)
(* forgotten                                                               *)
Drop(e) ==
  /\ live' = live \ {e} /\ count' = count - 1
  /\ data' = [data EXCEPT ![e] = IF @ = "ready" /\ ~callbacks THEN "lost" ELSE "none"]

(* The links of e, and those of its neighbours to it *)
Link(e, p, n) ==
  /\ next' = [x \in Elems |-> IF x = e THEN n ELSE IF x = p THEN e ELSE next[x]]
  /\ prev' = [x \in Elems |-> IF x = e THEN p ELSE IF x = n THEN e ELSE prev[x]]

(***************************************************************************)
(* nxs_list_add_*                                                          *)
(***************************************************************************)
AddHead(e) ==
  /\ New(e) /\ Link(e, NULL, head)
  /\ head' = e
  /\ tail' = IF tail = NULL THEN e ELSE tail
  /\ ptr' = IF ptr = NULL THEN head' ELSE ptr
  /\ UNCHANGED <<sized, callbacks, saved>>

AddTail(e) ==
  /\ New(e) /\ Link(e, tail, NULL)
  /\ tail' = e
  /\ head' = IF head = NULL THEN e ELSE head
  /\ ptr' = IF ptr = NULL THEN tail' ELSE ptr
  /\ UNCHANGED <<sized, callbacks, saved>>

(* mutant: the element after it keeps its old link back *)
AddAfterOneWay(e) ==
  \/ ptr = NULL /\ AddTail(e)
  \/ /\ ptr # NULL /\ New(e)
     /\ next' = [next EXCEPT ![ptr] = e, ![e] = next[ptr]]
     /\ prev' = [prev EXCEPT ![e] = ptr]
     /\ tail' = IF tail = ptr THEN e ELSE tail
     /\ ptr' = e
     /\ UNCHANGED <<head, sized, callbacks, saved>>

AddAfter(e) ==
  \/ ptr = NULL /\ AddTail(e)
  \/ /\ ptr # NULL /\ New(e) /\ Link(e, ptr, next[ptr])
     /\ tail' = IF tail = ptr THEN e ELSE tail
     /\ ptr' = e
     /\ UNCHANGED <<head, sized, callbacks, saved>>

(* mutant: the position does not move to the new element *)
AddBeforeStays(e) ==
  \/ ptr = NULL /\ AddHead(e)
  \/ /\ ptr # NULL /\ New(e) /\ Link(e, prev[ptr], ptr)
     /\ head' = IF head = ptr THEN e ELSE head
     /\ UNCHANGED <<ptr, tail, sized, callbacks, saved>>

AddBefore(e) ==
  \/ ptr = NULL /\ AddHead(e)
  \/ /\ ptr # NULL /\ New(e) /\ Link(e, prev[ptr], ptr)
     /\ head' = IF head = ptr THEN e ELSE head
     /\ ptr' = e
     /\ UNCHANGED <<tail, sized, callbacks, saved>>
-----------------------------------------------------------------------------
(***************************************************************************)
(* nxs_list_del_*                                                          *)
(***************************************************************************)
DelHead ==
  /\ head # NULL /\ Drop(head)
  /\ head' = next[head]
  /\ ptr' = IF ptr = head THEN head' ELSE ptr
  /\ next' = [next EXCEPT ![head] = NULL]
  /\ prev' = [x \in Elems |-> IF x = head' THEN NULL ELSE prev[x]]
  /\ tail' = IF head' = NULL THEN NULL ELSE tail
  /\ ret' = head'
  /\ UNCHANGED <<sized, callbacks, saved>>

DelTail ==
  /\ tail # NULL /\ Drop(tail)
  /\ tail' = prev[tail]
  /\ ptr' = IF ptr = tail THEN tail' ELSE ptr
  /\ next' = [x \in Elems |-> IF x = tail' THEN NULL ELSE next[x]]
  /\ prev' = [prev EXCEPT ![tail] = NULL]
  /\ head' = IF tail' = NULL THEN NULL ELSE head
  /\ ret' = tail'
  /\ UNCHANGED <<sized, callbacks, saved>>

Del(on) ==
  /\ ptr # NULL /\ Drop(ptr)
  /\ prev' = [x \in Elems |-> IF x = ptr THEN NULL
                              ELSE IF x = next[ptr] THEN prev[ptr] ELSE prev[x]]
  /\ next' = [x \in Elems |-> IF x = ptr THEN NULL
                              ELSE IF x = prev[ptr] THEN next[ptr] ELSE next[x]]
  /\ tail' = IF next[ptr] = NULL THEN prev[ptr] ELSE tail
  /\ head' = IF prev[ptr] = NULL THEN next[ptr] ELSE head
  /\ ptr' = IF on THEN next[ptr] ELSE prev[ptr]
  /\ ret' = ptr'
  /\ UNCHANGED <<sized, callbacks, saved>>
-----------------------------------------------------------------------------
(***************************************************************************)
(* nxs_list_clear, nxs_list_free, nxs_list_init                            *)
(***************************************************************************)

Empty ==
  /\ live' = live \ Elements
  /\ data' = [e \in Elems |-> IF e \notin Elements THEN data[e]
                ELSE IF data[e] = "ready" /\ ~callbacks THEN "lost" ELSE "none"]
  /\ next' = [e \in Elems |-> NULL] /\ prev' = [e \in Elems |-> NULL]
  /\ head' = NULL /\ tail' = NULL /\ ptr' = NULL /\ count' = 0 /\ ret' = NULL
  /\ UNCHANGED saved

Clear == sized /\ Empty /\ UNCHANGED <<sized, callbacks>>

(* The callbacks go only after the elements. *)
Free == Empty /\ sized' = FALSE /\ callbacks' = FALSE

(* A list is initialised again once it has been freed. *)
ListInit(with) ==
  /\ ~sized /\ sized' = TRUE /\ callbacks' = with
  /\ head' = NULL /\ tail' = NULL /\ ptr' = NULL /\ count' = 0
  /\ UNCHANGED <<heap, saved, ret>>
-----------------------------------------------------------------------------
(***************************************************************************)
(* The position, and the functions that only look                          *)
(***************************************************************************)
PtrTo(e) == ptr' = e /\ ret' = e
            /\ UNCHANGED <<heap, head, tail, count, sized, callbacks, saved>>

PtrInit == PtrTo(head) \/ PtrTo(tail)
PtrNext == ptr # NULL /\ PtrTo(next[ptr])
PtrPrev == ptr # NULL /\ PtrTo(prev[ptr])

(* The caller keeps the position and comes back to it, which is only       *)
(* allowed while that element lives.                                       *)
PtrGet == saved' = ptr /\ UNCHANGED <<heap, list, ret>>
PtrSet == saved \in live /\ PtrTo(saved)

Get == ret' \in {ptr, head, tail} /\ UNCHANGED <<heap, list, saved>>
-----------------------------------------------------------------------------
Next ==
  \/ \E e \in Elems : AddHead(e) \/ AddTail(e) \/ AddAfter(e) \/ AddBefore(e)
  \/ DelHead \/ DelTail \/ \E on \in BOOLEAN : Del(on)
  \/ Clear \/ Free \/ \E with \in BOOLEAN : ListInit(with)
  \/ PtrInit \/ PtrNext \/ PtrPrev \/ PtrGet \/ PtrSet \/ Get

Spec == Init /\ [][Next]_vars
-----------------------------------------------------------------------------
(***************************************************************************)
(* Properties                                                              *)
(***************************************************************************)

(* The types of the variables; the position is on a live element. *)
TypeOK ==
  /\ live \subseteq Elems /\ data \in [Elems -> {"none", "raw", "ready", "lost"}]
  /\ next \in [Elems -> Pointer] /\ prev \in [Elems -> Pointer]
  /\ {head, tail, ptr} \subseteq live \cup {NULL}
  /\ count \in Nat /\ sized \in BOOLEAN /\ callbacks \in BOOLEAN
  /\ saved \in Pointer /\ ret \in Pointer

(* The list read from its tail is the list read from its head, it counts   *)
(* its elements, and it can reach all it has allocated and nothing else.   *)
BothWays ==
  /\ LET back == Walk(prev, tail) IN
       /\ Len(back) = Len(Forward)
       /\ \A i \in 1 .. Len(back) : back[i] = Forward[Len(back) + 1 - i]
  /\ count = Len(Forward)
  /\ live = Elements /\ Cardinality(live) = count

(* init_callback has run once on the data of each element, and             *)
(* free_callback on the data of each element that has gone.                *)
NothingLost ==
  \A e \in Elems :
    data[e] = IF e \notin live THEN "none" ELSE IF callbacks THEN "ready" ELSE "raw"

ListWhole == TypeOK /\ BothWays /\ NothingLost

(* Links, pointers and position implement a sequence with a position. *)
Position == IF ptr = NULL THEN 0 ELSE Place(Forward, ptr)
Abstract == INSTANCE ListSeq WITH seq <- Forward, cur <- Position
SeqStep == [Abstract!Next]_(Abstract!vars)
SeqSpec == Abstract!Spec
-----------------------------------------------------------------------------
(***************************************************************************)
(* The inductive invariant: what is read from the head has each element    *)
(* once, the links lead through it both ways, and the ends are its ends.   *)
(***************************************************************************)
BothLinked ==
  /\ Forward \in Seq(Elems) /\ Once(Forward)
  /\ Linked(next, Forward) /\ LinkedBack(prev, Forward)
  /\ head = At(Forward, 1) /\ tail = At(Forward, Len(Forward))

IInv ==
  /\ TypeOK /\ BothLinked
  /\ live = Elements /\ count = Len(Forward)
  /\ NothingLost
  /\ ~sized => live = {}
=============================================================================

------------------------------- MODULE Array --------------------------------
(***************************************************************************)
(* nxs-array: elements in one block of memory that grows and never         *)
(* shrinks.  What matters of an element is what its memory holds: "zero",  *)
(* "used" once it was added (init_callback has run, or the application has *)
(* written it), "freed" after free_callback.  Clearing keeps the memory.   *)
(***************************************************************************)
EXTENDS Integers, Sequences, FiniteSetsExt

CONSTANTS
  MaxCount,  (* bound: the application adds no more elements               *)
  Steps      (* steps by which arrays grow                                 *)

VARIABLES
  el,        (* array->el, of array->nalloc elements                       *)
  elCount,   (* array->count                                               *)
  step,
  hooks,     (* it has an init_callback and a free_callback                *)
  added,     (* history: elements added since it was made or cleared       *)
  stale,     (* history: elements of before a clear, not added since       *)
  lost       (* history: an element was initialised over one in use        *)

vars == <<el, elCount, step, hooks, added, stale, lost>>

Zeros(n) == [i \in 1 .. n |-> "zero"]

(* mutant: of the new memory only the last element is zeroed *)
GrownDirty(n) ==
  [i \in 1 .. Max({n, Len(el)}) |->
     IF i \in DOMAIN el THEN el[i] ELSE IF i = n THEN "zero" ELSE "junk"]

(* The memory, for n elements if it was for fewer *)
Grown(n) == [i \in 1 .. Max({n, Len(el)}) |-> IF i \in DOMAIN el THEN el[i] ELSE "zero"]

(* nxs_array_init, with the first nalloc elements *)
Make(nalloc, by, with) ==
  /\ el' = Zeros(nalloc) /\ elCount' = 0 /\ step' = by /\ hooks' = with
  /\ added' = {} /\ stale' = {} /\ lost' = FALSE

Init ==
  /\ el = << >> /\ elCount = 0 /\ step = 0 /\ hooks = FALSE
  /\ added = {} /\ stale = {} /\ lost = FALSE

(* nxs_array_init, _init_string, _init_buf, of an array that is not in use *)
ArrayInit ==
  /\ step = 0 \/ (el = << >> /\ elCount = 0)
  /\ \E by \in Steps, with \in BOOLEAN, nalloc \in {0, 2} : Make(nalloc, by, with)

(* init_callback, or the application, on the element i of the memory mem *)
Use(mem, i) ==
  /\ el' = [mem EXCEPT ![i] = "used"]
  /\ lost' = (lost \/ (hooks /\ mem[i] = "used"))
  /\ added' = added \cup {i} /\ stale' = stale \ {i}

Add ==
  /\ step # 0 /\ elCount < MaxCount
  /\ elCount' = elCount + 1
  /\ Use(Grown(IF elCount' > Len(el) THEN Len(el) + step ELSE 0), elCount')
  /\ UNCHANGED <<step, hooks>>

(* nxs_array_add_i, of an element that is not in use *)
AddI(i) ==
  /\ step # 0 /\ i \notin added
  /\ elCount' = Max({i, elCount})
  /\ Use(Grown(elCount'), i)
  /\ UNCHANGED <<step, hooks>>

(* free_callback on every element there is memory for *)
Freed == [i \in DOMAIN el |-> IF hooks /\ el[i] = "used" THEN "freed" ELSE el[i]]

Clear ==
  /\ el' = Freed /\ elCount' = 0 /\ added' = {} /\ stale' = stale \cup added
  /\ UNCHANGED <<step, hooks, lost>>

(* The callbacks go with the memory: the array is made again before it is   *)
(* used again.                                                             *)
Free ==
  /\ el' = << >> /\ elCount' = 0 /\ hooks' = FALSE /\ step' = 0
  /\ added' = {} /\ stale' = {}
  /\ lost' = (lost \/ \E i \in DOMAIN el : hooks /\ Freed[i] = "used")

Next ==
  \/ ArrayInit \/ Add \/ (\E i \in 1 .. MaxCount : AddI(i)) \/ Clear \/ Free

Spec == Init /\ [][Next]_vars
-----------------------------------------------------------------------------
(* Elements that were added are in use and no others.  The comment before   *)
(* nxs_array_add_i (214-218) has the memory of new elements zeroed: so are  *)
(* those it jumps over, except exactly the ones that a clear has left      *)
(* behind, which free_callback freed or, without it, nobody has changed.   *)
(* What init_callback has made is freed before anything takes its place.   *)
MemoryRight ==
  /\ elCount <= Len(el) /\ added \subseteq 1 .. elCount /\ ~lost
  /\ \A i \in 1 .. Len(el) :
       el[i] = IF i \in added \/ (i \in stale /\ ~hooks) THEN "used"
               ELSE IF i \in stale THEN "freed" ELSE "zero"
=============================================================================

------------------------------- MODULE Stack --------------------------------
(***************************************************************************)
(* nxs-stack: elements linked from the top down.  nxs_stack_pull takes the *)
(* top away and returns the data of the element below it.  The stack       *)
(* implements the sequence of ListSeq whose position stays at the bottom.  *)
(***************************************************************************)
EXTENDS Links

VARIABLES
  top,      (* stack->head                                                 *)
  under,    (* under[e]: el->next                                          *)
  onStack,  (* elements allocated                                          *)
  height,   (* stack->count                                                *)
  pulled    (* the element whose data the last call returned               *)

vars == <<top, under, onStack, height, pulled>>

Init == top = NULL /\ under = [e \in Elems |-> NULL] /\ onStack = {}
        /\ height = 0 /\ pulled = NULL

Push(e) ==
  /\ e \in Elems \ onStack /\ onStack' = onStack \cup {e}
  /\ under' = [under EXCEPT ![e] = top]
  /\ top' = e /\ pulled' = e /\ height' = height + 1

Pull ==
  /\ top # NULL /\ onStack' = onStack \ {top}
  /\ under' = [under EXCEPT ![top] = NULL]
  /\ top' = under[top] /\ pulled' = under[top] /\ height' = height - 1

(* nxs_stack_free: pulls until a pull returns nothing *)
Free ==
  /\ top' = NULL /\ pulled' = NULL
  /\ height' = height - Cardinality(onStack)
  /\ onStack' = {} /\ under' = [e \in Elems |-> NULL]

(* nxs_stack_get looks below a NULL on an empty stack, and is not called. *)
Get == top # NULL /\ pulled' = top /\ UNCHANGED <<top, under, onStack, height>>

Next == (\E e \in Elems : Push(e)) \/ Pull \/ Free \/ Get

Spec == Init /\ [][Next]_vars
-----------------------------------------------------------------------------
Downward == Walk(under, top)

(* Elements and their links implement a sequence that grows and shrinks at *)
(* its head, where a removal returns the element that is the head then.    *)
Abstract == INSTANCE ListSeq WITH seq <- Downward, cur <- Len(Downward), ret <- pulled
StackStep == [Abstract!Next]_(Abstract!vars)
StackSpec == Abstract!Spec

(* What is allocated is what the links lead to, and is counted. *)
StackWhole == onStack = {Downward[i] : i \in DOMAIN Downward} /\ height = Cardinality(onStack)
-----------------------------------------------------------------------------
(* The inductive invariant: the links lead through a sequence that has      *)
(* every element of the stack once.                                        *)
IInv ==
  /\ under \in [Elems -> Pointer]
  /\ Downward \in Seq(Elems) /\ Once(Downward) /\ Linked(under, Downward)
  /\ top = At(Downward, 1)
  /\ onStack = {Downward[i] : i \in 1 .. Len(Downward)} /\ height = Len(Downward)
=============================================================================

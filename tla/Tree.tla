------------------------------- MODULE Tree ---------------------------------
(***************************************************************************)
(* nxs-tree: elements with a pointer to the parent and an array of         *)
(* pointers to the children, a current root that operations work on and a  *)
(* current element.  Elements are addresses; an address that was freed can *)
(* be given again.  nxs_tree_del_child frees an element that the current   *)
(* element may still name: an application does not use it then (neither    *)
(* nxs_tree_chroot nor the data of the current element) until it names an  *)
(* element again.                                                          *)
(***************************************************************************)
EXTENDS Links, SequencesExt

VARIABLES
  allocated,  (* elements allocated                                        *)
  childs,     (* childs[e]: the array of its children                      *)
  parent,     (* parent[e]                                                 *)
  root, c_root, c_el,
  total,      (* tree->count                                               *)
  named,      (* history: the element that c_el was last made to name, and *)
              (* whether it has been removed since                         *)
  dataOf      (* the element whose data the last call returned             *)

vars == <<allocated, childs, parent, root, c_root, c_el, total, named, dataOf>>

Fresh == Elems \ allocated
CareOf(e) == [el |-> e, gone |-> FALSE]

(* nxs_tree_init *)
Init ==
  \E e \in Elems :
    /\ allocated = {e} /\ root = e /\ c_root = e /\ c_el = e /\ total = 1
    /\ childs = [x \in Elems |-> << >>] /\ parent = [x \in Elems |-> NULL]
    /\ named = CareOf(e) /\ dataOf = e

Point(e) == c_el' = e /\ named' = CareOf(e) /\ dataOf' = e

(* A new last child of the current root becomes the current element. *)
Add(e) ==
  /\ e \in Fresh
  /\ allocated' = allocated \cup {e} /\ total' = total + 1
  /\ childs' = [childs EXCEPT ![e] = << >>, ![c_root] = Append(@, e)]
  /\ parent' = [parent EXCEPT ![e] = c_root]
  /\ Point(e)
  /\ UNCHANGED <<root, c_root>>

(* One child less: those after it move up, or the last takes its place. *)
Without(s, i, mode) ==
  IF mode = "ORDER"
  THEN [k \in 1 .. Len(s) - 1 |-> IF k < i THEN s[k] ELSE s[k + 1]]
  ELSE [k \in 1 .. Len(s) - 1 |-> IF k = i THEN s[Len(s)] ELSE s[k]]

(* mutant: an element with children goes too *)
DelChildAny(i, mode) ==
  /\ i \in DOMAIN childs[c_root]
  /\ LET t == childs[c_root][i]
     IN /\ allocated' = allocated \ {t} /\ total' = total - 1
        /\ childs' = [childs EXCEPT ![t] = << >>, ![c_root] = Without(@, i, mode)]
        /\ parent' = [parent EXCEPT ![t] = NULL]
        /\ named' = IF named.el = t THEN [named EXCEPT !.gone = TRUE] ELSE named
  /\ UNCHANGED <<root, c_root, c_el, dataOf>>

(* An element with children is not removed, nor is an index out of bounds. *)
DelChild(i, mode) ==
  /\ i \in DOMAIN childs[c_root]
  /\ LET t == childs[c_root][i]
     IN /\ childs[t] = << >>
        /\ allocated' = allocated \ {t} /\ total' = total - 1
        /\ childs' = [childs EXCEPT ![c_root] = Without(@, i, mode)]
        /\ parent' = [parent EXCEPT ![t] = NULL]
        /\ named' = IF named.el = t THEN [named EXCEPT !.gone = TRUE] ELSE named
  /\ UNCHANGED <<root, c_root, c_el, dataOf>>

Chroot ==
  /\ ~named.gone /\ c_root' = c_el
  /\ UNCHANGED <<allocated, childs, parent, root, c_el, total, named, dataOf>>

ChrootUp ==
  /\ c_root' = IF parent[c_root] = NULL THEN c_root ELSE parent[c_root]
  /\ UNCHANGED <<allocated, childs, parent, root, c_el, total, named, dataOf>>

ElInit ==
  Point(c_root) /\ UNCHANGED <<allocated, childs, parent, root, c_root, total>>

ElSet(i) ==
  /\ i \in DOMAIN childs[c_root] /\ Point(childs[c_root][i])
  /\ UNCHANGED <<allocated, childs, parent, root, c_root, total>>

RootInit ==
  /\ c_root' = root /\ dataOf' = root
  /\ UNCHANGED <<allocated, childs, parent, root, c_el, total, named>>

(* nxs_tree_get_c_root, _get_c_root_parent, _get_c_el *)
Get ==
  /\ dataOf' \in {c_root, parent[c_root]} \cup (IF named.gone THEN {} ELSE {c_el})
  /\ UNCHANGED <<allocated, childs, parent, root, c_root, c_el, total, named>>

Next ==
  \/ \E e \in Elems : Add(e)
  \/ \E i \in 1 .. Cardinality(Elems) :
       ElSet(i) \/ \E mode \in {"ORDER", "TAIL"} : DelChild(i, mode)
  \/ Chroot \/ ChrootUp \/ ElInit \/ RootInit \/ Get

Spec == Init /\ [][Next]_vars
-----------------------------------------------------------------------------
(* The elements that lead to e along the pointers to the parent *)
Above(e) == {Followed(parent, parent[e])[i] : i \in 0 .. Cardinality(Elems)}

(* Arrays and pointers up describe one tree: every element but the root is *)
(* once in the array of its parent and below the root, all that is         *)
(* allocated is in it and counted, and nothing that was freed is.          *)
TreeWhole ==
  /\ \A e \in allocated :
       /\ ToSet(childs[e]) = {x \in allocated : parent[x] = e}
       /\ IsInjective(childs[e])
       /\ e # root => root \in Above(e)
       /\ e \notin Above(e)
  /\ parent[root] = NULL /\ {root, c_root} \subseteq allocated
  /\ total = Cardinality(allocated)

(* The current element is the one it was made to name, alive until it is   *)
(* removed; an address that is given out again is never taken for it.      *)
CurrentRight ==
  IF named.gone THEN c_el \notin allocated ELSE c_el = named.el /\ c_el \in allocated
TreeRight == TreeWhole /\ CurrentRight
-----------------------------------------------------------------------------
(***************************************************************************)
(* The inductive invariant: from each element the pointers to the parent   *)
(* lead through others, each once, to the root; and of an element that is  *)
(* gone nothing but its address is remembered.                             *)
(***************************************************************************)
Typed ==
  /\ allocated \subseteq Elems /\ {root, c_root} \subseteq allocated
  /\ childs \in [Elems -> Seq(Elems)] /\ parent \in [Elems -> Pointer]
  /\ named \in [el : Elems, gone : BOOLEAN] /\ c_el = named.el

Upward ==
  \A e \in allocated :
    LET s == Walk(parent, e)
    IN /\ s \in Seq(allocated) /\ Once(s) /\ Linked(parent, s)
       /\ e = At(s, 1) /\ root = At(s, Len(s))

Arrays ==
  \A e \in allocated :
    /\ Once(childs[e])
    /\ {childs[e][i] : i \in 1 .. Len(childs[e])} = {x \in allocated : parent[x] = e}

IInv ==
  /\ Typed /\ Upward /\ Arrays
  /\ named.gone = (c_el \notin allocated)
  /\ total = Cardinality(allocated)
=============================================================================

--------------------------- MODULE MessageStream ----------------------------
(***************************************************************************)
(* What a connection of nxs-net promises about contents: in each direction *)
(* the messages come in the order in which their sending began, each whole *)
(* and at most once.  A message is a sequence of buffers; a receiver that  *)
(* asks for a string keeps the last buffer of it.                          *)
(***************************************************************************)
EXTENDS Integers, Sequences

CONSTANTS Peers

VARIABLES
  begun,     (* begun[p]: the messages whose sending p has begun           *)
  got        (* got[p]: the messages p has received                        *)

vars == <<begun, got>>

Init == begun = [p \in Peers |-> << >>] /\ got = [p \in Peers |-> << >>]

(* p begins to send: one message, or several that are not told apart *)
Begin(p, ms) ==
  /\ begun' = [begun EXCEPT ![p] = @ \o ms]
  /\ UNCHANGED got

LastOnly(m) == <<m[Len(m)]>>

Take(p, q) ==
  LET next == Len(got[p]) + 1
  IN /\ next <= Len(begun[q])
     /\ got' \in {[got EXCEPT ![p] = Append(@, m)] :
                    m \in {begun[q][next], LastOnly(begun[q][next])}}
     /\ UNCHANGED begun

TakeSeveral(p, q) ==
  /\ \E n \in Len(got[p]) + 1 .. Len(begun[q]) :
       got' = [got EXCEPT ![p] = @ \o SubSeq(begun[q], Len(@) + 1, n)]
  /\ UNCHANGED begun

Next ==
  \/ \E p \in Peers : Begin(p, SubSeq(begun'[p], Len(begun[p]) + 1, Len(begun'[p])))
  \/ \E p \in Peers : \E q \in Peers \ {p} : Take(p, q) \/ TakeSeveral(p, q)

Spec == Init /\ [][Next]_vars
=============================================================================

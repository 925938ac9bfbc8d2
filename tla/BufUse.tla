------------------------------- MODULE BufUse -------------------------------
(***************************************************************************)
(* A buffer in use, call by call, beside what its user knows of it: the    *)
(* bytes written so far, in which a byte may be unknown ("any") because    *)
(* the user jumped over it or only set the length.                         *)
(***************************************************************************)
EXTENDS Buf

CONSTANTS
  Strings,   (* what is written into the buffer                            *)
  MaxLen     (* bound: the buffer is not made longer                       *)

VARIABLES
  buf,       (* the buffer                                                 *)
  other,     (* a second one, filled before, to clone and to compare with  *)
  known,     (* history: the bytes the user knows of                       *)
  answer     (* what the last call returned                                *)

vars == <<buf, other, known, answer>>

Init ==
  /\ \/ buf = None /\ known = << >>
     \/ \E s \in Strings : buf = OfString(s) /\ known = s
  /\ \E s \in Strings : other = OfString(s)
  /\ answer = << >>

Over(s, off, d) ==
  [i \in 1 .. IF d = << >> THEN Len(s) ELSE Max({Len(s), off + Len(d)}) |->
     IF i - off \in DOMAIN d THEN d[i - off] ELSE IF i <= Len(s) THEN s[i] ELSE "any"]
Cut(s, n) == [i \in 1 .. n |-> IF i <= Len(s) THEN s[i] ELSE "any"]

Becomes(b, s) == buf' = b /\ known' = s /\ answer' = << >> /\ UNCHANGED other

Write ==
  \E d \in Strings, off \in 0 .. MaxLen :
    /\ off + Len(d) <= MaxLen
    /\ \/ Becomes(Cpy(buf, off, d), Over(known, off, d))
       \/ /\ off = buf.len
          /\ Becomes(Cat(buf, d), known \o d)
       \/ /\ off + Len(d) <= Size(buf)
          /\ Becomes(PutStatic(buf, off, d), Over(known, off, d))
       \/ off + Len(d) > Size(buf) /\ Becomes(PutStatic(buf, off, d), known)

WriteChar ==
  /\ buf.len < MaxLen
  /\ \E d \in Strings : d # << >> /\ Becomes(AddChar(buf, d[1]), Append(known, d[1]))

Fill ==
  \E s \in Strings :
    /\ Max({Len(s), buf.len}) < MaxLen
    /\ Becomes(FillStr(buf, s), Append(Over(known, 0, s), Zero))

CloneIt == Becomes(Clone(buf, other), Content(other))
ResizeIt == \E n \in 0 .. MaxLen : Becomes(Resize(buf, n), Cut(known, Min({n, Len(known)})))
SetLenIt == \E n \in 0 .. MaxLen : n <= Size(buf) /\ Becomes(SetLen(buf, n), Cut(known, n))
Empty == Becomes(Clear(buf), << >>) \/ Becomes(Free(buf), << >>)

(* nxs_buf_get_mem, _to_string, and what nxs_buf_cmp and _ncmp find alike *)
Read ==
  /\ \/ \E off, n \in 0 .. MaxLen : answer' = GetMem(buf, off, n)
     \/ \E off \in 0 .. buf.len - 1 : answer' = AsString(buf, off)
     \/ \E off \in 0 .. MaxLen :
          Same(buf, 0, other, off) /\ answer' = GetMem(other, off, buf.len)
     \/ \E off, n \in 0 .. MaxLen :
          SameN(buf, off, other, 0, n) /\ answer' = GetMem(other, 0, n)
  /\ UNCHANGED <<buf, other, known>>

Next == Write \/ WriteChar \/ Fill \/ CloneIt \/ ResizeIt \/ SetLenIt \/ Empty \/ Read

Spec == Init /\ [][Next]_vars
-----------------------------------------------------------------------------
(* The buffer holds what its user wrote, at the places where it was        *)
(* written, however often its memory was moved and cut; the length is in   *)
(* the memory; and what is read from it is part of what was written.       *)
MemoryRight ==
  /\ buf.len = Len(known) /\ buf.len <= Size(buf)
  /\ \A i \in DOMAIN known : known[i] # "any" => buf.mem[i] = known[i]
  /\ \E i \in DOMAIN known \cup {0} : \A k \in DOMAIN answer :
       i + k <= Len(known) /\ known[i + k] \in {"any", answer[k]}
=============================================================================

------------------------------- MODULE Parts --------------------------------
(***************************************************************************)
(* The parts of the library that one process keeps, side by side, one of   *)
(* them at work in a behaviour: they share no state.                       *)
(***************************************************************************)
EXTENDS Links

CONSTANTS
  Fds, Events,               (* of a poll                                  *)
  MaxCount, Steps,           (* of an array                                *)
  Chars,                     (* that buffers are written with              *)
  Strings, MaxLen, MaxBufs,  (* of a buffer and of a chain of buffers      *)
  Junk, Zero,                (* what nobody has written; the byte 0        *)
  Paths, MaxFiles, MaxLines, (* of a log                                   *)
  Width, ByteMax, Files, Names, Users, MaxCells, MaxChanges (* of metadata *)

ASSUME PartsAssumption ==
  /\ MaxCount \in Nat /\ Steps \subseteq Nat \ {0}
  /\ MaxLen \in Nat /\ Strings \subseteq Seq(Chars)
  /\ MaxLines \in Nat

VARIABLES
  which,
  live, next, prev, data, head, tail, ptr, count, sized, callbacks, saved, ret,
  allocated, childs, parent, root, c_root, c_el, total, named, dataOf,
  top, under, onStack, height, pulled,
  el, elCount, step, hooks, added, stale, lost,
  fds, fds_ready, asked, told, behind,
  chain, block, sought, astray,
  buf, other, known, answer,
  path, mode, level, fp, tmp, pc, line, dir, content, lines, failed, inside, old, misused,
  md, cells, packed, changes

lvars == <<live, next, prev, data, head, tail, ptr, count, sized, callbacks, saved, ret>>
tvars == <<allocated, childs, parent, root, c_root, c_el, total, named, dataOf>>
svars == <<top, under, onStack, height, pulled>>
avars == <<el, elCount, step, hooks, added, stale, lost>>
pvars == <<fds, fds_ready, asked, told, behind>>
cvars == <<chain, block, sought, astray>>
bvars == <<buf, other, known, answer>>
gvars == <<path, mode, level, fp, tmp, pc, line, dir, content, lines, failed, inside, old, misused>>
mvars == <<md, cells, packed, changes>>
vars == <<which, lvars, tvars, svars, avars, pvars, cvars, bvars, gvars, mvars>>

L == INSTANCE LinkedList
T == INSTANCE Tree
S == INSTANCE Stack
A == INSTANCE Array
P == INSTANCE PollSet
C == INSTANCE BChain WITH asked <- sought
B == INSTANCE BufUse
G == INSTANCE Log WITH astray <- misused
M == INSTANCE Metadata WITH buf <- cells, Junk <- <<-1, -1>>, Zero <- <<0, 0>>

(* Every field is as wide as its kind of number, and a version is a byte;   *)
(* what lstat finds is text or numbers.                                    *)
ASSUME MetadataAssumption ==
  /\ Width \in [{"byte", "len", "size", "mode", "id", "time"} -> Nat \ {0}]
  /\ Width["byte"] = 1 /\ ByteMax \in Nat \ {0}
  /\ Names \subseteq Seq(Int \X Int)
  /\ \A file \in Files :
       /\ \A x \in M!TextFields : file[x] \in Seq(Int \X Int)
       /\ \A x \in {"size", "type", "mode"} \cup M!Owners \cup M!Times : file[x] \in Int

Init ==
  /\ which \in {"list", "tree", "stack", "array", "poll", "chain", "buf", "log", "metadata"}
  /\ L!Init /\ T!Init /\ S!Init /\ A!Init /\ P!Init /\ C!Init /\ B!Init /\ G!Init /\ M!Init

ListStep == which = "list" /\ L!Next
  /\ UNCHANGED <<which, tvars, svars, avars, pvars, cvars, bvars, gvars, mvars>>
TreeStep == which = "tree" /\ T!Next
  /\ UNCHANGED <<which, lvars, svars, avars, pvars, cvars, bvars, gvars, mvars>>
StackStep == which = "stack" /\ S!Next
  /\ UNCHANGED <<which, lvars, tvars, avars, pvars, cvars, bvars, gvars, mvars>>
ArrayStep == which = "array" /\ A!Next
  /\ UNCHANGED <<which, lvars, tvars, svars, pvars, cvars, bvars, gvars, mvars>>
PollStep == which = "poll" /\ P!Next
  /\ UNCHANGED <<which, lvars, tvars, svars, avars, cvars, bvars, gvars, mvars>>
ChainStep == which = "chain" /\ C!Next
  /\ UNCHANGED <<which, lvars, tvars, svars, avars, pvars, bvars, gvars, mvars>>
BufStep == which = "buf" /\ B!Next
  /\ UNCHANGED <<which, lvars, tvars, svars, avars, pvars, cvars, gvars, mvars>>
LogStep == which = "log" /\ G!Next
  /\ UNCHANGED <<which, lvars, tvars, svars, avars, pvars, cvars, bvars, mvars>>
MetadataStep == which = "metadata" /\ M!Next
  /\ UNCHANGED <<which, lvars, tvars, svars, avars, pvars, cvars, bvars, gvars>>
Next ==
  \/ ListStep \/ TreeStep \/ StackStep \/ ArrayStep \/ PollStep \/ ChainStep \/ BufStep
  \/ LogStep \/ MetadataStep

Spec == Init /\ [][Next]_vars

(* The list reads the same from both ends, counts and reaches all it holds, *)
(* its position is on a live element; elements and their contents are      *)
(* initialised and freed once.                                             *)
ListWhole == which = "list" => L!ListWhole

(* Links, pointers and position of a list implement a sequence with a       *)
(* position, links of a stack one that changes at its head; no element of  *)
(* the stack is leaked.                                                    *)
SeqSpec ==
  [][/\ which = "list" => L!SeqStep
     /\ which = "stack" => S!StackStep /\ S!StackWhole]_vars

(* Arrays of children and pointers to parents describe one tree, whose     *)
(* current element is never an address that was given out again.           *)
TreeRight == which = "tree" => T!TreeRight

(* Memory that grows, is moved, cleared and used again holds what was put   *)
(* there: the elements of an array, the bytes of a buffer.                 *)
MemoryRight ==
  /\ which = "array" => A!MemoryRight
  /\ which = "buf" => B!MemoryRight

(* The set of a poll is as asked, its results belong to their descriptors. *)
PollRight == which = "poll" => P!PollRight

(* Unless it is misused, a chain of buffers implements a text that is read *)
(* from a place.                                                           *)
TextSpec == [][which = "chain" => C!TextStep]_vars

(* A call whose level is written leaves its line in one place, in order, or *)
(* nowhere if it could not be written; once the log was closed no line     *)
(* goes to a file that had been renamed away by then.                      *)
LinesRight == which = "log" => G!LinesRight

(* What was packed comes out again wherever it was put in the buffer; of    *)
(* what the buffer does not hold to the end nothing is believed.           *)
MetadataRight == which = "metadata" => M!MetadataRight
=============================================================================

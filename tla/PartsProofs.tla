---------------------------- MODULE PartsProofs -----------------------------
(***************************************************************************)
(* The parts of the library, each proved about in MemoryProofs, side by    *)
(* side as in Parts: whichever of them is at work, the others stay as they *)
(* are.                                                                    *)
(***************************************************************************)
EXTENDS Parts, TLAPS

H == INSTANCE MemoryProofs WITH astray <- misused

(* A behaviour of the parts is one of each.                                *)
LEMMA PollPart == Spec => P!Spec
<1>1. Init => P!Init
  BY DEF Init
<1>2. [Next]_vars => [P!Next]_(P!vars)
  BY DEF Next, vars, pvars, P!vars, ListStep, TreeStep, StackStep, ArrayStep,
     PollStep, ChainStep, BufStep, LogStep, MetadataStep
<1> QED BY <1>1, <1>2, PTL DEF Spec, P!Spec

LEMMA LogPart == Spec => G!Spec
<1>1. Init => G!Init
  BY DEF Init
<1>2. [Next]_vars => [G!Next]_(G!vars)
  BY DEF Next, vars, gvars, G!vars, G!set, G!out, ListStep, TreeStep,
     StackStep, ArrayStep, PollStep, ChainStep, BufStep, LogStep, MetadataStep
<1> QED BY <1>1, <1>2, PTL DEF Spec, G!Spec

LEMMA ArrayPart == Spec => A!Spec
<1>1. Init => A!Init
  BY DEF Init
<1>2. [Next]_vars => [A!Next]_(A!vars)
  BY DEF Next, vars, avars, A!vars, ListStep, TreeStep, StackStep, ArrayStep,
     PollStep, ChainStep, BufStep, LogStep, MetadataStep
<1> QED BY <1>1, <1>2, PTL DEF Spec, A!Spec

LEMMA BufPart == Spec => B!Spec
<1>1. Init => B!Init
  BY DEF Init
<1>2. [Next]_vars => [B!Next]_(B!vars)
  BY DEF Next, vars, bvars, B!vars, ListStep, TreeStep, StackStep, ArrayStep,
     PollStep, ChainStep, BufStep, LogStep, MetadataStep
<1> QED BY <1>1, <1>2, PTL DEF Spec, B!Spec

LEMMA ListPart == Spec => L!Spec
<1>1. Init => L!Init
  BY DEF Init
<1>2. [Next]_vars => [L!Next]_(L!vars)
  BY DEF Next, vars, lvars, L!vars, L!heap, L!list, ListStep, TreeStep,
     StackStep, ArrayStep, PollStep, ChainStep, BufStep, LogStep, MetadataStep
<1> QED BY <1>1, <1>2, PTL DEF Spec, L!Spec

LEMMA StackPart == Spec => S!Spec
<1>1. Init => S!Init
  BY DEF Init
<1>2. [Next]_vars => [S!Next]_(S!vars)
  BY DEF Next, vars, svars, S!vars, ListStep, TreeStep, StackStep, ArrayStep,
     PollStep, ChainStep, BufStep, LogStep, MetadataStep
<1> QED BY <1>1, <1>2, PTL DEF Spec, S!Spec

LEMMA TreePart == Spec => T!Spec
<1>1. Init => T!Init
  BY DEF Init
<1>2. [Next]_vars => [T!Next]_(T!vars)
  BY DEF Next, vars, tvars, T!vars, ListStep, TreeStep, StackStep, ArrayStep,
     PollStep, ChainStep, BufStep, LogStep, MetadataStep
<1> QED BY <1>1, <1>2, PTL DEF Spec, T!Spec

LEMMA MetadataPart == Spec => M!Spec
<1>1. Init => M!Init
  BY DEF Init
<1>2. [Next]_vars => [M!Next]_(M!vars)
  BY DEF Next, vars, mvars, M!vars, ListStep, TreeStep, StackStep, ArrayStep,
     PollStep, ChainStep, BufStep, LogStep, MetadataStep
<1> QED BY <1>1, <1>2, PTL DEF Spec, M!Spec
-----------------------------------------------------------------------------
(* The list, the stack and the tree are those that MemoryProofs is about,  *)
(* for all that the names of their operators differ: in how they count,    *)
LEMMA SameCard ==
  /\ \A V : T!Cardinality(V) = H!Tr!Cardinality(V)
  /\ \A V : L!Cardinality(V) = H!Cardinality(V)
  /\ \A V : S!Cardinality(V) = H!Stk!Cardinality(V)
<1>1. \A V : T!Cardinality(V) = H!Tr!Cardinality(V)
  BY DEF T!Cardinality, H!Tr!Cardinality
<1>2. \A V : L!Cardinality(V) = H!Cardinality(V)
  BY DEF L!Cardinality, H!Cardinality
<1>3. \A V : S!Cardinality(V) = H!Stk!Cardinality(V)
  BY DEF S!Cardinality, H!Stk!Cardinality
<1> QED BY <1>1, <1>2, <1>3

(* in the heap they need,                                                  *)
LEMMA SameHeap == H!IsFiniteSet(Elems) /\ NULL \notin Elems
BY HeapAssumption DEF IsFiniteSet, H!IsFiniteSet

(* in the steps of the tree and in what is right of it,                    *)
LEMMA SameTree == (T!Spec => H!Tr!Spec) /\ (H!Tr!TreeRight => T!TreeRight)
<1>1. T!Init => H!Tr!Init
  BY DEF T!Init, H!Tr!Init, T!CareOf, H!Tr!CareOf
<1>2. [T!Next]_(T!vars) => [H!Tr!Next]_(H!Tr!vars)
  BY SameCard DEF T!Next, H!Tr!Next, T!vars, H!Tr!vars, T!Add, H!Tr!Add,
     T!DelChild, H!Tr!DelChild, T!Fresh, H!Tr!Fresh, T!Point, H!Tr!Point,
     T!CareOf, H!Tr!CareOf, T!Without, H!Tr!Without, T!Chroot, H!Tr!Chroot,
     T!ChrootUp, H!Tr!ChrootUp, T!ElInit, H!Tr!ElInit, T!ElSet, H!Tr!ElSet,
     T!RootInit, H!Tr!RootInit, T!Get, H!Tr!Get
<1>3. \A link, e : T!Followed(link, e) = H!Tr!Followed(link, e)
  BY SameCard DEF T!Followed, H!Tr!Followed
<1>4. \A e : T!Above(e) = H!Tr!Above(e)
  BY <1>3, SameCard DEF T!Above, H!Tr!Above
<1>5. H!Tr!TreeRight => T!TreeRight
  BY <1>4, SameCard DEF T!TreeRight, H!Tr!TreeRight, T!TreeWhole,
     H!Tr!TreeWhole, T!CurrentRight, H!Tr!CurrentRight, T!ToSet, H!Tr!ToSet,
     T!IsInjective, H!Tr!IsInjective
<1> QED BY <1>1, <1>2, <1>5, PTL DEF T!Spec, H!Tr!Spec

(* in what the links lead through,                                         *)
LEMMA SameWalk ==
  /\ \A link, e : L!Walk(link, e) = H!Walk(link, e)
  /\ \A link, e : S!Walk(link, e) = H!Stk!Walk(link, e)
<1>1. \A link, e : L!Followed(link, e) = H!Followed(link, e)
  BY SameCard DEF L!Followed, H!Followed
<1>2. \A link, e : S!Followed(link, e) = H!Stk!Followed(link, e)
  BY SameCard DEF S!Followed, H!Stk!Followed
<1>3. \A link, e : L!Walk(link, e) = H!Walk(link, e)
  BY <1>1, SameCard DEF L!Walk, H!Walk
<1>4. \A link, e : S!Walk(link, e) = H!Stk!Walk(link, e)
  BY <1>2, SameCard DEF S!Walk, H!Stk!Walk
<1> QED BY <1>3, <1>4

(* in the steps of the list                                                *)
LEMMA SameList == L!Spec => H!Spec
<1>1. L!Init => H!Init
  BY DEF L!Init, H!Init
<1>2. L!Forward = H!Forward
  BY SameWalk DEF L!Forward, H!Forward
<1>3. L!Elements = H!Elements
  BY <1>2 DEF L!Elements, H!Elements
<1>4. [L!Next]_(L!vars) => [H!Next]_(H!vars)
  BY <1>3 DEF L!Next, H!Next, L!vars, H!vars, L!heap, H!heap, L!list, H!list,
     L!AddHead, H!AddHead, L!AddTail, H!AddTail, L!AddAfter, H!AddAfter,
     L!AddBefore, H!AddBefore, L!New, H!New, L!Drop, H!Drop, L!Link, H!Link,
     L!DelHead, H!DelHead, L!DelTail, H!DelTail, L!Del, H!Del, L!Empty,
     H!Empty, L!Clear, H!Clear, L!Free, H!Free, L!ListInit, H!ListInit,
     L!PtrTo, H!PtrTo, L!PtrInit, H!PtrInit, L!PtrNext, H!PtrNext, L!PtrPrev,
     H!PtrPrev, L!PtrGet, H!PtrGet, L!PtrSet, H!PtrSet, L!Get, H!Get
<1> QED BY <1>1, <1>4, PTL DEF L!Spec, H!Spec

(* and what is whole of it,                                                *)
LEMMA SameWhole == H!ListWhole => L!ListWhole
<1>1. L!Forward = H!Forward
  BY SameWalk DEF L!Forward, H!Forward
<1>2. L!Elements = H!Elements
  BY <1>1 DEF L!Elements, H!Elements
<1>3. H!TypeOK => L!TypeOK
  BY DEF H!TypeOK, L!TypeOK, H!Pointer, L!Pointer
<1>4. H!NothingLost => L!NothingLost
  BY DEF H!NothingLost, L!NothingLost
<1>5. H!BothWays => L!BothWays
  BY <1>1, <1>2, SameWalk, SameCard DEF H!BothWays, L!BothWays
<1> QED BY <1>3, <1>4, <1>5 DEF H!ListWhole, L!ListWhole

(* in the sequences that they implement, before a step                     *)
LEMMA SamePosition ==
  /\ L!Forward = H!Forward /\ L!Position = H!Position
  /\ S!Downward = H!Stk!Downward
<1>1. \A s, p : L!Place(s, p) = H!Place(s, p)
  BY DEF L!Place, H!Place
<1> QED BY <1>1, SameWalk DEF L!Forward, H!Forward, L!Position, H!Position,
           S!Downward, H!Stk!Downward

(* and after it,                                                           *)
LEMMA SamePositionNext ==
  /\ L!Forward' = H!Forward' /\ L!Position' = H!Position'
  /\ S!Downward' = H!Stk!Downward'
<1>1. \A s, p : L!Place(s, p) = H!Place(s, p)
  BY DEF L!Place, H!Place
<1> QED BY <1>1, SameWalk DEF L!Forward, H!Forward, L!Position, H!Position,
           S!Downward, H!Stk!Downward

(* in the steps of these sequences,                                        *)
LEMMA SameSeqStep == [H!Abstract!Next]_(H!Abstract!vars) => L!SeqStep
BY SamePosition, SamePositionNext DEF L!SeqStep, L!Abstract!Next,
   H!Abstract!Next, L!Abstract!vars, H!Abstract!vars, L!Abstract!Size,
   H!Abstract!Size, L!Abstract!InUse, H!Abstract!InUse, L!Abstract!Fresh,
   H!Abstract!Fresh, L!Abstract!ElementAt, H!Abstract!ElementAt,
   L!Abstract!Insert, H!Abstract!Insert, L!Abstract!Delete, H!Abstract!Delete,
   L!Abstract!AddHead, H!Abstract!AddHead, L!Abstract!AddTail,
   H!Abstract!AddTail, L!Abstract!AddAfter, H!Abstract!AddAfter,
   L!Abstract!AddBefore, H!Abstract!AddBefore, L!Abstract!DelHead,
   H!Abstract!DelHead, L!Abstract!DelTail, H!Abstract!DelTail, L!Abstract!Del,
   H!Abstract!Del, L!Abstract!Clear, H!Abstract!Clear, L!Abstract!Move,
   H!Abstract!Move, L!Abstract!MoveNext, H!Abstract!MoveNext,
   L!Abstract!MovePrev, H!Abstract!MovePrev, L!Abstract!MoveEnd,
   H!Abstract!MoveEnd, L!Abstract!MoveTo, H!Abstract!MoveTo, L!Abstract!Look,
   H!Abstract!Look

LEMMA SameStackStep ==
  [H!Stk!Abstract!Next]_(H!Stk!Abstract!vars) => S!StackStep
BY SamePosition, SamePositionNext DEF S!StackStep, S!Abstract!Next,
   H!Stk!Abstract!Next, S!Abstract!vars, H!Stk!Abstract!vars, S!Abstract!Size,
   H!Stk!Abstract!Size, S!Abstract!InUse, H!Stk!Abstract!InUse,
   S!Abstract!Fresh, H!Stk!Abstract!Fresh, S!Abstract!ElementAt,
   H!Stk!Abstract!ElementAt, S!Abstract!Insert, H!Stk!Abstract!Insert,
   S!Abstract!Delete, H!Stk!Abstract!Delete, S!Abstract!AddHead,
   H!Stk!Abstract!AddHead, S!Abstract!AddTail, H!Stk!Abstract!AddTail,
   S!Abstract!AddAfter, H!Stk!Abstract!AddAfter, S!Abstract!AddBefore,
   H!Stk!Abstract!AddBefore, S!Abstract!DelHead, H!Stk!Abstract!DelHead,
   S!Abstract!DelTail, H!Stk!Abstract!DelTail, S!Abstract!Del,
   H!Stk!Abstract!Del, S!Abstract!Clear, H!Stk!Abstract!Clear, S!Abstract!Move,
   H!Stk!Abstract!Move, S!Abstract!MoveNext, H!Stk!Abstract!MoveNext,
   S!Abstract!MovePrev, H!Stk!Abstract!MovePrev, S!Abstract!MoveEnd,
   H!Stk!Abstract!MoveEnd, S!Abstract!MoveTo, H!Stk!Abstract!MoveTo,
   S!Abstract!Look, H!Stk!Abstract!Look

(* and in the steps of the stack.                                          *)
LEMMA SameStack == (S!Spec => H!Stk!Spec) /\ (H!Stk!StackWhole => S!StackWhole)
<1>1. S!Init => H!Stk!Init
  BY DEF S!Init, H!Stk!Init
<1>2. [S!Next]_(S!vars) => [H!Stk!Next]_(H!Stk!vars)
  BY SameCard DEF S!Next, H!Stk!Next, S!vars, H!Stk!vars, S!Push, H!Stk!Push,
     S!Pull, H!Stk!Pull, S!Free, H!Stk!Free, S!Get, H!Stk!Get
<1>3. H!Stk!StackWhole => S!StackWhole
  BY SamePosition, SameCard DEF S!StackWhole, H!Stk!StackWhole
<1> QED BY <1>1, <1>2, <1>3, PTL DEF S!Spec, H!Stk!Spec

(* So it is with the other parts: how they count and                       *)
(* compare,                                                                *)
LEMMA SameStandard ==
  /\ \A V : P!Cardinality(V) = H!Poll!Cardinality(V)
  /\ \A V : G!Cardinality(V) = H!Log!Cardinality(V)
  /\ \A V : A!Max(V) = H!Arr!Max(V)
  /\ \A V : B!Max(V) = H!Bu!Max(V) /\ B!Min(V) = H!Bu!Min(V)
<1>1. \A V : P!Cardinality(V) = H!Poll!Cardinality(V)
  BY DEF P!Cardinality, H!Poll!Cardinality
<1>2. \A V : G!Cardinality(V) = H!Log!Cardinality(V)
  BY DEF G!Cardinality, H!Log!Cardinality
<1>3. \A V : A!Max(V) = H!Arr!Max(V)
  BY DEF A!Max, H!Arr!Max
<1>4. \A V : B!Max(V) = H!Bu!Max(V) /\ B!Min(V) = H!Bu!Min(V)
  BY DEF B!Max, H!Bu!Max, B!Min, H!Bu!Min
<1> QED BY <1>1, <1>2, <1>3, <1>4

(* their steps and what is right of them: the poll,                        *)
LEMMA SamePoll == (P!Spec => H!Poll!Spec) /\ (H!Poll!PollRight => P!PollRight)
<1>1. P!Init => H!Poll!Init
  BY SameStandard DEF P!Init, H!Poll!Init
<1>2. [P!Next]_(P!vars) => [H!Poll!Next]_(H!Poll!vars)
  BY SameStandard DEF P!Next, H!Poll!Next, P!vars, H!Poll!vars, P!Index,
     H!Poll!Index, P!AddMore, H!Poll!AddMore, P!Add, H!Poll!Add, P!MoveUp,
     H!Poll!MoveUp, P!Remove, H!Poll!Remove, P!Del, H!Poll!Del, P!DelEvent,
     H!Poll!DelEvent, P!Exec, H!Poll!Exec, P!Free, H!Poll!Free
<1>3. H!Poll!PollRight => P!PollRight
  BY SameStandard DEF P!PollRight, H!Poll!PollRight, P!Index, H!Poll!Index,
     P!Result, H!Poll!Result
<1> QED BY <1>1, <1>2, <1>3, PTL DEF P!Spec, H!Poll!Spec

(* the log,                                                                *)
LEMMA SameLog == (G!Spec => H!Log!Spec) /\ (H!Log!LinesRight => G!LinesRight)
<1>1. G!Init => H!Log!Init
  BY SameStandard DEF G!Init, H!Log!Init, G!Console, H!Log!Console
<1>2. [G!Next]_(G!vars) => [H!Log!Next]_(H!Log!vars)
  BY SameStandard DEF G!Next, H!Log!Next, G!vars, H!Log!vars, G!set, H!Log!set,
     G!out, H!Log!out, G!Exists, H!Log!Exists, G!To, H!Log!To, G!Console,
     H!Log!Console, G!Write, H!Log!Write, G!Open, H!Log!Open, G!Format,
     H!Log!Format, G!FilePrint, H!Log!FilePrint, G!NotNamed, H!Log!NotNamed,
     G!Flush, H!Log!Flush, G!Reopen, H!Log!Reopen, G!WriteInHandler,
     H!Log!WriteInHandler, G!SetLevel, H!Log!SetLevel, G!SetPath,
     H!Log!SetPath, G!Again, H!Log!Again, G!Rotate, H!Log!Rotate
<1>3. H!Log!LinesRight => G!LinesRight
  BY SameStandard DEF G!LinesRight, H!Log!LinesRight, G!InOrder, H!Log!InOrder,
     G!Places, H!Log!Places
<1> QED BY <1>1, <1>2, <1>3, PTL DEF G!Spec, H!Log!Spec

(* the array                                                               *)
LEMMA SameArray == (A!Spec => H!Arr!Spec)
  /\ (H!Arr!MemoryRight => A!MemoryRight)
<1>1. A!Init => H!Arr!Init
  BY SameStandard DEF A!Init, H!Arr!Init
<1>2. [A!Next]_(A!vars) => [H!Arr!Next]_(H!Arr!vars)
  BY SameStandard DEF A!Next, H!Arr!Next, A!vars, H!Arr!vars, A!Zeros,
     H!Arr!Zeros, A!Grown, H!Arr!Grown, A!Make, H!Arr!Make, A!ArrayInit,
     H!Arr!ArrayInit, A!Use, H!Arr!Use, A!Add, H!Arr!Add, A!AddI, H!Arr!AddI,
     A!Freed, H!Arr!Freed, A!Clear, H!Arr!Clear, A!Free, H!Arr!Free
<1>3. H!Arr!MemoryRight => A!MemoryRight
  BY SameStandard DEF A!MemoryRight, H!Arr!MemoryRight
<1> QED BY <1>1, <1>2, <1>3, PTL DEF A!Spec, H!Arr!Spec

(* the buffer,                                                             *)
LEMMA SameBuf == (B!Spec => H!Bu!Spec) /\ (H!Bu!MemoryRight => B!MemoryRight)
<1>1. B!Init => H!Bu!Init
  BY SameStandard DEF B!Init, H!Bu!Init, B!None, H!Bu!None, B!Made, H!Bu!Made,
     B!OfString, H!Bu!OfString
<1>2. /\ \A b, n : B!Resize(b, n) = H!Bu!Resize(b, n)
      /\ \A b, off, d : B!Cpy(b, off, d) = H!Bu!Cpy(b, off, d)
      /\ \A b, d : B!Cat(b, d) = H!Bu!Cat(b, d)
      /\ \A b, off, d : B!PutStatic(b, off, d) = H!Bu!PutStatic(b, off, d)
      /\ \A b, c : B!Clone(b, c) = H!Bu!Clone(b, c)
  <2>1. /\ \A n : B!Made(n) = H!Bu!Made(n)
        /\ \A b : B!Size(b) = H!Bu!Size(b) /\ B!Content(b) = H!Bu!Content(b)
    BY DEF B!Made, H!Bu!Made, B!Size, H!Bu!Size, B!Content, H!Bu!Content
  <2>2. \A b, n : B!Resize(b, n) = H!Bu!Resize(b, n)
    BY <2>1, SameStandard DEF B!Resize, H!Bu!Resize
  <2>3. \A b, n : B!Grow(b, n) = H!Bu!Grow(b, n)
    BY <2>1, <2>2 DEF B!Grow, H!Bu!Grow
  <2>4. \A b, off, d : B!Put(b, off, d) = H!Bu!Put(b, off, d)
    BY <2>1, SameStandard DEF B!Put, H!Bu!Put
  <2>5. /\ \A b, off, d : B!PutStatic(b, off, d) = H!Bu!PutStatic(b, off, d)
        /\ \A b, off, d : B!Cpy(b, off, d) = H!Bu!Cpy(b, off, d)
    BY <2>1, <2>3, <2>4 DEF B!PutStatic, H!Bu!PutStatic, B!Cpy, H!Bu!Cpy
  <2>6. \A b, d : B!Cat(b, d) = H!Bu!Cat(b, d)
    BY <2>5 DEF B!Cat, H!Bu!Cat
  <2>7. \A b, c : B!Clone(b, c) = H!Bu!Clone(b, c)
    BY <2>1, <2>2, <2>4 DEF B!Clone, H!Bu!Clone
  <2> QED BY <2>2, <2>5, <2>6, <2>7
<1>3. /\ \A b, c : B!AddChar(b, c) = H!Bu!AddChar(b, c)
      /\ \A b, d : B!FillStr(b, d) = H!Bu!FillStr(b, d)
      /\ \A b, n : B!SetLen(b, n) = H!Bu!SetLen(b, n)
      /\ \A b, off, n : B!GetMem(b, off, n) = H!Bu!GetMem(b, off, n)
      /\ \A b, off, c,
         coff : B!Same(b, off, c, coff) = H!Bu!Same(b, off, c, coff)
      /\ \A b, off, c, coff, n :
           B!SameN(b, off, c, coff, n) = H!Bu!SameN(b, off, c, coff, n)
      /\ \A b, off : B!AsString(b, off) = H!Bu!AsString(b, off)
      /\ \A b : B!Content(b) = H!Bu!Content(b) /\ B!Size(b) = H!Bu!Size(b)
      /\ \A b : B!Free(b) = H!Bu!Free(b) /\ B!Clear(b) = H!Bu!Clear(b)
  BY <1>2 DEF B!AddChar, H!Bu!AddChar, B!FillStr, H!Bu!FillStr, B!SetLen,
     H!Bu!SetLen, B!GetMem, H!Bu!GetMem, B!Same, H!Bu!Same, B!SameN,
     H!Bu!SameN, B!AsString, H!Bu!AsString, B!Content, H!Bu!Content, B!Size,
     H!Bu!Size, B!Free, H!Bu!Free, B!Clear, H!Bu!Clear, B!None, H!Bu!None,
     B!Made, H!Bu!Made
<1>4. /\ \A s, off, d : B!Over(s, off, d) = H!Bu!Over(s, off, d)
      /\ \A s, n : B!Cut(s, n) = H!Bu!Cut(s, n)
  BY SameStandard DEF B!Over, H!Bu!Over, B!Cut, H!Bu!Cut
<1>5. ASSUME NEW b, NEW s, B!Becomes(b, s)
      PROVE  H!Bu!Becomes(b, s)
  BY <1>5 DEF B!Becomes, H!Bu!Becomes
<1>6. (B!Write => H!Bu!Write) /\ (B!WriteChar => H!Bu!WriteChar)
  BY <1>2, <1>3, <1>4, <1>5 DEF B!Write, H!Bu!Write, B!WriteChar,
     H!Bu!WriteChar
<1>7. (B!Fill => H!Bu!Fill) /\ (B!CloneIt => H!Bu!CloneIt)
  BY <1>2, <1>3, <1>4, <1>5, SameStandard DEF B!Fill, H!Bu!Fill, B!CloneIt,
     H!Bu!CloneIt
<1>8. (B!ResizeIt => H!Bu!ResizeIt) /\ (B!SetLenIt => H!Bu!SetLenIt)
  BY <1>2, <1>3, <1>4, <1>5, SameStandard DEF B!ResizeIt, H!Bu!ResizeIt,
     B!SetLenIt, H!Bu!SetLenIt
<1>9. (B!Empty => H!Bu!Empty) /\ (B!Read => H!Bu!Read)
  BY <1>3, <1>5 DEF B!Empty, H!Bu!Empty, B!Read, H!Bu!Read
<1>10. [B!Next]_(B!vars) => [H!Bu!Next]_(H!Bu!vars)
  BY <1>6, <1>7, <1>8, <1>9 DEF B!Next, H!Bu!Next, B!vars, H!Bu!vars
<1>11. H!Bu!MemoryRight => B!MemoryRight
  BY SameStandard DEF B!MemoryRight, H!Bu!MemoryRight, B!Size, H!Bu!Size
<1> QED BY <1>1, <1>10, <1>11, PTL DEF B!Spec, H!Bu!Spec

(* and the metadata: in what is packed and unpacked,                       *)
LEMMA SamePack ==
  /\ \A b, off, d : M!Cpy(b, off, d) = H!Md!Cpy(b, off, d)
  /\ \A m : M!Pack(m) = H!Md!Pack(m)
  /\ \A b, off : M!Unpack(b, off) = H!Md!Unpack(b, off)
<1>1. \A b, off, d : M!Cpy(b, off, d) = H!Md!Cpy(b, off, d)
  BY DEF M!Cpy, H!Md!Cpy, M!Put, H!Md!Put, M!Grow, H!Md!Grow, M!Resize,
     H!Md!Resize, M!Made, H!Md!Made, M!Size, H!Md!Size, M!Max, H!Md!Max,
     M!Min, H!Md!Min
<1>2. /\ \A n, k : M!Num(n, k) = H!Md!Num(n, k)
      /\ M!Layout = H!Md!Layout /\ M!TextFields = H!Md!TextFields
      /\ M!Times = H!Md!Times /\ M!Owners = H!Md!Owners
      /\ M!OwnerNames = H!Md!OwnerNames /\ M!NoData = H!Md!NoData
  BY DEF M!Num, H!Md!Num, M!Layout, H!Md!Layout, M!TextFields, H!Md!TextFields,
     M!Times, H!Md!Times, M!Owners, H!Md!Owners, M!OwnerNames, H!Md!OwnerNames,
     M!NoData, H!Md!NoData
<1>3. /\ \A x : M!KindOf(x) = H!Md!KindOf(x)
      /\ \A v : M!FieldsOf(v) = H!Md!FieldsOf(v)
  BY <1>2 DEF M!KindOf, H!Md!KindOf, M!FieldsOf, H!Md!FieldsOf, M!Range,
     H!Md!Range
<1>4. \A v : M!Fresh(v) = H!Md!Fresh(v)
  BY <1>2, <1>3 DEF M!Fresh, H!Md!Fresh
<1>5. \A x, value : M!Piece(x, value) = H!Md!Piece(x, value)
  BY <1>2, <1>3 DEF M!Piece, H!Md!Piece
<1>6. \A q : M!FlattenSeq(q) = H!Md!FlattenSeq(q)
  BY DEF M!FlattenSeq, H!Md!FlattenSeq
<1>7. \A m : M!Pack(m) = H!Md!Pack(m)
  BY <1>2, <1>5, <1>6 DEF M!Pack, H!Md!Pack
<1>8. \A b, at, w : M!Has(b, at, w) = H!Md!Has(b, at, w)
  BY DEF M!Has, H!Md!Has
<1>9. \A b, u, x, at, w, value :
        M!Taken(b, u, x, at, w, value) = H!Md!Taken(b, u, x, at, w, value)
  BY DEF M!Taken, H!Md!Taken, M!Has, H!Md!Has
<1>10. \A b, u, x : M!UnpackField(b, u, x) = H!Md!UnpackField(b, u, x)
  BY <1>2, <1>3, <1>9 DEF M!UnpackField, H!Md!UnpackField, M!GetMem,
     H!Md!GetMem, M!Has, H!Md!Has
<1>11. \A b, off : M!Unpack(b, off) = H!Md!Unpack(b, off)
  BY DEF M!Unpack, H!Md!Unpack, M!UnpackField, H!Md!UnpackField,
     M!Taken, H!Md!Taken, M!GetMem, H!Md!GetMem, M!Has, H!Md!Has, M!Fresh,
     H!Md!Fresh, M!FieldsOf, H!Md!FieldsOf, M!Range, H!Md!Range, M!Layout,
     H!Md!Layout, M!TextFields, H!Md!TextFields, M!KindOf, H!Md!KindOf,
     M!Times, H!Md!Times, M!Owners, H!Md!Owners, M!NoData, H!Md!NoData
<1> QED BY <1>1, <1>7, <1>11

(* in the steps and in what is right of them.                              *)
LEMMA SameMetadata ==
  (M!Spec => H!Md!Spec) /\ (H!Md!MetadataRight => M!MetadataRight)
<1>1. M!Init => H!Md!Init
  BY DEF M!Init, H!Md!Init, M!NoData, H!Md!NoData, M!Made, H!Md!Made
<1>2. [M!Next]_(M!vars) => [H!Md!Next]_(H!Md!vars)
  <2>1. \A v : M!Fill(v) => H!Md!Fill(v)
    BY DEF M!Fill, H!Md!Fill, M!Fresh, H!Md!Fresh, M!FieldsOf, H!Md!FieldsOf,
       M!Range, H!Md!Range, M!Layout, H!Md!Layout, M!TextFields,
       H!Md!TextFields
  <2>2. M!Set => H!Md!Set
    BY DEF M!Set, H!Md!Set, M!Sets, H!Md!Sets, M!TextFields, H!Md!TextFields,
       M!Times, H!Md!Times
  <2>3. M!Forget => H!Md!Forget
    BY DEF M!Forget, H!Md!Forget, M!NoData, H!Md!NoData, M!Fresh, H!Md!Fresh,
       M!FieldsOf, H!Md!FieldsOf, M!Range, H!Md!Range, M!Layout, H!Md!Layout,
       M!TextFields, H!Md!TextFields
  <2>4. \A off : M!ToBuf(off) => H!Md!ToBuf(off)
    BY SamePack DEF M!ToBuf, H!Md!ToBuf
  <2>5. \A n : M!Cut(n) => H!Md!Cut(n)
    BY DEF M!Cut, H!Md!Cut, M!SetLen, H!Md!SetLen, M!Size, H!Md!Size
  <2>6. M!Layout = H!Md!Layout /\ (UNCHANGED M!vars => UNCHANGED H!Md!vars)
    BY DEF M!Layout, H!Md!Layout, M!vars, H!Md!vars
  <2> QED BY <2>1, <2>2, <2>3, <2>4, <2>5, <2>6 DEF M!Next, H!Md!Next
<1>3. H!Md!MetadataRight => M!MetadataRight
  <2>1. \A m, x : M!Gets(m, x) = H!Md!Gets(m, x)
    BY DEF M!Gets, H!Md!Gets, M!OwnerHere, H!Md!OwnerHere, M!FieldsOf,
       H!Md!FieldsOf, M!Range, H!Md!Range, M!Layout, H!Md!Layout, M!Owners,
       H!Md!Owners
  <2>2. \A m : M!Arrived(m) = H!Md!Arrived(m)
    BY DEF M!Arrived, H!Md!Arrived, M!OwnerNames, H!Md!OwnerNames
  <2>3. M!NoData = H!Md!NoData
    BY DEF M!NoData, H!Md!NoData
  <2> QED BY SamePack, <2>1, <2>2, <2>3 DEF M!MetadataRight, H!Md!MetadataRight
<1> QED BY <1>1, <1>2, <1>3, PTL DEF M!Spec, H!Md!Spec

(* What is assumed of widths and files is the same there.                  *)
LEMMA SameSizes == H!WellSized
<1>1. M!TextFields = H!Md!TextFields /\ M!Times = H!Md!Times
      /\ M!Owners = H!Md!Owners
  BY DEF M!TextFields, H!Md!TextFields, M!Times, H!Md!Times, M!Owners,
     H!Md!Owners
<1> QED BY ONLY MetadataAssumption, <1>1, Zenon DEF H!WellSized

-----------------------------------------------------------------------------
(* The list reads the same from both ends, counts and reaches all it has   *)
(* allocated; elements and their data are made and freed once.             *)
THEOREM ListWholeAlways == Spec => []ListWhole
<1>1. L!ListWhole => ListWhole
  BY DEF ListWhole
<1>2. H!Spec => []H!ListWhole
  BY H!ListWholeAlways, SameHeap
<1>3. H!ListWhole => L!ListWhole
  BY SameWhole
<1> QED BY <1>1, <1>2, <1>3, SameList, ListPart, PTL

(* Arrays of children and pointers to parents are one tree, whose current  *)
(* element is never an address that was given out again.                   *)
THEOREM TreeRightAlways == Spec => []TreeRight
<1>1. T!TreeRight => TreeRight
  BY DEF TreeRight
<1>2. H!Tr!Spec => []H!Tr!TreeRight
  BY H!TreeRightAlways, SameHeap
<1>3. H!Tr!TreeRight => T!TreeRight
  BY SameTree
<1>4. T!Spec => H!Tr!Spec
  BY SameTree
<1> QED BY <1>1, <1>2, <1>3, <1>4, TreePart, PTL

(* Links, pointers and position of a list implement a sequence with a       *)
(* position, links of a stack one that changes at its head; no element of  *)
(* the stack is leaked.                                                    *)
THEOREM Refinement == Spec => SeqSpec
<1>1. L!Spec => [][L!SeqStep]_vars
  <2>1. H!Spec => H!SeqSpec
    BY H!Refinement, SameHeap
  <2>2. [H!Abstract!Next]_(H!Abstract!vars) => L!SeqStep
    BY SameSeqStep
  <2> QED BY <2>1, <2>2, SameList, PTL DEF H!SeqSpec, H!Abstract!Spec
<1>2. S!Spec => [][S!StackStep /\ S!StackWhole]_vars
  <2>1. H!Stk!Spec => H!Stk!StackSpec
    BY H!StackRefinement, SameHeap
  <2>2. H!Stk!Spec => []H!Stk!StackWhole
    <3>1. H!Stk!Spec => [](H!StackReads /\ H!Stk!StackWhole)
      BY H!StackWholeAlways, SameHeap
    <3> QED BY <3>1, PTL
  <2>3. [H!Stk!Abstract!Next]_(H!Stk!Abstract!vars) => S!StackStep
    BY SameStackStep
  <2>4. (S!Spec => H!Stk!Spec) /\ (H!Stk!StackWhole => S!StackWhole)
    BY SameStack
  <2> QED BY <2>1, <2>2, <2>3, <2>4, PTL DEF H!Stk!StackSpec,
             H!Stk!Abstract!Spec
<1>3. [L!SeqStep]_vars /\ [S!StackStep /\ S!StackWhole]_vars =>
        [/\ which = "list" => L!SeqStep
         /\ which = "stack" => S!StackStep /\ S!StackWhole]_vars
  OBVIOUS
<1> QED BY <1>1, <1>2, <1>3, ListPart, StackPart, PTL DEF SeqSpec

(* The set of nxs-poll holds each descriptor once, with the events asked   *)
(* for; a result is that of its descriptor, but for those that a removal   *)
(* has moved since the last poll(2).                                       *)
THEOREM PollRightAlways == Spec => []PollRight
<1>1. P!PollRight => PollRight
  BY DEF PollRight
<1>2. H!Poll!Spec => []H!Poll!PollRight
  BY H!PollRightAlways, SameHeap
<1>3. (P!Spec => H!Poll!Spec) /\ (H!Poll!PollRight => P!PollRight)
  BY SamePoll
<1> QED BY <1>1, <1>2, <1>3, PollPart, PTL

(* A call of nxs-log whose level is written leaves its line in one place,  *)
(* in order, or nowhere if it could not be written; once the log was       *)
(* closed no line goes to a file that had been renamed away by then.       *)
THEOREM LinesRightAlways == Spec => []LinesRight
<1>1. G!LinesRight => LinesRight
  BY DEF LinesRight
<1>2. H!Log!Spec => []H!Log!LinesRight
  BY H!LinesRightAlways, PartsAssumption, SameHeap
<1>3. (G!Spec => H!Log!Spec) /\ (H!Log!LinesRight => G!LinesRight)
  BY SameLog
<1> QED BY <1>1, <1>2, <1>3, LogPart, PTL

(* Elements added to an nxs-array are in use and no others, and what       *)
(* init_callback made is freed before anything takes its place; an nxs-buf *)
(* holds what its user wrote where it was written, and what is read from   *)
(* it is part of that; however often the memory grows or is cleared.       *)
THEOREM MemoryRightAlways == Spec => []MemoryRight
<1>1. A!MemoryRight /\ B!MemoryRight => MemoryRight
  BY DEF MemoryRight
<1>2. H!Arr!Spec => []H!Arr!MemoryRight
  BY H!ArrayRightAlways, PartsAssumption, SameHeap
<1>3. H!Bu!Spec => []H!Bu!MemoryRight
  BY H!BufRightAlways, PartsAssumption, SameHeap
<1>4. (A!Spec => H!Arr!Spec) /\ (H!Arr!MemoryRight => A!MemoryRight)
  BY SameArray
<1>5. (B!Spec => H!Bu!Spec) /\ (H!Bu!MemoryRight => B!MemoryRight)
  BY SameBuf
<1> QED BY <1>1, <1>2, <1>3, <1>4, <1>5, ArrayPart, BufPart, PTL

(* What was packed comes out again wherever it was put in the buffer, but  *)
(* for names of owners longer than a byte can count; of what the buffer    *)
(* does not hold to the end nothing is believed, and the owner found is    *)
(* the one of that name, or none (nxs_metadata_to_buf,                     *)
(* nxs_metadata_from_buf, nxs_metadata_get_uid).                           *)
THEOREM MetadataRightAlways == Spec => []MetadataRight
<1>1. M!MetadataRight => MetadataRight
  BY DEF MetadataRight
<1>2. H!Md!Spec => []H!Md!MetadataRight
  BY H!MetadataRightAlways, SameSizes, SameHeap
<1>3. (M!Spec => H!Md!Spec) /\ (H!Md!MetadataRight => M!MetadataRight)
  BY SameMetadata
<1> QED BY <1>1, <1>2, <1>3, MetadataPart, PTL
=============================================================================

--------------------------- MODULE PipeSemProofs ----------------------------
(***************************************************************************)
(* Proofs about PipeSem, for every byte width, pipe capacity, set of       *)
(* payloads and number of calls: the inductive invariant, and from it the  *)
(* type invariant, mutual exclusion on the pipe, flow control, and that    *)
(* the lock byte implements the turn of PipeTurn.                          *)
(***************************************************************************)
EXTENDS PipeSem, SequenceTheorems, TLAPS

LEMMA AppendOne ==
  ASSUME NEW S, NEW s \in Seq(S), NEW e \in S
  PROVE  /\ Append(s, e) \in Seq(S) /\ Append(s, e) # << >>
         /\ Len(Append(s, e)) = Len(s) + 1
  BY AppendProperties

USE PipeSemAssumption

(* A piece of a sequence of bytes is a sequence of bytes, and as long as   *)
(* its bounds say.                                                         *)
LEMMA PieceType ==
  ASSUME NEW s \in Seq(Byte), NEW a \in Nat, NEW b \in Nat, b <= Len(s)
  PROVE  /\ SubSeq(s, a + 1, b) \in Seq(Byte)
         /\ a <= b => Len(SubSeq(s, a + 1, b)) = b - a
<1>1. \A i \in a + 1 .. b : s[i] \in Byte
  BY ElementOfSeq
<1>2. QED
  BY <1>1, SubSeqProperties

LEMMA PrefixType ==
  ASSUME NEW s \in Seq(Byte), NEW b \in Nat, b <= Len(s)
  PROVE  SubSeq(s, 1, b) \in Seq(Byte) /\ Len(SubSeq(s, 1, b)) = b
<1>1. \A i \in 1 .. b : s[i] \in Byte
  BY ElementOfSeq
<1>2. QED
  BY <1>1, SubSeqProperties

LEMMA NoBytes == << >> \in Seq(Byte) /\ Len(<< >>) = 0
  OBVIOUS

(* The header is a sequence of HdrLen bytes. *)
LEMMA HeaderType ==
  ASSUME NEW n \in Nat
  PROVE  Header(n) \in Seq(Byte) /\ Len(Header(n)) = HdrLen
<1>1. n % ByteBase \in Byte /\ (n \div ByteBase) % ByteBase \in Byte
      /\ 0 \in Byte
  BY DEF Byte
<1>2. Header(n) \in [1 .. HdrLen -> Byte]
  BY <1>1 DEF Header
<1>3. QED
  BY <1>2, SeqDef, LenProperties

(* What nxs_buf_cpy and nxs_buf_cat leave in tmp_buf are bytes. *)
LEMMA WriteBufType ==
  ASSUME NEW old \in Seq(Byte), NEW m \in Msgs
  PROVE  WriteBuf(old, m) \in Seq(Byte)
<1>1. m \in Seq(Byte) /\ Len(m) \in Nat
  BY LenProperties
<1>2. Header(Len(m)) \in Seq(Byte)
  BY <1>1, HeaderType
<1>3. SubSeq(old, HdrLen + 1, Len(old)) \in Seq(Byte)
  BY PieceType, LenProperties
<1>4. Header(Len(m)) \o SubSeq(old, HdrLen + 1, Len(old)) \in Seq(Byte)
  BY <1>2, <1>3, ConcatProperties
<1>5. QED
  BY <1>1, <1>4, ConcatProperties DEF WriteBuf

(* Push keeps the bytes in the pipe within its capacity, and its position  *)
(* within the buffer.                                                      *)
LEMMA PushType ==
  ASSUME pipe \in Seq(Byte), Len(pipe) <= PipeCap,
         wbuf \in Seq(Byte), wpos \in 0 .. Len(wbuf), Push
  PROVE  /\ pipe' \in Seq(Byte) /\ Len(pipe') <= PipeCap
         /\ wpos' \in 0 .. Len(wbuf)
         /\ wpc' \in {"unlock", "wcall"}
<1> DEFINE n == Least(PipeCap - Len(pipe), Len(wbuf) - wpos)
           piece == SubSeq(wbuf, wpos + 1, wpos + n)
<1>1. Len(pipe) \in Nat /\ Len(wbuf) \in Nat
  BY LenProperties
<1>2. n \in Nat \ {0} /\ n <= PipeCap - Len(pipe) /\ n <= Len(wbuf) - wpos
  BY <1>1 DEF Push, Least
<1>3. piece \in Seq(Byte) /\ Len(piece) = n
  <2>1. wpos \in Nat /\ wpos + n \in Nat /\ wpos + n <= Len(wbuf)
    BY <1>1, <1>2
  <2>2. QED
    BY <2>1, <1>2, PieceType
<1>4. pipe' = pipe \o piece /\ wpos' = wpos + n /\ wpc' \in {"unlock", "wcall"}
  BY DEF Push
<1>5. pipe' \in Seq(Byte) /\ Len(pipe') = Len(pipe) + n
  BY <1>3, <1>4, ConcatProperties
<1> HIDE DEF n
<1>6. QED
  BY <1>1, <1>2, <1>4, <1>5
-----------------------------------------------------------------------------
LEMMA InitIInv == Init => IInv
<1> SUFFICES ASSUME Init PROVE IInv
  OBVIOUS
<1>1. << >> \in Seq(Byte) /\ << >> \in Seq(Msgs) /\ << >> \in Seq(Seq(Byte))
      /\ Len(<< >>) = 0
  OBVIOUS
<1>2. TypeOK
  BY <1>1 DEF Init, TypeOK, Lock, Procs, WPc, RPc, WriteSection, ReadSection, Res
<1>3. SectionLocks /\ CallShape /\ Permits
  BY <1>1 DEF Init, SectionLocks, CallShape, Permits, WriteSection, ReadSection
<1>4. QED
  BY <1>2, <1>3 DEF IInv

(* The steps of nxs_pipesem_write. *)
LEMMA WriteStep ==
  ASSUME IInv,
         WriteCallLocked \/ (\E m \in Msgs : WriteCall(m)) \/ WriteCode
  PROVE  IInv'
<1> USE DEF IInv, SectionLocks, CallShape, Permits, WPc, RPc, WriteSection,
            ReadSection, wvars, rvars
<1>1. CASE WriteCallLocked
  <2>1. TypeOK'
    BY <1>1 DEF WriteCallLocked, TypeOK
  <2>2. QED
    BY <1>1, <2>1 DEF WriteCallLocked
<1>2. CASE \E m \in Msgs : WriteCall(m)
  <2>1. PICK m \in Msgs : WriteCall(m)
    BY <1>2
  <2>2. wbuf' \in Seq(Byte) /\ wpos' \in 0 .. Len(wbuf')
    BY <2>1, WriteBufType, LenProperties DEF WriteCall, TypeOK
  <2>3. tried' \in Seq(Msgs) /\ tried' # << >>
    <3>1. tried \in Seq(Msgs) /\ m \in Msgs /\ tried' = Append(tried, m)
      BY <2>1 DEF WriteCall, TypeOK
    <3>2. Append(tried, m) \in Seq(Msgs) /\ Append(tried, m) # << >>
      BY <3>1, AppendOne
    <3>3. QED
      BY <3>1, <3>2
  <2>4. TypeOK'
    BY <2>1, <2>2, <2>3 DEF WriteCall, TypeOK
  <2>5. QED
    BY <2>1, <2>3, <2>4 DEF WriteCall
<1>3. CASE WriteLockedPoll
  <2>1. TypeOK'
    BY <1>3 DEF WriteLockedPoll, WReturn, TypeOK, Res
  <2>2. QED
    BY <1>3, <2>1 DEF WriteLockedPoll, WReturn
<1>4. CASE WritePoll
  <2>1. CASE Push /\ UNCHANGED wres
    <3>1. TypeOK' /\ wpc' \in {"unlock", "wcall"}
      BY <1>4, <2>1, PushType DEF WritePoll, TypeOK
    <3>2. QED
      BY <1>4, <2>1, <3>1 DEF WritePoll
  <2>2. CASE wpc' = "idle" /\ wres' \in Res /\ UNCHANGED <<pipe, wpos>>
    <3>1. TypeOK'
      BY <1>4, <2>2 DEF WritePoll, TypeOK
    <3>2. QED
      BY <1>4, <2>2, <3>1 DEF WritePoll
  <2>3. QED
    BY <1>4, <2>1, <2>2 DEF WritePoll, WReturn, Res
<1>5. CASE WriteAsleep
  <2>1. CASE Push
    <3>1. TypeOK' /\ wpc' \in {"unlock", "wcall"}
      BY <1>5, <2>1, PushType DEF WriteAsleep, TypeOK
    <3>2. QED
      BY <1>5, <2>1, <3>1 DEF WriteAsleep
  <2>2. CASE wpc' = "wpoll" /\ UNCHANGED <<pipe, wpos>>
    <3>1. TypeOK'
      BY <1>5, <2>2 DEF WriteAsleep, TypeOK
    <3>2. QED
      BY <1>5, <2>2, <3>1 DEF WriteAsleep
  <2>3. QED
    BY <1>5, <2>1, <2>2 DEF WriteAsleep
<1>6. CASE WriteDone
  <2>1. tried[Len(tried)] \in Msgs
    BY <1>6, LenProperties, ElementOfSeq, EmptySeq DEF WriteDone, TypeOK
  <2>2. sent' \in Seq(Msgs) /\ Len(sent') = Len(sent) + 1
    BY <1>6, <2>1, AppendOne DEF WriteDone, TypeOK
  <2>3. TypeOK'
    BY <1>6, <2>2 DEF WriteDone, WReturn, TypeOK, Res, Lock
  <2>4. Len(sent) \in Nat /\ Len(rcvd) \in Nat /\ ons \in Nat
    BY LenProperties DEF TypeOK
  <2>5. QED
    BY <1>6, <2>2, <2>3, <2>4 DEF WriteDone, WReturn
<1>7. QED
  BY <1>1, <1>2, <1>3, <1>4, <1>5, <1>6 DEF WriteCode

(* The steps of nxs_pipesem_read. *)
LEMMA ReadStep ==
  ASSUME IInv, ReadCall \/ ReadCode
  PROVE  IInv'
<1> USE DEF IInv, SectionLocks, CallShape, Permits, WPc, RPc, WriteSection,
            ReadSection, wvars, rvars
<1>1. CASE ReadCall
  <2>1. rbuf' \in Seq(Byte) /\ rwant' \in Nat
    BY <1>1, NoBytes DEF ReadCall, TypeOK
  <2>2. TypeOK'
    BY <1>1, <2>1 DEF ReadCall, TypeOK
  <2>3. QED
    BY <1>1, <2>2 DEF ReadCall
<1>2. CASE ReadUnlockedPoll
  <2>1. TypeOK'
    BY <1>2 DEF ReadUnlockedPoll, RReturn, TypeOK, Res
  <2>2. QED
    BY <1>2, <2>1 DEF ReadUnlockedPoll, RReturn
<1>3. CASE ReadFionread
  <2>1. TypeOK'
    BY <1>3 DEF ReadFionread, RReturn, TypeOK, Res
  <2>2. QED
    BY <1>3, <2>1 DEF ReadFionread, RReturn
<1>4. CASE ReadCore
  <2>1. rpc \in {"hdr", "body", "flush"} /\ Len(rbuf) \in Nat
        /\ Len(pipe) \in Nat /\ Len(rbuf) < rwant /\ rwant \in Nat
    BY <1>4, LenProperties DEF ReadCore, TypeOK
  <2>2. CASE Pull /\ UNCHANGED rres
    <3> DEFINE n == Least(Len(pipe), rwant - Len(rbuf))
               bytes == rbuf \o SubSeq(pipe, 1, n)
    <3>1. n \in Nat /\ n <= Len(pipe) /\ Len(rbuf) + n <= rwant
      BY <2>1 DEF Least
    <3>2. SubSeq(pipe, 1, n) \in Seq(Byte) /\ Len(SubSeq(pipe, 1, n)) = n
      <4> HIDE DEF n
      <4>1. pipe \in Seq(Byte)
        BY DEF TypeOK
      <4>2. QED
        BY <3>1, <4>1, PrefixType
    <3>3. bytes \in Seq(Byte) /\ Len(bytes) = Len(rbuf) + n
      BY <3>2, ConcatProperties DEF TypeOK
    <3>4. pipe' = SubSeq(pipe, n + 1, Len(pipe))
      BY <2>2 DEF Pull
    <3>6. IF Len(bytes) = rwant THEN ReadPart(bytes)
                                ELSE rbuf' = bytes /\ UNCHANGED <<rpc, rwant>>
      BY <2>2 DEF Pull
    <3> HIDE DEF n, bytes
    <3>5. pipe' \in Seq(Byte) /\ Len(pipe') <= PipeCap
      <4>1. pipe \in Seq(Byte) /\ Len(pipe) <= PipeCap
        BY DEF TypeOK
      <4>2. pipe' \in Seq(Byte) /\ Len(pipe') = Len(pipe) - n
        BY <2>1, <3>1, <3>4, <4>1, PieceType
      <4>3. QED
        BY <2>1, <3>1, <4>1, <4>2
    <3>7. CASE Len(bytes) = rwant
      <4>1. rpc = "hdr" => bytes[1] \in Byte
        BY <2>1, <3>3, <3>7, ElementOfSeq
      <4>2. /\ rbuf' \in Seq(Byte) /\ rwant' \in Nat
            /\ rpc' \in {"body", "release", "on_set"}
            /\ rpc' = "body" => Len(rbuf') < rwant'
        <5>1. ReadPart(bytes)
          BY <3>6, <3>7
        <5>2. CASE rpc = "hdr"
          <6>1. /\ rwant' = bytes[1] /\ rbuf' = << >>
                /\ rpc' = IF bytes[1] = 0 THEN "release" ELSE "body"
            BY <5>1, <5>2 DEF ReadPart
          <6>2. bytes[1] \in Nat
            BY <4>1, <5>2 DEF Byte
          <6>3. QED
            BY <6>1, <6>2, NoBytes
        <5>3. CASE rpc = "body"
          BY <2>1, <3>3, <5>1, <5>3 DEF ReadPart
        <5>4. CASE rpc = "flush"
          <6>1. rpc' = "on_set" /\ rbuf' = << >> /\ rwant' = rwant
            BY <5>1, <5>4 DEF ReadPart
          <6>2. QED
            BY <2>1, <6>1, NoBytes
        <5>5. QED
          BY <2>1, <5>2, <5>3, <5>4
      <4>3. TypeOK'
        BY <1>4, <2>2, <3>5, <4>2 DEF ReadCore, TypeOK
      <4>4. QED
        BY <1>4, <2>1, <4>2, <4>3 DEF ReadCore
    <3>8. CASE Len(bytes) # rwant
      <4>1. TypeOK'
        BY <1>4, <2>2, <3>3, <3>5, <3>6, <3>8 DEF ReadCore, TypeOK
      <4>2. QED
        BY <1>4, <2>1, <3>1, <3>3, <3>6, <3>8, <4>1 DEF ReadCore
    <3>9. QED
      BY <3>7, <3>8
  <2>3. CASE /\ rpc' = "idle" /\ rres' \in Res /\ rbuf' = << >>
             /\ UNCHANGED <<pipe, rwant>>
    <3>1. TypeOK'
      BY <1>4, <2>3 DEF ReadCore, TypeOK
    <3>2. QED
      BY <1>4, <2>3, <3>1 DEF ReadCore
  <2>4. QED
    BY <1>4, <2>2, <2>3 DEF ReadCore, RReturn, Res
<1>5. CASE ReadRelease
  <2>1. rcvd' \in Seq(Seq(Byte)) /\ Len(rcvd') = Len(rcvd) + 1
    <3>1. rcvd \in Seq(Seq(Byte)) /\ rbuf \in Seq(Byte)
          /\ rcvd' = Append(rcvd, rbuf)
      BY <1>5 DEF ReadRelease, TypeOK
    <3>2. QED
      BY <3>1, AppendOne
  <2>2. TypeOK'
    BY <1>5, <2>1 DEF ReadRelease, RReturn, TypeOK, Res, Lock
  <2>3. Len(sent) \in Nat /\ Len(rcvd) \in Nat /\ ons \in Nat
    BY LenProperties DEF TypeOK
  <2>4. QED
    BY <1>5, <2>1, <2>2, <2>3 DEF ReadRelease, RReturn
<1>6. QED
  BY <1>1, <1>2, <1>3, <1>4, <1>5 DEF ReadCode

(* The steps of nxs_pipesem_on. *)
LEMMA OnStep ==
  ASSUME IInv, (\E force \in BOOLEAN : OnCall(force)) \/ OnCode
  PROVE  IInv'
<1> USE DEF IInv, SectionLocks, CallShape, Permits, WPc, RPc, WriteSection,
            ReadSection, wvars, rvars
<1>1. CASE \E force \in BOOLEAN : OnCall(force)
  <2>1. rpc' \in {"on_set", "on_force", "on_ask"}
    BY <1>1 DEF OnCall
  <2>2. TypeOK'
    BY <1>1, <2>1 DEF OnCall, TypeOK
  <2>3. QED
    BY <1>1, <2>2 DEF OnCall
<1>2. CASE OnFionread
  <2>1. PICK dl \in Fionread :
          \/ dl > 0 /\ rpc = "on_ask" /\ RReturn("HAVE_DATA")
             /\ UNCHANGED <<rbuf, rwant>>
          \/ dl > 0 /\ rpc = "on_force" /\ rpc' = "flush" /\ rwant' = dl
             /\ rbuf' = << >> /\ UNCHANGED rres
          \/ dl = 0 /\ rpc' = "on_set" /\ UNCHANGED <<rbuf, rwant, rres>>
    BY <1>2 DEF OnFionread
  <2>2. dl \in Nat
    <3>1. Len(pipe) \in Nat
      BY LenProperties DEF TypeOK
    <3>2. QED
      BY <3>1 DEF Fionread
  <2>3. /\ rbuf' \in Seq(Byte) /\ rwant' \in Nat /\ rres' \in Res
        /\ rpc' \in {"idle", "flush", "on_set"}
        /\ rpc' = "flush" => Len(rbuf') < rwant'
    BY <2>1, <2>2, NoBytes DEF RReturn, TypeOK, Res
  <2>4. TypeOK'
    BY <1>2, <2>3 DEF OnFionread, TypeOK
  <2>5. QED
    BY <1>2, <2>3, <2>4 DEF OnFionread
<1>3. CASE OnSet
  <2>1. TypeOK'
    BY <1>3 DEF OnSet, RReturn, TypeOK, Res, Lock
  <2>2. Len(sent) \in Nat /\ Len(rcvd) \in Nat /\ ons \in Nat
    BY LenProperties DEF TypeOK
  <2>3. QED
    BY <1>3, <2>1, <2>2 DEF OnSet, RReturn
<1>4. QED
  BY <1>1, <1>2, <1>3 DEF OnCode

(* Closing, freeing, dying by a signal and exiting. *)
LEMMA EndStep ==
  ASSUME IInv,
         \/ WriteSegv \/ ReadSegv \/ ExitWriter \/ ExitReader
         \/ \E p \in Procs, e \in {"IN", "OUT"} : Close(p, e) \/ Free(p, e)
  PROVE  IInv'
<1> USE DEF IInv, SectionLocks, CallShape, Permits, WPc, RPc, WriteSection,
            ReadSection, wvars, rvars
<1>1. CASE WriteSegv \/ ExitWriter
  <2>1. TypeOK'
    BY <1>1 DEF WriteSegv, ExitWriter, Segv, TypeOK, Procs
  <2>2. QED
    BY <1>1, <2>1 DEF WriteSegv, ExitWriter
<1>2. CASE ReadSegv \/ ExitReader
  <2>1. TypeOK'
    BY <1>2 DEF ReadSegv, ExitReader, Segv, TypeOK, Procs
  <2>2. QED
    BY <1>2, <2>1 DEF ReadSegv, ExitReader
<1>3. CASE \E p \in Procs, e \in {"IN", "OUT"} : Close(p, e) \/ Free(p, e)
  <2>1. PICK p \in Procs, e \in {"IN", "OUT"} : Close(p, e) \/ Free(p, e)
    BY <1>3
  <2>2. /\ ends' = [ends EXCEPT ![p] = @ \ {e}]
        /\ mapped' \in {mapped, [mapped EXCEPT ![p] = FALSE]}
        /\ UNCHANGED <<lock, pipe, wvars, rvars>>
    BY <2>1 DEF Close, Free
  <2>3. ends' \in [Procs -> SUBSET {"IN", "OUT"}] /\ mapped' \in [Procs -> BOOLEAN]
    BY <2>2 DEF TypeOK
  <2>4. TypeOK'
    BY <2>2, <2>3 DEF TypeOK
  <2>5. QED
    BY <2>2, <2>4
<1>4. QED
  BY <1>1, <1>2, <1>3

LEMMA NextIInv == IInv /\ [Next]_vars => IInv'
<1> SUFFICES ASSUME IInv, [Next]_vars PROVE IInv'
  OBVIOUS
<1>1. CASE UNCHANGED vars
  BY <1>1 DEF vars, wvars, rvars, IInv, TypeOK, SectionLocks, CallShape, Permits
<1>2. CASE Next
  BY <1>2, WriteStep, ReadStep, OnStep, EndStep DEF Next
<1>3. QED
  BY <1>1, <1>2

THEOREM Invariance == Spec => []IInv
<1>1. QED
  BY InitIInv, NextIInv, PTL DEF Spec

(* Every variable keeps to the values its C counterpart can have, whatever *)
(* the byte width, the capacity of the pipe and the payloads: in           *)
(* particular nxs_pipesem_write_core and nxs_pipesem_read_core never index *)
(* outside their buffers and the pipe never holds more than it can.        *)
THEOREM TypeCorrect == Spec => []TypeOK
<1>1. IInv => TypeOK
  BY DEF IInv
<1>2. QED
  BY <1>1, Invariance, PTL

(* The lock byte excludes the two processes from each other: the writer    *)
(* between 288 and 327 of nxs-pipesem.c and the reader between its own     *)
(* check and its opening of the lock are never there together.             *)
THEOREM Exclusion == Spec => []MutualExclusion
<1>1. IInv => MutualExclusion
  BY DEF IInv, SectionLocks, MutualExclusion
<1>2. QED
  BY <1>1, Invariance, PTL

(* No more writes succeed than the reader has given permissions for.       *)
THEOREM FlowControl == Spec => []WritesPaidFor
<1>1. IInv => WritesPaidFor
  <2> SUFFICES ASSUME IInv PROVE WritesPaidFor
    OBVIOUS
  <2>1. Len(sent) \in Nat /\ Len(rcvd) \in Nat /\ ons \in Nat
    BY LenProperties DEF IInv, TypeOK
  <2>2. QED
    BY <2>1 DEF IInv, Permits, WritesPaidFor
<1>2. QED
  BY <1>1, Invariance, PTL
-----------------------------------------------------------------------------
(* The values the refinement mapping gives to the variables of PipeTurn.   *)
turnOf == CASE lock = "OFF" -> "off" [] lock = "OPEN" -> "writer"
            [] lock = "CLOSE" -> "reader"
userOf == IF wpc \in WriteSection THEN "writer"
          ELSE IF rpc \in ReadSection THEN "reader" ELSE "nobody"

LEMMA TurnInit == Init => Turn!Init
  BY DEF Init, Turn!Init, WriteSection, ReadSection

(* Every step of the processes is a step of the turn or leaves it alone.   *)
LEMMA TurnNext == IInv /\ IInv' /\ [Next]_vars => [Turn!Next]_(Turn!vars)
<1> SUFFICES ASSUME IInv, IInv', [Next]_vars
             PROVE  Turn!Next \/ UNCHANGED <<turnOf, userOf>>
  BY DEF Turn!vars, turnOf, userOf
<1> USE DEF turnOf, userOf, WriteSection, ReadSection, wvars, rvars
<1>0. SectionLocks /\ SectionLocks'
  BY DEF IInv
<1>1. CASE UNCHANGED vars
  BY <1>1 DEF vars
<1>2. CASE \E m \in Msgs : WriteCall(m)
  <2>1. Turn!WriterEnter
    BY <1>0, <1>2 DEF WriteCall, SectionLocks, Turn!WriterEnter
  <2>2. QED
    BY <2>1 DEF Turn!Next
<1>3. CASE WriteCallLocked \/ WriteLockedPoll
  BY <1>3 DEF WriteCallLocked, WriteLockedPoll, WReturn
<1>4. CASE WritePoll \/ WriteAsleep \/ WriteDone
  <2>1. wpc \in WriteSection /\ UNCHANGED rvars
    BY <1>4 DEF WritePoll, WriteAsleep, WriteDone
  <2>2. CASE wpc' \in WriteSection
    BY <1>4, <2>1, <2>2 DEF WritePoll, WriteAsleep, WriteDone, WReturn
  <2>3. CASE wpc' \notin WriteSection
    <3>1. lock' \in {lock, "CLOSE"}
      BY <1>4 DEF WritePoll, WriteAsleep, WriteDone
    <3>2. Turn!WriterLeave
      BY <1>0, <2>1, <2>3, <3>1 DEF SectionLocks, Turn!WriterLeave
    <3>3. QED
      BY <3>2 DEF Turn!Next
  <2>4. QED
    BY <2>2, <2>3
<1>5. CASE ReadCall
  <2>1. CASE lock = "CLOSE"
    <3>1. Turn!ReaderEnter
      BY <1>0, <1>5, <2>1 DEF ReadCall, SectionLocks, Turn!ReaderEnter
    <3>2. QED
      BY <3>1 DEF Turn!Next
  <2>2. CASE lock # "CLOSE"
    BY <1>5, <2>2 DEF ReadCall
  <2>3. QED
    BY <2>1, <2>2
<1>6. CASE ReadUnlockedPoll \/ ReadFionread
  BY <1>6 DEF ReadUnlockedPoll, ReadFionread, RReturn
<1>7. CASE ReadCore \/ ReadRelease
  <2>1. rpc \in ReadSection /\ UNCHANGED wvars
    BY <1>7 DEF ReadCore, ReadRelease
  <2>2. wpc \notin WriteSection /\ wpc' \notin WriteSection /\ lock = "CLOSE"
    BY <1>0, <2>1 DEF SectionLocks
  <2>3. lock' \in {lock, "OPEN"} /\ (lock' # lock => rpc' = "idle")
    BY <1>7 DEF ReadCore, ReadRelease, RReturn
  <2>4. CASE rpc' \in ReadSection
    BY <2>1, <2>2, <2>3, <2>4
  <2>5. CASE rpc' \notin ReadSection
    <3>1. Turn!ReaderLeave
      BY <2>1, <2>2, <2>3, <2>5 DEF Turn!ReaderLeave
    <3>2. QED
      BY <3>1 DEF Turn!Next
  <2>6. QED
    BY <2>4, <2>5
<1>8. CASE \E force \in BOOLEAN : OnCall(force)
  BY <1>8 DEF OnCall
<1>9. CASE OnFionread
  <2>1. rpc' \in {"idle", "flush", "on_set"} /\ UNCHANGED <<lock, wvars>>
        /\ rpc \in {"on_ask", "on_force"}
    BY <1>9 DEF OnFionread, RReturn
  <2>2. CASE rpc' = "flush"
    <3>1. Turn!ReaderEnter
      BY <1>0, <2>1, <2>2 DEF SectionLocks, Turn!ReaderEnter
    <3>2. QED
      BY <3>1 DEF Turn!Next
  <2>3. CASE rpc' # "flush"
    BY <2>1, <2>3
  <2>4. QED
    BY <2>2, <2>3
<1>10. CASE OnSet
  <2>1. Turn!Enable
    BY <1>10 DEF OnSet, RReturn, Turn!Enable
  <2>2. QED
    BY <2>1 DEF Turn!Next
<1>11. CASE WriteSegv \/ ExitWriter
  <2>1. wpc' = "dead" /\ UNCHANGED <<lock, rvars>>
    BY <1>11 DEF WriteSegv, ExitWriter
  <2>2. CASE wpc \in WriteSection
    <3>1. Turn!WriterLeave
      BY <1>0, <2>1, <2>2 DEF SectionLocks, Turn!WriterLeave
    <3>2. QED
      BY <3>1 DEF Turn!Next
  <2>3. CASE wpc \notin WriteSection
    BY <2>1, <2>3
  <2>4. QED
    BY <2>2, <2>3
<1>12. CASE ReadSegv \/ ExitReader
  <2>1. rpc' = "dead" /\ UNCHANGED <<lock, wvars>>
    BY <1>12 DEF ReadSegv, ExitReader
  <2>2. CASE rpc \in ReadSection
    <3>1. Turn!ReaderLeave
      BY <1>0, <2>1, <2>2 DEF SectionLocks, Turn!ReaderLeave
    <3>2. QED
      BY <3>1 DEF Turn!Next
  <2>3. CASE rpc \notin ReadSection
    BY <2>1, <2>3
  <2>4. QED
    BY <2>2, <2>3
<1>13. CASE \E p \in Procs, e \in {"IN", "OUT"} : Close(p, e) \/ Free(p, e)
  BY <1>13 DEF Close, Free
<1>14. QED
  BY <1>1, <1>2, <1>3, <1>4, <1>5, <1>6, <1>7, <1>8, <1>9, <1>10, <1>11,
     <1>12, <1>13 DEF Next, WriteCode, ReadCode, OnCode

(* The lock byte with the two processes' sections implements PipeTurn.     *)
THEOREM TurnRefinement == Spec => TurnSpec
<1>1. Init => Turn!Init
  BY TurnInit
<1>2. IInv /\ IInv' /\ [Next]_vars => [Turn!Next]_(Turn!vars)
  BY TurnNext
<1>3. QED
  BY <1>1, <1>2, Invariance, PTL DEF Spec, TurnSpec, Turn!Spec
=============================================================================

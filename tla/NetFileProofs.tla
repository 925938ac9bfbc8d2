--------------------------- MODULE NetFileProofs ----------------------------
(***************************************************************************)
(* The safety invariants of NetFile.                                       *)
(***************************************************************************)
EXTENDS NetFile, TLAPS

USE NetFileAssumption

-----------------------------------------------------------------------------
(***************************************************************************)
(* Files and messages                                                      *)
(***************************************************************************)

(* A file is a sequence of at most MaxBlocks blocks. *)
LEMMA FileSeq ==
  ASSUME NEW s
  PROVE  s \in File <=> s \in Seq(0 .. MaxEdits) /\ Len(s) <= MaxBlocks
<1>1. ASSUME s \in File
      PROVE  s \in Seq(0 .. MaxEdits) /\ Len(s) <= MaxBlocks
  <2>1. PICK n \in 0 .. MaxBlocks : s \in [1 .. n -> 0 .. MaxEdits]
    BY <1>1 DEF File
  <2> QED BY <2>1
<1>2. ASSUME s \in Seq(0 .. MaxEdits), Len(s) <= MaxBlocks
      PROVE  s \in File
  <2>1. Len(s) \in 0 .. MaxBlocks
    BY <1>2
  <2>2. s \in [1 .. Len(s) -> 0 .. MaxEdits]
    BY <1>2
  <2> QED BY <2>1, <2>2 DEF File
<1> QED BY <1>1, <1>2

(* An empty file and one written by one edit are files. *)
LEMMA FileWritten ==
  /\ << >> \in File
  /\ \A n \in 0 .. MaxBlocks, e \in 0 .. MaxEdits : [i \in 1 .. n |-> e] \in File
<1>1. << >> \in Seq(0 .. MaxEdits) /\ Len(<< >>) <= MaxBlocks
  OBVIOUS
<1>2. ASSUME NEW n \in 0 .. MaxBlocks, NEW e \in 0 .. MaxEdits
      PROVE  [i \in 1 .. n |-> e] \in File
  BY DEF File
<1> QED BY <1>1, <1>2, FileSeq

LEMMA FileAppend ==
  ASSUME NEW s \in File, NEW e \in 0 .. MaxEdits, Len(s) < MaxBlocks
  PROVE  Append(s, e) \in File
<1>1. s \in Seq(0 .. MaxEdits)
  BY FileSeq
<1> DEFINE t == Append(s, e)
<1>2. t \in Seq(0 .. MaxEdits) /\ Len(t) = Len(s) + 1 /\ Len(s) \in Nat
  BY <1>1
<1> HIDE DEF t
<1>3. t \in File
  BY <1>2, FileSeq
<1> QED BY <1>3 DEF t

(* What a message holds *)
LEMMA MessageParts ==
  /\ \A m \in Message :
       /\ m.kind \in {"hdr", "cancel", "stop", "cut", "block"}
       /\ m.kind = "hdr" => m.size \in 0 .. MaxBlocks /\ m.confirm \in BOOLEAN
       /\ m.kind = "block" => m.data \in 0 .. MaxEdits
  /\ \A n \in 0 .. MaxBlocks, c \in BOOLEAN :
       [kind |-> "hdr", size |-> n, confirm |-> c] \in Message
  /\ \A k \in {"cancel", "stop", "cut"} : [kind |-> k] \in Message
  /\ \A d \in 0 .. MaxEdits : [kind |-> "block", data |-> d] \in Message
BY DEF Message

(* What can be added to a channel, and taken from it, keeps its type. *)
LEMMA EmptySeq == \A S : << >> \in Seq(S)
OBVIOUS

LEMMA ChannelKept ==
  ASSUME NEW M, NEW ch \in Seq(M)
  PROVE  /\ \A m \in M : Append(ch, m) \in Seq(M)
         /\ HasMsg(ch) => /\ Tail(ch) \in Seq(M) /\ Head(ch) \in M
                          /\ Len(Tail(ch)) = Len(ch) - 1 /\ Len(ch) > 0
BY DEF HasMsg

-----------------------------------------------------------------------------
(***************************************************************************)
(* Types, and what each function knows at each of its steps                *)
(***************************************************************************)
Typed == TypeOK /\ Shape

LEMMA InitTyped == Init => Typed
<1> SUFFICES ASSUME Init PROVE Typed
  OBVIOUS
<1> USE DEF Init
<1>1. files \in [Inode -> File]
  <2>1. ASSUME NEW i \in Inode PROVE files[i] \in File
    <3>1. PICK n \in 0 .. MaxBlocks : files[i] = [j \in 1 .. n |-> 0]
      OBVIOUS
    <3>2. 0 \in 0 .. MaxEdits
      OBVIOUS
    <3> QED BY ONLY <3>1, <3>2, FileWritten
  <2> QED BY <2>1
<1>2. 1 \in Inode /\ << >> \in File
  BY FileWritten DEF Inode
<1>3. FileTypes /\ ChannelTypes
  BY <1>1, <1>2 DEF FileTypes, ChannelTypes
<1>4. SenderTypes /\ ReceiverTypes
  <2>1. SenderTypes
    <3>1. spc \in {"idle"} /\ conf \in BOOLEAN /\ event \in BOOLEAN
      OBVIOUS
    <3>2. sdone \in Seq(SendResult)
      BY EmptySeq
    <3>3. sdata \in File /\ checked \in File
      BY <1>2
    <3>4. slb \in 0 .. MaxBlocks /\ watch \in {0} /\ ifd \in {0} /\ sec = "OK"
      OBVIOUS
    <3> QED BY ONLY <3>1, <3>2, <3>3, <3>4 DEF SenderTypes
  <2>2. ReceiverTypes
    <3>1. rdone \in Seq(RecvResult)
      BY EmptySeq
    <3>2. dst \in File /\ rconf \in BOOLEAN
      BY <1>2
    <3>3. rlb \in 0 .. MaxBlocks /\ rec = "OK" /\ rpc = "idle"
      OBVIOUS
    <3> QED BY ONLY <3>1, <3>2, <3>3 DEF ReceiverTypes, RecvCodes
  <2> QED BY <2>1, <2>2
<1>5. Shape
  BY DEF Shape, SenderShape, ReceiverShape, Inside, Sent, Early
<1> QED
  BY <1>3, <1>4, <1>5 DEF Typed, TypeOK

(* What a step leaves alone keeps its type and its shape. *)
LEMMA SameTyped ==
  ASSUME Typed
  PROVE  /\ UNCHANGED <<faults, fvars, held>> => FileTypes'
         /\ UNCHANGED nvars => ChannelTypes'
         /\ UNCHANGED svars => SenderTypes' /\ SenderShape'
         /\ UNCHANGED rvars => ReceiverTypes' /\ ReceiverShape'
<1>1. UNCHANGED <<faults, fvars, held>> => FileTypes'
  BY DEF Typed, TypeOK, FileTypes, fvars
<1>2. UNCHANGED nvars => ChannelTypes'
  BY DEF Typed, TypeOK, ChannelTypes, nvars
<1>3. UNCHANGED svars => SenderTypes' /\ SenderShape'
  BY DEF Typed, TypeOK, Shape, SenderTypes, SenderShape, svars
<1>4. UNCHANGED rvars => ReceiverTypes' /\ ReceiverShape'
  BY DEF Typed, TypeOK, Shape, ReceiverTypes, ReceiverShape, rvars
<1> QED BY <1>1, <1>2, <1>3, <1>4

LEMMA EditTyped == Typed /\ Edit => Typed'
<1> SUFFICES ASSUME Typed, Edit PROVE Typed'
  OBVIOUS
<1>1. /\ event' \in BOOLEAN /\ UNCHANGED <<nvars, rvars>>
      /\ UNCHANGED <<spc, conf, sec, slb, watch, ifd, sdata, checked, sdone>>
  BY DEF Edit, Rewrite, Replace, Remove, Unlinked, Typed, TypeOK, SenderTypes
<1>2. ChannelTypes' /\ ReceiverTypes' /\ ReceiverShape'
  BY <1>1, SameTyped
<1>3. SenderTypes' /\ SenderShape'
  BY <1>1 DEF Typed, TypeOK, Shape, SenderTypes, SenderShape
<1>4. path' <= edits' + 1 /\ watch' <= edits' + 1
  BY <1>1 DEF Edit, Rewrite, Replace, Remove, Typed, TypeOK, Shape, FileTypes,
     SenderTypes, Inode
<1>5. ASSUME NEW n \in 0 .. MaxBlocks, Rewrite(n) \/ Replace(n) PROVE FileTypes'
  <2> DEFINE w == [i \in 1 .. n |-> edits + 1]
  <2>1. edits + 1 \in 0 .. MaxEdits /\ edits' \in 0 .. MaxEdits
    BY <1>5 DEF Rewrite, Replace, Typed, TypeOK, FileTypes
  <2>2. w \in File
    BY <2>1, FileWritten
  <2>3. /\ path' \in Inode /\ files' = [files EXCEPT ![path'] = w]
        /\ held' = held \cup {files'[path']} /\ UNCHANGED faults
    <3>1. CASE Rewrite(n)
      BY <3>1 DEF Rewrite, Typed, TypeOK, FileTypes, Inode
    <3>2. CASE Replace(n)
      BY <3>2 DEF Replace, Unlinked, Typed, TypeOK, FileTypes, Inode
    <3> QED BY <1>5, <3>1, <3>2
  <2> HIDE DEF w
  <2>4. files' \in [Inode -> File] /\ files'[path'] = w
    BY <2>2, <2>3 DEF Typed, TypeOK, FileTypes
  <2> QED BY <2>1, <2>2, <2>3, <2>4 DEF Typed, TypeOK, FileTypes
<1>6. ASSUME Remove PROVE FileTypes'
  BY <1>6 DEF Remove, Unlinked, Typed, TypeOK, FileTypes
<1>7. FileTypes'
  BY <1>5, <1>6 DEF Edit
<1> QED BY <1>2, <1>3, <1>4, <1>7 DEF Typed, TypeOK, Shape

(* Where the steps of nxs_net_send_file neither send nor receive *)
LEMMA SendTyped ==
  ASSUME Typed
  PROVE  /\ \A c \in BOOLEAN : SendCall(c) => Typed'
         /\ SendPrep \/ SendWatch \/ SendOpen => Typed'
         /\ SendCheck \/ SendRead => Typed'
<1>0. ASSUME SenderTypes', SenderShape', FileTypes', watch' \in {watch, path},
             UNCHANGED <<fvars, nvars, rvars>>
      PROVE  Typed'
  <2>1. ChannelTypes' /\ ReceiverTypes' /\ ReceiverShape'
    BY <1>0, SameTyped
  <2> QED BY <1>0, <2>1 DEF Typed, TypeOK, Shape, fvars
<1>1. ASSUME NEW c \in BOOLEAN, SendCall(c) PROVE Typed'
  <2>1. FileTypes'
    BY <1>1 DEF SendCall, Typed, TypeOK, FileTypes, fvars, Inode
  <2>2. SenderTypes'
    <3>1. spc' = "prep" /\ conf' \in BOOLEAN /\ event' \in BOOLEAN
      BY <1>1 DEF SendCall
    <3>2. sdata' \in File /\ checked' \in File
      BY <1>1, FileWritten DEF SendCall
    <3>3. slb' = 0 /\ sec' = "OK" /\ UNCHANGED <<watch, ifd, sdone>>
      BY <1>1 DEF SendCall
    <3> QED BY ONLY <3>1, <3>2, <3>3, Typed, NetFileAssumption DEF Typed,
               TypeOK, SenderTypes
  <2>3. SenderShape'
    BY <1>1 DEF SendCall, Typed, TypeOK, Shape, SenderShape, SenderTypes,
       Inside, Sent, Early, Cancels
  <2> QED BY <1>0, <1>1, <2>1, <2>2, <2>3 DEF SendCall
<1>2. ASSUME SendPrep \/ SendWatch \/ SendOpen PROVE Typed'
  <2>1. /\ watch' \in {watch, path} /\ UNCHANGED <<faults, fvars, held, nvars, rvars>>
        /\ spc' \in {"emrg", "watch", "open", "hdr"} /\ spc \in Early \ {"idle"}
        /\ UNCHANGED sdata /\ (spc' = "emrg" => sec' \in Cancels)
        /\ (spc' = "hdr" => ifd' # 0)
    BY <1>2 DEF SendPrep, SendWatch, SendOpen, Emergency, Early, Cancels
  <2>2. FileTypes'
    BY <2>1, SameTyped
  <2>3. SenderTypes'
    BY <1>2, FileSeq DEF SendPrep, SendWatch, SendOpen, Emergency, Typed,
       TypeOK, SenderTypes, FileTypes, Cancels
  <2>4. SenderShape'
    BY <2>1 DEF Typed, Shape, SenderShape, Inside, Sent
  <2> QED BY <1>0, <2>1, <2>2, <2>3, <2>4
<1>3. ASSUME SendCheck \/ SendRead PROVE Typed'
  <2>1. /\ UNCHANGED <<faults, fvars, held, nvars, rvars, slb, watch, ifd>>
        /\ spc' \in {"cancel", "read", "block"} /\ spc \in Inside
        /\ (spc' = "cancel" => sec' \in Cancels)
    BY <1>3 DEF SendCheck, SendRead, CancelBy, Inside, Cancels
  <2>2. FileTypes'
    BY <2>1, SameTyped
  <2>3. ifd \in Inode /\ files[ifd] \in File
    BY <2>1 DEF Typed, TypeOK, Shape, SenderTypes, SenderShape, FileTypes
  <2>4. sdata' \in File /\ (spc' = "block" => sdata' # << >>)
    <3>1. CASE UNCHANGED sdata /\ spc' # "block"
      BY <3>1 DEF Typed, TypeOK, SenderTypes
    <3>2. CASE /\ Len(sdata) < Len(files[ifd])
               /\ sdata' = Append(sdata, files[ifd][Len(sdata) + 1])
      <4>1. PICK f \in File : /\ Len(sdata) < Len(f)
                              /\ sdata' = Append(sdata, f[Len(sdata) + 1])
        BY <2>3, <3>2
      <4>2. /\ f \in Seq(0 .. MaxEdits) /\ Len(f) <= MaxBlocks
            /\ sdata \in File /\ sdata \in Seq(0 .. MaxEdits)
        BY FileSeq DEF Typed, TypeOK, SenderTypes
      <4>3. f[Len(sdata) + 1] \in 0 .. MaxEdits /\ Len(sdata) < MaxBlocks
        BY <4>1, <4>2
      <4>4. Len(sdata') > 0
        BY <4>1, <4>2, <4>3
      <4>5. sdata' # << >>
        BY <4>4
      <4> QED BY <4>1, <4>2, <4>3, <4>5, FileAppend
    <3> QED BY <1>3, <3>1, <3>2 DEF SendCheck, SendRead, CancelBy
  <2>5. SenderTypes'
    BY <1>3, <2>3, <2>4 DEF SendCheck, SendRead, CancelBy, Typed, TypeOK,
       SenderTypes, Cancels
  <2>6. SenderShape'
    BY <2>1, <2>3, <2>4 DEF Typed, Shape, SenderShape, Early, Inside, Sent,
       Inode
  <2> QED BY <1>0, <2>1, <2>2, <2>5, <2>6
<1> QED BY <1>1, <1>2, <1>3

(* What is under way after an attempt to send *)
LEMMA OutTyped ==
  ASSUME Typed, NEW m \in Message, Out(s2r, m) \/ OutFails(s2r, "rcv"),
         UNCHANGED <<up, r2s>>
  PROVE  ChannelTypes'
<1>1. s2r \in Seq(Message) /\ [kind |-> "cut"] \in Message
  BY MessageParts DEF Typed, TypeOK, ChannelTypes
<1>2. \/ UNCHANGED s2r
      \/ \E x \in Message : s2r' = Append(s2r, x)
  BY <1>1 DEF Out, OutFails
<1>3. s2r' \in Seq(Message)
  BY <1>1, <1>2, ChannelKept
<1> QED BY <1>3 DEF Typed, TypeOK, ChannelTypes

LEMMA SendReturnTyped ==
  ASSUME Typed, NEW ec \in SendCodes, SendReturn(ec), slb' \in 0 .. MaxBlocks,
         UNCHANGED <<conf, sec, sdata, checked>>
  PROVE  SenderTypes' /\ SenderShape' /\ watch' = 0
<1> DEFINE r == [res |-> ec, confirm |-> conf, data |-> sdata,
                 snapshot |-> sdata \in held,
                 atcheck |-> watch = ifd /\ sdata # << >> =>
                               Prefix(SubSeq(sdata, 1, Len(sdata) - 1), checked)]
<1>1. r \in SendResult
  <2>1. conf \in BOOLEAN /\ sdata \in File
    BY DEF Typed, TypeOK, SenderTypes
  <2> QED BY <2>1 DEF SendResult
<1>2. sdone' = Append(sdone, r)
  BY DEF SendReturn
<1> HIDE DEF r
<1>3. sdone' \in Seq(SendResult)
  BY <1>1, <1>2 DEF Typed, TypeOK, SenderTypes
<1>4. spc' \in {"idle", "fatal"} /\ watch' = 0 /\ ifd' = 0 /\ event' = FALSE
  BY DEF SendReturn
<1>5. SenderTypes'
  BY <1>3, <1>4 DEF Typed, TypeOK, SenderTypes
<1>6. SenderShape'
  BY <1>4 DEF SenderShape, Inside, Sent, Early
<1> QED BY <1>4, <1>5, <1>6

(* The steps of nxs_net_send_file that send, and its ends *)
LEMMA SendTyped2 ==
  ASSUME Typed
  PROVE  /\ SendEmergency \/ SendHdr \/ SendBlock \/ SendCancel => Typed'
         /\ SendConfirm \/ SendDone \/ SendClose => Typed'
<1> USE DEF Cancels
<1>0. ASSUME SenderTypes', SenderShape', ChannelTypes',
             watch' = 0 \/ UNCHANGED watch,
             UNCHANGED <<faults, fvars, held, rvars>>
      PROVE  Typed'
  <2>1. FileTypes' /\ ReceiverTypes' /\ ReceiverShape'
    BY <1>0, SameTyped
  <2>2. path <= edits + 1 /\ watch <= edits + 1 /\ 0 <= edits + 1
    BY DEF Typed, Shape, TypeOK, FileTypes
  <2> QED BY <1>0, <2>1, <2>2 DEF Typed, TypeOK, Shape, fvars
<1>1. ASSUME SendEmergency \/ SendCancel PROVE Typed'
  <2>1. ChannelTypes'
    BY <1>1, OutTyped, MessageParts DEF SendEmergency, SendCancel, SendOut
  <2>2. sec \in SendCodes
    BY <1>1 DEF SendEmergency, SendCancel, Typed, Shape, SenderShape, SendCodes
  <2>3. SenderTypes' /\ SenderShape' /\ watch' = 0
    <3>1. slb' \in 0 .. MaxBlocks /\ UNCHANGED <<conf, sec, sdata, checked>>
      BY <1>1 DEF SendEmergency, SendCancel, Typed, TypeOK, SenderTypes
    <3>2. SendReturn(sec) \/ SendReturn("NETWORK")
      BY <1>1 DEF SendEmergency, SendCancel, SendOut
    <3> QED BY <2>2, <3>1, <3>2, SendReturnTyped DEF SendCodes
  <2> QED BY <1>0, <1>1, <2>1, <2>3 DEF SendEmergency, SendCancel
<1>2. ASSUME SendDone PROVE Typed'
  <2>1. ChannelTypes'
    BY <1>2, SameTyped DEF SendDone
  <2>2. SenderTypes' /\ SenderShape' /\ watch' = 0
    <3>1. slb' \in 0 .. MaxBlocks
      BY <1>2 DEF SendDone, Typed, TypeOK, SenderTypes
    <3> QED BY <1>2, <3>1, SendReturnTyped DEF SendDone, SendCodes
  <2> QED BY <1>0, <1>2, <2>1, <2>2 DEF SendDone
<1>3. ASSUME SendConfirm PROVE Typed'
  <2>1. ChannelTypes'
    <3>1. UNCHANGED <<up, s2r>> /\ (UNCHANGED r2s \/ (HasMsg(r2s) /\ r2s' = Tail(r2s)))
      BY <1>3 DEF SendConfirm
    <3> QED BY <3>1, ChannelKept DEF Typed, TypeOK, ChannelTypes
  <2>2. SenderTypes' /\ SenderShape' /\ watch' = 0
    <3>1. slb' \in 0 .. MaxBlocks /\ UNCHANGED <<conf, sec, sdata, checked>>
      BY <1>3 DEF SendConfirm, Typed, TypeOK, SenderTypes
    <3>2. \E ec \in {"OK", "CONFIRM_NEGATIVE", "NETWORK"} : SendReturn(ec)
      BY <1>3 DEF SendConfirm
    <3> QED BY <3>1, <3>2, SendReturnTyped DEF SendCodes
  <2> QED BY <1>0, <1>3, <2>1, <2>2 DEF SendConfirm
<1>4. ASSUME SendClose PROVE Typed'
  <2>1. ChannelTypes'
    BY <1>4 DEF SendClose, Typed, TypeOK, ChannelTypes
  <2>2. SenderTypes'
    BY <1>4 DEF SendClose, Typed, TypeOK, SenderTypes
  <2>3. SenderShape'
    BY <1>4 DEF SendClose, SenderShape, Inside, Sent, Early
  <2>4. UNCHANGED <<faults, fvars, held, rvars, watch>>
    BY <1>4 DEF SendClose
  <2> QED BY <1>0, <2>1, <2>2, <2>3, <2>4
<1>5. ASSUME SendHdr PROVE Typed'
  <2>1. ChannelTypes'
    <3>1. slb \in 0 .. MaxBlocks /\ conf \in BOOLEAN
      BY DEF Typed, TypeOK, SenderTypes
    <3> QED BY <1>5, <3>1, OutTyped, MessageParts DEF SendHdr, SendOut
  <2>2. CASE SendReturn("NETWORK")
    <3>1. SenderTypes' /\ SenderShape' /\ watch' = 0
      <4>1. slb' \in 0 .. MaxBlocks
        BY <1>5 DEF SendHdr, Typed, TypeOK, SenderTypes
      <4> QED BY <1>5, <2>2, <4>1, SendReturnTyped DEF SendHdr, SendCodes
    <3> QED BY <1>0, <1>5, <2>1, <3>1 DEF SendHdr
  <2>3. CASE spc' = AfterBlocks(slb) /\ UNCHANGED <<watch, ifd, event, sdone>>
    <3>1. SenderTypes'
      BY <1>5, <2>3 DEF SendHdr, AfterBlocks, Typed, TypeOK, SenderTypes
    <3>2. SenderShape'
      BY <1>5, <2>3 DEF SendHdr, AfterBlocks, Typed, TypeOK, Shape,
         SenderTypes, SenderShape, Inside, Sent, Early
    <3> QED BY <1>0, <1>5, <2>1, <2>3, <3>1, <3>2 DEF SendHdr
  <2> QED BY <1>5, <2>2, <2>3 DEF SendHdr, SendOut
<1>6. ASSUME SendBlock PROVE Typed'
  <2>1. ChannelTypes'
    <3>1. sdata \in Seq(0 .. MaxEdits) /\ sdata # << >>
      BY <1>6, FileSeq DEF SendBlock, Typed, TypeOK, SenderTypes, Shape,
         SenderShape
    <3>2. sdata[Len(sdata)] \in 0 .. MaxEdits
      BY <3>1
    <3> QED BY <1>6, <3>2, OutTyped, MessageParts DEF SendBlock
  <2>2. CASE SendReturn("NETWORK") /\ UNCHANGED slb
    <3>1. SenderTypes' /\ SenderShape' /\ watch' = 0
      <4>1. slb' \in 0 .. MaxBlocks
        BY <2>2 DEF Typed, TypeOK, SenderTypes
      <4> QED BY <1>6, <2>2, <4>1, SendReturnTyped DEF SendBlock, SendCodes
    <3> QED BY <1>0, <1>6, <2>1, <3>1 DEF SendBlock
  <2>3. CASE /\ slb' = slb - 1 /\ spc' = AfterBlocks(slb - 1)
             /\ UNCHANGED <<watch, ifd, event, sdone>>
    <3>1. slb' \in 0 .. MaxBlocks /\ slb \in 1 .. MaxBlocks
      BY <1>6, <2>3 DEF SendBlock, Typed, TypeOK, Shape, SenderTypes,
         SenderShape, Inside
    <3>2. SenderTypes'
      BY <1>6, <2>3, <3>1 DEF SendBlock, AfterBlocks, Typed, TypeOK,
         SenderTypes
    <3>3. SenderShape'
      BY <1>6, <2>3, <3>1 DEF SendBlock, AfterBlocks, Typed, TypeOK, Shape,
         SenderTypes, SenderShape, Inside, Sent, Early
    <3> QED BY <1>0, <1>6, <2>1, <2>3, <3>2, <3>3 DEF SendBlock
  <2> QED BY <1>6, <2>2, <2>3 DEF SendBlock
<1> QED BY <1>1, <1>2, <1>3, <1>4, <1>5, <1>6

(* The end of nxs_net_recv_file *)
LEMMA RecvReturnTyped ==
  ASSUME Typed, NEW ec \in RecvCodes, NEW data \in File, RecvReturn(ec, data),
         rconf' \in BOOLEAN, rlb' \in 0 .. MaxBlocks, dst' \in File
  PROVE  ReceiverTypes' /\ ReceiverShape'
<1> DEFINE r == [res |-> ec, data |-> data]
<1>1. r \in RecvResult
  BY DEF RecvResult
<1>2. rdone' = Append(rdone, r) /\ rec' = ec /\ rpc' \in {"idle", "fatal"}
  BY DEF RecvReturn
<1> HIDE DEF r
<1>3. rdone' \in Seq(RecvResult)
  BY <1>1, <1>2 DEF Typed, TypeOK, ReceiverTypes
<1>4. ReceiverTypes'
  BY <1>2, <1>3 DEF ReceiverTypes
<1>5. ReceiverShape'
  BY <1>2 DEF ReceiverShape
<1> QED BY <1>4, <1>5

LEMMA RecvTyped == Typed /\ RecvCode => Typed'
<1> SUFFICES ASSUME Typed, RecvCode PROVE Typed'
  OBVIOUS
<1>0. /\ rconf \in BOOLEAN /\ rlb \in 0 .. MaxBlocks /\ dst \in File /\ << >> \in File
      /\ rec \in RecvCodes /\ rdone \in Seq(RecvResult)
      /\ rpc \in {"idle", "hdr", "open", "block", "attrs", "confirm", "fatal",
                  "closed"}
      /\ s2r \in Seq(Message) /\ r2s \in Seq(Answers) /\ up \subseteq {"snd", "rcv"}
      /\ rpc = "block" => rlb > 0 /\ Len(dst) + rlb <= MaxBlocks
      /\ rpc = "confirm" => rec \in {"OK", "ATTRS"}
  BY FileWritten DEF Typed, TypeOK, ReceiverTypes, ChannelTypes, Shape,
     ReceiverShape
<1>1. ASSUME ReceiverTypes', ReceiverShape', ChannelTypes',
             UNCHANGED <<faults, fvars, held, svars>>
      PROVE  Typed'
  <2>1. FileTypes' /\ SenderTypes' /\ SenderShape'
    BY <1>1, SameTyped
  <2>2. path' <= edits' + 1 /\ watch' <= edits' + 1
    BY <1>1 DEF Typed, Shape, fvars, svars
  <2> QED BY <1>1, <2>1, <2>2 DEF Typed, TypeOK, Shape
<1>2. CASE RecvCall
  <2>1. ChannelTypes'
    BY <1>2, SameTyped DEF RecvCall
  <2>2. UNCHANGED <<rconf, rlb, dst>>
    BY <1>2 DEF RecvCall
  <2>3. ReceiverTypes' /\ ReceiverShape'
    <3>1. CASE RecvReturn("OPT", << >>)
      BY <1>0, <2>2, <3>1, RecvReturnTyped DEF RecvCodes
    <3>2. CASE rpc' = "hdr" /\ rec' = "OK" /\ UNCHANGED rdone
      BY <1>0, <2>2, <3>2 DEF ReceiverTypes, ReceiverShape, RecvCodes
    <3> QED BY <1>2, <3>1, <3>2 DEF RecvCall
  <2> QED BY <1>1, <1>2, <2>1, <2>3 DEF RecvCall
<1>3. CASE RecvHdr
  <2>1. ChannelTypes'
    <3>1. UNCHANGED <<up, r2s>> /\ (UNCHANGED s2r \/ (HasMsg(s2r) /\ s2r' = Tail(s2r)))
      BY <1>3 DEF RecvHdr
    <3> QED BY <1>0, <3>1, ChannelKept DEF ChannelTypes
  <2>2. ReceiverTypes' /\ ReceiverShape'
    <3>1. CASE /\ \E ec \in {"NETWORK", "CANCELED"} : RecvReturn(ec, << >>)
               /\ UNCHANGED <<rconf, rlb, dst>>
      BY <1>0, <3>1, RecvReturnTyped DEF RecvCodes
    <3>2. CASE /\ HasMsg(s2r) /\ Head(s2r).kind = "hdr"
               /\ rconf' = Head(s2r).confirm /\ rlb' = Head(s2r).size
               /\ rpc' = "open" /\ UNCHANGED <<rec, rdone, dst>>
      <4>1. rconf' \in BOOLEAN /\ rlb' \in 0 .. MaxBlocks
        BY <1>0, <3>2, ChannelKept, MessageParts
      <4> QED BY <1>0, <3>2, <4>1 DEF ReceiverTypes, ReceiverShape
    <3> QED BY <1>3, <3>1, <3>2 DEF RecvHdr
  <2> QED BY <1>1, <1>3, <2>1, <2>2 DEF RecvHdr
<1>4. CASE RecvOpen
  <2>1. ChannelTypes'
    BY <1>4, SameTyped DEF RecvOpen
  <2>2. ReceiverTypes' /\ ReceiverShape'
    <3>1. CASE RecvReturn("DISK", << >>) /\ UNCHANGED <<rconf, rlb, dst>>
      BY <1>0, <3>1, RecvReturnTyped DEF RecvCodes
    <3>2. CASE dst' = << >> /\ rpc' = AfterRecv(rlb) /\ UNCHANGED <<rec, rdone, rconf, rlb>>
      <4>1. Len(dst') = 0
        BY <3>2
      <4> QED BY <1>0, <3>2, <4>1 DEF AfterRecv, ReceiverTypes, ReceiverShape
    <3> QED BY <1>4, <3>1, <3>2 DEF RecvOpen
  <2> QED BY <1>1, <1>4, <2>1, <2>2 DEF RecvOpen
<1>5. CASE RecvBlock
  <2>1. ChannelTypes'
    <3>1. UNCHANGED <<up, r2s>> /\ (UNCHANGED s2r \/ (HasMsg(s2r) /\ s2r' = Tail(s2r)))
      BY <1>5 DEF RecvBlock
    <3> QED BY <1>0, <3>1, ChannelKept DEF ChannelTypes
  <2>2. ReceiverTypes' /\ ReceiverShape'
    <3>1. CASE /\ \E ec \in {"NETWORK", "CANCELED", "DISK"} : RecvReturn(ec, dst)
               /\ UNCHANGED <<rconf, rlb, dst>>
      BY <1>0, <3>1, RecvReturnTyped DEF RecvCodes
    <3>2. CASE /\ HasMsg(s2r) /\ Head(s2r).kind = "block"
               /\ dst' = Append(dst, Head(s2r).data) /\ rlb' = rlb - 1
               /\ rpc' = AfterRecv(rlb - 1) /\ UNCHANGED <<rec, rdone, rconf>>
      <4>1. Head(s2r).data \in 0 .. MaxEdits
        BY <1>0, <3>2, ChannelKept, MessageParts
      <4>2. rlb > 0 /\ Len(dst) + rlb <= MaxBlocks /\ dst \in Seq(0 .. MaxEdits)
        BY <1>0, <1>5, FileSeq DEF RecvBlock
      <4>3. /\ dst' \in File /\ Len(dst') = Len(dst) + 1 /\ rlb' \in 0 .. MaxBlocks
            /\ Len(dst') + rlb' <= MaxBlocks
        BY <1>0, <3>2, <4>1, <4>2, FileAppend
      <4> QED BY <1>0, <3>2, <4>3 DEF AfterRecv, ReceiverTypes, ReceiverShape
    <3> QED BY <1>5, <3>1, <3>2 DEF RecvBlock
  <2> QED BY <1>1, <1>5, <2>1, <2>2 DEF RecvBlock
<1>6. CASE RecvAttrs
  <2>1. ChannelTypes'
    BY <1>6, SameTyped DEF RecvAttrs
  <2>2. ReceiverTypes' /\ ReceiverShape'
    <3>1. UNCHANGED <<rconf, rlb, dst>> /\ rec' \in {"OK", "ATTRS"}
      BY <1>6 DEF RecvAttrs
    <3>2. CASE RecvReturn(rec', dst)
      <4> PICK ec \in {"OK", "ATTRS"} : RecvReturn(ec, dst)
        BY <3>1, <3>2
      <4> QED BY <1>0, <3>1, RecvReturnTyped DEF RecvCodes
    <3>3. CASE rconf /\ rpc' = "confirm" /\ UNCHANGED rdone
      BY <1>0, <3>1, <3>3 DEF ReceiverTypes, ReceiverShape, RecvCodes
    <3> QED BY <1>6, <3>2, <3>3 DEF RecvAttrs
  <2> QED BY <1>1, <1>6, <2>1, <2>2 DEF RecvAttrs
<1>7. CASE RecvConfirm
  <2>1. ChannelTypes'
    <3> DEFINE m == [kind |-> IF rec = "OK" THEN "yes" ELSE "no"]
    <3>1. m \in Answers /\ [kind |-> "cut"] \in Answers
      BY DEF Answers
    <3>2. UNCHANGED <<up, s2r>> /\ (Out(r2s, m) \/ OutFails(r2s, "snd"))
      BY <1>7 DEF RecvConfirm
    <3> HIDE DEF m
    <3>3. \/ UNCHANGED r2s
          \/ \E x \in Answers : r2s' = Append(r2s, x)
      BY <3>1, <3>2 DEF Out, OutFails
    <3> QED BY <1>0, <3>2, <3>3, ChannelKept DEF ChannelTypes
  <2>2. ReceiverTypes' /\ ReceiverShape'
    <3>1. UNCHANGED <<rconf, rlb, dst>>
      BY <1>7 DEF RecvConfirm
    <3>2. \E ec \in {"OK", "ATTRS", "NETWORK"} : RecvReturn(ec, dst)
      BY <1>0, <1>7 DEF RecvConfirm
    <3> QED BY <1>0, <3>1, <3>2, RecvReturnTyped DEF RecvCodes
  <2> QED BY <1>1, <1>7, <2>1, <2>2 DEF RecvConfirm
<1>8. CASE RecvClose
  <2>1. ChannelTypes'
    BY <1>0, <1>8 DEF RecvClose, ChannelTypes
  <2>2. ReceiverTypes' /\ ReceiverShape'
    BY <1>0, <1>8 DEF RecvClose, ReceiverTypes, ReceiverShape
  <2> QED BY <1>1, <1>8, <2>1, <2>2 DEF RecvClose
<1> QED BY <1>2, <1>3, <1>4, <1>5, <1>6, <1>7, <1>8 DEF RecvCode

LEMMA NextTyped == Typed /\ [Next]_vars => Typed'
<1> SUFFICES ASSUME Typed, [Next]_vars PROVE Typed'
  OBVIOUS
<1>1. CASE UNCHANGED vars
  BY <1>1, SameTyped DEF vars, Typed, TypeOK, Shape, fvars, svars
<1>2. CASE Next
  BY <1>2, EditTyped, SendTyped, SendTyped2, RecvTyped DEF Next, SendCode
<1> QED BY <1>1, <1>2

(* The type invariant of NetFile, and what each function knows at each of  *)
(* its steps                                                               *)
THEOREM Typing == Spec => []Typed
BY InitTyped, NextTyped, PTL DEF Spec

(* The types of the variables; no block is read, or announced by a header, *)
(* beyond the size of the longest file (nxs_net_send_file,                 *)
(* nxs_net_recv_file).                                                     *)
THEOREM TypeCorrect == Spec => []TypeOK
<1>1. Typed => TypeOK
  BY DEF Typed
<1> QED BY <1>1, Typing, PTL

-----------------------------------------------------------------------------
(***************************************************************************)
(* What the ends of the two functions record                               *)
(***************************************************************************)
LEMMA SendReturnAdds ==
  ASSUME Typed, NEW ec, SendReturn(ec)
  PROVE  LET n == Len(sdone) + 1
         IN /\ Len(sdone) \in Nat /\ Len(sdone') = n
            /\ \A i \in 1 .. Len(sdone) : sdone'[i] = sdone[i]
            /\ sdone'[n].res = ec /\ sdone'[n].confirm = conf
            /\ sdone'[n].data = sdata
            /\ sdone'[n].atcheck =
                 (watch = ifd /\ sdata # << >> =>
                    Prefix(SubSeq(sdata, 1, Len(sdata) - 1), checked))
<1> DEFINE a == watch = ifd /\ sdata # << >> =>
                  Prefix(SubSeq(sdata, 1, Len(sdata) - 1), checked)
           h == sdata \in held
           r == [res |-> ec, confirm |-> conf, data |-> sdata, snapshot |-> h,
                 atcheck |-> a]
<1>1. sdone' = Append(sdone, r)
  BY DEF SendReturn
<1> HIDE DEF a, h
<1>2. r.res = ec /\ r.confirm = conf /\ r.data = sdata /\ r.atcheck = a
  OBVIOUS
<1> HIDE DEF r
<1>3. sdone \in Seq(SendResult)
  BY DEF Typed, TypeOK, SenderTypes
<1>4. /\ Len(sdone) \in Nat /\ Len(sdone') = Len(sdone) + 1
      /\ \A i \in 1 .. Len(sdone) : sdone'[i] = sdone[i]
      /\ sdone'[Len(sdone) + 1] = r
  BY <1>1, <1>3
<1> QED BY <1>2, <1>4 DEF a

LEMMA RecvReturnAdds ==
  ASSUME Typed, NEW ec, NEW data, RecvReturn(ec, data)
  PROVE  LET n == Len(rdone) + 1
         IN /\ Len(rdone) \in Nat /\ Len(rdone') = n
            /\ \A i \in 1 .. Len(rdone) : rdone'[i] = rdone[i]
            /\ rdone'[n].res = ec /\ rdone'[n].data = data
            /\ rpc' \in {"idle", "fatal"} /\ (rpc' = "idle" => RecvGoesOn(ec))
<1> DEFINE r == [res |-> ec, data |-> data]
<1>1. rdone' = Append(rdone, r) /\ rdone \in Seq(RecvResult)
  BY DEF RecvReturn, Typed, TypeOK, ReceiverTypes
<1>2. r.res = ec /\ r.data = data
  OBVIOUS
<1> HIDE DEF r
<1>3. /\ Len(rdone) \in Nat /\ Len(rdone') = Len(rdone) + 1
      /\ \A i \in 1 .. Len(rdone) : rdone'[i] = rdone[i]
      /\ rdone'[Len(rdone) + 1] = r
  BY <1>1
<1>4. rpc' \in {"idle", "fatal"} /\ (rpc' = "idle" => RecvGoesOn(ec))
  BY DEF RecvReturn
<1> QED BY <1>2, <1>3, <1>4

-----------------------------------------------------------------------------
(***************************************************************************)
(* What the watch is good for                                              *)
(***************************************************************************)
Watched == WatchRight /\ PrefixConsistent

LEMMA InitWatched == Init => Watched
<1> SUFFICES ASSUME Init PROVE Watched
  OBVIOUS
<1>1. WatchRight
  BY DEF Init, WatchRight, Sent
<1>2. PrefixConsistent
  BY DEF Init, PrefixConsistent
<1> QED BY <1>1, <1>2 DEF Watched

(* Editing the file that is watched leaves an event; the file of another   *)
(* name, or of none, is not the one watched.                               *)
LEMMA EditWatched == Typed /\ Watched /\ Edit => Watched'
<1> SUFFICES ASSUME Typed, Watched, Edit PROVE Watched'
  OBVIOUS
<1>1. UNCHANGED <<spc, watch, ifd, sdata, checked, sdone>> /\ (event => event')
  <2>1. ASSUME NEW n \in 0 .. MaxBlocks, Rewrite(n) \/ Replace(n) \/ Remove
        PROVE  UNCHANGED <<spc, watch, ifd, sdata, checked, sdone>> /\ (event => event')
    BY <2>1 DEF Rewrite, Replace, Remove, Unlinked
  <2> QED BY <2>1 DEF Edit
<1>2. ASSUME watch = ifd, spc \in {"hdr", "check", "read", "block"}, ~event'
      PROVE  files'[ifd] = files[ifd]
  <2>1. /\ ifd \in Inode /\ ifd <= edits + 1
        /\ files \in [Inode -> File] /\ edits \in Nat
    BY <1>2 DEF Typed, TypeOK, FileTypes, SenderTypes, Shape, SenderShape,
       Inside
  <2>2. ASSUME NEW n \in 0 .. MaxBlocks, Rewrite(n) PROVE files'[ifd] = files[ifd]
    BY <1>2, <2>1, <2>2 DEF Rewrite
  <2>3. ASSUME NEW n \in 0 .. MaxBlocks, Replace(n) PROVE files'[ifd] = files[ifd]
    <3>1. ifd # path'
      BY <2>1, <2>3 DEF Replace, Inode
    <3> QED BY <2>1, <2>3, <3>1 DEF Replace
  <2>4. ASSUME Remove PROVE files'[ifd] = files[ifd]
    BY <2>4 DEF Remove
  <2> QED BY <2>2, <2>3, <2>4 DEF Edit
<1>3. WatchRight'
  BY <1>1, <1>2 DEF Watched, WatchRight, Prefix
<1>4. PrefixConsistent'
  BY <1>1 DEF Watched, PrefixConsistent
<1> QED BY <1>3, <1>4 DEF Watched

(* What is recorded at the end of a call of nxs_net_send_file *)
LEMMA ReturnWatched ==
  ASSUME Typed, Watched, NEW ec, SendReturn(ec),
         ec \in {"OK", "CONFIRM_NEGATIVE"} => spc \in Sent
  PROVE  Watched'
<1>1. WatchRight'
  BY DEF SendReturn, WatchRight, Sent
<1>2. ASSUME NEW i \in 1 .. Len(sdone'),
             sdone'[i].res \in {"OK", "CONFIRM_NEGATIVE"}
      PROVE  sdone'[i].atcheck
  <2>1. CASE i \in 1 .. Len(sdone)
    BY <1>2, <2>1, SendReturnAdds DEF Watched, PrefixConsistent
  <2>2. CASE i = Len(sdone) + 1
    <3>1. spc \in Sent
      BY <1>2, <2>2, SendReturnAdds
    <3>2. watch = ifd /\ sdata # << >> =>
            Prefix(SubSeq(sdata, 1, Len(sdata) - 1), checked)
      BY <3>1 DEF Watched, WatchRight
    <3> QED BY <2>2, <3>2, SendReturnAdds
  <2> QED BY <2>1, <2>2, SendReturnAdds
<1> QED BY <1>1, <1>2 DEF Watched, PrefixConsistent

LEMMA SendWatched == Typed /\ Watched /\ (SendCode \/ SendClose) => Watched'
<1> SUFFICES ASSUME Typed, Watched, SendCode \/ SendClose PROVE Watched'
  OBVIOUS
<1>0. /\ sdata \in Seq(0 .. MaxEdits) /\ Len(sdata) \in Nat /\ Len(<< >>) = 0
      /\ spc \in Early \ {"idle"} => sdata = << >>
      /\ spc \in {"emrg", "cancel"} => sec \in Cancels
      /\ spc \in {"hdr"} \cup Inside => ifd \in Inode
      /\ files \in [Inode -> File] /\ \A f \in File : f \in Seq(0 .. MaxEdits)
  BY FileSeq DEF Typed, TypeOK, SenderTypes, FileTypes, Shape, SenderShape
<1>1. ASSUME UNCHANGED sdone PROVE PrefixConsistent'
  BY <1>1 DEF Watched, PrefixConsistent
<1>2. CASE SendPrep \/ SendWatch
  <2>1. UNCHANGED sdone /\ spc' \in {"emrg", "watch", "open"}
    BY <1>2 DEF SendPrep, SendWatch, Emergency
  <2>2. WatchRight'
    BY <2>1 DEF WatchRight, Sent
  <2> QED BY <1>1, <2>1, <2>2 DEF Watched
<1>3. CASE SendOpen
  <2>1. UNCHANGED sdone /\ spc' \in {"emrg", "hdr"} /\ sdata' = << >>
        /\ UNCHANGED files /\ (spc' = "hdr" => ifd' \in Inode)
    BY <1>0, <1>3 DEF SendOpen, Emergency, Early, fvars, Typed, TypeOK,
       FileTypes
  <2>2. spc' = "hdr" => Prefix(sdata', files'[ifd'])
    <3>1. spc' = "hdr" => Len(files'[ifd']) \in Nat
      BY <1>0, <2>1
    <3> QED BY <2>1, <3>1, <1>0 DEF Prefix
  <2>3. WatchRight'
    BY <2>1, <2>2 DEF WatchRight, Sent
  <2> QED BY <1>1, <2>1, <2>3 DEF Watched
<1>4. CASE SendEmergency \/ SendCancel
  <2>1. sec \in Cancels /\ (SendReturn(sec) \/ SendReturn("NETWORK"))
    BY <1>0, <1>4 DEF SendEmergency, SendCancel, SendOut
  <2> QED BY <2>1, ReturnWatched DEF Cancels
<1>5. CASE SendHdr
  <2>1. CASE SendReturn("NETWORK")
    BY <2>1, ReturnWatched
  <2>2. CASE spc' = AfterBlocks(slb) /\ UNCHANGED <<watch, ifd, event, sdone>>
    <3>1. sdata' = << >> /\ spc = "hdr" /\ UNCHANGED files
          /\ spc' \in {"check", "confirm", "done"}
      BY <1>0, <1>5, <2>2 DEF SendHdr, AfterBlocks, Early, fvars
    <3>2. Prefix(sdata', files'[ifd'])
      <4>1. Len(files'[ifd']) \in Nat
        BY <1>0, <2>2, <3>1
      <4> QED BY <1>0, <3>1, <4>1 DEF Prefix
    <3>3. WatchRight'
      BY <3>1, <3>2 DEF WatchRight, Sent
    <3> QED BY <1>1, <2>2, <3>3 DEF Watched
  <2> QED BY <1>5, <2>1, <2>2 DEF SendHdr, SendOut
<1>6. CASE SendCheck
  <2>1. UNCHANGED <<sdone, watch, ifd, event, sdata, files>>
    BY <1>6 DEF SendCheck, fvars
  <2>2. \/ spc' = "cancel"
        \/ spc = "check" /\ spc' = "read" /\ ~event /\ checked' = files[ifd]
    BY <1>6 DEF SendCheck, CancelBy
  <2>3. WatchRight'
    BY <2>1, <2>2 DEF Watched, WatchRight, Sent
  <2> QED BY <1>1, <2>1, <2>3 DEF Watched
<1>7. CASE SendRead
  <2>1. UNCHANGED <<sdone, watch, ifd, event, checked, files>> /\ spc = "read"
    BY <1>7 DEF SendRead, fvars
  <2>2. CASE spc' = "cancel"
    BY <1>1, <2>1, <2>2 DEF Watched, WatchRight, Sent
  <2>3. CASE /\ Len(sdata) < Len(files[ifd])
             /\ sdata' = Append(sdata, files[ifd][Len(sdata) + 1])
             /\ spc' = "block"
    <3> DEFINE f == files[ifd]
    <3>1. f \in Seq(0 .. MaxEdits)
      BY <1>0, <2>1 DEF Inside
    <3>2. Len(sdata) < Len(f) /\ sdata' = Append(sdata, f[Len(sdata) + 1])
      BY <2>3
    <3>3. watch = ifd => Prefix(sdata, checked) /\ (~event => Prefix(sdata, f))
      BY <2>1 DEF Watched, WatchRight
    <3> HIDE DEF f
    <3>4. /\ Len(sdata') = Len(sdata) + 1
          /\ \A i \in 1 .. Len(sdata) : sdata'[i] = sdata[i]
          /\ sdata'[Len(sdata) + 1] = f[Len(sdata) + 1]
      BY <1>0, <3>2
    <3>5. SubSeq(sdata', 1, Len(sdata') - 1) = sdata
      BY <1>0, <3>1, <3>2
    <3>6. watch = ifd /\ ~event => Prefix(sdata', f)
      BY <1>0, <3>1, <3>2, <3>3, <3>4 DEF Prefix
    <3>7. WatchRight'
      BY <2>1, <2>3, <3>3, <3>5, <3>6 DEF WatchRight, Sent, f
    <3> QED BY <1>1, <2>1, <3>7 DEF Watched
  <2> QED BY <1>7, <2>2, <2>3 DEF SendRead, CancelBy
<1>8. CASE SendBlock
  <2>1. CASE SendReturn("NETWORK")
    BY <2>1, ReturnWatched
  <2>2. CASE spc' = AfterBlocks(slb - 1) /\ UNCHANGED <<watch, ifd, event, sdone>>
    <3>1. /\ UNCHANGED <<sdata, checked, files>> /\ spc = "block"
          /\ spc' \in {"check", "confirm", "done"}
      BY <1>8, <2>2 DEF SendBlock, AfterBlocks, fvars
    <3>2. WatchRight'
      BY <2>2, <3>1 DEF Watched, WatchRight, Sent
    <3> QED BY <1>1, <2>2, <3>2 DEF Watched
  <2> QED BY <1>8, <2>1, <2>2 DEF SendBlock
<1>9. CASE SendConfirm
  <2>1. spc \in Sent
    BY <1>9 DEF SendConfirm, Sent
  <2>2. \E ec \in {"OK", "CONFIRM_NEGATIVE", "NETWORK"} : SendReturn(ec)
    BY <1>9 DEF SendConfirm
  <2> QED BY <2>1, <2>2, ReturnWatched
<1>10. CASE SendDone
  BY <1>10, ReturnWatched DEF SendDone, Sent
<1>11. CASE SendClose
  <2>1. UNCHANGED sdone /\ spc' = "closed"
    BY <1>11 DEF SendClose
  <2>2. WatchRight'
    BY <2>1 DEF WatchRight, Sent
  <2> QED BY <1>1, <2>1, <2>2 DEF Watched
<1> QED BY <1>2, <1>3, <1>4, <1>5, <1>6, <1>7, <1>8, <1>9, <1>10, <1>11 DEF
           SendCode

LEMMA NextWatched == Typed /\ Watched /\ [Next]_vars => Watched'
<1> SUFFICES ASSUME Typed, Watched, [Next]_vars PROVE Watched'
  OBVIOUS
<1>1. ASSUME UNCHANGED <<svars, fvars>> PROVE Watched'
  BY <1>1 DEF Watched, WatchRight, PrefixConsistent, Prefix, svars, fvars
<1>2. CASE UNCHANGED vars
  BY <1>1, <1>2 DEF vars
<1>3. CASE RecvCode
  <2>1. UNCHANGED <<svars, fvars>>
    BY <1>3 DEF RecvCode, RecvCall, RecvHdr, RecvOpen, RecvBlock, RecvAttrs,
       RecvConfirm, RecvClose
  <2> QED BY <1>1, <2>1
<1>4. ASSUME NEW c \in BOOLEAN, SendCall(c) PROVE Watched'
  <2>1. UNCHANGED sdone /\ spc' = "prep"
    BY <1>4 DEF SendCall
  <2>2. WatchRight'
    BY <2>1 DEF WatchRight, Sent
  <2> QED BY <2>1, <2>2 DEF Watched, PrefixConsistent
<1> QED BY <1>2, <1>3, <1>4, EditWatched, SendWatched DEF Next

(* What the watch is good for: of a file sent with success, all but the    *)
(* last block are as the file was at the last check, when the file watched *)
(* is the file opened (nxs_net_send_file, nxs_fs_file_check_upd).          *)
THEOREM PrefixConsistentAlways == Spec => []PrefixConsistent
<1>1. Watched => PrefixConsistent
  BY DEF Watched
<1> QED BY <1>1, InitWatched, NextWatched, Typing, PTL DEF Spec

-----------------------------------------------------------------------------
(***************************************************************************)
(* The story the two calls of a transfer tell: the messages under way lead *)
(* from the receiver's place to the sender's.                              *)
(***************************************************************************)

(* What is known of the t-th transfer is not taken back. *)
Grows(t) ==
  /\ Ended(t) => Ended(t)' /\ sdone'[t].res = sdone[t].res
  /\ ConfirmOf(t)' = ConfirmOf(t)
  /\ Prefix(DataOf(t), DataOf(t)')
  /\ Whole(t) => Whole(t)' /\ DataOf(t)' = DataOf(t)

(* The number of transfers that a message can be about *)
Reached == Len(sdone) + (IF spc \in Inside \cup Sent \cup Over THEN 1 ELSE 0)

LEMMA Phases ==
  /\ Early \cap Inside = {} /\ Early \cap Sent = {} /\ Early \cap Over = {}
  /\ Inside \cap Sent = {} /\ Inside \cap Over = {} /\ Sent \cap Over = {}
BY DEF Early, Inside, Sent, Over

LEMMA TypedParts ==
  ASSUME Typed
  PROVE  /\ Len(sdone) \in Nat /\ Len(rdone) \in Nat /\ Len(s2r) \in Nat
         /\ Len(sdata) \in Nat /\ Len(dst) \in Nat /\ slb \in Nat /\ rlb \in Nat
         /\ spc \in Early \cup Inside \cup Sent \cup Over
         /\ sdata \in File /\ dst \in File /\ conf \in BOOLEAN
         /\ \A i \in 1 .. Len(sdone) :
              sdone[i].data \in File /\ sdone[i].res \in SendCodes
         /\ \A i \in 1 .. Len(rdone) :
              rdone[i].data \in File /\ rdone[i].res \in RecvCodes
<1>1. sdata \in File /\ dst \in File /\ conf \in BOOLEAN
  BY DEF Typed, TypeOK, SenderTypes, ReceiverTypes
<1>2. Len(sdata) \in Nat /\ Len(dst) \in Nat
  BY <1>1, FileSeq
<1>3. sdone \in Seq(SendResult) /\ rdone \in Seq(RecvResult) /\ s2r \in Seq(Message)
  BY DEF Typed, TypeOK, SenderTypes, ReceiverTypes, ChannelTypes
<1>4. slb \in Nat /\ rlb \in Nat
  BY DEF Typed, TypeOK, SenderTypes, ReceiverTypes
<1>5. spc \in Early \cup Inside \cup Sent \cup Over
  BY DEF Typed, TypeOK, SenderTypes, Early, Inside, Sent, Over
<1>6. \A x \in SendResult : x.data \in File /\ x.res \in SendCodes
  BY DEF SendResult
<1>7. \A x \in RecvResult : x.data \in File /\ x.res \in RecvCodes
  BY DEF RecvResult
<1>8. ASSUME NEW i \in 1 .. Len(sdone)
      PROVE  sdone[i].data \in File /\ sdone[i].res \in SendCodes
  BY <1>3, <1>6
<1>9. ASSUME NEW i \in 1 .. Len(rdone)
      PROVE  rdone[i].data \in File /\ rdone[i].res \in RecvCodes
  BY <1>3, <1>7
<1> QED BY <1>1, <1>2, <1>3, <1>4, <1>5, <1>8, <1>9

LEMMA DataTypes ==
  ASSUME Typed, NEW t \in Nat \ {0}
  PROVE  DataOf(t) \in Seq(0 .. MaxEdits) /\ Len(DataOf(t)) \in Nat
<1>1. DataOf(t) \in File
  BY TypedParts DEF DataOf, Ended
<1> QED BY <1>1, FileSeq

(* Nothing is taken back of the transfers that have ended. *)
LEMMA EndedGrow ==
  ASSUME Typed, UNCHANGED sdone \/ \E ec : SendReturn(ec), NEW t \in 1 .. Len(sdone)
  PROVE  Grows(t)
<1>1. /\ Len(sdone) \in Nat /\ Len(sdone') \in {Len(sdone), Len(sdone) + 1}
      /\ sdone'[t] = sdone[t]
  BY TypedParts, SendReturnAdds
<1>2. Ended(t) /\ Ended(t)'
  BY <1>1 DEF Ended
<1>3. Prefix(sdone[t].data, sdone[t].data)
  <2>1. Len(sdone[t].data) \in Nat
    BY TypedParts, FileSeq
  <2> QED BY <2>1 DEF Prefix
<1> QED BY <1>1, <1>2, <1>3 DEF Grows, ConfirmOf, DataOf, Whole

LEMMA TakesWithin ==
  ASSUME Typed, NEW p \in Place, NEW q \in Place, NEW m, Takes(p, m, q), Known(q)
  PROVE  p.no + 1 \in 1 .. Reached
<1>1. p.no \in Nat /\ q.no \in Nat /\ q.left \in Nat /\ Len(sdone) \in Nat
  BY TypedParts DEF Place
<1>2. \/ q.no = p.no + 1
      \/ q.no = p.no /\ q.left > 0
      \/ spc \in Over /\ q = p
  <2>1. p.left \in Nat /\ p.got \in Nat
    BY DEF Place
  <2> QED BY <1>1, <2>1 DEF Takes, Between
<1> QED BY <1>1, <1>2, Phases DEF Known, Reached

LEMMA TakesGrows ==
  ASSUME Typed, Typed', NEW p \in Place, NEW m, NEW q, Takes(p, m, q),
         Grows(p.no + 1), spc \in Over => spc' \in Over
  PROVE  Takes(p, m, q)'
<1> DEFINE t == p.no + 1
<1>1. t \in Nat \ {0} /\ p.got + 1 \in Nat \ {0}
  BY DEF Place
<1>2. Len(DataOf(t)) \in Nat
  BY <1>1, DataTypes
<1>3. /\ Ended(t) => Ended(t)' /\ sdone'[t].res = sdone[t].res
      /\ ConfirmOf(t)' = ConfirmOf(t)
      /\ Whole(t) => Whole(t)' /\ DataOf(t)' = DataOf(t)
      /\ Prefix(DataOf(t), DataOf(t)')
  BY DEF Grows
<1>4. \A k \in Nat \ {0} : k <= Len(DataOf(t)) =>
          k <= Len(DataOf(t)') /\ DataOf(t)'[k] = DataOf(t)[k]
  <2>1. Len(DataOf(t)') \in Nat
    <3>1. \A x \in Nat \ {0} : Len(DataOf(x)') \in Nat
      BY TypedParts, FileSeq DEF DataOf, Ended
    <3> QED BY <1>1, <3>1
  <2> QED BY <1>2, <1>3, <2>1 DEF Prefix
<1> QED BY <1>1, <1>3, <1>4 DEF Takes

LEMMA ReceiverGrows ==
  ASSUME Typed, Typed', NEW p \in Place, Known(p), ReceiverAt(p), UNCHANGED rvars,
         \A t \in 1 .. Reached : Grows(t)
  PROVE  ReceiverAt(p)'
<1> DEFINE t == Len(rdone) + 1
<1>1. /\ UNCHANGED <<rpc, rconf, rlb, dst, rdone>> /\ Len(rdone) \in Nat
      /\ Len(sdone) \in Nat /\ rlb \in Nat
  BY TypedParts DEF rvars
<1>2. CASE rpc \notin {"open", "block", "attrs", "confirm"}
  BY <1>1, <1>2 DEF ReceiverAt
<1>3. CASE rpc \in {"open", "block", "attrs", "confirm"}
  <2>1. t \in 1 .. Reached
    <3>1. p.no = t \/ (p.no = Len(rdone) /\ p.left > 0)
      <4>1. rpc = "block" => rlb > 0
        BY DEF Typed, Shape, ReceiverShape
      <4> QED BY <1>1, <1>3, <4>1 DEF ReceiverAt, Between
    <3> QED BY <1>1, <3>1, Phases DEF Known, Reached
  <2>2. /\ ConfirmOf(t)' = ConfirmOf(t)
        /\ Whole(t) => Whole(t)' /\ DataOf(t)' = DataOf(t)
        /\ Prefix(DataOf(t), DataOf(t)')
    BY <1>1, <2>1 DEF Grows
  <2>3. Prefix(dst, DataOf(t)) => Prefix(dst, DataOf(t)')
    <3>1. Len(dst) \in Nat /\ Len(DataOf(t)) \in Nat
      BY <2>1, TypedParts, DataTypes
    <3>2. Len(DataOf(t)') \in Nat
      <4>1. \A x \in Nat \ {0} : Len(DataOf(x)') \in Nat
        BY TypedParts, FileSeq DEF DataOf, Ended
      <4> QED BY <1>1, <4>1
    <3> QED BY <2>2, <3>1, <3>2 DEF Prefix
  <2> QED BY <1>1, <2>2, <2>3 DEF ReceiverAt
<1> QED BY <1>2, <1>3

LEMMA BetweenPlace ==
  \A n \in Nat : Between(n) \in Place /\ Between(n).no = n /\ Between(n).left = 0
BY DEF Between, Place

LEMMA BeforeTransitive ==
  ASSUME NEW p \in Place, NEW q \in Place, NEW r \in Place, Before(p, q), Before(q, r)
  PROVE  Before(p, r)
BY DEF Before, Place

(* A step of the sender: it sends nothing, or one message that leads from  *)
(* its place to its next place.                                            *)
LEMMA SenderMoves ==
  ASSUME Typed, Typed', NEW run \in [0 .. Len(s2r) -> Place], Follows(run),
         UNCHANGED rvars, spc \in Over => spc' \in Over,
         \A t \in 1 .. Reached : Grows(t),
         \A x \in Place : Known(x) => Known(x)',
         NEW p, p = run[Len(s2r)],
         \/ UNCHANGED s2r /\ SenderAt(p)'
         \/ \E m : \E q \in Place :
              /\ s2r' = Append(s2r, m)
              /\ Takes(p, m, q)' /\ Known(q)' /\ SenderAt(q)'
              /\ spc' \notin Over => Before(p, q)
  PROVE  Aligned'
<1>1. Len(s2r) \in Nat /\ s2r \in Seq(Message) /\ p \in Place
  <2>1. Len(s2r) \in Nat /\ s2r \in Seq(Message)
    BY TypedParts DEF Typed, TypeOK, ChannelTypes
  <2>2. Len(s2r) \in 0 .. Len(s2r)
    BY <2>1
  <2> QED BY <2>1, <2>2
<1>2. \A i \in 0 .. Len(s2r) : run[i] \in Place /\ Known(run[i]) /\ Known(run[i])'
  BY DEF Follows
<1>3. ASSUME NEW i \in 1 .. Len(s2r)
      PROVE  Takes(run[i - 1], s2r[i], run[i]) /\ run[i - 1] \in Place
  BY <1>1 DEF Follows
<1>4. ASSUME NEW i \in 1 .. Len(s2r), NEW a, NEW m, NEW b,
             a = run[i - 1], m = s2r[i], b = run[i]
      PROVE  Takes(a, m, b)'
  <2>1. a \in Place /\ b \in Place /\ Takes(a, m, b) /\ Known(b)
    BY <1>2, <1>3, <1>4
  <2>2. Grows(a.no + 1)
    BY <2>1, TakesWithin
  <2> QED BY <2>1, <2>2, TakesGrows
<1>5. ASSUME NEW a, a = run[0] PROVE ReceiverAt(a)'
  <2>1. a \in Place /\ Known(a) /\ ReceiverAt(a)
    BY <1>1, <1>2, <1>5 DEF Follows
  <2> QED BY <2>1, ReceiverGrows
<1>6. CASE UNCHANGED s2r /\ SenderAt(p)'
  <2>1. \A i \in 1 .. Len(s2r') : Takes(run[i - 1], s2r[i], run[i])'
    BY <1>4, <1>6
  <2>2. \A i \in 0 .. Len(s2r') : Known(run[i])'
    BY <1>2, <1>6
  <2>3. spc' \notin Over =>
          \A i, j \in 0 .. Len(s2r') : i < j => Before(run[i], run[j])
    BY <1>6 DEF Follows
  <2>4. ReceiverAt(run[0])'
    BY <1>5
  <2>5. SenderAt(run[Len(s2r)])'
    BY <1>6
  <2>6. Follows(run)'
    BY <1>6, <2>1, <2>2, <2>3, <2>4, <2>5 DEF Follows
  <2>7. run \in [0 .. Len(s2r') -> Place]
    BY <1>6
  <2> QED BY <2>6, <2>7 DEF Aligned
<1>7. ASSUME NEW m, NEW q \in Place, s2r' = Append(s2r, m),
             Takes(p, m, q)', Known(q)', SenderAt(q)',
             spc' \notin Over => Before(p, q)
      PROVE  Aligned'
  <2>1. /\ Len(s2r') = Len(s2r) + 1 /\ s2r'[Len(s2r) + 1] = m
        /\ \A i \in 1 .. Len(s2r) : s2r'[i] = s2r[i]
    <3>1. m \in Message
      <4>1. s2r' \in Seq(Message) /\ Len(s2r') = Len(s2r) + 1
            /\ s2r'[Len(s2r) + 1] = m
        BY <1>1, <1>7 DEF Typed, TypeOK, ChannelTypes
      <4> QED BY <1>1, <4>1
    <3> QED BY <1>1, <1>7, <3>1
  <2>2. PICK new \in [0 .. Len(s2r') -> Place] :
          new[Len(s2r) + 1] = q /\ \A i \in 0 .. Len(s2r) : new[i] = run[i]
    <3> DEFINE w == [i \in 0 .. Len(s2r) + 1 |-> IF i <= Len(s2r) THEN run[i] ELSE q]
    <3>1. /\ w \in [0 .. Len(s2r') -> Place] /\ w[Len(s2r) + 1] = q
          /\ \A i \in 0 .. Len(s2r) : w[i] = run[i]
      BY <1>1, <1>2, <1>7, <2>1
    <3> QED BY <3>1
  <2>3. ASSUME NEW i \in 1 .. Len(s2r') PROVE Takes(new[i - 1], s2r[i], new[i])'
    <3>1. CASE i \in 1 .. Len(s2r)
      <4>1. i - 1 \in 0 .. Len(s2r) /\ i \in 0 .. Len(s2r)
        BY <1>1, <3>1
      <4>2. new[i - 1] = run[i - 1] /\ new[i] = run[i] /\ s2r'[i] = s2r[i]
        BY <2>1, <2>2, <3>1, <4>1
      <4>3. ASSUME NEW a, NEW x, NEW b, a = new[i - 1], x = s2r'[i], b = new[i]
            PROVE  Takes(a, x, b)'
        BY <1>4, <3>1, <4>2, <4>3
      <4> QED BY <4>3
    <3>2. CASE i = Len(s2r) + 1
      <4>1. new[i - 1] = p /\ new[i] = q /\ s2r'[i] = m
        BY <1>1, <2>1, <2>2, <3>2
      <4> QED BY <1>7, <4>1
    <3> QED BY <1>1, <2>1, <3>1, <3>2
  <2>4. ASSUME NEW i \in 0 .. Len(s2r') PROVE Known(new[i])'
    <3>1. new[i] = q \/ \E k \in 0 .. Len(s2r) : new[i] = run[k]
      BY <1>1, <2>1, <2>2
    <3> QED BY <1>2, <1>7, <3>1
  <2>5. ASSUME spc' \notin Over, NEW i \in 0 .. Len(s2r'), NEW j \in 0 .. Len(s2r'), i < j
        PROVE  Before(new[i], new[j])
    <3>1. spc \notin Over
      BY <2>5
    <3>2. \A k, l \in 0 .. Len(s2r) : k < l => Before(run[k], run[l])
      BY <3>1 DEF Follows
    <3>3. CASE j \in 0 .. Len(s2r)
      BY <1>1, <2>1, <2>2, <2>5, <3>2, <3>3
    <3>4. CASE j = Len(s2r) + 1
      <4>1. new[j] = q /\ i \in 0 .. Len(s2r) /\ new[i] = run[i]
        BY <1>1, <2>1, <2>2, <2>5, <3>4
      <4>2. Before(p, q)
        BY <1>7, <2>5
      <4>3. CASE i = Len(s2r)
        BY <4>1, <4>2, <4>3
      <4>4. CASE i < Len(s2r)
        <5>1. Before(run[i], p)
          BY <1>1, <3>2, <4>1, <4>4
        <5> QED BY <1>1, <1>2, <1>7, <4>1, <4>2, <5>1, BeforeTransitive
      <4> QED BY <1>1, <4>1, <4>3, <4>4
    <3> QED BY <1>1, <2>1, <3>3, <3>4
  <2>6. ReceiverAt(new[0])'
    <3>1. new[0] = run[0]
      BY <1>1, <2>2
    <3> QED BY ONLY <1>5, <3>1
  <2>7. SenderAt(new[Len(s2r)])'
    BY <1>7, <2>1, <2>2
  <2>8. spc' \notin Over =>
          \A i, j \in 0 .. Len(s2r') : i < j => Before(new[i], new[j])
    BY <2>5
  <2>9. Follows(new)'
    BY ONLY <2>3, <2>4, <2>6, <2>7, <2>8 DEF Follows
  <2> QED BY <2>2, <2>9 DEF Aligned
<1> QED BY <1>6, <1>7

(* Of the transfer in progress nothing is taken back either. *)
LEMMA CurrentGrows ==
  ASSUME Typed, UNCHANGED conf,
         \/ /\ UNCHANGED sdone /\ Prefix(sdata, sdata')
            /\ spc \in Sent => spc' \in Sent /\ sdata' = sdata
         \/ \E ec : SendReturn(ec) /\ (spc \in Sent => ec \notin Cancels)
  PROVE  \A t \in 1 .. Len(sdone) + 1 : Grows(t)
<1> DEFINE n == Len(sdone) + 1
<1>1. Len(sdone) \in Nat /\ Len(sdata) \in Nat
  BY TypedParts
<1>2. ASSUME NEW t \in 1 .. Len(sdone) PROVE Grows(t)
  BY EndedGrow
<1>3. ASSUME NEW t, t = n PROVE Grows(t)
  <2>1. ~Ended(t) /\ DataOf(t) = sdata /\ ConfirmOf(t) = conf /\ (Whole(t) <=> spc \in Sent)
    BY <1>1, <1>3 DEF Ended, DataOf, ConfirmOf, Whole
  <2>2. CASE /\ UNCHANGED sdone /\ Prefix(sdata, sdata')
             /\ spc \in Sent => spc' \in Sent /\ sdata' = sdata
    <3>1. ~Ended(t)'
      BY <1>1, <1>3, <2>2 DEF Ended
    <3>2. DataOf(t)' = sdata' /\ ConfirmOf(t)' = conf' /\ (Whole(t)' <=> spc' \in Sent)
      BY <3>1 DEF DataOf, ConfirmOf, Whole
    <3> QED BY <2>1, <2>2, <3>2 DEF Grows
  <2>3. CASE \E ec : SendReturn(ec) /\ (spc \in Sent => ec \notin Cancels)
    <3>1. PICK ec : SendReturn(ec) /\ (spc \in Sent => ec \notin Cancels)
      BY <2>3
    <3>2. /\ Len(sdone') = n /\ sdone'[n].res = ec /\ sdone'[n].confirm = conf
          /\ sdone'[n].data = sdata
      BY <3>1, SendReturnAdds
    <3>3. Ended(t)'
      BY <1>1, <1>3, <3>2 DEF Ended
    <3>4. DataOf(t)' = sdata /\ ConfirmOf(t)' = conf /\ (Whole(t)' <=> ec \notin Cancels)
      BY <1>3, <3>2, <3>3 DEF DataOf, ConfirmOf, Whole
    <3>5. Prefix(sdata, sdata)
      BY <1>1 DEF Prefix
    <3> QED BY <2>1, <3>1, <3>4, <3>5 DEF Grows
  <2> QED BY <2>2, <2>3
<1>4. \A t \in 1 .. n : t \in 1 .. Len(sdone) \/ t = n
  BY <1>1
<1> QED BY <1>2, <1>3, <1>4

LEMMA ReachedRange ==
  ASSUME Typed
  PROVE  /\ spc \in Early => 1 .. Reached = 1 .. Len(sdone)
         /\ 1 .. Reached \subseteq 1 .. Len(sdone) + 1
BY TypedParts, Phases DEF Reached

(* nxs_net_send_file ends with an error of the network; what it has sent   *)
(* of a message stays under way.                                           *)
LEMMA FailAligned ==
  ASSUME Typed, Typed', Aligned, spc \notin Over, SendReturn("NETWORK"),
         UNCHANGED <<conf, rvars>>, UNCHANGED s2r \/ OutFails(s2r, "rcv")
  PROVE  Aligned'
<1>1. CASE rpc \in Over
  BY <1>1 DEF Aligned, rvars
<1>2. CASE rpc \notin Over
  <2>1. PICK run \in [0 .. Len(s2r) -> Place] : Follows(run)
    BY <1>2 DEF Aligned
  <2>2. PICK p \in Place : p = run[Len(s2r)] /\ Known(p)
    BY <2>1, TypedParts DEF Follows
  <2>3. \A t \in 1 .. Reached : Grows(t)
    BY CurrentGrows, ReachedRange DEF Cancels
  <2>4. spc' \in Over /\ Len(sdone') = Len(sdone) + 1 /\ Len(sdone) \in Nat
    BY SendReturnAdds DEF SendReturn, SendGoesOn, Cancels, Over
  <2>5. \A x \in Place : Known(x) => Known(x)'
    BY <2>4, Phases DEF Known, Place
  <2>6. \A x \in Place : SenderAt(x)'
    BY <2>4, Phases DEF SenderAt
  <2>7. CASE UNCHANGED s2r
    BY <1>2, <2>1, <2>2, <2>3, <2>4, <2>5, <2>6, <2>7, SenderMoves
  <2>8. CASE s2r' = Append(s2r, [kind |-> "cut"])
    <3>1. PICK m : m.kind = "cut" /\ s2r' = Append(s2r, m)
      BY <2>8
    <3>2. Takes(p, m, p)'
      BY <2>4, <3>1 DEF Takes
    <3> QED BY <1>2, <2>1, <2>2, <2>3, <2>4, <2>5, <2>6, <3>1, <3>2,
               SenderMoves
  <2> QED BY <2>7, <2>8 DEF OutFails
<1> QED BY <1>1, <1>2

(* The steps that send nothing and stay before, or between, the messages   *)
LEMMA SilentAligned ==
  ASSUME Typed, Typed', Aligned, UNCHANGED <<s2r, sdone, rvars>>,
         \/ spc \in Early /\ spc' \in Early
         \/ /\ spc \in Inside \ {"block"} /\ spc' \in Inside
            /\ UNCHANGED <<conf, slb>> /\ Prefix(sdata, sdata')
            /\ Len(sdata) = IF spc' = "block" THEN Len(sdata') - 1 ELSE Len(sdata')
         \/ spc \notin Inside \cup Sent /\ spc' \in Over /\ UNCHANGED <<conf, sdata>>
  PROVE  Aligned'
<1>1. CASE rpc \in Over
  BY <1>1 DEF Aligned, rvars
<1>2. CASE rpc \notin Over
  <2>1. PICK run \in [0 .. Len(s2r) -> Place] : Follows(run)
    BY <1>2 DEF Aligned
  <2>2. PICK p \in Place : p = run[Len(s2r)] /\ Known(p) /\ SenderAt(p)
    BY <2>1, TypedParts DEF Follows
  <2>3. \A t \in 1 .. Reached : Grows(t)
    <3>1. CASE spc \in Early
      BY <3>1, EndedGrow, ReachedRange
    <3>2. CASE spc \notin Early
      <4>1. UNCHANGED conf /\ Prefix(sdata, sdata') /\ spc \notin Sent
        BY <3>2, TypedParts, Phases DEF Prefix
      <4> QED BY <4>1, CurrentGrows, ReachedRange
    <3> QED BY <3>1, <3>2
  <2>4. \A x \in Place : Known(x) => Known(x)'
    BY TypedParts, Phases DEF Known, Place
  <2>5. SenderAt(p)'
    BY <2>2, Phases DEF SenderAt
  <2>6. spc \in Over => spc' \in Over
    BY Phases
  <2> QED BY <1>2, <2>1, <2>2, <2>3, <2>4, <2>5, <2>6, SenderMoves
<1> QED BY <1>1, <1>2

(* The calls that end between two transfers *)
LEMMA ReturnAligned ==
  ASSUME Typed, Typed', Aligned, UNCHANGED <<conf, rvars>>, NEW ec, SendReturn(ec),
         ec # "NETWORK" /\ SendGoesOn(ec), spc \notin Over,
         \/ UNCHANGED s2r /\ spc \in Sent /\ ec \notin Cancels
         \/ /\ ec \in Cancels /\ spc \in Early \cup Inside
            /\ \E k : /\ s2r' = Append(s2r, [kind |-> k])
                      /\ IF spc \in Early THEN k = "cancel" ELSE k = "stop"
  PROVE  Aligned'
<1>1. CASE rpc \in Over
  BY <1>1 DEF Aligned, rvars
<1>2. CASE rpc \notin Over
  <2>1. PICK run \in [0 .. Len(s2r) -> Place] : Follows(run)
    BY <1>2 DEF Aligned
  <2>2. PICK p \in Place : p = run[Len(s2r)] /\ Known(p) /\ SenderAt(p)
    BY <2>1, TypedParts DEF Follows
  <2>3. \A t \in 1 .. Reached : Grows(t)
    BY CurrentGrows, ReachedRange, Phases
  <2>4. /\ spc' = "idle" /\ Len(sdone') = Len(sdone) + 1 /\ Len(sdone) \in Nat
        /\ sdone'[Len(sdone) + 1].res = ec
    BY SendReturnAdds DEF SendReturn
  <2>5. \A x \in Place : Known(x) => Known(x)'
    BY <2>4, Phases DEF Known, Place
  <2>6. spc' \in Early /\ spc' \notin Inside \cup Sent \cup Over
    BY <2>4 DEF Early, Inside, Sent, Over
  <2>7. CASE UNCHANGED s2r /\ spc \in Sent
    <3>1. SenderAt(p)'
      BY <2>2, <2>4, <2>6, <2>7 DEF SenderAt
    <3> QED BY <1>2, <2>1, <2>2, <2>3, <2>5, <2>7, <3>1, SenderMoves
  <2>8. ASSUME ec \in Cancels, spc \in Early \cup Inside, NEW k,
               s2r' = Append(s2r, [kind |-> k]),
               IF spc \in Early THEN k = "cancel" ELSE k = "stop"
        PROVE  Aligned'
    <3>1. PICK m : m.kind = k /\ s2r' = Append(s2r, m)
      BY <2>8
    <3>2. /\ p.no = Len(sdone) /\ (spc \in Early => p.left = 0)
          /\ (spc \in Inside => p.left > 0)
      BY <2>2, <2>8 DEF SenderAt, Between, Typed, Shape, SenderShape
    <3>3. PICK q \in Place : q.no = p.no + 1 /\ q.left = 0 /\ q = Between(p.no + 1)
      <4>1. p.no + 1 \in Nat
        BY DEF Place
      <4>2. Between(p.no + 1) \in Place
        BY <4>1, BetweenPlace
      <4> QED BY <4>1, <4>2, BetweenPlace
    <3>4. Ended(p.no + 1)'
      BY <2>4, <3>2 DEF Ended
    <3>5. Takes(p, m, q)'
      BY <2>4, <2>8, <3>1, <3>2, <3>3, <3>4, Phases DEF Takes
    <3>6. Known(q)' /\ SenderAt(q)'
      BY <2>4, <2>6, <3>2, <3>3 DEF Known, SenderAt
    <3>7. Before(p, q)
      BY <3>3 DEF Before, Place
    <3> QED BY <1>2, <2>1, <2>2, <2>3, <2>5, <3>1, <3>5, <3>6, <3>7,
               SenderMoves
  <2> QED BY <2>7, <2>8
<1> QED BY <1>1, <1>2

(* nxs_net_send_file sends the header. *)
LEMMA HdrAligned == Typed /\ Typed' /\ Aligned /\ SendHdr => Aligned'
<1> SUFFICES ASSUME Typed, Typed', Aligned, SendHdr PROVE Aligned'
  OBVIOUS
<1>1. /\ spc = "hdr" /\ UNCHANGED <<conf, slb, sdata, rvars>> /\ spc \in Early
      /\ spc \notin Inside \cup Sent \cup Over /\ sdata = << >> /\ slb \in Nat
  BY DEF SendHdr, Typed, TypeOK, Shape, SenderTypes, SenderShape, Early,
     Inside, Sent, Over
<1>2. CASE OutFails(s2r, "rcv") /\ SendReturn("NETWORK")
  BY <1>1, <1>2, FailAligned
<1>3. CASE /\ Out(s2r, [kind |-> "hdr", size |-> slb, confirm |-> conf])
           /\ spc' = AfterBlocks(slb) /\ UNCHANGED <<watch, ifd, event, sdone>>
  <2>1. CASE rpc \in Over
    BY <1>1, <2>1 DEF Aligned, rvars
  <2>2. CASE rpc \notin Over
    <3>1. PICK run \in [0 .. Len(s2r) -> Place] : Follows(run)
      BY <2>2 DEF Aligned
    <3>2. PICK p \in Place : p = run[Len(s2r)] /\ p = Between(Len(sdone))
      BY <1>1, <3>1, TypedParts DEF Follows, SenderAt
    <3>3. \A t \in 1 .. Reached : Grows(t)
      BY <1>1, <1>3, EndedGrow, ReachedRange
    <3>4. PICK m : /\ m.kind = "hdr" /\ m.size = slb /\ m.confirm = conf
                   /\ s2r' = Append(s2r, m)
      BY <1>3 DEF Out
    <3>5. /\ p.no = Len(sdone) /\ p.left = 0 /\ p.got = 0 /\ Len(sdone) \in Nat
          /\ UNCHANGED sdone
      BY <1>3, <3>2, TypedParts DEF Between
    <3>6. ConfirmOf(p.no + 1)' = conf /\ DataOf(p.no + 1)' = << >>
          /\ (Whole(p.no + 1)' <=> spc' \in Sent)
      <4>1. ~Ended(p.no + 1)'
        BY <3>5 DEF Ended
      <4> QED BY <1>1, <3>5, <4>1 DEF ConfirmOf, DataOf, Whole
    <3>7. \A x \in Place : Known(x) => Known(x)'
      BY <1>1, <3>5, Phases DEF Known, Place
    <3>8. CASE slb = 0
      <4>1. PICK q \in Place : q = Between(p.no + 1) /\ q.no = p.no + 1 /\ q.left = 0
        <5>1. p.no + 1 \in Nat
          BY DEF Place
        <5>2. Between(p.no + 1) \in Place
          BY <5>1, BetweenPlace
        <5> QED BY <5>1, <5>2, BetweenPlace
      <4>2. spc' \in Sent /\ spc' \notin Early \cup Inside \cup Over
        BY <1>3, <3>8, Phases DEF AfterBlocks, Sent, Over
      <4>3. Takes(p, m, q)'
        BY <3>4, <3>5, <3>6, <3>8, <4>1, <4>2 DEF Takes
      <4>4. Known(q)' /\ SenderAt(q)'
        BY <3>5, <4>1, <4>2 DEF Known, SenderAt
      <4>5. Before(p, q)
        BY <3>5, <4>1 DEF Before
      <4> QED BY <1>1, <2>2, <3>1, <3>2, <3>3, <3>4, <3>7, <4>3, <4>4, <4>5,
                 SenderMoves
    <3>9. CASE slb > 0
      <4>1. PICK q \in Place : /\ q = [no |-> p.no, got |-> 0, left |-> slb]
                               /\ q.no = p.no /\ q.left = slb
        <5>1. [no |-> p.no, got |-> 0, left |-> slb] \in Place
          BY <1>1 DEF Place
        <5> QED BY <5>1
      <4>2. spc' = "check" /\ spc' \in Inside /\ spc' \notin Early \cup Sent \cup Over
        BY <1>3, <3>9, Phases DEF AfterBlocks, Inside
      <4>3. Takes(p, m, q)'
        BY <3>4, <3>5, <3>6, <3>9, <4>1 DEF Takes
      <4>4. Known(q)' /\ SenderAt(q)'
        <5>1. Len(sdata') = 0
          BY <1>1
        <5>2. q = [no |-> Len(sdone'), left |-> slb', got |-> Len(sdata')]
          BY <1>1, <3>5, <4>1, <5>1
        <5> QED BY <3>5, <4>1, <4>2, <5>2 DEF Known, SenderAt
      <4>5. Before(p, q)
        BY <3>5, <3>9, <4>1 DEF Before
      <4> QED BY <1>1, <2>2, <3>1, <3>2, <3>3, <3>4, <3>7, <4>3, <4>4, <4>5,
                 SenderMoves
    <3> QED BY <1>1, <3>8, <3>9
  <2> QED BY <2>1, <2>2
<1> QED BY <1>2, <1>3 DEF SendHdr, SendOut

(* nxs_net_send_file sends a block. *)
LEMMA BlockAligned == Typed /\ Typed' /\ Aligned /\ SendBlock => Aligned'
<1> SUFFICES ASSUME Typed, Typed', Aligned, SendBlock PROVE Aligned'
  OBVIOUS
<1>1. /\ spc = "block" /\ UNCHANGED <<conf, sdata, rvars>> /\ spc \in Inside
      /\ spc \notin Early \cup Sent \cup Over
      /\ Len(sdata) \in Nat /\ Len(sdata) > 0 /\ slb \in Nat /\ slb > 0
  <2>1. sdata \in Seq(0 .. MaxEdits) /\ sdata # << >>
    BY FileSeq DEF SendBlock, Typed, TypeOK, Shape, SenderTypes, SenderShape
  <2> QED
  BY <2>1 DEF SendBlock, Typed, TypeOK, Shape, SenderTypes, SenderShape, Early,
     Inside, Sent, Over
<1>2. CASE OutFails(s2r, "rcv") /\ SendReturn("NETWORK")
  BY <1>1, <1>2, FailAligned
<1>3. CASE /\ Out(s2r, [kind |-> "block", data |-> sdata[Len(sdata)]])
           /\ slb' = slb - 1 /\ spc' = AfterBlocks(slb - 1)
           /\ UNCHANGED <<watch, ifd, event, sdone>>
  <2>1. CASE rpc \in Over
    BY <1>1, <2>1 DEF Aligned, rvars
  <2>2. CASE rpc \notin Over
    <3>1. PICK run \in [0 .. Len(s2r) -> Place] : Follows(run)
      BY <2>2 DEF Aligned
    <3>2. PICK p \in Place :
             /\ p = run[Len(s2r)]
             /\ p = [no |-> Len(sdone), left |-> slb, got |-> Len(sdata) - 1]
      BY <1>1, <3>1, TypedParts DEF Follows, SenderAt
    <3>3. spc' \in Inside \cup Sent
      BY <1>3 DEF AfterBlocks, Inside, Sent
    <3>4. \A t \in 1 .. Reached : Grows(t)
      <4>1. Prefix(sdata, sdata')
        BY <1>1 DEF Prefix
      <4> QED BY <1>1, <1>3, <4>1, CurrentGrows, ReachedRange
    <3>5. PICK m : /\ m.kind = "block" /\ m.data = sdata[Len(sdata)]
                   /\ s2r' = Append(s2r, m)
      BY <1>3 DEF Out
    <3>6. /\ p.no = Len(sdone) /\ p.left = slb /\ p.got = Len(sdata) - 1
          /\ Len(sdone) \in Nat /\ UNCHANGED sdone
      BY <1>3, <3>2, TypedParts
    <3>7. DataOf(p.no + 1)' = sdata /\ (Whole(p.no + 1)' <=> spc' \in Sent)
      <4>1. ~Ended(p.no + 1)'
        BY <3>6 DEF Ended
      <4> QED BY <1>1, <3>6, <4>1 DEF DataOf, Whole
    <3>8. \A x \in Place : Known(x) => Known(x)'
      BY <1>1, <3>3, <3>6, Phases DEF Known, Place
    <3>9. spc \in Over => spc' \in Over
      BY <1>1
    <3>10. CASE slb = 1
      <4>1. PICK q \in Place : q = Between(p.no + 1) /\ q.no = p.no + 1 /\ q.left = 0
        <5>1. p.no + 1 \in Nat
          BY DEF Place
        <5>2. Between(p.no + 1) \in Place
          BY <5>1, BetweenPlace
        <5> QED BY <5>1, <5>2, BetweenPlace
      <4>2. spc' \in Sent /\ spc' \notin Early \cup Inside \cup Over
        BY <1>3, <3>10, Phases DEF AfterBlocks, Sent, Over
      <4>3. Takes(p, m, q)'
        <5>1. p.got + 1 = Len(sdata) /\ p.left = 1 /\ Whole(p.no + 1)'
          BY <1>1, <3>6, <3>7, <3>10, <4>2
        <5> QED BY <1>1, <3>5, <3>7, <4>1, <5>1 DEF Takes
      <4>4. Known(q)' /\ SenderAt(q)'
        BY <3>6, <4>1, <4>2 DEF Known, SenderAt
      <4>5. Before(p, q)
        BY <3>6, <4>1 DEF Before
      <4> QED BY <1>1, <2>2, <3>1, <3>2, <3>4, <3>5, <3>8, <3>9, <4>3, <4>4,
                 <4>5, SenderMoves
    <3>11. CASE slb > 1
      <4>1. PICK q \in Place : /\ q = [no |-> p.no, got |-> Len(sdata), left |-> slb - 1]
                               /\ q.no = p.no /\ q.left = slb - 1 /\ q.got = Len(sdata)
        <5>1. p.no \in Nat /\ Len(sdata) \in Nat /\ slb - 1 \in Nat
          BY <1>1, <3>11 DEF Place
        <5>2. [no |-> p.no, got |-> Len(sdata), left |-> slb - 1] \in Place
          BY <5>1 DEF Place
        <5> QED BY <5>2
      <4>2. spc' = "check" /\ spc' \in Inside /\ spc' \notin Early \cup Sent \cup Over
        BY <1>1, <1>3, <3>11, Phases DEF AfterBlocks, Inside
      <4>3. Takes(p, m, q)'
        BY <1>1, <3>5, <3>6, <3>7, <3>11, <4>1 DEF Takes
      <4>4. Known(q)' /\ SenderAt(q)'
        <5>1. q = [no |-> Len(sdone'), left |-> slb', got |-> Len(sdata')]
          BY <1>1, <1>3, <3>6, <4>1
        <5> QED BY <3>6, <4>1, <4>2, <5>1 DEF Known, SenderAt
      <4>5. Before(p, q)
        BY <1>1, <3>6, <3>11, <4>1 DEF Before
      <4> QED BY <1>1, <2>2, <3>1, <3>2, <3>4, <3>5, <3>8, <3>9, <4>3, <4>4,
                 <4>5, SenderMoves
    <3> QED BY <1>1, <3>10, <3>11
  <2> QED BY <2>1, <2>2
<1> QED BY <1>2, <1>3 DEF SendBlock

LEMMA SendAligned ==
  ASSUME Typed, Typed', Aligned,
         SendCode \/ SendClose \/ \E c \in BOOLEAN : SendCall(c)
  PROVE  Aligned'
<1>0. /\ Len(sdata) \in Nat /\ sdata \in Seq(0 .. MaxEdits)
      /\ spc \in {"emrg", "cancel"} => sec \in Cancels
  BY TypedParts, FileSeq DEF Typed, Shape, SenderShape
<1>1. CASE \/ \E c \in BOOLEAN : SendCall(c)
           \/ SendPrep \/ SendWatch \/ SendOpen
  <2>1. spc \in Early /\ spc' \in Early /\ UNCHANGED <<s2r, sdone, rvars>>
    BY <1>1 DEF SendCall, SendPrep, SendWatch, SendOpen, Emergency, Early,
       nvars, rvars
  <2> QED BY <2>1, SilentAligned
<1>2. CASE SendCheck
  <2>1. /\ spc \in Inside \ {"block"} /\ spc' \in Inside \ {"block"}
        /\ UNCHANGED <<conf, slb, sdata, s2r, sdone, rvars>>
    BY <1>2 DEF SendCheck, CancelBy, Inside, nvars, rvars
  <2>2. Prefix(sdata, sdata')
    BY <1>0, <2>1 DEF Prefix
  <2> QED BY <2>1, <2>2, SilentAligned
<1>3. CASE SendRead
  <2>1. /\ spc \in Inside \ {"block"} /\ UNCHANGED <<conf, slb, s2r, sdone, rvars>>
    BY <1>3 DEF SendRead, CancelBy, Inside, nvars, rvars
  <2>2. CASE spc' = "cancel" /\ UNCHANGED sdata
    <3>1. Prefix(sdata, sdata')
      BY <1>0, <2>2 DEF Prefix
    <3> QED BY <2>1, <2>2, <3>1, SilentAligned DEF Inside
  <2>3. CASE spc' = "block" /\ \E b : sdata' = Append(sdata, b)
    <3>1. sdata' \in Seq(0 .. MaxEdits) /\ Len(sdata') \in Nat
      BY FileSeq, TypedParts DEF Typed, TypeOK, SenderTypes
    <3>2. PICK b : sdata' = Append(sdata, b)
      BY <2>3
    <3>3. Len(sdata) = Len(sdata') - 1 /\ \A i \in 1 .. Len(sdata) : sdata'[i] = sdata[i]
      BY <1>0, <3>2
    <3>4. Prefix(sdata, sdata')
      BY <1>0, <3>1, <3>3 DEF Prefix
    <3> QED BY <2>1, <2>3, <3>3, <3>4, SilentAligned DEF Inside
  <2> QED BY <1>3, <2>2, <2>3 DEF SendRead, CancelBy
<1>4. CASE SendEmergency \/ SendCancel
  <2>1. /\ UNCHANGED <<conf, rvars>> /\ sec \in Cancels
        /\ spc \in Early \cup Inside /\ spc \notin Over
        /\ (spc \in Early <=> SendEmergency)
    BY <1>0, <1>4 DEF SendEmergency, SendCancel, Early, Inside, Over
  <2>2. CASE OutFails(s2r, "rcv") /\ SendReturn("NETWORK")
    BY <2>1, <2>2, FailAligned
  <2>3. CASE SendReturn(sec) /\ \E k : /\ Out(s2r, [kind |-> k])
                                       /\ IF SendEmergency THEN k = "cancel" ELSE k = "stop"
    <3>1. \E k : /\ s2r' = Append(s2r, [kind |-> k])
                 /\ IF spc \in Early THEN k = "cancel" ELSE k = "stop"
      BY <2>1, <2>3 DEF Out
    <3>2. sec # "NETWORK" /\ SendGoesOn(sec)
      BY <2>1 DEF SendGoesOn, Cancels
    <3> QED BY <2>1, <2>3, <3>1, <3>2, ReturnAligned
  <2>4. CASE SendEmergency
    BY <2>2, <2>3, <2>4 DEF SendEmergency, SendOut
  <2>5. CASE SendCancel
    <3>1. ~SendEmergency
      BY <2>5 DEF SendCancel, SendEmergency
    <3> QED BY <2>2, <2>3, <2>5, <3>1 DEF SendCancel, SendOut
  <2> QED BY <1>4, <2>4, <2>5
<1>5. CASE SendConfirm \/ SendDone
  <2>1. /\ UNCHANGED <<conf, rvars, s2r>> /\ spc \in Sent /\ spc \notin Over
        /\ \E ec \in {"OK", "CONFIRM_NEGATIVE", "NETWORK"} : SendReturn(ec)
    BY <1>5 DEF SendConfirm, SendDone, Sent, Over, nvars
  <2>2. PICK ec \in {"OK", "CONFIRM_NEGATIVE", "NETWORK"} : SendReturn(ec)
    BY <2>1
  <2>3. CASE ec = "NETWORK"
    BY <2>1, <2>2, <2>3, FailAligned
  <2>4. CASE ec # "NETWORK"
    <3>1. SendGoesOn(ec) /\ ec \notin Cancels
      BY <2>4 DEF SendGoesOn, Cancels
    <3> QED BY <2>1, <2>2, <2>4, <3>1, ReturnAligned
  <2> QED BY <2>3, <2>4
<1>6. CASE SendClose
  <2>1. /\ spc \notin Inside \cup Sent /\ spc' \in Over
        /\ UNCHANGED <<s2r, sdone, rvars, conf, sdata>>
    BY <1>6 DEF SendClose, Inside, Sent, Over
  <2> QED BY <2>1, SilentAligned
<1> QED BY <1>1, <1>2, <1>3, <1>4, <1>5, <1>6, HdrAligned, BlockAligned DEF
           SendCode

-----------------------------------------------------------------------------
(***************************************************************************)
(* The receiver's steps                                                    *)
(***************************************************************************)

(* The receiver changes nothing of the sender's. *)
LEMMA SameSender ==
  ASSUME UNCHANGED <<spc, conf, slb, sdata, sdone>>
  PROVE  /\ \A t : /\ ConfirmOf(t)' = ConfirmOf(t) /\ DataOf(t)' = DataOf(t)
                   /\ (Whole(t)' <=> Whole(t)) /\ (Ended(t)' <=> Ended(t))
         /\ \A p, m, q : Takes(p, m, q) => Takes(p, m, q)'
         /\ \A p : (Known(p) => Known(p)') /\ (SenderAt(p) => SenderAt(p)')
<1>1. ASSUME NEW t
      PROVE  /\ ConfirmOf(t)' = ConfirmOf(t) /\ DataOf(t)' = DataOf(t)
             /\ (Whole(t)' <=> Whole(t)) /\ (Ended(t)' <=> Ended(t))
  BY DEF ConfirmOf, DataOf, Whole, Ended
<1>2. ASSUME NEW p, NEW m, NEW q, Takes(p, m, q) PROVE Takes(p, m, q)'
  BY <1>1, <1>2 DEF Takes
<1>3. ASSUME NEW p PROVE (Known(p) => Known(p)') /\ (SenderAt(p) => SenderAt(p)')
  BY DEF Known, SenderAt
<1> QED BY <1>1, <1>2, <1>3

(* A step of the receiver: it stays where it is, or takes one message. *)
LEMMA ReceiverMoves ==
  ASSUME Typed, NEW run \in [0 .. Len(s2r) -> Place], Follows(run),
         UNCHANGED <<spc, conf, slb, sdata, sdone>>, NEW p, ReceiverAt(p)',
         \/ UNCHANGED s2r /\ p = run[0]
         \/ s2r # << >> /\ s2r' = Tail(s2r) /\ p = run[1]
  PROVE  Aligned'
<1>1. Len(s2r) \in Nat /\ s2r \in Seq(Message) /\ UNCHANGED spc
  BY TypedParts DEF Typed, TypeOK, ChannelTypes
<1>2. CASE UNCHANGED s2r /\ p = run[0]
  <2>1. ASSUME NEW i \in 1 .. Len(s2r), NEW a, NEW m, NEW b,
               a = run[i - 1], m = s2r[i], b = run[i]
        PROVE  Takes(a, m, b)'
    BY <2>1, SameSender DEF Follows
  <2>2. \A i \in 1 .. Len(s2r') : Takes(run[i - 1], s2r[i], run[i])'
    BY <1>2, <2>1
  <2>3. \A i \in 0 .. Len(s2r') : Known(run[i])'
    BY <1>2, SameSender DEF Follows
  <2>4. spc' \notin Over =>
          \A i, j \in 0 .. Len(s2r') : i < j => Before(run[i], run[j])
    BY <1>1, <1>2 DEF Follows
  <2>5. ASSUME NEW b, b = run[Len(s2r)] PROVE SenderAt(b)'
    BY <2>5, SameSender DEF Follows
  <2>6. SenderAt(run[Len(s2r)])'
    BY <1>2, <2>5
  <2>7. ReceiverAt(run[0])'
    BY <1>2
  <2>8. Follows(run)'
    BY ONLY <2>2, <2>3, <2>4, <2>6, <2>7 DEF Follows
  <2>9. run \in [0 .. Len(s2r') -> Place]
    BY <1>2
  <2> QED BY <2>8, <2>9 DEF Aligned
<1>3. CASE s2r # << >> /\ s2r' = Tail(s2r) /\ p = run[1]
  <2>1. /\ Len(s2r) > 0 /\ Len(s2r') = Len(s2r) - 1
        /\ \A i \in 1 .. Len(s2r) - 1 : s2r'[i] = s2r[i + 1]
    BY <1>1, <1>3
  <2>2. PICK new \in [0 .. Len(s2r') -> Place] : \A i \in 0 .. Len(s2r') : new[i] = run[i + 1]
    <3> DEFINE w == [i \in 0 .. Len(s2r) - 1 |-> run[i + 1]]
    <3>1. \A i \in 0 .. Len(s2r) - 1 : run[i + 1] \in Place
      BY <1>1
    <3>2. w \in [0 .. Len(s2r') -> Place] /\ \A i \in 0 .. Len(s2r') : w[i] = run[i + 1]
      BY <2>1, <3>1
    <3> QED BY <3>2
  <2>3. ASSUME NEW i \in 1 .. Len(s2r'), NEW a, NEW m, NEW b,
               a = new[i - 1], m = s2r'[i], b = new[i]
        PROVE  Takes(a, m, b)'
    <3>1. /\ i + 1 \in 1 .. Len(s2r) /\ i - 1 \in 0 .. Len(s2r') /\ i \in 0 .. Len(s2r')
          /\ i \in 1 .. Len(s2r) - 1 /\ (i + 1) - 1 = i /\ (i - 1) + 1 = i
      BY <1>1, <2>1
    <3>2. a = run[(i + 1) - 1] /\ m = s2r[i + 1] /\ b = run[i + 1]
      BY <2>1, <2>2, <2>3, <3>1
    <3>3. Takes(a, m, b)
      BY <3>1, <3>2 DEF Follows
    <3> QED BY <3>3, SameSender
  <2>4. \A i \in 1 .. Len(s2r') : Takes(new[i - 1], s2r[i], new[i])'
    BY <2>3
  <2>5. ASSUME NEW i \in 0 .. Len(s2r') PROVE Known(new[i])'
    <3>1. i + 1 \in 0 .. Len(s2r) /\ new[i] = run[i + 1]
      BY <1>1, <2>1, <2>2
    <3>2. Known(new[i])
      BY <3>1 DEF Follows
    <3> QED BY <3>2, SameSender
  <2>6. ASSUME spc' \notin Over, NEW i \in 0 .. Len(s2r'), NEW j \in 0 .. Len(s2r'), i < j
        PROVE  Before(new[i], new[j])
    <3>1. /\ i + 1 \in 0 .. Len(s2r) /\ j + 1 \in 0 .. Len(s2r) /\ i + 1 < j + 1
          /\ new[i] = run[i + 1] /\ new[j] = run[j + 1]
      BY <1>1, <2>1, <2>2, <2>6
    <3> QED BY <1>1, <2>6, <3>1 DEF Follows
  <2>7. spc' \notin Over =>
          \A i, j \in 0 .. Len(s2r') : i < j => Before(new[i], new[j])
    BY <2>6
  <2>8. ASSUME NEW b, b = new[Len(s2r')] PROVE SenderAt(b)'
    <3>1. Len(s2r') \in 0 .. Len(s2r') /\ Len(s2r') + 1 = Len(s2r)
      BY <1>1, <2>1
    <3>2. b = run[Len(s2r)]
      BY <2>2, <2>8, <3>1
    <3> QED BY <3>2, SameSender DEF Follows
  <2>9. SenderAt(new[Len(s2r)])'
    BY <2>8
  <2>10. ReceiverAt(new[0])'
    <3>1. 0 \in 0 .. Len(s2r') /\ 0 + 1 = 1
      BY <1>1, <2>1
    <3>2. new[0] = p
      BY <1>3, <2>2, <3>1
    <3> QED BY <3>2
  <2>11. Follows(new)'
    BY ONLY <2>4, <2>5, <2>7, <2>9, <2>10 DEF Follows
  <2> QED BY <2>2, <2>11 DEF Aligned
<1> QED BY <1>2, <1>3

(* Where the receiver is, and where the next message leads *)
LEMMA ReceiverNext ==
  ASSUME Typed, NEW run \in [0 .. Len(s2r) -> Place], Follows(run)
  PROVE  /\ run[0] \in Place /\ Known(run[0]) /\ ReceiverAt(run[0])
         /\ HasMsg(s2r) => /\ s2r # << >> /\ run[1] \in Place /\ Known(run[1])
                           /\ Takes(run[0], Head(s2r), run[1])
<1>1. Len(s2r) \in Nat /\ s2r \in Seq(Message) /\ 0 \in 0 .. Len(s2r)
  BY TypedParts DEF Typed, TypeOK, ChannelTypes
<1>2. ASSUME HasMsg(s2r)
      PROVE  /\ s2r # << >> /\ run[1] \in Place /\ Known(run[1])
             /\ Takes(run[0], Head(s2r), run[1])
  <2>1. /\ s2r # << >> /\ Head(s2r) = s2r[1] /\ 1 \in 1 .. Len(s2r)
        /\ 1 \in 0 .. Len(s2r) /\ 1 - 1 = 0
    BY <1>1, <1>2 DEF HasMsg
  <2>2. Takes(run[1 - 1], s2r[1], run[1])
    BY <2>1 DEF Follows
  <2> QED BY <2>1, <2>2 DEF Follows
<1> QED BY <1>1, <1>2 DEF Follows

(* nxs_net_recv_file ends, and goes on only behind the transfer. *)
LEMMA RecvReturnAligned ==
  ASSUME Typed, NEW run \in [0 .. Len(s2r) -> Place], Follows(run), UNCHANGED svars,
         NEW ec, NEW data, RecvReturn(ec, data),
         RecvGoesOn(ec) =>
           \/ UNCHANGED s2r /\ run[0] = Between(Len(rdone) + 1)
           \/ HasMsg(s2r) /\ s2r' = Tail(s2r) /\ run[1] = Between(Len(rdone) + 1)
  PROVE  Aligned'
<1>1. CASE rpc' = "fatal"
  BY <1>1 DEF Aligned, Over
<1>2. CASE rpc' = "idle" /\ RecvGoesOn(ec)
  <2>1. PICK p : /\ p = Between(Len(rdone) + 1)
                 /\ \/ UNCHANGED s2r /\ p = run[0]
                    \/ s2r # << >> /\ s2r' = Tail(s2r) /\ p = run[1]
    BY <1>2 DEF HasMsg
  <2>2. ReceiverAt(p)'
    <3>1. p = Between(Len(rdone'))
      BY <2>1, RecvReturnAdds
    <3> QED BY <1>2, <3>1 DEF ReceiverAt, Between
  <2> QED BY <2>1, <2>2, ReceiverMoves DEF svars
<1> QED BY <1>1, <1>2 DEF RecvReturn

LEMMA RecvAligned == Typed /\ Typed' /\ Aligned /\ RecvCode => Aligned'
<1> SUFFICES ASSUME Typed, Typed', Aligned, RecvCode PROVE Aligned'
  OBVIOUS
<1> DEFINE n == Len(rdone)
           t == n + 1
<1>0. CASE rpc \in Over
  BY <1>0 DEF RecvCode, RecvCall, RecvHdr, RecvOpen, RecvBlock, RecvAttrs,
     RecvConfirm, RecvClose, Aligned, Over
<1>1. CASE rpc \notin Over
  <2>1. PICK run \in [0 .. Len(s2r) -> Place] : Follows(run)
    BY <1>1 DEF Aligned
  <2>2. UNCHANGED svars /\ n \in Nat /\ t \in Nat \ {0}
    BY TypedParts DEF RecvCode, RecvCall, RecvHdr, RecvOpen, RecvBlock,
       RecvAttrs, RecvConfirm, RecvClose
  <2>3. PICK p : p \in Place /\ p = run[0] /\ ReceiverAt(p)
    BY <2>1, ReceiverNext
  <2>4. PICK q : /\ q = run[1]
                 /\ HasMsg(s2r) => s2r # << >> /\ q \in Place /\ Takes(p, Head(s2r), q)
    BY <2>1, <2>3, ReceiverNext
  <2>5. ASSUME UNCHANGED s2r, ReceiverAt(p)' PROVE Aligned'
    BY <2>1, <2>2, <2>3, <2>5, ReceiverMoves DEF svars
  <2>6. ASSUME HasMsg(s2r), s2r' = Tail(s2r), ReceiverAt(q)' PROVE Aligned'
    BY <2>1, <2>2, <2>4, <2>6, ReceiverMoves DEF svars
  <2>7. ASSUME NEW ec, NEW data, RecvReturn(ec, data),
               RecvGoesOn(ec) => \/ UNCHANGED s2r /\ p = Between(t)
                                 \/ HasMsg(s2r) /\ s2r' = Tail(s2r) /\ q = Between(t)
        PROVE  Aligned'
    BY <2>1, <2>2, <2>3, <2>4, <2>7, RecvReturnAligned
  <2>8. UNCHANGED rdone => /\ ConfirmOf(t)' = ConfirmOf(t) /\ DataOf(t)' = DataOf(t)
                           /\ (Whole(t)' <=> Whole(t))
    BY <2>2, SameSender DEF svars
  <2>9. DataOf(t) \in Seq(0 .. MaxEdits) /\ Len(DataOf(t)) \in Nat
    BY <2>2, DataTypes
  <2>10. CASE RecvCall
    <3>1. CASE RecvReturn("OPT", << >>)
      BY <2>7, <3>1 DEF RecvGoesOn
    <3>2. CASE rpc' = "hdr" /\ UNCHANGED rdone
      BY <2>3, <2>5, <2>10, <3>2 DEF RecvCall, ReceiverAt, nvars
    <3> QED BY <2>10, <3>1, <3>2 DEF RecvCall
  <2>11. CASE RecvHdr
    <3>1. p.no = n /\ p.left = 0
      BY <2>3, <2>11 DEF RecvHdr, ReceiverAt, Between
    <3>2. CASE RecvReturn("NETWORK", << >>)
      BY <2>7, <3>2 DEF RecvGoesOn
    <3>3. CASE /\ HasMsg(s2r) /\ s2r' = Tail(s2r) /\ Head(s2r).kind = "cancel"
               /\ RecvReturn("CANCELED", << >>)
      <4>1. q = Between(t)
        BY <2>4, <3>1, <3>3 DEF Takes
      <4> QED BY <2>7, <3>3, <4>1
    <3>4. CASE /\ HasMsg(s2r) /\ s2r' = Tail(s2r) /\ Head(s2r).kind = "hdr"
               /\ rconf' = Head(s2r).confirm /\ rlb' = Head(s2r).size
               /\ rpc' = "open" /\ UNCHANGED <<rec, rdone>>
      <4>1. /\ rconf' = ConfirmOf(t)
            /\ IF rlb' = 0 THEN q = Between(t) /\ Whole(t) /\ DataOf(t) = << >>
                           ELSE q = [no |-> n, got |-> 0, left |-> rlb']
        BY <2>4, <3>1, <3>4 DEF Takes
      <4>2. ReceiverAt(q)'
        BY <2>8, <3>4, <4>1 DEF ReceiverAt
      <4> QED BY <2>6, <3>4, <4>2
    <3> QED BY <2>11, <3>2, <3>3, <3>4 DEF RecvHdr
  <2>12. CASE RecvOpen
    <3>1. /\ rconf = ConfirmOf(t) /\ rlb \in Nat
          /\ IF rlb = 0 THEN p = Between(t) /\ Whole(t) /\ DataOf(t) = << >>
                        ELSE p = [no |-> n, got |-> 0, left |-> rlb]
      BY <2>3, <2>12, TypedParts DEF RecvOpen, ReceiverAt
    <3>2. CASE RecvReturn("DISK", << >>)
      BY <2>7, <3>2 DEF RecvGoesOn
    <3>3. CASE /\ dst' = << >> /\ rpc' = AfterRecv(rlb)
               /\ UNCHANGED <<rec, rdone, s2r, rconf, rlb>>
      <4>1. Len(dst') = 0 /\ Prefix(dst', DataOf(t))
        BY <2>9, <3>3 DEF Prefix
      <4>2. ReceiverAt(p)'
        BY <2>8, <3>1, <3>3, <4>1 DEF ReceiverAt, AfterRecv
      <4> QED BY <2>5, <3>3, <4>2
    <3> QED BY <2>12, <3>2, <3>3 DEF RecvOpen, nvars
  <2>13. CASE RecvBlock
    <3>1. /\ rconf = ConfirmOf(t) /\ p = [no |-> n, got |-> Len(dst), left |-> rlb]
          /\ Prefix(dst, DataOf(t)) /\ rlb > 0
      BY <2>3, <2>13 DEF RecvBlock, ReceiverAt, Typed, Shape, ReceiverShape
    <3>2. ASSUME NEW ec \in {"DISK", "NETWORK"}, RecvReturn(ec, dst) PROVE Aligned'
      BY <2>7, <3>2 DEF RecvGoesOn
    <3>3. CASE /\ HasMsg(s2r) /\ s2r' = Tail(s2r) /\ Head(s2r).kind = "stop"
               /\ RecvReturn("CANCELED", dst)
      <4>1. q = Between(t)
        BY <2>4, <3>1, <3>3 DEF Takes
      <4> QED BY <2>7, <3>3, <4>1
    <3>4. CASE /\ HasMsg(s2r) /\ s2r' = Tail(s2r) /\ Head(s2r).kind = "block"
               /\ dst' = Append(dst, Head(s2r).data) /\ rlb' = rlb - 1
               /\ rpc' = AfterRecv(rlb - 1) /\ UNCHANGED <<rec, rdone, rconf>>
      <4> DEFINE d == DataOf(t)
                 k == Len(dst) + 1
      <4>1. /\ k <= Len(d) /\ Head(s2r).data = d[k]
            /\ IF rlb = 1 THEN q = Between(t) /\ Whole(t) /\ Len(d) = k
                          ELSE q = [no |-> n, got |-> k, left |-> rlb - 1]
        BY <2>4, <3>1, <3>4 DEF Takes
      <4>2. dst \in Seq(0 .. MaxEdits) /\ Len(dst) \in Nat /\ rlb \in Nat
        BY TypedParts, FileSeq
      <4>3. /\ dst' = Append(dst, d[k]) /\ Len(dst') = k /\ dst' \in Seq(0 .. MaxEdits)
            /\ \A i \in 1 .. Len(dst) : dst'[i] = dst[i]
            /\ dst'[k] = d[k]
        <5>1. d[k] \in 0 .. MaxEdits
          BY <2>9, <4>1, <4>2
        <5> QED BY <3>4, <4>1, <4>2, <5>1
      <4>4. Prefix(dst', d)
        BY <2>9, <3>1, <4>1, <4>2, <4>3 DEF Prefix
      <4>5. rlb = 1 => dst' = d
        BY <2>9, <4>1, <4>3, <4>4 DEF Prefix
      <4>6. ReceiverAt(q)'
        <5>1. CASE rlb = 1
          <6>1. rpc' = "attrs" /\ q = Between(t) /\ Whole(t) /\ dst' = d
            BY <3>4, <4>1, <4>5, <5>1 DEF AfterRecv
          <6> QED BY <2>8, <3>1, <3>4, <6>1 DEF ReceiverAt
        <5>2. CASE rlb > 1
          <6>1. rpc' = "block" /\ q = [no |-> n, got |-> Len(dst'), left |-> rlb']
            BY <3>4, <4>1, <4>2, <4>3, <5>2 DEF AfterRecv
          <6> QED BY <2>8, <3>1, <3>4, <4>4, <6>1 DEF ReceiverAt
        <5> QED BY <3>1, <4>2, <5>1, <5>2
      <4> QED BY <2>6, <3>4, <4>6
    <3> QED BY <2>13, <3>2, <3>3, <3>4 DEF RecvBlock
  <2>14. CASE RecvAttrs \/ RecvConfirm
    <3>1. /\ rconf = ConfirmOf(t) /\ p = Between(t) /\ Whole(t) /\ dst = DataOf(t)
          /\ UNCHANGED <<s2r, rconf, dst>>
      BY <2>3, <2>14 DEF RecvAttrs, RecvConfirm, ReceiverAt, nvars
    <3>2. ASSUME NEW ec, RecvReturn(ec, dst) PROVE Aligned'
      BY <2>7, <3>1, <3>2
    <3>3. CASE rpc' = "confirm" /\ UNCHANGED rdone
      <4>1. ReceiverAt(p)'
        BY <2>8, <3>1, <3>3 DEF ReceiverAt
      <4> QED BY <2>5, <3>1, <4>1
    <3> QED BY <2>14, <3>2, <3>3 DEF RecvAttrs, RecvConfirm
  <2>15. CASE RecvClose
    BY <1>1, <2>15 DEF RecvClose, Over
  <2> QED BY <2>10, <2>11, <2>12, <2>13, <2>14, <2>15 DEF RecvCode
<1> QED BY <1>0, <1>1

-----------------------------------------------------------------------------
(***************************************************************************)
(* What the two sides have recorded, and the answers under way             *)
(***************************************************************************)
Told == Ahead /\ Answer /\ Answered /\ Agree

LEMMA EmptyPrefix == ASSUME NEW S, NEW s \in Seq(S) PROVE Prefix(<< >>, s)
<1>1. Len(<< >>) = 0 /\ Len(s) \in Nat
  OBVIOUS
<1> QED BY <1>1 DEF Prefix

LEMMA PrefixTransitive ==
  ASSUME NEW a, NEW b, NEW c, Len(a) \in Nat, Len(b) \in Nat, Len(c) \in Nat,
         Prefix(a, b), Prefix(b, c)
  PROVE  Prefix(a, c)
BY DEF Prefix

(* A step at the end of no call *)
LEMMA SilentTold ==
  ASSUME Typed, Typed', Told, UNCHANGED <<sdone, rdone, r2s>>,
         rpc \in Over => rpc' \in Over, spc \in Over => spc' \in Over,
         spc = "confirm" => spc' = "confirm",
         spc \in Sent => spc' \in Sent /\ UNCHANGED sdata,
         spc \in Inside => spc' \in Inside \cup Sent /\ Prefix(sdata, sdata')
  PROVE  Told'
<1>1. /\ Len(sdone) \in Nat /\ Len(rdone) \in Nat
      /\ sdata \in Seq(0 .. MaxEdits) /\ sdata' \in Seq(0 .. MaxEdits)
      /\ Len(sdata) \in Nat /\ Len(sdata') \in Nat
  BY TypedParts, FileSeq DEF Typed, TypeOK, SenderTypes
<1>2. Ahead'
  <2>1. ASSUME NEW j \in Len(sdone) + 1 .. Len(rdone)
        PROVE  IF j = Len(sdone) + 1 /\ spc' \in Inside \cup Sent
               THEN /\ rdone[j].res # "CANCELED" /\ Prefix(rdone[j].data, sdata')
                    /\ rdone[j].res \in {"OK", "ATTRS"} =>
                         spc' \in Sent /\ rdone[j].data = sdata'
               ELSE ~RecvGoesOn(rdone[j].res) /\ rdone[j].data = << >>
    <3>1. IF j = Len(sdone) + 1 /\ spc \in Inside \cup Sent
          THEN /\ rdone[j].res # "CANCELED" /\ Prefix(rdone[j].data, sdata)
               /\ rdone[j].res \in {"OK", "ATTRS"} =>
                    spc \in Sent /\ rdone[j].data = sdata
          ELSE ~RecvGoesOn(rdone[j].res) /\ rdone[j].data = << >>
      BY DEF Told, Ahead
    <3>2. CASE j = Len(sdone) + 1 /\ spc \in Inside \cup Sent
      <4>1. Len(rdone[j].data) \in Nat
        BY <1>1, TypedParts, FileSeq
      <4>2. Prefix(sdata, sdata')
        BY <1>1, <3>2 DEF Prefix
      <4>3. Prefix(rdone[j].data, sdata')
        BY <1>1, <3>1, <3>2, <4>1, <4>2, PrefixTransitive
      <4> QED BY <3>1, <3>2, <4>3
    <3>3. CASE ~(j = Len(sdone) + 1 /\ spc \in Inside \cup Sent)
      <4>1. Prefix(<< >>, sdata')
        BY <1>1, EmptyPrefix
      <4> QED BY <3>1, <3>3, <4>1 DEF RecvGoesOn
    <3> QED BY <3>2, <3>3
  <2> QED BY <2>1 DEF Ahead
<1>3. Answer'
  BY <1>1 DEF Told, Answer, HasMsg
<1>4. Answered'
  BY DEF Told, Answered
<1>5. Agree'
  BY DEF Told, Agree, Prefix
<1> QED BY <1>2, <1>3, <1>4, <1>5 DEF Told

(* The end of a call of nxs_net_send_file *)
LEMMA SendReturnTold ==
  ASSUME Typed, Told, NEW ec, SendReturn(ec), spc \notin Over, UNCHANGED rdone,
         LET n == Len(sdone) + 1
         IN /\ conf /\ ec = "OK" => n <= Len(rdone) /\ rdone[n].res = "OK"
            /\ ec = "CONFIRM_NEGATIVE" => n <= Len(rdone) /\ rdone[n].res = "ATTRS",
         ec \in Cancels => spc \notin Sent,
         Answer'
  PROVE  Told'
<1> DEFINE n == Len(sdone) + 1
<1>1. /\ Len(sdone) \in Nat /\ Len(rdone) \in Nat /\ Len(sdone') = n
      /\ \A i \in 1 .. Len(sdone) : sdone'[i] = sdone[i]
      /\ sdone'[n].res = ec /\ sdone'[n].data = sdata /\ sdone'[n].confirm = conf
      /\ spc' \in {"idle", "fatal"} /\ (ec = "NETWORK" => spc' = "fatal")
  <2>1. spc' \in {"idle", "fatal"} /\ (ec = "NETWORK" => spc' = "fatal")
    BY DEF SendReturn, SendGoesOn, Cancels
  <2> QED BY <2>1, TypedParts, SendReturnAdds
<1>2. Ahead'
  <2>1. ASSUME NEW j \in n + 1 .. Len(rdone)
        PROVE  ~RecvGoesOn(rdone[j].res) /\ rdone[j].data = << >>
    <3>1. j \in Len(sdone) + 1 .. Len(rdone) /\ j # Len(sdone) + 1
      BY <1>1
    <3> QED BY <3>1 DEF Told, Ahead
  <2>2. spc' \notin Inside \cup Sent
    BY <1>1 DEF Inside, Sent
  <2> QED BY <1>1, <2>1, <2>2 DEF Ahead
<1>3. Answered'
  <2>1. ASSUME NEW i \in 1 .. Len(sdone')
        PROVE  /\ sdone'[i].res = "CONFIRM_NEGATIVE" => i <= Len(rdone')
               /\ sdone'[i].res = "NETWORK" => i = Len(sdone') /\ spc' \in Over
    <3>1. CASE i \in 1 .. Len(sdone)
      BY <1>1, <3>1 DEF Told, Answered
    <3>2. CASE i = n
      BY <1>1, <3>2 DEF Over
    <3> QED BY <1>1, <3>1, <3>2
  <2> QED BY <2>1 DEF Answered
<1>4. Agree'
  <2>1. ASSUME NEW i \in 1 .. Len(sdone)
        PROVE  /\ sdone'[i].confirm /\ sdone'[i].res = "OK"
                    => i <= Len(rdone) /\ rdone[i].res = "OK"
               /\ i <= Len(rdone) =>
                    /\ sdone'[i].res \in Cancels =>
                         ~RecvGoesOn(rdone[i].res) \/ rdone[i].res = "CANCELED"
                    /\ sdone'[i].res = "CONFIRM_NEGATIVE" => rdone[i].res = "ATTRS"
                    /\ rdone[i].res = "CANCELED" => sdone'[i].res \in Cancels
                    /\ rdone[i].res \in {"OK", "ATTRS"} => rdone[i].data = sdone'[i].data
                    /\ Prefix(rdone[i].data, sdone'[i].data)
    BY <1>1 DEF Told, Agree
  <2>2. ASSUME n <= Len(rdone)
        PROVE  /\ ec \in Cancels => ~RecvGoesOn(rdone[n].res)
               /\ rdone[n].res # "CANCELED"
               /\ rdone[n].res \in {"OK", "ATTRS"} => rdone[n].data = sdata
               /\ Prefix(rdone[n].data, sdata)
    <3>1. n \in Len(sdone) + 1 .. Len(rdone)
      BY <1>1, <2>2
    <3>2. IF spc \in Inside \cup Sent
          THEN /\ rdone[n].res # "CANCELED" /\ Prefix(rdone[n].data, sdata)
               /\ rdone[n].res \in {"OK", "ATTRS"} =>
                    spc \in Sent /\ rdone[n].data = sdata
          ELSE ~RecvGoesOn(rdone[n].res) /\ rdone[n].data = << >>
      BY <3>1 DEF Told, Ahead
    <3>3. Prefix(<< >>, sdata)
      <4>1. sdata \in Seq(0 .. MaxEdits)
        BY TypedParts, FileSeq
      <4> QED BY <4>1, EmptyPrefix
    <3> QED BY <3>2, <3>3 DEF RecvGoesOn
  <2>3. \A i \in 1 .. Len(sdone') : i \in 1 .. Len(sdone) \/ i = n
    BY <1>1
  <2> QED BY <1>1, <2>1, <2>2, <2>3 DEF Agree
<1> QED BY <1>2, <1>3, <1>4 DEF Told

(* What nxs_net_recv_file may record of the transfer at its turn *)
Entry(ec, data) ==
  LET t == Len(rdone) + 1
  IN IF Ended(t)
     THEN /\ sdone[t].res \in Cancels => ~RecvGoesOn(ec) \/ ec = "CANCELED"
          /\ ec = "CANCELED" => sdone[t].res \in Cancels
          /\ ec \in {"OK", "ATTRS"} => data = sdone[t].data
          /\ Prefix(data, sdone[t].data)
     ELSE IF t = Len(sdone) + 1 /\ spc \in Inside \cup Sent
          THEN /\ ec # "CANCELED" /\ Prefix(data, sdata)
               /\ ec \in {"OK", "ATTRS"} => spc \in Sent /\ data = sdata
          ELSE ~RecvGoesOn(ec) /\ data = << >>

(* The end of a call of nxs_net_recv_file *)
LEMMA RecvReturnTold ==
  ASSUME Typed, Told, NEW ec, NEW data, RecvReturn(ec, data), UNCHANGED svars,
         Entry(ec, data), Answer'
  PROVE  Told'
<1> DEFINE t == Len(rdone) + 1
<1>1. /\ Len(sdone) \in Nat /\ Len(rdone) \in Nat /\ Len(rdone') = t
      /\ \A i \in 1 .. Len(rdone) : rdone'[i] = rdone[i]
      /\ rdone'[t].res = ec /\ rdone'[t].data = data
      /\ UNCHANGED <<sdone, spc, sdata>>
  BY TypedParts, RecvReturnAdds DEF svars
<1>2. Ahead'
  <2>1. ASSUME NEW j \in Len(sdone) + 1 .. t
        PROVE  IF j = Len(sdone) + 1 /\ spc \in Inside \cup Sent
               THEN /\ rdone'[j].res # "CANCELED" /\ Prefix(rdone'[j].data, sdata)
                    /\ rdone'[j].res \in {"OK", "ATTRS"} =>
                         spc \in Sent /\ rdone'[j].data = sdata
               ELSE ~RecvGoesOn(rdone'[j].res) /\ rdone'[j].data = << >>
    <3>1. CASE j \in Len(sdone) + 1 .. Len(rdone)
      BY <1>1, <3>1 DEF Told, Ahead
    <3>2. CASE j = t
      <4>1. ~Ended(t)
        BY <1>1, <3>2 DEF Ended
      <4> QED BY <1>1, <3>2, <4>1 DEF Entry
    <3> QED BY <1>1, <3>1, <3>2
  <2> QED BY <1>1, <2>1 DEF Ahead
<1>3. Answered'
  BY <1>1 DEF Told, Answered
<1>4. Agree'
  <2>1. ASSUME NEW i \in 1 .. Len(sdone), sdone[i].confirm /\ sdone[i].res = "OK"
        PROVE  i <= t /\ rdone'[i].res = "OK"
    <3>1. i <= Len(rdone) /\ rdone[i].res = "OK"
      BY <2>1 DEF Told, Agree
    <3> QED BY <1>1, <3>1
  <2>2. ASSUME NEW i \in 1 .. Len(sdone), i <= t
        PROVE  /\ sdone[i].res \in Cancels =>
                    ~RecvGoesOn(rdone'[i].res) \/ rdone'[i].res = "CANCELED"
               /\ sdone[i].res = "CONFIRM_NEGATIVE" => rdone'[i].res = "ATTRS"
               /\ rdone'[i].res = "CANCELED" => sdone[i].res \in Cancels
               /\ rdone'[i].res \in {"OK", "ATTRS"} => rdone'[i].data = sdone[i].data
               /\ Prefix(rdone'[i].data, sdone[i].data)
    <3>1. CASE i <= Len(rdone)
      BY <1>1, <3>1 DEF Told, Agree
    <3>2. CASE i = t
      <4>1. Ended(t) /\ sdone[t].res # "CONFIRM_NEGATIVE"
        BY <1>1, <3>2 DEF Ended, Told, Answered
      <4> QED BY <1>1, <3>2, <4>1 DEF Entry
    <3> QED BY <1>1, <2>2, <3>1, <3>2
  <2> QED BY <1>1, <2>1, <2>2 DEF Agree
<1> QED BY <1>2, <1>3, <1>4 DEF Told

LEMMA SendTold ==
  ASSUME Typed, Typed', Told,
         SendCode \/ SendClose \/ \E c \in BOOLEAN : SendCall(c)
  PROVE  Told'
<1>0. /\ Len(sdone) \in Nat /\ Len(rdone) \in Nat /\ sdata \in Seq(0 .. MaxEdits)
      /\ Len(sdata) \in Nat /\ Prefix(sdata, sdata)
      /\ spc \in {"emrg", "cancel"} => sec \in Cancels
      /\ spc \in Sent => (conf <=> spc = "confirm")
      /\ UNCHANGED <<rdone, rpc>>
  <2>1. UNCHANGED <<rdone, rpc>>
    BY DEF SendCode, SendClose, SendCall, SendPrep, SendWatch, SendOpen,
       SendEmergency, SendHdr, SendCheck, SendRead, SendBlock, SendCancel,
       SendConfirm, SendDone, rvars
  <2>2. sdata \in Seq(0 .. MaxEdits)
    BY TypedParts, FileSeq
  <2> QED BY <2>1, <2>2, TypedParts DEF Typed, Shape, SenderShape, Prefix
<1>1. ASSUME NEW ec, SendReturn(ec), UNCHANGED r2s, spc # "confirm", spc \notin Over,
             ec \in Cancels \cup {"OK", "NETWORK"}, ec = "OK" => ~conf,
             ec \in Cancels => spc \notin Sent
      PROVE  Told'
  <2>1. Answer'
    BY <1>0, <1>1 DEF Told, Answer, HasMsg
  <2> QED BY <1>0, <1>1, <2>1, SendReturnTold DEF Cancels
<1>2. CASE \/ \E c \in BOOLEAN : SendCall(c)
           \/ SendPrep \/ SendWatch \/ SendOpen \/ SendClose
  <2>1. /\ UNCHANGED <<sdone, r2s>> /\ spc \notin Inside \cup Sent
        /\ (spc \in Over => spc' \in Over) /\ spc # "confirm"
    BY <1>2 DEF SendCall, SendPrep, SendWatch, SendOpen, SendClose, Emergency,
       Inside, Sent, Over, nvars
  <2> QED BY <1>0, <2>1, SilentTold
<1>3. CASE SendCheck \/ SendRead
  <2>1. /\ UNCHANGED <<sdone, r2s>> /\ spc \in Inside /\ spc' \in Inside
        /\ spc \notin Sent \cup Over /\ spc # "confirm"
        /\ (UNCHANGED sdata \/ \E b : sdata' = Append(sdata, b))
    BY <1>3 DEF SendCheck, SendRead, CancelBy, Inside, Sent, Over, nvars
  <2>2. Prefix(sdata, sdata')
    <3>1. CASE UNCHANGED sdata
      BY <1>0, <3>1
    <3>2. ASSUME NEW b, sdata' = Append(sdata, b) PROVE Prefix(sdata, sdata')
      <4>1. Len(sdata') = Len(sdata) + 1 /\ \A i \in 1 .. Len(sdata) : sdata'[i] = sdata[i]
        BY <1>0, <3>2
      <4> QED BY <1>0, <4>1 DEF Prefix
    <3> QED BY <2>1, <3>1, <3>2
  <2> QED BY <1>0, <2>1, <2>2, SilentTold
<1>4. CASE SendHdr \/ SendBlock
  <2>1. /\ spc \notin Sent \cup Over /\ spc # "confirm" /\ UNCHANGED <<r2s, sdata>>
    BY <1>4 DEF SendHdr, SendBlock, Sent, Over
  <2>2. CASE SendReturn("NETWORK")
    BY <1>1, <2>1, <2>2 DEF Cancels
  <2>3. CASE UNCHANGED sdone /\ \E lb : spc' = AfterBlocks(lb)
    <3>1. spc' \in Inside \cup Sent
      BY <2>3 DEF AfterBlocks, Inside, Sent
    <3> QED BY <1>0, <2>1, <2>3, <3>1, SilentTold
  <2> QED BY <1>4, <2>2, <2>3 DEF SendHdr, SendOut, SendBlock
<1>5. CASE SendEmergency \/ SendCancel
  <2>1. /\ spc \notin Sent \cup Over /\ spc # "confirm" /\ UNCHANGED r2s
        /\ sec \in Cancels /\ (SendReturn(sec) \/ SendReturn("NETWORK"))
    BY <1>0, <1>5 DEF SendEmergency, SendCancel, SendOut, Sent, Over
  <2> QED BY <1>1, <2>1 DEF Cancels
<1>6. CASE SendDone
  <2>1. spc \in Sent /\ spc \notin Over /\ spc # "confirm" /\ UNCHANGED r2s /\ SendReturn("OK")
    BY <1>6 DEF SendDone, Sent, Over, nvars
  <2> QED BY <1>0, <1>1, <2>1 DEF Cancels
<1>7. CASE SendConfirm
  <2> DEFINE n == Len(sdone) + 1
  <2>1. spc = "confirm" /\ spc \notin Over
    BY <1>7 DEF SendConfirm, Over
  <2>2. ASSUME HasMsg(r2s)
        PROVE  /\ Head(r2s).kind \in {"yes", "no"} /\ Len(r2s) = 1 /\ n <= Len(rdone)
               /\ rdone[n].res = IF Head(r2s).kind = "yes" THEN "OK" ELSE "ATTRS"
    <3>1. r2s \in Seq(Answers) /\ Head(r2s) \in Answers /\ Len(r2s) > 0 /\ Len(r2s) \in Nat
      BY <2>2, ChannelKept DEF Typed, TypeOK, ChannelTypes
    <3>2. Head(r2s).kind \in {"yes", "no"}
      BY <2>2, <3>1 DEF Answers, HasMsg
    <3>3. Len(r2s) <= 1
      BY DEF Told, Answer
    <3>4. /\ n <= Len(rdone)
          /\ rdone[n].res = IF Head(r2s).kind = "yes" THEN "OK" ELSE "ATTRS"
      BY <2>1, <2>2 DEF Told, Answer
    <3>5. \A k \in Nat : k > 0 /\ k <= 1 => k = 1
      OBVIOUS
    <3>6. Len(r2s) = 1
      BY <3>1, <3>3, <3>5
    <3> QED BY <3>2, <3>4, <3>6
  <2>3. CASE /\ HasMsg(r2s) /\ r2s' = Tail(r2s)
             /\ SendReturn(IF Head(r2s).kind = "yes" THEN "OK" ELSE "CONFIRM_NEGATIVE")
    <3>1. r2s' = << >>
      <4>1. r2s \in Seq(Answers)
        BY DEF Typed, TypeOK, ChannelTypes
      <4> QED BY <2>2, <2>3, <4>1
    <3>2. Answer'
      <4>1. Len(r2s') = 0
        BY <3>1
      <4> QED BY <3>1, <4>1 DEF Answer, HasMsg
    <3> QED BY <1>0, <2>1, <2>2, <2>3, <3>2, SendReturnTold DEF Cancels
  <2>4. CASE SendReturn("NETWORK") /\ UNCHANGED r2s
    <3>1. spc' \in Over /\ Len(sdone') = n
      BY <2>4, SendReturnAdds DEF SendReturn, SendGoesOn, Cancels, Over
    <3>2. Answer'
      BY <1>0, <2>1, <2>2, <2>4, <3>1 DEF Told, Answer, HasMsg
    <3> QED BY <1>0, <2>1, <2>4, <3>2, SendReturnTold DEF Cancels
  <2> QED BY <1>7, <2>3, <2>4 DEF SendConfirm
<1> QED BY <1>2, <1>3, <1>4, <1>5, <1>6, <1>7 DEF SendCode

LEMMA RecvTold == Typed /\ Typed' /\ Aligned /\ Told /\ RecvCode => Told'
<1> SUFFICES ASSUME Typed, Typed', Aligned, Told, RecvCode PROVE Told'
  OBVIOUS
<1> DEFINE n == Len(rdone)
           t == n + 1
<1>0. /\ UNCHANGED svars /\ n \in Nat /\ Len(sdone) \in Nat /\ t \in Nat \ {0}
      /\ rpc = "block" => rlb > 0
      /\ rpc = "confirm" => rec \in {"OK", "ATTRS"} /\ rconf
  BY TypedParts DEF RecvCode, RecvCall, RecvHdr, RecvOpen, RecvBlock,
     RecvAttrs, RecvConfirm, RecvClose, Typed, Shape, ReceiverShape
<1>1. ASSUME UNCHANGED <<rdone, r2s>>, rpc \in Over => rpc' \in Over PROVE Told'
  <2>1. Len(sdata) \in Nat /\ UNCHANGED <<spc, sdata, sdone>>
    BY <1>0, TypedParts DEF svars
  <2>2. Prefix(sdata, sdata')
    BY <2>1 DEF Prefix
  <2> QED BY <1>1, <2>1, <2>2, SilentTold
<1>2. CASE rpc \in Over
  <2>1. RecvClose /\ UNCHANGED <<rdone, r2s>> /\ rpc' \in Over
    BY <1>2 DEF RecvCode, RecvCall, RecvHdr, RecvOpen, RecvBlock, RecvAttrs,
       RecvConfirm, RecvClose, Over
  <2> QED BY <1>1, <2>1
<1>3. CASE rpc \notin Over
  <2>1. PICK run \in [0 .. Len(s2r) -> Place] : Follows(run)
    BY <1>3 DEF Aligned
  <2>2. PICK p : p \in Place /\ p = run[0] /\ ReceiverAt(p) /\ Known(p)
    BY <2>1, ReceiverNext
  <2>3. ASSUME HasMsg(s2r), Head(s2r).kind \in {"cancel", "stop"}, p.no = n
        PROVE  Ended(t) /\ sdone[t].res \in Cancels
    <3>1. Takes(p, Head(s2r), run[1])
      BY <2>1, <2>2, <2>3, ReceiverNext
    <3> QED BY <2>3, <3>1 DEF Takes
  <2>4. ~Ended(t) => t > Len(sdone)
    BY <1>0 DEF Ended
  <2>5. ASSUME NEW ec, ~RecvGoesOn(ec) PROVE Entry(ec, << >>)
    <3>1. ec \notin {"OK", "CANCELED", "ATTRS"}
      BY <2>5 DEF RecvGoesOn
    <3>2. Prefix(<< >>, sdata) /\ (Ended(t) => Prefix(<< >>, sdone[t].data))
      <4>1. sdata \in Seq(0 .. MaxEdits)
        BY TypedParts, FileSeq
      <4>2. Ended(t) => sdone[t].data \in Seq(0 .. MaxEdits)
        BY <1>0, TypedParts, FileSeq DEF Ended
      <4> QED BY <4>1, <4>2, EmptyPrefix
    <3> QED BY <2>5, <3>1, <3>2 DEF Entry
  <2>6. ASSUME NEW ec, NEW data, RecvReturn(ec, data), UNCHANGED r2s, Entry(ec, data)
        PROVE  Told'
    <3>1. Answer'
      <4>1. UNCHANGED <<sdone, spc>> /\ Len(rdone') = n + 1
            /\ \A i \in 1 .. n : rdone'[i] = rdone[i]
        BY <1>0, <2>6, RecvReturnAdds DEF svars
      <4> QED BY <1>0, <1>3, <2>6, <4>1 DEF Told, Answer, HasMsg
    <3> QED BY <1>0, <2>6, <3>1, RecvReturnTold
  <2>7. CASE RecvCall
    <3>1. CASE RecvReturn("OPT", << >>)
      BY <2>5, <2>6, <2>7, <3>1 DEF RecvCall, RecvGoesOn, nvars
    <3>2. CASE UNCHANGED rdone
      BY <1>1, <1>3, <2>7, <3>2 DEF RecvCall, nvars
    <3> QED BY <2>7, <3>1, <3>2 DEF RecvCall
  <2>8. CASE RecvHdr
    <3>1. CASE RecvReturn("NETWORK", << >>)
      BY <2>5, <2>6, <2>8, <3>1 DEF RecvHdr, RecvGoesOn
    <3>2. CASE HasMsg(s2r) /\ Head(s2r).kind = "cancel" /\ RecvReturn("CANCELED", << >>)
      <4>1. p.no = n
        BY <2>2, <2>8 DEF RecvHdr, ReceiverAt, Between
      <4>2. Ended(t) /\ sdone[t].res \in Cancels
        BY <2>3, <3>2, <4>1
      <4>3. Entry("CANCELED", << >>)
        <5>1. sdone[t].data \in Seq(0 .. MaxEdits)
          BY <1>0, <4>2, TypedParts, FileSeq DEF Ended
        <5> QED BY <4>2, <5>1, EmptyPrefix DEF Entry
      <4> QED BY <2>6, <2>8, <3>2, <4>3 DEF RecvHdr
    <3>3. CASE UNCHANGED rdone
      BY <1>1, <1>3, <2>8, <3>3 DEF RecvHdr
    <3> QED BY <2>8, <3>1, <3>2, <3>3 DEF RecvHdr
  <2>9. CASE RecvOpen
    <3>1. CASE RecvReturn("DISK", << >>)
      BY <2>5, <2>6, <2>9, <3>1 DEF RecvOpen, RecvGoesOn, nvars
    <3>2. CASE UNCHANGED rdone
      BY <1>1, <1>3, <2>9, <3>2 DEF RecvOpen, nvars
    <3> QED BY <2>9, <3>1, <3>2 DEF RecvOpen
  <2>10. CASE RecvBlock
    <3>1. p = [no |-> n, got |-> Len(dst), left |-> rlb] /\ Prefix(dst, DataOf(t))
      BY <2>2, <2>10 DEF RecvBlock, ReceiverAt
    <3>2. ASSUME NEW ec \in {"DISK", "NETWORK"} PROVE Entry(ec, dst)
      <4>1. CASE Ended(t)
        BY <3>1, <4>1 DEF Entry, DataOf, RecvGoesOn
      <4>2. CASE ~Ended(t)
        <5>1. t = Len(sdone) + 1 /\ spc \in Inside \cup Sent
          BY <1>0, <2>2, <2>4, <2>10, <3>1, <4>2 DEF Known, RecvBlock
        <5> QED BY <3>1, <4>2, <5>1 DEF Entry, DataOf
      <4> QED BY <4>1, <4>2
    <3>3. CASE HasMsg(s2r) /\ Head(s2r).kind = "stop" /\ RecvReturn("CANCELED", dst)
      <4>1. Ended(t) /\ sdone[t].res \in Cancels
        BY <2>3, <3>1, <3>3
      <4>2. Entry("CANCELED", dst)
        BY <3>1, <4>1 DEF Entry, DataOf
      <4> QED BY <2>6, <2>10, <3>3, <4>2 DEF RecvBlock
    <3>4. CASE RecvReturn("DISK", dst) \/ RecvReturn("NETWORK", dst)
      BY <2>6, <2>10, <3>2, <3>4 DEF RecvBlock
    <3>5. CASE UNCHANGED rdone
      BY <1>1, <1>3, <2>10, <3>5 DEF RecvBlock
    <3> QED BY <2>10, <3>3, <3>4, <3>5 DEF RecvBlock
  <2>11. CASE RecvAttrs \/ RecvConfirm
    <3>1. /\ rconf = ConfirmOf(t) /\ p = Between(t) /\ Whole(t) /\ dst = DataOf(t)
          /\ p.no = t /\ p.left = 0
      BY <1>0, <2>2, <2>11, BetweenPlace DEF RecvAttrs, RecvConfirm, ReceiverAt
    <3>2. /\ t <= Len(sdone) + (IF spc \in Sent THEN 1 ELSE 0)
          /\ ~Ended(t) => t = Len(sdone) + 1 /\ spc \in Sent
      BY <1>0, <2>2, <2>4, <3>1 DEF Known
    <3>3. ASSUME NEW ec \in {"OK", "ATTRS", "NETWORK"} PROVE Entry(ec, dst)
      <4>1. Len(dst) \in Nat
        BY TypedParts
      <4>2. Prefix(dst, dst)
        BY <4>1 DEF Prefix
      <4>3. CASE Ended(t)
        BY <3>1, <4>2, <4>3 DEF Entry, DataOf, Whole
      <4>4. CASE ~Ended(t)
        BY <3>1, <3>2, <4>2, <4>4 DEF Entry, DataOf
      <4> QED BY <4>3, <4>4
    <3>4. CASE RecvAttrs
      <4>1. CASE RecvReturn(rec', dst)
        <5>1. PICK ec \in {"OK", "ATTRS"} : RecvReturn(ec, dst)
          BY <3>4, <4>1 DEF RecvAttrs
        <5> QED BY <2>6, <3>3, <3>4, <5>1 DEF RecvAttrs, nvars
      <4>2. CASE UNCHANGED rdone
        BY <1>1, <1>3, <3>4, <4>2 DEF RecvAttrs, nvars
      <4> QED BY <3>4, <4>1, <4>2 DEF RecvAttrs
    <3>5. CASE RecvConfirm
      <4>1. rpc = "confirm" /\ rec \in {"OK", "ATTRS"} /\ ConfirmOf(t)
        BY <1>0, <3>1, <3>5 DEF RecvConfirm
      <4>2. r2s = << >>
        <5>1. ~HasMsg(r2s)
          BY <1>0, <3>2 DEF Told, Answer, Sent, Over
        <5> QED BY <1>3, <5>1 DEF Told, Answer, HasMsg
      <4>3. PICK ec \in {"OK", "ATTRS", "NETWORK"} :
              /\ RecvReturn(ec, dst)
              /\ \/ UNCHANGED r2s
                 \/ r2s' = Append(r2s, [kind |-> "cut"]) /\ ec = "NETWORK"
                 \/ /\ ec = rec /\ rec # "NETWORK"
                    /\ r2s' = Append(r2s, [kind |-> IF rec = "OK" THEN "yes" ELSE "no"])
        BY <3>5, <4>1 DEF RecvConfirm, Out, OutFails
      <4>4. /\ UNCHANGED <<sdone, spc>> /\ Len(rdone') = t /\ rdone'[t].res = ec
            /\ (ec = "NETWORK" => rpc' \in Over)
        BY <1>0, <4>3, RecvReturnAdds DEF svars, RecvGoesOn, Over
      <4>5. Answer'
        <5>1. CASE UNCHANGED r2s
          BY <4>2, <5>1 DEF Answer, HasMsg
        <5>2. ASSUME NEW m, r2s' = Append(r2s, m)
              PROVE  Len(r2s') = 1 /\ Head(r2s') = m /\ r2s' # << >>
          BY <4>2, <5>2
        <5>3. CASE r2s' = Append(r2s, [kind |-> "cut"]) /\ ec = "NETWORK"
          <6>1. Len(r2s') = 1 /\ Head(r2s').kind = "cut"
            BY <5>2, <5>3
          <6> QED BY <4>4, <5>3, <6>1 DEF Answer, HasMsg
        <5>4. CASE /\ ec = rec /\ rec # "NETWORK"
                   /\ r2s' = Append(r2s, [kind |-> IF rec = "OK" THEN "yes" ELSE "no"])
          <6>1. /\ Len(r2s') = 1 /\ Head(r2s').kind \in {"yes", "no"}
                /\ ec = IF Head(r2s').kind = "yes" THEN "OK" ELSE "ATTRS"
            BY <4>1, <5>2, <5>4
          <6>2. CASE Ended(t)
            <7>1. sdone[t].confirm /\ sdone[t].res \in SendCodes \ Cancels
              BY <1>0, <3>1, <4>1, <6>2, TypedParts DEF Ended, ConfirmOf, Whole
            <7>2. t \in 1 .. Len(sdone) /\ ~(t <= Len(rdone))
              BY <1>0, <6>2 DEF Ended
            <7>3. sdone[t].res = "NETWORK"
              BY <7>1, <7>2 DEF Told, Agree, Answered, SendCodes
            <7>4. spc \in Over /\ t = Len(sdone)
              BY <7>2, <7>3 DEF Told, Answered
            <7> QED BY <1>0, <4>4, <6>1, <7>4 DEF Answer
          <6>3. CASE ~Ended(t)
            <7>1. spc = "confirm" /\ t = Len(sdone) + 1
              <8>1. spc \in Sent /\ t = Len(sdone) + 1 /\ conf
                BY <3>2, <4>1, <6>3 DEF ConfirmOf
              <8> QED BY <8>1 DEF Typed, Shape, SenderShape
            <7> QED BY <1>0, <4>4, <6>1, <7>1 DEF Answer
          <6> QED BY <6>2, <6>3
        <5> QED BY <4>3, <5>1, <5>3, <5>4
      <4> QED BY <1>0, <3>3, <4>3, <4>5, RecvReturnTold
    <3> QED BY <2>11, <3>4, <3>5
  <2>12. CASE RecvClose
    BY <1>3, <2>12 DEF RecvClose, Over
  <2> QED BY <2>7, <2>8, <2>9, <2>10, <2>11, <2>12 DEF RecvCode
<1> QED BY <1>2, <1>3

-----------------------------------------------------------------------------
(***************************************************************************)
(* The two sides stay in step.                                             *)
(***************************************************************************)
LEMMA InitStory == Init => Story
<1> SUFFICES ASSUME Init PROVE Story
  OBVIOUS
<1>1. /\ s2r = << >> /\ r2s = << >> /\ sdone = << >> /\ rdone = << >>
      /\ spc = "idle" /\ rpc = "idle"
  BY DEF Init
<1>2. Len(s2r) = 0 /\ Len(r2s) = 0 /\ Len(sdone) = 0 /\ Len(rdone) = 0
  BY <1>1
<1>3. Aligned
  <2>1. PICK run \in [0 .. 0 -> Place] : run[0] = Between(0)
    <3> DEFINE w == [i \in 0 .. 0 |-> Between(0)]
    <3>1. Between(0) \in Place
      BY BetweenPlace
    <3>2. w \in [0 .. 0 -> Place] /\ w[0] = Between(0)
      BY <3>1
    <3> QED BY <3>2
  <2>2. Known(run[0]) /\ SenderAt(run[0]) /\ ReceiverAt(run[0])
    BY <1>1, <1>2, <2>1, BetweenPlace DEF Known, SenderAt, ReceiverAt, Inside,
       Sent
  <2>3. Follows(run)
    BY <1>2, <2>2 DEF Follows
  <2> QED BY <1>2, <2>3 DEF Aligned
<1>4. Ahead /\ Answer /\ Answered /\ Agree
  BY <1>1, <1>2 DEF Ahead, Answer, Answered, Agree, HasMsg
<1> QED BY <1>3, <1>4 DEF Story

LEMMA NextStory == Typed /\ Typed' /\ Story /\ [Next]_vars => Story'
<1> SUFFICES ASSUME Typed, Typed', Story, [Next]_vars PROVE Story'
  OBVIOUS
<1>0. Aligned /\ Told /\ Len(sdata) \in Nat
  BY TypedParts DEF Story, Told
<1>1. ASSUME UNCHANGED <<spc, conf, slb, sdata, sdone, s2r, r2s, rvars>> PROVE Story'
  <2>1. Prefix(sdata, sdata')
    BY <1>0, <1>1 DEF Prefix
  <2>2. Told'
    BY <1>0, <1>1, <2>1, SilentTold DEF rvars
  <2>3. Aligned'
    <3>1. CASE rpc \in Over
      BY <1>1, <3>1 DEF Aligned, rvars
    <3>2. CASE rpc \notin Over
      <4>1. PICK run \in [0 .. Len(s2r) -> Place] : Follows(run)
        BY <1>0, <3>2 DEF Aligned
      <4>2. PICK p : p = run[0] /\ ReceiverAt(p)
        BY <4>1 DEF Follows
      <4>3. ReceiverAt(p)'
        <5>1. \A t : /\ ConfirmOf(t)' = ConfirmOf(t) /\ DataOf(t)' = DataOf(t)
                     /\ (Whole(t)' <=> Whole(t))
          BY <1>1, SameSender
        <5> QED BY <1>1, <4>2, <5>1 DEF ReceiverAt, rvars
      <4> QED BY <1>1, <4>1, <4>2, <4>3, ReceiverMoves
    <3> QED BY <3>1, <3>2
  <2> QED BY <2>2, <2>3 DEF Story, Told
<1>2. CASE UNCHANGED vars
  BY <1>1, <1>2 DEF vars, nvars, svars
<1>3. CASE Edit
  BY <1>1, <1>3 DEF Edit, Rewrite, Replace, Remove, Unlinked, nvars
<1>4. CASE SendCode \/ SendClose \/ \E c \in BOOLEAN : SendCall(c)
  BY <1>0, <1>4, SendAligned, SendTold DEF Story, Told
<1>5. CASE RecvCode
  BY <1>0, <1>5, RecvAligned, RecvTold DEF Story, Told
<1> QED BY <1>2, <1>3, <1>4, <1>5 DEF Next

(* The messages under way lead from the place of nxs_net_recv_file to that *)
(* of nxs_net_send_file, and each says what its transfer is or was.        *)
THEOREM StoryAlways == Spec => []Story
<1> QED BY InitTyped, InitStory, NextTyped, NextStory, Typing, PTL DEF Spec

(* nxs_net_send_file and nxs_net_recv_file tell the same story of every    *)
(* transfer: cancels, confirmations, refusals, and the data.               *)
THEOREM AgreeAlways == Spec => []Agree
<1>1. Story => Agree
  BY DEF Story
<1> QED BY <1>1, StoryAlways, PTL

(* No side ever receives what is not for it: a header where it awaits a    *)
(* block, a block where it awaits a header, an answer it does not expect.  *)
THEOREM InStepAlways == Spec => []InStep
<1>1. Typed /\ Story => InStep
  <2> SUFFICES ASSUME Typed, Story PROVE InStep
    OBVIOUS
  <2>1. HasMsg(r2s) => spc \in {"confirm", "fatal", "closed"}
    BY DEF Story, Answer, Over
  <2>2. ASSUME rpc \notin Over, HasMsg(s2r)
        PROVE  /\ rpc \in {"idle", "hdr"} => Head(s2r).kind \in {"hdr", "cancel"}
               /\ rpc = "block" => Head(s2r).kind \in {"block", "stop"}
               /\ rpc \in {"open", "attrs"} /\ rlb = 0
                    => Head(s2r).kind \in {"hdr", "cancel"}
    <3>1. PICK run \in [0 .. Len(s2r) -> Place] : Follows(run)
      BY <2>2 DEF Story, Aligned
    <3>2. PICK p : p \in Place /\ p = run[0] /\ ReceiverAt(p)
      BY <3>1, ReceiverNext
    <3>3. Takes(p, Head(s2r), run[1]) /\ Head(s2r).kind # "cut"
      BY <2>2, <3>1, <3>2, ReceiverNext DEF HasMsg
    <3>4. IF p.left = 0 THEN Head(s2r).kind \in {"hdr", "cancel"}
                        ELSE Head(s2r).kind \in {"block", "stop"}
      BY <3>3 DEF Takes, Place
    <3>5. /\ rpc \in {"idle", "hdr"} => p.left = 0
          /\ rpc = "block" => p.left # 0
          /\ rpc \in {"open", "attrs"} /\ rlb = 0 => p.left = 0
      BY <3>2 DEF ReceiverAt, Between, Typed, Shape, ReceiverShape
    <3> QED BY <3>4, <3>5
  <2> QED BY <2>1, <2>2 DEF InStep, Over
<1> QED BY <1>1, StoryAlways, Typing, PTL

(* After calls that all went on, as many on either side, no byte is left   *)
(* in the connection: "the protocol is not broken".                        *)
THEOREM QuietAlways == Spec => []Quiet
<1>1. Typed /\ Story => Quiet
  <2> SUFFICES ASSUME Typed, Story, spc = "idle", rpc = "idle", Len(sdone) = Len(rdone)
               PROVE  s2r = << >> /\ r2s = << >>
    BY DEF Quiet
  <2>1. r2s = << >>
    BY DEF Story, Answer, HasMsg, Over
  <2>2. s2r = << >>
    <3>1. PICK run \in [0 .. Len(s2r) -> Place] : Follows(run)
      BY DEF Story, Aligned, Over
    <3>2. Len(s2r) \in Nat /\ s2r \in Seq(Message)
      BY TypedParts DEF Typed, TypeOK, ChannelTypes
    <3>3. run[0] = Between(Len(rdone)) /\ run[Len(s2r)] = Between(Len(sdone))
      BY <3>1 DEF Follows, ReceiverAt, SenderAt, Early
    <3>4. ASSUME Len(s2r) > 0 PROVE FALSE
      <4>1. Before(run[0], run[Len(s2r)])
        BY <3>1, <3>2, <3>4 DEF Follows, Over
      <4> QED BY <3>3, <4>1, TypedParts DEF Before, Between
    <3> QED BY <3>2, <3>4
  <2> QED BY <2>1, <2>2
<1> QED BY <1>1, StoryAlways, Typing, PTL
=============================================================================

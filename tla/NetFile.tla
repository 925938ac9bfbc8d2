------------------------------ MODULE NetFile -------------------------------
(***************************************************************************)
(* nxs-net: sending files over a connection, nxs_net_send_file on one side *)
(* and nxs_net_recv_file on the other, one transfer after another.         *)
(*                                                                         *)
(* A file is a sequence of 64 KiB blocks and a block is the number of the  *)
(* edit that wrote it.  The sending side watches its file with inotify     *)
(* while others rewrite, replace or delete it.  The channels carry what    *)
(* one call of nxs_net_send_core sends as one message; a call that fails   *)
(* half way leaves a message of kind "cut", which nobody can receive.      *)
(* Both applications do what the comments of the two functions recommend:  *)
(* they close the connection on an error that nxs_net_send_file_err or     *)
(* nxs_net_recv_file_err calls fatal and go on with it otherwise.          *)
(***************************************************************************)
EXTENDS Integers, Sequences, FiniteSets

CONSTANTS
  MaxBlocks,     (* blocks a file can have                                 *)
  MaxEdits,      (* bound: edits of the sending side's file                *)
  MaxTransfers,  (* bound: calls of nxs_net_send_file                      *)
  Capacity,      (* messages a direction of the connection can hold        *)
  GivesMetadata  (* TRUE: the caller of nxs_net_recv_file passes a         *)
                 (* structure for the metadata, which leaves the function's*)
                 (* own one uninitialised                                  *)

ASSUME NetFileAssumption ==
  /\ MaxBlocks \in Nat \ {0} /\ MaxEdits \in Nat /\ MaxTransfers \in Nat \ {0}
  /\ Capacity \in Nat \ {0}
  /\ GivesMetadata \in BOOLEAN

VARIABLES
  faults,   (* whether time-outs, signals and network errors can happen    *)
  files,    (* files[i]: the blocks of the i-th file (inode) there has been*)
  path,     (* the file that the path names, 0 when it names none          *)
  edits,    (* edits so far                                                *)
  up,       (* the sides whose connection is open                          *)
  s2r, r2s, (* the bytes under way, as messages                            *)
  spc,      (* where nxs_net_send_file is                                  *)
  conf,     (* its opt->confirm                                            *)
  sec,      (* its ec                                                      *)
  slb,      (* its lb, in blocks                                           *)
  watch,    (* the file it watches, 0 when none                            *)
  event,    (* an inotify event waits in fc.fd                             *)
  ifd,      (* the file it has open, 0 when none                           *)
  sdata,    (* the blocks it has read                                      *)
  checked,  (* history: what the open file held at the last check          *)
  held,     (* history: all the path's file has held during the call       *)
  sdone,    (* history: the finished calls                                 *)
  rpc,      (* where nxs_net_recv_file is                                  *)
  rec,      (* its ec                                                      *)
  rconf,    (* its if_confirm                                              *)
  rlb,      (* its lb, in blocks                                           *)
  dst,      (* the blocks in the file it writes                            *)
  rdone     (* history: the finished calls                                 *)

fvars == <<files, path, edits>>
nvars == <<up, s2r, r2s>>
svars == <<spc, conf, sec, slb, watch, event, ifd, sdata, checked, sdone>>
rvars == <<rpc, rec, rconf, rlb, dst, rdone>>
vars  == <<faults, fvars, nvars, svars, held, rvars>>

File == UNION {[1 .. n -> 0 .. MaxEdits] : n \in 0 .. MaxBlocks}
Inode == 1 .. MaxEdits + 1

(* Return codes that nothing here tells apart have one name: PREPARE is     *)
(* STAT, TYPE, METADATA, INOTIFY or OPEN_FILE before the header is sent,   *)
(* ATTRS is CHOWN, CHMOD or UTIME, DISK is OPEN_FILE or WRITE_FILE on the   *)
(* receiving side, NETWORK is POLL, TIMEOUT, PEER_SHUTDOWN, SOCKREAD or     *)
(* SOCKWRITE.                                                              *)
Cancels == {"PREPARE", "CHANGED", "READ_FILE"}
SendCodes == {"OK", "CONFIRM_NEGATIVE", "NETWORK"} \cup Cancels
RecvCodes == {"OK", "CANCELED", "ATTRS", "OPT", "DISK", "NETWORK"}

(* mutant: an unwritable destination is called harmless *)
RecvGoesOnAfterDisk(ec) == ec \in {"OK", "CANCELED", "ATTRS", "DISK"}

(* nxs_net_send_file_err and nxs_net_recv_file_err: what is not fatal *)
SendGoesOn(ec) == ec \in {"OK", "CONFIRM_NEGATIVE"} \cup Cancels
RecvGoesOn(ec) == ec \in {"OK", "CANCELED", "ATTRS"}

Prefix(s, t) == Len(s) <= Len(t) /\ \A i \in 1 .. Len(s) : s[i] = t[i]
-----------------------------------------------------------------------------
Init ==
  /\ faults \in BOOLEAN
  /\ files \in [Inode -> {[i \in 1 .. n |-> 0] : n \in 0 .. MaxBlocks}]
  /\ \A i \in Inode \ {1} : files[i] = << >>
  /\ path = 1 /\ edits = 0
  /\ up = {"snd", "rcv"} /\ s2r = << >> /\ r2s = << >>
  /\ spc = "idle" /\ conf = FALSE /\ sec = "OK"
  /\ slb = 0 /\ watch = 0 /\ event = FALSE /\ ifd = 0
  /\ sdata = << >> /\ checked = << >> /\ held = {} /\ sdone = << >>
  /\ rpc = "idle" /\ rec = "OK" /\ rconf = FALSE /\ rlb = 0 /\ dst = << >>
  /\ rdone = << >>

(***************************************************************************)
(* The sending side's file, edited by others                               *)
(***************************************************************************)

(* Everything rewritten in place, with n blocks: IN_MODIFY for a watcher *)
Rewrite(n) ==
  /\ path # 0 /\ edits < MaxEdits
  /\ edits' = edits + 1
  /\ files' = [files EXCEPT ![path] = [i \in 1 .. n |-> edits + 1]]
  /\ event' = (event \/ watch = path)
  /\ held' = held \cup {files'[path]}
  /\ UNCHANGED <<faults, path, nvars, spc, conf, sec, slb, watch, ifd, sdata,
                 checked, sdone, rvars>>

(* A new file renamed over the path, or the path removed.  That the watched *)
(* file lost its name is none of the events asked for; when it goes away   *)
(* for good, as it may while nobody has it open, IN_IGNORED is queued.     *)
Unlinked ==
  /\ event' \in {event} \cup (IF path # 0 /\ watch = path /\ ifd # path
                              THEN {TRUE} ELSE {})
  /\ UNCHANGED <<faults, nvars, spc, conf, sec, slb, watch, ifd, sdata, checked,
                 sdone, rvars>>

Replace(n) ==
  /\ edits < MaxEdits
  /\ edits' = edits + 1
  /\ path' = edits + 2
  /\ files' = [files EXCEPT ![path'] = [i \in 1 .. n |-> edits + 1]]
  /\ held' = held \cup {files'[path']}
  /\ Unlinked

Remove ==
  /\ path # 0 /\ edits < MaxEdits
  /\ edits' = edits + 1 /\ path' = 0
  /\ Unlinked /\ UNCHANGED <<files, held>>

Edit == (\E n \in 0 .. MaxBlocks : Rewrite(n) \/ Replace(n)) \/ Remove
-----------------------------------------------------------------------------
(***************************************************************************)
(* nxs_net_send_core and nxs_net_recv_core, as their callers see them      *)
(***************************************************************************)

(* A message goes out whole once there is room, even when the peer has     *)
(* just closed and nobody will read it; or the call fails, for a time-out,  *)
(* a signal, an error or a closed peer, with nothing or a part of it sent. *)
Out(ch, m) == Len(ch) < Capacity /\ ch' = Append(ch, m)
OutFails(ch, peer) ==
  /\ faults \/ peer \notin up
  /\ \/ ch' = ch
     \/ Len(ch) < Capacity /\ ch' = Append(ch, [kind |-> "cut"])

(* Messages that receiving can complete; it can fail all the same, and     *)
(* does when the connection ends before the message.                       *)
HasMsg(ch) == ch # << >> /\ Head(ch).kind # "cut"
InFails(ch, peer) == faults \/ (peer \notin up /\ ~HasMsg(ch))
-----------------------------------------------------------------------------
(***************************************************************************)
(* nxs_net_send_file                                                       *)
(***************************************************************************)

SendCall(confirm) ==
  /\ spc = "idle" /\ "snd" \in up /\ Len(sdone) < MaxTransfers
  /\ spc' = "prep" /\ conf' = confirm
  /\ sec' = "OK" /\ slb' = 0 /\ event' = FALSE
  /\ sdata' = << >> /\ checked' = << >>
  /\ held' = IF path = 0 THEN {} ELSE {files[path]}
  /\ UNCHANGED <<faults, fvars, nvars, watch, ifd, sdone, rvars>>

(* macro_nxs_net_send_file_hdr_emrg: remember the code, cancel by header *)
Emergency(ec) == sec' = ec /\ spc' = "emrg"

(* nxs_net_send_file_metadata_prep: the type and the size of the file.  The *)
(* path may name a directory and the caller's metadata may be of no use.    *)
SendPrep ==
  /\ spc = "prep"
  /\ \/ /\ Emergency("PREPARE")
        /\ UNCHANGED slb
     \/ /\ path # 0
        /\ slb' = Len(files[path])
        /\ spc' = "watch" /\ UNCHANGED sec
  /\ UNCHANGED <<faults, fvars, nvars, conf, watch, event, ifd, sdata, checked,
                 held, sdone, rvars>>

(* nxs_fs_file_check_upd_create *)
SendWatch ==
  /\ spc = "watch"
  /\ \/ path = 0 /\ Emergency("PREPARE") /\ UNCHANGED watch
     \/ path # 0 /\ watch' = path /\ spc' = "open" /\ UNCHANGED sec
  /\ UNCHANGED <<faults, fvars, nvars, conf, slb, event, ifd, sdata, checked,
                 held, sdone, rvars>>

SendOpen ==
  /\ spc = "open"
  /\ \/ path = 0 /\ Emergency("PREPARE") /\ UNCHANGED ifd
     \/ path # 0 /\ ifd' = path /\ spc' = "hdr" /\ UNCHANGED sec
  /\ UNCHANGED <<faults, fvars, nvars, conf, slb, watch, event, sdata, checked,
                 held, sdone, rvars>>

(* The label error: close the file, stop watching, return *)
SendReturn(ec) ==
  /\ spc' = IF SendGoesOn(ec) THEN "idle" ELSE "fatal"
  /\ sdone' = Append(sdone,
       [res |-> ec, confirm |-> conf, data |-> sdata,
        snapshot |-> sdata \in held,
        atcheck |-> watch = ifd /\ sdata # << >> =>
                      Prefix(SubSeq(sdata, 1, Len(sdata) - 1), checked)])
  /\ watch' = 0 /\ ifd' = 0 /\ event' = FALSE

(* Send m and go on as next says, or fail. *)
SendOut(m, next) ==
  \/ Out(s2r, m) /\ next
  \/ OutFails(s2r, "rcv") /\ SendReturn("NETWORK")

(* The loop over the blocks, and what follows it *)
AfterBlocks(lb) == IF lb > 0 THEN "check" ELSE IF conf THEN "confirm" ELSE "done"

(* macro_nxs_net_send_file_hdr_emrg and macro_nxs_net_send_file_hdr *)
SendEmergency ==
  /\ spc = "emrg"
  /\ SendOut([kind |-> "cancel"], SendReturn(sec))
  /\ UNCHANGED <<faults, fvars, up, r2s, conf, sec, slb, sdata, checked, held, rvars>>

SendHdr ==
  /\ spc = "hdr"
  /\ SendOut([kind |-> "hdr", size |-> slb, confirm |-> conf],
             spc' = AfterBlocks(slb) /\ UNCHANGED <<watch, ifd, event, sdone>>)
  /\ UNCHANGED <<faults, fvars, up, r2s, conf, sec, slb, sdata, checked, held, rvars>>

(* mutant: a transfer under way is cancelled by a header *)
CancelByHeader(ec) == sec' = ec /\ spc' = "emrg"

(* macro_nxs_net_send_file_cancel: remember the code, send the cancel byte *)
CancelBy(ec) == sec' = ec /\ spc' = "cancel"

(* mutant: only a file that is gone has changed *)
SendCheckGone ==
  /\ spc = "check"
  /\ IF path = 0
     THEN CancelBy("CHANGED") /\ UNCHANGED checked
     ELSE spc' = "read" /\ checked' = files[ifd] /\ UNCHANGED sec
  /\ UNCHANGED <<faults, fvars, nvars, conf, slb, watch, event, ifd, sdata, held,
                 sdone, rvars>>

(* nxs_fs_file_check_upd: gone, modified, or as far as one can see the same *)
SendCheck ==
  /\ spc = "check"
  /\ IF path = 0 \/ event
     THEN CancelBy("CHANGED") /\ UNCHANGED checked
     ELSE spc' = "read" /\ checked' = files[ifd] /\ UNCHANGED sec
  /\ UNCHANGED <<faults, fvars, nvars, conf, slb, watch, event, ifd, sdata, held,
                 sdone, rvars>>

(* read(2) of the next block; past a new end of the file it comes short *)
SendRead ==
  /\ spc = "read"
  /\ \/ /\ Len(sdata) < Len(files[ifd])
        /\ sdata' = Append(sdata, files[ifd][Len(sdata) + 1])
        /\ spc' = "block" /\ UNCHANGED sec
     \/ /\ Len(sdata) >= Len(files[ifd]) \/ faults
        /\ CancelBy("READ_FILE") /\ UNCHANGED sdata
  /\ UNCHANGED <<faults, fvars, nvars, conf, slb, watch, event, ifd, checked,
                 held, sdone, rvars>>

SendBlock ==
  /\ spc = "block"
  /\ \/ /\ Out(s2r, [kind |-> "block", data |-> sdata[Len(sdata)]])
        /\ slb' = slb - 1
        /\ spc' = AfterBlocks(slb - 1)
        /\ UNCHANGED <<watch, ifd, event, sdone>>
     \/ /\ OutFails(s2r, "rcv") /\ SendReturn("NETWORK")
        /\ UNCHANGED slb
  /\ UNCHANGED <<faults, fvars, up, r2s, conf, sec, sdata, checked, held, rvars>>

SendCancel ==
  /\ spc = "cancel"
  /\ SendOut([kind |-> "stop"], SendReturn(sec))
  /\ UNCHANGED <<faults, fvars, up, r2s, conf, sec, slb, sdata, checked, held, rvars>>

(* nxs_net_recv_confirm *)
SendConfirm ==
  /\ spc = "confirm"
  /\ \/ /\ HasMsg(r2s)
        /\ r2s' = Tail(r2s)
        /\ SendReturn(IF Head(r2s).kind = "yes" THEN "OK" ELSE "CONFIRM_NEGATIVE")
     \/ /\ InFails(r2s, "rcv") /\ SendReturn("NETWORK")
        /\ UNCHANGED r2s
  /\ UNCHANGED <<faults, fvars, up, s2r, conf, sec, slb, sdata, checked, held, rvars>>

SendDone ==
  /\ spc = "done"
  /\ SendReturn("OK")
  /\ UNCHANGED <<faults, fvars, nvars, conf, sec, slb, sdata, checked, held, rvars>>

(* The application closes the connection, after a fatal error or at will. *)
SendClose ==
  /\ spc = "fatal" \/ (spc = "idle" /\ "snd" \in up)
  /\ spc' = "closed" /\ up' = up \ {"snd"}
  /\ UNCHANGED <<faults, fvars, s2r, r2s, conf, sec, slb, watch, event, ifd, sdata,
                 checked, held, sdone, rvars>>
-----------------------------------------------------------------------------
(***************************************************************************)
(* nxs_net_recv_file                                                       *)
(***************************************************************************)

(* The label error.  nxs_metadata_free of the function's own structure     *)
(* frees what the stack holds when the caller has passed one: that may be  *)
(* the end of the process, which closes the connection as well.            *)
RecvReturn(ec, data) ==
  /\ rpc' \in {IF RecvGoesOn(ec) THEN "idle" ELSE "fatal"} \cup
              (IF GivesMetadata THEN {"fatal"} ELSE {})
  /\ rec' = ec
  /\ rdone' = Append(rdone, [res |-> ec, data |-> data])

(* Without a directory to receive into the call ends where it begins. *)
RecvCall ==
  /\ rpc = "idle" /\ "rcv" \in up
  /\ \/ rpc' = "hdr" /\ rec' = "OK" /\ UNCHANGED rdone
     \/ RecvReturn("OPT", << >>)
  /\ UNCHANGED <<faults, fvars, nvars, svars, held, rconf, rlb, dst>>

(* Header, offset and metadata, and what the header's flags say.  (InStep: *)
(* nothing else is there for a header to be mistaken for.)                 *)
RecvHdr ==
  /\ rpc = "hdr"
  /\ \/ /\ HasMsg(s2r) /\ s2r' = Tail(s2r)
        /\ \/ /\ Head(s2r).kind = "hdr"
              /\ rconf' = Head(s2r).confirm /\ rlb' = Head(s2r).size
              /\ rpc' = "open"
              /\ UNCHANGED <<rec, rdone>>
           \/ /\ Head(s2r).kind = "cancel"
              /\ RecvReturn("CANCELED", << >>)
              /\ UNCHANGED <<rconf, rlb>>
     \/ /\ InFails(s2r, "snd") /\ RecvReturn("NETWORK", << >>)
        /\ UNCHANGED <<s2r, rconf, rlb>>
  /\ UNCHANGED <<faults, fvars, up, r2s, svars, held, dst>>

AfterRecv(lb) == IF lb > 0 THEN "block" ELSE "attrs"

RecvOpenAppends ==   (* mutant: the file is opened without O_TRUNC *)
  /\ rpc = "open"
  /\ rpc' = AfterRecv(rlb)
  /\ UNCHANGED <<faults, fvars, nvars, svars, held, rec, rconf, rlb, dst, rdone>>

RecvOpen ==
  /\ rpc = "open"
  /\ \/ /\ dst' = << >>                             (* O_TRUNC *)
        /\ rpc' = AfterRecv(rlb)
        /\ UNCHANGED <<rec, rdone>>
     \/ RecvReturn("DISK", << >>) /\ UNCHANGED dst
  /\ UNCHANGED <<faults, fvars, nvars, svars, held, rconf, rlb>>

(* The control byte, and unless it cancels a block for the file *)
RecvBlock ==
  /\ rpc = "block"
  /\ \/ /\ HasMsg(s2r) /\ s2r' = Tail(s2r)
        /\ \/ /\ Head(s2r).kind = "stop"
              /\ RecvReturn("CANCELED", dst)
              /\ UNCHANGED <<rlb, dst>>
           \/ /\ Head(s2r).kind = "block"
              /\ dst' = Append(dst, Head(s2r).data) /\ rlb' = rlb - 1
              /\ rpc' = AfterRecv(rlb - 1)
              /\ UNCHANGED <<rec, rdone>>
           \/ /\ Head(s2r).kind = "block"
              /\ RecvReturn("DISK", dst)
              /\ UNCHANGED <<rlb, dst>>
     \/ /\ InFails(s2r, "snd") /\ RecvReturn("NETWORK", dst)
        /\ UNCHANGED <<s2r, rlb, dst>>
  /\ UNCHANGED <<faults, fvars, up, r2s, svars, held, rconf>>

RecvAttrsUnanswered ==   (* mutant: no confirmation after a failed one *)
  /\ rpc = "attrs"
  /\ rec' \in {"OK", "ATTRS"}
  /\ IF rconf /\ rec' = "OK"
     THEN rpc' = "confirm" /\ UNCHANGED rdone
     ELSE RecvReturn(rec', dst)
  /\ UNCHANGED <<faults, fvars, nvars, svars, held, rconf, rlb, dst>>

(* chown, chmod and utime, up to the first that fails *)
RecvAttrs ==
  /\ rpc = "attrs"
  /\ rec' \in {"OK", "ATTRS"}
  /\ IF rconf
     THEN rpc' = "confirm" /\ UNCHANGED rdone
     ELSE RecvReturn(rec', dst)
  /\ UNCHANGED <<faults, fvars, nvars, svars, held, rconf, rlb, dst>>

RecvConfirmYes ==   (* mutant: confirm_res is never set to NXS_NO *)
  /\ rpc = "confirm"
  /\ \/ Out(r2s, [kind |-> "yes"]) /\ RecvReturn(rec, dst)
     \/ OutFails(r2s, "snd") /\ RecvReturn("NETWORK", dst)
  /\ UNCHANGED <<faults, fvars, up, s2r, svars, held, rconf, rlb, dst>>

(* nxs_net_send_confirm *)
RecvConfirm ==
  /\ rpc = "confirm"
  /\ \/ /\ Out(r2s, [kind |-> IF rec = "OK" THEN "yes" ELSE "no"])
        /\ RecvReturn(rec, dst)
     \/ OutFails(r2s, "snd") /\ RecvReturn("NETWORK", dst)
  /\ UNCHANGED <<faults, fvars, up, s2r, svars, held, rconf, rlb, dst>>

RecvClose ==
  /\ rpc = "fatal"
  /\ rpc' = "closed" /\ up' = up \ {"rcv"}
  /\ UNCHANGED <<faults, fvars, s2r, r2s, svars, held, rec, rconf, rlb, dst, rdone>>
-----------------------------------------------------------------------------
SendCode ==
  \/ SendPrep \/ SendWatch \/ SendOpen \/ SendEmergency \/ SendHdr
  \/ SendCheck \/ SendRead \/ SendBlock \/ SendCancel \/ SendConfirm
  \/ SendDone \/ (spc = "fatal" /\ SendClose)

RecvCode ==
  \/ RecvCall \/ RecvHdr \/ RecvOpen \/ RecvBlock \/ RecvAttrs \/ RecvConfirm
  \/ RecvClose

Next ==
  \/ Edit
  \/ \E confirm \in BOOLEAN : SendCall(confirm)
  \/ SendCode \/ SendClose
  \/ RecvCode

Spec == Init /\ [][Next]_vars

(* A call that has begun goes on, and the receiving application calls      *)
(* nxs_net_recv_file again; new transfers and edits are never owed.        *)
FairSpec == Spec /\ WF_vars(SendCode) /\ WF_vars(RecvCode)
-----------------------------------------------------------------------------
(***************************************************************************)
(* Properties                                                              *)
(***************************************************************************)
Message ==
  [kind : {"hdr"}, size : 0 .. MaxBlocks, confirm : BOOLEAN] \cup
  [kind : {"cancel", "stop", "cut"}] \cup [kind : {"block"}, data : 0 .. MaxEdits]

Answers == [kind : {"yes", "no", "cut"}]
SendResult ==
  [res : SendCodes, confirm : BOOLEAN, data : File, snapshot : BOOLEAN,
   atcheck : BOOLEAN]
RecvResult == [res : RecvCodes, data : File]

FileTypes ==
  /\ faults \in BOOLEAN
  /\ files \in [Inode -> File] /\ path \in {0} \cup Inode /\ edits \in 0 .. MaxEdits
  /\ held \subseteq File

ChannelTypes ==
  /\ up \subseteq {"snd", "rcv"}
  /\ s2r \in Seq(Message) /\ r2s \in Seq(Answers)

SenderTypes ==
  /\ spc \in {"idle", "prep", "watch", "open", "emrg", "hdr", "check", "read",
              "block", "cancel", "confirm", "done", "fatal", "closed"}
  /\ conf \in BOOLEAN /\ sec \in {"OK"} \cup Cancels
  /\ slb \in 0 .. MaxBlocks /\ watch \in {0} \cup Inode /\ event \in BOOLEAN
  /\ ifd \in {0} \cup Inode /\ sdata \in File /\ checked \in File
  /\ sdone \in Seq(SendResult)

ReceiverTypes ==
  /\ rec \in RecvCodes /\ rdone \in Seq(RecvResult)
  /\ rpc \in {"idle", "hdr", "open", "block", "attrs", "confirm", "fatal",
              "closed"}
  /\ rconf \in BOOLEAN /\ rlb \in 0 .. MaxBlocks /\ dst \in File

(* The types of the variables, the loop counters between 0 and the size of *)
(* the longest file.                                                       *)
TypeOK == FileTypes /\ ChannelTypes /\ SenderTypes /\ ReceiverTypes

(* What either side is about to receive is what the other has sent for it, *)
(* whatever errors and cancels came before: a header where a transfer      *)
(* begins, a block or a stop inside one, an answer where one is expected.  *)
(* The protocol has no framing to recover by.                              *)
InStep ==
  /\ rpc \in {"idle", "hdr"} /\ HasMsg(s2r) => Head(s2r).kind \in {"hdr", "cancel"}
  /\ rpc = "block" /\ HasMsg(s2r) => Head(s2r).kind \in {"block", "stop"}
  /\ rpc \in {"open", "attrs"} /\ rlb = 0 /\ HasMsg(s2r)
       => Head(s2r).kind \in {"hdr", "cancel"}
  /\ HasMsg(r2s) => spc \in {"confirm", "fatal", "closed"}

(* "The protocol is not broken": after errors that are not fatal, with as  *)
(* many calls finished on either side, no byte is left in the connection.  *)
Quiet ==
  spc = "idle" /\ rpc = "idle" /\ up = {"snd", "rcv"} /\ Len(sdone) = Len(rdone)
    => s2r = << >> /\ r2s = << >>

(* The two calls of a transfer, one on either side, tell the same story: a *)
(* cancel is seen as one, a confirmation means that the receiver has it    *)
(* all with its attributes, a refusal that some attribute was not set; and *)
(* what was received is what was sent.                                     *)
Agree ==
  /\ \A i \in 1 .. Len(sdone) :
       sdone[i].confirm /\ sdone[i].res = "OK"
         => i <= Len(rdone) /\ rdone[i].res = "OK"
  /\ \A i \in 1 .. Len(sdone) :
       i <= Len(rdone) =>
         LET s == sdone[i]
             r == rdone[i]
         IN  /\ s.res \in Cancels => ~RecvGoesOn(r.res) \/ r.res = "CANCELED"
             /\ s.res = "CONFIRM_NEGATIVE" => r.res = "ATTRS"
             /\ r.res = "CANCELED" => s.res \in Cancels
             /\ r.res \in {"OK", "ATTRS"} => r.data = s.data
             /\ Prefix(r.data, s.data)

(* What the watch is good for: of a file sent with success, all but the    *)
(* last block were read from the file as it was at one moment, the last    *)
(* check, provided that the file watched is the file opened.               *)
PrefixConsistent ==
  \A i \in 1 .. Len(sdone) :
    sdone[i].res \in {"OK", "CONFIRM_NEGATIVE"} => sdone[i].atcheck

(***************************************************************************)
(* The inductive invariants                                                *)
(***************************************************************************)
Early  == {"idle", "prep", "watch", "open", "emrg", "hdr"}
Inside == {"check", "read", "block", "cancel"}
Sent   == {"confirm", "done"}
Over   == {"fatal", "closed"}

(* What each function knows at each of its steps *)
SenderShape ==
  /\ spc \in {"hdr"} \cup Inside \cup Sent => ifd # 0
  /\ spc \in Inside => slb > 0
  /\ spc \in Early \ {"idle"} => sdata = << >>
  /\ spc = "block" => sdata # << >>
  /\ spc \in {"emrg", "cancel"} => sec \in Cancels
  /\ spc \in Sent => (conf <=> spc = "confirm")

ReceiverShape ==
  /\ rpc = "block" => rlb > 0 /\ Len(dst) + rlb <= MaxBlocks
  /\ rpc = "confirm" => rec \in {"OK", "ATTRS"} /\ rconf

Shape ==
  /\ path <= edits + 1 /\ watch <= edits + 1
  /\ SenderShape /\ ReceiverShape

(* As long as no event waits, what was read is in the file still; the last *)
(* check found all that was read before it.                                *)
WatchRight ==
  watch = ifd =>
    /\ spc \in {"hdr", "check", "read", "block"} /\ ~event => Prefix(sdata, files[ifd])
    /\ spc = "read" => Prefix(sdata, checked)
    /\ spc \in {"check", "block"} \cup Sent /\ sdata # << >> =>
         Prefix(SubSeq(sdata, 1, Len(sdata) - 1), checked)

(* A place in the stream of messages: the transfers before it, the blocks  *)
(* of the next one before it, and those that are still to come, 0 when it  *)
(* is between two transfers.                                               *)
Place == [no : Nat, got : Nat, left : Nat]
Between(n) == [no |-> n, got |-> 0, left |-> 0]

Before(p, q) ==
  \/ p.no < q.no
  \/ p.no = q.no /\ p.left = 0 /\ q.left > 0
  \/ p.no = q.no /\ p.left > 0 /\ q.left > 0 /\ p.got < q.got

(* The t-th transfer, finished or in progress *)
Ended(t) == t <= Len(sdone)
DataOf(t) == IF Ended(t) THEN sdone[t].data ELSE sdata
ConfirmOf(t) == IF Ended(t) THEN sdone[t].confirm ELSE conf
Whole(t) == IF Ended(t) THEN sdone[t].res \notin Cancels ELSE spc \in Sent

(* Message m leads from place p to place q, and is what the transfer says. *)
Takes(p, m, q) ==
  LET t == p.no + 1
      k == p.got + 1
  IN \/ /\ m.kind = "hdr" /\ p.left = 0 /\ m.confirm = ConfirmOf(t)
        /\ IF m.size = 0
           THEN q = Between(t) /\ Whole(t) /\ DataOf(t) = << >>
           ELSE q = [no |-> p.no, got |-> 0, left |-> m.size]
     \/ /\ m.kind = "cancel" /\ p.left = 0
        /\ q = Between(t) /\ Ended(t) /\ sdone[t].res \in Cancels
     \/ /\ m.kind = "stop" /\ p.left > 0
        /\ q = Between(t) /\ Ended(t) /\ sdone[t].res \in Cancels
     \/ /\ m.kind = "block" /\ p.left > 0
        /\ k <= Len(DataOf(t)) /\ m.data = DataOf(t)[k]
        /\ IF p.left = 1
           THEN q = Between(t) /\ Whole(t) /\ Len(DataOf(t)) = k
           ELSE q = [no |-> p.no, got |-> k, left |-> p.left - 1]
     \/ m.kind = "cut" /\ spc \in Over /\ q = p

(* No place is further than the sender. *)
Known(p) ==
  /\ p.no <= Len(sdone) + (IF spc \in Sent THEN 1 ELSE 0)
  /\ p.left > 0 => p.no < Len(sdone) + (IF spc \in Inside \cup Sent THEN 1 ELSE 0)

SenderAt(p) ==
  /\ spc \in Early => p = Between(Len(sdone))
  /\ spc \in Inside =>
       p = [no |-> Len(sdone), left |-> slb,
            got |-> IF spc = "block" THEN Len(sdata) - 1 ELSE Len(sdata)]
  /\ spc \in Sent => p = Between(Len(sdone) + 1)

ReceiverAt(p) ==
  LET n == Len(rdone)
      t == n + 1
  IN /\ rpc \in {"idle", "hdr"} => p = Between(n)
     /\ rpc \in {"open", "block", "attrs", "confirm"} => rconf = ConfirmOf(t)
     /\ rpc = "open" =>
          IF rlb = 0 THEN p = Between(t) /\ Whole(t) /\ DataOf(t) = << >>
                     ELSE p = [no |-> n, got |-> 0, left |-> rlb]
     /\ rpc = "block" =>
          p = [no |-> n, got |-> Len(dst), left |-> rlb] /\ Prefix(dst, DataOf(t))
     /\ rpc \in {"attrs", "confirm"} =>
          p = Between(t) /\ Whole(t) /\ dst = DataOf(t)

(* The places between the messages under way, from the receiver's on to    *)
(* the sender's                                                            *)
Follows(run) ==
  /\ \A i \in 1 .. Len(s2r) : Takes(run[i - 1], s2r[i], run[i])
  /\ \A i \in 0 .. Len(s2r) : Known(run[i])
  /\ spc \notin Over =>
       \A i, j \in 0 .. Len(s2r) : i < j => Before(run[i], run[j])
  /\ SenderAt(run[Len(s2r)])
  /\ ReceiverAt(run[0])

Aligned == rpc \in Over \/ \E run \in [0 .. Len(s2r) -> Place] : Follows(run)

(* Calls the receiver has finished before the sender has *)
Ahead ==
  \A j \in Len(sdone) + 1 .. Len(rdone) :
    LET r == rdone[j]
    IN IF j = Len(sdone) + 1 /\ spc \in Inside \cup Sent
       THEN /\ r.res # "CANCELED" /\ Prefix(r.data, sdata)
            /\ r.res \in {"OK", "ATTRS"} => spc \in Sent /\ r.data = sdata
       ELSE ~RecvGoesOn(r.res) /\ r.data = << >>

(* At most one answer is under way, to the sender that waits for it.       *)
Answer ==
  /\ Len(r2s) <= 1
  /\ r2s # << >> /\ Head(r2s).kind = "cut" => rpc \in Over
  /\ HasMsg(r2s) =>
       LET n == Len(sdone) + 1
       IN \/ /\ spc = "confirm" /\ n <= Len(rdone)
             /\ rdone[n].res = IF Head(r2s).kind = "yes" THEN "OK" ELSE "ATTRS"
          \/ spc \in Over /\ Len(sdone) <= Len(rdone)

(* A call that is confirmed has been answered; a fatal one is the last. *)
Answered ==
  \A i \in 1 .. Len(sdone) :
    /\ sdone[i].res = "CONFIRM_NEGATIVE" => i <= Len(rdone)
    /\ sdone[i].res = "NETWORK" => i = Len(sdone) /\ spc \in Over

Story == Aligned /\ Ahead /\ Answer /\ Answered /\ Agree

(* nxs-net.c:2565: a file removed or changed while it is sent interrupts   *)
(* the sending.  Then a file sent with success is one the path had.        *)
SnapshotSent ==
  \A i \in 1 .. Len(sdone) : sdone[i].res = "OK" => sdone[i].snapshot

(* Without any time-out or network error both calls end: neither waits for *)
(* a message of the other's that is never sent.                            *)
SendReturns == ~faults => (spc = "prep" ~> spc \in {"idle", "fatal", "closed"})
RecvReturns == ~faults => (rpc = "open" ~> rpc \in {"idle", "fatal", "closed"})
CallsReturn == SendReturns /\ RecvReturns
=============================================================================

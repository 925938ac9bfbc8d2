------------------------------ MODULE PipeSem ------------------------------
(***************************************************************************)
(* nxs-pipesem: a pipe between two processes, with a one-byte lock in      *)
(* shared memory that says which of the two may touch the pipe.            *)
(*                                                                         *)
(* The module starts after nxs_pipesem_init and fork: both processes hold  *)
(* both ends, "wr" is going to use the OUT end and "rd" the IN end.  One   *)
(* action is one access to state the other process can see: the lock byte, *)
(* the pipe, the set of open ends.  SIGPIPE is ignored by the application, *)
(* as nxs_pipesem_write_core expects (it looks for EPIPE).                 *)
(***************************************************************************)
EXTENDS Integers, Sequences, FiniteSets

CONSTANTS
  ByteBase,      (* values of a byte (256 in the code)                     *)
  HdrLen,        (* bytes of the size header, sizeof(size_t)               *)
  Msgs,          (* payloads, sequences of bytes                           *)
  PipeCap,       (* bytes the kernel pipe holds                            *)
  HighHalf,      (* what the stack can leave in the upper half of the      *)
                 (* size_t that ioctl(FIONREAD), which stores an int, is   *)
                 (* given: {0}, or {0, 1} when it may be dirty             *)
  Interrupts,    (* TRUE: a signal handler may interrupt poll() and write()*)
  FreeInherited, (* TRUE: a process may free, not only close, the end it   *)
                 (* inherited and does not use                             *)
  MaxWrites,     (* bound: writes that get past the lock, and one more     *)
                 (* when nobody can read any longer                        *)
  MaxOns         (* bound: calls of nxs_pipesem_on                         *)

Byte == 0 .. ByteBase - 1

ASSUME PipeSemAssumption ==
  /\ ByteBase \in Nat \ {0, 1}
  /\ HdrLen \in Nat \ {0, 1}
  /\ Msgs \subseteq Seq(Byte)
  /\ \A m \in Msgs : Len(m) < ByteBase * ByteBase
  /\ PipeCap \in Nat \ {0}
  /\ HighHalf \subseteq {0, 1}
  /\ Interrupts \in BOOLEAN /\ FreeInherited \in BOOLEAN
  /\ MaxWrites \in Nat /\ MaxOns \in Nat

VARIABLES
  lock,    (* *el->lock                                                    *)
  pipe,    (* the bytes in the kernel pipe                                 *)
  ends,    (* ends[p]: the pipe descriptors process p has open             *)
  mapped,  (* mapped[p]: the shared memory is attached in process p        *)
  wpc,     (* where the writing process is                                 *)
  wbuf,    (* out->tmp_buf                                                 *)
  wpos,    (* tb of nxs_pipesem_write_core                                 *)
  wres,    (* what the last nxs_pipesem_write returned                     *)
  rpc,     (* where the reading process is                                 *)
  rbuf,    (* in->tmp_buf, the bytes of the read in progress or finished   *)
  rwant,   (* size of nxs_pipesem_read_core                                *)
  rres,    (* what the last nxs_pipesem_read or nxs_pipesem_on returned    *)
  tried,   (* history: payloads of the writes that got past the lock       *)
  sent,    (* history: payloads of the writes that returned OK             *)
  rcvd,    (* history: what the reads that returned OK left in tmp_buf     *)
  ons      (* history: how often nxs_pipesem_on opened the lock            *)

wvars == <<wpc, wbuf, wpos, wres, tried, sent>>
rvars == <<rpc, rbuf, rwant, rres, rcvd, ons>>
vars  == <<lock, pipe, ends, mapped, wvars, rvars>>

Lock == {"OFF", "OPEN", "CLOSE"}
Procs == {"wr", "rd"}
Own == [p \in Procs |-> IF p = "wr" THEN "OUT" ELSE "IN"]
Inherited == [p \in Procs |-> IF p = "wr" THEN "IN" ELSE "OUT"]

WriteSection == {"wpoll", "wcall", "unlock"}
ReadSection  == {"hdr", "body", "release", "flush"}
WPc == WriteSection \cup {"idle", "locked", "dead"}
RPc == ReadSection \cup
         {"idle", "unlocked", "fionread", "on_ask", "on_force", "on_set", "dead"}
Res == {"NONE", "OK", "ERR", "LOCK", "READ", "WRITE", "TIMEOUT", "NO_DATA",
        "HAVE_DATA", "PIPE_CLOSED"}

Writers == {p \in Procs : "OUT" \in ends[p]}
Readers == {p \in Procs : "IN" \in ends[p]}
Least(a, b) == IF a <= b THEN a ELSE b
-----------------------------------------------------------------------------
Init ==
  /\ lock = "OFF"
  /\ pipe = << >>
  /\ ends = [p \in Procs |-> {"IN", "OUT"}]
  /\ mapped = [p \in Procs |-> TRUE]
  /\ wpc = "idle" /\ wbuf = << >> /\ wpos = 0 /\ wres = "NONE"
  /\ rpc = "idle" /\ rbuf = << >> /\ rwant = 0 /\ rres = "NONE"
  /\ tried = << >> /\ sent = << >> /\ rcvd = << >> /\ ons = 0

(***************************************************************************)
(* nxs_pipesem_write                                                       *)
(***************************************************************************)

(* Mutant: the size with its high byte first. *)
HeaderSwapped(n) ==
  [i \in 1 .. HdrLen |-> IF i = 2 THEN n % ByteBase
                         ELSE IF i = 1 THEN (n \div ByteBase) % ByteBase
                         ELSE 0]

(* The size as the little-endian size_t that the header carries. *)
Header(n) ==
  [i \in 1 .. HdrLen |-> IF i = 1 THEN n % ByteBase
                         ELSE IF i = 2 THEN (n \div ByteBase) % ByteBase
                         ELSE 0]

(* nxs_buf_cpy at offset 0, then nxs_buf_cat: the copy writes over the     *)
(* first bytes and never shortens the buffer, so what earlier calls left   *)
(* behind the header stays there and the new payload follows it.           *)
WriteBuf(old, m) ==
  Header(Len(m)) \o SubSeq(old, HdrLen + 1, Len(old)) \o m

WReturn(res) == wpc' = "idle" /\ wres' = res

(* A process that uses the lock after shmdt is killed by SIGSEGV. *)
Segv(p) ==
  /\ ends' = [ends EXCEPT ![p] = {}]
  /\ mapped' = [mapped EXCEPT ![p] = FALSE]

WriteSegv ==
  /\ wpc = "idle" /\ "OUT" \in ends["wr"] /\ ~mapped["wr"]
  /\ Segv("wr") /\ wpc' = "dead"
  /\ UNCHANGED <<lock, pipe, wbuf, wpos, wres, tried, sent, rvars>>

(* The channel is locked: go and see whether anybody can still open it. *)
WriteCallLocked ==
  /\ wpc = "idle" /\ "OUT" \in ends["wr"] /\ mapped["wr"]
  /\ lock # "OPEN"
  /\ wpc' = "locked"
  /\ UNCHANGED <<lock, pipe, ends, mapped, wbuf, wpos, wres, tried, sent, rvars>>

MayWrite == Len(tried) < MaxWrites \/ (Readers = {} /\ Len(tried) = MaxWrites)

(* Mutant: nxs_pipesem_write does not look at the lock. *)
WriteCallUnchecked(m) ==
  /\ wpc = "idle" /\ "OUT" \in ends["wr"] /\ mapped["wr"]
  /\ MayWrite
  /\ wbuf' = WriteBuf(wbuf, m) /\ wpos' = 0
  /\ tried' = Append(tried, m)
  /\ wpc' = "wpoll"
  /\ UNCHANGED <<lock, pipe, ends, mapped, wres, sent, rvars>>

WriteCall(m) ==
  /\ wpc = "idle" /\ "OUT" \in ends["wr"] /\ mapped["wr"]
  /\ MayWrite
  /\ lock = "OPEN"
  /\ wbuf' = WriteBuf(wbuf, m) /\ wpos' = 0
  /\ tried' = Append(tried, m)
  /\ wpc' = "wpoll"
  /\ UNCHANGED <<lock, pipe, ends, mapped, wres, sent, rvars>>

(* Mutant: the locked writer never looks whether the readers are gone. *)
WriteLockedNoPoll ==
  /\ wpc = "locked"
  /\ WReturn("LOCK")
  /\ UNCHANGED <<lock, pipe, ends, mapped, wbuf, wpos, tried, sent, rvars>>

(* poll(POLLERR, 0) on the OUT end *)
WriteLockedPoll ==
  /\ wpc = "locked"
  /\ \/ Readers # {} /\ WReturn("LOCK")
     \/ Readers = {} /\ WReturn("PIPE_CLOSED")
     \/ Interrupts /\ WReturn("WRITE")
  /\ UNCHANGED <<lock, pipe, ends, mapped, wbuf, wpos, tried, sent, rvars>>

(* What a write(2) that finds room moves into the pipe; it returns when it *)
(* has moved everything and otherwise sleeps for more room.                *)
Push ==
  LET n == Least(PipeCap - Len(pipe), Len(wbuf) - wpos) IN
  /\ n > 0
  /\ pipe' = pipe \o SubSeq(wbuf, wpos + 1, wpos + n)
  /\ wpos' = wpos + n
  /\ wpc' = IF wpos + n = Len(wbuf) THEN "unlock" ELSE "wcall"

(* Mutant: a time-out of poll() is waited out in the loop. *)
WritePollPatient ==
  /\ wpc = "wpoll"
  /\ \/ /\ Readers # {}
        /\ Push
        /\ UNCHANGED wres
     \/ /\ Readers = {}
        /\ WReturn("PIPE_CLOSED")
        /\ UNCHANGED <<pipe, wpos>>
     \/ /\ Interrupts
        /\ WReturn("ERR")
        /\ UNCHANGED <<pipe, wpos>>
  /\ UNCHANGED <<lock, ends, mapped, wbuf, tried, sent, rvars>>

(* Top of the loop of nxs_pipesem_write_core: poll(POLLOUT), then write(2) *)
WritePoll ==
  /\ wpc = "wpoll"
  /\ \/ /\ Readers # {}
        /\ Push
        /\ UNCHANGED wres
     \/ /\ Readers = {}                            (* EPIPE *)
        /\ WReturn("PIPE_CLOSED")
        /\ UNCHANGED <<pipe, wpos>>
     \/ /\ Readers # {} /\ Len(pipe) = PipeCap     (* full for a second *)
        /\ WReturn("TIMEOUT")
        /\ UNCHANGED <<pipe, wpos>>
     \/ /\ Interrupts
        /\ WReturn("ERR")
        /\ UNCHANGED <<pipe, wpos>>
  /\ UNCHANGED <<lock, ends, mapped, wbuf, tried, sent, rvars>>

(* Asleep in write(2) with a part of the buffer written.  When the readers *)
(* go away or a signal comes, write(2) returns the part it has done.       *)
WriteAsleep ==
  /\ wpc = "wcall"
  /\ \/ Readers # {} /\ Push
     \/ /\ Readers = {} \/ Interrupts
        /\ wpc' = "wpoll"
        /\ UNCHANGED <<pipe, wpos>>
  /\ UNCHANGED <<lock, ends, mapped, wbuf, wres, tried, sent, rvars>>

(* Mutant: nxs_pipesem_write leaves the lock open. *)
WriteDoneNoLock ==
  /\ wpc = "unlock"
  /\ sent' = Append(sent, tried[Len(tried)])
  /\ WReturn("OK")
  /\ UNCHANGED <<lock, pipe, ends, mapped, wbuf, wpos, tried, rvars>>

WriteDone ==
  /\ wpc = "unlock"
  /\ lock' = "CLOSE"
  /\ sent' = Append(sent, tried[Len(tried)])
  /\ WReturn("OK")
  /\ UNCHANGED <<pipe, ends, mapped, wbuf, wpos, tried, rvars>>
-----------------------------------------------------------------------------
(***************************************************************************)
(* nxs_pipesem_read                                                        *)
(***************************************************************************)

RReturn(res) == rpc' = "idle" /\ rres' = res

ReadSegv ==
  /\ rpc = "idle" /\ "IN" \in ends["rd"] /\ ~mapped["rd"]
  /\ Segv("rd") /\ rpc' = "dead"
  /\ UNCHANGED <<lock, pipe, rbuf, rwant, rres, rcvd, ons, wvars>>

(* Mutant: tb is not reset at the start of a read. *)
ReadCallStale ==
  /\ rpc = "idle" /\ "IN" \in ends["rd"] /\ mapped["rd"]
  /\ IF lock = "CLOSE"
     THEN rpc' = "hdr" /\ rwant' = HdrLen
     ELSE rpc' = "unlocked" /\ UNCHANGED rwant
  /\ UNCHANGED <<lock, pipe, ends, mapped, rbuf, rres, rcvd, ons, wvars>>

ReadCall ==
  /\ rpc = "idle" /\ "IN" \in ends["rd"] /\ mapped["rd"]
  /\ IF lock = "CLOSE"
     THEN rpc' = "hdr" /\ rbuf' = << >> /\ rwant' = HdrLen
     ELSE rpc' = "unlocked" /\ UNCHANGED <<rbuf, rwant>>
  /\ UNCHANGED <<lock, pipe, ends, mapped, rres, rcvd, ons, wvars>>

(* The lock is not closed: poll(POLLIN, 0) *)
ReadUnlockedPoll ==
  /\ rpc = "unlocked"
  /\ \/ /\ pipe # << >> \/ Writers = {}
        /\ rpc' = "fionread" /\ UNCHANGED rres
     \/ pipe = << >> /\ Writers # {} /\ RReturn("NO_DATA")
     \/ Interrupts /\ RReturn("READ")
  /\ UNCHANGED <<lock, pipe, ends, mapped, rbuf, rwant, rcvd, ons, wvars>>

(* size_t dl; ioctl(fd, FIONREAD, &dl): the lower half is what the pipe    *)
(* holds, the upper half what was on the stack.                            *)
Fionread == {Len(pipe) + h * (PipeCap + 1) : h \in HighHalf}

ReadFionread ==
  /\ rpc = "fionread"
  /\ \E dl \in Fionread : RReturn(IF dl = 0 THEN "PIPE_CLOSED" ELSE "NO_DATA")
  /\ UNCHANGED <<lock, pipe, ends, mapped, rbuf, rwant, rcvd, ons, wvars>>

(* The loop of nxs_pipesem_read_core has all it wants.  The size is taken  *)
(* from the header through an unsigned char pointer: its lowest byte.      *)
ReadPart(bytes) ==
  CASE rpc = "hdr" ->
         /\ rwant' = bytes[1] /\ rbuf' = << >>
         /\ rpc' = IF bytes[1] = 0 THEN "release" ELSE "body"
    [] rpc = "body"  -> rpc' = "release" /\ rbuf' = bytes /\ UNCHANGED rwant
    [] rpc = "flush" -> rpc' = "on_set" /\ rbuf' = << >> /\ UNCHANGED rwant

(* read(2): the bytes there are, as far as they are wanted *)
Pull ==
  /\ pipe # << >>
  /\ LET n == Least(Len(pipe), rwant - Len(rbuf))
         bytes == rbuf \o SubSeq(pipe, 1, n) IN
     /\ pipe' = SubSeq(pipe, n + 1, Len(pipe))
     /\ IF Len(bytes) = rwant
        THEN ReadPart(bytes)
        ELSE rbuf' = bytes /\ UNCHANGED <<rpc, rwant>>

(* nxs_pipesem_read_core: poll(POLLIN, timeout), then read(2) *)
ReadCore ==
  /\ rpc \in {"hdr", "body", "flush"}
  /\ \/ Pull /\ UNCHANGED rres
     \/ /\ pipe = << >>
        /\ RReturn(IF Writers = {} THEN "PIPE_CLOSED" ELSE "TIMEOUT")
        /\ rbuf' = << >>
        /\ UNCHANGED <<pipe, rwant>>
     \/ /\ Interrupts
        /\ RReturn("READ")
        /\ rbuf' = << >>
        /\ UNCHANGED <<pipe, rwant>>
  /\ UNCHANGED <<lock, ends, mapped, rcvd, ons, wvars>>

ReadRelease ==
  /\ rpc = "release"
  /\ lock' = "OPEN"
  /\ rcvd' = Append(rcvd, rbuf)
  /\ RReturn("OK")
  /\ UNCHANGED <<pipe, ends, mapped, rbuf, rwant, ons, wvars>>
-----------------------------------------------------------------------------
(***************************************************************************)
(* nxs_pipesem_on                                                          *)
(***************************************************************************)

(* Mutant: nxs_pipesem_on looks for data to flush whatever the lock says. *)
OnCallAnyLock(force) ==
  /\ rpc = "idle" /\ "IN" \in ends["rd"] /\ mapped["rd"]
  /\ ons < MaxOns
  /\ rpc' = IF force THEN "on_force" ELSE "on_ask"
  /\ UNCHANGED <<lock, pipe, ends, mapped, rbuf, rwant, rres, rcvd, ons, wvars>>

OnCall(force) ==
  /\ rpc = "idle" /\ "IN" \in ends["rd"] /\ mapped["rd"]
  /\ ons < MaxOns
  /\ rpc' = IF lock # "CLOSE" THEN "on_set"
            ELSE IF force THEN "on_force" ELSE "on_ask"
  /\ UNCHANGED <<lock, pipe, ends, mapped, rbuf, rwant, rres, rcvd, ons, wvars>>

OnFionread ==
  /\ rpc \in {"on_ask", "on_force"}
  /\ \E dl \in Fionread :
       \/ /\ dl > 0 /\ rpc = "on_ask"
          /\ RReturn("HAVE_DATA") /\ UNCHANGED <<rbuf, rwant>>
       \/ /\ dl > 0 /\ rpc = "on_force"
          /\ rpc' = "flush" /\ rwant' = dl /\ rbuf' = << >> /\ UNCHANGED rres
       \/ /\ dl = 0
          /\ rpc' = "on_set" /\ UNCHANGED <<rbuf, rwant, rres>>
  /\ UNCHANGED <<lock, pipe, ends, mapped, rcvd, ons, wvars>>

OnSet ==
  /\ rpc = "on_set"
  /\ lock' = "OPEN"
  /\ ons' = ons + 1
  /\ RReturn("OK")
  /\ UNCHANGED <<pipe, ends, mapped, rbuf, rwant, rcvd, wvars>>
-----------------------------------------------------------------------------
(***************************************************************************)
(* nxs_pipesem_close, nxs_pipesem_free and the death of a process          *)
(***************************************************************************)

Idle(p) == (p = "wr" /\ wpc = "idle") \/ (p = "rd" /\ rpc = "idle")

(* nxs_pipesem_close of an end: its descriptor only *)
Close(p, e) ==
  /\ Idle(p) /\ e \in ends[p]
  /\ ends' = [ends EXCEPT ![p] = @ \ {e}]
  /\ UNCHANGED <<lock, pipe, mapped, wvars, rvars>>

(* nxs_pipesem_free of an end: close, then shmdt of the address that both  *)
(* ends of the process use for the lock                                    *)
Free(p, e) ==
  /\ Idle(p) /\ mapped[p]
  /\ e = Own[p] \/ FreeInherited
  /\ ends' = [ends EXCEPT ![p] = @ \ {e}]
  /\ mapped' = [mapped EXCEPT ![p] = FALSE]
  /\ UNCHANGED <<lock, pipe, wvars, rvars>>

(* The process ends, wherever it is: the kernel closes and detaches all.   *)
ExitWriter ==
  /\ wpc # "dead" /\ wpc' = "dead" /\ Segv("wr")
  /\ UNCHANGED <<lock, pipe, wbuf, wpos, wres, tried, sent, rvars>>

ExitReader ==
  /\ rpc # "dead" /\ rpc' = "dead" /\ Segv("rd")
  /\ UNCHANGED <<lock, pipe, rbuf, rwant, rres, rcvd, ons, wvars>>
-----------------------------------------------------------------------------
WriteCode == WriteLockedPoll \/ WritePoll \/ WriteAsleep \/ WriteDone
ReadCode  == ReadUnlockedPoll \/ ReadFionread \/ ReadCore \/ ReadRelease
OnCode    == OnFionread \/ OnSet

Next ==
  \/ WriteCallLocked \/ (\E m \in Msgs : WriteCall(m)) \/ WriteSegv \/ WriteCode
  \/ ReadCall \/ ReadSegv \/ ReadCode
  \/ (\E force \in BOOLEAN : OnCall(force)) \/ OnCode
  \/ (\E p \in Procs, e \in {"IN", "OUT"} : Close(p, e) \/ Free(p, e))
  \/ ExitWriter \/ ExitReader

Spec == Init /\ [][Next]_vars

(* Asleep in write(2) before a full pipe that somebody might read *)
Asleep == wpc = "wcall" /\ Len(pipe) = PipeCap /\ Readers # {}

(* A signal ends the call. *)
Signalled == wpc' = "idle" /\ wres' \in {"ERR", "WRITE"}

(* An application in which each process keeps running: the code of a call  *)
(* goes on, unless it is asleep in write(2); the reader enables the channel*)
(* once and polls it again and again, the writer tries until its message   *)
(* is accepted.  Enabling again, closing, dying and signals to the writer  *)
(* are never owed.                                                         *)
Fairness ==
  /\ WF_vars(WriteCode /\ ~Asleep /\ ~Signalled) /\ WF_vars(ReadCode) /\ WF_vars(OnCode)
  /\ WF_vars(\E m \in Msgs : WriteCall(m)) /\ WF_vars(WriteCallLocked)
  /\ SF_vars(ReadCall) /\ WF_vars(ons = 0 /\ OnCall(FALSE))

FairSpec == Spec /\ Fairness
-----------------------------------------------------------------------------
TypeOK ==
  /\ lock \in Lock
  /\ pipe \in Seq(Byte) /\ Len(pipe) <= PipeCap
  /\ ends \in [Procs -> SUBSET {"IN", "OUT"}]
  /\ mapped \in [Procs -> BOOLEAN]
  /\ wpc \in WPc /\ rpc \in RPc
  /\ wbuf \in Seq(Byte) /\ wpos \in 0 .. Len(wbuf)
  /\ rbuf \in Seq(Byte) /\ rwant \in Nat
  /\ wres \in Res /\ rres \in Res
  /\ tried \in Seq(Msgs) /\ sent \in Seq(Msgs)
  /\ rcvd \in Seq(Seq(Byte)) /\ ons \in Nat

(* The semaphore does its work: however the calls of the two processes     *)
(* interleave, and whatever signals and deaths come, the writer is never   *)
(* between its check of the lock and its closing of it while the reader is *)
(* between its own check and its opening (nxs_pipesem_write 288-327,       *)
(* nxs_pipesem_read 352-395, nxs_pipesem_on 237-264).                      *)
MutualExclusion == ~(wpc \in WriteSection /\ rpc \in ReadSection)

(* Flow control: a write can succeed only on a permission the reader gave, *)
(* by finishing a read or by nxs_pipesem_on, and each permission pays for  *)
(* one write; failed reads give none.                                      *)
WritesPaidFor == Len(sent) <= Len(rcvd) + ons

(* The inductive invariant behind the two: a process inside its section    *)
(* still finds the lock as its check found it, a call in progress has what *)
(* its later steps rely on, and an open lock is a permission not yet used. *)
SectionLocks ==
  /\ wpc \in WriteSection => lock = "OPEN"
  /\ rpc \in ReadSection \cup {"on_ask", "on_force"} => lock = "CLOSE"

CallShape ==
  /\ wpc \in WriteSection => tried # << >>
  /\ rpc = "hdr" => rwant = HdrLen
  /\ rpc \in {"hdr", "body", "flush"} => Len(rbuf) < rwant

Permits ==
  Len(sent) + (IF lock = "OPEN" THEN 1 ELSE 0) <= Len(rcvd) + ons

IInv == TypeOK /\ SectionLocks /\ CallShape /\ Permits

(* NXS_PIPESEM_E_NO_DATA, "no data in the channel": a read that returns it *)
(* while no write is under way and none has completed since the read began *)
(* (the lock is still not closed) has found the pipe empty.                *)
NoDataMeansEmpty ==
  [][(rpc \in {"unlocked", "fionread"} /\ rpc' = "idle" /\ rres' = "NO_DATA"
        /\ wpc = "idle" /\ lock # "CLOSE") => pipe = << >>]_vars

(* NXS_PIPESEM_E_PIPE_CLOSED, "the channel was closed by the remote side": *)
(* a read that is woken by the hang-up of an empty pipe returns it.        *)
HangUpReported ==
  [][(rpc = "fionread" /\ rpc' = "idle" /\ pipe = << >>)
        => rres' = "PIPE_CLOSED"]_vars

(* The lock byte and the two processes' critical sections implement the    *)
(* turn of PipeTurn.                                                       *)
Turn == INSTANCE PipeTurn WITH
  turn <- CASE lock = "OFF" -> "off" [] lock = "OPEN" -> "writer"
            [] lock = "CLOSE" -> "reader",
  user <- IF wpc \in WriteSection THEN "writer"
          ELSE IF rpc \in ReadSection THEN "reader" ELSE "nobody"
TurnSpec == Turn!Spec

(* Bytes, header, partial writes and lock together implement a mailbox: a  *)
(* message is in the box from the write's closing of the lock until the    *)
(* read's opening of it, and what is read is what was written.             *)
NoMsg == <<ByteBase>>   \* not a sequence of bytes
Box == INSTANCE PipeMailbox WITH
  None <- NoMsg,
  box <- IF lock = "CLOSE" THEN sent[Len(sent)] ELSE NoMsg,
  taken <- rcvd
BoxSpec == Box!Spec

(* A call of nxs_pipesem_write comes back, whatever it finds in the pipe    *)
(* and wherever it is interrupted, but for one deadlock: asleep in write(2)*)
(* (505) before a full pipe, with the lock open, so that every read refuses*)
(* to make room (352) as long as no signal comes and the readers live.     *)
WriteReturns ==
  []<>(wpc \notin WriteSection) \/ <>[](Asleep /\ lock = "OPEN")

(* A message whose write returned OK reaches a reader that goes on polling,*)
(* unless the reader called nxs_pipesem_on again: that opens the lock over *)
(* a message which came after it looked (237 and 264), and loses it.       *)
Delivered ==
  (sent # << >>) ~> (rcvd # << >> \/ ons > 1 \/ "IN" \notin ends["rd"])

(* The comment in nxs_pipesem_write (290-295): a writer that keeps trying  *)
(* finds out that nobody can read any longer, whether the lock is off, was *)
(* closed by its own last write, or is open, and also out of write(2).     *)
ReaderDeathNoticed ==
  (Readers = {}) ~> (wres = "PIPE_CLOSED" \/ "OUT" \notin ends["wr"])

(* A reader that keeps polling finds out that nobody can write any longer, *)
(* but for one way: the open lock over bytes of a write that was broken    *)
(* off, for then every read says NO_DATA (352-383).                        *)
WriterDeathNoticed ==
  \/ (Writers = {}) ~> (rres = "PIPE_CLOSED" \/ "IN" \notin ends["rd"])
  \/ <>[](lock = "OPEN" /\ pipe # << >>)

(* Either side finds out. *)
DeathNoticed == ReaderDeathNoticed /\ WriterDeathNoticed
=============================================================================

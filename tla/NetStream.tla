----------------------------- MODULE NetStream ------------------------------
(***************************************************************************)
(* nxs-net: messages over one open connection, nxs_net_send, nxs_net_recv, *)
(* nxs_net_send_confirm, nxs_net_recv_confirm and nxs_net_recv_stream on   *)
(* top of nxs_net_send_core and nxs_net_recv_core, with the GOST cipher of *)
(* the connection on or off.                                               *)
(*                                                                         *)
(* The two applications follow the same script of exchanges: one sends a   *)
(* string, an array or a list of buffers, the other receives it, and may   *)
(* confirm it.  After an error they close the connection.  A byte under    *)
(* way is the packet it belongs to, its place there, and the place in the  *)
(* key stream that it was encrypted with; one cipher element serves both   *)
(* directions of a connection.  Read with another place it is garbage.     *)
(***************************************************************************)
EXTENDS Integers, Sequences

CONSTANTS
  Peers,      (* the two ends                                              *)
  Data,       (* the bytes of a message                                    *)
  Scripts,    (* the scripts the applications may follow                   *)
  HeaderLen,  (* bytes of a header                                         *)
  MaxSize,    (* _NXS_NET_TMP_BUF_MAX_SIZE, in bytes                       *)
  Room        (* bytes that a direction of the connection buffers          *)

ASSUME NetStreamAssumption ==
  /\ HeaderLen \in Nat \ {0} /\ MaxSize \in Nat /\ Room \in Nat \ {0}
  /\ \E a, b \in Peers : a # b /\ Peers = {a, b}
  /\ \A s \in Scripts :
       /\ s \in Seq([from : Peers, bufs : Seq(Seq(Data)), crypt : BOOLEAN,
                    as : {"string", "array", "list", "stream"},
                    confirm : {"none", "YES", "NO"}])
       /\ \A k \in DOMAIN s : s[k].as = "stream" =>
            k = Len(s) /\ s[k].bufs # << >> /\ s[k].confirm = "none"

VARIABLES
  script,   (* the script they follow                                      *)
  faults,   (* whether time-outs, signals and network errors can happen    *)
  at,       (* at[p]: the exchange p is in                                 *)
  phase,    (* phase[p]: its part of it, "data" or "confirm"               *)
  open,     (* open[p]: p has not closed the connection                    *)
  cut,      (* cut[p]: p's socket has met a reset                          *)
  wire,     (* wire[p]: bytes on their way to p                            *)
  crypt,    (* crypt[p]: con->gost_el is not NULL                          *)
  pos,      (* pos[p]: the place of p's cipher element in the key stream   *)
  call,     (* call[p]: the call of p in progress                          *)
  rc,       (* rc[p]: what its last call returned                          *)
  begun,    (* history: the messages whose sending p has begun             *)
  got       (* history: the messages p has received                        *)

vars == <<script, faults, at, phase, open, cut, wire, crypt, pos, call, rc, begun, got>>
avars == <<at, phase, begun, got>>

Peer(p) == CHOOSE q \in Peers : q # p
Least(a, b) == IF a < b THEN a ELSE b
Clear == -1            (* the key of a byte that is not encrypted *)
NoPacket == [flags |-> {}, data |-> << >>]
Idle == [op |-> "none", todo |-> << >>, out |-> << >>, inWrite |-> FALSE,
         want |-> 0, acc |-> << >>, head |-> NoPacket, have |-> << >>]
Sending == {"send", "sendConfirm"}
Receiving == {"recv", "recvConfirm"}

Exchange(p) == script[at[p]]
Bytes(q, n) == SubSeq(wire[q], 1, n)

(* nxs_net_header_prep, nxs_buf_cat and nxs_crypt_gost_buf: one packet *)
Packed(pkt, key) ==
  [i \in 1 .. HeaderLen + Len(pkt.data) |->
     [pkt |-> pkt, part |-> i, key |-> IF key = Clear THEN Clear ELSE key + i - 1]]

(* mutant: the last one is recognised one too late *)
PacketsNoLast(e) ==
  [i \in DOMAIN e.bufs |->
     [flags |-> IF i = Len(e.bufs) + 1 THEN {"LAST"} ELSE {}, data |-> e.bufs[i]]]

(* the buffers of a message; NXS_NET_FLAG_LAST on the last *)
Packets(e) ==
  [i \in DOMAIN e.bufs |->
     [flags |-> IF i = Len(e.bufs) THEN {"LAST"} ELSE {}, data |-> e.bufs[i]]]

Raw(e) == [i \in DOMAIN e.bufs |->
             [pkt |-> [flags |-> {"RAW"}, data |-> e.bufs[i]], part |-> 1, key |-> Clear]]

(* nxs_net_send_buf up to its nxs_net_send_core: the next packet encrypted *)
Load(p, c, k) ==
  LET pkt == Head(c.todo)
  IN [c EXCEPT !.todo = Tail(@), !.out = Packed(pkt, IF crypt'[p] THEN k ELSE Clear)]

Advance(p, k, n) == IF crypt'[p] THEN k + n ELSE k
-----------------------------------------------------------------------------
Init ==
  /\ script \in Scripts /\ faults \in BOOLEAN
  /\ at = [p \in Peers |-> 1] /\ phase = [p \in Peers |-> "data"]
  /\ open = [p \in Peers |-> TRUE] /\ cut = [p \in Peers |-> FALSE]
  /\ wire = [p \in Peers |-> << >>]
  /\ crypt = [p \in Peers |-> FALSE] /\ pos = [p \in Peers |-> 0]
  /\ call = [p \in Peers |-> Idle] /\ rc = [p \in Peers |-> "OK"]
  /\ begun = [p \in Peers |-> << >>] /\ got = [p \in Peers |-> << >>]

(***************************************************************************)
(* The applications' calls                                                 *)
(***************************************************************************)
MayCall(p) == call[p].op = "none" /\ open[p] /\ rc[p] = "OK" /\ at[p] <= Len(script)

(* nxs_net_crypt_gost_init, _enable, _disable and _clear: the element of an *)
(* enabled cipher keeps its place, a new one starts                        *)
SetCipher(p) == crypt' = [crypt EXCEPT ![p] = Exchange(p).crypt]

(* mutant: the receiving side forgets to start the key stream anew *)
ResetOnSend(p) == IF crypt'[p] /\ Exchange(p).from = p THEN 0 ELSE pos[p]

(* nxs_crypt_gost_reset, in nxs_net_send and nxs_net_recv *)
Reset(p) == IF crypt'[p] THEN 0 ELSE pos[p]

(* nxs_net_send.  An array or a list without buffers sends nothing. *)
Send(p) ==
  LET e == Exchange(p)
      c == [Idle EXCEPT !.op = "send", !.todo = Packets(e)]
      n == HeaderLen + Len(e.bufs[1])
  IN /\ MayCall(p) /\ phase[p] = "data" /\ e.from = p /\ e.as # "stream"
     /\ e.bufs # << >>
     /\ SetCipher(p)
     /\ call' = [call EXCEPT ![p] = Load(p, c, Reset(p))]
     /\ pos' = [pos EXCEPT ![p] = Advance(p, Reset(p), n)]
     /\ begun' = [begun EXCEPT ![p] = Append(@, e.bufs)]
     /\ UNCHANGED <<script, faults, at, phase, open, cut, wire, rc, got>>

SendNothing(p) ==
  /\ MayCall(p) /\ phase[p] = "data" /\ Exchange(p).from = p
  /\ Exchange(p).bufs = << >>
  /\ SetCipher(p)
  /\ pos' = [pos EXCEPT ![p] = Reset(p)]
  /\ at' = [at EXCEPT ![p] = @ + 1]
  /\ UNCHANGED <<script, faults, phase, open, cut, wire, call, rc, begun, got>>

(* bytes of the application itself, by nxs_net_send_core *)
SendRaw(p) ==
  LET e == Exchange(p)
  IN /\ MayCall(p) /\ e.from = p /\ e.as = "stream"
     /\ call' = [call EXCEPT ![p] = [Idle EXCEPT !.op = "send", !.out = Raw(e)]]
     /\ begun' = [begun EXCEPT ![p] = @ \o [i \in DOMAIN e.bufs |-> <<e.bufs[i]>>]]
     /\ UNCHANGED <<script, faults, at, phase, open, cut, wire, crypt, pos, rc, got>>

(* nxs_net_recv and, without a reset of the cipher, nxs_net_recv_confirm *)
Recv(p) ==
  LET e == Exchange(p)
      data == phase[p] = "data"
  IN /\ MayCall(p) /\ e.as # "stream" /\ e.bufs # << >>
     /\ data = (e.from # p)
     /\ IF data THEN SetCipher(p) ELSE UNCHANGED crypt
     /\ pos' = [pos EXCEPT ![p] = IF data THEN Reset(p) ELSE @]
     /\ call' = [call EXCEPT ![p] = [Idle EXCEPT
          !.op = IF data THEN "recv" ELSE "recvConfirm", !.want = HeaderLen]]
     /\ UNCHANGED <<script, faults, avars, open, cut, wire, rc>>

RecvStream(p) ==
  /\ MayCall(p) /\ Exchange(p).from # p /\ Exchange(p).as = "stream"
  /\ call' = [call EXCEPT ![p] = [Idle EXCEPT !.op = "stream"]]
  /\ UNCHANGED <<script, faults, avars, open, cut, wire, crypt, pos, rc>>

(* an exchange of nothing: the receiving application knows and goes on *)
RecvNothing(p) ==
  /\ MayCall(p) /\ Exchange(p).from # p /\ Exchange(p).bufs = << >>
  /\ at' = [at EXCEPT ![p] = @ + 1]
  /\ UNCHANGED <<script, faults, phase, open, cut, wire, crypt, pos, call, rc, begun, got>>

Confirmation(e) == [flags |-> {"LAST", e.confirm}, data |-> <<e.confirm>>]

(* nxs_net_send_confirm: no reset of the cipher either *)
SendConfirm(p) ==
  LET pkt == Confirmation(Exchange(p))
      c == [Idle EXCEPT !.op = "sendConfirm", !.todo = <<pkt>>]
  IN /\ MayCall(p) /\ phase[p] = "confirm" /\ Exchange(p).from # p
     /\ crypt' = crypt
     /\ call' = [call EXCEPT ![p] = Load(p, c, pos[p])]
     /\ pos' = [pos EXCEPT ![p] = Advance(p, @, HeaderLen + 1)]
     /\ begun' = [begun EXCEPT ![p] = Append(@, <<pkt.data>>)]
     /\ UNCHANGED <<script, faults, at, phase, open, cut, wire, rc, got>>

(* Closed after the last exchange, or after an error.  Bytes that nobody   *)
(* will read make the kernel answer with a reset, which may overtake what  *)
(* the other side has not read yet.                                        *)
Close(p) ==
  LET q == Peer(p)
  IN /\ call[p].op = "none" /\ open[p]
     /\ (rc[p] # "OK" \/ at[p] > Len(script))
     /\ open' = [open EXCEPT ![p] = FALSE]
     /\ \/ wire' = [wire EXCEPT ![p] = << >>] /\ UNCHANGED cut
        \/ /\ wire[p] # << >>
           /\ cut' = [cut EXCEPT ![q] = TRUE]
           /\ wire' = [r \in Peers |-> << >>]
     /\ UNCHANGED <<script, faults, avars, crypt, pos, call, rc>>
-----------------------------------------------------------------------------
(* The call of p returns.  After success the application takes its next    *)
(* step of the script: the confirmation, or the next exchange.             *)
Return(p, code) ==
  LET e == Exchange(p)
      toConfirm == phase[p] = "data" /\ e.confirm # "none"
      again == call[p].op = "stream"
  IN /\ call' = [call EXCEPT ![p] = Idle]
     /\ rc' = [rc EXCEPT ![p] = code]
     /\ IF code # "OK" \/ again
        THEN UNCHANGED <<at, phase>>
        ELSE /\ phase' = [phase EXCEPT ![p] = IF toConfirm THEN "confirm" ELSE "data"]
             /\ at' = [at EXCEPT ![p] = IF toConfirm THEN @ ELSE @ + 1]

Fail(p, code) ==
  /\ Return(p, code)
  /\ UNCHANGED <<script, faults, open, cut, wire, crypt, pos, begun, got>>

(***************************************************************************)
(* nxs_net_send_core                                                       *)
(***************************************************************************)
Readable(p) == wire[p] # << >> \/ ~open[Peer(p)] \/ cut[p]

(* poll for POLLIN and POLLOUT, then a look (MSG_PEEK) whether the peer is *)
(* gone.  With something to read the poll does not wait for room.          *)
SendPoll(p) ==
  LET q == Peer(p)
      writable == Len(wire[q]) < Room
  IN /\ call[p].op \in Sending /\ ~call[p].inWrite
     /\ \/ /\ Readable(p) /\ wire[p] = << >>
           /\ Fail(p, IF cut[p] THEN "SOCKREAD" ELSE "PEER_SHUTDOWN")
        \/ /\ (writable \/ wire[p] # << >>)
           /\ (wire[p] # << >> \/ ~Readable(p))
           /\ call' = [call EXCEPT ![p].inWrite = TRUE]
           /\ UNCHANGED <<script, faults, avars, open, cut, wire, crypt, pos, rc>>
        \/ faults /\ ~writable /\ ~Readable(p) /\ Fail(p, "TIMEOUT")

(* mutant: a write that nothing has interrupted is taken for unfinished *)
SentUntilReturn(p, n, returns) ==
  LET left == SubSeq(call[p].out, n + 1, Len(call[p].out))
      c == [call[p] EXCEPT !.out = left, !.inWrite = ~returns]
  IN IF left # << >> \/ ~returns
     THEN call' = [call EXCEPT ![p] = c] /\ UNCHANGED <<at, phase, rc, pos>>
     ELSE Return(p, "OK") /\ UNCHANGED pos

(* What follows when n bytes went out, and write(2) returns or sleeps on *)
Sent(p, n, returns) ==
  LET left == SubSeq(call[p].out, n + 1, Len(call[p].out))
      c == [call[p] EXCEPT !.out = left, !.inWrite = ~returns]
  IN IF left # << >>
     THEN call' = [call EXCEPT ![p] = c] /\ UNCHANGED <<at, phase, rc, pos>>
     ELSE IF c.todo # << >>
     THEN /\ call' = [call EXCEPT ![p] = [Load(p, c, pos[p]) EXCEPT !.inWrite = FALSE]]
          /\ pos' = [pos EXCEPT ![p] =
                       Advance(p, @, HeaderLen + Len(Head(c.todo).data))]
          /\ UNCHANGED <<at, phase, rc>>
     ELSE Return(p, "OK") /\ UNCHANGED pos

(* write(2) on a blocking socket: it comes back when all is out, when a     *)
(* signal interrupts it, or with an error.  What is written to a peer that *)
(* has closed is lost, and answered with a reset.                          *)
SendWrite(p) ==
  LET q == Peer(p)
      room == Least(Room - Len(wire[q]), Len(call[p].out))
  IN /\ call[p].inWrite
     /\ \/ /\ open[q] /\ ~cut[p] /\ crypt' = crypt
           /\ \E n \in 1 .. room, returns \in {FALSE, faults} :
                /\ wire' = [wire EXCEPT ![q] = @ \o SubSeq(call[p].out, 1, n)]
                /\ Sent(p, n, returns)
           /\ UNCHANGED <<script, faults, open, cut, begun, got>>
        \/ /\ ~open[q] /\ ~cut[p] /\ crypt' = crypt
           /\ cut' = [cut EXCEPT ![p] = TRUE]
           /\ wire' = [wire EXCEPT ![p] = << >>]
           /\ Sent(p, Len(call[p].out), TRUE)
           /\ UNCHANGED <<script, faults, open, begun, got>>
        \/ cut[p] /\ Fail(p, "SOCKWRITE")

(***************************************************************************)
(* nxs_net_recv_core and what its callers do with the bytes                *)
(***************************************************************************)

(* mutant: the second read of a message overwrites the first *)
ReadOver(p, n) == [call[p] EXCEPT !.want = @ - n, !.acc = Bytes(p, n)]

ReadMore(p, n) == [call[p] EXCEPT !.want = @ - n, !.acc = @ \o Bytes(p, n)]

(* nxs_net_header_parse: the header's bytes, in place, with the right key *)
RightHeader(p, bs) ==
  \A i \in 1 .. HeaderLen :
    /\ bs[i].part = i /\ bs[i].pkt = bs[1].pkt /\ "RAW" \notin bs[i].pkt.flags
    /\ bs[i].key = IF crypt[p] THEN pos[p] + i - 1 ELSE Clear

(* what the body's bytes decrypt to *)
Decrypted(p, bs) ==
  [i \in DOMAIN bs |->
     IF /\ bs[i].part > HeaderLen
        /\ bs[i].key = IF crypt[p] THEN pos[p] + i - 1 ELSE Clear
     THEN bs[i].pkt.data[bs[i].part - HeaderLen]
     ELSE "garbage"]

(* nxs_net_recv, _recv_confirm: a buffer is complete *)
Buffer(p, c, data) ==
  LET have == IF Exchange(p).as = "string" THEN <<data>> ELSE Append(c.have, data)
      flags == c.head.flags
  IN IF c.op = "recvConfirm"
     THEN IF flags \cap {"YES", "NO"} = {}
          THEN Return(p, "TYPE") /\ UNCHANGED got
          ELSE Return(p, "OK") /\ got' = [got EXCEPT ![p] = Append(@, <<data>>)]
     ELSE IF "LAST" \in flags
     THEN Return(p, "OK") /\ got' = [got EXCEPT ![p] = Append(@, have)]
     ELSE /\ call' = [call EXCEPT ![p] = [Idle EXCEPT
                 !.op = c.op, !.want = HeaderLen, !.have = have]]
          /\ UNCHANGED <<at, phase, rc, got>>

(* nxs_net_recv_buf after a read that completed the header or the body *)
Complete(p, c) ==
  IF c.head = NoPacket
  THEN LET pkt == c.acc[1].pkt
       IN /\ pos' = [pos EXCEPT ![p] = Advance(p, @, HeaderLen)]
          /\ IF ~RightHeader(p, c.acc)
             THEN Return(p, "HEADER_INCORRECT") /\ UNCHANGED got
             ELSE IF Len(pkt.data) > MaxSize
             THEN Return(p, "BUF_SIZE_EXCEEDED") /\ UNCHANGED got
             ELSE IF pkt.data = << >>
             THEN Buffer(p, [c EXCEPT !.head = pkt], << >>)
             ELSE /\ call' = [call EXCEPT ![p] = [c EXCEPT
                        !.head = pkt, !.want = Len(pkt.data), !.acc = << >>]]
                  /\ UNCHANGED <<at, phase, rc, got>>
  ELSE /\ pos' = [pos EXCEPT ![p] = Advance(p, @, Len(c.acc))]
       /\ Buffer(p, c, Decrypted(p, c.acc))

(* mutant: a read of nothing is taken for a read that came too early *)
RecvEndsNot(p) ==
  \/ wire[p] = << >> /\ cut[p] /\ Fail(p, "SOCKREAD")
  \/ faults /\ wire[p] = << >> /\ ~Readable(p) /\ Fail(p, "TIMEOUT")

(* nothing to read: the peer is gone, or the time is over *)
RecvEnds(p) ==
  \/ /\ wire[p] = << >> /\ Readable(p)
     /\ Fail(p, IF cut[p] THEN "SOCKREAD" ELSE "PEER_SHUTDOWN")
  \/ /\ faults /\ wire[p] = << >> /\ ~Readable(p)
     /\ Fail(p, "TIMEOUT")

RecvRead(p) ==
  /\ call[p].op \in Receiving
  /\ \/ /\ wire[p] # << >> /\ crypt' = crypt
        /\ LET n == Least(call[p].want, Len(wire[p]))
               c == ReadMore(p, n)
           IN /\ wire' = [wire EXCEPT ![p] = SubSeq(@, n + 1, Len(@))]
              /\ IF c.want = 0
                 THEN Complete(p, c)
                 ELSE /\ call' = [call EXCEPT ![p] = c]
                      /\ UNCHANGED <<at, phase, rc, pos, got>>
        /\ UNCHANGED <<script, faults, open, cut, begun>>
     \/ RecvEnds(p)

(* nxs_net_recv_stream: all there is, and at least one byte is asked for,   *)
(* so that the end of the connection is met                                *)
StreamRead(p) ==
  /\ call[p].op = "stream"
  /\ \/ /\ wire[p] # << >>
        /\ wire' = [wire EXCEPT ![p] = << >>]
        /\ got' = [got EXCEPT ![p] =
                     @ \o [i \in DOMAIN wire[p] |-> <<wire[p][i].pkt.data>>]]
        /\ Return(p, "OK")
        /\ UNCHANGED <<script, faults, open, cut, crypt, pos, begun>>
     \/ RecvEnds(p)

(* A signal ends the wait in poll(2), a write or a read fails *)
Fault(p) ==
  /\ faults /\ call[p].op # "none"
  /\ \E code \in {"POLL", IF call[p].op \in Sending THEN "SOCKWRITE" ELSE "SOCKREAD"} :
       Fail(p, code)
-----------------------------------------------------------------------------
Step(p) ==
  \/ Send(p) \/ SendNothing(p) \/ SendRaw(p) \/ Recv(p) \/ RecvStream(p)
  \/ RecvNothing(p) \/ SendConfirm(p) \/ Close(p)
  \/ SendPoll(p) \/ SendWrite(p) \/ RecvRead(p) \/ StreamRead(p)

Next == \E p \in Peers : Step(p) \/ Fault(p)

Spec == Init /\ [][Next]_vars

(* A program that runs goes on with its call, makes the next one of the     *)
(* script and closes at the end.  A wait that nothing else ends times out,  *)
(* where there are time-outs at all; a fault is never owed.                *)
FairSpec == Spec /\ \A p \in Peers : WF_vars(Step(p))
-----------------------------------------------------------------------------
(* The state keeps the shape the code gives it: a call that is not in       *)
(* progress has nothing pending, a write(2) in progress has bytes left, a   *)
(* reader wants at least one byte, and no direction holds more than Room.   *)
TypeOK ==
  /\ script \in Scripts /\ faults \in BOOLEAN
  /\ at \in [Peers -> 1 .. Len(script) + 1]
  /\ phase \in [Peers -> {"data", "confirm"}]
  /\ open \in [Peers -> BOOLEAN] /\ cut \in [Peers -> BOOLEAN]
  /\ crypt \in [Peers -> BOOLEAN] /\ pos \in [Peers -> Nat]
  /\ \A p \in Peers :
       /\ Len(wire[p]) <= Room
       /\ call[p].op = "none" => call[p] = Idle
       /\ call[p].op \in Sending => call[p].out # << >> /\ call[p].want = 0
       /\ call[p].op \in Receiving => call[p].want > 0 /\ ~call[p].inWrite
       /\ phase[p] = "confirm" => at[p] <= Len(script)

(* Both ends are at the same place of the stream and of the key stream      *)
(* whenever a header is read: no end takes body bytes, bytes of an earlier  *)
(* message or bytes of another key for a header, and none takes data for a  *)
(* confirmation (nxs_net_header_parse, nxs_net_recv_confirm).               *)
HeaderRight == \A p \in Peers : rc[p] \notin {"HEADER_INCORRECT", "TYPE"}

(* The functions implement a stream of whole messages in each direction,    *)
(* whatever reads and writes are partial, time out or fail.                 *)
MS == INSTANCE MessageStream
StreamSpec == MS!Spec

(* A call that has begun returns: with its result, or with an error when    *)
(* the peer closes or, where there are time-outs, falls silent.             *)
CallsReturn ==
  \A p \in Peers : call[p].op # "none" ~> call[p].op = "none"

Fits == \A k \in DOMAIN script : \A i \in DOMAIN script[k].bufs :
          Len(script[k].bufs[i]) <= MaxSize

(* Without faults, and with no buffer above the limit, everything that the  *)
(* script sends is received, whatever the connection holds at a time.       *)
Completed ==
  ~faults /\ Fits ~>
    \A p \in Peers :
      /\ ~open[p]
      /\ Len(got[p]) = Len(begun[Peer(p)])
      /\ at[p] >= Len(script)
=============================================================================

--------------------------- MODULE NetStreamProofs --------------------------
(***************************************************************************)
(* Proofs about NetStream, for every set of scripts, header length, size   *)
(* limit and room of the connection.                                       *)
(***************************************************************************)
EXTENDS NetStream, TLAPS, SequenceTheorems, WellFoundedInduction

(***************************************************************************)
(* Types                                                                   *)
(***************************************************************************)
Datum == Data \cup {"YES", "NO"}
Packet == [flags : SUBSET {"LAST", "RAW", "YES", "NO"}, data : Seq(Datum)]
Byte == [pkt : Packet, part : Nat, key : Int]
Call == [op : {"none", "send", "sendConfirm", "recv", "recvConfirm", "stream"},
         todo : Seq(Packet), out : Seq(Byte), inWrite : BOOLEAN, want : Nat,
         acc : Seq(Byte), head : Packet, have : Seq(Seq(Datum))]
Keys == Nat \cup {Clear}
Places == [no : Nat, phase : {"data", "confirm"}, k : Nat, part : Nat,
           key : Keys, sent : [Peers -> Nat]]

(***************************************************************************)
(* The places of the bytes                                                 *)
(***************************************************************************)
Place(n, ph, k, part, key, sent) ==
  [no |-> n, phase |-> ph, k |-> k, part |-> part, key |-> key, sent |-> sent]

Shift(key, n) == IF key = Clear THEN Clear ELSE key + n

StreamEnds(s) == s # << >> /\ s[Len(s)].as = "stream"
IsStream(s, n) == n \in DOMAIN s /\ s[n].as = "stream"

(* the first exchange from n on that is one of buffers *)
NextFull(s, n) ==
  CHOOSE j \in n .. Len(s) + 1 :
    /\ j <= Len(s) => s[j].bufs # << >>
    /\ \A i \in n .. j - 1 : s[i].bufs = << >>

(* the place of the next byte when both are done with the exchanges before n *)
Start(s, n, sent) ==
  LET j == NextFull(s, n)
  IN IF StreamEnds(s) /\ j >= Len(s)
     THEN Place(Len(s), "data", 1, 1, Clear, sent)
     ELSE Place(j, "data", 1, 1, IF j <= Len(s) /\ s[j].crypt THEN 0 ELSE
       Clear, sent)

Unit(s, pl) ==
  /\ pl.no \in DOMAIN s /\ s[pl.no].as # "stream"
  /\ \/ pl.phase = "data" /\ pl.k \in DOMAIN s[pl.no].bufs
     \/ /\ pl.phase = "confirm" /\ pl.k = 1
        /\ s[pl.no].bufs # << >> /\ s[pl.no].confirm # "none"

PacketAt(s, pl) ==
  IF pl.phase = "data" THEN Packets(s[pl.no])[pl.k] ELSE Confirmation(s[pl.no])

MessageAt(s, pl) ==
  IF pl.phase = "data" THEN s[pl.no].bufs ELSE <<Confirmation(s[pl.no]).data>>

Size(s, pl) == HeaderLen + Len(PacketAt(s, pl).data)

(* p sends the byte at pl *)
SentBy(s, p, pl) == (pl.phase = "data") <=> (s[pl.no].from = p)

AfterPacket(s, p, n, ph, k, key, sent) ==
  LET more == [sent EXCEPT ![p] = @ + 1]
  IN IF ph = "data" /\ k < Len(s[n].bufs)
     THEN Place(n, "data", k + 1, 1, key, sent)
     ELSE IF ph = "data" /\ s[n].confirm # "none"
     THEN Place(n, "confirm", 1, 1, key, more)
     ELSE Start(s, n + 1, more)

Beyond(s, p, pl) ==
  AfterPacket(s, p, pl.no, pl.phase, pl.k, Shift(pl.key, Size(s, pl)), pl.sent)

Then(s, p, pl) ==
  IF IsStream(s, pl.no)
  THEN Place(pl.no, "data", 1, 1, Clear, [pl.sent EXCEPT ![p] = @ + 1])
  ELSE IF pl.part < Size(s, pl)
  THEN Place(pl.no, pl.phase, pl.k, pl.part + 1, pl.key, pl.sent)
  ELSE Beyond(s, p, pl)

(* the byte is the one that p sends at pl, of a message that it has begun *)
Is(s, p, bg, pl, byte) ==
  /\ pl \in Places /\ pl.sent[p] < Len(bg)
  /\ \/ /\ IsStream(s, pl.no) /\ s[pl.no].from = p
        /\ byte.pkt.flags = {"RAW"} /\ bg[pl.sent[p] + 1] = <<byte.pkt.data>>
     \/ /\ Unit(s, pl) /\ SentBy(s, p, pl)
        /\ byte = [pkt |-> PacketAt(s, pl), part |-> pl.part,
                   key |-> Shift(pl.key, pl.part - 1)]
        /\ bg[pl.sent[p] + 1] = MessageAt(s, pl)

(* The bytes w lead from a to b, byte by byte. *)
Chain(s, p, bg, a, w, b) ==
  \E run :
    /\ run[0] = a /\ run[Len(w)] = b
    /\ \A i \in 1 .. Len(w) :
         Is(s, p, bg, run[i - 1], w[i]) /\ run[i] = Then(s, p, run[i - 1])

-----------------------------------------------------------------------------
(***************************************************************************)
(* The inductive invariant                                                 *)
(***************************************************************************)
Codes == {"OK", "SOCKREAD", "SOCKWRITE", "PEER_SHUTDOWN", "TIMEOUT", "POLL",
          "BUF_SIZE_EXCEEDED"}

Live(x) == open[x] /\ rc[x] = "OK"

Global ==
  /\ script \in Scripts /\ faults \in BOOLEAN
  /\ at \in [Peers -> 1 .. Len(script) + 1]
  /\ phase \in [Peers -> {"data", "confirm"}]
  /\ open \in [Peers -> BOOLEAN] /\ cut \in [Peers -> BOOLEAN]
  /\ crypt \in [Peers -> BOOLEAN] /\ pos \in [Peers -> Nat]
  /\ wire \in [Peers -> Seq(Byte)] /\ \A x \in Peers : Len(wire[x]) <= Room
  /\ call \in [Peers -> Call] /\ rc \in [Peers -> Codes]
  /\ begun \in [Peers -> Seq(Seq(Seq(Datum)))]
  /\ got \in [Peers -> Seq(Seq(Seq(Datum)))]

Local(x) ==
  /\ call[x].op = "none" => call[x] = Idle
  /\ call[x].op # "none" =>
       Live(x) /\ at[x] <= Len(script) /\ script[at[x]].bufs # << >>
  /\ call[x].op \in Sending => call[x].out # << >> /\ call[x].want = 0
  /\ call[x].op \in Receiving => call[x].want > 0
  /\ call[x].op \notin Sending => ~call[x].inWrite
  /\ phase[x] = "confirm" =>
       /\ at[x] <= Len(script) /\ script[at[x]].bufs # << >>
       /\ script[at[x]].confirm # "none"

Types == Global /\ \A x \in Peers : Local(x)

(* The place in the key stream, and the numbers of messages in either      *)
(* direction, as x knows them                                              *)
Key(x) == IF crypt[x] THEN pos[x] ELSE Clear
Counts(x) == [y \in Peers |-> IF y = x THEN Len(begun[x]) ELSE Len(got[x])]

(* the place of the next byte, for a peer between two calls *)
Resting(x) ==
  IF phase[x] = "data" THEN Start(script, at[x], Counts(x))
  ELSE Place(at[x], "confirm", 1, 1, Key(x), Counts(x))

(* x reads the header, or the body, that begins at pl *)
Reads(x, pl) ==
  LET c == call[x]
  IN /\ pl.no = at[x] /\ pl.phase = phase[x] /\ Unit(script, pl)
     /\ c.op = IF phase[x] = "data" THEN "recv" ELSE "recvConfirm"
     /\ \/ /\ c.head = NoPacket /\ pl.part = 1 /\ pl.key = Key(x)
           /\ c.want + Len(c.acc) = HeaderLen
        \/ /\ c.head = PacketAt(script, pl) /\ c.head.data # << >>
           /\ pl.part = HeaderLen + 1 /\ Key(x) = Shift(pl.key, HeaderLen)
           /\ c.want + Len(c.acc) = Len(c.head.data)
     /\ phase[x] = "data" /\ script[at[x]].as # "string" =>
          c.have = SubSeq(script[at[x]].bufs, 1, pl.k - 1)

(* The bytes that x has not yet used begin at pl. *)
Stands(x, pl) ==
  /\ pl.sent = Counts(x)
  /\ \/ call[x] = Idle /\ pl = Resting(x)
     \/ /\ call[x] = [Idle EXCEPT !.op = "stream"] /\ IsStream(script, at[x])
        /\ pl = Place(at[x], "data", 1, 1, Clear, Counts(x))
     \/ Reads(x, pl)

(* the packets of a message after its k-th *)
Rest(s, n, ph, k) ==
  IF ph = "data" THEN SubSeq(Packets(s[n]), k + 1, Len(s[n].bufs)) ELSE << >>

(* x sends, and what it has loaded ends at pl: it is the packet at u. *)
Writes(x, pl) ==
  /\ call[x].op = IF phase[x] = "data" THEN "send" ELSE "sendConfirm"
  /\ \/ /\ IsStream(script, at[x]) /\ phase[x] = "data" /\ call[x].todo = << >>
        /\ pl = Place(at[x], "data", 1, 1, Clear, Counts(x))
     \/ \E u \in Places :
          /\ u.no = at[x] /\ u.phase = phase[x] /\ Unit(script, u)
          /\ SentBy(script, x, u) /\ u.sent = [Counts(x) EXCEPT ![x] = @ - 1]
          /\ begun[x] # << >> /\ begun[x][Len(begun[x])] = MessageAt(script, u)
          /\ call[x].todo = Rest(script, at[x], phase[x], u.k)
          /\ Key(x) = Shift(u.key, Size(script, u))
          /\ pl = Beyond(script, x, u)

(* The bytes that x has yet to send, or to wait for, begin at pl. *)
Leads(x, pl) ==
  (Stands(x, pl) /\ call[x].acc = << >> /\ pl.part = 1) \/ Writes(x, pl)

(* what p has sent, or loaded, and q not yet used *)
Between(p, q) == (call[q].acc \o wire[q]) \o call[p].out

Joined(p, q) ==
  \E a, b : /\ Stands(q, a) /\ Chain(script, p, begun[p], a, Between(p, q), b)
            /\ Live(p) => Leads(p, b)

(* Bytes are under way in one direction only, and lead from the place      *)
(* where the one that reads stands to the place of the other.              *)
Wired ==
  \E p \in Peers : wire[p] = << >> /\ (Live(Peer(p)) => Joined(p, Peer(p)))

IInv == Types /\ Wired

(***************************************************************************)
(* Numbers, peers and scripts                                              *)
(***************************************************************************)
LEMMA Params ==
  HeaderLen \in Nat /\ HeaderLen > 0 /\ MaxSize \in Nat /\ Room \in Nat
    /\ Room > 0
BY NetStreamAssumption

(* A set of natural numbers that is not empty has a least one: what the    *)
(* proofs by induction below rest on.                                      *)
LEMMA NatMin ==
  ASSUME NEW T \in SUBSET Nat, T # {}
  PROVE  \E n \in T : \A m \in T : n <= m
<1>1. IsWellFoundedOn({ss \in Nat \X Nat : ss[1] < ss[2]}, Nat)
  BY NatLessThanWellFounded DEF OpToRel
<1>2. PICK n \in T : \A m \in T :
        ~ (<<m, n>> \in {ss \in Nat \X Nat : ss[1] < ss[2]})
  BY <1>1, WFMin
<1>3. ASSUME NEW m \in T PROVE n <= m
  <2>1. m \in Nat /\ n \in Nat
    OBVIOUS
  <2>2. ~ (<<m, n>> \in {ss \in Nat \X Nat : ss[1] < ss[2]})
    BY <1>2
  <2>3. ~ (m < n)
    BY <2>1, <2>2
  <2>4. QED
    BY <2>1, <2>3
<1> QED BY <1>3

LEMMA Peering ==
  ASSUME NEW p \in Peers
  PROVE  /\ Peer(p) \in Peers /\ Peer(p) # p /\ Peer(Peer(p)) = p
         /\ \A r \in Peers : r = p \/ r = Peer(p)
<1>1. PICK c \in Peers, d \in Peers : c # d /\ Peers = {c, d}
  BY NetStreamAssumption
<1>2. \A r \in Peers : Peer(r) \in Peers /\ Peer(r) # r
  BY <1>1 DEF Peer
<1> QED BY <1>1, <1>2

LEMMA Scripted ==
  ASSUME NEW s \in Scripts
  PROVE  /\ Len(s) \in Nat /\ DOMAIN s = 1 .. Len(s)
         /\ \A k \in 1 .. Len(s) :
              /\ s[k].from \in Peers /\ s[k].bufs \in Seq(Seq(Data))
              /\ s[k].crypt \in BOOLEAN
              /\ s[k].confirm \in {"none", "YES", "NO"}
              /\ s[k].as \in {"string", "array", "list", "stream"}
              /\ s[k].as = "stream" =>
                   k = Len(s) /\ s[k].bufs # << >> /\ s[k].confirm = "none"
<1> DEFINE E == [from : Peers, bufs : Seq(Seq(Data)), crypt : BOOLEAN,
                 as : {"string", "array", "list", "stream"},
                 confirm : {"none", "YES", "NO"}]
<1>1. s \in Seq(E)
  BY NetStreamAssumption
<1>2. Len(s) \in Nat /\ DOMAIN s = 1 .. Len(s)
        /\ \A k \in 1 .. Len(s) : s[k] \in E
  BY ONLY <1>1, LenProperties, ElementOfSeq
<1>3. \A k \in DOMAIN s : s[k].as = "stream" =>
        k = Len(s) /\ s[k].bufs # << >> /\ s[k].confirm = "none"
  BY NetStreamAssumption
<1> QED BY ONLY <1>2, <1>3

(* A buffer holds bytes. *)
LEMMA Buffers ==
  ASSUME NEW s \in Scripts, NEW n \in 1 .. Len(s)
  PROVE  /\ s[n].bufs \in Seq(Seq(Datum)) /\ Len(s[n].bufs) \in Nat
         /\ DOMAIN s[n].bufs = 1 .. Len(s[n].bufs)
         /\ \A k \in 1 .. Len(s[n].bufs) :
              s[n].bufs[k] \in Seq(Datum) /\ Len(s[n].bufs[k]) \in Nat
<1>1. s[n].bufs \in Seq(Seq(Data))
  BY Scripted
<1>2. \A x \in Seq(Data) : x \in Seq(Datum)
  <2>1. Data \subseteq Datum
    BY DEF Datum
  <2> QED BY <2>1, SeqMonotonic
<1>3. Seq(Data) \subseteq Seq(Datum)
  BY <1>2
<1>4. s[n].bufs \in Seq(Seq(Datum))
  BY <1>1, <1>3, SeqMonotonic
<1>5. \A k \in 1 .. Len(s[n].bufs) : s[n].bufs[k] \in Seq(Datum)
  BY <1>4, ElementOfSeq
<1> QED BY <1>4, <1>5, LenProperties

LEMMA PacketsAre ==
  ASSUME NEW s \in Scripts, NEW n \in 1 .. Len(s)
  PROVE  /\ Packets(s[n]) \in Seq(Packet)
         /\ Len(Packets(s[n])) = Len(s[n].bufs)
         /\ \A k \in 1 .. Len(s[n].bufs) :
              /\ Packets(s[n])[k].flags = IF k = Len(s[n].bufs) THEN {"LAST"}
                 ELSE {}
              /\ Packets(s[n])[k].data = s[n].bufs[k]
<1> DEFINE l == Len(s[n].bufs)
           pk == [k \in 1 .. l |-> [flags |-> IF k = l THEN {"LAST"} ELSE {},
                                    data |-> s[n].bufs[k]]]
<1>1. l \in Nat /\ Packets(s[n]) = pk
  BY Buffers DEF Packets
<1>2. \A k \in 1 .. l : s[n].bufs[k] \in Seq(Datum)
  BY Buffers
<1> HIDE DEF l
<1>3. pk \in [1 .. l -> Packet]
  BY <1>1, <1>2 DEF Packet
<1>4. pk \in Seq(Packet) /\ Len(pk) = l
  BY <1>1, <1>3, SeqDef, LenProperties
<1>5. ASSUME NEW k \in 1 .. l
      PROVE  /\ pk[k].flags = IF k = l THEN {"LAST"} ELSE {}
             /\ pk[k].data = s[n].bufs[k]
  <2> DEFINE fl == IF k = l THEN {"LAST"} ELSE {}
             dt == s[n].bufs[k]
  <2>1. pk[k] = [flags |-> fl, data |-> dt]
    OBVIOUS
  <2> HIDE DEF fl, dt
  <2>2. [flags |-> fl, data |-> dt].flags = fl
          /\ [flags |-> fl, data |-> dt].data = dt
    OBVIOUS
  <2> HIDE DEF pk
  <2>3. pk[k].flags = fl /\ pk[k].data = dt
    BY <2>1, <2>2
  <2> QED BY <2>3 DEF fl, dt
<1> HIDE DEF pk
<1> QED BY <1>1, <1>4, <1>5 DEF l

LEMMA ConfirmationIs ==
  ASSUME NEW s \in Scripts, NEW n \in 1 .. Len(s), s[n].confirm # "none"
  PROVE  /\ Confirmation(s[n]) \in Packet /\ Len(Confirmation(s[n]).data) = 1
         /\ Confirmation(s[n]).data \in Seq(Datum)
         /\ Confirmation(s[n]).flags \cap {"YES", "NO"} # {}
         /\ "RAW" \notin Confirmation(s[n]).flags
<1>1. s[n].confirm \in {"YES", "NO"}
  BY Scripted
<1>2. s[n].confirm \in Datum
  BY <1>1 DEF Datum
<1>3. <<s[n].confirm>> \in Seq(Datum) /\ Len(<<s[n].confirm>>) = 1
  BY <1>2
<1> QED BY <1>1, <1>3 DEF Confirmation, Packet

(***************************************************************************)
(* Places                                                                  *)
(***************************************************************************)
LEMMA NextFullIs ==
  ASSUME NEW s \in Scripts, NEW n \in 1 .. Len(s) + 1
  PROVE  /\ NextFull(s, n) \in n .. Len(s) + 1
         /\ NextFull(s, n) <= Len(s) => s[NextFull(s, n)].bufs # << >>
         /\ \A i \in n .. NextFull(s, n) - 1 : s[i].bufs = << >>
<1> DEFINE T == {j \in n .. Len(s) + 1 : j <= Len(s) => s[j].bufs # << >>}
<1>1. Len(s) \in Nat /\ n \in Nat
  BY Scripted
<1>2. T \in SUBSET Nat /\ Len(s) + 1 \in T
  BY <1>1
<1>3. PICK j \in T : \A m \in T : j <= m
  BY <1>2, NatMin
<1>4. \A i \in n .. j - 1 : s[i].bufs = << >>
  BY <1>1, <1>3
<1>5. j \in n .. Len(s) + 1 /\ (j <= Len(s) => s[j].bufs # << >>)
  BY <1>3
<1> HIDE DEF T
<1> QED BY <1>4, <1>5 DEF NextFull

LEMMA StartFull ==
  ASSUME NEW s \in Scripts, NEW n \in 1 .. Len(s), s[n].bufs # << >>
  PROVE  NextFull(s, n) = n
<1>1. Len(s) \in Nat /\ n \in 1 .. Len(s) + 1
  BY Scripted
<1> DEFINE j == NextFull(s, n)
<1>2. j \in n .. Len(s) + 1 /\ \A i \in n .. j - 1 : s[i].bufs = << >>
  BY <1>1, NextFullIs
<1> HIDE DEF j
<1>3. ~ (n \in n .. j - 1)
  BY <1>2
<1> QED BY <1>1, <1>2, <1>3 DEF j

(* An exchange of nothing does not move the place. *)
LEMMA StartEmpty ==
  ASSUME NEW s \in Scripts, NEW n \in 1 .. Len(s), s[n].bufs = << >>, NEW sent
  PROVE  Start(s, n, sent) = Start(s, n + 1, sent)
<1>1. Len(s) \in Nat /\ n \in 1 .. Len(s) + 1 /\ n + 1 \in 1 .. Len(s) + 1
  BY Scripted
<1> DEFINE i == NextFull(s, n)
           j == NextFull(s, n + 1)
<1>2. /\ i \in n .. Len(s) + 1 /\ (i <= Len(s) => s[i].bufs # << >>)
      /\ \A k \in n .. i - 1 : s[k].bufs = << >>
  BY <1>1, NextFullIs
<1>3. /\ j \in n + 1 .. Len(s) + 1 /\ (j <= Len(s) => s[j].bufs # << >>)
      /\ \A k \in n + 1 .. j - 1 : s[k].bufs = << >>
  BY <1>1, NextFullIs
<1>4. i = j
  <2> HIDE DEF i, j
  <2>1. i # n
    BY <1>1, <1>2
  <2>2. ~ (i < j)
    <3> SUFFICES ASSUME i < j PROVE FALSE
      OBVIOUS
    <3>1. i \in n + 1 .. j - 1 /\ i <= Len(s)
      BY <1>1, <1>2, <1>3, <2>1
    <3> QED BY <3>1, <1>2, <1>3
  <2>3. ~ (j < i)
    <3> SUFFICES ASSUME j < i PROVE FALSE
      OBVIOUS
    <3>1. j \in n .. i - 1 /\ j <= Len(s)
      BY <1>1, <1>2, <1>3
    <3> QED BY <3>1, <1>2, <1>3
  <2> QED BY <1>1, <1>2, <1>3, <2>2, <2>3
<1> QED BY <1>4 DEF Start

(* Where the next exchange starts *)
LEMMA StartPlace ==
  ASSUME NEW s \in Scripts, NEW n \in 1 .. Len(s) + 1,
         NEW sent \in [Peers -> Nat]
  PROVE  /\ Start(s, n, sent) \in Places
         /\ Start(s, n, sent).sent = sent /\ Start(s, n, sent).part = 1
<1>1. Len(s) \in Nat
  BY Scripted
<1>2. NextFull(s, n) \in Nat
  BY <1>1, NextFullIs
<1> QED BY <1>1, <1>2 DEF Start, Place, Places, Keys, Clear

LEMMA StartHere ==
  ASSUME NEW s \in Scripts, NEW n \in 1 .. Len(s), s[n].bufs # << >>, NEW sent
  PROVE  Start(s, n, sent) =
           Place(n, "data", 1, 1,
                 IF s[n].crypt /\ s[n].as # "stream" THEN 0 ELSE Clear, sent)
<1>1. Len(s) \in Nat /\ n \in Nat /\ n <= Len(s)
  BY Scripted
<1>2. NextFull(s, n) = n
  BY StartFull
<1>3. s[n].as = "stream" => n = Len(s)
  BY Scripted
<1>4. CASE StreamEnds(s) /\ n >= Len(s)
  <2>1. n = Len(s)
    <3>1. PICK l \in Nat : l = Len(s)
      BY <1>1
    <3>2. n <= l /\ n >= l
      BY <1>1, <1>4, <3>1
    <3>3. n = l
      BY <1>1, <3>1, <3>2
    <3> QED BY <3>1, <3>3
  <2>2. s[n].as = "stream"
    BY <1>4, <2>1 DEF StreamEnds
  <2> QED BY <1>2, <1>4, <2>1, <2>2 DEF Start
<1>5. CASE ~ (StreamEnds(s) /\ n >= Len(s))
  <2>1. s[n].as # "stream" /\ n <= Len(s)
    BY <1>1, <1>3, <1>5 DEF StreamEnds
  <2> QED BY <1>2, <1>5, <2>1 DEF Start
<1> QED BY <1>4, <1>5

(* After a stream there is more of it only. *)
LEMMA StartStream ==
  ASSUME NEW s \in Scripts, NEW n \in 1 .. Len(s), s[n].as = "stream", NEW sent
  PROVE  /\ Start(s, n, sent) = Place(n, "data", 1, 1, Clear, sent)
         /\ Start(s, n + 1, sent) = Place(n, "data", 1, 1, Clear, sent)
<1>1. Len(s) \in Nat /\ n = Len(s) /\ s[n].bufs # << >>
  BY Scripted
<1>2. StreamEnds(s) /\ n + 1 \in 1 .. Len(s) + 1
  BY <1>1 DEF StreamEnds
<1>3. NextFull(s, n + 1) >= Len(s)
  <2>1. NextFull(s, n + 1) \in n + 1 .. Len(s) + 1
    BY <1>2, NextFullIs
  <2> QED BY <1>1, <2>1
<1> QED BY <1>1, <1>2, <1>3, StartHere DEF Start

LEMMA UnitIs ==
  ASSUME NEW s \in Scripts, NEW pl, Unit(s, pl)
  PROVE  /\ pl.no \in 1 .. Len(s) /\ ~IsStream(s, pl.no)
         /\ PacketAt(s, pl) \in Packet /\ PacketAt(s, pl).data \in Seq(Datum)
         /\ Len(PacketAt(s, pl).data) \in Nat
         /\ Size(s, pl) \in Nat /\ Size(s, pl) >= HeaderLen
         /\ "RAW" \notin PacketAt(s, pl).flags
         /\ MessageAt(s, pl) \in Seq(Seq(Datum)) /\ MessageAt(s, pl) # << >>
<1>1. pl.no \in 1 .. Len(s) /\ ~IsStream(s, pl.no)
  BY Scripted DEF Unit, IsStream
<1>2. /\ PacketAt(s, pl) \in Packet /\ "RAW" \notin PacketAt(s, pl).flags
      /\ MessageAt(s, pl) \in Seq(Seq(Datum)) /\ MessageAt(s, pl) # << >>
  <2>1. CASE pl.phase = "data"
    <3>1. pl.k \in 1 .. Len(s[pl.no].bufs) /\ s[pl.no].bufs # << >>
      BY <1>1, <2>1, Buffers DEF Unit
    <3>2. PacketAt(s, pl) = Packets(s[pl.no])[pl.k]
            /\ MessageAt(s, pl) = s[pl.no].bufs
      BY <2>1 DEF PacketAt, MessageAt
    <3>3. Packets(s[pl.no])[pl.k] \in Packet
      BY <1>1, <3>1, PacketsAre, ElementOfSeq
    <3>4. "RAW" \notin Packets(s[pl.no])[pl.k].flags
      <4>1. Packets(s[pl.no])[pl.k].flags =
              IF pl.k = Len(s[pl.no].bufs) THEN {"LAST"} ELSE {}
        BY <1>1, <3>1, PacketsAre
      <4> QED BY <4>1
    <3> QED BY <1>1, <3>1, <3>2, <3>3, <3>4, Buffers
  <2>2. CASE pl.phase # "data"
    <3>1. s[pl.no].confirm # "none"
      BY <2>2 DEF Unit
    <3>2. /\ PacketAt(s, pl) = Confirmation(s[pl.no])
          /\ MessageAt(s, pl) = <<Confirmation(s[pl.no]).data>>
      BY <2>2 DEF PacketAt, MessageAt
    <3> HIDE DEF PacketAt, MessageAt
    <3>3. Confirmation(s[pl.no]).data \in Seq(Datum)
      BY <1>1, <3>1, ConfirmationIs
    <3> QED BY <1>1, <3>1, <3>2, <3>3, ConfirmationIs
  <2> QED BY <2>1, <2>2
<1>3. PacketAt(s, pl).data \in Seq(Datum)
  BY <1>2 DEF Packet
<1>4. Len(PacketAt(s, pl).data) \in Nat
  BY <1>3
<1> QED BY <1>1, <1>2, <1>3, <1>4, Params DEF Size

LEMMA AfterPacketPlace ==
  ASSUME NEW s \in Scripts, NEW p \in Peers, NEW n \in 1 .. Len(s),
         NEW ph \in {"data", "confirm"}, NEW k \in Nat, NEW key \in Keys,
         NEW sent \in [Peers -> Nat]
  PROVE  /\ AfterPacket(s, p, n, ph, k, key, sent) \in Places
         /\ AfterPacket(s, p, n, ph, k, key, sent).part = 1
<1> DEFINE more == [sent EXCEPT ![p] = @ + 1]
<1>1. more \in [Peers -> Nat] /\ n + 1 \in 1 .. Len(s) + 1
  BY Scripted
<1> HIDE DEF more
<1>2. Start(s, n + 1, more) \in Places /\ Start(s, n + 1, more).part = 1
  BY <1>1, StartPlace
<1>3. /\ Place(n, "data", k + 1, 1, key, sent) \in Places
      /\ Place(n, "data", k + 1, 1, key, sent).part = 1
      /\ Place(n, "confirm", 1, 1, key, more) \in Places
      /\ Place(n, "confirm", 1, 1, key, more).part = 1
  BY <1>1 DEF Place, Places
<1> QED BY <1>2, <1>3 DEF AfterPacket, more

(***************************************************************************)
(* Chains                                                                  *)
(***************************************************************************)
LEMMA ChainEmpty ==
  ASSUME NEW s, NEW p, NEW bg, NEW a
  PROVE  /\ Chain(s, p, bg, a, << >>, a)
         /\ \A b : Chain(s, p, bg, a, << >>, b) => a = b
<1>1. Chain(s, p, bg, a, << >>, a)
  <2> DEFINE run == [i \in {0} |-> a]
  <2>1. run[0] = a /\ Len(<< >>) = 0 /\ 1 .. 0 = {}
    OBVIOUS
  <2> HIDE DEF run
  <2> QED BY <2>1 DEF Chain
<1>2. ASSUME NEW b, Chain(s, p, bg, a, << >>, b)
      PROVE  a = b
  <2>1. PICK run : run[0] = a /\ run[Len(<< >>)] = b
    BY <1>2 DEF Chain
  <2> QED BY <2>1
<1> QED BY <1>1, <1>2

LEMMA ChainFirst ==
  ASSUME NEW s, NEW p, NEW bg, NEW a, NEW b, NEW w \in Seq(Byte), w # << >>,
         Chain(s, p, bg, a, w, b)
  PROVE  Is(s, p, bg, a, w[1])
<1>1. PICK run : run[0] = a
        /\ \A i \in 1 .. Len(w) : Is(s, p, bg, run[i - 1], w[i])
  BY DEF Chain
<1>2. 1 \in 1 .. Len(w) /\ 1 - 1 = 0
  BY EmptySeq
<1> QED BY <1>1, <1>2

LEMMA ChainJoin ==
  ASSUME NEW s, NEW p, NEW bg, NEW a, NEW b, NEW c,
         NEW v \in Seq(Byte), NEW w \in Seq(Byte),
         Chain(s, p, bg, a, v, b), Chain(s, p, bg, b, w, c)
  PROVE  Chain(s, p, bg, a, v \o w, c)
<1>1. PICK f : /\ f[0] = a /\ f[Len(v)] = b
               /\ \A i \in 1 .. Len(v) :
                    Is(s, p, bg, f[i - 1], v[i]) /\ f[i] = Then(s, p, f[i - 1])
  BY DEF Chain
<1>2. PICK g : /\ g[0] = b /\ g[Len(w)] = c
               /\ \A i \in 1 .. Len(w) :
                    Is(s, p, bg, g[i - 1], w[i]) /\ g[i] = Then(s, p, g[i - 1])
  BY DEF Chain
<1> DEFINE m == Len(v)
           n == Len(w)
           h == [i \in 0 .. m + n |-> IF i <= m THEN f[i] ELSE g[i - m]]
           u == v \o w
<1>3. /\ m \in Nat /\ n \in Nat /\ Len(u) = m + n
      /\ \A i \in 1 .. m + n : u[i] = IF i <= m THEN v[i] ELSE w[i - m]
  BY LenProperties, ConcatProperties
<1>4. /\ f[0] = a /\ f[m] = b
      /\ \A i \in 1 .. m : /\ Is(s, p, bg, f[i - 1], v[i])
                           /\ f[i] = Then(s, p, f[i - 1])
      /\ g[0] = b /\ g[n] = c
      /\ \A i \in 1 .. n : /\ Is(s, p, bg, g[i - 1], w[i])
                           /\ g[i] = Then(s, p, g[i - 1])
  BY <1>1, <1>2
<1> HIDE DEF m, n, u
<1>5. h[0] = a /\ h[m + n] = c
  <2>1. n = 0 => m + n = m
    BY <1>3
  <2>2. n # 0 => ~ (m + n <= m) /\ (m + n) - m = n
    BY <1>3
  <2> QED BY <1>4, <1>3, <2>1, <2>2
<1>6. ASSUME NEW i \in 1 .. m + n
      PROVE  Is(s, p, bg, h[i - 1], u[i]) /\ h[i] = Then(s, p, h[i - 1])
  <2>1. i - 1 \in 0 .. m + n /\ i \in 0 .. m + n
    BY <1>3
  <2>2. CASE i <= m
    <3>1. i \in 1 .. m /\ i - 1 <= m
      BY <1>3, <2>2
    <3>2. h[i - 1] = f[i - 1] /\ h[i] = f[i] /\ u[i] = v[i]
      BY <1>3, <2>1, <2>2, <3>1
    <3> QED BY <1>4, <3>1, <3>2
  <2>3. CASE i > m
    <3>1. i - m \in 1 .. n /\ ~ (i <= m) /\ (i - 1) - m = (i - m) - 1
      BY <1>3, <2>3
    <3>2. h[i] = g[i - m] /\ u[i] = w[i - m]
      BY <1>3, <2>1, <3>1
    <3>3. h[i - 1] = g[(i - m) - 1]
      <4>1. CASE i - 1 = m
        <5>1. i - 1 <= m /\ (i - m) - 1 = 0
          BY <1>3, <4>1
        <5> QED BY <1>4, <2>1, <4>1, <5>1
      <4>2. CASE i - 1 # m
        <5>1. ~ (i - 1 <= m)
          BY <1>3, <2>3, <4>2
        <5> QED BY <2>1, <3>1, <5>1
      <4> QED BY <4>1, <4>2
    <3> QED BY <1>4, <3>1, <3>2, <3>3
  <2> QED BY <1>3, <2>2, <2>3
<1> HIDE DEF h
<1>7. Chain(s, p, bg, a, u, c)
  BY <1>3, <1>5, <1>6 DEF Chain
<1> QED BY <1>7 DEF u

LEMMA ChainSplit ==
  ASSUME NEW s, NEW p, NEW bg, NEW a, NEW c,
         NEW v \in Seq(Byte), NEW w \in Seq(Byte),
         Chain(s, p, bg, a, v \o w, c)
  PROVE  \E b : Chain(s, p, bg, a, v, b) /\ Chain(s, p, bg, b, w, c)
<1> DEFINE m == Len(v)
           n == Len(w)
           u == v \o w
<1>1. PICK f : /\ f[0] = a /\ f[Len(u)] = c
               /\ \A i \in 1 .. Len(u) :
                    Is(s, p, bg, f[i - 1], u[i]) /\ f[i] = Then(s, p, f[i - 1])
  BY DEF Chain
<1>2. /\ m \in Nat /\ n \in Nat /\ Len(u) = m + n
      /\ \A i \in 1 .. m + n : u[i] = IF i <= m THEN v[i] ELSE w[i - m]
  BY LenProperties, ConcatProperties
<1> DEFINE g == [i \in 0 .. n |-> f[m + i]]
<1> HIDE DEF u, m, n
<1>3. Chain(s, p, bg, a, v, f[m])
  <2>1. ASSUME NEW i \in 1 .. m
        PROVE  Is(s, p, bg, f[i - 1], v[i]) /\ f[i] = Then(s, p, f[i - 1])
    <3>1. i \in 1 .. m + n /\ i <= m
      BY <1>2
    <3> QED BY <1>1, <1>2, <3>1
  <2> QED BY <1>1, <2>1 DEF Chain, m
<1>4. ASSUME NEW i \in 1 .. n
      PROVE  Is(s, p, bg, g[i - 1], w[i]) /\ g[i] = Then(s, p, g[i - 1])
  <2>1. /\ m + i \in 1 .. m + n /\ ~ (m + i <= m) /\ (m + i) - m = i
        /\ m + (i - 1) = (m + i) - 1 /\ i \in 0 .. n /\ i - 1 \in 0 .. n
    BY <1>2
  <2>2. g[i] = f[m + i] /\ g[i - 1] = f[(m + i) - 1] /\ u[m + i] = w[i]
    BY <1>2, <2>1
  <2> QED BY <1>1, <1>2, <2>1, <2>2
<1>5. g[0] = f[m] /\ g[n] = c
  BY <1>1, <1>2
<1> HIDE DEF g
<1>6. Chain(s, p, bg, f[m], w, c)
  BY <1>4, <1>5 DEF Chain, n
<1> QED BY <1>3, <1>6

(* A sender that begins one message more changes nothing of what is under  *)
(* way.                                                                    *)
LEMMA ChainBegun ==
  ASSUME NEW s, NEW p \in Peers, NEW bg, NEW new, NEW a, NEW b,
         NEW w \in Seq(Byte),
         Len(bg) \in Nat, Len(new) \in Nat, Len(bg) <= Len(new),
         \A i \in 1 .. Len(bg) : new[i] = bg[i],
         Chain(s, p, bg, a, w, b)
  PROVE  Chain(s, p, new, a, w, b)
<1>1. ASSUME NEW pl, NEW y, Is(s, p, bg, pl, y)
      PROVE  Is(s, p, new, pl, y)
  <2>1. pl.sent[p] + 1 \in 1 .. Len(bg) /\ pl.sent[p] < Len(new)
    <3>1. pl.sent[p] \in Nat /\ pl.sent[p] < Len(bg)
      BY <1>1 DEF Is, Places
    <3> QED BY <3>1
  <2>2. new[pl.sent[p] + 1] = bg[pl.sent[p] + 1]
    BY <2>1
  <2> QED BY <1>1, <2>1, <2>2 DEF Is
<1> QED BY <1>1 DEF Chain

(* The next n places of a packet from one of its bytes on *)
Inside(s, p, pl, i) ==
  IF pl.part + i <= Size(s, pl)
  THEN Place(pl.no, pl.phase, pl.k, pl.part + i, pl.key, pl.sent)
  ELSE Beyond(s, p, pl)

LEMMA Shifted ==
  ASSUME NEW key \in Keys, NEW n \in Nat
  PROVE  /\ Shift(key, n) \in Keys /\ Shift(key, n) \in Int
         /\ \A m \in Nat : Shift(Shift(key, n), m) = Shift(key, n + m)
         /\ Shift(key, 0) = key
BY DEF Shift, Keys, Clear

(* Another byte of the same packet *)
LEMMA SamePacket ==
  ASSUME NEW s \in Scripts, NEW p \in Peers, NEW pl \in Places, Unit(s, pl),
         NEW n \in Nat
  PROVE  LET other == Place(pl.no, pl.phase, pl.k, n, pl.key, pl.sent)
         IN /\ other \in Places /\ Unit(s, other) /\ other.part = n
            /\ PacketAt(s, other) = PacketAt(s, pl)
            /\ MessageAt(s, other) = MessageAt(s, pl)
            /\ Size(s, other) = Size(s, pl)
            /\ Beyond(s, p, other) = Beyond(s, p, pl)
            /\ SentBy(s, p, other) = SentBy(s, p, pl)
            /\ other.no = pl.no /\ other.phase = pl.phase /\ other.k = pl.k
            /\ other.key = pl.key /\ other.sent = pl.sent
<1> DEFINE other == Place(pl.no, pl.phase, pl.k, n, pl.key, pl.sent)
<1>1. /\ other.no = pl.no /\ other.phase = pl.phase /\ other.k = pl.k
      /\ other.key = pl.key /\ other.sent = pl.sent /\ other.part = n
      /\ other \in Places
  BY DEF Place, Places
<1> HIDE DEF other
<1>2. PacketAt(s, other) = PacketAt(s, pl)
        /\ MessageAt(s, other) = MessageAt(s, pl)
      /\ Unit(s, other) /\ SentBy(s, p, other) = SentBy(s, p, pl)
  BY <1>1 DEF PacketAt, MessageAt, Unit, SentBy
<1>3. Size(s, other) = Size(s, pl)
  BY <1>2 DEF Size
<1>4. Beyond(s, p, other) = Beyond(s, p, pl)
  BY <1>1, <1>3 DEF Beyond
<1> QED BY <1>1, <1>2, <1>3, <1>4 DEF other

(* What follows a place of a packet *)
LEMMA ThenInside ==
  ASSUME NEW s \in Scripts, NEW p \in Peers, NEW pl \in Places, Unit(s, pl),
         NEW i \in Nat, pl.part + i <= Size(s, pl)
  PROVE  Then(s, p, Inside(s, p, pl, i)) = Inside(s, p, pl, i + 1)
<1> DEFINE other == Place(pl.no, pl.phase, pl.k, pl.part + i, pl.key, pl.sent)
<1>1. pl.part \in Nat /\ pl.part + i \in Nat /\ Size(s, pl) \in Nat
  BY UnitIs DEF Places
<1>2. /\ Unit(s, other) /\ other.part = pl.part + i
      /\ Size(s, other) = Size(s, pl)
      /\ Beyond(s, p, other) = Beyond(s, p, pl)
      /\ other.no = pl.no /\ other.phase = pl.phase /\ other.k = pl.k
      /\ other.key = pl.key /\ other.sent = pl.sent
  BY <1>1, SamePacket
<1>3. Inside(s, p, pl, i) = other
  BY DEF Inside
<1> HIDE DEF other
<1>4. ~IsStream(s, other.no)
  BY <1>2, UnitIs
<1>5. CASE pl.part + i < Size(s, pl)
  <2>1. pl.part + (i + 1) <= Size(s, pl)
          /\ (pl.part + i) + 1 = pl.part + (i + 1)
    BY <1>1, <1>5
  <2>2. Then(s, p, other) =
          Place(pl.no, pl.phase, pl.k, (pl.part + i) + 1, pl.key, pl.sent)
    BY <1>2, <1>4, <1>5 DEF Then
  <2> QED BY <1>3, <2>1, <2>2 DEF Inside
<1>6. CASE pl.part + i = Size(s, pl)
  <2>1. ~ (pl.part + (i + 1) <= Size(s, pl)) /\ ~ (pl.part + i < Size(s, pl))
    BY <1>1, <1>6
  <2>2. Then(s, p, other) = Beyond(s, p, pl)
    BY <1>2, <1>4, <2>1 DEF Then
  <2> QED BY <1>3, <2>1, <2>2 DEF Inside
<1> QED BY <1>1, <1>5, <1>6

LEMMA InsideStart ==
  ASSUME NEW s \in Scripts, NEW p \in Peers, NEW pl \in Places,
         pl.part <= Size(s, pl)
  PROVE  Inside(s, p, pl, 0) = pl
<1>1. pl.part + 0 = pl.part
  BY DEF Places
<1> QED BY <1>1 DEF Inside, Place, Places

(* The bytes of a packet come in order: a chain that starts at a place of  *)
(* a packet goes on with the bytes of this packet.                         *)
LEMMA Along ==
  ASSUME NEW s \in Scripts, NEW p \in Peers, NEW bg, NEW a \in Places, NEW b,
         NEW w \in Seq(Byte), Unit(s, a), a.part <= Size(s, a),
         a.part + Len(w) <= Size(s, a) + 1, Chain(s, p, bg, a, w, b)
  PROVE  /\ b = Inside(s, p, a, Len(w))
         /\ \A i \in 1 .. Len(w) :
              w[i] = [pkt |-> PacketAt(s, a), part |-> a.part + i - 1,
                      key |-> Shift(a.key, a.part + i - 2)]
<1> DEFINE n == Len(w)
<1>1. PICK run : /\ run[0] = a /\ run[n] = b
                 /\ \A i \in 1 .. n : /\ Is(s, p, bg, run[i - 1], w[i])
                                      /\ run[i] = Then(s, p, run[i - 1])
  BY DEF Chain
<1>2. n \in Nat /\ a.part \in Nat /\ Size(s, a) \in Nat
  BY UnitIs DEF Places
<1>3. a.part + n <= Size(s, a) + 1
  OBVIOUS
<1> HIDE DEF n
<1>4. \A i \in 0 .. n : run[i] = Inside(s, p, a, i)
  <2> DEFINE T == {i \in 0 .. n : run[i] # Inside(s, p, a, i)}
  <2> SUFFICES ASSUME T # {} PROVE FALSE
    OBVIOUS
  <2>1. T \in SUBSET Nat
    OBVIOUS
  <2>2. PICK i \in T : \A m \in T : i <= m
    BY <2>1, NatMin
  <2>3. i \in 0 .. n /\ run[i] # Inside(s, p, a, i)
    OBVIOUS
  <2>4. i # 0
    BY <1>1, <2>3, InsideStart
  <2>5. i - 1 \in 0 .. n /\ i - 1 < i /\ i \in 1 .. n /\ i - 1 \in Nat
        /\ a.part + (i - 1) <= Size(s, a) /\ (i - 1) + 1 = i
    BY <1>3, <1>2, <2>3, <2>4
  <2>6. run[i - 1] = Inside(s, p, a, i - 1)
    BY <2>2, <2>5
  <2>7. Then(s, p, Inside(s, p, a, i - 1)) = Inside(s, p, a, (i - 1) + 1)
    BY <2>5, ThenInside
  <2> HIDE DEF T
  <2>8. run[i] = Inside(s, p, a, i)
    BY <1>1, <2>5, <2>6, <2>7
  <2> QED BY <2>3, <2>8
<1>5. ASSUME NEW i \in 1 .. n
      PROVE  w[i] = [pkt |-> PacketAt(s, a), part |-> a.part + i - 1,
                     key |-> Shift(a.key, a.part + i - 2)]
  <2>1. i - 1 \in 0 .. n /\ a.part + (i - 1) \in Nat
        /\ a.part + (i - 1) <= Size(s, a)
    BY <1>3, <1>2
  <2> DEFINE at_i == Place(a.no, a.phase, a.k, a.part + (i - 1), a.key, a.sent)
  <2>2. run[i - 1] = at_i
    BY <1>4, <2>1 DEF Inside
  <2>3. /\ Unit(s, at_i) /\ PacketAt(s, at_i) = PacketAt(s, a)
        /\ at_i.part = a.part + (i - 1) /\ at_i.key = a.key
    BY <2>1, SamePacket
  <2> HIDE DEF at_i
  <2>4. ~IsStream(s, at_i.no)
    BY <2>3, UnitIs
  <2>5. w[i] = [pkt |-> PacketAt(s, at_i), part |-> at_i.part,
                key |-> Shift(at_i.key, at_i.part - 1)]
    BY <1>1, <2>2, <2>4 DEF Is
  <2>6. a.part + (i - 1) = a.part + i - 1
          /\ a.part + (i - 1) - 1 = a.part + i - 2
    BY <1>2
  <2> DEFINE pk == PacketAt(s, at_i)
             pt == at_i.part
             ky == at_i.key
  <2>7. w[i] = [pkt |-> PacketAt(s, a), part |-> a.part + (i - 1),
                key |-> Shift(a.key, a.part + (i - 1) - 1)]
    <3>1. w[i] = [pkt |-> pk, part |-> pt, key |-> Shift(ky, pt - 1)]
      BY <2>5
    <3>2. pk = PacketAt(s, a) /\ pt = a.part + (i - 1) /\ ky = a.key
      BY <2>3
    <3> HIDE DEF pk, pt, ky
    <3>3. a.part \in Nat /\ i \in Nat /\ pt \in Nat
      BY <1>2, <3>2
    <3> QED BY ONLY <3>1, <3>2, <3>3
  <2> QED BY ONLY <2>6, <2>7
<1>6. b = Inside(s, p, a, n)
  BY <1>1, <1>2, <1>4
<1> QED BY <1>5, <1>6 DEF n

LEMMA PackedIs ==
  ASSUME NEW pkt \in Packet, NEW key \in Keys
  PROVE  /\ Packed(pkt, key) \in Seq(Byte) /\ Packed(pkt, key) # << >>
         /\ Len(pkt.data) \in Nat
         /\ Len(Packed(pkt, key)) = HeaderLen + Len(pkt.data)
         /\ \A i \in 1 .. HeaderLen + Len(pkt.data) :
              Packed(pkt, key)[i]
                = [pkt |-> pkt, part |-> i, key |-> Shift(key, i - 1)]
<1> DEFINE n == HeaderLen + Len(pkt.data)
           w == [i \in 1 .. n |-> [pkt |-> pkt, part |-> i, key |-> Shift(key,
           i - 1)]]
<1>1. pkt.data \in Seq(Datum)
  BY DEF Packet
<1>2. Len(pkt.data) \in Nat /\ n \in Nat /\ n > 0
  BY <1>1, Params
<1>3. Packed(pkt, key) = w
  <2>1. ASSUME NEW i \in 1 .. n
        PROVE  Shift(key, i - 1) = IF key = Clear THEN Clear ELSE key + i - 1
    BY <1>2 DEF Shift, Keys, Clear
  <2> QED BY <2>1 DEF Packed
<1> HIDE DEF n
<1>4. \A i \in 1 .. n : w[i] \in Byte
  <2> TAKE i \in 1 .. n
  <2>1. Shift(key, i - 1) \in Int /\ i \in Nat
    BY <1>2, Shifted
  <2> QED BY <2>1 DEF Byte
<1>5. w \in Seq(Byte) /\ Len(w) = n
  BY <1>2, <1>4, SeqDef, LenProperties
<1>6. \A i \in 1 .. n : w[i]
        = [pkt |-> pkt, part |-> i, key |-> Shift(key, i - 1)]
  OBVIOUS
<1> HIDE DEF w
<1>7. w # << >>
  BY <1>2, <1>5
<1> QED BY <1>2, <1>3, <1>5, <1>6, <1>7 DEF n

(* The bytes of a packet lead from its place to the next one's. *)
LEMMA ChainPacket ==
  ASSUME NEW s \in Scripts, NEW p \in Peers, NEW bg, NEW a \in Places,
         Unit(s, a), a.part = 1, SentBy(s, p, a), a.sent[p] < Len(bg),
         bg[a.sent[p] + 1] = MessageAt(s, a)
  PROVE  Chain(s, p, bg, a, Packed(PacketAt(s, a), a.key), Beyond(s, p, a))
<1> DEFINE w == Packed(PacketAt(s, a), a.key)
           n == Size(s, a)
           run == [i \in 0 .. n |-> Inside(s, p, a, i)]
<1>1. /\ n \in Nat /\ n > 0 /\ PacketAt(s, a) \in Packet /\ a.key \in Keys
      /\ a.part \in Nat /\ ~IsStream(s, a.no)
  BY UnitIs, Params DEF Places
<1>2. /\ Len(w) = n
      /\ \A i \in 1 .. n : w[i] = [pkt |-> PacketAt(s, a), part |-> i,
                                   key |-> Shift(a.key, i - 1)]
  BY <1>1, PackedIs DEF Size
<1>3. a.part <= Size(s, a)
  BY <1>1
<1>4. run[0] = a /\ run[n] = Beyond(s, p, a)
  <2>1. Inside(s, p, a, 0) = a
    BY <1>3, InsideStart
  <2>2. Inside(s, p, a, n) = Beyond(s, p, a)
    BY <1>1 DEF Inside
  <2> QED BY <1>1, <2>1, <2>2
<1>5. ASSUME NEW i \in 1 .. n
      PROVE  Is(s, p, bg, run[i - 1], w[i]) /\ run[i] = Then(s, p, run[i - 1])
  <2>1. i - 1 \in Nat /\ i - 1 \in 0 .. n /\ i \in 0 .. n /\ i \in Nat
          /\ (i - 1) + 1 = i
        /\ a.part + (i - 1) = i /\ a.part + (i - 1) <= n
    BY <1>1
  <2>2. run[i - 1] = Inside(s, p, a, i - 1) /\ run[i] = Inside(s, p, a, i)
    BY <2>1
  <2>3. run[i] = Then(s, p, run[i - 1])
    BY <2>1, <2>2, ThenInside
  <2> DEFINE here == Place(a.no, a.phase, a.k, i, a.key, a.sent)
  <2>4. run[i - 1] = here
    BY <2>1, <2>2 DEF Inside
  <2>5. /\ here \in Places /\ Unit(s, here) /\ here.part = i
        /\ PacketAt(s, here) = PacketAt(s, a)
        /\ MessageAt(s, here) = MessageAt(s, a)
        /\ SentBy(s, p, here) /\ here.key = a.key /\ here.sent = a.sent
    BY <2>1, SamePacket
  <2> HIDE DEF here, run, w, n
  <2>6. w[i] = [pkt |-> PacketAt(s, here), part |-> here.part,
                key |-> Shift(here.key, here.part - 1)]
    BY <1>2, <2>5
  <2>7. Is(s, p, bg, here, w[i])
    BY <2>5, <2>6 DEF Is
  <2> QED BY <2>3, <2>4, <2>7
<1> HIDE DEF run, w, n
<1>6. Chain(s, p, bg, a, w, Beyond(s, p, a))
  BY <1>2, <1>4, <1>5 DEF Chain
<1> QED BY <1>6 DEF w

LEMMA RawIs ==
  ASSUME NEW s \in Scripts, NEW n \in 1 .. Len(s)
  PROVE  /\ Raw(s[n]) \in Seq(Byte) /\ Len(Raw(s[n])) = Len(s[n].bufs)
         /\ \A i \in 1 .. Len(s[n].bufs) :
              /\ Raw(s[n])[i].pkt.flags = {"RAW"}
              /\ Raw(s[n])[i].pkt.data = s[n].bufs[i]
<1> DEFINE l == Len(s[n].bufs)
           w == [i \in 1 .. l |-> [pkt |-> [flags |-> {"RAW"}, data |->
             s[n].bufs[i]],
                                   part |-> 1, key |-> Clear]]
<1>1. l \in Nat /\ Raw(s[n]) = w
  BY Buffers DEF Raw
<1>2. \A i \in 1 .. l : s[n].bufs[i] \in Seq(Datum)
  BY Buffers
<1> HIDE DEF l
<1>3. \A i \in 1 .. l : w[i] \in Byte
  BY <1>2 DEF Byte, Packet, Clear
<1>4. w \in Seq(Byte) /\ Len(w) = l
  BY <1>1, <1>3, SeqDef, LenProperties
<1>5. \A i \in 1 .. l : /\ w[i].pkt.flags = {"RAW"}
                        /\ w[i].pkt.data = s[n].bufs[i]
  OBVIOUS
<1> HIDE DEF w
<1> QED BY <1>1, <1>4, <1>5 DEF l

(* The bytes of a stream, each a message *)
LEMMA ChainRaw ==
  ASSUME NEW s \in Scripts, NEW p \in Peers, NEW bg, NEW n \in 1 .. Len(s),
         s[n].as = "stream", s[n].from = p, NEW sent \in [Peers -> Nat],
         Len(bg) = sent[p] + Len(s[n].bufs),
         \A i \in 1 .. Len(s[n].bufs) : bg[sent[p] + i] = <<s[n].bufs[i]>>
  PROVE  Chain(s, p, bg, Place(n, "data", 1, 1, Clear, sent), Raw(s[n]),
               Place(n, "data", 1, 1, Clear, [sent EXCEPT ![p] = Len(bg)]))
<1> DEFINE l == Len(s[n].bufs)
           w == Raw(s[n])
           run == [i \in 0 .. l |->
                     Place(n, "data", 1, 1, Clear, [sent EXCEPT ![p] = @ + i])]
<1>1. l \in Nat /\ Len(w) = l /\ n \in Nat /\ sent[p] \in Nat
      /\ \A i \in 1 .. l : /\ w[i].pkt.flags = {"RAW"}
                           /\ w[i].pkt.data = s[n].bufs[i]
  <2>1. l \in Nat /\ n \in Nat
    BY Buffers, Scripted
  <2>2. Len(w) = l
        /\ \A i \in 1 .. l : /\ w[i].pkt.flags = {"RAW"}
                             /\ w[i].pkt.data = s[n].bufs[i]
    BY RawIs
  <2> QED BY <2>1, <2>2
<1>2. /\ run[0] = Place(n, "data", 1, 1, Clear, sent)
      /\ run[l] = Place(n, "data", 1, 1, Clear, [sent EXCEPT ![p] = Len(bg)])
  <2>1. [sent EXCEPT ![p] = @ + 0] = sent
    BY <1>1
  <2>2. [sent EXCEPT ![p] = @ + l] = [sent EXCEPT ![p] = Len(bg)]
    OBVIOUS
  <2>3. 0 \in 0 .. l /\ l \in 0 .. l
    BY <1>1
  <2> HIDE DEF l
  <2>4. run[0] = Place(n, "data", 1, 1, Clear, [sent EXCEPT ![p] = @ + 0])
    BY <2>3
  <2>5. run[l] = Place(n, "data", 1, 1, Clear, [sent EXCEPT ![p] = @ + l])
    BY <2>3
  <2> QED BY <2>1, <2>2, <2>4, <2>5
<1>3. IsStream(s, n)
  BY Scripted DEF IsStream
<1>4. ASSUME NEW i \in 1 .. l
      PROVE  Is(s, p, bg, run[i - 1], w[i]) /\ run[i] = Then(s, p, run[i - 1])
  <2>1. i - 1 \in 0 .. l /\ i \in 0 .. l /\ i - 1 \in Nat
    BY <1>1
  <2> DEFINE before == [sent EXCEPT ![p] = @ + (i - 1)]
             here == Place(n, "data", 1, 1, Clear, before)
  <2>2. run[i - 1] = here
    BY <2>1
  <2>3. /\ before \in [Peers -> Nat] /\ before[p] = sent[p] + (i - 1)
        /\ [before EXCEPT ![p] = @ + 1] = [sent EXCEPT ![p] = @ + i]
    BY <1>1, <2>1
  <2>4. before[p] < Len(bg) /\ before[p] + 1 = sent[p] + i
    BY <1>1, <2>1, <2>3
  <2>5. run[i] = Place(n, "data", 1, 1, Clear, [before EXCEPT ![p] = @ + 1])
    BY <2>1, <2>3
  <2>6. bg[before[p] + 1] = <<w[i].pkt.data>>
    BY <1>1, <2>4
  <2> HIDE DEF before, run, w, l
  <2>7. /\ here \in Places /\ here.no = n /\ here.sent = before
    BY <1>1, <2>3 DEF Place, Places, Keys
  <2>8. Then(s, p, here)
          = Place(n, "data", 1, 1, Clear, [before EXCEPT ![p] = @ + 1])
    BY <1>3, <2>7 DEF Then
  <2>9. Is(s, p, bg, here, w[i])
    BY <1>1, <1>3, <2>4, <2>6, <2>7 DEF Is
  <2> QED BY <2>2, <2>5, <2>8, <2>9
<1> HIDE DEF run, w, l
<1>5. Chain(s, p, bg, Place(n, "data", 1, 1, Clear, sent), w,
            Place(n, "data", 1, 1, Clear, [sent EXCEPT ![p] = Len(bg)]))
  BY <1>1, <1>2, <1>4 DEF Chain
<1> QED BY <1>5 DEF w

(***************************************************************************)
(* The initial states                                                      *)
(***************************************************************************)
LEMMA IdleIs ==
  /\ Idle \in Call /\ Idle.op = "none" /\ Idle.acc = << >> /\ Idle.out = << >>
  /\ Idle.todo = << >> /\ ~Idle.inWrite /\ Idle.want = 0 /\ Idle.have = << >>
  /\ Idle.head = NoPacket /\ NoPacket \in Packet
  /\ [Idle EXCEPT !.op = "stream"] \in Call
  /\ [Idle EXCEPT !.op = "stream"].op = "stream"
  /\ [Idle EXCEPT !.op = "stream"].acc = << >>
  /\ [Idle EXCEPT !.op = "stream"].out = << >>
  /\ ~[Idle EXCEPT !.op = "stream"].inWrite
<1>1. \A S : << >> \in Seq(S)
  OBVIOUS
<1> QED BY <1>1 DEF Idle, Call, NoPacket, Packet

LEMMA NoBytes ==
  /\ << >> \in Seq(Byte) /\ Len(<< >>) = 0
  /\ \A w \in Seq(Byte) : << >> \o w = w /\ w \o << >> = w
<1>1. \A w \in Seq(Byte) : << >> \o w = w /\ w \o << >> = w
  BY ConcatEmptySeq
<1> QED BY <1>1

LEMMA InitIInv == Init => IInv
<1> SUFFICES ASSUME Init PROVE IInv
  OBVIOUS
<1>1. Len(script) \in Nat /\ 1 \in 1 .. Len(script) + 1
  BY Scripted DEF Init
<1>2. << >> \in Seq(Seq(Seq(Datum))) /\ Len(<< >>) = 0
  OBVIOUS
<1>3. Global
  <2>1. /\ wire \in [Peers -> Seq(Byte)]
        /\ \A x \in Peers : Len(wire[x]) <= Room
    BY NoBytes, Params DEF Init
  <2>2. call \in [Peers -> Call] /\ rc \in [Peers -> Codes]
    BY IdleIs DEF Init, Codes
  <2>3. /\ begun \in [Peers -> Seq(Seq(Seq(Datum)))]
        /\ got \in [Peers -> Seq(Seq(Seq(Datum)))]
    BY <1>2 DEF Init
  <2>4. /\ script \in Scripts /\ faults \in BOOLEAN
        /\ at \in [Peers -> 1 .. Len(script) + 1]
        /\ phase \in [Peers -> {"data", "confirm"}]
    BY <1>1 DEF Init
  <2>5. /\ open \in [Peers -> BOOLEAN] /\ cut \in [Peers -> BOOLEAN]
        /\ crypt \in [Peers -> BOOLEAN] /\ pos \in [Peers -> Nat]
    BY DEF Init
  <2> QED BY <2>1, <2>2, <2>3, <2>4, <2>5 DEF Global
<1>4. ASSUME NEW x \in Peers PROVE Local(x)
  <2>1. call[x] = Idle /\ phase[x] = "data"
    BY DEF Init
  <2> QED BY <2>1, IdleIs DEF Local, Sending, Receiving
<1>5. PICK p \in Peers : TRUE
  BY NetStreamAssumption
<1>6. Joined(p, Peer(p))
  <2> DEFINE q == Peer(p)
             zero == [y \in Peers |-> 0]
             a == Start(script, 1, zero)
  <2>1. q \in Peers
    BY Peering
  <2> HIDE DEF q
  <2>2. ASSUME NEW x \in Peers
        PROVE  /\ call[x] = Idle /\ Resting(x) = a /\ Counts(x) = zero
               /\ wire[x] = << >> /\ call[x].acc = << >> /\ call[x].out = << >>
    <3>1. Counts(x) = zero
      BY <1>2 DEF Counts, Init
    <3>2. Resting(x) = a
      BY <3>1 DEF Resting, Init
    <3> QED BY <3>1, <3>2, IdleIs DEF Init
  <2>3. zero \in [Peers -> Nat] /\ script \in Scripts
    BY DEF Init
  <2> HIDE DEF zero
  <2>4. a.sent = zero /\ a.part = 1
    BY <1>1, <2>3, StartPlace
  <2> HIDE DEF a
  <2>5. Between(p, q) = << >>
    BY <2>1, <2>2, NoBytes DEF Between
  <2>6. Stands(q, a) /\ Leads(p, a)
    BY <2>1, <2>2, <2>4 DEF Stands, Leads
  <2>7. Chain(script, p, begun[p], a, Between(p, q), a)
    BY <2>5, ChainEmpty
  <2> QED BY <2>6, <2>7 DEF Joined, q
<1>7. wire[p] = << >>
  BY DEF Init
<1> QED BY <1>3, <1>4, <1>6, <1>7 DEF IInv, Types, Wired

(***************************************************************************)
(* What a step leaves alone                                                *)
(***************************************************************************)
Same(r) ==
  /\ script' = script /\ call'[r] = call[r] /\ at'[r] = at[r]
  /\ phase'[r] = phase[r]
  /\ open'[r] = open[r] /\ rc'[r] = rc[r] /\ crypt'[r] = crypt[r]
  /\ pos'[r] = pos[r]
  /\ begun'[r] = begun[r] /\ got'[r] = got[r]

LEMMA SameStands ==
  ASSUME NEW r \in Peers, Same(r)
  PROVE  /\ Live(r)' <=> Live(r)
         /\ \A pl : /\ (Stands(r, pl)' <=> Stands(r, pl))
                    /\ (Leads(r, pl)' <=> Leads(r, pl))
<1>1. Live(r)' <=> Live(r)
  BY DEF Same, Live
<1>2. Key(r)' = Key(r) /\ Counts(r)' = Counts(r)
  BY DEF Same, Key, Counts
<1>3. Resting(r)' = Resting(r)
  BY <1>2 DEF Same, Resting
<1>4. ASSUME NEW pl PROVE Reads(r, pl)' <=> Reads(r, pl)
  BY <1>2 DEF Same, Reads
<1>5. ASSUME NEW pl PROVE Stands(r, pl)' <=> Stands(r, pl)
  BY <1>2, <1>3, <1>4 DEF Same, Stands
<1>6. ASSUME NEW pl PROVE Writes(r, pl)' <=> Writes(r, pl)
  BY <1>2 DEF Same, Writes
<1>7. ASSUME NEW pl PROVE Leads(r, pl)' <=> Leads(r, pl)
  BY <1>5, <1>6 DEF Same, Leads
<1> QED BY <1>1, <1>5, <1>7

LEMMA TypesFrame ==
  ASSUME Types, NEW x \in Peers, \A r \in Peers \ {x} : Same(r), Global',
         Local(x)'
  PROVE  Types'
<1>1. ASSUME NEW r \in Peers \ {x} PROVE Local(r)'
  <2>1. Same(r) /\ Local(r)
    BY DEF Types
  <2> QED BY <2>1 DEF Same, Local, Live
<1>2. \A r \in Peers : Local(r)'
  BY <1>1
<1> QED BY <1>2 DEF Types

LEMMA Lengths ==
  ASSUME Global
  PROVE  /\ Len(script) \in Nat
         /\ \A x \in Peers :
              /\ Len(begun[x]) \in Nat /\ Len(got[x]) \in Nat
              /\ Counts(x) \in [Peers -> Nat]
              /\ wire[x] \in Seq(Byte) /\ Len(wire[x]) \in Nat
              /\ call[x].acc \in Seq(Byte) /\ call[x].out \in Seq(Byte)
              /\ call[x].todo \in Seq(Packet) /\ Key(x) \in Keys
<1>1. Len(script) \in Nat
  BY Scripted DEF Global
<1>2. ASSUME NEW x \in Peers
      PROVE  Len(begun[x]) \in Nat /\ Len(got[x]) \in Nat
  <2>1. begun[x] \in Seq(Seq(Seq(Datum))) /\ got[x] \in Seq(Seq(Seq(Datum)))
    BY DEF Global
  <2> QED BY <2>1, LenProperties
<1>3. ASSUME NEW x \in Peers
      PROVE  Counts(x) \in [Peers -> Nat]
  BY <1>2 DEF Counts
<1>4. ASSUME NEW x \in Peers
      PROVE  /\ wire[x] \in Seq(Byte) /\ Len(wire[x]) \in Nat
             /\ call[x].acc \in Seq(Byte) /\ call[x].out \in Seq(Byte)
             /\ call[x].todo \in Seq(Packet) /\ Key(x) \in Keys
  <2>1. wire[x] \in Seq(Byte) /\ call[x] \in Call
    BY DEF Global
  <2>2. Key(x) \in Keys
    BY DEF Global, Key, Keys
  <2> QED BY <2>1, <2>2, LenProperties DEF Call
<1> QED BY <1>1, <1>2, <1>3, <1>4

(* A call returns. *)
LEMMA ReturnKept ==
  ASSUME Types, NEW x \in Peers, call[x].op # "none", NEW code \in Codes,
         Return(x, code), script' = script, open' = open
  PROVE  /\ at' \in [Peers -> 1 .. Len(script) + 1]
         /\ phase' \in [Peers -> {"data", "confirm"}]
         /\ call' \in [Peers -> Call] /\ rc' \in [Peers -> Codes]
         /\ call'[x] = Idle /\ rc'[x] = code /\ Local(x)'
         /\ \A r \in Peers \ {x} : /\ call'[r] = call[r] /\ at'[r] = at[r]
                                   /\ phase'[r] = phase[r] /\ rc'[r] = rc[r]
<1> USE DEF Types
<1>1. call' = [call EXCEPT ![x] = Idle] /\ rc' = [rc EXCEPT ![x] = code]
  BY DEF Return
<1>2. /\ call' \in [Peers -> Call] /\ rc' \in [Peers -> Codes]
      /\ call'[x] = Idle /\ rc'[x] = code
      /\ \A r \in Peers \ {x} : call'[r] = call[r] /\ rc'[r] = rc[r]
  BY <1>1, IdleIs DEF Global
<1>3. /\ Live(x) /\ at[x] <= Len(script) /\ script[at[x]].bufs # << >>
      /\ Len(script) \in Nat /\ at[x] \in 1 .. Len(script) + 1
  BY Lengths DEF Local, Global
<1>4. /\ at' \in [Peers -> 1 .. Len(script) + 1]
      /\ phase' \in [Peers -> {"data", "confirm"}]
      /\ \A r \in Peers \ {x} : at'[r] = at[r] /\ phase'[r] = phase[r]
      /\ phase'[x] = "confirm" =>
           /\ at'[x] <= Len(script) /\ script[at'[x]].bufs # << >>
           /\ script[at'[x]].confirm # "none"
  <2>1. CASE UNCHANGED <<at, phase>>
    BY <1>3, <2>1 DEF Global, Local
  <2>2. CASE /\ phase' = [phase EXCEPT ![x] = "confirm"]
             /\ at' = [at EXCEPT ![x] = at[x]]
             /\ Exchange(x).confirm # "none"
    BY <1>3, <2>2 DEF Global, Exchange
  <2>3. CASE /\ phase' = [phase EXCEPT ![x] = "data"]
             /\ at' = [at EXCEPT ![x] = at[x] + 1]
    <3>1. at[x] + 1 \in 1 .. Len(script) + 1
      BY <1>3
    <3> QED BY <2>3, <3>1 DEF Global
  <2> QED BY <2>1, <2>2, <2>3 DEF Return
<1>5. Local(x)'
  BY <1>2, <1>4, IdleIs DEF Local, Sending, Receiving
<1> QED BY <1>2, <1>4, <1>5

(***************************************************************************)
(* Three kinds of steps                                                    *)
(***************************************************************************)

(* A call fails, whatever has become of what it reads. *)
LEMMA Breaks ==
  ASSUME IInv, NEW x \in Peers, call[x].op # "none", NEW code \in Codes,
         code # "OK",
         Return(x, code),
         UNCHANGED <<script, faults, open, crypt, begun, got>>,
         cut' \in [Peers -> BOOLEAN], pos' \in [Peers -> Nat],
         wire' \in [Peers -> Seq(Byte)],
         \A r \in Peers : Len(wire'[r]) <= Room,
         \A r \in Peers \ {x} : pos'[r] = pos[r] /\ wire'[r] = wire[r],
         wire[x] = << >> => wire'[x] = << >>
  PROVE  IInv'
<1>1. Types /\ Global
  BY DEF IInv, Types
<1>2. /\ at' \in [Peers -> 1 .. Len(script) + 1]
      /\ phase' \in [Peers -> {"data", "confirm"}]
      /\ call' \in [Peers -> Call] /\ rc' \in [Peers -> Codes]
      /\ call'[x] = Idle /\ rc'[x] = code /\ Local(x)'
      /\ \A r \in Peers \ {x} : /\ call'[r] = call[r] /\ at'[r] = at[r]
                                /\ phase'[r] = phase[r] /\ rc'[r] = rc[r]
  BY <1>1, ReturnKept
<1>3. Global'
  BY <1>1, <1>2 DEF Global
<1>4. \A r \in Peers \ {x} : Same(r)
  BY <1>2 DEF Same
<1>5. Types'
  BY <1>1, <1>2, <1>3, <1>4, TypesFrame
<1>6. ~Live(x)'
  BY <1>2 DEF Live
<1>7. PICK p \in Peers : wire[p] = << >>
        /\ (Live(Peer(p)) => Joined(p, Peer(p)))
  BY DEF IInv, Wired
<1> DEFINE q == Peer(p)
<1>8. q \in Peers /\ q # p /\ \A r \in Peers : r = p \/ r = q
  BY Peering
<1>9. wire'[p] = << >>
  BY <1>7
<1>10. Live(q)' => Joined(p, q)'
  <2> SUFFICES ASSUME Live(q)' PROVE Joined(p, q)'
    OBVIOUS
  <2>1. x # q /\ x = p /\ Same(q)
    BY <1>4, <1>6, <1>8
  <2> HIDE DEF q
  <2>2. Live(q) /\ wire'[q] = wire[q] /\ call'[q] = call[q]
    BY <1>8, <2>1, SameStands DEF Same
  <2>3. Joined(p, q)
    BY <1>7, <2>2 DEF q
  <2>4. PICK a, b : Stands(q, a)
          /\ Chain(script, p, begun[p], a, Between(p, q), b)
    BY <2>3 DEF Joined
  <2>5. /\ call[q].acc \in Seq(Byte) /\ wire[q] \in Seq(Byte)
        /\ call[p].out \in Seq(Byte)
        /\ call[q].acc \o wire[q] \in Seq(Byte)
    BY <1>1, <1>8, Lengths, ConcatProperties
  <2>6. PICK c : Chain(script, p, begun[p], a, call[q].acc \o wire[q], c)
    BY <2>4, <2>5, ChainSplit DEF Between
  <2>7. Between(p, q)' = call[q].acc \o wire[q]
    BY <1>2, <2>1, <2>2, <2>5, IdleIs, NoBytes DEF Between
  <2>8. Stands(q, a)'
    BY <1>8, <2>1, <2>4, SameStands
  <2>9. ~Live(p)'
    BY <1>6, <2>1
  <2>10. Chain(script, p, begun[p], a, Between(p, q), c)'
    BY <2>6, <2>7
  <2> QED BY <2>8, <2>9, <2>10 DEF Joined
<1> QED BY <1>5, <1>8, <1>9, <1>10 DEF IInv, Wired

(* A peer that waits goes on without a byte. *)
LEMMA Moves ==
  ASSUME IInv, NEW x \in Peers, call[x] = Idle, \A r \in Peers \ {x} : Same(r),
         Types', UNCHANGED <<script, wire, begun>>, Live(x)' = Live(x),
         call'[x].acc = << >>, call'[x].out = << >>,
         \A pl : Stands(x, pl) /\ pl = Resting(x) => Stands(x, pl)'
  PROVE  IInv'
<1>1. Types /\ Global
  BY DEF IInv, Types
<1>2. PICK p \in Peers : wire[p] = << >>
        /\ (Live(Peer(p)) => Joined(p, Peer(p)))
  BY DEF IInv, Wired
<1> DEFINE q == Peer(p)
<1>3. q \in Peers /\ q # p /\ \A r \in Peers : r = p \/ r = q
  BY Peering
<1>4. \A pl : Stands(x, pl) => Stands(x, pl)'
  BY IdleIs DEF Stands, Reads
<1>5. \A pl : Leads(x, pl) => Leads(x, pl)'
  <2> TAKE pl
  <2>1. ~Writes(x, pl)
    BY IdleIs DEF Writes
  <2> QED BY <1>4, <2>1 DEF Leads
<1>6. \A r \in Peers : /\ Live(r)' = Live(r)
                       /\ \A pl : Stands(r, pl) => Stands(r, pl)'
                       /\ \A pl : Leads(r, pl) => Leads(r, pl)'
  BY <1>4, <1>5, SameStands DEF Live
<1>7. \A r \in Peers : call'[r].acc = call[r].acc /\ call'[r].out = call[r].out
  BY IdleIs DEF Same
<1>8. Live(q)' => Joined(p, q)'
  <2> SUFFICES ASSUME Live(q)' PROVE Joined(p, q)'
    OBVIOUS
  <2>1. Joined(p, q)
    BY <1>2, <1>3, <1>6
  <2> HIDE DEF q
  <2>2. PICK a, b : /\ Stands(q, a)
                    /\ Chain(script, p, begun[p], a, Between(p, q), b)
                    /\ Live(p) => Leads(p, b)
    BY <2>1 DEF Joined
  <2>3. Between(p, q)' = Between(p, q)
    BY <1>3, <1>7 DEF Between
  <2>4. Chain(script, p, begun[p], a, Between(p, q), b)'
    BY <2>2, <2>3
  <2>5. Live(p)' => Leads(p, b)'
    BY <1>6, <2>2
  <2>6. Stands(q, a)'
    BY <1>3, <1>6, <2>2
  <2> QED BY <2>4, <2>5, <2>6 DEF Joined
<1>9. wire'[p] = << >>
  BY <1>2
<1> QED BY <1>8, <1>9 DEF IInv, Wired

(* A peer begins to send, at its place, and nothing is under way to it. *)
LEMMA Starts ==
  ASSUME IInv, NEW x \in Peers, call[x] = Idle, Live(x), Live(x)',
         \A r \in Peers \ {x} : Same(r), Types', UNCHANGED <<script, wire>>,
         Len(begun[x]) <= Len(begun'[x]),
         \A i \in 1 .. Len(begun[x]) : begun'[x][i] = begun[x][i],
         call'[x].acc = << >>,
         NEW b, Chain(script, x, begun'[x], Resting(x), call'[x].out, b),
         Leads(x, b)',
         \A bg, y : ~Is(script, Peer(x), bg, Resting(x), y)
  PROVE  IInv'
<1>1. Types /\ Global /\ Global'
  BY DEF IInv, Types
<1>2. PICK p \in Peers : wire[p] = << >>
        /\ (Live(Peer(p)) => Joined(p, Peer(p)))
  BY DEF IInv, Wired
<1> DEFINE q == Peer(p)
<1>3. q \in Peers /\ q # p /\ Peer(q) = p /\ \A r \in Peers : r = p \/ r = q
  BY Peering
<1>4. \A pl : Stands(x, pl) => pl = Resting(x)
  BY IdleIs DEF Stands, Reads
<1>5. \A pl : Leads(x, pl) => pl = Resting(x)
  <2> TAKE pl
  <2>1. ~Writes(x, pl)
    BY IdleIs DEF Writes
  <2> QED BY <1>4, <2>1 DEF Leads
<1>6. /\ \A r \in Peers : /\ call[r].acc \in Seq(Byte) /\ wire[r] \in Seq(Byte)
                          /\ call[r].out \in Seq(Byte)
                          /\ call[r].acc \o wire[r] \in Seq(Byte)
      /\ call'[x].out \in Seq(Byte)
  <2>1. \A r \in Peers : /\ call[r].acc \in Seq(Byte) /\ wire[r] \in Seq(Byte)
                         /\ call[r].out \in Seq(Byte)
    BY <1>1, Lengths
  <2>2. call'[x] \in Call
    BY <1>1 DEF Global
  <2> QED BY <2>1, <2>2, ConcatProperties DEF Call
<1>7. CASE x = p
  <2> SUFFICES ASSUME Live(q)' PROVE Joined(p, q)'
    BY <1>2, <1>3, <1>7 DEF IInv, Wired
  <2>1. Same(q)
    BY <1>3, <1>7
  <2>2. Joined(p, q)
    BY <1>2, <1>3, <2>1, SameStands
  <2> HIDE DEF q
  <2>3. PICK a, c : /\ Stands(q, a)
                    /\ Chain(script, p, begun[p], a, Between(p, q), c)
                    /\ Leads(p, c)
    BY <1>7, <2>2 DEF Joined
  <2>4. c = Resting(x)
    BY <1>5, <1>7, <2>3
  <2>5. Between(p, q) = call[q].acc \o wire[q]
    <3>1. call[p].out = << >>
      BY <1>7, IdleIs
    <3>2. call[q].acc \o wire[q] \in Seq(Byte)
      BY <1>3, <1>6
    <3> QED BY <3>1, <3>2, NoBytes DEF Between
  <2>6. Chain(script, x, begun'[x], a, call[q].acc \o wire[q], c)
    <3>1. Len(begun[x]) \in Nat /\ Len(begun'[x]) \in Nat
      <4>1. begun[x] \in Seq(Seq(Seq(Datum)))
              /\ begun'[x] \in Seq(Seq(Seq(Datum)))
        BY <1>1 DEF Global
      <4> QED BY <4>1, LenProperties
    <3>2. Chain(script, x, begun[x], a, call[q].acc \o wire[q], c)
      BY <1>7, <2>3, <2>5
    <3>3. call[q].acc \o wire[q] \in Seq(Byte)
      BY <1>3, <1>6
    <3> QED BY <3>1, <3>2, <3>3, ChainBegun
  <2>7. Chain(script, x, begun'[x], a, (call[q].acc \o wire[q]) \o
          call'[x].out, b)
    BY <1>3, <1>6, <2>4, <2>6, ChainJoin
  <2>8. Between(p, q)' = (call[q].acc \o wire[q]) \o call'[x].out
    BY <1>7, <2>1 DEF Between, Same
  <2>9. Chain(script, p, begun[p], a, Between(p, q), b)'
    BY <1>7, <2>7, <2>8
  <2>10. Stands(q, a)'
    BY <1>3, <2>1, <2>3, SameStands
  <2>11. Leads(p, b)'
    BY <1>7
  <2> QED BY <2>9, <2>10, <2>11 DEF Joined
<1>8. CASE x = q
  <2>1. Same(p) /\ Joined(p, q)
    BY <1>2, <1>3, <1>8
  <2> HIDE DEF q
  <2>2. PICK a, c : /\ Stands(q, a)
                    /\ Chain(script, p, begun[p], a, Between(p, q), c)
                    /\ Live(p) => Leads(p, c)
    BY <2>1 DEF Joined
  <2>3. a = Resting(x)
    BY <1>4, <1>8, <2>2
  <2>4. Between(p, q) = wire[q] \o call[p].out
    BY <1>3, <1>6, <1>8, IdleIs, NoBytes DEF Between
  <2>5. wire[q] \o call[p].out \in Seq(Byte)
    BY <1>3, <1>6, ConcatProperties
  <2>6. wire[q] \o call[p].out = << >>
    <3> SUFFICES ASSUME wire[q] \o call[p].out # << >> PROVE FALSE
      OBVIOUS
    <3> DEFINE w == wire[q] \o call[p].out
    <3>1. Is(script, p, begun[p], a, w[1])
      BY <2>2, <2>4, <2>5, ChainFirst
    <3> HIDE DEF w
    <3> QED BY <1>3, <1>8, <2>3, <3>1 DEF q
  <2>7. wire[q] = << >> /\ call[p].out = << >>
    BY <1>3, <1>6, <2>6, ConcatEqualIffEmpty
  <2>8. c = a
    <3>1. Chain(script, p, begun[p], a, << >>, c)
      BY <2>2, <2>4, <2>6
    <3> QED BY <3>1, ChainEmpty
  <2>9. wire'[q] = << >> /\ wire'[p] = << >>
    BY <1>2, <2>7
  <2>10. Live(p)' => Joined(q, p)'
    <3> SUFFICES ASSUME Live(p)' PROVE Joined(q, p)'
      OBVIOUS
    <3>1. Live(p)
      BY <2>1, SameStands
    <3>2. Leads(p, a)
      BY <2>2, <2>8, <3>1
    <3>3. Stands(p, a) /\ call[p].acc = << >>
      <4>1. Local(p)
        BY <1>1 DEF Types
      <4>2. ~Writes(p, a)
        BY <2>7, <4>1 DEF Local, Writes, Sending
      <4> QED BY <3>2, <4>2 DEF Leads
    <3>4. Stands(p, a)'
      BY <2>1, <3>3, SameStands
    <3>5. Between(q, p)' = call'[x].out
      BY <1>6, <1>8, <2>1, <2>9, <3>3, NoBytes DEF Between, Same
    <3>6. Chain(script, q, begun[q], a, Between(q, p), b)'
      BY <1>8, <2>3, <3>5
    <3> QED BY <1>8, <3>4, <3>6 DEF Joined
  <2> QED BY <1>3, <2>9, <2>10 DEF IInv, Wired, q
<1> QED BY <1>3, <1>7, <1>8

(***************************************************************************)
(* Steps without a byte                                                    *)
(***************************************************************************)
LEMMA FailKept ==
  ASSUME IInv, NEW x \in Peers, call[x].op # "none", NEW code \in Codes,
         code # "OK",
         Fail(x, code)
  PROVE  IInv'
<1>1. Return(x, code)
        /\ UNCHANGED <<script, faults, open, cut, wire, crypt, pos, begun,
           got>>
  BY DEF Fail
<1>2. /\ cut' \in [Peers -> BOOLEAN] /\ pos' \in [Peers -> Nat]
      /\ wire' \in [Peers -> Seq(Byte)]
      /\ \A r \in Peers : Len(wire'[r]) <= Room
  BY <1>1 DEF IInv, Types, Global
<1> QED BY <1>1, <1>2, Breaks

LEMMA MayCallIs ==
  ASSUME Types, NEW x \in Peers, MayCall(x)
  PROVE  /\ Live(x) /\ call[x] = Idle /\ at[x] \in 1 .. Len(script)
         /\ script \in Scripts /\ Len(script) \in Nat
         /\ Counts(x) \in [Peers -> Nat]
         /\ Exchange(x) = script[at[x]] /\ Exchange(x).crypt \in BOOLEAN
         /\ phase[x] \in {"data", "confirm"}
         /\ phase[x] = "confirm" =>
              script[at[x]].bufs # << >> /\ script[at[x]].confirm # "none"
<1>1. Global /\ Local(x)
  BY DEF Types
<1>2. Len(script) \in Nat /\ at[x] \in 1 .. Len(script) + 1
        /\ at[x] <= Len(script)
  BY <1>1, Lengths DEF Global, MayCall
<1>3. at[x] \in 1 .. Len(script)
  BY <1>2
<1>4. script[at[x]].crypt \in BOOLEAN
  BY <1>1, <1>3, Scripted DEF Global
<1> QED BY <1>1, <1>2, <1>3, <1>4, Lengths DEF MayCall, Local, Live, Global,
           Exchange

LEMMA RecvKept ==
  ASSUME IInv, NEW x \in Peers, Recv(x)
  PROVE  IInv'
<1> DEFINE e == script[at[x]]
           c == [Idle EXCEPT !.op = IF phase[x] = "data" THEN "recv" ELSE
             "recvConfirm",
                             !.want = HeaderLen]
<1>1. Types /\ Global /\ Local(x)
  BY DEF IInv, Types
<1>2. /\ Live(x) /\ call[x] = Idle /\ at[x] \in 1 .. Len(script)
      /\ script \in Scripts /\ Len(script) \in Nat
      /\ Exchange(x) = e /\ e.crypt \in BOOLEAN
      /\ phase[x] \in {"data", "confirm"}
      /\ phase[x] = "confirm" => e.bufs # << >> /\ e.confirm # "none"
  BY <1>1, MayCallIs DEF Recv
<1>3. /\ e.as # "stream" /\ e.bufs # << >>
      /\ (phase[x] = "data") = (e.from # x)
      /\ call' = [call EXCEPT ![x] = c]
      /\ UNCHANGED <<script, faults, at, phase, begun, got, open, cut, wire,
         rc>>
      /\ pos' = [pos EXCEPT ![x] = IF phase[x] = "data" THEN Reset(x) ELSE @]
      /\ crypt' = IF phase[x] = "data" THEN [crypt EXCEPT ![x] = e.crypt]
         ELSE crypt
  BY <1>2 DEF Recv, SetCipher, avars
<1>4. /\ c \in Call /\ c.op \in Receiving /\ c.want = HeaderLen /\ ~c.inWrite
      /\ c.acc = << >> /\ c.out = << >> /\ c.head = NoPacket /\ c.have = << >>
      /\ c.op = (IF phase[x] = "data" THEN "recv" ELSE "recvConfirm")
  BY IdleIs, Params DEF Call, Receiving
<1> HIDE DEF c, e
<1>5. crypt' \in [Peers -> BOOLEAN] /\ pos' \in [Peers -> Nat]
      /\ \A r \in Peers \ {x} : crypt'[r] = crypt[r] /\ pos'[r] = pos[r]
  BY <1>1, <1>2, <1>3 DEF Global, Reset
<1>6. call' \in [Peers -> Call] /\ call'[x] = c
        /\ \A r \in Peers \ {x} : call'[r] = call[r]
  BY <1>1, <1>3, <1>4 DEF Global
<1>7. Global'
  BY <1>1, <1>3, <1>5, <1>6 DEF Global
<1>8. Local(x)'
  BY <1>1, <1>2, <1>3, <1>4, <1>6, Params DEF Local, Receiving, Sending, Live,
     e
<1>9. \A r \in Peers \ {x} : Same(r)
  BY <1>3, <1>5, <1>6 DEF Same
<1>10. Types'
  BY <1>1, <1>7, <1>8, <1>9, TypesFrame
<1>11. ASSUME NEW pl, Stands(x, pl), pl = Resting(x)
       PROVE  Stands(x, pl)'
  <2> DEFINE sent == Counts(x)
             key == IF phase[x] = "data" THEN IF e.crypt THEN 0 ELSE Clear
               ELSE Key(x)
  <2>1. pl = Place(at[x], phase[x], 1, 1, key, sent)
    <3>1. CASE phase[x] = "data"
      <4>1. Start(script, at[x], sent) = Place(at[x], "data", 1, 1, key, sent)
        BY <1>2, <1>3, <3>1, StartHere DEF e
      <4> QED BY <1>11, <3>1, <4>1 DEF Resting
    <3>2. CASE phase[x] = "confirm"
      BY <1>11, <3>2 DEF Resting
    <3> QED BY <1>2, <3>1, <3>2
  <2>2. Key(x)' = key
    <3>1. CASE phase[x] = "data"
      <4>1. crypt'[x] = e.crypt /\ (e.crypt => pos'[x] = 0)
        BY <1>1, <1>2, <1>3, <3>1 DEF Global, Reset
      <4> QED BY <3>1, <4>1 DEF Key
    <3>2. CASE phase[x] = "confirm"
      <4>1. crypt'[x] = crypt[x] /\ pos'[x] = pos[x]
        BY <1>1, <1>3, <3>2 DEF Global
      <4> QED BY <3>2, <4>1 DEF Key
    <3> QED BY <1>2, <3>1, <3>2
  <2>3. Counts(x)' = sent
    BY <1>3 DEF Counts
  <2> HIDE DEF key, sent
  <2>4. /\ pl.no = at[x] /\ pl.phase = phase[x] /\ pl.k = 1 /\ pl.part = 1
        /\ pl.key = key /\ pl.sent = sent
    BY <2>1 DEF Place
  <2>5. Unit(script, pl)
    <3>1. at[x] \in DOMAIN script /\ 1 \in DOMAIN e.bufs
      BY <1>2, <1>3, Scripted, Buffers, EmptySeq DEF e
    <3> QED BY <1>2, <1>3, <2>4, <3>1 DEF Unit, e
  <2>6. c.want + Len(c.acc) = HeaderLen
    BY <1>4, Params
  <2>7. SubSeq(e.bufs, 1, pl.k - 1) = << >>
    BY <2>4, SubSeqEmpty
  <2>8. Reads(x, pl)'
    BY <1>3, <1>4, <1>6, <2>2, <2>4, <2>5, <2>6, <2>7 DEF Reads, e
  <2> QED BY <2>3, <2>4, <2>8 DEF Stands
<1>12. Live(x)' = Live(x) /\ call'[x].acc = << >> /\ call'[x].out = << >>
  BY <1>3, <1>4, <1>6 DEF Live
<1> QED BY <1>2, <1>3, <1>9, <1>10, <1>11, <1>12, Moves

LEMMA RecvStreamKept ==
  ASSUME IInv, NEW x \in Peers, RecvStream(x)
  PROVE  IInv'
<1> DEFINE c == [Idle EXCEPT !.op = "stream"]
<1>1. Types /\ Global /\ Local(x)
  BY DEF IInv, Types
<1>2. /\ Live(x) /\ call[x] = Idle /\ at[x] \in 1 .. Len(script)
      /\ script \in Scripts /\ Len(script) \in Nat
      /\ Exchange(x) = script[at[x]] /\ phase[x] \in {"data", "confirm"}
      /\ phase[x] = "confirm" => script[at[x]].confirm # "none"
  BY <1>1, MayCallIs DEF RecvStream
<1>3. /\ script[at[x]].as = "stream" /\ call' = [call EXCEPT ![x] = c]
      /\ UNCHANGED <<script, faults, at, phase, begun, got, open, cut, wire,
         crypt, pos, rc>>
  BY <1>2 DEF RecvStream, avars
<1>4. c \in Call /\ c.op = "stream" /\ c.acc = << >> /\ c.out = << >>
        /\ ~c.inWrite
  BY IdleIs
<1> HIDE DEF c
<1>5. call' \in [Peers -> Call] /\ call'[x] = c
        /\ \A r \in Peers \ {x} : call'[r] = call[r]
  BY <1>1, <1>3, <1>4 DEF Global
<1>6. Global'
  BY <1>1, <1>3, <1>5 DEF Global
<1>7. script[at[x]].bufs # << >> /\ phase[x] = "data"
        /\ at[x] \in DOMAIN script
  BY <1>2, <1>3, Scripted
<1>8. Local(x)'
  BY <1>1, <1>2, <1>3, <1>4, <1>5, <1>7 DEF Local, Receiving, Sending, Live
<1>9. \A r \in Peers \ {x} : Same(r)
  BY <1>3, <1>5 DEF Same
<1>10. Types'
  BY <1>1, <1>6, <1>8, <1>9, TypesFrame
<1>11. ASSUME NEW pl, Stands(x, pl), pl = Resting(x)
       PROVE  Stands(x, pl)'
  <2>1. pl = Place(at[x], "data", 1, 1, Clear, Counts(x))
    BY <1>2, <1>3, <1>7, <1>11, StartStream DEF Resting
  <2>2. Counts(x)' = Counts(x) /\ pl.sent = Counts(x)
    BY <1>3, <1>11 DEF Counts, Stands
  <2> QED BY <1>3, <1>5, <1>7, <2>1, <2>2 DEF Stands, IsStream, c
<1>12. Live(x)' = Live(x) /\ call'[x].acc = << >> /\ call'[x].out = << >>
  BY <1>3, <1>4, <1>5 DEF Live
<1> QED BY <1>2, <1>3, <1>9, <1>10, <1>11, <1>12, Moves

(* An exchange of nothing, at either side *)
LEMMA NothingKept ==
  ASSUME IInv, NEW x \in Peers, SendNothing(x) \/ RecvNothing(x)
  PROVE  IInv'
<1>1. Types /\ Global /\ Local(x)
  BY DEF IInv, Types
<1>2. /\ Live(x) /\ call[x] = Idle /\ at[x] \in 1 .. Len(script)
      /\ script \in Scripts /\ Len(script) \in Nat
      /\ Exchange(x) = script[at[x]] /\ phase[x] \in {"data", "confirm"}
      /\ Exchange(x).crypt \in BOOLEAN
      /\ phase[x] = "confirm" => script[at[x]].bufs # << >>
  BY <1>1, MayCallIs DEF SendNothing, RecvNothing
<1>3. /\ script[at[x]].bufs = << >> /\ phase[x] = "data"
      /\ at' = [at EXCEPT ![x] = @ + 1]
      /\ UNCHANGED <<script, faults, phase, begun, got, open, cut, wire, call,
         rc>>
  BY <1>2 DEF SendNothing, RecvNothing
<1>4. crypt' \in [Peers -> BOOLEAN] /\ pos' \in [Peers -> Nat]
      /\ \A r \in Peers \ {x} : crypt'[r] = crypt[r] /\ pos'[r] = pos[r]
  <2>1. CASE SendNothing(x)
    <3>1. crypt' = [crypt EXCEPT ![x] = Exchange(x).crypt]
          /\ pos' = [pos EXCEPT ![x] = Reset(x)] /\ Reset(x) \in Nat
      BY <1>1, <2>1 DEF SendNothing, SetCipher, Reset, Global
    <3> QED BY <1>1, <1>2, <3>1 DEF Global
  <2>2. CASE RecvNothing(x)
    BY <1>1, <2>2 DEF RecvNothing, Global
  <2> QED BY <2>1, <2>2
<1>5. /\ at' \in [Peers -> 1 .. Len(script) + 1] /\ at'[x] = at[x] + 1
      /\ \A r \in Peers \ {x} : at'[r] = at[r]
  <2>1. at[x] + 1 \in 1 .. Len(script) + 1
    BY <1>2
  <2> QED BY <1>1, <1>3, <2>1 DEF Global
<1>6. Global'
  BY <1>1, <1>3, <1>4, <1>5 DEF Global
<1>7. Local(x)'
  BY <1>1, <1>2, <1>3, IdleIs DEF Local, Receiving, Sending
<1>8. \A r \in Peers \ {x} : Same(r)
  BY <1>3, <1>4, <1>5 DEF Same
<1>9. Types'
  BY <1>1, <1>6, <1>7, <1>8, TypesFrame
<1>10. ASSUME NEW pl, Stands(x, pl), pl = Resting(x)
       PROVE  Stands(x, pl)'
  <2>1. Counts(x)' = Counts(x) /\ pl.sent = Counts(x)
    BY <1>3, <1>10 DEF Counts, Stands
  <2>2. Start(script, at[x], Counts(x)) = Start(script, at[x] + 1, Counts(x))
    BY <1>2, <1>3, StartEmpty
  <2>3. pl = Resting(x)'
    BY <1>3, <1>5, <1>10, <2>1, <2>2 DEF Resting
  <2> QED BY <1>2, <1>3, <2>1, <2>3 DEF Stands
<1>11. Live(x)' = Live(x) /\ call'[x].acc = << >> /\ call'[x].out = << >>
  BY <1>2, <1>3, IdleIs DEF Live
<1> QED BY <1>2, <1>3, <1>8, <1>9, <1>10, <1>11, Moves

(***************************************************************************)
(* A message begins                                                        *)
(***************************************************************************)
LEMMA OneSender ==
  ASSUME NEW s \in Scripts, NEW x \in Peers, NEW pl, Unit(s, pl),
         SentBy(s, x, pl)
  PROVE  ~SentBy(s, Peer(x), pl) /\ ~IsStream(s, pl.no)
<1>1. s[pl.no].from \in Peers /\ ~IsStream(s, pl.no)
  BY UnitIs, Scripted
<1>2. Peer(x) # x /\ \A r \in Peers : r = x \/ r = Peer(x)
  BY Peering
<1> QED BY <1>1, <1>2 DEF SentBy

LEMMA AppendIs ==
  ASSUME NEW S, NEW s \in Seq(S), NEW e \in S
  PROVE  /\ Append(s, e) \in Seq(S) /\ Len(s) \in Nat
         /\ Len(Append(s, e)) = Len(s) + 1
         /\ Append(s, e) # << >> /\ Append(s, e)[Len(s) + 1] = e
         /\ \A i \in 1 .. Len(s) : Append(s, e)[i] = s[i]
BY AppendProperties, LenProperties

(* The first packet of a message, at the place a, is loaded. *)
LEMMA Loads ==
  ASSUME IInv, NEW x \in Peers, call[x] = Idle, Live(x), NEW a \in Places,
         a = Resting(x), Unit(script, a), SentBy(script, x, a), a.part = 1,
         a.sent = Counts(x), a.no = at[x], a.phase = phase[x], NEW c \in Call,
         c.op = (IF phase[x] = "data" THEN "send" ELSE "sendConfirm"),
         c.out = Packed(PacketAt(script, a), a.key), c.acc = << >>, c.want = 0,
         c.todo = Rest(script, at[x], phase[x], a.k),
         call' = [call EXCEPT ![x] = c],
         begun' = [begun EXCEPT ![x] = Append(@, MessageAt(script, a))],
         UNCHANGED <<script, faults, at, phase, open, cut, wire, rc, got>>,
         crypt' \in [Peers -> BOOLEAN], pos' \in [Peers -> Nat],
         \A r \in Peers \ {x} : crypt'[r] = crypt[r] /\ pos'[r] = pos[r],
         Key(x)' = Shift(a.key, Size(script, a))
  PROVE  IInv'
<1> DEFINE m == MessageAt(script, a)
<1>b. PICK b : b = Beyond(script, x, a)
  OBVIOUS
<1>1. Types /\ Global /\ Local(x) /\ script \in Scripts /\ at[x] <= Len(script)
  <2>1. Types /\ Global /\ Local(x)
    BY DEF IInv, Types
  <2>2. script \in Scripts
    BY <2>1 DEF Global
  <2>3. a.no \in 1 .. Len(script) /\ Len(script) \in Nat
    BY <2>2, UnitIs, Scripted
  <2> QED BY <2>1, <2>2, <2>3
<1>2. /\ PacketAt(script, a) \in Packet /\ m \in Seq(Seq(Datum)) /\ m # << >>
      /\ a.key \in Keys /\ begun[x] \in Seq(Seq(Seq(Datum)))
  BY <1>1, UnitIs DEF Places, Global
<1> HIDE DEF m
<1>3. c.out # << >>
  BY <1>2, PackedIs
<1>4. /\ begun'[x] = Append(begun[x], m) /\ begun'[x] \in Seq(Seq(Seq(Datum)))
      /\ Len(begun[x]) \in Nat /\ Len(begun'[x]) = Len(begun[x]) + 1
      /\ begun'[x] # << >> /\ begun'[x][Len(begun[x]) + 1] = m
      /\ \A i \in 1 .. Len(begun[x]) : begun'[x][i] = begun[x][i]
      /\ \A r \in Peers \ {x} : begun'[r] = begun[r]
  <2>1. begun' = [begun EXCEPT ![x] = Append(@, m)]
          /\ begun \in [Peers -> Seq(Seq(Seq(Datum)))]
    BY <1>1 DEF Global, m
  <2>2. begun'[x] = Append(begun[x], m)
          /\ \A r \in Peers \ {x} : begun'[r] = begun[r]
    BY <2>1
  <2>3. /\ Append(begun[x], m) \in Seq(Seq(Seq(Datum)))
        /\ Len(begun[x]) \in Nat
        /\ Len(Append(begun[x], m)) = Len(begun[x]) + 1
        /\ Append(begun[x], m) # << >>
        /\ Append(begun[x], m)[Len(begun[x]) + 1] = m
        /\ \A i \in 1 .. Len(begun[x]) : Append(begun[x], m)[i] = begun[x][i]
    <3> DEFINE t == begun[x]
               T == Seq(Seq(Datum))
    <3>1. t \in Seq(T) /\ m \in T
      BY <1>2
    <3> HIDE DEF t, T
    <3>2. /\ Append(t, m) \in Seq(T) /\ Len(t) \in Nat
          /\ Len(Append(t, m)) = Len(t) + 1
          /\ Append(t, m) # << >> /\ Append(t, m)[Len(t) + 1] = m
          /\ \A i \in 1 .. Len(t) : Append(t, m)[i] = t[i]
      BY <3>1, AppendIs
    <3> QED BY <3>2 DEF t, T
  <2> QED BY <2>2, <2>3
<1>5. /\ call' \in [Peers -> Call] /\ call'[x] = c
      /\ \A r \in Peers \ {x} : call'[r] = call[r]
  BY <1>1 DEF Global
<1>6. Global'
  <2>1. begun' \in [Peers -> Seq(Seq(Seq(Datum)))]
    BY <1>1, <1>2, <1>4 DEF Global, m
  <2> QED BY <1>1, <1>5, <2>1 DEF Global
<1>7. Local(x)'
  <2>1. script[at[x]].bufs # << >>
    BY <1>1 DEF Unit, Local
  <2>2. c.op \in Sending /\ c.op \notin Receiving /\ c.op # "none"
    BY DEF Sending, Receiving
  <2> QED BY <1>1, <1>3, <1>5, <2>1, <2>2 DEF Local, Live, Receiving
<1>8. \A r \in Peers \ {x} : Same(r)
  BY <1>4, <1>5 DEF Same
<1>9. Types'
  BY <1>1, <1>6, <1>7, <1>8, TypesFrame
<1>10. Counts(x)[x] = Len(begun[x])
         /\ [Counts(x)' EXCEPT ![x] = @ - 1] = Counts(x)
  <2>1. Counts(x)'
          = [y \in Peers |-> IF y = x THEN Len(begun[x]) + 1 ELSE Len(got[x])]
    BY <1>4 DEF Counts
  <2> DEFINE n == Len(begun[x])
             f == [y \in Peers |-> IF y = x THEN n + 1 ELSE Len(got[x])]
             g == [y \in Peers |-> IF y = x THEN n ELSE Len(got[x])]
  <2>2. n \in Nat /\ Counts(x)' = f /\ Counts(x) = g
    BY <1>4, <2>1 DEF Counts
  <2> HIDE DEF n
  <2>3. f[x] - 1 = n
    BY <2>2
  <2>4. [f EXCEPT ![x] = n] = g
    OBVIOUS
  <2> HIDE DEF f, g
  <2>5. [f EXCEPT ![x] = @ - 1] = g
    BY <2>3, <2>4
  <2>6. g[x] = n
    BY DEF g
  <2> QED BY <2>2, <2>5, <2>6 DEF n
<1>11. Chain(script, x, begun'[x], a, c.out, b)
  <2>1. a.sent[x] = Len(begun[x]) /\ a.sent[x] < Len(begun'[x])
    BY <1>4, <1>10
  <2>2. begun'[x][a.sent[x] + 1] = MessageAt(script, a)
    BY <1>4, <2>1 DEF m
  <2>3. Chain(script, x, begun'[x], a, Packed(PacketAt(script, a), a.key), b)
    BY <1>1, <1>b, <2>1, <2>2, ChainPacket
  <2> QED BY <2>3
<1>12. Writes(x, b)'
  <2>1. begun'[x][Len(begun'[x])] = MessageAt(script, a)
    BY <1>4 DEF m
  <2>2. /\ a.no = at'[x] /\ a.phase = phase'[x] /\ Unit(script', a)
        /\ SentBy(script', x, a) /\ a.sent = [Counts(x)' EXCEPT ![x] = @ - 1]
        /\ begun'[x] # << >>
        /\ begun'[x][Len(begun'[x])] = MessageAt(script', a)
        /\ call'[x].todo = Rest(script', at'[x], phase'[x], a.k)
        /\ Key(x)' = Shift(a.key, Size(script', a))
        /\ b = Beyond(script', x, a)
    BY <1>4, <1>5, <1>10, <1>b, <2>1
  <2>3. call'[x].op = IF phase'[x] = "data" THEN "send" ELSE "sendConfirm"
    BY <1>5
  <2> QED BY <2>2, <2>3 DEF Writes
<1>13. \A bg, y : ~Is(script, Peer(x), bg, Resting(x), y)
  BY <1>1, OneSender DEF Is
<1>14. /\ Live(x)' /\ Leads(x, b)' /\ call'[x].acc = << >>
       /\ Chain(script, x, begun'[x], Resting(x), call'[x].out, b)
       /\ Len(begun[x]) <= Len(begun'[x])
  BY <1>4, <1>5, <1>11, <1>12 DEF Leads, Live
<1> QED BY <1>4, <1>8, <1>9, <1>13, <1>14, Starts

LEMMA SendKept ==
  ASSUME IInv, NEW x \in Peers, Send(x)
  PROVE  IInv'
<1> DEFINE e == script[at[x]]
           key == IF e.crypt THEN 0 ELSE Clear
           a == Place(at[x], "data", 1, 1, key, Counts(x))
           d == [Idle EXCEPT !.op = "send", !.todo = Packets(e)]
           c == Load(x, d, Reset(x))
<1>1. Types /\ Global /\ Local(x)
  BY DEF IInv, Types
<1>2. /\ Live(x) /\ call[x] = Idle /\ at[x] \in 1 .. Len(script)
      /\ script \in Scripts /\ Len(script) \in Nat
      /\ Counts(x) \in [Peers -> Nat]
      /\ Exchange(x) = e /\ e.crypt \in BOOLEAN
  BY <1>1, MayCallIs DEF Send
<1>3. /\ phase[x] = "data" /\ e.from = x /\ e.as # "stream" /\ e.bufs # << >>
      /\ crypt' = [crypt EXCEPT ![x] = e.crypt]
      /\ call' = [call EXCEPT ![x] = c]
      /\ pos' = [pos EXCEPT ![x] = Advance(x, Reset(x), HeaderLen +
         Len(e.bufs[1]))]
      /\ begun' = [begun EXCEPT ![x] = Append(@, e.bufs)]
      /\ UNCHANGED <<script, faults, at, phase, open, cut, wire, rc, got>>
  BY <1>2 DEF Send, SetCipher
<1>4. /\ Packets(e) \in Seq(Packet) /\ Len(Packets(e)) = Len(e.bufs)
      /\ Packets(e) # << >> /\ Head(Packets(e)) = Packets(e)[1]
      /\ 1 \in 1 .. Len(e.bufs) /\ Len(e.bufs) \in Nat
      /\ Packets(e)[1].data = e.bufs[1] /\ Len(e.bufs[1]) \in Nat
  <2>1. Packets(e) \in Seq(Packet) /\ Len(Packets(e)) = Len(e.bufs)
    BY <1>2, PacketsAre
  <2>2. e.bufs \in Seq(Seq(Datum)) /\ Len(e.bufs) \in Nat
    BY <1>2, Buffers
  <2>3. 1 \in 1 .. Len(e.bufs)
    BY <1>3, <2>2, EmptySeq
  <2>4. Packets(e)[1].data = e.bufs[1] /\ Len(e.bufs[1]) \in Nat
    <3>1. Packets(e)[1].data = e.bufs[1]
      BY <1>2, <2>3, PacketsAre
    <3>2. Len(e.bufs[1]) \in Nat
      BY <1>2, <2>3, Buffers
    <3> QED BY <3>1, <3>2
  <2>5. Packets(e) # << >> /\ Head(Packets(e)) = Packets(e)[1]
    BY <2>1, <2>2, <2>3
  <2> QED BY <2>1, <2>2, <2>3, <2>4, <2>5
<1>5. crypt'[x] = e.crypt /\ (IF crypt'[x] THEN Reset(x) ELSE Clear) = key
  BY <1>1, <1>2, <1>3 DEF Global, Reset
<1>6. /\ c.op = "send" /\ c.todo = Tail(Packets(e))
      /\ c.out = Packed(Packets(e)[1], key)
      /\ c.acc = << >> /\ c.want = 0 /\ c \in Call
  <2>1. d \in Call /\ d.op = "send" /\ d.todo = Packets(e) /\ d.acc = << >>
          /\ d.want = 0
    BY <1>4, IdleIs DEF Call
  <2>2. Packets(e)[1] \in Packet /\ Tail(Packets(e)) \in Seq(Packet)
    BY <1>4, ElementOfSeq, HeadTailProperties
  <2>3. key \in Keys
    BY <1>2 DEF Keys
  <2>4. Packed(Packets(e)[1], key) \in Seq(Byte)
    BY <2>2, <2>3, PackedIs
  <2> HIDE DEF d, key
  <2>5. c = [d EXCEPT !.todo = Tail(Packets(e)), !.out = Packed(Packets(e)[1],
        key)]
    BY <1>4, <1>5, <2>1 DEF Load
  <2> QED BY <2>1, <2>2, <2>4, <2>5 DEF Call
<1>7. a = Resting(x)
  BY <1>2, <1>3, StartHere DEF Resting
<1>8. /\ a \in Places /\ a.no = at[x] /\ a.phase = "data" /\ a.k = 1
      /\ a.part = 1
      /\ a.key = key /\ a.sent = Counts(x)
  BY <1>2 DEF Place, Places, Keys
<1> HIDE DEF a, key, c, d
<1>r. PICK pl, cl : pl = a /\ cl = c
  OBVIOUS
<1>9. /\ Unit(script, a) /\ SentBy(script, x, a)
      /\ PacketAt(script, a) = Packets(e)[1] /\ MessageAt(script, a) = e.bufs
      /\ Size(script, a) = HeaderLen + Len(e.bufs[1])
  <2>1. at[x] \in DOMAIN script /\ 1 \in DOMAIN e.bufs
    BY <1>2, <1>4, Scripted, Buffers
  <2> QED BY <1>3, <1>4, <1>8, <2>1 DEF Unit, SentBy, PacketAt, MessageAt, Size
<1>10. c.todo = Rest(script, at[x], phase[x], a.k)
  <2>1. Tail(Packets(e)) = SubSeq(Packets(e), 2, Len(e.bufs))
    BY <1>4, TailIsSubSeq
  <2> QED BY <1>3, <1>6, <1>8, <2>1 DEF Rest
<1>11. /\ crypt' \in [Peers -> BOOLEAN] /\ pos' \in [Peers -> Nat]
       /\ \A r \in Peers \ {x} : crypt'[r] = crypt[r] /\ pos'[r] = pos[r]
       /\ Key(x)' = Shift(a.key, Size(script, a))
  <2> DEFINE n == HeaderLen + Len(e.bufs[1])
  <2>1. n \in Nat
    BY <1>4, Params
  <2> HIDE DEF n
  <2>2. Advance(x, Reset(x), n) \in Nat
          /\ (crypt'[x] => Advance(x, Reset(x), n) = n)
    BY <1>1, <2>1 DEF Global, Advance, Reset
  <2>3. pos' = [pos EXCEPT ![x] = Advance(x, Reset(x), n)]
    BY <1>3 DEF n
  <2>4. Key(x)' = IF e.crypt THEN n ELSE Clear
    BY <1>1, <1>5, <2>2, <2>3 DEF Global, Key
  <2>5. Shift(key, n) = IF e.crypt THEN n ELSE Clear
    BY <1>2, <2>1 DEF Shift, key, Clear
  <2> QED BY <1>1, <1>2, <1>3, <1>8, <1>9, <2>2, <2>3, <2>4, <2>5 DEF Global, n
<1>12. /\ pl \in Places /\ pl = Resting(x) /\ Unit(script, pl)
       /\ SentBy(script, x, pl)
       /\ pl.part = 1 /\ pl.sent = Counts(x) /\ pl.no = at[x]
       /\ pl.phase = phase[x]
       /\ cl \in Call
       /\ cl.op = (IF phase[x] = "data" THEN "send" ELSE "sendConfirm")
       /\ cl.out = Packed(PacketAt(script, pl), pl.key) /\ cl.acc = << >>
       /\ cl.want = 0
       /\ cl.todo = Rest(script, at[x], phase[x], pl.k)
       /\ call' = [call EXCEPT ![x] = cl]
       /\ begun' = [begun EXCEPT ![x] = Append(@, MessageAt(script, pl))]
       /\ Key(x)' = Shift(pl.key, Size(script, pl))
  BY <1>3, <1>6, <1>7, <1>8, <1>9, <1>10, <1>11, <1>r
<1>13. /\ call[x] = Idle /\ Live(x)
       /\ UNCHANGED <<script, faults, at, phase, open, cut, wire, rc, got>>
       /\ crypt' \in [Peers -> BOOLEAN] /\ pos' \in [Peers -> Nat]
       /\ \A r \in Peers \ {x} : crypt'[r] = crypt[r] /\ pos'[r] = pos[r]
  BY <1>2, <1>3, <1>11
<1> QED BY ONLY <1>12, <1>13, Loads, IInv, x \in Peers

LEMMA SendConfirmKept ==
  ASSUME IInv, NEW x \in Peers, SendConfirm(x)
  PROVE  IInv'
<1> DEFINE e == script[at[x]]
           pk == Confirmation(e)
           a == Place(at[x], "confirm", 1, 1, Key(x), Counts(x))
           d == [Idle EXCEPT !.op = "sendConfirm", !.todo = <<pk>>]
           c == Load(x, d, pos[x])
<1>1. Types /\ Global /\ Local(x)
  BY DEF IInv, Types
<1>2. /\ Live(x) /\ call[x] = Idle /\ at[x] \in 1 .. Len(script)
      /\ script \in Scripts /\ Len(script) \in Nat
      /\ Counts(x) \in [Peers -> Nat]
      /\ Exchange(x) = e /\ phase[x] = "confirm" /\ e.bufs # << >>
      /\ e.confirm # "none"
  BY <1>1, MayCallIs DEF SendConfirm
<1>3. /\ e.from # x /\ crypt' = crypt /\ call' = [call EXCEPT ![x] = c]
      /\ pos' = [pos EXCEPT ![x] = Advance(x, @, HeaderLen + 1)]
      /\ begun' = [begun EXCEPT ![x] = Append(@, <<pk.data>>)]
      /\ UNCHANGED <<script, faults, at, phase, open, cut, wire, rc, got>>
  BY <1>2 DEF SendConfirm
<1>4. pk \in Packet /\ Len(pk.data) = 1
  BY <1>2, ConfirmationIs
<1> HIDE DEF pk
<1>5. /\ <<pk>> \in Seq(Packet) /\ Head(<<pk>>) = pk /\ Tail(<<pk>>) = << >>
  BY <1>4
<1>6. (IF crypt'[x] THEN pos[x] ELSE Clear) = Key(x) /\ Key(x) \in Keys
  BY <1>1, <1>3, Lengths DEF Key
<1>7. /\ c.op = "sendConfirm" /\ c.todo = << >> /\ c.out = Packed(pk, Key(x))
      /\ c.acc = << >> /\ c.want = 0 /\ c \in Call
  <2>1. /\ d \in Call /\ d.op = "sendConfirm" /\ d.todo = <<pk>>
        /\ d.acc = << >>
        /\ d.want = 0
    BY <1>5, IdleIs DEF Call
  <2>2. Packed(pk, Key(x)) \in Seq(Byte) /\ << >> \in Seq(Packet)
    BY <1>4, <1>6, PackedIs
  <2> HIDE DEF d
  <2>3. c = [d EXCEPT !.todo = << >>, !.out = Packed(pk, Key(x))]
    BY <1>5, <1>6, <2>1 DEF Load
  <2> QED BY <2>1, <2>2, <2>3 DEF Call
<1>8. a = Resting(x)
  BY <1>2 DEF Resting
<1>9. /\ a \in Places /\ a.no = at[x] /\ a.phase = "confirm" /\ a.k = 1
      /\ a.part = 1
      /\ a.key = Key(x) /\ a.sent = Counts(x)
  BY <1>2, <1>6 DEF Place, Places
<1> HIDE DEF a, c, d
<1>r. PICK pl, cl : pl = a /\ cl = c
  OBVIOUS
<1>10. /\ Unit(script, a) /\ SentBy(script, x, a)
       /\ PacketAt(script, a) = pk /\ MessageAt(script, a) = <<pk.data>>
       /\ Size(script, a) = HeaderLen + 1
  <2>1. at[x] \in DOMAIN script /\ e.as # "stream"
    BY <1>2, Scripted
  <2> QED BY <1>2, <1>3, <1>4, <1>9, <2>1 DEF Unit, SentBy, PacketAt,
             MessageAt, Size, pk
<1>11. /\ pos' \in [Peers -> Nat] /\ crypt' \in [Peers -> BOOLEAN]
       /\ \A r \in Peers \ {x} : crypt'[r] = crypt[r] /\ pos'[r] = pos[r]
       /\ Key(x)' = Shift(Key(x), HeaderLen + 1)
  <2>1. pos[x] \in Nat /\ pos \in [Peers -> Nat]
          /\ crypt \in [Peers -> BOOLEAN]
    BY <1>1 DEF Global
  <2>2. Advance(x, pos[x], HeaderLen + 1) \in Nat
        /\ Advance(x, pos[x], HeaderLen + 1) =
             IF crypt[x] THEN pos[x] + (HeaderLen + 1) ELSE pos[x]
    BY <1>3, <2>1, Params DEF Advance
  <2> QED BY <1>3, <2>1, <2>2 DEF Key, Shift, Clear
<1>12. /\ pl \in Places /\ pl = Resting(x) /\ Unit(script, pl)
       /\ SentBy(script, x, pl)
       /\ pl.part = 1 /\ pl.sent = Counts(x) /\ pl.no = at[x]
       /\ pl.phase = phase[x]
       /\ cl \in Call
       /\ cl.op = (IF phase[x] = "data" THEN "send" ELSE "sendConfirm")
       /\ cl.out = Packed(PacketAt(script, pl), pl.key) /\ cl.acc = << >>
       /\ cl.want = 0
       /\ cl.todo = Rest(script, at[x], phase[x], pl.k)
       /\ call' = [call EXCEPT ![x] = cl]
       /\ begun' = [begun EXCEPT ![x] = Append(@, MessageAt(script, pl))]
       /\ Key(x)' = Shift(pl.key, Size(script, pl))
  BY <1>2, <1>3, <1>7, <1>8, <1>9, <1>10, <1>11, <1>r DEF Rest
<1>13. /\ call[x] = Idle /\ Live(x)
       /\ UNCHANGED <<script, faults, at, phase, open, cut, wire, rc, got>>
       /\ crypt' \in [Peers -> BOOLEAN] /\ pos' \in [Peers -> Nat]
       /\ \A r \in Peers \ {x} : crypt'[r] = crypt[r] /\ pos'[r] = pos[r]
  BY <1>2, <1>3, <1>11
<1> QED BY ONLY <1>12, <1>13, Loads, IInv, x \in Peers

(* The messages of a stream: each of its buffers is one. *)
LEMMA RawMessages ==
  ASSUME NEW s \in Scripts, NEW n \in 1 .. Len(s)
  PROVE  LET ms == [i \in DOMAIN s[n].bufs |-> <<s[n].bufs[i]>>]
         IN /\ ms \in Seq(Seq(Seq(Datum))) /\ Len(ms) = Len(s[n].bufs)
            /\ \A i \in 1 .. Len(s[n].bufs) : ms[i] = <<s[n].bufs[i]>>
<1> DEFINE S == Seq(Seq(Datum))
           l == Len(s[n].bufs)
           w == [i \in 1 .. l |-> <<s[n].bufs[i]>>]
<1>1. l \in Nat /\ DOMAIN s[n].bufs = 1 .. l
        /\ \A i \in 1 .. l : s[n].bufs[i] \in Seq(Datum)
  BY Buffers
<1>2. \A i \in 1 .. l : <<s[n].bufs[i]>> \in S
  BY <1>1
<1> HIDE DEF l, S
<1>3. w \in Seq(S) /\ Len(w) = l /\ \A i \in 1 .. l : w[i] = <<s[n].bufs[i]>>
  <2>1. w \in [1 .. l -> S]
    BY <1>2
  <2> QED BY <1>1, <2>1, SeqDef, LenProperties
<1> QED BY <1>1, <1>3 DEF l, S

LEMMA SendRawKept ==
  ASSUME IInv, NEW x \in Peers, SendRaw(x)
  PROVE  IInv'
<1> DEFINE e == script[at[x]]
           ms == [i \in DOMAIN e.bufs |-> <<e.bufs[i]>>]
           c == [Idle EXCEPT !.op = "send", !.out = Raw(e)]
           S == Seq(Seq(Datum))
<1>1. Types /\ Global /\ Local(x)
  BY DEF IInv, Types
<1>2. /\ Live(x) /\ call[x] = Idle /\ at[x] \in 1 .. Len(script)
      /\ script \in Scripts /\ Len(script) \in Nat
      /\ Counts(x) \in [Peers -> Nat]
      /\ Exchange(x) = e /\ phase[x] \in {"data", "confirm"}
      /\ phase[x] = "confirm" => e.confirm # "none"
  BY <1>1, MayCallIs DEF SendRaw
<1>3. /\ e.from = x /\ e.as = "stream" /\ call' = [call EXCEPT ![x] = c]
      /\ begun' = [begun EXCEPT ![x] = @ \o ms]
      /\ UNCHANGED <<script, faults, at, phase, open, cut, wire, crypt, pos,
         rc, got>>
  BY <1>2 DEF SendRaw
<1>4. /\ phase[x] = "data" /\ e.bufs # << >> /\ IsStream(script, at[x])
  BY <1>2, <1>3, Scripted DEF IsStream
<1>5. /\ Raw(e) \in Seq(Byte) /\ Raw(e) # << >>
      /\ ms \in Seq(S) /\ Len(ms) = Len(e.bufs) /\ Len(e.bufs) \in Nat
      /\ \A i \in 1 .. Len(e.bufs) : ms[i] = <<e.bufs[i]>>
  <2>1. /\ Len(e.bufs) \in Nat /\ DOMAIN e.bufs = 1 .. Len(e.bufs)
        /\ \A i \in 1 .. Len(e.bufs) : e.bufs[i] \in Seq(Datum)
    BY <1>2, Buffers
  <2>2. Len(e.bufs) # 0
    BY <1>2, <1>4, Buffers, EmptySeq
  <2>3. Raw(e) \in Seq(Byte) /\ Len(Raw(e)) = Len(e.bufs)
    BY <1>2, RawIs
  <2>4. Raw(e) # << >>
    BY <2>2, <2>3
  <2>5. /\ ms \in Seq(S) /\ Len(ms) = Len(e.bufs)
        /\ \A i \in 1 .. Len(e.bufs) : ms[i] = <<e.bufs[i]>>
    BY <1>2, RawMessages
  <2> QED BY <2>1, <2>3, <2>4, <2>5
<1>6. c \in Call /\ c.op = "send" /\ c.out = Raw(e) /\ c.todo = << >>
      /\ c.acc = << >> /\ c.want = 0
  BY <1>5, IdleIs DEF Call
<1> HIDE DEF c, ms
<1>7. /\ begun'[x] = begun[x] \o ms
      /\ \A r \in Peers \ {x} : begun'[r] = begun[r]
      /\ begun[x] \in Seq(S) /\ begun'[x] \in Seq(S) /\ Len(begun[x]) \in Nat
      /\ Len(begun'[x]) = Len(begun[x]) + Len(e.bufs)
      /\ \A i \in 1 .. Len(begun[x]) + Len(e.bufs) :
           begun'[x][i] = IF i <= Len(begun[x]) THEN begun[x][i]
                          ELSE ms[i - Len(begun[x])]
  <2>1. begun \in [Peers -> Seq(S)]
    BY <1>1 DEF Global
  <2> HIDE DEF S
  <2>2. begun[x] \in Seq(S) /\ Len(begun[x]) \in Nat
    BY <2>1, LenProperties
  <2>3. begun'[x] = begun[x] \o ms
          /\ \A r \in Peers \ {x} : begun'[r] = begun[r]
    BY <1>3, <2>1
  <2>4. PICK t \in Seq(S), v \in Seq(S) : t = begun[x] /\ v = ms
    BY <1>5, <2>2 DEF S
  <2>5. PICK n, w : n = Len(e.bufs) /\ w = begun'[x]
    OBVIOUS
  <2>6. w = t \o v /\ Len(v) = n
    BY <1>5, <2>3, <2>4, <2>5
  <2>7. /\ t \o v \in Seq(S) /\ Len(t \o v) = Len(t) + Len(v)
        /\ \A i \in 1 .. Len(t) + Len(v) :
             (t \o v)[i] = IF i <= Len(t) THEN t[i] ELSE v[i - Len(t)]
    BY ONLY t \in Seq(S), v \in Seq(S), ConcatProperties
  <2>8. /\ w \in Seq(S) /\ Len(w) = Len(t) + n
        /\ \A i \in 1 .. Len(t) + n :
             w[i] = IF i <= Len(t) THEN t[i] ELSE v[i - Len(t)]
    BY ONLY <2>6, <2>7
  <2> QED BY ONLY <2>2, <2>3, <2>4, <2>5, <2>8
<1>8. call' \in [Peers -> Call] /\ call'[x] = c
        /\ \A r \in Peers \ {x} : call'[r] = call[r]
  BY <1>1, <1>3, <1>6 DEF Global
<1>9. Global'
  <2>1. begun' \in [Peers -> Seq(S)]
    BY <1>1, <1>3, <1>7 DEF Global
  <2> QED BY <1>1, <1>3, <1>8, <2>1 DEF Global
<1>10. Local(x)'
  BY <1>1, <1>2, <1>3, <1>4, <1>5, <1>6, <1>8 DEF Local, Live, Sending,
     Receiving
<1>11. \A r \in Peers \ {x} : Same(r)
  BY <1>3, <1>7, <1>8 DEF Same
<1>12. Types'
  BY <1>1, <1>9, <1>10, <1>11, TypesFrame
<1>13. PICK b : b
         = Place(at[x], "data", 1, 1, Clear, [Counts(x) EXCEPT ![x] =
           Len(begun'[x])])
  OBVIOUS
<1>14. Counts(x)' = [Counts(x) EXCEPT ![x] = Len(begun'[x])]
         /\ Counts(x)[x] = Len(begun[x])
  <2> DEFINE n == Len(begun'[x])
             f == [y \in Peers |-> IF y = x THEN Len(begun[x]) ELSE
               Len(got[x])]
             g == [y \in Peers |-> IF y = x THEN n ELSE Len(got[x])]
  <2>1. Counts(x)' = g /\ Counts(x) = f
    BY <1>3 DEF Counts
  <2>2. f[x] = Len(begun[x])
    OBVIOUS
  <2> HIDE DEF n
  <2>3. [f EXCEPT ![x] = n] = g
    OBVIOUS
  <2> HIDE DEF f, g
  <2> QED BY <2>1, <2>2, <2>3 DEF n
<1>15. Resting(x) = Place(at[x], "data", 1, 1, Clear, Counts(x))
  BY <1>2, <1>3, <1>4, StartStream DEF Resting
<1>16. Chain(script, x, begun'[x], Resting(x), call'[x].out, b)
  <2> DEFINE bg == begun'[x]
             n == at[x]
  <2>1. /\ Len(bg) = Counts(x)[x] + Len(script[n].bufs)
        /\ \A i \in 1 .. Len(script[n].bufs) :
             bg[Counts(x)[x] + i] = <<script[n].bufs[i]>>
    <3>1. ASSUME NEW i \in 1 .. Len(e.bufs)
          PROVE  begun'[x][Len(begun[x]) + i] = <<e.bufs[i]>>
      <4>1. /\ Len(begun[x]) + i \in 1 .. Len(begun[x]) + Len(e.bufs)
            /\ ~ (Len(begun[x]) + i <= Len(begun[x]))
            /\ (Len(begun[x]) + i) - Len(begun[x]) = i
        <5>1. PICK l \in Nat, m \in Nat : l = Len(begun[x]) /\ m = Len(e.bufs)
          BY <1>5, <1>7
        <5>2. i \in 1 .. m
          BY <5>1
        <5>3. l + i \in 1 .. l + m /\ ~ (l + i <= l) /\ (l + i) - l = i
          BY ONLY <5>2, l \in Nat, m \in Nat
        <5> QED BY <5>1, <5>3
      <4> QED BY <1>5, <1>7, <4>1
    <3> QED BY <1>7, <1>14, <3>1
  <2> HIDE DEF bg
  <2>2. Chain(script, x, bg, Place(n, "data", 1, 1, Clear, Counts(x)),
        Raw(script[n]),
              Place(n, "data", 1, 1, Clear, [Counts(x) EXCEPT ![x] = Len(bg)]))
    BY <1>2, <1>3, <2>1, ChainRaw
  <2> QED BY <1>6, <1>8, <1>13, <1>15, <2>2 DEF bg
<1>17. Leads(x, b)'
  BY <1>3, <1>4, <1>6, <1>8, <1>13, <1>14 DEF Leads, Writes
<1>18. \A bg, y : ~Is(script, Peer(x), bg, Resting(x), y)
  <2>1. Resting(x).no = at[x]
    BY <1>15 DEF Place
  <2>2. Peer(x) # x
    BY Peering
  <2> QED BY <1>3, <2>1, <2>2 DEF Is, Unit
<1>19. /\ Live(x)' /\ call'[x].acc = << >> /\ Len(begun[x]) <= Len(begun'[x])
       /\ \A i \in 1 .. Len(begun[x]) : begun'[x][i] = begun[x][i]
       /\ UNCHANGED <<script, wire>>
  BY <1>2, <1>3, <1>5, <1>6, <1>7, <1>8 DEF Live
<1> QED BY ONLY <1>2, <1>11, <1>12, <1>16, <1>17, <1>18, <1>19, Starts, IInv, x
           \in Peers

(***************************************************************************)
(* The end of a connection, a fault, and the wait before a write           *)
(***************************************************************************)
LEMMA CloseKept ==
  ASSUME IInv, NEW x \in Peers, Close(x)
  PROVE  IInv'
<1>1. Types /\ Global /\ Local(x)
  BY DEF IInv, Types
<1>2. /\ call[x] = Idle /\ open' = [open EXCEPT ![x] = FALSE]
      /\ UNCHANGED <<script, faults, at, phase, begun, got, crypt, pos, call,
         rc>>
  BY <1>1 DEF Close, avars, Local
<1>3. /\ cut' \in [Peers -> BOOLEAN] /\ wire' \in [Peers -> Seq(Byte)]
      /\ wire'[x] = << >>
         /\ \A r \in Peers : wire'[r] = wire[r] \/ wire'[r] = << >>
      /\ (\A r \in Peers \ {x} : wire'[r] = wire[r]) \/ wire[x] # << >>
  BY <1>1, NoBytes DEF Close, Global
<1>4. \A r \in Peers : Len(wire'[r]) <= Room
  BY <1>1, <1>3, NoBytes, Params DEF Global
<1>5. /\ open' \in [Peers -> BOOLEAN] /\ ~open'[x]
      /\ \A r \in Peers \ {x} : open'[r] = open[r]
  BY <1>1, <1>2 DEF Global
<1>6. Global'
  BY <1>1, <1>2, <1>3, <1>4, <1>5 DEF Global
<1>7. Local(x)'
  BY <1>1, <1>2, IdleIs DEF Local, Sending, Receiving
<1>8. \A r \in Peers \ {x} : Same(r)
  BY <1>2, <1>5 DEF Same
<1>9. Types'
  BY <1>1, <1>6, <1>7, <1>8, TypesFrame
<1>10. PICK p \in Peers : wire[p] = << >>
         /\ (Live(Peer(p)) => Joined(p, Peer(p)))
  BY DEF IInv, Wired
<1> DEFINE q == Peer(p)
<1>11. q \in Peers /\ q # p /\ \A r \in Peers : r = p \/ r = q
  BY Peering
<1>12. wire'[p] = << >> /\ ~Live(x)'
  BY <1>3, <1>5, <1>10 DEF Live
<1>13. ASSUME Live(q)' PROVE Joined(p, q)'
  <2>1. x = p /\ Same(q)
    BY <1>8, <1>11, <1>12, <1>13
  <2>2. Live(q) /\ Joined(p, q)
    BY <1>10, <1>11, <1>13, <2>1, SameStands
  <2> HIDE DEF q
  <2>3. PICK a, b : Stands(q, a)
          /\ Chain(script, p, begun[p], a, Between(p, q), b)
    BY <2>2 DEF Joined
  <2>4. wire'[q] = wire[q]
    BY <1>3, <1>10, <1>11, <2>1
  <2>5. Between(p, q)' = Between(p, q)
    BY <1>2, <2>4 DEF Between
  <2>6. Stands(q, a)'
    BY <1>11, <2>1, <2>3, SameStands
  <2>7. Chain(script, p, begun[p], a, Between(p, q), b)'
    BY <1>2, <2>3, <2>5
  <2> QED BY <1>12, <2>1, <2>6, <2>7 DEF Joined
<1> QED BY <1>9, <1>12, <1>13 DEF IInv, Wired

LEMMA FaultKept ==
  ASSUME IInv, NEW x \in Peers, Fault(x)
  PROVE  IInv'
<1>1. PICK code \in {"POLL", "SOCKWRITE", "SOCKREAD"} : Fail(x, code)
  BY DEF Fault
<1>2. call[x].op # "none" /\ code \in Codes /\ code # "OK"
  BY DEF Fault, Codes
<1> QED BY <1>1, <1>2, FailKept

(* A peer that sends is the one ahead. *)
LEMMA Sender ==
  ASSUME IInv, NEW x \in Peers, call[x].op \in Sending
  PROVE  /\ wire[x] = << >> /\ Live(x)
         /\ Live(Peer(x)) =>
              \E a, b : /\ Stands(Peer(x), a) /\ Writes(x, b)
                        /\ Chain(script, x, begun[x], a, Between(x, Peer(x)),
                           b)
<1>1. Types /\ Global /\ Local(x)
  BY DEF IInv, Types
<1>2. PICK p \in Peers : wire[p] = << >>
        /\ (Live(Peer(p)) => Joined(p, Peer(p)))
  BY DEF IInv, Wired
<1>3. Peer(p) \in Peers /\ \A r \in Peers : r = p \/ r = Peer(p)
  BY Peering
<1>4. Live(x) /\ call[x].op \in {"send", "sendConfirm"}
  BY <1>1 DEF Local, Sending
<1>5. \A pl : ~Stands(x, pl)
  BY <1>4, IdleIs DEF Stands, Reads
<1>6. x # Peer(p)
  BY <1>2, <1>4, <1>5 DEF Joined
<1>7. x = p
  BY <1>3, <1>6
<1>8. ASSUME Live(Peer(x))
      PROVE  \E a, b : /\ Stands(Peer(x), a) /\ Writes(x, b)
                       /\ Chain(script, x, begun[x], a, Between(x, Peer(x)), b)
  <2>1. PICK a, b : /\ Stands(Peer(x), a) /\ Leads(x, b)
                    /\ Chain(script, x, begun[x], a, Between(x, Peer(x)), b)
    BY <1>2, <1>4, <1>7, <1>8 DEF Joined
  <2>2. Writes(x, b)
    BY <1>5, <2>1 DEF Leads
  <2> QED BY <2>1, <2>2
<1> QED BY <1>2, <1>4, <1>7, <1>8

LEMMA SendPollKept ==
  ASSUME IInv, NEW x \in Peers, SendPoll(x)
  PROVE  IInv'
<1> DEFINE q == Peer(x)
<1>1. Types /\ Global /\ Local(x)
  BY DEF IInv, Types
<1>2. call[x].op \in Sending /\ call[x].op # "none"
  BY DEF SendPoll, Sending
<1>3. CASE \E code \in Codes \ {"OK"} : Fail(x, code)
  BY <1>2, <1>3, FailKept
<1>4. CASE /\ call' = [call EXCEPT ![x].inWrite = TRUE]
           /\ UNCHANGED <<script, faults, avars, open, cut, wire, crypt, pos,
              rc>>
  <2>1. UNCHANGED <<script, faults, at, phase, begun, got, open, cut, wire,
        crypt, pos, rc>>
    BY <1>4 DEF avars
  <2>2. /\ call' \in [Peers -> Call]
        /\ \A r \in Peers \ {x} : call'[r] = call[r]
        /\ call'[x] = [call[x] EXCEPT !.inWrite = TRUE]
    <3>1. [call[x] EXCEPT !.inWrite = TRUE] \in Call
      BY <1>1 DEF Global, Call
    <3> QED BY <1>1, <1>4, <3>1 DEF Global
  <2>3. /\ call'[x].op = call[x].op /\ call'[x].todo = call[x].todo
        /\ call'[x].out = call[x].out /\ call'[x].want = call[x].want
    BY <1>1, <2>2 DEF Global, Call
  <2>4. Global'
    BY <1>1, <2>1, <2>2 DEF Global
  <2>5. Local(x)'
    BY <1>1, <1>2, <2>1, <2>3 DEF Local, Live, Sending, Receiving
  <2>6. \A r \in Peers \ {x} : Same(r)
    BY <2>1, <2>2 DEF Same
  <2>7. Types'
    BY <1>1, <2>4, <2>5, <2>6, TypesFrame
  <2>8. wire'[x] = << >> /\ q \in Peers /\ q # x
    BY <1>2, <2>1, Sender, Peering
  <2>9. ASSUME Live(q)' PROVE Joined(x, q)'
    <3>1. Same(q) /\ Live(q)
      BY <2>6, <2>8, <2>9, SameStands
    <3>2. PICK a, b : /\ Stands(q, a) /\ Writes(x, b)
                      /\ Chain(script, x, begun[x], a, Between(x, q), b)
      BY <1>2, <3>1, Sender
    <3> HIDE DEF q
    <3>3. Between(x, q)' = Between(x, q)
      BY <2>1, <2>3, <3>1 DEF Between, Same
    <3>4. Chain(script, x, begun[x], a, Between(x, q), b)'
      BY <2>1, <3>2, <3>3
    <3>5. Key(x)' = Key(x) /\ Counts(x)' = Counts(x)
      BY <2>1 DEF Key, Counts
    <3>6. Writes(x, b)'
      BY <2>1, <2>3, <3>2, <3>5 DEF Writes
    <3>7. Stands(q, a)'
      BY <2>8, <3>1, <3>2, SameStands
    <3> QED BY <3>4, <3>6, <3>7 DEF Joined, Leads
  <2> QED BY <2>7, <2>8, <2>9 DEF IInv, Wired
<1>5. \/ \E code \in Codes \ {"OK"} : Fail(x, code)
      \/ /\ call' = [call EXCEPT ![x].inWrite = TRUE]
         /\ UNCHANGED <<script, faults, avars, open, cut, wire, crypt, pos,
            rc>>
  <2>1. {"SOCKREAD", "PEER_SHUTDOWN", "TIMEOUT"} \subseteq Codes \ {"OK"}
    BY DEF Codes
  <2>2. (IF cut[x] THEN "SOCKREAD" ELSE "PEER_SHUTDOWN") \in Codes \ {"OK"}
    BY <2>1
  <2> QED BY <2>1, <2>2 DEF SendPoll
<1> QED BY <1>3, <1>4, <1>5

(***************************************************************************)
(* A write                                                                 *)
(***************************************************************************)

(* x has sent the last packet of its message: where it comes to rest. *)
LEMMA SentAll ==
  ASSUME Types, NEW x \in Peers, call[x].op \in Sending, call[x].todo = << >>,
         NEW b, Writes(x, b), Return(x, "OK"),
         UNCHANGED <<script, crypt, pos, begun, got>>
  PROVE  Resting(x)' = b /\ b.sent = Counts(x)' /\ b.part = 1
<1> DEFINE n == at[x]
           e == script[n]
<1>1. Global /\ Local(x)
  BY DEF Types
<1>2. /\ n \in 1 .. Len(script) /\ Len(script) \in Nat /\ script \in Scripts
      /\ n + 1 \in 1 .. Len(script) + 1 /\ Counts(x) \in [Peers -> Nat]
      /\ phase[x] \in {"data", "confirm"}
  <2>1. n \in 1 .. Len(script) + 1 /\ Len(script) \in Nat /\ n <= Len(script)
    BY <1>1, Lengths DEF Global, Local, Sending
  <2> QED BY <1>1, <2>1, Lengths DEF Global
<1>3. Counts(x)' = Counts(x) /\ Key(x)' = Key(x)
  BY DEF Counts, Key
<1>4. LET toConfirm == phase[x] = "data" /\ e.confirm # "none"
      IN /\ phase'[x] = IF toConfirm THEN "confirm" ELSE "data"
         /\ at'[x] = IF toConfirm THEN n ELSE n + 1
  <2>1. call[x].op # "stream"
    BY DEF Sending
  <2> QED BY <1>1, <2>1 DEF Return, Exchange, Global
<1>5. CASE IsStream(script, n) /\ phase[x] = "data"
           /\ b = Place(n, "data", 1, 1, Clear, Counts(x))
  <2>1. e.as = "stream" /\ e.confirm = "none"
    BY <1>2, <1>5, Scripted DEF IsStream
  <2>2. phase'[x] = "data" /\ at'[x] = n + 1
    BY <1>4, <2>1
  <2> HIDE DEF n
  <2>3. Start(script, n + 1, Counts(x)) = b
    BY <1>2, <1>5, <2>1, StartStream
  <2> QED BY <1>3, <1>5, <2>2, <2>3 DEF Resting, Place
<1>6. ASSUME NEW u \in Places, u.no = n, u.phase = phase[x], Unit(script, u),
             u.sent = [Counts(x) EXCEPT ![x] = @ - 1], begun[x] # << >>,
             call[x].todo = Rest(script, n, phase[x], u.k),
             Key(x) = Shift(u.key, Size(script, u)), b = Beyond(script, x, u)
      PROVE  Resting(x)' = b /\ b.sent = Counts(x)' /\ b.part = 1
  <2>1. [u.sent EXCEPT ![x] = @ + 1] = Counts(x)
    <3> DEFINE f == Counts(x)
    <3>1. f[x] = Len(begun[x]) /\ f \in [Peers -> Nat] /\ f[x] \in Nat
      BY <1>1, <1>2, Lengths DEF Counts
    <3>2. u.sent = [f EXCEPT ![x] = f[x] - 1]
      BY <1>6, <3>1
    <3> HIDE DEF f
    <3>3. u.sent[x] = f[x] - 1
      BY <3>1, <3>2
    <3>4. u.sent[x] + 1 = f[x]
      BY <3>1, <3>3
    <3>5. \A v, w : w = f[x] => [[f EXCEPT ![x] = v] EXCEPT ![x] = w] = f
      BY <3>1
    <3>6. [[f EXCEPT ![x] = f[x] - 1] EXCEPT ![x] = u.sent[x] + 1] = f
      BY <3>4, <3>5
    <3>7. [u.sent EXCEPT ![x] = u.sent[x] + 1] = f
      BY <3>2, <3>6
    <3> QED BY <3>7 DEF f
  <2>2. phase[x] = "data" => ~ (u.k < Len(e.bufs))
    <3> SUFFICES ASSUME phase[x] = "data", u.k < Len(e.bufs) PROVE FALSE
      OBVIOUS
    <3>1. /\ Packets(e) \in Seq(Packet) /\ Len(Packets(e)) = Len(e.bufs)
          /\ Len(e.bufs) \in Nat /\ u.k \in Nat
      BY <1>2, PacketsAre, Buffers DEF Places
    <3>2. \A i \in u.k + 1 .. Len(e.bufs) : Packets(e)[i] \in Packet
      BY <3>1, ElementOfSeq
    <3>3. Len(SubSeq(Packets(e), u.k + 1, Len(e.bufs)))
            = Len(e.bufs) - (u.k + 1) + 1
      BY <3>1, <3>2, SubSeqProperties
    <3>4. call[x].todo = SubSeq(Packets(e), u.k + 1, Len(e.bufs))
      BY <1>6 DEF Rest
    <3>5. PICK l \in Nat : l = Len(e.bufs)
      BY <3>1
    <3>6. l - (u.k + 1) + 1 = 0
      <4>1. Len(<< >>) = Len(e.bufs) - (u.k + 1) + 1
        BY <3>3, <3>4
      <4>2. Len(<< >>) = 0
        OBVIOUS
      <4> QED BY ONLY <3>5, <4>1, <4>2
    <3> QED BY <3>1, <3>5, <3>6
  <2>3. b = AfterPacket(script, x, n, phase[x], u.k, Key(x), u.sent)
    BY <1>6 DEF Beyond
  <2>4. CASE phase[x] = "data" /\ e.confirm # "none"
    <3>1. b = Place(n, "confirm", 1, 1, Key(x), Counts(x))
      BY <2>1, <2>2, <2>3, <2>4 DEF AfterPacket
    <3>2. phase'[x] = "confirm" /\ at'[x] = n
      BY <1>4, <2>4
    <3> HIDE DEF n
    <3> QED BY <1>3, <3>1, <3>2 DEF Resting, Place
  <2>5. CASE ~ (phase[x] = "data" /\ e.confirm # "none")
    <3>1. b = Start(script, n + 1, Counts(x))
      BY <2>1, <2>2, <2>3, <2>5 DEF AfterPacket
    <3>2. phase'[x] = "data" /\ at'[x] = n + 1
      BY <1>4, <2>5
    <3> HIDE DEF n
    <3>3. b.sent = Counts(x) /\ b.part = 1
      BY <1>2, <3>1, StartPlace
    <3> QED BY <1>3, <3>1, <3>2, <3>3 DEF Resting
  <2> QED BY <2>4, <2>5
<1> QED BY <1>5, <1>6 DEF Writes

(* x loads the packet that follows. *)
LEMMA SentOne ==
  ASSUME Types, NEW x \in Peers, call[x].op \in Sending, call[x].todo # << >>,
         NEW b, Writes(x, b)
  PROVE  /\ b \in Places /\ Unit(script, b) /\ SentBy(script, x, b)
         /\ b.part = 1
         /\ b.no = at[x] /\ b.phase = phase[x] /\ b.key = Key(x)
         /\ b.sent = [Counts(x) EXCEPT ![x] = @ - 1]
         /\ begun[x] # << >> /\ begun[x][Len(begun[x])] = MessageAt(script, b)
         /\ Head(call[x].todo) = PacketAt(script, b)
         /\ Tail(call[x].todo) = Rest(script, at[x], phase[x], b.k)
<1> DEFINE n == at[x]
           e == script[n]
<1>1. Global /\ Local(x) /\ script \in Scripts
  BY DEF Types, Global
<1>2. n \in 1 .. Len(script) /\ Len(script) \in Nat
  <2>1. n \in 1 .. Len(script) + 1 /\ Len(script) \in Nat /\ n <= Len(script)
    BY <1>1, Lengths DEF Global, Local, Sending
  <2> QED BY <2>1
<1>3. PICK u \in Places :
        /\ u.no = n /\ u.phase = phase[x] /\ Unit(script, u)
        /\ SentBy(script, x, u) /\ u.sent = [Counts(x) EXCEPT ![x] = @ - 1]
        /\ begun[x] # << >> /\ begun[x][Len(begun[x])] = MessageAt(script, u)
        /\ call[x].todo = Rest(script, n, phase[x], u.k)
        /\ Key(x) = Shift(u.key, Size(script, u)) /\ b = Beyond(script, x, u)
  BY DEF Writes
<1>4. /\ Packets(e) \in Seq(Packet) /\ Len(Packets(e)) = Len(e.bufs)
      /\ Len(e.bufs) \in Nat /\ u.k \in Nat /\ DOMAIN e.bufs = 1 .. Len(e.bufs)
  BY <1>2, <1>1, PacketsAre, Buffers DEF Places
<1>5. phase[x] = "data"
        /\ call[x].todo = SubSeq(Packets(e), u.k + 1, Len(e.bufs))
  BY <1>3 DEF Rest
<1>6. u.k \in 1 .. Len(e.bufs)
  BY <1>3, <1>4, <1>5 DEF Unit
<1>7. u.k < Len(e.bufs)
  <2> SUFFICES ASSUME ~ (u.k < Len(e.bufs)) PROVE FALSE
    OBVIOUS
  <2>1. SubSeq(Packets(e), u.k + 1, Len(e.bufs)) = << >>
    BY <1>4, SubSeqEmpty
  <2> QED BY <1>5, <2>1
<1>8. b = Place(n, "data", u.k + 1, 1, Key(x), u.sent)
  BY <1>3, <1>5, <1>7 DEF Beyond, AfterPacket
<1>9. /\ b.no = n /\ b.phase = "data" /\ b.k = u.k + 1 /\ b.part = 1
      /\ b.key = Key(x) /\ b.sent = u.sent
  BY <1>8 DEF Place
<1>10. b \in Places
  <2>1. Key(x) \in Keys /\ n \in Nat /\ u.sent \in [Peers -> Nat]
    BY <1>1, <1>2, Lengths DEF Places
  <2> QED BY <1>4, <1>8, <2>1 DEF Place, Places
<1>11. u.k + 1 \in 1 .. Len(e.bufs) /\ (u.k + 1) + 1 = u.k + 2
  BY <1>4, <1>6, <1>7
<1>12. /\ Unit(script, b) /\ SentBy(script, x, b)
       /\ PacketAt(script, b) = Packets(e)[u.k + 1]
       /\ MessageAt(script, b) = MessageAt(script, u)
  BY <1>3, <1>4, <1>5, <1>9, <1>11 DEF Unit, SentBy, PacketAt, MessageAt
<1>13. /\ Head(call[x].todo) = Packets(e)[u.k + 1]
       /\ Tail(call[x].todo) = SubSeq(Packets(e), (u.k + 1) + 1, Len(e.bufs))
  <2>1. u.k + 1 \in 1 .. Len(Packets(e))
          /\ Len(e.bufs) \in u.k + 1 .. Len(Packets(e))
    BY <1>4, <1>11
  <2> DEFINE pk == Packets(e)
             i == u.k + 1
             l == Len(e.bufs)
  <2>2. pk \in Seq(Packet) /\ i \in 1 .. Len(pk) /\ l \in i .. Len(pk)
    BY <1>4, <2>1
  <2> HIDE DEF pk, i, l
  <2>3. Head(SubSeq(pk, i, l)) = pk[i]
          /\ Tail(SubSeq(pk, i, l)) = SubSeq(pk, i + 1, l)
    BY <2>2, HeadTailOfSubSeq
  <2> QED BY <1>5, <2>3 DEF pk, i, l
<1>14. Tail(call[x].todo) = Rest(script, n, phase[x], b.k)
  BY <1>5, <1>9, <1>13 DEF Rest
<1> QED BY <1>3, <1>5, <1>9, <1>10, <1>12, <1>13, <1>14

LEMMA PieceIs ==
  ASSUME NEW S, NEW s \in Seq(S), NEW n \in 0 .. Len(s)
  PROVE  /\ SubSeq(s, 1, n) \in Seq(S) /\ Len(SubSeq(s, 1, n)) = n
         /\ SubSeq(s, n + 1, Len(s)) \in Seq(S)
         /\ Len(SubSeq(s, n + 1, Len(s))) = Len(s) - n
         /\ SubSeq(s, 1, n) \o SubSeq(s, n + 1, Len(s)) = s
<1>1. Len(s) \in Nat /\ \A i \in 1 .. Len(s) : s[i] \in S
  BY LenProperties, ElementOfSeq
<1>2. SubSeq(s, 1, n) \in Seq(S) /\ Len(SubSeq(s, 1, n)) = n
  <2>1. \A i \in 1 .. n : s[i] \in S
    BY <1>1
  <2>2. Len(SubSeq(s, 1, n)) = IF 1 <= n THEN n - 1 + 1 ELSE 0
    BY <1>1, <2>1, SubSeqProperties
  <2> QED BY <1>1, <2>1, <2>2, SubSeqProperties
<1>3. SubSeq(s, n + 1, Len(s)) \in Seq(S)
        /\ Len(SubSeq(s, n + 1, Len(s))) = Len(s) - n
  <2>1. \A i \in n + 1 .. Len(s) : s[i] \in S
    BY <1>1
  <2>2. Len(SubSeq(s, n + 1, Len(s))) =
          IF n + 1 <= Len(s) THEN Len(s) - (n + 1) + 1 ELSE 0
    BY <1>1, <2>1, SubSeqProperties
  <2>3. SubSeq(s, n + 1, Len(s)) \in Seq(S)
    BY <1>1, <2>1, SubSeqProperties
  <2> QED BY <1>1, <2>2, <2>3
<1>4. SubSeq(s, 1, n) \o SubSeq(s, n + 1, Len(s)) = SubSeq(s, 1, Len(s))
  <2>1. 1 \in 1 .. Len(s) + 1 /\ n \in 1 - 1 .. Len(s)
          /\ Len(s) \in n .. Len(s)
    BY <1>1
  <2> QED BY <2>1, ConcatAdjacentSubSeq
<1> QED BY <1>2, <1>3, <1>4, SubSeqFull

LEMMA SentTypes ==
  ASSUME Types, NEW x \in Peers, call[x].op \in Sending,
         NEW n \in 0 .. Len(call[x].out),
         NEW returns \in BOOLEAN, Sent(x, n, returns),
         UNCHANGED <<script, open, crypt>>
  PROVE  /\ at' \in [Peers -> 1 .. Len(script) + 1]
         /\ phase' \in [Peers -> {"data", "confirm"}]
         /\ call' \in [Peers -> Call] /\ rc' \in [Peers -> Codes]
         /\ pos' \in [Peers -> Nat] /\ Local(x)' /\ Live(x)'
         /\ \A r \in Peers \ {x} : /\ call'[r] = call[r] /\ at'[r] = at[r]
                                   /\ phase'[r] = phase[r] /\ rc'[r] = rc[r]
                                   /\ pos'[r] = pos[r]
<1> DEFINE left == SubSeq(call[x].out, n + 1, Len(call[x].out))
           c == [call[x] EXCEPT !.out = left, !.inWrite = ~returns]
           pk == Head(c.todo)
           d == [Load(x, c, pos[x]) EXCEPT !.inWrite = FALSE]
<1>1. Global /\ Local(x) /\ Live(x)
  BY DEF Types, Local, Sending
<1>2. call[x] \in Call /\ call[x].out \in Seq(Byte) /\ call[x].op # "none"
  BY <1>1 DEF Global, Call, Sending
<1>3. left \in Seq(Byte)
  BY <1>2, PieceIs
<1> HIDE DEF left
<1>4. /\ c \in Call /\ c.op = call[x].op /\ c.todo = call[x].todo
      /\ c.out = left
      /\ c.want = call[x].want
  BY <1>2, <1>3 DEF Call
<1>5. CASE left # << >> \/ FALSE
  <2>1. call' = [call EXCEPT ![x] = c] /\ UNCHANGED <<at, phase, rc, pos>>
    BY <1>5 DEF Sent, left
  <2> HIDE DEF c
  <2>2. call' \in [Peers -> Call] /\ call'[x] = c
          /\ \A r \in Peers \ {x} : call'[r] = call[r]
    BY <1>1, <1>4, <2>1 DEF Global
  <2>3. Local(x)'
    BY <1>1, <1>2, <1>4, <1>5, <2>1, <2>2 DEF Local, Live, Sending, Receiving
  <2> QED BY <1>1, <2>1, <2>2, <2>3 DEF Global, Live
<1>6. CASE left = << >> /\ c.todo # << >>
  <2>1. /\ call' = [call EXCEPT ![x] = d] /\ UNCHANGED <<at, phase, rc>>
        /\ pos' = [pos EXCEPT ![x] = Advance(x, @, HeaderLen + Len(pk.data))]
    BY <1>6 DEF Sent, left
  <2>2. /\ pk \in Packet /\ Tail(c.todo) \in Seq(Packet)
        /\ Len(pk.data) \in Nat
    <3>1. c.todo \in Seq(Packet)
      BY <1>4 DEF Call
    <3>2. Head(c.todo) \in Packet /\ Tail(c.todo) \in Seq(Packet)
      BY <1>6, <3>1, HeadTailProperties
    <3> QED BY <3>2 DEF Packet
  <2>3. (IF crypt'[x] THEN pos[x] ELSE Clear) \in Keys /\ pos[x] \in Nat
    BY <1>1 DEF Global, Keys
  <2> DEFINE w == Packed(pk, IF crypt'[x] THEN pos[x] ELSE Clear)
  <2>4. w \in Seq(Byte) /\ w # << >>
    BY <2>2, <2>3, PackedIs
  <2> HIDE DEF w
  <2>5. d = [c EXCEPT !.todo = Tail(c.todo), !.out = w, !.inWrite = FALSE]
    BY <1>4 DEF Load, Call, w
  <2>6. d \in Call /\ d.op = call[x].op /\ d.out # << >>
          /\ d.want = call[x].want
    <3>1. PICK rest \in Seq(Packet) : rest = Tail(c.todo)
      BY <2>2
    <3> HIDE DEF c, d
    <3>2. d = [c EXCEPT !.todo = rest, !.out = w, !.inWrite = FALSE]
      BY <2>5, <3>1
    <3> QED BY <1>4, <2>4, <3>2 DEF Call
  <2>7. Advance(x, pos[x], HeaderLen + Len(pk.data)) \in Nat
    BY <2>2, <2>3, Params DEF Advance
  <2> HIDE DEF c, d, pk
  <2>8. call' \in [Peers -> Call] /\ call'[x] = d
          /\ \A r \in Peers \ {x} : call'[r] = call[r]
    BY <1>1, <2>1, <2>6 DEF Global
  <2>9. pos' \in [Peers -> Nat] /\ \A r \in Peers \ {x} : pos'[r] = pos[r]
    BY <1>1, <2>1, <2>7 DEF Global
  <2>10. Local(x)'
    BY <1>1, <1>2, <2>1, <2>6, <2>8 DEF Local, Live, Sending, Receiving
  <2> QED BY <1>1, <2>1, <2>8, <2>9, <2>10 DEF Global, Live
<1>7. CASE left = << >> /\ c.todo = << >>
  <2>1. Return(x, "OK") /\ UNCHANGED pos /\ "OK" \in Codes
    BY <1>7 DEF Sent, left, Codes
  <2>2. /\ at' \in [Peers -> 1 .. Len(script) + 1]
        /\ phase' \in [Peers -> {"data", "confirm"}]
        /\ call' \in [Peers -> Call] /\ rc' \in [Peers -> Codes]
        /\ rc'[x] = "OK" /\ Local(x)'
        /\ \A r \in Peers \ {x} : /\ call'[r] = call[r] /\ at'[r] = at[r]
                                  /\ phase'[r] = phase[r] /\ rc'[r] = rc[r]
    BY <1>2, <2>1, ReturnKept
  <2> QED BY <1>1, <2>1, <2>2 DEF Global, Live
<1> QED BY <1>5, <1>6, <1>7

(* What x has left to send, and has loaded, leads on from where it was. *)
LEMMA SentLeads ==
  ASSUME Types, NEW x \in Peers, call[x].op \in Sending,
         NEW n \in 0 .. Len(call[x].out),
         NEW returns \in BOOLEAN, Sent(x, n, returns),
         UNCHANGED <<script, open, crypt, begun, got>>, NEW b, Writes(x, b)
  PROVE  \E new, c :
           /\ new \in Seq(Byte)
           /\ call'[x].out
              = SubSeq(call[x].out, n + 1, Len(call[x].out)) \o new
           /\ Chain(script, x, begun[x], b, new, c) /\ Leads(x, c)'
<1> DEFINE left == SubSeq(call[x].out, n + 1, Len(call[x].out))
           d == [call[x] EXCEPT !.out = left, !.inWrite = ~returns]
<1>1. Global /\ Local(x) /\ Live(x) /\ script \in Scripts
  BY DEF Types, Local, Sending, Global
<1>2. call[x] \in Call /\ call[x].out \in Seq(Byte) /\ call[x].op # "none"
  BY <1>1 DEF Global, Call, Sending
<1>3. left \in Seq(Byte) /\ left \o << >> = left /\ << >> \in Seq(Byte)
  BY <1>2, PieceIs, NoBytes
<1> HIDE DEF left
<1>4. d \in Call /\ d.op = call[x].op /\ d.todo = call[x].todo /\ d.out = left
  BY <1>2, <1>3 DEF Call
<1>5. Counts(x)' = Counts(x)
  BY DEF Counts
<1>6. CASE left # << >>
  <2>1. call' = [call EXCEPT ![x] = d] /\ UNCHANGED <<at, phase, rc, pos>>
    BY <1>6 DEF Sent, left
  <2> HIDE DEF d
  <2>2. call'[x] = d
    BY <1>1, <2>1 DEF Global
  <2>3. Key(x)' = Key(x)
    BY <2>1 DEF Key
  <2>4. Writes(x, b)'
    BY <1>4, <1>5, <2>1, <2>2, <2>3 DEF Writes
  <2>5. Chain(script, x, begun[x], b, << >>, b)
    BY ChainEmpty
  <2> QED BY <1>3, <1>4, <2>2, <2>4, <2>5 DEF Leads, left
<1>7. CASE left = << >> /\ call[x].todo = << >>
  <2>1. Return(x, "OK") /\ UNCHANGED pos /\ "OK" \in Codes
    BY <1>4, <1>7 DEF Sent, left, Codes
  <2>2. call'[x] = Idle
    BY <1>2, <2>1, ReturnKept
  <2>3. Resting(x)' = b /\ b.sent = Counts(x)' /\ b.part = 1
    BY <1>7, <2>1, SentAll
  <2>4. Leads(x, b)'
    BY <2>2, <2>3, IdleIs DEF Leads, Stands
  <2>5. Chain(script, x, begun[x], b, << >>, b)
    BY ChainEmpty
  <2>6. call'[x].out = left \o << >>
    BY <1>3, <1>7, <2>2, IdleIs
  <2> QED BY <1>3, <2>4, <2>5, <2>6 DEF left
<1>8. CASE left = << >> /\ call[x].todo # << >>
  <2> DEFINE pk == Head(call[x].todo)
             w == Packed(pk, Key(x))
             c == [Load(x, d, pos[x]) EXCEPT !.inWrite = FALSE]
  <2>1. /\ call' = [call EXCEPT ![x] = c] /\ UNCHANGED <<at, phase, rc>>
        /\ pos' = [pos EXCEPT ![x] = Advance(x, @, HeaderLen + Len(pk.data))]
    BY <1>4, <1>8 DEF Sent, left
  <2>2. /\ b \in Places /\ Unit(script, b) /\ SentBy(script, x, b)
        /\ b.part = 1
        /\ b.no = at[x] /\ b.phase = phase[x] /\ b.key = Key(x)
        /\ b.sent = [Counts(x) EXCEPT ![x] = @ - 1]
        /\ begun[x] # << >> /\ begun[x][Len(begun[x])] = MessageAt(script, b)
        /\ pk = PacketAt(script, b)
        /\ Tail(call[x].todo) = Rest(script, at[x], phase[x], b.k)
    BY <1>8, SentOne
  <2>3. /\ pk \in Packet /\ Key(x) \in Keys /\ Len(pk.data) \in Nat
        /\ Size(script, b) = HeaderLen + Len(pk.data)
    BY <1>1, <2>2, Lengths, UnitIs DEF Size
  <2>4. w \in Seq(Byte)
    BY <2>3, PackedIs
  <2>5. /\ c.op = call[x].op /\ c.todo = Tail(call[x].todo) /\ c.out = w
    <3>1. (IF crypt'[x] THEN pos[x] ELSE Clear) = Key(x)
      BY DEF Key
    <3> HIDE DEF d, pk
    <3>2. c = [d EXCEPT !.todo = Tail(call[x].todo), !.out = w, !.inWrite =
            FALSE]
      BY <1>4, <3>1 DEF Load, Call, pk
    <3> HIDE DEF w, c
    <3> QED BY <1>4, <3>2 DEF Call
  <2> HIDE DEF c
  <2>6. call'[x] = c
    BY <1>1, <2>1 DEF Global
  <2>7. Key(x)' = Shift(b.key, Size(script, b))
    <3>1. pos[x] \in Nat /\ pos \in [Peers -> Nat]
      BY <1>1 DEF Global
    <3> HIDE DEF pk
    <3>2. pos'[x] = IF crypt[x] THEN pos[x] + (HeaderLen + Len(pk.data))
            ELSE pos[x]
      BY <2>1, <3>1 DEF Advance
    <3> QED BY <2>2, <2>3, <3>1, <3>2 DEF Key, Shift, Clear
  <2>8. PICK z : z = Beyond(script, x, b)
    OBVIOUS
  <2>9. Writes(x, z)'
    <3> HIDE DEF pk, w
    <3>1. /\ b.no = at'[x] /\ b.phase = phase'[x] /\ Unit(script', b)
          /\ SentBy(script', x, b) /\ b.sent = [Counts(x)' EXCEPT ![x] = @ - 1]
          /\ begun'[x] # << >>
          /\ begun'[x][Len(begun'[x])] = MessageAt(script', b)
          /\ call'[x].todo = Rest(script', at'[x], phase'[x], b.k)
          /\ Key(x)' = Shift(b.key, Size(script', b))
          /\ z = Beyond(script', x, b)
      BY <1>5, <2>1, <2>2, <2>5, <2>6, <2>7, <2>8
    <3>2. call'[x].op = IF phase'[x] = "data" THEN "send" ELSE "sendConfirm"
      BY <2>1, <2>5, <2>6 DEF Writes
    <3> QED BY <2>2, <3>1, <3>2 DEF Writes
  <2>10. Chain(script, x, begun[x], b, w, z)
    <3>1. b.sent[x] < Len(begun[x])
            /\ begun[x][b.sent[x] + 1] = MessageAt(script, b)
      <4>1. Counts(x)[x] = Len(begun[x]) /\ Counts(x) \in [Peers -> Nat]
            /\ Len(begun[x]) \in Nat
        BY <1>1, Lengths DEF Counts
      <4>2. b.sent[x] = Len(begun[x]) - 1
        BY <2>2, <4>1
      <4>3. b.sent[x] + 1 = Len(begun[x]) /\ b.sent[x] < Len(begun[x])
        BY <4>1, <4>2
      <4> QED BY <2>2, <4>3
    <3>2. Chain(script, x, begun[x], b, Packed(PacketAt(script, b), b.key),
          Beyond(script, x, b))
      BY <1>1, <2>2, <3>1, ChainPacket
    <3> QED BY <2>2, <2>8, <3>2
  <2>11. call'[x].out = left \o w
    BY <1>8, <2>4, <2>5, <2>6, NoBytes
  <2>12. Leads(x, z)'
    BY <2>9 DEF Leads
  <2> HIDE DEF w
  <2> QED BY <2>4, <2>10, <2>11, <2>12 DEF left
<1> QED BY <1>6, <1>7, <1>8


(* Some bytes of what was loaded go out, and some are loaded after it. *)
LEMMA ChainSent ==
  ASSUME NEW s, NEW p, NEW bg, NEW a, NEW b, NEW c,
         NEW acc \in Seq(Byte), NEW sent \in Seq(Byte),
         NEW piece \in Seq(Byte),
         NEW left \in Seq(Byte), NEW new \in Seq(Byte),
         Chain(s, p, bg, a, (acc \o sent) \o (piece \o left), b),
         Chain(s, p, bg, b, new, c)
  PROVE  Chain(s, p, bg, a, (acc \o (sent \o piece)) \o (left \o new), c)
<1>1. /\ acc \o sent \in Seq(Byte) /\ piece \o left \in Seq(Byte)
      /\ sent \o piece \in Seq(Byte) /\ left \o new \in Seq(Byte)
  BY ConcatProperties
<1>2. PICK m1 : /\ Chain(s, p, bg, a, acc \o sent, m1)
                /\ Chain(s, p, bg, m1, piece \o left, b)
  BY <1>1, ChainSplit
<1>3. PICK m0 : Chain(s, p, bg, a, acc, m0) /\ Chain(s, p, bg, m0, sent, m1)
  BY <1>2, ChainSplit
<1>4. PICK m2 : Chain(s, p, bg, m1, piece, m2) /\ Chain(s, p, bg, m2, left, b)
  BY <1>2, ChainSplit
<1>5. Chain(s, p, bg, m0, sent \o piece, m2)
        /\ Chain(s, p, bg, m2, left \o new, c)
  BY <1>3, <1>4, ChainJoin
<1>6. acc \o (sent \o piece) \in Seq(Byte)
  BY <1>1, ConcatProperties
<1>7. Chain(s, p, bg, a, acc \o (sent \o piece), m2)
  BY <1>1, <1>3, <1>5, ChainJoin
<1> QED BY <1>1, <1>5, <1>6, <1>7, ChainJoin

LEMMA SendWriteKept ==
  ASSUME IInv, NEW x \in Peers, SendWrite(x)
  PROVE  IInv'
<1> DEFINE q == Peer(x)
           out == call[x].out
<1>1. Types /\ Global /\ Local(x) /\ script \in Scripts
  BY DEF IInv, Types, Global
<1>2. call[x].op \in Sending /\ call[x].op # "none" /\ call[x].inWrite
  BY <1>1, IdleIs DEF SendWrite, Local, Sending
<1>3. /\ out \in Seq(Byte) /\ Len(out) \in Nat /\ q \in Peers /\ q # x
      /\ \A r \in Peers : r = x \/ r = q
  BY <1>1, Lengths, LenProperties, Peering
<1>4. wire[x] = << >>
  BY <1>2, Sender
<1>5. /\ wire[q] \in Seq(Byte) /\ Len(wire[q]) \in Nat /\ Len(wire[q]) <= Room
      /\ call[q].acc \in Seq(Byte) /\ Room \in Nat
  BY <1>1, <1>3, Lengths, Params DEF Global
<1>6. CASE \E code \in Codes \ {"OK"} : Fail(x, code)
  BY <1>2, <1>6, FailKept
<1>7. ASSUME NEW n \in 1 .. Least(Room - Len(wire[q]), Len(out)),
             NEW returns \in BOOLEAN,
             wire' = [wire EXCEPT ![q] = @ \o SubSeq(out, 1, n)],
             Sent(x, n, returns),
             UNCHANGED <<script, faults, open, cut, crypt, begun, got>>
      PROVE  IInv'
  <2>1. n \in 0 .. Len(out) /\ Len(wire[q]) + n <= Room
    <3>1. PICK l \in Nat, m \in Nat : l = Len(out) /\ m = Len(wire[q])
      BY <1>3, <1>5
    <3>2. n \in Nat /\ n <= l /\ n <= Room - m
      BY <1>5, <1>7, <3>1 DEF Least
    <3> HIDE DEF out
    <3> QED BY <1>5, <3>1, <3>2
  <2> DEFINE piece == SubSeq(out, 1, n)
             left == SubSeq(out, n + 1, Len(out))
  <2>2. /\ piece \in Seq(Byte) /\ Len(piece) = n /\ left \in Seq(Byte)
        /\ piece \o left = out
    BY <1>3, <2>1, PieceIs
  <2> HIDE DEF piece
  <2>3. /\ wire[q] \o piece \in Seq(Byte)
        /\ Len(wire[q] \o piece) = Len(wire[q]) + n
    BY <1>5, <2>2, ConcatProperties
  <2>4. /\ wire' \in [Peers -> Seq(Byte)] /\ wire'[q] = wire[q] \o piece
        /\ wire'[x] = << >>
    BY <1>1, <1>3, <1>4, <1>7, <2>3 DEF Global, piece
  <2>5. /\ at' \in [Peers -> 1 .. Len(script) + 1]
        /\ phase' \in [Peers -> {"data", "confirm"}]
        /\ call' \in [Peers -> Call] /\ rc' \in [Peers -> Codes]
        /\ pos' \in [Peers -> Nat] /\ Local(x)' /\ Live(x)'
        /\ call'[q] = call[q] /\ at'[q] = at[q] /\ phase'[q] = phase[q]
        /\ rc'[q] = rc[q] /\ pos'[q] = pos[q]
    <3> HIDE DEF q
    <3> QED BY <1>1, <1>2, <1>3, <1>7, <2>1, SentTypes
  <2>6. \A r \in Peers : Len(wire'[r]) <= Room
    <3>1. Len(wire'[x]) <= Room
      BY <2>4, <1>5, NoBytes
    <3>2. Len(wire'[q]) <= Room
      BY <2>1, <2>3, <2>4
    <3> QED BY <1>3, <3>1, <3>2
  <2>7. Global'
    BY <1>1, <1>7, <2>4, <2>5, <2>6 DEF Global
  <2>8. \A r \in Peers \ {x} : Same(r)
    BY <1>3, <1>7, <2>5 DEF Same
  <2>9. Types'
    BY <1>1, <2>5, <2>7, <2>8, TypesFrame
  <2>10. ASSUME Live(q)' PROVE Joined(x, q)'
    <3>1. Same(q) /\ Live(q)
      BY <1>3, <2>8, <2>10, SameStands
    <3>2. PICK a, b : /\ Stands(q, a) /\ Writes(x, b)
                      /\ Chain(script, x, begun[x], a, Between(x, q), b)
      BY <1>2, <3>1, Sender
    <3>3. PICK new, c :
            /\ new \in Seq(Byte)
            /\ call'[x].out = left \o new
            /\ Chain(script, x, begun[x], b, new, c) /\ Leads(x, c)'
      BY <1>1, <1>2, <1>7, <2>1, <3>2, SentLeads
    <3> HIDE DEF q, out, left
    <3>4. Chain(script, x, begun[x], a, (call[q].acc \o wire[q]) \o (piece \o
            left), b)
      BY <2>2, <3>2 DEF Between, out
    <3>5. PICK v \in Seq(Byte), w \in Seq(Byte), l \in Seq(Byte) :
            v = call[q].acc /\ w = wire[q] /\ l = left
      BY <1>5, <2>2
    <3>6. Chain(script, x, begun[x], a, (v \o (w \o piece)) \o (l \o new), c)
      BY <2>2, <3>3, <3>4, <3>5, ChainSent
    <3>7. Chain(script, x, begun[x], a, Between(x, q), c)'
      <4>1. Between(x, q)' = (v \o (w \o piece)) \o (l \o new)
        BY <2>4, <2>5, <3>3, <3>5 DEF Between
      <4> QED BY <1>7, <3>6, <4>1
    <3>8. Stands(q, a)'
      BY <1>3, <3>1, <3>2, SameStands
    <3> QED BY <3>3, <3>7, <3>8 DEF Joined
  <2> QED BY <1>3, <2>4, <2>9, <2>10 DEF IInv, Wired
<1>8. CASE /\ ~open[q] /\ crypt' = crypt /\ cut' = [cut EXCEPT ![x] = TRUE]
           /\ wire' = [wire EXCEPT ![x] = << >>] /\ Sent(x, Len(out), TRUE)
           /\ UNCHANGED <<script, faults, open, begun, got>>
  <2>1. Len(out) \in 0 .. Len(out) /\ TRUE \in BOOLEAN
    BY <1>3
  <2>2. /\ at' \in [Peers -> 1 .. Len(script) + 1]
        /\ phase' \in [Peers -> {"data", "confirm"}]
        /\ call' \in [Peers -> Call] /\ rc' \in [Peers -> Codes]
        /\ pos' \in [Peers -> Nat] /\ Local(x)' /\ Live(x)'
        /\ call'[q] = call[q] /\ at'[q] = at[q] /\ phase'[q] = phase[q]
        /\ rc'[q] = rc[q] /\ pos'[q] = pos[q]
    <3> HIDE DEF q
    <3> QED BY <1>1, <1>2, <1>3, <1>8, <2>1, SentTypes
  <2>3. wire' = wire /\ cut' \in [Peers -> BOOLEAN]
    BY <1>1, <1>4, <1>8 DEF Global
  <2>4. Global'
    BY <1>1, <1>8, <2>2, <2>3 DEF Global
  <2>5. \A r \in Peers \ {x} : Same(r)
    BY <1>3, <1>8, <2>2 DEF Same
  <2>6. Types'
    BY <1>1, <2>2, <2>4, <2>5, TypesFrame
  <2>7. wire'[x] = << >> /\ ~Live(q)'
    BY <1>4, <1>8, <2>3 DEF Live
  <2> QED BY <2>6, <2>7 DEF IInv, Wired
<1> QED
  <2>1. "SOCKWRITE" \in Codes \ {"OK"} /\ {FALSE, faults} \subseteq BOOLEAN
    BY <1>1 DEF Codes, Global
  <2> QED BY <1>6, <1>7, <1>8, <2>1 DEF SendWrite

(***************************************************************************)
(* A read                                                                  *)
(***************************************************************************)

(* A peer that has something to read is the one behind. *)
LEMMA Reader ==
  ASSUME IInv, NEW x \in Peers, wire[x] # << >>,
         call[x].op \in Receiving \cup {"stream"}
  PROVE  /\ wire[Peer(x)] = << >> /\ Live(x)
         /\ \E a, b :
              /\ Stands(x, a) /\ (Live(Peer(x)) => Leads(Peer(x), b))
              /\ Chain(script, Peer(x), begun[Peer(x)], a, Between(Peer(x), x),
                 b)
<1>1. Types /\ Global /\ Local(x)
  BY DEF IInv, Types
<1>2. PICK p \in Peers : wire[p] = << >>
        /\ (Live(Peer(p)) => Joined(p, Peer(p)))
  BY DEF IInv, Wired
<1>3. p = Peer(x) /\ Peer(p) = x
  BY <1>2, Peering
<1>4. Live(x)
  BY <1>1 DEF Local, Receiving
<1>5. Joined(Peer(x), x)
  BY <1>2, <1>3, <1>4
<1> QED BY <1>2, <1>3, <1>4, <1>5 DEF Joined

(* What x has read is still what its peer has sent. *)
LEMMA ReadOn ==
  ASSUME IInv, NEW x \in Peers, wire[x] # << >>,
         call[x].op \in Receiving \cup {"stream"},
         Types', \A r \in Peers \ {x} : Same(r), UNCHANGED <<script, begun>>,
         NEW rest, wire' = [wire EXCEPT ![x] = rest],
         NEW a, NEW b, Live(Peer(x)) => Leads(Peer(x), b), Stands(x, a)',
         Chain(script, Peer(x), begun[Peer(x)], a,
               (call'[x].acc \o rest) \o call[Peer(x)].out, b)
  PROVE  IInv'
<1> DEFINE p == Peer(x)
<1>1. p \in Peers /\ p # x /\ Peer(p) = x /\ Same(p)
  BY Peering
<1>2. wire'[p] = << >> /\ wire'[x] = rest
  BY <1>1, Reader DEF IInv, Types, Global
<1> HIDE DEF p
<1>3. Between(p, x)' = (call'[x].acc \o rest) \o call[p].out
  BY <1>1, <1>2 DEF Between, Same
<1>4. Chain(script, p, begun[p], a, Between(p, x), b)'
  BY <1>3 DEF p
<1>5. Live(p)' => Leads(p, b)'
  BY <1>1, SameStands DEF p
<1>6. Joined(p, x)'
  BY <1>4, <1>5 DEF Joined
<1> QED BY <1>1, <1>2, <1>6 DEF IInv, Wired

LEMMA ChainRead ==
  ASSUME NEW s, NEW p, NEW bg, NEW a, NEW b, NEW acc \in Seq(Byte),
         NEW piece \in Seq(Byte), NEW rest \in Seq(Byte),
         NEW out \in Seq(Byte),
         Chain(s, p, bg, a, (acc \o (piece \o rest)) \o out, b)
  PROVE  /\ \E m : /\ Chain(s, p, bg, a, acc \o piece, m)
                   /\ Chain(s, p, bg, m, (<< >> \o rest) \o out, b)
         /\ Chain(s, p, bg, a, ((acc \o piece) \o rest) \o out, b)
<1>1. /\ piece \o rest \in Seq(Byte) /\ acc \o piece \in Seq(Byte)
      /\ << >> \o rest = rest
  BY ConcatProperties, NoBytes
<1>2. acc \o (piece \o rest) \in Seq(Byte)
        /\ (acc \o piece) \o rest \in Seq(Byte)
  BY <1>1, ConcatProperties
<1>3. PICK m3 : /\ Chain(s, p, bg, a, acc \o (piece \o rest), m3)
                /\ Chain(s, p, bg, m3, out, b)
  BY <1>2, ChainSplit
<1>4. PICK m1 : /\ Chain(s, p, bg, a, acc, m1)
                /\ Chain(s, p, bg, m1, piece \o rest, m3)
  BY <1>1, <1>3, ChainSplit
<1>5. PICK m2 : Chain(s, p, bg, m1, piece, m2) /\ Chain(s, p, bg, m2, rest, m3)
  BY <1>4, ChainSplit
<1>6. Chain(s, p, bg, a, acc \o piece, m2)
  BY <1>4, <1>5, ChainJoin
<1>7. Chain(s, p, bg, m2, rest \o out, b)
  BY <1>3, <1>5, ChainJoin
<1>8. Chain(s, p, bg, a, (acc \o piece) \o rest, m3)
  BY <1>1, <1>5, <1>6, ChainJoin
<1>9. Chain(s, p, bg, a, ((acc \o piece) \o rest) \o out, b)
  BY <1>2, <1>3, <1>8, ChainJoin
<1> QED BY <1>1, <1>6, <1>7, <1>9

(* x has received the last packet of a message: where it comes to rest. *)
LEMMA ReceivedAll ==
  ASSUME Types, NEW x \in Peers, call[x].op \in Receiving, NEW a \in Places,
         Unit(script, a), a.no = at[x], a.phase = phase[x], a.sent = Counts(x),
         phase[x] = "data" => ~ (a.k < Len(script[at[x]].bufs)),
         NEW message \in Seq(Seq(Datum)),
         got' = [got EXCEPT ![x] = Append(@, message)],
         Return(x, "OK"), UNCHANGED <<script, begun>>,
         Key(x)' = Shift(a.key, Size(script, a))
  PROVE  /\ Resting(x)' = Beyond(script, Peer(x), a)
         /\ Beyond(script, Peer(x), a).sent = Counts(x)'
         /\ got' \in [Peers -> Seq(Seq(Seq(Datum)))]
<1> DEFINE n == at[x]
           e == script[n]
           p == Peer(x)
<1>1. Global /\ Local(x) /\ p \in Peers /\ p # x
        /\ \A r \in Peers : r = x \/ r = p
  BY Peering DEF Types
<1>2. /\ n \in 1 .. Len(script) /\ Len(script) \in Nat /\ script \in Scripts
      /\ n + 1 \in 1 .. Len(script) + 1 /\ Counts(x) \in [Peers -> Nat]
      /\ phase[x] \in {"data", "confirm"} /\ call[x].op # "stream"
  <2>1. n \in 1 .. Len(script) + 1 /\ Len(script) \in Nat /\ n <= Len(script)
    BY <1>1, Lengths DEF Global, Local, Receiving
  <2>2. script \in Scripts /\ phase[x] \in {"data", "confirm"}
    BY <1>1 DEF Global
  <2>3. call[x].op # "stream" /\ Counts(x) \in [Peers -> Nat]
    BY <1>1, Lengths DEF Receiving
  <2> HIDE DEF n
  <2> QED BY <2>1, <2>2, <2>3
<1>3. LET toConfirm == phase[x] = "data" /\ e.confirm # "none"
      IN /\ phase'[x] = IF toConfirm THEN "confirm" ELSE "data"
         /\ at'[x] = IF toConfirm THEN n ELSE n + 1
  BY <1>1, <1>2 DEF Return, Exchange, Global
<1>4. /\ got[x] \in Seq(Seq(Seq(Datum))) /\ got'[x] = Append(got[x], message)
      /\ got'[x] \in Seq(Seq(Seq(Datum))) /\ Len(got'[x]) = Len(got[x]) + 1
      /\ Len(got[x]) \in Nat
  <2>1. got[x] \in Seq(Seq(Seq(Datum))) /\ got'[x] = Append(got[x], message)
    BY <1>1 DEF Global
  <2>2. PICK g \in Seq(Seq(Seq(Datum))) : g = got[x]
    BY <2>1
  <2>3. /\ Append(g, message) \in Seq(Seq(Seq(Datum))) /\ Len(g) \in Nat
        /\ Len(Append(g, message)) = Len(g) + 1
    BY AppendIs
  <2> QED BY <2>1, <2>2, <2>3
<1>5. got' \in [Peers -> Seq(Seq(Seq(Datum)))]
  BY <1>1, <1>4 DEF Global
<1>6. Counts(x)' = [Counts(x) EXCEPT ![p] = @ + 1]
  <2> DEFINE f == Counts(x)
             g == Counts(x)'
  <2>1. /\ f = [y \in Peers |-> IF y = x THEN Len(begun[x]) ELSE Len(got[x])]
        /\ g = [y \in Peers |-> IF y = x THEN Len(begun[x]) ELSE Len(got[x]) +
           1]
    BY <1>4 DEF Counts
  <2> HIDE DEF f, g
  <2>2. g = [f EXCEPT ![p] = @ + 1]
    BY <1>1, <2>1
  <2> QED BY <2>2 DEF f, g
<1>7. Beyond(script, p, a)
        = AfterPacket(script, p, n, phase[x], a.k, Key(x)', Counts(x))
  BY DEF Beyond
<1>8. Key(x)' \in Keys
  <2>1. Size(script, a) \in Nat /\ a.key \in Keys
    BY <1>2, UnitIs DEF Places
  <2> QED BY <2>1, Shifted
<1>9. CASE phase[x] = "data" /\ e.confirm # "none"
  <2>1. Beyond(script, p, a) = Place(n, "confirm", 1, 1, Key(x)', Counts(x)')
    BY <1>6, <1>7, <1>9 DEF AfterPacket
  <2>2. phase'[x] = "confirm" /\ at'[x] = n
    BY <1>3, <1>9
  <2> HIDE DEF n
  <2> QED BY <1>5, <2>1, <2>2 DEF Resting, Place
<1>10. CASE ~ (phase[x] = "data" /\ e.confirm # "none")
  <2>1. Beyond(script, p, a) = Start(script, n + 1, Counts(x)')
    BY <1>6, <1>7, <1>10 DEF AfterPacket
  <2>2. phase'[x] = "data" /\ at'[x] = n + 1
    BY <1>3, <1>10
  <2>3. Counts(x)' \in [Peers -> Nat]
    <3>1. PICK f \in [Peers -> Nat] : f = Counts(x)
      BY <1>2
    <3>2. [f EXCEPT ![p] = @ + 1] \in [Peers -> Nat]
      BY <1>1
    <3> QED BY <1>6, <3>1, <3>2
  <2> HIDE DEF n
  <2>4. Start(script, n + 1, Counts(x)').sent = Counts(x)'
    BY <1>2, <2>3, StartPlace
  <2> QED BY <1>5, <2>1, <2>2, <2>4 DEF Resting
<1> QED BY <1>9, <1>10

LEMMA PrefixAppended ==
  ASSUME NEW S, NEW t \in Seq(S), NEW k \in 1 .. Len(t)
  PROVE  Append(SubSeq(t, 1, k - 1), t[k]) = SubSeq(t, 1, k)
<1>1. /\ Len(t) \in Nat /\ k \in Nat /\ k - 1 \in Nat /\ (k - 1) + 1 = k
      /\ k - 1 \in 0 .. Len(t) /\ k \in 0 .. Len(t)
  BY LenProperties
<1>2. /\ \A i \in 1 .. k : t[i] \in S
      /\ \A i \in 1 .. k - 1 : t[i] \in S
  BY <1>1, ElementOfSeq
<1>3. /\ SubSeq(t, 1, k) \in Seq(S) /\ Len(SubSeq(t, 1, k)) = k
      /\ SubSeq(t, 1, k - 1) \in Seq(S) /\ Len(SubSeq(t, 1, k - 1)) = k - 1
  BY <1>1, PieceIs
<1>4. /\ \A i \in 1 .. k : SubSeq(t, 1, k)[i] = t[i]
      /\ \A i \in 1 .. k - 1 : SubSeq(t, 1, k - 1)[i] = t[i]
  BY <1>1, <1>2, SubSeqProperties
<1>5. PICK u \in Seq(S) : u = SubSeq(t, 1, k - 1)
  BY <1>3
<1>6. PICK v \in Seq(S) : v = SubSeq(t, 1, k)
  BY <1>3
<1>7. /\ Append(u, t[k]) \in Seq(S) /\ Len(Append(u, t[k])) = Len(u) + 1
      /\ Append(u, t[k])[Len(u) + 1] = t[k]
      /\ \A i \in 1 .. Len(u) : Append(u, t[k])[i] = u[i]
  BY <1>1, <1>2, AppendIs
<1>8. Len(u) = k - 1 /\ Len(v) = k
  BY <1>3, <1>5, <1>6
<1>9. PICK w \in Seq(S) : w = Append(u, t[k])
  BY <1>7
<1>10. Len(w) = Len(v)
  BY <1>1, <1>7, <1>8, <1>9
<1>11. ASSUME NEW i \in 1 .. Len(w) PROVE w[i] = v[i]
  <2>1. i \in 1 .. k
    BY <1>8, <1>10
  <2>2. v[i] = t[i]
    BY <1>4, <1>6, <2>1
  <2>3. CASE i = k
    BY <1>1, <1>7, <1>8, <1>9, <2>2, <2>3
  <2>4. CASE i # k
    <3>1. i \in 1 .. k - 1
      BY <1>1, <2>1, <2>4
    <3> QED BY <1>4, <1>5, <1>7, <1>8, <1>9, <2>2, <3>1
  <2> QED BY <2>3, <2>4
<1>12. w = v
  BY <1>10, <1>11, SeqEqual
<1> QED BY <1>5, <1>6, <1>9, <1>12

(* The message at pl is the next one that the peer has begun. *)
Coming(x, pl) ==
  /\ pl.sent[Peer(x)] < Len(begun[Peer(x)])
  /\ begun[Peer(x)][pl.sent[Peer(x)] + 1] = MessageAt(script, pl)

(* What a read gives to x: nothing yet, or that message. *)
Takes(x) ==
  LET q == Peer(x)
      next == Len(got[x]) + 1
  IN \/ UNCHANGED got
     \/ /\ next <= Len(begun[q])
        /\ \E m \in {begun[q][next], MS!LastOnly(begun[q][next])} :
             got' = [got EXCEPT ![x] = Append(@, m)]

(* A buffer is complete: it is the one that the peer has sent, so the call *)
(* goes on to the next buffer exactly when the message has one.            *)
LEMMA BufferKept ==
  ASSUME IInv, NEW x \in Peers, wire[x] # << >>, call[x].op \in Receiving,
         NEW a \in Places, NEW pl, Reads(x, pl), a.no = pl.no,
         a.phase = pl.phase,
         a.k = pl.k, Unit(script, a), a.sent = Counts(x), Coming(x, a),
         NEW c, c.op = call[x].op, c.head = PacketAt(script, a),
         c.have = call[x].have,
         Buffer(x, c, PacketAt(script, a).data),
         UNCHANGED <<script, faults, open, cut, begun, crypt>>,
         NEW rest \in Seq(Byte), Len(rest) <= Room,
         wire' = [wire EXCEPT ![x] = rest],
         pos' \in [Peers -> Nat], \A r \in Peers \ {x} : pos'[r] = pos[r],
         Key(x)' = Shift(a.key, Size(script, a)),
         NEW b, Live(Peer(x)) => Leads(Peer(x), b),
         Chain(script, Peer(x), begun[Peer(x)], Beyond(script, Peer(x), a),
               (<< >> \o rest) \o call[Peer(x)].out, b)
  PROVE  IInv' /\ Takes(x)
<1> DEFINE n == at[x]
           e == script[n]
           data == PacketAt(script, a).data
           have == IF e.as = "string" THEN <<data>> ELSE Append(c.have, data)
           next == Beyond(script, Peer(x), a)
<1>1. Types /\ Global /\ Local(x)
  BY DEF IInv, Types
<1>2. /\ n \in 1 .. Len(script) /\ Len(script) \in Nat /\ script \in Scripts
      /\ n + 1 \in 1 .. Len(script) + 1 /\ Counts(x) \in [Peers -> Nat]
      /\ phase[x] \in {"data", "confirm"}
      /\ call[x].op \in {"recv", "recvConfirm"}
      /\ call[x] \in Call /\ Live(x)
  <2>1. n \in 1 .. Len(script) + 1 /\ Len(script) \in Nat /\ n <= Len(script)
    BY <1>1, Lengths DEF Global, Local, Receiving
  <2>2. /\ script \in Scripts /\ phase[x] \in {"data", "confirm"}
        /\ call[x] \in Call
        /\ Live(x) /\ call[x].op \in {"recv", "recvConfirm"}
    BY <1>1 DEF Global, Local, Receiving
  <2>3. Counts(x) \in [Peers -> Nat]
    BY <1>1, Lengths
  <2> HIDE DEF n
  <2> QED BY <2>1, <2>2, <2>3
<1>3. a.no = n /\ a.phase = phase[x]
  BY DEF Reads
<1>4. /\ call[x].op = IF phase[x] = "data" THEN "recv" ELSE "recvConfirm"
      /\ phase[x] = "data"
         /\ e.as # "string" => c.have = SubSeq(e.bufs, 1, a.k - 1)
      /\ c.have \in Seq(Seq(Datum))
  BY <1>2 DEF Reads, Call
<1>5. /\ data \in Seq(Datum) /\ wire' \in [Peers -> Seq(Byte)]
      /\ \A r \in Peers : Len(wire'[r]) <= Room
  BY <1>1, <1>2, UnitIs DEF Global
<1>6. <<data>> \in Seq(Seq(Datum)) /\ Append(c.have, data) \in Seq(Seq(Datum))
  <2>1. PICK h \in Seq(Seq(Datum)) : h = c.have
    BY <1>4
  <2> HIDE DEF data
  <2>2. Append(h, data) \in Seq(Seq(Datum))
    BY <1>5, AppendIs
  <2>3. <<data>> \in Seq(Seq(Datum))
    BY <1>5
  <2> QED BY <2>1, <2>2, <2>3
<1> HIDE DEF data
<1>7. have \in Seq(Seq(Datum))
  BY <1>6
<1> HIDE DEF have
<1>8. ASSUME NEW message \in Seq(Seq(Datum)), Return(x, "OK"),
             got' = [got EXCEPT ![x] = Append(@, message)],
             phase[x] = "data" => ~ (a.k < Len(e.bufs))
      PROVE  IInv'
  <2>1. /\ Resting(x)' = next /\ next.sent = Counts(x)'
        /\ got' \in [Peers -> Seq(Seq(Seq(Datum)))]
    BY <1>1, <1>3, <1>8, ReceivedAll
  <2>2. /\ at' \in [Peers -> 1 .. Len(script) + 1]
        /\ phase' \in [Peers -> {"data", "confirm"}]
        /\ call' \in [Peers -> Call] /\ rc' \in [Peers -> Codes]
        /\ call'[x] = Idle /\ Local(x)'
        /\ \A r \in Peers \ {x} : /\ call'[r] = call[r] /\ at'[r] = at[r]
                                  /\ phase'[r] = phase[r] /\ rc'[r] = rc[r]
    <3>1. "OK" \in Codes /\ call[x].op # "none"
      BY <1>2 DEF Codes
    <3> QED BY <1>1, <1>8, <3>1, ReturnKept
  <2>3. Global'
    BY <1>1, <1>5, <2>1, <2>2 DEF Global
  <2>4. \A r \in Peers \ {x} : Same(r)
    BY <1>1, <1>8, <2>2 DEF Same, Global
  <2>5. Types'
    BY <1>1, <2>2, <2>3, <2>4, TypesFrame
  <2>6. Stands(x, next)'
    BY <2>1, <2>2 DEF Stands
  <2>7. call'[x].acc = << >>
    BY <2>2, IdleIs
  <2>8. UNCHANGED <<script, begun>>
    OBVIOUS
  <2> QED BY <2>4, <2>5, <2>6, <2>7, <2>8, ReadOn
<1>9. ASSUME NEW message,
             message \in {MessageAt(script, a), MS!LastOnly(MessageAt(script,
             a))},
             got' = [got EXCEPT ![x] = Append(@, message)]
      PROVE  Takes(x)
  <2>1. Peer(x) \in Peers /\ Peer(x) # x /\ Len(got[x]) \in Nat
    BY <1>1, Peering, Lengths
  <2>2. a.sent[Peer(x)] = Len(got[x])
    BY <2>1 DEF Counts
  <2>3. PICK k \in Nat, l \in Nat : k = Len(got[x]) /\ l = Len(begun[Peer(x)])
    BY <1>1, <2>1, Lengths
  <2>4. k + 1 <= l /\ begun[Peer(x)][k + 1] = MessageAt(script, a)
    BY <2>2, <2>3 DEF Coming
  <2> QED BY <1>9, <2>3, <2>4 DEF Takes
<1>10. CASE phase[x] = "confirm"
  <2>1. c.op = "recvConfirm"
    BY <1>4, <1>10
  <2>2. e.confirm # "none" /\ c.head = Confirmation(e)
    BY <1>2, <1>3, <1>10 DEF Unit, PacketAt
  <2>3. c.head.flags \cap {"YES", "NO"} # {}
    BY <1>2, <2>2, ConfirmationIs
  <2>4. Return(x, "OK") /\ got' = [got EXCEPT ![x] = Append(@, <<data>>)]
    BY <2>1, <2>3 DEF Buffer, data
  <2>5. <<data>> = MessageAt(script, a)
    BY <1>3, <1>10, <2>2 DEF MessageAt, data
  <2> QED BY <1>6, <1>8, <1>10, <1>9, <2>4, <2>5
<1>11. CASE phase[x] = "data"
  <2>1. c.op = "recv"
    BY <1>4, <1>11
  <2>2. /\ a.k \in 1 .. Len(e.bufs) /\ Len(e.bufs) \in Nat
        /\ e.bufs \in Seq(Seq(Datum))
    BY <1>2, <1>3, <1>11, Buffers DEF Unit
  <2>3. /\ c.head.flags = IF a.k = Len(e.bufs) THEN {"LAST"} ELSE {}
        /\ data = e.bufs[a.k]
    <3>1. PacketAt(script, a) = Packets(e)[a.k]
      BY <1>3, <1>11 DEF PacketAt
    <3>2. /\ Packets(e)[a.k].flags = IF a.k = Len(e.bufs) THEN {"LAST"} ELSE {}
          /\ Packets(e)[a.k].data = e.bufs[a.k]
      <4> HIDE DEF n
      <4> QED BY <1>2, <2>2, PacketsAre
    <3> QED BY <3>1, <3>2 DEF data
  <2>4. CASE a.k = Len(e.bufs)
    <3>1. Return(x, "OK") /\ got' = [got EXCEPT ![x] = Append(@, have)]
      BY <2>1, <2>3, <2>4 DEF Buffer, data, have, Exchange
    <3>2. ~ (a.k < Len(e.bufs))
      BY <2>2, <2>4
    <3>3. MessageAt(script, a) = e.bufs
      BY <1>3, <1>11 DEF MessageAt
    <3>4. CASE e.as = "string"
      <4>1. have = MS!LastOnly(e.bufs)
        BY <2>3, <2>4, <3>4 DEF have, MS!LastOnly
      <4> QED BY <1>7, <1>8, <1>9, <3>1, <3>2, <3>3, <4>1
    <3>5. CASE e.as # "string"
      <4>1. have = Append(SubSeq(e.bufs, 1, a.k - 1), e.bufs[a.k])
        BY <1>4, <1>11, <2>3, <3>5 DEF have
      <4>2. PICK t \in Seq(Seq(Datum)) : t = e.bufs
        BY <2>2
      <4>3. PICK k \in 1 .. Len(t) : k = a.k
        BY <2>2, <4>2
      <4>4. Append(SubSeq(t, 1, k - 1), t[k]) = SubSeq(t, 1, k)
              /\ SubSeq(t, 1, Len(t)) = t
        BY PrefixAppended, SubSeqFull
      <4>5. have = MessageAt(script, a)
        BY <2>4, <3>3, <4>1, <4>2, <4>3, <4>4
      <4> QED BY <1>7, <1>8, <1>9, <3>1, <3>2, <4>5
    <3> QED BY <3>4, <3>5
  <2>5. CASE a.k # Len(e.bufs)
    <3> DEFINE d == [Idle EXCEPT !.op = "recv", !.want = HeaderLen, !.have =
          have]
    <3>1. call' = [call EXCEPT ![x] = d] /\ UNCHANGED <<at, phase, rc, got>>
      BY <2>1, <2>3, <2>5 DEF Buffer, data, have, Exchange
    <3>2. /\ d \in Call /\ d.op = "recv" /\ d.want = HeaderLen /\ d.have = have
          /\ d.acc = << >> /\ d.head = NoPacket /\ ~d.inWrite
      BY <1>7, IdleIs, Params DEF Idle, Call
    <3> HIDE DEF d
    <3>3. call' \in [Peers -> Call] /\ call'[x] = d
          /\ \A r \in Peers \ {x} : call'[r] = call[r]
      BY <1>1, <3>1, <3>2 DEF Global
    <3>4. Global'
      BY <1>1, <1>5, <3>1, <3>3 DEF Global
    <3>5. Local(x)'
      BY <1>1, <1>2, <3>1, <3>2, <3>3, Params DEF Local, Live, Sending,
         Receiving
    <3>6. \A r \in Peers \ {x} : Same(r)
      BY <3>1, <3>3 DEF Same
    <3>7. Types'
      BY <1>1, <3>4, <3>5, <3>6, TypesFrame
    <3>8. Key(x)' \in Keys
      <4>1. Size(script, a) \in Nat /\ a.key \in Keys
        BY <1>2, UnitIs DEF Places
      <4> QED BY <4>1, Shifted
    <3>9. next = Place(n, "data", a.k + 1, 1, Key(x)', Counts(x))
      BY <1>3, <1>11, <2>2, <2>5 DEF Beyond, AfterPacket
    <3>10. /\ next.no = n /\ next.phase = "data" /\ next.k = a.k + 1
           /\ next.part = 1
           /\ next.key = Key(x)' /\ next.sent = Counts(x)
      BY <3>9 DEF Place
    <3>11. a.k + 1 \in 1 .. Len(e.bufs) /\ DOMAIN e.bufs = 1 .. Len(e.bufs)
      <4>1. PICK l \in Nat : l = Len(e.bufs)
        BY <2>2
      <4>2. a.k + 1 \in 1 .. l
        BY <2>2, <2>5, <4>1
      <4>3. DOMAIN e.bufs = 1 .. Len(e.bufs)
        BY <2>2, LenProperties
      <4> QED BY <4>1, <4>2, <4>3
    <3>12. Unit(script, next)
      BY <1>3, <1>11, <3>10, <3>11 DEF Unit
    <3>13. e.as # "string" => have = SubSeq(e.bufs, 1, (a.k + 1) - 1)
      <4> SUFFICES ASSUME e.as # "string"
          PROVE  have = SubSeq(e.bufs, 1, (a.k + 1) - 1)
        OBVIOUS
      <4>1. have = Append(SubSeq(e.bufs, 1, a.k - 1), e.bufs[a.k])
        BY <1>4, <1>11, <2>3 DEF have
      <4>2. PICK t \in Seq(Seq(Datum)) : t = e.bufs
        BY <2>2
      <4>3. PICK k \in 1 .. Len(t) : k = a.k
        BY <2>2, <4>2
      <4>4. Append(SubSeq(t, 1, k - 1), t[k]) = SubSeq(t, 1, k)
        BY PrefixAppended
      <4>5. (a.k + 1) - 1 = a.k
        BY <2>2
      <4> QED BY <4>1, <4>2, <4>3, <4>4, <4>5
    <3>14. Counts(x)' = Counts(x)
      BY <3>1 DEF Counts
    <3>15. Reads(x, next)'
      <4>1. d.want + Len(d.acc) = HeaderLen
        BY <3>2, NoBytes, Params
      <4> QED BY <1>11, <3>1, <3>2, <3>3, <3>10, <3>12, <3>13, <4>1 DEF Reads
    <3>16. Stands(x, next)'
      BY <3>10, <3>14, <3>15 DEF Stands
    <3>17. call'[x].acc = << >>
      BY <3>2, <3>3
    <3>18. Takes(x)
      BY <3>1 DEF Takes
    <3> QED BY <3>6, <3>7, <3>16, <3>17, <3>18, ReadOn
  <2> QED BY <2>4, <2>5
<1> QED BY <1>2, <1>10, <1>11

LEMMA KeyMoves ==
  ASSUME Types, NEW x \in Peers, NEW n \in Nat, crypt' = crypt,
         pos' = [pos EXCEPT ![x] = Advance(x, @, n)]
  PROVE  /\ Key(x)' = Shift(Key(x), n) /\ pos' \in [Peers -> Nat]
         /\ \A r \in Peers \ {x} : pos'[r] = pos[r]
<1>1. pos \in [Peers -> Nat] /\ pos[x] \in Nat
  BY DEF Types, Global
<1>2. pos'[x] = IF crypt[x] THEN pos[x] + n ELSE pos[x]
  BY <1>1 DEF Advance
<1>3. pos' \in [Peers -> Nat] /\ \A r \in Peers \ {x} : pos'[r] = pos[r]
  BY <1>1 DEF Advance
<1> QED BY <1>1, <1>2, <1>3 DEF Key, Shift, Clear

(* A header is complete, and it is the right one. *)
LEMMA HeaderKept ==
  ASSUME IInv, NEW x \in Peers, wire[x] # << >>, call[x].op \in Receiving,
         NEW pl \in Places, Reads(x, pl), pl.sent = Counts(x), Coming(x, pl),
         call[x].head = NoPacket,
         NEW bytes \in Seq(Byte), Len(bytes) = HeaderLen,
         NEW m, Chain(script, Peer(x), begun[Peer(x)], pl, bytes, m),
         NEW c \in Call, c.op = call[x].op, c.head = NoPacket,
         c.have = call[x].have,
         c.acc = bytes, ~c.inWrite, Complete(x, c),
         UNCHANGED <<script, faults, open, cut, begun, crypt>>,
         NEW rest \in Seq(Byte), Len(rest) <= Room,
         wire' = [wire EXCEPT ![x] = rest],
         NEW b, Live(Peer(x)) => Leads(Peer(x), b),
         Chain(script, Peer(x), begun[Peer(x)], m,
               (<< >> \o rest) \o call[Peer(x)].out, b)
  PROVE  IInv' /\ Takes(x)
<1> DEFINE pkt == PacketAt(script, pl)
           p == Peer(x)
<1>1. /\ Types /\ Global /\ Local(x) /\ script \in Scripts /\ Live(x)
      /\ call[x].op # "none" /\ p \in Peers /\ HeaderLen \in Nat
      /\ HeaderLen > 0
      /\ pos[x] \in Nat /\ crypt[x] \in BOOLEAN
  BY Peering, Params DEF IInv, Types, Global, Local, Receiving
<1>2. /\ pl.no = at[x] /\ pl.phase = phase[x] /\ Unit(script, pl)
      /\ pl.part = 1 /\ pl.key = Key(x)
  <2>1. NoPacket.data = << >>
    BY DEF NoPacket
  <2> QED BY <2>1 DEF Reads
<1>3. /\ pkt \in Packet /\ pkt.data \in Seq(Datum) /\ Len(pkt.data) \in Nat
      /\ Size(script, pl) = HeaderLen + Len(pkt.data) /\ "RAW" \notin pkt.flags
  BY <1>1, <1>2, UnitIs DEF Size
<1> HIDE DEF pkt, p
<1>4. /\ m = Inside(script, p, pl, HeaderLen)
      /\ \A i \in 1 .. HeaderLen :
           bytes[i] = [pkt |-> pkt, part |-> i, key |-> Shift(pl.key, i - 1)]
  <2>1. pl.part <= Size(script, pl)
          /\ pl.part + Len(bytes) <= Size(script, pl) + 1
    BY <1>1, <1>2, <1>3
  <2>2. /\ m = Inside(script, p, pl, Len(bytes))
        /\ \A i \in 1 .. Len(bytes) :
             bytes[i] = [pkt |-> pkt, part |-> pl.part + i - 1,
                         key |-> Shift(pl.key, pl.part + i - 2)]
    <3>1. /\ script \in Scripts /\ Peer(x) \in Peers /\ Unit(script, pl)
          /\ Chain(script, Peer(x), begun[Peer(x)], pl, bytes, m)
      BY <1>1, <1>2 DEF p
    <3>2. PICK s, z, bg : s = script /\ z = Peer(x) /\ bg = begun[Peer(x)]
      OBVIOUS
    <3>3. /\ s \in Scripts /\ z \in Peers /\ Unit(s, pl)
          /\ Chain(s, z, bg, pl, bytes, m)
          /\ pl.part <= Size(s, pl) /\ pl.part + Len(bytes) <= Size(s, pl) + 1
      BY <2>1, <3>1, <3>2
    <3>4. /\ m = Inside(s, z, pl, Len(bytes))
          /\ \A i \in 1 .. Len(bytes) :
               bytes[i] = [pkt |-> PacketAt(s, pl), part |-> pl.part + i - 1,
                           key |-> Shift(pl.key, pl.part + i - 2)]
      BY ONLY <3>3, pl \in Places, bytes \in Seq(Byte), Along
    <3> QED BY <3>2, <3>4 DEF pkt, p
  <2>3. \A i \in 1 .. HeaderLen : 1 + i - 1 = i /\ 1 + i - 2 = i - 1
    BY <1>1
  <2> QED BY <1>2, <2>2, <2>3
<1>5. /\ \A i \in 1 .. HeaderLen :
           /\ bytes[i].part = i /\ bytes[i].pkt = pkt
           /\ bytes[i].key = Shift(pl.key, i - 1)
      /\ bytes[1].pkt = pkt
  BY <1>1, <1>4
<1>6. RightHeader(x, c.acc)
  <2>1. \A i \in 1 .. HeaderLen :
          Shift(Key(x), i - 1) = IF crypt[x] THEN pos[x] + i - 1 ELSE Clear
    BY <1>1 DEF Shift, Key, Clear
  <2> QED BY <1>2, <1>3, <1>5, <2>1 DEF RightHeader
<1>7. pos' = [pos EXCEPT ![x] = Advance(x, @, HeaderLen)]
  BY DEF Complete
<1>8. /\ Key(x)' = Shift(pl.key, HeaderLen) /\ pos' \in [Peers -> Nat]
      /\ \A r \in Peers \ {x} : pos'[r] = pos[r]
  BY <1>1, <1>2, <1>7, KeyMoves
<1>9. /\ wire' \in [Peers -> Seq(Byte)]
      /\ \A r \in Peers : Len(wire'[r]) <= Room
      /\ \A r \in Peers \ {x} : wire'[r] = wire[r]
  BY <1>1 DEF Global
<1>10. CASE Return(x, "BUF_SIZE_EXCEEDED") /\ UNCHANGED got
  <2>1. "BUF_SIZE_EXCEEDED" \in Codes /\ "BUF_SIZE_EXCEEDED" # "OK"
        /\ cut' \in [Peers -> BOOLEAN]
    BY <1>1 DEF Codes, Global
  <2> QED BY <1>1, <1>8, <1>9, <1>10, <2>1, Breaks DEF Takes
<1>11. ASSUME pkt.data = << >>, Buffer(x, [c EXCEPT !.head = pkt], << >>)
       PROVE  IInv' /\ Takes(x)
  <2> DEFINE d == [c EXCEPT !.head = pkt]
  <2>1. d.op = call[x].op /\ d.head = PacketAt(script, pl)
          /\ d.have = call[x].have
    BY <1>3 DEF Call, pkt
  <2>2. Buffer(x, d, PacketAt(script, pl).data)
    BY <1>11 DEF pkt
  <2> HIDE DEF d
  <2>3. Size(script, pl) = HeaderLen
    BY <1>1, <1>3, <1>11, NoBytes
  <2>4. m = Beyond(script, Peer(x), pl)
    BY <1>1, <1>2, <1>4, <2>3 DEF Inside, p
  <2> QED BY <1>2, <1>8, <2>1, <2>2, <2>3, <2>4, BufferKept
<1>12. ASSUME pkt.data # << >>,
              call' = [call EXCEPT ![x] = [c EXCEPT
                         !.head = pkt, !.want = Len(pkt.data), !.acc = << >>]],
              UNCHANGED <<at, phase, rc, got>>
       PROVE  IInv' /\ Takes(x)
  <2> DEFINE d == [c EXCEPT !.head = pkt, !.want = Len(pkt.data), !.acc = <<
        >>]
  <2>1. Len(pkt.data) > 0
    BY <1>3, <1>12, EmptySeq
  <2>2. /\ d \in Call /\ d.op = call[x].op /\ d.head = pkt
        /\ d.have = call[x].have
        /\ d.want = Len(pkt.data) /\ d.acc = << >> /\ ~d.inWrite
    <3>1. PICK l \in Nat, none \in Seq(Byte) : l = Len(pkt.data)
            /\ none = << >>
      BY <1>3, NoBytes
    <3>2. d = [c EXCEPT !.head = pkt, !.want = l, !.acc = none]
      BY <3>1
    <3> HIDE DEF d
    <3> QED BY <1>3, <3>1, <3>2 DEF Call
  <2> HIDE DEF d
  <2>3. /\ call' \in [Peers -> Call] /\ call'[x] = d
        /\ \A r \in Peers \ {x} : call'[r] = call[r]
    BY <1>1, <1>12, <2>2 DEF Global, d
  <2>4. Global'
    BY <1>1, <1>8, <1>9, <1>12, <2>3 DEF Global
  <2>5. Local(x)'
    BY <1>1, <1>12, <2>1, <2>2, <2>3 DEF Local, Live, Sending, Receiving
  <2>6. \A r \in Peers \ {x} : Same(r)
    BY <1>8, <1>12, <2>3 DEF Same
  <2>7. Types'
    BY <1>1, <2>4, <2>5, <2>6, TypesFrame
  <2>8. m = Place(pl.no, pl.phase, pl.k, HeaderLen + 1, pl.key, pl.sent)
    <3>1. pl.part + HeaderLen <= Size(script, pl)
            /\ pl.part + HeaderLen = HeaderLen + 1
      BY <1>1, <1>2, <1>3, <2>1
    <3> QED BY <1>4, <3>1 DEF Inside
  <2>9. /\ Unit(script, m) /\ m.part = HeaderLen + 1
        /\ PacketAt(script, m) = pkt
        /\ m.no = pl.no /\ m.phase = pl.phase /\ m.k = pl.k /\ m.key = pl.key
        /\ m.sent = pl.sent
    <3>1. HeaderLen + 1 \in Nat
      BY <1>1
    <3> QED BY <1>1, <1>2, <2>8, <3>1, SamePacket DEF pkt
  <2>10. d.want + Len(d.acc) = Len(pkt.data)
    BY <1>3, <2>2, NoBytes
  <2>11. Reads(x, m)'
    BY <1>2, <1>8, <1>12, <2>2, <2>3, <2>9, <2>10 DEF Reads
  <2>12. Counts(x)' = Counts(x)
    BY <1>12 DEF Counts
  <2>13. Stands(x, m)'
    BY <2>9, <2>11, <2>12 DEF Stands
  <2>14. call'[x].acc = << >> /\ UNCHANGED <<script, begun>>
    BY <2>2, <2>3
  <2>15. Takes(x)
    BY <1>12 DEF Takes
  <2> QED BY <2>6, <2>7, <2>13, <2>14, <2>15, ReadOn
<1>13. \/ Return(x, "BUF_SIZE_EXCEEDED") /\ UNCHANGED got
       \/ pkt.data = << >> /\ Buffer(x, [c EXCEPT !.head = pkt], << >>)
       \/ /\ pkt.data # << >>
          /\ call' = [call EXCEPT ![x] = [c EXCEPT
                        !.head = pkt, !.want = Len(pkt.data), !.acc = << >>]]
          /\ UNCHANGED <<at, phase, rc, got>>
  BY <1>5, <1>6 DEF Complete
<1> QED BY <1>10, <1>11, <1>12, <1>13

(* A body is complete, and it decrypts to what the peer has sent. *)
LEMMA BodyKept ==
  ASSUME IInv, NEW x \in Peers, wire[x] # << >>, call[x].op \in Receiving,
         NEW pl \in Places, Reads(x, pl), pl.sent = Counts(x), Coming(x, pl),
         call[x].head # NoPacket,
         NEW bytes \in Seq(Byte), Len(bytes) = Len(call[x].head.data),
         NEW m, Chain(script, Peer(x), begun[Peer(x)], pl, bytes, m),
         NEW c \in Call, c.op = call[x].op, c.head = call[x].head,
         c.have = call[x].have, c.acc = bytes, Complete(x, c),
         UNCHANGED <<script, faults, open, cut, begun, crypt>>,
         NEW rest \in Seq(Byte), Len(rest) <= Room,
         wire' = [wire EXCEPT ![x] = rest],
         NEW b, Live(Peer(x)) => Leads(Peer(x), b),
         Chain(script, Peer(x), begun[Peer(x)], m,
               (<< >> \o rest) \o call[Peer(x)].out, b)
  PROVE  IInv' /\ Takes(x)
<1> DEFINE pkt == PacketAt(script, pl)
           p == Peer(x)
<1>1. /\ Types /\ Global /\ Local(x) /\ script \in Scripts /\ Live(x)
      /\ p \in Peers /\ HeaderLen \in Nat /\ HeaderLen > 0
      /\ pos[x] \in Nat /\ crypt[x] \in BOOLEAN /\ pl.key \in Keys
  BY Peering, Params DEF IInv, Types, Global, Local, Receiving, Places
<1>2. /\ pl.no = at[x] /\ pl.phase = phase[x] /\ Unit(script, pl)
      /\ pl.part = HeaderLen + 1 /\ Key(x) = Shift(pl.key, HeaderLen)
      /\ call[x].head = pkt
  BY DEF Reads
<1>3. /\ pkt.data \in Seq(Datum) /\ Len(pkt.data) \in Nat
      /\ Size(script, pl) = HeaderLen + Len(pkt.data)
      /\ Len(bytes) = Len(pkt.data)
  BY <1>1, <1>2, UnitIs DEF Size
<1>4. PICK l \in Nat : l = Len(pkt.data)
  BY <1>3
<1>5. pkt.data # << >> /\ l > 0
  <2>1. pkt.data # << >>
    BY <1>2 DEF Reads
  <2> QED BY <1>3, <1>4, <2>1, EmptySeq
<1> HIDE DEF pkt, p
<1>6. /\ m = Inside(script, p, pl, l)
      /\ \A i \in 1 .. l :
           /\ bytes[i].pkt = pkt /\ bytes[i].part = HeaderLen + i
           /\ bytes[i].key = Shift(pl.key, HeaderLen + i - 1)
  <2>1. /\ pl.part <= Size(script, pl)
        /\ pl.part + Len(bytes) <= Size(script, pl) + 1
        /\ Len(bytes) = l
    <3>1. Size(script, pl) = HeaderLen + l /\ Len(bytes) = l
      BY <1>3, <1>4
    <3>2. PICK lb \in Nat, size \in Nat : lb = Len(bytes)
            /\ size = Size(script, pl)
      BY <1>1, <3>1
    <3>3. pl.part <= size /\ pl.part + lb <= size + 1 /\ lb = l
      BY <1>1, <1>2, <1>5, <3>1, <3>2
    <3> QED BY <3>2, <3>3
  <2>2. /\ script \in Scripts /\ Peer(x) \in Peers /\ Unit(script, pl)
        /\ Chain(script, Peer(x), begun[Peer(x)], pl, bytes, m)
    BY <1>1, <1>2 DEF p
  <2>3. PICK s, z, bg : s = script /\ z = Peer(x) /\ bg = begun[Peer(x)]
    OBVIOUS
  <2>4. /\ s \in Scripts /\ z \in Peers /\ Unit(s, pl)
        /\ Chain(s, z, bg, pl, bytes, m)
        /\ pl.part <= Size(s, pl) /\ pl.part + Len(bytes) <= Size(s, pl) + 1
    BY <2>1, <2>2, <2>3
  <2>5. /\ m = Inside(s, z, pl, Len(bytes))
        /\ \A i \in 1 .. Len(bytes) :
             bytes[i] = [pkt |-> PacketAt(s, pl), part |-> pl.part + i - 1,
                         key |-> Shift(pl.key, pl.part + i - 2)]
    BY ONLY <2>4, pl \in Places, bytes \in Seq(Byte), Along
  <2>6. \A i \in 1 .. l : /\ (HeaderLen + 1) + i - 1 = HeaderLen + i
                          /\ (HeaderLen + 1) + i - 2 = HeaderLen + i - 1
    BY <1>1
  <2>7. m = Inside(script, p, pl, l)
    BY <2>1, <2>3, <2>5 DEF p
  <2>8. \A i \in 1 .. l :
          bytes[i] = [pkt |-> pkt, part |-> HeaderLen + i,
                      key |-> Shift(pl.key, HeaderLen + i - 1)]
    BY <1>2, <2>1, <2>3, <2>5, <2>6 DEF pkt
  <2>9. ASSUME NEW i \in 1 .. l
        PROVE  /\ bytes[i].pkt = pkt /\ bytes[i].part = HeaderLen + i
               /\ bytes[i].key = Shift(pl.key, HeaderLen + i - 1)
    <3>1. bytes[i] = [pkt |-> pkt, part |-> HeaderLen + i,
                      key |-> Shift(pl.key, HeaderLen + i - 1)]
      BY <2>8
    <3> QED BY ONLY <3>1
  <2> QED BY <2>7, <2>9
<1>7. Decrypted(x, bytes) = pkt.data
  <2>1. DOMAIN bytes = 1 .. l /\ DOMAIN pkt.data = 1 .. l
        /\ pkt.data \in [1 .. l -> Datum]
    BY <1>3, <1>4, LenProperties
  <2>2. ASSUME NEW i \in 1 .. l
        PROVE  /\ bytes[i].part > HeaderLen /\ bytes[i].part - HeaderLen = i
               /\ bytes[i].key = IF crypt[x] THEN pos[x] + i - 1 ELSE Clear
    <3>1. bytes[i].part = HeaderLen + i
            /\ bytes[i].key = Shift(pl.key, HeaderLen + i - 1)
      BY <1>6
    <3>2. Shift(pl.key, HeaderLen + i - 1) = IF crypt[x] THEN pos[x] + i - 1
            ELSE Clear
      <4>1. Key(x) = IF crypt[x] THEN pos[x] ELSE Clear
        BY DEF Key
      <4>2. pl.key \in Nat \/ pl.key = Clear
        BY <1>1 DEF Keys
      <4>3. PICK k \in Keys : k = pl.key
        BY <1>1
      <4>4. CASE k = Clear
        BY <1>1, <1>2, <4>1, <4>3, <4>4 DEF Shift, Clear
      <4>5. CASE k # Clear
        <5>1. k \in Nat /\ Key(x) = k + HeaderLen /\ Key(x) # Clear
          BY <1>1, <1>2, <4>3, <4>5 DEF Keys, Shift, Clear
        <5>2. crypt[x] /\ pos[x] = k + HeaderLen
          BY <4>1, <5>1
        <5> QED BY <1>1, <4>3, <4>5, <5>1, <5>2 DEF Shift
      <4> QED BY <4>4, <4>5
    <3> QED BY <1>1, <3>1, <3>2
  <2>3. \A i \in 1 .. l : Decrypted(x, bytes)[i] = pkt.data[i]
    BY <1>6, <2>1, <2>2 DEF Decrypted
  <2>4. Decrypted(x, bytes) = [i \in 1 .. l |-> Decrypted(x, bytes)[i]]
    BY <2>1 DEF Decrypted
  <2>5. pkt.data = [i \in 1 .. l |-> pkt.data[i]]
    BY <2>1
  <2> QED BY <2>3, <2>4, <2>5
<1>8. pos' = [pos EXCEPT ![x] = Advance(x, @, l)] /\ Buffer(x, c, pkt.data)
  <2>1. c.head # NoPacket /\ c.acc = bytes /\ Len(bytes) = l
    BY <1>3, <1>4
  <2> QED BY <1>7, <2>1 DEF Complete
<1>9. /\ Key(x)' = Shift(pl.key, Size(script, pl)) /\ pos' \in [Peers -> Nat]
      /\ \A r \in Peers \ {x} : pos'[r] = pos[r]
  <2>1. /\ Key(x)' = Shift(Key(x), l) /\ pos' \in [Peers -> Nat]
        /\ \A r \in Peers \ {x} : pos'[r] = pos[r]
    BY <1>1, <1>8, KeyMoves
  <2>2. Shift(Shift(pl.key, HeaderLen), l) = Shift(pl.key, HeaderLen + l)
    BY <1>1, Shifted
  <2> QED BY <1>2, <1>3, <1>4, <2>1, <2>2
<1>10. m = Beyond(script, Peer(x), pl)
  <2>1. ~ (pl.part + l <= Size(script, pl))
    BY <1>1, <1>2, <1>3, <1>4
  <2> QED BY <1>6, <2>1 DEF Inside, p
<1>11. c.head = PacketAt(script, pl) /\ Buffer(x, c, PacketAt(script, pl).data)
  BY <1>2, <1>8 DEF pkt
<1> QED BY <1>2, <1>9, <1>10, <1>11, BufferKept

LEMMA RecvReadKept ==
  ASSUME IInv, NEW x \in Peers, RecvRead(x)
  PROVE  IInv' /\ Takes(x) /\ UNCHANGED begun
<1> DEFINE p == Peer(x)
           n == Least(call[x].want, Len(wire[x]))
           c == ReadMore(x, n)
           piece == SubSeq(wire[x], 1, n)
           rest == SubSeq(wire[x], n + 1, Len(wire[x]))
<1>1. /\ Types /\ Global /\ Local(x) /\ script \in Scripts
      /\ call[x].op \in Receiving /\ call[x].op # "none"
  BY DEF IInv, Types, Global, RecvRead, Receiving
<1>2. CASE RecvEnds(x)
  <2>1. \E code \in Codes \ {"OK"} : Fail(x, code)
    BY <1>2 DEF RecvEnds, Codes
  <2> QED BY <1>1, <2>1, FailKept DEF Fail, Takes
<1>3. CASE /\ wire[x] # << >> /\ crypt' = crypt
           /\ wire' = [wire EXCEPT ![x] = rest]
           /\ IF c.want = 0
              THEN Complete(x, c)
              ELSE /\ call' = [call EXCEPT ![x] = c]
                   /\ UNCHANGED <<at, phase, rc, pos, got>>
           /\ UNCHANGED <<script, faults, open, cut, begun>>
  <2>1. /\ wire[x] \in Seq(Byte) /\ call[x] \in Call /\ p \in Peers
        /\ call[p].out \in Seq(Byte) /\ call[x].acc \in Seq(Byte)
        /\ Live(x) /\ ~call[x].inWrite
    <3>1. p \in Peers
      BY Peering
    <3> HIDE DEF p
    <3>2. Live(x) /\ ~call[x].inWrite
      BY <1>1 DEF Local, Receiving, Sending
    <3> QED BY <1>1, <3>1, <3>2, Lengths DEF Global
  <2>2. /\ n \in 0 .. Len(wire[x]) /\ n \in Nat /\ n > 0
        /\ Len(wire[x]) \in Nat
        /\ Len(wire[x]) <= Room
        /\ call[x].want \in Nat /\ call[x].want - n \in Nat
    <3>1. PICK l \in Nat, w \in Nat : l = Len(wire[x]) /\ w = call[x].want
      BY <2>1, LenProperties DEF Call
    <3>2. l > 0 /\ w > 0
      BY <1>1, <1>3, <2>1, <3>1, EmptySeq DEF Local
    <3>3. n = Least(w, l)
      BY <3>1
    <3> HIDE DEF n
    <3>4. n \in 0 .. l /\ n \in Nat /\ n > 0 /\ w - n \in Nat
      BY <3>2, <3>3 DEF Least
    <3>5. Len(wire[x]) <= Room
      BY <1>1 DEF Global
    <3> QED BY <3>1, <3>4, <3>5
  <2> HIDE DEF n, p
  <2>3. /\ piece \in Seq(Byte) /\ Len(piece) = n /\ rest \in Seq(Byte)
        /\ Len(rest) = Len(wire[x]) - n /\ piece \o rest = wire[x]
    BY <2>1, <2>2, PieceIs
  <2>4. Len(rest) <= Room
    BY <2>2, <2>3, Params
  <2>5. PICK bytes \in Seq(Byte) : bytes = call[x].acc \o piece
    BY <2>1, <2>3, ConcatProperties
  <2>6. Len(bytes) = Len(call[x].acc) + n /\ Len(call[x].acc) \in Nat
    BY <2>1, <2>3, <2>5, ConcatProperties, LenProperties
  <2>7. c = [call[x] EXCEPT !.want = call[x].want - n, !.acc = bytes]
    BY <2>1, <2>5 DEF ReadMore, Bytes, Call
  <2> HIDE DEF c, piece, rest
  <2>8. /\ c \in Call /\ c.op = call[x].op /\ c.head = call[x].head
        /\ c.have = call[x].have /\ c.acc = bytes /\ c.want = call[x].want - n
        /\ c.inWrite = call[x].inWrite
    BY <2>1, <2>2, <2>7 DEF Call
  <2>9. PICK a, b : /\ Stands(x, a) /\ (Live(p) => Leads(p, b))
                    /\ Chain(script, p, begun[p], a, Between(p, x), b)
    BY <1>1, <1>3, Reader DEF p
  <2>10. Reads(x, a) /\ a.sent = Counts(x)
    <3>1. call[x].op # "stream"
      BY <1>1 DEF Receiving
    <3> QED BY <1>1, <2>9, <3>1, IdleIs DEF Stands
  <2>11. /\ \E m : /\ Chain(script, p, begun[p], a, bytes, m)
                   /\ Chain(script, p, begun[p], m, (<< >> \o rest) \o
                      call[p].out, b)
         /\ Chain(script, p, begun[p], a, (bytes \o rest) \o call[p].out, b)
    <3>1. PICK acc \in Seq(Byte), v \in Seq(Byte), w \in Seq(Byte),
               out \in Seq(Byte) :
            acc = call[x].acc /\ v = piece /\ w = rest /\ out = call[p].out
      BY <2>1, <2>3
    <3>2. PICK s, bg, z : s = script /\ bg = begun[p] /\ z = p
      OBVIOUS
    <3>3. Chain(s, z, bg, a, (acc \o (v \o w)) \o out, b)
      BY <2>3, <2>9, <3>1, <3>2 DEF Between
    <3>4. /\ \E m : /\ Chain(s, z, bg, a, acc \o v, m)
                    /\ Chain(s, z, bg, m, (<< >> \o w) \o out, b)
          /\ Chain(s, z, bg, a, ((acc \o v) \o w) \o out, b)
      BY <3>3, ChainRead
    <3> QED BY <2>5, <3>1, <3>2, <3>4
  <2>12. PICK m : /\ Chain(script, p, begun[p], a, bytes, m)
                  /\ Chain(script, p, begun[p], m, (<< >> \o rest) \o
                     call[p].out, b)
    BY <2>11
  <2>13. a \in Places /\ Coming(x, a)
    <3>1. bytes # << >>
      BY <2>2, <2>6, NoBytes
    <3>2. Is(script, p, begun[p], a, bytes[1])
      BY <2>12, <3>1, ChainFirst
    <3>3. Unit(script, a) /\ ~IsStream(script, a.no)
      BY <1>1, <2>10, UnitIs DEF Reads
    <3> QED BY <3>2, <3>3 DEF Is, Coming, p
  <2>14. CASE c.want # 0
    <3>1. call' = [call EXCEPT ![x] = c]
            /\ UNCHANGED <<at, phase, rc, pos, got>>
      BY <1>3, <2>14
    <3>2. /\ call' \in [Peers -> Call] /\ call'[x] = c
          /\ \A r \in Peers \ {x} : call'[r] = call[r]
      BY <1>1, <2>8, <3>1 DEF Global
    <3>3. /\ wire' \in [Peers -> Seq(Byte)]
          /\ \A r \in Peers : Len(wire'[r]) <= Room
      BY <1>1, <1>3, <2>3, <2>4 DEF Global
    <3>4. Global'
      BY <1>1, <1>3, <3>1, <3>2, <3>3 DEF Global
    <3>5. c.want > 0
      BY <2>2, <2>8, <2>14
    <3>6. Local(x)'
      BY <1>1, <1>3, <2>1, <2>8, <3>1, <3>2, <3>5 DEF Local, Live, Sending,
         Receiving
    <3>7. \A r \in Peers \ {x} : Same(r)
      BY <1>3, <3>1, <3>2 DEF Same
    <3>8. Types'
      BY <1>1, <3>4, <3>6, <3>7, TypesFrame
    <3>9. c.want + Len(c.acc) = call[x].want + Len(call[x].acc)
      <4>1. PICK k \in Nat, l \in Nat, i \in Nat :
              k = call[x].want /\ l = Len(call[x].acc) /\ i = n
        BY <2>2, <2>6
      <4>2. PICK d, e : d = c.want /\ e = Len(c.acc)
        OBVIOUS
      <4>3. d = k - i /\ e = l + i
        BY <2>6, <2>8, <4>1, <4>2
      <4>4. d + e = k + l
        BY <4>3
      <4> QED BY ONLY <4>1, <4>2, <4>4
    <3>10. Key(x)' = Key(x) /\ Counts(x)' = Counts(x)
      BY <1>3, <3>1 DEF Key, Counts
    <3>11. Reads(x, a)'
      BY <1>3, <2>8, <2>10, <3>1, <3>2, <3>9, <3>10 DEF Reads
    <3>12. Stands(x, a)'
      BY <2>10, <3>10, <3>11 DEF Stands
    <3>13. Chain(script, Peer(x), begun[Peer(x)], a,
                 (call'[x].acc \o rest) \o call[Peer(x)].out, b)
      BY <2>8, <2>11, <3>2 DEF p
    <3>14. Live(Peer(x)) => Leads(Peer(x), b)
      BY <2>9 DEF p
    <3> QED BY <1>1, <1>3, <3>1, <3>7, <3>8, <3>12, <3>13, <3>14, ReadOn DEF
               Takes
  <2>15. CASE c.want = 0
    <3>1. /\ Complete(x, c)
          /\ UNCHANGED <<script, faults, open, cut, begun, crypt>>
          /\ Live(Peer(x)) => Leads(Peer(x), b)
          /\ Chain(script, Peer(x), begun[Peer(x)], a, bytes, m)
          /\ Chain(script, Peer(x), begun[Peer(x)], m,
                   (<< >> \o rest) \o call[Peer(x)].out, b)
      BY <1>3, <2>9, <2>12, <2>15 DEF p
    <3>2. call[x].want + Len(call[x].acc) = Len(bytes) /\ Len(bytes) \in Nat
      <4>1. PICK k \in Nat, l \in Nat, i \in Nat :
              k = call[x].want /\ l = Len(call[x].acc) /\ i = n
        BY <2>2, <2>6
      <4>2. PICK d : d = Len(bytes)
        OBVIOUS
      <4>3. k - i = 0 /\ d = l + i
        BY <2>6, <2>8, <2>15, <4>1, <4>2
      <4>4. k + l = d /\ d \in Nat
        BY ONLY <4>3, k \in Nat, l \in Nat, i \in Nat
      <4> QED BY ONLY <4>1, <4>2, <4>4
    <3>3. CASE call[x].head = NoPacket
      <4>1. Len(bytes) = HeaderLen
        <5>1. NoPacket.data = << >>
          BY DEF NoPacket
        <5> QED BY <2>10, <3>2, <3>3, <5>1 DEF Reads
      <4>2. c.head = NoPacket /\ ~c.inWrite
        BY <2>1, <2>8, <3>3
      <4> QED BY ONLY <1>1, <1>3, <2>3, <2>4, <2>8, <2>10, <2>13, <3>1, <3>3,
                 <4>1, <4>2, IInv, x \in Peers, HeaderKept, bytes \in Seq(Byte)
    <3>4. CASE call[x].head # NoPacket
      <4>1. Len(bytes) = Len(call[x].head.data)
        BY <2>10, <3>2, <3>4 DEF Reads
      <4> QED BY ONLY <1>1, <1>3, <2>3, <2>4, <2>8, <2>10, <2>13, <3>1, <3>4,
                 <4>1, IInv, x \in Peers, BodyKept, bytes \in Seq(Byte)
    <3> QED BY <3>3, <3>4
  <2> QED BY <2>14, <2>15
<1> QED BY <1>2, <1>3 DEF RecvRead

(***************************************************************************)
(* A read of the stream                                                    *)
(***************************************************************************)
Further(sent, p, l) == [sent EXCEPT ![p] = @ + l]

(* the bytes w are the messages of bg from the k-th on *)
Carry(bg, k, w) ==
  \A i \in 1 .. Len(w) : k + i <= Len(bg) /\ bg[k + i] = <<w[i].pkt.data>>

LEMMA ChainStream ==
  ASSUME NEW s \in Scripts, NEW p \in Peers, NEW bg, NEW n, IsStream(s, n),
         NEW sent \in [Peers -> Nat], NEW a,
         a = Place(n, "data", 1, 1, Clear, sent),
         NEW w \in Seq(Byte), NEW l, l = Len(w), NEW b,
         Chain(s, p, bg, a, w, b)
  PROVE  /\ b = Place(n, "data", 1, 1, Clear, Further(sent, p, l))
         /\ Carry(bg, sent[p], w)
<1> DEFINE At(i) == [sent EXCEPT ![p] = @ + i]
           Here(i) == Place(n, "data", 1, 1, Clear, At(i))
<1>1. PICK run : /\ run[0] = Place(n, "data", 1, 1, Clear, sent) /\ run[l] = b
                 /\ \A i \in 1 .. l : /\ Is(s, p, bg, run[i - 1], w[i])
                                      /\ run[i] = Then(s, p, run[i - 1])
  BY DEF Chain
<1>2. l \in Nat /\ sent[p] \in Nat
  BY LenProperties
<1>3. /\ At(0) = sent
      /\ \A i \in Nat : /\ At(i)[p] = sent[p] + i
                        /\ [At(i) EXCEPT ![p] = @ + 1] = At(i + 1)
  <2>1. At(0) = sent
    BY <1>2
  <2>2. ASSUME NEW i \in Nat PROVE At(i)[p] = sent[p] + i
    OBVIOUS
  <2>3. ASSUME NEW i \in Nat PROVE [At(i) EXCEPT ![p] = @ + 1] = At(i + 1)
    BY <1>2
  <2> QED BY <2>1, <2>2, <2>3
<1>4. \A i \in Nat : Then(s, p, Here(i)) = Here(i + 1)
  <2>1. ASSUME NEW i \in Nat PROVE Then(s, p, Here(i)) = Here(i + 1)
    <3>1. Here(i).no = n /\ Here(i).sent = At(i)
      BY DEF Place
    <3> HIDE DEF At
    <3> QED BY <1>3, <3>1 DEF Then
  <2> QED BY <2>1
<1>5. Here(0) = Place(n, "data", 1, 1, Clear, sent)
  BY <1>3
<1>6. \A i \in Nat : Here(i).no = n /\ Here(i).sent[p] = sent[p] + i
  BY <1>3 DEF Place
<1>7. Here(l) = Place(n, "data", 1, 1, Clear, Further(sent, p, l))
  BY DEF Further
<1> HIDE DEF At, Here
<1>8. \A i \in 0 .. l : run[i] = Here(i)
  <2> DEFINE T == {i \in 0 .. l : run[i] # Here(i)}
  <2> SUFFICES ASSUME T # {} PROVE FALSE
    OBVIOUS
  <2>1. T \in SUBSET Nat
    BY <1>2
  <2>2. PICK i \in T : \A m \in T : i <= m
    BY <2>1, NatMin
  <2>3. i \in 0 .. l /\ run[i] # Here(i)
    OBVIOUS
  <2>4. i # 0
    BY <1>5, <1>1, <2>3
  <2>5. i - 1 \in 0 .. l /\ i - 1 < i /\ i \in 1 .. l /\ i - 1 \in Nat
        /\ (i - 1) + 1 = i
    BY <1>2, <2>3, <2>4
  <2>6. run[i - 1] = Here(i - 1)
    BY <2>2, <2>5
  <2> HIDE DEF T
  <2>7. Then(s, p, Here(i - 1)) = Here(i)
    BY <1>4, <2>5
  <2>8. run[i] = Here(i)
    BY <1>1, <2>5, <2>6, <2>7
  <2> QED BY <2>3, <2>8
<1>9. ASSUME NEW i \in 1 .. l
      PROVE  sent[p] + i <= Len(bg) /\ bg[sent[p] + i] = <<w[i].pkt.data>>
  <2>1. i - 1 \in 0 .. l /\ i - 1 \in Nat
          /\ sent[p] + (i - 1) + 1 = sent[p] + i
    BY <1>2
  <2>2. Is(s, p, bg, Here(i - 1), w[i])
    BY <1>1, <1>8, <2>1
  <2>3. Here(i - 1).no = n /\ Here(i - 1).sent[p] = sent[p] + (i - 1)
    BY <1>6, <2>1
  <2>4. ~Unit(s, Here(i - 1))
    BY <2>3 DEF Unit, IsStream
  <2>5. /\ Here(i - 1).sent[p] < Len(bg)
        /\ bg[Here(i - 1).sent[p] + 1] = <<w[i].pkt.data>>
    BY <2>2, <2>4 DEF Is
  <2>6. bg[sent[p] + i] = <<w[i].pkt.data>>
    BY <2>1, <2>3, <2>5
  <2>7. sent[p] + i <= Len(bg)
    <3>1. PICK k : k = Len(bg)
      OBVIOUS
    <3> QED BY <1>2, <2>1, <2>3, <2>5
  <2> QED BY <2>6, <2>7
<1>10. b = Here(l)
  BY <1>1, <1>2, <1>8
<1> QED BY <1>9, <1>10, <1>7 DEF Carry

(* What a read of the stream gives *)
Chunks(w) == [i \in DOMAIN w |-> <<w[i].pkt.data>>]

LEMMA ChunksAre ==
  ASSUME NEW w \in Seq(Byte)
  PROVE  /\ Chunks(w) \in Seq(Seq(Seq(Datum))) /\ Len(Chunks(w)) = Len(w)
         /\ \A i \in 1 .. Len(w) : Chunks(w)[i] = <<w[i].pkt.data>>
<1>1. Len(w) \in Nat /\ DOMAIN w = 1 .. Len(w)
        /\ \A i \in 1 .. Len(w) : w[i] \in Byte
  BY LenProperties, ElementOfSeq
<1>2. \A i \in 1 .. Len(w) : <<w[i].pkt.data>> \in Seq(Seq(Datum))
  BY <1>1 DEF Byte, Packet
<1>3. Chunks(w) = [i \in 1 .. Len(w) |-> <<w[i].pkt.data>>]
  BY <1>1 DEF Chunks
<1>4. PICK l \in Nat : l = Len(w)
  BY <1>1
<1>5. Chunks(w) \in [1 .. l -> Seq(Seq(Datum))]
  BY <1>2, <1>3, <1>4
<1>6. Chunks(w) \in Seq(Seq(Seq(Datum))) /\ Len(Chunks(w)) = l
  BY <1>5
<1> QED BY <1>3, <1>4, <1>6

LEMMA CarryIs ==
  ASSUME NEW bg \in Seq(Seq(Seq(Datum))), NEW k \in Nat, NEW w \in Seq(Byte),
         w # << >>,
         Carry(bg, k, w)
  PROVE  \E n \in k + 1 .. Len(bg) : Chunks(w) = SubSeq(bg, k + 1, n)
<1>1. PICK l \in Nat, m \in Nat : l = Len(w) /\ m = Len(bg)
  BY LenProperties
<1>2. l > 0
  BY <1>1, EmptySeq
<1>3. \A i \in 1 .. l : k + i <= m /\ bg[k + i] = <<w[i].pkt.data>>
  BY <1>1 DEF Carry
<1>4. k + l <= m /\ k + l \in k + 1 .. m
  <2>1. l \in 1 .. l
    BY <1>2
  <2>2. k + l <= m
    BY <1>3, <2>1
  <2> QED BY <1>2, <2>2
<1>5. \A i \in k + 1 .. k + l : bg[i] \in Seq(Seq(Datum))
  <2>1. \A i \in 1 .. m : bg[i] \in Seq(Seq(Datum))
    BY <1>1, ElementOfSeq
  <2> QED BY <1>4, <2>1
<1> DEFINE M == Seq(Seq(Datum))
<1> HIDE DEF M
<1>6. /\ SubSeq(bg, k + 1, k + l) \in Seq(M)
      /\ Len(SubSeq(bg, k + 1, k + l)) = IF k + 1 <= k + l
         THEN k + l - (k + 1) + 1 ELSE 0
      /\ \A i \in 1 .. k + l - (k + 1) + 1 : SubSeq(bg, k + 1, k + l)[i]
         = bg[k + 1 + i - 1]
  <2>1. k + 1 \in Int /\ k + l \in Int /\ \A i \in k + 1 .. k + l : bg[i] \in M
    BY <1>5 DEF M
  <2> QED BY <2>1, SubSeqProperties
<1>7. PICK u \in Seq(M) : u = SubSeq(bg, k + 1, k + l)
  BY <1>6
<1>8. PICK v \in Seq(M) : v = Chunks(w)
  BY ChunksAre DEF M
<1>9. Len(u) = l /\ Len(v) = l
  <2>1. k + l - (k + 1) + 1 = l /\ k + 1 <= k + l
    BY <1>2
  <2>2. Len(v) = l
    BY <1>1, <1>8, ChunksAre
  <2> QED BY <1>6, <1>7, <2>1, <2>2
<1>10. ASSUME NEW i \in 1 .. l PROVE u[i] = v[i]
  <2>1. i \in 1 .. k + l - (k + 1) + 1 /\ k + 1 + i - 1 = k + i
    OBVIOUS
  <2>2. u[i] = bg[k + i]
    BY <1>6, <1>7, <2>1
  <2>3. v[i] = <<w[i].pkt.data>>
    BY <1>1, <1>8, ChunksAre
  <2> QED BY <1>3, <2>2, <2>3
<1>11. u = v
  <2>1. Len(u) = Len(v) /\ \A i \in 1 .. Len(u) : u[i] = v[i]
    BY <1>9, <1>10
  <2> QED BY <2>1, SeqEqual
<1> QED BY <1>1, <1>4, <1>7, <1>8, <1>11

(* What a read of the stream gives to x: some of the messages to come. *)
TakesStream(x) ==
  LET q == Peer(x)
  IN \/ UNCHANGED got
     \/ \E n \in Len(got[x]) + 1 .. Len(begun[q]) :
          got' = [got EXCEPT ![x] = @ \o SubSeq(begun[q], Len(@) + 1, n)]

LEMMA StreamReadKept ==
  ASSUME IInv, NEW x \in Peers, StreamRead(x)
  PROVE  IInv' /\ TakesStream(x) /\ UNCHANGED begun
<1> DEFINE p == Peer(x)
           n == at[x]
<1>1. /\ Types /\ Global /\ Local(x) /\ script \in Scripts
      /\ call[x].op = "stream" /\ call[x].op # "none"
  BY DEF IInv, Types, Global, StreamRead
<1>2. CASE RecvEnds(x)
  <2>1. \E code \in Codes \ {"OK"} : Fail(x, code)
    BY <1>2 DEF RecvEnds, Codes
  <2> QED BY <1>1, <2>1, FailKept DEF Fail, TakesStream
<1>3. CASE /\ wire[x] # << >> /\ wire' = [wire EXCEPT ![x] = << >>]
           /\ got' = [got EXCEPT ![x] = @ \o Chunks(wire[x])]
           /\ Return(x, "OK")
           /\ UNCHANGED <<script, faults, open, cut, crypt, pos, begun>>
  <2>1. /\ wire[x] \in Seq(Byte) /\ p \in Peers /\ p # x
        /\ \A r \in Peers : r = x \/ r = p
        /\ call[p].out \in Seq(Byte) /\ got[x] \in Seq(Seq(Seq(Datum)))
        /\ Counts(x) \in [Peers -> Nat] /\ Len(got[x]) \in Nat
    <3>1. p \in Peers /\ p # x /\ \A r \in Peers : r = x \/ r = p
      BY Peering
    <3> HIDE DEF p
    <3> QED BY <1>1, <3>1, Lengths DEF Global
  <2>2. PICK g \in Seq(Seq(Seq(Datum))), h \in Seq(Seq(Seq(Datum))) :
          g = got[x] /\ h = Chunks(wire[x]) /\ Len(h) = Len(wire[x])
    BY <2>1, ChunksAre
  <2>3. /\ g \o h \in Seq(Seq(Seq(Datum))) /\ Len(g \o h) = Len(g) + Len(h)
    BY ConcatProperties
  <2>4. /\ got'[x] = g \o h /\ got' \in [Peers -> Seq(Seq(Seq(Datum)))]
        /\ \A r \in Peers \ {x} : got'[r] = got[r]
    BY <1>1, <1>3, <2>2, <2>3 DEF Global
  <2>5. /\ at' \in [Peers -> 1 .. Len(script) + 1]
        /\ phase' \in [Peers -> {"data", "confirm"}]
        /\ call' \in [Peers -> Call] /\ rc' \in [Peers -> Codes]
        /\ call'[x] = Idle /\ Local(x)'
        /\ \A r \in Peers \ {x} : /\ call'[r] = call[r] /\ at'[r] = at[r]
                                  /\ phase'[r] = phase[r] /\ rc'[r] = rc[r]
    <3>1. "OK" \in Codes
      BY DEF Codes
    <3> QED BY <1>1, <1>3, <3>1, ReturnKept
  <2>6. UNCHANGED <<at, phase>>
    BY <1>1, <1>3 DEF Return
  <2>7. /\ wire' \in [Peers -> Seq(Byte)]
        /\ \A r \in Peers : Len(wire'[r]) <= Room
    BY <1>1, <1>3, NoBytes, Params DEF Global
  <2>8. Global'
    BY <1>1, <1>3, <2>4, <2>5, <2>7 DEF Global
  <2>9. \A r \in Peers \ {x} : Same(r)
    BY <1>3, <2>4, <2>5, <2>6 DEF Same
  <2>10. Types'
    BY <1>1, <2>5, <2>8, <2>9, TypesFrame
  <2> HIDE DEF p
  <2>11. PICK a, b : /\ Stands(x, a) /\ (Live(p) => Leads(p, b))
                     /\ Chain(script, p, begun[p], a, Between(p, x), b)
    <3>1. call[x].op \in Receiving \cup {"stream"}
      BY <1>1
    <3> QED BY <1>3, <3>1, Reader DEF p
  <2>12. /\ call[x].acc = << >> /\ IsStream(script, n)
         /\ a = Place(n, "data", 1, 1, Clear, Counts(x))
    <3>1. ~Reads(x, a) /\ call[x] # Idle
      BY <1>1, IdleIs DEF Reads
    <3> QED BY <2>11, <3>1, IdleIs DEF Stands
  <2>13. n \in 1 .. Len(script) /\ script[n].as = "stream"
           /\ script[n].confirm = "none"
    <3>1. n \in 1 .. Len(script) /\ script[n].as = "stream"
      BY <1>1, <2>12, Scripted DEF IsStream
    <3> QED BY <1>1, <3>1, Scripted
  <2> HIDE DEF n
  <2>14. PICK m : /\ Chain(script, p, begun[p], a, wire[x], m)
                  /\ Chain(script, p, begun[p], m, (<< >> \o << >>) \o
                     call[p].out, b)
    <3>1. PICK w \in Seq(Byte), out \in Seq(Byte) : w = wire[x]
            /\ out = call[p].out
      BY <2>1
    <3>2. << >> \o w = w /\ (<< >> \o << >>) \o out = out
      BY NoBytes
    <3>3. PICK s, z, bg : s = script /\ z = p /\ bg = begun[p]
      OBVIOUS
    <3>4. Chain(s, z, bg, a, w \o out, b)
      BY <2>11, <2>12, <3>1, <3>2, <3>3 DEF Between
    <3>5. \E m : Chain(s, z, bg, a, w, m) /\ Chain(s, z, bg, m, out, b)
      BY <3>4, ChainSplit
    <3> QED BY <3>1, <3>2, <3>3, <3>5
  <2>15. /\ m = Place(n, "data", 1, 1, Clear, Further(Counts(x), p,
            Len(wire[x])))
         /\ Carry(begun[p], Counts(x)[p], wire[x])
    <3>1. PICK w \in Seq(Byte), sent \in [Peers -> Nat] : w = wire[x]
            /\ sent = Counts(x)
      BY <2>1
    <3>2. PICK s \in Scripts, z \in Peers : s = script /\ z = p
      BY <1>1, <2>1
    <3>3. PICK bg, k : bg = begun[p] /\ k = n
      OBVIOUS
    <3>4. /\ IsStream(s, k)
          /\ a = Place(k, "data", 1, 1, Clear, sent)
          /\ Chain(s, z, bg, a, w, m)
      BY <2>12, <2>14, <3>1, <3>2, <3>3
    <3>5. PICK l : l = Len(w)
      OBVIOUS
    <3>6. m = Place(k, "data", 1, 1, Clear, Further(sent, z, l))
      BY ONLY <3>4, <3>5, s \in Scripts, z \in Peers, sent \in [Peers -> Nat],
         w \in Seq(Byte), ChainStream
    <3>7. Carry(bg, sent[z], w)
      BY ONLY <3>4, <3>5, s \in Scripts, z \in Peers, sent \in [Peers -> Nat],
         w \in Seq(Byte), ChainStream
    <3> QED BY <3>1, <3>2, <3>3, <3>5, <3>6, <3>7
  <2>16. Counts(x)' = Further(Counts(x), p, Len(wire[x]))
    <3> DEFINE f == Counts(x)
               j == Counts(x)'
    <3>1. Len(got'[x]) = Len(got[x]) + Len(wire[x])
      BY <2>2, <2>3, <2>4
    <3>2. /\ f = [y \in Peers |-> IF y = x THEN Len(begun[x]) ELSE Len(got[x])]
          /\ j = [y \in Peers |-> IF y = x THEN Len(begun[x])
                                           ELSE Len(got[x]) + Len(wire[x])]
      BY <1>3, <3>1 DEF Counts
    <3> HIDE DEF f, j
    <3>3. j = [f EXCEPT ![p] = @ + Len(wire[x])]
      BY <2>1, <3>2
    <3> QED BY <3>3 DEF f, j, Further
  <2>17. phase'[x] = "data" /\ at'[x] = n
    <3>1. phase[x] # "confirm"
      BY <1>1, <2>13 DEF Local, n
    <3> QED BY <1>1, <2>6, <3>1 DEF Global, n
  <2>18. Resting(x)' = m /\ m.sent = Counts(x)'
    <3>1. Start(script, n, Counts(x)')
            = Place(n, "data", 1, 1, Clear, Counts(x)')
      BY <1>1, <2>13, StartStream
    <3>2. m = Place(n, "data", 1, 1, Clear, Counts(x)')
      BY <2>15, <2>16
    <3> QED BY <1>3, <2>17, <3>1, <3>2 DEF Resting, Place
  <2>19. Stands(x, m)' /\ call'[x].acc = << >>
    BY <2>5, <2>18, IdleIs DEF Stands
  <2>20. /\ Chain(script, Peer(x), begun[Peer(x)], m,
                  (call'[x].acc \o << >>) \o call[Peer(x)].out, b)
         /\ Live(Peer(x)) => Leads(Peer(x), b)
    BY <2>11, <2>14, <2>19 DEF p
  <2>21. call[x].op \in Receiving \cup {"stream"}
           /\ UNCHANGED <<script, begun>>
    BY <1>1, <1>3
  <2>22. TakesStream(x)
    <3>1. PICK k \in Nat : k = Len(got[x])
      BY <2>1
    <3>2. Counts(x)[p] = k
      BY <2>1, <3>1 DEF Counts
    <3>3. PICK w \in Seq(Byte), bg \in Seq(Seq(Seq(Datum))) : w = wire[x]
            /\ bg = begun[p]
      BY <1>1, <2>1 DEF Global
    <3>4. \E j \in k + 1 .. Len(bg) : Chunks(w) = SubSeq(bg, k + 1, j)
      BY <1>3, <2>15, <3>2, <3>3, CarryIs
    <3> QED BY <1>3, <3>1, <3>3, <3>4 DEF TakesStream, p
  <2> QED BY <1>3, <2>9, <2>10, <2>19, <2>20, <2>21, <2>22, ReadOn
<1> QED BY <1>2, <1>3 DEF StreamRead, Chunks

-----------------------------------------------------------------------------
(***************************************************************************)
(* The invariant, and what follows from it                                 *)
(***************************************************************************)
LEMMA NextIInv ==
  ASSUME IInv, [Next]_vars
  PROVE  IInv'
<1>1. CASE UNCHANGED vars
  <2>1. UNCHANGED <<script, faults, at, phase, open, cut, wire, crypt, pos,
        call, rc, begun, got>>
    BY <1>1 DEF vars
  <2>2. Global' /\ \A r \in Peers : Same(r) /\ Local(r)'
    BY <2>1 DEF IInv, Types, Global, Local, Live, Same
  <2>3. PICK p \in Peers : wire[p] = << >>
          /\ (Live(Peer(p)) => Joined(p, Peer(p)))
    BY DEF IInv, Wired
  <2>4. Peer(p) \in Peers
    BY Peering
  <2> DEFINE q == Peer(p)
  <2> HIDE DEF q
  <2>5. ASSUME Live(q)' PROVE Joined(p, q)'
    <3>1. PICK a, b : /\ Stands(q, a) /\ (Live(p) => Leads(p, b))
                      /\ Chain(script, p, begun[p], a, Between(p, q), b)
      BY <2>2, <2>3, <2>4, <2>5, SameStands DEF Joined, q
    <3>2. Chain(script, p, begun[p], a, Between(p, q), b)'
      BY <2>1, <3>1 DEF Between
    <3>3. Stands(q, a)' /\ (Live(p)' => Leads(p, b)')
      BY <2>2, <2>4, <3>1, SameStands DEF q
    <3> QED BY <3>2, <3>3 DEF Joined
  <2> QED BY <2>1, <2>2, <2>3, <2>5 DEF IInv, Types, Wired, q
<1>2. ASSUME NEW x \in Peers, Step(x) \/ Fault(x)
      PROVE  IInv'
  <2>1. CASE Send(x)
    BY <2>1, SendKept
  <2>2. CASE SendNothing(x) \/ RecvNothing(x)
    BY <2>2, NothingKept
  <2>3. CASE SendRaw(x)
    BY <2>3, SendRawKept
  <2>4. CASE Recv(x)
    BY <2>4, RecvKept
  <2>5. CASE RecvStream(x)
    BY <2>5, RecvStreamKept
  <2>6. CASE SendConfirm(x)
    BY <2>6, SendConfirmKept
  <2>7. CASE Close(x)
    BY <2>7, CloseKept
  <2>8. CASE SendPoll(x)
    BY <2>8, SendPollKept
  <2>9. CASE SendWrite(x)
    BY <2>9, SendWriteKept
  <2>10. CASE RecvRead(x)
    BY <2>10, RecvReadKept
  <2>11. CASE StreamRead(x)
    BY <2>11, StreamReadKept
  <2>12. CASE Fault(x)
    BY <2>12, FaultKept
  <2> QED BY <1>2, <2>1, <2>2, <2>3, <2>4, <2>5, <2>6, <2>7, <2>8, <2>9, <2>10,
             <2>11,
             <2>12 DEF Step
<1> QED BY <1>1, <1>2 DEF Next

(* The invariant of every script: what is under way, with what the sender   *)
(* has loaded and the receiver has not used, is the bytes that the script   *)
(* puts there, in their places and under their keys, from where the         *)
(* receiver stands to where the sender does.                                *)
THEOREM Invariant == Spec => []IInv
<1>1. Init => IInv
  BY InitIInv
<1>2. IInv /\ [Next]_vars => IInv'
  BY NextIInv
<1> QED BY <1>1, <1>2, PTL DEF Spec

(* The state keeps the shape the code gives it: no call leaves bytes        *)
(* pending, a write in progress has bytes left, a reader wants a byte, and  *)
(* neither direction holds more than Room.                                  *)
THEOREM TypeCorrect == Spec => []TypeOK
<1>1. IInv => TypeOK
  <2> SUFFICES ASSUME IInv PROVE TypeOK
    OBVIOUS
  <2>1. Global /\ \A p \in Peers : Local(p)
    BY DEF IInv, Types
  <2>2. ASSUME NEW p \in Peers
        PROVE  /\ Len(wire[p]) <= Room
               /\ call[p].op = "none" => call[p] = Idle
               /\ call[p].op \in Sending => call[p].out # << >>
                  /\ call[p].want = 0
               /\ call[p].op \in Receiving => call[p].want > 0
                  /\ ~call[p].inWrite
               /\ phase[p] = "confirm" => at[p] <= Len(script)
    BY <2>1 DEF Global, Local, Sending, Receiving
  <2> QED BY <2>1, <2>2 DEF Global, TypeOK
<1> QED BY <1>1, Invariant, PTL

(* No header is ever read from body bytes, from bytes of another message or *)
(* with another place of the key stream, and no data is taken for a         *)
(* confirmation: nxs_net_header_parse and nxs_net_recv_confirm never refuse *)
(* what nxs_net_send has sent.                                              *)
THEOREM HeaderAlwaysRight == Spec => []HeaderRight
<1>1. IInv => HeaderRight
  BY DEF IInv, Types, Global, Codes, HeaderRight
<1> QED BY <1>1, Invariant, PTL

-----------------------------------------------------------------------------
(***************************************************************************)
(* The connection implements a stream of messages                          *)
(***************************************************************************)
LEMMA Grows ==
  ASSUME Global, NEW x \in Peers, NEW ms \in Seq(Seq(Seq(Datum))),
         begun' = [begun EXCEPT ![x] = @ \o ms], UNCHANGED got
  PROVE  MS!Next
<1> DEFINE S == Seq(Seq(Datum))
           old == begun[x]
<1>1. begun \in [Peers -> Seq(S)]
  BY DEF Global
<1> HIDE DEF S
<1>2. old \in Seq(S) /\ begun'[x] = old \o ms /\ ms \in Seq(S)
  BY <1>1 DEF S
<1> HIDE DEF old
<1>3. SubSeq(old \o ms, Len(old) + 1, Len(old \o ms)) = ms
  <2> DEFINE w == old \o ms
             more == SubSeq(w, Len(old) + 1, Len(w))
  <2>1. /\ w \in Seq(S) /\ Len(w) = Len(old) + Len(ms)
        /\ Len(old) \in Nat /\ Len(ms) \in Nat
        /\ \A i \in 1 .. Len(ms) : w[Len(old) + i] = ms[i]
    BY <1>2, ConcatProperties, LenProperties
  <2> HIDE DEF w
  <2>2. \A i \in Len(old) + 1 .. Len(w) : w[i] \in S
    BY <2>1, ElementOfSeq
  <2>3. /\ more \in Seq(S)
        /\ Len(more) = IF Len(old) + 1 <= Len(w)
           THEN Len(w) - (Len(old) + 1) + 1 ELSE 0
        /\ \A i \in 1 .. Len(w) - (Len(old) + 1) + 1 : more[i]
           = w[Len(old) + 1 + i - 1]
    BY <2>1, <2>2, SubSeqProperties
  <2>4. Len(more) = Len(ms) /\ \A i \in 1 .. Len(ms) : more[i] = ms[i]
    BY <2>1, <2>3
  <2> QED BY <1>2, <2>3, <2>4, SeqEqual DEF w
<1>4. MS!Begin(x, SubSeq(begun'[x], Len(begun[x]) + 1, Len(begun'[x])))
  BY <1>2, <1>3 DEF MS!Begin, old
<1> QED BY <1>4 DEF MS!Next

LEMMA OneBegins ==
  ASSUME Global, NEW x \in Peers, NEW m \in Seq(Seq(Datum)),
         begun' = [begun EXCEPT ![x] = Append(@, m)], UNCHANGED got
  PROVE  MS!Next
<1>1. begun[x] \in Seq(Seq(Seq(Datum)))
  BY DEF Global
<1>2. Append(begun[x], m) = begun[x] \o <<m>> /\ <<m>> \in Seq(Seq(Seq(Datum)))
  BY <1>1, AppendIsConcat
<1> QED BY <1>2, Grows

(* Every step of the functions is a step of the stream, or none of it. *)
LEMMA StepImplements ==
  ASSUME IInv, [Next]_vars
  PROVE  [MS!Next]_MS!vars
<1>1. Types /\ Global
  BY DEF IInv, Types
<1>2. CASE UNCHANGED vars
  BY <1>2 DEF vars, MS!vars
<1>3. ASSUME NEW x \in Peers, Step(x) \/ Fault(x)
      PROVE  [MS!Next]_MS!vars
  <2>1. CASE Send(x)
    <3>1. /\ at[x] \in 1 .. Len(script) /\ script \in Scripts
          /\ Exchange(x) = script[at[x]]
      BY <1>1, <2>1, MayCallIs DEF Send
    <3>2. PICK m : m = Exchange(x).bufs
      OBVIOUS
    <3>3. m \in Seq(Seq(Datum))
      BY <3>1, <3>2, Buffers
    <3>4. begun' = [begun EXCEPT ![x] = Append(@, m)] /\ UNCHANGED got
      BY <2>1, <3>2 DEF Send
    <3> QED BY <1>1, <3>3, <3>4, OneBegins
  <2>2. CASE SendConfirm(x)
    <3>1. /\ at[x] \in 1 .. Len(script) /\ script \in Scripts
          /\ Exchange(x) = script[at[x]] /\ script[at[x]].confirm # "none"
      BY <1>1, <2>2, MayCallIs DEF SendConfirm
    <3>2. PICK m : m = <<Confirmation(Exchange(x)).data>>
      OBVIOUS
    <3>3. m \in Seq(Seq(Datum))
      BY <3>1, <3>2, ConfirmationIs
    <3>4. begun' = [begun EXCEPT ![x] = Append(@, m)] /\ UNCHANGED got
      BY <2>2, <3>2 DEF SendConfirm
    <3> QED BY <1>1, <3>3, <3>4, OneBegins
  <2>3. CASE SendRaw(x)
    <3>1. /\ at[x] \in 1 .. Len(script) /\ script \in Scripts
          /\ Exchange(x) = script[at[x]]
      BY <1>1, <2>3, MayCallIs DEF SendRaw
    <3>2. PICK ms : ms
            = [i \in DOMAIN Exchange(x).bufs |-> <<Exchange(x).bufs[i]>>]
      OBVIOUS
    <3>3. ms \in Seq(Seq(Seq(Datum)))
      BY <3>1, <3>2, RawMessages
    <3>4. begun' = [begun EXCEPT ![x] = @ \o ms] /\ UNCHANGED got
      BY <2>3, <3>2 DEF SendRaw
    <3> QED BY <1>1, <3>3, <3>4, Grows
  <2>4. CASE RecvRead(x)
    <3>1. Takes(x) /\ UNCHANGED begun
      BY <2>4, RecvReadKept
    <3>2. Peer(x) \in Peers \ {x}
      BY Peering
    <3>3. UNCHANGED got \/ MS!Take(x, Peer(x))
      BY <3>1 DEF Takes, MS!Take
    <3> QED BY <3>1, <3>2, <3>3 DEF MS!Next, MS!vars
  <2>5. CASE StreamRead(x)
    <3>1. TakesStream(x) /\ UNCHANGED begun
      BY <2>5, StreamReadKept
    <3>2. Peer(x) \in Peers \ {x}
      BY Peering
    <3>3. UNCHANGED got \/ MS!TakeSeveral(x, Peer(x))
      BY <3>1 DEF TakesStream, MS!TakeSeveral
    <3> QED BY <3>1, <3>2, <3>3 DEF MS!Next, MS!vars
  <2>6. CASE SendNothing(x) \/ RecvNothing(x) \/ Recv(x) \/ RecvStream(x)
          \/ Close(x)
    <3>1. UNCHANGED <<begun, got>>
      BY <2>6 DEF SendNothing, RecvNothing, Recv, RecvStream, Close, avars
    <3> QED BY <3>1 DEF MS!vars
  <2>7. CASE SendPoll(x) \/ SendWrite(x) \/ Fault(x)
    <3>1. UNCHANGED <<begun, got>>
      BY <2>7 DEF SendPoll, SendWrite, Fault, Fail, avars
    <3> QED BY <3>1 DEF MS!vars
  <2> QED BY <1>3, <2>1, <2>2, <2>3, <2>4, <2>5, <2>6, <2>7 DEF Step
<1> QED BY <1>2, <1>3 DEF Next

(* Whatever reads and writes are partial, time out or fail, each direction *)
(* is a stream of messages: what is received is what was sent, in order,   *)
(* whole and once (nxs_net_send, nxs_net_recv, nxs_net_recv_stream).       *)
THEOREM StreamImplemented == Spec => StreamSpec
<1>1. Init => MS!Init
  BY DEF Init, MS!Init
<1>2. IInv /\ [Next]_vars => [MS!Next]_MS!vars
  BY StepImplements
<1> QED BY <1>1, <1>2, Invariant, PTL DEF Spec, StreamSpec, MS!Spec
=============================================================================

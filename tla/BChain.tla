------------------------------ MODULE BChain --------------------------------
(***************************************************************************)
(* nxs-bchain: a chain of buffers, read by character, by block or by       *)
(* buffer, whose read part can be dropped.  The chain is the sequence of   *)
(* its buffers; its cursor is a buffer (0: none) and an offset in it.      *)
(*                                                                         *)
(* Four uses lead the cursor or the text astray; what comes after them,    *)
(* until the chain is freed, is left out:                                  *)
(*  - nxs_bchain_seek_char backwards within the buffer that it is in;      *)
(*  - nxs_bchain_seek_char from the "first" buffer, which it takes from    *)
(*    bchain->cur;                                                         *)
(*  - nxs_bchain_add_buf_cpy, which copies the structure of the buffer and *)
(*    not its contents;                                                    *)
(*  - an empty buffer under the cursor.                                    *)
(***************************************************************************)
EXTENDS Buf, SequencesExt

CONSTANTS
  Strings,   (* contents of buffers that are added                         *)
  MaxBufs    (* bound: the chain holds no more buffers                     *)

VARIABLES
  chain,     (* bufs, cur and bcur                                         *)
  block,     (* the buffer that the last call has read into                *)
  asked,     (* history: what the last call was asked for, and how many    *)
  astray     (* history: the chain has been misused since it was made      *)

vars == <<chain, block, asked, astray>>

New == [bufs |-> << >>, cur |-> 0, bcur |-> 0]
NoCursor(q) == [q EXCEPT !.cur = 0, !.bcur = 0]
After(q, e) == IF e = Len(q.bufs) THEN 0 ELSE e + 1

Init == chain = New /\ block = None /\ asked = <<"other", 0>> /\ astray = FALSE
-----------------------------------------------------------------------------
(***************************************************************************)
(* The cursor: nxs_bchain_seek_buf, nxs_bchain_seek_char                   *)
(***************************************************************************)

(* by buffers, from the first, the last or the current one; NULL when the  *)
(* chain ends before                                                       *)
BufAt(q, whence, offset) ==
  LET from == [FIRST |-> 1, LAST |-> Len(q.bufs), CUR |-> q.cur][whence]
      to == IF whence = "LAST" THEN from - offset ELSE from + offset
  IN IF \/ from = 0 \/ q.bufs = << >>
        \/ (whence # "CUR" /\ offset < 0)
        \/ to \notin DOMAIN q.bufs
     THEN 0 ELSE to

(* i characters on, where l are left in the buffer e *)
Onward(q, e, i, l) ==
  LET from[b \in Nat, j \in Int, left \in Nat] ==
        IF b = 0 \/ j < left THEN [el |-> b, i |-> j]
        ELSE LET n == After(q, b)
             IN from[n, j - left, IF n = 0 THEN 0 ELSE q.bufs[n].len]
  IN from[e, i, l]

(* i characters back, where l lie before in the buffer e *)
Back(q, e, i, l) ==
  LET from[b \in Nat, j \in Int, left \in Nat] ==
        IF b = 0 \/ j <= left THEN [el |-> b, i |-> left - j]
        ELSE from[b - 1, j - left, IF b = 1 THEN 0 ELSE q.bufs[b - 1].len]
  IN from[e, i, l]

(* mutant: the end of a buffer is found one character too early *)
CharAtEarly(q, whence, offset) ==
  LET l == q.bufs[q.cur].len
      to == IF whence = "FIRST" THEN Onward(q, q.cur, offset, l)
            ELSE IF offset < 0 THEN Back(q, q.cur, -offset, q.bcur)
            ELSE Onward(q, q.cur, offset, l - q.bcur - 1)
      base == IF to.el = q.cur /\ whence = "CUR" THEN q.bcur ELSE 0
  IN [q EXCEPT !.cur = to.el, !.bcur = IF to.el = 0 THEN 0 ELSE base + to.i]

(* by characters; the offset found is added to the cursor's own as long as *)
(* it stays in its buffer, even when that offset counts from the beginning *)
CharAt(q, whence, offset) ==
  LET l == q.bufs[q.cur].len
      to == IF whence = "FIRST" THEN Onward(q, q.cur, offset, l)
            ELSE IF offset < 0 THEN Back(q, q.cur, -offset, q.bcur)
            ELSE Onward(q, q.cur, offset, l - q.bcur)
      base == IF to.el = q.cur /\ whence = "CUR" THEN q.bcur ELSE 0
  IN [q EXCEPT !.cur = to.el, !.bcur = IF to.el = 0 THEN 0 ELSE base + to.i]

OnEmpty(q) == q.cur # 0 /\ q.bcur >= q.bufs[q.cur].len
-----------------------------------------------------------------------------
(***************************************************************************)
(* Reading                                                                 *)
(***************************************************************************)

(* nxs_bchain_get_char: the cursor goes off the chain at the end *)
GetChar(q) == CharAt(q, "CUR", 1)
CharOf(q) == q.bufs[q.cur].mem[q.bcur + 1]

(* nxs_bchain_drop: the buffers before the current one, all without one *)
Drop(q) ==
  IF q.cur = 0 THEN New
  ELSE [q EXCEPT !.bufs = SubSeq(@, q.cur, Len(@)), !.cur = 1]

(* nxs_bchain_get_block and, dropping as it goes, nxs_bchain_read_block: up *)
(* to n characters                                                         *)
Block(q, b, n, drops) ==
  LET read[i \in Nat] ==
        IF i = 0 THEN [chain |-> q, buf |-> b]
        ELSE LET r == read[i - 1]
                 on == GetChar(r.chain)
             IN IF r.chain.cur = 0 THEN r
                ELSE [chain |-> IF drops THEN Drop(on) ELSE on,
                      buf |-> AddChar(r.buf, CharOf(r.chain))]
  IN read[n]
-----------------------------------------------------------------------------
(* A call leaves the chain q; the buffer b is what it has read. *)
Leaves(q, b, what, wrong) ==
  chain' = q /\ block' = b /\ asked' = what /\ astray' = (wrong \/ OnEmpty(q))
Other == <<"other", 0>>

(* nxs_bchain_add_buf: a chain without cursor gets it on the new buffer *)
Added(q, b) ==
  LET bufs == Append(q.bufs, b)
  IN IF q.cur = 0 THEN [bufs |-> bufs, cur |-> Len(bufs), bcur |-> 0]
     ELSE [q EXCEPT !.bufs = bufs]

AddBuf(s) ==
  /\ ~astray /\ Len(chain.bufs) < MaxBufs
  /\ Leaves(Added(chain, Cpy(Made(Len(s)), 0, s)), None, Other, FALSE)

(* nxs_bchain_add_buf_cpy: as many bytes as the contents have, but those of *)
(* the structure                                                           *)
AddBufCpy(s) ==
  /\ ~astray /\ Len(chain.bufs) < MaxBufs
  /\ LET copy == Cpy(Made(Len(s)), 0, [i \in DOMAIN s |-> Junk])
     IN Leaves(Added(chain, copy), None, Other, s # << >>)

(* nxs_bchain_get_buf: the whole buffer under the cursor, which moves on *)
GetBuf ==
  /\ ~astray /\ chain.cur # 0
  /\ LET next == After(chain, chain.cur)
     IN Leaves([chain EXCEPT !.cur = next, !.bcur = 0], chain.bufs[chain.cur], Other, FALSE)

(* nxs_bchain_get_char, _read_char, _get_block, _read_block *)
ReadBlock ==
  /\ ~astray /\ chain.cur # 0
  /\ \E n \in 1 .. 3, drops \in BOOLEAN :
       LET r == Block(chain, None, n, drops)
       IN Leaves(r.chain, r.buf, <<IF drops THEN "read" ELSE "get", n>>, FALSE)

SeekBuf ==
  /\ ~astray
  /\ \E whence \in {"FIRST", "LAST", "CUR"}, offset \in -2 .. 2 :
       LET to == BufAt(chain, whence, offset)
       IN to # 0 /\ Leaves([chain EXCEPT !.cur = to, !.bcur = 0], None, Other, FALSE)

SeekChar ==
  /\ ~astray /\ chain.cur # 0
  /\ \E whence \in {"FIRST", "CUR"}, offset \in -3 .. 3 :
       LET q == CharAt(chain, whence, offset)
       IN /\ whence = "CUR" \/ offset >= 0
          /\ q.cur # 0
          /\ Leaves(q, None, <<"seek", offset>>,
                    \/ whence = "FIRST" /\ (chain.cur # 1 \/ chain.bcur # 0)
                    \/ offset < 0 /\ q.cur = chain.cur /\ chain.bcur # 0)

DropRead == ~astray /\ Leaves(Drop(chain), None, Other, FALSE)

Destroy == Leaves(Drop(NoCursor(chain)), None, Other, FALSE)    (* nxs_bchain_free *)

Next ==
  \/ \E s \in Strings : AddBuf(s) \/ AddBufCpy(s)
  \/ GetBuf \/ ReadBlock \/ SeekBuf \/ SeekChar \/ DropRead \/ Destroy

Spec == Init /\ [][Next]_vars
-----------------------------------------------------------------------------
Text == FlattenSeq([i \in DOMAIN chain.bufs |-> Content(chain.bufs[i])])
Place ==
  IF chain.cur = 0 THEN Len(Text)
  ELSE chain.bcur + Len(FlattenSeq([i \in 1 .. chain.cur - 1 |-> Content(chain.bufs[i])]))

(* Unless it is led astray in one of the four ways above, the chain        *)
(* implements a text that is read from a place: no character is skipped,   *)
(* repeated or lost between two buffers, at the end, or by dropping.       *)
Abstract == INSTANCE TextQueue WITH text <- Text, place <- Place, taken <- Content(block)
TextStep == astray \/ astray' \/ [Abstract!Next]_(Abstract!vars)
TextSpec == Abstract!Init /\ [][TextStep]_vars
=============================================================================

-------------------------------- MODULE Buf ---------------------------------
(***************************************************************************)
(* nxs-buf: a buffer is its memory, of buf->size bytes, and the length in  *)
(* use.  Memory that realloc added holds Junk.  Operators return the       *)
(* buffer after the call; what cannot be done leaves it as it is.          *)
(***************************************************************************)
EXTENDS Integers, Sequences, FiniteSetsExt

CONSTANTS Junk, Zero      (* what nobody has written; the byte 0 *)

Made(n) == [mem |-> [i \in 1 .. n |-> Zero], len |-> 0]   (* nxs_buf_init *)
None == Made(0)                                           (* data is NULL *)
Size(b) == Len(b.mem)
Content(b) == SubSeq(b.mem, 1, b.len)

(* nxs_buf_init_string: with a zero byte after the length *)
OfString(s) == [mem |-> Append(s, Zero), len |-> Len(s)]

Free(b) == IF Size(b) = 0 THEN b ELSE None
Clear(b) == IF Size(b) = 0 THEN b ELSE [b EXCEPT !.len = 0]

(* nxs_buf_resize: what had no memory gets it zeroed *)
Resize(b, n) ==
  IF Size(b) = 0 THEN Made(n)
  ELSE [mem |-> [i \in 1 .. n |-> IF i <= Size(b) THEN b.mem[i] ELSE Junk],
        len |-> Min({n, b.len})]

Grow(b, n) == IF n > Size(b) THEN Resize(b, n) ELSE b

(* nxs_buf_cpy_static, _cat_static, _add_char_static and _set_char, within *)
(* the memory: the bytes from the offset on, and the length never shrinks  *)
Put(b, off, d) ==
  [mem |-> [i \in 1 .. Size(b) |-> IF i - off \in DOMAIN d THEN d[i - off] ELSE b.mem[i]],
   len |-> IF d = << >> THEN b.len ELSE Max({b.len, off + Len(d)})]

PutStatic(b, off, d) == IF off + Len(d) > Size(b) THEN b ELSE Put(b, off, d)

Cpy(b, off, d) == Put(Grow(b, off + Len(d)), off, d)   (* nxs_buf_cpy *)
Cat(b, d) == Cpy(b, b.len, d)                          (* nxs_buf_cat *)
AddChar(b, c) == Cpy(b, b.len, <<c>>)                  (* nxs_buf_add_char *)

(* nxs_buf_fill_str: over the beginning, and a zero byte after the end *)
FillStr(b, s) == AddChar(Cpy(b, 0, s), Zero)

SetLen(b, n) == IF n > Size(b) THEN b ELSE [b EXCEPT !.len = n]

(* nxs_buf_clone *)
Clone(dst, src) == [Put(Resize(dst, src.len), 0, Content(src)) EXCEPT !.len = src.len]

(* nxs_buf_get_mem: all of it or nothing *)
GetMem(b, off, n) ==
  IF off >= b.len \/ off + n > b.len THEN << >> ELSE SubSeq(b.mem, off + 1, off + n)

(* nxs_buf_cmp, nxs_buf_ncmp *)
Same(b, off, c, coff) ==
  off <= b.len /\ coff <= c.len
  /\ SubSeq(b.mem, off + 1, b.len) = SubSeq(c.mem, coff + 1, c.len)
SameN(b, off, c, coff, n) ==
  off <= b.len /\ coff <= c.len /\ n <= b.len - off /\ n <= c.len - coff
  /\ SubSeq(b.mem, off + 1, off + n) = SubSeq(c.mem, coff + 1, coff + n)

(* nxs_buf_to_string: without the zero byte that may end it.  An empty     *)
(* buffer and an offset behind the length read outside of it.              *)
AsString(b, off) ==
  SubSeq(b.mem, off + 1, IF b.mem[b.len] = Zero THEN b.len - 1 ELSE b.len)
=============================================================================

----------------------------- MODULE Metadata -------------------------------
(***************************************************************************)
(* nxs-metadata: what a file is called, whose it is and so on, in one of   *)
(* three versions with different fields; packed into a buffer by one       *)
(* program and unpacked by another.  A number is packed into as many cells *)
(* as its field is wide; widths, and what a byte counts to, are scaled     *)
(* down.  A pointer that is NULL is left out.                              *)
(***************************************************************************)
EXTENDS Buf, SequencesExt

CONSTANTS
  Width,      (* of a number: "byte", "len", "size", "mode", "id", "time"  *)
  ByteMax,    (* how many values a byte has                                *)
  Files,      (* what lstat finds: the fields of every version             *)
  Names,      (* that are set                                              *)
  Users,      (* of the other host: user and group ids by name             *)
  MaxCells,   (* bound: of the buffer                                      *)
  MaxChanges  (* bound: times that it is filled, set or freed              *)

VARIABLES
  md,         (* filled and packed                                         *)
  buf,        (* the buffer in between                                     *)
  packed,     (* history: where what was packed                            *)
  changes     (* history: how often it was filled, set or freed            *)

vars == <<md, buf, packed, changes>>

(* In the order in which they are packed *)
Layout ==
  <<<<"name", "size", "mode", "uid", "gid", "atime", "mtime", "ctime">>,
    <<"name", "size", "mode">>,
    <<"name", "size", "mode", "uname", "gname", "atime", "mtime", "ctime">>>>
FieldsOf(v) == Range(Layout[v])
TextFields == {"name", "uname", "gname"}
Times == {"atime", "mtime", "ctime"}
Owners == {"uid", "gid"}
OwnerNames == {"uname", "gname"}

(* nxs_metadata_init; without data the version is NXS_METADATA_V_NONE *)
NoData == [version |-> 0]
Fresh(v) ==
  [version |-> v, f |-> [x \in FieldsOf(v) |-> IF x \in TextFields THEN << >> ELSE 0]]

Init ==
  /\ md = NoData /\ buf = Made(1) /\ packed = {} /\ changes = 0
-----------------------------------------------------------------------------
(***************************************************************************)
(* Filling: nxs_metadata_fill, the setters and the getters                 *)
(***************************************************************************)

(* Version 2 keeps the type of lstat's mode only.  When lstat fails the     *)
(* fields are cleared.                                                     *)
Fill(v) ==
  /\ \/ md' = Fresh(v)
     \/ \E file \in Files :
          md' = [version |-> v, f |-> [x \in FieldsOf(v) |->
                   IF x = "mode" /\ v = 2 THEN file.type ELSE file[x]]]
  /\ changes' = changes + 1 /\ UNCHANGED <<buf, packed>>

(* A setter of fields xs leaves out those that the version does not have. *)
Sets(xs, values) ==
  /\ md.version # 0
  /\ md' = [md EXCEPT !.f = [x \in DOMAIN @ |-> IF x \in xs THEN values[x] ELSE @[x]]]
  /\ changes' = changes + 1 /\ UNCHANGED <<buf, packed>>

Set ==
  \/ \E x \in TextFields, n \in Names : Sets({x}, [y \in {x} |-> n])
  \/ \E file \in Files, xs \in {{"mode", "uid", "gid"}, Times, {"size"}} : Sets(xs, file)

(* nxs_metadata_free, nxs_metadata_clear *)
Forget ==
  /\ md' \in {NoData, IF md.version = 0 THEN NoData ELSE Fresh(md.version)}
  /\ changes' = changes + 1 /\ UNCHANGED <<buf, packed>>

(* The owner of version 3 is looked up by its name, and is 0 when there is  *)
(* none of that name.                                                      *)
OwnerHere(m, x) ==
  LET n == m.f[IF x = "uid" THEN "uname" ELSE "gname"]
  IN IF n \in DOMAIN Users THEN [rc |-> "OK", value |-> Users[n]]
     ELSE [rc |-> "LOOKUP", value |-> 0]

(* A getter *)
Gets(m, x) ==
  IF m.version = 0 THEN [rc |-> "VER", value |-> 0]
  ELSE IF x \in FieldsOf(m.version) THEN [rc |-> "OK", value |-> m.f[x]]
  ELSE IF x \in Owners /\ m.version = 3 THEN OwnerHere(m, x)
  ELSE [rc |-> "NOENT", value |-> 0]
-----------------------------------------------------------------------------
(***************************************************************************)
(* Packing and unpacking                                                   *)
(***************************************************************************)
Num(n, kind) == [k \in 1 .. Width[kind] |-> <<n, k>>]
KindOf(x) == CASE x \in Times -> "time" [] x \in Owners -> "id" [] OTHER -> x

(* mutant: more of a name is written than its length says *)
PieceWide(x, value) ==
  CASE x = "name" -> Num(Len(value), "len") \o value
    [] x \in OwnerNames -> Num(Len(value) % ByteMax, "byte") \o value
    [] x \notin TextFields -> Num(value, KindOf(x))

(* The names of owners are as long as a byte can count. *)
Piece(x, value) ==
  CASE x = "name" -> Num(Len(value), "len") \o value
    [] x \in OwnerNames -> LET n == Len(value) % ByteMax IN Num(n, "byte") \o SubSeq(value, 1, n)
    [] x \notin TextFields -> Num(value, KindOf(x))

Pack(m) ==
  LET order == Layout[m.version]
  IN Num(m.version, "byte") \o FlattenSeq([i \in DOMAIN order |-> Piece(order[i], m.f[order[i]])])

(* macro_buf_mem_metadata: a field of w cells; a name must not be longer    *)
(* than the buffer.                                                        *)
Has(b, at, w) == at < b.len /\ at + w <= b.len
Taken(b, u, x, at, w, value) ==
  IF u.rc # "OK" THEN u
  ELSE IF ~Has(b, at, w) THEN [u EXCEPT !.rc = "BUF_SIZE"]
  ELSE [u EXCEPT !.at = at + w, !.f[x] = value]

UnpackField(b, u, x) ==
  IF u.rc # "OK" THEN u
  ELSE IF x \in TextFields
  THEN LET w == Width[IF x = "name" THEN "len" ELSE "byte"]
           n == IF Has(b, u.at, w) THEN b.mem[u.at + 1][1] ELSE 0
       IN IF ~Has(b, u.at, w) THEN [u EXCEPT !.rc = "BUF_SIZE"]
          ELSE IF x = "name" /\ n > b.len THEN [u EXCEPT !.rc = "SIZE"]
          ELSE Taken(b, u, x, u.at + w, n, GetMem(b, u.at + w, n))
  ELSE LET w == Width[KindOf(x)]
       IN Taken(b, u, x, u.at, w, IF Has(b, u.at, w) THEN b.mem[u.at + 1][1] ELSE 0)

(* nxs_metadata_from_buf; whatever goes wrong frees the data. *)
Unpack(b, off) ==
  IF ~Has(b, off, 1) THEN [rc |-> "BUF_SIZE", md |-> NoData]
  ELSE LET v == b.mem[off + 1][1]
           order == Layout[v]
           u[i \in 0 .. Len(order)] ==
             IF i = 0 THEN [rc |-> "OK", at |-> off + 1, f |-> Fresh(v).f]
             ELSE UnpackField(b, u[i - 1], order[i])
           last == u[Len(order)]
       IN IF v \notin DOMAIN Layout THEN [rc |-> "VER", md |-> NoData]
          ELSE [rc |-> last.rc,
                md |-> IF last.rc = "OK" THEN [version |-> v, f |-> last.f] ELSE NoData]

(* Over what the buffer holds from there on, or behind it *)
ToBuf(off) ==
  /\ md.version # 0 /\ off + Len(Pack(md)) <= MaxCells
  /\ buf' = Cpy(buf, off, Pack(md))
  /\ packed' = {p \in packed : p.at + p.size <= off} \cup
               {[at |-> off, size |-> Len(Pack(md)), md |-> md]}
  /\ UNCHANGED <<md, changes>>

(* Only a part of the buffer gets to the other program. *)
Cut(n) ==
  /\ n < buf.len /\ buf' = SetLen(buf, n)
  /\ UNCHANGED <<md, packed, changes>>

Next ==
  \/ changes < MaxChanges /\ ((\E v \in DOMAIN Layout : Fill(v)) \/ Set \/ Forget)
  \/ \E off \in {0} \cup {p.at + p.size : p \in packed} : ToBuf(off)
  \/ \E n \in 0 .. buf.len - 1 : Cut(n)

Spec == Init /\ [][Next]_vars
-----------------------------------------------------------------------------
(* As it arrives: of an owner's name that is too long, the beginning *)
Arrived(m) ==
  [m EXCEPT !.f = [x \in DOMAIN @ |->
     IF x \in OwnerNames THEN SubSeq(@[x], 1, Len(@[x]) % ByteMax) ELSE @[x]]]

(* What was packed comes out again wherever it was put in the buffer,       *)
(* whatever was there before and was unpacked before; of what the buffer   *)
(* does not hold to the end nothing is believed; and the owner found on    *)
(* the other host is the one of that name there, or none.                  *)
MetadataRight ==
  \A p \in packed :
    LET u == Unpack(buf, p.at)
    IN IF p.at + p.size <= buf.len
       THEN /\ u.rc = "OK" /\ u.md = Arrived(p.md)
            /\ p.md.version = 3 /\ Len(p.md.f.uname) < ByteMax =>
                 LET uid == Gets(u.md, "uid")
                 IN IF p.md.f.uname \in DOMAIN Users THEN uid.value = Users[p.md.f.uname]
                    ELSE uid.rc = "LOOKUP"
       ELSE u.rc \in {"BUF_SIZE", "SIZE"} /\ u.md = NoData
=============================================================================

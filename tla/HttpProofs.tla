----------------------------- MODULE HttpProofs ------------------------------
(***************************************************************************)
(* nxs-curl and nxs-rest-api together: each request is routed right, and   *)
(* each call gets the answer to its own request, for all paths, handlers,  *)
(* bodies and numbers of calls.  HttpInv, which says what is on the way    *)
(* between the two, is kept by every step.                                 *)
(***************************************************************************)
EXTENDS Http, TLAPS, SequenceTheorems, FiniteSetTheorems, WellFoundedInduction

(***************************************************************************)
(* What is kept                                                            *)
(***************************************************************************)
(* A buffer has memory, and uses some of it.                               *)
IsBuf(b) == b \in [mem : Seq(Int), len : Nat] /\ b.len <= Len(b.mem)

(* What is sent back                                                       *)
Answers == [status : Int, text : Seq(Int)]

(* What libevent makes of a uri                                            *)
Forms == {"fine", "no uri", "no args"}

(* A request that a client made                                            *)
IsRequest(r) ==
  /\ DOMAIN r =
       {"conn", "method", "path", "form", "arg", "headers", "body", "via"}
  /\ r.conn \in Nat \ {0} /\ r.path \in Seq(STRING)
  /\ r.form \in Forms /\ r.arg \in Nat
  /\ r.headers \subseteq Headers /\ IsFiniteSet(r.headers)
  /\ r.body \in Seq(Int)

(* A call is under way, or was the last thing that the application did.    *)
Current == conn # 0 \/ (result # "none" /\ call.kind # "none")

(* What is known of a call                                                 *)
IsCall ==
  /\ DOMAIN call = {"conn", "kind", "sent", "size", "fresh", "request"}
  /\ call.kind \in {"query", "download", "upload"} /\ call.conn # 0
  /\ call.sent \in BOOLEAN /\ call.size \in Nat /\ call.fresh \in BOOLEAN
  /\ IsRequest(call.request) /\ call.request.conn = call.conn
  /\ call.request.headers = headers

(* The types of what both keep                                             *)
Typed ==
  /\ IsBuf(out_buf)
  /\ post_data \in Seq(Int) /\ file \in Seq(Int)
  /\ headers \subseteq Headers /\ IsFiniteSet(headers)
  /\ call.conn \in Nat /\ conn \in {0, call.conn}
  /\ result \in {"none", "OK", "ERR"} /\ (conn # 0 => result = "none")
  /\ handlers \in Seq(Registrations)
  /\ Current => IsCall

(* A request is the one that was made, but for the body of an upload, that *)
(* has the size announced.                                                 *)
Sent(r) ==
  /\ call.sent
  /\ IF call.kind = "upload" THEN Len(r.body) = call.size ELSE r = call.request

(* A connection has one request, on its way or handled.                    *)
OnTheWay ==
  /\ \A r \in requests :
       /\ IsRequest(r) /\ r.conn <= call.conn /\ r.conn \notin DOMAIN done
       /\ Current /\ r.conn = call.conn => Sent(r)
  /\ \A r, q \in requests : r.conn = q.conn => r = q

(* What a function of the application answers                              *)
Gives(r, func, text) ==
  CASE func \in {"echo", "leave"} ->
         text = IF r.arg = 0 THEN << >> ELSE <<r.arg>>
    [] func = "tell" -> text = SetToSeq(r.headers)
    [] func = "mirror" -> text = Server!CString(Append(r.body, Zero))
    [] func \in {"deny", "NULL"} -> TRUE

(* What was handled was answered by the function that it was given to,     *)
Kept(d) ==
  /\ IsRequest(d.request) /\ d.found \in Seq(Registrations)
  /\ d.by \in 0 .. Len(d.found)
  /\ d.reply \in Answers
  /\ d.by # 0 => Gives(d.request, d.found[d.by].func, d.reply.text)

(* and was sent.                                                           *)
Remembered ==
  \A c \in DOMAIN done :
    Kept(done[c]) /\ (Current /\ c = call.conn => Sent(done[c].request))

(* What is left of the reply                                               *)
Rest == IF reply = none THEN << >> ELSE reply.text

(* A reply is on its way once the request was handled, and what was taken  *)
(* of it is followed by what is left.                                      *)
UnderWay ==
  /\ conn = 0 => reply = none
  /\ Current /\ result = "OK" => Handled
  /\ conn # 0 =>
       /\ reply # none <=> Handled
       /\ reply # none =>
            reply \in Answers /\ reply.status = done[call.conn].reply.status
       /\ call.kind # "download" /\ call.fresh =>
            Content(out_buf) \o Rest = Text
       /\ call.kind = "download" =>
            file \o Rest = Text /\ ReadsAs(out_buf, << >>)

(* What every step keeps                                                   *)
HttpInv ==
  Typed /\ OnTheWay /\ Remembered /\ UnderWay /\ RoutedRight /\ OwnAnswer
    /\ FileRight
-----------------------------------------------------------------------------
(***************************************************************************)
(* The buffer                                                              *)
(***************************************************************************)
(* What is assumed, in parts                                               *)
LEMMA Bytes ==
  /\ Zero = 0 /\ Junk \in Int /\ Headers \subseteq Int \ {0}
  /\ OldFile \in Seq(Int) /\ Bodies \subseteq Seq(Int)
BY Zenon, CurlAssumption DEF CurlAssumption

LEMMA AskIs ==
  ASSUME NEW ask \in Asks \cup FileAsks
  PROVE  ask.path \in Seq(STRING) /\ ask.arg \in BOOLEAN /\ ask.form \in Forms
BY Zenon, CurlAssumption DEF CurlAssumption, Forms

(* A set of natural numbers that is not empty has a least one.             *)
LEMMA NatMin ==
  ASSUME NEW T \in SUBSET Nat, T # {}
  PROVE  \E n \in T : \A m \in T : n <= m
<1>1. IsWellFoundedOn({ss \in Nat \X Nat : ss[1] < ss[2]}, Nat)
  BY NatLessThanWellFounded DEF OpToRel
<1>2. PICK n \in T : \A m \in T :
        ~ (<<m, n>> \in {ss \in Nat \X Nat : ss[1] < ss[2]})
  BY <1>1, WFMin
<1>3. ASSUME NEW m \in T PROVE n <= m
  <2>1. m \in Nat /\ n \in Nat
    OBVIOUS
  <2>2. ~ (<<m, n>> \in {ss \in Nat \X Nat : ss[1] < ss[2]})
    BY <1>2
  <2>3. ~ (m < n)
    BY <2>1, <2>2
  <2> QED BY <2>1, <2>3
<1> QED BY <1>3

(* What lies at the beginning of a sequence                                *)
LEMMA PrefixIs ==
  ASSUME NEW S, NEW s \in Seq(S), NEW n \in Nat, n <= Len(s)
  PROVE  /\ SubSeq(s, 1, n) \in Seq(S) /\ Len(SubSeq(s, 1, n)) = n
         /\ \A i \in 1 .. n : SubSeq(s, 1, n)[i] = s[i]
<1>1. PICK z \in Nat : z = Len(s)
  OBVIOUS
<1>2. \A i \in 1 .. n : s[i] \in S
  BY <1>1
<1>3. /\ SubSeq(s, 1, n) \in Seq(S)
      /\ Len(SubSeq(s, 1, n)) = IF 1 <= n THEN n - 1 + 1 ELSE 0
      /\ \A i \in 1 .. n - 1 + 1 : SubSeq(s, 1, n)[i] = s[1 + i - 1]
  BY <1>2, SubSeqProperties
<1>4. (IF 1 <= n THEN n - 1 + 1 ELSE 0) = n /\ n - 1 + 1 = n
  OBVIOUS
<1>5. \A i \in 1 .. n : 1 + i - 1 = i
  OBVIOUS
<1> QED BY <1>3, <1>4, <1>5

(* Sequences with the same elements are the same.                          *)
LEMMA SameSeq ==
  ASSUME NEW S, NEW s \in Seq(S), NEW t \in Seq(S), NEW n \in Nat,
         Len(s) = n, Len(t) = n, \A i \in 1 .. n : s[i] = t[i]
  PROVE  s = t
BY SeqEqual

(* The greater of two numbers, and the smaller                             *)
LEMMA MaxIs ==
  ASSUME NEW a \in Nat, NEW b \in Nat
  PROVE  Max({a, b}) = IF a < b THEN b ELSE a
<1> DEFINE m == IF a < b THEN b ELSE a
<1>1. m \in {a, b} /\ \A y \in {a, b} : m >= y
  OBVIOUS
<1>2. \A x \in {a, b} : (\A y \in {a, b} : x >= y) => x = m
  OBVIOUS
<1> HIDE DEF m
<1>3. (CHOOSE x \in {a, b} : \A y \in {a, b} : x >= y) = m
  BY <1>1, <1>2
<1> QED BY <1>3 DEF Max, m

LEMMA MinIs ==
  ASSUME NEW a \in Nat, NEW b \in Nat
  PROVE  Min({a, b}) = IF a < b THEN a ELSE b
<1> DEFINE m == IF a < b THEN a ELSE b
<1>1. m \in {a, b} /\ \A y \in {a, b} : m =< y
  OBVIOUS
<1>2. \A x \in {a, b} : (\A y \in {a, b} : x =< y) => x = m
  OBVIOUS
<1> HIDE DEF m
<1>3. (CHOOSE x \in {a, b} : \A y \in {a, b} : x =< y) = m
  BY <1>1, <1>2
<1> QED BY <1>3 DEF Min, m

(* nxs_buf_init makes an empty buffer.                                     *)
LEMMA MadeIs ==
  ASSUME NEW n \in Nat
  PROVE  IsBuf(Made(n)) /\ Made(n).len = 0 /\ Len(Made(n).mem) = n
<1> DEFINE m == [i \in 1 .. n |-> Zero]
<1>1. m \in [1 .. n -> Int]
  BY Bytes
<1>2. m \in Seq(Int) /\ Len(m) = n
  BY <1>1
<1>3. Made(n) = [mem |-> m, len |-> 0]
  BY DEF Made
<1> HIDE DEF m
<1>4. /\ Made(n).mem = m /\ Made(n).len = 0
      /\ Made(n) \in [mem : Seq(Int), len : Nat]
  BY <1>2, <1>3
<1>5. 0 <= n
  OBVIOUS
<1> QED BY <1>2, <1>4, <1>5 DEF IsBuf

(* More memory for the same content                                        *)
LEMMA GrowIs ==
  ASSUME NEW b, IsBuf(b), NEW n \in Nat
  PROVE  /\ IsBuf(Grow(b, n)) /\ n <= Len(Grow(b, n).mem)
         /\ Grow(b, n).len = b.len
         /\ \A i \in 1 .. b.len : Grow(b, n).mem[i] = b.mem[i]
<1>1. PICK z \in Nat : z = Len(b.mem)
  BY DEF IsBuf
<1>2. b.len \in Nat /\ b.mem \in Seq(Int) /\ b.len <= z /\ Size(b) = z
  BY <1>1 DEF IsBuf, Size
<1>3. CASE n > z /\ z = 0
  <2>1. Grow(b, n) = Made(n) /\ b.len = 0
    BY <1>2, <1>3 DEF Grow, Resize
  <2> QED BY <2>1, MadeIs
<1>4. CASE n > z /\ z # 0
  <2> DEFINE m == [i \in 1 .. n |-> IF i <= z THEN b.mem[i] ELSE Junk]
  <2>1. Min({n, b.len}) = b.len
    BY <1>2, <1>4, MinIs
  <2>2. Grow(b, n) = [mem |-> m, len |-> b.len]
    BY <1>2, <1>4, <2>1 DEF Grow, Resize
  <2>3. \A i \in 1 .. n : m[i] \in Int
    BY <1>1, <1>2, Bytes
  <2>4. m \in [1 .. n -> Int]
    BY <2>3
  <2>5. m \in Seq(Int) /\ Len(m) = n
    BY <2>4
  <2>6. \A i \in 1 .. b.len : m[i] = b.mem[i]
    BY <1>2, <1>4
  <2>7. b.len <= n
    BY <1>2, <1>4
  <2> HIDE DEF m
  <2>8. /\ Grow(b, n).mem = m /\ Grow(b, n).len = b.len
        /\ Grow(b, n) \in [mem : Seq(Int), len : Nat]
    BY <1>2, <2>2, <2>5
  <2>9. n <= n
    OBVIOUS
  <2> QED BY <2>5, <2>6, <2>7, <2>8, <2>9 DEF IsBuf
<1>5. CASE ~ n > z
  <2>1. Grow(b, n) = b
    BY <1>2, <1>5 DEF Grow
  <2>2. n <= Len(b.mem)
    BY <1>1, <1>5
  <2> QED BY <2>1, <2>2
<1> QED BY <1>3, <1>4, <1>5

(* The bytes in use                                                        *)
LEMMA ContentIs ==
  ASSUME NEW b, IsBuf(b)
  PROVE  /\ Content(b) \in Seq(Int) /\ Len(Content(b)) = b.len
         /\ \A i \in 1 .. b.len : Content(b)[i] = b.mem[i]
<1>1. b.mem \in Seq(Int) /\ b.len \in Nat /\ b.len <= Len(b.mem)
  BY DEF IsBuf
<1> QED BY <1>1, PrefixIs DEF Content

(* nxs_buf_cat adds to the content and leaves the rest of it.              *)
LEMMA CatIs ==
  ASSUME NEW b, IsBuf(b), NEW d \in Seq(Int)
  PROVE  IsBuf(Cat(b, d)) /\ Content(Cat(b, d)) = Content(b) \o d
<1> DEFINE off == b.len
           g == Grow(b, off + Len(d))
           c == Cat(b, d)
           s == Content(b)
<1>1. PICK e \in Nat : e = Len(d) /\ DOMAIN d = 1 .. e
  OBVIOUS
<1>2. off \in Nat /\ off + e \in Nat
  BY DEF IsBuf
<1>3. /\ IsBuf(g) /\ off + e <= Len(g.mem) /\ g.len = off
      /\ \A i \in 1 .. off : g.mem[i] = b.mem[i]
  BY <1>1, <1>2, GrowIs
<1>4. c = Put(g, off, d)
  BY DEF Cat, Cpy
<1> HIDE DEF g, c
<1>5. PICK z \in Nat : z = Len(g.mem)
  BY <1>3 DEF IsBuf
<1> DEFINE m == [i \in 1 .. z |-> IF i - off \in DOMAIN d THEN d[i - off]
                                  ELSE g.mem[i]]
<1>6. c = [mem |-> m, len |-> off + e]
  <2>1. Max({off, off + e}) = off + e
    BY <1>1, <1>2, MaxIs
  <2>2. d = << >> => e = 0
    BY <1>1
  <2>3. (IF d = << >> THEN off ELSE Max({off, off + e})) = off + e
    BY <1>1, <1>2, <2>1, <2>2
  <2> QED BY <1>1, <1>3, <1>4, <1>5, <2>3 DEF Put, Size
<1>7. \A i \in 1 .. z : m[i] \in Int
  <2>1. \A i \in DOMAIN d : d[i] \in Int
    OBVIOUS
  <2>2. \A i \in 1 .. z : g.mem[i] \in Int
    BY <1>3, <1>5 DEF IsBuf
  <2> QED BY <2>1, <2>2
<1>8. m \in [1 .. z -> Int]
  BY <1>7
<1>9. m \in Seq(Int) /\ Len(m) = z
  BY <1>8
<1>10. \A i \in 1 .. off + e :
         m[i] = IF i <= off THEN b.mem[i] ELSE d[i - off]
  <2>1. ASSUME NEW i \in 1 .. off + e
        PROVE  m[i] = IF i <= off THEN b.mem[i] ELSE d[i - off]
    <3>1. i \in 1 .. z
      BY <1>2, <1>3, <1>5
    <3>2. i - off \in DOMAIN d <=> ~ i <= off
      BY <1>1, <1>2
    <3> QED BY <1>3, <3>1, <3>2
  <2> QED BY <2>1
<1> HIDE DEF m
<1>11. /\ c.mem = m /\ c.len = off + e
       /\ c \in [mem : Seq(Int), len : Nat]
  BY <1>2, <1>6, <1>9
<1>12. IsBuf(c)
  BY <1>3, <1>5, <1>9, <1>11 DEF IsBuf
<1>13. s \in Seq(Int) /\ Len(s) = off /\ \A i \in 1 .. off : s[i] = b.mem[i]
  BY ContentIs
<1>14. /\ Content(c) \in Seq(Int) /\ Len(Content(c)) = off + e
       /\ \A i \in 1 .. off + e : Content(c)[i] = m[i]
  BY <1>11, <1>12, ContentIs
<1> HIDE DEF s
<1>15. /\ s \o d \in Seq(Int) /\ Len(s \o d) = off + e
       /\ \A i \in 1 .. off + e :
            (s \o d)[i] = IF i <= off THEN s[i] ELSE d[i - off]
  <2>1. PICK t : t = s
    OBVIOUS
  <2>2. PICK o \in Nat : o = off
    BY <1>2
  <2>3. t \in Seq(Int) /\ Len(t) = o /\ Len(d) = e
    BY <1>1, <1>13, <2>1, <2>2
  <2>4. /\ t \o d \in Seq(Int) /\ Len(t \o d) = Len(t) + Len(d)
        /\ \A i \in 1 .. Len(t) + Len(d) :
             (t \o d)[i] = IF i <= Len(t) THEN t[i] ELSE d[i - Len(t)]
    BY ONLY <2>3, d \in Seq(Int), ConcatProperties
  <2>5. /\ t \o d \in Seq(Int) /\ Len(t \o d) = o + e
        /\ \A i \in 1 .. o + e :
             (t \o d)[i] = IF i <= o THEN t[i] ELSE d[i - o]
    BY ONLY <2>3, <2>4
  <2> QED BY <2>1, <2>2, <2>5
<1>16. \A i \in 1 .. off + e : Content(c)[i] = (s \o d)[i]
  <2>1. ASSUME NEW i \in 1 .. off + e PROVE Content(c)[i] = (s \o d)[i]
    <3>1. i <= off => i \in 1 .. off
      BY <1>2
    <3> QED BY <1>10, <1>13, <1>14, <1>15, <3>1
  <2> QED BY <2>1
<1>17. Content(c) = s \o d
  BY <1>2, <1>14, <1>15, <1>16, SameSeq
<1> QED BY <1>12, <1>17 DEF c, s

(* nxs_buf_add_char, the same of one byte                                  *)
LEMMA AddCharIs ==
  ASSUME NEW b, IsBuf(b), NEW ch \in Int
  PROVE  /\ IsBuf(AddChar(b, ch))
         /\ Content(AddChar(b, ch)) = Append(Content(b), ch)
<1>1. AddChar(b, ch) = Cat(b, <<ch>>)
  BY DEF AddChar, Cat
<1>2. <<ch>> \in Seq(Int)
  OBVIOUS
<1>3. Content(b) \in Seq(Int)
  BY ContentIs
<1>4. Append(Content(b), ch) = Content(b) \o <<ch>>
  BY <1>3, AppendIsConcat
<1> QED BY <1>1, <1>2, <1>4, CatIs

(* An emptied buffer                                                       *)
LEMMA ClearIs ==
  ASSUME NEW b, IsBuf(b)
  PROVE  IsBuf(Clear(b)) /\ Content(Clear(b)) = << >>
<1>1. PICK z \in Nat : z = Len(b.mem)
  BY DEF IsBuf
<1>2. IsBuf(Clear(b)) /\ Clear(b).len = 0
  <2>1. CASE z = 0
    <3>1. Clear(b) = b /\ b.len = 0
      BY <1>1, <2>1 DEF IsBuf, Clear, Size
    <3> QED BY <3>1
  <2>2. CASE z # 0
    <3>1. Clear(b) = [b EXCEPT !.len = 0]
      BY <1>1, <2>2 DEF Clear, Size
    <3>2. /\ Clear(b) \in [mem : Seq(Int), len : Nat] /\ Clear(b).len = 0
          /\ Clear(b).mem = b.mem
      BY <3>1 DEF IsBuf
    <3>3. 0 <= z
      OBVIOUS
    <3> QED BY <1>1, <3>2, <3>3 DEF IsBuf
  <2> QED BY <2>1, <2>2
<1>3. Content(Clear(b)) \in Seq(Int) /\ Len(Content(Clear(b))) = 0
  BY <1>2, ContentIs
<1> QED BY <1>2, <1>3, EmptySeq

(* A buffer that holds a text and a zero byte is read as that text.        *)
LEMMA EndedReads ==
  ASSUME NEW b, IsBuf(b), NEW t \in Seq(Int), Content(b) = Append(t, Zero)
  PROVE  ReadsAs(b, t)
<1>1. PICK n \in Nat : n = Len(t)
  OBVIOUS
<1>2. PICK z \in Nat : z = Len(b.mem)
  BY DEF IsBuf
<1>3. Zero \in Int
  BY Bytes
<1>4. /\ Len(Append(t, Zero)) = n + 1 /\ Append(t, Zero)[n + 1] = Zero
      /\ \A i \in 1 .. n : Append(t, Zero)[i] = t[i]
  BY <1>1, <1>3, AppendProperties
<1>5. b.len = n + 1 /\ \A i \in 1 .. n + 1 : b.mem[i] = Append(t, Zero)[i]
  <2>1. /\ Len(Content(b)) = b.len
        /\ \A i \in 1 .. b.len : Content(b)[i] = b.mem[i]
    BY ContentIs
  <2>2. b.len = n + 1
    BY <1>4, <2>1
  <2> QED BY <2>1, <2>2
<1>6. n < z /\ n + 1 \in 1 .. n + 1 /\ \A i \in 1 .. n : i \in 1 .. n + 1
  BY <1>2, <1>5 DEF IsBuf
<1>7. b.mem[n + 1] = Zero /\ \A i \in 1 .. n : b.mem[i] = t[i]
  BY <1>4, <1>5, <1>6
<1>8. n <= Len(b.mem) /\ b.mem \in Seq(Int)
  BY <1>2, <1>6 DEF IsBuf
<1>9. /\ SubSeq(b.mem, 1, n) \in Seq(Int) /\ Len(SubSeq(b.mem, 1, n)) = n
      /\ \A i \in 1 .. n : SubSeq(b.mem, 1, n)[i] = b.mem[i]
  BY <1>8, PrefixIs
<1>10. SubSeq(b.mem, 1, n) = t
  BY <1>1, <1>7, <1>9, SameSeq
<1> QED BY <1>1, <1>2, <1>6, <1>7, <1>10 DEF ReadsAs, Size
-----------------------------------------------------------------------------
(***************************************************************************)
(* The answers                                                             *)
(***************************************************************************)
(* The server and the client count and list alike.                         *)
LEMMA SameServer ==
  /\ \A V : Server!Cardinality(V) = Cardinality(V)
  /\ \A V : Server!SetToSeq(V) = SetToSeq(V)
  /\ \A s, t : Server!IsPrefix(s, t) = IsPrefix(s, t)
  /\ Server!none = none
<1>1. \A V : Server!Cardinality(V) = Cardinality(V)
  BY DEF Cardinality, Server!Cardinality
<1>2. \A V : Server!SetToSeq(V) = SetToSeq(V)
  BY <1>1 DEF SetToSeq, Server!SetToSeq, IsInjective, Server!IsInjective
<1> QED BY <1>1, <1>2 DEF IsPrefix, Server!IsPrefix, none, Server!none

(* A finite set is listed.                                                 *)
LEMMA ListedIs ==
  ASSUME NEW V, IsFiniteSet(V)
  PROVE  SetToSeq(V) \in Seq(V)
<1>1. PICK n \in Nat : n = Cardinality(V)
  BY FS_CardinalityType
<1>2. \E f \in [1 .. n -> V] : IsInjective(f)
  <2>1. PICK f : f \in Bijection(1 .. n, V)
    BY <1>1, FS_CardinalityType DEF ExistsBijection
  <2> QED BY <2>1 DEF Bijection, Injection
<1>3. SetToSeq(V) \in [1 .. n -> V]
  BY <1>1, <1>2 DEF SetToSeq
<1> QED BY <1>3

(* The first zero byte                                                     *)
LEMMA FirstZero ==
  ASSUME NEW s \in Seq(Int)
  PROVE  \/ \E k \in Nat \ {0} : /\ k <= Len(s) /\ s[k] = Zero
                                 /\ \A i \in 1 .. k - 1 : s[i] # Zero
                                 /\ Server!CString(s) = SubSeq(s, 1, k - 1)
         \/ /\ \A i \in 1 .. Len(s) : s[i] # Zero
            /\ Server!CString(s) = SubSeq(s, 1, -1)
<1> DEFINE I == {i \in 1 .. Len(s) : s[i] = Zero}
<1>1. Server!CString(s)
        = SubSeq(s, 1, (IF I # {} THEN Server!Min(I) ELSE 0) - 1)
  BY DEF Server!CString, Server!SelectInSeq
<1>2. CASE I = {}
  BY <1>1, <1>2
<1>3. CASE I # {}
  <2>1. I \in SUBSET Nat
    OBVIOUS
  <2>2. PICK k \in I : \A i \in I : k <= i
    BY <1>3, <2>1, NatMin
  <2>3. Server!Min(I) = k
    <3>1. \A m \in I : (\A i \in I : m =< i) => m = k
      BY <2>1, <2>2
    <3> QED BY <2>2, <3>1 DEF Server!Min
  <2>4. k \in Nat \ {0} /\ k <= Len(s) /\ s[k] = Zero
    BY <2>2
  <2>5. ASSUME NEW i \in 1 .. k - 1 PROVE s[i] # Zero
    <3>1. PICK n \in Nat : n = Len(s)
      OBVIOUS
    <3>2. i \in 1 .. n /\ ~ k <= i
      BY <2>4, <3>1
    <3> QED BY <2>2, <3>1, <3>2
  <2>6. Server!CString(s) = SubSeq(s, 1, k - 1)
    BY <1>1, <1>3, <2>3
  <2> QED BY <2>4, <2>5, <2>6
<1> QED BY <1>2, <1>3

(* What printf makes of the buffer of an answer is a text                  *)
LEMMA CStringIs ==
  ASSUME NEW s \in Seq(Int)
  PROVE  Server!CString(s) \in Seq(Int)
<1>1. PICK n \in Nat : n = Len(s)
  OBVIOUS
<1>2. CASE \E k \in Nat \ {0} : /\ k <= Len(s) /\ s[k] = Zero
                                /\ \A i \in 1 .. k - 1 : s[i] # Zero
                                /\ Server!CString(s) = SubSeq(s, 1, k - 1)
  <2>1. PICK k \in Nat \ {0} : k <= n
          /\ Server!CString(s) = SubSeq(s, 1, k - 1)
    BY <1>1, <1>2
  <2>2. k - 1 \in Nat /\ k - 1 <= Len(s)
    BY <1>1, <2>1
  <2> QED BY <2>1, <2>2, PrefixIs
<1>3. CASE Server!CString(s) = SubSeq(s, 1, -1)
  <2>1. SubSeq(s, 1, -1) \in Seq(Int)
    <3>1. 1 \in Int /\ -1 \in Int /\ \A i \in 1 .. -1 : s[i] \in Int
      OBVIOUS
    <3> QED BY <3>1, SubSeqProperties
  <2> QED BY <1>3, <2>1
<1> QED BY <1>2, <1>3, FirstZero

(* and the whole of one without a zero byte.                               *)
LEMMA CStringWhole ==
  ASSUME NEW t \in Seq(Int \ {0})
  PROVE  Server!CString(t \o <<Zero>>) = t
<1> DEFINE s == t \o <<Zero>>
<1>1. PICK n \in Nat : n = Len(t)
  OBVIOUS
<1>2. t \in Seq(Int) /\ <<Zero>> \in Seq(Int) /\ Len(<<Zero>>) = 1
      /\ <<Zero>>[1] = Zero /\ Zero = 0
  BY Bytes
<1>3. /\ s \in Seq(Int) /\ Len(s) = n + 1
      /\ \A i \in 1 .. n + 1 : s[i] = IF i <= n THEN t[i] ELSE <<Zero>>[i - n]
  <2>1. PICK u \in Seq(Int) : u = <<Zero>>
    BY <1>2
  <2>2. /\ t \o u \in Seq(Int) /\ Len(t \o u) = Len(t) + Len(u)
        /\ \A i \in 1 .. Len(t) + Len(u) :
             (t \o u)[i] = IF i <= Len(t) THEN t[i] ELSE u[i - Len(t)]
    BY <1>2, ConcatProperties
  <2> QED BY <1>1, <1>2, <2>1, <2>2
<1>4. \A i \in 1 .. n : s[i] = t[i] /\ s[i] # Zero
  BY <1>1, <1>2, <1>3
<1>5. s[n + 1] = Zero
  <2>1. n + 1 \in 1 .. n + 1 /\ ~ n + 1 <= n /\ n + 1 - n = 1
    OBVIOUS
  <2> QED BY <1>2, <1>3, <2>1
<1> HIDE DEF s
<1>6. PICK k \in Nat \ {0} : /\ k <= n + 1 /\ s[k] = Zero
                             /\ \A i \in 1 .. k - 1 : s[i] # Zero
                             /\ Server!CString(s) = SubSeq(s, 1, k - 1)
  <2>1. n + 1 \in 1 .. n + 1
    OBVIOUS
  <2>2. ~ \A i \in 1 .. Len(s) : s[i] # Zero
    BY <1>3, <1>5, <2>1
  <2> QED BY <1>3, <2>2, FirstZero
<1>7. k = n + 1
  <2>1. k \notin 1 .. n
    BY <1>4, <1>6
  <2> QED BY <1>6, <2>1
<1>8. Server!CString(s) = SubSeq(s, 1, n)
  BY <1>6, <1>7
<1>9. n <= Len(s)
  BY <1>3
<1>10. SubSeq(s, 1, n) = t
  <2>1. /\ SubSeq(s, 1, n) \in Seq(Int) /\ Len(SubSeq(s, 1, n)) = n
        /\ \A i \in 1 .. n : SubSeq(s, 1, n)[i] = s[i]
    BY <1>3, <1>9, PrefixIs
  <2> QED BY <1>1, <1>2, <1>4, <2>1, SameSeq
<1> QED BY <1>8, <1>10 DEF s
-----------------------------------------------------------------------------
(***************************************************************************)
(* Routing                                                                 *)
(***************************************************************************)
(* Increases(f): a function on 1 .. n that increases                       *)
Increases(f) == \A j, k \in DOMAIN f : j < k => f[j] < f[k]

(* A finite set of numbers can be put in order.                            *)
LEMMA Ordered ==
  ASSUME NEW n \in Nat, NEW V \in SUBSET (1 .. n)
  PROVE  /\ Cardinality(V) \in Nat
         /\ \E f \in [1 .. Cardinality(V) -> V] : Increases(f)
<1> DEFINE W(m) == V \cap (1 .. m)
           c(m) == Cardinality(W(m))
           P(m) == \E f \in [1 .. c(m) -> W(m)] : Increases(f)
           Bad == {m \in Nat : ~ P(m)}
<1>1. ASSUME NEW m \in Nat PROVE IsFiniteSet(W(m)) /\ c(m) \in Nat
  <2>1. IsFiniteSet(1 .. m)
    <3>1. 1 \in Int /\ m \in Int
      OBVIOUS
    <3> QED BY <3>1, FS_Interval
  <2>2. W(m) \in SUBSET (1 .. m)
    OBVIOUS
  <2>3. IsFiniteSet(W(m))
    BY <2>1, <2>2, FS_Subset
  <2> QED BY <2>3, FS_CardinalityType
<1>2. P(0)
  <2>1. W(0) = {}
    OBVIOUS
  <2>2. c(0) = 0
    BY <2>1, FS_EmptySet
  <2> DEFINE f == [i \in 1 .. 0 |-> 0]
  <2>3. f \in [1 .. 0 -> W(0)] /\ Increases(f)
    BY DEF Increases
  <2> QED BY <2>2, <2>3
<1>3. ASSUME NEW m \in Nat \ {0}, P(m - 1) PROVE P(m)
  <2>1. m - 1 \in Nat
    OBVIOUS
  <2>2. CASE m \notin V
    <3>1. W(m) = W(m - 1)
      BY <2>2
    <3> QED BY <1>3, <3>1
  <2>3. CASE m \in V
    <3>1. W(m) = W(m - 1) \cup {m} /\ m \notin W(m - 1)
      BY <2>3
    <3>2. PICK a \in Nat : a = c(m - 1)
      BY <1>1, <2>1
    <3>3. IsFiniteSet(W(m - 1))
      BY <1>1, <2>1
    <3>4. c(m) = a + 1
      BY <3>1, <3>2, <3>3, FS_AddElement
    <3>5. PICK f \in [1 .. a -> W(m - 1)] : Increases(f)
      BY <1>3, <3>2
    <3> DEFINE g == [i \in 1 .. a + 1 |-> IF i <= a THEN f[i] ELSE m]
    <3>6. g \in [1 .. a + 1 -> W(m)]
      <4>1. ASSUME NEW i \in 1 .. a + 1 PROVE g[i] \in W(m)
        <5>1. CASE i <= a
          <6>1. f[i] \in W(m - 1)
            BY <5>1, <3>5
          <6> QED BY <3>1, <5>1, <6>1
        <5>2. CASE ~ i <= a
          BY <3>1, <5>2
        <5> QED BY <5>1, <5>2
      <4> QED BY <4>1
    <3>7. Increases(g)
      <4>1. ASSUME NEW j \in 1 .. a + 1, NEW k \in 1 .. a + 1, j < k
            PROVE  g[j] < g[k]
        <5>1. j \in 1 .. a /\ g[j] = f[j] /\ f[j] \in 1 .. m - 1
          BY <3>5, <4>1
        <5>2. CASE k <= a
          BY <3>5, <4>1, <5>1, <5>2 DEF Increases
        <5>3. CASE ~ k <= a
          BY <5>1, <5>3
        <5> QED BY <5>2, <5>3
      <4> QED BY <4>1 DEF Increases
    <3> QED BY <3>4, <3>6, <3>7
  <2> QED BY <2>2, <2>3
<1>4. Bad = {}
  <2>1. SUFFICES ASSUME Bad # {} PROVE FALSE
    OBVIOUS
  <2> HIDE DEF P
  <2>2. PICK m \in Bad : \A k \in Bad : m <= k
    BY <2>1, NatMin
  <2>3. m \in Nat \ {0} /\ ~ P(m)
    BY <1>2, <2>2
  <2>4. m - 1 \in Nat /\ m - 1 \notin Bad
    BY <2>2, <2>3
  <2> QED BY <1>3, <2>3, <2>4
<1>5. P(n)
  BY <1>4
<1>6. W(n) = V
  OBVIOUS
<1> QED BY <1>1, <1>5, <1>6

(* The parts of a path that begin in V, in order                           *)
InOrder(V) ==
  CHOOSE f \in [1 .. Server!Cardinality(V) -> V] :
    \A j, k \in DOMAIN f : j < k => f[j] < f[k]

LEMMA InOrderIs ==
  ASSUME NEW n \in Nat, NEW V \in SUBSET (1 .. n), V # {}
  PROVE  \E c \in Nat \ {0} :
           /\ InOrder(V) \in [1 .. c -> V] /\ Increases(InOrder(V))
           /\ \A v \in V : \E k \in 1 .. c : InOrder(V)[k] = v
<1>1. \A v \in V : v \in Nat
  OBVIOUS
<1>2. PICK c : c = Cardinality(V)
  OBVIOUS
<1>3. c \in Nat /\ \E f \in [1 .. c -> V] : Increases(f)
  BY <1>2, Ordered
<1>4. InOrder(V) \in [1 .. c -> V] /\ Increases(InOrder(V))
  BY <1>2, <1>3, SameServer DEF InOrder, Increases
<1>5. PICK f \in [1 .. c -> V] : f = InOrder(V) /\ Increases(f)
  BY <1>4
<1>6. f \in Injection(1 .. c, V)
  <2>1. ASSUME NEW j \in 1 .. c, NEW k \in 1 .. c, j # k PROVE f[j] # f[k]
    <3>1. f[j] \in V /\ f[k] \in V
      OBVIOUS
    <3>2. f[j] \in Nat /\ f[k] \in Nat
      BY <1>1, <3>1
    <3>3. j < k \/ k < j
      BY <1>3, <2>1
    <3>4. f[j] < f[k] \/ f[k] < f[j]
      BY <1>5, <3>3 DEF Increases
    <3> QED BY <3>2, <3>4
  <2> QED BY <2>1 DEF Injection, IsInjective
<1>7. IsFiniteSet(V) /\ IsFiniteSet(1 .. c) /\ Cardinality(1 .. c) = c
  <2>1. 1 \in Int /\ n \in Int /\ c \in Int
    BY <1>3
  <2>2. IsFiniteSet(1 .. n) /\ IsFiniteSet(1 .. c)
        /\ Cardinality(1 .. c) = IF 1 > c THEN 0 ELSE c - 1 + 1
    BY <2>1, FS_Interval
  <2>3. (IF 1 > c THEN 0 ELSE c - 1 + 1) = c
    BY <1>3
  <2> QED BY <2>2, <2>3, FS_Subset
<1>8. f \in Surjection(1 .. c, V)
  BY <1>2, <1>6, <1>7, FS_Injection
<1>9. \A v \in V : \E k \in 1 .. c : f[k] = v
  BY <1>8 DEF Surjection
<1>10. c # 0
  <2>1. PICK v \in V : TRUE
    OBVIOUS
  <2>2. PICK k \in 1 .. c : f[k] = v
    BY <1>9
  <2> QED BY <1>3, <2>2
<1> QED BY <1>3, <1>5, <1>9, <1>10

(* A stretch of a sequence                                                 *)
LEMMA SliceIs ==
  ASSUME NEW S, NEW s \in Seq(S), NEW a \in Nat, NEW b \in Nat, a <= b,
         b <= Len(s)
  PROVE  /\ SubSeq(s, a + 1, b) \in Seq(S) /\ Len(SubSeq(s, a + 1, b)) = b - a
         /\ \A i \in 1 .. b - a : SubSeq(s, a + 1, b)[i] = s[a + i]
<1>1. PICK z \in Nat : z = Len(s)
  OBVIOUS
<1>2. \A i \in a + 1 .. b : s[i] \in S
  BY <1>1
<1>3. a + 1 \in Int /\ b \in Int
  OBVIOUS
<1>4. /\ SubSeq(s, a + 1, b) \in Seq(S)
      /\ Len(SubSeq(s, a + 1, b)) = IF a + 1 <= b THEN b - (a + 1) + 1 ELSE 0
      /\ \A i \in 1 .. b - (a + 1) + 1 :
           SubSeq(s, a + 1, b)[i] = s[a + 1 + i - 1]
  BY <1>2, <1>3, SubSeqProperties
<1>5. /\ (IF a + 1 <= b THEN b - (a + 1) + 1 ELSE 0) = b - a
      /\ b - (a + 1) + 1 = b - a
  OBVIOUS
<1>6. \A i \in 1 .. b - a : a + 1 + i - 1 = a + i
  OBVIOUS
<1> QED BY <1>4, <1>5, <1>6

(* A beginning and the stretch after it are a longer beginning.            *)
LEMMA Joined ==
  ASSUME NEW S, NEW s \in Seq(S), NEW a \in Nat, NEW b \in Nat, a <= b,
         b <= Len(s)
  PROVE  SubSeq(s, 1, a) \o SubSeq(s, a + 1, b) = SubSeq(s, 1, b)
<1>1. PICK z \in Nat : z = Len(s)
  OBVIOUS
<1>2. a <= Len(s)
  BY <1>1
<1>3. PICK t : t = SubSeq(s, 1, a)
  OBVIOUS
<1>4. PICK u : u = SubSeq(s, a + 1, b)
  OBVIOUS
<1>5. PICK w : w = SubSeq(s, 1, b)
  OBVIOUS
<1>6. PICK d \in Nat : d = b - a
  OBVIOUS
<1>7. t \in Seq(S) /\ Len(t) = a /\ \A i \in 1 .. a : t[i] = s[i]
  BY <1>2, <1>3, PrefixIs
<1>8. u \in Seq(S) /\ Len(u) = d /\ \A i \in 1 .. d : u[i] = s[a + i]
  BY <1>4, <1>6, SliceIs
<1>9. w \in Seq(S) /\ Len(w) = b /\ \A i \in 1 .. b : w[i] = s[i]
  BY <1>5, PrefixIs
<1>10. t \in Seq(S) /\ u \in Seq(S) /\ Len(t) = a /\ Len(u) = d
  BY <1>7, <1>8
<1>11. /\ t \o u \in Seq(S) /\ Len(t \o u) = a + d
       /\ \A i \in 1 .. a + d : (t \o u)[i] = IF i <= a THEN t[i] ELSE u[i - a]
  <2>1. t \o u \in Seq(S) /\ Len(t \o u) = a + d
    BY <1>10, ConcatProperties
  <2>2. ASSUME NEW i \in 1 .. a + d
        PROVE  (t \o u)[i] = IF i <= a THEN t[i] ELSE u[i - a]
    BY <1>10, ConcatProperties
  <2> QED BY <2>1, <2>2
<1>12. PICK v : v = t \o u
  OBVIOUS
<1>13. v \in Seq(S) /\ Len(v) = b
       /\ \A i \in 1 .. b : v[i] = IF i <= a THEN t[i] ELSE u[i - a]
  BY <1>6, <1>11, <1>12
<1>14. ASSUME NEW i \in 1 .. b PROVE v[i] = w[i]
  <2>1. CASE i <= a
    BY <1>7, <1>9, <1>13, <2>1
  <2>2. CASE ~ i <= a
    <3>1. i - a \in 1 .. d /\ a + (i - a) = i
      BY <1>6, <2>2
    <3>2. u[i - a] = s[i]
      BY <1>8, <3>1
    <3> QED BY <1>9, <1>13, <2>2, <3>2
  <2> QED BY <2>1, <2>2
<1>15. v = w
  BY <1>9, <1>13, <1>14, SameSeq
<1> QED BY <1>3, <1>4, <1>5, <1>12, <1>15

(* Joining one after the other gives the longest of the beginnings.        *)
LEMMA FlattenIs ==
  ASSUME NEW i \in Nat \ {0}, NEW q, NEW w, Len(q) = i,
         w[1] = q[1], \A j \in 2 .. i : w[j] = w[j - 1] \o q[j]
  PROVE  Server!FlattenSeq(q) = w[i]
<1> DEFINE Joins(f) ==
             f = [j \in 1 .. i |-> IF j = 1 THEN q[j] ELSE f[j - 1] \o q[j]]
           g == [j \in 1 .. i |-> w[j]]
           h == CHOOSE f : Joins(f)
<1>1. Server!FlattenSeq(q) = h[i]
  BY DEF Server!FlattenSeq
<1>2. Joins(g)
  <2>1. ASSUME NEW j \in 1 .. i
        PROVE  g[j] = IF j = 1 THEN q[j] ELSE g[j - 1] \o q[j]
    <3>1. CASE j = 1
      BY <3>1
    <3>2. CASE j # 1
      <4>1. j \in 2 .. i /\ j - 1 \in 1 .. i
        BY <3>2
      <4> QED BY <3>2, <4>1
    <3> QED BY <3>1, <3>2
  <2>2. g = [j \in 1 .. i |-> IF j = 1 THEN q[j] ELSE g[j - 1] \o q[j]]
    BY <2>1
  <2> QED BY <2>2
<1>3. Joins(h)
  BY <1>2
<1>4. \A j \in 1 .. i : h[j] = IF j = 1 THEN q[j] ELSE h[j - 1] \o q[j]
  <2> HIDE DEF h
  <2> QED BY <1>3
<1> HIDE DEF h
<1> DEFINE Bad == {j \in 1 .. i : h[j] # w[j]}
<1>5. Bad = {}
  <2>1. SUFFICES ASSUME Bad # {} PROVE FALSE
    OBVIOUS
  <2>2. Bad \in SUBSET Nat
    OBVIOUS
  <2>3. PICK j \in Bad : \A k \in Bad : j <= k
    BY <2>1, <2>2, NatMin
  <2>4. CASE j = 1
    BY <1>4, <2>3, <2>4
  <2>5. CASE j # 1
    <3>1. j \in 2 .. i /\ j - 1 \in 1 .. i /\ j - 1 \notin Bad
      BY <2>3, <2>5
    <3>2. h[j] = h[j - 1] \o q[j]
      BY <1>4, <2>3, <2>5
    <3>3. w[j] = w[j - 1] \o q[j]
      BY <3>1
    <3>4. h[j - 1] = w[j - 1]
      BY <3>1
    <3> QED BY <2>3, <3>2, <3>3, <3>4
  <2> QED BY <2>4, <2>5
<1>6. i \in 1 .. i
  OBVIOUS
<1> QED BY <1>1, <1>5, <1>6

Starts(path) == {1} \cup {i \in 2 .. Len(path) : path[i] = "/"}

(* The parts of a path end at e[1], e[2], ...: where a "/" follows or the   *)
(* path ends, unless it ends in a "/" or is nothing else.                   *)
Divided(path, m, e) ==
  /\ e \in [0 .. m -> 0 .. Len(path)] /\ e[0] = 0 /\ Increases(e)
  /\ \A k \in 1 .. m : e[k] < Len(path) => path[e[k] + 1] = "/"
  /\ \A x \in 1 .. Len(path) - 1 :
       path[x + 1] = "/" => \E k \in 1 .. m : e[k] = x
  /\ (\E k \in 1 .. m : e[k] = Len(path))
       <=> Len(path) > 1 /\ path[Len(path)] # "/"

(* The parts of a path are m stretches of it, which end there.              *)
Parted(path, m, e) ==
  /\ m \in Nat /\ e \in [0 .. m -> 0 .. Len(path)]
  /\ Len(Server!Parts(path)) = m /\ DOMAIN Server!Parts(path) = 1 .. m
  /\ Divided(path, m, e)
  /\ \A k \in 1 .. m :
       Server!FlattenSeq(SubSeq(Server!Parts(path), 1, k))
         = SubSeq(path, 1, e[k])

LEMMA PartsAre ==
  ASSUME NEW S, NEW path \in Seq(S)
  PROVE  \E m, e : Parted(path, m, e)
<1>1. PICK n \in Nat : n = Len(path)
  OBVIOUS
<1> DEFINE V == Starts(path)
<1>2. /\ V \in SUBSET (1 .. n + 1) /\ 1 \in V
      /\ \A v \in V : v = 1 \/ (v \in 2 .. n /\ path[v] = "/")
      /\ \A v \in 2 .. n : path[v] = "/" => v \in V
  BY <1>1 DEF Starts
<1>3. PICK at : at = InOrder(V)
  OBVIOUS
<1>4. PICK c \in Nat \ {0} : /\ at \in [1 .. c -> V] /\ Increases(at)
                             /\ \A v \in V : \E k \in 1 .. c : at[k] = v
  <2>1. PICK l \in Nat : l = n + 1
    OBVIOUS
  <2>2. PICK W \in SUBSET (1 .. l) : W = V
    BY <1>2, <2>1
  <2>3. W # {}
    BY <1>2, <2>2
  <2>4. \E c \in Nat \ {0} : /\ InOrder(W) \in [1 .. c -> W]
                             /\ Increases(InOrder(W))
                             /\ \A v \in W :
                                  \E k \in 1 .. c : InOrder(W)[k] = v
    BY ONLY l \in Nat, W \in SUBSET (1 .. l), <2>3, InOrderIs
  <2> QED BY ONLY <1>3, <2>2, <2>4
<1> DEFINE end(k) == IF k = c THEN n ELSE at[k + 1] - 1
           all == [k \in 1 .. c |-> SubSeq(path, at[k], end(k))]
<1>5. Server!Parts(path) = IF Len(all[Len(all)]) > 1 THEN all
                           ELSE SubSeq(all, 1, Len(all) - 1)
  <2>1. at \in Seq(V) /\ Len(at) = c /\ DOMAIN at = 1 .. c
    BY <1>4
  <2> DEFINE stop(k) == IF k = Len(at) THEN Len(path) ELSE at[k + 1] - 1
             each == [k \in DOMAIN at |-> SubSeq(path, at[k], stop(k))]
  <2>2. Server!Parts(path) = IF Len(each[Len(each)]) > 1 THEN each
                             ELSE SubSeq(each, 1, Len(each) - 1)
    BY <1>3 DEF Server!Parts, Server!Last, Server!Front, InOrder, Starts
  <2>3. each = all
    <3>1. \A k \in 1 .. c : stop(k) = end(k)
      BY <1>1, <2>1
    <3> HIDE DEF stop, end
    <3> QED BY <2>1, <3>1
  <2> HIDE DEF each, all
  <2> QED BY <2>2, <2>3
<1> HIDE DEF V
<1>6. \A k \in 1 .. c : at[k] \in V /\ at[k] \in Nat /\ at[k] >= 1
                          /\ (at[k] = 1 \/ (at[k] <= n /\ path[at[k]] = "/"))
  <2>1. \A v \in V : v \in Nat /\ v >= 1
          /\ (v = 1 \/ (v <= n /\ path[v] = "/"))
    BY <1>2
  <2>2. \A k \in 1 .. c : at[k] \in V
    BY <1>4
  <2> QED BY <2>1, <2>2
<1>7. \A j, k \in 1 .. c : j < k => at[j] < at[k]
  BY <1>4 DEF Increases
<1>8. at[1] = 1
  <2>1. PICK k \in 1 .. c : at[k] = 1
    BY <1>2, <1>4
  <2>2. CASE k = 1
    BY <2>1, <2>2
  <2>3. CASE k # 1
    <3>1. 1 \in 1 .. c /\ 1 < k
      BY <2>3
    <3>2. at[1] < 1 /\ at[1] >= 1 /\ at[1] \in Nat
      BY <1>6, <1>7, <2>1, <3>1
    <3> QED BY <3>2
  <2> QED BY <2>2, <2>3
<1>9. ASSUME NEW k \in 1 .. c, k # c
      PROVE  /\ k + 1 \in 1 .. c /\ at[k] < at[k + 1] /\ at[k + 1] \in 2 .. n
             /\ path[at[k + 1]] = "/"
  <2>1. k + 1 \in 1 .. c /\ k < k + 1
    BY <1>9
  <2>2. at[k] < at[k + 1] /\ at[k] \in Nat /\ at[k] >= 1 /\ at[k + 1] \in Nat
    BY <1>6, <1>7, <2>1
  <2>3. at[k + 1] # 1
    BY <2>2
  <2> QED BY <1>6, <2>1, <2>2, <2>3
<1>10. ASSUME NEW k \in 1 .. c
       PROVE  /\ at[k] - 1 \in Nat /\ end(k) \in Nat /\ at[k] - 1 <= end(k)
              /\ end(k) <= n
              /\ (k # c \/ at[c] < n => at[k] <= end(k))
  <2>1. CASE k = c
    <3>1. at[c] \in Nat /\ at[c] >= 1 /\ (at[c] = 1 \/ at[c] <= n)
            /\ end(k) = n
      BY <1>6, <2>1
    <3> QED BY <2>1, <3>1
  <2>2. CASE k # c
    <3>1. /\ at[k] \in Nat /\ at[k] >= 1 /\ at[k] < at[k + 1]
          /\ at[k + 1] \in 2 .. n /\ end(k) = at[k + 1] - 1
      BY <1>6, <1>9, <2>2
    <3> QED BY <2>2, <3>1
  <2> QED BY <2>1, <2>2
<1>11. ASSUME NEW k \in 1 .. c
       PROVE  /\ SubSeq(path, at[k], end(k)) \in Seq(S)
              /\ Len(SubSeq(path, at[k], end(k))) = end(k) - (at[k] - 1)
  <2>1. PICK a \in Nat : a = at[k] - 1
    BY <1>10
  <2>2. PICK b \in Nat : b = end(k)
    BY <1>10
  <2>3. a <= b /\ b <= Len(path) /\ at[k] = a + 1
    BY <1>1, <1>6, <1>10, <2>1, <2>2
  <2> HIDE DEF end
  <2>4. SubSeq(path, a + 1, b) \in Seq(S)
          /\ Len(SubSeq(path, a + 1, b)) = b - a
    BY <2>3, SliceIs
  <2> QED BY <2>1, <2>2, <2>3, <2>4
<1>12. PICK parts : parts = Server!Parts(path)
  OBVIOUS
<1> DEFINE m == IF at[c] < n THEN c ELSE c - 1
<1>13. m \in Nat /\ m <= c /\ c - 1 <= m
  OBVIOUS
<1>14. /\ parts \in Seq(Seq(S)) /\ Len(parts) = m
       /\ \A k \in 1 .. m : parts[k] = SubSeq(path, at[k], end(k))
  <2>1. all \in [1 .. c -> Seq(S)]
          /\ \A k \in 1 .. c : all[k] = SubSeq(path, at[k], end(k))
    BY <1>11
  <2>2. c \in 1 .. c /\ Len(all[c]) = n - (at[c] - 1) /\ at[c] \in Nat
    BY <1>6, <1>11
  <2> HIDE DEF all, end
  <2>3. all \in Seq(Seq(S)) /\ Len(all) = c
    BY <2>1
  <2>4. CASE at[c] < n
    <3>1. Len(all[Len(all)]) > 1
      BY <2>2, <2>3, <2>4
    <3>2. parts = all /\ m = c
      BY <1>5, <1>12, <2>4, <3>1
    <3> QED BY <2>1, <2>3, <3>2
  <2>5. CASE ~ at[c] < n
    <3>1. ~ Len(all[Len(all)]) > 1
      BY <2>2, <2>3, <2>5
    <3>2. parts = SubSeq(all, 1, c - 1) /\ m = c - 1
      BY <1>5, <1>12, <2>3, <2>5, <3>1
    <3>3. c - 1 \in Nat /\ c - 1 <= Len(all)
      BY <2>3
    <3>4. /\ SubSeq(all, 1, c - 1) \in Seq(Seq(S))
             /\ Len(SubSeq(all, 1, c - 1)) = c - 1
          /\ \A i \in 1 .. c - 1 : SubSeq(all, 1, c - 1)[i] = all[i]
      BY <2>3, <3>3, PrefixIs
    <3> QED BY <2>1, <3>2, <3>4
  <2> QED BY <2>4, <2>5
<1> DEFINE e == [k \in 0 .. m |-> IF k = 0 THEN 0 ELSE end(k)]
<1>15. \A k \in 1 .. m : /\ k \in 1 .. c /\ e[k] = end(k) /\ at[k] <= end(k)
                         /\ (k = c => at[c] < n)
  BY <1>10
<1>16. e \in [0 .. m -> 0 .. n]
  <2>1. ASSUME NEW k \in 0 .. m PROVE e[k] \in 0 .. n
    <3>1. CASE k = 0
      BY <3>1
    <3>2. CASE k # 0
      <4>1. k \in 1 .. m
        BY <1>13, <3>2
      <4>2. e[k] = end(k) /\ k \in 1 .. c
        BY <1>15, <4>1
      <4>3. end(k) \in Nat /\ end(k) <= n
        BY <1>10, <4>2
      <4> HIDE DEF e, end
      <4> QED BY <4>2, <4>3
    <3> QED BY <3>1, <3>2
  <2> QED BY <2>1
<1>17. Increases(e)
  <2>1. ASSUME NEW j \in 0 .. m, NEW k \in 0 .. m, j < k PROVE e[j] < e[k]
    <3>1. k \in 1 .. m /\ k \in 1 .. c
      BY <1>13, <2>1
    <3>2. e[k] = end(k) /\ at[k] <= end(k) /\ end(k) \in Nat /\ at[k] \in Nat
          /\ at[k] >= 1
      BY <1>6, <1>10, <1>15, <3>1
    <3>3. CASE j = 0
      BY <3>2, <3>3
    <3>4. CASE j # 0
      <4>1. j \in 1 .. m /\ j \in 1 .. c /\ j # c /\ j + 1 <= k
        BY <1>13, <2>1, <3>4
      <4>2. e[j] = at[j + 1] - 1 /\ j + 1 \in 1 .. c /\ at[j + 1] \in 2 .. n
        BY <1>9, <1>15, <4>1
      <4>3. at[j + 1] <= at[k]
        <5>1. CASE j + 1 = k
          BY <3>2, <5>1
        <5>2. CASE j + 1 # k
          <6>1. j + 1 < k
            BY <4>1, <5>2
          <6> QED BY <1>7, <3>1, <3>2, <4>2, <6>1
        <5> QED BY <5>1, <5>2
      <4> HIDE DEF e, end
      <4> QED BY <3>2, <4>2, <4>3
    <3> QED BY <3>3, <3>4
  <2>2. DOMAIN e = 0 .. m
    OBVIOUS
  <2> HIDE DEF e
  <2> QED BY <2>1, <2>2 DEF Increases
<1>18. ASSUME NEW k \in 1 .. m, e[k] < n PROVE path[e[k] + 1] = "/"
  <2>1. k \in 1 .. c /\ e[k] = end(k) /\ end(k) \in Nat
    BY <1>10, <1>15
  <2>2. k # c
    BY <1>18, <2>1
  <2>3. e[k] = at[k + 1] - 1 /\ path[at[k + 1]] = "/" /\ at[k + 1] \in 2 .. n
    BY <1>9, <2>1, <2>2
  <2>4. at[k + 1] - 1 + 1 = at[k + 1]
    BY <2>3
  <2> HIDE DEF e
  <2> QED BY <2>3, <2>4
<1>19. ASSUME NEW x \in 1 .. n - 1, path[x + 1] = "/"
       PROVE  \E k \in 1 .. m : e[k] = x
  <2>1. x + 1 \in 2 .. n /\ x + 1 \in V
    BY <1>2, <1>19
  <2>2. PICK k \in 1 .. c : at[k] = x + 1
    BY <1>4, <2>1
  <2>3. k # 1
    BY <1>8, <2>1, <2>2
  <2>4. PICK j \in 1 .. m : j = k - 1 /\ j + 1 = k /\ j # c /\ j \in 1 .. c
    BY <1>13, <2>3
  <2>5. e[j] = x
    <3>1. e[j] = at[j + 1] - 1
      BY <1>15, <2>4
    <3>2. x + 1 - 1 = x
      OBVIOUS
    <3> HIDE DEF e
    <3> QED BY <2>2, <2>4, <3>1, <3>2
  <2> QED BY <2>5
<1>20. (\E k \in 1 .. m : e[k] = n) <=> n > 1 /\ path[n] # "/"
  <2>1. ASSUME NEW k \in 1 .. m, e[k] = n PROVE n > 1 /\ path[n] # "/"
    <3>1. k \in 1 .. c /\ e[k] = end(k) /\ (k = c => at[c] < n)
      BY <1>15
    <3>2. k = c
      <4>1. SUFFICES ASSUME k # c PROVE FALSE
        OBVIOUS
      <4>2. end(k) = at[k + 1] - 1 /\ at[k + 1] \in 2 .. n
        BY <1>9, <3>1, <4>1
      <4> HIDE DEF e, end
      <4> QED BY <2>1, <3>1, <4>2
    <3>3. c \in 1 .. c /\ at[c] < n /\ at[c] \in Nat /\ at[c] >= 1
      BY <1>6, <3>1, <3>2
    <3>4. n > 1
      BY <3>3
    <3>5. n \notin V
      <4>1. SUFFICES ASSUME n \in V PROVE FALSE
        OBVIOUS
      <4>2. PICK j \in 1 .. c : at[j] = n
        BY <1>4, <4>1
      <4>3. j = c \/ j < c
        OBVIOUS
      <4>4. at[j] <= at[c] /\ at[j] \in Nat
        BY <1>6, <1>7, <3>3, <4>3
      <4> QED BY <3>3, <4>2, <4>4
    <3> QED BY <1>2, <3>4, <3>5
  <2>2. ASSUME n > 1, path[n] # "/" PROVE \E k \in 1 .. m : e[k] = n
    <3>1. c \in 1 .. c /\ at[c] \in Nat /\ at[c] >= 1
          /\ (at[c] = 1 \/ (at[c] <= n /\ path[at[c]] = "/"))
      BY <1>6
    <3>2. at[c] < n
      BY <2>2, <3>1
    <3>3. m = c /\ c \in 1 .. m
      BY <3>2
    <3>4. e[c] = n
      BY <3>3
    <3> QED BY <3>3, <3>4
  <2> QED BY <2>1, <2>2
<1>21. Divided(path, m, e)
  <2>1. e[0] = 0
    BY <1>13
  <2> HIDE DEF e, m
  <2> QED BY <1>1, <1>16, <1>17, <1>18, <1>19, <1>20, <2>1 DEF Divided
<1>22. ASSUME NEW k \in 1 .. m
       PROVE  Server!FlattenSeq(SubSeq(parts, 1, k)) = SubSeq(path, 1, e[k])
  <2>1. k \in Nat \ {0} /\ k <= Len(parts)
    BY <1>13, <1>14
  <2>2. PICK q : q = SubSeq(parts, 1, k)
    OBVIOUS
  <2> DEFINE w == [j \in 1 .. k |-> SubSeq(path, 1, e[j])]
  <2>3. Len(q) = k /\ \A j \in 1 .. k : q[j] = parts[j]
    BY <1>14, <2>1, <2>2, PrefixIs
  <2>4. \A j \in 1 .. k : /\ j \in 1 .. m
                          /\ q[j] = SubSeq(path, at[j], e[j])
    <3>1. \A j \in 1 .. k : j \in 1 .. m
      BY <1>13
    <3> HIDE DEF e, m, end
    <3> QED BY <1>14, <1>15, <2>3, <3>1
  <2>5. w[1] = q[1]
    <3>1. 1 \in 1 .. k
      BY <2>1
    <3> HIDE DEF e
    <3> QED BY <1>8, <2>4, <3>1
  <2>6. ASSUME NEW j \in 2 .. k PROVE w[j] = w[j - 1] \o q[j]
    <3>1. j \in 1 .. k /\ j - 1 \in 1 .. k /\ j - 1 + 1 = j
      BY <2>1
    <3>2. j \in 1 .. m /\ j - 1 \in 1 .. m /\ j \in 1 .. c /\ j - 1 \in 1 .. c
          /\ j - 1 # c
      BY <1>13, <2>4, <3>1
    <3>3. PICK a \in Nat : a = e[j - 1]
      BY <1>10, <1>15, <3>2
    <3>4. PICK b \in Nat : b = e[j]
      BY <1>10, <1>15, <3>2
    <3>5. a = at[j] - 1 /\ at[j] \in Nat
      BY <1>6, <1>15, <3>1, <3>2, <3>3
    <3>6. a <= b /\ b <= Len(path) /\ at[j] = a + 1
      BY <1>1, <1>10, <1>15, <3>2, <3>4, <3>5
    <3> HIDE DEF e
    <3>7. w[j] = SubSeq(path, 1, b) /\ w[j - 1] = SubSeq(path, 1, a)
      BY <3>1, <3>3, <3>4
    <3>8. q[j] = SubSeq(path, a + 1, b)
      BY <2>4, <3>1, <3>4, <3>6
    <3>9. SubSeq(path, 1, a) \o SubSeq(path, a + 1, b) = SubSeq(path, 1, b)
      BY <3>6, Joined
    <3> HIDE DEF w
    <3> QED BY <3>7, <3>8, <3>9
  <2>7. w[k] = SubSeq(path, 1, e[k])
    <3>1. k \in 1 .. k
      BY <2>1
    <3> HIDE DEF e
    <3> QED BY <3>1
  <2> HIDE DEF w
  <2>8. Server!FlattenSeq(q) = w[k]
    BY <2>1, <2>3, <2>5, <2>6, FlattenIs
  <2> QED BY <2>2, <2>7, <2>8
<1>23. e \in [0 .. m -> 0 .. Len(path)]
  BY <1>1, <1>16
<1> HIDE DEF e, m
<1>24. DOMAIN parts = 1 .. m
  BY <1>14
<1>25. Parted(path, m, e)
  BY <1>12, <1>13, <1>14, <1>21, <1>22, <1>23, <1>24 DEF Parted
<1> QED BY <1>25

(* A beginning of a sequence                                               *)
LEMMA BeginsIs ==
  ASSUME NEW S, NEW s \in Seq(S), NEW t \in Seq(S), NEW l \in Nat, Len(s) = l
  PROVE  Server!IsPrefix(s, t) <=> l <= Len(t) /\ s = SubSeq(t, 1, l)
<1>1. SubSeq(s, 1, l) = s
  <2>1. /\ SubSeq(s, 1, l) \in Seq(S) /\ Len(SubSeq(s, 1, l)) = l
        /\ \A i \in 1 .. l : SubSeq(s, 1, l)[i] = s[i]
    BY PrefixIs
  <2> QED BY <2>1, SameSeq
<1> QED BY <1>1 DEF Server!IsPrefix

(* A handler that takes a request at the k-th part has the name that ends  *)
(* there, and serves it.                                                   *)
LEMMA TakenIsServed ==
  ASSUME NEW r, r.path \in Seq(STRING), NEW h, h.name \in Seq(STRING),
         h.fixed \in BOOLEAN, NEW m, NEW e, Parted(r.path, m, e),
         NEW k \in 1 .. m, Server!Takes(h, r, k)
  PROVE  Server!Serves(h, r) /\ Len(h.name) = e[k]
<1> USE DEF Parted
<1>1. PICK path \in Seq(STRING) : path = r.path
  OBVIOUS
<1>2. PICK n \in Nat : n = Len(path)
  OBVIOUS
<1>3. m \in Nat /\ e \in [0 .. m -> 0 .. n]
  BY <1>1, <1>2
<1>4. PICK l \in Nat : l = e[k] /\ l <= n /\ l > 0
  <2>1. 0 \in 0 .. m /\ k \in 0 .. m /\ 0 < k /\ DOMAIN e = 0 .. m
    BY <1>3
  <2>2. e[0] = 0 /\ e[0] < e[k] /\ e[k] \in 0 .. n
    BY <1>3, <2>1 DEF Divided, Increases
  <2> QED BY <2>2
<1>5. h.name = SubSeq(path, 1, l) /\ h.type = r.method /\ ~ (h.fixed /\ m > k)
  BY <1>1, <1>4 DEF Server!Takes
<1>6. Len(h.name) = l
  <2>1. l <= Len(path)
    BY <1>2, <1>4
  <2> QED BY <1>5, <2>1, PrefixIs
<1>7. Server!IsPrefix(h.name, path)
  BY <1>2, <1>4, <1>5, <1>6, BeginsIs
<1>8. CASE l = n
  <2>1. \E j \in 1 .. m : e[j] = Len(path)
    BY <1>2, <1>4, <1>8
  <2>2. n > 1 /\ path[n] # "/"
    BY <1>1, <1>2, <2>1 DEF Divided
  <2> QED BY <1>1, <1>2, <1>4, <1>5, <1>6, <1>7, <1>8, <2>2 DEF Server!Serves
<1>9. CASE l # n
  <2>1. path[l + 1] = "/" /\ l < n
    BY <1>1, <1>2, <1>4, <1>9 DEF Divided
  <2>2. ASSUME h.fixed PROVE n = l + 1
    <3>1. m = k
      <4>1. ~ m > k
        BY ONLY <1>5, <2>2, Zenon
      <4> QED BY <4>1
    <3>2. \A j \in 1 .. m : e[j] <= l /\ e[j] \in Nat
      <4>1. ASSUME NEW j \in 1 .. m PROVE e[j] <= l /\ e[j] \in Nat
        <5>1. j \in 0 .. m /\ k \in 0 .. m /\ DOMAIN e = 0 .. m
                /\ (j = k \/ j < k)
          BY <1>3, <3>1
        <5>2. e[j] \in 0 .. n /\ (j = k \/ e[j] < e[k])
          BY <1>1, <1>3, <5>1 DEF Divided, Increases
        <5> QED BY <1>4, <5>2
      <4> QED BY <4>1
    <3>3. SUFFICES ASSUME n > l + 1 PROVE FALSE
      BY <2>1
    <3>4. CASE path[n] = "/"
      <4>1. PICK x \in 1 .. n - 1 : x = n - 1 /\ x + 1 = n
        BY <1>4, <3>3
      <4>2. \E j \in 1 .. m : e[j] = x
        BY <1>1, <1>2, <3>4, <4>1 DEF Divided
      <4> QED BY <3>2, <3>3, <4>1, <4>2
    <3>5. CASE path[n] # "/"
      <4>1. \E j \in 1 .. m : e[j] = n
        BY <1>1, <1>2, <1>4, <3>3, <3>5 DEF Divided
      <4> QED BY <3>2, <3>3, <4>1
    <3> QED BY <3>4, <3>5
  <2> QED BY <1>1, <1>2, <1>4, <1>5, <1>6, <1>7, <1>9, <2>1, <2>2
          DEF Server!Serves
<1> QED BY <1>4, <1>6, <1>8, <1>9

(* A handler that serves a request takes it.                               *)
LEMMA ServedIsTaken ==
  ASSUME NEW r, r.path \in Seq(STRING), NEW h, h.name \in Seq(STRING),
         h.fixed \in BOOLEAN, NEW m, NEW e, Parted(r.path, m, e),
         Server!Serves(h, r)
  PROVE  \E k \in 1 .. m : Server!Takes(h, r, k)
<1> USE DEF Parted
<1>1. PICK path \in Seq(STRING) : path = r.path
  OBVIOUS
<1>2. PICK n \in Nat : n = Len(path)
  OBVIOUS
<1>3. m \in Nat /\ e \in [0 .. m -> 0 .. n]
  BY <1>1, <1>2
<1>4. PICK l \in Nat : l = Len(h.name)
  OBVIOUS
<1>5. h.type = r.method /\ l > 0 /\ l <= n /\ h.name = SubSeq(path, 1, l)
  <2>1. h.type = r.method /\ l > 0 /\ Server!IsPrefix(h.name, path)
    BY <1>1, <1>4 DEF Server!Serves
  <2> QED BY <1>2, <1>4, <2>1, BeginsIs
<1>6. /\ l = n => n > 1 /\ path[n] # "/"
      /\ l # n => path[l + 1] = "/" /\ (h.fixed => n = l + 1)
  BY <1>1, <1>2, <1>4 DEF Server!Serves
<1>7. PICK k \in 1 .. m : e[k] = l
  <2>1. CASE l = n
    BY <1>1, <1>2, <1>6, <2>1 DEF Divided
  <2>2. CASE l # n
    <3>1. l \in 1 .. Len(path) - 1
      BY <1>2, <1>5, <2>2
    <3> QED BY <1>1, <1>6, <2>2, <3>1 DEF Divided
  <2> QED BY <2>1, <2>2
<1>8. ASSUME h.fixed, m > k PROVE FALSE
  <2>1. k \in 0 .. m /\ m \in 0 .. m /\ m \in 1 .. m /\ DOMAIN e = 0 .. m
    BY <1>3, <1>8
  <2>2. e[k] < e[m] /\ e[m] \in 0 .. n
    BY <1>1, <1>3, <1>8, <2>1 DEF Divided, Increases
  <2>3. e[m] = n /\ n = l + 1
    BY <1>5, <1>6, <1>7, <1>8, <2>2
  <2>4. path[n] # "/" /\ path[l + 1] = "/"
    <3>1. path[n] # "/"
      BY <1>1, <1>2, <2>1, <2>3 DEF Divided
    <3> QED BY <1>6, <2>3, <3>1
  <2> QED BY <2>3, <2>4
<1>9. Server!Takes(h, r, k)
  BY <1>1, <1>5, <1>7, <1>8 DEF Server!Takes
<1> QED BY <1>9

(* What is registered                                                      *)
Funcs == {"echo", "leave", "mirror", "tell", "deny", "NULL"}

LEMMA RegistrationIs ==
  ASSUME NEW h \in Registrations
  PROVE  /\ h.name \in Seq(STRING) /\ h.type # "OTHER" /\ h.fixed \in BOOLEAN
         /\ h.func \in Funcs
<1>1. h \in [name : Seq(STRING), type : STRING \ {"OTHER"}, fixed : BOOLEAN,
             func : {"echo", "leave", "mirror", "tell", "deny", "NULL"}]
  BY ONLY HttpAssumption, h \in Registrations, Zenon
<1> QED BY ONLY <1>1, Zenon DEF Funcs

(* The first entry that serves a request, among those of the shortest name *)
Best(r, k) ==
  /\ k \in DOMAIN handlers /\ Server!Serves(handlers[k], r)
  /\ \A j \in DOMAIN handlers :
       Server!Serves(handlers[j], r) =>
         \/ Len(handlers[k].name) < Len(handlers[j].name)
         \/ Len(handlers[k].name) = Len(handlers[j].name) /\ k <= j

LEMMA MinOf ==
  ASSUME NEW T \in SUBSET Nat, T # {}
  PROVE  Server!Min(T) \in T /\ \A i \in T : Server!Min(T) <= i
<1>1. PICK k \in T : \A i \in T : k <= i
  BY NatMin
<1>2. \A i \in T : i \in Nat
  OBVIOUS
<1>3. \A j \in T : (\A i \in T : j =< i) => j = k
  BY <1>1, <1>2
<1> QED BY <1>1, <1>3 DEF Server!Min

LEMMA ChosenIs ==
  ASSUME NEW r, r.path \in Seq(STRING), handlers \in Seq(Registrations)
  PROVE  \/ Best(r, Server!Chosen(r))
         \/ /\ Server!Chosen(r) = 0
            /\ \A j \in DOMAIN handlers : ~ Server!Serves(handlers[j], r)
<1>1. PICK z \in Nat : z = Len(handlers) /\ DOMAIN handlers = 1 .. z
  OBVIOUS
<1>2. \A j \in 1 .. z : handlers[j] \in Registrations
  BY <1>1
<1>3. \A j \in 1 .. z : handlers[j].name \in Seq(STRING)
        /\ handlers[j].fixed \in BOOLEAN
  BY ONLY <1>2, RegistrationIs
<1>4. PICK m, e : Parted(r.path, m, e)
  BY PartsAre
<1>5. /\ m \in Nat /\ e \in [0 .. m -> 0 .. Len(r.path)]
      /\ DOMAIN Server!Parts(r.path) = 1 .. m /\ Divided(r.path, m, e)
  BY <1>4 DEF Parted
<1>6. ASSUME NEW j \in 1 .. z, NEW i \in 1 .. m,
             Server!Takes(handlers[j], r, i)
      PROVE  Server!Serves(handlers[j], r) /\ Len(handlers[j].name) = e[i]
  <2>1. PICK h : h = handlers[j]
    OBVIOUS
  <2>2. h.name \in Seq(STRING) /\ h.fixed \in BOOLEAN /\ Server!Takes(h, r, i)
    BY <1>3, <1>6, <2>1
  <2>3. Server!Serves(h, r) /\ Len(h.name) = e[i]
    BY <1>4, <2>2, TakenIsServed
  <2> QED BY <2>1, <2>3
<1>7. ASSUME NEW j \in 1 .. z, Server!Serves(handlers[j], r)
      PROVE  \E i \in 1 .. m : Server!Takes(handlers[j], r, i)
  BY <1>3, <1>4, <1>7, ServedIsTaken
<1>8. DOMAIN Server!Parts(r.path) = 1 .. m
  BY <1>5
<1> DEFINE Takers == {t \in (1 .. m) \X (1 .. z) :
                        Server!Takes(handlers[t[2]], r, t[1])}
           First == Server!Min({t[1] : t \in Takers})
           Those == {t[2] : t \in {u \in Takers : u[1] = First}}
<1>9. Server!Chosen(r) = IF Takers = {} THEN 0 ELSE Server!Min(Those)
  BY <1>1, <1>8 DEF Server!Chosen
<1>10. ASSUME NEW i \in 1 .. m, NEW j \in 1 .. z,
              Server!Takes(handlers[j], r, i)
       PROVE  <<i, j>> \in Takers
  BY <1>10
<1>11. \A t \in Takers : /\ t[1] \in 1 .. m /\ t[2] \in 1 .. z
                         /\ Server!Takes(handlers[t[2]], r, t[1])
  OBVIOUS
<1> HIDE DEF Takers
<1>12. CASE Takers = {}
  BY <1>1, <1>7, <1>9, <1>10, <1>12
<1>13. CASE Takers # {}
  <2>1. {t[1] : t \in Takers} \in SUBSET Nat /\ {t[1] : t \in Takers} # {}
    BY <1>11, <1>13
  <2>2. First \in {t[1] : t \in Takers}
          /\ \A i \in {t[1] : t \in Takers} : First <= i
    BY <2>1, MinOf
  <2>3. \A t \in Takers : First <= t[1]
    BY <2>2
  <2>4. PICK u \in Takers : u[1] = First
    BY <2>2
  <2> HIDE DEF First
  <2>5. Those \in SUBSET Nat /\ Those # {}
    BY <1>11, <2>4
  <2>6. Server!Min(Those) \in Those /\ \A j \in Those : Server!Min(Those) <= j
    BY <2>5, MinOf
  <2>7. PICK k : k = Server!Min(Those)
    OBVIOUS
  <2>8. PICK v \in Takers : v[1] = First /\ v[2] = k
    BY <2>6, <2>7
  <2>9. /\ k \in 1 .. z /\ First \in 1 .. m
        /\ Server!Takes(handlers[k], r, First)
    BY <1>11, <2>8
  <2>10. Server!Serves(handlers[k], r) /\ Len(handlers[k].name) = e[First]
    BY <1>6, <2>9
  <2>11. ASSUME NEW j \in 1 .. z, Server!Serves(handlers[j], r)
         PROVE  \/ e[First] < Len(handlers[j].name)
                \/ e[First] = Len(handlers[j].name) /\ k <= j
    <3>1. PICK i \in 1 .. m : Server!Takes(handlers[j], r, i)
      BY <1>7, <2>11
    <3>2. <<i, j>> \in Takers /\ <<i, j>>[1] = i /\ <<i, j>>[2] = j
      BY <1>10, <3>1
    <3>3. First <= i
      BY <2>3, <3>2
    <3>4. Len(handlers[j].name) = e[i]
      BY <1>6, <3>1
    <3>5. CASE First = i
      <4>1. j \in Those
        BY <3>2, <3>5
      <4> QED BY <2>6, <2>7, <3>4, <3>5, <4>1
    <3>6. CASE First # i
      <4>1. First < i /\ First \in 0 .. m /\ i \in 0 .. m /\ DOMAIN e = 0 .. m
        BY <1>5, <2>9, <3>3, <3>6
      <4> QED BY <1>5, <3>4, <4>1 DEF Divided, Increases
    <3> QED BY <3>5, <3>6
  <2> HIDE DEF Those
  <2>12. Server!Chosen(r) = k
    BY <1>9, <1>13, <2>7
  <2> QED BY <1>1, <2>9, <2>10, <2>11, <2>12 DEF Best
<1> QED BY <1>12, <1>13
-----------------------------------------------------------------------------
(***************************************************************************)
(* A request is handled                                                    *)
(***************************************************************************)
(* A request's parts                                                       *)
LEMMA RequestIs ==
  ASSUME NEW r, IsRequest(r)
  PROVE  /\ r.conn \in Nat \ {0} /\ r.path \in Seq(STRING) /\ r.form \in Forms
         /\ r.arg \in Nat /\ r.headers \subseteq Headers
            /\ IsFiniteSet(r.headers)
         /\ r.body \in Seq(Int)
BY Zenon DEF IsRequest

(* What is wrong with a request that is refused                            *)
LEMMA RefusedIs ==
  ASSUME NEW r, r.form \in Forms
  PROVE  /\ Server!Refused(r) \in Int
         /\ Server!Refused(r) # 0 =>
              \/ r.method = "OTHER" \/ r.form # "fine" \/ Server!Dots(r.path)
              \/ Server!Refused(r) = 500
<1>1. CASE r.method = "OTHER"
  <2>1. Server!Refused(r) = 405
    BY <1>1 DEF Server!Refused
  <2> QED BY <1>1, <2>1
<1>2. CASE r.method # "OTHER" /\ r.form = "no uri"
  <2>1. Server!Refused(r) = 500
    BY <1>2 DEF Server!Refused
  <2> QED BY <2>1
<1>3. CASE r.method # "OTHER" /\ r.form # "no uri" /\ Server!Dots(r.path)
  <2>1. Server!Refused(r) = 400
    BY <1>3 DEF Server!Refused
  <2>2. Server!Refused(r) \in Int
    BY <2>1
  <2> QED BY ONLY <1>3, <2>2, Zenon
<1>4. CASE r.method # "OTHER" /\ r.form = "no args" /\ ~ Server!Dots(r.path)
  <2>1. Server!Refused(r) = 400
    BY <1>4 DEF Server!Refused
  <2>2. Server!Refused(r) \in Int
    BY <2>1
  <2>3. r.form # "fine"
    BY <1>4
  <2> QED BY ONLY <2>2, <2>3, Zenon
<1>5. CASE r.method # "OTHER" /\ r.form = "fine" /\ ~ Server!Dots(r.path)
  <2>1. Server!Refused(r) = IF log = "fails" THEN 500 ELSE 0
    BY <1>5 DEF Server!Refused
  <2> QED BY <2>1
<1>6. r.form = "fine" \/ r.form = "no uri" \/ r.form = "no args"
  BY DEF Forms
<1> QED BY <1>1, <1>2, <1>3, <1>4, <1>5, <1>6

(* A page, and what a function leaves, is a status and text for printf.    *)
IsSaid(a) == a.status \in Int /\ a.out \in Seq(Int)

LEMMA PageIs ==
  ASSUME NEW status \in Int
  PROVE  /\ IsSaid(Server!Page(status, <<Zero>>))
         /\ Server!Page(status, <<Zero>>).status = status
<1>1. <<Zero>> \in Seq(Int) /\ <<status, Zero>> \in Seq(Int)
  BY Bytes
<1> QED BY <1>1 DEF Server!Page, Server!Says, IsSaid

LEMMA DoesIs ==
  ASSUME NEW r, IsRequest(r), NEW func \in Funcs
  PROVE  /\ IsSaid(Server!Does(func, r))
         /\ Gives(r, func, Server!CString(Server!Does(func, r).out))
<1>1. Zero = 0 /\ Headers \subseteq Int \ {0}
  BY Bytes
<1>2. CASE func \in {"echo", "leave"}
  <2>1. PICK t : t = IF r.arg = 0 THEN << >> ELSE <<r.arg>>
    OBVIOUS
  <2>2. t \in Seq(Int \ {0})
    <3>1. r.arg \in Nat
      BY RequestIs
    <3>2. CASE r.arg = 0
      BY <2>1, <3>2
    <3>3. CASE r.arg # 0
      BY <2>1, <3>1, <3>3
    <3> QED BY <3>2, <3>3
  <2>3. t \o <<Zero>> \in Seq(Int)
    BY <1>1, <2>2
  <2>4. Server!Does(func, r) = [status |-> 200, out |-> t \o <<Zero>>]
    BY <1>2, <2>1 DEF Server!Does, Server!Echo, Server!Says
  <2>5. Server!CString(t \o <<Zero>>) = t
    BY <2>2, CStringWhole
  <2>6. IsSaid(Server!Does(func, r))
          /\ Server!Does(func, r).out = t \o <<Zero>>
    BY <2>3, <2>4 DEF IsSaid
  <2> QED BY <1>2, <2>1, <2>5, <2>6 DEF Gives
<1>3. CASE func = "mirror"
  <2>1. PICK b \in Seq(Int) : b = Append(r.body, Zero)
    <3>1. r.body \in Seq(Int) /\ Zero \in Int
      BY <1>1, RequestIs
    <3>2. Append(r.body, Zero) \in Seq(Int)
      BY <3>1
    <3> QED BY <3>2
  <2>2. Server!Does(func, r) = [status |-> 200, out |-> b]
    BY <1>3, <2>1 DEF Server!Does, Server!Says
  <2>3. IsSaid(Server!Does(func, r)) /\ Server!Does(func, r).out = b
    BY <2>2 DEF IsSaid
  <2> QED BY <1>3, <2>1, <2>3 DEF Gives
<1>4. CASE func = "tell"
  <2>1. PICK t : t = SetToSeq(r.headers)
    OBVIOUS
  <2>2. t \in Seq(r.headers)
    BY <2>1, ListedIs DEF IsRequest
  <2>3. t \in Seq(Int \ {0})
    <3>1. r.headers \subseteq Int \ {0}
      BY <1>1, RequestIs
    <3> QED BY <2>2, <3>1
  <2>4. t \o <<Zero>> \in Seq(Int)
    BY <1>1, <2>3
  <2>5. Server!Does(func, r) = [status |-> 200, out |-> t \o <<Zero>>]
    <3>1. Server!Does(func, r)
            = [status |-> 200, out |-> Server!SetToSeq(r.headers) \o <<Zero>>]
      BY <1>4 DEF Server!Does, Server!Says
    <3> QED BY <2>1, <3>1, SameServer
  <2>6. Server!CString(t \o <<Zero>>) = t
    BY <2>3, CStringWhole
  <2>7. IsSaid(Server!Does(func, r))
          /\ Server!Does(func, r).out = t \o <<Zero>>
    BY <2>4, <2>5 DEF IsSaid
  <2> QED BY <1>4, <2>1, <2>6, <2>7 DEF Gives
<1>5. CASE func = "deny"
  <2>1. Server!Does(func, r) = Server!Page(403, <<Zero>>)
    BY <1>5 DEF Server!Does
  <2>2. Gives(r, func, Server!CString(Server!Does(func, r).out))
    BY <1>5 DEF Gives
  <2> QED BY <2>1, <2>2, PageIs
<1>6. CASE func = "NULL"
  <2>1. Server!Does(func, r) = [status |-> 102, out |-> <<Zero>>]
    BY <1>6 DEF Server!Does, Server!Says
  <2>2. Gives(r, func, Server!CString(Server!Does(func, r).out))
    BY <1>6 DEF Gives
  <2> QED BY <1>1, <2>1, <2>2 DEF IsSaid
<1>7. func \in {"echo", "leave"} \/ func = "mirror" \/ func = "tell"
      \/ func = "deny" \/ func = "NULL"
  BY DEF Funcs
<1> QED BY <1>2, <1>3, <1>4, <1>5, <1>6, <1>7

(* What a request is answered: by the handler that it is given to, or else *)
(* with what was wrong                                                     *)
LEMMA AnswerIs ==
  ASSUME NEW r, IsRequest(r), handlers \in Seq(Registrations),
         NEW k \in 0 .. Len(handlers)
  PROVE  /\ IsSaid(Server!Answer(r, k))
         /\ Server!Refused(r) # 0 =>
              Server!Answer(r, k).status = Server!Refused(r)
         /\ Server!Refused(r) = 0 /\ k # 0 =>
              Gives(r, handlers[k].func,
                    Server!CString(Server!Answer(r, k).out))
<1>1. r.form \in Forms
  BY DEF IsRequest
<1>2. CASE Server!Refused(r) # 0
  <2>1. Server!Answer(r, k) = Server!Page(Server!Refused(r), <<Zero>>)
    BY <1>2 DEF Server!Answer
  <2>2. Server!Refused(r) \in Int
    BY <1>1, RefusedIs
  <2> QED BY <1>2, <2>1, <2>2, PageIs
<1>3. CASE Server!Refused(r) = 0 /\ k # 0
  <2>1. Server!Answer(r, k) = Server!Does(handlers[k].func, r)
    BY <1>3 DEF Server!Answer
  <2>2. handlers[k] \in Registrations
    <3>1. PICK z \in Nat : z = Len(handlers)
      OBVIOUS
    <3>2. k \in 1 .. z
      BY <1>3, <3>1
    <3> QED BY <3>1, <3>2
  <2>3. handlers[k].func \in Funcs
    BY <2>2, RegistrationIs
  <2> QED BY <1>3, <2>1, <2>3, DoesIs
<1>4. CASE Server!Refused(r) = 0 /\ k = 0
  <2>1. CASE default
    <3>1. Server!Answer(r, k) = Server!Echo(r)
      BY <1>4, <2>1 DEF Server!Answer
    <3>2. Server!Does("echo", r) = Server!Echo(r)
      BY DEF Server!Does
    <3>3. "echo" \in Funcs
      BY DEF Funcs
    <3> QED BY <1>4, <3>1, <3>2, <3>3, DoesIs
  <2>2. CASE ~ default
    <3>1. PICK s : s = IF handlers = << >> THEN 500
                       ELSE IF Server!Parts(r.path) = << >> THEN 400 ELSE 404
      OBVIOUS
    <3>2. s \in Int
      BY <3>1
    <3>3. Server!Answer(r, k) = Server!Page(s, <<Zero>>)
      BY <1>4, <2>2, <3>1 DEF Server!Answer
    <3> QED BY <1>4, <3>2, <3>3, PageIs
  <2> QED BY <2>1, <2>2
<1> QED BY <1>2, <1>3, <1>4
-----------------------------------------------------------------------------
(***************************************************************************)
(* The steps of the server                                                 *)
(***************************************************************************)
(* A step that sets up the server, or forgets what is on its way           *)
LEMMA SetupKeeps ==
  ASSUME HttpInv, handlers' \in Seq(Registrations),
         requests' \subseteq requests,
         UNCHANGED <<out_buf, ret_code, post_data, headers, file, call, result,
                     conn, reply, done>>
  PROVE  HttpInv'
<1> USE DEF HttpInv
<1>1. Typed'
  BY DEF Typed, Current, IsCall
<1>2. OnTheWay'
  BY DEF OnTheWay, Current, Sent
<1>3. Remembered'
  BY DEF Remembered, Current, Sent
<1>4. UnderWay'
  BY DEF UnderWay, Current, Rest, Text, Handled
<1>5. RoutedRight'
  BY DEF RoutedRight, Server!RoutedRight
<1>6. OwnAnswer'
  BY DEF OwnAnswer, Over, Text, Handled, Meant
<1>7. FileRight'
  BY DEF FileRight, Over, Text, Handled
<1> QED BY <1>1, <1>2, <1>3, <1>4, <1>5, <1>6, <1>7

(***************************************************************************)
(* The steps of the client                                                 *)
(***************************************************************************)
(* A step that forgets the last call                                       *)
LEMMA ForgottenKeeps ==
  ASSUME HttpInv, conn = 0, ~ Current', call'.conn = call.conn,
         result' \in {"none", "OK", "ERR"}, done' = << >>,
         IsBuf(out_buf'), post_data' \in Seq(Int), file' = file,
         headers' \subseteq Headers, IsFiniteSet(headers'),
         UNCHANGED <<handlers, conn, requests, reply>>
  PROVE  HttpInv'
<1> USE DEF HttpInv
<1>1. Typed'
  BY DEF Typed
<1>2. DOMAIN done' = {}
  OBVIOUS
<1>3. OnTheWay'
  BY <1>2 DEF OnTheWay
<1>4. Remembered'
  BY <1>2 DEF Remembered
<1>5. UnderWay'
  BY DEF UnderWay
<1>6. RoutedRight'
  BY <1>2 DEF RoutedRight, Server!RoutedRight
<1>7. ASSUME NEW kind \in {"query", "download", "upload"} PROVE ~ Over(kind)'
  BY DEF Over, Current
<1>8. OwnAnswer'
  BY <1>7 DEF OwnAnswer
<1>9. FileRight'
  BY <1>7 DEF FileRight
<1> QED BY <1>1, <1>3, <1>4, <1>5, <1>6, <1>8, <1>9

(* The beginning of a call                                                 *)
LEMMA BeginKeeps ==
  ASSUME HttpInv, NEW kind \in {"query", "download", "upload"},
         NEW asks \in SUBSET (Asks \cup FileAsks), Begin(kind, asks),
         done' = << >>,
         IsBuf(out_buf'), file' \in Seq(Int), handlers' = handlers,
         kind # "download" => out_buf' = out_buf,
         kind = "download" => file' = << >> /\ ReadsAs(out_buf, << >>)'
  PROVE  HttpInv'
<1> USE DEF HttpInv
<1>1. PICK n \in Nat \ {0} : n = call.conn + 1 /\ conn' = n /\ result' = "none"
  BY DEF Begin, Typed
<1>2. PICK ask \in asks :
        call' = [conn |-> n, kind |-> kind, sent |-> FALSE,
                 size |-> Len(file), fresh |-> out_buf.len = 0,
                 request |-> [conn |-> n, method |-> ask.method,
                              path |-> ask.path,
                              form |-> ask.form,
                              arg |-> IF ask.arg THEN n ELSE 0,
                              headers |-> headers, body |-> post_data,
                              via |-> Via]]
  BY <1>1 DEF Begin
<1>3. conn = 0 /\ reply' = none /\ requests' = requests /\ headers' = headers
      /\ post_data' = post_data
  BY DEF Begin, kept, UnderWay
<1>4. ask.path \in Seq(STRING) /\ ask.arg \in BOOLEAN /\ ask.form \in Forms
  <2>1. ask \in Asks \cup FileAsks
    OBVIOUS
  <2> QED BY <2>1, AskIs
<1>5. /\ headers \subseteq Headers /\ IsFiniteSet(headers)
         /\ post_data \in Seq(Int)
      /\ Len(file) \in Nat /\ call.conn \in Nat
  BY DEF Typed
<1>6. IsRequest(call'.request)
  <2>1. (IF ask.arg THEN n ELSE 0) \in Nat
    OBVIOUS
  <2>2. PICK q : q = [conn |-> n, method |-> ask.method, path |-> ask.path,
                      form |-> ask.form, arg |-> IF ask.arg THEN n ELSE 0,
                      headers |-> headers, body |-> post_data, via |-> Via]
    OBVIOUS
  <2>3. IsRequest(q)
    BY ONLY <1>4, <1>5, <2>1, <2>2, n \in Nat \ {0} DEF IsRequest
  <2> QED BY <1>2, <2>2, <2>3
<1>7. /\ call'.conn = n /\ call'.kind = kind /\ call'.sent = FALSE
         /\ call'.size = Len(file)
      /\ call'.fresh = (out_buf.len = 0) /\ call'.request.conn = n
      /\ call'.request.headers = headers
      /\ DOMAIN call' = {"conn", "kind", "sent", "size", "fresh", "request"}
  BY <1>2
<1>8. IsCall'
  BY <1>1, <1>3, <1>5, <1>6, <1>7 DEF IsCall
<1>9. Typed'
  BY <1>1, <1>3, <1>5, <1>7, <1>8 DEF Typed
<1>10. DOMAIN done' = {}
  OBVIOUS
<1>11. OnTheWay'
  <2>1. \A r \in requests : IsRequest(r) /\ r.conn <= call.conn
    BY DEF OnTheWay
  <2>2. ASSUME NEW r \in requests'
        PROVE  IsRequest(r) /\ r.conn <= n /\ r.conn # n
    <3>1. IsRequest(r) /\ r.conn <= call.conn
      BY <1>3, <2>1
    <3>2. r.conn \in Nat
      BY <3>1, RequestIs
    <3> QED BY <1>1, <1>5, <3>1, <3>2
  <2>3. \A r, q \in requests' : r.conn = q.conn => r = q
    BY <1>3 DEF OnTheWay
  <2> QED BY <1>7, <1>10, <2>2, <2>3 DEF OnTheWay
<1>12. Remembered'
  BY <1>10 DEF Remembered
<1>13. UnderWay'
  <2>1. Text' = << >> /\ ~ Handled'
    BY <1>10 DEF Text, Handled
  <2>2. Rest' = << >>
    BY <1>3 DEF Rest, none
  <2>3. ASSUME kind # "download", out_buf.len = 0
        PROVE  Content(out_buf)' \o << >> = << >>
    <3>1. IsBuf(out_buf) /\ out_buf' = out_buf
      BY <2>3 DEF Typed
    <3>2. Content(out_buf) \in Seq(Int) /\ Len(Content(out_buf)) = 0
      BY <2>3, <3>1, ContentIs
    <3>3. Content(out_buf) = << >>
      BY <3>2
    <3> QED BY <3>1, <3>3
  <2>4. kind = "download" => file' \o << >> = << >>
    OBVIOUS
  <2>5. n # 0 /\ result' # "OK" /\ none' = none
    BY <1>1 DEF none
  <2> QED BY <1>1, <1>3, <1>7, <2>1, <2>2, <2>3, <2>4, <2>5 DEF UnderWay
<1>14. RoutedRight'
  BY <1>10 DEF RoutedRight, Server!RoutedRight
<1>15. \A x : ~ Over(x)'
  BY <1>1 DEF Over
<1>16. OwnAnswer'
  BY <1>15 DEF OwnAnswer
<1>17. FileRight'
  BY <1>15 DEF FileRight
<1> QED BY <1>9, <1>11, <1>12, <1>13, <1>14, <1>16, <1>17

(* The file is written while it is read.                                   *)
LEMMA FileChangesKeeps ==
  ASSUME HttpInv, FileChanges, done' = done, handlers' = handlers
  PROVE  HttpInv'
<1> USE DEF HttpInv
<1>1. /\ conn # 0 /\ call.kind = "upload"
      /\ UNCHANGED <<out_buf, ret_code, post_data, headers, call, result, conn,
                     requests, reply>>
  BY DEF FileChanges, Busy, kept
<1>2. file' \in Seq(Int)
  BY Bytes DEF FileChanges
<1>3. Typed'
  BY <1>1, <1>2 DEF Typed, Current, IsCall
<1>4. OnTheWay'
  BY <1>1 DEF OnTheWay, Current, Sent
<1>5. Remembered'
  BY <1>1 DEF Remembered, Current, Sent
<1>6. UnderWay'
  BY <1>1 DEF UnderWay, Current, Rest, Text, Handled
<1>7. RoutedRight'
  BY DEF RoutedRight, Server!RoutedRight
<1>8. \A x : ~ Over(x)'
  BY <1>1 DEF Over
<1>9. OwnAnswer'
  BY <1>8 DEF OwnAnswer
<1>10. FileRight'
  BY <1>8 DEF FileRight
<1> QED BY <1>3, <1>4, <1>5, <1>6, <1>7, <1>9, <1>10

(* The request is sent.                                                    *)
LEMMA SendKeeps ==
  ASSUME HttpInv, Send, done' = done, handlers' = handlers
  PROVE  HttpInv'
<1> USE DEF HttpInv
<1>1. /\ conn # 0 /\ call.sent = FALSE /\ call' = [call EXCEPT !.sent = TRUE]
      /\ UNCHANGED <<out_buf, ret_code, post_data, headers, file, result, conn,
         reply>>
  BY DEF Send, Busy, kept, Typed, Current, IsCall
<1>2. Current /\ IsCall /\ conn = call.conn
  BY <1>1 DEF Typed, Current
<1>3. /\ call'.conn = call.conn /\ call'.kind = call.kind /\ call'.sent = TRUE
      /\ call'.size = call.size /\ call'.fresh = call.fresh
      /\ call'.request = call.request
      /\ DOMAIN call' = {"conn", "kind", "sent", "size", "fresh", "request"}
  BY <1>1, <1>2 DEF IsCall
<1>4. IsRequest(call.request) /\ call.request.conn = call.conn
  BY <1>2 DEF IsCall
<1>5. IsCall'
  BY <1>1, <1>2, <1>3, <1>4 DEF IsCall
<1>6. Typed'
  BY <1>1, <1>2, <1>3, <1>5 DEF Typed
<1>7. ~ Handled
  BY <1>1, <1>2 DEF Remembered, Handled, Sent
<1>8. \A r \in requests : r.conn # call.conn
  BY <1>1, <1>2 DEF OnTheWay, Sent
<1>9. ASSUME NEW r \in requests', r \notin requests
      PROVE  /\ IsRequest(r) /\ r.conn = call.conn
             /\ IF call.kind = "upload" THEN Len(r.body) = call.size
                ELSE r = call.request
             /\ requests' = requests \cup {r}
  <2>1. CASE call.kind # "upload"
    <3>1. requests' = requests \cup {call.request}
      BY <2>1 DEF Send
    <3>2. r = call.request
      BY <1>9, <3>1
    <3> QED BY <1>4, <2>1, <3>1, <3>2
  <2>2. CASE call.kind = "upload"
    <3>1. call.size \in Nat /\ file \in Seq(Int)
      BY <1>2 DEF IsCall, Typed
    <3>2. /\ ~ Len(file) < call.size
          /\ requests' = requests \cup
               {[call.request EXCEPT !.body = SubSeq(file, 1, call.size)]}
      BY <1>9, <2>2 DEF Send
    <3>3. PICK b : b = SubSeq(file, 1, call.size)
      OBVIOUS
    <3>4. b \in Seq(Int) /\ Len(b) = call.size
      BY <3>1, <3>2, <3>3, PrefixIs
    <3>5. r = [call.request EXCEPT !.body = b]
      BY <1>9, <3>2, <3>3
    <3>6. IsRequest(r) /\ r.conn = call.conn /\ r.body = b
      <4>1. PICK q : q = call.request
        OBVIOUS
      <4>2. IsRequest(q) /\ q.conn = call.conn /\ r = [q EXCEPT !.body = b]
        BY <1>4, <3>5, <4>1
      <4> QED BY ONLY <3>4, <4>2 DEF IsRequest
    <3> QED BY <2>2, <3>2, <3>3, <3>4, <3>5, <3>6
  <2> QED BY <2>1, <2>2
<1>10. OnTheWay'
  <2>1. ASSUME NEW r \in requests'
        PROVE  /\ IsRequest(r) /\ r.conn <= call.conn
                  /\ r.conn \notin DOMAIN done
               /\ r.conn = call.conn =>
                    IF call.kind = "upload" THEN Len(r.body) = call.size
                    ELSE r = call.request
    <3>1. CASE r \in requests
      BY <1>8, <3>1 DEF OnTheWay
    <3>2. CASE r \notin requests
      BY <1>4, <1>7, <1>9, <3>2, RequestIs DEF Handled
    <3> QED BY <3>1, <3>2
  <2>2. ASSUME NEW r \in requests', NEW q \in requests', r.conn = q.conn
        PROVE  r = q
    <3>1. CASE r \in requests /\ q \in requests
      BY <2>2, <3>1 DEF OnTheWay
    <3>2. CASE r \notin requests
      BY <1>8, <1>9, <2>2, <3>2
    <3>3. CASE q \notin requests
      BY <1>8, <1>9, <2>2, <3>3
    <3> QED BY <3>1, <3>2, <3>3
  <2> QED BY <1>1, <1>3, <2>1, <2>2 DEF OnTheWay, Sent
<1>11. Remembered'
  BY <1>3, <1>7 DEF Remembered, Handled
<1>12. UnderWay'
  BY <1>1, <1>3 DEF UnderWay, Current, Rest, Text, Handled
<1>13. RoutedRight'
  BY DEF RoutedRight, Server!RoutedRight
<1>14. \A x : ~ Over(x)'
  BY <1>1 DEF Over
<1>15. OwnAnswer'
  BY <1>14 DEF OwnAnswer
<1>16. FileRight'
  BY <1>14 DEF FileRight
<1> QED BY <1>6, <1>10, <1>11, <1>12, <1>13, <1>15, <1>16

(* One piece of a text and the rest of it                                  *)
LEMMA PieceOf ==
  ASSUME NEW t \in Seq(Int), Len(t) > 1, NEW c \in Seq(Int)
  PROVE  /\ <<Head(t)>> \in Seq(Int) /\ Tail(t) \in Seq(Int)
         /\ (c \o <<Head(t)>>) \o Tail(t) = c \o t
<1>1. PICK n \in Nat : n = Len(t) /\ n > 1
  OBVIOUS
<1>2. Head(t) \in Int /\ Head(t) = t[1]
  BY <1>1
<1>3. PICK u \in Seq(Int) :
        /\ u = Tail(t) /\ Len(u) = Len(t) - 1
        /\ \A i \in 1 .. Len(u) : u[i] = t[i + 1]
  <2>1. t # << >>
    BY <1>1
  <2> QED BY <2>1, HeadTailProperties
<1>4. Len(u) = n - 1 /\ \A i \in 1 .. n - 1 : u[i] = t[i + 1]
  BY <1>1, <1>3
<1>5. PICK m \in Nat : m = Len(c)
  OBVIOUS
<1>6. PICK p \in Seq(Int) : p = <<Head(t)>>
  <2>1. PICK x \in Int : x = Head(t)
    BY <1>2
  <2>2. <<x>> \in Seq(Int)
    OBVIOUS
  <2> QED BY <2>1, <2>2
<1>7. Len(p) = 1 /\ p[1] = t[1]
  BY <1>2, <1>6
<1>8. /\ c \o p \in Seq(Int) /\ Len(c \o p) = m + 1
      /\ \A i \in 1 .. m + 1 : (c \o p)[i] = IF i <= m THEN c[i] ELSE p[i - m]
  <2>1. /\ c \o p \in Seq(Int) /\ Len(c \o p) = Len(c) + Len(p)
        /\ \A i \in 1 .. Len(c) + Len(p) :
             (c \o p)[i] = IF i <= Len(c) THEN c[i] ELSE p[i - Len(c)]
    BY ConcatProperties
  <2> QED BY <1>5, <1>7, <2>1
<1>9. PICK d \in Seq(Int) : d = c \o p
  BY <1>8
<1>10. PICK k \in Nat : k = m + 1
  OBVIOUS
<1>11. /\ d \o u \in Seq(Int) /\ Len(d \o u) = Len(d) + Len(u)
       /\ \A i \in 1 .. Len(d) + Len(u) :
            (d \o u)[i] = IF i <= Len(d) THEN d[i] ELSE u[i - Len(d)]
  BY ConcatProperties
<1>12. /\ c \o t \in Seq(Int) /\ Len(c \o t) = Len(c) + Len(t)
       /\ \A i \in 1 .. Len(c) + Len(t) :
            (c \o t)[i] = IF i <= Len(c) THEN c[i] ELSE t[i - Len(c)]
  BY ConcatProperties
<1>13. Len(d) = k /\ Len(u) = n - 1 /\ k + (n - 1) = m + n
  BY <1>4, <1>8, <1>9, <1>10
<1>14. \A i \in 1 .. m + n : (d \o u)[i] = (c \o t)[i]
  <2>1. ASSUME NEW i \in 1 .. m + n PROVE (d \o u)[i] = (c \o t)[i]
    <3>1. (d \o u)[i] = IF i <= k THEN d[i] ELSE u[i - k]
      BY <1>11, <1>13
    <3>2. (c \o t)[i] = IF i <= m THEN c[i] ELSE t[i - m]
      BY <1>1, <1>5, <1>12
    <3>3. CASE i <= m
      <4>1. i \in 1 .. m + 1 /\ i <= k
        BY <1>10, <3>3
      <4>2. d[i] = c[i]
        BY <1>8, <1>9, <3>3, <4>1
      <4> QED BY <3>1, <3>2, <3>3, <4>1, <4>2
    <3>4. CASE i = m + 1
      <4>1. i \in 1 .. m + 1 /\ ~ i <= m /\ i <= k /\ i - m = 1
        BY <1>10, <3>4
      <4>2. d[i] = p[1]
        BY <1>8, <1>9, <4>1
      <4> QED BY <1>7, <3>1, <3>2, <4>1, <4>2
    <3>5. CASE i > m + 1
      <4>1. i - k \in 1 .. n - 1 /\ i - k + 1 = i - m /\ ~ i <= k /\ ~ i <= m
        BY <1>10, <3>5
      <4>2. u[i - k] = t[i - m]
        BY <1>4, <4>1
      <4> QED BY <3>1, <3>2, <4>1, <4>2
    <3>6. i <= m \/ i = m + 1 \/ i > m + 1
      OBVIOUS
    <3> QED BY <3>3, <3>4, <3>5, <3>6
  <2> QED BY <2>1
<1>15. d \o u = c \o t
  <2>1. PICK l \in Nat : l = m + n
    OBVIOUS
  <2>2. Len(d \o u) = l /\ Len(c \o t) = l
    BY <1>1, <1>5, <1>11, <1>12, <1>13, <2>1
  <2> QED BY <1>11, <1>12, <1>14, <2>1, <2>2, SameSeq
<1> QED BY <1>2, <1>3, <1>6, <1>9, <1>15

(* A piece of the reply is taken.                                          *)
LEMMA PieceKeeps ==
  ASSUME HttpInv, Piece, done' = done, handlers' = handlers
  PROVE  HttpInv'
<1> USE DEF HttpInv
<1>1. /\ conn # 0 /\ reply # none /\ Len(reply.text) > 1
      /\ Take(<<Head(reply.text)>>) /\ reply' = [reply EXCEPT !.text = Tail(@)]
      /\ UNCHANGED <<ret_code, post_data, headers, call, result, conn,
         requests>>
  BY DEF Piece, Busy, kept
<1>2. PICK t \in Seq(Int) : t = reply.text
  BY <1>1 DEF UnderWay, Answers
<1>3. reply \in Answers /\ reply.status = done[call.conn].reply.status
        /\ Handled
  BY <1>1 DEF UnderWay
<1>4. <<Head(t)>> \in Seq(Int) /\ Tail(t) \in Seq(Int)
  <2>1. Len(t) > 1 /\ << >> \in Seq(Int)
    BY <1>1, <1>2
  <2> QED BY <2>1, PieceOf
<1>5. reply' = [status |-> reply.status, text |-> Tail(t)]
        /\ reply' \in Answers
      /\ reply'.status = reply.status /\ reply'.text = Tail(t)
  BY <1>1, <1>2, <1>3, <1>4 DEF Answers
<1>6. reply' # none /\ none' = none
  <2>1. DOMAIN reply' = {"status", "text"} /\ DOMAIN none = {"none"}
    BY <1>5 DEF none
  <2>2. "none" \notin {"status", "text"}
    OBVIOUS
  <2> QED BY <2>1, <2>2 DEF none
<1>7. ASSUME NEW c \in Seq(Int) PROVE (c \o <<Head(t)>>) \o Tail(t) = c \o t
  <2>1. Len(t) > 1
    BY <1>1, <1>2
  <2> QED BY <2>1, PieceOf
<1>8. Rest = t /\ Rest' = Tail(t) /\ Text' = Text /\ Handled'
  BY <1>1, <1>2, <1>3, <1>5, <1>6 DEF Rest, Text, Handled
<1>9. IsBuf(out_buf') /\ file' \in Seq(Int)
  <2>1. IsBuf(out_buf) /\ file \in Seq(Int)
    BY DEF Typed
  <2>2. IsBuf(Cat(out_buf, <<Head(t)>>))
    BY <1>4, <2>1, CatIs
  <2>3. file \o <<Head(t)>> \in Seq(Int)
    BY <1>4, <2>1
  <2> QED BY <1>1, <1>2, <2>1, <2>2, <2>3 DEF Take
<1>10. Typed'
  BY <1>1, <1>9 DEF Typed, Current, IsCall
<1>11. OnTheWay'
  BY <1>1 DEF OnTheWay, Current, Sent
<1>12. Remembered'
  BY <1>1 DEF Remembered, Current, Sent
<1>13. ASSUME call.kind # "download", call.fresh
       PROVE  Content(out_buf)' \o Tail(t) = Text
  <2>1. IsBuf(out_buf) /\ Content(out_buf) \o t = Text
    BY <1>1, <1>8, <1>13 DEF Typed, UnderWay
  <2>2. out_buf' = Cat(out_buf, <<Head(t)>>)
    BY <1>1, <1>2, <1>13 DEF Take
  <2>3. Content(out_buf') = Content(out_buf) \o <<Head(t)>>
    BY <1>4, <2>1, <2>2, CatIs
  <2>4. Content(out_buf) \in Seq(Int)
    BY <2>1, ContentIs
  <2> QED BY <1>7, <2>1, <2>3, <2>4
<1>14. ASSUME call.kind = "download"
       PROVE  file' \o Tail(t) = Text /\ ReadsAs(out_buf, << >>)'
  <2>1. file \in Seq(Int) /\ file \o t = Text /\ ReadsAs(out_buf, << >>)
    BY <1>1, <1>8, <1>14 DEF Typed, UnderWay
  <2>2. file' = file \o <<Head(t)>> /\ out_buf' = out_buf
    BY <1>1, <1>2, <1>14 DEF Take
  <2>3. file' \o Tail(t) = Text
    BY <1>7, <2>1, <2>2
  <2> QED BY <2>1, <2>2, <2>3
<1>15. UnderWay'
  BY <1>1, <1>3, <1>5, <1>6, <1>8, <1>13, <1>14 DEF UnderWay
<1>16. RoutedRight'
  BY DEF RoutedRight, Server!RoutedRight
<1>17. \A x : ~ Over(x)'
  BY <1>1 DEF Over
<1>18. OwnAnswer'
  BY <1>17 DEF OwnAnswer
<1>19. FileRight'
  BY <1>17 DEF FileRight
<1> QED BY <1>10, <1>11, <1>12, <1>15, <1>16, <1>18, <1>19

(* The call returns OK.                                                    *)
LEMMA FinishKeeps ==
  ASSUME HttpInv, Finish, done' = done, handlers' = handlers
  PROVE  HttpInv'
<1> USE DEF HttpInv
<1>1. /\ conn # 0 /\ reply # none /\ End(reply.text)
         /\ ret_code' = reply.status
      /\ result' = "OK" /\ conn' = 0 /\ reply' = none
      /\ UNCHANGED <<post_data, headers, call, requests>>
  BY DEF Finish, kept
<1>2. PICK t \in Seq(Int) : t = reply.text
  BY <1>1 DEF UnderWay, Answers
<1>3. reply \in Answers /\ reply.status = done[call.conn].reply.status
        /\ Handled
  BY <1>1 DEF UnderWay
<1>4. Current /\ IsCall /\ conn = call.conn
  BY <1>1 DEF Typed, Current
<1>5. call.kind \in {"query", "download", "upload"} /\ call.conn \in Nat
  BY <1>4 DEF IsCall, Typed
<1>6. Current' /\ none' = none
  BY <1>1, <1>5 DEF Current, none
<1>7. Rest = t /\ Text' = Text /\ Handled'
  BY <1>1, <1>2, <1>3 DEF Rest, Text, Handled
<1>8. /\ IsBuf(out_buf) /\ file \in Seq(Int) /\ Content(out_buf) \in Seq(Int)
      /\ Zero \in Int
  BY ContentIs, Bytes DEF Typed
<1>9. /\ IsBuf(Cat(out_buf, t))
         /\ Content(Cat(out_buf, t)) = Content(out_buf) \o t
      /\ Content(out_buf) \o t \in Seq(Int)
  <2>1. IsBuf(Cat(out_buf, t))
          /\ Content(Cat(out_buf, t)) = Content(out_buf) \o t
    BY <1>8, CatIs
  <2>2. Content(out_buf) \o t \in Seq(Int)
    BY <1>8, ConcatProperties
  <2> QED BY <2>1, <2>2
<1>10. /\ IsBuf(AddChar(Cat(out_buf, t), Zero))
       /\ Content(AddChar(Cat(out_buf, t), Zero))
          = Append(Content(out_buf) \o t, Zero)
  BY <1>8, <1>9, AddCharIs
<1>11. /\ call.kind = "query" =>
            out_buf' = AddChar(Cat(out_buf, t), Zero) /\ file' = file
       /\ call.kind = "upload" => out_buf' = Cat(out_buf, t) /\ file' = file
       /\ call.kind = "download" => out_buf' = out_buf /\ file' = file \o t
  BY <1>1, <1>2 DEF End, Take
<1>12. IsBuf(out_buf') /\ file' \in Seq(Int)
  <2>1. file \o t \in Seq(Int)
    BY <1>8, ConcatProperties
  <2>2. CASE call.kind = "query"
    BY <1>8, <1>10, <1>11, <2>2
  <2>3. CASE call.kind = "upload"
    BY <1>8, <1>9, <1>11, <2>3
  <2>4. CASE call.kind = "download"
    BY <1>8, <1>11, <2>1, <2>4
  <2> QED BY <1>5, <2>2, <2>3, <2>4
<1>13. IsCall'
  BY <1>1, <1>4 DEF IsCall
<1>14. Typed'
  BY <1>1, <1>5, <1>12, <1>13 DEF Typed
<1>15. OnTheWay'
  BY <1>1, <1>4 DEF OnTheWay, Sent
<1>16. Remembered'
  BY <1>1, <1>4 DEF Remembered, Sent
<1>17. UnderWay'
  BY <1>1, <1>6, <1>7 DEF UnderWay
<1>18. RoutedRight'
  BY DEF RoutedRight, Server!RoutedRight
<1>19. PICK d : d = done[call.conn]
  OBVIOUS
<1>20. Kept(d) /\ Sent(d.request) /\ Text = d.reply.text
  BY <1>3, <1>4, <1>19 DEF Remembered, Handled, Text
<1>21. ASSUME call.kind = "query"
       PROVE  /\ ret_code' = d.reply.status
              /\ d.by # 0 =>
                   d.reply.text = Meant(call.request, d.found[d.by].func)'
              /\ call.fresh => ReadsAs(out_buf, Text)'
  <2>1. ret_code' = d.reply.status
    BY <1>1, <1>3, <1>19
  <2>2. d.request = call.request
    BY <1>20, <1>21 DEF Sent
  <2>3. ASSUME d.by # 0
        PROVE  d.reply.text = Meant(call.request, d.found[d.by].func)'
    <3>1. Gives(call.request, d.found[d.by].func, d.reply.text)
      BY <1>20, <2>2, <2>3 DEF Kept
    <3>2. call.request.headers = headers
      BY <1>4 DEF IsCall
    <3>3. d.found[d.by].func \in Funcs
      <4>1. d.found \in Seq(Registrations) /\ d.by \in 0 .. Len(d.found)
        BY <1>20 DEF Kept
      <4>2. d.by \in 1 .. Len(d.found)
        BY <2>3, <4>1
      <4>3. d.found[d.by] \in Registrations
        BY <4>1, <4>2
      <4> QED BY <4>3, RegistrationIs
    <3>4. PICK func \in Funcs : func = d.found[d.by].func
      BY <3>3
    <3>5. d.reply.text = Meant(call.request, func)'
      <4>1. CASE func \in {"echo", "leave"}
        BY <1>1, <3>1, <3>4, <4>1 DEF Gives, Meant
      <4>2. CASE func = "tell"
        BY <1>1, <3>1, <3>2, <3>4, <4>2 DEF Gives, Meant
      <4>3. CASE func = "mirror"
        BY <1>1, <3>1, <3>4, <4>3 DEF Gives, Meant
      <4>4. CASE func \in {"deny", "NULL"}
        BY <1>1, <1>7, <1>20, <3>4, <4>4 DEF Meant
      <4> QED BY <4>1, <4>2, <4>3, <4>4 DEF Funcs
    <3> QED BY <3>4, <3>5
  <2>4. ASSUME call.fresh PROVE ReadsAs(out_buf, Text)'
    <3>1. Content(out_buf) \o t = Text
      BY <1>1, <1>7, <1>21, <2>4 DEF UnderWay
    <3>2. Text \in Seq(Int) /\ Content(out_buf') = Append(Text, Zero)
      BY <1>9, <1>10, <1>11, <1>21, <3>1
    <3>3. ReadsAs(out_buf', Text)
      BY <1>12, <3>2, EndedReads
    <3> QED BY <1>7, <3>3
  <2> QED BY <2>1, <2>3, <2>4
<1>22. ASSUME call.kind = "upload", call.fresh PROVE Content(out_buf)' = Text'
  BY <1>1, <1>7, <1>9, <1>11, <1>22 DEF UnderWay
<1>23. OwnAnswer'
  BY <1>1, <1>7, <1>19, <1>21, <1>22 DEF OwnAnswer, Over
<1>24. ASSUME call.kind = "download"
       PROVE  file' = Text /\ ReadsAs(out_buf, << >>)'
  BY <1>1, <1>7, <1>11, <1>24 DEF UnderWay
<1>25. ASSUME call.kind = "download" PROVE IsPrefix(file', Text)
  <2>1. file' = Text
    BY <1>24, <1>25
  <2>2. SubSeq(file', 1, Len(file')) = SubSeq(Text, 1, Len(file'))
        /\ Len(file') <= Len(Text)
    BY <1>12, <2>1
  <2> QED BY <2>2 DEF IsPrefix
<1>26. ASSUME call.kind = "upload"
       PROVE  Len(done[call.conn].request.body) = call.size
  BY <1>19, <1>20, <1>26 DEF Sent
<1>27. FileRight'
  BY <1>1, <1>7, <1>24, <1>25, <1>26 DEF FileRight, Over
<1> QED BY <1>14, <1>15, <1>16, <1>17, <1>18, <1>23, <1>27

(* The call returns an error.                                              *)
LEMMA FailKeeps ==
  ASSUME HttpInv, Fail, done' = done, handlers' = handlers
  PROVE  HttpInv'
<1> USE DEF HttpInv
<1>1. /\ conn # 0 /\ End(<< >>) /\ result' = "ERR" /\ conn' = 0
         /\ reply' = none
      /\ UNCHANGED <<ret_code, post_data, headers, call>>
      /\ requests' \subseteq requests
  BY DEF Fail, kept
<1>2. PICK t \in Seq(Int) : t = << >>
  BY EmptySeq
<1>3. Current /\ IsCall /\ conn = call.conn
  BY <1>1 DEF Typed, Current
<1>4. call.kind \in {"query", "download", "upload"} /\ call.conn \in Nat
  BY <1>3 DEF IsCall, Typed
<1>5. Current' /\ none' = none
  BY <1>1, <1>4 DEF Current, none
<1>6. Text' = Text /\ Handled' = Handled
  BY <1>1 DEF Text, Handled
<1>7. /\ IsBuf(out_buf) /\ file \in Seq(Int) /\ Content(out_buf) \in Seq(Int)
      /\ Zero \in Int
  BY ContentIs, Bytes DEF Typed
<1>8. \A s \in Seq(Int) : s \o t = s
  BY <1>2
<1>9. IsBuf(Cat(out_buf, t)) /\ Content(Cat(out_buf, t)) = Content(out_buf)
  BY <1>7, <1>8, CatIs
<1>10. /\ IsBuf(AddChar(Cat(out_buf, t), Zero))
       /\ Content(AddChar(Cat(out_buf, t), Zero))
          = Append(Content(out_buf), Zero)
  BY <1>7, <1>9, AddCharIs
<1>11. /\ call.kind = "query" =>
            out_buf' = AddChar(Cat(out_buf, t), Zero) /\ file' = file
       /\ call.kind = "upload" => out_buf' = Cat(out_buf, t) /\ file' = file
       /\ call.kind = "download" => out_buf' = out_buf /\ file' = file
  BY <1>1, <1>2, <1>7, <1>8 DEF End, Take
<1>12. IsBuf(out_buf') /\ file' \in Seq(Int)
  BY <1>4, <1>7, <1>9, <1>10, <1>11
<1>13. IsCall'
  BY <1>1, <1>3 DEF IsCall
<1>14. Typed'
  BY <1>1, <1>4, <1>12, <1>13 DEF Typed
<1>15. OnTheWay'
  BY <1>1, <1>3 DEF OnTheWay, Sent
<1>16. Remembered'
  BY <1>1, <1>3 DEF Remembered, Sent
<1>17. UnderWay'
  BY <1>1, <1>5, <1>6 DEF UnderWay
<1>18. RoutedRight'
  BY DEF RoutedRight, Server!RoutedRight
<1>19. Rest \in Seq(Int)
  <2>1. CASE reply = none
    BY <2>1 DEF Rest
  <2>2. CASE reply # none
    BY <1>1, <2>2 DEF Rest, UnderWay, Answers
  <2> QED BY <2>1, <2>2
<1>20. ASSUME NEW s \in Seq(Int), s \o Rest = Text
       PROVE  Len(s) \in 0 .. Len(Text) /\ s = SubSeq(Text, 1, Len(s))
  <2>1. PICK n \in Nat : n = Len(s)
    OBVIOUS
  <2>2. PICK m \in Nat : m = Len(Rest)
    BY <1>19
  <2>3. /\ s \o Rest \in Seq(Int) /\ Len(s \o Rest) = Len(s) + Len(Rest)
        /\ \A i \in 1 .. Len(s) + Len(Rest) :
             (s \o Rest)[i] = IF i <= Len(s) THEN s[i] ELSE Rest[i - Len(s)]
    BY <1>19, ConcatProperties
  <2>4. /\ Text \in Seq(Int) /\ Len(Text) = n + m
        /\ \A i \in 1 .. n : Text[i] = s[i]
    BY <1>20, <2>1, <2>2, <2>3
  <2>5. n <= Len(Text) /\ n \in 0 .. Len(Text)
    BY <2>4
  <2>6. /\ SubSeq(Text, 1, n) \in Seq(Int) /\ Len(SubSeq(Text, 1, n)) = n
        /\ \A i \in 1 .. n : SubSeq(Text, 1, n)[i] = Text[i]
    BY <2>4, <2>5, PrefixIs
  <2>7. s = SubSeq(Text, 1, n)
    BY <2>1, <2>4, <2>6, SameSeq
  <2> QED BY <2>1, <2>5, <2>7
<1>21. ASSUME call.kind = "query", call.fresh
       PROVE  \E n \in 0 .. Len(Text) :
                Content(out_buf)' = Append(SubSeq(Text, 1, n), Zero)
  <2>1. Content(out_buf) \o Rest = Text
    BY <1>1, <1>21 DEF UnderWay
  <2>2. PICK n : n = Len(Content(out_buf))
    OBVIOUS
  <2>3. n \in 0 .. Len(Text) /\ Content(out_buf) = SubSeq(Text, 1, n)
    BY <1>7, <1>20, <2>1, <2>2
  <2>4. Content(out_buf') = Append(Content(out_buf), Zero)
    BY <1>10, <1>11, <1>21
  <2> QED BY <2>3, <2>4
<1>22. OwnAnswer'
  BY <1>1, <1>6, <1>21 DEF OwnAnswer, Over
<1>23. ASSUME call.kind = "download"
       PROVE  IsPrefix(file', Text) /\ ReadsAs(out_buf, << >>)'
  <2>1. file \o Rest = Text /\ ReadsAs(out_buf, << >>)
    BY <1>1, <1>23 DEF UnderWay
  <2>2. PICK n : n = Len(file)
    OBVIOUS
  <2>3. n \in 0 .. Len(Text) /\ file = SubSeq(Text, 1, n)
    BY <1>7, <1>20, <2>1, <2>2
  <2>4. n <= Len(Text) /\ SubSeq(file, 1, n) = file
    BY <1>7, <2>2, <2>3
  <2>5. IsPrefix(file, Text)
    BY <2>2, <2>3, <2>4 DEF IsPrefix
  <2> QED BY <1>11, <1>23, <2>1, <2>5
<1>24. FileRight'
  BY <1>1, <1>6, <1>23 DEF FileRight, Over
<1> QED BY <1>14, <1>15, <1>16, <1>17, <1>18, <1>22, <1>24

(* A handler leaves, perhaps.                                              *)
LEMMA RemovedIs ==
  ASSUME handlers \in Seq(Registrations), NEW name
  PROVE  Server!Removed(name) \in Seq(Registrations)
<1>1. PICK n \in Nat : n = Len(handlers)
  OBVIOUS
<1> DEFINE I == {i \in 1 .. Len(handlers) : handlers[i].name = name}
<1>2. PICK k : k = IF I # {} THEN Server!Min(I) ELSE 0
  OBVIOUS
<1>3. Server!Removed(name) = IF k = 0 THEN handlers
        ELSE Server!RemoveAt(handlers, k)
  BY <1>2 DEF Server!Removed, Server!SelectInSeq
<1>4. k = 0 \/ k \in 1 .. n
  <2>1. CASE I = {}
    BY <1>2, <2>1
  <2>2. CASE I # {}
    <3>1. I \in SUBSET Nat
      OBVIOUS
    <3>2. k \in I
      BY <1>2, <2>2, <3>1, MinOf
    <3> QED BY <1>1, <3>2
  <2> QED BY <2>1, <2>2
<1>5. CASE k # 0
  <2>1. Server!RemoveAt(handlers, k) =
          SubSeq(handlers, 1, k - 1) \o SubSeq(handlers, k + 1, n)
    BY <1>1 DEF Server!RemoveAt
  <2>2. SubSeq(handlers, 1, k - 1) \in Seq(Registrations)
    <3>1. k - 1 \in Nat /\ k - 1 <= Len(handlers)
      BY <1>1, <1>4, <1>5
    <3> QED BY <3>1, PrefixIs
  <2>3. SubSeq(handlers, k + 1, n) \in Seq(Registrations)
    <3>1. k \in Nat /\ k <= n /\ n <= Len(handlers)
      BY <1>1, <1>4, <1>5
    <3> QED BY <3>1, SliceIs
  <2> QED BY <1>3, <1>5, <2>1, <2>2, <2>3, ConcatProperties
<1> QED BY <1>3, <1>5

(* The request is given to the first handler that serves it, or there is   *)
(* none, or it is refused.                                                 *)
RightFor(d) ==
  \/ /\ d.by \in DOMAIN d.found /\ Server!Serves(d.found[d.by], d.request)
     /\ \A k \in DOMAIN d.found :
          Server!Serves(d.found[k], d.request) =>
            \/ Len(d.found[d.by].name) < Len(d.found[k].name)
            \/ Len(d.found[d.by].name) = Len(d.found[k].name) /\ d.by <= k
  \/ /\ d.by = 0
     /\ \/ \A k \in DOMAIN d.found : ~ Server!Serves(d.found[k], d.request)
        \/ Server!Dots(d.request.path) \/ d.request.form # "fine"
        \/ d.reply.status = 500

LEMMA RightForEach == RoutedRight <=> \A c \in DOMAIN done : RightFor(done[c])
<1>1. ASSUME NEW d
      PROVE  LET serving == {k \in DOMAIN d.found :
                               Server!Serves(d.found[k], d.request)}
                 name(k) == Len(d.found[k].name)
             IN (\/ /\ d.by \in serving
                    /\ \A k \in serving :
                         name(d.by) < name(k)
                         \/ (name(d.by) = name(k) /\ d.by <= k)
                 \/ /\ d.by = 0
                    /\ \/ serving = {} \/ Server!Dots(d.request.path)
                       \/ d.request.form # "fine" \/ d.reply.status = 500)
                <=> RightFor(d)
  BY DEF RightFor
<1> QED BY <1>1 DEF RoutedRight, Server!RoutedRight

(* The server handles a request.                                           *)
LEMMA HandleKeeps ==
  ASSUME HttpInv, NEW r \in requests, Server!Handle(r),
         UNCHANGED <<out_buf, ret_code, post_data, headers, file, call,
         result>>
  PROVE  HttpInv'
<1> USE DEF HttpInv
<1>1. /\ IsRequest(r) /\ r.conn <= call.conn /\ r.conn \notin DOMAIN done
      /\ Current /\ r.conn = call.conn => Sent(r)
      /\ \A q \in requests : q.conn = r.conn => q = r
      /\ r.conn \in Nat \ {0} /\ r.path \in Seq(STRING) /\ r.form \in Forms
  BY RequestIs DEF OnTheWay
<1>2. handlers \in Seq(Registrations)
  BY DEF Typed
<1>3. PICK k : k = IF Server!Refused(r) = 0 THEN Server!Chosen(r) ELSE 0
  OBVIOUS
<1>4. \/ Best(r, Server!Chosen(r))
      \/ /\ Server!Chosen(r) = 0
         /\ \A j \in DOMAIN handlers : ~ Server!Serves(handlers[j], r)
  BY <1>1, <1>2, ChosenIs
<1>5. k \in 0 .. Len(handlers)
  <2>1. k = 0 \/ k \in DOMAIN handlers
    BY <1>3, <1>4 DEF Best
  <2>2. DOMAIN handlers = 1 .. Len(handlers) /\ Len(handlers) \in Nat
    BY <1>2
  <2> QED BY <2>1, <2>2
<1>6. PICK a : a = Server!Answer(r, k)
  OBVIOUS
<1>7. /\ IsSaid(a) /\ (Server!Refused(r) # 0 => a.status = Server!Refused(r))
      /\ Server!Refused(r) = 0 /\ k # 0 =>
           Gives(r, handlers[k].func, Server!CString(a.out))
  BY <1>1, <1>2, <1>5, <1>6, AnswerIs
<1>8. PICK left : left = [status |-> a.status, text |-> Server!CString(a.out)]
  OBVIOUS
<1>9. /\ left \in Answers /\ left.status = a.status
         /\ left.text = Server!CString(a.out)
      /\ left.text \in Seq(Int)
  <2>1. Server!CString(a.out) \in Seq(Int)
    BY <1>7, CStringIs DEF IsSaid
  <2> QED BY <1>7, <1>8, <2>1 DEF IsSaid, Answers
<1>10. left # none /\ none' = none
  <2>1. DOMAIN left = {"status", "text"} /\ DOMAIN none = {"none"}
    BY <1>8 DEF none
  <2>2. "none" \notin {"status", "text"}
    OBVIOUS
  <2> QED BY <2>1, <2>2 DEF none
<1>11. PICK d :
         d = [request |-> r, found |-> handlers, by |-> k, reply |-> left]
  OBVIOUS
<1>12. d.request = r /\ d.found = handlers /\ d.by = k /\ d.reply = left
  BY <1>11
<1>13. /\ requests' = requests \ {r} /\ conn' = conn
       /\ reply' = IF r.conn = conn THEN left ELSE reply
       /\ done' = [c \in {r.conn} \cup DOMAIN done |->
                     IF c # r.conn THEN done[c] ELSE d]
       /\ handlers' = IF k # 0 /\ handlers[k].func = "leave"
                      THEN Server!Removed(handlers[k].name) ELSE handlers
  BY <1>3, <1>6, <1>8, <1>11 DEF Server!Handle
<1>14. /\ DOMAIN done' = {r.conn} \cup DOMAIN done /\ done'[r.conn] = d
       /\ \A c \in DOMAIN done : done'[c] = done[c]
  BY <1>1, <1>13
<1>15. Typed'
  <2>1. handlers' \in Seq(Registrations)
    BY <1>2, <1>13, RemovedIs
  <2> QED BY <1>13, <2>1 DEF Typed, Current, IsCall
<1>16. OnTheWay'
  BY <1>1, <1>13, <1>14 DEF OnTheWay, Current, Sent
<1>17. Kept(d)
  <2>1. d.by # 0 => Gives(d.request, d.found[d.by].func, d.reply.text)
    BY <1>3, <1>7, <1>9, <1>12
  <2> QED BY <1>1, <1>2, <1>5, <1>9, <1>12, <2>1 DEF Kept
<1>18. Remembered'
  <2>1. ASSUME NEW c \in DOMAIN done'
        PROVE  Kept(done'[c])
               /\ (Current /\ c = call.conn => Sent(done'[c].request))
    <3>1. CASE c = r.conn
      BY <1>1, <1>12, <1>14, <1>17, <3>1
    <3>2. CASE c # r.conn
      BY <1>14, <2>1, <3>2 DEF Remembered
    <3> QED BY <3>1, <3>2
  <2> QED BY <1>13, <2>1 DEF Remembered, Current, Sent
<1>19. RightFor(d)
  <2>1. CASE Server!Refused(r) = 0
    <3>1. k = Server!Chosen(r)
      BY <1>3, <2>1
    <3> QED BY <1>4, <1>12, <3>1 DEF RightFor, Best
  <2>2. CASE Server!Refused(r) # 0
    <3>1. k = 0 /\ left.status = Server!Refused(r)
      BY <1>3, <1>7, <1>9, <2>2
    <3>2. \/ r.method = "OTHER" \/ r.form # "fine" \/ Server!Dots(r.path)
          \/ Server!Refused(r) = 500
      BY <1>1, <2>2, RefusedIs
    <3>3. ASSUME r.method = "OTHER", NEW j \in DOMAIN handlers
          PROVE  ~ Server!Serves(handlers[j], r)
      <4>1. handlers[j] \in Registrations
        BY <1>2
      <4>2. handlers[j].type # "OTHER"
        BY <4>1, RegistrationIs
      <4> QED BY <3>3, <4>2 DEF Server!Serves
    <3> QED BY <1>12, <3>1, <3>2, <3>3 DEF RightFor
  <2> QED BY <2>1, <2>2
<1>20. RoutedRight'
  <2>1. \A c \in DOMAIN done : RightFor(done[c])
    BY RightForEach
  <2>2. \A c \in DOMAIN done' : RightFor(done'[c])
    <3>1. ASSUME NEW c \in DOMAIN done' PROVE RightFor(done'[c])
      <4>1. CASE c = r.conn
        BY <1>14, <1>19, <4>1
      <4>2. CASE c # r.conn
        BY <1>14, <2>1, <3>1, <4>2
      <4> QED BY <4>1, <4>2
    <3> QED BY <3>1
  <2>3. (RoutedRight <=> \A c \in DOMAIN done : RightFor(done[c]))'
    BY RightForEach, PTL
  <2> QED BY <2>2, <2>3
<1>21. CASE r.conn # call.conn
  <2>1. Handled' = Handled /\ Text' = Text
    BY <1>13, <1>14, <1>21 DEF Handled, Text
  <2>2. Handled => done'[call.conn] = done[call.conn]
    BY <1>14 DEF Handled
  <2>3. r.conn # conn
    BY <1>1, <1>21 DEF Typed
  <2>4. reply' = reply
    BY <1>13, <2>3
  <2>5. UnderWay'
    BY <1>10, <1>13, <2>1, <2>2, <2>4 DEF UnderWay, Current, Rest
  <2>6. OwnAnswer'
    BY <1>13, <2>1, <2>2 DEF OwnAnswer, Over, Meant
  <2>7. FileRight'
    BY <1>13, <2>1, <2>2 DEF FileRight, Over
  <2> QED BY <1>15, <1>16, <1>18, <1>20, <2>5, <2>6, <2>7
<1>22. CASE r.conn = call.conn
  <2>1. ~ Handled /\ Text = << >> /\ Handled' /\ Text' = left.text
    BY <1>1, <1>12, <1>13, <1>14, <1>22 DEF Handled, Text
  <2>2. done'[call.conn] = d
    BY <1>14, <1>22
  <2>3. ~ (Current /\ result = "OK")
    BY <2>1 DEF UnderWay
  <2>4. ASSUME NEW s \in Seq(Int), NEW q \in Seq(Int), s \o q = << >>
        PROVE  s = << >>
    <3>1. Len(s \o q) = Len(s) + Len(q)
      BY ConcatProperties
    <3> QED BY <2>4, <3>1
  <2>5. UnderWay'
    <3>1. CASE conn = 0
      <4>1. r.conn # conn
        BY <1>1, <3>1
      <4> QED BY <1>10, <1>13, <2>3, <3>1, <4>1 DEF UnderWay, Current
    <3>2. CASE conn # 0
      <4>1. conn = call.conn /\ reply' = left
        BY <1>13, <1>22, <3>2 DEF Typed
      <4>2. reply = none /\ Rest = << >>
        BY <2>1, <3>2 DEF UnderWay, Rest
      <4>3. Rest' = left.text
        BY <1>10, <4>1 DEF Rest
      <4>4. << >> \o left.text = left.text /\ << >> \in Seq(Int)
        BY <1>9, EmptySeq, ConcatEmptySeq
      <4>5. IsBuf(out_buf) /\ Content(out_buf) \in Seq(Int)
              /\ file \in Seq(Int)
        BY ContentIs DEF Typed
      <4>6. ASSUME call.kind # "download", call.fresh
            PROVE  Content(out_buf)' \o left.text = left.text
        <5>1. Content(out_buf) \o << >> = << >>
          BY <2>1, <3>2, <4>2, <4>6 DEF UnderWay
        <5>2. Content(out_buf) = << >>
          BY <2>4, <4>4, <4>5, <5>1
        <5> QED BY <4>4, <5>2
      <4>7. ASSUME call.kind = "download"
            PROVE  file' \o left.text = left.text /\ ReadsAs(out_buf, << >>)'
        <5>1. file \o << >> = << >> /\ ReadsAs(out_buf, << >>)
          BY <2>1, <3>2, <4>2, <4>7 DEF UnderWay
        <5>2. file = << >>
          BY <2>4, <4>4, <4>5, <5>1
        <5> QED BY <4>4, <5>1, <5>2
      <4>8. result' # "OK"
        BY <3>2 DEF Typed
      <4> QED BY <1>9, <1>10, <1>12, <1>13, <2>1, <2>2, <3>2, <4>1, <4>3, <4>6,
          <4>7, <4>8
              DEF UnderWay
    <3> QED BY <3>1, <3>2
  <2>6. ASSUME NEW x \in {"query", "download", "upload"}, Over(x)'
        PROVE  result = "ERR" /\ Over(x)
    BY <1>13, <2>3, <2>6 DEF Over, Current
  <2>7. PICK t : t = Text'
    OBVIOUS
  <2>8. Len(t) \in Nat /\ t \in Seq(Int)
    BY <1>9, <2>1, <2>7
  <2>9. SubSeq(t, 1, 0) = << >> /\ SubSeq(<< >>, 1, 0) = << >>
    BY <2>8
  <2>10. OwnAnswer'
    <3>1. ASSUME Over("query")', call.fresh
          PROVE  \E n \in 0 .. Len(t) :
                   Content(out_buf)' = Append(SubSeq(t, 1, n), Zero)
      <4>1. \E n \in 0 .. Len(<< >>) :
              Content(out_buf) = Append(SubSeq(<< >>, 1, n), Zero)
        BY <2>1, <2>6, <3>1 DEF OwnAnswer
      <4>2. Content(out_buf) = Append(<< >>, Zero)
        <5>1. PICK n \in 0 .. Len(<< >>) :
                Content(out_buf) = Append(SubSeq(<< >>, 1, n), Zero)
          BY <4>1
        <5>2. n = 0
          OBVIOUS
        <5> QED BY <2>9, <5>1, <5>2
      <4>3. 0 \in 0 .. Len(t)
        BY <2>8
      <4> QED BY <2>9, <4>2, <4>3
    <3>2. ~ (Over("query")' /\ result' = "OK")
            /\ ~ (Over("upload")' /\ result' = "OK")
      BY <2>6
    <3> QED BY <2>7, <3>1, <3>2 DEF OwnAnswer
  <2>11. FileRight'
    <3>1. ASSUME Over("download")'
          PROVE  IsPrefix(file', t) /\ ReadsAs(out_buf, << >>)'
      <4>1. IsPrefix(file, << >>) /\ ReadsAs(out_buf, << >>)
        BY <2>1, <2>6, <3>1 DEF FileRight
      <4>2. file \in Seq(Int) /\ Len(file) = 0
        BY <4>1 DEF IsPrefix, Typed
      <4>3. file = << >>
        BY <4>2
      <4>4. IsPrefix(file', t)
        BY <2>8, <2>9, <4>2, <4>3 DEF IsPrefix
      <4> QED BY <4>1, <4>4
    <3>2. ~ (Over("download")' /\ result' = "OK")
            /\ ~ (Over("upload")' /\ result' = "OK")
      BY <2>6
    <3> QED BY <2>7, <3>1, <3>2 DEF FileRight
  <2> QED BY <1>15, <1>16, <1>18, <1>20, <2>5, <2>10, <2>11
<1> QED BY <1>21, <1>22
-----------------------------------------------------------------------------
(***************************************************************************)
(* Every step                                                              *)
(***************************************************************************)
LEMMA HttpInvInit == HttpInit => HttpInv
<1> SUFFICES ASSUME HttpInit PROVE HttpInv
  OBVIOUS
<1>1. /\ out_buf = Made(1) /\ post_data = << >> /\ headers = {}
         /\ file = OldFile
      /\ call = [conn |-> 0] /\ result = "none" /\ conn = 0 /\ requests = {}
      /\ reply = none /\ done = << >> /\ handlers = << >>
  BY DEF HttpInit, Init, Server!Init
<1>2. DOMAIN done = {}
  BY <1>1
<1>3. ~ Current
  BY <1>1 DEF Current
<1>4. Typed
  <2>1. IsBuf(out_buf)
    BY <1>1, MadeIs
  <2>2. post_data \in Seq(Int) /\ handlers \in Seq(Registrations)
          /\ file \in Seq(Int)
    BY <1>1, EmptySeq, Bytes
  <2>3. headers \subseteq Headers /\ IsFiniteSet(headers)
    BY <1>1, FS_EmptySet
  <2> QED BY <1>1, <1>3, <2>1, <2>2, <2>3 DEF Typed
<1>5. OnTheWay
  BY <1>1 DEF OnTheWay
<1>6. Remembered
  BY <1>2 DEF Remembered
<1>7. UnderWay
  BY <1>1, <1>3 DEF UnderWay
<1>8. RoutedRight
  BY <1>2 DEF RoutedRight, Server!RoutedRight
<1>9. OwnAnswer /\ FileRight
  BY <1>1 DEF OwnAnswer, FileRight, Over
<1> QED BY <1>4, <1>5, <1>6, <1>7, <1>8, <1>9 DEF HttpInv

LEMMA ClientKeeps == HttpInv /\ Client => HttpInv'
<1> SUFFICES ASSUME HttpInv, Client PROVE HttpInv'
  OBVIOUS
<1>1. /\ handlers' = handlers /\ (conn = 0 => done' = << >>)
         /\ (conn # 0 => done' = done)
  BY DEF Client, setting
<1>2. /\ IsBuf(out_buf) /\ post_data \in Seq(Int) /\ file \in Seq(Int)
      /\ headers \subseteq Headers /\ IsFiniteSet(headers) /\ Zero \in Int
      /\ result \in {"none", "OK", "ERR"}
  BY Bytes DEF HttpInv, Typed
<1>3. ASSUME Forgotten, conn' = conn
      PROVE  conn = 0 /\ ~ Current' /\ call'.conn = call.conn
                                           /\ result' \in {"none", "OK", "ERR"}
  BY <1>3 DEF Forgotten, Current
<1>4. ASSUME Idle
      PROVE  /\ Forgotten /\ UNCHANGED <<file, conn, requests, reply>>
  BY <1>4 DEF Idle, wire
<1>5. ASSUME NEW h \in Headers, AddHeader(h) PROVE HttpInv'
  <2>1. Idle /\ headers' = headers \cup {h} /\ UNCHANGED <<out_buf, post_data>>
    BY <1>5 DEF AddHeader, Set
  <2>2. headers' \subseteq Headers /\ IsFiniteSet(headers')
    BY <1>2, <2>1, FS_AddElement
  <2> QED BY <1>1, <1>2, <1>3, <1>4, <2>1, <2>2, ForgottenKeeps
<1>6. ASSUME NEW d \in Bodies, SetPost(d) PROVE HttpInv'
  <2>1. Idle /\ post_data' = d /\ UNCHANGED <<out_buf, headers>>
    BY <1>6 DEF SetPost, Set
  <2>2. post_data' \in Seq(Int)
    BY <2>1, Bytes
  <2> QED BY <1>1, <1>2, <1>3, <1>4, <2>1, <2>2, ForgottenKeeps
<1>19. ASSUME NEW d \in Bodies, SetPost2(d) PROVE HttpInv'
  <2> DEFINE tail == SubSeq(post_data, Len(d) + 2, Len(post_data))
  <2>1. Idle /\ post_data' = Append(d, Zero) \o tail /\ UNCHANGED <<out_buf, headers>>
    BY <1>19 DEF SetPost2, Set
  <2>2. d \in Seq(Int) /\ Append(d, Zero) \in Seq(Int)
    BY <1>2, Bytes
  <2>3. PICK a \in Nat, b \in Nat : a = Len(d) + 2 /\ b = Len(post_data)
    BY <1>2, <2>2
  <2>4. SubSeq(post_data, a, b) \in Seq(Int)
    BY <1>2, <2>3
  <2>5. post_data' \in Seq(Int)
    BY <2>1, <2>2, <2>3, <2>4
  <2> QED BY <1>1, <1>2, <1>3, <1>4, <2>1, <2>5, ForgottenKeeps
<1>7. ASSUME Emptied PROVE HttpInv'
  <2>1. Idle /\ out_buf' = Clear(out_buf) /\ UNCHANGED <<post_data, headers>>
    BY <1>7 DEF Emptied, kept
  <2>2. IsBuf(out_buf')
    BY <1>2, <2>1, ClearIs
  <2> QED BY <1>1, <1>2, <1>3, <1>4, <2>1, <2>2, ForgottenKeeps
<1>8. ASSUME Again PROVE HttpInv'
  <2>1. /\ Forgotten /\ out_buf' = Made(1) /\ post_data' = << >>
           /\ headers' = {}
        /\ UNCHANGED <<file, conn, requests, reply>>
    BY <1>8 DEF Again, wire
  <2>2. IsBuf(out_buf') /\ post_data' \in Seq(Int)
    BY <2>1, MadeIs, EmptySeq
  <2>3. headers' \subseteq Headers /\ IsFiniteSet(headers')
    BY <2>1, FS_EmptySet
  <2> QED BY <1>1, <1>3, <2>1, <2>2, <2>3, ForgottenKeeps
<1>9. ASSUME SetProxy PROVE HttpInv'
  <2>1. Idle /\ UNCHANGED <<out_buf, post_data, headers>>
    BY <1>9 DEF SetProxy, Set
  <2> QED BY <1>1, <1>2, <1>3, <1>4, <2>1, ForgottenKeeps
<1>10. ASSUME Query PROVE HttpInv'
  <2>1. Begin("query", Asks) /\ out_buf' = out_buf /\ file' = file /\ conn = 0
    BY <1>10 DEF Query, Begin
  <2>2. Asks \in SUBSET (Asks \cup FileAsks)
    OBVIOUS
  <2> QED BY <1>1, <1>2, <2>1, <2>2, BeginKeeps
<1>11. ASSUME Download PROVE HttpInv'
  <2>1. /\ Begin("download", FileAsks) /\ file' = << >> /\ conn = 0
        /\ out_buf' = AddChar(Clear(out_buf), Zero)
    BY <1>11 DEF Download, Begin
  <2>2. FileAsks \in SUBSET (Asks \cup FileAsks)
    OBVIOUS
  <2>3. IsBuf(Clear(out_buf)) /\ Content(Clear(out_buf)) = << >>
    BY <1>2, ClearIs
  <2>4. IsBuf(out_buf') /\ Content(out_buf') = Append(<< >>, Zero)
    BY <1>2, <2>1, <2>3, AddCharIs
  <2>5. ReadsAs(out_buf', << >>)
    BY <2>4, EmptySeq, EndedReads
  <2>6. file' \in Seq(Int)
    BY <2>1, EmptySeq
  <2> QED BY <1>1, <2>1, <2>2, <2>4, <2>5, <2>6, BeginKeeps
<1>12. ASSUME Upload PROVE HttpInv'
  <2>1. Begin("upload", FileAsks) /\ out_buf' = out_buf /\ file' = file
          /\ conn = 0
    BY <1>12 DEF Upload, Begin
  <2>2. FileAsks \in SUBSET (Asks \cup FileAsks)
    OBVIOUS
  <2> QED BY <1>1, <1>2, <2>1, <2>2, BeginKeeps
<1>13. ASSUME CannotBegin PROVE HttpInv'
  <2>1. /\ conn = 0 /\ result' = "ERR"
           /\ call' = [conn |-> call.conn, kind |-> "none"]
        /\ UNCHANGED <<out_buf, post_data, headers, file, conn, requests,
           reply>>
    BY <1>13 DEF CannotBegin, kept, wire
  <2>2. ~ Current' /\ call'.conn = call.conn
    BY <2>1 DEF Current
  <2> QED BY <1>1, <1>2, <2>1, <2>2, ForgottenKeeps
<1>14. ASSUME FileChanges PROVE HttpInv'
  BY <1>1, <1>14, FileChangesKeeps DEF FileChanges, Busy
<1>15. ASSUME Send PROVE HttpInv'
  BY <1>1, <1>15, SendKeeps DEF Send, Busy
<1>16. ASSUME Piece PROVE HttpInv'
  BY <1>1, <1>16, PieceKeeps DEF Piece, Busy
<1>17. ASSUME Finish PROVE HttpInv'
  BY <1>1, <1>17, FinishKeeps DEF Finish
<1>18. ASSUME Fail PROVE HttpInv'
  BY <1>1, <1>18, FailKeeps DEF Fail
<1> QED BY <1>5, <1>6, <1>7, <1>8, <1>9, <1>10, <1>11, <1>12, <1>13, <1>14,
    <1>15,
           <1>16, <1>17, <1>18, <1>19 DEF Client, Next

LEMMA ServeKeeps == HttpInv /\ Serve => HttpInv'
<1> SUFFICES ASSUME HttpInv, Serve PROVE HttpInv'
  OBVIOUS
<1>1. /\ Server!Next
      /\ UNCHANGED <<out_buf, ret_code, post_data, headers, file, call,
         result>>
  BY DEF Serve
<1>2. handlers \in Seq(Registrations)
  BY DEF HttpInv, Typed
<1>3. ASSUME NEW r \in requests, Server!Handle(r) PROVE HttpInv'
  BY <1>1, <1>3, HandleKeeps
<1>4. ASSUME NEW h \in Registrations, Server!HandlerAdd(h) PROVE HttpInv'
  <2>1. /\ handlers' = Append(handlers, h) /\ requests' = requests
        /\ UNCHANGED <<conn, reply, done>>
    BY <1>4 DEF Server!HandlerAdd, Server!Change
  <2>2. handlers' \in Seq(Registrations)
    BY <1>2, <2>1
  <2> QED BY <1>1, <2>1, <2>2, SetupKeeps
<1>5. ASSUME NEW h \in Registrations, Server!HandlerDel(h.name) PROVE HttpInv'
  <2>1. /\ handlers' = Server!Removed(h.name) /\ requests' = requests
        /\ UNCHANGED <<conn, reply, done>>
    BY <1>5 DEF Server!HandlerDel, Server!Change
  <2>2. handlers' \in Seq(Registrations)
    BY <1>2, <2>1, RemovedIs
  <2> QED BY <1>1, <2>1, <2>2, SetupKeeps
<1>6. ASSUME NEW to, Server!SetLog(to) PROVE HttpInv'
  <2>1. UNCHANGED <<handlers, requests, conn, reply, done>>
    BY <1>6 DEF Server!SetLog, Server!Change
  <2> QED BY <1>1, <1>2, <2>1, SetupKeeps
<1>7. ASSUME NEW to, Server!SetDefault(to) PROVE HttpInv'
  <2>1. UNCHANGED <<handlers, requests, conn, reply, done>>
    BY <1>7 DEF Server!SetDefault, Server!Change
  <2> QED BY <1>1, <1>2, <2>1, SetupKeeps
<1>8. ASSUME NEW to, Server!ServerInit(to) PROVE HttpInv'
  <2>1. handlers' = << >> /\ UNCHANGED <<requests, conn, reply, done>>
    BY <1>8 DEF Server!ServerInit, Server!Clean
  <2>2. handlers' \in Seq(Registrations)
    BY <2>1, EmptySeq
  <2> QED BY <1>1, <2>1, <2>2, SetupKeeps
<1>9. ASSUME Server!Free PROVE HttpInv'
  <2>1. handlers' = << >> /\ requests' = {} /\ UNCHANGED <<conn, reply, done>>
    BY <1>9 DEF Server!Free, Server!Clean
  <2>2. handlers' \in Seq(Registrations)
    BY <2>1, EmptySeq
  <2> QED BY <1>1, <2>1, <2>2, SetupKeeps
<1> QED BY <1>1, <1>3, <1>4, <1>5, <1>6, <1>7, <1>8, <1>9 DEF Server!Next

(* What is kept holds in every state.                                      *)
THEOREM HttpInvAlways == HttpSpec => []HttpInv
<1>1. HttpInit => HttpInv
  BY HttpInvInit
<1>2. HttpInv /\ [HttpNext]_<<vars, setting, done>> => HttpInv'
  <2> SUFFICES ASSUME HttpInv, [HttpNext]_<<vars, setting, done>>
      PROVE  HttpInv'
    OBVIOUS
  <2>1. CASE Client
    BY <2>1, ClientKeeps
  <2>2. CASE Serve
    BY <2>2, ServeKeeps
  <2>3. CASE UNCHANGED <<vars, setting, done>>
    <3>1. UNCHANGED <<out_buf, ret_code, post_data, headers, file, call,
                      result, conn, reply, done, handlers, requests>>
      BY <2>3 DEF vars, kept, wire, setting
    <3>2. handlers' \in Seq(Registrations)
      BY <3>1 DEF HttpInv, Typed
    <3> QED BY <3>1, <3>2, SetupKeeps
  <2> QED BY <2>1, <2>2, <2>3 DEF HttpNext
<1> QED BY <1>1, <1>2, PTL DEF HttpSpec

(* Every request went to the handler that it had to go to, whatever is     *)
(* registered, and added or removed while requests are on their way: the   *)
(* one that serves its path with the shortest name, and of several with    *)
(* that name the one registered first (nxs_rest_api_handler_exec).         *)
THEOREM RoutedRightAlways == HttpSpec => []RoutedRight
<1>1. HttpInv => RoutedRight
  BY DEF HttpInv
<1> QED BY <1>1, HttpInvAlways, PTL

(* A call that returned OK has the answer to its own request, and what can *)
(* be read from the buffer is that answer, ended with a zero byte; after   *)
(* an error the buffer holds nothing but the beginning of it, whenever a   *)
(* late request is handled (nxs_curl_query, nxs_curl_q_get_data).          *)
THEOREM OwnAnswerAlways == HttpSpec => []OwnAnswer
<1>1. HttpInv => OwnAnswer
  BY DEF HttpInv
<1> QED BY <1>1, HttpInvAlways, PTL

(* A file is downloaded from its beginning, whole if the call returns OK,  *)
(* and one that was uploaded reached the server at the size announced,     *)
(* though somebody writes it meanwhile (nxs_curl_download,                 *)
(* nxs_curl_upload).                                                       *)
THEOREM FileRightAlways == HttpSpec => []FileRight
<1>1. HttpInv => FileRight
  BY DEF HttpInv
<1> QED BY <1>1, HttpInvAlways, PTL
=============================================================================

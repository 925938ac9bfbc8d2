---------------------------- MODULE NetSockProofs ----------------------------
(***************************************************************************)
(* Proofs about NetSock, for every set of processes, number of descriptors *)
(* and number of attempts: the inductive invariant and what follows from   *)
(* it, for applications that do not close a unix server whose listen failed.*)
(***************************************************************************)
EXTENDS NetSock, WellFoundedInduction, TLAPS

USE NetSockAssumption

(* A process that has a free descriptor has a lowest one. *)
LEMMA LowestFree ==
  ASSUME NEW p \in Procs, Unused(p) # {}
  PROVE  Lowest(p) \in Fds /\ fd[p][Lowest(p)] = "free"
<1>1. Unused(p) \subseteq Nat /\ Unused(p) \subseteq Fds
  BY DEF Unused, Fds
<1>2. PICK n \in Unused(p) : \A m \in Unused(p) : n <= m
  <2>1. PICK n \in Unused(p) :
          \A m \in Unused(p) : ~(<<m, n>> \in OpToRel(<, Nat))
    BY <1>1, NatLessThanWellFounded, WFMin
  <2>2. \A m \in Unused(p) : ~(m < n)
    BY <1>1, <2>1 DEF OpToRel
  <2>3. QED
    BY <1>1, <2>2
<1>3. Lowest(p) \in Unused(p)
  BY <1>2 DEF Lowest
<1>4. QED
  BY <1>1, <1>3 DEF Unused

LEMMA InitIInv == Init => IInv
<1> USE DEF Init, NoCon, NoSrv, NoPath, Idle, Sock, NoSock, Fds, Types
<1> SUFFICES ASSUME Init PROVE IInv
  OBVIOUS
<1>1. TypeOK
  BY DEF TypeOK
<1>2. HeldOnce
  BY DEF HeldOnce, Holds
<1>3. \A p \in Procs : ConShape(p) /\ SrvShape(p) /\ ~HasPath(p)
  BY DEF ConShape, SrvShape, HasPath, Connecting, Binding, At
<1>4. QED
  BY <1>1, <1>2, <1>3 DEF IInv, PathShape

Owner == {"free", "own", "con", "srv"}

(* What Take and Release do to the table *)
LEMMA TakeEffect ==
  ASSUME TypeOK, NEW p \in Procs, NEW who \in Owner, Take(p, who)
  PROVE  /\ Lowest(p) \in Fds /\ fd[p][Lowest(p)] = "free"
         /\ fd' \in [Procs -> [Fds -> Owner]]
         /\ \A q \in Procs, m \in Fds :
              fd'[q][m] = IF q = p /\ m = Lowest(p) THEN who ELSE fd[q][m]
<1> DEFINE n == Lowest(p)
<1>1. n \in Fds /\ fd[p][n] = "free" /\ fd' = [fd EXCEPT ![p][n] = who]
  BY LowestFree DEF Take
<1>2. fd \in [Procs -> [Fds -> Owner]]
  BY DEF TypeOK, Owner
<1> HIDE DEF n
<1>3. fd' \in [Procs -> [Fds -> Owner]]
      /\ \A q \in Procs, m \in Fds :
           fd'[q][m] = IF q = p /\ m = n THEN who ELSE fd[q][m]
  BY <1>1, <1>2
<1>4. QED
  BY <1>1, <1>3 DEF n

LEMMA ReleaseEffect ==
  ASSUME TypeOK, NEW p \in Procs, NEW n \in Fds, Release(p, n)
  PROVE  /\ fd' \in [Procs -> [Fds -> Owner]]
         /\ \A q \in Procs, m \in Fds :
              fd'[q][m] = IF q = p /\ m = n THEN "free" ELSE fd[q][m]
<1>1. fd \in [Procs -> [Fds -> Owner]]
  BY DEF TypeOK, Owner
<1>2. QED
  BY <1>1 DEF Release, Owner

(* The application's own descriptor *)
LEMMA OwnStep ==
  ASSUME IInv, NEW p \in Procs, OwnOpen(p) \/ OwnClose(p)
  PROVE  IInv'
<1> USE DEF IInv
<1>1. UNCHANGED <<con, srv, path, call>>
  BY DEF OwnOpen, OwnClose
<1>2. TypeOK' /\ HeldOnce'
  <2>1. CASE OwnOpen(p)
    <3>1. Take(p, "own") /\ own[p] = NoSock /\ own' = [own EXCEPT ![p] = Lowest(p)]
      BY <2>1 DEF OwnOpen
    <3>2. /\ Lowest(p) \in Fds /\ fd[p][Lowest(p)] = "free"
          /\ fd' \in [Procs -> [Fds -> Owner]]
          /\ \A q \in Procs, m \in Fds :
               fd'[q][m] = IF q = p /\ m = Lowest(p) THEN "own" ELSE fd[q][m]
      BY <3>1, TakeEffect DEF Owner
    <3>3. TypeOK'
      BY <1>1, <3>1, <3>2 DEF TypeOK, Sock, Owner
    <3>4. HeldOnce'
      <4>1. own \in [Procs -> Sock]
        BY DEF TypeOK
      <4> SUFFICES ASSUME NEW q \in Procs, NEW m \in Fds
                   PROVE  /\ fd'[q][m] = "con" <=> con'[q].sock = m
                          /\ fd'[q][m] = "own" <=> own'[q] = m
                          /\ fd'[q][m] = "srv" <=> Holds(srv'[q], m)
        BY DEF HeldOnce
      <4>2. /\ fd[q][m] = "con" <=> con[q].sock = m
            /\ fd[q][m] = "own" <=> own[q] = m
            /\ fd[q][m] = "srv" <=> Holds(srv[q], m)
        BY DEF HeldOnce
      <4>3. Holds(srv'[q], m) <=> Holds(srv[q], m)
        BY <1>1
      <4>4. QED
        BY <1>1, <3>1, <3>2, <4>1, <4>2, <4>3 DEF Sock, NoSock, Fds
    <3>5. QED
      BY <3>3, <3>4
  <2>2. CASE OwnClose(p)
    <3>1. PICK n \in Fds :
            own[p] = n /\ Release(p, n) /\ own' = [own EXCEPT ![p] = NoSock]
      BY <2>2 DEF OwnClose, TypeOK, Sock
    <3>2. /\ fd' \in [Procs -> [Fds -> Owner]]
          /\ \A q \in Procs, m \in Fds :
               fd'[q][m] = IF q = p /\ m = n THEN "free" ELSE fd[q][m]
      BY <3>1, ReleaseEffect
    <3>3. TypeOK'
      BY <1>1, <3>1, <3>2 DEF TypeOK, Sock, Owner
    <3>4. HeldOnce'
      <4>1. own \in [Procs -> Sock]
        BY DEF TypeOK
      <4> SUFFICES ASSUME NEW q \in Procs, NEW m \in Fds
                   PROVE  /\ fd'[q][m] = "con" <=> con'[q].sock = m
                          /\ fd'[q][m] = "own" <=> own'[q] = m
                          /\ fd'[q][m] = "srv" <=> Holds(srv'[q], m)
        BY DEF HeldOnce
      <4>2. /\ fd[q][m] = "con" <=> con[q].sock = m
            /\ fd[q][m] = "own" <=> own[q] = m
            /\ fd[q][m] = "srv" <=> Holds(srv[q], m)
        BY DEF HeldOnce
      <4>3. Holds(srv'[q], m) <=> Holds(srv[q], m)
        BY <1>1
      <4>4. QED
        BY <1>1, <3>1, <3>2, <4>1, <4>2, <4>3 DEF Sock, NoSock, Fds
    <3>5. QED
      BY <3>3, <3>4
  <2>3. QED
    BY <2>1, <2>2
<1>3. QED
  BY <1>1, <1>2 DEF ConShape, SrvShape, PathShape, HasPath, Connecting, At
-----------------------------------------------------------------------------
(***************************************************************************)
(* Connections                                                             *)
(***************************************************************************)
ConType == [init : BOOLEAN, type : Types, sock : Sock, block : BOOLEAN,
            recv : Sock, send : Sock]
ConPcs == {"idle", "socket", "option", "connect"}
CallType == [pc : {"idle", "socket", "option", "connect", "bind", "listen",
                   "bind failed", "listen failed", "unlink"},
             left : 0 .. Attempts, timed : BOOLEAN]

(* A step of process p on its connection: it keeps the invariant if the    *)
(* connection's descriptor does and the shape of the call does.            *)
LEMMA ConStep ==
  ASSUME IInv, NEW p \in Procs,
         UNCHANGED <<own, srv, path>>,
         NEW c \in ConType, con' = [con EXCEPT ![p] = c],
         NEW k \in CallType, call' = [call EXCEPT ![p] = k],
         call[p].pc \in ConPcs, k.pc \in ConPcs,
         k.pc # "idle" => k.left # 0,
         fd' \in [Procs -> [Fds -> Owner]],
         \A q \in Procs, m \in Fds : q # p => fd'[q][m] = fd[q][m],
         \A m \in Fds :
           /\ fd'[p][m] = "con" <=> c.sock = m
           /\ fd'[p][m] = "own" <=> fd[p][m] = "own"
           /\ fd'[p][m] = "srv" <=> fd[p][m] = "srv",
         ConShape(p)'
  PROVE  IInv'
<1>0. /\ TypeOK /\ HeldOnce /\ \A q \in Procs : ConShape(q) /\ SrvShape(q)
      /\ PathShape
  BY DEF IInv
<1>1. /\ con \in [Procs -> ConType] /\ call \in [Procs -> CallType]
      /\ con' \in [Procs -> ConType] /\ call' \in [Procs -> CallType]
  BY <1>0 DEF TypeOK, ConType, CallType
<1>2. /\ con'[p] = c /\ call'[p] = k
      /\ \A q \in Procs : q # p => con'[q] = con[q] /\ call'[q] = call[q]
  BY <1>1
<1>3. TypeOK'
  <2>1. ASSUME NEW q \in Procs, call'[q].pc \in {"socket", "option", "connect"}
        PROVE  call'[q].left # 0
    <3>1. call[q].pc \in {"socket", "option", "connect"} => call[q].left # 0
      BY <1>0 DEF TypeOK
    <3>2. QED
      BY <1>2, <2>1, <3>1
  <2>2. own' \in [Procs -> Sock] /\ path' \in [exists : BOOLEAN, by : Procs, stale : BOOLEAN]
        /\ srv' \in [Procs -> [init : BOOLEAN, type : Types, sock : Sock,
                              poll : SUBSET Fds, state : {"idle", "listening", "failed"}]]
    BY <1>0 DEF TypeOK
  <2>3. QED
    BY <1>1, <2>1, <2>2 DEF TypeOK, ConType, CallType, Owner
<1>4. HeldOnce'
  <2> SUFFICES ASSUME NEW q \in Procs, NEW m \in Fds
               PROVE  /\ fd'[q][m] = "con" <=> con'[q].sock = m
                      /\ fd'[q][m] = "own" <=> own'[q] = m
                      /\ fd'[q][m] = "srv" <=> Holds(srv'[q], m)
    BY DEF HeldOnce
  <2>0. /\ fd[q][m] = "con" <=> con[q].sock = m
        /\ fd[q][m] = "own" <=> own[q] = m
        /\ fd[q][m] = "srv" <=> Holds(srv[q], m)
        /\ Holds(srv'[q], m) <=> Holds(srv[q], m)
    BY <1>0 DEF HeldOnce
  <2>1. CASE q = p
    BY <1>2, <2>0, <2>1
  <2>2. CASE q # p
    BY <1>2, <2>0, <2>2
  <2>3. QED
    BY <2>1, <2>2
<1>5. \A q \in Procs : ConShape(q)'
  BY <1>0, <1>2 DEF ConShape, Connecting, At
<1>6. ASSUME NEW q \in Procs PROVE SrvShape(q)' /\ (HasPath(q)' <=> HasPath(q))
  <2>0. SrvShape(q) /\ srv'[q] = srv[q]
    BY <1>0
  <2>1. CASE q = p
    <3>1. /\ call[q].pc \notin Binding \cup {"unlink"}
          /\ call'[q].pc \notin Binding \cup {"unlink"}
      BY <1>2, <2>1 DEF Binding, ConPcs
    <3>2. SrvShape(q)'
      BY <2>0, <3>1 DEF SrvShape, At
    <3>3. HasPath(q)' <=> HasPath(q)
      BY <2>0, <3>1 DEF HasPath, Binding
    <3>4. QED
      BY <3>2, <3>3
  <2>2. CASE q # p
    BY <1>2, <2>0, <2>2 DEF SrvShape, HasPath, Binding, At
  <2>3. QED
    BY <2>1, <2>2
<1>7. path.by \in Procs
  BY <1>0 DEF TypeOK
<1>8. QED
  BY <1>0, <1>3, <1>4, <1>5, <1>6, <1>7 DEF IInv, PathShape
(* What the invariant says of p's connection *)
LEMMA ConFacts ==
  ASSUME IInv, NEW p \in Procs
  PROVE  /\ TypeOK /\ ConShape(p)
         /\ con \in [Procs -> ConType] /\ con[p] \in ConType
         /\ call \in [Procs -> CallType] /\ call[p] \in CallType
         /\ call[p].pc \in {"socket", "option", "connect"} => call[p].left # 0
         /\ fd \in [Procs -> [Fds -> Owner]]
         /\ \A m \in Fds : fd[p][m] = "con" <=> con[p].sock = m
         /\ call' = call => call' = [call EXCEPT ![p] = call[p]]
<1>1. TypeOK /\ HeldOnce /\ ConShape(p)
  BY DEF IInv
<1>2. con \in [Procs -> ConType] /\ call \in [Procs -> CallType]
      /\ fd \in [Procs -> [Fds -> Owner]]
  BY <1>1 DEF TypeOK, ConType, CallType, Owner
<1>3. \A m \in Fds : fd[p][m] = "con" <=> con[p].sock = m
  BY <1>1 DEF HeldOnce
<1>4. call[p].pc \in {"socket", "option", "connect"} => call[p].left # 0
  BY <1>1 DEF TypeOK
<1>5. QED
  BY <1>1, <1>2, <1>3, <1>4

(* ConStep for a step that ends in connection c and call k: the table is   *)
(* left alone, takes a descriptor for c, or gives up con[p]'s.             *)
LEMMA ConStepTo ==
  ASSUME IInv, NEW p \in Procs, call[p].pc \in ConPcs,
         UNCHANGED <<own, srv, path>>,
         NEW c \in ConType, con' = [con EXCEPT ![p] = c],
         NEW k \in CallType, call' = [call EXCEPT ![p] = k],
         k.pc \in ConPcs, k.pc # "idle" => k.left # 0 /\ c.init,
         \/ fd' = fd /\ c.sock = con[p].sock
         \/ con[p].sock = NoSock /\ Take(p, "con") /\ c.sock = Lowest(p)
         \/ con[p].sock \in Fds /\ Release(p, con[p].sock) /\ c.sock = NoSock,
         k.pc = "idle" => c.recv = c.sock /\ c.send = c.sock,
         k.pc = "idle" /\ c.sock # NoSock => c.block,
         k.pc # "idle" => c.recv = NoSock /\ c.send = NoSock,
         k.pc = "socket" => c.sock = NoSock,
         k.pc \in {"option", "connect"} => c.sock # NoSock,
         c.sock # NoSock => c.init
  PROVE  IInv'
<1>1. /\ TypeOK
      /\ con \in [Procs -> ConType] /\ call \in [Procs -> CallType]
      /\ fd \in [Procs -> [Fds -> Owner]]
      /\ \A m \in Fds : fd[p][m] = "con" <=> con[p].sock = m
  BY ConFacts
<1>2. con'[p] = c /\ call'[p] = k
  BY <1>1
<1>3. ConShape(p)'
  BY <1>2 DEF ConShape, Connecting, At, ConPcs
<1>4. /\ fd' \in [Procs -> [Fds -> Owner]]
      /\ \A q \in Procs, m \in Fds : q # p => fd'[q][m] = fd[q][m]
      /\ \A m \in Fds :
           /\ fd'[p][m] = "con" <=> c.sock = m
           /\ fd'[p][m] = "own" <=> fd[p][m] = "own"
           /\ fd'[p][m] = "srv" <=> fd[p][m] = "srv"
  <2>1. CASE fd' = fd /\ c.sock = con[p].sock
    BY <1>1, <2>1
  <2>2. CASE con[p].sock = NoSock /\ Take(p, "con") /\ c.sock = Lowest(p)
    <3>1. "con" \in Owner
      BY DEF Owner
    <3>2. /\ Lowest(p) \in Fds /\ fd[p][Lowest(p)] = "free"
          /\ fd' \in [Procs -> [Fds -> Owner]]
          /\ \A q \in Procs, m \in Fds :
               fd'[q][m] = IF q = p /\ m = Lowest(p) THEN "con" ELSE fd[q][m]
      BY <1>1, <2>2, <3>1, TakeEffect
    <3>3. \A m \in Fds : fd[p][m] # "con"
      BY <1>1, <2>2 DEF Fds, NoSock
    <3>4. QED
      BY <2>2, <3>2, <3>3
  <2>3. CASE con[p].sock \in Fds /\ Release(p, con[p].sock) /\ c.sock = NoSock
    <3>1. /\ fd' \in [Procs -> [Fds -> Owner]]
          /\ \A q \in Procs, m \in Fds :
               fd'[q][m] = IF q = p /\ m = con[p].sock THEN "free" ELSE fd[q][m]
      BY <1>1, <2>3, ReleaseEffect
    <3>2. NoSock \notin Fds
      BY DEF Fds, NoSock
    <3>3. QED
      BY <1>1, <2>3, <3>1, <3>2
  <2>4. QED
    BY <2>1, <2>2, <2>3
<1>5. k.pc # "idle" => k.left # 0
  OBVIOUS
<1>6. QED
  BY <1>2, <1>3, <1>4, <1>5, ConStep

LEMMA ConInitStep ==
  ASSUME IInv, NEW p \in Procs, NEW type \in Types, ConInit(p, type)
  PROVE  IInv'
<1> DEFINE c == [NoCon EXCEPT !.init = TRUE, !.type = type]
<1>1. /\ con' = [con EXCEPT ![p] = c] /\ call[p].pc = "idle" /\ ~con[p].init
      /\ UNCHANGED <<fd, own, srv, path, call>>
  BY DEF ConInit, At
<1>2. c \in ConType /\ c.init
      /\ c.sock = NoSock /\ c.recv = NoSock /\ c.send = NoSock
  BY DEF NoCon, ConType, Sock, Types
<1>3. call' = [call EXCEPT ![p] = call[p]] /\ call[p] \in CallType
      /\ con[p].sock = NoSock
  BY <1>1, ConFacts DEF ConShape
<1> HIDE DEF c
<1>4. QED
  BY <1>1, <1>2, <1>3, ConStepTo DEF ConPcs

LEMMA ConnectCallStep ==
  ASSUME IInv, NEW p \in Procs, NEW timed \in BOOLEAN, ConnectCall(p, timed)
  PROVE  IInv'
<1> DEFINE c == Unwatched(con[p])
           k == [pc |-> "socket", timed |-> timed,
                 left |-> IF con[p].type = "inet" THEN Attempts ELSE 1]
<1>1. /\ con' = [con EXCEPT ![p] = c] /\ call[p].pc = "idle"
      /\ con[p].init /\ con[p].sock = NoSock
      /\ UNCHANGED <<fd, own, srv, path>>
      /\ call' = [call EXCEPT ![p] = k] \/ call' = call
  BY ConFacts DEF ConnectCall, At
<1>2. /\ c \in ConType /\ c.init = con[p].init /\ c.sock = NoSock
      /\ c.recv = NoSock /\ c.send = NoSock
  <2>1. con[p] \in ConType
    BY ConFacts
  <2>2. QED
    BY <1>1, <2>1 DEF Unwatched, ConType, Sock
<1>3. k \in CallType /\ k.pc = "socket" /\ k.left # 0
  <2>1. Attempts \in 0 .. Attempts /\ 1 \in 0 .. Attempts /\ Attempts # 0
    OBVIOUS
  <2>2. QED
    BY <2>1 DEF CallType
<1>4. call[p] \in CallType /\ (call' = call => call' = [call EXCEPT ![p] = call[p]])
  BY ConFacts
<1> HIDE DEF c, k
<1>5. CASE call' = [call EXCEPT ![p] = k]
  BY <1>1, <1>2, <1>3, <1>5, ConStepTo DEF ConPcs
<1>6. CASE call' = call
  BY <1>1, <1>2, <1>4, <1>6, ConStepTo DEF ConPcs
<1>7. QED
  BY <1>1, <1>5, <1>6

LEMMA ConnectSocketStep ==
  ASSUME IInv, NEW p \in Procs, ConnectSocket(p)
  PROVE  IInv'
<1>1. /\ call[p].pc = "socket" /\ con[p].sock = NoSock /\ con[p].init
      /\ con[p].recv = NoSock /\ con[p].send = NoSock
      /\ con \in [Procs -> ConType] /\ con[p] \in ConType
      /\ call \in [Procs -> CallType] /\ call[p] \in CallType
      /\ call[p].left # 0 /\ TypeOK
      /\ UNCHANGED <<own, srv, path>>
  BY ConFacts DEF ConnectSocket, ConShape, Connecting, At
<1>2. ASSUME Take(p, "con"),
             con' = [con EXCEPT ![p].sock = Lowest(p), ![p].block = TRUE],
             GoTo(p, IF call[p].timed THEN "option" ELSE "connect")
      PROVE  IInv'
  <2> DEFINE c == [con[p] EXCEPT !.sock = Lowest(p), !.block = TRUE]
             k == [call[p] EXCEPT !.pc = IF call[p].timed THEN "option" ELSE "connect"]
  <2>1. Lowest(p) \in Fds
    BY <1>2, LowestFree DEF Take
  <2>2. con' = [con EXCEPT ![p] = c] /\ call' = [call EXCEPT ![p] = k]
    BY <1>1, <1>2 DEF GoTo
  <2>3. /\ c \in ConType /\ c.init = con[p].init /\ c.sock = Lowest(p)
        /\ c.recv = con[p].recv /\ c.send = con[p].send
    BY <1>1, <2>1 DEF ConType, Sock
  <2>4. NoSock \notin Fds
    BY DEF Fds, NoSock
  <2>5. k \in CallType /\ k.pc \in {"option", "connect"} /\ k.left # 0
    BY <1>1 DEF CallType
  <2> HIDE DEF c, k
  <2>6. QED
    BY <1>1, <1>2, <2>1, <2>2, <2>3, <2>4, <2>5, ConStepTo DEF ConPcs
<1>3. ASSUME con' = [con EXCEPT ![p].sock = NoSock], Return(p), UNCHANGED fd
      PROVE  IInv'
  <2> DEFINE c == [con[p] EXCEPT !.sock = NoSock]
  <2>1. con' = [con EXCEPT ![p] = c] /\ call' = [call EXCEPT ![p] = Idle]
    BY <1>1, <1>3 DEF Return
  <2>2. c \in ConType /\ c.sock = NoSock /\ c.recv = NoSock /\ c.send = NoSock
    BY <1>1 DEF ConType, Sock
  <2>3. Idle \in CallType /\ Idle.pc = "idle"
    BY DEF CallType, Idle
  <2> HIDE DEF c
  <2>4. QED
    BY <1>1, <1>3, <2>1, <2>2, <2>3, ConStepTo DEF ConPcs
<1>4. QED
  BY <1>2, <1>3 DEF ConnectSocket
(* An attempt that ends the call without a connection *)
LEMMA ConnectGivesUpStep ==
  ASSUME IInv, NEW p \in Procs, call[p].pc \in {"option", "connect"},
         ConnectGivesUp(p), UNCHANGED <<own, srv, path>>
  PROVE  IInv'
<1> DEFINE c == [con[p] EXCEPT !.sock = NoSock]
<1>1. /\ con[p].recv = NoSock /\ con[p].send = NoSock /\ con[p].sock \in Fds
      /\ con \in [Procs -> ConType] /\ con[p] \in ConType
  BY ConFacts DEF ConShape, Connecting, ConType, Sock
<1>2. /\ con' = [con EXCEPT ![p] = c] /\ call' = [call EXCEPT ![p] = Idle]
      /\ Release(p, con[p].sock)
  BY <1>1 DEF ConnectGivesUp, Return
<1>3. c \in ConType /\ c.sock = NoSock /\ c.recv = NoSock /\ c.send = NoSock
  BY <1>1 DEF ConType, Sock
<1>4. Idle \in CallType /\ Idle.pc = "idle"
  BY DEF CallType, Idle
<1> HIDE DEF c
<1>5. QED
  BY <1>1, <1>2, <1>3, <1>4, ConStepTo DEF ConPcs

LEMMA ConnectOptionStep ==
  ASSUME IInv, NEW p \in Procs, ConnectOption(p)
  PROVE  IInv'
<1>1. /\ call[p].pc = "option" /\ con[p].sock # NoSock /\ con[p].init
      /\ con[p].recv = NoSock /\ con[p].send = NoSock
      /\ con \in [Procs -> ConType] /\ con[p] \in ConType
      /\ call \in [Procs -> CallType] /\ call[p] \in CallType
      /\ call[p].left # 0
      /\ UNCHANGED <<own, srv, path>>
  BY ConFacts DEF ConnectOption, ConShape, Connecting, At
<1>2. ASSUME con' = [con EXCEPT ![p].block = FALSE], GoTo(p, "connect"), UNCHANGED fd
      PROVE  IInv'
  <2> DEFINE c == [con[p] EXCEPT !.block = FALSE]
             k == [call[p] EXCEPT !.pc = "connect"]
  <2>1. con' = [con EXCEPT ![p] = c] /\ call' = [call EXCEPT ![p] = k]
    BY <1>1, <1>2 DEF GoTo
  <2>2. /\ c \in ConType /\ c.init = con[p].init /\ c.sock = con[p].sock
        /\ c.recv = NoSock /\ c.send = NoSock
    BY <1>1 DEF ConType
  <2>3. k \in CallType /\ k.pc = "connect" /\ k.left # 0
    BY <1>1 DEF CallType
  <2> HIDE DEF c, k
  <2>4. c.sock # NoSock
    BY <1>1, <2>2
  <2>5. QED
    BY <1>1, <1>2, <2>1, <2>2, <2>3, <2>4, ConStepTo DEF ConPcs
<1>3. QED
  BY <1>1, <1>2, ConnectGivesUpStep DEF ConnectOption

LEMMA ConnectTryStep ==
  ASSUME IInv, NEW p \in Procs, ConnectTry(p)
  PROVE  IInv'
<1>1. /\ call[p].pc = "connect" /\ con[p].sock \in Fds /\ con[p].init
      /\ con[p].recv = NoSock /\ con[p].send = NoSock
      /\ con \in [Procs -> ConType] /\ con[p] \in ConType
      /\ call \in [Procs -> CallType] /\ call[p] \in CallType
      /\ call[p].left # 0
      /\ UNCHANGED <<own, srv, path>>
  BY ConFacts DEF ConnectTry, ConShape, Connecting, At, ConType, Sock
<1>2. Idle \in CallType /\ Idle.pc = "idle"
  BY DEF CallType, Idle
<1>3. ASSUME con' = [con EXCEPT ![p] = Watched(@, @.sock)], Return(p), UNCHANGED fd
      PROVE  IInv'
  <2> DEFINE c == Watched(con[p], con[p].sock)
  <2>1. con' = [con EXCEPT ![p] = c] /\ call' = [call EXCEPT ![p] = Idle]
    BY <1>1, <1>3 DEF Return
  <2>2. /\ c \in ConType /\ c.init = con[p].init /\ c.sock = con[p].sock
        /\ c.recv = con[p].sock /\ c.send = con[p].sock /\ c.block = TRUE
    BY <1>1 DEF ConType, Watched, Sock
  <2> HIDE DEF c
  <2>3. QED
    BY <1>1, <1>2, <1>3, <2>1, <2>2, ConStepTo DEF ConPcs
<1>4. ASSUME Release(p, con[p].sock), con' = [con EXCEPT ![p].sock = NoSock],
             call' = [call EXCEPT ![p] = NextTry(call[p], 1)]
      PROVE  IInv'
  <2> DEFINE c == [con[p] EXCEPT !.sock = NoSock]
  <2>1. Release(p, con[p].sock) /\ con' = [con EXCEPT ![p] = c]
    BY <1>1, <1>4
  <2>2. /\ c \in ConType /\ c.init = con[p].init /\ c.sock = NoSock
        /\ c.recv = NoSock /\ c.send = NoSock
    BY <1>1 DEF ConType, Sock
  <2>3. CASE call[p].left = 1
    <3>1. call' = [call EXCEPT ![p] = Idle]
      BY <1>4, <2>3 DEF NextTry
    <3> HIDE DEF c
    <3>2. QED
      BY <1>1, <1>2, <2>1, <2>2, <3>1, ConStepTo DEF ConPcs
  <2>4. CASE call[p].left # 1
    <3> DEFINE l == call[p].left - 1
               k == [call[p] EXCEPT !.pc = "socket", !.left = l]
    <3>1. call[p].left \in 0 .. Attempts
      BY <1>1 DEF CallType
    <3>2. l \in 0 .. Attempts /\ l # 0
      BY <1>1, <2>4, <3>1
    <3>3. call' = [call EXCEPT ![p] = k]
      BY <1>4, <2>4 DEF NextTry
    <3> HIDE DEF l
    <3>4. k \in CallType /\ k.pc = "socket" /\ k.left = l
      BY <1>1, <3>2 DEF CallType
    <3> HIDE DEF c, k
    <3>5. QED
      BY <1>1, <2>1, <2>2, <3>2, <3>3, <3>4, ConStepTo DEF ConPcs
  <2>5. QED
    BY <2>3, <2>4
<1>5. QED
  BY <1>1, <1>3, <1>4, ConnectGivesUpStep DEF ConnectTry

LEMMA AcceptStep ==
  ASSUME IInv, NEW p \in Procs, Accept(p)
  PROVE  IInv'
<1>1. /\ call[p].pc = "idle" /\ con[p].sock = NoSock /\ con[p].init
      /\ con[p].recv = NoSock /\ con[p].send = NoSock
      /\ con \in [Procs -> ConType] /\ con[p] \in ConType
      /\ call' = [call EXCEPT ![p] = call[p]] /\ call[p] \in CallType
      /\ UNCHANGED <<own, srv, path>>
  BY ConFacts DEF Accept, ConShape, Connecting, At
<1>2. ASSUME Take(p, "con"), con' = [con EXCEPT ![p] = Watched(@, Lowest(p))]
      PROVE  IInv'
  <2> DEFINE c == Watched(con[p], Lowest(p))
  <2>1. Lowest(p) \in Fds
    BY <1>2, LowestFree DEF Take
  <2>2. con' = [con EXCEPT ![p] = c]
    BY <1>1, <1>2
  <2>3. /\ c \in ConType /\ c.init = con[p].init /\ c.sock = Lowest(p)
        /\ c.recv = Lowest(p) /\ c.send = Lowest(p) /\ c.block = TRUE
    BY <1>1, <2>1 DEF ConType, Watched, Sock
  <2> HIDE DEF c
  <2>4. QED
    BY <1>1, <1>2, <2>2, <2>3, ConStepTo DEF ConPcs
<1>3. ASSUME con' = [con EXCEPT ![p].sock = NoSock], UNCHANGED fd
      PROVE  IInv'
  <2> DEFINE c == [con[p] EXCEPT !.sock = NoSock]
  <2>1. con' = [con EXCEPT ![p] = c]
    BY <1>1, <1>3
  <2>2. c \in ConType /\ c.sock = NoSock /\ c.recv = NoSock /\ c.send = NoSock
    BY <1>1 DEF ConType, Sock
  <2> HIDE DEF c
  <2>3. QED
    BY <1>1, <1>3, <2>1, <2>2, ConStepTo DEF ConPcs
<1>4. QED
  BY <1>2, <1>3 DEF Accept

LEMMA ConCloseStep ==
  ASSUME IInv, NEW p \in Procs, ConClose(p)
  PROVE  IInv'
<1>1. /\ call[p].pc = "idle" /\ con[p].sock \in Fds \cup {NoSock}
      /\ con' = [con EXCEPT ![p] = NoCon]
      /\ call' = [call EXCEPT ![p] = call[p]] /\ call[p] \in CallType
      /\ UNCHANGED <<own, srv, path>>
      /\ IF con[p].sock = NoSock THEN UNCHANGED fd ELSE Release(p, con[p].sock)
  BY ConFacts DEF ConClose, At, ConType, Sock
<1>2. /\ NoCon \in ConType /\ NoCon.sock = NoSock
      /\ NoCon.recv = NoSock /\ NoCon.send = NoSock
  BY DEF NoCon, ConType, Sock, Types
<1>3. CASE con[p].sock = NoSock
  BY <1>1, <1>2, <1>3, ConStepTo DEF ConPcs
<1>4. CASE con[p].sock # NoSock
  <2>1. con[p].sock \in Fds /\ Release(p, con[p].sock)
    BY <1>1, <1>4
  <2>2. QED
    BY <1>1, <1>2, <2>1, ConStepTo DEF ConPcs
<1>5. QED
  BY <1>3, <1>4
-----------------------------------------------------------------------------
(***************************************************************************)
(* Servers                                                                 *)
(***************************************************************************)
SrvType == [init : BOOLEAN, type : Types, sock : Sock, poll : SUBSET Fds,
            state : {"idle", "listening", "failed"}]
PathType == [exists : BOOLEAN, by : Procs, stale : BOOLEAN]
SrvPcs == Binding \cup {"idle", "unlink"}
IsAt(k, s) ==
  \/ k.pc \in {"listen", "listen failed", "unlink"}
  \/ s.type = "unix" /\ s.state = "listening"

LEMMA SrvFacts ==
  ASSUME IInv, NEW p \in Procs
  PROVE  /\ TypeOK /\ SrvShape(p)
         /\ srv \in [Procs -> SrvType] /\ srv[p] \in SrvType
         /\ call \in [Procs -> CallType] /\ call[p] \in CallType
         /\ path \in PathType
         /\ fd \in [Procs -> [Fds -> Owner]]
         /\ \A m \in Fds : fd[p][m] = "srv" <=> Holds(srv[p], m)
         /\ call' = call => call' = [call EXCEPT ![p] = call[p]]
         /\ srv' = srv => srv' = [srv EXCEPT ![p] = srv[p]]
         /\ IsAt(call[p], srv[p]) => path = [exists |-> TRUE, by |-> p, stale |-> FALSE]
<1>1. TypeOK /\ HeldOnce /\ SrvShape(p) /\ PathShape
  BY DEF IInv
<1>2. /\ srv \in [Procs -> SrvType] /\ call \in [Procs -> CallType]
      /\ fd \in [Procs -> [Fds -> Owner]] /\ path \in PathType
  BY <1>1 DEF TypeOK, SrvType, CallType, Owner, PathType
<1>3. \A m \in Fds : fd[p][m] = "srv" <=> Holds(srv[p], m)
  BY <1>1 DEF HeldOnce
<1>4. IsAt(call[p], srv[p]) => path = [exists |-> TRUE, by |-> p, stale |-> FALSE]
  BY <1>1 DEF PathShape, HasPath, IsAt
<1>5. QED
  BY <1>1, <1>2, <1>3, <1>4

(* A step of process p on its server, which ends in server s and call k:    *)
(* the table is left alone, takes a descriptor for s, or gives up srv[p]'s.*)
LEMMA SrvStepTo ==
  ASSUME IInv, NEW p \in Procs, call[p].pc \in SrvPcs,
         UNCHANGED <<own, con>>,
         NEW s \in SrvType, srv' = [srv EXCEPT ![p] = s],
         NEW k \in CallType, call' = [call EXCEPT ![p] = k],
         k.pc \in SrvPcs, path' \in PathType,
         \/ fd' = fd /\ \A m \in Fds : Holds(s, m) <=> Holds(srv[p], m)
         \/ /\ \A m \in Fds : ~Holds(srv[p], m)
            /\ Take(p, "srv") /\ \A m \in Fds : Holds(s, m) <=> m = Lowest(p)
         \/ /\ srv[p].sock \in Fds /\ Holds(srv[p], srv[p].sock)
            /\ Release(p, srv[p].sock) /\ \A m \in Fds : ~Holds(s, m),
         SrvShape(p)',
         \/ path' = path /\ (IsAt(k, s) <=> IsAt(call[p], srv[p]))
         \/ ~path.exists /\ IsAt(k, s)
            /\ path' = [exists |-> TRUE, by |-> p, stale |-> FALSE]
         \/ path.exists /\ path.by = p /\ ~IsAt(k, s) /\ (path'.exists => path'.stale)
         \/ ~path.exists /\ ~path'.exists /\ ~IsAt(k, s)
  PROVE  IInv'
<1>0. /\ TypeOK /\ HeldOnce /\ \A q \in Procs : ConShape(q) /\ SrvShape(q)
      /\ PathShape
  BY DEF IInv
<1>1. /\ srv \in [Procs -> SrvType] /\ call \in [Procs -> CallType]
      /\ fd \in [Procs -> [Fds -> Owner]] /\ path \in PathType
      /\ \A m \in Fds : fd[p][m] = "srv" <=> Holds(srv[p], m)
  BY SrvFacts
<1>2. /\ srv'[p] = s /\ call'[p] = k
      /\ \A q \in Procs : q # p => srv'[q] = srv[q] /\ call'[q] = call[q]
  BY <1>1
<1>3. /\ fd' \in [Procs -> [Fds -> Owner]]
      /\ \A q \in Procs, m \in Fds : q # p => fd'[q][m] = fd[q][m]
      /\ \A m \in Fds :
           /\ fd'[p][m] = "con" <=> fd[p][m] = "con"
           /\ fd'[p][m] = "own" <=> fd[p][m] = "own"
           /\ fd'[p][m] = "srv" <=> Holds(s, m)
  <2>1. CASE fd' = fd /\ \A m \in Fds : Holds(s, m) <=> Holds(srv[p], m)
    BY <1>1, <2>1
  <2>2. CASE /\ \A m \in Fds : ~Holds(srv[p], m)
             /\ Take(p, "srv") /\ \A m \in Fds : Holds(s, m) <=> m = Lowest(p)
    <3>1. "srv" \in Owner
      BY DEF Owner
    <3>2. /\ Lowest(p) \in Fds /\ fd[p][Lowest(p)] = "free"
          /\ fd' \in [Procs -> [Fds -> Owner]]
          /\ \A q \in Procs, m \in Fds :
               fd'[q][m] = IF q = p /\ m = Lowest(p) THEN "srv" ELSE fd[q][m]
      BY <1>0, <2>2, <3>1, TakeEffect
    <3>3. QED
      BY <1>1, <2>2, <3>2
  <2>3. CASE /\ srv[p].sock \in Fds /\ Holds(srv[p], srv[p].sock)
             /\ Release(p, srv[p].sock) /\ \A m \in Fds : ~Holds(s, m)
    <3>1. /\ fd' \in [Procs -> [Fds -> Owner]]
          /\ \A q \in Procs, m \in Fds :
               fd'[q][m] = IF q = p /\ m = srv[p].sock THEN "free" ELSE fd[q][m]
      BY <1>0, <2>3, ReleaseEffect
    <3>2. fd[p][srv[p].sock] = "srv" /\ \A m \in Fds : Holds(srv[p], m) => m = srv[p].sock
      BY <1>1, <2>3 DEF Holds
    <3>3. QED
      BY <1>1, <2>3, <3>1, <3>2
  <2>4. QED
    BY <2>1, <2>2, <2>3
<1>4. TypeOK'
  <2>1. srv' \in [Procs -> SrvType] /\ call' \in [Procs -> CallType]
    BY <1>1
  <2>2. ASSUME NEW q \in Procs, call'[q].pc \in {"socket", "option", "connect"}
        PROVE  call'[q].left # 0
    <3>1. q # p
      BY <1>2, <2>2 DEF SrvPcs, Binding
    <3>2. call[q].pc \in {"socket", "option", "connect"} => call[q].left # 0
      BY <1>0 DEF TypeOK
    <3>3. QED
      BY <1>2, <2>2, <3>1, <3>2
  <2>3. own' \in [Procs -> Sock]
        /\ con' \in [Procs -> [init : BOOLEAN, type : Types, sock : Sock,
                               block : BOOLEAN, recv : Sock, send : Sock]]
    BY <1>0 DEF TypeOK
  <2>4. QED
    BY <1>3, <2>1, <2>2, <2>3 DEF TypeOK, SrvType, CallType, PathType, Owner
<1>5. HeldOnce'
  <2> SUFFICES ASSUME NEW q \in Procs, NEW m \in Fds
               PROVE  /\ fd'[q][m] = "con" <=> con'[q].sock = m
                      /\ fd'[q][m] = "own" <=> own'[q] = m
                      /\ fd'[q][m] = "srv" <=> Holds(srv'[q], m)
    BY DEF HeldOnce
  <2>0. /\ fd[q][m] = "con" <=> con[q].sock = m
        /\ fd[q][m] = "own" <=> own[q] = m
        /\ fd[q][m] = "srv" <=> Holds(srv[q], m)
    BY <1>0 DEF HeldOnce
  <2>1. CASE q = p
    BY <1>2, <1>3, <2>0, <2>1
  <2>2. CASE q # p
    BY <1>2, <1>3, <2>0, <2>2
  <2>3. QED
    BY <2>1, <2>2
<1>6. ASSUME NEW q \in Procs PROVE ConShape(q)' /\ SrvShape(q)'
  <2>0. ConShape(q) /\ SrvShape(q) /\ con'[q] = con[q]
    BY <1>0
  <2>1. CASE q = p
    <3>1. ~Connecting(q) /\ ~Connecting(q)'
          /\ call[q].pc \notin {"socket", "option", "connect"}
          /\ call'[q].pc \notin {"socket", "option", "connect"}
      BY <1>2, <2>1 DEF Connecting, SrvPcs, Binding
    <3>2. QED
      BY <2>0, <2>1, <3>1 DEF ConShape, At
  <2>2. CASE q # p
    BY <1>2, <2>0, <2>2 DEF SrvShape, ConShape, Connecting, At
  <2>3. QED
    BY <2>1, <2>2
<1>7. PathShape'
  <2>1. /\ \A q \in Procs : HasPath(q)' <=> IsAt(call'[q], srv'[q])
        /\ \A q \in Procs : HasPath(q) <=> IsAt(call[q], srv[q])
    BY DEF HasPath, IsAt
  <2>2. /\ \A q \in Procs :
             IsAt(call[q], srv[q]) => path = [exists |-> TRUE, by |-> q, stale |-> FALSE]
        /\ path.exists /\ ~path.stale => IsAt(call[path.by], srv[path.by])
        /\ path.by \in Procs
    BY <1>0, <1>1, <2>1 DEF PathShape, PathType
  <2>3. /\ \A q \in Procs : IsAt(call'[q], srv'[q]) =>
             path' = [exists |-> TRUE, by |-> q, stale |-> FALSE]
        /\ path'.exists /\ ~path'.stale => IsAt(call'[path'.by], srv'[path'.by])
    <3>1. CASE path' = path /\ (IsAt(k, s) <=> IsAt(call[p], srv[p]))
      BY <1>2, <2>2, <3>1
    <3>2. CASE ~path.exists /\ IsAt(k, s)
               /\ path' = [exists |-> TRUE, by |-> p, stale |-> FALSE]
      <4>1. \A q \in Procs : ~IsAt(call[q], srv[q])
        BY <2>2, <3>2
      <4>2. path'.by = p /\ IsAt(call'[p], srv'[p])
        BY <1>2, <3>2
      <4>3. ASSUME NEW q \in Procs, IsAt(call'[q], srv'[q]) PROVE q = p
        BY <1>2, <4>1, <4>3
      <4>4. QED
        BY <3>2, <4>2, <4>3
    <3>3. CASE path.exists /\ path.by = p /\ ~IsAt(k, s) /\ (path'.exists => path'.stale)
      BY <1>2, <2>2, <3>3
    <3>4. CASE ~path.exists /\ ~path'.exists /\ ~IsAt(k, s)
      BY <1>2, <2>2, <3>4
    <3>5. QED
      BY <3>1, <3>2, <3>3, <3>4
  <2>4. path'.by \in Procs
    BY DEF PathType
  <2>5. QED
    BY <2>1, <2>3, <2>4 DEF PathShape
<1>8. QED
  BY <1>4, <1>5, <1>6, <1>7 DEF IInv
LEMMA SrvInitStep ==
  ASSUME IInv, NEW p \in Procs, NEW type \in Types, SrvInit(p, type)
  PROVE  IInv'
<1> DEFINE s == [NoSrv EXCEPT !.init = TRUE, !.type = type]
<1>1. /\ srv' = [srv EXCEPT ![p] = s] /\ call[p].pc = "idle" /\ ~srv[p].init
      /\ UNCHANGED <<fd, own, con, path, call>>
  BY DEF SrvInit, At
<1>2. /\ s \in SrvType /\ s.init /\ s.sock = NoSock /\ s.poll = {} /\ s.state = "idle"
  BY DEF NoSrv, SrvType, Sock, Types
<1>3. /\ call' = [call EXCEPT ![p] = call[p]] /\ call[p] \in CallType /\ path' \in PathType
      /\ srv[p].sock = NoSock /\ srv[p].state # "listening"
      /\ srv'[p] = s /\ call'[p] = call[p]
  BY <1>1, SrvFacts DEF SrvShape
<1> HIDE DEF s
<1>4. SrvShape(p)'
  BY <1>1, <1>2, <1>3 DEF SrvShape, At, Binding
<1>5. \A m \in Fds : ~Holds(s, m) /\ ~Holds(srv[p], m)
  BY <1>2, <1>3 DEF Holds, Fds, NoSock
<1>6. ~IsAt(call[p], s) /\ ~IsAt(call[p], srv[p])
  BY <1>1, <1>2, <1>3 DEF IsAt
<1>7. QED
  BY <1>1, <1>2, <1>3, <1>4, <1>5, <1>6, SrvStepTo DEF SrvPcs

LEMMA ListenStep ==
  ASSUME IInv, NEW p \in Procs, Listen(p)
  PROVE  IInv'
<1>1. PICK state \in {"listening", "failed"} :
        srv' = [srv EXCEPT ![p].sock = Lowest(p), ![p].state = state]
  BY DEF Listen
<1>2. /\ call[p].pc = "idle" /\ srv[p].init /\ srv[p].state = "idle"
      /\ srv[p].type = "inet" /\ Take(p, "srv")
      /\ UNCHANGED <<own, con, path, call>>
  BY DEF Listen, At
<1>3. /\ call' = [call EXCEPT ![p] = call[p]] /\ call[p] \in CallType /\ path' \in PathType
      /\ srv \in [Procs -> SrvType] /\ srv[p] \in SrvType
      /\ srv[p].sock = NoSock /\ srv[p].poll \subseteq {NoSock}
  BY <1>2, SrvFacts DEF SrvShape, Binding
<1>4. Lowest(p) \in Fds /\ NoSock \notin Fds
  BY <1>2, LowestFree DEF Take, Fds, NoSock
<1> DEFINE s == [srv[p] EXCEPT !.sock = Lowest(p), !.state = state]
<1>5. srv' = [srv EXCEPT ![p] = s] /\ srv'[p] = s /\ call'[p] = call[p]
  BY <1>1, <1>2, <1>3
<1>6. /\ s \in SrvType /\ s.init = srv[p].init /\ s.sock = Lowest(p)
      /\ s.poll = srv[p].poll /\ s.state = state /\ s.type = "inet"
  BY <1>2, <1>3, <1>4 DEF SrvType, Sock
<1>7. srv[p].poll = {}
  BY <1>3, <1>4 DEF SrvType
<1> HIDE DEF s
<1>8. SrvShape(p)'
  BY <1>2, <1>4, <1>5, <1>6, <1>7 DEF SrvShape, At, Binding
<1>9. \A m \in Fds : ~Holds(srv[p], m) /\ (Holds(s, m) <=> m = Lowest(p))
  BY <1>3, <1>4, <1>6 DEF Holds
<1>10. ~IsAt(call[p], s) /\ ~IsAt(call[p], srv[p])
  BY <1>2, <1>6 DEF IsAt
<1>11. QED
  BY <1>2, <1>3, <1>5, <1>6, <1>8, <1>9, <1>10, SrvStepTo DEF SrvPcs

LEMMA UnixListenStep ==
  ASSUME IInv, NEW p \in Procs, UnixListen(p)
  PROVE  IInv'
<1>1. /\ call[p].pc = "idle" /\ srv[p].init /\ srv[p].state # "listening"
      /\ srv[p].type = "unix" /\ UNCHANGED <<own, con, path>>
  BY DEF UnixListen, At
<1>2. /\ call \in [Procs -> CallType] /\ call[p] \in CallType /\ path' \in PathType
      /\ srv \in [Procs -> SrvType] /\ srv[p] \in SrvType /\ SrvShape(p)
      /\ call' = call => call' = [call EXCEPT ![p] = call[p]]
  BY <1>1, SrvFacts
<1>3. NoSock \notin Fds /\ \A m \in Fds : ~Holds(srv[p], m)
  <2>1. NoSock \notin Fds
    BY DEF Fds, NoSock
  <2>2. srv[p].state = "failed" \/ srv[p].sock = NoSock
    BY <1>1, <1>2 DEF SrvShape, SrvType, Binding
  <2>3. QED
    BY <1>1, <2>1, <2>2 DEF Holds
<1>4. ~IsAt(call[p], srv[p])
  BY <1>1 DEF IsAt
<1>5. ASSUME Take(p, "srv"), GoTo(p, "bind"),
             srv' = [srv EXCEPT ![p].sock = Lowest(p), ![p].state = "idle"]
      PROVE  IInv'
  <2> DEFINE s == [srv[p] EXCEPT !.sock = Lowest(p), !.state = "idle"]
             k == [call[p] EXCEPT !.pc = "bind"]
  <2>1. Lowest(p) \in Fds
    BY <1>5, LowestFree DEF Take
  <2>2. /\ srv' = [srv EXCEPT ![p] = s] /\ srv'[p] = s
        /\ call' = [call EXCEPT ![p] = k] /\ call'[p] = k
    BY <1>2, <1>5 DEF GoTo
  <2>3. /\ s \in SrvType /\ s.init = srv[p].init /\ s.sock = Lowest(p)
        /\ s.poll = srv[p].poll /\ s.state = "idle" /\ s.type = srv[p].type
    BY <1>2, <2>1 DEF SrvType, Sock
  <2>4. k \in CallType /\ k.pc = "bind"
    BY <1>2 DEF CallType
  <2>5. srv[p].poll = {}
    BY <1>1, <1>2, <1>3 DEF SrvShape, SrvType
  <2> HIDE DEF s, k
  <2>6. SrvShape(p)'
    BY <1>1, <1>3, <2>1, <2>2, <2>3, <2>4, <2>5 DEF SrvShape, At, Binding
  <2>7. \A m \in Fds : Holds(s, m) <=> m = Lowest(p)
    BY <2>3 DEF Holds
  <2>8. ~IsAt(k, s)
    BY <2>3, <2>4 DEF IsAt
  <2>9. QED
    BY <1>1, <1>2, <1>3, <1>4, <1>5, <2>2, <2>3, <2>4, <2>6, <2>7, <2>8, SrvStepTo
    DEF SrvPcs, Binding
<1>6. ASSUME srv' = [srv EXCEPT ![p].sock = NoSock, ![p].state = "idle"],
             UNCHANGED <<fd, call>>
      PROVE  IInv'
  <2> DEFINE s == [srv[p] EXCEPT !.sock = NoSock, !.state = "idle"]
  <2>1. /\ srv' = [srv EXCEPT ![p] = s] /\ srv'[p] = s
        /\ call' = [call EXCEPT ![p] = call[p]] /\ call'[p] = call[p]
    BY <1>2, <1>6
  <2>2. /\ s \in SrvType /\ s.init = srv[p].init /\ s.sock = NoSock
        /\ s.poll = srv[p].poll /\ s.state = "idle" /\ s.type = srv[p].type
    BY <1>2 DEF SrvType, Sock
  <2>3. srv[p].poll = {}
    BY <1>1, <1>2, <1>3 DEF SrvShape, SrvType
  <2> HIDE DEF s
  <2>4. SrvShape(p)'
    BY <1>1, <2>1, <2>2, <2>3 DEF SrvShape, At, Binding
  <2>5. \A m \in Fds : Holds(s, m) <=> Holds(srv[p], m)
    BY <1>3, <2>2 DEF Holds
  <2>6. ~IsAt(call[p], s)
    BY <1>1, <2>2 DEF IsAt
  <2>7. QED
    BY <1>1, <1>2, <1>4, <1>6, <2>1, <2>2, <2>4, <2>5, <2>6, SrvStepTo DEF SrvPcs
<1>7. QED
  BY <1>5, <1>6 DEF UnixListen

LEMMA UnixBindStep ==
  ASSUME IInv, NEW p \in Procs, UnixBind(p)
  PROVE  IInv'
<1>1. /\ call[p].pc = "bind" /\ SrvShape(p) /\ TypeOK
      /\ call \in [Procs -> CallType] /\ call[p] \in CallType
      /\ srv' = [srv EXCEPT ![p] = srv[p]] /\ srv[p] \in SrvType
      /\ path \in PathType /\ UNCHANGED <<fd, own, con, srv>>
  BY SrvFacts DEF UnixBind, At
<1>2. srv[p].sock # NoSock /\ srv[p].state = "idle" /\ srv[p].type = "unix"
  BY <1>1 DEF SrvShape, Binding
<1>3. ASSUME NEW pc \in {"listen", "bind failed"}, GoTo(p, pc), path' \in PathType,
             \/ pc = "bind failed" /\ path' = path
             \/ /\ pc = "listen" /\ ~path.exists
                /\ path' = [exists |-> TRUE, by |-> p, stale |-> FALSE]
      PROVE  IInv'
  <2> DEFINE k == [call[p] EXCEPT !.pc = pc]
  <2>1. call' = [call EXCEPT ![p] = k] /\ call'[p] = k
    BY <1>1, <1>3 DEF GoTo
  <2>2. k \in CallType /\ k.pc = pc
    BY <1>1, <1>3 DEF CallType
  <2> HIDE DEF k
  <2>3. SrvShape(p)'
    BY <1>1, <1>2, <2>1, <2>2 DEF SrvShape, At, Binding
  <2>4. ~IsAt(call[p], srv[p]) /\ (IsAt(k, srv[p]) <=> pc = "listen")
    BY <1>1, <1>2, <2>2 DEF IsAt
  <2>5. QED
    BY <1>1, <1>3, <2>1, <2>2, <2>3, <2>4, SrvStepTo DEF SrvPcs, Binding
<1>4. [exists |-> TRUE, by |-> p, stale |-> FALSE] \in PathType
  BY DEF PathType
<1>5. QED
  BY <1>1, <1>3, <1>4 DEF UnixBind

LEMMA UnixReadyStep ==
  ASSUME IInv, NEW p \in Procs, UnixReady(p)
  PROVE  IInv'
<1>1. /\ call[p].pc = "listen" /\ SrvShape(p) /\ TypeOK
      /\ call \in [Procs -> CallType] /\ call[p] \in CallType
      /\ srv \in [Procs -> SrvType] /\ srv[p] \in SrvType
      /\ path' \in PathType /\ UNCHANGED <<fd, own, con, path>>
  BY SrvFacts DEF UnixReady, At
<1>2. srv[p].sock # NoSock /\ srv[p].state = "idle" /\ srv[p].type = "unix" /\ srv[p].init
  BY <1>1 DEF SrvShape, Binding
<1>3. ASSUME srv' = [srv EXCEPT ![p].state = "listening"], Return(p)
      PROVE  IInv'
  <2> DEFINE s == [srv[p] EXCEPT !.state = "listening"]
  <2>1. /\ srv' = [srv EXCEPT ![p] = s] /\ srv'[p] = s
        /\ call' = [call EXCEPT ![p] = Idle] /\ call'[p] = Idle
    BY <1>1, <1>3 DEF Return
  <2>2. Idle \in CallType /\ Idle.pc = "idle"
    BY DEF CallType, Idle
  <2>3. /\ s \in SrvType /\ s.init = srv[p].init /\ s.sock = srv[p].sock
        /\ s.poll = srv[p].poll /\ s.state = "listening" /\ s.type = "unix"
    BY <1>1, <1>2 DEF SrvType
  <2> HIDE DEF s
  <2>4. SrvShape(p)'
    BY <1>1, <1>2, <2>1, <2>2, <2>3 DEF SrvShape, At, Binding
  <2>5. \A m \in Fds : Holds(s, m) <=> Holds(srv[p], m)
    BY <1>2, <2>3 DEF Holds
  <2>6. IsAt(Idle, s) /\ IsAt(call[p], srv[p])
    BY <1>1, <2>3 DEF IsAt
  <2>7. QED
    BY <1>1, <2>1, <2>2, <2>3, <2>4, <2>5, <2>6, SrvStepTo DEF SrvPcs, Binding
<1>4. ASSUME GoTo(p, "listen failed"), UNCHANGED srv
      PROVE  IInv'
  <2> DEFINE k == [call[p] EXCEPT !.pc = "listen failed"]
  <2>1. call' = [call EXCEPT ![p] = k] /\ call'[p] = k
    BY <1>1, <1>4 DEF GoTo
  <2>2. k \in CallType /\ k.pc = "listen failed"
    BY <1>1 DEF CallType
  <2> HIDE DEF k
  <2>3. srv' = [srv EXCEPT ![p] = srv[p]]
    BY <1>1, <1>4
  <2>4. SrvShape(p)'
    BY <1>1, <1>2, <1>4, <2>1, <2>2 DEF SrvShape, At, Binding
  <2>5. IsAt(k, srv[p]) /\ IsAt(call[p], srv[p])
    BY <1>1, <2>2 DEF IsAt
  <2>6. QED
    BY <1>1, <1>4, <2>1, <2>2, <2>3, <2>4, <2>5, SrvStepTo DEF SrvPcs, Binding
<1>5. QED
  BY <1>3, <1>4 DEF UnixReady

LEMMA UnixFailedStep ==
  ASSUME IInv, NEW p \in Procs, UnixFailed(p)
  PROVE  IInv'
<1> DEFINE s == [srv[p] EXCEPT !.state = "failed"]
<1>1. /\ call[p].pc \in {"bind failed", "listen failed"} /\ SrvShape(p) /\ TypeOK
      /\ call \in [Procs -> CallType] /\ call[p] \in CallType
      /\ srv \in [Procs -> SrvType] /\ srv[p] \in SrvType
      /\ path' \in PathType /\ UNCHANGED <<own, con, path>>
      /\ Release(p, srv[p].sock) /\ srv' = [srv EXCEPT ![p] = s] /\ srv'[p] = s
  BY SrvFacts DEF UnixFailed
<1>2. /\ srv[p].sock \in Fds /\ srv[p].state = "idle" /\ srv[p].type = "unix" /\ srv[p].init
  <2>1. srv[p].sock # NoSock /\ srv[p].state = "idle" /\ srv[p].type = "unix"
    BY <1>1 DEF SrvShape, Binding
  <2>2. srv[p].sock \in Fds
    BY <1>1, <2>1 DEF SrvType, Sock
  <2>3. srv[p].init
    BY <1>1, <2>1 DEF SrvShape
  <2>4. QED
    BY <2>1, <2>2, <2>3
<1>3. /\ s \in SrvType /\ s.init = srv[p].init /\ s.sock = srv[p].sock
      /\ s.poll = srv[p].poll /\ s.state = "failed" /\ s.type = "unix"
  BY <1>1, <1>2 DEF SrvType
<1>4. PICK k \in CallType :
        /\ call' = [call EXCEPT ![p] = k]
        /\ k.pc = IF call[p].pc = "listen failed" THEN "unlink" ELSE "idle"
  <2>1. CASE call[p].pc = "listen failed"
    <3> DEFINE k == [call[p] EXCEPT !.pc = "unlink"]
    <3>1. call' = [call EXCEPT ![p] = k]
      BY <1>1, <2>1 DEF UnixFailed, At, GoTo
    <3>2. k \in CallType /\ k.pc = "unlink"
      BY <1>1 DEF CallType
    <3> HIDE DEF k
    <3>3. QED
      BY <2>1, <3>1, <3>2
  <2>2. CASE call[p].pc # "listen failed"
    <3>1. call' = [call EXCEPT ![p] = Idle]
      BY <2>2 DEF UnixFailed, At, Return
    <3>2. Idle \in CallType /\ Idle.pc = "idle"
      BY DEF CallType, Idle
    <3>3. QED
      BY <2>2, <3>1, <3>2
  <2>3. QED
    BY <2>1, <2>2
<1>5. call'[p] = k
  BY <1>1, <1>4
<1> HIDE DEF s
<1>6. SrvShape(p)'
  BY <1>1, <1>2, <1>3, <1>4, <1>5 DEF SrvShape, At, Binding
<1>7. Holds(srv[p], srv[p].sock) /\ \A m \in Fds : ~Holds(s, m)
  BY <1>2, <1>3 DEF Holds
<1>8. IsAt(k, s) <=> IsAt(call[p], srv[p])
  BY <1>1, <1>2, <1>3, <1>4 DEF IsAt
<1>9. QED
  BY <1>1, <1>2, <1>3, <1>4, <1>6, <1>7, <1>8, SrvStepTo DEF SrvPcs, Binding

LEMMA UnlinkStep ==
  ASSUME IInv, NEW p \in Procs, Unlink(p)
  PROVE  IInv'
<1>1. /\ call[p].pc = "unlink" /\ SrvShape(p)
      /\ call \in [Procs -> CallType] /\ call' = [call EXCEPT ![p] = Idle]
      /\ srv' = [srv EXCEPT ![p] = srv[p]] /\ srv[p] \in SrvType
      /\ path \in PathType /\ UNCHANGED <<fd, own, con, srv>>
      /\ path' \in {NoPath, IF path.exists THEN [path EXCEPT !.stale = TRUE] ELSE path}
  <2>1. /\ call[p].pc = "unlink" /\ UNCHANGED <<fd, own, con, srv>>
        /\ path' \in {NoPath, IF path.exists THEN [path EXCEPT !.stale = TRUE] ELSE path}
        /\ call' = [call EXCEPT ![p] = Idle]
    BY DEF Unlink, At, Return
  <2>2. QED
    BY <2>1, SrvFacts
<1>2. Idle \in CallType /\ Idle.pc = "idle" /\ call'[p] = Idle
  <2>1. Idle \in CallType /\ Idle.pc = "idle"
    BY DEF CallType, Idle
  <2>2. QED
    BY <1>1, <2>1
<1>3. SrvShape(p)'
  <2>1. srv'[p] = srv[p] /\ call[p].pc \notin Binding /\ Idle.pc \notin Binding
    BY <1>1, <1>2 DEF Binding
  <2>2. QED
    BY <1>1, <1>2, <2>1 DEF SrvShape, At
<1>4. srv[p].state # "listening" /\ ~IsAt(Idle, srv[p]) /\ IsAt(call[p], srv[p])
  <2>1. srv[p].state # "listening"
    BY <1>1 DEF SrvShape, At
  <2>2. QED
    BY <1>1, <1>2, <2>1 DEF IsAt
<1>5. path = [exists |-> TRUE, by |-> p, stale |-> FALSE]
  BY <1>4, SrvFacts
<1>6. path.exists /\ path.by = p
  BY <1>5
<1>7. path' \in PathType /\ (path'.exists => path'.stale)
  <2>1. CASE path' = NoPath
    BY <2>1 DEF NoPath, PathType
  <2>2. CASE path' = [path EXCEPT !.stale = TRUE]
    BY <1>1, <2>2 DEF PathType
  <2>3. QED
    BY <1>1, <1>6, <2>1, <2>2
<1>8. QED
  BY <1>1, <1>2, <1>3, <1>4, <1>6, <1>7, SrvStepTo DEF SrvPcs
(* The actions on l_poll *)
LEMMA AcceptPollStep ==
  ASSUME IInv, NEW p \in Procs, AcceptPollInit(p) \/ AcceptPollFree(p)
  PROVE  IInv'
<1>1. /\ call[p].pc = "idle" /\ SrvShape(p)
      /\ call' = [call EXCEPT ![p] = call[p]] /\ call[p] \in CallType
      /\ srv \in [Procs -> SrvType] /\ srv[p] \in SrvType
      /\ path' \in PathType /\ UNCHANGED <<fd, own, con, path, call>>
  BY SrvFacts DEF AcceptPollInit, AcceptPollFree, At
<1>2. PICK poll \in SUBSET Fds :
        /\ poll \subseteq {srv[p].sock} /\ (poll # {} => srv[p].state = "listening")
        /\ srv' = [srv EXCEPT ![p].poll = poll]
  <2>1. CASE AcceptPollInit(p)
    <3>1. srv[p].sock \in Fds
      BY <1>1, <2>1 DEF AcceptPollInit, SrvShape, SrvType, Sock
    <3>2. srv[p].poll \subseteq {srv[p].sock}
      BY <1>1 DEF SrvShape
    <3>3. srv[p].state = "listening"
          /\ srv' = [srv EXCEPT ![p].poll = srv[p].poll \cup {srv[p].sock}]
      BY <2>1 DEF AcceptPollInit
    <3>4. QED
      BY <3>1, <3>2, <3>3
  <2>2. CASE AcceptPollFree(p)
    BY <2>2 DEF AcceptPollFree
  <2>3. QED
    BY <2>1, <2>2
<1> DEFINE s == [srv[p] EXCEPT !.poll = poll]
<1>3. srv' = [srv EXCEPT ![p] = s] /\ srv'[p] = s /\ call'[p] = call[p]
  BY <1>1, <1>2
<1>4. /\ s \in SrvType /\ s.init = srv[p].init /\ s.sock = srv[p].sock
      /\ s.poll = poll /\ s.state = srv[p].state /\ s.type = srv[p].type
  BY <1>1, <1>2 DEF SrvType
<1> HIDE DEF s
<1>5. SrvShape(p)'
  BY <1>1, <1>2, <1>3, <1>4 DEF SrvShape, At
<1>6. \A m \in Fds : Holds(s, m) <=> Holds(srv[p], m)
  BY <1>4 DEF Holds
<1>7. IsAt(call[p], s) <=> IsAt(call[p], srv[p])
  BY <1>4 DEF IsAt
<1>8. QED
  BY <1>1, <1>3, <1>4, <1>5, <1>6, <1>7, SrvStepTo DEF SrvPcs

LEMMA SrvCloseStep ==
  ASSUME ~ClosesFailed, IInv, NEW p \in Procs, NEW unlink \in BOOLEAN,
         SrvClose(p, unlink)
  PROVE  IInv'
<1>1. /\ call[p].pc = "idle" /\ SrvShape(p)
      /\ call \in [Procs -> CallType] /\ call[p] \in CallType
      /\ srv \in [Procs -> SrvType] /\ srv[p] \in SrvType
      /\ path \in PathType
  BY SrvFacts DEF SrvClose, At
<1>2. /\ srv' = [srv EXCEPT ![p] = NoSrv] /\ srv'[p] = NoSrv
      /\ UNCHANGED <<own, con>>
      /\ unlink => srv[p].type = "unix"
      /\ ~(srv[p].type = "unix" /\ srv[p].state = "failed")
      /\ IF srv[p].sock = NoSock THEN UNCHANGED fd ELSE Release(p, srv[p].sock)
  BY <1>1 DEF SrvClose
<1>3. /\ NoSrv \in SrvType /\ NoSrv.sock = NoSock /\ NoSrv.poll = {}
      /\ NoSrv.state = "idle"
  BY DEF NoSrv, SrvType, Sock, Types
<1>4. /\ NoSock \notin Fds /\ \A m \in Fds : ~Holds(NoSrv, m)
      /\ srv[p].sock # NoSock => srv[p].sock \in Fds /\ Holds(srv[p], srv[p].sock)
      /\ srv[p].sock = NoSock => \A m \in Fds : ~Holds(srv[p], m)
  BY <1>1, <1>2, <1>3 DEF Holds, SrvType, Sock, Fds, NoSock
<1>5. \/ fd' = fd /\ \A m \in Fds : Holds(NoSrv, m) <=> Holds(srv[p], m)
      \/ /\ srv[p].sock \in Fds /\ Holds(srv[p], srv[p].sock)
         /\ Release(p, srv[p].sock) /\ \A m \in Fds : ~Holds(NoSrv, m)
  BY <1>2, <1>4
<1>6. IsAt(call[p], srv[p]) => path = [exists |-> TRUE, by |-> p, stale |-> FALSE]
  BY SrvFacts
<1>7. IsAt(call[p], srv[p]) <=> srv[p].type = "unix" /\ srv[p].state = "listening"
  BY <1>1 DEF IsAt
<1>8. CASE unlink /\ srv[p].sock # NoSock
  <2> DEFINE k == [call[p] EXCEPT !.pc = "unlink"]
  <2>1. call' = [call EXCEPT ![p] = k] /\ call'[p] = k /\ path' = path
    BY <1>1, <1>8 DEF SrvClose, GoTo
  <2>2. k \in CallType /\ k.pc = "unlink"
    BY <1>1 DEF CallType
  <2> HIDE DEF k
  <2>3. srv[p].state = "listening" /\ srv[p].type = "unix"
    BY <1>1, <1>2, <1>8 DEF SrvShape, SrvType, Binding
  <2>4. SrvShape(p)'
    BY <1>2, <1>3, <2>1, <2>2 DEF SrvShape, At, Binding
  <2>5. IsAt(k, NoSrv) /\ IsAt(call[p], srv[p])
    BY <1>7, <2>2, <2>3 DEF IsAt
  <2>6. QED
    BY <1>1, <1>2, <1>3, <1>5, <2>1, <2>2, <2>4, <2>5, SrvStepTo DEF SrvPcs
<1>9. CASE ~(unlink /\ srv[p].sock # NoSock)
  <2>1. /\ call' = [call EXCEPT ![p] = call[p]] /\ call'[p] = call[p]
        /\ path' = IF srv[p].type = "unix" /\ srv[p].state = "listening" /\ path.by = p
                   THEN [path EXCEPT !.stale = path.exists] ELSE path
    BY <1>1, <1>9 DEF SrvClose
  <2>2. SrvShape(p)'
    BY <1>1, <1>2, <1>3, <2>1 DEF SrvShape, At, Binding
  <2>3. ~IsAt(call[p], NoSrv)
    BY <1>1, <1>3 DEF IsAt
  <2>4. CASE srv[p].type = "unix" /\ srv[p].state = "listening" /\ path.by = p
    <3>1. path' \in PathType /\ path'.exists = path.exists /\ path'.stale = path.exists
      BY <1>1, <2>1, <2>4 DEF PathType
    <3>2. QED
      BY <1>1, <1>2, <1>3, <1>5, <2>1, <2>2, <2>3, <2>4, <3>1, SrvStepTo DEF SrvPcs
  <2>5. CASE ~(srv[p].type = "unix" /\ srv[p].state = "listening" /\ path.by = p)
    <3>1. ~IsAt(call[p], srv[p])
      BY <1>6, <1>7, <2>5
    <3>2. path' = path
      BY <2>1, <2>5
    <3>3. QED
      BY <1>1, <1>2, <1>3, <1>5, <2>1, <2>2, <2>3, <3>1, <3>2, SrvStepTo DEF SrvPcs
  <2>6. QED
    BY <2>4, <2>5
<1>10. QED
  BY <1>8, <1>9
-----------------------------------------------------------------------------
(***************************************************************************)
(* Crashes, files that are cleaned up, and the theorems                    *)
(***************************************************************************)
LEMMA CrashStep ==
  ASSUME IInv, NEW p \in Procs, Crash(p)
  PROVE  IInv'
<1>0. /\ TypeOK /\ HeldOnce /\ \A q \in Procs : ConShape(q) /\ SrvShape(q)
      /\ PathShape
  BY DEF IInv
<1>1. /\ fd \in [Procs -> [Fds -> Owner]] /\ own \in [Procs -> Sock]
      /\ con \in [Procs -> ConType] /\ srv \in [Procs -> SrvType]
      /\ call \in [Procs -> CallType] /\ path \in PathType
  BY <1>0 DEF TypeOK, Owner, ConType, SrvType, CallType, PathType
<1>2. /\ NoCon \in ConType /\ NoCon.sock = NoSock
      /\ NoCon.recv = NoSock /\ NoCon.send = NoSock
  BY DEF NoCon, ConType, Sock, Types
<1>3. /\ NoSrv \in SrvType /\ NoSrv.sock = NoSock /\ NoSrv.poll = {}
      /\ NoSrv.state = "idle"
  BY DEF NoSrv, SrvType, Sock, Types
<1>4. Idle \in CallType /\ Idle.pc = "idle"
  BY DEF CallType, Idle
<1>5. [n \in Fds |-> "free"] \in [Fds -> Owner]
  BY DEF Owner
<1>6. /\ fd' \in [Procs -> [Fds -> Owner]] /\ own' \in [Procs -> Sock]
      /\ con' \in [Procs -> ConType] /\ srv' \in [Procs -> SrvType]
      /\ call' \in [Procs -> CallType]
  BY <1>1, <1>2, <1>3, <1>4, <1>5 DEF Crash, Sock
<1>7. /\ \A m \in Fds : fd'[p][m] = "free"
      /\ own'[p] = NoSock /\ con'[p] = NoCon /\ srv'[p] = NoSrv /\ call'[p] = Idle
      /\ \A q \in Procs : q # p =>
           /\ fd'[q] = fd[q] /\ own'[q] = own[q] /\ con'[q] = con[q]
           /\ srv'[q] = srv[q] /\ call'[q] = call[q]
  BY <1>1 DEF Crash
<1>8. TypeOK'
  <2>1. path' \in PathType
    BY <1>1 DEF Crash, PathType
  <2>2. ASSUME NEW q \in Procs, call'[q].pc \in {"socket", "option", "connect"}
        PROVE  call'[q].left # 0
    <3>1. call[q].pc \in {"socket", "option", "connect"} => call[q].left # 0
      BY <1>0 DEF TypeOK
    <3>2. QED
      BY <1>4, <1>7, <2>2, <3>1
  <2>3. QED
    BY <1>6, <2>1, <2>2 DEF TypeOK, Owner, ConType, SrvType, CallType, PathType
<1>9. HeldOnce'
  <2> SUFFICES ASSUME NEW q \in Procs, NEW m \in Fds
               PROVE  /\ fd'[q][m] = "con" <=> con'[q].sock = m
                      /\ fd'[q][m] = "own" <=> own'[q] = m
                      /\ fd'[q][m] = "srv" <=> Holds(srv'[q], m)
    BY DEF HeldOnce
  <2>1. CASE q = p
    <3>1. ~Holds(NoSrv, m) /\ m # NoSock
      BY <1>3 DEF Holds, Fds, NoSock
    <3>2. QED
      BY <1>2, <1>7, <2>1, <3>1
  <2>2. CASE q # p
    <3>1. /\ fd[q][m] = "con" <=> con[q].sock = m
          /\ fd[q][m] = "own" <=> own[q] = m
          /\ fd[q][m] = "srv" <=> Holds(srv[q], m)
      BY <1>0 DEF HeldOnce
    <3>2. QED
      BY <1>7, <2>2, <3>1
  <2>3. QED
    BY <2>1, <2>2
<1>10. ASSUME NEW q \in Procs PROVE ConShape(q)' /\ SrvShape(q)'
  <2>1. CASE q = p
    BY <1>2, <1>3, <1>4, <1>7, <2>1 DEF ConShape, SrvShape, Connecting, At, Binding
  <2>2. CASE q # p
    BY <1>0, <1>7, <2>2 DEF ConShape, SrvShape, Connecting, At
  <2>3. QED
    BY <2>1, <2>2
<1>11. PathShape'
  <2>1. /\ \A q \in Procs : HasPath(q)' <=> IsAt(call'[q], srv'[q])
        /\ \A q \in Procs : HasPath(q) <=> IsAt(call[q], srv[q])
    BY DEF HasPath, IsAt
  <2>2. /\ \A q \in Procs :
             IsAt(call[q], srv[q]) => path = [exists |-> TRUE, by |-> q, stale |-> FALSE]
        /\ path.exists /\ ~path.stale => IsAt(call[path.by], srv[path.by])
        /\ path.by \in Procs
    BY <1>0, <1>1, <2>1 DEF PathShape, PathType
  <2>3. ~IsAt(call'[p], srv'[p])
    BY <1>3, <1>4, <1>7 DEF IsAt
  <2>4. CASE path.exists /\ path.by = p
    <3>1. path'.stale /\ path'.by = p
      BY <1>1, <2>4 DEF Crash, PathType
    <3>2. \A q \in Procs : ~IsAt(call'[q], srv'[q])
      <4> SUFFICES ASSUME NEW q \in Procs, IsAt(call'[q], srv'[q]) PROVE FALSE
        OBVIOUS
      <4>1. q # p /\ IsAt(call[q], srv[q])
        BY <1>7, <2>3
      <4>2. path.by = q
        BY <2>2, <4>1
      <4>3. QED
        BY <2>4, <4>1, <4>2
    <3>3. QED
      BY <2>1, <3>1, <3>2 DEF PathShape
  <2>5. CASE ~(path.exists /\ path.by = p)
    <3>1. path' = path
      BY <2>5 DEF Crash
    <3>2. \A q \in Procs : IsAt(call'[q], srv'[q]) => path' = [exists |-> TRUE, by |-> q, stale |-> FALSE]
      BY <1>7, <2>2, <2>3, <3>1
    <3>3. path'.exists /\ ~path'.stale => IsAt(call'[path'.by], srv'[path'.by])
      BY <1>7, <2>2, <2>5, <3>1
    <3>4. QED
      BY <2>1, <2>2, <3>1, <3>2, <3>3 DEF PathShape
  <2>6. QED
    BY <2>4, <2>5
<1>12. QED
  BY <1>8, <1>9, <1>10, <1>11 DEF IInv

LEMMA CleanUpStep ==
  ASSUME IInv, CleanUp
  PROVE  IInv'
<1>0. /\ TypeOK /\ HeldOnce /\ \A q \in Procs : ConShape(q) /\ SrvShape(q)
      /\ PathShape
  BY DEF IInv
<1>1. path.exists /\ path.stale /\ path' = NoPath /\ UNCHANGED <<fd, own, con, srv, call>>
  BY DEF CleanUp
<1>2. NoPath \in PathType /\ NoPath.exists = FALSE
  BY DEF NoPath, PathType
<1>3. TypeOK'
  BY <1>0, <1>1, <1>2 DEF TypeOK, PathType
<1>4. HeldOnce'
  BY <1>0, <1>1 DEF HeldOnce
<1>5. \A q \in Procs : ConShape(q)' /\ SrvShape(q)'
  BY <1>0, <1>1 DEF ConShape, SrvShape, Connecting, At
<1>6. \A q \in Procs : ~HasPath(q) /\ (HasPath(q)' <=> HasPath(q))
  <2> SUFFICES ASSUME NEW q \in Procs PROVE ~HasPath(q) /\ (HasPath(q)' <=> HasPath(q))
    OBVIOUS
  <2>1. HasPath(q) => path = [exists |-> TRUE, by |-> q, stale |-> FALSE]
    BY <1>0 DEF PathShape
  <2>2. HasPath(q) => path.stale = FALSE
    BY <2>1
  <2>3. HasPath(q)' <=> HasPath(q)
    BY <1>1 DEF HasPath
  <2>4. QED
    BY <1>1, <2>2, <2>3
<1>7. PathShape'
  BY <1>1, <1>2, <1>6 DEF PathShape
<1>8. QED
  BY <1>3, <1>4, <1>5, <1>7 DEF IInv

LEMMA StutterStep == IInv /\ UNCHANGED vars => IInv'
<1> SUFFICES ASSUME IInv, UNCHANGED vars PROVE IInv'
  OBVIOUS
<1>1. /\ fd' = fd /\ own' = own /\ con' = con /\ srv' = srv /\ path' = path
      /\ call' = call
  BY DEF vars
<1>2. TypeOK' <=> TypeOK
  BY <1>1 DEF TypeOK
<1>3. HeldOnce' <=> HeldOnce
  BY <1>1 DEF HeldOnce
<1>4. \A p \in Procs : (ConShape(p)' <=> ConShape(p)) /\ (SrvShape(p)' <=> SrvShape(p))
  BY <1>1 DEF ConShape, SrvShape, Connecting, At
<1>5. PathShape' <=> PathShape
  BY <1>1 DEF PathShape, HasPath
<1>6. QED
  BY <1>2, <1>3, <1>4, <1>5 DEF IInv

(* Every step of the processes and of who cleans up keeps the invariant, if *)
(* no application closes a unix server whose listen failed.                *)
LEMMA NextIInv == ~ClosesFailed /\ IInv /\ [Next]_vars => IInv'
<1> SUFFICES ASSUME ~ClosesFailed, IInv, [Next]_vars PROVE IInv'
  OBVIOUS
<1>1. CASE CleanUp
  BY <1>1, CleanUpStep
<1>2. CASE UNCHANGED vars
  BY <1>2, StutterStep
<1>3. ASSUME NEW p \in Procs,
             \/ OwnOpen(p) \/ OwnClose(p)
             \/ \E type \in Types : ConInit(p, type) \/ SrvInit(p, type)
             \/ \E timed \in BOOLEAN : ConnectCall(p, timed)
             \/ ConnectSocket(p) \/ ConnectOption(p) \/ ConnectTry(p)
             \/ Accept(p) \/ ConClose(p)
             \/ Listen(p) \/ UnixListen(p) \/ UnixBind(p) \/ UnixReady(p)
             \/ UnixFailed(p) \/ Unlink(p)
             \/ AcceptPollInit(p) \/ AcceptPollFree(p)
             \/ \E unlink \in BOOLEAN : SrvClose(p, unlink)
             \/ Crash(p)
      PROVE  IInv'
  BY <1>3, OwnStep, ConInitStep, SrvInitStep, ConnectCallStep, ConnectSocketStep,
     ConnectOptionStep, ConnectTryStep, AcceptStep, ConCloseStep, ListenStep,
     UnixListenStep, UnixBindStep, UnixReadyStep, UnixFailedStep, UnlinkStep,
     AcceptPollStep, SrvCloseStep, CrashStep
<1>4. QED
  BY <1>1, <1>2, <1>3 DEF Next

(* The inductive invariant holds of every behaviour of such applications.  *)
THEOREM Invariance == ASSUME ~ClosesFailed PROVE Spec => []IInv
<1>1. IInv /\ [Next]_vars => IInv'
  BY NextIInv
<1>2. QED
  BY InitIInv, <1>1, PTL DEF Spec

(* TypeOK: the types, and con_retr bounds the attempts of every connect.   *)
THEOREM TypeCorrect == ASSUME ~ClosesFailed PROVE Spec => []TypeOK
<1>1. IInv => TypeOK
  BY DEF IInv
<1>2. QED
  BY <1>1, Invariance, PTL

(* HeldOnce: whatever nxs_net_connect2, accept, listen and the close        *)
(* functions go through, no descriptor is lost, closed twice or closed for *)
(* somebody else.                                                          *)
THEOREM NothingLeaked == ASSUME ~ClosesFailed PROVE Spec => []HeldOnce
<1>1. IInv => HeldOnce
  BY DEF IInv
<1>2. QED
  BY <1>1, Invariance, PTL

(* Ready: outside a call a connection has a blocking socket that both of its*)
(* polls watch, or nothing.                                                *)
THEOREM ConnectionReady == ASSUME ~ClosesFailed PROVE Spec => []Ready
<1>1. IInv => Ready
  <2> SUFFICES ASSUME IInv, NEW p \in Procs
               PROVE  /\ At(p, "idle") => con[p].recv = con[p].sock /\ con[p].send = con[p].sock
                      /\ At(p, "idle") /\ con[p].sock # NoSock => con[p].block
                      /\ srv[p].poll \subseteq {srv[p].sock}
    BY DEF Ready
  <2>1. ConShape(p) /\ SrvShape(p)
    BY DEF IInv
  <2>2. At(p, "idle") => ~Connecting(p)
    BY DEF At, Connecting
  <2>3. QED
    BY <2>1, <2>2 DEF ConShape, SrvShape
<1>2. QED
  BY <1>1, Invariance, PTL

(* PathRight: the file of a unix socket leads to who        *)
(* listens there, and a listen that fails leaves none.                     *)
THEOREM PathReachable == ASSUME ~ClosesFailed PROVE Spec => []PathRight
<1>1. IInv => PathRight
  <2> SUFFICES ASSUME IInv PROVE PathRight
    OBVIOUS
  <2>1. PathShape
    BY DEF IInv
  <2>2. ASSUME NEW p \in Procs, srv[p].type = "unix", srv[p].state = "listening"
        PROVE  path.exists /\ path.by = p
    <3>1. path = [exists |-> TRUE, by |-> p, stale |-> FALSE]
      BY <2>1, <2>2 DEF PathShape, HasPath
    <3>2. QED
      BY <3>1
  <2>3. NoStalePath
    BY <2>1 DEF PathShape, HasPath, NoStalePath
  <2>4. QED
    BY <2>2, <2>3 DEF PathRight, Reachable
<1>2. QED
  BY <1>1, Invariance, PTL
=============================================================================

------------------------------- MODULE NetSock -------------------------------
(***************************************************************************)
(* nxs-net: the descriptors of connections and listening sockets, for TCP  *)
(* and for unix sockets, and the files of unix sockets.                    *)
(*                                                                         *)
(* Each process has one server (nxs_net_server_t, nxs_net_unix_server_t);  *)
(* some have one connection (nxs_net_connect_t), and one descriptor of     *)
(* their own, opened and closed at any time, in a signal handler too.      *)
(* The kernel gives out the lowest number that is free.  All unix servers  *)
(* use the same path.  What the peer answers is left open.                 *)
(***************************************************************************)
EXTENDS Integers

CONSTANTS
  Procs,
  Talkers,       (* the processes that use connections                     *)
  MaxFd,         (* descriptors are numbered 0 .. MaxFd                    *)
  Attempts,      (* con_retr, times the addresses that getaddrinfo finds   *)
  ClosesFailed   (* an application closes a unix server whose listen failed*)

ASSUME NetSockAssumption ==
  /\ Procs # {} /\ Talkers \subseteq Procs
  /\ MaxFd \in Nat /\ Attempts \in Nat \ {0} /\ ClosesFailed \in BOOLEAN

VARIABLES
  fd,    (* the kernel's table: whose socket or file a number is           *)
  own,   (* the descriptor of the application itself                       *)
  con,   (* nxs_net_connect_t                                              *)
  srv,   (* the server                                                     *)
  path,  (* the file of the unix socket                                    *)
  call   (* the call in progress                                           *)

vars == <<fd, own, con, srv, path, call>>

Fds == 0 .. MaxFd
NoSock == -1   (* NXS_NET_INIT_SOCK; also "no poll" *)
Types == {"inet", "unix"}

(* block: the socket is in blocking mode.  recv and send: the descriptor   *)
(* that poll_recv and poll_send watch.                                     *)
NoCon == [init |-> FALSE, type |-> "inet", sock |-> NoSock, block |-> TRUE,
          recv |-> NoSock, send |-> NoSock]

(* poll: the descriptors that l_poll watches *)
NoSrv == [init |-> FALSE, type |-> "inet", sock |-> NoSock, poll |-> {},
          state |-> "idle"]

(* by: who made the file; stale: it was left behind by who made it *)
NoPath == [exists |-> FALSE, by |-> CHOOSE p \in Procs : TRUE, stale |-> FALSE]

Idle == [pc |-> "idle", left |-> 0, timed |-> FALSE]

Init ==
  /\ fd = [p \in Procs |-> [n \in Fds |-> "free"]]
  /\ own = [p \in Procs |-> NoSock]
  /\ con = [p \in Procs |-> NoCon]
  /\ srv = [p \in Procs |-> NoSrv]
  /\ path = NoPath
  /\ call = [p \in Procs |-> Idle]
-----------------------------------------------------------------------------
(***************************************************************************)
(* Descriptors                                                             *)
(***************************************************************************)
Unused(p) == {n \in Fds : fd[p][n] = "free"}
Lowest(p) == CHOOSE n \in Unused(p) : \A m \in Unused(p) : n <= m

(* A descriptor for who; the call that needs one fails when there is none. *)
Take(p, who) == Unused(p) # {} /\ fd' = [fd EXCEPT ![p][Lowest(p)] = who]

(* close(2), of whatever has that number *)
Release(p, n) == fd' = [fd EXCEPT ![p][n] = "free"]

OwnOpen(p) ==
  /\ p \in Talkers /\ own[p] = NoSock
  /\ Take(p, "own") /\ own' = [own EXCEPT ![p] = Lowest(p)]
  /\ UNCHANGED <<con, srv, path, call>>

OwnClose(p) ==
  /\ own[p] # NoSock
  /\ Release(p, own[p]) /\ own' = [own EXCEPT ![p] = NoSock]
  /\ UNCHANGED <<con, srv, path, call>>

At(p, point) == call[p].pc = point
GoTo(p, point) == call' = [call EXCEPT ![p].pc = point]
Return(p) == call' = [call EXCEPT ![p] = Idle]
-----------------------------------------------------------------------------
(***************************************************************************)
(* Connections                                                             *)
(***************************************************************************)

(* The two polls of a connection that is established *)
Watched(c, n) == [c EXCEPT !.sock = n, !.block = TRUE, !.recv = n, !.send = n]
Unwatched(c) == [c EXCEPT !.recv = NoSock, !.send = NoSock]

(* nxs_net_connect_init, nxs_net_connect_out_init and their unix forms *)
ConInit(p, type) ==
  /\ p \in Talkers
  /\ At(p, "idle") /\ ~con[p].init
  /\ con' = [con EXCEPT ![p] = [NoCon EXCEPT !.init = TRUE, !.type = type]]
  /\ UNCHANGED <<fd, own, srv, path, call>>

(* nxs_net_connect, nxs_net_connect2 (with time-out) and, with one attempt, *)
(* nxs_net_unix_connect.  They refuse a connection that is open.  The name *)
(* may have no address.                                                    *)
ConnectCall(p, timed) ==
  /\ At(p, "idle") /\ con[p].init /\ con[p].sock = NoSock
  /\ timed => con[p].type = "inet"
  /\ con' = [con EXCEPT ![p] = Unwatched(@)]
  /\ \/ call' = [call EXCEPT ![p] =
                   [pc |-> "socket", timed |-> timed,
                    left |-> IF con[p].type = "inet" THEN Attempts ELSE 1]]
     \/ con[p].type = "inet" /\ UNCHANGED call
  /\ UNCHANGED <<fd, own, srv, path>>

ConnectSocket(p) ==
  /\ At(p, "socket")
  /\ \/ /\ Take(p, "con")
        /\ con' = [con EXCEPT ![p].sock = Lowest(p), ![p].block = TRUE]
        /\ GoTo(p, IF call[p].timed THEN "option" ELSE "connect")
     \/ /\ con' = [con EXCEPT ![p].sock = NoSock]
        /\ Return(p) /\ UNCHANGED fd
  /\ UNCHANGED <<own, srv, path>>

ConnectGivesUp(p) ==
  /\ Release(p, con[p].sock)
  /\ con' = [con EXCEPT ![p].sock = NoSock]
  /\ Return(p)

(* mutant: an error of fcntl returns at once *)
ConnectOptionKeeps(p) ==
  /\ At(p, "option")
  /\ \/ /\ con' = [con EXCEPT ![p].block = FALSE]
        /\ GoTo(p, "connect") /\ UNCHANGED fd
     \/ /\ con' = [con EXCEPT ![p].sock = NoSock]
        /\ Return(p) /\ UNCHANGED fd
  /\ UNCHANGED <<own, srv, path>>

(* fcntl: O_NONBLOCK *)
ConnectOption(p) ==
  /\ At(p, "option")
  /\ \/ /\ con' = [con EXCEPT ![p].block = FALSE]
        /\ GoTo(p, "connect") /\ UNCHANGED fd
     \/ ConnectGivesUp(p)
  /\ UNCHANGED <<own, srv, path>>

(* A unix socket is connected to a server that listens at the path. *)
Answered(p) ==
  con[p].type = "unix" =>
    path.exists /\ ~path.stale /\ srv[path.by].state = "listening"

(* After an attempt that failed: another one, unless it was the last *)
NextTry(k, last) ==
  IF k.left = last THEN Idle ELSE [k EXCEPT !.pc = "socket", !.left = k.left - 1]

(* mutant: the socket of nxs_net_connect2 stays in non-blocking mode *)
ConnectTryNonblock(p) ==
  /\ At(p, "connect")
  /\ \/ /\ Answered(p)
        /\ con' = [con EXCEPT ![p] = [Watched(@, @.sock) EXCEPT !.block = con[p].block]]
        /\ Return(p) /\ UNCHANGED fd
     \/ /\ Release(p, con[p].sock)
        /\ con' = [con EXCEPT ![p].sock = NoSock]
        /\ call' = [call EXCEPT ![p] = NextTry(call[p], 1)]
     \/ call[p].timed /\ ConnectGivesUp(p)
  /\ UNCHANGED <<own, srv, path>>

(* mutant: one attempt too many *)
ConnectTryOnceMore(p) ==
  /\ At(p, "connect")
  /\ \/ /\ Answered(p)
        /\ con' = [con EXCEPT ![p] = Watched(@, @.sock)]
        /\ Return(p) /\ UNCHANGED fd
     \/ /\ Release(p, con[p].sock)
        /\ con' = [con EXCEPT ![p].sock = NoSock]
        /\ call' = [call EXCEPT ![p] = NextTry(call[p], 0)]
     \/ call[p].timed /\ ConnectGivesUp(p)
  /\ UNCHANGED <<own, srv, path>>

(* connect(2) and, with time-out, nxs_net_check_conn_ready and the end of  *)
(* the non-blocking mode: established; refused or too late, and on to the  *)
(* next address; or given up, as poll or fcntl failed.                     *)
ConnectTry(p) ==
  /\ At(p, "connect")
  /\ \/ /\ Answered(p)
        /\ con' = [con EXCEPT ![p] = Watched(@, @.sock)]
        /\ Return(p) /\ UNCHANGED fd
     \/ /\ Release(p, con[p].sock)
        /\ con' = [con EXCEPT ![p].sock = NoSock]
        /\ call' = [call EXCEPT ![p] = NextTry(call[p], 1)]
     \/ call[p].timed /\ ConnectGivesUp(p)
  /\ UNCHANGED <<own, srv, path>>

(* nxs_net_accept and nxs_net_accept2, which do not look whether the       *)
(* connection is open already: applications close it first.                *)
Accept(p) ==
  /\ At(p, "idle") /\ con[p].init /\ con[p].sock = NoSock
  /\ srv[p].state = "listening" /\ srv[p].type = con[p].type
  /\ \/ Take(p, "con") /\ con' = [con EXCEPT ![p] = Watched(@, Lowest(p))]
     \/ con' = [con EXCEPT ![p].sock = NoSock] /\ UNCHANGED fd
  /\ UNCHANGED <<own, srv, path, call>>

(* nxs_net_connect_close, nxs_net_unix_connect_close: also for a connection *)
(* that was never established, and when close(2) reports an error           *)
ConClose(p) ==
  /\ At(p, "idle") /\ con[p].init
  /\ IF con[p].sock = NoSock THEN UNCHANGED fd ELSE Release(p, con[p].sock)
  /\ con' = [con EXCEPT ![p] = NoCon]
  /\ UNCHANGED <<own, srv, path, call>>
-----------------------------------------------------------------------------
(***************************************************************************)
(* Servers                                                                 *)
(***************************************************************************)

(* nxs_net_server_init, nxs_net_unix_server_init *)
SrvInit(p, type) ==
  /\ At(p, "idle") /\ ~srv[p].init
  /\ srv' = [srv EXCEPT ![p] = [NoSrv EXCEPT !.init = TRUE, !.type = type]]
  /\ UNCHANGED <<fd, own, con, path, call>>

(* nxs_net_listen: an error of socket(2) changes nothing, after an error of *)
(* bind or listen the socket is kept.                                      *)
Listen(p) ==
  /\ At(p, "idle") /\ srv[p].init /\ srv[p].state = "idle" /\ srv[p].type = "inet"
  /\ Take(p, "srv")
  /\ \E state \in {"listening", "failed"} :
       srv' = [srv EXCEPT ![p].sock = Lowest(p), ![p].state = state]
  /\ UNCHANGED <<own, con, path, call>>

(* nxs_net_unix_listen: the socket(2).  After an error it may be called     *)
(* again, as the socket is closed; here an error of socket(2) clears l_sock.*)
UnixListen(p) ==
  /\ At(p, "idle") /\ srv[p].init /\ srv[p].state # "listening" /\ srv[p].type = "unix"
  /\ \/ /\ Take(p, "srv")
        /\ srv' = [srv EXCEPT ![p].sock = Lowest(p), ![p].state = "idle"]
        /\ GoTo(p, "bind")
     \/ /\ srv' = [srv EXCEPT ![p].sock = NoSock, ![p].state = "idle"]
        /\ UNCHANGED <<fd, call>>
  /\ UNCHANGED <<own, con, path>>

(* bind makes the file; when there is one it fails, and may for other reasons*)
UnixBind(p) ==
  /\ At(p, "bind")
  /\ \/ /\ ~path.exists
        /\ path' = [exists |-> TRUE, by |-> p, stale |-> FALSE]
        /\ GoTo(p, "listen")
     \/ GoTo(p, "bind failed") /\ UNCHANGED path
  /\ UNCHANGED <<fd, own, con, srv>>

(* chown, chmod and listen *)
UnixReady(p) ==
  /\ At(p, "listen")
  /\ \/ srv' = [srv EXCEPT ![p].state = "listening"] /\ Return(p)
     \/ GoTo(p, "listen failed") /\ UNCHANGED srv
  /\ UNCHANGED <<fd, own, con, path>>

(* mutant: the file is removed after every error *)
UnixFailedUnlinks(p) ==
  /\ call[p].pc \in {"bind failed", "listen failed"}
  /\ Release(p, srv[p].sock)
  /\ srv' = [srv EXCEPT ![p].state = "failed"]
  /\ GoTo(p, "unlink")
  /\ UNCHANGED <<own, con, path>>

(* An error closes the socket, whose number stays in l_sock, and removes   *)
(* the file unless it was bind that failed.                                *)
UnixFailed(p) ==
  /\ call[p].pc \in {"bind failed", "listen failed"}
  /\ Release(p, srv[p].sock)
  /\ srv' = [srv EXCEPT ![p].state = "failed"]
  /\ IF At(p, "listen failed") THEN GoTo(p, "unlink") ELSE Return(p)
  /\ UNCHANGED <<own, con, path>>

(* unlink(2) removes the file, whoever made it, or fails and leaves it. *)
Unlink(p) ==
  /\ At(p, "unlink")
  /\ path' \in {NoPath, IF path.exists THEN [path EXCEPT !.stale = TRUE] ELSE path}
  /\ Return(p)
  /\ UNCHANGED <<fd, own, con, srv>>

(* nxs_net_accept_poll_init and nxs_net_accept_poll_free, TCP and unix; the *)
(* check in between changes only results                                   *)
AcceptPollInit(p) ==
  /\ At(p, "idle") /\ srv[p].state = "listening"
  /\ srv' = [srv EXCEPT ![p].poll = @ \cup {srv[p].sock}]
  /\ UNCHANGED <<fd, own, con, path, call>>

AcceptPollFree(p) ==
  /\ At(p, "idle") /\ srv[p].init
  /\ srv' = [srv EXCEPT ![p].poll = {}]
  /\ UNCHANGED <<fd, own, con, path, call>>

(* nxs_net_server_close and nxs_net_unix_server_close, which leaves the file;*)
(* nxs_net_unix_server_unlink, which removes it if l_sock is a number       *)
SrvClose(p, unlink) ==
  /\ At(p, "idle") /\ srv[p].init
  /\ unlink => srv[p].type = "unix"
  /\ srv[p].type = "unix" /\ srv[p].state = "failed" => ClosesFailed
  /\ srv' = [srv EXCEPT ![p] = NoSrv]
  /\ IF srv[p].sock = NoSock THEN UNCHANGED fd ELSE Release(p, srv[p].sock)
  /\ IF unlink /\ srv[p].sock # NoSock
     THEN GoTo(p, "unlink") /\ UNCHANGED path
     ELSE /\ path' = IF srv[p].type = "unix" /\ srv[p].state = "listening" /\ path.by = p
                     THEN [path EXCEPT !.stale = path.exists] ELSE path
          /\ UNCHANGED call
  /\ UNCHANGED <<own, con>>
-----------------------------------------------------------------------------
(* A process ends, at any time, and is started again. *)
Crash(p) ==
  /\ fd' = [fd EXCEPT ![p] = [n \in Fds |-> "free"]]
  /\ own' = [own EXCEPT ![p] = NoSock]
  /\ con' = [con EXCEPT ![p] = NoCon]
  /\ srv' = [srv EXCEPT ![p] = NoSrv]
  /\ path' = IF path.exists /\ path.by = p THEN [path EXCEPT !.stale = TRUE] ELSE path
  /\ call' = [call EXCEPT ![p] = Idle]

(* Someone removes a file that was left behind. *)
CleanUp ==
  /\ path.exists /\ path.stale
  /\ path' = NoPath
  /\ UNCHANGED <<fd, own, con, srv, call>>

Next ==
  \/ \E p \in Procs :
       \/ OwnOpen(p) \/ OwnClose(p)
       \/ \E type \in Types : ConInit(p, type) \/ SrvInit(p, type)
       \/ \E timed \in BOOLEAN : ConnectCall(p, timed)
       \/ ConnectSocket(p) \/ ConnectOption(p) \/ ConnectTry(p)
       \/ Accept(p) \/ ConClose(p)
       \/ Listen(p) \/ UnixListen(p) \/ UnixBind(p) \/ UnixReady(p)
       \/ UnixFailed(p) \/ Unlink(p)
       \/ AcceptPollInit(p) \/ AcceptPollFree(p)
       \/ \E unlink \in BOOLEAN : SrvClose(p, unlink)
       \/ Crash(p)
  \/ CleanUp

Spec == Init /\ [][Next]_vars
-----------------------------------------------------------------------------
(***************************************************************************)
(* Properties                                                              *)
(***************************************************************************)

Sock == Fds \cup {NoSock}

(* The types of the variables; an attempt to connect that is under way is   *)
(* one of those that con_retr allows.                                      *)
TypeOK ==
  /\ fd \in [Procs -> [Fds -> {"free", "own", "con", "srv"}]]
  /\ own \in [Procs -> Sock]
  /\ con \in [Procs -> [init : BOOLEAN, type : Types, sock : Sock,
                        block : BOOLEAN, recv : Sock, send : Sock]]
  /\ srv \in [Procs -> [init : BOOLEAN, type : Types, sock : Sock,
                        poll : SUBSET Fds, state : {"idle", "listening", "failed"}]]
  /\ path \in [exists : BOOLEAN, by : Procs, stale : BOOLEAN]
  /\ call \in [Procs -> [pc : {"idle", "socket", "option", "connect", "bind",
                               "listen", "bind failed", "listen failed", "unlink"},
                         left : 0 .. Attempts, timed : BOOLEAN]]
  /\ \A p \in Procs :
       call[p].pc \in {"socket", "option", "connect"} => call[p].left # 0

(* The number in l_sock is that of the server's socket: always but after   *)
(* nxs_net_unix_listen has failed.                                         *)
Holds(s, n) == s.sock = n /\ ~(s.type = "unix" /\ s.state = "failed")

(* Whatever fails and whatever is opened and closed meanwhile, a process's *)
(* structures and its open descriptors correspond: no socket is lost, none *)
(* is closed twice and with it what has got its number since.              *)
HeldOnce ==
  \A p \in Procs, n \in Fds :
    /\ fd[p][n] = "con" <=> con[p].sock = n
    /\ fd[p][n] = "own" <=> own[p] = n
    /\ fd[p][n] = "srv" <=> Holds(srv[p], n)

(* nxs-net.c:1007: a server must be closed whether or not a connection was *)
(* established.  That closes nothing of the application's.                 *)
OwnKept == \A p \in Procs : own[p] # NoSock => fd[p][own[p]] = "own"

(* A connection outside a call is either established, with a blocking socket*)
(* (the loops of nxs_net_recv_core and nxs_net_send_core need one) that both*)
(* polls watch, or it has neither socket nor polls.  l_poll watches the    *)
(* listening socket at most.                                               *)
Ready ==
  \A p \in Procs :
    /\ At(p, "idle") => con[p].recv = con[p].sock /\ con[p].send = con[p].sock
    /\ At(p, "idle") /\ con[p].sock # NoSock => con[p].block
    /\ srv[p].poll \subseteq {srv[p].sock}

(* Where a server listens, the path leads to it: no process that fails to  *)
(* listen, closes or ends takes it away.  So no two listen.                *)
Reachable ==
  \A p \in Procs :
    srv[p].type = "unix" /\ srv[p].state = "listening" => path.exists /\ path.by = p

(* A listen that fails leaves no file: one is there only while its maker is *)
(* at it or listens, or because its maker ended, closed without removing it *)
(* or was not allowed to remove it.                                        *)
NoStalePath ==
  path.exists /\ ~path.stale =>
    \/ srv[path.by].type = "unix" /\ srv[path.by].state = "listening"
    \/ call[path.by].pc \in {"listen", "listen failed", "unlink"}

(* The file leads to who listens, and to nobody else. *)
PathRight == Reachable /\ NoStalePath
-----------------------------------------------------------------------------
(***************************************************************************)
(* The inductive invariant: what a call in progress has, whose the path is, *)
(* and the properties                                                      *)
(***************************************************************************)
Binding == {"bind", "listen", "bind failed", "listen failed"}
Connecting(p) == call[p].pc \in {"socket", "option", "connect"}

ConShape(p) ==
  /\ ~Connecting(p) => con[p].recv = con[p].sock /\ con[p].send = con[p].sock
  /\ ~Connecting(p) /\ con[p].sock # NoSock => con[p].block
  /\ At(p, "socket") => con[p].sock = NoSock
  /\ call[p].pc \in {"option", "connect"} => con[p].sock # NoSock
  /\ Connecting(p) => con[p].recv = NoSock /\ con[p].send = NoSock
  /\ Connecting(p) \/ con[p].sock # NoSock => con[p].init

SrvShape(p) ==
  /\ srv[p].poll \subseteq {srv[p].sock}
  /\ srv[p].poll # {} => srv[p].state = "listening"
  /\ srv[p].state = "listening" => srv[p].sock # NoSock
  /\ call[p].pc \in Binding =>
       srv[p].sock # NoSock /\ srv[p].state = "idle" /\ srv[p].type = "unix"
  /\ call[p].pc \notin Binding /\ srv[p].state = "idle" => srv[p].sock = NoSock
  /\ srv[p].sock # NoSock => srv[p].init
  /\ At(p, "unlink") => srv[p].state # "listening"

(* The path is p's, who is at it or listens there. *)
HasPath(p) ==
  \/ call[p].pc \in {"listen", "listen failed", "unlink"}
  \/ srv[p].type = "unix" /\ srv[p].state = "listening"

PathShape ==
  /\ \A p \in Procs : HasPath(p) => path = [exists |-> TRUE, by |-> p, stale |-> FALSE]
  /\ path.exists /\ ~path.stale => HasPath(path.by)

IInv ==
  /\ TypeOK /\ HeldOnce
  /\ \A p \in Procs : ConShape(p) /\ SrvShape(p)
  /\ PathShape
=============================================================================

# Formal models of nxs-fw-libs

nxs-fw-libs is the C library under the nxs-fw server framework: about thirty
modules in `src/core/modules`, from containers and strings to processes,
pipes, network connections and an HTTP front end. It has no threads. What runs
concurrently are *processes* made by fork (they share pipes and shared memory),
*peers* at the two ends of a connection, and *signal handlers* that interrupt the
program between any two instructions. The models here begin with these, for
they are what tests of the library hardly reach.

Contents: [Inventory](#inventory) · [Plan](#plan) · [PipeSem](#nxs-pipesem) ·
[NetFile](#file-transfer-of-nxs-net) ·
[ProcSignal](#signals-and-processes-nxs-proc-nxs_net_accept2) ·
[NetSock](#connections-and-servers-of-nxs-net) ·
[NetStream](#messages-of-nxs-net) ·
[Parts](#the-parts-of-one-process-containers-buffers-poll-sets-the-log-metadata) ·
[Http](#nxs-rest-api-and-nxs-curl) · [Runs](#runs) ·
[Proofs](#proofs) · [Disagreements found](#disagreements-found) ·
[Limits](#what-is-not-modelled-and-why)

## Inventory

| Component | State it keeps | Operations | Works with | Hard behaviour | What makes it correct |
|---|---|---|---|---|---|
| nxs-pipesem | pipe, one lock byte in shared memory, a buffer per end | init, write, read, on, close, free | two processes after fork; nxs-buf | interleaving of the two processes, partial writes, signals, death of either | one user of the pipe at a time, no message without permission, messages arrive whole, a dead peer is noticed |
| nxs-net, file transfer | position in the file, watch, control messages under way | send_file, recv_file and their error classifiers | nxs-fs (inotify), nxs-metadata, nxs-poll | three kinds of cancel, errors on either side, a file edited while it is sent | the peers stay in step, tell the same story, leave no byte behind |
| nxs-net, connections | sockets, polls, framing, error code per connection | connect, listen, accept, accept2, close, send and receive; the same for unix sockets | nxs-poll, nxs-proc, nxs-crypt-gost | time-outs, partial sends, close after every error, signals around accept | every descriptor closed once, a failed call is reported, mask restored |
| nxs-proc | sig_ctx (array of handlers), kernel dispositions and mask, pid and name | signal_set, del, clear, block, unblock, fork, daemonize, term_pid | nxs-array, nxs-log; every handler | a handler runs between two stores of an update, fork empties the mask | handler, table and kernel agree; no handler on a table in motion |
| nxs-log | FILE, path, level, mode | write, write_raw, reopen, set_path | called from everywhere; reopen from a signal handler | reopen in the middle of a write, fopen failing | no use of a closed FILE, messages go to the path that is set |
| nxs-poll | array of descriptors with events and results | add, del, del_event, exec, get_res, check_events | nxs-net, nxs-fs, nxs-pipesem | results that are stale after a change of the set | the set has each descriptor once; results belong to the last exec |
| nxs-fs | descriptors, inotify watch | open, read, write, whole-file functions, cp, check_upd | nxs-net, nxs-log, nxs-curl | errors in the middle, short writes | each descriptor closed on each path |
| nxs-array, nxs-list, nxs-ilist, nxs-stack, nxs-tree, nxs-bchain, nxs-buf | memory, counts, a cursor | add, delete, move, seek, clear | everything above | cursor of an element that is removed, boundaries, stale elements | each implements its abstract container |
| nxs-rest-api | list of handlers, one request at a time | handler_add, routing, reply, getters | libevent (external), nxs-list, nxs-array | routing by prefix, error pages, memory of a request | each request answered once, by the right handler |
| nxs-curl, nxs-mysql | output buffer, headers, connection | query, download, upload; connect, query | external client libraries | state left from one call to the next | the result belongs to the last call |
| nxs-metadata | description of a file, two versions | fill, to_buf, from_buf, set, get | nxs-net | two formats | from_buf undoes to_buf |
| nxs-args, nxs-cfg, nxs-cfg-json, nxs-json, nxs-xml, nxs-string, nxs-wstring, nxs-base64, nxs-crypt-gost, nxs-ncurses, nxs-mem, nxs-mpool, nxs-rest-api-common | little or none | parsing, formatting, conversion | | text | pure functions |

`PROJECT.json` lists every component with its status, and under "hazards" what can
go wrong in this code, at its line, with the properties that would notice.

## Plan

The order is by how much of the library depends on the behaviour and how little a
test can say about it.

1. **PipeSem** (done, with proofs): nxs-pipesem; abstract specifications PipeTurn
   and PipeMailbox.
2. **NetFile** (done, with proofs): the file transfer protocol.
3. **ProcSignal** (done, with proofs): signals, fork, daemonize, the mask of accept2.
4. **NetSock** (done, with proofs): the descriptors of connections and servers.
5. **NetStream** (done, with proofs): messages, confirmations, the cipher and raw bytes over partial
   reads and writes; abstract specification MessageStream.
6. **Parts** (done, with proofs but for BChain): LinkedList and Stack (abstract: ListSeq), Tree, Array, PollSet, Buf,
   BChain (abstract: TextQueue), Log, Metadata.
7. **Http** (done, with proofs): RestApi and Curl, composed.

Left: `nxs_proc_term_pid` and the pid file, the file functions of nxs-fs and their
descriptors on error paths, the result table of nxs-mysql.
No module that theorems are about uses a RECURSIVE operator.

## nxs-pipesem

`PipeSem.tla` models `nxs-pipesem.c` from the moment both processes exist: "wr"
owns the OUT end, "rd" the IN end, each holds both descriptors and one attachment
of the lock until it closes or frees them.

| Code | Model |
|---|---|
| `*el->lock`, the pipe, descriptors, shmat | `lock`, `pipe`, `ends`, `mapped` |
| `nxs_pipesem_write`: lock test, header, write loop, CLOSE | `WriteCallLocked`, `WriteLockedPoll`, `WriteCall`, `WritePoll`, `WriteAsleep`, `WriteDone` |
| `nxs_pipesem_read`: lock test, poll and FIONREAD, header, body, OPEN | `ReadCall`, `ReadUnlockedPoll`, `ReadFionread`, `ReadCore`, `ReadRelease` |
| `nxs_pipesem_on`: lock test, FIONREAD, flush, OPEN | `OnCall`, `OnFionread`, `OnSet` |
| `nxs_pipesem_close`, `nxs_pipesem_free`, process death | `Close`, `Free`, `ExitWriter`, `ExitReader`, `WriteSegv`, `ReadSegv` |

One action is one access to something the other process sees. write(2) moves as
many bytes as fit and sleeps for the rest (the pipe is blocking). A write of few
bytes is atomic in POSIX; the model lets it be partial, which only adds
behaviours. `tmp_buf` is kept as the code keeps it, with what earlier calls left;
the message size is read from the lowest byte of its header, as the code does.
`ioctl(FIONREAD)` stores an int into an uninitialised size_t: `HighHalf` is the
set of values its upper half may hold. `FreeInherited` allows the mistake of freeing
(not only closing) the inherited end, after which the next call is a segmentation
fault.

*PipeTurn* is the abstract turn (off, writer, reader) with at most one user;
*PipeMailbox* is a box for one message. PipeSem implements both (`TurnSpec`,
`BoxSpec`); the mailbox only holds for one write, because of the first
disagreement below, and for messages shorter than 256 bytes (the byte base), as those of the run pipesem_mailbox are.

*Fairness* (`FairSpec`): a call that has begun goes on, the writer tries until its
message is accepted, the reader enables once and keeps polling (strong fairness,
as the poll is disabled while `nxs_pipesem_on` runs). These are obligations of an application that
uses the channel, and a running process; closing, dying, signals and further calls of
`nxs_pipesem_on` are never owed, and nobody owes a writer that sleeps in write(2) (`Asleep`) its waking.

*What is promised to a caller.* `WriteReturns`: a write comes back, whatever earlier calls left in the pipe, unless it
ends in one deadlock, which the property names: asleep in write(2) before a full pipe with the lock open, so that every
read refuses to make room. A message larger than the pipe gets there, and so do leftovers; only a signal or
the death of the readers gets the writer out. `DeathNoticed`: a writer that goes on calling learns that no reader is left, at
a closed lock (the comment at 290-295), at an open one and out of write(2); a reader
learns that no writer is left, with the exception that the property names: the bytes of a write
that was broken off lie under an open lock, where each read says NO_DATA for ever.

*Bounds*: a byte has 4 values and the header 2 bytes (the smallest that have a low
and a high byte); payloads of 0 to 4 bytes, of which the one of 4 is as long as a byte has values
and is read short; pipes of 4, 5 or 8 bytes, so that a
message does and does not fit, alone or with another's leftovers; one or two writes, one or
two enablings: the second write is the first to meet the leftovers, the second
enabling the first that can lose a message. Once no reader is left one more write may be made (`MayWrite`):
it is the one that must find out.

## File transfer of nxs-net

`NetFile.tla` models `nxs_net_send_file` and `nxs_net_recv_file` on two peers, one
transfer after another over one connection, while others rewrite, replace or
remove the file being sent.

| Code | Model |
|---|---|
| `nxs_net_send_file`: preparation, watch, open, header, loop of check, read, block, confirmation | `SendCall`, `SendPrep`, `SendWatch`, `SendOpen`, `SendHdr`, `SendCheck`, `SendRead`, `SendBlock`, `SendConfirm`, `SendDone` |
| the macros that cancel | `SendEmergency` (by header), `SendCancel` (by control byte) |
| `nxs_net_recv_file` | `RecvCall`, `RecvHdr`, `RecvOpen`, `RecvBlock`, `RecvAttrs`, `RecvConfirm` |
| `nxs_net_send_file_err`, `nxs_net_recv_file_err` | `SendGoesOn`, `RecvGoesOn` |
| `nxs_fs_file_check_upd_*` (inotify) | `watch`, `event`, `Unlinked` |

*Abstractions.* A file is a sequence of 64 KiB blocks, a block the number of the
edit that wrote it. One call of `nxs_net_send_core` is one message; a failing call leaves
nothing or a message "cut" that cannot be received. `Capacity` is what the
connection buffers. Return codes that nothing tells apart are merged (a comment in
the module says how). Whether faults happen is chosen in `Init`, so that the
liveness properties can speak of behaviours without them. With `GivesMetadata` the
receiver's own metadata structure is freed uninitialised, which may end the
process. Encryption, block sizes and offsets are left out.

*Fairness*: a call that has begun goes on, and the receiving application calls
`nxs_net_recv_file` again. *Bounds*: two blocks are the least for which a change can
come between the check before one block and the read of the next; two transfers the
least for which one can leave something to the next; one edit. Either side may
close and stop, so deadlock is not checked; that nobody waits in vain is what
`CallsReturn` says.

## Signals and processes: nxs-proc, nxs_net_accept2

`ProcSignal.tla` takes one step per store that a signal handler can see: the
disposition (sigaction), then count, memory, zeros and size of `sig_ctx` in
`nxs_array_add_i`, then used, data and handler of the element. `Deliver` is
`nxs_proc_sig_handler` between any two of them; what it reads from an array in
motion can be anything (`Found`). `nxs_proc_daemonize` is followed from process to
child through both forks, with its saving, ignoring and restoring of SIGHUP.
`nxs_net_accept2` opens and closes the mask one signal at a time.

`careful`, chosen in `Init`, says whether the application blocks all signals before
it changes registrations; `HandledRight` (each delivery to the right handler, and during accept2
only where signals are let through) and `HarmOnlyInRestore` are what such care
buys, the other properties hold either way. An application that is not careful can
crash, and in one place a careful one can: the child of fork has an
empty mask while it restores SIGHUP.

Not modelled: sigaction on SIGKILL and SIGSTOP (it fails), `nxs_proc_term_pid`, the
pid file. `NXS_SIG_DFL` is NULL, the same value as "no handler", so its branch in
`nxs_proc_signal_set` is out of reach. A signal that is
handled after the unblocking and before accept(2) does not interrupt accept(2): the
handler runs (`HandledAtAccept`), the call goes on waiting for a connection. No
comment says otherwise. The flags SIGHUP was set with are kept nowhere:
`nxs_proc_daemonize` sets its handler again without them, SA_RESTART included, although its
comments (nxs-proc.c:189 and 216) speak of saving and restoring; `Daemonized` holds the
flags of all other signals to what they were, and leaves out those of SIGHUP.

*Fairness*: a begun call goes on (strong, since handlers interrupt it), handlers return,
the kernel delivers what can be delivered. `HandledAtAccept` further assumes that
signals pause infinitely often. *Bounds*: two signals, so that registering
the second moves the element of the first, and two handlers to tell apart.
The process may be killed, so deadlock is not checked.

## Connections and servers of nxs-net

`NetSock.tla` models what a process holds: a connection (`con`), a server (`srv`), one
descriptor of the application (`own`), the kernel's table that says whose each
number is (`fd`), and the one file that all unix servers use (`path`).

| Code | Model |
|---|---|
| `nxs_net_connect_init`, `_out_init`, unix forms | `ConInit` |
| `nxs_net_connect`, `nxs_net_connect2`, `nxs_net_unix_connect` | `ConnectCall`, `ConnectSocket`, `ConnectOption`, `ConnectTry`, a step per system call |
| `nxs_net_check_conn_ready`, `nxs_net_sock_remove_opt` | outcomes of `ConnectTry` |
| `nxs_net_accept`, `_accept2`, unix forms | `Accept` |
| `nxs_net_connect_close`, unix form | `ConClose` |
| `nxs_net_server_init`, `nxs_net_listen` | `SrvInit`, `Listen` |
| `nxs_net_unix_listen` | `UnixListen`, `UnixBind`, `UnixReady`, `UnixFailed`, `Unlink` |
| `nxs_net_server_close`, `nxs_net_unix_server_close`, `_unlink` | `SrvClose`, `Unlink` |
| `nxs_net_accept_poll_init`, `_free`, unix forms | `AcceptPollInit`, `AcceptPollFree` |

The kernel gives out the lowest free number, so a number that is closed once too
often or kept too long is soon somebody else's; `OwnOpen` and `OwnClose` run at any time,
between two system calls of a library call too, as signal handlers do. Every
system call may fail. A process may end at any time and start again.

*Abstractions.* What the peer answers is open. A poll is the descriptor it watches; the
results of `nxs_net_accept_poll_check` change no state. Attempts are `con_retr` times the
addresses found. An application accepts into a connection that is closed, initialises a
structure that is not in use and listens over TCP once, as the comments in the code ask; it
may call `nxs_net_unix_listen` again after an error, which closed the socket.
`ClosesFailed` says whether it also calls the close function after such an error
(disagreement 4): the run netsock and the theorems are about applications that do not.
Somebody else removes the file only when it was left behind (`CleanUp`).

*Bounds*: two processes, as many as compete for a path; one of them with a connection
(nothing of a connection is shared between processes); three descriptors, so that own,
connection and server fill the table and each reuses the number of another; two attempts.
`Spec` has no fairness: the calls always return by the shape of their loops, and
waiting for a peer has no end to state.

## Messages of nxs-net

`NetStream.tla` models what goes over one open connection, byte by byte.

| Code | Model |
|---|---|
| `nxs_net_send` of strings, arrays and lists | `Send`, `SendNothing`, `Packets`, `Packed` |
| `nxs_net_send_core`: poll with the look for the peer's end, write | `SendPoll`, `SendWrite` |
| `nxs_net_send_confirm`, the raw form | `SendConfirm`, `SendRaw` |
| `nxs_net_recv`, `nxs_net_recv_confirm`; header, then body | `Recv`, `RecvRead`, `RightHeader`, `Buffer`, `Complete` |
| `nxs_net_recv_core`: poll, read, its errors | `RecvRead`, `RecvEnds`, `Fault` |
| `nxs_net_recv_stream` | `RecvStream`, `StreamRead` |
| `nxs_net_crypt_gost_*` | `SetCipher`, `Reset`, `Advance`, `Decrypted` |

A byte under way is its packet, its place in it, and the place of the key stream it was
encrypted with; read with another place it is garbage. One cipher element serves
both directions and is set back only by `nxs_net_send` and `nxs_net_recv`: a confirmation goes on
in the key stream of the message before it, so both ends must have gone through the same number
of bytes. `HeaderRight` says that no end ever takes a body, garbage or a message of
another kind for what it waits for. *MessageStream* promises, for each direction, the messages
in the order in which their sending began, whole and at most once; `StreamSpec` says that the
functions implement it, whatever is partial, times out or fails.

*Applications* follow a script of exchanges and close the connection after an error. *Fairness* (`FairSpec`): a program that runs goes on with its
call, makes the next one and closes at the end. A wait times out only when nothing else can end it, or by a fault; faults are
chosen in `Init` and never owed. `CallsReturn` needs the peer to go on as well: write(2) on
the blocking socket is not covered by the time-out of the call. The lengths of time-outs
are not modelled (the body is read with the default one, not the caller's).
*Bounds*: headers of two bytes, bodies of nought to three, three bytes of room in the
connection, so that a read can end inside a header, between header and body or
inside a body, and every message meets a full connection; two or three exchanges, so that one can leave something to the next.

## The parts of one process: containers, buffers, poll sets, the log, metadata

Nothing runs beside these modules but a signal handler beside the log; what is hard about
them is a long sequence of legal calls. Each has a module of its own with one
action per function; `Parts.tla` puts them side by side, one of them (`which`) at work in
a behaviour, and `MCParts.tla` gives bounds small enough to try every sequence of calls.
`Links.tla` is what list, stack and tree share: elements are addresses, and `Walk` is the
sequence that is met when links are followed.

| Module | Code | State | Property |
|---|---|---|---|
| `LinkedList` | nxs-list | elements on a heap of addresses that are given out again, head, tail, position, count, what the callbacks have done to the data | `ListWhole`; `SeqSpec`: implements *ListSeq*, a sequence with a position |
| `Stack` | nxs-stack | elements linked from the top down | `SeqSpec`: implements *ListSeq* used at its head |
| `Tree` | nxs-tree | arrays of children, pointers to parents, current root and current element | `TreeRight`: one tree, and the current element is never an address given out anew |
| `Array` | nxs-array | memory, element by element: zero, in use or freed; count, step, callbacks | `MemoryRight`: what each element of the memory holds; the elements a clear left behind (`stale`) are the only ones that are neither in use nor zero |
| `Buf`, `BufUse` | nxs-buf | memory and length; beside it what its user knows of it | `MemoryRight` |
| `BChain` | nxs-bchain | the buffers and the cursor, a buffer and an offset | `TextSpec`: implements *TextQueue*, a text read from a place |
| `PollSet` | nxs-poll | descriptors with events and results | `PollRight` |
| `Log` | nxs-log | path, mode, level, the open file, the call under way; the files | `LinesRight` |
| `Metadata` | nxs-metadata | the fields of versions 1, 2 and 3, packed into a buffer by the order and widths of the code | `MetadataRight` |

`Buf` is a module of operators, a buffer a record; BChain and Metadata use them too, so a slip in
`nxs_buf_cpy` shows in all three. In the list, data are "none" (no element), "raw", "ready" or "lost" (freed without free_callback).

*What is left out.* An application does not use an element after it was freed:
after `nxs_tree_del_child` has freed what `c_el` names it names an element again
before it uses the current element, and it comes back with `nxs_list_ptr_set` only to an
element that lives. Four uses lead a chain of buffers astray, and what comes after them is
not followed (the variable `astray` says that it has happened): `nxs_bchain_seek_char` with a negative
offset within its buffer (nxs-bchain.c:461 adds the distance from the start to the cursor) or from the
first buffer (418 takes the start from `cur`), `nxs_bchain_add_buf_cpy` (149 copies the
structure, not the contents), and an empty buffer under the cursor. In the log it is
`nxs_log_reopen` with no FILE open (`fclose(NULL)`, 315), and a handler that closes the FILE or takes the
message buffer of the call it interrupts: `LinesRight` is about reopening at every other moment and does not catch these. `PollRight` names what `nxs_poll_del` leaves
wrong, and does not hold it against the code: results of descriptors behind the removed one, until the next poll(2). `MetadataRight`
has the owner's name cut as its one-byte length cuts it.

*Bounds*: four addresses (three elements, so that one is in the middle or below another,
and one more to insert); arrays of up to three elements growing by one or two; three descriptors;
chains of three buffers of up to two characters, so that a move can cross a whole one; three lines
and three files, before and after a rotation and of a handler; a byte counts to three, so that
a name of five characters is cut, and buffers cut at every cell. `MCInit` also starts the parts
that are not at work in one state each, and the tree at one address, as all are alike. Deadlock is not checked: the bounds stop
the log, and Metadata after its changes.

## nxs-rest-api and nxs-curl

`RestApi.tla` is the server, `Curl.tla` the client, each with the application's calls; `Http.tla`
composes them over the one connection the client waits on (`conn`, `requests`, `reply`).
libevent and libcurl are external: the first calls `nxs_rest_api_generic_handler` for a request
that has arrived whole, the second sends a request for each call, hands the reply over in pieces
(`Piece`) and fails when the connection does (`Fail`), at which time the request may or may not have been handled.

| Code | Model |
|---|---|
| `nxs_rest_api_init`, `_free`, `_handler_add`, `_handler_del`, `_add_log`, `_add_default` and their opposites | `ServerInit`, `Free`, `HandlerAdd`, `HandlerDel`, `SetLog`, `SetDefault` |
| `nxs_rest_api_parse_uri`, `nxs_rest_api_handler_exec` | `Parts`, `Takes`, `Chosen` |
| `nxs_rest_api_generic_handler` | `Handle`, `Refused`, `Answer`, `CString` (the reply is printed as a string) |
| `nxs_curl_add_header`, `_set_post`, `_set_post2`, `_set_proxy`, `_init`, `_free` | `AddHeader`, `SetPost`, `SetPost2`, `SetProxy`, `Again` |
| `nxs_curl_query`, `_download`, `_upload` | `Query`, `Download`, `Upload`, then `Send`, `Piece`, `Finish` or `Fail` |

The functions of the application are of six kinds: one answers with the argument of the request, one with a
header, one with the body, one with an error page, one removes a handler from the list
that led to it, one is missing. `RoutedRight` compares the walk of the code, part by part and handler by
handler, with a definition of what it should find: the shortest name that serves the path,
the earliest of equal ones. `OwnAnswer` says that what the caller reads after
NXS_CURL_E_OK is the answer to its own request, made of what it was called with, and after an error at most its
beginning, for an application that empties the buffer first: `nxs_curl_query` appends to what earlier queries
left. `FileRight` says that a download begins at the start of the file and is whole when
it returns OK, and that an upload arrives at the size it announced while somebody else writes the file.

A post set from a buffer replaces the one before; one set from a string is written over its beginning, and the end
of a longer one stays and is sent (`SetPost2`). No property tells the two apart: the answer is compared with the
request that was made. Nor does one depend on the proxy, whose settings are followed into the request (`Via`) and no
further, since libcurl alone acts on them. The handler is called at the end of the walk of the list, which does not go on afterwards, so
that a function that removes a handler harms nothing, and `Handle` is one step.

*Bounds*: names of one and two parts, paths that are a name, continue it, end in "/" or have an
empty part; two handlers at a time; two calls and three calls and settings of both together
(`MaxMoves`), so that a call can follow another's leftovers or a change of the server, and a second post a longer one. There is no fairness: a
reply of status 102, which a missing function leaves, is no final one, and libcurl is given no
time-out, so that a call need not end. Deadlock is not checked for that reason and because of `MaxMoves`.
Left out: headers of a reply, size limits, TLS, getters by number, descriptors and handles
that the early returns of download and upload do not give back.

## Runs

| Run | Shows |
|---|---|
| pipesem_multi | `MutualExclusion`, `WritesPaidFor`, the inductive invariant `IInv` (with the types) and the refinement of PipeTurn, with signals, deaths, wrong frees, messages larger than the pipe, two writes, two enablings; `WriteReturns` (a write comes back but for one deadlock) |
| pipesem_mailbox | one message, larger than the pipe or not: refinement of PipeMailbox; a message is delivered unless the channel was enabled again over it (`Delivered`), either death is noticed (`DeathNoticed`) |
| pipesem_leftover, pipesem_hangup | disagreements 1 and 2 |
| netfile_transfer | `InStep` (each message is received as what it is), `Quiet` (nothing left after a transfer), `Agree` (both calls tell the same story), `PrefixConsistent` (what the watch guarantees), both calls return |
| netfile_snapshot | disagreement 3 |
| procsignal_calls | `Settled` (kernel, table, application agree), `HandledRight`, `HarmOnlyInRestore`, `Daemonized`, `HandledAtAccept` |
| netsock | `HeldOnce` (structures and open descriptors correspond), `Ready` (a connection is whole or closed), `PathRight` (the path leads to who listens, and a failed listen leaves no file) |
| netsock_failed | disagreement 4 |
| netstream | `HeaderRight`, `StreamSpec`, `CallsReturn`, `Completed` (without faults everything arrives) |
| parts | the properties of the table of parts above |
| http | `RoutedRight`, `OwnAnswer`, `FileRight` |

Every property of a passing run has a mutant in `PROJECT.json`: a plausible slip of
the code, kept beside the definition it would change, that makes the property fail.

## Proofs

`PipeSemProofs.tla`, for every byte width, header length, capacity, set of payloads
and number of calls (assumptions: `PipeSemAssumption`; messages shorter than two header
bytes can count):

* `Invariance`: `IInv` is an invariant. It consists of the types, `SectionLocks` (a
  process inside its section still finds the lock as its check found it),
  `CallShape` (a call in progress has what its later steps use) and `Permits` (an
  open lock is a permission not yet used). MutualExclusion alone is not
  inductive: that the reader is outside says nothing about what its test of the lock
  will find; SectionLocks does, because every store to the lock is made by the
  process whose section it ends, or by `nxs_pipesem_on` when the lock is not the
  writer's. WritesPaidFor needs the permission in the open lock counted.
* `TypeCorrect`, `Exclusion`, `FlowControl` follow.
* `TurnRefinement`: initial state to initial state, every step to a step of
  PipeTurn or a stutter, from the same invariant.

`NetSockProofs.tla`, for every set of processes, number of descriptors and number of
attempts, for applications that do not close a unix server whose listen failed
(`~ClosesFailed`; with it HeldOnce is false, as netsock_failed shows):

* `Invariance`: `IInv` consists of the types, `HeldOnce`, `ConShape` and `SrvShape`
  (what a call in progress holds: a socket from socket(2) on, no polls before the end,
  a number in l_sock only if it is initialised), and `PathShape` (who is between bind and
  unlink, or listens, owns the file, and a file that nobody left behind has such an
  owner). HeldOnce alone is not inductive: a failing attempt closes `con.sock`
  and only ConShape says that there is one. Each action is reduced to one of two
  frame lemmas, `ConStepTo` and `SrvStepTo`, which say what a process may
  change; `LowestFree` shows that the kernel's choice exists (well-founded minimum).
* `NothingLeaked`, `ConnectionReady`, `PathReachable`, `TypeCorrect` follow.

`ProcSignalProofs.tla`, for every finite set of signals, every set of handlers and every set
of signals let through by nxs_net_accept2 (`ProcSignalAssumption`: SIGHUP is the lowest
signal, for it is number 1; a handler is none of NULL, SIG_IGN and SIG_DFL):

* `Invariance`: `IInv` says which job a step belongs to and with which arguments
  (`PcOfJob`, `ArgOfJob`), how long the array is at each store (`Sized`), that kernel, array and
  last request agree but for the signal that is being changed (`AllAgreed`), where the mask is
  closed (`Masked`), and what nxs_proc_daemonize has kept or cleared so far (`Keeping`,
  `Dropping`). Settled speaks only of the moments between two calls and HandledRight
  only of deliveries; neither survives a single store without these.
* `SettledAlways`, `HandledRightAlways`, `HarmConfined`, `DaemonizedAlways`, `TypeCorrect` follow.

`NetFileProofs.tla`, for every number of blocks, edits and transfers and every capacity of the
connection (`NetFileAssumption`):

* `Typing` (the types and what each function knows at each of its steps, `Shape`) and
  `PrefixConsistentAlways` with `WatchRight`: as long as no event of the watch waits, what was read
  is in the file still.
* `StoryAlways`: the messages under way lead, one by one, from the receiver's place in the stream
  to the sender's (`Aligned`, `Takes`); a place is a number of transfers, blocks before it and
  blocks to come. InStep and Agree speak of the next message and of finished calls only; what
  makes them hold after errors and cancels is that no message is out of place. `Ahead`, `Answer`
  and `Answered` say what is known of calls that one side alone has finished.
* `InStepAlways`, `AgreeAlways`, `QuietAlways`, `TypeCorrect` follow.

`NetStreamProofs.tla`, for all scripts of any length, with any buffers, and every header length,
size limit and room of the connection (`NetStreamAssumption`: there are two peers, a stream is the last exchange
of a script, has bytes and is not confirmed):

* `Invariant`: `IInv` consists of the types, what each call in progress has (`Local`) and `Wired`: bytes are under
  way in one direction only, and they lead (`Chain`) from the place where the one that reads stands
  (`Stands`) to the place of the one that sends (`Leads`). A place is an exchange, its data or its
  confirmation, a packet of it, a byte of the packet, the place in the key stream and the number of messages
  begun before; `Then` is the place that follows. HeaderRight looks at the last result of a call only. What makes
  it hold is that every byte is the one the script puts at its place, encrypted with the key that its reader will
  have there, also after exchanges of nothing, a change of the cipher, an interrupted write, or
  a peer that has failed. That a receiver knows how many buffers a message has it owes to LAST alone, so
  the chain of a packet (`ChainPacket`) and what follows it (`AfterPacket`) are shown to agree for both ends
  (`SentLeads`, `BufferKept`).
* `HeaderAlwaysRight`, `TypeCorrect` follow.
* `StreamImplemented`: every step is a step of MessageStream or a stutter. A buffer that is complete is the next one that
  the peer has begun (`BodyKept`, `BufferKept`), and what a read of a stream gives are the messages that come next (`ChainStream`).

`MemoryProofs.tla` is about the parts of the library one by one. The list, the stack and the tree, for
every finite heap, with a NULL that is no address (`HeapAssumption`):

* `Invariance`, `ListWholeAlways`, `Refinement`: what is read from the head of a list has
  each element once, the links lead through it both ways, head and tail are its ends (`BothLinked`).
  That each element is met once makes an insertion or a removal between two neighbours
  one in the sequence (`InsertLinked`, `DeleteLinked`); ListWhole alone says nothing of the links beside one
  another. Each function maps to a step of *ListSeq*.
* `StackWholeAlways`, `StackRefinement`: the same with links that lead one way.
* `TreeInvariance`, `TreeRightAlways`: from each element the pointers to the parent lead through
  others, each once, to the root (`Upward`), and an element that is removed is on no such path.

Recursive functions such as `Followed` are proved about through the least natural number at
which a claim fails (`NatMin`), which needs no operator as a parameter; so are the chains of NetStream (`Along`)
and, in the metadata, the join of the packed pieces (`Joins`) and the reading of one field after another (`Read`).

The set of a poll, the log, the array and the buffer, for all descriptors, events, paths, steps and strings
(the bounds are natural numbers, steps are not 0, strings are sequences: `PartsAssumption`):

* `PollRightAlways` (`PollInv`: each descriptor has one entry), `LinesRightAlways` (`LogInv`: the line
  under way is in no file yet and comes after all others but a handler's; no file is
  open that was named by nothing when the log was closed), `ArrayRightAlways` (`ArrInv`: MemoryRight with the types, and what a clear left behind lies within the memory,
  so that memory which is new is zero),
  `BufRightAlways` (`BufInv`: the memory is as long as the length and holds what is known at each place).

The metadata, for all files, names and users and numbers of any width, one byte for a version (`WellSized`, which is
`MetadataAssumption` of `Parts`; what lstat finds is text or numbers):

* `MetadataRightAlways`. `MetadataInv` says that the data has the fields of its version and no others, each with a value of its
  kind, and that each packing that is remembered is still in the memory where it was put. From that
  the fields are found one after another: where the length of the buffer lets all that
  is before a field be seen, unpacking stands at its piece with the fields before it as they arrive (`ReadTo`), and
  a field that is cut fails and so does all that follows. A text of no bytes at the very end would be found
  or not according to a comparison with ">=" in nxs_buf_get_mem; that every version ends with a
  number, which is never empty, is what makes the two outcomes differ exactly at the length
  of the packing (`UnpackIs`).

`PartsProofs.tla` puts these parts side by side as `Parts` does and states the properties that the run checks:
`ListWholeAlways`, `Refinement`, `TreeRightAlways`, `PollRightAlways`, `LinesRightAlways`, `MemoryRightAlways`,
`MetadataRightAlways`.

`HttpProofs.tla`, for all handlers (each with one of the six functions), paths, headers, bodies and files, and any
number of calls (`CurlAssumption`: bytes are numbers, headers are bytes other than zero; `HttpAssumption`: no handler has the type
that stands for methods the server does not know):

* `HttpInvAlways`: `HttpInv` consists of the types (`Typed`), the three properties, and what is known between the steps of a call.
  `OnTheWay`: each connection has one request, which is the one that its call made, but for the body of an upload, which has
  the size announced. `Remembered`: what was handled was answered by what the function makes of that request.
  `UnderWay`: there is a reply once the request was handled, and what has been taken of it, in the buffer or in the file,
  followed by what is left is the whole of it.
  OwnAnswer and FileRight speak of calls that have returned; a call that fails may leave a
  request that is handled when the next call is under way, and only the one request of each connection keeps
  the two apart.
* `RoutedRightAlways`: the walk takes the parts of the path one by one and for each the handlers in their order.
  The parts joined so far are the path up to a "/" or its end (`Parted`, `Divided`), and every name that serves the path ends at one of
  these places, so the first handler met is `Best`: it has the shortest name, and of equal ones the first.
* `OwnAnswerAlways`, `FileRightAlways` follow.

Each inductive invariant was checked by TLC on the small instances of the runs before its proof (that of
NetStream with the run of places of `Chain` computed byte by byte, since TLC cannot choose it).

Only model-checked: everything temporal under fairness (liveness and ENABLED are out of the
prover's reach); the refinements of PipeMailbox and of TextQueue, whose proofs need sums over all the bytes sent
or all the buffers of a chain.

## Disagreements found

Each of these has a run that finds the property violated by what the code does:

1. `pipesem_leftover`: `tmp_buf` is never emptied, so the second and later writes
   send earlier payloads again; the read takes the announced size, leaves the rest
   and then says "no data" (nxs-pipesem.c:319, nxs-pipesem.h:23).
2. `pipesem_hangup`: FIONREAD into an uninitialised size_t; a read on a closed
   channel may say "no data" (nxs-pipesem.c:368, nxs-pipesem.h:25).
3. `netfile_snapshot`: the comment on nxs_net_send_file promises that a changed file interrupts
   the sending; a change before the watch or after the last check does not
   (nxs-net.c:2712, comment 2565).
4. `netsock_failed`: the close functions must be called whatever happened, but after an
   error `nxs_net_unix_listen` leaves in l_sock the number of a socket it has closed; the
   close function closes it again, whoever has it by then (nxs-net.c:1265, comment 1008).

These were met while modelling and have no such run. The models do as the code does; which property leaves them out, or
says exactly where they occur, is named:

5. nxs-array: the comment before `nxs_array_add_i` (nxs-array.c:214-218) says that the memory of new elements will be
   zeroed ("Память, выделенная под новые элементы будет обнулена"). Only memory that is really new is: elements it jumps over after
   `nxs_array_clear` hold what free_callback left or, without one, the old contents. `MemoryRight` says so of exactly these elements.
6. nxs-pipesem: the size of a message is read from one byte of its header, so that one of 256 bytes or more is read
   short (nxs-pipesem.c:388). `BoxSpec` is checked for shorter ones.
7. nxs-pipesem: a write larger than the free room of the pipe sleeps for ever, whatever its time-out, as no read makes room under an open lock
   (505, 352). `WriteReturns` has this deadlock as its exception.
8. nxs-pipesem: after a write that was broken off, a reader never learns that the writer is gone (352-383); the exception of `DeathNoticed`.
9. nxs-proc: the comments of `nxs_proc_daemonize` (nxs-proc.c:189 and 216) speak of saving and restoring SIGHUP, but its flags are not kept.
   `Daemonized` leaves them out.
10. nxs-poll: after `nxs_poll_del` the results of the descriptors behind the removed one are those of their neighbours (nxs-poll.c:176); `PollRight`
    names them.
11. nxs-log: `nxs_log_reopen` in a handler closes the FILE of the write it interrupts (nxs-log.c:315); left out of `LinesRight`.
12. nxs-curl: a second query appends to the buffer of the first (nxs-curl.c:415), and a post set from a string keeps the end of a longer one (159).
    `OwnAnswer` assumes an emptied buffer and compares with the post that was sent.
13. nxs-bchain: the errors of lines 418 and 461, described above as uses that lead astray.

## What is not modelled and why

Parsers, formatting and conversions (nxs-string, nxs-wstring, nxs-json, nxs-xml,
nxs-cfg, nxs-cfg-json, nxs-base64) are functions over text: a model would repeat them character by
character. nxs-crypt-gost is cipher arithmetic. nxs-ncurses and the client
libraries are external. nxs-ilist is unfinished in the repository: it is not built, and calls
other modules with fewer arguments than they have. nxs-mem ends the process when memory runs out; the models
assume that it does not. nxs-mysql is a thin layer over its client library; nxs-args runs once, before
anything else. What a section above names as left out, and what the plan has left, is not modelled either.

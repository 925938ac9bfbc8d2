----------------------------- MODULE ProcSignal -----------------------------
(***************************************************************************)
(* nxs-proc: signal handlers (nxs_proc_signal_set, _del, _clear), processes *)
(* (nxs_proc_fork, nxs_proc_daemonize), and nxs_net_accept2, which opens   *)
(* the signal mask for the time of accept(2).                              *)
(*                                                                         *)
(* Handlers are kept in the array sig_ctx, indexed by signal number, which *)
(* the functions change in plain steps while nxs_proc_sig_handler, called  *)
(* by the kernel between any two of them, reads it.  The model takes one   *)
(* step per store that the handler can see.  An application registers the  *)
(* handler "a" with data of the same name, so that a call with data of     *)
(* another registration shows.                                             *)
(***************************************************************************)
EXTENDS Integers, FiniteSets

CONSTANTS
  Sigs,      (* the signals, catchable ones, by number                     *)
  SIGHUP,    (* the one that nxs_proc_daemonize takes care of              *)
  Watched,   (* the signals given to nxs_net_accept2, in both arrays       *)
  Apps       (* the application's handlers                                 *)

ASSUME ProcSignalAssumption ==
  /\ Sigs \subseteq Nat \ {0} /\ Sigs # {} /\ IsFiniteSet(Sigs)
  /\ SIGHUP \in Sigs /\ \A s \in Sigs : SIGHUP <= s     (* it is number 1 *)
  /\ Watched \subseteq Sigs
  /\ Apps \cap {"NULL", "IGN", "DFL", "junk"} = {}

VARIABLES
  careful,  (* whether the application blocks every signal before it       *)
            (* changes the registrations                                   *)
  alive,    (* "yes", "killed" by a default action, "crashed"              *)
  os,       (* the kernel's disposition and SA_RESTART flag of each signal *)
  blocked,  (* the signal mask                                             *)
  pending,  (* signals sent and not delivered                              *)
  count,    (* sig_ctx->count                                              *)
  nalloc,   (* sig_ctx->nalloc                                             *)
  moving,   (* sig_ctx->el points to memory that realloc has freed         *)
  el,       (* the elements of sig_ctx                                     *)
  pc,       (* where the process is                                        *)
  arg,      (* sig, sig_handler and sa_flag of the call                    *)
  job,      (* who called: the application, or a step of daemonize         *)
  sigsave,  (* argument of nxs_proc_daemonize                              *)
  saved,    (* its handler, "NULL" when sighup_used is 0                   *)
  todo,     (* signals left in the loops over sig_ctx, sigunblock, sigblock*)
  inside,   (* the handler running: signal, function and data              *)
  want,     (* history: what the last finished call asked for              *)
  flag,     (* history: with which sa_flag                                 *)
  before,   (* history: want and flag when nxs_proc_daemonize was called   *)
  served    (* history: nxs_net_accept2 has returned, the mask is its own  *)

table == <<count, nalloc, moving, el>>
calls == <<pc, arg, job, sigsave, saved, todo>>
hist  == <<want, flag, before, served>>
vars  == <<careful, alive, os, blocked, pending, table, calls, inside, hist>>

Slot == {0} \cup UNION {0 .. s : s \in Sigs}
Registration == Apps \cup {"IGN"}
Free == [used |-> FALSE, handler |-> "NULL", data |-> "NULL"]
Junk == [used |-> TRUE, handler |-> "junk", data |-> "junk"]
Element == [used : BOOLEAN, handler : {"NULL", "junk"} \cup Registration,
            data : {"NULL", "junk"} \cup Registration]
Disposition == [disp : {"DFL", "IGN", "CATCH"}, restart : BOOLEAN]
NoArg == [sig |-> SIGHUP, handler |-> "NULL", restart |-> FALSE]
NoCall == [sig |-> SIGHUP, handler |-> "NULL", data |-> "NULL"]

Init ==
  /\ careful \in BOOLEAN /\ alive = "yes"
  /\ os = [s \in Sigs |-> [disp |-> "DFL", restart |-> FALSE]]
  /\ blocked = {} /\ pending = {}
  /\ count = 0 /\ nalloc = 0 /\ moving = FALSE
  /\ el = [i \in Slot |-> Junk]
  /\ pc = "idle" /\ arg = NoArg /\ job = "app" /\ sigsave = TRUE
  /\ saved = "NULL" /\ todo = {} /\ inside = NoCall
  /\ want = [s \in Sigs |-> "DFL"] /\ flag = [s \in Sigs |-> FALSE]
  /\ before = [want |-> want, flag |-> flag] /\ served = FALSE

(* The process takes its next step: it runs no handler, and the kernel has *)
(* none to call first (unblocking a signal that waits delivers it before   *)
(* the system call returns).                                               *)
At(point) ==
  alive = "yes" /\ inside = NoCall /\ pending \ blocked = {} /\ pc = point
-----------------------------------------------------------------------------
(***************************************************************************)
(* The kernel and nxs_proc_sig_handler                                     *)
(***************************************************************************)

(* An ignored signal is kept only while it is blocked. *)
Raise(s) ==
  /\ alive = "yes"
  /\ pending' = IF os[s].disp = "IGN" /\ s \notin blocked
                THEN pending ELSE pending \cup {s}
  /\ UNCHANGED <<careful, alive, os, blocked, table, calls, inside, hist>>

(* What nxs_array_get and a look at the element can find, given the state  *)
(* of the array                                                            *)
Found(s) ==
  IF s >= count THEN {Free}
  ELSE IF s >= nalloc THEN {Junk}
  ELSE IF moving THEN {Junk, el[s]} ELSE {el[s]}

(* No handler interrupts another: sa_mask is full.  An element that is not *)
(* of the array, or not initialised, can hold anything.                    *)
Deliver(s) ==
  /\ alive = "yes" /\ inside = NoCall
  /\ s \in pending \ blocked
  /\ pending' = pending \ {s}
  /\ \/ /\ os[s].disp = "IGN"
        /\ UNCHANGED <<alive, inside>>
     \/ /\ os[s].disp = "DFL"
        /\ alive' = "killed" /\ UNCHANGED inside
     \/ /\ os[s].disp = "CATCH"
        /\ \E e \in Found(s) :
             \/ /\ e = Junk \/ ~e.used
                /\ inside' = [sig |-> s, handler |-> "none", data |-> "none"]
                /\ UNCHANGED alive
             \/ /\ e.used /\ e.handler \in Apps
                /\ inside' = [sig |-> s, handler |-> e.handler, data |-> e.data]
                /\ UNCHANGED alive
             \/ /\ e.used /\ e.handler \notin Apps
                /\ alive' = "crashed" /\ UNCHANGED inside
  /\ UNCHANGED <<careful, os, blocked, table, calls, hist>>

(* Back from the handler; accept(2) returns EINTR without SA_RESTART. *)
HandlerReturn ==
  /\ alive = "yes" /\ inside # NoCall
  /\ inside' = NoCall
  /\ IF pc = "accept" /\ ~os[inside.sig].restart
     THEN pc' = "blocking" /\ todo' = Watched
     ELSE UNCHANGED <<pc, todo>>
  /\ UNCHANGED <<careful, alive, os, blocked, pending, table, arg, job, sigsave,
                 saved, hist>>
-----------------------------------------------------------------------------
(***************************************************************************)
(* nxs_proc_signal_set                                                     *)
(***************************************************************************)
Used(s) == s < count /\ el[s].used

(* Where a call of signal_set or signal_del goes on: back to the           *)
(* application, or to the next step of nxs_proc_daemonize.                 *)
Return ==
  /\ pc' = CASE job = "app" -> "idle" [] job = "ignore" -> "fork"
             [] job = "restore" -> "daemon"
  /\ job' = CASE job = "app" -> "app" [] job = "ignore" -> "fork2"
              [] job = "restore" -> "app"
  /\ arg' = NoArg

(* mutant: every handler is caught *)
SetActionCatches(s, h, restart) ==
  /\ os' = [os EXCEPT ![s] = [disp |-> "CATCH", restart |-> restart]]
  /\ pending' = pending
  /\ arg' = [sig |-> s, handler |-> h, restart |-> restart]
  /\ pc' = IF s >= count THEN "count" ELSE "used"

(* sigaction(2) comes first: to ignore a signal discards it when pending. *)
SetAction(s, h, restart) ==
  /\ os' = [os EXCEPT ![s] = [disp |-> IF h = "IGN" THEN "IGN" ELSE "CATCH",
                              restart |-> restart]]
  /\ pending' = IF h = "IGN" THEN pending \ {s} ELSE pending
  /\ arg' = [sig |-> s, handler |-> h, restart |-> restart]
  /\ pc' = IF s >= count THEN "count" ELSE "used"

(* A call without force for a signal in use changes nothing. *)
SetCall(s, h, restart, force) ==
  /\ At("idle") /\ (careful => Sigs \subseteq blocked)
  /\ force \/ ~Used(s)
  /\ SetAction(s, h, restart)
  /\ UNCHANGED <<careful, alive, blocked, table, job, sigsave, saved, todo,
                 inside, hist>>

(* nxs_array_add_i: the count, the memory, the zeros, the size *)
AddCount ==
  /\ At("count")
  /\ count' = arg.sig + 1 /\ pc' = "realloc"
  /\ UNCHANGED <<careful, alive, os, blocked, pending, nalloc, moving, el, arg,
                 job, sigsave, saved, todo, inside, hist>>

AddRealloc ==
  /\ At("realloc")
  /\ moving' = TRUE /\ pc' = "zero"
  /\ UNCHANGED <<careful, alive, os, blocked, pending, count, nalloc, el, arg,
                 job, sigsave, saved, todo, inside, hist>>

(* mutant: the size is not noted *)
AddZeroNoSize ==
  /\ At("zero")
  /\ moving' = FALSE
  /\ el' = [i \in Slot |-> IF i \in nalloc .. count - 1 THEN Free ELSE el[i]]
  /\ pc' = "used"
  /\ UNCHANGED <<careful, alive, os, blocked, pending, count, nalloc, arg, job,
                 sigsave, saved, todo, inside, hist>>

(* The new block is in place; what it has more than the old is set to zero *)
(* before nalloc says so.                                                  *)
AddZero ==
  /\ At("zero")
  /\ moving' = FALSE
  /\ el' = [i \in Slot |-> IF i \in nalloc .. count - 1 THEN Free ELSE el[i]]
  /\ nalloc' = count /\ pc' = "used"
  /\ UNCHANGED <<careful, alive, os, blocked, pending, count, arg, job, sigsave,
                 saved, todo, inside, hist>>

Store(point, e, next) ==
  /\ At(point)
  /\ el' = [el EXCEPT ![arg.sig] = e]
  /\ pc' = next
  /\ UNCHANGED <<careful, alive, os, blocked, pending, count, nalloc, moving, arg,
                 job, sigsave, saved, todo, inside, hist>>

SetUsed == Store("used", [el[arg.sig] EXCEPT !.used = TRUE], "data")

(* mutant: data is stored for a new element only *)
SetDataOnce ==
  Store("data", [el[arg.sig] EXCEPT !.data = IF arg.handler = "IGN" \/ @ # "NULL"
                                             THEN @ ELSE arg.handler],
        "handler")

SetData ==
  Store("data", [el[arg.sig] EXCEPT !.data = IF arg.handler = "IGN"
                                             THEN "NULL" ELSE arg.handler],
        "handler")

SetHandler ==
  /\ At("handler")
  /\ el' = [el EXCEPT ![arg.sig].handler = arg.handler]
  /\ want' = [want EXCEPT ![arg.sig] = arg.handler]
  /\ flag' = [flag EXCEPT ![arg.sig] = arg.restart]
  /\ Return
  /\ UNCHANGED <<careful, alive, os, blocked, pending, count, nalloc, moving,
                 sigsave, saved, todo, inside, before, served>>
-----------------------------------------------------------------------------
(***************************************************************************)
(* nxs_proc_signal_del, nxs_proc_signal_clear                              *)
(***************************************************************************)

DelActionCatches(s) ==   (* mutant: the kernel is not told *)
  /\ os' = [os EXCEPT ![s].restart = FALSE]
  /\ arg' = [NoArg EXCEPT !.sig = s]

DelAction(s) ==
  /\ os' = [os EXCEPT ![s] = [disp |-> "DFL", restart |-> FALSE]]
  /\ arg' = [NoArg EXCEPT !.sig = s]

(* The element is cleared after the disposition. *)
DelZero(s) ==
  /\ el' = [el EXCEPT ![s] = Free]
  /\ want' = [want EXCEPT ![s] = "DFL"]
  /\ flag' = [flag EXCEPT ![s] = FALSE]

DelCall(s) ==
  /\ At("idle") /\ (careful => Sigs \subseteq blocked)
  /\ Used(s)
  /\ DelAction(s) /\ pc' = "delete"
  /\ UNCHANGED <<careful, alive, blocked, pending, table, job, sigsave, saved,
                 todo, inside, hist>>

Delete ==
  /\ At("delete")
  /\ DelZero(arg.sig) /\ Return
  /\ UNCHANGED <<careful, alive, os, blocked, pending, count, nalloc, moving,
                 sigsave, saved, todo, inside, before, served>>

(* The loop of nxs_proc_signal_clear; it skips what is not in use. *)
Clear ==
  /\ At("clear")
  /\ \/ /\ {s \in todo : Used(s)} = {}
        /\ todo' = {} /\ pc' = "unmask"
        /\ UNCHANGED <<os, arg>>
     \/ \E s \in todo :
          /\ Used(s) /\ \A t \in todo : Used(t) => s <= t
          /\ DelAction(s) /\ todo' = todo \ {s} /\ pc' = "clearing"
  /\ UNCHANGED <<careful, alive, blocked, pending, table, job, sigsave, saved,
                 inside, hist>>

Clearing ==
  /\ At("clearing")
  /\ DelZero(arg.sig) /\ pc' = "clear" /\ arg' = NoArg
  /\ UNCHANGED <<careful, alive, os, blocked, pending, count, nalloc, moving,
                 job, sigsave, saved, todo, inside, before, served>>
-----------------------------------------------------------------------------
(***************************************************************************)
(* nxs_proc_daemonize, followed from process to child                      *)
(***************************************************************************)
NotDaemon == [want |-> [s \in Sigs |-> "DFL"], flag |-> [s \in Sigs |-> FALSE]]

DaemonEnd ==
  /\ pc' = "idle" /\ job' = "app"
  /\ sigsave' = TRUE /\ saved' = "NULL" /\ before' = NotDaemon

DaemonCall(save) ==
  /\ At("idle")
  /\ sigsave' = save /\ job' = "fork1" /\ pc' = "fork"
  /\ before' = [want |-> want, flag |-> flag]
  /\ UNCHANGED <<careful, alive, os, blocked, pending, table, arg, saved, todo,
                 inside, want, flag, served>>

(* nxs_proc_fork: the child has no signals pending.  When fork(2) fails,   *)
(* nxs_proc_daemonize returns as it is, the second time with SIGHUP ignored*)
Fork ==
  /\ At("fork")
  /\ \/ /\ pending' = {}
        /\ IF sigsave THEN pc' = "unmask" /\ todo' = {}
                      ELSE pc' = "clear" /\ todo' = Sigs
        /\ UNCHANGED <<job, sigsave, saved, before>>
     \/ /\ DaemonEnd
        /\ UNCHANGED <<pending, todo>>
  /\ UNCHANGED <<careful, alive, os, blocked, table, arg, inside, want, flag,
                 served>>

(* The child unblocks everything. *)
Unmask ==
  /\ At("unmask")
  /\ blocked' = {} /\ served' = FALSE
  /\ pc' = IF job = "fork1" THEN "save" ELSE "restore"
  /\ UNCHANGED <<careful, alive, os, pending, table, arg, job, sigsave, saved,
                 todo, inside, want, flag, before>>

(* setsid(2), which may fail; then SIGHUP is remembered and ignored. *)
IgnoreHup ==
  /\ At("save")
  /\ \/ /\ DaemonEnd
        /\ UNCHANGED <<os, pending, arg>>
     \/ /\ saved' = IF sigsave /\ Used(SIGHUP) THEN el[SIGHUP].handler ELSE "NULL"
        /\ job' = "ignore"
        /\ SetAction(SIGHUP, "IGN", FALSE)
        /\ UNCHANGED <<sigsave, before>>
  /\ UNCHANGED <<careful, alive, blocked, table, todo, inside, want, flag, served>>

(* mutant: the handling of SIGHUP is deleted in either case *)
RestoreHupNever ==
  /\ At("restore")
  /\ IF Used(SIGHUP)
     THEN DelAction(SIGHUP) /\ pc' = "delete" /\ job' = "restore"
     ELSE pc' = "daemon" /\ job' = "app" /\ UNCHANGED <<os, arg>>
  /\ UNCHANGED <<careful, alive, blocked, pending, table, sigsave, saved, todo,
                 inside, hist>>

(* signal_set of what was saved, without its flag, or signal_del *)
RestoreHup ==
  /\ At("restore")
  /\ \/ /\ saved # "NULL"
        /\ SetAction(SIGHUP, saved, FALSE) /\ job' = "restore"
     \/ /\ saved = "NULL" /\ Used(SIGHUP)
        /\ DelAction(SIGHUP) /\ pc' = "delete" /\ job' = "restore"
        /\ UNCHANGED pending
     \/ /\ saved = "NULL" /\ ~Used(SIGHUP)
        /\ pc' = "daemon" /\ job' = "app"
        /\ UNCHANGED <<os, pending, arg>>
  /\ UNCHANGED <<careful, alive, blocked, table, sigsave, saved, todo, inside, hist>>

(* chdir, umask and the standard descriptors touch no signal. *)
DaemonReturn ==
  /\ At("daemon")
  /\ DaemonEnd
  /\ UNCHANGED <<careful, alive, os, blocked, pending, table, arg, todo, inside,
                 want, flag, served>>
-----------------------------------------------------------------------------
(***************************************************************************)
(* The signal mask, and nxs_net_accept2                                    *)
(***************************************************************************)

(* nxs_proc_signal_block and nxs_proc_signal_unblock by the application *)
Block ==
  /\ At("idle")
  /\ blocked' = Sigs
  /\ UNCHANGED <<careful, alive, os, pending, table, calls, inside, hist>>

Unblock ==
  /\ At("idle")
  /\ blocked' = {} /\ served' = FALSE
  /\ UNCHANGED <<careful, alive, os, pending, table, calls, inside, want, flag,
                 before>>

AcceptCall ==
  /\ At("idle")
  /\ pc' = "unblocking" /\ todo' = Watched
  /\ UNCHANGED <<careful, alive, os, blocked, pending, table, arg, job, sigsave,
                 saved, inside, hist>>

(* mutant: the loop ends one signal early *)
AcceptUnblockShort ==
  /\ At("unblocking")
  /\ \/ /\ Cardinality(todo) <= 1 /\ pc' = "accept"
        /\ UNCHANGED <<todo, blocked>>
     \/ \E s \in todo :
          /\ Cardinality(todo) > 1
          /\ todo' = todo \ {s} /\ blocked' = blocked \ {s}
          /\ UNCHANGED pc
  /\ UNCHANGED <<careful, alive, os, pending, table, arg, job, sigsave, saved,
                 inside, hist>>

(* One signal of the array at a time *)
AcceptUnblock ==
  /\ At("unblocking")
  /\ \/ /\ todo = {} /\ pc' = "accept"
        /\ UNCHANGED <<todo, blocked>>
     \/ \E s \in todo :
          /\ todo' = todo \ {s} /\ blocked' = blocked \ {s}
          /\ UNCHANGED pc
  /\ UNCHANGED <<careful, alive, os, pending, table, arg, job, sigsave, saved,
                 inside, hist>>

(* A connection, or an error, ends accept(2). *)
Accepted ==
  /\ At("accept")
  /\ pc' = "blocking" /\ todo' = Watched
  /\ UNCHANGED <<careful, alive, os, blocked, pending, table, arg, job, sigsave,
                 saved, inside, hist>>

AcceptBlock ==
  /\ At("blocking")
  /\ \/ /\ todo = {} /\ pc' = "idle" /\ served' = TRUE
        /\ UNCHANGED <<todo, blocked>>
     \/ \E s \in todo :
          /\ todo' = todo \ {s} /\ blocked' = blocked \cup {s}
          /\ UNCHANGED <<pc, served>>
  /\ UNCHANGED <<careful, alive, os, pending, table, arg, job, sigsave, saved,
                 inside, want, flag, before>>
-----------------------------------------------------------------------------
(* The steps of a call once it has begun *)
Code ==
  \/ AddCount \/ AddRealloc \/ AddZero \/ SetUsed \/ SetData \/ SetHandler
  \/ Delete \/ Clear \/ Clearing
  \/ Fork \/ Unmask \/ IgnoreHup \/ RestoreHup \/ DaemonReturn
  \/ AcceptUnblock \/ AcceptBlock

Kernel == HandlerReturn \/ \E s \in Sigs : Deliver(s)

Next ==
  \/ \E s \in Sigs : Raise(s) \/ DelCall(s)
  \/ \E s \in Sigs, h \in Registration, restart, force \in BOOLEAN :
       SetCall(s, h, restart, force)
  \/ \E save \in BOOLEAN : DaemonCall(save)
  \/ Block \/ Unblock \/ AcceptCall \/ Accepted
  \/ Code \/ Kernel

Spec == Init /\ [][Next]_vars

(* A call that has begun goes on when no signal keeps it from doing so, and *)
(* the kernel delivers every signal that can be delivered.  Nothing is     *)
(* assumed of the application's next call, of signals or of connections.   *)
FairSpec ==
  /\ Spec /\ SF_vars(Code) /\ WF_vars(HandlerReturn)
  /\ \A s \in Sigs : SF_vars(Deliver(s))
-----------------------------------------------------------------------------
(***************************************************************************)
(* Properties                                                              *)
(***************************************************************************)
Growing == pc \in {"realloc", "zero"}

(* The types of the variables; memory is allocated for as many elements as *)
(* the array counts, except while it grows.                                *)
TypeOK ==
  /\ careful \in BOOLEAN /\ alive \in {"yes", "killed", "crashed"}
  /\ os \in [Sigs -> Disposition]
  /\ blocked \subseteq Sigs /\ pending \subseteq Sigs
  /\ count \in Nat /\ nalloc \in Nat /\ moving \in BOOLEAN
  /\ IF Growing THEN nalloc < count ELSE nalloc = count
  /\ \A i \in Slot : i < nalloc => el[i].handler # "junk"
  /\ arg.sig \in Sigs /\ arg.handler \in {"NULL"} \cup Registration
  /\ job \in {"app", "fork1", "ignore", "fork2", "restore"}
  /\ sigsave \in BOOLEAN /\ saved \in {"NULL"} \cup Registration
  /\ todo \subseteq Sigs /\ served \in BOOLEAN
  /\ want \in [Sigs -> {"DFL"} \cup Registration] /\ flag \in [Sigs -> BOOLEAN]

(* Between two calls the kernel's disposition of every signal, its element *)
(* in sig_ctx and what the application asked for last agree.               *)
Settled ==
  pc \notin {"count", "used", "data", "handler", "delete", "clearing"} /\ ~Growing =>
    \A s \in Sigs :
      /\ want[s] = IF Used(s) THEN el[s].handler ELSE "DFL"
      /\ os[s].disp = IF want[s] \in Apps THEN "CATCH" ELSE want[s]
      /\ os[s].restart = flag[s]

(* When signals are blocked around every change of the registrations, each *)
(* delivery calls the handler registered last, with its own data, and none *)
(* is dropped, whatever nxs_proc_daemonize does to the mask meanwhile.     *)
OwnHandler ==
  careful /\ inside # NoCall =>
    inside.handler = want[inside.sig] /\ inside.data = inside.handler

(* nxs_net_accept2 confines the handlers of its signals: once it has       *)
(* returned, and until the application or a fork opens the mask, they run  *)
(* inside nxs_net_accept2 only.                                            *)
AcceptOnly ==
  served /\ inside # NoCall /\ inside.sig \in Watched =>
    pc \in {"unblocking", "accept", "blocking"}

(* A handler runs with what it was registered with, and where it may. *)
HandledRight == OwnHandler /\ AcceptOnly

(* With the same care the process is only in danger where it has none: in  *)
(* nxs_proc_daemonize, which gives SIGHUP its handler back in a child whose*)
(* mask nxs_proc_fork has emptied.                                         *)
HarmOnlyInRestore == careful /\ alive = "crashed" => job = "restore"

(* A daemon has the handlers its starter had, with the flags they were set *)
(* with but for SIGHUP, whose flags are lost; or none when it was told to  *)
(* clear them.  No signal is blocked.                                      *)
Daemonized ==
  pc = "daemon" =>
    /\ want = IF sigsave THEN before.want ELSE [s \in Sigs |-> "DFL"]
    /\ sigsave => \A s \in Sigs \ {SIGHUP} : flag[s] = before.flag[s]
    /\ blocked = {}

(***************************************************************************)
(* The inductive invariant                                                 *)
(***************************************************************************)
Setting  == pc \in {"count", "realloc", "zero", "used", "data", "handler"}
Deleting == pc \in {"delete", "clearing"}
Changing == Setting \/ Deleting

(* Who can be where *)
PcOfJob ==
  /\ pc \in {"idle", "unblocking", "accept", "blocking", "daemon"} => job = "app"
  /\ pc \in {"fork", "unmask", "clear", "clearing"} => job \in {"fork1", "fork2"}
  /\ pc = "save" => job = "fork1"
  /\ pc = "restore" => job = "fork2"
  /\ Setting => job \in {"app", "ignore", "restore"}
  /\ pc = "delete" => job \in {"app", "restore"}
  /\ pc \in {"idle", "unblocking", "accept", "blocking", "daemon", "fork", "unmask",
             "clear", "clearing", "save", "restore", "delete"} \/ Setting

(* The call in progress *)
ArgOfJob ==
  /\ Setting => arg.handler \in Registration
  /\ Deleting => ~arg.restart
  /\ job \in {"app", "fork1"} /\ pc # "daemon" => saved = "NULL"
  /\ job = "ignore" => arg.sig = SIGHUP /\ arg.handler = "IGN" /\ ~arg.restart
  /\ job = "restore" =>
       arg.sig = SIGHUP /\ (Setting => arg.handler = saved) /\ ~arg.restart

(* The array is as long as what was registered needs *)
Sized ==
  /\ moving <=> pc = "zero"
  /\ pc = "count" => count <= arg.sig
  /\ Growing => count = arg.sig + 1
  /\ pc \in {"used", "data", "handler"} \/ Deleting => arg.sig < count
  /\ pc \in {"data", "handler"} => el[arg.sig].used
  /\ pc = "handler" /\ arg.handler \in Apps => el[arg.sig].data = arg.handler

(* Element, disposition and what was asked for agree; elements above       *)
(* nalloc are not of the array yet.                                        *)
Held(s) == s < nalloc /\ el[s].used

Agreed(s) ==
  /\ want[s] = IF Held(s) THEN el[s].handler ELSE "DFL"
  /\ want[s] \in Apps => el[s].data = want[s]
  /\ os[s].disp = IF want[s] \in Apps THEN "CATCH" ELSE want[s]
  /\ os[s].restart = flag[s]

(* The kernel has been told, the array has not. *)
Told ==
  os[arg.sig] = [disp |-> IF Deleting THEN "DFL"
                          ELSE IF arg.handler = "IGN" THEN "IGN" ELSE "CATCH",
                 restart |-> arg.restart]

AllAgreed ==
  /\ \A s \in Sigs : (Changing /\ s = arg.sig) \/ Agreed(s)
  /\ Changing => Told

(* Where a signal can come while registrations change *)
Masked ==
  /\ careful /\ Changing /\ job = "app" => Sigs \subseteq blocked
  /\ pc \in {"restore", "daemon"} \/ job = "restore" => blocked = {}
  /\ served => Watched \subseteq blocked \/ pc \in {"unblocking", "accept", "blocking"}
  /\ pc = "blocking" => Watched \ todo \subseteq blocked

(* What nxs_proc_daemonize has kept and cleared so far *)
Kept(s) == want[s] = before.want[s] /\ flag[s] = before.flag[s]
Others == Sigs \ {SIGHUP}
Ignored == want[SIGHUP] = "IGN"
SavedRight ==
  saved = IF before.want[SIGHUP] = "DFL" THEN "NULL" ELSE before.want[SIGHUP]

Keeping ==
  sigsave =>
    /\ pc \notin {"clear", "clearing"}
    /\ job \in {"fork1", "ignore"} => \A s \in Sigs : Kept(s)
    /\ job \in {"ignore", "fork2", "restore"} => SavedRight
    /\ job \in {"fork2", "restore"} => Ignored /\ \A s \in Others : Kept(s)
    /\ job = "restore" /\ Setting => pc \in {"used", "data", "handler"}
    /\ job = "restore" /\ pc \in {"used", "data", "handler"} =>
         el[SIGHUP].used /\ el[SIGHUP].handler = "IGN"
    /\ job = "restore" /\ pc = "delete" => saved = "NULL"

Dropping ==
  ~sigsave =>
    /\ saved = "NULL"
    /\ job # "restore"
    /\ pc = "clear" => \A s \in Sigs \ todo : want[s] = "DFL"
    /\ pc = "clearing" => \A s \in Sigs \ (todo \cup {arg.sig}) : want[s] = "DFL"
    /\ pc \in {"unmask", "save", "restore"} \/ job = "ignore" =>
         \A s \in Sigs : want[s] = "DFL"

Types ==
  /\ el \in [Slot -> Element]
  /\ arg \in [sig : Sigs, handler : {"NULL"} \cup Registration, restart : BOOLEAN]
  /\ before \in [want : [Sigs -> {"DFL"} \cup Registration], flag : [Sigs -> BOOLEAN]]

IInv ==
  /\ TypeOK /\ Types /\ PcOfJob /\ ArgOfJob /\ Sized /\ AllAgreed /\ Masked
  /\ Keeping /\ Dropping /\ Daemonized
  /\ HandledRight /\ HarmOnlyInRestore

(* A signal that waits when nxs_net_accept2 is called does not wait for a  *)
(* connection as well, unless signals keep coming without a pause.         *)
HandledAtAccept ==
  []<>(inside = NoCall /\ pending \ blocked = {}) =>
  \A s \in Watched :
    pc = "unblocking" /\ s \in pending ~> s \notin pending \/ alive # "yes"
=============================================================================

------------------------------ MODULE PollSet -------------------------------
(***************************************************************************)
(* nxs-poll: an array of descriptors with the events asked for and the     *)
(* events that the last poll(2) reported.  Removing a descriptor moves     *)
(* descriptors and events of those behind it up, and not their results.    *)
(***************************************************************************)
EXTENDS Integers, Sequences, FiniteSets

CONSTANTS
  Fds,     (* descriptors                                                  *)
  Events   (* events that can be asked for                                 *)

VARIABLES
  fds,       (* p->fds, of p->nfds elements                                *)
  fds_ready, (* how many had something to report                           *)
  asked,     (* history: the events asked for of each descriptor           *)
  told,      (* history: what poll(2) reported last of each                *)
  behind     (* history: those that a removal has moved since                *)

vars == <<fds, fds_ready, asked, told, behind>>

Init ==
  /\ fds = << >> /\ fds_ready = 0
  /\ asked = [f \in Fds |-> {}] /\ told = [f \in Fds |-> {}] /\ behind = {}

Index(fd) == {i \in DOMAIN fds : fds[i].fd = fd}

(* A descriptor that is there gets more events and forgets its result. *)
AddMore(fd, ev) ==
  \E i \in Index(fd) :
    fds' = [fds EXCEPT ![i].events = @ \cup ev, ![i].revents = {}]

(* mutant: only the first is compared *)
AddAgain(fd, ev) ==
  LET new == fds = << >> \/ fds[1].fd # fd
  IN /\ ev # {}
     /\ fds' = IF new THEN Append(fds, [fd |-> fd, events |-> ev, revents |-> {}])
                ELSE [fds EXCEPT ![1].events = @ \cup ev, ![1].revents = {}]
     /\ asked' = [asked EXCEPT ![fd] = @ \cup ev] /\ told' = [told EXCEPT ![fd] = {}]
     /\ behind' = behind \ {fd} /\ UNCHANGED fds_ready

Add(fd, ev) ==
  /\ ev # {}
  /\ \/ AddMore(fd, ev)
     \/ Index(fd) = {} /\ fds' = Append(fds, [fd |-> fd, events |-> ev, revents |-> {}])
  /\ asked' = [asked EXCEPT ![fd] = @ \cup ev] /\ told' = [told EXCEPT ![fd] = {}]
  /\ behind' = behind \ {fd} /\ UNCHANGED fds_ready

(* Those behind i move up, each to a place that keeps its old result. *)
MoveUp(i) ==
  [k \in 1 .. Len(fds) - 1 |->
     IF k < i THEN fds[k]
     ELSE [fds[k] EXCEPT !.fd = fds[k + 1].fd, !.events = fds[k + 1].events]]

Remove(fd, i) ==
  /\ fds' = MoveUp(i) /\ told' = [told EXCEPT ![fd] = {}]
  /\ behind' = (behind \cup {fds[k].fd : k \in i + 1 .. Len(fds)}) \ {fd}

Del(fd) ==
  /\ \E i \in Index(fd) : Remove(fd, i)
  /\ asked' = [asked EXCEPT ![fd] = {}] /\ UNCHANGED fds_ready

(* nxs_poll_del_event: without events left the descriptor goes too *)
DelEvent(fd, ev) ==
  /\ \E i \in Index(fd) :
       IF fds[i].events \subseteq ev
       THEN Remove(fd, i)
       ELSE fds' = [fds EXCEPT ![i].events = @ \ ev] /\ UNCHANGED <<told, behind>>
  /\ asked' = [asked EXCEPT ![fd] = @ \ ev] /\ UNCHANGED fds_ready

(* nxs_poll_exec: nothing is left of earlier results, not even on a        *)
(* time-out or an error, which report nothing.  A descriptor reports all   *)
(* that is asked of it, or nothing.                                        *)
Exec ==
  /\ \E ready \in SUBSET Fds :
       told' = [f \in Fds |-> IF f \in ready THEN asked[f] ELSE {}]
  /\ fds' = [i \in DOMAIN fds |-> [fds[i] EXCEPT !.revents = told'[fds[i].fd]]]
  /\ fds_ready' = Cardinality({f \in Fds : told'[f] # {}})
  /\ behind' = {} /\ UNCHANGED asked

Free == fds # << >> /\ fds' = << >> /\ fds_ready' = 0 /\ behind' = {}
        /\ asked' = [f \in Fds |-> {}] /\ told' = [f \in Fds |-> {}]

Next ==
  \/ \E fd \in Fds, ev \in SUBSET Events : Add(fd, ev) \/ DelEvent(fd, ev)
  \/ (\E fd \in Fds : Del(fd)) \/ Exec \/ Free

Spec == Init /\ [][Next]_vars
-----------------------------------------------------------------------------
(* nxs_poll_get_res, and with it nxs_poll_check_events *)
Result(fd) == UNION {fds[i].revents : i \in Index(fd)}

(* The set holds each descriptor once, with the events asked for and not    *)
(* taken back; a result is that of the descriptor, from the last poll(2),  *)
(* but for those that a removal has moved since (nxs_poll_del).            *)
PollRight ==
  /\ \A fd \in Fds :
       /\ Cardinality(Index(fd)) = IF asked[fd] = {} THEN 0 ELSE 1
       /\ \A i \in Index(fd) : fds[i].events = asked[fd]
       /\ fd \notin behind => Result(fd) = told[fd]
=============================================================================

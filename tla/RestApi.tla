------------------------------ MODULE RestApi -------------------------------
(***************************************************************************)
(* nxs-rest-api: handlers are registered by name and type of request;      *)
(* nxs_rest_api_process waits in libevent, which calls                     *)
(* nxs_rest_api_generic_handler for a request that has arrived whole, and  *)
(* sends the reply that the call left.  One thread, one request at a time. *)
(*                                                                         *)
(* A request is a record of its method, path (a sequence of characters),   *)
(* argument (0: none), headers and body; "form" is what libevent makes of  *)
(* its uri.  A function of the application is the name of what it does:    *)
(*   "echo"    answers with the argument, found by its key;                *)
(*   "mirror"  answers with the body;                                      *)
(*   "tell"    answers with the value of a header;                         *)
(*   "deny"    answers with nxs_rest_api_page_std;                         *)
(*   "leave"   removes the handlers' first entry of its own name, then     *)
(*             echoes;                                                     *)
(*   "NULL"    is missing.                                                 *)
(***************************************************************************)
EXTENDS Integers, SequencesExt, FiniteSetsExt

CONSTANTS
  Format,          (* format_type: with "NONE" pages have no text          *)
  Registrations,   (* what may be registered: name, type, fixed and func   *)
  MaxHandlers,     (* bound: of the list of handlers                       *)
  MaxChanges,      (* bound: calls that set up the server                  *)
  Zero             (* the byte 0                                           *)

VARIABLES
  running,    (* nxs_rest_api_init has succeeded                           *)
  handlers,   (* the list, in the order of registration                    *)
  log,        (* handl_log_before_func: none, or what it returns           *)
  default,    (* handl_def_func is set                                     *)
  conn,       (* the connection whose client waits; 0: none                *)
  requests,   (* at the server or on their way, one for each connection    *)
  reply,      (* on its way to the client that waits                       *)
  done,       (* history: for each connection the request, the handlers    *)
              (* that it found, which of them it was given to (0: none),   *)
              (* and the reply                                             *)
  changes     (* history: calls that set up the server                     *)

setup == <<running, handlers, log, default, changes>>
vars == <<setup, conn, requests, reply, done>>

none == [none |-> TRUE]    (* no reply *)

Clean ==
  handlers' = << >> /\ log' = "none" /\ default' = FALSE

Init ==
  /\ running = TRUE /\ handlers = << >> /\ log = "none"
  /\ default = FALSE /\ changes = 0
  /\ conn = 0 /\ requests = {} /\ reply = none /\ done = << >>
-----------------------------------------------------------------------------
(***************************************************************************)
(* Routing: nxs_rest_api_parse_uri and nxs_rest_api_handler_exec           *)
(***************************************************************************)

(* A part begins at the first character and at every later "/"; a last     *)
(* part of one character is dropped.                                       *)
Parts(path) ==
  LET starts == {1} \cup {i \in 2 .. Len(path) : path[i] = "/"}
      at == CHOOSE f \in [1 .. Cardinality(starts) -> starts] :
              \A j, k \in DOMAIN f : j < k => f[j] < f[k]
      end(k) == IF k = Len(at) THEN Len(path) ELSE at[k + 1] - 1
      all == [k \in DOMAIN at |-> SubSeq(path, at[k], end(k))]
  IN IF Len(Last(all)) > 1 THEN all ELSE Front(all)

(* mutant: the last part counts as one more that follows *)
TakesShort(h, r, i) ==
  LET parts == Parts(r.path)
  IN /\ h.name = FlattenSeq(SubSeq(parts, 1, i)) /\ h.type = r.method
     /\ ~(h.fixed /\ Len(parts) >= i)

(* The handler h takes a request once the first i parts make up its name. *)
Takes(h, r, i) ==
  LET parts == Parts(r.path)
  IN /\ h.name = FlattenSeq(SubSeq(parts, 1, i)) /\ h.type = r.method
     /\ ~(h.fixed /\ Len(parts) > i)

(* Part by part, and for each of them handler by handler; 0: nobody *)
Chosen(r) ==
  LET takers == {t \in (DOMAIN Parts(r.path)) \X (DOMAIN handlers) :
                   Takes(handlers[t[2]], r, t[1])}
      first == Min({t[1] : t \in takers})
  IN IF takers = {} THEN 0 ELSE Min({t[2] : t \in {u \in takers : u[1] = first}})
-----------------------------------------------------------------------------
(***************************************************************************)
(* The reply                                                               *)
(***************************************************************************)
Says(status, out) == [status |-> status, out |-> out]

(* nxs_rest_api_page_std, over what was in out_buf *)
Page(status, out) == Says(status, IF Format = "NONE" THEN out ELSE <<status, Zero>>)

(* What a function of the application leaves in the request. *)
Echo(r) == Says(200, (IF r.arg = 0 THEN << >> ELSE <<r.arg>>) \o <<Zero>>)
Does(func, r) ==
  CASE func \in {"echo", "leave"} -> Echo(r)
    [] func = "mirror" -> Says(200, Append(r.body, Zero))
    [] func = "tell" -> Says(200, SetToSeq(r.headers) \o <<Zero>>)
    [] func = "deny" -> Page(403, <<Zero>>)
    [] func = "NULL" -> Says(102, <<Zero>>)

Dots(path) == \E i \in 2 .. Len(path) : path[i - 1] = "." /\ path[i] = "."

(* What is wrong before any function is called: its status, or 0 *)
Refused(r) ==
  CASE r.method = "OTHER" -> 405
    [] r.method # "OTHER" /\ r.form = "no uri" -> 500
    [] r.method # "OTHER" /\ r.form # "no uri" /\ Dots(r.path) -> 400
    [] r.method # "OTHER" /\ r.form = "no args" /\ ~Dots(r.path) -> 400
    [] r.method # "OTHER" /\ r.form = "fine" /\ ~Dots(r.path) ->
         IF log = "fails" THEN 500 ELSE 0

(* With no handlers, no parts or no taker it is the default's, or an error *)
Answer(r, k) ==
  IF Refused(r) # 0 THEN Page(Refused(r), <<Zero>>)
  ELSE IF k # 0 THEN Does(handlers[k].func, r)
  ELSE IF default THEN Echo(r)
  ELSE Page(IF handlers = << >> THEN 500 ELSE IF Parts(r.path) = << >> THEN 400 ELSE 404,
            <<Zero>>)

(* printf("%s") of out_buf *)
CString(s) == SubSeq(s, 1, SelectInSeq(s, LAMBDA c : c = Zero) - 1)

(* nxs_rest_api_handler_del: the first of that name, whatever its type *)
Removed(name) ==
  LET k == SelectInSeq(handlers, LAMBDA h : h.name = name)
  IN IF k = 0 THEN handlers ELSE RemoveAt(handlers, k)
-----------------------------------------------------------------------------
(* The client of the request may have gone. *)
Handle(r) ==
  /\ running /\ requests' = requests \ {r}
  /\ LET k == IF Refused(r) = 0 THEN Chosen(r) ELSE 0
         a == Answer(r, k)
         left == [status |-> a.status, text |-> CString(a.out)]
     IN /\ reply' = IF r.conn = conn THEN left ELSE reply
        /\ handlers' = IF k # 0 /\ handlers[k].func = "leave" THEN Removed(handlers[k].name)
                       ELSE handlers
        /\ done' = [c \in {r.conn} \cup DOMAIN done |->
                     IF c # r.conn THEN done[c]
                     ELSE [request |-> r, found |-> handlers, by |-> k, reply |-> left]]
  /\ UNCHANGED <<running, log, default, changes, conn>>

(***************************************************************************)
(* The set-up, between two calls of nxs_rest_api_process                   *)
(***************************************************************************)
Change ==
  /\ running /\ changes < MaxChanges /\ changes' = changes + 1
  /\ UNCHANGED <<running, conn, requests, reply, done>>

HandlerAdd(h) ==
  /\ Change /\ Len(handlers) < MaxHandlers
  /\ handlers' = Append(handlers, h) /\ UNCHANGED <<log, default>>
HandlerDel(name) ==
  /\ Change /\ handlers' = Removed(name) /\ UNCHANGED <<log, default>>
SetLog(to) == Change /\ log' = to /\ UNCHANGED <<handlers, default>>
SetDefault(to) == Change /\ default' = to /\ UNCHANGED <<handlers, log>>

(* nxs_rest_api_free: connections are closed, too *)
Free ==
  /\ running /\ changes < MaxChanges /\ changes' = changes + 1
  /\ running' = FALSE /\ Clean
  /\ requests' = {} /\ UNCHANGED <<conn, reply, done>>

(* nxs_rest_api_init: on an error it frees what it has made *)
ServerInit(ok) ==
  /\ ~running /\ changes < MaxChanges /\ changes' = changes + 1
  /\ running' = ok /\ Clean /\ UNCHANGED <<conn, requests, reply, done>>

Next ==
  \/ \E r \in requests : Handle(r)
  \/ \E h \in Registrations : HandlerAdd(h) \/ HandlerDel(h.name)
  \/ \E to \in {"none", "ok", "fails"} : SetLog(to)
  \/ \E to \in BOOLEAN : SetDefault(to) \/ ServerInit(to)
  \/ Free
-----------------------------------------------------------------------------
(* A handler with a name serves a path that is its name or continues it    *)
(* with a "/"; a fixed one only if nothing follows but, perhaps, that "/". *)
Serves(h, r) ==
  LET n == Len(h.name)
  IN /\ h.type = r.method /\ n > 0 /\ IsPrefix(h.name, r.path)
     /\ IF n = Len(r.path) THEN n > 1 /\ r.path[n] # "/"
        ELSE r.path[n + 1] = "/" /\ (h.fixed => Len(r.path) = n + 1)

(* A request goes to a handler that serves it, and no other one that does   *)
(* has a shorter name or, with the same name, was registered before; it    *)
(* goes past the handlers only if none serves it, or it is refused before. *)
RoutedRight ==
  \A c \in DOMAIN done :
    LET d == done[c]
        serving == {k \in DOMAIN d.found : Serves(d.found[k], d.request)}
        name(k) == Len(d.found[k].name)
    IN \/ /\ d.by \in serving
          /\ \A k \in serving : name(d.by) < name(k) \/ (name(d.by) = name(k) /\ d.by <= k)
       \/ /\ d.by = 0
          /\ \/ serving = {} \/ Dots(d.request.path) \/ d.request.form # "fine"
             \/ d.reply.status = 500
=============================================================================

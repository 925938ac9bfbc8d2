------------------------------- MODULE Http ---------------------------------
(***************************************************************************)
(* A client of nxs-curl and a server of nxs-rest-api.  They share the      *)
(* connection that the client waits on, the requests that are at the       *)
(* server or on their way, and the reply.                                  *)
(***************************************************************************)
EXTENDS Curl

CONSTANTS
  Format, Registrations, MaxHandlers, MaxChanges,
  MaxMoves       (* bound: calls and settings of both together *)

VARIABLES running, handlers, log, default, done, changes

Server == INSTANCE RestApi

(* "OTHER" is a method that nxs_rest_api_common_cmd_type_t has not: no      *)
(* handler is for it.                                                      *)
ASSUME HttpAssumption ==
  Registrations \subseteq
    [name : Seq(STRING), type : STRING \ {"OTHER"}, fixed : BOOLEAN,
     func : {"echo", "leave", "mirror", "tell", "deny", "NULL"}]

setting == <<running, handlers, log, default, changes>>

HttpInit == Init /\ Server!Init

(* What was handled is remembered until the client goes on. *)
Client ==
  /\ Next /\ UNCHANGED setting
  /\ done' = IF conn = 0 THEN << >> ELSE done

(* While the client waits the server is not set up anew: that is the same as *)
(* before or after its call.                                               *)
Serve ==
  /\ Server!Next /\ (conn # 0 => changes' = changes)
  /\ UNCHANGED <<out_buf, ret_code, post_data, headers, proxy, settings, file, call, result>>

HttpNext ==
  (Client \/ Serve) /\ call'.conn + settings' + changes' <= MaxMoves

HttpSpec == HttpInit /\ [][HttpNext]_<<vars, setting, done>>
-----------------------------------------------------------------------------
Over(kind) == conn = 0 /\ call.conn # 0 /\ result \in {"OK", "ERR"} /\ call.kind = kind
Handled == call.conn \in DOMAIN done
Text == IF Handled THEN done[call.conn].reply.text ELSE << >>

(* What reads the memory of the buffer as a string finds the text. *)
ReadsAs(b, text) ==
  Len(text) < Size(b) /\ SubSeq(b.mem, 1, Len(text)) = text /\ b.mem[Len(text) + 1] = Zero

(* What the client asked for, as the function that its request was given   *)
(* to answers it                                                           *)
Meant(r, func) ==
  CASE func \in {"echo", "leave"} -> IF r.arg = 0 THEN << >> ELSE <<r.arg>>
    [] func = "tell" -> SetToSeq(headers)
    [] func = "mirror" -> Server!CString(Append(r.body, Zero))
    [] func \in {"deny", "NULL"} -> Text

(* Every request went to the first handler that it had to go to. *)
RoutedRight == Server!RoutedRight

(* A call that returned OK was handled; its status and what can be read    *)
(* from the buffer are the answer to its own request, made of what it was  *)
(* called with, if the application had emptied the buffer before.  After   *)
(* an error the buffer holds nothing but the beginning of that answer.     *)
OwnAnswer ==
  /\ Over("query") /\ result = "OK" =>
       /\ Handled /\ ret_code = done[call.conn].reply.status
       /\ LET d == done[call.conn]
          IN d.by # 0 => d.reply.text = Meant(call.request, d.found[d.by].func)
       /\ call.fresh => ReadsAs(out_buf, Text)
  /\ Over("query") /\ result = "ERR" /\ call.fresh =>
       \E n \in 0 .. Len(Text) : Content(out_buf) = Append(SubSeq(Text, 1, n), Zero)
  /\ Over("upload") /\ result = "OK" /\ call.fresh => Content(out_buf) = Text

(* A file is downloaded from its beginning, and whole when the call returns *)
(* OK; a file that was uploaded reached the server at the announced size.  *)
FileRight ==
  /\ Over("download") =>
       /\ IsPrefix(file, Text) /\ ReadsAs(out_buf, << >>)
       /\ result = "OK" => file = Text
  /\ Over("upload") /\ result = "OK" =>
       Handled /\ Len(done[call.conn].request.body) = call.size
=============================================================================

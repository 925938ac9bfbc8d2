------------------------------- MODULE Curl ---------------------------------
(***************************************************************************)
(* nxs-curl: one client over libcurl, which is external: it sends one      *)
(* request for each call, hands the reply over in pieces, and fails when   *)
(* the connection does.  Headers, post data and proxy are kept from call   *)
(* to call, and so is what is in out_buf.                                  *)
(*                                                                         *)
(* One file of the application is what it downloads to and uploads from.   *)
(***************************************************************************)
EXTENDS Buf, SequencesExt

CONSTANTS
  Asks, FileAsks,          (* what is asked for: method, path, form, and   *)
                           (* whether with an argument; by queries, and by *)
                           (* downloads and uploads                        *)
  Headers,                 (* values of a header                           *)
  OldFile,                 (* what the file holds at first                 *)
  Bodies,                  (* what is posted, and written to the file      *)
  MaxCalls,                (* bound: queries, downloads and uploads        *)
  MaxSettings              (* bound: settings that are made                *)

(* A byte is a number, and the byte 0 is 0: no value of a header has it.   *)
ASSUME CurlAssumption ==
  /\ Zero = 0 /\ Junk \in Int
  /\ Headers \subseteq Int \ {0}
  /\ OldFile \in Seq(Int) /\ Bodies \subseteq Seq(Int)
  /\ \A ask \in Asks \cup FileAsks :
       /\ ask.path \in Seq(STRING) /\ ask.arg \in BOOLEAN
       /\ ask.form \in {"fine", "no uri", "no args"}

VARIABLES
  out_buf, post_data, headers, ret_code,   (* of nxs_curl_t                *)
  proxy,      (* what of it is set                                         *)
  file,       (* the file                                                  *)
  call,       (* the last call, with what it was made for                  *)
  result,     (* what it returned                                          *)
  settings,   (* history: how many have been made                          *)
  conn,       (* the connection of the call under way; 0: none             *)
  requests,   (* on their way to the server, or there                      *)
  reply       (* on its way back: what is left of it                       *)

kept == <<post_data, headers, proxy, settings>>
wire == <<conn, requests, reply>>
vars == <<out_buf, ret_code, kept, file, call, result, wire>>

none == [none |-> TRUE]
NoProxy == [use |-> FALSE, type |-> "none", host |-> << >>, auth |-> "none", user |-> << >>]

Init ==
  /\ out_buf = Made(1) /\ post_data = << >> /\ headers = {} /\ ret_code = 0
  /\ proxy = NoProxy /\ settings = 0
  /\ file = OldFile /\ call = [conn |-> 0] /\ result = "none"
  /\ conn = 0 /\ requests = {} /\ reply = none
-----------------------------------------------------------------------------
(***************************************************************************)
(* What is kept                                                            *)
(***************************************************************************)
Forgotten == conn = 0 /\ result' = "none" /\ call' = [conn |-> call.conn]
Idle == Forgotten /\ UNCHANGED <<ret_code, file, wire>>
Set == Idle /\ settings < MaxSettings /\ settings' = settings + 1

AddHeader(h) == Set /\ headers' = headers \cup {h} /\ UNCHANGED <<out_buf, post_data, proxy>>

(* From a buffer, which replaces what was set before; from a string, with   *)
(* its zero byte, which is written over the beginning of that and leaves   *)
(* the end of a longer one.                                                *)
SetPost(d) == Set /\ post_data' = d /\ UNCHANGED <<out_buf, headers, proxy>>
SetPost2(s) ==
  /\ Set /\ UNCHANGED <<out_buf, headers, proxy>>
  /\ post_data' = Append(s, Zero) \o SubSeq(post_data, Len(s) + 2, Len(post_data))

(* The application empties nxs_curl_get_out_buf. *)
Emptied == Idle /\ out_buf' = Clear(out_buf) /\ UNCHANGED kept

(* nxs_curl_free and nxs_curl_init *)
Again ==
  /\ Forgotten
  /\ out_buf' = Made(1) /\ post_data' = << >> /\ headers' = {} /\ ret_code' = 0
  /\ proxy' = NoProxy
  /\ UNCHANGED <<settings, file, wire>>

(* What is there is forgotten first; an error forgets all of it again. *)
Proxied(type, host, port, auth, user) ==
  IF \/ type = "none" \/ type = "unknown"
     \/ host = << >> \/ port = 0
     \/ auth # "none" /\ user = << >>
  THEN NoProxy
  ELSE [use |-> TRUE, type |-> type, host |-> Append(host, port), auth |-> auth,
        user |-> IF auth = "none" THEN << >> ELSE user]

SetProxy ==
  \E type \in {"none", "http", "unknown"}, host \in {<< >>, <<"h">>}, port \in {0, 1},
     auth \in {"none", "basic"}, user \in {<< >>, <<"u">>} :
    Set /\ proxy' = Proxied(type, host, port, auth, user)
    /\ UNCHANGED <<out_buf, post_data, headers>>
-----------------------------------------------------------------------------
(***************************************************************************)
(* A call: nxs_curl_query, nxs_curl_download, nxs_curl_upload              *)
(***************************************************************************)

(* nxs_curl_opt_set_proxy *)
Via == IF ~proxy.use THEN NoProxy
       ELSE IF proxy.auth = "none" THEN [proxy EXCEPT !.user = << >>] ELSE proxy

(* The request that will be sent; the body of an upload is read later. *)
Begin(kind, asks) ==
  /\ conn = 0 /\ call.conn < MaxCalls /\ conn' = call.conn + 1 /\ result' = "none"
  /\ \E ask \in asks :
       call' = [conn |-> conn', kind |-> kind, sent |-> FALSE,
                size |-> Len(file), fresh |-> out_buf.len = 0,
                request |-> [conn |-> conn', method |-> ask.method, path |-> ask.path,
                             form |-> ask.form, arg |-> IF ask.arg THEN conn' ELSE 0,
                             headers |-> headers, body |-> post_data, via |-> Via]]
  /\ UNCHANGED <<ret_code, kept, requests, reply>>

Query == Begin("query", Asks) /\ UNCHANGED <<out_buf, file>>

(* mutant: what the file held stays in it *)
DownloadOver ==
  /\ Begin("download", FileAsks) /\ UNCHANGED file
  /\ out_buf' = AddChar(Clear(out_buf), Zero)

(* The file is emptied before the request is made. *)
Download ==
  /\ Begin("download", FileAsks) /\ file' = << >>
  /\ out_buf' = AddChar(Clear(out_buf), Zero)

(* The size is announced as it is now. *)
Upload == Begin("upload", FileAsks) /\ UNCHANGED <<out_buf, file>>

(* curl_easy_init, stat or open fails; what is freed on these ways is left out *)
CannotBegin ==
  /\ conn = 0 /\ result' = "ERR" /\ call' = [conn |-> call.conn, kind |-> "none"]
  /\ UNCHANGED <<out_buf, ret_code, kept, file, wire>>

Busy == conn # 0 /\ UNCHANGED <<ret_code, kept, result, conn>>

(* Somebody else writes the file while it is read. *)
FileChanges ==
  /\ Busy /\ call.kind = "upload" /\ ~call.sent
  /\ file' \in Bodies
  /\ UNCHANGED <<out_buf, call, requests, reply>>

(* nxs_curl_q_upload_file hands over what it finds: libcurl sends no more   *)
(* than was announced, and less is no request.                             *)
Send ==
  /\ Busy /\ ~call.sent /\ call' = [call EXCEPT !.sent = TRUE]
  /\ requests' =
       IF call.kind # "upload" THEN requests \cup {call.request}
       ELSE IF Len(file) < call.size THEN requests
       ELSE requests \cup {[call.request EXCEPT !.body = SubSeq(file, 1, call.size)]}
  /\ UNCHANGED <<out_buf, file, reply>>

(* nxs_curl_q_get_data, nxs_curl_q_download_file *)
Take(piece) ==
  IF call.kind = "download" THEN file' = file \o piece /\ UNCHANGED out_buf
  ELSE out_buf' = Cat(out_buf, piece) /\ UNCHANGED file

(* A piece of the reply, but not the last *)
Piece ==
  /\ Busy /\ reply # none /\ Len(reply.text) > 1
  /\ Take(<<Head(reply.text)>>)
  /\ reply' = [reply EXCEPT !.text = Tail(@)]
  /\ UNCHANGED <<call, requests>>

(* mutant: the zero byte is left to what the buffer holds *)
EndOpen(piece) == Take(piece)

(* A query ends its answer with a zero byte, whatever libcurl returned. *)
End(piece) ==
  IF call.kind = "query"
  THEN out_buf' = AddChar(Cat(out_buf, piece), Zero) /\ UNCHANGED file
  ELSE Take(piece)

(* The reply is whole; one that says "102 Processing" is none. *)
Finish ==
  /\ conn # 0 /\ reply # none /\ Len(reply.text) <= 1 /\ reply.status # 102
  /\ End(reply.text)
  /\ ret_code' = reply.status /\ result' = "OK" /\ conn' = 0 /\ reply' = none
  /\ UNCHANGED <<kept, call, requests>>

(* The connection ends before that, or the disk is full: a request that is *)
(* on its way may still be handled, or not.                                *)
Fail ==
  /\ conn # 0 /\ End(<< >>) /\ result' = "ERR" /\ conn' = 0 /\ reply' = none
  /\ requests' \in {requests, {r \in requests : r.conn # conn}}
  /\ UNCHANGED <<ret_code, kept, call>>

Next ==
  \/ (\E h \in Headers : AddHeader(h)) \/ (\E d \in Bodies : SetPost(d) \/ SetPost2(d))
  \/ Emptied \/ Again \/ SetProxy
  \/ Query \/ Download \/ Upload \/ CannotBegin
  \/ FileChanges \/ Send \/ Piece \/ Finish \/ Fail
=============================================================================

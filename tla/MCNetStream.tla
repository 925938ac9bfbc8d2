---------------------------- MODULE MCNetStream -----------------------------
(* Bounds for TLC.  A header of two bytes and bodies of nought to three, so *)
(* that a read can end inside a header, between header and body and inside  *)
(* a body; three bytes of room, so that every message meets a full          *)
(* connection; two or three exchanges, so that one can leave something to   *)
(* the next: a sender that runs ahead, a confirmation after it, a change    *)
(* of cipher, a change of direction.                                        *)
EXTENDS NetStream

Ex(from, bufs, as, confirm, crypted) ==
  [from |-> from, bufs |-> bufs, as |-> as, confirm |-> confirm, crypt |-> crypted]

x == <<"x">>
yz == <<"y", "z">>

MCScripts ==
  { (* two strings one after the other, the second confirmed *)
    <<Ex("a", <<yz>>, "string", "none", TRUE), Ex("a", <<x>>, "string", "YES", TRUE),
      Ex("b", <<x>>, "string", "NO", TRUE)>>,
    (* an array with an empty buffer, then an answer without cipher *)
    <<Ex("a", <<x, << >> >>, "array", "YES", TRUE), Ex("b", <<yz>>, "string", "none", FALSE)>>,
    (* a list received as a string, an empty one, one more with cipher *)
    <<Ex("a", <<x, yz>>, "string", "none", FALSE), Ex("a", << >>, "list", "none", FALSE),
      Ex("a", <<x>>, "list", "NO", TRUE)>>,
    (* a buffer above the limit *)
    <<Ex("b", <<x>>, "string", "none", TRUE), Ex("a", <<<<"x", "y", "z">>>>, "string", "YES", TRUE)>>,
    (* a message, and then a stream until the end of the connection *)
    <<Ex("b", <<x>>, "string", "YES", TRUE), Ex("a", <<x, <<"y">>, <<"z">>, x>>, "stream", "none", FALSE)>> }
=============================================================================

------------------------------- MODULE MCHttp -------------------------------
(* Names of one and of two parts, and one that the empty path is mistaken   *)
(* for; paths that are a name, that continue it, end in a "/" or have an    *)
(* empty part.                                                             *)
EXTENDS Http, TLC

H(name, type, fixed, func) == [name |-> name, type |-> type, fixed |-> fixed, func |-> func]
MCRegistrations ==
  {H(<<"/", "a">>, "GET", FALSE, "echo"), H(<<"/", "a">>, "GET", TRUE, "tell"),
   H(<<"/", "a">>, "POST", FALSE, "mirror"), H(<<"/", "a", "/", "a">>, "GET", FALSE, "leave"),
   H(<<"/", "a", "/">>, "GET", FALSE, "deny"), H(<<"/">>, "GET", TRUE, "NULL")}
Ask(method, path, form, arg) == [method |-> method, path |-> path, form |-> form, arg |-> arg]
MCAsks ==
  {Ask("GET", p, "fine", TRUE) : p \in
     {<<"/">>, <<"/", "/">>, <<"/", "a">>, <<"/", "a", "/">>, <<"/", "a", "/", "a">>,
      <<"/", "a", "/", ".", ".">>, <<"/", "a", "/", "/", "a">>}}
  \cup {Ask("POST", <<"/", "a">>, "fine", FALSE), Ask("OTHER", <<"/", "a">>, "fine", FALSE),
        Ask("GET", <<"/", "a">>, "no uri", FALSE), Ask("GET", <<"/", "a">>, "no args", FALSE)}
MCFileAsks ==
  {Ask("GET", <<"/", "a">>, "fine", FALSE), Ask("POST", <<"/", "a">>, "fine", FALSE)}
MCBodies == {<<5>>, <<5, 6, 0, 6>>}
MCOldFile == <<5, 6>>
MCJunk == -1
=============================================================================

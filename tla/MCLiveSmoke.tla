---------------------------- MODULE MCLiveSmoke ----------------------------
(* A complete configuration, and those that deviate from it in one place   *)
(* or in two.                                                              *)
EXTENDS LiveSmoke

MCBundle == {"d1", "d2"}

MCArguments ==
  {[a |-> x[1], b |-> x[2], c |-> x[3]] :
     x \in {<<7, 5, 3>>, <<9, 9, 1>>, <<9, 8, 0>>, <<0, 1, 2>>}}

(* The defaults of the command line, which the CI job uses. *)
MCDefaults == {[a |-> 7, b |-> 5, c |-> 3]}

Token(own, inherited) ==
  [actor |-> "bot", iss |-> "server", signer |-> "k1",
   own |-> own, inherited |-> inherited, header |-> FALSE]

Complete ==
  [variables |->
     [secret |-> "k1", library |-> "client", key |-> "k1", actor |-> "bot",
      host |-> HostOf("server"), sha |-> "d1", source |-> "d1", pathSet |-> FALSE],
   tokens |->
     [runtime |-> Token({"server"}, {}), install |-> Token({"client"}, {"server"})],
   file |-> "d1"]

TokensLike(t) ==
  {NoToken, [t EXCEPT !.actor = "other"], [t EXCEPT !.iss = "other"],
   [t EXCEPT !.signer = "k2"], [t EXCEPT !.own = {}], [t EXCEPT !.header = TRUE],
   [t EXCEPT !.inherited = {}]}

OtherTokens(e) ==
  {[e EXCEPT !.tokens.runtime = t] : t \in TokensLike(e.tokens.runtime)}
  \cup {[e EXCEPT !.tokens.install = t] : t \in TokensLike(e.tokens.install)}

OtherVariables(e) ==
  {[e EXCEPT !.variables.secret = x] : x \in {"", "k2"}}
  \cup {[e EXCEPT !.variables.library = "other"]}
  \cup {[e EXCEPT !.variables.key = x] : x \in {"", "malformed", "k2"}}
  \cup {[e EXCEPT !.variables.actor = x] : x \in {"", "a/b", "other"}}
  \cup {[e EXCEPT !.variables.host = x] :
          x \in {EmptyHost, UnsetHost, HostOf("other"), [lib |-> "server", slash |-> TRUE]}}
  \cup {[e EXCEPT !.variables.pathSet = TRUE]}

OtherBundles(e) ==
  {[e EXCEPT !.variables.sha = x] : x \in {"", "d2"}}
  \cup {[e EXCEPT !.variables.source = x] : x \in {"", "d2"}}
  \cup {[e EXCEPT !.file = x] : x \in {"d2", NoBundle}}

Deviating(e) == {e} \cup OtherTokens(e) \cup OtherVariables(e) \cup OtherBundles(e)

WithoutBundle == [Complete EXCEPT !.file = NoBundle]
OtherKeyPair == [Complete EXCEPT !.variables.secret = "k2"]

MCEnvironment ==
  Deviating(Complete)
  \cup OtherBundles(WithoutBundle)
  \cup {[WithoutBundle EXCEPT !.variables.pathSet = TRUE]}
  \cup OtherVariables(OtherKeyPair)
=============================================================================

----------------------------- MODULE LiveTokens -----------------------------
(***************************************************************************)
(* The bearer tokens of the live smoke: how mint_ci_tokens.py makes them,  *)
(* what ci_preflight.sh asks of them, and when the verifier of the local   *)
(* kernel takes one for an install.                                        *)
(*                                                                         *)
(* A token names its actor and its issuer, is signed with a key, and       *)
(* claims libraries, its own and those of the token it inherits from.      *)
(* header says that it is written as an Authorization header, "Bearer ...".*)
(* Libraries are "server", "client" and "other"; a host is a library with  *)
(* or without a trailing slash.                                            *)
(***************************************************************************)
EXTENDS Naturals

Library == {"server", "client", "other"}

NoToken ==
  [actor |-> "", iss |-> "", signer |-> "", own |-> {}, inherited |-> {}, header |-> FALSE]

HostOf(lib) == [lib |-> lib, slash |-> FALSE]

(* TC_TOKEN_HOST, set to the empty string and not set at all. *)
EmptyHost == HostOf("")
UnsetHost == HostOf("unset")

(* An actor id with a slash in it is refused throughout. *)
Slashed(actor) == actor = "a/b"

-----------------------------------------------------------------------------
(* _mint_tokens.  env.secret is the private key, env.library the value of  *)
(* ILC_CLIENT_LIBRARY_ROOT.                                                *)

Mintable(env) ==
  /\ env.secret # "" /\ env.actor # "" /\ ~Slashed(env.actor)
  /\ env.host \notin {EmptyHost, UnsetHost}

MintedRuntime(env) ==
  [actor |-> env.actor, iss |-> env.host.lib, signer |-> env.secret,
   own |-> {env.host.lib}, inherited |-> {}, header |-> FALSE]

(* Fault: the install token is minted afresh, without the runtime token's  *)
(* claims.                                                                 *)
MintedInstallAlone(env) ==
  [actor |-> env.actor, iss |-> env.host.lib, signer |-> env.secret,
   own |-> {env.library}, inherited |-> {}, header |-> FALSE]

(* consume_and_sign: the runtime token, with the client library added. *)
MintedInstall(env) ==
  [actor |-> env.actor, iss |-> env.host.lib, signer |-> env.secret,
   own |-> {env.library}, inherited |-> MintedRuntime(env).own, header |-> FALSE]

-----------------------------------------------------------------------------
(* ci_preflight.sh. *)

(* collect_lib_claims: a token without claims of its own hands a new set   *)
(* down to the inherited one, and does not get it back.                    *)
CollectedClaims(t) == IF t.own = {} THEN {} ELSE t.own \cup t.inherited

(* validate_token_claims *)
ClaimsValid(t, env, expired, libs) ==
  /\ t.actor = env.actor
  /\ t.iss = env.host.lib
  /\ ~expired
  /\ libs \subseteq CollectedClaims(t)

(* The variables that are not tokens, and the bundle: a file at            *)
(* ILC_WASM_PATH if that is set, a source to fetch it from if not.         *)
ConfigComplete(env, bundlePresent) ==
  /\ env.sha # "" /\ env.key \notin {"", "malformed"}
  /\ env.actor # "" /\ ~Slashed(env.actor)
  /\ env.host \notin {EmptyHost, UnsetHost}
  /\ IF env.pathSet THEN bundlePresent ELSE env.source # ""

(* Fault: the install token is not asked for the client library. *)
TokensPassServerOnly(tokens, env, expired) ==
  /\ \A t \in {tokens.runtime, tokens.install} : t # NoToken /\ ~t.header
  /\ ClaimsValid(tokens.runtime, env, expired, {env.host.lib})
  /\ ClaimsValid(tokens.install, env, expired, {env.host.lib})

TokensPass(tokens, env, expired) ==
  /\ \A t \in {tokens.runtime, tokens.install} : t # NoToken /\ ~t.header
  /\ ClaimsValid(tokens.runtime, env, expired, {env.host.lib})
  /\ ClaimsValid(tokens.install, env, expired, {env.host.lib, "client"})

-----------------------------------------------------------------------------
(* The verifier of a kernel built for a host, an actor and a public key,   *)
(* as the message of wasm_install describes it.  What it makes of a host   *)
(* written with a trailing slash is left open.                             *)

NoVerifier == [host |-> EmptyHost, actor |-> "", key |-> ""]

Authorizes(v, t, expired) ==
  /\ v.key = t.signer /\ v.actor = t.actor /\ v.host.lib = t.iss
  /\ "client" \in t.own \cup t.inherited
  /\ ~expired

MayAccept(v, t, expired) == v = NoVerifier \/ Authorizes(v, t, expired)

MayReject(v, t, expired) == v = NoVerifier \/ v.host.slash \/ ~Authorizes(v, t, expired)
=============================================================================

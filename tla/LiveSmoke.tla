------------------------------ MODULE LiveSmoke ------------------------------
(***************************************************************************)
(* Bringing up the local evaluator: the CI job (mint tokens, preflight,    *)
(* provision the bundle, run the demonstration), the demonstration run by  *)
(* hand, and ILCProvider.from_environment, which take the same way through *)
(* build_local_kernel and wasm_install.  Meanwhile tokens expire, and the  *)
(* bundle's file may be replaced.                                          *)
(***************************************************************************)
EXTENDS LiveTokens, AbcEvaluation

CONSTANTS
  Environment,   \* the configurations to start from
  Bundle         \* digests of bundles

NoBundle == ""

VariableNames == {"secret", "library", "key", "actor", "host", "sha", "source", "pathSet"}

ASSUME EnvironmentAssumption ==
  \A e \in Environment :
    /\ DOMAIN e.variables = VariableNames
    /\ {e.variables.source, e.file} \subseteq Bundle \cup {NoBundle}

ASSUME BundleAssumption == NoBundle \notin Bundle

VARIABLES
  env,        \* the environment variables, and what the bundle's source delivers
  tokens,     \* TC_BEARER_TOKEN and TC_INSTALL_BEARER_TOKEN
  expired,    \* their time is over
  file,       \* the digest of the file at the bundle's path
  replaced,   \* it has been replaced since wasm_install hashed it
  caller,     \* "abc" or "provider"
  stage,      \* where the bring-up has got to
  passed,     \* the CI steps that have succeeded
  verifier,   \* of the kernel built
  installed,  \* the digest of the bundle the kernel has
  answer,     \* of the install
  outcome     \* "running", "success", or why it ended

setting == <<env, tokens, caller, passed>>

bringUp == <<stage, verifier, installed, answer, outcome>>

vars == <<setting, expired, file, replaced, bringUp, evaluation>>

TokenHost == IF env.host = UnsetHost THEN HostOf("server") ELSE env.host

Goto(s) == stage' = s /\ UNCHANGED outcome

End(how) == stage' = "ended" /\ outcome' = how

(* A step of the bring-up leaves the clock, the file and what is listed.   *)
Keep(others) == UNCHANGED <<expired, file, replaced, evaluation>> /\ UNCHANGED others

Answer == [method : BOOLEAN, status : {"204", "200", "none", "500"}]

NoAnswer == [method |-> FALSE, status |-> ""]

Init ==
  /\ \E e \in Environment :
       /\ env = e.variables /\ tokens = e.tokens /\ file = e.file
       /\ \/ caller = "abc" /\ stage \in {"mint", "provision", "inputs"}
          \/ caller = "provider" /\ stage = "inputs"
  /\ expired = FALSE /\ replaced = FALSE /\ passed = {}
  /\ verifier = NoVerifier /\ installed = NoBundle /\ answer = NoAnswer
  /\ outcome = "running"
  /\ Idle

-----------------------------------------------------------------------------
(* The steps of the CI job before the demonstration. *)

Mint ==
  /\ stage = "mint"
  /\ IF Mintable(env)
     THEN /\ tokens' = [runtime |-> MintedRuntime(env), install |-> MintedInstall(env)]
          /\ passed' = passed \cup {"mint"} /\ Goto("preflight")
     ELSE End("mint failed") /\ UNCHANGED <<tokens, passed>>
  /\ Keep(<<env, caller, verifier, installed, answer>>)

Preflight ==
  /\ stage = "preflight"
  /\ IF ConfigComplete(env, file # NoBundle) /\ TokensPass(tokens, env, expired)
     THEN passed' = passed \cup {"preflight"} /\ Goto("provision")
     ELSE End("preflight failed") /\ UNCHANGED passed
  /\ Keep(<<env, tokens, caller, verifier, installed, answer>>)

(* ci_live_smoke.sh fetches a bundle that is not there, and starts the     *)
(* demonstration only with the expected one.                               *)
ProvisionChecked == env.sha # "" /\ env.key # "" /\ NoToken \notin {tokens.runtime, tokens.install}

Fetch ==
  /\ stage = "provision" /\ ProvisionChecked /\ file = NoBundle /\ env.source # ""
  /\ file' = env.source
  /\ UNCHANGED <<setting, expired, replaced, bringUp, evaluation>>

StartDemonstration ==
  /\ stage = "provision" /\ ProvisionChecked /\ file = env.sha
  /\ env' = [env EXCEPT !.host = IF @ = EmptyHost THEN HostOf("server") ELSE @]
  /\ Goto("inputs")
  /\ Keep(<<tokens, caller, passed, verifier, installed, answer>>)

(* Fault: it waits for the expected bundle. *)
ProvisionFailsWithoutBundle ==
  /\ stage = "provision" /\ (~ProvisionChecked \/ file = NoBundle)
  /\ End("provision failed")
  /\ Keep(<<setting, verifier, installed, answer>>)

ProvisionFails ==
  /\ stage = "provision"
  /\ \/ ~ProvisionChecked
     \/ file = NoBundle          \* there is no source, or it does not deliver
     \/ file # env.sha /\ file # NoBundle
  /\ End("provision failed")
  /\ Keep(<<setting, verifier, installed, answer>>)

-----------------------------------------------------------------------------
(* _load_runtime_inputs of the demonstration; from_environment does with   *)
(* the runtime token if no install token is set, and looks for the file.   *)

InputsComplete ==
  /\ tokens.runtime # NoToken /\ env.key # "" /\ env.actor # ""
  /\ IF caller = "abc" THEN tokens.install # NoToken ELSE file # NoBundle

InstallTokens ==
  IF caller = "provider" /\ tokens.install = NoToken THEN {tokens.runtime, NoToken}
  ELSE {tokens.install}

LoadInputs ==
  /\ stage = "inputs"
  /\ IF InputsComplete THEN Goto("kernel") ELSE End("inputs missing")
  /\ Keep(<<setting, verifier, installed, answer>>)

(* build_local_kernel: which constructor there is, and which errors it     *)
(* meets, is the framework's.  The verifier is given up when the identity  *)
(* is incomplete, when the framework only has the plain constructor, and   *)
(* when a retry without the dependency finds fault with the public key.    *)
Identity == [host |-> TokenHost, actor |-> env.actor, key |-> env.key]

BuildKernel ==
  /\ stage = "kernel"
  /\ verifier' \in {NoVerifier} \cup (IF TokenHost = EmptyHost THEN {} ELSE {Identity})
  /\ Goto("bundle")
  /\ Keep(<<setting, installed, answer>>)

KernelFails ==
  /\ stage = "kernel"
  /\ End("kernel failed")
  /\ Keep(<<setting, verifier, installed, answer>>)

-----------------------------------------------------------------------------
(* wasm_install. *)

(* Fault: the digest is compared when there is no kernel to check tokens.  *)
DigestAsExpectedIfUnverified == verifier # NoVerifier \/ env.sha \in {"", file}

DigestAsExpected == env.sha \in {"", file}

HashBundle ==
  /\ stage = "bundle"
  /\ IF file = NoBundle \/ ~DigestAsExpected
     THEN End("bundle refused") /\ UNCHANGED replaced
     ELSE Goto("install") /\ replaced' = FALSE
  /\ UNCHANGED <<setting, expired, file, verifier, installed, answer, evaluation>>

(* The framework reads the file again, by its path. *)
Install ==
  /\ stage = "install" /\ file # NoBundle
  /\ \E t \in InstallTokens : MayAccept(verifier, t, expired)
  /\ answer' \in Answer
  /\ installed' = IF answer'.status = "500" THEN NoBundle ELSE file
  /\ Goto("status")
  /\ Keep(<<setting, verifier>>)

RejectToken ==
  /\ stage = "install"
  /\ \E t \in InstallTokens : MayReject(verifier, t, expired)
  /\ End("token rejected")
  /\ Keep(<<setting, verifier, installed, answer>>)

InstallFails ==
  /\ stage = "install"
  /\ End("install failed")
  /\ Keep(<<setting, verifier, installed, answer>>)

-----------------------------------------------------------------------------
(* The demonstration calls a status that is a method, and accepts 204      *)
(* only; from_environment does not, and accepts any success and none.      *)
StatusAccepted ==
  IF caller = "abc" THEN answer.status = "204"
  ELSE ~answer.method /\ answer.status \in {"none", "200", "204"}

CheckStatus ==
  /\ stage = "status"
  /\ IF ~StatusAccepted THEN End("status refused")
     ELSE IF caller = "provider" THEN End("success")
     ELSE Goto("evaluation")
  /\ Keep(<<setting, verifier, installed, answer>>)

Evaluate ==
  /\ stage = "evaluation"
  /\ Begin \/ EvaluationStep
  /\ UNCHANGED <<setting, expired, file, replaced, bringUp>>

(* main prints the verdict, OK or MISMATCH, and exits with 0. *)
Report ==
  /\ stage = "evaluation" /\ step \in {"verdict", "failed"}
  /\ End(IF step = "verdict" THEN "success" ELSE "evaluation failed")
  /\ Keep(<<setting, verifier, installed, answer>>)

-----------------------------------------------------------------------------
(* The surroundings. *)

Expire ==
  /\ ~expired /\ outcome = "running"
  /\ expired' = TRUE
  /\ UNCHANGED <<setting, file, replaced, bringUp, evaluation>>

(* Another process puts its bundle at the path, or takes it away: at most  *)
(* once before wasm_install hashes it and once after; an installed bundle  *)
(* is not read again.                                                      *)
Replace ==
  /\ outcome = "running" /\ ~replaced /\ installed = NoBundle
  /\ file' \in (Bundle \cup {NoBundle}) \ {file}
  /\ replaced' = TRUE
  /\ UNCHANGED <<setting, expired, bringUp, evaluation>>

Step ==
  \/ Mint \/ Preflight \/ Fetch \/ StartDemonstration \/ ProvisionFails
  \/ LoadInputs \/ BuildKernel \/ KernelFails
  \/ HashBundle \/ Install \/ RejectToken \/ InstallFails
  \/ CheckStatus \/ Evaluate \/ Report

Next == Step \/ Expire \/ Replace

Spec == Init /\ [][Next]_vars

(* Scripts and calls run to their end; nothing waits. *)
FairSpec == Spec /\ WF_vars(Step)

-----------------------------------------------------------------------------
(* The values that occur. *)
LiveTypeOK ==
  /\ expired \in BOOLEAN /\ replaced \in BOOLEAN
  /\ {file, installed} \subseteq Bundle \cup {NoBundle}
  /\ passed \subseteq {"mint", "preflight"}
  /\ verifier \in {NoVerifier, Identity}
  /\ answer \in Answer \cup {NoAnswer}
  /\ stage = "ended" <=> outcome # "running"
  /\ step \in {"idle", "add_ab", "add_neg_c", "verdict", "failed"}
  /\ recovered \in 0 .. (Moduli[1] - 1)

(* When a digest is expected, the kernel has the bundle with that digest,  *)
(* on whichever way, unless the file was replaced between wasm_install's   *)
(* reading of it and the framework's.                                      *)
InstalledIsExpected ==
  installed # NoBundle /\ env.sha # "" /\ ~replaced => installed = env.sha

(* What a passed preflight rules out: when the verifier still rejects the  *)
(* install token, the token has expired since, was signed with another key *)
(* (claims are decoded, signatures not checked), the host was written with *)
(* a slash, or there is no verifier of that identity.                      *)
RejectionIsExplained ==
  outcome = "token rejected" /\ "preflight" \in passed =>
    \/ expired \/ tokens.install.signer # env.key
    \/ env.host.slash \/ verifier = NoVerifier

(* The two scripts agree: tokens that mint_ci_tokens.py made of the same   *)
(* variables pass ci_preflight.sh, unless they have expired or the minted  *)
(* client library is not the one the preflight has written down.           *)
MintedTokensPass ==
  outcome = "preflight failed" /\ "mint" \in passed =>
    \/ expired \/ env.library # "client"
    \/ ~ConfigComplete(env, file # NoBundle)

(* Every bring-up ends, whatever expires or is replaced meanwhile. *)
Ends == <>(outcome # "running")

(* What the release checklist and DEVELOPMENT.md take the job for, a check *)
(* of the result: the demonstration ends with success only when its        *)
(* evaluation was right.                                                   *)
SuccessMeansExact == outcome = "success" /\ caller = "abc" => ok
=============================================================================

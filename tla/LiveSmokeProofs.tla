-------------------------- MODULE LiveSmokeProofs --------------------------
(***************************************************************************)
(* What the bring-up guarantees in every environment: the installed bundle *)
(* is the expected one, and a token rejected after a passed preflight is   *)
(* rejected for a reason the preflight does not look at.                   *)
(***************************************************************************)
EXTENDS LiveSmoke, TLAPS

Environmental == DOMAIN env = VariableNames

(* Starting the demonstration completes the host and changes nothing else. *)
LEMMA DemonstrationKeeps ==
  ASSUME Environmental, StartDemonstration
  PROVE  /\ Environmental'
         /\ \A x \in {"sha", "actor", "key"} : env'[x] = env[x]
         /\ env.host # EmptyHost => env'.host = env.host
<1> DEFINE h == IF env.host = EmptyHost THEN HostOf("server") ELSE env.host
<1>1. env' = [env EXCEPT !.host = h] BY DEF StartDemonstration
<1> HIDE DEF h
<1>2. DOMAIN env' = VariableNames BY <1>1 DEF Environmental
<1>3. env'.sha = env.sha /\ env'.actor = env.actor /\ env'.key = env.key /\ env'.host = h
  BY <1>1 DEF Environmental, VariableNames
<1>4. \A x \in {"sha", "actor", "key"} : env'[x] = env[x] BY <1>3
<1> QED BY <1>2, <1>3, <1>4 DEF Environmental, h

-----------------------------------------------------------------------------
(* The expected bundle.  Before the install nothing is installed; at the   *)
(* install the file is still the one that was hashed, or has been          *)
(* replaced.                                                               *)

NotYetInstalled == {"mint", "preflight", "provision", "inputs", "kernel", "bundle", "install"}

BundleInv ==
  /\ Environmental
  /\ stage \in NotYetInstalled => installed = NoBundle
  /\ stage = "install" /\ env.sha # "" /\ ~replaced => file = env.sha
  /\ InstalledIsExpected

LEMMA BundleInit == Init => BundleInv
BY EnvironmentAssumption
   DEF Init, BundleInv, Environmental, InstalledIsExpected, NotYetInstalled

LEMMA BundleStep == BundleInv /\ [Next]_vars => BundleInv'
<1> SUFFICES ASSUME BundleInv, [Next]_vars PROVE BundleInv'
  OBVIOUS
<1> USE DEF BundleInv, Environmental, InstalledIsExpected, NotYetInstalled,
            setting, bringUp, Goto, End, Keep
<1>1. CASE Mint BY <1>1 DEF Mint
<1>2. CASE Preflight BY <1>2 DEF Preflight
<1>3. CASE Fetch BY <1>3 DEF Fetch
<1>4. CASE StartDemonstration
  <2>1. DOMAIN env' = VariableNames /\ env'.sha = env.sha
    BY <1>4, DemonstrationKeeps DEF Environmental
  <2> QED BY <1>4, <2>1 DEF StartDemonstration
<1>5. CASE ProvisionFails BY <1>5 DEF ProvisionFails
<1>6. CASE LoadInputs BY <1>6 DEF LoadInputs
<1>7. CASE BuildKernel BY <1>7 DEF BuildKernel
<1>8. CASE KernelFails BY <1>8 DEF KernelFails
<1>9. CASE HashBundle BY <1>9 DEF HashBundle, DigestAsExpected
<1>10. CASE Install BY <1>10 DEF Install
<1>11. CASE RejectToken BY <1>11 DEF RejectToken
<1>12. CASE InstallFails BY <1>12 DEF InstallFails
<1>13. CASE CheckStatus BY <1>13 DEF CheckStatus
<1>14. CASE Evaluate BY <1>14 DEF Evaluate
<1>15. CASE Report BY <1>15 DEF Report
<1>16. CASE Expire BY <1>16 DEF Expire
<1>17. CASE Replace BY <1>17 DEF Replace
<1>18. CASE UNCHANGED vars BY <1>18 DEF vars
<1> QED
  BY <1>1, <1>2, <1>3, <1>4, <1>5, <1>6, <1>7, <1>8, <1>9, <1>10, <1>11, <1>12, <1>13,
     <1>14, <1>15, <1>16, <1>17, <1>18 DEF Next, Step

(* The kernel has the bundle with the expected digest, whoever brings it   *)
(* up in whatever environment, unless the file is replaced between the two *)
(* readings.                                                               *)
THEOREM ExpectedBundle == Spec => []InstalledIsExpected
<1>1. BundleInv => InstalledIsExpected BY DEF BundleInv
<1> QED BY BundleInit, BundleStep, <1>1, PTL DEF Spec

-----------------------------------------------------------------------------
(* Rejected tokens.  What a passed preflight has established of the        *)
(* install token stays true, because neither the tokens nor the variables  *)
(* it looked at change any more, and the verifier is built from them.      *)

Preflighted ==
  /\ tokens.install # NoToken
  /\ tokens.install.actor = env.actor
  /\ tokens.install.iss = env.host.lib
  /\ "client" \in tokens.install.own \cup tokens.install.inherited
  /\ env.host \notin {EmptyHost, UnsetHost}

BeforeKernel == {"mint", "preflight", "provision", "inputs", "kernel"}

TokenInv ==
  /\ Environmental
  /\ "preflight" \in passed => Preflighted /\ stage \notin {"mint", "preflight"}
  /\ verifier \in {NoVerifier, Identity}
  /\ stage \in BeforeKernel => verifier = NoVerifier
  /\ outcome = "token rejected" => stage = "ended"
  /\ RejectionIsExplained

LEMMA TokenInit == Init => TokenInv
BY EnvironmentAssumption
   DEF Init, TokenInv, Environmental, BeforeKernel, RejectionIsExplained

(* A preflight that passes has looked at what Preflighted says. *)
LEMMA PreflightEstablishes ==
  ConfigComplete(env, file # NoBundle) /\ TokensPass(tokens, env, expired) => Preflighted
BY DEF ConfigComplete, TokensPass, ClaimsValid, CollectedClaims, Preflighted

(* The verifier made of a preflighted environment only rejects the install *)
(* token for one of the reasons listed.                                    *)
LEMMA RejectionReasons ==
  ASSUME Preflighted, verifier \in {NoVerifier, Identity},
         NEW t \in InstallTokens, MayReject(verifier, t, expired)
  PROVE  expired \/ tokens.install.signer # env.key \/ env.host.slash \/ verifier = NoVerifier
<1>1. t = tokens.install BY DEF InstallTokens, Preflighted
<1>2. TokenHost = env.host BY DEF TokenHost, Preflighted
<1>3. CASE verifier = Identity
  <2>1. verifier.host = env.host /\ verifier.actor = env.actor /\ verifier.key = env.key
    BY <1>2, <1>3 DEF Identity
  <2> QED BY <1>1, <2>1 DEF MayReject, Authorizes, Preflighted
<1> QED BY <1>3

LEMMA TokenStep == TokenInv /\ [Next]_vars => TokenInv'
<1> SUFFICES ASSUME TokenInv, [Next]_vars PROVE TokenInv'
  OBVIOUS
<1> USE DEF TokenInv, Environmental, BeforeKernel, RejectionIsExplained, Preflighted,
            Identity, TokenHost, setting, bringUp, Goto, End, Keep
<1>1. CASE Mint BY <1>1 DEF Mint
<1>2. CASE Preflight BY <1>2, PreflightEstablishes DEF Preflight
<1>3. CASE Fetch BY <1>3 DEF Fetch
<1>4. CASE StartDemonstration
  <2>1. DOMAIN env' = VariableNames /\ env'.actor = env.actor /\ env'.key = env.key
    BY <1>4, DemonstrationKeeps DEF Environmental
  <2>2. env.host # EmptyHost => env'.host = env.host
    BY <1>4, DemonstrationKeeps DEF Environmental
  <2> QED BY <1>4, <2>1, <2>2 DEF StartDemonstration
<1>5. CASE ProvisionFails BY <1>5 DEF ProvisionFails
<1>6. CASE LoadInputs BY <1>6 DEF LoadInputs
<1>7. CASE BuildKernel BY <1>7 DEF BuildKernel
<1>8. CASE KernelFails BY <1>8 DEF KernelFails
<1>9. CASE HashBundle BY <1>9 DEF HashBundle
<1>10. CASE Install BY <1>10 DEF Install
<1>11. CASE RejectToken BY <1>11, RejectionReasons DEF RejectToken
<1>12. CASE InstallFails BY <1>12 DEF InstallFails
<1>13. CASE CheckStatus BY <1>13 DEF CheckStatus
<1>14. CASE Evaluate BY <1>14 DEF Evaluate
<1>15. CASE Report BY <1>15 DEF Report
<1>16. CASE Expire BY <1>16 DEF Expire
<1>17. CASE Replace BY <1>17 DEF Replace
<1>18. CASE UNCHANGED vars BY <1>18 DEF vars
<1> QED
  BY <1>1, <1>2, <1>3, <1>4, <1>5, <1>6, <1>7, <1>8, <1>9, <1>10, <1>11, <1>12, <1>13,
     <1>14, <1>15, <1>16, <1>17, <1>18 DEF Next, Step

(* After a passed preflight the install token is rejected only if it has   *)
(* expired since, was signed with a key other than the configured one, or  *)
(* meets a verifier that is not the one of the configured host.            *)
THEOREM ExplainedRejections == Spec => []RejectionIsExplained
<1>1. TokenInv => RejectionIsExplained BY DEF TokenInv
<1> QED BY TokenInit, TokenStep, <1>1, PTL DEF Spec

-----------------------------------------------------------------------------
(* Minted tokens.  A preflight that follows a mint is given the tokens     *)
(* that were minted of the variables it looks at.                          *)

MintInv ==
  /\ stage = "preflight" => Mintable(env)
       /\ tokens = [runtime |-> MintedRuntime(env), install |-> MintedInstall(env)]
  /\ stage \in {"mint"} => passed = {}
  /\ outcome = "preflight failed" => stage = "ended"
  /\ MintedTokensPass

LEMMA MintInit == Init => MintInv
BY DEF Init, MintInv, MintedTokensPass

LEMMA MintedPass ==
  ASSUME Mintable(env), env.library = "client", ~expired,
         tokens = [runtime |-> MintedRuntime(env), install |-> MintedInstall(env)]
  PROVE  TokensPass(tokens, env, expired)
<1>1. tokens.runtime = MintedRuntime(env) /\ tokens.install = MintedInstall(env)
  OBVIOUS
<1>2. env.actor # ""
  BY DEF Mintable
<1>3. \A t \in {tokens.runtime, tokens.install} : t # NoToken /\ ~t.header
  <2>1. MintedRuntime(env).actor # NoToken.actor /\ ~MintedRuntime(env).header
    BY <1>2 DEF MintedRuntime, NoToken
  <2>2. MintedInstall(env).actor # NoToken.actor /\ ~MintedInstall(env).header
    BY <1>2 DEF MintedInstall, NoToken
  <2> QED
    BY <1>1, <2>1, <2>2
<1>4. ClaimsValid(tokens.runtime, env, expired, {env.host.lib})
  BY <1>1 DEF ClaimsValid, CollectedClaims, MintedRuntime
<1>5. ClaimsValid(tokens.install, env, expired, {env.host.lib, "client"})
  BY <1>1 DEF ClaimsValid, CollectedClaims, MintedInstall, MintedRuntime
<1> QED
  BY <1>3, <1>4, <1>5 DEF TokensPass

LEMMA MintStep == MintInv /\ [Next]_vars => MintInv'
<1> SUFFICES ASSUME MintInv, [Next]_vars PROVE MintInv'
  OBVIOUS
<1> USE DEF MintInv, MintedTokensPass, setting, bringUp, Goto, End, Keep
<1>1. CASE Mint BY <1>1 DEF Mint
<1>2. CASE Preflight
  BY <1>2, MintedPass DEF Preflight
<1>3. CASE Fetch BY <1>3 DEF Fetch
<1>4. CASE StartDemonstration BY <1>4 DEF StartDemonstration
<1>5. CASE ProvisionFails BY <1>5 DEF ProvisionFails
<1>6. CASE LoadInputs BY <1>6 DEF LoadInputs
<1>7. CASE BuildKernel BY <1>7 DEF BuildKernel
<1>8. CASE KernelFails BY <1>8 DEF KernelFails
<1>9. CASE HashBundle BY <1>9 DEF HashBundle
<1>10. CASE Install BY <1>10 DEF Install
<1>11. CASE RejectToken BY <1>11 DEF RejectToken
<1>12. CASE InstallFails BY <1>12 DEF InstallFails
<1>13. CASE CheckStatus BY <1>13 DEF CheckStatus
<1>14. CASE Evaluate BY <1>14 DEF Evaluate
<1>15. CASE Report BY <1>15 DEF Report
<1>16. CASE Expire BY <1>16 DEF Expire
<1>17. CASE Replace BY <1>17 DEF Replace
<1>18. CASE UNCHANGED vars BY <1>18 DEF vars
<1> QED
  BY <1>1, <1>2, <1>3, <1>4, <1>5, <1>6, <1>7, <1>8, <1>9, <1>10, <1>11, <1>12, <1>13,
     <1>14, <1>15, <1>16, <1>17, <1>18 DEF Next, Step

(* Tokens the mint script made pass the preflight of the same variables,   *)
(* unless they have expired, the library is not the preflight's, or the    *)
(* configuration is incomplete.                                            *)
THEOREM MintedTokens == Spec => []MintedTokensPass
<1>1. MintInv => MintedTokensPass BY DEF MintInv
<1> QED BY MintInit, MintStep, <1>1, PTL DEF Spec

-----------------------------------------------------------------------------
(* The demonstration's evaluation.  Counts say which routes have been      *)
(* executed; residues are those of the first modulus, the one the          *)
(* demonstration recovers.                                                 *)

Open == value \in {NoValue, Plan}

CountInv ==
  /\ step \in {"idle", "add_ab", "add_neg_c", "verdict", "failed"}
  /\ executed \in [{"add_ab", "add_neg_c"} -> {0, 1}]
  /\ step = "idle" => value = NoValue /\ executed["add_ab"] = 0 /\ executed["add_neg_c"] = 0
  /\ step = "add_ab" => /\ executed["add_ab"] = IF Open THEN 0 ELSE 1
                        /\ executed["add_neg_c"] = 0
  /\ step = "add_neg_c" => /\ executed["add_ab"] = 1
                           /\ executed["add_neg_c"] = IF Open THEN 0 ELSE 1
  /\ step = "verdict" => executed["add_ab"] = 1 /\ executed["add_neg_c"] = 1

Residue == 0 .. 16

(* The residue a sound evaluator ends the step with. *)
Right == IF step = "add_ab" THEN (args.a + args.b) % 17 ELSE (args.a + args.b - args.c) % 17

Limbs == value.kind \in {"ciphertext", "result"}

ResidueInv ==
  /\ args \in [a : Int, b : Int, c : Int]
  /\ Limbs /\ step \in {"add_ab", "add_neg_c"} =>
       value.limbs[1] \in Residue /\ (sound => value.limbs[1] = Right)
  /\ step = "add_neg_c" =>
       sum[1] \in Residue /\ (sound => sum[1] = (args.a + args.b) % 17)
  /\ recovered \in Residue
  /\ step = "verdict" /\ sound => recovered = (args.a + args.b - args.c) % 17

LEMMA Remainders ==
  /\ \A m, n \in Int : ((m % 17) + (n % 17)) % 17 = (m + n) % 17
  /\ \A m \in Int : m % 17 \in Residue
  /\ \A m \in Int : m % 17 = m <=> m \in Residue
BY DEF Residue

LEMMA FirstModulus == Moduli[1] = 17 /\ DOMAIN Moduli = {1, 2}
BY DEF Moduli

LEMMA FirstLimb ==
  ASSUME NEW m \in Int
  PROVE  Ciphertext(m)[1] = m % 17
BY FirstModulus DEF Ciphertext

LEMMA EvaluationSteps ==
  ASSUME [Next]_vars
  PROVE  UNCHANGED evaluation \/ Begin \/ EvaluationStep
BY DEF Next, Step, vars, bringUp, setting, Keep, Mint, Preflight, Fetch, StartDemonstration,
       ProvisionFails, LoadInputs, BuildKernel, KernelFails, HashBundle, Install, RejectToken,
       InstallFails, CheckStatus, Evaluate, Report, Expire, Replace

(* An execution of a route answers, and counts. *)
LEMMA AnswersAreNot ==
  ASSUME NEW limbs, NEW v \in Answers(limbs)
  PROVE  /\ v.kind \in {"ciphertext", "result", "empty", "error", "unreadable"}
         /\ v.kind \in {"ciphertext", "result"} => v.limbs = limbs
         /\ v \notin {NoValue, Plan}
<1>1. CASE v \in [kind : {"ciphertext", "result"}, limbs : {limbs}]
  BY <1>1 DEF NoValue, Plan
<1>2. CASE v \in [kind : {"empty", "error", "unreadable"}, limbs : {<<>>}]
  BY <1>2 DEF NoValue, Plan
<1> QED
  BY <1>1, <1>2 DEF Answers

LEMMA CountInit == Init => CountInv
BY DEF Init, Idle, CountInv

LEMMA CountStep == CountInv /\ [Next]_vars => CountInv'
<1> SUFFICES ASSUME CountInv, [Next]_vars PROVE CountInv'
  OBVIOUS
<1> USE DEF CountInv, Open
<1>1. CASE UNCHANGED evaluation
  BY <1>1 DEF evaluation
<1>2. CASE Begin
  BY <1>2 DEF Begin
<1>3. CASE EvaluationStep
  <2>0. step \in {"add_ab", "add_neg_c"} /\ NoValue # Plan
    BY <1>3 DEF EvaluationStep, NoValue, Plan
  <2>1. ASSUME Execute, value \in {NoValue, Plan}, UNCHANGED step
        PROVE  CountInv'
    <3>1. PICK limbs : value' \in Answers(limbs)
      BY <2>1 DEF Execute
    <3>2. value' \notin {NoValue, Plan}
      BY <3>1, AnswersAreNot
    <3>3. executed' = [executed EXCEPT ![step] = @ + 1]
      BY <2>1 DEF Execute
    <3>4. executed[step] = 0
      BY <2>0, <2>1
    <3> QED
      BY <2>0, <2>1, <3>2, <3>3, <3>4
  <2>2. CASE CallEagerly
    BY <2>1, <2>2 DEF CallEagerly
  <2>3. CASE CallForPlan
    BY <2>0, <2>3 DEF CallForPlan
  <2>4. CASE ExecutePlan
    BY <2>1, <2>4 DEF ExecutePlan
  <2>5. CASE UseAnswer
    BY <2>0, <2>5 DEF UseAnswer
  <2>6. CASE UnexpectedAnswer \/ RouteFails
    BY <2>0, <2>6 DEF UnexpectedAnswer, RouteFails
  <2> QED
    BY <1>3, <2>2, <2>3, <2>4, <2>5, <2>6 DEF EvaluationStep
<1> QED
  BY <1>1, <1>2, <1>3, EvaluationSteps

(* Whatever the backend context, no route is executed twice, and none is   *)
(* left out before a verdict.                                              *)
THEOREM RoutesOnce == Spec => []EachRouteOnce
<1>1. CountInv => EachRouteOnce
  BY DEF CountInv, EachRouteOnce
<1> QED BY CountInit, CountStep, <1>1, PTL DEF Spec

-----------------------------------------------------------------------------
(* What an execution answers with. *)
LEMMA ExecutedRight ==
  ASSUME ResidueInv, CountInv, step \in {"add_ab", "add_neg_c"}, Execute,
         UNCHANGED <<args, sound, step>>
  PROVE  (Limbs => value.limbs[1] \in Residue /\ (sound => value.limbs[1] = Right))'
<1>1. PICK limbs \in AddRoute(Operands[1], Operands[2]) : value' \in Answers(limbs)
  BY DEF Execute
<1>2. args.a \in Int /\ args.b \in Int /\ args.c \in Int /\ -args.c \in Int
  BY DEF ResidueInv
<1> DEFINE x == Operands[1][1]
           y == Operands[2][1]
           m == IF step = "add_ab" THEN args.a + args.b ELSE args.a + args.b - args.c
<1>3. x \in Int /\ y \in Int /\ (sound => (x + y) % 17 = m % 17)
  <2>1. CASE step = "add_ab"
    <3>1. x = args.a % 17 /\ y = args.b % 17
      BY <1>2, <2>1, FirstLimb DEF Operands
    <3> QED
      BY <1>2, <2>1, <3>1, Remainders DEF Residue
  <2>2. CASE step = "add_neg_c"
    <3>1. x = sum[1] /\ y = (-args.c) % 17
      BY <1>2, <2>2, FirstLimb DEF Operands
    <3>2. sum[1] \in Residue /\ (sound => sum[1] = (args.a + args.b) % 17)
      BY <2>2 DEF ResidueInv
    <3> DEFINE s == args.a + args.b
               n == -args.c
    <3>3. s \in Int /\ n \in Int /\ s + n = m
      BY <1>2, <2>2
    <3>4. ((s % 17) + (n % 17)) % 17 = (s + n) % 17 /\ n % 17 \in Residue
      BY <3>3, Remainders
    <3>5. sum[1] \in Residue /\ (sound => sum[1] = s % 17) /\ y = n % 17
      BY <3>1, <3>2
    <3> HIDE DEF s, n, x, y, m
    <3>6. x \in Int /\ y \in Int
      BY <3>1, <3>4, <3>5 DEF Residue
    <3>7. sound => (x + y) % 17 = m % 17
      BY <3>1, <3>3, <3>4, <3>5
    <3> QED
      BY <3>6, <3>7
  <2> QED
    BY <2>1, <2>2
<1>4. m \in Int
  BY <1>2
<1> HIDE DEF x, y, m
<1>5. limbs[1] = (x + y) % 17 \/ (~sound /\ limbs[1] = 0)
  <2>1. CASE limbs = [i \in DOMAIN Moduli |-> (Operands[1][i] + Operands[2][i]) % Moduli[i]]
    <3>1. limbs[1] = (Operands[1][1] + Operands[2][1]) % Moduli[1]
      BY <2>1, FirstModulus
    <3> QED
      BY <3>1, FirstModulus DEF x, y
  <2>2. CASE ~sound /\ limbs = Ciphertext(0)
    <3>1. limbs[1] = 0 % 17
      BY <2>2, FirstLimb
    <3> QED
      BY <2>2, <3>1
  <2> QED
    BY <2>1, <2>2 DEF AddRoute
<1>6. limbs[1] \in Residue /\ (sound => limbs[1] = m % 17)
  <2>1. x + y \in Int
    BY <1>3
  <2>2. (x + y) % 17 \in Residue /\ 0 \in Residue
    BY <2>1, Remainders DEF Residue
  <2> QED
    BY <1>3, <1>5, <2>2
<1>7. Limbs' => value'.limbs = limbs
  BY <1>1, AnswersAreNot DEF Limbs
<1>8. Right' = m % 17
  BY DEF Right, m
<1> QED
  BY <1>6, <1>7, <1>8

LEMMA ResidueInit == Init => ResidueInv
BY DEF Init, Idle, ResidueInv, Limbs, NoValue, Residue

LEMMA ResidueStep == ResidueInv /\ CountInv /\ [Next]_vars => ResidueInv'
<1> SUFFICES ASSUME ResidueInv, CountInv, [Next]_vars PROVE ResidueInv'
  OBVIOUS
<1>1. CASE UNCHANGED evaluation
  BY <1>1 DEF evaluation, ResidueInv, Limbs, Right
<1>2. CASE Begin
  <2>1. value = NoValue
    BY <1>2 DEF Begin, CountInv
  <2> QED
    BY <1>2, <2>1, ArgumentsAssumption DEF Begin, ResidueInv, Limbs, NoValue
<1>3. CASE EvaluationStep
  <2>0. step \in {"add_ab", "add_neg_c"}
    BY <1>3 DEF EvaluationStep, CountInv
  <2>1. CASE CallEagerly \/ ExecutePlan
    <3>1. Execute /\ UNCHANGED <<args, sound, step, sum, recovered>>
      BY <2>1 DEF CallEagerly, ExecutePlan
    <3>2. (Limbs => value.limbs[1] \in Residue /\ (sound => value.limbs[1] = Right))'
      BY <2>0, <3>1, ExecutedRight
    <3> QED
      BY <3>1, <3>2 DEF ResidueInv
  <2>2. CASE CallForPlan
    BY <2>2 DEF CallForPlan, ResidueInv, Limbs, Plan
  <2>3. CASE UseAnswer
    <3>1. Limbs /\ value'= NoValue /\ ~Limbs'
      BY <2>3 DEF UseAnswer, Usable, Limbs, NoValue
    <3>2. value.limbs[1] \in Residue /\ (sound => value.limbs[1] = Right)
      BY <2>0, <3>1 DEF ResidueInv
    <3>3. UNCHANGED <<args, sound>>
      BY <2>3 DEF UseAnswer
    <3>4. CASE step = "add_ab"
      <4>1. step' = "add_neg_c" /\ sum'[1] = value.limbs[1] /\ recovered' = recovered
        BY <2>3, <3>4 DEF UseAnswer
      <4> QED
        BY <3>1, <3>2, <3>3, <3>4, <4>1 DEF ResidueInv, Right
    <3>5. CASE step = "add_neg_c"
      <4>1. step' = "verdict" /\ recovered' = value.limbs[1]
        BY <2>3, <3>5 DEF UseAnswer, FirstResultComponent
      <4> QED
        BY <3>1, <3>2, <3>3, <3>5, <4>1 DEF ResidueInv, Right
    <3> QED
      BY <2>0, <3>4, <3>5
  <2>4. CASE UnexpectedAnswer \/ RouteFails
    <3>1. step' = "failed" /\ UNCHANGED <<args, sound, value, sum, recovered>>
      BY <2>4 DEF UnexpectedAnswer, RouteFails
    <3> QED
      BY <3>1 DEF ResidueInv
  <2> QED
    BY <1>3, <2>1, <2>2, <2>3, <2>4 DEF EvaluationStep
<1> QED
  BY <1>1, <1>2, <1>3, EvaluationSteps

(* Of a sound evaluator the demonstration says OK exactly when a + b - c   *)
(* lies in the range of the first modulus, for all integers.               *)
THEOREM VerdictInRange == Spec => []OkWithinRange
<1>1. ResidueInv => OkWithinRange
  <2> SUFFICES ASSUME ResidueInv, step = "verdict", sound
      PROVE  ok <=> Expected \in 0 .. (Moduli[1] - 1)
    BY DEF OkWithinRange
  <2>1. Expected \in Int
    BY DEF ResidueInv, Expected
  <2>2. recovered = Expected % 17
    BY DEF ResidueInv, Expected
  <2>3. 0 .. (Moduli[1] - 1) = Residue
    BY FirstModulus DEF Residue
  <2> QED
    BY <2>1, <2>2, <2>3, Remainders DEF ok
<1> QED BY CountInit, CountStep, ResidueInit, ResidueStep, <1>1, PTL DEF Spec

-----------------------------------------------------------------------------
(* The values that occur. *)

BringUpTypes ==
  /\ expired \in BOOLEAN /\ replaced \in BOOLEAN
  /\ {file, installed, env.source} \subseteq Bundle \cup {NoBundle}
  /\ passed \subseteq {"mint", "preflight"}
  /\ answer \in Answer \cup {NoAnswer}
  /\ stage = "ended" <=> outcome # "running"

LEMMA BringUpInit == Init => BringUpTypes
BY EnvironmentAssumption DEF Init, BringUpTypes

LEMMA BringUpStep == Environmental /\ BringUpTypes /\ [Next]_vars => BringUpTypes'
<1> SUFFICES ASSUME Environmental, BringUpTypes, [Next]_vars PROVE BringUpTypes'
  OBVIOUS
<1> USE DEF BringUpTypes, setting, bringUp, Goto, End, Keep
<1>1. CASE Mint BY <1>1 DEF Mint
<1>2. CASE Preflight BY <1>2 DEF Preflight
<1>3. CASE Fetch BY <1>3 DEF Fetch
<1>4. CASE StartDemonstration
  <2>1. env'.source = env.source
    BY <1>4 DEF StartDemonstration, Environmental, VariableNames
  <2> QED BY <1>4, <2>1 DEF StartDemonstration
<1>5. CASE ProvisionFails BY <1>5 DEF ProvisionFails
<1>6. CASE LoadInputs BY <1>6 DEF LoadInputs
<1>7. CASE BuildKernel BY <1>7 DEF BuildKernel
<1>8. CASE KernelFails BY <1>8 DEF KernelFails
<1>9. CASE HashBundle BY <1>9 DEF HashBundle
<1>10. CASE Install BY <1>10 DEF Install
<1>11. CASE RejectToken BY <1>11 DEF RejectToken
<1>12. CASE InstallFails BY <1>12 DEF InstallFails
<1>13. CASE CheckStatus BY <1>13 DEF CheckStatus
<1>14. CASE Evaluate BY <1>14 DEF Evaluate
<1>15. CASE Report BY <1>15 DEF Report
<1>16. CASE Expire BY <1>16 DEF Expire
<1>17. CASE Replace BY <1>17 DEF Replace
<1>18. CASE UNCHANGED vars BY <1>18 DEF vars
<1> QED
  BY <1>1, <1>2, <1>3, <1>4, <1>5, <1>6, <1>7, <1>8, <1>9, <1>10, <1>11, <1>12, <1>13,
     <1>14, <1>15, <1>16, <1>17, <1>18 DEF Next, Step

(* The values of the bring-up and of the evaluation are of their types. *)
THEOREM LiveTypes == Spec => []LiveTypeOK
<1>1. BundleInv => Environmental
  BY DEF BundleInv
<1>2. BringUpTypes /\ TokenInv /\ CountInv /\ ResidueInv => LiveTypeOK
  <2> SUFFICES ASSUME BringUpTypes, TokenInv, CountInv, ResidueInv PROVE LiveTypeOK
    OBVIOUS
  <2>1. recovered \in 0 .. (Moduli[1] - 1)
    BY FirstModulus DEF ResidueInv, Residue
  <2>2. verifier \in {NoVerifier, Identity}
    BY DEF TokenInv
  <2>3. step \in {"idle", "add_ab", "add_neg_c", "verdict", "failed"}
    BY DEF CountInv
  <2> QED
    BY <2>1, <2>2, <2>3 DEF BringUpTypes, LiveTypeOK
<1> QED
  BY BundleInit, BundleStep, BringUpInit, BringUpStep, TokenInit, TokenStep, CountInit, CountStep,
     ResidueInit, ResidueStep, <1>1, <1>2, PTL DEF Spec
=============================================================================

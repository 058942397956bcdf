---------------------------- MODULE AbcEvaluation ----------------------------
(***************************************************************************)
(* evaluate_abc: a + b - c by two calls of the client's add route on       *)
(* unencrypted residues.  Whether client.add executes the route or returns *)
(* a plan depends on the backend context; _resolve executes plans and      *)
(* decodes responses.                                                      *)
(***************************************************************************)
EXTENDS Integers, Sequences

CONSTANT Arguments  \* the [a, b, c] of the command line

ASSUME ArgumentsAssumption == Arguments \subseteq [a : Int, b : Int, c : Int]

VARIABLES
  args,      \* a, b and c
  sound,     \* the local evaluator adds as it should
  eager,     \* the backend context executes routes at once
  step,      \* "idle", "add_ab", "add_neg_c", "verdict" or "failed"
  value,     \* what client.add has returned in this step
  sum,       \* limbs of the ciphertext of a + b
  executed,  \* step -> how often its route has been executed
  recovered

evaluation == <<args, sound, eager, step, value, sum, executed, recovered>>

Moduli == <<17, 19>>

Expected == args.a + args.b - args.c

ok == recovered = Expected

(* _ciphertext: every limb holds the value's residue. *)
Ciphertext(v) == [i \in DOMAIN Moduli |-> v % Moduli[i]]

(* The add route of the local evaluator; one that is not sound returns     *)
(* zeros now and then.                                                     *)
AddRoute(x, y) ==
  {[i \in DOMAIN Moduli |-> (x[i] + y[i]) % Moduli[i]]}
  \cup (IF sound THEN {} ELSE {Ciphertext(0)})

(* Fault: c is added. *)
OperandsAddingC ==
  IF step = "add_ab" THEN <<Ciphertext(args.a), Ciphertext(args.b)>>
  ELSE <<sum, Ciphertext(args.c)>>

Operands ==
  IF step = "add_ab" THEN <<Ciphertext(args.a), Ciphertext(args.b)>>
  ELSE <<sum, Ciphertext(-args.c)>>

(* What client.add may have returned: nothing yet, a plan, or the answer   *)
(* of the route.  A ciphertext and a bare result carry limbs; an empty     *)
(* response (204) and an error with a readable body carry none; an         *)
(* unreadable body makes _resolve raise.                                   *)
NoValue == [kind |-> "none", limbs |-> <<>>]
Plan == [kind |-> "plan", limbs |-> <<>>]
Answers(limbs) ==
  [kind : {"ciphertext", "result"}, limbs : {limbs}]
  \cup [kind : {"empty", "error", "unreadable"}, limbs : {<<>>}]

Idle ==
  /\ args = [a |-> 0, b |-> 0, c |-> 0] /\ sound = TRUE /\ eager = FALSE
  /\ step = "idle"
  /\ value = NoValue /\ sum = <<>>
  /\ executed = [s \in {"add_ab", "add_neg_c"} |-> 0]
  /\ recovered = 0

Execute ==
  /\ \E limbs \in AddRoute(Operands[1], Operands[2]) : value' \in Answers(limbs)
  /\ executed' = [executed EXCEPT ![step] = @ + 1]

(* main reads the arguments and opens the context; whether that executes   *)
(* eagerly is the framework's default.                                     *)
Begin ==
  /\ step = "idle"
  /\ step' = "add_ab"
  /\ args' \in Arguments /\ sound' \in BOOLEAN /\ eager' \in BOOLEAN
  /\ UNCHANGED <<value, sum, executed, recovered>>

-----------------------------------------------------------------------------
(* client.add and _maybe_execute. *)

(* Fault: the eager answer is dropped and the plan is returned. *)
CallEagerlyForPlan ==
  /\ value = NoValue /\ eager
  /\ value' = Plan
  /\ executed' = [executed EXCEPT ![step] = @ + 1]
  /\ UNCHANGED <<args, sound, eager, step, sum, recovered>>

CallEagerly ==
  /\ value = NoValue /\ eager
  /\ Execute
  /\ UNCHANGED <<args, sound, eager, step, sum, recovered>>

CallForPlan ==
  /\ value = NoValue /\ ~eager
  /\ value' = Plan
  /\ UNCHANGED <<args, sound, eager, step, sum, executed, recovered>>

(* _resolve of a plan. *)
ExecutePlan ==
  /\ value = Plan
  /\ Execute
  /\ UNCHANGED <<args, sound, eager, step, sum, recovered>>

(* The first answer must be a ciphertext; of the second, a bare result     *)
(* will do.                                                                *)
Usable(v) ==
  v.kind = "ciphertext" \/ (step = "add_neg_c" /\ v.kind = "result")

(* Fault: the residue of the last modulus. *)
LastResultComponent(limbs) == limbs[Len(limbs)]

(* _first_result_component: the residue of the first modulus. *)
FirstResultComponent(limbs) == limbs[1]

UseAnswer ==
  /\ value \notin {NoValue, Plan} /\ Usable(value)
  /\ IF step = "add_ab"
     THEN step' = "add_neg_c" /\ sum' = value.limbs /\ UNCHANGED recovered
     ELSE step' = "verdict" /\ recovered' = FirstResultComponent(value.limbs) /\ UNCHANGED sum
  /\ value' = NoValue
  /\ UNCHANGED <<args, sound, eager, executed>>

UnexpectedAnswer ==
  /\ value \notin {NoValue, Plan} /\ ~Usable(value)
  /\ step' = "failed"
  /\ UNCHANGED <<args, sound, eager, value, sum, executed, recovered>>

(* The backend raises, also because the runtime token it was opened with  *)
(* is missing or has expired: whatever the reason, main ends with it.      *)
RouteFails ==
  /\ (value = NoValue /\ eager) \/ value = Plan
  /\ step' = "failed"
  /\ UNCHANGED <<args, sound, eager, value, sum, executed, recovered>>

EvaluationStep ==
  /\ step \in DOMAIN executed
  /\ \/ CallEagerly \/ CallForPlan \/ ExecutePlan
     \/ UseAnswer \/ UnexpectedAnswer \/ RouteFails

-----------------------------------------------------------------------------
(* The plan discipline: whatever the backend context, no route is executed *)
(* twice, and none is left out before a verdict.                           *)
EachRouteOnce ==
  \A s \in DOMAIN executed : executed[s] <= 1 /\ (step = "verdict" => executed[s] = 1)

(* What the demonstration can tell: of a sound evaluator, whether the      *)
(* result lies in the range of the first modulus.  It recovers residues,   *)
(* so a right evaluator is reported as a mismatch outside of that range,   *)
(* and never as right there.                                               *)
OkWithinRange ==
  step = "verdict" /\ sound => (ok <=> Expected \in 0 .. (Moduli[1] - 1))
=============================================================================

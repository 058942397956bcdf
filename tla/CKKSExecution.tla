---------------------------- MODULE CKKSExecution ----------------------------
(***************************************************************************)
(* CKKSProvider: validating a program against the multiplicative-depth     *)
(* budget, and the oblivious executor.  The executor holds the encrypted   *)
(* selectors and the public shapes only, so for every node it evaluates    *)
(* every input and every operation on every pair of earlier values, and    *)
(* adds up the candidates, each multiplied by its encrypted 0/1 weight.    *)
(*                                                                         *)
(* One action per loop iteration.  program, budget, unchecked and inputs   *)
(* are chosen once: they are the provider's configuration and the          *)
(* caller's arguments.                                                     *)
(***************************************************************************)
EXTENDS ProgramSemantics, GraphEncoding

CONSTANTS
  Budget,     \* the multiplicative_depth a provider may be configured with
  InputDepth  \* the depth_used an input tensor may have: 0 when freshly
              \* encrypted, more when it is a result of earlier operations

ASSUME BudgetAssumption == Budget \subseteq Nat \ {0}

ASSUME InputDepthAssumption == InputDepth \subseteq Nat

VARIABLES
  program,    \* the program, validated and encrypted
  budget,     \* config.multiplicative_depth
  unchecked,  \* the caller passes assume_validated=True / validate_program=False
  inputs,     \* input id -> encrypted tensor
  required,   \* per node, the depths validate_program estimates
  verdict,    \* of validate_program: "pending", "accepted" or "refused"
  phase,      \* "validate", "inputs", "candidates", "outputs" or "ended"
  col,        \* column of the input or output selector under evaluation
  cand,       \* candidate under evaluation: operands lhs and rhs, operation k
  acc,        \* running sum of the terms of the current node or output
  terms,      \* the number of terms added to acc
  values,     \* the node values computed so far
  outputs,    \* the output tensors computed so far
  outcome     \* "running", "done", or the error raised

vars == <<program, budget, unchecked, inputs, required, verdict, phase, col,
          cand, acc, terms, values, outputs, outcome>>

arguments == <<program, budget, unchecked, inputs>>

-----------------------------------------------------------------------------
(* Encrypted tensors.  depth is the depth_used the code keeps; level is    *)
(* the number of multiplications the library has really chained into the   *)
(* ciphertexts.                                                            *)

TensorOf(s) == [shape : {s}, payload : Payload(s), depth : Nat, level : Nat]

Next1(m, n) == Max2(m, n) + 1

(* A selector times a tensor; the selector's depth and level are wd. *)
Scale(w, wd, t) ==
  [shape   |-> t.shape,
   payload |-> Scaled(w, t.shape, t.payload),
   depth   |-> Next1(wd, t.depth),
   level   |-> Next1(wd, t.level)]

(* Fault: mul and gemm do not charge their multiplication. *)
EvaluateUncharged(op, x, y) ==
  [shape   |-> IF op = "GEMM" THEN GemmShape(x.shape, y.shape) ELSE x.shape,
   payload |-> Apply(op, x.shape, y.shape, x.payload, y.payload),
   depth   |-> Max2(x.depth, y.depth),
   level   |-> IF op = "ADD" THEN Max2(x.level, y.level) ELSE Next1(x.level, y.level)]

Evaluate(op, x, y) ==
  [shape   |-> IF op = "GEMM" THEN GemmShape(x.shape, y.shape) ELSE x.shape,
   payload |-> Apply(op, x.shape, y.shape, x.payload, y.payload),
   depth   |-> IF op = "ADD" THEN Max2(x.depth, y.depth) ELSE Next1(x.depth, y.depth),
   level   |-> IF op = "ADD" THEN Max2(x.level, y.level) ELSE Next1(x.level, y.level)]

Sum(x, y) ==
  [shape   |-> x.shape,
   payload |-> Plus(x.payload, y.payload),
   depth   |-> Max2(x.depth, y.depth),
   level   |-> Max2(x.level, y.level)]

(* What _sum_or_zero returns without terms: the anchor minus itself.  It   *)
(* is also the start of the running sum, which it leaves unchanged.        *)
ZeroTensor(s) == [shape |-> s, payload |-> Zero(s), depth |-> 0, level |-> 0]

-----------------------------------------------------------------------------
(* Depths.  The six program tensors are freshly encrypted: depth 0. *)

ProgramDepth == 0

PairWeightDepth ==
  Next1(Next1(ProgramDepth, ProgramDepth), Next1(ProgramDepth, ProgramDepth))

CandidateWeightDepth == Next1(PairWeightDepth, ProgramDepth)

Estimate == [plain : Nat, graph : Nat]

(* Fault: the candidate selectors are taken to be one level deeper. *)
EstimatedDepthDeepSelector(p, known, i) ==
  LET n == p.nodes[i]
      l == known[NodeIndex(p, n.inputs[1])]
      r == known[NodeIndex(p, n.inputs[2])]
      m == IF n.op = "ADD" THEN 0 ELSE 1
  IN  IF n.op = "INPUT" THEN [plain |-> 0, graph |-> 1]
      ELSE [plain |-> Max2(l.plain, r.plain) + m,
            graph |-> Max2(4, Max2(l.graph, r.graph) + m) + 1]

(* Fault: an INPUT node is charged for its opcode and its selector. *)
EstimatedDepthInputTwice(p, known, i) ==
  LET n == p.nodes[i]
      l == known[NodeIndex(p, n.inputs[1])]
      r == known[NodeIndex(p, n.inputs[2])]
      m == IF n.op = "ADD" THEN 0 ELSE 1
  IN  IF n.op = "INPUT" THEN [plain |-> 0, graph |-> 2]
      ELSE [plain |-> Max2(l.plain, r.plain) + m,
            graph |-> Max2(3, Max2(l.graph, r.graph) + m) + 1]

(* estimate_depth (plain) and _required_encrypted_graph_depth (graph). *)
EstimatedDepth(p, known, i) ==
  LET n == p.nodes[i]
      l == known[NodeIndex(p, n.inputs[1])]
      r == known[NodeIndex(p, n.inputs[2])]
      m == IF n.op = "ADD" THEN 0 ELSE 1
  IN  IF n.op = "INPUT" THEN [plain |-> 0, graph |-> 1]
      ELSE [plain |-> Max2(l.plain, r.plain) + m,
            graph |-> Max2(3, Max2(l.graph, r.graph) + m) + 1]

(* Some output needs more than the budget, by either estimate. *)
OverBudget ==
  \E o \in DOMAIN program.output_ids :
    LET d == required[NodeIndex(program, program.output_ids[o])]
    IN  Max2(d.plain, d.graph + 1) > budget

-----------------------------------------------------------------------------
(* The loops. *)

nodeCount == Len(program.nodes)

current == Len(values) + 1

currentShape == program.nodes[current].shape

outputRow == Len(outputs) + 1

OutputShape(o) == ShapeOf(program, program.output_ids[o])

(* The order in which _weighted_candidates tries the operations. *)
CandidateOps == <<"ADD", "MUL", "GEMM">>

FirstCandidate == [lhs |-> 1, rhs |-> 1, k |-> 1]

(* Fault: GEMM is never tried. *)
NextCandidateWithoutGemm ==
  IF cand.k < Len(CandidateOps) - 1 THEN [cand EXCEPT !.k = @ + 1]
  ELSE IF cand.rhs < Len(values) THEN [cand EXCEPT !.rhs = @ + 1, !.k = 1]
  ELSE [lhs |-> cand.lhs + 1, rhs |-> 1, k |-> 1]

(* Fault: each unordered pair of values is tried in one order only. *)
NextCandidateUnordered ==
  IF cand.k < Len(CandidateOps) THEN [cand EXCEPT !.k = @ + 1]
  ELSE IF cand.rhs < Len(values) THEN [cand EXCEPT !.rhs = @ + 1, !.k = 1]
  ELSE [lhs |-> cand.lhs + 1, rhs |-> cand.lhs + 1, k |-> 1]

NextCandidate ==
  IF cand.k < Len(CandidateOps) THEN [cand EXCEPT !.k = @ + 1]
  ELSE IF cand.rhs < Len(values) THEN [cand EXCEPT !.rhs = @ + 1, !.k = 1]
  ELSE [lhs |-> cand.lhs + 1, rhs |-> 1, k |-> 1]

CandidateLeft == phase = "candidates" /\ cand.lhs <= Len(values)

(* op applied to x and y yields shape s. *)
Applicable(op, x, y, s) ==
  IF op = "GEMM" THEN GemmConforms(x.shape, y.shape) /\ GemmShape(x.shape, y.shape) = s
  ELSE x.shape = s /\ y.shape = s

Init ==
  /\ program \in Corpus
  /\ budget \in Budget
  /\ unchecked \in BOOLEAN
  /\ \E in \in Supplies(program), d \in [InputNodes(program) -> InputDepth] :
       inputs = [id \in InputNodes(program) |->
                   [shape |-> ShapeOf(program, id), payload |-> in[id],
                    depth |-> d[id], level |-> d[id]]]
  /\ required = <<>> /\ verdict = "pending"
  /\ phase = "validate"
  /\ col = 1 /\ cand = FirstCandidate
  /\ acc = ZeroTensor(program.nodes[1].shape) /\ terms = 0
  /\ values = <<>> /\ outputs = <<>>
  /\ outcome = "running"

(* The step needs a ciphertext of this depth: _next_depth(_raw) allows it. *)
Affordable(depth) == depth <= budget

AddTerm(t) ==
  /\ Affordable(t.depth)
  /\ acc' = Sum(acc, t)
  /\ terms' = terms + 1

End(how) ==
  /\ phase' = "ended"
  /\ outcome' = how

-----------------------------------------------------------------------------
(* validate_program: one step per node, then the comparison with the       *)
(* budget.  A caller that assumes the program validated goes on whatever   *)
(* the verdict is; for any other the refusal is raised.                    *)

EstimateNode ==
  /\ phase = "validate" /\ Len(required) < nodeCount
  /\ required' = Append(required, EstimatedDepth(program, required, Len(required) + 1))
  /\ UNCHANGED <<arguments, verdict, phase, col, cand, acc, terms, values, outputs, outcome>>

AcceptProgram ==
  /\ phase = "validate" /\ Len(required) = nodeCount
  /\ ~OverBudget
  /\ verdict' = "accepted"
  /\ phase' = "inputs"
  /\ UNCHANGED <<arguments, required, col, cand, acc, terms, values, outputs, outcome>>

RefuseProgram ==
  /\ phase = "validate" /\ Len(required) = nodeCount
  /\ OverBudget
  /\ verdict' = "refused"
  /\ IF unchecked THEN phase' = "inputs" /\ UNCHANGED outcome ELSE End("DepthBudgetError")
  /\ UNCHANGED <<arguments, required, col, cand, acc, terms, values, outputs>>

-----------------------------------------------------------------------------
(* _encrypted_input_terms: every input of the node's shape, times the      *)
(* node's input selector.                                                  *)

InputLeft == phase = "inputs" /\ col <= Len(program.input_ids)

inputTensor == inputs[program.input_ids[col]]

InputTerm == Scale(InputSelector(program, current, col), ProgramDepth, inputTensor)

AddInput ==
  /\ InputLeft
  /\ inputTensor.shape = currentShape
  /\ AddTerm(InputTerm)
  /\ col' = col + 1
  /\ UNCHANGED <<arguments, required, verdict, phase, cand, values, outputs, outcome>>

(* Fault: the loop does not get past an input of another shape. *)
SkipInputForever ==
  /\ InputLeft
  /\ inputTensor.shape # currentShape
  /\ UNCHANGED vars

SkipInput ==
  /\ InputLeft
  /\ inputTensor.shape # currentShape
  /\ col' = col + 1
  /\ UNCHANGED <<arguments, required, verdict, phase, cand, acc, terms, values, outputs, outcome>>

EndInputs ==
  /\ phase = "inputs" /\ col > Len(program.input_ids)
  /\ phase' = "candidates"
  /\ UNCHANGED <<arguments, required, verdict, col, cand, acc, terms, values, outputs, outcome>>

-----------------------------------------------------------------------------
(* _encrypted_operation_terms and _weighted_candidates: every operation on *)
(* every ordered pair of earlier values.  The pair's weight is computed    *)
(* whether or not some operation fits the shapes.                          *)

candOp == CandidateOps[cand.k]

(* Fault: candidates whose weight is zero are left out. *)
candCounts ==
  /\ Applicable(candOp, values[cand.lhs], values[cand.rhs], currentShape)
  /\ CandidateWeight(program, current, cand.lhs, cand.rhs, candOp) # 0

candApplies ==
  Applicable(candOp, values[cand.lhs], values[cand.rhs], currentShape)

CandidateTerm ==
  Scale(CandidateWeight(program, current, cand.lhs, cand.rhs, candOp), CandidateWeightDepth,
        Evaluate(candOp, values[cand.lhs], values[cand.rhs]))

AddCandidate ==
  /\ CandidateLeft
  /\ candApplies
  /\ AddTerm(CandidateTerm)
  /\ cand' = NextCandidate
  /\ UNCHANGED <<arguments, required, verdict, phase, col, values, outputs, outcome>>

SkipCandidate ==
  /\ CandidateLeft
  /\ ~candApplies /\ Affordable(PairWeightDepth)
  /\ cand' = NextCandidate
  /\ UNCHANGED <<arguments, required, verdict, phase, col, acc, terms, values, outputs, outcome>>

(* Fault: the next sum starts in the shape of the node just stored. *)
StoreNodeKeepingShape ==
  /\ phase = "candidates" /\ ~CandidateLeft
  /\ values' = Append(values, acc)
  /\ col' = 1 /\ cand' = FirstCandidate /\ terms' = 0
  /\ acc' = ZeroTensor(currentShape)
  /\ phase' = IF current < nodeCount THEN "inputs" ELSE "outputs"
  /\ UNCHANGED <<arguments, required, verdict, outputs, outcome>>

(* The sum of the terms becomes the node's value. *)
StoreNode ==
  /\ phase = "candidates" /\ ~CandidateLeft
  /\ values' = Append(values, acc)
  /\ col' = 1 /\ cand' = FirstCandidate /\ terms' = 0
  /\ IF current < nodeCount
     THEN /\ phase' = "inputs"
          /\ acc' = ZeroTensor(program.nodes[current + 1].shape)
     ELSE /\ phase' = "outputs"
          /\ acc' = ZeroTensor(OutputShape(1))
  /\ UNCHANGED <<arguments, required, verdict, outputs, outcome>>

-----------------------------------------------------------------------------
(* _encrypted_output: every node value of the output's shape, times the    *)
(* output selector.                                                        *)

OutputLeft == phase = "outputs" /\ col <= nodeCount

OutputTerm == Scale(OutputSelector(program, outputRow, col), ProgramDepth, values[col])

AddOutput ==
  /\ OutputLeft
  /\ values[col].shape = OutputShape(outputRow)
  /\ AddTerm(OutputTerm)
  /\ col' = col + 1
  /\ UNCHANGED <<arguments, required, verdict, phase, cand, values, outputs, outcome>>

SkipOutput ==
  /\ OutputLeft
  /\ values[col].shape # OutputShape(outputRow)
  /\ col' = col + 1
  /\ UNCHANGED <<arguments, required, verdict, phase, cand, acc, terms, values, outputs, outcome>>

StoreOutput ==
  /\ phase = "outputs" /\ ~OutputLeft
  /\ outputs' = Append(outputs, acc)
  /\ IF outputRow < Len(program.output_ids)
     THEN /\ acc' = ZeroTensor(OutputShape(outputRow + 1))
          /\ terms' = 0 /\ col' = 1
          /\ UNCHANGED <<phase, outcome>>
     ELSE /\ End("done")
          /\ UNCHANGED <<acc, terms, col>>
  /\ UNCHANGED <<arguments, required, verdict, cand, values>>

-----------------------------------------------------------------------------
(* Failures.  No multiplication beyond the budget is attempted; the        *)
(* library may fail at any operation (_call), which turns any exception of *)
(* its own into ProviderConfigurationError.  Either way nothing is         *)
(* returned.                                                               *)

neededDepth ==
  CASE InputLeft     -> IF inputTensor.shape = currentShape THEN InputTerm.depth ELSE 0
    [] CandidateLeft -> IF candApplies THEN CandidateTerm.depth ELSE PairWeightDepth
    [] OutputLeft    -> IF values[col].shape = OutputShape(outputRow) THEN OutputTerm.depth ELSE 0
    [] OTHER         -> 0

ExceedBudget ==
  /\ ~Affordable(neededDepth)
  /\ End("DepthBudgetError")
  /\ UNCHANGED <<arguments, required, verdict, col, cand, acc, terms, values, outputs>>

LibraryCalled ==
  \/ InputLeft /\ inputTensor.shape = currentShape
  \/ CandidateLeft
  \/ OutputLeft /\ values[col].shape = OutputShape(outputRow)

OpenFHEFails ==
  /\ LibraryCalled
  /\ End("ProviderConfigurationError")
  /\ UNCHANGED <<arguments, required, verdict, col, cand, acc, terms, values, outputs>>

Step ==
  \/ EstimateNode \/ AcceptProgram \/ RefuseProgram
  \/ AddInput \/ SkipInput \/ EndInputs
  \/ AddCandidate \/ SkipCandidate \/ StoreNode
  \/ AddOutput \/ SkipOutput \/ StoreOutput
  \/ ExceedBudget

Next == Step \/ OpenFHEFails

Spec == Init /\ [][Next]_vars

(* Every loop of the executor is over a finite tuple and every library     *)
(* call returns or raises, so the provider always takes its next step.     *)
FairSpec == Spec /\ WF_vars(Step)

-----------------------------------------------------------------------------
(* Properties. *)

(* The shape of the sum under way. *)
accShape ==
  IF Len(values) < nodeCount THEN currentShape
  ELSE OutputShape(IF outcome = "done" THEN Len(outputs) ELSE outputRow)

(* Types, and the shapes of tensors: every value and output has the public *)
(* shape the artifact announces for it, and so has the running sum, which  *)
(* is why _sum_or_zero never meets terms of mismatched shapes.             *)
TypeOK ==
  /\ program \in Program
  /\ budget \in Budget
  /\ unchecked \in BOOLEAN
  /\ DOMAIN inputs = InputNodes(program)
  /\ \A id \in InputNodes(program) : inputs[id] \in TensorOf(ShapeOf(program, id))
  /\ required \in Seq(Estimate) /\ Len(required) <= nodeCount
  /\ verdict \in {"pending", "accepted", "refused"}
  /\ phase \in {"validate", "inputs", "candidates", "outputs", "ended"}
  /\ col \in Nat \ {0}
  /\ cand \in [lhs : Nat \ {0}, rhs : Nat \ {0}, k : 1 .. 3]
  /\ acc \in TensorOf(accShape)
  /\ terms \in Nat
  /\ DOMAIN values = 1 .. Len(values) /\ Len(values) <= nodeCount
  /\ \A i \in DOMAIN values : values[i] \in TensorOf(program.nodes[i].shape)
  /\ DOMAIN outputs = 1 .. Len(outputs) /\ Len(outputs) <= Len(program.output_ids)
  /\ \A o \in DOMAIN outputs : outputs[o] \in TensorOf(OutputShape(o))
  /\ outcome \in {"running", "done", "DepthBudgetError", "ProviderConfigurationError"}

(* The provider's books are right: no ciphertext has more multiplications  *)
(* chained into it than its tensor's depth_used says, and none exceeds the *)
(* budget the context was generated for.  Inputs may come in at any depth. *)
LevelsWithinBudget ==
  \A t \in Range(values) \cup Range(outputs) \cup {acc} :
    t.level <= t.depth /\ t.depth <= budget

(* validate_program never refuses a program that would have run: even a    *)
(* caller that ignores the refusal gets no result.                         *)
RefusalIsJustified == outcome = "done" => verdict = "accepted"

(* Why: the graph estimate of every node is a lower bound of the depth the *)
(* executor really uses for it.                                            *)
EstimateIsLowerBound ==
  \A i \in DOMAIN values : required[i].graph <= values[i].depth

(* For an accepted program every node and every output receives at least   *)
(* one term, so the zero ciphertext never stands in for a value.           *)
EveryValueIsFed ==
  (phase = "candidates" /\ ~CandidateLeft) \/ (phase = "outputs" /\ ~OutputLeft)
    => terms > 0

(* The oblivious executor implements the execution of the program graph:   *)
(* decrypted, each node's sum of candidates is the value of the node, and  *)
(* results appear only when all is computed.                               *)
Graph == INSTANCE GraphExecution WITH
  supplied <- [id \in InputNodes(program) |-> inputs[id].payload],
  computed <- [i \in 1 .. Len(values) |-> values[i].payload],
  status   <- CASE outcome = "running" -> "running"
                [] outcome = "done"    -> "done"
                [] OTHER               -> "failed",
  results  <- IF outcome = "done" THEN [o \in 1 .. Len(outputs) |-> outputs[o].payload]
              ELSE <<>>

ImplementsGraph == Graph!Spec

(* What is public of an execution. *)
publicMeta ==
  [budget  |-> budget,
   shapes  |-> [i \in DOMAIN program.nodes |-> program.nodes[i].shape],
   inputs  |-> [c \in DOMAIN program.input_ids |->
                  [shape |-> inputs[program.input_ids[c]].shape,
                   depth |-> inputs[program.input_ids[c]].depth]],
   outputs |-> [o \in DOMAIN program.output_ids |-> OutputShape(o)]]

depthsOf(tensors) == [i \in DOMAIN tensors |-> tensors[i].depth]

publicStatus ==
  IF phase = "ended" /\ verdict = "refused" /\ ~unchecked THEN "refused" ELSE outcome

Public == INSTANCE PublicExecution WITH
  meta <- publicMeta, depth <- acc.depth, values <- depthsOf(values),
  outputs <- depthsOf(outputs), status <- publicStatus

(* The executor does not look through the encryption: which products it    *)
(* forms, in which order, how deep they are and whether the budget stops   *)
(* it is settled by public shapes, ids and depths alone, so programs that  *)
(* differ in opcodes, edges or values only are executed alike.             *)
ImplementsPublic == Public!Spec

(* An execution always ends, with results or with an error. *)
Termination == <>(phase = "ended")

(* "Raised when a program exceeds a provider multiplicative-depth budget": *)
(* validate_program is where that is found out, so an accepted program     *)
(* with freshly encrypted inputs does not raise DepthBudgetError later.    *)
AcceptedProgramRuns ==
  (verdict = "accepted" /\ \A id \in DOMAIN inputs : inputs[id].depth = 0)
    => outcome # "DepthBudgetError"
=============================================================================

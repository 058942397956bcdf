-------------------------- MODULE PublicExecution --------------------------
(***************************************************************************)
(* What anybody may know of an encrypted execution.  The CKKS executor is  *)
(* given node shapes, input and output ids and the depths of ciphertexts   *)
(* in the clear, and opcodes and edges encrypted.  This machine has the    *)
(* former only, and apart from failures of the library it has one way to   *)
(* go: which products are formed in which order, how deep they are, and    *)
(* whether the depth budget stops the execution.  An executor that         *)
(* implements it is oblivious: on two programs with the same public        *)
(* metadata it does the same.                                              *)
(***************************************************************************)
EXTENDS Programs

VARIABLES
  meta,     \* budget, node shapes, shape and depth of each input, output shapes
  col,      \* the column of the input or output selector to be read next
  cand,     \* the candidate to be weighed next
  depth,    \* of the running sum
  terms,    \* the number of products in the running sum
  values,   \* the depths of the node values
  outputs,  \* the depths of the outputs
  status    \* "running", "refused", "done" or the error

vars == <<meta, col, cand, depth, terms, values, outputs, status>>

Larger(m, n) == IF m >= n THEN m ELSE n

summingNodes == Len(values) < Len(meta.shapes)

(* Depths of the encrypted weights: of a pair of operands, of a candidate. *)
PairDepth == 2
WeightDepth == 3

-----------------------------------------------------------------------------
(* The step that comes next: nothing fits (no product), or a product of    *)
(* the given depth.                                                        *)

NoProduct == [product |-> FALSE, depth |-> 0]
Product(d) == [product |-> TRUE, depth |-> d]

InputNext == summingNodes /\ col <= Len(meta.inputs)
CandidateNext == summingNodes /\ ~InputNext /\ cand.lhs <= Len(values)
OutputNext == ~summingNodes /\ col <= Len(meta.shapes)

(* ADD, MUL, GEMM *)
Fits(k, s, t, out) ==
  IF k = 3 THEN GemmConforms(s, t) /\ GemmShape(s, t) = out ELSE s = out /\ t = out

nextStep ==
  LET shape == meta.shapes[Len(values) + 1]
      input == meta.inputs[col]
      operandDepth == Larger(values[cand.lhs], values[cand.rhs])
  IN  CASE InputNext -> IF input.shape = shape THEN Product(input.depth + 1) ELSE NoProduct
        [] CandidateNext ->
             IF Fits(cand.k, meta.shapes[cand.lhs], meta.shapes[cand.rhs], shape)
             THEN Product(Larger(WeightDepth,
                                 IF cand.k = 1 THEN operandDepth ELSE operandDepth + 1) + 1)
             ELSE [product |-> FALSE, depth |-> PairDepth]
        [] OutputNext -> IF meta.shapes[col] = meta.outputs[Len(outputs) + 1]
                         THEN Product(values[col] + 1) ELSE NoProduct

affordable == nextStep.depth <= meta.budget

following ==
  IF cand.k < 3 THEN [cand EXCEPT !.k = @ + 1]
  ELSE IF cand.rhs < Len(values) THEN [cand EXCEPT !.rhs = @ + 1, !.k = 1]
  ELSE [lhs |-> cand.lhs + 1, rhs |-> 1, k |-> 1]

-----------------------------------------------------------------------------
Metadata ==
  [budget : Nat, shapes : Seq(Shape), inputs : Seq([shape : Shape, depth : Nat]),
   outputs : Seq(Shape)]

Start == col = 1 /\ cand = [lhs |-> 1, rhs |-> 1, k |-> 1] /\ depth = 0 /\ terms = 0

Init ==
  /\ meta \in Metadata
  /\ Start
  /\ values = <<>> /\ outputs = <<>>
  /\ status = "running"

(* validate_program, to which the plaintext program is known. *)
Refuse ==
  /\ status = "running" /\ Start /\ values = <<>>
  /\ status' = "refused"
  /\ UNCHANGED <<meta, col, cand, depth, terms, values, outputs>>

Advance ==
  /\ status = "running"
  /\ InputNext \/ CandidateNext \/ OutputNext
  /\ affordable
  /\ depth' = IF nextStep.product THEN Larger(depth, nextStep.depth) ELSE depth
  /\ terms' = IF nextStep.product THEN terms + 1 ELSE terms
  /\ IF CandidateNext THEN cand' = following /\ UNCHANGED col
     ELSE col' = col + 1 /\ UNCHANGED cand
  /\ UNCHANGED <<meta, values, outputs, status>>

Store ==
  /\ status = "running"
  /\ ~InputNext /\ ~CandidateNext /\ ~OutputNext
  /\ IF summingNodes THEN values' = Append(values, depth) /\ UNCHANGED outputs
     ELSE outputs' = Append(outputs, depth) /\ UNCHANGED values
  /\ IF Len(outputs') < Len(meta.outputs) THEN Start' /\ UNCHANGED status
     ELSE status' = "done" /\ UNCHANGED <<col, cand, depth, terms>>
  /\ UNCHANGED meta

ExceedBudget ==
  /\ status = "running"
  /\ InputNext \/ CandidateNext \/ OutputNext
  /\ ~affordable
  /\ status' = "DepthBudgetError"
  /\ UNCHANGED <<meta, col, cand, depth, terms, values, outputs>>

(* The library may fail where it is called. *)
LibraryFails ==
  /\ status = "running"
  /\ CandidateNext \/ ((InputNext \/ OutputNext) /\ nextStep.product)
  /\ status' = "ProviderConfigurationError"
  /\ UNCHANGED <<meta, col, cand, depth, terms, values, outputs>>

Next == Refuse \/ Advance \/ Store \/ ExceedBudget \/ LibraryFails

Spec == Init /\ [][Next]_vars
=============================================================================

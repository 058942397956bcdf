------------------------- MODULE CKKSExecutionProofs -------------------------
(***************************************************************************)
(* What is proved of CKKSExecution, for every corpus of well-formed        *)
(* programs, every budget, every depth of the inputs, and every tensor     *)
(* arithmetic that satisfies the laws of ProgramSemantics: that its types  *)
(* are right and the budget is kept (part 1), that it is oblivious (part   *)
(* 2), and that it computes what the program says (part 3).                *)
(***************************************************************************)
EXTENDS CKKSExecution, ProgramFacts

-----------------------------------------------------------------------------
(* Part 1.  Facts about tensors. *)

LEMMA ScaleIsTensor ==
  ASSUME NEW s \in Shape, NEW t \in TensorOf(s), NEW w, NEW wd \in Nat
  PROVE  Scale(w, wd, t) \in TensorOf(s)
BY ZeroIsNeutral DEF Scale, Scaled, TensorOf, Next1, Max2

LEMMA SumIsTensor ==
  ASSUME NEW s \in Shape, NEW x \in TensorOf(s), NEW y \in TensorOf(s)
  PROVE  Sum(x, y) \in TensorOf(s)
BY KernelsClosed DEF Sum, TensorOf, Max2

LEMMA ZeroIsTensor ==
  ASSUME NEW s \in Shape
  PROVE  ZeroTensor(s) \in TensorOf(s)
BY ZeroIsNeutral DEF ZeroTensor, TensorOf

(* A candidate that applies has the shape of the node. *)
LEMMA CandidateIsTensor ==
  ASSUME NEW s \in Shape, NEW q \in Shape, NEW r \in Shape,
         NEW x \in TensorOf(q), NEW y \in TensorOf(r),
         NEW op \in {"ADD", "MUL", "GEMM"}, Applicable(op, x, y, s)
  PROVE  Evaluate(op, x, y) \in TensorOf(s)
<1>1. /\ x.shape = q /\ x.payload \in Payload(q) /\ x.depth \in Nat /\ x.level \in Nat
      /\ y.shape = r /\ y.payload \in Payload(r) /\ y.depth \in Nat /\ y.level \in Nat
  BY DEF TensorOf
<1>2. Max2(x.depth, y.depth) \in Nat /\ Max2(x.level, y.level) \in Nat
  BY <1>1 DEF Max2
<1>3. Evaluate(op, x, y).depth \in Nat /\ Evaluate(op, x, y).level \in Nat
  BY <1>1, <1>2 DEF Evaluate, Next1
<1>4. CASE op = "GEMM"
  <2>1. GemmConforms(q, r) /\ GemmShape(q, r) = s
    BY <1>1, <1>4 DEF Applicable
  <2>2. MatMul(q, r, x.payload, y.payload) \in Payload(s)
    BY <1>1, <2>1, KernelsClosed
  <2> QED
    BY <1>1, <1>3, <1>4, <2>1, <2>2 DEF Evaluate, Apply, TensorOf
<1>5. CASE op # "GEMM"
  <2>1. q = s /\ r = s
    BY <1>1, <1>5 DEF Applicable
  <2>2. Apply(op, q, r, x.payload, y.payload) \in Payload(s)
    BY <1>1, <1>5, <2>1, KernelsClosed DEF Apply
  <2> QED
    BY <1>1, <1>3, <1>5, <2>1, <2>2 DEF Evaluate, TensorOf
<1> QED
  BY <1>4, <1>5

-----------------------------------------------------------------------------
(* The inductive invariant.  Control relates the phase to how far the      *)
(* loops have come.                                                        *)

Control ==
  /\ program \in Corpus
  /\ phase = "validate" => values = <<>>
  /\ phase \in {"inputs", "candidates"} => Len(values) < nodeCount
  /\ phase = "outputs" => Len(values) = nodeCount /\ Len(outputs) < Len(program.output_ids)
  /\ phase \in {"validate", "inputs", "candidates"} => outputs = <<>>
  /\ phase \notin {"validate", "ended"} => Len(required) = nodeCount
  /\ phase = "ended" <=> outcome # "running"
  /\ outcome # "done" => Len(outputs) < Len(program.output_ids)
  /\ phase \in {"validate", "inputs", "outputs"} => cand = FirstCandidate
  /\ phase = "candidates" /\ cand.lhs <= Len(values) => cand.rhs <= Len(values)
  /\ outcome = "done" => Len(values) = nodeCount /\ Len(outputs) = Len(program.output_ids)

TypeInv == TypeOK /\ Control

(* The program in hand, unfolded. *)
LEMMA ProgramInHand ==
  ASSUME TypeInv
  PROVE  /\ program \in Program /\ WellFormed(program)
         /\ program.nodes \in Seq(Node)
         /\ DOMAIN program.nodes = 1 .. nodeCount /\ nodeCount \in Nat /\ nodeCount > 0
         /\ \A i \in DOMAIN program.nodes : program.nodes[i].shape \in Shape
         /\ DOMAIN program.output_ids = 1 .. Len(program.output_ids)
         /\ Len(program.output_ids) \in Nat /\ Len(program.output_ids) > 0
         /\ \A o \in DOMAIN program.output_ids : OutputShape(o) \in Shape
         /\ \A id \in InputNodes(program) : ShapeOf(program, id) \in Shape
         /\ DOMAIN program.input_ids = 1 .. Len(program.input_ids)
         /\ Len(program.input_ids) \in Nat
<1>1. program \in Program /\ WellFormed(program)
  BY CorpusAssumption DEF TypeInv, Control
<1>2. /\ program.nodes \in Seq(Node)
      /\ program.input_ids \in Seq(NodeId) /\ program.output_ids \in Seq(NodeId)
  BY <1>1 DEF Program
<1>3. ASSUME NEW i \in DOMAIN program.nodes
      PROVE  program.nodes[i].shape \in Shape
  <2>1. program.nodes[i] \in Node
    BY <1>2
  <2> QED
    BY <2>1 DEF Node
<1>4. /\ \A o \in DOMAIN program.output_ids : OutputShape(o) \in Shape
      /\ \A id \in InputNodes(program) : ShapeOf(program, id) \in Shape
  BY <1>1, <1>3, InterfaceNodes DEF OutputShape, ShapeOf
<1>5. nodeCount > 0 /\ Len(program.output_ids) > 0
  BY <1>1, InterfaceNodes DEF nodeCount
<1> QED
  BY <1>1, <1>2, <1>3, <1>4, <1>5 DEF nodeCount

LEMMA TypeInit == Init => TypeInv
<1> SUFFICES ASSUME Init PROVE TypeInv
  OBVIOUS
<1>1. program \in Corpus /\ program \in Program /\ WellFormed(program)
  BY CorpusAssumption DEF Init
<1>2. program.nodes \in Seq(Node) /\ Len(program.nodes) > 0
      /\ Len(program.output_ids) > 0 /\ program.output_ids \in Seq(NodeId)
  BY <1>1, InterfaceNodes DEF Program
<1>3. program.nodes[1].shape \in Shape
  <2>1. program.nodes[1] \in Node
    BY <1>2
  <2> QED
    BY <2>1 DEF Node
<1>4. DOMAIN inputs = InputNodes(program)
      /\ \A id \in InputNodes(program) : inputs[id] \in TensorOf(ShapeOf(program, id))
  <2>1. PICK in \in Supplies(program), d \in [InputNodes(program) -> InputDepth] :
          inputs = [id \in InputNodes(program) |->
                      [shape |-> ShapeOf(program, id), payload |-> in[id],
                       depth |-> d[id], level |-> d[id]]]
    BY DEF Init
  <2>2. ASSUME NEW id \in InputNodes(program)
        PROVE  inputs[id] \in TensorOf(ShapeOf(program, id))
    <3>1. NodeIndex(program, id) \in DOMAIN program.nodes
          /\ program.nodes[NodeIndex(program, id)].id = id
      BY <1>1, InterfaceNodes
    <3>2. program.nodes[NodeIndex(program, id)] \in Node
      BY <1>2, <3>1
    <3>3. id \in NodeId /\ ShapeOf(program, id) \in Shape
      BY <3>1, <3>2 DEF Node, ShapeOf
    <3>4. in[id] \in Payload(ShapeOf(program, id))
      BY <3>3, SupplyAssumption DEF Supplies
    <3>5. d[id] \in Nat
      BY InputDepthAssumption
    <3> QED
      BY <2>1, <3>4, <3>5 DEF TensorOf
  <2> QED
    BY <2>1, <2>2
<1>5. acc \in TensorOf(accShape)
  <2>1. accShape = program.nodes[1].shape
    BY <1>2 DEF Init, accShape, nodeCount, currentShape, current
  <2> QED
    BY <1>3, <2>1, ZeroIsTensor DEF Init
<1>6. TypeOK
  <2>1. cand \in [lhs : Nat \ {0}, rhs : Nat \ {0}, k : 1 .. 3]
    BY DEF Init, FirstCandidate
  <2>2. required \in Seq(Estimate) /\ Len(required) = 0
    BY DEF Init
  <2>3. DOMAIN values = 1 .. 0 /\ DOMAIN outputs = 1 .. 0 /\ Len(values) = 0 /\ Len(outputs) = 0
    BY DEF Init
  <2>4. nodeCount \in Nat /\ Len(program.output_ids) \in Nat
    BY <1>2 DEF nodeCount
  <2>5. 1 .. 0 = {}
    OBVIOUS
  <2>6. budget \in Budget /\ terms \in Nat /\ col \in Nat \ {0}
        /\ verdict = "pending" /\ phase = "validate" /\ outcome = "running"
    BY DEF Init
  <2>7. unchecked \in BOOLEAN
    BY DEF Init
  <2> QED
    BY <1>1, <1>4, <1>5, <2>1, <2>2, <2>3, <2>4, <2>5, <2>6, <2>7 DEF TypeOK
<1>7. Control
  BY <1>1, <1>2 DEF Control, Init
<1> QED
  BY <1>6, <1>7 DEF TypeInv

(* The estimates of a node are natural numbers. *)
LEMMA EstimateIsNat ==
  ASSUME TypeInv, Len(required) < nodeCount
  PROVE  EstimatedDepth(program, required, Len(required) + 1) \in Estimate
<1> DEFINE i == Len(required) + 1
           n == program.nodes[i]
           l == required[NodeIndex(program, n.inputs[1])]
           r == required[NodeIndex(program, n.inputs[2])]
<1>1. required \in Seq(Estimate)
  BY DEF TypeInv, TypeOK
<1>2. i \in DOMAIN program.nodes
  BY <1>1, ProgramInHand
<1>3. CASE n.op = "INPUT"
  BY <1>3 DEF EstimatedDepth, Estimate
<1>4. CASE n.op # "INPUT"
  <2>1. NodeIndex(program, n.inputs[1]) \in 1 .. (i - 1)
        /\ NodeIndex(program, n.inputs[2]) \in 1 .. (i - 1)
    BY <1>2, <1>4, ProgramInHand, OperandIsEarlier
  <2>2. l \in Estimate /\ r \in Estimate
    <3>1. \A j \in 1 .. (i - 1) : required[j] \in Estimate
      BY <1>1
    <3> QED
      BY <2>1, <3>1
  <2> HIDE DEF l, r
  <2>3. EstimatedDepth(program, required, i)
          = [plain |-> Max2(l.plain, r.plain) + (IF n.op = "ADD" THEN 0 ELSE 1),
             graph |-> Max2(3, Max2(l.graph, r.graph) + (IF n.op = "ADD" THEN 0 ELSE 1)) + 1]
    BY <1>4 DEF EstimatedDepth, l, r
  <2>4. l.plain \in Nat /\ r.plain \in Nat /\ l.graph \in Nat /\ r.graph \in Nat
    BY <2>2 DEF Estimate
  <2>5. /\ Max2(l.plain, r.plain) + (IF n.op = "ADD" THEN 0 ELSE 1) \in Nat
        /\ Max2(3, Max2(l.graph, r.graph) + (IF n.op = "ADD" THEN 0 ELSE 1)) + 1 \in Nat
    BY <2>4 DEF Max2
  <2> QED
    BY <2>3, <2>5 DEF Estimate
<1> QED
  BY <1>3, <1>4

(* The running sum is a tensor, whatever the phase. *)
LEMMA AccIsTensor ==
  ASSUME TypeInv
  PROVE  accShape \in Shape /\ acc \in TensorOf(accShape)
<1>1. CASE Len(values) < nodeCount
  <2>1. current \in DOMAIN program.nodes
    BY <1>1, ProgramInHand DEF TypeInv, TypeOK, current
  <2> QED
    BY <1>1, <2>1, ProgramInHand DEF TypeInv, TypeOK, accShape, currentShape
<1>2. CASE ~(Len(values) < nodeCount)
  <2>1. (IF outcome = "done" THEN Len(outputs) ELSE outputRow) \in DOMAIN program.output_ids
    BY ProgramInHand DEF TypeInv, TypeOK, Control, outputRow
  <2> QED
    BY <1>2, <2>1, ProgramInHand DEF TypeInv, TypeOK, accShape
<1> QED
  BY <1>1, <1>2

(* The term an enabled loop iteration adds has the shape of the sum. *)
LEMMA InputTermIsTensor ==
  ASSUME TypeInv, InputLeft, inputTensor.shape = currentShape
  PROVE  InputTerm \in TensorOf(accShape)
<1>1. program.input_ids[col] \in InputNodes(program)
  BY ProgramInHand, InterfaceNodes DEF InputLeft, TypeInv, TypeOK
<1>2. inputTensor \in TensorOf(ShapeOf(program, program.input_ids[col]))
  BY <1>1 DEF TypeInv, TypeOK, inputTensor
<1>3. accShape = currentShape
  BY DEF InputLeft, TypeInv, Control, accShape
<1>4. inputTensor \in TensorOf(accShape) /\ accShape \in Shape
  BY <1>1, <1>2, <1>3, ProgramInHand DEF TensorOf
<1> QED
  BY <1>4, ScaleIsTensor DEF InputTerm, ProgramDepth

LEMMA CandidateTermIsTensor ==
  ASSUME TypeInv, CandidateLeft, cand.rhs <= Len(values), candApplies
  PROVE  CandidateTerm \in TensorOf(accShape)
<1> DEFINE x == values[cand.lhs]
           y == values[cand.rhs]
<1>1. accShape = currentShape /\ accShape \in Shape
  BY ProgramInHand DEF CandidateLeft, TypeInv, TypeOK, Control, accShape, currentShape, current
<1>2. /\ cand.lhs \in DOMAIN values /\ cand.rhs \in DOMAIN values
      /\ candOp \in {"ADD", "MUL", "GEMM"}
  BY DEF CandidateLeft, TypeInv, TypeOK, candOp, CandidateOps
<1>3. /\ x \in TensorOf(program.nodes[cand.lhs].shape)
      /\ y \in TensorOf(program.nodes[cand.rhs].shape)
      /\ program.nodes[cand.lhs].shape \in Shape /\ program.nodes[cand.rhs].shape \in Shape
  BY <1>2, ProgramInHand DEF TypeInv, TypeOK
<1>4. Applicable(candOp, x, y, accShape)
  BY <1>1 DEF candApplies
<1>5. Evaluate(candOp, x, y) \in TensorOf(accShape)
  <2> HIDE DEF x, y
  <2> QED
    BY <1>1, <1>2, <1>3, <1>4, CandidateIsTensor
<1>6. CandidateWeightDepth \in Nat
  BY DEF CandidateWeightDepth, PairWeightDepth, ProgramDepth, Next1, Max2
<1> QED
  BY <1>1, <1>5, <1>6, ScaleIsTensor DEF CandidateTerm

LEMMA OutputTermIsTensor ==
  ASSUME TypeInv, OutputLeft, values[col].shape = OutputShape(outputRow)
  PROVE  OutputTerm \in TensorOf(accShape)
<1>1. accShape = OutputShape(outputRow) /\ outputRow \in DOMAIN program.output_ids
  BY ProgramInHand DEF OutputLeft, TypeInv, TypeOK, Control, accShape, outputRow
<1>2. col \in DOMAIN values /\ values[col] \in TensorOf(program.nodes[col].shape)
  BY ProgramInHand DEF OutputLeft, TypeInv, TypeOK, Control
<1>3. values[col] \in TensorOf(accShape) /\ accShape \in Shape
  BY <1>1, <1>2, ProgramInHand DEF TensorOf
<1> QED
  BY <1>3, ScaleIsTensor DEF OutputTerm, ProgramDepth

(* The next candidate is again a pair of earlier values, or past the last. *)
LEMMA NextCandidateInRange ==
  ASSUME TypeInv, CandidateLeft
  PROVE  /\ NextCandidate \in [lhs : Nat \ {0}, rhs : Nat \ {0}, k : 1 .. 3]
         /\ NextCandidate.lhs <= Len(values) => NextCandidate.rhs <= Len(values)
<1>1. /\ cand \in [lhs : Nat \ {0}, rhs : Nat \ {0}, k : 1 .. 3]
      /\ Len(values) \in Nat /\ cand.lhs <= Len(values) /\ cand.rhs <= Len(values)
  BY DEF TypeInv, TypeOK, Control, CandidateLeft
<1>2. Len(CandidateOps) = 3
  BY DEF CandidateOps
<1>3. CASE cand.k < 3
  <2>1. NextCandidate = [lhs |-> cand.lhs, rhs |-> cand.rhs, k |-> cand.k + 1]
    BY <1>1, <1>2, <1>3 DEF NextCandidate
  <2>2. cand.k + 1 \in 1 .. 3
    BY <1>1, <1>3
  <2> QED
    BY <1>1, <2>1, <2>2
<1>4. CASE ~(cand.k < 3) /\ cand.rhs < Len(values)
  <2>1. NextCandidate = [lhs |-> cand.lhs, rhs |-> cand.rhs + 1, k |-> 1]
    BY <1>1, <1>2, <1>4 DEF NextCandidate
  <2> QED
    BY <1>1, <1>4, <2>1
<1>5. CASE ~(cand.k < 3) /\ ~(cand.rhs < Len(values))
  BY <1>1, <1>2, <1>5 DEF NextCandidate
<1> QED
  BY <1>3, <1>4, <1>5

(* Appending a value, or an output, of the right shape. *)
LEMMA ValuesAppend ==
  ASSUME TypeOK, NEW t \in TensorOf(currentShape)
  PROVE  /\ Len(Append(values, t)) = Len(values) + 1
         /\ DOMAIN Append(values, t) = 1 .. (Len(values) + 1)
         /\ \A i \in DOMAIN Append(values, t) :
              Append(values, t)[i] \in TensorOf(program.nodes[i].shape)
BY DEF TypeOK, currentShape, current

LEMMA OutputsAppend ==
  ASSUME TypeOK, NEW t \in TensorOf(OutputShape(outputRow))
  PROVE  /\ Len(Append(outputs, t)) = Len(outputs) + 1
         /\ DOMAIN Append(outputs, t) = 1 .. (Len(outputs) + 1)
         /\ \A o \in DOMAIN Append(outputs, t) :
              Append(outputs, t)[o] \in TensorOf(OutputShape(o))
BY DEF TypeOK, outputRow

-----------------------------------------------------------------------------
(* Every step keeps the types and the loop bounds. *)

LEMMA TypeStep == TypeInv /\ [Next]_vars => TypeInv'
<1> SUFFICES ASSUME TypeInv, [Next]_vars PROVE TypeInv'
  OBVIOUS
<1> USE ProgramInHand
<1>1. CASE EstimateNode
  <2>1. required' \in Seq(Estimate) /\ Len(required') <= nodeCount
    BY <1>1, EstimateIsNat DEF EstimateNode, TypeInv, TypeOK
  <2>2. TypeOK'
    BY <1>1, <2>1 DEF EstimateNode, arguments, TypeInv, TypeOK, accShape, nodeCount,
                      currentShape, current, OutputShape, outputRow
  <2>3. Control'
    BY <1>1 DEF EstimateNode, arguments, TypeInv, Control, nodeCount
  <2> QED
    BY <2>2, <2>3 DEF TypeInv
<1>2. CASE AcceptProgram
  <2>1. TypeOK'
    BY <1>2 DEF AcceptProgram, arguments, TypeInv, TypeOK, accShape, nodeCount,
                currentShape, current, OutputShape, outputRow
  <2>2. Control'
    BY <1>2 DEF AcceptProgram, arguments, TypeInv, Control, nodeCount
  <2> QED
    BY <2>1, <2>2 DEF TypeInv
<1>3. CASE RefuseProgram
  <2>1. TypeOK'
    BY <1>3 DEF RefuseProgram, End, arguments, TypeInv, TypeOK, Control, accShape, nodeCount,
                currentShape, current, OutputShape, outputRow
  <2>2. Control'
    BY <1>3 DEF RefuseProgram, End, arguments, TypeInv, Control, nodeCount
  <2> QED
    BY <2>1, <2>2 DEF TypeInv
<1>4. CASE AddInput
  <2>1. acc' \in TensorOf(accShape)
    BY <1>4, InputTermIsTensor, AccIsTensor, SumIsTensor DEF AddInput, AddTerm
  <2>2. TypeOK'
    BY <1>4, <2>1 DEF AddInput, AddTerm, arguments, TypeInv, TypeOK, accShape, nodeCount,
                currentShape, current, OutputShape, outputRow
  <2>3. Control'
    BY <1>4 DEF AddInput, AddTerm, arguments, TypeInv, Control, nodeCount
  <2> QED
    BY <2>2, <2>3 DEF TypeInv
<1>5. CASE SkipInput
  <2>1. TypeOK'
    BY <1>5 DEF SkipInput, arguments, TypeInv, TypeOK, accShape, nodeCount,
                currentShape, current, OutputShape, outputRow
  <2>2. Control'
    BY <1>5 DEF SkipInput, arguments, TypeInv, Control, nodeCount
  <2> QED
    BY <2>1, <2>2 DEF TypeInv
<1>6. CASE EndInputs
  <2>1. TypeOK'
    BY <1>6 DEF EndInputs, FirstCandidate, arguments, TypeInv, TypeOK, accShape, nodeCount,
                currentShape, current, OutputShape, outputRow
  <2>2. Control'
    BY <1>6 DEF EndInputs, FirstCandidate, arguments, TypeInv, TypeOK, Control, nodeCount
  <2> QED
    BY <2>1, <2>2 DEF TypeInv
<1>7. CASE AddCandidate
  <2>1. acc' \in TensorOf(accShape)
    <3>1. cand.rhs <= Len(values)
      BY <1>7 DEF AddCandidate, CandidateLeft, TypeInv, Control
    <3> QED
      BY <1>7, <3>1, CandidateTermIsTensor, AccIsTensor, SumIsTensor DEF AddCandidate, AddTerm
  <2>2. cand' \in [lhs : Nat \ {0}, rhs : Nat \ {0}, k : 1 .. 3]
        /\ (cand'.lhs <= Len(values) => cand'.rhs <= Len(values))
    BY <1>7, NextCandidateInRange DEF AddCandidate, TypeInv
  <2>3. TypeOK'
    BY <1>7, <2>1, <2>2 DEF AddCandidate, AddTerm, arguments, TypeInv, TypeOK, accShape,
                nodeCount, currentShape, current, OutputShape, outputRow
  <2>4. Control'
    BY <1>7, <2>2 DEF AddCandidate, CandidateLeft, AddTerm, arguments, TypeInv, Control, nodeCount
  <2> QED
    BY <2>3, <2>4 DEF TypeInv
<1>8. CASE SkipCandidate
  <2>1. cand' \in [lhs : Nat \ {0}, rhs : Nat \ {0}, k : 1 .. 3]
        /\ (cand'.lhs <= Len(values) => cand'.rhs <= Len(values))
    BY <1>8, NextCandidateInRange DEF SkipCandidate, TypeInv
  <2>2. TypeOK'
    BY <1>8, <2>1 DEF SkipCandidate, arguments, TypeInv, TypeOK, accShape, nodeCount,
                currentShape, current, OutputShape, outputRow
  <2>3. Control'
    BY <1>8, <2>1 DEF SkipCandidate, CandidateLeft, arguments, TypeInv, Control, nodeCount
  <2> QED
    BY <2>2, <2>3 DEF TypeInv
<1>9. CASE StoreNode
  <2>1. accShape = currentShape /\ current \in DOMAIN program.nodes /\ outputs = <<>>
    BY <1>9 DEF StoreNode, TypeInv, TypeOK, Control, accShape, current
  <2>2. /\ DOMAIN values' = 1 .. Len(values') /\ Len(values') = current
        /\ \A i \in DOMAIN values' : values'[i] \in TensorOf(program.nodes[i].shape)
    BY <1>9, <2>1, ValuesAppend DEF StoreNode, TypeInv, TypeOK, current, currentShape
  <2>3. acc' \in TensorOf(accShape)'
    <3>1. CASE current < nodeCount
      BY <1>9, <2>1, <2>2, <3>1, ZeroIsTensor
         DEF StoreNode, arguments, accShape, currentShape, current, nodeCount
    <3>2. CASE ~(current < nodeCount)
      BY <1>9, <2>1, <2>2, <3>2, ZeroIsTensor
         DEF StoreNode, arguments, accShape, currentShape, current, nodeCount, outputRow,
             OutputShape, TypeInv, Control
    <3> QED
      BY <3>1, <3>2
  <2>4. TypeOK'
    BY <1>9, <2>1, <2>2, <2>3
       DEF StoreNode, FirstCandidate, arguments, TypeInv, TypeOK, nodeCount, OutputShape
  <2>5. Control'
    BY <1>9, <2>1, <2>2 DEF StoreNode, arguments, TypeInv, TypeOK, Control, nodeCount, current
  <2> QED
    BY <2>4, <2>5 DEF TypeInv
<1>10. CASE AddOutput
  <2>1. acc' \in TensorOf(accShape)
    BY <1>10, OutputTermIsTensor, AccIsTensor, SumIsTensor DEF AddOutput, AddTerm
  <2>2. TypeOK'
    BY <1>10, <2>1 DEF AddOutput, AddTerm, arguments, TypeInv, TypeOK, accShape, nodeCount,
                currentShape, current, OutputShape, outputRow
  <2>3. Control'
    BY <1>10 DEF AddOutput, AddTerm, arguments, TypeInv, Control, nodeCount
  <2> QED
    BY <2>2, <2>3 DEF TypeInv
<1>11. CASE SkipOutput
  <2>1. TypeOK'
    BY <1>11 DEF SkipOutput, arguments, TypeInv, TypeOK, accShape, nodeCount,
                currentShape, current, OutputShape, outputRow
  <2>2. Control'
    BY <1>11 DEF SkipOutput, arguments, TypeInv, Control, nodeCount
  <2> QED
    BY <2>1, <2>2 DEF TypeInv
<1>12. CASE StoreOutput
  <2>1. /\ accShape = OutputShape(outputRow) /\ outputRow \in DOMAIN program.output_ids
        /\ Len(values) = nodeCount
    BY <1>12 DEF StoreOutput, TypeInv, TypeOK, Control, accShape, outputRow
  <2>2. /\ DOMAIN outputs' = 1 .. Len(outputs') /\ Len(outputs') = outputRow
        /\ \A o \in DOMAIN outputs' : outputs'[o] \in TensorOf(OutputShape(o))
    BY <1>12, <2>1, OutputsAppend DEF StoreOutput, TypeInv, TypeOK, outputRow
  <2>3. acc' \in TensorOf(accShape)'
    <3>1. CASE outputRow < Len(program.output_ids)
      BY <1>12, <2>1, <2>2, <3>1, ZeroIsTensor
         DEF StoreOutput, arguments, accShape, nodeCount, outputRow, OutputShape,
             TypeInv, Control
    <3>2. CASE ~(outputRow < Len(program.output_ids))
      BY <1>12, <2>1, <2>2, <3>2
         DEF StoreOutput, End, arguments, accShape, nodeCount, outputRow, OutputShape,
             TypeInv, TypeOK
    <3> QED
      BY <3>1, <3>2
  <2>4. TypeOK'
    BY <1>12, <2>1, <2>2, <2>3
       DEF StoreOutput, End, arguments, TypeInv, TypeOK, nodeCount, OutputShape
  <2>5. Control'
    BY <1>12, <2>1, <2>2
       DEF StoreOutput, End, arguments, TypeInv, TypeOK, Control, nodeCount, outputRow
  <2> QED
    BY <2>4, <2>5 DEF TypeInv
<1>13. CASE ExceedBudget
  <2>1. InputLeft \/ CandidateLeft \/ OutputLeft
    <3>1. budget \in Nat
      BY BudgetAssumption DEF TypeInv, TypeOK
    <3> QED
      BY <1>13, <3>1 DEF ExceedBudget, neededDepth, Affordable
  <2>2. phase # "ended"
    BY <2>1 DEF InputLeft, CandidateLeft, OutputLeft
  <2>3. TypeOK'
    BY <1>13, <2>2 DEF ExceedBudget, End, arguments, TypeInv, TypeOK, Control, accShape,
                nodeCount, currentShape, current, OutputShape, outputRow
  <2>4. Control'
    BY <1>13, <2>2 DEF ExceedBudget, End, arguments, TypeInv, Control, nodeCount
  <2> QED
    BY <2>3, <2>4 DEF TypeInv
<1>14. CASE OpenFHEFails
  <2>1. phase # "ended"
    BY <1>14 DEF OpenFHEFails, LibraryCalled, InputLeft, CandidateLeft, OutputLeft
  <2>2. TypeOK'
    BY <1>14, <2>1 DEF OpenFHEFails, End, arguments, TypeInv, TypeOK, Control, accShape,
                nodeCount, currentShape, current, OutputShape, outputRow
  <2>3. Control'
    BY <1>14, <2>1 DEF OpenFHEFails, End, arguments, TypeInv, Control, nodeCount
  <2> QED
    BY <2>2, <2>3 DEF TypeInv
<1>15. CASE UNCHANGED vars
  BY <1>15 DEF vars, TypeInv, TypeOK, Control, accShape, nodeCount, currentShape, current,
               OutputShape, outputRow
<1> QED
  BY <1>1, <1>2, <1>3, <1>4, <1>5, <1>6, <1>7, <1>8, <1>9, <1>10, <1>11, <1>12, <1>13, <1>14,
     <1>15 DEF Next, Step

(* The invariant holds throughout, of the specification with and without   *)
(* fairness.                                                               *)
LEMMA TypeInvariant == Spec => []TypeInv
BY TypeInit, TypeStep, PTL DEF Spec

(* Type correctness, with the shapes: every node value, output and running *)
(* sum of the oblivious executor is a tensor of the shape the artifact     *)
(* announces for it.                                                       *)
THEOREM TypeCorrectness == Spec => []TypeOK
<1>1. TypeInv => TypeOK
  BY DEF TypeInv
<1> QED
  BY <1>1, TypeInvariant, PTL

-----------------------------------------------------------------------------
(* The depth budget. *)

(* depth_used bounds the level of a tensor and respects the budget. *)
Kept(t) == t.level <= t.depth /\ t.depth <= budget

DepthInv ==
  /\ \A i \in DOMAIN values : Kept(values[i])
  /\ \A o \in DOMAIN outputs : Kept(outputs[o])
  /\ Kept(acc)
  /\ \A id \in InputNodes(program) : inputs[id].level <= inputs[id].depth

LEMMA ScaleKept ==
  ASSUME NEW s, NEW t \in TensorOf(s), NEW w, NEW wd \in Nat,
         t.level <= t.depth, Affordable(Scale(w, wd, t).depth)
  PROVE  Kept(Scale(w, wd, t))
BY DEF Scale, Kept, TensorOf, Next1, Max2, Affordable

LEMMA SumKept ==
  ASSUME NEW s, NEW x \in TensorOf(s), NEW y \in TensorOf(s), Kept(x), Kept(y)
  PROVE  Kept(Sum(x, y))
BY DEF Sum, Kept, TensorOf, Max2

LEMMA EvaluateLevel ==
  ASSUME NEW q, NEW r, NEW x \in TensorOf(q), NEW y \in TensorOf(r), NEW op,
         x.level <= x.depth, y.level <= y.depth
  PROVE  /\ Evaluate(op, x, y).level \in Nat
         /\ Evaluate(op, x, y).depth \in Nat
         /\ Evaluate(op, x, y).level <= Evaluate(op, x, y).depth
<1>1. /\ Max2(x.level, y.level) \in Nat /\ Max2(x.depth, y.depth) \in Nat
      /\ Max2(x.level, y.level) <= Max2(x.depth, y.depth)
  BY DEF TensorOf, Max2
<1> QED
  BY <1>1 DEF Evaluate, Next1

LEMMA ZeroKept ==
  ASSUME TypeInv, NEW s
  PROVE  Kept(ZeroTensor(s))
<1>1. budget \in Nat
  BY BudgetAssumption DEF TypeInv, TypeOK
<1> QED
  BY <1>1 DEF ZeroTensor, Kept

LEMMA DepthInit == Init => DepthInv
<1> SUFFICES ASSUME Init PROVE DepthInv
  OBVIOUS
<1>1. Kept(acc)
  BY ZeroKept, TypeInit DEF Init
<1>2. \A id \in InputNodes(program) : inputs[id].level <= inputs[id].depth
  <2>1. PICK in \in Supplies(program), d \in [InputNodes(program) -> InputDepth] :
          inputs = [id \in InputNodes(program) |->
                     [shape |-> ShapeOf(program, id), payload |-> in[id],
                      depth |-> d[id], level |-> d[id]]]
    BY DEF Init
  <2>2. \A id \in InputNodes(program) : d[id] \in Nat
    BY InputDepthAssumption
  <2> QED
    BY <2>1, <2>2
<1>3. DOMAIN values = {} /\ DOMAIN outputs = {}
  BY DEF Init
<1> QED
  BY <1>1, <1>2, <1>3 DEF DepthInv

LEMMA DepthStep == TypeInv /\ TypeInv' /\ DepthInv /\ [Next]_vars => DepthInv'
<1> SUFFICES ASSUME TypeInv, TypeInv', DepthInv, [Next]_vars PROVE DepthInv'
  OBVIOUS
<1> USE ProgramInHand, AccIsTensor
<1>1. CASE EstimateNode \/ AcceptProgram \/ RefuseProgram \/ SkipInput \/ EndInputs
           \/ SkipCandidate \/ SkipOutput \/ ExceedBudget \/ OpenFHEFails \/ UNCHANGED vars
  BY <1>1 DEF EstimateNode, AcceptProgram, RefuseProgram, SkipInput, EndInputs, SkipCandidate,
              SkipOutput, ExceedBudget, OpenFHEFails, vars, arguments, DepthInv, Kept
<1>2. CASE AddInput
  <2>1. inputTensor \in TensorOf(ShapeOf(program, program.input_ids[col]))
        /\ inputTensor.level <= inputTensor.depth
    BY <1>2, InterfaceNodes DEF AddInput, InputLeft, inputTensor, TypeInv, TypeOK, DepthInv
  <2>2. Kept(InputTerm)
    BY <1>2, <2>1, ScaleKept DEF AddInput, AddTerm, InputTerm, ProgramDepth
  <2>3. Kept(acc')
    BY <1>2, <2>2, SumKept, InputTermIsTensor DEF AddInput, AddTerm, DepthInv
  <2> QED
    BY <1>2, <2>3 DEF AddInput, arguments, DepthInv, Kept
<1>3. CASE AddCandidate
  <2> DEFINE x == values[cand.lhs]
             y == values[cand.rhs]
             e == Evaluate(candOp, x, y)
  <2>1. CandidateLeft /\ cand.rhs <= Len(values) /\ candApplies
    BY <1>3 DEF AddCandidate, CandidateLeft, TypeInv, Control
  <2>2. cand.lhs \in DOMAIN values /\ cand.rhs \in DOMAIN values
    <3>1. /\ cand.lhs \in Nat \ {0} /\ cand.rhs \in Nat \ {0}
          /\ DOMAIN values = 1 .. Len(values) /\ Len(values) \in Nat
      BY DEF TypeInv, TypeOK
    <3> QED
      BY <2>1, <3>1 DEF CandidateLeft
  <2>3. /\ x \in TensorOf(program.nodes[cand.lhs].shape) /\ x.level <= x.depth
        /\ y \in TensorOf(program.nodes[cand.rhs].shape) /\ y.level <= y.depth
    BY <2>2 DEF TypeInv, TypeOK, DepthInv, Kept
  <2>4. e.level \in Nat /\ e.depth \in Nat /\ e.level <= e.depth
    BY <2>3, EvaluateLevel
  <2>5. CandidateTerm \in TensorOf(accShape)
    BY <2>1, CandidateTermIsTensor
  <2>6. Kept(CandidateTerm)
    BY <1>3, <2>4 DEF AddCandidate, AddTerm, Affordable, CandidateTerm, Scale, Kept,
         CandidateWeightDepth, PairWeightDepth, ProgramDepth, Next1, Max2
  <2>7. Kept(acc')
    BY <1>3, <2>5, <2>6, SumKept DEF AddCandidate, AddTerm, DepthInv
  <2> QED
    BY <1>3, <2>7 DEF AddCandidate, arguments, DepthInv, Kept
<1>4. CASE StoreNode
  <2>1. Kept(acc')
    BY <1>4, ZeroKept DEF StoreNode, arguments, Kept, OutputShape
  <2>2. \A i \in DOMAIN values' : Kept(values'[i])
    BY <1>4 DEF StoreNode, DepthInv, TypeInv, TypeOK
  <2> QED
    BY <1>4, <2>1, <2>2 DEF StoreNode, arguments, DepthInv, Kept
<1>5. CASE AddOutput
  <2>1. col \in DOMAIN values
    BY <1>5 DEF AddOutput, OutputLeft, TypeInv, TypeOK, Control
  <2>2. values[col] \in TensorOf(program.nodes[col].shape)
        /\ values[col].level <= values[col].depth
    BY <2>1 DEF TypeInv, TypeOK, DepthInv, Kept
  <2>3. Kept(OutputTerm)
    BY <1>5, <2>2, ScaleKept DEF AddOutput, AddTerm, OutputTerm, ProgramDepth
  <2>4. Kept(acc')
    BY <1>5, <2>3, SumKept, OutputTermIsTensor DEF AddOutput, AddTerm, DepthInv
  <2> QED
    BY <1>5, <2>4 DEF AddOutput, arguments, DepthInv, Kept
<1>6. CASE StoreOutput
  <2>1. Kept(acc')
    BY <1>6, ZeroKept DEF StoreOutput, arguments, DepthInv, Kept
  <2>2. \A o \in DOMAIN outputs' : Kept(outputs'[o])
    BY <1>6 DEF StoreOutput, DepthInv, TypeInv, TypeOK
  <2> QED
    BY <1>6, <2>1, <2>2 DEF StoreOutput, arguments, DepthInv, Kept
<1> QED
  BY <1>1, <1>2, <1>3, <1>4, <1>5, <1>6 DEF Next, Step

(* No ciphertext of the executor carries more multiplications than its     *)
(* depth_used admits, and none exceeds the configured budget, whatever the *)
(* depth of the inputs and whether or not the caller validated.            *)
THEOREM BudgetKept == Spec => []LevelsWithinBudget
<1>1. TypeInv /\ DepthInv => LevelsWithinBudget
  BY DEF DepthInv, Kept, LevelsWithinBudget, Range
<1> QED
  BY <1>1, TypeInvariant, DepthInit, DepthStep, PTL DEF Spec

-----------------------------------------------------------------------------
(* Part 2.  The executor implements PublicExecution.                       *)

(* The counters of the loops, as the phases need them. *)

Counters ==
  /\ phase = "validate" => col = 1 /\ terms = 0 /\ acc.depth = 0 /\ verdict = "pending"
  /\ phase = "candidates" => col > Len(program.input_ids)
  /\ verdict = "refused" /\ ~unchecked => phase = "ended"

Loops == TypeInv /\ Counters

LEMMA CountersInit == Init => Counters
BY DEF Init, Counters, ZeroTensor

LEMMA CountersStep == Counters /\ [Next]_vars => Counters'
<1> SUFFICES ASSUME Counters, [Next]_vars PROVE Counters'
  OBVIOUS
<1> USE DEF Counters, arguments
<1>1. CASE EstimateNode \/ AcceptProgram \/ RefuseProgram
  BY <1>1 DEF EstimateNode, AcceptProgram, RefuseProgram, End
<1>2. CASE AddInput \/ SkipInput \/ EndInputs
  BY <1>2 DEF AddInput, SkipInput, EndInputs, InputLeft, AddTerm
<1>3. CASE AddCandidate \/ SkipCandidate \/ StoreNode
  BY <1>3 DEF AddCandidate, SkipCandidate, StoreNode, CandidateLeft, AddTerm
<1>4. CASE AddOutput \/ SkipOutput \/ StoreOutput
  BY <1>4 DEF AddOutput, SkipOutput, StoreOutput, OutputLeft, AddTerm, End
<1>5. CASE ExceedBudget \/ OpenFHEFails
  BY <1>5 DEF ExceedBudget, OpenFHEFails, End
<1>6. CASE UNCHANGED vars
  BY <1>6 DEF vars
<1> QED
  BY <1>1, <1>2, <1>3, <1>4, <1>5, <1>6 DEF Next, Step

-----------------------------------------------------------------------------
(* The public view of a state. *)

LEMMA ViewOfLengths ==
  ASSUME TypeInv
  PROVE  /\ Len(depthsOf(values)) = Len(values)
         /\ DOMAIN depthsOf(values) = 1 .. Len(values)
         /\ \A i \in 1 .. Len(values) : depthsOf(values)[i] = values[i].depth
         /\ Len(depthsOf(outputs)) = Len(outputs)
         /\ Len(publicMeta.shapes) = nodeCount
         /\ \A i \in 1 .. nodeCount : publicMeta.shapes[i] = program.nodes[i].shape
         /\ Len(publicMeta.inputs) = Len(program.input_ids)
         /\ \A c \in 1 .. Len(program.input_ids) :
              /\ publicMeta.inputs[c].shape = inputs[program.input_ids[c]].shape
              /\ publicMeta.inputs[c].depth = inputs[program.input_ids[c]].depth
         /\ Len(publicMeta.outputs) = Len(program.output_ids)
         /\ \A o \in 1 .. Len(program.output_ids) : publicMeta.outputs[o] = OutputShape(o)
         /\ publicMeta.budget = budget
<1>1. /\ DOMAIN values = 1 .. Len(values) /\ Len(values) \in Nat
      /\ DOMAIN outputs = 1 .. Len(outputs) /\ Len(outputs) \in Nat
  BY DEF TypeInv, TypeOK
<1> QED
  BY <1>1, ProgramInHand DEF depthsOf, publicMeta

(* Where the two machines are in their loops. *)
LEMMA ViewOfLoops ==
  ASSUME Loops, outcome = "running", phase # "validate"
  PROVE  /\ Public!summingNodes <=> phase \in {"inputs", "candidates"}
         /\ Public!InputNext <=> InputLeft
         /\ Public!CandidateNext <=> (CandidateLeft \/ (phase = "inputs" /\ ~InputLeft
                                                        /\ cand.lhs <= Len(values)))
         /\ Public!OutputNext <=> OutputLeft
         /\ publicStatus = "running"
<1>1. phase \in {"inputs", "candidates", "outputs"}
  BY DEF Loops, TypeInv, TypeOK, Control
<1>2. Len(values) < nodeCount <=> phase \in {"inputs", "candidates"}
  BY <1>1 DEF Loops, TypeInv, Control
<1>3. /\ Len(depthsOf(values)) = Len(values) /\ Len(publicMeta.shapes) = nodeCount
      /\ Len(publicMeta.inputs) = Len(program.input_ids)
  BY ViewOfLengths DEF Loops
<1>4. /\ col \in Nat /\ Len(program.input_ids) \in Nat
      /\ phase = "candidates" => ~(col <= Len(program.input_ids))
  BY ProgramInHand DEF Loops, TypeInv, TypeOK, Counters
<1> QED
  BY <1>1, <1>2, <1>3, <1>4
     DEF Public!summingNodes, Public!InputNext, Public!CandidateNext, Public!OutputNext,
         InputLeft, CandidateLeft, OutputLeft, publicStatus

(* The two machines agree on what the next step is. *)
LEMMA InputStepSeen ==
  ASSUME Loops, InputLeft
  PROVE  Public!nextStep = IF inputTensor.shape = currentShape
                           THEN Public!Product(InputTerm.depth) ELSE Public!NoProduct
<1>1. phase = "inputs" /\ outcome = "running" /\ current \in 1 .. nodeCount
      /\ col \in 1 .. Len(program.input_ids)
  BY ProgramInHand DEF InputLeft, Loops, TypeInv, TypeOK, Control, current
<1>2. Public!InputNext /\ ~Public!CandidateNext /\ ~Public!OutputNext
  BY <1>1, ViewOfLoops DEF InputLeft, OutputLeft, CandidateLeft
<1>3. /\ publicMeta.shapes[Len(depthsOf(values)) + 1] = currentShape
      /\ publicMeta.inputs[col].shape = inputTensor.shape
      /\ publicMeta.inputs[col].depth = inputTensor.depth
  BY <1>1, ViewOfLengths DEF Loops, current, currentShape, inputTensor
<1>4. inputTensor.depth \in Nat
  BY <1>1, ProgramInHand, InterfaceNodes DEF Loops, TypeInv, TypeOK, TensorOf, inputTensor
<1>5. InputTerm.depth = inputTensor.depth + 1
  BY <1>4 DEF InputTerm, Scale, ProgramDepth, Next1, Max2
<1> QED
  BY <1>2, <1>3, <1>5 DEF Public!nextStep

LEMMA CandidateStepSeen ==
  ASSUME Loops, CandidateLeft
  PROVE  Public!nextStep = IF candApplies THEN Public!Product(CandidateTerm.depth)
                           ELSE [product |-> FALSE, depth |-> PairWeightDepth]
<1> DEFINE x == values[cand.lhs]
           y == values[cand.rhs]
<1>1. /\ phase = "candidates" /\ outcome = "running" /\ current \in 1 .. nodeCount
      /\ cand.lhs \in 1 .. Len(values) /\ cand.rhs \in 1 .. Len(values) /\ cand.k \in 1 .. 3
      /\ Len(values) \in Nat /\ nodeCount \in Nat /\ Len(values) <= nodeCount
  BY ProgramInHand DEF CandidateLeft, Loops, TypeInv, TypeOK, Control, current
<1>2. Public!CandidateNext /\ ~Public!InputNext /\ ~Public!OutputNext
  BY <1>1, ViewOfLoops DEF InputLeft, OutputLeft
<1>3. /\ publicMeta.shapes[Len(depthsOf(values)) + 1] = currentShape
      /\ publicMeta.shapes[cand.lhs] = program.nodes[cand.lhs].shape
      /\ publicMeta.shapes[cand.rhs] = program.nodes[cand.rhs].shape
      /\ depthsOf(values)[cand.lhs] = x.depth /\ depthsOf(values)[cand.rhs] = y.depth
  BY <1>1, ViewOfLengths DEF Loops, current, currentShape
<1>4. /\ x.shape = program.nodes[cand.lhs].shape /\ x.depth \in Nat
      /\ y.shape = program.nodes[cand.rhs].shape /\ y.depth \in Nat
  BY <1>1 DEF Loops, TypeInv, TypeOK, TensorOf
<1>5. /\ candOp = "GEMM" <=> cand.k = 3
      /\ candOp = "ADD" <=> cand.k = 1
  BY <1>1 DEF candOp, CandidateOps
<1>6. candApplies <=> Public!Fits(cand.k, x.shape, y.shape, currentShape)
  BY <1>5
     DEF candApplies, Applicable, GemmConforms, GemmShape,
         Public!Fits, Public!GemmConforms, Public!GemmShape
<1>7. CandidateTerm.depth
        = Public!Larger(3, IF cand.k = 1 THEN Public!Larger(x.depth, y.depth)
                           ELSE Public!Larger(x.depth, y.depth) + 1) + 1
  BY <1>4, <1>5 DEF CandidateTerm, Scale, Evaluate, CandidateWeightDepth, PairWeightDepth,
                    ProgramDepth, Next1, Max2, Public!Larger
<1>8. PairWeightDepth = 2
  BY DEF PairWeightDepth, ProgramDepth, Next1, Max2
<1> QED
  BY <1>2, <1>3, <1>4, <1>6, <1>7, <1>8
     DEF Public!nextStep, Public!PairDepth, Public!WeightDepth

LEMMA OutputStepSeen ==
  ASSUME Loops, OutputLeft
  PROVE  Public!nextStep = IF values[col].shape = OutputShape(outputRow)
                           THEN Public!Product(OutputTerm.depth) ELSE Public!NoProduct
<1>1. /\ phase = "outputs" /\ outcome = "running" /\ Len(values) = nodeCount
      /\ col \in 1 .. nodeCount /\ outputRow \in 1 .. Len(program.output_ids)
  BY ProgramInHand DEF OutputLeft, Loops, TypeInv, TypeOK, Control, outputRow
<1>2. Public!OutputNext /\ ~Public!InputNext /\ ~Public!CandidateNext
  BY <1>1, ViewOfLoops DEF InputLeft, CandidateLeft
<1>3. /\ publicMeta.shapes[col] = program.nodes[col].shape
      /\ publicMeta.outputs[Len(depthsOf(outputs)) + 1] = OutputShape(outputRow)
      /\ depthsOf(values)[col] = values[col].depth
  BY <1>1, ViewOfLengths DEF Loops, outputRow
<1>4. values[col].shape = program.nodes[col].shape /\ values[col].depth \in Nat
  BY <1>1 DEF Loops, TypeInv, TypeOK, TensorOf
<1>5. OutputTerm.depth = values[col].depth + 1
  BY <1>4 DEF OutputTerm, Scale, ProgramDepth, Next1, Max2
<1> QED
  BY <1>2, <1>3, <1>4, <1>5 DEF Public!nextStep

-----------------------------------------------------------------------------
(* Every step of the executor is a step of the public machine, or none.    *)

LEMMA PublicInit == Init => Public!Init
<1> SUFFICES ASSUME Init PROVE Public!Init
  OBVIOUS
<1> USE ProgramInHand
<1>1. TypeInv
  BY TypeInit
<1>2. publicMeta \in Public!Metadata
  <2>1. publicMeta.budget \in Nat
    BY <1>1, BudgetAssumption DEF publicMeta, TypeInv, TypeOK
  <2>2. publicMeta.shapes \in Seq(Shape) /\ publicMeta.outputs \in Seq(Shape)
    <3>1. /\ publicMeta.shapes = [i \in 1 .. nodeCount |-> program.nodes[i].shape]
          /\ publicMeta.outputs = [o \in 1 .. Len(program.output_ids) |-> OutputShape(o)]
      BY <1>1 DEF publicMeta
    <3>2. /\ \A i \in 1 .. nodeCount : program.nodes[i].shape \in Shape
          /\ \A o \in 1 .. Len(program.output_ids) : OutputShape(o) \in Shape
          /\ nodeCount \in Nat /\ Len(program.output_ids) \in Nat
      BY <1>1
    <3> QED
      BY <3>1, <3>2
  <2>3. publicMeta.inputs \in Seq([shape : Shape, depth : Nat])
    <3> DEFINE R == [shape : Shape, depth : Nat]
               Seen(c) == [shape |-> inputs[program.input_ids[c]].shape,
                           depth |-> inputs[program.input_ids[c]].depth]
    <3>1. ASSUME NEW c \in 1 .. Len(program.input_ids)
          PROVE  Seen(c) \in R
      <4>1. program.input_ids[c] \in InputNodes(program)
        BY <1>1, InterfaceNodes
      <4> QED
        BY <1>1, <4>1 DEF TypeInv, TypeOK, TensorOf
    <3>2. publicMeta.inputs = [c \in 1 .. Len(program.input_ids) |-> Seen(c)]
          /\ Len(program.input_ids) \in Nat
      BY <1>1 DEF publicMeta
    <3> HIDE DEF R, Seen
    <3> QED
      BY <3>1, <3>2 DEF R
  <2>4. publicMeta = [budget |-> publicMeta.budget, shapes |-> publicMeta.shapes,
                      inputs |-> publicMeta.inputs, outputs |-> publicMeta.outputs]
    BY DEF publicMeta
  <2> QED
    BY <2>1, <2>2, <2>3, <2>4 DEF Public!Metadata
<1>3. Public!Start
  BY DEF Init, FirstCandidate, ZeroTensor, Public!Start
<1>4. depthsOf(values) = <<>> /\ depthsOf(outputs) = <<>> /\ publicStatus = "running"
  BY DEF Init, depthsOf, publicStatus
<1> QED
  BY <1>2, <1>3, <1>4 DEF Public!Init

LEMMA SameMeta == UNCHANGED arguments => UNCHANGED publicMeta
BY DEF arguments, publicMeta, OutputShape

(* Estimating and accepting are not seen. *)
LEMMA UnseenSteps ==
  ASSUME Loops, EstimateNode \/ AcceptProgram \/ EndInputs
  PROVE  UNCHANGED Public!vars
BY SameMeta DEF Loops, TypeInv, Control, Counters, EstimateNode, AcceptProgram, EndInputs,
                publicStatus, Public!vars, arguments

LEMMA RefusalSeen ==
  ASSUME Loops, RefuseProgram
  PROVE  Public!Refuse \/ UNCHANGED Public!vars
<1>1. UNCHANGED <<arguments, col, cand, acc, terms, values, outputs>> /\ UNCHANGED publicMeta
  BY SameMeta DEF RefuseProgram
<1>2. CASE unchecked
  BY <1>1, <1>2 DEF RefuseProgram, Loops, TypeInv, Control, publicStatus, Public!vars, arguments
<1>3. CASE ~unchecked
  <2>1. publicStatus = "running" /\ publicStatus' = "refused"
    BY <1>3 DEF RefuseProgram, End, Loops, TypeInv, Control, publicStatus, arguments
  <2>2. Public!Start /\ depthsOf(values) = <<>>
    BY DEF RefuseProgram, Loops, TypeInv, Control, Counters, Public!Start, FirstCandidate, depthsOf
  <2> QED
    BY <1>1, <2>1, <2>2 DEF Public!Refuse
<1> QED
  BY <1>2, <1>3

(* An iteration of one of the three loops. *)
LEMMA InputSeen ==
  ASSUME Loops, AddInput \/ SkipInput
  PROVE  Public!Advance
<1>1. InputLeft /\ outcome = "running" /\ phase = "inputs"
  BY DEF AddInput, SkipInput, InputLeft, Loops, TypeInv, Control
<1>2. /\ UNCHANGED <<arguments, verdict, phase, cand, values, outputs, outcome>>
      /\ UNCHANGED publicMeta
  BY SameMeta DEF AddInput, SkipInput
<1>3. Public!InputNext /\ ~Public!CandidateNext /\ publicStatus = "running"
  BY <1>1, ViewOfLoops DEF CandidateLeft, InputLeft
<1>4. publicMeta.budget = budget /\ budget \in Nat
  BY BudgetAssumption, ViewOfLengths DEF Loops, TypeInv, TypeOK
<1>5. UNCHANGED <<publicStatus, depthsOf(values), depthsOf(outputs)>>
  BY <1>2 DEF publicStatus, arguments
<1>6. CASE AddInput
  BY <1>1, <1>2, <1>3, <1>4, <1>5, <1>6, InputStepSeen
     DEF AddInput, AddTerm, Affordable, Sum, Max2,
         Public!Advance, Public!affordable, Public!Product, Public!NoProduct, Public!Larger
<1>7. CASE SkipInput
  BY <1>1, <1>2, <1>3, <1>4, <1>5, <1>7, InputStepSeen
     DEF SkipInput, Public!Advance, Public!affordable, Public!NoProduct
<1> QED
  BY <1>6, <1>7

LEMMA CandidateSeen ==
  ASSUME Loops, AddCandidate \/ SkipCandidate
  PROVE  Public!Advance
<1>1. CandidateLeft /\ outcome = "running" /\ phase = "candidates"
  BY DEF AddCandidate, SkipCandidate, CandidateLeft, Loops, TypeInv, Control
<1>2. /\ UNCHANGED <<arguments, verdict, phase, col, values, outputs, outcome>>
      /\ UNCHANGED publicMeta
  BY SameMeta DEF AddCandidate, SkipCandidate
<1>3. Public!CandidateNext /\ publicStatus = "running"
  BY <1>1, ViewOfLoops
<1>4. publicMeta.budget = budget /\ budget \in Nat
  BY BudgetAssumption, ViewOfLengths DEF Loops, TypeInv, TypeOK
<1>5. UNCHANGED <<publicStatus, depthsOf(values), depthsOf(outputs)>>
  BY <1>2 DEF publicStatus, arguments
<1>6. cand' = Public!following
  <2>1. Len(CandidateOps) = 3 /\ Len(depthsOf(values)) = Len(values)
    BY ViewOfLengths DEF CandidateOps, Loops
  <2> QED
    BY <2>1 DEF AddCandidate, SkipCandidate, NextCandidate, Public!following
<1>7. CASE AddCandidate
  BY <1>1, <1>2, <1>3, <1>4, <1>5, <1>6, <1>7, CandidateStepSeen
     DEF AddCandidate, AddTerm, Affordable, Sum, Max2,
         Public!Advance, Public!affordable, Public!Product, Public!Larger
<1>8. CASE SkipCandidate
  BY <1>1, <1>2, <1>3, <1>4, <1>5, <1>6, <1>8, CandidateStepSeen
     DEF SkipCandidate, Affordable, Public!Advance, Public!affordable
<1> QED
  BY <1>7, <1>8

LEMMA OutputSeen ==
  ASSUME Loops, AddOutput \/ SkipOutput
  PROVE  Public!Advance
<1>1. OutputLeft /\ outcome = "running" /\ phase = "outputs"
  BY DEF AddOutput, SkipOutput, OutputLeft, Loops, TypeInv, Control
<1>2. /\ UNCHANGED <<arguments, verdict, phase, cand, values, outputs, outcome>>
      /\ UNCHANGED publicMeta
  BY SameMeta DEF AddOutput, SkipOutput
<1>3. Public!OutputNext /\ ~Public!CandidateNext /\ publicStatus = "running"
  BY <1>1, ViewOfLoops DEF CandidateLeft
<1>4. publicMeta.budget = budget /\ budget \in Nat
  BY BudgetAssumption, ViewOfLengths DEF Loops, TypeInv, TypeOK
<1>5. UNCHANGED <<publicStatus, depthsOf(values), depthsOf(outputs)>>
  BY <1>2 DEF publicStatus, arguments
<1>6. CASE AddOutput
  BY <1>1, <1>2, <1>3, <1>4, <1>5, <1>6, OutputStepSeen
     DEF AddOutput, AddTerm, Affordable, Sum, Max2,
         Public!Advance, Public!affordable, Public!Product, Public!NoProduct, Public!Larger
<1>7. CASE SkipOutput
  BY <1>1, <1>2, <1>3, <1>4, <1>5, <1>7, OutputStepSeen
     DEF SkipOutput, Public!Advance, Public!affordable, Public!NoProduct
<1> QED
  BY <1>6, <1>7

LEMMA DepthsAppend ==
  ASSUME NEW ts, NEW n \in Nat, DOMAIN ts = 1 .. n, Len(ts) = n, NEW t
  PROVE  depthsOf(Append(ts, t)) = Append(depthsOf(ts), t.depth)
<1> DEFINE S == {ts[i].depth : i \in 1 .. n} \cup {t.depth}
           appended == Append(depthsOf(ts), t.depth)
           joined == [i \in 1 .. (n + 1) |-> IF i = n + 1 THEN t.depth ELSE ts[i].depth]
<1>1. DOMAIN Append(ts, t) = 1 .. (n + 1)
      /\ \A i \in 1 .. (n + 1) : Append(ts, t)[i] = IF i = n + 1 THEN t ELSE ts[i]
  OBVIOUS
<1>2. depthsOf(Append(ts, t)) = joined
  BY <1>1 DEF depthsOf
<1>3. depthsOf(ts) \in Seq(S) /\ Len(depthsOf(ts)) = n
      /\ \A i \in 1 .. n : depthsOf(ts)[i] = ts[i].depth
  BY DEF depthsOf
<1>4. appended = joined
  <2>1. appended \in Seq(S) /\ Len(appended) = n + 1
    <3>1. t.depth \in S
      OBVIOUS
    <3> HIDE DEF S
    <3> QED
      BY <1>3, <3>1
  <2>2. \A i \in 1 .. (n + 1) : appended[i] = joined[i]
    BY <1>3
  <2> HIDE DEF S, appended
  <2>3. appended = [i \in 1 .. (n + 1) |-> appended[i]]
    BY <2>1
  <2> QED
    BY <2>2, <2>3
<1> QED
  BY <1>2, <1>4

(* A sum is complete. *)
LEMMA StoreNodeSeen ==
  ASSUME Loops, StoreNode
  PROVE  Public!Store
<1>1. /\ phase = "candidates" /\ ~CandidateLeft /\ ~InputLeft /\ ~OutputLeft
      /\ outcome = "running" /\ outputs = <<>>
      /\ DOMAIN values = 1 .. Len(values) /\ Len(values) \in Nat
  BY DEF StoreNode, Loops, TypeInv, TypeOK, Control, InputLeft, OutputLeft
<1>2. /\ Public!summingNodes /\ ~Public!InputNext /\ ~Public!CandidateNext
      /\ ~Public!OutputNext /\ publicStatus = "running"
  BY <1>1, ViewOfLoops
<1>3. UNCHANGED <<arguments, verdict, outputs, outcome>> /\ UNCHANGED publicMeta
  BY SameMeta DEF StoreNode
<1>4. depthsOf(values)' = Append(depthsOf(values), acc.depth)
  BY <1>1, DepthsAppend DEF StoreNode
<1>5. Public!Start'
  BY DEF StoreNode, Public!Start, FirstCandidate, ZeroTensor
<1>6. UNCHANGED <<depthsOf(outputs), publicStatus>>
  BY <1>1, <1>3 DEF StoreNode, publicStatus, arguments
<1>7. Len(depthsOf(outputs)') < Len(publicMeta.outputs)
  BY <1>1, <1>6, ViewOfLengths, ProgramInHand DEF Loops
<1> QED
  BY <1>2, <1>3, <1>4, <1>5, <1>6, <1>7 DEF Public!Store

LEMMA StoreOutputSeen ==
  ASSUME Loops, StoreOutput
  PROVE  Public!Store
<1>1. /\ phase = "outputs" /\ ~CandidateLeft /\ ~InputLeft /\ ~OutputLeft
      /\ outcome = "running" /\ cand = FirstCandidate
      /\ DOMAIN outputs = 1 .. Len(outputs) /\ Len(outputs) \in Nat
      /\ Len(outputs) < Len(program.output_ids) /\ ~(verdict = "refused" /\ ~unchecked)
  BY DEF StoreOutput, Loops, TypeInv, TypeOK, Control, Counters, InputLeft, CandidateLeft
<1>2. /\ ~Public!summingNodes /\ ~Public!InputNext /\ ~Public!CandidateNext
      /\ ~Public!OutputNext /\ publicStatus = "running"
  BY <1>1, ViewOfLoops
<1>3. UNCHANGED <<arguments, verdict, cand, values>> /\ UNCHANGED publicMeta
  BY SameMeta DEF StoreOutput
<1>4. /\ depthsOf(outputs)' = Append(depthsOf(outputs), acc.depth)
      /\ Len(depthsOf(outputs)') = outputRow
  BY <1>1, DepthsAppend DEF StoreOutput, depthsOf, outputRow
<1>5. Len(publicMeta.outputs) = Len(program.output_ids) /\ Len(program.output_ids) \in Nat
  BY ViewOfLengths, ProgramInHand DEF Loops
<1>6. UNCHANGED depthsOf(values)
  BY <1>3
<1>7. CASE outputRow < Len(program.output_ids)
  <2>1. Public!Start' /\ UNCHANGED publicStatus
    BY <1>1, <1>3, <1>7 DEF StoreOutput, Public!Start, FirstCandidate, ZeroTensor,
                            publicStatus, arguments
  <2> QED
    BY <1>2, <1>3, <1>4, <1>5, <1>6, <1>7, <2>1 DEF Public!Store
<1>8. CASE ~(outputRow < Len(program.output_ids))
  <2>1. publicStatus' = "done" /\ UNCHANGED <<col, cand, acc.depth, terms>>
    BY <1>1, <1>3, <1>8 DEF StoreOutput, End, publicStatus, arguments
  <2> QED
    BY <1>2, <1>3, <1>4, <1>5, <1>6, <1>8, <2>1 DEF Public!Store
<1> QED
  BY <1>7, <1>8

(* The budget, and the library, stop the executor where they stop the      *)
(* public machine.                                                         *)
LEMMA FailureSeen ==
  ASSUME Loops, ExceedBudget \/ OpenFHEFails
  PROVE  Public!ExceedBudget \/ Public!LibraryFails
<1>1. budget \in Nat /\ publicMeta.budget = budget
  BY BudgetAssumption, ViewOfLengths DEF Loops, TypeInv, TypeOK
<1>2. InputLeft \/ CandidateLeft \/ OutputLeft
  <2>1. CASE ExceedBudget
    BY <1>1, <2>1 DEF ExceedBudget, neededDepth, Affordable
  <2>2. CASE OpenFHEFails
    BY <2>2 DEF OpenFHEFails, LibraryCalled
  <2> QED
    BY <2>1, <2>2
<1>3. outcome = "running" /\ phase \in {"inputs", "candidates", "outputs"}
      /\ ~(verdict = "refused" /\ ~unchecked)
  BY <1>2 DEF Loops, TypeInv, Control, Counters, InputLeft, CandidateLeft, OutputLeft
<1>4. /\ UNCHANGED <<arguments, verdict, col, cand, acc, terms, values, outputs>>
      /\ UNCHANGED publicMeta
  BY SameMeta DEF ExceedBudget, OpenFHEFails
<1>5. publicStatus = "running" /\ publicStatus' = outcome'
  BY <1>3, <1>4 DEF publicStatus, arguments
<1>6. /\ InputLeft => Public!InputNext
      /\ CandidateLeft => Public!CandidateNext
      /\ OutputLeft => Public!OutputNext
  BY <1>3, ViewOfLoops
<1>7. UNCHANGED <<depthsOf(values), depthsOf(outputs)>>
  BY <1>4
<1>8. CASE ExceedBudget
  <2>1. ~(neededDepth <= budget) /\ outcome' = "DepthBudgetError"
    BY <1>8 DEF ExceedBudget, Affordable, End
  <2>2. Public!nextStep.depth = neededDepth
    <3>1. CASE InputLeft
      BY <3>1, InputStepSeen
         DEF neededDepth, InputLeft, CandidateLeft, OutputLeft, Public!Product, Public!NoProduct
    <3>2. CASE CandidateLeft
      BY <3>2, CandidateStepSeen
         DEF neededDepth, InputLeft, CandidateLeft, OutputLeft, Public!Product
    <3>3. CASE OutputLeft
      BY <3>3, OutputStepSeen
         DEF neededDepth, InputLeft, CandidateLeft, OutputLeft, Public!Product, Public!NoProduct
    <3> QED
      BY <1>2, <3>1, <3>2, <3>3
  <2> QED
    BY <1>1, <1>2, <1>4, <1>5, <1>6, <1>7, <2>1, <2>2 DEF Public!ExceedBudget, Public!affordable
<1>9. CASE OpenFHEFails
  <2>1. Public!CandidateNext \/ ((Public!InputNext \/ Public!OutputNext) /\ Public!nextStep.product)
    BY <1>6, <1>9, InputStepSeen, OutputStepSeen
       DEF OpenFHEFails, LibraryCalled, Public!Product
  <2> QED
    BY <1>4, <1>5, <1>7, <1>9, <2>1 DEF OpenFHEFails, End, Public!LibraryFails
<1> QED
  BY <1>8, <1>9

LEMMA PublicStep == Loops /\ [Next]_vars => [Public!Next]_(Public!vars)
<1> SUFFICES ASSUME Loops, [Next]_vars PROVE [Public!Next]_(Public!vars)
  OBVIOUS
<1>1. CASE EstimateNode \/ AcceptProgram \/ EndInputs
  BY <1>1, UnseenSteps
<1>2. CASE RefuseProgram
  BY <1>2, RefusalSeen DEF Public!Next
<1>3. CASE AddInput \/ SkipInput
  BY <1>3, InputSeen DEF Public!Next
<1>4. CASE AddCandidate \/ SkipCandidate
  BY <1>4, CandidateSeen DEF Public!Next
<1>5. CASE AddOutput \/ SkipOutput
  BY <1>5, OutputSeen DEF Public!Next
<1>6. CASE StoreNode
  BY <1>6, StoreNodeSeen DEF Public!Next
<1>7. CASE StoreOutput
  BY <1>7, StoreOutputSeen DEF Public!Next
<1>8. CASE ExceedBudget \/ OpenFHEFails
  BY <1>8, FailureSeen DEF Public!Next
<1>9. CASE UNCHANGED vars
  BY <1>9, SameMeta DEF vars, arguments, publicStatus, Public!vars
<1> QED
  BY <1>1, <1>2, <1>3, <1>4, <1>5, <1>6, <1>7, <1>8, <1>9 DEF Next, Step

(* The executor is oblivious: what it does is what the public machine does *)
(* on the metadata of the artifact, whatever the encrypted opcodes, edges  *)
(* and values are, and whenever the library fails.                         *)
THEOREM Obliviousness == Spec => ImplementsPublic
<1>1. Spec => []Loops
  <2>1. Loops /\ [Next]_vars => Counters'
    BY CountersStep DEF Loops
  <2> QED
    BY <2>1, TypeInvariant, CountersInit, CountersStep, PTL DEF Spec, Loops
<1> QED
  BY <1>1, PublicInit, PublicStep, PTL DEF Spec, ImplementsPublic, Public!Spec

-----------------------------------------------------------------------------
(* Part 3.  The executor computes what the program says.  Of all products  *)
(* summed for a node exactly one has the weight 1.                         *)

(* The candidate that computes node i: its operands and its operation. *)
OpPosition(op) == CHOOSE k \in 1 .. 3 : CandidateOps[k] = op

Own(p, i) ==
  [lhs |-> NodeIndex(p, p.nodes[i].inputs[1]), rhs |-> NodeIndex(p, p.nodes[i].inputs[2]),
   k |-> OpPosition(p.nodes[i].op)]

LEMMA OpPositions ==
  /\ \A k \in 1 .. 3 : CandidateOps[k] \in {"ADD", "MUL", "GEMM"}
  /\ \A op \in {"ADD", "MUL", "GEMM"} :
       OpPosition(op) \in 1 .. 3 /\ CandidateOps[OpPosition(op)] = op
  /\ \A k \in 1 .. 3 : OpPosition(CandidateOps[k]) = k
<1>1. CandidateOps[1] = "ADD" /\ CandidateOps[2] = "MUL" /\ CandidateOps[3] = "GEMM"
  BY DEF CandidateOps
<1>2. \A k \in 1 .. 3 : k = 1 \/ k = 2 \/ k = 3
  OBVIOUS
<1>3. ASSUME NEW op \in {"ADD", "MUL", "GEMM"}
      PROVE  OpPosition(op) \in 1 .. 3 /\ CandidateOps[OpPosition(op)] = op
  <2>1. \E k \in 1 .. 3 : CandidateOps[k] = op
    BY <1>1
  <2> QED
    BY <2>1 DEF OpPosition
<1>4. ASSUME NEW k \in 1 .. 3, NEW m \in 1 .. 3, CandidateOps[k] = CandidateOps[m]
      PROVE  k = m
  BY <1>1, <1>2, <1>4
<1> QED
  BY <1>1, <1>2, <1>3, <1>4

LEMMA CandidateRow ==
  ASSUME NEW p \in Program, WellFormed(p), NEW i \in DOMAIN p.nodes,
         NEW l \in 1 .. (i - 1), NEW r \in 1 .. (i - 1), NEW k \in 1 .. 3
  PROVE  CandidateWeight(p, i, l, r, CandidateOps[k])
           = IF p.nodes[i].op # "INPUT" /\ [lhs |-> l, rhs |-> r, k |-> k] = Own(p, i)
             THEN 1 ELSE 0
<1> DEFINE n == p.nodes[i]
           op == CandidateOps[k]
<1>1. i \in 1 .. Len(p.nodes) /\ l \in DOMAIN p.nodes /\ r \in DOMAIN p.nodes
  <2>1. p.nodes \in Seq(Node)
    BY DEF Program
  <2> QED
    BY <2>1
<1>2. op \in {"ADD", "MUL", "GEMM"} /\ OpPosition(op) = k
  BY OpPositions
<1>3. CASE n.op = "INPUT"
  <2>1. Opcode(p, i, op) = 0 /\ LhsSelector(p, i, l) = 0 /\ RhsSelector(p, i, r) = 0
        /\ Adjacency(p, l, i) = 0 /\ Adjacency(p, r, i) = 0
    BY <1>2, <1>3 DEF Opcode, LhsSelector, RhsSelector, Adjacency, Bit
  <2> QED
    BY <1>3, <2>1 DEF CandidateWeight, PairWeight
<1>4. CASE n.op # "INPUT"
  <2>1. /\ OperandIs(p, i, 1, l) <=> l = NodeIndex(p, n.inputs[1])
        /\ OperandIs(p, i, 2, r) <=> r = NodeIndex(p, n.inputs[2])
    <3>1. ASSUME NEW q \in {1, 2}, NEW j \in DOMAIN p.nodes
          PROVE  OperandIs(p, i, q, j) <=> j = NodeIndex(p, n.inputs[q])
      <4>1. NodeIndex(p, n.inputs[q]) \in 1 .. (i - 1)
            /\ p.nodes[NodeIndex(p, n.inputs[q])].id = n.inputs[q]
        BY <1>4, OperandIsEarlier
      <4>2. NodeIndex(p, n.inputs[q]) \in DOMAIN p.nodes
        <5>1. p.nodes \in Seq(Node)
          BY DEF Program
        <5> QED
          BY <1>1, <4>1, <5>1
      <4> QED
        BY <4>1, <4>2 DEF OperandIs, WellFormed, UniqueIds
    <3> QED
      BY <1>1, <3>1
  <2>2. n.op = op <=> OpPosition(n.op) = k
    <3>1. n.op \in {"ADD", "MUL", "GEMM"}
      <4>1. p.nodes[i] \in Node
        BY DEF Program
      <4> QED
        BY <1>4, <4>1 DEF Node, Op, Elementwise
    <3> QED
      BY <1>2, <3>1, OpPositions
  <2>3. /\ LhsSelector(p, i, l) = Bit(OperandIs(p, i, 1, l))
        /\ RhsSelector(p, i, r) = Bit(OperandIs(p, i, 2, r))
        /\ OperandIs(p, i, 1, l) => Adjacency(p, l, i) = 1
        /\ OperandIs(p, i, 2, r) => Adjacency(p, r, i) = 1
        /\ Adjacency(p, l, i) \in {0, 1} /\ Adjacency(p, r, i) \in {0, 1}
        /\ Opcode(p, i, op) = Bit(n.op = op)
    BY <1>4 DEF LhsSelector, RhsSelector, Adjacency, Opcode, Bit
  <2>4. CandidateWeight(p, i, l, r, op)
          = IF OperandIs(p, i, 1, l) /\ OperandIs(p, i, 2, r) /\ n.op = op THEN 1 ELSE 0
    BY <2>3 DEF CandidateWeight, PairWeight, Bit
  <2>5. [lhs |-> l, rhs |-> r, k |-> k] = Own(p, i)
          <=> l = NodeIndex(p, n.inputs[1]) /\ r = NodeIndex(p, n.inputs[2]) /\ OpPosition(n.op) = k
    BY DEF Own
  <2> QED
    BY <1>4, <2>1, <2>2, <2>4, <2>5
<1> QED
  BY <1>3, <1>4

-----------------------------------------------------------------------------
(* The inductive invariant.  What the machine of GraphExecution sees: *)

suppliedView == [id \in InputNodes(program) |-> inputs[id].payload]

computedView == [i \in 1 .. Len(values) |-> values[i].payload]

(* The order in which the candidates of a node are tried. *)
Before(x, y) ==
  \/ x.lhs < y.lhs
  \/ x.lhs = y.lhs /\ x.rhs < y.rhs
  \/ x.lhs = y.lhs /\ x.rhs = y.rhs /\ x.k < y.k

(* The one term that counts has been added. *)
NodeFed ==
  IF program.nodes[current].op = "INPUT" THEN InputColumn(program, current) < col
  ELSE Before(Own(program, current), cand)

OutputNode(o) == NodeIndex(program, program.output_ids[o])

OutputFed == OutputNode(outputRow) < col

NodeSum ==
  IF NodeFed
  THEN /\ acc.payload = NodeValue(program, suppliedView, computedView, current)
       /\ required[current].graph <= acc.depth
       /\ terms > 0
  ELSE acc.payload = Zero(currentShape)

OutputSum ==
  IF OutputFed
  THEN /\ acc.payload = values[OutputNode(outputRow)].payload
       /\ required[OutputNode(outputRow)].graph < acc.depth
       /\ terms > 0
  ELSE acc.payload = Zero(OutputShape(outputRow))

SumInv ==
  /\ phase = "validate" => acc = ZeroTensor(program.nodes[1].shape) /\ col = 1
  /\ phase = "candidates" => col > Len(program.input_ids)
  /\ phase \in {"inputs", "candidates"} => NodeSum
  /\ phase = "outputs" => OutputSum
  /\ \A o \in DOMAIN outputs :
       /\ outputs[o].payload = values[OutputNode(o)].payload
       /\ required[OutputNode(o)].graph < outputs[o].depth

(* What the estimates are, and that they were all made before the verdict. *)
EstimateInv ==
  /\ \A i \in DOMAIN required : required[i].plain < required[i].graph
  /\ \A i \in DOMAIN required : required[i] = EstimatedDepth(program, required, i)
  /\ \A i \in DOMAIN values : required[i].graph <= values[i].depth
  /\ phase # "validate" => verdict # "pending"
  /\ verdict # "pending" => Len(required) = nodeCount
  /\ verdict = "refused" => OverBudget

SumsInv == SumInv /\ EstimateInv

-----------------------------------------------------------------------------
(* Facts about the terms. *)

(* A product with the weight 0 leaves the sum as it is; a product with the *)
(* weight 1 replaces a sum that is zero.                                   *)
LEMMA SumWithTerm ==
  ASSUME NEW s \in Shape, NEW x \in TensorOf(s), NEW t \in TensorOf(s), NEW wd \in Nat
  PROVE  /\ Sum(x, Scale(0, wd, t)).payload = x.payload
         /\ x.payload = Zero(s) => Sum(x, Scale(1, wd, t)).payload = t.payload
         /\ \A w : /\ x.depth <= Sum(x, Scale(w, wd, t)).depth
                   /\ wd < Sum(x, Scale(w, wd, t)).depth
                   /\ t.depth < Sum(x, Scale(w, wd, t)).depth
<1>1. /\ x.shape = s /\ t.shape = s /\ x.payload \in Payload(s) /\ t.payload \in Payload(s)
      /\ x.depth \in Nat /\ t.depth \in Nat
  BY DEF TensorOf
<1>2. /\ Plus(x.payload, Zero(s)) = x.payload
      /\ Plus(Zero(s), t.payload) = t.payload
  BY <1>1, ZeroIsNeutral
<1>3. Sum(x, Scale(0, wd, t)).payload = x.payload
  BY <1>1, <1>2 DEF Sum, Scale, Scaled
<1>4. x.payload = Zero(s) => Sum(x, Scale(1, wd, t)).payload = t.payload
  BY <1>1, <1>2 DEF Sum, Scale, Scaled
<1>5. ASSUME NEW w
      PROVE  Sum(x, Scale(w, wd, t)).depth = Max2(x.depth, Max2(wd, t.depth) + 1)
  BY DEF Sum, Scale, Next1
<1> QED
  BY <1>1, <1>3, <1>4, <1>5 DEF Max2

(* Where the loops over a node are. *)
LEMMA AtNode ==
  ASSUME TypeInv, phase \in {"inputs", "candidates"}
  PROVE  /\ current \in DOMAIN program.nodes /\ current \in Nat \ {0}
         /\ Len(values) = current - 1 /\ DOMAIN values = 1 .. (current - 1)
         /\ accShape = currentShape /\ currentShape \in Shape
         /\ DOMAIN required = 1 .. nodeCount /\ outcome = "running"
BY ProgramInHand DEF TypeInv, TypeOK, Control, current, accShape, currentShape

LEMMA AtOutput ==
  ASSUME TypeInv, phase = "outputs"
  PROVE  /\ outputRow \in DOMAIN program.output_ids
         /\ OutputNode(outputRow) \in DOMAIN program.nodes
         /\ DOMAIN values = 1 .. nodeCount /\ Len(values) = nodeCount
         /\ accShape = OutputShape(outputRow) /\ accShape \in Shape
         /\ DOMAIN required = 1 .. nodeCount /\ outcome = "running"
<1>1. outputRow \in DOMAIN program.output_ids
  BY ProgramInHand DEF TypeInv, TypeOK, Control, outputRow
<1>2. OutputNode(outputRow) \in DOMAIN program.nodes
  BY <1>1, ProgramInHand, InterfaceNodes DEF OutputNode
<1> QED
  BY <1>1, <1>2, ProgramInHand DEF TypeInv, TypeOK, Control, accShape

(* Nothing has been added when a node, or an output, begins. *)
LEMMA Unfed ==
  /\ TypeInv /\ phase = "inputs" /\ col = 1 => ~NodeFed
  /\ TypeInv /\ phase = "outputs" /\ col = 1 => ~OutputFed
<1>1. ASSUME TypeInv, phase = "inputs", col = 1
      PROVE  ~NodeFed
  <2>1. CASE program.nodes[current].op = "INPUT"
    <3>1. InputColumn(program, current) \in DOMAIN program.input_ids
      BY <1>1, <2>1, AtNode, ProgramInHand, InputSelectorRow
    <3> QED
      BY <1>1, <2>1, <3>1, ProgramInHand DEF NodeFed
  <2>2. CASE program.nodes[current].op # "INPUT"
    <3>1. Own(program, current).lhs >= 1 /\ Own(program, current).rhs >= 1
          /\ Own(program, current).lhs \in Nat /\ Own(program, current).rhs \in Nat
      BY <1>1, <2>2, AtNode, ProgramInHand, OperandIsEarlier DEF Own
    <3>2. Own(program, current).k \in 1 .. 3
      <4>1. program.nodes[current] \in Node
        BY <1>1, AtNode, ProgramInHand
      <4> QED
        BY <2>2, <4>1, OpPositions DEF Own, Node, Op, Elementwise
    <3>3. cand = [lhs |-> 1, rhs |-> 1, k |-> 1]
      BY <1>1 DEF TypeInv, Control, FirstCandidate
    <3> QED
      BY <2>2, <3>1, <3>2, <3>3 DEF NodeFed, Before
  <2> QED
    BY <2>1, <2>2
<1>2. ASSUME TypeInv, phase = "outputs", col = 1
      PROVE  ~OutputFed
  BY <1>2, AtOutput, ProgramInHand DEF OutputFed
<1> QED
  BY <1>1, <1>2

LEMMA UnfedNext ==
  /\ (TypeInv /\ phase = "inputs" /\ col = 1 => ~NodeFed)'
  /\ (TypeInv /\ phase = "outputs" /\ col = 1 => ~OutputFed)'
BY Unfed, PTL

(* When all inputs and candidates have been seen, one has counted. *)
LEMMA Fed ==
  /\ TypeInv /\ SumInv /\ phase = "candidates" /\ ~CandidateLeft => NodeFed
  /\ TypeInv /\ phase = "outputs" /\ ~OutputLeft => OutputFed
<1>1. ASSUME TypeInv, SumInv, phase = "candidates", ~CandidateLeft
      PROVE  NodeFed
  <2>1. CASE program.nodes[current].op = "INPUT"
    <3>1. InputColumn(program, current) \in DOMAIN program.input_ids
      BY <1>1, <2>1, AtNode, ProgramInHand, InputSelectorRow
    <3> QED
      BY <1>1, <2>1, <3>1, ProgramInHand DEF NodeFed, SumInv, TypeInv, TypeOK
  <2>2. CASE program.nodes[current].op # "INPUT"
    <3>1. Own(program, current).lhs \in 1 .. (current - 1)
      BY <1>1, <2>2, AtNode, ProgramInHand, OperandIsEarlier DEF Own
    <3>2. ~(cand.lhs <= current - 1) /\ cand.lhs \in Nat
      BY <1>1, AtNode DEF CandidateLeft, TypeInv, TypeOK
    <3> QED
      BY <1>1, <2>2, <3>1, <3>2, AtNode DEF NodeFed, Before
  <2> QED
    BY <2>1, <2>2
<1>2. ASSUME TypeInv, phase = "outputs", ~OutputLeft
      PROVE  OutputFed
  BY <1>2, AtOutput, ProgramInHand DEF OutputFed, OutputLeft, TypeInv, TypeOK
<1> QED
  BY <1>1, <1>2

(* The candidates are tried in order, and none is left out. *)
LEMMA BeforeNext ==
  ASSUME TypeInv, CandidateLeft,
         NEW x \in [lhs : Nat, rhs : 1 .. Len(values), k : 1 .. 3]
  PROVE  Before(x, NextCandidate) <=> Before(x, cand) \/ x = cand
<1>1. /\ cand \in [lhs : Nat \ {0}, rhs : Nat \ {0}, k : 1 .. 3]
      /\ Len(values) \in Nat /\ cand.rhs <= Len(values)
  BY DEF TypeInv, TypeOK, Control, CandidateLeft
<1>2. Len(CandidateOps) = 3
  BY DEF CandidateOps
<1>3. x = cand <=> x.lhs = cand.lhs /\ x.rhs = cand.rhs /\ x.k = cand.k
  BY <1>1
<1>4. CASE cand.k < 3
  <2>1. NextCandidate = [lhs |-> cand.lhs, rhs |-> cand.rhs, k |-> cand.k + 1]
    BY <1>1, <1>2, <1>4 DEF NextCandidate
  <2> QED
    BY <1>1, <1>3, <2>1 DEF Before
<1>5. CASE ~(cand.k < 3) /\ cand.rhs < Len(values)
  <2>1. NextCandidate = [lhs |-> cand.lhs, rhs |-> cand.rhs + 1, k |-> 1]
    BY <1>1, <1>2, <1>5 DEF NextCandidate
  <2> QED
    BY <1>1, <1>3, <1>5, <2>1 DEF Before
<1>6. CASE ~(cand.k < 3) /\ ~(cand.rhs < Len(values))
  <2>1. NextCandidate = [lhs |-> cand.lhs + 1, rhs |-> 1, k |-> 1]
    BY <1>1, <1>2, <1>6 DEF NextCandidate
  <2> QED
    BY <1>1, <1>3, <1>6, <2>1 DEF Before
<1> QED
  BY <1>4, <1>5, <1>6

(* The operands of the node being computed, and what computing it costs. *)
LEMMA OwnCandidate ==
  ASSUME TypeInv, EstimateInv, phase \in {"inputs", "candidates"},
         program.nodes[current].op # "INPUT"
  PROVE  LET own == Own(program, current)
             op  == program.nodes[current].op
         IN  /\ own \in [lhs : 1 .. Len(values), rhs : 1 .. Len(values), k : 1 .. 3]
             /\ CandidateOps[own.k] = op
             /\ Applicable(op, values[own.lhs], values[own.rhs], currentShape)
             /\ Evaluate(op, values[own.lhs], values[own.rhs]).payload
                  = NodeValue(program, suppliedView, computedView, current)
             /\ required[current].graph
                  <= Max2(3, Evaluate(op, values[own.lhs], values[own.rhs]).depth) + 1
<1> DEFINE own == Own(program, current)
           n == program.nodes[current]
           x == values[own.lhs]
           y == values[own.rhs]
<1>1. current \in DOMAIN program.nodes /\ Len(values) = current - 1
      /\ DOMAIN values = 1 .. (current - 1) /\ current \in Nat \ {0}
  BY AtNode
<1>2. n.op \in {"ADD", "MUL", "GEMM"}
  <2>1. n \in Node
    BY <1>1, ProgramInHand
  <2> QED
    BY <2>1 DEF Node, Op, Elementwise
<1>3. own.lhs \in 1 .. (current - 1) /\ own.rhs \in 1 .. (current - 1) /\ own.k \in 1 .. 3
      /\ own.lhs = NodeIndex(program, n.inputs[1]) /\ own.rhs = NodeIndex(program, n.inputs[2])
      /\ own = [lhs |-> own.lhs, rhs |-> own.rhs, k |-> own.k]
  BY <1>1, <1>2, OpPositions, ProgramInHand, OperandIsEarlier DEF Own
<1>4. CandidateOps[own.k] = n.op
  BY <1>2, OpPositions DEF Own
<1>5. /\ x \in TensorOf(program.nodes[own.lhs].shape)
      /\ y \in TensorOf(program.nodes[own.rhs].shape)
  BY <1>1, <1>3 DEF TypeInv, TypeOK
<1>6. /\ x.shape = program.nodes[own.lhs].shape /\ x.depth \in Nat
      /\ y.shape = program.nodes[own.rhs].shape /\ y.depth \in Nat
  BY <1>5 DEF TensorOf
<1>7. ShapeRule(n.op, x.shape, y.shape, currentShape)
  BY <1>1, <1>3, <1>6, ProgramInHand, OperandShapes DEF currentShape
<1>8. Applicable(n.op, x, y, currentShape)
  BY <1>2, <1>7 DEF ShapeRule, Elementwise, Applicable
<1>9. Evaluate(n.op, x, y).payload = NodeValue(program, suppliedView, computedView, current)
  <2>1. computedView[own.lhs] = x.payload /\ computedView[own.rhs] = y.payload
    BY <1>1, <1>3 DEF computedView
  <2> QED
    BY <1>3, <1>6, <2>1 DEF Evaluate, NodeValue
<1>10. required[current].graph <= Max2(3, Evaluate(n.op, x, y).depth) + 1
  <2> DEFINE l == required[own.lhs]
             r == required[own.rhs]
             m == IF n.op = "ADD" THEN 0 ELSE 1
  <2>1. DOMAIN required = 1 .. nodeCount /\ required \in Seq(Estimate)
    BY AtNode DEF TypeInv, TypeOK
  <2>2. /\ own.lhs \in DOMAIN required /\ own.rhs \in DOMAIN required
        /\ current \in DOMAIN required
    BY <1>1, <1>3, <2>1, ProgramInHand
  <2>3. l.graph \in Nat /\ r.graph \in Nat
    <3>1. \A j \in DOMAIN required : required[j] \in Estimate
      <4>1. required \in Seq(Estimate)
        BY DEF TypeInv, TypeOK
      <4> QED
        BY <4>1
    <3>2. l \in Estimate /\ r \in Estimate
      BY <2>2, <3>1
    <3> QED
      BY <3>2 DEF Estimate
  <2>4. l.graph <= x.depth /\ r.graph <= y.depth
    BY <1>1, <1>3 DEF EstimateInv
  <2>5. required[current].graph = Max2(3, Max2(l.graph, r.graph) + m) + 1
    <3>1. required[current] = EstimatedDepth(program, required, current)
      BY <2>2 DEF EstimateInv
    <3> QED
      BY <1>3, <3>1 DEF EstimatedDepth
  <2>6. Evaluate(n.op, x, y).depth = Max2(x.depth, y.depth) + m
    BY <1>6 DEF Evaluate, Next1, Max2
  <2> HIDE DEF l, r, x, y, n
  <2> QED
    BY <1>6, <2>3, <2>4, <2>5, <2>6 DEF Max2
<1> HIDE DEF own, x, y
<1>11. own \in [lhs : 1 .. Len(values), rhs : 1 .. Len(values), k : 1 .. 3]
  BY <1>1, <1>3
<1> QED
  BY <1>4, <1>8, <1>9, <1>10, <1>11 DEF own, x, y

-----------------------------------------------------------------------------
(* The sums and the estimates are right at the start and stay right. *)

LEMMA SumsInit == Init => SumsInv
<1> SUFFICES ASSUME Init PROVE SumsInv
  OBVIOUS
<1>1. DOMAIN outputs = {} /\ DOMAIN required = {} /\ DOMAIN values = {}
  BY DEF Init
<1> QED
  BY <1>1 DEF Init, SumsInv, SumInv, EstimateInv

(* A new estimate leaves the earlier ones what they are. *)
LEMMA EstimatesAppend ==
  ASSUME TypeInv, EstimateInv, Len(required) < nodeCount,
         NEW e, e = EstimatedDepth(program, required, Len(required) + 1)
  PROVE  LET all == Append(required, e)
         IN  /\ Len(all) = Len(required) + 1
             /\ \A i \in DOMAIN all : all[i].plain < all[i].graph
             /\ \A i \in DOMAIN all : all[i] = EstimatedDepth(program, all, i)
             /\ \A i \in DOMAIN required : all[i] = required[i]
<1> DEFINE all == Append(required, e)
           new == Len(required) + 1
<1>1. required \in Seq(Estimate) /\ new \in 1 .. nodeCount
  BY ProgramInHand DEF TypeInv, TypeOK
<1>2. e \in Estimate
  BY EstimateIsNat
<1>3. /\ Len(all) = new /\ DOMAIN all = 1 .. new /\ all[new] = e
      /\ \A i \in DOMAIN required : all[i] = required[i]
      /\ DOMAIN required = 1 .. (new - 1) /\ new \in Nat
  BY <1>1, <1>2
<1> HIDE DEF all
<1>4. ASSUME NEW i \in DOMAIN all
      PROVE  all[i] = EstimatedDepth(program, required, i)
             /\ EstimatedDepth(program, all, i) = EstimatedDepth(program, required, i)
  <2> DEFINE n == program.nodes[i]
  <2>1. i \in 1 .. new /\ i \in DOMAIN program.nodes
    BY <1>1, <1>3, ProgramInHand
  <2>2. all[i] = EstimatedDepth(program, required, i)
    BY <1>3, <2>1 DEF EstimateInv
  <2>3. ASSUME n.op # "INPUT", NEW q \in {1, 2}
        PROVE  all[NodeIndex(program, n.inputs[q])] = required[NodeIndex(program, n.inputs[q])]
    <3>1. NodeIndex(program, n.inputs[q]) \in 1 .. (i - 1)
      BY <2>1, <2>3, ProgramInHand, OperandIsEarlier
    <3> QED
      BY <1>3, <2>1, <3>1
  <2>4. EstimatedDepth(program, all, i) = EstimatedDepth(program, required, i)
    BY <2>3 DEF EstimatedDepth
  <2> QED
    BY <2>2, <2>4
<1>5. e.plain < e.graph
  <2> DEFINE n == program.nodes[new]
             l == required[NodeIndex(program, n.inputs[1])]
             r == required[NodeIndex(program, n.inputs[2])]
             m == IF n.op = "ADD" THEN 0 ELSE 1
  <2>1. CASE n.op = "INPUT"
    BY <2>1 DEF EstimatedDepth
  <2>2. CASE n.op # "INPUT"
    <3>1. /\ e.plain = Max2(l.plain, r.plain) + m
          /\ e.graph = Max2(3, Max2(l.graph, r.graph) + m) + 1
      BY <2>2 DEF EstimatedDepth
    <3>2. new \in DOMAIN program.nodes
      BY <1>1, ProgramInHand
    <3>3. NodeIndex(program, n.inputs[1]) \in 1 .. (new - 1)
          /\ NodeIndex(program, n.inputs[2]) \in 1 .. (new - 1)
      BY <2>2, <3>2, ProgramInHand, OperandIsEarlier
    <3>4. l.plain < l.graph /\ r.plain < r.graph
      BY <1>3, <3>3 DEF EstimateInv
    <3>5. l \in Estimate /\ r \in Estimate
      <4>1. \A j \in 1 .. (new - 1) : required[j] \in Estimate
        BY <1>1
      <4> QED
        BY <3>3, <4>1
    <3>6. /\ l.plain \in Nat /\ l.graph \in Nat
          /\ r.plain \in Nat /\ r.graph \in Nat
      BY <3>5 DEF Estimate
    <3> HIDE DEF l, r, n
    <3> QED
      BY <3>1, <3>4, <3>6 DEF Max2
  <2> QED
    BY <2>1, <2>2
<1>6. \A i \in DOMAIN all : all[i].plain < all[i].graph
  BY <1>3, <1>5 DEF EstimateInv
<1> QED
  BY <1>3, <1>4, <1>6 DEF all

LEMMA EstimateStep ==
  TypeInv /\ TypeInv' /\ SumsInv /\ [Next]_vars => EstimateInv'
<1> SUFFICES ASSUME TypeInv, TypeInv', SumsInv, [Next]_vars PROVE EstimateInv'
  OBVIOUS
<1> USE DEF SumsInv
<1>1. CASE EstimateNode
  <2>1. Len(required) < nodeCount /\ verdict = "pending" /\ verdict' = verdict
        /\ values = <<>> /\ values' = values /\ phase' = "validate" /\ program' = program
        /\ nodeCount' = nodeCount
    BY <1>1 DEF EstimateNode, arguments, EstimateInv, TypeInv, Control, nodeCount
  <2>2. DOMAIN values' = {}
    BY <2>1
  <2>3. /\ \A i \in DOMAIN required' : required'[i].plain < required'[i].graph
        /\ \A i \in DOMAIN required' : required'[i] = EstimatedDepth(program, required', i)
    BY <1>1, <2>1, EstimatesAppend DEF EstimateNode
  <2> QED
    BY <2>1, <2>2, <2>3 DEF EstimateInv
<1>2. CASE AcceptProgram \/ RefuseProgram
  BY <1>2 DEF AcceptProgram, RefuseProgram, End, arguments, EstimateInv, OverBudget, nodeCount
<1>3. CASE AddInput \/ SkipInput \/ EndInputs \/ AddCandidate \/ SkipCandidate
           \/ AddOutput \/ SkipOutput \/ StoreOutput
  BY <1>3 DEF AddInput, SkipInput, EndInputs, AddCandidate, SkipCandidate, AddOutput, SkipOutput,
              StoreOutput, InputLeft, CandidateLeft, OutputLeft, End, arguments, EstimateInv,
              OverBudget, nodeCount
<1>4. CASE StoreNode
  <2>1. phase = "candidates" /\ verdict # "pending" /\ program' = program /\ budget' = budget
        /\ required' = required /\ verdict' = verdict /\ values' = Append(values, acc)
    BY <1>4 DEF StoreNode, arguments, EstimateInv
  <2>2. required[current].graph <= acc.depth
    BY <1>4, <2>1, Fed DEF StoreNode, SumInv, NodeSum
  <2>3. \A i \in DOMAIN values' : required'[i].graph <= values'[i].depth
    <3>1. DOMAIN values = 1 .. Len(values) /\ Len(values) \in Nat /\ current = Len(values) + 1
      BY DEF TypeInv, TypeOK, current
    <3>2. /\ DOMAIN values' = 1 .. current /\ values'[current] = acc
          /\ \A i \in DOMAIN values : values'[i] = values[i]
      BY <2>1, <3>1
    <3> QED
      BY <2>1, <2>2, <3>1, <3>2 DEF EstimateInv
  <2> QED
    BY <2>1, <2>3 DEF EstimateInv, OverBudget, nodeCount
<1>5. CASE ExceedBudget \/ OpenFHEFails
  <2>1. verdict # "pending"
    <3>1. InputLeft \/ CandidateLeft \/ OutputLeft
      <4>1. budget \in Nat
        BY BudgetAssumption DEF TypeInv, TypeOK
      <4> QED
        BY <1>5, <4>1 DEF ExceedBudget, OpenFHEFails, LibraryCalled, neededDepth, Affordable
    <3> QED
      BY <3>1 DEF InputLeft, CandidateLeft, OutputLeft, EstimateInv
  <2> QED
    BY <1>5, <2>1 DEF ExceedBudget, OpenFHEFails, End, arguments, EstimateInv, OverBudget,
                      nodeCount
<1>6. CASE UNCHANGED vars
  BY <1>6 DEF vars, EstimateInv, OverBudget, nodeCount
<1> QED
  BY <1>1, <1>2, <1>3, <1>4, <1>5, <1>6 DEF Next, Step

(* What the sum of a node, or of an output, is held against. *)
LEMMA SumSame ==
  ASSUME UNCHANGED <<program, inputs, required, values, outputs>>
  PROVE  /\ suppliedView' = suppliedView /\ computedView' = computedView
         /\ current' = current /\ currentShape' = currentShape /\ nodeCount' = nodeCount
         /\ outputRow' = outputRow
         /\ \A o : OutputNode(o)' = OutputNode(o) /\ OutputShape(o)' = OutputShape(o)
BY DEF suppliedView, computedView, current, currentShape, nodeCount, outputRow, OutputNode,
       OutputShape

LEMMA AddInputSum ==
  ASSUME TypeInv, TypeInv', SumsInv, AddInput
  PROVE  NodeSum'
<1> DEFINE n == program.nodes[current]
           c == InputColumn(program, current)
           value == NodeValue(program, suppliedView, computedView, current)
           w == InputSelector(program, current, col)
<1>1. /\ InputLeft /\ inputTensor.shape = currentShape
      /\ acc' = Sum(acc, InputTerm) /\ terms' = terms + 1 /\ col' = col + 1
      /\ UNCHANGED <<program, inputs, required, cand, values, outputs>>
  BY DEF AddInput, AddTerm, arguments
<1>2. phase = "inputs" /\ col \in DOMAIN program.input_ids /\ col \in Nat
  BY <1>1, ProgramInHand DEF InputLeft, TypeInv, TypeOK
<1>3. current \in DOMAIN program.nodes /\ currentShape \in Shape /\ accShape = currentShape
  BY <1>2, AtNode
<1>4. acc \in TensorOf(currentShape) /\ acc' \in TensorOf(currentShape)
      /\ InputTerm \in TensorOf(currentShape)
  <2>1. acc' \in TensorOf(accShape)
    BY <1>1, AccIsTensor, InputTermIsTensor, SumIsTensor
  <2> QED
    BY <1>1, <1>3, <2>1, AccIsTensor, InputTermIsTensor
<1>5. /\ program.input_ids[col] \in InputNodes(program)
      /\ inputTensor \in TensorOf(currentShape)
  <2>1. program.input_ids[col] \in InputNodes(program)
    BY <1>2, ProgramInHand, InterfaceNodes
  <2>2. inputTensor \in TensorOf(ShapeOf(program, program.input_ids[col]))
    BY <2>1 DEF TypeInv, TypeOK, inputTensor
  <2> QED
    BY <1>1, <2>1, <2>2 DEF TensorOf
<1>6. /\ acc'.depth \in Nat /\ acc.depth \in Nat
      /\ acc.depth <= acc'.depth /\ 0 < acc'.depth
      /\ w = 0 => acc'.payload = acc.payload
      /\ w = 1 /\ acc.payload = Zero(currentShape) => acc'.payload = inputTensor.payload
  <2>1. acc'.depth \in Nat /\ acc.depth \in Nat
    BY <1>4 DEF TensorOf
  <2>2. acc' = Sum(acc, Scale(w, 0, inputTensor))
    BY <1>1 DEF InputTerm, ProgramDepth
  <2> HIDE DEF w
  <2> QED
    BY <1>3, <1>4, <1>5, <2>1, <2>2, SumWithTerm
<1>7. n.op # "INPUT" => w = 0
  BY <1>2, <1>3, ProgramInHand, InputSelectorRow
<1>8. n.op = "INPUT" => /\ c \in Nat /\ program.input_ids[c] = n.id
                        /\ w = IF col = c THEN 1 ELSE 0
  BY <1>2, <1>3, ProgramInHand, InputSelectorRow
<1>9. /\ n.op = "INPUT" => (NodeFed' <=> c < col + 1) /\ (NodeFed <=> c < col)
      /\ n.op # "INPUT" => (NodeFed' <=> NodeFed)
  BY <1>1, SumSame DEF NodeFed, Before
<1>10. NodeSum' <=> IF NodeFed'
                  THEN /\ acc'.payload = value
                       /\ required[current].graph <= acc'.depth
                       /\ terms' > 0
                  ELSE acc'.payload = Zero(currentShape)
  BY <1>1, SumSame DEF NodeSum
<1>11. NodeSum /\ terms \in Nat /\ required[current].graph \in Nat
  <2>1. required[current].graph \in Nat
    <3>1. \A j \in DOMAIN required : required[j] \in Estimate
      <4>1. required \in Seq(Estimate)
        BY DEF TypeInv, TypeOK
      <4> QED
        BY <4>1
    <3>2. current \in DOMAIN required
      BY <1>2, <1>3, AtNode, ProgramInHand
    <3>3. required[current] \in Estimate
      BY <3>1, <3>2
    <3> QED
      BY <3>3 DEF Estimate
  <2> QED
    BY <1>2, <2>1 DEF SumsInv, SumInv, TypeInv, TypeOK
<1>12. CASE n.op = "INPUT" /\ col = c
  <2>1. ~NodeFed /\ NodeFed'
    BY <1>8, <1>9, <1>12
  <2>2. acc'.payload = inputTensor.payload
    BY <1>6, <1>8, <1>11, <1>12, <2>1 DEF NodeSum
  <2>3. inputTensor.payload = value
    BY <1>5, <1>8, <1>12 DEF inputTensor, NodeValue, suppliedView
  <2>4. required[current].graph = 1
    <3>1. required[current] = EstimatedDepth(program, required, current)
      BY <1>2, <1>3, AtNode, ProgramInHand DEF SumsInv, EstimateInv
    <3> QED
      BY <1>12, <3>1 DEF EstimatedDepth
  <2> HIDE DEF value, n, c
  <2> QED
    BY <1>1, <1>6, <1>10, <1>11, <2>1, <2>2, <2>3, <2>4
<1>13. CASE ~(n.op = "INPUT" /\ col = c)
  <2>1. w = 0
    BY <1>7, <1>8, <1>13
  <2>2. NodeFed' <=> NodeFed
    BY <1>2, <1>8, <1>9, <1>13
  <2>3. NodeSum <=> IF NodeFed
                  THEN /\ acc.payload = value
                       /\ required[current].graph <= acc.depth
                       /\ terms > 0
                  ELSE acc.payload = Zero(currentShape)
    BY DEF NodeSum
  <2> HIDE DEF value, n, c, w
  <2> QED
    BY <1>1, <1>6, <1>10, <1>11, <2>1, <2>2, <2>3
<1> QED
  BY <1>12, <1>13

LEMMA AddCandidateSum ==
  ASSUME TypeInv, TypeInv', SumsInv, AddCandidate
  PROVE  NodeSum'
<1> DEFINE n == program.nodes[current]
           own == Own(program, current)
           value == NodeValue(program, suppliedView, computedView, current)
           w == CandidateWeight(program, current, cand.lhs, cand.rhs, candOp)
           e == Evaluate(candOp, values[cand.lhs], values[cand.rhs])
<1>1. /\ CandidateLeft /\ candApplies
      /\ acc' = Sum(acc, CandidateTerm) /\ terms' = terms + 1 /\ cand' = NextCandidate
      /\ UNCHANGED <<program, inputs, required, col, values, outputs>>
  BY DEF AddCandidate, AddTerm, arguments
<1>2. /\ phase = "candidates" /\ Len(values) \in Nat
      /\ cand.lhs \in 1 .. Len(values) /\ cand.rhs \in 1 .. Len(values) /\ cand.k \in 1 .. 3
      /\ cand = [lhs |-> cand.lhs, rhs |-> cand.rhs, k |-> cand.k]
  <2>1. /\ cand \in [lhs : Nat \ {0}, rhs : Nat \ {0}, k : 1 .. 3] /\ Len(values) \in Nat
    BY DEF TypeInv, TypeOK
  <2>2. phase = "candidates" /\ cand.lhs <= Len(values) /\ cand.rhs <= Len(values)
    BY <1>1 DEF CandidateLeft, TypeInv, Control
  <2> QED
    BY <2>1, <2>2
<1>3. /\ current \in DOMAIN program.nodes /\ currentShape \in Shape /\ accShape = currentShape
      /\ Len(values) = current - 1
  BY <1>2, AtNode
<1>4. acc \in TensorOf(currentShape) /\ acc' \in TensorOf(currentShape)
  BY <1>1, <1>2, <1>3, AccIsTensor, CandidateTermIsTensor, SumIsTensor
<1>5. e \in TensorOf(currentShape) /\ candOp \in {"ADD", "MUL", "GEMM"}
  <2>1. candOp \in {"ADD", "MUL", "GEMM"}
    BY <1>2, OpPositions DEF candOp
  <2>2. /\ values[cand.lhs] \in TensorOf(program.nodes[cand.lhs].shape)
        /\ values[cand.rhs] \in TensorOf(program.nodes[cand.rhs].shape)
        /\ program.nodes[cand.lhs].shape \in Shape /\ program.nodes[cand.rhs].shape \in Shape
    <3>1. DOMAIN values = 1 .. Len(values) /\ Len(values) <= nodeCount
      BY DEF TypeInv, TypeOK
    <3>2. /\ cand.lhs \in DOMAIN values /\ cand.lhs \in DOMAIN program.nodes
          /\ cand.rhs \in DOMAIN values /\ cand.rhs \in DOMAIN program.nodes
      BY <1>2, <3>1, ProgramInHand
    <3> QED
      BY <3>2, ProgramInHand DEF TypeInv, TypeOK
  <2> DEFINE x == values[cand.lhs]
             y == values[cand.rhs]
  <2>3. Applicable(candOp, x, y, currentShape)
    BY <1>1 DEF candApplies
  <2> HIDE DEF x, y
  <2>4. Evaluate(candOp, x, y) \in TensorOf(currentShape)
    BY <1>3, <2>1, <2>2, <2>3, CandidateIsTensor DEF x, y
  <2> QED
    BY <2>1, <2>4 DEF x, y
<1>6. /\ acc'.depth \in Nat /\ acc.depth \in Nat /\ e.depth \in Nat
      /\ acc.depth <= acc'.depth /\ 3 < acc'.depth /\ e.depth < acc'.depth
      /\ w = 0 => acc'.payload = acc.payload
      /\ w = 1 /\ acc.payload = Zero(currentShape) => acc'.payload = e.payload
  <2>1. acc'.depth \in Nat /\ acc.depth \in Nat /\ e.depth \in Nat
    BY <1>4, <1>5 DEF TensorOf
  <2>2. acc' = Sum(acc, Scale(w, 3, e))
    <3>1. CandidateWeightDepth = 3
      BY DEF CandidateWeightDepth, PairWeightDepth, ProgramDepth, Next1, Max2
    <3> QED
      BY <1>1, <3>1 DEF CandidateTerm
  <2> HIDE DEF w, e
  <2>3. /\ Sum(acc, Scale(0, 3, e)).payload = acc.payload
        /\ acc.payload = Zero(currentShape) => Sum(acc, Scale(1, 3, e)).payload = e.payload
        /\ acc.depth <= Sum(acc, Scale(w, 3, e)).depth
        /\ 3 < Sum(acc, Scale(w, 3, e)).depth
        /\ e.depth < Sum(acc, Scale(w, 3, e)).depth
    BY <1>3, <1>4, <1>5, SumWithTerm
  <2> QED
    BY <2>1, <2>2, <2>3
<1>7. w = IF n.op # "INPUT" /\ cand = own THEN 1 ELSE 0
  BY <1>2, <1>3, ProgramInHand, CandidateRow DEF candOp
<1>8. /\ n.op = "INPUT" => (NodeFed' <=> NodeFed)
      /\ n.op # "INPUT" => /\ NodeFed <=> Before(own, cand)
                           /\ NodeFed' <=> Before(own, NextCandidate)
  BY <1>1, SumSame DEF NodeFed, Before
<1>9. NodeSum' <=> IF NodeFed'
                   THEN /\ acc'.payload = value
                        /\ required[current].graph <= acc'.depth
                        /\ terms' > 0
                   ELSE acc'.payload = Zero(currentShape)
  BY <1>1, SumSame DEF NodeSum
<1>10. NodeSum <=> IF NodeFed
                   THEN /\ acc.payload = value
                        /\ required[current].graph <= acc.depth
                        /\ terms > 0
                   ELSE acc.payload = Zero(currentShape)
  BY DEF NodeSum
<1>11. NodeSum /\ terms \in Nat /\ required[current].graph \in Nat
  <2>1. \A j \in DOMAIN required : required[j] \in Estimate
    <3>1. required \in Seq(Estimate)
      BY DEF TypeInv, TypeOK
    <3> QED
      BY <3>1
  <2>2. required[current] \in Estimate
    BY <1>2, <1>3, <2>1, AtNode, ProgramInHand
  <2>3. required[current].graph \in Nat
    BY <2>2 DEF Estimate
  <2> QED
    BY <1>2, <2>3 DEF SumsInv, SumInv, TypeInv, TypeOK
<1>12. CASE n.op # "INPUT"
  <2>1. /\ own \in [lhs : 1 .. Len(values), rhs : 1 .. Len(values), k : 1 .. 3]
        /\ CandidateOps[own.k] = n.op
        /\ cand = own => e.payload = value
        /\ cand = own => required[current].graph <= Max2(3, e.depth) + 1
    BY <1>2, <1>12, OwnCandidate DEF SumsInv, candOp
  <2>2. NodeFed' <=> NodeFed \/ cand = own
    <3>1. own \in [lhs : Nat, rhs : 1 .. Len(values), k : 1 .. 3]
      BY <2>1
    <3> HIDE DEF own
    <3> QED
      BY <1>1, <1>8, <1>12, <3>1, BeforeNext
  <2>3. cand = own => ~NodeFed
    <3>1. ~Before(cand, cand)
      BY <1>2 DEF Before
    <3> QED
      BY <1>8, <1>12, <3>1
  <2> HIDE DEF own, w, e, n, value
  <2>4. CASE cand = own
    <3>1. NodeFed' /\ acc'.payload = value
      BY <1>6, <1>7, <1>10, <1>11, <1>12, <2>1, <2>2, <2>3, <2>4
    <3>2. required[current].graph <= acc'.depth
      BY <1>6, <1>11, <2>1, <2>4 DEF Max2
    <3> QED
      BY <1>1, <1>9, <1>11, <3>1, <3>2
  <2>5. CASE cand # own
    BY <1>1, <1>6, <1>7, <1>9, <1>10, <1>11, <2>2, <2>5
  <2> QED
    BY <2>4, <2>5
<1>13. CASE n.op = "INPUT"
  <2> HIDE DEF own, w, e, n, value
  <2> QED
    BY <1>1, <1>6, <1>7, <1>8, <1>9, <1>10, <1>11, <1>13
<1> QED
  BY <1>12, <1>13

(* A candidate that does not apply is not the one that counts. *)
LEMMA SkipSum ==
  ASSUME TypeInv, TypeInv', SumsInv, SkipInput \/ SkipCandidate
  PROVE  NodeSum'
<1> DEFINE n == program.nodes[current]
           own == Own(program, current)
           value == NodeValue(program, suppliedView, computedView, current)
<1>1. /\ phase \in {"inputs", "candidates"} /\ acc' = acc /\ terms' = terms
      /\ UNCHANGED <<program, inputs, required, values, outputs>>
  BY DEF SkipInput, SkipCandidate, InputLeft, CandidateLeft, arguments
<1>2. /\ current \in DOMAIN program.nodes /\ DOMAIN values = 1 .. Len(values)
      /\ Len(values) \in Nat
  BY <1>1, AtNode DEF TypeInv, TypeOK
<1>3. NodeSum' <=> IF NodeFed'
                   THEN /\ acc'.payload = value
                        /\ required[current].graph <= acc'.depth
                        /\ terms' > 0
                   ELSE acc'.payload = Zero(currentShape)
  BY <1>1, SumSame DEF NodeSum
<1>4. NodeSum <=> IF NodeFed
                   THEN /\ acc.payload = value
                        /\ required[current].graph <= acc.depth
                        /\ terms > 0
                   ELSE acc.payload = Zero(currentShape)
  BY DEF NodeSum
<1>5. NodeSum
  BY <1>1 DEF SumsInv, SumInv
<1>6. NodeFed' <=> NodeFed
  <2>1. CASE SkipInput /\ n.op = "INPUT"
    <3> DEFINE c == InputColumn(program, current)
    <3>1. /\ inputTensor.shape # currentShape /\ col' = col + 1 /\ col \in Nat
      BY <2>1 DEF SkipInput, TypeInv, TypeOK
    <3>2. c \in DOMAIN program.input_ids /\ c \in Nat /\ program.input_ids[c] = n.id
      BY <1>2, <2>1, ProgramInHand, InputSelectorRow
    <3>3. col # c
      <4>1. n.id \in InputNodes(program)
        BY <1>2, <2>1 DEF InputNodes
      <4>2. inputs[n.id].shape = ShapeOf(program, n.id)
        BY <4>1 DEF TypeInv, TypeOK, TensorOf
      <4>3. NodeIndex(program, n.id) = current
        BY <1>2, NodeIndexFound, ProgramInHand DEF WellFormed, UniqueIds
      <4> QED
        BY <3>1, <3>2, <4>2, <4>3 DEF ShapeOf, currentShape, inputTensor
    <3>4. NodeFed' <=> c < col + 1
      BY <1>1, <2>1, <3>1, SumSame DEF NodeFed
    <3>5. NodeFed <=> c < col
      BY <2>1 DEF NodeFed
    <3> HIDE DEF c
    <3> QED
      BY <3>1, <3>2, <3>3, <3>4, <3>5
  <2>2. CASE SkipInput /\ n.op # "INPUT"
    BY <1>1, <2>2, SumSame DEF NodeFed, SkipInput, Before
  <2>3. CASE SkipCandidate /\ n.op = "INPUT"
    BY <1>1, <2>3, SumSame DEF NodeFed, SkipCandidate
  <2>4. CASE SkipCandidate /\ n.op # "INPUT"
    <3>1. CandidateLeft /\ ~candApplies /\ cand' = NextCandidate
      BY <2>4 DEF SkipCandidate
    <3>2. /\ own \in [lhs : 1 .. Len(values), rhs : 1 .. Len(values), k : 1 .. 3]
          /\ CandidateOps[own.k] = n.op
          /\ Applicable(n.op, values[own.lhs], values[own.rhs], currentShape)
      BY <1>1, <2>4, OwnCandidate DEF SumsInv
    <3>3. cand # own
      BY <3>1, <3>2 DEF candApplies, candOp
    <3>4. /\ NodeFed <=> Before(own, cand)
          /\ NodeFed' <=> Before(own, NextCandidate)
      BY <1>1, <2>4, <3>1, SumSame DEF NodeFed, Before
    <3>5. own \in [lhs : Nat, rhs : 1 .. Len(values), k : 1 .. 3]
      BY <3>2
    <3> HIDE DEF own
    <3> QED
      BY <3>1, <3>3, <3>4, <3>5, BeforeNext
  <2> QED
    BY <2>1, <2>2, <2>3, <2>4
<1> HIDE DEF value
<1> QED
  BY <1>1, <1>3, <1>4, <1>5, <1>6

LEMMA OutputStepSum ==
  ASSUME TypeInv, TypeInv', SumsInv, AddOutput \/ SkipOutput
  PROVE  OutputSum'
<1> DEFINE j == OutputNode(outputRow)
           s == OutputShape(outputRow)
           w == OutputSelector(program, outputRow, col)
           t == values[col]
<1>1. /\ OutputLeft /\ phase = "outputs" /\ col' = col + 1
      /\ UNCHANGED <<program, inputs, required, values, outputs>>
  BY DEF AddOutput, SkipOutput, AddTerm, OutputLeft, arguments
<1>2. /\ outputRow \in DOMAIN program.output_ids
      /\ j \in DOMAIN program.nodes /\ s \in Shape /\ accShape = s
      /\ DOMAIN values = 1 .. nodeCount
      /\ col \in DOMAIN values /\ col \in DOMAIN program.nodes /\ col \in Nat /\ j \in Nat
  BY <1>1, AtOutput, ProgramInHand DEF OutputLeft, TypeInv, TypeOK
<1>3. /\ OutputSum' <=> IF OutputFed'
                        THEN /\ acc'.payload = values[j].payload
                             /\ required[j].graph < acc'.depth
                             /\ terms' > 0
                        ELSE acc'.payload = Zero(s)
      /\ OutputSum <=> IF OutputFed
                       THEN /\ acc.payload = values[j].payload
                            /\ required[j].graph < acc.depth
                            /\ terms > 0
                       ELSE acc.payload = Zero(s)
      /\ OutputFed' <=> j < col + 1
      /\ OutputFed <=> j < col
  BY <1>1, SumSame DEF OutputSum, OutputFed
<1>4. OutputSum /\ terms \in Nat /\ required[j].graph \in Nat /\ required[j].graph <= values[j].depth
  <2>1. \A i \in DOMAIN required : required[i] \in Estimate
    <3>1. required \in Seq(Estimate)
      BY DEF TypeInv, TypeOK
    <3> QED
      BY <3>1
  <2>2. j \in DOMAIN required /\ j \in DOMAIN values
    BY <1>1, <1>2, AtOutput, ProgramInHand
  <2> HIDE DEF j
  <2>3. required[j] \in Estimate
    BY <2>1, <2>2
  <2>4. required[j].graph \in Nat
    BY <2>3 DEF Estimate
  <2> QED
    BY <1>1, <2>2, <2>4 DEF SumsInv, SumInv, EstimateInv, TypeInv, TypeOK
<1>5. t \in TensorOf(program.nodes[col].shape)
  BY <1>2 DEF TypeInv, TypeOK
<1>6. CASE AddOutput
  <2>1. /\ t.shape = s /\ acc' = Sum(acc, OutputTerm) /\ terms' = terms + 1
    BY <1>6 DEF AddOutput, AddTerm
  <2>2. t \in TensorOf(s)
    BY <1>5, <2>1 DEF TensorOf
  <2>3. acc \in TensorOf(s) /\ acc' \in TensorOf(s)
    BY <1>1, <1>2, <2>1, AccIsTensor, OutputTermIsTensor, SumIsTensor
  <2>4. w = IF col = j THEN 1 ELSE 0
    BY <1>2, ProgramInHand, OutputSelectorRow DEF OutputNode
  <2>5. acc' = Sum(acc, Scale(w, 0, t))
    BY <2>1 DEF OutputTerm, ProgramDepth
  <2> HIDE DEF w, s, j, t
  <2>6. /\ Sum(acc, Scale(0, 0, t)).payload = acc.payload
        /\ acc.payload = Zero(s) => Sum(acc, Scale(1, 0, t)).payload = t.payload
        /\ acc.depth <= Sum(acc, Scale(w, 0, t)).depth
        /\ t.depth < Sum(acc, Scale(w, 0, t)).depth
    <3>1. s \in Shape /\ 0 \in Nat
      BY <1>2
    <3> QED
      BY <2>2, <2>3, <3>1, SumWithTerm
  <2>7. t.depth \in Nat /\ acc.depth \in Nat /\ acc'.depth \in Nat
    BY <2>2, <2>3 DEF TensorOf
  <2>8. CASE col = j
    <3>1. t = values[j] /\ w = 1
      BY <2>4, <2>8 DEF t
    <3> QED
      BY <1>2, <1>3, <1>4, <2>1, <2>5, <2>6, <2>7, <2>8, <3>1
  <2>9. CASE col # j
    <3>1. w = 0
      BY <2>4, <2>9
    <3> QED
      BY <1>2, <1>3, <1>4, <2>1, <2>5, <2>6, <2>7, <2>9, <3>1
  <2> QED
    BY <2>8, <2>9
<1>7. CASE SkipOutput
  <2>1. acc' = acc /\ terms' = terms /\ t.shape # s
    BY <1>7 DEF SkipOutput
  <2>2. s = program.nodes[j].shape
    BY DEF OutputShape, ShapeOf, OutputNode
  <2>3. col # j
    BY <1>5, <2>1, <2>2 DEF TensorOf
  <2> HIDE DEF s, j, t
  <2> QED
    BY <1>2, <1>3, <1>4, <2>1, <2>3
<1> QED
  BY <1>6, <1>7

LEMMA OutputsFrame ==
  ASSUME SumInv,
         UNCHANGED <<program, required, values, outputs>>
  PROVE  \A o \in DOMAIN outputs' :
           /\ outputs'[o].payload = values'[OutputNode(o)'].payload
           /\ required'[OutputNode(o)'].graph < outputs'[o].depth
BY DEF SumInv, OutputNode

LEMMA SumStep ==
  TypeInv /\ TypeInv' /\ SumsInv /\ [Next]_vars => SumInv'
<1> SUFFICES ASSUME TypeInv, TypeInv', SumsInv, [Next]_vars PROVE SumInv'
  OBVIOUS
<1> USE DEF SumsInv
<1>1. CASE EstimateNode
  BY <1>1, OutputsFrame DEF EstimateNode, arguments, SumInv, TypeInv, Control, OutputNode
<1>2. CASE AcceptProgram \/ RefuseProgram
  <2>1. /\ phase = "validate" /\ phase' \in {"inputs", "ended"}
        /\ UNCHANGED <<program, inputs, required, values, outputs, acc, cand, col, terms>>
    BY <1>2 DEF AcceptProgram, RefuseProgram, End, arguments
  <2>2. ASSUME phase' = "inputs"
        PROVE  NodeSum'
    <3>1. ~NodeFed'
      BY <2>1, <2>2, UnfedNext DEF SumInv, TypeInv, Control
    <3>2. currentShape' = program.nodes[1].shape
      BY <2>1 DEF currentShape, current, TypeInv, Control
    <3>3. acc'.payload = Zero(currentShape)'
      BY <2>1, <3>2 DEF SumInv, ZeroTensor
    <3> QED
      BY <3>1, <3>3 DEF NodeSum
  <2> QED
    BY <2>1, <2>2, OutputsFrame DEF SumInv
<1>3. CASE AddInput
  <2>1. phase' = "inputs" /\ UNCHANGED <<program, required, values, outputs>>
    BY <1>3 DEF AddInput, InputLeft, arguments
  <2> QED
    BY <1>3, <2>1, AddInputSum, OutputsFrame DEF SumInv
<1>4. CASE SkipInput \/ SkipCandidate
  <2>1. phase' = phase /\ phase' \in {"inputs", "candidates"}
        /\ UNCHANGED <<program, required, values, outputs>>
        /\ (phase = "candidates" => col' = col)
    BY <1>4 DEF SkipInput, InputLeft, SkipCandidate, CandidateLeft, arguments
  <2> QED
    BY <1>4, <2>1, SkipSum, OutputsFrame DEF SumInv
<1>5. CASE EndInputs
  <2>1. /\ phase = "inputs" /\ phase' = "candidates" /\ col' > Len(program'.input_ids)
        /\ UNCHANGED <<program, inputs, required, values, outputs, acc, cand, col, terms>>
    BY <1>5 DEF EndInputs, arguments
  <2>2. NodeSum'
    BY <2>1, SumSame DEF SumInv, NodeSum, NodeFed, Before
  <2> QED
    BY <2>1, <2>2, OutputsFrame DEF SumInv
<1>6. CASE AddCandidate
  <2>1. phase = "candidates" /\ phase' = phase /\ UNCHANGED <<program, required, values, outputs, col>>
    BY <1>6 DEF AddCandidate, CandidateLeft, arguments
  <2> QED
    BY <1>6, <2>1, AddCandidateSum, OutputsFrame DEF SumInv
<1>7. CASE StoreNode
  <2>1. /\ phase' \in {"inputs", "outputs"} /\ col' = 1 /\ program' = program
        /\ outputs' = outputs /\ outputs = <<>>
    BY <1>7 DEF StoreNode, arguments, TypeInv, Control
  <2>2. /\ phase' = "inputs" => acc' = ZeroTensor(currentShape)'
        /\ phase' = "outputs" => acc' = ZeroTensor(OutputShape(outputRow))'
    <3>1. current' = current + 1
      BY <1>7 DEF StoreNode, current, TypeInv, TypeOK
    <3>2. outputRow' = 1
      BY <2>1 DEF outputRow
    <3> QED
      BY <1>7, <2>1, <3>1, <3>2 DEF StoreNode, currentShape, OutputShape
  <2>3. phase' = "inputs" => ~NodeFed'
    BY <2>1, UnfedNext
  <2>4. phase' = "outputs" => ~OutputFed'
    BY <2>1, UnfedNext
  <2>5. DOMAIN outputs' = {}
    BY <2>1
  <2> QED
    BY <2>1, <2>2, <2>3, <2>4, <2>5 DEF SumInv, NodeSum, OutputSum, ZeroTensor
<1>8. CASE AddOutput \/ SkipOutput
  <2>1. phase = "outputs" /\ phase' = "outputs" /\ UNCHANGED <<program, required, values, outputs>>
    BY <1>8 DEF AddOutput, SkipOutput, OutputLeft, arguments
  <2> QED
    BY <1>8, <2>1, OutputStepSum, OutputsFrame DEF SumInv
<1>9. CASE StoreOutput
  <2>1. /\ phase = "outputs" /\ ~OutputLeft /\ phase' \in {"outputs", "ended"}
        /\ outputs' = Append(outputs, acc)
        /\ UNCHANGED <<program, required, values>>
    BY <1>9 DEF StoreOutput, End, arguments
  <2>2. /\ acc.payload = values[OutputNode(outputRow)].payload
        /\ required[OutputNode(outputRow)].graph < acc.depth
    BY <2>1, Fed DEF SumInv, OutputSum
  <2>3. /\ DOMAIN outputs' = 1 .. outputRow /\ outputs'[outputRow] = acc
        /\ \A o \in DOMAIN outputs : outputs'[o] = outputs[o]
        /\ DOMAIN outputs = 1 .. (outputRow - 1) /\ outputRow \in Nat
    BY <2>1 DEF outputRow, TypeInv, TypeOK
  <2>4. \A o \in DOMAIN outputs' :
          /\ outputs'[o].payload = values'[OutputNode(o)'].payload
          /\ required'[OutputNode(o)'].graph < outputs'[o].depth
    <3>1. \A o : OutputNode(o)' = OutputNode(o)
      BY <2>1 DEF OutputNode
    <3> QED
      BY <2>1, <2>2, <2>3, <3>1 DEF SumInv
  <2>5. ASSUME phase' = "outputs"
        PROVE  OutputSum'
    <3>1. /\ col' = 1 /\ outputRow' = outputRow + 1
          /\ acc' = ZeroTensor(OutputShape(outputRow + 1))
          /\ \A o : OutputShape(o)' = OutputShape(o)
      BY <1>9, <2>5 DEF StoreOutput, End, arguments, outputRow, OutputShape, TypeInv, TypeOK
    <3>2. ~OutputFed'
      BY <2>5, <3>1, UnfedNext
    <3> QED
      BY <3>1, <3>2 DEF OutputSum, ZeroTensor
  <2> QED
    BY <2>1, <2>4, <2>5 DEF SumInv
<1>10. CASE ExceedBudget \/ OpenFHEFails
  <2>1. phase' = "ended" /\ UNCHANGED <<program, required, values, outputs>>
    BY <1>10 DEF ExceedBudget, OpenFHEFails, End, arguments
  <2> QED
    BY <2>1, OutputsFrame DEF SumInv
<1>11. CASE UNCHANGED vars
  BY <1>11, SumSame DEF vars, SumInv, NodeSum, NodeFed, Before, OutputSum, OutputFed
<1> QED
  BY <1>1, <1>2, <1>3, <1>4, <1>5, <1>6, <1>7, <1>8, <1>9, <1>10, <1>11 DEF Next, Step

LEMMA SumsInvariant == Spec => []SumsInv
<1>1. TypeInv /\ TypeInv' /\ SumsInv /\ [Next]_vars => SumsInv'
  BY EstimateStep, SumStep DEF SumsInv
<1> QED
  BY <1>1, TypeInvariant, SumsInit, PTL DEF Spec

(* Whether the program was accepted or the caller went on regardless, the  *)
(* zero ciphertext never stands in for a value: when the sum of a node or  *)
(* of an output is complete, a term has been added to it.                  *)
THEOREM ValuesAreFed == Spec => []EveryValueIsFed
<1>1. TypeInv /\ SumsInv => EveryValueIsFed
  BY Fed DEF SumsInv, SumInv, NodeSum, OutputSum, EveryValueIsFed
<1> QED
  BY <1>1, TypeInvariant, SumsInvariant, PTL

(* _required_encrypted_graph_depth never estimates more than the executor  *)
(* comes to use: an estimate is a lower bound of the depth_used of the     *)
(* node's value, whatever the depth of the inputs.                         *)
THEOREM EstimatesAreLowerBounds == Spec => []EstimateIsLowerBound
<1>1. SumsInv => EstimateIsLowerBound
  BY DEF SumsInv, EstimateInv, EstimateIsLowerBound
<1> QED
  BY <1>1, SumsInvariant, PTL

(* validate_program refuses no program that would have run to its end: the *)
(* outputs of a program that did are deeper than the estimates, and within *)
(* the budget.                                                             *)
THEOREM RefusalsAreJustified == Spec => []RefusalIsJustified
<1>1. TypeInv /\ DepthInv /\ SumsInv => RefusalIsJustified
  <2> SUFFICES ASSUME TypeInv, DepthInv, SumsInv, outcome = "done"
               PROVE  verdict = "accepted"
    BY DEF RefusalIsJustified
  <2>1. verdict \in {"pending", "accepted", "refused"} /\ verdict # "pending"
    BY DEF TypeInv, TypeOK, Control, SumsInv, EstimateInv
  <2>2. ASSUME OverBudget
        PROVE  FALSE
    <3>1. PICK o \in DOMAIN program.output_ids :
            Max2(required[OutputNode(o)].plain, required[OutputNode(o)].graph + 1) > budget
      BY <2>2 DEF OverBudget, OutputNode
    <3> DEFINE d == required[OutputNode(o)]
    <3>2. o \in DOMAIN outputs
      BY ProgramInHand DEF TypeInv, TypeOK, Control
    <3>3. outputs[o].depth \in Nat /\ outputs[o].depth <= budget /\ budget \in Nat
      BY <3>2, BudgetAssumption DEF TypeInv, TypeOK, TensorOf, DepthInv, Kept
    <3>4. d.graph < outputs[o].depth
      BY <3>2 DEF SumsInv, SumInv
    <3>5. OutputNode(o) \in DOMAIN required
      <4>1. Len(required) = nodeCount /\ required \in Seq(Estimate)
        BY <2>1 DEF SumsInv, EstimateInv, TypeInv, TypeOK
      <4>2. OutputNode(o) \in DOMAIN program.nodes
        BY <3>1, ProgramInHand, InterfaceNodes DEF OutputNode
      <4> QED
        BY <4>1, <4>2, ProgramInHand
    <3>6. d \in Estimate /\ d.plain < d.graph
      <4>1. \A j \in DOMAIN required : required[j] \in Estimate
        <5>1. required \in Seq(Estimate)
          BY DEF TypeInv, TypeOK
        <5> QED
          BY <5>1
      <4> QED
        BY <3>5, <4>1 DEF SumsInv, EstimateInv
    <3>7. d.plain \in Nat /\ d.graph \in Nat
      BY <3>6 DEF Estimate
    <3> HIDE DEF d
    <3>8. Max2(d.plain, d.graph + 1) > budget
      BY <3>1 DEF d
    <3> QED
      BY <3>3, <3>4, <3>6, <3>7, <3>8 DEF Max2
  <2> QED
    BY <2>1, <2>2 DEF SumsInv, EstimateInv
<1> QED
  BY <1>1, TypeInvariant, DepthInit, DepthStep, SumsInvariant, PTL DEF Spec

-----------------------------------------------------------------------------
(* The refinement: a node is computed when its sum is stored, the results  *)
(* are handed over with the last output.                                   *)

LEMMA SameMeaning ==
  /\ \A p, id : Graph!NodeIndex(p, id) = NodeIndex(p, id)
  /\ \A p : Graph!Supplies(p) = Supplies(p)
  /\ \A p, in, earlier, i : Graph!NodeValue(p, in, earlier, i) = NodeValue(p, in, earlier, i)
BY DEF NodeIndex, Graph!NodeIndex, Supplies, Graph!Supplies, InputNodes, Graph!InputNodes,
       ShapeOf, Graph!ShapeOf, NodeValue, Graph!NodeValue, Apply, Graph!Apply

LEMMA GraphInit == Init => Graph!Init
<1> SUFFICES ASSUME Init PROVE Graph!Init
  OBVIOUS
<1>1. PICK in \in Supplies(program), d \in [InputNodes(program) -> InputDepth] :
        inputs = [id \in InputNodes(program) |->
                   [shape |-> ShapeOf(program, id), payload |-> in[id],
                    depth |-> d[id], level |-> d[id]]]
  BY DEF Init
<1>2. suppliedView = in
  <2>1. \E S : in \in [InputNodes(program) -> S]
    BY DEF Supplies
  <2> QED
    BY <1>1, <2>1 DEF suppliedView
<1>3. computedView = <<>>
  BY DEF Init, computedView
<1> QED
  BY <1>2, <1>3, SameMeaning DEF Init, Graph!Init, suppliedView, computedView

LEMMA GraphStep ==
  TypeInv /\ TypeInv' /\ SumsInv /\ SumsInv' /\ [Next]_vars => [Graph!Next]_(Graph!absvars)
<1> SUFFICES ASSUME TypeInv, TypeInv', SumsInv, SumsInv', [Next]_vars
             PROVE  [Graph!Next]_(Graph!absvars)
  OBVIOUS
<1>1. CASE EstimateNode \/ AcceptProgram \/ AddInput \/ SkipInput \/ EndInputs
           \/ AddCandidate \/ SkipCandidate \/ AddOutput \/ SkipOutput \/ UNCHANGED vars
  BY <1>1 DEF EstimateNode, AcceptProgram, AddInput, SkipInput, EndInputs, AddCandidate,
              SkipCandidate, AddOutput, SkipOutput, vars, arguments, Graph!absvars
<1>2. CASE RefuseProgram \/ ExceedBudget \/ OpenFHEFails
  <2>1. outcome = "running" /\ outcome' \in {"running", "DepthBudgetError", "ProviderConfigurationError"}
        /\ UNCHANGED <<program, inputs, values, outputs>>
    <3>1. phase # "ended"
      <4>1. budget \in Nat
        BY BudgetAssumption DEF TypeInv, TypeOK
      <4> QED
        BY <1>2, <4>1 DEF RefuseProgram, ExceedBudget, OpenFHEFails, LibraryCalled, neededDepth,
                          Affordable, InputLeft, CandidateLeft, OutputLeft
    <3> QED
      BY <1>2, <3>1 DEF RefuseProgram, ExceedBudget, OpenFHEFails, End, arguments, TypeInv,
                        TypeOK, Control
  <2>2. CASE outcome' = "running"
    BY <2>1, <2>2 DEF Graph!absvars
  <2>3. CASE outcome' # "running"
    BY <2>1, <2>3 DEF Graph!Next, Graph!Fail
  <2> QED
    BY <2>2, <2>3
<1>3. CASE StoreNode
  <2>1. /\ phase = "candidates" /\ ~CandidateLeft /\ values' = Append(values, acc)
        /\ UNCHANGED <<program, inputs, outputs, outcome>>
    BY <1>3 DEF StoreNode, arguments
  <2>2. outcome = "running" /\ Len(values) < Len(program.nodes) /\ Len(values) \in Nat
    BY <2>1, AtNode DEF TypeInv, TypeOK, Control, nodeCount
  <2>3. acc.payload = NodeValue(program, suppliedView, computedView, Len(values) + 1)
    BY <2>1, Fed DEF SumsInv, SumInv, NodeSum, current
  <2>4. computedView' = Append(computedView, acc.payload)
    <3>1. /\ Len(values') = Len(values) + 1 /\ values'[Len(values) + 1] = acc
          /\ \A i \in 1 .. Len(values) : values'[i] = values[i]
      BY <2>1, <2>2 DEF TypeInv, TypeOK
    <3> QED
      BY <2>2, <3>1 DEF computedView
  <2>5. Len(computedView) = Len(values)
    BY <2>2 DEF computedView
  <2>6. Graph!ComputeNode
    BY <2>1, <2>2, <2>3, <2>4, <2>5, SameMeaning DEF Graph!ComputeNode, suppliedView, computedView
  <2> QED
    BY <2>6 DEF Graph!Next
<1>4. CASE StoreOutput
  <2>1. /\ phase = "outputs" /\ outcome = "running" /\ outputs' = Append(outputs, acc)
        /\ UNCHANGED <<program, inputs, values>>
    BY <1>4 DEF StoreOutput, arguments, TypeInv, Control
  <2>2. CASE outputRow < Len(program.output_ids)
    BY <1>4, <2>1, <2>2 DEF StoreOutput, Graph!absvars
  <2>3. CASE ~(outputRow < Len(program.output_ids))
    <3>1. outcome' = "done"
      BY <1>4, <2>3 DEF StoreOutput, End
    <3>2. Len(values) = nodeCount /\ Len(computedView) = Len(program.nodes)
          /\ DOMAIN computedView = DOMAIN program.nodes
      BY <2>1, ProgramInHand DEF TypeInv, Control, computedView, nodeCount
    <3>3. Len(outputs') = Len(program.output_ids) /\ DOMAIN outputs' = 1 .. Len(outputs')
      BY <2>1, <3>1 DEF TypeInv, TypeOK, Control
    <3>4. ASSUME NEW o \in DOMAIN program.output_ids
          PROVE  outputs'[o].payload = computedView[NodeIndex(program, program.output_ids[o])]
      <4>1. o \in DOMAIN outputs'
        BY <3>3, ProgramInHand
      <4>2. outputs'[o].payload = values[OutputNode(o)].payload
        BY <2>1, <4>1 DEF SumsInv, SumInv, OutputNode
      <4>3. OutputNode(o) \in DOMAIN program.nodes
        BY ProgramInHand, InterfaceNodes DEF OutputNode
      <4> QED
        BY <3>2, <4>2, <4>3 DEF computedView, OutputNode
    <3>5. [o \in 1 .. Len(outputs') |-> outputs'[o].payload]
            = [o \in DOMAIN program.output_ids |->
                 computedView[NodeIndex(program, program.output_ids[o])]]
      BY <3>3, <3>4, ProgramInHand
    <3>6. Graph!Finish
      BY <2>1, <3>1, <3>2, <3>5, SameMeaning DEF Graph!Finish, computedView
    <3> QED
      BY <3>6 DEF Graph!Next
  <2> QED
    BY <2>2, <2>3
<1> QED
  BY <1>1, <1>2, <1>3, <1>4 DEF Next, Step

(* The oblivious executor computes the program: the sums it stores are the *)
(* values of the nodes in program order, each from the values of its       *)
(* operands, and results are handed over only when all are there.          *)
THEOREM Correctness == Spec => ImplementsGraph
BY TypeInvariant, SumsInvariant, GraphInit, GraphStep, PTL DEF Spec, ImplementsGraph, Graph!Spec
=============================================================================

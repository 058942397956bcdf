---------------------- MODULE PlaintextExecutionProofs ----------------------
(***************************************************************************)
(* The reference interpreter computes what the program says: proved for    *)
(* every corpus of well-formed programs and every tensor arithmetic in     *)
(* which the kernels are closed.                                           *)
(***************************************************************************)
EXTENDS PlaintextExecution, ProgramFacts

(* The inductive invariant: the dictionary holds the inputs, as supplied,  *)
(* and the nodes the loop has passed, each with a value of its shape; the  *)
(* interpreter's own checks have not fired.                                *)
Held == InputNodes(program) \cup {program.nodes[i].id : i \in 1 .. (at - 1)}

Dictionary ==
  /\ DOMAIN values = Held
  /\ \A id \in Held : values[id] \in [shape : {ShapeOf(program, id)}, payload : Payload(ShapeOf(program, id))]
  /\ \A id \in InputNodes(program) : values[id].payload = supplied[id]

InterpreterInv ==
  /\ program \in Program /\ WellFormed(program)
  /\ at \in 1 .. (Len(program.nodes) + 1)
  /\ status \in {"running", "done"}
  /\ Dictionary

LEMMA Positions ==
  ASSUME NEW p \in Program, WellFormed(p)
  PROVE  /\ Len(p.nodes) \in Nat /\ DOMAIN p.nodes = 1 .. Len(p.nodes)
         /\ \A i \in DOMAIN p.nodes : /\ NodeIndex(p, p.nodes[i].id) = i
                                      /\ ShapeOf(p, p.nodes[i].id) = p.nodes[i].shape
                                      /\ p.nodes[i].shape \in Shape /\ p.nodes[i].id \in NodeId
                                      /\ p.nodes[i].op \in Op
<1>1. p.nodes \in Seq(Node)
  BY DEF Program
<1>2. ASSUME NEW i \in DOMAIN p.nodes
      PROVE  NodeIndex(p, p.nodes[i].id) = i /\ p.nodes[i] \in Node
  BY <1>1, NodeIndexFound DEF WellFormed, UniqueIds
<1> QED
  BY <1>1, <1>2 DEF ShapeOf, Node

LEMMA InterpreterInit == Init => InterpreterInv
<1> SUFFICES ASSUME Init PROVE InterpreterInv
  OBVIOUS
<1>1. program \in Program /\ WellFormed(program)
  BY CorpusAssumption DEF Init
<1>2. \A id \in InputNodes(program) : id \in NodeId /\ ShapeOf(program, id) \in Shape
  <2>1. \A id \in InputNodes(program) : \E i \in DOMAIN program.nodes : program.nodes[i].id = id
    BY DEF InputNodes
  <2> QED
    BY <1>1, <2>1, Positions
<1>3. DOMAIN supplied = InputNodes(program)
      /\ \A id \in InputNodes(program) : supplied[id] \in Supply(id, ShapeOf(program, id))
  BY DEF Init, Supplies
<1>4. \A id \in InputNodes(program) : supplied[id] \in Payload(ShapeOf(program, id))
  BY <1>2, <1>3, SupplyAssumption
<1>5. values = [id \in InputNodes(program) |->
                  [shape |-> ShapeOf(program, id), payload |-> supplied[id]]]
  BY <1>3 DEF Init
<1>6. at = 1 /\ status = "running"
  BY DEF Init
<1>7. Held = InputNodes(program)
  BY <1>6 DEF Held
<1>8. Dictionary
  BY <1>4, <1>5, <1>7 DEF Dictionary
<1>9. at \in 1 .. (Len(program.nodes) + 1)
  BY <1>1, <1>6, Positions
<1> QED
  BY <1>1, <1>6, <1>8, <1>9 DEF InterpreterInv

-----------------------------------------------------------------------------
(* An operation: its operands are in the dictionary and have the shapes it *)
(* calls for, and its result has the shape of the node.                    *)

LEMMA OperandsAreHeld ==
  ASSUME InterpreterInv, NodeLeft, node.op # "INPUT", NEW k \in {1, 2}
  PROVE  LET l == NodeIndex(program, node.inputs[k])
         IN  /\ l \in 1 .. (at - 1) /\ l \in DOMAIN program.nodes /\ program.nodes[l].id = node.inputs[k]
             /\ node.inputs[k] \in DOMAIN values
             /\ operand(k).shape = program.nodes[l].shape
             /\ operand(k).payload \in Payload(program.nodes[l].shape)
<1> DEFINE l == NodeIndex(program, node.inputs[k])
<1>1. program \in Program /\ WellFormed(program) /\ at \in DOMAIN program.nodes
  BY Positions DEF InterpreterInv, NodeLeft
<1>2. l \in 1 .. (at - 1) /\ program.nodes[l].id = node.inputs[k]
  BY <1>1, OperandIsEarlier DEF node
<1>3. l \in DOMAIN program.nodes
  BY <1>1, <1>2, Positions
<1>4. node.inputs[k] \in Held
  BY <1>2 DEF Held
<1>5. ShapeOf(program, node.inputs[k]) = program.nodes[l].shape
  BY DEF ShapeOf
<1>6. values[node.inputs[k]] \in [shape : {ShapeOf(program, node.inputs[k])},
                                  payload : Payload(ShapeOf(program, node.inputs[k]))]
      /\ node.inputs[k] \in DOMAIN values
  BY <1>4 DEF InterpreterInv, Dictionary
<1> HIDE DEF l
<1>7. operand(k).shape = program.nodes[l].shape /\ operand(k).payload \in Payload(program.nodes[l].shape)
  BY <1>5, <1>6 DEF operand
<1> QED
  BY <1>2, <1>3, <1>6, <1>7 DEF l

LEMMA EvaluatedRight ==
  ASSUME InterpreterInv, NodeLeft, node.op # "INPUT"
  PROVE  OperandsFit /\ Evaluated \in [shape : {node.shape}, payload : Payload(node.shape)]
<1> DEFINE l == NodeIndex(program, node.inputs[1])
           r == NodeIndex(program, node.inputs[2])
           s == operand(1).shape
           t == operand(2).shape
           x == operand(1).payload
           y == operand(2).payload
<1>1. program \in Program /\ WellFormed(program) /\ at \in DOMAIN program.nodes
  BY Positions DEF InterpreterInv, NodeLeft
<1>2. /\ l \in DOMAIN program.nodes /\ r \in DOMAIN program.nodes
      /\ node.inputs[1] \in DOMAIN values /\ node.inputs[2] \in DOMAIN values
      /\ s = program.nodes[l].shape /\ t = program.nodes[r].shape
      /\ x \in Payload(program.nodes[l].shape) /\ y \in Payload(program.nodes[r].shape)
  BY OperandsAreHeld
<1>3. ShapeRule(node.op, program.nodes[l].shape, program.nodes[r].shape, node.shape)
  BY <1>1, OperandShapes DEF node
<1>4. s \in Shape /\ t \in Shape /\ node.shape \in Shape /\ node.op \in {"ADD", "MUL", "GEMM"}
  BY <1>1, <1>2, Positions DEF node, Op, Elementwise
<1>5. OperandsFit
  BY <1>2, <1>3 DEF OperandsFit
<1> DEFINE op == node.op
           out == node.shape
<1>6. /\ s \in Shape /\ t \in Shape /\ x \in Payload(s) /\ y \in Payload(t) /\ out \in Shape
      /\ op \in {"ADD", "MUL", "GEMM"} /\ ShapeRule(op, s, t, out)
  BY <1>2, <1>3, <1>4
<1>7. Evaluated = [shape |-> IF op = "GEMM" THEN GemmShape(s, t) ELSE s,
                   payload |-> Apply(op, s, t, x, y)]
  BY DEF Evaluated
<1> HIDE DEF s, t, x, y, op, out
<1>8. Apply(op, s, t, x, y) \in Payload(out) /\ (IF op = "GEMM" THEN GemmShape(s, t) ELSE s) = out
  BY <1>6, KernelsClosed DEF Apply, ShapeRule, Elementwise
<1>9. Evaluated \in [shape : {out}, payload : Payload(out)]
  BY <1>7, <1>8
<1> QED
  BY <1>5, <1>9 DEF out

LEMMA InterpreterStep == InterpreterInv /\ [Next]_vars => InterpreterInv'
<1> SUFFICES ASSUME InterpreterInv, [Next]_vars PROVE InterpreterInv'
  OBVIOUS
<1>0. program \in Program /\ WellFormed(program)
  BY DEF InterpreterInv
<1>1. ASSUME NodeLeft
      PROVE  /\ at \in DOMAIN program.nodes /\ at \in Nat
             /\ at + 1 \in 1 .. (Len(program.nodes) + 1)
             /\ 1 .. ((at + 1) - 1) = (1 .. (at - 1)) \cup {at}
  BY <1>0, <1>1, Positions DEF NodeLeft, InterpreterInv
<1>2. CASE SkipInput
  <2>1. NodeLeft /\ node.op = "INPUT" /\ at' = at + 1 /\ UNCHANGED <<program, supplied, values, status>>
    BY <1>2 DEF SkipInput
  <2>2. node.id \in InputNodes(program)
    BY <1>1, <2>1 DEF node, InputNodes
  <2>3. Held' = Held
    BY <1>1, <2>1, <2>2 DEF Held, node
  <2>4. Dictionary'
    BY <2>1, <2>3 DEF Dictionary, InterpreterInv
  <2> QED
    BY <1>1, <2>1, <2>4 DEF InterpreterInv
<1>3. CASE EvaluateNode
  <2>1. NodeLeft /\ node.op # "INPUT"
    BY <1>3 DEF EvaluateNode
  <2>2. OperandsFit /\ Evaluated \in [shape : {node.shape}, payload : Payload(node.shape)]
    BY <2>1, EvaluatedRight
  <2>3. /\ values' = [id \in DOMAIN values \cup {node.id} |->
                        IF id = node.id THEN Evaluated ELSE values[id]]
        /\ at' = at + 1 /\ UNCHANGED <<program, supplied, status>>
    BY <1>3, <2>2 DEF EvaluateNode
  <2>4. ShapeOf(program, node.id) = node.shape
    BY <1>0, <1>1, <2>1, Positions DEF node
  <2>5. Held' = Held \cup {node.id}
    BY <1>1, <2>1, <2>3 DEF Held, node
  <2>6. node.id \notin InputNodes(program)
    BY <1>0, <1>1, <2>1, Positions DEF node, InputNodes
  <2>7. /\ DOMAIN values = Held
        /\ \A id \in Held : values[id] \in [shape : {ShapeOf(program, id)},
                                            payload : Payload(ShapeOf(program, id))]
        /\ \A id \in InputNodes(program) : id \in Held /\ values[id].payload = supplied[id]
    BY DEF InterpreterInv, Dictionary, Held
  <2> DEFINE n == node
             e == Evaluated
  <2>8. /\ values' = [id \in Held \cup {n.id} |-> IF id = n.id THEN e ELSE values[id]]
        /\ e \in [shape : {ShapeOf(program, n.id)}, payload : Payload(ShapeOf(program, n.id))]
        /\ Held' = Held \cup {n.id} /\ n.id \notin InputNodes(program)
        /\ UNCHANGED <<program, supplied>>
    BY <2>2, <2>3, <2>4, <2>5, <2>6, <2>7
  <2> HIDE DEF n, e
  <2>9. /\ DOMAIN values' = Held'
        /\ \A id \in Held' : values'[id] = IF id = n.id THEN e ELSE values[id]
    BY <2>8
  <2>10. \A id \in Held \cup {n.id} : values'[id] \in [shape : {ShapeOf(program, id)},
                                            payload : Payload(ShapeOf(program, id))]
    <3>1. ASSUME NEW id \in Held \cup {n.id}
          PROVE  values'[id] \in [shape : {ShapeOf(program, id)}, payload : Payload(ShapeOf(program, id))]
      <4>1. CASE id = n.id
        BY <2>8, <2>9, <4>1
      <4>2. CASE id # n.id
        BY <2>7, <2>8, <2>9, <4>2
      <4> QED
        BY <4>1, <4>2
    <3> QED
      BY <3>1
  <2>11. \A id \in InputNodes(program) : values'[id].payload = supplied[id]
    <3>1. ASSUME NEW id \in InputNodes(program)
          PROVE  values'[id].payload = supplied[id]
      <4>1. id \in Held /\ values[id].payload = supplied[id]
        BY DEF InterpreterInv, Dictionary, Held
      <4>2. id # n.id /\ id \in Held'
        BY <2>8, <4>1
      <4>3. values'[id] = values[id]
        BY <2>9, <4>2
      <4> QED
        BY <4>1, <4>3
    <3> QED
      BY <3>1
  <2>12. Dictionary'
    BY <2>8, <2>9, <2>10, <2>11 DEF Dictionary
  <2> QED
    BY <1>1, <2>1, <2>3, <2>12 DEF InterpreterInv
<1>4. CASE ReturnOutputs \/ UNCHANGED vars
  <2>1. UNCHANGED <<program, supplied, values, at>> /\ status' \in {"running", "done"}
    BY <1>4 DEF ReturnOutputs, vars, InterpreterInv
  <2>2. Dictionary' <=> Dictionary
    BY <2>1 DEF Dictionary, Held
  <2> QED
    BY <2>1, <2>2 DEF InterpreterInv
<1> QED
  BY <1>2, <1>3, <1>4 DEF Next

LEMMA InterpreterInvariant == Spec => []InterpreterInv
BY InterpreterInit, InterpreterStep, PTL DEF Spec

(* Its own checks never fire: every operand is in the dictionary when it   *)
(* is looked up, and has the shape the operation and the declared output   *)
(* call for.                                                               *)
THEOREM LookupsSucceed == Spec => [](status # "failed")
<1>1. InterpreterInv => status # "failed"
  BY DEF InterpreterInv
<1> QED
  BY <1>1, InterpreterInvariant, PTL

(* The dictionary holds values of the shape of their node, under ids of    *)
(* the program, at every point of the loop.                                *)
THEOREM InterpreterTypes == Spec => []TypeOK
<1>1. InterpreterInv => TypeOK
  <2> SUFFICES ASSUME InterpreterInv PROVE TypeOK
    OBVIOUS
  <2>1. Held \subseteq {program.nodes[i].id : i \in DOMAIN program.nodes}
    BY Positions DEF InterpreterInv, Held, InputNodes
  <2>2. DOMAIN values \subseteq NodeId
    BY <2>1, Positions DEF InterpreterInv, Dictionary
  <2> QED
    BY <2>2 DEF InterpreterInv, Dictionary, TypeOK
<1> QED
  BY InterpreterInvariant, <1>1, PTL

-----------------------------------------------------------------------------
(* The refinement: a node is computed when the loop passes it. *)

LEMMA SameMeaning ==
  /\ \A p, id : Graph!NodeIndex(p, id) = NodeIndex(p, id)
  /\ \A p : Graph!Supplies(p) = Supplies(p)
  /\ \A p, in, earlier, i : Graph!NodeValue(p, in, earlier, i) = NodeValue(p, in, earlier, i)
BY DEF NodeIndex, Graph!NodeIndex, Supplies, Graph!Supplies, InputNodes, Graph!InputNodes,
       ShapeOf, Graph!ShapeOf, NodeValue, Graph!NodeValue, Apply, Graph!Apply

(* The values of the nodes passed, in program order. *)
Passed == [i \in 1 .. (at - 1) |-> values[program.nodes[i].id].payload]

LEMMA GraphInit == Init => Graph!Init
<1> SUFFICES ASSUME Init PROVE Graph!Init
  OBVIOUS
<1>1. Passed = <<>>
  BY DEF Init, Passed
<1> QED
  BY <1>1, SameMeaning DEF Init, Graph!Init, Passed

(* One node more has been passed, and the values of the others are kept. *)
LEMMA PassedGrows ==
  ASSUME InterpreterInv, NodeLeft, at' = at + 1, UNCHANGED program, NEW v,
         values'[node.id].payload = v,
         \A i \in 1 .. (at - 1) : values'[program.nodes[i].id] = values[program.nodes[i].id]
  PROVE  /\ Len(Passed) = at - 1 /\ Len(Passed) < Len(program.nodes)
         /\ Passed' = Append(Passed, v)
<1>1. at - 1 \in Nat /\ at \in DOMAIN program.nodes /\ at - 1 < Len(program.nodes)
  BY Positions DEF InterpreterInv, NodeLeft
<1>2. Len(Passed) = at - 1
  BY <1>1 DEF Passed
<1>3. Passed' = [i \in 1 .. at |-> values'[program.nodes[i].id].payload]
  BY <1>1 DEF Passed
<1> DEFINE S == {Passed[i] : i \in 1 .. (at - 1)} \cup {v}
           appended == Append(Passed, v)
<1>4. Passed \in Seq(S) /\ v \in S
  BY <1>1 DEF Passed
<1>5. appended = [i \in 1 .. at |-> IF i = at THEN v ELSE Passed[i]]
  <2> HIDE DEF S
  <2>1. DOMAIN appended = 1 .. at /\ \A i \in 1 .. at : appended[i] = IF i = at THEN v ELSE Passed[i]
    BY <1>1, <1>2, <1>4
  <2>2. appended \in Seq(S)
    BY <1>4
  <2> HIDE DEF appended
  <2>3. appended = [i \in DOMAIN appended |-> appended[i]]
    BY <2>2
  <2> QED
    BY <2>1, <2>3
<1>6. \A i \in 1 .. at : values'[program.nodes[i].id].payload = IF i = at THEN v ELSE Passed[i]
  BY <1>1 DEF Passed, node
<1> QED
  BY <1>1, <1>2, <1>3, <1>5, <1>6

LEMMA GraphStep == InterpreterInv /\ [Next]_vars => [Graph!Next]_(Graph!absvars)
<1> SUFFICES ASSUME InterpreterInv, [Next]_vars PROVE [Graph!Next]_(Graph!absvars)
  OBVIOUS
<1>0. program \in Program /\ WellFormed(program)
  BY DEF InterpreterInv
<1>1. ASSUME NodeLeft
      PROVE  at \in DOMAIN program.nodes /\ at \in Nat /\ at - 1 + 1 = at
             /\ \A i \in 1 .. (at - 1) : i \in DOMAIN program.nodes /\ program.nodes[i].id # node.id
  BY <1>0, <1>1, Positions DEF NodeLeft, InterpreterInv, WellFormed, UniqueIds, node
<1>2. CASE SkipInput
  <2>1. NodeLeft /\ node.op = "INPUT" /\ at' = at + 1
        /\ UNCHANGED <<program, supplied, values, status, results>>
    BY <1>2 DEF SkipInput
  <2>2. values[node.id].payload = supplied[node.id]
    BY <1>1, <2>1 DEF InterpreterInv, Dictionary, InputNodes, node
  <2>3. Len(Passed) = at - 1 /\ Len(Passed) < Len(program.nodes)
        /\ Passed' = Append(Passed, supplied[node.id])
    BY <2>1, <2>2, PassedGrows
  <2>4. NodeValue(program, supplied, Passed, Len(Passed) + 1) = supplied[node.id]
    BY <1>1, <2>1, <2>3 DEF NodeValue, node
  <2>5. Graph!ComputeNode
    BY <2>1, <2>3, <2>4, SameMeaning DEF Graph!ComputeNode, Passed, NodeLeft
  <2> QED
    BY <2>5 DEF Graph!Next
<1>3. CASE EvaluateNode
  <2>1. NodeLeft /\ node.op # "INPUT" /\ OperandsFit
    BY <1>3, EvaluatedRight DEF EvaluateNode
  <2>2. /\ values' = [id \in DOMAIN values \cup {node.id} |->
                        IF id = node.id THEN Evaluated ELSE values[id]]
        /\ at' = at + 1 /\ UNCHANGED <<program, supplied, status, results>>
    BY <1>3, <2>1 DEF EvaluateNode
  <2> DEFINE v == Evaluated.payload
             l == NodeIndex(program, node.inputs[1])
             r == NodeIndex(program, node.inputs[2])
  <2>3. values'[node.id].payload = v
    BY <2>2
  <2>4. \A i \in 1 .. (at - 1) : values'[program.nodes[i].id] = values[program.nodes[i].id]
    <3> TAKE i \in 1 .. (at - 1)
    <3>1. program.nodes[i].id \in DOMAIN values /\ program.nodes[i].id # node.id
      BY <1>1, <2>1 DEF InterpreterInv, Dictionary, Held
    <3> QED
      BY <2>2, <3>1
  <2>5. Len(Passed) = at - 1 /\ Len(Passed) < Len(program.nodes) /\ Passed' = Append(Passed, v)
    BY <2>1, <2>2, <2>3, <2>4, PassedGrows
  <2>6. NodeValue(program, supplied, Passed, Len(Passed) + 1) = v
    <3>1. /\ l \in 1 .. (at - 1) /\ program.nodes[l].id = node.inputs[1]
          /\ operand(1).shape = program.nodes[l].shape
          /\ r \in 1 .. (at - 1) /\ program.nodes[r].id = node.inputs[2]
          /\ operand(2).shape = program.nodes[r].shape
      BY <2>1, OperandsAreHeld
    <3>2. Passed[l] = operand(1).payload /\ Passed[r] = operand(2).payload
      BY <3>1 DEF Passed, operand
    <3>3. NodeValue(program, supplied, Passed, at)
            = Apply(node.op, program.nodes[l].shape, program.nodes[r].shape, Passed[l], Passed[r])
      BY <2>1 DEF NodeValue, node
    <3>4. v = Apply(node.op, operand(1).shape, operand(2).shape, operand(1).payload, operand(2).payload)
      BY DEF Evaluated
    <3> QED
      BY <1>1, <2>1, <2>5, <3>1, <3>2, <3>3, <3>4
  <2>7. Graph!ComputeNode
    BY <2>1, <2>2, <2>5, <2>6, SameMeaning DEF Graph!ComputeNode, Passed, NodeLeft
  <2> QED
    BY <2>7 DEF Graph!Next
<1>4. CASE ReturnOutputs
  <2>1. /\ status = "running" /\ ~NodeLeft /\ status' = "done"
        /\ results' = [o \in DOMAIN program.output_ids |-> values[program.output_ids[o]].payload]
        /\ UNCHANGED <<program, supplied, values, at>>
    BY <1>4 DEF ReturnOutputs
  <2>2. at = Len(program.nodes) + 1 /\ Len(program.nodes) \in Nat
    BY <1>0, <2>1, Positions DEF NodeLeft, InterpreterInv
  <2>3. Len(Passed) = Len(program.nodes) /\ UNCHANGED Passed
    BY <2>1, <2>2 DEF Passed
  <2>4. ASSUME NEW o \in DOMAIN program.output_ids
        PROVE  values[program.output_ids[o]].payload = Passed[NodeIndex(program, program.output_ids[o])]
    <3>1. PICK i \in DOMAIN program.nodes : program.nodes[i].id = program.output_ids[o]
      BY <1>0 DEF WellFormed, InterfaceAgrees
    <3>2. NodeIndex(program, program.output_ids[o]) = i /\ i \in 1 .. (at - 1)
      BY <1>0, <2>2, <3>1, Positions
    <3> QED
      BY <3>1, <3>2 DEF Passed
  <2>5. results' = [o \in DOMAIN program.output_ids |->
                      Passed[NodeIndex(program, program.output_ids[o])]]
    BY <2>1, <2>4
  <2>6. \A o \in DOMAIN program.output_ids :
          Graph!NodeIndex(program, program.output_ids[o]) = NodeIndex(program, program.output_ids[o])
    BY SameMeaning
  <2>7. results' = [o \in DOMAIN program.output_ids |->
                      Passed[Graph!NodeIndex(program, program.output_ids[o])]]
    BY <2>5, <2>6
  <2>8. Graph!Finish
    BY <2>1, <2>3, <2>7 DEF Graph!Finish, Passed
  <2> QED
    BY <2>8 DEF Graph!Next
<1>5. CASE UNCHANGED vars
  BY <1>5 DEF vars, Graph!absvars
<1> QED
  BY <1>2, <1>3, <1>4, <1>5 DEF Next

(* The interpreter computes the program: each node from the values of its  *)
(* operands, in program order, whatever ids the nodes have, and it hands   *)
(* over the outputs when all nodes have been computed.                     *)
THEOREM Interpretation == Spec => ImplementsGraph
BY InterpreterInvariant, GraphInit, GraphStep, PTL DEF Spec, ImplementsGraph, Graph!Spec
=============================================================================

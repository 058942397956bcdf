------------------------- MODULE PlaintextExecution -------------------------
(***************************************************************************)
(* PlaintextProvider.execute_program: the reference interpreter.  It keeps *)
(* a dictionary from ids to tensors that starts with the inputs, skips the *)
(* INPUT nodes, and evaluates the other nodes in program order.  The       *)
(* graph runtime has checked the inputs' ids and shapes.                   *)
(***************************************************************************)
EXTENDS ProgramSemantics

VARIABLES
  program,   \* the program behind the artifact
  supplied,  \* input id -> value, as the caller supplied them
  values,    \* id -> tensor
  at,        \* the node the loop looks at
  results,   \* the outputs returned, by output row; <<>> until then
  status     \* "running", "done" or "failed"

vars == <<program, supplied, values, at, results, status>>

node == program.nodes[at]

operand(k) == values[node.inputs[k]]

Init ==
  /\ program \in Corpus
  /\ supplied \in Supplies(program)
  /\ values = [id \in DOMAIN supplied |->
                 [shape |-> ShapeOf(program, id), payload |-> supplied[id]]]
  /\ at = 1
  /\ results = <<>>
  /\ status = "running"

NodeLeft == status = "running" /\ at <= Len(program.nodes)

(* Fault: the loop does not get past an INPUT node. *)
SkipInputForever ==
  /\ NodeLeft
  /\ node.op = "INPUT"
  /\ UNCHANGED vars

SkipInput ==
  /\ NodeLeft
  /\ node.op = "INPUT"
  /\ at' = at + 1
  /\ UNCHANGED <<program, supplied, values, results, status>>

(* Fault: the result of gemm has the shape of its first operand. *)
EvaluatedInFirstShape ==
  [shape   |-> operand(1).shape,
   payload |-> Apply(node.op, operand(1).shape, operand(2).shape,
                     operand(1).payload, operand(2).payload)]

(* Fault: mul is dispatched to add. *)
EvaluatedMulAsAdd ==
  [shape   |-> IF node.op = "GEMM" THEN GemmShape(operand(1).shape, operand(2).shape)
               ELSE operand(1).shape,
   payload |-> Apply(IF node.op = "MUL" THEN "ADD" ELSE node.op,
                     operand(1).shape, operand(2).shape,
                     operand(1).payload, operand(2).payload)]

(* add, mul and gemm: the kernel's result, "re-encrypted". *)
Evaluated ==
  [shape   |-> IF node.op = "GEMM" THEN GemmShape(operand(1).shape, operand(2).shape)
               ELSE operand(1).shape,
   payload |-> Apply(node.op, operand(1).shape, operand(2).shape,
                     operand(1).payload, operand(2).payload)]

(* The lookups succeed, and the shapes are those the operation and the     *)
(* node's declared output call for.                                        *)
OperandsFit ==
  /\ {node.inputs[1], node.inputs[2]} \subseteq DOMAIN values
  /\ ShapeRule(node.op, operand(1).shape, operand(2).shape, node.shape)

(* Fault: the result replaces the first operand in the dictionary. *)
EvaluateNodeInPlace ==
  /\ NodeLeft
  /\ node.op # "INPUT"
  /\ IF OperandsFit
     THEN values' = [values EXCEPT ![node.inputs[1]] = Evaluated] /\ UNCHANGED status
     ELSE status' = "failed" /\ UNCHANGED values
  /\ at' = at + 1
  /\ UNCHANGED <<program, supplied, results>>

EvaluateNode ==
  /\ NodeLeft
  /\ node.op # "INPUT"
  /\ IF OperandsFit
     THEN /\ values' = [id \in DOMAIN values \cup {node.id} |->
                          IF id = node.id THEN Evaluated ELSE values[id]]
          /\ at' = at + 1
          /\ UNCHANGED status
     ELSE status' = "failed" /\ UNCHANGED <<values, at>>
  /\ UNCHANGED <<program, supplied, results>>

ReturnOutputs ==
  /\ status = "running" /\ ~NodeLeft
  /\ results' = [o \in DOMAIN program.output_ids |-> values[program.output_ids[o]].payload]
  /\ status' = "done"
  /\ UNCHANGED <<program, supplied, values, at>>

Next == SkipInput \/ EvaluateNode \/ ReturnOutputs

Spec == Init /\ [][Next]_vars

FairSpec == Spec /\ WF_vars(Next)

-----------------------------------------------------------------------------
TypeOK ==
  /\ program \in Program
  /\ at \in 1 .. (Len(program.nodes) + 1)
  /\ DOMAIN values \subseteq NodeId
  /\ \A id \in DOMAIN values :
       values[id] \in [shape : {ShapeOf(program, id)}, payload : Payload(ShapeOf(program, id))]
  /\ status \in {"running", "done", "failed"}

(* The interpreter implements the execution of the program graph. *)
Graph == INSTANCE GraphExecution WITH
  computed <- [i \in 1 .. (at - 1) |-> values[program.nodes[i].id].payload]

ImplementsGraph == Graph!Spec

(* It always returns: on an accepted program its lookups find their ids    *)
(* and its own checks never fire.                                          *)
AlwaysReturns == <>(status = "done")
=============================================================================

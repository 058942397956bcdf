------------------------- MODULE EncodeProgramProofs -------------------------
(***************************************************************************)
(* What is proved of PlainProgram and EncodeProgram, for every set of      *)
(* programs that may be handed to the constructor: revalidate decides      *)
(* well-formedness, and what it accepts is encoded as GraphEncoding says.  *)
(***************************************************************************)
EXTENDS EncodeProgram, ProgramFacts

-----------------------------------------------------------------------------
(* What the passes have established of the nodes behind them.              *)

NodeIds(n) == {program.nodes[i].id : i \in 1 .. n}

(* _validate_structure has passed node i.  A node may still name itself.   *)
Structured(i) ==
  LET n == program.nodes[i]
  IN  /\ \A j \in 1 .. (i - 1) : program.nodes[j].id # n.id
      /\ n.op = "INPUT" <=> n.inputs = <<>>
      /\ \A k \in DOMAIN n.inputs : \E j \in 1 .. i : OperandIs(program, i, k, j)

(* _validate_shapes has passed node i. *)
Shaped(i) ==
  LET n == program.nodes[i]
  IN  n.op # "INPUT" =>
        /\ Len(n.inputs) = 2
        /\ \A k \in {1, 2} : \E j \in 1 .. (i - 1) : OperandIs(program, i, k, j)
        /\ \A l, r \in 1 .. (i - 1) :
             OperandIs(program, i, 1, l) /\ OperandIs(program, i, 2, r)
               => ShapeRule(n.op, program.nodes[l].shape, program.nodes[r].shape, n.shape)

PassInv ==
  /\ pass = "ended" <=> outcome # "running"
  /\ pass = "structure" => /\ DOMAIN shapes = {}
                           /\ seen = NodeIds(at - 1)
                           /\ \A i \in 1 .. (at - 1) : Structured(i)
  /\ pass = "shapes" => /\ InterfaceAgrees(program)
                        /\ \A i \in DOMAIN program.nodes : Structured(i)
                        /\ \A i \in 1 .. (at - 1) : Shaped(i)
                        /\ DOMAIN shapes = NodeIds(at - 1)
                        /\ \A i \in 1 .. (at - 1) :
                             shapes[program.nodes[i].id] = program.nodes[i].shape

Verdicts ==
  /\ AcceptedIsWellFormed
  /\ RefusedIsIllFormed
  /\ LookupFailsOnlyOnSelfReference

PlainInv == TypeOK /\ PassInv /\ Verdicts

-----------------------------------------------------------------------------
(* The program, and the node in hand, unfolded. *)
LEMMA Unfolded ==
  ASSUME TypeOK
  PROVE  /\ program.nodes \in Seq(Node) /\ Len(program.nodes) \in Nat
         /\ DOMAIN program.nodes = 1 .. Len(program.nodes)
         /\ \A i \in DOMAIN program.nodes :
              /\ program.nodes[i] \in Node
              /\ program.nodes[i].id \in NodeId /\ program.nodes[i].op \in Op
              /\ program.nodes[i].inputs \in Seq(NodeId)
              /\ DOMAIN program.nodes[i].inputs = 1 .. Len(program.nodes[i].inputs)
              /\ Len(program.nodes[i].inputs) \in Nat
              /\ program.nodes[i].shape \in Shape
         /\ at \in Nat \ {0} /\ at <= Len(program.nodes) + 1
<1>1. program.nodes \in Seq(Node)
  BY DEF TypeOK, Program
<1>2. ASSUME NEW i \in DOMAIN program.nodes
      PROVE  /\ program.nodes[i] \in Node
             /\ program.nodes[i].id \in NodeId /\ program.nodes[i].op \in Op
             /\ program.nodes[i].inputs \in Seq(NodeId)
             /\ program.nodes[i].shape \in Shape
  <2>1. program.nodes[i] \in Node
    BY <1>1
  <2> QED
    BY <2>1 DEF Node
<1>3. ASSUME NEW i \in DOMAIN program.nodes
      PROVE  /\ DOMAIN program.nodes[i].inputs = 1 .. Len(program.nodes[i].inputs)
             /\ Len(program.nodes[i].inputs) \in Nat
  BY <1>2
<1>4. at \in 1 .. (Len(program.nodes) + 1) /\ Len(program.nodes) \in Nat
  BY <1>1 DEF TypeOK
<1> QED
  BY <1>1, <1>2, <1>3, <1>4

(* The program never changes, nor what its nodes are. *)
LEMMA SameNodes ==
  ASSUME UNCHANGED program
  PROVE  /\ \A n : NodeIds(n)' = NodeIds(n)
         /\ \A i : Structured(i)' <=> Structured(i)
         /\ \A i : Shaped(i)' <=> Shaped(i)
BY DEF NodeIds, Structured, Shaped

(* Both passes over all nodes, and the interface, make a program.          *)
LEMMA PassesSuffice ==
  ASSUME TypeOK, InterfaceAgrees(program),
         \A i \in DOMAIN program.nodes : Structured(i) /\ Shaped(i)
  PROVE  WellFormed(program)
<1> USE Unfolded
<1>1. UniqueIds(program)
  <2>1. ASSUME NEW i \in DOMAIN program.nodes, NEW j \in DOMAIN program.nodes,
               program.nodes[i].id = program.nodes[j].id, j < i
        PROVE  FALSE
    <3>1. j \in 1 .. (i - 1)
      BY <2>1
    <3> QED
      BY <2>1, <3>1 DEF Structured
  <2>2. \A i, j \in DOMAIN program.nodes : i = j \/ i < j \/ j < i
    OBVIOUS
  <2> QED
    BY <2>1, <2>2 DEF UniqueIds
<1>2. Arity(program)
  <2> SUFFICES ASSUME NEW i \in DOMAIN program.nodes
               PROVE  Len(program.nodes[i].inputs) = IF program.nodes[i].op = "INPUT" THEN 0 ELSE 2
    BY DEF Arity
  <2>1. CASE program.nodes[i].op = "INPUT"
    <3>1. program.nodes[i].inputs = <<>>
      BY <2>1 DEF Structured
    <3> QED
      BY <2>1, <3>1
  <2>2. CASE program.nodes[i].op # "INPUT"
    BY <2>2 DEF Shaped
  <2> QED
    BY <2>1, <2>2
<1>3. TopologicalOrder(program)
  <2> SUFFICES ASSUME NEW i \in DOMAIN program.nodes, NEW k \in DOMAIN program.nodes[i].inputs
               PROVE  \E j \in 1 .. (i - 1) : OperandIs(program, i, k, j)
    BY DEF TopologicalOrder
  <2>1. program.nodes[i].op # "INPUT"
    BY DEF Structured
  <2>2. k \in {1, 2}
    BY <2>1 DEF Shaped
  <2> QED
    BY <2>1, <2>2 DEF Shaped
<1>4. ShapesAgree(program)
  BY DEF ShapesAgree, Shaped
<1> QED
  BY <1>1, <1>2, <1>3, <1>4 DEF WellFormed

-----------------------------------------------------------------------------
(* Each refusal has a reason. *)

LEMMA NodeFaultIsIllFormed ==
  ASSUME PlainInv, pass = "structure", at <= Len(program.nodes), NodeFault
  PROVE  ~WellFormed(program)
<1> USE Unfolded DEF PlainInv
<1>1. at \in DOMAIN program.nodes
  OBVIOUS
<1>2. CASE node.id \in seen
  <2>1. PICK j \in 1 .. (at - 1) : program.nodes[j].id = node.id
    BY <1>2 DEF PassInv, NodeIds
  <2>2. j \in DOMAIN program.nodes /\ j # at
    BY <1>1, <2>1
  <2> QED
    BY <1>1, <2>1, <2>2 DEF WellFormed, UniqueIds, node
<1>3. CASE node.op = "INPUT" /\ node.inputs # <<>>
  <2>1. Len(program.nodes[at].inputs) # 0
    <3>1. node.inputs \in Seq(NodeId)
      BY <1>1 DEF node
    <3>2. Len(node.inputs) # 0
      BY <1>3, <3>1
    <3> QED
      BY <3>2 DEF node
  <2> QED
    BY <1>1, <1>3, <2>1 DEF WellFormed, Arity, node
<1>4. CASE node.op # "INPUT" /\ node.inputs = <<>>
  <2>1. Len(program.nodes[at].inputs) = 0
    BY <1>4 DEF node
  <2> QED
    BY <1>1, <1>4, <2>1 DEF WellFormed, Arity, node
<1>5. ASSUME NEW k \in DOMAIN node.inputs, node.inputs[k] \notin seen \cup {node.id}
      PROVE  ~WellFormed(program)
  <2>1. ~\E j \in 1 .. (at - 1) : OperandIs(program, at, k, j)
    BY <1>5 DEF PassInv, NodeIds, OperandIs, node
  <2>2. k \in DOMAIN program.nodes[at].inputs
    BY <1>5 DEF node
  <2> QED
    BY <1>1, <2>1, <2>2 DEF WellFormed, TopologicalOrder
<1> QED
  BY <1>2, <1>3, <1>4, <1>5 DEF NodeFault

LEMMA InterfaceFaultIsDisagreement ==
  ASSUME PlainInv, pass = "structure", at > Len(program.nodes)
  PROVE  /\ InterfaceFault <=> ~InterfaceAgrees(program)
         /\ \A i \in DOMAIN program.nodes : Structured(i)
<1> USE Unfolded DEF PlainInv
<1>1. at - 1 = Len(program.nodes)
  OBVIOUS
<1>2. seen = {program.nodes[i].id : i \in DOMAIN program.nodes}
  BY <1>1 DEF PassInv, NodeIds
<1> QED
  BY <1>1, <1>2 DEF PassInv, InterfaceFault, InterfaceAgrees

(* An operand whose shape is recorded is an earlier node. *)
LEMMA RecordedOperand ==
  ASSUME PlainInv, pass = "shapes", at <= Len(program.nodes), NEW k \in {1, 2}
  PROVE  node.inputs[k] \in DOMAIN shapes <=> \E j \in 1 .. (at - 1) : OperandIs(program, at, k, j)
BY DEF PlainInv, PassInv, NodeIds, OperandIs, node

LEMMA ShapeVerdict ==
  ASSUME PlainInv, pass = "shapes", at <= Len(program.nodes)
  PROVE  /\ ~ArityFault /\ ~MissingOperand /\ ~ShapeFault => Shaped(at)
         /\ ArityFault \/ ShapeFault \/ MissingOperand => ~WellFormed(program)
         /\ MissingOperand => \E k \in {1, 2} : node.inputs[k] = node.id
<1> USE Unfolded DEF PlainInv
<1>1. at \in DOMAIN program.nodes
  OBVIOUS
<1>2. ArityFault => ~WellFormed(program)
  BY <1>1 DEF ArityFault, WellFormed, Arity, node
<1>3. ASSUME MissingOperand
      PROVE  ~WellFormed(program) /\ \E k \in {1, 2} : node.inputs[k] = node.id
  <2>1. PICK k \in {1, 2} : node.inputs[k] \notin DOMAIN shapes
    BY <1>3 DEF MissingOperand
  <2>2. ~\E j \in 1 .. (at - 1) : OperandIs(program, at, k, j)
    BY <2>1, RecordedOperand
  <2>3. k \in DOMAIN program.nodes[at].inputs
    BY <1>1, <1>3 DEF MissingOperand, ArityFault, node
  <2>4. ~WellFormed(program)
    BY <1>1, <2>2, <2>3 DEF WellFormed, TopologicalOrder
  <2>5. PICK j \in 1 .. at : OperandIs(program, at, k, j)
    BY <1>1, <2>3 DEF PassInv, Structured
  <2>6. j = at
    BY <2>2, <2>5
  <2> QED
    BY <2>4, <2>5, <2>6 DEF OperandIs, node
<1>4. ASSUME node.op # "INPUT", ~ArityFault, ~MissingOperand
      PROVE  /\ \A k \in {1, 2} : \E j \in 1 .. (at - 1) : OperandIs(program, at, k, j)
             /\ \A k \in {1, 2} : \A j \in 1 .. (at - 1) : OperandIs(program, at, k, j) =>
                  shapes[node.inputs[k]] = program.nodes[j].shape
  BY <1>4, RecordedOperand DEF MissingOperand, PassInv, OperandIs, node
<1>5. ASSUME ShapeFault
      PROVE  ~WellFormed(program)
  <2>1. node.op # "INPUT" /\ ~ArityFault /\ ~MissingOperand
        /\ ~ShapeRule(node.op, shapes[node.inputs[1]], shapes[node.inputs[2]], node.shape)
    BY <1>5 DEF ShapeFault
  <2>2. PICK l, r \in 1 .. (at - 1) : OperandIs(program, at, 1, l) /\ OperandIs(program, at, 2, r)
    BY <1>4, <2>1
  <2>3. shapes[node.inputs[1]] = program.nodes[l].shape /\ shapes[node.inputs[2]] = program.nodes[r].shape
    BY <1>4, <2>1, <2>2
  <2> QED
    BY <1>1, <2>1, <2>2, <2>3 DEF WellFormed, ShapesAgree, node
<1>6. ASSUME ~ArityFault, ~MissingOperand, ~ShapeFault
      PROVE  Shaped(at)
  <2> SUFFICES ASSUME node.op # "INPUT"
               PROVE  /\ Len(node.inputs) = 2
                      /\ \A k \in {1, 2} : \E j \in 1 .. (at - 1) : OperandIs(program, at, k, j)
                      /\ \A l, r \in 1 .. (at - 1) :
                           OperandIs(program, at, 1, l) /\ OperandIs(program, at, 2, r)
                             => ShapeRule(node.op, program.nodes[l].shape, program.nodes[r].shape, node.shape)
    BY DEF Shaped, node
  <2>1. Len(node.inputs) = 2
    BY <1>6 DEF ArityFault
  <2>2. ShapeRule(node.op, shapes[node.inputs[1]], shapes[node.inputs[2]], node.shape)
    BY <1>6 DEF ShapeFault
  <2> QED
    BY <1>4, <1>6, <2>1, <2>2
<1> QED
  BY <1>2, <1>3, <1>5, <1>6

-----------------------------------------------------------------------------
(* The invariant of the two passes. *)

LEMMA PlainInit == Init => PlainInv
<1> SUFFICES ASSUME Init PROVE PlainInv
  OBVIOUS
<1>1. program \in Program /\ program.nodes \in Seq(Node)
  BY CandidatesAssumption DEF Init, Program
<1>2. TypeOK
  BY <1>1 DEF Init, TypeOK
<1>3. NodeIds(at - 1) = {} /\ 1 .. (at - 1) = {}
  BY DEF Init, NodeIds
<1>4. PassInv
  BY <1>3 DEF Init, PassInv
<1> QED
  BY <1>2, <1>4 DEF Init, PlainInv, Verdicts, AcceptedIsWellFormed, RefusedIsIllFormed,
                    LookupFailsOnlyOnSelfReference

LEMMA PlainStep == PlainInv /\ [Next]_vars => PlainInv'
<1> SUFFICES ASSUME PlainInv, [Next]_vars PROVE PlainInv'
  OBVIOUS
<1>0. TypeOK /\ PassInv /\ Verdicts
  BY DEF PlainInv
<1> USE Unfolded
<1>1. CASE VisitNode
  <2>1. /\ pass = "structure" /\ at <= Len(program.nodes) /\ ~NodeFault
        /\ seen' = seen \cup {node.id} /\ at' = at + 1
        /\ UNCHANGED <<program, pass, shapes, outcome>>
    BY <1>1 DEF VisitNode
  <2>2. at \in DOMAIN program.nodes
    BY <1>0, <2>1
  <2>3. TypeOK'
    BY <1>0, <2>1, <2>2 DEF TypeOK, node
  <2>4. seen' = NodeIds(at)
    <3>1. 1 .. at = (1 .. (at - 1)) \cup {at}
      BY <1>0, <2>2
    <3> QED
      BY <1>0, <2>1, <3>1 DEF PassInv, NodeIds, node
  <2>5. Structured(at)
    <3>1. \A j \in 1 .. (at - 1) : program.nodes[j].id # node.id
      BY <1>0, <2>1 DEF NodeFault, PassInv, NodeIds
    <3>2. node.op = "INPUT" <=> node.inputs = <<>>
      BY <2>1 DEF NodeFault
    <3>3. \A k \in DOMAIN node.inputs : \E j \in 1 .. at : OperandIs(program, at, k, j)
      <4>1. \A k \in DOMAIN node.inputs : node.inputs[k] \in seen'
        BY <2>1 DEF NodeFault
      <4> QED
        BY <2>4, <4>1 DEF NodeIds, OperandIs, node
    <3> QED
      BY <3>1, <3>2, <3>3 DEF Structured, node
  <2>6. PassInv'
    <3>1. at' - 1 = at /\ \A i \in 1 .. at : i = at \/ i \in 1 .. (at - 1)
      BY <1>0, <2>1
    <3>2. \A i \in 1 .. at : Structured(i)
      BY <1>0, <2>1, <2>5, <3>1 DEF PassInv
    <3> QED
      BY <1>0, <2>1, <2>4, <3>1, <3>2, SameNodes DEF PassInv
  <2>7. Verdicts'
    BY <1>0, <2>1 DEF PassInv, Verdicts, AcceptedIsWellFormed, RefusedIsIllFormed,
                      LookupFailsOnlyOnSelfReference
  <2> QED
    BY <2>3, <2>6, <2>7 DEF PlainInv
<1>2. CASE RejectNode \/ RejectInterface \/ RejectShape \/ LookupFails
  <2>1. /\ pass \in {"structure", "shapes"} /\ pass' = "ended"
        /\ outcome' \in {"ProgramValidationError", "KeyError"}
        /\ UNCHANGED <<program, at, seen, shapes>>
    BY <1>2 DEF RejectNode, RejectInterface, RejectShape, LookupFails, Raise
  <2>2. ~WellFormed(program)
    <3>1. CASE RejectNode
      BY <3>1, NodeFaultIsIllFormed DEF RejectNode
    <3>2. CASE RejectInterface
      BY <3>2, InterfaceFaultIsDisagreement DEF RejectInterface, WellFormed
    <3>3. CASE RejectShape \/ LookupFails
      BY <3>3, ShapeVerdict DEF RejectShape, LookupFails
    <3> QED
      BY <1>2, <3>1, <3>2, <3>3
  <2>3. outcome' = "KeyError" => \E k \in {1, 2} : node.inputs[k] = node.id
    BY <1>2, ShapeVerdict DEF RejectNode, RejectInterface, RejectShape, LookupFails, Raise
  <2>4. TypeOK'
    BY <1>0, <2>1 DEF TypeOK
  <2>5. PassInv'
    BY <2>1 DEF PassInv
  <2>6. Verdicts'
    BY <2>1, <2>2, <2>3 DEF Verdicts, AcceptedIsWellFormed, RefusedIsIllFormed,
                            LookupFailsOnlyOnSelfReference, node
  <2> QED
    BY <2>4, <2>5, <2>6 DEF PlainInv
<1>3. CASE AcceptInterface
  <2>1. /\ pass = "structure" /\ at > Len(program.nodes) /\ ~InterfaceFault
        /\ pass' = "shapes" /\ at' = 1 /\ UNCHANGED <<program, seen, shapes, outcome>>
    BY <1>3 DEF AcceptInterface
  <2>2. InterfaceAgrees(program) /\ \A i \in DOMAIN program.nodes : Structured(i)
    BY <2>1, InterfaceFaultIsDisagreement
  <2>3. DOMAIN shapes = {} /\ NodeIds(0) = {} /\ 1 .. 0 = {}
    BY <1>0, <2>1 DEF PassInv, NodeIds
  <2>4. TypeOK'
    BY <1>0, <2>1 DEF TypeOK
  <2>5. PassInv'
    BY <1>0, <2>1, <2>2, <2>3, SameNodes DEF PassInv, InterfaceAgrees, InputNodes
  <2>6. Verdicts'
    BY <1>0, <2>1 DEF PassInv, Verdicts, AcceptedIsWellFormed, RefusedIsIllFormed,
                      LookupFailsOnlyOnSelfReference
  <2> QED
    BY <2>4, <2>5, <2>6 DEF PlainInv
<1>4. CASE RecordShape
  <2>1. /\ pass = "shapes" /\ at <= Len(program.nodes)
        /\ ~ArityFault /\ ~MissingOperand /\ ~ShapeFault
        /\ shapes' = [id \in DOMAIN shapes \cup {node.id} |->
                       IF id = node.id THEN node.shape ELSE shapes[id]]
        /\ at' = at + 1
        /\ UNCHANGED <<program, pass, seen, outcome>>
    BY <1>4 DEF RecordShape
  <2>2. at \in DOMAIN program.nodes /\ node.id \in NodeId /\ node.shape \in Shape
    BY <1>0, <2>1 DEF node
  <2>3. TypeOK'
    BY <1>0, <2>1, <2>2 DEF TypeOK
  <2>4. at' - 1 = at /\ \A i \in 1 .. at : i = at \/ i \in 1 .. (at - 1)
    BY <1>0, <2>1
  <2>5. \A i \in 1 .. at : Shaped(i)
    BY <1>0, <2>1, <2>4, ShapeVerdict DEF PassInv
  <2>6. DOMAIN shapes' = NodeIds(at)
    <3>1. 1 .. at = (1 .. (at - 1)) \cup {at}
      BY <1>0, <2>2
    <3>2. NodeIds(at) = NodeIds(at - 1) \cup {node.id}
      BY <3>1 DEF NodeIds, node
    <3> QED
      BY <1>0, <2>1, <3>2 DEF PassInv
  <2>7. ASSUME NEW i \in 1 .. at
        PROVE  shapes'[program.nodes[i].id] = program.nodes[i].shape
    <3>1. CASE i = at
      BY <2>1, <3>1 DEF node
    <3>2. CASE i # at
      <4>1. i \in 1 .. (at - 1)
        BY <2>4, <3>2
      <4>2. program.nodes[i].id # node.id
        BY <1>0, <2>1, <2>2, <4>1 DEF PassInv, Structured, node
      <4>3. program.nodes[i].id \in DOMAIN shapes
            /\ shapes[program.nodes[i].id] = program.nodes[i].shape
        BY <1>0, <2>1, <4>1 DEF PassInv, NodeIds
      <4> QED
        BY <2>1, <4>2, <4>3
    <3> QED
      BY <3>1, <3>2
  <2>8. PassInv'
    <3>1. /\ InterfaceAgrees(program)' /\ \A i \in DOMAIN program'.nodes : Structured(i)'
      BY <1>0, <2>1, SameNodes DEF PassInv, InterfaceAgrees, InputNodes
    <3>2. \A i \in 1 .. (at' - 1) : Shaped(i)'
      BY <2>1, <2>4, <2>5, SameNodes
    <3>3. DOMAIN shapes' = NodeIds(at - 1)'
      BY <2>1, <2>4, <2>6 DEF NodeIds
    <3>4. \A i \in 1 .. (at' - 1) : shapes'[program'.nodes[i].id] = program'.nodes[i].shape
      BY <2>1, <2>4, <2>7
    <3>5. pass' = "shapes" /\ outcome' = "running"
      BY <1>0, <2>1 DEF PassInv
    <3> QED
      BY <3>1, <3>2, <3>3, <3>4, <3>5 DEF PassInv
  <2>9. Verdicts'
    BY <1>0, <2>1 DEF PassInv, Verdicts, AcceptedIsWellFormed, RefusedIsIllFormed,
                      LookupFailsOnlyOnSelfReference
  <2> QED
    BY <2>3, <2>8, <2>9 DEF PlainInv
<1>5. CASE Accept
  <2>1. /\ pass = "shapes" /\ at > Len(program.nodes) /\ pass' = "ended"
        /\ outcome' = "accepted" /\ UNCHANGED <<program, at, seen, shapes>>
    BY <1>5 DEF Accept
  <2>2. WellFormed(program)
    <3>1. at - 1 = Len(program.nodes)
      BY <1>0, <2>1
    <3> QED
      BY <1>0, <2>1, <3>1, PassesSuffice DEF PassInv
  <2>3. TypeOK'
    BY <1>0, <2>1 DEF TypeOK
  <2>4. PassInv'
    BY <2>1 DEF PassInv
  <2>5. Verdicts'
    BY <2>1, <2>2 DEF Verdicts, AcceptedIsWellFormed, RefusedIsIllFormed,
                      LookupFailsOnlyOnSelfReference
  <2> QED
    BY <2>3, <2>4, <2>5 DEF PlainInv
<1>6. CASE UNCHANGED vars
  BY <1>0, <1>6, SameNodes
     DEF vars, PlainInv, TypeOK, PassInv, Verdicts, AcceptedIsWellFormed, RefusedIsIllFormed,
         LookupFailsOnlyOnSelfReference, node, InterfaceAgrees, InputNodes
<1> QED
  BY <1>1, <1>2, <1>3, <1>4, <1>5, <1>6 DEF Next

-----------------------------------------------------------------------------
(* Flat addresses.  Different cells of a tensor have different addresses.  *)

LEMMA AddressInjective ==
  ASSUME NEW n \in Nat, NEW q \in Nat, NEW r \in Nat,
         NEW c \in 0 .. (n - 1), NEW d \in 0 .. (n - 1),
         q * n + c = r * n + d
  PROVE  q = r /\ c = d
<1>1. ASSUME NEW x \in Nat, NEW y \in Nat, x < y
      PROVE  x * n + n <= y * n
  <2>1. PICK e \in Nat : y = x + 1 + e
    <3>1. y - x - 1 \in Nat /\ y = x + 1 + (y - x - 1)
      BY <1>1
    <3> QED
      BY <3>1
  <2>2. y * n = x * n + n + e * n
    BY <2>1
  <2>3. e * n \in Nat /\ x * n \in Nat
    OBVIOUS
  <2> QED
    BY <2>2, <2>3
<1>2. q * n \in Nat /\ r * n \in Nat
  OBVIOUS
<1>3. ~(q < r)
  BY <1>1, <1>2
<1>4. ~(r < q)
  BY <1>1, <1>2
<1>5. q = r
  BY <1>3, <1>4
<1> QED
  BY <1>2, <1>5

(* The same for positions counted from 1. *)
LEMMA CellsDiffer ==
  ASSUME NEW n \in Nat, NEW i \in Nat \ {0}, NEW k \in Nat \ {0},
         NEW j \in 1 .. n, NEW l \in 1 .. n
  PROVE  (i - 1) * n + (j - 1) = (k - 1) * n + (l - 1) <=> i = k /\ j = l
<1> DEFINE q == i - 1
           r == k - 1
           c == j - 1
           d == l - 1
<1>1. /\ q \in Nat /\ r \in Nat /\ c \in 0 .. (n - 1) /\ d \in 0 .. (n - 1)
      /\ q = r <=> i = k
      /\ c = d <=> j = l
  OBVIOUS
<1>2. q * n + c = r * n + d <=> q = r /\ c = d
  <2> HIDE DEF q, r, c, d
  <2> QED
    BY <1>1, AddressInjective
<1> QED
  BY <1>1, <1>2

LEMMA AddressInRange ==
  ASSUME NEW m \in Nat, NEW n \in Nat, NEW r \in 0 .. (m - 1), NEW c \in 0 .. (n - 1)
  PROVE  r * n + c \in 0 .. (m * n - 1)
<1>1. PICK e \in Nat : m = r + 1 + e
  <2>1. m - r - 1 \in Nat /\ m = r + 1 + (m - r - 1)
    OBVIOUS
  <2> QED
    BY <2>1
<1>2. m * n = r * n + n + e * n
  BY <1>1
<1>3. e * n \in Nat /\ r * n \in Nat
  OBVIOUS
<1> QED
  BY <1>2, <1>3

(* Where the ones go. *)
LEMMA Positions ==
  /\ Len(OpcodeOrder) = 4
  /\ \A op \in Op : OpcodePosition(op) \in 0 .. 3
  /\ \A op, other \in Op : OpcodePosition(op) = OpcodePosition(other) => op = other
<1>1. DOMAIN OpcodeOrder = 1 .. 4 /\ Len(OpcodeOrder) = 4
  BY DEF OpcodeOrder
<1>2. OpcodeOrder[1] = "INPUT" /\ OpcodeOrder[2] = "ADD" /\ OpcodeOrder[3] = "MUL"
      /\ OpcodeOrder[4] = "GEMM"
  BY DEF OpcodeOrder
<1>3. ASSUME NEW op \in Op
      PROVE  OpcodePosition(op) \in 0 .. 3 /\ OpcodeOrder[OpcodePosition(op) + 1] = op
  <2>1. \E k \in DOMAIN OpcodeOrder : OpcodeOrder[k] = op
    BY <1>1, <1>2 DEF Op, Elementwise
  <2> DEFINE k == CHOOSE k \in DOMAIN OpcodeOrder : OpcodeOrder[k] = op
  <2>2. k \in DOMAIN OpcodeOrder /\ OpcodeOrder[k] = op
    BY <2>1
  <2>3. OpcodePosition(op) = k - 1
    BY DEF OpcodePosition
  <2> HIDE DEF k
  <2> QED
    BY <1>1, <2>2, <2>3
<1> QED
  BY <1>1, <1>3

(* The executor's table of opcodes says what the encoder's list says. *)
LEMMA TablesAgree == \A op \in Op : OpcodeIndex[op] = OpcodePosition(op)
<1>1. DOMAIN OpcodeOrder = 1 .. 4
  BY DEF OpcodeOrder
<1>2. /\ OpcodeOrder[1] = "INPUT" /\ OpcodeOrder[2] = "ADD" /\ OpcodeOrder[3] = "MUL"
      /\ OpcodeOrder[4] = "GEMM"
  BY DEF OpcodeOrder
<1>3. ASSUME NEW k \in 1 .. 4
      PROVE  OpcodePosition(OpcodeOrder[k]) = k - 1 /\ OpcodeIndex[OpcodeOrder[k]] = k - 1
  <2> DEFINE j == CHOOSE j \in DOMAIN OpcodeOrder : OpcodeOrder[j] = OpcodeOrder[k]
  <2>1. j \in 1 .. 4 /\ OpcodeOrder[j] = OpcodeOrder[k]
    BY <1>1
  <2>2. OpcodePosition(OpcodeOrder[k]) = j - 1
    BY DEF OpcodePosition
  <2> HIDE DEF j
  <2>3. j = k
    BY <1>2, <2>1
  <2>4. OpcodeIndex[OpcodeOrder[k]] = k - 1
    BY <1>2 DEF OpcodeIndex
  <2> QED
    BY <2>2, <2>3, <2>4
<1>4. ASSUME NEW op \in Op
      PROVE  \E k \in 1 .. 4 : op = OpcodeOrder[k]
  BY <1>2 DEF Op, Elementwise
<1> QED
  BY <1>3, <1>4

(* The numbers of columns, which addresses are made with. *)
LEMMA Columns ==
  ASSUME NEW p
  PROVE  /\ TensorShape(p, "opcode")[2] = 4
         /\ TensorShape(p, "input_selector")[2] = AtLeast1(Len(p.input_ids))
         /\ \A name \in {"adjacency", "lhs_selector", "rhs_selector", "output_selector"} :
              TensorShape(p, name)[2] = Len(p.nodes)
BY Positions DEF TensorShape

Cells(p, name) == 0 .. (TensorShape(p, name)[1] * TensorShape(p, name)[2] - 1)

LEMMA AddressIsCell ==
  ASSUME NEW p \in Program, NEW i \in DOMAIN p.nodes
  PROVE  /\ \A op \in Op : Address(p, "opcode", i - 1, OpcodePosition(op)) \in Cells(p, "opcode")
         /\ \A c \in DOMAIN p.input_ids :
              Address(p, "input_selector", i - 1, c - 1) \in Cells(p, "input_selector")
         /\ \A o \in DOMAIN p.output_ids :
              Address(p, "output_selector", o - 1, i - 1) \in Cells(p, "output_selector")
         /\ \A name \in {"adjacency", "lhs_selector", "rhs_selector"}, j \in DOMAIN p.nodes :
              Address(p, name, i - 1, j - 1) \in Cells(p, name)
<1>1. p.nodes \in Seq(Node) /\ p.input_ids \in Seq(NodeId) /\ p.output_ids \in Seq(NodeId)
  BY DEF Program
<1>2. /\ DOMAIN p.nodes = 1 .. Len(p.nodes) /\ Len(p.nodes) \in Nat
      /\ DOMAIN p.input_ids = 1 .. Len(p.input_ids) /\ Len(p.input_ids) \in Nat
      /\ DOMAIN p.output_ids = 1 .. Len(p.output_ids) /\ Len(p.output_ids) \in Nat
  BY <1>1
<1>3. i - 1 \in 0 .. (Len(p.nodes) - 1)
  BY <1>2
<1>4. ASSUME NEW op \in Op
      PROVE  Address(p, "opcode", i - 1, OpcodePosition(op)) \in Cells(p, "opcode")
  <2>1. TensorShape(p, "opcode") = <<Len(p.nodes), 4>>
    BY Positions DEF TensorShape
  <2>2. (i - 1) * 4 + OpcodePosition(op) \in 0 .. (Len(p.nodes) * 4 - 1)
    BY <1>2, <1>3, Positions, AddressInRange
  <2> QED
    BY <2>1, <2>2 DEF Address, Cells
<1>5. ASSUME NEW c \in DOMAIN p.input_ids
      PROVE  Address(p, "input_selector", i - 1, c - 1) \in Cells(p, "input_selector")
  <2> DEFINE w == AtLeast1(Len(p.input_ids))
  <2>1. TensorShape(p, "input_selector") = <<Len(p.nodes), w>>
    BY DEF TensorShape
  <2>2. w \in Nat /\ c - 1 \in 0 .. (w - 1)
    BY <1>2 DEF AtLeast1
  <2> HIDE DEF w
  <2>3. (i - 1) * w + (c - 1) \in 0 .. (Len(p.nodes) * w - 1)
    BY <1>2, <1>3, <2>2, AddressInRange
  <2> QED
    BY <2>1, <2>3 DEF Address, Cells
<1>6. ASSUME NEW o \in DOMAIN p.output_ids
      PROVE  Address(p, "output_selector", o - 1, i - 1) \in Cells(p, "output_selector")
  <2> DEFINE h == AtLeast1(Len(p.output_ids))
  <2>1. TensorShape(p, "output_selector") = <<h, Len(p.nodes)>>
    BY DEF TensorShape
  <2>2. h \in Nat /\ o - 1 \in 0 .. (h - 1)
    BY <1>2 DEF AtLeast1
  <2> HIDE DEF h
  <2>3. (o - 1) * Len(p.nodes) + (i - 1) \in 0 .. (h * Len(p.nodes) - 1)
    BY <1>2, <1>3, <2>2, AddressInRange
  <2> QED
    BY <2>1, <2>3 DEF Address, Cells
<1>7. ASSUME NEW name \in {"adjacency", "lhs_selector", "rhs_selector"}, NEW j \in DOMAIN p.nodes
      PROVE  Address(p, name, i - 1, j - 1) \in Cells(p, name)
  <2>1. TensorShape(p, name) = <<Len(p.nodes), Len(p.nodes)>>
    BY DEF TensorShape
  <2>2. j - 1 \in 0 .. (Len(p.nodes) - 1)
    BY <1>2
  <2>3. (i - 1) * Len(p.nodes) + (j - 1) \in 0 .. (Len(p.nodes) * Len(p.nodes) - 1)
    BY <1>2, <1>3, <2>2, AddressInRange
  <2> QED
    BY <2>1, <2>3 DEF Address, Cells
<1> QED
  BY <1>4, <1>5, <1>6, <1>7

-----------------------------------------------------------------------------
(* What a node, or an output, writes.  Everything below is of a program    *)
(* that revalidate has accepted.                                           *)

Accepted == program \in Program /\ WellFormed(program)

(* The dictionaries hold the position of every id looked up in them. *)
LEMMA InputPositions ==
  ASSUME Accepted, row \in DOMAIN program.nodes, encodedNode.op = "INPUT"
  PROVE  /\ InputPosition(encodedNode.id) = InputColumn(program, row) - 1
         /\ InputColumn(program, row) \in DOMAIN program.input_ids
BY InputSelectorRow DEF Accepted, InputPosition, InputColumn, encodedNode

LEMMA OperandPositions ==
  ASSUME Accepted, row \in DOMAIN program.nodes, encodedNode.op # "INPUT", NEW q \in {1, 2}
  PROVE  /\ NodeIndex(program, encodedNode.inputs[q]) \in DOMAIN program.nodes
         /\ \A j \in DOMAIN program.nodes :
              OperandIs(program, row, q, j) <=> j = NodeIndex(program, encodedNode.inputs[q])
<1>1. program.nodes \in Seq(Node)
  BY DEF Accepted, Program
<1>2. /\ NodeIndex(program, encodedNode.inputs[q]) \in 1 .. (row - 1)
      /\ program.nodes[NodeIndex(program, encodedNode.inputs[q])].id = encodedNode.inputs[q]
  BY OperandIsEarlier DEF Accepted, encodedNode
<1>3. NodeIndex(program, encodedNode.inputs[q]) \in DOMAIN program.nodes
  BY <1>1, <1>2
<1> QED
  BY <1>2, <1>3 DEF OperandIs, Accepted, WellFormed, UniqueIds, encodedNode

(* A position in the matrices of nodes by nodes. *)
LEMMA SquareAddress ==
  ASSUME Accepted, NEW name \in {"adjacency", "lhs_selector", "rhs_selector", "output_selector"},
         NEW i \in Nat \ {0}, NEW j \in DOMAIN program.nodes,
         NEW k \in Nat \ {0}, NEW l \in DOMAIN program.nodes
  PROVE  Address(program, name, i - 1, j - 1) = Address(program, name, k - 1, l - 1)
           <=> i = k /\ j = l
<1>1. program.nodes \in Seq(Node)
  BY DEF Accepted, Program
<1> DEFINE n == Len(program.nodes)
<1>2. n \in Nat /\ j \in 1 .. n /\ l \in 1 .. n
  BY <1>1
<1>3. /\ Address(program, name, i - 1, j - 1) = (i - 1) * n + (j - 1)
      /\ Address(program, name, k - 1, l - 1) = (k - 1) * n + (l - 1)
  BY Columns DEF Address
<1> HIDE DEF n
<1>4. (i - 1) * n + (j - 1) = (k - 1) * n + (l - 1) <=> i = k /\ j = l
  BY <1>2, CellsDiffer
<1> QED
  BY <1>3, <1>4

(* A node marks the cells of its own row, and of its own column of the     *)
(* adjacency matrix, that are to be 1.                                     *)
LEMMA NodeMarksAre ==
  ASSUME Accepted, row \in DOMAIN program.nodes, NEW i \in DOMAIN program.nodes
  PROVE  /\ \A op \in Op :
              <<"opcode", Address(program, "opcode", i - 1, OpcodePosition(op))>> \in NodeMarks
                <=> i = row /\ Opcode(program, row, op) = 1
         /\ \A c \in DOMAIN program.input_ids :
              <<"input_selector", Address(program, "input_selector", i - 1, c - 1)>> \in NodeMarks
                <=> i = row /\ InputSelector(program, row, c) = 1
         /\ \A j \in DOMAIN program.nodes :
              /\ <<"lhs_selector", Address(program, "lhs_selector", i - 1, j - 1)>> \in NodeMarks
                   <=> i = row /\ LhsSelector(program, row, j) = 1
              /\ <<"rhs_selector", Address(program, "rhs_selector", i - 1, j - 1)>> \in NodeMarks
                   <=> i = row /\ RhsSelector(program, row, j) = 1
              /\ <<"adjacency", Address(program, "adjacency", j - 1, i - 1)>> \in NodeMarks
                   <=> i = row /\ Adjacency(program, j, row) = 1
         /\ \A a : <<"output_selector", a>> \notin NodeMarks
<1> DEFINE n == encodedNode
           lhs == NodeIndex(program, n.inputs[1])
           rhs == NodeIndex(program, n.inputs[2])
<1>1. /\ program.nodes \in Seq(Node) /\ program.input_ids \in Seq(NodeId)
      /\ i \in Nat \ {0} /\ row \in Nat \ {0} /\ n \in Node
  <2>1. program.nodes \in Seq(Node) /\ program.input_ids \in Seq(NodeId)
    BY DEF Accepted, Program
  <2> QED
    BY <2>1 DEF encodedNode
<1>2. n.op \in Op /\ n = program.nodes[row]
  BY <1>1 DEF Node, encodedNode
<1>3. /\ \A a : <<"opcode", a>> \in NodeMarks
                  <=> a = Address(program, "opcode", row - 1, OpcodePosition(n.op))
      /\ \A a : <<"input_selector", a>> \in NodeMarks
                  <=> n.op = "INPUT" /\ a = Address(program, "input_selector", row - 1, InputPosition(n.id))
      /\ \A a : <<"lhs_selector", a>> \in NodeMarks
                  <=> n.op # "INPUT" /\ a = Address(program, "lhs_selector", row - 1, lhs - 1)
      /\ \A a : <<"rhs_selector", a>> \in NodeMarks
                  <=> n.op # "INPUT" /\ a = Address(program, "rhs_selector", row - 1, rhs - 1)
      /\ \A a : <<"adjacency", a>> \in NodeMarks
                  <=> n.op # "INPUT" /\ \/ a = Address(program, "adjacency", lhs - 1, row - 1)
                                        \/ a = Address(program, "adjacency", rhs - 1, row - 1)
      /\ \A a : <<"output_selector", a>> \notin NodeMarks
  BY DEF NodeMarks, NodePosition
<1> HIDE DEF n, lhs, rhs
<1>4. ASSUME NEW op \in Op
      PROVE  <<"opcode", Address(program, "opcode", i - 1, OpcodePosition(op))>> \in NodeMarks
               <=> i = row /\ Opcode(program, row, op) = 1
  <2>1. Opcode(program, row, op) = 1 <=> op = n.op
    BY <1>2 DEF Opcode, Bit
  <2>2. /\ Address(program, "opcode", i - 1, OpcodePosition(op)) = (i - 1) * 4 + OpcodePosition(op)
        /\ Address(program, "opcode", row - 1, OpcodePosition(n.op))
             = (row - 1) * 4 + OpcodePosition(n.op)
    BY Columns DEF Address
  <2>3. OpcodePosition(op) \in 0 .. 3 /\ OpcodePosition(n.op) \in 0 .. 3
        /\ (OpcodePosition(op) = OpcodePosition(n.op) => op = n.op)
    BY <1>2, Positions
  <2> DEFINE x == OpcodePosition(op)
             y == OpcodePosition(n.op)
  <2>4. (i - 1) * 4 + x = (row - 1) * 4 + y <=> i = row /\ x = y
    <3>1. x \in 0 .. 3 /\ y \in 0 .. 3 /\ i \in Nat /\ row \in Nat
      BY <1>1, <2>3
    <3> HIDE DEF x, y
    <3> QED
      BY <3>1
  <2>5. x = y <=> op = n.op
    BY <2>3
  <2> HIDE DEF x, y
  <2>6. Address(program, "opcode", i - 1, x) = (i - 1) * 4 + x
        /\ Address(program, "opcode", row - 1, y) = (row - 1) * 4 + y
    BY <2>2 DEF x, y
  <2>7. <<"opcode", Address(program, "opcode", i - 1, x)>> \in NodeMarks
          <=> Address(program, "opcode", i - 1, x) = Address(program, "opcode", row - 1, y)
    BY <1>3 DEF y
  <2> QED
    BY <2>1, <2>4, <2>5, <2>6, <2>7 DEF x
<1>5. ASSUME NEW c \in DOMAIN program.input_ids
      PROVE  <<"input_selector", Address(program, "input_selector", i - 1, c - 1)>> \in NodeMarks
               <=> i = row /\ InputSelector(program, row, c) = 1
  <2>1. CASE n.op # "INPUT"
    BY <1>2, <1>3, <2>1 DEF InputSelector, Bit
  <2>2. CASE n.op = "INPUT"
    <3> DEFINE w == AtLeast1(Len(program.input_ids))
               d == InputColumn(program, row)
    <3>1. d \in DOMAIN program.input_ids /\ InputPosition(n.id) = d - 1
      BY <1>2, <2>2, InputPositions DEF n
    <3>2. InputSelector(program, row, c) = IF c = d THEN 1 ELSE 0
      BY <1>2, <2>2, InputSelectorRow DEF Accepted
    <3>3. w \in Nat /\ c \in 1 .. w /\ d \in 1 .. w
      <4>1. Len(program.input_ids) \in Nat /\ DOMAIN program.input_ids = 1 .. Len(program.input_ids)
        BY <1>1
      <4>2. w = Len(program.input_ids)
        BY <3>1, <4>1 DEF AtLeast1
      <4> HIDE DEF w, d
      <4> QED
        BY <3>1, <4>1, <4>2
    <3>4. /\ Address(program, "input_selector", i - 1, c - 1) = (i - 1) * w + (c - 1)
          /\ Address(program, "input_selector", row - 1, d - 1) = (row - 1) * w + (d - 1)
      BY Columns DEF Address
    <3> HIDE DEF w, d
    <3>5. Address(program, "input_selector", i - 1, c - 1)
            = Address(program, "input_selector", row - 1, d - 1) <=> i = row /\ c = d
      <4>1. (i - 1) * w + (c - 1) = (row - 1) * w + (d - 1) <=> i = row /\ c = d
        <5>1. i \in Nat \ {0} /\ row \in Nat \ {0} /\ w \in Nat /\ c \in 1 .. w /\ d \in 1 .. w
          BY <1>1, <3>3
        <5> QED
          BY <5>1, CellsDiffer
      <4> QED
        BY <3>4, <4>1
    <3> QED
      BY <1>3, <2>2, <3>1, <3>2, <3>5
  <2> QED
    BY <2>1, <2>2
<1>6. ASSUME NEW j \in DOMAIN program.nodes
      PROVE  /\ <<"lhs_selector", Address(program, "lhs_selector", i - 1, j - 1)>> \in NodeMarks
                  <=> i = row /\ LhsSelector(program, row, j) = 1
             /\ <<"rhs_selector", Address(program, "rhs_selector", i - 1, j - 1)>> \in NodeMarks
                  <=> i = row /\ RhsSelector(program, row, j) = 1
             /\ <<"adjacency", Address(program, "adjacency", j - 1, i - 1)>> \in NodeMarks
                  <=> i = row /\ Adjacency(program, j, row) = 1
  <2>1. CASE n.op = "INPUT"
    BY <1>2, <1>3, <2>1 DEF LhsSelector, RhsSelector, Adjacency, Bit
  <2>2. CASE n.op # "INPUT"
    <3>1. /\ lhs \in DOMAIN program.nodes /\ rhs \in DOMAIN program.nodes
          /\ OperandIs(program, row, 1, j) <=> j = lhs
          /\ OperandIs(program, row, 2, j) <=> j = rhs
      BY <1>2, <2>2, OperandPositions DEF n, lhs, rhs
    <3>2. /\ LhsSelector(program, row, j) = 1 <=> j = lhs
          /\ RhsSelector(program, row, j) = 1 <=> j = rhs
          /\ Adjacency(program, j, row) = 1 <=> j = lhs \/ j = rhs
      BY <1>2, <2>2, <3>1 DEF LhsSelector, RhsSelector, Adjacency, Bit
    <3>3. ASSUME NEW name \in {"lhs_selector", "rhs_selector"}, NEW k \in DOMAIN program.nodes
          PROVE  Address(program, name, i - 1, j - 1) = Address(program, name, row - 1, k - 1)
                   <=> i = row /\ j = k
      BY <1>1, SquareAddress
    <3>4. \A k \in DOMAIN program.nodes :
            Address(program, "adjacency", j - 1, i - 1) = Address(program, "adjacency", k - 1, row - 1)
              <=> j = k /\ i = row
      <4>1. \A k \in DOMAIN program.nodes : k \in Nat \ {0}
        BY <1>1
      <4> QED
        BY <4>1, SquareAddress
    <3> QED
      BY <1>3, <2>2, <3>1, <3>2, <3>3, <3>4
  <2> QED
    BY <2>1, <2>2
<1> QED
  BY <1>3, <1>4, <1>5, <1>6

LEMMA OutputMarksAre ==
  ASSUME Accepted, row \in DOMAIN program.output_ids,
         NEW o \in DOMAIN program.output_ids, NEW i \in DOMAIN program.nodes
  PROVE  /\ <<"output_selector", Address(program, "output_selector", o - 1, i - 1)>> \in OutputMarks
              <=> o = row /\ OutputSelector(program, row, i) = 1
         /\ \A name, a : <<name, a>> \in OutputMarks => name = "output_selector"
<1> DEFINE k == NodeIndex(program, program.output_ids[row])
<1>1. program.output_ids \in Seq(NodeId)
  BY DEF Accepted, Program
<1>2. o \in Nat \ {0} /\ row \in Nat \ {0}
  BY <1>1
<1>3. k \in DOMAIN program.nodes
  BY InterfaceNodes DEF Accepted
<1>4. OutputSelector(program, row, i) = IF i = k THEN 1 ELSE 0
  BY OutputSelectorRow DEF Accepted
<1>5. OutputMarks = {<<"output_selector", Address(program, "output_selector", row - 1, k - 1)>>}
  BY DEF OutputMarks, NodePosition
<1> HIDE DEF k
<1>6. Address(program, "output_selector", o - 1, i - 1)
        = Address(program, "output_selector", row - 1, k - 1) <=> o = row /\ i = k
  BY <1>2, <1>3, SquareAddress
<1> QED
  BY <1>4, <1>5, <1>6

-----------------------------------------------------------------------------
(* The inductive invariant of the encoder: the cells of the nodes and      *)
(* outputs behind hold the selectors, all others 0.                        *)

NodeDone(i) == stage # "nodes" \/ i < row

OutputDone(o) == stage = "encoded" \/ (stage = "outputs" /\ o < row)

When(done, entry) == IF done THEN entry ELSE 0

NodeEntries ==
  \A i \in DOMAIN program.nodes :
    /\ \A op \in Op : ProgramScalar("opcode", i - 1, OpcodePosition(op))
                        = When(NodeDone(i), Opcode(program, i, op))
    /\ \A c \in DOMAIN program.input_ids :
         ProgramScalar("input_selector", i - 1, c - 1)
           = When(NodeDone(i), InputSelector(program, i, c))
    /\ \A j \in DOMAIN program.nodes :
         /\ ProgramScalar("lhs_selector", i - 1, j - 1)
              = When(NodeDone(i), LhsSelector(program, i, j))
         /\ ProgramScalar("rhs_selector", i - 1, j - 1)
              = When(NodeDone(i), RhsSelector(program, i, j))
         /\ ProgramScalar("adjacency", j - 1, i - 1)
              = When(NodeDone(i), Adjacency(program, j, i))

OutputEntries ==
  \A o \in DOMAIN program.output_ids : \A i \in DOMAIN program.nodes :
    ProgramScalar("output_selector", o - 1, i - 1)
      = When(OutputDone(o), OutputSelector(program, o, i))

Bits ==
  /\ DOMAIN tensors = TensorNames
  /\ \A name \in TensorNames :
       /\ DOMAIN tensors[name] = Cells(program, name)
       /\ \A k \in DOMAIN tensors[name] : tensors[name][k] \in {0, 1}

EncodeInv ==
  /\ stage \in {"validation", "nodes", "outputs", "encoded"}
  /\ stage = "validation" => row = 1 /\ tensors = <<>>
  /\ stage # "validation" => /\ outcome = "accepted"
                             /\ Bits /\ NodeEntries /\ OutputEntries
  /\ stage = "nodes" => row \in DOMAIN program.nodes
  /\ stage \in {"outputs", "encoded"} => row \in DOMAIN program.output_ids

(* Writing ones leaves the other cells alone. *)
LEMMA Written ==
  ASSUME Bits, UNCHANGED program, NEW M, Write(M)
  PROVE  /\ Bits'
         /\ \A name \in TensorNames : \A r, c : Address(program, name, r, c) \in Cells(program, name) =>
              ProgramScalar(name, r, c)'
                = IF <<name, Address(program, name, r, c)>> \in M THEN 1 ELSE ProgramScalar(name, r, c)
<1>1. tensors' = [name \in TensorNames |->
                   [k \in Cells(program, name) |->
                      IF <<name, k>> \in M THEN 1 ELSE tensors[name][k]]]
  BY DEF Write, Bits
<1>2. \A name \in TensorNames : \A k \in Cells(program, name) :
        tensors'[name][k] = IF <<name, k>> \in M THEN 1 ELSE tensors[name][k]
  BY <1>1
<1>3. Bits'
  <2>1. \A name : Cells(program, name)' = Cells(program, name)
    BY DEF Cells, TensorShape
  <2>2. /\ DOMAIN tensors' = TensorNames
        /\ \A name \in TensorNames : DOMAIN tensors'[name] = Cells(program, name)
    BY <1>1
  <2>3. \A name \in TensorNames : \A k \in Cells(program, name) : tensors[name][k] \in {0, 1}
    BY DEF Bits
  <2>4. \A name \in TensorNames : \A k \in Cells(program, name) : tensors'[name][k] \in {0, 1}
    BY <1>2, <2>3
  <2> QED
    BY <2>1, <2>2, <2>4 DEF Bits
<1>4. ASSUME NEW name \in TensorNames, NEW r, NEW c, Address(program, name, r, c) \in Cells(program, name)
      PROVE  ProgramScalar(name, r, c)'
               = IF <<name, Address(program, name, r, c)>> \in M THEN 1 ELSE ProgramScalar(name, r, c)
  <2>1. Address(program, name, r, c)' = Address(program, name, r, c)
    BY DEF Address, TensorShape
  <2> QED
    BY <1>2, <1>4, <2>1 DEF ProgramScalar
<1> QED
  BY <1>3, <1>4

(* What revalidate has let through, the encoder can look up. *)
LEMMA Lookups ==
  ASSUME Accepted
  PROVE  /\ row \in DOMAIN program.nodes => NodeEncodable
         /\ row \in DOMAIN program.output_ids => Known(program.output_ids[row])
<1>1. ASSUME row \in DOMAIN program.nodes
      PROVE  NodeEncodable
  <2>1. CASE encodedNode.op = "INPUT"
    BY <1>1, <2>1 DEF NodeEncodable, Accepted, WellFormed, InterfaceAgrees, InputNodes, encodedNode
  <2>2. CASE encodedNode.op # "INPUT"
    <3>1. Len(encodedNode.inputs) = 2
      BY <1>1, <2>2 DEF Accepted, WellFormed, Arity, encodedNode
    <3>2. ASSUME NEW k \in {1, 2}
          PROVE  Known(encodedNode.inputs[k])
      BY <1>1, <2>2, OperandPositions DEF Known, OperandIs, encodedNode
    <3> QED
      BY <2>2, <3>1, <3>2 DEF NodeEncodable
  <2> QED
    BY <2>1, <2>2
<1>2. ASSUME row \in DOMAIN program.output_ids
      PROVE  Known(program.output_ids[row])
  BY <1>2 DEF Accepted, WellFormed, InterfaceAgrees, Known
<1> QED
  BY <1>1, <1>2

LEMMA AllocateStep ==
  ASSUME PlainInv, EncodeInv, Allocate
  PROVE  EncodeInv'
<1>1. /\ stage = "validation" /\ outcome = "accepted" /\ stage' = "nodes"
      /\ UNCHANGED <<program, outcome, row>> /\ row = 1
      /\ tensors' = [name \in TensorNames |-> [k \in Cells(program, name) |-> 0]]
  BY DEF Allocate, EncodeInv, vars, Cells
<1>2. Accepted
  BY <1>1 DEF PlainInv, Verdicts, AcceptedIsWellFormed, TypeOK, Accepted
<1>3. Bits'
  BY <1>1 DEF Bits, Cells, TensorShape
<1>4. \A name \in TensorNames : \A r, c : Address(program, name, r, c) \in Cells(program, name) =>
        ProgramScalar(name, r, c)' = 0
  <2>1. ASSUME NEW name \in TensorNames, NEW r, NEW c, Address(program, name, r, c) \in Cells(program, name)
        PROVE  ProgramScalar(name, r, c)' = 0
    <3>1. Address(program, name, r, c)' = Address(program, name, r, c)
      BY <1>1 DEF Address, TensorShape
    <3> QED
      BY <1>1, <2>1, <3>1 DEF ProgramScalar
  <2> QED
    BY <2>1
<1>5. /\ \A i \in DOMAIN program.nodes : ~NodeDone(i)'
      /\ \A o : ~OutputDone(o)'
  <2>1. \A i \in DOMAIN program.nodes : ~(i < 1)
    BY <1>2 DEF Accepted, Program
  <2> QED
    BY <1>1, <2>1 DEF NodeDone, OutputDone
<1>6. NodeEntries' /\ OutputEntries'
  BY <1>1, <1>2, <1>4, <1>5, AddressIsCell
     DEF NodeEntries, OutputEntries, When, Accepted, TensorNames, OpcodePosition
<1>7. 1 \in DOMAIN program.nodes
  BY <1>2, InterfaceNodes DEF Accepted, Program
<1> QED
  BY <1>1, <1>3, <1>6, <1>7 DEF EncodeInv

LEMMA EncodeNodeStep ==
  ASSUME PlainInv, EncodeInv, EncodeNode
  PROVE  EncodeInv'
<1>1. /\ stage = "nodes" /\ row \in DOMAIN program.nodes /\ outcome = "accepted"
      /\ Bits /\ NodeEntries /\ OutputEntries
      /\ UNCHANGED <<program, outcome>>
  BY DEF EncodeNode, EncodeInv, vars
<1>2. Accepted
  BY <1>1 DEF PlainInv, Verdicts, AcceptedIsWellFormed, TypeOK, Accepted
<1>3. /\ Write(NodeMarks)
      /\ \/ row < Len(program.nodes) /\ row' = row + 1 /\ stage' = "nodes"
         \/ ~(row < Len(program.nodes)) /\ row' = 1 /\ stage' = "outputs"
  BY <1>1, <1>2, Lookups DEF EncodeNode
<1>4. /\ DOMAIN program.nodes = 1 .. Len(program.nodes) /\ Len(program.nodes) \in Nat
      /\ DOMAIN program.output_ids = 1 .. Len(program.output_ids) /\ Len(program.output_ids) \in Nat
      /\ Len(program.output_ids) > 0
  BY <1>2, InterfaceNodes DEF Accepted, Program
<1>5. /\ \A i \in DOMAIN program.nodes : NodeDone(i)' <=> NodeDone(i) \/ i = row
      /\ ~NodeDone(row)
      /\ \A o \in DOMAIN program.output_ids : ~OutputDone(o)' /\ ~OutputDone(o)
  BY <1>1, <1>3, <1>4 DEF NodeDone, OutputDone
<1>6. \A name \in TensorNames : \A r, c : Address(program, name, r, c) \in Cells(program, name) =>
        ProgramScalar(name, r, c)'
          = IF <<name, Address(program, name, r, c)>> \in NodeMarks THEN 1 ELSE ProgramScalar(name, r, c)
  BY <1>1, <1>3, Written
<1>7. Bits'
  BY <1>1, <1>3, Written
<1>8. ASSUME NEW i \in DOMAIN program.nodes, NEW op \in Op
      PROVE  ProgramScalar("opcode", i - 1, OpcodePosition(op))'
               = When(NodeDone(i), Opcode(program, i, op))'
  <2>1. Address(program, "opcode", i - 1, OpcodePosition(op)) \in Cells(program, "opcode")
        /\ "opcode" \in TensorNames
    BY <1>2, AddressIsCell DEF Accepted, TensorNames
  <2>2. ProgramScalar("opcode", i - 1, OpcodePosition(op)) = When(NodeDone(i), Opcode(program, i, op))
    BY <1>1 DEF NodeEntries
  <2>3. <<"opcode", Address(program, "opcode", i - 1, OpcodePosition(op))>> \in NodeMarks
          <=> i = row /\ Opcode(program, row, op) = 1
    BY <1>1, <1>2, NodeMarksAre
  <2>4. Opcode(program, i, op) \in {0, 1} /\ Opcode(program, i, op)' = Opcode(program, i, op)
    BY <1>1 DEF Opcode, Bit
  <2> QED
    BY <1>5, <1>6, <2>1, <2>2, <2>3, <2>4 DEF When
<1>9. ASSUME NEW i \in DOMAIN program.nodes, NEW c \in DOMAIN program.input_ids
      PROVE  ProgramScalar("input_selector", i - 1, c - 1)'
               = When(NodeDone(i), InputSelector(program, i, c))'
  <2>1. Address(program, "input_selector", i - 1, c - 1) \in Cells(program, "input_selector")
        /\ "input_selector" \in TensorNames
    BY <1>2, AddressIsCell DEF Accepted, TensorNames
  <2>2. ProgramScalar("input_selector", i - 1, c - 1) = When(NodeDone(i), InputSelector(program, i, c))
    BY <1>1 DEF NodeEntries
  <2>3. <<"input_selector", Address(program, "input_selector", i - 1, c - 1)>> \in NodeMarks
          <=> i = row /\ InputSelector(program, row, c) = 1
    BY <1>1, <1>2, NodeMarksAre
  <2>4. InputSelector(program, i, c) \in {0, 1}
        /\ InputSelector(program, i, c)' = InputSelector(program, i, c)
    BY <1>1 DEF InputSelector, Bit
  <2> QED
    BY <1>5, <1>6, <2>1, <2>2, <2>3, <2>4 DEF When
<1>10. ASSUME NEW i \in DOMAIN program.nodes, NEW j \in DOMAIN program.nodes
       PROVE  /\ ProgramScalar("lhs_selector", i - 1, j - 1)'
                   = When(NodeDone(i), LhsSelector(program, i, j))'
              /\ ProgramScalar("rhs_selector", i - 1, j - 1)'
                   = When(NodeDone(i), RhsSelector(program, i, j))'
              /\ ProgramScalar("adjacency", j - 1, i - 1)'
                   = When(NodeDone(i), Adjacency(program, j, i))'
  <2>1. /\ Address(program, "lhs_selector", i - 1, j - 1) \in Cells(program, "lhs_selector")
        /\ Address(program, "rhs_selector", i - 1, j - 1) \in Cells(program, "rhs_selector")
        /\ Address(program, "adjacency", j - 1, i - 1) \in Cells(program, "adjacency")
        /\ {"lhs_selector", "rhs_selector", "adjacency"} \subseteq TensorNames
    BY <1>2, AddressIsCell DEF Accepted, TensorNames
  <2>2. /\ ProgramScalar("lhs_selector", i - 1, j - 1) = When(NodeDone(i), LhsSelector(program, i, j))
        /\ ProgramScalar("rhs_selector", i - 1, j - 1) = When(NodeDone(i), RhsSelector(program, i, j))
        /\ ProgramScalar("adjacency", j - 1, i - 1) = When(NodeDone(i), Adjacency(program, j, i))
    BY <1>1 DEF NodeEntries
  <2>3. /\ <<"lhs_selector", Address(program, "lhs_selector", i - 1, j - 1)>> \in NodeMarks
             <=> i = row /\ LhsSelector(program, row, j) = 1
        /\ <<"rhs_selector", Address(program, "rhs_selector", i - 1, j - 1)>> \in NodeMarks
             <=> i = row /\ RhsSelector(program, row, j) = 1
        /\ <<"adjacency", Address(program, "adjacency", j - 1, i - 1)>> \in NodeMarks
             <=> i = row /\ Adjacency(program, j, row) = 1
    BY <1>1, <1>2, NodeMarksAre
  <2>4. /\ LhsSelector(program, i, j) \in {0, 1} /\ LhsSelector(program, i, j)' = LhsSelector(program, i, j)
        /\ RhsSelector(program, i, j) \in {0, 1} /\ RhsSelector(program, i, j)' = RhsSelector(program, i, j)
        /\ Adjacency(program, j, i) \in {0, 1} /\ Adjacency(program, j, i)' = Adjacency(program, j, i)
    BY <1>1 DEF LhsSelector, RhsSelector, Adjacency, OperandIs, Bit
  <2> QED
    BY <1>5, <1>6, <2>1, <2>2, <2>3, <2>4 DEF When
<1>11. NodeEntries'
  BY <1>1, <1>8, <1>9, <1>10 DEF NodeEntries
<1>12. OutputEntries'
  <2> SUFFICES ASSUME NEW o \in DOMAIN program.output_ids, NEW i \in DOMAIN program.nodes
               PROVE  ProgramScalar("output_selector", o - 1, i - 1)'
                        = When(OutputDone(o), OutputSelector(program, o, i))'
    BY <1>1 DEF OutputEntries
  <2>1. Address(program, "output_selector", o - 1, i - 1) \in Cells(program, "output_selector")
        /\ "output_selector" \in TensorNames
    BY <1>2, AddressIsCell DEF Accepted, TensorNames
  <2>2. <<"output_selector", Address(program, "output_selector", o - 1, i - 1)>> \notin NodeMarks
    BY <1>1, <1>2, NodeMarksAre
  <2>3. ProgramScalar("output_selector", o - 1, i - 1) = 0
    BY <1>1, <1>5 DEF OutputEntries, When
  <2> QED
    BY <1>5, <1>6, <2>1, <2>2, <2>3 DEF When
<1> QED
  BY <1>1, <1>3, <1>4, <1>7, <1>11, <1>12 DEF EncodeInv

LEMMA EncodeOutputStep ==
  ASSUME PlainInv, EncodeInv, EncodeOutput
  PROVE  EncodeInv'
<1>1. /\ stage = "outputs" /\ row \in DOMAIN program.output_ids /\ outcome = "accepted"
      /\ Bits /\ NodeEntries /\ OutputEntries
      /\ UNCHANGED <<program, outcome>>
  BY DEF EncodeOutput, EncodeInv, vars
<1>2. Accepted
  BY <1>1 DEF PlainInv, Verdicts, AcceptedIsWellFormed, TypeOK, Accepted
<1>3. /\ Write(OutputMarks)
      /\ \/ row < Len(program.output_ids) /\ row' = row + 1 /\ stage' = "outputs"
         \/ ~(row < Len(program.output_ids)) /\ row' = row /\ stage' = "encoded"
  BY <1>1, <1>2, Lookups DEF EncodeOutput
<1>4. /\ DOMAIN program.output_ids = 1 .. Len(program.output_ids) /\ Len(program.output_ids) \in Nat
  BY <1>2 DEF Accepted, Program
<1>5. /\ \A i : NodeDone(i)' /\ NodeDone(i)
      /\ ~OutputDone(row)
      /\ \A o \in DOMAIN program.output_ids : OutputDone(o)' <=> OutputDone(o) \/ o = row
  BY <1>1, <1>3, <1>4 DEF NodeDone, OutputDone
<1>6. \A name \in TensorNames : \A r, c : Address(program, name, r, c) \in Cells(program, name) =>
        ProgramScalar(name, r, c)'
          = IF <<name, Address(program, name, r, c)>> \in OutputMarks THEN 1 ELSE ProgramScalar(name, r, c)
  BY <1>1, <1>3, Written
<1>7. Bits'
  BY <1>1, <1>3, Written
<1>8. \A name, a : <<name, a>> \in OutputMarks => name = "output_selector"
  BY DEF OutputMarks
<1>9. NodeEntries'
  <2>1. ASSUME NEW name \in TensorNames \ {"output_selector"}, NEW r, NEW c,
               Address(program, name, r, c) \in Cells(program, name)
        PROVE  ProgramScalar(name, r, c)' = ProgramScalar(name, r, c)
    BY <1>6, <1>8, <2>1
  <2>2. {"opcode", "input_selector", "lhs_selector", "rhs_selector", "adjacency"}
          \subseteq TensorNames \ {"output_selector"}
    BY DEF TensorNames
  <2>3. /\ \A i, c : InputSelector(program, i, c)' = InputSelector(program, i, c)
        /\ \A i, op : Opcode(program, i, op)' = Opcode(program, i, op)
        /\ \A i, j : /\ LhsSelector(program, i, j)' = LhsSelector(program, i, j)
                     /\ RhsSelector(program, i, j)' = RhsSelector(program, i, j)
                     /\ Adjacency(program, j, i)' = Adjacency(program, j, i)
    BY <1>1 DEF InputSelector, Opcode, LhsSelector, RhsSelector, Adjacency, OperandIs
  <2>4. ASSUME NEW i \in DOMAIN program.nodes
        PROVE  /\ \A op \in Op : ProgramScalar("opcode", i - 1, OpcodePosition(op))'
                                   = Opcode(program, i, op)
               /\ \A c \in DOMAIN program.input_ids :
                    ProgramScalar("input_selector", i - 1, c - 1)' = InputSelector(program, i, c)
    BY <1>1, <1>2, <1>5, <2>1, <2>2, AddressIsCell DEF NodeEntries, When, Accepted
  <2>5. ASSUME NEW i \in DOMAIN program.nodes, NEW j \in DOMAIN program.nodes
        PROVE  /\ ProgramScalar("lhs_selector", i - 1, j - 1)' = LhsSelector(program, i, j)
               /\ ProgramScalar("rhs_selector", i - 1, j - 1)' = RhsSelector(program, i, j)
               /\ ProgramScalar("adjacency", j - 1, i - 1)' = Adjacency(program, j, i)
    BY <1>1, <1>2, <1>5, <2>1, <2>2, AddressIsCell DEF NodeEntries, When, Accepted
  <2> QED
    BY <1>1, <1>5, <2>3, <2>4, <2>5 DEF NodeEntries, When
<1>10. OutputEntries'
  <2> SUFFICES ASSUME NEW o \in DOMAIN program.output_ids, NEW i \in DOMAIN program.nodes
               PROVE  ProgramScalar("output_selector", o - 1, i - 1)'
                        = When(OutputDone(o), OutputSelector(program, o, i))'
    BY <1>1 DEF OutputEntries
  <2>1. Address(program, "output_selector", o - 1, i - 1) \in Cells(program, "output_selector")
        /\ "output_selector" \in TensorNames
    BY <1>2, AddressIsCell DEF Accepted, TensorNames
  <2>2. <<"output_selector", Address(program, "output_selector", o - 1, i - 1)>> \in OutputMarks
          <=> o = row /\ OutputSelector(program, row, i) = 1
    BY <1>1, <1>2, OutputMarksAre
  <2>3. ProgramScalar("output_selector", o - 1, i - 1) = When(OutputDone(o), OutputSelector(program, o, i))
    BY <1>1 DEF OutputEntries
  <2>4. OutputSelector(program, o, i) \in {0, 1}
        /\ OutputSelector(program, o, i)' = OutputSelector(program, o, i)
    BY <1>1 DEF OutputSelector, Bit
  <2> QED
    BY <1>5, <1>6, <2>1, <2>2, <2>3, <2>4 DEF When
<1> QED
  BY <1>1, <1>3, <1>4, <1>7, <1>9, <1>10 DEF EncodeInv

LEMMA EncodeInit == EncoderInit => EncodeInv
BY DEF EncoderInit, EncodeInv

LEMMA EncodeStep == PlainInv /\ EncodeInv /\ [EncoderNext]_encoderVars => EncodeInv'
<1> SUFFICES ASSUME PlainInv, EncodeInv, [EncoderNext]_encoderVars PROVE EncodeInv'
  OBVIOUS
<1>1. CASE Revalidate
  <2>1. pass # "ended" /\ UNCHANGED <<tensors, row, stage>>
    BY <1>1 DEF Revalidate, Next, VisitNode, RejectNode, AcceptInterface, RejectInterface,
                RecordShape, RejectShape, LookupFails, Accept
  <2>2. stage = "validation"
    BY <2>1 DEF PlainInv, PassInv, EncodeInv
  <2> QED
    BY <2>1, <2>2 DEF EncodeInv
<1>2. CASE Allocate
  BY <1>2, AllocateStep
<1>3. CASE EncodeNode
  BY <1>3, EncodeNodeStep
<1>4. CASE EncodeOutput
  BY <1>4, EncodeOutputStep
<1>5. CASE UNCHANGED encoderVars
  <2>1. UNCHANGED <<program, outcome, tensors, row, stage>>
    BY <1>5 DEF encoderVars, vars
  <2>2. Bits' <=> Bits
    BY <2>1 DEF Bits, Cells, TensorShape
  <2>3. NodeEntries' <=> NodeEntries
    BY <2>1 DEF NodeEntries, NodeDone, ProgramScalar, Address, TensorShape, When, InputSelector,
                Opcode, LhsSelector, RhsSelector, Adjacency, OperandIs
  <2>4. OutputEntries' <=> OutputEntries
    BY <2>1 DEF OutputEntries, OutputDone, ProgramScalar, Address, TensorShape, When, OutputSelector
  <2> QED
    BY <2>1, <2>2, <2>3, <2>4 DEF EncodeInv
<1> QED
  BY <1>1, <1>2, <1>3, <1>4, <1>5 DEF EncoderNext

LEMMA EncoderPlainStep == PlainInv /\ [EncoderNext]_encoderVars => PlainInv'
BY PlainStep DEF EncoderNext, Revalidate, Allocate, EncodeNode, EncodeOutput, encoderVars

LEMMA EncoderInvariant == EncoderSpec => [](PlainInv /\ EncodeInv)
<1>1. EncoderInit => PlainInv
  BY PlainInit DEF EncoderInit
<1> QED
  BY <1>1, EncodeInit, EncodeStep, EncoderPlainStep, PTL DEF EncoderSpec

-----------------------------------------------------------------------------
(* Results. *)

(* Type correctness of validation and encoding together: every cell of     *)
(* every array is 0 or 1 at every moment.                                  *)
THEOREM EncoderTypes == EncoderSpec => []EncoderTypeOK
<1>1. PlainInv /\ EncodeInv => EncoderTypeOK
  <2> SUFFICES ASSUME PlainInv, EncodeInv PROVE EncoderTypeOK
    OBVIOUS
  <2>1. TypeOK
    BY DEF PlainInv
  <2>2. row \in Nat \ {0}
    BY <2>1 DEF EncodeInv, TypeOK, Program
  <2>3. \A name \in DOMAIN tensors :
          name \in TensorNames /\ \A k \in DOMAIN tensors[name] : tensors[name][k] \in {0, 1}
    <3>1. CASE stage = "validation"
      <4>1. DOMAIN tensors = {}
        BY <3>1 DEF EncodeInv
      <4> QED
        BY <4>1
    <3>2. CASE stage # "validation"
      BY <3>2 DEF EncodeInv, Bits
    <3> QED
      BY <3>1, <3>2
  <2> QED
    BY <2>1, <2>2, <2>3 DEF EncodeInv, EncoderTypeOK
<1> QED
  BY <1>1, EncoderInvariant, PTL

(* revalidate, in two passes of its own, decides exactly well-formedness:  *)
(* what it accepts is well formed.                                         *)
THEOREM AcceptedPrograms == EncoderSpec => []AcceptedIsWellFormed
<1>1. PlainInv => AcceptedIsWellFormed
  BY DEF PlainInv, Verdicts
<1> QED
  BY <1>1, EncoderInvariant, PTL

(* What revalidate refuses is not well formed. *)
THEOREM RefusedPrograms == EncoderSpec => []RefusedIsIllFormed
<1>1. PlainInv => RefusedIsIllFormed
  BY DEF PlainInv, Verdicts
<1> QED
  BY <1>1, EncoderInvariant, PTL

(* A KeyError escapes revalidate only for a node that names itself. *)
THEOREM EscapingLookups == EncoderSpec => []LookupFailsOnlyOnSelfReference
<1>1. PlainInv => LookupFailsOnlyOnSelfReference
  BY DEF PlainInv, Verdicts
<1> QED
  BY <1>1, EncoderInvariant, PTL

(* encode_program never fails on a program that revalidate has accepted:   *)
(* its dictionaries hold every id it looks up.                             *)
THEOREM AcceptedCanBeEncoded == EncoderSpec => []AcceptedIsEncodable
<1>1. EncodeInv => AcceptedIsEncodable
  BY DEF EncodeInv, AcceptedIsEncodable
<1> QED
  BY <1>1, EncoderInvariant, PTL

(* The arrays hold the selectors that the executor's algebra relies on,    *)
(* for programs of any size: no two cells share an address, every cell is  *)
(* written by its own node or output alone, and an opcode is read from the *)
(* column it is written to.                                                *)
THEOREM EncodingIsCorrect == EncoderSpec => []EntriesAreSelectors
<1>1. EncodeInv => EntriesAreSelectors
  BY TablesAgree
     DEF EncodeInv, EntriesAreSelectors, NodeEntries, OutputEntries, NodeDone, OutputDone, When
<1> QED
  BY <1>1, EncoderInvariant, PTL
=============================================================================

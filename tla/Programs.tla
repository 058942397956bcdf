------------------------------ MODULE Programs ------------------------------
(***************************************************************************)
(* The program graphs of ilc.executable: nodes, programs, and what it      *)
(* means for a program to be well formed.                                  *)
(*                                                                         *)
(* A node id is a value of NodeId; a shape is a tuple of positive          *)
(* dimensions.  ProgramNode.__post_init__ refuses empty ids, unknown       *)
(* operations and shapes without positive dimensions, so a node of the     *)
(* model is an element of Node.  Public attributes (attrs) take part in no *)
(* decision of the code and are left out.                                  *)
(***************************************************************************)
EXTENDS Naturals, Sequences, Functions

CONSTANTS
  NodeId,     \* the ids a program may give to nodes, or refer to
  Shape       \* the tensor shapes in use

ASSUME ShapeAssumption ==
  /\ Shape \subseteq Seq(Nat \ {0})
  /\ <<>> \notin Shape

-----------------------------------------------------------------------------
(* Nodes and programs. *)

Elementwise == {"ADD", "MUL"}

Op == {"INPUT", "GEMM"} \cup Elementwise

Node == [id : NodeId, op : Op, inputs : Seq(NodeId), shape : Shape]

Program == [nodes : Seq(Node), input_ids : Seq(NodeId), output_ids : Seq(NodeId)]

(* (m,k) @ (k,n) is defined, and yields (m,n). *)
GemmConforms(s, t) == Len(s) = 2 /\ Len(t) = 2 /\ s[2] = t[1]

GemmShape(s, t) == <<s[1], t[2]>>

InputNodes(p) == {p.nodes[i].id : i \in {j \in DOMAIN p.nodes : p.nodes[j].op = "INPUT"}}

-----------------------------------------------------------------------------
(* Well-formedness, stated declaratively: what "an immutable program in    *)
(* topological order" means.  The code decides it by two passes over the   *)
(* nodes, which module PlainProgram models step by step.                   *)

UniqueIds(p) ==
  \A i, j \in DOMAIN p.nodes : p.nodes[i].id = p.nodes[j].id => i = j

(* Operand k of node i is node j. *)
OperandIs(p, i, k, j) == p.nodes[j].id = p.nodes[i].inputs[k]

Arity(p) ==
  \A i \in DOMAIN p.nodes :
    Len(p.nodes[i].inputs) = IF p.nodes[i].op = "INPUT" THEN 0 ELSE 2

TopologicalOrder(p) ==
  \A i \in DOMAIN p.nodes : \A k \in DOMAIN p.nodes[i].inputs :
    \E j \in 1 .. (i - 1) : OperandIs(p, i, k, j)

(* The shape rule of an operation for operands of shape s and t. *)
ShapeRule(op, s, t, out) ==
  CASE op \in Elementwise -> s = t /\ out = s
    [] op = "GEMM"        -> GemmConforms(s, t) /\ out = GemmShape(s, t)
    [] OTHER              -> TRUE

ShapesAgree(p) ==
  \A i \in DOMAIN p.nodes : \A l, r \in 1 .. (i - 1) :
    (p.nodes[i].op # "INPUT" /\ OperandIs(p, i, 1, l) /\ OperandIs(p, i, 2, r))
      => ShapeRule(p.nodes[i].op, p.nodes[l].shape, p.nodes[r].shape, p.nodes[i].shape)

InterfaceAgrees(p) ==
  /\ Range(p.input_ids) = InputNodes(p)
  /\ p.output_ids # <<>>
  /\ \A o \in DOMAIN p.output_ids : \E i \in DOMAIN p.nodes : p.nodes[i].id = p.output_ids[o]

WellFormed(p) ==
  /\ UniqueIds(p)
  /\ Arity(p)
  /\ TopologicalOrder(p)
  /\ ShapesAgree(p)
  /\ InterfaceAgrees(p)

(* The position of a node, the code's node_index. *)
NodeIndex(p, id) == CHOOSE i \in DOMAIN p.nodes : p.nodes[i].id = id
=============================================================================

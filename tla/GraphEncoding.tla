---------------------------- MODULE GraphEncoding ----------------------------
(***************************************************************************)
(* The selectors encode_program gives a program: one-hot opcodes, operand, *)
(* input and output selectors, and the adjacency matrix, as entries 0 or 1 *)
(* addressed by row and column.  Nodes, inputs and outputs are addressed   *)
(* by their position in the program, from 1.                               *)
(***************************************************************************)
EXTENDS Programs

(* The tensors of an encoding and their shapes. *)
OpcodeOrder == <<"INPUT", "ADD", "MUL", "GEMM">>

TensorNames == {"opcode", "adjacency", "lhs_selector", "rhs_selector",
                "input_selector", "output_selector"}

AtLeast1(n) == IF n = 0 THEN 1 ELSE n

(* encrypted_graph_tensor_shapes *)
TensorShape(p, name) ==
  LET n == Len(p.nodes)
  IN  CASE name = "opcode"          -> <<n, Len(OpcodeOrder)>>
        [] name = "input_selector"  -> <<n, AtLeast1(Len(p.input_ids))>>
        [] name = "output_selector" -> <<AtLeast1(Len(p.output_ids)), n>>
        [] OTHER                    -> <<n, n>>

-----------------------------------------------------------------------------
(* Their entries. *)

Bit(b) == IF b THEN 1 ELSE 0

Opcode(p, i, op) == Bit(p.nodes[i].op = op)

LhsSelector(p, i, l) == Bit(p.nodes[i].op # "INPUT" /\ OperandIs(p, i, 1, l))

RhsSelector(p, i, r) == Bit(p.nodes[i].op # "INPUT" /\ OperandIs(p, i, 2, r))

(* Entry (source, target): node j feeds node i. *)
Adjacency(p, j, i) ==
  Bit(p.nodes[i].op # "INPUT" /\ \E k \in {1, 2} : OperandIs(p, i, k, j))

(* An id repeated in input_ids is indexed by its last occurrence. *)
InputSelector(p, i, c) ==
  Bit(/\ p.nodes[i].op = "INPUT"
      /\ p.input_ids[c] = p.nodes[i].id
      /\ \A d \in DOMAIN p.input_ids : p.input_ids[d] = p.nodes[i].id => d <= c)

OutputSelector(p, o, j) == Bit(p.output_ids[o] = p.nodes[j].id)

(* The weight of "node i applies op to nodes l and r". *)
PairWeight(p, i, l, r) ==
  (LhsSelector(p, i, l) * RhsSelector(p, i, r)) * (Adjacency(p, l, i) * Adjacency(p, r, i))

CandidateWeight(p, i, l, r, op) == PairWeight(p, i, l, r) * Opcode(p, i, op)
=============================================================================

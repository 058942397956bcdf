-------------------------- MODULE ProgramSemantics --------------------------
(***************************************************************************)
(* What a program computes: the plaintext arithmetic of the executors, and *)
(* the value of each node.  The element-wise and matrix kernels of         *)
(* providers/_helpers.py are kept abstract.  The executors depend          *)
(* only on the laws below, so what is shown of them holds of reals, of     *)
(* integers and of the modular arithmetic the model checker uses.  Of the  *)
(* homomorphic library the same kernels are assumed to act on ciphertexts: *)
(* CKKS rounding is left out, the provider's tolerance absorbs it.         *)
(***************************************************************************)
EXTENDS Programs

CONSTANTS
  Payload(_),         \* Payload(s): the values of a tensor of shape s
  Zero(_),            \* Zero(s): the all-zero tensor of shape s
  Plus(_, _),         \* element-wise sum
  Times(_, _),        \* element-wise product
  MatMul(_, _, _, _)  \* MatMul(s, t, x, y): x of shape s times y of shape t

ASSUME KernelsClosed ==
  /\ \A s \in Shape : \A x, y \in Payload(s) :
       Plus(x, y) \in Payload(s) /\ Times(x, y) \in Payload(s)
  /\ \A s, t \in Shape : GemmConforms(s, t) /\ GemmShape(s, t) \in Shape =>
       \A x \in Payload(s), y \in Payload(t) :
         MatMul(s, t, x, y) \in Payload(GemmShape(s, t))

ASSUME ZeroIsNeutral ==
  \A s \in Shape :
    /\ Zero(s) \in Payload(s)
    /\ \A x \in Payload(s) : Plus(Zero(s), x) = x /\ Plus(x, Zero(s)) = x

(* The value an operation gives for operands x, y of shapes s, t. *)
Apply(op, s, t, x, y) ==
  CASE op = "ADD"  -> Plus(x, y)
    [] op = "MUL"  -> Times(x, y)
    [] op = "GEMM" -> MatMul(s, t, x, y)

(* Multiplying a tensor by a scalar selector, which is 0 or 1. *)
Scaled(w, s, x) == IF w = 0 THEN Zero(s) ELSE x

Max2(m, n) == IF m >= n THEN m ELSE n

-----------------------------------------------------------------------------
CONSTANTS
  Corpus,       \* the programs that may be executed
  Supply(_, _)  \* Supply(id, s): the values a caller may supply for input id

ASSUME CorpusAssumption == \A p \in Corpus : p \in Program /\ WellFormed(p)

ASSUME SupplyAssumption ==
  \A id \in NodeId, s \in Shape : Supply(id, s) \subseteq Payload(s)

ShapeOf(p, id) == p.nodes[NodeIndex(p, id)].shape

(* The inputs a caller may supply to program p. *)
Supplies(p) ==
  {f \in [InputNodes(p) -> UNION {Supply(id, ShapeOf(p, id)) : id \in InputNodes(p)}] :
     \A id \in InputNodes(p) : f[id] \in Supply(id, ShapeOf(p, id))}

(* The value of node i, given the inputs and the values of earlier nodes. *)
NodeValue(p, in, earlier, i) ==
  LET n == p.nodes[i]
      l == NodeIndex(p, n.inputs[1])
      r == NodeIndex(p, n.inputs[2])
  IN  IF n.op = "INPUT" THEN in[n.id]
      ELSE Apply(n.op, p.nodes[l].shape, p.nodes[r].shape, earlier[l], earlier[r])

(* The values of all nodes, given the inputs. *)
NodeValues(p, in) == LET v[i \in DOMAIN p.nodes] == NodeValue(p, in, v, i) IN v
=============================================================================

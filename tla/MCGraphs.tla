------------------------------ MODULE MCGraphs ------------------------------
(***************************************************************************)
(* Small instances for the executors: tensors over the integers modulo     *)
(* Modulus, and all program graphs up to a size.                           *)
(***************************************************************************)
EXTENDS Programs, Integers, SequencesExt

CONSTANT Modulus

Names == <<"a", "b", "c", "d">>

MCNodeId == Range(Names)

-----------------------------------------------------------------------------
(* Arithmetic: a tensor's values in row-major order, modulo Modulus. *)

Size(s) == IF Len(s) = 1 THEN s[1] ELSE s[1] * s[2]

MCPayload(s) == [1 .. Size(s) -> 0 .. (Modulus - 1)]

MCZero(s) == [i \in 1 .. Size(s) |-> 0]

MCPlus(x, y) == [i \in DOMAIN x |-> (x[i] + y[i]) % Modulus]

MCTimes(x, y) == [i \in DOMAIN x |-> (x[i] * y[i]) % Modulus]

(* gemm_plain: entry (row, col) is the sum over k of x[row,k] * y[k,col]. *)
MCMatMul(s, t, x, y) ==
  LET Partial[row \in 0 .. (s[1] - 1), col \in 0 .. (t[2] - 1), k \in 0 .. s[2]] ==
        IF k = 0 THEN 0
        ELSE Partial[row, col, k - 1] + x[row * s[2] + k] * y[(k - 1) * t[2] + col + 1]
  IN  [i \in 1 .. s[1] * t[2] |-> Partial[(i - 1) \div t[2], (i - 1) % t[2], s[2]] % Modulus]

(* Inputs are told apart by their values. *)
MCSupply(id, s) ==
  LET n == CHOOSE i \in DOMAIN Names : Names[i] = id
  IN  {[i \in 1 .. Size(s) |-> (n + i) % Modulus]}

-----------------------------------------------------------------------------
(* Program graphs. *)

(* The nodes that may follow graph g. *)
NextNodes(g) ==
  LET id == Names[Len(g) + 1]
      New(op, ins, s) == [id |-> id, op |-> op, inputs |-> ins, shape |-> s]
      Pairs == (DOMAIN g) \X (DOMAIN g)
      Operands(q) == <<g[q[1]].id, g[q[2]].id>>
  IN  {New("INPUT", <<>>, s) : s \in Shape}
      \cup {New(op, Operands(q), g[q[1]].shape) :
              op \in Elementwise, q \in {r \in Pairs : g[r[1]].shape = g[r[2]].shape}}
      \cup {New("GEMM", Operands(q), GemmShape(g[q[1]].shape, g[q[2]].shape)) :
              q \in {r \in Pairs : /\ GemmConforms(g[r[1]].shape, g[r[2]].shape)
                                   /\ GemmShape(g[r[1]].shape, g[r[2]].shape) \in Shape}}

(* The graphs of n nodes. *)
RECURSIVE GraphsOf(_)
GraphsOf(n) ==
  IF n = 0 THEN {<<>>}
  ELSE UNION {{Append(g, m) : m \in NextNodes(g)} : g \in GraphsOf(n - 1)}

InputSeq(g) == LET ins == SelectSeq(g, LAMBDA m : m.op = "INPUT")
               IN  [i \in DOMAIN ins |-> ins[i].id]

AsProgram(g, ins, outs) == [nodes |-> g, input_ids |-> ins, output_ids |-> outs]

(* The program that returns the last node of g. *)
Returning(g) == AsProgram(g, InputSeq(g), <<g[Len(g)].id>>)

(* Interfaces out of the ordinary: inputs listed backwards or twice, every *)
(* node an output, an output listed twice.                                 *)
Unusual(g) ==
  {AsProgram(g, Reverse(InputSeq(g)), <<g[Len(g)].id, g[1].id, g[Len(g)].id>>),
   AsProgram(g, InputSeq(g) \o <<InputSeq(g)[1]>>, [i \in DOMAIN g |-> g[i].id])}
=============================================================================

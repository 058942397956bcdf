---------------------------- MODULE MCTolerance ----------------------------
(* One output of two values, as a vector or a matrix, or two of one value, *)
(* with every special value and numbers at and beyond the tolerance, which *)
(* is 1 and half the value.  Outputs of one id may differ in shape, also   *)
(* where they have as many values.                                         *)
EXTENDS Tolerance

MCNumber == {Num(0), Num(1), Num(2), Num(4), Num(-2), Inf, NegInf, NaN}

Tensors(shape, n) == {[shape |-> shape, values |-> v] : v \in [1 .. n -> MCNumber]}

MCOutputs ==
  [{"a"} -> Tensors(<<2>>, 2) \cup Tensors(<<2, 1>>, 2) \cup Tensors(<<1>>, 1)]
    \cup [{"a", "b"} -> Tensors(<<1>>, 1)] \cup [{"b"} -> Tensors(<<1>>, 1)]
=============================================================================

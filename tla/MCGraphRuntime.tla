--------------------------- MODULE MCGraphRuntime ---------------------------
(* Two CKKS sessions and a plaintext one, and programs that share an id. *)
EXTENDS GraphRuntime, MCGraphs, TLC

CONSTANTS ckks1, ckks2, plain     \* model values

MCProvider == {ckks1, ckks2, plain}

MCKind == [p \in MCProvider |-> IF p = plain THEN "plaintext" ELSE "ckks"]

MCShape == {<<1>>, <<1, 1>>}

In(id, s) == [id |-> id, op |-> "INPUT", inputs |-> <<>>, shape |-> s]
Add(id, l, r, s) == [id |-> id, op |-> "ADD", inputs |-> <<l, r>>, shape |-> s]
Mul(id, l, r, s) == [id |-> id, op |-> "MUL", inputs |-> <<l, r>>, shape |-> s]

(* Two programs, each in two versions.  Between the versions of p the      *)
(* shape of an input changes, between those of q the inputs and the shape  *)
(* of the output.                                                          *)
FirstP  == Returning(<<In("a", <<1>>), In("b", <<1, 1>>), Add("c", "a", "a", <<1>>)>>)
SecondP == Returning(<<In("a", <<1>>), In("b", <<1>>), Add("c", "a", "b", <<1>>)>>)
FirstQ  == Returning(<<In("a", <<1>>), In("b", <<1, 1>>), Mul("c", "b", "b", <<1, 1>>)>>)
SecondQ == Returning(<<In("a", <<1>>), Mul("c", "a", "a", <<1>>)>>)

MCCallerProgram ==
  {[id |-> "p", graph |-> FirstP], [id |-> "p", graph |-> SecondP],
   [id |-> "q", graph |-> FirstQ], [id |-> "q", graph |-> SecondQ]}

MCReplaceable == {"adjacency", "input_selector"}

MCCorpus == {q.graph : q \in MCCallerProgram}

Symmetry == Permutations({ckks1, ckks2})
=============================================================================

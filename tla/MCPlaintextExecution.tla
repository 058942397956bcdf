------------------------ MODULE MCPlaintextExecution ------------------------
(* PlaintextExecution on all small graphs over a few shapes. *)
EXTENDS PlaintextExecution, MCGraphs

MCShape == {<<2>>, <<1, 2>>, <<2, 1>>, <<1, 1>>}

MCCorpus ==
  {Returning(g) : g \in GraphsOf(2) \cup GraphsOf(3)}
  \cup UNION {Unusual(g) : g \in GraphsOf(1) \cup GraphsOf(2)}
=============================================================================

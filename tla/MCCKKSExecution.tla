-------------------------- MODULE MCCKKSExecution --------------------------
(* CKKSExecution on all small graphs over a few shapes. *)
EXTENDS CKKSExecution, MCGraphs

(* A vector, and the matrices whose products stay among them. *)
MCShape == {<<2>>, <<1, 2>>, <<2, 1>>, <<1, 1>>}

(* Graphs of up to three nodes, and smaller ones with unusual interfaces. *)
MCCorpus ==
  {Returning(g) : g \in GraphsOf(2) \cup GraphsOf(3)}
  \cup UNION {Unusual(g) : g \in GraphsOf(1) \cup GraphsOf(2)}
=============================================================================

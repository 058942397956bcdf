--------------------------- MODULE MCPlainProgram ---------------------------
(* Candidate programs, sound and malformed, for PlainProgram. *)
EXTENDS PlainProgram, SequencesExt

CONSTANTS a, b, c       \* ids

MCIds == {a, b, c}

MCShapes == {<<2>>, <<1, 2>>, <<2, 1>>, <<1, 1>>}

Nodes(ids, operands, someShapes) ==
  [id : ids, op : Op, inputs : operands, shape : someShapes]

FirstNodes  == {[id |-> a, op |-> "INPUT", inputs |-> <<>>, shape |-> s] : s \in MCShapes}

SecondNodes == Nodes({a, b}, {<<>>, <<a>>, <<a, a>>, <<a, b>>, <<c, a>>, <<a, a, a>>},
                     MCShapes \ {<<1, 1>>})

ThirdNodes  == Nodes({b, c}, {<<>>, <<a, b>>, <<b, a>>, <<b, b>>, <<a, c>>},
                     {<<2>>, <<1, 1>>, <<2, 1>>})

(* Programs whose interface may be wrong. *)
ShortGraphs ==
  {<<>>} \cup {<<n>> : n \in FirstNodes \cup Nodes({a}, {<<>>, <<a, a>>}, {<<2>>})}
         \cup {<<m, n>> : m \in FirstNodes, n \in SecondNodes}

ShortCandidates ==
  [nodes : ShortGraphs, input_ids : {<<>>, <<a>>, <<a, b>>, <<a, a>>},
   output_ids : {<<>>, <<a>>, <<b>>, <<b, b>>}]

(* Programs whose interface is right if their nodes are. *)
Interfaced(g) ==
  LET p == [nodes |-> g, input_ids |-> <<>>, output_ids |-> <<g[Len(g)].id>>]
  IN  [p EXCEPT !.input_ids = SetToSeq(InputNodes(p))]

LongCandidates ==
  {Interfaced(<<l, m, n>>) : l \in FirstNodes, m \in SecondNodes, n \in ThirdNodes}

MCCandidates == ShortCandidates \cup LongCandidates
=============================================================================

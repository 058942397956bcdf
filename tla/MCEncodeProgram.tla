-------------------------- MODULE MCEncodeProgram --------------------------
(* EncodeProgram on sound and malformed programs, among them all small     *)
(* graphs over a few shapes.                                               *)
EXTENDS EncodeProgram, MCPlainProgram, MCGraphs

MCPrograms ==
  MCCandidates
  \cup UNION {Unusual(g) \cup {Returning(g)} : g \in GraphsOf(1) \cup GraphsOf(2) \cup GraphsOf(3)}
=============================================================================

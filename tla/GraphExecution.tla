--------------------------- MODULE GraphExecution ---------------------------
(***************************************************************************)
(* What executing a program graph promises, whichever provider does it:    *)
(* the nodes are computed in program order, each from the values of its    *)
(* operands, and the outputs are handed over only when every node has been *)
(* computed; execution may fail, and then hands over nothing.              *)
(***************************************************************************)
EXTENDS ProgramSemantics

VARIABLES
  program,   \* the program executed
  supplied,  \* input id -> value
  computed,  \* the values of the nodes computed so far, in program order
  status,    \* "running", "done" or "failed"
  results    \* the outputs handed over, by output row; <<>> until then

absvars == <<program, supplied, computed, status, results>>

Init ==
  /\ program \in Corpus
  /\ supplied \in Supplies(program)
  /\ computed = <<>>
  /\ status = "running"
  /\ results = <<>>

ComputeNode ==
  /\ status = "running" /\ Len(computed) < Len(program.nodes)
  /\ computed' = Append(computed, NodeValue(program, supplied, computed, Len(computed) + 1))
  /\ UNCHANGED <<program, supplied, status, results>>

Finish ==
  /\ status = "running" /\ Len(computed) = Len(program.nodes)
  /\ status' = "done"
  /\ results' = [o \in DOMAIN program.output_ids |->
                   computed[NodeIndex(program, program.output_ids[o])]]
  /\ UNCHANGED <<program, supplied, computed>>

Fail ==
  /\ status = "running"
  /\ status' = "failed"
  /\ UNCHANGED <<program, supplied, computed, results>>

Next == ComputeNode \/ Finish \/ Fail

Spec == Init /\ [][Next]_absvars
=============================================================================

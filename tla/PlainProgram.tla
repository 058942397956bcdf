---------------------------- MODULE PlainProgram ----------------------------
(***************************************************************************)
(* PlainProgram.revalidate: the two passes that decide whether a program   *)
(* is well formed, one action per loop iteration.  The constructor, every  *)
(* provider's validate_program, encode_program and the graph runtime all   *)
(* go through it.                                                          *)
(***************************************************************************)
EXTENDS Programs

CONSTANT Candidates     \* the programs that may be handed to the constructor

ASSUME CandidatesAssumption == Candidates \subseteq Program

VARIABLES
  program,  \* the program under validation; never changes
  pass,     \* "structure", then "shapes", then "ended"
  at,       \* the node the current pass looks at
  seen,     \* ids met by _validate_structure
  shapes,   \* id -> shape, built by _validate_shapes
  outcome   \* how revalidate ended

vars == <<program, pass, at, seen, shapes, outcome>>

node == program.nodes[at]

TypeOK ==
  /\ program \in Program
  /\ pass \in {"structure", "shapes", "ended"}
  /\ at \in 1 .. (Len(program.nodes) + 1)
  /\ seen \subseteq NodeId
  /\ DOMAIN shapes \subseteq NodeId
  /\ \A id \in DOMAIN shapes : shapes[id] \in Shape
  /\ outcome \in {"running", "accepted", "ProgramValidationError", "KeyError"}

Init ==
  /\ program \in Candidates
  /\ pass = "structure"
  /\ at = 1
  /\ seen = {}
  /\ shapes = [id \in {} |-> <<>>]
  /\ outcome = "running"

Raise(error) ==
  /\ outcome' = error
  /\ pass' = "ended"
  /\ UNCHANGED <<program, at, seen, shapes>>

-----------------------------------------------------------------------------
(* _validate_structure.  The node's own id joins seen before its inputs    *)
(* are looked up.                                                          *)

(* Fault: operands are not looked up. *)
NodeFaultWithoutOperands ==
  \/ node.id \in seen
  \/ node.op = "INPUT" /\ node.inputs # <<>>
  \/ node.op # "INPUT" /\ node.inputs = <<>>

NodeFault ==
  \/ node.id \in seen
  \/ node.op = "INPUT" /\ node.inputs # <<>>
  \/ node.op # "INPUT" /\ node.inputs = <<>>
  \/ \E k \in DOMAIN node.inputs : node.inputs[k] \notin seen \cup {node.id}

VisitNode ==
  /\ pass = "structure" /\ at <= Len(program.nodes)
  /\ ~NodeFault
  /\ seen' = seen \cup {node.id}
  /\ at' = at + 1
  /\ UNCHANGED <<program, pass, shapes, outcome>>

RejectNode ==
  /\ pass = "structure" /\ at <= Len(program.nodes)
  /\ NodeFault
  /\ Raise("ProgramValidationError")

(* Fault: an INPUT node missing from input_ids goes unnoticed. *)
InterfaceFaultOneWay ==
  \/ ~(Range(program.input_ids) \subseteq InputNodes(program))
  \/ program.output_ids = <<>>
  \/ \E o \in DOMAIN program.output_ids : program.output_ids[o] \notin seen

InterfaceFault ==
  \/ Range(program.input_ids) # InputNodes(program)
  \/ program.output_ids = <<>>
  \/ \E o \in DOMAIN program.output_ids : program.output_ids[o] \notin seen

AcceptInterface ==
  /\ pass = "structure" /\ at > Len(program.nodes)
  /\ ~InterfaceFault
  /\ pass' = "shapes"
  /\ at' = 1
  /\ UNCHANGED <<program, seen, shapes, outcome>>

RejectInterface ==
  /\ pass = "structure" /\ at > Len(program.nodes)
  /\ InterfaceFault
  /\ Raise("ProgramValidationError")

-----------------------------------------------------------------------------
(* _validate_shapes.  An operand without a shape yet is a failed           *)
(* dictionary lookup: Python's KeyError, not a ProgramValidationError.     *)

(* Fault: INPUT nodes too are asked for two operands. *)
ArityFaultOfAnyNode == Len(node.inputs) # 2

ArityFault == node.op # "INPUT" /\ Len(node.inputs) # 2

MissingOperand ==
  node.op # "INPUT" /\ ~ArityFault /\ \E k \in {1, 2} : node.inputs[k] \notin DOMAIN shapes

ShapeFault ==
  /\ node.op # "INPUT" /\ ~ArityFault /\ ~MissingOperand
  /\ ~ShapeRule(node.op, shapes[node.inputs[1]], shapes[node.inputs[2]], node.shape)

RecordShape ==
  /\ pass = "shapes" /\ at <= Len(program.nodes)
  /\ ~ArityFault /\ ~MissingOperand /\ ~ShapeFault
  /\ shapes' = [id \in DOMAIN shapes \cup {node.id} |->
                  IF id = node.id THEN node.shape ELSE shapes[id]]
  /\ at' = at + 1
  /\ UNCHANGED <<program, pass, seen, outcome>>

RejectShape ==
  /\ pass = "shapes" /\ at <= Len(program.nodes)
  /\ ArityFault \/ ShapeFault
  /\ Raise("ProgramValidationError")

LookupFails ==
  /\ pass = "shapes" /\ at <= Len(program.nodes)
  /\ MissingOperand
  /\ Raise("KeyError")

Accept ==
  /\ pass = "shapes" /\ at > Len(program.nodes)
  /\ pass' = "ended"
  /\ outcome' = "accepted"
  /\ UNCHANGED <<program, at, seen, shapes>>

Next ==
  \/ VisitNode \/ RejectNode \/ AcceptInterface \/ RejectInterface
  \/ RecordShape \/ RejectShape \/ LookupFails \/ Accept

Spec == Init /\ [][Next]_vars

-----------------------------------------------------------------------------
(* An accepted program is well formed: unique ids, operands defined by     *)
(* earlier nodes, two operands per operation, agreeing shapes, and an      *)
(* interface that names exactly the inputs and known outputs.  Everything  *)
(* downstream (encoding, both executors) relies on this of revalidate.     *)
AcceptedIsWellFormed == outcome = "accepted" => WellFormed(program)

(* revalidate refuses no well-formed program, whichever error it raises.   *)
RefusedIsIllFormed ==
  outcome \in {"ProgramValidationError", "KeyError"} => ~WellFormed(program)

(* The lookup error escapes _validate_shapes only for a node that lists    *)
(* itself as an operand: the structure pass has caught every other         *)
(* undefined operand.                                                      *)
LookupFailsOnlyOnSelfReference ==
  outcome = "KeyError" => \E k \in {1, 2} : node.inputs[k] = node.id

(* A malformed program is refused with ProgramValidationError ("Raised     *)
(* when a program is malformed or unsupported"), never with a bare lookup  *)
(* error.                                                                  *)
MalformedRaisesValidationError == outcome # "KeyError"
=============================================================================

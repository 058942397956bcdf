---------------------------- MODULE EncodeProgram ----------------------------
(***************************************************************************)
(* encode_program: revalidate, then six flat arrays of zeros, in row-major *)
(* order and addressed from 0, into which a loop over the nodes and a loop *)
(* over the outputs write ones.  Module GraphEncoding says what the        *)
(* entries are meant to be; the executor reads them as _program_scalar     *)
(* does.  The encoder looks ids up in dictionaries without a check of its  *)
(* own: it relies on what PlainProgram has let through.                    *)
(***************************************************************************)
EXTENDS PlainProgram, GraphEncoding

VARIABLES
  tensors,  \* name -> flat array
  row,      \* position, from 1, of the node or output being encoded
  stage     \* "validation", "nodes", "outputs", "encoded" or "failed"

encoderVars == <<vars, tensors, row, stage>>

(* The flat address of the entry at 0-based row r and column c. *)
Address(p, name, r, c) == r * TensorShape(p, name)[2] + c

(* What the executor reads at 0-based row r and column c. *)
ProgramScalar(name, r, c) == tensors[name][Address(program, name, r, c)]

encodedNode == program.nodes[row]

(* The dictionaries node_index and input_index, with 0-based positions; a  *)
(* later occurrence of an input id overwrites an earlier one.              *)
NodePosition(id) == NodeIndex(program, id) - 1

(* Fault: the first occurrence of an input id counts. *)
FirstInputPosition(id) ==
  (CHOOSE c \in DOMAIN program.input_ids :
     /\ program.input_ids[c] = id
     /\ \A d \in DOMAIN program.input_ids : program.input_ids[d] = id => c <= d) - 1

InputPosition(id) ==
  (CHOOSE c \in DOMAIN program.input_ids :
     /\ program.input_ids[c] = id
     /\ \A d \in DOMAIN program.input_ids : program.input_ids[d] = id => d <= c) - 1

(* The column an opcode is written to: its place in the encoder's list. *)
OpcodePosition(op) == (CHOOSE k \in DOMAIN OpcodeOrder : OpcodeOrder[k] = op) - 1

(* Fault: the executor's table has two rows the other way round. *)
OpcodeIndexSwapped == [INPUT |-> 0, ADD |-> 2, MUL |-> 1, GEMM |-> 3]

(* The column it is read from: the executor has a table of its own. *)
OpcodeIndex == [INPUT |-> 0, ADD |-> 1, MUL |-> 2, GEMM |-> 3]

(* Fault: the adjacency matrix is written transposed. *)
NodeMarksTransposed ==
  LET r == row - 1
      Mark(name, i, j) == <<name, Address(program, name, i, j)>>
      lhs == NodePosition(encodedNode.inputs[1])
      rhs == NodePosition(encodedNode.inputs[2])
  IN  {Mark("opcode", r, OpcodePosition(encodedNode.op))} \cup
      IF encodedNode.op = "INPUT" THEN {Mark("input_selector", r, InputPosition(encodedNode.id))}
      ELSE {Mark("adjacency", r, lhs), Mark("adjacency", r, rhs),
            Mark("lhs_selector", r, lhs), Mark("rhs_selector", r, rhs)}

(* The ones a node writes: pairs of a tensor's name and a flat address. *)
NodeMarks ==
  LET r == row - 1
      Mark(name, i, j) == <<name, Address(program, name, i, j)>>
      lhs == NodePosition(encodedNode.inputs[1])
      rhs == NodePosition(encodedNode.inputs[2])
  IN  {Mark("opcode", r, OpcodePosition(encodedNode.op))} \cup
      IF encodedNode.op = "INPUT" THEN {Mark("input_selector", r, InputPosition(encodedNode.id))}
      ELSE {Mark("adjacency", lhs, r), Mark("adjacency", rhs, r),
            Mark("lhs_selector", r, lhs), Mark("rhs_selector", r, rhs)}

OutputMarks ==
  {<<"output_selector", Address(program, "output_selector", row - 1,
                                NodePosition(program.output_ids[row]))>>}

(* Fault: the row number is written in place of a one. *)
WriteRow(marks) ==
  tensors' = [name \in TensorNames |->
                [k \in DOMAIN tensors[name] |->
                   IF <<name, k>> \in marks THEN row ELSE tensors[name][k]]]

Write(marks) ==
  tensors' = [name \in TensorNames |->
                [k \in DOMAIN tensors[name] |->
                   IF <<name, k>> \in marks THEN 1 ELSE tensors[name][k]]]

(* The lookups the encoder makes find what they look for. *)
Known(id) == \E i \in DOMAIN program.nodes : program.nodes[i].id = id

NodeEncodable ==
  IF encodedNode.op = "INPUT" THEN encodedNode.id \in Range(program.input_ids)
  ELSE Len(encodedNode.inputs) = 2 /\ \A k \in {1, 2} : Known(encodedNode.inputs[k])

EncoderInit ==
  /\ Init
  /\ tensors = <<>>
  /\ row = 1
  /\ stage = "validation"

Revalidate ==
  /\ Next
  /\ UNCHANGED <<tensors, row, stage>>

Allocate ==
  /\ stage = "validation" /\ outcome = "accepted"
  /\ tensors' = [name \in TensorNames |->
                  [k \in 0 .. (TensorShape(program, name)[1] * TensorShape(program, name)[2] - 1)
                     |-> 0]]
  /\ stage' = "nodes"
  /\ UNCHANGED <<vars, row>>

(* A lookup that fails raises, and nothing is returned. *)
EncodeNode ==
  /\ stage = "nodes"
  /\ IF NodeEncodable
     THEN /\ Write(NodeMarks)
          /\ IF row < Len(program.nodes) THEN row' = row + 1 /\ UNCHANGED stage
             ELSE row' = 1 /\ stage' = "outputs"
     ELSE stage' = "failed" /\ UNCHANGED <<tensors, row>>
  /\ UNCHANGED vars

EncodeOutput ==
  /\ stage = "outputs"
  /\ IF Known(program.output_ids[row])
     THEN /\ Write(OutputMarks)
          /\ IF row < Len(program.output_ids) THEN row' = row + 1 /\ UNCHANGED stage
             ELSE stage' = "encoded" /\ UNCHANGED row
     ELSE stage' = "failed" /\ UNCHANGED <<tensors, row>>
  /\ UNCHANGED vars

EncoderNext == Revalidate \/ Allocate \/ EncodeNode \/ EncodeOutput

EncoderSpec == EncoderInit /\ [][EncoderNext]_encoderVars

-----------------------------------------------------------------------------
EncoderTypeOK ==
  /\ TypeOK
  /\ row \in Nat \ {0}
  /\ stage \in {"validation", "nodes", "outputs", "encoded", "failed"}
  /\ \A name \in DOMAIN tensors :
       name \in TensorNames /\ \A k \in DOMAIN tensors[name] : tensors[name][k] \in {0, 1}

(* What revalidate accepts can be encoded: no id the encoder looks up is   *)
(* missing from its dictionaries, so a program is refused before anything  *)
(* is encrypted or not at all.                                             *)
AcceptedIsEncodable == stage # "failed"

(* The arrays encode_program fills, read back the way the executor reads   *)
(* them, hold the selectors of the program: writer and reader agree on row *)
(* and column, on offsets from 0, on the column of each opcode, for which  *)
(* they have two tables, and on repeated input ids.                        *)
EntriesAreSelectors ==
  stage = "encoded" =>
    \A i \in DOMAIN program.nodes :
      /\ \A op \in Op : ProgramScalar("opcode", i - 1, OpcodeIndex[op]) = Opcode(program, i, op)
      /\ \A c \in DOMAIN program.input_ids :
           ProgramScalar("input_selector", i - 1, c - 1) = InputSelector(program, i, c)
      /\ \A o \in DOMAIN program.output_ids :
           ProgramScalar("output_selector", o - 1, i - 1) = OutputSelector(program, o, i)
      /\ \A j \in DOMAIN program.nodes :
           /\ ProgramScalar("lhs_selector", i - 1, j - 1) = LhsSelector(program, i, j)
           /\ ProgramScalar("rhs_selector", i - 1, j - 1) = RhsSelector(program, i, j)
           /\ ProgramScalar("adjacency", j - 1, i - 1) = Adjacency(program, j, i)
=============================================================================

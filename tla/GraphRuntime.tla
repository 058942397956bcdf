---------------------------- MODULE GraphRuntime ----------------------------
(***************************************************************************)
(* ExecutableGraphRuntime and the provider sessions around it: a caller    *)
(* with several provider objects encrypts tensors and programs, operates   *)
(* on tensors, executes encrypted programs and decrypts, in any order and  *)
(* with any mixture of what it holds.  Every provider object has a session *)
(* of its own; the id of the session stands for the object and its keys.   *)
(*                                                                         *)
(* A call is one step.  What happens inside an execution is the subject of *)
(* PlaintextExecution and CKKSExecution; here an execution that starts     *)
(* yields the values of the program graph, or fails.                       *)
(***************************************************************************)
EXTENDS ProgramSemantics, GraphEncoding, FiniteSets

CONSTANTS
  Provider,       \* provider objects, and the ids of their sessions
  Kind,           \* Kind[p]: the provider_id of p
  CallerProgram,  \* the programs the caller has: an id and a graph
  MaxTensors,     \* the number of tensors the caller keeps
  Replaceable     \* the tensors of an artifact the caller may replace

ASSUME KindAssumption == Kind \in [Provider -> {"plaintext", "ckks"}]

ASSUME ReplaceableAssumption == Replaceable \subseteq TensorNames

ASSUME MaxTensorsAssumption == MaxTensors \in Nat

ASSUME CallerProgramAssumption ==
  \A q \in CallerProgram : DOMAIN q = {"id", "graph"} /\ q.graph \in Corpus

VARIABLES
  tensors,   \* the encrypted tensors the caller holds
  artifact,  \* the encrypted program the caller holds, or NoArtifact
  report     \* how the last call ended, or Idle when the caller has seen it

vars == <<tensors, artifact, report>>

NoError == "none"

Ok(call, p, result) == [call |-> call, provider |-> p, error |-> NoError, result |-> result]

Raised(call, p, e) == [call |-> call, provider |-> p, error |-> e]

RaisedBy(call, p, e, args) == [call |-> call, provider |-> p, error |-> e, args |-> args]

Idle == [call |-> "none", error |-> NoError]

-----------------------------------------------------------------------------
(* Encrypted tensors.  origins are the sessions whose ciphertexts went     *)
(* into a tensor; the code does not keep them, its session_id stands in.   *)

Tensor(p, s, x, from) ==
  [provider_id |-> Kind[p], session_id |-> p, shape |-> s, payload |-> x, origins |-> from]

(* Fault: the session is not compared. *)
TensorErrorByKind(p, t) ==
  IF t.provider_id # Kind[p] THEN "ProviderCompatibilityError"
  ELSE NoError

(* validate_tensor *)
TensorError(p, t) ==
  IF t.provider_id # Kind[p] THEN "ProviderCompatibilityError"
  ELSE IF t.session_id # p THEN "SessionCompatibilityError"
  ELSE NoError

(* validate_pair, and gemm_shape *)
PairError(p, op, l, r) ==
  IF TensorError(p, l) # NoError THEN TensorError(p, l)
  ELSE IF TensorError(p, r) # NoError THEN TensorError(p, r)
  ELSE IF op \in Elementwise /\ l.shape # r.shape THEN "ShapeMismatchError"
  ELSE IF op = "GEMM" /\ ~GemmConforms(l.shape, r.shape) THEN "ShapeMismatchError"
  ELSE NoError

ResultShape(op, s, t) == IF op = "GEMM" THEN GemmShape(s, t) ELSE s

(* What may go wrong whatever the arguments: a call into the library, and, *)
(* where something is multiplied, the depth budget.  CKKSExecution says    *)
(* when the latter does.                                                   *)
LibraryError(p) == IF Kind[p] = "ckks" THEN {"ProviderConfigurationError"} ELSE {}

BudgetError(p) == IF Kind[p] = "ckks" THEN {"DepthBudgetError"} ELSE {}

Mishap(p) == LibraryError(p) \cup BudgetError(p)

(* The caller keeps some of its tensors and these new ones. *)
KeepWith(new) ==
  \E kept \in SUBSET tensors :
    Cardinality(kept) + Cardinality(new) <= MaxTensors /\ tensors' = kept \cup new

EncryptTensor(p) ==
  /\ UNCHANGED artifact
  /\ \/ /\ \E s \in Shape : \E x \in Payload(s) : KeepWith({Tensor(p, s, x, {p})})
        /\ report' = Ok("encrypt_tensor", p, <<>>)
     \/ \E e \in LibraryError(p) :
          report' = Raised("encrypt_tensor", p, e) /\ UNCHANGED tensors

Operate(p, op, l, r) ==
  /\ UNCHANGED artifact
  /\ \/ /\ PairError(p, op, l, r) = NoError
        /\ ResultShape(op, l.shape, r.shape) \in Shape
        /\ KeepWith({Tensor(p, ResultShape(op, l.shape, r.shape),
                            Apply(op, l.shape, r.shape, l.payload, r.payload),
                            l.origins \cup r.origins)})
        /\ report' = Ok("operate", p, <<>>)
     \/ \E e \in IF PairError(p, op, l, r) # NoError THEN {PairError(p, op, l, r)}
                 ELSE IF op = "ADD" THEN LibraryError(p) ELSE Mishap(p) :
          report' = Raised("operate", p, e) /\ UNCHANGED tensors

Decrypt(p, t) ==
  /\ UNCHANGED <<tensors, artifact>>
  /\ \/ TensorError(p, t) = NoError /\ report' = Ok("decrypt_tensor", p, t)
     \/ \E e \in IF TensorError(p, t) # NoError THEN {TensorError(p, t)}
                 ELSE LibraryError(p) :
          report' = Raised("decrypt_tensor", p, e)

-----------------------------------------------------------------------------
(* Encrypted programs.  graph is where the public metadata comes from: ids *)
(* and shapes of the nodes, inputs and outputs.  Of each of the encoding's *)
(* tensors the model keeps the session that encrypted it and the graph it  *)
(* encodes.  The plaintext provider's artifact holds the program itself.   *)

NoArtifact == [provider_id |-> "none"]

PartOf(p, g) == [provider_id |-> Kind[p], session_id |-> p, graph |-> g]

(* Fault: one of the tensors is left out. *)
EncryptedWithoutOutputs(p, q) ==
  [provider_id |-> Kind[p], session_id |-> p, program_id |-> q.id, graph |-> q.graph,
   parts |-> [name \in IF Kind[p] = "ckks" THEN TensorNames \ {"output_selector"} ELSE {}
                |-> PartOf(p, q.graph)]]

Encrypted(p, q) ==
  [provider_id |-> Kind[p], session_id |-> p, program_id |-> q.id, graph |-> q.graph,
   parts |-> [name \in IF Kind[p] = "ckks" THEN TensorNames ELSE {} |-> PartOf(p, q.graph)]]

(* As encrypt_program made it: no part comes from elsewhere. *)
Intact(a) == \A name \in DOMAIN a.parts :
  a.parts[name].session_id = a.session_id /\ a.parts[name].graph = a.graph

EncryptProgram(p, q) ==
  /\ UNCHANGED tensors
  /\ \/ artifact' = Encrypted(p, q) /\ report' = Ok("encrypt_program", p, <<>>)
     \/ \E e \in Mishap(p) : report' = Raised("encrypt_program", p, e) /\ UNCHANGED artifact

(* The dataclass is public: a caller may put a part of another artifact,   *)
(* or of another session, in the place of one.                             *)
Reassemble(p, g) ==
  /\ artifact # NoArtifact /\ Intact(artifact)
  /\ \E name \in DOMAIN artifact.parts \cap Replaceable :
       artifact' = [artifact EXCEPT !.parts[name] = PartOf(p, g)]
  /\ report' = Ok("reassemble", p, <<>>)
  /\ UNCHANGED tensors

(* validate_encrypted_graph_program; what it checks of the public metadata *)
(* holds of the metadata of every graph.                                   *)
ArtifactFits(p, a) ==
  /\ a.provider_id = Kind[p]
  /\ a.session_id = p
  /\ \A name \in TensorNames :
       /\ a.parts[name].provider_id = Kind[p]
       /\ a.parts[name].session_id = p
       /\ TensorShape(a.parts[name].graph, name) = TensorShape(a.graph, name)

(* CKKS: the checks before the executor starts. *)
CKKSFaults(p, a, x) ==
  IF ~ArtifactFits(p, a) \/ DOMAIN x # InputNodes(a.graph) THEN {"ProviderConfigurationError"}
  ELSE ({TensorError(p, x[id]) : id \in DOMAIN x} \ {NoError})
       \cup {"ProviderConfigurationError" : id \in {i \in DOMAIN x : x[i].shape # ShapeOf(a.graph, i)}}

(* Plaintext: the graph as the interpreter meets it, with the inputs it is *)
(* given in the place of those the graph declares.                         *)
AsSupplied(g, x) ==
  [g EXCEPT !.nodes = [i \in DOMAIN g.nodes |->
     IF g.nodes[i].op = "INPUT" /\ g.nodes[i].id \in DOMAIN x
     THEN [g.nodes[i] EXCEPT !.shape = x[g.nodes[i].id].shape] ELSE g.nodes[i]]]

(* The lookup of an input that is not there fails. *)
NotSupplied(g, x, id) == id \in InputNodes(g) \ DOMAIN x

(* Fault: the operands of add and mul are not compared. *)
NodeErrorUncompared(g, x, n) ==
  LET Shp(k) == ShapeOf(AsSupplied(g, x), n.inputs[k])
  IN  IF n.op = "INPUT" THEN NoError
      ELSE IF \E k \in {1, 2} : NotSupplied(g, x, n.inputs[k]) THEN "KeyError"
      ELSE IF n.op = "GEMM" /\ ~GemmConforms(Shp(1), Shp(2)) THEN "ShapeMismatchError"
      ELSE IF ResultShape(n.op, Shp(1), Shp(2)) # n.shape THEN "ProgramValidationError"
      ELSE NoError

NodeError(g, x, n) ==
  LET Shp(k) == ShapeOf(AsSupplied(g, x), n.inputs[k])
  IN  IF n.op = "INPUT" THEN NoError
      ELSE IF \E k \in {1, 2} : NotSupplied(g, x, n.inputs[k]) THEN "KeyError"
      ELSE IF n.op \in Elementwise /\ Shp(1) # Shp(2) THEN "ShapeMismatchError"
      ELSE IF n.op = "GEMM" /\ ~GemmConforms(Shp(1), Shp(2)) THEN "ShapeMismatchError"
      ELSE IF ResultShape(n.op, Shp(1), Shp(2)) # n.shape THEN "ProgramValidationError"
      ELSE NoError

(* What the interpreter stops at: the first node in error, or the outputs. *)
InterpreterFaults(g, x) ==
  LET wrong == {i \in DOMAIN g.nodes : NodeError(g, x, g.nodes[i]) # NoError}
      first == {i \in wrong : \A j \in wrong : i <= j}
  IN  IF wrong # {} THEN {NodeError(g, x, g.nodes[i]) : i \in first}
      ELSE {"KeyError" : id \in {i \in Range(g.output_ids) : NotSupplied(g, x, i)}}

PlaintextFaults(p, a, x) ==
  IF a.provider_id # Kind[p] \/ a.session_id # p THEN {"ProgramValidationError"}
  ELSE IF \E id \in DOMAIN x : TensorError(p, x[id]) # NoError
  THEN {TensorError(p, x[id]) : id \in DOMAIN x} \ {NoError}
  ELSE InterpreterFaults(a.graph, x)

ProviderFaults(p, a, x) ==
  IF Kind[p] = "ckks" THEN CKKSFaults(p, a, x) ELSE PlaintextFaults(p, a, x)

Payloads(x) == [id \in DOMAIN x |-> x[id].payload]

(* The outputs of an execution that starts and ends.  Of an artifact that  *)
(* has been tampered with only the shapes of the outputs are known.        *)
Outputs(p, a, x) ==
  LET g       == AsSupplied(a.graph, x)
      ids     == Range(g.output_ids)
      values  == NodeValues(g, Payloads(x))
      parts   == {a.parts[name].session_id : name \in DOMAIN a.parts}
      origins == (UNION {x[id].origins : id \in DOMAIN x}) \cup parts
      Bundle(y) == [id \in ids |-> Tensor(p, ShapeOf(g, id), y[id], origins)]
  IN  IF Intact(a) THEN {Bundle([id \in ids |-> values[NodeIndex(g, id)]])}
      ELSE {Bundle(y) : y \in {f \in [ids -> UNION {Payload(ShapeOf(g, id)) : id \in ids}] :
                                 \A id \in ids : f[id] \in Payload(ShapeOf(g, id))}}

-----------------------------------------------------------------------------
(* ExecutableGraphRuntime.execute. *)

(* Fault: the artifact is not compared with the program. *)
ArtifactIsForAny(p, q, a) == a.provider_id = Kind[p] /\ a.session_id = p

(* _validate_encrypted_program *)
ArtifactIsFor(p, q, a) ==
  a.provider_id = Kind[p] /\ a.session_id = p /\ a.program_id = q.id

(* Fault: inputs may be missing. *)
InputsAreAmong(p, q, x) ==
  /\ DOMAIN x \subseteq InputNodes(q.graph)
  /\ \A id \in DOMAIN x : TensorError(p, x[id]) = NoError /\ x[id].shape = ShapeOf(q.graph, id)

(* _validate_inputs *)
InputsAreFor(p, q, x) ==
  /\ DOMAIN x = InputNodes(q.graph)
  /\ \A id \in DOMAIN x : TensorError(p, x[id]) = NoError /\ x[id].shape = ShapeOf(q.graph, id)

(* _validate_outputs; the provider has just made them in its session. *)
OutputsAreOf(p, q, out) ==
  /\ DOMAIN out = Range(q.graph.output_ids)
  /\ \A id \in DOMAIN out : TensorError(p, out[id]) = NoError
                            /\ out[id].shape = ShapeOf(q.graph, id)

(* The inputs the caller ought to give.  A report notes whether it did. *)
Fit(p, q, x) ==
  /\ DOMAIN x = InputNodes(q.graph)
  /\ \A id \in DOMAIN x : x[id].session_id = p /\ x[id].shape = ShapeOf(q.graph, id)

(* How execute(p, q, artifact, x) may end: the set of its reports.         *)
(* validate_program, when asked for, may raise before anything else.       *)
Endings(p, q, a, x) ==
  LET Raise(e) == RaisedBy("execute", p, e, [program |-> q, fit |-> Fit(p, q, x)])
      Return(out) == IF OutputsAreOf(p, q, out)
                     THEN Ok("execute", p, [program |-> q, inputs |-> Payloads(x), outputs |-> out])
                     ELSE Raise("ProgramValidationError")
  IN  {Raise(e) : e \in BudgetError(p)} \cup
      IF ~ArtifactIsFor(p, q, a) \/ ~InputsAreFor(p, q, x) THEN {Raise("ProgramValidationError")}
      ELSE IF ProviderFaults(p, a, x) # {} THEN {Raise(e) : e \in ProviderFaults(p, a, x)}
      ELSE {Raise(e) : e \in LibraryError(p)} \cup {Return(out) : out \in Outputs(p, a, x)}

Supplied == UNION {[ids -> tensors] : ids \in SUBSET UNION {InputNodes(q.graph) : q \in CallerProgram}}

Execute(p, q, x) ==
  /\ artifact # NoArtifact
  /\ report' \in Endings(p, q, artifact, x)
  /\ UNCHANGED <<tensors, artifact>>

(* The caller takes an output out of the bundle. *)
TakeOutput ==
  /\ report.call = "execute" /\ report.error = NoError
  /\ \E id \in DOMAIN report.result.outputs : KeepWith({report.result.outputs[id]})
  /\ report' = Idle
  /\ UNCHANGED artifact

Proceed ==
  /\ report # Idle
  /\ report' = Idle
  /\ UNCHANGED <<tensors, artifact>>

-----------------------------------------------------------------------------
Init ==
  /\ tensors = {}
  /\ artifact = NoArtifact
  /\ report = Idle

Next ==
  \/ report = Idle /\ \E p \in Provider :
       \/ EncryptTensor(p)
       \/ \E op \in Elementwise \cup {"GEMM"} : \E l, r \in tensors : Operate(p, op, l, r)
       \/ \E t \in tensors : Decrypt(p, t)
       \/ \E q \in CallerProgram : EncryptProgram(p, q) \/ Reassemble(p, q.graph)
       \/ \E q \in CallerProgram : \E x \in Supplied : Execute(p, q, x)
  \/ TakeOutput
  \/ Proceed

Spec == Init /\ [][Next]_vars

-----------------------------------------------------------------------------
(* A session id of the caller's tensors names a session of their provider, *)
(* their values have their shape, and an encrypted program is complete.    *)
TypeOK ==
  /\ Cardinality(tensors) <= MaxTensors
  /\ artifact # NoArtifact =>
       /\ artifact.session_id \in Provider /\ artifact.provider_id = Kind[artifact.session_id]
       /\ DOMAIN artifact.parts = IF artifact.provider_id = "ckks" THEN TensorNames ELSE {}
  /\ \A t \in tensors :
       /\ t.session_id \in Provider /\ t.provider_id = Kind[t.session_id]
       /\ t.shape \in Shape /\ t.payload \in Payload(t.shape)

(* Sessions stay separate.  Whatever the caller mixes, tensors of several  *)
(* sessions, an artifact pieced together from two, outputs of earlier      *)
(* executions: no ciphertext of one session ever reaches the library under *)
(* the keys of another, so every tensor is what its session_id says it is, *)
(* and a provider decrypts what was encrypted in its own session only.     *)
SessionsStaySeparate ==
  /\ \A t \in tensors : t.origins = {t.session_id}
  /\ report.error = NoError =>
       /\ report.call = "decrypt_tensor" => report.result.origins = {report.provider}
       /\ report.call = "execute" =>
            \A id \in DOMAIN report.result.outputs :
              report.result.outputs[id].origins = {report.provider}

(* The ids of the nodes that operations and outputs of a program read. *)
Reads(g) == (UNION {Range(g.nodes[i].inputs) : i \in DOMAIN g.nodes}) \cup Range(g.output_ids)

(* A program that these inputs are enough for, and fit. *)
Computable(g, x) ==
  /\ ShapesAgree(g)
  /\ \A id \in InputNodes(g) \cap Reads(g) : id \in DOMAIN x /\ x[id] \in Payload(ShapeOf(g, id))

(* What a report says.  An artifact is matched to the program by its id    *)
(* only, so a successful execution of an artifact no one has tampered with *)
(* gives the values of a program the caller knows by that id, in the       *)
(* shapes of the program it was executed as, and never a value its         *)
(* operations are not defined for.  The plaintext provider computes that   *)
(* program on the inputs as they come: they may have other shapes than it  *)
(* declares, and those it does not read may be missing.  Where ids tell    *)
(* programs apart that is the program itself.                              *)
ReportIsMeant ==
  report.call = "execute" /\ report.error = NoError /\ Intact(artifact) =>
    LET q   == report.result.program
        in  == report.result.inputs
        out == report.result.outputs
        Run(r) == AsSupplied(r.graph, [id \in DOMAIN in |-> [shape |-> ShapeOf(q.graph, id)]])
    IN  /\ OutputsAreOf(report.provider, q, out)
        /\ \E r \in {s \in CallerProgram : s.id = q.id /\ Computable(Run(s), in)} :
             /\ Range(r.graph.output_ids) = DOMAIN out
             /\ \A id \in DOMAIN out :
                  out[id].payload = NodeValues(Run(r), in)[NodeIndex(r.graph, id)]

(* An execution of an artifact that encrypt_program of this very provider  *)
(* made of this very program is stopped by the runtime's checks of the     *)
(* inputs, by the depth budget or by the library, and by nothing else: the *)
(* checks inside the provider and of its outputs are never the first.      *)
OwnProgramErrors ==
  /\ report.call = "execute" /\ report.error # NoError
  /\ Intact(artifact) /\ artifact.session_id = report.provider
  /\ artifact.program_id = report.args.program.id /\ artifact.graph = report.args.program.graph
  => \/ report.error \in Mishap(report.provider)
     \/ report.error = "ProgramValidationError" /\ ~report.args.fit
=============================================================================

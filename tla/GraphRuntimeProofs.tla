------------------------- MODULE GraphRuntimeProofs -------------------------
(***************************************************************************)
(* The graph runtime, for any number of providers of both kinds, any       *)
(* programs, any tensor arithmetic, and whatever the caller mixes: that    *)
(* sessions stay separate, and what a report of success or failure means.  *)
(* At the end, why an execution may be a single step there.                *)
(***************************************************************************)
EXTENDS GraphRuntime, ProgramFacts, FiniteSetTheorems, SequenceTheorems

(* Of an execution node by node. *)
VARIABLES program, supplied, computed, status, results

(* The inductive invariant: what the caller may take from a report belongs *)
(* to the session that made it, and an artifact has all its parts, so that *)
(* the check of the parts leaves none out.                                 *)
Labelled(t) == t.origins = {t.session_id}

Made(t, p) == t.session_id = p /\ t.origins = {p}

ArtifactComplete ==
  artifact # NoArtifact =>
    /\ artifact = [provider_id |-> artifact.provider_id, session_id |-> artifact.session_id,
                   program_id |-> artifact.program_id, graph |-> artifact.graph,
                   parts |-> artifact.parts]
    /\ DOMAIN artifact.parts = IF artifact.provider_id = "ckks" THEN TensorNames ELSE {}

ReportSeparate ==
  report.error = NoError =>
    /\ report.call = "decrypt_tensor" => report.result.origins = {report.provider}
    /\ report.call = "execute" =>
         \A id \in DOMAIN report.result.outputs : Made(report.result.outputs[id], report.provider)

Separate ==
  /\ \A t \in tensors : Labelled(t)
  /\ ArtifactComplete
  /\ ReportSeparate

-----------------------------------------------------------------------------
(* A tensor that passes validate_tensor is of the provider's session. *)
LEMMA TensorOfSession ==
  ASSUME NEW p, NEW t, TensorError(p, t) = NoError
  PROVE  t.session_id = p
BY DEF TensorError, NoError

LEMMA PairOfSession ==
  ASSUME NEW p, NEW op, NEW l, NEW r, PairError(p, op, l, r) = NoError
  PROVE  l.session_id = p /\ r.session_id = p
<1>1. TensorError(p, l) = NoError /\ TensorError(p, r) = NoError
  BY DEF PairError, NoError
<1> QED
  BY <1>1, TensorOfSession

(* Errors are not mistaken for success. *)
LEMMA MishapIsError ==
  ASSUME NEW p
  PROVE  NoError \notin LibraryError(p) /\ NoError \notin BudgetError(p) /\ NoError \notin Mishap(p)
BY DEF Mishap, LibraryError, BudgetError, NoError

LEMMA FaultIsError ==
  ASSUME NEW p, NEW a, NEW x
  PROVE  NoError \notin ProviderFaults(p, a, x)
<1>1. NoError \notin CKKSFaults(p, a, x)
  BY DEF CKKSFaults, NoError
<1>2. NoError \notin InterpreterFaults(a.graph, x)
  BY DEF InterpreterFaults, NoError
<1>3. NoError \notin PlaintextFaults(p, a, x)
  BY <1>2 DEF PlaintextFaults, NoError
<1> QED
  BY <1>1, <1>3 DEF ProviderFaults

(* A new tensor of the session keeps the caller's tensors labelled. *)
LEMMA KeepLabelled ==
  ASSUME \A t \in tensors : Labelled(t), NEW new, Labelled(new), KeepWith({new})
  PROVE  \A t \in tensors' : Labelled(t)
BY DEF KeepWith

(* What an execution yields is made of the inputs and of the parts of the  *)
(* artifact, all of them of the session: inputs because the runtime checks *)
(* them, parts because the CKKS provider does.                             *)
LEMMA OutputsMade ==
  ASSUME \A t \in tensors : Labelled(t), ArtifactComplete, artifact # NoArtifact,
         NEW p \in Provider, NEW q \in CallerProgram, NEW x \in Supplied,
         ArtifactIsFor(p, q, artifact), InputsAreFor(p, q, x),
         ProviderFaults(p, artifact, x) = {},
         NEW out \in Outputs(p, artifact, x)
  PROVE  \A id \in DOMAIN out : Made(out[id], p)
<1> DEFINE parts == {artifact.parts[name].session_id : name \in DOMAIN artifact.parts}
           origins == (UNION {x[id].origins : id \in DOMAIN x}) \cup parts
<1>1. \A id \in DOMAIN x : x[id] \in tensors
  BY DEF Supplied
<1>2. \A id \in DOMAIN x : x[id].origins = {p}
  BY <1>1, TensorOfSession DEF InputsAreFor, Labelled
<1>3. parts \subseteq {p}
  <2>1. artifact.provider_id = Kind[p]
    BY DEF ArtifactIsFor
  <2>2. CASE Kind[p] = "ckks"
    <3>1. ArtifactFits(p, artifact)
      BY <2>2 DEF ProviderFaults, CKKSFaults
    <3>2. \A name \in TensorNames : artifact.parts[name].session_id = p
      BY <3>1 DEF ArtifactFits
    <3> QED
      BY <2>1, <2>2, <3>2 DEF ArtifactComplete
  <2>3. CASE Kind[p] # "ckks"
    BY <2>1, <2>3 DEF ArtifactComplete
  <2> QED
    BY <2>2, <2>3
<1>4. DOMAIN x # {}
  <2>1. q.graph \in Program /\ WellFormed(q.graph)
    BY CallerProgramAssumption, CorpusAssumption
  <2> QED
    BY <2>1, SomeInput DEF InputsAreFor
<1>5. origins = {p}
  <2>1. UNION {x[id].origins : id \in DOMAIN x} \subseteq {p}
    <3>1. \A o \in {x[id].origins : id \in DOMAIN x} : o = {p}
      BY <1>2
    <3> QED
      BY <3>1
  <2>2. PICK id \in DOMAIN x : TRUE
    BY <1>4
  <2>3. p \in origins
    BY <2>2, <1>2
  <2>4. origins \subseteq {p}
    BY <2>1, <1>3
  <2> HIDE DEF origins
  <2> QED
    BY <2>3, <2>4
<1>6. \A id \in DOMAIN out : out[id].session_id = p /\ out[id].origins = origins
  BY DEF Outputs, Tensor
<1> QED
  BY <1>5, <1>6 DEF Made

-----------------------------------------------------------------------------
LEMMA SeparateInit == Init => Separate
BY DEF Init, Separate, ArtifactComplete, ReportSeparate, Idle, NoError

LEMMA EncryptTensorSeparate ==
  ASSUME Separate, NEW p \in Provider, EncryptTensor(p)
  PROVE  Separate'
<1>1. ArtifactComplete'
  BY DEF Separate, ArtifactComplete, EncryptTensor
<1>2. ReportSeparate'
  BY MishapIsError DEF ReportSeparate, EncryptTensor, Ok, Raised
<1>3. CASE UNCHANGED tensors
  BY <1>1, <1>2, <1>3 DEF Separate
<1>4. CASE \E s \in Shape : \E x \in Payload(s) : KeepWith({Tensor(p, s, x, {p})})
  <2>0. PICK s \in Shape : \E x \in Payload(s) : KeepWith({Tensor(p, s, x, {p})})
    BY <1>4
  <2>1. PICK x \in Payload(s) : KeepWith({Tensor(p, s, x, {p})})
    BY <2>0
  <2>2. Labelled(Tensor(p, s, x, {p}))
    BY DEF Labelled, Tensor
  <2>3. \A t \in tensors' : Labelled(t)
    BY <2>1, <2>2, KeepLabelled DEF Separate
  <2> QED
    BY <1>1, <1>2, <2>3 DEF Separate
<1> QED
  BY <1>3, <1>4 DEF EncryptTensor

LEMMA OperateSeparate ==
  ASSUME Separate, NEW p \in Provider, NEW op, NEW l \in tensors, NEW r \in tensors,
         Operate(p, op, l, r)
  PROVE  Separate'
<1> DEFINE new == Tensor(p, ResultShape(op, l.shape, r.shape),
                         Apply(op, l.shape, r.shape, l.payload, r.payload),
                         l.origins \cup r.origins)
<1>1. ArtifactComplete'
  BY DEF Separate, ArtifactComplete, Operate
<1>2. ReportSeparate'
  BY MishapIsError DEF ReportSeparate, Operate, Ok, Raised
<1>3. CASE UNCHANGED tensors
  BY <1>1, <1>2, <1>3 DEF Separate
<1>4. CASE PairError(p, op, l, r) = NoError /\ KeepWith({new})
  <2>1. l.origins = {p} /\ r.origins = {p}
    BY <1>4, PairOfSession DEF Separate, Labelled
  <2>2. Labelled(new)
    BY <2>1 DEF Labelled, Tensor
  <2>3. \A t \in tensors' : Labelled(t)
    BY <1>4, <2>2, KeepLabelled DEF Separate
  <2> QED
    BY <1>1, <1>2, <2>3 DEF Separate
<1> QED
  BY <1>3, <1>4 DEF Operate

LEMMA DecryptSeparate ==
  ASSUME Separate, NEW p \in Provider, NEW t \in tensors, Decrypt(p, t)
  PROVE  Separate'
<1>1. TensorError(p, t) = NoError => t.origins = {p}
  BY TensorOfSession DEF Separate, Labelled
<1>2. ReportSeparate'
  BY <1>1, MishapIsError DEF ReportSeparate, Decrypt, Ok, Raised
<1> QED
  BY <1>2 DEF Separate, ArtifactComplete, Decrypt

LEMMA EncryptProgramSeparate ==
  ASSUME Separate, NEW p \in Provider, NEW q \in CallerProgram, EncryptProgram(p, q)
  PROVE  Separate'
<1>1. ReportSeparate'
  BY MishapIsError DEF ReportSeparate, EncryptProgram, Ok, Raised
<1>2. ArtifactComplete'
  <2>1. CASE UNCHANGED artifact
    BY <2>1 DEF Separate, ArtifactComplete
  <2>2. CASE artifact' = Encrypted(p, q)
    BY <2>2 DEF ArtifactComplete, Encrypted
  <2> QED
    BY <2>1, <2>2 DEF EncryptProgram
<1> QED
  BY <1>1, <1>2 DEF Separate, EncryptProgram

LEMMA ReassembleSeparate ==
  ASSUME Separate, NEW p \in Provider, NEW g, Reassemble(p, g)
  PROVE  Separate'
<1>1. ReportSeparate'
  BY DEF ReportSeparate, Reassemble, Ok
<1>2. ArtifactComplete'
  <2>1. PICK name \in DOMAIN artifact.parts :
          artifact' = [artifact EXCEPT !.parts[name] = PartOf(p, g)]
    BY DEF Reassemble
  <2>2. artifact = [provider_id |-> artifact.provider_id, session_id |-> artifact.session_id,
                    program_id |-> artifact.program_id, graph |-> artifact.graph,
                    parts |-> artifact.parts]
    BY DEF Separate, ArtifactComplete, Reassemble
  <2>3. artifact' = [provider_id |-> artifact.provider_id, session_id |-> artifact.session_id,
                     program_id |-> artifact.program_id, graph |-> artifact.graph,
                     parts |-> [artifact.parts EXCEPT ![name] = PartOf(p, g)]]
    BY <2>1, <2>2
  <2>4. DOMAIN artifact'.parts = DOMAIN artifact.parts /\ artifact'.provider_id = artifact.provider_id
    BY <2>3
  <2>5. DOMAIN artifact.parts = IF artifact.provider_id = "ckks" THEN TensorNames ELSE {}
    BY DEF Separate, ArtifactComplete, Reassemble
  <2> QED
    BY <2>3, <2>4, <2>5 DEF ArtifactComplete
<1> QED
  BY <1>1, <1>2 DEF Separate, Reassemble

LEMMA ExecuteSeparate ==
  ASSUME Separate, NEW p \in Provider, NEW q \in CallerProgram, NEW x \in Supplied,
         Execute(p, q, x)
  PROVE  Separate'
<1> DEFINE Made_(out) == Ok("execute", p, [program |-> q, inputs |-> Payloads(x), outputs |-> out])
<1>1. \/ report'.error # NoError
      \/ \E out \in Outputs(p, artifact, x) :
           /\ ArtifactIsFor(p, q, artifact) /\ InputsAreFor(p, q, x)
           /\ ProviderFaults(p, artifact, x) = {}
           /\ report' = Made_(out)
  <2>1. report' \in Endings(p, q, artifact, x)
    BY DEF Execute
  <2>2. \A e, args : RaisedBy("execute", p, e, args).error = e
    BY DEF RaisedBy
  <2>3. "ProgramValidationError" # NoError
    BY DEF NoError
  <2> QED
    BY <2>1, <2>2, <2>3, MishapIsError, FaultIsError DEF Endings
<1>2. ReportSeparate'
  <2>1. CASE report'.error # NoError
    BY <2>1 DEF ReportSeparate, NoError
  <2>2. ASSUME NEW out \in Outputs(p, artifact, x),
               ArtifactIsFor(p, q, artifact), InputsAreFor(p, q, x),
               ProviderFaults(p, artifact, x) = {}, report' = Made_(out)
        PROVE  ReportSeparate'
    <3>1. \A id \in DOMAIN out : Made(out[id], p)
      BY <2>2, OutputsMade DEF Separate, Execute
    <3>2. /\ report'.call = "execute" /\ report'.provider = p
          /\ report'.result.outputs = out
      BY <2>2 DEF Ok
    <3> QED
      BY <3>1, <3>2 DEF ReportSeparate
  <2> QED
    BY <1>1, <2>1, <2>2
<1> QED
  BY <1>2 DEF Separate, ArtifactComplete, Execute

LEMMA TakeOutputSeparate ==
  ASSUME Separate, TakeOutput
  PROVE  Separate'
<1>1. PICK id \in DOMAIN report.result.outputs : KeepWith({report.result.outputs[id]})
  BY DEF TakeOutput
<1>2. Made(report.result.outputs[id], report.provider)
  BY DEF Separate, ReportSeparate, TakeOutput
<1>3. Labelled(report.result.outputs[id])
  BY <1>2 DEF Made, Labelled
<1>4. \A t \in tensors' : Labelled(t)
  BY <1>1, <1>3, KeepLabelled DEF Separate
<1>5. ReportSeparate'
  BY DEF ReportSeparate, TakeOutput, Idle
<1> QED
  BY <1>4, <1>5 DEF Separate, ArtifactComplete, TakeOutput

LEMMA ProceedSeparate ==
  ASSUME Separate, Proceed
  PROVE  Separate'
<1>1. ReportSeparate'
  BY DEF ReportSeparate, Proceed, Idle
<1> QED
  BY <1>1 DEF Separate, ArtifactComplete, Proceed

LEMMA NextSeparate == Separate /\ [Next]_vars => Separate'
<1> SUFFICES ASSUME Separate, [Next]_vars PROVE Separate'
  OBVIOUS
<1>1. CASE Next
  <2>1. ASSUME NEW p \in Provider, EncryptTensor(p) PROVE Separate'
    BY <2>1, EncryptTensorSeparate
  <2>2. ASSUME NEW p \in Provider, NEW op \in Elementwise \cup {"GEMM"},
               NEW l \in tensors, NEW r \in tensors, Operate(p, op, l, r)
        PROVE  Separate'
    BY <2>2, OperateSeparate
  <2>3. ASSUME NEW p \in Provider, NEW t \in tensors, Decrypt(p, t) PROVE Separate'
    BY <2>3, DecryptSeparate
  <2>4. ASSUME NEW p \in Provider, NEW q \in CallerProgram, EncryptProgram(p, q) PROVE Separate'
    BY <2>4, EncryptProgramSeparate
  <2>5. ASSUME NEW p \in Provider, NEW q \in CallerProgram, Reassemble(p, q.graph) PROVE Separate'
    BY <2>5, ReassembleSeparate
  <2>6. ASSUME NEW p \in Provider, NEW q \in CallerProgram, NEW x \in Supplied, Execute(p, q, x)
        PROVE  Separate'
    BY <2>6, ExecuteSeparate
  <2>7. CASE TakeOutput
    BY <2>7, TakeOutputSeparate
  <2>8. CASE Proceed
    BY <2>8, ProceedSeparate
  <2> QED
    BY <1>1, <2>1, <2>2, <2>3, <2>4, <2>5, <2>6, <2>7, <2>8 DEF Next
<1>2. CASE UNCHANGED vars
  BY <1>2 DEF vars, Separate, ArtifactComplete, ReportSeparate
<1> QED
  BY <1>1, <1>2

LEMMA SeparateIsSessions == Separate => SessionsStaySeparate
BY DEF Separate, ReportSeparate, SessionsStaySeparate, Labelled, Made

(* Sessions stay separate: no ciphertext of one session is ever used under *)
(* the keys of another, in any history of encryptions, operations,         *)
(* executions and decryptions of any number of providers.                  *)
THEOREM SessionsSeparate == Spec => []SessionsStaySeparate
<1>1. Separate => SessionsStaySeparate
  BY SeparateIsSessions
<1> QED
  BY SeparateInit, NextSeparate, <1>1, PTL DEF Spec
-----------------------------------------------------------------------------
(* The values of a graph.  NodeValues is a recursive function; that there  *)
(* is one that solves the recursion follows from its looking at earlier    *)
(* nodes only, by induction on the number of nodes solved for.             *)

LEMMA NodeValueLocal ==
  ASSUME NEW p \in Program, WellFormed(p), NEW in, NEW i \in DOMAIN p.nodes, NEW f, NEW g,
         \A j \in 1 .. (i - 1) : f[j] = g[j]
  PROVE  NodeValue(p, in, f, i) = NodeValue(p, in, g, i)
<1>1. CASE p.nodes[i].op = "INPUT"
  BY <1>1 DEF NodeValue
<1>2. CASE p.nodes[i].op # "INPUT"
  <2>1. \A k \in {1, 2} : NodeIndex(p, p.nodes[i].inputs[k]) \in 1 .. (i - 1)
    BY <1>2, OperandIsEarlier
  <2> QED
    BY <1>2, <2>1 DEF NodeValue
<1> QED
  BY <1>1, <1>2

(* The values of the first n nodes. *)
Solves(f, p, in, n) ==
  /\ f = [i \in 1 .. n |-> f[i]]
  /\ \A i \in 1 .. n : f[i] = NodeValue(p, in, f, i)

LEMMA SolutionExtends ==
  ASSUME NEW p \in Program, WellFormed(p), NEW in,
         NEW n \in DOMAIN p.nodes, NEW f, Solves(f, p, in, n - 1)
  PROVE  \E g : Solves(g, p, in, n)
<1> DEFINE g == [i \in 1 .. n |-> IF i = n THEN NodeValue(p, in, f, n) ELSE f[i]]
<1>1. n \in Nat /\ n > 0 /\ 1 .. n \subseteq DOMAIN p.nodes
  <2>1. p.nodes \in Seq(Node)
    BY DEF Program
  <2> QED
    BY <2>1
<1>2. \A i \in 1 .. (n - 1) : g[i] = f[i]
  BY <1>1
<1>3. g[n] = NodeValue(p, in, f, n) /\ g = [i \in 1 .. n |-> g[i]]
  BY <1>1
<1> HIDE DEF g
<1>4. ASSUME NEW i \in 1 .. n
      PROVE  g[i] = NodeValue(p, in, g, i)
  <2>1. NodeValue(p, in, f, i) = NodeValue(p, in, g, i)
    <3>1. \A j \in 1 .. (i - 1) : f[j] = g[j]
      BY <1>1, <1>2
    <3>2. i \in DOMAIN p.nodes
      BY <1>1
    <3> QED
      BY <3>1, <3>2, NodeValueLocal
  <2>2. CASE i = n
    BY <1>3, <2>1, <2>2
  <2>3. CASE i # n
    <3>1. i \in 1 .. (n - 1)
      BY <1>1, <2>3
    <3> QED
      BY <1>2, <2>1, <3>1 DEF Solves
  <2> QED
    BY <2>2, <2>3
<1> QED
  BY <1>3, <1>4 DEF Solves

LEMMA SolutionExists ==
  ASSUME NEW p \in Program, WellFormed(p), NEW in
  PROVE  \E f : Solves(f, p, in, Len(p.nodes))
<1> DEFINE N == Len(p.nodes)
           Unsolved == {n \in 0 .. N : ~\E f : Solves(f, p, in, n)}
<1>1. N \in Nat /\ DOMAIN p.nodes = 1 .. N
  BY DEF Program
<1> SUFFICES ASSUME N \in Unsolved PROVE FALSE
  BY <1>1
<1>2. Unsolved \in SUBSET Nat /\ Unsolved # {}
  OBVIOUS
<1>3. PICK n \in Unsolved : \A k \in Unsolved : n <= k
  <2> HIDE DEF Unsolved
  <2> QED
    BY <1>2, LeastNumber
<1>4. n \in 0 .. N /\ ~\E f : Solves(f, p, in, n)
  OBVIOUS
<1>5. CASE n = 0
  <2>1. Solves([i \in 1 .. 0 |-> 0], p, in, 0)
    BY DEF Solves
  <2> QED
    BY <1>4, <1>5, <2>1
<1>6. CASE n # 0
  <2>1. n \in DOMAIN p.nodes /\ n - 1 \in 0 .. N /\ ~(n <= n - 1)
    BY <1>1, <1>4, <1>6
  <2>2. PICK f : Solves(f, p, in, n - 1)
    BY <1>3, <2>1
  <2> QED
    BY <1>4, <2>1, <2>2, SolutionExtends
<1> QED
  BY <1>5, <1>6

LEMMA NodeValuesSolve ==
  ASSUME NEW p \in Program, WellFormed(p), NEW in
  PROVE  \A i \in DOMAIN p.nodes : NodeValues(p, in)[i] = NodeValue(p, in, NodeValues(p, in), i)
<1>1. DOMAIN p.nodes = 1 .. Len(p.nodes)
  BY DEF Program
<1>2. PICK f : Solves(f, p, in, Len(p.nodes))
  BY SolutionExists
<1>3. f = [i \in DOMAIN p.nodes |-> NodeValue(p, in, f, i)]
  BY <1>1, <1>2 DEF Solves
<1> DEFINE v == CHOOSE g : g = [i \in DOMAIN p.nodes |-> NodeValue(p, in, g, i)]
<1>4. v = [i \in DOMAIN p.nodes |-> NodeValue(p, in, v, i)]
  BY <1>3
<1>5. NodeValues(p, in) = v
  BY DEF NodeValues
<1> HIDE DEF v
<1> QED
  BY <1>4, <1>5

(* Nodes that have a value of their shape once the inputs that are read    *)
(* are there.                                                              *)
Valued(p, i) == p.nodes[i].op # "INPUT" \/ p.nodes[i].id \in Reads(p)

LEMMA OperandsAreRead ==
  ASSUME NEW p \in Program, WellFormed(p),
         NEW i \in DOMAIN p.nodes, p.nodes[i].op # "INPUT", NEW k \in {1, 2}
  PROVE  p.nodes[i].inputs[k] \in Reads(p)
<1>1. p.nodes[i] \in Node
  BY DEF Program
<1>2. p.nodes[i].inputs \in Seq(NodeId) /\ Len(p.nodes[i].inputs) = 2
  BY <1>1 DEF Node, WellFormed, Arity
<1>3. k \in DOMAIN p.nodes[i].inputs
  BY <1>2
<1>4. p.nodes[i].inputs[k] \in Range(p.nodes[i].inputs)
  BY <1>3 DEF Range
<1> QED
  BY <1>4 DEF Reads

LEMMA NodeValueTyped ==
  ASSUME NEW p \in Program, WellFormed(p), NEW in,
         \A id \in InputNodes(p) \cap Reads(p) : in[id] \in Payload(ShapeOf(p, id)),
         NEW i \in DOMAIN p.nodes, Valued(p, i), NEW f,
         \A j \in 1 .. (i - 1) : Valued(p, j) => f[j] \in Payload(p.nodes[j].shape)
  PROVE  NodeValue(p, in, f, i) \in Payload(p.nodes[i].shape)
<1> DEFINE n == p.nodes[i]
           l == NodeIndex(p, n.inputs[1])
           r == NodeIndex(p, n.inputs[2])
<1>1. n \in Node /\ n.shape \in Shape /\ n.op \in Op
  <2>1. n \in Node
    BY DEF Program
  <2> QED
    BY <2>1 DEF Node
<1>2. CASE n.op = "INPUT"
  <2>1. n.id \in InputNodes(p) \cap Reads(p)
    BY <1>2 DEF Valued, InputNodes
  <2>2. NodeIndex(p, n.id) = i
    BY NodeIndexFound DEF WellFormed, UniqueIds
  <2> QED
    BY <1>2, <2>1, <2>2 DEF NodeValue, ShapeOf
<1>3. CASE n.op # "INPUT"
  <2>1. /\ l \in 1 .. (i - 1) /\ p.nodes[l].id = n.inputs[1]
        /\ r \in 1 .. (i - 1) /\ p.nodes[r].id = n.inputs[2]
    BY <1>3, OperandIsEarlier
  <2>2. Valued(p, l) /\ Valued(p, r)
    BY <1>3, <2>1, OperandsAreRead DEF Valued
  <2>3. ShapeRule(n.op, p.nodes[l].shape, p.nodes[r].shape, n.shape)
    BY <1>3, OperandShapes
  <2>4. p.nodes[l].shape \in Shape /\ p.nodes[r].shape \in Shape
    <3>1. p.nodes \in Seq(Node) /\ l \in DOMAIN p.nodes /\ r \in DOMAIN p.nodes
      BY <2>1 DEF Program
    <3>2. p.nodes[l] \in Node /\ p.nodes[r] \in Node
      BY <3>1
    <3> QED
      BY <3>2 DEF Node
  <2>5. f[l] \in Payload(p.nodes[l].shape) /\ f[r] \in Payload(p.nodes[r].shape)
    BY <2>1, <2>2
  <2>6. NodeValue(p, in, f, i) = Apply(n.op, p.nodes[l].shape, p.nodes[r].shape, f[l], f[r])
    BY <1>3 DEF NodeValue
  <2> DEFINE s == p.nodes[l].shape
             t == p.nodes[r].shape
             x == f[l]
             y == f[r]
  <2>7. /\ s \in Shape /\ t \in Shape /\ x \in Payload(s) /\ y \in Payload(t)
        /\ ShapeRule(n.op, s, t, n.shape) /\ n.op \in {"ADD", "MUL", "GEMM"} /\ n.shape \in Shape
    BY <1>1, <1>3, <2>3, <2>4, <2>5 DEF Op, Elementwise
  <2> HIDE DEF s, t, x, y, n
  <2>8. Apply(n.op, s, t, x, y) \in Payload(n.shape)
    BY <2>7, KernelsClosed DEF Apply, ShapeRule, Elementwise
  <2> QED
    BY <2>6, <2>8 DEF s, t, x, y, n
<1> QED
  BY <1>2, <1>3

LEMMA NodeValuesTyped ==
  ASSUME NEW p \in Program, WellFormed(p), NEW in,
         \A id \in InputNodes(p) \cap Reads(p) : in[id] \in Payload(ShapeOf(p, id))
  PROVE  \A i \in DOMAIN p.nodes : Valued(p, i) => NodeValues(p, in)[i] \in Payload(p.nodes[i].shape)
<1> DEFINE v == NodeValues(p, in)
           Wrong == {i \in DOMAIN p.nodes : Valued(p, i) /\ v[i] \notin Payload(p.nodes[i].shape)}
<1>1. DOMAIN p.nodes \subseteq Nat /\ \A i \in DOMAIN p.nodes : 1 .. (i - 1) \subseteq DOMAIN p.nodes
  <2>1. p.nodes \in Seq(Node)
    BY DEF Program
  <2> QED
    BY <2>1
<1> SUFFICES ASSUME Wrong # {} PROVE FALSE
  OBVIOUS
<1>2. PICK i \in Wrong : \A j \in Wrong : i <= j
  <2>1. Wrong \in SUBSET Nat
    BY <1>1
  <2> HIDE DEF Wrong
  <2> QED
    BY <2>1, LeastNumber
<1>3. i \in DOMAIN p.nodes /\ Valued(p, i) /\ v[i] \notin Payload(p.nodes[i].shape) /\ i \in Nat
  BY <1>1
<1>4. \A j \in 1 .. (i - 1) : Valued(p, j) => v[j] \in Payload(p.nodes[j].shape)
  <2> SUFFICES ASSUME NEW j \in 1 .. (i - 1), j \in Wrong PROVE FALSE
    BY <1>1, <1>3
  <2>1. i <= j
    BY <1>2
  <2> QED
    BY <1>3, <2>1
<1> HIDE DEF v
<1>5. NodeValue(p, in, v, i) \in Payload(p.nodes[i].shape)
  BY <1>3, <1>4, NodeValueTyped
<1>6. v[i] = NodeValue(p, in, v, i)
  BY <1>3, NodeValuesSolve DEF v
<1> QED
  BY <1>3, <1>5, <1>6

-----------------------------------------------------------------------------
(* The graph as the plaintext interpreter meets it: only the shapes of     *)
(* supplied inputs differ from the graph's own.                            *)
ResuppliedNode(n, x, m) ==
  /\ m = [id |-> m.id, op |-> m.op, inputs |-> m.inputs, shape |-> m.shape]
  /\ m.id = n.id /\ m.op = n.op /\ m.inputs = n.inputs
  /\ m.shape = IF n.op = "INPUT" /\ n.id \in DOMAIN x THEN x[n.id].shape ELSE n.shape

Resupplied(g, x, h) ==
  /\ h = [nodes |-> h.nodes, input_ids |-> g.input_ids, output_ids |-> g.output_ids]
  /\ h.nodes = [i \in DOMAIN g.nodes |-> h.nodes[i]]
  /\ \A i \in DOMAIN g.nodes : ResuppliedNode(g.nodes[i], x, h.nodes[i])

LEMMA AsSuppliedNode ==
  ASSUME NEW n \in Node, NEW x
  PROVE  ResuppliedNode(n, x, IF n.op = "INPUT" /\ n.id \in DOMAIN x
                              THEN [n EXCEPT !.shape = x[n.id].shape] ELSE n)
<1>1. n = [id |-> n.id, op |-> n.op, inputs |-> n.inputs, shape |-> n.shape]
  BY DEF Node
<1>2. [n EXCEPT !.shape = x[n.id].shape]
        = [id |-> n.id, op |-> n.op, inputs |-> n.inputs, shape |-> x[n.id].shape]
  BY <1>1
<1>3. CASE n.op = "INPUT" /\ n.id \in DOMAIN x
  BY <1>2, <1>3 DEF ResuppliedNode
<1>4. CASE ~(n.op = "INPUT" /\ n.id \in DOMAIN x)
  BY <1>1, <1>4 DEF ResuppliedNode
<1> QED
  BY <1>3, <1>4

LEMMA AsSuppliedNodes ==
  ASSUME NEW g \in Program, NEW x
  PROVE  Resupplied(g, x, AsSupplied(g, x))
<1> DEFINE h == AsSupplied(g, x)
           nodes == [i \in DOMAIN g.nodes |->
              IF g.nodes[i].op = "INPUT" /\ g.nodes[i].id \in DOMAIN x
              THEN [g.nodes[i] EXCEPT !.shape = x[g.nodes[i].id].shape] ELSE g.nodes[i]]
<1>1. g = [nodes |-> g.nodes, input_ids |-> g.input_ids, output_ids |-> g.output_ids]
  BY DEF Program
<1>2. h = [g EXCEPT !.nodes = nodes]
  BY DEF AsSupplied
<1>3. ASSUME NEW i \in DOMAIN g.nodes
      PROVE  ResuppliedNode(g.nodes[i], x, nodes[i])
  <2>1. g.nodes[i] \in Node
    BY DEF Program
  <2> DEFINE n == g.nodes[i]
  <2>2. nodes[i] = IF n.op = "INPUT" /\ n.id \in DOMAIN x
                   THEN [n EXCEPT !.shape = x[n.id].shape] ELSE n
    OBVIOUS
  <2> HIDE DEF n, nodes
  <2>3. n \in Node
    BY <2>1 DEF n
  <2>4. ResuppliedNode(n, x, nodes[i])
    BY <2>2, <2>3, AsSuppliedNode
  <2> QED
    BY <2>4 DEF n
<1>4. nodes = [i \in DOMAIN g.nodes |-> nodes[i]]
  OBVIOUS
<1> HIDE DEF nodes, h
<1>5. h = [nodes |-> nodes, input_ids |-> g.input_ids, output_ids |-> g.output_ids]
  BY <1>1, <1>2
<1>6. h.nodes = nodes
  BY <1>5
<1> QED
  BY <1>3, <1>4, <1>5, <1>6 DEF Resupplied, h

LEMMA AsSuppliedIndex ==
  ASSUME NEW g \in Program, WellFormed(g), NEW x, NEW h, Resupplied(g, x, h),
         NEW i \in DOMAIN g.nodes
  PROVE  NodeIndex(h, g.nodes[i].id) = i /\ NodeIndex(g, g.nodes[i].id) = i
<1>1. DOMAIN h.nodes = DOMAIN g.nodes /\ \A j \in DOMAIN g.nodes : h.nodes[j].id = g.nodes[j].id
  BY DEF Resupplied, ResuppliedNode
<1>2. NodeIndex(h, h.nodes[i].id) \in DOMAIN h.nodes
      /\ h.nodes[NodeIndex(h, h.nodes[i].id)].id = h.nodes[i].id
  BY <1>1, NodeIndexFound
<1>3. NodeIndex(g, g.nodes[i].id) \in DOMAIN g.nodes
      /\ g.nodes[NodeIndex(g, g.nodes[i].id)].id = g.nodes[i].id
  BY NodeIndexFound
<1> QED
  BY <1>1, <1>2, <1>3 DEF WellFormed, UniqueIds

(* It is a well-formed program as soon as its shapes agree. *)
LEMMA AsSuppliedWellFormed ==
  ASSUME NEW g \in Program, WellFormed(g), NEW x, NEW h, Resupplied(g, x, h),
         \A id \in DOMAIN x : x[id].shape \in Shape, ShapesAgree(h)
  PROVE  /\ h \in Program /\ WellFormed(h)
         /\ InputNodes(h) = InputNodes(g) /\ Reads(h) = Reads(g)
<1> DEFINE D == DOMAIN g.nodes
<1>1. /\ DOMAIN h.nodes = D
      /\ h.input_ids = g.input_ids /\ h.output_ids = g.output_ids
  BY DEF Resupplied
<1>2. \A i \in D : /\ h.nodes[i].id = g.nodes[i].id /\ h.nodes[i].op = g.nodes[i].op
                   /\ h.nodes[i].inputs = g.nodes[i].inputs
  BY DEF Resupplied, ResuppliedNode
<1>3. \A i \in D : h.nodes[i] \in Node
  <2> TAKE i \in D
  <2>1. g.nodes[i] \in Node
    BY DEF Program
  <2>2. ResuppliedNode(g.nodes[i], x, h.nodes[i])
    BY DEF Resupplied
  <2> QED
    BY <2>1, <2>2 DEF Node, ResuppliedNode
<1>4. g.nodes \in Seq(Node) /\ g.input_ids \in Seq(NodeId) /\ g.output_ids \in Seq(NodeId)
  BY DEF Program
<1>5. h.nodes \in Seq(Node)
  <2>1. Len(g.nodes) \in Nat /\ D = 1 .. Len(g.nodes)
    BY <1>4
  <2>2. h.nodes \in [1 .. Len(g.nodes) -> Node]
    BY <1>3, <2>1 DEF Resupplied
  <2> QED
    BY <2>1, <2>2, SeqDef
<1>6. h \in Program
  BY <1>1, <1>4, <1>5 DEF Program, Resupplied
<1>7. \A i \in D : 1 .. (i - 1) \subseteq D
  BY <1>4
<1> HIDE DEF D
<1>8. InputNodes(h) = InputNodes(g)
  BY <1>1, <1>2 DEF InputNodes, D
<1>9. Reads(h) = Reads(g)
  <2>1. {Range(h.nodes[i].inputs) : i \in D} = {Range(g.nodes[i].inputs) : i \in D}
    BY <1>2
  <2> QED
    BY <1>1, <2>1 DEF Reads, D
<1>10. UniqueIds(h)
  BY <1>1, <1>2 DEF WellFormed, UniqueIds, D
<1>11. Arity(h)
  BY <1>1, <1>2 DEF WellFormed, Arity, D
<1>12. TopologicalOrder(h)
  <2>1. ASSUME NEW i \in D, NEW k \in DOMAIN g.nodes[i].inputs
        PROVE  \E j \in 1 .. (i - 1) : h.nodes[j].id = g.nodes[i].inputs[k]
    <3>1. PICK j \in 1 .. (i - 1) : g.nodes[j].id = g.nodes[i].inputs[k]
      BY <2>1 DEF WellFormed, TopologicalOrder, OperandIs, D
    <3> QED
      BY <1>2, <1>7, <3>1
  <2> QED
    BY <1>1, <1>2, <2>1 DEF TopologicalOrder, OperandIs
<1>13. InterfaceAgrees(h)
  BY <1>1, <1>2, <1>8 DEF WellFormed, InterfaceAgrees, D
<1> QED
  BY <1>6, <1>8, <1>9, <1>10, <1>11, <1>12, <1>13 DEF WellFormed

(* An input is read by an operation or as an output. *)
LEMMA ReadByNodeOrOutput ==
  ASSUME NEW g \in Program, WellFormed(g), NEW id \in Reads(g)
  PROVE  \/ \E i \in DOMAIN g.nodes : g.nodes[i].op # "INPUT" /\ \E k \in {1, 2} : g.nodes[i].inputs[k] = id
         \/ id \in Range(g.output_ids)
<1>1. CASE id \in Range(g.output_ids)
  BY <1>1
<1>2. CASE \E i \in DOMAIN g.nodes : id \in Range(g.nodes[i].inputs)
  <2>1. PICK i \in DOMAIN g.nodes : id \in Range(g.nodes[i].inputs)
    BY <1>2
  <2>2. g.nodes[i] \in Node
    BY DEF Program
  <2>3. g.nodes[i].inputs \in Seq(NodeId)
    BY <2>2 DEF Node
  <2>4. PICK k \in DOMAIN g.nodes[i].inputs : g.nodes[i].inputs[k] = id
    BY <2>1 DEF Range
  <2>5. k \in 1 .. Len(g.nodes[i].inputs)
    BY <2>3, <2>4
  <2>6. Len(g.nodes[i].inputs) = IF g.nodes[i].op = "INPUT" THEN 0 ELSE 2
    BY DEF WellFormed, Arity
  <2>7. g.nodes[i].op # "INPUT" /\ k \in {1, 2}
    BY <2>5, <2>6
  <2> QED
    BY <2>4, <2>7
<1>3. id \in Range(g.output_ids) \/ \E i \in DOMAIN g.nodes : id \in Range(g.nodes[i].inputs)
  <2> DEFINE inputs == {Range(g.nodes[i].inputs) : i \in DOMAIN g.nodes}
  <2>1. id \in UNION inputs \/ id \in Range(g.output_ids)
    BY DEF Reads
  <2>2. id \in UNION inputs => \E s \in inputs : id \in s
    OBVIOUS
  <2>3. \A s \in inputs : \E i \in DOMAIN g.nodes : s = Range(g.nodes[i].inputs)
    OBVIOUS
  <2> HIDE DEF inputs
  <2> QED
    BY <2>1, <2>2, <2>3
<1> QED
  BY <1>1, <1>2, <1>3

(* The interpreter stops at nothing: then no node is in error, and what is *)
(* read is there.                                                          *)
LEMMA NothingWrong ==
  ASSUME NEW g \in Program, NEW x, InterpreterFaults(g, x) = {}
  PROVE  /\ \A i \in DOMAIN g.nodes : NodeError(g, x, g.nodes[i]) = NoError
         /\ \A id \in Range(g.output_ids) : ~NotSupplied(g, x, id)
<1> DEFINE Err(i) == NodeError(g, x, g.nodes[i])
           wrong == {i \in DOMAIN g.nodes : Err(i) # NoError}
           first == {i \in wrong : \A j \in wrong : i <= j}
<1>1. wrong \in SUBSET Nat
  <2>1. g.nodes \in Seq(Node)
    BY DEF Program
  <2> QED
    BY <2>1
<1>2. wrong = {}
  <2> SUFFICES ASSUME wrong # {} PROVE FALSE
    OBVIOUS
  <2>1. InterpreterFaults(g, x) = {Err(i) : i \in first}
    BY DEF InterpreterFaults
  <2> HIDE DEF wrong
  <2>2. PICK i \in wrong : \A j \in wrong : i <= j
    BY <1>1, LeastNumber
  <2>3. Err(i) \in InterpreterFaults(g, x)
    BY <2>1, <2>2
  <2> QED
    BY <2>3
<1>3. InterpreterFaults(g, x)
        = {"KeyError" : id \in {i \in Range(g.output_ids) : NotSupplied(g, x, i)}}
  BY <1>2 DEF InterpreterFaults
<1>4. \A id \in Range(g.output_ids) : ~NotSupplied(g, x, id)
  <2> SUFFICES ASSUME NEW id \in Range(g.output_ids), NotSupplied(g, x, id) PROVE FALSE
    OBVIOUS
  <2>1. "KeyError" \in InterpreterFaults(g, x)
    BY <1>3
  <2> QED
    BY <2>1
<1> QED
  BY <1>2, <1>4

LEMMA NoFaults ==
  ASSUME NEW g \in Program, NEW x,
         \A i \in DOMAIN g.nodes : NodeError(g, x, g.nodes[i]) = NoError,
         \A id \in Range(g.output_ids) : ~NotSupplied(g, x, id)
  PROVE  InterpreterFaults(g, x) = {}
BY DEF InterpreterFaults

(* The operands of operation i in the graph that is executed. *)
LEMMA SuppliedOperand ==
  ASSUME NEW g \in Program, WellFormed(g), NEW x, NEW h, Resupplied(g, x, h),
         NEW i \in DOMAIN g.nodes, g.nodes[i].op # "INPUT",
         NEW k \in {1, 2}, NEW l \in DOMAIN g.nodes, g.nodes[l].id = g.nodes[i].inputs[k]
  PROVE  /\ ShapeOf(h, g.nodes[i].inputs[k]) = h.nodes[l].shape
         /\ ShapeOf(g, g.nodes[i].inputs[k]) = g.nodes[l].shape
BY AsSuppliedIndex DEF ShapeOf

LEMMA CheckedShapesAgree ==
  ASSUME NEW g \in Program, WellFormed(g), NEW x,
         \A i \in DOMAIN g.nodes : NodeError(g, x, g.nodes[i]) = NoError
  PROVE  ShapesAgree(AsSupplied(g, x))
<1> DEFINE h == AsSupplied(g, x)
<1>1. Resupplied(g, x, h)
  BY AsSuppliedNodes
<1> DEFINE Shp(i, k) == ShapeOf(h, g.nodes[i].inputs[k])
<1>2. ASSUME NEW i \in DOMAIN g.nodes, g.nodes[i].op # "INPUT"
      PROVE  /\ g.nodes[i].op \in Elementwise => Shp(i, 1) = Shp(i, 2)
             /\ g.nodes[i].op = "GEMM" => GemmConforms(Shp(i, 1), Shp(i, 2))
             /\ ResultShape(g.nodes[i].op, Shp(i, 1), Shp(i, 2)) = g.nodes[i].shape
  <2>1. NodeError(g, x, g.nodes[i]) = NoError
    OBVIOUS
  <2> QED
    BY <1>2, <2>1 DEF NodeError, NoError
<1> HIDE DEF h
<1>3. DOMAIN h.nodes = DOMAIN g.nodes /\ \A i \in DOMAIN g.nodes : ResuppliedNode(g.nodes[i], x, h.nodes[i])
  BY <1>1 DEF Resupplied
<1>4. \A i \in DOMAIN g.nodes : 1 .. (i - 1) \subseteq DOMAIN g.nodes
  <2>1. g.nodes \in Seq(Node)
    BY DEF Program
  <2> QED
    BY <2>1
<1>5. ASSUME NEW i \in DOMAIN g.nodes, NEW l \in 1 .. (i - 1), NEW r \in 1 .. (i - 1),
             h.nodes[i].op # "INPUT", OperandIs(h, i, 1, l), OperandIs(h, i, 2, r)
      PROVE  ShapeRule(h.nodes[i].op, h.nodes[l].shape, h.nodes[r].shape, h.nodes[i].shape)
  <2>1. l \in DOMAIN g.nodes /\ r \in DOMAIN g.nodes
    BY <1>4
  <2>2. /\ h.nodes[i].op = g.nodes[i].op /\ h.nodes[i].inputs = g.nodes[i].inputs
        /\ h.nodes[i].shape = g.nodes[i].shape
        /\ h.nodes[l].id = g.nodes[l].id /\ h.nodes[r].id = g.nodes[r].id
    BY <1>3, <1>5, <2>1 DEF ResuppliedNode
  <2>3. Shp(i, 1) = h.nodes[l].shape /\ Shp(i, 2) = h.nodes[r].shape
    BY <1>1, <1>5, <2>1, <2>2, SuppliedOperand DEF OperandIs
  <2>4. g.nodes[i].op \in {"ADD", "MUL", "GEMM"}
    <3>1. g.nodes[i] \in Node
      BY DEF Program
    <3> QED
      BY <1>5, <2>2, <3>1 DEF Node, Op, Elementwise
  <2> QED
    BY <1>2, <1>5, <2>2, <2>3, <2>4 DEF ShapeRule, ResultShape, Elementwise
<1> QED
  BY <1>3, <1>5 DEF ShapesAgree, h

(* Inputs of the shapes the graph declares leave it as it is. *)
LEMMA SameShapes ==
  ASSUME NEW g \in Program, WellFormed(g), NEW x, NEW h, Resupplied(g, x, h),
         \A id \in DOMAIN x \cap InputNodes(g) : x[id].shape = ShapeOf(g, id)
  PROVE  /\ \A i \in DOMAIN g.nodes : h.nodes[i].shape = g.nodes[i].shape
         /\ ShapesAgree(h)
<1>1. ASSUME NEW i \in DOMAIN g.nodes
      PROVE  h.nodes[i].shape = g.nodes[i].shape
  <2>1. ResuppliedNode(g.nodes[i], x, h.nodes[i])
    BY DEF Resupplied
  <2>2. ShapeOf(g, g.nodes[i].id) = g.nodes[i].shape
    BY AsSuppliedIndex DEF ShapeOf
  <2>3. g.nodes[i].op = "INPUT" => g.nodes[i].id \in InputNodes(g)
    BY DEF InputNodes
  <2> QED
    BY <2>1, <2>2, <2>3 DEF ResuppliedNode
<1>2. DOMAIN h.nodes = DOMAIN g.nodes
      /\ \A i \in DOMAIN g.nodes : /\ h.nodes[i].op = g.nodes[i].op /\ h.nodes[i].id = g.nodes[i].id
                                    /\ h.nodes[i].inputs = g.nodes[i].inputs
  BY DEF Resupplied, ResuppliedNode
<1>3. \A i \in DOMAIN g.nodes : 1 .. (i - 1) \subseteq DOMAIN g.nodes
  <2>1. g.nodes \in Seq(Node)
    BY DEF Program
  <2> QED
    BY <2>1
<1>4. ASSUME NEW i \in DOMAIN g.nodes, NEW l \in 1 .. (i - 1), NEW r \in 1 .. (i - 1),
             h.nodes[i].op # "INPUT", OperandIs(h, i, 1, l), OperandIs(h, i, 2, r)
      PROVE  ShapeRule(h.nodes[i].op, h.nodes[l].shape, h.nodes[r].shape, h.nodes[i].shape)
  <2>1. l \in DOMAIN g.nodes /\ r \in DOMAIN g.nodes
    BY <1>3
  <2>2. g.nodes[i].op # "INPUT" /\ OperandIs(g, i, 1, l) /\ OperandIs(g, i, 2, r)
    BY <1>2, <1>4, <2>1 DEF OperandIs
  <2>3. ShapeRule(g.nodes[i].op, g.nodes[l].shape, g.nodes[r].shape, g.nodes[i].shape)
    BY <2>2 DEF WellFormed, ShapesAgree
  <2> QED
    BY <1>1, <1>2, <2>1, <2>3
<1> QED
  BY <1>1, <1>2, <1>4 DEF ShapesAgree

(* An execution that starts: the nodes' values are defined, and each       *)
(* output has a value of its shape.                                        *)
TypedInputs(x) == \A id \in DOMAIN x : x[id].shape \in Shape /\ x[id].payload \in Payload(x[id].shape)

LEMMA ComputableAsSupplied ==
  ASSUME NEW g \in Program, WellFormed(g), NEW x, TypedInputs(x),
         ShapesAgree(AsSupplied(g, x)), InputNodes(g) \cap Reads(g) \subseteq DOMAIN x
  PROVE  Computable(AsSupplied(g, x), Payloads(x))
<1> DEFINE h == AsSupplied(g, x)
<1>1. Resupplied(g, x, h)
  BY AsSuppliedNodes
<1>2. ShapesAgree(h)
  OBVIOUS
<1> HIDE DEF h
<1>3. InputNodes(h) = InputNodes(g) /\ Reads(h) = Reads(g)
  BY <1>1, <1>2, AsSuppliedWellFormed DEF TypedInputs
<1>4. ASSUME NEW id \in InputNodes(g) \cap Reads(g)
      PROVE  id \in DOMAIN Payloads(x) /\ Payloads(x)[id] \in Payload(ShapeOf(h, id))
  <2>1. id \in DOMAIN x
    OBVIOUS
  <2>2. PICK i \in DOMAIN g.nodes : g.nodes[i].op = "INPUT" /\ g.nodes[i].id = id
    BY DEF InputNodes
  <2>3. h.nodes[i].shape = x[id].shape
    BY <1>1, <2>1, <2>2 DEF Resupplied, ResuppliedNode
  <2>4. NodeIndex(h, id) = i
    BY <1>1, <2>2, AsSuppliedIndex
  <2>5. ShapeOf(h, id) = x[id].shape
    BY <2>3, <2>4 DEF ShapeOf
  <2>6. id \in DOMAIN Payloads(x) /\ Payloads(x)[id] = x[id].payload
    BY <2>1 DEF Payloads
  <2>7. x[id].payload \in Payload(x[id].shape)
    BY <2>1 DEF TypedInputs
  <2> QED
    BY <2>5, <2>6, <2>7, Zenon
<1> QED
  BY <1>2, <1>3, <1>4 DEF Computable, h

LEMMA OutputsTyped ==
  ASSUME NEW g \in Program, WellFormed(g), NEW x, TypedInputs(x),
         Computable(AsSupplied(g, x), Payloads(x)),
         NEW id \in Range(g.output_ids)
  PROVE  /\ NodeIndex(AsSupplied(g, x), id) = NodeIndex(g, id)
         /\ ShapeOf(AsSupplied(g, x), id) \in Shape
         /\ NodeValues(AsSupplied(g, x), Payloads(x))[NodeIndex(g, id)]
              \in Payload(ShapeOf(AsSupplied(g, x), id))
<1> DEFINE h == AsSupplied(g, x)
           in == Payloads(x)
<1>1. Resupplied(g, x, h)
  BY AsSuppliedNodes
<1>2. Computable(h, in)
  OBVIOUS
<1> HIDE DEF h, in
<1>3. h \in Program /\ WellFormed(h) /\ InputNodes(h) = InputNodes(g) /\ Reads(h) = Reads(g)
  BY <1>1, <1>2, AsSuppliedWellFormed DEF Computable, TypedInputs
<1>4. PICK i \in DOMAIN g.nodes : g.nodes[i].id = id
  BY DEF WellFormed, InterfaceAgrees, Range
<1>5. NodeIndex(h, id) = i /\ NodeIndex(g, id) = i
  BY <1>1, <1>4, AsSuppliedIndex
<1>6. i \in DOMAIN h.nodes /\ h.nodes[i].id = id
  BY <1>1, <1>4 DEF Resupplied, ResuppliedNode
<1>7. Valued(h, i)
  <2>1. id \in Reads(g)
    BY DEF Reads
  <2> QED
    BY <1>3, <1>6, <2>1 DEF Valued
<1>8. NodeValues(h, in)[i] \in Payload(h.nodes[i].shape)
  BY <1>2, <1>3, <1>6, <1>7, NodeValuesTyped DEF Computable
<1>9. h.nodes[i].shape \in Shape
  <2>1. h.nodes[i] \in Node
    BY <1>3, <1>6 DEF Program
  <2> QED
    BY <2>1 DEF Node
<1> QED
  BY <1>5, <1>8, <1>9 DEF ShapeOf, h, in

-----------------------------------------------------------------------------
(* What the caller holds.  The inductive invariant says what TypeOK does,  *)
(* and besides that an artifact is one of a program of the caller's, that  *)
(* a part names the session it came from, and what a report hands over.    *)

TypedTensor(t) ==
  /\ t.session_id \in Provider /\ t.provider_id = Kind[t.session_id]
  /\ t.shape \in Shape /\ t.payload \in Payload(t.shape)

TensorsFit == IsFiniteSet(tensors) /\ Cardinality(tensors) <= MaxTensors

ArtifactOfCaller ==
  artifact # NoArtifact =>
    /\ artifact.session_id \in Provider /\ artifact.provider_id = Kind[artifact.session_id]
    /\ \E r \in CallerProgram : r.id = artifact.program_id /\ r.graph = artifact.graph
    /\ \A name \in DOMAIN artifact.parts :
         artifact.parts[name].provider_id = Kind[artifact.parts[name].session_id]

ReportTyped ==
  report.error = NoError /\ report.call = "execute" =>
    \A id \in DOMAIN report.result.outputs : TypedTensor(report.result.outputs[id])

TypeInv ==
  /\ TensorsFit
  /\ \A t \in tensors : TypedTensor(t)
  /\ ArtifactComplete
  /\ ArtifactOfCaller
  /\ ReportTyped

LEMMA KeepTyped ==
  ASSUME TensorsFit, \A t \in tensors : TypedTensor(t),
         NEW new, TypedTensor(new), KeepWith({new})
  PROVE  TensorsFit' /\ \A t \in tensors' : TypedTensor(t)
<1>1. PICK kept \in SUBSET tensors :
        Cardinality(kept) + Cardinality({new}) <= MaxTensors /\ tensors' = kept \cup {new}
  BY DEF KeepWith
<1>2. IsFiniteSet(kept) /\ IsFiniteSet(tensors)
  BY FS_Subset DEF TensorsFit
<1>3. IsFiniteSet({new}) /\ Cardinality({new}) = 1
  BY FS_Singleton
<1>4. /\ IsFiniteSet(kept \cup {new})
      /\ Cardinality(kept \cup {new}) = IF new \in kept THEN Cardinality(kept) ELSE Cardinality(kept) + 1
  BY <1>2, FS_AddElement
<1>5. Cardinality(kept) \in Nat
  BY <1>2, FS_CardinalityType
<1>6. TensorsFit'
  <2> DEFINE c == Cardinality(kept)
             d == Cardinality(kept \cup {new})
  <2>1. c \in Nat /\ c + 1 <= MaxTensors /\ (d = c \/ d = c + 1)
    BY <1>1, <1>3, <1>4, <1>5
  <2> HIDE DEF c, d
  <2>2. d <= MaxTensors
    BY <2>1, MaxTensorsAssumption
  <2> QED
    BY <1>1, <1>4, <2>2 DEF TensorsFit, d
<1>7. \A t \in tensors' : TypedTensor(t)
  BY <1>1
<1> QED
  BY <1>6, <1>7

(* The inputs of a call are tensors the caller holds. *)
LEMMA SuppliedTyped ==
  ASSUME \A t \in tensors : TypedTensor(t), NEW x \in Supplied
  PROVE  TypedInputs(x) /\ \A id \in DOMAIN x : TypedTensor(x[id])
<1>1. \A id \in DOMAIN x : x[id] \in tensors
  BY DEF Supplied
<1> QED
  BY <1>1 DEF TypedInputs, TypedTensor

LEMMA ArtifactGraph ==
  ASSUME ArtifactOfCaller, artifact # NoArtifact
  PROVE  artifact.graph \in Program /\ WellFormed(artifact.graph)
BY CallerProgramAssumption, CorpusAssumption DEF ArtifactOfCaller

(* CKKS: what the provider's checks leave. *)
LEMMA CKKSChecked ==
  ASSUME NEW p, NEW a, NEW x, CKKSFaults(p, a, x) = {}
  PROVE  /\ DOMAIN x = InputNodes(a.graph)
         /\ \A id \in DOMAIN x : x[id].shape = ShapeOf(a.graph, id)
<1>1. ArtifactFits(p, a) /\ DOMAIN x = InputNodes(a.graph)
  BY DEF CKKSFaults
<1>2. {"ProviderConfigurationError" : id \in {i \in DOMAIN x : x[i].shape # ShapeOf(a.graph, i)}} = {}
  BY <1>1 DEF CKKSFaults
<1>3. \A id \in DOMAIN x : x[id].shape = ShapeOf(a.graph, id)
  <2> SUFFICES ASSUME NEW id \in DOMAIN x, x[id].shape # ShapeOf(a.graph, id) PROVE FALSE
    OBVIOUS
  <2>1. id \in {i \in DOMAIN x : x[i].shape # ShapeOf(a.graph, i)}
    OBVIOUS
  <2> QED
    BY <1>2, <2>1
<1> QED
  BY <1>1, <1>3

LEMMA PlaintextChecked ==
  ASSUME NEW p, NEW a, NEW x, PlaintextFaults(p, a, x) = {},
         \A id \in DOMAIN x : TensorError(p, x[id]) = NoError
  PROVE  InterpreterFaults(a.graph, x) = {}
BY DEF PlaintextFaults

(* An execution that starts has what it needs. *)
LEMMA Executable ==
  ASSUME TypeInv, artifact # NoArtifact, NEW p \in Provider, NEW q \in CallerProgram,
         NEW x \in Supplied, InputsAreFor(p, q, x), ProviderFaults(p, artifact, x) = {}
  PROVE  Computable(AsSupplied(artifact.graph, x), Payloads(x))
<1> DEFINE g == artifact.graph
<1>1. g \in Program /\ WellFormed(g) /\ TypedInputs(x)
  BY ArtifactGraph, SuppliedTyped DEF TypeInv
<1>2. CASE Kind[p] = "ckks"
  <2>1. DOMAIN x = InputNodes(g) /\ \A id \in DOMAIN x : x[id].shape = ShapeOf(g, id)
    BY <1>2, CKKSChecked DEF ProviderFaults
  <2>2. ShapesAgree(AsSupplied(g, x))
    BY <1>1, <2>1, SameShapes, AsSuppliedNodes
  <2> QED
    BY <1>1, <2>1, <2>2, ComputableAsSupplied
<1>3. CASE Kind[p] # "ckks"
  <2>1. InterpreterFaults(g, x) = {}
    BY <1>3, PlaintextChecked DEF ProviderFaults, InputsAreFor
  <2> HIDE DEF g
  <2>2. /\ \A i \in DOMAIN g.nodes : NodeError(g, x, g.nodes[i]) = NoError
        /\ \A id \in Range(g.output_ids) : ~NotSupplied(g, x, id)
    BY <1>1, <2>1, NothingWrong
  <2>3. ShapesAgree(AsSupplied(g, x))
    BY <1>1, <2>2, CheckedShapesAgree
  <2>4. ASSUME NEW id \in InputNodes(g) \cap Reads(g)
        PROVE  id \in DOMAIN x
    <3>1. CASE id \in Range(g.output_ids)
      BY <2>2, <3>1 DEF NotSupplied
    <3>2. ASSUME NEW i \in DOMAIN g.nodes, g.nodes[i].op # "INPUT",
                 NEW k \in {1, 2}, g.nodes[i].inputs[k] = id
          PROVE  id \in DOMAIN x
      <4>1. NodeError(g, x, g.nodes[i]) = NoError
        BY <2>2
      <4>2. ~NotSupplied(g, x, g.nodes[i].inputs[k])
        BY <3>2, <4>1 DEF NodeError, NoError
      <4> QED
        BY <3>2, <4>2 DEF NotSupplied
    <3> QED
      BY <1>1, <3>1, <3>2, ReadByNodeOrOutput
  <2>5. Computable(AsSupplied(g, x), Payloads(x))
    BY <1>1, <2>3, <2>4, ComputableAsSupplied
  <2> QED
    BY <2>5 DEF g
<1> QED
  BY <1>2, <1>3

(* What it yields: a tensor of the session for each output, of the shape   *)
(* the output has; of an artifact as it was made, the output's value.      *)
LEMMA OutputsAre ==
  ASSUME TypeInv, artifact # NoArtifact, NEW p \in Provider, NEW q \in CallerProgram,
         NEW x \in Supplied, InputsAreFor(p, q, x), ProviderFaults(p, artifact, x) = {},
         NEW out \in Outputs(p, artifact, x)
  PROVE  LET g == artifact.graph
             h == AsSupplied(g, x)
         IN  /\ DOMAIN out = Range(g.output_ids)
             /\ \A id \in Range(g.output_ids) :
                  /\ out[id].provider_id = Kind[p] /\ out[id].session_id = p
                  /\ out[id].shape = ShapeOf(h, id) /\ out[id].payload \in Payload(ShapeOf(h, id))
                  /\ ShapeOf(h, id) \in Shape
                  /\ Intact(artifact) =>
                       out[id].payload = NodeValues(h, Payloads(x))[NodeIndex(g, id)]
<1> DEFINE g == artifact.graph
           h == AsSupplied(g, x)
           v == NodeValues(h, Payloads(x))
           ids == Range(g.output_ids)
           origins == (UNION {x[id].origins : id \in DOMAIN x})
                        \cup {artifact.parts[name].session_id : name \in DOMAIN artifact.parts}
           T(id, y) == Tensor(p, ShapeOf(h, id), y, origins)
<1>1. g \in Program /\ WellFormed(g) /\ TypedInputs(x)
  BY ArtifactGraph, SuppliedTyped DEF TypeInv
<1>2. Computable(h, Payloads(x))
  BY Executable
<1>3. \A id \in ids : /\ NodeIndex(h, id) = NodeIndex(g, id) /\ ShapeOf(h, id) \in Shape
                      /\ v[NodeIndex(g, id)] \in Payload(ShapeOf(h, id))
  <2> HIDE DEF g
  <2> QED
    BY <1>1, <1>2, OutputsTyped
<1>4. Range(h.output_ids) = ids
  <2>1. Resupplied(g, x, h)
    BY <1>1, AsSuppliedNodes
  <2>2. h.output_ids = g.output_ids
    <3> HIDE DEF g, h
    <3> QED
      BY <2>1 DEF Resupplied
  <2> QED
    BY <2>2
<1>5. \E y : /\ out = [id \in ids |-> T(id, y[id])]
             /\ \A id \in ids : y[id] \in Payload(ShapeOf(h, id))
             /\ Intact(artifact) => \A id \in ids : y[id] = v[NodeIndex(g, id)]
  <2>1. CASE Intact(artifact)
    <3> DEFINE y == [id \in ids |-> v[NodeIndex(h, id)]]
    <3>1. out = [id \in ids |-> T(id, y[id])]
      BY <1>4, <2>1 DEF Outputs
    <3>2. \A id \in ids : y[id] = v[NodeIndex(g, id)]
      BY <1>3
    <3> HIDE DEF y, v, T, h, ids
    <3> QED
      BY <1>3, <3>1, <3>2
  <2>2. CASE ~Intact(artifact)
    <3>1. PICK y \in [ids -> UNION {Payload(ShapeOf(h, id)) : id \in ids}] :
            /\ \A id \in ids : y[id] \in Payload(ShapeOf(h, id))
            /\ out = [id \in ids |-> T(id, y[id])]
      BY <1>4, <2>2 DEF Outputs
    <3> HIDE DEF v, T, h, ids
    <3> QED
      BY <2>2, <3>1
  <2> QED
    BY <2>1, <2>2
<1>6. PICK y : /\ out = [id \in ids |-> T(id, y[id])]
               /\ \A id \in ids : y[id] \in Payload(ShapeOf(h, id))
               /\ Intact(artifact) => \A id \in ids : y[id] = v[NodeIndex(g, id)]
  BY <1>5
<1>7. \A id, z : /\ T(id, z).provider_id = Kind[p] /\ T(id, z).session_id = p
                 /\ T(id, z).shape = ShapeOf(h, id) /\ T(id, z).payload = z
  BY DEF Tensor
<1>8. DOMAIN out = ids /\ \A id \in ids : out[id] = T(id, y[id])
  <2> HIDE DEF T, ids
  <2> QED
    BY <1>6
<1>9. ASSUME NEW id \in ids
      PROVE  /\ out[id].provider_id = Kind[p] /\ out[id].session_id = p
             /\ out[id].shape = ShapeOf(h, id) /\ out[id].payload \in Payload(ShapeOf(h, id))
             /\ ShapeOf(h, id) \in Shape
             /\ Intact(artifact) => out[id].payload = v[NodeIndex(g, id)]
  <2> HIDE DEF T, h, v, ids, g
  <2> QED
    BY <1>3, <1>6, <1>7, <1>8
<1> QED
  BY <1>8, <1>9

-----------------------------------------------------------------------------
(* The inductive invariant: what the caller holds is typed, and the two    *)
(* statements about the report of an execution.                            *)
RuntimeInv == TypeInv /\ ReportIsMeant /\ OwnProgramErrors

LEMMA RuntimeInit == Init => RuntimeInv
<1> SUFFICES ASSUME Init PROVE RuntimeInv
  OBVIOUS
<1>1. TensorsFit
  <2>1. IsFiniteSet({}) /\ Cardinality({}) = 0
    BY FS_EmptySet
  <2> QED
    BY <2>1, MaxTensorsAssumption DEF Init, TensorsFit
<1>2. ArtifactComplete /\ ArtifactOfCaller
  BY DEF Init, ArtifactComplete, ArtifactOfCaller
<1>3. report.call # "execute"
  BY DEF Init, Idle
<1> QED
  BY <1>1, <1>2, <1>3 DEF Init, RuntimeInv, TypeInv, ReportTyped, ReportIsMeant, OwnProgramErrors

LEMMA OtherReports ==
  ASSUME report'.call # "execute"
  PROVE  ReportTyped' /\ ReportIsMeant' /\ OwnProgramErrors'
BY DEF ReportTyped, ReportIsMeant, OwnProgramErrors

LEMMA SameArtifact ==
  ASSUME TypeInv, UNCHANGED artifact
  PROVE  ArtifactComplete' /\ ArtifactOfCaller'
<1>1. ArtifactComplete' <=> ArtifactComplete
  BY DEF ArtifactComplete
<1>2. ArtifactOfCaller' <=> ArtifactOfCaller
  BY DEF ArtifactOfCaller
<1> QED
  BY <1>1, <1>2 DEF TypeInv

LEMMA SameTensors ==
  ASSUME TypeInv, UNCHANGED tensors
  PROVE  TensorsFit' /\ \A t \in tensors' : TypedTensor(t)
BY DEF TypeInv, TensorsFit

LEMMA EncryptTensorTyped ==
  ASSUME RuntimeInv, NEW p \in Provider, EncryptTensor(p)
  PROVE  RuntimeInv'
<1>1. report'.call # "execute"
  BY DEF EncryptTensor, Ok, Raised
<1>2. TypeInv
  BY DEF RuntimeInv
<1>3. ArtifactComplete' /\ ArtifactOfCaller'
  BY <1>2, SameArtifact DEF EncryptTensor
<1>4. TensorsFit' /\ \A t \in tensors' : TypedTensor(t)
  <2>1. CASE UNCHANGED tensors
    BY <1>2, <2>1, SameTensors
  <2>2. CASE \E s \in Shape : \E x \in Payload(s) : KeepWith({Tensor(p, s, x, {p})})
    <3>1. PICK s \in Shape : \E x \in Payload(s) : KeepWith({Tensor(p, s, x, {p})})
      BY <2>2
    <3>2. PICK x \in Payload(s) : KeepWith({Tensor(p, s, x, {p})})
      BY <3>1
    <3>3. TypedTensor(Tensor(p, s, x, {p}))
      BY DEF TypedTensor, Tensor
    <3> QED
      BY <1>2, <3>2, <3>3, KeepTyped DEF TypeInv
  <2> QED
    BY <2>1, <2>2 DEF EncryptTensor
<1> QED
  BY <1>1, <1>3, <1>4, OtherReports DEF RuntimeInv, TypeInv

(* A pair that is accepted gives a tensor of the shape of the result. *)
LEMMA PairTyped ==
  ASSUME NEW p, NEW op \in Elementwise \cup {"GEMM"}, NEW l, NEW r,
         TypedTensor(l), TypedTensor(r), PairError(p, op, l, r) = NoError,
         ResultShape(op, l.shape, r.shape) \in Shape
  PROVE  Apply(op, l.shape, r.shape, l.payload, r.payload) \in Payload(ResultShape(op, l.shape, r.shape))
<1>1. /\ op \in Elementwise => l.shape = r.shape
      /\ op = "GEMM" => GemmConforms(l.shape, r.shape)
  BY DEF PairError, NoError
<1> DEFINE s == l.shape
           t == r.shape
           x == l.payload
           y == r.payload
<1>2. /\ s \in Shape /\ t \in Shape /\ x \in Payload(s) /\ y \in Payload(t)
      /\ op \in {"ADD", "MUL"} => s = t
      /\ op = "GEMM" => GemmConforms(s, t)
      /\ op \in {"ADD", "MUL", "GEMM"} /\ ResultShape(op, s, t) \in Shape
  BY <1>1 DEF TypedTensor, Elementwise
<1> HIDE DEF s, t, x, y
<1>3. Apply(op, s, t, x, y) \in Payload(ResultShape(op, s, t))
  BY <1>2, KernelsClosed DEF Apply, ResultShape
<1> QED
  BY <1>3 DEF s, t, x, y

LEMMA OperateTyped ==
  ASSUME RuntimeInv, NEW p \in Provider, NEW op \in Elementwise \cup {"GEMM"},
         NEW l \in tensors, NEW r \in tensors, Operate(p, op, l, r)
  PROVE  RuntimeInv'
<1> DEFINE new == Tensor(p, ResultShape(op, l.shape, r.shape),
                         Apply(op, l.shape, r.shape, l.payload, r.payload),
                         l.origins \cup r.origins)
<1>1. report'.call # "execute"
  BY DEF Operate, Ok, Raised
<1>2. TypeInv
  BY DEF RuntimeInv
<1>3. ArtifactComplete' /\ ArtifactOfCaller'
  BY <1>2, SameArtifact DEF Operate
<1>4. TensorsFit' /\ \A t \in tensors' : TypedTensor(t)
  <2>1. CASE UNCHANGED tensors
    BY <1>2, <2>1, SameTensors
  <2>2. CASE /\ PairError(p, op, l, r) = NoError
             /\ ResultShape(op, l.shape, r.shape) \in Shape
             /\ KeepWith({new})
    <3>1. TypedTensor(l) /\ TypedTensor(r)
      BY <1>2 DEF TypeInv
    <3>2. Apply(op, l.shape, r.shape, l.payload, r.payload)
            \in Payload(ResultShape(op, l.shape, r.shape))
      BY <2>2, <3>1, PairTyped
    <3>3. TypedTensor(new)
      BY <2>2, <3>2 DEF TypedTensor, Tensor
    <3> HIDE DEF new
    <3> QED
      BY <1>2, <2>2, <3>3, KeepTyped DEF TypeInv
  <2> QED
    BY <2>1, <2>2 DEF Operate
<1> QED
  BY <1>1, <1>3, <1>4, OtherReports DEF RuntimeInv, TypeInv

LEMMA DecryptTyped ==
  ASSUME RuntimeInv, NEW p \in Provider, NEW t \in tensors, Decrypt(p, t)
  PROVE  RuntimeInv'
<1>1. report'.call # "execute"
  BY DEF Decrypt, Ok, Raised
<1>2. TypeInv /\ UNCHANGED <<tensors, artifact>>
  BY DEF RuntimeInv, Decrypt
<1> QED
  BY <1>1, <1>2, OtherReports, SameArtifact, SameTensors DEF RuntimeInv, TypeInv

LEMMA EncryptProgramTyped ==
  ASSUME RuntimeInv, NEW p \in Provider, NEW q \in CallerProgram, EncryptProgram(p, q)
  PROVE  RuntimeInv'
<1>1. report'.call # "execute"
  BY DEF EncryptProgram, Ok, Raised
<1>2. TypeInv /\ UNCHANGED tensors
  BY DEF RuntimeInv, EncryptProgram
<1>3. ArtifactComplete' /\ ArtifactOfCaller'
  <2>1. CASE UNCHANGED artifact
    BY <1>2, <2>1, SameArtifact
  <2>2. CASE artifact' = Encrypted(p, q)
    <3>1. ArtifactComplete'
      BY <2>2 DEF ArtifactComplete, Encrypted
    <3>2. /\ artifact'.session_id = p /\ artifact'.provider_id = Kind[p]
          /\ artifact'.program_id = q.id /\ artifact'.graph = q.graph
          /\ \A name \in DOMAIN artifact'.parts : artifact'.parts[name] = PartOf(p, q.graph)
      BY <2>2 DEF Encrypted
    <3>3. PartOf(p, q.graph).provider_id = Kind[PartOf(p, q.graph).session_id]
      BY DEF PartOf
    <3>4. \A name \in DOMAIN artifact'.parts :
            artifact'.parts[name].provider_id = Kind[artifact'.parts[name].session_id]
      BY <3>2, <3>3
    <3>5. ArtifactOfCaller'
      BY <3>2, <3>4 DEF ArtifactOfCaller
    <3> QED
      BY <3>1, <3>5
  <2> QED
    BY <2>1, <2>2 DEF EncryptProgram
<1> QED
  BY <1>1, <1>2, <1>3, OtherReports, SameTensors DEF RuntimeInv, TypeInv

LEMMA ReassembleTyped ==
  ASSUME RuntimeInv, NEW p \in Provider, NEW g, Reassemble(p, g)
  PROVE  RuntimeInv'
<1>1. report'.call # "execute"
  BY DEF Reassemble, Ok
<1>2. TypeInv /\ UNCHANGED tensors /\ artifact # NoArtifact
  BY DEF RuntimeInv, Reassemble
<1>3. PICK name \in DOMAIN artifact.parts :
        artifact' = [artifact EXCEPT !.parts[name] = PartOf(p, g)]
  BY DEF Reassemble
<1>4. /\ artifact = [provider_id |-> artifact.provider_id, session_id |-> artifact.session_id,
                     program_id |-> artifact.program_id, graph |-> artifact.graph,
                     parts |-> artifact.parts]
      /\ DOMAIN artifact.parts = IF artifact.provider_id = "ckks" THEN TensorNames ELSE {}
  BY <1>2 DEF TypeInv, ArtifactComplete
<1> DEFINE parts == [artifact.parts EXCEPT ![name] = PartOf(p, g)]
<1>5. artifact' = [provider_id |-> artifact.provider_id, session_id |-> artifact.session_id,
                   program_id |-> artifact.program_id, graph |-> artifact.graph,
                   parts |-> parts]
  BY <1>3, <1>4
<1>6. DOMAIN parts = DOMAIN artifact.parts
      /\ \A k \in DOMAIN parts : parts[k] = IF k = name THEN PartOf(p, g) ELSE artifact.parts[k]
  OBVIOUS
<1> HIDE DEF parts
<1>7. /\ artifact'.provider_id = artifact.provider_id /\ artifact'.session_id = artifact.session_id
      /\ artifact'.program_id = artifact.program_id /\ artifact'.graph = artifact.graph
      /\ artifact'.parts = parts
  BY <1>5
<1>8. ArtifactComplete'
  BY <1>4, <1>5, <1>6, <1>7 DEF ArtifactComplete
<1>9. ArtifactOfCaller'
  <2>1. PartOf(p, g).provider_id = Kind[PartOf(p, g).session_id]
    BY DEF PartOf
  <2>2. \A k \in DOMAIN parts : parts[k].provider_id = Kind[parts[k].session_id]
    BY <1>2, <1>6, <2>1 DEF TypeInv, ArtifactOfCaller
  <2> QED
    BY <1>2, <1>7, <2>2 DEF TypeInv, ArtifactOfCaller
<1> QED
  BY <1>1, <1>2, <1>8, <1>9, OtherReports, SameTensors DEF RuntimeInv, TypeInv

LEMMA TakeOutputTyped ==
  ASSUME RuntimeInv, TakeOutput
  PROVE  RuntimeInv'
<1>1. report'.call # "execute"
  BY DEF TakeOutput, Idle
<1>2. TypeInv /\ UNCHANGED artifact
  BY DEF RuntimeInv, TakeOutput
<1>3. PICK id \in DOMAIN report.result.outputs : KeepWith({report.result.outputs[id]})
  BY DEF TakeOutput
<1>4. TypedTensor(report.result.outputs[id])
  BY <1>2 DEF TypeInv, ReportTyped, TakeOutput
<1>5. TensorsFit' /\ \A t \in tensors' : TypedTensor(t)
  BY <1>2, <1>3, <1>4, KeepTyped DEF TypeInv
<1> QED
  BY <1>1, <1>2, <1>5, OtherReports, SameArtifact DEF RuntimeInv, TypeInv

LEMMA ProceedTyped ==
  ASSUME RuntimeInv, Proceed
  PROVE  RuntimeInv'
<1>1. report'.call # "execute"
  BY DEF Proceed, Idle
<1>2. TypeInv /\ UNCHANGED <<tensors, artifact>>
  BY DEF RuntimeInv, Proceed
<1> QED
  BY <1>1, <1>2, OtherReports, SameArtifact, SameTensors DEF RuntimeInv, TypeInv

(* Of an artifact of the program itself, as it was made, the provider      *)
(* finds fault with nothing: its checks repeat those of the runtime.       *)
LEMMA OwnChecked ==
  ASSUME TypeInv, artifact # NoArtifact, NEW p \in Provider, NEW q \in CallerProgram,
         NEW x \in Supplied, ArtifactIsFor(p, q, artifact), InputsAreFor(p, q, x),
         Intact(artifact), artifact.graph = q.graph
  PROVE  ProviderFaults(p, artifact, x) = {}
<1> DEFINE g == q.graph
           h == AsSupplied(g, x)
<1>1. g \in Program /\ WellFormed(g)
  BY ArtifactGraph DEF TypeInv
<1>2. artifact.provider_id = Kind[p] /\ artifact.session_id = p
  BY DEF ArtifactIsFor
<1>3. DOMAIN x = InputNodes(g)
      /\ \A id \in DOMAIN x : TensorError(p, x[id]) = NoError /\ x[id].shape = ShapeOf(g, id)
  BY DEF InputsAreFor
<1>4. CASE Kind[p] = "ckks"
  <2>1. DOMAIN artifact.parts = TensorNames
    BY <1>2, <1>4 DEF TypeInv, ArtifactComplete
  <2>2. \A name \in TensorNames : /\ artifact.parts[name].session_id = p
                                  /\ artifact.parts[name].provider_id = Kind[p]
                                  /\ artifact.parts[name].graph = artifact.graph
    BY <1>2, <2>1 DEF TypeInv, ArtifactOfCaller, Intact
  <2>3. ArtifactFits(p, artifact)
    BY <1>2, <2>2 DEF ArtifactFits
  <2>4. {TensorError(p, x[id]) : id \in DOMAIN x} \ {NoError} = {}
    BY <1>3
  <2>5. {i \in DOMAIN x : x[i].shape # ShapeOf(artifact.graph, i)} = {}
    BY <1>3
  <2>6. CKKSFaults(p, artifact, x) = {}
    BY <1>3, <2>3, <2>4, <2>5 DEF CKKSFaults
  <2> QED
    BY <1>4, <2>6 DEF ProviderFaults
<1>5. CASE Kind[p] # "ckks"
  <2>1. Resupplied(g, x, h)
    BY <1>1, AsSuppliedNodes
  <2>2. \A i \in DOMAIN g.nodes : h.nodes[i].shape = g.nodes[i].shape
    <3> HIDE DEF g, h
    <3> QED
      BY <1>1, <1>3, <2>1, SameShapes
  <2>3. ASSUME NEW i \in DOMAIN g.nodes
        PROVE  NodeError(g, x, g.nodes[i]) = NoError
    <3>1. CASE g.nodes[i].op = "INPUT"
      BY <3>1 DEF NodeError
    <3>2. CASE g.nodes[i].op # "INPUT"
      <4> DEFINE l == NodeIndex(g, g.nodes[i].inputs[1])
                 r == NodeIndex(g, g.nodes[i].inputs[2])
      <4>1. /\ l \in 1 .. (i - 1) /\ g.nodes[l].id = g.nodes[i].inputs[1]
            /\ r \in 1 .. (i - 1) /\ g.nodes[r].id = g.nodes[i].inputs[2]
        BY <1>1, <3>2, OperandIsEarlier
      <4>2. l \in DOMAIN g.nodes /\ r \in DOMAIN g.nodes
        <5>1. g.nodes \in Seq(Node)
          BY <1>1 DEF Program
        <5> QED
          BY <4>1, <5>1
      <4>3. ShapeOf(h, g.nodes[i].inputs[1]) = g.nodes[l].shape
            /\ ShapeOf(h, g.nodes[i].inputs[2]) = g.nodes[r].shape
        <5> HIDE DEF g, h, l, r
        <5> QED
          BY <1>1, <2>1, <2>2, <3>2, <4>1, <4>2, SuppliedOperand
      <4>4. ShapeRule(g.nodes[i].op, g.nodes[l].shape, g.nodes[r].shape, g.nodes[i].shape)
        BY <1>1, <3>2, OperandShapes
      <4>5. g.nodes[i].op \in {"ADD", "MUL", "GEMM"}
        <5>1. g.nodes[i] \in Node
          BY <1>1 DEF Program
        <5> QED
          BY <3>2, <5>1 DEF Node, Op, Elementwise
      <4>6. \A k \in {1, 2} : ~NotSupplied(g, x, g.nodes[i].inputs[k])
        BY <1>3 DEF NotSupplied
      <4> HIDE DEF g, l, r
      <4> QED
        BY <3>2, <4>3, <4>4, <4>5, <4>6 DEF NodeError, ShapeRule, ResultShape, Elementwise, h
    <3> QED
      BY <3>1, <3>2
  <2>4. \A id \in Range(g.output_ids) : ~NotSupplied(g, x, id)
    BY <1>3 DEF NotSupplied
  <2>5. InterpreterFaults(g, x) = {}
    <3> HIDE DEF g
    <3> QED
      BY <1>1, <2>3, <2>4, NoFaults
  <2>6. PlaintextFaults(p, artifact, x) = {}
    BY <1>2, <1>3, <2>5 DEF PlaintextFaults
  <2> QED
    BY <1>5, <2>6 DEF ProviderFaults
<1> QED
  BY <1>4, <1>5

(* Nor does the runtime find fault with the outputs. *)
LEMMA OwnOutputs ==
  ASSUME TypeInv, artifact # NoArtifact, NEW p \in Provider, NEW q \in CallerProgram,
         NEW x \in Supplied, ArtifactIsFor(p, q, artifact), InputsAreFor(p, q, x),
         Intact(artifact), artifact.graph = q.graph, NEW out \in Outputs(p, artifact, x)
  PROVE  OutputsAreOf(p, q, out)
<1> DEFINE g == q.graph
           h == AsSupplied(g, x)
<1>1. g \in Program /\ WellFormed(g)
  BY ArtifactGraph DEF TypeInv
<1>2. ProviderFaults(p, artifact, x) = {}
  BY OwnChecked
<1>3. DOMAIN out = Range(g.output_ids)
      /\ \A id \in DOMAIN out : /\ out[id].provider_id = Kind[p] /\ out[id].session_id = p
                                 /\ out[id].shape = ShapeOf(h, id)
  BY <1>2, OutputsAre
<1>4. ASSUME NEW id \in Range(g.output_ids)
      PROVE  ShapeOf(h, id) = ShapeOf(g, id)
  <2>1. Resupplied(g, x, h)
    BY <1>1, AsSuppliedNodes
  <2>2. \A i \in DOMAIN x \cap InputNodes(g) : x[i].shape = ShapeOf(g, i)
    BY DEF InputsAreFor
  <2>3. PICK i \in DOMAIN g.nodes : g.nodes[i].id = id
    BY <1>1 DEF WellFormed, InterfaceAgrees, Range
  <2> HIDE DEF g, h
  <2>4. h.nodes[i].shape = g.nodes[i].shape
    BY <1>1, <2>1, <2>2, SameShapes
  <2>5. NodeIndex(h, id) = i /\ NodeIndex(g, id) = i
    BY <1>1, <2>1, <2>3, AsSuppliedIndex
  <2> QED
    BY <2>4, <2>5 DEF ShapeOf
<1>5. \A t : t.provider_id = Kind[p] /\ t.session_id = p => TensorError(p, t) = NoError
  BY DEF TensorError
<1> QED
  BY <1>3, <1>4, <1>5 DEF OutputsAreOf

(* How a call of execute ends. *)
LEMMA HowExecuteEnds ==
  ASSUME NEW p, NEW q, NEW x, Execute(p, q, x)
  PROVE  LET Checked == ArtifactIsFor(p, q, artifact) /\ InputsAreFor(p, q, x)
             Started == Checked /\ ProviderFaults(p, artifact, x) = {}
         IN  \/ \E out \in Outputs(p, artifact, x) :
                  /\ Started /\ OutputsAreOf(p, q, out)
                  /\ report' = Ok("execute", p,
                                  [program |-> q, inputs |-> Payloads(x), outputs |-> out])
             \/ \E e : /\ report' = RaisedBy("execute", p, e, [program |-> q, fit |-> Fit(p, q, x)])
                       /\ \/ e \in Mishap(p)
                          \/ e = "ProgramValidationError" /\ ~Checked
                          \/ Checked /\ e \in ProviderFaults(p, artifact, x)
                          \/ /\ e = "ProgramValidationError"
                             /\ \E out \in Outputs(p, artifact, x) : Started /\ ~OutputsAreOf(p, q, out)
<1> DEFINE args == [program |-> q, fit |-> Fit(p, q, x)]
           Raise(e) == RaisedBy("execute", p, e, args)
           Done(out) == Ok("execute", p, [program |-> q, inputs |-> Payloads(x), outputs |-> out])
           Return(out) == IF OutputsAreOf(p, q, out) THEN Done(out) ELSE Raise("ProgramValidationError")
           Fails == ~ArtifactIsFor(p, q, artifact) \/ ~InputsAreFor(p, q, x)
           Faults == ProviderFaults(p, artifact, x)
           Outs == Outputs(p, artifact, x)
<1>1. report' \in {Raise(e) : e \in BudgetError(p)} \cup
        IF Fails THEN {Raise("ProgramValidationError")}
        ELSE IF Faults # {} THEN {Raise(e) : e \in Faults}
        ELSE {Raise(e) : e \in LibraryError(p)} \cup {Return(out) : out \in Outs}
  BY DEF Execute, Endings
<1>2. BudgetError(p) \subseteq Mishap(p) /\ LibraryError(p) \subseteq Mishap(p)
  BY DEF Mishap
<1> HIDE DEF Fails, Faults, Outs, Raise, Return
<1>3. CASE \E e \in Mishap(p) : report' = Raise(e)
  BY <1>3 DEF Raise
<1>4. CASE Fails /\ report' = Raise("ProgramValidationError")
  BY <1>4 DEF Fails, Raise
<1>5. CASE ~Fails /\ \E e \in Faults : report' = Raise(e)
  BY <1>5 DEF Fails, Faults, Raise
<1>6. CASE ~Fails /\ Faults = {} /\ \E out \in Outs : report' = Return(out)
  <2>1. PICK out \in Outs : report' = Return(out)
    BY <1>6
  <2>2. CASE OutputsAreOf(p, q, out)
    <3>1. report' = Done(out)
      BY <2>1, <2>2 DEF Return
    <3> QED
      BY <1>6, <2>2, <3>1 DEF Fails, Faults, Outs
  <2>3. CASE ~OutputsAreOf(p, q, out)
    <3>1. report' = Raise("ProgramValidationError")
      BY <2>1, <2>3 DEF Return
    <3> QED
      BY <1>6, <2>3, <3>1 DEF Fails, Faults, Outs, Raise
  <2> QED
    BY <2>2, <2>3
<1> QED
  BY <1>1, <1>2, <1>3, <1>4, <1>5, <1>6

(* ReportIsMeant of one report: program q, inputs in, outputs out. *)
Meant(p, q, in, out) ==
  LET Run(r) == AsSupplied(r.graph, [id \in DOMAIN in |-> [shape |-> ShapeOf(q.graph, id)]])
  IN  /\ OutputsAreOf(p, q, out)
      /\ \E r \in {s \in CallerProgram : s.id = q.id /\ Computable(Run(s), in)} :
           /\ Range(r.graph.output_ids) = DOMAIN out
           /\ \A id \in DOMAIN out :
                out[id].payload = NodeValues(Run(r), in)[NodeIndex(r.graph, id)]

(* A successful execution: q is the program of the call, and x its inputs. *)
LEMMA SuccessMeant ==
  ASSUME TypeInv, artifact # NoArtifact, NEW p \in Provider, NEW q \in CallerProgram,
         NEW x \in Supplied, ArtifactIsFor(p, q, artifact), InputsAreFor(p, q, x),
         ProviderFaults(p, artifact, x) = {}, NEW out \in Outputs(p, artifact, x),
         OutputsAreOf(p, q, out), UNCHANGED artifact,
         report' = Ok("execute", p, [program |-> q, inputs |-> Payloads(x), outputs |-> out])
  PROVE  ReportTyped' /\ ReportIsMeant'
<1> DEFINE g == artifact.graph
           in == Payloads(x)
           y == [id \in DOMAIN in |-> [shape |-> ShapeOf(q.graph, id)]]
<1>1. /\ report'.call = "execute" /\ report'.error = NoError /\ report'.provider = p
      /\ report'.result.program = q /\ report'.result.inputs = in /\ report'.result.outputs = out
  BY DEF Ok
<1>2. DOMAIN out = Range(g.output_ids)
      /\ \A id \in Range(g.output_ids) :
           /\ out[id].provider_id = Kind[p] /\ out[id].session_id = p
           /\ out[id].shape = ShapeOf(AsSupplied(g, x), id)
           /\ out[id].payload \in Payload(ShapeOf(AsSupplied(g, x), id))
           /\ ShapeOf(AsSupplied(g, x), id) \in Shape
           /\ Intact(artifact) =>
                out[id].payload = NodeValues(AsSupplied(g, x), in)[NodeIndex(g, id)]
  BY OutputsAre
<1>3. \A id \in DOMAIN out : TypedTensor(out[id])
  BY <1>2 DEF TypedTensor
<1>4. ReportTyped'
  BY <1>1, <1>3 DEF ReportTyped
<1>5. Computable(AsSupplied(g, x), in)
  BY Executable
<1>6. AsSupplied(g, y) = AsSupplied(g, x)
  <2>1. DOMAIN y = DOMAIN x /\ \A id \in DOMAIN x : y[id].shape = x[id].shape
    BY DEF InputsAreFor, Payloads
  <2> HIDE DEF g, y
  <2> QED
    BY <2>1 DEF AsSupplied
<1>7. PICK r \in CallerProgram : r.id = q.id /\ r.graph = g
  BY DEF TypeInv, ArtifactOfCaller, ArtifactIsFor
<1> DEFINE Run(s) == AsSupplied(s.graph, y)
<1>8. Run(r) = AsSupplied(g, x)
  BY <1>6, <1>7
<1>9. Intact(artifact) =>
        \E s \in {s \in CallerProgram : s.id = q.id /\ Computable(Run(s), in)} :
          /\ Range(s.graph.output_ids) = DOMAIN out
          /\ \A id \in DOMAIN out :
               out[id].payload = NodeValues(Run(s), in)[NodeIndex(s.graph, id)]
  <2> HIDE DEF g, Run, in
  <2> QED
    BY <1>2, <1>5, <1>7, <1>8
<1>10. Intact(artifact) => Meant(p, q, in, out)
  BY <1>9 DEF Meant
<1>11. ReportIsMeant'
  <2>1. Intact(artifact') => Meant(p, q, in, out)
    BY <1>10
  <2> HIDE DEF in
  <2>2. report'.call = "execute" /\ report'.error = NoError /\ Intact(artifact') =>
         Meant(report'.provider, report'.result.program, report'.result.inputs, report'.result.outputs)
    BY <1>1, <2>1
  <2> QED
    BY <2>2 DEF ReportIsMeant, Meant
<1> QED
  BY <1>4, <1>11

(* A failed one. *)
LEMMA FailureOwn ==
  ASSUME TypeInv, artifact # NoArtifact, NEW p \in Provider, NEW q \in CallerProgram,
         NEW x \in Supplied, Execute(p, q, x), report'.error # NoError
  PROVE  OwnProgramErrors'
<1> DEFINE Checked == ArtifactIsFor(p, q, artifact) /\ InputsAreFor(p, q, x)
           Own == /\ Intact(artifact) /\ artifact.session_id = p
                  /\ artifact.program_id = q.id /\ artifact.graph = q.graph
<1>1. PICK e : /\ report' = RaisedBy("execute", p, e, [program |-> q, fit |-> Fit(p, q, x)])
               /\ \/ e \in Mishap(p)
                  \/ e = "ProgramValidationError" /\ ~Checked
                  \/ Checked /\ e \in ProviderFaults(p, artifact, x)
                  \/ /\ e = "ProgramValidationError"
                     /\ \E out \in Outputs(p, artifact, x) : Checked /\ ~OutputsAreOf(p, q, out)
  BY HowExecuteEnds DEF Ok
<1>2. /\ report'.error = e /\ report'.provider = p
      /\ report'.args.program = q /\ report'.args.fit = Fit(p, q, x)
  BY <1>1 DEF RaisedBy
<1>3. UNCHANGED artifact
  BY DEF Execute
<1>4. ASSUME Own
      PROVE  e \in Mishap(p) \/ (e = "ProgramValidationError" /\ ~Fit(p, q, x))
  <2>1. ArtifactIsFor(p, q, artifact)
    BY <1>4 DEF ArtifactIsFor, TypeInv, ArtifactOfCaller
  <2>2. Fit(p, q, x) => InputsAreFor(p, q, x)
    <3>1. \A id \in DOMAIN x : TypedTensor(x[id])
      BY SuppliedTyped DEF TypeInv
    <3>2. \A id \in DOMAIN x : x[id].session_id = p => TensorError(p, x[id]) = NoError
      BY <3>1 DEF TensorError, TypedTensor
    <3> QED
      BY <3>2 DEF Fit, InputsAreFor
  <2>3. Checked => ProviderFaults(p, artifact, x) = {}
    BY <1>4, OwnChecked
  <2>4. Checked => \A out \in Outputs(p, artifact, x) : OutputsAreOf(p, q, out)
    BY <1>4, OwnOutputs
  <2> QED
    BY <1>1, <2>1, <2>2, <2>3, <2>4
<1> QED
  BY <1>2, <1>3, <1>4 DEF OwnProgramErrors

LEMMA ExecuteTyped ==
  ASSUME RuntimeInv, NEW p \in Provider, NEW q \in CallerProgram, NEW x \in Supplied,
         Execute(p, q, x)
  PROVE  RuntimeInv'
<1>1. TypeInv /\ artifact # NoArtifact /\ UNCHANGED <<tensors, artifact>>
  BY DEF RuntimeInv, Execute
<1>2. ReportTyped' /\ ReportIsMeant' /\ OwnProgramErrors'
  <2>1. CASE report'.error # NoError
    <3>1. OwnProgramErrors'
      BY <1>1, <2>1, FailureOwn
    <3> QED
      BY <2>1, <3>1 DEF ReportTyped, ReportIsMeant
  <2>2. CASE report'.error = NoError
    <3>1. OwnProgramErrors'
      BY <2>2 DEF OwnProgramErrors
    <3>2. \A e \in Mishap(p) \cup ProviderFaults(p, artifact, x) \cup {"ProgramValidationError"} :
            e # NoError
      BY MishapIsError, FaultIsError DEF NoError
    <3>3. PICK out \in Outputs(p, artifact, x) :
            /\ ArtifactIsFor(p, q, artifact) /\ InputsAreFor(p, q, x)
            /\ ProviderFaults(p, artifact, x) = {} /\ OutputsAreOf(p, q, out)
            /\ report' = Ok("execute", p, [program |-> q, inputs |-> Payloads(x), outputs |-> out])
      <4>1. ~\E e : /\ report' = RaisedBy("execute", p, e, [program |-> q, fit |-> Fit(p, q, x)])
                   /\ e \in Mishap(p) \cup ProviderFaults(p, artifact, x) \cup {"ProgramValidationError"}
        BY <2>2, <3>2 DEF RaisedBy
      <4> QED
        BY <4>1, HowExecuteEnds
    <3> QED
      BY <1>1, <3>1, <3>3, SuccessMeant
  <2> QED
    BY <2>1, <2>2
<1> QED
  BY <1>1, <1>2, SameArtifact, SameTensors DEF RuntimeInv, TypeInv

LEMMA RuntimeNext == RuntimeInv /\ [Next]_vars => RuntimeInv'
<1> SUFFICES ASSUME RuntimeInv, [Next]_vars PROVE RuntimeInv'
  OBVIOUS
<1>1. CASE Next
  <2>1. ASSUME NEW p \in Provider, EncryptTensor(p) PROVE RuntimeInv'
    BY <2>1, EncryptTensorTyped
  <2>2. ASSUME NEW p \in Provider, NEW op \in Elementwise \cup {"GEMM"},
               NEW l \in tensors, NEW r \in tensors, Operate(p, op, l, r)
        PROVE  RuntimeInv'
    BY <2>2, OperateTyped
  <2>3. ASSUME NEW p \in Provider, NEW t \in tensors, Decrypt(p, t) PROVE RuntimeInv'
    BY <2>3, DecryptTyped
  <2>4. ASSUME NEW p \in Provider, NEW q \in CallerProgram, EncryptProgram(p, q)
        PROVE  RuntimeInv'
    BY <2>4, EncryptProgramTyped
  <2>5. ASSUME NEW p \in Provider, NEW q \in CallerProgram, Reassemble(p, q.graph)
        PROVE  RuntimeInv'
    BY <2>5, ReassembleTyped
  <2>6. ASSUME NEW p \in Provider, NEW q \in CallerProgram, NEW x \in Supplied, Execute(p, q, x)
        PROVE  RuntimeInv'
    BY <2>6, ExecuteTyped
  <2>7. CASE TakeOutput
    BY <2>7, TakeOutputTyped
  <2>8. CASE Proceed
    BY <2>8, ProceedTyped
  <2> QED
    BY <1>1, <2>1, <2>2, <2>3, <2>4, <2>5, <2>6, <2>7, <2>8 DEF Next
<1>2. CASE UNCHANGED vars
  <2>1. UNCHANGED <<tensors, artifact, report>>
    BY <1>2 DEF vars
  <2>2. ReportTyped' <=> ReportTyped
    BY <2>1 DEF ReportTyped
  <2>3. ReportIsMeant' <=> ReportIsMeant
    BY <2>1 DEF ReportIsMeant
  <2>4. OwnProgramErrors' <=> OwnProgramErrors
    BY <2>1 DEF OwnProgramErrors
  <2> QED
    BY <2>1, <2>2, <2>3, <2>4, SameArtifact, SameTensors DEF RuntimeInv, TypeInv
<1> QED
  BY <1>1, <1>2

LEMMA RuntimeAlways == Spec => []RuntimeInv
BY RuntimeInit, RuntimeNext, PTL DEF Spec

(* What the caller holds is what it says: a tensor names a session of its  *)
(* own provider and has values of its shape, whichever call it came from,  *)
(* and an artifact has all its parts.                                      *)
THEOREM RuntimeTypes == Spec => []TypeOK
<1>1. RuntimeInv => TypeOK
  BY DEF RuntimeInv, TypeInv, TypeOK, TensorsFit, TypedTensor, ArtifactComplete, ArtifactOfCaller
<1> QED
  BY RuntimeAlways, <1>1, PTL

(* A success is meant: whatever artifact, program and inputs are mixed, a  *)
(* result that is returned is that of a program the caller knows by the id *)
(* it asked for.                                                           *)
THEOREM ReportsAreMeant == Spec => []ReportIsMeant
<1>1. RuntimeInv => ReportIsMeant
  BY DEF RuntimeInv
<1> QED
  BY RuntimeAlways, <1>1, PTL

(* A failure is meant too: where artifact and program belong together and  *)
(* the inputs fit, nothing but the library or the budget stops the         *)
(* execution.                                                              *)
THEOREM OwnProgramsRun == Spec => []OwnProgramErrors
<1>1. RuntimeInv => OwnProgramErrors
  BY DEF RuntimeInv
<1> QED
  BY RuntimeAlways, <1>1, PTL

-----------------------------------------------------------------------------
(* The runtime has an execution take one step and yield NodeValues.  The   *)
(* providers take many; what they implement is GraphExecution.             *)
Execution == INSTANCE GraphExecution

LEMMA SameExecution ==
  /\ \A p, id : Execution!NodeIndex(p, id) = NodeIndex(p, id)
  /\ \A p, in, earlier, i : Execution!NodeValue(p, in, earlier, i) = NodeValue(p, in, earlier, i)
BY DEF NodeIndex, Execution!NodeIndex, NodeValue, Execution!NodeValue, Apply, Execution!Apply

FirstValues(n) == [i \in 1 .. n |-> NodeValues(program, supplied)[i]]

ExecutionInv ==
  /\ program \in Program /\ WellFormed(program)
  /\ \E n \in 0 .. Len(program.nodes) : computed = FirstValues(n)
  /\ status = "done" =>
       results = [o \in DOMAIN program.output_ids |->
                    NodeValues(program, supplied)[NodeIndex(program, program.output_ids[o])]]

LEMMA OneMoreValue ==
  ASSUME NEW n \in Nat, NEW v, NEW s, s = [i \in 1 .. n |-> v[i]]
  PROVE  Len(s) = n /\ Append(s, v[n + 1]) = [i \in 1 .. (n + 1) |-> v[i]]
<1> DEFINE T == {v[i] : i \in 1 .. (n + 1)}
           t == Append(s, v[n + 1])
<1>1. s \in Seq(T) /\ Len(s) = n
  BY DEF T
<1>2. v[n + 1] \in T
  BY DEF T
<1> HIDE DEF T
<1>3. /\ t \in Seq(T) /\ Len(t) = n + 1
      /\ \A i \in 1 .. (n + 1) : t[i] = IF i = n + 1 THEN v[n + 1] ELSE s[i]
  BY <1>1, <1>2
<1>4. t = [i \in 1 .. (n + 1) |-> t[i]]
  BY <1>3
<1> HIDE DEF t
<1>5. ASSUME NEW i \in 1 .. (n + 1)
      PROVE  t[i] = v[i]
  <2>1. i = n + 1 \/ i \in 1 .. n
    OBVIOUS
  <2> QED
    BY <1>3, <2>1
<1>6. t = [i \in 1 .. (n + 1) |-> v[i]]
  BY <1>4, <1>5
<1> QED
  BY <1>1, <1>6 DEF t

LEMMA ExecutionInit == Execution!Init => ExecutionInv
<1> SUFFICES ASSUME Execution!Init PROVE ExecutionInv
  OBVIOUS
<1>1. program \in Program /\ WellFormed(program) /\ computed = <<>> /\ status = "running"
  BY CorpusAssumption DEF Execution!Init
<1>2. Len(program.nodes) \in Nat
  BY <1>1 DEF Program
<1>3. FirstValues(0) = <<>>
  BY DEF FirstValues
<1>4. 0 \in 0 .. Len(program.nodes)
  BY <1>2
<1> QED
  BY <1>1, <1>3, <1>4 DEF ExecutionInv

LEMMA ExecutionStep == ExecutionInv /\ [Execution!Next]_(Execution!absvars) => ExecutionInv'
<1> SUFFICES ASSUME ExecutionInv, [Execution!Next]_(Execution!absvars) PROVE ExecutionInv'
  OBVIOUS
<1> DEFINE v == NodeValues(program, supplied)
           N == Len(program.nodes)
<1>1. program \in Program /\ WellFormed(program)
  BY DEF ExecutionInv
<1>2. N \in Nat /\ DOMAIN program.nodes = 1 .. N
  BY <1>1 DEF Program
<1>3. PICK n \in 0 .. N : computed = FirstValues(n)
  BY DEF ExecutionInv
<1>4. n \in Nat /\ Len(computed) = n /\ (\A i \in 1 .. n : computed[i] = v[i])
      /\ Append(computed, v[n + 1]) = FirstValues(n + 1)
  <2>1. n \in Nat
    BY <1>2, <1>3
  <2> HIDE DEF v
  <2>2. computed = [i \in 1 .. n |-> v[i]] /\ FirstValues(n + 1) = [i \in 1 .. (n + 1) |-> v[i]]
    BY <1>3 DEF FirstValues, v
  <2>3. Len(computed) = n /\ Append(computed, v[n + 1]) = [i \in 1 .. (n + 1) |-> v[i]]
    BY <2>1, <2>2, OneMoreValue
  <2> QED
    BY <2>1, <2>2, <2>3
<1>5. ASSUME UNCHANGED <<program, supplied>>
      PROVE  \A m : FirstValues(m)' = FirstValues(m)
  BY <1>5 DEF FirstValues
<1>6. CASE Execution!ComputeNode
  <2>1. /\ n < N /\ status # "done" /\ UNCHANGED <<program, supplied, status, results>>
        /\ computed' = Append(computed, NodeValue(program, supplied, computed, n + 1))
    BY <1>4, <1>6, SameExecution DEF Execution!ComputeNode
  <2>2. n + 1 \in DOMAIN program.nodes /\ n + 1 \in 0 .. N /\ (n + 1) - 1 = n
    BY <1>2, <1>4, <2>1
  <2>3. NodeValue(program, supplied, computed, n + 1) = NodeValue(program, supplied, v, n + 1)
    <3>1. \A j \in 1 .. ((n + 1) - 1) : computed[j] = v[j]
      BY <1>4, <2>2
    <3> HIDE DEF v
    <3> QED
      BY <1>1, <2>2, <3>1, NodeValueLocal
  <2>4. NodeValue(program, supplied, v, n + 1) = v[n + 1]
    BY <1>1, <2>2, NodeValuesSolve
  <2>5. computed' = FirstValues(n + 1)
    BY <1>4, <2>1, <2>3, <2>4
  <2> QED
    BY <1>1, <1>5, <2>1, <2>2, <2>5 DEF ExecutionInv
<1>7. CASE Execution!Finish
  <2>1. /\ n = N /\ UNCHANGED <<program, supplied, computed>>
        /\ results' = [o \in DOMAIN program.output_ids |->
                         computed[NodeIndex(program, program.output_ids[o])]]
    BY <1>4, <1>7, SameExecution DEF Execution!Finish
  <2>2. ASSUME NEW o \in DOMAIN program.output_ids
        PROVE  computed[NodeIndex(program, program.output_ids[o])]
                 = v[NodeIndex(program, program.output_ids[o])]
    <3>1. PICK i \in DOMAIN program.nodes : program.nodes[i].id = program.output_ids[o]
      BY <1>1 DEF WellFormed, InterfaceAgrees
    <3>2. NodeIndex(program, program.output_ids[o]) \in DOMAIN program.nodes
      BY <1>1, <3>1, NodeIndexFound DEF Program
    <3> QED
      BY <1>2, <1>4, <2>1, <3>2
  <2>3. results' = [o \in DOMAIN program.output_ids |->
                      v[NodeIndex(program, program.output_ids[o])]]
    BY <2>1, <2>2
  <2> QED
    BY <1>1, <1>3, <1>5, <2>1, <2>3 DEF ExecutionInv
<1>8. CASE Execution!Fail
  <2>1. status' = "failed" /\ UNCHANGED <<program, supplied, computed>>
    BY <1>8 DEF Execution!Fail
  <2> QED
    BY <1>1, <1>3, <1>5, <2>1 DEF ExecutionInv
<1>9. CASE UNCHANGED Execution!absvars
  <2>1. UNCHANGED <<program, supplied, computed, status, results>>
    BY <1>9 DEF Execution!absvars
  <2> QED
    BY <1>1, <1>3, <1>5, <2>1 DEF ExecutionInv
<1> QED
  BY <1>6, <1>7, <1>8, <1>9 DEF Execution!Next

(* An execution that ends well, node by node and whatever failures it may  *)
(* meet, has handed over what NodeValues says: what GraphRuntime takes in  *)
(* one step, and compares reports with.                                    *)
THEOREM ExecutionYieldsNodeValues ==
  Execution!Spec =>
    [](status = "done" =>
         results = [o \in DOMAIN program.output_ids |->
                      NodeValues(program, supplied)[NodeIndex(program, program.output_ids[o])]])
<1>1. ExecutionInv =>
        (status = "done" =>
           results = [o \in DOMAIN program.output_ids |->
                        NodeValues(program, supplied)[NodeIndex(program, program.output_ids[o])]])
  BY DEF ExecutionInv
<1> QED
  BY ExecutionInit, ExecutionStep, <1>1, PTL DEF Execution!Spec
=============================================================================

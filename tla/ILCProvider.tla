---------------------------- MODULE ILCProvider ----------------------------
(***************************************************************************)
(* ILCProvider: one provider object, its caller, and the ILC server and    *)
(* evaluator it reaches through TinyChain, which are external.  A call of  *)
(* the provider makes several remote requests, and each may fail.  A       *)
(* request and its answer are one step: the provider waits for it.         *)
(*                                                                         *)
(* Numbers are counted in a Fine-th of the unit of the fixed-point         *)
(* encoding, 2^-scale_bits, so that the rounding shows.                    *)
(***************************************************************************)
EXTENDS Integers, Sequences, FiniteSets, SequencesExt

CONSTANTS
  Fine,          \* parts of an encoding unit that values are counted in
  Value,         \* the tensors a caller encrypts: sequences of numbers
  Encoding,      \* what encode_program gives: one Value for each of its tensors
  AddForm,       \* the form of the evaluator's answer to an addition
  Given,         \* may the caller construct the provider with a public context?
  MaxTensors,    \* the number of tensors the caller keeps
  MaxTerms,      \* the number of encrypted tensors the caller adds up
  MaxContexts    \* the number of contexts the server issues

ASSUME FineAssumption == Fine \in Nat \ {0}

ASSUME ValueAssumption == \A v \in Value : v \in Seq(Int) /\ v # <<>>

ASSUME EncodingAssumption == \A e \in Encoding : e \in Seq(Seq(Int)) /\ Len(e) = 6

ASSUME AddFormAssumption == AddForm \in {"RepresentativeAdd", "ciphertext"}

ASSUME BoundsAssumption == MaxTensors \in Nat /\ MaxTerms \in Nat \ {0} /\ MaxContexts \in Nat

VARIABLES
  context,      \* _public_context
  metric,       \* config.metric: that of a context, by its id, or the default
  issued,       \* the number of contexts the server has set up
  tensors,      \* the encrypted tensors the caller holds
  artifact,     \* the encrypted program the caller holds, or NoArtifact
  call,         \* the call in progress, or Idle
  request,      \* the request the last step sent, or NoRequest
  report        \* how the last call ended

vars == <<context, metric, issued, tensors, artifact, call, request, report>>

NoContext == [id |-> -1]
DefaultMetric == -1
NoArtifact == [encoding |-> <<>>]
NoRequest == [route |-> "none"]
NoError == "none"
Idle == [op |-> "none"]

(* What a context says of its metric: nothing, a list of integers, or a    *)
(* list of something else.                                                 *)
MetricReport == {"none", "list", "unreadable"}

Context == [id : 0 .. MaxContexts, cipher_metric : MetricReport]

-----------------------------------------------------------------------------
(* The remote side.                                                        *)

Ciphertext(c, xs) == [kind |-> "ciphertext", context |-> c, values |-> xs]

(* An answer of /chart/encrypt: a ciphertext and the handle to decrypt it. *)
EncryptAnswer(c, xs) ==
  [kind |-> "answer", form |-> "RepresentativeEncrypt",
   ciphertext |-> Ciphertext(c, xs), handle |-> {Ciphertext(c, xs)}]

(* An answer of /chart/add, which has no handle. *)
AddAnswer(c, xs) == [kind |-> "answer", form |-> AddForm, ciphertext |-> Ciphertext(c, xs)]

(* The values the server may send for a ciphertext: padded to the          *)
(* dimensions of the payload, as they were, or fewer.                      *)
DecryptAnswers(ct) == {ct.values \o <<0>>, ct.values, Front(ct.values)}

-----------------------------------------------------------------------------
(* Conversions. *)

(* Fault: int() without round(). *)
Truncated(x) == IF x < 0 THEN -((-x) \div Fine) ELSE x \div Fine

(* int(round(value * 2^scale_bits)): half to even *)
Rounded(x) ==
  LET q == x \div Fine
      r == x % Fine
  IN  IF 2 * r < Fine \/ (2 * r = Fine /\ q % 2 = 0) THEN q ELSE q + 1

Unscaled(n) == n * Fine

(* _ciphertext_dict *)
CiphertextOf(payload) ==
  IF payload.form \in {"RepresentativeEncrypt", "RepresentativeAdd"}
  THEN payload.ciphertext
  ELSE payload

(* _handle_dict finds one. *)
HasHandle(payload) == payload.form = "RepresentativeEncrypt"

(* The code keeps session_id, shape and payload.  plain is what an         *)
(* encrypted tensor was made from, terms how many went into a sum.         *)
Encrypted(s, v, payload) ==
  [session_id |-> s, size |-> Len(v), payload |-> payload, plain |-> v, terms |-> 1]

Sum(l, r, payload) ==
  [session_id |-> "own", size |-> l.size, payload |-> payload, plain |-> <<>>,
   terms |-> l.terms + r.terms]

(* Fault: the session is not compared. *)
AnyTensor(t) == TRUE

(* _validate_tensor *)
OwnTensor(t) == t.session_id = "own"

-----------------------------------------------------------------------------
(* Calls and how they end. *)

Begin(op, todo, args) ==
  /\ call' = [op |-> op, stage |-> "context", todo |-> todo, done |-> <<>>, args |-> args]
  /\ request' = NoRequest
  /\ report' = [error |-> NoError]
  /\ UNCHANGED <<context, metric, issued, tensors, artifact>>

(* A call that ends before it sends anything. *)
Refuse(op, e) ==
  /\ report' = [error |-> e, op |-> op]
  /\ request' = NoRequest
  /\ UNCHANGED <<context, metric, issued, tensors, artifact, call>>

Raise(e) ==
  /\ call' = Idle
  /\ report' = [error |-> e, op |-> call.op, stage |-> call.stage]

Return(result) ==
  /\ call' = Idle
  /\ report' = [error |-> NoError, op |-> call.op, result |-> result]

(* The caller keeps some of its tensors and a new one. *)
Keep(t) ==
  \E kept \in SUBSET tensors : Cardinality(kept) < MaxTensors /\ tensors' = kept \cup {t}

(* A PlainTensor may also hold NaN and infinities; finite says that this   *)
(* one does not.                                                           *)
EncryptTensor == \E v \in Value, finite \in BOOLEAN : Begin("encrypt_tensor", <<v>>, <<finite>>)

EncryptProgram == \E e \in Encoding : Begin("encrypt_program", e, <<e>>)

DecryptTensor ==
  \E t \in tensors :
    IF OwnTensor(t) THEN Begin("decrypt_tensor", <<>>, <<t>>)
    ELSE Refuse("decrypt_tensor", "SessionCompatibilityError")

PairError(l, r, sameShape) ==
  IF ~OwnTensor(l) \/ ~OwnTensor(r) THEN "SessionCompatibilityError"
  ELSE IF sameShape /\ l.size # r.size THEN "ShapeMismatchError"
  ELSE NoError

Add ==
  \E l, r \in tensors :
    /\ l.terms + r.terms <= MaxTerms
    /\ IF PairError(l, r, TRUE) = NoError THEN Begin("add", <<>>, <<l, r>>)
       ELSE Refuse("add", PairError(l, r, TRUE))

(* mul and gemm are not supported. *)
MulOrGemm ==
  \E l, r \in tensors, op \in {"mul", "gemm"} :
    Refuse(op, IF PairError(l, r, op = "mul") = NoError THEN "UnsupportedOperationError"
               ELSE PairError(l, r, op = "mul"))

(* execute_program is not either. *)
ExecuteProgram ==
  /\ artifact # NoArtifact
  /\ \E inputs \in SUBSET tensors :
       Refuse("execute_program", IF \A t \in inputs : OwnTensor(t)
                                 THEN "UnsupportedOperationError" ELSE "SessionCompatibilityError")

(* The caller comes by a tensor of another provider's session. *)
Receive ==
  /\ issued < MaxContexts
  /\ \E v \in Value : Keep(Encrypted("other", v,
       EncryptAnswer(issued + 1, [i \in DOMAIN v |-> Rounded(v[i])])))
  /\ issued' = issued + 1
  /\ request' = NoRequest
  /\ UNCHANGED <<context, metric, artifact, call, report>>

-----------------------------------------------------------------------------
(* _ensure_public_context. *)

(* Fault: every call sets up anew. *)
AlwaysSetsUp == TRUE

NeedsSetup == context = NoContext

(* Fault: the context is taken to be there. *)
UseContextAnyway ==
  /\ call # Idle /\ call.stage = "context"
  /\ call' = [call EXCEPT !.stage = "request"]
  /\ request' = NoRequest
  /\ UNCHANGED <<context, metric, issued, tensors, artifact, report>>

UseContext ==
  /\ call # Idle /\ call.stage = "context"
  /\ ~NeedsSetup
  /\ call' = [call EXCEPT !.stage = "request"]
  /\ request' = NoRequest
  /\ UNCHANGED <<context, metric, issued, tensors, artifact, report>>

(* The answer has a context.  It is stored before its metric is read.      *)
SetUp ==
  /\ call # Idle /\ call.stage = "context"
  /\ NeedsSetup
  /\ issued < MaxContexts
  /\ \E m \in MetricReport :
       /\ context' = [id |-> issued + 1, cipher_metric |-> m]
       /\ metric' = IF m = "list" THEN issued + 1 ELSE metric
       /\ IF m = "unreadable" THEN Raise("ValueError")
          ELSE call' = [call EXCEPT !.stage = "request"] /\ UNCHANGED report
  /\ issued' = issued + 1
  /\ request' = [route |-> "setup"]
  /\ UNCHANGED <<tensors, artifact>>

(* The request fails, with or without the server having carried it out, or *)
(* the answer has no context.                                              *)
SetUpFails ==
  /\ call # Idle /\ call.stage = "context"
  /\ NeedsSetup
  /\ issued' \in {issued, issued + 1} /\ issued' <= MaxContexts
  /\ Raise("ProviderConfigurationError")
  /\ request' = [route |-> "setup"]
  /\ UNCHANGED <<context, metric, tensors, artifact>>

-----------------------------------------------------------------------------
(* The requests of a call that has a context. *)

Requesting(ops) == call # Idle /\ call.op \in ops /\ call.stage = "request"

EncryptOp == {"encrypt_tensor", "encrypt_program"}

(* Only finite numbers can be rounded; an encoding has no others. *)
Encodable == call.op = "encrypt_tensor" => call.args[1]

(* int(round()) of NaN or an infinity: the context is there by then, and   *)
(* nothing of the tensor has been sent.                                    *)
EncodingFails ==
  /\ Requesting({"encrypt_tensor"})
  /\ ~Encodable
  /\ \E e \in {"ValueError", "OverflowError"} : Raise(e)
  /\ request' = NoRequest
  /\ UNCHANGED <<context, metric, issued, tensors, artifact>>

EncryptNext ==
  LET v   == Head(call.todo)
      xs  == [i \in DOMAIN v |-> Rounded(v[i])]
      new == Encrypted("own", v, EncryptAnswer(context.id, xs))
      done == Append(call.done, new)
  IN  /\ Requesting(EncryptOp)
      /\ Encodable
      /\ request' = [route |-> "encrypt", context |-> context.id]
      /\ \/ /\ Len(call.todo) > 1
            /\ call' = [call EXCEPT !.stage = "context", !.todo = Tail(@), !.done = done]
            /\ UNCHANGED <<tensors, artifact, report>>
         \/ /\ Len(call.todo) = 1 /\ call.op = "encrypt_tensor"
            /\ Keep(new)
            /\ Return(<<>>)
            /\ UNCHANGED artifact
         \/ /\ Len(call.todo) = 1 /\ call.op = "encrypt_program"
            /\ artifact' = [encoding |-> call.args[1], parts |-> done]
            /\ Return(<<>>)
            /\ UNCHANGED tensors
      /\ UNCHANGED <<context, metric, issued>>

Unchanged == UNCHANGED <<context, metric, issued, tensors, artifact>>

(* Fault: of an encrypted program the tensors that could be encrypted are  *)
(* handed over.                                                            *)
RequestFailsPartly ==
  /\ Requesting(EncryptOp \cup {"add"})
  /\ Encodable
  /\ Raise("ProviderConfigurationError")
  /\ artifact' = IF call.op = "encrypt_program" /\ call.done # <<>>
                 THEN [encoding |-> call.args[1], parts |-> call.done] ELSE artifact
  /\ request' = NoRequest
  /\ UNCHANGED <<context, metric, issued, tensors>>

(* A request of encryption or addition fails. *)
RequestFails ==
  /\ Requesting(EncryptOp \cup {"add"})
  /\ Encodable
  /\ Raise("ProviderConfigurationError")
  /\ request' = NoRequest
  /\ Unchanged

AddRequest ==
  /\ Requesting({"add"})
  /\ LET l  == CiphertextOf(call.args[1].payload)
         r  == CiphertextOf(call.args[2].payload)
     IN  /\ request' = [route |-> "add", context |-> context.id, operands |-> <<l, r>>]
         /\ IF l.kind = "ciphertext" /\ r.kind = "ciphertext"
            THEN /\ Keep(Sum(call.args[1], call.args[2],
                             AddAnswer(context.id,
                                       [i \in DOMAIN l.values |-> l.values[i] + r.values[i]])))
                 /\ Return(<<>>)
            ELSE Raise("ProviderConfigurationError") /\ UNCHANGED tensors
  /\ UNCHANGED <<context, metric, issued, artifact>>

(* A sum has no handle: it cannot be decrypted. *)
DecryptRequest ==
  LET t == call.args[1]
  IN  /\ Requesting({"decrypt_tensor"})
      /\ IF ~HasHandle(t.payload)
         THEN Raise("ProviderConfigurationError") /\ request' = NoRequest
         ELSE /\ request' = [route |-> "decrypt", context |-> context.id,
                             operands |-> <<CiphertextOf(t.payload)>>]
              /\ \/ Raise("ProviderConfigurationError")
                 \/ \E ns \in DecryptAnswers(CiphertextOf(t.payload)) :
                      IF Len(ns) < t.size THEN Raise("ShapeMismatchError")
                      ELSE Return([tensor |-> t, values |-> [i \in 1 .. t.size |-> Unscaled(ns[i])]])
      /\ Unchanged

-----------------------------------------------------------------------------
Init ==
  /\ context \in {NoContext} \cup IF Given THEN [id : {0}, cipher_metric : MetricReport] ELSE {}
  /\ metric = DefaultMetric
  /\ issued = 0
  /\ tensors = {}
  /\ artifact = NoArtifact
  /\ call = Idle
  /\ request = NoRequest
  /\ report = [error |-> NoError]

Next ==
  \/ call = Idle /\ \/ EncryptTensor \/ EncryptProgram \/ DecryptTensor \/ Add
                    \/ MulOrGemm \/ ExecuteProgram \/ Receive
  \/ UseContext \/ SetUp \/ SetUpFails
  \/ EncodingFails \/ EncryptNext \/ AddRequest \/ DecryptRequest \/ RequestFails

Spec == Init /\ [][Next]_vars

-----------------------------------------------------------------------------
(* The tensors a caller holds fit the call in progress and its context.    *)
TypeOK ==
  /\ context \in {NoContext} \cup Context
  /\ metric \in {DefaultMetric} \cup 1 .. MaxContexts
  /\ issued \in 0 .. MaxContexts
  /\ Cardinality(tensors) <= MaxTensors
  /\ \A t \in tensors : t.size = Len(t.payload.ciphertext.values) /\ t.terms <= MaxTerms
  /\ call # Idle =>
       /\ call.stage \in {"context", "request"}
       /\ call.stage = "request" => context # NoContext
       /\ call.op = "encrypt_program" => Len(call.todo) + Len(call.done) = 6

OwnCiphertexts ==
  LET own   == {t \in tensors : t.session_id = "own"}
      parts == IF artifact = NoArtifact THEN {} ELSE ToSet(artifact.parts)
      done  == IF call = Idle THEN {} ELSE ToSet(call.done)
  IN  {t.payload.ciphertext : t \in own \cup parts \cup done}

(* Encrypted program tensors and encrypted data tensors use one context,   *)
(* however often set-up failed, whatever it left half done, and in         *)
(* whichever calls it happened: what the provider has encrypted since it   *)
(* was constructed is of the context it has now.                           *)
OneContext == \A ct \in OwnCiphertexts : ct.context = context.id

(* The evaluator and the server are sent ciphertexts only, and only such   *)
(* as belong to the context sent with them: the session check alone keeps  *)
(* tensors of another context away.                                        *)
RequestsAreConsistent ==
  request.route \in {"add", "decrypt"} =>
    \A i \in DOMAIN request.operands :
      request.operands[i].kind = "ciphertext" /\ request.operands[i].context = request.context

(* A tensor decrypts to the numbers encrypted, each within half a unit of  *)
(* the encoding, also when the server pads the values.                     *)
RoundTrip ==
  report.error = NoError /\ call = Idle /\ "op" \in DOMAIN report /\ report.op = "decrypt_tensor" =>
    LET t == report.result.tensor
    IN  /\ Len(report.result.values) = t.size
        /\ \A i \in 1 .. t.size :
             LET d == report.result.values[i] - t.plain[i] IN -Fine <= 2 * d /\ 2 * d <= Fine

(* An encrypted program is the whole of one program's encoding, however    *)
(* many attempts failed at whichever of its six tensors.                   *)
ArtifactIsWhole ==
  artifact # NoArtifact => [i \in DOMAIN artifact.parts |-> artifact.parts[i].plain] = artifact.encoding

(* README: an addition "requires `public_context` and representative       *)
(* ciphertexts".                                                           *)
AddSendsCiphertexts ==
  request.route = "add" => \A i \in DOMAIN request.operands : request.operands[i].kind = "ciphertext"
=============================================================================

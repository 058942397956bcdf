------------------------- MODULE ILCProviderProofs -------------------------
(***************************************************************************)
(* What holds of the ILC provider for every scale of the encoding, all     *)
(* tensors and programs, any number of contexts, and any bounds on what    *)
(* the caller keeps: it uses one context, sends that context's ciphertexts *)
(* with it, makes whole artifacts only, and gives back what was encrypted. *)
(*                                                                         *)
(* The invariant says how every tensor that the provider or its caller     *)
(* holds came about (Made), that those of the provider's own session exist *)
(* only after it has a context, which then never changes (Current), and    *)
(* what a call in progress has done and has left to do (CallInv).          *)
(***************************************************************************)
EXTENDS ILCProvider, FiniteSetTheorems, SequenceTheorems, TLAPS

Numbers(v) == [i \in DOMAIN v |-> Rounded(v[i])]

(* A tensor as encryption makes it, and one as an addition does. *)
IsEncryption(t) ==
  /\ t.plain \in Seq(Int)
  /\ t.size = Len(t.plain)
  /\ t.terms = 1
  /\ t.payload.form = "RepresentativeEncrypt"
  /\ t.payload.ciphertext.values = Numbers(t.plain)

IsSum(t) ==
  /\ t.payload.form = AddForm
  /\ t.payload.kind = "answer"
  /\ t.payload.ciphertext.values \in Seq(Int)
  /\ t.size = Len(t.payload.ciphertext.values)
  /\ t.terms \in Nat /\ t.terms <= MaxTerms

Made(t) ==
  /\ IsEncryption(t) \/ IsSum(t)
  /\ t.payload.ciphertext.kind = "ciphertext"
  /\ t.session_id \in {"own", "other"}

(* What the provider made is of the context it has now. *)
Current(t) == context # NoContext /\ t.payload.ciphertext.context = context.id

Part(t) == IsEncryption(t) /\ Made(t) /\ Current(t)

StateInv ==
  /\ context \in {NoContext} \cup Context
  /\ metric \in {DefaultMetric} \cup 1 .. MaxContexts
  /\ issued \in 0 .. MaxContexts

TensorsInv ==
  /\ IsFiniteSet(tensors) /\ Cardinality(tensors) <= MaxTensors
  /\ \A t \in tensors : Made(t) /\ (OwnTensor(t) => Current(t))

ArtifactInv ==
  artifact # NoArtifact =>
    /\ \A i \in DOMAIN artifact.parts : Part(artifact.parts[i])
    /\ ArtifactIsWhole

(* Where encryption stands: of a program, what is done and what is left    *)
(* are together its encoding.                                              *)
EncryptionInv ==
  /\ call.todo \in Seq(Seq(Int)) /\ call.todo # <<>>
  /\ \A i \in 1 .. Len(call.done) : Part(call.done[i])
  /\ call.op = "encrypt_tensor" => call.done = <<>> /\ Len(call.todo) = 1
  /\ call.op = "encrypt_program" =>
       /\ call.args[1] \in Encoding
       /\ Len(call.done) + Len(call.todo) = 6
       /\ \A i \in 1 .. Len(call.done) : call.done[i].plain = call.args[1][i]
       /\ \A i \in 1 .. Len(call.todo) : call.todo[i] = call.args[1][Len(call.done) + i]

CallInv ==
  call # Idle =>
    /\ call = [op |-> call.op, stage |-> call.stage, todo |-> call.todo, done |-> call.done,
               args |-> call.args]
    /\ call.op \in EncryptOp \cup {"add", "decrypt_tensor"}
    /\ call.stage \in {"context", "request"}
    /\ call.stage = "request" => context # NoContext
    /\ call.done \in Seq(Range(call.done))
    /\ call.op \in EncryptOp => EncryptionInv
    /\ call.op \notin EncryptOp =>
         /\ call.done = <<>>
         /\ call.args[1] \in tensors /\ OwnTensor(call.args[1])
    /\ call.op = "add" =>
         /\ call.args[2] \in tensors /\ OwnTensor(call.args[2])
         /\ call.args[1].size = call.args[2].size
         /\ call.args[1].terms + call.args[2].terms <= MaxTerms

ProviderInv == StateInv /\ TensorsInv /\ ArtifactInv /\ CallInv
-----------------------------------------------------------------------------
(* Arithmetic and records. *)

(* Rounding half to even is off by half a unit at most. *)
LEMMA RoundedWithinHalf ==
  ASSUME NEW x \in Int
  PROVE  /\ Rounded(x) \in Int /\ Unscaled(Rounded(x)) \in Int
         /\ -Fine <= 2 * (Unscaled(Rounded(x)) - x) /\ 2 * (Unscaled(Rounded(x)) - x) <= Fine
<1> DEFINE q == x \div Fine
           r == x % Fine
<1>1. Fine \in Nat /\ Fine > 0
  BY FineAssumption
<1>2. q \in Int /\ r \in 0 .. (Fine - 1) /\ x = Fine * q + r
  BY <1>1
<1>3. (q + 1) * Fine = Fine * q + Fine /\ q * Fine = Fine * q /\ Fine * q \in Int
  BY <1>1, <1>2
<1>4. Rounded(x) = IF 2 * r < Fine \/ (2 * r = Fine /\ q % 2 = 0) THEN q ELSE q + 1
  BY DEF Rounded
<1> HIDE DEF q, r
<1>5. CASE 2 * r < Fine \/ (2 * r = Fine /\ q % 2 = 0)
  <2>1. Rounded(x) = q /\ 2 * r <= Fine
    BY <1>1, <1>2, <1>4, <1>5
  <2> QED
    BY <1>1, <1>2, <1>3, <2>1 DEF Unscaled
<1>6. CASE ~(2 * r < Fine \/ (2 * r = Fine /\ q % 2 = 0))
  <2>1. Rounded(x) = q + 1 /\ 2 * r >= Fine
    BY <1>1, <1>2, <1>4, <1>6
  <2> QED
    BY <1>1, <1>2, <1>3, <2>1 DEF Unscaled
<1> QED
  BY <1>5, <1>6

LEMMA NumbersAreSequence ==
  ASSUME NEW v \in Seq(Int)
  PROVE  Numbers(v) \in Seq(Int) /\ Len(Numbers(v)) = Len(v)
<1>1. DOMAIN v = 1 .. Len(v) /\ Len(v) \in Nat /\ \A i \in 1 .. Len(v) : v[i] \in Int
  OBVIOUS
<1>2. Numbers(v) \in [1 .. Len(v) -> Int]
  BY <1>1, RoundedWithinHalf DEF Numbers
<1> QED
  BY <1>1, <1>2

LEMMA TailIsLonger ==
  ASSUME NEW S, NEW s, s \in Seq(S), Len(s) > 1
  PROVE  Tail(s) # <<>>
<1> DEFINE n == Len(s)
           k == Len(Tail(s))
<1>1. n \in Nat /\ n > 1 /\ s # <<>>
  OBVIOUS
<1>2. k = n - 1
  BY <1>1, HeadTailProperties
<1>3. k # 0
  <2> HIDE DEF n, k
  <2> QED
    BY <1>1, <1>2
<1>4. Len(<<>>) = 0
  OBVIOUS
<1> QED
  BY <1>3, <1>4, Zenon

LEMMA IsFunction == ASSUME NEW S, NEW s, s \in Seq(S) PROVE s = [i \in DOMAIN s |-> s[i]]
OBVIOUS

(* A new tensor is an encryption of its values. *)
LEMMA EncryptedIsMade ==
  ASSUME NEW v \in Seq(Int), NEW c, NEW s \in {"own", "other"}
  PROVE  LET t == Encrypted(s, v, EncryptAnswer(c, Numbers(v)))
         IN  /\ IsEncryption(t) /\ Made(t) /\ t.session_id = s /\ t.plain = v
             /\ t.payload.ciphertext.context = c
BY DEF Encrypted, EncryptAnswer, Ciphertext, IsEncryption, Made

(* Whichever answer to a decryption is long enough begins with the values. *)
LEMMA AnswersAgree ==
  ASSUME NEW ct, ct.values \in Seq(Int), NEW ns \in DecryptAnswers(ct), NEW n,
         n = Len(ct.values), ~(Len(ns) < n)
  PROVE  \A i \in 1 .. n : ns[i] = ct.values[i]
<1> DEFINE xs == ct.values
<1>1. ns \in {xs \o <<0>>, xs, Front(xs)}
  BY DEF DecryptAnswers
<1> HIDE DEF xs
<1>2. xs \in Seq(Int) /\ Len(xs) \in Nat
  BY DEF xs
<1>3. CASE ns = xs \o <<0>>
  BY <1>2, <1>3 DEF xs
<1>4. CASE ns = Front(xs)
  BY <1>2, <1>4 DEF xs, Front
<1> QED
  BY <1>1, <1>3, <1>4 DEF xs

(* The two kinds of tensors differ by their form, and the values of either *)
(* are as many as its size says.                                           *)
LEMMA FormsDiffer ==
  ASSUME NEW t, Made(t)
  PROVE  /\ IsEncryption(t) => HasHandle(t.payload) /\ CiphertextOf(t.payload) = t.payload.ciphertext
         /\ HasHandle(t.payload) => IsEncryption(t)
         /\ AddForm = "RepresentativeAdd" => CiphertextOf(t.payload) = t.payload.ciphertext
         /\ t.payload.ciphertext.values \in Seq(Int)
         /\ t.size = Len(t.payload.ciphertext.values)
         /\ t.terms \in Nat /\ t.terms <= MaxTerms
BY AddFormAssumption, BoundsAssumption, NumbersAreSequence
   DEF Made, IsEncryption, IsSum, HasHandle, CiphertextOf

(* A call in progress is not Idle. *)
LEMMA CallsAreNotIdle ==
  \A op, stage, todo, done, args :
    [op |-> op, stage |-> stage, todo |-> todo, done |-> done, args |-> args] # Idle
<1> SUFFICES ASSUME NEW op, NEW stage, NEW todo, NEW done, NEW args,
                    [op |-> op, stage |-> stage, todo |-> todo, done |-> done, args |-> args] = Idle
             PROVE FALSE
  OBVIOUS
<1>1. "stage" \in DOMAIN [op |-> op, stage |-> stage, todo |-> todo, done |-> done, args |-> args]
  OBVIOUS
<1>2. "stage" \notin DOMAIN Idle
  BY DEF Idle
<1> QED
  BY <1>1, <1>2

LEMMA CallGoesOn ==
  ASSUME CallInv, call # Idle, DOMAIN call' = DOMAIN call
  PROVE  call' # Idle
<1>1. "stage" \in DOMAIN call'
  BY DEF CallInv
<1>2. "stage" \notin DOMAIN Idle
  BY DEF Idle
<1> QED
  BY <1>1, <1>2

LEMMA HowCallsGo ==
  /\ \A op, todo, args : Begin(op, todo, args) => call' # Idle /\ request'.route = "none"
  /\ \A op, e : Refuse(op, e) => report'.error = e /\ request'.route = "none"
  /\ \A e : Raise(e) => report'.error = e
  /\ \A result : Return(result) => /\ call' = Idle
                                   /\ report' = [error |-> NoError, op |-> call.op, result |-> result]
<1>1. ASSUME NEW op, NEW todo, NEW args, Begin(op, todo, args)
      PROVE  call' # Idle /\ request'.route = "none"
  BY <1>1, CallsAreNotIdle DEF Begin, NoRequest
<1> QED
  BY <1>1 DEF Refuse, Raise, Return, NoRequest

(* The caller keeps at most MaxTensors tensors. *)
LEMMA KeepKeeps ==
  ASSUME IsFiniteSet(tensors), NEW t, Keep(t)
  PROVE  /\ IsFiniteSet(tensors') /\ Cardinality(tensors') <= MaxTensors
         /\ \A u \in tensors' : u = t \/ u \in tensors
<1>1. PICK kept \in SUBSET tensors : Cardinality(kept) < MaxTensors /\ tensors' = kept \cup {t}
  BY DEF Keep
<1>2. IsFiniteSet(kept)
  BY FS_Subset
<1>3. Cardinality(kept) \in Nat
  BY <1>2, FS_CardinalityType
<1>4. /\ IsFiniteSet(kept \cup {t})
      /\ Cardinality(kept \cup {t}) = IF t \in kept THEN Cardinality(kept) ELSE Cardinality(kept) + 1
  BY <1>2, FS_AddElement
<1> QED
  BY <1>1, <1>3, <1>4, BoundsAssumption
-----------------------------------------------------------------------------
(* The steps of a call. *)

LEMMA Kept ==
  ASSUME UNCHANGED context
  PROVE  /\ StateInv /\ UNCHANGED <<metric, issued>> => StateInv'
         /\ TensorsInv /\ UNCHANGED tensors => TensorsInv'
         /\ ArtifactInv /\ UNCHANGED artifact => ArtifactInv'
         /\ CallInv /\ UNCHANGED <<tensors, call>> => CallInv'
<1>1. \A t : (Part(t)' <=> Part(t)) /\ (Current(t)' <=> Current(t))
  BY DEF Part, Current
<1>2. StateInv /\ UNCHANGED <<metric, issued>> => StateInv'
  BY DEF StateInv
<1>3. TensorsInv /\ UNCHANGED tensors => TensorsInv'
  BY <1>1 DEF TensorsInv
<1>4. ArtifactInv /\ UNCHANGED artifact => ArtifactInv'
  BY <1>1 DEF ArtifactInv, ArtifactIsWhole
<1>5. CallInv /\ UNCHANGED <<tensors, call>> => CallInv'
  BY <1>1 DEF CallInv, EncryptionInv
<1> QED
  BY <1>2, <1>3, <1>4, <1>5

(* While the provider has no context it has made nothing. *)
LEMMA NothingBefore ==
  ASSUME StateInv, TensorsInv, ArtifactInv, CallInv, context = NoContext
  PROVE  /\ \A t \in tensors : ~OwnTensor(t)
         /\ artifact # NoArtifact => DOMAIN artifact.parts = {}
         /\ call # Idle => call.op \in EncryptOp /\ call.done = <<>>
<1>1. \A t : ~Current(t)
  BY DEF Current
<1>2. \A t \in tensors : ~OwnTensor(t)
  BY <1>1 DEF TensorsInv
<1>3. ASSUME artifact # NoArtifact PROVE DOMAIN artifact.parts = {}
  BY <1>1, <1>3 DEF ArtifactInv, Part
<1>4. ASSUME call # Idle PROVE call.op \in EncryptOp /\ call.done = <<>>
  <2>1. call.op \in EncryptOp
    BY <1>2, <1>4 DEF CallInv
  <2>2. \A i \in 1 .. Len(call.done) : Part(call.done[i])
    BY <1>4, <2>1 DEF CallInv, EncryptionInv
  <2>3. call.done \in Seq(Range(call.done))
    BY <1>4 DEF CallInv
  <2>4. Len(call.done) \in Nat /\ ~(1 \in 1 .. Len(call.done))
    BY <1>1, <2>2, <2>3 DEF Part
  <2> QED
    BY <2>1, <2>3, <2>4
<1> QED
  BY <1>2, <1>3, <1>4

LEMMA BeginStep ==
  ASSUME ProviderInv, call = Idle, EncryptTensor \/ EncryptProgram \/ DecryptTensor \/ Add
  PROVE  ProviderInv'
<1>1. UNCHANGED <<context, metric, issued, tensors, artifact>>
  BY DEF EncryptTensor, EncryptProgram, DecryptTensor, Add, Begin, Refuse
<1>2. StateInv' /\ TensorsInv' /\ ArtifactInv'
  BY <1>1, Kept DEF ProviderInv
<1>3. ASSUME NEW op, NEW e, Refuse(op, e)
      PROVE  CallInv'
  BY <1>1, <1>3, Kept DEF Refuse, ProviderInv
<1>4. ASSUME NEW v \in Value, NEW finite \in BOOLEAN, Begin("encrypt_tensor", <<v>>, <<finite>>)
      PROVE  CallInv'
  BY <1>4, ValueAssumption DEF Begin, CallInv, EncryptionInv, EncryptOp
<1>5. ASSUME NEW e \in Encoding, Begin("encrypt_program", e, <<e>>)
      PROVE  CallInv'
  <2>1. e \in Seq(Seq(Int)) /\ Len(e) = 6 /\ e # <<>>
    BY EncodingAssumption
  <2>2. call' = [op |-> "encrypt_program", stage |-> "context", todo |-> e, done |-> <<>>,
                 args |-> <<e>>]
    BY <1>5 DEF Begin
  <2> QED
    BY <2>1, <2>2 DEF CallInv, EncryptionInv, EncryptOp
<1>6. ASSUME NEW t \in tensors, OwnTensor(t), Begin("decrypt_tensor", <<>>, <<t>>)
      PROVE  CallInv'
  BY <1>1, <1>6 DEF Begin, CallInv, EncryptOp
<1>7. ASSUME NEW l \in tensors, NEW r \in tensors, l.terms + r.terms <= MaxTerms,
             PairError(l, r, TRUE) = NoError, Begin("add", <<>>, <<l, r>>)
      PROVE  CallInv'
  <2>1. OwnTensor(l) /\ OwnTensor(r) /\ l.size = r.size
    BY <1>7 DEF PairError, NoError
  <2> QED
    BY <1>1, <1>7, <2>1 DEF Begin, CallInv, EncryptOp
<1> QED
  BY <1>2, <1>3, <1>4, <1>5, <1>6, <1>7
     DEF EncryptTensor, EncryptProgram, DecryptTensor, Add, ProviderInv

LEMMA ReceiveStep ==
  ASSUME ProviderInv, call = Idle, Receive
  PROVE  ProviderInv'
<1>1. UNCHANGED <<context, metric, artifact, call>> /\ issued' = issued + 1 /\ issued < MaxContexts
  BY DEF Receive
<1>2. PICK v \in Value : Keep(Encrypted("other", v, EncryptAnswer(issued + 1, Numbers(v))))
  BY DEF Receive, Numbers
<1> DEFINE t == Encrypted("other", v, EncryptAnswer(issued + 1, Numbers(v)))
<1>3. Made(t) /\ t.session_id = "other"
  BY EncryptedIsMade, ValueAssumption
<1> HIDE DEF t
<1>4. /\ IsFiniteSet(tensors') /\ Cardinality(tensors') <= MaxTensors
      /\ \A u \in tensors' : u = t \/ u \in tensors
  BY <1>2, KeepKeeps DEF t, ProviderInv, TensorsInv
<1>5. TensorsInv'
  BY <1>1, <1>3, <1>4 DEF TensorsInv, ProviderInv, OwnTensor, Current
<1>6. StateInv'
  BY <1>1, BoundsAssumption DEF ProviderInv, StateInv
<1>7. CallInv'
  BY <1>1 DEF CallInv
<1> QED
  BY <1>1, <1>5, <1>6, <1>7, Kept DEF ProviderInv

LEMMA UseContextStep ==
  ASSUME ProviderInv, UseContext
  PROVE  ProviderInv'
<1>1. UNCHANGED <<context, metric, issued, tensors, artifact>>
      /\ call' = [call EXCEPT !.stage = "request"] /\ call # Idle /\ context # NoContext
  BY DEF UseContext, NeedsSetup
<1>2. CallInv
  BY DEF ProviderInv
<1>3. call' = [op |-> call.op, stage |-> "request", todo |-> call.todo, done |-> call.done,
               args |-> call.args]
  BY <1>1, <1>2 DEF CallInv
<1>4. \A t : (Part(t)' <=> Part(t))
  BY <1>1 DEF Part, Current
<1>5. CallInv'
  BY <1>1, <1>2, <1>3, <1>4 DEF CallInv, EncryptionInv
<1> QED
  BY <1>1, <1>5, Kept DEF ProviderInv

LEMMA SetUpStep ==
  ASSUME ProviderInv, SetUp
  PROVE  ProviderInv'
<1>1. PICK m \in MetricReport :
        /\ context' = [id |-> issued + 1, cipher_metric |-> m]
        /\ metric' = IF m = "list" THEN issued + 1 ELSE metric
        /\ IF m = "unreadable" THEN Raise("ValueError")
           ELSE call' = [call EXCEPT !.stage = "request"] /\ UNCHANGED report
  BY DEF SetUp
<1>2. /\ call # Idle /\ context = NoContext /\ issued < MaxContexts /\ issued' = issued + 1
      /\ UNCHANGED <<tensors, artifact>>
  BY DEF SetUp, NeedsSetup
<1>3. /\ \A t \in tensors : ~OwnTensor(t)
      /\ artifact # NoArtifact => DOMAIN artifact.parts = {}
      /\ call.op \in EncryptOp => call.done = <<>>
  BY <1>2, NothingBefore DEF ProviderInv
<1>4. StateInv'
  BY <1>1, <1>2, BoundsAssumption DEF ProviderInv, StateInv, Context
<1>5. TensorsInv'
  BY <1>2, <1>3 DEF ProviderInv, TensorsInv
<1>6. ArtifactInv'
  BY <1>2, <1>3 DEF ProviderInv, ArtifactInv, ArtifactIsWhole
<1>7. CallInv'
  <2>1. CASE m = "unreadable"
    BY <1>1, <2>1 DEF Raise, CallInv
  <2>2. CASE m # "unreadable"
    <3>1. call' = [op |-> call.op, stage |-> "request", todo |-> call.todo, done |-> call.done,
                   args |-> call.args]
      BY <1>1, <1>2, <2>2 DEF ProviderInv, CallInv
    <3>2. context'.id # NoContext.id
      BY <1>1 DEF NoContext, ProviderInv, StateInv
    <3> QED
      BY <1>2, <1>3, <3>1, <3>2 DEF ProviderInv, CallInv, EncryptionInv
  <2> QED
    BY <2>1, <2>2
<1> QED
  BY <1>4, <1>5, <1>6, <1>7 DEF ProviderInv
LEMMA AbandonStep ==
  ASSUME ProviderInv, SetUpFails \/ RequestFails \/ EncodingFails
  PROVE  ProviderInv'
<1>1. UNCHANGED <<context, metric, tensors, artifact>> /\ call' = Idle
  BY DEF SetUpFails, RequestFails, EncodingFails, Unchanged, Raise
<1>2. issued' \in 0 .. MaxContexts
  BY BoundsAssumption DEF SetUpFails, RequestFails, EncodingFails, Unchanged, ProviderInv, StateInv
<1>3. StateInv'
  BY <1>1, <1>2 DEF ProviderInv, StateInv
<1>4. CallInv'
  BY <1>1 DEF CallInv
<1> QED
  BY <1>1, <1>3, <1>4, Kept DEF ProviderInv

LEMMA EncryptStep ==
  ASSUME ProviderInv, EncryptNext
  PROVE  ProviderInv'
<1> DEFINE v == Head(call.todo)
           new == Encrypted("own", v, EncryptAnswer(context.id, Numbers(v)))
           done == Append(call.done, new)
<1>1. /\ call # Idle /\ call.op \in EncryptOp /\ call.stage = "request"
      /\ UNCHANGED <<context, metric, issued>>
  BY DEF EncryptNext, Requesting
<1>2. \/ /\ Len(call.todo) > 1
         /\ call' = [call EXCEPT !.stage = "context", !.todo = Tail(@), !.done = done]
         /\ UNCHANGED <<tensors, artifact>>
      \/ /\ Len(call.todo) = 1 /\ Keep(new) /\ call' = Idle /\ UNCHANGED artifact
      \/ /\ Len(call.todo) = 1 /\ call.op = "encrypt_program"
         /\ artifact' = [encoding |-> call.args[1], parts |-> done]
         /\ call' = Idle /\ UNCHANGED tensors
  BY DEF EncryptNext, Numbers, Return
<1>3. context # NoContext /\ EncryptionInv /\ call.done \in Seq(Range(call.done))
  BY <1>1 DEF ProviderInv, CallInv
<1>4. call.todo \in Seq(Seq(Int)) /\ call.todo # <<>>
  BY <1>3 DEF EncryptionInv
<1>4h. v \in Seq(Int) /\ v = call.todo[1] /\ Len(call.todo) \in Nat /\ Len(call.todo) >= 1
  BY <1>4
<1>4t. /\ Tail(call.todo) \in Seq(Seq(Int))
       /\ Len(Tail(call.todo)) = Len(call.todo) - 1
       /\ \A i \in 1 .. Len(Tail(call.todo)) : Tail(call.todo)[i] = call.todo[i + 1]
  BY <1>4, HeadTailProperties
<1>5. Part(new) /\ Made(new) /\ Current(new) /\ new.plain = v
  BY <1>3, <1>4h, EncryptedIsMade DEF Part, Current
<1> HIDE DEF new
<1>6. /\ Len(call.done) \in Nat /\ DOMAIN done = 1 .. (Len(call.done) + 1)
      /\ \A i \in 1 .. Len(call.done) : done[i] = call.done[i]
      /\ done[Len(call.done) + 1] = new
  BY <1>3
<1>6l. Len(done) = Len(call.done) + 1 /\ Len(call.done) \in Nat
  BY <1>3
<1>7. done \in Seq(Range(done))
  <2>1. \A i \in 1 .. Len(done) : done[i] \in Range(done)
    BY <1>6, <1>6l DEF Range
  <2>2. done \in Seq(Range(call.done) \cup {new})
    BY <1>3
  <2> QED
    BY <1>6, <1>6l, <2>1, <2>2
<1> HIDE DEF v, done
<1>8. \A i \in 1 .. Len(done) : Part(done[i])
  <2>1. \A i \in 1 .. Len(call.done) : Part(call.done[i])
    BY <1>3 DEF EncryptionInv
  <2> QED
    BY <1>5, <1>6, <1>6l, <2>1
<1>9. ASSUME call.op = "encrypt_program"
      PROVE  /\ call.args[1] \in Encoding
             /\ Len(call.done) + Len(call.todo) = 6
             /\ \A i \in 1 .. Len(call.todo) : call.todo[i] = call.args[1][Len(call.done) + i]
             /\ \A i \in 1 .. Len(done) : done[i].plain = call.args[1][i]
  <2>1. /\ call.args[1] \in Encoding
        /\ Len(call.done) + Len(call.todo) = 6
        /\ \A i \in 1 .. Len(call.done) : call.done[i].plain = call.args[1][i]
        /\ \A i \in 1 .. Len(call.todo) : call.todo[i] = call.args[1][Len(call.done) + i]
    BY <1>3, <1>9 DEF EncryptionInv
  <2>2. call.todo[1] = call.args[1][Len(call.done) + 1]
    BY <1>4h, <2>1
  <2>3. \A i \in 1 .. Len(done) : i = Len(call.done) + 1 \/ i \in 1 .. Len(call.done)
    BY <1>6l
  <2>4. \A i \in 1 .. Len(done) : done[i].plain = call.args[1][i]
    BY <1>4h, <1>5, <1>6, <2>1, <2>2, <2>3
  <2> QED
    BY <2>1, <2>4
<1>10. StateInv'
  BY <1>1, Kept DEF ProviderInv
<1>11. \A t : Part(t)' <=> Part(t)
  BY <1>1 DEF Part, Current
<1>12. CASE /\ Len(call.todo) > 1
            /\ call' = [call EXCEPT !.stage = "context", !.todo = Tail(@), !.done = done]
            /\ UNCHANGED <<tensors, artifact>>
  <2>1. call' = [op |-> call.op, stage |-> "context", todo |-> Tail(call.todo), done |-> done,
                 args |-> call.args]
    BY <1>1, <1>12 DEF ProviderInv, CallInv
  <2> DEFINE m == Len(call.todo)
             n == Len(call.done)
  <2>m. m \in Nat /\ n \in Nat /\ m > 1
    BY <1>4h, <1>6l, <1>12
  <2>2. Tail(call.todo) # <<>>
    BY <1>4, <1>12, TailIsLonger
  <2>3. call.op # "encrypt_tensor"
    <3>1. call.op = "encrypt_tensor" => m = 1
      BY <1>3 DEF EncryptionInv
    <3> HIDE DEF m
    <3> QED
      BY <2>m, <3>1
  <2>4. ASSUME call.op = "encrypt_program", NEW i \in 1 .. Len(Tail(call.todo))
        PROVE  Tail(call.todo)[i] = call.args[1][Len(done) + i]
    <3>1. i + 1 \in 1 .. Len(call.todo)
      BY <1>4h, <1>4t
    <3>2. n + (i + 1) = (n + 1) + i
      <4> HIDE DEF n
      <4> QED
        BY <2>m
    <3>3. call.todo[i + 1] = call.args[1][Len(call.done) + (i + 1)]
      BY <1>9, <2>4, <3>1
    <3> QED
      BY <1>4t, <1>6l, <3>2, <3>3
  <2>5. call.op = "encrypt_program" => Len(done) + Len(Tail(call.todo)) = 6
    <3>1. (n + 1) + (m - 1) = n + m
      <4> HIDE DEF m, n
      <4> QED
        BY <2>m
    <3> QED
      BY <1>4t, <1>6l, <1>9, <3>1
  <2>6. EncryptionInv'
    BY <1>4t, <1>8, <1>9, <1>11, <2>1, <2>2, <2>3, <2>4, <2>5 DEF EncryptionInv
  <2>7. CallInv'
    BY <1>1, <1>7, <2>1, <2>6 DEF CallInv, EncryptOp
  <2> QED
    BY <1>1, <1>10, <1>12, <2>7, Kept DEF ProviderInv
<1>13. CASE Len(call.todo) = 1 /\ Keep(new) /\ call' = Idle /\ UNCHANGED artifact
  <2>1. /\ IsFiniteSet(tensors') /\ Cardinality(tensors') <= MaxTensors
        /\ \A u \in tensors' : u = new \/ u \in tensors
    BY <1>13, KeepKeeps DEF ProviderInv, TensorsInv
  <2>2. TensorsInv'
    BY <1>1, <1>5, <2>1 DEF ProviderInv, TensorsInv, Current
  <2> QED
    BY <1>1, <1>10, <1>13, <2>2, Kept DEF ProviderInv, CallInv
<1>14. CASE /\ Len(call.todo) = 1 /\ call.op = "encrypt_program"
            /\ artifact' = [encoding |-> call.args[1], parts |-> done]
            /\ call' = Idle /\ UNCHANGED tensors
  <2>1. Len(call.done) + 1 = 6
    BY <1>6l, <1>9, <1>14
  <2>2. DOMAIN done = 1 .. 6
    BY <1>6, <2>1
  <2>3. call.args[1] \in Seq(Seq(Int)) /\ DOMAIN call.args[1] = 1 .. 6
    <3>1. call.args[1] \in Encoding
      BY <1>9, <1>14
    <3>2. call.args[1] \in Seq(Seq(Int)) /\ Len(call.args[1]) = 6
      BY <3>1, EncodingAssumption
    <3> QED
      BY <3>2
  <2>4. \A i \in 1 .. 6 : done[i].plain = call.args[1][i]
    BY <1>6l, <1>9, <1>14, <2>1
  <2>5. [i \in DOMAIN done |-> done[i].plain] = call.args[1]
    <3>1. call.args[1] = [i \in DOMAIN call.args[1] |-> call.args[1][i]]
      BY <2>3, IsFunction
    <3> QED
      BY <2>2, <2>3, <2>4, <3>1
  <2>6. \A i \in DOMAIN done : Part(done[i])
    BY <1>6, <1>6l, <1>8
  <2>7. ArtifactInv'
    BY <1>11, <1>14, <2>5, <2>6 DEF ArtifactInv, ArtifactIsWhole
  <2> QED
    BY <1>1, <1>10, <1>14, <2>7, Kept DEF ProviderInv, CallInv
<1> QED
  BY <1>2, <1>12, <1>13, <1>14

LEMMA AddStep ==
  ASSUME ProviderInv, AddRequest
  PROVE  ProviderInv'
<1> DEFINE t == call.args[1]
           u == call.args[2]
           l == CiphertextOf(t.payload)
           r == CiphertextOf(u.payload)
           sum == Sum(t, u, AddAnswer(context.id, [i \in DOMAIN l.values |-> l.values[i] + r.values[i]]))
<1>1. /\ call # Idle /\ call.op = "add" /\ call.stage = "request" /\ call' = Idle
      /\ UNCHANGED <<context, metric, issued, artifact>>
  BY DEF AddRequest, Requesting, Return, Raise
<1>2. UNCHANGED tensors \/ (l.kind = "ciphertext" /\ r.kind = "ciphertext" /\ Keep(sum))
  BY DEF AddRequest
<1>3. /\ t \in tensors /\ u \in tensors /\ Made(t) /\ Made(u) /\ context # NoContext
      /\ t.size = u.size /\ t.terms + u.terms <= MaxTerms
  BY <1>1 DEF ProviderInv, CallInv, TensorsInv, EncryptOp
<1>4. ASSUME l.kind = "ciphertext", r.kind = "ciphertext"
      PROVE  Made(sum) /\ Current(sum)
  <2>1. l = t.payload.ciphertext /\ r = u.payload.ciphertext
    BY <1>3, <1>4, AddFormAssumption DEF CiphertextOf, Made, IsEncryption, IsSum
  <2> HIDE DEF l, r, t, u, sum
  <2>2. l.values \in Seq(Int) /\ r.values \in Seq(Int) /\ Len(l.values) = Len(r.values)
    BY <1>3, <2>1, FormsDiffer
  <2> DEFINE xs == [i \in DOMAIN l.values |-> l.values[i] + r.values[i]]
  <2>3. xs \in Seq(Int) /\ Len(xs) = Len(l.values)
    <3>1. DOMAIN l.values = 1 .. Len(l.values) /\ DOMAIN r.values = 1 .. Len(l.values)
          /\ Len(l.values) \in Nat
      BY <2>2
    <3>2. \A i \in 1 .. Len(l.values) : l.values[i] \in Int /\ r.values[i] \in Int
      BY <2>2
    <3>3. xs \in [1 .. Len(l.values) -> Int]
      BY <3>1, <3>2
    <3> QED
      BY <3>1, <3>3
  <2>4. t.terms + u.terms \in Nat /\ t.size = Len(l.values)
    BY <1>3, <2>1, FormsDiffer
  <2>5. sum = Sum(t, u, AddAnswer(context.id, xs))
    BY DEF sum
  <2> HIDE DEF xs
  <2>6. IsSum(sum) /\ Made(sum)
    BY <1>3, <2>3, <2>4, <2>5 DEF Sum, AddAnswer, Ciphertext, IsSum, Made
  <2>7. Current(sum)
    BY <1>3, <2>5 DEF Sum, AddAnswer, Ciphertext, Current
  <2> QED
    BY <2>6, <2>7
<1> HIDE DEF sum, l, r
<1>5. TensorsInv'
  <2>1. CASE UNCHANGED tensors
    BY <1>1, <2>1, Kept DEF ProviderInv
  <2>2. CASE l.kind = "ciphertext" /\ r.kind = "ciphertext" /\ Keep(sum)
    <3>1. /\ IsFiniteSet(tensors') /\ Cardinality(tensors') <= MaxTensors
          /\ \A w \in tensors' : w = sum \/ w \in tensors
      BY <2>2, KeepKeeps DEF ProviderInv, TensorsInv
    <3> QED
      BY <1>1, <1>4, <2>2, <3>1 DEF ProviderInv, TensorsInv, Current
  <2> QED
    BY <1>2, <2>1, <2>2
<1> QED
  BY <1>1, <1>5, Kept DEF ProviderInv, CallInv

LEMMA DecryptStep ==
  ASSUME ProviderInv, DecryptRequest
  PROVE  ProviderInv'
<1>1. UNCHANGED <<context, metric, issued, tensors, artifact>> /\ call' = Idle
  BY DEF DecryptRequest, Unchanged, Raise, Return
<1> QED
  BY <1>1, Kept DEF ProviderInv, CallInv

LEMMA ProviderInit == Init => ProviderInv
<1> SUFFICES ASSUME Init PROVE ProviderInv
  OBVIOUS
<1>1. StateInv
  BY BoundsAssumption DEF Init, StateInv, Context
<1>2. TensorsInv
  BY FS_EmptySet, BoundsAssumption DEF Init, TensorsInv
<1>3. ArtifactInv /\ CallInv
  BY DEF Init, ArtifactInv, CallInv
<1> QED
  BY <1>1, <1>2, <1>3 DEF ProviderInv

LEMMA ProviderStep == ProviderInv /\ [Next]_vars => ProviderInv'
<1> SUFFICES ASSUME ProviderInv, [Next]_vars PROVE ProviderInv'
  OBVIOUS
<1>1. CASE call = Idle /\ (EncryptTensor \/ EncryptProgram \/ DecryptTensor \/ Add)
  BY <1>1, BeginStep
<1>2. CASE MulOrGemm \/ ExecuteProgram \/ UNCHANGED vars
  <2>1. UNCHANGED <<context, metric, issued, tensors, artifact, call>>
    BY <1>2 DEF MulOrGemm, ExecuteProgram, Refuse, vars
  <2> QED
    BY <2>1, Kept DEF ProviderInv
<1>3. CASE call = Idle /\ Receive
  BY <1>3, ReceiveStep
<1>4. CASE UseContext
  BY <1>4, UseContextStep
<1>5. CASE SetUp
  BY <1>5, SetUpStep
<1>6. CASE SetUpFails \/ RequestFails \/ EncodingFails
  BY <1>6, AbandonStep
<1>7. CASE EncryptNext
  BY <1>7, EncryptStep
<1>8. CASE AddRequest
  BY <1>8, AddStep
<1>9. CASE DecryptRequest
  BY <1>9, DecryptStep
<1> QED
  BY <1>1, <1>2, <1>3, <1>4, <1>5, <1>6, <1>7, <1>8, <1>9 DEF Next

LEMMA ProviderInvariant == Spec => []ProviderInv
BY ProviderInit, ProviderStep, PTL DEF Spec
-----------------------------------------------------------------------------
(* Results. *)

(* Type correctness, the caller's bounds among it; a call that requests    *)
(* anything but a set-up has a context.                                    *)
THEOREM ProviderTypes == Spec => []TypeOK
<1>1. ProviderInv => TypeOK
  <2> SUFFICES ASSUME ProviderInv PROVE TypeOK
    OBVIOUS
  <2>1. \A t \in tensors : t.size = Len(t.payload.ciphertext.values) /\ t.terms <= MaxTerms
    BY FormsDiffer DEF ProviderInv, TensorsInv
  <2>2. call # Idle =>
          /\ call.stage \in {"context", "request"}
          /\ call.stage = "request" => context # NoContext
          /\ call.op = "encrypt_program" => Len(call.todo) + Len(call.done) = 6
    <3>1. ASSUME call # Idle, call.op = "encrypt_program"
          PROVE  Len(call.todo) + Len(call.done) = 6
      <4> DEFINE m == Len(call.todo)
                 n == Len(call.done)
      <4>1. EncryptionInv /\ call.done \in Seq(Range(call.done))
        BY <3>1 DEF ProviderInv, CallInv, EncryptOp
      <4>2. call.todo \in Seq(Seq(Int)) /\ n + m = 6
        BY <3>1, <4>1 DEF EncryptionInv
      <4>3. m \in Nat /\ n \in Nat
        BY <4>1, <4>2
      <4> HIDE DEF m, n
      <4>4. m + n = 6
        BY <4>2, <4>3
      <4> QED
        BY <4>4 DEF m, n
    <3> QED
      BY <3>1 DEF ProviderInv, CallInv
  <2> QED
    BY <2>1, <2>2 DEF ProviderInv, StateInv, TensorsInv, TypeOK
<1> QED
  BY <1>1, ProviderInvariant, PTL

(* Everything the provider has encrypted or added up is of the one context *)
(* it has: set-ups that failed, also half way, leave nothing behind that   *)
(* was made before.                                                        *)
THEOREM SingleContext == Spec => []OneContext
<1>1. ProviderInv => OneContext
  <2> SUFFICES ASSUME ProviderInv PROVE OneContext
    OBVIOUS
  <2>1. \A t \in tensors : t.session_id = "own" => Current(t)
    BY DEF ProviderInv, TensorsInv, OwnTensor
  <2>2. artifact # NoArtifact => \A t \in ToSet(artifact.parts) : Current(t)
    BY DEF ProviderInv, ArtifactInv, Part, ToSet
  <2>3. ASSUME call # Idle, NEW t \in ToSet(call.done)
        PROVE  Current(t)
    <3>1. call.done \in Seq(Range(call.done))
      BY <2>3 DEF ProviderInv, CallInv
    <3>2. PICK i \in DOMAIN call.done : t = call.done[i]
      BY <2>3 DEF ToSet
    <3>3. i \in 1 .. Len(call.done) /\ call.done # <<>>
      BY <3>1, <3>2
    <3>4. EncryptionInv
      BY <2>3, <3>3 DEF ProviderInv, CallInv
    <3> QED
      BY <3>2, <3>3, <3>4 DEF EncryptionInv, Part
  <2> QED
    BY <2>1, <2>2, <2>3 DEF OneContext, OwnCiphertexts, Current
<1> QED
  BY <1>1, ProviderInvariant, PTL

(* Where the evaluator answers an addition in the form the provider knows, *)
(* only ciphertexts are sent, and with the context they belong to: the     *)
(* comparison of sessions keeps those of other contexts away.              *)
THEOREM ConsistentRequests ==
  Spec => [](AddForm = "RepresentativeAdd" => RequestsAreConsistent)
<1> DEFINE Consistent == AddForm = "RepresentativeAdd" => RequestsAreConsistent
<1>1. Init => Consistent
  BY DEF Init, RequestsAreConsistent, NoRequest
<1>2. ASSUME AddForm = "RepresentativeAdd", NEW t \in tensors, ProviderInv, OwnTensor(t)
      PROVE  CiphertextOf(t.payload).kind = "ciphertext" /\ CiphertextOf(t.payload).context = context.id
  <2>1. Made(t) /\ Current(t)
    BY <1>2 DEF ProviderInv, TensorsInv
  <2>2. CiphertextOf(t.payload) = t.payload.ciphertext
    BY <1>2, <2>1, FormsDiffer
  <2> QED
    BY <2>1, <2>2 DEF Made, Current
<1>3. ProviderInv /\ Consistent /\ [Next]_vars => Consistent'
  <2> SUFFICES ASSUME AddForm = "RepresentativeAdd", ProviderInv, RequestsAreConsistent, [Next]_vars
               PROVE  RequestsAreConsistent'
    OBVIOUS
  <2>1. CASE AddRequest
    <3>1. call.args[1] \in tensors /\ call.args[2] \in tensors
          /\ OwnTensor(call.args[1]) /\ OwnTensor(call.args[2])
      BY <2>1 DEF AddRequest, Requesting, ProviderInv, CallInv, EncryptOp
    <3>2. request' = [route |-> "add", context |-> context.id,
                      operands |-> <<CiphertextOf(call.args[1].payload),
                                     CiphertextOf(call.args[2].payload)>>]
      BY <2>1 DEF AddRequest
    <3> QED
      BY <1>2, <3>1, <3>2 DEF RequestsAreConsistent
  <2>2. CASE DecryptRequest
    <3>1. call.args[1] \in tensors /\ OwnTensor(call.args[1])
      BY <2>2 DEF DecryptRequest, Requesting, ProviderInv, CallInv, EncryptOp
    <3>2. \/ request' = NoRequest
          \/ request' = [route |-> "decrypt", context |-> context.id,
                         operands |-> <<CiphertextOf(call.args[1].payload)>>]
      BY <2>2 DEF DecryptRequest
    <3> QED
      BY <1>2, <3>1, <3>2 DEF RequestsAreConsistent, NoRequest
  <2>3. CASE UNCHANGED request
    BY <2>3 DEF RequestsAreConsistent
  <2>4. CASE request'.route \in {"none", "setup", "encrypt"}
    BY <2>4 DEF RequestsAreConsistent
  <2>5. AddRequest \/ DecryptRequest \/ UNCHANGED request \/ request'.route \in {"none", "setup", "encrypt"}
    <3>1. CASE EncryptTensor \/ EncryptProgram \/ DecryptTensor \/ Add
      BY <3>1, HowCallsGo DEF EncryptTensor, EncryptProgram, DecryptTensor, Add
    <3>2. CASE MulOrGemm \/ ExecuteProgram
      BY <3>2, HowCallsGo DEF MulOrGemm, ExecuteProgram
    <3>3. CASE \/ UseContext \/ Receive \/ SetUpFails \/ RequestFails \/ EncodingFails \/ SetUp
               \/ EncryptNext \/ UNCHANGED vars
      BY <3>3 DEF UseContext, Receive, SetUpFails, RequestFails, EncodingFails, SetUp, EncryptNext,
                  NoRequest, vars
    <3> QED
      BY <3>1, <3>2, <3>3 DEF Next
  <2> QED
    BY <2>1, <2>2, <2>3, <2>4, <2>5
<1> QED
  BY <1>1, <1>3, ProviderInvariant, PTL DEF Spec

(* What is decrypted is what was encrypted, value by value within half a   *)
(* unit of the encoding, whether the server pads the values or not.        *)
THEOREM DecryptionRoundTrip == Spec => []RoundTrip
<1>1. Init => RoundTrip
  BY DEF Init, RoundTrip
<1>2. ProviderInv /\ RoundTrip /\ [Next]_vars => RoundTrip'
  <2> SUFFICES ASSUME ProviderInv, RoundTrip, [Next]_vars PROVE RoundTrip'
    OBVIOUS
  <2>1. CASE DecryptRequest
    <3> DEFINE t == call.args[1]
               ct == CiphertextOf(t.payload)
    <3>1. t \in tensors /\ Made(t) /\ call.op = "decrypt_tensor"
      BY <2>1 DEF DecryptRequest, Requesting, ProviderInv, CallInv, TensorsInv, EncryptOp
    <3>2. CASE report'.error # NoError
      BY <3>2 DEF RoundTrip
    <3>3. CASE /\ HasHandle(t.payload)
               /\ \E ns \in DecryptAnswers(ct) :
                    ~(Len(ns) < t.size)
                    /\ Return([tensor |-> t, values |-> [i \in 1 .. t.size |-> Unscaled(ns[i])]])
      <4>1. PICK ns \in DecryptAnswers(ct) :
              ~(Len(ns) < t.size)
              /\ Return([tensor |-> t, values |-> [i \in 1 .. t.size |-> Unscaled(ns[i])]])
        BY <3>3
      <4>2. IsEncryption(t) /\ ct = t.payload.ciphertext
        BY <3>1, <3>3, FormsDiffer
      <4> HIDE DEF ct, t
      <4>3. /\ t.plain \in Seq(Int) /\ t.size = Len(t.plain) /\ ct.values = Numbers(t.plain)
            /\ Len(ct.values) = Len(t.plain) /\ ct.values \in Seq(Int)
        BY <4>2, NumbersAreSequence DEF IsEncryption
      <4>4. \A i \in 1 .. t.size : ns[i] = ct.values[i]
        BY <4>1, <4>3, AnswersAgree
      <4>5. \A i \in 1 .. t.size : ns[i] = Rounded(t.plain[i]) /\ t.plain[i] \in Int
        <5>1. DOMAIN t.plain = 1 .. t.size
          BY <4>3
        <5>2. \A i \in DOMAIN t.plain : Numbers(t.plain)[i] = Rounded(t.plain[i])
          BY DEF Numbers
        <5>3. \A i \in DOMAIN t.plain : t.plain[i] \in Int
          BY <4>3
        <5> QED
          BY <4>3, <4>4, <5>1, <5>2, <5>3
      <4> DEFINE values == [i \in 1 .. t.size |-> Unscaled(ns[i])]
      <4>6. Len(values) = t.size
        BY <4>3
      <4>7. \A i \in 1 .. t.size : /\ values[i] = Unscaled(Rounded(t.plain[i]))
                                   /\ t.plain[i] \in Int
        BY <4>5
      <4>8. report'.result = [tensor |-> t, values |-> values]
        BY <4>1 DEF Return
      <4> HIDE DEF values
      <4>9. ASSUME NEW i \in 1 .. t.size
            PROVE  LET d == values[i] - t.plain[i] IN -Fine <= 2 * d /\ 2 * d <= Fine
        BY <4>7, RoundedWithinHalf
      <4> QED
        BY <4>6, <4>8, <4>9 DEF RoundTrip
    <3>4. \/ \E e \in {"ProviderConfigurationError", "ShapeMismatchError"} : Raise(e)
          \/ /\ HasHandle(t.payload)
             /\ \E ns \in DecryptAnswers(ct) :
                  ~(Len(ns) < t.size)
                  /\ Return([tensor |-> t, values |-> [i \in 1 .. t.size |-> Unscaled(ns[i])]])
      BY <2>1, Zenon DEF DecryptRequest
    <3> QED
      BY <3>2, <3>3, <3>4, HowCallsGo DEF NoError
  <2>2. CASE UNCHANGED <<report, call>>
    BY <2>2 DEF RoundTrip
  <2>3. CASE report'.error # NoError \/ call' # Idle
    BY <2>3 DEF RoundTrip
  <2>4. CASE report'.error = NoError /\ call' = Idle /\ report'.op # "decrypt_tensor"
    BY <2>4 DEF RoundTrip
  <2>5. \/ DecryptRequest \/ UNCHANGED <<report, call>>
        \/ report'.error # NoError \/ call' # Idle \/ report'.op # "decrypt_tensor"
    <3>1. CASE EncryptTensor \/ EncryptProgram \/ DecryptTensor \/ Add
      <4>1. CASE Add
        <5>1. PICK l \in tensors, r \in tensors :
                IF PairError(l, r, TRUE) = NoError THEN Begin("add", <<>>, <<l, r>>)
                ELSE Refuse("add", PairError(l, r, TRUE))
          BY <4>1 DEF Add
        <5> DEFINE e == PairError(l, r, TRUE)
        <5>2. IF e = NoError THEN Begin("add", <<>>, <<l, r>>) ELSE Refuse("add", e)
          BY <5>1
        <5> HIDE DEF e
        <5> QED
          BY <5>2, HowCallsGo
      <4>2. CASE DecryptTensor
        BY <4>2, HowCallsGo DEF DecryptTensor, NoError
      <4> QED
        BY <3>1, <4>1, <4>2, HowCallsGo DEF EncryptTensor, EncryptProgram
    <3>2. CASE MulOrGemm \/ ExecuteProgram
      <4>1. CASE MulOrGemm
        <5>1. PICK l \in tensors, r \in tensors, op \in {"mul", "gemm"} :
                Refuse(op, IF PairError(l, r, op = "mul") = NoError THEN "UnsupportedOperationError"
                           ELSE PairError(l, r, op = "mul"))
          BY <4>1 DEF MulOrGemm
        <5> DEFINE e == PairError(l, r, op = "mul")
        <5>2. Refuse(op, IF e = NoError THEN "UnsupportedOperationError" ELSE e)
          BY <5>1
        <5> HIDE DEF e
        <5> QED
          BY <5>2, HowCallsGo DEF NoError
      <4> QED
        BY <3>2, <4>1, HowCallsGo DEF ExecuteProgram, NoError
    <3>3. CASE UseContext \/ SetUp
      <4>1. \/ report'.error = "ValueError"
            \/ call # Idle /\ call' = [call EXCEPT !.stage = "request"]
        BY <3>3, HowCallsGo DEF UseContext, SetUp
      <4> QED
        BY <4>1, CallGoesOn DEF NoError, ProviderInv
    <3>3a. CASE Receive \/ SetUpFails \/ RequestFails \/ EncodingFails \/ UNCHANGED vars
      BY <3>3a, HowCallsGo DEF Receive, SetUpFails, RequestFails, EncodingFails, NoError, vars
    <3>4. CASE AddRequest
      <4>1. Return(<<>>) \/ Raise("ProviderConfigurationError")
        BY <3>4 DEF AddRequest
      <4>2. call.op = "add"
        BY <3>4 DEF AddRequest, Requesting
      <4> QED
        BY <4>1, <4>2, HowCallsGo DEF NoError
    <3>5. CASE EncryptNext
      <4>1. \/ Return(<<>>)
            \/ call # Idle /\ DOMAIN call' = DOMAIN call
        BY <3>5 DEF EncryptNext, Requesting
      <4>2. call.op \in EncryptOp
        BY <3>5 DEF EncryptNext, Requesting
      <4> QED
        BY <4>1, <4>2, HowCallsGo, CallGoesOn DEF EncryptOp, ProviderInv
    <3> QED
      BY <3>1, <3>2, <3>3, <3>3a, <3>4, <3>5 DEF Next
  <2> QED
    BY <2>1, <2>2, <2>3, <2>4, <2>5
<1> QED
  BY <1>1, <1>2, ProviderInvariant, PTL DEF Spec

(* The caller's artifact holds all tensors of one program's encoding, in   *)
(* their order, however many attempts at encrypting it failed.             *)
THEOREM WholeArtifacts == Spec => []ArtifactIsWhole
<1>1. ProviderInv => ArtifactIsWhole
  BY DEF ProviderInv, ArtifactInv, ArtifactIsWhole
<1> QED
  BY <1>1, ProviderInvariant, PTL
=============================================================================

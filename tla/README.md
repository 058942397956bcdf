# A verification of ilc-client's executable encryption

`ilc-client` lets a Python program describe a small tensor computation as a graph and have a
*provider* execute it on encrypted tensors, under an encrypted copy of the graph. This directory
holds TLA+ modules for the part of the package in which that happens (`src/ilc/executable`) and for
the bring-up and demonstration of the remote provider's local evaluator (`src/ilc`, `examples`,
`scripts`), the TLC configurations that check them on small instances, and theorems checked by TLAPS.
`PROJECT.json` maps every definition to the lines it stands for.

## The system

Paths below are relative to `src/ilc/executable/` unless they start with another directory.

| part | state it keeps | operations |
|---|---|---|
| program graphs, `program.py` | none after construction (frozen dataclasses) | `PlainProgram.revalidate`: `_validate_structure`, then `_validate_shapes` |
| encoding, `encoding.py` | none | `encode_program` writes six flat 0/1 arrays; `validate_encrypted_graph_program` inspects an artifact |
| plaintext provider, `providers/plaintext.py` | one session | `encrypt_*`, `execute_program`, `decrypt_tensor`, `add`, `mul`, `gemm` |
| CKKS provider, `providers/ckks.py` | configuration, session with keys and library context | the same; `execute_program` is the oblivious executor |
| ILC provider, `providers/ilc.py` | configuration, session, public context obtained lazily from a server | the same; execution itself is refused ("fail-closed") |
| helpers, `providers/_helpers.py` | none | provider, session and shape checks; plaintext kernels |
| graph runtime, `runtime.py` | none | `execute`: check artifact and inputs, dispatch, check outputs |
| depth and tolerance, `validation.py` | none | `estimate_depth`, `check_tolerance`, `compare_outputs` |
| sessions, tensors, errors, protocol | immutable values | - |
| benchmark, `benchmark.py`, `metrics.py`, `workloads.py` | the results collected so far | `run_benchmark` over workloads, providers and repetitions; the command line |
| library contract, `src/ilc/library.py`, `example_ops.py`, `config.py` | - | routes of the remote server and the local evaluator |
| local kernel, `src/ilc/runtime.py` | - | `build_local_kernel`, `wasm_install` of the WASM evaluator |
| demonstration, `examples/abc.py` | - | inputs from the environment, kernel, install, `evaluate_abc`, verdict |
| scripts and CI, `scripts/` | environment, the bundle's file | minting tokens, preflight, live smoke, benchmark gate |

How they interact: a caller builds a `PlainProgram` (which validates itself), asks a provider to
`validate_program`, encrypts program and inputs, and hands everything to the graph runtime, which
checks ids, sessions and shapes and calls `provider.execute_program`. The CKKS provider encrypts
the *encoding* of the program and executes it without looking at the plaintext graph: it knows the
ids and shapes of the nodes only. For every node it evaluates **every** input and **every**
operation on **every** ordered pair of earlier values that has the right shape, multiplies each
candidate with an encrypted weight that is 1 for the node's own operation and 0 for all others,
and adds them up. The plaintext provider executes the program directly and is the reference the
benchmark compares the others with.

The ILC provider, instead, works on a local kernel with a WASM evaluator installed. The CI job
brings one up in steps that share environment variables and a file: tokens are minted, variables and
tokens inspected, the bundle is fetched and its digest compared, the demonstration builds a kernel,
installs the bundle and computes `a + b - c` by two calls of an evaluator route.

All of this is sequential, synchronous Python and shell: there are no threads, callbacks or messages
between the parts, and nothing is persisted by `src/ilc/executable`. What is hard is of another kind:

- two passes, over two data structures, must together accept exactly the sound graphs;
- positions in six flat arrays are written in one file and read in another;
- correctness of the oblivious sum is a statement about all candidates of all nodes, each
  building on the sums before it;
- the multiplicative depth is *estimated* by one function, *accounted* by four others, and
  *consumed* by the library: three numbers that must stay in order;
- the library, and every depth check, can fail in the middle of an execution;
- artifacts and tensors are matched to providers and programs by ids and sessions;
- what the oblivious executor does must not depend on what is encrypted;
- the remote provider sets itself up lazily, in steps that can fail;
- the bring-up spreads its checks over two scripts, a library and an external verifier, and between
  them tokens expire and the bundle's file may change.

`PROJECT.json` lists these hazards at their lines, with the properties that cover them.

What would make each part correct: *validation* accepts exactly the well-formed graphs;
*encoding* means the graph to its reader; *executors* compute the values of the graph or fail
handing over nothing; *depth* accounting bounds the real depth and stays within the budget, and
validation decides in advance whether it will; the *runtime* never lets tensors or artifacts cross
sessions; the *comparison* passes exactly when each value is within tolerance; the *benchmark*
reports one result per workload and provider, and its gate passes only if all runs did; the
*bring-up* installs the expected bundle, its scripts agree on what a token must say, and it ends;
the *demonstration* executes each route once.

## The modules

| module | contents |
|---|---|
| `Programs` | nodes, programs, and well-formedness stated declaratively |
| `PlainProgram` | `revalidate`, one action per iteration of its two loops |
| `ProgramSemantics` | the tensor arithmetic as abstract operators with the laws the executors need; the value of a node |
| `GraphExecution` | **abstract specification**: what executing a program promises, whichever provider does it |
| `GraphEncoding` | the selectors a program stands for, and the weight of a candidate |
| `PublicExecution` | **abstract specification**: what may be known of an encrypted execution |
| `EncodeProgram` | `encode_program`: `PlainProgram`'s validation, then the loops that fill the flat arrays |
| `PlaintextExecution` | `PlaintextProvider.execute_program`; implements `GraphExecution` |
| `CKKSExecution` | `CKKSProvider.validate_program` and the oblivious executor; implements `GraphExecution` and `PublicExecution` |
| `MCGraphs` | modular tensor arithmetic and a generator of all small graphs, for TLC |
| `MC*` | the small instances (the cfg files give them to TLC) |
| `GraphRuntime` | `ExecutableGraphRuntime.execute`, the artifact checks, and a caller with several provider sessions |
| `ILCProvider` | `ILCProvider`, one step per remote request, with server and evaluator external |
| `Benchmark` | the benchmark's command line and the script that judges its report |
| `Tolerance` | `check_tolerance`, `compare_outputs` |
| `LiveTokens` | bearer tokens: minted, inspected, verified (no state) |
| `AbcEvaluation` | `evaluate_abc` and the two ways of executing a route |
| `LiveSmoke` | the bring-up: CI job, demonstration, `ILCProvider.from_environment`; composes the two above |
| `ProgramFacts` | lemmas about well-formed programs |
| `EncodeProgramProofs` | theorems about validation and encoding |
| `PlaintextExecutionProofs`, `CKKSExecutionProofs` | theorems about the two executors, with both refinements |
| `GraphRuntimeProofs`, `ILCProviderProofs`, `LiveSmokeProofs` | theorems about the module of that name |
| `BenchmarkProofs` | theorems about the benchmark, and about `Tolerance` |

`Programs`, `ProgramSemantics` and `GraphEncoding` hold no state. `EncodeProgram` takes
`PlainProgram`'s steps as its first stage; what the two establish (`AcceptedIsWellFormed`,
`EntriesAreSelectors`) is what the executors assume of their corpus (`CorpusAssumption`) and of the
selectors they read (`GraphEncoding`). The two executors are connected by the abstract
specification both implement. `GraphRuntime` uses what they implement: there an execution that
starts yields the values of the graph (`NodeValues`), or fails. `LiveSmoke` ends where `ILCProvider`
begins: with an evaluator installed. `Benchmark` keeps of each run only whether it was within
tolerance; `Tolerance` is how that is decided. Two of these seams are theorems: a finished
`GraphExecution` hands over `NodeValues` (`ExecutionYieldsNodeValues`), and a run of the reference
provider is always within tolerance (`ReferencePasses`), as `Benchmark` has it.

A definition marked "Fault" in a comment is not part of a model: it is a plausible mistake in the
definition it precedes, and `PROJECT.json` names the property that TLC finds violated when the
mistake is made.

### Validation (`PlainProgram`)

`program` is the candidate, `at` the node a loop looks at, `seen` and `shapes` are the local
collections of the two passes, and `outcome` is how `revalidate` ended. The model keeps the order
of the code's statements where it matters: a node's id is in `seen` when its operands are looked
up. `shapes[id]` of an unknown id is Python's `KeyError` (action `LookupFails`).

### Encoding (`EncodeProgram`)

`tensors` are the six flat arrays, addressed from 0 in row-major order as in the code;
`ProgramScalar` is the executor's way of reading them (`_program_scalar`). Which column belongs to
which opcode is written down twice in the code, in the encoder's list (`OpcodePosition`) and in a
table of the executor (`OpcodeIndex`); `EntriesAreSelectors` reads by the one what was written by the
other. `stage` is `"validation"`
while the steps are those of `PlainProgram` (`Revalidate`); on what they accept the encoder allocates
and writes. It looks ids up in two dictionaries without a check of its own, and a lookup that fails
ends in the stage `"failed"`: whether that happens is a question to both modules at once
(`AcceptedIsEncodable`).

### Plaintext execution (`PlaintextExecution`)

`values` is the dictionary of the code, `at` the loop's node. When a lookup fails, or a check in
`add`, `mul`, `gemm` or after them (`OperandsFit`), the execution fails; `AlwaysReturns` says that on
an accepted program it does not.

### CKKS execution (`CKKSExecution`)

One action per iteration of each loop:

| code | actions |
|---|---|
| `validate_program`: `estimate_depth`, `_required_encrypted_graph_depth`, comparison | `EstimateNode`, `AcceptProgram`, `RefuseProgram` |
| `_encrypted_input_terms` | `AddInput`, `SkipInput`, `EndInputs` |
| `_encrypted_operation_terms`, `_weighted_candidates` | `AddCandidate`, `SkipCandidate` |
| `_sum_or_zero` of a node | `AddTerm` in the actions above, `StoreNode` |
| `_encrypted_output`, the returned dictionary | `AddOutput`, `SkipOutput`, `StoreOutput` |
| `_next_depth`, `_next_depth_raw` raising | `ExceedBudget` |
| `_call` raising | `OpenFHEFails` |

`program`, `budget` (the configured depth), `unchecked` (the caller passes
`assume_validated=True` and `validate_program=False`, as the benchmark does) and `inputs` are
chosen in `Init` and never change. A tensor is a record of its shape, its decrypted value
(`payload`), the `depth` the code keeps as `depth_used`, and the `level`: how many multiplications
are really chained into its ciphertexts. `level` is not in the code; it is what `depth_used` has to
bound. Inputs may come in with a depth above 0, as results of earlier operations do.

Abstractions:

- The code collects the terms of a node in a list and adds them afterwards; the model adds each
  term at once, which gives the same sum because addition comes in the same order, and starts from
  the zero tensor, which is neutral. `terms` counts them, so that the case without terms stays
  visible. A failure of the library in the closing additions shows as a failure at a term.
- The weight of a candidate is a product of entries the model takes from `GraphEncoding`;
  `EncodeProgram` shows that the arrays hold these entries.
- CKKS arithmetic is approximate; the model's is exact. What is shown is that the right quantities
  are computed, not how far rounding moves them.
- The dictionary of outputs is a sequence by output row. A repeated output id gives equal rows.

`PublicExecution` is given what the artifact and the inputs show: budget, shapes, ids, depths of the
inputs. It has one way to go, except that the library may fail at a call, and that `validate_program`,
which sees the plaintext program, may refuse beforehand. `ImplementsPublic` maps the executor's
tensors to their depths, its running sum to a depth and a number of products, and forgets opcodes,
edges and payloads: that every step is then one of `PublicExecution`'s means that none of them has
an influence on which products are formed, on their order and depth, or on where an execution stops.
Time, and what the library does inside a call, are not modelled.

### Graph runtime and sessions (`GraphRuntime`)

A caller has several provider objects, each with a session of its own; `p` is at once the object,
its keys and its session id. It holds encrypted `tensors`, at most one encrypted program
(`artifact`), and the `report` of its last call. Calls come in any order with any arguments the
caller holds, and each is one step, because nothing else runs while a call does.

| code | definitions |
|---|---|
| `validate_tensor`, `validate_pair`, `gemm_shape` | `TensorError`, `PairError` |
| `encrypt_tensor`, `add`, `mul`, `gemm`, `decrypt_tensor` of the CKKS and plaintext providers | `EncryptTensor`, `Operate`, `Decrypt` |
| `encrypt_program`; `EncryptedGraphProgram`, a public class | `EncryptProgram`; `Reassemble` puts in a part encrypted elsewhere |
| `_validate_encrypted_program`, `_validate_inputs`, `_validate_outputs` | `ArtifactIsFor`, `InputsAreFor`, `OutputsAreOf` |
| checks of `CKKSProvider.execute_program` (with `validate_encrypted_graph_program`) | `CKKSFaults`, `ArtifactFits` |
| checks of `PlaintextProvider.execute_program`, as its interpreter meets them | `PlaintextFaults`, `NodeError`, `InterpreterFaults` |
| `ExecutableGraphRuntime.execute` | `Execute`, `Endings` |

`origins` of a tensor, the sessions whose ciphertexts went into it, is not in the code; it is what
`session_id` has to be true to. An artifact is its public metadata, represented by the `graph` they
come from, and its six encrypted `parts`, of each of which the model keeps the session that
encrypted it and the graph it encodes. When `encrypt_program` made the artifact the outputs are the
values of that graph; when parts were exchanged only their shapes are known, and the model allows
every value. The plaintext provider computes the artifact's program on the inputs as they come
(`AsSupplied`): executed as another version of the program, it may have inputs of other shapes than
it declares, and those it does not read may be missing. `ReportIsMeant` says what
a result means then too: where two versions have the same id and the same public metadata, nothing in
an artifact tells them apart, and a report may hold the values of the other one. The depth budget and the library may fail a call at any time (`Mishap`);
`CKKSExecution` says when the budget does.

### ILC provider (`ILCProvider`)

The state is the provider's (`context`, the public context, and `metric`, the one part of the
configuration that changes), the caller's `tensors` and `artifact`, the `call` in progress with its `stage`, the last `request`, and the `report`. A call first has
`_ensure_public_context` find or set up the context (`UseContext`, `SetUp`, `SetUpFails`) and then
makes its request (`EncryptNext`, `AddRequest`, `DecryptRequest`); encrypting a program does both six
times. Every request may fail (`RequestFails`), and a set-up may fail although the server carried it
out. What server and evaluator answer is external; `AddForm` is the form of the evaluator's answer
to an addition, of which the code knows one and the tests another. Values are integers in `Fine`-ths
of the unit of the fixed-point encoding, so that rounding shows; a tensor with a value that is not
finite fails when it is to be rounded, after the set-up and before its request (`EncodingFails`).

### Benchmark (`Benchmark`)

`stage` is where `main` and `run_benchmark` are, `w` and `p` the positions of the two loops,
`timings` the runs of the current pair, of which the model keeps whether they were within tolerance,
`results` the list that grows, `output` what is at the destination. `history` remembers the runs of
every pair, which the code forgets. `BenchmarkConfig` knows the workloads but not the providers, so
that a configuration may name a provider there is none of; `_provider_factories` raises when it comes
to it (`FactoryFails`). A run of the CKKS provider may fail, one of the ILC provider
always does, because it refuses to execute. `gate` says whether `run_executable_benchmark.sh` is around
it, with skipping allowed (`"tolerant"`) or not; `Judge` is the script's reading of the report. Where
`main` raises, `set -e` ends the script as well.

### Tolerance (`Tolerance`)

One step: `CompareOutputs` of two sets of outputs, in any order the dictionary may have. The two loops
are recursive functions of the number of turns (`Checked` over values, `Compared` over outputs), whose
turns are `CheckValue` and `CompareOutput`. A tensor has as many values as its shape has places, which
`PlainTensor` checks when it is made (`OutputsAssumption`). Numbers are integers, infinities and NaN
with Python's comparisons and `max`.

### Bringing up the evaluator (`LiveSmoke`, with `LiveTokens` and `AbcEvaluation`)

One configuration is chosen in `Init` and one of the ways in: the CI job from its start (`"mint"`),
the live script by hand with tokens from elsewhere (`"provision"`), the demonstration by hand, or
`ILCProvider.from_environment` (`"inputs"`).

| code | actions |
|---|---|
| `mint_ci_tokens.py` | `Mint` (`Mintable`, `MintedRuntime`, `MintedInstall`) |
| `ci_preflight.sh` | `Preflight` (`ConfigComplete`, `TokensPass`, `CollectedClaims`) |
| `ci_live_smoke.sh` | `Fetch`, `StartDemonstration`, `ProvisionFails` |
| `_load_runtime_inputs`, the checks of `from_environment` | `LoadInputs` |
| `build_local_kernel` | `BuildKernel`, `KernelFails` |
| `wasm_install` | `HashBundle`, `Install`, `RejectToken`, `InstallFails` |
| the status checks of the two callers | `CheckStatus` |
| `evaluate_abc`, `_maybe_execute`, `_resolve` | `Evaluate`: `Begin`, `CallEagerly`, `CallForPlan`, `ExecutePlan`, `UseAnswer`, `UnexpectedAnswer`, `RouteFails` |
| the end of `main` | `Report` |
| time, other processes | `Expire`, `Replace` |

A token has an actor, an issuer, the key that signed it, and claims, its own and inherited ones;
a bundle is its digest; a host is a library path with or without a trailing slash. External, and
modelled as widely as the code leaves them open: the framework (which kernel constructor exists and
which errors it raises, so that a kernel may be left without a verifier; the form of an install's
answer; whether the backend context executes eagerly), the verifier (`Authorizes` is what the error
message of `wasm_install` says of it; it may go either way on a host with a trailing slash), and the
evaluator, which in some behaviours adds wrongly (`sound`). `wasm_install` compares the digest of one
reading of the file and hands on the path, so `HashBundle` and `Install` are two steps. `executed`
counts what the code does not: how often each route ran.

## The runs

| run | instance | shows |
|---|---|---|
| `self_reference` | candidate programs as in `encoding` | violated: see findings |
| `encoding` | candidate programs of up to three nodes: all sound graphs over four shapes, inputs listed backwards or twice, outputs repeated, and duplicates, missing, forward and self references, wrong arity, wrong shapes, wrong interfaces | `revalidate` accepts exactly the well-formed programs; its lookup fails only on a self reference; what it accepts can be encoded; written entries are what the reader takes them for |
| `plaintext` | all sound graphs of up to three nodes | the interpreter computes the graph, its internal checks never fire, it returns |
| `ckks` | the same graphs, budgets 1, 5 and 7, inputs of depth 0 or 2, checked and unchecked callers, library failures anywhere | the oblivious executor computes the graph or fails and hands over nothing; depth accounting bounds the real depth; a refused program could not have run; no value is an unfed zero; what it does depends on public metadata only; executions end |
| `ckks_accepted` | the same graphs at the default budget 5 | violated: see findings |
| `sessions` | two CKKS sessions and a plaintext one, two program ids with two versions each, two tensors kept, two exchangeable parts | ciphertexts of two sessions never meet; an untampered artifact yields the values of a program with the reported id, in the reported shapes; an artifact used as intended is stopped by input checks, budget or library only |
| `ilc` | two values, two encodings, two contexts, three terms in a sum, every request failing or not, contexts with and without a readable metric, a context given or not | all that is encrypted belongs to the one context; the evaluator gets ciphertexts of the context it is sent; values survive the encoding to half a unit; artifacts are whole |
| `ilc_add` | the same, with the evaluator's answer as in the tests | violated: see findings |
| `benchmark` | two workloads, three providers and an unknown one in every selection and order, one or two repetitions, with and without the gate | the report has every pair once, in order, and passes one exactly when all its runs did; nothing is written before the end; the gate passes exactly when all runs did, or a skip is allowed; the benchmark ends |
| `tolerance` | two values in one output or in two, or one value, from eight numbers with infinities and NaN; outputs of one id with other shapes, with as many values or not | the verdict is the intended one in every order; the error reported is one that was met, and the largest when all passed |
| `live_smoke` | a complete configuration, those that deviate from it in one place, and some in two (no bundle yet, another key pair); two bundles; four triples of arguments, in range, above, at its end and below | the kernel has the expected bundle unless the file changes between the two readings; a rejected token after a passed preflight is explained; minted tokens pass the preflight; each route is executed once; the verdict is right exactly in the range of the modulus; the bring-up ends |
| `smoke_verdict` | the same configurations, default arguments | violated: see findings |

Why the bounds are enough. The executors treat a node through its position, its shape and its
operands' positions only. Three nodes give an operation on an operation (depth grows, a candidate
reads an earlier sum), on inputs in either order, on one operand twice, and unused nodes; the four
shapes `<<2>>`, `<<1,2>>`, `<<2,1>>`, `<<1,1>>` give element-wise and matrix candidates that apply
together (1x1), separately, and not at all. Arithmetic is modulo 3, and inputs get different
values, so that a lost, doubled or swapped term changes a sum. Budget 1 fails on the selectors
themselves, 5 is the default and admits some graphs and not others, 7 admits every graph of three
nodes with fresh inputs. Constants: `Modulus`, `Budget`, `InputDepth`, `MCShape`, `MCNodeId`, and
the numbers of nodes in `MCCorpus`, `MCPrograms` and `MCCandidates`.

For `sessions`, two CKKS sessions are needed to confuse them and a third provider of another kind to
confuse kinds; two versions of a program under one id differ in the shape of an input, in their
inputs, or in the shape of the output, so that each check of the runtime is the only one to notice
something, and one version's sum meets operands of two shapes in the other's inputs. Only a matrix
product can succeed on inputs of other shapes than declared; none is among these programs, so that
case is covered by the theorem (`ReportsAreMeant`) alone. Two tensors are as many as an operation
takes. The sessions of one kind are interchangeable (`SYMMETRY`). Constants: `MaxTensors`, `Replaceable`, `MCCallerProgram`,
and arithmetic modulo 2. For `ilc`, two contexts are one more than a provider should ever use; three
terms are a sum added again (`MaxContexts`, `MaxTerms`, `MaxTensors`). For `benchmark`, two
workloads and `MaxRepeat` 2 exercise each turn of each loop. For `live_smoke`, every check of the
bring-up looks at one variable, one token or one file, so that one deviation decides it; the pairs
add what only shows together, fetching when no bundle is there and a second key pair. The file is
replaced at most once before it is hashed and once after (`Replace`); once the bundle is installed it
is not read again. Constants: `MCEnvironment`, `MCBundle`, `MCArguments`.

Deadlock is checked in the runs of `GraphRuntime` and `ILCProvider`, whose callers can always go on.
It is off elsewhere, because each of those machines models one call, which ends.

**Fairness.** `PlaintextExecution`, `CKKSExecution` and `Benchmark` assume weak fairness of the
machine's own steps: the loops run over finite tuples in one thread and every call returns or
raises. `LiveSmoke` assumes it of the bring-up's steps together, for the same reason, and nothing of
tokens expiring or files being replaced. A failure is never required to happen.

### Findings

1. `ckks_accepted` (`providers/ckks.py:723`). `_required_encrypted_graph_depth` follows the
   operation a node really has; the executor evaluates all of them. For `a: INPUT, b = a + a,
   c = a + a` with output `c` the estimate is 5, the default budget; computing `c`, the executor
   also evaluates the candidate `b * b`, and needs 7. `validate_program` accepts,
   `execute_program` raises `DepthBudgetError`. The estimate errs in this direction only
   (`EstimateIsLowerBound`, `RefusalIsJustified`).
2. `self_reference` (`program.py:93`). A node that lists itself as an operand passes
   `_validate_structure` and makes `_validate_shapes` raise `KeyError` instead of
   `ProgramValidationError`. Such a program is still refused (`AcceptedIsWellFormed`), and nothing
   else raises `KeyError` (`LookupFailsOnlyOnSelfReference`).

3. `ilc_add` (`providers/ilc.py:348`). An evaluator that answers an addition with
   `{"ciphertext": ...}`, as the tests and the demonstration have it, gets the whole answer back in
   the place of a ciphertext when the sum is added again.
4. `smoke_verdict` (`examples/abc.py:198`). The demonstration prints `OK` or `MISMATCH` and returns 0
   in both cases, so the live smoke, which `DEVELOPMENT.md` and the release checklist take for a
   check, succeeds with an evaluator that adds wrongly. Nor does it reach the deployed server: its
   kernel is bound to a loopback address.

Seen on the way, and left to the reader: the runtime, the first to compare the session ids of
artifacts and inputs, raises `ProgramValidationError` where `errors.py` has
`SessionCompatibilityError`; a public context with an unreadable metric is stored before it makes
set-up fail with a bare `ValueError`, and the next call takes set-up for complete (what is encrypted
afterwards is still of one context, `OneContext`); the sum of two ILC tensors can never be decrypted, because
only the answer to an encryption has a handle; a benchmark with the ILC provider always ends in
`UnsupportedOperationError` and loses the results of the providers before it; the
`max_absolute_error` of a comparison that fails may be smaller than the largest error, and is 0.0
when all errors met are NaN (`ErrorIsMet` says as much as can be relied on); the metric of a public
context given to the constructor is never read; after set-up has replaced the configuration by one
with the server's metric the session still has the fingerprint of the one before; `KeyGen` and
`EvalMultKeyGen` of the CKKS context are called outside the `try` that maps library errors.

And in the bring-up: `from_environment` refuses a successful install whose status is a method, which
the demonstration calls; errors of `build_local_kernel` and `wasm_install` leave `from_environment`
as `RuntimeError`, `ValueError` or `FileNotFoundError`, not as `ProviderConfigurationError`; an empty
`TC_TOKEN_HOST` gives a kernel without a verifier and an install for the client's own path; a
trailing slash of the host is dropped by minting and preflight and kept by the demonstration; the
client library is configurable for minting and written down in the preflight; in the preflight a
token without claims of its own loses the inherited ones; `ILCProvider._execute`, given what an
eager context has executed already, would execute it again; the comment in `ci.yml` gives 4 as the
depth of the MNIST workload, the estimate, which counts the output selection, is 5;
`executable_benchmark_smoke.sh` runs CKKS by default and exits with 0 where `openfhe` is missing.

## What is proved

The proofs are checked by TLAPS and hold for every value of the constants that satisfies the
assumptions below: programs, tensors and reports of any size, not the three nodes of the runs. Every
invariant a passing run checks is a theorem, and so are the three refinements and the action property.
Invariants were checked with TLC before they were proved.

### Validation and encoding (`EncodeProgramProofs`)

**`AcceptedPrograms`, `RefusedPrograms`, `EscapingLookups`**: `revalidate` decides well-formedness.
The inductive invariant `PlainInv` says what the passes have established of the nodes behind them:
`Structured(i)` after the first pass (ids are new, operands name nodes up to and including `i`, which
is where a node may name itself) and `Shaped(i)` after the second. What the code checks is local to a
node and to its own collections `seen` and `shapes`; `WellFormed` is about the whole graph. The proof
is that the collections are the ids, and the shapes, of the nodes passed.

**`AcceptedCanBeEncoded`, `EncodingIsCorrect`, `EncoderTypes`**: `EncodeInv` says of every row that has
been encoded that its entries are the selectors of `GraphEncoding`, of every other that they are 0.
The heart is arithmetic: cells are addressed by products and sums of row, column and width, and no two
of them have the same address in the same array, so that what one node writes stays as it is while
others are written (`Written`). That the executor's table of opcodes agrees with the encoder's list is
`TablesAgree`.

### The executors

Both implement `GraphExecution`: **`Interpretation`** (`PlaintextExecutionProofs`) and
**`Correctness`** (`CKKSExecutionProofs`) are `Spec => ImplementsGraph`, by the usual two steps:
initial states map to initial states, every step maps to a step or to a stutter.

*The plaintext interpreter.* `InterpreterInv`: the dictionary holds exactly the inputs, as supplied,
and the nodes passed, each with a value of its shape. It gives **`LookupsSucceed`**, that no lookup and
no operand check fails on a well-formed program, which is the part of `AlwaysReturns` that is safety.
An `INPUT` node in the middle of the list is skipped by the loop and was put in before it, so a node is
*computed* when the loop passes it.

*The oblivious executor.* `SumsInv` beside `TypeInv`. `SumInv` says what the running sum is worth in the
middle of a node: zero as long as the node's own candidate has not been added, the value of the node
from then on; `Fed` says which of the two. It rests on `OwnCandidate`: exactly one of all candidates has
the weight 1, the node's own operation on its own operands. `SumWithTerm` is the algebra: a product with
weight 0 leaves a sum as it is, one with weight 1 replaces a sum that is zero. That the own candidate
comes up at all is why **`ValuesAreFed`** holds. `EstimateInv` carries the estimates of
`validate_program` along: the own candidate's depth is at least the estimate, and depths only grow in
a sum. Hence **`EstimatesAreLowerBounds`** and, at the outputs, **`RefusalsAreJustified`**.

**`TypeCorrectness`**: every value, output and running sum is a tensor of the shape announced for its
node, so the executor never adds tensors of different shapes. `TypeInv` adds `Control` to `TypeOK`: in
which phase the loops may be how far. Without it a step could store a value past the last node, which
has no shape. `TypeStep` has one case per action.

**`BudgetKept`**: the `depth_used` of every tensor bounds the multiplications chained into it, and no
tensor that is built exceeds the budget. `DepthInv` says so of values, outputs and the running sum, and
of inputs the first half only: inputs deeper than the budget may be supplied, but a tensor built from
one never is, because the selector it is multiplied with costs depth first.

**`Obliviousness`**: `Spec => ImplementsPublic`. `Counters` is the invariant the mapping needs beside
`TypeInv`: no loop has begun during validation, candidates start after the last input, and a refused
program has ended. One lemma per action (`InputSeen`, `StoreNodeSeen`, ...); those in turn rest on the
mapped state being a function of the public part (`ViewOf...`) and on `TypeInv`, from which the shapes
of values are the announced ones, so that a candidate applies by the metadata exactly if it applies to
the tensors. The depths of the encrypted weights are the same for every program because the six program
tensors are fresh.

### The graph runtime (`GraphRuntimeProofs`)

**`SessionsSeparate`**: for any number of providers of both kinds, any programs, and any exchange of the
replaceable parts, every tensor is made of ciphertexts of the one session it names, and so is everything
decrypted or returned. The invariant `Separate` adds that an artifact of the CKKS kind has all six parts
(so the check that goes through the expected names leaves no part out) and that outputs still to be
taken are made in the session of the provider. `OutputsMade` uses that a program has an input
(`SomeInput`): the origins of an output are exactly one session because there is at least one input and
all inputs and parts passed the checks.

**`ReportsAreMeant`, `OwnProgramsRun`, `RuntimeTypes`**, from `RuntimeInv`. For a CKKS provider the
argument is that the checks leave only inputs of the announced shapes; for the plaintext provider, whose
checks are weaker, that the interpreter's own checks, met node by node, are what `Computable` says of the
artifact's program on the inputs as they came. `OwnProgramsRun` is the other direction: where artifact
and program belong together no check inside a provider is ever the first to fail.

**`ExecutionYieldsNodeValues`**: `GraphExecution` computes node by node, `GraphRuntime` takes
`NodeValues`, a recursive function, at once. That a function solves the recursion is proved by
induction on the number of nodes solved for.

### The ILC provider (`ILCProviderProofs`)

`ProviderInv` says how each tensor came about (`Made`: an encryption or a sum, with what its payload is),
that tensors and parts of the provider's own session exist only once it has a context and are of it
(`Current`), and of a call in progress what is done and what is left (`CallInv`: of a program the parts
made and those to do are together its encoding). Then:
**`SingleContext`** because the context is set once; **`WholeArtifacts`** because a failure leaves nothing
of a call; **`DecryptionRoundTrip`** because rounding half to even is off by half a unit at most
(`RoundedWithinHalf`, for every scale) and padding comes after the values; **`ConsistentRequests`**, that
requests send ciphertexts of the context sent with them, under the hypothesis that the evaluator answers
an addition as the code expects. Without the hypothesis it is false: that is finding 3.

### The benchmark and the comparison (`BenchmarkProofs`)

`BenchInv`: the results are those of the first `Len(results)` pairs, row by row (`At` is the k-th pair, by
division and remainder), the loops stand at the pair after those, nothing has run of the pairs after it,
and its own runs are the timings. **`CompleteReport`**, **`SingleWrite`** (an action property) and
**`ExactGate`** follow.

The comparison: `Checked` and `Compared` are followed turn by turn. What holds after `n` turns (`LoopRuns`,
`CheckedCourse`, `TensorJudged`, `AllJudged`) is proved by induction on `n`. **`ComparisonPasses`**: the
verdict is the intended one for tensors of any size in whatever order. **`ReportedError`**: the error is
one that was met, never NaN, and the largest when all passed. **`ReferencePasses`** as above. 
### The bring-up (`LiveSmokeProofs`)

**`ExpectedBundle`**: whatever environment the bring-up starts in and whoever runs it, a kernel for which
a digest is configured has the bundle with that digest, unless the file was replaced between the two
readings `wasm_install` makes. `BundleInv` adds what holds in between: nothing is installed before the
install, and at the install the file is the one hashed or has been replaced. Starting the demonstration
changes the environment; `DemonstrationKeeps` says that the digest, actor and key survive it.

**`ExplainedRejections`**: `TokenInv` adds what a passed preflight has established of the install token
and the host (`Preflighted`), which stays true because only minting changes tokens and minting comes
before, and that the verifier is none or the one of the configured identity. `RejectionReasons` goes
through what the verifier checks. **`MintedTokens`**: tokens and variables at the preflight are those of
the minting (`MintInv`), and what minting writes is what the preflight asks for (`MintedPass`).

**`RoutesOnce`** (`CountInv`: how often each route ran, by the step of the evaluation and by whether its
answer is still a plan), **`VerdictInRange`** (`ResidueInv`: values are residues of the first modulus, of
the right number where the evaluator is sound; for all integer arguments), **`LiveTypes`**.

### Assumptions

All are evaluated by TLC on the instances. `ShapeAssumption` (shapes are non-empty sequences of
positive numbers), `KernelsClosed` and `ZeroIsNeutral` (results have the payloads of their shapes; zero
is neutral), `CorpusAssumption` (programs are well-formed, which `AcceptedPrograms` shows `revalidate` to
establish), `CandidatesAssumption`, `SupplyAssumption`, `BudgetAssumption`, `InputDepthAssumption`,
`KindAssumption`, `ReplaceableAssumption`, `CallerProgramAssumption`, `FineAssumption`,
`ValueAssumption`, `EncodingAssumption` (a program's encoding is six sequences of integers),
`AddFormAssumption`, `ProviderIdAssumption` and `WorkloadAssumption` (names of providers and workloads are
finitely many),
`ArgumentsAssumption`, `EnvironmentAssumption` (an environment has the listed variables, and its
source and file are bundles or none), `BundleAssumption` (no bundle has the empty digest), `ToleranceAssumption`
and `OutputsAssumption` (see Tolerance above). `MaxTensorsAssumption`, `BoundsAssumption` and
`MaxRepeatAssumption` say that the bounds of the models are numbers. `ProgramFacts` has the lemmas about
well-formed programs: ids are found at their positions, operands come earlier and have the right shapes,
inputs and outputs are nodes.

### Induction

The library's induction rules take an operator as a parameter, which the installed provers cannot
instantiate. Where a recursive function had to be followed the proofs argue from the least
counterexample instead: a non-empty set of numbers has a least element (`LeastNumber`, `Counting`). No
module with a theorem uses a RECURSIVE operator; `MCGraphs` has the only one.

### Only model-checked

Liveness is out of the prover's reach, like anything about ENABLED: that the interpreter returns
(`AlwaysReturns`, of which the safety half is proved), that the oblivious executor ends (`Termination`),
that the benchmark and the bring-up end (`Ends`, twice). The violations of the findings are single
behaviours TLC exhibits.

## Not modelled, and why

- The CKKS executor on artifacts with exchanged parts is not followed step by step: `GraphRuntime`
  allows every value of the right shape.
- Workloads and the MNIST fixture are constant data, checked when constructed; metrics, fingerprints
  and public attributes are formatting. Key generation and OpenFHE context set-up are library calls
  without decisions beyond the mapping of errors. Approximation errors of CKKS and of floating-point
  addition are left out.
- Of the library contract, the routes neither the ILC provider nor the demonstration calls: they put
  their arguments into a request body.
- The scripts that install packages, generate keys, configure GitHub or run the above on a
  developer's machine are linear wrappers around other programs. Tokens have one time to expire, and
  the clock skew the preflight tolerates is left out.
- `ILCProvider._execute` inside an eager context (see above): the provider opens no such context, and
  what the framework does with an answer given for a plan is not in this repository.

## Plan

Done: validation with encoding, both executors, obliviousness, runtime and sessions, ILC provider,
benchmark with its gate, comparison, bring-up and demonstration; every safety property, refinement and
action property of the passing runs proved. Left:

1. *Compositions*: that what `EncodeProgram` leaves in the arrays satisfies the laws the oblivious
   executor is proved from, as one theorem instead of two with a shared definition; that
   `CKKSExecution`'s budget failures are the ones `GraphRuntime` allows.
2. *Variants*: a well-founded measure for each loop, from which termination follows on paper.
3. *Artifacts from elsewhere*: the oblivious executor on an artifact whose adjacency contradicts its
   selectors, or whose selectors are not those of any program.

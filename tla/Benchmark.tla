----------------------------- MODULE Benchmark -----------------------------
(***************************************************************************)
(* The benchmark's command line: it makes the providers, runs every        *)
(* workload on every provider the configured number of times, compares     *)
(* the outputs with those of a plaintext provider, and writes one report.  *)
(* run_executable_benchmark.sh runs it and judges the report.  How long a  *)
(* phase takes and how a report is formatted is left out.                  *)
(***************************************************************************)
EXTENDS Naturals, Sequences, FiniteSets

CONSTANTS
  Workload,      \* WORKLOAD_REGISTRY
  ProviderId,    \* what may be asked for as a provider
  MaxRepeat      \* bounds config.repeat

ASSUME ProviderIdAssumption == IsFiniteSet(ProviderId)

ASSUME WorkloadAssumption == IsFiniteSet(Workload)

ASSUME MaxRepeatAssumption == MaxRepeat \in Nat

VARIABLES
  config,    \* the command line
  gate,      \* the script that judges the report: "absent", "strict" or,
             \* with ILC_EXECUTABLE_ALLOW_SKIP=1, "tolerant"
  stage,     \* what main does
  made,      \* the number of providers made
  w, p,      \* the workload and the provider the loops of run_benchmark are at
  timings,   \* whether the outputs of the runs so far were within tolerance
  history,   \* the timings of all pairs run so far
  results,   \* the results collected
  output     \* what is at the destination

vars == <<config, gate, stage, made, w, p, timings, history, results, output>>

(* What may be at the destination: what was there when main started, the   *)
(* beginning of a report, a report of some results, or a message: that the *)
(* benchmark was skipped, or only tried out.                               *)
Before     == [kind |-> "before"]
Cut        == [kind |-> "cut"]
Skipped    == [kind |-> "skipped"]
DryRun     == [kind |-> "dry run"]
Report(rs) == [kind |-> "report", results |-> rs]

NoRepetition(s) == \A i, j \in DOMAIN s : s[i] = s[j] => i = j

Choices(S) == {s \in UNION {[1 .. n -> S] : n \in 1 .. Cardinality(S)} : NoRepetition(s)}

(* BenchmarkConfig accepts these: it looks workloads up, not providers. *)
Config == [workloads : Choices(Workload), providers : Choices(ProviderId), repeat : 1 .. MaxRepeat]

Pair(i, j) == <<config.workloads[i], config.providers[j]>>

Raise == stage' = "raised"

-----------------------------------------------------------------------------
(* _provider_factories.  CKKS needs an optional package, and its context   *)
(* may fail; ILC needs an environment and a kernel.  Of any other name     *)
(* there is no provider.                                                   *)

KnownProvider == {"plaintext", "ckks", "ilc"}

MakeProvider ==
  /\ stage = "factories"
  /\ config.providers[made + 1] \in KnownProvider
  /\ made' = made + 1
  /\ stage' = IF made' = Len(config.providers) THEN "reference" ELSE "factories"
  /\ UNCHANGED <<config, gate, w, p, timings, history, results, output>>

MissingDependency ==
  /\ stage = "factories"
  /\ config.providers[made + 1] = "ckks"
  /\ stage' = "skip"
  /\ UNCHANGED <<config, gate, made, w, p, timings, history, results, output>>

FactoryFails ==
  /\ stage = "factories"
  /\ config.providers[made + 1] # "plaintext"
  /\ Raise
  /\ UNCHANGED <<config, gate, made, w, p, timings, history, results, output>>

-----------------------------------------------------------------------------
(* run_benchmark.  The plaintext provider runs every workload.             *)

ReferenceOutputs ==
  /\ stage = "reference"
  /\ stage' = "validate"
  /\ UNCHANGED <<config, gate, made, w, p, timings, history, results, output>>

(* Of the providers CKKS alone refuses a valid program: for its depth. *)
ValidateProgram ==
  /\ stage = "validate"
  /\ \/ stage' = "runs"
     \/ config.providers[p] = "ckks" /\ Raise
  /\ UNCHANGED <<config, gate, made, w, p, timings, history, results, output>>

(* Fault: once more than configured. *)
RunOnceMore ==
  /\ stage = "runs"
  /\ Len(timings) <= config.repeat
  /\ config.providers[p] # "ilc"
  /\ \E within \in IF config.providers[p] = "plaintext" THEN {TRUE} ELSE BOOLEAN :
       /\ timings' = Append(timings, within)
       /\ history' = [history EXCEPT ![Pair(w, p)] = Append(@, within)]
  /\ UNCHANGED <<config, gate, stage, made, w, p, results, output>>

(* encrypt, execute, decrypt *)
RunOnce ==
  /\ stage = "runs"
  /\ Len(timings) < config.repeat
  /\ config.providers[p] # "ilc"
  /\ \E within \in IF config.providers[p] = "plaintext" THEN {TRUE} ELSE BOOLEAN :
       /\ timings' = Append(timings, within)
       /\ history' = [history EXCEPT ![Pair(w, p)] = Append(@, within)]
  /\ UNCHANGED <<config, gate, stage, made, w, p, results, output>>

(* A run of an encrypting provider may fail; ILC does not execute at all. *)
RunFails ==
  /\ stage = "runs"
  /\ Len(timings) < config.repeat
  /\ config.providers[p] \in {"ckks", "ilc"}
  /\ Raise
  /\ UNCHANGED <<config, gate, made, w, p, timings, history, results, output>>

(* Fault: the last run decides. *)
PassedValidationLast == timings[Len(timings)]

PassedValidation == \A i \in DOMAIN timings : timings[i]

LastProvider == p = Len(config.providers)

LastWorkload == w = Len(config.workloads)

(* Fault: every result is written when it is there. *)
AppendResultAndWrite ==
  /\ stage = "runs"
  /\ Len(timings) = config.repeat
  /\ results' = Append(results, [pair |-> Pair(w, p), repeat |-> Len(timings),
                                 passed_validation |-> PassedValidation])
  /\ output' = Report(results')
  /\ timings' = <<>>
  /\ IF ~LastProvider THEN p' = p + 1 /\ stage' = "validate" /\ UNCHANGED w
     ELSE IF ~LastWorkload THEN p' = 1 /\ w' = w + 1 /\ stage' = "reference"
     ELSE stage' = "write" /\ UNCHANGED <<p, w>>
  /\ UNCHANGED <<config, gate, made, history>>

(* Fault: a workload starts over with its first provider. *)
AppendResultForever ==
  /\ stage = "runs"
  /\ Len(timings) = config.repeat
  /\ timings' = <<>>
  /\ p' = 1 /\ stage' = "validate"
  /\ history' = [history EXCEPT ![Pair(w, p)] = <<>>]
  /\ UNCHANGED <<config, gate, made, w, results, output>>

AppendResult ==
  /\ stage = "runs"
  /\ Len(timings) = config.repeat
  /\ results' = Append(results, [pair |-> Pair(w, p), repeat |-> Len(timings),
                                 passed_validation |-> PassedValidation])
  /\ timings' = <<>>
  /\ IF ~LastProvider THEN p' = p + 1 /\ stage' = "validate" /\ UNCHANGED w
     ELSE IF ~LastWorkload THEN p' = 1 /\ w' = w + 1 /\ stage' = "reference"
     ELSE stage' = "write" /\ UNCHANGED <<p, w>>
  /\ UNCHANGED <<config, gate, made, history, output>>

-----------------------------------------------------------------------------
(* Writing. *)

Write ==
  /\ \/ stage = "write" /\ output' = Report(results)
     \/ stage = "skip" /\ output' = Skipped
     \/ stage = "dry run" /\ output' = DryRun
  /\ stage' = "exit 0"
  /\ UNCHANGED <<config, gate, made, w, p, timings, history, results>>

(* Opening the destination fails, or writing to it. *)
WriteFails ==
  /\ stage \in {"write", "skip", "dry run"}
  /\ output' \in {Before, Cut}
  /\ Raise
  /\ UNCHANGED <<config, gate, made, w, p, timings, history, results>>

-----------------------------------------------------------------------------
(* run_executable_benchmark.sh.  If main raises, the shell ends with it.   *)

(* Fault: one result that passed is enough. *)
GatePassesSome ==
  IF output = Skipped THEN gate = "tolerant"
  ELSE \E i \in DOMAIN output.results : output.results[i].passed_validation

GatePasses ==
  IF output = Skipped THEN gate = "tolerant"
  ELSE /\ output.results # <<>>
       /\ \A i \in DOMAIN output.results : output.results[i].passed_validation

Judge ==
  /\ stage = "exit 0" /\ gate # "absent"
  /\ stage' = IF GatePasses THEN "gate passes" ELSE "gate fails"
  /\ UNCHANGED <<config, gate, made, w, p, timings, history, results, output>>

-----------------------------------------------------------------------------
Init ==
  /\ config \in Config
  /\ gate \in {"absent", "strict", "tolerant"}
  /\ stage = "factories" \/ (stage = "dry run" /\ gate = "absent")
  /\ made = 0
  /\ w = 1 /\ p = 1
  /\ timings = <<>>
  /\ history = [pair \in Workload \X ProviderId |-> <<>>]
  /\ results = <<>>
  /\ output = Before

Run == ReferenceOutputs \/ ValidateProgram \/ RunOnce \/ RunFails \/ AppendResult

Next == MakeProvider \/ MissingDependency \/ FactoryFails \/ Run \/ Write \/ WriteFails \/ Judge

Spec == Init /\ [][Next]_vars /\ WF_vars(Next)

-----------------------------------------------------------------------------
(* The loops stay within the configuration, and a pair is run no more      *)
(* often than it should be.                                                *)
TypeOK ==
  /\ config \in Config
  /\ w \in DOMAIN config.workloads /\ p \in DOMAIN config.providers
  /\ made \in 0 .. Len(config.providers)
  /\ Len(timings) <= config.repeat
  /\ \A pair \in DOMAIN history : Len(history[pair]) <= config.repeat

(* The report of a run that ended well: one result for every workload and  *)
(* provider, workloads first, made of the configured number of runs, and   *)
(* passed only when every one of them, not just the one whose shapes and   *)
(* representation it shows, was within tolerance.                          *)
ReportIsComplete ==
  stage = "exit 0" /\ output \notin {Skipped, DryRun} =>
    LET n == Len(config.providers)
        Result(pair) ==
          [pair |-> pair, repeat |-> config.repeat,
           passed_validation |-> history[pair] = [i \in 1 .. config.repeat |-> TRUE]]
    IN  output = Report([k \in 1 .. Len(config.workloads) * n |->
                           Result(Pair((k - 1) \div n + 1, ((k - 1) % n) + 1))])

(* Nothing is written before the end, and then at most once: whatever goes *)
(* wrong in between, an earlier report at the destination survives, unless *)
(* it is the writing itself that fails.                                    *)
WrittenAtTheEnd ==
  [][output' # output => output = Before /\ stage' \in {"exit 0", "raised"}
                         /\ (stage' = "raised" => stage \in {"write", "skip", "dry run"})]_vars

(* The gate passes exactly when every run of every workload on every       *)
(* provider asked for was within tolerance, or the benchmark was skipped   *)
(* and skipping is allowed: the verdict of a run reaches the exit status   *)
(* of the script through timings, results and report without being lost.   *)
GateIsExact ==
  stage \in {"gate passes", "gate fails"} =>
    (stage = "gate passes" <=>
       IF output = Skipped THEN gate = "tolerant"
       ELSE \A i \in DOMAIN config.workloads, j \in DOMAIN config.providers :
              history[Pair(i, j)] = [r \in 1 .. config.repeat |-> TRUE])

(* The benchmark ends, and so does the script around it. *)
Ended == stage \in {"raised", "gate passes", "gate fails"} \/ (stage = "exit 0" /\ gate = "absent")

Ends == <>Ended
=============================================================================

-------------------------- MODULE BenchmarkProofs --------------------------
(***************************************************************************)
(* The report of the benchmark and the script's judgement of it, for any   *)
(* workloads, any choice of providers and any number of repeats.  Then the *)
(* comparison of outputs each verdict comes from, for any outputs and any  *)
(* tolerances.                                                             *)
(***************************************************************************)
EXTENDS Benchmark, Tolerance, FiniteSetTheorems, TLAPS

(* The loops visit the pairs row by row.  At(k) is the k-th. *)
Rows == Len(config.workloads)
Cols == Len(config.providers)

At(k) == Pair(((k - 1) \div Cols) + 1, ((k - 1) % Cols) + 1)

Result(pair) ==
  [pair |-> pair, repeat |-> config.repeat,
   passed_validation |-> history[pair] = [i \in 1 .. config.repeat |-> TRUE]]

-----------------------------------------------------------------------------
(* The inductive invariant.  Until the writing, the loops are at the pair  *)
(* after those that have results, nothing has been run of the pairs after  *)
(* it, and its own runs are the timings.                                   *)

BenchTypes ==
  /\ config \in Config
  /\ gate \in {"absent", "strict", "tolerant"}
  /\ made \in 0 .. Cols /\ (stage = "factories" => made < Cols)
  /\ w \in 1 .. Rows /\ p \in 1 .. Cols
  /\ timings \in Seq(BOOLEAN) /\ Len(timings) <= config.repeat
  /\ history \in [Workload \X ProviderId -> Seq(BOOLEAN)]
  /\ \A pair \in Workload \X ProviderId : Len(history[pair]) <= config.repeat

Looping == stage \in {"factories", "reference", "validate", "runs"}

Collected == results = [k \in 1 .. Len(results) |-> Result(At(k))] /\ Len(results) \in Nat

Position ==
  /\ Len(results) \div Cols = w - 1 /\ Len(results) % Cols = p - 1
  /\ history[Pair(w, p)] = timings
  /\ \A k \in 1 .. (Rows * Cols) : k > Len(results) + 1 => history[At(k)] = <<>>

Complete == Len(results) = Rows * Cols

Untouched ==
  /\ stage # "raised" => output = Before
  /\ stage = "dry run" => gate = "absent"

Written ==
  \/ output = Report(results) /\ Complete
  \/ output = Skipped
  \/ output = DryRun /\ gate = "absent"

Judged == gate # "absent" /\ (stage = "gate passes" <=> GatePasses)

BenchInv ==
  /\ BenchTypes
  /\ Collected
  /\ \/ Looping /\ Position /\ Untouched
     \/ stage = "write" /\ Complete /\ Untouched
     \/ stage \in {"skip", "dry run", "raised"} /\ Untouched
     \/ stage = "exit 0" /\ Written
     \/ stage \in {"gate passes", "gate fails"} /\ Written /\ Judged

-----------------------------------------------------------------------------
(* Division, and the pairs the loops visit. *)

LEMMA NextPosition ==
  ASSUME NEW n \in Nat \ {0}, NEW k \in Nat
  PROVE  IF (k % n) + 1 < n THEN (k + 1) \div n = k \div n /\ (k + 1) % n = (k % n) + 1
         ELSE (k + 1) \div n = (k \div n) + 1 /\ (k + 1) % n = 0
OBVIOUS

LEMMA DivisionUnique ==
  ASSUME NEW n \in Nat \ {0}, NEW k \in Nat, NEW l \in Nat,
         k \div n = l \div n, (k % n) = (l % n)
  PROVE  k = l
OBVIOUS

LEMMA RowRange ==
  ASSUME NEW n \in Nat \ {0}, NEW m \in Nat, NEW k \in 1 .. (m * n)
  PROVE  (k - 1) \div n \in 0 .. (m - 1) /\ (k - 1) % n \in 0 .. (n - 1)
OBVIOUS

LEMMA LastPosition ==
  ASSUME NEW n \in Nat \ {0}, NEW m \in Nat, NEW k \in Nat,
         k \div n = m - 1, (k % n) = n - 1
  PROVE  k + 1 = m * n
OBVIOUS

LEMMA PositionOf ==
  ASSUME NEW n \in Nat \ {0}, NEW m \in Nat, NEW i \in 1 .. m, NEW j \in 1 .. n
  PROVE  LET k == (i - 1) * n + j
         IN  k \in 1 .. (m * n) /\ (k - 1) \div n = i - 1 /\ (k - 1) % n = j - 1
OBVIOUS

LEMMA PositionBelow ==
  ASSUME NEW n \in Nat \ {0}, NEW m \in Nat, NEW k \in Nat,
         k \div n \in 0 .. (m - 1)
  PROVE  k + 1 \in 1 .. (m * n)
OBVIOUS

LEMMA OneLess ==
  ASSUME NEW m \in Nat, NEW x \in 1 .. m
  PROVE  x - 1 \in 0 .. (m - 1) /\ (x - 1) + 1 = x
OBVIOUS

LEMMA First ==
  ASSUME NEW m \in Nat \ {0}
  PROVE  1 \in 1 .. m
OBVIOUS

LEMMA NotEmpty ==
  ASSUME NEW S, NEW f, f = [k \in S |-> f[k]], NEW k \in S
  PROVE  f # <<>>
<1>1. DOMAIN <<>> = {}
  OBVIOUS
<1> QED
  BY <1>1

LEMMA ChoiceTypes ==
  ASSUME NEW S, IsFiniteSet(S), NEW s \in Choices(S)
  PROVE  /\ s \in Seq(S) /\ Len(s) \in Nat \ {0} /\ DOMAIN s = 1 .. Len(s)
         /\ \A i \in DOMAIN s : s[i] \in S
         /\ \A i, j \in DOMAIN s : s[i] = s[j] => i = j
<1>1. Cardinality(S) \in Nat
  BY FS_CardinalityType
<1>2. PICK n \in 1 .. Cardinality(S) : s \in [1 .. n -> S]
  BY DEF Choices
<1>3. n \in Nat \ {0}
  BY <1>1, <1>2
<1>4. s \in Seq(S) /\ Len(s) = n /\ DOMAIN s = 1 .. n
  BY <1>2, <1>3
<1> QED
  BY <1>2, <1>3, <1>4 DEF Choices, NoRepetition

LEMMA ConfigTypes ==
  ASSUME config \in Config
  PROVE  /\ Rows \in Nat \ {0} /\ Cols \in Nat \ {0} /\ config.repeat \in Nat \ {0}
         /\ DOMAIN config.workloads = 1 .. Rows /\ DOMAIN config.providers = 1 .. Cols
         /\ \A i \in 1 .. Rows, j \in 1 .. Cols : Pair(i, j) \in Workload \X ProviderId
         /\ \A i, a \in 1 .. Rows, j, b \in 1 .. Cols :
              Pair(i, j) = Pair(a, b) => i = a /\ j = b
<1>1. /\ config.workloads \in Choices(Workload) /\ config.providers \in Choices(ProviderId)
      /\ config.repeat \in 1 .. MaxRepeat
  BY DEF Config
<1>3. IsFiniteSet(ProviderId)
  BY ProviderIdAssumption
<1>4. config.repeat \in Nat \ {0}
  BY <1>1, MaxRepeatAssumption
<1>5. /\ Rows \in Nat \ {0} /\ DOMAIN config.workloads = 1 .. Rows
      /\ \A i \in 1 .. Rows : config.workloads[i] \in Workload
      /\ \A i, a \in 1 .. Rows : config.workloads[i] = config.workloads[a] => i = a
  BY <1>1, WorkloadAssumption, ChoiceTypes DEF Rows
<1>6. /\ Cols \in Nat \ {0} /\ DOMAIN config.providers = 1 .. Cols
      /\ \A j \in 1 .. Cols : config.providers[j] \in ProviderId
      /\ \A j, b \in 1 .. Cols : config.providers[j] = config.providers[b] => j = b
  BY <1>1, <1>3, ChoiceTypes DEF Cols
<1> QED
  BY <1>4, <1>5, <1>6 DEF Pair

(* The places are those of the pairs, each once. *)
LEMMA Places ==
  ASSUME config \in Config
  PROVE  /\ \A k \in 1 .. (Rows * Cols) : At(k) \in Workload \X ProviderId
         /\ \A k, l \in 1 .. (Rows * Cols) : At(k) = At(l) => k = l
         /\ \A i \in 1 .. Rows, j \in 1 .. Cols :
              \E k \in 1 .. (Rows * Cols) : At(k) = Pair(i, j)
         /\ \A k \in 1 .. (Rows * Cols) :
              \E i \in 1 .. Rows, j \in 1 .. Cols : At(k) = Pair(i, j)
<1> DEFINE m == Rows
           n == Cols
<1>1. m \in Nat \ {0} /\ n \in Nat \ {0}
  BY ConfigTypes
<1>2. \A i \in 1 .. m, j \in 1 .. n : Pair(i, j) \in Workload \X ProviderId
  BY ConfigTypes
<1>3. \A i, a \in 1 .. m, j, b \in 1 .. n : Pair(i, j) = Pair(a, b) => i = a /\ j = b
  BY ConfigTypes
<1>4. \A k : At(k) = Pair(((k - 1) \div n) + 1, ((k - 1) % n) + 1)
  BY DEF At
<1> HIDE DEF m, n
<1>5. \A k \in 1 .. (m * n) : /\ k - 1 \in Nat
                              /\ ((k - 1) \div n) + 1 \in 1 .. m /\ ((k - 1) % n) + 1 \in 1 .. n
                              /\ (k - 1) \div n \in Nat /\ (k - 1) % n \in Nat
  <2>1. ASSUME NEW k \in 1 .. (m * n)
        PROVE  /\ k - 1 \in Nat
               /\ ((k - 1) \div n) + 1 \in 1 .. m /\ ((k - 1) % n) + 1 \in 1 .. n
               /\ (k - 1) \div n \in Nat /\ (k - 1) % n \in Nat
    BY <1>1, RowRange
  <2> QED
    BY <2>1
<1>6. ASSUME NEW k \in 1 .. (m * n)
      PROVE  At(k) \in Workload \X ProviderId
  BY <1>2, <1>4, <1>5
<1>7. ASSUME NEW k \in 1 .. (m * n), NEW l \in 1 .. (m * n), At(k) = At(l)
      PROVE  k = l
  <2>1. (k - 1) \div n = (l - 1) \div n /\ ((k - 1) % n) = ((l - 1) % n)
    <3>1. ((k - 1) \div n) + 1 = ((l - 1) \div n) + 1 /\ ((k - 1) % n) + 1 = ((l - 1) % n) + 1
      BY <1>3, <1>4, <1>5, <1>7
    <3> QED
      BY <1>5, <3>1
  <2>2. k - 1 \in Nat /\ l - 1 \in Nat
    BY <1>5
  <2>3. k - 1 = l - 1
    BY <1>1, <2>1, <2>2, DivisionUnique
  <2> QED
    BY <1>1, <2>3
<1>8. ASSUME NEW i \in 1 .. m, NEW j \in 1 .. n
      PROVE  \E k \in 1 .. (m * n) : At(k) = Pair(i, j)
  <2> DEFINE k == (i - 1) * n + j
  <2>1. k \in 1 .. (m * n) /\ (k - 1) \div n = i - 1 /\ (k - 1) % n = j - 1
    BY <1>1, PositionOf
  <2>2. At(k) = Pair((i - 1) + 1, (j - 1) + 1)
    BY <1>4, <2>1
  <2>3. (i - 1) + 1 = i /\ (j - 1) + 1 = j
    BY <1>1
  <2> QED
    BY <2>1, <2>2, <2>3
<1>9. ASSUME NEW k \in 1 .. (m * n)
      PROVE  \E i \in 1 .. m, j \in 1 .. n : At(k) = Pair(i, j)
  BY <1>4, <1>5
<1> QED
  BY <1>6, <1>7, <1>8, <1>9 DEF m, n

(* The pair the loops are at. *)
LEMMA Here ==
  ASSUME BenchTypes, Len(results) \in Nat, Position
  PROVE  /\ Len(results) + 1 \in 1 .. (Rows * Cols)
         /\ At(Len(results) + 1) = Pair(w, p)
         /\ Pair(w, p) \in Workload \X ProviderId
<1> DEFINE c == Len(results)
           m == Rows
           n == Cols
<1>1. m \in Nat \ {0} /\ n \in Nat \ {0} /\ w \in 1 .. m /\ p \in 1 .. n
  BY ConfigTypes DEF BenchTypes
<1>2. c \in Nat /\ c \div n = w - 1 /\ (c % n) = p - 1
  BY DEF Position
<1>3. At(c + 1) = Pair((((c + 1) - 1) \div n) + 1, (((c + 1) - 1) % n) + 1)
  BY DEF At
<1>4. Pair(w, p) \in Workload \X ProviderId
  BY <1>1, ConfigTypes DEF BenchTypes
<1> HIDE DEF c, m, n
<1>5. (c + 1) - 1 = c /\ (w - 1) + 1 = w /\ (p - 1) + 1 = p
  BY <1>1, <1>2
<1>6. At(c + 1) = Pair(w, p)
  BY <1>2, <1>3, <1>5
<1>7. c + 1 \in 1 .. (m * n)
  <2>1. w - 1 \in 0 .. (m - 1)
    BY <1>1
  <2> QED
    BY <1>1, <1>2, <2>1, PositionBelow
<1> QED
  BY <1>4, <1>6, <1>7 DEF c, m, n

-----------------------------------------------------------------------------
LEMMA BenchInit == Init => BenchInv
<1> SUFFICES ASSUME Init PROVE BenchInv
  OBVIOUS
<1>1. /\ config \in Config /\ gate \in {"absent", "strict", "tolerant"}
      /\ made = 0 /\ w = 1 /\ p = 1 /\ timings = <<>> /\ results = <<>> /\ output = Before
      /\ history = [pair \in Workload \X ProviderId |-> <<>>]
      /\ stage = "factories" \/ (stage = "dry run" /\ gate = "absent")
  BY DEF Init
<1>2. Rows \in Nat \ {0} /\ Cols \in Nat \ {0} /\ config.repeat \in Nat \ {0}
  BY <1>1, ConfigTypes
<1>3. w \in 1 .. Rows /\ p \in 1 .. Cols /\ made \in 0 .. Cols /\ made < Cols
  <2>1. made = 0 /\ w = 1 /\ p = 1
    BY <1>1
  <2> QED
    BY <1>2, <2>1
<1>4. <<>> \in Seq(BOOLEAN) /\ Len(<<>>) = 0
  OBVIOUS
<1>5. history \in [Workload \X ProviderId -> Seq(BOOLEAN)]
      /\ \A pair \in Workload \X ProviderId : history[pair] = <<>>
  BY <1>1, <1>4
<1>6. BenchTypes
  <2>1. timings \in Seq(BOOLEAN) /\ Len(timings) = 0
    BY <1>1, <1>4
  <2>2. \A pair \in Workload \X ProviderId : Len(history[pair]) = 0
    BY <1>4, <1>5
  <2>3. config \in Config /\ gate \in {"absent", "strict", "tolerant"}
    BY <1>1
  <2>4. Len(timings) <= config.repeat
        /\ \A pair \in Workload \X ProviderId : Len(history[pair]) <= config.repeat
    BY <1>2, <2>1, <2>2
  <2> QED
    BY <1>3, <1>5, <2>1, <2>3, <2>4 DEF BenchTypes
<1>7. Len(results) = 0
  BY <1>1, <1>4
<1>8. Collected
  <2>1. [k \in 1 .. 0 |-> Result(At(k))] = <<>>
    OBVIOUS
  <2> QED
    BY <1>1, <1>7, <2>1 DEF Collected
<1>9. Position
  <2>1. 0 \div Cols = 0 /\ 0 % Cols = 0
    BY <1>2
  <2>2. Pair(w, p) \in Workload \X ProviderId
    BY <1>1, <1>3, ConfigTypes
  <2>3. history[Pair(w, p)] = timings
    BY <1>1, <1>5, <2>2
  <2>4. \A k \in 1 .. (Rows * Cols) : history[At(k)] = <<>>
    BY <1>1, <1>5, Places
  <2>5. Len(results) \div Cols = w - 1 /\ Len(results) % Cols = p - 1
    <3>1. w = 1 /\ p = 1
      BY <1>1
    <3> QED
      BY <1>7, <2>1, <3>1
  <2> QED
    BY <2>3, <2>4, <2>5 DEF Position
<1>10. Untouched
  BY <1>1 DEF Untouched
<1>11. Looping \/ stage = "dry run"
  BY <1>1 DEF Looping
<1> QED
  BY <1>6, <1>8, <1>9, <1>10, <1>11 DEF BenchInv

(* What a step leaves alone that changes neither runs nor results. *)
LEMMA Unmoved ==
  ASSUME UNCHANGED <<config, gate, w, p, timings, history, results>>
  PROVE  /\ Rows' = Rows /\ Cols' = Cols /\ (Collected' <=> Collected)
         /\ (Position' <=> Position) /\ (Complete' <=> Complete)
<1>1. Rows' = Rows /\ Cols' = Cols
  BY DEF Rows, Cols
<1>2. \A i, j : Pair(i, j)' = Pair(i, j)
  BY DEF Pair
<1>3. \A k : At(k)' = At(k)
  BY <1>1, <1>2 DEF At
<1>4. \A pair : Result(pair)' = Result(pair)
  BY DEF Result
<1>5. Collected' <=> Collected
  BY <1>3, <1>4 DEF Collected
<1>6. Position' <=> Position
  BY <1>1, <1>2, <1>3 DEF Position
<1>7. Complete' <=> Complete
  BY <1>1 DEF Complete
<1> QED
  BY <1>1, <1>5, <1>6, <1>7

LEMMA UnmovedTypes ==
  ASSUME BenchTypes, UNCHANGED <<config, gate, w, p, timings, history, results>>,
         made' \in 0 .. Cols, stage' = "factories" => made' < Cols
  PROVE  BenchTypes'
BY DEF BenchTypes, Rows, Cols

-----------------------------------------------------------------------------
(* Before and after the runs, and when one of them fails. *)

LEMMA QuietStep ==
  ASSUME BenchInv,
         \/ MakeProvider \/ MissingDependency \/ FactoryFails \/ ReferenceOutputs
         \/ ValidateProgram \/ RunFails \/ UNCHANGED vars
  PROVE  BenchInv'
<1>1. UNCHANGED <<config, gate, w, p, timings, history, results, output>>
  BY DEF MakeProvider, MissingDependency, FactoryFails, ReferenceOutputs, ValidateProgram,
         RunFails, vars
<1>2. BenchTypes /\ Collected /\ Cols \in Nat /\ made \in 0 .. Cols
  BY ConfigTypes DEF BenchInv, BenchTypes
<1>3. \/ UNCHANGED <<stage, made>>
      \/ Looping /\ stage' \in {"reference", "validate", "runs", "skip", "raised"} /\ made' \in 0 .. Cols
      \/ Looping /\ stage' = "factories" /\ made' \in 0 .. Cols /\ made' < Cols
  <2>1. CASE MakeProvider
    <3>1. stage = "factories" /\ made' = made + 1 /\ made < Cols
          /\ stage' = IF made' = Cols THEN "reference" ELSE "factories"
      BY <2>1 DEF MakeProvider, Cols, BenchInv, BenchTypes
    <3>2. made' \in 0 .. Cols /\ (made' # Cols => made' < Cols)
      BY <1>2, <3>1
    <3> QED
      BY <3>1, <3>2 DEF Looping
  <2>2. CASE MissingDependency \/ FactoryFails
    BY <1>2, <2>2 DEF MissingDependency, FactoryFails, Raise, Looping
  <2>3. CASE ReferenceOutputs \/ ValidateProgram \/ RunFails
    BY <1>2, <2>3 DEF ReferenceOutputs, ValidateProgram, RunFails, Raise, Looping
  <2>4. CASE UNCHANGED vars
    BY <2>4 DEF vars
  <2> QED
    BY <2>1, <2>2, <2>3, <2>4
<1>4. BenchTypes'
  <2>1. made' \in 0 .. Cols /\ (stage' = "factories" => made' < Cols)
    BY <1>2, <1>3 DEF BenchTypes
  <2> QED
    BY <1>1, <1>2, <2>1, UnmovedTypes
<1>5. (Collected' <=> Collected) /\ (Position' <=> Position) /\ (Complete' <=> Complete)
  BY <1>1, Unmoved
<1>6. CASE UNCHANGED <<stage, made>>
  <2>1. (Untouched' <=> Untouched) /\ (Looping' <=> Looping)
    BY <1>1, <1>6 DEF Untouched, Looping
  <2>2. (Written' <=> Written) /\ (Judged' <=> Judged)
    BY <1>1, <1>5, <1>6 DEF Written, Judged, GatePasses, Skipped, DryRun
  <2> QED
    BY <1>2, <1>4, <1>5, <1>6, <2>1, <2>2 DEF BenchInv
<1>7. CASE Looping /\ stage' \in {"factories", "reference", "validate", "runs", "skip", "raised"}
  <2>1. Position /\ output = Before
    BY <1>7 DEF BenchInv, Looping, Untouched
  <2>2. Untouched'
    BY <1>1, <1>7, <2>1 DEF Untouched
  <2>3. Looping' \/ stage' \in {"skip", "raised"}
    BY <1>7 DEF Looping
  <2> QED
    BY <1>2, <1>4, <1>5, <2>1, <2>2, <2>3 DEF BenchInv
<1> QED
  BY <1>3, <1>6, <1>7

(* A run adds to the timings and to the history of the pair the loops are  *)
(* at, which has no result yet.                                            *)
LEMMA RunStep ==
  ASSUME BenchInv, RunOnce
  PROVE  BenchInv'
<1> DEFINE here == Pair(w, p)
           c == Len(results)
<1>1. PICK within \in BOOLEAN :
        /\ timings' = Append(timings, within)
        /\ history' = [history EXCEPT ![here] = Append(@, within)]
  BY DEF RunOnce
<1>2. /\ stage = "runs" /\ Len(timings) < config.repeat
      /\ UNCHANGED <<config, gate, stage, made, w, p, results, output>>
  BY DEF RunOnce
<1>3. BenchTypes /\ Collected /\ Position /\ Untouched /\ Looping /\ c \in Nat
  BY <1>2 DEF BenchInv, Looping, Collected
<1>4. c + 1 \in 1 .. (Rows * Cols) /\ At(c + 1) = here /\ here \in Workload \X ProviderId
  BY <1>3, Here
<1>5. /\ timings \in Seq(BOOLEAN) /\ history[here] = timings
      /\ history \in [Workload \X ProviderId -> Seq(BOOLEAN)]
      /\ \A pair \in Workload \X ProviderId : Len(history[pair]) <= config.repeat
  BY <1>3 DEF BenchTypes, Position
<1> HIDE DEF here
<1>6. timings' \in Seq(BOOLEAN) /\ Len(timings') = Len(timings) + 1 /\ Len(timings) \in Nat
  BY <1>1, <1>5
<1>7. /\ history' \in [Workload \X ProviderId -> Seq(BOOLEAN)]
      /\ history'[here] = timings'
      /\ \A pair \in Workload \X ProviderId : pair # here => history'[pair] = history[pair]
  BY <1>1, <1>4, <1>5
<1>8. config.repeat \in Nat /\ Rows \in Nat /\ Cols \in Nat
  BY <1>3, ConfigTypes DEF BenchTypes
<1>9. Len(timings') <= config.repeat
  BY <1>2, <1>6, <1>8
<1>10. \A pair \in Workload \X ProviderId : Len(history'[pair]) <= config.repeat
  BY <1>5, <1>7, <1>9
<1>11. Rows' = Rows /\ Cols' = Cols /\ (\A i, j : Pair(i, j)' = Pair(i, j))
  BY <1>2 DEF Rows, Cols, Pair
<1>12. \A k : At(k)' = At(k)
  BY <1>11 DEF At
<1>13. BenchTypes'
  <2>1. /\ config' \in Config /\ gate' \in {"absent", "strict", "tolerant"} /\ made' \in 0 .. Cols
        /\ (stage' = "factories" => made' < Cols) /\ w' \in 1 .. Rows /\ p' \in 1 .. Cols
    BY <1>2, <1>3 DEF BenchTypes
  <2>2. config' = config
    BY <1>2
  <2> QED
    BY <1>6, <1>7, <1>9, <1>10, <1>11, <2>1, <2>2 DEF BenchTypes
<1>14. \A k \in 1 .. (Rows * Cols) : k # c + 1 => history'[At(k)] = history[At(k)]
  BY <1>3, <1>4, <1>7, Places DEF BenchTypes
<1>15. Collected'
  <2>1. results = [k \in 1 .. c |-> Result(At(k))]
    BY <1>3 DEF Collected
  <2>2. 1 .. c \subseteq 1 .. (Rows * Cols) /\ c + 1 \notin 1 .. c
    BY <1>3, <1>4, <1>8
  <2>3. ASSUME NEW k \in 1 .. c
        PROVE  Result(At(k))' = Result(At(k))
    <3>1. history'[At(k)] = history[At(k)]
      BY <1>14, <2>2
    <3>2. At(k)' = At(k) /\ config' = config
      BY <1>2, <1>12
    <3> QED
      BY <3>1, <3>2 DEF Result
  <2>4. results' = results /\ Len(results') = c
    BY <1>2
  <2> QED
    BY <1>3, <2>1, <2>3, <2>4 DEF Collected
<1>16. Position'
  <2>1. Len(results') \div Cols' = w' - 1 /\ Len(results') % Cols' = p' - 1
    BY <1>2, <1>3, <1>11 DEF Position
  <2>2. Pair(w, p)' = here
    BY <1>2 DEF here, Pair
  <2>3. ASSUME NEW k \in 1 .. (Rows * Cols), k > c + 1
        PROVE  history'[At(k)] = <<>>
    <3>1. k # c + 1
      BY <1>3, <2>3
    <3> QED
      BY <1>3, <1>14, <2>3, <3>1 DEF Position
  <2>4. Len(results') = c
    BY <1>2
  <2> QED
    BY <1>7, <1>11, <1>12, <2>1, <2>2, <2>3, <2>4 DEF Position
<1> QED
  BY <1>2, <1>3, <1>13, <1>15, <1>16 DEF BenchInv, Looping, Untouched

(* The result of a pair is made when all of its runs are there, and it     *)
(* passes when each of them did.                                           *)
LEMMA ResultOfAllRuns ==
  ASSUME NEW t \in Seq(BOOLEAN), NEW n \in Nat, Len(t) = n
  PROVE  (\A i \in DOMAIN t : t[i]) <=> (t = [i \in 1 .. n |-> TRUE])
<1>1. t = [i \in 1 .. n |-> t[i]] /\ DOMAIN t = 1 .. n /\ \A i \in 1 .. n : t[i] \in BOOLEAN
  OBVIOUS
<1>2. ASSUME \A i \in DOMAIN t : t[i]
      PROVE  t = [i \in 1 .. n |-> TRUE]
  <2>1. \A i \in 1 .. n : t[i] = TRUE
    BY <1>1, <1>2
  <2> QED
    BY <1>1, <2>1
<1>3. ASSUME t = [i \in 1 .. n |-> TRUE]
      PROVE  \A i \in DOMAIN t : t[i]
  BY <1>3
<1> QED
  BY <1>2, <1>3

LEMMA AppendedFunction ==
  ASSUME NEW c \in Nat, NEW G, NEW s, s = [k \in 1 .. c |-> G[k]]
  PROVE  Append(s, G[c + 1]) = [k \in 1 .. (c + 1) |-> G[k]] /\ Len(Append(s, G[c + 1])) = c + 1
<1> DEFINE S == {G[k] : k \in 1 .. (c + 1)}
<1>1. s \in Seq(S) /\ Len(s) = c
  BY DEF S
<1>2. G[c + 1] \in S
  BY DEF S
<1> HIDE DEF S
<1> DEFINE t == Append(s, G[c + 1])
<1>3. /\ t \in Seq(S) /\ Len(t) = c + 1
      /\ \A k \in 1 .. (c + 1) : t[k] = IF k = c + 1 THEN G[c + 1] ELSE s[k]
  BY <1>1, <1>2
<1>4. t = [k \in 1 .. (c + 1) |-> t[k]]
  BY <1>3
<1> HIDE DEF t
<1>5. ASSUME NEW k \in 1 .. (c + 1)
      PROVE  t[k] = G[k]
  <2>1. k = c + 1 \/ k \in 1 .. c
    OBVIOUS
  <2> QED
    BY <1>3, <2>1
<1>6. t = [k \in 1 .. (c + 1) |-> G[k]]
  BY <1>4, <1>5
<1> QED
  BY <1>3, <1>6 DEF t

LEMMA ResultStep ==
  ASSUME BenchInv, AppendResult
  PROVE  BenchInv'
<1> DEFINE here == Pair(w, p)
           c == Len(results)
<1>1. /\ stage = "runs" /\ Len(timings) = config.repeat
      /\ results' = Append(results, [pair |-> here, repeat |-> Len(timings),
                                     passed_validation |-> PassedValidation])
      /\ timings' = <<>>
      /\ UNCHANGED <<config, gate, made, history, output>>
  BY DEF AppendResult
<1>2. BenchTypes /\ Collected /\ Position /\ Untouched /\ Looping /\ c \in Nat
  BY <1>1 DEF BenchInv, Looping, Collected
<1>3. c + 1 \in 1 .. (Rows * Cols) /\ At(c + 1) = here /\ here \in Workload \X ProviderId
  BY <1>2, Here
<1>4. /\ Rows \in Nat \ {0} /\ Cols \in Nat \ {0} /\ config.repeat \in Nat
      /\ w \in 1 .. Rows /\ p \in 1 .. Cols
  BY <1>2, ConfigTypes DEF BenchTypes
<1>5. Rows' = Rows /\ Cols' = Cols /\ (\A i, j : Pair(i, j)' = Pair(i, j))
  BY <1>1 DEF Rows, Cols, Pair
<1>6. \A k : At(k)' = At(k)
  BY <1>5 DEF At
<1>7. \A pair : Result(pair)' = Result(pair)
  BY <1>1 DEF Result
<1>8. [pair |-> here, repeat |-> Len(timings), passed_validation |-> PassedValidation] = Result(here)
  <2>1. timings \in Seq(BOOLEAN) /\ history[here] = timings
    BY <1>2 DEF BenchTypes, Position
  <2>2. PassedValidation <=> (history[here] = [i \in 1 .. config.repeat |-> TRUE])
    BY <1>1, <1>4, <2>1, ResultOfAllRuns DEF PassedValidation
  <2> QED
    BY <1>1, <2>2 DEF Result
<1> HIDE DEF here
<1>9. results' = Append(results, Result(At(c + 1)))
  BY <1>1, <1>3, <1>8
<1>10. Collected' /\ Len(results') = c + 1
  <2> DEFINE G == [k \in 1 .. (c + 1) |-> Result(At(k))]
  <2>1. results = [k \in 1 .. c |-> G[k]]
    BY <1>2 DEF Collected
  <2>2. G[c + 1] = Result(At(c + 1))
    BY <1>2
  <2>3. G = [k \in 1 .. (c + 1) |-> G[k]]
    OBVIOUS
  <2> HIDE DEF G
  <2>4. results' = [k \in 1 .. (c + 1) |-> G[k]] /\ Len(results') = c + 1
    BY <1>2, <1>9, <2>1, <2>2, AppendedFunction
  <2>5. results' = [k \in 1 .. (c + 1) |-> Result(At(k))]
    BY <2>3, <2>4 DEF G
  <2>6. results' = [k \in 1 .. Len(results') |-> Result(At(k))']
    BY <1>6, <1>7, <2>4, <2>5
  <2> QED
    BY <1>2, <2>4, <2>6 DEF Collected
<1>11. BenchTypes'
  <2>1. w' \in 1 .. Rows /\ p' \in 1 .. Cols /\ stage' # "factories"
    BY <1>4 DEF AppendResult, LastProvider, LastWorkload, Rows, Cols
  <2>2. timings' \in Seq(BOOLEAN) /\ Len(timings') = 0
    BY <1>1
  <2>3. /\ config' \in Config /\ config' = config /\ gate' \in {"absent", "strict", "tolerant"}
        /\ made' \in 0 .. Cols
        /\ history' \in [Workload \X ProviderId -> Seq(BOOLEAN)]
        /\ \A pair \in Workload \X ProviderId : Len(history'[pair]) <= config.repeat
    BY <1>1, <1>2 DEF BenchTypes
  <2>4. Len(timings') <= config'.repeat
    BY <1>4, <2>2, <2>3
  <2> QED
    BY <1>5, <2>1, <2>2, <2>3, <2>4 DEF BenchTypes
<1>12. CASE ~(LastProvider /\ LastWorkload)
  <2>1. (c \div Cols) = w - 1 /\ (c % Cols) = p - 1
    BY <1>2 DEF Position
  <2>2. /\ w' \in 1 .. Rows /\ p' \in 1 .. Cols /\ stage' \in {"validate", "reference"}
        /\ ((c + 1) \div Cols) = w' - 1 /\ ((c + 1) % Cols) = p' - 1
    <3>1. CASE ~LastProvider
      <4>1. p' = p + 1 /\ w' = w /\ stage' = "validate" /\ p < Cols
        BY <1>4, <3>1 DEF AppendResult, LastProvider, Cols
      <4>2. (c % Cols) + 1 < Cols
        BY <1>4, <2>1, <4>1
      <4>3. ((c + 1) \div Cols) = (c \div Cols) /\ ((c + 1) % Cols) = (c % Cols) + 1
        BY <1>2, <1>4, <4>2, NextPosition
      <4> QED
        BY <1>4, <2>1, <4>1, <4>3
    <3>2. CASE LastProvider /\ ~LastWorkload
      <4>1. p' = 1 /\ w' = w + 1 /\ stage' = "reference" /\ p = Cols /\ w < Rows
        BY <1>4, <3>2 DEF AppendResult, LastProvider, LastWorkload, Rows, Cols
      <4>2. ~((c % Cols) + 1 < Cols)
        BY <1>4, <2>1, <4>1
      <4>3. ((c + 1) \div Cols) = (c \div Cols) + 1 /\ ((c + 1) % Cols) = 0
        BY <1>2, <1>4, <4>2, NextPosition
      <4> QED
        BY <1>4, <2>1, <4>1, <4>3
    <3> QED
      BY <1>12, <3>1, <3>2
  <2>3. w' \in 1 .. Rows /\ p' \in 1 .. Cols /\ Rows \in Nat /\ Cols \in Nat \ {0} /\ c + 1 \in Nat
    BY <1>2, <1>4, <2>2
  <2>4. w' - 1 \in 0 .. (Rows - 1) /\ (w' - 1) + 1 = w' /\ (p' - 1) + 1 = p'
    BY <2>3, OneLess
  <2>5. (c + 1) + 1 - 1 = c + 1
    BY <2>3
  <2>6. (c + 1) + 1 \in 1 .. (Rows * Cols)
    <3>1. ((c + 1) \div Cols) \in 0 .. (Rows - 1)
      BY <2>2, <2>4
    <3> QED
      BY <2>3, <3>1, PositionBelow
  <2>7. At((c + 1) + 1) = Pair(w', p')
    <3>1. At((c + 1) + 1) = Pair((((c + 1) + 1 - 1) \div Cols) + 1, (((c + 1) + 1 - 1) % Cols) + 1)
      BY DEF At
    <3> QED
      BY <2>2, <2>4, <2>5, <3>1
  <2>8. \A k \in 1 .. (Rows * Cols) : k > c + 1 => history[At(k)] = <<>>
    BY <1>2 DEF Position
  <2>9. history[Pair(w', p')] = <<>>
    BY <1>2, <2>6, <2>7, <2>8
  <2>10. \A k \in 1 .. (Rows * Cols) : k > (c + 1) + 1 => history[At(k)] = <<>>
    BY <1>2, <2>8
  <2>11. Position'
    <3>1. history'[Pair(w, p)'] = timings'
      BY <1>1, <2>9 DEF Pair
    <3>2. \A k \in 1 .. (Rows' * Cols') : k > Len(results') + 1 => history'[At(k)'] = <<>>
      BY <1>1, <1>5, <1>6, <1>10, <2>10
    <3>3. Len(results') \div Cols' = w' - 1 /\ Len(results') % Cols' = p' - 1
      BY <1>5, <1>10, <2>2
    <3> QED
      BY <3>1, <3>2, <3>3 DEF Position
  <2>12. Looping' /\ Untouched'
    BY <1>1, <1>2, <2>2 DEF Looping, Untouched
  <2> QED
    BY <1>10, <1>11, <2>11, <2>12 DEF BenchInv
<1>13. CASE LastProvider /\ LastWorkload
  <2>1. w = Rows /\ p = Cols /\ stage' = "write"
    BY <1>13 DEF LastProvider, LastWorkload, Rows, Cols, AppendResult
  <2>2. (c \div Cols) = Rows - 1 /\ (c % Cols) = Cols - 1
    BY <1>2, <2>1 DEF Position
  <2>3. c + 1 = Rows * Cols
    BY <1>2, <1>4, <2>2, LastPosition
  <2>4. Complete'
    BY <1>5, <1>10, <2>3 DEF Complete
  <2>5. Untouched'
    BY <1>1, <1>2, <2>1 DEF Untouched
  <2> QED
    BY <1>10, <1>11, <2>1, <2>4, <2>5 DEF BenchInv
<1> QED
  BY <1>12, <1>13

LEMMA WritingStep ==
  ASSUME BenchInv, Write \/ WriteFails \/ Judge
  PROVE  BenchInv'
<1>1. UNCHANGED <<config, gate, made, w, p, timings, history, results>>
  BY DEF Write, WriteFails, Judge
<1>2. stage' \in {"exit 0", "raised", "gate passes", "gate fails"}
  BY DEF Write, WriteFails, Judge, Raise
<1>3. BenchTypes /\ Collected /\ made \in 0 .. Cols
  BY DEF BenchInv, BenchTypes
<1>4. BenchTypes'
  BY <1>1, <1>2, <1>3, UnmovedTypes
<1>5. (Collected' <=> Collected) /\ (Complete' <=> Complete)
  BY <1>1, Unmoved
<1>6. CASE Write
  <2>1. stage' = "exit 0"
    BY <1>6 DEF Write
  <2>2. Written'
    <3>1. CASE stage = "write" /\ output' = Report(results)
      <4>1. Complete
        BY <3>1 DEF BenchInv, Looping
      <4>2. output' = Report(results)'
        BY <1>1, <3>1 DEF Report
      <4> QED
        BY <1>5, <4>1, <4>2 DEF Written
    <3>2. CASE stage = "skip" /\ output' = Skipped
      BY <3>2 DEF Written, Skipped
    <3>3. CASE stage = "dry run" /\ output' = DryRun
      <4>1. gate' = "absent"
        BY <1>1, <3>3 DEF BenchInv, Looping, Untouched
      <4> QED
        BY <3>3, <4>1 DEF Written, DryRun
    <3> QED
      BY <1>6, <3>1, <3>2, <3>3 DEF Write
  <2> QED
    BY <1>3, <1>4, <1>5, <2>1, <2>2 DEF BenchInv
<1>7. CASE WriteFails
  <2>1. stage' = "raised"
    BY <1>7 DEF WriteFails, Raise
  <2> QED
    BY <1>3, <1>4, <1>5, <2>1 DEF BenchInv, Untouched
<1>8. CASE Judge
  <2>1. /\ stage = "exit 0" /\ UNCHANGED output /\ gate # "absent"
        /\ stage' = IF GatePasses THEN "gate passes" ELSE "gate fails"
    BY <1>8 DEF Judge
  <2>2. Written
    BY <2>1 DEF BenchInv, Looping
  <2>3. Written'
    BY <1>1, <1>5, <2>1, <2>2 DEF Written
  <2>4. GatePasses' <=> GatePasses
    BY <1>1, <2>1 DEF GatePasses, Skipped
  <2>5. Judged' /\ stage' \in {"gate passes", "gate fails"}
    BY <1>1, <2>1, <2>4 DEF Judged
  <2> QED
    BY <1>3, <1>4, <1>5, <2>3, <2>5 DEF BenchInv
<1> QED
  BY <1>6, <1>7, <1>8

LEMMA BenchStep == BenchInv /\ [Next]_vars => BenchInv'
BY QuietStep, RunStep, ResultStep, WritingStep DEF Next, Run

LEMMA BenchInvariant == Spec => []BenchInv
BY BenchInit, BenchStep, PTL DEF Spec

-----------------------------------------------------------------------------
(* What follows from it. *)

(* The loops stay within the configuration, and no pair is run more often  *)
(* than configured.                                                        *)
THEOREM BenchmarkTypes == Spec => []TypeOK
<1>1. BenchInv => TypeOK
  <2> SUFFICES ASSUME BenchInv PROVE TypeOK
    OBVIOUS
  <2>1. BenchTypes
    BY DEF BenchInv
  <2>2. w \in DOMAIN config.workloads /\ p \in DOMAIN config.providers
    BY <2>1, ConfigTypes DEF BenchTypes
  <2> QED
    BY <2>1, <2>2 DEF BenchTypes, TypeOK, Cols
<1> QED
  BY <1>1, BenchInvariant, PTL

(* A report is written of all pairs asked for, workloads first, each with  *)
(* the verdict of all of its runs.                                         *)
THEOREM CompleteReport == Spec => []ReportIsComplete
<1>1. BenchInv => ReportIsComplete
  <2> SUFFICES ASSUME BenchInv, stage = "exit 0", output \notin {Skipped, DryRun}
               PROVE  output = Report([k \in 1 .. Rows * Cols |-> Result(At(k))])
    BY DEF ReportIsComplete, Rows, Cols, Result, At
  <2>1. output = Report(results) /\ Complete /\ Collected
    BY DEF BenchInv, Looping, Written
  <2> QED
    BY <2>1 DEF Complete, Collected
<1> QED
  BY <1>1, BenchInvariant, PTL

(* Nothing is written before the end, and then at most once. *)
THEOREM SingleWrite == Spec => WrittenAtTheEnd
<1>1. BenchInv /\ [Next]_vars =>
        [output' # output => output = Before /\ stage' \in {"exit 0", "raised"}
                               /\ (stage' = "raised" => stage \in {"write", "skip", "dry run"})]_vars
  <2> SUFFICES ASSUME BenchInv, Next, output' # output
               PROVE  /\ output = Before /\ stage' \in {"exit 0", "raised"}
                      /\ stage' = "raised" => stage \in {"write", "skip", "dry run"}
    BY DEF vars
  <2>1. Write \/ WriteFails
    BY DEF Next, Run, MakeProvider, MissingDependency, FactoryFails, ReferenceOutputs,
           ValidateProgram, RunOnce, RunFails, AppendResult, Judge
  <2>2. stage \in {"write", "skip", "dry run"} /\ stage' \in {"exit 0", "raised"}
    BY <2>1 DEF Write, WriteFails, Raise
  <2>3. output = Before
    BY <2>2 DEF BenchInv, Untouched, Looping
  <2> QED
    BY <2>2, <2>3
<1> QED
  BY <1>1, BenchInvariant, PTL DEF Spec, WrittenAtTheEnd

(* The script's exit status says exactly whether every run of every pair   *)
(* asked for was within tolerance, or a skipped benchmark is tolerated.    *)
THEOREM ExactGate == Spec => []GateIsExact
<1>1. BenchInv => GateIsExact
  <2> SUFFICES ASSUME BenchInv, stage \in {"gate passes", "gate fails"}
               PROVE  stage = "gate passes" <=>
                        IF output = Skipped THEN gate = "tolerant"
                        ELSE \A i \in DOMAIN config.workloads, j \in DOMAIN config.providers :
                               history[Pair(i, j)] = [r \in 1 .. config.repeat |-> TRUE]
    BY DEF GateIsExact
  <2>1. /\ BenchTypes /\ Collected /\ Written
        /\ gate # "absent" /\ (stage = "gate passes" <=> GatePasses)
    BY DEF BenchInv, Looping, Judged
  <2>2. CASE output = Skipped
    BY <2>1, <2>2 DEF GatePasses
  <2>3. CASE output # Skipped
    <3>1. output = Report(results) /\ Complete
      BY <2>1, <2>3 DEF Written
    <3>2. output.results = results
      BY <3>1 DEF Report
    <3>3. results = [k \in 1 .. (Rows * Cols) |-> Result(At(k))]
      BY <2>1, <3>1 DEF Collected, Complete
    <3>4. \A k \in 1 .. (Rows * Cols) :
            results[k].passed_validation <=> (history[At(k)] = [i \in 1 .. config.repeat |-> TRUE])
      BY <3>3 DEF Result
    <3>5. GatePasses <=> \A k \in 1 .. (Rows * Cols) :
                           history[At(k)] = [i \in 1 .. config.repeat |-> TRUE]
      <4>1. results # <<>>
        <5>1. 1 \in 1 .. Rows /\ 1 \in 1 .. Cols
          <6>1. Rows \in Nat \ {0} /\ Cols \in Nat \ {0}
            BY <2>1, ConfigTypes DEF BenchTypes
          <6> QED
            BY <6>1, First
        <5>2. PICK k \in 1 .. (Rows * Cols) : At(k) = Pair(1, 1)
          BY <2>1, <5>1, Places DEF BenchTypes
        <5>3. results = [l \in 1 .. (Rows * Cols) |-> results[l]]
          BY <3>3
        <5> QED
          BY <5>2, <5>3, NotEmpty
      <4> QED
        BY <2>3, <3>2, <3>3, <3>4, <4>1 DEF GatePasses
    <3>6. /\ DOMAIN config.workloads = 1 .. Rows /\ DOMAIN config.providers = 1 .. Cols
          /\ \A i \in 1 .. Rows, j \in 1 .. Cols : \E k \in 1 .. (Rows * Cols) : At(k) = Pair(i, j)
      BY <2>1, ConfigTypes, Places DEF BenchTypes
    <3>7. \A k \in 1 .. (Rows * Cols) : \E i \in 1 .. Rows, j \in 1 .. Cols : At(k) = Pair(i, j)
      BY <2>1, Places DEF BenchTypes
    <3> DEFINE All == [r \in 1 .. config.repeat |-> TRUE]
    <3> HIDE DEF All
    <3>8. (\A k \in 1 .. (Rows * Cols) : history[At(k)] = All)
            <=> \A i \in DOMAIN config.workloads, j \in DOMAIN config.providers :
                  history[Pair(i, j)] = All
      <4>1. ASSUME \A k \in 1 .. (Rows * Cols) : history[At(k)] = All,
                   NEW i \in 1 .. Rows, NEW j \in 1 .. Cols
            PROVE  history[Pair(i, j)] = All
        <5>1. PICK k \in 1 .. (Rows * Cols) : At(k) = Pair(i, j)
          BY <3>6
        <5> QED
          BY <4>1, <5>1
      <4>2. ASSUME \A i \in 1 .. Rows, j \in 1 .. Cols : history[Pair(i, j)] = All,
                   NEW k \in 1 .. (Rows * Cols)
            PROVE  history[At(k)] = All
        <5>1. PICK i \in 1 .. Rows, j \in 1 .. Cols : At(k) = Pair(i, j)
          BY <3>7
        <5> QED
          BY <4>2, <5>1
      <4> QED
        BY <3>6, <4>1, <4>2
    <3>9. GatePasses <=> \A i \in DOMAIN config.workloads, j \in DOMAIN config.providers :
                           history[Pair(i, j)] = [r \in 1 .. config.repeat |-> TRUE]
      BY <3>5, <3>8 DEF All
    <3> QED
      BY <2>1, <2>3, <3>9
  <2> QED
    BY <2>2, <2>3
<1> QED
  BY <1>1, BenchInvariant, PTL

-----------------------------------------------------------------------------
(* The comparison behind the verdict of a run.  Its loops are recursive    *)
(* functions; that they are defined, and what holds of their results, is   *)
(* drawn from the numbers being well founded under <.                      *)
CountsTo(T, N) == 0 \in T /\ \A n \in 1 .. N : n - 1 \in T => n \in T

LEMMA Counting ==
  ASSUME NEW N \in Nat, NEW T, CountsTo(T, N)
  PROVE  N \in T
<1> DEFINE Missing == {n \in 0 .. N : n \notin T}
           R == OpToRel(<, Nat)
<1> SUFFICES ASSUME Missing # {} PROVE FALSE
  OBVIOUS
<1>0. 0 \in T /\ \A n \in 1 .. N : n - 1 \in T => n \in T
  BY DEF CountsTo
<1>1. IsWellFoundedOn(R, Nat)
  BY NatLessThanWellFounded, Zenon
<1>2. \A x, y \in Nat : x < y => <<x, y>> \in R
  BY DEF OpToRel
<1> HIDE DEF R
<1>3. PICK m \in Missing : \A y \in Missing : ~(<<y, m>> \in R)
  <2>1. Missing \subseteq Nat
    OBVIOUS
  <2> HIDE DEF Missing
  <2> QED
    BY <1>1, <2>1, WFMin
<1>4. m \in 1 .. N /\ m - 1 \in Nat /\ m \in Nat /\ m - 1 < m
  BY <1>0
<1>5. m - 1 \in Missing
  BY <1>0, <1>4
<1> QED
  BY <1>2, <1>3, <1>4, <1>5

(* A loop of N rounds over states in R has a course. *)
Course(f, N, R, base, step) ==
  /\ f \in [0 .. N -> R] /\ f[0] = base
  /\ \A n \in 1 .. N : f[n] = step[<<f[n - 1], n>>]

LEMMA LoopRuns ==
  ASSUME NEW N \in Nat, NEW R, NEW base \in R, NEW step,
         \A n \in 1 .. N, x \in R : step[<<x, n>>] \in R
  PROVE  \E f : Course(f, N, R, base, step)
<1> DEFINE T == {m \in 0 .. N : \E f : Course(f, m, R, base, step)}
<1>1. 0 \in T
  <2> DEFINE f == [n \in 0 .. 0 |-> base]
  <2>1. f \in [0 .. 0 -> R] /\ f[0] = base /\ 1 .. 0 = {}
    OBVIOUS
  <2> HIDE DEF f
  <2>2. Course(f, 0, R, base, step)
    BY <2>1 DEF Course
  <2> QED
    BY <2>2
<1>2. ASSUME NEW m \in 1 .. N, m - 1 \in T
      PROVE  m \in T
  <2>1. PICK f : Course(f, m - 1, R, base, step)
    BY <1>2
  <2> DEFINE g == [n \in 0 .. m |-> IF n = m THEN step[<<f[m - 1], m>>] ELSE f[n]]
  <2>2. g \in [0 .. m -> R]
    BY <2>1 DEF Course
  <2>3. \A n \in 0 .. (m - 1) : g[n] = f[n]
    OBVIOUS
  <2>4. g[m] = step[<<f[m - 1], m>>]
    OBVIOUS
  <2> HIDE DEF g
  <2>5. g[0] = base
    BY <2>1, <2>3 DEF Course
  <2>6. ASSUME NEW n \in 1 .. m
        PROVE  g[n] = step[<<g[n - 1], n>>]
    <3>1. g[n - 1] = f[n - 1]
      BY <2>3
    <3>2. CASE n = m
      BY <2>4, <3>1, <3>2
    <3>3. CASE n # m
      BY <2>1, <2>3, <3>1, <3>3 DEF Course
    <3> QED
      BY <3>2, <3>3
  <2> QED
    BY <2>2, <2>5, <2>6 DEF Course
<1>3. CountsTo(T, N)
  BY <1>1, <1>2 DEF CountsTo
<1>4. N \in T
  <2> HIDE DEF T
  <2> QED
    BY <1>3, Counting
<1> QED
  BY <1>4

(* Errors: what abs and max can make of finite and other numbers.          *)
Error == [kind : {"finite"}, n : Nat] \cup {Inf}

LEMMA ErrorRange ==
  ASSUME NEW got \in Number, NEW want \in Number
  PROVE  /\ Err(got, want) \in Error \cup {NaN}
         /\ Finite(Err(got, want)) <=>
              Finite(got) /\ Finite(want)
         /\ Finite(got) /\ Finite(want) =>
              /\ got.n \in Int /\ want.n \in Int
              /\ Err(got, want).n = Magnitude(got.n - want.n)
<1>1. /\ got.kind \in {"finite", "inf", "nan"} /\ want.kind \in {"finite", "inf", "nan"}
      /\ got.n \in Int /\ want.n \in Int
  BY DEF Number, Inf, NegInf, NaN
<1>2. CASE got.kind = "finite" /\ want.kind = "finite"
  <2>1. Err(got, want) = [kind |-> "finite", n |-> Magnitude(got.n - want.n)]
    BY <1>2 DEF Err, Num
  <2>2. Magnitude(got.n - want.n) \in Nat
    BY <1>1 DEF Magnitude
  <2> QED
    BY <1>1, <1>2, <2>1, <2>2 DEF Error, Finite
<1>3. CASE ~(got.kind = "finite" /\ want.kind = "finite")
  <2>1. Err(got, want) \in {Inf, NaN}
    BY <1>1, <1>3 DEF Err
  <2> QED
    BY <1>1, <1>3, <2>1 DEF Error, Finite, Inf, NaN
<1> QED
  BY <1>2, <1>3

LEMMA TooLargeIsNotClose ==
  ASSUME NEW got \in Number, NEW want \in Number
  PROVE  TooLarge(Err(got, want), want) <=> ~Close(got, want)
<1> DEFINE err == Err(got, want)
           t == 100 * AbsoluteTolerance + RelativeTolerance * Magnitude(want.n)
<1>1. CASE Finite(got) /\ Finite(want)
  <2>1. /\ got.n \in Int /\ want.n \in Int /\ Finite(err)
        /\ err.n = Magnitude(got.n - want.n)
    BY <1>1, ErrorRange
  <2>2. t \in Int
    BY <2>1, ToleranceAssumption DEF Magnitude
  <2>3. TooLarge(err, want) <=> 100 * err.n > t
    BY <2>1 DEF TooLarge
  <2>4. Close(got, want) <=> -t <= 100 * (got.n - want.n) /\ 100 * (got.n - want.n) <= t
    BY <1>1 DEF Close
  <2> HIDE DEF t, err
  <2>5. 100 * err.n > t <=> ~(-t <= 100 * (got.n - want.n) /\ 100 * (got.n - want.n) <= t)
    BY <2>1, <2>2 DEF Magnitude
  <2> QED
    BY <2>3, <2>4, <2>5 DEF err
<1>2. CASE ~(Finite(got) /\ Finite(want))
  <2>1. ~Finite(err)
    BY <1>2, ErrorRange
  <2> QED
    BY <1>2, <2>1 DEF TooLarge, Close
<1> QED
  BY <1>1, <1>2

LEMMA LargerOfTwo ==
  ASSUME NEW x \in Error, NEW y \in Error \cup {NaN}
  PROVE  LET z == Larger(x, y)
         IN  z \in Error /\ z \in {x, y} /\ ~Exceeds(x, z) /\ ~Exceeds(y, z)
<1>1. x.kind \in {"finite", "inf"} /\ x.n \in Int /\ y.kind \in {"finite", "inf", "nan"} /\ y.n \in Int
  BY DEF Error, Inf, NaN
<1>2. y.kind = "nan" => y = NaN
  BY DEF Error, Inf, NaN
<1>3. Exceeds(y, x) => y \in Error
  BY DEF Exceeds, NaN
<1>4. ~Exceeds(x, x) /\ ~Exceeds(y, y)
  BY <1>1 DEF Exceeds
<1>5. Exceeds(y, x) => ~Exceeds(x, y)
  BY <1>1 DEF Exceeds
<1> QED
  BY <1>3, <1>4, <1>5 DEF Larger

LEMMA ExceedsNone ==
  ASSUME NEW e \in Error \cup {NaN}, NEW x \in Error, NEW z \in Error,
         ~Exceeds(e, x), ~Exceeds(x, z)
  PROVE  ~Exceeds(e, z)
<1>1. x.kind \in {"finite", "inf"} /\ x.n \in Int /\ z.kind \in {"finite", "inf"} /\ z.n \in Int
      /\ e.kind \in {"finite", "inf", "nan"} /\ e.n \in Int
  BY DEF Error, Inf, NaN
<1> QED
  BY <1>1 DEF Exceeds

LEMMA StartsClean ==
  /\ Num(0) \in Error
  /\ NaN \notin Error
  /\ Clean.passed = TRUE /\ Clean.max_absolute_error = Num(0)
BY DEF Error, Num, Inf, NaN, Clean, ToleranceResult

(* One tensor. *)
Verdict == [passed : BOOLEAN, max_absolute_error : Error]

LEMMA ValueChecked ==
  ASSUME NEW got \in Number, NEW want \in Number, NEW r \in Verdict
  PROVE  LET v == CheckValue(got, want, r)
         IN  /\ v \in Verdict
             /\ v.passed <=> r.passed /\ Close(got, want)
             /\ v.max_absolute_error \in {r.max_absolute_error, Err(got, want)}
             /\ v.passed => /\ ~Exceeds(r.max_absolute_error, v.max_absolute_error)
                            /\ ~Exceeds(Err(got, want), v.max_absolute_error)
<1> DEFINE err == Err(got, want)
           m == r.max_absolute_error
<1>1. /\ TooLarge(err, want) <=> ~Close(got, want)
      /\ err \in Error \cup {NaN}
  BY TooLargeIsNotClose, ErrorRange
<1>2. m \in Error /\ r.passed \in BOOLEAN
  BY DEF Verdict
<1> HIDE DEF err, m
<1>3. LET z == Larger(m, err)
      IN  z \in Error /\ z \in {m, err} /\ ~Exceeds(m, z) /\ ~Exceeds(err, z)
  BY <1>1, <1>2, LargerOfTwo
<1>4. CASE ~r.passed
  BY <1>4 DEF CheckValue, m
<1>5. CASE r.passed
  <2>1. CheckValue(got, want, r)
          = [passed |-> ~TooLarge(err, want), max_absolute_error |-> Larger(m, err)]
    BY <1>5 DEF CheckValue, ToleranceResult, err, m
  <2> DEFINE v == CheckValue(got, want, r)
             far == TooLarge(err, want)
             z == Larger(m, err)
  <2>2. v = [passed |-> ~far, max_absolute_error |-> z]
    BY <2>1
  <2>3. z \in Error /\ z \in {m, err} /\ ~Exceeds(m, z) /\ ~Exceeds(err, z)
    BY <1>3
  <2>4. far <=> ~Close(got, want)
    BY <1>1
  <2> HIDE DEF v, far, z
  <2>5. v.passed = ~far /\ v.max_absolute_error = z /\ v \in Verdict
    BY <2>2, <2>3 DEF Verdict
  <2> QED
    BY <1>5, <2>3, <2>4, <2>5 DEF v, err, m
<1> QED
  BY <1>4, <1>5

LEMMA CheckedCourse ==
  ASSUME NEW got \in Seq(Number), NEW want \in Seq(Number), Len(got) = Len(want)
  PROVE  LET f == Checked(got, want)
         IN  /\ f[0] = Clean
             /\ \A n \in 1 .. Len(got) : f[n] = CheckValue(got[n], want[n], f[n - 1])
<1> DEFINE N == Len(got)
           step == [z \in Verdict \X (1 .. N) |-> CheckValue(got[z[2]], want[z[2]], z[1])]
           Solves(f) == f = [n \in 0 .. N |-> IF n = 0 THEN Clean
                                              ELSE CheckValue(got[n], want[n], f[n - 1])]
<1>1. N \in Nat /\ \A n \in 1 .. N : got[n] \in Number /\ want[n] \in Number
  OBVIOUS
<1>2. Clean \in Verdict
  BY StartsClean DEF Verdict, Clean, ToleranceResult
<1>3. \A n \in 1 .. N, x \in Verdict :
        step[<<x, n>>] = CheckValue(got[n], want[n], x)
  OBVIOUS
<1>4. \A n \in 1 .. N, x \in Verdict : step[<<x, n>>] \in Verdict
  BY <1>1, <1>3, ValueChecked
<1> HIDE DEF step
<1>5. PICK f : Course(f, N, Verdict, Clean, step)
  <2> HIDE DEF N
  <2> QED
    BY <1>1, <1>2, <1>4, LoopRuns
<1>6. \A n \in 1 .. N : f[n] = CheckValue(got[n], want[n], f[n - 1])
  <2> HIDE DEF N
  <2>1. \A n \in 1 .. N : f[n - 1] \in Verdict
    BY <1>1, <1>5 DEF Course
  <2> QED
    BY <1>3, <1>5, <2>1 DEF Course
<1>7. Solves(f)
  BY <1>1, <1>5, <1>6 DEF Course
<1>8. Checked(got, want) = CHOOSE g : Solves(g)
  BY DEF Checked
<1>9. Solves(Checked(got, want))
  BY <1>7, <1>8
<1> QED
  BY <1>1, <1>9

(* A verdict over values whose errors are es, all of them close when ok.   *)
Judges(r, ok, es) ==
  /\ r \in Verdict
  /\ r.passed <=> ok
  /\ r.max_absolute_error \in es \cup {Num(0)}
  /\ r.passed => \A e \in es : ~Exceeds(e, r.max_absolute_error)

LEMMA JudgesNothing == Judges(Clean, TRUE, {})
BY StartsClean DEF Judges, Verdict, Clean, ToleranceResult

LEMMA JudgesOneMore ==
  ASSUME NEW got \in Number, NEW want \in Number,
         NEW r, NEW ok \in BOOLEAN, NEW es \in SUBSET (Error \cup {NaN}), Judges(r, ok, es)
  PROVE  Judges(CheckValue(got, want, r), ok /\ Close(got, want),
                es \cup {Err(got, want)})
<1> DEFINE v == CheckValue(got, want, r)
           err == Err(got, want)
           near == Close(got, want)
           m == r.max_absolute_error
<1>1. r \in Verdict /\ m \in Error
  BY DEF Judges, Verdict
<1>2. /\ v \in Verdict /\ v.max_absolute_error \in Error
      /\ v.passed <=> r.passed /\ near
      /\ v.max_absolute_error \in {m, err}
      /\ v.passed => /\ ~Exceeds(m, v.max_absolute_error)
                     /\ ~Exceeds(err, v.max_absolute_error)
  <2>1. v \in Verdict
    BY <1>1, ValueChecked
  <2> QED
    BY <1>1, <2>1, ValueChecked DEF Verdict
<1> HIDE DEF v, err, near
<1>3. ASSUME v.passed, NEW e \in es
      PROVE  ~Exceeds(e, v.max_absolute_error)
  <2>1. ~Exceeds(e, m)
    BY <1>2, <1>3 DEF Judges
  <2>2. ~Exceeds(m, v.max_absolute_error)
    BY <1>2, <1>3
  <2> HIDE DEF m
  <2> QED
    BY <1>1, <1>2, <2>1, <2>2, ExceedsNone
<1>4. Judges(v, ok /\ near, es \cup {err})
  BY <1>2, <1>3 DEF Judges
<1> QED
  BY <1>4 DEF v, err, near

LEMMA JudgesBoth ==
  ASSUME NEW r, NEW ok \in BOOLEAN, NEW es \in SUBSET (Error \cup {NaN}), Judges(r, ok, es),
         NEW q, NEW near \in BOOLEAN, NEW fs \in SUBSET (Error \cup {NaN}), Judges(q, near, fs)
  PROVE  Judges(ToleranceResult(r.passed /\ q.passed,
                  Larger(r.max_absolute_error, q.max_absolute_error)),
                ok /\ near, es \cup fs)
<1> DEFINE m == r.max_absolute_error
           o == q.max_absolute_error
           z == Larger(m, o)
           v == ToleranceResult(r.passed /\ q.passed, z)
<1>1. m \in Error /\ o \in Error /\ r.passed \in BOOLEAN /\ q.passed \in BOOLEAN
  BY DEF Judges, Verdict
<1>2. z \in Error /\ z \in {m, o} /\ ~Exceeds(m, z) /\ ~Exceeds(o, z)
  <2> HIDE DEF m, o
  <2> QED
    BY <1>1, LargerOfTwo
<1>3. v \in Verdict /\ (v.passed <=> r.passed /\ q.passed) /\ v.max_absolute_error = z
  <2> HIDE DEF z
  <2> QED
    BY <1>1, <1>2 DEF Verdict, ToleranceResult
<1> HIDE DEF v, z
<1>4. ASSUME v.passed, NEW e \in es
      PROVE  ~Exceeds(e, z)
  <2>1. ~Exceeds(e, m)
    BY <1>3, <1>4 DEF Judges
  <2> HIDE DEF m
  <2> QED
    BY <1>1, <1>2, <2>1, ExceedsNone
<1>5. ASSUME v.passed, NEW e \in fs
      PROVE  ~Exceeds(e, z)
  <2>1. ~Exceeds(e, o)
    BY <1>3, <1>5 DEF Judges
  <2> HIDE DEF o
  <2> QED
    BY <1>1, <1>2, <2>1, ExceedsNone
<1>6. v.passed <=> ok /\ near
  BY <1>3 DEF Judges
<1>7. z \in (es \cup fs) \cup {Num(0)}
  BY <1>2 DEF Judges
<1>8. Judges(v, ok /\ near, es \cup fs)
  BY <1>3, <1>4, <1>5, <1>6, <1>7 DEF Judges
<1> QED
  BY <1>8 DEF v, z

AllClose(got, want, n) == \A i \in 1 .. n : Close(got[i], want[i])

ErrorsMet(got, want, n) == {Err(got[i], want[i]) : i \in 1 .. n}

LEMMA TensorJudged ==
  ASSUME NEW got \in Seq(Number), NEW want \in Seq(Number), Len(got) = Len(want)
  PROVE  Judges(CheckTolerance(got, want),
                AllClose(got, want, Len(got)), ErrorsMet(got, want, Len(got)))
<1> DEFINE N == Len(got)
           f == Checked(got, want)
           T == {n \in 0 .. N : Judges(f[n], AllClose(got, want, n), ErrorsMet(got, want, n))}
<1>1. N \in Nat /\ \A n \in 1 .. N : got[n] \in Number /\ want[n] \in Number
  OBVIOUS
<1>2. /\ f[0] = Clean
      /\ \A n \in 1 .. N : f[n] = CheckValue(got[n], want[n], f[n - 1])
  BY CheckedCourse
<1>3. CheckTolerance(got, want) = f[N]
  BY DEF CheckTolerance
<1> HIDE DEF N, f
<1>4. 0 \in T
  <2>1. AllClose(got, want, 0) /\ ErrorsMet(got, want, 0) = {}
    BY DEF AllClose, ErrorsMet
  <2>2. Judges(f[0], AllClose(got, want, 0), ErrorsMet(got, want, 0))
    BY <1>2, <2>1, JudgesNothing DEF Judges
  <2> QED
    BY <1>1, <2>2
<1>5. ASSUME NEW n \in 1 .. N, n - 1 \in T
      PROVE  n \in T
  <2> DEFINE ok == AllClose(got, want, n - 1)
             es == ErrorsMet(got, want, n - 1)
  <2>1. got[n] \in Number /\ want[n] \in Number /\ 1 .. n = (1 .. (n - 1)) \cup {n}
    BY <1>1
  <2>2. ok \in BOOLEAN /\ es \in SUBSET (Error \cup {NaN}) /\ Judges(f[n - 1], ok, es)
    <3>1. \A i \in 1 .. (n - 1) : got[i] \in Number /\ want[i] \in Number
      BY <1>1
    <3>2. es \in SUBSET (Error \cup {NaN})
      BY <3>1, ErrorRange DEF ErrorsMet
    <3>3. ok \in BOOLEAN
      BY DEF AllClose
    <3> QED
      BY <1>5, <3>2, <3>3
  <2>3. AllClose(got, want, n) <=> ok /\ Close(got[n], want[n])
    BY <2>1 DEF AllClose
  <2>4. ErrorsMet(got, want, n) = es \cup {Err(got[n], want[n])}
    BY <2>1 DEF ErrorsMet
  <2> HIDE DEF ok, es
  <2>5. Judges(f[n], ok /\ Close(got[n], want[n]), es \cup {Err(got[n], want[n])})
    <3>1. f[n] = CheckValue(got[n], want[n], f[n - 1])
      BY <1>2
    <3>2. Judges(CheckValue(got[n], want[n], f[n - 1]),
                 ok /\ Close(got[n], want[n]), es \cup {Err(got[n], want[n])})
      BY <2>1, <2>2, JudgesOneMore
    <3> QED
      BY <3>1, <3>2
  <2>6. Judges(f[n], AllClose(got, want, n), ErrorsMet(got, want, n))
    BY <2>3, <2>4, <2>5 DEF Judges
  <2> QED
    BY <1>1, <2>6
<1>6. N \in T
  <2>1. N \in Nat /\ CountsTo(T, N)
    BY <1>1, <1>4, <1>5 DEF CountsTo
  <2> HIDE DEF T
  <2> QED
    BY <2>1, Counting
<1> QED
  BY <1>3, <1>6 DEF N

-----------------------------------------------------------------------------
(* All outputs. *)

Fits(id, act, exp) ==
  /\ act[id].values \in Seq(Number) /\ exp[id].values \in Seq(Number)
  /\ Len(act[id].values) = Len(exp[id].values)

Near(id, act, exp) == AllClose(act[id].values, exp[id].values, Len(act[id].values))

OutputErrors(id, act, exp) == ErrorsMet(act[id].values, exp[id].values, Len(act[id].values))

LEMMA OutputTypes ==
  ASSUME NEW act, NEW exp, NEW id, Fits(id, act, exp)
  PROVE  Near(id, act, exp) \in BOOLEAN
         /\ OutputErrors(id, act, exp) \in SUBSET (Error \cup {NaN})
<1> DEFINE got == act[id].values
           want == exp[id].values
<1>1. got \in Seq(Number) /\ want \in Seq(Number) /\ Len(got) = Len(want)
  BY DEF Fits
<1> HIDE DEF got, want
<1>2. \A i \in 1 .. Len(got) : got[i] \in Number /\ want[i] \in Number
  BY <1>1
<1>3. ErrorsMet(got, want, Len(got)) \in SUBSET (Error \cup {NaN})
  BY <1>2, ErrorRange DEF ErrorsMet
<1>4. AllClose(got, want, Len(got)) \in BOOLEAN
  BY DEF AllClose
<1> QED
  BY <1>3, <1>4 DEF Near, OutputErrors, got, want

LEMMA OutputJudged ==
  ASSUME NEW act, NEW exp, NEW id, Fits(id, act, exp),
         NEW r, NEW ok \in BOOLEAN, NEW es \in SUBSET (Error \cup {NaN}), Judges(r, ok, es)
  PROVE  Judges(CompareOutput(act[id], exp[id], r),
                ok /\ Near(id, act, exp), es \cup OutputErrors(id, act, exp))
<1> DEFINE q == CheckTolerance(act[id].values, exp[id].values)
           near == Near(id, act, exp)
           fs == OutputErrors(id, act, exp)
<1>1. Judges(q, near, fs)
  BY TensorJudged DEF Fits, Near, OutputErrors
<1>2. near \in BOOLEAN /\ fs \in SUBSET (Error \cup {NaN})
  BY OutputTypes
<1>3. CompareOutput(act[id], exp[id], r)
        = ToleranceResult(r.passed /\ q.passed,
            Larger(r.max_absolute_error, q.max_absolute_error))
  BY DEF CompareOutput
<1> HIDE DEF q, near, fs
<1>4. Judges(ToleranceResult(r.passed /\ q.passed,
               Larger(r.max_absolute_error, q.max_absolute_error)),
             ok /\ near, es \cup fs)
  BY <1>1, <1>2, JudgesBoth
<1> QED
  BY <1>3, <1>4 DEF near, fs

AllNear(act, exp, order, n) == \A k \in 1 .. n : Near(order[k], act, exp)

AllErrors(act, exp, order, n) == UNION {OutputErrors(order[k], act, exp) : k \in 1 .. n}

LEMMA ComparedCourse ==
  ASSUME NEW act, NEW exp, NEW order, Len(order) \in Nat,
         \A n \in 1 .. Len(order) : Fits(order[n], act, exp)
  PROVE  LET f == Compared(act, exp, order)
         IN  /\ f[0] = Clean
             /\ \A n \in 1 .. Len(order) :
                  f[n] = CompareOutput(act[order[n]], exp[order[n]], f[n - 1])
<1> DEFINE N == Len(order)
           Visit(n, x) == CompareOutput(act[order[n]], exp[order[n]], x)
           R == {r \in Verdict : \E ok \in BOOLEAN, es \in SUBSET (Error \cup {NaN}) :
                                   Judges(r, ok, es)}
           step == [z \in R \X (1 .. N) |-> Visit(z[2], z[1])]
           Solves(f) == f = [n \in 0 .. N |-> IF n = 0 THEN Clean ELSE Visit(n, f[n - 1])]
<1>1. Clean \in R
  <2>1. TRUE \in BOOLEAN /\ {} \in SUBSET (Error \cup {NaN})
    OBVIOUS
  <2>2. Clean \in Verdict
    BY JudgesNothing DEF Judges
  <2> QED
    BY <2>1, <2>2, JudgesNothing
<1>2. ASSUME NEW n \in 1 .. N, NEW x \in R
      PROVE  Visit(n, x) \in R
  <2>1. PICK ok \in BOOLEAN, es \in SUBSET (Error \cup {NaN}) : Judges(x, ok, es)
    OBVIOUS
  <2> DEFINE near == Near(order[n], act, exp)
             fs == OutputErrors(order[n], act, exp)
  <2>2. near \in BOOLEAN /\ fs \in SUBSET (Error \cup {NaN})
    BY OutputTypes
  <2>3. Judges(Visit(n, x), ok /\ near, es \cup fs)
    BY <2>1, OutputJudged
  <2> HIDE DEF near, fs
  <2>4. (ok /\ near) \in BOOLEAN /\ es \cup fs \in SUBSET (Error \cup {NaN})
    BY <2>2
  <2>5. Visit(n, x) \in Verdict
    BY <2>3 DEF Judges
  <2> QED
    BY <2>3, <2>4, <2>5
<1> HIDE DEF R
<1>3. \A n \in 1 .. N, x \in R : step[<<x, n>>] = Visit(n, x)
  OBVIOUS
<1>4. \A n \in 1 .. N, x \in R : step[<<x, n>>] \in R
  BY <1>2, <1>3
<1> HIDE DEF step, Visit
<1>5. PICK f : Course(f, N, R, Clean, step)
  <2>1. N \in Nat
    OBVIOUS
  <2> HIDE DEF N
  <2> QED
    BY <1>1, <1>4, <2>1, LoopRuns
<1>6. Solves(f)
  <2>1. N \in Nat
    OBVIOUS
  <2> HIDE DEF N
  <2>2. \A n \in 1 .. N : f[n - 1] \in R
    BY <1>5, <2>1 DEF Course
  <2>3. \A n \in 1 .. N : f[n] = Visit(n, f[n - 1])
    BY <1>3, <1>5, <2>2 DEF Course
  <2> QED
    BY <1>5, <2>1, <2>3 DEF Course
<1>7. Compared(act, exp, order) = CHOOSE g : Solves(g)
  BY DEF Compared, Visit
<1>8. Solves(Compared(act, exp, order))
  BY <1>6, <1>7
<1>9. \A n \in 1 .. N : n \in 0 .. N /\ n # 0
  OBVIOUS
<1> QED
  BY <1>8, <1>9 DEF Visit

LEMMA AllJudged ==
  ASSUME NEW act, NEW exp, NEW order, Len(order) \in Nat,
         \A n \in 1 .. Len(order) : Fits(order[n], act, exp)
  PROVE  Judges(Compared(act, exp, order)[Len(order)],
                AllNear(act, exp, order, Len(order)), AllErrors(act, exp, order, Len(order)))
<1> DEFINE N == Len(order)
           f == Compared(act, exp, order)
           T == {n \in 0 .. N : Judges(f[n], AllNear(act, exp, order, n), AllErrors(act, exp, order, n))}
<1>1. N \in Nat /\ \A n \in 1 .. N : Fits(order[n], act, exp)
  OBVIOUS
<1>2. /\ f[0] = Clean
      /\ \A n \in 1 .. N : f[n] = CompareOutput(act[order[n]], exp[order[n]], f[n - 1])
  BY ComparedCourse
<1> HIDE DEF N, f
<1>3. 0 \in T
  <2>1. AllNear(act, exp, order, 0) /\ AllErrors(act, exp, order, 0) = {}
    BY DEF AllNear, AllErrors
  <2>2. Judges(f[0], AllNear(act, exp, order, 0), AllErrors(act, exp, order, 0))
    BY <1>2, <2>1, JudgesNothing DEF Judges
  <2> QED
    BY <1>1, <2>2
<1>4. ASSUME NEW n \in 1 .. N, n - 1 \in T
      PROVE  n \in T
  <2> DEFINE ok == AllNear(act, exp, order, n - 1)
             es == AllErrors(act, exp, order, n - 1)
             near == Near(order[n], act, exp)
             fs == OutputErrors(order[n], act, exp)
  <2>1. Fits(order[n], act, exp) /\ 1 .. n = (1 .. (n - 1)) \cup {n}
    BY <1>1
  <2>2. es \in SUBSET (Error \cup {NaN})
    <3>1. \A k \in 1 .. (n - 1) : Fits(order[k], act, exp)
      BY <1>1
    <3>2. \A k \in 1 .. (n - 1) : OutputErrors(order[k], act, exp) \in SUBSET (Error \cup {NaN})
      BY <3>1, OutputTypes
    <3> QED
      BY <3>2 DEF AllErrors
  <2>3. ok \in BOOLEAN
    BY DEF AllNear
  <2>4. Judges(f[n - 1], ok, es)
    BY <1>4
  <2>5. AllNear(act, exp, order, n) <=> ok /\ near
    BY <2>1 DEF AllNear
  <2>6. AllErrors(act, exp, order, n) = es \cup fs
    <3> DEFINE F(k) == OutputErrors(order[k], act, exp)
    <3> HIDE DEF F
    <3>1. (UNION {F(k) : k \in 1 .. n}) = (UNION {F(k) : k \in 1 .. (n - 1)}) \cup F(n)
      BY <2>1
    <3> QED
      BY <3>1 DEF AllErrors, F
  <2> HIDE DEF ok, es
  <2>7. Judges(f[n], ok /\ near, es \cup fs)
    <3>1. f[n] = CompareOutput(act[order[n]], exp[order[n]], f[n - 1])
      BY <1>2
    <3>2. Judges(CompareOutput(act[order[n]], exp[order[n]], f[n - 1]), ok /\ near, es \cup fs)
      BY <2>1, <2>2, <2>3, <2>4, OutputJudged
    <3> QED
      BY <3>1, <3>2
  <2>8. Judges(f[n], AllNear(act, exp, order, n), AllErrors(act, exp, order, n))
    BY <2>5, <2>6, <2>7 DEF Judges
  <2> QED
    BY <1>1, <2>8
<1>5. N \in T
  <2>1. N \in Nat /\ CountsTo(T, N)
    BY <1>1, <1>3, <1>4 DEF CountsTo
  <2> HIDE DEF T
  <2> QED
    BY <2>1, Counting
<1> QED
  BY <1>5 DEF N, f

LEMMA OrderCovers ==
  ASSUME NEW S, IsFiniteSet(S), NEW s \in Orders(S)
  PROVE  Len(s) \in Nat /\ {s[k] : k \in 1 .. Len(s)} = S
<1> DEFINE n == Cardinality(S)
<1>1. n \in Nat
  BY FS_CardinalityType
<1>2. s \in [1 .. n -> S] /\ \A i, j \in 1 .. n : s[i] = s[j] => i = j
  BY DEF Orders
<1>3. Cardinality(1 .. n) = n
  <2>1. Cardinality(1 .. n) = IF 1 > n THEN 0 ELSE n - 1 + 1
    BY <1>1, FS_Interval
  <2> QED
    BY <1>1, <2>1
<1> HIDE DEF n
<1>4. s \in Injection(1 .. n, S)
  BY <1>2 DEF Injection, IsInjective
<1>5. s \in Surjection(1 .. n, S)
  <2> DEFINE D == 1 .. n
  <2>1. s \in Injection(D, S) /\ Cardinality(D) = Cardinality(S)
    BY <1>3, <1>4 DEF n
  <2> HIDE DEF D
  <2>2. s \in Surjection(D, S)
    BY <2>1, FS_Injection
  <2> QED
    BY <2>2 DEF D
<1>6. \A x \in S : \E k \in 1 .. n : s[k] = x
  BY <1>5 DEF Surjection
<1>7. Len(s) = n
  BY <1>1, <1>2
<1> QED
  BY <1>1, <1>2, <1>6, <1>7

LEMMA SameInterfaceFits ==
  ASSUME actual \in Outputs, expected \in Outputs,
         SameInterface, NEW id \in DOMAIN actual
  PROVE  Fits(id, actual, expected)
BY OutputsAssumption DEF SameInterface, Fits

LEMMA VerdictOnOutputs ==
  ASSUME actual \in Outputs, expected \in Outputs, SameInterface,
         NEW order \in Orders(DOMAIN actual),
         result = CompareOutputs(actual, expected, order)
  PROVE  /\ result \in Verdict
         /\ result.passed <=> \A id \in DOMAIN actual : Near(id, actual, expected)
         /\ result.max_absolute_error \in Errors \cup {Num(0)}
         /\ result.passed => \A e \in Errors : ~Exceeds(e, result.max_absolute_error)
<1>1. IsFiniteSet(DOMAIN actual)
  BY OutputsAssumption, FS_Subset
<1>2. Len(order) \in Nat /\ {order[k] : k \in 1 .. Len(order)} = DOMAIN actual
  BY <1>1, OrderCovers
<1>3. \A n \in 1 .. Len(order) : order[n] \in DOMAIN actual /\ Fits(order[n], actual, expected)
  BY <1>2, SameInterfaceFits
<1>4. result = Compared(actual, expected, order)[Len(order)]
  BY DEF CompareOutputs, SameInterface
<1>5. Judges(result, AllNear(actual, expected, order, Len(order)), AllErrors(actual, expected, order, Len(order)))
  <2>1. Len(order) \in Nat /\ \A n \in 1 .. Len(order) : Fits(order[n], actual, expected)
    BY <1>2, <1>3
  <2>3. Judges(Compared(actual, expected, order)[Len(order)],
               AllNear(actual, expected, order, Len(order)), AllErrors(actual, expected, order, Len(order)))
    BY <2>1, AllJudged
  <2> QED
    BY <1>4, <2>3
<1>6. AllNear(actual, expected, order, Len(order)) <=> \A id \in DOMAIN actual : Near(id, actual, expected)
  BY <1>2 DEF AllNear
<1>7. AllErrors(actual, expected, order, Len(order)) = Errors
  <2>1. ASSUME NEW id \in DOMAIN actual
        PROVE  {Err(actual[id].values[i], expected[id].values[i]) : i \in DOMAIN actual[id].values}
                 = OutputErrors(id, actual, expected)
    <3>1. actual[id].values \in Seq(Number)
      BY SameInterfaceFits DEF Fits
    <3>2. DOMAIN actual[id].values = 1 .. Len(actual[id].values)
      BY <3>1
    <3> QED
      BY <3>2 DEF OutputErrors, ErrorsMet
  <2>2. Errors = UNION {OutputErrors(id, actual, expected) : id \in DOMAIN actual}
    BY <2>1 DEF Errors
  <2>3. {OutputErrors(order[k], actual, expected) : k \in 1 .. Len(order)}
          = {OutputErrors(id, actual, expected) : id \in DOMAIN actual}
    BY <1>2
  <2> QED
    BY <2>2, <2>3 DEF AllErrors
<1> QED
  BY <1>5, <1>6, <1>7 DEF Judges

Decided ==
  /\ actual \in Outputs /\ expected \in Outputs
  /\ result # None =>
       \E order \in Orders(DOMAIN actual) :
         result = CompareOutputs(actual, expected, order)

LEMMA DecidedInvariant == CompareSpec => []Decided
<1>1. CompareInit => Decided
  BY DEF CompareInit, Decided
<1>2. Decided /\ [Compare]_compareVars => Decided'
  <2> SUFFICES ASSUME Decided, [Compare]_compareVars PROVE Decided'
    OBVIOUS
  <2>1. CASE Compare
    <3>1. PICK order \in Orders(DOMAIN actual) :
            result' = CompareOutputs(actual, expected, order)
      BY <2>1 DEF Compare
    <3>2. UNCHANGED <<actual, expected>>
      BY <2>1 DEF Compare
    <3> QED
      BY <3>1, <3>2 DEF Decided
  <2>2. CASE UNCHANGED compareVars
    BY <2>2 DEF compareVars, Decided, None
  <2> QED
    BY <2>1, <2>2
<1> QED
  BY <1>1, <1>2, PTL DEF CompareSpec

(* The comparison passes exactly when the outputs are the same tensors up  *)
(* to tolerance, whatever order their dictionary lists them in.            *)
THEOREM ComparisonPasses == CompareSpec => []PassesWhenClose
<1>1. Decided => PassesWhenClose
  <2> SUFFICES ASSUME Decided, result # None
               PROVE  result.passed <=>
                        /\ SameInterface
                        /\ \A id \in DOMAIN actual : \A i \in DOMAIN actual[id].values :
                             Close(actual[id].values[i], expected[id].values[i])
    BY DEF PassesWhenClose
  <2>1. PICK order \in Orders(DOMAIN actual) :
          result = CompareOutputs(actual, expected, order)
    BY DEF Decided
  <2>2. CASE ~SameInterface
    BY <2>1, <2>2 DEF CompareOutputs, SameInterface, ToleranceResult
  <2>3. CASE SameInterface
    <3>1. result.passed <=> \A id \in DOMAIN actual : Near(id, actual, expected)
      BY <2>1, <2>3, VerdictOnOutputs DEF Decided
    <3>2. ASSUME NEW id \in DOMAIN actual
          PROVE  Near(id, actual, expected) <=>
                   \A i \in DOMAIN actual[id].values :
                     Close(actual[id].values[i], expected[id].values[i])
      <4>1. actual[id].values \in Seq(Number)
        BY <2>3, SameInterfaceFits DEF Decided, Fits
      <4>2. DOMAIN actual[id].values = 1 .. Len(actual[id].values)
        BY <4>1
      <4> QED
        BY <4>2 DEF Near, AllClose
    <3> QED
      BY <2>3, <3>1, <3>2
  <2> QED
    BY <2>2, <2>3
<1> QED
  BY <1>1, DecidedInvariant, PTL

(* The error it reports was met, is never NaN, and is the largest when the *)
(* outputs pass.                                                           *)
THEOREM ReportedError == CompareSpec => []ErrorIsMet
<1>1. Decided => ErrorIsMet
  <2> SUFFICES ASSUME Decided, result # None, SameInterface
               PROVE  LET m == result.max_absolute_error
                      IN  /\ m \in Errors \cup {Num(0)} /\ m # NaN
                          /\ result.passed => \A e \in Errors : ~Exceeds(e, m)
    BY DEF ErrorIsMet
  <2>1. PICK order \in Orders(DOMAIN actual) :
          result = CompareOutputs(actual, expected, order)
    BY DEF Decided
  <2>2. /\ result \in Verdict
        /\ result.max_absolute_error \in Errors \cup {Num(0)}
        /\ result.passed => \A e \in Errors : ~Exceeds(e, result.max_absolute_error)
    BY <2>1, VerdictOnOutputs DEF Decided
  <2>3. result.max_absolute_error # NaN
    BY <2>2, StartsClean DEF Verdict
  <2> QED
    BY <2>2, <2>3
<1> QED
  BY <1>1, DecidedInvariant, PTL

(* Outputs compared with themselves pass as long as they are finite: the   *)
(* plaintext provider, when it is one of those benchmarked, is always      *)
(* within tolerance of the reference, as RunOnce has it.                   *)
THEOREM ReferencePasses ==
  CompareSpec =>
           [](/\ result # None /\ actual = expected
              /\ \A id \in DOMAIN actual : \A i \in DOMAIN actual[id].values :
                   Finite(actual[id].values[i])
              => result.passed)
<1>1. ASSUME NEW number \in Number, Finite(number)
      PROVE  Close(number, number)
  <2> DEFINE t == 100 * AbsoluteTolerance + RelativeTolerance * Magnitude(number.n)
  <2>1. number.n \in Int
    BY DEF Number, Inf, NegInf, NaN
  <2>2. t \in Nat
    BY <2>1, ToleranceAssumption DEF Magnitude
  <2>3. Close(number, number)
          <=> -t <= 100 * (number.n - number.n) /\ 100 * (number.n - number.n) <= t
    BY <1>1 DEF Close
  <2> HIDE DEF t
  <2> QED
    BY <2>1, <2>2, <2>3
<1>2. ASSUME Decided, PassesWhenClose, result # None, actual = expected,
             \A id \in DOMAIN actual : \A i \in DOMAIN actual[id].values :
               Finite(actual[id].values[i])
      PROVE  result.passed
  <2>1. SameInterface
    BY <1>2 DEF SameInterface
  <2>2. ASSUME NEW id \in DOMAIN actual, NEW i \in DOMAIN actual[id].values
        PROVE  Close(actual[id].values[i], expected[id].values[i])
    <3> DEFINE v == actual[id].values
    <3>1. v \in Seq(Number)
      BY <1>2, <2>1, SameInterfaceFits DEF Decided, Fits
    <3>2. v[i] \in Number
      <4> HIDE DEF v
      <4> QED
        BY <2>2, <3>1 DEF v
    <3> QED
      BY <1>1, <1>2, <3>2
  <2> QED
    BY <1>2, <2>1, <2>2 DEF PassesWhenClose
<1> QED
  BY <1>2, ComparisonPasses, DecidedInvariant, PTL
=============================================================================

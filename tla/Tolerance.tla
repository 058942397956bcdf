----------------------------- MODULE Tolerance -----------------------------
(***************************************************************************)
(* compare_outputs and check_tolerance: the benchmark's comparison of      *)
(* decrypted outputs with those of the plaintext provider.  Numbers are    *)
(* integers with the infinities and NaN of floating point; that arithmetic *)
(* rounds is left out.                                                     *)
(***************************************************************************)
EXTENDS Integers, Sequences, FiniteSets

CONSTANTS
  OutputId,            \* ids of outputs
  Outputs,             \* what may be compared: functions from ids to tensors
  AbsoluteTolerance,
  RelativeTolerance    \* in hundredths

ASSUME ToleranceAssumption == AbsoluteTolerance \in Nat /\ RelativeTolerance \in Nat

-----------------------------------------------------------------------------
(* Floating point. *)

Num(n) == [kind |-> "finite", n |-> n]
Inf    == [kind |-> "inf", n |-> 1]
NegInf == [kind |-> "inf", n |-> -1]
NaN    == [kind |-> "nan", n |-> 0]

Number == [kind : {"finite"}, n : Int] \cup {Inf, NegInf, NaN}

Finite(x) == x.kind = "finite"

(* A PlainTensor has as many values as its shape has places. *)
ASSUME OutputsAssumption ==
  /\ IsFiniteSet(OutputId)
  /\ \A o \in Outputs : /\ DOMAIN o \subseteq OutputId
                        /\ \A id \in DOMAIN o : o[id].values \in Seq(Number)
  /\ \A o, q \in Outputs : \A id \in DOMAIN o \cap DOMAIN q :
       o[id].shape = q[id].shape => Len(o[id].values) = Len(q[id].values)

VARIABLES actual, expected, result

compareVars == <<actual, expected, result>>

Magnitude(n) == IF n < 0 THEN -n ELSE n

(* abs(got - want) *)
Err(got, want) ==
  IF got.kind = "nan" \/ want.kind = "nan" \/ (got.kind = "inf" /\ got = want) THEN NaN
  ELSE IF got.kind = "inf" \/ want.kind = "inf" THEN Inf
  ELSE Num(Magnitude(got.n - want.n))

(* x > y for errors: never of a NaN *)
Exceeds(x, y) ==
  /\ x.kind # "nan" /\ y.kind # "nan" /\ y.kind # "inf"
  /\ x.kind = "inf" \/ x.n > y.n

(* Fault: the arguments of max are swapped, and a NaN is kept. *)
LargerSwapped(x, y) == IF Exceeds(x, y) THEN x ELSE y

(* Python's max, which keeps its first argument unless the second exceeds it. *)
Larger(x, y) == IF Exceeds(y, x) THEN y ELSE x

-----------------------------------------------------------------------------
(* The comparison. *)

ToleranceResult(passed, error) == [passed |-> passed, max_absolute_error |-> error]

(* Fault: an error that is not finite is compared like any other, so that  *)
(* a NaN does not exceed the tolerance.                                    *)
TooLargeUnlessNaN(err, want) ==
  \/ err.kind = "inf"
  \/ Finite(err) /\ 100 * err.n > 100 * AbsoluteTolerance + RelativeTolerance * Magnitude(want.n)

TooLarge(err, want) ==
  \/ ~Finite(err)
  \/ 100 * err.n > 100 * AbsoluteTolerance + RelativeTolerance * Magnitude(want.n)

Clean == ToleranceResult(TRUE, Num(0))

(* The loop returns at the first value that is too far off. *)
CheckValue(got, want, so_far) ==
  IF ~so_far.passed THEN so_far
  ELSE ToleranceResult(~TooLarge(Err(got, want), want),
                       Larger(so_far.max_absolute_error, Err(got, want)))

Checked(got, want) ==
  LET so_far[n \in 0 .. Len(got)] ==
        IF n = 0 THEN Clean ELSE CheckValue(got[n], want[n], so_far[n - 1])
  IN  so_far

CheckTolerance(got, want) ==
  IF Len(got) # Len(want) THEN ToleranceResult(FALSE, Inf) ELSE Checked(got, want)[Len(got)]

CompareOutput(got, want, so_far) ==
  LET r == CheckTolerance(got.values, want.values)
  IN  ToleranceResult(so_far.passed /\ r.passed,
                      Larger(so_far.max_absolute_error, r.max_absolute_error))

(* order: the ids of act as the dictionary lists them. *)
Compared(act, exp, order) ==
  LET so_far[n \in 0 .. Len(order)] ==
        IF n = 0 THEN Clean ELSE CompareOutput(act[order[n]], exp[order[n]], so_far[n - 1])
  IN  so_far

CompareOutputs(act, exp, order) ==
  IF \/ DOMAIN act # DOMAIN exp
     \/ \E id \in DOMAIN act : act[id].shape # exp[id].shape
  THEN ToleranceResult(FALSE, Inf)
  ELSE Compared(act, exp, order)[Len(order)]

Orders(S) == {s \in [1 .. Cardinality(S) -> S] : \A i, j \in DOMAIN s : s[i] = s[j] => i = j}

None == [passed |-> "none"]

CompareInit == actual \in Outputs /\ expected \in Outputs /\ result = None

Compare ==
  /\ result = None
  /\ \E order \in Orders(DOMAIN actual) : result' = CompareOutputs(actual, expected, order)
  /\ UNCHANGED <<actual, expected>>

CompareSpec == CompareInit /\ [][Compare]_compareVars

-----------------------------------------------------------------------------
(* What a comparison should say. *)

SameInterface ==
  DOMAIN actual = DOMAIN expected /\ \A id \in DOMAIN actual : actual[id].shape = expected[id].shape

Errors ==
  UNION {{Err(actual[id].values[i], expected[id].values[i]) : i \in DOMAIN actual[id].values} :
           id \in DOMAIN actual}

(* Two finite numbers that differ by no more than the tolerance allows. *)
Close(got, want) ==
  /\ Finite(got) /\ Finite(want)
  /\ LET d == got.n - want.n
         t == 100 * AbsoluteTolerance + RelativeTolerance * Magnitude(want.n)
     IN  -t <= 100 * d /\ 100 * d <= t

(* The comparison passes exactly when the outputs are the same tensors up  *)
(* to tolerance.  An output that is infinite or not a number never passes, *)
(* not even one that is so in both.                                        *)
PassesWhenClose ==
  result # None =>
    (result.passed <=>
       /\ SameInterface
       /\ \A id \in DOMAIN actual : \A i \in DOMAIN actual[id].values :
            Close(actual[id].values[i], expected[id].values[i]))

(* The error reported of outputs that pass is the largest.  Of outputs     *)
(* that do not, it is an error that was met, or 0 when all errors met were *)
(* NaN; larger ones may have gone unseen.                                  *)
ErrorIsMet ==
  result # None /\ SameInterface =>
    LET m == result.max_absolute_error
    IN  /\ m \in Errors \cup {Num(0)} /\ m # NaN
        /\ result.passed => \A e \in Errors : ~Exceeds(e, m)
=============================================================================

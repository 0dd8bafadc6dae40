------------------------------- MODULE Shaping -------------------------------
(***************************************************************************)
(* The f64 shaping curves of utilities/math.rs: sigmoid_decreasing and its *)
(* variants v2, v3, asymmetric and start_offset (with round_f64), and      *)
(* concave_down_decreasing.  Each is a pure function; the specification    *)
(* is a sequence of calls, one action per curve, each recording its        *)
(* arguments and the value the code returns, so that the properties can    *)
(* compare a call with the same curve at other arguments.                  *)
(*                                                                         *)
(* Numbers are exact rationals [num, den] in lowest terms, and the IEEE    *)
(* values +inf, -inf and NaN, written with den = 0.  f64 rounding is left  *)
(* out: every operation the curves use is monotone under round-to-nearest, *)
(* and no property depends on a last bit.  libm exp is replaced by its     *)
(* Taylor polynomial 1 + d + d^2/2 below the point where the f64 result     *)
(* overflows to +inf: the curves use exp(d) only for d >= 0, and the       *)
(* properties depend only on it being 1 at 0, positive and strictly       *)
(* increasing there, which both satisfy.  libm pow is taken at integer     *)
(* powers, where it is exact.  A panic of f64::clamp (min > max) is Panic. *)
(***************************************************************************)
EXTENDS Integers

CONSTANTS
  Xs,          \* inputs x
  Mids,        \* midpoints mid
  Steepness,   \* steepness k (k_front, k_back)
  Bounds,      \* output bounds min, max
  Starts,      \* x_start of sigmoid_decreasing_start_offset
  Places,      \* round_decimal_places
  Powers,      \* power of concave_down_decreasing
  None         \* no call yet

AbsInt(n) == IF n < 0 THEN -n ELSE n

RECURSIVE Gcd(_, _)
Gcd(a, b) == IF b = 0 THEN a ELSE Gcd(b, a % b)

\* The rational n / d in lowest terms with a positive denominator.
Rat(n, d) ==
  LET s == IF d < 0 THEN -1 ELSE 1
      g == Gcd(AbsInt(n), AbsInt(d))
  IN [den |-> (s * d) \div g, num |-> (s * n) \div g]

Zero == Rat(0, 1)
One == Rat(1, 1)

\* The IEEE values that are not finite, and a panic of f64::clamp.
PosInf == [den |-> 0, num |-> 1]
NegInf == [den |-> 0, num |-> -1]
NaN == [den |-> 0, num |-> 0]
Panic == [panic |-> "min > max"]
Number == [num : Int, den : Nat \ {0}]

IsFinite(a) == a.den # 0
\* The sign of a value other than NaN; a zero is +0, as every zero here is.
Sgn(a) == IF a.num < 0 THEN -1 ELSE 1
Neg(a) == [a EXCEPT !.num = -@]
AbsR(a) == [a EXCEPT !.num = AbsInt(@)]
Inf(sign) == [den |-> 0, num |-> sign]

\* IEEE addition: NaN absorbs, inf + -inf is NaN, an infinity absorbs a finite value.
Plus(a, b) ==
  CASE a = NaN \/ b = NaN -> NaN
    [] ~IsFinite(a) /\ ~IsFinite(b) -> IF a = b THEN a ELSE NaN
    [] ~IsFinite(a) -> a
    [] ~IsFinite(b) -> b
    [] OTHER -> Rat(a.num * b.den + b.num * a.den, a.den * b.den)
Minus(a, b) == Plus(a, Neg(b))

\* IEEE multiplication: 0 * inf is NaN.
Times(a, b) ==
  CASE a = NaN \/ b = NaN -> NaN
    [] IsFinite(a) /\ IsFinite(b) -> Rat(a.num * b.num, a.den * b.den)
    [] a = Zero \/ b = Zero -> NaN
    [] OTHER -> Inf(Sgn(a) * Sgn(b))

\* IEEE division: inf / inf and 0 / 0 are NaN, x / +0 is a signed infinity.
Over(a, b) ==
  CASE a = NaN \/ b = NaN \/ (~IsFinite(a) /\ ~IsFinite(b)) \/ (a = Zero /\ b = Zero) -> NaN
    [] ~IsFinite(a) \/ b = Zero -> Inf(Sgn(a) * Sgn(b))
    [] ~IsFinite(b) -> Zero
    [] OTHER -> Rat(a.num * b.den, a.den * b.num)

\* IEEE comparisons: false whenever NaN is involved.
Lt(a, b) ==
  /\ a # NaN /\ b # NaN
  /\ IF IsFinite(a) /\ IsFinite(b) THEN a.num * b.den < b.num * a.den
     ELSE (a = NegInf /\ b # NegInf) \/ (b = PosInf /\ a # PosInf)
Le(a, b) == a # NaN /\ b # NaN /\ ~Lt(b, a)

-----------------------------------------------------------------------------
(***************************************************************************)
(* exp(d) of libm (see the header): +inf above ln(f64::MAX) =              *)
(* 709.7827..., taken as 709.78, which no d of the inputs lies between.    *)
(***************************************************************************)
ExpOverflowAt == Rat(70978, 100)
Exp(d) ==
  IF d = NaN THEN NaN
  ELSE IF Lt(ExpOverflowAt, d) THEN PosInf
  ELSE Plus(Plus(One, d), Times(Rat(1, 2), Times(d, d)))

\* pow(x, p) of libm at an integer power p >= 0 (pow(x, 0) = 1, also at 0).
PowR(x, p) == IF p = 0 THEN One ELSE Rat(x.num ^ p, x.den ^ p)

\* f64::clamp: asserts min <= max, passes NaN through, else clips.
Clamp(v, lo, hi) ==
  IF Lt(hi, lo) THEN Panic
  ELSE IF v = NaN THEN NaN
  ELSE IF Lt(v, lo) THEN lo
  ELSE IF Lt(hi, v) THEN hi
  ELSE v

\* Mutant: the two halves of the symmetric form are swapped.
SigmoidSwapped(x, mid, d) ==
  LET e == Exp(d) IN
  IF Lt(x, mid) THEN Over(One, Plus(One, e)) ELSE Over(e, Plus(One, e))

(***************************************************************************)
(* The symmetric sigmoid shared by every curve, given the exponent d the   *)
(* curve computed from |x - mid|: 1 / (1 + e^d) above mid, e^d / (1 + e^d) *)
(* at or below it.                                                         *)
(***************************************************************************)
Sigmoid(x, mid, d) ==
  LET e == Exp(d) IN
  IF Lt(mid, x) THEN Over(One, Plus(One, e)) ELSE Over(e, Plus(One, e))

\* d = k * |x - mid|
Exponent(x, mid, k) == Times(k, AbsR(Minus(x, mid)))

\* Mutant: the clamp to [min, max] is left out.
SigmoidDecreasingUnclamped(x, mid, k, lo, hi) ==
  Sigmoid(x, mid, Exponent(x, mid, k))

\* sigmoid_decreasing
SigmoidDecreasing(x, mid, k, lo, hi) ==
  Clamp(Sigmoid(x, mid, Exponent(x, mid, k)), lo, hi)

\* Mutant: d is computed from x - mid without the abs().
SigmoidDecreasingV2NoAbs(x, mid, k) ==
  Clamp(Sigmoid(x, mid, Times(k, Minus(x, mid))), Zero, One)

\* sigmoid_decreasing_v2
SigmoidDecreasingV2(x, mid, k) ==
  Clamp(Sigmoid(x, mid, Exponent(x, mid, k)), Zero, One)

\* sigmoid_decreasing_v3: min + sigmoid * (max - min), not clamped.
SigmoidDecreasingV3(x, mid, k, lo, hi) ==
  Plus(lo, Times(Sigmoid(x, mid, Exponent(x, mid, k)), Minus(hi, lo)))

\* sigmoid_decreasing_asymmetric: k_back above mid, k_front at or below.
SigmoidDecreasingAsymmetric(x, mid, kf, kb, lo, hi) ==
  LET c == AbsR(Minus(x, mid))
      d == IF Lt(mid, x) THEN Times(kb, c) ELSE Times(kf, c)
  IN Clamp(Plus(lo, Times(Minus(hi, lo), Sigmoid(x, mid, d))), lo, hi)

\* round_f64: round(value * 10^places) / 10^places, halves away from zero.
RoundF64(v, places) ==
  LET f == 10 ^ places
      p == v.num * f
      RoundPos(n, q) == (2 * n + q) \div (2 * q)
  IN IF v = Panic \/ ~IsFinite(v) THEN v
     ELSE Rat(IF p >= 0 THEN RoundPos(p, v.den) ELSE -RoundPos(-p, v.den), f)

(***************************************************************************)
(* sigmoid_decreasing_start_offset: x is mapped from [x_start, 1] onto     *)
(* [0, 1] by (x - x_start) / (1 - x_start); nothing clips an x below       *)
(* x_start, whose normalized value is negative.                            *)
(***************************************************************************)
SigmoidDecreasingStartOffset(x, mid, k, xs, places) ==
  LET range == Minus(One, xs)
      nx == Over(Minus(x, xs), range)
  IN RoundF64(Clamp(Sigmoid(nx, mid, Exponent(nx, mid, k)), Zero, One), places)

\* Mutant: the power <= 0 guard is left out.
ConcaveDownDecreasingNoGuard(x, lo, hi, power) ==
  Clamp(Plus(lo, Times(Minus(hi, lo), Minus(One, PowR(x, power)))), lo, hi)

\* Mutant: min and max are passed to clamp in the wrong order.
ConcaveDownDecreasingClampSwapped(x, lo, hi, power) ==
  LET p == IF power <= 0 THEN 1 ELSE power
  IN Clamp(Plus(lo, Times(Minus(hi, lo), Minus(One, PowR(x, p)))), hi, lo)

\* concave_down_decreasing: p = 1 for a power <= 0; 1 - x^p scaled, clamped.
ConcaveDownDecreasing(x, lo, hi, power) ==
  LET p == IF power <= 0 THEN 1 ELSE power
  IN Clamp(Plus(lo, Times(Minus(hi, lo), Minus(One, PowR(x, p)))), lo, hi)

-----------------------------------------------------------------------------
VARIABLES
  call,     \* the latest call: the curve and its arguments, or None
  result    \* what it returned

vars == <<call, result>>

\* The value of a recorded call, by curve.
Eval(c) ==
  CASE c.fn = "sigmoid_decreasing" -> SigmoidDecreasing(c.x, c.mid, c.k, c.min, c.max)
    [] c.fn = "sigmoid_decreasing_v2" -> SigmoidDecreasingV2(c.x, c.mid, c.k)
    [] c.fn = "sigmoid_decreasing_v3" -> SigmoidDecreasingV3(c.x, c.mid, c.k, c.min, c.max)
    [] c.fn = "sigmoid_decreasing_asymmetric" ->
         SigmoidDecreasingAsymmetric(c.x, c.mid, c.k, c.kb, c.min, c.max)
    [] c.fn = "sigmoid_decreasing_start_offset" ->
         SigmoidDecreasingStartOffset(c.x, c.mid, c.k, c.xs, c.places)
    [] c.fn = "concave_down_decreasing" -> ConcaveDownDecreasing(c.x, c.min, c.max, c.power)

\* Output ranges min <= max, as every doc comment describes them.
Ranges == {r \in Bounds \X Bounds : Le(r[1], r[2])}

Init ==
  /\ call = None
  /\ result = None

\* A call of curve c.fn: the caller waits for its value.
Record(c) ==
  /\ call = None
  /\ call' = c
  /\ result' = Eval(c)

\* The value is handed back to the caller, who may call again.
Return ==
  /\ call # None
  /\ call' = None
  /\ result' = None

CallSigmoidDecreasing ==
  \E x \in Xs, mid \in Mids, k \in Steepness, r \in Ranges :
    Record([fn |-> "sigmoid_decreasing", k |-> k, max |-> r[2], mid |-> mid, min |-> r[1], x |-> x])

CallSigmoidDecreasingV2 ==
  \E x \in Xs, mid \in Mids, k \in Steepness :
    Record([fn |-> "sigmoid_decreasing_v2", k |-> k, max |-> One, mid |-> mid, min |-> Zero, x |-> x])

CallSigmoidDecreasingV3 ==
  \E x \in Xs, mid \in Mids, k \in Steepness, r \in Ranges :
    Record([fn |-> "sigmoid_decreasing_v3", k |-> k, max |-> r[2], mid |-> mid, min |-> r[1], x |-> x])

CallSigmoidDecreasingAsymmetric ==
  \E x \in Xs, mid \in Mids, kf, kb \in Steepness, r \in Ranges :
    Record([fn |-> "sigmoid_decreasing_asymmetric", k |-> kf, kb |-> kb, max |-> r[2],
            mid |-> mid, min |-> r[1], x |-> x])

CallSigmoidDecreasingStartOffset ==
  \E x \in Xs, mid \in Mids, k \in Steepness, xs \in Starts, places \in Places :
    Record([fn |-> "sigmoid_decreasing_start_offset", k |-> k, max |-> One, mid |-> mid,
            min |-> Zero, places |-> places, x |-> x, xs |-> xs])

CallConcaveDownDecreasing ==
  \E x \in Xs, r \in Ranges, power \in Powers :
    Record([fn |-> "concave_down_decreasing", max |-> r[2], min |-> r[1], power |-> power, x |-> x])

Next ==
  \/ CallSigmoidDecreasing
  \/ CallSigmoidDecreasingV2
  \/ CallSigmoidDecreasingV3
  \/ CallSigmoidDecreasingAsymmetric
  \/ CallSigmoidDecreasingStartOffset
  \/ CallConcaveDownDecreasing
  \/ Return

Spec == Init /\ [][Next]_vars

-----------------------------------------------------------------------------
\* The same call at another x.
At(c, y) == [c EXCEPT !.x = y]

(***************************************************************************)
(* Every curve returns a number (no Panic from f64::clamp, no NaN) for the *)
(* ranges min <= max its doc comment describes.                            *)
(***************************************************************************)
TypeOK == result = None \/ result \in Number

(***************************************************************************)
(* "Guaranteed to be within [min, max]": every result lies in the call's   *)
(* output range, whether the curve clamps (sigmoid_decreasing,             *)
(* asymmetric, concave), maps the unit sigmoid affinely (v3) or is a unit  *)
(* curve (v2, start_offset), also for x outside [0, 1].                    *)
(***************************************************************************)
ShapeWithinRange ==
  call # None => Le(call.min, result) /\ Le(result, call.max)

(***************************************************************************)
(* The curves are decreasing: the same call at any larger x returns no     *)
(* more.  The symmetric form switches halves at mid, the asymmetric one    *)
(* also switches steepness there, start_offset rescales x and rounds, and  *)
(* concave_down_decreasing replaces a power <= 0 by 1.                     *)
(***************************************************************************)
ShapeDecreasing ==
  call # None => \A y \in Xs : Lt(call.x, y) => Le(Eval(At(call, y)), result)

(***************************************************************************)
(* "symmetric sigmoid around mid": sigmoid_decreasing_v2 at mid - t and    *)
(* mid + t adds up to 1, so it is 1/2 at mid.                              *)
(***************************************************************************)
SigmoidSymmetric ==
  call # None /\ call.fn = "sigmoid_decreasing_v2" =>
    Plus(result, Eval(At(call, Minus(Plus(call.mid, call.mid), call.x)))) = One

(***************************************************************************)
(* concave_down_decreasing: "min ... Returned when x = 1.0", "max ...     *)
(* Returned when x = 0.0", whatever power the caller passes.               *)
(***************************************************************************)
ConcaveEndpoints ==
  call # None /\ call.fn = "concave_down_decreasing" =>
    /\ Eval(At(call, Zero)) = call.max
    /\ Eval(At(call, One)) = call.min
=============================================================================

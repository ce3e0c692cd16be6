----------------------------- MODULE SoftFloat ------------------------------
(***************************************************************************)
(* Floating-point arithmetic in software (lib/builtins of compiler-rt):    *)
(* addition in the four rounding modes, multiplication, comparison, and    *)
(* the conversions between formats and between numbers and integers.       *)
(*                                                                         *)
(* A format has S significand bits and E exponent bits; a number is its    *)
(* representation, 0 .. 2^(1+E+S) - 1.  The code is the same for every     *)
(* format.  The reference is arithmetic on exact values: a finite number   *)
(* is m * 2^e with an integer m, and RoundTo rounds such a value.          *)
(***************************************************************************)
EXTENDS Integers, FiniteSetsExt

CONSTANTS
  S, E,     \* the format; E > 3, as the sum of significands needs the room
  SN, EN,   \* a narrower format to convert to and from
  I,        \* the width of an integer and of an int
  Wide,     \* the largest integer __floatdisf converts
  Scales,   \* the largest power of two __compiler_rt_scalbnX multiplies by
  Calls     \* the functions that are called

Max2(n) == 2^n - 1
Bias(e) == Max2(e) \div 2

\* In the formats of the code a subnormal of the wide one is far below the
\* least number of the narrow one, and the other way round fits; truncation
\* drops a bit to round by and at least one more.
FormatsOK ==
  /\ {S, E, SN, EN, I} \subseteq Nat \ {0}
  /\ E > 3 /\ SN + 1 < S /\ EN < E
  /\ Bias(E) - Bias(EN) + 1 > S
  /\ 2^(I - 1) > Max2(E)   \* an int holds every exponent

VARIABLES fn, a, b, mode, pc, res
vars == <<fn, a, b, mode, pc, res>>

T == 1 + E + S             \* typeWidth
Reps == 0 .. Max2(T)
ImplicitBit == 2^S
MaxExponent == Max2(E)
SignBit == 2^(T - 1)
InfRep == MaxExponent * ImplicitBit
QuietBit == 2^(S - 1)
QNan == InfRep + QuietBit

AbsOf(x) == x % SignBit
SignOf(x) == x - AbsOf(x)
Exponent(x) == AbsOf(x) \div ImplicitBit
Significand(x) == x % ImplicitBit
Quieted(x) == IF (x \div QuietBit) % 2 = 1 THEN x ELSE x + QuietBit
Bits(x) == CHOOSE k \in 0 .. 30 : x < 2^k /\ (k > 0 => 2^(k - 1) <= x)
Bit(c) == IF c THEN 1 ELSE 0

\* A right shift by k that keeps a trace of what it drops in the lowest bit.
ShiftSticky(x, k) == LET y == x \div 2^k IN IF x % 2^k # 0 /\ y % 2 = 0 THEN y + 1 ELSE y

\* normalize: a subnormal significand with its top bit in place, and the
\* exponent that goes with it.
Normalize(sig) == [sig |-> sig * 2^(S + 1 - Bits(sig)), exp |-> 1 - (S + 1 - Bits(sig))]

\* Exponent and significand with the implicit bit.
Unpack(x) ==
  IF Exponent(x) = 0 THEN Normalize(Significand(x))
  ELSE [sig |-> ImplicitBit + Significand(x), exp |-> Exponent(x)]
-----------------------------------------------------------------------------
(* __addXf3__.                                                              *)

\* One operand is zero, infinite or not a number.
AddSpecial(x, y) ==
  CASE AbsOf(x) > InfRep -> Quieted(x)
    [] AbsOf(x) <= InfRep /\ AbsOf(y) > InfRep -> Quieted(y)
    [] AbsOf(x) = InfRep /\ AbsOf(y) <= InfRep ->
         IF AbsOf(y) = InfRep /\ SignOf(x) # SignOf(y) THEN QNan ELSE x
    [] AbsOf(x) < InfRep /\ AbsOf(y) = InfRep -> y
    [] AbsOf(x) = 0 /\ AbsOf(y) = 0 -> IF x = y THEN x ELSE 0
    [] AbsOf(x) = 0 /\ AbsOf(y) \in 1 .. InfRep - 1 -> y
    [] OTHER -> x

\* Mutant: what is shifted out of the smaller operand is forgotten.
AlignedNoSticky(sig, k) == sig \div 2^k

Aligned(sig, k) == IF k < T THEN ShiftSticky(sig, k) ELSE 1

\* The rounded result, from its significand with three more bits.
Rounded(sign, exp, sig, m) ==
  LET rgs == sig % 8
      r == sign + exp * ImplicitBit + ((sig \div 8) % ImplicitBit)
  IN CASE m = "nearest" -> IF rgs > 4 THEN r + 1 ELSE IF rgs = 4 THEN r + (r % 2) ELSE r
       [] m = "down" -> IF sign # 0 /\ rgs # 0 THEN r + 1 ELSE r
       [] m = "up" -> IF sign = 0 /\ rgs # 0 THEN r + 1 ELSE r
       [] m = "zero" -> r

addXf3(x0, y0, m) ==
  LET swap == AbsOf(y0) > AbsOf(x0)
      x == IF swap THEN y0 ELSE x0
      y == IF swap THEN x0 ELSE y0
      ux == Unpack(x)   uy == Unpack(y)
      xs == ux.sig * 8  ys == Aligned(uy.sig * 8, ux.exp - uy.exp)
      sum == IF SignOf(x) # SignOf(y) THEN xs - ys ELSE xs + ys
      \* The top bit moves to its place: left after cancellation, right by one
      \* after a carry.
      up == (S + 4) - Bits(sum)
      sig == IF up >= 0 THEN sum * 2^up ELSE ShiftSticky(sum, 1)
      exp == ux.exp - up
  IN
  CASE AbsOf(x0) \notin 1 .. InfRep - 1 \/ AbsOf(y0) \notin 1 .. InfRep - 1 -> AddSpecial(x0, y0)
    [] AbsOf(x0) \in 1 .. InfRep - 1 /\ AbsOf(y0) \in 1 .. InfRep - 1 ->
         IF sum = 0 THEN 0
         ELSE IF exp >= MaxExponent THEN InfRep + SignOf(x)
         ELSE IF exp <= 0 THEN Rounded(SignOf(x), 0, ShiftSticky(sig, 1 - exp), m)
         ELSE Rounded(SignOf(x), exp, sig, m)
-----------------------------------------------------------------------------
(* __mulXf3__.                                                              *)

MulSign(x, y) == IF SignOf(x) = SignOf(y) THEN 0 ELSE SignBit

MulSpecial(x, y) ==
  CASE AbsOf(x) > InfRep -> Quieted(x)
    [] AbsOf(x) <= InfRep /\ AbsOf(y) > InfRep -> Quieted(y)
    [] AbsOf(x) <= InfRep /\ AbsOf(y) <= InfRep /\ InfRep \in {AbsOf(x), AbsOf(y)} ->
         IF 0 \in {AbsOf(x), AbsOf(y)} THEN QNan ELSE InfRep + MulSign(x, y)
    [] OTHER -> MulSign(x, y)

\* The last step, on the high and the low word of the product.
Nearest(hi, lo) ==
  IF lo > SignBit THEN hi + 1 ELSE IF lo = SignBit THEN hi + (hi % 2) ELSE hi

\* hi : lo is the product of the significands, shifted so that the implicit
\* bit is where it belongs in hi; wideRightShiftWithSticky keeps the trace.
mulXf3(x, y) ==
  LET ux == Unpack(x)   uy == Unpack(y)
      p == ux.sig * (uy.sig * 2^E)
      carried == (p \div 2^T) >= ImplicitBit
      q == IF carried THEN p ELSE 2 * p
      exp == ux.exp + uy.exp - Bias(E) + Bit(carried)
      sh == ShiftSticky(q, 1 - exp)
      sign == MulSign(x, y)
  IN
  CASE AbsOf(x) \notin 1 .. InfRep - 1 \/ AbsOf(y) \notin 1 .. InfRep - 1 -> MulSpecial(x, y)
    [] AbsOf(x) \in 1 .. InfRep - 1 /\ AbsOf(y) \in 1 .. InfRep - 1 ->
         IF exp >= MaxExponent THEN InfRep + sign
         ELSE IF 1 - exp >= T THEN sign
         ELSE IF exp <= 0 THEN Nearest((sh \div 2^T) + sign, sh % 2^T)
         ELSE Nearest(((q \div 2^T) % ImplicitBit) + exp * ImplicitBit + sign, q % 2^T)
-----------------------------------------------------------------------------
(* __leXf2__ and __geXf2__ compare the representations as integers.         *)

AsInt(x) == IF x >= SignBit THEN x - 2^T ELSE x

Compare(x, y, unordered) ==
  CASE AbsOf(x) > InfRep \/ AbsOf(y) > InfRep -> unordered
    [] AbsOf(x) = 0 /\ AbsOf(y) = 0 -> 0
    [] OTHER -> IF AsInt(x) = AsInt(y) THEN 0
                ELSE IF (AsInt(x) < AsInt(y)) = (SignOf(x) = 0 \/ SignOf(y) = 0) THEN -1 ELSE 1

leXf2(x, y) == Compare(x, y, 1)
geXf2(x, y) == Compare(x, y, -1)
-----------------------------------------------------------------------------
(* Conversions between the formats.                                         *)

TN == 1 + EN + SN
InfN == Max2(EN) * 2^SN

\* Mutant: a tie goes up.
DropBitsUp(x) ==
  LET y == x \div 2^(S - SN) IN IF x % 2^(S - SN) >= 2^(S - SN - 1) THEN y + 1 ELSE y

\* Round the last S - SN bits away, to nearest, ties to even.
DropBits(x) ==
  LET y == x \div 2^(S - SN)
      rest == x % 2^(S - SN)
      half == 2^(S - SN - 1)
  IN IF rest > half THEN y + 1 ELSE IF rest = half THEN y + (y % 2) ELSE y

truncXfYf2(x) ==
  LET ab == AbsOf(x)
      underflow == (Bias(E) + 1 - Bias(EN)) * ImplicitBit
      overflow == (Bias(E) + Max2(EN) - Bias(EN)) * ImplicitBit
      shift == Bias(E) - Bias(EN) - Exponent(x) + 1
      sig == ImplicitBit + Significand(x)
      sign == IF SignOf(x) = 0 THEN 0 ELSE 2^(TN - 1)
  IN sign +
     CASE ab \in underflow .. overflow - 1 -> DropBits(ab) - (Bias(E) - Bias(EN)) * 2^SN
       [] ab > InfRep -> InfN + 2^(SN - 1) + ((ab % QuietBit) \div 2^(S - SN))
       [] ab \in overflow .. InfRep -> InfN
       [] ab < underflow -> IF shift > S THEN 0 ELSE DropBits(ShiftSticky(sig, shift))

extendXfYf2(x) ==
  LET ab == x % 2^(TN - 1)
      sign == IF x >= 2^(TN - 1) THEN SignBit ELSE 0
      scale == SN + 1 - Bits(ab)
  IN sign +
     CASE ab \in 2^SN .. InfN - 1 -> ab * 2^(S - SN) + (Bias(E) - Bias(EN)) * ImplicitBit
       [] ab >= InfN -> InfRep + (ab % 2^SN) * 2^(S - SN)
       [] ab \in 1 .. 2^SN - 1 ->
            ab * 2^(S - SN + scale) - ImplicitBit + (Bias(E) - Bias(EN) - scale + 1) * ImplicitBit
       [] ab = 0 -> 0
-----------------------------------------------------------------------------
(* Conversions to and from integers of I bits.                              *)

SInt == -(2^(I - 1)) .. 2^(I - 1) - 1

Truncated(x) ==
  LET exp == Exponent(x) - Bias(E)
      sig == ImplicitBit + Significand(x)
  IN IF exp < S THEN sig \div 2^(S - exp) ELSE sig * 2^(exp - S)

\* A left shift into the sign bit, and its negation, are undefined.
fixint(x) ==
  LET exp == Exponent(x) - Bias(E) IN
  IF exp < 0 THEN {0}
  ELSE IF exp >= I THEN {IF SignOf(x) = 0 THEN 2^(I - 1) - 1 ELSE -(2^(I - 1))}
  ELSE IF Truncated(x) \in SInt THEN {IF SignOf(x) = 0 THEN Truncated(x) ELSE -Truncated(x)}
  ELSE SInt

fixuint(x) ==
  LET exp == Exponent(x) - Bias(E) IN
  IF SignOf(x) # 0 \/ exp < 0 THEN 0
  ELSE IF exp >= I THEN Max2(I)
  ELSE Truncated(x)

RoundCut(m, sh) ==
  LET cut == m \div 2^sh
      round == (m * 2^(T - sh)) % 2^T
  IN IF round > SignBit THEN cut + 1 ELSE IF round = SignBit THEN cut + (cut % 2) ELSE cut

\* __floatsisf, for integers as wide as the format; a carry out of the
\* significand adds to the exponent by itself.
floatsi(n) ==
  LET m == IF n < 0 THEN -n ELSE n
      exp == Bits(m) - 1
      r == IF exp <= S THEN m * 2^(S - exp) ELSE RoundCut(m, exp - S)
  IN IF n = 0 THEN 0
     ELSE r - ImplicitBit + (exp + Bias(E)) * ImplicitBit + (IF n < 0 THEN SignBit ELSE 0)

\* m with sd digits, rounded to S + 1 or S + 2: two more digits are kept, the
\* last one for all that follow, and P is or-ed into it before one is added.
Finish(m, sd) ==
  LET x == CASE sd = S + 2 -> 2 * m [] sd = S + 3 -> m [] sd > S + 3 -> ShiftSticky(m, sd - (S + 3))
      orP == IF (x \div 4) % 2 = 1 /\ x % 2 = 0 THEN x + 1 ELSE x
  IN (orP + 1) \div 4

\* __floatdisf, for wider integers.
floatdi(n) ==
  LET m == IF n < 0 THEN -n ELSE n
      sd == Bits(m)
      r == IF sd > S + 1 THEN Finish(m, sd) ELSE m * 2^(S + 1 - sd)
      carry == Bit(r >= 2 * ImplicitBit)
  IN IF n = 0 THEN 0
     ELSE ((r \div 2^carry) % ImplicitBit) + (sd - 1 + carry + Bias(E)) * ImplicitBit
          + (IF n < 0 THEN SignBit ELSE 0)
-----------------------------------------------------------------------------
(* __compiler_rt_scalbnX.                                                   *)

\* The sum in an int, saturated where it overflows.
IntMax == 2^(I - 1) - 1
SaturatedSum(exp, y) ==
  CASE exp + y > IntMax -> IntMax [] exp + y < -IntMax - 1 -> -IntMax - 1 [] OTHER -> exp + y

Factor(exp) == (IF exp + Bias(E) - 1 < 1 THEN 1 ELSE exp + Bias(E) - 1) * ImplicitBit

scalbnX(x, y) ==
  LET u == Unpack(x)
      exp == SaturatedSum(u.exp, y)
      two == (Bias(E) + 1) * ImplicitBit
  IN CASE AbsOf(x) \notin 1 .. InfRep - 1 -> x
       [] AbsOf(x) \in 1 .. InfRep - 1 ->
            IF exp >= MaxExponent
            THEN mulXf3(SignOf(x) + (MaxExponent - 1) * ImplicitBit, two)
            ELSE IF exp <= 0 THEN mulXf3(SignOf(x) + u.sig, Factor(exp))
            ELSE SignOf(x) + exp * ImplicitBit + (u.sig % ImplicitBit)
-----------------------------------------------------------------------------
(* A call.                                                                  *)

Modes == {"nearest", "down", "up", "zero"}
Ints == -(2^(T - 1)) + 1 .. 2^(T - 1) - 1   \* -a is undefined for the least int

Init ==
  /\ fn \in Calls
  /\ a \in CASE fn = "float" -> Ints [] fn = "floatdi" -> -Wide .. Wide
              [] fn = "extend" -> 0 .. Max2(TN)
              [] OTHER -> Reps
  /\ b \in CASE fn \in {"add", "mulf", "cmpf"} -> Reps [] fn = "scalbn" -> -Scales .. Scales
              [] OTHER -> {0}
  /\ mode \in IF fn = "add" THEN Modes ELSE {"nearest"}
  /\ pc = "call" /\ res = 0

Results ==
  CASE fn = "add" -> {addXf3(a, b, mode)}
    [] fn = "mulf" -> {mulXf3(a, b)}
    [] fn = "cmpf" -> {[le |-> leXf2(a, b), ge |-> geXf2(a, b)]}
    [] fn = "trunc" -> {truncXfYf2(a)}
    [] fn = "extend" -> {extendXfYf2(a)}
    [] fn = "fix" -> fixint(a)
    [] fn = "fixuns" -> {fixuint(a)}
    [] fn = "float" -> {floatsi(a)}
    [] fn = "floatdi" -> {floatdi(a)}
    [] fn = "scalbn" -> {scalbnX(a, b)}

Call == pc = "call" /\ pc' = "done" /\ res' \in Results /\ UNCHANGED <<fn, a, b, mode>>
Next == Call
Spec == Init /\ [][Next]_vars
-----------------------------------------------------------------------------
(* Exact values: a finite number of format (s, e) is IntVal(x) * 2^Least(e).   *)

Done(f) == pc = "done" /\ fn = f
NaN(x) == AbsOf(x) > InfRep
Finite(x) == AbsOf(x) < InfRep

Least(s, e) == 1 - Bias(e) - s
MagnitudeIn(s, e, ab) ==
  LET exp == ab \div 2^s IN
  IF exp = 0 THEN ab ELSE (2^s + (ab % 2^s)) * 2^(exp - 1)
IntVal(x) == LET m == MagnitudeIn(S, E, AbsOf(x)) IN IF SignOf(x) = 0 THEN m ELSE -m

\* The representation in format (s, e) of m * 2^k rounded, for m > 0: the
\* units of the last place, then the count of them.  It may be infinite.
RoundTo(s, e, m, k, neg, how) ==
  LET u0 == Bits(m) + k - (s + 1)
      u == IF u0 < Least(s, e) THEN Least(s, e) ELSE u0
      n == IF k >= u THEN m * 2^(k - u) ELSE m \div 2^(u - k)
      rest == IF k >= u THEN 0 ELSE m % 2^(u - k)
      twice == IF k >= u THEN 0 ELSE 2 * rest - 2^(u - k)
      up == CASE how = "nearest" -> twice > 0 \/ (twice = 0 /\ k < u /\ n % 2 = 1)
              [] how = "down" -> neg /\ rest # 0
              [] how = "up" -> ~neg /\ rest # 0
              [] how = "zero" -> FALSE
      c == n + Bit(up)
      rep == c + (u - Least(s, e)) * 2^s
  IN IF rep > Max2(e) * 2^s THEN Max2(e) * 2^s ELSE rep

\* The sum is the exact sum, rounded as the mode says; where the directed
\* modes overflow it is infinite, and x - x is +0.
SumRounded ==
  Done("add") =>
    /\ NaN(a) \/ NaN(b) => NaN(res)
    /\ Finite(a) /\ Finite(b) =>
         LET v == IntVal(a) + IntVal(b)
             m == IF v < 0 THEN -v ELSE v
         IN IF v = 0 THEN res = IF a = b /\ a = SignBit THEN SignBit ELSE 0
            ELSE /\ AbsOf(res) = RoundTo(S, E, m, Least(S, E), v < 0, mode)
                 /\ SignOf(res) = IF v < 0 THEN SignBit ELSE 0

\* The product is the exact product, rounded to nearest, with the product of
\* the signs, through subnormal operands and results.
ProductRounded ==
  Done("mulf") =>
    /\ NaN(a) \/ NaN(b) => NaN(res)
    /\ Finite(a) /\ Finite(b) =>
         LET ua == Unpack(a)  ub == Unpack(b) IN
         /\ SignOf(res) = MulSign(a, b)
         /\ AbsOf(res) = IF 0 \in {AbsOf(a), AbsOf(b)} THEN 0
                         ELSE RoundTo(S, E, ua.sig * ub.sig, ua.exp + ub.exp - 2 * (Bias(E) + S), FALSE, "nearest")

\* The integer comparisons order finite and infinite numbers by value, make
\* the zeros equal, and answer a NaN so that neither <= nor >= holds.
OrderAgrees ==
  Done("cmpf") =>
    IF NaN(a) \/ NaN(b) THEN res.le > 0 /\ res.ge < 0
    ELSE /\ (res.le <= 0) = (IntVal(a) <= IntVal(b))
         /\ (res.ge >= 0) = (IntVal(a) >= IntVal(b))

\* Extension is exact, and truncation gives every extended number back.
ExtendExact ==
  Done("extend") =>
    LET ab == a % 2^(TN - 1) IN
    /\ ab < InfN => MagnitudeIn(S, E, AbsOf(res)) = MagnitudeIn(SN, EN, ab) * 2^(Least(SN, EN) - Least(S, E))
    /\ (ab <= InfN \/ (ab \div 2^(SN - 1)) % 2 = 1) => truncXfYf2(res) = a

\* Truncation rounds the exact value to nearest in the narrow format,
\* subnormal results and the carry into infinity included.
TruncRounded ==
  Done("trunc") /\ Finite(a) =>
    res = (IF SignOf(a) = 0 THEN 0 ELSE 2^(TN - 1))
          + IF AbsOf(a) = 0 THEN 0
            ELSE LET u == Unpack(a) IN RoundTo(SN, EN, u.sig, u.exp - Bias(E) - S, FALSE, "nearest")

\* The value of x, truncated to an integer.
Whole(x) ==
  LET m == MagnitudeIn(S, E, AbsOf(x)) \div 2^(-Least(S, E)) IN IF SignOf(x) = 0 THEN m ELSE -m

\* Conversions to integers truncate, where the value fits; the one to
\* unsigned saturates, at 2^I exactly, and so does the one to signed, which
\* compares with the same width: between 2^(I - 1) and 2^I it does not.
FixTruncates ==
  /\ Done("fix") /\ Finite(a) /\ Whole(a) \in SInt \ {-(2^(I - 1))} => res = Whole(a)
  /\ Done("fix") /\ Finite(a) /\ (Whole(a) >= 2^I \/ Whole(a) <= -(2^I)) =>
       res = IF SignOf(a) = 0 THEN 2^(I - 1) - 1 ELSE -(2^(I - 1))
  /\ Done("fixuns") /\ Finite(a) =>
       res = IF Whole(a) < 0 THEN 0 ELSE IF Whole(a) > Max2(I) THEN Max2(I) ELSE Whole(a)

\* The conversion from an integer is its value rounded to nearest.
FloatRounded ==
  (Done("float") \/ Done("floatdi")) /\ a # 0 =>
    /\ AbsOf(res) = RoundTo(S, E, IF a < 0 THEN -a ELSE a, 0, a < 0, "nearest")
    /\ SignOf(res) = IF a < 0 THEN SignBit ELSE 0

\* Scaling by a power of two is exact up to one rounding, also when it goes
\* from or to a subnormal number, and where it overflows it is infinite.
ScaleRounded ==
  Done("scalbn") /\ Finite(a) /\ AbsOf(a) # 0 =>
    LET u == Unpack(a) IN
    res = SignOf(a) + RoundTo(S, E, u.sig, u.exp + b - (Bias(E) + S), FALSE, "nearest")
=============================================================================

------------------------------- MODULE Divide -------------------------------
(***************************************************************************)
(* The integer division of compiler-rt for words of N bits.  In            *)
(* int_div_impl.inc, __udivXi3 and __umodXi3 share their loop, and         *)
(* __divXi3 calls the first on absolute values; __modsi3 multiplies back   *)
(* what __divsi3 returns, and __udivmodsi4 what __udivsi3 returns.         *)
(* A word is a number in 0 .. 2^N - 1; a signed one is in two's complement.*)
(***************************************************************************)
EXTENDS Integers

CONSTANTS
  N,    \* bits in a word
  pow2  \* pow2[k] is 2^k

ASSUME WidthOK ==
  /\ N \in Nat /\ N >= 2
  /\ pow2 \in [0 .. N -> Nat \ {0}]
  /\ pow2[0] = 1 /\ pow2[1] = 2
  /\ \A j, k \in 0 .. N : j + k \in 0 .. N => pow2[j + k] = pow2[j] * pow2[k]

VARIABLES
  fn,     \* the function that was called
  a, b,   \* its arguments
  pc,     \* where it is
  n, d,   \* the locals of __udivXi3 and __umodXi3
  r, sr, carry,
  res,    \* what the function returns
  rem     \* what __udivmodsi4 stores in *rem

vars == <<fn, a, b, pc, n, d, r, sr, carry, res, rem>>

Word == 0 .. pow2[N] - 1
Half == pow2[N - 1]
Fns == {"udiv", "umod", "div", "mod", "udivmod"}

Wrap(x) == x % pow2[N]
Negative(x) == x >= Half

Negate(x) == Wrap(pow2[N] - x)

\* (x ^ s) + (-s), where s is -1 if x is negative and 0 if it is not.
Magnitude(x) == IF Negative(x) THEN Negate(x) ELSE x

\* The value of a word in two's complement.
Signed(x) == IF Negative(x) THEN x - pow2[N] ELSE x

\* x has k significant bits: clz(x) is N - k, and N - k also if x is 0.
SignificantBits(x, k) == x < pow2[k] /\ (k > 0 => pow2[k - 1] <= x)

\* Mutant: the comparison without the - 1.
BorrowStrict(x) == IF Negative(Wrap(d - x)) THEN 1 ELSE 0

\* The sign bit of d - x - 1, that is s & 1.
Borrow(x) == IF Negative(Wrap(d - x - 1)) THEN 1 ELSE 0

Init ==
  /\ fn \in Fns
  /\ a \in Word /\ b \in Word
  /\ pc = "enter"
  /\ n = 0 /\ d = 0 /\ r = 0 /\ sr = 0 /\ carry = 0 /\ res = 0 /\ rem = 0

\* __divXi3 passes on absolute values, the other functions their arguments.
Enter ==
  /\ pc = "enter"
  /\ n' = IF fn \in {"div", "mod"} THEN Magnitude(a) ELSE a
  /\ d' = IF fn \in {"div", "mod"} THEN Magnitude(b) ELSE b
  /\ pc' = "shift"
  /\ UNCHANGED <<fn, a, b, r, sr, carry, res, rem>>

\* Mutant: the sign of the dividend alone.
FlipsWithDividend == fn \in {"div", "mod"} /\ Negative(a)

\* The end of __divXi3: the quotient has the product of the signs.
Flips == fn \in {"div", "mod"} /\ Negative(a) # Negative(b)
Signs(x) == IF Flips THEN Negate(x) ELSE x

Fits(v) == v \in -Half .. Half - 1

\* a - q * b in signed words; when that overflows it is undefined.
MultiplyBack(q) ==
  LET p == Signed(q) * Signed(b)
      v == Signed(a) - p
  IN  IF Fits(p) /\ Fits(v) THEN {Wrap(v)} ELSE Word

\* What a function makes of what the unsigned division returns.
Return(x) ==
  /\ res' \in IF fn = "mod" THEN MultiplyBack(Signs(x)) ELSE {Signs(x)}
  /\ rem' = IF fn = "udivmod" THEN Wrap(a - x * b) ELSE 0
  /\ pc' = "done"

Quotient == fn # "umod"

\* sr is unsigned: a negative difference is very large.
TooShort(x) == x < 0 \/ x > N - 1

\* clz, the two early returns, and the first shift.
Shift ==
  /\ pc = "shift"
  /\ \E i, j \in 0 .. N :
       /\ SignificantBits(n, i) /\ SignificantBits(d, j)
       /\ LET k == i - j IN
          \/ /\ TooShort(k)
             /\ Return(IF Quotient THEN 0 ELSE n)
             /\ UNCHANGED <<n, r, sr, carry>>
          \/ /\ k = N - 1
             /\ Return(IF Quotient THEN n ELSE 0)
             /\ UNCHANGED <<n, r, sr, carry>>
          \/ /\ k \in 0 .. N - 2
             /\ sr' = k + 1
             /\ r' = n \div pow2[k + 1]
             /\ n' = Wrap(n * pow2[N - (k + 1)])
             /\ carry' = 0
             /\ pc' = "loop"
             /\ UNCHANGED <<res, rem>>
  /\ UNCHANGED <<fn, a, b, d>>

\* The next remainder before the subtraction: (r << 1) | (n >> (N - 1)).
Shifted == Wrap(2 * r + n \div Half)

\* One turn of the loop.
Iterate ==
  /\ pc = "loop" /\ sr > 0
  /\ n' = Wrap(2 * n + carry)
  /\ carry' = Borrow(Shifted)
  /\ r' = Wrap(Shifted - Borrow(Shifted) * d)
  /\ sr' = sr - 1
  /\ UNCHANGED <<fn, a, b, pc, d, res, rem>>

Finish ==
  /\ pc = "loop" /\ sr = 0
  /\ Return(IF Quotient THEN Wrap(2 * n + carry) ELSE r)
  /\ UNCHANGED <<fn, a, b, n, d, r, sr, carry>>

Done == pc = "done" /\ UNCHANGED vars

Next == Enter \/ Shift \/ Iterate \/ Finish \/ Done

Spec == Init /\ [][Next]_vars
-----------------------------------------------------------------------------
\* Every variable of the division functions is a word, but for the bit counter
\* sr and the bit carry.
TypeOK ==
  /\ fn \in Fns /\ pc \in {"enter", "shift", "loop", "done"}
  /\ a \in Word /\ b \in Word /\ n \in Word /\ d \in Word /\ r \in Word
  /\ res \in Word /\ rem \in Word
  /\ sr \in 0 .. N - 1 /\ carry \in {0, 1}

\* The branch-free comparison is exact whenever the loop makes it: the sign of
\* d - r - 1 says whether r >= d, though the difference of two words need not
\* fit in a signed word.
ComparisonExact ==
  pc = "loop" /\ sr > 0 /\ d # 0 => (Borrow(Shifted) = 1 <=> Shifted >= d)

\* The value that a word stands for in the function that was called.
Value(x) == IF fn \in {"div", "mod"} THEN Signed(x) ELSE x

\* q is the quotient of x by y, truncated towards zero, and m the remainder.
Truncates(x, y, q, m) ==
  /\ x = q * y + m
  /\ m < (IF y < 0 THEN -y ELSE y) /\ -m < (IF y < 0 THEN -y ELSE y)
  /\ x >= 0 => m >= 0
  /\ x <= 0 => m <= 0

\* z is the quotient of x by y, or wraps round: the least word divided by -1.
IsQuotient(x, y, z) ==
  Truncates(x, y, z, x - z * y) \/ (x = -Half /\ y = -1 /\ z = -Half)

IsRemainder(x, y, z) == \E q \in -pow2[N] .. pow2[N] : Truncates(x, y, q, z)

\* What the functions return, for every divisor but 0: the quotient truncated
\* towards zero, or the remainder, which has the sign of the dividend.  The least
\* word modulo -1 overflows, and is left open.
ResultCorrect ==
  pc = "done" /\ b # 0 =>
    LET x == Value(a)
        y == Value(b)
    IN  /\ fn \in {"udiv", "div", "udivmod"} => IsQuotient(x, y, Value(res))
        /\ fn = "umod" => IsRemainder(x, y, Value(res))
        /\ fn = "mod" => IsRemainder(x, y, Value(res)) \/ (x = -Half /\ y = -1)
        /\ fn = "udivmod" => IsRemainder(x, y, Value(rem))
=============================================================================

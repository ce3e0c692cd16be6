------------------------------ MODULE WideInt -------------------------------
(***************************************************************************)
(* Integer arithmetic of compiler-rt on values made of two words of W bits *)
(* (lib/builtins): division (udivmoddi4.c, udivmodti4.c and the functions  *)
(* on top of them), multiplication, shifts, comparison, bit counts, and    *)
(* the arithmetic that traps on overflow or reports it.                    *)
(*                                                                         *)
(* The text of the functions for di_int (words of 32 bits) and ti_int      *)
(* (words of 64 bits) is the same; where it is not, there is one operator  *)
(* for each.  A value is a number in 0 .. 2^(2W) - 1, in two's complement  *)
(* if it is signed.  Every function is called once on chosen arguments,    *)
(* and its result compared with what the comment above it says.            *)
(***************************************************************************)
EXTENDS Integers, FiniteSetsExt

CONSTANTS
  W,     \* bits in a word; even, for the halves of a word
  Calls  \* the functions that are called

WordOK == W \in Nat /\ W >= 2 /\ W % 2 = 0

VARIABLES fn, a, b, pc, res
vars == <<fn, a, b, pc, res>>

D == 2 * W                    \* bits in a value
Word == 0 .. 2^W - 1
Wide == 0 .. 2^D - 1
High(x) == x \div 2^W
Low(x) == x % 2^W
All(h, l) == h * 2^W + l
Cut(x, n) == x % 2^n
Shl(x, k, n) == Cut(x * 2^k, n)
Shr(x, k) == x \div 2^k

Negative(x) == x >= 2^(D - 1)
Signed(x) == IF Negative(x) THEN x - 2^D ELSE x
Neg(x) == Cut(2^D - x, D)
Fits(v) == v \in -(2^(D - 1)) .. 2^(D - 1) - 1
MIN == 2^(D - 1)
Trap == -1   \* compilerrt_abort, where a value is expected

Bits(x, n) == CHOOSE k \in 0 .. n : x < 2^k /\ (k > 0 => 2^(k - 1) <= x)
Clz(x) == W - Bits(x, W)
Ctz(x) == CHOOSE k \in 0 .. W - 1 : x % 2^k = 0 /\ Shr(x, k) % 2 = 1
PowerOf2(x) == \E k \in 0 .. W - 1 : x = 2^k
-----------------------------------------------------------------------------
(* __udivmoddi4.                                                            *)

\* Mutant: no case of its own for a shift by one word.
SplitAtNoEqual(n, sr) ==
  IF sr <= W
  THEN [q |-> All(Shl(Low(n), W - sr, W), 0),
        r |-> All(Shr(High(n), sr), Cut(Shl(High(n), W - (sr % W), W) + Shr(Low(n), sr), W))]
  ELSE [q |-> All(Cut(Shl(High(n), D - sr, W) + Shr(Low(n), sr - W), W), Shl(Low(n), D - sr, W)),
        r |-> Shr(High(n), sr - W)]

\* q = n << (D - sr) and r = n >> sr, put together from words.
SplitAt(n, sr) ==
  CASE sr = W -> [q |-> All(Low(n), 0), r |-> High(n)]
    [] sr < W -> [q |-> All(Shl(Low(n), W - sr, W), 0),
                  r |-> All(Shr(High(n), sr), Shl(High(n), W - sr, W) + Shr(Low(n), sr))]
    [] OTHER -> [q |-> All(Shl(High(n), D - sr, W) + Shr(Low(n), sr - W), Shl(Low(n), D - sr, W)),
                 r |-> Shr(High(n), sr - W)]

\* One turn of the loop: shift r:q with the carry, compare by the sign bit.
Turn(st, d) ==
  LET r == Cut(2 * st.r + Shr(st.q, D - 1), D)
      q == Cut(2 * st.q, D) + st.carry
      s == Negative(Cut(d - r - 1, D))
  IN [q |-> q, r |-> IF s THEN Cut(r - d, D) ELSE r, carry |-> IF s THEN 1 ELSE 0]

Loop(n, d, sr) ==
  LET s0 == SplitAt(n, sr)
      turns[i \in 0 .. sr] ==
        IF i = 0 THEN [q |-> s0.q, r |-> s0.r, carry |-> 0] ELSE Turn(turns[i - 1], d)
      last == turns[sr]
  IN [q |-> Cut(2 * last.q, D) + last.carry, r |-> last.r]

\* The cases on which words of n and d are zero; sr is unsigned.
udivmoddi4(n, d) ==
  LET nh == High(n)  nl == Low(n)  dh == High(d)  dl == Low(d)
      gap == Clz(dh) - Clz(nh)
      Quick(q, r) == [q |-> q, r |-> r]
  IN
  CASE nh = 0 /\ dh = 0 -> Quick(nl \div dl, nl % dl)
    [] nh = 0 /\ dh # 0 -> Quick(0, nl)
    [] nh # 0 /\ dl = 0 /\ nl = 0 -> Quick(nh \div dh, All(nh % dh, 0))
    [] nh # 0 /\ dl = 0 /\ nl # 0 ->
         IF PowerOf2(dh) THEN Quick(Shr(nh, Ctz(dh)), All(nh % dh, nl))
         ELSE IF gap < 0 \/ gap > W - 2 THEN Quick(0, n)
         ELSE Loop(n, d, gap + 1)
    [] nh # 0 /\ dl # 0 /\ dh = 0 ->
         IF dl = 1 THEN Quick(n, 0)
         ELSE IF PowerOf2(dl)
         THEN LET sr == Ctz(dl) IN
              Quick(All(Shr(nh, sr), Shl(nh, W - sr, W) + Shr(nl, sr)), nl % dl)
         ELSE Loop(n, d, 1 + W + Clz(dl) - Clz(nh))
    [] OTHER ->
         IF gap < 0 \/ gap > W - 1 THEN Quick(0, n) ELSE Loop(n, d, gap + 1)
-----------------------------------------------------------------------------
(* __udivmodti4.                                                            *)

Base == 2^(W \div 2)   \* b, the base of the digits that make up a word

\* How often the loop takes one from a digit that was estimated too large.
Corrections(u, vn1, vn0, un) ==
  LET q(k) == (u \div vn1) - k
      rhat(k) == (u % vn1) + k * vn1
  IN Min({k \in 0 .. Base : \/ k > 0 /\ rhat(k) >= Base
                            \/ ~(q(k) >= Base \/ Cut(q(k) * vn0, W) > Cut(Base * rhat(k) + un, W))})

\* A digit of the quotient of u : un by vn1 : vn0.
Digit(u, vn1, vn0, un) == (u \div vn1) - Corrections(u, vn1, vn0, un)

\* The shift that normalizes a divisor.
Normalize(v) == Clz(v)

\* The quotient fits in a word, because u1 < v.
udiv128by64to64default(u1, u0, v0) ==
  LET s == Normalize(v0)
      v == Shl(v0, s, W)
      un64 == IF s > 0 THEN Shl(u1, s, W) + Shr(u0, W - s) ELSE u1
      un10 == Shl(u0, s, W)
      vn1 == v \div Base   vn0 == v % Base
      un1 == un10 \div Base   un0 == un10 % Base
      q1 == Digit(un64, vn1, vn0, un1)
      un21 == Cut(un64 * Base + un1 - q1 * v, W)
      q0 == Digit(un21, vn1, vn0, un0)
  IN [q |-> Cut(q1 * Base + q0, W),
      r |-> Shr(Cut(un21 * Base + un0 - q0 * v, W), s),
      most |-> Max({Corrections(un64, vn1, vn0, un1), Corrections(un21, vn1, vn0, un0)})]

\* Subtract the divisor, shifted down from where its top bit is the dividend's.
ShiftSubtract(n, d) ==
  LET shift == Clz(High(d)) - Clz(High(n))
      turns[i \in 0 .. shift + 1] ==
        IF i = 0 THEN [n |-> n, d |-> Shl(d, shift, D), q |-> 0]
        ELSE LET p == turns[i - 1]
                 s == Negative(Cut(p.d - p.n - 1, D))
             IN [n |-> IF s THEN Cut(p.n - p.d, D) ELSE p.n, d |-> Shr(p.d, 1),
                 q |-> Shl(p.q, 1, W) + (IF s THEN 1 ELSE 0)]
  IN [q |-> turns[shift + 1].q, r |-> turns[shift + 1].n]

udivmodti4(n, d) ==
  CASE d > n -> [q |-> 0, r |-> n]
    [] d <= n /\ High(d) = 0 ->
         LET qh == High(n) \div Low(d)
             lo == udiv128by64to64default(High(n) % Low(d), Low(n), Low(d))
         IN [q |-> All(qh, lo.q), r |-> lo.r]
    [] OTHER -> ShiftSubtract(n, d)
-----------------------------------------------------------------------------
(* Signed division.                                                         *)

Magnitude(x) == IF Negative(x) THEN Neg(x) ELSE x

Flip(x, neg) == IF neg THEN Neg(x) ELSE x

\* __divXi3 and __modXi3 of int_div_impl.inc, in unsigned arithmetic.
divXi3(n, d) == Flip(udivmoddi4(Magnitude(n), Magnitude(d)).q, Negative(n) # Negative(d))

modXi3(n, d) == Flip(udivmoddi4(Magnitude(n), Magnitude(d)).r, Negative(n))

\* __divmoddi4 and __divmodti4 negate in signed arithmetic: undefined for MIN.
Negations(x) == IF x = MIN THEN Wide ELSE {Magnitude(x)}

\* One divides by __udivmoddi4, the other by __udivmodti4.
divmod(n, d) ==
  {[q |-> Flip(u.q, Negative(n) # Negative(d)), r |-> Flip(u.r, Negative(n))] :
     u \in UNION {{udivmoddi4(x, y), udivmodti4(x, y)} : x \in Negations(n), y \in Negations(d) \ {0}}}
-----------------------------------------------------------------------------
(* Multiplication.                                                          *)

\* The product of two words, from the products of their halves.
muldsi3(x, y) ==
  LET xh == x \div Base  xl == x % Base  yh == y \div Base  yl == y % Base
      l1 == Cut(xl * yl, W)
      t1 == Cut(l1 \div Base + xh * yl, W)
      l2 == (l1 % Base) + (t1 % Base) * Base
      t2 == Cut(l2 \div Base + yh * xl, W)
      l3 == (l2 % Base) + (t2 % Base) * Base
  IN All(Cut(t1 \div Base + t2 \div Base + xh * yh, W), l3)

muldi3(x, y) ==
  LET r == muldsi3(Low(x), Low(y))
  IN All(Cut(High(r) + High(x) * Low(y) + Low(x) * High(y), W), Low(r))

Abs(v) == IF v < 0 THEN -v ELSE v
TruncDiv(v, w) == IF (v < 0) = (w < 0) THEN Abs(v) \div Abs(w) ELSE -(Abs(v) \div Abs(w))

\* Mutant: the bound for a negative product is the positive one.
overflowsTight(x, y) ==
  LET v == Signed(x)  w == Signed(y) IN
  IF x = MIN THEN w \notin {0, 1}
  ELSE IF y = MIN THEN v \notin {0, 1}
  ELSE Abs(v) >= 2 /\ Abs(w) >= 2 /\ Abs(v) > (2^(D - 1) - 1) \div Abs(w)

\* The tests of __muloXi4 and __mulvXi3, which do not multiply.
overflows(x, y) ==
  LET v == Signed(x)  w == Signed(y) IN
  IF x = MIN THEN w \notin {0, 1}
  ELSE IF y = MIN THEN v \notin {0, 1}
  ELSE /\ Abs(v) >= 2 /\ Abs(w) >= 2
       /\ Abs(v) > IF (v < 0) = (w < 0) THEN TruncDiv(2^(D - 1) - 1, Abs(w))
                   ELSE TruncDiv(-(2^(D - 1)), -Abs(w))

mulvXi3(x, y) == IF overflows(x, y) THEN Trap ELSE Cut(Signed(x) * Signed(y), D)
-----------------------------------------------------------------------------
(* Addition, subtraction and negation that trap on overflow.                *)

addvdi3(x, y) ==
  LET s == Cut(x + y, D) IN
  IF IF Signed(y) >= 0 THEN Signed(s) < Signed(x) ELSE Signed(s) >= Signed(x) THEN Trap ELSE s

subvdi3(x, y) ==
  LET s == Cut(x - y, D) IN
  IF IF Signed(y) >= 0 THEN Signed(s) > Signed(x) ELSE Signed(s) <= Signed(x) THEN Trap ELSE s

negvdi2(x) == IF x = MIN THEN Trap ELSE Neg(x)
absvdi2(x) == IF x = MIN THEN Trap ELSE Magnitude(x)
-----------------------------------------------------------------------------
(* Shifts, comparisons and bit counts.                                      *)

ashldi3(x, k) ==
  IF k >= W THEN All(Shl(Low(x), k - W, W), 0)
  ELSE IF k = 0 THEN x
  ELSE All(Cut(Shl(High(x), k, W) + Shr(Low(x), W - k), W), Shl(Low(x), k, W))

lshrdi3(x, k) ==
  IF k >= W THEN Shr(High(x), k - W)
  ELSE IF k = 0 THEN x
  ELSE All(Shr(High(x), k), Shl(High(x), W - k, W) + Shr(Low(x), k))

\* An arithmetic shift of one word.
Sar(h, k) == IF h >= 2^(W - 1) THEN Cut((h - 2^W) \div 2^k, W) ELSE Shr(h, k)

ashrdi3(x, k) ==
  IF k >= W THEN All(Sar(High(x), W - 1), Sar(High(x), k - W))
  ELSE IF k = 0 THEN x
  ELSE All(Sar(High(x), k), Shl(High(x), W - k, W) + Shr(Low(x), k))

SignedWord(h) == IF h >= 2^(W - 1) THEN h - 2^W ELSE h

\* __cmpdi2 compares the high words as signed, __ucmpdi2 as unsigned.
cmpdi2(x, y) ==
  CASE SignedWord(High(x)) < SignedWord(High(y)) -> 0
    [] SignedWord(High(x)) > SignedWord(High(y)) -> 2
    [] OTHER -> IF Low(x) < Low(y) THEN 0 ELSE IF Low(x) > Low(y) THEN 2 ELSE 1

ucmpdi2(x, y) ==
  CASE High(x) < High(y) -> 0
    [] High(x) > High(y) -> 2
    [] OTHER -> IF Low(x) < Low(y) THEN 0 ELSE IF Low(x) > Low(y) THEN 2 ELSE 1

clzdi2(x) == IF High(x) = 0 THEN Clz(Low(x)) + W ELSE Clz(High(x))
ctzdi2(x) == IF Low(x) = 0 THEN Ctz(High(x)) + W ELSE Ctz(Low(x))
ffsdi2(x) ==
  CASE Low(x) = 0 /\ High(x) = 0 -> 0
    [] Low(x) = 0 /\ High(x) # 0 -> Ctz(High(x)) + 1 + W
    [] OTHER -> Ctz(Low(x)) + 1
-----------------------------------------------------------------------------
(* A call.  A divisor is not zero and a shift is shorter than a value; so   *)
(* is the argument of a count of zeros.                                     *)

Division == {"udivmoddi4", "udivmodti4", "divXi3", "divmod"}
Shifts == {"ashl", "lshr", "ashr"}

Init ==
  /\ fn \in Calls
  /\ a \in Wide
  /\ b \in IF fn \in Division THEN Wide \ {0} ELSE IF fn \in Shifts THEN 0 .. D - 1
           ELSE IF fn \in {"unary", "counts"} THEN {0} ELSE Wide
  /\ fn = "counts" => a # 0
  /\ pc = "call" /\ res = <<>>

Results ==
  CASE fn = "udivmoddi4" -> {udivmoddi4(a, b)}
    [] fn = "udivmodti4" -> {udivmodti4(a, b)}
    [] fn = "divXi3" -> {[q |-> divXi3(a, b), r |-> modXi3(a, b)]}
    [] fn = "divmod" -> divmod(a, b)
    [] fn = "mul" -> {muldi3(a, b)}
    [] fn = "mulv" -> {mulvXi3(a, b)}
    [] fn = "addv" -> {addvdi3(a, b)}
    [] fn = "subv" -> {subvdi3(a, b)}
    [] fn = "unary" -> {[neg |-> negvdi2(a), abs |-> absvdi2(a), ffs |-> ffsdi2(a)]}
    [] fn = "counts" -> {[clz |-> clzdi2(a), ctz |-> ctzdi2(a)]}
    [] fn = "ashl" -> {ashldi3(a, b)}
    [] fn = "lshr" -> {lshrdi3(a, b)}
    [] fn = "ashr" -> {ashrdi3(a, b)}
    [] fn = "cmpdi2" -> {[s |-> cmpdi2(a, b), u |-> ucmpdi2(a, b)]}

Call == pc = "call" /\ pc' = "done" /\ res' \in Results /\ UNCHANGED <<fn, a, b>>

Next == Call
Spec == Init /\ [][Next]_vars
-----------------------------------------------------------------------------
Done(f) == pc = "done" /\ fn = f

\* "Returns: a / b", "*rem = a % b": unsigned division of two-word values, by
\* the words of __udivmoddi4 and by the digits of __udivmodti4.
UnsignedDivisionExact ==
  Done("udivmoddi4") \/ Done("udivmodti4") => res = [q |-> a \div b, r |-> a % b]

\* "q1 has at most error 2. No more than 2 iterations."
AtMostTwoCorrections ==
  pc = "done" /\ fn = "udivmodti4" /\ High(b) = 0 /\ High(a) < Low(b)
    => udiv128by64to64default(High(a), Low(a), Low(b)).most <= 2

\* __divdi3 and __moddi3 round towards zero and the remainder has the sign of
\* the dividend; the least value by -1 wraps.
SignedExact ==
  Done("divXi3") =>
    /\ res.q = Cut(TruncDiv(Signed(a), Signed(b)) + 2^D, D)
    /\ Signed(res.r) = Signed(a) - TruncDiv(Signed(a), Signed(b)) * Signed(b)

\* The same of __divmoddi4 and __divmodti4 ("Returns: a / b, *rem = a % b"),
\* where neither argument is the least value, whose negation is undefined.
DivmodExactAwayFromMin ==
  Done("divmod") /\ a # MIN /\ b # MIN =>
    /\ Signed(res.q) = TruncDiv(Signed(a), Signed(b))
    /\ Signed(res.r) = Signed(a) - TruncDiv(Signed(a), Signed(b)) * Signed(b)

\* "Returns: a * b", for the product put together from halves of words.
ProductExact == Done("mul") => res = Cut(a * b, D)

\* "aborts if a * b overflows", and only then.
TrapsExactly ==
  /\ Done("mulv") => res = IF Fits(Signed(a) * Signed(b)) THEN Cut(Signed(a) * Signed(b), D) ELSE Trap
  /\ Done("addv") => res = IF Fits(Signed(a) + Signed(b)) THEN Cut(a + b, D) ELSE Trap
  /\ Done("subv") => res = IF Fits(Signed(a) - Signed(b)) THEN Cut(a - b, D) ELSE Trap
  /\ Done("unary") => /\ res.neg = (IF Fits(-Signed(a)) THEN Neg(a) ELSE Trap)
                      /\ res.abs = (IF Fits(Abs(Signed(a))) THEN Cut(Abs(Signed(a)), D) ELSE Trap)

\* The shifts, comparisons and counts over two words agree with those over
\* the whole value, at the word boundary too.
WordsAgreeWithWhole ==
  /\ Done("ashl") => res = Shl(a, b, D)
  /\ Done("lshr") => res = Shr(a, b)
  /\ Done("ashr") => Signed(res) = Signed(a) \div 2^b
  /\ Done("cmpdi2") => /\ res.s - 1 = (IF Signed(a) < Signed(b) THEN -1 ELSE IF a = b THEN 0 ELSE 1)
                    /\ res.u - 1 = (IF a < b THEN -1 ELSE IF a = b THEN 0 ELSE 1)
  /\ Done("counts") => res.clz = D - Bits(a, D) /\ a % 2^res.ctz = 0 /\ Shr(a, res.ctz) % 2 = 1
  /\ Done("unary") => IF a = 0 THEN res.ffs = 0
                      ELSE res.ffs > 0 /\ a % 2^res.ffs = 2^(res.ffs - 1)
=============================================================================

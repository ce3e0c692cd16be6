---------------------------- MODULE DivideProofs ----------------------------
(***************************************************************************)
(* The division of int_div_impl.inc is correct for words of every width.   *)
(***************************************************************************)
EXTENDS Divide, TLAPS

\* The unsigned numbers that are divided.
Dividend == IF fn \in {"div", "mod"} THEN Magnitude(a) ELSE a
Divisor  == IF fn \in {"div", "mod"} THEN Magnitude(b) ELSE b

\* The loop has sr bits of the dividend left, at the top of n; the bits of the
\* quotient but for the last, which is carry, are at its bottom.  Either the
\* divisor leaves the sign bit free, or there is but one turn, which starts from
\* a remainder with its top bit set.
LoopInv ==
  /\ d = Divisor
  /\ d # 0 =>
       /\ r < d
       /\ d <= Half \/ sr = 0 \/ (sr = 1 /\ Half <= 2 * r)
       /\ \E lo \in 0 .. pow2[sr] - 1, q \in 0 .. pow2[N - sr] - 1 :
            /\ n = lo * pow2[N - sr] + q
            /\ Dividend = ((2 * q + carry) * d + r) * pow2[sr] + lo

\* The results are what the function makes of x.
Outcome(x) ==
  /\ res \in IF fn = "mod" THEN MultiplyBack(Signs(x)) ELSE {Signs(x)}
  /\ rem = IF fn = "udivmod" THEN Wrap(a - x * b) ELSE 0

DoneInv ==
  Divisor # 0 =>
    \E q, y \in Word :
      /\ Dividend = q * Divisor + y /\ y < Divisor
      /\ Outcome(IF Quotient THEN q ELSE y)

DivInv ==
  /\ TypeOK
  /\ pc = "shift" => n = Dividend /\ d = Divisor
  /\ pc = "loop" => LoopInv
  /\ pc = "done" => DoneInv

-----------------------------------------------------------------------------
\* Division with remainder is unique.
LEMMA DivUnique ==
  ASSUME NEW m \in Nat \ {0}, NEW q \in Int, NEW y \in 0 .. m - 1,
         NEW p \in Int, NEW z \in 0 .. m - 1, q * m + y = p * m + z
  PROVE  q = p /\ y = z
<1>1. CASE q >= p + 1
  <2>1. (q - p) * m >= m BY <1>1
  <2>2. (q - p) * m = z - y BY <1>1
  <2> QED BY <2>1, <2>2
<1>2. CASE p >= q + 1
  <2>1. (p - q) * m >= m BY <1>2
  <2>2. (p - q) * m = y - z BY <1>2
  <2> QED BY <2>1, <2>2
<1> QED BY <1>1, <1>2

\* The quotient and remainder of TLA+ are those of division with remainder.
LEMMA DivMod ==
  ASSUME NEW x \in Int, NEW m \in Nat \ {0}
  PROVE  x \div m \in Int /\ x % m \in 0 .. m - 1 /\ x = m * (x \div m) + (x % m)
<1>1. x \div m \in Int OBVIOUS
<1>2. x % m \in 0 .. m - 1 OBVIOUS
<1>3. x = m * (x \div m) + (x % m) OBVIOUS
<1> QED BY <1>1, <1>2, <1>3

\* Division recovers quotient and remainder from q * m + y.
LEMMA DivModOf ==
  ASSUME NEW m \in Nat \ {0}, NEW q \in Int, NEW y \in 0 .. m - 1
  PROVE  (q * m + y) \div m = q /\ (q * m + y) % m = y
<1> DEFINE x == q * m + y
<1>1. x \in Int OBVIOUS
<1> HIDE DEF x
<1>2. x \div m \in Int /\ x % m \in 0 .. m - 1 /\ x = m * (x \div m) + (x % m) BY <1>1, DivMod
<1> DEFINE p == x \div m
           z == x % m
<1>3. p \in Int /\ z \in 0 .. m - 1 /\ x = m * p + z BY <1>2
<1> HIDE DEF p, z
<1>4. q * m + y = p * m + z BY <1>3 DEF x
<1>5. q = p /\ y = z BY <1>3, <1>4, DivUnique, Zenon
<1> QED BY <1>5 DEF x, p, z

\* The facts about powers that the proofs use.
LEMMA Powers ==
  /\ N \in Nat /\ N >= 2 /\ pow2[N] \in Nat \ {0} /\ Half \in Nat \ {0}
  /\ pow2[N] = 2 * Half
  /\ pow2[0] = 1 /\ pow2[1] = 2
  /\ \A k \in 0 .. N : pow2[k] \in Nat \ {0}
  /\ \A j, k \in 0 .. N : j + k \in 0 .. N => pow2[j + k] = pow2[j] * pow2[k]
<1>1. /\ N \in Nat /\ N >= 2
      /\ \A k \in 0 .. N : pow2[k] \in Nat \ {0}
      /\ pow2[0] = 1 /\ pow2[1] = 2
      /\ \A j, k \in 0 .. N : j + k \in 0 .. N => pow2[j + k] = pow2[j] * pow2[k]
  BY WidthOK, Zenon
<1>2. 1 \in 0 .. N /\ N - 1 \in 0 .. N /\ 1 + (N - 1) \in 0 .. N /\ 1 + (N - 1) = N /\ N \in 0 .. N
  BY <1>1
<1>3. pow2[1 + (N - 1)] = pow2[1] * pow2[N - 1]
  BY <1>1, <1>2, Zenon
<1>4. pow2[N] = 2 * pow2[N - 1]
  BY <1>1, <1>2, <1>3
<1> QED BY <1>1, <1>2, <1>4 DEF Half

\* Larger exponents, larger powers.
LEMMA Monotone ==
  ASSUME NEW j \in 0 .. N, NEW k \in 0 .. N, j <= k
  PROVE  pow2[j] <= pow2[k]
<1>1. k - j \in 0 .. N /\ j + (k - j) = k /\ j + (k - j) \in 0 .. N
  BY Powers
<1>2. pow2[j + (k - j)] = pow2[j] * pow2[k - j]
  BY <1>1, Powers
<1>3. pow2[k] = pow2[j] * pow2[k - j] /\ pow2[j] \in Nat /\ pow2[k - j] \in Nat \ {0}
  BY <1>1, <1>2, Powers, Zenon
<1> DEFINE u == pow2[j]
           v == pow2[k - j]
<1> HIDE DEF u, v
<1>4. u \in Nat /\ v \in Nat \ {0} /\ pow2[k] = u * v
  BY <1>3 DEF u, v
<1>5. u <= u * v
  BY <1>4
<1> QED BY <1>4, <1>5 DEF u

\* Arithmetic of words.
LEMMA Words ==
  ASSUME NEW x \in Word
  PROVE  /\ Wrap(x) = x
         /\ Negate(x) \in Word
         /\ Negate(x) = IF x = 0 THEN 0 ELSE pow2[N] - x
         /\ Magnitude(x) \in Word
         /\ Magnitude(x) = 0 <=> x = 0
<1> DEFINE M == pow2[N]
<1>1. M \in Nat \ {0} /\ M = 2 * Half /\ Half \in Nat \ {0}
  BY Powers
<1>2. x \in 0 .. M - 1
  BY DEF Word
<1>3. Wrap(x) = x
  <2> HIDE DEF M
  <2>1. x % M = x BY <1>1, <1>2
  <2> QED BY <2>1 DEF Wrap, M
<1>4. Negate(x) = IF x = 0 THEN 0 ELSE M - x
  <2>1. CASE x = 0
    <3> HIDE DEF M
    <3>1. (M - x) % M = 0 BY <1>1, <2>1
    <3> QED BY <2>1, <3>1 DEF Negate, Wrap, M
  <2>2. CASE x # 0
    <3> HIDE DEF M
    <3>1. (M - x) % M = M - x BY <1>1, <1>2, <2>2
    <3> QED BY <2>2, <3>1 DEF Negate, Wrap, M
  <2> QED BY <2>1, <2>2
<1>5. Negate(x) \in Word
  BY <1>1, <1>2, <1>4 DEF Word
<1> QED BY <1>1, <1>2, <1>3, <1>4, <1>5 DEF Magnitude, Negative

\* The value of the word that a function is called with.
LEMMA Arguments ==
  ASSUME TypeOK
  PROVE  Dividend \in Word /\ Divisor \in Word /\ (Divisor = 0 <=> b = 0)
<1>1. a \in Word /\ b \in Word
  BY DEF TypeOK
<1> QED BY <1>1, Words DEF Dividend, Divisor

\* The top bit of the part of the dividend that is left, when n is lo * T + q.
LEMMA TopBit ==
  ASSUME NEW P \in Nat \ {0}, NEW T \in Nat \ {0}, NEW lo \in 0 .. 2 * P - 1, NEW q \in 0 .. T - 1
  PROVE  \E t \in {0, 1}, l \in 0 .. P - 1 :
           /\ lo = t * P + l
           /\ (lo * T + q) \div (P * T) = t
           /\ 2 * (lo * T + q) = t * (2 * (P * T)) + 2 * (l * T + q)
           /\ l * T + q \in 0 .. (P * T) - 1
<1> DEFINE t == IF lo >= P THEN 1 ELSE 0
           l == lo - t * P
<1>1. t \in {0, 1} /\ l \in 0 .. P - 1 /\ lo = t * P + l
  OBVIOUS
<1> HIDE DEF t, l
<1>2. l * T + q \in 0 .. (P * T) - 1
  <2>1. l * T <= (P - 1) * T BY <1>1
  <2>2. (P - 1) * T = P * T - T OBVIOUS
  <2>3. l * T >= 0 /\ l * T \in Int BY <1>1
  <2> QED BY <2>1, <2>2, <2>3
<1>3. lo * T = t * (P * T) + l * T
  BY <1>1
<1>4. P * T \in Nat \ {0}
  OBVIOUS
<1>5. (t * (P * T) + (l * T + q)) \div (P * T) = t
  BY <1>1, <1>2, <1>4, DivModOf
<1>6. lo * T + q = t * (P * T) + (l * T + q)
  BY <1>1, <1>3
<1>7. 2 * (lo * T + q) = t * (2 * (P * T)) + 2 * (l * T + q)
  BY <1>1, <1>6
<1> QED BY <1>1, <1>2, <1>5, <1>6, <1>7

\* What a turn of the loop computes before it compares: no bit of r or n is lost
\* that is still needed.
LEMMA Turn ==
  ASSUME TypeOK, LoopInv, sr > 0, d # 0
  PROVE  \E t \in {0, 1}, l \in 0 .. pow2[sr - 1] - 1, q \in 0 .. pow2[N - sr] - 1 :
           /\ Shifted = 2 * r + t
           /\ Shifted \in Word
           /\ Wrap(2 * n + carry) = l * pow2[N - (sr - 1)] + (2 * q + carry)
           /\ 2 * q + carry \in 0 .. pow2[N - (sr - 1)] - 1
           /\ Dividend = ((2 * (2 * q + carry)) * d + (2 * r + t)) * pow2[sr - 1] + l
<1> DEFINE P == pow2[sr - 1]
           T == pow2[N - sr]
<1>1. /\ sr \in 1 .. N - 1 /\ carry \in {0, 1} /\ r \in Nat /\ d \in Nat /\ n \in Nat
      /\ sr - 1 \in 0 .. N /\ N - sr \in 0 .. N /\ N - (sr - 1) \in 0 .. N /\ sr \in 0 .. N
      /\ 1 \in 0 .. N /\ 1 + (sr - 1) \in 0 .. N /\ 1 + (N - sr) \in 0 .. N
      /\ (sr - 1) + (N - sr) \in 0 .. N
  BY Powers DEF TypeOK, Word
<1>2. P \in Nat \ {0} /\ T \in Nat \ {0}
  BY <1>1, Powers, Zenon
<1>3. pow2[sr] = 2 * P /\ pow2[N - (sr - 1)] = 2 * T /\ Half = P * T
  <2>1. pow2[1 + (sr - 1)] = pow2[1] * pow2[sr - 1]
    BY <1>1, Powers, Zenon
  <2>2. pow2[1 + (N - sr)] = pow2[1] * pow2[N - sr]
    BY <1>1, Powers, Zenon
  <2>3. pow2[(sr - 1) + (N - sr)] = pow2[sr - 1] * pow2[N - sr]
    BY <1>1, Powers, Zenon
  <2>4. 1 + (sr - 1) = sr /\ 1 + (N - sr) = N - (sr - 1) /\ (sr - 1) + (N - sr) = N - 1
    BY <1>1, Powers
  <2> QED BY <2>1, <2>2, <2>3, <2>4, Powers DEF Half
<1>4. PICK lo \in 0 .. 2 * P - 1, q \in 0 .. T - 1 :
        /\ n = lo * T + q
        /\ Dividend = ((2 * q + carry) * d + r) * (2 * P) + lo
  BY <1>3 DEF LoopInv
<1> HIDE DEF P, T
<1>5. PICK t \in {0, 1}, l \in 0 .. P - 1 :
        /\ lo = t * P + l
        /\ (lo * T + q) \div (P * T) = t
        /\ 2 * (lo * T + q) = t * (2 * (P * T)) + 2 * (l * T + q)
        /\ l * T + q \in 0 .. (P * T) - 1
  BY <1>2, TopBit, ZenonT(60)
<1>6. /\ Dividend = ((2 * (2 * q + carry)) * d + (2 * r + t)) * P + l
      /\ 2 * r + t <= Dividend
  <2>1. Dividend = ((2 * q + carry) * d + r) * (2 * P) + (t * P + l)
    BY <1>4, <1>5
  <2>2. Dividend \in Nat /\ q \in Nat /\ l \in Nat /\ t \in {0, 1}
    <3>1. Dividend \in Word
      BY Arguments
    <3> QED BY <1>2, <1>4, <1>5, <3>1, Powers DEF Word
  <2> DEFINE g == (2 * (2 * q + carry)) * d
             z == 2 * r + t
  <2>3. g \in Nat /\ z \in Nat
    BY <1>1, <2>2
  <2>4. Dividend = (g + z) * P + l
    BY <1>1, <1>2, <2>1, <2>2
  <2> HIDE DEF g, z
  <2>5. z <= (g + z) * P
    BY <1>2, <2>3
  <2>6. z <= Dividend
    BY <1>2, <2>2, <2>3, <2>4, <2>5
  <2> QED BY <2>4, <2>6 DEF g, z
<1>7. 2 * r + t \in Word
  <2>1. Dividend \in Word
    BY Arguments
  <2>2. 2 * r + t \in Nat
    BY <1>1
  <2> QED BY <1>6, <2>1, <2>2, Powers DEF Word
<1>8. Shifted = 2 * r + t
  BY <1>3, <1>4, <1>5, <1>7, Words DEF Shifted
<1>9. 2 * q + carry \in 0 .. 2 * T - 1
  BY <1>1, <1>2
<1>10. Wrap(2 * n + carry) = l * (2 * T) + (2 * q + carry)
  <2> DEFINE y == 2 * (l * T + q) + carry
  <2>1. pow2[N] = 2 * (P * T) /\ pow2[N] \in Nat \ {0}
    BY <1>3, Powers
  <2>2. y \in 0 .. pow2[N] - 1
    BY <1>1, <1>2, <1>5, <2>1
  <2>3. 2 * n + carry = t * pow2[N] + y
    BY <1>1, <1>4, <1>5, <2>1
  <2>4. y = l * (2 * T) + (2 * q + carry)
    BY <1>1, <1>2
  <2> HIDE DEF y
  <2>5. (t * pow2[N] + y) % pow2[N] = y
    BY <2>1, <2>2, DivModOf
  <2> QED BY <2>3, <2>4, <2>5 DEF Wrap
<1> QED BY <1>3, <1>6, <1>7, <1>8, <1>9, <1>10 DEF P, T

\* The sign of d - r - 1 compares r with d, though the difference of two words
\* does not always fit in a signed word.
LEMMA Compare ==
  ASSUME TypeOK, LoopInv, sr > 0, d # 0
  PROVE  /\ Borrow(Shifted) = IF Shifted >= d THEN 1 ELSE 0
         /\ Shifted < 2 * d
<1> DEFINE x == Shifted
           M == pow2[N]
<1>1. /\ M \in Nat \ {0} /\ M = 2 * Half /\ Half \in Nat \ {0}
      /\ d \in 0 .. M - 1 /\ r \in 0 .. M - 1 /\ d # 0
  BY Powers, Zenon DEF TypeOK, Word
<1>2. x \in 0 .. M - 1 /\ (x = 2 * r \/ x = 2 * r + 1)
  <2>1. PICK t \in {0, 1} : Shifted = 2 * r + t /\ Shifted \in Word
    BY Turn, Zenon
  <2> QED BY <1>1, <2>1 DEF Word
<1>3. r < d /\ (d <= Half \/ Half <= 2 * r)
  BY DEF LoopInv
<1> HIDE DEF x, M
<1>4. x < 2 * d
  BY <1>1, <1>2, <1>3
<1>5. CASE x < d
  <2>1. d - x - 1 \in 0 .. Half - 1
    BY <1>1, <1>2, <1>3, <1>5
  <2>2. (d - x - 1) % M = d - x - 1
    BY <1>1, <2>1
  <2>3. ~Negative((d - x - 1) % M)
    BY <1>1, <2>1, <2>2 DEF Negative
  <2>4. Borrow(x) = 0
    BY <2>3, Zenon DEF Borrow, Wrap, M
  <2> QED BY <1>1, <1>2, <1>4, <1>5, <2>4 DEF x
<1>6. CASE x >= d
  <2>1. d - x - 1 \in -Half .. -1
    BY <1>1, <1>2, <1>3, <1>6
  <2>2. (d - x - 1) % M = (d - x - 1) + M
    BY <1>1, <2>1
  <2>3. Negative((d - x - 1) % M)
    BY <1>1, <2>1, <2>2 DEF Negative
  <2>4. Borrow(x) = 1
    BY <2>3, Zenon DEF Borrow, Wrap, M
  <2> QED BY <1>4, <1>6, <2>4 DEF x
<1> QED BY <1>1, <1>2, <1>5, <1>6

\* A turn of the loop keeps the invariant.
LEMMA IterateKeeps ==
  ASSUME TypeOK, LoopInv, Iterate
  PROVE  LoopInv'
<1>1. CASE d = 0
  BY <1>1 DEF LoopInv, Iterate, Divisor, Dividend
<1>2. CASE d # 0
  <2>1. PICK t \in {0, 1}, l \in 0 .. pow2[sr - 1] - 1, q \in 0 .. pow2[N - sr] - 1 :
           /\ Shifted = 2 * r + t
           /\ Shifted \in Word
           /\ Wrap(2 * n + carry) = l * pow2[N - (sr - 1)] + (2 * q + carry)
           /\ 2 * q + carry \in 0 .. pow2[N - (sr - 1)] - 1
           /\ Dividend = ((2 * (2 * q + carry)) * d + (2 * r + t)) * pow2[sr - 1] + l
    BY <1>2, Turn, Zenon DEF Iterate
  <2> DEFINE c == Borrow(Shifted)
             y == Shifted - c * d
             e == 2 * q + carry
  <2>2. /\ c = (IF Shifted >= d THEN 1 ELSE 0)
        /\ Shifted < 2 * d
    BY <1>2, Compare, Zenon DEF Iterate
  <2>3. /\ Shifted \in Nat /\ d \in Nat /\ pow2[sr - 1] \in Nat /\ l \in Nat /\ e \in Nat
        /\ Shifted < pow2[N] /\ pow2[N] \in Nat /\ c \in {0, 1}
    <3>1. sr - 1 \in 0 .. N /\ N - sr \in 0 .. N /\ carry \in {0, 1} /\ d \in Nat
      BY Powers DEF TypeOK, Iterate, Word
    <3>2. pow2[sr - 1] \in Nat \ {0} /\ pow2[N - sr] \in Nat \ {0} /\ pow2[N] \in Nat
      BY <3>1, Powers, Zenon
    <3>3. l \in Nat /\ e \in Nat
      BY <2>1, <3>1, <3>2
    <3>4. Shifted \in Nat /\ Shifted < pow2[N]
      BY <2>1, <3>2 DEF Word
    <3> HIDE DEF c, e
    <3> QED BY <2>2, <3>1, <3>2, <3>3, <3>4
  <2>4. y \in 0 .. d - 1 /\ y \in 0 .. pow2[N] - 1 /\ Shifted = c * d + y
    <3> HIDE DEF c
    <3> QED BY <2>2, <2>3
  <2>5. Wrap(y) = y
    <3> HIDE DEF y
    <3>1. y \in Word
      BY <2>4 DEF Word
    <3> QED BY <3>1, Words
  <2>6. Dividend = ((2 * e + c) * d + y) * pow2[sr - 1] + l
    <3>1. Dividend = ((2 * e) * d + Shifted) * pow2[sr - 1] + l
      BY <2>1
    <3> HIDE DEF c, e, y
    <3>2. (2 * e) * d + Shifted = (2 * e + c) * d + y
      BY <2>3, <2>4
    <3> QED BY <3>1, <3>2
  <2>7. /\ n' = l * pow2[N - (sr - 1)] + e /\ e \in 0 .. pow2[N - (sr - 1)] - 1
        /\ carry' = c /\ r' = y /\ sr' = sr - 1 /\ d' = d
        /\ Dividend' = Dividend /\ Divisor' = Divisor
    BY <2>1, <2>5, Zenon DEF Iterate, Dividend, Divisor
  <2>8. d <= Half \/ sr' = 0
    BY <1>2, <2>7 DEF LoopInv, TypeOK, Iterate
  <2>9. r' < d'
    BY <2>3, <2>4, <2>7
  <2>10. \E lo \in 0 .. pow2[sr'] - 1, p \in 0 .. pow2[N - sr'] - 1 :
            /\ n' = lo * pow2[N - sr'] + p
            /\ Dividend' = ((2 * p + carry') * d' + r') * pow2[sr'] + lo
    <3> HIDE DEF c, e, y
    <3> QED BY <2>1, <2>6, <2>7, ZenonT(120)
  <2> QED BY <2>7, <2>8, <2>9, <2>10, Zenon DEF LoopInv
<1> QED BY <1>1, <1>2

\* The results stay as Return made them.
LEMMA OutcomeKept ==
  ASSUME NEW x, UNCHANGED <<fn, a, b>>, Return(x) \/ (Outcome(x) /\ UNCHANGED <<res, rem>>)
  PROVE  Outcome(x)'
BY DEF Outcome, Return, MultiplyBack, Signs, Flips, Signed, Negate, Negative, Wrap, Half, Word, Fits

\* Returning a quotient and a remainder.
LEMMA Returns ==
  ASSUME TypeOK, NEW q \in Word, NEW y \in Word, Dividend = q * Divisor + y, y < Divisor,
         Return(IF Quotient THEN q ELSE y), UNCHANGED <<fn, a, b>>
  PROVE  DoneInv'
<1>1. /\ Dividend' = Dividend /\ Divisor' = Divisor
      /\ Quotient' = Quotient /\ Word' = Word
  BY DEF Dividend, Divisor, Quotient, Word
<1>2. Dividend' = q * Divisor' + y /\ y < Divisor'
  BY <1>1
<1>3. CASE Quotient
  <2>1. Outcome(q)'
    BY <1>3, OutcomeKept
  <2> QED BY <1>1, <1>2, <1>3, <2>1, Zenon DEF DoneInv
<1>4. CASE ~Quotient
  <2>1. Outcome(y)'
    BY <1>4, OutcomeKept
  <2> QED BY <1>1, <1>2, <1>4, <2>1, Zenon DEF DoneInv
<1> QED BY <1>3, <1>4

\* At the end of the loop nothing of the dividend is left, and the quotient lacks
\* its last bit.
LEMMA FinishKeeps ==
  ASSUME TypeOK, LoopInv, Finish
  PROVE  DoneInv'
<1>1. CASE d = 0
  BY <1>1 DEF LoopInv, DoneInv, Finish, Divisor
<1>2. CASE d # 0
  <2>1. sr = 0 /\ N - sr = N /\ pow2[0] = 1 /\ pow2[N] \in Nat \ {0}
    BY Powers DEF Finish
  <2>2. PICK lo \in 0 .. pow2[0] - 1, q \in 0 .. pow2[N] - 1 :
          /\ n = lo * pow2[N] + q
          /\ Dividend = ((2 * q + carry) * d + r) * pow2[0] + lo
    BY <1>2, <2>1 DEF LoopInv
  <2>3. lo = 0 /\ n = q /\ r \in Nat /\ d \in Nat /\ n \in Nat /\ carry \in {0, 1}
    BY <2>1, <2>2 DEF TypeOK, Word
  <2> DEFINE e == 2 * n + carry
  <2>4. e \in Nat
    BY <2>3
  <2>5. Dividend = e * d + r
    BY <2>1, <2>2, <2>3
  <2>6. e \in Word
    <3>1. Dividend \in Word
      BY Arguments
    <3> HIDE DEF e
    <3>2. e <= e * d
      BY <1>2, <2>3, <2>4, SMTT(60)
    <3> QED BY <2>1, <2>3, <2>4, <2>5, <3>1, <3>2 DEF Word
  <2>7. Wrap(2 * n + carry) = e /\ d = Divisor /\ r < d /\ r \in Word
    BY <1>2, <2>6, Words DEF LoopInv, TypeOK
  <2>8. Return(IF Quotient THEN e ELSE r) /\ UNCHANGED <<fn, a, b>>
    BY <2>7, Zenon DEF Finish
  <2> HIDE DEF e
  <2>9. Dividend = e * Divisor + r /\ r < Divisor
    BY <2>5, <2>7
  <2> QED BY <2>6, <2>7, <2>8, <2>9, Returns, Zenon
<1> QED BY <1>1, <1>2, SMTT(60)

\* The early returns, and the start of the loop.
LEMMA ShiftKeeps ==
  ASSUME TypeOK, n = Dividend, d = Divisor, Shift
  PROVE  \/ pc' = "done" /\ DoneInv'
         \/ pc' = "loop" /\ LoopInv'
<1>1. PICK i \in 0 .. N, j \in 0 .. N :
        /\ SignificantBits(n, i) /\ SignificantBits(d, j)
        /\ \/ /\ TooShort(i - j)
              /\ Return(IF Quotient THEN 0 ELSE n)
           \/ /\ i - j = N - 1
              /\ Return(IF Quotient THEN n ELSE 0)
           \/ /\ i - j \in 0 .. N - 2
              /\ sr' = (i - j) + 1
              /\ r' = n \div pow2[(i - j) + 1]
              /\ n' = Wrap(n * pow2[N - ((i - j) + 1)])
              /\ carry' = 0
              /\ pc' = "loop"
  BY Zenon DEF Shift
<1>2. /\ UNCHANGED <<fn, a, b, d>> /\ Dividend' = Dividend /\ Divisor' = Divisor
  BY DEF Shift, Dividend, Divisor
<1>3. CASE d = 0
  <2>1. DoneInv' /\ LoopInv'
    BY <1>2, <1>3, Zenon DEF DoneInv, LoopInv
  <2>2. pc' \in {"done", "loop"}
    BY <1>1, Zenon DEF Return
  <2> QED BY <2>1, <2>2
<1>4. CASE d # 0
  <2>1. /\ n \in Nat /\ d \in Nat \ {0} /\ n < pow2[N] /\ n \in Word /\ 0 \in Word
        /\ pow2[i] \in Nat /\ pow2[j] \in Nat /\ pow2[0] = 1 /\ pow2[1] = 2 /\ pow2[N] \in Nat
        /\ N \in Nat /\ N >= 2
    <3>1. n \in Word /\ d \in Word
      BY DEF TypeOK
    <3>2. /\ pow2[i] \in Nat /\ pow2[j] \in Nat /\ pow2[0] = 1 /\ pow2[1] = 2
          /\ pow2[N] \in Nat \ {0} /\ N \in Nat /\ N >= 2
      BY Powers, Zenon
    <3> QED BY <1>4, <3>1, <3>2 DEF Word
  <2>2. j > 0 /\ d < pow2[j] /\ n < pow2[i] /\ pow2[j - 1] <= d
    BY <1>1, <2>1 DEF SignificantBits
  <2>3. j - 1 \in 0 .. N /\ pow2[j - 1] \in Nat
    <3>1. j - 1 \in 0 .. N
      BY <2>1, <2>2
    <3> QED BY <3>1, Powers, Zenon
  <2>4. CASE TooShort(i - j) /\ Return(IF Quotient THEN 0 ELSE n)
    <3>1. i <= j - 1
      BY <2>1, <2>2, <2>4 DEF TooShort
    <3>2. n < d
      <4>1. pow2[i] <= pow2[j - 1]
        BY <2>3, <3>1, Monotone
      <4> QED BY <2>1, <2>2, <2>3, <4>1
    <3>3. Dividend = 0 * Divisor + n /\ n < Divisor
      BY <2>1, <3>2
    <3>4. pc' = "done"
      BY <2>4 DEF Return
    <3> QED BY <1>2, <2>1, <2>4, <3>3, <3>4, Returns, Zenon
  <2>5. CASE i - j = N - 1 /\ Return(IF Quotient THEN n ELSE 0)
    <3>1. j = 1
      BY <2>1, <2>2, <2>5
    <3>2. d = 1
      BY <2>1, <2>2, <3>1
    <3>3. Dividend = n * Divisor + 0 /\ 0 < Divisor
      BY <2>1, <3>2
    <3>4. pc' = "done"
      BY <2>5 DEF Return
    <3> QED BY <1>2, <2>1, <2>5, <3>3, <3>4, Returns, Zenon
  <2>6. CASE /\ i - j \in 0 .. N - 2
             /\ sr' = (i - j) + 1
             /\ r' = n \div pow2[(i - j) + 1]
             /\ n' = Wrap(n * pow2[N - ((i - j) + 1)])
             /\ carry' = 0
             /\ pc' = "loop"
    <3> DEFINE s == (i - j) + 1
               P == pow2[s]
               Q == pow2[N - s]
               R == n \div P
               lo == n % P
    <3>1. /\ s \in 0 .. N /\ N - s \in 0 .. N /\ s + (N - s) = N /\ s + (N - s) \in 0 .. N
          /\ s \in 1 .. N - 1 /\ (j - 1) + s = i /\ (j - 1) + s \in 0 .. N
      BY <2>1, <2>2, <2>6
    <3> HIDE DEF s
    <3>2. /\ P \in Nat \ {0} /\ Q \in Nat \ {0}
          /\ pow2[s + (N - s)] = pow2[s] * pow2[N - s]
          /\ pow2[(j - 1) + s] = pow2[j - 1] * pow2[s]
      BY <2>3, <3>1, Powers, Zenon
    <3>3. pow2[N] = P * Q /\ pow2[i] = pow2[j - 1] * P
      BY <3>1, <3>2, Zenon
    <3> HIDE DEF P, Q
    <3>4. R \in Int /\ lo \in 0 .. P - 1 /\ n = P * R + lo
      BY <2>1, <3>2, DivMod, SMTT(60)
    <3>5. sr' = s /\ r' = R /\ n' = (n * Q) % pow2[N] /\ carry' = 0
      BY <2>6 DEF s, P, Q, Wrap
    <3> HIDE DEF R, lo
    <3>6. n' = lo * Q
      <4>1. n * Q = R * (P * Q) + lo * Q
        BY <3>2, <3>4
      <4>2. lo * Q \in 0 .. (P * Q) - 1
        <5>1. lo * Q <= (P - 1) * Q BY <3>2, <3>4
        <5>2. (P - 1) * Q = P * Q - Q BY <3>2
        <5>3. lo * Q \in Nat BY <3>2, <3>4
        <5> QED BY <3>2, <5>1, <5>2, <5>3
      <4>3. P * Q \in Nat \ {0}
        BY <3>2
      <4>4. (R * (P * Q) + lo * Q) % (P * Q) = lo * Q
        BY <3>4, <4>2, <4>3, DivModOf, Zenon
      <4> QED BY <3>3, <3>5, <4>1, <4>4
    <3>7. R < d
      <4> DEFINE u == pow2[j - 1]
      <4>1. u \in Nat /\ u <= d /\ n < u * P
        BY <2>2, <2>3, <3>3, SMTT(60)
      <4> HIDE DEF u
      <4>2. P * R < P * u
        BY <2>1, <3>2, <3>4, <4>1
      <4>3. R < u
        BY <3>2, <3>4, <4>1, <4>2, SMTT(60)
      <4> QED BY <2>1, <3>4, <4>1, <4>3, SMTT(60)
    <3>8. R >= 0
      BY <2>1, <3>2, <3>4
    <3>9. d <= Half \/ (s = 1 /\ Half <= 2 * R)
      <4>1. SUFFICES ASSUME d > Half PROVE s = 1 /\ Half <= 2 * R
        BY <2>1, Powers
      <4>2. j = N
        <5>1. CASE j <= N - 1
          <6>1. pow2[j] <= Half
            BY <2>1, <5>1, Monotone, SMTT(60) DEF Half
          <6> QED BY <2>1, <2>2, <4>1, <6>1, Powers, SMTT(60)
        <5> QED BY <2>1, <5>1, SMTT(60)
      <4>3. i = N /\ s = 1
        BY <2>1, <2>6, <4>2, SMTT(60) DEF s
      <4>4. P = 2 /\ Half <= n
        BY <1>1, <2>1, <4>3, SMTT(60) DEF P, Half, SignificantBits
      <4>5. Half = 2 * pow2[N - 2] /\ pow2[N - 2] \in Nat
        <5>1. N - 2 \in 0 .. N /\ 1 \in 0 .. N /\ 1 + (N - 2) \in 0 .. N /\ 1 + (N - 2) = N - 1
          BY <2>1
        <5>2. pow2[1 + (N - 2)] = pow2[1] * pow2[N - 2] /\ pow2[N - 2] \in Nat
          BY <5>1, Powers, Zenon
        <5> QED BY <2>1, <5>1, <5>2 DEF Half
      <4> QED BY <3>4, <4>3, <4>4, <4>5, SMTT(60)
    <3>10. 0 \in 0 .. Q - 1 /\ n' = lo * Q + 0 /\ Dividend' = ((2 * 0 + carry') * d + R) * P + lo
      BY <1>2, <2>1, <3>2, <3>4, <3>5, <3>6
    <3>11. \E l \in 0 .. pow2[sr'] - 1, q \in 0 .. pow2[N - sr'] - 1 :
            /\ n' = l * pow2[N - sr'] + q
            /\ Dividend' = ((2 * q + carry') * d' + r') * pow2[sr'] + l
      BY <1>2, <3>4, <3>5, <3>10, Zenon DEF P, Q
    <3>12. d' <= Half \/ sr' = 0 \/ (sr' = 1 /\ Half <= 2 * r')
      BY <1>2, <3>5, <3>9, Zenon
    <3>13. d' = Divisor' /\ r' < d'
      BY <1>2, <3>5, <3>7, Zenon
    <3> QED BY <2>6, <3>11, <3>12, <3>13, Zenon DEF LoopInv
  <2> QED BY <1>1, <2>4, <2>5, <2>6, Zenon
<1> QED BY <1>3, <1>4

-----------------------------------------------------------------------------
\* Wrap makes a word of any number.
LEMMA WrapWord ==
  ASSUME NEW x \in Int
  PROVE  Wrap(x) \in Word
<1>1. x % pow2[N] \in 0 .. pow2[N] - 1
  BY DivMod, Powers
<1> QED BY <1>1 DEF Wrap, Word

\* Whatever a function returns or stores is a word.
LEMMA ReturnWord ==
  ASSUME TypeOK, NEW x \in Word, Return(x)
  PROVE  res' \in Word /\ rem' \in Word /\ pc' = "done"
<1>1. Signs(x) \in Word
  BY Words DEF Signs
<1>2. a \in Int /\ b \in Int /\ x \in Int /\ Signed(a) \in Int /\ Signed(b) \in Int
      /\ Signed(Signs(x)) \in Int /\ 0 \in Word
  BY <1>1, Powers DEF TypeOK, Word, Signed
<1>3. rem' \in Word
  <2>1. a - x * b \in Int
    BY <1>2
  <2> QED BY <1>2, <2>1, WrapWord DEF Return
<1>4. MultiplyBack(Signs(x)) \subseteq Word
  <2>1. Signed(a) - Signed(Signs(x)) * Signed(b) \in Int
    BY <1>2
  <2> QED BY <2>1, WrapWord DEF MultiplyBack
<1> QED BY <1>1, <1>3, <1>4 DEF Return

\* Every step keeps the variables in their types.
LEMMA TypeStep ==
  ASSUME TypeOK, [Next]_vars
  PROVE  TypeOK'
<1>1. /\ fn \in Fns /\ a \in Word /\ b \in Word /\ n \in Word /\ d \in Word /\ r \in Word
      /\ res \in Word /\ rem \in Word /\ sr \in 0 .. N - 1 /\ carry \in {0, 1} /\ 0 \in Word
  BY Powers DEF TypeOK, Word
<1>2. N \in Nat /\ N >= 2 /\ Word \subseteq Nat
  BY Powers DEF Word
<1>3. CASE Enter
  <2>1. n' \in Word /\ d' \in Word
    BY <1>1, <1>3, Words DEF Enter
  <2> QED BY <1>3, <2>1 DEF Enter, TypeOK, Word
<1>4. CASE Shift
  <2>1. /\ UNCHANGED <<fn, a, b, d>>
        /\ \/ \E x \in Word : Return(x) /\ UNCHANGED <<n, r, sr, carry>>
           \/ \E k \in 0 .. N - 2 :
                /\ sr' = k + 1
                /\ r' = n \div pow2[k + 1]
                /\ n' = Wrap(n * pow2[N - (k + 1)])
                /\ carry' = 0
                /\ pc' = "loop"
                /\ UNCHANGED <<res, rem>>
    BY <1>1, <1>4, Zenon DEF Shift
  <2>2. CASE \E x \in Word : Return(x) /\ UNCHANGED <<n, r, sr, carry>>
    <3>1. res' \in Word /\ rem' \in Word /\ pc' = "done" /\ UNCHANGED <<n, r, sr, carry>>
      BY <2>2, ReturnWord, Zenon
    <3> QED BY <2>1, <3>1 DEF TypeOK, Word
  <2>3. CASE \E k \in 0 .. N - 2 :
                /\ sr' = k + 1
                /\ r' = n \div pow2[k + 1]
                /\ n' = Wrap(n * pow2[N - (k + 1)])
                /\ carry' = 0
                /\ pc' = "loop"
                /\ UNCHANGED <<res, rem>>
    <3>1. PICK k \in 0 .. N - 2 :
                /\ sr' = k + 1
                /\ r' = n \div pow2[k + 1]
                /\ n' = Wrap(n * pow2[N - (k + 1)])
                /\ carry' = 0
                /\ pc' = "loop"
                /\ UNCHANGED <<res, rem>>
      BY <2>3
    <3>2. k + 1 \in 0 .. N /\ N - (k + 1) \in 0 .. N /\ k + 1 \in 0 .. N - 1
      BY <1>2
    <3> DEFINE P == pow2[k + 1]
               Q == pow2[N - (k + 1)]
    <3>3. P \in Nat \ {0} /\ Q \in Nat
      BY <3>2, Powers, Zenon
    <3> HIDE DEF P, Q
    <3>4. n \in Nat /\ n \in Int /\ n < pow2[N] /\ pow2[N] \in Nat
      BY <1>1, Powers DEF Word
    <3>5. n' \in Word
      <4>1. n * Q \in Int
        BY <3>3, <3>4
      <4> QED BY <3>1, <4>1, WrapWord DEF Q
    <3>6. r' \in Word
      <4> DEFINE R == n \div P
      <4>1. R \in Int /\ n % P \in 0 .. P - 1 /\ n = P * R + (n % P)
        BY <3>3, <3>4, DivMod, Zenon
      <4> HIDE DEF R
      <4>2. R >= 0 /\ R <= n
        <5>1. CASE R < 0
          <6>1. P * R <= -P BY <3>3, <4>1, <5>1
          <6> QED BY <3>3, <3>4, <4>1, <6>1
        <5>2. CASE R >= 0
          <6>1. P * R >= R BY <3>3, <4>1, <5>2
          <6> QED BY <3>3, <3>4, <4>1, <5>2, <6>1
        <5> QED BY <4>1, <5>1, <5>2
      <4>3. r' = R
        BY <3>1 DEF R, P
      <4> QED BY <3>4, <4>1, <4>2, <4>3 DEF Word
    <3>7. sr' \in 0 .. N - 1 /\ carry' \in {0, 1} /\ pc' = "loop" /\ res' = res /\ rem' = rem
      BY <3>1, <3>2, SMTT(60)
    <3> QED BY <2>1, <3>5, <3>6, <3>7, SMTT(60) DEF TypeOK, Word
  <2> QED BY <2>1, <2>2, <2>3
<1>5. CASE Iterate
  <2>1. Shifted \in Int /\ Borrow(Shifted) \in {0, 1} /\ 2 * n + carry \in Int
    <3>1. n \div Half \in Int
      BY <1>1, <1>2, Powers, DivMod
    <3>2. 2 * r + n \div Half \in Int
      BY <1>1, <1>2, <3>1
    <3>3. Shifted \in Word
      BY <3>2, WrapWord, Zenon DEF Shifted
    <3>4. Borrow(Shifted) \in {0, 1}
      BY Zenon DEF Borrow
    <3> QED BY <1>1, <1>2, <3>3, <3>4, SMTT(60)
  <2>2. Shifted - Borrow(Shifted) * d \in Int
    BY <1>1, <1>2, <2>1, SMTT(60)
  <2>3. n' \in Word /\ r' \in Word
    BY <1>5, <2>1, <2>2, WrapWord, SMTT(60) DEF Iterate
  <2>4. sr' \in 0 .. N - 1 /\ carry' \in {0, 1}
    BY <1>1, <1>2, <1>5, <2>1, SMTT(60) DEF Iterate
  <2> QED BY <1>5, <2>3, <2>4 DEF Iterate, TypeOK, Word
<1>6. CASE Finish
  <2>1. 2 * n + carry \in Int
    BY <1>1, <1>2
  <2>2. (IF Quotient THEN Wrap(2 * n + carry) ELSE r) \in Word
    BY <1>1, <2>1, WrapWord
  <2>3. res' \in Word /\ rem' \in Word /\ pc' = "done"
    BY <1>6, <2>2, ReturnWord, SMTT(60) DEF Finish
  <2> QED BY <1>6, <2>3 DEF Finish, TypeOK, Word
<1>7. CASE UNCHANGED vars
  BY <1>7 DEF vars, TypeOK, Word
<1> QED BY <1>3, <1>4, <1>5, <1>6, <1>7 DEF Next, Done

\* The invariant holds when a function is called.
LEMMA InitInv == Init => DivInv
<1> SUFFICES ASSUME Init PROVE DivInv
  OBVIOUS
<1>1. 0 \in Word /\ 0 \in 0 .. N - 1
  BY Powers DEF Word
<1> QED BY <1>1 DEF Init, DivInv, TypeOK

\* Every step keeps the invariant.
LEMMA StepInv == DivInv /\ [Next]_vars => DivInv'
<1> SUFFICES ASSUME DivInv, [Next]_vars PROVE DivInv'
  OBVIOUS
<1>1. TypeOK /\ TypeOK'
  BY TypeStep DEF DivInv
<1>2. CASE Enter
  BY <1>1, <1>2, Zenon DEF Enter, DivInv, Dividend, Divisor
<1>3. CASE Shift
  <2>1. n = Dividend /\ d = Divisor
    BY <1>3 DEF Shift, DivInv
  <2>2. (pc' = "done" /\ DoneInv') \/ (pc' = "loop" /\ LoopInv')
    BY <1>1, <1>3, <2>1, ShiftKeeps
  <2> QED BY <1>1, <2>2, SMTT(60) DEF DivInv
<1>4. CASE Iterate
  <2>1. LoopInv' /\ pc' = "loop"
    BY <1>1, <1>4, IterateKeeps DEF Iterate, DivInv
  <2> QED BY <1>1, <2>1, SMTT(60) DEF DivInv
<1>5. CASE Finish
  <2>1. DoneInv' /\ pc' = "done"
    BY <1>1, <1>5, FinishKeeps DEF Finish, Return, DivInv
  <2> QED BY <1>1, <2>1, SMTT(60) DEF DivInv
<1>6. CASE UNCHANGED vars
  <2>1. /\ Dividend' = Dividend /\ Divisor' = Divisor /\ Quotient' = Quotient
        /\ UNCHANGED <<fn, a, b, pc, n, d, r, sr, carry, res, rem>>
    BY <1>6 DEF vars, Dividend, Divisor, Quotient
  <2>2. LoopInv => LoopInv'
    BY <2>1, Zenon DEF LoopInv
  <2>3. DoneInv => DoneInv'
    <3>1. SUFFICES ASSUME DoneInv, Divisor # 0 PROVE DoneInv'
      BY <2>1 DEF DoneInv
    <3>2. PICK q \in Word, y \in Word :
            /\ Dividend = q * Divisor + y /\ y < Divisor
            /\ Outcome(IF Quotient THEN q ELSE y)
      BY <3>1, Zenon DEF DoneInv
    <3>3. Word' = Word
      BY DEF Word
    <3>4. CASE Quotient
      <4>1. Outcome(q)'
        BY <2>1, <3>2, <3>4, OutcomeKept
      <4> QED BY <2>1, <3>2, <3>3, <3>4, <4>1, Zenon DEF DoneInv
    <3>5. CASE ~Quotient
      <4>1. Outcome(y)'
        BY <2>1, <3>2, <3>5, OutcomeKept, SMTT(60)
      <4> QED BY <2>1, <3>2, <3>3, <3>5, <4>1, Zenon DEF DoneInv
    <3> QED BY <3>4, <3>5
  <2> QED BY <1>1, <2>1, <2>2, <2>3, Zenon DEF DivInv
<1> QED BY <1>2, <1>3, <1>4, <1>5, <1>6 DEF Next, Done

-----------------------------------------------------------------------------
\* Truncated division in the four combinations of signs.
LEMMA SignsOfDivision ==
  ASSUME NEW A \in Nat, NEW D \in Nat \ {0}, NEW q \in Nat, NEW m \in Nat, A = q * D + m, m < D
  PROVE  /\ Truncates(A, D, q, m)
         /\ Truncates(-A, D, -q, -m)
         /\ Truncates(A, -D, -q, m)
         /\ Truncates(-A, -D, q, -m)
<1>1. q * D \in Nat
  OBVIOUS
<1>2. /\ -A = (-q) * D + (-m)
      /\ A = (-q) * (-D) + m
      /\ -A = q * (-D) + (-m)
  OBVIOUS
<1>3. m <= A
  BY <1>1
<1> QED BY <1>2, <1>3 DEF Truncates

\* What the loop leaves behind is the result that was promised.
LEMMA DoneGives ==
  ASSUME TypeOK, DoneInv, pc = "done"
  PROVE  ResultCorrect
<1> SUFFICES ASSUME b # 0 PROVE ResultCorrect
  BY DEF ResultCorrect
<1> DEFINE M == pow2[N]
<1>1. /\ M \in Nat \ {0} /\ M = 2 * Half /\ Half \in Nat \ {0}
      /\ a \in 0 .. M - 1 /\ b \in 0 .. M - 1 /\ res \in 0 .. M - 1 /\ fn \in Fns
  BY Powers, Zenon DEF TypeOK, Word
<1>2. Divisor # 0 /\ Dividend \in 0 .. M - 1 /\ Divisor \in 0 .. M - 1
  BY Arguments, Zenon DEF Word
<1>3. PICK q \in 0 .. M - 1, m \in 0 .. M - 1 :
        /\ Dividend = q * Divisor + m /\ m < Divisor
        /\ Outcome(IF Quotient THEN q ELSE m)
  BY <1>2, Zenon DEF DoneInv, Word
<1> DEFINE A == Dividend
           D == Divisor
<1>4. A \in Nat /\ D \in Nat \ {0} /\ q \in Nat /\ m \in Nat
  BY <1>1, <1>2, <1>3
<1>5. /\ Truncates(A, D, q, m) /\ Truncates(-A, D, -q, -m)
      /\ Truncates(A, -D, -q, m) /\ Truncates(-A, -D, q, -m)
  BY <1>3, <1>4, SignsOfDivision, Zenon
<1>6. q * D <= A /\ q <= A /\ m < D
  <2>1. A = q * D + m /\ m < D
    BY <1>3
  <2> HIDE DEF A, D
  <2>2. q <= q * D
    BY <1>4, SMTT(60)
  <2> QED BY <1>4, <2>1, <2>2
<1>7. /\ q \in -M .. M /\ -q \in -M .. M
  BY <1>1, <1>3
<1>8. A = q * D + m
  BY <1>3, SMTT(60)
<1> DEFINE x == Value(a)
           y == Value(b)
           z == Value(res)
<1>9. CASE fn \in {"udiv", "udivmod"}
  <2>1. Quotient /\ Signs(q) = q
    BY <1>9, SMTT(60) DEF Quotient, Flips, Signs
  <2>2. x = A /\ y = D /\ z = q
    BY <1>3, <1>9, <2>1 DEF Value, Dividend, Divisor, Outcome
  <2>3. A - q * D = m
    <3> HIDE DEF A, D
    <3> QED BY <1>4, <1>8
  <2>4. IsQuotient(x, y, z)
    BY <1>5, <2>2, <2>3, Zenon DEF IsQuotient
  <2>5. fn = "udivmod" => IsRemainder(x, y, Value(rem))
    <3>1. SUFFICES ASSUME fn = "udivmod" PROVE IsRemainder(x, y, Value(rem))
      OBVIOUS
    <3>2. m \in Word
      BY <1>3, Zenon DEF Word
    <3>3. rem = Wrap(A - q * D)
      BY <1>3, <2>1, <3>1, SMTT(60) DEF Outcome, Dividend, Divisor
    <3>4. Value(rem) = m
      BY <2>3, <3>1, <3>2, <3>3, Words, SMTT(60) DEF Value
    <3> QED BY <1>5, <1>7, <2>2, <3>4, Zenon DEF IsRemainder
  <2> QED BY <1>9, <2>4, <2>5 DEF ResultCorrect
<1>10. CASE fn = "umod"
  <2>1. ~Quotient /\ Signs(m) = m
    BY <1>10, SMTT(60) DEF Quotient, Flips, Signs
  <2>2. x = A /\ y = D /\ z = m
    BY <1>3, <1>10, <2>1 DEF Value, Dividend, Divisor, Outcome
  <2>3. IsRemainder(x, y, z)
    BY <1>5, <1>7, <2>2, Zenon DEF IsRemainder
  <2> QED BY <1>10, <2>3 DEF ResultCorrect
<1>11. CASE fn \in {"div", "mod"}
  <2> DEFINE sx == a >= Half
             sy == b >= Half
             v == Signed(Signs(q))
  <2>1. /\ A = (IF a >= Half THEN M - a ELSE a) /\ D = (IF b >= Half THEN M - b ELSE b)
        /\ x = (IF a >= Half THEN a - M ELSE a) /\ y = (IF b >= Half THEN b - M ELSE b)
        /\ x = Signed(a) /\ y = Signed(b) /\ z = Signed(res)
    <3>1. a \in Word /\ b \in Word
      BY SMTT(60) DEF TypeOK
    <3>2. A = Magnitude(a) /\ D = Magnitude(b) /\ x = Signed(a) /\ y = Signed(b) /\ z = Signed(res)
      BY <1>11, SMTT(60) DEF Dividend, Divisor, Value
    <3>3. Negate(a) = (IF a = 0 THEN 0 ELSE M - a) /\ Negate(b) = (IF b = 0 THEN 0 ELSE M - b)
      BY <3>1, Words
    <3> HIDE DEF A, D, x, y, z, M
    <3> QED BY <1>1, <3>2, <3>3 DEF Magnitude, Signed, Negative, M
  <2>2. Quotient /\ (Flips <=> (sx # sy))
    BY <1>11, SMTT(60) DEF Quotient, Flips, Negative
  <2>3. /\ x = (IF sx THEN -A ELSE A) /\ y = (IF sy THEN -D ELSE D)
        /\ A <= Half /\ D <= Half /\ (A = Half => sx) /\ (D = Half => sy)
    <3> HIDE DEF A, D, x, y, z, M
    <3> QED BY <1>1, <2>1, SMTT(60)
  <2>4. q \in 0 .. Half
    <3> HIDE DEF A, D, M
    <3> QED BY <1>1, <1>4, <1>6, <2>3, SMTT(60)
  <2>5. /\ Flips => v = -q
        /\ ~Flips => IF q = Half THEN v = -Half ELSE v = q
    <3>1. q \in Word
      BY <1>3, Zenon DEF Word
    <3>2. Negate(q) = (IF q = 0 THEN 0 ELSE M - q)
      BY <3>1, Words, SMTT(60)
    <3> HIDE DEF M
    <3> QED BY <1>1, <2>4, <3>2 DEF Signs, Signed, Negative, M
  <2>6. /\ fn = "div" => z = v
        /\ fn = "mod" => res \in IF Fits(v * y) /\ Fits(x - v * y) THEN {Wrap(x - v * y)} ELSE Word
    BY <1>3, <2>1, <2>2, SMTT(60) DEF Outcome, MultiplyBack
  <2>7. CASE ~Flips /\ q = Half
    <3>1. A = Half
      <4> HIDE DEF A, D
      <4> QED BY <1>1, <1>4, <1>6, <2>3, <2>7
    <3>2. D = 1
      <4> HIDE DEF A, D
      <4>1. CASE D >= 2
        <5>1. q * D >= 2 * Half
          BY <1>1, <1>4, <2>7, <4>1
        <5> QED BY <1>1, <1>4, <1>6, <3>1, <5>1, SMTT(60)
      <4> QED BY <1>4, <4>1, SMTT(60)
    <3>3. sx /\ sy
      BY <2>2, <2>3, <2>7, <3>1, Zenon
    <3>4. x = -Half /\ y = -1 /\ v = -Half
      BY <2>3, <2>5, <2>7, <3>1, <3>2, <3>3, Zenon
    <3>5. fn = "div" => IsQuotient(x, y, z)
      BY <2>6, <3>4, ZenonT(60) DEF IsQuotient
    <3> QED BY <1>11, <3>4, <3>5, SMTT(60) DEF ResultCorrect
  <2>8. CASE Flips \/ q # Half
    <3>1. v = (IF sx # sy THEN -q ELSE q)
      BY <2>2, <2>5, <2>8, Zenon
    <3> DEFINE w == x - v * y
    <3>2. w = (IF sx THEN -m ELSE m) /\ v * y = x - w
      <4> HIDE DEF A, D, x, y, z, v
      <4>1. CASE sx /\ sy
        BY <1>4, <1>8, <2>3, <3>1, <4>1, SMTT(60)
      <4>2. CASE sx /\ ~sy
        BY <1>4, <1>8, <2>3, <3>1, <4>2, SMTT(60)
      <4>3. CASE ~sx /\ sy
        BY <1>4, <1>8, <2>3, <3>1, <4>3, SMTT(60)
      <4>4. CASE ~sx /\ ~sy
        BY <1>4, <1>8, <2>3, <3>1, <4>4, SMTT(60)
      <4> QED BY <4>1, <4>2, <4>3, <4>4, SMTT(60)
    <3>3. Truncates(x, y, v, w)
      <4> HIDE DEF A, D, x, y, z, v, w
      <4>1. CASE sx /\ sy
        BY <1>5, <2>3, <3>1, <3>2, <4>1, SMTT(60)
      <4>2. CASE sx /\ ~sy
        BY <1>5, <2>3, <3>1, <3>2, <4>2, SMTT(60)
      <4>3. CASE ~sx /\ sy
        BY <1>5, <2>3, <3>1, <3>2, <4>3, SMTT(60)
      <4>4. CASE ~sx /\ ~sy
        BY <1>5, <2>3, <3>1, <3>2, <4>4
      <4> QED BY <4>1, <4>2, <4>3, <4>4, SMTT(60)
    <3>4. fn = "div" => IsQuotient(x, y, z)
      <4> HIDE DEF x, y, z, v
      <4> QED BY <2>6, <3>3, Zenon DEF IsQuotient
    <3>5. fn = "mod" => IsRemainder(x, y, z)
      <4>1. SUFFICES ASSUME fn = "mod" PROVE IsRemainder(x, y, z)
        OBVIOUS
      <4>2. w \in -Half .. Half - 1 /\ x - w \in -Half .. Half - 1 /\ v \in -M .. M
        <5> HIDE DEF A, D, x, y, z, v, w, M
        <5>1. m <= A /\ m < Half
          BY <1>1, <1>4, <1>6, <1>8, <2>3, SMTT(60)
        <5>2. CASE sx
          BY <1>1, <1>4, <2>3, <2>4, <3>1, <3>2, <5>1, <5>2, SMTT(60)
        <5>3. CASE ~sx
          BY <1>1, <1>4, <2>3, <2>4, <3>1, <3>2, <5>1, <5>3
        <5> QED BY <5>2, <5>3, SMTT(60)
      <4>3. res = Wrap(w)
        <5> HIDE DEF x, y, z, v
        <5>1. Fits(v * y) /\ Fits(w)
          BY <3>2, <4>2, Zenon DEF Fits
        <5>2. res \in IF Fits(v * y) /\ Fits(w) THEN {Wrap(w)} ELSE Word
          BY <2>6, <4>1, SMTT(60)
        <5> HIDE DEF w
        <5> QED BY <5>1, <5>2, Zenon
      <4>4. Signed(Wrap(w)) = w
        <5> HIDE DEF w, M
        <5>1. CASE w >= 0
          <6>1. w % M = w
            BY <1>1, <4>2, <5>1, SMTT(60)
          <6> QED BY <1>1, <4>2, <5>1, <6>1, SMTT(60) DEF Wrap, Signed, Negative, M
        <5>2. CASE w < 0
          <6>1. w % M = w + M
            BY <1>1, <4>2, <5>2, SMTT(60)
          <6> QED BY <1>1, <4>2, <5>2, <6>1, SMTT(60) DEF Wrap, Signed, Negative, M
        <5> QED BY <4>2, <5>1, <5>2, SMTT(60)
      <4>5. z = w
        BY <2>1, <4>3, <4>4
      <4> HIDE DEF x, y, z, v, w
      <4> QED BY <3>3, <4>2, <4>5, Zenon DEF IsRemainder, M
    <3> QED BY <1>11, <3>4, <3>5 DEF ResultCorrect
  <2> QED BY <2>7, <2>8, SMTT(60)
<1> QED BY <1>1, <1>9, <1>10, <1>11, SMTT(60) DEF Fns

\* The variables of the division functions stay in their types.
THEOREM DivideTypes == Spec => []TypeOK
<1>1. Init => TypeOK
  BY InitInv DEF DivInv
<1>2. TypeOK /\ [Next]_vars => TypeOK'
  BY TypeStep
<1> QED BY <1>1, <1>2, PTL DEF Spec

\* The invariant always holds.
LEMMA DivideInv == Spec => []DivInv
BY InitInv, StepInv, PTL DEF Spec

\* In words of every width, the branch-free comparison of __udivXi3 and
\* __umodXi3 tells exactly whether the divisor is to be subtracted.
THEOREM ComparesExactly == Spec => []ComparisonExact
<1>1. DivInv => ComparisonExact
  <2>1. SUFFICES ASSUME DivInv, pc = "loop", sr > 0, d # 0
                 PROVE  Borrow(Shifted) = 1 <=> Shifted >= d
    BY DEF ComparisonExact
  <2>2. Borrow(Shifted) = IF Shifted >= d THEN 1 ELSE 0
    BY <2>1, Compare DEF DivInv
  <2> QED BY <2>2
<1> QED BY <1>1, DivideInv, PTL

\* In words of every width, the four functions return the quotient truncated
\* towards zero, or the remainder, for every dividend and every divisor but 0.
THEOREM DividesCorrectly == Spec => []ResultCorrect
<1>1. DivInv => ResultCorrect
  <2>1. SUFFICES ASSUME DivInv, pc = "done" PROVE ResultCorrect
    BY DEF ResultCorrect
  <2> QED BY <2>1, DoneGives, SMTT(60) DEF DivInv
<1> QED BY <1>1, DivideInv, PTL
=============================================================================

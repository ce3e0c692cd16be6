----------------------------- MODULE MCBuiltins -----------------------------
(***************************************************************************)
(* The arithmetic of compiler-rt's builtins, as a program uses it: one     *)
(* call, of a function of Divide (words), WideInt (two words) or SoftFloat *)
(* on any of its arguments.  The three share the variables of a call (the  *)
(* function, its arguments, where it is, its result).                      *)
(***************************************************************************)
EXTENDS Divide

CONSTANTS
  W, WideCalls,                  \* see WideInt
  S, E, SN, EN, I, MaxInt,       \* see SoftFloat, where MaxInt is Wide
  Scales, FloatCalls

VARIABLE mode   \* the rounding mode

WI == INSTANCE WideInt WITH Calls <- WideCalls
SF == INSTANCE SoftFloat WITH Calls <- FloatCalls, Wide <- MaxInt

\* Every function has a name of its own.
ASSUME CallsOK ==
  /\ WI!WordOK /\ SF!FormatsOK
  /\ Fns \cap WideCalls = {} /\ (Fns \cup WideCalls) \cap FloatCalls = {}

Powers == [k \in 0 .. N |-> 2^k]

locals == <<n, d, r, sr, carry, rem>>

Unused == n = 0 /\ d = 0 /\ r = 0 /\ sr = 0 /\ carry = 0 /\ rem = 0

CallInit ==
  \/ Init /\ mode = "nearest"
  \/ WI!Init /\ Unused /\ mode = "nearest"
  \/ SF!Init /\ Unused

CallNext ==
  \/ fn \in Fns /\ Next /\ UNCHANGED mode
  \/ fn \in WideCalls /\ WI!Next /\ UNCHANGED <<locals, mode>>
  \/ fn \in FloatCalls /\ SF!Next /\ UNCHANGED locals
  \/ pc = "done" /\ UNCHANGED <<vars, mode>>

CallSpec == CallInit /\ [][CallNext]_<<vars, mode>>
-----------------------------------------------------------------------------
\* Division of two-word values is exact: __udivmoddi4 and __udivmodti4, whose
\* estimate of a digit is corrected at most twice, __divdi3 and __moddi3, and
\* away from the least value __divmoddi4 and __divmodti4 (WideInt).
DivisionExact ==
  /\ WI!UnsignedDivisionExact /\ WI!AtMostTwoCorrections
  /\ WI!SignedExact /\ WI!DivmodExactAwayFromMin

\* So is the rest of the integer arithmetic: products from halves of words,
\* the functions that trap exactly on overflow, and shifts, comparisons and
\* counts put together from words (WideInt).
IntegersExact == WI!ProductExact /\ WI!TrapsExactly /\ WI!WordsAgreeWithWhole

\* __addXf3__ rounds the exact sum as the mode says, __mulXf3__ the exact
\* product to nearest, and __leXf2__ and __geXf2__ order by value (SoftFloat).
ArithmeticRounded == SF!SumRounded /\ SF!ProductRounded /\ SF!OrderAgrees

\* Extension is exact; truncation, conversion from integers and scalbn round
\* once, to nearest; conversion to integers truncates and saturates
\* (SoftFloat).
ConversionsRounded ==
  /\ SF!ExtendExact /\ SF!TruncRounded /\ SF!FixTruncates
  /\ SF!FloatRounded /\ SF!ScaleRounded
=============================================================================

------------------------------ MODULE MCProxy -------------------------------
(* Small instances of Proxy for TLC. *)
EXTENDS Proxy, TLC

\* The client sends two bytes, the server one.
PayloadTwoOne == [k |-> 2, v |-> 1]

\* One byte each way: enough for two workers to race on one counter.
PayloadOneOne == [k |-> 1, v |-> 1]

PayloadTwoNone == [k |-> 2, v |-> 0]

ConnSymmetry == Permutations(Conns)
=============================================================================

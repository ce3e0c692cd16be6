--------------------------- MODULE MCAtomicLocks ----------------------------
(* AtomicLocks with objects a and b behind one lock, and f lock-free.      *)
EXTENDS AtomicLocks, TLC

MCLockOf == [o \in Objects |-> "l"]
MCInputs == {<< 0, 0 >>, << 1, 1 >>}
MCBlank == << 0, 0 >>
\* An argument an operation does not have is << 0, 0 >>.
MCOps == {o \in [kind : Kinds, obj : Objects, val : MCInputs, expected : MCInputs] :
            /\ o.kind # "compare_exchange" => o.expected = MCBlank
            /\ o.kind = "load" => o.val = MCBlank}
MCFetch(v, w) == [i \in 1..N |-> (v[i] + w[i]) % 2]
=============================================================================

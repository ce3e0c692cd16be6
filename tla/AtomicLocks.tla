---------------------------- MODULE AtomicLocks -----------------------------
(***************************************************************************)
(* The __atomic_* library functions of compiler-rt (builtins/atomic.c).    *)
(* An object whose size and address allow it is accessed by one            *)
(* instruction; any other under one of an array of spin locks that a hash  *)
(* of its address chooses, copied part by part.  Different objects may     *)
(* share a lock.  A program accesses an object always with the same size,  *)
(* as C requires, so an object is either lock-free or it is not.           *)
(***************************************************************************)
EXTENDS Integers

CONSTANTS Threads, Objects, Locks,
          LockOf,      \* the hash: object -> lock
          LockFree,    \* objects that are lock-free
          N,           \* parts (bytes or words) memcpy copies an object in
          Part,        \* values of a part
          Inputs,      \* values the callers pass
          Ops,         \* calls the program makes
          Fetch(_, _), \* the operation of __atomic_fetch_*
          Blank,       \* contents of a local that was not written yet
          Nobody, NoOp, NoResult

Kinds == {"load", "store", "exchange", "compare_exchange", "fetch"}
Values == [1..N -> Part]

ASSUME AtomicAssumption ==
  /\ N \in Nat
  /\ LockOf \in [Objects -> Locks]
  /\ Inputs \subseteq Values /\ Blank \in Values
  /\ Ops \subseteq [kind : Kinds, obj : Objects, val : Inputs, expected : Inputs]
  /\ Nobody \notin Threads /\ NoOp \notin Ops /\ NoResult \notin Values
  /\ \A v, w \in Values : Fetch(v, w) \in Values

VARIABLES mem,    \* the bytes of every object
          lock,   \* the spin locks: Nobody, or the thread that took it
          op,     \* the arguments of each thread's call
          tmp,    \* what it has copied out of the object
          k,      \* how many parts the memcpy it is in has copied
          pc

vars == << mem, lock, op, tmp, k, pc >>

lock_for_pointer(o) == LockOf[o]

\* Mutant: a load takes the lock of its destination, not of its source.
LockOfDest(t) ==
  IF op[t].kind = "load" THEN CHOOSE l \in Locks : l # lock_for_pointer(op[t].obj)
  ELSE lock_for_pointer(op[t].obj)

LockFor(t) == lock_for_pointer(op[t].obj)

\* Does the operation write to an object that holds v?
Writes(o, v) == o.kind # "load" /\ (o.kind = "compare_exchange" => v = o.expected)

\* The value it leaves there.
Update(o, v) == IF ~ Writes(o, v) THEN v
                ELSE IF o.kind = "fetch" THEN Fetch(v, o.val) ELSE o.val

\* What the caller learns: the value found (so also whether it was the
\* expected one), and nothing new from a store.
Result(o, v) == IF o.kind = "store" THEN o.val ELSE v

Init ==
  /\ mem \in [Objects -> Inputs]
  /\ lock = [l \in Locks |-> Nobody]
  /\ op = [t \in Threads |-> NoOp]
  /\ tmp = [t \in Threads |-> Blank]
  /\ k = [t \in Threads |-> 0]
  /\ pc = [t \in Threads |-> "idle"]

Call(t, o) ==
  /\ pc[t] = "idle"
  /\ op' = [op EXCEPT ![t] = o]
  /\ pc' = [pc EXCEPT ![t] = IF o.obj \in LockFree THEN "free" ELSE "lock"]
  /\ UNCHANGED << mem, lock, tmp, k >>

\* LOCK_FREE_ACTION: one atomic instruction.
Instruction(t) ==
  LET o == op[t]
  IN  /\ pc[t] = "free"
      /\ mem' = [mem EXCEPT ![o.obj] = Update(o, mem[o.obj])]
      /\ tmp' = [tmp EXCEPT ![t] = mem[o.obj]]
      /\ pc' = [pc EXCEPT ![t] = "return"]
      /\ UNCHANGED << lock, op, k >>

\* The compare-and-exchange of lock() that succeeds.
Lock(t) ==
  /\ pc[t] = "lock" /\ lock[LockFor(t)] = Nobody
  /\ lock' = [lock EXCEPT ![LockFor(t)] = t]
  /\ pc' = [pc EXCEPT ![t] = IF op[t].kind = "store" THEN "write" ELSE "read"]
  /\ k' = [k EXCEPT ![t] = 0]
  /\ UNCHANGED << mem, op, tmp >>

\* memcpy or memcmp from the object, one part of it.
ReadPart(t) ==
  LET i == k[t] + 1
  IN  /\ pc[t] = "read" /\ k[t] < N
      /\ tmp' = [tmp EXCEPT ![t][i] = mem[op[t].obj][i]]
      /\ k' = [k EXCEPT ![t] = i]
      /\ UNCHANGED << mem, lock, op, pc >>

\* What follows the first read of an object that held v.
AfterRead(o, v) == IF Writes(o, v) THEN "write"
                   ELSE IF o.kind = "compare_exchange" THEN "expected" ELSE "unlock"

\* Mutant: a compare and exchange that fails tries again, holding the lock.
RetryLocked(t) ==
  /\ pc[t] = "read" /\ k[t] = N
  /\ pc' = [pc EXCEPT ![t] = IF AfterRead(op[t], tmp[t]) = "expected" THEN "read"
                             ELSE AfterRead(op[t], tmp[t])]
  /\ k' = [k EXCEPT ![t] = 0]
  /\ UNCHANGED << mem, lock, op, tmp >>

ReadAll(t) ==
  /\ pc[t] = "read" /\ k[t] = N
  /\ pc' = [pc EXCEPT ![t] = AfterRead(op[t], tmp[t])]
  /\ k' = [k EXCEPT ![t] = 0]
  /\ UNCHANGED << mem, lock, op, tmp >>

\* A compare and exchange that fails reads the object again, into *expected.
ExpectedPart(t) ==
  LET i == k[t] + 1
  IN  /\ pc[t] = "expected" /\ k[t] < N
      /\ tmp' = [tmp EXCEPT ![t][i] = mem[op[t].obj][i]]
      /\ k' = [k EXCEPT ![t] = i]
      /\ UNCHANGED << mem, lock, op, pc >>

ExpectedAll(t) ==
  /\ pc[t] = "expected" /\ k[t] = N
  /\ pc' = [pc EXCEPT ![t] = "unlock"]
  /\ UNCHANGED << mem, lock, op, tmp, k >>

\* memcpy to the object, one part of it.
WritePart(t) ==
  LET i == k[t] + 1
  IN  /\ pc[t] = "write" /\ k[t] < N
      /\ mem' = [mem EXCEPT ![op[t].obj][i] = Update(op[t], tmp[t])[i]]
      /\ k' = [k EXCEPT ![t] = i]
      /\ UNCHANGED << lock, op, tmp, pc >>

WroteAll(t) ==
  /\ pc[t] = "write" /\ k[t] = N
  /\ pc' = [pc EXCEPT ![t] = "unlock"]
  /\ UNCHANGED << mem, lock, op, tmp, k >>

\* Mutant: a compare and exchange that fails returns without unlock().
UnlockWritten(t) ==
  /\ pc[t] = "unlock"
  /\ lock' = IF Writes(op[t], tmp[t]) \/ op[t].kind = "load"
             THEN [lock EXCEPT ![LockFor(t)] = Nobody] ELSE lock
  /\ pc' = [pc EXCEPT ![t] = "return"]
  /\ UNCHANGED << mem, op, tmp, k >>

Unlock(t) ==
  /\ pc[t] = "unlock"
  /\ lock' = [lock EXCEPT ![LockFor(t)] = Nobody]
  /\ pc' = [pc EXCEPT ![t] = "return"]
  /\ UNCHANGED << mem, op, tmp, k >>

Return(t) ==
  /\ pc[t] = "return"
  /\ op' = [op EXCEPT ![t] = NoOp]
  /\ tmp' = [tmp EXCEPT ![t] = Blank]
  /\ k' = [k EXCEPT ![t] = 0]
  /\ pc' = [pc EXCEPT ![t] = "idle"]
  /\ UNCHANGED << mem, lock >>

Step(t) == \/ Instruction(t) \/ Lock(t) \/ ReadPart(t) \/ ReadAll(t)
           \/ ExpectedPart(t) \/ ExpectedAll(t)
           \/ WritePart(t) \/ WroteAll(t) \/ Unlock(t) \/ Return(t)

Next == \E t \in Threads : Step(t) \/ \E o \in Ops : Call(t, o)

Spec == Init /\ [][Next]_vars
\* Every thread inside the library runs on.
FairSpec == Spec /\ \A t \in Threads : WF_vars(Step(t))

-----------------------------------------------------------------------------
\* The state of AtomicCell a state stands for.  A write has taken effect when
\* the thread turns to its memcpy, a read when it has copied the last part.
Writer(o) == lock[lock_for_pointer(o)]
CellBar ==
  [o \in Objects |->
     IF o \notin LockFree /\ Writer(o) \in Threads
          /\ pc[Writer(o)] = "write" /\ op[Writer(o)].obj = o
     THEN Update(op[Writer(o)], tmp[Writer(o)])
     ELSE mem[o]]
Effective(t) == pc[t] \in {"write", "expected", "unlock", "return"}
AnswerBar ==
  [t \in Threads |-> IF Effective(t) THEN Result(op[t], tmp[t]) ELSE NoResult]

Cells == INSTANCE AtomicCell WITH cell <- CellBar, call <- op, answer <- AnswerBar

(* Every call is atomic: the part-by-part copies under hashed, shared locks *)
(* implement the abstract cells, and so do calls on lock-free objects.      *)
Linearizable == Cells!CellSpec

(* A thread holds the lock of its object exactly from lock() to unlock():   *)
(* no early return of __atomic_compare_exchange keeps it, and two threads   *)
(* are never both between lock() and unlock() of one lock.                  *)
LocksHeld ==
  \A l \in Locks, t \in Threads :
    (lock[l] = t) <=>
      (pc[t] \in {"read", "expected", "write", "unlock"} /\ LockFor(t) = l)

(* A lock that is taken is given back, whatever the callers do.             *)
LocksReleased == \A l \in Locks : lock[l] # Nobody ~> lock[l] = Nobody
=============================================================================

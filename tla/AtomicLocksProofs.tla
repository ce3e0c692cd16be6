------------------------- MODULE AtomicLocksProofs --------------------------
(***************************************************************************)
(* Theorems about AtomicLocks: its locks exclude, and it implements        *)
(* AtomicCell.                                                             *)
(***************************************************************************)
EXTENDS AtomicLocks, TLAPS

(***************************************************************************)
(* The inductive invariant of AtomicLocks, for every number of threads,    *)
(* objects and locks, every hash and every size of object.                 *)
(***************************************************************************)

PCs == {"idle", "free", "lock", "read", "expected", "write", "unlock", "return"}
Inside(t) == pc[t] \in {"read", "expected", "write", "unlock"}

TypeInv ==
  /\ mem \in [Objects -> Values]
  /\ lock \in [Locks -> Threads \cup {Nobody}]
  /\ op \in [Threads -> Ops \cup {NoOp}]
  /\ tmp \in [Threads -> Values]
  /\ k \in [Threads -> 0..N]
  /\ pc \in [Threads -> PCs]

\* A thread has a call unless it is idle, and takes the path of its object.
Calling ==
  \A t \in Threads :
    /\ (op[t] = NoOp) <=> (pc[t] = "idle")
    /\ pc[t] = "free" => op[t].obj \in LockFree
    /\ pc[t] \in {"lock", "read", "expected", "write", "unlock"} => op[t].obj \notin LockFree

\* What the copies have done so far.
Copied ==
  \A t \in Threads :
    /\ pc[t] = "read" => \A i \in 1..k[t] : tmp[t][i] = mem[op[t].obj][i]
    /\ pc[t] = "expected" => tmp[t] = mem[op[t].obj]
    /\ pc[t] = "write" =>
         /\ Writes(op[t], tmp[t])
         /\ \A i \in 1..k[t] : mem[op[t].obj][i] = Update(op[t], tmp[t])[i]

AtomicInv == TypeInv /\ Calling /\ LocksHeld /\ Copied

LEMMA OpTypes ==
  ASSUME NEW o \in Ops
  PROVE  /\ o.kind \in Kinds /\ o.obj \in Objects
         /\ o.val \in Values /\ o.expected \in Values
  BY AtomicAssumption, Zenon

LEMMA UpdateFacts ==
  ASSUME NEW o \in Ops, NEW v \in Values
  PROVE  /\ Update(o, v) \in Values
         /\ Result(o, v) # NoResult
         /\ ~ Writes(o, v) => Update(o, v) = v /\ o.kind # "store"
         /\ o.kind = "store" =>
              \A w : Update(o, w) = Update(o, v) /\ Result(o, w) = Result(o, v)
<1>1. /\ o.kind \in Kinds /\ o.val \in Values /\ o.expected \in Values
  BY OpTypes, Zenon
<1>2. Fetch(v, o.val) \in Values
  BY <1>1, AtomicAssumption, Zenon
<1>3. Update(o, v) \in Values
  BY <1>1, <1>2, Zenon DEF Update
<1>4. Result(o, v) # NoResult
  BY <1>1, AtomicAssumption, Zenon DEF Result
<1>5. ~ Writes(o, v) => Update(o, v) = v /\ o.kind # "store"
  BY <1>1, Zenon DEF Writes, Update
<1>6. o.kind = "store" =>
        \A w : Update(o, w) = Update(o, v) /\ Result(o, w) = Result(o, v)
  BY Zenon DEF Update, Result, Writes
<1> QED BY <1>3, <1>4, <1>5, <1>6, Zenon

LEMMA Extensional ==
  ASSUME NEW v \in Values, NEW w \in Values, \A i \in 1..N : v[i] = w[i]
  PROVE  v = w
<1>1. v = [i \in 1..N |-> v[i]] /\ w = [i \in 1..N |-> w[i]]
  BY Zenon DEF Values
<1> QED BY <1>1, Zenon

LEMMA InitInv == Init => AtomicInv
<1> SUFFICES ASSUME Init PROVE AtomicInv
  BY Zenon
<1> USE AtomicAssumption DEF Init
<1>1. TypeInv
  BY DEF TypeInv, PCs
<1>2. Calling /\ Copied
  BY Zenon DEF Calling, Copied
<1>3. LocksHeld
  BY Zenon DEF LocksHeld
<1> QED BY <1>1, <1>2, <1>3, Zenon DEF AtomicInv

-----------------------------------------------------------------------------
\* The invariant is preserved, conjunct by conjunct.
LEMMA TypeStep == AtomicInv /\ Next => TypeInv'
<1> SUFFICES ASSUME AtomicInv, NEW t \in Threads, Step(t) \/ \E o \in Ops : Call(t, o)
             PROVE  TypeInv'
  BY Zenon DEF Next
<1> USE AtomicAssumption DEF AtomicInv, TypeInv, PCs
<1>o. pc[t] # "idle" => op[t] \in Ops /\ op[t].obj \in Objects /\ LockFor(t) \in Locks
  BY OpTypes, Zenon DEF Calling, LockFor, lock_for_pointer
<1>1. CASE \E o \in Ops : Call(t, o)
  BY <1>1 DEF Call
<1>2. CASE Instruction(t)
  BY <1>2, <1>o, UpdateFacts, Zenon DEF Instruction
<1>3. CASE Lock(t)
  BY <1>3, <1>o, SMTT(60) DEF Lock
<1>4. CASE ReadPart(t)
  <2>1. k[t] + 1 \in 1..N
    BY <1>4 DEF ReadPart
  <2>2. mem[op[t].obj][k[t] + 1] \in Part
    BY <1>4, <1>o, <2>1 DEF ReadPart, Values
  <2> QED BY <1>4, <1>o, <2>1, <2>2 DEF ReadPart, Values
<1>5. CASE ReadAll(t)
  BY <1>5, SMTT(60) DEF ReadAll, AfterRead
<1>a. CASE ExpectedPart(t)
  <2>1. k[t] + 1 \in 1..N
    BY <1>a DEF ExpectedPart
  <2>2. mem[op[t].obj][k[t] + 1] \in Part
    BY <1>a, <1>o, <2>1, SMTT(60) DEF ExpectedPart, Values
  <2> QED BY <1>a, <1>o, <2>1, <2>2 DEF ExpectedPart, Values
<1>b. CASE ExpectedAll(t)
  BY <1>b, Zenon DEF ExpectedAll
<1>6. CASE WritePart(t)
  <2>1. k[t] + 1 \in 1..N
    BY <1>6 DEF WritePart
  <2>2. Update(op[t], tmp[t]) \in Values
    BY <1>6, <1>o, UpdateFacts, Zenon DEF WritePart
  <2>3. Update(op[t], tmp[t])[k[t] + 1] \in Part
    BY <2>1, <2>2, Zenon DEF Values
  <2> QED BY <1>6, <1>o, <2>1, <2>3 DEF WritePart, Values
<1>7. CASE WroteAll(t)
  BY <1>7, Zenon DEF WroteAll
<1>8. CASE Unlock(t)
  BY <1>8, <1>o, Zenon DEF Unlock
<1>9. CASE Return(t)
  BY <1>9 DEF Return
<1> QED BY <1>1, <1>2, <1>3, <1>4, <1>5, <1>a, <1>b, <1>6, <1>7, <1>8, <1>9, Zenon DEF Step

LEMMA CallingStep == AtomicInv /\ Next => Calling'
<1> SUFFICES ASSUME AtomicInv, NEW t \in Threads, Step(t) \/ \E o \in Ops : Call(t, o)
             PROVE  Calling'
  BY Zenon DEF Next
<1> USE AtomicAssumption DEF AtomicInv, TypeInv, PCs, Calling
<1>1. CASE \E o \in Ops : Call(t, o)
  <2>1. PICK o \in Ops : Call(t, o)
    BY <1>1, Zenon
  <2>2. o # NoOp /\ pc'[t] # "idle" /\ op'[t] = o
    BY <2>1, ZenonT(60) DEF Call
  <2>3. /\ pc'[t] = "free" => o.obj \in LockFree
        /\ pc'[t] \in {"lock", "read", "expected", "write", "unlock"} => o.obj \notin LockFree
    BY <2>1, ZenonT(60) DEF Call
  <2>4. \A u \in Threads : u # t => pc'[u] = pc[u] /\ op'[u] = op[u]
    BY <2>1, ZenonT(60) DEF Call
  <2> QED BY <2>2, <2>3, <2>4, ZenonT(60)
<1>2. CASE Instruction(t)
  BY <1>2, ZenonT(60) DEF Instruction
<1>3. CASE Lock(t)
  BY <1>3, ZenonT(60) DEF Lock
<1>4. CASE ReadPart(t)
  BY <1>4, ZenonT(60) DEF ReadPart
<1>5. CASE ReadAll(t)
  <2>1. AfterRead(op[t], tmp[t]) \in {"expected", "write", "unlock"}
    BY Zenon DEF AfterRead
  <2> QED BY <1>5, <2>1, ZenonT(60) DEF ReadAll
<1>a. CASE ExpectedPart(t)
  BY <1>a, ZenonT(60) DEF ExpectedPart
<1>b. CASE ExpectedAll(t)
  BY <1>b, ZenonT(60) DEF ExpectedAll
<1>6. CASE WritePart(t)
  BY <1>6, ZenonT(60) DEF WritePart
<1>7. CASE WroteAll(t)
  BY <1>7, ZenonT(60) DEF WroteAll
<1>8. CASE Unlock(t)
  BY <1>8, ZenonT(60) DEF Unlock
<1>9. CASE Return(t)
  BY <1>9, ZenonT(60) DEF Return
<1> QED BY <1>1, <1>2, <1>3, <1>4, <1>5, <1>a, <1>b, <1>6, <1>7, <1>8, <1>9, Zenon DEF Step

LEMMA LocksStep == AtomicInv /\ Next => LocksHeld'
<1> SUFFICES ASSUME AtomicInv, NEW t \in Threads, Step(t) \/ \E o \in Ops : Call(t, o)
             PROVE  LocksHeld'
  BY Zenon DEF Next
<1> USE AtomicAssumption DEF AtomicInv, TypeInv, PCs, LocksHeld, LockFor, lock_for_pointer
<1>o. pc[t] # "idle" => op[t] \in Ops /\ op[t].obj \in Objects /\ LockOf[op[t].obj] \in Locks
  BY OpTypes DEF Calling
<1>1. CASE \E o \in Ops : Call(t, o)
  BY <1>1, SMTT(60) DEF Call
<1>2. CASE Lock(t)
  BY <1>2, <1>o DEF Lock
<1>3. CASE Unlock(t)
  BY <1>3, <1>o, SMTT(60) DEF Unlock
<1>4. CASE Instruction(t) \/ ReadPart(t) \/ ReadAll(t) \/ WritePart(t) \/ WroteAll(t) \/ Return(t)
  BY <1>4, SMTT(60) DEF Instruction, ReadPart, ReadAll, AfterRead, WritePart, WroteAll, Return
<1>5. CASE ExpectedPart(t) \/ ExpectedAll(t)
  BY <1>5 DEF ExpectedPart, ExpectedAll
<1> QED BY <1>1, <1>2, <1>3, <1>4, <1>5, Zenon DEF Step

\* Two threads between lock() and unlock() have different objects.
LEMMA Exclusive ==
  ASSUME AtomicInv, NEW t \in Threads, NEW u \in Threads, Inside(t), Inside(u),
         op[t].obj = op[u].obj
  PROVE  t = u
<1>1. LockOf[op[t].obj] \in Locks
  BY OpTypes, AtomicAssumption, Zenon DEF AtomicInv, TypeInv, Calling, Inside
<1> QED BY <1>1 DEF AtomicInv, LocksHeld, LockFor, lock_for_pointer, Inside

\* The second read of a failing compare and exchange finds what the first did.
LEMMA ExpectedSame ==
  ASSUME AtomicInv, NEW t \in Threads, ExpectedPart(t)
  PROVE  tmp' = tmp
<1>1. tmp[t] = mem[op[t].obj] /\ tmp \in [Threads -> [1..N -> Part]]
  BY Zenon DEF AtomicInv, Copied, TypeInv, Values, ExpectedPart
<1>2. k[t] + 1 \in 1..N
  BY AtomicAssumption DEF AtomicInv, TypeInv, ExpectedPart
<1>3. tmp' = [tmp EXCEPT ![t] = [tmp[t] EXCEPT ![k[t] + 1] = tmp[t][k[t] + 1]]]
  BY <1>1, Zenon DEF ExpectedPart
<1>4. [tmp[t] EXCEPT ![k[t] + 1] = tmp[t][k[t] + 1]] = tmp[t]
  BY <1>1, <1>2, Zenon
<1> QED BY <1>1, <1>3, <1>4, Zenon

LEMMA CopiedStep == AtomicInv /\ Next => Copied'
<1> SUFFICES ASSUME AtomicInv, NEW t \in Threads, Step(t) \/ \E o \in Ops : Call(t, o),
                    NEW u \in Threads
             PROVE  /\ pc'[u] = "read" => \A i \in 1..k'[u] : tmp'[u][i] = mem'[op'[u].obj][i]
                    /\ pc'[u] = "expected" => tmp'[u] = mem'[op'[u].obj]
                    /\ pc'[u] = "write" =>
                         /\ Writes(op'[u], tmp'[u])
                         /\ \A i \in 1..k'[u] : mem'[op'[u].obj][i] = Update(op'[u], tmp'[u])[i]
  BY Zenon DEF Next, Copied
<1> USE AtomicAssumption DEF AtomicInv, TypeInv, PCs, Copied
<1>o. /\ pc[t] # "idle" => op[t] \in Ops /\ op[t].obj \in Objects
      /\ pc[u] # "idle" => op[u] \in Ops /\ op[u].obj \in Objects
  BY OpTypes, SMTT(30) DEF Calling
<1>1. CASE \E o \in Ops : Call(t, o)
  BY <1>1, SMTT(30) DEF Call
<1>2. CASE Instruction(t)
  <2>1. Inside(u) => op[u].obj # op[t].obj
    BY <1>2, Zenon DEF Instruction, Calling, Inside
  <2> QED BY <1>2, <1>o, <2>1, ZenonT(120) DEF Instruction, Inside
<1>3. CASE Lock(t)
  BY <1>3, <1>o, SMTT(30) DEF Lock, Writes
<1>4. CASE ReadPart(t)
  <2>1. CASE u = t
    <3>1. k[t] + 1 \in 1..N /\ k'[t] = k[t] + 1 /\ pc'[t] = "read"
      BY <1>4, SMTT(60) DEF ReadPart
    <3>2. \A i \in 1..k'[t] : i \in 1..k[t] \/ i = k[t] + 1
      BY <3>1
    <3>3. tmp[t] \in [1..N -> Part]
      BY Zenon DEF Values
    <3>4. tmp'[t] = [tmp[t] EXCEPT ![k[t] + 1] = mem[op[t].obj][k[t] + 1]]
      BY <1>4, ZenonT(60) DEF ReadPart
    <3>5. \A i \in 1..k[t] : i \in 1..N /\ i # k[t] + 1 /\ tmp[t][i] = mem[op[t].obj][i]
      BY <1>4, <3>1, SMTT(60) DEF ReadPart
    <3>6. \A i \in 1..k'[t] : tmp'[t][i] = mem[op[t].obj][i]
      <4> HIDE DEF AtomicInv, TypeInv, Copied
      <4> QED BY <3>1, <3>2, <3>3, <3>4, <3>5
    <3> QED BY <1>4, <2>1, <3>1, <3>6 DEF ReadPart
  <2>2. CASE u # t
    BY <1>4, <2>2, ZenonT(30) DEF ReadPart
  <2> QED BY <2>1, <2>2, Zenon
<1>5. CASE ReadAll(t)
  <2>1. CASE u = t
    <3>1. /\ pc[t] = "read" /\ k[t] = N /\ k'[t] = 0
          /\ op' = op /\ mem' = mem /\ tmp' = tmp
          /\ pc'[t] = AfterRead(op[t], tmp[t])
      BY <1>5, Zenon DEF ReadAll
    <3>2. mem[op[t].obj] \in Values /\ tmp[t] \in Values
      BY <3>1, <1>o, Zenon
    <3>3. tmp[t] = mem[op[t].obj]
      <4>1. \A i \in 1..N : tmp[t][i] = mem[op[t].obj][i]
        BY <3>1, Zenon
      <4> HIDE DEF AtomicInv, TypeInv, Copied
      <4> QED BY <4>1, <3>2, Extensional, Zenon
    <3>4. /\ pc'[t] # "read"
          /\ pc'[t] = "write" => Writes(op[t], tmp[t])
      BY <3>1, Zenon DEF AfterRead
    <3> QED BY <2>1, <3>1, <3>3, <3>4, SMTT(30)
  <2>2. CASE u # t
    BY <1>5, <2>2, ZenonT(60) DEF ReadAll
  <2> QED BY <2>1, <2>2, Zenon
<1>a. CASE ExpectedPart(t)
  <2>1. tmp' = tmp
    BY <1>a, ExpectedSame, Zenon
  <2>2. /\ pc[t] = "expected" /\ pc' = pc /\ op' = op /\ mem' = mem
        /\ (u # t => k'[u] = k[u])
    BY <1>a, Zenon DEF ExpectedPart
  <2> QED BY <2>1, <2>2, Zenon
<1>b. CASE ExpectedAll(t)
  BY <1>b, ZenonT(60) DEF ExpectedAll
<1>6. CASE WritePart(t)
  <2>0. k[t] + 1 \in 1..N /\ k'[t] = k[t] + 1 /\ pc'[t] = "write"
    BY <1>6, SMTT(30) DEF WritePart
  <2>1. CASE u = t
    <3>1. \A i \in 1..k'[t] : i \in 1..k[t] \/ i = k[t] + 1
      <4>1. k[t] \in Nat /\ k'[t] = k[t] + 1
        BY <2>0, SMTT(30)
      <4> HIDE DEF AtomicInv, TypeInv, Copied
      <4> QED BY <4>1, SMTT(60)
    <3>2. mem[op[t].obj] \in [1..N -> Part] /\ op[t].obj \in Objects
      BY <1>6, <1>o, Zenon DEF Values, WritePart
    <3>3. mem'[op[t].obj] = [mem[op[t].obj] EXCEPT ![k[t] + 1] = Update(op[t], tmp[t])[k[t] + 1]]
      BY <1>6, <3>2, ZenonT(30) DEF WritePart
    <3>4. \A i \in 1..k[t] : /\ i \in 1..N /\ i # k[t] + 1
                             /\ mem[op[t].obj][i] = Update(op[t], tmp[t])[i]
      BY <1>6, <2>0, SMTT(30) DEF WritePart
    <3>5. \A i \in 1..k'[t] : mem'[op[t].obj][i] = Update(op[t], tmp[t])[i]
      BY <2>0, <3>1, <3>2, <3>3, <3>4, SMTT(30)
    <3> QED BY <1>6, <2>1, <2>0, <3>5 DEF WritePart
  <2>2. CASE u # t
    <3>1. Inside(u) => op[u].obj # op[t].obj
      <4>1. Inside(t)
        BY <1>6, Zenon DEF WritePart, Inside
      <4> HIDE DEF AtomicInv
      <4> QED BY <2>2, <4>1, Exclusive, Zenon
    <3> QED BY <1>6, <1>o, <2>2, <3>1, ZenonT(60) DEF WritePart, Inside
  <2> QED BY <2>1, <2>2, Zenon
<1>7. CASE WroteAll(t)
  <2>1. /\ op' = op /\ tmp' = tmp /\ mem' = mem /\ k' = k
        /\ pc'[u] \in {"unlock", pc[u]}
    BY <1>7, ZenonT(30) DEF WroteAll
  <2> HIDE DEF TypeInv
  <2> QED BY <2>1, ZenonT(60)
<1>8. CASE Unlock(t)
  <2>1. /\ op' = op /\ tmp' = tmp /\ mem' = mem /\ k' = k
        /\ pc'[u] \in {"return", pc[u]}
    BY <1>8, ZenonT(30) DEF Unlock
  <2> HIDE DEF TypeInv
  <2> QED BY <2>1, ZenonT(30)
<1>9. CASE Return(t)
  BY <1>9, ZenonT(60) DEF Return
<1> QED BY <1>1, <1>2, <1>3, <1>4, <1>5, <1>a, <1>b, <1>6, <1>7, <1>8, <1>9, ZenonT(30) DEF Step

LEMMA Invariance == Spec => []AtomicInv
<1>1. AtomicInv /\ [Next]_vars => AtomicInv'
  <2>1. ASSUME AtomicInv, Next PROVE AtomicInv'
    BY <2>1, TypeStep, CallingStep, LocksStep, CopiedStep, Zenon DEF AtomicInv
  <2>2. ASSUME AtomicInv, UNCHANGED vars PROVE AtomicInv'
    <3>1. TypeInv' /\ Calling'
      BY <2>2, Zenon DEF vars, AtomicInv, TypeInv, Calling
    <3>2. LocksHeld'
      BY <2>2, Zenon DEF vars, AtomicInv, LocksHeld, LockFor, lock_for_pointer
    <3>3. Copied'
      BY <2>2, ZenonT(30) DEF vars, AtomicInv, Copied
    <3> QED BY <3>1, <3>2, <3>3, Zenon DEF AtomicInv
  <2> QED BY <2>1, <2>2, Zenon
<1> QED BY <1>1, InitInv, PTL DEF Spec

(* The lock array of atomic.c excludes: a thread holds the lock of its      *)
(* object from lock() to unlock(), on every path through every function.    *)
THEOREM LocksExclude == Spec => []LocksHeld
  BY Invariance, PTL DEF AtomicInv

-----------------------------------------------------------------------------
(***************************************************************************)
(* AtomicLocks implements AtomicCell, for every number of threads, objects *)
(* and locks, every hash and every size of object.                         *)
(***************************************************************************)

\* What CellBar is where it matters.
BarOf(t) ==
  /\ pc[t] = "write" => CellBar[op[t].obj] = Update(op[t], tmp[t])
  /\ pc[t] \in {"free", "read", "expected", "unlock"} => CellBar[op[t].obj] = mem[op[t].obj]
  /\ pc[t] = "lock" /\ lock[LockFor(t)] = Nobody => CellBar[op[t].obj] = mem[op[t].obj]
Bars == \A t \in Threads : pc[t] # "idle" =>
          op[t] \in Ops /\ op[t].obj \in Objects /\ BarOf(t)

LEMMA BarFacts == AtomicInv => Bars
<1> SUFFICES ASSUME AtomicInv, NEW t \in Threads, pc[t] # "idle"
             PROVE  op[t] \in Ops /\ op[t].obj \in Objects /\ BarOf(t)
  BY Zenon DEF Bars
<1>1. op[t] \in Ops /\ op[t].obj \in Objects /\ LockOf[op[t].obj] \in Locks
  BY OpTypes, AtomicAssumption, Zenon DEF AtomicInv, TypeInv, Calling
<1> DEFINE o == op[t].obj
           w == lock[LockOf[o]]
<1>2. /\ pc[t] = "free" => o \in LockFree
      /\ pc[t] \in {"read", "expected", "write", "unlock"} => o \notin LockFree /\ w = t
      /\ pc[t] = "lock" /\ lock[LockFor(t)] = Nobody => w = Nobody
  <2>1. /\ pc[t] = "free" => o \in LockFree
        /\ pc[t] \in {"read", "expected", "write", "unlock"} => o \notin LockFree
    BY Zenon DEF AtomicInv, Calling
  <2>2. pc[t] \in {"read", "expected", "write", "unlock"} => w = t
    BY <1>1 DEF AtomicInv, LocksHeld, LockFor, lock_for_pointer
  <2> QED BY <2>1, <2>2, Zenon DEF LockFor, lock_for_pointer
<1>3. CellBar[o] = IF o \notin LockFree /\ w \in Threads /\ pc[w] = "write" /\ op[w].obj = o
                   THEN Update(op[w], tmp[w]) ELSE mem[o]
  BY <1>1, Zenon DEF CellBar, Writer, lock_for_pointer
<1>4. /\ pc[t] = "write" => CellBar[o] = Update(op[t], tmp[t])
      /\ pc[t] \in {"free", "read", "expected", "unlock"} => CellBar[o] = mem[o]
  BY <1>2, <1>3, Zenon
<1>5. pc[t] = "lock" /\ lock[LockFor(t)] = Nobody => CellBar[o] = mem[o]
  BY <1>2, <1>3, AtomicAssumption, Zenon
<1> QED BY <1>1, <1>4, <1>5, Zenon DEF BarOf

LEMMA BarFactsNext == AtomicInv' => Bars'
  BY BarFacts, PTL

\* A step of t leaves the locals of the other threads alone.
LEMMA Frame ==
  ASSUME TypeInv, NEW t \in Threads, Step(t) \/ \E o \in Ops : Call(t, o),
         NEW u \in Threads, u # t
  PROVE  op'[u] = op[u] /\ tmp'[u] = tmp[u] /\ pc'[u] = pc[u]
<1> USE DEF TypeInv
<1>1. CASE \E o \in Ops : Call(t, o)
  BY <1>1, Zenon DEF Call
<1>2. CASE Instruction(t) \/ Lock(t) \/ Unlock(t) \/ Return(t)
  BY <1>2, Zenon DEF Instruction, Lock, Unlock, Return
<1>3. CASE ReadPart(t) \/ ReadAll(t)
  BY <1>3, Zenon DEF ReadPart, ReadAll
<1>5. CASE ExpectedPart(t) \/ ExpectedAll(t)
  BY <1>5, Zenon DEF ExpectedPart, ExpectedAll
<1>4. CASE WritePart(t) \/ WroteAll(t)
  BY <1>4, Zenon DEF WritePart, WroteAll
<1> QED BY <1>1, <1>2, <1>3, <1>4, <1>5, Zenon DEF Step

\* And the objects other than its own.
LEMMA ObjectFrame ==
  ASSUME AtomicInv, NEW t \in Threads, Step(t) \/ \E o \in Ops : Call(t, o),
         NEW o \in Objects, op[t] # NoOp => o # op[t].obj
  PROVE  mem'[o] = mem[o]
<1>1. mem \in [Objects -> Values] /\ (pc[t] # "idle" => op[t] # NoOp)
  BY Zenon DEF AtomicInv, TypeInv, Calling
<1>2. CASE Instruction(t) \/ WritePart(t)
  BY <1>1, <1>2, Zenon DEF Instruction, WritePart
<1>3. CASE mem' = mem
  BY <1>3, Zenon
<1> QED BY <1>2, <1>3, Zenon DEF Step, Call, Lock, ReadPart, ReadAll, ExpectedPart, ExpectedAll,
                          WroteAll, Unlock, Return

LEMMA OthersSame ==
  ASSUME AtomicInv, AtomicInv', NEW t \in Threads, Step(t) \/ \E o \in Ops : Call(t, o),
         NEW o \in Objects, op[t] # NoOp => o # op[t].obj, op'[t] # NoOp => o # op'[t].obj
  PROVE  CellBar'[o] = CellBar[o]
<1> DEFINE l == LockOf[o]
<1>1. mem'[o] = mem[o]
  BY ObjectFrame, Zenon
<1>2. l \in Locks /\ LocksHeld /\ LocksHeld' /\ TypeInv
  BY AtomicAssumption, Zenon DEF AtomicInv
<1>3. ASSUME NEW u \in Threads, u # t
      PROVE  /\ op'[u] = op[u] /\ tmp'[u] = tmp[u] /\ pc'[u] = pc[u]
             /\ lock'[l] = u <=> lock[l] = u
  <2>1. op'[u] = op[u] /\ tmp'[u] = tmp[u] /\ pc'[u] = pc[u]
    BY <1>2, <1>3, Frame, Zenon
  <2>2. /\ (lock[l] = u) <=> (pc[u] \in {"read", "expected", "write", "unlock"} /\ LockOf[op[u].obj] = l)
        /\ (lock'[l] = u) <=> (pc'[u] \in {"read", "expected", "write", "unlock"} /\ LockOf[op'[u].obj] = l)
    BY <1>2, SMTT(30) DEF LocksHeld, LockFor, lock_for_pointer
  <2> QED BY <2>1, <2>2, Zenon
<1>4. CASE \E u \in Threads : u # t /\ lock[l] = u
  <2>1. PICK u \in Threads : u # t /\ lock[l] = u
    BY <1>4, Zenon
  <2>2. lock'[l] = u /\ op'[u] = op[u] /\ tmp'[u] = tmp[u] /\ pc'[u] = pc[u]
    BY <2>1, <1>3, Zenon
  <2> QED BY <1>1, <2>1, <2>2, ZenonT(60) DEF CellBar, Writer, lock_for_pointer
<1>5. CASE ~ \E u \in Threads : u # t /\ lock[l] = u
  <2>1. (op[t] = NoOp) <=> (pc[t] = "idle")
    BY Zenon DEF AtomicInv, Calling
  <2>2. (op'[t] = NoOp) <=> (pc'[t] = "idle")
    BY Zenon DEF AtomicInv, Calling
  <2>3. lock'[l] \notin Threads \ {t}
    BY <1>3, <1>5, Zenon
  <2>4. CellBar[o] = mem[o]
    BY <1>5, <2>1, Zenon DEF CellBar, Writer, lock_for_pointer
  <2>5. CellBar'[o] = mem'[o]
    BY <2>2, <2>3, Zenon DEF CellBar, Writer, lock_for_pointer
  <2> QED BY <2>4, <2>5, <1>1, Zenon
<1> QED BY <1>4, <1>5, Zenon

\* Nor does it touch the answer of another thread.
LEMMA AnswersSame ==
  ASSUME AtomicInv, NEW t \in Threads, Step(t) \/ \E o \in Ops : Call(t, o),
         NEW u \in Threads, u # t
  PROVE  AnswerBar'[u] = AnswerBar[u]
<1>1. op'[u] = op[u] /\ tmp'[u] = tmp[u] /\ pc'[u] = pc[u]
  BY Frame, Zenon DEF AtomicInv
<1> QED BY <1>1, Zenon DEF AnswerBar, Effective

\* The three shapes a step of t may have for the cells.
LEMMA EffectStep ==
  ASSUME AtomicInv, AtomicInv', NEW t \in Threads, Step(t), pc[t] # "idle", op' = op,
         ~ Effective(t), Effective(t)',
         CellBar'[op[t].obj] = Update(op[t], CellBar[op[t].obj]),
         Result(op[t], tmp'[t]) = Result(op[t], CellBar[op[t].obj])
  PROVE  Cells!TakeEffect(t)
<1>1. op[t] \in Ops /\ op[t] # NoOp /\ op[t].obj \in Objects
  BY BarFacts, AtomicAssumption, Zenon DEF Bars
<1>2. CellBar' = [CellBar EXCEPT ![op[t].obj] = Update(op[t], CellBar[op[t].obj])]
  <2>1. \A o \in Objects : o # op[t].obj => CellBar'[o] = CellBar[o]
    BY OthersSame, Zenon
  <2>2. /\ CellBar = [o \in Objects |-> CellBar[o]]
        /\ CellBar' = [o \in Objects |-> CellBar'[o]]
    BY Zenon DEF CellBar
  <2> QED BY <1>1, <2>1, <2>2, Zenon
<1>3. AnswerBar' = [AnswerBar EXCEPT ![t] = Result(op[t], CellBar[op[t].obj])]
  <2>1. AnswerBar'[t] = Result(op[t], CellBar[op[t].obj])
    BY Zenon DEF AnswerBar
  <2>2. \A u \in Threads : u # t => AnswerBar'[u] = AnswerBar[u]
    BY AnswersSame, Zenon
  <2>3. /\ AnswerBar = [u \in Threads |-> AnswerBar[u]]
        /\ AnswerBar' = [u \in Threads |-> AnswerBar'[u]]
    BY Zenon DEF AnswerBar
  <2> QED BY <2>1, <2>2, <2>3, Zenon
<1>4. AnswerBar[t] = NoResult
  BY Zenon DEF AnswerBar
<1> QED BY <1>1, <1>2, <1>3, <1>4, Zenon DEF Cells!TakeEffect

LEMMA StutterStep ==
  ASSUME AtomicInv, AtomicInv', NEW t \in Threads, Step(t), pc[t] # "idle", op' = op,
         CellBar'[op[t].obj] = CellBar[op[t].obj],
         AnswerBar'[t] = AnswerBar[t]
  PROVE  UNCHANGED Cells!vars
<1>1. \A o \in Objects : CellBar'[o] = CellBar[o]
  BY OthersSame, Zenon
<1>2. \A u \in Threads : AnswerBar'[u] = AnswerBar[u]
  BY AnswersSame, Zenon
<1>3. CellBar' = CellBar
  BY <1>1, Zenon DEF CellBar
<1>4. AnswerBar' = AnswerBar
  BY <1>2, Zenon DEF AnswerBar
<1> QED BY <1>3, <1>4, Zenon DEF Cells!vars

LEMMA StepRefines ==
  ASSUME AtomicInv, AtomicInv', NEW t \in Threads, Step(t)
  PROVE  Cells!TakeEffect(t) \/ Cells!Respond(t) \/ UNCHANGED Cells!vars
<1>0. pc[t] # "idle" /\ tmp[t] \in Values /\ tmp'[t] \in Values
  <2>1. pc[t] # "idle"
    BY Zenon DEF Step, Instruction, Lock, ReadPart, ReadAll, ExpectedPart, ExpectedAll,
           WritePart, WroteAll, Unlock, Return
  <2> QED BY <2>1, Zenon DEF AtomicInv, TypeInv
<1>b. /\ op[t] \in Ops /\ op[t].obj \in Objects /\ BarOf(t)
      /\ pc'[t] # "idle" => BarOf(t)'
  BY <1>0, BarFacts, BarFactsNext, Zenon DEF Bars
<1>1. mem[op[t].obj] \in Values
  BY <1>b, Zenon DEF AtomicInv, TypeInv
<1>2. CASE Instruction(t)
  <2>1. /\ pc[t] = "free" /\ pc'[t] = "return" /\ op' = op
        /\ tmp'[t] = mem[op[t].obj] /\ mem'[op[t].obj] = Update(op[t], mem[op[t].obj])
    BY <1>2, <1>b, Zenon DEF Instruction, AtomicInv, TypeInv
  <2>2. op[t].obj \in LockFree
    BY <2>1, Zenon DEF AtomicInv, Calling
  <2>3. CellBar[op[t].obj] = mem[op[t].obj] /\ CellBar'[op[t].obj] = mem'[op[t].obj]
    BY <2>2, <1>b, Zenon DEF CellBar
  <2>4. ~ Effective(t) /\ Effective(t)'
    BY <2>1, Zenon DEF Effective
  <2> QED BY <1>0, <2>1, <2>3, <2>4, EffectStep, Zenon
<1>3. CASE Lock(t)
  <2>1. /\ pc[t] = "lock" /\ lock[LockFor(t)] = Nobody /\ op' = op /\ tmp' = tmp /\ mem' = mem
        /\ pc'[t] = IF op[t].kind = "store" THEN "write" ELSE "read"
    BY <1>3, Zenon DEF Lock, AtomicInv, TypeInv
  <2>2. CellBar[op[t].obj] = mem[op[t].obj]
    BY <2>1, <1>b, Zenon DEF BarOf
  <2>3. CASE op[t].kind = "store"
    <3>1. CellBar'[op[t].obj] = Update(op[t], tmp[t])
      BY <2>1, <2>3, <1>b, Zenon DEF BarOf
    <3>2. CellBar'[op[t].obj] = Update(op[t], CellBar[op[t].obj])
      BY <3>1, <2>3, <1>0, <1>b, UpdateFacts, ZenonT(60)
    <3>3. Result(op[t], tmp'[t]) = Result(op[t], CellBar[op[t].obj])
      BY <2>3, Zenon DEF Result
    <3>4. ~ Effective(t) /\ Effective(t)'
      BY <2>1, <2>3, Zenon DEF Effective
    <3> QED BY <1>0, <2>1, <3>2, <3>3, <3>4, EffectStep, Zenon
  <2>4. CASE op[t].kind # "store"
    <3>1. CellBar'[op[t].obj] = mem[op[t].obj]
      BY <2>1, <2>4, <1>b, Zenon DEF BarOf
    <3>2. AnswerBar'[t] = AnswerBar[t]
      BY <2>1, <2>4, Zenon DEF AnswerBar, Effective
    <3> QED BY <1>0, <2>1, <2>2, <3>1, <3>2, StutterStep, Zenon
  <2> QED BY <2>3, <2>4, Zenon
<1>4. CASE ReadPart(t)
  <2>1. pc[t] = "read" /\ pc'[t] = "read" /\ op' = op /\ mem' = mem
    BY <1>4, Zenon DEF ReadPart
  <2>2. CellBar'[op[t].obj] = CellBar[op[t].obj]
    BY <2>1, <1>b, Zenon DEF BarOf
  <2>3. AnswerBar'[t] = AnswerBar[t]
    BY <2>1, Zenon DEF AnswerBar, Effective
  <2> QED BY <1>0, <2>1, <2>2, <2>3, StutterStep, Zenon
<1>5. CASE ReadAll(t)
  <2>1. /\ pc[t] = "read" /\ k[t] = N /\ op' = op /\ mem' = mem /\ tmp' = tmp
        /\ pc'[t] = IF Writes(op[t], tmp[t]) THEN "write"
                    ELSE IF op[t].kind = "compare_exchange" THEN "expected" ELSE "unlock"
    BY <1>5, Zenon DEF ReadAll, AfterRead, AtomicInv, TypeInv
  <2>2. tmp[t] = mem[op[t].obj]
    <3>1. \A i \in 1..N : tmp[t][i] = mem[op[t].obj][i]
      BY <2>1, Zenon DEF AtomicInv, Copied
    <3> QED BY <3>1, <1>0, <1>1, Extensional, Zenon
  <2>3. CellBar[op[t].obj] = tmp[t]
    BY <2>1, <2>2, <1>b, Zenon DEF BarOf
  <2>4. CellBar'[op[t].obj] = Update(op[t], tmp[t])
    BY <2>1, <2>2, <1>0, <1>b, UpdateFacts, ZenonT(30) DEF BarOf
  <2>5. ~ Effective(t) /\ Effective(t)'
    BY <2>1, Zenon DEF Effective
  <2> QED BY <1>0, <2>1, <2>3, <2>4, <2>5, EffectStep, Zenon
<1>c. CASE ExpectedPart(t)
  <2>1. /\ pc[t] = "expected" /\ pc'[t] = "expected" /\ op' = op /\ mem' = mem
        /\ tmp' = tmp
    BY <1>c, ExpectedSame, Zenon DEF ExpectedPart
  <2>2. CellBar'[op[t].obj] = CellBar[op[t].obj]
    BY <2>1, <1>b, Zenon DEF BarOf
  <2>3. AnswerBar'[t] = AnswerBar[t]
    BY <2>1, Zenon DEF AnswerBar, Effective
  <2> QED BY <1>0, <2>1, <2>2, <2>3, StutterStep, Zenon
<1>d. CASE ExpectedAll(t)
  <2>1. /\ pc[t] = "expected" /\ pc'[t] = "unlock"
        /\ op' = op /\ tmp' = tmp /\ mem' = mem
    BY <1>d, Zenon DEF ExpectedAll, AtomicInv, TypeInv
  <2>2. CellBar'[op[t].obj] = CellBar[op[t].obj]
    BY <2>1, <1>b, Zenon DEF BarOf
  <2>3. AnswerBar'[t] = AnswerBar[t]
    BY <2>1, Zenon DEF AnswerBar, Effective
  <2> QED BY <1>0, <2>1, <2>2, <2>3, StutterStep, Zenon
<1>6. CASE WritePart(t)
  <2>1. pc[t] = "write" /\ pc'[t] = "write" /\ op' = op /\ tmp' = tmp
    BY <1>6, Zenon DEF WritePart
  <2>2. CellBar'[op[t].obj] = CellBar[op[t].obj]
    BY <2>1, <1>b, Zenon DEF BarOf
  <2>3. AnswerBar'[t] = AnswerBar[t]
    BY <2>1, Zenon DEF AnswerBar, Effective
  <2> QED BY <1>0, <2>1, <2>2, <2>3, StutterStep, Zenon
<1>7. CASE WroteAll(t)
  <2>1. /\ pc[t] = "write" /\ k[t] = N /\ pc'[t] = "unlock"
        /\ op' = op /\ tmp' = tmp /\ mem' = mem
    BY <1>7, Zenon DEF WroteAll, AtomicInv, TypeInv
  <2>2. mem[op[t].obj] = Update(op[t], tmp[t])
    <3>1. \A i \in 1..N : mem[op[t].obj][i] = Update(op[t], tmp[t])[i]
      BY <2>1, Zenon DEF AtomicInv, Copied
    <3>2. Update(op[t], tmp[t]) \in Values
      BY <1>0, <1>b, UpdateFacts, Zenon
    <3> QED BY <3>1, <3>2, <1>1, Extensional, Zenon
  <2>3. CellBar'[op[t].obj] = CellBar[op[t].obj]
    BY <2>1, <2>2, <1>b, Zenon DEF BarOf
  <2>4. AnswerBar'[t] = AnswerBar[t]
    BY <2>1, Zenon DEF AnswerBar, Effective
  <2> QED BY <1>0, <2>1, <2>3, <2>4, StutterStep, Zenon
<1>8. CASE Unlock(t)
  <2>1. /\ pc[t] = "unlock" /\ pc'[t] = "return" /\ op' = op /\ tmp' = tmp /\ mem' = mem
        /\ lock' = [lock EXCEPT ![LockFor(t)] = Nobody]
    BY <1>8, Zenon DEF Unlock, AtomicInv, TypeInv
  <2>2. CellBar'[op[t].obj] = mem[op[t].obj]
    <3>1. LockOf[op[t].obj] \in Locks
      BY <1>b, AtomicAssumption, Zenon
    <3>2. lock'[LockOf[op[t].obj]] = Nobody
      BY <2>1, <3>1, Zenon DEF LockFor, lock_for_pointer, AtomicInv, TypeInv
    <3> QED BY <2>1, <3>2, <1>b, AtomicAssumption, ZenonT(30) DEF CellBar, Writer, lock_for_pointer
  <2>3. CellBar'[op[t].obj] = CellBar[op[t].obj]
    BY <2>1, <2>2, <1>b, Zenon DEF BarOf
  <2>4. AnswerBar'[t] = AnswerBar[t]
    BY <2>1, Zenon DEF AnswerBar, Effective
  <2> QED BY <1>0, <2>1, <2>3, <2>4, StutterStep, Zenon
<1>9. CASE Return(t)
  <2>1. pc[t] = "return" /\ op' = [op EXCEPT ![t] = NoOp] /\ pc'[t] = "idle"
    BY <1>9, ZenonT(60) DEF Return, AtomicInv, TypeInv
  <2>2. AnswerBar[t] # NoResult /\ AnswerBar'[t] = NoResult
    BY <2>1, <1>0, <1>b, UpdateFacts, Zenon DEF AnswerBar, Effective
  <2>3. AnswerBar' = [AnswerBar EXCEPT ![t] = NoResult]
    <3>1. \A u \in Threads : u # t => AnswerBar'[u] = AnswerBar[u]
      BY AnswersSame, Zenon
    <3>2. /\ AnswerBar = [u \in Threads |-> AnswerBar[u]]
          /\ AnswerBar' = [u \in Threads |-> AnswerBar'[u]]
      BY Zenon DEF AnswerBar
    <3> QED BY <2>2, <3>1, <3>2, Zenon
  <2>4. CellBar' = CellBar
    <3>1. ASSUME NEW o \in Objects PROVE CellBar'[o] = CellBar[o]
      <4>1. lock' = lock /\ mem' = mem
        BY <1>9, Zenon DEF Return
      <4>2. lock[LockOf[o]] # t
        BY <2>1, AtomicAssumption, Zenon DEF AtomicInv, LocksHeld
      <4>3. \A u \in Threads : u # t => op'[u] = op[u] /\ tmp'[u] = tmp[u] /\ pc'[u] = pc[u]
        BY Frame, Zenon DEF AtomicInv
      <4> QED BY <4>1, <4>2, <4>3, Zenon DEF CellBar, Writer, lock_for_pointer
    <3> QED BY <3>1, Zenon DEF CellBar
  <2> QED BY <2>1, <2>2, <2>3, <2>4, Zenon DEF Cells!Respond
<1> QED BY <1>2, <1>3, <1>4, <1>5, <1>c, <1>d, <1>6, <1>7, <1>8, <1>9, Zenon DEF Step

LEMMA CallRefines ==
  ASSUME AtomicInv, AtomicInv', NEW t \in Threads, NEW c \in Ops, Call(t, c)
  PROVE  Cells!Invoke(t, c)
<1>1. /\ pc[t] = "idle" /\ op[t] = NoOp /\ op' = [op EXCEPT ![t] = c]
      /\ pc'[t] \in {"free", "lock"} /\ lock' = lock /\ mem' = mem
  BY Zenon DEF Call, AtomicInv, TypeInv, Calling
<1>2. AnswerBar' = AnswerBar
  <2>1. AnswerBar'[t] = AnswerBar[t]
    BY <1>1, Zenon DEF AnswerBar, Effective
  <2>2. \A u \in Threads : u # t => AnswerBar'[u] = AnswerBar[u]
    BY AnswersSame, Zenon
  <2> QED BY <2>1, <2>2, Zenon DEF AnswerBar
<1>3. CellBar' = CellBar
  <2>1. ASSUME NEW o \in Objects PROVE CellBar'[o] = CellBar[o]
    <3>1. lock[LockOf[o]] # t
      BY <1>1, AtomicAssumption, ZenonT(60) DEF AtomicInv, LocksHeld
    <3>2. \A u \in Threads : u # t => op'[u] = op[u] /\ tmp'[u] = tmp[u] /\ pc'[u] = pc[u]
      BY Frame, Zenon DEF AtomicInv
    <3> QED BY <1>1, <3>1, <3>2, SMTT(30) DEF CellBar, Writer, lock_for_pointer
  <2> QED BY <2>1, ZenonT(60) DEF CellBar
<1> QED BY <1>1, <1>2, <1>3, Zenon DEF Cells!Invoke

LEMMA InitRefines == Init => Cells!CellInit
<1> SUFFICES ASSUME Init PROVE Cells!CellInit
  BY Zenon
<1>1. CellBar \in [Objects -> Values]
  BY AtomicAssumption, Zenon DEF Init, CellBar, Writer, lock_for_pointer
<1>2. AnswerBar = [t \in Threads |-> NoResult]
  BY Zenon DEF Init, AnswerBar, Effective
<1> QED BY <1>1, <1>2, Zenon DEF Init, Cells!CellInit

(* Every call of an __atomic_* function takes effect at one moment, however *)
(* the part-by-part copies of the threads interleave and whichever objects  *)
(* the hash gives the same lock.                                            *)
THEOREM AtomicImplementsCell == Spec => Linearizable
<1>1. AtomicInv /\ AtomicInv' /\ [Next]_vars => [Cells!CellNext]_(Cells!vars)
  <2> SUFFICES ASSUME AtomicInv, AtomicInv', [Next]_vars
               PROVE  Cells!CellNext \/ UNCHANGED Cells!vars
    BY Zenon
  <2>1. ASSUME NEW t \in Threads, Step(t) PROVE Cells!CellNext \/ UNCHANGED Cells!vars
    BY <2>1, StepRefines, Zenon DEF Cells!CellNext
  <2>2. ASSUME NEW t \in Threads, NEW c \in Ops, Call(t, c) PROVE Cells!CellNext
    BY <2>2, CallRefines, Zenon DEF Cells!CellNext
  <2>3. CASE UNCHANGED vars
    BY <2>3, Zenon DEF vars, Cells!vars, CellBar, AnswerBar, Writer, lock_for_pointer, Effective
  <2> QED BY <2>1, <2>2, <2>3, Zenon DEF Next
<1> QED BY <1>1, InitRefines, Invariance, PTL DEF Spec, Linearizable, Cells!CellSpec
=============================================================================

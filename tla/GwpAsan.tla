------------------------------ MODULE GwpAsan ------------------------------
(* The guarded pool of GWP-ASan (gwp_asan/guarded_pool_allocator.cpp,         *)
(* common.cpp, crash_handler.cpp): slots of one page between guard pages, a   *)
(* list of free slots under PoolMutex, metadata written partly outside it,    *)
(* the handlers around fork, and what the crash handler makes of a fault.     *)
(* The pool starts at address 0: addresses are offsets from GuardedPagePool.  *)
EXTENDS Integers, Sequences, FiniteSets, Functions

CONSTANTS
  Threads,
  MaxSimultaneousAllocations,
  PageSize,                \* a power of two
  MaxPower,                \* the largest power of two considered is 2^MaxPower
  Requests,                \* <<Size, Alignment>> pairs the program asks for
  MaxAllocs,               \* calls of allocate
  MaxEvents                \* wrong or late uses of pointers, and forks

NoThread == "none"
Powers == {2^i : i \in 0..MaxPower}
MaxAlign == 2              \* alignof(max_align_t) at this page size

ASSUME ConstantsAssumption ==
  /\ Powers \subseteq Nat \ {0} /\ \A a, b \in Powers : a <= b => b % a = 0
  /\ PageSize \in Powers /\ PageSize > MaxAlign
  /\ Requests \subseteq Nat \X Nat
  /\ MaxSimultaneousAllocations \in Nat \ {0}
  /\ NoThread \notin Threads

Slots == 0 .. MaxSimultaneousAllocations - 1
maximumAllocationSize == PageSize
PoolEnd == PageSize * (1 + MaxSimultaneousAllocations)
           + MaxSimultaneousAllocations * maximumAllocationSize
Addresses == 0 .. PoolEnd - 1

VARIABLES
  poolMutex, backtraceMutex,
  numSampled, freeSlots,   \* NumSampledAllocations, FreeSlots[0 .. FreeSlotsLength)
  meta,                    \* Metadata; Addr = 0 for a slot never used
  writable,                \* the slots whose page is readable and writable
  failure,                 \* State.FailureType and FailureAddress
  pc, slot, ptr, size,     \* the call each thread is in, and its locals
  guard,                   \* RecursiveGuard, per thread
  live,                    \* what the program holds: pointers allocate returned
  stale,                   \* addresses that were freed
  fault,                   \* per thread: the access that faulted, and what was reported
  ambiguous,               \* a repeated free met a slot that has a new owner
  allocs, events

free == <<numSampled, freeSlots>>
locks == <<poolMutex, backtraceMutex>>
mem == <<meta, writable>>
locals == <<slot, ptr, size>>
program == <<live, stale, ambiguous, allocs, events>>
faults == <<failure, fault>>
vars == <<locks, free, mem, faults, pc, locals, guard, program>>

slotToAddr(n) == PageSize * (1 + n) + maximumAllocationSize * n
isGuardPage(a) == (a \div PageSize) % (maximumAllocationSize \div PageSize + 1) = 0
addrToSlot(a) == a \div (maximumAllocationSize + PageSize)

\* Mutant: a guard page belongs to the slot after it.
getNearestSlotUp(a) ==
  IF a <= PageSize THEN 0
  ELSE IF a > PoolEnd - PageSize THEN MaxSimultaneousAllocations - 1
  ELSE addrToSlot(a)

getNearestSlot(a) ==
  IF a <= PageSize THEN 0
  ELSE IF a > PoolEnd - PageSize THEN MaxSimultaneousAllocations - 1
  ELSE IF ~isGuardPage(a) THEN addrToSlot(a)
  ELSE IF a % PageSize <= PageSize \div 2 THEN addrToSlot(a - PageSize)
  ELSE addrToSlot(a + PageSize)

alignUp(a, alignment) == ((a + alignment - 1) \div alignment) * alignment
alignDown(a, alignment) == (a \div alignment) * alignment

NoFailure == [type |-> "UNKNOWN", addr |-> 0]
NoFault == [by |-> "none", at |-> 0, of |-> 0, reused |-> FALSE, report |-> "none"]
Unused == [Addr |-> 0, RequestedSize |-> 0, IsDeallocated |-> FALSE]

(* __gwp_asan_diagnose_error *)
error_is_mine(a) == (failure.type # "UNKNOWN" /\ failure.addr # 0) \/ a \in Addresses

diagnose_error(a) ==
  LET m == meta[getNearestSlot(a)]
  IN  IF ~error_is_mine(a) THEN "UNKNOWN"
      ELSE IF failure.type # "UNKNOWN" THEN failure.type
      ELSE IF isGuardPage(a)
      THEN IF m.Addr = 0 THEN "UNKNOWN"
           ELSE IF m.Addr < a THEN "BUFFER_OVERFLOW" ELSE "BUFFER_UNDERFLOW"
      ELSE IF m.IsDeallocated THEN "USE_AFTER_FREE" ELSE "UNKNOWN"

Init ==
  /\ poolMutex = NoThread /\ backtraceMutex = NoThread
  /\ numSampled = 0 /\ freeSlots = << >>
  /\ meta = [s \in Slots |-> Unused]
  /\ writable = {}
  /\ failure = NoFailure /\ fault = [t \in Threads |-> NoFault]
  /\ pc = [t \in Threads |-> "idle"]
  /\ slot = [t \in Threads |-> 0] /\ ptr = [t \in Threads |-> 0] /\ size = [t \in Threads |-> 0]
  /\ guard = [t \in Threads |-> FALSE]
  /\ live = {} /\ stale = {} /\ ambiguous = FALSE
  /\ allocs = 0 /\ events = 0

Goto(t, from, to) == pc[t] = from /\ pc' = [pc EXCEPT ![t] = to]

(* A call is over: its locals and the RecursiveGuard it set are gone.         *)
Return(t, from) ==
  /\ Goto(t, from, "idle")
  /\ slot' = [slot EXCEPT ![t] = 0]
  /\ ptr' = [ptr EXCEPT ![t] = 0]
  /\ size' = [size EXCEPT ![t] = 0]
  /\ guard' = [guard EXCEPT ![t] = FALSE]

Allocating(t) == pc[t] \in {"a_map", "a_addr", "a_size", "a_fresh", "a_trace", "a_unwind"}
Entering(t) == pc[t] = "d_record"

Lock(m, t) == m = NoThread /\ m' = t

-----------------------------------------------------------------------------
(* allocate.  A refused call returns nullptr and changes nothing.  The        *)
(* alignment waits in ptr until the page is chosen.                           *)
EffectiveSize(r) == IF r[1] = 0 THEN 1 ELSE r[1]
EffectiveAlignment(r) == IF r[2] = 0 THEN MaxAlign ELSE r[2]

Refused(t, r) ==
  \/ EffectiveAlignment(r) \notin Powers
  \/ EffectiveAlignment(r) > maximumAllocationSize
  \/ EffectiveSize(r) > maximumAllocationSize
  \/ guard[t]

Allocate(t, r) ==
  /\ ~Refused(t, r)
  /\ allocs < MaxAllocs /\ allocs' = allocs + 1
  /\ Goto(t, "idle", "a_reserve")
  /\ guard' = [guard EXCEPT ![t] = TRUE]
  /\ size' = [size EXCEPT ![t] = EffectiveSize(r)]
  /\ ptr' = [ptr EXCEPT ![t] = EffectiveAlignment(r)]
  /\ UNCHANGED <<locks, free, mem, faults, slot, live, stale, ambiguous, events>>

\* Mutant: the last entry is not moved to the free place.
TakeAtNoMove(q, i) == SubSeq(q, 1, Len(q) - 1)

(* FreeSlots[i] = FreeSlots[--FreeSlotsLength] *)
TakeAt(q, i) == [j \in 1 .. Len(q) - 1 |-> IF j = i THEN q[Len(q)] ELSE q[j]]

Reserved(t, s) ==
  /\ Goto(t, "a_reserve", "a_map")
  /\ slot' = [slot EXCEPT ![t] = s]
  /\ ambiguous' = (ambiguous \/ \E u \in Threads : Entering(u) /\ slot[u] = s)
  /\ UNCHANGED <<guard, ptr, size>>

reserveSlot(t) ==
  \/ /\ numSampled < MaxSimultaneousAllocations
     /\ numSampled' = numSampled + 1
     /\ Reserved(t, numSampled) /\ UNCHANGED freeSlots
  \/ /\ numSampled = MaxSimultaneousAllocations /\ UNCHANGED numSampled
     /\ \E i \in DOMAIN freeSlots :
          freeSlots' = TakeAt(freeSlots, i) /\ Reserved(t, freeSlots[i])
  \/ /\ numSampled = MaxSimultaneousAllocations /\ freeSlots = << >>
     /\ Return(t, "a_reserve") /\ UNCHANGED <<free, ambiguous>>

AllocateReserve(t) ==
  /\ poolMutex = NoThread
  /\ reserveSlot(t)
  /\ UNCHANGED <<locks, mem, faults, live, stale, allocs, events>>

(* The side of the page is random; then the page is made accessible.          *)
UserPtrs(s, sz, alignment) ==
  {alignUp(slotToAddr(s), alignment),
   alignDown(slotToAddr(s) + maximumAllocationSize - sz, alignment)}

AllocateMap(t) ==
  /\ Goto(t, "a_map", "a_addr")
  /\ \E p \in UserPtrs(slot[t], size[t], ptr[t]) : ptr' = [ptr EXCEPT ![t] = p]
  /\ writable' = writable \cup {slot[t]}
  /\ fault' = [u \in Threads |-> [fault[u] EXCEPT !.reused = @ \/ (fault[u].by = "freed" /\ fault[u].of = slot[t])]]
  /\ UNCHANGED <<locks, free, meta, failure, slot, size, guard, program>>

\* Mutant: IsDeallocated keeps its value.
RecordAllocationStale(t) ==
  /\ \/ Goto(t, "a_addr", "a_size") /\ meta' = [meta EXCEPT ![slot[t]].Addr = ptr[t]]
     \/ Goto(t, "a_size", "a_trace") /\ meta' = [meta EXCEPT ![slot[t]].RequestedSize = size[t]]
  /\ UNCHANGED <<locks, free, writable, faults, locals, guard, program>>

(* RecordAllocation, outside both mutexes and so one field at a time          *)
RecordAllocation(t) ==
  /\ \/ Goto(t, "a_addr", "a_size") /\ meta' = [meta EXCEPT ![slot[t]].Addr = ptr[t]]
     \/ Goto(t, "a_size", "a_fresh") /\ meta' = [meta EXCEPT ![slot[t]].RequestedSize = size[t]]
     \/ Goto(t, "a_fresh", "a_trace") /\ meta' = [meta EXCEPT ![slot[t]].IsDeallocated = FALSE]
  /\ UNCHANGED <<locks, free, writable, faults, locals, guard, program>>

AllocateTrace(t) ==
  /\ Goto(t, "a_trace", "a_unwind")
  /\ Lock(backtraceMutex, t)
  /\ UNCHANGED <<poolMutex, free, mem, faults, locals, guard, program>>

AllocateReturn(t) ==
  /\ Return(t, "a_unwind")
  /\ backtraceMutex' = NoThread
  /\ live' = live \cup {[p |-> ptr[t], sz |-> size[t]]}
  /\ UNCHANGED <<poolMutex, free, mem, faults, stale, ambiguous, allocs, events>>

-----------------------------------------------------------------------------
(* deallocate.  A call on what the program holds, a second free of what it    *)
(* freed, or a free of an address inside a slot that no call returned.        *)
Freeing(t, p) ==
  /\ Goto(t, "idle", IF meta[getNearestSlot(p)].Addr # p THEN "d_wild" ELSE "d_record")
  /\ slot' = [slot EXCEPT ![t] = getNearestSlot(p)]
  /\ ptr' = [ptr EXCEPT ![t] = p]
  /\ UNCHANGED <<locks, free, mem, faults, size, guard, allocs>>

Deallocate(t) ==
  \E h \in live :
    /\ Freeing(t, h.p)
    /\ live' = live \ {h} /\ stale' = stale \cup {h.p}
    /\ UNCHANGED <<ambiguous, events>>

DeallocateAgain(t) ==
  \E p \in stale :
    /\ events < MaxEvents /\ events' = events + 1
    /\ Freeing(t, p)
    /\ ambiguous' = (\/ ambiguous
                     \/ \E h \in live : getNearestSlot(h.p) = getNearestSlot(p)
                     \/ \E u \in Threads : Allocating(u) /\ slot[u] = getNearestSlot(p))
    /\ UNCHANGED <<live, stale>>

DeallocateWild(t) ==
  \E h \in {h \in live : h.sz > 1} :
    /\ events < MaxEvents /\ events' = events + 1
    /\ Freeing(t, h.p + 1)
    /\ UNCHANGED <<live, stale, ambiguous>>

Faults(t, kind, a, s) ==
  fault' = [fault EXCEPT ![t] = [by |-> kind, at |-> a, of |-> s, reused |-> FALSE, report |-> "none"]]

(* trapOnAddress, under PoolMutex, which is never released: a store to the    *)
(* first guard page.                                                          *)
trapOnAddress(t, e) ==
  /\ failure' = [type |-> e, addr |-> ptr[t]]
  /\ Faults(t, e, 0, slot[t])
  /\ pc' = [pc EXCEPT ![t] = "faulted"]

DeallocateTrapWild(t) ==
  /\ pc[t] = "d_wild"
  /\ Lock(poolMutex, t)
  /\ trapOnAddress(t, "INVALID_FREE")
  /\ UNCHANGED <<backtraceMutex, free, mem, locals, guard, program>>

(* PoolMutex is taken, IsDeallocated read and RecordDeallocation done.        *)
DeallocateRecord(t) ==
  /\ pc[t] = "d_record"
  /\ Lock(poolMutex, t)
  /\ \/ /\ meta[slot[t]].IsDeallocated
        /\ trapOnAddress(t, "DOUBLE_FREE")
        /\ UNCHANGED meta
     \/ /\ ~meta[slot[t]].IsDeallocated
        /\ meta' = [meta EXCEPT ![slot[t]].IsDeallocated = TRUE]
        /\ pc' = [pc EXCEPT ![t] = "d_trace"]
        /\ UNCHANGED faults
  /\ UNCHANGED <<backtraceMutex, free, writable, locals, guard, program>>

(* The unwinder runs under both mutexes.  RecursiveGuard is only set here if  *)
(* an unwinder frees; unwinders that call back are not part of the model.     *)
DeallocateTrace(t) ==
  /\ Goto(t, "d_trace", "d_unwind")
  /\ Lock(backtraceMutex, t)
  /\ guard' = [guard EXCEPT ![t] = TRUE]
  /\ UNCHANGED <<poolMutex, free, mem, faults, locals, program>>

DeallocateUnlock(t) ==
  /\ Goto(t, "d_unwind", "d_unmap")
  /\ backtraceMutex' = NoThread /\ poolMutex' = NoThread
  /\ guard' = [guard EXCEPT ![t] = FALSE]
  /\ UNCHANGED <<free, mem, faults, locals, program>>

DeallocateUnmap(t) ==
  /\ Goto(t, "d_unmap", "d_free")
  /\ writable' = writable \ {slot[t]}
  /\ UNCHANGED <<locks, free, meta, faults, locals, guard, program>>

freeSlot(t) ==
  /\ poolMutex = NoThread
  /\ Return(t, "d_free")
  /\ freeSlots' = Append(freeSlots, slot[t])
  /\ UNCHANGED <<locks, numSampled, mem, faults, program>>

-----------------------------------------------------------------------------
(* disable and enable, around fork or a scan of the heap                      *)
Disable(t) ==
  /\ events < MaxEvents /\ events' = events + 1
  /\ Goto(t, "idle", "f_lock")
  /\ Lock(poolMutex, t)
  /\ UNCHANGED <<backtraceMutex, free, mem, faults, locals, guard, live, stale, ambiguous, allocs>>

\* Mutant: only PoolMutex is taken.
DisableOnlyPool(t) ==
  /\ Goto(t, "f_lock", "disabled")
  /\ UNCHANGED <<locks, free, mem, faults, locals, guard, program>>

DisableRest(t) ==
  /\ Goto(t, "f_lock", "disabled")
  /\ Lock(backtraceMutex, t)
  /\ UNCHANGED <<poolMutex, free, mem, faults, locals, guard, program>>

\* Mutant: BacktraceMutex is not given back.
EnableForgets(t) ==
  /\ Goto(t, "disabled", "idle")
  /\ poolMutex' = NoThread
  /\ UNCHANGED <<backtraceMutex, free, mem, faults, locals, guard, program>>

Enable(t) ==
  /\ \/ Goto(t, "disabled", "f_unlock") /\ poolMutex' = NoThread /\ UNCHANGED backtraceMutex
     \/ Goto(t, "f_unlock", "idle") /\ backtraceMutex' = NoThread /\ UNCHANGED poolMutex
  /\ UNCHANGED <<free, mem, faults, locals, guard, program>>

(* iterate(Base, Size, Cb, Arg) over the whole pool                           *)
iterate == {[p |-> meta[s].Addr, sz |-> meta[s].RequestedSize] :
              s \in {i \in Slots : meta[i].Addr # 0 /\ ~meta[i].IsDeallocated}}

-----------------------------------------------------------------------------
(* A use of a freed pointer faults once its page is inaccessible, and so does *)
(* running off either end of held memory that reaches to the end of its page. *)
Touched(t) ==
  \/ \E p \in stale : getNearestSlot(p) \notin writable /\ Faults(t, "freed", p, getNearestSlot(p))
  \/ \E h \in live :
       LET s == getNearestSlot(h.p)
       IN  \/ h.p + h.sz = slotToAddr(s) + PageSize /\ Faults(t, "past", h.p + h.sz, s)
           \/ h.p = slotToAddr(s) /\ Faults(t, "before", h.p - 1, s)

Touch(t) ==
  /\ events < MaxEvents /\ events' = events + 1
  /\ Goto(t, "idle", "faulted")
  /\ Touched(t)
  /\ UNCHANGED <<locks, free, mem, failure, locals, guard, live, stale, ambiguous, allocs>>

(* stop, in the handler of SIGSEGV: tryLock may fail and nobody looks at it   *)
stop(t) ==
  /\ Goto(t, "faulted", "reporting")
  /\ guard' = [guard EXCEPT ![t] = TRUE]
  /\ poolMutex' = IF poolMutex = NoThread THEN t ELSE poolMutex
  /\ UNCHANGED <<backtraceMutex, free, mem, faults, locals, program>>

(* The handler reads the metadata after that, while other threads go on.      *)
ErrorPtr(t) == IF failure.addr # 0 THEN failure.addr ELSE fault[t].at

dumpReport(t) ==
  /\ Goto(t, "reporting", "reported")
  /\ fault' = [fault EXCEPT ![t].report = diagnose_error(ErrorPtr(t))]
  /\ UNCHANGED <<locks, free, mem, failure, locals, guard, program>>

(* The previous handler ends the process.                                     *)
Crashed == \E t \in Threads : pc[t] = "reported"
Over == Crashed /\ UNCHANGED vars

Calls(t) ==
  \/ \E r \in Requests : Allocate(t, r)
  \/ Deallocate(t) \/ DeallocateAgain(t) \/ DeallocateWild(t) \/ Touch(t) \/ Disable(t)

Locks(t) ==
  \/ AllocateReserve(t) \/ AllocateTrace(t) \/ DeallocateTrapWild(t) \/ DeallocateRecord(t)
  \/ DeallocateTrace(t) \/ freeSlot(t) \/ DisableRest(t)

Steps(t) ==
  \/ AllocateMap(t) \/ RecordAllocation(t) \/ AllocateReturn(t)
  \/ DeallocateUnlock(t) \/ DeallocateUnmap(t) \/ Enable(t)
  \/ stop(t) \/ dumpReport(t)

Next == Over \/ \E t \in Threads : Calls(t) \/ Locks(t) \/ Steps(t)

Spec == Init /\ [][Next]_vars

(* A thread inside a call goes on; a mutex that is free again and again is    *)
(* obtained in the end.                                                       *)
FairSpec == Spec /\ \A t \in Threads : WF_vars(Steps(t)) /\ SF_vars(Locks(t))
-----------------------------------------------------------------------------
Freed(t) == pc[t] \in {"d_trace", "d_unwind", "d_unmap", "d_free"}

(* reserveSlot, deallocate and freeSlot: a slot is on the free list once, or  *)
(* is with the one call that allocates or frees it, or holds what the program *)
(* holds, or was never used.  Of two racing frees of one pointer only one     *)
(* gets the slot, so it never comes onto the list twice.                      *)
SlotsAccountedFor ==
  ~ambiguous =>
    /\ IsInjective(freeSlots)
    /\ \A s \in Slots :
         LET n == Cardinality({t \in Threads : (Allocating(t) \/ Freed(t)) /\ slot[t] = s})
                  + Cardinality({h \in live : getNearestSlot(h.p) = s})
                  + (IF s \in Range(freeSlots) THEN 1 ELSE 0)
                  + (IF s >= numSampled THEN 1 ELSE 0)
         IN  n = 1 \/ (n = 0 /\ \E t \in Threads : Entering(t) /\ slot[t] = s)

(* iterate between disable and enable: every held allocation is visited with  *)
(* its size, and anything else visited belongs to a call that is under way.   *)
IterateComplete ==
  /\ live \subseteq iterate
  /\ \A h \in iterate \ live : \E t \in Threads : (Allocating(t) \/ Entering(t)) /\ slot[t] = getNearestSlot(h.p)

(* allocate hands out memory that is accessible, inside its slot, and known   *)
(* to the metadata as a current allocation of that size, until its free: what *)
(* another thread does to its own slots never takes it away.  So iterate      *)
(* finds it, in a pool that is disabled while others are in calls.            *)
HeldMemoryUsable ==
  ~ambiguous =>
    /\ \A h \in live :
         LET s == getNearestSlot(h.p)
         IN  /\ s \in writable
             /\ slotToAddr(s) <= h.p /\ h.p + h.sz <= slotToAddr(s) + PageSize
             /\ meta[s] = [Addr |-> h.p, RequestedSize |-> h.sz, IsDeallocated |-> FALSE]
    /\ (\E t \in Threads : pc[t] = "disabled") => IterateComplete

(* dumpReport: what the crash handler says of a fault, whatever other threads *)
(* did to the pool between the fault and the report.  A use of freed memory   *)
(* is a use after free, also when it races with the free; if its slot was     *)
(* mapped for a new allocation after the fault the handler may not know.      *)
(* Running off either end of held memory is blamed on that slot, as overflow  *)
(* or underflow, even if it is freed and reused in the meantime.  A bad free  *)
(* is reported as what it is by the thread that did it.                       *)
FaultsExplained ==
  \A t \in Threads : pc[t] = "reported" =>
    LET f == fault[t]
    IN  /\ f.by \in {"INVALID_FREE", "DOUBLE_FREE"} => f.report = f.by
        /\ failure = NoFailure =>
             /\ f.by = "freed" => f.report = "USE_AFTER_FREE" \/ (f.reused /\ f.report = "UNKNOWN")
             /\ f.by = "past" => f.report = "BUFFER_OVERFLOW" /\ getNearestSlot(f.at) = f.of
             /\ f.by = "before" => f.report = "BUFFER_UNDERFLOW" /\ getNearestSlot(f.at) = f.of

(* disable: "prevents any thread from being able to allocate memory, until    *)
(* enable() is called", a thread that already has its slot included.          *)
NothingHandedOutWhileDisabled ==
  [][(\E t \in Threads : pc[t] = "disabled") => live' \subseteq live]_vars

(* Every call of allocate, deallocate and disable returns, unless the process *)
(* is crashing or a disabled pool is in use.                                  *)
CallsReturn == \A t \in Threads : pc[t] # "idle" ~> (pc[t] = "idle" \/ Crashed)
=============================================================================

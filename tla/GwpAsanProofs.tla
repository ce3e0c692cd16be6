--------------------------- MODULE GwpAsanProofs ----------------------------
(***************************************************************************)
(* The inductive invariant of GwpAsan, for every number of threads and     *)
(* slots, every page size and every set of requests, with repeated, wild   *)
(* and late frees, faults and forks; and what it says to a caller of the   *)
(* pool and to the crash handler.                                          *)
(***************************************************************************)
EXTENDS GwpAsan, TLAPS

PCs == {"idle", "a_reserve", "a_map", "a_addr", "a_size", "a_fresh", "a_trace", "a_unwind",
        "d_wild", "d_record", "d_trace", "d_unwind", "d_unmap", "d_free",
        "f_lock", "disabled", "f_unlock", "faulted", "reporting", "reported"}

TypeOK ==
  /\ numSampled \in 0 .. MaxSimultaneousAllocations
  /\ freeSlots \in Seq(Slots)
  /\ meta \in [Slots -> [Addr : Nat, RequestedSize : Nat, IsDeallocated : BOOLEAN]]
  /\ writable \subseteq Slots
  /\ pc \in [Threads -> PCs]
  /\ slot \in [Threads -> Slots]
  /\ ptr \in [Threads -> Nat]
  /\ size \in [Threads -> Nat]
  /\ live \subseteq [p : Nat, sz : Nat]
  /\ stale \subseteq Nat
  /\ ambiguous \in BOOLEAN

\* Who is inside a mutex.
MutexInv ==
  \A t \in Threads :
    /\ pc[t] \in {"a_unwind", "d_unwind", "disabled", "f_unlock"} => backtraceMutex = t
    /\ pc[t] \in {"d_trace", "d_unwind", "f_lock", "disabled"} => poolMutex = t

\* An allocation of n bytes at p lies in the page of slot s.
InSlot(p, s) == s \in Slots /\ slotToAddr(s) <= p /\ p < slotToAddr(s) + PageSize
Fits(p, n, s) == InSlot(p, s) /\ n >= 1 /\ p + n <= slotToAddr(s) + PageSize

Mapped(t) == pc[t] \in {"a_addr", "a_size", "a_fresh", "a_trace", "a_unwind"}

\* Pointers stay inside the slot they were made for, and slots that have a
\* number are behind numSampled.
CallAddrs ==
  \A t \in Threads :
    /\ pc[t] \in {"a_reserve", "a_map"} =>
         ptr[t] \in Powers /\ ptr[t] <= PageSize /\ size[t] >= 1 /\ size[t] <= PageSize
    /\ Mapped(t) => Fits(ptr[t], size[t], slot[t])
    /\ Allocating(t) \/ Freed(t) \/ Entering(t) => slot[t] < numSampled
MetaAddrs == \A s \in Slots : meta[s].Addr # 0 => InSlot(meta[s].Addr, s)
LiveAddrs == \A h \in live : Fits(h.p, h.sz, getNearestSlot(h.p)) /\ getNearestSlot(h.p) < numSampled
StaleAddrs == \A p \in stale : InSlot(p, getNearestSlot(p)) /\ getNearestSlot(p) < numSampled

\* The calls that have a slot to themselves: an allocation that has not marked
\* it as current yet, and a deallocation that has marked it as freed.
Filling(t) == pc[t] \in {"a_map", "a_addr", "a_size", "a_fresh"}
Late(t) == pc[t] \in {"a_trace", "a_unwind"}
Taking(t) == Filling(t) \/ Freed(t)

\* Nobody has a pointer into slot s, or is about to.
Untouched(s) ==
  /\ \A h \in live : getNearestSlot(h.p) # s
  /\ \A p \in stale : getNearestSlot(p) # s
  /\ \A t \in Threads : Entering(t) \/ Late(t) => slot[t] # s

\* IsDeallocated hands a slot on, whatever the program does: a slot that is
\* marked as freed is on the free list or with one call.
FreeList ==
  /\ IsInjective(freeSlots)
  /\ \A s \in Range(freeSlots) :
       s \in Slots /\ s < numSampled /\ meta[s].IsDeallocated /\ \A t \in Threads : Taking(t) => slot[t] # s
OneTaker == \A t, u \in Threads : Taking(t) /\ Taking(u) /\ slot[t] = slot[u] => t = u
FreedMarked == \A t \in Threads : Freed(t) => meta[slot[t]].IsDeallocated
FillingMarked == \A t \in Threads : Filling(t) => meta[slot[t]].IsDeallocated \/ Untouched(slot[t])
NewBlank == \A s \in Slots : s >= numSampled => meta[s].Addr = 0 /\ ~meta[s].IsDeallocated
MarkedTaken ==
  \A s \in Slots : meta[s].IsDeallocated =>
    s \in Range(freeSlots) \/ \E t \in Threads : Taking(t) /\ slot[t] = s

\* A slot without access is freed, unused or about to be mapped.
FillingMapped == \A t \in Threads : pc[t] \in {"a_addr", "a_size", "a_fresh"} => slot[t] \in writable
Accessible ==
  \A s \in Slots : \/ s \in writable \/ meta[s].IsDeallocated \/ s >= numSampled
                   \/ \E t \in Threads : pc[t] = "a_map" /\ slot[t] = s

\* While no repeated free has met a slot with a new owner, the metadata of a
\* slot is that of its owner, and a slot not marked as freed has one.
Owned ==
  ~ambiguous =>
    \A h \in live :
      /\ meta[getNearestSlot(h.p)] = [Addr |-> h.p, RequestedSize |-> h.sz, IsDeallocated |-> FALSE]
      /\ \A t \in Threads : Allocating(t) \/ Entering(t) => slot[t] # getNearestSlot(h.p)
Filled ==
  ~ambiguous =>
    \A t \in Threads :
      /\ pc[t] \in {"a_size", "a_fresh"} => meta[slot[t]].Addr = ptr[t]
      /\ pc[t] = "a_fresh" => meta[slot[t]].RequestedSize = size[t]
      /\ Late(t) =>
           meta[slot[t]] = [Addr |-> ptr[t], RequestedSize |-> size[t], IsDeallocated |-> FALSE]
Alone ==
  ~ambiguous =>
    \A t, u \in Threads :
      Allocating(t) /\ (Allocating(u) \/ Entering(u)) /\ slot[t] = slot[u] => t = u
Covered ==
  ~ambiguous =>
    \A s \in Slots : s < numSampled /\ ~meta[s].IsDeallocated =>
      \/ \E h \in live : getNearestSlot(h.p) = s
      \/ \E t \in Threads : (Allocating(t) \/ Entering(t)) /\ slot[t] = s

AddrInv == CallAddrs /\ MetaAddrs /\ LiveAddrs /\ StaleAddrs
TokenInv == FreeList /\ OneTaker /\ FreedMarked /\ FillingMarked /\ NewBlank /\ MarkedTaken
MapInv == FillingMapped /\ Accessible
HoldInv == Owned /\ Filled /\ Alone /\ Covered

GwpInv == TypeOK /\ MutexInv /\ AddrInv /\ TokenInv /\ MapInv /\ HoldInv

-----------------------------------------------------------------------------
\* Addresses.
LEMMA DivMod ==
  ASSUME NEW x \in Int, NEW m \in Nat \ {0}
  PROVE  x \div m \in Int /\ x % m \in 0 .. m - 1 /\ x = m * (x \div m) + (x % m)
<1>1. x \div m \in Int BY SMTT(30)
<1>2. x % m \in 0 .. m - 1 BY SMTT(30)
<1>3. x = m * (x \div m) + (x % m) BY SMTT(30)
<1> QED BY <1>1, <1>2, <1>3, Zenon

\* Multiplication keeps the order of numbers.
LEMMA Monotone ==
  ASSUME NEW a \in Int, NEW b \in Int, NEW m \in Nat, a <= b
  PROVE  a * m <= b * m /\ a * m \in Int /\ b * m \in Int
<1>1. (b - a) * m >= 0 BY SMTT(30)
<1>2. (b - a) * m = b * m - a * m BY SMTT(30)
<1>3. a * m \in Int /\ b * m \in Int BY SMTT(30)
<1> DEFINE x == a * m
           y == b * m
<1> HIDE DEF x, y
<1>4. x <= y BY <1>1, <1>2, <1>3 DEF x, y
<1> QED BY <1>3, <1>4, Zenon DEF x, y

\* The quotient is the one multiple that leaves a remainder below m.
LEMMA Quotient ==
  ASSUME NEW m \in Nat \ {0}, NEW q \in Int, NEW a \in Int, q * m <= a, a < q * m + m
  PROVE  a \div m = q /\ a % m = a - q * m
<1> DEFINE p == a \div m
           z == a % m
<1>1. p \in Int /\ z \in 0 .. m - 1 /\ a = m * p + z
  BY DivMod, Zenon
<1> HIDE DEF p, z
<1>2. m * p = p * m
  BY <1>1, SMTT(30)
<1>3. ~(p >= q + 1)
  <2>1. SUFFICES ASSUME q + 1 <= p PROVE FALSE
    BY <1>1
  <2>2. q + 1 \in Int /\ (q + 1) * m = q * m + m
    BY SMTT(30)
  <2>3. (q + 1) * m <= p * m
    BY <1>1, <2>1, <2>2, Monotone, Zenon
  <2> DEFINE x == q * m
             y == p * m
  <2>4. x \in Int /\ y \in Int /\ x + m <= y /\ a = y + z /\ a < x + m
    BY <1>1, <1>2, <2>2, <2>3, SMTT(30)
  <2> HIDE DEF x, y
  <2> QED BY <2>4, <1>1
<1>4. ~(q >= p + 1)
  <2>1. SUFFICES ASSUME p + 1 <= q PROVE FALSE
    BY <1>1
  <2>2. p + 1 \in Int /\ (p + 1) * m = p * m + m
    BY <1>1, SMTT(30)
  <2>3. (p + 1) * m <= q * m
    BY <1>1, <2>1, <2>2, Monotone, Zenon
  <2> DEFINE x == q * m
             y == p * m
  <2>4. x \in Int /\ y \in Int /\ y + m <= x /\ a = y + z /\ x <= a
    BY <1>1, <1>2, <2>2, <2>3, SMTT(30)
  <2> HIDE DEF x, y
  <2> QED BY <2>4, <1>1
<1>5. p = q
  BY <1>1, <1>3, <1>4
<1>6. z = a - q * m
  <2> DEFINE x == q * m
  <2>1. x \in Int /\ a = x + z
    BY <1>1, <1>2, <1>5, SMTT(30)
  <2> HIDE DEF x
  <2>2. z = a - x
    BY <2>1, <1>1
  <2> QED BY <2>2, Zenon DEF x
<1> QED BY <1>5, <1>6, Zenon DEF p, z

\* What the assumptions on the constants say of pages.
LEMMA Pages ==
  /\ PageSize \in Nat \ {0} /\ PageSize > 2 /\ 2 * PageSize \in Nat \ {0}
  /\ MaxSimultaneousAllocations \in Nat \ {0}
  /\ maximumAllocationSize + PageSize = 2 * PageSize
  /\ PageSize \div PageSize = 1
<1>1. PageSize \in Nat \ {0} /\ PageSize > 2 /\ MaxSimultaneousAllocations \in Nat \ {0}
  BY ConstantsAssumption, SMT DEF MaxAlign
<1>2. 1 * PageSize <= PageSize /\ PageSize < 1 * PageSize + PageSize
  BY <1>1
<1>3. PageSize \div PageSize = 1
  BY <1>1, <1>2, Quotient
<1> QED BY <1>1, <1>3 DEF maximumAllocationSize

\* The page of a slot lies in the pool, after its guard page.
LEMMA SlotFacts ==
  ASSUME NEW s \in Slots
  PROVE  /\ s \in Nat /\ s < MaxSimultaneousAllocations
         /\ slotToAddr(s) \in Nat /\ slotToAddr(s) >= PageSize
         /\ slotToAddr(s) = (1 + 2 * s) * PageSize
         /\ slotToAddr(s) + PageSize = (2 + 2 * s) * PageSize
         /\ slotToAddr(s) = (2 * s) * PageSize + PageSize
         /\ slotToAddr(s) = s * (2 * PageSize) + PageSize
         /\ slotToAddr(s) + 2 * PageSize <= PoolEnd
         /\ s >= 1 => slotToAddr(s) >= 3 * PageSize
<1>1. s \in Nat /\ s < MaxSimultaneousAllocations
  BY Pages DEF Slots
<1>2. /\ slotToAddr(s) = (1 + 2 * s) * PageSize /\ slotToAddr(s) \in Int
      /\ slotToAddr(s) = (2 * s) * PageSize + PageSize
      /\ slotToAddr(s) = s * (2 * PageSize) + PageSize
      /\ slotToAddr(s) + PageSize = (2 + 2 * s) * PageSize
  BY <1>1, Pages, SMTT(30) DEF slotToAddr, maximumAllocationSize
<1>3. 1 * PageSize <= (1 + 2 * s) * PageSize
  <2>1. 1 + 2 * s \in Int /\ 1 <= 1 + 2 * s BY <1>1
  <2> QED BY <2>1, Pages, Monotone
<1>4. (2 + 2 * s) * PageSize <= (2 * MaxSimultaneousAllocations) * PageSize
  <2>1. /\ 2 + 2 * s \in Int /\ 2 * MaxSimultaneousAllocations \in Int
        /\ 2 + 2 * s <= 2 * MaxSimultaneousAllocations
    BY <1>1, Pages
  <2> QED BY <2>1, Pages, Monotone, Zenon
<1>5. s >= 1 => 3 * PageSize <= (1 + 2 * s) * PageSize
  <2>1. SUFFICES ASSUME s >= 1 PROVE 3 * PageSize <= (1 + 2 * s) * PageSize
    BY Zenon
  <2>2. 1 + 2 * s \in Int /\ 3 <= 1 + 2 * s /\ 3 \in Int BY <1>1, <2>1
  <2> QED BY <2>2, Pages, Monotone, Zenon
<1>6. PoolEnd = (2 * MaxSimultaneousAllocations) * PageSize + PageSize
  BY Pages, SMTT(30) DEF PoolEnd, maximumAllocationSize
<1> DEFINE b == slotToAddr(s)
           e == (2 * MaxSimultaneousAllocations) * PageSize
<1>7. e \in Int /\ b + PageSize <= e /\ PoolEnd = e + PageSize
  BY <1>2, <1>4, <1>6, Pages
<1>8. /\ 1 * PageSize <= b
      /\ s >= 1 => 3 * PageSize <= b
      /\ b \in Int
  BY <1>2, <1>3, <1>5, Zenon
<1> HIDE DEF b, e
<1>9. b \in Nat /\ b >= PageSize /\ b + 2 * PageSize <= PoolEnd /\ (s >= 1 => b >= 3 * PageSize)
  BY <1>7, <1>8, <1>1, Pages
<1> QED BY <1>1, <1>2, <1>9, Zenon DEF b

\* The end of the pool is an address.
LEMMA PoolFacts == PoolEnd \in Nat
  BY Pages, SMTT(30) DEF PoolEnd, maximumAllocationSize

\* getNearestSlot finds the slot of an address in its page.
LEMMA Nearest ==
  ASSUME NEW p \in Nat, NEW s, InSlot(p, s)
  PROVE  getNearestSlot(p) = s /\ ~isGuardPage(p) /\ p \in Addresses /\ p # 0
<1> DEFINE b == slotToAddr(s)
<1>1. s \in Slots /\ b <= p /\ p < b + PageSize
  BY Zenon DEF InSlot
<1>2. /\ s \in Nat /\ b \in Nat /\ b >= PageSize /\ b = (1 + 2 * s) * PageSize
      /\ b = s * (2 * PageSize) + PageSize /\ b + 2 * PageSize <= PoolEnd
      /\ s >= 1 => b >= 3 * PageSize
  BY <1>1, SlotFacts, Zenon
<1> HIDE DEF b
<1>3. p \div PageSize = 1 + 2 * s
  <2>1. 1 + 2 * s \in Int /\ p \in Int
    BY <1>2
  <2>2. (1 + 2 * s) * PageSize <= p /\ p < (1 + 2 * s) * PageSize + PageSize
    BY <1>1, <1>2, Zenon
  <2> QED BY <2>1, <2>2, Quotient, Pages, ZenonT(60)
<1>4. addrToSlot(p) = s
  <2> DEFINE c == s * (2 * PageSize)
  <2>1. c \in Int /\ s \in Int /\ p \in Int
    BY <1>2, Pages
  <2>2. b = c + PageSize
    BY <1>2, Zenon
  <2> HIDE DEF c
  <2>3. c <= p /\ p < c + 2 * PageSize
    BY <2>1, <2>2, <1>1, <1>2, Pages
  <2>4. p \div (2 * PageSize) = s
    BY <2>1, <2>3, Quotient, Pages, Zenon DEF c
  <2> QED BY <2>4, Pages, Zenon DEF addrToSlot
<1>6. ~isGuardPage(p)
  BY <1>2, <1>3, Pages DEF isGuardPage, maximumAllocationSize
<1>7. (p <= PageSize => s = 0) /\ ~(p > PoolEnd - PageSize) /\ p < PoolEnd /\ p > 0
  BY <1>1, <1>2, Pages, PoolFacts
<1>9. getNearestSlot(p) = s
  BY <1>4, <1>6, <1>7, Zenon DEF getNearestSlot
<1> QED BY <1>6, <1>7, <1>9, PoolFacts DEF Addresses

\* The bytes around a slot are in guard pages, and nearest to it.
LEMMA Around ==
  ASSUME NEW s \in Slots, NEW a \in {slotToAddr(s) + PageSize, slotToAddr(s) - 1}
  PROVE  getNearestSlot(a) = s /\ isGuardPage(a) /\ a \in Addresses
<1> DEFINE b == slotToAddr(s)
           c == s * (2 * PageSize)
<1>1. /\ s \in Nat /\ b \in Nat /\ b >= PageSize
      /\ b + PageSize = (2 + 2 * s) * PageSize /\ b = (2 * s) * PageSize + PageSize
      /\ b = c + PageSize /\ b + 2 * PageSize <= PoolEnd
      /\ s >= 1 => b >= 3 * PageSize
  BY SlotFacts, Zenon
<1>2. c \in Int /\ s \in Int /\ 2 + 2 * s \in Int /\ 2 * s \in Int /\ (2 * s) * PageSize \in Int
  BY <1>1, Pages
<1>3. CASE a = b + PageSize
  <2> HIDE DEF b
  <2>1. /\ a \in Int /\ a \in Nat /\ a > PageSize /\ (2 + 2 * s) * PageSize <= a
        /\ a < (2 + 2 * s) * PageSize + PageSize
    <3> DEFINE x == (2 + 2 * s) * PageSize
    <3>1. x = b + PageSize
      BY <1>1, Zenon
    <3> HIDE DEF x
    <3>2. a \in Int /\ a \in Nat /\ a > PageSize /\ x <= a /\ a < x + PageSize
      BY <3>1, <1>1, <1>3, Pages
    <3> QED BY <3>2, Zenon DEF x
  <2>2. a \div PageSize = 2 + 2 * s /\ a % PageSize = 0
    <3>1. a \div PageSize = 2 + 2 * s /\ a % PageSize = a - (2 + 2 * s) * PageSize
      BY <2>1, <1>2, Quotient, Pages, Zenon
    <3>2. a - a = 0
      BY <2>1
    <3> QED BY <3>1, <3>2, <1>1, <1>3, Zenon
  <2>3. isGuardPage(a)
    BY <2>2, <1>1, Pages DEF isGuardPage, maximumAllocationSize
  <2>4. addrToSlot(a - PageSize) = s
    <3> HIDE DEF c
    <3>1. a - PageSize \in Int /\ c <= a - PageSize /\ a - PageSize < c + 2 * PageSize
      BY <1>1, <1>2, <1>3, Pages
    <3>2. (a - PageSize) \div (2 * PageSize) = s
      BY <3>1, <1>2, Quotient, Pages, Zenon DEF c
    <3> QED BY <3>2, Pages, Zenon DEF addrToSlot
  <2> HIDE DEF c
  <2>6. ~(a <= PageSize) /\ ~(a > PoolEnd - PageSize) /\ a \in 0 .. PoolEnd - 1 /\ 0 <= PageSize \div 2
    BY <1>1, <1>2, <1>3, Pages, PoolFacts
  <2> QED BY <2>2, <2>3, <2>4, <2>6, Zenon DEF getNearestSlot, Addresses
<1>4. CASE a = b - 1
  <2> HIDE DEF b
  <2> DEFINE x == (2 * s) * PageSize
  <2>x. x \in Int /\ b = x + PageSize
    BY <1>1, <1>2, Zenon
  <2> HIDE DEF x
  <2>1. a \in Int /\ a \in Nat /\ x <= a /\ a < x + PageSize /\ a - x = PageSize - 1
    BY <2>x, <1>1, <1>4, Pages
  <2>2. a \div PageSize = 2 * s /\ a % PageSize = PageSize - 1
    BY <2>1, <1>2, Quotient, Pages, Zenon DEF x
  <2>3. isGuardPage(a)
    BY <2>2, <1>1, Pages DEF isGuardPage, maximumAllocationSize
  <2>4. addrToSlot(a + PageSize) = s
    <3> HIDE DEF c
    <3>1. a + PageSize \in Int /\ c <= a + PageSize /\ a + PageSize < c + 2 * PageSize
      BY <1>1, <1>2, <1>4, Pages
    <3>2. (a + PageSize) \div (2 * PageSize) = s
      BY <3>1, <1>2, Quotient, Pages, Zenon DEF c
    <3> QED BY <3>2, Pages, Zenon DEF addrToSlot
  <2> HIDE DEF c
  <2>6. /\ a <= PageSize => s = 0
        /\ ~(a > PoolEnd - PageSize) /\ a \in 0 .. PoolEnd - 1 /\ ~(PageSize - 1 <= PageSize \div 2)
    BY <1>1, <1>2, <1>4, Pages, PoolFacts
  <2> QED BY <2>2, <2>3, <2>4, <2>6, Zenon DEF getNearestSlot, Addresses
<1> QED BY <1>3, <1>4, Zenon

\* Either side of the page, aligned, leaves room for the allocation.
LEMMA PtrsFit ==
  ASSUME NEW s \in Slots, NEW alignment \in Powers, alignment <= PageSize,
         NEW n \in Nat, n >= 1, n <= PageSize, NEW p \in UserPtrs(s, n, alignment)
  PROVE  p \in Nat /\ Fits(p, n, s)
<1> DEFINE b == slotToAddr(s)
           k == PageSize \div alignment
           m == (1 + 2 * s) * k
<1>1. /\ alignment \in Nat \ {0} /\ PageSize % alignment = 0
      /\ s \in Nat /\ b \in Nat /\ b = (1 + 2 * s) * PageSize
  BY ConstantsAssumption, SlotFacts, Zenon
<1>2. PageSize = alignment * k /\ k \in Int
  <2>1. k \in Int /\ PageSize = alignment * k + (PageSize % alignment) /\ PageSize \in Int
    <3>1. PageSize \in Int BY Pages
    <3> QED BY <3>1, <1>1, DivMod, Zenon
  <2> DEFINE x == alignment * k
  <2>2. x \in Int
    BY <1>1, <2>1
  <2> HIDE DEF x
  <2>3. x + 0 = x
    BY <2>2
  <2> QED BY <2>1, <2>3, <1>1, Zenon DEF x
<1> HIDE DEF b, k
<1>3. b = m * alignment /\ m \in Int
  <2>1. b = (1 + 2 * s) * (alignment * k)
    BY <1>1, <1>2, Zenon
  <2> QED BY <2>1, <1>1, <1>2, SMTT(30)
<1> HIDE DEF m
<1>u. s \in Slots /\ slotToAddr(s) = b
  BY Zenon DEF b
<1>4. CASE p = alignUp(slotToAddr(s), alignment)
  <2> DEFINE y == m * alignment
  <2>y. y = b BY <1>3, Zenon
  <2> HIDE DEF y
  <2>1. b + alignment - 1 \in Int /\ y <= b + alignment - 1 /\ b + alignment - 1 < y + alignment
    BY <2>y, <1>1
  <2>2. (b + alignment - 1) \div alignment = m
    BY <2>1, <1>1, <1>3, Quotient, ZenonT(60) DEF y
  <2>3. p = b
    BY <1>4, <1>3, <2>2, <1>u, Zenon DEF alignUp
  <2> QED BY <2>3, <1>1, <1>u, Pages DEF Fits, InSlot
<1>5. CASE p = alignDown(slotToAddr(s) + maximumAllocationSize - n, alignment)
  <2> DEFINE x == b + PageSize - n
             q == x \div alignment
             y == m * alignment
             z == q * alignment
             w == x % alignment
  <2>1. x \in Int /\ b <= x /\ x + n = b + PageSize
    BY <1>1, Pages
  <2> HIDE DEF x
  <2>2. x = alignment * q + w /\ w \in 0 .. alignment - 1 /\ q \in Int
    <3>1. x \in Int /\ alignment \in Nat \ {0}
      BY <2>1, <1>1, Zenon
    <3> QED BY <3>1, DivMod, Zenon
  <2>3. p = z
    BY <1>5, <1>u, Zenon DEF alignDown, maximumAllocationSize, x
  <2> HIDE DEF q, w
  <2>4. alignment * q = z /\ z \in Int /\ (q + 1) * alignment = z + alignment
    BY <2>2, <1>1
  <2>y. y = b BY <1>3, Zenon
  <2>5. z <= x /\ x < z + alignment
    <3> HIDE DEF z
    <3> QED BY <2>2, <2>4, <1>1
  <2>6. m <= q
    <3>1. SUFFICES ASSUME q + 1 <= m PROVE FALSE
      BY <1>3, <2>2
    <3>2. (q + 1) * alignment <= y
      <4>1. q + 1 \in Int BY <2>2
      <4> QED BY <3>1, <4>1, <1>1, <1>3, Monotone, Zenon
    <3> HIDE DEF z, y
    <3>3. z + alignment <= y
      BY <3>2, <2>4, Zenon
    <3> QED BY <3>3, <2>4, <2>5, <2>y, <2>1, <1>1, SMTT(60)
  <2>7. y <= z
    BY <2>6, <1>1, <1>3, <2>2, Monotone, Zenon
  <2> HIDE DEF z, y
  <2>8. p \in Nat /\ b <= p /\ p <= x
    BY <2>1, <2>3, <2>4, <2>5, <2>7, <2>y, <1>1
  <2> QED BY <2>1, <2>8, <1>1, <1>u, Pages DEF Fits, InSlot
<1> QED BY <1>4, <1>5, Zenon DEF UserPtrs

-----------------------------------------------------------------------------
\* The list of free slots.
LEMMA TakeFacts ==
  ASSUME NEW q \in Seq(Slots), NEW i \in DOMAIN q, IsInjective(q)
  PROVE  /\ q[i] \in Slots /\ q[i] \in Range(q)
         /\ TakeAt(q, i) \in Seq(Slots) /\ IsInjective(TakeAt(q, i))
         /\ Range(TakeAt(q, i)) = Range(q) \ {q[i]}
<1>1. q[i] \in Slots /\ q[i] \in Range(q)
  BY SMTT(30) DEF Range
<1>2. TakeAt(q, i) \in Seq(Slots)
  BY SMTT(30) DEF TakeAt
<1>3. IsInjective(TakeAt(q, i))
  BY SMTT(30) DEF TakeAt, IsInjective
<1>4. Range(TakeAt(q, i)) = Range(q) \ {q[i]}
  BY SMTT(30) DEF TakeAt, IsInjective, Range
<1> QED BY <1>1, <1>2, <1>3, <1>4, Zenon

\* A slot that joins the free ones.
LEMMA AppendFacts ==
  ASSUME NEW q \in Seq(Slots), NEW s \in Slots, s \notin Range(q), IsInjective(q)
  PROVE  /\ Append(q, s) \in Seq(Slots) /\ IsInjective(Append(q, s))
         /\ Range(Append(q, s)) = Range(q) \cup {s}
<1>1. Append(q, s) \in Seq(Slots)
  BY SMTT(30)
<1>2. IsInjective(Append(q, s))
  BY SMTT(30) DEF IsInjective, Range
<1>3. Range(Append(q, s)) = Range(q) \cup {s}
  BY SMTT(30) DEF Range
<1> QED BY <1>1, <1>2, <1>3, Zenon

-----------------------------------------------------------------------------
\* The mutexes, which only their holder gives back.
LEMMA MutexStep ==
  ASSUME TypeOK, MutexInv, NEW t \in Threads, Calls(t) \/ Locks(t) \/ Steps(t)
  PROVE  MutexInv'
<1> USE ConstantsAssumption DEF MutexInv, Goto, Lock, locks
<1>p. pc \in [Threads -> PCs] BY Zenon DEF TypeOK
<1>1. ASSUME NEW r \in Requests, Allocate(t, r) PROVE MutexInv'
  BY <1>1, <1>p, ZenonT(60) DEF Allocate
<1>2. ASSUME NEW p, Freeing(t, p) PROVE MutexInv'
  BY <1>2, <1>p, ZenonT(60) DEF Freeing
<1>3. CASE Touch(t)
  BY <1>3, <1>p, ZenonT(60) DEF Touch
<1>4. CASE Disable(t)
  BY <1>4, <1>p, ZenonT(60) DEF Disable
<1>5. CASE AllocateReserve(t)
  <2>1. /\ pc[t] = "a_reserve" /\ UNCHANGED locks
        /\ pc' = [pc EXCEPT ![t] = "a_map"] \/ pc' = [pc EXCEPT ![t] = "idle"]
    BY <1>5, Zenon DEF AllocateReserve, reserveSlot, Reserved, Return
  <2> QED BY <2>1, <1>p, ZenonT(60)
<1>6. CASE AllocateTrace(t)
  BY <1>6, <1>p, ZenonT(60) DEF AllocateTrace
<1>7. CASE DeallocateTrapWild(t)
  BY <1>7, <1>p, ZenonT(60) DEF DeallocateTrapWild, trapOnAddress
<1>8. CASE DeallocateRecord(t)
  BY <1>8, <1>p, ZenonT(60) DEF DeallocateRecord, trapOnAddress
<1>9. CASE DeallocateTrace(t)
  BY <1>9, <1>p, ZenonT(60) DEF DeallocateTrace
<1>10. CASE freeSlot(t)
  <2>1. pc' = [pc EXCEPT ![t] = "idle"] /\ UNCHANGED locks
    BY <1>10, Zenon DEF freeSlot, Return
  <2> QED BY <2>1, <1>p, ZenonT(60)
<1>11. CASE DisableRest(t)
  BY <1>11, <1>p, ZenonT(60) DEF DisableRest
<1>12. CASE AllocateMap(t)
  BY <1>12, <1>p, ZenonT(60) DEF AllocateMap
<1>13. CASE RecordAllocation(t)
  BY <1>13, <1>p, ZenonT(60) DEF RecordAllocation
<1>14. CASE AllocateReturn(t)
  BY <1>14, <1>p, ZenonT(60) DEF AllocateReturn, Return
<1>15. CASE DeallocateUnlock(t)
  BY <1>15, <1>p, ZenonT(60) DEF DeallocateUnlock
<1>16. CASE DeallocateUnmap(t)
  BY <1>16, <1>p, ZenonT(60) DEF DeallocateUnmap
<1>17. CASE Enable(t)
  <2>1. CASE Goto(t, "disabled", "f_unlock") /\ poolMutex' = NoThread /\ UNCHANGED backtraceMutex
    BY <2>1, <1>p, ZenonT(60)
  <2>2. CASE Goto(t, "f_unlock", "idle") /\ backtraceMutex' = NoThread /\ UNCHANGED poolMutex
    BY <2>2, <1>p, ZenonT(60)
  <2> QED BY <1>17, <2>1, <2>2, Zenon DEF Enable
<1>18. CASE stop(t) \/ dumpReport(t)
  BY <1>18, <1>p, ZenonT(60) DEF stop, dumpReport
<1>19. CASE Deallocate(t) \/ DeallocateAgain(t) \/ DeallocateWild(t)
  BY <1>19, <1>2, Zenon DEF Deallocate, DeallocateAgain, DeallocateWild
<1> QED BY <1>1, <1>3, <1>4, <1>5, <1>6, <1>7, <1>8, <1>9, <1>10, <1>11, <1>12, <1>13, <1>14,
           <1>15, <1>16, <1>17, <1>18, <1>19, Zenon DEF Calls, Locks, Steps

-----------------------------------------------------------------------------
\* Every other conjunct, action by action.  What a thread is doing to its slot:
SameRole(u) ==
  /\ Late(u)' <=> Late(u)
  /\ Filling(u)' <=> Filling(u)
  /\ Taking(u)' <=> Taking(u)
  /\ Allocating(u)' <=> Allocating(u)
  /\ Entering(u)' <=> Entering(u)
  /\ Freed(u)' <=> Freed(u)

\* A step of t leaves alone what the other threads do.
LEMMA Others ==
  ASSUME TypeOK, NEW t \in Threads, NEW x \in PCs, pc' = [pc EXCEPT ![t] = x]
  PROVE  /\ pc'[t] = x /\ pc' \in [Threads -> PCs]
         /\ \A u \in Threads : u # t => pc'[u] = pc[u] /\ SameRole(u) /\ (Mapped(u)' <=> Mapped(u))
<1>1. pc \in [Threads -> PCs]
  BY Zenon DEF TypeOK
<1>2. pc'[t] = x /\ \A u \in Threads : u # t => pc'[u] = pc[u]
  BY <1>1, Zenon
<1>3. pc' \in [Threads -> PCs]
  BY <1>1, Zenon
<1> QED BY <1>2, <1>3, ZenonT(60)
        DEF SameRole, Mapped, Late, Filling, Taking, Allocating, Entering, Freed

\* The fields of the metadata of held memory and of memory about to be held.
LEMMA HeldFields ==
  ASSUME HoldInv, ~ambiguous
  PROVE  /\ \A h \in live : LET m == meta[getNearestSlot(h.p)]
                           IN  m.Addr = h.p /\ m.RequestedSize = h.sz /\ ~m.IsDeallocated
         /\ \A t \in Threads : Late(t) =>
              LET m == meta[slot[t]]
              IN  m.Addr = ptr[t] /\ m.RequestedSize = size[t] /\ ~m.IsDeallocated
<1>1. ASSUME NEW h \in live
      PROVE  LET m == meta[getNearestSlot(h.p)]
             IN  m.Addr = h.p /\ m.RequestedSize = h.sz /\ ~m.IsDeallocated
  <2>1. meta[getNearestSlot(h.p)] = [Addr |-> h.p, RequestedSize |-> h.sz, IsDeallocated |-> FALSE]
    BY Zenon DEF HoldInv, Owned
  <2> QED BY <2>1, SMT
<1>2. ASSUME NEW t \in Threads, Late(t)
      PROVE  LET m == meta[slot[t]]
             IN  m.Addr = ptr[t] /\ m.RequestedSize = size[t] /\ ~m.IsDeallocated
  <2>1. meta[slot[t]] = [Addr |-> ptr[t], RequestedSize |-> size[t], IsDeallocated |-> FALSE]
    BY <1>2, Zenon DEF HoldInv, Filled
  <2> QED BY <2>1, SMT
<1> QED BY <1>1, <1>2, Zenon

\* Threads that keep their roles and slots keep what is said about the slots.
LEMMA RolesKeep ==
  ASSUME AddrInv, TokenInv, HoldInv,
         \A u \in Threads : SameRole(u) /\ (slot'[u] = slot[u] \/ pc[u] \in {"idle", "a_reserve"}),
         UNCHANGED <<numSampled, freeSlots, meta, live, stale>>, ambiguous' <=> ambiguous
  PROVE  MetaAddrs' /\ LiveAddrs' /\ StaleAddrs' /\ TokenInv' /\ Owned' /\ Alone' /\ Covered'
<1>s. \A u \in Threads :
         /\ SameRole(u)
         /\ Late(u) \/ Filling(u) \/ Taking(u) \/ Allocating(u) \/ Entering(u) \/ Freed(u) =>
              slot'[u] = slot[u]
  BY Zenon DEF Late, Filling, Taking, Allocating, Entering, Freed
<1>1. MetaAddrs' /\ LiveAddrs' /\ StaleAddrs'
  BY Zenon DEF AddrInv, MetaAddrs, LiveAddrs, StaleAddrs
<1>2. FreeList'
  BY <1>s, Zenon DEF SameRole, TokenInv, FreeList
<1>3. OneTaker' /\ FreedMarked'
  BY <1>s, Zenon DEF SameRole, TokenInv, OneTaker, FreedMarked
<1>4. NewBlank' /\ MarkedTaken'
  BY <1>s, Zenon DEF SameRole, TokenInv, NewBlank, MarkedTaken
<1>5. FillingMarked'
  BY <1>s, Zenon DEF SameRole, TokenInv, FillingMarked, Untouched
<1>6. Owned'
  BY <1>s, Zenon DEF SameRole, HoldInv, Owned
<1>7. Alone'
  BY <1>s, Zenon DEF SameRole, HoldInv, Alone
<1>8. Covered'
  BY <1>s, ZenonT(60) DEF SameRole, HoldInv, Covered
<1> QED BY <1>1, <1>2, <1>3, <1>4, <1>5, <1>6, <1>7, <1>8, Zenon DEF TokenInv

\* ... even when the metadata changes, but not in its marks.
LEMMA MarksKeep ==
  ASSUME AddrInv, TokenInv, MapInv, HoldInv,
         \A u \in Threads : slot[u] \in Slots /\ SameRole(u) /\ (pc'[u] = "a_map" <=> pc[u] = "a_map"),
         \A s \in Slots : meta'[s].IsDeallocated <=> meta[s].IsDeallocated,
         UNCHANGED <<numSampled, freeSlots, writable, slot, live, stale>>, ambiguous' <=> ambiguous
  PROVE  /\ LiveAddrs' /\ StaleAddrs' /\ FreeList' /\ OneTaker' /\ FreedMarked' /\ FillingMarked'
         /\ MarkedTaken' /\ Accessible' /\ Alone' /\ Covered'
<1>1. LiveAddrs' /\ StaleAddrs'
  BY Zenon DEF AddrInv, LiveAddrs, StaleAddrs
<1>2. FreeList'
  BY Zenon DEF SameRole, TokenInv, FreeList
<1>3. OneTaker'
  BY Zenon DEF SameRole, TokenInv, OneTaker
<1>4. FreedMarked'
  BY Zenon DEF SameRole, TokenInv, FreedMarked
<1>5. FillingMarked'
  <2>1. \A s : Untouched(s)' <=> Untouched(s)
    BY Zenon DEF Untouched, SameRole
  <2> QED BY <2>1, Zenon DEF SameRole, TokenInv, FillingMarked
<1>6. MarkedTaken'
  BY Zenon DEF SameRole, TokenInv, MarkedTaken
<1>7. Accessible'
  <2> SUFFICES ASSUME NEW s \in Slots
               PROVE  \/ s \in writable \/ meta'[s].IsDeallocated \/ s >= numSampled
                      \/ \E u \in Threads : pc'[u] = "a_map" /\ slot[u] = s
    BY Zenon DEF Accessible
  <2>1. \/ s \in writable \/ meta[s].IsDeallocated \/ s >= numSampled
        \/ \E u \in Threads : pc[u] = "a_map" /\ slot[u] = s
    BY Zenon DEF MapInv, Accessible
  <2> QED BY <2>1, Zenon
<1>8. Alone'
  BY Zenon DEF SameRole, HoldInv, Alone
<1>9. Covered'
  BY Zenon DEF SameRole, HoldInv, Covered
<1> QED BY <1>1, <1>2, <1>3, <1>4, <1>5, <1>6, <1>7, <1>8, <1>9, Zenon

\* The steps that change nothing but the place of a thread inside its call.
Places == << {"a_trace", "a_unwind"}, {"d_trace", "d_unwind", "d_unmap", "d_free"},
             {"idle", "d_wild", "f_lock", "disabled", "f_unlock", "faulted", "reporting", "reported"} >>

\* A step of t within one part of a call that leaves the slots alone.
LEMMA QuietKeeps ==
  ASSUME GwpInv, NEW t \in Threads, NEW i \in 1 .. 3, pc[t] \in Places[i],
         NEW x \in Places[i], pc' = [pc EXCEPT ![t] = x],
         UNCHANGED <<free, meta, slot, ptr, size, live, stale>>, ambiguous' <=> ambiguous
  PROVE  /\ AddrInv' /\ TokenInv' /\ HoldInv' /\ (UNCHANGED writable => MapInv')
         /\ pc' \in [Threads -> PCs]
<1>i. TypeOK /\ AddrInv /\ TokenInv /\ MapInv /\ HoldInv
  BY Zenon DEF GwpInv
<1>1. \/ pc[t] \in {"a_trace", "a_unwind"} /\ x \in {"a_trace", "a_unwind"}
      \/ /\ pc[t] \in {"d_trace", "d_unwind", "d_unmap", "d_free"}
         /\ x \in {"d_trace", "d_unwind", "d_unmap", "d_free"}
      \/ /\ pc[t] \in {"idle", "d_wild", "f_lock", "disabled", "f_unlock", "faulted", "reporting", "reported"}
         /\ x \in {"idle", "d_wild", "f_lock", "disabled", "f_unlock", "faulted", "reporting", "reported"}
  BY SMT DEF Places
<1>2. x \in PCs
  BY <1>1, Zenon DEF PCs
<1>o. /\ pc'[t] = x /\ pc' \in [Threads -> PCs]
      /\ \A u \in Threads : u # t => pc'[u] = pc[u] /\ SameRole(u) /\ (Mapped(u)' <=> Mapped(u))
  BY <1>i, <1>2, Others, Zenon
<1>3. /\ SameRole(t) /\ (Mapped(t)' <=> Mapped(t))
      /\ pc[t] \notin {"a_reserve", "a_map", "a_addr", "a_size", "a_fresh"}
      /\ pc'[t] \notin {"a_reserve", "a_map", "a_addr", "a_size", "a_fresh"}
  BY <1>1, <1>o, ZenonT(60) DEF SameRole, Mapped, Late, Filling, Taking, Allocating, Entering, Freed
<1>4. ASSUME NEW u \in Threads
      PROVE  /\ SameRole(u) /\ (Mapped(u)' <=> Mapped(u))
             /\ pc'[u] = "a_map" <=> pc[u] = "a_map"
             /\ pc'[u] \in {"a_reserve", "a_map"} <=> pc[u] \in {"a_reserve", "a_map"}
             /\ pc'[u] \in {"a_size", "a_fresh"} <=> pc[u] \in {"a_size", "a_fresh"}
             /\ pc'[u] \in {"a_addr", "a_size", "a_fresh"} <=> pc[u] \in {"a_addr", "a_size", "a_fresh"}
             /\ pc'[u] = "a_fresh" <=> pc[u] = "a_fresh"
  BY <1>o, <1>3, Zenon
<1>u. UNCHANGED <<numSampled, freeSlots, meta, slot, ptr, size, live, stale>>
  BY Zenon DEF free
<1>r. MetaAddrs' /\ LiveAddrs' /\ StaleAddrs' /\ TokenInv' /\ Owned' /\ Alone' /\ Covered'
  BY <1>i, <1>4, <1>u, RolesKeep, Zenon
<1>5. CallAddrs'
  BY <1>i, <1>4, <1>u, Zenon DEF AddrInv, CallAddrs, SameRole
<1>6. Filled'
  BY <1>i, <1>4, <1>u, ZenonT(60) DEF HoldInv, Filled, SameRole
<1>7. ASSUME UNCHANGED writable PROVE MapInv'
  <2>1. FillingMapped'
    BY <1>i, <1>4, <1>u, <1>7, Zenon DEF MapInv, FillingMapped
  <2>2. Accessible'
    <3> SUFFICES ASSUME NEW s \in Slots
                 PROVE  \/ s \in writable' \/ meta'[s].IsDeallocated \/ s >= numSampled'
                        \/ \E u \in Threads : pc'[u] = "a_map" /\ slot'[u] = s
      BY Zenon DEF Accessible
    <3>1. \/ s \in writable \/ meta[s].IsDeallocated \/ s >= numSampled
          \/ \E u \in Threads : pc[u] = "a_map" /\ slot[u] = s
      BY <1>i, Zenon DEF MapInv, Accessible
    <3> QED BY <3>1, <1>4, <1>u, <1>7, Zenon
  <2> QED BY <2>1, <2>2, Zenon DEF MapInv
<1> QED BY <1>o, <1>r, <1>5, <1>6, <1>7, Zenon DEF AddrInv, HoldInv

\* A call of allocate that is not refused.
LEMMA AllocateKeeps ==
  ASSUME GwpInv, NEW t \in Threads, NEW r \in Requests, Allocate(t, r)
  PROVE  TypeOK' /\ AddrInv' /\ TokenInv' /\ MapInv' /\ HoldInv'
<1>i. TypeOK /\ AddrInv /\ TokenInv /\ MapInv /\ HoldInv
  BY Zenon DEF GwpInv
<1>1. /\ pc[t] = "idle" /\ pc' = [pc EXCEPT ![t] = "a_reserve"]
      /\ size' = [size EXCEPT ![t] = EffectiveSize(r)]
      /\ ptr' = [ptr EXCEPT ![t] = EffectiveAlignment(r)]
      /\ UNCHANGED <<numSampled, freeSlots, meta, writable, slot, live, stale>>
  BY Zenon DEF Allocate, Goto, free, mem
<1>a. ambiguous' = ambiguous
  BY Zenon DEF Allocate
<1>b. ambiguous' <=> ambiguous
  BY <1>a, Zenon
<1>2. /\ EffectiveAlignment(r) \in Powers /\ EffectiveAlignment(r) \in Nat
      /\ EffectiveAlignment(r) <= PageSize
      /\ EffectiveSize(r) \in Nat /\ EffectiveSize(r) >= 1 /\ EffectiveSize(r) <= PageSize
  <2>1. r[1] \in Nat /\ r[2] \in Nat
    BY ConstantsAssumption, SMT
  <2>2. EffectiveAlignment(r) \in Powers
    BY Zenon DEF Allocate, Refused
  <2>3. EffectiveAlignment(r) \in Nat
    BY <2>2, ConstantsAssumption, Zenon
  <2>4. ~(EffectiveAlignment(r) > PageSize) /\ ~(EffectiveSize(r) > PageSize)
    BY Zenon DEF Allocate, Refused, maximumAllocationSize
  <2>5. EffectiveSize(r) \in Nat /\ EffectiveSize(r) >= 1
    BY <2>1 DEF EffectiveSize
  <2> HIDE DEF EffectiveSize, EffectiveAlignment
  <2> QED BY <2>2, <2>3, <2>4, <2>5, Pages, SMTT(60)
<1>o. /\ pc'[t] = "a_reserve" /\ pc' \in [Threads -> PCs]
      /\ \A u \in Threads : u # t => pc'[u] = pc[u] /\ SameRole(u) /\ (Mapped(u)' <=> Mapped(u))
  BY <1>i, <1>1, Others, Zenon DEF PCs
<1>3. /\ ptr'[t] = EffectiveAlignment(r) /\ size'[t] = EffectiveSize(r)
      /\ ptr' \in [Threads -> Nat] /\ size' \in [Threads -> Nat]
      /\ \A u \in Threads : u # t => ptr'[u] = ptr[u] /\ size'[u] = size[u]
  BY <1>i, <1>1, <1>2, ZenonT(60) DEF TypeOK
<1>4. TypeOK'
  BY <1>i, <1>1, <1>a, <1>o, <1>3, Zenon DEF TypeOK
<1>5. SameRole(t) /\ ~Mapped(t)' /\ ~Late(t)' /\ ~(Allocating(t) \/ Freed(t) \/ Entering(t))'
  BY <1>1, <1>o, ZenonT(60) DEF SameRole, Mapped, Late, Filling, Taking, Allocating, Entering, Freed
<1>r. MetaAddrs' /\ LiveAddrs' /\ StaleAddrs' /\ TokenInv' /\ Owned' /\ Alone' /\ Covered'
  BY <1>i, <1>1, <1>b, <1>5, <1>o, RolesKeep, Zenon
<1>6. CallAddrs'
  BY <1>i, <1>1, <1>2, <1>3, <1>5, <1>o, ZenonT(60) DEF AddrInv, CallAddrs, SameRole
<1>8. MapInv'
  BY <1>i, <1>1, <1>o, Zenon DEF MapInv, FillingMapped, Accessible
<1>9. Filled'
  BY <1>i, <1>1, <1>b, <1>3, <1>5, <1>o, ZenonT(60) DEF HoldInv, Filled, SameRole
<1> QED BY <1>r, <1>4, <1>6, <1>8, <1>9, Zenon DEF AddrInv, HoldInv

\* reserveSlot: a slot that was never used, or one from the list.
LEMMA ReservedKeeps ==
  ASSUME GwpInv, NEW t \in Threads, NEW s \in Slots, Reserved(t, s),
         UNCHANGED <<meta, writable, live, stale>>,
         numSampled' \in 0 .. MaxSimultaneousAllocations,
         \A x \in Slots : x < numSampled' <=> x < numSampled \/ x = s,
         freeSlots' \in Seq(Slots), IsInjective(freeSlots'), Range(freeSlots') = Range(freeSlots) \ {s},
         \A u \in Threads : Taking(u) => slot[u] # s,
         meta[s].IsDeallocated \/ Untouched(s)
  PROVE  TypeOK' /\ AddrInv' /\ TokenInv' /\ MapInv' /\ HoldInv'
<1>i. TypeOK /\ AddrInv /\ TokenInv /\ MapInv /\ HoldInv
  BY Zenon DEF GwpInv
<1>1. /\ pc[t] = "a_reserve" /\ pc' = [pc EXCEPT ![t] = "a_map"]
      /\ slot' = [slot EXCEPT ![t] = s]
      /\ UNCHANGED <<ptr, size>>
  BY Zenon DEF Reserved, Goto
<1>a. ambiguous' = (ambiguous \/ \E u \in Threads : Entering(u) /\ slot[u] = s)
  BY Zenon DEF Reserved
<1>b. ~ambiguous' => ~ambiguous /\ \A u \in Threads : Entering(u) => slot[u] # s
  BY <1>a, Zenon
<1>o. /\ pc'[t] = "a_map" /\ pc' \in [Threads -> PCs]
      /\ \A u \in Threads : u # t => pc'[u] = pc[u] /\ SameRole(u) /\ (Mapped(u)' <=> Mapped(u))
  BY <1>i, <1>1, Others, Zenon DEF PCs
<1>2. /\ slot'[t] = s /\ slot' \in [Threads -> Slots]
      /\ \A u \in Threads : u # t => slot'[u] = slot[u]
  BY <1>i, <1>1, ZenonT(60) DEF TypeOK
<1>n. numSampled \in 0 .. MaxSimultaneousAllocations
  BY <1>i, Zenon DEF TypeOK
<1>3. TypeOK'
  BY <1>i, <1>1, <1>a, <1>o, <1>2, Zenon DEF TypeOK
<1>4. /\ ~Late(t)' /\ ~Entering(t)' /\ ~Freed(t)' /\ ~Mapped(t)'
      /\ ~Late(t) /\ ~Entering(t) /\ ~Freed(t) /\ ~Mapped(t) /\ ~Filling(t) /\ ~Allocating(t) /\ ~Taking(t)
      /\ Filling(t)' /\ Allocating(t)' /\ Taking(t)'
  BY <1>1, <1>o, ZenonT(60) DEF Mapped, Late, Filling, Taking, Allocating, Entering, Freed
<1>5. CallAddrs'
  <2> SUFFICES ASSUME NEW u \in Threads
               PROVE  /\ pc'[u] \in {"a_reserve", "a_map"} =>
                           /\ ptr'[u] \in Powers /\ ptr'[u] <= PageSize
                           /\ size'[u] >= 1 /\ size'[u] <= PageSize
                      /\ Mapped(u)' => Fits(ptr'[u], size'[u], slot'[u])
                      /\ (Allocating(u) \/ Freed(u) \/ Entering(u))' => slot'[u] < numSampled'
    BY Zenon DEF CallAddrs
  <2>1. CASE u = t
    BY <2>1, <1>i, <1>1, <1>2, <1>4, Zenon DEF AddrInv, CallAddrs
  <2>2. CASE u # t
    <3>1. (Allocating(u) \/ Freed(u) \/ Entering(u))' => slot[u] < numSampled
      BY <2>2, <1>i, <1>o, Zenon DEF AddrInv, CallAddrs, SameRole
    <3>2. slot[u] \in Slots
      BY <1>i, Zenon DEF TypeOK
    <3> QED BY <2>2, <3>1, <3>2, <1>i, <1>1, <1>2, <1>o, Zenon DEF AddrInv, CallAddrs
  <2> QED BY <2>1, <2>2, Zenon
<1>6. MetaAddrs'
  BY <1>i, Zenon DEF AddrInv, MetaAddrs
<1>7. LiveAddrs' /\ StaleAddrs'
  <2>1. \A h \in live : getNearestSlot(h.p) \in Slots
    BY <1>i, Zenon DEF AddrInv, LiveAddrs, Fits, InSlot
  <2>2. \A p \in stale : getNearestSlot(p) \in Slots
    BY <1>i, Zenon DEF AddrInv, StaleAddrs, InSlot
  <2> QED BY <1>i, <2>1, <2>2, Zenon DEF AddrInv, LiveAddrs, StaleAddrs
<1>8. FreeList'
  <2>1. \A x \in Range(freeSlots') : x \in Range(freeSlots) /\ x # s
    BY Zenon
  <2> QED BY <2>1, <1>i, <1>2, <1>o, <1>4, Zenon DEF TokenInv, FreeList, SameRole
<1>9. OneTaker'
  BY <1>i, <1>2, <1>o, <1>4, Zenon DEF TokenInv, OneTaker, SameRole
<1>10. FreedMarked'
  BY <1>i, <1>2, <1>o, <1>4, Zenon DEF TokenInv, FreedMarked, SameRole
<1>11. FillingMarked'
  <2>1. \A x : Untouched(x) => Untouched(x)'
    BY <1>i, <1>2, <1>o, <1>4, Zenon DEF Untouched, SameRole
  <2> QED BY <2>1, <1>i, <1>2, <1>o, <1>4, Zenon DEF TokenInv, FillingMarked, SameRole
<1>12. NewBlank'
  <2>1. \A x \in Slots : x >= numSampled' => x >= numSampled
    BY <1>n, Pages DEF Slots
  <2> QED BY <2>1, <1>i, Zenon DEF TokenInv, NewBlank
<1>13. MarkedTaken'
  BY <1>i, <1>2, <1>o, <1>4, ZenonT(120) DEF TokenInv, MarkedTaken, SameRole
<1>14. FillingMapped'
  BY <1>i, <1>2, <1>o, Zenon DEF MapInv, FillingMapped
<1>15. Accessible'
  <2>1. ASSUME NEW x \in Slots, x >= numSampled PROVE x >= numSampled' \/ x = s
    <3>1. x < numSampled' => x < numSampled \/ x = s
      BY Zenon
    <3> QED BY <3>1, <2>1, <1>n, Pages DEF Slots
  <2> QED BY <2>1, <1>i, <1>1, <1>2, <1>o, ZenonT(60) DEF MapInv, Accessible
<1>16. ASSUME ~ambiguous
       PROVE  /\ \A h \in live : getNearestSlot(h.p) # s
              /\ \A u \in Threads : Allocating(u) => slot[u] # s
  <2>1. CASE Untouched(s)
    BY <2>1, Zenon DEF Untouched, Allocating, Late, Filling, Taking
  <2>2. CASE meta[s].IsDeallocated
    <3>1. (\A h \in live : getNearestSlot(h.p) # s) /\ \A u \in Threads : Late(u) => slot[u] # s
      BY <2>2, <1>16, <1>i, HeldFields, Zenon
    <3> QED BY <3>1, Zenon DEF Allocating, Late, Filling, Taking
  <2> QED BY <2>1, <2>2, Zenon
<1>17. Owned'
  BY <1>i, <1>b, <1>16, <1>2, <1>o, <1>4, Zenon DEF HoldInv, Owned, SameRole
<1>18. Filled'
  BY <1>i, <1>b, <1>1, <1>2, <1>o, <1>4, ZenonT(60) DEF HoldInv, Filled, SameRole
<1>19. Alone'
  BY <1>i, <1>b, <1>16, <1>2, <1>o, <1>4, Zenon DEF HoldInv, Alone, SameRole
<1>20. Covered'
  BY <1>i, <1>b, <1>2, <1>o, <1>4, ZenonT(60) DEF HoldInv, Covered, SameRole
<1> QED BY <1>3, <1>5, <1>6, <1>7, <1>8, <1>9, <1>10, <1>11, <1>12, <1>13, <1>14, <1>15, <1>17, <1>18,
           <1>19, <1>20, Zenon DEF AddrInv, TokenInv, MapInv, HoldInv

\* reserveSlot: a slot never used before, a free one, or none.
LEMMA ReserveKeeps ==
  ASSUME GwpInv, NEW t \in Threads, AllocateReserve(t)
  PROVE  TypeOK' /\ AddrInv' /\ TokenInv' /\ MapInv' /\ HoldInv'
<1>i. TypeOK /\ AddrInv /\ TokenInv /\ MapInv /\ HoldInv
  BY Zenon DEF GwpInv
<1>u. reserveSlot(t) /\ UNCHANGED <<meta, writable, live, stale>>
  BY Zenon DEF AllocateReserve, mem
<1>n. numSampled \in 0 .. MaxSimultaneousAllocations /\ freeSlots \in Seq(Slots)
  BY <1>i, Zenon DEF TypeOK
<1>1. CASE /\ numSampled < MaxSimultaneousAllocations
           /\ numSampled' = numSampled + 1
           /\ Reserved(t, numSampled) /\ UNCHANGED freeSlots
  <2>1. /\ numSampled \in Slots /\ numSampled' \in 0 .. MaxSimultaneousAllocations
        /\ \A x \in Slots : x < numSampled' <=> x < numSampled \/ x = numSampled
        /\ ~(numSampled < numSampled)
    BY <1>1, <1>n, Pages DEF Slots
  <2>2. \A u \in Threads : Taking(u) \/ Entering(u) \/ Late(u) => slot[u] # numSampled
    BY <2>1, <1>i, Zenon DEF AddrInv, CallAddrs, Taking, Filling, Late, Allocating
  <2>3. Untouched(numSampled)
    BY <2>1, <2>2, <1>i, Zenon DEF AddrInv, LiveAddrs, StaleAddrs, Untouched
  <2>4. numSampled \notin Range(freeSlots)
    BY <2>1, <1>i, Zenon DEF TokenInv, FreeList
  <2>5. /\ freeSlots' \in Seq(Slots) /\ IsInjective(freeSlots')
        /\ Range(freeSlots') = Range(freeSlots) \ {numSampled}
    BY <2>4, <1>1, <1>n, <1>i, Zenon DEF TokenInv, FreeList
  <2> QED BY <1>1, <1>u, <2>1, <2>2, <2>3, <2>5, ReservedKeeps, Zenon
<1>2. CASE /\ numSampled = MaxSimultaneousAllocations /\ UNCHANGED numSampled
           /\ \E i \in DOMAIN freeSlots :
                freeSlots' = TakeAt(freeSlots, i) /\ Reserved(t, freeSlots[i])
  <2>1. PICK i \in DOMAIN freeSlots : freeSlots' = TakeAt(freeSlots, i) /\ Reserved(t, freeSlots[i])
    BY <1>2, Zenon
  <2> DEFINE s == freeSlots[i]
  <2>2. IsInjective(freeSlots)
    BY <1>i, Zenon DEF TokenInv, FreeList
  <2>3. /\ s \in Slots /\ s \in Range(freeSlots)
        /\ freeSlots' \in Seq(Slots) /\ IsInjective(freeSlots')
        /\ Range(freeSlots') = Range(freeSlots) \ {s}
    BY <2>1, <2>2, <1>n, TakeFacts, Zenon
  <2>4. Reserved(t, s)
    BY <2>1, Zenon
  <2> HIDE DEF s
  <2>5. s < numSampled /\ meta[s].IsDeallocated /\ \A u \in Threads : Taking(u) => slot[u] # s
    BY <2>3, <1>i, Zenon DEF TokenInv, FreeList
  <2>6. /\ \A x \in Slots : x < numSampled' <=> x < numSampled \/ x = s
        /\ numSampled' \in 0 .. MaxSimultaneousAllocations
    BY <1>2, <1>n, <2>5, Zenon
  <2> QED BY <1>u, <2>3, <2>4, <2>5, <2>6, ReservedKeeps, Zenon
<1>3. CASE Return(t, "a_reserve") /\ UNCHANGED <<free, ambiguous>>
  <2>1. /\ pc[t] = "a_reserve" /\ pc' = [pc EXCEPT ![t] = "idle"]
        /\ slot' = [slot EXCEPT ![t] = 0] /\ ptr' = [ptr EXCEPT ![t] = 0] /\ size' = [size EXCEPT ![t] = 0]
        /\ UNCHANGED <<numSampled, freeSlots>>
    BY <1>3, Zenon DEF Return, Goto, free
  <2>a. ambiguous' = ambiguous
    BY <1>3, Zenon
  <2>b. ambiguous' <=> ambiguous
    BY <2>a, Zenon
  <2>o. /\ pc'[t] = "idle" /\ pc' \in [Threads -> PCs]
        /\ \A u \in Threads : u # t => pc'[u] = pc[u] /\ SameRole(u) /\ (Mapped(u)' <=> Mapped(u))
    BY <1>i, <2>1, Others, Zenon DEF PCs
  <2>2. 0 \in Slots
    BY Pages DEF Slots
  <2>3. /\ slot' \in [Threads -> Slots] /\ ptr' \in [Threads -> Nat] /\ size' \in [Threads -> Nat]
        /\ \A u \in Threads : u # t => slot'[u] = slot[u] /\ ptr'[u] = ptr[u] /\ size'[u] = size[u]
    BY <1>i, <2>1, <2>2, ZenonT(60) DEF TypeOK
  <2>4. TypeOK'
    BY <1>i, <1>u, <2>1, <2>a, <2>o, <2>3, Zenon DEF TypeOK
  <2>5. SameRole(t) /\ ~Mapped(t)' /\ ~Late(t)' /\ ~(Allocating(t) \/ Freed(t) \/ Entering(t))'
    BY <2>1, <2>o, ZenonT(60) DEF SameRole, Mapped, Late, Filling, Taking, Allocating, Entering, Freed
  <2>r. MetaAddrs' /\ LiveAddrs' /\ StaleAddrs' /\ TokenInv' /\ Owned' /\ Alone' /\ Covered'
    <3>1. \A u \in Threads : SameRole(u) /\ (slot'[u] = slot[u] \/ pc[u] \in {"idle", "a_reserve"})
      BY <2>1, <2>3, <2>5, <2>o, Zenon
    <3> QED BY <3>1, <1>i, <1>u, <2>1, <2>b, RolesKeep, Zenon
  <2>6. CallAddrs'
    BY <1>i, <2>1, <2>3, <2>5, <2>o, ZenonT(60) DEF AddrInv, CallAddrs, SameRole
  <2>7. FillingMapped' /\ Accessible'
    <3>1. FillingMapped'
      BY <1>i, <1>u, <2>1, <2>3, <2>o, Zenon DEF MapInv, FillingMapped
    <3>2. Accessible'
      BY <1>i, <1>u, <2>1, <2>3, <2>o, ZenonT(60) DEF MapInv, Accessible
    <3> QED BY <3>1, <3>2, Zenon
  <2>8. Filled'
    BY <1>i, <1>u, <2>1, <2>b, <2>3, <2>5, <2>o, ZenonT(120) DEF HoldInv, Filled, SameRole
  <2> QED BY <2>r, <2>4, <2>6, <2>7, <2>8, Zenon DEF AddrInv, MapInv, HoldInv
<1> QED BY <1>u, <1>1, <1>2, <1>3, Zenon DEF reserveSlot

\* The page is made accessible before the metadata says it is in use.
LEMMA MapKeeps ==
  ASSUME GwpInv, NEW t \in Threads, AllocateMap(t)
  PROVE  TypeOK' /\ AddrInv' /\ TokenInv' /\ MapInv' /\ HoldInv'
<1>i. TypeOK /\ AddrInv /\ TokenInv /\ MapInv /\ HoldInv
  BY Zenon DEF GwpInv
<1>1. /\ pc[t] = "a_map" /\ pc' = [pc EXCEPT ![t] = "a_addr"]
      /\ writable' = writable \cup {slot[t]}
      /\ UNCHANGED <<numSampled, freeSlots, meta, slot, size, live, stale>>
  BY Zenon DEF AllocateMap, Goto, free, program
<1>a. ambiguous' = ambiguous
  BY Zenon DEF AllocateMap, program
<1>b. ambiguous' <=> ambiguous
  BY <1>a, Zenon
<1>2. PICK p \in UserPtrs(slot[t], size[t], ptr[t]) : ptr' = [ptr EXCEPT ![t] = p]
  BY Zenon DEF AllocateMap
<1>t. slot[t] \in Slots /\ size[t] \in Nat
  BY <1>i, Zenon DEF TypeOK
<1>3. p \in Nat /\ Fits(p, size[t], slot[t])
  <2>1. ptr[t] \in Powers /\ ptr[t] <= PageSize /\ size[t] >= 1 /\ size[t] <= PageSize
    BY <1>i, <1>1, Zenon DEF AddrInv, CallAddrs
  <2> QED BY <2>1, <1>2, <1>t, PtrsFit, Zenon
<1>o. /\ pc'[t] = "a_addr" /\ pc' \in [Threads -> PCs]
      /\ \A u \in Threads : u # t => pc'[u] = pc[u] /\ SameRole(u) /\ (Mapped(u)' <=> Mapped(u))
  BY <1>i, <1>1, Others, Zenon DEF PCs
<1>4. /\ ptr'[t] = p /\ ptr' \in [Threads -> Nat]
      /\ \A u \in Threads : u # t => ptr'[u] = ptr[u]
  BY <1>i, <1>2, <1>3, Zenon DEF TypeOK
<1>5. TypeOK'
  <2>1. writable' \subseteq Slots
    BY <1>i, <1>1, <1>t, Zenon DEF TypeOK
  <2> QED BY <1>i, <1>1, <1>a, <1>o, <1>4, <2>1, Zenon DEF TypeOK
<1>6. SameRole(t) /\ ~Late(t)' /\ Allocating(t)
  BY <1>1, <1>o, ZenonT(60) DEF SameRole, Late, Filling, Taking, Allocating, Entering, Freed
<1>r. MetaAddrs' /\ LiveAddrs' /\ StaleAddrs' /\ TokenInv' /\ Owned' /\ Alone' /\ Covered'
  <2>1. \A u \in Threads : SameRole(u) /\ slot'[u] = slot[u]
    BY <1>1, <1>6, <1>o, Zenon
  <2> QED BY <2>1, <1>i, <1>1, <1>b, RolesKeep, Zenon
<1>7. CallAddrs'
  BY <1>i, <1>1, <1>3, <1>4, <1>6, <1>o, ZenonT(60) DEF AddrInv, CallAddrs, SameRole
<1>8. FillingMapped'
  BY <1>i, <1>1, <1>o, Zenon DEF MapInv, FillingMapped
<1>9. Accessible'
  BY <1>i, <1>1, <1>o, ZenonT(60) DEF MapInv, Accessible
<1>10. Filled'
  BY <1>i, <1>1, <1>b, <1>4, <1>6, <1>o, ZenonT(60) DEF HoldInv, Filled, SameRole
<1> QED BY <1>r, <1>5, <1>7, <1>8, <1>9, <1>10, Zenon DEF AddrInv, MapInv, HoldInv

\* What changing one field of the metadata of one slot leaves.
MetaType == [Slots -> [Addr : Nat, RequestedSize : Nat, IsDeallocated : BOOLEAN]]

LEMMA SetAddr ==
  ASSUME meta \in MetaType, NEW s \in Slots, NEW a \in Nat, meta' = [meta EXCEPT ![s].Addr = a]
  PROVE  /\ meta' \in MetaType /\ \A x \in Slots : x # s => meta'[x] = meta[x]
         /\ meta'[s].Addr = a /\ meta'[s].RequestedSize = meta[s].RequestedSize
         /\ meta'[s].IsDeallocated <=> meta[s].IsDeallocated
<1>1. meta' \in MetaType
  BY SMTT(30) DEF MetaType
<1>2. \A x \in Slots : x # s => meta'[x] = meta[x]
  BY Zenon DEF MetaType
<1>3. meta'[s] = [meta[s] EXCEPT !.Addr = a] /\ meta[s] \in [Addr : Nat, RequestedSize : Nat, IsDeallocated : BOOLEAN]
  BY Zenon DEF MetaType
<1>4. /\ meta'[s].Addr = a /\ meta'[s].RequestedSize = meta[s].RequestedSize
      /\ meta'[s].IsDeallocated = meta[s].IsDeallocated
  BY <1>3, SMTT(30)
<1> QED BY <1>1, <1>2, <1>4, Zenon

LEMMA SetSize ==
  ASSUME meta \in MetaType, NEW s \in Slots, NEW n \in Nat, meta' = [meta EXCEPT ![s].RequestedSize = n]
  PROVE  /\ meta' \in MetaType /\ \A x \in Slots : x # s => meta'[x] = meta[x]
         /\ meta'[s].Addr = meta[s].Addr /\ meta'[s].RequestedSize = n
         /\ meta'[s].IsDeallocated <=> meta[s].IsDeallocated
<1>1. meta' \in MetaType
  BY SMTT(30) DEF MetaType
<1>2. \A x \in Slots : x # s => meta'[x] = meta[x]
  BY Zenon DEF MetaType
<1>3. /\ meta'[s] = [meta[s] EXCEPT !.RequestedSize = n]
      /\ meta[s] \in [Addr : Nat, RequestedSize : Nat, IsDeallocated : BOOLEAN]
  BY Zenon DEF MetaType
<1>4. /\ meta'[s].Addr = meta[s].Addr /\ meta'[s].RequestedSize = n
      /\ meta'[s].IsDeallocated = meta[s].IsDeallocated
  BY <1>3, SMTT(30)
<1> QED BY <1>1, <1>2, <1>4, Zenon

LEMMA SetMark ==
  ASSUME meta \in MetaType, NEW s \in Slots, NEW b \in BOOLEAN, meta' = [meta EXCEPT ![s].IsDeallocated = b]
  PROVE  /\ meta' \in MetaType /\ \A x \in Slots : x # s => meta'[x] = meta[x]
         /\ meta'[s] = [Addr |-> meta[s].Addr, RequestedSize |-> meta[s].RequestedSize, IsDeallocated |-> b]
         /\ meta'[s].Addr = meta[s].Addr /\ meta'[s].RequestedSize = meta[s].RequestedSize
         /\ meta'[s].IsDeallocated <=> b
<1>1. meta' \in MetaType
  BY SMTT(30) DEF MetaType
<1>2. \A x \in Slots : x # s => meta'[x] = meta[x]
  BY Zenon DEF MetaType
<1>3. /\ meta'[s] = [meta[s] EXCEPT !.IsDeallocated = b]
      /\ meta[s] \in [Addr : Nat, RequestedSize : Nat, IsDeallocated : BOOLEAN]
  BY Zenon DEF MetaType
<1>4. meta'[s] = [Addr |-> meta[s].Addr, RequestedSize |-> meta[s].RequestedSize, IsDeallocated |-> b]
  BY <1>3, SMTT(30)
<1>5. /\ meta'[s].Addr = meta[s].Addr /\ meta'[s].RequestedSize = meta[s].RequestedSize
      /\ meta'[s].IsDeallocated = b
  BY <1>4, SMTT(30)
<1> QED BY <1>1, <1>2, <1>4, <1>5, Zenon

\* RecordAllocation: the first two fields, of a slot that nobody else has.
LEMMA FieldKeeps ==
  ASSUME GwpInv, NEW t \in Threads, pc[t] \in {"a_addr", "a_size"},
         NEW x \in {"a_size", "a_fresh"}, pc' = [pc EXCEPT ![t] = x],
         meta' \in MetaType, \A s \in Slots : s # slot[t] => meta'[s] = meta[s],
         meta'[slot[t]].IsDeallocated <=> meta[slot[t]].IsDeallocated,
         meta'[slot[t]].Addr # 0 => InSlot(meta'[slot[t]].Addr, slot[t]),
         ~ambiguous => meta'[slot[t]].Addr = ptr[t],
         x = "a_fresh" => meta'[slot[t]].RequestedSize = size[t],
         UNCHANGED <<numSampled, freeSlots, writable, slot, ptr, size, live, stale>>,
         ambiguous' \in BOOLEAN, ambiguous' <=> ambiguous
  PROVE  TypeOK' /\ AddrInv' /\ TokenInv' /\ MapInv' /\ HoldInv'
<1>i. TypeOK /\ AddrInv /\ TokenInv /\ MapInv /\ HoldInv
  BY Zenon DEF GwpInv
<1>u. UNCHANGED <<numSampled, freeSlots, writable, slot, ptr, size, live, stale>> /\ (ambiguous' <=> ambiguous)
  BY Zenon
<1>o. /\ pc'[t] = x /\ pc' \in [Threads -> PCs]
      /\ \A u \in Threads : u # t => pc'[u] = pc[u] /\ SameRole(u) /\ (Mapped(u)' <=> Mapped(u))
  BY <1>i, Others, Zenon DEF PCs
<1>1. TypeOK'
  BY <1>i, <1>o, Zenon DEF TypeOK, MetaType
<1>2. SameRole(t) /\ Mapped(t) /\ ~Late(t)' /\ Allocating(t) /\ Filling(t)
  BY <1>o, ZenonT(60) DEF SameRole, Mapped, Late, Filling, Taking, Allocating, Entering, Freed
<1>3. slot[t] \in Slots /\ slot[t] < numSampled /\ \A u \in Threads : slot[u] \in Slots
  BY <1>i, <1>2, Zenon DEF TypeOK, AddrInv, CallAddrs
<1>m. \A s \in Slots : meta'[s].IsDeallocated <=> meta[s].IsDeallocated
  BY Zenon
<1>r. \A u \in Threads : SameRole(u) /\ (pc'[u] = "a_map" <=> pc[u] = "a_map")
  BY <1>2, <1>o, Zenon
<1>4. CallAddrs'
  BY <1>i, <1>u, <1>2, <1>o, ZenonT(60) DEF AddrInv, CallAddrs, SameRole
<1>5. MetaAddrs'
  BY <1>i, Zenon DEF AddrInv, MetaAddrs
<1>6. /\ LiveAddrs' /\ StaleAddrs' /\ FreeList' /\ OneTaker' /\ FreedMarked' /\ FillingMarked'
      /\ MarkedTaken' /\ Accessible' /\ Alone' /\ Covered'
  BY <1>i, <1>3, <1>m, <1>r, <1>u, MarksKeep, Zenon
<1>7. NewBlank'
  <2>1. ~(slot[t] >= numSampled)
    <3>1. numSampled \in 0 .. MaxSimultaneousAllocations /\ slot[t] \in Slots
      BY <1>i, <1>3, Zenon DEF TypeOK
    <3> QED BY <3>1, <1>3, Pages DEF Slots
  <2> QED BY <2>1, <1>i, <1>u, ZenonT(60) DEF TokenInv, NewBlank
<1>8. FillingMapped'
  <2>1. slot[t] \in writable
    BY <1>i, Zenon DEF MapInv, FillingMapped
  <2> QED BY <2>1, <1>i, <1>u, <1>o, Zenon DEF MapInv, FillingMapped
<1>9. ASSUME ~ambiguous, NEW u \in Threads, u # t, Allocating(u) PROVE slot[u] # slot[t]
  BY <1>9, <1>i, <1>2, Zenon DEF HoldInv, Alone
<1>10. Owned'
  <2> SUFFICES ASSUME ~ambiguous, NEW h \in live
               PROVE  /\ meta'[getNearestSlot(h.p)] =
                           [Addr |-> h.p, RequestedSize |-> h.sz, IsDeallocated |-> FALSE]
                      /\ \A u \in Threads : (Allocating(u) \/ Entering(u))' => slot[u] # getNearestSlot(h.p)
    BY <1>u, ZenonT(60) DEF Owned
  <2>1. slot[t] # getNearestSlot(h.p) /\ getNearestSlot(h.p) \in Slots
    BY <1>i, <1>2, Zenon DEF HoldInv, Owned, AddrInv, LiveAddrs, Fits, InSlot
  <2>2. meta'[getNearestSlot(h.p)] = [Addr |-> h.p, RequestedSize |-> h.sz, IsDeallocated |-> FALSE]
    <3>1. meta[getNearestSlot(h.p)] = [Addr |-> h.p, RequestedSize |-> h.sz, IsDeallocated |-> FALSE]
      BY <1>i, Zenon DEF HoldInv, Owned
    <3> QED BY <2>1, <3>1, Zenon
  <2>3. ASSUME NEW u \in Threads, (Allocating(u) \/ Entering(u))' PROVE slot[u] # getNearestSlot(h.p)
    BY <2>3, <1>i, <1>r, Zenon DEF HoldInv, Owned, SameRole
  <2> QED BY <2>2, <2>3, Zenon
<1>11. Filled'
  <2> SUFFICES ASSUME ~ambiguous, NEW u \in Threads
               PROVE  /\ pc'[u] \in {"a_size", "a_fresh"} => meta'[slot[u]].Addr = ptr[u]
                      /\ pc'[u] = "a_fresh" => meta'[slot[u]].RequestedSize = size[u]
                      /\ Late(u)' => meta'[slot[u]] = [Addr |-> ptr[u], RequestedSize |-> size[u],
                                                       IsDeallocated |-> FALSE]
    BY <1>u, ZenonT(60) DEF Filled
  <2>1. CASE u = t
    BY <2>1, <1>2, <1>o, Zenon
  <2>2. CASE u # t
    <3>1. pc'[u] \in {"a_size", "a_fresh"} \/ pc'[u] = "a_fresh" \/ Late(u)' => meta'[slot[u]] = meta[slot[u]]
      BY <2>2, <1>3, <1>9, <1>o, Zenon DEF Allocating, Late, SameRole
    <3> QED BY <3>1, <2>2, <1>i, <1>o, ZenonT(60) DEF HoldInv, Filled, SameRole
  <2> QED BY <2>1, <2>2, Zenon
<1> QED BY <1>1, <1>4, <1>5, <1>6, <1>7, <1>8, <1>10, <1>11, ZenonT(60) DEF AddrInv, TokenInv, MapInv, HoldInv

\* ... and the third, with which the slot is current and the call only has to return.
LEMMA FreshKeeps ==
  ASSUME GwpInv, NEW t \in Threads, Goto(t, "a_fresh", "a_trace"),
         meta' = [meta EXCEPT ![slot[t]].IsDeallocated = FALSE],
         UNCHANGED <<free, writable, locals, program>>
  PROVE  TypeOK' /\ AddrInv' /\ TokenInv' /\ MapInv' /\ HoldInv'
<1>i. TypeOK /\ AddrInv /\ TokenInv /\ MapInv /\ HoldInv
  BY Zenon DEF GwpInv
<1>1. pc[t] = "a_fresh" /\ pc' = [pc EXCEPT ![t] = "a_trace"]
  BY Zenon DEF Goto
<1>u. UNCHANGED <<numSampled, freeSlots, writable, slot, ptr, size, live, stale>>
  BY Zenon DEF free, locals, program
<1>a. ambiguous' = ambiguous
  BY Zenon DEF program
<1>b. ambiguous' <=> ambiguous
  BY <1>a, Zenon
<1>o. /\ pc'[t] = "a_trace" /\ pc' \in [Threads -> PCs]
      /\ \A u \in Threads : u # t => pc'[u] = pc[u] /\ SameRole(u) /\ (Mapped(u)' <=> Mapped(u))
  BY <1>i, <1>1, Others, Zenon DEF PCs
<1>2. /\ Filling(t) /\ Taking(t) /\ Allocating(t) /\ Mapped(t) /\ ~Entering(t) /\ ~Freed(t)
      /\ Late(t)' /\ ~Filling(t)' /\ ~Taking(t)' /\ Allocating(t)' /\ Mapped(t)' /\ ~Entering(t)' /\ ~Freed(t)'
  BY <1>1, <1>o, ZenonT(60) DEF Mapped, Late, Filling, Taking, Allocating, Entering, Freed
<1>3. slot[t] \in Slots /\ slot[t] < numSampled /\ \A u \in Threads : slot[u] \in Slots
  BY <1>i, <1>2, Zenon DEF TypeOK, AddrInv, CallAddrs
<1>4. meta \in MetaType
  BY <1>i, Zenon DEF TypeOK, MetaType
<1>5. /\ meta' \in MetaType
      /\ meta'[slot[t]] =
           [Addr |-> meta[slot[t]].Addr, RequestedSize |-> meta[slot[t]].RequestedSize, IsDeallocated |-> FALSE]
      /\ meta'[slot[t]].Addr = meta[slot[t]].Addr /\ ~meta'[slot[t]].IsDeallocated
  BY <1>3, <1>4, SetMark, Zenon
<1>m. \A s \in Slots : s # slot[t] => meta'[s] = meta[s]
  BY <1>3, <1>4, SetMark, Zenon
<1>6. TypeOK'
  BY <1>i, <1>u, <1>a, <1>5, <1>o, Zenon DEF TypeOK, MetaType
<1>7. CallAddrs'
  BY <1>i, <1>1, <1>u, <1>2, <1>o, ZenonT(60) DEF AddrInv, CallAddrs, SameRole
<1>8. MetaAddrs'
  BY <1>i, <1>5, <1>m, Zenon DEF AddrInv, MetaAddrs
<1>9. LiveAddrs' /\ StaleAddrs'
  BY <1>i, <1>u, Zenon DEF AddrInv, LiveAddrs, StaleAddrs
<1>10. FreeList'
  <2>1. \A s \in Range(freeSlots) : meta'[s] = meta[s]
    BY <1>i, <1>2, <1>m, Zenon DEF TokenInv, FreeList
  <2> QED BY <2>1, <1>i, <1>u, <1>2, <1>o, Zenon DEF TokenInv, FreeList, SameRole
<1>11. OneTaker'
  BY <1>i, <1>u, <1>2, <1>o, Zenon DEF TokenInv, OneTaker, SameRole
<1>12. \A u \in Threads : Taking(u)' => Taking(u) /\ u # t /\ slot[u] # slot[t]
  BY <1>i, <1>2, <1>o, Zenon DEF TokenInv, OneTaker, SameRole
<1>13. FreedMarked'
  <2>1. ASSUME NEW u \in Threads, Freed(u)' PROVE meta'[slot[u]].IsDeallocated
    <3>1. Freed(u) /\ slot[u] # slot[t]
      BY <2>1, <1>2, <1>12, <1>o, Zenon DEF Taking, SameRole
    <3> QED BY <3>1, <1>i, <1>3, <1>m, Zenon DEF TokenInv, FreedMarked
  <2> QED BY <2>1, <1>u, Zenon DEF FreedMarked
<1>14. FillingMarked'
  <2>1. ASSUME NEW u \in Threads, Filling(u)' PROVE meta'[slot[u]].IsDeallocated \/ Untouched(slot[u])'
    <3>1. Filling(u) /\ slot[u] # slot[t]
      BY <2>1, <1>2, <1>12, <1>o, Zenon DEF Taking, SameRole
    <3>2. Untouched(slot[u]) => Untouched(slot[u])'
      BY <3>1, <1>u, <1>2, <1>o, Zenon DEF Untouched, SameRole
    <3> QED BY <3>1, <3>2, <1>i, <1>3, <1>m, Zenon DEF TokenInv, FillingMarked
  <2> QED BY <2>1, <1>u, Zenon DEF FillingMarked
<1>15. NewBlank'
  <2>1. ~(slot[t] >= numSampled)
    <3>1. numSampled \in 0 .. MaxSimultaneousAllocations
      BY <1>i, Zenon DEF TypeOK
    <3> QED BY <3>1, <1>3, Pages DEF Slots
  <2> QED BY <2>1, <1>i, <1>u, <1>m, Zenon DEF TokenInv, NewBlank
<1>16. MarkedTaken'
  <2> SUFFICES ASSUME NEW s \in Slots, meta'[s].IsDeallocated
               PROVE  s \in Range(freeSlots) \/ \E u \in Threads : Taking(u)' /\ slot[u] = s
    BY <1>u, Zenon DEF MarkedTaken
  <2>1. s # slot[t] /\ meta[s].IsDeallocated
    BY <1>5, <1>m, Zenon
  <2>2. s \in Range(freeSlots) \/ \E u \in Threads : Taking(u) /\ slot[u] = s
    BY <2>1, <1>i, Zenon DEF TokenInv, MarkedTaken
  <2> QED BY <2>1, <2>2, <1>o, Zenon DEF SameRole
<1>17. FillingMapped' /\ slot[t] \in writable
  <2>1. FillingMapped'
    BY <1>i, <1>u, <1>o, Zenon DEF MapInv, FillingMapped
  <2> QED BY <2>1, <1>i, <1>1, Zenon DEF MapInv, FillingMapped
<1>18. Accessible'
  <2> SUFFICES ASSUME NEW s \in Slots, s # slot[t]
               PROVE  \/ s \in writable \/ meta'[s].IsDeallocated \/ s >= numSampled
                      \/ \E u \in Threads : pc'[u] = "a_map" /\ slot[u] = s
    BY <1>u, <1>17, Zenon DEF Accessible
  <2>1. \/ s \in writable \/ meta[s].IsDeallocated \/ s >= numSampled
        \/ \E u \in Threads : pc[u] = "a_map" /\ slot[u] = s
    BY <1>i, Zenon DEF MapInv, Accessible
  <2> QED BY <2>1, <1>m, <1>o, Zenon
<1>19. ASSUME ~ambiguous, NEW u \in Threads, u # t, Allocating(u) PROVE slot[u] # slot[t]
  BY <1>19, <1>i, <1>2, Zenon DEF HoldInv, Alone
<1>20. Owned'
  <2> SUFFICES ASSUME ~ambiguous, NEW h \in live
               PROVE  /\ meta'[getNearestSlot(h.p)] =
                           [Addr |-> h.p, RequestedSize |-> h.sz, IsDeallocated |-> FALSE]
                      /\ \A u \in Threads : (Allocating(u) \/ Entering(u))' => slot[u] # getNearestSlot(h.p)
    BY <1>u, <1>b, Zenon DEF Owned
  <2>1. slot[t] # getNearestSlot(h.p) /\ getNearestSlot(h.p) \in Slots
    BY <1>i, <1>2, Zenon DEF HoldInv, Owned, AddrInv, LiveAddrs, Fits, InSlot
  <2>2. meta'[getNearestSlot(h.p)] = [Addr |-> h.p, RequestedSize |-> h.sz, IsDeallocated |-> FALSE]
    <3>1. meta[getNearestSlot(h.p)] = [Addr |-> h.p, RequestedSize |-> h.sz, IsDeallocated |-> FALSE]
      BY <1>i, Zenon DEF HoldInv, Owned
    <3> QED BY <2>1, <3>1, <1>m, Zenon
  <2>3. ASSUME NEW u \in Threads, (Allocating(u) \/ Entering(u))' PROVE slot[u] # getNearestSlot(h.p)
    BY <2>1, <2>3, <1>i, <1>o, Zenon DEF HoldInv, Owned, SameRole
  <2> QED BY <2>2, <2>3, Zenon
<1>21. Filled'
  <2> SUFFICES ASSUME ~ambiguous, NEW u \in Threads
               PROVE  /\ pc'[u] \in {"a_size", "a_fresh"} => meta'[slot[u]].Addr = ptr[u]
                      /\ pc'[u] = "a_fresh" => meta'[slot[u]].RequestedSize = size[u]
                      /\ Late(u)' => meta'[slot[u]] = [Addr |-> ptr[u], RequestedSize |-> size[u],
                                                       IsDeallocated |-> FALSE]
    BY <1>u, <1>b, ZenonT(60) DEF Filled
  <2>1. CASE u = t
    <3>1. meta[slot[t]].Addr = ptr[t] /\ meta[slot[t]].RequestedSize = size[t]
      BY <1>i, <1>1, Zenon DEF HoldInv, Filled
    <3> QED BY <2>1, <3>1, <1>5, <1>o, Zenon
  <2>2. CASE u # t
    <3>1. pc'[u] \in {"a_size", "a_fresh"} \/ pc'[u] = "a_fresh" \/ Late(u)' => meta'[slot[u]] = meta[slot[u]]
      BY <2>2, <1>3, <1>19, <1>m, <1>o, Zenon DEF Allocating, Late, SameRole
    <3> QED BY <3>1, <2>2, <1>i, <1>o, ZenonT(60) DEF HoldInv, Filled, SameRole
  <2> QED BY <2>1, <2>2, Zenon
<1>22. Alone'
  BY <1>i, <1>u, <1>b, <1>2, <1>o, Zenon DEF HoldInv, Alone, SameRole
<1>23. Covered'
  <2> SUFFICES ASSUME ~ambiguous, NEW s \in Slots, s < numSampled, ~meta'[s].IsDeallocated
               PROVE  \/ \E h \in live : getNearestSlot(h.p) = s
                      \/ \E u \in Threads : (Allocating(u) \/ Entering(u))' /\ slot[u] = s
    BY <1>u, <1>b, Zenon DEF Covered
  <2>1. CASE s = slot[t]
    BY <2>1, <1>2, Zenon
  <2>2. CASE s # slot[t]
    <3>1. \/ \E h \in live : getNearestSlot(h.p) = s
          \/ \E u \in Threads : (Allocating(u) \/ Entering(u)) /\ slot[u] = s
      BY <2>2, <1>i, <1>m, Zenon DEF HoldInv, Covered
    <3> QED BY <2>2, <3>1, <1>o, Zenon DEF SameRole
  <2> QED BY <2>1, <2>2, Zenon
<1> QED BY <1>6, <1>7, <1>8, <1>9, <1>10, <1>11, <1>13, <1>14, <1>15, <1>16, <1>17, <1>18, <1>20, <1>21,
           <1>22, <1>23, Zenon DEF AddrInv, TokenInv, MapInv, HoldInv

\* RecordAllocation fills the metadata of the slot.
LEMMA RecordKeeps ==
  ASSUME GwpInv, NEW t \in Threads, RecordAllocation(t)
  PROVE  TypeOK' /\ AddrInv' /\ TokenInv' /\ MapInv' /\ HoldInv'
<1>i. TypeOK /\ AddrInv /\ HoldInv
  BY Zenon DEF GwpInv
<1>u. /\ UNCHANGED <<numSampled, freeSlots, writable, slot, ptr, size, live, stale>>
      /\ ambiguous' \in BOOLEAN /\ (ambiguous' <=> ambiguous)
  BY <1>i, Zenon DEF RecordAllocation, free, locals, program, TypeOK
<1>t. meta \in MetaType /\ slot[t] \in Slots /\ ptr[t] \in Nat /\ size[t] \in Nat
  BY <1>i, Zenon DEF TypeOK, MetaType
<1>1. CASE Goto(t, "a_addr", "a_size") /\ meta' = [meta EXCEPT ![slot[t]].Addr = ptr[t]]
  <2>1. pc[t] = "a_addr" /\ pc' = [pc EXCEPT ![t] = "a_size"]
    BY <1>1, Zenon DEF Goto
  <2>2. /\ meta' \in MetaType /\ \A s \in Slots : s # slot[t] => meta'[s] = meta[s]
        /\ meta'[slot[t]].Addr = ptr[t]
        /\ meta'[slot[t]].IsDeallocated <=> meta[slot[t]].IsDeallocated
    BY <1>1, <1>t, SetAddr, Zenon
  <2>3. InSlot(ptr[t], slot[t])
    BY <2>1, <1>i, Zenon DEF AddrInv, CallAddrs, Mapped, Fits
  <2>4. "a_size" # "a_fresh"
    BY Zenon
  <2> QED BY <2>1, <2>2, <2>3, <2>4, <1>u, FieldKeeps, Zenon
<1>2. CASE Goto(t, "a_size", "a_fresh") /\ meta' = [meta EXCEPT ![slot[t]].RequestedSize = size[t]]
  <2>1. pc[t] = "a_size" /\ pc' = [pc EXCEPT ![t] = "a_fresh"]
    BY <1>2, Zenon DEF Goto
  <2>2. /\ meta' \in MetaType /\ \A s \in Slots : s # slot[t] => meta'[s] = meta[s]
        /\ meta'[slot[t]].Addr = meta[slot[t]].Addr /\ meta'[slot[t]].RequestedSize = size[t]
        /\ meta'[slot[t]].IsDeallocated <=> meta[slot[t]].IsDeallocated
    BY <1>2, <1>t, SetSize, Zenon
  <2>3. meta'[slot[t]].Addr # 0 => InSlot(meta'[slot[t]].Addr, slot[t])
    BY <2>2, <1>i, <1>t, Zenon DEF AddrInv, MetaAddrs
  <2>4. ~ambiguous => meta'[slot[t]].Addr = ptr[t]
    BY <2>1, <2>2, <1>i, Zenon DEF HoldInv, Filled
  <2> QED BY <2>1, <2>2, <2>3, <2>4, <1>u, FieldKeeps, Zenon
<1>3. CASE Goto(t, "a_fresh", "a_trace") /\ meta' = [meta EXCEPT ![slot[t]].IsDeallocated = FALSE]
  <2>1. UNCHANGED <<free, writable, locals, program>>
    BY Zenon DEF RecordAllocation
  <2> QED BY <2>1, <1>3, FreshKeeps, Zenon
<1> QED BY <1>1, <1>2, <1>3, Zenon DEF RecordAllocation

\* allocate hands the slot to the program.
LEMMA ReturnKeeps ==
  ASSUME GwpInv, NEW t \in Threads, AllocateReturn(t)
  PROVE  TypeOK' /\ AddrInv' /\ TokenInv' /\ MapInv' /\ HoldInv'
<1>i. TypeOK /\ AddrInv /\ TokenInv /\ MapInv /\ HoldInv
  BY Zenon DEF GwpInv
<1>1. /\ pc[t] = "a_unwind" /\ pc' = [pc EXCEPT ![t] = "idle"]
      /\ slot' = [slot EXCEPT ![t] = 0] /\ ptr' = [ptr EXCEPT ![t] = 0] /\ size' = [size EXCEPT ![t] = 0]
  BY Zenon DEF AllocateReturn, Return, Goto
<1>u. UNCHANGED <<numSampled, freeSlots, meta, writable, stale>>
  BY Zenon DEF AllocateReturn, free, mem
<1>a. ambiguous' = ambiguous
  BY Zenon DEF AllocateReturn
<1>b. ambiguous' <=> ambiguous
  BY <1>a, Zenon
<1>l. live' = live \cup {[p |-> ptr[t], sz |-> size[t]]}
  BY Zenon DEF AllocateReturn
<1>o. /\ pc'[t] = "idle" /\ pc' \in [Threads -> PCs]
      /\ \A u \in Threads : u # t => pc'[u] = pc[u] /\ SameRole(u) /\ (Mapped(u)' <=> Mapped(u))
  BY <1>i, <1>1, Others, Zenon DEF PCs
<1>2. /\ Late(t) /\ Allocating(t) /\ Mapped(t) /\ ~Filling(t) /\ ~Taking(t) /\ ~Entering(t) /\ ~Freed(t)
      /\ ~Late(t)' /\ ~Allocating(t)' /\ ~Mapped(t)' /\ ~Filling(t)' /\ ~Taking(t)' /\ ~Entering(t)' /\ ~Freed(t)'
  BY <1>1, <1>o, ZenonT(60) DEF Mapped, Late, Filling, Taking, Allocating, Entering, Freed
<1>t. slot[t] \in Slots /\ ptr[t] \in Nat /\ size[t] \in Nat
  BY <1>i, Zenon DEF TypeOK
<1>3. Fits(ptr[t], size[t], slot[t]) /\ slot[t] < numSampled
  BY <1>i, <1>2, Zenon DEF AddrInv, CallAddrs
<1>4. /\ slot' \in [Threads -> Slots] /\ ptr' \in [Threads -> Nat] /\ size' \in [Threads -> Nat]
      /\ \A u \in Threads : u # t => slot'[u] = slot[u] /\ ptr'[u] = ptr[u] /\ size'[u] = size[u]
  <2>1. 0 \in Slots
    BY Pages DEF Slots
  <2> QED BY <1>i, <1>1, <2>1, ZenonT(60) DEF TypeOK
<1> DEFINE new == [p |-> ptr[t], sz |-> size[t]]
<1>5. new \in [p : Nat, sz : Nat] /\ new.p = ptr[t] /\ new.sz = size[t]
  BY <1>t, SMT
<1>6. live' = live \cup {new} /\ getNearestSlot(new.p) = slot[t]
  <2>1. getNearestSlot(ptr[t]) = slot[t]
    BY <1>3, <1>t, Nearest, Zenon DEF Fits
  <2> QED BY <2>1, <1>l, <1>5, Zenon
<1> HIDE DEF new
<1>7. TypeOK'
  <2>1. live' \subseteq [p : Nat, sz : Nat]
    BY <1>5, <1>6, <1>i, Zenon DEF TypeOK
  <2> QED BY <2>1, <1>i, <1>u, <1>a, <1>o, <1>4, Zenon DEF TypeOK
<1>8. CallAddrs'
  BY <1>i, <1>u, <1>2, <1>4, <1>o, ZenonT(60) DEF AddrInv, CallAddrs, SameRole
<1>9. MetaAddrs' /\ StaleAddrs'
  BY <1>i, <1>u, Zenon DEF AddrInv, MetaAddrs, StaleAddrs
<1>10. LiveAddrs'
  <2>1. Fits(new.p, new.sz, getNearestSlot(new.p)) /\ getNearestSlot(new.p) < numSampled
    BY <1>3, <1>5, <1>6, Zenon
  <2> QED BY <2>1, <1>i, <1>u, <1>6, Zenon DEF AddrInv, LiveAddrs
<1>11. FreeList'
  BY <1>i, <1>u, <1>2, <1>4, <1>o, ZenonT(60) DEF TokenInv, FreeList, SameRole
<1>12. OneTaker' /\ FreedMarked'
  <2>1. OneTaker'
    BY <1>i, <1>2, <1>4, <1>o, Zenon DEF TokenInv, OneTaker, SameRole
  <2>2. FreedMarked'
    BY <1>i, <1>u, <1>2, <1>4, <1>o, Zenon DEF TokenInv, FreedMarked, SameRole
  <2> QED BY <2>1, <2>2, Zenon
<1>13. FillingMarked'
  <2>1. \A s : Untouched(s) => Untouched(s)'
    BY <1>u, <1>2, <1>4, <1>6, <1>o, Zenon DEF Untouched, SameRole
  <2> QED BY <2>1, <1>i, <1>u, <1>2, <1>4, <1>o, Zenon DEF TokenInv, FillingMarked, SameRole
<1>14. NewBlank' /\ MarkedTaken'
  <2>1. NewBlank'
    BY <1>i, <1>u, Zenon DEF TokenInv, NewBlank
  <2> SUFFICES ASSUME NEW s \in Slots, meta[s].IsDeallocated
               PROVE  s \in Range(freeSlots) \/ \E u \in Threads : Taking(u)' /\ slot'[u] = s
    BY <2>1, <1>u, Zenon DEF MarkedTaken
  <2>2. s \in Range(freeSlots) \/ \E u \in Threads : Taking(u) /\ slot[u] = s
    BY <1>i, Zenon DEF TokenInv, MarkedTaken
  <2> QED BY <2>2, <1>2, <1>4, <1>o, Zenon DEF SameRole
<1>15. FillingMapped'
  BY <1>i, <1>u, <1>4, <1>o, Zenon DEF MapInv, FillingMapped
<1>16. Accessible'
  <2> SUFFICES ASSUME NEW s \in Slots
               PROVE  \/ s \in writable \/ meta[s].IsDeallocated \/ s >= numSampled
                      \/ \E u \in Threads : pc'[u] = "a_map" /\ slot'[u] = s
    BY <1>u, Zenon DEF Accessible
  <2>1. \/ s \in writable \/ meta[s].IsDeallocated \/ s >= numSampled
        \/ \E u \in Threads : pc[u] = "a_map" /\ slot[u] = s
    BY <1>i, Zenon DEF MapInv, Accessible
  <2> QED BY <2>1, <1>1, <1>4, <1>o, Zenon
<1>17. Owned'
  <2> SUFFICES ASSUME ~ambiguous, NEW h \in live'
               PROVE  /\ meta[getNearestSlot(h.p)] =
                           [Addr |-> h.p, RequestedSize |-> h.sz, IsDeallocated |-> FALSE]
                      /\ \A u \in Threads : (Allocating(u) \/ Entering(u))' => slot'[u] # getNearestSlot(h.p)
    BY <1>u, <1>b, Zenon DEF Owned
  <2>1. CASE h \in live
    BY <2>1, <1>i, <1>2, <1>4, <1>o, ZenonT(60) DEF HoldInv, Owned, SameRole
  <2>2. CASE h = new
    <3>1. meta[slot[t]] = [Addr |-> ptr[t], RequestedSize |-> size[t], IsDeallocated |-> FALSE]
      BY <1>i, <1>2, Zenon DEF HoldInv, Filled
    <3>2. ASSUME NEW u \in Threads, (Allocating(u) \/ Entering(u))' PROVE slot'[u] # slot[t]
      <4>1. u # t /\ (Allocating(u) \/ Entering(u))
        BY <3>2, <1>2, <1>o, Zenon DEF SameRole
      <4> QED BY <4>1, <1>i, <1>2, <1>4, Zenon DEF HoldInv, Alone
    <3> QED BY <2>2, <3>1, <3>2, <1>5, <1>6, Zenon
  <2> QED BY <2>1, <2>2, <1>6, Zenon
<1>18. Filled'
  BY <1>i, <1>u, <1>b, <1>2, <1>4, <1>o, ZenonT(60) DEF HoldInv, Filled, SameRole
<1>19. Alone'
  BY <1>i, <1>b, <1>2, <1>4, <1>o, ZenonT(60) DEF HoldInv, Alone, SameRole
<1>20. Covered'
  <2> SUFFICES ASSUME ~ambiguous, NEW s \in Slots, s < numSampled, ~meta[s].IsDeallocated
               PROVE  \/ \E h \in live' : getNearestSlot(h.p) = s
                      \/ \E u \in Threads : (Allocating(u) \/ Entering(u))' /\ slot'[u] = s
    BY <1>u, <1>b, Zenon DEF Covered
  <2>1. \/ \E h \in live : getNearestSlot(h.p) = s
        \/ \E u \in Threads : (Allocating(u) \/ Entering(u)) /\ slot[u] = s
    BY <1>i, Zenon DEF HoldInv, Covered
  <2>2. CASE \E h \in live : getNearestSlot(h.p) = s
    BY <2>2, <1>6, Zenon
  <2>3. CASE \E u \in Threads : (Allocating(u) \/ Entering(u)) /\ slot[u] = s
    BY <2>3, <1>4, <1>6, <1>o, Zenon DEF SameRole
  <2> QED BY <2>1, <2>2, <2>3, Zenon
<1> QED BY <1>7, <1>8, <1>9, <1>10, <1>11, <1>12, <1>13, <1>14, <1>15, <1>16, <1>17, <1>18, <1>19, <1>20, ZenonT(60) DEF AddrInv, TokenInv, MapInv, HoldInv

\* RecordDeallocation: of two calls with the same slot only one finds it unmarked.
LEMMA MarkKeeps ==
  ASSUME GwpInv, NEW t \in Threads, pc[t] = "d_record", ~meta[slot[t]].IsDeallocated,
         meta' = [meta EXCEPT ![slot[t]].IsDeallocated = TRUE], pc' = [pc EXCEPT ![t] = "d_trace"],
         UNCHANGED <<free, writable, locals, program>>
  PROVE  TypeOK' /\ AddrInv' /\ TokenInv' /\ MapInv' /\ HoldInv'
<1>i. TypeOK /\ AddrInv /\ TokenInv /\ MapInv /\ HoldInv
  BY Zenon DEF GwpInv
<1>u. UNCHANGED <<numSampled, freeSlots, writable, slot, ptr, size, live, stale>>
  BY Zenon DEF free, locals, program
<1>a. ambiguous' = ambiguous
  BY Zenon DEF program
<1>b. ambiguous' <=> ambiguous
  BY <1>a, Zenon
<1>o. /\ pc'[t] = "d_trace" /\ pc' \in [Threads -> PCs]
      /\ \A u \in Threads : u # t => pc'[u] = pc[u] /\ SameRole(u) /\ (Mapped(u)' <=> Mapped(u))
  BY <1>i, Others, Zenon DEF PCs
<1>2. /\ Entering(t) /\ ~Late(t) /\ ~Filling(t) /\ ~Taking(t) /\ ~Allocating(t) /\ ~Mapped(t) /\ ~Freed(t)
      /\ Freed(t)' /\ Taking(t)' /\ ~Late(t)' /\ ~Filling(t)' /\ ~Allocating(t)' /\ ~Mapped(t)' /\ ~Entering(t)'
  BY <1>o, ZenonT(60) DEF Mapped, Late, Filling, Taking, Allocating, Entering, Freed
<1>3. slot[t] \in Slots /\ slot[t] < numSampled /\ \A u \in Threads : slot[u] \in Slots
  BY <1>i, <1>2, Zenon DEF TypeOK, AddrInv, CallAddrs
<1>4. meta \in MetaType
  BY <1>i, Zenon DEF TypeOK, MetaType
<1>5. /\ meta' \in MetaType
      /\ meta'[slot[t]].Addr = meta[slot[t]].Addr /\ meta'[slot[t]].IsDeallocated
  BY <1>3, <1>4, SetMark, Zenon
<1>m. \A s \in Slots : s # slot[t] => meta'[s] = meta[s]
  BY <1>3, <1>4, SetMark, Zenon
<1>g. \A s \in Slots : meta[s].IsDeallocated => meta'[s].IsDeallocated
  BY <1>5, <1>m, Zenon
<1>6. TypeOK'
  BY <1>i, <1>u, <1>a, <1>5, <1>o, Zenon DEF TypeOK, MetaType
<1>7. CallAddrs'
  BY <1>i, <1>u, <1>2, <1>3, <1>o, ZenonT(60) DEF AddrInv, CallAddrs, SameRole
<1>8. MetaAddrs'
  BY <1>i, <1>5, <1>m, Zenon DEF AddrInv, MetaAddrs
<1>9. LiveAddrs' /\ StaleAddrs'
  BY <1>i, <1>u, Zenon DEF AddrInv, LiveAddrs, StaleAddrs
<1>10. FreeList'
  <2>1. \A s \in Range(freeSlots) : s # slot[t]
    BY <1>i, Zenon DEF TokenInv, FreeList
  <2> QED BY <2>1, <1>i, <1>u, <1>g, <1>o, ZenonT(60) DEF TokenInv, FreeList, SameRole
<1>11. \A u \in Threads : Taking(u) => slot[u] # slot[t]
  <2>1. \A u \in Threads : Freed(u) => slot[u] # slot[t]
    BY <1>i, Zenon DEF TokenInv, FreedMarked
  <2>2. ~Untouched(slot[t])
    BY <1>2, Zenon DEF Untouched
  <2>3. \A u \in Threads : Filling(u) => slot[u] # slot[t]
    BY <2>2, <1>i, Zenon DEF TokenInv, FillingMarked
  <2> QED BY <2>1, <2>3, Zenon DEF Taking
<1>12. OneTaker'
  BY <1>i, <1>u, <1>11, <1>o, Zenon DEF TokenInv, OneTaker, SameRole
<1>13. FreedMarked'
  BY <1>i, <1>u, <1>3, <1>5, <1>g, <1>o, Zenon DEF TokenInv, FreedMarked, SameRole
<1>14. FillingMarked'
  <2>1. \A s : Untouched(s) => Untouched(s)'
    BY <1>u, <1>2, <1>o, Zenon DEF Untouched, SameRole
  <2> QED BY <2>1, <1>i, <1>u, <1>2, <1>3, <1>g, <1>o, ZenonT(60) DEF TokenInv, FillingMarked, SameRole
<1>15. NewBlank'
  <2>1. ~(slot[t] >= numSampled)
    <3>1. numSampled \in 0 .. MaxSimultaneousAllocations
      BY <1>i, Zenon DEF TypeOK
    <3> QED BY <3>1, <1>3, Pages, SMTT(60) DEF Slots
  <2> QED BY <2>1, <1>i, <1>u, <1>m, Zenon DEF TokenInv, NewBlank
<1>16. MarkedTaken'
  <2> SUFFICES ASSUME NEW s \in Slots, meta'[s].IsDeallocated, s # slot[t]
               PROVE  s \in Range(freeSlots) \/ \E u \in Threads : Taking(u)' /\ slot[u] = s
    BY <1>u, <1>2, Zenon DEF MarkedTaken
  <2>2. s \in Range(freeSlots) \/ \E u \in Threads : Taking(u) /\ slot[u] = s
    BY <1>i, <1>m, Zenon DEF TokenInv, MarkedTaken
  <2> QED BY <2>2, <1>o, Zenon DEF SameRole
<1>17. FillingMapped'
  BY <1>i, <1>u, <1>o, Zenon DEF MapInv, FillingMapped
<1>18. Accessible'
  <2> SUFFICES ASSUME NEW s \in Slots
               PROVE  \/ s \in writable \/ meta'[s].IsDeallocated \/ s >= numSampled
                      \/ \E u \in Threads : pc'[u] = "a_map" /\ slot[u] = s
    BY <1>u, Zenon DEF Accessible
  <2>1. \/ s \in writable \/ meta[s].IsDeallocated \/ s >= numSampled
        \/ \E u \in Threads : pc[u] = "a_map" /\ slot[u] = s
    BY <1>i, Zenon DEF MapInv, Accessible
  <2> QED BY <2>1, <1>g, <1>o, Zenon
<1>19. ASSUME ~ambiguous, NEW u \in Threads, Allocating(u) PROVE slot[u] # slot[t]
  BY <1>19, <1>i, <1>2, Zenon DEF HoldInv, Alone
<1>20. Owned'
  <2> SUFFICES ASSUME ~ambiguous, NEW h \in live
               PROVE  /\ meta'[getNearestSlot(h.p)] =
                           [Addr |-> h.p, RequestedSize |-> h.sz, IsDeallocated |-> FALSE]
                      /\ \A u \in Threads : (Allocating(u) \/ Entering(u))' => slot[u] # getNearestSlot(h.p)
    BY <1>u, <1>b, Zenon DEF Owned
  <2>1. slot[t] # getNearestSlot(h.p) /\ getNearestSlot(h.p) \in Slots
    BY <1>i, <1>2, Zenon DEF HoldInv, Owned, AddrInv, LiveAddrs, Fits, InSlot
  <2>2. meta'[getNearestSlot(h.p)] = [Addr |-> h.p, RequestedSize |-> h.sz, IsDeallocated |-> FALSE]
    <3>1. meta[getNearestSlot(h.p)] = [Addr |-> h.p, RequestedSize |-> h.sz, IsDeallocated |-> FALSE]
      BY <1>i, Zenon DEF HoldInv, Owned
    <3> QED BY <2>1, <3>1, <1>m, Zenon
  <2>3. ASSUME NEW u \in Threads, (Allocating(u) \/ Entering(u))' PROVE slot[u] # getNearestSlot(h.p)
    BY <2>1, <2>3, <1>i, <1>o, Zenon DEF HoldInv, Owned, SameRole
  <2> QED BY <2>2, <2>3, Zenon
<1>21. Filled'
  <2> SUFFICES ASSUME ~ambiguous, NEW u \in Threads
               PROVE  /\ pc'[u] \in {"a_size", "a_fresh"} => meta'[slot[u]].Addr = ptr[u]
                      /\ pc'[u] = "a_fresh" => meta'[slot[u]].RequestedSize = size[u]
                      /\ Late(u)' => meta'[slot[u]] = [Addr |-> ptr[u], RequestedSize |-> size[u],
                                                       IsDeallocated |-> FALSE]
    BY <1>u, <1>b, ZenonT(60) DEF Filled
  <2>1. CASE u = t
    BY <2>1, <1>2, <1>o, Zenon
  <2>2. CASE u # t
    <3>1. pc'[u] \in {"a_size", "a_fresh"} \/ pc'[u] = "a_fresh" \/ Late(u)' => meta'[slot[u]] = meta[slot[u]]
      BY <2>2, <1>3, <1>19, <1>m, <1>o, Zenon DEF Allocating, Late, SameRole
    <3> QED BY <3>1, <2>2, <1>i, <1>o, ZenonT(60) DEF HoldInv, Filled, SameRole
  <2> QED BY <2>1, <2>2, Zenon
<1>22. Alone'
  BY <1>i, <1>u, <1>b, <1>2, <1>o, Zenon DEF HoldInv, Alone, SameRole
<1>23. Covered'
  <2> SUFFICES ASSUME ~ambiguous, NEW s \in Slots, s < numSampled, s # slot[t], ~meta'[s].IsDeallocated
               PROVE  \/ \E h \in live : getNearestSlot(h.p) = s
                      \/ \E u \in Threads : (Allocating(u) \/ Entering(u))' /\ slot[u] = s
    BY <1>u, <1>b, <1>5, Zenon DEF Covered
  <2>1. \/ \E h \in live : getNearestSlot(h.p) = s
        \/ \E u \in Threads : (Allocating(u) \/ Entering(u)) /\ slot[u] = s
    BY <1>i, <1>m, Zenon DEF HoldInv, Covered
  <2> QED BY <2>1, <1>o, Zenon DEF SameRole
<1> QED BY <1>6, <1>7, <1>8, <1>9, <1>10, <1>12, <1>13, <1>14, <1>15, <1>16, <1>17, <1>18, <1>20, <1>21,
           <1>22, <1>23, ZenonT(60) DEF AddrInv, TokenInv, MapInv, HoldInv

\* deallocate starts, on a pointer into slot n.
LEMMA FreeingKeeps ==
  ASSUME GwpInv, NEW t \in Threads, NEW p \in Nat, Freeing(t, p), NEW n, n = getNearestSlot(p),
         InSlot(p, n), n < numSampled, ~Untouched(n),
         live' \subseteq live, \A q \in stale' : q \in stale \/ q = p,
         ambiguous' \in BOOLEAN, ~ambiguous' => ~ambiguous,
         ~ambiguous' /\ meta[n].Addr = p =>
           /\ \A h \in live' : getNearestSlot(h.p) # n
           /\ \A u \in Threads : Allocating(u) => slot[u] # n,
         \A h \in live : h \notin live' => getNearestSlot(h.p) = n /\ (~ambiguous => meta[n].Addr = p)
  PROVE  TypeOK' /\ AddrInv' /\ TokenInv' /\ MapInv' /\ HoldInv'
<1>i. TypeOK /\ AddrInv /\ TokenInv /\ MapInv /\ HoldInv
  BY Zenon DEF GwpInv
<1> DEFINE x == IF meta[n].Addr # p THEN "d_wild" ELSE "d_record"
<1>1. /\ pc[t] = "idle" /\ pc' = [pc EXCEPT ![t] = x]
      /\ slot' = [slot EXCEPT ![t] = n] /\ ptr' = [ptr EXCEPT ![t] = p]
  BY Zenon DEF Freeing, Goto
<1>2. x \in {"d_wild", "d_record"} /\ (x = "d_record" <=> meta[n].Addr = p)
  BY Zenon
<1> HIDE DEF x
<1>u. UNCHANGED <<numSampled, freeSlots, meta, writable, size>>
  BY Zenon DEF Freeing, free, mem
<1>o. /\ pc'[t] = x /\ pc' \in [Threads -> PCs]
      /\ \A u \in Threads : u # t => pc'[u] = pc[u] /\ SameRole(u) /\ (Mapped(u)' <=> Mapped(u))
  BY <1>i, <1>1, <1>2, Others, Zenon DEF PCs
<1>3. /\ ~Late(t)' /\ ~Filling(t)' /\ ~Taking(t)' /\ ~Allocating(t)' /\ ~Mapped(t)' /\ ~Freed(t)'
      /\ ~Late(t) /\ ~Filling(t) /\ ~Taking(t) /\ ~Allocating(t) /\ ~Mapped(t) /\ ~Freed(t) /\ ~Entering(t)
      /\ (Entering(t)' <=> meta[n].Addr = p)
      /\ pc'[t] \notin {"a_reserve", "a_map", "a_addr", "a_size", "a_fresh"}
  BY <1>1, <1>2, <1>o, ZenonT(60) DEF Mapped, Late, Filling, Taking, Allocating, Entering, Freed
<1>4. /\ slot'[t] = n /\ slot' \in [Threads -> Slots] /\ ptr' \in [Threads -> Nat]
      /\ \A u \in Threads : u # t => slot'[u] = slot[u] /\ ptr'[u] = ptr[u]
  <2>1. n \in Slots
    BY Zenon DEF InSlot
  <2> QED BY <2>1, <1>i, <1>1, ZenonT(60) DEF TypeOK
<1>5. TypeOK'
  <2>1. live' \subseteq [p : Nat, sz : Nat] /\ stale' \subseteq Nat
    BY <1>i, Zenon DEF TypeOK
  <2> QED BY <2>1, <1>i, <1>u, <1>o, <1>4, Zenon DEF TypeOK
<1>6. CallAddrs'
  BY <1>i, <1>u, <1>3, <1>4, <1>o, ZenonT(60) DEF AddrInv, CallAddrs, SameRole
<1>7. MetaAddrs'
  BY <1>i, <1>u, Zenon DEF AddrInv, MetaAddrs
<1>8. LiveAddrs' /\ StaleAddrs'
  BY <1>i, <1>u, Zenon DEF AddrInv, LiveAddrs, StaleAddrs
<1>9. FreeList'
  <2>1. IsInjective(freeSlots)
    BY <1>i, Zenon DEF TokenInv, FreeList
  <2>2. ASSUME NEW s \in Range(freeSlots)
        PROVE  s \in Slots /\ s < numSampled /\ meta[s].IsDeallocated /\ \A u \in Threads : Taking(u) => slot[u] # s
    BY <1>i, Zenon DEF TokenInv, FreeList
  <2>3. ASSUME NEW s \in Range(freeSlots), NEW u \in Threads, Taking(u)' PROVE slot'[u] # s
    <3>1. u # t /\ Taking(u)
      BY <2>3, <1>3, <1>o, Zenon DEF SameRole
    <3> QED BY <2>2, <3>1, <1>4, ZenonT(60)
  <2> QED BY <2>1, <2>2, <2>3, <1>u, Zenon DEF FreeList
<1>10. OneTaker'
  BY <1>i, <1>3, <1>4, <1>o, ZenonT(60) DEF TokenInv, OneTaker, SameRole
<1>11. FreedMarked'
  BY <1>i, <1>u, <1>3, <1>4, <1>o, Zenon DEF TokenInv, FreedMarked, SameRole
<1>12. FillingMarked'
  <2>1. ASSUME NEW s, Untouched(s) PROVE Untouched(s)'
    <3>1. s # n
      BY <2>1, Zenon
    <3> QED BY <2>1, <3>1, <1>3, <1>4, <1>o, Zenon DEF Untouched, SameRole
  <2> QED BY <2>1, <1>i, <1>u, <1>3, <1>4, <1>o, Zenon DEF TokenInv, FillingMarked, SameRole
<1>13. NewBlank' /\ MarkedTaken'
  <2>1. NewBlank'
    BY <1>i, <1>u, Zenon DEF TokenInv, NewBlank
  <2> SUFFICES ASSUME NEW s \in Slots, meta[s].IsDeallocated
               PROVE  s \in Range(freeSlots) \/ \E u \in Threads : Taking(u)' /\ slot'[u] = s
    BY <2>1, <1>u, Zenon DEF MarkedTaken
  <2>2. s \in Range(freeSlots) \/ \E u \in Threads : Taking(u) /\ slot[u] = s
    BY <1>i, Zenon DEF TokenInv, MarkedTaken
  <2> QED BY <2>2, <1>3, <1>4, <1>o, Zenon DEF SameRole
<1>14. FillingMapped'
  BY <1>i, <1>u, <1>3, <1>4, <1>o, Zenon DEF MapInv, FillingMapped
<1>15. Accessible'
  <2> SUFFICES ASSUME NEW s \in Slots
               PROVE  \/ s \in writable \/ meta[s].IsDeallocated \/ s >= numSampled
                      \/ \E u \in Threads : pc'[u] = "a_map" /\ slot'[u] = s
    BY <1>u, Zenon DEF Accessible
  <2>1. \/ s \in writable \/ meta[s].IsDeallocated \/ s >= numSampled
        \/ \E u \in Threads : pc[u] = "a_map" /\ slot[u] = s
    BY <1>i, Zenon DEF MapInv, Accessible
  <2> QED BY <2>1, <1>1, <1>4, <1>o, Zenon
<1>16. Owned'
  <2> SUFFICES ASSUME ~ambiguous', NEW h \in live'
               PROVE  /\ meta[getNearestSlot(h.p)] =
                           [Addr |-> h.p, RequestedSize |-> h.sz, IsDeallocated |-> FALSE]
                      /\ \A u \in Threads : (Allocating(u) \/ Entering(u))' => slot'[u] # getNearestSlot(h.p)
    BY <1>u, Zenon DEF Owned
  <2>1. ~ambiguous /\ h \in live
    BY Zenon
  <2>2. meta[getNearestSlot(h.p)] = [Addr |-> h.p, RequestedSize |-> h.sz, IsDeallocated |-> FALSE]
    BY <2>1, <1>i, Zenon DEF HoldInv, Owned
  <2>3. ASSUME NEW u \in Threads, (Allocating(u) \/ Entering(u))' PROVE slot'[u] # getNearestSlot(h.p)
    <3>1. CASE u = t
      BY <2>3, <3>1, <1>3, <1>4, Zenon
    <3>2. CASE u # t
      BY <2>1, <2>3, <3>2, <1>i, <1>4, <1>o, Zenon DEF HoldInv, Owned, SameRole
    <3> QED BY <3>1, <3>2, Zenon
  <2> QED BY <2>2, <2>3, Zenon
<1>17. Filled'
  BY <1>i, <1>u, <1>3, <1>4, <1>o, ZenonT(60) DEF HoldInv, Filled, SameRole
<1>18. Alone'
  BY <1>i, <1>3, <1>4, <1>o, ZenonT(60) DEF HoldInv, Alone, SameRole
<1>19. Covered'
  <2> SUFFICES ASSUME ~ambiguous', NEW s \in Slots, s < numSampled, ~meta[s].IsDeallocated
               PROVE  \/ \E h \in live' : getNearestSlot(h.p) = s
                      \/ \E u \in Threads : (Allocating(u) \/ Entering(u))' /\ slot'[u] = s
    BY <1>u, Zenon DEF Covered
  <2>1. \/ \E h \in live : getNearestSlot(h.p) = s
        \/ \E u \in Threads : (Allocating(u) \/ Entering(u)) /\ slot[u] = s
    BY <1>i, Zenon DEF HoldInv, Covered
  <2>2. CASE \E h \in live : getNearestSlot(h.p) = s
    BY <2>2, <1>3, <1>4, Zenon
  <2>3. CASE \E u \in Threads : (Allocating(u) \/ Entering(u)) /\ slot[u] = s
    BY <2>3, <1>3, <1>4, <1>o, Zenon DEF SameRole
  <2> QED BY <2>1, <2>2, <2>3, Zenon
<1> QED BY <1>5, <1>6, <1>7, <1>8, <1>9, <1>10, <1>11, <1>12, <1>13, <1>14, <1>15, <1>16, <1>17, <1>18, <1>19, ZenonT(60) DEF AddrInv, TokenInv, MapInv, HoldInv

\* deallocate of a pointer the program holds.
LEMMA DeallocateKeeps ==
  ASSUME GwpInv, NEW t \in Threads, Deallocate(t)
  PROVE  TypeOK' /\ AddrInv' /\ TokenInv' /\ MapInv' /\ HoldInv'
<1>i. TypeOK /\ AddrInv /\ HoldInv
  BY Zenon DEF GwpInv
<1>1. PICK h \in live : Freeing(t, h.p) /\ live' = live \ {h} /\ stale' = stale \cup {h.p}
  BY Zenon DEF Deallocate
<1> DEFINE n == getNearestSlot(h.p)
<1>2. h \in [p : Nat, sz : Nat]
  BY <1>i, Zenon DEF TypeOK
<1>3. h.p \in Nat
  BY <1>2, SMT
<1>4. InSlot(h.p, n) /\ n < numSampled
  BY <1>i, Zenon DEF AddrInv, LiveAddrs, Fits
<1>5. ~Untouched(n)
  BY Zenon DEF Untouched
<1>6. ambiguous' \in BOOLEAN /\ (~ambiguous' => ~ambiguous)
  <2>1. ambiguous' = ambiguous
    BY Zenon DEF Deallocate
  <2> QED BY <2>1, <1>i, Zenon DEF TypeOK
<1>7. ASSUME ~ambiguous PROVE meta[n].Addr = h.p /\ meta[n].RequestedSize = h.sz
  BY <1>7, <1>i, HeldFields, Zenon
<1>8. ASSUME ~ambiguous, NEW g \in live' PROVE getNearestSlot(g.p) # n
  <2>1. SUFFICES ASSUME getNearestSlot(g.p) = n PROVE g = h
    BY <1>1, Zenon
  <2>2. g \in live /\ g \in [p : Nat, sz : Nat]
    BY <1>1, <1>i, Zenon DEF TypeOK
  <2>3. meta[n].Addr = g.p /\ meta[n].RequestedSize = g.sz
    BY <1>8, <2>1, <2>2, <1>i, HeldFields, Zenon
  <2> HIDE DEF n
  <2> QED BY <1>2, <1>7, <1>8, <2>2, <2>3, SMTT(60)
<1>9. ~ambiguous => \A u \in Threads : Allocating(u) => slot[u] # n
  BY <1>i, Zenon DEF HoldInv, Owned
<1>10. /\ live' \subseteq live /\ \A q \in stale' : q \in stale \/ q = h.p
       /\ \A g \in live : g \notin live' => getNearestSlot(g.p) = n /\ (~ambiguous => meta[n].Addr = h.p)
  BY <1>1, <1>7, Zenon
<1> QED BY <1>1, <1>3, <1>4, <1>5, <1>6, <1>8, <1>9, <1>10, FreeingKeeps, ZenonT(60)

\* deallocate of a pointer the program has freed before.
LEMMA AgainKeeps ==
  ASSUME GwpInv, NEW t \in Threads, DeallocateAgain(t)
  PROVE  TypeOK' /\ AddrInv' /\ TokenInv' /\ MapInv' /\ HoldInv'
<1>i. TypeOK /\ AddrInv
  BY Zenon DEF GwpInv
<1>1. PICK p \in stale :
        /\ Freeing(t, p)
        /\ ambiguous' = (\/ ambiguous
                         \/ \E h \in live : getNearestSlot(h.p) = getNearestSlot(p)
                         \/ \E u \in Threads : Allocating(u) /\ slot[u] = getNearestSlot(p))
        /\ UNCHANGED <<live, stale>>
  BY Zenon DEF DeallocateAgain
<1> DEFINE n == getNearestSlot(p)
<1>2. p \in Nat /\ InSlot(p, n) /\ n < numSampled
  BY <1>i, Zenon DEF TypeOK, AddrInv, StaleAddrs
<1>3. ~Untouched(n)
  BY Zenon DEF Untouched
<1>4. ambiguous' \in BOOLEAN
  BY <1>1, <1>i, Zenon DEF TypeOK
<1>5. ~ambiguous' => /\ ~ambiguous /\ \A h \in live' : getNearestSlot(h.p) # n
                     /\ \A u \in Threads : Allocating(u) => slot[u] # n
  BY <1>1, Zenon
<1>6. /\ live' \subseteq live /\ \A q \in stale' : q \in stale \/ q = p
      /\ \A g \in live : g \in live'
  BY <1>1, Zenon
<1> QED BY <1>1, <1>2, <1>3, <1>4, <1>5, <1>6, FreeingKeeps, Zenon

\* deallocate of an address inside the pool that no call returned.
LEMMA WildKeeps ==
  ASSUME GwpInv, NEW t \in Threads, DeallocateWild(t)
  PROVE  TypeOK' /\ AddrInv' /\ TokenInv' /\ MapInv' /\ HoldInv'
<1>i. TypeOK /\ AddrInv /\ HoldInv
  BY Zenon DEF GwpInv
<1>1. PICK h \in live : h.sz > 1 /\ Freeing(t, h.p + 1)
  BY Zenon DEF DeallocateWild
<1>2. UNCHANGED <<live, stale>> /\ ambiguous' \in BOOLEAN /\ (~ambiguous' => ~ambiguous)
  <2>1. UNCHANGED <<live, stale>> /\ ambiguous' = ambiguous
    BY Zenon DEF DeallocateWild
  <2> QED BY <2>1, <1>i, Zenon DEF TypeOK
<1> DEFINE s == getNearestSlot(h.p)
           b == slotToAddr(s)
<1>3. h \in [p : Nat, sz : Nat]
  BY <1>i, Zenon DEF TypeOK
<1>4. h.p \in Nat /\ h.sz \in Nat
  BY <1>3, SMT
<1>5. s \in Slots /\ b <= h.p /\ h.p < b + PageSize /\ h.p + h.sz <= b + PageSize /\ s < numSampled
  BY <1>i, Zenon DEF AddrInv, LiveAddrs, Fits, InSlot
<1>6. b \in Nat
  BY <1>5, SlotFacts, Zenon
<1>7. ~ambiguous => meta[s].Addr = h.p
  BY <1>i, HeldFields, Zenon
<1>8. ~Untouched(s)
  BY Zenon DEF Untouched
<1> HIDE DEF s, b
<1>9. b <= h.p + 1 /\ h.p + 1 < b + PageSize /\ h.p + 1 \in Nat /\ h.p + 1 # h.p
  BY <1>1, <1>4, <1>5, <1>6, Pages, SMTT(60)
<1>10. InSlot(h.p + 1, s)
  BY <1>5, <1>9, Zenon DEF InSlot, b
<1>11. getNearestSlot(h.p + 1) = s
  BY <1>9, <1>10, Nearest, Zenon
<1>12. live' \subseteq live /\ (\A q \in stale' : q \in stale) /\ \A g \in live : g \in live'
  BY <1>2, Zenon
<1>13. ~ambiguous' => meta[s].Addr # h.p + 1
  BY <1>2, <1>7, <1>9, Zenon
<1> QED BY <1>1, <1>2, <1>5, <1>8, <1>9, <1>10, <1>11, <1>12, <1>13, FreeingKeeps, ZenonT(60)

\* The other call finds the mark and traps; it never had the slot.
LEMMA DoubleKeeps ==
  ASSUME GwpInv, NEW t \in Threads, pc[t] = "d_record", meta[slot[t]].IsDeallocated,
         pc' = [pc EXCEPT ![t] = "faulted"], UNCHANGED <<free, mem, locals, program>>
  PROVE  TypeOK' /\ AddrInv' /\ TokenInv' /\ MapInv' /\ HoldInv'
<1>i. TypeOK /\ AddrInv /\ TokenInv /\ MapInv /\ HoldInv
  BY Zenon DEF GwpInv
<1>u. UNCHANGED <<numSampled, freeSlots, meta, writable, slot, ptr, size, live, stale>>
  BY Zenon DEF free, mem, locals, program
<1>a. ambiguous' = ambiguous
  BY Zenon DEF program
<1>b. ambiguous' <=> ambiguous
  BY <1>a, Zenon
<1>o. /\ pc'[t] = "faulted" /\ pc' \in [Threads -> PCs]
      /\ \A u \in Threads : u # t => pc'[u] = pc[u] /\ SameRole(u) /\ (Mapped(u)' <=> Mapped(u))
  BY <1>i, Others, Zenon DEF PCs
<1>1. /\ ~Late(t) /\ ~Filling(t) /\ ~Taking(t) /\ ~Allocating(t) /\ ~Mapped(t) /\ ~Freed(t)
      /\ ~Late(t)' /\ ~Filling(t)' /\ ~Taking(t)' /\ ~Allocating(t)' /\ ~Mapped(t)' /\ ~Freed(t)' /\ ~Entering(t)'
  BY <1>o, ZenonT(60) DEF Mapped, Late, Filling, Taking, Allocating, Entering, Freed
<1>2. \A u \in Threads : /\ Late(u)' <=> Late(u)
                         /\ Filling(u)' <=> Filling(u)
                         /\ Taking(u)' <=> Taking(u)
                         /\ Allocating(u)' <=> Allocating(u)
                         /\ Freed(u)' <=> Freed(u)
                         /\ Mapped(u)' <=> Mapped(u)
                         /\ Entering(u)' => Entering(u)
                         /\ (Entering(u) /\ u # t => Entering(u)')
  BY <1>1, <1>o, Zenon DEF SameRole
<1>3. TypeOK'
  BY <1>i, <1>u, <1>a, <1>o, Zenon DEF TypeOK
<1>4. CallAddrs'
  BY <1>i, <1>u, <1>1, <1>o, ZenonT(60) DEF AddrInv, CallAddrs, SameRole
<1>5. MetaAddrs' /\ LiveAddrs' /\ StaleAddrs'
  BY <1>i, <1>u, Zenon DEF AddrInv, MetaAddrs, LiveAddrs, StaleAddrs
<1>6. FreeList' /\ OneTaker' /\ FreedMarked'
  BY <1>i, <1>u, <1>2, Zenon DEF TokenInv, FreeList, OneTaker, FreedMarked
<1>7. FillingMarked'
  <2>1. \A s : Untouched(s) => Untouched(s)'
    BY <1>u, <1>2, Zenon DEF Untouched
  <2> QED BY <2>1, <1>i, <1>u, <1>2, Zenon DEF TokenInv, FillingMarked
<1>8. NewBlank' /\ MarkedTaken'
  BY <1>i, <1>u, <1>2, Zenon DEF TokenInv, NewBlank, MarkedTaken
<1>9. FillingMapped'
  BY <1>i, <1>u, <1>o, Zenon DEF MapInv, FillingMapped
<1>10. Accessible'
  <2> SUFFICES ASSUME NEW s \in Slots
               PROVE  \/ s \in writable \/ meta[s].IsDeallocated \/ s >= numSampled
                      \/ \E u \in Threads : pc'[u] = "a_map" /\ slot[u] = s
    BY <1>u, Zenon DEF Accessible
  <2>1. \/ s \in writable \/ meta[s].IsDeallocated \/ s >= numSampled
        \/ \E u \in Threads : pc[u] = "a_map" /\ slot[u] = s
    BY <1>i, Zenon DEF MapInv, Accessible
  <2> QED BY <2>1, <1>o, Zenon
<1>11. Owned'
  BY <1>i, <1>u, <1>b, <1>2, Zenon DEF HoldInv, Owned
<1>12. Filled'
  BY <1>i, <1>u, <1>b, <1>1, <1>o, ZenonT(60) DEF HoldInv, Filled, SameRole
<1>13. Alone'
  BY <1>i, <1>u, <1>b, <1>2, Zenon DEF HoldInv, Alone
<1>14. Covered'
  BY <1>i, <1>u, <1>b, <1>2, Zenon DEF HoldInv, Covered
<1> QED BY <1>3, <1>4, <1>5, <1>6, <1>7, <1>8, <1>9, <1>10, <1>11, <1>12, <1>13, <1>14, ZenonT(60) DEF AddrInv, TokenInv, MapInv, HoldInv

\* RecordDeallocation marks the slot.
LEMMA RecordDeallocationKeeps ==
  ASSUME GwpInv, NEW t \in Threads, DeallocateRecord(t)
  PROVE  TypeOK' /\ AddrInv' /\ TokenInv' /\ MapInv' /\ HoldInv'
<1>1. pc[t] = "d_record" /\ UNCHANGED <<free, writable, locals, program>>
  BY Zenon DEF DeallocateRecord
<1>2. CASE meta[slot[t]].IsDeallocated
  <2>1. pc' = [pc EXCEPT ![t] = "faulted"] /\ UNCHANGED mem
    BY <1>1, <1>2, Zenon DEF DeallocateRecord, trapOnAddress, mem
  <2> QED BY <2>1, <1>1, <1>2, DoubleKeeps, Zenon
<1>3. CASE ~meta[slot[t]].IsDeallocated
  <2>1. /\ meta' = [meta EXCEPT ![slot[t]].IsDeallocated = TRUE]
        /\ pc' = [pc EXCEPT ![t] = "d_trace"]
    BY <1>3, Zenon DEF DeallocateRecord
  <2> QED BY <2>1, <1>1, <1>3, MarkKeeps, Zenon
<1> QED BY <1>2, <1>3, Zenon

\* freeSlot: the call that had the slot gives it to the list.
LEMMA FreeSlotKeeps ==
  ASSUME GwpInv, NEW t \in Threads, freeSlot(t)
  PROVE  TypeOK' /\ AddrInv' /\ TokenInv' /\ MapInv' /\ HoldInv'
<1>i. TypeOK /\ AddrInv /\ TokenInv /\ MapInv /\ HoldInv
  BY Zenon DEF GwpInv
<1>1. /\ pc[t] = "d_free" /\ pc' = [pc EXCEPT ![t] = "idle"]
      /\ slot' = [slot EXCEPT ![t] = 0] /\ ptr' = [ptr EXCEPT ![t] = 0] /\ size' = [size EXCEPT ![t] = 0]
  BY Zenon DEF freeSlot, Return, Goto
<1>u. UNCHANGED <<numSampled, meta, writable, live, stale>> /\ freeSlots' = Append(freeSlots, slot[t])
  BY Zenon DEF freeSlot, mem, program
<1>a. ambiguous' = ambiguous
  BY Zenon DEF freeSlot, program
<1>b. ambiguous' <=> ambiguous
  BY <1>a, Zenon
<1>o. /\ pc'[t] = "idle" /\ pc' \in [Threads -> PCs]
      /\ \A u \in Threads : u # t => pc'[u] = pc[u] /\ SameRole(u) /\ (Mapped(u)' <=> Mapped(u))
  BY <1>i, <1>1, Others, Zenon DEF PCs
<1>2. /\ Freed(t) /\ Taking(t) /\ ~Late(t) /\ ~Filling(t) /\ ~Allocating(t) /\ ~Mapped(t) /\ ~Entering(t)
      /\ ~Late(t)' /\ ~Allocating(t)' /\ ~Mapped(t)' /\ ~Filling(t)' /\ ~Taking(t)' /\ ~Entering(t)' /\ ~Freed(t)'
  BY <1>1, <1>o, ZenonT(60) DEF Mapped, Late, Filling, Taking, Allocating, Entering, Freed
<1>3. slot[t] \in Slots /\ slot[t] < numSampled /\ meta[slot[t]].IsDeallocated
  BY <1>i, <1>2, Zenon DEF TypeOK, AddrInv, CallAddrs, TokenInv, FreedMarked
<1>4. /\ slot' \in [Threads -> Slots] /\ ptr' \in [Threads -> Nat] /\ size' \in [Threads -> Nat]
      /\ \A u \in Threads : u # t => slot'[u] = slot[u] /\ ptr'[u] = ptr[u] /\ size'[u] = size[u]
  <2>1. 0 \in Slots
    BY Pages DEF Slots
  <2> QED BY <1>i, <1>1, <2>1, ZenonT(60) DEF TypeOK
<1>5. /\ freeSlots' \in Seq(Slots) /\ IsInjective(freeSlots')
      /\ Range(freeSlots') = Range(freeSlots) \cup {slot[t]}
  <2>1. freeSlots \in Seq(Slots) /\ IsInjective(freeSlots) /\ slot[t] \notin Range(freeSlots)
    BY <1>i, <1>2, Zenon DEF TypeOK, TokenInv, FreeList
  <2> QED BY <2>1, <1>3, <1>u, AppendFacts, Zenon
<1>k. UNCHANGED <<numSampled, meta, writable, live, stale>>
  BY <1>u, Zenon
<1>6. TypeOK'
  BY <1>i, <1>k, <1>a, <1>o, <1>4, <1>5, ZenonT(60) DEF TypeOK
<1>7. CallAddrs'
  BY <1>i, <1>k, <1>2, <1>4, <1>o, ZenonT(60) DEF AddrInv, CallAddrs, SameRole
<1>8. MetaAddrs' /\ LiveAddrs' /\ StaleAddrs'
  BY <1>i, <1>k, Zenon DEF AddrInv, MetaAddrs, LiveAddrs, StaleAddrs
<1>9. \A u \in Threads : Taking(u)' => Taking(u) /\ slot'[u] = slot[u] /\ slot[u] # slot[t]
  BY <1>i, <1>2, <1>4, <1>o, ZenonT(60) DEF TokenInv, OneTaker, SameRole
<1>10. FreeList'
  <2>1. ASSUME NEW s \in Range(freeSlots')
        PROVE  s \in Slots /\ s < numSampled /\ meta[s].IsDeallocated /\ \A u \in Threads : Taking(u)' => slot'[u] # s
    <3>1. CASE s = slot[t]
      BY <3>1, <1>3, <1>9, Zenon
    <3>2. CASE s \in Range(freeSlots)
      BY <3>2, <1>i, <1>9, Zenon DEF TokenInv, FreeList
    <3> QED BY <3>1, <3>2, <1>5, Zenon
  <2> QED BY <2>1, <1>5, <1>k, ZenonT(60) DEF FreeList
<1>11. OneTaker'
  BY <1>i, <1>9, Zenon DEF TokenInv, OneTaker
<1>12. FreedMarked'
  BY <1>i, <1>k, <1>2, <1>4, <1>o, ZenonT(60) DEF TokenInv, FreedMarked, SameRole
<1>13. FillingMarked'
  <2>1. \A s : Untouched(s) => Untouched(s)'
    BY <1>k, <1>2, <1>4, <1>o, ZenonT(60) DEF Untouched, SameRole
  <2> QED BY <2>1, <1>i, <1>k, <1>2, <1>4, <1>o, ZenonT(60) DEF TokenInv, FillingMarked, SameRole
<1>14. NewBlank' /\ MarkedTaken'
  <2>1. NewBlank'
    BY <1>i, <1>k, Zenon DEF TokenInv, NewBlank
  <2> SUFFICES ASSUME NEW s \in Slots, meta[s].IsDeallocated, s # slot[t]
               PROVE  s \in Range(freeSlots) \/ \E u \in Threads : Taking(u)' /\ slot'[u] = s
    BY <2>1, <1>k, <1>5, Zenon DEF MarkedTaken
  <2>2. s \in Range(freeSlots) \/ \E u \in Threads : Taking(u) /\ slot[u] = s
    BY <1>i, Zenon DEF TokenInv, MarkedTaken
  <2> QED BY <2>2, <1>4, <1>o, Zenon DEF SameRole
<1>15. FillingMapped'
  BY <1>i, <1>k, <1>4, <1>o, Zenon DEF MapInv, FillingMapped
<1>16. Accessible'
  <2> SUFFICES ASSUME NEW s \in Slots
               PROVE  \/ s \in writable \/ meta[s].IsDeallocated \/ s >= numSampled
                      \/ \E u \in Threads : pc'[u] = "a_map" /\ slot'[u] = s
    BY <1>k, Zenon DEF Accessible
  <2>1. \/ s \in writable \/ meta[s].IsDeallocated \/ s >= numSampled
        \/ \E u \in Threads : pc[u] = "a_map" /\ slot[u] = s
    BY <1>i, Zenon DEF MapInv, Accessible
  <2> QED BY <2>1, <1>1, <1>4, <1>o, Zenon
<1>17. \A u \in Threads : (Allocating(u) \/ Entering(u))' => u # t /\ slot'[u] = slot[u]
  BY <1>2, <1>4, Zenon
<1>18. Owned'
  BY <1>i, <1>k, <1>b, <1>17, <1>o, ZenonT(60) DEF HoldInv, Owned, SameRole
<1>19. Filled'
  BY <1>i, <1>k, <1>b, <1>2, <1>4, <1>o, ZenonT(60) DEF HoldInv, Filled, SameRole
<1>20. Alone'
  BY <1>i, <1>b, <1>17, <1>o, ZenonT(60) DEF HoldInv, Alone, SameRole
<1>21. Covered'
  <2> SUFFICES ASSUME ~ambiguous, NEW s \in Slots, s < numSampled, ~meta[s].IsDeallocated
               PROVE  \/ \E h \in live : getNearestSlot(h.p) = s
                      \/ \E u \in Threads : (Allocating(u) \/ Entering(u))' /\ slot'[u] = s
    BY <1>k, <1>b, Zenon DEF Covered
  <2>1. \/ \E h \in live : getNearestSlot(h.p) = s
        \/ \E u \in Threads : (Allocating(u) \/ Entering(u)) /\ slot[u] = s
    BY <1>i, Zenon DEF HoldInv, Covered
  <2> QED BY <2>1, <1>2, <1>4, <1>o, Zenon DEF SameRole
<1> QED BY <1>6, <1>7, <1>8, <1>10, <1>11, <1>12, <1>13, <1>14, <1>15, <1>16, <1>18, <1>19, <1>20, <1>21, ZenonT(60) DEF AddrInv, TokenInv, MapInv, HoldInv

\* A step that leaves the memory and the locals as they were.
LEMMA QuietStep ==
  ASSUME GwpInv, NEW t \in Threads, NEW i \in 1 .. 3, pc[t] \in Places[i],
         NEW x \in Places[i], pc' = [pc EXCEPT ![t] = x],
         UNCHANGED <<free, mem, locals, live, stale, ambiguous>>
  PROVE  TypeOK' /\ AddrInv' /\ TokenInv' /\ MapInv' /\ HoldInv'
<1>1. UNCHANGED <<free, meta, slot, ptr, size, live, stale>> /\ UNCHANGED writable
  BY Zenon DEF mem, locals
<1>2. ambiguous' = ambiguous /\ (ambiguous' <=> ambiguous)
  BY Zenon
<1>3. /\ AddrInv' /\ TokenInv' /\ HoldInv' /\ (UNCHANGED writable => MapInv')
      /\ pc' \in [Threads -> PCs]
  BY <1>1, <1>2, QuietKeeps, ZenonT(60)
<1>4. TypeOK'
  BY <1>1, <1>2, <1>3, SMTT(30) DEF GwpInv, TypeOK, free
<1> QED BY <1>1, <1>3, <1>4, Zenon

\* The page loses its access after the mark was set, and before the slot has a new owner.
LEMMA UnmapKeeps ==
  ASSUME GwpInv, NEW t \in Threads, DeallocateUnmap(t)
  PROVE  TypeOK' /\ AddrInv' /\ TokenInv' /\ MapInv' /\ HoldInv'
<1>i. TypeOK /\ AddrInv /\ TokenInv /\ MapInv
  BY Zenon DEF GwpInv
<1>1. /\ pc[t] = "d_unmap" /\ pc' = [pc EXCEPT ![t] = "d_free"] /\ writable' = writable \ {slot[t]}
      /\ UNCHANGED <<free, meta, slot, ptr, size, live, stale>>
  BY Zenon DEF DeallocateUnmap, Goto, locals, program
<1>2. ambiguous' = ambiguous
  BY Zenon DEF DeallocateUnmap, program
<1>3. pc[t] \in Places[2] /\ "d_free" \in Places[2] /\ 2 \in 1 .. 3
  BY <1>1, SMT DEF Places
<1>4. AddrInv' /\ TokenInv' /\ HoldInv' /\ pc' \in [Threads -> PCs]
  BY <1>1, <1>2, <1>3, QuietKeeps, Zenon
<1>5. TypeOK'
  BY <1>i, <1>1, <1>2, <1>4, Zenon DEF TypeOK, free
<1>o. /\ pc'[t] = "d_free"
      /\ \A u \in Threads : u # t => pc'[u] = pc[u]
  BY <1>i, <1>1, Zenon DEF TypeOK
<1>6. Freed(t) /\ Taking(t) /\ pc[t] # "a_map"
  BY <1>1, Zenon DEF Freed, Taking
<1>7. FillingMapped'
  <2> SUFFICES ASSUME NEW u \in Threads, pc'[u] \in {"a_addr", "a_size", "a_fresh"}
               PROVE  slot[u] \in writable'
    BY <1>1, Zenon DEF FillingMapped
  <2>1. u # t /\ pc[u] \in {"a_addr", "a_size", "a_fresh"}
    BY <1>o, Zenon
  <2>2. Taking(u)
    BY <2>1, Zenon DEF Taking, Filling
  <2>3. slot[u] # slot[t]
    BY <2>1, <2>2, <1>6, <1>i, Zenon DEF TokenInv, OneTaker
  <2> QED BY <2>1, <2>3, <1>i, <1>1, Zenon DEF MapInv, FillingMapped
<1>8. Accessible'
  <2> SUFFICES ASSUME NEW s \in Slots
               PROVE  \/ s \in writable' \/ meta[s].IsDeallocated \/ s >= numSampled
                      \/ \E u \in Threads : pc'[u] = "a_map" /\ slot[u] = s
    BY <1>1, Zenon DEF Accessible, free
  <2>1. \/ s \in writable \/ meta[s].IsDeallocated \/ s >= numSampled
        \/ \E u \in Threads : pc[u] = "a_map" /\ slot[u] = s
    BY <1>i, Zenon DEF MapInv, Accessible
  <2>2. meta[slot[t]].IsDeallocated
    BY <1>6, <1>i, Zenon DEF TokenInv, FreedMarked
  <2> QED BY <2>1, <2>2, <1>1, <1>6, <1>o, ZenonT(60)
<1> QED BY <1>4, <1>5, <1>7, <1>8, Zenon DEF MapInv

\* The actions of that kind.
LEMMA QuietActions ==
  ASSUME GwpInv, NEW t \in Threads,
         \/ AllocateTrace(t) \/ DeallocateTrapWild(t) \/ DeallocateTrace(t) \/ DeallocateUnlock(t)
         \/ Disable(t) \/ DisableRest(t) \/ Enable(t) \/ Touch(t) \/ stop(t) \/ dumpReport(t)
  PROVE  TypeOK' /\ AddrInv' /\ TokenInv' /\ MapInv' /\ HoldInv'
<1>k. UNCHANGED <<free, mem, locals, live, stale, ambiguous>>
  BY ZenonT(30) DEF AllocateTrace, DeallocateTrapWild, DeallocateTrace, DeallocateUnlock, Disable, DisableRest,
                    Enable, Touch, stop, dumpReport, program
<1>1. CASE AllocateTrace(t)
  <2>1. pc[t] = "a_trace" /\ pc' = [pc EXCEPT ![t] = "a_unwind"]
    BY <1>1, Zenon DEF AllocateTrace, Goto
  <2>2. pc[t] \in Places[1] /\ "a_unwind" \in Places[1] /\ 1 \in 1 .. 3
    BY <2>1, SMT DEF Places
  <2> QED BY <2>1, <2>2, <1>k, QuietStep, Zenon
<1>2. CASE DeallocateTrace(t) \/ DeallocateUnlock(t)
  <2>1. /\ pc[t] \in {"d_trace", "d_unwind"}
        /\ pc' = [pc EXCEPT ![t] = "d_unwind"] \/ pc' = [pc EXCEPT ![t] = "d_unmap"]
    BY <1>2, Zenon DEF DeallocateTrace, DeallocateUnlock, Goto
  <2>2. pc[t] \in Places[2] /\ "d_unwind" \in Places[2] /\ "d_unmap" \in Places[2] /\ 2 \in 1 .. 3
    BY <2>1, SMT DEF Places
  <2> QED BY <2>1, <2>2, <1>k, QuietStep, Zenon
<1>3. CASE DeallocateTrapWild(t) \/ Disable(t) \/ DisableRest(t) \/ Enable(t) \/ Touch(t) \/ stop(t)
           \/ dumpReport(t)
  <2>1. PICK x \in {"idle", "f_lock", "disabled", "f_unlock", "faulted", "reporting", "reported"} :
          /\ pc[t] \in {"idle", "d_wild", "f_lock", "disabled", "f_unlock", "faulted", "reporting"}
          /\ pc' = [pc EXCEPT ![t] = x]
    BY <1>3, Zenon DEF DeallocateTrapWild, trapOnAddress, Disable, DisableRest, Enable, Touch, stop, dumpReport, Goto
  <2>2. pc[t] \in Places[3] /\ x \in Places[3] /\ 3 \in 1 .. 3
    BY <2>1, SMT DEF Places
  <2> QED BY <2>1, <2>2, <1>k, QuietStep, Zenon
<1> QED BY <1>1, <1>2, <1>3, Zenon

-----------------------------------------------------------------------------
\* The invariant holds at the start.
LEMMA GwpInit ==
  ASSUME Init
  PROVE  GwpInv
<1>1. /\ numSampled = 0 /\ freeSlots = << >> /\ meta = [s \in Slots |-> Unused] /\ writable = {}
      /\ pc = [t \in Threads |-> "idle"]
      /\ slot = [t \in Threads |-> 0] /\ ptr = [t \in Threads |-> 0] /\ size = [t \in Threads |-> 0]
      /\ live = {} /\ stale = {} /\ ambiguous = FALSE
  BY Zenon DEF Init
<1>2. 0 \in Slots /\ 0 \in 0 .. MaxSimultaneousAllocations /\ << >> \in Seq(Slots) /\ 0 \in Nat
  BY Pages DEF Slots
<1>3. Unused \in [Addr : Nat, RequestedSize : Nat, IsDeallocated : BOOLEAN] /\ Unused.Addr = 0 /\ ~Unused.IsDeallocated
  BY SMT DEF Unused
<1>4. Range(freeSlots) = {} /\ IsInjective(freeSlots)
  BY <1>1, SMT DEF Range, IsInjective
<1>5. TypeOK
  BY <1>1, <1>2, <1>3, Zenon DEF TypeOK, PCs
<1>6. \A t \in Threads : pc[t] = "idle"
  BY <1>1, Zenon
<1>7. \A t \in Threads : ~Late(t) /\ ~Filling(t) /\ ~Taking(t) /\ ~Allocating(t) /\ ~Mapped(t) /\ ~Freed(t) /\ ~Entering(t)
  BY <1>6, ZenonT(60) DEF Mapped, Late, Filling, Taking, Allocating, Entering, Freed
<1>8. MutexInv
  BY <1>6, Zenon DEF MutexInv
<1>9. \A s \in Slots : meta[s] = Unused
  BY <1>1, Zenon
<1>10. \A s \in Slots : s >= numSampled /\ ~(s < numSampled)
  BY <1>1, Pages, SMTT(60) DEF Slots
<1>11. AddrInv
  BY <1>1, <1>3, <1>6, <1>7, <1>9, ZenonT(60) DEF AddrInv, CallAddrs, MetaAddrs, LiveAddrs, StaleAddrs
<1>12. TokenInv
  BY <1>3, <1>4, <1>7, <1>9, Zenon
     DEF TokenInv, FreeList, OneTaker, FreedMarked, FillingMarked, NewBlank, MarkedTaken
<1>13. MapInv
  BY <1>6, <1>10, Zenon DEF MapInv, FillingMapped, Accessible
<1>14. HoldInv
  BY <1>1, <1>6, <1>7, <1>10, Zenon DEF HoldInv, Owned, Filled, Alone, Covered
<1> QED BY <1>5, <1>8, <1>11, <1>12, <1>13, <1>14, Zenon DEF GwpInv

\* It holds when nothing changes.
LEMMA GwpStutter ==
  ASSUME GwpInv, UNCHANGED vars
  PROVE  GwpInv'
<1>1. /\ UNCHANGED <<numSampled, freeSlots, meta, writable, pc, slot, ptr, size, live, stale>>
      /\ UNCHANGED <<poolMutex, backtraceMutex>>
  BY Zenon DEF vars, locks, free, mem, locals, program
<1>2. ambiguous' = ambiguous
  BY Zenon DEF vars, program
<1>3. TypeOK' /\ MutexInv'
  BY <1>1, <1>2, Zenon DEF GwpInv, TypeOK, MutexInv
<1>4. ambiguous' <=> ambiguous
  BY <1>2, Zenon
<1>5. ASSUME NEW u \in Threads
      PROVE  SameRole(u) /\ (Mapped(u)' <=> Mapped(u)) /\ (slot'[u] = slot[u] \/ pc[u] \in {"idle", "a_reserve"})
  BY <1>1, Zenon DEF SameRole, Mapped, Late, Filling, Taking, Allocating, Entering, Freed
<1>6. MetaAddrs' /\ LiveAddrs' /\ StaleAddrs' /\ TokenInv' /\ Owned' /\ Alone' /\ Covered'
  BY <1>1, <1>4, <1>5, RolesKeep, Zenon DEF GwpInv
<1>7. CallAddrs' /\ Filled'
  BY <1>1, <1>4, <1>5, Zenon DEF GwpInv, AddrInv, CallAddrs, HoldInv, Filled, SameRole
<1>8. MapInv'
  BY <1>1, Zenon DEF GwpInv, MapInv, FillingMapped, Accessible
<1> QED BY <1>3, <1>6, <1>7, <1>8, Zenon DEF GwpInv, AddrInv, HoldInv

\* Every step keeps it.
LEMMA GwpStep ==
  ASSUME GwpInv, [Next]_vars
  PROVE  GwpInv'
<1>1. CASE Over \/ UNCHANGED vars
  BY <1>1, GwpStutter, Zenon DEF Over
<1>2. ASSUME NEW t \in Threads, Calls(t) \/ Locks(t) \/ Steps(t) PROVE GwpInv'
  <2>1. MutexInv'
    BY <1>2, MutexStep, Zenon DEF GwpInv
  <2>2. TypeOK' /\ AddrInv' /\ TokenInv' /\ MapInv' /\ HoldInv'
    BY <1>2, AllocateKeeps, ReserveKeeps, MapKeeps, RecordKeeps, ReturnKeeps, DeallocateKeeps, AgainKeeps,
       WildKeeps, RecordDeallocationKeeps, UnmapKeeps, FreeSlotKeeps, QuietActions, ZenonT(60) DEF Calls, Locks, Steps
  <2> QED BY <2>1, <2>2, Zenon DEF GwpInv
<1> QED BY <1>1, <1>2, Zenon DEF Next

\* The invariant that the theorems below rest on.
THEOREM GwpInvariant == Spec => []GwpInv
<1>1. Init => GwpInv
  BY GwpInit, Zenon
<1>2. GwpInv /\ [Next]_vars => GwpInv'
  BY GwpStep, Zenon
<1> QED BY <1>1, <1>2, PTL DEF Spec

-----------------------------------------------------------------------------
(* What the invariant says to a caller of the pool and to the crash handler. *)

INSTANCE FiniteSetTheorems

\* No two allocations the program holds are in one slot.
LEMMA OneHolder ==
  ASSUME GwpInv, ~ambiguous, NEW g \in live, NEW h \in live, getNearestSlot(g.p) = getNearestSlot(h.p)
  PROVE  g = h
<1>1. g \in [p : Nat, sz : Nat] /\ h \in [p : Nat, sz : Nat]
  BY Zenon DEF GwpInv, TypeOK
<1>2. g.p = h.p /\ g.sz = h.sz
  BY HeldFields, Zenon DEF GwpInv
<1> QED BY <1>1, <1>2, SMTT(60)

\* reserveSlot, RecordDeallocation and freeSlot: a slot is with one call, with the
\* program, on the free list or unused, and never two of these, for any number of
\* threads and slots and any interleaving of frees of the same pointer.
THEOREM SlotsAreAccountedFor == Spec => []SlotsAccountedFor
<1>1. ASSUME GwpInv PROVE SlotsAccountedFor
  <2>i. TypeOK /\ AddrInv /\ TokenInv /\ HoldInv
    BY <1>1, ZenonT(60) DEF GwpInv
  <2>1. IsInjective(freeSlots)
    BY <2>i, ZenonT(60) DEF TokenInv, FreeList
  <2> DEFINE A(s) == {t \in Threads : (Allocating(t) \/ Freed(t)) /\ slot[t] = s}
             L(s) == {h \in live : getNearestSlot(h.p) = s}
             R(s) == IF s \in Range(freeSlots) THEN 1 ELSE 0
             U(s) == IF s >= numSampled THEN 1 ELSE 0
  <2>2. ASSUME ~ambiguous, NEW s \in Slots
        PROVE  \/ Cardinality(A(s)) + Cardinality(L(s)) + R(s) + U(s) = 1
               \/ /\ Cardinality(A(s)) + Cardinality(L(s)) + R(s) + U(s) = 0
                  /\ \E t \in Threads : Entering(t) /\ slot[t] = s
    <3>f. /\ \A h \in live : getNearestSlot(h.p) = s => ~meta[s].IsDeallocated
          /\ \A t \in Threads : Late(t) /\ slot[t] = s => ~meta[s].IsDeallocated
      BY <2>i, <2>2, HeldFields, ZenonT(60)
    <3>t. \A t \in Threads : Allocating(t) <=> Filling(t) \/ Late(t)
      BY Zenon DEF Allocating, Filling, Late
    <3>1. \A t, u \in A(s) : t = u
      <4> SUFFICES ASSUME NEW t \in Threads, NEW u \in Threads, slot[t] = s, slot[u] = s,
                          Allocating(t) \/ Freed(t), Allocating(u) \/ Freed(u)
                   PROVE  t = u
        BY Zenon
      <4>1. CASE Allocating(t) /\ Allocating(u)
        BY <4>1, <2>i, <2>2, ZenonT(60) DEF HoldInv, Alone
      <4>2. CASE Taking(t) /\ Taking(u)
        BY <4>2, <2>i, ZenonT(60) DEF TokenInv, OneTaker
      <4>3. CASE (Late(t) /\ Freed(u)) \/ (Freed(t) /\ Late(u))
        BY <4>3, <3>f, <2>i, ZenonT(60) DEF TokenInv, FreedMarked
      <4> QED BY <4>1, <4>2, <4>3, <3>t, ZenonT(60) DEF Taking
    <3>2. \A h \in L(s) : A(s) = {} /\ L(s) = {h}
      <4>1. ASSUME NEW h \in live, getNearestSlot(h.p) = s, NEW t \in Threads, Allocating(t) \/ Freed(t)
            PROVE  slot[t] # s
        BY <4>1, <3>f, <2>i, <2>2, ZenonT(60) DEF HoldInv, Owned, TokenInv, FreedMarked
      <4>2. \A g, h \in L(s) : g = h
        BY <1>1, <2>2, OneHolder, ZenonT(60)
      <4> QED BY <4>1, <4>2, ZenonT(60)
    <3>3. s \in Range(freeSlots) => A(s) = {} /\ L(s) = {} /\ s < numSampled
      <4>1. ASSUME s \in Range(freeSlots), NEW t \in Threads, Allocating(t) \/ Freed(t) PROVE slot[t] # s
        <5>1. meta[s].IsDeallocated /\ (Taking(t) => slot[t] # s)
          BY <4>1, <2>i, ZenonT(60) DEF TokenInv, FreeList
        <5> QED BY <4>1, <5>1, <3>f, <3>t, ZenonT(60) DEF Taking
      <4>2. s \in Range(freeSlots) => meta[s].IsDeallocated /\ s < numSampled
        BY <2>i, ZenonT(60) DEF TokenInv, FreeList
      <4> QED BY <4>1, <4>2, <3>f, ZenonT(60)
    <3>4. A(s) # {} \/ L(s) # {} => s < numSampled
      BY <2>i, ZenonT(60) DEF AddrInv, CallAddrs, LiveAddrs
    <3>5. s < numSampled => \/ s \in Range(freeSlots) \/ A(s) # {} \/ L(s) # {}
                            \/ \E t \in Threads : Entering(t) /\ slot[t] = s
      <4>1. CASE meta[s].IsDeallocated
        <5>1. s \in Range(freeSlots) \/ \E t \in Threads : Taking(t) /\ slot[t] = s
          BY <4>1, <2>i, ZenonT(60) DEF TokenInv, MarkedTaken
        <5> QED BY <5>1, <3>t, ZenonT(60) DEF Taking
      <4>2. CASE ~meta[s].IsDeallocated
        <5>1. s < numSampled => \/ \E h \in live : getNearestSlot(h.p) = s
                                \/ \E t \in Threads : (Allocating(t) \/ Entering(t)) /\ slot[t] = s
          BY <4>2, <2>i, <2>2, ZenonT(60) DEF HoldInv, Covered
        <5> QED BY <5>1, ZenonT(60)
      <4> QED BY <4>1, <4>2, ZenonT(60)
    <3>6. s < numSampled <=> ~(s >= numSampled)
      <4>1. numSampled \in 0 .. MaxSimultaneousAllocations
        BY <2>i, ZenonT(60) DEF TypeOK
      <4> QED BY <4>1, Pages, SMTT(60) DEF Slots
    <3> DEFINE a == A(s)
               l == L(s)
               r == s \in Range(freeSlots)
               v == s >= numSampled
               e == \E t \in Threads : Entering(t) /\ slot[t] = s
    <3>7. \/ a = {} /\ l = {} /\ ~r /\ v
          \/ a = {} /\ l = {} /\ r /\ ~v
          \/ (\E t : a = {t}) /\ l = {} /\ ~r /\ ~v
          \/ a = {} /\ (\E h : l = {h}) /\ ~r /\ ~v
          \/ a = {} /\ l = {} /\ ~r /\ ~v /\ e
      <4> HIDE DEF A, L
      <4>1. CASE a # {}
        <5>1. PICK t : a = {t}
          BY <4>1, <3>1, ZenonT(60)
        <5> QED BY <4>1, <5>1, <3>2, <3>3, <3>4, <3>6, ZenonT(60)
      <4>2. CASE l # {}
        BY <4>2, <3>2, <3>3, <3>4, <3>6, ZenonT(60)
      <4>3. CASE a = {} /\ l = {}
        BY <4>3, <3>3, <3>5, <3>6, ZenonT(60)
      <4> QED BY <4>1, <4>2, <4>3, ZenonT(60)
    <3>8. Cardinality({}) = 0 /\ \A x : Cardinality({x}) = 1
      BY FS_EmptySet, FS_Singleton, ZenonT(60)
    <3> HIDE DEF a, l, r, v, e
    <3>9. \/ Cardinality(a) = 0 /\ Cardinality(l) = 0 /\ ~r /\ v
          \/ Cardinality(a) = 0 /\ Cardinality(l) = 0 /\ r /\ ~v
          \/ Cardinality(a) = 1 /\ Cardinality(l) = 0 /\ ~r /\ ~v
          \/ Cardinality(a) = 0 /\ Cardinality(l) = 1 /\ ~r /\ ~v
          \/ Cardinality(a) = 0 /\ Cardinality(l) = 0 /\ ~r /\ ~v /\ e
      BY <3>7, <3>8, ZenonT(60)
    <3> DEFINE ca == Cardinality(a)
               cl == Cardinality(l)
    <3> HIDE DEF ca, cl
    <3>10. \/ ca + cl + (IF r THEN 1 ELSE 0) + (IF v THEN 1 ELSE 0) = 1
           \/ ca + cl + (IF r THEN 1 ELSE 0) + (IF v THEN 1 ELSE 0) = 0 /\ e
      BY <3>9, SMTT(60) DEF ca, cl
    <3> QED BY <3>10, Zenon DEF ca, cl, a, l, r, v, e
  <2> QED BY <2>1, <2>2, ZenonT(60) DEF SlotsAccountedFor
<1> QED BY <1>1, GwpInvariant, PTL

\* A slot the program holds is accessible.
LEMMA HeldWritable ==
  ASSUME GwpInv, ~ambiguous, NEW h \in live
  PROVE  getNearestSlot(h.p) \in writable
<1> DEFINE s == getNearestSlot(h.p)
<1>1. s \in Slots /\ s < numSampled /\ numSampled \in 0 .. MaxSimultaneousAllocations
  BY Zenon DEF GwpInv, TypeOK, AddrInv, LiveAddrs, Fits, InSlot
<1>2. ~meta[s].IsDeallocated
  BY HeldFields, ZenonT(60) DEF GwpInv
<1>3. ~\E t \in Threads : pc[t] = "a_map" /\ slot[t] = s
  BY ZenonT(60) DEF GwpInv, HoldInv, Owned, Allocating
<1> HIDE DEF s
<1>4. ~(s >= numSampled)
  BY <1>1, Pages, SMTT(60) DEF Slots
<1>5. s \in writable
  BY <1>1, <1>2, <1>3, <1>4, ZenonT(60) DEF GwpInv, MapInv, Accessible
<1> QED BY <1>5, ZenonT(60) DEF s

\* iterate finds what the program holds, and what a call is about to hand out or take back.
LEMMA IterateFinds ==
  ASSUME GwpInv, ~ambiguous
  PROVE  IterateComplete
<1>i. TypeOK /\ AddrInv /\ TokenInv /\ HoldInv
  BY Zenon DEF GwpInv
<1> DEFINE V(s) == [p |-> meta[s].Addr, sz |-> meta[s].RequestedSize]
<1>1. ASSUME NEW h \in live PROVE h \in iterate
  <2> DEFINE s == getNearestSlot(h.p)
  <2>1. h \in [p : Nat, sz : Nat]
    BY <1>i, ZenonT(60) DEF TypeOK
  <2>2. s \in Slots /\ meta[s].Addr = h.p /\ meta[s].RequestedSize = h.sz /\ ~meta[s].IsDeallocated
    BY <1>i, HeldFields, ZenonT(60) DEF AddrInv, LiveAddrs, Fits, InSlot
  <2>3. h.p \in Nat /\ InSlot(h.p, s)
    <3>1. h.p \in Nat
      BY <2>1, SMTT(60)
    <3> QED BY <3>1, <1>i, ZenonT(60) DEF AddrInv, LiveAddrs, Fits
  <2>4. h.p # 0
    BY <2>3, Nearest, ZenonT(60)
  <2> HIDE DEF s
  <2>5. h = V(s)
    BY <2>1, <2>2, SMTT(60)
  <2> QED BY <2>2, <2>4, <2>5, ZenonT(60) DEF iterate
<1>2. ASSUME NEW h \in iterate, h \notin live
      PROVE  \E t \in Threads : (Allocating(t) \/ Entering(t)) /\ slot[t] = getNearestSlot(h.p)
  <2>1. PICK s \in Slots : meta[s].Addr # 0 /\ ~meta[s].IsDeallocated /\ h = V(s)
    BY ZenonT(60) DEF iterate
  <2>2. h.p = meta[s].Addr
    BY <2>1, SMTT(60)
  <2>3. meta[s].Addr \in Nat
    <3>1. meta[s] \in [Addr : Nat, RequestedSize : Nat, IsDeallocated : BOOLEAN]
      BY <1>i, ZenonT(60) DEF TypeOK
    <3> QED BY <3>1, SMTT(60)
  <2>4. getNearestSlot(h.p) = s
    <3>1. InSlot(meta[s].Addr, s)
      BY <2>1, <1>i, ZenonT(60) DEF AddrInv, MetaAddrs
    <3> QED BY <2>2, <2>3, <3>1, Nearest, ZenonT(60)
  <2>5. s < numSampled
    <3>1. ~(s >= numSampled)
      BY <2>1, <1>i, ZenonT(60) DEF TokenInv, NewBlank
    <3>2. numSampled \in 0 .. MaxSimultaneousAllocations
      BY <1>i, ZenonT(60) DEF TypeOK
    <3> QED BY <3>1, <3>2, Pages, SMTT(60) DEF Slots
  <2>6. ASSUME NEW g \in live PROVE getNearestSlot(g.p) # s
    <3>1. SUFFICES ASSUME getNearestSlot(g.p) = s PROVE g = h
      BY <1>2, ZenonT(60)
    <3>2. meta[s].Addr = g.p /\ meta[s].RequestedSize = g.sz
      BY <3>1, <1>i, HeldFields, ZenonT(60)
    <3>3. g \in [p : Nat, sz : Nat]
      BY <1>i, ZenonT(60) DEF TypeOK
    <3> QED BY <2>1, <3>2, <3>3, SMTT(60)
  <2>7. \/ \E g \in live : getNearestSlot(g.p) = s
        \/ \E t \in Threads : (Allocating(t) \/ Entering(t)) /\ slot[t] = s
    BY <2>1, <2>5, <1>i, ZenonT(60) DEF HoldInv, Covered
  <2> QED BY <2>4, <2>6, <2>7, ZenonT(60)
<1> QED BY <1>1, <1>2, ZenonT(60) DEF IterateComplete

\* allocate: held memory is accessible, inside its slot and in the metadata as the current
\* allocation of that size until its free, and iterate visits it in a disabled pool.
THEOREM HeldMemoryStaysUsable == Spec => []HeldMemoryUsable
<1>1. ASSUME GwpInv PROVE HeldMemoryUsable
  <2>1. ASSUME ~ambiguous, NEW h \in live
        PROVE  LET s == getNearestSlot(h.p)
               IN  /\ s \in writable
                   /\ slotToAddr(s) <= h.p /\ h.p + h.sz <= slotToAddr(s) + PageSize
                   /\ meta[s] = [Addr |-> h.p, RequestedSize |-> h.sz, IsDeallocated |-> FALSE]
    <3>1. getNearestSlot(h.p) \in writable
      BY <1>1, <2>1, HeldWritable, ZenonT(60)
    <3> QED BY <3>1, <1>1, <2>1, ZenonT(60) DEF GwpInv, AddrInv, LiveAddrs, Fits, InSlot, HoldInv, Owned
  <2> QED BY <1>1, <2>1, IterateFinds, ZenonT(60) DEF HeldMemoryUsable
<1> QED BY <1>1, GwpInvariant, PTL

-----------------------------------------------------------------------------
\* What holds between a fault and its report, and so at the report.
Kinds == {"none", "freed", "past", "before", "INVALID_FREE", "DOUBLE_FREE"}
Errors == {"none", "UNKNOWN", "USE_AFTER_FREE", "BUFFER_OVERFLOW", "BUFFER_UNDERFLOW", "INVALID_FREE", "DOUBLE_FREE"}

FaultType ==
  /\ failure \in [type : Errors, addr : Nat]
  /\ fault \in [Threads -> [by : Kinds, at : Int, of : Slots, reused : BOOLEAN, report : Errors]]

\* The metadata of memory that is held has an address, and so has a bad free.
Named(t) ==
  /\ pc[t] \in {"a_size", "a_fresh", "a_trace", "a_unwind"} => meta[slot[t]].Addr # 0
  /\ pc[t] \in {"d_wild", "d_record"} => ptr[t] # 0
NamedInv ==
  /\ \A t \in Threads : Named(t)
  /\ \A h \in live : meta[getNearestSlot(h.p)].Addr # 0

\* A thread that trapped keeps PoolMutex: no other bad free overwrites its own.
Stuck(t) == pc[t] \in {"faulted", "reporting"}
Trapped(t) == pc[t] \in {"faulted", "reporting", "reported"} /\ fault[t].by \in {"INVALID_FREE", "DOUBLE_FREE"}
TrapInv == \A t \in Threads : Trapped(t) => poolMutex = t /\ failure.type = fault[t].by /\ failure.addr # 0

\* A slot keeps its mark until it is mapped again.
Marked(s) ==
  /\ meta[s].IsDeallocated
  /\ \A u \in Threads : pc[u] \in {"a_addr", "a_size", "a_fresh"} => slot[u] # s
FreedFault(f) == InSlot(f.at, f.of) /\ f.at \in Nat /\ (f.reused \/ Marked(f.of))
EdgeFault(f) ==
  /\ meta[f.of].Addr # 0
  /\ f.by = "past" => f.at = slotToAddr(f.of) + PageSize
  /\ f.by = "before" => f.at = slotToAddr(f.of) - 1
StuckInv ==
  \A t \in Threads : Stuck(t) =>
    /\ fault[t].by = "freed" => FreedFault(fault[t])
    /\ fault[t].by \in {"past", "before"} => EdgeFault(fault[t])

FaultInv == FaultType /\ NamedInv /\ TrapInv /\ StuckInv /\ FaultsExplained

\* A step of t changes the place and the locals of t only.
LEMMA Moves ==
  ASSUME TypeOK, NEW t \in Threads, Calls(t) \/ Locks(t) \/ Steps(t)
  PROVE  \A u \in Threads : u # t => pc'[u] = pc[u] /\ slot'[u] = slot[u] /\ ptr'[u] = ptr[u]
<1>p. pc \in [Threads -> PCs] /\ slot \in [Threads -> Slots] /\ ptr \in [Threads -> Nat]
  BY Zenon DEF TypeOK
<1> DEFINE Only == \A u \in Threads : u # t => pc'[u] = pc[u] /\ slot'[u] = slot[u] /\ ptr'[u] = ptr[u]
<1>1. ASSUME NEW from, NEW to, Goto(t, from, to), UNCHANGED <<slot, ptr>> PROVE Only
  BY <1>1, <1>p, ZenonT(60) DEF Goto
<1>2. ASSUME NEW from, Return(t, from) PROVE Only
  BY <1>2, <1>p, ZenonT(60) DEF Return, Goto
<1>3. ASSUME NEW r \in Requests, Allocate(t, r) PROVE Only
  BY <1>3, <1>p, ZenonT(60) DEF Allocate, Goto
<1>4. ASSUME NEW p, Freeing(t, p) PROVE Only
  BY <1>4, <1>p, ZenonT(60) DEF Freeing, Goto
<1>5. ASSUME NEW s, Reserved(t, s) PROVE Only
  BY <1>5, <1>p, ZenonT(60) DEF Reserved, Goto
<1>6. CASE AllocateReserve(t)
  BY <1>6, <1>2, <1>5, ZenonT(60) DEF AllocateReserve, reserveSlot
<1>7. CASE AllocateMap(t)
  BY <1>7, <1>p, ZenonT(60) DEF AllocateMap, Goto
<1>8. CASE DeallocateTrapWild(t) \/ DeallocateRecord(t)
  <2>1. UNCHANGED <<slot, ptr>> /\ \E x \in PCs : pc' = [pc EXCEPT ![t] = x]
    BY <1>8, ZenonT(60) DEF DeallocateTrapWild, DeallocateRecord, trapOnAddress, locals, PCs
  <2> QED BY <2>1, <1>p, ZenonT(60)
<1>9. CASE AllocateReturn(t) \/ freeSlot(t)
  BY <1>9, <1>2, ZenonT(60) DEF AllocateReturn, freeSlot
<1>10. CASE Deallocate(t) \/ DeallocateAgain(t) \/ DeallocateWild(t)
  BY <1>10, <1>4, ZenonT(60) DEF Deallocate, DeallocateAgain, DeallocateWild
<1>11. CASE RecordAllocation(t)
  BY <1>11, <1>1, ZenonT(60) DEF RecordAllocation, locals
<1>12. CASE Enable(t)
  BY <1>12, <1>1, ZenonT(60) DEF Enable, locals
<1>13. CASE \/ AllocateTrace(t) \/ DeallocateTrace(t) \/ DeallocateUnlock(t) \/ DeallocateUnmap(t)
            \/ Disable(t) \/ DisableRest(t) \/ Touch(t) \/ stop(t) \/ dumpReport(t)
  BY <1>13, <1>1, ZenonT(60) DEF AllocateTrace, DeallocateTrace, DeallocateUnlock, DeallocateUnmap, Disable,
                                DisableRest, Touch, stop, dumpReport, locals
<1> QED BY <1>3, <1>6, <1>7, <1>8, <1>9, <1>10, <1>11, <1>12, <1>13, ZenonT(60) DEF Calls, Locks, Steps

\* The steps that leave the metadata, the faults and what is held alone.
Plain(t) ==
  \/ \E r \in Requests : Allocate(t, r)
  \/ AllocateReserve(t) \/ AllocateTrace(t) \/ DeallocateTrace(t) \/ freeSlot(t) \/ Disable(t) \/ DisableRest(t)
  \/ DeallocateUnlock(t) \/ DeallocateUnmap(t) \/ Enable(t) \/ stop(t)

LEMMA PlainSteps ==
  ASSUME TypeOK, NEW t \in Threads, Plain(t)
  PROVE  /\ UNCHANGED <<meta, faults, live>>
         /\ pc'[t] \notin {"a_addr", "a_size", "a_fresh", "a_trace", "d_wild", "d_record", "faulted", "reported"}
         /\ pc'[t] = "a_unwind" => pc[t] = "a_trace" /\ slot'[t] = slot[t]
         /\ pc'[t] = "reporting" => pc[t] = "faulted"
<1>p. pc \in [Threads -> PCs]
  BY Zenon DEF TypeOK
<1> USE DEF Goto
<1>1. UNCHANGED <<meta, faults, live>>
  BY ZenonT(60) DEF Plain, Allocate, AllocateReserve, AllocateTrace, DeallocateTrace, freeSlot, Disable, DisableRest,
                    DeallocateUnlock, DeallocateUnmap, Enable, stop, mem, program
<1>2. CASE AllocateTrace(t)
  <2>1. pc[t] = "a_trace" /\ pc'[t] = "a_unwind" /\ slot' = slot
    BY <1>2, <1>p, Zenon DEF AllocateTrace, locals
  <2> QED BY <1>1, <2>1, Zenon
<1>3. CASE stop(t)
  <2>1. pc[t] = "faulted" /\ pc'[t] = "reporting"
    BY <1>3, <1>p, Zenon DEF stop
  <2> QED BY <1>1, <2>1, Zenon
<1>4. CASE ~AllocateTrace(t) /\ ~stop(t)
  <2>1. pc'[t] \in {"a_reserve", "a_map", "idle", "d_unwind", "d_unmap", "d_free", "f_lock", "disabled", "f_unlock"}
    <3>1. ASSUME NEW s, Reserved(t, s) PROVE pc'[t] = "a_map"
      BY <3>1, <1>p, Zenon DEF Reserved
    <3>2. ASSUME NEW from, Return(t, from) PROVE pc'[t] = "idle"
      BY <3>2, <1>p, Zenon DEF Return
    <3>3. CASE AllocateReserve(t) \/ freeSlot(t)
      BY <3>1, <3>2, <3>3, ZenonT(60) DEF AllocateReserve, reserveSlot, freeSlot
    <3>4. CASE ~(AllocateReserve(t) \/ freeSlot(t))
      BY <1>4, <3>4, <1>p, ZenonT(60) DEF Plain, Allocate, DeallocateTrace, Disable, DisableRest, DeallocateUnlock,
                                          DeallocateUnmap, Enable
    <3> QED BY <3>3, <3>4, Zenon
  <2> QED BY <1>1, <2>1, ZenonT(60)
<1> QED BY <1>2, <1>3, <1>4, Zenon

\* A thread that faulted while it had PoolMutex keeps it.
LEMMA PoolStays ==
  ASSUME GwpInv, NEW t \in Threads, Calls(t) \/ Locks(t) \/ Steps(t),
         NEW u \in Threads, poolMutex = u, pc[u] \in {"faulted", "reporting", "reported"}
  PROVE  poolMutex' = u
<1>m. poolMutex # NoThread
  BY ConstantsAssumption, Zenon
<1>1. CASE DeallocateUnlock(t) \/ Enable(t)
  <2>1. pc[t] \in {"d_unwind", "disabled", "f_unlock"} /\ (pc[t] = "f_unlock" => UNCHANGED poolMutex)
    BY <1>1, Zenon DEF DeallocateUnlock, Enable, Goto
  <2>2. pc[t] \in {"d_unwind", "disabled"} => poolMutex = t
    BY Zenon DEF GwpInv, MutexInv
  <2> QED BY <2>1, <2>2, Zenon
<1>2. CASE ~(DeallocateUnlock(t) \/ Enable(t))
  <2>1. CASE Calls(t)
    BY <2>1, <1>m, ZenonT(60) DEF Calls, Allocate, Deallocate, DeallocateAgain, DeallocateWild, Freeing, Touch,
                                 Disable, Lock, locks
  <2>2. CASE Locks(t)
    BY <2>2, <1>m, ZenonT(60) DEF Locks, AllocateReserve, AllocateTrace, DeallocateTrapWild, DeallocateRecord,
                                 DeallocateTrace, freeSlot, DisableRest, Lock, locks
  <2>3. CASE Steps(t)
    BY <2>3, <1>m, <1>2, ZenonT(60) DEF Steps, AllocateMap, RecordAllocation, AllocateReturn, DeallocateUnmap, stop,
                                       dumpReport, locks
  <2> QED BY <2>1, <2>2, <2>3, Zenon
<1> QED BY <1>1, <1>2, Zenon

\* A step that adds no fault and no report, keeps marks and keeps addresses.
LEMMA FaultsKeep ==
  ASSUME GwpInv, FaultInv, NEW t \in Threads, Calls(t) \/ Locks(t) \/ Steps(t), UNCHANGED faults,
         pc'[t] \notin {"faulted", "reported"}, pc'[t] = "reporting" => pc[t] = "faulted",
         \A s \in Slots : Marked(s) => meta'[s].IsDeallocated,
         pc'[t] \in {"a_addr", "a_size", "a_fresh"} =>
           pc[t] \in {"a_addr", "a_size", "a_fresh"} /\ slot'[t] = slot[t],
         \A s \in Slots : meta[s].Addr # 0 => meta'[s].Addr # 0
  PROVE  FaultType' /\ TrapInv' /\ StuckInv' /\ FaultsExplained'
<1>f. failure' = failure /\ fault' = fault
  BY Zenon DEF faults
<1>i. FaultType /\ TrapInv /\ StuckInv /\ FaultsExplained
  BY Zenon DEF FaultInv
<1>m. \A u \in Threads : u # t => pc'[u] = pc[u] /\ slot'[u] = slot[u]
  BY Moves, Zenon DEF GwpInv
<1>1. FaultType'
  BY <1>f, <1>i, Zenon DEF FaultType
<1>2. ASSUME NEW u \in Threads
      PROVE  /\ Stuck(u)' => Stuck(u)
             /\ pc'[u] = "reported" => pc[u] = "reported"
             /\ Trapped(u)' => Trapped(u)
  BY <1>m, <1>f, ZenonT(60) DEF Stuck, Trapped
<1>3. TrapInv'
  <2> SUFFICES ASSUME NEW u \in Threads, Trapped(u)
               PROVE  poolMutex' = u /\ failure.type = fault[u].by /\ failure.addr # 0
    BY <1>2, <1>f, Zenon DEF TrapInv
  <2>1. poolMutex = u /\ failure.type = fault[u].by /\ failure.addr # 0
    BY <1>i, Zenon DEF TrapInv
  <2>2. pc[u] \in {"faulted", "reporting", "reported"}
    BY Zenon DEF Trapped
  <2> QED BY <2>1, <2>2, PoolStays, Zenon
<1>4. \A s \in Slots : Marked(s) => Marked(s)'
  BY <1>m, ZenonT(60) DEF Marked
<1>5. StuckInv'
  <2> SUFFICES ASSUME NEW u \in Threads, Stuck(u)
               PROVE  /\ fault[u].by = "freed" => FreedFault(fault[u])'
                      /\ fault[u].by \in {"past", "before"} => EdgeFault(fault[u])'
    BY <1>2, <1>f, Zenon DEF StuckInv
  <2>1. fault[u].of \in Slots
    BY <1>i, SMTT(60) DEF FaultType
  <2>2. /\ fault[u].by = "freed" => FreedFault(fault[u])
        /\ fault[u].by \in {"past", "before"} => EdgeFault(fault[u])
    BY <1>i, Zenon DEF StuckInv
  <2>3. fault[u].by = "freed" => FreedFault(fault[u])'
    BY <2>1, <2>2, <1>4, <1>f, Zenon DEF FreedFault
  <2>4. fault[u].by \in {"past", "before"} => EdgeFault(fault[u])'
    BY <2>1, <2>2, <1>f, Zenon DEF EdgeFault
  <2> QED BY <2>3, <2>4, Zenon
<1>6. FaultsExplained'
  BY <1>2, <1>f, <1>i, Zenon DEF FaultsExplained
<1> QED BY <1>1, <1>3, <1>5, <1>6, Zenon

\* The names of the other threads and of what is held stay.
LEMMA NamesKeep ==
  ASSUME GwpInv, NamedInv, NEW t \in Threads, Calls(t) \/ Locks(t) \/ Steps(t),
         \A s \in Slots : meta[s].Addr # 0 => meta'[s].Addr # 0,
         Named(t)', live' \subseteq live
  PROVE  NamedInv'
<1>m. \A u \in Threads : u # t => pc'[u] = pc[u] /\ slot'[u] = slot[u] /\ ptr'[u] = ptr[u]
  BY Moves, Zenon DEF GwpInv
<1>1. ASSUME NEW u \in Threads PROVE Named(u)'
  <2>1. slot[u] \in Slots
    BY Zenon DEF GwpInv, TypeOK
  <2>2. CASE u # t
    BY <2>1, <2>2, <1>m, ZenonT(60) DEF NamedInv, Named
  <2> QED BY <2>2, Zenon
<1>2. ASSUME NEW h \in live' PROVE meta'[getNearestSlot(h.p)].Addr # 0
  <2>1. getNearestSlot(h.p) \in Slots
    BY <1>2, Zenon DEF GwpInv, AddrInv, LiveAddrs, Fits, InSlot
  <2> QED BY <1>2, <2>1, Zenon DEF NamedInv
<1> QED BY <1>1, <1>2, Zenon DEF NamedInv

\* Step by step.
LEMMA PlainFaults ==
  ASSUME GwpInv, FaultInv, NEW t \in Threads, Plain(t)
  PROVE  FaultInv'
<1>s. Calls(t) \/ Locks(t) \/ Steps(t)
  BY ZenonT(60) DEF Plain, Calls, Locks, Steps
<1>i. TypeOK /\ NamedInv
  BY Zenon DEF GwpInv, FaultInv
<1>1. /\ meta' = meta /\ UNCHANGED faults /\ live' = live
      /\ pc'[t] \notin {"a_addr", "a_size", "a_fresh", "a_trace", "d_wild", "d_record", "faulted", "reported"}
      /\ pc'[t] = "a_unwind" => pc[t] = "a_trace" /\ slot'[t] = slot[t]
      /\ pc'[t] = "reporting" => pc[t] = "faulted"
  BY <1>i, PlainSteps, Zenon
<1>2. Named(t)'
  BY <1>1, <1>i, ZenonT(60) DEF NamedInv, Named
<1>3. \A s \in Slots : Marked(s) => meta'[s].IsDeallocated
  BY <1>1, Zenon DEF Marked
<1>4. FaultType' /\ TrapInv' /\ StuckInv' /\ FaultsExplained'
  BY <1>s, <1>1, <1>3, FaultsKeep, ZenonT(60)
<1>5. NamedInv'
  BY <1>s, <1>i, <1>1, <1>2, NamesKeep, ZenonT(60)
<1> QED BY <1>4, <1>5, Zenon DEF FaultInv

LEMMA RecordFaults ==
  ASSUME GwpInv, FaultInv, NEW t \in Threads, RecordAllocation(t)
  PROVE  FaultInv'
<1>s. Calls(t) \/ Locks(t) \/ Steps(t)
  BY Zenon DEF Steps
<1>i. TypeOK /\ AddrInv /\ NamedInv
  BY Zenon DEF GwpInv, FaultInv
<1>t. /\ meta \in MetaType /\ slot[t] \in Slots /\ ptr[t] \in Nat /\ size[t] \in Nat
      /\ pc \in [Threads -> PCs] /\ TRUE \in BOOLEAN /\ FALSE \in BOOLEAN
  BY <1>i, Zenon DEF TypeOK, MetaType
<1>u. UNCHANGED faults /\ slot' = slot /\ live' = live
  BY Zenon DEF RecordAllocation, locals, program
<1>p. ptr[t] # 0 \/ pc[t] # "a_addr"
  <2>1. pc[t] = "a_addr" => InSlot(ptr[t], slot[t])
    BY <1>i, Zenon DEF AddrInv, CallAddrs, Mapped, Fits
  <2> QED BY <2>1, <1>t, Nearest, Zenon
<1>1. /\ pc'[t] \in {"a_size", "a_fresh", "a_trace"}
      /\ pc'[t] \in {"a_size", "a_fresh"} => pc[t] \in {"a_addr", "a_size"}
      /\ \A s \in Slots : s # slot[t] => meta'[s] = meta[s]
      /\ meta'[slot[t]].Addr # 0
      /\ pc[t] \in {"a_addr", "a_size", "a_fresh"}
  <2>1. CASE Goto(t, "a_addr", "a_size") /\ meta' = [meta EXCEPT ![slot[t]].Addr = ptr[t]]
    <3>1. pc[t] = "a_addr" /\ pc'[t] = "a_size"
      BY <2>1, <1>t, Zenon DEF Goto
    <3>2. meta'[slot[t]].Addr = ptr[t] /\ \A s \in Slots : s # slot[t] => meta'[s] = meta[s]
      BY <2>1, <1>t, SetAddr, Zenon
    <3> QED BY <3>1, <3>2, <1>p, Zenon
  <2>2. CASE Goto(t, "a_size", "a_fresh") /\ meta' = [meta EXCEPT ![slot[t]].RequestedSize = size[t]]
    <3>1. pc[t] = "a_size" /\ pc'[t] = "a_fresh"
      BY <2>2, <1>t, Zenon DEF Goto
    <3>2. meta'[slot[t]].Addr = meta[slot[t]].Addr /\ \A s \in Slots : s # slot[t] => meta'[s] = meta[s]
      BY <2>2, <1>t, SetSize, Zenon
    <3> QED BY <3>1, <3>2, <1>i, Zenon DEF NamedInv, Named
  <2>3. CASE Goto(t, "a_fresh", "a_trace") /\ meta' = [meta EXCEPT ![slot[t]].IsDeallocated = FALSE]
    <3>1. pc[t] = "a_fresh" /\ pc'[t] = "a_trace"
      BY <2>3, <1>t, Zenon DEF Goto
    <3>2. meta'[slot[t]].Addr = meta[slot[t]].Addr /\ \A s \in Slots : s # slot[t] => meta'[s] = meta[s]
      BY <2>3, <1>t, SetMark, Zenon
    <3> QED BY <3>1, <3>2, <1>i, Zenon DEF NamedInv, Named
  <2> QED BY <2>1, <2>2, <2>3, Zenon DEF RecordAllocation
<1>2. \A s \in Slots : meta[s].Addr # 0 => meta'[s].Addr # 0
  BY <1>1, Zenon
<1>3. \A s \in Slots : Marked(s) => meta'[s].IsDeallocated
  BY <1>1, Zenon DEF Marked
<1>4. Named(t)'
  BY <1>1, <1>u, ZenonT(60) DEF Named
<1>5. FaultType' /\ TrapInv' /\ StuckInv' /\ FaultsExplained'
  BY <1>s, <1>u, <1>1, <1>2, <1>3, FaultsKeep, ZenonT(60)
<1>6. NamedInv'
  BY <1>s, <1>i, <1>u, <1>2, <1>4, NamesKeep, ZenonT(60)
<1> QED BY <1>5, <1>6, Zenon DEF FaultInv


LEMMA ReturnFaults ==
  ASSUME GwpInv, FaultInv, NEW t \in Threads, AllocateReturn(t)
  PROVE  FaultInv'
<1>s. Calls(t) \/ Locks(t) \/ Steps(t)
  BY Zenon DEF Steps
<1>i. TypeOK /\ AddrInv /\ NamedInv
  BY Zenon DEF GwpInv, FaultInv
<1>t. slot[t] \in Slots /\ ptr[t] \in Nat /\ pc \in [Threads -> PCs]
  BY <1>i, Zenon DEF TypeOK
<1>u. /\ UNCHANGED faults /\ meta' = meta /\ live' = live \cup {[p |-> ptr[t], sz |-> size[t]]}
      /\ pc[t] = "a_unwind" /\ pc'[t] = "idle"
  BY <1>t, Zenon DEF AllocateReturn, Return, Goto, mem
<1>1. FaultType' /\ TrapInv' /\ StuckInv' /\ FaultsExplained'
  <2>1. \A s \in Slots : Marked(s) => meta'[s].IsDeallocated
    BY <1>u, Zenon DEF Marked
  <2> QED BY <1>s, <1>u, <2>1, FaultsKeep, ZenonT(60)
<1>m. \A u \in Threads : u # t => pc'[u] = pc[u] /\ slot'[u] = slot[u] /\ ptr'[u] = ptr[u]
  BY <1>s, <1>i, Moves, Zenon
<1>2. ASSUME NEW u \in Threads PROVE Named(u)'
  <2>1. CASE u # t
    BY <2>1, <1>m, <1>u, <1>i, ZenonT(60) DEF NamedInv, Named
  <2>2. CASE u = t
    BY <2>2, <1>u, ZenonT(60) DEF Named
  <2> QED BY <2>1, <2>2, Zenon
<1>3. getNearestSlot(ptr[t]) = slot[t] /\ meta[slot[t]].Addr # 0
  <2>1. InSlot(ptr[t], slot[t])
    BY <1>u, <1>i, Zenon DEF AddrInv, CallAddrs, Mapped, Fits
  <2>2. meta[slot[t]].Addr # 0
    BY <1>u, <1>i, Zenon DEF NamedInv, Named
  <2> QED BY <2>1, <2>2, <1>t, Nearest, Zenon
<1>4. ASSUME NEW h \in live' PROVE meta'[getNearestSlot(h.p)].Addr # 0
  <2>1. CASE h \in live
    BY <2>1, <1>u, <1>i, Zenon DEF NamedInv
  <2>2. CASE h = [p |-> ptr[t], sz |-> size[t]]
    <3>1. h.p = ptr[t]
      BY <2>2, SMTT(60)
    <3> QED BY <3>1, <1>3, <1>u, Zenon
  <2> QED BY <2>1, <2>2, <1>u, Zenon
<1> QED BY <1>1, <1>2, <1>4, Zenon DEF FaultInv, NamedInv

LEMMA FreeingFaults ==
  ASSUME GwpInv, FaultInv, NEW t \in Threads, Deallocate(t) \/ DeallocateAgain(t) \/ DeallocateWild(t)
  PROVE  FaultInv'
<1>s. Calls(t) \/ Locks(t) \/ Steps(t)
  BY Zenon DEF Calls
<1>i. TypeOK /\ AddrInv /\ NamedInv
  BY Zenon DEF GwpInv, FaultInv
<1>t. pc \in [Threads -> PCs] /\ ptr \in [Threads -> Nat] /\ live \subseteq [p : Nat, sz : Nat] /\ stale \subseteq Nat
  BY <1>i, Zenon DEF TypeOK
<1>h. ASSUME NEW h \in live PROVE h.p \in Nat /\ h.p # 0 /\ h.p + 1 # 0
  <2>1. h.p \in Nat
    BY <1>t, SMTT(60)
  <2>2. InSlot(h.p, getNearestSlot(h.p))
    BY <1>i, Zenon DEF AddrInv, LiveAddrs, Fits
  <2>3. h.p # 0
    BY <2>1, <2>2, Nearest, Zenon
  <2>4. h.p + 1 # 0
    BY <2>1, SMTT(60)
  <2> QED BY <2>1, <2>3, <2>4, Zenon
<1>p. ASSUME NEW p \in stale PROVE p # 0
  <2>1. p \in Nat /\ InSlot(p, getNearestSlot(p))
    BY <1>t, <1>i, Zenon DEF AddrInv, StaleAddrs
  <2> QED BY <2>1, Nearest, Zenon
<1>1. PICK p : Freeing(t, p) /\ p # 0 /\ live' \subseteq live
  BY <1>h, <1>p, ZenonT(60) DEF Deallocate, DeallocateAgain, DeallocateWild
<1>2. UNCHANGED faults /\ meta' = meta /\ pc'[t] \in {"d_wild", "d_record"} /\ ptr'[t] # 0
  BY <1>1, <1>t, ZenonT(60) DEF Freeing, Goto, mem
<1>3. Named(t)'
  BY <1>2, ZenonT(60) DEF Named
<1>4. \A s \in Slots : Marked(s) => meta'[s].IsDeallocated
  BY <1>2, Zenon DEF Marked
<1>5. FaultType' /\ TrapInv' /\ StuckInv' /\ FaultsExplained'
  BY <1>s, <1>2, <1>4, FaultsKeep, ZenonT(60)
<1>6. NamedInv'
  BY <1>s, <1>i, <1>1, <1>2, <1>3, NamesKeep, ZenonT(60)
<1> QED BY <1>5, <1>6, Zenon DEF FaultInv

LEMMA DeallocFaults ==
  ASSUME GwpInv, FaultInv, NEW t \in Threads, DeallocateRecord(t), ~meta[slot[t]].IsDeallocated
  PROVE  FaultInv'
<1>s. Calls(t) \/ Locks(t) \/ Steps(t)
  BY Zenon DEF Locks
<1>i. TypeOK /\ NamedInv
  BY Zenon DEF GwpInv, FaultInv
<1>t. meta \in MetaType /\ slot[t] \in Slots /\ pc \in [Threads -> PCs] /\ TRUE \in BOOLEAN
  BY <1>i, Zenon DEF TypeOK, MetaType
<1>1. /\ UNCHANGED faults /\ live' = live /\ pc'[t] = "d_trace"
      /\ meta' = [meta EXCEPT ![slot[t]].IsDeallocated = TRUE]
  BY <1>t, ZenonT(60) DEF DeallocateRecord, program
<1>2. /\ \A s \in Slots : s # slot[t] => meta'[s] = meta[s]
      /\ meta'[slot[t]].Addr = meta[slot[t]].Addr /\ meta'[slot[t]].IsDeallocated
  BY <1>1, <1>t, SetMark, Zenon
<1>3. Named(t)'
  BY <1>1, ZenonT(60) DEF Named
<1>4. \A s \in Slots : Marked(s) => meta'[s].IsDeallocated
  BY <1>2, Zenon DEF Marked
<1>5. \A s \in Slots : meta[s].Addr # 0 => meta'[s].Addr # 0
  BY <1>2, Zenon
<1>6. FaultType' /\ TrapInv' /\ StuckInv' /\ FaultsExplained'
  BY <1>s, <1>1, <1>4, <1>5, FaultsKeep, ZenonT(60)
<1>7. NamedInv'
  BY <1>s, <1>i, <1>1, <1>3, <1>5, NamesKeep, ZenonT(60)
<1> QED BY <1>6, <1>7, Zenon DEF FaultInv

\* What FaultsExplained says of one thread, and a step that changes its fault.
FaultRecord == [by : Kinds, at : Int, of : Slots, reused : BOOLEAN, report : Errors]
Explained(t) ==
  pc[t] = "reported" =>
    /\ fault[t].by \in {"INVALID_FREE", "DOUBLE_FREE"} => fault[t].report = fault[t].by
    /\ failure = NoFailure =>
         /\ fault[t].by = "freed" =>
              fault[t].report = "USE_AFTER_FREE" \/ (fault[t].reused /\ fault[t].report = "UNKNOWN")
         /\ fault[t].by = "past" => fault[t].report = "BUFFER_OVERFLOW" /\ getNearestSlot(fault[t].at) = fault[t].of
         /\ fault[t].by = "before" => fault[t].report = "BUFFER_UNDERFLOW" /\ getNearestSlot(fault[t].at) = fault[t].of

LEMMA OneFault ==
  ASSUME GwpInv, FaultInv, NEW t \in Threads, Calls(t) \/ Locks(t) \/ Steps(t),
         fault' \in [Threads -> FaultRecord], \A u \in Threads : u # t => fault'[u] = fault[u],
         failure' \in [type : Errors, addr : Nat],
         failure' = failure \/ (poolMutex = NoThread /\ failure' # NoFailure),
         meta' = meta, live' = live, pc'[t] \in {"faulted", "reported"},
         Trapped(t)' => poolMutex' = t /\ failure'.type = fault'[t].by /\ failure'.addr # 0,
         Stuck(t)' /\ fault'[t].by = "freed" => FreedFault(fault[t])',
         Stuck(t)' /\ fault'[t].by \in {"past", "before"} => EdgeFault(fault[t])',
         Explained(t)'
  PROVE  FaultInv'
<1>i. FaultType /\ NamedInv /\ TrapInv /\ StuckInv /\ FaultsExplained
  BY Zenon DEF FaultInv
<1>m. \A u \in Threads : u # t => pc'[u] = pc[u] /\ slot'[u] = slot[u]
  BY Moves, Zenon DEF GwpInv
<1>1. FaultType'
  BY Zenon DEF FaultType, FaultRecord
<1>2. NamedInv'
  <2>1. Named(t)'
    BY ZenonT(60) DEF Named
  <2> QED BY <2>1, <1>i, NamesKeep, ZenonT(60)
<1>3. ASSUME NEW u \in Threads, Trapped(u)'
      PROVE  poolMutex' = u /\ failure'.type = fault'[u].by /\ failure'.addr # 0
  <2>1. CASE u # t
    <3>1. Trapped(u) /\ pc[u] \in {"faulted", "reporting", "reported"}
      BY <1>3, <2>1, <1>m, Zenon DEF Trapped
    <3>2. poolMutex = u /\ failure.type = fault[u].by /\ failure.addr # 0
      BY <3>1, <1>i, Zenon DEF TrapInv
    <3>3. failure' = failure
      BY <3>2, ConstantsAssumption, Zenon
    <3>4. poolMutex' = u
      BY <3>1, <3>2, PoolStays, Zenon
    <3> QED BY <3>2, <3>3, <3>4, <2>1, Zenon
  <2> QED BY <2>1, <1>3, Zenon
<1>4. \A s \in Slots : Marked(s) => Marked(s)'
  BY <1>m, ZenonT(60) DEF Marked
<1>5. ASSUME NEW u \in Threads, Stuck(u)'
      PROVE  /\ fault'[u].by = "freed" => FreedFault(fault[u])'
             /\ fault'[u].by \in {"past", "before"} => EdgeFault(fault[u])'
  <2>1. CASE u # t
    <3>1. Stuck(u) /\ fault'[u] = fault[u]
      BY <1>5, <2>1, <1>m, Zenon DEF Stuck
    <3>2. fault[u].of \in Slots
      BY <1>i, SMTT(60) DEF FaultType
    <3>3. /\ fault[u].by = "freed" => FreedFault(fault[u])
          /\ fault[u].by \in {"past", "before"} => EdgeFault(fault[u])
      BY <3>1, <1>i, Zenon DEF StuckInv
    <3>4. fault[u].by = "freed" => FreedFault(fault[u])'
      BY <3>1, <3>2, <3>3, <1>4, Zenon DEF FreedFault
    <3>5. fault[u].by \in {"past", "before"} => EdgeFault(fault[u])'
      BY <3>1, <3>2, <3>3, Zenon DEF EdgeFault
    <3> QED BY <3>1, <3>4, <3>5, Zenon
  <2> QED BY <2>1, <1>5, Zenon
<1>6. ASSUME NEW u \in Threads PROVE Explained(u)'
  <2>1. CASE u # t
    <3>1. Explained(u)
      BY <1>i, Zenon DEF FaultsExplained, Explained
    <3>2. fault'[u] = fault[u] /\ pc'[u] = pc[u] /\ (failure' = NoFailure => failure = NoFailure)
      BY <2>1, <1>m, Zenon
    <3> QED BY <3>1, <3>2, Zenon DEF Explained
  <2> QED BY <2>1, Zenon
<1>7. TrapInv' /\ StuckInv'
  BY <1>3, <1>5, Zenon DEF TrapInv, StuckInv
<1>8. FaultsExplained'
  BY <1>6, Zenon DEF FaultsExplained, Explained
<1> QED BY <1>1, <1>2, <1>7, <1>8, Zenon DEF FaultInv

LEMMA FaultMade ==
  ASSUME FaultType, NEW t \in Threads, NEW kind \in Kinds, NEW a \in Int, NEW s \in Slots, Faults(t, kind, a, s)
  PROVE  /\ fault' \in [Threads -> FaultRecord]
         /\ \A u \in Threads : u # t => fault'[u] = fault[u]
         /\ fault'[t].by = kind /\ fault'[t].at = a /\ fault'[t].of = s
<1> DEFINE f == [by |-> kind, at |-> a, of |-> s, reused |-> FALSE, report |-> "none"]
<1>1. f \in FaultRecord /\ f.by = kind /\ f.at = a /\ f.of = s
  <2>1. "none" \in Errors /\ FALSE \in BOOLEAN
    BY SMT DEF Errors
  <2>2. f.by = kind /\ f.at = a /\ f.of = s
    BY SMTT(60)
  <2>3. f \in FaultRecord
    BY <2>1, ZenonT(60) DEF FaultRecord
  <2> QED BY <2>2, <2>3, Zenon
<1>2. fault' = [fault EXCEPT ![t] = f] /\ fault \in [Threads -> FaultRecord]
  BY Zenon DEF Faults, FaultType, FaultRecord
<1> HIDE DEF f
<1> QED BY <1>1, <1>2, Zenon

LEMMA TrapFaults ==
  ASSUME GwpInv, FaultInv, NEW t \in Threads,
         DeallocateTrapWild(t) \/ (DeallocateRecord(t) /\ meta[slot[t]].IsDeallocated)
  PROVE  FaultInv'
<1>s. Calls(t) \/ Locks(t) \/ Steps(t)
  BY Zenon DEF Locks
<1>i. TypeOK /\ NamedInv /\ FaultType
  BY Zenon DEF GwpInv, FaultInv
<1>t. slot[t] \in Slots /\ ptr[t] \in Nat /\ pc \in [Threads -> PCs]
  BY <1>i, Zenon DEF TypeOK
<1>1. PICK e \in {"INVALID_FREE", "DOUBLE_FREE"} :
        trapOnAddress(t, e) /\ Lock(poolMutex, t) /\ meta' = meta /\ live' = live /\ pc[t] \in {"d_wild", "d_record"}
  BY ZenonT(60) DEF DeallocateTrapWild, DeallocateRecord, mem, program
<1>2. e \in Kinds /\ e \in Errors /\ 0 \in Int
  BY <1>1, SMT DEF Kinds, Errors
<1>3. Faults(t, e, 0, slot[t]) /\ failure' = [type |-> e, addr |-> ptr[t]] /\ pc'[t] = "faulted"
  BY <1>1, <1>t, Zenon DEF trapOnAddress
<1>4. /\ fault' \in [Threads -> FaultRecord] /\ \A u \in Threads : u # t => fault'[u] = fault[u]
      /\ fault'[t].by = e
  BY <1>2, <1>3, <1>t, <1>i, FaultMade, Zenon
<1>5. ptr[t] # 0
  BY <1>1, <1>i, Zenon DEF NamedInv, Named
<1>6. /\ failure' \in [type : Errors, addr : Nat] /\ failure'.type = e /\ failure'.addr # 0
      /\ failure' # NoFailure
  BY <1>2, <1>3, <1>5, <1>t, SMTT(60) DEF NoFailure
<1>7. poolMutex = NoThread /\ poolMutex' = t
  BY <1>1, Zenon DEF Lock
<1>8. fault'[t].by \notin {"freed", "past", "before"}
  BY <1>1, <1>4, Zenon
<1>9. Explained(t)'
  BY <1>3, Zenon DEF Explained
<1> QED BY <1>s, <1>1, <1>3, <1>4, <1>6, <1>7, <1>8, <1>9, OneFault, ZenonT(60)

\* A slot that was freed and is not mapped is marked.
LEMMA StaleMarked ==
  ASSUME GwpInv, NEW p \in stale, getNearestSlot(p) \notin writable
  PROVE  Marked(getNearestSlot(p))
<1> DEFINE s == getNearestSlot(p)
<1>i. TypeOK /\ AddrInv /\ TokenInv /\ MapInv
  BY Zenon DEF GwpInv
<1>1. s \in Slots /\ s < numSampled /\ numSampled \in 0 .. MaxSimultaneousAllocations
  BY <1>i, ZenonT(60) DEF TypeOK, AddrInv, StaleAddrs, InSlot
<1>2. ~Untouched(s)
  BY ZenonT(60) DEF Untouched
<1> HIDE DEF s
<1>3. ~(s >= numSampled)
  BY <1>1, Pages, SMTT(60) DEF Slots
<1>4. meta[s].IsDeallocated \/ \E t \in Threads : pc[t] = "a_map" /\ slot[t] = s
  BY <1>1, <1>3, <1>i, ZenonT(60) DEF MapInv, Accessible, s
<1>5. ASSUME NEW t \in Threads, pc[t] = "a_map", slot[t] = s PROVE meta[s].IsDeallocated
  BY <1>5, <1>2, <1>i, ZenonT(60) DEF TokenInv, FillingMarked, Filling
<1>6. \A u \in Threads : pc[u] \in {"a_addr", "a_size", "a_fresh"} => slot[u] # s
  BY <1>i, ZenonT(60) DEF MapInv, FillingMapped, s
<1> QED BY <1>4, <1>5, <1>6, ZenonT(60) DEF Marked, s

LEMMA TouchFaults ==
  ASSUME GwpInv, FaultInv, NEW t \in Threads, Touch(t)
  PROVE  FaultInv'
<1>s. Calls(t) \/ Locks(t) \/ Steps(t)
  BY Zenon DEF Calls
<1>i. TypeOK /\ AddrInv /\ NamedInv /\ FaultType
  BY Zenon DEF GwpInv, FaultInv
<1>t. pc \in [Threads -> PCs] /\ live \subseteq [p : Nat, sz : Nat] /\ stale \subseteq Nat
  BY <1>i, Zenon DEF TypeOK
<1>1. meta' = meta /\ live' = live /\ failure' = failure /\ slot' = slot /\ pc[t] = "idle" /\ pc'[t] = "faulted"
  BY <1>t, Zenon DEF Touch, Goto, mem, locals
<1>m. \A u \in Threads : u # t => pc'[u] = pc[u]
  BY <1>s, <1>i, Moves, Zenon
<1>2. \A s \in Slots : Marked(s) => Marked(s)'
  BY <1>1, <1>m, ZenonT(60) DEF Marked
<1>3. Explained(t)' /\ failure' \in [type : Errors, addr : Nat]
  BY <1>1, <1>i, Zenon DEF Explained, FaultType
<1>k. "freed" \in Kinds /\ "past" \in Kinds /\ "before" \in Kinds
  BY SMT DEF Kinds
<1>4. ASSUME NEW p \in stale, getNearestSlot(p) \notin writable, Faults(t, "freed", p, getNearestSlot(p))
      PROVE  FaultInv'
  <2>1. p \in Nat /\ InSlot(p, getNearestSlot(p)) /\ getNearestSlot(p) \in Slots
    BY <1>t, <1>i, Zenon DEF AddrInv, StaleAddrs, InSlot
  <2>2. p \in Int
    BY <2>1, SMT
  <2>3. /\ fault' \in [Threads -> FaultRecord] /\ \A u \in Threads : u # t => fault'[u] = fault[u]
        /\ fault'[t].by = "freed" /\ fault'[t].at = p /\ fault'[t].of = getNearestSlot(p)
    BY <1>4, <2>1, <2>2, <1>k, <1>i, FaultMade, Zenon
  <2>4. Marked(getNearestSlot(p))'
    BY <1>4, <2>1, <1>2, StaleMarked, Zenon
  <2>5. FreedFault(fault[t])'
    BY <2>1, <2>3, <2>4, Zenon DEF FreedFault
  <2>6. ~Trapped(t)' /\ fault'[t].by \notin {"past", "before"}
    BY <2>3, Zenon DEF Trapped
  <2> QED BY <1>s, <1>1, <1>3, <2>3, <2>5, <2>6, OneFault, ZenonT(60)
<1>5. ASSUME NEW h \in live, NEW a, NEW kind \in {"past", "before"}, Faults(t, kind, a, getNearestSlot(h.p)),
             kind = "past" => a = slotToAddr(getNearestSlot(h.p)) + PageSize,
             kind = "before" => a = slotToAddr(getNearestSlot(h.p)) - 1
      PROVE  FaultInv'
  <2> DEFINE s == getNearestSlot(h.p)
  <2>1. s \in Slots /\ meta[s].Addr # 0 /\ kind \in Kinds
    BY <1>i, <1>k, Zenon DEF AddrInv, LiveAddrs, Fits, InSlot, NamedInv
  <2> HIDE DEF s
  <2>2. a \in Int
    <3>1. slotToAddr(s) \in Nat
      BY <2>1, SlotFacts, Zenon
    <3>2. a = slotToAddr(s) + PageSize \/ a = slotToAddr(s) - 1
      BY <1>5, Zenon DEF s
    <3> QED BY <3>1, <3>2, Pages, SMTT(60)
  <2>3. /\ fault' \in [Threads -> FaultRecord] /\ \A u \in Threads : u # t => fault'[u] = fault[u]
        /\ fault'[t].by = kind /\ fault'[t].at = a /\ fault'[t].of = s
    <3>1. Faults(t, kind, a, s)
      BY <1>5, Zenon DEF s
    <3> QED BY <3>1, <2>1, <2>2, <1>i, FaultMade, ZenonT(60)
  <2>4. EdgeFault(fault[t])'
    BY <1>5, <2>1, <2>3, <1>1, Zenon DEF EdgeFault, s
  <2>5. ~Trapped(t)' /\ fault'[t].by # "freed"
    BY <1>5, <2>3, Zenon DEF Trapped
  <2> QED BY <1>s, <1>1, <1>3, <2>3, <2>4, <2>5, OneFault, ZenonT(60)
<1>6. ASSUME NEW h \in live, NEW s \in Slots, h.p = slotToAddr(s) PROVE h.p - 1 = slotToAddr(s) - 1
  BY <1>6, Zenon
<1>7. CASE \E p \in stale : getNearestSlot(p) \notin writable /\ Faults(t, "freed", p, getNearestSlot(p))
  BY <1>7, <1>4, Zenon
<1>8. CASE \E h \in live : /\ h.p + h.sz = slotToAddr(getNearestSlot(h.p)) + PageSize
                           /\ Faults(t, "past", h.p + h.sz, getNearestSlot(h.p))
  <2>1. PICK h \in live : /\ h.p + h.sz = slotToAddr(getNearestSlot(h.p)) + PageSize
                          /\ Faults(t, "past", h.p + h.sz, getNearestSlot(h.p))
    BY <1>8, Zenon
  <2>2. "past" \in {"past", "before"} /\ "past" # "before"
    BY SMT
  <2> QED BY <2>1, <2>2, <1>5, Zenon
<1>9. CASE \E h \in live : h.p = slotToAddr(getNearestSlot(h.p)) /\ Faults(t, "before", h.p - 1, getNearestSlot(h.p))
  <2>1. PICK h \in live : h.p = slotToAddr(getNearestSlot(h.p)) /\ Faults(t, "before", h.p - 1, getNearestSlot(h.p))
    BY <1>9, Zenon
  <2>2. "before" \in {"past", "before"} /\ "past" # "before"
    BY SMT
  <2>3. h.p - 1 = slotToAddr(getNearestSlot(h.p)) - 1
    BY <2>1, Zenon
  <2> QED BY <2>1, <2>2, <2>3, <1>5, Zenon
<1> QED BY <1>7, <1>8, <1>9, ZenonT(60) DEF Touch, Touched

\* dumpReport: the handler tells each kind of fault from the metadata it finds.
LEMMA ReportFaults ==
  ASSUME GwpInv, FaultInv, NEW t \in Threads, dumpReport(t)
  PROVE  FaultInv'
<1>s. Calls(t) \/ Locks(t) \/ Steps(t)
  BY Zenon DEF Steps
<1>i. TypeOK /\ AddrInv /\ FaultType /\ TrapInv /\ StuckInv
  BY Zenon DEF GwpInv, FaultInv
<1> DEFINE d == diagnose_error(ErrorPtr(t))
           f == fault[t]
<1>t. pc \in [Threads -> PCs] /\ f \in FaultRecord /\ failure.type \in Errors /\ failure \in [type : Errors, addr : Nat]
  <2>1. failure \in [type : Errors, addr : Nat] /\ fault \in [Threads -> FaultRecord] /\ pc \in [Threads -> PCs]
    BY <1>i, Zenon DEF TypeOK, FaultType, FaultRecord
  <2>2. failure.type \in Errors
    BY <2>1, SMTT(60)
  <2> QED BY <2>1, <2>2, Zenon
<1>1. /\ meta' = meta /\ live' = live /\ failure' = failure /\ poolMutex' = poolMutex
      /\ pc[t] = "reporting" /\ pc'[t] = "reported"
      /\ fault' = [fault EXCEPT ![t].report = d]
  BY <1>t, Zenon DEF dumpReport, Goto, mem, locks, program
<1>2. d \in Errors
  <2>1. {"UNKNOWN", "USE_AFTER_FREE", "BUFFER_OVERFLOW", "BUFFER_UNDERFLOW"} \subseteq Errors
    BY SMT DEF Errors
  <2> QED BY <2>1, <1>t, ZenonT(60) DEF diagnose_error
<1>o. f.of \in Slots /\ f.at \in Int
  BY <1>t, SMTT(60) DEF FaultRecord
<1>3. ASSUME f.by \in {"INVALID_FREE", "DOUBLE_FREE"} PROVE d = f.by
  <2>1. failure.type = f.by /\ failure.addr # 0 /\ poolMutex = t
    BY <1>3, <1>1, <1>i, Zenon DEF Trapped, TrapInv
  <2>2. failure.type # "UNKNOWN"
    BY <1>3, <2>1, Zenon
  <2>3. d = f.by
    BY <2>1, <2>2, Zenon DEF diagnose_error, error_is_mine
  <2> QED BY <2>3, Zenon
<1>4. ASSUME failure = NoFailure PROVE ErrorPtr(t) = f.at /\ failure.type = "UNKNOWN"
  <2>1. failure.addr = 0 /\ failure.type = "UNKNOWN"
    BY <1>4, SMTT(60) DEF NoFailure
  <2> QED BY <2>1, Zenon DEF ErrorPtr
<1>5. ASSUME failure = NoFailure, f.by = "freed" PROVE d = "USE_AFTER_FREE" \/ (f.reused /\ d = "UNKNOWN")
  <2>1. InSlot(f.at, f.of) /\ f.at \in Nat /\ (f.reused \/ Marked(f.of))
    BY <1>5, <1>1, <1>i, Zenon DEF StuckInv, Stuck, FreedFault
  <2>2. getNearestSlot(f.at) = f.of /\ ~isGuardPage(f.at) /\ f.at \in Addresses
    BY <2>1, Nearest, Zenon
  <2>3. d = IF meta[f.of].IsDeallocated THEN "USE_AFTER_FREE" ELSE "UNKNOWN"
    BY <2>2, <1>4, <1>5, Zenon DEF diagnose_error, error_is_mine
  <2> QED BY <2>1, <2>3, Zenon DEF Marked
<1>6. ASSUME failure = NoFailure, f.by \in {"past", "before"}
      PROVE  /\ getNearestSlot(f.at) = f.of
             /\ d = IF f.by = "past" THEN "BUFFER_OVERFLOW" ELSE "BUFFER_UNDERFLOW"
  <2> DEFINE b == slotToAddr(f.of)
             m == meta[f.of].Addr
  <2>1. /\ m # 0
        /\ f.by = "past" => f.at = b + PageSize
        /\ f.by = "before" => f.at = b - 1
    BY <1>6, <1>1, <1>i, Zenon DEF StuckInv, Stuck, EdgeFault
  <2>2. f.at \in {b + PageSize, b - 1}
    BY <2>1, <1>6, Zenon
  <2>3. getNearestSlot(f.at) = f.of /\ isGuardPage(f.at) /\ f.at \in Addresses
    BY <2>2, <1>o, Around, Zenon
  <2>4. b <= m /\ m < b + PageSize
    BY <2>1, <1>o, <1>i, Zenon DEF AddrInv, MetaAddrs, InSlot
  <2>5. b \in Nat
    BY <1>o, SlotFacts, Zenon
  <2>6. m \in Nat
    <3>1. meta[f.of] \in [Addr : Nat, RequestedSize : Nat, IsDeallocated : BOOLEAN]
      BY <1>o, <1>i, Zenon DEF TypeOK
    <3> QED BY <3>1, SMTT(60)
  <2>7. d = IF m < f.at THEN "BUFFER_OVERFLOW" ELSE "BUFFER_UNDERFLOW"
    BY <2>1, <2>3, <1>4, <1>6, Zenon DEF diagnose_error, error_is_mine
  <2>8. f.by = "past" => m < f.at
    BY <2>1, <2>4, Zenon
  <2> HIDE DEF m, b
  <2>9. ~(m < b - 1)
    BY <2>4, <2>5, <2>6, SMTT(60)
  <2>10. f.by = "before" => ~(m < f.at)
    BY <2>1, <2>9, Zenon
  <2> QED BY <2>3, <2>7, <2>8, <2>10, <1>6, ZenonT(60) DEF m
<1>7. /\ fault' \in [Threads -> FaultRecord] /\ \A u \in Threads : u # t => fault'[u] = fault[u]
      /\ fault'[t].by = f.by /\ fault'[t].at = f.at /\ fault'[t].of = f.of
      /\ fault'[t].reused = f.reused /\ fault'[t].report = d
  <2> DEFINE g == [f EXCEPT !.report = d]
  <2> HIDE DEF d
  <2>1. fault \in [Threads -> FaultRecord] /\ f \in FaultRecord
    BY <1>i, <1>t, Zenon DEF FaultType, FaultRecord
  <2> HIDE DEF f
  <2>2. g \in FaultRecord /\ g.by = f.by /\ g.at = f.at /\ g.of = f.of /\ g.reused = f.reused /\ g.report = d
    BY <2>1, <1>2, SMTT(60) DEF FaultRecord
  <2>3. fault' = [fault EXCEPT ![t] = g]
    BY <1>1, Zenon DEF f
  <2> HIDE DEF g
  <2>4. fault'[t] = g /\ (\A u \in Threads : u # t => fault'[u] = fault[u]) /\ fault' \in [Threads -> FaultRecord]
    BY <2>1, <2>2, <2>3, Zenon
  <2> QED BY <2>2, <2>4, Zenon
<1> HIDE DEF d
<1>8. Explained(t)'
  <2>1. fault'[t].by \in {"INVALID_FREE", "DOUBLE_FREE"} => fault'[t].report = fault'[t].by
    BY <1>3, <1>7, Zenon
  <2>2. failure' = NoFailure /\ fault'[t].by = "freed" =>
          fault'[t].report = "USE_AFTER_FREE" \/ (fault'[t].reused /\ fault'[t].report = "UNKNOWN")
    BY <1>1, <1>5, <1>7, Zenon
  <2>3. failure' = NoFailure /\ fault'[t].by = "past" =>
          fault'[t].report = "BUFFER_OVERFLOW" /\ getNearestSlot(fault'[t].at) = fault'[t].of
    BY <1>1, <1>6, <1>7, Zenon
  <2>4. failure' = NoFailure /\ fault'[t].by = "before" =>
          fault'[t].report = "BUFFER_UNDERFLOW" /\ getNearestSlot(fault'[t].at) = fault'[t].of
    <3>1. ASSUME f.by = "before" PROVE f.by # "past"
      BY <3>1, Zenon
    <3> QED BY <3>1, <1>1, <1>6, <1>7, Zenon
  <2> QED BY <2>1, <2>2, <2>3, <2>4, Zenon DEF Explained
<1>9. Trapped(t)' => poolMutex' = t /\ failure'.type = fault'[t].by /\ failure'.addr # 0
  <2>1. Trapped(t)' => Trapped(t)
    BY <1>1, <1>7, Zenon DEF Trapped
  <2> QED BY <2>1, <1>1, <1>7, <1>i, Zenon DEF TrapInv
<1>10. ~Stuck(t)'
  BY <1>1, Zenon DEF Stuck
<1> QED BY <1>s, <1>1, <1>t, <1>7, <1>8, <1>9, <1>10, OneFault, ZenonT(60)

\* A slot that is mapped again: its faults are known to be late.
LEMMA MapFaults ==
  ASSUME GwpInv, FaultInv, NEW t \in Threads, AllocateMap(t)
  PROVE  FaultInv'
<1>s. Calls(t) \/ Locks(t) \/ Steps(t)
  BY Zenon DEF Steps
<1>i. TypeOK /\ NamedInv /\ FaultType /\ TrapInv /\ StuckInv /\ FaultsExplained
  BY Zenon DEF GwpInv, FaultInv
<1>t. pc \in [Threads -> PCs] /\ slot[t] \in Slots /\ fault \in [Threads -> FaultRecord]
  BY <1>i, Zenon DEF TypeOK, FaultType, FaultRecord
<1>1. /\ meta' = meta /\ live' = live /\ failure' = failure /\ slot' = slot
      /\ pc[t] = "a_map" /\ pc'[t] = "a_addr"
  BY <1>t, Zenon DEF AllocateMap, Goto, mem, locks, program
<1>m. \A u \in Threads : u # t => pc'[u] = pc[u]
  BY <1>s, <1>i, Moves, Zenon
<1>2. ASSUME NEW u \in Threads
      PROVE  /\ fault'[u] \in FaultRecord
             /\ fault'[u].by = fault[u].by /\ fault'[u].at = fault[u].at /\ fault'[u].of = fault[u].of
             /\ fault'[u].report = fault[u].report
             /\ fault'[u].reused <=> fault[u].reused \/ (fault[u].by = "freed" /\ fault[u].of = slot[t])
  <2> DEFINE f == fault[u]
             b == f.reused \/ (f.by = "freed" /\ f.of = slot[t])
             g == [f EXCEPT !.reused = b]
  <2>1. fault'[u] = [fault[u] EXCEPT !.reused = fault[u].reused \/ (fault[u].by = "freed" /\ fault[u].of = slot[t])]
    BY Zenon DEF AllocateMap
  <2>2. fault'[u] = g /\ f \in FaultRecord /\ b \in BOOLEAN
    BY <2>1, <1>t, Zenon
  <2> HIDE DEF b
  <2>3. g \in FaultRecord /\ g.by = f.by /\ g.at = f.at /\ g.of = f.of /\ g.report = f.report /\ g.reused = b
    <3> HIDE DEF f
    <3> QED BY <2>2, SMTT(60) DEF FaultRecord
  <2> HIDE DEF g
  <2> QED BY <2>2, <2>3, Zenon DEF b
<1>3. FaultType'
  <2>1. fault' = [u \in Threads |-> fault'[u]]
    BY Zenon DEF AllocateMap
  <2>2. fault' \in [Threads -> FaultRecord]
    BY <2>1, <1>2, Zenon
  <2> QED BY <2>2, <1>1, <1>i, Zenon DEF FaultType, FaultRecord
<1>4. NamedInv'
  <2>1. Named(t)'
    BY <1>1, ZenonT(60) DEF Named
  <2> QED BY <2>1, <1>s, <1>1, <1>i, NamesKeep, ZenonT(60)
<1>5. TrapInv'
  <2> SUFFICES ASSUME NEW u \in Threads, Trapped(u)'
               PROVE  poolMutex' = u /\ failure'.type = fault'[u].by /\ failure'.addr # 0
    BY Zenon DEF TrapInv
  <2>1. Trapped(u) /\ pc[u] \in {"faulted", "reporting", "reported"}
    BY <1>1, <1>2, <1>m, ZenonT(60) DEF Trapped
  <2>2. poolMutex = u /\ failure.type = fault[u].by /\ failure.addr # 0
    BY <2>1, <1>i, Zenon DEF TrapInv
  <2>3. poolMutex' = u
    BY <2>1, <2>2, <1>s, PoolStays, Zenon
  <2> QED BY <2>2, <2>3, <1>1, <1>2, Zenon
<1>6. ASSUME NEW s \in Slots, s # slot[t], Marked(s) PROVE Marked(s)'
  BY <1>6, <1>1, <1>m, ZenonT(60) DEF Marked
<1>7. StuckInv'
  <2> SUFFICES ASSUME NEW u \in Threads, Stuck(u)'
               PROVE  /\ fault'[u].by = "freed" => FreedFault(fault[u])'
                      /\ fault'[u].by \in {"past", "before"} => EdgeFault(fault[u])'
    BY Zenon DEF StuckInv
  <2>1. Stuck(u)
    BY <1>1, <1>m, ZenonT(60) DEF Stuck
  <2>2. fault[u].of \in Slots
    BY <1>i, SMTT(60) DEF FaultType
  <2>3. /\ fault[u].by = "freed" => FreedFault(fault[u])
        /\ fault[u].by \in {"past", "before"} => EdgeFault(fault[u])
    BY <2>1, <1>i, Zenon DEF StuckInv
  <2>4. ASSUME fault[u].by = "freed" PROVE FreedFault(fault[u])'
    <3>1. InSlot(fault[u].at, fault[u].of) /\ fault[u].at \in Nat /\ (fault[u].reused \/ Marked(fault[u].of))
      BY <2>3, <2>4, Zenon DEF FreedFault
    <3>2. fault'[u].reused \/ Marked(fault[u].of)'
      BY <3>1, <2>2, <2>4, <1>2, <1>6, Zenon
    <3> QED BY <3>1, <3>2, <1>2, Zenon DEF FreedFault
  <2>5. fault[u].by \in {"past", "before"} => EdgeFault(fault[u])'
    BY <2>3, <1>1, <1>2, Zenon DEF EdgeFault
  <2> QED BY <2>4, <2>5, <1>2, Zenon
<1>8. ASSUME NEW u \in Threads PROVE Explained(u)'
  <2>1. Explained(u)
    BY <1>i, Zenon DEF FaultsExplained, Explained
  <2>2. pc'[u] = "reported" => pc[u] = "reported"
    BY <1>1, <1>m, Zenon
  <2> QED BY <2>1, <2>2, <1>1, <1>2, ZenonT(60) DEF Explained
<1>9. FaultsExplained'
  BY <1>8, Zenon DEF FaultsExplained, Explained
<1> QED BY <1>3, <1>4, <1>5, <1>7, <1>9, Zenon DEF FaultInv

LEMMA FaultInit ==
  ASSUME Init
  PROVE  FaultInv
<1>1. /\ failure = NoFailure /\ fault = [t \in Threads |-> NoFault] /\ pc = [t \in Threads |-> "idle"] /\ live = {}
  BY Zenon DEF Init
<1>2. NoFault \in FaultRecord /\ NoFailure \in [type : Errors, addr : Nat]
  BY Pages, SMTT(60) DEF NoFault, NoFailure, FaultRecord, Kinds, Errors, Slots
<1>3. \A t \in Threads : pc[t] = "idle"
  BY <1>1, Zenon
<1>4. FaultType
  BY <1>1, <1>2, Zenon DEF FaultType, FaultRecord
<1>5. NamedInv /\ TrapInv /\ StuckInv /\ FaultsExplained
  BY <1>1, <1>3, ZenonT(60) DEF NamedInv, Named, TrapInv, Trapped, StuckInv, Stuck, FaultsExplained
<1> QED BY <1>4, <1>5, Zenon DEF FaultInv

LEMMA FaultStutter ==
  ASSUME FaultInv, UNCHANGED vars
  PROVE  FaultInv'
<1>1. UNCHANGED <<poolMutex, meta, failure, fault, pc, slot, ptr, live>>
  BY Zenon DEF vars, locks, mem, faults, locals, program
<1>2. FaultType' /\ NamedInv' /\ TrapInv'
  BY <1>1, Zenon DEF FaultInv, FaultType, NamedInv, Named, TrapInv, Trapped
<1>3. StuckInv' /\ FaultsExplained'
  BY <1>1, Zenon DEF FaultInv, StuckInv, Stuck, FreedFault, EdgeFault, Marked, FaultsExplained
<1> QED BY <1>2, <1>3, Zenon DEF FaultInv

LEMMA FaultStep ==
  ASSUME GwpInv, FaultInv, [Next]_vars
  PROVE  FaultInv'
<1>1. CASE Over \/ UNCHANGED vars
  BY <1>1, FaultStutter, Zenon DEF Over
<1>2. ASSUME NEW t \in Threads, Calls(t) \/ Locks(t) \/ Steps(t) PROVE FaultInv'
  <2>1. CASE DeallocateRecord(t)
    BY <2>1, DeallocFaults, TrapFaults, Zenon
  <2>2. CASE ~DeallocateRecord(t)
    BY <1>2, <2>2, PlainFaults, RecordFaults, ReturnFaults, FreeingFaults, TrapFaults, TouchFaults, ReportFaults,
       MapFaults, ZenonT(60) DEF Calls, Locks, Steps, Plain
  <2> QED BY <2>1, <2>2, Zenon
<1> QED BY <1>1, <1>2, Zenon DEF Next

\* dumpReport, run by the handler of SIGSEGV some time after the fault and while other
\* threads go on: a use of freed memory is reported as one unless its slot was mapped again
\* in between, running off held memory is blamed on its slot on the right side whatever
\* became of it, and a bad free is reported as what it is.
THEOREM FaultsAreExplained == Spec => []FaultsExplained
<1>1. Init => FaultInv
  BY FaultInit, Zenon
<1>2. GwpInv /\ FaultInv /\ [Next]_vars => FaultInv'
  BY FaultStep, Zenon
<1>3. FaultInv => FaultsExplained
  BY Zenon DEF FaultInv
<1> QED BY <1>1, <1>2, <1>3, GwpInvariant, PTL DEF Spec

\* disable: while a thread has the pool disabled no call of allocate returns memory, also
\* one that reserved its slot before, because the last step is inside BacktraceMutex.
THEOREM DisabledHandsOutNothing == Spec => NothingHandedOutWhileDisabled
<1> DEFINE Kept == (\E t \in Threads : pc[t] = "disabled") => live' \subseteq live
<1>1. ASSUME GwpInv, [Next]_vars PROVE [Kept]_vars
  <2>1. CASE UNCHANGED vars
    BY <2>1, ZenonT(60)
  <2>2. CASE Over
    BY <2>2, ZenonT(60) DEF Over
  <2>3. ASSUME NEW t \in Threads, Calls(t) \/ Locks(t) \/ Steps(t) PROVE Kept
    <3>1. CASE AllocateReturn(t)
      <4>1. pc[t] = "a_unwind"
        BY <3>1, ZenonT(60) DEF AllocateReturn, Return, Goto
      <4>2. \A u \in Threads : pc[u] # "disabled"
        BY <4>1, <1>1, ZenonT(60) DEF GwpInv, MutexInv
      <4> QED BY <4>2, ZenonT(60)
    <3>2. CASE ~AllocateReturn(t)
      <4>1. ASSUME Calls(t) PROVE live' \subseteq live
        BY <4>1, ZenonT(60) DEF Calls, Allocate, Deallocate, DeallocateAgain, DeallocateWild, Touch, Disable
      <4>2. ASSUME Locks(t) PROVE live' = live
        BY <4>2, ZenonT(60) DEF Locks, AllocateReserve, AllocateTrace, DeallocateTrapWild, DeallocateRecord,
                           DeallocateTrace, freeSlot, DisableRest, program
      <4>3. ASSUME Steps(t) PROVE live' = live
        BY <3>2, <4>3, ZenonT(60) DEF Steps, AllocateMap, RecordAllocation, DeallocateUnlock, DeallocateUnmap,
                                 Enable, stop, dumpReport, program
      <4> QED BY <2>3, <4>1, <4>2, <4>3, ZenonT(60)
    <3> QED BY <3>1, <3>2, ZenonT(60)
  <2> QED BY <1>1, <2>1, <2>2, <2>3, ZenonT(60) DEF Next
<1> QED BY <1>1, GwpInvariant, PTL DEF Spec, NothingHandedOutWhileDisabled
=============================================================================

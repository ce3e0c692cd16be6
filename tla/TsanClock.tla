------------------------------ MODULE TsanClock -----------------------------
(***************************************************************************)
(* The vector clocks of the race detector (lib/tsan/rtl/tsan_clock.cpp and *)
(* the callers in tsan_rtl_mutex.cpp): ThreadClock, SyncClock and the      *)
(* shortcuts that make most operations O(1): elements flagged as acquired, *)
(* dirty elements beside the table, tables shared by reference count, and  *)
(* a table cached by the thread that stored it last.                       *)
(*                                                                         *)
(* The comment at the top of tsan_clock.cpp gives the simple model the     *)
(* code conforms to; tref and sref are that model, run beside the code.    *)
(* A table is a function over all thread indices: its two levels of blocks *)
(* are a layout.  Operations on one clock are serialised by its mutex; a   *)
(* global acquire takes no such mutex and reads the time of threads that   *)
(* may be in the middle of an operation.                                   *)
(***************************************************************************)
EXTENDS Naturals, Sequences, FiniteSetsExt

CONSTANTS
  N,         \* thread indices are 0 .. N - 1
  Syncs,     \* sync objects
  NoSync,    \* no sync object
  Bounds     \* what may happen, and how often: records with the fields
             \*   ops      operations on sync objects that threads use
             \*   acquirers  threads that acquire from sync objects
             \*   globals  threads that do a global acquire, once
             \*   ticks    increments of the threads' times, together
             \*   each     increments of the time of one thread
             \*   reuse    reuses of a thread index

ASSUME SizesOK == N \in Nat \ {0} /\ IsFiniteSet(Syncs) /\ NoSync \notin Syncs

VARIABLES
  bound,  \* the member of Bounds that holds
  epoch,  \* fast_state.epoch() of a running thread, epoch1 of another one
  run,    \* the threads that run
  at,     \* the sync object whose mutex a releasing thread holds, or NoSync
  thr,    \* ThreadClock of each thread
  sync,   \* SyncClock of each object
  heap,   \* the clock tables, with their reference counts
  glob,   \* the AcquireGlobal that is running: who, and the next thread to visit
  globs,  \* who did one
  tref, sref

clocks == <<thr, sync, heap>>
vars == <<bound, epoch, run, at, clocks, glob, globs, tref, sref>>

Tids == 0 .. N - 1
kInvalidTid == N
kDirtyTids == 1 .. 2
Blocks == 1 .. N + Cardinality(Syncs)   \* each is in use by a clock or a cache

NoDirty == [tid |-> kInvalidTid, epoch |-> 0]
ZeroElems == [i \in Tids |-> [epoch |-> 0, reused |-> 0]]
FreeBlock == [ref |-> 0, elem |-> ZeroElems]
MaxOf(a, b) == IF a < b THEN b ELSE a

ResetImpl == [tab |-> 0, size |-> 0, rsTid |-> kInvalidTid, rsReused |-> 0, dirty |-> [i \in kDirtyTids |-> NoDirty]]

ThreadClock(t, reused, now) ==
  [tid |-> t, reused |-> reused + 1, last |-> 0, global |-> 0, cached |-> 0, csize |-> 0,
   nclk |-> t + 1, clk |-> [i \in Tids |-> IF i = t THEN now ELSE 0]]

Init ==
  /\ bound \in Bounds
  /\ epoch = [t \in Tids |-> 1] /\ run = Tids /\ at = [t \in Tids |-> NoSync]
  /\ thr = [t \in Tids |-> ThreadClock(t, 0, 1)]
  /\ sync = [s \in Syncs |-> ResetImpl]
  /\ heap = [b \in Blocks |-> FreeBlock]
  /\ glob = <<>> /\ globs = {}
  /\ tref = [t \in Tids |-> thr[t].clk]
  /\ sref = [s \in Syncs |-> [i \in Tids |-> 0]]
-----------------------------------------------------------------------------
(* The operations, on m = [t: a thread clock, s: a sync clock, h: the heap]. *)

UnrefClockBlock(h, b) ==
  IF h[b].ref = 1 THEN [h EXCEPT ![b] = FreeBlock] ELSE [h EXCEPT ![b].ref = @ - 1]

ResetCached(m) ==
  IF m.t.cached = 0 THEN m
  ELSE [m EXCEPT !.h = UnrefClockBlock(@, m.t.cached), !.t.cached = 0, !.t.csize = 0]

Alloc(h) == CHOOSE b \in Blocks : h[b].ref = 0
Elem(m, i) == m.h[m.s.tab].elem[i]
IsShared(m) == m.s.size # 0 /\ m.h[m.s.tab].ref > 1

Unshare(m) ==
  IF ~IsShared(m) THEN m
  ELSE LET b == Alloc(m.h) IN
       [m EXCEPT !.h = [UnrefClockBlock(@, m.s.tab) EXCEPT ![b] = [ref |-> 1, elem |-> m.h[m.s.tab].elem]],
                 !.s.tab = b]

Resize(m, n) ==
  LET u == Unshare(m)
      b == Alloc(u.h)
  IN IF u.s.size > 0 THEN [u EXCEPT !.s.size = n]
     ELSE [u EXCEPT !.s.size = n, !.s.tab = b, !.h[b] = [ref |-> 1, elem |-> ZeroElems]]

Grown(m) == IF m.s.size < m.t.nclk THEN Resize(m, m.t.nclk) ELSE m

DirtyOf(s, i) == {d \in {s.dirty[k] : k \in kDirtyTids} : d.tid = i}
Dirties(s) == {d \in {s.dirty[k] : k \in kDirtyTids} : d.tid # kInvalidTid}

\* The elements with the dirty ones in place.
Flushed(m) ==
  [i \in Tids |-> IF DirtyOf(m.s, i) = {} THEN Elem(m, i)
                  ELSE [Elem(m, i) EXCEPT !.epoch = (CHOOSE d \in DirtyOf(m.s, i) : TRUE).epoch]]
NoDirties == [k \in kDirtyTids |-> NoDirty]

\* A table that replaces the elements of m, which is not shared.
WithElems(m, el) == [m EXCEPT !.h[m.s.tab].elem = el]

\* Mutant: what another thread's global acquire took is trusted.
HasAcquiredOnly(m) == Elem(m, m.t.tid).epoch <= m.t.last

HasAcquiredAfterRelease(m) ==
  Elem(m, m.t.tid).epoch <= m.t.last \/ Elem(m, m.t.tid).epoch <= m.t.global

IsAlreadyAcquired(m) ==
  /\ Elem(m, m.t.tid).reused = m.t.reused
  /\ \A d \in Dirties(m.s) : m.t.clk[d.tid] >= d.epoch

\* Only this thread's element changes: a dirty slot if there is one.
UpdateCurrentThread(m) ==
  LET mine == {k \in kDirtyTids : m.s.dirty[k].tid \in {m.t.tid, kInvalidTid}}
      now == m.t.clk[m.t.tid]
      u == Unshare(m)
      el == [i \in Tids |-> [Flushed(u)[i] EXCEPT !.reused = IF i < u.s.size THEN 0 ELSE @,
                                                   !.epoch = IF i = m.t.tid THEN now ELSE @]]
  IN IF mine # {} THEN [m EXCEPT !.s.dirty[Min(mine)] = [tid |-> m.t.tid, epoch |-> now]]
     ELSE [WithElems(u, el) EXCEPT !.s.dirty = NoDirties]

\* Mutant: the cached table is kept after an acquire.
AcquiredKeepsCache(m) == [m EXCEPT !.t.last = m.t.clk[m.t.tid]]

\* What a thread that took something from another one does.
Acquired(m) == ResetCached([m EXCEPT !.t.last = m.t.clk[m.t.tid]])

MustAcquire(m) == m.t.tid >= m.s.size \/ Elem(m, m.t.tid).reused # m.t.reused

acquire(m) ==
  LET own == m.t.tid
      dclk == [i \in Tids |-> IF DirtyOf(m.s, i) = {} THEN m.t.clk[i]
                              ELSE MaxOf(m.t.clk[i], (CHOOSE d \in DirtyOf(m.s, i) : TRUE).epoch)]
      full == MustAcquire(m)
      clk == [i \in Tids |-> IF full /\ i < m.s.size THEN MaxOf(dclk[i], Elem(m, i).epoch) ELSE dclk[i]]
      t1 == [m EXCEPT !.t.clk = clk, !.t.nclk = IF full THEN MaxOf(@, m.s.size) ELSE @]
      m1 == IF full /\ own < m.s.size THEN [t1 EXCEPT !.h[m.s.tab].elem[own].reused = m.t.reused] ELSE t1
  IN IF m.s.size = 0 THEN m
     ELSE IF clk # m.t.clk THEN Acquired(m1) ELSE m1

\* A sync object that is empty takes over the thread's cached table.
ReuseCached(m) ==
  LET own == m.t.tid IN
  [m EXCEPT !.s = [tab |-> m.t.cached, size |-> m.t.csize, rsTid |-> own, rsReused |-> m.t.reused,
                   dirty |-> [m.s.dirty EXCEPT ![1] = [tid |-> own, epoch |-> m.t.clk[own]]]],
            !.h[m.t.cached].elem[own].reused = m.t.reused,
            !.h[m.t.cached].ref = @ + 1]

Cachable(m) == m.s.size # 0 /\ Dirties(m.s) = {} /\ m.h[m.s.tab].ref = 1

ReleaseStore(m) ==
  LET g == Grown(m)
      own == m.t.tid
      u == Unshare(g)
      el == [i \in Tids |-> IF i >= u.s.size THEN Elem(u, i)
                            ELSE [epoch |-> m.t.clk[i], reused |-> IF i = own THEN m.t.reused ELSE 0]]
      w == [WithElems(u, el) EXCEPT !.s.dirty = NoDirties, !.s.rsTid = own, !.s.rsReused = m.t.reused]
  IN IF m.s.size = 0 /\ m.t.cached # 0 THEN ReuseCached(m)
     ELSE IF g.s.rsTid = own /\ g.s.rsReused = m.t.reused /\ ~HasAcquiredAfterRelease(g)
          THEN UpdateCurrentThread(g)
     ELSE IF w.t.cached = 0 /\ Cachable(w)
          THEN [w EXCEPT !.h[w.s.tab].ref = @ + 1, !.t.cached = w.s.tab, !.t.csize = w.s.size]
     ELSE w

release(m) ==
  LET g == Grown(m)
      own == m.t.tid
      fast == UpdateCurrentThread(g)
      u == Unshare(g)
      el == [i \in Tids |-> IF i >= u.s.size THEN Elem(u, i)
                            ELSE [epoch |-> MaxOf(Flushed(u)[i].epoch, m.t.clk[i]),
                                  reused |-> IF i = own /\ IsAlreadyAcquired(u) THEN m.t.reused ELSE 0]]
  IN IF m.s.size = 0 THEN ReleaseStore(m)
     ELSE IF ~HasAcquiredAfterRelease(g)
          THEN IF g.s.rsTid # own \/ g.s.rsReused # m.t.reused
               THEN [fast EXCEPT !.s.rsTid = kInvalidTid] ELSE fast
     ELSE [WithElems(u, el) EXCEPT !.s.dirty = NoDirties, !.s.rsTid = kInvalidTid, !.s.rsReused = 0]

releaseStoreAcquire(m) ==
  LET g == Grown([m EXCEPT !.t.nclk = MaxOf(@, m.s.size)])
      u == Unshare(g)
      clk == [i \in Tids |-> IF i < u.s.size THEN MaxOf(m.t.clk[i], Flushed(u)[i].epoch) ELSE m.t.clk[i]]
      el == [i \in Tids |-> IF i < u.s.size THEN [epoch |-> m.t.clk[i], reused |-> 0] ELSE Elem(u, i)]
      w == [WithElems(u, el) EXCEPT !.s.dirty = NoDirties, !.s.rsTid = kInvalidTid, !.s.rsReused = 0, !.t.clk = clk]
  IN IF m.s.size = 0 THEN ReleaseStore(m)
     ELSE IF clk # m.t.clk THEN Acquired(w) ELSE w

acq_rel(m) == ReleaseStore(acquire(m))
-----------------------------------------------------------------------------
(* The callers.  A thread that releases locks the sync object, increments  *)
(* its epoch and only then, in a step of its own, updates the clocks.      *)

\* ThreadClock::set: the clock catches up with the epoch.
State(t, s) == [t |-> [thr[t] EXCEPT !.clk[t] = epoch[t]], s |-> sync[s], h |-> heap]
Store(t, s, m) ==
  /\ thr' = [thr EXCEPT ![t] = m.t] /\ sync' = [sync EXCEPT ![s] = m.s] /\ heap' = m.h

Join(f, g) == [i \in Tids |-> MaxOf(f[i], g[i])]
SetRef(t) == [tref[t] EXCEPT ![t] = epoch[t]]
MayTick(t) ==
  /\ epoch[t] <= bound.each
  /\ MapThenSumSet(LAMBDA x : epoch[x] - 1, Tids) < bound.ticks
Busy(t) == glob # <<>> /\ glob[1] = t    \* in AcquireGlobal
\* Only a global acquire sees a thread between the two steps of a release: when
\* there is none, nothing comes between them.
Alone == bound.globals = {} => \A t \in Tids : at[t] = NoSync
Idle(t) == t \in run /\ ~Busy(t) /\ at[t] = NoSync /\ Alone
Free(s) == \A t \in Tids : at[t] # s

Acquire(t, s) ==
  /\ t \in bound.acquirers /\ Idle(t) /\ Free(s)
  /\ Store(t, s, acquire(State(t, s)))
  /\ tref' = [tref EXCEPT ![t] = Join(SetRef(t), sref[s])]
  /\ UNCHANGED <<bound, epoch, run, at, sref, glob, globs>>

IncrementEpoch(t, s) ==
  /\ Idle(t) /\ Free(s) /\ MayTick(t)
  /\ epoch' = [epoch EXCEPT ![t] = @ + 1]
  /\ at' = [at EXCEPT ![t] = s]
  /\ UNCHANGED <<bound, run, clocks, tref, sref, glob, globs>>

\* The other half: what op does with the clocks, and what the model does.
Releases(op, t, s, m, tnew, snew) ==
  /\ op \in bound.ops /\ at[t] = s
  /\ Store(t, s, m)
  /\ at' = [at EXCEPT ![t] = NoSync]
  /\ tref' = [tref EXCEPT ![t] = tnew]
  /\ sref' = [sref EXCEPT ![s] = snew]
  /\ UNCHANGED <<bound, epoch, run, glob, globs>>

Release(t, s) ==
  Releases("Release", t, s, release(State(t, s)), SetRef(t), Join(sref[s], SetRef(t)))

StoreRelease(t, s) ==
  Releases("StoreRelease", t, s, ReleaseStore(State(t, s)), SetRef(t), SetRef(t))

ReleaseStoreAcquire(t, s) ==
  Releases("ReleaseStoreAcquire", t, s, releaseStoreAcquire(State(t, s)),
           Join(SetRef(t), sref[s]), SetRef(t))

AcquireRelease(t, s) ==
  Releases("AcquireRelease", t, s, acq_rel(State(t, s)),
           Join(SetRef(t), sref[s]), Join(sref[s], SetRef(t)))

\* AcquireGlobal visits the threads one by one, under the registry's lock,
\* while they run.
BeginGlobal(t) ==
  /\ glob = <<>> /\ Idle(t) /\ t \in bound.globals \ globs
  /\ glob' = <<t, 0>> /\ globs' = globs \cup {t}
  /\ UNCHANGED <<bound, epoch, run, at, clocks, tref, sref>>

UpdateClockCallback ==
  /\ glob # <<>>
  /\ LET t == glob[1]
         x == glob[2]
         e == epoch[x]
         noted == IF x \in run THEN [thr EXCEPT ![x].global = e] ELSE thr
         set == [noted[t] EXCEPT !.clk[x] = e, !.nclk = MaxOf(@, x + 1)]
         m == Acquired([t |-> set, s |-> ResetImpl, h |-> heap])
     IN /\ thr' = [noted EXCEPT ![t] = m.t]
        /\ heap' = m.h
        /\ tref' = [tref EXCEPT ![t][x] = MaxOf(@, e)]
        /\ glob' = IF x = N - 1 THEN <<>> ELSE <<t, x + 1>>
  /\ UNCHANGED <<bound, epoch, run, at, sync, sref, globs>>

\* A thread ends and leaves its time behind; another one starts with its index
\* and a later time.  Both hold the registry's lock.  The thread is detached
\* and has no parent: the sync clock of its own, used by joins, stays empty.
OnFinished(t) ==
  /\ glob = <<>> /\ Idle(t) /\ thr[t].reused <= bound.reuse
  /\ run' = run \ {t}
  /\ LET m == ResetCached([t |-> thr[t], s |-> ResetImpl, h |-> heap]) IN
       thr' = [thr EXCEPT ![t] = m.t] /\ heap' = m.h
  /\ UNCHANGED <<bound, epoch, at, sync, tref, sref, glob, globs>>

OnStarted(t) ==
  /\ glob = <<>> /\ t \notin run /\ Alone /\ MayTick(t)
  /\ run' = run \cup {t}
  /\ epoch' = [epoch EXCEPT ![t] = @ + 1]
  /\ thr' = [thr EXCEPT ![t] = ThreadClock(t, @.reused, epoch'[t])]
  /\ tref' = [tref EXCEPT ![t] = ThreadClock(t, 0, epoch'[t]).clk]
  /\ UNCHANGED <<bound, at, sync, heap, sref, glob, globs>>

ResetSync(s) ==
  /\ "Reset" \in bound.ops /\ sync[s].size > 0 /\ Free(s) /\ Alone
  /\ heap' = UnrefClockBlock(heap, sync[s].tab)
  /\ sync' = [sync EXCEPT ![s] = ResetImpl]
  /\ sref' = [sref EXCEPT ![s] = [i \in Tids |-> 0]]
  /\ UNCHANGED <<bound, epoch, run, at, thr, tref, glob, globs>>

Next ==
  \/ \E t \in Tids, s \in Syncs :
       Acquire(t, s) \/ IncrementEpoch(t, s) \/ Release(t, s) \/ StoreRelease(t, s)
       \/ ReleaseStoreAcquire(t, s) \/ AcquireRelease(t, s)
  \/ \E t \in Tids : BeginGlobal(t) \/ OnFinished(t) \/ OnStarted(t)
  \/ UpdateClockCallback
  \/ \E s \in Syncs : ResetSync(s)

Spec == Init /\ [][Next]_vars
-----------------------------------------------------------------------------
\* SyncClock::get: a dirty element overrides the table.
Get(s, i) ==
  IF DirtyOf(sync[s], i) # {} THEN (CHOOSE d \in DirtyOf(sync[s], i) : TRUE).epoch
  ELSE IF i < sync[s].size THEN heap[sync[s].tab].elem[i].epoch ELSE 0

\* "Conformance to this model": whatever shortcuts were taken, every clock
\* holds what the simple model gives, so no ordering is lost or invented.
ClocksConform ==
  /\ \A t \in Tids : thr[t].clk = tref[t]
  /\ \A s \in Syncs, i \in Tids : Get(s, i) = sref[s][i]

\* A table lives exactly as long as clocks or caches refer to it, and counts
\* them; it is never freed under a reader.
RefsCounted ==
  \A b \in Blocks :
    heap[b].ref = Cardinality({s \in Syncs : sync[s].tab = b})
                  + Cardinality({t \in Tids : thr[t].cached = b})

\* What a thread's cached table says of other threads is what the thread
\* knows: storing it in an empty sync object loses nothing.
CacheIsCurrent ==
  \A t \in Tids : thr[t].cached # 0 =>
    \A i \in Tids \ {t} : heap[thr[t].cached].elem[i].epoch = thr[t].clk[i]

\* Tables may be shared and cached: they are neither freed nor kept too early
\* or too long, and a cached one is not out of date.
TablesSound == RefsCounted /\ CacheIsCurrent
=============================================================================

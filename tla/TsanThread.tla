----------------------------- MODULE TsanThread -----------------------------
(***************************************************************************)
(* Threads in the thread sanitizer: the interceptors of the pthread        *)
(* functions (tsan_interceptors_posix.cpp) and the runtime's side of a     *)
(* thread (tsan_rtl_thread.cpp), over the ThreadRegistry and the pthread   *)
(* library they wrap.                                                      *)
(*                                                                         *)
(* A slot is a pthread_t: the library recycles it when a detached thread   *)
(* exits, or a joinable one has exited and is joined or detached.  An      *)
(* interceptor calls the real function between two calls of the registry,  *)
(* and other threads run at each of these points.  sync, the clock by      *)
(* which a thread hands what happened before to another, is the set of     *)
(* the releases ("create", "finish") that it carries.                      *)
(***************************************************************************)
EXTENDS ThreadRegistry

CONSTANTS Slots   \* pthread_t values
Main == "main"
Actors == Slots \union {Main}
NoTid == MaxThreads   \* kInvalidTid

\* 0 in the place of a handle is no handle; the main thread has none.
ASSUME HandlesAssumption == 0 \notin Slots /\ Main \notin Slots

VARIABLES
  held,    \* handles the program may still join or detach
  os,      \* the library's view of a slot
  pc, arg, \* where an actor is in an interceptor; its slot, tid and operation
  tid,     \* the tid of the thread in a slot
  sync,    \* the releases a context's clock carries
  good     \* no acquire found its release missing, no leftover clock

vars == <<reg, held, os, pc, arg, tid, sync, good>>
NoArg == [slot |-> Main, tid |-> NoTid, op |-> "none"]

Init ==
  /\ reg = StartThread(CreateThread(Empty, 0, TRUE), MainTid) /\ held = {}
  /\ os = [s \in Slots |-> [state |-> "free", detached |-> FALSE]]
  /\ pc = [a \in Actors |-> IF a = Main THEN "user" ELSE "none"]
  /\ arg = [a \in Actors |-> NoArg]
  /\ tid = [s \in Slots |-> NoTid]
  /\ sync = [t \in 0..MaxThreads - 1 |-> {}]
  /\ good = TRUE

Goto(a, l) == pc' = [pc EXCEPT ![a] = l]
Return(a) == pc' = [pc EXCEPT ![a] = "user"] /\ arg' = [arg EXCEPT ![a] = NoArg]

\* OnDead and OnReset check that the clock is empty: of t, which may die, and
\* of the context that leaves the quarantine for it.
Clean(r, cs) == \A t \in DOMAIN r.threads : r.threads[t].status \in {"dead", "invalid"} => cs[t] = {}

Registry(r, cs) == reg' = r /\ sync' = cs /\ good' = (good /\ Clean(r, cs))

\* What the callbacks of a context do to its clock.
OnCreated(t) == [sync EXCEPT ![t] = @ \union {"create"}]
OnStarted(t) == [sync EXCEPT ![t] = {}]
OnFinished(t) ==
  IF reg.threads[t].detached THEN sync ELSE [sync EXCEPT ![t] = @ \union {"finish"}]
OnDetached(t) == [sync EXCEPT ![t] = {}]
OnJoined(t) == [sync EXCEPT ![t] = {}]
-----------------------------------------------------------------------------
(* pthread_create.                                                          *)

RealCreate(a, s, d) ==
  /\ pc[a] = "user" /\ os[s].state = "free" /\ pc[s] = "none"
  /\ reg.total < MaxCreated /\ CanCreate(reg)
  /\ \A b \in Actors : pc[b] # "create"   \* leaves room for MaxCreated
  /\ os' = [os EXCEPT ![s] = [state |-> "alive", detached |-> d]]
  /\ pc' = [pc EXCEPT ![a] = "create", ![s] = "begin"]
  /\ arg' = [arg EXCEPT ![a] = [NoArg EXCEPT !.slot = s]]
  /\ held' = IF d THEN held ELSE held \union {s}
  /\ UNCHANGED <<reg, tid, sync, good>>

ThreadCreate(a) ==
  LET s == arg[a].slot
      t == NextTid(reg) IN
  /\ pc[a] = "create"
  /\ Registry(CreateThread(reg, s, os[s].detached), OnCreated(t))
  /\ tid' = [tid EXCEPT ![s] = t]
  /\ Goto(a, "await")
  /\ UNCHANGED <<held, os, arg>>

\* Mutant: pthread_create waits to see the new thread run.
StartedRunning(s) == pc[s] = "user"

\* Mutant: pthread_create does not wait for the new thread.
StartedAlways(s) == TRUE

\* started.Wait
Started(s) == pc[s] # "begin"

Created(a) ==
  /\ pc[a] = "await" /\ Started(arg[a].slot)
  /\ Return(a)
  /\ UNCHANGED <<reg, held, os, tid, sync, good>>

\* __tsan_thread_start_func up to the callback; created.Wait is the first
\* conjunct.
ThreadStart(s) ==
  /\ pc[s] = "begin" /\ tid[s] # NoTid
  /\ reg' = StartThread(reg, tid[s])
  /\ good' = (good /\ "create" \in sync[tid[s]])
  /\ sync' = OnStarted(tid[s])
  /\ Goto(s, "user")
  /\ UNCHANGED <<held, os, arg, tid>>

\* thread_finalize, in the last round of the destructors.
ThreadFinish(s) ==
  /\ pc[s] = "user" /\ s \in Slots
  /\ Registry(FinishThread(reg, tid[s]), OnFinished(tid[s]))
  /\ Goto(s, "exit")
  /\ UNCHANGED <<held, os, arg, tid>>

\* The thread is gone: the library frees it, or keeps it for a join.
RealExit(s) ==
  /\ pc[s] = "exit"
  /\ os' = [os EXCEPT ![s].state = IF os[s].detached THEN "free" ELSE "zombie"]
  /\ Goto(s, "none")
  /\ tid' = [tid EXCEPT ![s] = NoTid]
  /\ UNCHANGED <<reg, held, arg, sync, good>>
-----------------------------------------------------------------------------
(* pthread_join, pthread_detach, pthread_tryjoin_np, pthread_timedjoin_np.  *)

Ops == {"join", "detach", "tryjoin"}

\* An actor may use a handle that nobody else joins or detaches: its own, or
\* one that pthread_create has returned.
MayUse(a, s, op) ==
  /\ pc[a] = "user" /\ s \in held
  /\ a = s => op = "detach"
  /\ a # s => \A b \in Actors : ~(pc[b] \in {"create", "await"} /\ arg[b].slot = s)

Matching(r, s) == {t \in DOMAIN r.threads : r.threads[t].user = s /\ r.threads[t].status # "invalid"}

\* ConsumeThreadByUid takes the handle away from the context that has it.
Consumed(r, s) ==
  [r EXCEPT !.threads = [t \in DOMAIN r.threads |->
     IF t \in Matching(r, s) THEN SetUserId(r.threads[t], 0) ELSE r.threads[t]]]

ThreadConsumeTid(a, s, op) ==
  /\ MayUse(a, s, op)
  /\ reg' = Consumed(reg, s)
  /\ arg' = [arg EXCEPT ![a] = [slot |-> s, op |-> op,
       tid |-> IF Matching(reg, s) = {} THEN NoTid ELSE CHOOSE t \in Matching(reg, s) : TRUE]]
  /\ held' = held \ {s}
  /\ Goto(a, "real")
  /\ UNCHANGED <<os, tid, sync, good>>

RealJoin(a) ==
  LET s == arg[a].slot IN
  /\ pc[a] = "real" /\ arg[a].op \in {"join", "tryjoin"} /\ os[s].state = "zombie"
  /\ os' = [os EXCEPT ![s].state = "free"]
  /\ Goto(a, "joined")
  /\ UNCHANGED <<reg, held, arg, tid, sync, good>>

\* The try fails, or its time is up.
NotJoined(a) ==
  /\ pc[a] = "real" /\ arg[a].op = "tryjoin" /\ os[arg[a].slot].state = "alive"
  /\ Goto(a, "notjoined")
  /\ UNCHANGED <<reg, held, os, arg, tid, sync, good>>

ThreadNotJoined(a) ==
  /\ pc[a] = "notjoined"
  /\ reg' = SetThreadUserId(reg, arg[a].tid, arg[a].slot)
  /\ held' = held \union {arg[a].slot}
  /\ Return(a)
  /\ UNCHANGED <<os, tid, sync, good>>

ThreadJoin(a) ==
  LET t == arg[a].tid IN
  /\ pc[a] = "joined" /\ JoinReady(reg, t)
  /\ reg' = JoinThread(reg, t)
  /\ sync' = OnJoined(t)
  /\ good' = (good /\ "finish" \in sync[t] /\ Clean(reg', sync'))
  /\ Return(a)
  /\ UNCHANGED <<held, os, tid>>

RealDetach(a) ==
  LET s == arg[a].slot IN
  /\ pc[a] = "real" /\ arg[a].op = "detach"
  /\ os' = [os EXCEPT ![s] = [state |-> IF @.state = "zombie" THEN "free" ELSE @.state, detached |-> TRUE]]
  /\ Goto(a, "detached")
  /\ UNCHANGED <<reg, held, arg, tid, sync, good>>

\* OnDetached empties the clock whatever the state of the thread.
ThreadDetach(a) ==
  /\ pc[a] = "detached"
  /\ Registry(DetachThread(reg, arg[a].tid), OnDetached(arg[a].tid))
  /\ Return(a)
  /\ UNCHANGED <<held, os, tid>>
-----------------------------------------------------------------------------
Step(a) ==
  \/ ThreadCreate(a) \/ Created(a) \/ RealJoin(a) \/ ThreadJoin(a)
  \/ RealDetach(a) \/ ThreadDetach(a) \/ NotJoined(a) \/ ThreadNotJoined(a)

Call(a) ==
  \/ \E s \in Slots, d \in BOOLEAN : RealCreate(a, s, d)
  \/ \E s \in Slots, op \in Ops : ThreadConsumeTid(a, s, op)

Next ==
  \/ \E a \in Actors : Step(a) \/ Call(a)
  \/ \E s \in Slots : ThreadStart(s) \/ ThreadFinish(s) \/ RealExit(s)

\* Threads inside the runtime are scheduled; those of the program need not end.
Fairness == (\A a \in Actors : WF_vars(Step(a))) /\ \A s \in Slots : WF_vars(ThreadStart(s))

Spec == Init /\ [][Next]_vars
FairSpec == Spec /\ Fairness
-----------------------------------------------------------------------------
\* A handle is in at most one live context, although the library recycles it
\* before the registry hears of the join: ConsumeThreadByUid never finds a
\* duplicate and dies.
HandlesUnique == \A s \in Slots : Cardinality(Matching(reg, s)) <= 1

\* A handle the program may use is known to the registry, from the moment its
\* thread runs: no join, detach or failed try ends up without its context.
HandlesKnown ==
  /\ \A s \in held : pc[s] # "begin" => Matching(reg, s) # {}
  /\ \A a \in Actors : pc[a] \in {"joined", "detached", "notjoined"} => arg[a].tid \in 1..MaxThreads - 1

\* The edges of happens-before are not lost: a thread acquires what its
\* creator released, a join what the thread released at its end, and no clock
\* is left over when a context dies or is recycled (the CHECKs of OnDead and
\* OnReset).
EdgesKept == good

\* A tid that an interceptor took from a handle still names its thread when the
\* interceptor comes back to the registry with it, although the library may
\* have recycled the handle: its context has not died, so was not reused.
TidKeepsThread ==
  \A a \in Actors :
    pc[a] \in {"real", "joined", "notjoined", "detached"} =>
      reg.threads[arg[a].tid].status \in {"created", "running", "finished"}

\* A handle leads to its thread, at the start of an interceptor and at its end.
HandlesResolve == HandlesUnique /\ HandlesKnown /\ TidKeepsThread

\* An interceptor that the library has let through returns: JoinThread's loop
\* ends, and the wait in pthread_create too.
InterceptorsReturn == \A a \in Actors : pc[a] \in {"await", "joined", "detached"} ~> pc[a] \in {"user", "none"}
=============================================================================

-------------------------- MODULE TsanThreadProofs --------------------------
(***************************************************************************)
(* The inductive invariant of TsanThread, for every number of slots and of *)
(* contexts, every size of the quarantine and every limit on reuse: which  *)
(* thread, handle and interceptor a context of the registry belongs to; and *)
(* what TsanThread promises, from it and the counters.                     *)
(*                                                                         *)
(* The sizes of sets enter the invariant's lemmas as the assumptions       *)
(* IntervalSizes and SomeoneRuns, which the last part discharges.          *)
(***************************************************************************)
EXTENDS TsanThread, TLAPS

Contexts == [status : Statuses, detached : BOOLEAN, destroyed : BOOLEAN,
             user : Slots \union {0}, unique : Nat, reuse : Nat]

Pcs == {"none", "begin", "user", "exit", "create", "await",
        "real", "joined", "notjoined", "detached"}

\* The interceptors that have taken a tid from a handle, and those among them
\* for which the library has not let go of the handle.
ClaimPcs == {"real", "joined", "notjoined", "detached"}
HoldPcs == {"real", "notjoined"}

\* The thread in slot s exists and has not reached ThreadFinish.
Alive(s) == pc[s] \notin {"none", "exit"}

\* Registries with the contexts T.
Registries(T) ==
  [threads : [T -> Contexts], dead : Seq(T), invalid : Seq(T), total : Nat,
   alive : Nat, maxAlive : Nat, running : Nat, ok : BOOLEAN]

Numbered(T) == \E n \in 1..MaxThreads : T = 0..n - 1 /\ Cardinality(T) = n

\* The lists hold what QuarantineWellFormed says, element by element.
ListsOK(r) ==
  /\ IsInjective(r.dead) /\ IsInjective(r.invalid) /\ Len(r.dead) <= QuarantineSize
  /\ \A t \in DOMAIN r.threads : t \in Range(r.dead) <=> r.threads[t].status = "dead"
  /\ \A t \in DOMAIN r.threads : t \in Range(r.invalid) <=>
       r.threads[t].status = "invalid" /\ (MaxReuse = 0 \/ r.threads[t].reuse < MaxReuse)

MarksOK(r) ==
  \A t \in DOMAIN r.threads :
    r.threads[t].destroyed <=> r.threads[t].status \in {"finished", "dead"}

\* The main thread runs for ever and has no handle, nor has a context without
\* a thread; a thread that waits for its join is not detached.
ContextsOK(r) ==
  /\ r.threads[MainTid].status = "running" /\ r.threads[MainTid].user = 0
  /\ \A t \in DOMAIN r.threads :
       /\ r.threads[t].status \in {"dead", "invalid"} => r.threads[t].user = 0
       /\ r.threads[t].status = "finished" => ~r.threads[t].detached

RegistryOK(r) ==
  /\ Numbered(DOMAIN r.threads) /\ r \in Registries(DOMAIN r.threads) /\ r.ok
  /\ ListsOK(r) /\ MarksOK(r) /\ ContextsOK(r)

ThreadTypeOK ==
  /\ held \subseteq Slots
  /\ os \in [Slots -> [state : {"free", "alive", "zombie"}, detached : BOOLEAN]]
  /\ pc \in [Actors -> Pcs]
  /\ arg \in [Actors -> [slot : Actors, tid : Nat, op : Ops \union {"none"}]]
  /\ tid \in [Slots -> 0..MaxThreads]
  /\ sync \in [0..MaxThreads - 1 -> SUBSET {"create", "finish"}]

\* The thread in a slot, the library's view of it, and its context.
SlotOK(s) ==
  /\ pc[s] = "none" <=> os[s].state # "alive"
  /\ pc[s] = "none" => tid[s] = NoTid
  /\ Alive(s) /\ tid[s] # NoTid =>
       /\ tid[s] \in Tids \ {MainTid}
       /\ reg.threads[tid[s]].status = IF pc[s] = "begin" THEN "created" ELSE "running"
  /\ Alive(s) /\ tid[s] = NoTid => pc[s] = "begin"

\* A thread without a context may be joined later unless it is detached.
Unregistered(s) == pc[s] = "begin" /\ tid[s] = NoTid

SlotThreads ==
  /\ \A s \in Slots : SlotOK(s)
  /\ \A s \in Slots : Unregistered(s) => (s \in held <=> ~os[s].detached)
  /\ \A s, u \in Slots : Alive(s) /\ Alive(u) /\ tid[s] = tid[u] /\ tid[s] # NoTid => s = u

\* A thread that has not started has a creator inside pthread_create; there is
\* room for the thread that is created.
Creating(a, s) == pc[a] \in {"create", "await"} /\ arg[a].slot = s

Creators ==
  /\ \A s \in Slots : pc[s] = "begin" => \E a \in Actors : Creating(a, s)
  /\ \A a, s \in Actors : pc[a] = "create" /\ arg[a].slot = s => s \in Slots /\ Unregistered(s) /\ CanCreate(reg)
  /\ \A a, b \in Actors : pc[a] = "create" /\ pc[b] = "create" => a = b

\* The context t still has its handle s.
UserOK(t, s) ==
  /\ reg.threads[t].status \in {"created", "running", "finished"}
  /\ reg.threads[t].status \in {"created", "running"} => Alive(s) /\ tid[s] = t
  /\ reg.threads[t].status = "finished" => pc[s] = "exit" \/ os[s].state = "zombie"
  /\ s \in held <=> ~reg.threads[t].detached

Users ==
  /\ \A t \in Tids, s \in Slots : reg.threads[t].user = s => UserOK(t, s)
  /\ \A t, x \in Tids : reg.threads[t].user = reg.threads[x].user /\ reg.threads[t].user # 0 => t = x

\* A handle the program may use.
HeldOK(s) ==
  /\ os[s].state # "free" /\ ~os[s].detached
  /\ Unregistered(s) \/ \E t \in Tids : reg.threads[t].user = s

HeldHandles == \A s \in held : HeldOK(s)

\* A context whose handle an interceptor has taken.
ClaimOK(a) ==
  /\ arg[a].tid \in Tids \ {MainTid} /\ arg[a].slot \in Slots
  /\ reg.threads[arg[a].tid].user = 0 /\ ~reg.threads[arg[a].tid].detached
  /\ reg.threads[arg[a].tid].status \in {"running", "finished"}
  /\ pc[a] = "joined" => reg.threads[arg[a].tid].status = "finished"

Claims ==
  /\ \A a \in Actors : pc[a] \in ClaimPcs => ClaimOK(a)
  /\ \A a, b \in Actors : pc[a] \in ClaimPcs /\ pc[b] \in ClaimPcs /\ a # b => arg[a].tid # arg[b].tid

\* The handle s, taken from the context t, which the library still knows.
Holding(a, s, t) == pc[a] \in HoldPcs /\ arg[a].slot = s /\ arg[a].tid = t

HoldOK(s, t) ==
  /\ s \notin held
  /\ os[s].state # "free" /\ ~os[s].detached
  /\ reg.threads[t].status = "running" => Alive(s) /\ tid[s] = t
  /\ reg.threads[t].status = "finished" => pc[s] = "exit" \/ os[s].state = "zombie"
  /\ \A x \in Tids : reg.threads[x].user # s

Holds ==
  /\ \A a \in Actors, s \in Slots, t \in Tids : Holding(a, s, t) => HoldOK(s, t)
  /\ \A a, b \in Actors : pc[a] \in HoldPcs /\ pc[b] \in HoldPcs /\ a # b => arg[a].slot # arg[b].slot

\* The clock of a context, in each state of its thread.
ClockOK(t) ==
  /\ reg.threads[t].status = "created" => "create" \in sync[t]
  /\ reg.threads[t].status = "finished" => "finish" \in sync[t]
  /\ reg.threads[t].status \in {"running", "dead", "invalid"} => sync[t] = {}

Clocks == \A t \in Tids : ClockOK(t)

ThreadInv ==
  /\ RegistryOK(reg) /\ ThreadTypeOK /\ SlotThreads /\ Creators /\ Users
  /\ HeldHandles /\ Claims /\ Holds /\ Clocks /\ EdgesKept

-----------------------------------------------------------------------------
(* The operations of the registry, field by field.                          *)

\* What the callbacks change in a context.
LEMMA DeadIs ==
  ASSUME NEW c \in Contexts
  PROVE  /\ Dead(c) \in Contexts /\ Dead(c).status = "dead"
         /\ Dead(c).user = 0 /\ Dead(c).detached = c.detached
         /\ Dead(c).destroyed = c.destroyed /\ Dead(c).reuse = c.reuse
BY ZenonT(30) DEF Contexts, Statuses, Dead

LEMMA StartedIs ==
  ASSUME NEW c \in Contexts
  PROVE  /\ SetStarted(c) \in Contexts /\ SetStarted(c).status = "running"
         /\ SetStarted(c).user = c.user /\ SetStarted(c).detached = c.detached
         /\ SetStarted(c).destroyed = c.destroyed /\ SetStarted(c).reuse = c.reuse
BY ZenonT(30) DEF Contexts, Statuses, SetStarted

LEMMA FinishedIs ==
  ASSUME NEW c \in Contexts
  PROVE  /\ SetFinished(c) \in Contexts /\ SetFinished(c).status = (IF ~c.detached \/ c.status = "created" THEN "finished" ELSE c.status)
         /\ SetFinished(c).user = c.user /\ SetFinished(c).detached = c.detached
         /\ SetFinished(c).destroyed = c.destroyed /\ SetFinished(c).reuse = c.reuse
BY ZenonT(30) DEF Contexts, Statuses, SetFinished

LEMMA DestroyedIs ==
  ASSUME NEW c \in Contexts
  PROVE  /\ SetDestroyed(c) \in Contexts /\ SetDestroyed(c).status = c.status
         /\ SetDestroyed(c).user = c.user /\ SetDestroyed(c).detached = c.detached
         /\ SetDestroyed(c).destroyed = TRUE /\ SetDestroyed(c).reuse = c.reuse
BY ZenonT(30) DEF Contexts, Statuses, SetDestroyed

LEMMA DetachedIs ==
  ASSUME NEW c \in Contexts
  PROVE  /\ SetDetached(c) \in Contexts /\ SetDetached(c).status = c.status
         /\ SetDetached(c).user = c.user /\ SetDetached(c).detached = TRUE
         /\ SetDetached(c).destroyed = c.destroyed /\ SetDetached(c).reuse = c.reuse
BY ZenonT(30) DEF Contexts, Statuses, SetDetached

LEMMA ResetIs ==
  ASSUME NEW c \in Contexts
  PROVE  /\ Reset(c) \in Contexts /\ Reset(c).status = "invalid"
         /\ Reset(c).user = c.user /\ Reset(c).detached = c.detached
         /\ Reset(c).destroyed = FALSE /\ Reset(c).reuse = c.reuse + 1
<1>1. c.reuse + 1 \in Nat
  BY DEF Contexts
<1> QED BY <1>1, ZenonT(30) DEF Contexts, Statuses, Reset

LEMMA UserIs ==
  ASSUME NEW c \in Contexts, NEW u \in Slots \union {0}
  PROVE  /\ SetUserId(c, u) \in Contexts /\ SetUserId(c, u).status = c.status
         /\ SetUserId(c, u).user = u /\ SetUserId(c, u).detached = c.detached
         /\ SetUserId(c, u).destroyed = c.destroyed /\ SetUserId(c, u).reuse = c.reuse
BY ZenonT(30) DEF Contexts, Statuses, SetUserId

\* p is r with the context of t dead.
Died(T, r, t, p) ==
  /\ p \in Registries(T) /\ p.threads = [r.threads EXCEPT ![t] = Dead(r.threads[t])]
  /\ p.dead = r.dead /\ p.invalid = r.invalid /\ p.alive = r.alive /\ p.running = r.running
  /\ p.maxAlive = r.maxAlive /\ p.ok = (r.ok /\ r.threads[t].status \in {"running", "finished"})

\* SetDead changes one context.
LEMMA SetDeadFacts ==
  ASSUME NEW T, NEW r \in Registries(T), NEW t \in T
  PROVE  Died(T, r, t, SetDead(r, t))
<1>1. /\ SetDead(r, t).threads = [r.threads EXCEPT ![t] = Dead(@)]
  BY ZenonT(30) DEF Registries, SetDead, Check
<1>2.    /\ SetDead(r, t).dead = r.dead /\ SetDead(r, t).invalid = r.invalid
         /\ SetDead(r, t).alive = r.alive /\ SetDead(r, t).running = r.running
         /\ SetDead(r, t).maxAlive = r.maxAlive
  BY ZenonT(30) DEF Registries, SetDead, Check
<1>3. SetDead(r, t).ok = (r.ok /\ r.threads[t].status \in {"running", "finished"})
  BY ZenonT(30) DEF Registries, SetDead, Check
<1>4. SetDead(r, t) \in Registries(T)
  <2>1. [r.threads EXCEPT ![t] = Dead(@)] \in [T -> Contexts]
    <3>1. r.threads \in [T -> Contexts]
      BY Zenon DEF Registries
    <3> QED BY <3>1, DeadIs, Zenon
  <2>2. (r.ok /\ r.threads[t].status \in {"running", "finished"}) \in BOOLEAN
    BY Zenon
  <2> QED BY <2>1, <2>2, ZenonT(30) DEF Registries, SetDead, Check
<1> DEFINE p == SetDead(r, t)
<1>5. Died(T, r, t, p)
  <2> HIDE DEF p
  <2> QED BY <1>1, <1>2, <1>3, <1>4, Zenon DEF Died, p
<1> QED BY <1>5, Zenon

\* The lists, at either end.
AppendIs(T, q, t) ==
  /\ Append(q, t) \in Seq(T) /\ IsInjective(Append(q, t))
  /\ Len(Append(q, t)) = Len(q) + 1
  /\ \A x \in T : x \in Range(Append(q, t)) <=> x \in Range(q) \/ x = t

\* A list with an element at its end.
LEMMA AppendFacts ==
  ASSUME NEW T, NEW q \in Seq(T), NEW t \in T, t \notin Range(q), IsInjective(q)
  PROVE  AppendIs(T, q, t)
<1>1. Append(q, t) \in Seq(T) /\ Len(Append(q, t)) = Len(q) + 1
  BY SMTT(30)
<1>2. IsInjective(Append(q, t))
  BY SMTT(30) DEF IsInjective, Range
<1>3. Range(Append(q, t)) = Range(q) \cup {t}
  BY SMTT(30) DEF Range
<1> QED BY <1>1, <1>2, <1>3, Zenon DEF AppendIs

TailIs(T, q) ==
  /\ Head(q) \in T /\ Head(q) \in Range(q)
  /\ Tail(q) \in Seq(T) /\ IsInjective(Tail(q))
  /\ Len(Tail(q)) = Len(q) - 1
  /\ \A x \in T : x \in Range(Tail(q)) <=> x \in Range(q) /\ x # Head(q)

\* A list without its first element.
LEMMA TailFacts ==
  ASSUME NEW T, NEW q \in Seq(T), q # <<>>, IsInjective(q)
  PROVE  TailIs(T, q)
<1>1. Head(q) \in T /\ Head(q) \in Range(q)
  BY SMTT(30) DEF Range
<1>2. Tail(q) \in Seq(T) /\ Len(Tail(q)) = Len(q) - 1
  BY SMTT(30)
<1>3. IsInjective(Tail(q))
  BY SMTT(30) DEF IsInjective
<1>4. Range(Tail(q)) = Range(q) \ {Head(q)}
  <2>1. \A i \in DOMAIN Tail(q) : i + 1 \in DOMAIN q /\ Tail(q)[i] = q[i + 1] /\ i + 1 # 1
    BY SMTT(30)
  <2>2. \A j \in DOMAIN q : j # 1 => j - 1 \in DOMAIN Tail(q) /\ Tail(q)[j - 1] = q[j]
    BY SMTT(30)
  <2>3. 1 \in DOMAIN q /\ Head(q) = q[1]
    BY SMTT(30)
  <2>4. ASSUME NEW x \in Range(Tail(q)) PROVE x \in Range(q) \ {Head(q)}
    <3> PICK i \in DOMAIN Tail(q) : x = Tail(q)[i]
      BY <2>4, Zenon DEF Range
    <3> DEFINE j == i + 1
    <3>1. j \in DOMAIN q /\ x = q[j] /\ j # 1
      BY <2>1, Zenon
    <3> HIDE DEF j
    <3>2. x \in Range(q) /\ x # q[1]
      BY <2>3, <3>1, Zenon DEF Range, IsInjective
    <3> QED BY <2>3, <3>2, Zenon
  <2>5. ASSUME NEW x \in Range(q) \ {Head(q)} PROVE x \in Range(Tail(q))
    BY <2>2, <2>3, <2>5, ZenonT(60) DEF Range
  <2> QED BY <2>4, <2>5, Zenon
<1> QED BY <1>1, <1>2, <1>3, <1>4, Zenon DEF TailIs

\* QuarantinePush puts t in, and takes the oldest context out when it is full.
Pushed(T, r, t, q) ==
  /\ q.alive = r.alive /\ q.running = r.running /\ q.maxAlive = r.maxAlive
  /\ q \in Registries(T)
  /\ \/ /\ Len(r.dead) < QuarantineSize
        /\ q.threads = r.threads /\ q.dead = Append(r.dead, t) /\ q.invalid = r.invalid /\ q.ok = r.ok
     \/ /\ r.dead # <<>> /\ Head(r.dead) \in T
        /\ q.threads = [r.threads EXCEPT ![Head(r.dead)] = Reset(@)]
        /\ q.dead = Append(Tail(r.dead), t)
        /\ q.invalid = IF MaxReuse > 0 /\ r.threads[Head(r.dead)].reuse + 1 >= MaxReuse
                       THEN r.invalid ELSE Append(r.invalid, Head(r.dead))
        /\ q.ok = (r.ok /\ r.threads[Head(r.dead)].status = "dead")

\* QuarantinePush: the context waits, and the oldest may make room for it.
LEMMA PushFacts ==
  ASSUME NEW T, NEW r \in Registries(T), NEW t \in T, t # MainTid
  PROVE  Pushed(T, r, t, QuarantinePush(r, t))
<1>t. /\ r.threads \in [T -> Contexts] /\ r.dead \in Seq(T) /\ r.invalid \in Seq(T) /\ r.total \in Nat
      /\ r.alive \in Nat /\ r.maxAlive \in Nat /\ r.running \in Nat /\ r.ok \in BOOLEAN
  BY Zenon DEF Registries
<1>q. QuarantineSize \in Nat \ {0}
  BY RegistryConstants, Zenon
<1>1. CASE Len(r.dead) < QuarantineSize
  <2>1. Len(Append(r.dead, t)) <= QuarantineSize /\ Append(r.dead, t) \in Seq(T)
    BY <1>1, <1>t, <1>q, SMTT(30)
  <2>2. QuarantinePush(r, t) = [r EXCEPT !.dead = Append(r.dead, t)]
    BY <2>1, Zenon DEF QuarantinePush
  <2>3. [r EXCEPT !.dead = Append(r.dead, t)] \in Registries(T)
    BY <1>t, <2>1, Zenon DEF Registries
  <2> QED BY <1>1, <2>2, <2>3, Zenon DEF Registries, Pushed
<1>2. CASE ~(Len(r.dead) < QuarantineSize)
  <2> DEFINE old == Head(r.dead)
             r1 == [Check(r, r.threads[old].status = "dead") EXCEPT
                      !.dead = Append(Tail(r.dead), t), !.threads[old] = Reset(@)]
  <2>1. /\ r.dead # <<>> /\ ~(Len(Append(r.dead, t)) <= QuarantineSize)
        /\ Head(Append(r.dead, t)) = old /\ Tail(Append(r.dead, t)) = Append(Tail(r.dead), t)
        /\ Append(Tail(r.dead), t) \in Seq(T) /\ old \in T
    BY <1>2, <1>t, <1>q, SMTT(30)
  <2>2. QuarantinePush(r, t) = IF MaxReuse > 0 /\ r1.threads[old].reuse >= MaxReuse THEN r1
                               ELSE [r1 EXCEPT !.invalid = Append(@, old)]
    BY <2>1, ZenonT(60) DEF QuarantinePush
  <2> HIDE DEF old
  <2>c. /\ Reset(r.threads[old]) \in Contexts
        /\ Reset(r.threads[old]).reuse = r.threads[old].reuse + 1
    <3>1. r.threads[old] \in Contexts
      BY <1>t, <2>1, Zenon
    <3> QED BY <3>1, ResetIs, Zenon
  <2>3. [r.threads EXCEPT ![old] = Reset(@)] \in [T -> Contexts]
    BY <1>t, <2>1, <2>c, Zenon
  <2>4. (r.ok /\ r.threads[old].status = "dead") \in BOOLEAN
    BY Zenon
  <2>5. r1 \in Registries(T)
    BY <1>t, <2>1, <2>3, <2>4, Zenon DEF Registries, Check
  <2>6. /\ r1.threads = [r.threads EXCEPT ![old] = Reset(@)]
        /\ r1.dead = Append(Tail(r.dead), t) /\ r1.invalid = r.invalid
        /\ r1.ok = (r.ok /\ r.threads[old].status = "dead")
        /\ r1.alive = r.alive /\ r1.running = r.running /\ r1.maxAlive = r.maxAlive
    BY Zenon DEF Registries, Check
  <2> HIDE DEF r1
  <2>7. r1.threads[old].reuse = r.threads[old].reuse + 1
    BY <1>t, <2>1, <2>6, <2>c, Zenon
  <2>8. Append(r.invalid, old) \in Seq(T)
    BY <1>t, <2>1, SMTT(30)
  <2>9. CASE MaxReuse > 0 /\ r1.threads[old].reuse >= MaxReuse
    BY <2>1, <2>2, <2>5, <2>6, <2>7, <2>9, Zenon DEF old, Pushed
  <2>10. CASE ~(MaxReuse > 0 /\ r1.threads[old].reuse >= MaxReuse)
    <3> DEFINE r2 == [r1 EXCEPT !.invalid = Append(@, old)]
    <3>1. QuarantinePush(r, t) = r2
      BY <2>2, <2>10, Zenon
    <3>2. r2 \in Registries(T)
      BY <2>5, <2>6, <2>8, Zenon DEF Registries
    <3>3. /\ r2.threads = r1.threads /\ r2.dead = r1.dead /\ r2.invalid = Append(r.invalid, old)
          /\ r2.ok = r1.ok /\ r2.alive = r1.alive /\ r2.running = r1.running /\ r2.maxAlive = r1.maxAlive
      BY <2>5, <2>6, Zenon DEF Registries
    <3> HIDE DEF r2
    <3> QED BY <2>1, <2>6, <2>7, <2>10, <3>1, <3>2, <3>3, Zenon DEF old, Pushed
  <2> QED BY <2>9, <2>10, Zenon
<1> QED BY <1>1, <1>2, Zenon

\* A context is recycled: it leaves the quarantine.
Recycled(old, new) == old.status = "dead" /\ new = Reset(old)

\* p is r, which is right, but for t, which has just died with context c.
Dying(r, T, t, c, p) ==
  /\ RegistryOK(r) /\ T = DOMAIN r.threads /\ t \in T /\ t # MainTid
  /\ r.threads[t].status \in {"running", "finished"}
  /\ c \in Contexts /\ c.status = "dead"
  /\ p \in Registries(T) /\ p.threads = [r.threads EXCEPT ![t] = c]
  /\ p.dead = r.dead /\ p.invalid = r.invalid /\ p.ok

\* q is the registry when t has joined the quarantine, too.
Buried(T, r, t, c, p, q) ==
  /\ q \in Registries(T) /\ q.ok /\ ListsOK(q)
  /\ q.alive = p.alive /\ q.running = p.running /\ q.maxAlive = p.maxAlive
  /\ q.threads[t] = c
  /\ \A x \in T : x # t => q.threads[x] = r.threads[x] \/ Recycled(r.threads[x], q.threads[x])
  /\ r.invalid # <<>> => q.invalid # <<>>

\* A context that dies leaves the lists in order.
LEMMA BuryFacts ==
  ASSUME NEW r, NEW T, NEW t, NEW c, NEW p, Dying(r, T, t, c, p)
  PROVE  Buried(T, r, t, c, p, QuarantinePush(p, t))
<1> DEFINE q == QuarantinePush(p, t)
<1>r. /\ r.threads \in [T -> Contexts] /\ r.dead \in Seq(T) /\ r.invalid \in Seq(T)
      /\ IsInjective(r.dead) /\ IsInjective(r.invalid) /\ Len(r.dead) <= QuarantineSize
      /\ \A x \in T : x \in Range(r.dead) <=> r.threads[x].status = "dead"
      /\ \A x \in T : x \in Range(r.invalid) <=>
            r.threads[x].status = "invalid" /\ (MaxReuse = 0 \/ r.threads[x].reuse < MaxReuse)
  BY Zenon DEF Dying, RegistryOK, Registries, ListsOK
<1>e. t \in T /\ t # MainTid /\ r.threads[t].status \in {"running", "finished"} /\ c.status = "dead"
  BY Zenon DEF Dying
<1>f. p \in Registries(T) /\ p.dead = r.dead /\ p.invalid = r.invalid /\ p.ok
  BY Zenon DEF Dying
<1>p. /\ q.alive = p.alive /\ q.running = p.running /\ q.maxAlive = p.maxAlive
      /\ q \in Registries(T)
      /\ \/ /\ Len(r.dead) < QuarantineSize
            /\ q.threads = p.threads /\ q.dead = Append(r.dead, t) /\ q.invalid = r.invalid /\ q.ok = p.ok
         \/ /\ r.dead # <<>> /\ Head(r.dead) \in T
            /\ q.threads = [p.threads EXCEPT ![Head(r.dead)] = Reset(@)]
            /\ q.dead = Append(Tail(r.dead), t)
            /\ q.invalid = IF MaxReuse > 0 /\ p.threads[Head(r.dead)].reuse + 1 >= MaxReuse
                           THEN r.invalid ELSE Append(r.invalid, Head(r.dead))
            /\ q.ok = (p.ok /\ p.threads[Head(r.dead)].status = "dead")
  <2>1. Pushed(T, p, t, q)
    BY <1>e, <1>f, PushFacts, Zenon
  <2> HIDE DEF q
  <2> QED BY <1>f, <2>1, Zenon DEF Pushed
<1> HIDE DEF q
<1> SUFFICES Buried(T, r, t, c, p, q)
  BY Zenon DEF q
<1>d. DOMAIN q.threads = T
  BY <1>p, Zenon DEF Registries
<1>t. t \notin Range(r.dead) /\ t \notin Range(r.invalid)
  BY <1>r, <1>e, Zenon
<1>c. p.threads[t] = c /\ \A x \in T : x # t => p.threads[x] = r.threads[x]
  BY <1>r, <1>e, Zenon DEF Dying
<1>1. CASE /\ Len(r.dead) < QuarantineSize
           /\ q.threads = p.threads /\ q.dead = Append(r.dead, t) /\ q.invalid = r.invalid /\ q.ok = p.ok
  <2>1. /\ IsInjective(q.dead) /\ Len(q.dead) = Len(r.dead) + 1
        /\ \A x \in T : x \in Range(q.dead) <=> x \in Range(r.dead) \/ x = t
    <3>1. /\ IsInjective(Append(r.dead, t)) /\ Len(Append(r.dead, t)) = Len(r.dead) + 1
          /\ \A x \in T : x \in Range(Append(r.dead, t)) <=> x \in Range(r.dead) \/ x = t
      <4>1. AppendIs(T, r.dead, t)
        BY <1>r, <1>e, <1>t, AppendFacts, Zenon
      <4> QED BY <4>1, Zenon DEF AppendIs
    <3> QED BY <1>1, <3>1, Zenon
  <2>2. Len(q.dead) <= QuarantineSize
    BY <1>1, <1>r, <2>1, RegistryConstants, SMT
  <2>w. q.threads[t].status = "dead" /\ \A x \in T : x # t => q.threads[x] = r.threads[x]
    BY <1>1, <1>e, <1>c, Zenon
  <2>3. ASSUME NEW x \in T PROVE x \in Range(q.dead) <=> q.threads[x].status = "dead"
    <3>1. CASE x = t
      BY <2>1, <2>w, <3>1, Zenon
    <3>2. CASE x # t
      BY <1>r, <2>1, <2>w, <3>2, Zenon
    <3> QED BY <3>1, <3>2, Zenon
  <2>4. ASSUME NEW x \in T
        PROVE  x \in Range(q.invalid) <=>
                 q.threads[x].status = "invalid" /\ (MaxReuse = 0 \/ q.threads[x].reuse < MaxReuse)
    <3>1. CASE x = t
      BY <1>1, <1>t, <2>w, <3>1, Zenon
    <3>2. CASE x # t
      BY <1>1, <1>r, <2>w, <3>2, Zenon
    <3> QED BY <3>1, <3>2, Zenon
  <2>5. ListsOK(q)
    BY <1>1, <1>d, <1>r, <2>1, <2>2, <2>3, <2>4, Zenon DEF ListsOK
  <2> QED BY <1>1, <1>f, <1>p, <1>c, <2>5, Zenon DEF Buried
<1>2. CASE /\ r.dead # <<>> /\ Head(r.dead) \in T
           /\ q.threads = [p.threads EXCEPT ![Head(r.dead)] = Reset(@)]
           /\ q.dead = Append(Tail(r.dead), t)
           /\ q.invalid = IF MaxReuse > 0 /\ p.threads[Head(r.dead)].reuse + 1 >= MaxReuse
                          THEN r.invalid ELSE Append(r.invalid, Head(r.dead))
           /\ q.ok = (p.ok /\ p.threads[Head(r.dead)].status = "dead")
  <2> DEFINE old == Head(r.dead)
  <2>1. /\ old \in T /\ old \in Range(r.dead)
        /\ Tail(r.dead) \in Seq(T) /\ IsInjective(Tail(r.dead)) /\ Len(Tail(r.dead)) = Len(r.dead) - 1
        /\ \A x \in T : x \in Range(Tail(r.dead)) <=> x \in Range(r.dead) /\ x # old
    <3>1. TailIs(T, r.dead)
      BY <1>2, <1>r, TailFacts, Zenon
    <3> QED BY <3>1, Zenon DEF TailIs
  <2>2. /\ q.threads = [p.threads EXCEPT ![old] = Reset(@)]
        /\ q.invalid = IF MaxReuse > 0 /\ p.threads[old].reuse + 1 >= MaxReuse
                       THEN r.invalid ELSE Append(r.invalid, old)
        /\ q.ok = (p.ok /\ p.threads[old].status = "dead")
    BY <1>2, Zenon
  <2> HIDE DEF old
  <2>o. old # t /\ r.threads[old].status = "dead" /\ old \notin Range(r.invalid)
    BY <1>r, <1>t, <2>1, Zenon
  <2>3. q.ok /\ p.threads[old] = r.threads[old]
    BY <1>c, <1>f, <2>1, <2>2, <2>o, Zenon
  <2>4. /\ q.threads[old] = Reset(r.threads[old])
        /\ q.threads[t] = c
        /\ \A x \in T : x # t /\ x # old => q.threads[x] = r.threads[x]
    <3>1. p.threads \in [T -> Contexts]
      BY <1>f, Zenon DEF Registries
    <3> QED BY <1>c, <1>e, <2>1, <2>2, <2>3, <2>o, <3>1, Zenon
  <2>5. /\ IsInjective(q.dead) /\ Len(q.dead) = Len(Tail(r.dead)) + 1
        /\ \A x \in T : x \in Range(q.dead) <=> (x \in Range(r.dead) /\ x # old) \/ x = t
    <3>1. t \notin Range(Tail(r.dead))
      BY <1>e, <1>t, <2>1, Zenon
    <3>2. /\ IsInjective(q.dead) /\ Len(q.dead) = Len(Tail(r.dead)) + 1
          /\ \A x \in T : x \in Range(q.dead) <=> x \in Range(Tail(r.dead)) \/ x = t
      <4>1. /\ IsInjective(Append(Tail(r.dead), t)) /\ Len(Append(Tail(r.dead), t)) = Len(Tail(r.dead)) + 1
            /\ \A x \in T : x \in Range(Append(Tail(r.dead), t)) <=> x \in Range(Tail(r.dead)) \/ x = t
        <5>1. AppendIs(T, Tail(r.dead), t)
          BY <1>e, <2>1, <3>1, AppendFacts, Zenon
        <5> QED BY <5>1, Zenon DEF AppendIs
      <4> QED BY <1>2, <4>1, Zenon
    <3> QED BY <2>1, <3>2, Zenon
  <2>6. Len(q.dead) <= QuarantineSize
    BY <1>r, <2>1, <2>5, RegistryConstants, SMT
  <2>s. /\ Reset(r.threads[old]).status = "invalid"
        /\ Reset(r.threads[old]).reuse = r.threads[old].reuse + 1
        /\ r.threads[old].reuse \in Nat
    <3>1. r.threads[old] \in Contexts
      BY <1>r, <2>1, Zenon
    <3> QED BY <3>1, ResetIs, Zenon DEF Contexts
  <2>7. \A x \in T : x \in Range(q.dead) <=> q.threads[x].status = "dead"
    <3> SUFFICES ASSUME NEW x \in T PROVE x \in Range(q.dead) <=> q.threads[x].status = "dead"
      BY Zenon
    <3>1. CASE x = t
      BY <1>e, <2>4, <2>5, <3>1, Zenon
    <3>2. CASE x = old
      BY <2>4, <2>5, <2>o, <2>s, <3>2, Zenon
    <3>3. CASE x # t /\ x # old
      BY <1>r, <2>4, <2>5, <3>3, Zenon
    <3> QED BY <3>1, <3>2, <3>3, Zenon
  <2>i. /\ IsInjective(q.invalid) /\ (r.invalid # <<>> => q.invalid # <<>>)
        /\ \A x \in T : x \in Range(q.invalid) <=>
             x \in Range(r.invalid) \/ (x = old /\ ~(MaxReuse > 0 /\ r.threads[old].reuse + 1 >= MaxReuse))
    <3>1. CASE MaxReuse > 0 /\ r.threads[old].reuse + 1 >= MaxReuse
      BY <1>r, <2>2, <2>3, <3>1, Zenon
    <3>2. CASE ~(MaxReuse > 0 /\ r.threads[old].reuse + 1 >= MaxReuse)
      <4>1. q.invalid = Append(r.invalid, old)
        BY <2>2, <2>3, <3>2, Zenon
      <4>2. /\ IsInjective(q.invalid) /\ Len(q.invalid) = Len(r.invalid) + 1 /\ q.invalid \in Seq(T)
            /\ \A x \in T : x \in Range(q.invalid) <=> x \in Range(r.invalid) \/ x = old
        <5>1. /\ IsInjective(Append(r.invalid, old)) /\ Len(Append(r.invalid, old)) = Len(r.invalid) + 1
              /\ Append(r.invalid, old) \in Seq(T)
              /\ \A x \in T : x \in Range(Append(r.invalid, old)) <=> x \in Range(r.invalid) \/ x = old
          <6>1. AppendIs(T, r.invalid, old)
            BY <1>r, <2>1, <2>o, AppendFacts, Zenon
          <6> QED BY <6>1, Zenon DEF AppendIs
        <5> QED BY <4>1, <5>1, Zenon
      <4>3. q.invalid # <<>>
        BY <1>r, <4>2, SMT
      <4> QED BY <3>2, <4>2, <4>3, Zenon
    <3> QED BY <3>1, <3>2, Zenon
  <2>8. ASSUME NEW x \in T
        PROVE  x \in Range(q.invalid) <=>
                 q.threads[x].status = "invalid" /\ (MaxReuse = 0 \/ q.threads[x].reuse < MaxReuse)
    <3>1. CASE x = t
      BY <1>e, <1>t, <2>4, <2>i, <2>o, <3>1, Zenon
    <3>2. CASE x = old
      <4>1. ~(MaxReuse > 0 /\ r.threads[old].reuse + 1 >= MaxReuse) <=>
              MaxReuse = 0 \/ r.threads[old].reuse + 1 < MaxReuse
        BY <2>s, RegistryConstants, SMT
      <4> QED BY <2>4, <2>i, <2>o, <2>s, <3>2, <4>1, Zenon
    <3>3. CASE x # t /\ x # old
      BY <1>r, <2>4, <2>i, <3>3, Zenon
    <3> QED BY <3>1, <3>2, <3>3, Zenon
  <2>9. ListsOK(q)
    BY <1>d, <2>i, <2>5, <2>6, <2>7, <2>8, Zenon DEF ListsOK
  <2>10. \A x \in T : x # t => q.threads[x] = r.threads[x] \/ Recycled(r.threads[x], q.threads[x])
    BY <2>4, <2>o, Zenon DEF Recycled
  <2> QED BY <1>p, <2>3, <2>4, <2>9, <2>10, <2>i, Zenon DEF Buried
<1> QED BY <1>1, <1>2, <1>p, Zenon

\* An operation on t turns r into q: other contexts stay, or are recycled.
Frame(r, q, t) ==
  /\ DOMAIN q.threads = DOMAIN r.threads
  /\ \A x \in DOMAIN r.threads :
       x # t => q.threads[x] = r.threads[x] \/ Recycled(r.threads[x], q.threads[x])
  /\ r.invalid # <<>> => q.invalid # <<>>

ContextOK(c) ==
  /\ c.destroyed <=> c.status \in {"finished", "dead"}
  /\ c.status \in {"dead", "invalid"} => c.user = 0
  /\ c.status = "finished" => ~c.detached

InUse == {"created", "running", "finished"}

\* The parts of a registry in order, for the leaves of the proofs below.
LEMMA RegistryParts ==
  ASSUME NEW r, RegistryOK(r)
  PROVE  /\ r.threads \in [DOMAIN r.threads -> Contexts] /\ r.dead \in Seq(DOMAIN r.threads)
         /\ r.invalid \in Seq(DOMAIN r.threads) /\ r.total \in Nat
         /\ r.alive \in Nat /\ r.maxAlive \in Nat /\ r.running \in Nat /\ r.ok = TRUE
         /\ \A x \in DOMAIN r.threads : r.threads[x] \in Contexts /\ ContextOK(r.threads[x])
<1>1. /\ r.threads \in [DOMAIN r.threads -> Contexts] /\ r.dead \in Seq(DOMAIN r.threads)
      /\ r.invalid \in Seq(DOMAIN r.threads) /\ r.total \in Nat
      /\ r.alive \in Nat /\ r.maxAlive \in Nat /\ r.running \in Nat /\ r.ok \in BOOLEAN
  BY Zenon DEF RegistryOK, Registries
<1>2. r.ok = TRUE
  BY <1>1, Zenon DEF RegistryOK
<1>3. ASSUME NEW x \in DOMAIN r.threads PROVE r.threads[x] \in Contexts /\ ContextOK(r.threads[x])
  BY <1>1, Zenon DEF RegistryOK, MarksOK, ContextsOK, ContextOK
<1> QED BY <1>1, <1>2, <1>3, Zenon

\* What is left to show of an operation on t.
LEMMA Assemble ==
  ASSUME NEW r, NEW q, NEW t, RegistryOK(r), Frame(r, q, t), t \in DOMAIN r.threads, t # MainTid,
         q \in Registries(DOMAIN r.threads), q.ok, ListsOK(q), ContextOK(q.threads[t])
  PROVE  RegistryOK(q)
<1> DEFINE T == DOMAIN r.threads
<1>d. DOMAIN q.threads = T /\ Numbered(T) /\ MainTid \in T
  <2>1. DOMAIN q.threads = T /\ Numbered(T)
    BY Zenon DEF Frame, RegistryOK
  <2>2. MainTid \in T
    BY <2>1, SMT DEF Numbered, MainTid
  <2> QED BY <2>1, <2>2, Zenon
<1> HIDE DEF T
<1>r. \A x \in T : r.threads[x] \in Contexts /\ ContextOK(r.threads[x])
  BY RegistryParts, Zenon DEF T
<1>1. ASSUME NEW x \in T PROVE ContextOK(q.threads[x])
  <2>1. CASE x # t /\ Recycled(r.threads[x], q.threads[x])
    <3>1. /\ q.threads[x].status = "invalid" /\ q.threads[x].user = r.threads[x].user
          /\ q.threads[x].destroyed = FALSE
      <4>1. r.threads[x] \in Contexts /\ q.threads[x] = Reset(r.threads[x])
        BY <1>r, <2>1, Zenon DEF Recycled
      <4>2. /\ Reset(r.threads[x]).status = "invalid" /\ Reset(r.threads[x]).user = r.threads[x].user
            /\ Reset(r.threads[x]).destroyed = FALSE
        BY <4>1, ResetIs, Zenon
      <4> QED BY <4>1, <4>2, Zenon
    <3>2. r.threads[x].user = 0
      BY <1>r, <2>1, Zenon DEF Recycled, ContextOK
    <3> QED BY <3>1, <3>2, Zenon DEF ContextOK
  <2>2. CASE x # t /\ q.threads[x] = r.threads[x]
    BY <1>r, <2>2, Zenon
  <2> QED BY <2>1, <2>2, Zenon DEF Frame, T
<1>2. MarksOK(q)
  BY <1>d, <1>1, Zenon DEF MarksOK, ContextOK
<1>m. r.threads[MainTid].status = "running" /\ r.threads[MainTid].user = 0
  BY Zenon DEF RegistryOK, ContextsOK
<1>3. q.threads[MainTid] = r.threads[MainTid]
  BY <1>d, <1>m, Zenon DEF Frame, T, Recycled
<1>4. ContextsOK(q)
  BY <1>d, <1>m, <1>1, <1>3, Zenon DEF ContextsOK, ContextOK
<1> QED BY <1>d, <1>2, <1>4, Zenon DEF RegistryOK, T

\* An operation that leaves the lists alone, on a context in use.
Changed(r, q, t, c) ==
  /\ t \in DOMAIN r.threads /\ q.threads = [r.threads EXCEPT ![t] = c]
  /\ q.dead = r.dead /\ q.invalid = r.invalid
  /\ r.threads[t].status \in InUse /\ c.status \in InUse

\* The lists stay in order when no context changes sides.
LEMMA ListsKept ==
  ASSUME NEW r, NEW q, NEW t, NEW c, RegistryOK(r), Changed(r, q, t, c)
  PROVE  Frame(r, q, t) /\ ListsOK(q) /\ q.threads[t] = c
<1> DEFINE T == DOMAIN r.threads
<1>1. /\ DOMAIN q.threads = T /\ q.threads[t] = c
      /\ \A x \in T : x # t => q.threads[x] = r.threads[x]
  BY RegistryParts, Zenon DEF Changed
<1>2. Frame(r, q, t)
  BY <1>1, Zenon DEF Frame, Changed
<1>q. q.dead = r.dead /\ q.invalid = r.invalid
  BY Zenon DEF Changed
<1>l. /\ IsInjective(r.dead) /\ IsInjective(r.invalid) /\ Len(r.dead) <= QuarantineSize
      /\ \A x \in T : x \in Range(r.dead) <=> r.threads[x].status = "dead"
      /\ \A x \in T : x \in Range(r.invalid) <=>
            r.threads[x].status = "invalid" /\ (MaxReuse = 0 \/ r.threads[x].reuse < MaxReuse)
  BY Zenon DEF RegistryOK, ListsOK
<1>s. r.threads[t].status \notin {"dead", "invalid"} /\ c.status \notin {"dead", "invalid"}
  BY Zenon DEF InUse, Changed
<1> HIDE DEF T
<1>3. ASSUME NEW x \in T PROVE x \in Range(q.dead) <=> q.threads[x].status = "dead"
  <2>1. CASE x = t
    BY <1>1, <1>q, <1>l, <1>s, <2>1, Zenon
  <2>2. CASE x # t
    BY <1>1, <1>q, <1>l, <2>2, Zenon
  <2> QED BY <2>1, <2>2, Zenon
<1>4. ASSUME NEW x \in T
      PROVE  x \in Range(q.invalid) <=>
               q.threads[x].status = "invalid" /\ (MaxReuse = 0 \/ q.threads[x].reuse < MaxReuse)
  <2>1. CASE x = t
    BY <1>1, <1>q, <1>l, <1>s, <2>1, Zenon
  <2>2. CASE x # t
    BY <1>1, <1>q, <1>l, <2>2, Zenon
  <2> QED BY <2>1, <2>2, Zenon
<1>5. ListsOK(q)
  BY <1>1, <1>q, <1>l, <1>3, <1>4, Zenon DEF ListsOK
<1> QED BY <1>1, <1>2, <1>5, Zenon

\* The operation on t that makes q of r leaves the registry right.
Operated(r, q, t) == RegistryOK(q) /\ Frame(r, q, t) /\ q.maxAlive = r.maxAlive

\* StartThread.
LEMMA StartFacts ==
  ASSUME NEW r, NEW t, RegistryOK(r), t \in DOMAIN r.threads, t # MainTid,
         r.threads[t].status = "created"
  PROVE  /\ Operated(r, StartThread(r, t), t)
         /\ StartThread(r, t).threads[t] = SetStarted(r.threads[t])
         /\ StartThread(r, t).alive = r.alive /\ StartThread(r, t).running = r.running + 1
<1> DEFINE q == StartThread(r, t)
           c == SetStarted(r.threads[t])
           T == DOMAIN r.threads
<1>r. /\ r \in Registries(T) /\ r.threads \in [T -> Contexts] /\ r.running + 1 \in Nat /\ r.ok = TRUE
      /\ r.threads[t] \in Contexts /\ ContextOK(r.threads[t])
  <2>1. r.running \in Nat /\ r.ok = TRUE /\ r.threads[t] \in Contexts /\ ContextOK(r.threads[t])
    BY RegistryParts, Zenon
  <2>2. r.running + 1 \in Nat
    BY <2>1
  <2> QED BY <2>1, <2>2, RegistryParts, Zenon DEF RegistryOK
<1>c. /\ c \in Contexts /\ c.status = "running" /\ c.destroyed = r.threads[t].destroyed
  BY <1>r, StartedIs, Zenon
<1> HIDE DEF c
<1>t. [r.threads EXCEPT ![t] = c] \in [T -> Contexts]
  BY <1>r, <1>c, Zenon
<1>o. (r.ok /\ r.threads[t].status = "created") = TRUE
  BY <1>r, Zenon
<1>1. /\ q.threads = [r.threads EXCEPT ![t] = c] /\ q.dead = r.dead /\ q.invalid = r.invalid
      /\ q.ok = TRUE /\ q.alive = r.alive /\ q.running = r.running + 1 /\ q.maxAlive = r.maxAlive
      /\ q \in Registries(T)
  BY <1>r, <1>t, <1>o, ZenonT(30) DEF Registries, StartThread, Check, c
<1> HIDE DEF q, T
<1>2. Frame(r, q, t) /\ ListsOK(q) /\ q.threads[t] = c
  <2>1. Changed(r, q, t, c)
    BY <1>c, <1>1, Zenon DEF InUse, Changed
  <2> QED BY <2>1, ListsKept, Zenon
<1>3. ContextOK(q.threads[t])
  BY <1>r, <1>c, <1>2, Zenon DEF ContextOK
<1>4. RegistryOK(q)
  BY <1>1, <1>2, <1>3, Assemble, Zenon DEF T
<1> QED BY <1>1, <1>2, <1>4, Zenon DEF q, c, Operated

\* SetThreadUserId.
LEMMA SetUserFacts ==
  ASSUME NEW r, NEW t, NEW u \in Slots, RegistryOK(r), t \in DOMAIN r.threads, t # MainTid,
         r.threads[t].status \in {"running", "finished"}, r.threads[t].user = 0
  PROVE  /\ Operated(r, SetThreadUserId(r, t, u), t)
         /\ SetThreadUserId(r, t, u).threads[t] = SetUserId(r.threads[t], u)
         /\ SetThreadUserId(r, t, u).alive = r.alive /\ SetThreadUserId(r, t, u).running = r.running
<1> DEFINE q == SetThreadUserId(r, t, u)
           c == SetUserId(r.threads[t], u)
           T == DOMAIN r.threads
<1>r. /\ r \in Registries(T) /\ r.threads \in [T -> Contexts] /\ r.ok = TRUE
      /\ r.threads[t] \in Contexts /\ ContextOK(r.threads[t])
  BY RegistryParts, Zenon DEF RegistryOK
<1>c. /\ c \in Contexts /\ c.status = r.threads[t].status /\ c.destroyed = r.threads[t].destroyed
      /\ c.detached = r.threads[t].detached
  <2>1. u \in Slots \union {0}
    BY Zenon
  <2> QED BY <1>r, <2>1, UserIs, Zenon
<1> HIDE DEF c
<1>t. [r.threads EXCEPT ![t] = c] \in [T -> Contexts]
  BY <1>r, <1>c, Zenon
<1>o. (r.ok /\ r.threads[t].status \notin {"invalid", "dead"} /\ r.threads[t].user = 0) = TRUE
  BY <1>r, Zenon
<1>1. /\ q.threads = [r.threads EXCEPT ![t] = c] /\ q.dead = r.dead /\ q.invalid = r.invalid
      /\ q.ok = TRUE /\ q.alive = r.alive /\ q.running = r.running /\ q.maxAlive = r.maxAlive
      /\ q \in Registries(T)
  BY <1>r, <1>t, <1>o, ZenonT(30) DEF Registries, SetThreadUserId, Check, c
<1> HIDE DEF q, T
<1>2. Frame(r, q, t) /\ ListsOK(q) /\ q.threads[t] = c
  <2>1. Changed(r, q, t, c)
    BY <1>c, <1>1, Zenon DEF InUse, Changed
  <2> QED BY <2>1, ListsKept, Zenon
<1>3. ContextOK(q.threads[t])
  BY <1>r, <1>c, <1>2, Zenon DEF ContextOK
<1>4. RegistryOK(q)
  BY <1>1, <1>2, <1>3, Assemble, Zenon DEF T
<1> QED BY <1>1, <1>2, <1>4, Zenon DEF q, c, Operated

\* DetachThread, of a thread that runs.
LEMMA DetachRunningFacts ==
  ASSUME NEW r, NEW t, RegistryOK(r), t \in DOMAIN r.threads, t # MainTid,
         r.threads[t].status = "running"
  PROVE  /\ Operated(r, DetachThread(r, t), t)
         /\ DetachThread(r, t).threads[t] = SetDetached(r.threads[t])
         /\ DetachThread(r, t).alive = r.alive /\ DetachThread(r, t).running = r.running
<1> DEFINE q == DetachThread(r, t)
           c == SetDetached(r.threads[t])
           T == DOMAIN r.threads
<1>r. /\ r \in Registries(T) /\ r.threads \in [T -> Contexts] /\ r.ok = TRUE
      /\ r.threads[t] \in Contexts /\ ContextOK(r.threads[t])
  BY RegistryParts, Zenon DEF RegistryOK
<1>c. c \in Contexts /\ c.status = "running" /\ c.destroyed = r.threads[t].destroyed
  <2>1. c \in Contexts /\ c.status = r.threads[t].status /\ c.destroyed = r.threads[t].destroyed
    BY <1>r, DetachedIs, Zenon
  <2> QED BY <2>1, Zenon
<1> HIDE DEF c
<1>t. [r.threads EXCEPT ![t] = c] \in [T -> Contexts]
  BY <1>r, <1>c, Zenon
<1>1. /\ q.threads = [r.threads EXCEPT ![t] = c] /\ q.dead = r.dead /\ q.invalid = r.invalid
      /\ q.ok = TRUE /\ q.alive = r.alive /\ q.running = r.running /\ q.maxAlive = r.maxAlive
      /\ q \in Registries(T)
  <2>1. q = [r EXCEPT !.threads[t] = SetDetached(@)]
    BY Zenon DEF DetachThread
  <2> HIDE DEF q
  <2> QED BY <1>r, <1>t, <2>1, ZenonT(30) DEF Registries, c
<1> HIDE DEF q, T
<1>2. Frame(r, q, t) /\ ListsOK(q) /\ q.threads[t] = c
  <2>1. Changed(r, q, t, c)
    BY <1>c, <1>1, Zenon DEF InUse, Changed
  <2> QED BY <2>1, ListsKept, Zenon
<1>3. ContextOK(q.threads[t])
  BY <1>r, <1>c, <1>2, Zenon DEF ContextOK
<1>4. RegistryOK(q)
  BY <1>1, <1>2, <1>3, Assemble, Zenon DEF T
<1> QED BY <1>1, <1>2, <1>4, Zenon DEF q, c, Operated

Dies(r, t, c, p, q) ==
  /\ q \in Registries(DOMAIN r.threads) /\ q.ok /\ Frame(r, q, t) /\ ListsOK(q) /\ q.threads[t] = c
  /\ q.alive = p.alive /\ q.running = p.running /\ q.maxAlive = p.maxAlive

\* A context whose thread is gone leaves for the quarantine.
LEMMA Burial ==
  ASSUME NEW r, NEW t, NEW c, NEW p, Dying(r, DOMAIN r.threads, t, c, p)
  PROVE  Dies(r, t, c, p, QuarantinePush(p, t))
<1> DEFINE q == QuarantinePush(p, t)
           T == DOMAIN r.threads
<1>1. Buried(T, r, t, c, p, q)
  BY BuryFacts, Zenon
<1> HIDE DEF q
<1>2. DOMAIN q.threads = T
  BY <1>1, Zenon DEF Registries, Buried
<1>3. Frame(r, q, t)
  BY <1>1, <1>2, Zenon DEF Frame, Buried
<1>4. Dies(r, t, c, p, q)
  BY <1>1, <1>3, Zenon DEF Dies, Buried
<1> QED BY <1>4, Zenon DEF q

\* A finished thread that is detached dies.
LEMMA DetachFinishedFacts ==
  ASSUME NEW r, NEW t, RegistryOK(r), t \in DOMAIN r.threads, t # MainTid,
         r.threads[t].status = "finished"
  PROVE  /\ Operated(r, DetachThread(r, t), t)
         /\ DetachThread(r, t).threads[t] = Dead(r.threads[t])
         /\ DetachThread(r, t).alive = r.alive /\ DetachThread(r, t).running = r.running
<1> DEFINE T == DOMAIN r.threads
           c == Dead(r.threads[t])
           p == SetDead(r, t)
           q == QuarantinePush(p, t)
<1>r. /\ r \in Registries(T) /\ r.threads \in [T -> Contexts] /\ r.ok = TRUE
      /\ r.threads[t] \in Contexts /\ ContextOK(r.threads[t])
  BY RegistryParts, Zenon DEF RegistryOK
<1>c. c \in Contexts /\ c.status = "dead" /\ c.user = 0 /\ c.destroyed = r.threads[t].destroyed
  BY <1>r, DeadIs, Zenon
<1>p. /\ p \in Registries(T) /\ p.threads = [r.threads EXCEPT ![t] = Dead(@)]
      /\ p.dead = r.dead /\ p.invalid = r.invalid /\ p.alive = r.alive /\ p.running = r.running
      /\ p.maxAlive = r.maxAlive /\ p.ok = (r.ok /\ r.threads[t].status \in {"running", "finished"})
  <2>1. Died(T, r, t, p)
    BY <1>r, SetDeadFacts, Zenon
  <2> HIDE DEF p
  <2> QED BY <2>1, Zenon DEF Died
<1> HIDE DEF p
<1>d. Dying(r, T, t, c, p)
  BY <1>r, <1>c, <1>p, Zenon DEF Dying
<1>b. Dies(r, t, c, p, q)
  BY <1>d, Burial, Zenon
<1>q. q = DetachThread(r, t)
  BY Zenon DEF DetachThread, p
<1> HIDE DEF q, c
<1>3. ContextOK(q.threads[t])
  BY <1>r, <1>c, <1>b, Zenon DEF ContextOK, Dies
<1>4. RegistryOK(q)
  BY <1>b, <1>3, Assemble, Zenon DEF Dies
<1>5. Operated(r, q, t) /\ q.threads[t] = c /\ q.alive = r.alive /\ q.running = r.running
  BY <1>4, <1>b, <1>p, Zenon DEF Operated, Dies
<1> QED BY <1>5, <1>q, Zenon DEF c

\* The last turn of JoinThread.
LEMMA JoinFacts ==
  ASSUME NEW r, NEW t, RegistryOK(r), t \in DOMAIN r.threads, t # MainTid,
         r.threads[t].status = "finished", ~r.threads[t].detached
  PROVE  /\ Operated(r, JoinThread(r, t), t)
         /\ JoinThread(r, t).threads[t] = Dead(r.threads[t])
         /\ JoinThread(r, t).alive = r.alive /\ JoinThread(r, t).running = r.running
<1> DEFINE T == DOMAIN r.threads
           c == Dead(r.threads[t])
           p == SetJoined(r, t)
           q == QuarantinePush(p, t)
<1>r. /\ r \in Registries(T) /\ r.threads \in [T -> Contexts] /\ r.ok = TRUE
      /\ r.threads[t] \in Contexts /\ ContextOK(r.threads[t])
  BY RegistryParts, Zenon DEF RegistryOK
<1>c. c \in Contexts /\ c.status = "dead" /\ c.user = 0 /\ c.destroyed = r.threads[t].destroyed
  BY <1>r, DeadIs, Zenon
<1>t. [r.threads EXCEPT ![t] = Dead(@)] \in [T -> Contexts]
  BY <1>r, <1>c, Zenon
<1>o. (r.ok /\ ~r.threads[t].detached /\ r.threads[t].status = "finished") = TRUE
  BY <1>r, Zenon
<1> HIDE DEF c
<1>p. /\ p \in Registries(T) /\ p.threads = [r.threads EXCEPT ![t] = c]
      /\ p.dead = r.dead /\ p.invalid = r.invalid /\ p.alive = r.alive /\ p.running = r.running
      /\ p.maxAlive = r.maxAlive /\ p.ok = TRUE
  BY <1>r, <1>t, <1>o, ZenonT(30) DEF Registries, SetJoined, Check, c
<1> HIDE DEF p
<1>d. Dying(r, T, t, c, p)
  BY <1>r, <1>c, <1>p, Zenon DEF Dying
<1>b. Dies(r, t, c, p, q)
  BY <1>d, Burial, Zenon
<1>q. q = JoinThread(r, t)
  BY Zenon DEF JoinThread, p
<1> HIDE DEF q
<1>3. ContextOK(q.threads[t])
  BY <1>r, <1>c, <1>b, Zenon DEF ContextOK, Dies
<1>4. RegistryOK(q)
  BY <1>b, <1>3, Assemble, Zenon DEF Dies
<1>5. Operated(r, q, t) /\ q.threads[t] = c /\ q.alive = r.alive /\ q.running = r.running
  BY <1>4, <1>b, <1>p, Zenon DEF Operated, Dies
<1> QED BY <1>5, <1>q, Zenon DEF c

Marked(T, r, t, q) ==
  /\ q \in Registries(T) /\ q.threads = [r.threads EXCEPT ![t] = SetDestroyed(r.threads[t])]
  /\ q.dead = r.dead /\ q.invalid = r.invalid /\ q.ok = r.ok
  /\ q.alive = r.alive /\ q.running = r.running /\ q.maxAlive = r.maxAlive

\* The mark of an ended thread.
LEMMA MarkFacts ==
  ASSUME NEW T, NEW r \in Registries(T), NEW t \in T
  PROVE  Marked(T, r, t, [r EXCEPT !.threads[t] = SetDestroyed(@)])
<1>1. r.threads \in [T -> Contexts] /\ r.threads[t] \in Contexts
  BY Zenon DEF Registries
<1>2. SetDestroyed(r.threads[t]) \in Contexts
  BY <1>1, DestroyedIs, Zenon
<1>3. [r.threads EXCEPT ![t] = SetDestroyed(r.threads[t])] \in [T -> Contexts]
  BY <1>1, <1>2, Zenon
<1> QED BY <1>3, ZenonT(30) DEF Registries, Marked

\* A context when its thread has ended.
Ended(c) == SetDestroyed(IF c.detached THEN Dead(SetFinished(c)) ELSE SetFinished(c))

\* A detached thread is dead at its end, another waits for its join.
LEMMA EndedIs ==
  ASSUME NEW c \in Contexts, c.status = "running"
  PROVE  /\ Ended(c).status = (IF c.detached THEN "dead" ELSE "finished")
         /\ Ended(c).user = (IF c.detached THEN 0 ELSE c.user)
         /\ Ended(c).detached = c.detached /\ Ended(c).destroyed = TRUE
<1> DEFINE f == SetFinished(c)
<1>f. /\ f \in Contexts /\ f.user = c.user /\ f.detached = c.detached
      /\ (~c.detached => f.status = "finished")
  BY FinishedIs, Zenon
<1> HIDE DEF f
<1>1. CASE c.detached
  <2> DEFINE e == Dead(f)
  <2>1. e \in Contexts /\ e.status = "dead" /\ e.user = 0 /\ e.detached = c.detached
    BY <1>f, DeadIs, Zenon
  <2> HIDE DEF e
  <2>2. /\ SetDestroyed(e).status = "dead" /\ SetDestroyed(e).user = 0
        /\ SetDestroyed(e).detached = c.detached /\ SetDestroyed(e).destroyed = TRUE
    BY <2>1, DestroyedIs, Zenon
  <2>3. Ended(c) = SetDestroyed(e)
    BY <1>1, Zenon DEF Ended, e, f
  <2> QED BY <1>1, <2>2, <2>3, Zenon
<1>2. CASE ~c.detached
  <2>2. /\ SetDestroyed(f).status = "finished" /\ SetDestroyed(f).user = c.user
        /\ SetDestroyed(f).detached = c.detached /\ SetDestroyed(f).destroyed = TRUE
    BY <1>2, <1>f, DestroyedIs, Zenon
  <2>3. Ended(c) = SetDestroyed(f)
    BY <1>2, Zenon DEF Ended, f
  <2> QED BY <1>2, <2>2, <2>3, Zenon
<1> QED BY <1>1, <1>2, Zenon

\* FinishThread, of a thread that has run.
LEMMA FinishFacts ==
  ASSUME NEW r, NEW t, RegistryOK(r), t \in DOMAIN r.threads, t # MainTid,
         r.threads[t].status = "running", r.alive > 0, r.running > 0
  PROVE  /\ Operated(r, FinishThread(r, t), t)
         /\ FinishThread(r, t).threads[t] = Ended(r.threads[t])
         /\ FinishThread(r, t).alive = r.alive - 1 /\ FinishThread(r, t).running = r.running - 1
<1> DEFINE T == DOMAIN r.threads
           o == r.threads[t]
           c == SetFinished(o)
           ran == o.status = "running"
           r1 == [Check(r, r.alive > 0 /\ (IF ran THEN r.running > 0 ELSE o.status = "created")) EXCEPT
                    !.alive = @ - 1, !.running = IF ran THEN @ - 1 ELSE @, !.threads[t] = SetFinished(@)]
           r2 == IF o.detached \/ ~ran THEN QuarantinePush(SetDead(r1, t), t) ELSE r1
           q == [r2 EXCEPT !.threads[t] = SetDestroyed(@)]
<1>q. q = FinishThread(r, t)
  BY Zenon DEF FinishThread
<1>r. /\ r \in Registries(T) /\ r.threads \in [T -> Contexts] /\ r.ok = TRUE
      /\ o \in Contexts /\ ContextOK(o) /\ r.alive \in Nat /\ r.running \in Nat
  BY RegistryParts, Zenon DEF RegistryOK
<1>c. /\ c \in Contexts /\ c.detached = o.detached
      /\ (~o.detached => c.status = "finished") /\ (o.detached => c.status = "running")
  BY <1>r, FinishedIs, Zenon
<1>t. [r.threads EXCEPT ![t] = c] \in [T -> Contexts]
  BY <1>r, <1>c, Zenon
<1>o. (r.ok /\ r.alive > 0 /\ (IF ran THEN r.running > 0 ELSE o.status = "created")) = TRUE
  BY <1>r, Zenon
<1>n. r.alive - 1 \in Nat /\ r.running - 1 \in Nat
  BY <1>r, SMT
<1>1. /\ r1 \in Registries(T) /\ r1.threads = [r.threads EXCEPT ![t] = c]
      /\ r1.dead = r.dead /\ r1.invalid = r.invalid /\ r1.ok = TRUE
      /\ r1.alive = r.alive - 1 /\ r1.running = r.running - 1 /\ r1.maxAlive = r.maxAlive
  BY <1>r, <1>t, <1>o, <1>n, ZenonT(30) DEF Registries, Check
<1>e. Ended(o).destroyed = TRUE /\ Ended(o).status = (IF o.detached THEN "dead" ELSE "finished")
      /\ Ended(o).user = (IF o.detached THEN 0 ELSE o.user) /\ Ended(o).detached = o.detached
  BY <1>r, EndedIs, Zenon
<1>g. SetDestroyed(c) = Ended(o) \/ o.detached
  BY Zenon DEF Ended
<1>h. SetDestroyed(Dead(c)) = Ended(o) \/ ~o.detached
  BY Zenon DEF Ended
<1> HIDE DEF r1, c
<1> SUFFICES /\ RegistryOK(q) /\ Frame(r, q, t) /\ q.maxAlive = r.maxAlive
             /\ q.threads[t] = Ended(o) /\ q.alive = r.alive - 1 /\ q.running = r.running - 1
  BY <1>q, Zenon DEF Operated
<1>k. ContextOK(Ended(o))
  BY <1>e, Zenon DEF ContextOK
<1>2. CASE ~o.detached
  <2>1. q = [r1 EXCEPT !.threads[t] = SetDestroyed(@)]
    BY <1>2, Zenon
  <2> HIDE DEF q
  <2>2. /\ q \in Registries(T) /\ q.threads = [r1.threads EXCEPT ![t] = SetDestroyed(r1.threads[t])]
        /\ q.dead = r1.dead /\ q.invalid = r1.invalid /\ q.ok = r1.ok
        /\ q.alive = r1.alive /\ q.running = r1.running /\ q.maxAlive = r1.maxAlive
    <3>1. r1 \in Registries(T)
      BY <1>1, Zenon
    <3>2. Marked(T, r1, t, q)
      BY <2>1, <3>1, MarkFacts, Zenon
    <3> QED BY <3>2, Zenon DEF Marked
  <2>3. q.threads = [r.threads EXCEPT ![t] = Ended(o)]
    <3>1. r1.threads[t] = c
      BY <1>1, <1>r, Zenon
    <3>2. q.threads = [r1.threads EXCEPT ![t] = Ended(o)]
      BY <1>2, <1>g, <2>2, <3>1, Zenon
    <3> QED BY <1>1, <1>r, <3>2, Zenon
  <2>4. Frame(r, q, t) /\ ListsOK(q) /\ q.threads[t] = Ended(o)
    <3>1. Changed(r, q, t, Ended(o))
      BY <1>2, <1>1, <1>e, <2>2, <2>3, Zenon DEF Changed, InUse
    <3> QED BY <3>1, ListsKept, Zenon
  <2>5. RegistryOK(q)
    BY <1>k, <1>1, <2>2, <2>4, Assemble, Zenon
  <2> QED BY <1>1, <2>2, <2>4, <2>5, Zenon
<1>3. CASE o.detached
  <2> DEFINE p == SetDead(r1, t)
             z == QuarantinePush(p, t)
  <2>1. q = [z EXCEPT !.threads[t] = SetDestroyed(@)]
    BY <1>3, Zenon
  <2>c. Dead(c) \in Contexts /\ Dead(c).status = "dead"
    BY <1>c, DeadIs, Zenon
  <2>p. /\ p \in Registries(T) /\ p.threads = [r1.threads EXCEPT ![t] = Dead(@)]
        /\ p.dead = r1.dead /\ p.invalid = r1.invalid /\ p.alive = r1.alive /\ p.running = r1.running
        /\ p.maxAlive = r1.maxAlive /\ p.ok = (r1.ok /\ r1.threads[t].status \in {"running", "finished"})
    <3>1. r1 \in Registries(T)
      BY <1>1, Zenon
    <3>2. Died(T, r1, t, p)
      BY <3>1, SetDeadFacts, Zenon
    <3> HIDE DEF p
    <3> QED BY <3>2, Zenon DEF Died
  <2> HIDE DEF q, p
  <2>d. Dying(r, T, t, Dead(c), p)
    <3>1. r1.threads[t] = c
      BY <1>1, <1>r, Zenon
    <3>2. p.threads = [r1.threads EXCEPT ![t] = Dead(c)]
      BY <2>p, <3>1, Zenon
    <3>3. p.threads = [r.threads EXCEPT ![t] = Dead(c)]
      BY <1>1, <1>r, <3>2, Zenon
    <3>4. p.ok
      BY <1>1, <1>3, <1>c, <2>p, <3>1, Zenon
    <3> QED BY <1>1, <2>c, <2>p, <3>3, <3>4, Zenon DEF Dying
  <2>b. Dies(r, t, Dead(c), p, z)
    BY <2>d, Burial, Zenon
  <2> HIDE DEF z
  <2>z. /\ z \in Registries(T) /\ z.ok /\ Frame(r, z, t) /\ ListsOK(z) /\ z.threads[t] = Dead(c)
        /\ z.alive = r.alive - 1 /\ z.running = r.running - 1 /\ z.maxAlive = r.maxAlive
    BY <1>1, <2>p, <2>b, Zenon DEF Dies
  <2>2. /\ q \in Registries(T) /\ q.threads = [z.threads EXCEPT ![t] = SetDestroyed(z.threads[t])]
        /\ q.dead = z.dead /\ q.invalid = z.invalid /\ q.ok = z.ok
        /\ q.alive = z.alive /\ q.running = z.running /\ q.maxAlive = z.maxAlive
    <3>1. z \in Registries(T)
      BY <2>z, Zenon
    <3>2. Marked(T, z, t, q)
      BY <2>1, <3>1, MarkFacts, Zenon
    <3> QED BY <3>2, Zenon DEF Marked
  <2>3. /\ q.threads[t] = Ended(o) /\ DOMAIN z.threads = T /\ DOMAIN q.threads = T
        /\ \A x \in T : x # t => q.threads[x] = z.threads[x]
    <3>1. z.threads \in [T -> Contexts]
      BY <2>z, Zenon DEF Registries
    <3>2. q.threads = [z.threads EXCEPT ![t] = Ended(o)]
      BY <1>3, <1>h, <2>2, <2>z, Zenon
    <3> QED BY <3>1, <3>2, Zenon
  <2>4. Frame(r, q, t)
    BY <2>z, <2>2, <2>3, Zenon DEF Frame
  <2>5. ListsOK(q)
    <3>1. \A x \in T : q.threads[x].status = z.threads[x].status /\ q.threads[x].reuse = z.threads[x].reuse
      <4>1. /\ SetDestroyed(Dead(c)).status = Dead(c).status
            /\ SetDestroyed(Dead(c)).reuse = Dead(c).reuse
        BY <2>c, DestroyedIs, Zenon
      <4>2. q.threads[t] = SetDestroyed(Dead(c)) /\ z.threads[t] = Dead(c)
        BY <1>3, <1>h, <2>3, <2>z, Zenon
      <4> QED BY <2>3, <4>1, <4>2, Zenon
    <3>2. /\ IsInjective(q.dead) /\ IsInjective(q.invalid) /\ Len(q.dead) <= QuarantineSize
      BY <2>z, <2>2, Zenon DEF ListsOK
    <3>3. \A x \in T : x \in Range(q.dead) <=> q.threads[x].status = "dead"
      BY <2>z, <2>2, <2>3, <3>1, ZenonT(120) DEF ListsOK
    <3>4. \A x \in T : x \in Range(q.invalid) <=>
            q.threads[x].status = "invalid" /\ (MaxReuse = 0 \/ q.threads[x].reuse < MaxReuse)
      <4>1. \A x \in T : x \in Range(z.invalid) <=>
              z.threads[x].status = "invalid" /\ (MaxReuse = 0 \/ z.threads[x].reuse < MaxReuse)
        BY <2>z, <2>3, Zenon DEF ListsOK
      <4> SUFFICES ASSUME NEW x \in T
                   PROVE  x \in Range(q.invalid) <=>
                            q.threads[x].status = "invalid" /\ (MaxReuse = 0 \/ q.threads[x].reuse < MaxReuse)
        BY Zenon
      <4> QED BY <2>2, <3>1, <4>1, Zenon
    <3> QED BY <2>3, <3>2, <3>3, <3>4, Zenon DEF ListsOK
  <2>6. RegistryOK(q)
    BY <1>k, <2>z, <2>2, <2>3, <2>4, <2>5, Assemble, Zenon
  <2> QED BY <2>z, <2>2, <2>3, <2>4, <2>6, Zenon
<1> QED BY <1>2, <1>3, Zenon

\* q is r with the handle s taken away.
Took(r, s, q) ==
  /\ RegistryOK(q) /\ DOMAIN q.threads = DOMAIN r.threads
  /\ q.dead = r.dead /\ q.invalid = r.invalid
  /\ q.alive = r.alive /\ q.running = r.running /\ q.maxAlive = r.maxAlive
  /\ \A x \in DOMAIN r.threads :
       /\ q.threads[x].status = r.threads[x].status /\ q.threads[x].detached = r.threads[x].detached
       /\ q.threads[x].user = IF r.threads[x].user = s THEN 0 ELSE r.threads[x].user

\* ConsumeThreadByUid changes nothing but the handle.
LEMMA ConsumeFacts ==
  ASSUME NEW r, NEW s \in Slots, RegistryOK(r)
  PROVE  Took(r, s, Consumed(r, s))
<1> DEFINE T == DOMAIN r.threads
           f == [x \in T |-> IF x \in Matching(r, s) THEN SetUserId(r.threads[x], 0) ELSE r.threads[x]]
           q == Consumed(r, s)
<1>r. /\ r \in Registries(T) /\ r.threads \in [T -> Contexts] /\ r.ok = TRUE
      /\ \A x \in T : r.threads[x] \in Contexts /\ ContextOK(r.threads[x])
  BY RegistryParts, Zenon DEF RegistryOK
<1>0. s # 0
  BY HandlesAssumption, Zenon
<1>f. ASSUME NEW x \in T
      PROVE  /\ f[x] \in Contexts /\ f[x].status = r.threads[x].status /\ f[x].detached = r.threads[x].detached
             /\ f[x].destroyed = r.threads[x].destroyed /\ f[x].reuse = r.threads[x].reuse
             /\ f[x].user = IF r.threads[x].user = s THEN 0 ELSE r.threads[x].user
  <2> DEFINE c == r.threads[x]
  <2>1. CASE x \in Matching(r, s)
    <3>1. f[x] = SetUserId(c, 0) /\ c.user = s
      BY <2>1, Zenon DEF Matching
    <3>2. c \in Contexts /\ 0 \in Slots \union {0}
      BY <1>r, Zenon
    <3> HIDE DEF f, c
    <3>3. /\ SetUserId(c, 0) \in Contexts /\ SetUserId(c, 0).status = c.status
          /\ SetUserId(c, 0).user = 0 /\ SetUserId(c, 0).detached = c.detached
          /\ SetUserId(c, 0).destroyed = c.destroyed /\ SetUserId(c, 0).reuse = c.reuse
      BY <3>2, UserIs, Zenon
    <3> QED BY <3>1, <3>3, Zenon DEF c
  <2>2. CASE x \notin Matching(r, s)
    <3>1. f[x] = c /\ (c.user = s => c.status = "invalid")
      BY <2>2, Zenon DEF Matching
    <3>2. c \in Contexts /\ (c.status = "invalid" => c.user = 0)
      BY <1>r, Zenon DEF ContextOK
    <3> HIDE DEF f
    <3> QED BY <1>0, <3>1, <3>2, Zenon
  <2> QED BY <2>1, <2>2, Zenon
<1>t. f \in [T -> Contexts]
  BY <1>f, Zenon
<1>q. q = [r EXCEPT !.threads = f]
  BY Zenon DEF Consumed
<1> HIDE DEF f, q
<1>1. /\ q \in Registries(T) /\ q.threads = f /\ q.dead = r.dead /\ q.invalid = r.invalid /\ q.ok = TRUE
      /\ q.alive = r.alive /\ q.running = r.running /\ q.maxAlive = r.maxAlive
  BY <1>r, <1>t, <1>q, ZenonT(30) DEF Registries
<1>d. DOMAIN q.threads = T
  BY <1>1, <1>t, Zenon
<1>2. ListsOK(q)
  <2>1. /\ IsInjective(q.dead) /\ IsInjective(q.invalid) /\ Len(q.dead) <= QuarantineSize
    BY <1>1, Zenon DEF RegistryOK, ListsOK
  <2>2. ASSUME NEW x \in T PROVE x \in Range(q.dead) <=> q.threads[x].status = "dead"
    BY <1>1, <1>f, ZenonT(60) DEF RegistryOK, ListsOK
  <2>3. ASSUME NEW x \in T
        PROVE  x \in Range(q.invalid) <=>
                 q.threads[x].status = "invalid" /\ (MaxReuse = 0 \/ q.threads[x].reuse < MaxReuse)
    <3>1. x \in Range(r.invalid) <=>
            r.threads[x].status = "invalid" /\ (MaxReuse = 0 \/ r.threads[x].reuse < MaxReuse)
      BY Zenon DEF RegistryOK, ListsOK
    <3>2. q.threads[x].status = r.threads[x].status /\ q.threads[x].reuse = r.threads[x].reuse
      BY <1>1, <1>f, Zenon
    <3> QED BY <1>1, <3>1, <3>2, Zenon
  <2> QED BY <1>d, <2>1, <2>2, <2>3, Zenon DEF ListsOK
<1>3. ASSUME NEW x \in T PROVE ContextOK(q.threads[x])
  <2> DEFINE a == r.threads[x]
             b == q.threads[x]
  <2>1. /\ b.status = a.status /\ b.detached = a.detached /\ b.destroyed = a.destroyed
        /\ (a.user = 0 => b.user = 0)
    BY <1>1, <1>f, <1>0, Zenon
  <2>2. ContextOK(a)
    BY <1>r, Zenon
  <2> HIDE DEF a, b
  <2>3. ContextOK(b)
    BY <2>1, <2>2, Zenon DEF ContextOK
  <2> QED BY <2>3, Zenon DEF b
<1>4. MarksOK(q)
  BY <1>d, <1>3, Zenon DEF MarksOK, ContextOK
<1>n. Numbered(T)
  BY Zenon DEF RegistryOK
<1>5. ContextsOK(q)
  <2>1. MainTid \in T
    BY <1>n, SMT DEF Numbered, MainTid
  <2>2. q.threads[MainTid].status = "running" /\ q.threads[MainTid].user = 0
    BY <1>1, <1>f, <2>1, Zenon DEF RegistryOK, ContextsOK
  <2> QED BY <1>d, <1>3, <2>2, Zenon DEF ContextsOK, ContextOK
<1>6. RegistryOK(q)
  BY <1>n, <1>d, <1>1, <1>2, <1>4, <1>5, Zenon DEF RegistryOK
<1>7. Took(r, s, q)
  BY <1>1, <1>d, <1>f, <1>6, Zenon DEF Took
<1> QED BY <1>7, Zenon DEF q

IntervalSizes == \A n \in Nat : Cardinality(0..n - 1) = n

\* q is r with a new thread in the context t.
New(r, u, d, t, q) ==
  /\ RegistryOK(q) /\ DOMAIN q.threads = DOMAIN r.threads \union {t}
  /\ t \in 1..MaxThreads - 1 /\ t # MainTid
  /\ t \in DOMAIN r.threads => r.threads[t].status = "invalid"
  /\ q.threads[t].status = "created" /\ q.threads[t].user = u /\ q.threads[t].detached = d
  /\ \A x \in DOMAIN r.threads : x # t => q.threads[x] = r.threads[x]
  /\ q.alive = r.alive + 1 /\ q.running = r.running
  /\ q.maxAlive = IF r.maxAlive < r.alive + 1 THEN r.maxAlive + 1 ELSE r.maxAlive

CreatedAs(c, u, d, e) ==
  /\ e \in Contexts /\ e.status = "created" /\ e.user = u /\ e.detached = d
  /\ e.destroyed = c.destroyed

\* OnCreated on a context.
LEMMA CreatedIs ==
  ASSUME NEW c \in Contexts, NEW u \in Slots \union {0}, NEW d \in BOOLEAN, NEW n \in Nat
  PROVE  CreatedAs(c, u, d, SetCreated(c, u, d, n))
BY ZenonT(30) DEF Contexts, Statuses, SetCreated, CreatedAs

\* A new context is like one that waits for reuse.
LEMMA FreshIs == Fresh \in Contexts /\ Fresh.status = "invalid" /\ Fresh.destroyed = FALSE
<1>1. 0 \in Nat
  BY SMT
<1> QED BY <1>1, ZenonT(30) DEF Fresh, Contexts, Statuses

\* The next tid is that of no thread in use, and never the main one.
LEMMA NextTidFacts ==
  ASSUME NEW r, RegistryOK(r), CanCreate(r), IntervalSizes
  PROVE  /\ Numbered(DOMAIN r.threads \union {NextTid(r)})
         /\ NextTid(r) \in 1..MaxThreads - 1 /\ NextTid(r) # MainTid
         /\ r.invalid = <<>> => NextTid(r) \notin DOMAIN r.threads
         /\ r.invalid # <<>> => NextTid(r) \in DOMAIN r.threads /\ r.threads[NextTid(r)].status = "invalid"
<1> DEFINE T == DOMAIN r.threads
<1>r. r.invalid \in Seq(T) /\ Numbered(T) /\ r.threads[MainTid].status = "running"
  BY RegistryParts, Zenon DEF RegistryOK, ContextsOK
<1>l. IsInjective(r.invalid) /\ \A x \in T : x \in Range(r.invalid) => r.threads[x].status = "invalid"
  BY Zenon DEF RegistryOK, ListsOK
<1>n. PICK n \in 1..MaxThreads : T = 0..n - 1 /\ Cardinality(T) = n
  BY <1>r, Zenon DEF Numbered
<1>m. MaxThreads \in Nat
  BY RegistryConstants, Zenon
<1>1. CASE r.invalid # <<>>
  <2> DEFINE h == Head(r.invalid)
  <2>1. TailIs(T, r.invalid)
    BY <1>1, <1>r, <1>l, TailFacts, Zenon
  <2>2. h \in T /\ r.threads[h].status = "invalid" /\ NextTid(r) = h
    BY <1>1, <1>l, <2>1, Zenon DEF TailIs, NextTid
  <2> HIDE DEF h, T
  <2>3. h # MainTid /\ T \union {h} = T
    BY <1>r, <2>2, Zenon
  <2>4. h \in 1..MaxThreads - 1
    BY <1>n, <1>m, <2>2, <2>3, SMT DEF MainTid
  <2> QED BY <1>1, <1>r, <2>2, <2>3, <2>4, Zenon DEF T
<1>2. CASE r.invalid = <<>>
  <2>1. NextTid(r) = n /\ n < MaxThreads
    BY <1>2, <1>n, Zenon DEF NextTid, CanCreate
  <2> HIDE DEF T
  <2>2. n + 1 \in 1..MaxThreads /\ T \union {n} = 0..(n + 1) - 1 /\ n \notin T /\ n \in 1..MaxThreads - 1 /\ n # 0
    BY <1>n, <1>m, <2>1, SMT
  <2>3. Cardinality(0..(n + 1) - 1) = n + 1
    <3>1. n + 1 \in Nat
      BY <2>2, SMT
    <3> QED BY <3>1, Zenon DEF IntervalSizes
  <2>4. Numbered(T \union {n})
    BY <2>2, <2>3, Zenon DEF Numbered
  <2> QED BY <1>2, <2>1, <2>2, <2>4, Zenon DEF T, MainTid
<1> QED BY <1>1, <1>2, Zenon

\* CreateThread.
LEMMA CreateFacts ==
  ASSUME NEW r, NEW u \in Slots, NEW d \in BOOLEAN, RegistryOK(r), CanCreate(r), IntervalSizes
  PROVE  New(r, u, d, NextTid(r), CreateThread(r, u, d))
<1> DEFINE T == DOMAIN r.threads
           t == NextTid(r)
           S == T \union {t}
           g == [x \in S |-> IF x \in T THEN r.threads[x] ELSE Fresh]
           v == IF r.invalid # <<>> THEN Tail(r.invalid) ELSE r.invalid
           r1 == [r EXCEPT !.threads = g, !.invalid = v]
           c == SetCreated(g[t], u, d, r.total)
           m == IF r.maxAlive < r.alive + 1 THEN r.maxAlive + 1 ELSE r.maxAlive
           q == [Check(r1, t < MaxThreads /\ r1.threads[t].status = "invalid") EXCEPT
                   !.alive = @ + 1, !.maxAlive = IF @ < r.alive + 1 THEN @ + 1 ELSE @,
                   !.total = @ + 1, !.threads[t] = SetCreated(@, u, d, r.total)]
<1>q. q = CreateThread(r, u, d)
  BY Zenon DEF CreateThread
<1>r. /\ r \in Registries(T) /\ r.threads \in [T -> Contexts] /\ r.dead \in Seq(T) /\ r.invalid \in Seq(T)
      /\ r.total \in Nat /\ r.alive \in Nat /\ r.maxAlive \in Nat /\ r.running \in Nat /\ r.ok = TRUE
      /\ \A x \in T : r.threads[x] \in Contexts /\ ContextOK(r.threads[x])
  BY RegistryParts, Zenon DEF RegistryOK
<1>t. /\ Numbered(S) /\ t \in 1..MaxThreads - 1 /\ t # MainTid
      /\ r.invalid = <<>> => t \notin T
      /\ r.invalid # <<>> => t \in T /\ r.threads[t].status = "invalid"
  BY NextTidFacts, Zenon
<1>m. t < MaxThreads /\ m \in Nat /\ r.alive + 1 \in Nat /\ r.total + 1 \in Nat
  <2> HIDE DEF t
  <2>1. t < MaxThreads
    BY <1>t, RegistryConstants, SMT
  <2>2. m \in Nat /\ r.alive + 1 \in Nat /\ r.total + 1 \in Nat
    BY <1>r, SMTT(60)
  <2> QED BY <2>1, <2>2, Zenon
<1>v. /\ v \in Seq(S) /\ r.dead \in Seq(S) /\ IsInjective(v) /\ t \notin Range(v) /\ t \notin Range(r.dead)
      /\ \A x \in S : x # t => (x \in Range(v) <=> x \in Range(r.invalid)) /\ (x \notin T => x \notin Range(r.dead))
  <2> HIDE DEF t
  <2>s. Range(r.dead) \subseteq T /\ Range(r.invalid) \subseteq T
    BY <1>r, SMT DEF Range
  <2>d. r.dead \in Seq(S) /\ (\A x \in Seq(T) : x \in Seq(S))
    BY <1>r, SMT
  <2>l. /\ IsInjective(r.invalid)
        /\ \A x \in T : x \in Range(r.dead) => r.threads[x].status = "dead"
    BY Zenon DEF RegistryOK, ListsOK
  <2>t. t \notin Range(r.dead)
    BY <1>t, <2>s, <2>l, Zenon
  <2>1. CASE r.invalid # <<>>
    <3>1. TailIs(T, r.invalid)
      BY <1>r, <2>1, <2>l, TailFacts, Zenon
    <3>2. v = Tail(r.invalid) /\ t = Head(r.invalid)
      BY <2>1, Zenon DEF NextTid, t
    <3> HIDE DEF v
    <3>3. /\ Tail(r.invalid) \in Seq(T) /\ IsInjective(Tail(r.invalid))
          /\ \A x \in T : x \in Range(Tail(r.invalid)) <=> x \in Range(r.invalid) /\ x # Head(r.invalid)
      BY <3>1, Zenon DEF TailIs
    <3>4. v \in Seq(S) /\ IsInjective(v) /\ t \in T
      BY <1>t, <2>1, <2>d, <3>2, <3>3, Zenon
    <3>5. \A x \in T : x \in Range(v) <=> x \in Range(r.invalid) /\ x # t
      BY <3>2, <3>3, Zenon
    <3> QED BY <2>s, <2>d, <2>t, <3>4, <3>5, Zenon
  <2>2. CASE r.invalid = <<>>
    <3>1. v = r.invalid /\ t \notin T
      BY <1>t, <2>2, Zenon
    <3> HIDE DEF v
    <3> QED BY <1>r, <2>s, <2>d, <2>l, <2>t, <3>1, Zenon
  <2> QED BY <2>1, <2>2, Zenon
<1>o. g[t] \in Contexts /\ g[t].status = "invalid" /\ g[t].destroyed = FALSE
  <2>1. CASE t \in T
    <3>1. g[t] = r.threads[t]
      BY <2>1, Zenon
    <3>2. r.threads[t] \in Contexts /\ r.threads[t].status = "invalid" /\ ContextOK(r.threads[t])
      BY <1>r, <1>t, <2>1, Zenon
    <3>3. r.threads[t].destroyed \in BOOLEAN
      BY <3>2, Zenon DEF Contexts
    <3> QED BY <3>1, <3>2, <3>3, Zenon DEF ContextOK
  <2>2. CASE t \notin T
    <3>1. g[t] = Fresh
      BY <2>2, Zenon
    <3> QED BY <3>1, FreshIs, Zenon
  <2> QED BY <2>1, <2>2, Zenon
<1>g. g \in [S -> Contexts] /\ \A x \in T : g[x] = r.threads[x]
  <2>1. \A x \in S : g[x] \in Contexts
    BY <1>r, FreshIs, Zenon
  <2> QED BY <2>1, Zenon
<1> HIDE DEF g, v, t, S, T
<1>1. /\ r1 \in Registries(S) /\ r1.threads = g /\ r1.invalid = v /\ r1.dead = r.dead /\ r1.ok = TRUE
      /\ r1.total = r.total /\ r1.alive = r.alive /\ r1.maxAlive = r.maxAlive /\ r1.running = r.running
  BY <1>r, <1>g, <1>v, ZenonT(30) DEF Registries
<1> HIDE DEF r1
<1>s. t \in S /\ S = T \union {t}
  BY Zenon DEF S
<1>c. /\ c \in Contexts /\ c.status = "created" /\ c.user = u /\ c.detached = d /\ c.destroyed = FALSE
  <2>1. u \in Slots \union {0}
    BY Zenon
  <2> DEFINE o == g[t]
  <2>2. o \in Contexts /\ o.destroyed = FALSE /\ r.total \in Nat
    BY <1>o, <1>r, Zenon
  <2> HIDE DEF o
  <2>3. CreatedAs(o, u, d, SetCreated(o, u, d, r.total))
    BY <2>1, <2>2, CreatedIs, Zenon
  <2>4. CreatedAs(o, u, d, c)
    BY <2>3, Zenon DEF o
  <2> HIDE DEF c
  <2> QED BY <2>2, <2>4, Zenon DEF CreatedAs
<1>2. [g EXCEPT ![t] = c] \in [S -> Contexts]
  BY <1>c, <1>g, <1>s, Zenon
<1>3. (r1.ok /\ t < MaxThreads /\ r1.threads[t].status = "invalid") = TRUE
  BY <1>1, <1>m, <1>o, Zenon
<1>4. /\ q \in Registries(S) /\ q.threads = [g EXCEPT ![t] = c] /\ q.invalid = v /\ q.dead = r.dead
      /\ q.ok = TRUE /\ q.alive = r.alive + 1 /\ q.running = r.running /\ q.maxAlive = m
  BY <1>1, <1>2, <1>3, <1>m, ZenonT(30) DEF Registries, Check
<1> HIDE DEF q, c, m
<1>5. /\ q.threads[t] = c /\ DOMAIN q.threads = S
      /\ \A x \in T : x # t => q.threads[x] = r.threads[x]
  BY <1>4, <1>g, <1>s, Zenon
<1>6. ListsOK(q)
  <2>l. /\ IsInjective(r.dead) /\ Len(r.dead) <= QuarantineSize
        /\ \A x \in T : x \in Range(r.dead) <=> r.threads[x].status = "dead"
        /\ \A x \in T : x \in Range(r.invalid) <=>
              r.threads[x].status = "invalid" /\ (MaxReuse = 0 \/ r.threads[x].reuse < MaxReuse)
    BY Zenon DEF RegistryOK, ListsOK, T
  <2>1. ASSUME NEW x \in S PROVE x \in Range(q.dead) <=> q.threads[x].status = "dead"
    <3>1. CASE x = t
      BY <1>4, <1>5, <1>c, <1>v, <3>1, Zenon
    <3>2. CASE x # t
      BY <1>4, <1>5, <1>s, <2>l, <3>2, ZenonT(60)
    <3> QED BY <3>1, <3>2, Zenon
  <2>2. ASSUME NEW x \in S
        PROVE  x \in Range(q.invalid) <=>
                 q.threads[x].status = "invalid" /\ (MaxReuse = 0 \/ q.threads[x].reuse < MaxReuse)
    <3>1. CASE x = t
      BY <1>4, <1>5, <1>c, <1>v, <3>1, Zenon
    <3>2. CASE x # t
      BY <1>4, <1>5, <1>s, <1>v, <2>l, <3>2, ZenonT(60)
    <3> QED BY <3>1, <3>2, Zenon
  <2> QED BY <1>4, <1>5, <1>v, <2>l, <2>1, <2>2, Zenon DEF ListsOK
<1>7. \A x \in S : ContextOK(q.threads[x])
  <2>1. ContextOK(c)
    BY <1>c, Zenon DEF ContextOK
  <2> QED BY <1>5, <1>r, <1>s, <2>1, Zenon
<1>8. MarksOK(q)
  BY <1>5, <1>7, Zenon DEF MarksOK, ContextOK
<1>9. ContextsOK(q)
  <2>1. MainTid \in S
    BY <1>t, SMT DEF Numbered, MainTid
  <2>2. q.threads[MainTid] = r.threads[MainTid]
    BY <1>t, <1>s, <1>5, <2>1, Zenon
  <2> QED BY <1>5, <1>7, <2>2, Zenon DEF ContextsOK, ContextOK, RegistryOK
<1>10. RegistryOK(q)
  BY <1>t, <1>4, <1>5, <1>6, <1>8, <1>9, Zenon DEF RegistryOK
<1>11. t \in T => r.threads[t].status = "invalid"
  BY <1>t, Zenon
<1>12. New(r, u, d, t, q)
  BY <1>c, <1>s, <1>t, <1>4, <1>5, <1>10, <1>11, Zenon DEF New, T, m
<1> QED BY <1>12, <1>q, Zenon DEF t

-----------------------------------------------------------------------------
(* What an operation leaves as it was.                                      *)

\* What an operation on t does to the other contexts, seen from the threads.
Rest(r, q, t) ==
  /\ DOMAIN q.threads = DOMAIN r.threads
  /\ \A x \in DOMAIN r.threads : x # t =>
       /\ q.threads[x].user = r.threads[x].user /\ q.threads[x].detached = r.threads[x].detached
       /\ q.threads[x].status = r.threads[x].status
            \/ (r.threads[x].status = "dead" /\ q.threads[x].status = "invalid")
  /\ CanCreate(r) => CanCreate(q)

\* An operation on t moves at most one other context: out of the quarantine.
LEMMA RestFacts ==
  ASSUME NEW r, NEW q, NEW t, RegistryOK(r), Operated(r, q, t)
  PROVE  RegistryOK(q) /\ Rest(r, q, t)
<1>1. RegistryOK(q) /\ Frame(r, q, t)
  BY Zenon DEF Operated
<1>2. ASSUME NEW x \in DOMAIN r.threads, x # t
      PROVE  /\ q.threads[x].user = r.threads[x].user /\ q.threads[x].detached = r.threads[x].detached
             /\ q.threads[x].status = r.threads[x].status
                  \/ (r.threads[x].status = "dead" /\ q.threads[x].status = "invalid")
  <2>1. CASE q.threads[x] = r.threads[x]
    BY <2>1, Zenon
  <2>2. CASE Recycled(r.threads[x], q.threads[x])
    <3> DEFINE c == r.threads[x]
    <3>1. c \in Contexts
      BY RegistryParts, Zenon
    <3>2. q.threads[x] = Reset(c) /\ c.status = "dead"
      BY <2>2, Zenon DEF Recycled
    <3> HIDE DEF c
    <3>3. Reset(c).status = "invalid" /\ Reset(c).user = c.user /\ Reset(c).detached = c.detached
      BY <3>1, ResetIs, Zenon
    <3> QED BY <3>2, <3>3, Zenon DEF c
  <2> QED BY <1>1, <1>2, <2>1, <2>2, Zenon DEF Frame
<1>3. CanCreate(r) => CanCreate(q)
  BY <1>1, Zenon DEF CanCreate, Frame
<1> QED BY <1>1, <1>2, <1>3, Zenon DEF Rest, Frame

\* kInvalidTid is no tid, and the main thread is no slot.
LEMMA NoTidFacts ==
  ASSUME RegistryOK(reg)
  PROVE  NoTid \notin Tids /\ MainTid \in Tids /\ Tids \subseteq 0..MaxThreads - 1
<1>1. Numbered(DOMAIN reg.threads)
  BY Zenon DEF RegistryOK
<1> QED BY <1>1, RegistryConstants, SMT DEF NoTid, Tids, Numbered, MainTid

-----------------------------------------------------------------------------
(* The steps.                                                               *)

\* The library starts a thread that the registry does not know yet.
LEMMA RealCreateStep ==
  ASSUME ThreadInv, NEW a \in Actors, NEW s \in Slots, NEW d \in BOOLEAN, RealCreate(a, s, d)
  PROVE  ThreadInv'
<1>i. /\ RegistryOK(reg) /\ ThreadTypeOK /\ SlotThreads /\ Creators /\ Users
      /\ HeldHandles /\ Claims /\ Holds /\ Clocks /\ EdgesKept
  BY Zenon DEF ThreadInv
<1>s. s \in Actors /\ a # s
  BY Zenon DEF Actors, RealCreate
<1>g. /\ pc[a] = "user" /\ os[s].state = "free" /\ pc[s] = "none" /\ CanCreate(reg)
      /\ \A b \in Actors : pc[b] # "create"
  BY Zenon DEF RealCreate
<1>u. reg' = reg /\ tid' = tid /\ sync' = sync /\ good' = good
  BY Zenon DEF RealCreate
<1>p. pc'[a] = "create" /\ pc'[s] = "begin" /\ \A b \in Actors : b # a /\ b # s => pc'[b] = pc[b]
  BY <1>i, <1>s, Zenon DEF RealCreate, ThreadTypeOK
<1>o. os'[s].state = "alive" /\ os'[s].detached = d /\ \A u \in Slots : u # s => os'[u] = os[u]
  BY <1>i, Zenon DEF RealCreate, ThreadTypeOK
<1>r. arg'[a].slot = s /\ \A b \in Actors : b # a => arg'[b] = arg[b]
  BY <1>i, Zenon DEF RealCreate, ThreadTypeOK, NoArg
<1>h. (\A u \in Slots : u # s => (u \in held' <=> u \in held)) /\ (s \in held' <=> s \in held \/ ~d)
  BY Zenon DEF RealCreate
<1>t. ThreadTypeOK'
  <2>1. pc' \in [Actors -> Pcs]
    BY <1>i, Zenon DEF RealCreate, ThreadTypeOK, Pcs
  <2>2. os' \in [Slots -> [state : {"free", "alive", "zombie"}, detached : BOOLEAN]]
    BY <1>i, Zenon DEF RealCreate, ThreadTypeOK
  <2>3. arg' \in [Actors -> [slot : Actors, tid : Nat, op : Ops \union {"none"}]]
    <3>1. [NoArg EXCEPT !.slot = s] \in [slot : Actors, tid : Nat, op : Ops \union {"none"}]
      <4>1. NoTid \in Nat
        BY RegistryConstants, Zenon DEF NoTid
      <4> QED BY <1>s, <4>1, Zenon DEF NoArg
    <3> QED BY <1>i, <3>1, Zenon DEF RealCreate, ThreadTypeOK
  <2>4. held' \subseteq Slots
    BY <1>i, Zenon DEF RealCreate, ThreadTypeOK
  <2> QED BY <1>i, <1>u, <2>1, <2>2, <2>3, <2>4, Zenon DEF ThreadTypeOK
<1>v. \A u \in Slots : u \in Actors
  BY Zenon DEF Actors
<1>0. tid[s] = NoTid /\ ~Alive(s) /\ s \notin held /\ \A x \in Tids : reg.threads[x].user # s
  <2>1. tid[s] = NoTid /\ ~Alive(s)
    BY <1>i, <1>g, Zenon DEF SlotThreads, SlotOK, Alive
  <2>2. s \notin held
    BY <1>i, <1>g, Zenon DEF HeldHandles, HeldOK
  <2>3. ASSUME NEW x \in Tids, reg.threads[x].user = s PROVE FALSE
    <3>1. UserOK(x, s)
      BY <1>i, <2>3, Zenon DEF Users
    <3> QED BY <1>g, <2>1, <3>1, Zenon DEF UserOK
  <2> QED BY <2>1, <2>2, <2>3, Zenon
<1>a. \A u \in Slots : u # s => /\ Alive(u)' <=> Alive(u)
                                /\ (pc'[u] = "none" <=> pc[u] = "none") /\ (pc'[u] = "begin" <=> pc[u] = "begin")
                                /\ (pc'[u] = "exit" <=> pc[u] = "exit")
  BY <1>g, <1>p, <1>v, Zenon DEF Alive
<1>1. SlotThreads'
  <2>1. ASSUME NEW u \in Slots PROVE SlotOK(u)'
    <3>1. CASE u = s
      BY <1>0, <1>u, <1>p, <1>o, <3>1, Zenon DEF SlotOK, Alive
    <3>2. CASE u # s
      <4>1. SlotOK(u)
        BY <1>i, Zenon DEF SlotThreads
      <4> QED BY <1>a, <1>u, <1>o, <3>2, <4>1, Zenon DEF SlotOK, Tids
    <3> QED BY <3>1, <3>2, Zenon
  <2>2. ASSUME NEW u \in Slots, Unregistered(u)' PROVE u \in held' <=> ~os'[u].detached
    <3>1. CASE u = s
      BY <1>0, <1>o, <1>h, <3>1, Zenon
    <3>2. CASE u # s
      BY <1>i, <1>a, <1>u, <1>o, <1>h, <2>2, <3>2, Zenon DEF SlotThreads, Unregistered
    <3> QED BY <3>1, <3>2, Zenon
  <2>3. ASSUME NEW u \in Slots, NEW w \in Slots, Alive(u)', Alive(w)', tid'[u] = tid'[w], tid'[u] # NoTid PROVE u = w
    <3>1. u # s /\ w # s /\ Alive(u) /\ Alive(w)
      BY <1>0, <1>a, <1>u, <2>3, Zenon
    <3> QED BY <1>i, <1>u, <2>3, <3>1, Zenon DEF SlotThreads
  <2> QED BY <2>1, <2>2, <2>3, Zenon DEF SlotThreads
<1>2. Creators'
  <2>1. ASSUME NEW u \in Slots, pc'[u] = "begin" PROVE \E b \in Actors : Creating(b, u)'
    <3>1. CASE u = s
      BY <1>p, <1>r, <3>1, Zenon DEF Creating
    <3>2. CASE u # s
      <4>1. PICK b \in Actors : Creating(b, u)
        BY <1>i, <1>a, <2>1, <3>2, Zenon DEF Creators
      <4>2. b # a /\ b # s
        BY <1>g, <4>1, Zenon DEF Creating
      <4> QED BY <1>p, <1>r, <4>1, <4>2, Zenon DEF Creating
    <3> QED BY <3>1, <3>2, Zenon
  <2>2. \A b \in Actors : pc'[b] = "create" => b = a
    BY <1>g, <1>p, Zenon
  <2>3. Unregistered(s)' /\ CanCreate(reg)'
    BY <1>g, <1>0, <1>p, <1>u, Zenon DEF Unregistered
  <2>4. ASSUME NEW b \in Actors, NEW u \in Actors, pc'[b] = "create", arg'[b].slot = u
        PROVE  u \in Slots /\ Unregistered(u)' /\ CanCreate(reg)'
    <3>1. u = s
      BY <1>r, <2>2, <2>4, Zenon
    <3> QED BY <2>3, <3>1, Zenon
  <2> QED BY <2>1, <2>2, <2>4, Zenon DEF Creators
<1>3. Users'
  <2>1. ASSUME NEW x \in Tids, NEW u \in Slots, reg.threads[x].user = u PROVE UserOK(x, u)'
    <3>1. u # s /\ UserOK(x, u)
      BY <1>i, <1>0, <2>1, Zenon DEF Users
    <3> QED BY <1>a, <1>u, <1>o, <1>h, <3>1, Zenon DEF UserOK
  <2> QED BY <1>i, <1>u, <2>1, Zenon DEF Users, Tids
<1>4. HeldHandles'
  <2>1. ASSUME NEW u \in held' PROVE HeldOK(u)'
    <3>0. u \in Slots
      BY <1>t, <2>1, Zenon DEF ThreadTypeOK
    <3>1. CASE u = s
      BY <1>0, <1>u, <1>o, <1>h, <1>p, <2>1, <3>1, Zenon DEF HeldOK, Unregistered
    <3>2. CASE u # s
      <4>1. HeldOK(u)
        BY <1>i, <1>h, <2>1, <3>0, <3>2, Zenon DEF HeldHandles
      <4> QED BY <1>a, <1>u, <1>o, <3>0, <3>2, <4>1, Zenon DEF HeldOK, Unregistered, Tids
    <3> QED BY <3>1, <3>2, Zenon
  <2> QED BY <2>1, Zenon DEF HeldHandles
<1>c. \A b \in Actors : pc'[b] \in ClaimPcs => pc'[b] = pc[b] /\ arg'[b] = arg[b]
  BY <1>p, <1>r, <1>s, Zenon DEF ClaimPcs
<1>5. Claims'
  <2>1. ASSUME NEW b \in Actors, pc'[b] \in ClaimPcs PROVE ClaimOK(b)'
    <3>1. ClaimOK(b) /\ pc'[b] = pc[b] /\ arg'[b] = arg[b]
      BY <1>i, <1>c, <2>1, Zenon DEF Claims
    <3> QED BY <1>u, <3>1, Zenon DEF ClaimOK, Tids
  <2> QED BY <1>i, <1>c, <2>1, Zenon DEF Claims
<1>6. Holds'
  <2>1. ASSUME NEW b \in Actors, NEW u \in Slots, NEW x \in Tids, Holding(b, u, x)' PROVE HoldOK(u, x)'
    <3>1. Holding(b, u, x)
      BY <1>c, <2>1, Zenon DEF HoldPcs, ClaimPcs, Holding
    <3>2. HoldOK(u, x)
      BY <1>i, <3>1, Zenon DEF Holds
    <3>3. u # s
      BY <1>g, <3>2, Zenon DEF HoldOK
    <3> QED BY <1>a, <1>u, <1>o, <1>h, <3>2, <3>3, Zenon DEF HoldOK, Tids
  <2>2. \A b \in Actors : pc'[b] \in HoldPcs => pc[b] \in HoldPcs /\ arg'[b] = arg[b]
    BY <1>c, Zenon DEF HoldPcs, ClaimPcs
  <2>3. Tids' = Tids
    BY <1>u, Zenon DEF Tids
  <2> QED BY <1>i, <2>1, <2>2, <2>3, Zenon DEF Holds
<1>7. Clocks' /\ EdgesKept' /\ RegistryOK(reg)'
  BY <1>i, <1>u, Zenon DEF Clocks, ClockOK, EdgesKept, Tids
<1> QED BY <1>t, <1>1, <1>2, <1>3, <1>4, <1>5, <1>6, <1>7, Zenon DEF ThreadInv

-----------------------------------------------------------------------------
(* What the steps of the interceptors have in common.                       *)

Busy == {"user", "create", "await", "real", "joined", "notjoined", "detached"}

\* The thread in slot u is where it was.
Stays(u) ==
  /\ (Alive(u)' <=> Alive(u)) /\ tid'[u] = tid[u]
  /\ (pc'[u] = "none" <=> pc[u] = "none") /\ (pc'[u] = "begin" <=> pc[u] = "begin")
  /\ (pc'[u] = "exit" <=> pc[u] = "exit")

\* The actor a goes on in an interceptor, and creates nothing.
Moves(a) ==
  /\ pc[a] \in Busy /\ pc'[a] \in Busy /\ tid' = tid
  /\ \A b \in Actors : b # a => pc'[b] = pc[b] /\ arg'[b] = arg[b]
  /\ pc[a] # "create" /\ pc'[a] # "create"
  /\ \A u \in Slots : pc[u] = "begin" => ~Creating(a, u)

\* What it may do to the threads of others.
Spares ==
  /\ Tids' = Tids /\ (CanCreate(reg) => CanCreate(reg)')
  /\ \A x \in Tids : reg.threads[x].status \in {"created", "running"} =>
                       reg'.threads[x].status = reg.threads[x].status
  /\ \A u \in Slots : os'[u].state = "alive" <=> os[u].state = "alive"
  /\ \A u \in Slots : Unregistered(u) => (u \in held' <=> u \in held) /\ os'[u].detached = os[u].detached

\* A step inside an interceptor leaves every thread where it is.
LEMMA Staying ==
  ASSUME NEW a \in Actors, Moves(a)
  PROVE  \A u \in Slots : Stays(u)
<1>1. ASSUME NEW u \in Slots PROVE Stays(u)
  <2>0. u \in Actors
    BY Zenon DEF Actors
  <2>1. CASE u = a
    BY <2>1, Zenon DEF Stays, Moves, Alive, Busy
  <2>2. CASE u # a
    BY <2>0, <2>2, Zenon DEF Stays, Moves, Alive
  <2> QED BY <2>1, <2>2, Zenon
<1> QED BY <1>1, Zenon

\* It keeps the part of the invariant about slots,
LEMMA SlotsKept ==
  ASSUME NEW a \in Actors, SlotThreads, Moves(a), Spares
  PROVE  SlotThreads'
<1>s. \A u \in Slots : Stays(u)
  BY Staying, Zenon
<1>1. ASSUME NEW u \in Slots PROVE SlotOK(u)'
  <2>1. SlotOK(u) /\ Stays(u)
    BY <1>s, Zenon DEF SlotThreads
  <2>2. Tids' = Tids /\ (os'[u].state = "alive" <=> os[u].state = "alive")
    BY Zenon DEF Spares
  <2>3. Alive(u) /\ tid[u] # NoTid =>
          /\ tid[u] \in Tids \ {MainTid}
          /\ reg'.threads[tid[u]].status = IF pc[u] = "begin" THEN "created" ELSE "running"
    BY <2>1, Zenon DEF SlotOK, Spares
  <2> QED BY <2>1, <2>2, <2>3, Zenon DEF SlotOK, Stays
<1>2. ASSUME NEW u \in Slots, Unregistered(u)' PROVE u \in held' <=> ~os'[u].detached
  <2>1. Unregistered(u)
    BY <1>s, <1>2, Zenon DEF Unregistered, Stays
  <2> QED BY <2>1, Zenon DEF SlotThreads, Spares
<1>3. ASSUME NEW u \in Slots, NEW w \in Slots, Alive(u)', Alive(w)', tid'[u] = tid'[w], tid'[u] # NoTid PROVE u = w
  BY <1>s, <1>3, Zenon DEF SlotThreads, Stays
<1> QED BY <1>1, <1>2, <1>3, Zenon DEF SlotThreads

\* about creators,
LEMMA CreatorsKept ==
  ASSUME NEW a \in Actors, Creators, Moves(a), Spares
  PROVE  Creators'
<1>s. \A u \in Slots : Stays(u)
  BY Staying, Zenon
<1>1. ASSUME NEW u \in Slots, pc'[u] = "begin" PROVE \E b \in Actors : Creating(b, u)'
  <2>1. PICK b \in Actors : Creating(b, u)
    BY <1>s, <1>1, Zenon DEF Creators, Stays
  <2>2. b # a
    BY <1>s, <1>1, <2>1, Zenon DEF Moves, Stays
  <2> QED BY <2>1, <2>2, Zenon DEF Creating, Moves
<1>2. \A b \in Actors : pc'[b] = "create" => b # a /\ pc[b] = "create" /\ arg'[b] = arg[b]
  BY Zenon DEF Moves
<1>3. ASSUME NEW b \in Actors, NEW u \in Actors, pc'[b] = "create", arg'[b].slot = u
      PROVE  u \in Slots /\ Unregistered(u)' /\ CanCreate(reg)'
  <2>1. u \in Slots /\ Unregistered(u) /\ CanCreate(reg)
    BY <1>2, <1>3, Zenon DEF Creators
  <2>2. Stays(u)
    BY <1>s, <2>1, Zenon
  <2> QED BY <2>1, <2>2, Zenon DEF Unregistered, Stays, Spares
<1> QED BY <1>1, <1>2, <1>3, Zenon DEF Creators

\* The contexts that other interceptors have claimed are as they were.
Leaves(x) ==
  /\ reg'.threads[x].user = reg.threads[x].user /\ reg'.threads[x].detached = reg.threads[x].detached
  /\ reg'.threads[x].status = reg.threads[x].status

\* about claims, when it leaves the contexts that others have claimed,
LEMMA ClaimsKept ==
  ASSUME NEW a \in Actors, Claims, Moves(a), Tids' = Tids,
         \A b \in Actors : b # a /\ pc[b] \in ClaimPcs => Leaves(arg[b].tid),
         pc'[a] \in ClaimPcs => ClaimOK(a)',
         \A b \in Actors : b # a /\ pc[b] \in ClaimPcs /\ pc'[a] \in ClaimPcs => arg[b].tid # arg'[a].tid
  PROVE  Claims'
<1>1. ASSUME NEW b \in Actors, pc'[b] \in ClaimPcs PROVE ClaimOK(b)'
  <2>1. CASE b = a
    BY <1>1, <2>1, Zenon
  <2>2. CASE b # a
    <3>1. pc'[b] = pc[b] /\ arg'[b] = arg[b]
      BY <2>2, Zenon DEF Moves
    <3>2. ClaimOK(b) /\ Leaves(arg[b].tid)
      BY <1>1, <2>2, <3>1, Zenon DEF Claims
    <3> QED BY <3>1, <3>2, Zenon DEF ClaimOK, Leaves
  <2> QED BY <2>1, <2>2, Zenon
<1>2. ASSUME NEW b \in Actors, NEW e \in Actors, pc'[b] \in ClaimPcs, pc'[e] \in ClaimPcs, b # e
      PROVE  arg'[b].tid # arg'[e].tid
  <2>o. \A w \in Actors : w # a => pc'[w] = pc[w] /\ arg'[w] = arg[w]
    BY Zenon DEF Moves
  <2>1. CASE b = a
    <3>1. pc[e] \in ClaimPcs /\ arg'[e] = arg[e]
      BY <1>2, <2>1, <2>o, Zenon
    <3>2. arg[e].tid # arg'[a].tid
      BY <1>2, <2>1, <3>1, Zenon
    <3> QED BY <2>1, <3>1, <3>2, Zenon
  <2>2. CASE e = a
    <3>1. pc[b] \in ClaimPcs /\ arg'[b] = arg[b]
      BY <1>2, <2>2, <2>o, Zenon
    <3>2. arg[b].tid # arg'[a].tid
      BY <1>2, <2>2, <3>1, Zenon
    <3> QED BY <2>2, <3>1, <3>2, Zenon
  <2>3. CASE b # a /\ e # a
    BY <1>2, <2>3, <2>o, Zenon DEF Claims
  <2> QED BY <2>1, <2>2, <2>3, Zenon
<1> QED BY <1>1, <1>2, Zenon DEF Claims

\* The handles that other interceptors have taken are as they were.
Apart(a) ==
  \A b \in Actors, u \in Slots, x \in Tids : b # a /\ Holding(b, u, x) =>
    Leaves(x) /\ u \notin held' /\ os'[u] = os[u] /\ \A y \in Tids : reg'.threads[y].user # u

\* about the handles that others have taken,
LEMMA HoldsKept ==
  ASSUME NEW a \in Actors, Holds, Moves(a), Tids' = Tids, Apart(a),
         \A u \in Slots, x \in Tids : Holding(a, u, x)' => HoldOK(u, x)',
         \A b \in Actors : b # a /\ pc[b] \in HoldPcs /\ pc'[a] \in HoldPcs => arg[b].slot # arg'[a].slot
  PROVE  Holds'
<1>o. \A w \in Actors : w # a => pc'[w] = pc[w] /\ arg'[w] = arg[w]
  BY Zenon DEF Moves
<1>s. \A u \in Slots : Stays(u)
  BY Staying, Zenon
<1>1. ASSUME NEW b \in Actors, NEW u \in Slots, NEW x \in Tids, Holding(b, u, x)' PROVE HoldOK(u, x)'
  <2>1. CASE b = a
    <3>1. Holding(a, u, x)'
      BY <1>1, <2>1, Zenon DEF Holding
    <3> QED BY <3>1, Zenon
  <2>2. CASE b # a
    <3>1. Holding(b, u, x)
      BY <1>1, <1>o, <2>2, Zenon DEF Holding
    <3>2. /\ HoldOK(u, x) /\ Leaves(x) /\ u \notin held' /\ os'[u] = os[u]
          /\ \A y \in Tids : reg'.threads[y].user # u
      BY <2>2, <3>1, Zenon DEF Holds, Apart
    <3>3. Stays(u)
      BY <1>s, Zenon
    <3> QED BY <3>2, <3>3, Zenon DEF HoldOK, Leaves, Stays
  <2> QED BY <2>1, <2>2, Zenon
<1>2. ASSUME NEW b \in Actors, NEW e \in Actors, pc'[b] \in HoldPcs, pc'[e] \in HoldPcs, b # e
      PROVE  arg'[b].slot # arg'[e].slot
  <2>1. CASE b = a
    <3>1. pc[e] \in HoldPcs /\ arg'[e] = arg[e]
      BY <1>2, <2>1, <1>o, Zenon
    <3>2. arg[e].slot # arg'[a].slot
      BY <1>2, <2>1, <3>1, Zenon
    <3> QED BY <2>1, <3>1, <3>2, Zenon
  <2>2. CASE e = a
    <3>1. pc[b] \in HoldPcs /\ arg'[b] = arg[b]
      BY <1>2, <2>2, <1>o, Zenon
    <3>2. arg[b].slot # arg'[a].slot
      BY <1>2, <2>2, <3>1, Zenon
    <3> QED BY <2>2, <3>1, <3>2, Zenon
  <2>3. CASE b # a /\ e # a
    BY <1>2, <2>3, <1>o, Zenon DEF Holds
  <2> QED BY <2>1, <2>2, <2>3, Zenon
<1> QED BY <1>1, <1>2, Zenon DEF Holds

\* Of a context that has its handle, and of a handle that is held.
LEMMA UserKept ==
  ASSUME NEW a \in Actors, Moves(a), NEW x \in Tids, NEW u \in Slots, UserOK(x, u), Leaves(x),
         os'[u] = os[u], u \in held' <=> u \in held
  PROVE  UserOK(x, u)'
<1>s. Stays(u)
  BY Staying, Zenon
<1> QED BY <1>s, Zenon DEF UserOK, Leaves, Stays

\* and about those that the program may use.
LEMMA HeldKept ==
  ASSUME NEW a \in Actors, Moves(a), Tids' = Tids, NEW u \in Slots, HeldOK(u), os'[u] = os[u],
         \A x \in Tids : reg.threads[x].user = u => reg'.threads[x].user = u
  PROVE  HeldOK(u)'
<1>s. Stays(u)
  BY Staying, Zenon
<1> QED BY <1>s, Zenon DEF HeldOK, Unregistered, Stays

-----------------------------------------------------------------------------
(* The steps of the interceptors that leave the registry alone.             *)

\* The library's view changes for no slot but the one s that a takes hold of.
LEMMA QuietStep ==
  ASSUME ThreadInv, NEW a \in Actors, Moves(a), ThreadTypeOK', reg' = reg, sync' = sync, good' = good, held' = held,
         \A u \in Slots : os'[u].state = "alive" <=> os[u].state = "alive",
         \A u \in Slots : os'[u] = os[u] \/ (pc[a] = "real" /\ u = arg[a].slot /\ pc'[a] \notin HoldPcs),
         pc'[a] \in ClaimPcs => /\ pc[a] = "real" /\ arg'[a] = arg[a]
                                /\ (pc'[a] = "joined" => os[arg[a].slot].state = "zombie")
  PROVE  ThreadInv'
<1>i. /\ RegistryOK(reg) /\ SlotThreads /\ Creators /\ Users
      /\ HeldHandles /\ Claims /\ Holds /\ Clocks /\ EdgesKept
  BY Zenon DEF ThreadInv
<1>u. Tids' = Tids /\ \A x : Leaves(x)
  BY Zenon DEF Tids, Leaves
\* The handle that a holds belongs to nobody else.
<1>a. ASSUME pc[a] = "real"
      PROVE  /\ arg[a].slot \in Slots /\ arg[a].tid \in Tids /\ ClaimOK(a) /\ HoldOK(arg[a].slot, arg[a].tid)
             /\ ~Unregistered(arg[a].slot)
  <2>1. ClaimOK(a)
    BY <1>i, <1>a, Zenon DEF Claims, ClaimPcs
  <2>2. arg[a].slot \in Slots /\ arg[a].tid \in Tids
    BY <2>1, Zenon DEF ClaimOK
  <2>3. HoldOK(arg[a].slot, arg[a].tid)
    BY <1>i, <1>a, <2>2, Zenon DEF Holds, Holding, HoldPcs
  <2>4. ~Unregistered(arg[a].slot)
    <3>1. NoTid \notin Tids /\ SlotOK(arg[a].slot)
      BY <1>i, <2>2, NoTidFacts, Zenon DEF SlotThreads
    <3> QED BY <2>1, <2>2, <2>3, <3>1, Zenon DEF Unregistered, ClaimOK, HoldOK, SlotOK
  <2> QED BY <2>1, <2>2, <2>3, <2>4, Zenon
<1>b. \A u \in Slots : os'[u] = os[u] \/ (u \notin held /\ ~Unregistered(u) /\ \A x \in Tids : reg.threads[x].user # u)
  BY <1>a, Zenon DEF HoldOK
<1>s. Spares
  BY <1>u, <1>b, Zenon DEF Spares
<1>1. SlotThreads' /\ Creators'
  BY <1>i, <1>s, SlotsKept, CreatorsKept, Zenon
<1>2. Users'
  <2>1. ASSUME NEW x \in Tids, NEW u \in Slots, reg.threads[x].user = u PROVE UserOK(x, u)'
    <3>1. os'[u] = os[u] /\ UserOK(x, u)
      BY <1>i, <1>b, <2>1, Zenon DEF Users
    <3> QED BY <1>u, <3>1, UserKept, Zenon
  <2> QED BY <1>i, <1>u, <2>1, Zenon DEF Users
<1>3. HeldHandles'
  <2>1. ASSUME NEW u \in held PROVE HeldOK(u)'
    <3>1. u \in Slots
      BY Zenon DEF ThreadInv, ThreadTypeOK
    <3>2. os'[u] = os[u] /\ HeldOK(u)
      BY <1>i, <1>b, <3>1, Zenon DEF HeldHandles
    <3> QED BY <1>u, <3>1, <3>2, HeldKept, Zenon
  <2> QED BY <2>1, Zenon DEF HeldHandles
<1>4. Claims'
  <2>1. ASSUME pc'[a] \in ClaimPcs PROVE ClaimOK(a)'
    <3>1. pc[a] = "real" /\ arg'[a] = arg[a] /\ (pc'[a] = "joined" => os[arg[a].slot].state = "zombie")
      BY <2>1, Zenon
    <3>2. ClaimOK(a) /\ HoldOK(arg[a].slot, arg[a].tid) /\ arg[a].slot \in Slots
      BY <1>a, <3>1, Zenon
    <3>3. pc'[a] = "joined" => reg.threads[arg[a].tid].status = "finished"
      <4>1. SlotOK(arg[a].slot)
        BY <1>i, <3>2, Zenon DEF SlotThreads
      <4> QED BY <3>1, <3>2, <4>1, Zenon DEF ClaimOK, HoldOK, SlotOK, Alive
    <3> QED BY <1>u, <3>1, <3>2, <3>3, Zenon DEF ClaimOK
  <2>2. ASSUME NEW b \in Actors, b # a, pc[b] \in ClaimPcs, pc'[a] \in ClaimPcs PROVE arg[b].tid # arg'[a].tid
    <3>1. pc[a] \in ClaimPcs /\ arg'[a] = arg[a]
      BY <2>2, Zenon DEF ClaimPcs
    <3> QED BY <1>i, <2>2, <3>1, Zenon DEF Claims
  <2> QED BY <1>i, <1>u, <2>1, <2>2, ClaimsKept, Zenon
<1>5. Holds'
  <2>o. ASSUME NEW b \in Actors, NEW u \in Slots, NEW x \in Tids, b # a, Holding(b, u, x)
        PROVE  Leaves(x) /\ u \notin held' /\ os'[u] = os[u] /\ \A y \in Tids : reg'.threads[y].user # u
    <3>1. HoldOK(u, x)
      BY <1>i, <2>o, Zenon DEF Holds
    <3>2. pc[a] = "real" => u # arg[a].slot
      BY <1>i, <2>o, Zenon DEF Holds, Holding, HoldPcs
    <3> QED BY <1>u, <3>1, <3>2, Zenon DEF HoldOK
  <2>a. Apart(a)
    BY <2>o, Zenon DEF Apart
  <2>1. ASSUME NEW u \in Slots, NEW x \in Tids, Holding(a, u, x)' PROVE HoldOK(u, x)'
    <3>1. pc'[a] \in HoldPcs /\ arg'[a].slot = u /\ arg'[a].tid = x
      BY <2>1, Zenon DEF Holding
    <3>2. pc[a] = "real" /\ arg'[a] = arg[a] /\ os'[u] = os[u]
      BY <3>1, Zenon DEF HoldPcs, ClaimPcs
    <3>3. HoldOK(u, x) /\ Stays(u)
      BY <1>a, <3>1, <3>2, Staying, Zenon
    <3> QED BY <1>u, <3>2, <3>3, Zenon DEF HoldOK, Stays
  <2>2. ASSUME NEW b \in Actors, b # a, pc[b] \in HoldPcs, pc'[a] \in HoldPcs PROVE arg[b].slot # arg'[a].slot
    <3>1. pc[a] \in HoldPcs /\ arg'[a] = arg[a]
      BY <2>2, Zenon DEF ClaimPcs, HoldPcs
    <3> QED BY <1>i, <2>2, <3>1, ZenonT(60) DEF Holds
  <2> QED BY <1>i, <1>u, <2>a, <2>1, <2>2, HoldsKept, Zenon
<1>6. Clocks' /\ EdgesKept' /\ RegistryOK(reg)'
  BY <1>i, <1>u, Zenon DEF Clocks, ClockOK, EdgesKept
<1> QED BY <1>1, <1>2, <1>3, <1>4, <1>5, <1>6, Zenon DEF ThreadInv

\* The arguments of an actor outside the interceptors.
LEMMA NoArgType == NoArg \in [slot : Actors, tid : Nat, op : Ops \union {"none"}]
<1>1. NoTid \in Nat /\ Main \in Actors
  BY RegistryConstants, Zenon DEF NoTid, Actors
<1> QED BY <1>1, Zenon DEF NoArg

\* pthread_create returns.
LEMMA CreatedStep ==
  ASSUME ThreadInv, NEW a \in Actors, Created(a)
  PROVE  ThreadInv'
<1>t. ThreadTypeOK
  BY Zenon DEF ThreadInv
<1>1. ThreadTypeOK'
  <2>1. pc' \in [Actors -> Pcs]
    BY <1>t, Zenon DEF ThreadTypeOK, Created, Return, Pcs
  <2>2. arg' \in [Actors -> [slot : Actors, tid : Nat, op : Ops \union {"none"}]]
    BY <1>t, NoArgType, Zenon DEF ThreadTypeOK, Created, Return
  <2> QED BY <1>t, <2>1, <2>2, Zenon DEF ThreadTypeOK, Created
<1>2. Moves(a)
  <2>1. pc[a] = "await" /\ tid' = tid /\ pc' = [pc EXCEPT ![a] = "user"] /\ arg' = [arg EXCEPT ![a] = NoArg]
    BY Zenon DEF Created, Return
  <2>2. \A u \in Slots : pc[u] = "begin" => ~Creating(a, u)
    BY Zenon DEF Created, Started, Creating
  <2> QED BY <1>t, <2>1, <2>2, Zenon DEF ThreadTypeOK, Moves, Busy
<1>3. reg' = reg /\ sync' = sync /\ good' = good /\ held' = held /\ os' = os /\ pc'[a] = "user"
  BY <1>t, Zenon DEF Created, Return, ThreadTypeOK
<1> QED BY <1>1, <1>2, <1>3, QuietStep, Zenon DEF ClaimPcs

\* One slot changes its state.
LEMMA StateSet ==
  ASSUME NEW s \in Slots, NEW l \in {"free", "alive", "zombie"}, ThreadTypeOK, os' = [os EXCEPT ![s].state = l]
  PROVE  /\ os' \in [Slots -> [state : {"free", "alive", "zombie"}, detached : BOOLEAN]]
         /\ os'[s].state = l /\ os'[s].detached = os[s].detached
         /\ \A u \in Slots : u # s => os'[u] = os[u]
<1> DEFINE O == [state : {"free", "alive", "zombie"}, detached : BOOLEAN]
           w == os[s]
           n == [w EXCEPT !.state = l]
<1>1. os \in [Slots -> O] /\ w \in O
  BY Zenon DEF ThreadTypeOK
<1>2. n \in O /\ n.state = l /\ n.detached = w.detached
  BY <1>1, Zenon
<1>3. os' = [os EXCEPT ![s] = n]
  BY Zenon
<1> HIDE DEF n, O
<1>4. os' \in [Slots -> O] /\ os'[s] = n /\ \A u \in Slots : u # s => os'[u] = os[u]
  BY <1>1, <1>2, <1>3, Zenon
<1> QED BY <1>2, <1>4, Zenon DEF O

\* The library lets a join through: the thread has exited.
LEMMA RealJoinStep ==
  ASSUME ThreadInv, NEW a \in Actors, RealJoin(a)
  PROVE  ThreadInv'
<1>t. ThreadTypeOK /\ arg[a].slot \in Slots
  BY Zenon DEF ThreadInv, Claims, ClaimOK, ClaimPcs, RealJoin
<1>z. os[arg[a].slot].state = "zombie" /\ os' = [os EXCEPT ![arg[a].slot].state = "free"]
  BY Zenon DEF RealJoin
<1>o. /\ os[arg[a].slot].state = "zombie" /\ os'[arg[a].slot].state = "free"
      /\ \A u \in Slots : u # arg[a].slot => os'[u] = os[u]
  BY <1>t, <1>z, StateSet, Zenon
<1>1. ThreadTypeOK'
  <2>1. os' \in [Slots -> [state : {"free", "alive", "zombie"}, detached : BOOLEAN]]
    BY <1>t, <1>z, StateSet, Zenon
  <2>2. pc' \in [Actors -> Pcs]
    BY <1>t, Zenon DEF RealJoin, ThreadTypeOK, Goto, Pcs
  <2> QED BY <1>t, <2>1, <2>2, Zenon DEF ThreadTypeOK, RealJoin
<1>2. Moves(a)
  BY <1>t, Zenon DEF ThreadTypeOK, RealJoin, Goto, Moves, Busy, Creating
<1>3. /\ reg' = reg /\ sync' = sync /\ good' = good /\ held' = held /\ arg' = arg
      /\ pc[a] = "real" /\ pc'[a] = "joined"
  BY <1>t, Zenon DEF RealJoin, Goto, ThreadTypeOK
<1>4. \A u \in Slots : os'[u].state = "alive" <=> os[u].state = "alive"
  BY <1>o, Zenon
<1>5. \A u \in Slots : os'[u] = os[u] \/ (pc[a] = "real" /\ u = arg[a].slot /\ pc'[a] \notin HoldPcs)
  BY <1>o, <1>3, Zenon DEF HoldPcs
<1> QED BY <1>o, <1>1, <1>2, <1>3, <1>4, <1>5, QuietStep, Zenon

\* A try fails: the thread still runs.
LEMMA NotJoinedStep ==
  ASSUME ThreadInv, NEW a \in Actors, NotJoined(a)
  PROVE  ThreadInv'
<1>t. ThreadTypeOK
  BY Zenon DEF ThreadInv
<1>1. ThreadTypeOK'
  BY <1>t, Zenon DEF ThreadTypeOK, NotJoined, Goto, Pcs
<1>2. Moves(a)
  BY <1>t, Zenon DEF ThreadTypeOK, NotJoined, Goto, Moves, Busy, Creating
<1>3. /\ reg' = reg /\ sync' = sync /\ good' = good /\ held' = held /\ os' = os /\ arg' = arg
      /\ pc[a] = "real" /\ pc'[a] = "notjoined"
  BY <1>t, Zenon DEF NotJoined, Goto, ThreadTypeOK
<1> QED BY <1>1, <1>2, <1>3, QuietStep, Zenon

\* The library detaches the thread, and frees it if it has exited.
LEMMA RealDetachStep ==
  ASSUME ThreadInv, NEW a \in Actors, RealDetach(a)
  PROVE  ThreadInv'
<1>t. ThreadTypeOK /\ arg[a].slot \in Slots
  BY Zenon DEF ThreadInv, Claims, ClaimOK, ClaimPcs, RealDetach
<1>o. /\ os'[arg[a].slot].state = "alive" <=> os[arg[a].slot].state = "alive"
      /\ \A u \in Slots : u # arg[a].slot => os'[u] = os[u]
  BY <1>t, Zenon DEF RealDetach, ThreadTypeOK
<1>1. ThreadTypeOK'
  <2>1. os' \in [Slots -> [state : {"free", "alive", "zombie"}, detached : BOOLEAN]]
    <3> DEFINE O == [state : {"free", "alive", "zombie"}, detached : BOOLEAN]
               w == os[arg[a].slot]
               n == [state |-> IF w.state = "zombie" THEN "free" ELSE w.state, detached |-> TRUE]
    <3>1. os \in [Slots -> O] /\ w \in O
      BY <1>t, Zenon DEF ThreadTypeOK
    <3>2. n \in O
      BY <3>1, Zenon
    <3>3. os' = [os EXCEPT ![arg[a].slot] = n]
      BY Zenon DEF RealDetach
    <3> HIDE DEF n, O, w
    <3>4. os' \in [Slots -> O]
      BY <3>1, <3>2, <3>3, Zenon
    <3> QED BY <3>4, Zenon DEF O
  <2>2. pc' \in [Actors -> Pcs]
    BY <1>t, Zenon DEF RealDetach, ThreadTypeOK, Goto, Pcs
  <2> QED BY <1>t, <2>1, <2>2, Zenon DEF ThreadTypeOK, RealDetach
<1>2. Moves(a)
  BY <1>t, Zenon DEF ThreadTypeOK, RealDetach, Goto, Moves, Busy, Creating
<1>3. /\ reg' = reg /\ sync' = sync /\ good' = good /\ held' = held /\ arg' = arg
      /\ pc[a] = "real" /\ pc'[a] = "detached"
  BY <1>t, Zenon DEF RealDetach, Goto, ThreadTypeOK
<1>4. \A u \in Slots : os'[u].state = "alive" <=> os[u].state = "alive"
  BY <1>o, Zenon
<1>5. \A u \in Slots : os'[u] = os[u] \/ (pc[a] = "real" /\ u = arg[a].slot /\ pc'[a] \notin HoldPcs)
  BY <1>o, <1>3, Zenon DEF HoldPcs
<1> QED BY <1>1, <1>2, <1>3, <1>4, <1>5, QuietStep, Zenon

-----------------------------------------------------------------------------
(* The steps of the interceptors that end a claim on a context.             *)

\* t, the context that a has claimed, ends as dead, detached, or with its handle.
LEMMA ReleaseStep ==
  ASSUME ThreadInv, NEW a \in Actors, NEW t, NEW s, Moves(a), ThreadTypeOK', os' = os,
         pc[a] \in ClaimPcs, pc'[a] = "user", arg[a].tid = t, arg[a].slot = s,
         RegistryOK(reg)', Rest(reg, reg', t), EdgesKept',
         \A x \in Tids : x # t => sync'[x] = sync[x], ClockOK(t)',
         reg.threads[t].status = "running" => reg'.threads[t].status = "running",
         \/ held' = held /\ reg'.threads[t].user = 0
         \/ /\ pc[a] = "notjoined" /\ held' = held \union {s} /\ reg'.threads[t].user = s
            /\ reg'.threads[t].status = reg.threads[t].status /\ reg'.threads[t].detached = reg.threads[t].detached
  PROVE  ThreadInv'
<1>i. /\ RegistryOK(reg) /\ SlotThreads /\ Creators /\ Users
      /\ HeldHandles /\ Claims /\ Holds /\ Clocks
  BY Zenon DEF ThreadInv
<1>a. /\ t \in Tids \ {MainTid} /\ s \in Slots /\ reg.threads[t].user = 0 /\ ~reg.threads[t].detached
      /\ reg.threads[t].status \in {"running", "finished"}
  BY <1>i, Zenon DEF Claims, ClaimOK
<1>u. /\ Tids' = Tids /\ (CanCreate(reg) => CanCreate(reg)')
      /\ \A x \in Tids : x # t =>
           /\ reg'.threads[x].user = reg.threads[x].user /\ reg'.threads[x].detached = reg.threads[x].detached
           /\ reg'.threads[x].status = reg.threads[x].status
                \/ (reg.threads[x].status = "dead" /\ reg'.threads[x].status = "invalid")
  BY Zenon DEF Rest, Tids
<1>l. \A x \in Tids : x # t /\ reg.threads[x].status \in InUse => Leaves(x)
  BY <1>u, Zenon DEF Leaves, InUse
<1>z. \A x \in Tids : x # t => reg'.threads[x].user = reg.threads[x].user
  BY <1>u, Zenon
<1>0. 0 \notin Slots
  BY HandlesAssumption, Zenon
<1>n. \/ held' = held /\ reg'.threads[t].user = 0
      \/ /\ held' = held \union {s} /\ reg'.threads[t].user = s
         /\ HoldOK(s, t) /\ ~Unregistered(s) /\ UserOK(t, s)' /\ pc[a] \in HoldPcs
  <2>1. CASE /\ pc[a] = "notjoined" /\ held' = held \union {s} /\ reg'.threads[t].user = s
             /\ reg'.threads[t].status = reg.threads[t].status /\ reg'.threads[t].detached = reg.threads[t].detached
    <3>1. HoldOK(s, t) /\ pc[a] \in HoldPcs
      BY <1>i, <1>a, <2>1, Zenon DEF Holds, Holding, HoldPcs
    <3>2. ~Unregistered(s)
      <4>1. NoTid \notin Tids /\ SlotOK(s)
        BY <1>i, <1>a, NoTidFacts, Zenon DEF SlotThreads
      <4> QED BY <1>a, <3>1, <4>1, Zenon DEF Unregistered, HoldOK, SlotOK
    <3>3. Stays(s)
      BY <1>a, Staying, Zenon
    <3>4. UserOK(t, s)'
      BY <1>a, <2>1, <3>1, <3>3, Zenon DEF UserOK, HoldOK, Stays
    <3> QED BY <2>1, <3>1, <3>2, <3>4, Zenon
  <2> QED BY <2>1, Zenon
<1>h. \A u \in Slots : u \in held' <=> u \in held \/ (u = s /\ reg'.threads[t].user = s)
  BY <1>n, <1>a, <1>0, Zenon
<1>s. Spares
  <2>1. \A x \in Tids : reg.threads[x].status \in {"created", "running"} =>
                          reg'.threads[x].status = reg.threads[x].status
    BY <1>a, <1>l, Zenon DEF Leaves, InUse
  <2>2. \A u \in Slots : Unregistered(u) => (u \in held' <=> u \in held)
    BY <1>n, Zenon
  <2> QED BY <1>u, <2>1, <2>2, Zenon DEF Spares
<1>1. SlotThreads' /\ Creators'
  BY <1>i, <1>s, SlotsKept, CreatorsKept, Zenon
<1>v. \A u \in Slots : reg'.threads[t].user = u => u = s /\ UserOK(t, s)' /\ HoldOK(s, t)
  BY <1>n, <1>0, Zenon
<1>2. Users'
  <2>1. ASSUME NEW x \in Tids, NEW u \in Slots, reg'.threads[x].user = u PROVE UserOK(x, u)'
    <3>1. CASE x = t
      <4>1. u = s /\ UserOK(t, s)'
        BY <1>v, <2>1, <3>1, Zenon
      <4> QED BY <3>1, <4>1, Zenon
    <3>2. CASE x # t
      <4>1. reg.threads[x].user = u /\ UserOK(x, u)
        BY <1>i, <1>z, <2>1, <3>2, Zenon DEF Users
      <4>2. Leaves(x)
        BY <1>l, <3>2, <4>1, Zenon DEF UserOK, InUse
      <4>3. u \in held' <=> u \in held
        BY <1>h, <1>v, <1>a, <4>1, Zenon DEF HoldOK
      <4> QED BY <4>1, <4>2, <4>3, UserKept, Zenon
    <3> QED BY <3>1, <3>2, Zenon
  <2>2. ASSUME NEW x \in Tids, NEW y \in Tids, reg'.threads[x].user = reg'.threads[y].user,
               reg'.threads[x].user # 0
        PROVE  x = y
    <3>1. reg'.threads[t].user # 0 => \A w \in Tids : w # t => reg'.threads[w].user # reg'.threads[t].user
      BY <1>n, <1>z, <1>a, Zenon DEF HoldOK
    <3>2. CASE x = t \/ y = t
      BY <2>2, <3>1, <3>2, Zenon
    <3>3. CASE x # t /\ y # t
      BY <1>i, <1>z, <2>2, <3>3, Zenon DEF Users
    <3> QED BY <3>2, <3>3, Zenon
  <2> QED BY <1>u, <2>1, <2>2, Zenon DEF Users
<1>3. HeldHandles'
  <2>1. ASSUME NEW u \in held' PROVE HeldOK(u)'
    <3>0. u \in Slots
      BY Zenon DEF ThreadTypeOK
    <3>1. CASE u \in held
      <4>1. HeldOK(u)
        BY <1>i, <3>1, Zenon DEF HeldHandles
      <4>2. \A x \in Tids : reg.threads[x].user = u => reg'.threads[x].user = u
        BY <1>a, <1>0, <1>z, <3>0, Zenon
      <4> QED BY <1>u, <3>0, <4>1, <4>2, HeldKept, Zenon
    <3>2. CASE u \notin held
      <4>1. u = s /\ reg'.threads[t].user = s /\ HoldOK(s, t)
        BY <1>h, <1>v, <3>0, <3>2, <2>1, Zenon
      <4> QED BY <1>a, <1>u, <4>1, Zenon DEF HeldOK, HoldOK
    <3> QED BY <3>1, <3>2, Zenon
  <2> QED BY <2>1, Zenon DEF HeldHandles
<1>4. Claims'
  <2>1. ASSUME NEW b \in Actors, b # a, pc[b] \in ClaimPcs PROVE Leaves(arg[b].tid)
    <3>1. ClaimOK(b) /\ arg[b].tid # t
      BY <1>i, <2>1, Zenon DEF Claims
    <3> QED BY <1>l, <3>1, Zenon DEF ClaimOK, InUse
  <2>2. pc'[a] \notin ClaimPcs
    BY Zenon DEF ClaimPcs
  <2> QED BY <1>i, <1>u, <2>1, <2>2, ClaimsKept, Zenon
<1>5. Holds'
  <2>o. ASSUME NEW b \in Actors, NEW u \in Slots, NEW x \in Tids, b # a, Holding(b, u, x)
        PROVE  Leaves(x) /\ u \notin held' /\ os'[u] = os[u] /\ \A y \in Tids : reg'.threads[y].user # u
    <3>1. HoldOK(u, x)
      BY <1>i, <2>o, Zenon DEF Holds
    <3>2. ClaimOK(b) /\ arg[b].tid = x /\ x # t
      BY <1>i, <2>o, Zenon DEF Claims, Holding, HoldPcs, ClaimPcs
    <3>3. Leaves(x)
      BY <1>l, <3>2, Zenon DEF ClaimOK, InUse
    <3>4. pc[a] \in HoldPcs => u # s
      BY <1>i, <2>o, Zenon DEF Holds, Holding
    <3>5. reg'.threads[t].user # u
      BY <1>n, <1>0, <3>4, Zenon
    <3>6. u \notin held'
      BY <1>h, <3>1, <3>5, Zenon DEF HoldOK
    <3>7. \A y \in Tids : reg'.threads[y].user # u
      BY <1>z, <3>1, <3>5, Zenon DEF HoldOK
    <3> QED BY <3>3, <3>6, <3>7, Zenon
  <2>a. Apart(a)
    BY <2>o, Zenon DEF Apart
  <2>2. pc'[a] \notin HoldPcs
    BY Zenon DEF HoldPcs
  <2>3. \A u \in Slots, x \in Tids : ~Holding(a, u, x)'
    BY <2>2, Zenon DEF Holding
  <2> QED BY <1>i, <1>u, <2>a, <2>2, <2>3, HoldsKept, Zenon
<1>6. Clocks'
  <2>1. ASSUME NEW x \in Tids PROVE ClockOK(x)'
    <3>1. CASE x = t
      BY <3>1, Zenon
    <3>2. CASE x # t
      <4>1. ClockOK(x)
        BY <1>i, Zenon DEF Clocks
      <4> QED BY <1>u, <3>2, <4>1, Zenon DEF ClockOK
    <3> QED BY <3>1, <3>2, Zenon
  <2> QED BY <1>u, <2>1, Zenon DEF Clocks
<1> QED BY <1>1, <1>2, <1>3, <1>4, <1>5, <1>6, Zenon DEF ThreadInv

\* The handle goes back to the context it was taken from.
LEMMA ThreadNotJoinedStep ==
  ASSUME ThreadInv, NEW a \in Actors, ThreadNotJoined(a)
  PROVE  ThreadInv'
<1>d. PICK t, s : arg[a].tid = t /\ arg[a].slot = s
  BY Zenon
<1>i. RegistryOK(reg) /\ ThreadTypeOK /\ Claims /\ Clocks /\ EdgesKept
  BY Zenon DEF ThreadInv
<1>g. pc[a] = "notjoined" /\ pc[a] \in ClaimPcs
  BY Zenon DEF ThreadNotJoined, ClaimPcs
<1>c. /\ t \in Tids /\ t # MainTid /\ s \in Slots /\ reg.threads[t].user = 0
      /\ reg.threads[t].status \in {"running", "finished"}
  BY <1>d, <1>i, <1>g, Zenon DEF Claims, ClaimOK
<1>o. /\ Operated(reg, reg', t) /\ reg'.threads[t] = SetUserId(reg.threads[t], s)
  <2>1. reg' = SetThreadUserId(reg, t, s)
    BY <1>d, Zenon DEF ThreadNotJoined
  <2> QED BY <1>i, <1>c, <2>1, SetUserFacts, ZenonT(60) DEF Tids
<1>r. RegistryOK(reg)' /\ Rest(reg, reg', t)
  BY <1>i, <1>o, RestFacts, Zenon
<1>n. /\ reg'.threads[t].user = s /\ reg'.threads[t].status = reg.threads[t].status
      /\ reg'.threads[t].detached = reg.threads[t].detached
  <2>1. reg.threads[t] \in Contexts /\ s \in Slots \union {0}
    BY <1>i, <1>c, RegistryParts, Zenon DEF Tids
  <2>2. /\ SetUserId(reg.threads[t], s).user = s
        /\ SetUserId(reg.threads[t], s).status = reg.threads[t].status
        /\ SetUserId(reg.threads[t], s).detached = reg.threads[t].detached
    BY <2>1, UserIs, Zenon
  <2> QED BY <1>o, <2>2, Zenon
<1>u. /\ os' = os /\ tid' = tid /\ sync' = sync /\ good' = good /\ held' = held \union {s}
      /\ pc' = [pc EXCEPT ![a] = "user"] /\ arg' = [arg EXCEPT ![a] = NoArg]
  BY <1>d, Zenon DEF ThreadNotJoined, Return
<1>t. ThreadTypeOK'
  BY <1>i, <1>c, <1>u, NoArgType, Zenon DEF ThreadTypeOK, Pcs
<1>m. Moves(a) /\ pc'[a] = "user"
  BY <1>i, <1>g, <1>u, Zenon DEF ThreadTypeOK, Moves, Busy, Creating
<1>k. ClockOK(t)'
  BY <1>i, <1>c, <1>n, <1>u, Zenon DEF Clocks, ClockOK
<1>e. EdgesKept'
  BY <1>i, <1>u, Zenon DEF EdgesKept
<1> QED BY <1>d, <1>g, <1>r, <1>n, <1>u, <1>t, <1>m, <1>k, <1>e, ReleaseStep, ZenonT(60)

\* The clocks of the contexts that are not in use are empty after an operation
\* on t, if that of t is.
LEMMA CleanAfter ==
  ASSUME NEW t \in Tids, RegistryOK(reg), Clocks, Rest(reg, reg', t),
         \A x \in Tids : x # t => sync'[x] = sync[x],
         reg'.threads[t].status \in {"dead", "invalid"} => sync'[t] = {}
  PROVE  Clean(reg', sync')
<1>1. ASSUME NEW x \in Tids, reg'.threads[x].status \in {"dead", "invalid"} PROVE sync'[x] = {}
  <2>1. CASE x = t
    BY <1>1, <2>1, Zenon
  <2>2. CASE x # t
    <3>1. reg.threads[x].status \in {"dead", "invalid"} /\ sync'[x] = sync[x]
      BY <1>1, <2>2, Zenon DEF Rest, Tids
    <3> QED BY <3>1, Zenon DEF Clocks, ClockOK
  <2> QED BY <2>1, <2>2, Zenon
<1> QED BY <1>1, Zenon DEF Clean, Rest, Tids

\* The joined context dies, its clock handed over.
LEMMA ThreadJoinStep ==
  ASSUME ThreadInv, NEW a \in Actors, ThreadJoin(a)
  PROVE  ThreadInv'
<1>d. PICK t, s : arg[a].tid = t /\ arg[a].slot = s
  BY Zenon
<1>i. RegistryOK(reg) /\ ThreadTypeOK /\ Claims /\ Clocks /\ EdgesKept
  BY Zenon DEF ThreadInv
<1>g. pc[a] = "joined" /\ pc[a] \in ClaimPcs
  BY Zenon DEF ThreadJoin, ClaimPcs
<1>c. t \in Tids /\ t # MainTid /\ ~reg.threads[t].detached /\ reg.threads[t].status = "finished"
  BY <1>d, <1>i, <1>g, Zenon DEF Claims, ClaimOK
<1>o. Operated(reg, reg', t) /\ reg'.threads[t] = Dead(reg.threads[t])
  <2>1. reg' = JoinThread(reg, t)
    BY <1>d, Zenon DEF ThreadJoin
  <2> QED BY <1>i, <1>c, <2>1, JoinFacts, Zenon DEF Tids
<1>r. RegistryOK(reg)' /\ Rest(reg, reg', t)
  BY <1>i, <1>o, RestFacts, Zenon
<1>n. reg'.threads[t].user = 0 /\ reg'.threads[t].status = "dead"
  <2>1. reg.threads[t] \in Contexts
    BY <1>i, <1>c, RegistryParts, Zenon DEF Tids
  <2> QED BY <1>o, <2>1, DeadIs, Zenon
<1>u. /\ os' = os /\ tid' = tid /\ held' = held /\ sync' = [sync EXCEPT ![t] = {}]
      /\ good' = (good /\ "finish" \in sync[t] /\ Clean(reg', sync'))
      /\ pc' = [pc EXCEPT ![a] = "user"] /\ arg' = [arg EXCEPT ![a] = NoArg]
  BY <1>d, Zenon DEF ThreadJoin, Return, OnJoined
<1>t. ThreadTypeOK'
  BY <1>i, <1>u, NoArgType, Zenon DEF ThreadTypeOK, Pcs
<1>m. Moves(a) /\ pc'[a] = "user"
  BY <1>i, <1>g, <1>u, Zenon DEF ThreadTypeOK, Moves, Busy, Creating
<1>y. sync'[t] = {} /\ \A x \in Tids : x # t => sync'[x] = sync[x]
  BY <1>i, <1>c, <1>u, NoTidFacts, Zenon DEF ThreadTypeOK
<1>k. ClockOK(t)'
  BY <1>n, <1>y, Zenon DEF ClockOK
<1>e. EdgesKept'
  <2>1. Clean(reg', sync')
    BY <1>i, <1>c, <1>r, <1>y, CleanAfter, Zenon
  <2>2. "finish" \in sync[t]
    BY <1>i, <1>c, Zenon DEF Clocks, ClockOK
  <2> QED BY <1>i, <1>u, <2>1, <2>2, Zenon DEF EdgesKept
<1> QED BY <1>d, <1>g, <1>c, <1>r, <1>n, <1>u, <1>t, <1>m, <1>y, <1>k, <1>e, ReleaseStep, ZenonT(60)

\* The context is detached, or dies if its thread has ended.
LEMMA ThreadDetachStep ==
  ASSUME ThreadInv, NEW a \in Actors, ThreadDetach(a)
  PROVE  ThreadInv'
<1>d. PICK t, s : arg[a].tid = t /\ arg[a].slot = s
  BY Zenon
<1>i. RegistryOK(reg) /\ ThreadTypeOK /\ Claims /\ Clocks /\ EdgesKept
  BY Zenon DEF ThreadInv
<1>g. pc[a] = "detached" /\ pc[a] \in ClaimPcs
  BY Zenon DEF ThreadDetach, ClaimPcs
<1>c. t \in Tids /\ t # MainTid /\ reg.threads[t].user = 0 /\ reg.threads[t].status \in {"running", "finished"}
  BY <1>d, <1>i, <1>g, Zenon DEF Claims, ClaimOK
<1>x. reg.threads[t] \in Contexts
  BY <1>i, <1>c, RegistryParts, Zenon DEF Tids
<1>n. /\ Operated(reg, reg', t) /\ reg'.threads[t].user = 0
      /\ reg'.threads[t].status = IF reg.threads[t].status = "running" THEN "running" ELSE "dead"
  <2>1. reg' = DetachThread(reg, t)
    BY <1>d, Zenon DEF ThreadDetach, Registry
  <2>2. CASE reg.threads[t].status = "running"
    <3>1. Operated(reg, reg', t) /\ reg'.threads[t] = SetDetached(reg.threads[t])
      BY <1>i, <1>c, <2>1, <2>2, DetachRunningFacts, Zenon DEF Tids
    <3>2. /\ SetDetached(reg.threads[t]).user = reg.threads[t].user
          /\ SetDetached(reg.threads[t]).status = reg.threads[t].status
      BY <1>x, DetachedIs, Zenon
    <3> QED BY <1>c, <2>2, <3>1, <3>2, Zenon
  <2>3. CASE reg.threads[t].status = "finished"
    <3>1. Operated(reg, reg', t) /\ reg'.threads[t] = Dead(reg.threads[t])
      BY <1>i, <1>c, <2>1, <2>3, DetachFinishedFacts, Zenon DEF Tids
    <3>2. Dead(reg.threads[t]).user = 0 /\ Dead(reg.threads[t]).status = "dead"
      BY <1>x, DeadIs, Zenon
    <3> QED BY <2>3, <3>1, <3>2, Zenon
  <2> QED BY <1>c, <2>2, <2>3, Zenon
<1>r. RegistryOK(reg)' /\ Rest(reg, reg', t)
  BY <1>i, <1>n, RestFacts, Zenon
<1>u. /\ os' = os /\ tid' = tid /\ held' = held /\ sync' = [sync EXCEPT ![t] = {}]
      /\ good' = (good /\ Clean(reg', sync'))
      /\ pc' = [pc EXCEPT ![a] = "user"] /\ arg' = [arg EXCEPT ![a] = NoArg]
  BY <1>d, Zenon DEF ThreadDetach, Registry, Return, OnDetached
<1>t. ThreadTypeOK'
  BY <1>i, <1>u, NoArgType, Zenon DEF ThreadTypeOK, Pcs
<1>m. Moves(a) /\ pc'[a] = "user"
  BY <1>i, <1>g, <1>u, Zenon DEF ThreadTypeOK, Moves, Busy, Creating
<1>y. sync'[t] = {} /\ \A x \in Tids : x # t => sync'[x] = sync[x]
  BY <1>i, <1>c, <1>u, NoTidFacts, Zenon DEF ThreadTypeOK
<1>k. ClockOK(t)'
  BY <1>n, <1>y, Zenon DEF ClockOK
<1>e. EdgesKept'
  <2>1. Clean(reg', sync')
    BY <1>i, <1>c, <1>r, <1>y, CleanAfter, Zenon
  <2> QED BY <1>i, <1>u, <2>1, Zenon DEF EdgesKept
<1> QED BY <1>d, <1>g, <1>c, <1>r, <1>n, <1>u, <1>t, <1>m, <1>y, <1>k, <1>e, ReleaseStep, ZenonT(60)

-----------------------------------------------------------------------------
(* The start of an interceptor that uses a handle.                          *)

\* The handle is taken from the only context that has it.
LEMMA ThreadConsumeTidStep ==
  ASSUME ThreadInv, NEW a \in Actors, NEW s \in Slots, NEW op \in Ops, ThreadConsumeTid(a, s, op)
  PROVE  ThreadInv'
<1>i. /\ RegistryOK(reg) /\ ThreadTypeOK /\ SlotThreads /\ Creators /\ Users
      /\ HeldHandles /\ Claims /\ Holds /\ Clocks /\ EdgesKept
  BY Zenon DEF ThreadInv
<1>g. pc[a] = "user" /\ s \in held
  BY Zenon DEF ThreadConsumeTid, MayUse
<1>0. 0 \notin Slots
  BY HandlesAssumption, Zenon
\* The thread has started, so its handle is known, and to one context.
<1>b. pc[s] # "begin"
  <2>1. CASE a = s
    BY <1>g, <2>1, Zenon
  <2>2. CASE a # s
    BY <1>i, <2>2, Zenon DEF ThreadConsumeTid, MayUse, Creators, Creating
  <2> QED BY <2>1, <2>2, Zenon
<1>e. PICK t \in Tids : reg.threads[t].user = s
  BY <1>i, <1>g, <1>b, Zenon DEF HeldHandles, HeldOK, Unregistered
<1>v. UserOK(t, s) /\ \A x \in Tids : reg.threads[x].user = s => x = t
  BY <1>i, <1>e, <1>0, Zenon DEF Users
<1>h. HeldOK(s)
  BY <1>i, <1>g, Zenon DEF HeldHandles
<1>c. t # MainTid /\ ~reg.threads[t].detached /\ reg.threads[t].status \in {"running", "finished"}
  <2>1. t # MainTid
    BY <1>i, <1>e, <1>0, Zenon DEF RegistryOK, ContextsOK
  <2>2. reg.threads[t].status # "created"
    <3>1. SlotOK(s) /\ NoTid \notin Tids
      BY <1>i, NoTidFacts, Zenon DEF SlotThreads
    <3>2. reg.threads[t].status = "created" => Alive(s) /\ tid[s] = t
      BY <1>v, Zenon DEF UserOK
    <3> QED BY <1>b, <3>1, <3>2, Zenon DEF SlotOK
  <2> QED BY <1>g, <1>v, <2>1, <2>2, Zenon DEF UserOK
<1>m. Matching(reg, s) = {t}
  <2>1. t \in Matching(reg, s)
    BY <1>e, <1>c, Zenon DEF Matching, Tids
  <2>2. \A x \in Matching(reg, s) : x = t
    BY <1>v, Zenon DEF Matching, Tids
  <2> QED BY <2>1, <2>2, Zenon
<1>u. /\ os' = os /\ tid' = tid /\ sync' = sync /\ good' = good /\ held' = held \ {s}
      /\ pc' = [pc EXCEPT ![a] = "real"]
      /\ arg' = [arg EXCEPT ![a] = [slot |-> s, op |-> op, tid |-> t]]
  <2>1. (IF Matching(reg, s) = {} THEN NoTid ELSE CHOOSE x \in Matching(reg, s) : TRUE) = t
    BY <1>m, Zenon
  <2> QED BY <2>1, Zenon DEF ThreadConsumeTid, Goto
<1>r. /\ RegistryOK(reg)' /\ Tids' = Tids /\ reg'.invalid = reg.invalid
      /\ \A x \in Tids :
           /\ reg'.threads[x].status = reg.threads[x].status /\ reg'.threads[x].detached = reg.threads[x].detached
           /\ reg'.threads[x].user = IF reg.threads[x].user = s THEN 0 ELSE reg.threads[x].user
  <2>1. reg' = Consumed(reg, s)
    BY Zenon DEF ThreadConsumeTid
  <2>2. Took(reg, s, reg')
    BY <1>i, <2>1, ConsumeFacts, Zenon
  <2> QED BY <2>2, Zenon DEF Took, Tids
<1>x. reg'.threads[t].user = 0 /\ \A x \in Tids : x # t => Leaves(x)
  BY <1>e, <1>r, <1>v, Zenon DEF Leaves
<1>p. /\ pc'[a] = "real" /\ arg'[a].slot = s /\ arg'[a].tid = t
  BY <1>i, <1>u, Zenon DEF ThreadTypeOK
<1>t. ThreadTypeOK'
  <2>1. [slot |-> s, op |-> op, tid |-> t] \in [slot : Actors, tid : Nat, op : Ops \union {"none"}]
    <3>1. t \in Nat
      <4>1. t \in 0..MaxThreads - 1
        BY <1>i, NoTidFacts, Zenon
      <4> QED BY <4>1, RegistryConstants, SMTT(60)
    <3> QED BY <3>1, Zenon DEF Actors
  <2>2. arg' \in [Actors -> [slot : Actors, tid : Nat, op : Ops \union {"none"}]]
    BY <1>i, <1>u, <2>1, Zenon DEF ThreadTypeOK
  <2>3. pc' \in [Actors -> Pcs]
    BY <1>i, <1>u, Zenon DEF ThreadTypeOK, Pcs
  <2> QED BY <1>i, <1>u, <2>2, <2>3, Zenon DEF ThreadTypeOK
<1>w. Moves(a)
  <2>1. \A u \in Slots : pc[u] = "begin" => ~Creating(a, u)
    BY <1>g, Zenon DEF Creating
  <2> QED BY <1>i, <1>g, <1>u, <2>1, Zenon DEF ThreadTypeOK, Moves, Busy
<1>s. Spares
  <2>1. CanCreate(reg) => CanCreate(reg)'
    BY <1>r, Zenon DEF CanCreate, Tids
  <2>2. \A u \in Slots : Unregistered(u) => (u \in held' <=> u \in held)
    BY <1>b, <1>u, Zenon DEF Unregistered
  <2> QED BY <1>r, <1>u, <2>1, <2>2, Zenon DEF Spares
<1>1. SlotThreads' /\ Creators'
  BY <1>i, <1>s, <1>w, SlotsKept, CreatorsKept, Zenon
<1>2. Users'
  <2>1. ASSUME NEW x \in Tids, NEW u \in Slots, reg'.threads[x].user = u PROVE UserOK(x, u)'
    <3>1. x # t
      BY <1>0, <1>x, <2>1, Zenon
    <3>2. reg.threads[x].user = u /\ Leaves(x) /\ u # s
      BY <1>x, <1>v, <2>1, <3>1, Zenon DEF Leaves
    <3>3. UserOK(x, u) /\ (u \in held' <=> u \in held)
      BY <1>i, <1>u, <3>2, Zenon DEF Users
    <3> QED BY <1>u, <1>w, <3>2, <3>3, UserKept, Zenon
  <2>2. ASSUME NEW x \in Tids, NEW y \in Tids, reg'.threads[x].user = reg'.threads[y].user,
               reg'.threads[x].user # 0
        PROVE  x = y
    <3>1. x # t /\ y # t
      BY <1>x, <2>2, Zenon
    <3> QED BY <1>i, <1>x, <2>2, <3>1, ZenonT(60) DEF Users, Leaves
  <2> QED BY <1>r, <2>1, <2>2, Zenon DEF Users
<1>3. HeldHandles'
  <2>1. ASSUME NEW u \in held' PROVE HeldOK(u)'
    <3>0. u \in Slots /\ u \in held /\ u # s
      BY <1>i, <1>u, <2>1, Zenon DEF ThreadTypeOK
    <3>1. HeldOK(u)
      BY <1>i, <3>0, Zenon DEF HeldHandles
    <3>2. \A x \in Tids : reg.threads[x].user = u => reg'.threads[x].user = u
      BY <1>r, <3>0, Zenon
    <3> QED BY <1>r, <1>u, <1>w, <3>0, <3>1, <3>2, HeldKept, ZenonT(60)
  <2> QED BY <2>1, Zenon DEF HeldHandles
\* No other interceptor has claimed the context, or holds the handle.
<1>q. \A b \in Actors : pc[b] \in ClaimPcs => b # a /\ arg[b].tid # t /\ arg[b].tid \in Tids
  BY <1>i, <1>e, <1>g, <1>0, Zenon DEF Claims, ClaimOK, ClaimPcs
<1>4. Claims'
  <2>1. ClaimOK(a)'
    BY <1>c, <1>e, <1>p, <1>r, <1>x, Zenon DEF ClaimOK
  <2>2. \A b \in Actors : b # a /\ pc[b] \in ClaimPcs => Leaves(arg[b].tid)
    BY <1>q, <1>x, Zenon
  <2>3. \A b \in Actors : b # a /\ pc[b] \in ClaimPcs /\ pc'[a] \in ClaimPcs => arg[b].tid # arg'[a].tid
    BY <1>p, <1>q, Zenon
  <2> QED BY <1>i, <1>r, <1>w, <2>1, <2>2, <2>3, ClaimsKept, Zenon
<1>5. Holds'
  <2>o. ASSUME NEW b \in Actors, NEW u \in Slots, NEW x \in Tids, b # a, Holding(b, u, x)
        PROVE  Leaves(x) /\ u \notin held' /\ os'[u] = os[u] /\ \A y \in Tids : reg'.threads[y].user # u
    <3>1. HoldOK(u, x)
      BY <1>i, <2>o, Zenon DEF Holds
    <3>2. x # t
      BY <1>q, <2>o, Zenon DEF Holding, HoldPcs, ClaimPcs
    <3>3. \A y \in Tids : reg'.threads[y].user # u
      BY <1>r, <1>0, <3>1, Zenon DEF HoldOK
    <3> QED BY <1>u, <1>x, <3>1, <3>2, <3>3, Zenon DEF HoldOK
  <2>a. Apart(a)
    BY <2>o, Zenon DEF Apart
  <2>1. ASSUME NEW u \in Slots, NEW x \in Tids, Holding(a, u, x)' PROVE HoldOK(u, x)'
    <3>1. u = s /\ x = t
      BY <1>p, <2>1, Zenon DEF Holding
    <3>2. Stays(s)
      BY <1>w, Staying, Zenon
    <3>3. \A y \in Tids : reg'.threads[y].user # s
      BY <1>r, <1>0, Zenon
    <3>4. HoldOK(s, t)'
      BY <1>h, <1>r, <1>u, <1>v, <1>e, <3>2, <3>3, ZenonT(60) DEF HoldOK, HeldOK, UserOK, Stays
    <3> QED BY <3>1, <3>4, Zenon
  <2>2. ASSUME NEW b \in Actors, b # a, pc[b] \in HoldPcs, pc'[a] \in HoldPcs PROVE arg[b].slot # arg'[a].slot
    <3>1. ClaimOK(b)
      BY <1>i, <2>2, Zenon DEF Claims, ClaimPcs, HoldPcs
    <3>2. HoldOK(arg[b].slot, arg[b].tid)
      BY <1>i, <2>2, <3>1, Zenon DEF Holds, Holding, ClaimOK
    <3> QED BY <1>g, <1>p, <3>2, Zenon DEF HoldOK
  <2> QED BY <1>i, <1>r, <1>w, <2>a, <2>1, <2>2, HoldsKept, ZenonT(60)
<1>6. Clocks' /\ EdgesKept'
  BY <1>i, <1>r, <1>u, ZenonT(60) DEF Clocks, ClockOK, EdgesKept
<1> QED BY <1>r, <1>t, <1>1, <1>2, <1>3, <1>4, <1>5, <1>6, Zenon DEF ThreadInv

-----------------------------------------------------------------------------
(* The steps of a thread's life.                                            *)

\* The new thread gets the next tid; no one else can be in that context.
LEMMA ThreadCreateStep ==
  ASSUME ThreadInv, IntervalSizes, NEW a \in Actors, ThreadCreate(a)
  PROVE  ThreadInv'
<1>d. PICK s, t : arg[a].slot = s /\ NextTid(reg) = t
  BY Zenon
<1>i. /\ RegistryOK(reg) /\ ThreadTypeOK /\ SlotThreads /\ Creators /\ Users
      /\ HeldHandles /\ Claims /\ Holds /\ Clocks /\ EdgesKept
  BY Zenon DEF ThreadInv
<1>g. pc[a] = "create" /\ s \in Slots /\ pc[s] = "begin" /\ tid[s] = NoTid /\ CanCreate(reg) /\ s \in Actors
  <2>1. pc[a] = "create" /\ s \in Actors
    BY <1>d, <1>i, Zenon DEF ThreadCreate, ThreadTypeOK
  <2> QED BY <1>d, <1>i, <2>1, Zenon DEF Creators, Unregistered
<1>0. 0 \notin Slots /\ a # s
  BY <1>g, HandlesAssumption, Zenon
<1>n. NoTid \notin Tids
  BY <1>i, NoTidFacts, Zenon
<1>u. /\ os' = os /\ held' = held /\ arg' = arg /\ tid' = [tid EXCEPT ![s] = t]
      /\ pc' = [pc EXCEPT ![a] = "await"] /\ sync' = [sync EXCEPT ![t] = @ \union {"create"}]
      /\ good' = (good /\ Clean(reg', sync'))
  BY <1>d, Zenon DEF ThreadCreate, Registry, Goto, OnCreated
<1>r. /\ RegistryOK(reg)' /\ Tids' = Tids \union {t} /\ t \in 1..MaxThreads - 1 /\ t # MainTid
      /\ (t \in Tids => reg.threads[t].status = "invalid")
      /\ reg'.threads[t].status = "created" /\ reg'.threads[t].user = s
      /\ reg'.threads[t].detached = os[s].detached
      /\ \A x \in Tids : x # t => reg'.threads[x] = reg.threads[x]
  <2>1. os[s].detached \in BOOLEAN
    BY <1>i, <1>g, Zenon DEF ThreadTypeOK
  <2>2. reg' = CreateThread(reg, s, os[s].detached)
    BY <1>d, Zenon DEF ThreadCreate, Registry
  <2>3. New(reg, s, os[s].detached, t, reg')
    BY <1>d, <1>i, <1>g, <2>1, <2>2, CreateFacts, Zenon
  <2> QED BY <2>3, Zenon DEF New, Tids
<1>k. t # NoTid /\ t \in 0..MaxThreads /\ t \in 0..MaxThreads - 1
  BY <1>r, RegistryConstants, SMTT(60) DEF NoTid
<1>t. ThreadTypeOK'
  <2>1. pc' \in [Actors -> Pcs]
    BY <1>i, <1>u, Zenon DEF ThreadTypeOK, Pcs
  <2>2. tid' \in [Slots -> 0..MaxThreads]
    BY <1>i, <1>u, <1>k, Zenon DEF ThreadTypeOK
  <2>3. sync' \in [0..MaxThreads - 1 -> SUBSET {"create", "finish"}]
    <3>1. sync[t] \union {"create"} \in SUBSET {"create", "finish"}
      BY <1>i, <1>k, Zenon DEF ThreadTypeOK
    <3> QED BY <1>i, <1>u, <1>k, <3>1, Zenon DEF ThreadTypeOK
  <2> QED BY <1>i, <1>u, <2>1, <2>2, <2>3, Zenon DEF ThreadTypeOK
<1>p. pc'[a] = "await" /\ \A b \in Actors : b # a => pc'[b] = pc[b]
  BY <1>i, <1>u, Zenon DEF ThreadTypeOK
<1>e. tid'[s] = t /\ \A u \in Slots : u # s => tid'[u] = tid[u]
  BY <1>i, <1>g, <1>u, Zenon DEF ThreadTypeOK
<1>y. "create" \in sync'[t] /\ \A x \in Tids : x # t => sync'[x] = sync[x]
  <2>1. \A x \in Tids : x \in 0..MaxThreads - 1
    BY <1>i, NoTidFacts, Zenon
  <2> QED BY <1>i, <1>u, <1>k, <2>1, Zenon DEF ThreadTypeOK
<1>a. \A u \in Slots : /\ (Alive(u)' <=> Alive(u)) /\ (pc'[u] = "none" <=> pc[u] = "none")
                       /\ (pc'[u] = "begin" <=> pc[u] = "begin") /\ (pc'[u] = "exit" <=> pc[u] = "exit")
  <2>1. ASSUME NEW u \in Slots
        PROVE  /\ (Alive(u)' <=> Alive(u)) /\ (pc'[u] = "none" <=> pc[u] = "none")
               /\ (pc'[u] = "begin" <=> pc[u] = "begin") /\ (pc'[u] = "exit" <=> pc[u] = "exit")
    <3>1. CASE u = a
      BY <1>g, <1>p, <3>1, Zenon DEF Alive
    <3>2. CASE u # a
      <4>1. pc'[u] = pc[u]
        BY <1>p, <3>2, Zenon DEF Actors
      <4> QED BY <4>1, Zenon DEF Alive
    <3> QED BY <3>1, <3>2, Zenon
  <2> QED BY <2>1, Zenon
\* The context was not in use, and no context has the handle.
<1>x. \A x \in Tids : reg.threads[x].status \in InUse => x # t /\ reg'.threads[x] = reg.threads[x]
  BY <1>r, Zenon DEF InUse
<1>f. \A x \in Tids : reg.threads[x].user # s
  <2>1. ASSUME NEW x \in Tids, reg.threads[x].user = s PROVE FALSE
    <3>1. UserOK(x, s)
      BY <1>i, <1>g, <2>1, Zenon DEF Users
    <3>2. SlotOK(s)
      BY <1>i, <1>g, Zenon DEF SlotThreads
    <3> QED BY <1>g, <1>n, <3>1, <3>2, Zenon DEF UserOK, SlotOK
  <2> QED BY <2>1, Zenon
<1>z. ASSUME NEW u \in Slots, Alive(u), tid[u] # NoTid
      PROVE  u # s /\ tid[u] # t /\ tid[u] \in Tids /\ reg'.threads[tid[u]] = reg.threads[tid[u]]
  <2>1. SlotOK(u) /\ u # s
    BY <1>i, <1>g, <1>z, Zenon DEF SlotThreads
  <2>2. tid[u] \in Tids /\ reg.threads[tid[u]].status \in InUse
    BY <1>z, <2>1, Zenon DEF SlotOK, InUse
  <2> QED BY <1>x, <2>1, <2>2, Zenon
<1>1. SlotThreads'
  <2>1. ASSUME NEW u \in Slots PROVE SlotOK(u)'
    <3>0. SlotOK(u)
      BY <1>i, Zenon DEF SlotThreads
    <3>1. CASE u = s
      BY <1>g, <1>a, <1>e, <1>k, <1>r, <1>u, <3>0, <3>1, ZenonT(60) DEF SlotOK
    <3>2. CASE u # s
      <4>1. tid'[u] = tid[u] /\ os'[u] = os[u]
        BY <1>e, <1>u, <3>2, Zenon
      <4>2. Alive(u) /\ tid[u] # NoTid => tid[u] \in Tids' /\ reg'.threads[tid[u]] = reg.threads[tid[u]]
        BY <1>z, <1>r, Zenon
      <4> QED BY <1>a, <3>0, <4>1, <4>2, Zenon DEF SlotOK
    <3> QED BY <3>1, <3>2, Zenon
  <2>2. ASSUME NEW u \in Slots, Unregistered(u)' PROVE u \in held' <=> ~os'[u].detached
    <3>1. u # s
      BY <1>e, <1>k, <2>2, Zenon DEF Unregistered
    <3>2. Unregistered(u)
      BY <1>a, <1>e, <2>2, <3>1, Zenon DEF Unregistered
    <3> QED BY <1>i, <1>u, <3>2, Zenon DEF SlotThreads
  <2>3. ASSUME NEW u \in Slots, NEW w \in Slots, Alive(u)', Alive(w)', tid'[u] = tid'[w], tid'[u] # NoTid PROVE u = w
    <3>0. Alive(u) /\ Alive(w)
      BY <1>a, <2>3, Zenon
    <3>1. CASE u # s /\ w # s
      BY <1>i, <1>e, <2>3, <3>0, <3>1, Zenon DEF SlotThreads
    <3>2. CASE u = s /\ w # s
      BY <1>z, <1>e, <2>3, <3>0, <3>2, Zenon
    <3>3. CASE u # s /\ w = s
      BY <1>z, <1>e, <2>3, <3>0, <3>3, Zenon
    <3> QED BY <3>1, <3>2, <3>3, Zenon
  <2> QED BY <2>1, <2>2, <2>3, Zenon DEF SlotThreads
<1>2. Creators'
  <2>1. ASSUME NEW u \in Slots, pc'[u] = "begin" PROVE \E b \in Actors : Creating(b, u)'
    <3>1. PICK b \in Actors : Creating(b, u)
      BY <1>i, <1>a, <2>1, Zenon DEF Creators
    <3>2. Creating(b, u)'
      BY <1>p, <1>u, <3>1, Zenon DEF Creating
    <3> QED BY <3>2, Zenon
  <2>2. \A b \in Actors : pc'[b] # "create"
    BY <1>i, <1>g, <1>p, Zenon DEF Creators
  <2> QED BY <2>1, <2>2, Zenon DEF Creators
<1>3. Users'
  <2>1. ASSUME NEW x \in Tids \union {t}, NEW u \in Slots, reg'.threads[x].user = u PROVE UserOK(x, u)'
    <3>1. CASE x = t
      <4>1. u = s
        BY <1>r, <2>1, <3>1, Zenon
      <4>2. Alive(s) /\ (s \in held <=> ~os[s].detached)
        BY <1>i, <1>g, Zenon DEF Alive, SlotThreads, Unregistered
      <4>3. UserOK(t, s)'
        BY <1>a, <1>e, <1>g, <1>r, <1>u, <4>2, Zenon DEF UserOK
      <4> QED BY <3>1, <4>1, <4>3, Zenon
    <3>2. CASE x # t
      <4>1. x \in Tids /\ reg'.threads[x] = reg.threads[x]
        BY <1>r, <3>2, Zenon
      <4>2. u # s /\ UserOK(x, u)
        BY <1>i, <1>f, <2>1, <4>1, Zenon DEF Users
      <4> QED BY <1>a, <1>e, <1>u, <4>1, <4>2, Zenon DEF UserOK
    <3> QED BY <3>1, <3>2, Zenon
  <2>2. ASSUME NEW x \in Tids \union {t}, NEW y \in Tids \union {t}, reg'.threads[x].user = reg'.threads[y].user,
               reg'.threads[x].user # 0
        PROVE  x = y
    <3>1. CASE x # t /\ y # t
      BY <1>i, <1>r, <2>2, <3>1, ZenonT(60) DEF Users
    <3>2. CASE x = t /\ y # t
      BY <1>f, <1>r, <2>2, <3>2, Zenon
    <3>3. CASE x # t /\ y = t
      BY <1>f, <1>r, <2>2, <3>3, Zenon
    <3> QED BY <3>1, <3>2, <3>3, Zenon
  <2> QED BY <1>r, <2>1, <2>2, Zenon DEF Users
<1>4. HeldHandles'
  <2>1. ASSUME NEW u \in held PROVE HeldOK(u)'
    <3>0. u \in Slots /\ HeldOK(u)
      BY <1>i, Zenon DEF ThreadTypeOK, HeldHandles
    <3>1. CASE u = s
      BY <1>r, <1>u, <3>0, <3>1, Zenon DEF HeldOK
    <3>2. CASE u # s
      <4>1. ASSUME Unregistered(u) PROVE HeldOK(u)'
        BY <1>a, <1>e, <1>u, <3>0, <3>2, <4>1, Zenon DEF HeldOK, Unregistered
      <4>2. ASSUME NEW x \in Tids, reg.threads[x].user = u PROVE HeldOK(u)'
        <5>1. UserOK(x, u)
          BY <1>i, <3>0, <4>2, Zenon DEF Users
        <5>2. x \in Tids' /\ reg'.threads[x].user = u
          BY <1>r, <1>x, <4>2, <5>1, Zenon DEF UserOK, InUse
        <5> QED BY <1>u, <3>0, <5>2, Zenon DEF HeldOK
      <4> QED BY <3>0, <4>1, <4>2, Zenon DEF HeldOK
    <3> QED BY <3>1, <3>2, Zenon
  <2> QED BY <1>u, <2>1, Zenon DEF HeldHandles
<1>c. \A b \in Actors : (pc'[b] \in ClaimPcs <=> pc[b] \in ClaimPcs) /\ (pc[b] \in ClaimPcs => pc'[b] = pc[b])
  BY <1>g, <1>p, Zenon DEF ClaimPcs
<1>5. Claims'
  <2>1. ASSUME NEW b \in Actors, pc[b] \in ClaimPcs PROVE ClaimOK(b)'
    <3>1. ClaimOK(b) /\ pc'[b] = pc[b]
      BY <1>i, <1>c, <2>1, Zenon DEF Claims
    <3>2. arg[b].tid \in Tids' /\ reg'.threads[arg[b].tid] = reg.threads[arg[b].tid]
      BY <1>r, <1>x, <3>1, Zenon DEF ClaimOK, InUse
    <3> QED BY <1>u, <3>1, <3>2, Zenon DEF ClaimOK
  <2> QED BY <1>i, <1>c, <1>u, <2>1, Zenon DEF Claims
<1>6. Holds'
  <2>h. \A b \in Actors : pc'[b] \in HoldPcs => pc[b] \in HoldPcs
    BY <1>p, Zenon DEF HoldPcs
  <2>1. ASSUME NEW b \in Actors, NEW u \in Slots, NEW x \in Tids \union {t}, Holding(b, u, x)' PROVE HoldOK(u, x)'
    <3>1. Holding(b, u, x)
      BY <1>u, <2>h, <2>1, Zenon DEF Holding
    <3>2. ClaimOK(b) /\ arg[b].tid = x
      BY <1>i, <3>1, Zenon DEF Claims, Holding, HoldPcs, ClaimPcs
    <3>3. x \in Tids /\ reg'.threads[x] = reg.threads[x] /\ reg.threads[x].status \in {"running", "finished"}
      BY <1>x, <3>2, Zenon DEF ClaimOK, InUse
    <3>4. HoldOK(u, x)
      BY <1>i, <3>1, <3>3, Zenon DEF Holds
    <3>5. u # s
      <4>1. SlotOK(u)
        BY <1>i, Zenon DEF SlotThreads
      <4> QED BY <1>g, <1>n, <3>3, <3>4, <4>1, Zenon DEF HoldOK, SlotOK
    <3>6. \A y \in Tids \union {t} : reg'.threads[y].user # u
      BY <1>r, <3>4, <3>5, Zenon DEF HoldOK
    <3> QED BY <1>a, <1>e, <1>r, <1>u, <3>3, <3>4, <3>5, <3>6, ZenonT(60) DEF HoldOK
  <2>2. \A b, e \in Actors : pc'[b] \in HoldPcs /\ pc'[e] \in HoldPcs /\ b # e => arg'[b].slot # arg'[e].slot
    BY <1>i, <1>u, <2>h, Zenon DEF Holds
  <2> QED BY <1>r, <2>1, <2>2, Zenon DEF Holds
<1>7. Clocks'
  <2>1. ASSUME NEW x \in Tids \union {t} PROVE ClockOK(x)'
    <3>1. CASE x = t
      BY <1>r, <1>y, <3>1, Zenon DEF ClockOK
    <3>2. CASE x # t
      <4>1. ClockOK(x) /\ x \in Tids
        BY <1>i, <3>2, Zenon DEF Clocks
      <4> QED BY <1>r, <1>y, <3>2, <4>1, Zenon DEF ClockOK
    <3> QED BY <3>1, <3>2, Zenon
  <2> QED BY <1>r, <2>1, Zenon DEF Clocks
<1>8. EdgesKept'
  <2>1. Clean(reg', sync')
    BY <1>7, Zenon DEF Clean, Clocks, ClockOK, Tids
  <2> QED BY <1>i, <1>u, <2>1, Zenon DEF EdgesKept
<1> QED BY <1>r, <1>t, <1>1, <1>2, <1>3, <1>4, <1>5, <1>6, <1>7, <1>8, Zenon DEF ThreadInv

\* A step of the thread in slot s on its own context t, from one state to another.
Lives(s, t) ==
  /\ Tids' = Tids /\ held' = held /\ arg' = arg /\ tid' = tid /\ os' = os
  /\ t \in Tids /\ Alive(s) /\ tid[s] = t /\ t # NoTid /\ ~Unregistered(s)
  /\ \A b \in Actors : b # s => pc'[b] = pc[b]
  /\ pc[s] \in {"begin", "user"} /\ pc'[s] \in {"user", "exit"} /\ (pc[s] = "user" => pc'[s] = "exit")
  /\ RegistryOK(reg)' /\ Rest(reg, reg', t)

\* What concerns the other threads.
LEMMA OthersLive ==
  ASSUME ThreadInv, NEW s \in Slots, NEW t, Lives(s, t)
  PROVE  /\ \A u \in Slots : u # s => SlotOK(u)'
         /\ \A u \in Slots : Unregistered(u)' => (u \in held' <=> ~os'[u].detached)
         /\ \A u, w \in Slots : Alive(u)' /\ Alive(w)' /\ tid'[u] = tid'[w] /\ tid'[u] # NoTid => u = w
         /\ Creators'
         /\ \A u \in Slots, x \in Tids : x # t /\ reg.threads[x].user = u => UserOK(x, u)'
         /\ \A x \in Tids : x # t /\ reg.threads[x].status \in InUse => Leaves(x)
         /\ \A u \in Slots : u # s => Stays(u)
         /\ \A b \in Actors : pc'[b] \in ClaimPcs => b # s /\ pc'[b] = pc[b]
<1>i. SlotThreads /\ Creators /\ Users
  BY Zenon DEF ThreadInv
<1>l. /\ Tids' = Tids /\ held' = held /\ arg' = arg /\ tid' = tid /\ os' = os
      /\ t \in Tids /\ Alive(s) /\ tid[s] = t /\ t # NoTid /\ ~Unregistered(s)
      /\ \A b \in Actors : b # s => pc'[b] = pc[b]
      /\ pc[s] \in {"begin", "user"} /\ pc'[s] \in {"user", "exit"}
  BY Zenon DEF Lives
<1>r. /\ CanCreate(reg) => CanCreate(reg)'
      /\ \A x \in Tids : x # t =>
           /\ reg'.threads[x].user = reg.threads[x].user /\ reg'.threads[x].detached = reg.threads[x].detached
           /\ reg'.threads[x].status = reg.threads[x].status
                \/ (reg.threads[x].status = "dead" /\ reg'.threads[x].status = "invalid")
  BY Zenon DEF Lives, Rest, Tids
<1>u. \A x \in Tids : x # t /\ reg.threads[x].status \in InUse => Leaves(x)
  BY <1>r, Zenon DEF Leaves, InUse
<1>s. ASSUME NEW u \in Slots, u # s PROVE Stays(u)
  <2>1. pc'[u] = pc[u] /\ tid'[u] = tid[u]
    BY <1>l, <1>s, Zenon DEF Actors
  <2> QED BY <2>1, Zenon DEF Stays, Alive
<1>d. \A u \in Slots : u # s /\ Alive(u) => tid[u] # t
  BY <1>i, <1>l, Zenon DEF SlotThreads
<1>1. ASSUME NEW u \in Slots, u # s PROVE SlotOK(u)'
  <2>1. SlotOK(u) /\ Stays(u)
    BY <1>i, <1>s, <1>1, Zenon DEF SlotThreads
  <2>2. Alive(u) /\ tid[u] # NoTid => tid[u] \in Tids /\ reg'.threads[tid[u]].status = reg.threads[tid[u]].status
    BY <1>d, <1>u, <1>1, <2>1, Zenon DEF SlotOK, InUse, Leaves
  <2> QED BY <1>l, <2>1, <2>2, Zenon DEF SlotOK, Stays
<1>b. ASSUME NEW u \in Slots, Unregistered(u)' PROVE u # s /\ Unregistered(u)
  <2>1. u # s
    BY <1>l, <1>b, Zenon DEF Unregistered
  <2> QED BY <1>s, <1>b, <2>1, Zenon DEF Unregistered, Stays
<1>2. \A u \in Slots : Unregistered(u)' => (u \in held' <=> ~os'[u].detached)
  BY <1>i, <1>b, <1>l, Zenon DEF SlotThreads
<1>3. ASSUME NEW u \in Slots, NEW w \in Slots, Alive(u)', Alive(w)', tid'[u] = tid'[w], tid'[u] # NoTid PROVE u = w
  <2>1. \A v \in Slots : Alive(v)' => Alive(v)
    BY <1>l, <1>s, Zenon DEF Stays
  <2> QED BY <1>i, <1>l, <1>3, <2>1, Zenon DEF SlotThreads
<1>4. Creators'
  <2>1. ASSUME NEW u \in Slots, pc'[u] = "begin" PROVE \E b \in Actors : Creating(b, u)'
    <3>1. u # s
      BY <1>l, <2>1, Zenon
    <3>2. PICK b \in Actors : Creating(b, u)
      BY <1>i, <1>s, <2>1, <3>1, Zenon DEF Creators, Stays
    <3>3. b # s
      BY <1>l, <3>2, Zenon DEF Creating
    <3> QED BY <1>l, <3>2, <3>3, Zenon DEF Creating
  <2>2. \A b \in Actors : pc'[b] = "create" => b # s /\ pc[b] = "create"
    BY <1>l, Zenon
  <2>3. ASSUME NEW b \in Actors, NEW u \in Actors, pc'[b] = "create", arg'[b].slot = u
        PROVE  u \in Slots /\ Unregistered(u)' /\ CanCreate(reg)'
    <3>1. u \in Slots /\ Unregistered(u) /\ CanCreate(reg)
      BY <1>i, <1>l, <2>2, <2>3, Zenon DEF Creators
    <3>2. u # s
      BY <1>l, <3>1, Zenon
    <3>3. Stays(u)
      BY <1>s, <3>1, <3>2, Zenon
    <3> QED BY <1>r, <3>1, <3>3, Zenon DEF Unregistered, Stays
  <2> QED BY <1>i, <2>1, <2>2, <2>3, Zenon DEF Creators
<1>5. ASSUME NEW u \in Slots, NEW x \in Tids, x # t, reg.threads[x].user = u PROVE UserOK(x, u)'
  <2>1. UserOK(x, u)
    BY <1>i, <1>5, Zenon DEF Users
  <2>2. Leaves(x)
    BY <1>u, <1>5, <2>1, Zenon DEF UserOK, InUse
  <2>3. CASE u # s
    BY <1>l, <1>s, <2>1, <2>2, <2>3, Zenon DEF UserOK, Leaves, Stays
  <2>4. CASE u = s
    <3>1. reg.threads[x].status = "finished" /\ pc[s] # "exit"
      BY <1>l, <1>5, <2>1, <2>4, Zenon DEF UserOK
    <3>2. os[s].state = "zombie"
      BY <2>1, <2>4, <3>1, Zenon DEF UserOK
    <3> QED BY <1>l, <2>1, <2>2, <2>4, <3>1, <3>2, Zenon DEF UserOK, Leaves
  <2> QED BY <2>3, <2>4, Zenon
<1>6. \A b \in Actors : pc'[b] \in ClaimPcs => b # s /\ pc'[b] = pc[b]
  BY <1>l, Zenon DEF ClaimPcs
<1> QED BY <1>1, <1>2, <1>3, <1>4, <1>5, <1>u, <1>s, <1>6, Zenon

\* The thread in slot s starts or ends, and nothing else happens.
LEMMA LifeStep ==
  ASSUME ThreadInv, NEW s \in Slots, NEW t, Lives(s, t), ThreadTypeOK', EdgesKept',
         \A x \in Tids : x # t => sync'[x] = sync[x], ClockOK(t)', SlotOK(s)',
         reg'.threads[t].detached = reg.threads[t].detached,
         \/ /\ reg.threads[t].status = "created" /\ reg'.threads[t].status = "running" /\ pc'[s] = "user"
            /\ reg'.threads[t].user = reg.threads[t].user
         \/ /\ reg.threads[t].status = "running" /\ pc'[s] = "exit"
            /\ reg'.threads[t].status = IF reg.threads[t].detached THEN "dead" ELSE "finished"
            /\ reg'.threads[t].user = IF reg.threads[t].detached THEN 0 ELSE reg.threads[t].user
  PROVE  ThreadInv'
<1>i. /\ RegistryOK(reg) /\ SlotThreads /\ Users /\ HeldHandles /\ Claims /\ Holds /\ Clocks
  BY Zenon DEF ThreadInv
<1>l. /\ Tids' = Tids /\ held' = held /\ arg' = arg /\ tid' = tid /\ os' = os
      /\ t \in Tids /\ Alive(s) /\ tid[s] = t /\ t # NoTid /\ ~Unregistered(s)
      /\ RegistryOK(reg)'
  BY Zenon DEF Lives
<1>z. \A x \in Tids : x # t => /\ reg'.threads[x].user = reg.threads[x].user
                               /\ reg'.threads[x].status = reg.threads[x].status
                                    \/ (reg.threads[x].status = "dead" /\ reg'.threads[x].status = "invalid")
  BY Zenon DEF Lives, Rest, Tids
<1>0. 0 \notin Slots
  BY HandlesAssumption, Zenon
<1>o. /\ \A u \in Slots : u # s => SlotOK(u)'
      /\ \A u \in Slots : Unregistered(u)' => (u \in held' <=> ~os'[u].detached)
      /\ \A u, w \in Slots : Alive(u)' /\ Alive(w)' /\ tid'[u] = tid'[w] /\ tid'[u] # NoTid => u = w
      /\ Creators'
  BY OthersLive, Zenon
<1>x. \A u \in Slots, x \in Tids : x # t /\ reg.threads[x].user = u => UserOK(x, u)'
  BY OthersLive, Zenon
<1>u. \A x \in Tids : x # t /\ reg.threads[x].status \in InUse => Leaves(x)
  BY OthersLive, Zenon
<1>s. \A u \in Slots : u # s => Stays(u)
  BY OthersLive, Zenon
<1>c. \A b \in Actors : pc'[b] \in ClaimPcs => b # s /\ pc'[b] = pc[b]
  BY OthersLive, Zenon
<1>1. SlotThreads'
  BY <1>o, Zenon DEF SlotThreads
<1>d. \A u \in Slots : Alive(u) /\ tid[u] = t => u = s
  BY <1>i, <1>l, Zenon DEF SlotThreads
\* The context t, and who has its handle.
<1>t. \/ /\ reg.threads[t].status = "created" /\ reg'.threads[t].status = "running" /\ pc'[s] = "user" /\ Alive(s)'
         /\ reg'.threads[t].user = reg.threads[t].user
      \/ /\ reg.threads[t].status = "running" /\ pc'[s] = "exit" /\ reg.threads[t].detached
         /\ reg'.threads[t].status = "dead" /\ reg'.threads[t].user = 0
      \/ /\ reg.threads[t].status = "running" /\ pc'[s] = "exit" /\ ~reg.threads[t].detached
         /\ reg'.threads[t].status = "finished" /\ reg'.threads[t].user = reg.threads[t].user
  BY Zenon DEF Alive
<1>2. Users'
  <2>1. ASSUME NEW x \in Tids, NEW u \in Slots, reg'.threads[x].user = u PROVE UserOK(x, u)'
    <3>1. CASE x = t
      <4>1. /\ reg.threads[t].user = u
            /\ (reg'.threads[t].status = "running" /\ Alive(s)') \/ (reg'.threads[t].status = "finished" /\ pc'[s] = "exit")
        BY <1>t, <1>0, <2>1, <3>1, Zenon
      <4>2. UserOK(t, u)
        BY <1>i, <1>l, <4>1, Zenon DEF Users
      <4>3. u = s
        BY <1>d, <1>t, <4>2, Zenon DEF UserOK
      <4>4. UserOK(t, s)'
        BY <1>l, <4>1, <4>2, <4>3, Zenon DEF UserOK
      <4> QED BY <3>1, <4>3, <4>4, Zenon
    <3>2. CASE x # t
      BY <1>x, <1>z, <2>1, <3>2, Zenon
    <3> QED BY <3>1, <3>2, Zenon
  <2>2. ASSUME NEW x \in Tids, NEW y \in Tids, reg'.threads[x].user = reg'.threads[y].user,
               reg'.threads[x].user # 0
        PROVE  x = y
    <3>1. \A w \in Tids : reg'.threads[w].user # 0 => reg'.threads[w].user = reg.threads[w].user
      BY <1>t, <1>z, Zenon
    <3> QED BY <1>i, <2>2, <3>1, ZenonT(60) DEF Users
  <2> QED BY <1>l, <2>1, <2>2, Zenon DEF Users
<1>3. HeldHandles'
  <2>1. ASSUME NEW u \in held PROVE HeldOK(u)'
    <3>0. u \in Slots /\ HeldOK(u)
      BY <1>i, Zenon DEF ThreadInv, ThreadTypeOK, HeldHandles
    <3>1. ASSUME Unregistered(u) PROVE HeldOK(u)'
      <4>1. u # s
        BY <1>l, <3>1, Zenon
      <4>2. Stays(u)
        BY <1>s, <3>0, <4>1, Zenon
      <4> QED BY <1>l, <3>0, <3>1, <4>2, Zenon DEF HeldOK, Unregistered, Stays
    <3>2. ASSUME NEW x \in Tids, reg.threads[x].user = u PROVE HeldOK(u)'
      <4>1. UserOK(x, u)
        BY <1>i, <3>0, <3>2, Zenon DEF Users
      <4>2. reg'.threads[x].user = u
        <5>1. CASE x = t
          BY <1>t, <3>2, <4>1, <5>1, Zenon DEF UserOK
        <5>2. CASE x # t
          BY <1>z, <3>2, <5>2, Zenon
        <5> QED BY <5>1, <5>2, Zenon
      <4> QED BY <1>l, <3>0, <4>2, Zenon DEF HeldOK
    <3> QED BY <3>0, <3>1, <3>2, Zenon DEF HeldOK
  <2> QED BY <1>l, <2>1, Zenon DEF HeldHandles
<1>4. Claims'
  <2>1. ASSUME NEW b \in Actors, pc'[b] \in ClaimPcs PROVE ClaimOK(b)'
    <3> DEFINE x == arg[b].tid
    <3>1. ClaimOK(b) /\ pc'[b] = pc[b] /\ arg'[b] = arg[b]
      BY <1>i, <1>c, <1>l, <2>1, Zenon DEF Claims
    <3>2. CASE x = t
      BY <1>l, <1>t, <3>1, <3>2, Zenon DEF ClaimOK
    <3>3. CASE x # t
      <4>1. x \in Tids /\ Leaves(x)
        BY <1>u, <3>1, <3>3, Zenon DEF ClaimOK, InUse
      <4> QED BY <1>l, <3>1, <4>1, Zenon DEF ClaimOK, Leaves
    <3> QED BY <3>2, <3>3, Zenon
  <2> QED BY <1>i, <1>c, <1>l, <2>1, Zenon DEF Claims
<1>5. Holds'
  <2>h. \A b \in Actors : pc'[b] \in HoldPcs => pc[b] \in HoldPcs
    BY <1>c, Zenon DEF HoldPcs, ClaimPcs
  <2>1. ASSUME NEW b \in Actors, NEW u \in Slots, NEW x \in Tids, Holding(b, u, x)' PROVE HoldOK(u, x)'
    <3>1. Holding(b, u, x)
      BY <1>l, <2>h, <2>1, Zenon DEF Holding
    <3>2. HoldOK(u, x) /\ ClaimOK(b) /\ arg[b].tid = x
      BY <1>i, <3>1, Zenon DEF Holds, Claims, Holding, HoldPcs, ClaimPcs
    <3>3. \A y \in Tids : reg'.threads[y].user # u
      <4>1. \A y \in Tids : reg'.threads[y].user = reg.threads[y].user \/ reg'.threads[y].user = 0
        BY <1>t, <1>z, Zenon
      <4> QED BY <1>0, <3>2, <4>1, Zenon DEF HoldOK
    <3>4. CASE x = t
      <4>1. reg.threads[t].status = "running" /\ ~reg.threads[t].detached
        BY <1>t, <3>2, <3>4, Zenon DEF ClaimOK
      <4>2. u = s
        BY <1>d, <3>2, <3>4, <4>1, Zenon DEF HoldOK
      <4>3. reg'.threads[t].status = "finished" /\ pc'[s] = "exit"
        BY <1>t, <4>1, Zenon
      <4> QED BY <1>l, <3>2, <3>3, <3>4, <4>2, <4>3, Zenon DEF HoldOK
    <3>5. CASE x # t
      <4>1. Leaves(x)
        BY <1>u, <3>2, <3>5, Zenon DEF ClaimOK, InUse
      <4>2. u # s
        <5>1. SlotOK(s) /\ pc[s] # "exit"
          BY <1>i, Zenon DEF SlotThreads, Lives
        <5> QED BY <1>l, <3>2, <3>5, <5>1, Zenon DEF HoldOK, ClaimOK, SlotOK, Alive
      <4>3. Stays(u)
        BY <1>s, <4>2, Zenon
      <4> QED BY <1>l, <3>2, <3>3, <4>1, <4>3, Zenon DEF HoldOK, Leaves, Stays
    <3> QED BY <3>4, <3>5, Zenon
  <2>2. \A b, e \in Actors : pc'[b] \in HoldPcs /\ pc'[e] \in HoldPcs /\ b # e => arg'[b].slot # arg'[e].slot
    BY <1>i, <1>l, <2>h, Zenon DEF Holds
  <2> QED BY <1>l, <2>1, <2>2, Zenon DEF Holds
<1>6. Clocks'
  <2>1. ASSUME NEW x \in Tids PROVE ClockOK(x)'
    <3>1. CASE x = t
      BY <3>1, Zenon
    <3>2. CASE x # t
      <4>1. ClockOK(x)
        BY <1>i, Zenon DEF Clocks
      <4> QED BY <1>z, <3>2, <4>1, Zenon DEF ClockOK
    <3> QED BY <3>1, <3>2, Zenon
  <2> QED BY <1>l, <2>1, Zenon DEF Clocks
<1> QED BY <1>l, <1>o, <1>1, <1>2, <1>3, <1>4, <1>5, <1>6, ZenonT(60) DEF ThreadInv

\* The thread starts, and acquires what its creator released.
LEMMA ThreadStartStep ==
  ASSUME ThreadInv, NEW s \in Slots, ThreadStart(s)
  PROVE  ThreadInv'
<1>d. PICK t : tid[s] = t
  BY Zenon
<1>i. RegistryOK(reg) /\ ThreadTypeOK /\ SlotThreads /\ Clocks /\ EdgesKept
  BY Zenon DEF ThreadInv
<1>g. pc[s] = "begin" /\ t # NoTid /\ s \in Actors
  BY <1>d, Zenon DEF ThreadStart, Actors
<1>c. t \in Tids /\ t # MainTid /\ reg.threads[t].status = "created" /\ Alive(s) /\ SlotOK(s)
  BY <1>d, <1>i, <1>g, Zenon DEF SlotThreads, SlotOK, Alive
<1>o. Operated(reg, reg', t) /\ reg'.threads[t] = SetStarted(reg.threads[t])
  <2>1. reg' = StartThread(reg, t)
    BY <1>d, Zenon DEF ThreadStart
  <2> QED BY <1>i, <1>c, <2>1, StartFacts, Zenon DEF Tids
<1>r. RegistryOK(reg)' /\ Rest(reg, reg', t)
  BY <1>i, <1>o, RestFacts, Zenon
<1>n. /\ reg'.threads[t].status = "running" /\ reg'.threads[t].user = reg.threads[t].user
      /\ reg'.threads[t].detached = reg.threads[t].detached
  <2>1. reg.threads[t] \in Contexts
    BY <1>i, <1>c, RegistryParts, Zenon DEF Tids
  <2> QED BY <1>o, <2>1, StartedIs, ZenonT(60)
<1>u. /\ os' = os /\ tid' = tid /\ held' = held /\ arg' = arg /\ sync' = [sync EXCEPT ![t] = {}]
      /\ good' = (good /\ "create" \in sync[t]) /\ pc' = [pc EXCEPT ![s] = "user"]
  BY <1>d, Zenon DEF ThreadStart, OnStarted, Goto
<1>t. ThreadTypeOK'
  BY <1>i, <1>u, Zenon DEF ThreadTypeOK, Pcs
<1>p. pc'[s] = "user" /\ \A b \in Actors : b # s => pc'[b] = pc[b]
  BY <1>i, <1>g, <1>u, Zenon DEF ThreadTypeOK
<1>y. sync'[t] = {} /\ \A x \in Tids : x # t => sync'[x] = sync[x]
  BY <1>i, <1>c, <1>u, NoTidFacts, Zenon DEF ThreadTypeOK
<1>l. Lives(s, t)
  <2>1. Tids' = Tids
    BY <1>r, Zenon DEF Rest, Tids
  <2> QED BY <1>d, <1>g, <1>c, <1>r, <1>u, <1>p, <2>1, Zenon DEF Lives, Unregistered
<1>k. ClockOK(t)'
  BY <1>n, <1>y, Zenon DEF ClockOK
<1>e. EdgesKept'
  BY <1>i, <1>c, <1>u, Zenon DEF EdgesKept, Clocks, ClockOK
<1>s. SlotOK(s)'
  <2>1. Tids' = Tids
    BY <1>l, Zenon DEF Lives
  <2> QED BY <1>d, <1>c, <1>g, <1>n, <1>p, <1>u, <2>1, Zenon DEF SlotOK
<1> QED BY <1>c, <1>n, <1>t, <1>p, <1>y, <1>l, <1>k, <1>e, <1>s, LifeStep, ZenonT(60)

\* The main thread is counted, too.
SomeoneRuns == reg.alive > 0 /\ reg.running > 0

\* The thread ends; if it is not detached its context waits for the join.
LEMMA ThreadFinishStep ==
  ASSUME ThreadInv, SomeoneRuns, NEW s \in Slots, ThreadFinish(s)
  PROVE  ThreadInv'
<1>d. PICK t : tid[s] = t
  BY Zenon
<1>i. RegistryOK(reg) /\ ThreadTypeOK /\ SlotThreads /\ Clocks /\ EdgesKept
  BY Zenon DEF ThreadInv
<1>g. pc[s] = "user" /\ s \in Actors
  BY <1>d, Zenon DEF ThreadFinish, Actors
<1>c. t \in Tids /\ t # MainTid /\ reg.threads[t].status = "running" /\ Alive(s) /\ t # NoTid /\ SlotOK(s)
  BY <1>d, <1>i, <1>g, Zenon DEF SlotThreads, SlotOK, Alive
<1>o. Operated(reg, reg', t) /\ reg'.threads[t] = Ended(reg.threads[t])
  <2>1. reg' = FinishThread(reg, t)
    BY <1>d, Zenon DEF ThreadFinish, Registry
  <2> QED BY <1>i, <1>c, <2>1, FinishFacts, Zenon DEF Tids, SomeoneRuns
<1>r. RegistryOK(reg)' /\ Rest(reg, reg', t)
  BY <1>i, <1>o, RestFacts, Zenon
<1>n. /\ reg'.threads[t].status = (IF reg.threads[t].detached THEN "dead" ELSE "finished")
      /\ reg'.threads[t].user = (IF reg.threads[t].detached THEN 0 ELSE reg.threads[t].user)
      /\ reg'.threads[t].detached = reg.threads[t].detached
  <2>1. reg.threads[t] \in Contexts
    BY <1>i, <1>c, RegistryParts, Zenon DEF Tids
  <2> QED BY <1>c, <1>o, <2>1, EndedIs, ZenonT(120)
<1>u. /\ os' = os /\ tid' = tid /\ held' = held /\ arg' = arg
      /\ sync' = IF reg.threads[t].detached THEN sync ELSE [sync EXCEPT ![t] = @ \union {"finish"}]
      /\ good' = (good /\ Clean(reg', sync')) /\ pc' = [pc EXCEPT ![s] = "exit"]
  BY <1>d, Zenon DEF ThreadFinish, Registry, OnFinished, Goto
<1>q. t \in 0..MaxThreads - 1 /\ \A x \in Tids : x \in 0..MaxThreads - 1
  BY <1>i, <1>c, NoTidFacts, Zenon
<1>t. ThreadTypeOK'
  <2>1. sync' \in [0..MaxThreads - 1 -> SUBSET {"create", "finish"}]
    <3>1. sync[t] \union {"finish"} \in SUBSET {"create", "finish"}
      BY <1>i, <1>q, Zenon DEF ThreadTypeOK
    <3> QED BY <1>i, <1>u, <1>q, <3>1, Zenon DEF ThreadTypeOK
  <2>2. pc' \in [Actors -> Pcs]
    BY <1>i, <1>u, Zenon DEF ThreadTypeOK, Pcs
  <2> QED BY <1>i, <1>u, <2>1, <2>2, Zenon DEF ThreadTypeOK
<1>p. pc'[s] = "exit" /\ \A b \in Actors : b # s => pc'[b] = pc[b]
  BY <1>i, <1>g, <1>u, Zenon DEF ThreadTypeOK
<1>y. /\ \A x \in Tids : x # t => sync'[x] = sync[x]
      /\ reg.threads[t].detached => sync'[t] = {}
      /\ ~reg.threads[t].detached => "finish" \in sync'[t]
  <2>1. sync[t] = {}
    BY <1>i, <1>c, Zenon DEF Clocks, ClockOK
  <2>2. CASE reg.threads[t].detached
    BY <1>u, <2>1, <2>2, Zenon
  <2>3. CASE ~reg.threads[t].detached
    BY <1>i, <1>q, <1>u, <2>3, Zenon DEF ThreadTypeOK
  <2> QED BY <2>2, <2>3, Zenon
<1>l. Lives(s, t)
  <2>1. Tids' = Tids
    BY <1>r, Zenon DEF Rest, Tids
  <2> QED BY <1>d, <1>g, <1>c, <1>r, <1>u, <1>p, <2>1, ZenonT(30) DEF Lives, Unregistered
<1>k. ClockOK(t)'
  BY <1>n, <1>y, Zenon DEF ClockOK
<1>e. EdgesKept'
  <2>1. Clean(reg', sync')
    BY <1>i, <1>c, <1>n, <1>r, <1>y, CleanAfter, Zenon
  <2> QED BY <1>i, <1>u, <2>1, Zenon DEF EdgesKept
<1>s. SlotOK(s)'
  BY <1>c, <1>g, <1>p, <1>u, Zenon DEF SlotOK, Alive
<1> QED BY <1>c, <1>n, <1>t, <1>p, <1>y, <1>l, <1>k, <1>e, <1>s, LifeStep, ZenonT(60)

\* The library lets the slot go: a handle in use keeps it as a zombie.
LEMMA RealExitStep ==
  ASSUME ThreadInv, NEW s \in Slots, RealExit(s)
  PROVE  ThreadInv'
<1>i. /\ RegistryOK(reg) /\ ThreadTypeOK /\ SlotThreads /\ Creators /\ Users
      /\ HeldHandles /\ Claims /\ Holds /\ Clocks /\ EdgesKept
  BY Zenon DEF ThreadInv
<1>g. pc[s] = "exit" /\ s \in Actors
  BY Zenon DEF RealExit, Actors
<1>u. /\ reg' = reg /\ held' = held /\ arg' = arg /\ sync' = sync /\ good' = good
      /\ pc' = [pc EXCEPT ![s] = "none"] /\ tid' = [tid EXCEPT ![s] = NoTid]
      /\ os' = [os EXCEPT ![s].state = IF os[s].detached THEN "free" ELSE "zombie"]
  BY Zenon DEF RealExit, Goto
<1>k. Tids' = Tids
  BY <1>u, Zenon DEF Tids
<1>o. /\ os' \in [Slots -> [state : {"free", "alive", "zombie"}, detached : BOOLEAN]]
      /\ os'[s].state = (IF os[s].detached THEN "free" ELSE "zombie") /\ os'[s].detached = os[s].detached
      /\ \A u \in Slots : u # s => os'[u] = os[u]
  <2> DEFINE l == IF os[s].detached THEN "free" ELSE "zombie"
  <2>1. l \in {"free", "alive", "zombie"} /\ os' = [os EXCEPT ![s].state = l]
    BY <1>u, Zenon
  <2> HIDE DEF l
  <2>2. /\ os' \in [Slots -> [state : {"free", "alive", "zombie"}, detached : BOOLEAN]]
        /\ os'[s].state = l /\ os'[s].detached = os[s].detached
        /\ \A u \in Slots : u # s => os'[u] = os[u]
    BY <1>i, <2>1, StateSet, Zenon
  <2> QED BY <2>2, Zenon DEF l
<1>t. ThreadTypeOK'
  <2>1. pc' \in [Actors -> Pcs]
    BY <1>i, <1>u, Zenon DEF ThreadTypeOK, Pcs
  <2>2. tid' \in [Slots -> 0..MaxThreads]
    <3>1. NoTid \in 0..MaxThreads
      BY RegistryConstants, SMT DEF NoTid
    <3> QED BY <1>i, <1>u, <3>1, Zenon DEF ThreadTypeOK
  <2> QED BY <1>i, <1>u, <1>o, <2>1, <2>2, Zenon DEF ThreadTypeOK
<1>p. /\ pc'[s] = "none" /\ tid'[s] = NoTid /\ ~Alive(s)' /\ ~Alive(s) /\ ~Unregistered(s) /\ ~Unregistered(s)'
      /\ \A b \in Actors : b # s => pc'[b] = pc[b]
  BY <1>i, <1>g, <1>u, Zenon DEF ThreadTypeOK, Alive, Unregistered
<1>s. ASSUME NEW u \in Slots, u # s PROVE Stays(u)
  <2>1. pc'[u] = pc[u] /\ tid'[u] = tid[u]
    BY <1>i, <1>p, <1>u, <1>s, Zenon DEF Actors, ThreadTypeOK
  <2> QED BY <2>1, Zenon DEF Stays, Alive
<1>1. SlotThreads'
  <2>1. ASSUME NEW u \in Slots PROVE SlotOK(u)'
    <3>1. CASE u = s
      BY <1>o, <1>p, <3>1, Zenon DEF SlotOK
    <3>2. CASE u # s
      <4>1. SlotOK(u) /\ Stays(u)
        BY <1>i, <1>s, <3>2, Zenon DEF SlotThreads
      <4> QED BY <1>o, <1>u, <1>k, <3>2, <4>1, Zenon DEF SlotOK, Stays
    <3> QED BY <3>1, <3>2, Zenon
  <2>2. ASSUME NEW u \in Slots, Unregistered(u)' PROVE u \in held' <=> ~os'[u].detached
    <3>1. u # s
      BY <1>p, <2>2, Zenon
    <3>2. Unregistered(u)
      BY <1>s, <2>2, <3>1, Zenon DEF Unregistered, Stays
    <3> QED BY <1>i, <1>o, <1>u, <3>1, <3>2, Zenon DEF SlotThreads
  <2>3. ASSUME NEW u \in Slots, NEW w \in Slots, Alive(u)', Alive(w)', tid'[u] = tid'[w], tid'[u] # NoTid PROVE u = w
    <3>1. u # s /\ w # s
      BY <1>p, <2>3, Zenon
    <3> QED BY <1>i, <1>s, <2>3, <3>1, Zenon DEF SlotThreads, Stays
  <2> QED BY <2>1, <2>2, <2>3, Zenon DEF SlotThreads
<1>2. Creators'
  <2>1. ASSUME NEW u \in Slots, pc'[u] = "begin" PROVE \E b \in Actors : Creating(b, u)'
    <3>1. u # s
      BY <1>p, <2>1, Zenon
    <3>2. PICK b \in Actors : Creating(b, u)
      BY <1>i, <1>s, <2>1, <3>1, Zenon DEF Creators, Stays
    <3>3. b # s
      BY <1>g, <3>2, Zenon DEF Creating
    <3> QED BY <1>p, <1>u, <3>2, <3>3, Zenon DEF Creating
  <2>2. \A b \in Actors : pc'[b] = "create" => b # s /\ pc[b] = "create"
    BY <1>p, Zenon
  <2>3. ASSUME NEW b \in Actors, NEW u \in Actors, pc'[b] = "create", arg'[b].slot = u
        PROVE  u \in Slots /\ Unregistered(u)' /\ CanCreate(reg)'
    <3>1. u \in Slots /\ Unregistered(u) /\ CanCreate(reg)
      BY <1>i, <1>u, <2>2, <2>3, Zenon DEF Creators
    <3>2. u # s
      BY <1>p, <3>1, Zenon
    <3>3. Stays(u)
      BY <1>s, <3>1, <3>2, Zenon
    <3> QED BY <1>u, <3>1, <3>3, Zenon DEF Unregistered, Stays
  <2> QED BY <1>i, <2>1, <2>2, <2>3, Zenon DEF Creators
<1>3. Users'
  <2>1. ASSUME NEW x \in Tids, NEW u \in Slots, reg.threads[x].user = u PROVE UserOK(x, u)'
    <3>1. UserOK(x, u)
      BY <1>i, <2>1, Zenon DEF Users
    <3>2. CASE u # s
      <4>1. Stays(u)
        BY <1>s, <3>2, Zenon
      <4> QED BY <1>o, <1>u, <3>1, <3>2, <4>1, Zenon DEF UserOK, Stays
    <3>3. CASE u = s
      <4>1. reg.threads[x].status = "finished"
        BY <1>p, <3>1, <3>3, Zenon DEF UserOK
      <4>2. ~reg.threads[x].detached
        BY <1>i, <2>1, <4>1, Zenon DEF RegistryOK, ContextsOK, Tids
      <4>3. s \in held
        BY <3>1, <3>3, <4>2, Zenon DEF UserOK
      <4>4. ~os[s].detached
        BY <1>i, <4>3, Zenon DEF HeldHandles, HeldOK
      <4>5. os'[s].state = "zombie"
        BY <1>o, <4>4, Zenon
      <4> QED BY <1>u, <3>1, <3>3, <4>1, <4>5, Zenon DEF UserOK
    <3> QED BY <3>2, <3>3, Zenon
  <2> QED BY <1>i, <1>u, <1>k, <2>1, Zenon DEF Users
<1>4. HeldHandles'
  <2>1. ASSUME NEW u \in held PROVE HeldOK(u)'
    <3>0. u \in Slots /\ HeldOK(u)
      BY <1>i, Zenon DEF ThreadTypeOK, HeldHandles
    <3>1. CASE u = s
      <4>1. ~os[s].detached
        BY <3>0, <3>1, Zenon DEF HeldOK
      <4>2. os'[s].state = "zombie" /\ ~os'[s].detached
        BY <1>o, <4>1, Zenon
      <4>3. \E t \in Tids : reg.threads[t].user = u
        BY <1>p, <3>0, <3>1, Zenon DEF HeldOK
      <4> QED BY <1>u, <1>k, <3>1, <4>2, <4>3, Zenon DEF HeldOK
    <3>2. CASE u # s
      <4>1. Stays(u)
        BY <1>s, <3>0, <3>2, Zenon
      <4> QED BY <1>o, <1>u, <1>k, <3>0, <3>2, <4>1, Zenon DEF HeldOK, Unregistered, Stays
    <3> QED BY <3>1, <3>2, Zenon
  <2> QED BY <1>u, <2>1, Zenon DEF HeldHandles
<1>c. \A b \in Actors : pc'[b] \in ClaimPcs => pc'[b] = pc[b]
  BY <1>p, Zenon DEF ClaimPcs
<1>5. Claims'
  <2>1. ASSUME NEW b \in Actors, pc'[b] \in ClaimPcs PROVE ClaimOK(b)'
    <3>1. ClaimOK(b) /\ pc'[b] = pc[b]
      BY <1>i, <1>c, <2>1, Zenon DEF Claims
    <3> QED BY <1>u, <1>k, <3>1, Zenon DEF ClaimOK
  <2> QED BY <1>i, <1>c, <1>u, <2>1, Zenon DEF Claims
<1>6. Holds'
  <2>h. \A b \in Actors : pc'[b] \in HoldPcs => pc[b] \in HoldPcs
    BY <1>p, Zenon DEF HoldPcs
  <2>1. ASSUME NEW b \in Actors, NEW u \in Slots, NEW x \in Tids, Holding(b, u, x)' PROVE HoldOK(u, x)'
    <3>1. Holding(b, u, x)
      BY <1>u, <2>h, <2>1, Zenon DEF Holding
    <3>2. HoldOK(u, x)
      BY <1>i, <3>1, Zenon DEF Holds
    <3>3. CASE u = s
      <4>1. ~os[s].detached /\ os'[s].state = "zombie" /\ ~os'[s].detached
        BY <1>o, <3>2, <3>3, Zenon DEF HoldOK
      <4> QED BY <1>p, <1>u, <1>k, <3>2, <3>3, <4>1, Zenon DEF HoldOK
    <3>4. CASE u # s
      <4>1. Stays(u)
        BY <1>s, <3>4, Zenon
      <4> QED BY <1>o, <1>u, <1>k, <3>2, <3>4, <4>1, Zenon DEF HoldOK, Stays
    <3> QED BY <3>3, <3>4, Zenon
  <2>2. \A b, e \in Actors : pc'[b] \in HoldPcs /\ pc'[e] \in HoldPcs /\ b # e => arg'[b].slot # arg'[e].slot
    BY <1>i, <1>u, <2>h, Zenon DEF Holds
  <2> QED BY <1>k, <2>1, <2>2, Zenon DEF Holds
<1>7. Clocks' /\ EdgesKept' /\ RegistryOK(reg)'
  BY <1>i, <1>u, <1>k, Zenon DEF Clocks, ClockOK, EdgesKept
<1> QED BY <1>t, <1>1, <1>2, <1>3, <1>4, <1>5, <1>6, <1>7, ZenonT(60) DEF ThreadInv

-----------------------------------------------------------------------------
(* The invariant holds at the start, and every step keeps it.               *)

\* The main thread is created and started when the runtime is initialised.
LEMMA MainCreated ==
  ASSUME IntervalSizes
  PROVE  LET q == CreateThread(Empty, 0, TRUE) IN
         /\ q \in Registries({MainTid}) /\ q.threads = [x \in {MainTid} |-> SetCreated(Fresh, 0, TRUE, 0)]
         /\ q.dead = <<>> /\ q.invalid = <<>> /\ q.ok = TRUE
         /\ q.alive = 1 /\ q.running = 0 /\ q.maxAlive = 1
<1> DEFINE c == SetCreated(Fresh, 0, TRUE, 0)
           g == [x \in {MainTid} |-> Fresh]
           r1 == [Empty EXCEPT !.threads = g, !.invalid = <<>>]
           q == CreateThread(Empty, 0, TRUE)
           X == {<<>>} \union [{MainTid} -> Contexts]
           L == [threads : X, dead : Seq({MainTid}), invalid : Seq({MainTid}), total : Nat,
                 alive : Nat, maxAlive : Nat, running : Nat, ok : BOOLEAN]
<1>n. 0 \in Nat /\ 1 \in Nat /\ 0 + 1 = 1 /\ 0 < MaxThreads /\ 0 < 1
  BY RegistryConstants, SMT
<1>c. c \in Contexts
  BY <1>n, FreshIs, CreatedIs, Zenon DEF CreatedAs
<1>e. /\ Empty.threads = <<>> /\ Empty.dead = <<>> /\ Empty.invalid = <<>> /\ Empty.total = 0
      /\ Empty.alive = 0 /\ Empty.maxAlive = 0 /\ Empty.running = 0 /\ Empty.ok = TRUE
  BY Zenon DEF Empty
<1>d. DOMAIN <<>> = {} /\ 0..0 - 1 = {}
  BY SMT
<1>t. NextTid(Empty) = MainTid
  <2>1. Cardinality({}) = 0
    BY <1>n, <1>d, Zenon DEF IntervalSizes
  <2> QED BY <1>e, <1>d, <2>1, Zenon DEF NextTid, MainTid
<1>g. [x \in DOMAIN Empty.threads \union {NextTid(Empty)} |->
         IF x \in DOMAIN Empty.threads THEN Empty.threads[x] ELSE Fresh] = g
  <2>1. DOMAIN Empty.threads \union {NextTid(Empty)} = {MainTid} /\ \A x : x \notin DOMAIN Empty.threads
    BY <1>e, <1>d, <1>t, Zenon
  <2> QED BY <2>1, Zenon
<1>l. /\ Empty \in L /\ L \subseteq [threads : X, dead : Seq({MainTid}), invalid : Seq({MainTid}), total : Nat,
                                       alive : Nat, maxAlive : Nat, running : Nat, ok : BOOLEAN]
  <2>1. <<>> \in Seq({MainTid}) /\ <<>> \in X
    BY SMT
  <2> HIDE DEF X
  <2> QED BY <1>n, <2>1, Zenon DEF Empty
<1>f. g \in [{MainTid} -> Contexts] /\ g \in X
  BY FreshIs, Zenon
<1>1. /\ r1 \in L /\ r1.threads = g /\ r1.dead = <<>> /\ r1.invalid = <<>> /\ r1.total = 0
      /\ r1.alive = 0 /\ r1.maxAlive = 0 /\ r1.running = 0 /\ r1.ok = TRUE
  <2> HIDE DEF X, g
  <2>1. <<>> \in Seq({MainTid})
    BY SMT
  <2> QED BY <1>e, <1>f, <1>l, <2>1, Zenon
<1>q. q = [Check(r1, MainTid < MaxThreads /\ r1.threads[MainTid].status = "invalid") EXCEPT
             !.alive = @ + 1, !.maxAlive = IF @ < Empty.alive + 1 THEN @ + 1 ELSE @,
             !.total = @ + 1, !.threads[MainTid] = SetCreated(@, 0, TRUE, Empty.total)]
  <2>1. r1 = [Empty EXCEPT !.threads = [x \in DOMAIN Empty.threads \union {NextTid(Empty)} |->
                                     IF x \in DOMAIN Empty.threads THEN Empty.threads[x] ELSE Fresh],
                      !.invalid = IF Empty.invalid # <<>> THEN Tail(@) ELSE @]
    BY <1>e, <1>g, Zenon
  <2> QED BY <1>t, <2>1, ZenonT(120) DEF CreateThread
<1>k. (MainTid < MaxThreads /\ r1.threads[MainTid].status = "invalid") = TRUE
  <2>1. r1.threads = g
    BY <1>1, Zenon
  <2> QED BY <1>n, <2>1, FreshIs, Zenon DEF MainTid
<1>h. [g EXCEPT ![MainTid] = SetCreated(@, 0, TRUE, 0)] = [x \in {MainTid} |-> c]
  BY Zenon
<1>3. [x \in {MainTid} |-> c] \in [{MainTid} -> Contexts] /\ [x \in {MainTid} |-> c] \in X
  <2> HIDE DEF c
  <2> QED BY <1>c, Zenon
<1>2. /\ q \in L /\ q.threads = [x \in {MainTid} |-> c] /\ q.dead = <<>> /\ q.invalid = <<>>
      /\ q.alive = 1 /\ q.maxAlive = 1 /\ q.running = 0 /\ q.ok = TRUE
  <2> DEFINE z == Check(r1, TRUE)
  <2> HIDE DEF X, c, g
  <2>1. /\ z \in L /\ z.threads = g /\ z.dead = <<>> /\ z.invalid = <<>> /\ z.total = 0
        /\ z.alive = 0 /\ z.maxAlive = 0 /\ z.running = 0 /\ z.ok = TRUE
    <3> HIDE DEF r1
    <3> QED BY <1>1, Zenon DEF Check
  <2>2. q = [z EXCEPT !.alive = @ + 1, !.maxAlive = IF @ < Empty.alive + 1 THEN @ + 1 ELSE @,
                      !.total = @ + 1, !.threads[MainTid] = SetCreated(@, 0, TRUE, Empty.total)]
    <3> HIDE DEF q, r1
    <3> QED BY <1>q, <1>k, Zenon
  <2> HIDE DEF z, q
  <2>3. q = [z EXCEPT !.alive = 1, !.maxAlive = 1, !.total = 1, !.threads = [x \in {MainTid} |-> c]]
    <3>1. z.alive + 1 = 1 /\ z.total + 1 = 1
      BY <1>n, <2>1, Zenon
    <3>2. (IF z.maxAlive < Empty.alive + 1 THEN z.maxAlive + 1 ELSE z.maxAlive) = 1
      BY <1>e, <1>n, <2>1, Zenon
    <3>3. [z.threads EXCEPT ![MainTid] = SetCreated(@, 0, TRUE, Empty.total)] = [x \in {MainTid} |-> c]
      BY <1>e, <1>h, <2>1, Zenon
    <3> QED BY <2>2, <3>1, <3>2, <3>3, Zenon
  <2> QED BY <1>n, <1>3, <2>1, <2>3, Zenon
<1> HIDE DEF q, c
<1>4. q \in Registries({MainTid})
  BY <1>2, <1>3, <1>n, Zenon DEF Registries
<1> QED BY <1>2, <1>4, Zenon DEF q, c

\* It is the only thread at the start.
LEMMA MainStarted ==
  ASSUME IntervalSizes, Init
  PROVE  /\ RegistryOK(reg) /\ Tids = {MainTid} /\ reg.threads[MainTid].status = "running"
         /\ reg.threads[MainTid].user = 0 /\ reg.alive = 1 /\ reg.running = 1 /\ reg.maxAlive = 1
<1> DEFINE q == CreateThread(Empty, 0, TRUE)
           c == SetCreated(Fresh, 0, TRUE, 0)
           e == SetStarted(c)
<1>n. 0 \in Nat /\ 1 \in Nat /\ 0 + 1 = 1 /\ 1 \in 1..MaxThreads /\ {MainTid} = 0..1 - 1
  BY RegistryConstants, SMT DEF MainTid
<1>q. /\ q \in Registries({MainTid}) /\ q.threads = [x \in {MainTid} |-> c]
      /\ q.dead = <<>> /\ q.invalid = <<>> /\ q.ok = TRUE
      /\ q.alive = 1 /\ q.running = 0 /\ q.maxAlive = 1
  BY MainCreated, Zenon
<1>c. c \in Contexts /\ c.status = "created" /\ c.user = 0 /\ c.detached = TRUE /\ c.destroyed = FALSE
  <2>1. CreatedAs(Fresh, 0, TRUE, c)
    BY <1>n, FreshIs, CreatedIs, Zenon
  <2> HIDE DEF c
  <2> QED BY <2>1, FreshIs, Zenon DEF CreatedAs
<1>r. reg = StartThread(q, MainTid)
  BY Zenon DEF Init
<1> HIDE DEF q, c
<1>e. e \in Contexts /\ e.status = "running" /\ e.user = 0 /\ e.detached = TRUE /\ e.destroyed = FALSE
  BY <1>c, StartedIs, Zenon
<1>t. q.threads[MainTid] = c /\ (q.threads[MainTid].status = "created") = TRUE /\ q.running + 1 = 1
  BY <1>q, <1>c, <1>n, Zenon
<1> HIDE DEF e
<1>f. [q.threads EXCEPT ![MainTid] = SetStarted(@)] = [x \in {MainTid} |-> e]
  BY <1>q, Zenon DEF e
<1>1. /\ reg \in Registries({MainTid}) /\ reg.threads = [x \in {MainTid} |-> e]
      /\ reg.dead = <<>> /\ reg.invalid = <<>> /\ reg.ok = TRUE
      /\ reg.alive = 1 /\ reg.running = 1 /\ reg.maxAlive = 1
  <2> DEFINE z == Check(q, TRUE)
  <2>1. /\ z \in Registries({MainTid}) /\ z.threads = q.threads /\ z.dead = <<>> /\ z.invalid = <<>>
        /\ z.ok = TRUE /\ z.alive = 1 /\ z.running = 0 /\ z.maxAlive = 1
    BY <1>q, Zenon DEF Check, Registries
  <2>2. reg = [z EXCEPT !.running = @ + 1, !.threads[MainTid] = SetStarted(@)]
    BY <1>r, <1>t, Zenon DEF StartThread
  <2> HIDE DEF z
  <2>3. reg = [z EXCEPT !.running = 1, !.threads = [x \in {MainTid} |-> e]]
    <3>1. z.running + 1 = 1
      BY <1>n, <2>1, Zenon
    <3> QED BY <1>f, <2>1, <2>2, <3>1, Zenon
  <2>4. [x \in {MainTid} |-> e] \in [{MainTid} -> Contexts]
    BY <1>e, Zenon
  <2> QED BY <1>n, <2>1, <2>3, <2>4, Zenon DEF Registries
<1>2. DOMAIN reg.threads = {MainTid} /\ reg.threads[MainTid] = e
  BY <1>1, Zenon
<1>3. Numbered({MainTid})
  <2>1. Cardinality(0..1 - 1) = 1
    BY <1>n, Zenon DEF IntervalSizes
  <2> QED BY <1>n, <2>1, Zenon DEF Numbered
<1>4. ListsOK(reg)
  <2>1. IsInjective(<<>>) /\ Len(<<>>) <= QuarantineSize /\ \A t : t \notin Range(<<>>)
    <3>1. DOMAIN <<>> = {} /\ Len(<<>>) <= QuarantineSize
      BY RegistryConstants, SMTT(60)
    <3> QED BY <3>1, Zenon DEF IsInjective, Range
  <2> QED BY <1>1, <1>2, <1>e, <2>1, Zenon DEF ListsOK
<1>5. MarksOK(reg) /\ ContextsOK(reg)
  BY <1>2, <1>e, Zenon DEF MarksOK, ContextsOK
<1>6. RegistryOK(reg)
  BY <1>1, <1>2, <1>3, <1>4, <1>5, Zenon DEF RegistryOK
<1> QED BY <1>1, <1>2, <1>6, <1>e, Zenon DEF Tids

\* The invariant holds at the start.
LEMMA ThreadInvInit ==
  ASSUME IntervalSizes, Init
  PROVE  ThreadInv
<1>r. /\ RegistryOK(reg) /\ Tids = {MainTid} /\ reg.threads[MainTid].status = "running"
      /\ reg.threads[MainTid].user = 0
  BY MainStarted, Zenon
<1>m. Main \notin Slots /\ 0 \notin Slots
  BY HandlesAssumption, Zenon
<1>i. /\ held = {} /\ os = [s \in Slots |-> [state |-> "free", detached |-> FALSE]]
      /\ pc = [a \in Actors |-> IF a = Main THEN "user" ELSE "none"] /\ arg = [a \in Actors |-> NoArg]
      /\ tid = [s \in Slots |-> NoTid] /\ sync = [t \in 0..MaxThreads - 1 |-> {}] /\ good = TRUE
  BY Zenon DEF Init
<1>s. ASSUME NEW s \in Slots
      PROVE  s \in Actors /\ pc[s] = "none" /\ tid[s] = NoTid /\ os[s].state = "free" /\ ~Alive(s)
  BY <1>m, <1>i, Zenon DEF Actors, Alive
<1>a. \A a \in Actors : pc[a] \in {"none", "user"}
  BY <1>i, Zenon
<1>0. MainTid \in 0..MaxThreads - 1 /\ NoTid \in 0..MaxThreads
  BY RegistryConstants, SMTT(60) DEF MainTid, NoTid
<1>1. ThreadTypeOK
  <2>1. pc \in [Actors -> Pcs]
    BY <1>i, Zenon DEF Pcs
  <2>2. arg \in [Actors -> [slot : Actors, tid : Nat, op : Ops \union {"none"}]]
    BY <1>i, NoArgType, Zenon
  <2> QED BY <1>i, <1>0, <2>1, <2>2, Zenon DEF ThreadTypeOK
<1>2. SlotThreads
  BY <1>s, Zenon DEF SlotThreads, SlotOK, Unregistered
<1>3. Creators
  BY <1>s, <1>a, Zenon DEF Creators
<1>4. Users
  BY <1>r, <1>m, Zenon DEF Users
<1>5. HeldHandles /\ Claims /\ Holds
  BY <1>i, <1>a, Zenon DEF HeldHandles, Claims, Holds, Holding, ClaimPcs, HoldPcs
<1>6. Clocks /\ EdgesKept
  BY <1>r, <1>i, <1>0, Zenon DEF Clocks, ClockOK, EdgesKept
<1> QED BY <1>r, <1>1, <1>2, <1>3, <1>4, <1>5, <1>6, ZenonT(60) DEF ThreadInv

\* Every step keeps the invariant.
LEMMA ThreadInvNext ==
  ASSUME ThreadInv, IntervalSizes, SomeoneRuns, [Next]_vars
  PROVE  ThreadInv'
<1>1. CASE vars' = vars
  <2>1. /\ reg' = reg /\ held' = held /\ os' = os /\ pc' = pc /\ arg' = arg
        /\ tid' = tid /\ sync' = sync /\ good' = good
    BY <1>1, Zenon DEF vars
  <2>2. RegistryOK(reg)' /\ ThreadTypeOK' /\ EdgesKept' /\ Clocks'
    BY <2>1, Zenon DEF ThreadInv, ThreadTypeOK, EdgesKept, Clocks, ClockOK, Tids
  <2>3. SlotThreads'
    <3>1. \A u \in Slots : SlotOK(u)'
      BY <2>1, Zenon DEF ThreadInv, SlotThreads, SlotOK, Alive, Tids
    <3> QED BY <2>1, <3>1, Zenon DEF ThreadInv, SlotThreads, Unregistered, Alive
  <2>4. Creators'
    BY <2>1, ZenonT(120) DEF ThreadInv, Creators, Creating, Unregistered
  <2>5. Users' /\ HeldHandles'
    BY <2>1, ZenonT(120) DEF ThreadInv, Users, UserOK, HeldHandles, HeldOK, Unregistered, Alive, Tids
  <2>6. Claims'
    <3>1. \A b \in Actors : pc[b] \in ClaimPcs => ClaimOK(b)'
      BY <2>1, Zenon DEF ThreadInv, Claims, ClaimOK, Tids
    <3> QED BY <2>1, <3>1, Zenon DEF ThreadInv, Claims
  <2>7. Holds'
    <3>1. ASSUME NEW b \in Actors, NEW u \in Slots, NEW x \in Tids, Holding(b, u, x) PROVE HoldOK(u, x)'
      <4>1. HoldOK(u, x)
        BY <3>1, Zenon DEF ThreadInv, Holds
      <4> QED BY <2>1, <4>1, Zenon DEF HoldOK, Alive, Tids
    <3> QED BY <2>1, <3>1, Zenon DEF ThreadInv, Holds, Holding, Tids
  <2> QED BY <2>2, <2>3, <2>4, <2>5, <2>6, <2>7, Zenon DEF ThreadInv
<1>2. ASSUME NEW a \in Actors, Step(a) PROVE ThreadInv'
  BY <1>2, ThreadCreateStep, CreatedStep, RealJoinStep, ThreadJoinStep, RealDetachStep, ThreadDetachStep,
     NotJoinedStep, ThreadNotJoinedStep, ZenonT(60) DEF Step
<1>3. ASSUME NEW a \in Actors, Call(a) PROVE ThreadInv'
  BY <1>3, RealCreateStep, ThreadConsumeTidStep, Zenon DEF Call
<1>4. ASSUME NEW s \in Slots, ThreadStart(s) \/ ThreadFinish(s) \/ RealExit(s) PROVE ThreadInv'
  BY <1>4, ThreadStartStep, ThreadFinishStep, RealExitStep, Zenon
<1> QED BY <1>1, <1>2, <1>3, <1>4, Zenon DEF Next

-----------------------------------------------------------------------------
(* What a step does to the states of the threads and to the counters.       *)

Living == {"created", "running"}

\* Nothing, a start, or an end.
Counted(r, q, t) ==
  \/ /\ q.threads[t].status \in Living <=> r.threads[t].status \in Living
     /\ q.threads[t].status = "running" <=> r.threads[t].status = "running"
     /\ q.alive = r.alive /\ q.running = r.running
  \/ /\ r.threads[t].status = "created" /\ q.threads[t].status = "running"
     /\ q.alive = r.alive /\ q.running = r.running + 1
  \/ /\ r.threads[t].status = "running" /\ q.threads[t].status \notin Living
     /\ q.alive = r.alive - 1 /\ q.running = r.running - 1

Counts(r, q, t) == t \in DOMAIN r.threads /\ Rest(r, q, t) /\ q.maxAlive = r.maxAlive /\ Counted(r, q, t)

CountStep ==
  \/ reg' = reg
  \/ \E t : Counts(reg, reg', t)
  \/ \E s : Took(reg, s, reg')
  \/ \E u, d, t : New(reg, u, d, t, reg')

\* The facts of an operation on t, as the counters need them.
LEMMA OperatedCounts ==
  ASSUME NEW q, NEW t \in Tids, RegistryOK(reg), Operated(reg, q, t), Counted(reg, q, t), reg' = q
  PROVE  CountStep
<1>1. Rest(reg, q, t)
  BY RestFacts, Zenon
<1>2. Counts(reg, q, t)
  BY <1>1, Zenon DEF Counts, Operated, Tids
<1> QED BY <1>2, Zenon DEF CountStep

\* The steps of the interceptors.
LEMMA StepCounts ==
  ASSUME ThreadInv, IntervalSizes, NEW a \in Actors, Step(a) \/ Call(a)
  PROVE  CountStep
<1>i. RegistryOK(reg) /\ ThreadTypeOK /\ Creators /\ Claims
  BY Zenon DEF ThreadInv
<1>d. PICK t, s : arg[a].tid = t /\ arg[a].slot = s
  BY Zenon
<1>c. ASSUME pc[a] \in ClaimPcs
      PROVE  /\ t \in Tids /\ t # MainTid /\ s \in Slots /\ reg.threads[t].user = 0 /\ ~reg.threads[t].detached
             /\ reg.threads[t].status \in {"running", "finished"} /\ (pc[a] = "joined" => reg.threads[t].status = "finished")
             /\ reg.threads[t] \in Contexts /\ t \in DOMAIN reg.threads
  <2>1. ClaimOK(a)
    BY <1>i, <1>c, Zenon DEF Claims
  <2>2. t \in Tids
    BY <1>d, <2>1, Zenon DEF ClaimOK
  <2>3. reg.threads[t] \in Contexts /\ t \in DOMAIN reg.threads
    BY <1>i, <2>2, RegistryParts, Zenon DEF Tids
  <2> QED BY <1>d, <2>1, <2>3, Zenon DEF ClaimOK
<1>1. CASE ThreadCreate(a)
  <2>1. s \in Slots /\ CanCreate(reg)
    <3>1. s \in Actors
      BY <1>i, <1>d, Zenon DEF ThreadTypeOK
    <3> QED BY <1>i, <1>d, <1>1, <3>1, Zenon DEF Creators, ThreadCreate
  <2>2. os[s].detached \in BOOLEAN
    BY <1>i, <2>1, Zenon DEF ThreadTypeOK
  <2>3. reg' = CreateThread(reg, s, os[s].detached)
    BY <1>d, <1>1, Zenon DEF ThreadCreate, Registry
  <2>4. New(reg, s, os[s].detached, NextTid(reg), CreateThread(reg, s, os[s].detached))
    BY <1>i, <2>1, <2>2, CreateFacts, Zenon
  <2> QED BY <2>3, <2>4, Zenon DEF CountStep
<1>2. CASE ThreadJoin(a)
  <2>1. pc[a] \in ClaimPcs /\ pc[a] = "joined" /\ reg' = JoinThread(reg, t)
    BY <1>d, <1>2, Zenon DEF ThreadJoin, ClaimPcs
  <2>2. /\ t \in Tids /\ t # MainTid /\ reg.threads[t].status = "finished" /\ ~reg.threads[t].detached
        /\ reg.threads[t] \in Contexts /\ t \in DOMAIN reg.threads
    BY <1>c, <2>1, Zenon
  <2>3. /\ Operated(reg, reg', t) /\ reg'.threads[t] = Dead(reg.threads[t])
        /\ reg'.alive = reg.alive /\ reg'.running = reg.running
    BY <1>i, <2>1, <2>2, JoinFacts, Zenon
  <2>4. reg'.threads[t].status = "dead"
    BY <2>2, <2>3, DeadIs, Zenon
  <2>5. Counted(reg, reg', t)
    BY <2>2, <2>3, <2>4, Zenon DEF Counted, Living
  <2> QED BY <1>i, <2>2, <2>3, <2>5, OperatedCounts, Zenon
<1>3. CASE ThreadDetach(a)
  <2>1. pc[a] \in ClaimPcs /\ reg' = DetachThread(reg, t)
    BY <1>d, <1>3, Zenon DEF ThreadDetach, Registry, ClaimPcs
  <2>2. /\ t \in Tids /\ t # MainTid /\ reg.threads[t].status \in {"running", "finished"}
        /\ reg.threads[t] \in Contexts /\ t \in DOMAIN reg.threads
    BY <1>c, <2>1, Zenon
  <2>3. CASE reg.threads[t].status = "running"
    <3>1. /\ Operated(reg, reg', t) /\ reg'.threads[t] = SetDetached(reg.threads[t])
          /\ reg'.alive = reg.alive /\ reg'.running = reg.running
      BY <1>i, <2>1, <2>2, <2>3, DetachRunningFacts, Zenon
    <3>2. reg'.threads[t].status = "running"
      BY <2>2, <2>3, <3>1, DetachedIs, Zenon
    <3>3. Counted(reg, reg', t)
      BY <2>3, <3>1, <3>2, ZenonT(60) DEF Counted
    <3> QED BY <1>i, <2>2, <3>1, <3>3, OperatedCounts, Zenon
  <2>4. CASE reg.threads[t].status = "finished"
    <3>1. /\ Operated(reg, reg', t) /\ reg'.threads[t] = Dead(reg.threads[t])
          /\ reg'.alive = reg.alive /\ reg'.running = reg.running
      BY <1>i, <2>1, <2>2, <2>4, DetachFinishedFacts, Zenon
    <3>2. reg'.threads[t].status = "dead"
      BY <2>2, <3>1, DeadIs, Zenon
    <3>3. Counted(reg, reg', t)
      BY <2>4, <3>1, <3>2, Zenon DEF Counted, Living
    <3> QED BY <1>i, <2>2, <3>1, <3>3, OperatedCounts, Zenon
  <2> QED BY <2>2, <2>3, <2>4, Zenon
<1>4. CASE ThreadNotJoined(a)
  <2>1. pc[a] \in ClaimPcs /\ reg' = SetThreadUserId(reg, t, s)
    BY <1>d, <1>4, Zenon DEF ThreadNotJoined, ClaimPcs
  <2>2. /\ t \in Tids /\ t # MainTid /\ reg.threads[t].status \in {"running", "finished"} /\ s \in Slots
        /\ reg.threads[t] \in Contexts /\ t \in DOMAIN reg.threads /\ reg.threads[t].user = 0
    BY <1>c, <2>1, Zenon
  <2>3. /\ Operated(reg, reg', t) /\ reg'.threads[t] = SetUserId(reg.threads[t], s)
        /\ reg'.alive = reg.alive /\ reg'.running = reg.running
    BY <1>i, <2>1, <2>2, SetUserFacts, ZenonT(60)
  <2>4. reg'.threads[t].status = reg.threads[t].status
    <3>1. s \in Slots \union {0}
      BY <2>2, Zenon
    <3>2. SetUserId(reg.threads[t], s).status = reg.threads[t].status
      BY <2>2, <3>1, UserIs, Zenon
    <3> QED BY <2>3, <3>2, Zenon
  <2>5. Counted(reg, reg', t)
    BY <2>3, <2>4, Zenon DEF Counted
  <2> QED BY <1>i, <2>2, <2>3, <2>5, OperatedCounts, Zenon
<1>5. ASSUME NEW u \in Slots, NEW op \in Ops, ThreadConsumeTid(a, u, op) PROVE CountStep
  <2>1. reg' = Consumed(reg, u)
    BY <1>5, Zenon DEF ThreadConsumeTid
  <2>2. Took(reg, u, Consumed(reg, u))
    BY <1>i, ConsumeFacts, Zenon
  <2> QED BY <2>1, <2>2, Zenon DEF CountStep
<1>6. ASSUME \/ Created(a) \/ RealJoin(a) \/ RealDetach(a) \/ NotJoined(a)
             \/ \E u \in Slots, d \in BOOLEAN : RealCreate(a, u, d)
      PROVE CountStep
  <2>1. reg' = reg
    BY <1>6, Zenon DEF Created, RealJoin, RealDetach, NotJoined, RealCreate
  <2> QED BY <2>1, Zenon DEF CountStep
<1> QED BY <1>1, <1>2, <1>3, <1>4, <1>5, <1>6, ZenonT(60) DEF Step, Call

\* The steps of a thread's life.
LEMMA LifeCounts ==
  ASSUME ThreadInv, SomeoneRuns, NEW s \in Slots, ThreadStart(s) \/ ThreadFinish(s) \/ RealExit(s)
  PROVE  CountStep
<1>i. RegistryOK(reg) /\ SlotOK(s)
  BY Zenon DEF ThreadInv, SlotThreads
<1>d. PICK t : tid[s] = t
  BY Zenon
<1>1. CASE ThreadStart(s)
  <2>1. reg' = StartThread(reg, t)
    BY <1>d, <1>1, Zenon DEF ThreadStart
  <2>2. t \in Tids /\ t # MainTid /\ reg.threads[t].status = "created" /\ t \in DOMAIN reg.threads
    BY <1>i, <1>d, <1>1, Zenon DEF ThreadStart, SlotOK, Alive, Tids
  <2>3. reg.threads[t] \in Contexts
    BY <1>i, <2>2, RegistryParts, Zenon
  <2>4. /\ Operated(reg, reg', t) /\ reg'.threads[t] = SetStarted(reg.threads[t])
        /\ reg'.alive = reg.alive /\ reg'.running = reg.running + 1
    BY <1>i, <2>1, <2>2, StartFacts, Zenon
  <2>5. reg'.threads[t].status = "running"
    BY <2>3, <2>4, StartedIs, Zenon
  <2>6. Counted(reg, reg', t)
    BY <2>2, <2>4, <2>5, Zenon DEF Counted
  <2> QED BY <1>i, <2>2, <2>4, <2>6, OperatedCounts, Zenon
<1>2. CASE ThreadFinish(s)
  <2>1. reg' = FinishThread(reg, t)
    BY <1>d, <1>2, Zenon DEF ThreadFinish, Registry
  <2>2. t \in Tids /\ t # MainTid /\ reg.threads[t].status = "running" /\ t \in DOMAIN reg.threads
    BY <1>i, <1>d, <1>2, Zenon DEF ThreadFinish, SlotOK, Alive, Tids
  <2>3. reg.threads[t] \in Contexts
    BY <1>i, <2>2, RegistryParts, Zenon
  <2>4. /\ Operated(reg, reg', t) /\ reg'.threads[t] = Ended(reg.threads[t])
        /\ reg'.alive = reg.alive - 1 /\ reg'.running = reg.running - 1
    BY <1>i, <2>1, <2>2, FinishFacts, Zenon DEF SomeoneRuns
  <2>5. reg'.threads[t].status \notin Living
    BY <2>2, <2>3, <2>4, EndedIs, Zenon DEF Living
  <2>6. Counted(reg, reg', t)
    BY <2>2, <2>4, <2>5, Zenon DEF Counted
  <2> QED BY <1>i, <2>2, <2>4, <2>6, OperatedCounts, Zenon
<1>3. CASE RealExit(s)
  <2>1. reg' = reg
    BY <1>3, Zenon DEF RealExit
  <2> QED BY <2>1, Zenon DEF CountStep
<1> QED BY <1>1, <1>2, <1>3, Zenon

\* Every step.
LEMMA NextCounts ==
  ASSUME ThreadInv, IntervalSizes, SomeoneRuns, [Next]_vars
  PROVE  CountStep
<1>1. CASE vars' = vars
  <2>1. reg' = reg
    BY <1>1, Zenon DEF vars
  <2> QED BY <2>1, Zenon DEF CountStep
<1> QED BY <1>1, StepCounts, LifeCounts, Zenon DEF Next

-----------------------------------------------------------------------------
(* What TsanThread promises.                                               *)

INSTANCE FiniteSetTheorems

\* The first n numbers are n: the next tid is the number of contexts.
LEMMA Intervals == IntervalSizes
<1>1. ASSUME NEW n \in Nat PROVE Cardinality(0..n - 1) = n
  <2>1. 0 \in Int /\ n - 1 \in Int /\ (IF 0 > n - 1 THEN 0 ELSE n - 1 - 0 + 1) = n
    BY SMTT(60)
  <2>2. Cardinality(0..n - 1) = IF 0 > n - 1 THEN 0 ELSE n - 1 - 0 + 1
    BY <2>1, FS_Interval, Zenon
  <2> QED BY <2>1, <2>2, SMTT(60)
<1> QED BY <1>1, Zenon DEF IntervalSizes

\* The contexts are finitely many, and so are those in some of the states.
LEMMA FiniteWith ==
  ASSUME RegistryOK(reg)
  PROVE  /\ IsFiniteSet(Tids) /\ Cardinality(Tids) \in Nat
         /\ \A S : IsFiniteSet(With(S)) /\ Cardinality(With(S)) \in Nat /\ Cardinality(With(S)) <= Cardinality(Tids)
<1>1. PICK n \in 1..MaxThreads : Tids = 0..n - 1
  BY Zenon DEF RegistryOK, Numbered, Tids
<1>2. 0 \in Int /\ n - 1 \in Int
  BY <1>1, RegistryConstants, SMTT(60)
<1>3. IsFiniteSet(Tids)
  BY <1>1, <1>2, FS_Interval, ZenonT(60)
<1>4. ASSUME NEW S
      PROVE  IsFiniteSet(With(S)) /\ Cardinality(With(S)) \in Nat /\ Cardinality(With(S)) <= Cardinality(Tids)
  <2>1. With(S) \in SUBSET Tids
    BY Zenon DEF With
  <2> QED BY <1>3, <2>1, FS_Subset, FS_CardinalityType, ZenonT(60)
<1> QED BY <1>3, <1>4, FS_CardinalityType, ZenonT(60)

\* The main thread is always counted.
LEMMA MainCounted ==
  ASSUME RegistryOK(reg), CountsAgree
  PROVE  SomeoneRuns
<1>1. MainTid \in With({"running"}) /\ MainTid \in With({"created", "running"})
  <2>1. MainTid \in Tids /\ reg.threads[MainTid].status = "running"
    BY NoTidFacts, Zenon DEF RegistryOK, ContextsOK
  <2> QED BY <2>1, Zenon DEF With
<1>2. ASSUME NEW S, IsFiniteSet(S), MainTid \in S PROVE Cardinality(S) > 0
  <2>1. Cardinality(S) \in Nat /\ Cardinality(S) # 0
    BY <1>2, FS_EmptySet, FS_CardinalityType, ZenonT(60)
  <2> QED BY <2>1, SMTT(60)
<1>3. IsFiniteSet(With({"running"})) /\ IsFiniteSet(With({"created", "running"}))
  BY FiniteWith, Zenon
<1>4. Cardinality(With({"running"})) > 0 /\ Cardinality(With({"created", "running"})) > 0
  BY <1>1, <1>2, <1>3, ZenonT(60)
<1> QED BY <1>4, Zenon DEF CountsAgree, SomeoneRuns

\* The main thread is counted at the start.
LEMMA CountsInit ==
  ASSUME Init
  PROVE  CountsAgree
<1>1. /\ Tids = {MainTid} /\ reg.threads[MainTid].status = "running"
      /\ reg.alive = 1 /\ reg.running = 1 /\ reg.maxAlive = 1
  BY Intervals, MainStarted, Zenon
<1>2. With({"created", "running"}) = {MainTid} /\ With({"running"}) = {MainTid}
  BY <1>1, Zenon DEF With
<1>3. Cardinality({MainTid}) = 1 /\ 1 <= 1
  <2>1. 1 <= 1
    BY SMTT(60)
  <2> QED BY <2>1, FS_Singleton, Zenon
<1> QED BY <1>1, <1>2, <1>3, ZenonT(60) DEF CountsAgree

\* The counters follow the states of the threads through every step.
LEMMA CountsNext ==
  ASSUME RegistryOK(reg), RegistryOK(reg)', CountsAgree, CountStep
  PROVE  CountsAgree'
<1> DEFINE A == With(Living)
           R == With({"running"})
<1>a. /\ reg.alive = Cardinality(A) /\ reg.running = Cardinality(R)
      /\ reg.alive <= reg.maxAlive /\ reg.maxAlive <= Cardinality(Tids)
  BY Zenon DEF CountsAgree, Living
<1>f. /\ IsFiniteSet(A) /\ IsFiniteSet(R) /\ IsFiniteSet(Tids) /\ Cardinality(A) \in Nat /\ Cardinality(R) \in Nat
      /\ Cardinality(Tids) \in Nat /\ Cardinality(A) <= Cardinality(Tids)
  BY FiniteWith, Zenon
<1>g. reg.maxAlive \in Nat
  BY RegistryParts, Zenon
<1>k. ASSUME Cardinality(A') = reg'.alive, Cardinality(R') = reg'.running,
             reg'.alive <= reg'.maxAlive, reg'.maxAlive <= Cardinality(Tids')
      PROVE  CountsAgree'
  BY <1>k, Zenon DEF CountsAgree, Living
<1>1. CASE reg' = reg
  <2>1. A' = A /\ R' = R /\ Tids' = Tids
    BY <1>1, Zenon DEF With, Tids
  <2> HIDE DEF A, R
  <2> QED BY <1>1, <1>a, <1>k, <2>1, ZenonT(60)
<1>2. ASSUME NEW t, Counts(reg, reg', t) PROVE CountsAgree'
  <2>1. /\ t \in Tids /\ Tids' = Tids /\ reg'.maxAlive = reg.maxAlive /\ Counted(reg, reg', t)
        /\ \A x \in Tids : x # t => reg'.threads[x].status = reg.threads[x].status
                               \/ (reg.threads[x].status = "dead" /\ reg'.threads[x].status = "invalid")
    BY <1>2, Zenon DEF Counts, Rest, Tids
  <2>2. ASSUME NEW x \in Tids, x # t PROVE (x \in A' <=> x \in A) /\ (x \in R' <=> x \in R)
    <3>1. /\ reg'.threads[x].status \in Living <=> reg.threads[x].status \in Living
          /\ reg'.threads[x].status = "running" <=> reg.threads[x].status = "running"
      BY <2>1, <2>2, Zenon DEF Living
    <3> QED BY <2>1, <3>1, Zenon DEF With
  <2>s. A \subseteq Tids /\ A' \subseteq Tids /\ R \subseteq Tids /\ R' \subseteq Tids
    BY <2>1, Zenon DEF With
  <2>3. CASE /\ reg'.threads[t].status \in Living <=> reg.threads[t].status \in Living
             /\ reg'.threads[t].status = "running" <=> reg.threads[t].status = "running"
             /\ reg'.alive = reg.alive /\ reg'.running = reg.running
    <3>1. (t \in A' <=> t \in A) /\ (t \in R' <=> t \in R)
      BY <2>1, <2>3, Zenon DEF With
    <3> HIDE DEF A, R
    <3>2. A' = A /\ R' = R
      BY <2>2, <2>s, <3>1, SMTT(60)
    <3> QED BY <1>a, <1>k, <2>1, <2>3, <3>2, ZenonT(60)
  <2>4. CASE /\ reg.threads[t].status = "created" /\ reg'.threads[t].status = "running"
             /\ reg'.alive = reg.alive /\ reg'.running = reg.running + 1
    <3>1. t \in A' /\ t \in A /\ t \in R' /\ t \notin R
      BY <2>1, <2>4, ZenonT(60) DEF With, Living
    <3> HIDE DEF A, R
    <3>2. A' = A /\ R' = R \union {t}
      BY <2>2, <2>s, <3>1, SMTT(60)
    <3>3. Cardinality(R \union {t}) = Cardinality(R) + 1
      BY <1>f, <3>1, FS_AddElement, ZenonT(60)
    <3> QED BY <1>a, <1>k, <2>1, <2>4, <3>2, <3>3, ZenonT(60)
  <2>5. CASE /\ reg.threads[t].status = "running" /\ reg'.threads[t].status \notin Living
             /\ reg'.alive = reg.alive - 1 /\ reg'.running = reg.running - 1
    <3>1. t \notin A' /\ t \in A /\ t \notin R' /\ t \in R
      BY <2>1, <2>5, ZenonT(60) DEF With, Living
    <3> HIDE DEF A, R
    <3>2. A' = A \ {t} /\ R' = R \ {t}
      BY <2>2, <2>s, <3>1, ZenonT(60)
    <3>3. Cardinality(A \ {t}) = Cardinality(A) - 1 /\ Cardinality(R \ {t}) = Cardinality(R) - 1
      BY <1>f, <3>1, FS_RemoveElement, ZenonT(60)
    <3>4. reg'.alive <= reg'.maxAlive
      BY <1>a, <1>f, <1>g, <2>1, <2>5, SMTT(60)
    <3> QED BY <1>a, <1>k, <2>1, <2>5, <3>2, <3>3, <3>4, ZenonT(60)
  <2> QED BY <2>1, <2>3, <2>4, <2>5, ZenonT(60) DEF Counted
<1>3. ASSUME NEW s, Took(reg, s, reg') PROVE CountsAgree'
  <2>1. /\ Tids' = Tids /\ reg'.alive = reg.alive /\ reg'.running = reg.running /\ reg'.maxAlive = reg.maxAlive
        /\ \A x \in Tids : reg'.threads[x].status = reg.threads[x].status
    BY <1>3, Zenon DEF Took, Tids
  <2>2. A' = A /\ R' = R
    BY <2>1, Zenon DEF With
  <2> HIDE DEF A, R
  <2> QED BY <1>a, <1>k, <2>1, <2>2, ZenonT(60)
<1>4. ASSUME NEW u, NEW d, NEW t, New(reg, u, d, t, reg') PROVE CountsAgree'
  <2>1. /\ Tids' = Tids \union {t} /\ (t \in Tids => reg.threads[t].status = "invalid")
        /\ reg'.threads[t].status = "created" /\ \A x \in Tids : x # t => reg'.threads[x] = reg.threads[x]
        /\ reg'.alive = reg.alive + 1 /\ reg'.running = reg.running
        /\ reg'.maxAlive = IF reg.maxAlive < reg.alive + 1 THEN reg.maxAlive + 1 ELSE reg.maxAlive
    BY <1>4, Zenon DEF New, Tids
  <2>2. t \in A' /\ t \notin A /\ t \notin R' /\ t \notin R
    BY <2>1, Zenon DEF With, Living
  <2>3. ASSUME NEW x \in Tids, x # t PROVE (x \in A' <=> x \in A) /\ (x \in R' <=> x \in R)
    BY <2>1, <2>3, Zenon DEF With
  <2>s. A \subseteq Tids /\ A' \subseteq Tids \union {t} /\ R \subseteq Tids /\ R' \subseteq Tids \union {t}
    BY <2>1, Zenon DEF With
  <2>n. Cardinality(A') \in Nat /\ Cardinality(Tids') \in Nat /\ Cardinality(A') <= Cardinality(Tids')
    <3>1. Tids' = DOMAIN reg'.threads /\ A' = {x \in Tids' : reg'.threads[x].status \in Living}
      BY Zenon DEF Tids, With
    <3>2. IsFiniteSet(Tids')
      BY <1>f, <2>1, FS_AddElement, ZenonT(60)
    <3>3. A' \in SUBSET Tids'
      BY <3>1, Zenon
    <3> HIDE DEF A
    <3> QED BY <3>2, <3>3, FS_Subset, FS_CardinalityType, ZenonT(60)
  <2>t. Cardinality(Tids) <= Cardinality(Tids')
    <3>1. Cardinality(Tids \union {t}) = IF t \in Tids THEN Cardinality(Tids) ELSE Cardinality(Tids) + 1
      BY <1>f, FS_AddElement, Zenon
    <3> QED BY <1>f, <2>1, <3>1, SMTT(60)
  <2> HIDE DEF A, R
  <2>4. A' = A \union {t} /\ R' = R
    BY <2>2, <2>3, <2>s, SMTT(60)
  <2>5. Cardinality(A \union {t}) = Cardinality(A) + 1
    BY <1>f, <2>2, FS_AddElement, ZenonT(60)
  <2>6. Cardinality(A') = reg'.alive
    BY <1>a, <2>1, <2>4, <2>5, ZenonT(60)
  <2>7. reg'.alive <= reg'.maxAlive /\ reg'.maxAlive <= Cardinality(Tids')
    <3> DEFINE m == reg.maxAlive
               n == reg'.maxAlive
               b == reg.alive
               e == reg'.alive
               v == Cardinality(Tids)
               w == Cardinality(Tids')
    <3>1. /\ m \in Nat /\ b \in Nat /\ e = b + 1 /\ b <= m /\ m <= v /\ v <= w /\ e <= w /\ v \in Nat /\ w \in Nat
          /\ n = IF m < b + 1 THEN m + 1 ELSE m
      BY <1>a, <1>f, <1>g, <2>1, <2>6, <2>n, <2>t, ZenonT(60)
    <3> HIDE DEF m, n, b, e, v, w
    <3>2. e <= n /\ n <= w
      BY <3>1, SMTT(60)
    <3> QED BY <3>2, Zenon DEF m, n, b, e, v, w
  <2> QED BY <1>a, <1>k, <2>1, <2>4, <2>6, <2>7, ZenonT(60)
<1> QED BY <1>1, <1>2, <1>3, <1>4, ZenonT(60) DEF CountStep

-----------------------------------------------------------------------------
(* The properties of the run, from the invariant.                           *)

\* The registry agrees with itself when its contexts do.
LEMMA RegistryFromInv ==
  ASSUME RegistryOK(reg), CountsAgree
  PROVE  RegistryConsistent
<1>l. ListsOK(reg) /\ MarksOK(reg) /\ reg.ok /\ reg.dead \in Seq(Tids) /\ reg.invalid \in Seq(Tids)
  BY RegistryParts, Zenon DEF RegistryOK, Tids
<1>r. Range(reg.dead) \subseteq Tids /\ Range(reg.invalid) \subseteq Tids
  <2>1. ASSUME NEW q \in Seq(Tids) PROVE Range(q) \subseteq Tids
    <3>1. \A i \in DOMAIN q : q[i] \in Tids
      BY SMTT(60)
    <3> QED BY <3>1, Zenon DEF Range
  <2> QED BY <1>l, <2>1, Zenon
<1>1. Range(reg.dead) = With({"dead"})
  BY <1>l, <1>r, Zenon DEF ListsOK, With, Tids
<1>2. Range(reg.invalid) = {t \in With({"invalid"}) : MaxReuse = 0 \/ reg.threads[t].reuse < MaxReuse}
  BY <1>l, <1>r, Zenon DEF ListsOK, With, Tids
<1>3. IsInjective(reg.dead) /\ IsInjective(reg.invalid) /\ Len(reg.dead) <= QuarantineSize
  BY <1>l, Zenon DEF ListsOK
<1>4. \A t \in Tids : reg.threads[t].destroyed <=> reg.threads[t].status \in {"finished", "dead"}
  BY <1>l, Zenon DEF MarksOK, Tids
<1> QED BY <1>l, <1>1, <1>2, <1>3, <1>4, ZenonT(60) DEF RegistryConsistent, ChecksPass, QuarantineWellFormed

\* A handle leads to its thread.
LEMMA HandlesFromInv ==
  ASSUME ThreadInv
  PROVE  HandlesResolve
<1>i. RegistryOK(reg) /\ Users /\ HeldHandles /\ Claims
  BY Zenon DEF ThreadInv
<1>1. HandlesUnique
  <2>1. ASSUME NEW s \in Slots PROVE Cardinality(Matching(reg, s)) <= 1
    <3>z. s # 0
      BY HandlesAssumption, Zenon
    <3>n. 0 <= 1 /\ 1 <= 1
      BY SMTT(60)
    <3>1. CASE Matching(reg, s) = {}
      BY <3>n, <3>1, FS_EmptySet, ZenonT(60)
    <3>2. CASE Matching(reg, s) # {}
      <4>1. PICK t : t \in Matching(reg, s)
        BY <3>2, Zenon
      <4>2. Matching(reg, s) = {t}
        BY <1>i, <3>z, <4>1, ZenonT(60) DEF Matching, Users, Tids
      <4> QED BY <3>n, <4>2, FS_Singleton, ZenonT(60)
    <3> QED BY <3>1, <3>2, Zenon
  <2> QED BY <2>1, Zenon DEF HandlesUnique
<1>2. HandlesKnown
  <2>1. ASSUME NEW s \in held, pc[s] # "begin" PROVE Matching(reg, s) # {}
    <3>1. s \in Slots
      BY Zenon DEF ThreadInv, ThreadTypeOK
    <3>2. PICK t \in Tids : reg.threads[t].user = s
      BY <1>i, <2>1, Zenon DEF HeldHandles, HeldOK, Unregistered
    <3>3. reg.threads[t].status # "invalid"
      BY <1>i, <3>1, <3>2, ZenonT(60) DEF Users, UserOK
    <3> QED BY <3>2, <3>3, Zenon DEF Matching, Tids
  <2>2. ASSUME NEW a \in Actors, pc[a] \in ClaimPcs PROVE arg[a].tid \in 1..MaxThreads - 1
    <3>1. arg[a].tid \in Tids /\ arg[a].tid # MainTid
      BY <1>i, <2>2, Zenon DEF Claims, ClaimOK
    <3>2. arg[a].tid \in 0..MaxThreads - 1
      BY <1>i, <3>1, NoTidFacts, ZenonT(60)
    <3> QED BY <3>1, <3>2, RegistryConstants, SMTT(60) DEF MainTid
  <2> QED BY <2>1, <2>2, Zenon DEF HandlesKnown, ClaimPcs
<1>3. TidKeepsThread
  BY <1>i, Zenon DEF TidKeepsThread, Claims, ClaimOK, ClaimPcs
<1> QED BY <1>1, <1>2, <1>3, Zenon DEF HandlesResolve

\* The inductive invariant: the threads and the counters.
ThreadsInv == ThreadInv /\ CountsAgree

\* The invariant of the threads and the counters holds in every reachable state.
THEOREM ThreadsInvariant == Spec => []ThreadsInv
<1>1. Init => ThreadsInv
  BY Intervals, ThreadInvInit, CountsInit, ZenonT(60) DEF ThreadsInv
<1>2. ThreadsInv /\ [Next]_vars => ThreadsInv'
  <2> SUFFICES ASSUME ThreadInv, CountsAgree, [Next]_vars PROVE ThreadsInv'
    BY Zenon DEF ThreadsInv
  <2>1. RegistryOK(reg) /\ IntervalSizes
    BY Intervals, Zenon DEF ThreadInv
  <2>2. SomeoneRuns
    BY <2>1, MainCounted, Zenon
  <2>3. ThreadInv' /\ CountStep
    BY <2>1, <2>2, ThreadInvNext, NextCounts, ZenonT(60)
  <2>4. RegistryOK(reg)'
    BY <2>3, Zenon DEF ThreadInv
  <2>5. CountsAgree'
    BY <2>1, <2>3, <2>4, CountsNext, ZenonT(60)
  <2> QED BY <2>3, <2>5, ZenonT(60) DEF ThreadsInv
<1> QED BY <1>1, <1>2, PTL DEF Spec

\* No CHECK of the thread registry fails, its counters agree with the states of
\* the threads, and its two lists partition the contexts that are not in use,
\* however the threads of the program are created, detached, joined and ended.
THEOREM RegistryAgrees == Spec => []RegistryConsistent
<1>1. ThreadsInv => RegistryConsistent
  BY RegistryFromInv, Zenon DEF ThreadsInv, ThreadInv
<1> QED BY <1>1, ThreadsInvariant, PTL

\* ConsumeThreadByUid finds the one context of a handle that the program may use,
\* and the tid it returns names the same thread until the interceptor is done,
\* although the library may have given the handle to another thread by then.
THEOREM HandlesLeadToThreads == Spec => []HandlesResolve
<1>1. ThreadsInv => HandlesResolve
  BY HandlesFromInv, ZenonT(60) DEF ThreadsInv
<1> QED BY <1>1, ThreadsInvariant, PTL

\* No edge of happens-before at the start, the join or the end of a thread is
\* lost, and no clock is left in a context that dies or is recycled.
THEOREM HappensBeforeKept == Spec => []EdgesKept
<1>1. ThreadsInv => EdgesKept
  BY Zenon DEF ThreadsInv, ThreadInv
<1> QED BY <1>1, ThreadsInvariant, PTL
=============================================================================

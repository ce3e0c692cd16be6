--------------------------- MODULE ThreadRegistry ---------------------------
(***************************************************************************)
(* The registry of threads that the sanitizer runtimes share               *)
(* (sanitizer_thread_registry.cpp).                                        *)
(*                                                                         *)
(* Every operation holds the registry's mutex from beginning to end, so    *)
(* it is one step; JoinThread gives the mutex up between the turns of its  *)
(* loop, and a turn is one step.  A thread context outlives its thread: it *)
(* waits in the quarantine dead_threads_, then in invalid_threads_ for a   *)
(* new thread to take it over with its tid.                                *)
(*                                                                         *)
(* The operations are functions of the registry; TsanThread runs them the  *)
(* way the thread sanitizer does.                                          *)
(***************************************************************************)
EXTENDS Integers, FiniteSets, Sequences, Functions

CONSTANTS
  MaxThreads,      \* max_threads_
  QuarantineSize,  \* thread_quarantine_size_
  MaxReuse,        \* max_reuse_, 0 for no limit
  MaxCreated       \* bound on the threads ever created

\* Each of the runtimes asks for a quarantine: see FinishThread.
ASSUME RegistryConstants ==
  /\ MaxThreads \in Nat \ {0} /\ QuarantineSize \in Nat \ {0}
  /\ MaxReuse \in Nat /\ MaxCreated \in Nat

VARIABLE reg   \* the registry

MainTid == 0
Statuses == {"invalid", "created", "running", "finished", "dead"}
Tids == DOMAIN reg.threads

\* A context fresh from context_factory_.
Fresh == [status |-> "invalid", detached |-> FALSE, destroyed |-> FALSE,
          user |-> 0, unique |-> 0, reuse |-> 0]

\* ok: no CHECK has failed.
Empty == [threads |-> <<>>, dead |-> <<>>, invalid |-> <<>>, total |-> 0,
          alive |-> 0, maxAlive |-> 0, running |-> 0, ok |-> TRUE]

Check(r, cond) == [r EXCEPT !.ok = @ /\ cond]
-----------------------------------------------------------------------------
(* The quarantine.                                                          *)

Reset(c) == [c EXCEPT !.status = "invalid", !.destroyed = FALSE, !.reuse = @ + 1]

QuarantinePush(r, t) ==
  LET dead == Append(r.dead, t)
      old == Head(dead)
      r1 == [Check(r, r.threads[old].status = "dead") EXCEPT
               !.dead = Tail(dead), !.threads[old] = Reset(@)]
  IN
  IF t = MainTid THEN r
  ELSE IF Len(dead) <= QuarantineSize THEN [r EXCEPT !.dead = dead]
  ELSE IF MaxReuse > 0 /\ r1.threads[old].reuse >= MaxReuse THEN r1
  ELSE [r1 EXCEPT !.invalid = Append(@, old)]

\* Mutant: the dead context keeps the handle of its thread.
SetDeadKeepsUser(r, t) ==
  [Check(r, r.threads[t].status \in {"running", "finished"}) EXCEPT !.threads[t].status = "dead"]

Dead(c) == [c EXCEPT !.status = "dead", !.user = 0]

SetDead(r, t) ==
  [Check(r, r.threads[t].status \in {"running", "finished"}) EXCEPT !.threads[t] = Dead(@)]

SetJoined(r, t) ==
  [Check(r, ~r.threads[t].detached /\ r.threads[t].status = "finished") EXCEPT !.threads[t] = Dead(@)]
-----------------------------------------------------------------------------
(* The operations, as functions of the registry.                            *)

\* The tid of the next thread, when there is one: a recycled one first.
CanCreate(r) == r.invalid # <<>> \/ Cardinality(DOMAIN r.threads) < MaxThreads

NextTid(r) == IF r.invalid # <<>> THEN Head(r.invalid) ELSE Cardinality(DOMAIN r.threads)

SetCreated(c, u, d, n) ==
  [c EXCEPT !.status = "created", !.user = u, !.unique = n, !.detached = d]

CreateThread(r, u, d) ==
  LET t == NextTid(r)
      r1 == [r EXCEPT !.threads = [x \in DOMAIN r.threads \union {t} |->
                                     IF x \in DOMAIN r.threads THEN r.threads[x] ELSE Fresh],
                      !.invalid = IF r.invalid # <<>> THEN Tail(@) ELSE @]
  IN [Check(r1, t < MaxThreads /\ r1.threads[t].status = "invalid") EXCEPT
        !.alive = @ + 1,
        !.maxAlive = IF @ < r.alive + 1 THEN @ + 1 ELSE @,
        !.total = @ + 1,
        !.threads[t] = SetCreated(@, u, d, r.total)]

SetStarted(c) == [c EXCEPT !.status = "running"]

StartThread(r, t) ==
  [Check(r, r.threads[t].status = "created") EXCEPT
     !.running = @ + 1, !.threads[t] = SetStarted(@)]

\* A detached thread that has run is not marked finished on its way to dead.
SetFinished(c) ==
  [c EXCEPT !.status = IF ~c.detached \/ @ = "created" THEN "finished" ELSE @]

SetDestroyed(c) == [c EXCEPT !.destroyed = TRUE]

\* Mutant: the end of a detached thread is not counted.
FinishThreadUncounted(r, t) ==
  LET c == r.threads[t]
      r1 == [r EXCEPT !.alive = @ - 1, !.running = IF c.detached THEN @ ELSE @ - 1,
                      !.threads[t] = SetFinished(@)]
      r2 == IF c.detached THEN QuarantinePush(SetDead(r1, t), t) ELSE r1
  IN [r2 EXCEPT !.threads[t] = SetDestroyed(@)]

\* The mark is set last: with no quarantine it would mark the next thread.
FinishThread(r, t) ==
  LET c == r.threads[t]
      ran == c.status = "running"
      r1 == [Check(r, r.alive > 0 /\ (IF ran THEN r.running > 0 ELSE c.status = "created")) EXCEPT
               !.alive = @ - 1, !.running = IF ran THEN @ - 1 ELSE @,
               !.threads[t] = SetFinished(@)]
      r2 == IF c.detached \/ ~ran THEN QuarantinePush(SetDead(r1, t), t) ELSE r1
  IN [r2 EXCEPT !.threads[t] = SetDestroyed(@)]

SetDetached(c) == [c EXCEPT !.detached = TRUE]

DetachThread(r, t) ==
  CASE r.threads[t].status = "invalid" -> r
    [] r.threads[t].status = "finished" -> QuarantinePush(SetDead(r, t), t)
    [] OTHER -> [r EXCEPT !.threads[t] = SetDetached(@)]

\* What ends the loop of JoinThread, and its last turn.
JoinReady(r, t) == r.threads[t].status # "invalid" /\ r.threads[t].destroyed
JoinThread(r, t) == QuarantinePush(SetJoined(r, t), t)

SetUserId(c, u) == [c EXCEPT !.user = u]

SetThreadUserId(r, t, u) ==
  [Check(r, r.threads[t].status \notin {"invalid", "dead"} /\ r.threads[t].user = 0) EXCEPT
     !.threads[t] = SetUserId(@, u)]
-----------------------------------------------------------------------------
With(s) == {t \in Tids : reg.threads[t].status \in s}

\* No CHECK of the registry fails: a context is invalid when it is taken, a
\* thread starts from created, a joined thread has finished and was not
\* detached, the oldest context of the quarantine is dead.
ChecksPass == reg.ok

\* The counters GetNumberOfThreads and GetMaxAliveThreads answer with agree
\* with the states of the threads, the detached ones included.
CountsAgree ==
  /\ reg.alive = Cardinality(With({"created", "running"}))
  /\ reg.running = Cardinality(With({"running"}))
  /\ reg.alive <= reg.maxAlive /\ reg.maxAlive <= Cardinality(Tids)

\* The lists partition the contexts that are not in use: the dead are in the
\* quarantine once each, an invalid one waits for reuse or is used up, and a
\* context carries the mark of an ended thread only if its thread has ended.
QuarantineWellFormed ==
  /\ Range(reg.dead) = With({"dead"}) /\ IsInjective(reg.dead)
  /\ Range(reg.invalid) = {t \in With({"invalid"}) : MaxReuse = 0 \/ reg.threads[t].reuse < MaxReuse}
  /\ IsInjective(reg.invalid) /\ Len(reg.dead) <= QuarantineSize
  /\ \A t \in Tids : reg.threads[t].destroyed <=> reg.threads[t].status \in {"finished", "dead"}

\* The registry agrees with itself through every way a thread can end.
RegistryConsistent == ChecksPass /\ CountsAgree /\ QuarantineWellFormed
=============================================================================

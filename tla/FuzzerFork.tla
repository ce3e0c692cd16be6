----------------------------- MODULE FuzzerFork -----------------------------
(***************************************************************************)
(* libFuzzer's fork mode (FuzzerFork.cpp, FuzzWithFork): one thread gives  *)
(* jobs to NumJobs workers over FuzzQ, each worker runs a job as a child   *)
(* process and hands it back over MergeQ, and the first thread merges what *)
(* the job found into the main corpus.                                     *)
(*                                                                         *)
(* A job is what its child left behind: the units in its corpus directory  *)
(* and an exit status.  CrashResistantMerge is used by its contract        *)
(* (MergeSound of the module FuzzerMerge): of the candidates it could run  *)
(* it takes some that each add a feature and together have all of them.    *)
(* Which units are candidates the child's features files tell; that any    *)
(* unit may be missing covers one that its file leaves out.  A pop, the    *)
(* merge and the following push of the first thread are one step: the      *)
(* workers share only the queues with it, and at the other end.            *)
(***************************************************************************)
EXTENDS Integers, Sequences, FiniteSets, SequencesExt, FiniteSetsExt

CONSTANTS Workers, Units, Features,
          Size,       \* the length of every unit
          MaxInputLen,\* longer units are executed cut, and children write none
          Ignored,    \* statuses of children that do not end the run
          Modes,      \* sets of flags among "group", "keep", "dirs", "cover"
          Corpora     \* bound on what the corpus directories have: [main, side]

\* "crash" also stands for the other failures of a child, timeout and OOM.
Statuses == {"ok", "crash", "interrupt"}
IgnoredOK == Ignored \subseteq Statuses \ {"ok", "interrupt"}

Null == [units |-> {}, status |-> "null"]   \* the null job
Idle == [units |-> {}, status |-> "idle"]
Ended == [units |-> {}, status |-> "ended"]

VARIABLES
  mode,      \* the flags; "dirs": a corpus directory was given
  feats,     \* what the target does
  files,     \* Env.Files, the seeds new jobs choose from
  sizes,     \* Env.FilesSizes, kept with "group" only
  known,     \* Env.Features
  main,      \* units in the main corpus directory, the first one
  side,      \* units in the other corpus directories
  fuzzQ, mergeQ,
  worker,    \* what each worker holds: Idle, a job, or Ended
  over,      \* the time or the number of runs is used up
  temp,      \* the temporary directory exists
  pc         \* first thread: "loop", "join", "exit"

env == << files, sizes, known, main, side >>
queues == << fuzzQ, mergeQ >>
vars == << mode, feats, env, queues, worker, over, temp, pc >>

FeaturesOf(s) == UNION {feats[u] : u \in s}

\* All files of the corpus directories, the smallest first; a unit may be in
\* several of them.
BySize(dirs) ==
  LET s == SetToSortSeq(dirs, LAMBDA a, b : Size[a.u] < Size[b.u])
  IN  [i \in DOMAIN s |-> s[i].u]
SeedFiles == [u : main, main : {TRUE}] \cup [u : side, main : {FALSE}]

\* What CrashResistantMerge may make of the units s, which run without failing,
\* if the features "have" are known: units that each add a feature until none
\* is missing.  Merger::Merge takes the units by their size when they ran, so
\* none below "least"; SetCoverMerge takes them in any order.
Cut(n) == Min({n, MaxInputLen})

RECURSIVE Chosen(_, _, _, _)
Chosen(s, have, bySize, least) ==
  LET next == {u \in s : ~ feats[u] \subseteq have /\ (bySize => Cut(Size[u]) >= least)}
  IN  IF FeaturesOf(s) \subseteq have THEN {<< >>}
      ELSE UNION {{<< u >> \o add : add \in Chosen(s, have \cup feats[u], bySize, Cut(Size[u]))} : u \in next}

InsertAfter(s, x, k) == SubSeq(s, 1, k) \o << x >> \o SubSeq(s, k + 1, Len(s))

\* The place Group gives a unit: std::upper_bound among len sizes after the
\* first k; they need not be sorted.
RECURSIVE UpperBound(_, _, _, _)
UpperBound(szs, n, k, len) ==
  LET half == len \div 2
  IN  IF len = 0 THEN k
      ELSE IF n < szs[k + half + 1] THEN UpperBound(szs, n, k, half)
      ELSE UpperBound(szs, n, k + half + 1, len - half - 1)

\* Env.Files and Env.FilesSizes after the files of "add".
AddFiles(add) ==
  FoldLeft(LAMBDA acc, u :
            IF "group" \in mode
            THEN LET k == UpperBound(acc.sizes, Size[u], 0, Len(acc.sizes))
                 IN  [files |-> InsertAfter(acc.files, u, k),
                      sizes |-> InsertAfter(acc.sizes, Size[u], k)]
            ELSE [acc EXCEPT !.files = Append(@, u)],
          [files |-> files, sizes |-> sizes], add)

SizesOf(s) == IF "group" \in mode THEN [i \in 1..Len(s) |-> Size[s[i]]] ELSE << >>

Init ==
  /\ mode \in Modes
  /\ feats \in [Units -> SUBSET Features]
  /\ \E c \in IF "dirs" \in mode THEN Corpora ELSE {[main |-> {}, side |-> {}]} :
       main = c.main /\ side = c.side
  /\ \/ "keep" \in mode /\ files = BySize(SeedFiles) /\ known = {}
     \/ /\ "keep" \notin mode
        /\ \E ok \in SUBSET (main \cup side) : files \in Chosen(ok, {}, TRUE, 0)
        /\ known = FeaturesOf(ToSet(files))
  /\ sizes = SizesOf(files)
  /\ fuzzQ = [i \in 1..Cardinality(Workers) |-> Idle]
  /\ mergeQ = << >>
  /\ worker = [w \in Workers |-> Idle]
  /\ over = FALSE /\ temp = TRUE /\ pc = "loop"

\* WorkerThread: FuzzQ->Pop, and the child runs.  A job in FuzzQ has no result
\* yet; the stop file makes a late one find nothing.
Run(w, units, status) ==
  /\ worker[w] = Idle /\ fuzzQ # << >> /\ Head(fuzzQ) # Null
  /\ worker' = [worker EXCEPT ![w] = [units |-> units, status |-> status]]
  /\ fuzzQ' = Tail(fuzzQ)
  /\ UNCHANGED << mode, feats, env, mergeQ, over, temp, pc >>

\* The child ended: MergeQ->Push.
HandBack(w) ==
  /\ worker[w] \notin {Idle, Ended}
  /\ mergeQ' = Append(mergeQ, worker[w])
  /\ worker' = [worker EXCEPT ![w] = Idle]
  /\ UNCHANGED << mode, feats, env, fuzzQ, over, temp, pc >>

EndWorker(w) ==
  /\ worker[w] = Idle /\ fuzzQ # << >> /\ Head(fuzzQ) = Null
  /\ worker' = [worker EXCEPT ![w] = Ended]
  /\ fuzzQ' = Tail(fuzzQ)
  /\ UNCHANGED << mode, feats, env, mergeQ, over, temp, pc >>

\* The job at the head of MergeQ is taken; one null job for every worker.
StopJobs ==
  /\ fuzzQ' = fuzzQ \o [i \in 1..Cardinality(Workers) |-> Null]
  /\ mergeQ' = Append(Tail(mergeQ), Null)
  /\ pc' = "join"

Interrupted ==
  /\ pc = "loop" /\ mergeQ # << >> /\ Head(mergeQ).status = "interrupt"
  /\ StopJobs
  /\ UNCHANGED << mode, feats, env, worker, over, temp >>

\* Mutant: the known features are those of the candidates, not of the files.
RunOneMergeJobAll(job, add) ==
  LET after == AddFiles(add)
  IN  /\ main' = main \cup ToSet(add)
      /\ known' = known \cup FeaturesOf(job.units)
      /\ files' = after.files /\ sizes' = after.sizes
      /\ UNCHANGED side

\* The merge chose "add" of what the job found.
RunOneMergeJob(job, add) ==
  LET after == AddFiles(add)
  IN  /\ main' = main \cup ToSet(add)
      /\ known' = known \cup FeaturesOf(ToSet(add))
      /\ files' = after.files /\ sizes' = after.sizes
      /\ UNCHANGED side

\* With -fork_corpus_groups, after every 20 jobs or more: RunOneMergeJob, then
\* the seeds are chosen anew from all corpus directories.
RegroupedMergeJob(job, add) ==
  /\ "group" \in mode
  /\ main' = main \cup ToSet(add)
  /\ known' = known \cup FeaturesOf(ToSet(add))
  /\ \E good \in SUBSET (IF "dirs" \in mode THEN main' \cup side ELSE {}) :
       files' \in Chosen(good, {}, TRUE, 0)
  /\ sizes' = SizesOf(files')
  /\ UNCHANGED side

\* The choices of the merge, ok being the candidates it could run.
Additions(job) ==
  UNION {Chosen(ok, known, "cover" \notin mode, 0) : ok \in SUBSET job.units}

\* Mutant: the budget is not looked at.
StopsAfterNoBudget(status) == status \notin Ignored \cup {"ok"}

\* The loop ends after a job with this status.
StopsAfter(status) == over \/ status \notin Ignored \cup {"ok"}

\* One round of the loop: merge, then stop or push a new job.
Round ==
  /\ pc = "loop" /\ mergeQ # << >>
  /\ Head(mergeQ).status # "interrupt"
  /\ \E add \in Additions(Head(mergeQ)) :
       \/ RunOneMergeJob(Head(mergeQ), add)
       \/ RegroupedMergeJob(Head(mergeQ), add)
  /\ IF StopsAfter(Head(mergeQ).status)
     THEN StopJobs
     ELSE /\ fuzzQ' = Append(fuzzQ, Idle)
          /\ mergeQ' = Tail(mergeQ)
          /\ pc' = pc
  /\ UNCHANGED << mode, feats, worker, over, temp >>

\* MaybeExitGracefully after a signal: the process goes at once, its threads
\* with it; children that still run stay behind.
GracefulExit ==
  /\ pc = "loop" /\ mergeQ # << >> /\ Head(mergeQ).status # "interrupt"
  /\ pc' = "exit" /\ temp' = FALSE
  /\ mergeQ' = Tail(mergeQ)
  /\ UNCHANGED << mode, feats, env, fuzzQ, worker, over >>

\* CrashResistantMerge exits if it cannot read the control file, for a job or
\* when it regroups; the temporary directory stays.
MergeExits ==
  /\ pc = "loop" /\ mergeQ # << >> /\ Head(mergeQ).status # "interrupt"
  /\ \/ UNCHANGED env
     \/ /\ "group" \in mode
        /\ \E add \in Additions(Head(mergeQ)) : RunOneMergeJob(Head(mergeQ), add)
  /\ pc' = "exit" /\ mergeQ' = Tail(mergeQ)
  /\ UNCHANGED << mode, feats, fuzzQ, worker, over, temp >>

Join ==
  /\ pc = "join" /\ \A w \in Workers : worker[w] = Ended
  /\ pc' = "exit" /\ temp' = FALSE
  /\ UNCHANGED << mode, feats, env, queues, worker, over >>

TimeUp ==
  /\ pc = "loop" /\ ~ over
  /\ over' = TRUE
  /\ UNCHANGED << mode, feats, env, queues, worker, temp, pc >>

First == Interrupted \/ Round \/ MergeExits \/ Join
Written == {u \in Units : Size[u] <= MaxInputLen}
Work(w) ==
  /\ pc # "exit"
  /\ \/ HandBack(w)
     \/ EndWorker(w)
     \/ \E units \in SUBSET Written, status \in Statuses : Run(w, units, status)

Next == First \/ GracefulExit \/ TimeUp \/ \E w \in Workers : Work(w)

Spec == Init /\ [][Next]_vars

-----------------------------------------------------------------------------
(* A feature counts as known only if a unit in a corpus directory shows it: *)
(* otherwise every later unit with it is thrown away as nothing new.        *)
KnownInCorpora == known \subseteq FeaturesOf(main \cup side)

(* With -fork_corpus_groups the sizes that the groups are made by are those *)
(* of the files, and in increasing order as far as the target sees them,    *)
(* cut to the maximal length, whatever is inserted or chosen anew: std::    *)
(* upper_bound is right though files longer than that are in no order.      *)
GroupsSorted ==
  "group" \in mode =>
    /\ Len(sizes) = Len(files)
    /\ \A i \in 1..Len(files) : /\ sizes[i] = Size[files[i]]
                                /\ i > 1 => Cut(sizes[i - 1]) <= Cut(sizes[i])

(* What fork mode remembers agrees with the corpora on disk.                *)
EnvConsistent == KnownInCorpora /\ GroupsSorted
=============================================================================

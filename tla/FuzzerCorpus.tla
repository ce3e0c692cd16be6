---------------------------- MODULE FuzzerCorpus ----------------------------
(***************************************************************************)
(* libFuzzer's corpus while it fuzzes (FuzzerCorpus.h, FuzzerLoop.cpp):    *)
(* which input owns which feature, how inputs are evicted (-shrink) and    *)
(* replaced by smaller ones (-reduce_inputs), and what that does to the    *)
(* files of the output corpus and of the features directory.               *)
(*                                                                         *)
(* A unit is its content; its SHA1, and so the name of its file, stands    *)
(* for it.  The target is deterministic: "feats" maps a unit to the        *)
(* features it shows, any map at all.  A mutation can give any unit.  The  *)
(* iterations of MutateAndTestOne that find nothing change no state kept   *)
(* here, so one action is the iteration that ends the loop, or any other.  *)
(***************************************************************************)
EXTENDS Integers, Sequences, FiniteSets, SequencesExt, FiniteSetsExt

CONSTANTS Units, Features,
          Size,       \* the length of every unit, at least 1
          Newline,    \* the unit "\n", run when there is no seed
          NoUnit,     \* the empty unit of an evicted input
          Options,    \* sets of flags among "shrink", "reduce", "keep"
          FuzzTargets,\* bound on the targets: functions from Units to sets of Features
          OutputCorpora, \* sets of units that may be in the output corpus at first
          ExtraSeeds, \* sets of units in the other corpora or in -seed_inputs
          MaxOther    \* bound on the files other processes delete

UnitsOK ==
  /\ Newline \in Units /\ NoUnit \notin Units
  /\ Size \in [Units -> Nat \ {0}]

VARIABLES
  opts,      \* the flags of this process
  feats,     \* what the target does
  inputs,    \* Inputs: sequence of InputInfo
  owner,     \* SmallestElementPerFeature
  fsize,     \* InputSizesPerFeature; 0: never seen
  hashes,    \* Hashes
  extra,     \* seeds from elsewhere than the output corpus
  disk,      \* files of the output corpus
  featfile,  \* files of the features directory: unit -> UniqFeatureSet
  todo,      \* seeds still to be run
  pc,        \* "seeds", "idle", "report", "exit"
  cur,       \* CurrentUnitData between RunOne and ReportNewCoverage
  twins,     \* units that two inputs were at the same time
  gone       \* units whose file another process deleted

vars == << opts, feats, inputs, owner, fsize, hashes, extra, disk, featfile, todo, pc, cur,
           twins, gone >>

Found == {f \in Features : fsize[f] > 0}

\* The features of u that AddFeature accepts.
Taken(u) == {f \in feats[u] :
               fsize[f] = 0 \/ ("shrink" \in opts /\ fsize[f] > Size[u])}

\* Inputs after every feature of "taken" went to the unit being run, an input
\* that owns none any more being emptied (DeleteInput).
Disown(taken) ==
  [i \in 1..Len(inputs) |->
     LET lost == Cardinality({f \in taken \cap Found : owner[f] = i})
     IN  [inputs[i] EXCEPT !.n = @ - lost,
            !.u = IF lost > 0 /\ inputs[i].n = lost THEN NoUnit ELSE @]]

\* Mutant: also the files of inputs that merely lost a feature.
EvictedFilesAll(after) ==
  {inputs[i].u : i \in {j \in 1..Len(inputs) :
                          after[j] # inputs[j] /\ inputs[j].mayDelete}}

\* The files DeleteInput removes on the way.
EvictedFiles(after) ==
  {inputs[i].u : i \in {j \in 1..Len(inputs) :
                          after[j].u # inputs[j].u /\ inputs[j].mayDelete}}

\* The features file of u, if there is anything to write.
WriteFeatureSet(u, taken) ==
  IF taken = {} THEN featfile
  ELSE [v \in DOMAIN featfile \cup {u} |-> IF v = u THEN taken ELSE featfile[v]]

\* Replaces the file of the new unit by that of the old one.
RenameFeatureSet(old, new) ==
  IF old \notin DOMAIN featfile THEN featfile
  ELSE [v \in (DOMAIN featfile \ {old}) \cup {new} |->
          IF v = new THEN featfile[old] ELSE featfile[v]]

\* The units that two of the inputs are.
Twins(ins) ==
  {ins[i].u : i \in {j \in DOMAIN ins :
                       ins[j].u # NoUnit /\ \E k \in DOMAIN ins \ {j} : ins[k].u = ins[j].u}}

AddToCorpus(u, taken, mayDelete, force) ==
  LET after == Disown(taken)
  IN  /\ inputs' = Append(after, [u |-> u, n |-> Cardinality(taken), uniq |-> taken,
                                  mayDelete |-> mayDelete, neverReduce |-> force])
      /\ hashes' = hashes \cup {u}
      /\ disk' = disk \ EvictedFiles(after)
      /\ owner' = [f \in Features |-> IF f \in taken THEN Len(inputs) + 1 ELSE owner[f]]
      /\ fsize' = [f \in Features |-> IF f \in taken THEN Size[u] ELSE fsize[f]]
      /\ featfile' = WriteFeatureSet(u, taken)
      /\ twins' = twins \cup Twins(inputs')

\* Mutant: one of the input's own features is enough.
ReducesPartly(u, base) ==
  /\ base > 0 /\ "reduce" \in opts /\ ~ inputs[base].neverReduce
  /\ inputs[base].uniq \cap feats[u] # {}
  /\ inputs[base].u # NoUnit /\ Size[inputs[base].u] > Size[u]

\* u shows every feature its base was kept for, and is smaller.
Reduces(u, base) ==
  /\ base > 0 /\ "reduce" \in opts /\ ~ inputs[base].neverReduce
  /\ inputs[base].uniq # {} /\ inputs[base].uniq \subseteq feats[u]
  /\ inputs[base].u # NoUnit /\ Size[inputs[base].u] > Size[u]

Replace(base, u) ==
  LET old == inputs[base].u
  IN  /\ inputs' = [inputs EXCEPT ![base].u = u]
      /\ hashes' = (hashes \ {old}) \cup {u}
      /\ disk' = IF inputs[base].mayDelete THEN disk \ {old} ELSE disk
      /\ featfile' = RenameFeatureSet(old, u)
      /\ twins' = twins \cup Twins(inputs')
      /\ UNCHANGED << owner, fsize >>

\* RunOne, true: the corpus changed.
RunOne(u, mayDelete, base, force) ==
  \/ /\ Taken(u) # {} \/ force
     /\ AddToCorpus(u, Taken(u), mayDelete, force)
  \/ /\ Taken(u) = {} /\ ~ force
     /\ Reduces(u, base)
     /\ Replace(base, u)

\* RunOne, false.
Nothing(u, base, force) == Taken(u) = {} /\ ~ force /\ ~ Reduces(u, base)
SameCorpus == UNCHANGED << inputs, hashes, disk, owner, fsize, featfile, twins >>

\* The seeds, the smallest first; a unit may be in several corpora.
BySize(files) ==
  LET s == SetToSortSeq(files, LAMBDA a, b : Size[a.u] < Size[b.u])
  IN  [i \in DOMAIN s |-> s[i].u]
SeedFiles == [u : disk, out : {TRUE}] \cup [u : extra, out : {FALSE}]

Init ==
  /\ opts \in Options
  /\ feats \in FuzzTargets
  /\ disk \in OutputCorpora /\ extra \in ExtraSeeds
  /\ todo = IF SeedFiles = {} THEN << Newline >> ELSE BySize(SeedFiles)
  /\ twins = {} /\ gone = {}
  /\ inputs = << >> /\ hashes = {} /\ featfile = << >>
  /\ owner = [f \in Features |-> 0] /\ fsize = [f \in Features |-> 0]
  /\ pc = "seeds" /\ cur = NoUnit

\* ReadAndExecuteSeedCorpora: the seeds one by one, the smallest first.
RunSeed ==
  /\ pc = "seeds" /\ todo # << >>
  /\ LET force == "keep" \in opts /\ SeedFiles # {}
     IN  \/ RunOne(Head(todo), FALSE, 0, force)
         \/ Nothing(Head(todo), 0, force) /\ SameCorpus
  /\ todo' = Tail(todo)
  /\ UNCHANGED << opts, feats, extra, pc, cur, gone >>

SeedsDone ==
  /\ pc = "seeds" /\ todo = << >>
  /\ pc' = IF inputs = << >> THEN "exit" ELSE "idle"
  /\ UNCHANGED << opts, feats, inputs, owner, fsize, hashes, extra, disk, featfile, todo, cur,
                  twins, gone >>

\* The inputs of positive weight; all weights 0 leave the choice undefined.
ToMutate ==
  LET weighty == {i \in 1..Len(inputs) : inputs[i].n > 0}
  IN  IF weighty = {} THEN 1..Len(inputs) ELSE weighty

\* MutateAndTestOne up to the end of RunOne.
Mutate(i, u) ==
  /\ pc = "idle" /\ i \in ToMutate
  /\ RunOne(u, TRUE, i, FALSE)
  /\ cur' = u /\ pc' = "report"
  /\ UNCHANGED << opts, feats, extra, todo, gone >>

\* TryDetectingAMemoryLeak finds a leak, or the target fails when it is run
\* once more: the process exits before the unit is written.
LeakExit ==
  /\ pc = "report"
  /\ pc' = "exit"
  /\ UNCHANGED << opts, feats, inputs, owner, fsize, hashes, extra, disk, featfile, todo, cur,
                  twins, gone >>

\* ReportNewCoverage: the unit is written.
Report ==
  /\ pc = "report"
  /\ disk' = disk \cup {cur}
  /\ cur' = NoUnit /\ pc' = "idle"
  /\ UNCHANGED << opts, feats, inputs, owner, fsize, hashes, extra, featfile, todo, twins, gone >>

\* Another process writes a unit to the same output corpus, or deletes the file
\* of one that it evicted or reduced.
OtherWrites(u) ==
  /\ pc \in {"idle", "report"} /\ u \notin disk
  /\ disk' = disk \cup {u}
  /\ UNCHANGED << opts, feats, inputs, owner, fsize, hashes, extra, featfile, todo, pc, cur,
                  twins, gone >>

OtherDeletes(u) ==
  /\ pc \in {"idle", "report"} /\ u \in disk
  /\ Cardinality(gone \cup {u}) <= MaxOther
  /\ disk' = disk \ {u} /\ gone' = gone \cup {u}
  /\ UNCHANGED << opts, feats, inputs, owner, fsize, hashes, extra, featfile, todo, pc, cur, twins >>

\* RereadOutputCorpus, one unit of it.
Reload(u) ==
  /\ pc = "idle" /\ u \in disk \ hashes
  /\ RunOne(u, FALSE, 0, FALSE)
  /\ UNCHANGED << opts, feats, extra, todo, pc, cur, gone >>

Next ==
  \/ RunSeed
  \/ SeedsDone
  \/ Report
  \/ LeakExit
  \/ \E u \in Units : \/ OtherWrites(u)
                      \/ OtherDeletes(u)
                      \/ Reload(u)
                      \/ \E i \in 1..Len(inputs) : Mutate(i, u)

Spec == Init /\ [][Next]_vars

-----------------------------------------------------------------------------
(* What ValidateFeatureSet asserts (its call is commented out), and the     *)
(* assertion of ChooseUnitToMutate: the count an input carries is the       *)
(* number of features whose smallest element it is, through evictions,      *)
(* replacements and forced seeds, and an input that may be chosen for       *)
(* mutation has a unit.                                                     *)
FeatureSetValid ==
  /\ \A f \in Found : owner[f] \in 1..Len(inputs)
  /\ \A i \in 1..Len(inputs) :
       inputs[i].n = Cardinality({f \in Found : owner[f] = i})
  /\ pc = "idle" => \A i \in ToMutate : inputs[i].u # NoUnit

(* No feature ever found is lost from memory: the input that owns it shows  *)
(* it, also after RunOne replaced that input's unit by a smaller one.       *)
OwnersShowTheirFeatures ==
  \A f \in Found : LET u == inputs[owner[f]].u
                   IN  u # NoUnit /\ f \in feats[u]

(* With -shrink a feature belongs to a smallest input that has it, and its  *)
(* recorded size is that input's ("Number of features that this input has   *)
(* and no smaller input has"): a stale InputSizesPerFeature would let a     *)
(* larger unit evict a smaller one.                                         *)
OwnersSmallest ==
  "shrink" \in opts =>
    \A f \in Found :
      /\ fsize[f] = Size[inputs[owner[f]].u]
      /\ \A i \in 1..Len(inputs) :
           inputs[i].u # NoUnit /\ f \in feats[inputs[i].u]
             => fsize[f] <= Size[inputs[i].u]

(* In memory, whatever was evicted, replaced or reread: the features are    *)
(* counted, and owned by smallest inputs that show them.                    *)
CorpusConsistent == FeatureSetValid /\ OwnersShowTheirFeatures /\ OwnersSmallest

(* What a restart would miss.  RunOne deletes the files of evicted and       *)
(* replaced inputs before ReportNewCoverage writes the unit that takes their *)
(* features, and the process may exit in between; so the files do not always *)
(* show every feature found.  But whatever was evicted, replaced and reread, *)
(* the input that owns a feature is lost in one of four ways only: it is the *)
(* unit being reported, or that was being reported when the process exited;  *)
(* it is the "\n" that is run when there is no seed and is never written;    *)
(* another process deleted its file; or two inputs were the same unit, and   *)
(* the file went when one of them was reduced (-reduce_inputs, the default). *)
Unwritten(i) ==
  \/ inputs[i].u \in {cur} \cup gone \cup twins
  \/ i = 1 /\ inputs[i].u = Newline /\ ~ inputs[i].mayDelete

(* And fork mode's merge, which reads the features files of its children     *)
(* instead of running their units, is told of each feature by the file of    *)
(* its owner, and of no feature that the unit does not have: as long as no   *)
(* two inputs were the same unit, since they would share that file too.      *)
DiskCovers ==
  /\ \A f \in Found : inputs[owner[f]].u \in disk \cup extra \/ Unwritten(owner[f])
  /\ twins = {} =>
       /\ \A f \in Found : LET u == inputs[owner[f]].u
                           IN  u \in DOMAIN featfile /\ f \in featfile[u]
       /\ \A u \in DOMAIN featfile : featfile[u] \subseteq feats[u]
=============================================================================

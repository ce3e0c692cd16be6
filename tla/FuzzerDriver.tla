---------------------------- MODULE FuzzerDriver ----------------------------
(***************************************************************************)
(* The modes of a libFuzzer binary that keep state over many runs of the   *)
(* target (FuzzerDriver.cpp): the flags select one of them for the life of *)
(* the process.  -fork is FuzzerFork, -merge and -set_cover_merge are      *)
(* FuzzerMerge, no flag is FuzzerCorpus.  Fork mode starts processes of    *)
(* the other modes; FuzzerFork uses them by their contracts: what the      *)
(* merge of a job takes is MergeSound, and what the features files tell it *)
(* is DiskCovers.                                                          *)
(*                                                                         *)
(* The variables of the modes that were not selected are Off.              *)
(***************************************************************************)
EXTENDS Naturals, FiniteSets, Sequences

CONSTANTS
  Programs,                               \* among "merge", "cover", "fuzz", "fork"
  Features, Size,                         \* FuzzerCorpus, FuzzerFork
  MaxInputLen,                            \* FuzzerMerge, FuzzerFork
  Units, Newline, NoUnit, Options,        \* FuzzerCorpus
  FuzzTargets, OutputCorpora, ExtraSeeds, MaxOther,
  Workers, ForkUnits, Ignored, Modes, Corpora,  \* FuzzerFork
  ForkTargets,                            \* bound on the targets in fork mode
  Old, New, Later, Sizes, MergeTargets,   \* FuzzerMerge
  MaxCrashes, MaxCuts, MaxKills, MaxRequests, MaxMerges, MaxRemoved, MaxFaults

VARIABLES
  program,
  feat, old, new, control, outer, inner, unlucky, asked, wasted, cut, outcome, faults,
  opts, inputs, owner, fsize, hashes, extra, disk, featfile, todo, cur, twins, gone,
  mode, files, sizes, known, main, side, fuzzQ, mergeQ, worker, over, temp,
  feats, pc                               \* of FuzzerCorpus or of FuzzerFork

mergeVars == <<feat, old, new, control, outer, inner, unlucky, asked, wasted, cut, outcome, faults>>
corpusVars ==
  <<opts, inputs, owner, fsize, hashes, extra, disk, featfile, todo, cur, twins, gone>>
forkVars == <<mode, files, sizes, known, main, side, fuzzQ, mergeQ, worker, over, temp>>
vars == <<program, mergeVars, corpusVars, forkVars, feats, pc>>

Merge == INSTANCE FuzzerMerge WITH SetCover <- FALSE
Cover == INSTANCE FuzzerMerge WITH SetCover <- TRUE
Corpus == INSTANCE FuzzerCorpus
Fork == INSTANCE FuzzerFork WITH Units <- ForkUnits

ASSUME UnitsOK == Corpus!UnitsOK
ASSUME IgnoredOK == Fork!IgnoredOK

Off == "off"
MergeOff ==
  /\ feat = Off /\ old = Off /\ new = Off /\ control = Off /\ outer = Off
  /\ inner = Off /\ unlucky = Off /\ asked = Off /\ wasted = Off /\ cut = Off
  /\ outcome = Off /\ faults = Off
CorpusOff ==
  /\ opts = Off /\ inputs = Off /\ owner = Off /\ fsize = Off /\ hashes = Off
  /\ extra = Off /\ disk = Off /\ featfile = Off /\ todo = Off /\ cur = Off
  /\ twins = Off /\ gone = Off
ForkOff ==
  /\ mode = Off /\ files = Off /\ sizes = Off /\ known = Off /\ main = Off /\ side = Off
  /\ fuzzQ = Off /\ mergeQ = Off /\ worker = Off /\ over = Off /\ temp = Off

Init ==
  /\ program \in Programs
  /\ \/ program = "merge" /\ Merge!Init /\ CorpusOff /\ ForkOff /\ feats = Off /\ pc = Off
     \/ program = "cover" /\ Cover!Init /\ CorpusOff /\ ForkOff /\ feats = Off /\ pc = Off
     \/ program = "fuzz" /\ Corpus!Init /\ MergeOff /\ ForkOff
     \/ program = "fork" /\ feats \in ForkTargets /\ Fork!Init /\ MergeOff /\ CorpusOff

Merging ==
  /\ \/ program = "merge" /\ Merge!Next
     \/ program = "cover" /\ Cover!Next
  /\ UNCHANGED <<program, corpusVars, forkVars, feats, pc>>

Fuzzing ==
  /\ program = "fuzz" /\ Corpus!Next
  /\ UNCHANGED <<program, mergeVars, forkVars>>

ForkOnly == program = "fork" /\ UNCHANGED <<program, mergeVars, corpusVars>>
Forking == ForkOnly /\ Fork!Next

Next == Merging \/ Fuzzing \/ Forking

\* In fork mode every thread runs, and every child ends (-max_total_time of
\* its job).
Fairness ==
  /\ WF_vars(ForkOnly /\ Fork!First)
  /\ \A w \in Workers : WF_vars(ForkOnly /\ Fork!Work(w))

Spec == Init /\ [][Next]_vars /\ Fairness
-----------------------------------------------------------------------------
Merges == program \in {"merge", "cover"}

(* When a merge that nobody asked to stop is computed, the inputs of its    *)
(* control file that were never started are no more than the attempts that  *)
(* ended before they started one; and the file is readable wherever the     *)
(* processes that wrote it died, except while they wrote a result           *)
(* (FuzzerMerge).                                                           *)
ControlFileComplete == Merges => Merge!ControlFileComplete

(* A merge that gets to its end leaves a first corpus with every feature of *)
(* every input that was started and ran to its end, and "only inputs with   *)
(* new coverage are added"; unless a process died in the middle of writing  *)
(* a number (FuzzerMerge).                                                  *)
MergeSound == Merges => Merge!MergeSound

(* What ValidateFeatureSet asserts (its call is commented out), and more:   *)
(* an input's count is the number of features it owns, it shows them, and   *)
(* with -shrink no smaller input does (FuzzerCorpus).                       *)
CorpusConsistent == program = "fuzz" => Corpus!CorpusConsistent

(* A feature that was found is missing from the corpora on disk only if its *)
(* owner is the unit being reported (RunOne deletes files before            *)
(* ReportNewCoverage writes the unit that replaces them), the "\n" of a     *)
(* start without seeds, a unit whose file another process deleted, or one   *)
(* that two inputs were; and the features files tell the owners and no      *)
(* wrong feature unless two inputs were one unit (FuzzerCorpus).            *)
DiskCovers == program = "fuzz" => Corpus!DiskCovers

(* A feature counts as known only if a unit in a corpus directory shows it, *)
(* and the groups of -fork_corpus_groups are made by the sizes of the files *)
(* in the order of their lengths when they run (FuzzerFork).                *)
EnvConsistent == program = "fork" => Fork!EnvConsistent

(* Once the budget is used up the fork mode ends: the loop is never left    *)
(* waiting for a job, nor a worker for the null job that ends it.           *)
StopsWhenOver == (program = "fork" /\ over = TRUE) ~> (pc = "exit")
=============================================================================

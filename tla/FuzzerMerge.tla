---------------------------- MODULE FuzzerMerge ----------------------------
(* The crash-resistant merge of libFuzzer (fuzzer/FuzzerMerge.cpp and Merge   *)
(* of FuzzerDriver.cpp).  An outer process lists the inputs in a control file *)
(* and starts inner processes until one of them gets through; an inner        *)
(* process runs the inputs the file does not yet mention and may die in any   *)
(* of them, before the first or while it writes a result.  The outer process  *)
(* then merges from the control file alone and copies the chosen inputs into  *)
(* the first corpus.  The control file outlives a killed merge and serves the *)
(* next one, and inputs it lists may be gone by then.                         *)
EXTENDS Integers, Sequences, FiniteSets, SequencesExt, FiniteSetsExt

CONSTANTS
  Old, New, Later,   \* contents of the first corpus, of the others, and of inputs found later
  Features,          \* numbers
  Sizes,             \* content -> size of the input
  MaxInputLen,       \* longer inputs are executed cut to this length
  SetCover,          \* -set_cover_merge
  MergeTargets,      \* bound on the targets: functions from Contents to features
  MaxCrashes, MaxCuts, MaxKills, MaxRequests, MaxMerges, MaxRemoved,
  MaxFaults          \* all of them but merges together

Contents == Old \cup New \cup Later
NoControl == [names |-> << >>, first |-> 0, log |-> << >>, open |-> FALSE]

VARIABLES
  feat,              \* content -> the features its execution has
  old, new,          \* the corpora: sets of file names
  control,           \* the control file: header, log, whether its last line lacks the newline
  outer,             \* the outer process
  inner,             \* the inner process
  unlucky,           \* names some inner process died in, or in writing their result
  asked,             \* SIGUSR1 ended an inner process of this merge
  wasted,            \* attempts of this merge that ended before they started an input
  cut,               \* what the control file was built on: a result cut to a "line"
                     \* without newline, or in the middle of a "number", or "no" such one
  outcome,           \* how the last merge ended
  faults             \* crashes, cuts, kills, requests, merges and removals so far

vars == <<feat, old, new, control, outer, inner, unlucky, asked, wasted, cut, outcome, faults>>

(* A name is a content and whether WriteToOutputCorpus made it (the name is   *)
(* then the hash of the content).                                             *)
Original(c) == [c |-> c, copy |-> FALSE]
Copy(n) == [c |-> n.c, copy |-> TRUE]
FeatOf(names) == UNION {feat[n.c] : n \in names}

OuterOff == [pc |-> "off", left |-> 0, known |-> << >>, todo |-> << >>]
InnerOff == [pc |-> "off", i |-> 0, all |-> {}, ran |-> 0]

Init ==
  /\ feat \in MergeTargets
  /\ old = {Original(c) : c \in Old} /\ new = {Original(c) : c \in New}
  /\ control = NoControl
  /\ outer = OuterOff /\ inner = InnerOff
  /\ unlucky = {} /\ asked = FALSE /\ wasted = 0 /\ cut = "no" /\ outcome = "none"
  /\ faults = [crashes |-> 0, cuts |-> 0, kills |-> 0, requests |-> 0, removed |-> 0, merges |-> 0]

May(kind, limit) ==
  /\ faults[kind] < limit
  /\ \/ kind = "merges"
     \/ faults.crashes + faults.cuts + faults.kills + faults.requests + faults.removed < MaxFaults
  /\ faults' = [faults EXCEPT ![kind] = @ + 1]

-----------------------------------------------------------------------------
(* Merger::Parse: the log is accepted if the inputs were started in order and *)
(* a result follows the start it belongs to.  FT stands for an FT line and    *)
(* the COV line after it, BAD for a line whose marker or number is cut.       *)
ParseLine(p, line) ==
  CASE line.marker = "STARTED" ->
         [p EXCEPT !.ok = @ /\ line.n = p.expected, !.expected = @ + 1, !.last = line.n,
                   !.size = IF line.n \in DOMAIN @ THEN [@ EXCEPT ![line.n] = line.size] ELSE @]
    [] line.marker = "FT" ->
         [p EXCEPT !.ok = @ /\ line.n = p.last, !.last = 0,
                   !.features = IF line.n \in DOMAIN @ THEN [@ EXCEPT ![line.n] = line.features] ELSE @]
    [] line.marker = "BAD" -> [p EXCEPT !.ok = FALSE]

Parse(cf) ==
  LET p == FoldLeft(ParseLine,
             [ok |-> Len(cf.names) > 0 /\ cf.first <= Len(cf.names), expected |-> 1, last |-> 0,
              size |-> [i \in DOMAIN cf.names |-> 0], features |-> [i \in DOMAIN cf.names |-> {}]], cf.log)
  IN  [ok |-> p.ok, next |-> p.expected,
       files |-> [i \in DOMAIN cf.names |->
                    [name |-> cf.names[i], size |-> p.size[i], features |-> p.features[i]]]]

BySize(names) == SetToSortSeq(names, LAMBDA a, b : Sizes[a.c] < Sizes[b.c])

WriteNewControlFile(known) ==
  LET skip == {known[i].name : i \in DOMAIN known}
      fromOld == BySize(old \ skip)
  IN  [NoControl EXCEPT !.names = fromOld \o BySize(new \ skip), !.first = Len(fromOld)]

-----------------------------------------------------------------------------
(* Merger::Merge: without what the first corpus has, the smaller inputs first *)
(* and of those of one size the ones with more features.                      *)
MergePass(files, first) ==
  LET initial == UNION {files[i].features : i \in 1 .. first}
      rest(i) == files[i].features \ initial
      sz(i) == files[i].size
      order == SetToSortSeq(first + 1 .. Len(files),
                 LAMBDA i, j : sz(i) < sz(j) \/ (sz(i) = sz(j) /\ Cardinality(rest(i)) > Cardinality(rest(j))))
      Take(acc, i) == IF rest(i) \subseteq acc.all THEN acc
                      ELSE [all |-> acc.all \cup rest(i), files |-> Append(acc.files, files[i].name)]
  IN  FoldLeft(Take, [all |-> {}, files |-> << >>], order).files

(* Merger::SetCoverMerge: again and again the input with the most features    *)
(* that are not covered, the smallest of those.                               *)
Unique(files, i, covered) == Cardinality(files[i].features \ covered)

CoverNext(files, remaining, covered) ==
  LET useful == {i \in remaining : Unique(files, i, covered) > 0}
      best == {i \in useful : \A j \in useful : Unique(files, i, covered) >= Unique(files, j, covered)}
  IN  {i \in best : \A j \in best : files[i].size <= files[j].size}

RECURSIVE Cover(_, _, _)
Cover(files, remaining, covered) ==
  LET next == CoverNext(files, remaining, covered)
      pick == Min(next)
  IN  IF next = {} THEN << >>
      ELSE <<files[pick].name>> \o Cover(files, remaining \ {pick}, covered \cup files[pick].features)

SetCoverPass(files, first) ==
  Cover(files, first + 1 .. Len(files), UNION {files[i].features : i \in 1 .. first})

NewFiles(files, first) ==
  IF SetCover THEN SetCoverPass(files, first) ELSE MergePass(files, first)

-----------------------------------------------------------------------------
End(how) ==
  /\ outer' = OuterOff /\ inner' = InnerOff
  /\ outcome' = how

(* CrashResistantMerge up to the loop of attempts                             *)
Start ==
  LET p == Parse(control)
      complete == p.ok /\ p.next > Len(control.names)
      Fresh(known) ==
        /\ control' = WriteNewControlFile(known)
        /\ outer' = [OuterOff EXCEPT !.pc = "attempt", !.left = Len(control'.names), !.known = known]
        /\ cut' = IF known # << >> /\ cut = "number" THEN cut ELSE "no"
  IN  /\ outer.pc = "off" /\ old \cup new # {}
      /\ May("merges", MaxMerges)
      /\ asked' = FALSE /\ wasted' = 0
      /\ \/ /\ complete /\ Len(control.names) = Cardinality(old) + Cardinality(new)
            /\ End("nothing") /\ UNCHANGED <<control, cut>>
         \/ /\ complete /\ Len(control.names) # Cardinality(old) + Cardinality(new)
            /\ Fresh(p.files) /\ outcome' = "none" /\ UNCHANGED inner
         \/ /\ p.ok /\ ~complete
            /\ outer' = [OuterOff EXCEPT !.pc = "attempt", !.left = Len(control.names) - p.next + 1]
            /\ outcome' = "none" /\ UNCHANGED <<control, cut, inner>>
         \/ /\ ~p.ok /\ Fresh(<< >>) /\ outcome' = "none" /\ UNCHANGED inner
      /\ UNCHANGED <<feat, old, new, unlucky>>

(* An attempt: the inner process parses the control file, or exits.           *)
AttemptWhile(more) ==
  /\ outer.pc = "attempt"
  /\ \/ /\ more /\ Parse(control).ok
        /\ outer' = [outer EXCEPT !.pc = "wait", !.left = @ - 1]
        /\ inner' = [InnerOff EXCEPT !.pc = "loop", !.i = Parse(control).next]
        /\ UNCHANGED wasted
     \/ /\ more /\ ~Parse(control).ok
        /\ outer' = [outer EXCEPT !.left = @ - 1] /\ wasted' = wasted + 1 /\ UNCHANGED inner
     \/ /\ ~more
        /\ outer' = [outer EXCEPT !.pc = "merge"] /\ UNCHANGED <<wasted, inner>>
  /\ UNCHANGED <<feat, old, new, control, unlucky, asked, cut, outcome, faults>>

\* Mutant: one attempt less.
AttemptOneLess == AttemptWhile(outer.left > 1)

Attempt == AttemptWhile(outer.left > 0)

(* CrashResistantMergeInternalStep.  A line written after one that lacks its  *)
(* newline is lost: it becomes the end of that line, where no reader finds it.*)
Log(line) ==
  control' = [control EXCEPT !.log = IF control.open THEN @ ELSE Append(@, line), !.open = FALSE]

Listed == control.names[inner.i]

InnerStarted ==
  /\ inner.pc = "loop" /\ inner.i <= Len(control.names) /\ Listed \in old \cup new
  /\ Log([marker |-> "STARTED", n |-> inner.i, size |-> Min({Sizes[Listed.c], MaxInputLen})])
  /\ inner' = [inner EXCEPT !.pc = "run", !.ran = 1]
  /\ UNCHANGED <<feat, old, new, outer, unlucky, asked, wasted, cut, outcome, faults>>

(* The inner process is gone and the outer one makes another attempt.         *)
AnotherAttempt ==
  /\ inner' = InnerOff /\ outer' = [outer EXCEPT !.pc = "attempt"]
  /\ wasted' = wasted + 1 - inner.ran

(* FileToVector exits if the input is gone, before STARTED is written.        *)
InnerMissing ==
  /\ inner.pc = "loop" /\ inner.i <= Len(control.names) /\ Listed \notin old \cup new
  /\ AnotherAttempt
  /\ UNCHANGED <<feat, old, new, control, unlucky, asked, cut, outcome, faults>>

\* Mutant: features of inputs that other processes ran are left out too.
ReportedAcross(f) ==
  f \ (inner.all \cup UNION {feat[control.names[i].c] : i \in 1 .. inner.i - 1})

(* Features are written once per inner process, or all of them for SetCover.  *)
Reported(f) == IF SetCover THEN f ELSE f \ inner.all

InnerFinished ==
  LET f == feat[Listed.c]
  IN  /\ inner.pc = "run"
      /\ Log([marker |-> "FT", n |-> inner.i, features |-> Reported(f)])
      /\ inner' = [inner EXCEPT !.pc = "loop", !.i = @ + 1, !.all = @ \cup f]
      /\ UNCHANGED <<feat, old, new, outer, unlucky, asked, wasted, cut, outcome, faults>>

(* An input that was started and has no result is skipped from now on.        *)
LeaveUnlucky ==
  unlucky' = IF inner.pc = "run" THEN unlucky \cup {Listed} ELSE unlucky

(* In the input, between two inputs or before the first                       *)
InnerCrashes ==
  /\ inner.pc \in {"loop", "run"}
  /\ May("crashes", MaxCrashes)
  /\ AnotherAttempt /\ LeaveUnlucky
  /\ UNCHANGED <<feat, old, new, control, asked, cut, outcome>>

(* A long result is written in pieces, the features in ascending order.  What *)
(* is left when the process dies in between: the features before some number; *)
(* with a part of that number's digits, which reads as a smaller number; or   *)
(* all features and the first letter of the COV line.                         *)
CutShort(marker, features) ==
  control' = [control EXCEPT !.log = Append(@, [marker |-> marker, n |-> inner.i, features |-> features]),
                             !.open = TRUE]

InnerCut ==
  LET f == Reported(feat[Listed.c])
      before(k) == {x \in f : x < k}
  IN  /\ inner.pc = "run"
      /\ May("cuts", MaxCuts)
      /\ \/ \E k \in f : CutShort("FT", before(k)) /\ cut' = "line"
         \/ \E k \in f, x \in Features :
              x < k /\ CutShort("FT", before(k) \cup {x}) /\ cut' = "number"
         \/ CutShort("FT", f) /\ cut' = "line"
         \/ CutShort("BAD", f) /\ cut' = "line"
      /\ LeaveUnlucky
      /\ \/ AnotherAttempt /\ UNCHANGED outcome
         \/ End("killed") /\ UNCHANGED wasted
      /\ UNCHANGED <<feat, old, new, asked>>

(* Exit code 0: all is done, or MaybeExitGracefully after SIGUSR1             *)
InnerExits ==
  /\ inner.pc = "loop"
  /\ \/ inner.i > Len(control.names) /\ UNCHANGED <<asked, faults>>
     \/ May("requests", MaxRequests) /\ asked' = TRUE
  /\ inner' = InnerOff /\ outer' = [outer EXCEPT !.pc = "merge"]
  /\ UNCHANGED <<feat, old, new, control, unlucky, wasted, cut, outcome>>

(* The merge itself, from the control file and what an earlier one knew       *)
DoMerge ==
  LET p == Parse(control)
  IN  /\ outer.pc = "merge"
      /\ \/ /\ ~p.ok /\ End("failed")
         \/ /\ p.ok
            /\ outer' = [outer EXCEPT !.pc = "copy",
                           !.todo = NewFiles(p.files \o outer.known, control.first)]
            /\ UNCHANGED <<inner, outcome>>
      /\ UNCHANGED <<feat, old, new, control, unlucky, asked, wasted, cut, faults>>

(* Merge of FuzzerDriver.cpp: FileToVector exits if an input is gone.         *)
CopyOne ==
  /\ outer.pc = "copy"
  /\ \/ /\ outer.todo = << >> /\ End("merged") /\ UNCHANGED old
     \/ /\ outer.todo # << >> /\ Head(outer.todo) \in old \cup new
        /\ old' = old \cup {Copy(Head(outer.todo))}
        /\ outer' = [outer EXCEPT !.todo = Tail(@)] /\ UNCHANGED <<inner, outcome>>
     \/ /\ outer.todo # << >> /\ Head(outer.todo) \notin old \cup new
        /\ End("failed") /\ UNCHANGED old
  /\ UNCHANGED <<feat, new, control, unlucky, asked, wasted, cut, faults>>

-----------------------------------------------------------------------------
(* The surroundings: the whole merge is killed; the user adds an input        *)
(* between merges, or removes one at any time.                                *)
Kill ==
  /\ outer.pc # "off"
  /\ May("kills", MaxKills)
  /\ End("killed") /\ LeaveUnlucky
  /\ UNCHANGED <<feat, old, new, control, asked, wasted, cut>>

AddInput ==
  /\ outer.pc = "off"
  /\ \E c \in Later :
       Original(c) \notin new /\ new' = new \cup {Original(c)}
  /\ UNCHANGED <<feat, old, control, outer, inner, unlucky, asked, wasted, cut, outcome, faults>>

RemoveInput ==
  /\ May("removed", MaxRemoved)
  /\ \E n \in new : new' = new \ {n}
  /\ UNCHANGED <<feat, old, control, outer, inner, unlucky, asked, wasted, cut, outcome>>

Next ==
  \/ Start \/ Attempt \/ InnerStarted \/ InnerMissing \/ InnerFinished
  \/ InnerCrashes \/ InnerCut \/ InnerExits \/ DoMerge \/ CopyOne \/ Kill \/ AddInput \/ RemoveInput

Spec == Init /\ [][Next]_vars

-----------------------------------------------------------------------------
(* An input is left out of a merge that nobody asked to stop only for an       *)
(* attempt that was wasted: when the merge is computed, the inputs of the      *)
(* control file that were never started are no more than the attempts that     *)
(* ended before they started one.  "Every inner process should execute at      *)
(* least one input", and then all are started, whatever crashed and whichever  *)
(* merge was killed and resumed; but a process exits or dies before its first  *)
(* input when that input is gone or the target fails to initialise.  And Parse *)
(* accepts every control file, wherever the processes died, if none died while *)
(* it wrote a result: STARTED comes before an input runs, FT after it.         *)
Unstarted == Len(control.names) + 1 - Parse(control).next

ControlFileComplete ==
  cut = "no" =>
    /\ Len(control.names) > 0 => Parse(control).ok
    /\ outer.pc \in {"merge", "copy"} /\ ~asked => Unstarted <= wasted

(* What a merge can know of: the inputs that were started, by this one or an   *)
(* earlier one on the same control file, and ran to their end.                 *)
Lucky(names) == names \ unlucky
Started == {control.names[i] : i \in 1 .. Parse(control).next - 1}
Considered == Started \cup {outer.known[i].name : i \in DOMAIN outer.known}

(* A merge that gets to its end leaves a first corpus with every feature of    *)
(* every input that was started and ran to its end, however the inner          *)
(* processes died, whatever was removed and whatever an earlier control file   *)
(* contributed; unless a process died in the middle of a number, which then    *)
(* reads as another feature.  Nothing is said of a merge that fails, is killed *)
(* or finds that there is "nothing to do".                                     *)
CoverageKept ==
  outer.pc = "copy" /\ outer.todo = << >> =>
    \A n \in Lucky(Considered) : feat[n.c] \subseteq FeatOf(old)

(* "only inputs with new coverage are added": each input that is copied has a  *)
(* feature that neither the first corpus, as the control file lists it, nor    *)
(* an input copied before it has.  Not so if an older control file             *)
(* contributes: what it knew of the first corpus counts as new then.           *)
FirstCorpus == {control.names[i] : i \in 1 .. control.first} \cap Started

OnlyUsefulAdded ==
  outer.pc = "copy" /\ outer.known = << >> =>
    \A k \in DOMAIN outer.todo :
      ~ (feat[outer.todo[k].c] \subseteq
           FeatOf(Lucky(FirstCorpus)) \cup FeatOf({outer.todo[j] : j \in 1 .. k - 1}))

(* A merge keeps the coverage, and adds nothing that is of no use to it.       *)
MergeSound == cut # "number" => CoverageKept /\ OnlyUsefulAdded
=============================================================================

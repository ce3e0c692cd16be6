------------------------------ MODULE Pipeline ------------------------------
(***************************************************************************)
(* The build and proof-statement pipeline of scripts/common.sh, and the    *)
(* scripts under scripts/ that run its functions with `set -e`.            *)
(*                                                                         *)
(* A function of common.sh is the sequence of the commands it runs.  A     *)
(* command is a tool that turns files and sources into a file, a test      *)
(* `[ -f x ]` that skips commands, or an rm.  What a file holds is the set *)
(* of the source versions it was made from, as pairs <<source, version>>.  *)
(* The tools (make, ninja, stack, cargo, the examples' build scripts) and  *)
(* the user who edits sources and starts scripts are external.  Tools are  *)
(* taken to rebuild correctly, and to leave their output alone if they     *)
(* fail.                                                                   *)
(***************************************************************************)
EXTENDS Naturals, Sequences, FiniteSets

CONSTANTS
  Shells,     \* the terminals there are
  Plans,      \* what the users may be up to, see PlanType
  TeeFails    \* may a tool whose output goes to tee fail?

Examples == {"grit", "ffmpeg", "openssl"}

\* "flags" stands for the options that the configure steps are given.
Sources == Examples \cup {"flags", "passes", "picolibc", "rt", "microram", "checker", "driver"}

Link == [grit |-> "grit.ll", ffmpeg |-> "ffmpeg.ll", openssl |-> "openssl.ll"]

Cbor == [grit |-> "grit.cbor", ffmpeg |-> "ffmpeg.cbor", openssl |-> "openssl.cbor"]

Sieve == [grit |-> "grit.sieve", ffmpeg |-> "ffmpeg.sieve", openssl |-> "openssl.sieve"]

AllStarts == {"absolute", "root", "scripts"}

-----------------------------------------------------------------------------
(* Commands.                                                                *)

\* A tool makes out from needs and uses.  With `| tee` its own exit status is
\* lost; at says from where the log file that tee writes can be found.
Tool(out, needs, uses) ==
  [kind |-> "tool", out |-> out, needs |-> needs, uses |-> uses,
   tee |-> FALSE, at |-> AllStarts, args |-> {}, skip |-> 0, rm |-> {}]

Teed(cmd, at) == [cmd EXCEPT !.tee = TRUE, !.at = at]

\* [ -f file ] skips the next n commands.
Unless(file, n) ==
  [kind |-> "test", out |-> file, needs |-> {}, uses |-> {},
   tee |-> FALSE, at |-> AllStarts, args |-> {}, skip |-> n, rm |-> {}]

Rm(files) ==
  [kind |-> "rm", out |-> "", needs |-> {}, uses |-> {},
   tee |-> FALSE, at |-> AllStarts, args |-> {}, skip |-> 0, rm |-> files]

-----------------------------------------------------------------------------
(* The functions of common.sh.                                              *)

build_llvm_passes == <<Tool("passes.so", {}, {"passes"})>>

clean_llvm_passes == <<Rm({"passes.so"})>>

build_picolibc ==
  <<Unless("picolibc/build.ninja", 1),
    Tool("picolibc/build.ninja", {}, {"flags"}),
    Tool("libc.a", {"picolibc/build.ninja"}, {"picolibc"})>>

clean_picolibc == <<Rm({"picolibc/build.ninja", "libc.a"})>>

\* Mutant: the test on build.ninja also guards the build.
build_compiler_rtOnce ==
  <<Unless("rt/build.ninja", 2),
    Tool("rt/build.ninja", {}, {"flags"}),
    Tool("rt/lib", {"rt/build.ninja"}, {"rt"}),
    Tool("builtins.a", {"rt/lib"}, {})>>

build_compiler_rt ==
  <<Unless("rt/build.ninja", 1),
    Tool("rt/build.ninja", {}, {"flags"}),
    Tool("rt/lib", {"rt/build.ninja"}, {"rt"}),
    Tool("builtins.a", {"rt/lib"}, {})>>

\* Mutant: the libraries are removed and build.ninja is left.
clean_compiler_rtLibs == <<Rm({"rt/lib", "builtins.a"})>>

clean_compiler_rt == <<Rm({"rt/build.ninja", "rt/lib", "builtins.a"})>>

build_microram == <<Tool("microram", {}, {"microram"})>>

clean_microram == <<Rm({"microram"})>>

build_witness_checker == <<Tool("checker", {}, {"checker"})>>

clean_witness_checker == <<Rm({"checker"})>>

Runtime == build_llvm_passes \o build_picolibc \o build_compiler_rt

RuntimeFiles == {"passes.so", "libc.a", "builtins.a"}

build_grit == Runtime \o <<Tool("grit.ll", RuntimeFiles, {"grit"})>>

clean_grit == <<Rm({"grit.ll"})>>

build_ffmpeg ==
  Runtime \o
  <<Unless("ffmpeg/config.h", 1),
    Tool("ffmpeg/config.h", {}, {"flags"}),
    Tool("ffmpeg.ll", RuntimeFiles \cup {"ffmpeg/config.h"}, {"ffmpeg"})>>

\* make clean, which leaves config.h, and then the rm
clean_ffmpeg == <<Rm({}), Rm({"ffmpeg.ll"})>>

build_openssl ==
  Runtime \o
  <<Unless("libssl.a", 4),
    Tool("openssl/Makefile", {}, {"flags"}),
    Tool("openssl/depend", {"openssl/Makefile"}, {"openssl"}),
    Tool("libcrypto.a", {"openssl/depend"}, {"openssl"}),
    Tool("libssl.a", {"libcrypto.a"}, {"openssl"}),
    Unless("openssl.ll", 1),
    Tool("openssl.ll", RuntimeFiles \cup {"libssl.a", "libcrypto.a"}, {"driver"})>>

\* MicroRAM's compile; `stack run` builds it first if its source has changed.
compile(e, args, at) ==
  [Teed(Tool(Cbor[e], {Link[e]}, {"microram"}), at) EXCEPT !.args = {<<"args", args>>}]

\* The circuit generator of witness-checker.
cheesecloth(e) == Teed(Tool(Sieve[e], {"checker", Cbor[e]}, {}), {"absolute", "root"})

\* $cc_dir is relative to where the script was started.  ../out is found from
\* MicroRAM always, $cc_dir/out only if $cc_dir is absolute; after
\* `cd "$cc_dir"` it is also found if that is the directory we started in.
run_grit(args) ==
  build_grit \o build_microram \o build_witness_checker \o
  <<compile("grit", args, AllStarts), cheesecloth("grit")>>

run_ffmpeg(args) ==
  build_ffmpeg \o build_microram \o build_witness_checker \o
  <<compile("ffmpeg", args, AllStarts), cheesecloth("ffmpeg")>>

run_openssl(args) ==
  build_openssl \o build_microram \o build_witness_checker \o
  <<compile("openssl", args, {"absolute"}), cheesecloth("openssl")>>

clean ==
  clean_llvm_passes \o clean_picolibc \o clean_compiler_rt \o clean_microram \o
  clean_witness_checker \o clean_grit \o clean_ffmpeg

\* A script: its name, the example it makes a statement for, if any, and its
\* variant: 0 is the baseline, 1 is without sparsity, 2 without public pc.
Script(name, of, args) == [name |-> name, of |-> of, args |-> args]

AllScripts ==
  {Script("run", e, a) : e \in Examples, a \in 0 .. 2}
  \cup {Script("build", c, 0) : c \in Examples \cup
          {"llvm_passes", "picolibc", "compiler_rt", "microram", "witness_checker"}}
  \cup {Script("clean", "all", 0)}

Body ==
  [s \in AllScripts |->
     CASE s.name = "clean" -> clean
       [] s.name = "run" /\ s.of = "grit" -> run_grit(s.args)
       [] s.name = "run" /\ s.of = "ffmpeg" -> run_ffmpeg(s.args)
       [] s.name = "run" /\ s.of = "openssl" -> run_openssl(s.args)
       [] s.name = "build" ->
            [grit |-> build_grit, ffmpeg |-> build_ffmpeg, openssl |-> build_openssl,
             llvm_passes |-> build_llvm_passes, picolibc |-> build_picolibc,
             compiler_rt |-> build_compiler_rt, microram |-> build_microram,
             witness_checker |-> build_witness_checker][s.of]]

\* The terminals that are used, the scripts that are run in them and how these
\* are named (by absolute path, from the root, from scripts/); the most edits
\* of sources, and the most failures of tools and interruptions of scripts.
PlanType ==
  [shells : SUBSET Shells, scripts : SUBSET AllScripts, starts : SUBSET AllStarts,
   edits : Nat, fails : Nat]

ASSUME PipelineConstants == Plans \subseteq PlanType /\ TeeFails \in BOOLEAN

-----------------------------------------------------------------------------
VARIABLES
  plan,    \* the plan that is followed
  src,     \* src[s]: the version of source s in the tree
  have,    \* the files there are
  from,    \* from[f]: the source versions the file f was made from
  sh,      \* sh[p]: the script a shell runs or ran last, its pc and status
  edits,   \* edits made
  fails,   \* failures and interruptions so far
  \* history
  began,   \* began[p]: src when the script was started
  broke,   \* broke[p]: has a tool failed, or was the script interrupted?
  got,     \* got[p]: what the circuit was made from when a run script ended well
  wiped    \* the version of flags when the last `clean` that ended well began

envVars == <<src, edits>>
vars == <<plan, src, have, from, sh, edits, fails, began, broke, got, wiped>>

Files ==
  RuntimeFiles \cup {Link[e] : e \in Examples} \cup {Cbor[e] : e \in Examples}
  \cup {Sieve[e] : e \in Examples}
  \cup {"picolibc/build.ninja", "rt/build.ninja", "rt/lib", "microram", "checker",
        "ffmpeg/config.h", "openssl/Makefile", "openssl/depend", "libcrypto.a", "libssl.a"}

Idle == [script |-> Script("none", "none", 0), start |-> "root", pc |-> 0, status |-> "ok"]

Init ==
  /\ plan \in Plans
  /\ src = [s \in Sources |-> 0]
  /\ have = {}
  /\ from = [f \in Files |-> {}]
  /\ sh = [p \in Shells |-> Idle]
  /\ edits = 0
  /\ fails = 0
  /\ began = [p \in Shells |-> src]
  /\ broke = [p \in Shells |-> FALSE]
  /\ got = [p \in Shells |-> {}]
  /\ wiped = 0

Edit(s) ==
  /\ edits < plan.edits
  /\ edits' = edits + 1
  /\ src' = [src EXCEPT ![s] = @ + 1]
  /\ UNCHANGED <<have, from, sh, fails, began, broke, got, wiped>>

Start(p, s, at) ==
  /\ sh[p].status # "running"
  /\ sh' = [sh EXCEPT ![p] = [script |-> s, start |-> at, pc |-> 1, status |-> "running"]]
  /\ began' = [began EXCEPT ![p] = src]
  /\ broke' = [broke EXCEPT ![p] = FALSE]
  /\ got' = [got EXCEPT ![p] = {}]
  /\ UNCHANGED <<envVars, have, from, fails, wiped>>

-----------------------------------------------------------------------------
Running(p) == sh[p].status = "running"

Cmd(p) == Body[sh[p].script][sh[p].pc]

\* Go on behind n more commands; behind the last one the script exits with 0.
Advance(p, n) ==
  LET s == sh[p].script
      pc == sh[p].pc + 1 + n
      over == pc > Len(Body[s])
  IN /\ sh' = [sh EXCEPT ![p].pc = pc, ![p].status = IF over THEN "ok" ELSE "running"]
     /\ got' = IF over /\ s.name = "run" /\ Sieve[s.of] \in have'
               THEN [got EXCEPT ![p] = from'[Sieve[s.of]]] ELSE got
     /\ wiped' = IF over /\ s.name = "clean" THEN began[p]["flags"] ELSE wiped

\* set -e: the script exits with the status of the command.
Abort(p) ==
  /\ sh' = [sh EXCEPT ![p].status = "failed"]
  /\ UNCHANGED <<got, wiped>>

Test(p) ==
  /\ Running(p)
  /\ Cmd(p).kind = "test"
  /\ UNCHANGED <<have, from>>
  /\ Advance(p, IF Cmd(p).out \in have THEN Cmd(p).skip ELSE 0)
  /\ UNCHANGED <<envVars, fails, began, broke>>

Remove(p) ==
  /\ Running(p)
  /\ Cmd(p).kind = "rm"
  /\ have' = have \ Cmd(p).rm
  /\ UNCHANGED from
  /\ Advance(p, 0)
  /\ UNCHANGED <<envVars, fails, began, broke>>

CanSucceed(p) == Cmd(p).needs \subseteq have /\ sh[p].start \in Cmd(p).at

Make(p) ==
  LET c == Cmd(p) IN
  /\ Running(p)
  /\ c.kind = "tool"
  /\ CanSucceed(p)
  /\ have' = have \cup {c.out}
  /\ from' = [from EXCEPT ![c.out] =
                (UNION {from[f] : f \in c.needs}) \cup {<<s, src[s]>> : s \in c.uses} \cup c.args]
  /\ Advance(p, 0)
  /\ UNCHANGED <<envVars, fails, began, broke>>

\* Mutant: without set -e.
AfterFailureOn(p) == Advance(p, 0)

\* The status of a pipeline is that of tee, which fails if it cannot open the
\* log.
AfterFailure(p) ==
  IF Cmd(p).tee /\ sh[p].start \in Cmd(p).at THEN Advance(p, 0) ELSE Abort(p)

\* A tool lacks an input, or the log cannot be written.
CannotMake(p) ==
  /\ Running(p)
  /\ Cmd(p).kind = "tool"
  /\ ~CanSucceed(p)
  /\ UNCHANGED <<have, from>>
  /\ AfterFailure(p)
  /\ UNCHANGED <<envVars, fails, began, broke>>

\* A tool fails for a reason of its own: a compile error, memory, disk.
ToolFails(p) ==
  /\ Running(p)
  /\ Cmd(p).kind # "test"
  /\ CanSucceed(p)
  /\ Cmd(p).tee => TeeFails
  /\ fails < plan.fails
  /\ fails' = fails + 1
  /\ broke' = [broke EXCEPT ![p] = TRUE]
  /\ UNCHANGED <<have, from>>
  /\ AfterFailure(p)
  /\ UNCHANGED <<envVars, began>>

\* The user interrupts the script, with all its tools.
Interrupt(p) ==
  /\ Running(p)
  /\ fails < plan.fails
  /\ fails' = fails + 1
  /\ broke' = [broke EXCEPT ![p] = TRUE]
  /\ Abort(p)
  /\ UNCHANGED <<envVars, have, from, began>>

shell(p) ==
  \/ Test(p) \/ Remove(p) \/ Make(p) \/ CannotMake(p) \/ ToolFails(p) \/ Interrupt(p)

Next ==
  /\ UNCHANGED plan
  /\ \/ \E s \in Sources : Edit(s)
     \/ \E p \in plan.shells, s \in plan.scripts, at \in plan.starts : Start(p, s, at)
     \/ \E p \in plan.shells : shell(p)

Spec == Init /\ [][Next]_vars

-----------------------------------------------------------------------------
(* Properties.                                                              *)

\* The sources a statement about example e is made from.
StatementSources(e) ==
  {"passes", "picolibc", "rt", "microram", "checker"} \cup
  (IF e = "openssl" THEN {"openssl", "driver"} ELSE {e})

\* The sources whose edits reach the statement.  openssl's driver-link.ll is
\* linked once and kept, so only the tools behind it follow their sources.
Tracked(e) ==
  IF e = "openssl" THEN {"microram", "checker"} ELSE StatementSources(e)

Succeeded(p) == sh[p].status = "ok" /\ sh[p].script.name = "run"

\* When a run_ script exits with status 0, the circuit it leaves was made by
\* this run's variant, from all its sources, none older than when the script
\* began: whatever failed, was interrupted or was edited before.
SuccessIsFresh ==
  \A p \in Shells :
    Succeeded(p) =>
      LET e == sh[p].script.of IN
      /\ {x[1] : x \in got[p]} = StatementSources(e) \cup {"flags", "args"}
      /\ \A x \in got[p] : x[1] \in Tracked(e) => x[2] >= began[p][x[1]]
      /\ \A x \in got[p] : x[1] = "args" => x[2] = sh[p].script.args

\* A failure or interruption never wedges the tree: a script fails only if one
\* of its own tools does, it is interrupted itself, or the log of tee cannot be
\* found from where it was started, never because of what an earlier script left
\* behind (half a configuration behind a `[ -f ]` test).
NoWedge ==
  \A p \in Shells : sh[p].status = "failed" => broke[p] \/ sh[p].start \notin Cmd(p).at

\* `clean` makes run_grit configure again: its circuit is made with the
\* configure options in force when the last completed `clean` began, or newer.
CleanReconfigures ==
  \A p \in Shells :
    Succeeded(p) /\ sh[p].script.of = "grit" =>
      \A x \in got[p] : x[1] = "flags" => x[2] >= wiped
=============================================================================

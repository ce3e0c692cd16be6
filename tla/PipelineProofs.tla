--------------------------- MODULE PipelineProofs ---------------------------
(***************************************************************************)
(* Proofs about Pipeline, for every plan in which the shells do not get in *)
(* each other's way and every number of edits, failures and interruptions: *)
(* a statement is fresh, no script fails because of what another one left, *)
(* and clean makes run_grit configure again.                               *)
(***************************************************************************)
EXTENDS Pipeline, TLAPS

\* What a command of common.sh may be.
Names == Sources \cup {"args"}
Cmds ==
  [kind : {"tool", "test", "rm"}, out : Files \cup {""}, needs : SUBSET Files,
   uses : SUBSET Sources, tee : BOOLEAN, at : SUBSET AllStarts,
   args : SUBSET ({"args"} \X (0 .. 2)), skip : Nat, rm : SUBSET Files]

\* The files that the tool for a file reads; every script has the same.
Needs(f) ==
  CASE f = "libc.a" -> {"picolibc/build.ninja"}
    [] f = "rt/lib" -> {"rt/build.ninja"}
    [] f = "builtins.a" -> {"rt/lib"}
    [] f = "grit.ll" -> RuntimeFiles
    [] f = "ffmpeg.ll" -> RuntimeFiles \cup {"ffmpeg/config.h"}
    [] f = "openssl/depend" -> {"openssl/Makefile"}
    [] f = "libcrypto.a" -> {"openssl/depend"}
    [] f = "libssl.a" -> {"libcrypto.a"}
    [] f = "openssl.ll" -> RuntimeFiles \cup {"libssl.a", "libcrypto.a"}
    [] f = "grit.cbor" -> {"grit.ll"}
    [] f = "ffmpeg.cbor" -> {"ffmpeg.ll"}
    [] f = "openssl.cbor" -> {"openssl.ll"}
    [] f = "grit.sieve" -> {"checker", "grit.cbor"}
    [] f = "ffmpeg.sieve" -> {"checker", "ffmpeg.cbor"}
    [] f = "openssl.sieve" -> {"checker", "openssl.cbor"}
    [] OTHER -> {}

\* The names of the sources that a file is made from.
LinkParts(e) ==
  {"passes", "picolibc", "rt", "flags"} \cup (IF e = "openssl" THEN {"openssl", "driver"} ELSE {e})

Parts(f) ==
  CASE f = "passes.so" -> {"passes"}
    [] f \in {"picolibc/build.ninja", "rt/build.ninja", "ffmpeg/config.h", "openssl/Makefile"} -> {"flags"}
    [] f = "libc.a" -> {"flags", "picolibc"}
    [] f \in {"rt/lib", "builtins.a"} -> {"flags", "rt"}
    [] f = "microram" -> {"microram"}
    [] f = "checker" -> {"checker"}
    [] f \in {"openssl/depend", "libcrypto.a", "libssl.a"} -> {"flags", "openssl"}
    [] f = "grit.ll" -> LinkParts("grit")
    [] f = "ffmpeg.ll" -> LinkParts("ffmpeg")
    [] f = "openssl.ll" -> LinkParts("openssl")
    [] f = "grit.cbor" -> LinkParts("grit") \cup {"microram", "args"}
    [] f = "ffmpeg.cbor" -> LinkParts("ffmpeg") \cup {"microram", "args"}
    [] f = "openssl.cbor" -> LinkParts("openssl") \cup {"microram", "args"}
    [] f = "grit.sieve" -> LinkParts("grit") \cup {"microram", "args", "checker"}
    [] f = "ffmpeg.sieve" -> LinkParts("ffmpeg") \cup {"microram", "args", "checker"}
    [] f = "openssl.sieve" -> LinkParts("openssl") \cup {"microram", "args", "checker"}

\* Those among them that follow their source in every run of a script.
Track(f) ==
  CASE f \in {"openssl/depend", "libcrypto.a", "libssl.a", "openssl.ll"} -> {}
    [] f = "openssl.cbor" -> {"microram"}
    [] f = "openssl.sieve" -> {"microram", "checker"}
    [] OTHER -> Parts(f) \ {"flags", "args"}

\* What a test `[ -f x ]` in common.sh stands before.
Kept == {"openssl/Makefile", "openssl/depend", "libcrypto.a", "libssl.a"}
Guards == {"picolibc/build.ninja", "rt/build.ninja", "ffmpeg/config.h", "libssl.a", "openssl.ll"}
Behind(f) == IF f = "libssl.a" THEN Kept ELSE {f}

\* What `clean` removes of the files that run_grit needs.
CleanFiles ==
  {"passes.so", "picolibc/build.ninja", "libc.a", "rt/build.ninja", "rt/lib", "builtins.a", "grit.ll"}

IsGrit(s) == s.name = "run" /\ s.of = "grit"
CleanScript == Script("clean", "all", 0)

ToolOK(c, s) ==
  /\ c.out \in Files /\ c.needs = Needs(c.out)
  /\ c.uses \subseteq Parts(c.out) /\ \A f \in c.needs : Parts(f) \subseteq Parts(c.out)
  /\ c.args = IF "args" \in Parts(c.out) /\ c.out = Cbor[s.of] THEN {<<"args", s.args>>} ELSE {}
  /\ \A n \in Parts(c.out) : n \in c.uses \/ (n = "args" /\ c.args # {}) \/ \E f \in c.needs : n \in Parts(f)
  /\ \A e \in Examples : c.out \in {Cbor[e], Sieve[e]} => s.name = "run" /\ s.of = e

TestOK(c, s) == c.out \in Guards /\ (IsGrit(s) => c.out \in CleanFiles)

\* The commands of a script other than clean.
Good(s) ==
  {c \in Cmds : \/ c.kind = "tool" /\ ToolOK(c, s)
                \/ c.kind = "test" /\ TestOK(c, s)}

\* A stretch of such commands: a tool's files are there before it (in A) or made
\* by an earlier command, and a test skips only what it tests for.
Segment(b, A, s) ==
  /\ b \in Seq(Good(s))
  /\ \A i \in 1 .. Len(b) : b[i].kind = "tool" =>
       \A f \in b[i].needs : f \in A \/ \E j \in 1 .. i - 1 : b[j].kind = "tool" /\ b[j].out = f
  /\ \A i \in 1 .. Len(b) : b[i].kind = "test" =>
       /\ i + b[i].skip <= Len(b)
       /\ \A j \in i + 1 .. i + b[i].skip : b[j].kind = "tool" /\ b[j].out \in Behind(b[i].out)

Outs(b) == {b[j].out : j \in {i \in 1 .. Len(b) : b[i].kind = "tool"}}

-----------------------------------------------------------------------------
(* The inductive invariant.                                                 *)

\* Shells do not get in each other's way: there is one, or nothing is removed
\* and no two variants of one statement are made.
Undisturbed(pl) ==
  \/ \E p \in Shells : pl.shells \subseteq {p}
  \/ /\ CleanScript \notin pl.scripts
     /\ \A s, u \in pl.scripts : s.name = "run" /\ u.name = "run" /\ s.of = u.of => s.args = u.args

Scripts == AllScripts \cup {Idle.script}

PipelineTypeOK ==
  /\ plan \in Plans /\ Undisturbed(plan)
  /\ src \in [Sources -> Nat] /\ have \subseteq Files
  /\ from \in [Files -> SUBSET (Names \X Nat)]
  /\ sh \in [Shells -> [script : Scripts, start : AllStarts, pc : Nat,
                        status : {"ok", "failed", "running"}]]
  /\ began \in [Shells -> [Sources -> Nat]] /\ wiped \in Nat
  /\ broke \in [Shells -> BOOLEAN]
  /\ got \in [Shells -> SUBSET (Names \X Nat)]

\* Shells that are not in the plan are not used.
ShellOK(p) ==
  \/ sh[p] = Idle
  \/ /\ p \in plan.shells /\ sh[p].script \in plan.scripts /\ sh[p].pc >= 1
     /\ Running(p) => sh[p].pc <= Len(Body[sh[p].script])

ShellsOK == \A p \in Shells : ShellOK(p)

\* Time: nothing is newer than the sources.
Times ==
  /\ \A p \in Shells, s \in Sources : began[p][s] <= src[s]
  /\ wiped <= src["flags"]
  /\ CleanScript \notin plan.scripts => wiped = 0

\* What a file that is there was made from.
FromParts == \A f \in have : {x[1] : x \in from[f]} = Parts(f)

KeptInOrder ==
  /\ "openssl/depend" \in have => "openssl/Makefile" \in have
  /\ "libcrypto.a" \in have => "openssl/depend" \in have
  /\ "libssl.a" \in have => "libcrypto.a" \in have

\* The file f serves the script s, begun with the sources b: it is there (H),
\* made from sources that are not older (F) and with the variant of s, and for
\* run_grit configured after the last clean (w).
ServesIn(H, F, w, b, s, f) ==
  /\ f \in H
  /\ \A x \in F[f] :
       /\ x[1] \in Track(f) => x[2] >= b[x[1]]
       /\ x[1] = "args" => x[2] = s.args
       /\ x[1] = "flags" /\ IsGrit(s) => x[2] >= w

Serves(p, f) == ServesIn(have, from, wiped, began[p], sh[p].script, f)

\* The tools a script has come past have made what it needs, or were skipped
\* because it was there.
MadeSoFar ==
  \A p \in Shells : Running(p) =>
    \A i \in 1 .. sh[p].pc - 1 :
      Body[sh[p].script][i].kind = "tool" => Serves(p, Body[sh[p].script][i].out)

\* What is left of an earlier configuration is not older than the last clean.
Reconfigured == \A f \in have \cap CleanFiles : \A x \in from[f] : x[1] = "flags" => x[2] >= wiped

RemovedSoFar ==
  \A p \in Shells : Running(p) /\ sh[p].script = CleanScript =>
    \A i \in 1 .. sh[p].pc - 1 : Body[CleanScript][i].rm \cap have = {}

PipelineInv ==
  /\ PipelineTypeOK /\ ShellsOK /\ Times /\ FromParts /\ KeptInOrder
  /\ MadeSoFar /\ Reconfigured /\ RemovedSoFar
  /\ SuccessIsFresh /\ NoWedge /\ CleanReconfigures
-----------------------------------------------------------------------------
(* The commands of common.sh.                                               *)

\* Two stretches in a row.
LEMMA SegmentConcat ==
  ASSUME NEW s, NEW A, NEW a, NEW b, Segment(a, A, s), Segment(b, A \cup Outs(a), s)
  PROVE  Segment(a \o b, A, s)
<1> DEFINE ab == a \o b
<1>1. a \in Seq(Good(s)) /\ b \in Seq(Good(s)) BY Zenon DEF Segment
<1>2. ab \in Seq(Good(s)) /\ Len(ab) = Len(a) + Len(b) /\ Len(a) \in Nat /\ Len(b) \in Nat BY <1>1
<1>3. \A i \in 1 .. Len(a) : ab[i] = a[i] BY <1>1
<1>4. \A i \in 1 .. Len(b) : ab[Len(a) + i] = b[i] BY <1>1
<1>5. ASSUME NEW i \in 1 .. Len(ab) PROVE i \in 1 .. Len(a) \/ \E k \in 1 .. Len(b) : i = Len(a) + k
  <2>1. CASE i <= Len(a) BY <1>2, <2>1
  <2>2. CASE i > Len(a)
    <3>1. i - Len(a) \in 1 .. Len(b) /\ i = Len(a) + (i - Len(a)) BY <1>2, <2>2
    <3> QED BY <3>1, Zenon
  <2> QED BY <1>2, <2>1, <2>2
<1>6. ASSUME NEW i \in 1 .. Len(ab), ab[i].kind = "tool", NEW f \in ab[i].needs
      PROVE  f \in A \/ \E j \in 1 .. i - 1 : ab[j].kind = "tool" /\ ab[j].out = f
  <2>1. CASE i \in 1 .. Len(a)
    <3>1. f \in A \/ \E j \in 1 .. i - 1 : a[j].kind = "tool" /\ a[j].out = f
      BY <1>3, <1>6, <2>1, ZenonT(60) DEF Segment
    <3>2. \A j \in 1 .. i - 1 : j \in 1 .. Len(a) BY <1>2, <2>1
    <3> QED BY <1>3, <3>1, <3>2, Zenon
  <2>2. ASSUME NEW k \in 1 .. Len(b), i = Len(a) + k
        PROVE  f \in A \/ \E j \in 1 .. i - 1 : ab[j].kind = "tool" /\ ab[j].out = f
    <3>1. f \in A \cup Outs(a) \/ \E j \in 1 .. k - 1 : b[j].kind = "tool" /\ b[j].out = f
      BY <1>4, <1>6, <2>2, Zenon DEF Segment
    <3>2. \A j \in 1 .. Len(a) : j \in 1 .. i - 1 BY <1>2, <2>2
    <3>3. \A j \in 1 .. k - 1 : j \in 1 .. Len(b) /\ Len(a) + j \in 1 .. i - 1 BY <1>2, <2>2
    <3>4. CASE f \in Outs(a)
      <4>1. PICK j \in 1 .. Len(a) : a[j].kind = "tool" /\ a[j].out = f BY <3>4, Zenon DEF Outs
      <4> QED BY <1>3, <3>2, <4>1, Zenon
    <3> QED BY <1>4, <3>1, <3>3, <3>4, Zenon
  <2> QED BY <1>5, <2>1, <2>2, Zenon
<1>7. ASSUME NEW i \in 1 .. Len(ab), ab[i].kind = "test"
      PROVE  /\ i + ab[i].skip <= Len(ab)
             /\ \A j \in i + 1 .. i + ab[i].skip : ab[j].kind = "tool" /\ ab[j].out \in Behind(ab[i].out)
  <2>1. CASE i \in 1 .. Len(a)
    <3>1. /\ i + a[i].skip <= Len(a)
          /\ \A j \in i + 1 .. i + a[i].skip : a[j].kind = "tool" /\ a[j].out \in Behind(a[i].out)
      BY <1>3, <1>7, <2>1, Zenon DEF Segment
    <3>2. a[i].skip \in Nat
      <4>1. a[i] \in Good(s) BY <1>1, <2>1
      <4>2. a[i] \in Cmds BY <4>1, Zenon DEF Good
      <4> QED BY <4>2, Zenon DEF Cmds
    <3>3. \A j \in i + 1 .. i + a[i].skip : j \in 1 .. Len(a) BY <1>2, <2>1, <3>1, <3>2
    <3>4. i + ab[i].skip <= Len(ab) BY <1>2, <1>3, <2>1, <3>1, <3>2
    <3> QED BY <1>3, <2>1, <3>1, <3>3, <3>4, Zenon
  <2>2. ASSUME NEW k \in 1 .. Len(b), i = Len(a) + k
        PROVE  /\ i + ab[i].skip <= Len(ab)
               /\ \A j \in i + 1 .. i + ab[i].skip : ab[j].kind = "tool" /\ ab[j].out \in Behind(ab[i].out)
    <3>0. ab[i] = b[k] BY <1>4, <2>2, Zenon
    <3>1. /\ k + b[k].skip <= Len(b)
          /\ \A j \in k + 1 .. k + b[k].skip : b[j].kind = "tool" /\ b[j].out \in Behind(b[k].out)
      BY <3>0, <1>7, <2>2, ZenonT(60) DEF Segment
    <3>2. b[k].skip \in Nat
      <4>1. b[k] \in Good(s) BY <1>1, <2>2
      <4>2. b[k] \in Cmds BY <4>1, Zenon DEF Good
      <4> QED BY <4>2, Zenon DEF Cmds
    <3>4. i + ab[i].skip <= Len(ab) BY <1>2, <2>2, <3>0, <3>1, <3>2, SMTT(60)
    <3>5. ASSUME NEW j \in i + 1 .. i + ab[i].skip PROVE ab[j].kind = "tool" /\ ab[j].out \in Behind(ab[i].out)
      <4>1. j - Len(a) \in k + 1 .. k + b[k].skip /\ j - Len(a) \in 1 .. Len(b) /\ Len(a) + (j - Len(a)) = j
        BY <1>2, <2>2, <3>0, <3>1, <3>2, SMTT(60)
      <4>2. ab[j] = b[j - Len(a)] BY <4>1, <1>4
      <4> QED BY <3>0, <3>1, <4>1, <4>2, Zenon
    <3> QED BY <3>4, <3>5, Zenon
  <2> QED BY <1>5, <2>1, <2>2, Zenon
<1> QED BY <1>2, <1>6, <1>7, Zenon DEF Segment

\* What the two stretches make.
LEMMA OutsConcat ==
  ASSUME NEW S, NEW a \in Seq(S), NEW b \in Seq(S)
  PROVE  Outs(a) \cup Outs(b) \subseteq Outs(a \o b)
<1>1. Len(a \o b) = Len(a) + Len(b) /\ Len(a) \in Nat /\ Len(b) \in Nat OBVIOUS
<1>2. ASSUME NEW i \in 1 .. Len(a), a[i].kind = "tool" PROVE a[i].out \in Outs(a \o b)
  <2>1. i \in 1 .. Len(a \o b) /\ (a \o b)[i] = a[i] BY <1>1
  <2> QED BY <1>2, <2>1, Zenon DEF Outs
<1>3. ASSUME NEW i \in 1 .. Len(b), b[i].kind = "tool" PROVE b[i].out \in Outs(a \o b)
  <2>1. Len(a) + i \in 1 .. Len(a \o b) /\ (a \o b)[Len(a) + i] = b[i] BY <1>1
  <2> QED BY <1>3, <2>1, Zenon DEF Outs
<1> QED BY <1>2, <1>3, Zenon DEF Outs

\* The tables, spelled out.
LEMMA PartsTable ==
  /\ Parts("passes.so") = {"passes"}
  /\ Parts("picolibc/build.ninja") = {"flags"}
  /\ Parts("libc.a") = {"flags", "picolibc"}
  /\ Parts("rt/build.ninja") = {"flags"}
  /\ Parts("rt/lib") = {"flags", "rt"}
  /\ Parts("builtins.a") = {"flags", "rt"}
  /\ Parts("microram") = {"microram"}
  /\ Parts("checker") = {"checker"}
  /\ Parts("ffmpeg/config.h") = {"flags"}
  /\ Parts("openssl/Makefile") = {"flags"}
  /\ Parts("openssl/depend") = {"flags", "openssl"}
  /\ Parts("libcrypto.a") = {"flags", "openssl"}
  /\ Parts("libssl.a") = {"flags", "openssl"}
  /\ Parts("grit.ll") = {"passes", "picolibc", "rt", "flags", "grit"}
  /\ Parts("ffmpeg.ll") = {"passes", "picolibc", "rt", "flags", "ffmpeg"}
  /\ Parts("openssl.ll") = {"passes", "picolibc", "rt", "flags", "openssl", "driver"}
  /\ Parts("grit.cbor") = {"passes", "picolibc", "rt", "flags", "grit", "microram", "args"}
  /\ Parts("ffmpeg.cbor") = {"passes", "picolibc", "rt", "flags", "ffmpeg", "microram", "args"}
  /\ Parts("openssl.cbor") = {"passes", "picolibc", "rt", "flags", "openssl", "driver", "microram", "args"}
  /\ Parts("grit.sieve") = {"passes", "picolibc", "rt", "flags", "grit", "microram", "args", "checker"}
  /\ Parts("ffmpeg.sieve") = {"passes", "picolibc", "rt", "flags", "ffmpeg", "microram", "args", "checker"}
  /\ Parts("openssl.sieve") = {"passes", "picolibc", "rt", "flags", "openssl", "driver", "microram", "args", "checker"}
BY DEF Parts, LinkParts

\* What each tool reads.
LEMMA NeedsTable ==
  /\ Needs("passes.so") = {}
  /\ Needs("picolibc/build.ninja") = {}
  /\ Needs("libc.a") = {"picolibc/build.ninja"}
  /\ Needs("rt/build.ninja") = {}
  /\ Needs("rt/lib") = {"rt/build.ninja"}
  /\ Needs("builtins.a") = {"rt/lib"}
  /\ Needs("microram") = {}
  /\ Needs("checker") = {}
  /\ Needs("ffmpeg/config.h") = {}
  /\ Needs("openssl/Makefile") = {}
  /\ Needs("openssl/depend") = {"openssl/Makefile"}
  /\ Needs("libcrypto.a") = {"openssl/depend"}
  /\ Needs("libssl.a") = {"libcrypto.a"}
  /\ Needs("grit.ll") = {"passes.so", "libc.a", "builtins.a"}
  /\ Needs("ffmpeg.ll") = {"passes.so", "libc.a", "builtins.a", "ffmpeg/config.h"}
  /\ Needs("openssl.ll") = {"passes.so", "libc.a", "builtins.a", "libssl.a", "libcrypto.a"}
  /\ Needs("grit.cbor") = {"grit.ll"}
  /\ Needs("ffmpeg.cbor") = {"ffmpeg.ll"}
  /\ Needs("openssl.cbor") = {"openssl.ll"}
  /\ Needs("grit.sieve") = {"checker", "grit.cbor"}
  /\ Needs("ffmpeg.sieve") = {"checker", "ffmpeg.cbor"}
  /\ Needs("openssl.sieve") = {"checker", "openssl.cbor"}
BY DEF Needs, RuntimeFiles

\* All the files.
LEMMA FilesList ==
  Files = {"passes.so", "picolibc/build.ninja", "libc.a", "rt/build.ninja", "rt/lib", "builtins.a",
           "microram", "checker", "ffmpeg/config.h", "openssl/Makefile", "openssl/depend", "libcrypto.a",
           "libssl.a", "grit.ll", "ffmpeg.ll", "openssl.ll", "grit.cbor", "ffmpeg.cbor", "openssl.cbor",
           "grit.sieve", "ffmpeg.sieve", "openssl.sieve"}
BY DEF Files, RuntimeFiles, Examples, Link, Cbor, Sieve

\* A tool that makes a file from its needs and uses, as the tables say.
Recipe(out, needs, uses) ==
  /\ out \in Files /\ needs \subseteq Files /\ uses \subseteq Sources
  /\ needs = Needs(out) /\ uses \subseteq Parts(out)
  /\ \A f \in needs : Parts(f) \subseteq Parts(out)
  /\ \A n \in Parts(out) : n \in uses \/ \E f \in needs : n \in Parts(f)
  /\ \A e \in Examples : out # Cbor[e] /\ out # Sieve[e]
  /\ "args" \notin Parts(out)

\* A tool made by a recipe is a good command of every script.
LEMMA ToolGood ==
  ASSUME NEW s, NEW out, NEW needs, NEW uses, Recipe(out, needs, uses)
  PROVE  Tool(out, needs, uses) \in Good(s)
<1> DEFINE c == Tool(out, needs, uses)
<1>1. /\ c.kind = "tool" /\ c.out = out /\ c.needs = needs /\ c.uses = uses /\ c.args = {}
  BY DEF Tool
<1>2. c \in Cmds
  BY Zenon DEF Tool, Cmds, AllStarts, Recipe
<1> HIDE DEF c
<1>3. ToolOK(c, s)
  BY <1>1, Zenon DEF ToolOK, Recipe
<1> QED BY <1>1, <1>2, <1>3, Zenon DEF Good, c

\* The tools of common.sh, but for the two behind tee.
LEMMA Recipes ==
  /\ Recipe("passes.so", {}, {"passes"})
  /\ Recipe("picolibc/build.ninja", {}, {"flags"})
  /\ Recipe("libc.a", {"picolibc/build.ninja"}, {"picolibc"})
  /\ Recipe("rt/build.ninja", {}, {"flags"})
  /\ Recipe("rt/lib", {"rt/build.ninja"}, {"rt"})
  /\ Recipe("builtins.a", {"rt/lib"}, {})
  /\ Recipe("microram", {}, {"microram"})
  /\ Recipe("checker", {}, {"checker"})
  /\ Recipe("grit.ll", RuntimeFiles, {"grit"})
  /\ Recipe("ffmpeg/config.h", {}, {"flags"})
  /\ Recipe("ffmpeg.ll", RuntimeFiles \cup {"ffmpeg/config.h"}, {"ffmpeg"})
  /\ Recipe("openssl/Makefile", {}, {"flags"})
  /\ Recipe("openssl/depend", {"openssl/Makefile"}, {"openssl"})
  /\ Recipe("libcrypto.a", {"openssl/depend"}, {"openssl"})
  /\ Recipe("libssl.a", {"libcrypto.a"}, {"openssl"})
  /\ Recipe("openssl.ll", RuntimeFiles \cup {"libssl.a", "libcrypto.a"}, {"driver"})
BY PartsTable, NeedsTable, FilesList DEF Recipe, Sources, Examples, Cbor, Sieve, RuntimeFiles

\* The tests.
LEMMA TestGood ==
  ASSUME NEW s, NEW f \in Guards, NEW n \in Nat, IsGrit(s) => f \in CleanFiles
  PROVE  Unless(f, n) \in Good(s)
<1> DEFINE c == Unless(f, n)
<1>1. c.kind = "test" /\ c.out = f BY DEF Unless
<1>2. f \in Files BY FilesList DEF Guards
<1>3. c \in Cmds BY <1>2, Zenon DEF Unless, Cmds, AllStarts
<1> HIDE DEF c
<1>4. TestOK(c, s) BY <1>1, Zenon DEF TestOK
<1> QED BY <1>1, <1>3, <1>4, Zenon DEF Good, c

\* The two tools behind tee.
LEMMA CompileGood ==
  ASSUME NEW s \in AllScripts, s.name = "run", NEW at \in SUBSET AllStarts
  PROVE  compile(s.of, s.args, at) \in Good(s) /\ cheesecloth(s.of) \in Good(s)
<1>1. s.of \in Examples /\ s.args \in 0 .. 2
  BY DEF AllScripts, Script, Examples
<1> DEFINE c == compile(s.of, s.args, at)
           d == cheesecloth(s.of)
<1>2. /\ c.kind = "tool" /\ c.out = Cbor[s.of] /\ c.needs = {Link[s.of]} /\ c.uses = {"microram"}
      /\ c.args = {<<"args", s.args>>}
  BY DEF compile, Teed, Tool
<1>3. d.kind = "tool" /\ d.out = Sieve[s.of] /\ d.needs = {"checker", Cbor[s.of]} /\ d.uses = {} /\ d.args = {}
  BY DEF cheesecloth, Teed, Tool
<1>4. /\ Cbor[s.of] \in Files /\ Sieve[s.of] \in Files /\ Link[s.of] \in Files /\ "checker" \in Files
      /\ Needs(Cbor[s.of]) = {Link[s.of]} /\ Needs(Sieve[s.of]) = {"checker", Cbor[s.of]}
      /\ Parts(Cbor[s.of]) = Parts(Link[s.of]) \cup {"microram", "args"}
      /\ Parts(Sieve[s.of]) = Parts(Cbor[s.of]) \cup Parts("checker")
  BY <1>1, PartsTable, NeedsTable, FilesList DEF Examples, Cbor, Sieve, Link
<1>5. /\ \A e \in Examples : Cbor[s.of] \in {Cbor[e], Sieve[e]} => s.of = e
      /\ \A e \in Examples : Sieve[s.of] \in {Cbor[e], Sieve[e]} => s.of = e
      /\ Sieve[s.of] # Cbor[s.of]
  BY <1>1 DEF Examples, Cbor, Sieve
<1>6. c \in Cmds
  <2>1. {<<"args", s.args>>} \in SUBSET ({"args"} \X (0 .. 2)) BY <1>1
  <2>2. {Link[s.of]} \in SUBSET Files /\ {"microram"} \in SUBSET Sources BY <1>4 DEF Sources
  <2>3. Tool(Cbor[s.of], {Link[s.of]}, {"microram"}) \in Cmds
    BY <1>4, <2>2, Zenon DEF Tool, Cmds, AllStarts
  <2>4. Teed(Tool(Cbor[s.of], {Link[s.of]}, {"microram"}), at) \in Cmds
    BY <2>3, Zenon DEF Teed, Cmds
  <2> QED BY <2>1, <2>4, Zenon DEF compile, Cmds
<1>7. d \in Cmds
  BY <1>4, Zenon DEF cheesecloth, Teed, Tool, Cmds, AllStarts
<1> HIDE DEF c, d
<1>8. ToolOK(c, s)
  BY <1>2, <1>4, <1>5, Zenon DEF ToolOK
<1>9. ToolOK(d, s)
  BY <1>3, <1>4, <1>5, Zenon DEF ToolOK
<1> QED BY <1>2, <1>3, <1>6, <1>7, <1>8, <1>9, Zenon DEF Good, c, d

\* The functions of common.sh.
LEMMA PassesSegment ==
  ASSUME NEW s
  PROVE  Segment(build_llvm_passes, {}, s) /\ Outs(build_llvm_passes) = {"passes.so"}
<1> DEFINE c == Tool("passes.so", {}, {"passes"})
<1>1. c \in Good(s) BY ToolGood, Recipes, Zenon
<1>2. c.kind = "tool" /\ c.out = "passes.so" /\ c.needs = {} BY DEF Tool
<1>3. build_llvm_passes = <<c>> BY DEF build_llvm_passes
<1> HIDE DEF c
<1> QED BY <1>1, <1>2, <1>3 DEF Segment, Outs

\* build_picolibc.
LEMMA PicolibcSegment ==
  ASSUME NEW s
  PROVE  Segment(build_picolibc, {}, s) /\ Outs(build_picolibc) = {"picolibc/build.ninja", "libc.a"}
<1> DEFINE c == Unless("picolibc/build.ninja", 1)
           d == Tool("picolibc/build.ninja", {}, {"flags"})
           e == Tool("libc.a", {"picolibc/build.ninja"}, {"picolibc"})
<1>1. c \in Good(s) BY TestGood, Zenon DEF Guards, CleanFiles
<1>2. d \in Good(s) /\ e \in Good(s) BY ToolGood, Recipes, Zenon
<1>3. /\ c.kind = "test" /\ c.out = "picolibc/build.ninja" /\ c.skip = 1
      /\ d.kind = "tool" /\ d.out = "picolibc/build.ninja" /\ d.needs = {}
      /\ e.kind = "tool" /\ e.out = "libc.a" /\ e.needs = {"picolibc/build.ninja"}
  BY DEF Tool, Unless
<1>4. build_picolibc = <<c, d, e>> BY DEF build_picolibc
<1> HIDE DEF c, d, e
<1> QED BY <1>1, <1>2, <1>3, <1>4 DEF Segment, Outs, Behind

\* build_compiler_rt.
LEMMA CompilerRtSegment ==
  ASSUME NEW s
  PROVE  /\ Segment(build_compiler_rt, {}, s)
         /\ Outs(build_compiler_rt) = {"rt/build.ninja", "rt/lib", "builtins.a"}
<1> DEFINE c == Unless("rt/build.ninja", 1)
           d == Tool("rt/build.ninja", {}, {"flags"})
           e == Tool("rt/lib", {"rt/build.ninja"}, {"rt"})
           g == Tool("builtins.a", {"rt/lib"}, {})
<1>1. c \in Good(s) BY TestGood, Zenon DEF Guards, CleanFiles
<1>2. d \in Good(s) /\ e \in Good(s) /\ g \in Good(s) BY ToolGood, Recipes, Zenon
<1>3. /\ c.kind = "test" /\ c.out = "rt/build.ninja" /\ c.skip = 1
      /\ d.kind = "tool" /\ d.out = "rt/build.ninja" /\ d.needs = {}
      /\ e.kind = "tool" /\ e.out = "rt/lib" /\ e.needs = {"rt/build.ninja"}
      /\ g.kind = "tool" /\ g.out = "builtins.a" /\ g.needs = {"rt/lib"}
  BY DEF Tool, Unless
<1>4. build_compiler_rt = <<c, d, e, g>> BY DEF build_compiler_rt
<1> HIDE DEF c, d, e, g
<1> QED BY <1>1, <1>2, <1>3, <1>4 DEF Segment, Outs, Behind

\* A single tool, for a script that has what it reads.
LEMMA ToolSegment ==
  ASSUME NEW s, NEW out, NEW needs, NEW uses, Recipe(out, needs, uses)
  PROVE  LET b == <<Tool(out, needs, uses)>>
         IN  Segment(b, needs, s) /\ Outs(b) = {out} /\ Len(b) = 1
<1> DEFINE c == Tool(out, needs, uses)
<1>1. c \in Good(s) BY ToolGood, Zenon
<1>2. c.kind = "tool" /\ c.out = out /\ c.needs = needs BY DEF Tool
<1> HIDE DEF c
<1>3. Segment(<<c>>, needs, s) /\ Outs(<<c>>) = {out} /\ Len(<<c>>) = 1
  BY <1>1, <1>2 DEF Segment, Outs
<1> QED BY <1>3, Zenon DEF c

\* The end of build_ffmpeg.
LEMMA FfmpegSegment ==
  ASSUME NEW s, ~IsGrit(s)
  PROVE  LET b == <<Unless("ffmpeg/config.h", 1),
                    Tool("ffmpeg/config.h", {}, {"flags"}),
                    Tool("ffmpeg.ll", RuntimeFiles \cup {"ffmpeg/config.h"}, {"ffmpeg"})>>
         IN  Segment(b, RuntimeFiles, s) /\ "ffmpeg.ll" \in Outs(b) /\ Len(b) >= 1
<1> DEFINE c == Unless("ffmpeg/config.h", 1)
           d == Tool("ffmpeg/config.h", {}, {"flags"})
           e == Tool("ffmpeg.ll", RuntimeFiles \cup {"ffmpeg/config.h"}, {"ffmpeg"})
<1>1. c \in Good(s) BY TestGood, Zenon DEF Guards, CleanFiles
<1>2. d \in Good(s) /\ e \in Good(s) BY ToolGood, Recipes, Zenon
<1>3. /\ c.kind = "test" /\ c.out = "ffmpeg/config.h" /\ c.skip = 1
      /\ d.kind = "tool" /\ d.out = "ffmpeg/config.h" /\ d.needs = {}
      /\ e.kind = "tool" /\ e.out = "ffmpeg.ll" /\ e.needs = RuntimeFiles \cup {"ffmpeg/config.h"}
  BY DEF Tool, Unless
<1> HIDE DEF c, d, e
<1>4. Segment(<<c, d, e>>, RuntimeFiles, s) /\ "ffmpeg.ll" \in Outs(<<c, d, e>>) /\ Len(<<c, d, e>>) >= 1
  BY <1>1, <1>2, <1>3 DEF Segment, Outs, Behind
<1> QED BY <1>4, Zenon DEF c, d, e

\* The end of build_openssl: the libraries are built at once or not at all.
LEMMA OpensslSegment ==
  ASSUME NEW s, ~IsGrit(s)
  PROVE  LET b == <<Unless("libssl.a", 4),
                    Tool("openssl/Makefile", {}, {"flags"}),
                    Tool("openssl/depend", {"openssl/Makefile"}, {"openssl"}),
                    Tool("libcrypto.a", {"openssl/depend"}, {"openssl"}),
                    Tool("libssl.a", {"libcrypto.a"}, {"openssl"}),
                    Unless("openssl.ll", 1),
                    Tool("openssl.ll", RuntimeFiles \cup {"libssl.a", "libcrypto.a"}, {"driver"})>>
         IN  Segment(b, RuntimeFiles, s) /\ "openssl.ll" \in Outs(b) /\ Len(b) >= 1
<1> DEFINE b1 == Unless("libssl.a", 4)
           b2 == Tool("openssl/Makefile", {}, {"flags"})
           b3 == Tool("openssl/depend", {"openssl/Makefile"}, {"openssl"})
           b4 == Tool("libcrypto.a", {"openssl/depend"}, {"openssl"})
           b5 == Tool("libssl.a", {"libcrypto.a"}, {"openssl"})
           b6 == Unless("openssl.ll", 1)
           b7 == Tool("openssl.ll", RuntimeFiles \cup {"libssl.a", "libcrypto.a"}, {"driver"})
           b == <<b1, b2, b3, b4, b5, b6, b7>>
<1>1. b1 \in Good(s) /\ b6 \in Good(s) BY TestGood, Zenon DEF Guards, CleanFiles
<1>2. b2 \in Good(s) /\ b3 \in Good(s) /\ b4 \in Good(s) /\ b5 \in Good(s) /\ b7 \in Good(s)
  BY ToolGood, Recipes, Zenon
<1>3. /\ b1.kind = "test" /\ b1.out = "libssl.a" /\ b1.skip = 4
      /\ b2.kind = "tool" /\ b2.out = "openssl/Makefile" /\ b2.needs = {}
      /\ b3.kind = "tool" /\ b3.out = "openssl/depend" /\ b3.needs = {"openssl/Makefile"}
      /\ b4.kind = "tool" /\ b4.out = "libcrypto.a" /\ b4.needs = {"openssl/depend"}
      /\ b5.kind = "tool" /\ b5.out = "libssl.a" /\ b5.needs = {"libcrypto.a"}
      /\ b6.kind = "test" /\ b6.out = "openssl.ll" /\ b6.skip = 1
      /\ b7.kind = "tool" /\ b7.out = "openssl.ll" /\ b7.needs = RuntimeFiles \cup {"libssl.a", "libcrypto.a"}
  BY DEF Tool, Unless
<1> HIDE DEF b1, b2, b3, b4, b5, b6, b7
<1>4. b \in Seq(Good(s)) /\ Len(b) = 7 BY <1>1, <1>2
<1>5. \A i \in 1 .. 7 : b[i].kind = "tool" =>
        \A f \in b[i].needs : f \in RuntimeFiles \/ \E j \in 1 .. i - 1 : b[j].kind = "tool" /\ b[j].out = f
  BY <1>3
<1>6. \A i \in 1 .. 7 : b[i].kind = "test" =>
        /\ i + b[i].skip <= 7
        /\ \A j \in i + 1 .. i + b[i].skip : b[j].kind = "tool" /\ b[j].out \in Behind(b[i].out)
  BY <1>3 DEF Behind, Kept
<1>7. b[7].kind = "tool" /\ b[7].out = "openssl.ll" BY <1>3, SMTT(60)
<1>8. Segment(b, RuntimeFiles, s) /\ "openssl.ll" \in Outs(b) /\ Len(b) >= 1
  BY <1>4, <1>5, <1>6, <1>7 DEF Segment, Outs
<1> QED BY <1>8, Zenon DEF b1, b2, b3, b4, b5, b6, b7

\* The end of a run_ script.
LEMMA StatementSegment ==
  ASSUME NEW s \in AllScripts, s.name = "run", NEW at \in SUBSET AllStarts
  PROVE  LET b == <<compile(s.of, s.args, at), cheesecloth(s.of)>>
         IN  /\ Segment(b, {Link[s.of], "checker"}, s) /\ Len(b) = 2
             /\ b[2].kind = "tool" /\ b[2].out = Sieve[s.of]
<1> DEFINE c == compile(s.of, s.args, at)
           d == cheesecloth(s.of)
<1>1. c \in Good(s) /\ d \in Good(s) BY CompileGood, Zenon
<1>2. /\ c.kind = "tool" /\ c.out = Cbor[s.of] /\ c.needs = {Link[s.of]}
      /\ d.kind = "tool" /\ d.out = Sieve[s.of] /\ d.needs = {"checker", Cbor[s.of]}
  BY DEF compile, cheesecloth, Teed, Tool
<1> HIDE DEF c, d
<1>3. /\ Segment(<<c, d>>, {Link[s.of], "checker"}, s) /\ Len(<<c, d>>) = 2
      /\ <<c, d>>[2].kind = "tool" /\ <<c, d>>[2].out = Sieve[s.of]
  BY <1>1, <1>2 DEF Segment
<1> QED BY <1>3, Zenon DEF c, d

\* Two stretches in a row, the second of which needs what the first makes.
LEMMA Joined ==
  ASSUME NEW s, NEW a, NEW b, NEW B, Segment(a, {}, s), Segment(b, B, s), B \subseteq Outs(a), Len(b) >= 1
  PROVE  /\ Segment(a \o b, {}, s) /\ Outs(a) \cup Outs(b) \subseteq Outs(a \o b)
         /\ Len(a \o b) >= 1 /\ (a \o b)[Len(a \o b)] = b[Len(b)]
<1>1. a \in Seq(Good(s)) /\ b \in Seq(Good(s)) BY Zenon DEF Segment
<1>2. Segment(b, {} \cup Outs(a), s) BY Zenon DEF Segment
<1>3. Segment(a \o b, {}, s) BY <1>2, SegmentConcat, Zenon
<1>4. Outs(a) \cup Outs(b) \subseteq Outs(a \o b) BY <1>1, OutsConcat, Zenon
<1>5. Len(a \o b) >= 1 /\ (a \o b)[Len(a \o b)] = b[Len(b)] BY <1>1
<1> QED BY <1>3, <1>4, <1>5, Zenon

\* Two stretches in a row that need nothing.
LEMMA JoinedClosed ==
  ASSUME NEW s, NEW a, NEW b, Segment(a, {}, s), Segment(b, {}, s), Len(b) >= 1
  PROVE  /\ Segment(a \o b, {}, s) /\ Outs(a) \cup Outs(b) \subseteq Outs(a \o b)
         /\ Len(a \o b) >= 1
<1>1. {} \subseteq Outs(a) OBVIOUS
<1> QED BY <1>1, Joined

\* The run-time libraries, which every example is linked with.
LEMMA RuntimeSegment ==
  ASSUME NEW s
  PROVE  Segment(Runtime, {}, s) /\ RuntimeFiles \subseteq Outs(Runtime) /\ Len(Runtime) >= 1
<1> DEFINE a == build_llvm_passes
           b == build_picolibc
           c == build_compiler_rt
<1>0. Len(b) >= 1 /\ Len(c) >= 1 BY DEF build_picolibc, build_compiler_rt
<1>1. /\ Segment(a, {}, s) /\ "passes.so" \in Outs(a)
      /\ Segment(b, {}, s) /\ "libc.a" \in Outs(b)
      /\ Segment(c, {}, s) /\ "builtins.a" \in Outs(c)
  BY PassesSegment, PicolibcSegment, CompilerRtSegment, Zenon
<1> HIDE DEF a, b, c
<1>2. Segment(a \o b, {}, s) /\ Outs(a) \cup Outs(b) \subseteq Outs(a \o b)
  BY <1>0, <1>1, JoinedClosed, Zenon
<1>3. /\ Segment((a \o b) \o c, {}, s) /\ Outs(a \o b) \cup Outs(c) \subseteq Outs((a \o b) \o c)
      /\ Len((a \o b) \o c) >= 1
  BY <1>0, <1>1, <1>2, JoinedClosed, Zenon
<1>4. Runtime = (a \o b) \o c BY Zenon DEF Runtime, a, b, c
<1>5. RuntimeFiles \subseteq Outs((a \o b) \o c) BY <1>1, <1>2, <1>3 DEF RuntimeFiles
<1> QED BY <1>3, <1>4, <1>5

\* A build_ function of an example, from what comes after the libraries.
LEMMA LinkSegment ==
  ASSUME NEW s, NEW b, NEW e, Segment(b, RuntimeFiles, s), e \in Outs(b), Len(b) >= 1
  PROVE  Segment(Runtime \o b, {}, s) /\ e \in Outs(Runtime \o b) /\ Len(Runtime \o b) >= 1
<1>1. Segment(Runtime, {}, s) /\ RuntimeFiles \subseteq Outs(Runtime) BY RuntimeSegment, Zenon
<1>2. /\ Segment(Runtime \o b, {}, s) /\ Len(Runtime \o b) >= 1
      /\ Outs(Runtime) \cup Outs(b) \subseteq Outs(Runtime \o b)
  BY <1>1, Joined, Zenon
<1> QED BY <1>2, Zenon

\* The build_ functions of the examples.
LEMMA ExampleSegments ==
  ASSUME NEW s
  PROVE  /\ Segment(build_grit, {}, s) /\ "grit.ll" \in Outs(build_grit) /\ Len(build_grit) >= 1
         /\ ~IsGrit(s) =>
              /\ Segment(build_ffmpeg, {}, s) /\ "ffmpeg.ll" \in Outs(build_ffmpeg) /\ Len(build_ffmpeg) >= 1
              /\ Segment(build_openssl, {}, s) /\ "openssl.ll" \in Outs(build_openssl) /\ Len(build_openssl) >= 1
<1>1. Segment(build_grit, {}, s) /\ "grit.ll" \in Outs(build_grit) /\ Len(build_grit) >= 1
  <2> DEFINE b == <<Tool("grit.ll", RuntimeFiles, {"grit"})>>
  <2>1. Segment(b, RuntimeFiles, s) /\ Outs(b) = {"grit.ll"} /\ Len(b) = 1
    BY ToolSegment, Recipes, Zenon
  <2> HIDE DEF b
  <2>2. Len(b) >= 1 /\ "grit.ll" \in Outs(b) BY <2>1
  <2>3. Segment(Runtime \o b, {}, s) /\ "grit.ll" \in Outs(Runtime \o b) /\ Len(Runtime \o b) >= 1
    BY <2>1, <2>2, LinkSegment, Zenon
  <2> QED BY <2>3, Zenon DEF b, build_grit
<1>2. ASSUME ~IsGrit(s)
      PROVE  Segment(build_ffmpeg, {}, s) /\ "ffmpeg.ll" \in Outs(build_ffmpeg) /\ Len(build_ffmpeg) >= 1
  <2> DEFINE b == <<Unless("ffmpeg/config.h", 1),
                    Tool("ffmpeg/config.h", {}, {"flags"}),
                    Tool("ffmpeg.ll", RuntimeFiles \cup {"ffmpeg/config.h"}, {"ffmpeg"})>>
  <2>1. Segment(b, RuntimeFiles, s) /\ "ffmpeg.ll" \in Outs(b) /\ Len(b) >= 1
    BY <1>2, FfmpegSegment, Zenon
  <2> HIDE DEF b
  <2>2. Segment(Runtime \o b, {}, s) /\ "ffmpeg.ll" \in Outs(Runtime \o b) /\ Len(Runtime \o b) >= 1
    BY <2>1, LinkSegment, Zenon
  <2> QED BY <2>2, Zenon DEF b, build_ffmpeg
<1>3. ASSUME ~IsGrit(s)
      PROVE  Segment(build_openssl, {}, s) /\ "openssl.ll" \in Outs(build_openssl) /\ Len(build_openssl) >= 1
  <2> DEFINE b == <<Unless("libssl.a", 4),
                    Tool("openssl/Makefile", {}, {"flags"}),
                    Tool("openssl/depend", {"openssl/Makefile"}, {"openssl"}),
                    Tool("libcrypto.a", {"openssl/depend"}, {"openssl"}),
                    Tool("libssl.a", {"libcrypto.a"}, {"openssl"}),
                    Unless("openssl.ll", 1),
                    Tool("openssl.ll", RuntimeFiles \cup {"libssl.a", "libcrypto.a"}, {"driver"})>>
  <2>1. Segment(b, RuntimeFiles, s) /\ "openssl.ll" \in Outs(b) /\ Len(b) >= 1
    BY <1>3, OpensslSegment, Zenon
  <2> HIDE DEF b
  <2>2. Segment(Runtime \o b, {}, s) /\ "openssl.ll" \in Outs(Runtime \o b) /\ Len(Runtime \o b) >= 1
    BY <2>1, LinkSegment, Zenon
  <2> QED BY <2>2, Zenon DEF b, build_openssl
<1> QED BY <1>1, <1>2, <1>3, Zenon

\* The build_ functions of the two tools.
LEMMA ToolSegments ==
  ASSUME NEW s
  PROVE  /\ Segment(build_microram, {}, s) /\ Outs(build_microram) = {"microram"} /\ Len(build_microram) = 1
         /\ Segment(build_witness_checker, {}, s) /\ Outs(build_witness_checker) = {"checker"}
         /\ Len(build_witness_checker) = 1
BY ToolSegment, Recipes, Zenon DEF build_microram, build_witness_checker

\* A run_ script: an example is built, then the tools, then the statement.
LEMMA RunSegment ==
  ASSUME NEW s \in AllScripts, s.name = "run", NEW at \in SUBSET AllStarts,
         NEW b, Segment(b, {}, s), Link[s.of] \in Outs(b),
         NEW r, r = b \o build_microram \o build_witness_checker \o
                    <<compile(s.of, s.args, at), cheesecloth(s.of)>>
  PROVE  /\ Segment(r, {}, s) /\ Len(r) >= 1
         /\ r[Len(r)].kind = "tool" /\ r[Len(r)].out = Sieve[s.of]
<1> DEFINE m == build_microram
           w == build_witness_checker
           t == <<compile(s.of, s.args, at), cheesecloth(s.of)>>
<1>1. /\ Segment(m, {}, s) /\ Len(m) = 1
      /\ Segment(w, {}, s) /\ Outs(w) = {"checker"} /\ Len(w) = 1
  BY ToolSegments, Zenon
<1>2. /\ Segment(t, {Link[s.of], "checker"}, s) /\ Len(t) = 2
      /\ t[2].kind = "tool" /\ t[2].out = Sieve[s.of]
  BY StatementSegment, Zenon
<1> HIDE DEF m, w, t
<1>3. Len(m) >= 1 /\ Len(w) >= 1 /\ Len(t) >= 1 BY <1>1, <1>2
<1>4. Segment(b \o m, {}, s) /\ Outs(b) \cup Outs(m) \subseteq Outs(b \o m)
  BY <1>1, <1>3, JoinedClosed, Zenon
<1>5. Segment((b \o m) \o w, {}, s) /\ Outs(b \o m) \cup Outs(w) \subseteq Outs((b \o m) \o w)
  BY <1>1, <1>3, <1>4, JoinedClosed, Zenon
<1>6. {Link[s.of], "checker"} \subseteq Outs((b \o m) \o w)
  BY <1>1, <1>4, <1>5
<1> DEFINE q == (b \o m) \o w
<1>7. /\ Segment(q \o t, {}, s) /\ Len(q \o t) >= 1 /\ (q \o t)[Len(q \o t)] = t[Len(t)]
  <2> DEFINE B == {Link[s.of], "checker"}
  <2>1. Segment(q, {}, s) /\ B \subseteq Outs(q) /\ Segment(t, B, s) BY <1>2, <1>5, <1>6, Zenon
  <2> HIDE DEF q, B
  <2>2. Len(t) >= 1 BY <1>3, Zenon
  <2> QED BY ONLY <2>1, <2>2, Joined, SMTT(30)
<1>8. t[Len(t)] = t[2] BY <1>2
<1>9. /\ Segment(q \o t, {}, s) /\ Len(q \o t) >= 1
      /\ (q \o t)[Len(q \o t)].kind = "tool" /\ (q \o t)[Len(q \o t)].out = Sieve[s.of]
  BY <1>2, <1>7, <1>8, Zenon
<1>10. r = q \o t BY Zenon DEF m, w, t
<1> QED BY <1>9, <1>10, Zenon

\* Every script but clean is a stretch of good commands that needs nothing, and
\* the last command of a run_ script makes the circuit.
LEMMA BodySegment ==
  ASSUME NEW s \in AllScripts, s # CleanScript
  PROVE  /\ Segment(Body[s], {}, s) /\ Len(Body[s]) >= 1
         /\ s.name = "run" =>
              Body[s][Len(Body[s])].kind = "tool" /\ Body[s][Len(Body[s])].out = Sieve[s.of]
<1>1. CASE s.name = "run"
  <2>1. s.of \in {"grit", "ffmpeg", "openssl"} BY <1>1 DEF AllScripts, Script, Examples
  <2>2. ASSUME NEW b, NEW at \in SUBSET AllStarts, Segment(b, {}, s), Link[s.of] \in Outs(b),
               Body[s] = b \o build_microram \o build_witness_checker \o
                         <<compile(s.of, s.args, at), cheesecloth(s.of)>>
        PROVE  /\ Segment(Body[s], {}, s) /\ Len(Body[s]) >= 1
               /\ Body[s][Len(Body[s])].kind = "tool" /\ Body[s][Len(Body[s])].out = Sieve[s.of]
    BY <1>1, <2>2, RunSegment, ZenonT(60)
  <2>3. CASE s.of = "grit"
    <3>1. Body[s] = run_grit(s.args) BY <1>1, <2>3, Zenon DEF Body
    <3>2. Link[s.of] = "grit.ll" BY <2>3 DEF Link
    <3>3. Segment(build_grit, {}, s) /\ Link[s.of] \in Outs(build_grit)
      BY <3>2, ExampleSegments, Zenon
    <3>4. Body[s] = build_grit \o build_microram \o build_witness_checker \o
                         <<compile(s.of, s.args, AllStarts), cheesecloth(s.of)>>
      BY <2>3, <3>1, Zenon DEF run_grit
    <3> QED BY <2>2, <3>3, <3>4, Zenon
  <2>4. CASE s.of = "ffmpeg"
    <3>0. s.name # "clean" /\ s.of # "grit" BY <1>1, <2>4
    <3>1. Body[s] = run_ffmpeg(s.args) BY <1>1, <2>4 DEF Body
    <3>2. Link[s.of] = "ffmpeg.ll" BY <2>4 DEF Link
    <3>3. Segment(build_ffmpeg, {}, s) /\ Link[s.of] \in Outs(build_ffmpeg)
      BY <3>0, <3>2, ExampleSegments, Zenon DEF IsGrit
    <3>4. Body[s] = build_ffmpeg \o build_microram \o build_witness_checker \o
                         <<compile(s.of, s.args, AllStarts), cheesecloth(s.of)>>
      BY <2>4, <3>1, Zenon DEF run_ffmpeg
    <3> QED BY <2>2, <3>3, <3>4, Zenon
  <2>5. CASE s.of = "openssl"
    <3>0. s.name # "clean" /\ s.of # "grit" BY <1>1, <2>5
    <3>1. Body[s] = run_openssl(s.args) BY <1>1, <2>5 DEF Body
    <3>2. Link[s.of] = "openssl.ll" BY <2>5 DEF Link
    <3>3. Segment(build_openssl, {}, s) /\ Link[s.of] \in Outs(build_openssl)
      BY <3>0, <3>2, ExampleSegments, Zenon DEF IsGrit
    <3>4. Body[s] = build_openssl \o build_microram \o build_witness_checker \o
                         <<compile(s.of, s.args, {"absolute"}), cheesecloth(s.of)>>
      BY <2>5, <3>1, Zenon DEF run_openssl
    <3>5. {"absolute"} \in SUBSET AllStarts BY DEF AllStarts
    <3> QED BY <2>2, <3>3, <3>4, <3>5, Zenon
  <2> QED BY <2>1, <2>3, <2>4, <2>5, Zenon
<1>2. CASE s.name = "build"
  <2>1. s.of \in {"grit", "ffmpeg", "openssl", "llvm_passes", "picolibc", "compiler_rt", "microram", "witness_checker"}
    BY <1>2 DEF AllScripts, Script, Examples
  <2>2. ~IsGrit(s) BY <1>2 DEF IsGrit
  <2>3. Body[s] = [grit |-> build_grit, ffmpeg |-> build_ffmpeg, openssl |-> build_openssl,
             llvm_passes |-> build_llvm_passes, picolibc |-> build_picolibc,
             compiler_rt |-> build_compiler_rt, microram |-> build_microram,
             witness_checker |-> build_witness_checker][s.of]
    BY <1>2 DEF Body
  <2>4. Body[s] \in {build_grit, build_ffmpeg, build_openssl, build_llvm_passes, build_picolibc,
                     build_compiler_rt, build_microram, build_witness_checker}
    BY <2>1, <2>3
  <2>5. Segment(Body[s], {}, s)
    BY <2>2, <2>4, ExampleSegments, ToolSegments, PassesSegment, PicolibcSegment, CompilerRtSegment, ZenonT(60)
  <2>6. Len(build_llvm_passes) >= 1 /\ Len(build_picolibc) >= 1 /\ Len(build_compiler_rt) >= 1
        /\ Len(build_microram) >= 1 /\ Len(build_witness_checker) >= 1
    BY DEF build_llvm_passes, build_picolibc, build_compiler_rt, build_microram, build_witness_checker
  <2>7. Len(Body[s]) >= 1 BY <2>2, <2>4, <2>6, ExampleSegments, Zenon
  <2> QED BY <1>2, <2>5, <2>7
<1> QED BY <1>1, <1>2 DEF AllScripts, Script, CleanScript

\* The commands of clean.
Purges ==
  {c \in Cmds : /\ c.kind = "rm" /\ c.rm \cap Kept = {}
                /\ c.at = AllStarts /\ c.needs = {} /\ c.tee = FALSE}

Removes(b, f) == \E i \in 1 .. Len(b) : f \in b[i].rm

\* Two such stretches in a row.
LEMMA PurgesConcat ==
  ASSUME NEW a \in Seq(Purges), NEW b \in Seq(Purges), Len(b) >= 1
  PROVE  /\ a \o b \in Seq(Purges) /\ Len(a \o b) >= 1
         /\ \A f : Removes(a, f) \/ Removes(b, f) => Removes(a \o b, f)
<1> HIDE DEF Purges
<1>1. a \o b \in Seq(Purges) /\ Len(a \o b) >= 1 OBVIOUS
<1>2. Len(a \o b) = Len(a) + Len(b) /\ Len(a) \in Nat /\ Len(b) \in Nat OBVIOUS
<1>3. ASSUME NEW f, Removes(a, f) PROVE Removes(a \o b, f)
  <2>1. PICK i \in 1 .. Len(a) : f \in a[i].rm BY <1>3, Zenon DEF Removes
  <2>2. i \in 1 .. Len(a \o b) /\ (a \o b)[i] = a[i] BY <1>2
  <2> QED BY <2>1, <2>2, Zenon DEF Removes
<1>4. ASSUME NEW f, Removes(b, f) PROVE Removes(a \o b, f)
  <2>1. PICK i \in 1 .. Len(b) : f \in b[i].rm BY <1>4, Zenon DEF Removes
  <2>2. Len(a) + i \in 1 .. Len(a \o b) /\ (a \o b)[Len(a) + i] = b[i] BY <1>2
  <2> QED BY <2>1, <2>2, Zenon DEF Removes
<1> QED BY <1>1, <1>3, <1>4, Zenon

\* A command of clean.
LEMMA RmPurges ==
  ASSUME NEW S \in SUBSET Files, S \cap Kept = {}
  PROVE  <<Rm(S)>> \in Seq(Purges) /\ Len(<<Rm(S)>>) >= 1 /\ \A f \in S : Removes(<<Rm(S)>>, f)
<1> DEFINE c == Rm(S)
<1>1. c \in Cmds BY Zenon DEF Rm, Cmds, AllStarts
<1>2. c.kind = "rm" /\ c.at = AllStarts /\ c.needs = {} /\ c.tee = FALSE /\ c.rm = S BY DEF Rm
<1> HIDE DEF c
<1>3. c \in Purges BY <1>1, <1>2, Zenon DEF Purges
<1> HIDE DEF Purges
<1>4. <<c>> \in Seq(Purges) /\ Len(<<c>>) >= 1 /\ <<c>>[1] = c /\ 1 \in 1 .. Len(<<c>>) BY <1>3
<1>5. \A f \in S : Removes(<<c>>, f) BY <1>2, <1>4, Zenon DEF Removes
<1> QED BY <1>4, <1>5, Zenon DEF c

\* clean only removes, all that run_grit was made from and nothing of OpenSSL.
LEMMA CleanBody ==
  /\ CleanScript \in AllScripts
  /\ Body[CleanScript] \in Seq(Purges) /\ Len(Body[CleanScript]) >= 1
  /\ \A f \in CleanFiles : Removes(Body[CleanScript], f)
<1>1. CleanScript \in AllScripts /\ CleanScript.name = "clean" BY DEF CleanScript, AllScripts, Script
<1>2. Body[CleanScript] = clean BY <1>1, Zenon DEF Body
<1> DEFINE a1 == clean_llvm_passes
           a2 == a1 \o clean_picolibc
           a3 == a2 \o clean_compiler_rt
           a4 == a3 \o clean_microram
           a5 == a4 \o clean_witness_checker
           a6 == a5 \o clean_grit
           P(b) == b \in Seq(Purges) /\ Len(b) >= 1
<1>3. clean = a6 \o clean_ffmpeg BY Zenon DEF clean
<1>4. /\ P(clean_llvm_passes) /\ Removes(clean_llvm_passes, "passes.so")
      /\ P(clean_picolibc) /\ Removes(clean_picolibc, "picolibc/build.ninja") /\ Removes(clean_picolibc, "libc.a")
  <2>1. /\ {"passes.so"} \in SUBSET Files /\ {"passes.so"} \cap Kept = {}
        /\ {"picolibc/build.ninja", "libc.a"} \in SUBSET Files
        /\ {"picolibc/build.ninja", "libc.a"} \cap Kept = {}
    BY FilesList DEF Kept
  <2> QED BY <2>1, RmPurges, Zenon DEF clean_llvm_passes, clean_picolibc
<1>5. /\ P(clean_compiler_rt) /\ Removes(clean_compiler_rt, "rt/build.ninja")
      /\ Removes(clean_compiler_rt, "rt/lib") /\ Removes(clean_compiler_rt, "builtins.a")
      /\ P(clean_microram)
  <2>1. /\ {"rt/build.ninja", "rt/lib", "builtins.a"} \in SUBSET Files
        /\ {"rt/build.ninja", "rt/lib", "builtins.a"} \cap Kept = {}
        /\ {"microram"} \in SUBSET Files /\ {"microram"} \cap Kept = {}
    BY FilesList DEF Kept
  <2> QED BY <2>1, RmPurges, Zenon DEF clean_compiler_rt, clean_microram
<1>6. /\ P(clean_witness_checker) /\ P(clean_grit) /\ Removes(clean_grit, "grit.ll")
  <2>1. /\ {"checker"} \in SUBSET Files /\ {"checker"} \cap Kept = {}
        /\ {"grit.ll"} \in SUBSET Files /\ {"grit.ll"} \cap Kept = {}
    BY FilesList DEF Kept
  <2> QED BY <2>1, RmPurges, Zenon DEF clean_witness_checker, clean_grit
<1>7. P(clean_ffmpeg)
  <2>1. /\ {} \in SUBSET Files /\ {} \cap Kept = {}
        /\ {"ffmpeg.ll"} \in SUBSET Files /\ {"ffmpeg.ll"} \cap Kept = {}
    BY FilesList DEF Kept
  <2> DEFINE c == Rm({})
             d == Rm({"ffmpeg.ll"})
  <2>2. <<c>> \in Seq(Purges) /\ <<d>> \in Seq(Purges) BY <2>1, RmPurges, Zenon
  <2>3. clean_ffmpeg = <<c, d>> BY Zenon DEF clean_ffmpeg
  <2> HIDE DEF c, d, Purges
  <2>4. <<c, d>> \in Seq(Purges) /\ Len(<<c, d>>) >= 1 BY <2>2
  <2> QED BY <2>3, <2>4, Zenon
<1> HIDE DEF P
<1>8. ASSUME NEW a, NEW b, P(a), P(b)
      PROVE  P(a \o b) /\ \A f : Removes(a, f) \/ Removes(b, f) => Removes(a \o b, f)
  BY <1>8, PurgesConcat, Zenon DEF P
<1>9. P(a2) /\ Removes(a2, "passes.so") /\ Removes(a2, "picolibc/build.ninja") /\ Removes(a2, "libc.a")
  BY <1>4, <1>8, Zenon
<1> HIDE DEF a2
<1>10. /\ P(a3) /\ Removes(a3, "passes.so") /\ Removes(a3, "picolibc/build.ninja") /\ Removes(a3, "libc.a")
       /\ Removes(a3, "rt/build.ninja") /\ Removes(a3, "rt/lib") /\ Removes(a3, "builtins.a")
  BY <1>5, <1>8, <1>9, Zenon
<1> HIDE DEF a3
<1>11. P(a4) /\ \A f : Removes(a3, f) => Removes(a4, f) BY <1>5, <1>8, <1>10, Zenon
<1> HIDE DEF a4
<1>12. P(a5) /\ \A f : Removes(a4, f) => Removes(a5, f) BY <1>6, <1>8, <1>11, Zenon
<1> HIDE DEF a5
<1>13. P(a6) /\ Removes(a6, "grit.ll") /\ \A f : Removes(a5, f) => Removes(a6, f) BY <1>6, <1>8, <1>12, Zenon
<1> HIDE DEF a6
<1>14. P(clean) /\ \A f : Removes(a6, f) => Removes(clean, f) BY <1>3, <1>7, <1>8, <1>13, Zenon
<1>15. \A f \in CleanFiles : Removes(a3, f) \/ f = "grit.ll" BY <1>10, Zenon DEF CleanFiles
<1>16. \A f \in CleanFiles : Removes(clean, f) BY <1>11, <1>12, <1>13, <1>14, <1>15, Zenon
<1> QED BY <1>1, <1>2, <1>14, <1>16, Zenon DEF P

\* The commands of a script, one at a time.
LEMMA Commands ==
  ASSUME NEW s \in AllScripts, NEW i \in 1 .. Len(Body[s])
  PROVE  LET c == Body[s][i] IN
         /\ c.kind \in {"tool", "test", "rm"}
         /\ c.kind = "tool" => /\ s # CleanScript /\ ToolOK(c, s)
                               /\ c.needs \subseteq Files /\ c.uses \subseteq Sources
                               /\ \A f \in c.needs : \E j \in 1 .. i - 1 :
                                    Body[s][j].kind = "tool" /\ Body[s][j].out = f
         /\ c.kind = "test" => /\ s # CleanScript /\ TestOK(c, s) /\ c.skip \in Nat
                               /\ i + c.skip <= Len(Body[s])
                               /\ \A j \in i + 1 .. i + c.skip :
                                    Body[s][j].kind = "tool" /\ Body[s][j].out \in Behind(c.out)
         /\ c.kind = "rm" => /\ s = CleanScript /\ c.rm \cap Kept = {}
                             /\ c.at = AllStarts /\ c.needs = {}
<1>1. CASE s = CleanScript
  <2>1. Body[s] \in Seq(Purges) BY <1>1, CleanBody, Zenon
  <2>2. Body[s][i] \in Purges
    <3> HIDE DEF Purges
    <3> QED BY <2>1
  <2>3. "rm" # "tool" /\ "rm" # "test" OBVIOUS
  <2> QED BY <1>1, <2>2, <2>3, Zenon DEF Purges
<1>2. CASE s # CleanScript
  <2>1. Segment(Body[s], {}, s) BY <1>2, BodySegment, Zenon
  <2>2. Body[s] \in Seq(Good(s)) BY <2>1, Zenon DEF Segment
  <2>3. Body[s][i] \in Good(s) BY <2>2
  <2>4. Body[s][i].skip \in Nat /\ Body[s][i].needs \subseteq Files /\ Body[s][i].uses \subseteq Sources
    <3>1. Body[s][i] \in Cmds BY <2>3, Zenon DEF Good
    <3> QED BY <3>1, Zenon DEF Cmds
  <2>5. "rm" # "tool" /\ "rm" # "test" /\ "tool" # "test" OBVIOUS
  <2>6. \A f : f \notin {} OBVIOUS
  <2>7. ASSUME Body[s][i].kind = "tool"
        PROVE  \A f \in Body[s][i].needs : \E j \in 1 .. i - 1 : Body[s][j].kind = "tool" /\ Body[s][j].out = f
    BY <2>1, <2>7, Zenon DEF Segment
  <2>8. ASSUME Body[s][i].kind = "test"
        PROVE  /\ i + Body[s][i].skip <= Len(Body[s])
               /\ \A j \in i + 1 .. i + Body[s][i].skip :
                    Body[s][j].kind = "tool" /\ Body[s][j].out \in Behind(Body[s][i].out)
    BY <2>1, <2>8, Zenon DEF Segment
  <2>9. \/ Body[s][i].kind = "tool" /\ ToolOK(Body[s][i], s)
        \/ Body[s][i].kind = "test" /\ TestOK(Body[s][i], s)
    BY <2>3, Zenon DEF Good
  <2> QED BY <1>2, <2>4, <2>5, <2>7, <2>8, <2>9, Zenon
<1> QED BY <1>1, <1>2, Zenon

\* A tool is not in clean.
LEMMA ToolCommand ==
  ASSUME NEW s \in AllScripts, NEW i \in 1 .. Len(Body[s]), Body[s][i].kind = "tool"
  PROVE  /\ s # CleanScript /\ ToolOK(Body[s][i], s)
         /\ Body[s][i].needs \subseteq Files /\ Body[s][i].uses \subseteq Sources
BY Commands, SMTT(60)

\* An earlier command makes what a tool reads.
LEMMA ToolNeeds ==
  ASSUME NEW s \in AllScripts, NEW i \in 1 .. Len(Body[s]), Body[s][i].kind = "tool",
         NEW f \in Body[s][i].needs
  PROVE  \E j \in 1 .. i - 1 : Body[s][j].kind = "tool" /\ Body[s][j].out = f
BY Commands, SMTT(60)

\* A test is not in clean, and skips only what it tests for.
LEMMA TestCommand ==
  ASSUME NEW s \in AllScripts, NEW i \in 1 .. Len(Body[s]), Body[s][i].kind = "test"
  PROVE  /\ s # CleanScript /\ TestOK(Body[s][i], s)
         /\ Body[s][i].skip \in Nat /\ i + Body[s][i].skip <= Len(Body[s])
         /\ \A j \in i + 1 .. i + Body[s][i].skip :
              Body[s][j].kind = "tool" /\ Body[s][j].out \in Behind(Body[s][i].out)
BY Commands, SMTT(30)

\* Only clean removes.
LEMMA RmCommand ==
  ASSUME NEW s \in AllScripts, NEW i \in 1 .. Len(Body[s]), Body[s][i].kind = "rm"
  PROVE  /\ s = CleanScript /\ Body[s][i].rm \cap Kept = {}
         /\ Body[s][i].at = AllStarts /\ Body[s][i].needs = {}
BY Commands, SMTT(30)

\* No script is empty.
LEMMA BodyLength ==
  ASSUME NEW s \in AllScripts
  PROVE  Len(Body[s]) \in Nat /\ Len(Body[s]) >= 1
<1>1. CASE s = CleanScript
  <2>1. Body[s] \in Seq(Purges) /\ Len(Body[s]) >= 1 BY <1>1, CleanBody, Zenon
  <2> HIDE DEF Purges
  <2> QED BY <2>1
<1>2. CASE s # CleanScript
  <2>1. Segment(Body[s], {}, s) /\ Len(Body[s]) >= 1 BY <1>2, BodySegment, Zenon
  <2>2. Body[s] \in Seq(Good(s)) BY <2>1, Zenon DEF Segment
  <2> QED BY <2>1, <2>2
<1> QED BY <1>1, <1>2

\* What the tables say of a file and those it is made from.
LEMMA FileTable ==
  ASSUME NEW f \in Files
  PROVE  /\ Parts(f) \subseteq Names /\ "args" \notin Track(f) /\ Track(f) \subseteq Sources
         /\ "args" \in Parts(f) => \E e \in Examples : f \in {Cbor[e], Sieve[e]}
         /\ \A g \in Needs(f) : Parts(g) \cap Track(f) \subseteq Track(g)
         /\ f \in CleanFiles => Needs(f) \subseteq CleanFiles
<1>1. Parts(f) \subseteq Names /\ "args" \notin Track(f) /\ Track(f) \subseteq Sources
  BY PartsTable, FilesList, SMTT(60) DEF Names, Sources, Examples, Track
<1>2. "args" \in Parts(f) => \E e \in Examples : f \in {Cbor[e], Sieve[e]}
  BY PartsTable, FilesList, SMTT(60) DEF Examples, Cbor, Sieve
<1>3. \A g \in Needs(f) : Parts(g) \cap Track(f) \subseteq Track(g)
  BY PartsTable, NeedsTable, FilesList, SMTT(60) DEF Track, RuntimeFiles
<1>4. f \in CleanFiles => Needs(f) \subseteq CleanFiles
  BY NeedsTable, SMTT(60) DEF CleanFiles, RuntimeFiles
<1> QED BY <1>1, <1>2, <1>3, <1>4, Zenon

\* What stands behind a test follows no source.
LEMMA GuardTable ==
  ASSUME NEW g \in Guards
  PROVE  /\ g \in Files
         /\ \A f \in Behind(g) : f \in Files /\ Track(f) = {} /\ "args" \notin Parts(f)
         /\ g \in CleanFiles \/ g # "libssl.a" => Behind(g) = {g}
<1>1. g \in Files /\ \A f \in Behind(g) : f \in Files /\ Track(f) = {} /\ "args" \notin Parts(f)
  BY PartsTable, FilesList, SMTT(60) DEF Guards, Behind, Kept, Track
<1>2. g \in CleanFiles \/ g # "libssl.a" => Behind(g) = {g} BY DEF CleanFiles, Behind
<1> QED BY <1>1, <1>2, Zenon

\* What a circuit is made from.
LEMMA SieveTable ==
  ASSUME NEW e \in Examples
  PROVE  /\ Sieve[e] \in Files
         /\ Parts(Sieve[e]) = StatementSources(e) \cup {"flags", "args"}
         /\ Tracked(e) \subseteq Track(Sieve[e])
BY PartsTable, FilesList, SMTT(60) DEF Examples, Sieve, StatementSources, Tracked, Track

-----------------------------------------------------------------------------
(* The steps.                                                               *)

\* What a tool's output is made from.
Made(c) == (UNION {from[f] : f \in c.needs}) \cup {<<n, src[n]>> : n \in c.uses} \cup c.args

\* An output is made from the files read, the sources and the arguments.
LEMMA MadeFrom ==
  ASSUME NEW c, NEW x
  PROVE  x \in Made(c) <=> \/ \E f \in c.needs : x \in from[f]
                           \/ \E n \in c.uses : x = <<n, src[n]>>
                           \/ x \in c.args
<1> DEFINE A == UNION {from[f] : f \in c.needs}
           B == {<<n, src[n]>> : n \in c.uses}
<1>1. x \in A <=> \E f \in c.needs : x \in from[f] BY Zenon
<1>2. x \in B <=> \E n \in c.uses : x = <<n, src[n]>> BY Zenon
<1>3. Made(c) = A \cup B \cup c.args BY DEF Made
<1> HIDE DEF A, B
<1>4. x \in Made(c) <=> x \in A \/ x \in B \/ x \in c.args BY <1>3, Zenon
<1> QED BY <1>1, <1>2, <1>4, Zenon

\* These are sources with their versions, or arguments.
LEMMA MadeType ==
  ASSUME PipelineTypeOK, NEW s \in AllScripts, NEW c, ToolOK(c, s), c.needs \subseteq Files, c.uses \subseteq Sources
  PROVE  Made(c) \in SUBSET (Names \X Nat)
<1> SUFFICES ASSUME NEW x \in Made(c) PROVE x \in Names \X Nat OBVIOUS
<1>1. CASE \E f \in c.needs : x \in from[f]
  <2>1. from \in [Files -> SUBSET (Names \X Nat)] BY Zenon DEF PipelineTypeOK
  <2> HIDE DEF Names, Files
  <2> QED BY <1>1, <2>1
<1>2. CASE \E n \in c.uses : x = <<n, src[n]>>
  <2>1. src \in [Sources -> Nat] BY Zenon DEF PipelineTypeOK
  <2>2. Sources \subseteq Names BY DEF Names
  <2> HIDE DEF Names, Sources
  <2> QED BY <1>2, <2>1, <2>2
<1>3. CASE x \in c.args
  <2>1. x = <<"args", s.args>> BY <1>3 DEF ToolOK
  <2>2. s.args \in Nat BY DEF AllScripts, Script
  <2>3. "args" \in Names BY DEF Names
  <2> HIDE DEF Names
  <2> QED BY <2>1, <2>2, <2>3
<1> QED BY <1>1, <1>2, <1>3, MadeFrom, Zenon

\* The names among them are those of the table.
LEMMA MadeParts ==
  ASSUME FromParts, NEW s \in AllScripts, NEW c, ToolOK(c, s), c.needs \subseteq have
  PROVE  {x[1] : x \in Made(c)} = Parts(c.out)
<1>1. ASSUME NEW x \in Made(c) PROVE x[1] \in Parts(c.out)
  <2>1. CASE \E f \in c.needs : x \in from[f]
    <3>1. PICK f \in c.needs : x \in from[f] BY <2>1
    <3>2. x[1] \in Parts(f) BY <3>1, Zenon DEF FromParts
    <3> QED BY <3>1, <3>2, Zenon DEF ToolOK
  <2>2. CASE \E n \in c.uses : x = <<n, src[n]>>
    <3>1. PICK n \in c.uses : x = <<n, src[n]>> BY <2>2
    <3>2. x[1] = n BY <3>1
    <3> QED BY <3>2, Zenon DEF ToolOK
  <2>3. CASE x \in c.args
    <3>1. x = <<"args", s.args>> /\ "args" \in Parts(c.out) BY <2>3, SMTT(60) DEF ToolOK
    <3> QED BY <3>1
  <2> QED BY <2>1, <2>2, <2>3, MadeFrom, Zenon
<1>2. ASSUME NEW n \in Parts(c.out) PROVE \E x \in Made(c) : x[1] = n
  <2>1. n \in c.uses \/ (n = "args" /\ c.args # {}) \/ \E f \in c.needs : n \in Parts(f)
    BY Zenon DEF ToolOK
  <2>2. CASE n \in c.uses
    <3>1. <<n, src[n]>> \in Made(c) BY <2>2, MadeFrom
    <3> QED BY <3>1
  <2>3. CASE n = "args" /\ c.args # {}
    <3>1. <<"args", s.args>> \in c.args BY <2>3 DEF ToolOK
    <3>2. <<"args", s.args>> \in Made(c) BY <3>1, MadeFrom
    <3> QED BY <3>2, <2>3
  <2>4. CASE \E f \in c.needs : n \in Parts(f)
    <3>1. PICK f \in c.needs : n \in Parts(f) BY <2>4
    <3>2. PICK x \in from[f] : x[1] = n BY <3>1, Zenon DEF FromParts
    <3>3. x \in Made(c) BY <3>1, <3>2, MadeFrom, Zenon
    <3> QED BY <3>2, <3>3
  <2> QED BY <2>1, <2>2, <2>3, <2>4
<1> QED BY <1>1, <1>2, Zenon

\* A tool makes a file that serves a script if the files it reads do, whichever
\* shell runs it.
LEMMA MakeServes ==
  ASSUME PipelineTypeOK, Times, FromParts, NEW p \in Shells, NEW s, NEW u \in AllScripts,
         NEW c, ToolOK(c, u), c.needs \subseteq Files, c.uses \subseteq Sources,
         \A f \in c.needs : ServesIn(have, from, wiped, began[p], s, f),
         c.args # {} => u.args = s.args,
         NEW F, F[c.out] = Made(c)
  PROVE  ServesIn(have \cup {c.out}, F, wiped, began[p], s, c.out)
<1>1. src \in [Sources -> Nat] /\ began[p] \in [Sources -> Nat] /\ wiped \in Nat
  BY Zenon DEF PipelineTypeOK
<1>2. wiped <= src["flags"] /\ \A n \in Sources : began[p][n] <= src[n] BY Zenon DEF Times
<1>3. c.out \in Files /\ c.needs = Needs(c.out) BY Zenon DEF ToolOK
<1>4. ASSUME NEW x \in Made(c)
      PROVE  /\ x[1] \in Track(c.out) => x[2] >= began[p][x[1]]
             /\ x[1] = "args" => x[2] = s.args
             /\ x[1] = "flags" /\ IsGrit(s) => x[2] >= wiped
  <2>1. CASE \E f \in c.needs : x \in from[f]
    <3>1. PICK f \in c.needs : x \in from[f] BY <2>1
    <3>2. f \in have BY <3>1, Zenon DEF ServesIn
    <3>3. x[1] \in Parts(f) BY <3>1, <3>2, Zenon DEF FromParts
    <3>4. x[1] \in Track(c.out) => x[1] \in Track(f)
      <4>1. \A g \in Needs(c.out) : Parts(g) \cap Track(c.out) \subseteq Track(g) BY <1>3, FileTable, Zenon
      <4>2. Parts(f) \cap Track(c.out) \subseteq Track(f) BY <1>3, <4>1, Zenon
      <4> QED BY <3>3, <4>2, Zenon
    <3> QED BY <3>1, <3>4, Zenon DEF ServesIn
  <2>2. CASE \E n \in c.uses : x = <<n, src[n]>>
    <3>1. PICK n \in c.uses : x = <<n, src[n]>> BY <2>2, SMTT(60)
    <3>2. n \in Sources /\ x[1] = n /\ x[2] = src[n] BY <3>1
    <3>3. n # "args" BY <3>2, SMTT(60) DEF Sources, Examples
    <3>4. x[2] >= began[p][x[1]]
      <4> HIDE DEF Sources
      <4> QED BY <1>1, <1>2, <3>2, SMTT(60)
    <3>5. x[1] = "flags" => x[2] >= wiped
      <4> HIDE DEF Sources
      <4> QED BY <1>1, <1>2, <3>2, SMTT(60)
    <3> QED BY <3>2, <3>3, <3>4, <3>5, SMTT(60)
  <2>3. CASE x \in c.args
    <3>1. x = <<"args", u.args>> BY <2>3 DEF ToolOK
    <3>2. x[1] = "args" /\ x[2] = s.args BY <2>3, <3>1
    <3>3. "args" \notin Track(c.out) BY <1>3, FileTable, Zenon
    <3> QED BY <3>2, <3>3, SMTT(60)
  <2> QED BY <2>1, <2>2, <2>3, MadeFrom, Zenon
<1> QED BY <1>4, Zenon DEF ServesIn

\* A shell that runs a script is between its commands.
LEMMA RunningShell ==
  ASSUME PipelineTypeOK, ShellsOK, NEW p \in Shells, sh[p] # Idle
  PROVE  /\ sh[p].script \in AllScripts /\ sh[p].script \in plan.scripts /\ p \in plan.shells
         /\ sh[p].pc \in Nat /\ sh[p].pc >= 1 /\ Len(Body[sh[p].script]) \in Nat
         /\ Running(p) => sh[p].pc \in 1 .. Len(Body[sh[p].script])
<1>1. sh[p].script \in plan.scripts /\ p \in plan.shells /\ sh[p].pc >= 1
      /\ (Running(p) => sh[p].pc <= Len(Body[sh[p].script]))
  BY Zenon DEF ShellsOK, ShellOK
<1>2. plan \in PlanType BY PipelineConstants, Zenon DEF PipelineTypeOK
<1>3. plan.scripts \subseteq AllScripts BY <1>2, Zenon DEF PlanType
<1>4. sh[p].script \in AllScripts BY <1>1, <1>3, Zenon
<1>5. sh[p].pc \in Nat
  <2>1. sh[p] \in [script : Scripts, start : AllStarts, pc : Nat, status : {"ok", "failed", "running"}]
    BY Zenon DEF PipelineTypeOK
  <2> QED BY <2>1, Zenon
<1>6. Len(Body[sh[p].script]) \in Nat BY <1>4, BodyLength, Zenon
<1>7. Running(p) => sh[p].pc \in 1 .. Len(Body[sh[p].script]) BY <1>1, <1>5, <1>6
<1> QED BY <1>1, <1>4, <1>5, <1>6, <1>7, Zenon

\* A shell that runs is not idle.
LEMMA RunningNotIdle ==
  ASSUME NEW p \in Shells, Running(p)
  PROVE  sh[p] # Idle
BY DEF Running, Idle

\* Where there is a clean there is one shell.
LEMMA Alone ==
  ASSUME PipelineTypeOK, ShellsOK, NEW p \in plan.shells, NEW q \in Shells, p # q,
         CleanScript \in plan.scripts
  PROVE  sh[q] = Idle
<1>1. q \in plan.shells \/ sh[q] = Idle BY Zenon DEF ShellsOK, ShellOK
<1>2. Undisturbed(plan) BY Zenon DEF PipelineTypeOK
<1> QED BY <1>1, <1>2 DEF Undisturbed

\* The files that a tool reads serve the script that came past it.
LEMMA NeedsServed ==
  ASSUME PipelineTypeOK, ShellsOK, MadeSoFar, NEW p \in Shells, Running(p),
         NEW i \in 1 .. sh[p].pc, Body[sh[p].script][i].kind = "tool"
  PROVE  \A f \in Body[sh[p].script][i].needs : Serves(p, f)
<1> DEFINE s == sh[p].script
<1>1. s \in AllScripts /\ sh[p].pc \in 1 .. Len(Body[s]) /\ sh[p].pc \in Nat /\ Len(Body[s]) \in Nat
  BY RunningShell, RunningNotIdle, Zenon
<1> SUFFICES ASSUME NEW f \in Body[s][i].needs PROVE Serves(p, f) OBVIOUS
<1>2. i \in 1 .. Len(Body[s]) BY <1>1
<1>3. PICK j \in 1 .. i - 1 : Body[s][j].kind = "tool" /\ Body[s][j].out = f
  <2>1. s \in AllScripts /\ Body[s][i].kind = "tool" /\ f \in Body[s][i].needs BY <1>1, Zenon
  <2> HIDE DEF s
  <2> QED BY ONLY <1>2, <2>1, ToolNeeds, Zenon
<1>4. j \in 1 .. sh[p].pc - 1 BY <1>1
<1> QED BY <1>3, <1>4, Zenon DEF MadeSoFar

\* A script stops: because it, or one of its tools, is stopped.
LEMMA AbortStep ==
  ASSUME PipelineInv, NEW p \in Shells, Running(p), Abort(p),
         UNCHANGED <<plan, src, have, from, began>>,
         broke' \in [Shells -> BOOLEAN], \A q \in Shells : q # p => broke'[q] = broke[q],
         broke'[p] \/ sh[p].start \notin Cmd(p).at
  PROVE  PipelineInv'
<1> USE DEF PipelineInv
<1>1. sh' = [sh EXCEPT ![p].status = "failed"] /\ got' = got /\ wiped' = wiped BY Zenon DEF Abort
<1>2. /\ sh \in [Shells -> [script : Scripts, start : AllStarts, pc : Nat, status : {"ok", "failed", "running"}]]
      /\ plan' = plan /\ src' = src /\ have' = have /\ from' = from /\ began' = began
  BY Zenon DEF PipelineTypeOK
<1>3. sh' \in [Shells -> [script : Scripts, start : AllStarts, pc : Nat, status : {"ok", "failed", "running"}]]
  <2> HIDE DEF Scripts, AllStarts
  <2> QED BY <1>1, <1>2
<1>4. /\ sh'[p].script = sh[p].script /\ sh'[p].start = sh[p].start /\ sh'[p].pc = sh[p].pc
      /\ sh'[p].status = "failed"
  <2> HIDE DEF Scripts, AllStarts
  <2> QED BY <1>1, <1>2
<1>5. \A q \in Shells : q # p => sh'[q] = sh[q] BY <1>1, <1>2
<1>6. PipelineTypeOK' BY <1>1, <1>2, <1>3, Zenon DEF PipelineTypeOK
<1>7. sh[p] # Idle BY RunningNotIdle, Zenon
<1>8. ShellsOK'
  <2>1. ShellOK(p)'
    <3>1. p \in plan.shells /\ sh[p].script \in plan.scripts /\ sh[p].pc >= 1 BY <1>7, Zenon DEF ShellsOK, ShellOK
    <3>2. "failed" # "running" OBVIOUS
    <3> QED BY <1>2, <1>4, <3>1, <3>2, Zenon DEF ShellOK, Running
  <2>2. ASSUME NEW q \in Shells, q # p PROVE ShellOK(q)'
    <3>1. ShellOK(q) BY Zenon DEF ShellsOK
    <3> QED BY <1>2, <1>5, <2>2, <3>1, Zenon DEF ShellOK, Running
  <2> QED BY <2>1, <2>2, Zenon DEF ShellsOK
<1>9. Times' /\ FromParts' /\ KeptInOrder' /\ Reconfigured'
  BY <1>1, <1>2, Zenon DEF Times, FromParts, KeptInOrder, Reconfigured
<1>10. "failed" # "running" /\ "failed" # "ok" OBVIOUS
<1>11. MadeSoFar'
  <2> SUFFICES ASSUME NEW q \in Shells, Running(q)',
                      NEW i \in 1 .. sh'[q].pc - 1, Body[sh'[q].script][i].kind = "tool"
               PROVE  Serves(q, Body[sh[q].script][i].out)'
    BY Zenon DEF MadeSoFar
  <2>1. q # p /\ sh'[q] = sh[q] BY <1>4, <1>5, <1>10, Zenon DEF Running
  <2>2. Running(q) BY <2>1, Zenon DEF Running
  <2>3. Serves(q, Body[sh[q].script][i].out) BY <2>1, <2>2, Zenon DEF MadeSoFar
  <2> QED BY <1>1, <1>2, <2>1, <2>3, Zenon DEF Serves
<1>12. RemovedSoFar'
  <2> SUFFICES ASSUME NEW q \in Shells, Running(q)', sh'[q].script = CleanScript,
                      NEW i \in 1 .. sh'[q].pc - 1
               PROVE  Body[CleanScript][i].rm \cap have' = {}
    BY Zenon DEF RemovedSoFar
  <2>1. q # p /\ sh'[q] = sh[q] BY <1>4, <1>5, <1>10, Zenon DEF Running
  <2>2. Running(q) BY <2>1, Zenon DEF Running
  <2> QED BY <1>2, <2>1, <2>2, Zenon DEF RemovedSoFar
<1>13. \A q \in Shells : Succeeded(q)' => q # p /\ sh'[q] = sh[q] /\ Succeeded(q)
  BY <1>4, <1>5, <1>10, Zenon DEF Succeeded
<1>14. SuccessIsFresh'
  <2> SUFFICES ASSUME NEW q \in Shells, Succeeded(q)'
               PROVE  LET e == sh'[q].script.of IN
                      /\ {x[1] : x \in got'[q]} = StatementSources(e) \cup {"flags", "args"}
                      /\ \A x \in got'[q] : x[1] \in Tracked(e) => x[2] >= began'[q][x[1]]
                      /\ \A x \in got'[q] : x[1] = "args" => x[2] = sh'[q].script.args
    BY Zenon DEF SuccessIsFresh
  <2>1. Succeeded(q) /\ sh'[q] = sh[q] BY <1>13, Zenon
  <2> QED BY <1>1, <1>2, <2>1, ZenonT(120) DEF SuccessIsFresh
<1>15. NoWedge'
  <2> SUFFICES ASSUME NEW q \in Shells, sh'[q].status = "failed"
               PROVE  broke'[q] \/ sh'[q].start \notin Body[sh'[q].script][sh'[q].pc].at
    BY Zenon DEF NoWedge, Cmd
  <2>1. CASE q = p BY <1>4, <2>1, Zenon DEF Cmd
  <2>2. CASE q # p
    <3>1. sh'[q] = sh[q] /\ broke'[q] = broke[q] BY <1>5, <2>2, Zenon
    <3> QED BY <3>1, Zenon DEF NoWedge, Cmd
  <2> QED BY <2>1, <2>2
<1>16. CleanReconfigures'
  <2> SUFFICES ASSUME NEW q \in Shells, Succeeded(q)', sh'[q].script.of = "grit"
               PROVE  \A x \in got'[q] : x[1] = "flags" => x[2] >= wiped'
    BY Zenon DEF CleanReconfigures
  <2>1. Succeeded(q) /\ sh'[q] = sh[q] BY <1>13, Zenon
  <2> QED BY <1>1, <2>1, Zenon DEF CleanReconfigures
<1> QED BY <1>6, <1>8, <1>9, <1>11, <1>12, <1>14, <1>15, <1>16, Zenon

\* A script goes on behind n more commands.  The other shells are untouched but
\* for what has become of their files.
LEMMA AdvanceStep ==
  ASSUME PipelineInv, NEW p \in Shells, Running(p), NEW n \in Nat,
         sh[p].pc + n <= Len(Body[sh[p].script]), Advance(p, n),
         UNCHANGED <<plan, src, began, broke>>,
         have' \subseteq Files, from' \in [Files -> SUBSET (Names \X Nat)],
         FromParts', KeptInOrder', Reconfigured',
         \A q \in Shells : Running(q) /\ q # p =>
           \A i \in 1 .. sh[q].pc - 1 : Body[sh[q].script][i].kind = "tool" =>
             ServesIn(have', from', wiped', began[q], sh[q].script, Body[sh[q].script][i].out),
         \A i \in 1 .. sh[p].pc + n : Body[sh[p].script][i].kind = "tool" =>
             ServesIn(have', from', wiped', began[p], sh[p].script, Body[sh[p].script][i].out),
         sh[p].script = CleanScript =>
           \A i \in 1 .. sh[p].pc + n : Body[CleanScript][i].rm \cap have' = {}
  PROVE  PipelineInv'
<1> USE DEF PipelineInv
<1> DEFINE s == sh[p].script
           k == sh[p].pc + 1 + n
           St == IF k > Len(Body[s]) THEN "ok" ELSE "running"
<1>1. /\ sh' = [sh EXCEPT ![p].pc = k, ![p].status = St]
      /\ got' = IF k > Len(Body[s]) /\ s.name = "run" /\ Sieve[s.of] \in have'
                THEN [got EXCEPT ![p] = from'[Sieve[s.of]]] ELSE got
      /\ wiped' = IF k > Len(Body[s]) /\ s.name = "clean" THEN began[p]["flags"] ELSE wiped
  BY DEF Advance
<1>2. /\ sh \in [Shells -> [script : Scripts, start : AllStarts, pc : Nat, status : {"ok", "failed", "running"}]]
      /\ plan' = plan /\ src' = src /\ broke' = broke /\ began' = began
      /\ got \in [Shells -> SUBSET (Names \X Nat)] /\ wiped \in Nat /\ began \in [Shells -> [Sources -> Nat]]
      /\ src \in [Sources -> Nat]
  BY Zenon DEF PipelineTypeOK
<1>3. sh[p] # Idle BY RunningNotIdle, Zenon
<1>4. /\ s \in AllScripts /\ s \in plan.scripts /\ p \in plan.shells
      /\ sh[p].pc \in Nat /\ sh[p].pc >= 1 /\ Len(Body[s]) \in Nat /\ sh[p].pc \in 1 .. Len(Body[s])
  BY <1>3, RunningShell, Zenon
<1>5. k \in Nat /\ k >= 1 /\ k - 1 = sh[p].pc + n /\ St \in {"ok", "failed", "running"}
      /\ (k > Len(Body[s]) => k - 1 = Len(Body[s]))
  <2>1. sh[p].pc + n <= Len(Body[s]) OBVIOUS
  <2> DEFINE L == Len(Body[s])
  <2>2. L \in Nat /\ sh[p].pc \in Nat /\ sh[p].pc >= 1 /\ sh[p].pc + n <= L BY <1>4, <2>1, Zenon
  <2> HIDE DEF L
  <2>3. k \in Nat /\ k >= 1 /\ k - 1 = sh[p].pc + n /\ (k > L => k - 1 = L) BY ONLY <2>2, n \in Nat DEF k
  <2>4. St \in {"ok", "failed", "running"} BY ONLY TRUE, SMTT(60) DEF St
  <2> QED BY <2>3, <2>4, ZenonT(60) DEF L
<1> HIDE DEF k, St
<1>6. sh' \in [Shells -> [script : Scripts, start : AllStarts, pc : Nat, status : {"ok", "failed", "running"}]]
  <2> HIDE DEF Scripts, AllStarts, s
  <2> QED BY <1>1, <1>2, <1>5, ZenonT(120)
<1>7. sh'[p].script = s /\ sh'[p].start = sh[p].start /\ sh'[p].pc = k /\ sh'[p].status = St
  <2> HIDE DEF Scripts, AllStarts
  <2> QED BY <1>1, <1>2
<1>8. \A q \in Shells : q # p => sh'[q] = sh[q] BY <1>1, <1>2
<1>9. s.name = "clean" <=> s = CleanScript
  <2> HIDE DEF s
  <2> QED BY ONLY <1>4 DEF AllScripts, Script, CleanScript
<1>10. "flags" \in Sources BY DEF Sources
<1>11. wiped' \in Nat
  <2> HIDE DEF Sources, s
  <2> QED BY <1>1, <1>2, <1>10
<1>12. got' \in [Shells -> SUBSET (Names \X Nat)]
  <2>1. s.name = "run" => Sieve[s.of] \in Files
    <3>1. s.name = "run" => s.of \in Examples
      <4> HIDE DEF s
      <4> QED BY ONLY <1>4, SMTT(60) DEF AllScripts, Script
    <3> QED BY <3>1, SieveTable, Zenon
  <2>2. s.name = "run" => from'[Sieve[s.of]] \in SUBSET (Names \X Nat)
    <3> HIDE DEF Names, Files, s
    <3> QED BY <2>1
  <2> DEFINE T == SUBSET (Names \X Nat)
             v == from'[Sieve[s.of]]
  <2> HIDE DEF T, v, s
  <2> QED BY <1>1, <1>2, <2>2 DEF T, v
<1>13. PipelineTypeOK' BY <1>2, <1>6, <1>11, <1>12, Zenon DEF PipelineTypeOK
<1>14. ShellsOK'
  <2>1. ShellOK(p)'
    <3>1. St = "running" => k <= Len(Body[s]) BY <1>4, <1>5 DEF St
    <3> QED BY <1>2, <1>4, <1>5, <1>7, <3>1, ZenonT(120) DEF ShellOK, Running
  <2>2. ASSUME NEW q \in Shells, q # p PROVE ShellOK(q)'
    <3>1. ShellOK(q) BY Zenon DEF ShellsOK
    <3> QED BY <1>2, <1>8, <2>2, <3>1, Zenon DEF ShellOK, Running
  <2> QED BY <2>1, <2>2, Zenon DEF ShellsOK
<1>15. Times'
  <2>1. \A q \in Shells, x \in Sources : began[q][x] <= src[x] BY Zenon DEF Times
  <2>2. wiped <= src["flags"] /\ (CleanScript \notin plan.scripts => wiped = 0) BY Zenon DEF Times
  <2>3. wiped' <= src["flags"] BY <1>1, <1>10, <2>1, <2>2, Zenon
  <2>4. CleanScript \notin plan.scripts => wiped' = 0 BY <1>1, <1>4, <1>9, <2>2, ZenonT(120)
  <2> QED BY <1>2, <2>1, <2>3, <2>4, Zenon DEF Times
<1>16. MadeSoFar'
  <2> SUFFICES ASSUME NEW q \in Shells, Running(q)',
                      NEW i \in 1 .. sh'[q].pc - 1, Body[sh'[q].script][i].kind = "tool"
               PROVE  ServesIn(have', from', wiped', began[q], sh'[q].script, Body[sh'[q].script][i].out)
    BY <1>2, Zenon DEF MadeSoFar, Serves
  <2>1. CASE q = p BY <1>5, <1>7, <2>1, Zenon
  <2>2. CASE q # p
    <3>1. sh'[q] = sh[q] /\ Running(q) BY <1>8, <2>2, ZenonT(120) DEF Running
    <3> QED BY <2>2, <3>1, Zenon
  <2> QED BY <2>1, <2>2
<1>17. RemovedSoFar'
  <2> SUFFICES ASSUME NEW q \in Shells, Running(q)', sh'[q].script = CleanScript,
                      NEW i \in 1 .. sh'[q].pc - 1
               PROVE  Body[CleanScript][i].rm \cap have' = {}
    BY Zenon DEF RemovedSoFar
  <2>1. CASE q = p BY <1>5, <1>7, <2>1, ZenonT(120)
  <2>2. CASE q # p
    <3>1. sh'[q] = sh[q] /\ Running(q) BY <1>8, <2>2, Zenon DEF Running
    <3>2. sh[q] # Idle BY <3>1, RunningNotIdle, Zenon
    <3>3. CleanScript \in plan.scripts BY <3>1, <3>2, RunningShell, Zenon
    <3>4. sh[q] = Idle BY <1>4, <2>2, <3>3, Alone, Zenon
    <3> QED BY <3>2, <3>4
  <2> QED BY <2>1, <2>2
<1>18. ASSUME NEW q \in Shells, Succeeded(q)', q # p
       PROVE  sh'[q] = sh[q] /\ Succeeded(q) /\ got'[q] = got[q] /\ wiped' = wiped
  <2>1. sh'[q] = sh[q] /\ Succeeded(q) BY <1>8, <1>18, Zenon DEF Succeeded
  <2>2. got'[q] = got[q]
    <3> DEFINE v == from'[Sieve[s.of]]
    <3>1. got' = [got EXCEPT ![p] = v] \/ got' = got BY <1>1, ZenonT(120)
    <3> HIDE DEF v, s
    <3> QED BY ONLY <1>2, <1>18, <3>1, Zenon
  <2>3. sh[q] # Idle
    <3>1. sh[q].script.name = "run" BY <2>1, Zenon DEF Succeeded
    <3> QED BY ONLY <3>1 DEF Idle, Script
  <2>4. CleanScript \notin plan.scripts BY <1>4, <1>18, <2>3, Alone, Zenon
  <2>5. wiped' = wiped BY <1>1, <1>4, <1>9, <2>4, Zenon
  <2> QED BY <2>1, <2>2, <2>5, Zenon
<1>19. ASSUME Succeeded(p)'
       PROVE  /\ s.name = "run" /\ s.of \in Examples /\ got'[p] = from'[Sieve[s.of]]
              /\ ServesIn(have', from', wiped', began[p], s, Sieve[s.of])
  <2>1. s.name = "run" /\ St = "ok" BY <1>7, <1>19, ZenonT(60) DEF Succeeded
  <2>2. s.of \in Examples
    <3> HIDE DEF s
    <3> QED BY ONLY <1>4, <2>1, SMTT(60) DEF AllScripts, Script
  <2>3. k > Len(Body[s]) BY <2>1, SMTT(60) DEF St
  <2>4. s # CleanScript BY <2>1 DEF CleanScript, Script
  <2>5. Body[s][Len(Body[s])].kind = "tool" /\ Body[s][Len(Body[s])].out = Sieve[s.of]
    BY <1>4, <2>1, <2>4, BodySegment, ZenonT(120)
  <2>6. Len(Body[s]) \in 1 .. sh[p].pc + n BY <1>4, <1>5, <2>3, SMTT(60)
  <2>7. ServesIn(have', from', wiped', began[p], s, Sieve[s.of]) BY <2>5, <2>6, Zenon
  <2>8. Sieve[s.of] \in have' BY <2>7, Zenon DEF ServesIn
  <2>9. got'[p] = from'[Sieve[s.of]]
    <3> DEFINE v == from'[Sieve[s.of]]
    <3>1. got' = [got EXCEPT ![p] = v] BY <1>1, <2>1, <2>3, <2>8, Zenon
    <3> HIDE DEF v, s
    <3>2. got'[p] = v BY ONLY <1>2, p \in Shells, <3>1, ZenonT(120)
    <3> QED BY ONLY <3>2, Zenon DEF v
  <2> QED BY <2>1, <2>2, <2>7, <2>9, Zenon
<1>20. SuccessIsFresh'
  <2> SUFFICES ASSUME NEW q \in Shells, Succeeded(q)'
               PROVE  LET e == sh'[q].script.of IN
                      /\ {x[1] : x \in got'[q]} = StatementSources(e) \cup {"flags", "args"}
                      /\ \A x \in got'[q] : x[1] \in Tracked(e) => x[2] >= began'[q][x[1]]
                      /\ \A x \in got'[q] : x[1] = "args" => x[2] = sh'[q].script.args
    BY ZenonT(120) DEF SuccessIsFresh
  <2>1. CASE q = p
    <3>1. /\ s.of \in Examples /\ got'[p] = from'[Sieve[s.of]]
          /\ ServesIn(have', from', wiped', began[p], s, Sieve[s.of])
      BY <1>19, <2>1, Zenon
    <3>2. Parts(Sieve[s.of]) = StatementSources(s.of) \cup {"flags", "args"} /\ Tracked(s.of) \subseteq Track(Sieve[s.of])
      BY <3>1, SieveTable, Zenon
    <3>3. {x[1] : x \in from'[Sieve[s.of]]} = Parts(Sieve[s.of])
      BY <3>1, ZenonT(120) DEF ServesIn, FromParts
    <3>4. {x[1] : x \in got'[p]} = StatementSources(s.of) \cup {"flags", "args"} BY <3>1, <3>2, <3>3
    <3>5. \A x \in got'[p] : x[1] \in Tracked(s.of) => x[2] >= began[p][x[1]]
      BY <3>1, <3>2, Zenon DEF ServesIn
    <3>6. \A x \in got'[p] : x[1] = "args" => x[2] = s.args BY <3>1, Zenon DEF ServesIn
    <3> HIDE DEF s
    <3> QED BY <1>2, <1>7, <2>1, <3>4, <3>5, <3>6
  <2>2. CASE q # p
    <3>1. sh'[q] = sh[q] /\ Succeeded(q) /\ got'[q] = got[q] BY <1>18, <2>2, Zenon
    <3> QED BY <1>2, <3>1, Zenon DEF SuccessIsFresh
  <2> QED BY <2>1, <2>2
<1>21. NoWedge'
  <2> SUFFICES ASSUME NEW q \in Shells, sh'[q].status = "failed"
               PROVE  broke'[q] \/ sh'[q].start \notin Body[sh'[q].script][sh'[q].pc].at
    BY ZenonT(120) DEF NoWedge, Cmd
  <2>1. St # "failed" BY DEF St
  <2>2. q # p /\ sh'[q] = sh[q] BY <1>7, <1>8, <2>1, ZenonT(120)
  <2> QED BY <1>2, <2>2, Zenon DEF NoWedge, Cmd
<1>22. CleanReconfigures'
  <2> SUFFICES ASSUME NEW q \in Shells, Succeeded(q)', sh'[q].script.of = "grit"
               PROVE  \A x \in got'[q] : x[1] = "flags" => x[2] >= wiped'
    BY Zenon DEF CleanReconfigures
  <2>1. CASE q = p
    <3>1. IsGrit(s) BY <1>7, <1>19, <2>1, Zenon DEF IsGrit
    <3> QED BY <1>19, <2>1, <3>1, Zenon DEF ServesIn
  <2>2. CASE q # p
    <3>1. sh'[q] = sh[q] /\ Succeeded(q) /\ got'[q] = got[q] /\ wiped' = wiped BY <1>18, <2>2, Zenon
    <3> QED BY <3>1, Zenon DEF CleanReconfigures
  <2> QED BY <2>1, <2>2
<1> QED BY <1>13, <1>14, <1>15, <1>16, <1>17, <1>20, <1>21, <1>22, ZenonT(60)

\* The invariant holds when no script has been run.
LEMMA InitInv ==
  ASSUME \A pl \in Plans : Undisturbed(pl), Init
  PROVE  PipelineInv
<1>1. /\ plan \in Plans /\ src = [s \in Sources |-> 0] /\ have = {} /\ from = [f \in Files |-> {}]
      /\ sh = [p \in Shells |-> Idle] /\ began = [p \in Shells |-> src]
      /\ broke = [p \in Shells |-> FALSE] /\ got = [p \in Shells |-> {}] /\ wiped = 0
  BY Zenon DEF Init
<1>2. Idle.status = "ok" /\ Idle.script.name # "run" /\ Idle.status # "running" /\ Idle.status # "failed"
  BY DEF Idle, Script
<1>3. PipelineTypeOK
  <2>1. src \in [Sources -> Nat] BY <1>1
  <2>2. began \in [Shells -> [Sources -> Nat]] BY <1>1, <2>1, Zenon
  <2>3. from \in [Files -> SUBSET (Names \X Nat)] /\ got \in [Shells -> SUBSET (Names \X Nat)]
    <3> DEFINE T == SUBSET (Names \X Nat)
    <3>1. {} \in T OBVIOUS
    <3> HIDE DEF T, Files
    <3>2. from \in [Files -> T] /\ got \in [Shells -> T] BY <1>1, <3>1, SMTT(60)
    <3> QED BY <3>2, Zenon DEF T
  <2>4. Idle \in [script : Scripts, start : AllStarts, pc : Nat, status : {"ok", "failed", "running"}]
    <3>1. Idle.script \in Scripts BY Zenon DEF Scripts
    <3> HIDE DEF Scripts
    <3> QED BY <3>1 DEF Idle, AllStarts
  <2>5. sh \in [Shells -> [script : Scripts, start : AllStarts, pc : Nat, status : {"ok", "failed", "running"}]]
    BY <1>1, <2>4, Zenon
  <2>6. broke \in [Shells -> BOOLEAN] /\ have \subseteq Files /\ wiped \in Nat BY <1>1
  <2>7. Undisturbed(plan) BY <1>1
  <2> QED BY <1>1, <2>1, <2>2, <2>3, <2>5, <2>6, <2>7, Zenon DEF PipelineTypeOK
<1>4. \A p \in Shells : sh[p] = Idle /\ ~Running(p) /\ ~Succeeded(p) /\ sh[p].status # "failed"
  BY <1>1, <1>2, Zenon DEF Running, Succeeded
<1>5. ShellsOK BY <1>4, Zenon DEF ShellsOK, ShellOK
<1>6. Times
  <2>1. \A p \in Shells, s \in Sources : began[p][s] = 0 /\ src[s] = 0 BY <1>1, Zenon
  <2>2. src["flags"] = 0 /\ wiped = 0 BY <1>1, SMTT(60) DEF Sources
  <2> HIDE DEF Sources
  <2> QED BY <2>1, <2>2 DEF Times
<1>7. FromParts /\ KeptInOrder /\ Reconfigured
  BY <1>1 DEF FromParts, KeptInOrder, Reconfigured
<1>8. MadeSoFar /\ RemovedSoFar /\ SuccessIsFresh /\ NoWedge /\ CleanReconfigures
  BY <1>4, Zenon DEF MadeSoFar, RemovedSoFar, SuccessIsFresh, NoWedge, CleanReconfigures
<1> QED BY <1>3, <1>5, <1>6, <1>7, <1>8, Zenon DEF PipelineInv

\* An edit makes no file older than it was when a script began.
LEMMA EditStep ==
  ASSUME PipelineInv, plan' = plan, NEW s \in Sources, Edit(s)
  PROVE  PipelineInv'
<1> USE DEF PipelineInv
<1>1. /\ src' = [src EXCEPT ![s] = @ + 1]
      /\ have' = have /\ from' = from /\ sh' = sh /\ began' = began /\ broke' = broke /\ got' = got /\ wiped' = wiped
  BY Zenon DEF Edit
<1>2. src \in [Sources -> Nat] /\ began \in [Shells -> [Sources -> Nat]] /\ wiped \in Nat
  BY Zenon DEF PipelineTypeOK
<1>3. src' \in [Sources -> Nat] /\ \A x \in Sources : src'[x] >= src[x]
  <2> HIDE DEF Sources
  <2> QED BY <1>1, <1>2
<1>4. PipelineTypeOK' BY <1>1, <1>3, Zenon DEF PipelineTypeOK
<1>5. Times'
  <2>1. \A q \in Shells, x \in Sources : began[q][x] <= src[x] BY Zenon DEF Times
  <2>2. wiped <= src["flags"] /\ (CleanScript \notin plan.scripts => wiped = 0) BY Zenon DEF Times
  <2>3. "flags" \in Sources BY SMTT(60) DEF Sources
  <2>4. wiped' <= src'["flags"] /\ \A q \in Shells, x \in Sources : began'[q][x] <= src'[x]
    <3> HIDE DEF Sources
    <3> QED BY <1>1, <1>2, <1>3, <2>1, <2>2, <2>3, SMTT(60)
  <2> QED BY <1>1, <2>2, <2>4, Zenon DEF Times
<1>6. ShellsOK' BY <1>1, Zenon DEF ShellsOK, ShellOK, Running
<1>7. FromParts' /\ KeptInOrder' /\ Reconfigured' BY <1>1, Zenon DEF FromParts, KeptInOrder, Reconfigured
<1>8. MadeSoFar' BY <1>1, Zenon DEF MadeSoFar, Running, Serves
<1>9. RemovedSoFar' BY <1>1, Zenon DEF RemovedSoFar, Running
<1>10. SuccessIsFresh' BY <1>1, Zenon DEF SuccessIsFresh, Succeeded
<1>11. NoWedge' /\ CleanReconfigures' BY <1>1, Zenon DEF NoWedge, CleanReconfigures, Succeeded, Cmd
<1> QED BY <1>4, <1>5, <1>6, <1>7, <1>8, <1>9, <1>10, <1>11, Zenon

\* A script that starts has come past nothing.
LEMMA StartStep ==
  ASSUME PipelineInv, plan' = plan, NEW p \in plan.shells, NEW s \in plan.scripts, NEW at \in plan.starts,
         Start(p, s, at)
  PROVE  PipelineInv'
<1> USE DEF PipelineInv
<1> DEFINE r == [script |-> s, start |-> at, pc |-> 1, status |-> "running"]
<1>1. /\ sh' = [sh EXCEPT ![p] = r] /\ began' = [began EXCEPT ![p] = src]
      /\ broke' = [broke EXCEPT ![p] = FALSE] /\ got' = [got EXCEPT ![p] = {}]
      /\ src' = src /\ have' = have /\ from' = from /\ wiped' = wiped
  BY Zenon DEF Start, envVars
<1>2. /\ sh \in [Shells -> [script : Scripts, start : AllStarts, pc : Nat, status : {"ok", "failed", "running"}]]
      /\ got \in [Shells -> SUBSET (Names \X Nat)] /\ wiped \in Nat /\ began \in [Shells -> [Sources -> Nat]]
      /\ src \in [Sources -> Nat] /\ broke \in [Shells -> BOOLEAN] /\ plan \in Plans
  BY Zenon DEF PipelineTypeOK
<1>3. plan.shells \subseteq Shells /\ plan.scripts \subseteq AllScripts /\ plan.starts \subseteq AllStarts
  <2>1. plan \in PlanType BY <1>2, PipelineConstants, Zenon
  <2> QED BY <2>1, Zenon DEF PlanType
<1>4. /\ r \in [script : Scripts, start : AllStarts, pc : Nat, status : {"ok", "failed", "running"}]
      /\ r.script = s /\ r.pc = 1 /\ r.status = "running"
  <2>1. s \in Scripts /\ at \in AllStarts BY <1>3, Zenon DEF Scripts
  <2> HIDE DEF Scripts, AllStarts
  <2> QED BY <2>1
<1>5. p \in Shells /\ s \in AllScripts BY <1>3, Zenon
<1> HIDE DEF r
<1>6. /\ sh' \in [Shells -> [script : Scripts, start : AllStarts, pc : Nat, status : {"ok", "failed", "running"}]]
      /\ sh'[p] = r /\ \A q \in Shells : q # p => sh'[q] = sh[q]
  <2> DEFINE T == [script : Scripts, start : AllStarts, pc : Nat, status : {"ok", "failed", "running"}]
  <2>1. r \in T /\ sh \in [Shells -> T] BY <1>2, <1>4, ZenonT(60)
  <2> HIDE DEF T
  <2>2. sh' \in [Shells -> T] /\ sh'[p] = r /\ \A q \in Shells : q # p => sh'[q] = sh[q]
    BY <1>1, <1>5, <2>1
  <2> QED BY <2>2, Zenon DEF T
<1>7. /\ began' \in [Shells -> [Sources -> Nat]] /\ began'[p] = src
      /\ \A q \in Shells : q # p => began'[q] = began[q]
  <2> DEFINE T == [Sources -> Nat]
  <2> HIDE DEF T
  <2>1. began' \in [Shells -> T] /\ began'[p] = src /\ \A q \in Shells : q # p => began'[q] = began[q]
    BY <1>1, <1>2, <1>5 DEF T
  <2> QED BY <2>1, ZenonT(60) DEF T
<1>8. broke' \in [Shells -> BOOLEAN] /\ \A q \in Shells : q # p => broke'[q] = broke[q] BY <1>1, <1>2, <1>5, Zenon
<1>9. got' \in [Shells -> SUBSET (Names \X Nat)] /\ \A q \in Shells : q # p => got'[q] = got[q]
  <2> DEFINE T == SUBSET (Names \X Nat)
  <2>1. {} \in T /\ got \in [Shells -> T] BY <1>2, SMTT(60)
  <2> HIDE DEF T
  <2>2. got' \in [Shells -> T] /\ \A q \in Shells : q # p => got'[q] = got[q] BY <1>1, <1>5, <2>1
  <2> QED BY <2>2, Zenon DEF T
<1>10. PipelineTypeOK' BY <1>1, <1>6, <1>7, <1>8, <1>9, Zenon DEF PipelineTypeOK
<1>11. ShellsOK'
  <2>1. ShellOK(p)'
    <3>1. 1 <= Len(Body[s])
      <4>1. Len(Body[s]) \in Nat /\ Len(Body[s]) >= 1 BY <1>5, BodyLength, Zenon
      <4> QED BY <4>1
    <3>2. 1 >= 1 OBVIOUS
    <3> QED BY <1>4, <1>6, <3>1, <3>2, Zenon DEF ShellOK
  <2>2. ASSUME NEW q \in Shells, q # p PROVE ShellOK(q)'
    <3>1. ShellOK(q) BY Zenon DEF ShellsOK
    <3> QED BY <1>6, <2>2, <3>1, Zenon DEF ShellOK, Running
  <2> QED BY <2>1, <2>2, Zenon DEF ShellsOK
<1>12. Times'
  <2>1. \A q \in Shells, x \in Sources : began[q][x] <= src[x] BY Zenon DEF Times
  <2>2. \A x \in Sources : src[x] <= src[x]
    <3> HIDE DEF Sources
    <3> QED BY <1>2
  <2>3. \A q \in Shells, x \in Sources : began'[q][x] <= src[x] BY <1>7, <2>1, <2>2, Zenon
  <2> QED BY <1>1, <2>3, Zenon DEF Times
<1>13. FromParts' /\ KeptInOrder' /\ Reconfigured' BY <1>1, Zenon DEF FromParts, KeptInOrder, Reconfigured
<1>14. \A i : i \notin 1 .. 1 - 1 OBVIOUS
<1>15. MadeSoFar'
  <2> SUFFICES ASSUME NEW q \in Shells, Running(q)',
                      NEW i \in 1 .. sh'[q].pc - 1, Body[sh'[q].script][i].kind = "tool"
               PROVE  ServesIn(have', from', wiped', began'[q], sh'[q].script, Body[sh'[q].script][i].out)
    BY Zenon DEF MadeSoFar, Serves
  <2>1. q # p BY <1>4, <1>6, <1>14, Zenon
  <2>2. sh'[q] = sh[q] /\ Running(q) /\ began'[q] = began[q] BY <1>6, <1>7, <2>1, Zenon DEF Running
  <2>3. Serves(q, Body[sh[q].script][i].out) BY <2>2, Zenon DEF MadeSoFar
  <2> QED BY <1>1, <2>2, <2>3, Zenon DEF Serves
<1>16. RemovedSoFar'
  <2> SUFFICES ASSUME NEW q \in Shells, Running(q)', sh'[q].script = CleanScript,
                      NEW i \in 1 .. sh'[q].pc - 1
               PROVE  Body[CleanScript][i].rm \cap have' = {}
    BY Zenon DEF RemovedSoFar
  <2>1. q # p BY <1>4, <1>6, <1>14, Zenon
  <2>2. sh'[q] = sh[q] /\ Running(q) BY <1>6, <2>1, Zenon DEF Running
  <2> QED BY <1>1, <2>2, Zenon DEF RemovedSoFar
<1>17. "running" # "ok" /\ "running" # "failed" OBVIOUS
<1>18. \A q \in Shells : sh'[q].status \in {"ok", "failed"} =>
         sh'[q] = sh[q] /\ began'[q] = began[q] /\ broke'[q] = broke[q] /\ got'[q] = got[q]
  BY <1>4, <1>6, <1>7, <1>8, <1>9, <1>17, Zenon
<1>19. SuccessIsFresh' /\ CleanReconfigures'
  <2>1. \A q \in Shells : Succeeded(q)' =>
          sh'[q] = sh[q] /\ Succeeded(q) /\ began'[q] = began[q] /\ got'[q] = got[q]
    BY <1>18, Zenon DEF Succeeded
  <2>2. SuccessIsFresh'
    <3> SUFFICES ASSUME NEW q \in Shells, Succeeded(q)'
                 PROVE  LET e == sh'[q].script.of IN
                        /\ {x[1] : x \in got'[q]} = StatementSources(e) \cup {"flags", "args"}
                        /\ \A x \in got'[q] : x[1] \in Tracked(e) => x[2] >= began'[q][x[1]]
                        /\ \A x \in got'[q] : x[1] = "args" => x[2] = sh'[q].script.args
      BY Zenon DEF SuccessIsFresh
    <3>1. sh'[q] = sh[q] /\ Succeeded(q) /\ began'[q] = began[q] /\ got'[q] = got[q] BY <2>1, Zenon
    <3> QED BY <3>1, Zenon DEF SuccessIsFresh
  <2>3. CleanReconfigures' BY <1>1, <2>1, Zenon DEF CleanReconfigures
  <2> QED BY <2>2, <2>3
<1>20. NoWedge' BY <1>18, Zenon DEF NoWedge, Cmd
<1> QED BY <1>10, <1>11, <1>12, <1>13, <1>15, <1>16, <1>19, <1>20, Zenon

\* A test skips only what is there, which serves: it follows no source, and for
\* run_grit is of the last configuration.
LEMMA TestStep ==
  ASSUME PipelineInv, plan' = plan, NEW p \in Shells, Test(p)
  PROVE  PipelineInv'
<1> USE DEF PipelineInv
<1> DEFINE s == sh[p].script
           c == Body[s][sh[p].pc]
           n == IF c.out \in have THEN c.skip ELSE 0
<1>1. /\ Running(p) /\ c.kind = "test" /\ have' = have /\ from' = from /\ Advance(p, n)
      /\ src' = src /\ began' = began /\ broke' = broke
  BY Zenon DEF Test, Cmd, envVars
<1>2. /\ s \in AllScripts /\ sh[p].pc \in Nat /\ Len(Body[s]) \in Nat /\ sh[p].pc \in 1 .. Len(Body[s])
  BY <1>1, RunningShell, RunningNotIdle, Zenon
<1>3. /\ s # CleanScript /\ TestOK(c, s) /\ c.skip \in Nat /\ sh[p].pc + c.skip <= Len(Body[s])
      /\ \A j \in sh[p].pc + 1 .. sh[p].pc + c.skip : Body[s][j].kind = "tool" /\ Body[s][j].out \in Behind(c.out)
  <2> DEFINE i == sh[p].pc
  <2>1. s \in AllScripts /\ i \in 1 .. Len(Body[s]) /\ Body[s][i].kind = "test" BY <1>1, <1>2, Zenon
  <2> HIDE DEF s, i
  <2>2. /\ s # CleanScript /\ TestOK(Body[s][i], s)
        /\ Body[s][i].skip \in Nat /\ i + Body[s][i].skip <= Len(Body[s])
        /\ \A j \in i + 1 .. i + Body[s][i].skip :
             Body[s][j].kind = "tool" /\ Body[s][j].out \in Behind(Body[s][i].out)
    BY ONLY <2>1, TestCommand, Zenon
  <2> QED BY ONLY <2>2, Zenon DEF c, i
<1>4. n \in Nat /\ sh[p].pc + n <= Len(Body[s])
  <2> DEFINE L == Len(Body[s])
             k == c.skip
  <2>1. L \in Nat /\ k \in Nat /\ sh[p].pc \in 1 .. L /\ sh[p].pc + k <= L BY <1>2, <1>3, Zenon
  <2>2. n = k \/ n = 0 BY Zenon
  <2> HIDE DEF L, k, n
  <2> QED BY <2>1, <2>2 DEF L
<1>5. wiped' = wiped
  <2>1. s.name # "clean"
    <3>1. s \in AllScripts /\ s # CleanScript BY <1>2, <1>3, Zenon
    <3> HIDE DEF s
    <3> QED BY ONLY <3>1 DEF AllScripts, Script, CleanScript
  <2> QED BY <1>1, <2>1, Zenon DEF Advance
<1>6. FromParts' /\ KeptInOrder' /\ Reconfigured' BY <1>1, <1>5, Zenon DEF FromParts, KeptInOrder, Reconfigured
<1>7. have' \subseteq Files /\ from' \in [Files -> SUBSET (Names \X Nat)] BY <1>1, Zenon DEF PipelineTypeOK
<1>8. ASSUME NEW q \in Shells, Running(q), NEW i \in 1 .. sh[q].pc - 1, Body[sh[q].script][i].kind = "tool"
      PROVE  ServesIn(have', from', wiped', began[q], sh[q].script, Body[sh[q].script][i].out)
  BY <1>1, <1>5, <1>8, Zenon DEF MadeSoFar, Serves
<1>9. ASSUME NEW i \in sh[p].pc + 1 .. sh[p].pc + c.skip, c.out \in have
      PROVE  ServesIn(have', from', wiped', began[p], s, Body[s][i].out)
  <2> DEFINE f == Body[s][i].out
  <2>1. f \in Behind(c.out) /\ c.out \in Guards /\ (IsGrit(s) => c.out \in CleanFiles)
    BY <1>3, Zenon DEF TestOK
  <2> HIDE DEF f, c
  <2>2. /\ f \in Files /\ Track(f) = {} /\ "args" \notin Parts(f)
        /\ (c.out \in CleanFiles \/ c.out # "libssl.a" => Behind(c.out) = {c.out})
    BY <2>1, GuardTable, Zenon
  <2>3. f \in have
    <3>1. CASE c.out = "libssl.a"
      <4>1. f \in Kept BY <2>1, <3>1, Zenon DEF Behind
      <4> QED BY <1>9, <3>1, <4>1 DEF KeptInOrder, Kept
    <3>2. CASE c.out # "libssl.a"
      <4>1. f = c.out BY <2>1, <2>2, <3>2
      <4> QED BY <1>9, <4>1, SMTT(60)
    <3> QED BY <3>1, <3>2, SMTT(60)
  <2>4. \A x \in from[f] : x[1] \in Parts(f) BY <2>3, Zenon DEF FromParts
  <2>5. IsGrit(s) => \A x \in from[f] : x[1] = "flags" => x[2] >= wiped
    <3>1. IsGrit(s) => f \in CleanFiles BY <2>1, <2>2, SMTT(60)
    <3> QED BY <2>3, <3>1, Zenon DEF Reconfigured
  <2>6. \A x \in from[f] : x[1] # "args" /\ x[1] \notin Track(f) BY <2>2, <2>4
  <2>7. ServesIn(have, from, wiped, began[p], s, f) BY <2>3, <2>5, <2>6, Zenon DEF ServesIn
  <2> QED BY <1>1, <1>5, <2>7, Zenon DEF f
<1>10. ASSUME NEW i \in 1 .. sh[p].pc + n, Body[s][i].kind = "tool"
       PROVE  ServesIn(have', from', wiped', began[p], s, Body[s][i].out)
  <2>1. i # sh[p].pc
    <3>1. "test" # "tool" BY SMTT(60)
    <3> QED BY <1>1, <1>10, <3>1, ZenonT(60)
  <2>2. i \in 1 .. sh[p].pc - 1 \/ (i \in sh[p].pc + 1 .. sh[p].pc + c.skip /\ c.out \in have)
    <3> HIDE DEF c, s
    <3> QED BY <1>2, <1>3, <2>1, SMTT(60)
  <2> QED BY <1>1, <1>8, <1>9, <1>10, <2>2, Zenon
<1> HIDE DEF n
<1>11. s = CleanScript => \A i \in 1 .. sh[p].pc + n : Body[CleanScript][i].rm \cap have' = {} BY <1>3, Zenon
<1> QED BY <1>1, <1>4, <1>6, <1>7, <1>8, <1>10, <1>11, AdvanceStep, Zenon

\* clean removes, alone; when it is through, all of the configuration is gone.
LEMMA RemoveStep ==
  ASSUME PipelineInv, plan' = plan, NEW p \in Shells, Remove(p)
  PROVE  PipelineInv'
<1> USE DEF PipelineInv
<1> DEFINE s == sh[p].script
           b == Body[CleanScript]
           c == b[sh[p].pc]
<1>1. /\ Running(p) /\ Body[s][sh[p].pc].kind = "rm" /\ have' = have \ Body[s][sh[p].pc].rm /\ from' = from
      /\ Advance(p, 0) /\ src' = src /\ began' = began /\ broke' = broke
  BY Zenon DEF Remove, Cmd, envVars
<1>2. /\ s \in AllScripts /\ s \in plan.scripts /\ p \in plan.shells
      /\ sh[p].pc \in Nat /\ Len(Body[s]) \in Nat /\ sh[p].pc \in 1 .. Len(Body[s])
  BY <1>1, RunningShell, RunningNotIdle, Zenon
<1>3. s = CleanScript /\ Body[s][sh[p].pc].rm \cap Kept = {}
  <2> DEFINE i == sh[p].pc
  <2>1. s \in AllScripts /\ i \in 1 .. Len(Body[s]) /\ Body[s][i].kind = "rm" BY <1>1, <1>2, Zenon
  <2> HIDE DEF s, i
  <2>2. s = CleanScript /\ Body[s][i].rm \cap Kept = {} BY ONLY <2>1, RmCommand, Zenon
  <2> QED BY ONLY <2>2, Zenon DEF i
<1>4. c.rm \cap Kept = {} /\ have' = have \ c.rm BY <1>1, <1>3, Zenon
<1>5. 0 \in Nat /\ sh[p].pc + 0 <= Len(Body[s]) /\ sh[p].pc + 0 = sh[p].pc BY <1>2
<1>6. have' \subseteq Files /\ from' \in [Files -> SUBSET (Names \X Nat)]
  <2>1. have \subseteq Files /\ from \in [Files -> SUBSET (Names \X Nat)] BY Zenon DEF PipelineTypeOK
  <2> QED BY <1>1, <1>4, <2>1, Zenon
<1> HIDE DEF c
<1>7. FromParts' BY <1>1, <1>4, Zenon DEF FromParts
<1>8. KeptInOrder' BY <1>4, SMTT(60) DEF KeptInOrder, Kept
<1>9. \A i \in 1 .. sh[p].pc : b[i].rm \cap have' = {}
  <2> SUFFICES ASSUME NEW i \in 1 .. sh[p].pc PROVE b[i].rm \cap have' = {} BY SMTT(60)
  <2>1. CASE i = sh[p].pc BY <1>4, <2>1, SMTT(60) DEF c
  <2>2. CASE i # sh[p].pc
    <3>1. i \in 1 .. sh[p].pc - 1 BY <1>2, <2>2
    <3>2. b[i].rm \cap have = {} BY <1>1, <1>3, <3>1, Zenon DEF RemovedSoFar
    <3> QED BY <1>4, <3>2, SMTT(60)
  <2> QED BY <2>1, <2>2, SMTT(60)
<1>10. Reconfigured'
  <2>1. CASE wiped' = wiped BY <1>1, <1>4, <2>1, Zenon DEF Reconfigured
  <2>2. CASE wiped' # wiped
    <3>1. sh[p].pc + 1 + 0 > Len(Body[s]) BY <1>1, <2>2, Zenon DEF Advance
    <3>2. sh[p].pc = Len(b)
      <4>1. sh[p].pc = Len(Body[s]) BY <1>2, <3>1, SMTT(60)
      <4> QED BY <1>3, <4>1, Zenon
    <3>3. \A f \in CleanFiles : f \notin have' BY <1>9, <3>2, CleanBody DEF Removes
    <3> QED BY <3>3 DEF Reconfigured
  <2> QED BY <2>1, <2>2
<1>11. \A q \in Shells : ~(Running(q) /\ q # p) BY <1>2, <1>3, Alone, RunningNotIdle, Zenon
<1>12. ASSUME NEW i \in 1 .. sh[p].pc + 0 PROVE Body[s][i].kind # "tool"
  <2>1. i \in 1 .. Len(Body[s]) BY <1>2
  <2> HIDE DEF s
  <2> QED BY <1>2, <1>3, <2>1, ToolCommand, Zenon
<1>13. s = CleanScript => \A i \in 1 .. sh[p].pc + 0 : Body[CleanScript][i].rm \cap have' = {}
  BY <1>5, <1>9, Zenon
<1> QED BY <1>1, <1>5, <1>6, <1>7, <1>8, <1>10, <1>11, <1>12, <1>13, AdvanceStep, Zenon

\* A tool's output serves every script that has come past a tool for the same
\* file: all of these read the same files, which serve it.
LEMMA MakeStep ==
  ASSUME PipelineInv, plan' = plan, NEW p \in Shells, Make(p)
  PROVE  PipelineInv'
<1> USE DEF PipelineInv
<1> DEFINE s == sh[p].script
           c == Body[s][sh[p].pc]
<1>1. /\ Running(p) /\ c.kind = "tool" /\ have' = have \cup {c.out} /\ from' = [from EXCEPT ![c.out] = Made(c)]
      /\ c.needs \subseteq have
      /\ Advance(p, 0) /\ src' = src /\ began' = began /\ broke' = broke
  BY DEF Make, CanSucceed, Cmd, envVars, Made
<1>2. /\ s \in AllScripts /\ s \in plan.scripts /\ p \in plan.shells
      /\ sh[p].pc \in Nat /\ Len(Body[s]) \in Nat /\ sh[p].pc \in 1 .. Len(Body[s])
  BY <1>1, RunningShell, RunningNotIdle, Zenon
<1>3. s # CleanScript /\ ToolOK(c, s) /\ c.needs \subseteq Files /\ c.uses \subseteq Sources
  <2> DEFINE i == sh[p].pc
  <2>1. s \in AllScripts /\ i \in 1 .. Len(Body[s]) /\ Body[s][i].kind = "tool" BY <1>1, <1>2, Zenon
  <2> HIDE DEF s, i
  <2>2. /\ s # CleanScript /\ ToolOK(Body[s][i], s)
        /\ Body[s][i].needs \subseteq Files /\ Body[s][i].uses \subseteq Sources
    BY ONLY <2>1, ToolCommand, Zenon
  <2> QED BY ONLY <2>2, Zenon DEF c, i
<1>4. c.out \in Files /\ c.needs = Needs(c.out) BY <1>3, Zenon DEF ToolOK
<1>5. wiped' = wiped
  <2>1. s.name # "clean"
    <3>1. s \in AllScripts /\ s # CleanScript BY <1>2, <1>3, Zenon
    <3> HIDE DEF s
    <3> QED BY ONLY <3>1 DEF AllScripts, Script, CleanScript
  <2> QED BY <1>1, <2>1, Zenon DEF Advance
<1> HIDE DEF c
<1>6. Made(c) \in SUBSET (Names \X Nat) BY <1>2, <1>3, MadeType, Zenon
<1>7. have' \subseteq Files /\ from' \in [Files -> SUBSET (Names \X Nat)]
      /\ from'[c.out] = Made(c) /\ \A f \in Files : f # c.out => from'[f] = from[f]
  <2> DEFINE T == SUBSET (Names \X Nat)
  <2>1. have \subseteq Files /\ from \in [Files -> T] /\ Made(c) \in T BY <1>6, ZenonT(60) DEF PipelineTypeOK
  <2> HIDE DEF T, Files
  <2>2. have' \subseteq Files /\ from' \in [Files -> T]
        /\ from'[c.out] = Made(c) /\ \A f \in Files : f # c.out => from'[f] = from[f]
    BY <1>1, <1>4, <2>1, SMTT(60)
  <2> QED BY <2>2, Zenon DEF T
<1>8. FromParts'
  <2> SUFFICES ASSUME NEW f \in have' PROVE {x[1] : x \in from'[f]} = Parts(f) BY Zenon DEF FromParts
  <2>1. CASE f = c.out
    <3>1. {x[1] : x \in Made(c)} = Parts(c.out) BY <1>1, <1>2, <1>3, MadeParts, Zenon
    <3> QED BY <1>7, <2>1, <3>1
  <2>2. CASE f # c.out
    <3>1. f \in have /\ f \in Files BY <1>1, <1>7, <2>2, SMTT(60)
    <3>2. from'[f] = from[f] BY <1>7, <2>2, <3>1, SMTT(60)
    <3> QED BY <3>1, <3>2, Zenon DEF FromParts
  <2> QED BY <2>1, <2>2
<1>9. KeptInOrder' BY <1>1, <1>4, NeedsTable, SMTT(60) DEF KeptInOrder
<1>10. Reconfigured'
  <2> SUFFICES ASSUME NEW f \in have' \cap CleanFiles, NEW x \in from'[f], x[1] = "flags" PROVE x[2] >= wiped
    BY <1>5, Zenon DEF Reconfigured
  <2>1. CASE f # c.out
    <3>1. f \in have \cap CleanFiles /\ f \in Files BY <1>1, <1>7, <2>1, SMTT(60)
    <3>2. x \in from[f] BY <1>7, <2>1, <3>1
    <3> QED BY <3>1, <3>2, ZenonT(60) DEF Reconfigured
  <2>2. CASE f = c.out
    <3>1. x \in Made(c) BY <1>7, <2>2, SMTT(60)
    <3>2. c.needs \subseteq CleanFiles
      <4>1. c.out \in CleanFiles => Needs(c.out) \subseteq CleanFiles BY <1>4, FileTable, Zenon
      <4>2. c.out \in CleanFiles BY <2>2
      <4> QED BY <1>4, <4>1, <4>2
    <3>3. CASE \E g \in c.needs : x \in from[g] BY <1>1, <3>2, <3>3, Zenon DEF Reconfigured
    <3>4. CASE \E n \in c.uses : x = <<n, src[n]>>
      <4>1. x[2] = src["flags"] BY <3>4
      <4>2. wiped <= src["flags"] /\ wiped \in Nat BY Zenon DEF Times, PipelineTypeOK
      <4>3. src["flags"] \in Nat
        <5>1. src \in [Sources -> Nat] BY Zenon DEF PipelineTypeOK
        <5>2. "flags" \in Sources BY DEF Sources
        <5> QED BY <5>1, <5>2, Zenon
      <4> QED BY <4>1, <4>2, <4>3, SMTT(60)
    <3>5. CASE x \in c.args
      <4>1. x = <<"args", s.args>> BY <1>3, <3>5, SMTT(120) DEF ToolOK
      <4> QED BY <4>1, SMTT(60)
    <3> QED BY <3>1, <3>3, <3>4, <3>5, MadeFrom, Zenon
  <2> QED BY <2>1, <2>2
<1>11. ASSUME NEW q \in Shells, Running(q), NEW i \in 1 .. sh[q].pc, i # sh[q].pc \/ q = p,
              Body[sh[q].script][i].kind = "tool"
       PROVE  ServesIn(have', from', wiped', began[q], sh[q].script, Body[sh[q].script][i].out)
  <2> DEFINE u == sh[q].script
             d == Body[u][i]
  <2>1. /\ u \in AllScripts /\ u \in plan.scripts /\ q \in plan.shells
        /\ sh[q].pc \in Nat /\ Len(Body[u]) \in Nat /\ sh[q].pc \in 1 .. Len(Body[u])
    BY <1>11, RunningShell, RunningNotIdle, Zenon
  <2>2. i \in 1 .. Len(Body[u]) BY <2>1
  <2>3. ToolOK(d, u)
    <3>1. u \in AllScripts /\ Body[u][i].kind = "tool" BY <1>11, <2>1, Zenon
    <3> HIDE DEF u
    <3>2. ToolOK(Body[u][i], u) BY ONLY <2>2, <3>1, ToolCommand, Zenon
    <3> QED BY ONLY <3>2, Zenon DEF d
  <2>4. d.out \in Files /\ d.needs = Needs(d.out) BY <2>3, Zenon DEF ToolOK
  <2>5. CASE d.out = c.out
    <3>1. \A f \in d.needs : Serves(q, f) BY <1>11, NeedsServed, Zenon
    <3>2. \A f \in c.needs : ServesIn(have, from, wiped, began[q], u, f)
      BY <1>4, <2>4, <2>5, <3>1, ZenonT(60) DEF Serves
    <3>3. c.args # {} => s.args = u.args
      <4> SUFFICES ASSUME c.args # {} PROVE s.args = u.args BY SMTT(60)
      <4>1. "args" \in Parts(c.out) BY <1>3 DEF ToolOK
      <4>2. PICK e \in Examples : c.out \in {Cbor[e], Sieve[e]} BY <1>4, <4>1, FileTable, Zenon
      <4>3. s.name = "run" /\ s.of = e BY <1>3, <4>2, Zenon DEF ToolOK
      <4>4. u.name = "run" /\ u.of = e BY <2>3, <2>5, <4>2, ZenonT(60) DEF ToolOK
      <4>5. CASE q = p BY <4>5
      <4>6. CASE q # p
        <5>1. Undisturbed(plan) BY Zenon DEF PipelineTypeOK
        <5>2. ~ \E r \in Shells : plan.shells \subseteq {r} BY <1>2, <2>1, <4>6
        <5> QED BY <1>2, <2>1, <4>3, <4>4, <5>1, <5>2, Zenon DEF Undisturbed
      <4> QED BY <4>5, <4>6, SMTT(60)
    <3>4. ServesIn(have \cup {c.out}, from', wiped, began[q], u, c.out)
      <4> HIDE DEF u, d, s
      <4> QED BY <1>2, <1>3, <1>7, <3>2, <3>3, MakeServes, Zenon
    <3> QED BY <1>1, <1>5, <2>5, <3>4, Zenon
  <2>6. CASE d.out # c.out
    <3>1. ~(q = p /\ i = sh[q].pc) BY <2>6, Zenon DEF c
    <3>2. i \in 1 .. sh[q].pc - 1 BY <1>11, <2>1, <3>1, SMTT(60)
    <3>3. Serves(q, d.out) BY <1>11, <3>2, Zenon DEF MadeSoFar
    <3>4. from'[d.out] = from[d.out] BY <1>7, <2>4, <2>6, ZenonT(60)
    <3>5. d.out \in have => d.out \in have' BY <1>1
    <3> QED BY <1>5, <3>3, <3>4, <3>5, Zenon DEF Serves, ServesIn
  <2> QED BY <2>5, <2>6
<1>12. 0 \in Nat /\ sh[p].pc + 0 <= Len(Body[s]) /\ sh[p].pc + 0 = sh[p].pc BY <1>2
<1>13. ASSUME NEW q \in Shells, Running(q), q # p, NEW i \in 1 .. sh[q].pc - 1, Body[sh[q].script][i].kind = "tool"
       PROVE  ServesIn(have', from', wiped', began[q], sh[q].script, Body[sh[q].script][i].out)
  <2>1. sh[q].pc \in Nat BY <1>13, RunningShell, RunningNotIdle, Zenon
  <2>2. i \in 1 .. sh[q].pc /\ i # sh[q].pc BY <2>1
  <2> QED BY <1>11, <1>13, <2>2, Zenon
<1>14. \A i \in 1 .. sh[p].pc + 0 : Body[s][i].kind = "tool" =>
         ServesIn(have', from', wiped', began[p], s, Body[s][i].out)
  BY <1>1, <1>11, <1>12, Zenon
<1>15. s = CleanScript => \A i \in 1 .. sh[p].pc + 0 : Body[CleanScript][i].rm \cap have' = {} BY <1>3, Zenon
<1> QED BY <1>1, <1>7, <1>8, <1>9, <1>10, <1>12, <1>13, <1>14, <1>15, AdvanceStep, ZenonT(120)

\* A tool finds the files it reads, so only its log may be missing.
LEMMA CannotMakeStep ==
  ASSUME PipelineInv, plan' = plan, NEW p \in Shells, CannotMake(p)
  PROVE  PipelineInv'
<1> USE DEF PipelineInv
<1>1. /\ Running(p) /\ Cmd(p).kind = "tool" /\ ~CanSucceed(p) /\ AfterFailure(p)
      /\ have' = have /\ from' = from /\ src' = src /\ began' = began /\ broke' = broke
  BY Zenon DEF CannotMake, envVars
<1>2. sh[p].pc \in Nat /\ sh[p].pc >= 1 BY <1>1, RunningShell, RunningNotIdle, Zenon
<1>3. sh[p].pc \in 1 .. sh[p].pc BY <1>2
<1>4. \A f \in Cmd(p).needs : f \in have
  BY <1>1, <1>3, NeedsServed, Zenon DEF Cmd, Serves, ServesIn
<1>5. sh[p].start \notin Cmd(p).at BY <1>1, <1>4, Zenon DEF CanSucceed
<1>6. Abort(p) BY <1>1, <1>5, Zenon DEF AfterFailure
<1>7. broke' \in [Shells -> BOOLEAN] BY <1>1, Zenon DEF PipelineTypeOK
<1> QED BY <1>1, <1>5, <1>6, <1>7, AbortStep, Zenon

\* A tool that fails stops its script, since those behind tee do not fail.
LEMMA ToolFailsStep ==
  ASSUME PipelineInv, plan' = plan, TeeFails = FALSE, NEW p \in Shells, ToolFails(p)
  PROVE  PipelineInv'
<1> USE DEF PipelineInv
<1>1. /\ Running(p) /\ AfterFailure(p) /\ broke' = [broke EXCEPT ![p] = TRUE]
      /\ have' = have /\ from' = from /\ src' = src /\ began' = began
  BY Zenon DEF ToolFails, envVars
<1>2. ~Cmd(p).tee BY Zenon DEF ToolFails
<1>3. Abort(p) BY <1>1, <1>2, Zenon DEF AfterFailure
<1>4. broke \in [Shells -> BOOLEAN] BY Zenon DEF PipelineTypeOK
<1>5. broke' \in [Shells -> BOOLEAN] /\ broke'[p] /\ \A q \in Shells : q # p => broke'[q] = broke[q]
  BY <1>1, <1>4, Zenon
<1> QED BY <1>1, <1>3, <1>5, AbortStep, Zenon

\* So does an interruption.
LEMMA InterruptStep ==
  ASSUME PipelineInv, plan' = plan, NEW p \in Shells, Interrupt(p)
  PROVE  PipelineInv'
<1> USE DEF PipelineInv
<1>1. /\ Running(p) /\ Abort(p) /\ broke' = [broke EXCEPT ![p] = TRUE]
      /\ have' = have /\ from' = from /\ src' = src /\ began' = began
  BY Zenon DEF Interrupt, envVars
<1>2. broke \in [Shells -> BOOLEAN] BY Zenon DEF PipelineTypeOK
<1>3. broke' \in [Shells -> BOOLEAN] /\ broke'[p] /\ \A q \in Shells : q # p => broke'[q] = broke[q]
  BY <1>1, <1>2, Zenon
<1> QED BY <1>1, <1>3, AbortStep, Zenon

-----------------------------------------------------------------------------
(* The theorems.                                                            *)

\* Every step keeps the invariant.
LEMMA NextInv ==
  ASSUME TeeFails = FALSE, PipelineInv, [Next]_vars
  PROVE  PipelineInv'
<1>1. CASE UNCHANGED vars
  <2>1. /\ plan' = plan /\ src' = src /\ have' = have /\ from' = from /\ sh' = sh /\ began' = began
        /\ broke' = broke /\ got' = got /\ wiped' = wiped
    BY <1>1, Zenon DEF vars
  <2> QED BY <2>1 DEF PipelineInv, PipelineTypeOK, ShellsOK, ShellOK, Times, FromParts, KeptInOrder, MadeSoFar,
       Serves, Reconfigured, RemovedSoFar, SuccessIsFresh, NoWedge, CleanReconfigures, Running, Succeeded, Cmd
<1>2. CASE Next
  <2>1. plan' = plan BY <1>2, Zenon DEF Next
  <2>2. plan.shells \subseteq Shells
    <3>1. plan \in PlanType BY PipelineConstants, Zenon DEF PipelineInv, PipelineTypeOK
    <3> QED BY <3>1, Zenon DEF PlanType
  <2>3. ASSUME NEW s \in Sources, Edit(s) PROVE PipelineInv' BY <2>1, <2>3, EditStep, Zenon
  <2>4. ASSUME NEW p \in plan.shells, NEW s \in plan.scripts, NEW at \in plan.starts, Start(p, s, at)
        PROVE  PipelineInv'
    BY <2>1, <2>4, StartStep, Zenon
  <2>5. ASSUME NEW p \in plan.shells, shell(p) PROVE PipelineInv'
    <3>1. p \in Shells BY <2>2, Zenon
    <3>2. CASE Test(p) BY <2>1, <3>1, <3>2, TestStep, Zenon
    <3>3. CASE Remove(p) BY <2>1, <3>1, <3>3, RemoveStep, ZenonT(60)
    <3>4. CASE Make(p) BY <2>1, <3>1, <3>4, MakeStep, Zenon
    <3>5. CASE CannotMake(p) BY <2>1, <3>1, <3>5, CannotMakeStep, Zenon
    <3>6. CASE ToolFails(p) BY <2>1, <3>1, <3>6, ToolFailsStep, Zenon
    <3>7. CASE Interrupt(p) BY <2>1, <3>1, <3>7, InterruptStep, Zenon
    <3> QED BY <2>5, <3>2, <3>3, <3>4, <3>5, <3>6, <3>7, Zenon DEF shell
  <2> QED BY <1>2, <2>3, <2>4, <2>5, Zenon DEF Next
<1> QED BY <1>1, <1>2, SMTT(120)

\* The invariant holds of every behaviour.
LEMMA Invariant ==
  ASSUME TeeFails = FALSE, \A pl \in Plans : Undisturbed(pl)
  PROVE  Spec => []PipelineInv
<1>1. Init => PipelineInv BY InitInv, Zenon
<1>2. PipelineInv /\ [Next]_vars => PipelineInv' BY NextInv, Zenon
<1> QED BY <1>1, <1>2, PTL DEF Spec

\* A run_ script that exits with status 0 leaves a circuit made by its own
\* variant from sources none older than when it began, whatever failed, was
\* interrupted or edited before, as long as no tool behind tee fails and the
\* shells do not get in each other's way.
THEOREM Fresh ==
  ASSUME TeeFails = FALSE, \A pl \in Plans : Undisturbed(pl)
  PROVE  Spec => []SuccessIsFresh
<1>1. PipelineInv => SuccessIsFresh BY Zenon DEF PipelineInv
<1> QED BY <1>1, Invariant, PTL

\* Under the same assumptions a script fails only because one of its own tools
\* does, it is interrupted, or tee cannot open its log: never because of what
\* another script has left behind.
THEOREM Unwedged ==
  ASSUME TeeFails = FALSE, \A pl \in Plans : Undisturbed(pl)
  PROVE  Spec => []NoWedge
<1>1. PipelineInv => NoWedge BY Zenon DEF PipelineInv
<1> QED BY <1>1, Invariant, PTL

\* Under the same assumptions a circuit of run_grit was configured with options
\* not older than the last clean that ended well.
THEOREM Cleaned ==
  ASSUME TeeFails = FALSE, \A pl \in Plans : Undisturbed(pl)
  PROVE  Spec => []CleanReconfigures
<1>1. PipelineInv => CleanReconfigures BY Zenon DEF PipelineInv
<1> QED BY <1>1, Invariant, PTL
=============================================================================

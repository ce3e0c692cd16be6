----------------------------- MODULE MCPipeline -----------------------------
(* Small instances of Pipeline for TLC. *)
EXTENDS Pipeline, TLC

Plan(shells, scripts, starts, e, f) ==
  [shells |-> shells, scripts |-> scripts, starts |-> starts, edits |-> e, fails |-> f]

\* grit in two variants, and clean.
GritScripts ==
  {Script("run", "grit", 0), Script("run", "grit", 1), Script("clean", "all", 0)}

\* openssl in two variants.
OpensslScripts == {Script("run", "openssl", 0), Script("run", "openssl", 2)}

\* Two examples that share the runtime libraries.
PairScripts == {Script("run", "grit", 0), Script("run", "ffmpeg", 2), Script("build", "picolibc", 0)}

\* Scripts whose relative paths hold from different places.
StartScripts == {Script("run", "grit", 0), Script("run", "openssl", 0)}

MCPlans ==
  {Plan({"p1"}, GritScripts, {"root"}, 2, 1),
   Plan({"p1"}, OpensslScripts, {"absolute"}, 2, 2),
   Plan({"p1", "p2"}, PairScripts, {"root"}, 1, 0),
   Plan({"p1"}, StartScripts, AllStarts, 1, 0)}

GritPlan == {Plan({"p1"}, GritScripts, {"root"}, 1, 1)}
=============================================================================

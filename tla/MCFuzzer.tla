------------------------------ MODULE MCFuzzer ------------------------------
(* FuzzerDriver with units a, b, c of length 1, 2, 3 and d as long as b,     *)
(* and four inputs to merge, the first one in the first corpus.              *)
EXTENDS FuzzerDriver

MCUnits == {"a", "b", "c", "d"}
MCForkUnits == {"a", "b", "c"}
MCSize == [u \in MCUnits |-> CASE u = "a" -> 1 [] u = "c" -> 3 [] OTHER -> 2]
MCSizes == <<2, 1, 1, 3>>
MCMergeTargets ==
  {<<f1, f2, f3, {2}>> : f1 \in {{1}, {2}}, f2 \in {{2}, {1, 2}}, f3 \in {{1}, {1, 2}}}

MCOptions == {{"reduce"}, {"shrink", "reduce", "keep"}}
MCFuzzTargets ==
  {t \in [MCUnits -> SUBSET {1, 2}] : t["c"] \in {{1}, {1, 2}} /\ t["b"] \in {{1}, {2}}}
MCOutputCorpora == {{}, {"c"}}
MCExtraSeeds == {{}, {"d"}}
MCModes == {{"dirs", "group"}, {"dirs", "keep"}, {"cover"}}
MCCorpora == {[main |-> {"b"}, side |-> {"b", "c"}]}

Target(fa, fb, fc) == [u \in MCForkUnits |-> CASE u = "a" -> fa [] u = "b" -> fb [] u = "c" -> fc]
MCForkTargets == {Target({1}, {1, 2}, {2})}
=============================================================================

--------------------------- MODULE MCBuildPipeline ---------------------------
(* Instances of BuildPipeline for TLC.                                     *)
EXTENDS BuildPipeline

CONSTANTS c1, c2, c3

SpecOf(crits, core, testable, asks) ==
  [criteria |-> crits, core |-> core, testable |-> testable,
   open_questions |-> asks]

\* What a respec may change: another order, one criterion instead of two, a
\* core criterion that is not testable, open questions.
ManySpecs ==
  {SpecOf(<<c1, c2>>, c1, {c1, c2}, FALSE),
   SpecOf(<<c1, c2>>, c2, {c1, c2}, TRUE),
   SpecOf(<<c1, c2>>, c1, {c2}, FALSE),
   SpecOf(<<c2>>, c2, {}, FALSE)}

\* Three testable criteria.
ThreeCriteria == {SpecOf(<<c1, c2, c3>>, c1, {c1, c2, c3}, FALSE)}
=============================================================================

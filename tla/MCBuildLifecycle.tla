--------------------------- MODULE MCBuildLifecycle ---------------------------
(* Instances of BuildLifecycle for TLC.                                    *)
EXTENDS BuildLifecycle, MCBuildPipeline

\* Two testable criteria.
TwoCriteria == {SpecOf(<<c1, c2>>, c1, {c1, c2}, FALSE)}
=============================================================================

----------------------------- MODULE MCCoderLoop -----------------------------
\* Small instances of the inner view of P4: without a cap, with one per run,
\* with one per iteration.
EXTENDS CoderLoop

BudgetChoices == {[run |-> 0, iter |-> 0], [run |-> 5, iter |-> 0],
                  [run |-> 0, iter |-> 4]}
=============================================================================

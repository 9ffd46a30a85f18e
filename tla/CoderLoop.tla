------------------------------ MODULE CoderLoop ------------------------------
(***************************************************************************)
(* One iteration of P4 seen from inside (p4_iterate in pipeline.py,        *)
(* coder.py, integrity.py) under the meter that counts the model calls     *)
(* (models.py): the tester writes a test, the probe runs it, the coder     *)
(* answers and is verified up to MaxAttempts times, the outcome is judged, *)
(* committed or rolled back, and the critic looks at it.  BuildPipeline    *)
(* takes all of this as one step; here are the steps that can go wrong in  *)
(* between: an answer written half, a revert, an edit the scanner flags, a *)
(* call that fails, a cap that cuts the run.                               *)
(*                                                                         *)
(* A file is abstracted to what the gates see of it: the template's stub,  *)
(* code, text that does not parse or lost an export (`gutted'), text that  *)
(* the diff scanner flags (`tampering').  Whether the suite is green on a  *)
(* tree is up to the tree and the test, so it is chosen freely.            *)
(***************************************************************************)
EXTENDS Integers, Sequences, Functions

CONSTANTS
  File,         \* template.editable_files, all of them stamped by P3
  Red,          \* signatures of failing suites
  MaxAttempts,  \* config max_fix_attempts
  Caps,         \* the budgets a run may be configured with; 0 is `no cap'
  MaxVisits,    \* bound: iterations
  MaxRuns       \* bound: processes (the first, and those that resume)

ASSUME CoderAssumption ==
  /\ MaxAttempts \in Nat \ {0} /\ MaxVisits \in Nat /\ MaxRuns \in Nat
  /\ Caps \subseteq [run : Nat, iter : Nat]
  /\ Red \cap {"none", "refused", "gate", "integrity"} = {}

VARIABLES
  pc,          \* where the run is; "down" when no process works on the build
  resume_at,   \* where the node starts over that was not checkpointed
  head, tree,  \* the text of each file: committed, in the workspace
  attempt,     \* of the tester or of the coder
  failure,     \* what the coder is told: a signature, or "none"
  sigs,        \* CoderResult.signatures
  passed,      \* CoderResult.passed
  incident,    \* integrity.blocking(incidents)
  outcome,     \* it_status
  stuck,       \* coder_stuck
  caps, run_calls, iter_calls,  \* METER
  visits, runs

loopVars  == <<attempt, failure, sigs, passed, incident>>
endVars   == <<outcome, stuck>>
meterVars == <<caps, run_calls, iter_calls>>
bounds    == <<visits, runs>>
vars == <<pc, resume_at, head, tree, loopVars, endVars, meterVars, bounds>>

Text == {"stub", "code", "gutted", "tampering"}
Failure == {"refused", "gate", "integrity"} \cup Red
Tree == [File -> Text]
Met == {"green", "met-existing"}
Outcome == Met \cup {"none", "incident", "red-first-failed", "abandoned"}

Init ==
  /\ pc = "start" /\ resume_at = "start"
  /\ head = [f \in File |-> "stub"] /\ tree = head
  /\ attempt = 1 /\ failure = "none" /\ sigs = <<>>
  /\ passed = FALSE /\ incident = FALSE
  /\ outcome = "none" /\ stuck = FALSE
  /\ caps \in Caps /\ run_calls = 0 /\ iter_calls = 0
  /\ visits = 1 /\ runs = 1

-----------------------------------------------------------------------------
(* The meter                                                                *)

\* (wrong form: one call too many)
Within_OneMore(calls, cap) == cap = 0 \/ calls <= cap

Within(calls, cap) == cap = 0 \/ calls < cap

\* METER.count lets a call through, and charges it whether or not it is answered.
Call ==
  /\ Within(run_calls, caps.run) /\ Within(iter_calls, caps.iter)
  /\ run_calls' = run_calls + 1 /\ iter_calls' = iter_calls + 1
  /\ UNCHANGED caps

Calling == pc \in {"research", "author", "ask", "reflect", "critic"}

\* BudgetExceeded (a call cap, or at any call a wall-clock cap) passes every
\* `except Exception' on its way to _salvage_run, which resets the workspace.
Overrun ==
  /\ Calling /\ pc' = "down"
  /\ resume_at' = IF pc = "critic" THEN "critic" ELSE "start"
  /\ tree' = head
  /\ UNCHANGED <<head, loopVars, endVars, meterVars, bounds>>

-----------------------------------------------------------------------------
(* The tester and the red-first probe                                       *)

\* The start of P4: something may have to be looked up; then a test is written,
\* or the staged one used again.
Start ==
  /\ pc = "start" /\ pc' \in {"research", "author", "probe"}
  /\ iter_calls' = 0
  /\ attempt' = 1 /\ failure' = "none" /\ sigs' = <<>>
  /\ passed' = FALSE /\ incident' = FALSE
  /\ outcome' = "none" /\ stuck' = FALSE
  /\ UNCHANGED <<resume_at, head, tree, caps, run_calls, bounds>>

\* run_research: one call, which sums up what was found; if it fails, the notes
\* do without.
Research ==
  /\ pc = "research" /\ Call /\ pc' \in {"author", "probe"}
  /\ UNCHANGED <<resume_at, head, tree, loopVars, endVars, bounds>>

\* _tester_write: asked up to three times for a test that parses.
Author ==
  /\ pc = "author" /\ Call
  /\ \/ pc' = "probe" /\ attempt' = 1
     \/ attempt < 3 /\ attempt' = attempt + 1 /\ UNCHANGED pc
  /\ UNCHANGED <<resume_at, head, tree, failure, sigs, passed, incident, endVars,
                 bounds>>

RolledBack(it_status) == it_status \notin Met

\* (wrong form: only what was flagged is thrown away)
Close_KeepAbandoned(it_status) ==
  /\ outcome' = it_status
  /\ head' = IF it_status = "green" THEN tree ELSE head
  /\ tree' = IF it_status = "incident" THEN head ELSE tree

\* The end of P4: a green tree is committed, a failed one reset to HEAD.
Close(it_status) ==
  /\ outcome' = it_status
  /\ head' = IF it_status = "green" THEN tree ELSE head
  /\ tree' = IF RolledBack(it_status) THEN head ELSE tree

Struggled(it_status) ==
  attempt >= 2 \/ incident \/ it_status \in {"incident", "abandoned"}

\* _reflect: the coder is asked for a lesson when the iteration struggled; when
\* it did not, only after a medium incident of the research, or when forced.
Closing(it_status) ==
  pc' \in IF Struggled(it_status) THEN {"reflect"} ELSE {"reflect", "critic"}

\* The new test alone on the workspace.  Green is a violation on the bare stub
\* and "met by existing code" elsewhere (which of the two is BuildPipeline's
\* matter, and open here); neither asks the coder.
Probe ==
  /\ pc = "probe"
  /\ \/ /\ pc' = "ask" /\ UNCHANGED <<head, tree, endVars, incident>>
     \/ /\ pc' = "reflect" /\ Close("red-first-failed") /\ incident' = TRUE
        /\ UNCHANGED stuck
     \/ /\ Closing("met-existing") /\ Close("met-existing")
        /\ UNCHANGED <<incident, stuck>>
  /\ UNCHANGED <<resume_at, attempt, failure, sigs, passed, meterVars, bounds>>

-----------------------------------------------------------------------------
(* The coder: ask, apply, verify                                            *)

\* (wrong form: off by one)
Attempted_OneMore(f) ==
  IF attempt <= MaxAttempts
  THEN attempt' = attempt + 1 /\ pc' = "ask"
  ELSE UNCHANGED attempt /\ pc' = "judge"

\* The for loop of BespokeCoder.run.
Attempted(f) ==
  IF attempt < MaxAttempts
  THEN attempt' = attempt + 1 /\ pc' = "ask"
  ELSE UNCHANGED attempt /\ pc' = "judge"

\* The failure before this one joins the trail; this one is fed back.
Failed(f) ==
  /\ sigs' = IF failure = "none" THEN sigs ELSE Append(sigs, failure)
  /\ failure' = f
  /\ Attempted(f)

\* (wrong form: only the files of this answer are looked at)
Intact_WrittenOnly(edited) ==
  \A f \in File : edited[f] # tree[f] => edited[f] # "gutted"

\* _interface_problem: every editable file parses and keeps its exports.  (Each
\* template declares an interface; without one the code has no such gate.)
Intact(edited) == \A f \in File : edited[f] # "gutted"

\* An answer with no usable block, or with a path that is protected or not
\* allowed: refused, with the allowed files before that path already written.
AskRefused ==
  /\ pc = "ask" /\ Call
  /\ tree' \in Tree
  /\ Failed("refused")
  /\ UNCHANGED <<resume_at, head, passed, incident, endVars, bounds>>

\* Written, and put back: it broke the interface.
AskReverted ==
  /\ pc = "ask" /\ Call
  /\ \E edited \in Tree : ~Intact(edited)
  /\ Failed("gate")
  /\ UNCHANGED <<resume_at, head, tree, passed, incident, endVars, bounds>>

AskApplied ==
  /\ pc = "ask" /\ Call
  /\ \E edited \in Tree : Intact(edited) /\ tree' = edited
  /\ pc' = "verify"
  /\ UNCHANGED <<resume_at, head, loopVars, endVars, bounds>>

\* The model call raises: the coder gives up.
AskErrs ==
  /\ pc = "ask" /\ Call /\ pc' = "judge"
  /\ UNCHANGED <<resume_at, head, tree, loopVars, endVars, bounds>>

\* integrity.scan_diff of the workspace against the base commit.
Flagged == \E f \in File : tree[f] = "tampering" /\ head[f] # "tampering"

VerifyFlagged ==
  /\ pc = "verify" /\ Flagged
  /\ incident' = TRUE
  /\ Failed("integrity")
  /\ UNCHANGED <<resume_at, head, tree, passed, endVars, meterVars, bounds>>

VerifyRed ==
  /\ pc = "verify" /\ ~Flagged
  /\ \E r \in Red : Failed(r)
  /\ UNCHANGED <<resume_at, head, tree, passed, incident, endVars, meterVars,
                 bounds>>

VerifyGreen ==
  /\ pc = "verify" /\ ~Flagged
  /\ passed' = TRUE /\ pc' = "judge"
  /\ UNCHANGED <<resume_at, head, tree, attempt, failure, sigs, incident, endVars,
                 meterVars, bounds>>

\* The broker or the tester's model raises out of P4, which has no handler:
\* the process ends, and the workspace stays as it is.
Raised ==
  /\ pc \in {"author", "probe", "verify", "judge"} /\ pc' = "down"
  /\ UNCHANGED <<resume_at, head, tree, loopVars, endVars, meterVars, bounds>>

-----------------------------------------------------------------------------
(* The verdict on the coder, and what follows                               *)

Repeats(s) == ~IsInjective(s)

\* (wrong form: a green suite outweighs an earlier incident)
Verdict_PassedFirst ==
  IF passed THEN {"green", "incident"}
  ELSE IF incident THEN {"incident"} ELSE {"abandoned"}

\* An incident of any attempt stays; a green suite still has to show every
\* recorded test in the ledger.
Verdict ==
  IF incident THEN {"incident"}
  ELSE IF passed THEN {"green", "incident"} ELSE {"abandoned"}

Judge ==
  /\ pc = "judge"
  /\ \E v \in Verdict :
       /\ Close(v)
       /\ stuck' = (v = "abandoned" /\ Repeats(sigs))
       /\ incident' = (incident \/ v = "incident")
       /\ Closing(v)
  /\ UNCHANGED <<resume_at, attempt, failure, sigs, passed, meterVars, bounds>>

\* The lesson: a model call whose failure nobody minds.  Then the node is
\* checkpointed.
Reflect ==
  /\ pc = "reflect" /\ Call /\ pc' = "critic"
  /\ UNCHANGED <<resume_at, head, tree, loopVars, endVars, bounds>>

\* The critic asks a model only about a criterion that was met, and goes on
\* without it when the call fails.  Its calls are charged to the same iteration.
Critic ==
  /\ pc = "critic" /\ pc' = "done"
  /\ \/ outcome \in Met /\ Call
     \/ outcome \notin Met /\ UNCHANGED meterVars
  /\ UNCHANGED <<resume_at, head, tree, loopVars, endVars, bounds>>

NextVisit ==
  /\ pc = "done" /\ visits < MaxVisits
  /\ pc' = "start" /\ visits' = visits + 1
  /\ UNCHANGED <<resume_at, head, tree, loopVars, endVars, meterVars, runs>>

\* A process that resumes has a new run budget, and starts the node over that
\* had not been checkpointed.
Resume ==
  /\ pc = "down" /\ runs < MaxRuns
  /\ runs' = runs + 1 /\ run_calls' = 0 /\ iter_calls' = 0
  /\ pc' = resume_at /\ resume_at' = "start"
  /\ UNCHANGED <<head, tree, loopVars, endVars, caps, visits>>

Work ==
  \/ Start \/ Research \/ Author \/ Probe
  \/ AskRefused \/ AskReverted \/ AskApplied \/ AskErrs
  \/ VerifyFlagged \/ VerifyRed \/ VerifyGreen
  \/ Judge \/ Reflect \/ Critic \/ Overrun \/ Raised

Next == Work \/ NextVisit \/ Resume

Spec == Init /\ [][Next]_vars

-----------------------------------------------------------------------------
(* Properties                                                               *)

Closed == pc \in {"reflect", "critic", "done"}

\* Every variable stays in its domain; no attempt is made beyond the last.
TypeOK ==
  /\ pc \in {"start", "research", "author", "probe", "ask", "verify", "judge",
             "reflect", "critic", "done", "down"}
  /\ resume_at \in {"start", "critic"}
  /\ head \in Tree /\ tree \in Tree
  /\ attempt \in (1 .. 3) \cup (1 .. MaxAttempts)
  /\ failure \in Failure \cup {"none"}
  /\ sigs \in Seq(Failure) /\ Len(sigs) < MaxAttempts
  /\ passed \in BOOLEAN /\ incident \in BOOLEAN /\ stuck \in BOOLEAN
  /\ outcome \in Outcome
  /\ caps \in Caps /\ run_calls \in Nat /\ iter_calls \in Nat
  /\ visits \in Nat /\ runs \in Nat

\* P4 never commits a file that does not parse or lost an export, nor one that
\* the scanner flags: whatever an earlier answer or a run that ended left in
\* the workspace, also in files the answer that turned the suite green did not
\* touch (_interface_problem, scan_diff).
HeadIsSound == \A f \in File : head[f] \in {"stub", "code"}

\* Once an edit was flagged in an iteration its criterion is not met, whatever
\* a later attempt does (integrity.blocking before res.passed).
IncidentIsNotMet == Closed /\ incident => outcome \notin Met

\* An iteration that is not met leaves the workspace at the last commit, also
\* after the half of a refused answer (git reset --hard).
UnmetIsRolledBack == Closed /\ outcome \notin Met => tree = head

\* No call is issued beyond a cap, and without any cap an iteration and its
\* critic still make at most one call of research, three of the tester, one per
\* attempt of the coder, one for the lesson and one of the critic (METER.count).
BudgetHolds ==
  /\ caps.run # 0 => run_calls <= caps.run
  /\ caps.iter # 0 => iter_calls <= caps.iter
  /\ iter_calls <= MaxAttempts + 6
=============================================================================

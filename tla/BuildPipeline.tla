---------------------------- MODULE BuildPipeline ----------------------------
(***************************************************************************)
(* The build graph of poc-foundry: the nodes ingest, spec, plan, scaffold, *)
(* iterate, critic, docs, cleanroom and emit (graph.py), each one atomic   *)
(* step over the BuildState (state.py) and the disk the nodes work on: the *)
(* git workspace and the staged tests of the harness.                      *)
(*                                                                         *)
(* The model keeps every counter, flag and verdict of the ladder.  It      *)
(* abstracts a criterion to a model value, the test file that was staged   *)
(* for it to that same criterion (within one plan the two are in           *)
(* one-to-one correspondence), and the code in the workspace to the set    *)
(* `passes' of staged tests it makes green.  What the language models, the *)
(* sandbox and the clean-room answer is chosen nondeterministically; a     *)
(* test run is assumed to be deterministic in the test and the code.       *)
(***************************************************************************)
EXTENDS Integers, Sequences, FiniteSets

CONSTANTS
  Criterion,          \* the criterion texts an architect may write
  Specs,              \* the specifications an architect may return (P1)
  MaxIterations,      \* config max_iterations
  FixLimitK,          \* config fix_limit_k
  DegradedFixLimitK,  \* config degraded_fix_limit_k
  RespecCap,          \* config respec_cap
  ReplanCap,          \* config replan_cap
  ReauthorCap         \* config reauthor_cap

\* A normalized specification: distinct criteria in the order the architect
\* gave them, exactly one of them core, some of them testable, and whether the
\* source artifact left open questions.
IsSpec(s) ==
  /\ s.criteria \in Seq(Criterion)
  /\ Len(s.criteria) > 0
  /\ \A i, j \in 1 .. Len(s.criteria) :
       s.criteria[i] = s.criteria[j] => i = j
  /\ \E i \in 1 .. Len(s.criteria) : s.criteria[i] = s.core
  /\ s.testable \in SUBSET Criterion
  /\ s.open_questions \in BOOLEAN

ASSUME SpecsAssumption == \A s \in Specs : IsSpec(s)

ASSUME CapsAssumption ==
  /\ MaxIterations \in Nat \ {0}
  /\ FixLimitK \in Nat
  /\ DegradedFixLimitK \in Nat
  /\ RespecCap \in Nat
  /\ ReplanCap \in Nat
  /\ ReauthorCap \in Nat

VARIABLES
  \* --- position in the graph -------------------------------------------
  node,
  \* --- BuildState: products of P1 and P2 --------------------------------
  status,             \* BuildState.status
  spec,               \* BuildState.spec (a record of Specs, or NoSpec)
  plan,               \* plan.iterations: the criterion each one targets
  crit,               \* spec.success_criteria[*].status
  \* --- BuildState: verdict ladder ---------------------------------------
  degraded_critic,    \* same_family("critic", "coder")
  iteration,          \* BuildState.iteration + 1
  fix_count,
  reauthor_count,
  respec_count,
  replan_count,
  reauthor_pending,
  replan_mode,
  \* --- BuildState: the last iteration and the research rung --------------
  last_status,        \* iteration_records[-1].status
  last_coder_stuck,
  research_pending,
  last_research_iteration,
  \* --- BuildState: integrity walls --------------------------------------
  inventory_ok,
  red_first_ok,
  highs,              \* number of "[high]" incidents: 0, 1, or 2 for more
  high_incident_criteria,
  \* --- BuildState: what ships -------------------------------------------
  commit_sha,         \* "none", "scaffold" (= scaffold_sha) or "code"
  green_test_files,
  adequacy_credits,
  descope_report,     \* criteria with an entry that is not `resolved'
  suite_ok,           \* cleanroom["suite_ok"]
  \* --- the disk -----------------------------------------------------------
  staged,             \* tests in staging/tests
  passes,             \* staged tests that pass on the committed workspace
  published,          \* tests in workspace/tests
  \* --- observation: history the properties talk about ---------------------
  vetted,             \* tests whose current text the critic let through
  probed,             \* what the probe saw of the current text of each test
  rechecked           \* criteria whose adequacy P5 examined once more

productVars  == <<spec, plan, crit>>
capVars      == <<respec_count, replan_count>>
ladderVars   == <<iteration, fix_count, reauthor_count, capVars,
                  reauthor_pending, replan_mode>>
lastVars     == <<last_status, last_coder_stuck>>
researchVars == <<research_pending, last_research_iteration>>
wallVars     == <<inventory_ok, red_first_ok, highs, high_incident_criteria>>
testVars     == <<staged, passes, vetted, probed>>
shipVars     == <<green_test_files, adequacy_credits, descope_report,
                  suite_ok, published, rechecked>>

vars == <<node, status, productVars, degraded_critic, ladderVars, lastVars,
          researchVars, wallVars, commit_sha, testVars, shipVars>>

Node == {"ingest", "spec", "plan", "scaffold", "iterate", "critic", "docs",
         "cleanroom", "emit", "end"}
Status == {"incomplete", "failed", "not-buildable", "done"}
CritStatus == {"pending", "met", "descoped"}
MetStatus == {"green", "met-existing"}
IterStatus == MetStatus \cup {"incident", "red-first-failed", "abandoned"}

NoSpec == [criteria |-> <<>>]
AllPending == [c \in Criterion |-> "pending"]
Planned == {plan[i] : i \in DOMAIN plan}
Met == {c \in Criterion : crit[c] = "met"}
K == IF degraded_critic THEN DegradedFixLimitK ELSE FixLimitK

AtLeast2(n) == IF n > 2 THEN 2 ELSE n

Init ==
  /\ node = "ingest"
  /\ status = "incomplete"
  /\ spec = NoSpec /\ plan = <<>> /\ crit = AllPending
  /\ degraded_critic \in BOOLEAN
  /\ iteration = 1 /\ fix_count = 0 /\ reauthor_count = 0
  /\ respec_count = 0 /\ replan_count = 0
  /\ reauthor_pending = FALSE /\ replan_mode = FALSE
  /\ last_status = "abandoned" /\ last_coder_stuck = FALSE
  /\ research_pending = FALSE /\ last_research_iteration = 0
  /\ inventory_ok = TRUE /\ red_first_ok = TRUE
  /\ highs = 0 /\ high_incident_criteria = {}
  /\ commit_sha = "none"
  /\ green_test_files = {} /\ adequacy_credits = [c \in Criterion |-> {}]
  /\ descope_report = {} /\ suite_ok = FALSE
  /\ staged = {} /\ passes = {} /\ published = {}
  /\ vetted = {} /\ probed = [c \in Criterion |-> "no"] /\ rechecked = {}

-----------------------------------------------------------------------------
(* P0 ingest, P1 spec, P2 plan, P3 scaffold                                *)

Ingest ==
  /\ node = "ingest"
  /\ \/ node' = "spec" /\ UNCHANGED status
     \/ node' = "emit" /\ status' = "failed"
  /\ UNCHANGED <<productVars, degraded_critic, ladderVars, lastVars,
                 researchVars, wallVars, commit_sha, testVars, shipVars>>

\* A buildable specification: a fresh set of criteria, so P3 re-stamps.
SpecBuildable ==
  /\ node = "spec" /\ node' = "plan"
  /\ \E s \in Specs : spec' = s
  /\ crit' = AllPending
  /\ replan_mode' = FALSE
  /\ UNCHANGED <<status, plan, degraded_critic, iteration, fix_count,
                 reauthor_count, capVars, reauthor_pending, lastVars,
                 researchVars, wallVars, commit_sha, testVars, shipVars>>

\* The architect declines, or returns no criteria at all.
SpecNotBuildable ==
  /\ node = "spec" /\ node' = "emit"
  /\ status' = "not-buildable"
  /\ spec' = NoSpec /\ crit' = AllPending
  /\ UNCHANGED <<plan, degraded_critic, ladderVars, lastVars, researchVars,
                 wallVars, commit_sha, testVars, shipVars>>

\* The criteria P2 may plan for: the testable ones, or all when none is.
Testable(s) ==
  LET all == {s.criteria[i] : i \in DOMAIN s.criteria}
      t   == all \cap s.testable
  IN  IF t = {} THEN all ELSE t

\* Core first, then the order of the specification; cut at max_iterations.
Plans == UNION {[1 .. n -> Criterion] : n \in 1 .. MaxIterations}

IsPlanOf(p, s) ==
  LET T      == Testable(s)
      Pos(c) == CHOOSE i \in DOMAIN s.criteria : s.criteria[i] = c
      lead   == IF s.core \in T THEN s.core
                ELSE CHOOSE c \in T : \A d \in T : Pos(c) <= Pos(d)
      Before(c, d) == d # lead /\ (c = lead \/ Pos(c) < Pos(d))
      kept   == {p[i] : i \in DOMAIN p}
  IN  /\ kept \subseteq T
      /\ kept = T \/ Len(p) = MaxIterations
      /\ \A i, j \in DOMAIN p : i < j => Before(p[i], p[j])
      /\ \A c \in kept, d \in T \ kept : Before(c, d)

\* One iteration per planned criterion; the loop state and the staged tests
\* start over, the ladder's cap counters and the descope report do not.
MakePlan ==
  /\ node = "plan" /\ node' = "scaffold"
  /\ plan' \in {p \in Plans : IsPlanOf(p, spec)}
  /\ crit' = AllPending
  /\ iteration' = 1 /\ fix_count' = 0
  /\ inventory_ok' = TRUE /\ red_first_ok' = TRUE
  /\ green_test_files' = {}
  /\ staged' = {} /\ passes' = {} /\ vetted' = {}
  /\ probed' = [c \in Criterion |-> "no"]
  /\ UNCHANGED <<status, spec, degraded_critic, reauthor_count, capVars,
                 reauthor_pending, replan_mode, lastVars, researchVars, highs,
                 high_incident_criteria, commit_sha, adequacy_credits,
                 descope_report, suite_ok, published, rechecked>>

\* A replan keeps the workspace; otherwise the template is stamped anew and
\* its own suite must be green in a fresh VM.
ScaffoldPreserve ==
  /\ node = "scaffold" /\ replan_mode /\ commit_sha # "none"
  /\ node' = "iterate"
  /\ UNCHANGED <<status, productVars, degraded_critic, ladderVars, lastVars,
                 researchVars, wallVars, commit_sha, testVars, shipVars>>

ScaffoldStamp ==
  /\ node = "scaffold" /\ ~(replan_mode /\ commit_sha # "none")
  /\ \/ /\ node' = "iterate" /\ commit_sha' = "scaffold"
        /\ UNCHANGED status
     \/ /\ node' = "emit" /\ status' = "failed"
        /\ UNCHANGED commit_sha
  /\ UNCHANGED <<productVars, degraded_critic, ladderVars, lastVars,
                 researchVars, wallVars, testVars, shipVars>>

-----------------------------------------------------------------------------
(* P4 iterate: one pass of tester, probe, coder and gates over plan[iteration] *)

Target == plan[iteration]
Fresh == Target \notin staged
Authors == Fresh \/ reauthor_pending

\* (wrong form: the gate keyed on the replan alone)
StrictRedFirst_NotOnReplan == iteration = 1 /\ ~replan_mode

\* Only the bare stub must be red: iteration 0 with nothing committed on it.
StrictRedFirst == iteration = 1 /\ commit_sha # "code"

\* The probe runs the target's test alone on the committed workspace: a kept
\* test answers as it does there, a newly written one either way.
Probe(isGreen) == Authors \/ (isGreen <=> Target \in passes)

PassesAfterProbe(isGreen) ==
  IF isGreen THEN passes \cup {Target} ELSE passes \ {Target}

\* (wrong form: only the new test is run)
GreenSuite_NewTestOnly == {Target}

\* The coder's edit counts as green only when ALL staged tests pass on it.
GreenSuite == staged \cup {Target}

ProbeKind(isGreen) ==
  IF ~isGreen THEN "red"
  ELSE IF commit_sha = "code" THEN "green-on-code" ELSE "green-on-stub"

\* _maybe_research: the critic asked for it after a stuck coder, or a new test
\* of the first iteration meets the open questions of the specification.
Researches(fresh) ==
  research_pending \/ (fresh /\ iteration = 1 /\ spec.open_questions)

\* What every outcome records in the BuildState: the status, the consumed
\* re-author and research requests.
RecordState(it_status, isGreen, fresh) ==
  /\ node' = "critic"
  /\ vetted' = IF fresh \/ reauthor_pending THEN vetted \ {Target} ELSE vetted
  /\ probed' = [probed EXCEPT ![Target] = ProbeKind(isGreen)]
  /\ last_status' = it_status
  /\ reauthor_pending' = FALSE
  /\ crit' = [crit EXCEPT ![Target] =
                IF it_status \in MetStatus THEN "met" ELSE "descoped"]
  /\ green_test_files' = IF it_status \in MetStatus
                         THEN green_test_files \cup {Target}
                         ELSE green_test_files
  /\ research_pending' = FALSE
  /\ last_research_iteration' =
       IF Researches(fresh) THEN iteration ELSE last_research_iteration
  /\ UNCHANGED <<status, spec, plan, degraded_critic, iteration, fix_count,
                 reauthor_count, capVars, replan_mode, adequacy_credits,
                 descope_report, suite_ok, published, rechecked>>

\* ... and the test it leaves in the cumulative suite.
Record(it_status, isGreen) ==
  /\ RecordState(it_status, isGreen, Fresh)
  /\ staged' = staged \cup {Target}

\* n new high-severity incidents against the target criterion.
RaiseIncidents(n) ==
  /\ highs' = AtLeast2(highs + n)
  /\ high_incident_criteria' = high_incident_criteria \cup {Target}

\* Green on the bare stub at iteration 0: the test is inadequate.
IterateRedFirstFailed ==
  /\ node = "iterate" /\ Probe(TRUE) /\ StrictRedFirst
  /\ Record("red-first-failed", TRUE)
  /\ passes' = PassesAfterProbe(TRUE)
  /\ RaiseIncidents(1) /\ red_first_ok' = FALSE
  /\ last_coder_stuck' = FALSE
  /\ UNCHANGED <<inventory_ok, commit_sha>>

\* Green before the coder ran: met by the code that is already there.
IterateMetExisting ==
  /\ node = "iterate" /\ Probe(TRUE) /\ ~StrictRedFirst
  /\ Record("met-existing", TRUE)
  /\ passes' = PassesAfterProbe(TRUE)
  /\ last_coder_stuck' = FALSE
  /\ UNCHANGED <<wallVars, commit_sha>>

\* The coder turned the whole staged suite green: its edit is committed.
IterateGreen ==
  /\ node = "iterate" /\ Probe(FALSE)
  /\ Record("green", FALSE)
  /\ passes' = GreenSuite
  /\ commit_sha' = "code"
  /\ last_coder_stuck' = FALSE
  /\ UNCHANGED wallVars

\* The suite was green, but a recorded test did not run: rolled back.
IterateLedgerGap ==
  /\ node = "iterate" /\ Probe(FALSE)
  /\ Record("incident", FALSE)
  /\ passes' = PassesAfterProbe(FALSE)
  /\ RaiseIncidents(1) /\ inventory_ok' = FALSE
  /\ last_coder_stuck' = FALSE
  /\ UNCHANGED <<red_first_ok, commit_sha>>

\* The diff scanner blocked an edit: rolled back, however the coder ended.
IterateIncident ==
  /\ node = "iterate" /\ Probe(FALSE)
  /\ Record("incident", FALSE)
  /\ passes' = PassesAfterProbe(FALSE)
  /\ \E n \in 1 .. 2 : RaiseIncidents(n)
  /\ last_coder_stuck' = FALSE
  /\ UNCHANGED <<inventory_ok, red_first_ok, commit_sha>>

\* The coder spent its attempts: rolled back to the last green commit.
IterateAbandoned ==
  /\ node = "iterate" /\ Probe(FALSE)
  /\ Record("abandoned", FALSE)
  /\ passes' = PassesAfterProbe(FALSE)
  /\ last_coder_stuck' \in BOOLEAN
  /\ UNCHANGED <<wallVars, commit_sha>>

Iterate ==
  \/ IterateRedFirstFailed \/ IterateMetExisting \/ IterateGreen
  \/ IterateLedgerGap \/ IterateIncident \/ IterateAbandoned

-----------------------------------------------------------------------------
(* The critic: adequacy review, verdict ladder and loop control             *)

\* Tests the critic is shown beside the one it judges.
Siblings(c) == (green_test_files \cap staged) \ {c}

\* What a sibling is credited as: the criterion the plan has for its file.  One
\* that is not of the plan - in a refine, whose plan is the backlog - is credited
\* by the name of the file, which no criterion has.
FileName == "test_iter"
CreditedAs(siblings) ==
  (siblings \cap Planned)
    \cup (IF siblings \subseteq Planned THEN {} ELSE {FileName})

\* (wrong form: off by one)
CanReauthor_OnceMore == reauthor_count <= ReauthorCap

CanReauthor == reauthor_count < ReauthorCap
CanFix      == fix_count < K
CanResearch ==
  /\ last_coder_stuck /\ ~research_pending
  /\ last_research_iteration # iteration

\* verdict `next' or `proceed': the criterion is resolved.
Advance ==
  IF iteration < Len(plan)
  THEN /\ node' = "iterate" /\ iteration' = iteration + 1
       /\ fix_count' = 0 /\ reauthor_count' = 0
  ELSE /\ node' = "docs"
       /\ UNCHANGED <<iteration, fix_count, reauthor_count>>

\* What no verdict touches.
CriticFrame ==
  UNCHANGED <<status, spec, plan, degraded_critic, lastVars,
              last_research_iteration, wallVars, commit_sha, staged, passes,
              probed, green_test_files, suite_ok, published, rechecked>>

\* Adequate (with credit to some siblings, or because the critic cannot be
\* reached), or judged by a critic of the coder's own family, which advises
\* but does not block.
CriticAccept ==
  /\ node = "critic" /\ last_status \in MetStatus
  /\ \E credited \in SUBSET Siblings(Target) :
       adequacy_credits' = IF credited = {} THEN adequacy_credits
                           ELSE [adequacy_credits EXCEPT ![Target] = CreditedAs(credited)]
  /\ vetted' = vetted \cup {Target}
  /\ Advance
  /\ UNCHANGED <<crit, capVars, reauthor_pending, replan_mode,
                 research_pending, descope_report>> /\ CriticFrame

\* (wrong form: a plain fix is not charged)
FixCountAfter_NotCharged(reauthor) == IF reauthor THEN 0 ELSE fix_count

\* A re-author grants a fresh fix budget, a plain fix consumes one unit.
FixCountAfter(reauthor) == IF reauthor THEN 0 ELSE fix_count + 1

\* A fix verdict that spends one unit of the fix budget; a stuck coder gets
\* the research rung with it, once per iteration.
CriticFix ==
  /\ node = "critic" /\ CanFix
  /\ \/ last_status = "abandoned"
     \/ last_status = "red-first-failed" /\ ~CanReauthor
  /\ node' = "iterate"
  /\ fix_count' = FixCountAfter(FALSE)
  /\ research_pending' = IF last_status = "abandoned" /\ CanResearch
                         THEN TRUE ELSE research_pending
  /\ UNCHANGED <<crit, iteration, reauthor_count, capVars, reauthor_pending,
                 replan_mode, adequacy_credits, descope_report, vetted>>
  /\ CriticFrame

\* A fix verdict that has the staged test rewritten: gameable, green on the
\* stub, or perhaps the reason the coder cannot get there.
CriticReauthor ==
  /\ node = "critic" /\ CanReauthor
  /\ \/ last_status \in MetStatus /\ ~degraded_critic
     \/ last_status = "red-first-failed"
     \/ last_status = "abandoned" /\ ~CanFix
  /\ node' = "iterate"
  /\ reauthor_pending' = TRUE
  /\ reauthor_count' = reauthor_count + 1
  /\ fix_count' = FixCountAfter(TRUE)
  /\ UNCHANGED <<crit, iteration, capVars, replan_mode, research_pending,
                 adequacy_credits, descope_report, vetted>> /\ CriticFrame

\* Still gameable after every re-author: a new specification.
CriticRespec ==
  /\ node = "critic" /\ last_status \in MetStatus /\ ~degraded_critic
  /\ ~CanReauthor /\ respec_count < RespecCap
  /\ node' = "spec"
  /\ respec_count' = respec_count + 1
  /\ UNCHANGED <<crit, iteration, fix_count, reauthor_count, replan_count,
                 reauthor_pending, replan_mode, research_pending,
                 adequacy_credits, descope_report, vetted>> /\ CriticFrame

\* Never green within the budgets: the same specification planned again.
CriticReplan ==
  /\ node = "critic" /\ last_status = "abandoned"
  /\ ~CanFix /\ ~CanReauthor /\ replan_count < ReplanCap
  /\ node' = "plan"
  /\ replan_count' = replan_count + 1
  /\ replan_mode' = TRUE
  /\ UNCHANGED <<crit, iteration, fix_count, reauthor_count, respec_count,
                 reauthor_pending, research_pending, adequacy_credits,
                 descope_report, vetted>> /\ CriticFrame

\* Every budget that applies is spent, or the walls caught an incident.
CriticDescope ==
  /\ node = "critic"
  /\ \/ /\ last_status \in MetStatus /\ ~degraded_critic
        /\ ~CanReauthor /\ respec_count >= RespecCap
     \/ last_status = "incident"
     \/ last_status = "red-first-failed" /\ ~CanReauthor /\ ~CanFix
     \/ /\ last_status = "abandoned"
        /\ ~CanFix /\ ~CanReauthor /\ replan_count >= ReplanCap
  /\ crit' = [crit EXCEPT ![Target] = "descoped"]
  /\ descope_report' = descope_report \cup {Target}
  /\ Advance
  /\ UNCHANGED <<capVars, reauthor_pending, replan_mode, research_pending,
                 adequacy_credits, vetted>> /\ CriticFrame

Critic ==
  \/ CriticAccept \/ CriticFix \/ CriticReauthor \/ CriticRespec
  \/ CriticReplan \/ CriticDescope

-----------------------------------------------------------------------------
(* P5 docs, P6 cleanroom, P7 emit                                           *)

\* Descoped criteria whose staged test passes on the final workspace.
Rehabilitable ==
  {c \in Planned \cap staged \cap passes : crit[c] = "descoped"}

\* Met criteria that lean on a sibling which is not met, or is not known by its
\* criterion; `met' is the met set after the sweep, taken once before any
\* demotion.
CreditLost(met) ==
  {c \in met \cap Planned \cap staged : ~(adequacy_credits[c] \subseteq met)}

\* (wrong form: the list as it was before the sweep)
Publish_BeforeSweep(files) == published \cup (green_test_files \cap staged)

\* What ships: the files of the list that exist, beside what was there.
Publish(files) == published \cup (files \cap staged)

\* (wrong form: a demotion leaves no entry)
ReportAfter_NoDemotion(promoted, demoted) == descope_report \ promoted

\* A promoted criterion's entry is marked resolved, a demoted one gets one.
ReportAfter(promoted, demoted) == (descope_report \ promoted) \cup demoted

\* Sweep, credit re-check, publish, commit.  With a degraded critic the sweep
\* promotes every test that passes and the re-check demotes nothing.
Docs ==
  /\ node = "docs" /\ node' = "cleanroom"
  /\ \E promoted \in SUBSET Rehabilitable :
       LET met == Met \cup promoted
       IN \E demoted \in SUBSET CreditLost(met) :
            /\ degraded_critic => promoted = Rehabilitable /\ demoted = {}
            /\ crit' = [c \in Criterion |->
                          IF c \in demoted THEN "descoped"
                          ELSE IF c \in promoted THEN "met" ELSE crit[c]]
            /\ green_test_files' = (green_test_files \cup promoted) \ demoted
            /\ descope_report' = ReportAfter(promoted, demoted)
            /\ published' = Publish(green_test_files')
            /\ vetted' = (vetted \cup promoted) \ demoted
            /\ rechecked' = CreditLost(met)
  /\ commit_sha' = "code"
  /\ UNCHANGED <<status, spec, plan, degraded_critic, ladderVars, lastVars,
                 researchVars, wallVars, staged, passes, probed,
                 adequacy_credits, suite_ok>>

\* A fresh clone in a fresh VM: every shipped test must pass there, and the
\* installation, the template's suite and the services may still fail.
SuiteMayPass == published \subseteq passes

Cleanroom ==
  /\ node = "cleanroom" /\ node' = "emit"
  /\ suite_ok' \in {b \in BOOLEAN : b => SuiteMayPass}
  /\ UNCHANGED <<status, productVars, degraded_critic, ladderVars, lastVars,
                 researchVars, wallVars, commit_sha, testVars, published,
                 green_test_files, adequacy_credits, descope_report,
                 rechecked>>

CoreMet == spec # NoSpec /\ crit[spec.core] = "met"

\* A single incident, of a kind that is always rolled back (all those P4 can
\* raise are), against a criterion that was met in the end.
IncidentDowngradeable ==
  /\ highs = 1
  /\ suite_ok
  /\ high_incident_criteria # {} /\ high_incident_criteria \subseteq Met

Trustworthy ==
  /\ inventory_ok /\ red_first_ok
  /\ highs = 0 \/ IncidentDowngradeable

FinalStatus ==
  IF status \in {"not-buildable", "failed"} THEN status
  ELSE IF CoreMet /\ suite_ok /\ Trustworthy THEN "done" ELSE "incomplete"

Emit ==
  /\ node = "emit" /\ node' = "end"
  /\ status' = FinalStatus
  /\ UNCHANGED <<productVars, degraded_critic, ladderVars, lastVars,
                 researchVars, wallVars, commit_sha, testVars, shipVars>>

-----------------------------------------------------------------------------
Finished == node = "end" /\ UNCHANGED vars

Next ==
  \/ Ingest \/ SpecBuildable \/ SpecNotBuildable \/ MakePlan
  \/ ScaffoldPreserve \/ ScaffoldStamp
  \/ Iterate \/ Critic \/ Docs \/ Cleanroom \/ Emit
  \/ Finished

\* The graph runs on one thread that only ends at its END node, and every
\* model and sandbox call it waits for has a timeout.
Spec == Init /\ [][Next]_vars /\ WF_vars(Next)

-----------------------------------------------------------------------------
(* Properties                                                               *)

ProductTypeOK ==
  /\ node \in Node /\ status \in Status /\ degraded_critic \in BOOLEAN
  /\ spec \in Specs \cup {NoSpec}
  /\ plan \in Plans \cup {<<>>}
  /\ crit \in [Criterion -> CritStatus]

LadderTypeOK ==
  /\ iteration \in 1 .. MaxIterations
  /\ fix_count \in 0 .. K
  /\ reauthor_count \in 0 .. ReauthorCap
  /\ respec_count \in 0 .. RespecCap
  /\ replan_count \in 0 .. ReplanCap
  /\ reauthor_pending \in BOOLEAN /\ replan_mode \in BOOLEAN
  /\ research_pending \in BOOLEAN
  /\ last_research_iteration \in 0 .. MaxIterations
  /\ last_status \in IterStatus /\ last_coder_stuck \in BOOLEAN

WallTypeOK ==
  /\ inventory_ok \in BOOLEAN /\ red_first_ok \in BOOLEAN
  /\ highs \in 0 .. 2
  /\ high_incident_criteria \in SUBSET Criterion

TestTypeOK ==
  /\ commit_sha \in {"none", "scaffold", "code"}
  /\ staged \in SUBSET Criterion /\ passes \in SUBSET staged
  /\ vetted \in SUBSET Criterion
  /\ probed \in [Criterion ->
                   {"no", "red", "green-on-code", "green-on-stub"}]

ShipTypeOK ==
  /\ green_test_files \in SUBSET Criterion
  /\ adequacy_credits \in [Criterion -> SUBSET (Criterion \cup {FileName})]
  /\ descope_report \in SUBSET Criterion /\ suite_ok \in BOOLEAN
  /\ published \in SUBSET Criterion /\ rechecked \in SUBSET Criterion

\* Every field stays in its domain; the counters never exceed their caps.
TypeOK ==
  ProductTypeOK /\ LadderTypeOK /\ WallTypeOK /\ TestTypeOK /\ ShipTypeOK

\* A criterion reads `met' only while its staged test passes on the committed
\* workspace, whatever later iterations, rewritten tests and rollbacks did:
\* the cumulative gate and the reset of failed edits, together.
MetTestsPass == Met \subseteq staged \cap passes

Shipping == node \in {"cleanroom", "emit", "end"}

\* One evidence standard for every promotion path: when a build ships, each
\* met criterion has its test in the shipped workspace, and the text of that
\* test is one the critic let through (not an earlier text it has seen).
ShippedIsVetted == Shipping => Met \subseteq published \cap vetted

\* The gap list is honest: when a build ships, no planned criterion is still
\* pending and each descoped one has an unresolved descope-report entry.
DescopeAccounted ==
  /\ node = "cleanroom" => \A c \in Planned : crit[c] # "pending"
  /\ Shipping =>
       \A c \in Criterion : crit[c] = "descoped" => c \in descope_report

\* `done' is a claim about the artifact: the core criterion is met by a test
\* that was not green on the bare stub, every test in the shipped workspace
\* passes there, and at most one incident happened, against met criteria.
DoneIsEarned ==
  status = "done" =>
    /\ CoreMet /\ spec.core \in published \cap passes
    /\ probed[spec.core] \in {"red", "green-on-code"}
    /\ published \subseteq passes
    /\ highs = 0 \/ (highs = 1 /\ high_incident_criteria \subseteq Met)

\* The verdict ladder's measure, most significant first: what is left of the
\* respec and replan caps, how far the graph is from a plan, and then the
\* iterations, re-authors and fixes left, and the way to the END node.
ToPlan == CASE node = "ingest" -> 3 [] node = "spec" -> 2
            [] node = "plan" -> 1 [] OTHER -> 0
ToEnd == CASE node = "scaffold" -> 6 [] node = "iterate" -> 5
           [] node = "critic" -> 4 [] node = "docs" -> 3
           [] node = "cleanroom" -> 2 [] node = "emit" -> 1 [] OTHER -> 0
Rank == <<RespecCap - respec_count, ReplanCap - replan_count, ToPlan,
          Len(plan) + 1 - iteration, ReauthorCap - reauthor_count,
          K - fix_count, ToEnd>>

LexLess(r, s) ==
  \E i \in 1 .. 7 : r[i] < s[i] /\ \A j \in 1 .. (i - 1) : r[j] = s[j]

\* Every step of the graph descends in the measure, so the cycles end by the
\* capped counters alone, without the recursion limit.
LadderDescends == [][LexLess(Rank', Rank)]_vars

\* Every build comes to its END node.
Terminates == <>(node = "end")

-----------------------------------------------------------------------------
(* What the repository's documents say, and the code does not do            *)

\* "Every published criterion test must pass against the FINAL committed
\* code": P5 publishes green_test_files, which P4 appends to before the critic
\* has its say and nothing but a credit demotion shortens.
PublishedTestsPass == node = "cleanroom" => published \subseteq passes

\* "Persisted so the rehab sweep re-checks A when a credited sibling is
\* lost": the re-check compares with the met set from before its demotions.
CreditsRechecked ==
  node = "cleanroom" /\ ~degraded_critic =>
    \A c \in Met : adequacy_credits[c] \subseteq Met \/ c \in rechecked
=============================================================================

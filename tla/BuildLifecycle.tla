---------------------------- MODULE BuildLifecycle ----------------------------
(***************************************************************************)
(* A build over several processes: core.py's build_poc, resume_build and   *)
(* refine_build around the graph of BuildPipeline.                         *)
(*                                                                         *)
(* LangGraph checkpoints the BuildState after every completed node, so the *)
(* BuildState variables of BuildPipeline are the checkpoint.  The disk is  *)
(* not checkpointed: a node that is cut short - the process killed, an     *)
(* exception, a budget cap - leaves behind what it had done to the         *)
(* workspace and the staged tests, and keeps nothing of what it knew.      *)
(* `Cuts' is the set of disks a cut node may leave.                        *)
(*                                                                         *)
(* `passes' is read here as the staged tests that are green on the working *)
(* tree; between the nodes of an undisturbed build the tree is clean and   *)
(* that is BuildPipeline's reading.                                        *)
(***************************************************************************)
EXTENDS BuildPipeline

CONSTANTS
  HasServices,   \* the template declares sibling services
  MaxFaults      \* bound: stops, crashes and caps of one behaviour

ASSUME LifecycleAssumption == HasServices \in BOOLEAN /\ MaxFaults \in Nat

VARIABLES
  run,           \* the core function that is running, or "down"
  mode,          \* BuildState.refine_mode: "build" or "refine"
  saved,         \* the checkpoint database has the build's thread
  sentinel,      \* the .stop file
  artifact,      \* the status in v01.json, or "none"
  services_up,   \* ctx.service_env is filled
  head,          \* what HEAD really is: "none", "scaffold" or "code"
  dirty,         \* the working tree has edits that no commit holds
  on_head,       \* staged tests that pass on HEAD
  parked,        \* tests in staging/refine_pending
  faults

runVars  == <<run, mode, saved, sentinel, artifact, services_up>>
treeVars == <<head, dirty, on_head>>
allVars  == <<vars, runVars, treeVars, parked, faults>>

\* What the last checkpoint holds (with the history that goes with it).
checkpointVars ==
  <<node, status, productVars, degraded_critic, ladderVars, lastVars,
    researchVars, wallVars, commit_sha, probed, green_test_files,
    adequacy_credits, descope_report, suite_ok, rechecked>>

Running == run # "down"

LifecycleInit ==
  /\ Init
  /\ run = "build" /\ mode = "build" /\ saved = FALSE
  /\ sentinel = FALSE /\ artifact = "none" /\ services_up = FALSE
  /\ head = "none" /\ dirty = FALSE /\ on_head = {} /\ parked = {}
  /\ faults = 0

-----------------------------------------------------------------------------
(* The disk of the build                                                    *)

Disk == [staged |-> staged, vetted |-> vetted, published |-> published,
         passes |-> passes, on_head |-> on_head, dirty |-> dirty,
         head |-> head]

SetDisk(d) ==
  /\ staged' = d.staged /\ vetted' = d.vetted /\ published' = d.published
  /\ passes' = d.passes /\ on_head' = d.on_head
  /\ dirty' = d.dirty /\ head' = d.head

\* (wrong form: the commit is made when the new test is green)
Committed_NewTestOnly(d) ==
  [d EXCEPT !.passes = {Target}, !.on_head = {Target}, !.dirty = FALSE,
            !.head = "code"]

\* git_commit of a tree on which the whole staged suite is green.
Committed(d) ==
  [d EXCEPT !.passes = d.staged, !.on_head = d.staged, !.dirty = FALSE,
            !.head = "code"]

\* git reset --hard HEAD.
Reset(d) == [d EXCEPT !.passes = d.on_head, !.dirty = FALSE]

\* _refine_stage_in: a refine brings the parked test of its iteration in.
StagedIn ==
  IF mode = "refine" /\ Target \in parked THEN staged \cup {Target} ELSE staged

FreshHere == Target \notin StagedIn

\* (wrong form: in a build as well)
ParkedOut_Always(d) ==
  [d EXCEPT !.staged = @ \ {Target}, !.passes = @ \ {Target},
            !.on_head = @ \ {Target}]

\* _refine_park_out: a test that stayed red leaves the suite of a refine.
ParkedOut(d) ==
  IF mode = "refine"
  THEN [d EXCEPT !.staged = @ \ {Target}, !.passes = @ \ {Target},
                 !.on_head = @ \ {Target}]
  ELSE d

\* The disk once P4 has the test of its iteration in the suite: written anew,
\* brought in, or still there.  Only a test that was there has a known answer.
TestStaged ==
  LET Answers(s) == IF Target \notin staged \/ reauthor_pending
                    THEN {s \cup {Target}, s \ {Target}} ELSE {s}
      text == IF FreshHere \/ reauthor_pending THEN vetted \ {Target}
              ELSE vetted
      pairs == {a \in Answers(passes) \X Answers(on_head) :
                  dirty \/ a[1] = a[2]}
  IN  {[Disk EXCEPT !.staged = StagedIn \cup {Target}, !.vetted = text,
                    !.passes = a[1], !.on_head = a[2]] : a \in pairs}

-----------------------------------------------------------------------------
(* Nodes that complete: the stop check of _wrap_node, the node, and the     *)
(* checkpoint                                                               *)

Enter == Running /\ saved /\ ~sentinel

\* Nodes that leave the disk alone.  In a refine the pinned respec and replan
\* counts leave the critic only the verdicts its graph has edges for.
QuietNode ==
  /\ Enter
  /\ Ingest \/ SpecBuildable \/ SpecNotBuildable \/ Critic \/ Cleanroom
  /\ UNCHANGED <<runVars, treeVars, parked, faults>>

PlanNode ==
  /\ Enter /\ MakePlan
  /\ on_head' = {}
  /\ UNCHANGED <<runVars, head, dirty, parked, faults>>

\* P3 also starts the sibling services and notes their addresses in ctx.
ScaffoldNode ==
  /\ Enter
  /\ \/ ScaffoldPreserve /\ UNCHANGED treeVars
     \/ ScaffoldStamp /\ head' = "scaffold" /\ dirty' = FALSE /\ on_head' = passes
  /\ services_up' = (services_up \/ (HasServices /\ node' = "iterate"))
  /\ UNCHANGED <<run, mode, saved, sentinel, artifact, parked, faults>>

\* P4 as BuildPipeline has it, on whatever tree and suite it finds.
IterateNode ==
  /\ Enter /\ node = "iterate"
  /\ \E d \in TestStaged :
       \/ /\ Target \in d.passes /\ StrictRedFirst /\ mode = "build"
          /\ RecordState("red-first-failed", TRUE, FreshHere)
          /\ SetDisk(Reset(d))
          /\ RaiseIncidents(1) /\ red_first_ok' = FALSE
          /\ last_coder_stuck' = FALSE
          /\ UNCHANGED <<inventory_ok, commit_sha>>
       \/ /\ Target \in d.passes /\ ~(StrictRedFirst /\ mode = "build")
          /\ RecordState("met-existing", TRUE, FreshHere)
          /\ SetDisk(d)
          /\ last_coder_stuck' = FALSE
          /\ UNCHANGED <<wallVars, commit_sha>>
       \/ /\ Target \notin d.passes
          /\ RecordState("green", FALSE, FreshHere)
          /\ SetDisk(Committed(d))
          /\ commit_sha' = "code" /\ last_coder_stuck' = FALSE
          /\ UNCHANGED wallVars
       \/ /\ Target \notin d.passes
          /\ RecordState("incident", FALSE, FreshHere)
          /\ SetDisk(ParkedOut(Reset(d)))
          /\ last_coder_stuck' = FALSE
          /\ \/ RaiseIncidents(1) /\ inventory_ok' = FALSE
             \/ /\ \E n \in 1 .. 2 : RaiseIncidents(n)
                /\ UNCHANGED inventory_ok
          /\ UNCHANGED <<red_first_ok, commit_sha>>
       \/ /\ Target \notin d.passes
          /\ RecordState("abandoned", FALSE, FreshHere)
          /\ SetDisk(ParkedOut(Reset(d)))
          /\ last_coder_stuck' \in BOOLEAN
          /\ UNCHANGED <<wallVars, commit_sha>>
  /\ UNCHANGED <<runVars, parked, faults>>

\* (wrong form: nothing to commit when P4 committed last)
DocsNode_NoCommit ==
  /\ Enter /\ Docs
  /\ on_head' = IF dirty THEN on_head ELSE passes
  /\ UNCHANGED <<runVars, head, dirty, parked, faults>>

\* P5 commits what it published, and whatever else the working tree holds.
DocsNode ==
  /\ Enter /\ Docs
  /\ head' = "code" /\ dirty' = FALSE /\ on_head' = passes
  /\ UNCHANGED <<runVars, parked, faults>>

\* P7 writes the artifact, and the core function returns.
EmitNode ==
  /\ Enter /\ Emit
  /\ artifact' = status' /\ run' = "down"
  /\ UNCHANGED <<mode, saved, sentinel, services_up, treeVars, parked, faults>>

Node_ == QuietNode \/ PlanNode \/ ScaffoldNode \/ IterateNode \/ DocsNode
           \/ EmitNode

-----------------------------------------------------------------------------
(* Nodes that are cut short                                                 *)

\* Edits of the coder that no commit holds.
Edited(d, p) == [d EXCEPT !.dirty = TRUE, !.passes = p]

\* P4: before it did anything; with its test in the suite; in the middle of
\* the coder's edits; after its commit; after its rollback.
IterateCuts ==
  LET edits == SUBSET (StagedIn \cup {Target})
  IN  {Disk} \cup TestStaged
        \cup {Edited(d, p) : d \in TestStaged, p \in edits}
        \cup {Committed(d) : d \in TestStaged}
        \cup {ParkedOut(Reset(d)) : d \in TestStaged}

\* The tests P5 publishes, `up' promoted and `down' demoted before.
Shipped(up, down) ==
  [Disk EXCEPT !.published = Publish((green_test_files \cup up) \ down)]

\* git_commit of the tree as it is.
CommittedAsIs(d) ==
  [d EXCEPT !.dirty = FALSE, !.on_head = d.passes, !.head = "code"]

\* P5: nothing, or its tests published, or those committed as well.
DocsCuts ==
  LET shipped == {Shipped(up, down) :
                    up \in SUBSET Rehabilitable,
                    down \in SUBSET CreditLost(Met \cup Rehabilitable)}
  IN  {Disk} \cup shipped \cup {CommittedAsIs(d) : d \in shipped}

\* P2 clears the staged tests; P3 stamps the template and commits it.
Cuts ==
  CASE node = "iterate"  -> IterateCuts
    [] node = "docs"     -> DocsCuts
    [] node = "plan"     -> {Disk, [Disk EXCEPT !.staged = {}, !.passes = {},
                                                !.on_head = {}]}
    [] node = "scaffold" -> {Disk, [Disk EXCEPT !.dirty = TRUE],
                             [Disk EXCEPT !.dirty = FALSE,
                                          !.head = "scaffold"]}
    [] OTHER             -> {Disk}

\* The BuildState stays as it was checkpointed.
KeepCheckpoint ==
  UNCHANGED <<checkpointVars, mode, saved, sentinel, services_up, parked>>

Fault == faults < MaxFaults /\ faults' = faults + 1

\* The process is killed, or broker.provision or a phase raises: build_poc (and
\* it alone) then leaves a failed artifact, if there is none yet.  P7 may have
\* saved the artifact before.
Crash ==
  /\ Running /\ Fault
  /\ \E d \in Cuts : SetDisk(d)
  /\ run' = "down"
  /\ \/ artifact' = artifact
     \/ run = "build" /\ artifact = "none" /\ artifact' = "failed"
     \/ node = "emit" /\ artifact' = FinalStatus
  /\ KeepCheckpoint

\* BudgetExceeded out of a node that calls a model; the recursion limit
\* between two nodes.  _salvage_run resets the workspace and emits an artifact
\* from the checkpoint.
Salvage ==
  /\ Enter /\ Fault /\ node # "ingest"
  /\ \E d \in IF node \in {"spec", "iterate", "critic", "docs"}
              THEN Cuts ELSE {Disk} : SetDisk(Reset(d))
  /\ run' = "down" /\ artifact' = FinalStatus
  /\ KeepCheckpoint

\* `poc-foundry stop', at any time.
RequestStop ==
  /\ ~sentinel /\ Fault
  /\ sentinel' = TRUE
  /\ UNCHANGED <<vars, run, mode, saved, artifact, services_up, treeVars,
                 parked>>

\* The next node finds the sentinel; _emit_stopped.
StopAtNode ==
  /\ Running /\ saved /\ sentinel
  /\ run' = "down" /\ artifact' = "stopped"
  /\ UNCHANGED <<vars, mode, saved, sentinel, services_up, treeVars, parked,
                 faults>>

-----------------------------------------------------------------------------
(* A new process                                                            *)

\* broker.provision has returned, and graph.invoke saves its input: from here on
\* there is something to resume.
EnterGraph ==
  /\ run = "build" /\ ~saved
  /\ saved' = TRUE
  /\ UNCHANGED <<vars, run, mode, sentinel, artifact, services_up, treeVars,
                 parked, faults>>

\* graph.invoke(None) of a thread without a checkpoint raises, and resume_build
\* leaves no artifact of its own.
NothingToResume ==
  /\ run = "resume" /\ ~saved
  /\ run' = "down"
  /\ UNCHANGED <<vars, mode, saved, sentinel, artifact, services_up, treeVars,
                 parked, faults>>

\* (wrong form: the stop that ended the build is still in force)
Resume_StopKept ==
  /\ ~Running /\ mode = "build" /\ node # "end"
  /\ run' = "resume" /\ services_up' = FALSE
  /\ UNCHANGED <<vars, mode, saved, sentinel, artifact, treeVars, parked,
                 faults>>

\* resume_build: a fresh ctx over the persisted workspace, and the graph from
\* the checkpoint of the build's own thread, if it has one.  At its END that
\* does nothing.
Resume ==
  /\ ~Running /\ mode = "build" /\ node # "end"
  /\ run' = "resume" /\ sentinel' = FALSE /\ services_up' = FALSE
  /\ UNCHANGED <<vars, mode, saved, artifact, treeVars, parked, faults>>

Backlog == {c \in Planned : crit[c] # "met"}

\* _refine_prepare_staging: what stays in staging/tests.
Kept == staged \ Backlog

\* refine_iters: the iterations of the backlog, in the order of the plan.
IsBacklogPlan(p) ==
  /\ {p[i] : i \in DOMAIN p} = Backlog
  /\ \A i, j \in DOMAIN p : i < j =>
       \E k, l \in DOMAIN plan : k < l /\ plan[k] = p[i] /\ plan[l] = p[j]

\* refine_build (bounds: of a finished build, though the code asks only for a
\* checkpoint; once; and of a build that has a specification): the unmet
\* iterations of its plan with the ladder's upper rungs used up, on a thread of
\* its own.  With nothing unmet it returns the artifact that is there.
Refine ==
  /\ ~Running /\ mode = "build" /\ node = "end"
  /\ spec # NoSpec /\ Backlog # {}
  /\ plan' \in {p \in Plans : IsBacklogPlan(p)}
  /\ crit' = [c \in Criterion |-> IF c \in Backlog THEN "pending" ELSE crit[c]]
  /\ node' = "iterate" /\ iteration' = 1 /\ fix_count' = 0
  /\ respec_count' = RespecCap /\ replan_count' = ReplanCap
  /\ descope_report' = {}
  /\ staged' = Kept /\ parked' = Backlog \cap staged
  /\ passes' = passes \cap staged' /\ on_head' = on_head \cap staged'
  /\ run' = "refine" /\ mode' = "refine"
  /\ sentinel' = FALSE /\ services_up' = FALSE
  /\ UNCHANGED <<status, spec, degraded_critic, reauthor_count,
                 reauthor_pending, replan_mode, lastVars, researchVars,
                 wallVars, commit_sha, green_test_files, adequacy_credits,
                 suite_ok, published, vetted, probed, rechecked, saved,
                 artifact, head, dirty, faults>>

-----------------------------------------------------------------------------
LifecycleNext ==
  \/ Node_ \/ Crash \/ Salvage \/ RequestStop \/ StopAtNode
  \/ EnterGraph \/ NothingToResume \/ Resume \/ Refine

\* A running process runs, and somebody resumes a build that was interrupted
\* (the part of the operator).
LifecycleSpec ==
  /\ LifecycleInit /\ [][LifecycleNext]_allVars
  /\ WF_allVars(Node_ \/ StopAtNode \/ EnterGraph \/ NothingToResume)
  /\ WF_allVars(Resume)

-----------------------------------------------------------------------------
(* Properties                                                               *)

\* Every variable stays in its domain; a clean tree is HEAD, and a refine
\* works on a disk whose parked tests are those of its plan.
LifecycleTypeOK ==
  /\ TypeOK
  /\ run \in {"down", "build", "resume", "refine"}
  /\ mode \in {"build", "refine"}
  /\ artifact \in Status \cup {"none", "stopped"}
  /\ {saved, sentinel, services_up, dirty} \subseteq BOOLEAN
  /\ head \in {"none", "scaffold", "code"}
  /\ on_head \in SUBSET staged /\ parked \in SUBSET Criterion
  /\ ~dirty => passes = on_head
  /\ mode = "refine" => parked \subseteq Planned

\* However a build was stopped, cut, capped and resumed, an artifact that says
\* `done' is about the commit it ships: the core criterion is met and every
\* published test passes on HEAD, with nothing left uncommitted.
DoneIsAboutHead ==
  mode = "build" /\ artifact = "done" =>
    /\ CoreMet /\ spec.core \in published
    /\ published \subseteq on_head /\ ~dirty /\ head = "code"

\* A refine does not break what the build had: whatever it commits, rolls back
\* or is cut short in, the test of a criterion met before it that passed on
\* HEAD goes on passing there.
RefineBreaksNothing ==
  [][mode = "refine" =>
       \A c \in (Met \ Planned) \cap on_head : c \in on_head']_allVars

\* As long as no crash has left edits behind, a build that is stopped, cut,
\* capped and resumed is a build of BuildPipeline: each step is a step of its
\* graph on the same disk, or leaves the checkpoint as it was.
StepsAreGraphSteps ==
  [][~dirty /\ mode = "build" /\ mode' = "build" =>
       [Next]_vars \/ UNCHANGED checkpointVars]_allVars

\* Every run ends, and a build that has a checkpoint and is resumed whenever it
\* was interrupted comes to its END node: the ladder's counters survive in the
\* checkpoint.  One that was killed or failed before it had one never does.
InterruptedBuildEnds ==
  /\ (saved /\ mode = "build") ~> (node = "end")
  /\ Running ~> ~Running

-----------------------------------------------------------------------------
(* What the repository's documents say, and the code does not do            *)

\* "sibling services (if any) up + IPs recorded for P4/P6 injection": a run
\* that enters the graph past P3 has none.
ServicesReachTheSandboxes ==
  HasServices /\ Running /\ node \in {"iterate", "docs", "cleanroom"}
    => services_up

\* "The workspace always reflects the last GREEN commit": the critic of a
\* build judges code that is committed.
CriticJudgesACommit ==
  mode = "build" /\ Running /\ node = "critic" => ~dirty
=============================================================================

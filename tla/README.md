# A TLA+ model of poc-foundry

poc-foundry turns a research artifact into a proof of concept: language models
write a specification, tests and code, and a graph of deterministic nodes
decides what of it counts. This directory models that graph - the verdict
ladder, the integrity walls and what finally ships -, the life of a build over
several processes, the loop in which the coder works, the broker of its
sandboxes, and the web interface from the controller to the board in a browser
tab; and it checks and proves properties of them. Paths below are relative to
`src/src/poc_foundry/` unless they begin with another top-level name.

## 1. Inventory

| Component | State it keeps | Operations | Interacts by |
|---|---|---|---|
| **Build graph** `phases/pipeline.py`, `graph.py`, `state.py` | `BuildState`: spec, plan, iteration, the counters of the ladder, integrity flags, the list of tests to publish, credits, descope report; on disk the git workspace, the staged tests | nodes P0 ingest, P1 spec, P2 plan, P3 scaffold, P4 iterate, critic, P5 docs, P6 clean-room, P7 emit | calls models, broker, coder; each node's result is merged into `BuildState` and checkpointed |
| **Lifecycle** `core.py`, `control.py` | the checkpoint database, the stop sentinel, the emitted artifact | build, resume, refine, stop, salvage, emit a failed or stopped artifact | invokes the graph; every node first looks for the sentinel |
| **Run manager** `web/runmanager.py`, `web/server.py`, `events.py` | the one active run, its event log, its subscribers | start, resume, refine, security demo, stop, subscribe, publish | starts a thread that runs the lifecycle; receives its events by callback |
| **Coder loop** `coder.py` | attempt number, error signatures, the files in the workspace | up to `max_fix_attempts` of: ask, apply, guard the interface, verify | called by P4; calls P4's `verify` |
| **Integrity walls** `phases/integrity.py` | none (pure functions over test ids and diffs) | inventory ledger, diff scanner | called by P4 |
| **Sandbox broker** `sandbox/*` | per build: network, proxy, registered sandboxes and services; the daemon's table of brokers | provision, create, exec, create_service, destroy, audit | a Unix socket between the build and a single-threaded daemon |
| **Meter and roles** `models.py` | call counts and deadlines of the run and the iteration, role aliases | begin_run, begin_iteration, count | every model call; raises `BudgetExceeded` through the nodes |
| **Research** `research/` | none | search, fetch, summarise | called by P4 when asked |
| **Live board** `frontend/src/useEventStream.ts` | the current run's ids, log, last node and verdict as shown | connect, reconnect, one listener for each type of event | the event stream of the run manager |
| Playbooks, tracing, scrubbing, key proxy, security demo, ingest, schemas, CLI, configuration, prompts, views, templates, scripts | files and texts | I/O, validation, presentation | - |

What is hard here is not one function but long legal sequences. A criterion may
be met, judged gameable, rewritten, abandoned, planned again, descoped and
promoted after all, and five nodes write the flags that the final verdict
reads. Besides that: a process that may be stopped, capped, killed and resumed
between a commit on disk and the checkpoint of the node that made it; threads
of a web server around one run slot; and sandboxes whose creation can time out.

What makes each component correct:

- *Build graph*: a criterion that reads `met` is met by the code; `done` is
  earned; what ships was judged, passes and is accounted for; the loop ends.
- *Lifecycle*: a resumed build does not mistake its own unfinished work for
  evidence; a salvaged one claims no more than it knows; stop is not lost.
- *Run manager*: at most one run; every subscriber sees every event once and in
  order; the slot is free again when the run has ended.
- *Coder loop*: it ends; nothing broken or flagged is committed; failed work is
  rolled back.
- *Broker*: everything it created is removed, and nothing else; one build
  cannot reach what another one holds.
- *Meter*: no run makes more calls than its cap.
- *Live board*: it shows the current run and nothing of another, each line once.

`PROJECT.json` lists the components with what is modelled of each, and under
`hazards` the places where this code is hard to test.

## 2. Plan

The modules, in the order they were written; each is checked by at least one
run, those with a `_proofs` module are proved about.

| Module | Is about | Uses |
|---|---|---|
| `BuildPipeline`, `BuildPipeline_proofs` | the graph of one undisturbed build | - |
| `EventStream`, `EventStream_proofs` | what a reader of events is promised | - |
| `RunManager`, `RunManager_proofs` | slot, event log, subscribers, stop; implements `EventStream` | `EventStream` |
| `BuildLifecycle`, `BuildLifecycle_proofs` | the build over several processes: checkpoint against disk | extends `BuildPipeline` |
| `Broker`, `Broker_proofs` | daemon, docker and clients | - |
| `CoderLoop`, `CoderLoop_proofs` | P4 from inside, under the call meter | - |
| `Board`, `Board_proofs` | the board of a browser tab, over the abstract stream | extends `EventStream` |

Left to do: an abstract verdict ladder (every planned criterion comes to one
final verdict within its budgets) that `BuildPipeline` implements; a refinement
from `CoderLoop` to the `Iterate` actions of `BuildPipeline`, whose outcomes are
matched by hand today.

## 3. `BuildPipeline`

One step of the specification is one node of the LangGraph graph, which runs
its nodes one after the other on one thread; the critic and P4, whose outcomes
differ in everything that matters, have one action per outcome.

| In the model | In the code |
|---|---|
| `node` | the node the graph runs next: edges of `build_graph` and the routing functions `_after_*` |
| `spec`, `plan`, `crit` | `BuildState.spec`, `plan.iterations[*].acceptance[0]`, `success_criteria[*].status` |
| `iteration` .. `replan_mode` | the ladder's fields of the same names; `iteration` counts from 1 |
| `degraded_critic` | `same_family("critic", "coder")`, fixed for a run |
| `last_status`, `last_coder_stuck`, `research_pending`, `last_research_iteration` | the last iteration record and the research rung |
| `inventory_ok`, `red_first_ok` | the walls' flags, reset by P2 |
| `highs`, `high_incident_criteria` | the `[high]` entries of `incidents`, counted up to "two or more", and the criteria they hit |
| `commit_sha` | only what the code compares: nothing, the scaffold's commit, or a later one |
| `green_test_files`, `adequacy_credits`, `descope_report`, `suite_ok` | the fields of the same names; entries of the report that are not marked `resolved` |
| `staged`, `published` | the files in `staging/tests` and in `workspace/tests` |
| `passes` | which staged tests are green on the committed workspace |
| `vetted`, `probed`, `rechecked` | *observation only*: which text the critic let through, what the probe saw, what P5 looked at again. No guard reads them. |

`Ingest` is P0; `SpecBuildable` and `SpecNotBuildable` are P1; `MakePlan` is P2;
`ScaffoldPreserve` and `ScaffoldStamp` are P3; the six `Iterate...` actions are
P4 with its probe, the coder's result, the ledger, the commit or rollback and
the record it returns; the six `Critic...` actions are the dispositions of
`p_critic` with the mapping to a routing verdict; `Docs` is P5 with the
rehabilitation sweep, the credit re-check, publishing and the commit; then
`Cleanroom` and `Emit`.

Abstractions, each of which the properties survive:

- A criterion is a model value, and the test file staged for it is the same
  value: within a plan they are in one-to-one correspondence, and P2 empties the
  staging directory when it makes a plan. Criteria of one specification are
  taken to be distinct texts.
- The models, the sandbox and the clean-room answer in every way the code
  distinguishes. The critic being unreachable is one of its `adequate` answers,
  as in the code.
- Code is the set of tests it makes green. The suite is green only if every
  staged test is, a reset restores the committed code, and re-stamping the
  template comes after a respec, when P2 has emptied the staging. **Assumed:**
  a test that passes once on some code passes again on it; flaky tests are not
  modelled. The clean-room may still fail for reasons of its own.
- Playbooks, notes, forensics, tracing and the wording of reports are left out.

Exceptions that escape a node, stopping and the refine mode are in
`BuildLifecycle`, the budget meter in `CoderLoop`: this module describes a fresh
build that is left to run.

## 4. `BuildLifecycle`

The `BuildState` variables of `BuildPipeline` are the checkpoint that LangGraph
writes after every completed node. The disk is not checkpointed. A node that is
cut short - killed, an exception, a cap - leaves on the disk one of the states
in `Cuts` and keeps nothing of what it knew; the next process starts the node
over on that disk. So `IterateNode` restates P4 for any tree and any suite it
finds, where `BuildPipeline` may count on a clean one.

| In the model | In the code |
|---|---|
| `run`, `mode` | which core function runs, or none; `BuildState.refine_mode` |
| `saved` | the checkpoint database has the build's thread: `graph.invoke` has saved its input |
| `sentinel`, `artifact` | the `.stop` file, the status in `v01.json` |
| `head`, `dirty`, `on_head`, `passes` | HEAD, whether the tree has edits no commit holds, and the staged tests that pass on each |
| `parked` | `staging/refine_pending` |
| `services_up` | `ctx.service_env`, which lives as long as the process |
| `faults` | *bound*: stops, crashes and caps of one behaviour |

`QuietNode` .. `EmitNode` are nodes that complete, with the stop check of
`_wrap_node` before them; `Crash` is a kill at any point, or an exception, with
the failed artifact `build_poc` may still write, or the one P7 had saved;
`EnterGraph` is the point from which there is a checkpoint, and `NothingToResume`
what a resume comes to when the build was killed, or its broker could not be
provisioned, before that; `Salvage` is `_salvage_run`
after a budget or recursion cap; `RequestStop` and `StopAtNode` are the
cooperative stop; `Resume` and `Refine` are the two ways a new process enters.
In a refine, whose graph has neither respec nor replan, the pinned counts keep
the critic to the verdicts that graph has edges for.

Bounds and abstractions: a build is refined once, after it has finished
(`refine_build` says so of itself, but asks only for a checkpoint: section 10),
and only if it has a specification (when a respec ended as not buildable, the
code would go on with the plan of the specification before; what it emits stays
not buildable). `git reset --hard` leaves
untracked files; every template's editable file is in HEAD, so the model has
none. P5's cut leaves any subset of what its sweep may do. A refine has the
backlog alone for its plan, so a sibling outside it is credited by the name of its
file (`CreditedAs`); no criterion has that name, and P5 looks at such a credit
again every time.

## 5. `CoderLoop`

One visit of P4 in the steps that `BuildPipeline` takes as one: research, the
tester's up to three tries, the red-first probe, the coder's attempts, the
verdict on them, commit or rollback, the lesson and the critic, each model call
under the meter. The tests' content is left open: whether a suite is green on a
tree is a free choice in every step.

| In the model | In the code |
|---|---|
| `head`, `tree` | each editable file in the last commit and in the workspace, as the gates see it: `stub`, `code`, `gutted` (does not parse or lost an export), `tampering` (the diff scanner flags it) |
| `attempt`, `failure`, `sigs`, `passed` | the locals of `BespokeCoder.run` and its `CoderResult` |
| `incident`, `outcome`, `stuck` | `integrity.blocking(incidents)`, `it_status`, `coder_stuck` |
| `caps`, `run_calls`, `iter_calls` | `METER` |
| `pc`, `resume_at` | where the process is; the node that starts over when the next one comes |

`AskRefused` is an answer without a usable block or with a path it may not
touch: the files before that path are already written, and stay until the
iteration ends. `AskReverted` is an edit that broke the interface and was put
back; `AskErrs` a model call that raises. The lesson (`Closing`) is asked for when the
iteration struggled; when it did not, it may be: a medium incident of the research
or `PF_FORCE_REFLECT` have it asked for too. The interface gate (`Intact`) is
always on: each template in the repository declares an interface, without which
the code has no gate. `Overrun` is `BudgetExceeded`, by a
call cap or, at any call, by a wall clock; `Raised` an error of the sandbox or
of the tester's model, which leaves the tree as it is. `Resume` is a process
that takes up a salvaged build with a new run budget. What a kill leaves behind
in the middle of a step is `BuildLifecycle`'s matter.

## 6. `Broker`

`sandbox/*`: the daemon, which alone drives docker and takes one connection at a
time, the `Broker` it keeps for each build, and the client of each build. One
action is one docker command, one accepted request, one answer, or one step of
a client; the interleaving is between clients that give up, die and come back
and the daemon that still works for them.

| In the model | In the code |
|---|---|
| `up` | the daemon's process |
| `table`, `gen` | `BrokerDaemon._brokers`; how many Brokers were made for a build |
| `provisioned`, `registered` | `_provisioned` and `_sandboxes` of the current one |
| `queue`, `job` | connections that wait for `accept`; the request in service with the docker commands it has still to run |
| `docker` | what exists: `<<build, Broker, kind>>` |
| `pc`, `wait`, `held`, `calls` | where a client is, the call it waits for, its live handles, *bound* |
| `excused` | *observation only*: Brokers whose removal a failed removal, a killed client or the daemon's end prevented |

A client stands for `build_poc`, `resume_build`, `refine_build`, `template_ci`
and the security demo: provision, calls, and a destroy on the way out - of
`template_ci` and the demo only if the provision returned. `GiveUp` is a socket
timeout; the request it leaves behind is still served. `AnswerNobody` is what
then happens: sending raises, sending the error raises again, and `serve` ends
with the table. `MakeStep` lets a command fail, or be cut off by its timeout,
which `_run` does not report as a failure, with or without its effect.
`proxy_log` and `audit` are left out; they read.

## 7. `EventStream` and `RunManager`

`RunManager` models `web/runmanager.py` with what its threads do to shared
state. A section under the manager's lock is one action, and so is every step
outside it that another thread can see: one `q.put`, one look at the stop
sentinel, writing it, removing it.

| In the model | In the code |
|---|---|
| `current` | `_current`: its `state` and `build_id`; `idle` stands for the `None` before the first run |
| `replay`, `subscribers` | `_replay`, `_subscribers` |
| `queue` | the `Queue` that `subscribe` returned to each connection |
| `thread`, `kind`, `target` | where the run's thread is, what it was launched for, the build it works on; `dead` when `_thread` is not alive |
| `fanout` | the local variables of a `_publish` between its lock and its last `put` |
| `known`, `sentinel` | the build folders, and those that hold `.stop` |
| `stopping` | the local `target` of each `stop` call between its lock and `_stop_fn` |
| `run`, `published`, `delivered`, `gone`, `acked` | *observation only*: no guard reads them but those of the bounds |

`Launch` is `start`, `resume`, `refine` and `security_demo` up to
`_thread.start()`; `MintBuild`, `ClearStop`, `NameDemo` and `Begin` are what the
core functions do before their `start` event; `EnterNode` and `Node` are the
wrapper of a graph node, `StopAtNode` the `BuildStopped` it may raise, `Log` is
`Ctx.say`, `Beat` and `DemoDone` the security demo, `Fail` an exception;
`Conclude`, `PublishLast` and `Exit` are the rest of `_run` and `_run_demo`.
Each event publishes by `Record` (the section under the lock) and one `Put` for
each subscriber it found there; the thread goes on when the last is done.
`Subscribe`, `Take` and `Unsubscribe` are the `/api/events` handler, `StopRead`
and `StopWrite` the two halves of `stop`.

A launch that finds the slot taken raises `RunBusy`, and a stop that finds no
id answers so: neither changes state, so neither is an action. What a build
does between its events is `BuildPipeline`'s matter; here it goes from node to
node, fails, or ends. The text of events, the snapshot, and the `phase`,
`status` and `error` texts of the summary are left out. Builds are resumed and
stopped by ids that exist. The sentinel is checked where the code checks it, on
every node, and a demo has no nodes and so no stop.

`EventStream` is what a reader may expect, with none of this: runs follow one
another, publishing reaches all open feeds in one step, and a feed that opens
gets the remembered events of the current run. `RunManager` implements it under
the mapping `phase <- Phase`, `view <- View`, where a feed's view is what its
reader took, what is in its queue and what the publication in progress is about
to put there: an event counts as published in `Record`.

## 8. `Board`

The live board of one browser tab. It extends `EventStream`, which
`RunManager` implements, so its connections are feeds and the server is the
abstract one. A run publishes its start, up to `recursion_limit` node events,
any number of log lines and one end or error; `Connect` is a page load (the board
is empty) or the browser's own reconnection (the board stays, and is sent the
remembered events again), `Disconnect` loses what is on its way, `Receive`
hands one event to its listener. The board is what each display is showing of
which event; `BoardAssumption` relates three constants of three files: `LOG_CAP`
(1000) + `recursion_limit` (150) + 1 <= `_MAX_REPLAY` (2000). `LogIsTheTail`
depends on it: with a smaller replay buffer, a replay without its start no
longer pushes every older line out. Beats of a demo add up as lines do, in a run too
short to be forgotten, and are left out; a restart of the server is too.

## 9. Runs

| Run | Checks | Instance | Distinct states |
|---|---|---|---|
| `ladder` | `TypeOK`, `MetTestsPass`, `DoneIsEarned`, `ShippedIsVetted`, `DescopeAccounted`, `LadderDescends`, `Terminates` | two criteria; four specifications (order, size, an untestable core, open questions), so a respec changes something; the **shipped** caps (K 3, degraded 2, respec 1, replan 1, re-author 2) | 428 k |
| `lifecycle` | `LifecycleTypeOK`, `ShippedIsVetted`, `DoneIsAboutHead`, `RefineBreaksNothing`, `StepsAreGraphSteps`, `InterruptedBuildEnds` | two criteria, one re-author, no fixes; one fault, any number of resumes, one refine | 339 k |
| `coder` | `TypeOK`, `HeadIsSound`, `IncidentIsNotMet`, `UnmetIsRolledBack`, `BudgetHolds` | two files, the shipped three attempts, two visits, two processes; no cap, one per run, one per iteration | 1.38 M |
| `broker` | `TypeOK`, `NothingLeftBehind`, `HandlesResolve`, `ClientsEnd` | two builds with two calls each, a key proxy, one box, one fault, up to two Brokers of a build | 495 k |
| `feeds` | `TypeOK`, `FeedsAreExact`, `ImplementsStream` | two feeds (symmetric), one build, two runs of up to three events each, a replay buffer of two, so that it overflows | 1.16 M |
| `stops` | `StatusNamesTheRun`, `LateStopHolds`, `LastEventArrives` | one request, one build and the demo, one feed, two runs, a replay buffer of one | 299 k |
| `board` | `BoardTypeOK`, `LogIsTheTail`, `BoardIsOfOneRun` | two connections, two runs of up to three lines, a log of two, a replay of four, the least that `BoardAssumption` allows: a run outgrows both | 2.58 M |
| `published_tests`, `credits`, `resume_services`, `swept_edits`, `daemon_survives` | one statement of the documentation each, which the code does not keep | an instance that shows it | - |

What they show:

- `MetTestsPass` - a criterion reads `met` only while its staged test passes on
  the committed workspace. Neither the cumulative gate (all staged tests, not
  the new one) nor the rollback of failed edits is enough alone; the mutant runs
  the new test only, and a later iteration then breaks an earlier one unseen.
- `DoneIsEarned` - when a build says `done`, the core criterion is met by a
  published, passing test that was not green on the bare stub. The gate is keyed
  on the commit, not on the replan: the mutant that keys it on the replan lets a
  replan whose workspace is still the stub meet the core with a weak test.
- `LadderDescends` - the measure (respecs left, replans left, distance to a plan,
  iterations left, re-authors left, fixes left, distance to the end) drops
  lexicographically in every step. It is why the loop ends although most of its
  counters are reset on the way, and it does not need the recursion limit.
- `ShippedIsVetted` - one evidence standard for every way a criterion is promoted
  (green, met-existing, sweep): its test is in the shipped workspace and its
  *current* text is one the critic let through. In `lifecycle` it holds across
  crashes, resumes and a refine.
- `DescopeAccounted` - nothing planned ends as pending, and each descoped
  criterion has an open entry in the report, including those P5 demotes.
- `Terminates` - with weak fairness of the graph's step.
- `DoneIsAboutHead` - however a build was stopped, cut and resumed, `done` is
  about what was committed: every published test passes on HEAD and nothing is
  left uncommitted. It is P5's commit that makes it so when P4 was cut and its
  edits lay in the tree (mutant).
- `RefineBreaksNothing` - a test that passed on HEAD for a criterion met before
  the refine goes on passing, in every step of the refine and every cut of one.
- `StepsAreGraphSteps` - as long as the tree is clean, every step of the disturbed
  build is a step of `BuildPipeline` or leaves the checkpoint alone; a crash
  between a commit and its checkpoint is one too.
- `InterruptedBuildEnds` - every run ends, and a build that has a checkpoint and is
  resumed comes to its end: the counters survive in the checkpoint, a stop is
  cleared by the resume (the mutant keeps it). One without a checkpoint never
  does (section 10).
- `HeadIsSound` - the gates look at the workspace, not at the answer: what an
  earlier, refused answer or a process that ended left in a file the green
  answer did not touch is caught as well. The mutant looks at written files only.
- `IncidentIsNotMet`, `UnmetIsRolledBack` - a flagged edit decides over a later
  green suite, and every outcome that is not met leaves the last commit.
- `BudgetHolds` - no call passes a cap, and without one an iteration makes at most
  `max_fix_attempts` + 6.
- `NothingLeftBehind` - whichever command failed or was cut off, and however many
  clients work on a build, once its client is through and no abandoned request
  of it waits, nothing made for it exists. That the teardown names the fixed resources
  instead of noting what was made is what it takes (mutant).
- `HandlesResolve` - a handle a client holds is registered.
- `ClientsEnd` - no client waits for ever, also for a daemon that is gone.
- `ImplementsStream` and `FeedsAreExact` - a reader gets every event once, in
  order, without a gap, and an open feed has, or is about to be given, the newest
  one, whoever joins, leaves or lags while a publication is being fanned out. The
  copy of the subscriber list is what makes it so: with the list itself
  (mutant) a reader that joins in the middle gets the event from the replay
  and again from the fan-out.
- `StatusNamesTheRun` - while a run is live, the id in the slot, which status
  shows and stop aims at, is its own or not known yet.
- `LateStopHolds` - once a stop of this run's build was answered after the start
  event, no further node is entered, also when the sentinel was written by a
  request that began before this run.
- `LastEventArrives` - a reader that stays gets the last event of each run.
- `LogIsTheTail`, `BoardIsOfOneRun` - a tab that has caught up shows the last lines
  of the current run, each once and in order, whatever was lost and replayed; and
  where it saw the run's start, no verdict or error of another.

**Bounds.** Two criteria are enough for the ladder: the loop's state is per
iteration, and what one iteration can do to another (break its test, reset its
counters, meet it early) needs two. Credits need three, and `credits` has
them. The lifecycle keeps the ladder's caps low, since what it adds is
independent of how often a rung is climbed; larger instances were run by hand
and passed (two faults: 889 k states; one fix and one re-author: 1.55 M). One box and
two builds suffice for the broker: boxes do not interact, and what one build
does to another is to hold the daemon, or to end it (two faults, one Broker per
build: 570 k, passed by hand). Two feeds do not interact except through the order
in which a publication reaches them. For the board, four lines with a
replay of four (11.2 M), and five with a replay of five (26 M), passed too; a replay
of three does not.

**Fairness.** In `BuildPipeline`, `WF_vars(Next)` only: the graph runs on one
thread, every model and sandbox call it waits for has a timeout, and no choice
is assumed to be made fairly - the coder may fail and the critic object for
ever. In `BuildLifecycle`, the same of a running process (its nodes,
its stop, its way into the graph or out of a resume), and of `Resume`: that
somebody resumes an interrupted build is the
operator's part and the condition under which it ends. In `RunManager`
(`FairSpec`), weak fairness of the run's thread as a whole and of `Take` for each
feed, which the generator of a connected reader repeats every second. In `Broker`,
of the daemon's steps, whose commands have timeouts, and of each client's
steps; nothing restarts a daemon or a build. Nothing is assumed of requests, of
new connections or of which way a run goes.

**Deadlock** is checked in the runs of `BuildPipeline`, whose END node stutters
explicitly. The others stop when their bounds are used up (launches, events,
connections, visits, calls, Brokers) or a finished build has nothing left to do,
so it is not checked there; the liveness properties say where they must not stop.

## 10. Where the code and its documents differ

Each of these is a run that TLC must find violated:

1. `PublishedTestsPass`: P4 puts a test on the publish list before the critic has
   judged it and nothing but a credit demotion takes it off, so a test that was
   re-authored and then descoped is published and may fail the clean-room.
2. `CreditsRechecked`: the met set of the credit re-check is taken before its own
   demotions; a criterion that leans on one demoted in this pass is not looked at
   again.
3. `ServicesReachTheSandboxes`: P3 starts the sibling services and notes their
   addresses in an object of the process. A resume or refine that enters the graph
   after P3 has neither.
4. `CriticJudgesACommit`: a process killed while the coder edits leaves the
   edits in the workspace, and resume does not reset it. The repeated
   iteration probes its test there, and the critic judges code that no commit holds and
   the scanner never saw. (`DoneIsAboutHead` shows that P5 commits it.)
5. `DaemonSurvives`: a request whose client has given up ends the daemon, since
   reporting the failed answer fails as well, inside the handler that was to keep
   the daemon alive. The brokers of all other builds go with its table.

Others met while modelling are not worth a run each:

- A build that was killed, or whose broker could not be provisioned, before
  `graph.invoke` saved its input has no checkpoint: each resume provisions
  a broker, raises and leaves (`core.py:122`, `core.py:274`; `NothingToResume`).
  `ROADMAP.md:222` says that a killed run "resumes from the last green commit
  and completes".
- `refine_build` re-attacks "a FINISHED build's" backlog (`ROADMAP.md:348`), but
  nothing in it asks whether the build has finished (`core.py:382`): one that was
  stopped, killed or salvaged is refined as well, on the same workspace that its
  own thread can still be resumed on.
- A contained red-first or ledger incident leaves a flag that keeps the verdict at
  `incomplete`, while the report calls the incident informational
  (`phases/pipeline.py:1129`).
- Strict red-first ends with the first iteration even if nothing was committed in
  it, so a later criterion can be met by a test that is green on the bare stub;
  `DoneIsEarned` shows that the core criterion cannot. After a resume it is judged
  on the checkpoint's `commit_sha`, which a crash may have left behind HEAD.
- A replan starts its first iteration with the re-author count of the iteration
  that gave up (`phases/pipeline.py:187`).
- A stop that chose its build before the run ended, and writes the sentinel after
  the build was resumed, stops the resumed run (`web/runmanager.py:195`). One
  answered between the launch of a resume and its `clear_stop` is lost. One
  without an id after a run has ended is not the no-op its docstring says.
- A new run resets the replay buffer but not, as a comment has it, the queues of
  readers that are behind.
- The signature of the last attempt never joins the trail that decides whether the
  coder was stuck (`coder.py:289`), so a failure repeated at attempts 2 and 3 of 3
  does not count, although `src/config/pipeline.yaml:11` asks for two.
- A tab that missed the start of a run whose start the server has forgotten goes on
  showing the verdict or error of the run before.

## 11. What a mutant is for

Each property of a passing run has a mutant in `PROJECT.json`: a definition of
the model changed as a plausible bug would change the code, under which the
property fails. Their bodies stand before the definitions they replace and are
marked `(wrong form: ...)`; nothing else uses them.

## 12. Proofs

Every safety invariant and every action property of a passing run is a theorem,
for every value of the constants under the assumptions named with it, each of
which a run evaluates on its instance. The bounds on faults, calls, processes,
runs and lines are constants like the others, so the theorems hold for every
bound. TLC checked the inductive invariants on small instances before they were
proved.

`BuildPipeline_proofs` is about every set of criteria, every set of well-formed
specifications and every value of the caps (`SpecsAssumption`, `CapsAssumption`):

| Theorem | Says | Inductive invariant |
|---|---|---|
| `TypeCorrect` | `TypeOK` always | `TypeInv`: `TypeOK` and `LoopInPlan` - inside the loop there is a plan and the iteration is one of it, without which the target has no type |
| `MetTestsAlwaysPass` | `MetTestsPass` always | the property itself, with `TypeInv` |
| `ShippedAlwaysVetted` | `ShippedIsVetted` always | `VettedInv`: the publish list has every met criterion; in the loop only the target can be met and not yet vetted; every path into the loop or past it starts with nothing met |
| `LadderAlwaysDescends` | each step lowers the measure | `TypeInv` |
| `RankAlwaysNatural` | the measure stays in the naturals | `TypeInv`, and an iteration at most one past the plan |
| `DoneAlwaysEarned` | `DoneIsEarned` always | all of the above with `ProbedInv` (every staged test was probed; the first target is green on the stub only if the red-first flag says so), `PlannedInv` (met criteria are planned and the plan is the specification's) and `SuiteInv` (the suite's verdict is about what ships) |

The last one rests on `PlanHead`: in a plan that P2 makes, the first criterion
occurs once, and a core criterion that is planned comes first. So the one
iteration for which red-first is strict is the core's.

`DescopesAlwaysAccounted` (`DescopeAccounted` always) has the invariant
`AccountInv`: in the loop every iteration before the target's is settled, and only
the target can be descoped without an entry - P4 marks it before the critic writes
one, and a fix or re-author leaves the mark.

`LadderAlwaysDescends` and `RankAlwaysNatural` together are the safety half of
termination: no run has an infinite number of non-stuttering steps. That a run
reaches END needs fairness and stays with TLC (`Terminates`).

`EventStream_proofs` and `RunManager_proofs` are about any number of feeds,
requests, builds, runs and events, under `IdsAssumption` (the three kinds of id
are distinct) and `BoundsAssumption` (the replay buffer holds at least one event):

| Theorem | Says | Inductive invariant |
|---|---|---|
| `StreamIsExact` | in the abstract stream, events follow one another without a gap and open feeds end with the newest | `IInv`: types, `ReplayInv` (the buffer holds the run's last events, numbered to the newest, and is empty only if there are none) and `LastInv` (an open feed ends with the newest event, or, when the run has none yet, with one of an earlier run) |
| `ManagerTypes` | `TypeOK` always | itself |
| `StatusAlwaysNamesTheRun`, `LateStopAlwaysHolds` | `StatusNamesTheRun`, `LateStopHolds` | `ControlInv`: types, the status property with what a thread in `call` has as target, and `LateInv` (an acknowledged late stop's sentinel is there; in `call`, where the sentinel may be removed, there is none) |
| `ManagerImplementsStream` | every step of the manager is a step of `EventStream` or a stutter | `TypeOK` and `FeedInv`: a connection not made yet has nothing in its queue, was given nothing and is not in a fan-out. `Put` and `Take` leave `View` alone (`PutMoves`, `TakeMoves`) |
| `FeedsAlwaysExact` | `FeedsAreExact` always | none of its own: `StreamIsExact`, carried over by `ManagerImplementsStream` |

`LastEventArrives` needs fairness and is only model-checked.

`CoderLoop_proofs` is about any editable files, any signatures, any number of
attempts, any budgets, visits and processes (`CoderAssumption`):

| Theorem | Says |
|---|---|
| `Invariant` | `IInv` always |
| `TypeCorrect`, `CommitsAreSound`, `IncidentsAreNotMet`, `UnmetAreRolledBack`, `CallsAreBounded` | the five properties of `coder`, each a conjunct of it |

Beside those five, `IInv` has `GatesInv` (between an applied answer and the
verdict the tree has passed the gate; what passed is sound), `TrailInv` (the
trail of signatures is shorter than the attempts made), `CallsInv` (the calls an
iteration has made, by the step it is at, without which the bound on them is not inductive)
and `DownInv` (a run that was salvaged at the critic has a clean tree). That a
commit is sound uses that `head` was: the scanner compares with it.

`BuildLifecycle_proofs` is about any number of stops, crashes, caps and resumes
(`SpecsAssumption`, `CapsAssumption`):

| Theorem | Says |
|---|---|
| `LifecycleTypeCorrect`, `InterruptedShipsVetted`, `DoneIsAlwaysAboutHead` | `LifecycleTypeOK`, `ShippedIsVetted`, `DoneIsAboutHead` always |
| `RefineNeverBreaks` | no step of a refine takes from HEAD a test that passed for a criterion met before |
| `StepsAreAlwaysGraphSteps` | on a clean tree each step is one of `BuildPipeline`, or leaves the checkpoint alone |

The five share `LifecycleInv`: the types and `VettedInv` of the graph, and

- `PlaceInv`: a refine stays in its graph, since both pinned counts are at their
  caps; P3 has no staged tests.
- `PresentInv`: a met criterion's test is staged or published. With
  `ParkedOut`, which takes the target's test alone, it is why `VettedInv`
  survives a refine.
- `TreeInv`: a tree that a crash left dirty is clean again at P5's commit, and only
  a build works on a dirty one.
- `CleanInv`: a suite that was green was green on the commit, with every
  published test. `SaidInv`: `done` was said with that and the core met.

The lemmas are about disks: wherever a node is cut, no staged test is lost but a
refine's target, nothing published is taken back, nothing is vetted but the
target, and HEAD differs by nothing but the target. On a clean tree a test
answers as it does on HEAD (`CleanAnswers`), which is why P4 restated for any
tree is an `Iterate` step there.

`Broker_proofs` is about any builds and boxes, any number of Brokers, calls and
faults (`BrokerAssumption`):

| Theorem | Says | Inductive invariant |
|---|---|---|
| `TypeCorrect` | `TypeOK` always | `TypeInv`: also that a queued or served request is one a client makes |
| `HandlesAlwaysResolve` | `HandlesResolve` always | `LinkInv`: the request whose client listens is the call it waits for, and the last of its build (`RequestsInv`, `OpenLast`); what is left of a request fits how it began (`JobInv`); a daemon that is down has neither requests nor Brokers |
| `NothingEverLeftBehind` | `NothingLeftBehind` always | `CleanInv`: what exists is of the current Broker, with its boxes registered, or excused (`OwnedInv`); a teardown still has before it all that exists (`TeardownInv`); a build nobody works on has nothing (`RestInv`); a provision finds a clean build, or waits behind a request nobody listens for, whose answer ends the daemon (`ProvisionInv`) |

`Board_proofs` is about any number of runs, lines and connections, and every
`LogCap`, `MaxNodes` and `MaxReplay` that `BoardAssumption` relates; the steps of
the board are steps of `EventStream` or stutters, so `StreamIsExact`'s `IInv` is
part of the invariant:

| Theorem | Says |
|---|---|
| `BoardTypes`, `LogIsAlwaysTheTail`, `BoardIsAlwaysOfOneRun` | the three properties of `board` |

`BoardInv` adds `RunInv` (how a run's events are numbered), `MemoryInv` (the
server forgets only what it has no room for), `ViewInv` (a connection has events
of older runs, then those of this run without a gap) and `TailInv` (the board
shows the lines among those it got). Where the start is missing, at least
`MaxReplay` events came; at most `MaxNodes` + 1 of them are not lines, so at least
`LogCap` are, and they push every older line out. The proof needs no more than
`BoardAssumption` says, and on the instance of `board` no less will do: with a
replay of three TLC finds a line of an older run.

Trying to prove them corrected the models. The guards of `Returns` and `Served` in
`Broker` overlapped, so that CASE was free to choose, although TLC took the branch
that was meant; they are disjoint now. `Refine` was possible without a
specification, in which case the types of the graph do not hold: this is now a
bound that section 4 names. The runs have the same states as before.

**Only model-checked:** the liveness properties, which need fairness and are out
of the prover's reach: `Terminates`, `InterruptedBuildEnds`, `ClientsEnd` and
`LastEventArrives`.
The five statements of section 10 are refuted by a run.

## 13. Not modelled

- Text: the regular expressions of the diff scanner and of edit parsing, prompts,
  playbooks, reports, scrubbing, schemas and ingest (P0 keeps one bit of it).
- I/O around the modelled core: tracing, fetching and summarising in the research
  agent, the probes of the security demo, the key proxy, file ownership.
- `BuildLifecycle`: a second refine, promotion of the workspace, listing and
  deleting builds; the recursion limit as a number (it may strike between any two nodes).
- `Broker`: the allowlists' contents, the VM's environment, `proxy_log`, `audit`, the
  in-process broker without a daemon (the same `Broker`, with nothing between).
- Run manager and board: the read-only endpoints, the snapshot's content, the
  summary's texts, a restart of the server, the views and the polling of the front end.
- The command line, configuration, templates and scripts.

`PROJECT.json` gives the status of each component.

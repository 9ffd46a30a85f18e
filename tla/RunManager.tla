----------------------------- MODULE RunManager -----------------------------
(***************************************************************************)
(* The single-slot run controller of the web interface                     *)
(* (web/runmanager.py): the HTTP threads that start and stop runs, the     *)
(* thread of the one run, and the connections that read its events.        *)
(*                                                                         *)
(* A section under the manager's lock is one step, and so is each call     *)
(* outside it that other threads can see: a put into one feed's queue, a   *)
(* look at the stop sentinel, writing it, removing it.  What a run does    *)
(* between its events is BuildPipeline's matter and left out.              *)
(***************************************************************************)
EXTENDS Integers, Sequences, FiniteSets

CONSTANTS
  Build,       \* the ids that builds may be given
  DemoId,      \* the id of a security demo, which is not a build
  NoBuild,     \* no id yet (the empty string)
  Feed,        \* connections to /api/events, each of them made once
  Request,     \* the threads that serve requests to stop
  MaxReplay,   \* _MAX_REPLAY
  MaxRuns,     \* bound of the model: runs launched
  MaxEvents    \* bound of the model: events of a run before its last one

ASSUME IdsAssumption ==
  /\ NoBuild \notin Build
  /\ DemoId \notin Build \cup {NoBuild}
ASSUME BoundsAssumption ==
  MaxReplay \in Nat \ {0} /\ MaxRuns \in Nat /\ MaxEvents \in Nat

VARIABLES
  \* --- RunManager ----------------------------------------------------------
  current,       \* _current: its state and build_id
  replay,        \* _replay
  subscribers,   \* _subscribers
  queue,         \* the Queue of each feed
  \* --- the thread of the run -----------------------------------------------
  thread,        \* where it is; "dead" when _thread is not alive
  kind,          \* build, resume, refine or security-demo
  target,        \* the build the core function works on
  fanout,        \* the _publish in progress: its event, and the feeds to go
  \* --- the builds on disk --------------------------------------------------
  known,         \* builds that have a folder
  sentinel,      \* builds whose folder holds the stop file
  \* --- threads that serve stop ---------------------------------------------
  stopping,      \* per request: the build it is about to stop, or NoBuild
  \* --- observation: history the properties talk about ----------------------
  run,           \* number of the current run
  published,     \* number of events it has published
  delivered,     \* what the reader of each feed took out of its queue
  gone,          \* connections that ended
  acked          \* a stop of this run's build was answered after the run had
                 \* announced itself

slotVars   == <<current, replay, subscribers, queue>>
threadVars == <<thread, kind, target, fanout>>
diskVars   == <<known, sentinel>>
countVars  == <<run, published>>
feedVars   == <<delivered, gone>>
stopVars   == <<stopping, acked>>
vars == <<slotVars, threadVars, diskVars, countVars, feedVars, stopVars>>

Kind == {"build", "resume", "refine", "security-demo"}
Type == {"start", "node", "log", "beat", "end", "error"}
Id == Build \cup {DemoId, NoBuild}
Event == [run : Nat, n : Nat \ {0}, type : Type, build_id : Id]

ThreadState == {"dead", "call", "begin", "boundary", "node", "beats", "ended",
                "failed", "last", "exit"}

\* The thread is in _publish, between the lock and its last put.
Publishing == fanout.to # {}
\* RunManager.busy: the thread is alive.
Busy == thread # "dead"

NoEvent == [run |-> 0, n |-> 1, type |-> "end", build_id |-> NoBuild]

Init ==
  /\ current = [state |-> "idle", build_id |-> NoBuild]
  /\ replay = <<>>
  /\ subscribers = {}
  /\ queue = [f \in Feed |-> <<>>]
  /\ thread = "dead"
  /\ kind = "build"
  /\ target = NoBuild
  /\ fanout = [event |-> NoEvent, to |-> {}]
  /\ known = {}
  /\ sentinel = {}
  /\ stopping = [s \in Request |-> NoBuild]
  /\ run = 0
  /\ published = 0
  /\ delivered = [f \in Feed |-> <<>>]
  /\ gone = {}
  /\ acked = FALSE

-----------------------------------------------------------------------------
\* (wrong form: the new run keeps the last run's summary)
Launch_KeepsCurrent(k, b) ==
  /\ ~Busy
  /\ run < MaxRuns
  /\ b \in IF k \in {"resume", "refine"} THEN known ELSE {NoBuild}
  /\ replay' = <<>>
  /\ current' = [current EXCEPT !.state = "running"]
  /\ thread' = "call"
  /\ kind' = k
  /\ target' = b
  /\ run' = run + 1
  /\ published' = 0
  /\ acked' = FALSE
  /\ UNCHANGED <<subscribers, queue, fanout, diskVars, feedVars, stopping>>

\* start, resume, refine, security_demo: _launch under the lock.  With a live
\* thread it raises RunBusy and changes nothing.
Launch(k, b) ==
  /\ ~Busy
  /\ run < MaxRuns
  /\ b \in IF k \in {"resume", "refine"} THEN known ELSE {NoBuild}
  /\ replay' = <<>>
  /\ current' = [state |-> "running", build_id |-> b]
  /\ thread' = "call"
  /\ kind' = k
  /\ target' = b
  /\ run' = run + 1
  /\ published' = 0
  /\ acked' = FALSE
  /\ UNCHANGED <<subscribers, queue, fanout, diskVars, feedVars, stopping>>

\* The thread goes on, having published nothing.
Goto(from, to) ==
  /\ thread = from
  /\ ~Publishing
  /\ thread' = to

\* build_poc gives the build an id and a folder.
MintBuild ==
  /\ kind = "build"
  /\ Goto("call", "begin")
  /\ \E b \in Build \ known : target' = b /\ known' = known \cup {b}
  /\ UNCHANGED <<slotVars, kind, fanout, sentinel, countVars, feedVars, stopVars>>

\* resume_build and refine_build remove the sentinel of an earlier stop.
ClearStop ==
  /\ kind \in {"resume", "refine"}
  /\ Goto("call", "begin")
  /\ sentinel' = sentinel \ {target}
  /\ UNCHANGED <<slotVars, kind, target, fanout, known, countVars, feedVars,
                 stopVars>>

NameDemo ==
  /\ kind = "security-demo"
  /\ Goto("call", "begin")
  /\ target' = DemoId
  /\ UNCHANGED <<slotVars, kind, fanout, diskVars, countVars, feedVars, stopVars>>

-----------------------------------------------------------------------------
\* (wrong form: off by one)
Trimmed_OffByOne(r) ==
  IF Len(r) > MaxReplay + 1
  THEN SubSeq(r, Len(r) - MaxReplay, Len(r)) ELSE r

\* The replay buffer without its oldest events, if it has grown too long.
Trimmed(r) ==
  IF Len(r) > MaxReplay
  THEN SubSeq(r, Len(r) - MaxReplay + 1, Len(r)) ELSE r

\* _publish, the part under the lock: remember the event, forget the oldest,
\* keep the status current, and note who is to be given the event.
Record(t, b) ==
  LET e == [run |-> run, n |-> published + 1, type |-> t, build_id |-> b] IN
  /\ published' = published + 1
  /\ replay' = Trimmed(Append(replay, e))
  /\ current' = [current EXCEPT !.build_id = IF b = NoBuild THEN @ ELSE b]
  /\ fanout' = [event |-> e, to |-> subscribers]
  /\ UNCHANGED <<subscribers, queue, kind, target, diskVars, run, feedVars,
                 stopVars>>

\* _publish, after the lock: one q.put.
Put(f) ==
  /\ f \in fanout.to
  /\ queue' = [queue EXCEPT ![f] = Append(@, fanout.event)]
  /\ fanout' = [fanout EXCEPT !.to = @ \ {f}]
  /\ UNCHANGED <<current, replay, subscribers, thread, kind, target, diskVars,
                 countVars, feedVars, stopVars>>

\* The start event, with the build's id, before anything slow is done.
Begin ==
  /\ Goto("begin", IF kind = "security-demo" THEN "beats" ELSE "boundary")
  /\ Record("start", target)

\* (wrong form: a node does not look)
EnterNode_Unchecked ==
  /\ Goto("boundary", "node")
  /\ published < MaxEvents
  /\ UNCHANGED <<slotVars, kind, target, fanout, diskVars, countVars, feedVars,
                 stopVars>>

\* A node of the graph looks for the sentinel (raise_if_stopped) ...
EnterNode ==
  /\ Goto("boundary", "node")
  /\ target \notin sentinel
  /\ published < MaxEvents
  /\ UNCHANGED <<slotVars, kind, target, fanout, diskVars, countVars, feedVars,
                 stopVars>>

\* ... announces itself, and does its work.
Node ==
  /\ Goto("node", "boundary")
  /\ Record("node", target)

\* ... or finds it: BuildStopped ends the invocation, which emits a stopped
\* artifact and returns.
StopAtNode ==
  /\ Goto("boundary", "ended")
  /\ target \in sentinel
  /\ UNCHANGED <<slotVars, kind, target, fanout, diskVars, countVars, feedVars,
                 stopVars>>

\* The graph came to its end, or a refine had nothing to refine.
GraphDone ==
  /\ Goto("boundary", "ended")
  /\ UNCHANGED <<slotVars, kind, target, fanout, diskVars, countVars, feedVars,
                 stopVars>>

\* Ctx.say: a line of the work of a node, of preparing or of winding up.
Log ==
  /\ kind # "security-demo"
  /\ \E at \in {"boundary", "ended"} : Goto(at, at)
  /\ published < MaxEvents
  /\ Record("log", target)

Beat ==
  /\ Goto("beats", "beats")
  /\ published < MaxEvents
  /\ Record("beat", target)

\* security_demo publishes its own end.
DemoDone ==
  /\ Goto("beats", "ended")
  /\ Record("end", target)

\* The core function raises: no such source or build, provisioning, a phase.
Fail ==
  /\ \E from \in {"call", "begin", "boundary", "node", "beats"} :
       Goto(from, "failed")
  /\ UNCHANGED <<slotVars, kind, target, fanout, diskVars, countVars, feedVars,
                 stopVars>>

\* _run and _run_demo note under the lock how the run ended ...
Conclude ==
  /\ \/ /\ Goto("ended", IF kind = "security-demo" THEN "exit" ELSE "last")
        /\ current' = [state |-> "finished", build_id |-> target]
     \/ /\ Goto("failed", "last")
        /\ current' = [current EXCEPT !.state = "error"]
  /\ UNCHANGED <<replay, subscribers, queue, kind, target, fanout, diskVars,
                 countVars, feedVars, stopVars>>

\* (wrong form: a run that failed ends without a word)
PublishLast_OnlySuccess ==
  /\ Goto("last", "exit")
  /\ IF current.state = "finished"
     THEN Record("end", target)
     ELSE UNCHANGED <<slotVars, kind, target, fanout, diskVars, countVars,
                      feedVars, stopVars>>

\* ... and publish it.
PublishLast ==
  /\ Goto("last", "exit")
  /\ IF current.state = "finished"
     THEN Record("end", target)
     ELSE Record("error", current.build_id)

\* The thread function returns.
Exit ==
  /\ Goto("exit", "dead")
  /\ UNCHANGED <<slotVars, kind, target, fanout, diskVars, countVars, feedVars,
                 stopVars>>

-----------------------------------------------------------------------------
\* (wrong forms: no replay; and a fan-out that walks the list of subscribers
\* itself instead of its copy)
Subscribe_NoReplay(f) ==
  /\ f \notin subscribers \cup gone
  /\ subscribers' = subscribers \cup {f}
  /\ UNCHANGED <<current, replay, queue, threadVars, diskVars, countVars,
                 feedVars, stopVars>>
Subscribe_SharedList(f) ==
  /\ f \notin subscribers \cup gone
  /\ queue' = [queue EXCEPT ![f] = replay]
  /\ subscribers' = subscribers \cup {f}
  /\ fanout' = [fanout EXCEPT !.to = IF Publishing THEN @ \cup {f} ELSE @]
  /\ UNCHANGED <<current, replay, thread, kind, target, diskVars, countVars,
                 feedVars, stopVars>>

\* GET /api/events: subscribe, preloaded with the current run's events.
Subscribe(f) ==
  /\ f \notin subscribers \cup gone
  /\ queue' = [queue EXCEPT ![f] = replay]
  /\ subscribers' = subscribers \cup {f}
  /\ UNCHANGED <<current, replay, threadVars, diskVars, countVars, feedVars,
                 stopVars>>

\* The generator takes the next event and sends it.
Take(f) ==
  /\ f \in subscribers
  /\ queue[f] # <<>>
  /\ queue' = [queue EXCEPT ![f] = Tail(@)]
  /\ delivered' = [delivered EXCEPT ![f] = Append(@, Head(queue[f]))]
  /\ UNCHANGED <<current, replay, subscribers, threadVars, diskVars, countVars,
                 gone, stopVars>>

\* The reader disconnects.
Unsubscribe(f) ==
  /\ f \in subscribers
  /\ subscribers' = subscribers \ {f}
  /\ gone' = gone \cup {f}
  /\ UNCHANGED <<current, replay, queue, threadVars, diskVars, countVars,
                 delivered, stopVars>>

\* stop, under the lock: which build, the named one or the current one.  With
\* no id at all it answers that nothing was stopped, and changes nothing.
StopRead(s, b) ==
  /\ stopping[s] = NoBuild
  /\ b \in (known \cup {current.build_id}) \ {NoBuild}
  /\ stopping' = [stopping EXCEPT ![s] = b]
  /\ UNCHANGED <<slotVars, threadVars, diskVars, countVars, feedVars, acked>>

\* stop, after the lock: request_stop writes the sentinel, and the request is
\* answered.
StopWrite(s) ==
  /\ stopping[s] # NoBuild
  /\ sentinel' = sentinel \cup {stopping[s]}
  /\ stopping' = [stopping EXCEPT ![s] = NoBuild]
  /\ acked' = (acked \/ (stopping[s] = target /\ published > 0))
  /\ UNCHANGED <<slotVars, threadVars, known, countVars, feedVars>>

-----------------------------------------------------------------------------
RunStep ==
  \/ MintBuild \/ ClearStop \/ NameDemo
  \/ Begin \/ EnterNode \/ Node \/ Log \/ StopAtNode \/ GraphDone
  \/ Beat \/ DemoDone
  \/ Fail \/ Conclude \/ PublishLast \/ Exit
  \/ \E f \in Feed : Put(f)

Next ==
  \/ \E k \in Kind, b \in Build \cup {NoBuild} : Launch(k, b)
  \/ RunStep
  \/ \E f \in Feed : Subscribe(f) \/ Take(f) \/ Unsubscribe(f)
  \/ \E s \in Request, b \in Build \cup {DemoId} : StopRead(s, b)
  \/ \E s \in Request : StopWrite(s)

Spec == Init /\ [][Next]_vars

\* The thread of a run runs; a generator whose reader is connected keeps
\* polling its queue.
FairSpec ==
  /\ Spec
  /\ WF_vars(RunStep)
  /\ \A f \in Feed : WF_vars(Take(f))

-----------------------------------------------------------------------------
TypeOK ==
  /\ current \in [state : {"idle", "running", "finished", "error"},
                  build_id : Id]
  /\ replay \in Seq(Event) /\ Len(replay) <= MaxReplay
  /\ subscribers \subseteq Feed
  /\ queue \in [Feed -> Seq(Event)]
  /\ thread \in ThreadState
  /\ kind \in Kind
  /\ target \in Id
  /\ fanout \in [event : Event, to : SUBSET Feed]
  /\ known \subseteq Build
  /\ sentinel \subseteq Build \cup {DemoId}
  /\ stopping \in [Request -> Id]
  /\ run \in Nat
  /\ published \in Nat
  /\ delivered \in [Feed -> Seq(Event)]
  /\ gone \subseteq Feed
  /\ acked \in BOOLEAN

-----------------------------------------------------------------------------
\* The manager implements EventStream: although a publication reaches the
\* queues one at a time, and readers come, read and go meanwhile, each reader
\* sees what it would see if publishing were one step (lines 155-185).
Phase == [f \in Feed |-> IF f \in subscribers THEN "open"
                         ELSE IF f \in gone THEN "closed" ELSE "new"]

InFlight(f) == IF f \in fanout.to THEN <<fanout.event>> ELSE <<>>

View == [f \in Feed |-> (delivered[f] \o queue[f]) \o InFlight(f)]

Stream == INSTANCE EventStream WITH phase <- Phase, view <- View

ImplementsStream == Stream!Spec

\* In particular each reader gets the events in order, once, without a gap,
\* and an open feed is never short of one.
FeedsAreExact == Stream!InOrder /\ Stream!UpToDate

\* While a run is live, the id that status shows and that stop aims at is
\* never that of another run, and once the run has announced itself it is
\* known (_launch and _publish, lines 112 and 163-165).
StatusNamesTheRun ==
  /\ Busy => current.build_id \in {NoBuild, target}
  /\ thread \in {"boundary", "node", "beats", "ended"} =>
       current.build_id = target
  /\ current.state = "running" <=>
       thread \in {"call", "begin", "boundary", "node", "beats", "ended",
                   "failed"}

\* A stop that was answered after the run had announced itself holds: no
\* further node is entered (clear_stop comes before the start event, and
\* raise_if_stopped before every node).
LateStopHolds ==
  [][(thread = "boundary" /\ thread' = "node") => ~acked]_vars

\* Every reader that stays connected gets the last event of each run.
LastEventArrives ==
  \A f \in Feed, r \in 1 .. MaxRuns :
    (f \in subscribers /\ run = r /\ thread = "exit") ~>
      (f \in gone \/ \E i \in DOMAIN delivered[f] :
                       /\ delivered[f][i].run = r
                       /\ delivered[f][i].type \in {"end", "error"})
=============================================================================

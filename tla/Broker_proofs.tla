---------------------------- MODULE Broker_proofs ----------------------------
(***************************************************************************)
(* Proofs about Broker for every set of builds and containers, with or     *)
(* without a key proxy and a shared cache, and for every bound on the      *)
(* calls, the processes and the faults.                                    *)
(***************************************************************************)
EXTENDS Broker, SequenceTheorems, TLAPS

Creates == {"create", "create_service"}

\* What a connection asks for, and the daemon's record of the one it serves: a
\* call that starts a container names one.
Request ==
  {c \in [build : Build, method : Method, box : Box \cup {"none"},
          open : BOOLEAN] : c.method \in Creates => c.box \in Box}

Job ==
  {j \in [build : Build, method : Method, box : Box \cup {"none"},
          open : BOOLEAN, raised : BOOLEAN, make : SUBSET Kind,
          rm : SUBSET Kind] : j.method \in Creates => j.box \in Box}

\* The inductive form of TypeOK.
TypeInv == TypeOK /\ queue \in Seq(Request) /\ job \in Job \cup {Idle}

-----------------------------------------------------------------------------
(* What the pieces of the actions do                                        *)

LEMMA JobIsBusy ==
  ASSUME NEW j \in Job
  PROVE  j # Idle
  BY DEF Job, Idle, Method

LEMMA RequestSubset ==
  ASSUME NEW q \in Seq(Request)
  PROVE  q \in Seq([build : Build, method : Method,
                    box : Box \cup {"none"}, open : BOOLEAN])
  <1>1. Request \subseteq [build : Build, method : Method,
                           box : Box \cup {"none"}, open : BOOLEAN]
    BY DEF Request
  <1>2. QED
    BY <1>1, SeqMonotonic

LEMMA CallFacts ==
  ASSUME TypeInv, NEW b \in Build, NEW m \in Method,
         NEW x \in Box \cup {"none"}, m \in Creates => x \in Box,
         Call(b, m, x)
  PROVE  /\ queue' \in Seq(Request) /\ Len(queue') = Len(queue) + 1
         /\ \A i \in 1 .. Len(queue) : queue'[i] = queue[i]
         /\ queue'[Len(queue) + 1] = Connection(b, m, x)
         /\ wait' \in [Build -> Method \cup {"none"}] /\ wait'[b] = m
         /\ \A a \in Build : a # b => wait'[a] = wait[a]
  <1>1. Connection(b, m, x) \in Request
    BY DEF Connection, Request
  <1>2. queue \in Seq(Request) /\ queue' = Append(queue, Connection(b, m, x))
    BY DEF TypeInv, Call
  <1>3. /\ queue' \in Seq(Request) /\ Len(queue') = Len(queue) + 1
        /\ \A i \in 1 .. Len(queue) : queue'[i] = queue[i]
        /\ queue'[Len(queue) + 1] = Connection(b, m, x)
    BY <1>1, <1>2, AppendProperties
  <1>4. /\ wait' \in [Build -> Method \cup {"none"}] /\ wait'[b] = m
        /\ \A a \in Build : a # b => wait'[a] = wait[a]
    BY DEF Call, TypeInv, TypeOK
  <1>5. QED
    BY <1>3, <1>4

LEMMA HangUpFacts ==
  ASSUME TypeInv, NEW b \in Build, HangUp(b)
  PROVE  /\ queue' \in Seq(Request) /\ Len(queue') = Len(queue)
         /\ \A i \in 1 .. Len(queue) :
              queue'[i] = IF queue[i].build = b
                          THEN [queue[i] EXCEPT !.open = FALSE] ELSE queue[i]
         /\ job' = IF job # Idle /\ job.build = b
                   THEN [job EXCEPT !.open = FALSE] ELSE job
         /\ job' \in Job \cup {Idle} /\ (job' = Idle <=> job = Idle)
  <1>1. queue \in Seq(Request) /\ DOMAIN queue = 1 .. Len(queue)
        /\ Len(queue) \in Nat
    BY DEF TypeInv
  <1> DEFINE Hung(i) == IF queue[i].build = b
                        THEN [queue[i] EXCEPT !.open = FALSE] ELSE queue[i]
  <1>2. queue' = [i \in 1 .. Len(queue) |-> Hung(i)]
    BY <1>1 DEF HangUp
  <1>3. \A i \in 1 .. Len(queue) : Hung(i) \in Request
    <2> SUFFICES ASSUME NEW i \in 1 .. Len(queue) PROVE Hung(i) \in Request
      OBVIOUS
    <2>1. queue[i] \in Request
      BY <1>1, ElementOfSeq
    <2>2. QED
      BY <2>1 DEF Request
  <1> HIDE DEF Hung
  <1>4. queue' \in [1 .. Len(queue) -> Request]
    BY <1>2, <1>3
  <1>5. queue' \in Seq(Request) /\ Len(queue') = Len(queue)
    BY <1>1, <1>4
  <1>6. job' = IF job # Idle /\ job.build = b
               THEN [job EXCEPT !.open = FALSE] ELSE job
    BY DEF HangUp
  <1>7. ASSUME job \in Job PROVE [job EXCEPT !.open = FALSE] \in Job
    BY <1>7 DEF Job
  <1>8. job' \in Job \cup {Idle} /\ (job' = Idle <=> job = Idle)
    BY <1>6, <1>7, JobIsBusy DEF TypeInv
  <1>9. QED
    BY <1>2, <1>5, <1>6, <1>8 DEF Hung

\* Where a client goes with its answer or its error.
LEMMA ReturnsFacts ==
  ASSUME TypeInv, NEW b \in Build, NEW m, NEW ok \in BOOLEAN, NEW x,
         ok /\ m \in Creates => x \in Box,
         Returns(b, m, ok, x)
  PROVE  /\ pc' \in [Build -> {"new", "ready", "closing", "done", "killed"}]
         /\ wait' \in [Build -> Method \cup {"none"}] /\ wait'[b] = "none"
         /\ held' \in [Build -> SUBSET Box]
         /\ \A a \in Build : a # b => /\ wait'[a] = wait[a] /\ pc'[a] = pc[a]
                                      /\ held'[a] = held[a]
         /\ pc'[b] \in {"ready", "closing", "done"}
         /\ m = "destroy" => pc'[b] = "done"
         /\ m = "provision" => (IF ok THEN pc'[b] = "ready"
                                ELSE pc'[b] \in {"closing", "done"})
         /\ m \notin {"destroy", "provision"} => pc'[b] \in {"ready", "closing"}
         /\ held'[b] = IF ok /\ m \in Creates THEN held[b] \cup {x} ELSE held[b]
  <1>1. /\ pc \in [Build -> {"new", "ready", "closing", "done", "killed"}]
        /\ wait \in [Build -> Method \cup {"none"}]
        /\ held \in [Build -> SUBSET Box]
    BY DEF TypeInv, TypeOK
  <1>2. PICK next \in {"ready", "closing", "done"} :
          /\ pc' = [pc EXCEPT ![b] = next]
          /\ m = "destroy" => next = "done"
          /\ m = "provision" => (IF ok THEN next = "ready"
                                 ELSE next \in {"closing", "done"})
          /\ m \notin {"destroy", "provision"} => next \in {"ready", "closing"}
    <2>1. CASE m = "destroy"
      BY <2>1 DEF Returns
    <2>2. CASE m = "provision"
      BY <2>2 DEF Returns
    <2>3. CASE m \notin {"destroy", "provision"}
      BY <2>3 DEF Returns
    <2>4. QED
      BY <2>1, <2>2, <2>3
  <1>3. wait' = [wait EXCEPT ![b] = "none"]
    BY DEF Returns
  <1>4. held' = IF ok /\ m \in Creates
                THEN [held EXCEPT ![b] = @ \cup {x}] ELSE held
    BY DEF Returns, Creates
  <1>5. held' \in [Build -> SUBSET Box]
    BY <1>1, <1>4
  <1>6. QED
    BY <1>1, <1>2, <1>3, <1>4, <1>5

LEMMA ServeFacts ==
  ASSUME NEW c \in Request, NEW raised \in BOOLEAN,
         NEW make \in SUBSET Kind, NEW rm \in SUBSET Kind,
         Serve(c, raised, make, rm)
  PROVE  /\ job' \in Job
         /\ job'.build = c.build /\ job'.method = c.method
         /\ job'.box = c.box /\ job'.open = c.open
         /\ job'.raised = raised /\ job'.make = make /\ job'.rm = rm
  BY DEF Serve, Request, Job

LEMMA TeardownFacts ==
  ASSUME TypeInv, NEW b \in Build
  PROVE  /\ Teardown(b) \in SUBSET Kind
         /\ \A k \in Kind : k \notin Teardown(b) =>
              (k \in Box /\ k \notin registered[b]) \/ (k = "vol" /\ SharedCache)
  BY DEF TypeInv, TypeOK, Teardown, Kind, Fixed

\* The request that the daemon takes up.
LEMMA AcceptFacts ==
  ASSUME TypeInv, Accept
  PROVE  /\ up /\ job = Idle /\ Len(queue) \in Nat \ {0}
         /\ queue[1] \in Request /\ queue' \in Seq(Request)
         /\ Len(queue') = Len(queue) - 1
         /\ \A i \in 1 .. Len(queue') : queue'[i] = queue[i + 1]
         /\ job' \in Job
         /\ job'.build = queue[1].build /\ job'.method = queue[1].method
         /\ job'.box = queue[1].box /\ job'.open = queue[1].open
         /\ \/ AcceptProvision(queue[1]) \/ AcceptCreate(queue[1])
            \/ AcceptExec(queue[1]) \/ AcceptDestroySandbox(queue[1])
            \/ AcceptDestroy(queue[1]) \/ AcceptUnknownBuild(queue[1])
  <1>1. queue \in Seq(Request) /\ queue # <<>> /\ queue' = Tail(queue)
    BY DEF TypeInv, Accept
  <1>2. /\ Len(queue) \in Nat \ {0} /\ queue[1] \in Request
        /\ Head(queue) = queue[1]
    BY <1>1, EmptySeq, ElementOfSeq
  <1>3. /\ queue' \in Seq(Request) /\ Len(queue') = Len(queue) - 1
        /\ \A i \in 1 .. Len(queue') : queue'[i] = queue[i + 1]
    BY <1>1, HeadTailProperties
  <1> DEFINE c == queue[1]
  <1>4. \/ AcceptProvision(c) \/ AcceptCreate(c) \/ AcceptExec(c)
        \/ AcceptDestroySandbox(c) \/ AcceptDestroy(c) \/ AcceptUnknownBuild(c)
    BY <1>2 DEF Accept
  <1> HIDE DEF c
  <1>5. c \in Request /\ c.build \in Build
    BY <1>2 DEF c, Request
  <1>6. PICK raised \in BOOLEAN, make \in SUBSET Kind, rm \in SUBSET Kind :
          Serve(c, raised, make, rm)
    <2>1. CASE AcceptProvision(c)
      <3>1. Provisions \in SUBSET Kind
        BY DEF Provisions, Kind, Fixed
      <3>2. QED
        BY <2>1, <3>1 DEF AcceptProvision
    <2>2. CASE AcceptCreate(c)
      <3>1. {c.box} \in SUBSET Kind
        BY <2>2, <1>5 DEF AcceptCreate, Request, Creates, Kind
      <3>2. QED
        BY <2>2, <3>1 DEF AcceptCreate
    <2>3. CASE AcceptExec(c)
      BY <2>3 DEF AcceptExec
    <2>4. CASE AcceptDestroySandbox(c)
      <3>1. {c.box} \cap registered[c.build] \in SUBSET Kind
        BY <1>5 DEF TypeInv, TypeOK, Kind
      <3>2. QED
        BY <2>4, <3>1 DEF AcceptDestroySandbox
    <2>5. CASE AcceptDestroy(c)
      BY <2>5, <1>5, TeardownFacts DEF AcceptDestroy
    <2>6. CASE AcceptUnknownBuild(c)
      BY <2>6 DEF AcceptUnknownBuild
    <2>7. QED
      BY <1>4, <2>1, <2>2, <2>3, <2>4, <2>5, <2>6
  <1>7. /\ job' \in Job
        /\ job'.build = c.build /\ job'.method = c.method
        /\ job'.box = c.box /\ job'.open = c.open
    BY <1>5, <1>6, ServeFacts
  <1>8. up /\ job = Idle
    BY DEF Accept
  <1>9. QED
    BY <1>2, <1>3, <1>4, <1>7, <1>8 DEF c

\* What a docker command leaves of the request.
LEMMA MakeFacts ==
  ASSUME TypeInv, MakeStep
  PROVE  /\ job \in Job /\ job' \in Job /\ job.make # {}
         /\ job'.build = job.build /\ job'.method = job.method
         /\ job'.box = job.box /\ job'.open = job.open
         /\ \E k \in job.make, made, raised \in BOOLEAN :
              /\ made => CanMake(job.build, k)
              /\ ~made /\ (k \in {"proxy", "keyproxy"}
                             \/ job.method = "create_service") => raised
              /\ made /\ raised => k \in {"proxy", "keyproxy"}
                                     \/ job.method = "create_service"
              /\ docker' = IF made
                           THEN docker \cup {<<job.build, table[job.build], k>>}
                           ELSE docker
              /\ registered' = IF Registers(k, made, raised)
                               THEN [registered EXCEPT ![job.build] = @ \cup {k}]
                               ELSE registered
              /\ job'.raised = (job.raised \/ raised)
              /\ job'.make = IF raised THEN {} ELSE job.make \ {k}
              /\ job'.rm = IF ~raised THEN job.rm
                           ELSE IF job.method = "provision"
                           THEN Teardown(job.build) ELSE {}
  <1>1. job.make # {}
    BY DEF MakeStep
  <1>2. job \in Job
    BY <1>1 DEF TypeInv, Idle
  <1>3. PICK k \in job.make, made \in BOOLEAN, raised \in BOOLEAN :
          /\ made => CanMake(job.build, k)
          /\ ~made /\ (k \in {"proxy", "keyproxy"}
                         \/ job.method = "create_service") => raised
          /\ made /\ raised => k \in {"proxy", "keyproxy"}
                                 \/ job.method = "create_service"
          /\ docker' = IF made
                       THEN docker \cup {<<job.build, table[job.build], k>>}
                       ELSE docker
          /\ registered' = IF Registers(k, made, raised)
                           THEN [registered EXCEPT ![job.build] = @ \cup {k}]
                           ELSE registered
          /\ job' = IF ~raised THEN [job EXCEPT !.make = @ \ {k}]
                    ELSE [job EXCEPT !.make = {}, !.raised = TRUE,
                            !.rm = IF job.method = "provision"
                                   THEN Teardown(job.build) ELSE {}]
    BY ZenonT(30) DEF MakeStep
  <1>4. Teardown(job.build) \in SUBSET Kind
    BY <1>2, TeardownFacts DEF Job
  <1>5. CASE raised
    BY <1>1, <1>2, <1>3, <1>4, <1>5 DEF Job
  <1>6. CASE ~raised
    BY <1>1, <1>2, <1>3, <1>6 DEF Job
  <1>7. QED
    BY <1>5, <1>6

LEMMA RmFacts ==
  ASSUME TypeInv, RmStep
  PROVE  /\ job \in Job /\ job' \in Job /\ job.make = {} /\ job.rm # {}
         /\ job'.build = job.build /\ job'.method = job.method
         /\ job'.box = job.box /\ job'.open = job.open
         /\ job'.raised = job.raised /\ job'.make = {}
         /\ \E k \in job.rm, gone \in BOOLEAN :
              LET b       == job.build
                  free(j) == j \in Container \/ \A x \in Container : ~Exists(b, x)
              IN  /\ \A l \in job.rm : RmRank(k) <= RmRank(l)
                  /\ docker' = IF gone THEN docker \ {<<b, table[b], k>>}
                               ELSE docker
                  /\ excused' = IF ~gone /\ Exists(b, k) /\ free(k)
                                THEN excused \cup {Current(b)} ELSE excused
                  /\ registered' = [registered EXCEPT ![b] = @ \ {k}]
                  /\ job'.rm = job.rm \ {k}
  <1>1. job.make = {} /\ job.rm # {}
    BY DEF RmStep
  <1>2. job \in Job
    BY <1>1 DEF TypeInv, Idle
  <1> DEFINE b       == job.build
             free(j) == j \in Container \/ \A x \in Container : ~Exists(b, x)
  <1>3. PICK k \in job.rm, gone \in BOOLEAN :
          /\ \A l \in job.rm : RmRank(k) <= RmRank(l)
          /\ docker' = IF gone THEN docker \ {<<b, table[b], k>>} ELSE docker
          /\ IF gone \/ ~Exists(b, k)
             THEN UNCHANGED <<faults, excused>>
             ELSE /\ IF free(k) THEN Fault ELSE UNCHANGED faults
                  /\ excused' = IF free(k) THEN excused \cup {Current(b)}
                                ELSE excused
          /\ registered' = [registered EXCEPT ![b] = @ \ {k}]
          /\ job' = [job EXCEPT !.rm = @ \ {k}]
    BY DEF RmStep
  <1>4. /\ job' \in Job
        /\ job'.build = job.build /\ job'.method = job.method
        /\ job'.box = job.box /\ job'.open = job.open
        /\ job'.raised = job.raised /\ job'.make = job.make
        /\ job'.rm = job.rm \ {k}
    BY <1>2, <1>3 DEF Job
  <1>5. excused' = IF ~gone /\ Exists(b, k) /\ free(k)
                   THEN excused \cup {Current(b)} ELSE excused
    BY <1>3
  <1>6. QED
    BY <1>1, <1>2, <1>3, <1>4, <1>5

-----------------------------------------------------------------------------
(* Type correctness                                                         *)

\* A typed queue and a typed job are what TypeOK asks of them.
LEMMA WireTypes ==
  ASSUME queue' \in Seq(Request), job' \in Job \cup {Idle}
  PROVE  /\ queue' \in Seq([build : Build, method : Method,
                            box : Box \cup {"none"}, open : BOOLEAN])
         /\ JobTypeOK'
  <1>1. queue' \in Seq([build : Build, method : Method,
                        box : Box \cup {"none"}, open : BOOLEAN])
    BY RequestSubset
  <1>2. JobTypeOK'
    BY DEF JobTypeOK, Job
  <1>3. QED
    BY <1>1, <1>2

LEMMA FaultTypes ==
  ASSUME TypeInv, Fault \/ UNCHANGED faults
  PROVE  faults' \in 0 .. MaxFaults
  BY BrokerAssumption DEF TypeInv, TypeOK, Fault

\* What a graph call sends.
LEMMA GraphCallFacts ==
  ASSUME TypeInv, NEW b \in Build, GraphCall(b)
  PROVE  /\ pc[b] = "ready" /\ wait[b] = "none"
         /\ \E m \in Method \ {"provision", "destroy"},
               x \in Box :
              /\ Call(b, m, x)
              /\ held' = IF m = "destroy_sandbox"
                         THEN [held EXCEPT ![b] = @ \ {x}] ELSE held
  <1>1. CASE \E m \in {"create", "create_service"}, x \in Box :
               Call(b, m, x) /\ UNCHANGED held
    BY <1>1 DEF GraphCall, Method
  <1>2. CASE \E x \in held[b] : Call(b, "exec", x) /\ UNCHANGED held
    BY <1>2 DEF GraphCall, Method, TypeInv, TypeOK
  <1>3. CASE \E x \in held[b] :
               /\ Call(b, "destroy_sandbox", x)
               /\ held' = [held EXCEPT ![b] = @ \ {x}]
    BY <1>3 DEF GraphCall, Method, TypeInv, TypeOK
  <1>4. QED
    BY <1>1, <1>2, <1>3 DEF GraphCall

\* The client's steps, and what they leave alone.
LEMMA ClientTypes ==
  ASSUME TypeInv, NEW b \in Build,
         ClientStep(b) \/ GiveUp(b) \/ Kill(b) \/ NewProcess(b)
  PROVE  TypeInv'
  <1> USE DEF TypeInv, TypeOK
  <1>1. CASE ProvisionCall(b)
    <2>1. Call(b, "provision", "none")
      BY <1>1 DEF ProvisionCall
    <2>2. queue' \in Seq(Request) /\ wait' \in [Build -> Method \cup {"none"}]
      BY <2>1, CallFacts DEF Method, Creates
    <2>3. QED
      BY <1>1, <2>2, WireTypes DEF ProvisionCall, tableVars
  <1>2. CASE GraphCall(b)
    <2>1. PICK m \in Method \ {"provision", "destroy"}, x \in Box :
            /\ Call(b, m, x)
            /\ held' = IF m = "destroy_sandbox"
                       THEN [held EXCEPT ![b] = @ \ {x}] ELSE held
      BY <1>2, GraphCallFacts
    <2>2. queue' \in Seq(Request) /\ wait' \in [Build -> Method \cup {"none"}]
      BY <2>1, CallFacts
    <2>3. held' \in [Build -> SUBSET Box]
      BY <2>1
    <2>4. calls' \in [Build -> 0 .. MaxCalls]
      BY <1>2, BrokerAssumption DEF GraphCall
    <2>5. QED
      BY <1>2, <2>2, <2>3, <2>4, WireTypes DEF GraphCall, tableVars
  <1>3. CASE Finish(b)
    BY <1>3 DEF Finish, daemonVars, tableVars, JobTypeOK
  <1>4. CASE DestroyCall(b)
    <2>1. Call(b, "destroy", "none")
      BY <1>4 DEF DestroyCall
    <2>2. queue' \in Seq(Request) /\ wait' \in [Build -> Method \cup {"none"}]
      BY <2>1, CallFacts DEF Method, Creates
    <2>3. QED
      BY <1>4, <2>2, WireTypes DEF DestroyCall, tableVars
  <1>5. CASE Refused(b)
    <2>1. PICK m : Returns(b, m, FALSE, "none")
      BY <1>5 DEF Refused
    <2>2. /\ pc' \in [Build -> {"new", "ready", "closing", "done", "killed"}]
          /\ wait' \in [Build -> Method \cup {"none"}]
          /\ held' \in [Build -> SUBSET Box]
      BY <2>1, ReturnsFacts
    <2>3. calls' \in [Build -> 0 .. MaxCalls]
      <3>1. CASE wait[b] = "none" /\ pc[b] = "ready"
        <4>1. calls[b] < MaxCalls
          BY <1>5, <3>1 DEF Refused
        <4>2. QED
          BY <1>5, <3>1, <4>1, BrokerAssumption DEF Refused
      <3>2. CASE ~(wait[b] = "none" /\ pc[b] = "ready")
        BY <1>5, <3>2 DEF Refused
      <3>3. QED
        BY <3>1, <3>2
    <2>4. QED
      BY <1>5, <2>2, <2>3, WireTypes DEF Refused, daemonVars, tableVars
  <1>6. CASE GiveUp(b)
    <2>1. Returns(b, wait[b], FALSE, "none") /\ HangUp(b)
      BY <1>6 DEF GiveUp
    <2>2. /\ pc' \in [Build -> {"new", "ready", "closing", "done", "killed"}]
          /\ wait' \in [Build -> Method \cup {"none"}]
          /\ held' \in [Build -> SUBSET Box]
      BY <2>1, ReturnsFacts
    <2>3. queue' \in Seq(Request) /\ job' \in Job \cup {Idle}
      BY <2>1, HangUpFacts
    <2>4. faults' \in 0 .. MaxFaults
      BY <1>6, FaultTypes DEF GiveUp
    <2>5. QED
      BY <1>6, <2>2, <2>3, <2>4, WireTypes DEF GiveUp, tableVars
  <1>7. CASE Kill(b)
    <2>1. queue' \in Seq(Request) /\ job' \in Job \cup {Idle}
      BY <1>7, HangUpFacts DEF Kill
    <2>2. faults' \in 0 .. MaxFaults
      BY <1>7, FaultTypes DEF Kill
    <2>3. /\ pc' \in [Build -> {"new", "ready", "closing", "done", "killed"}]
          /\ wait' \in [Build -> Method \cup {"none"}]
          /\ held' \in [Build -> SUBSET Box]
      BY <1>7 DEF Kill
    <2>4. excused' \subseteq Build \X Nat
      BY <1>7 DEF Kill
    <2>5. QED
      BY <1>7, <2>1, <2>2, <2>3, <2>4, WireTypes DEF Kill, tableVars
  <1>8. CASE NewProcess(b)
    <2>1. /\ pc' \in [Build -> {"new", "ready", "closing", "done", "killed"}]
          /\ held' \in [Build -> SUBSET Box]
      BY <1>8 DEF NewProcess
    <2>2. calls' \in [Build -> 0 .. MaxCalls]
      BY <1>8, BrokerAssumption DEF NewProcess
    <2>3. QED
      BY <1>8, <2>1, <2>2, WireTypes DEF NewProcess, daemonVars, tableVars
  <1>9. QED
    BY <1>1, <1>2, <1>3, <1>4, <1>5, <1>6, <1>7, <1>8 DEF ClientStep

LEMMA AcceptTypes ==
  ASSUME TypeInv, Accept
  PROVE  TypeInv'
  <1> USE DEF TypeInv, TypeOK
  <1> DEFINE c == queue[1]
  <1>1. /\ c.build \in Build /\ queue' \in Seq(Request) /\ job' \in Job
        /\ \/ AcceptProvision(c) \/ AcceptCreate(c) \/ AcceptExec(c)
           \/ AcceptDestroySandbox(c) \/ AcceptDestroy(c)
           \/ AcceptUnknownBuild(c)
    BY AcceptFacts DEF Request
  <1> HIDE DEF c
  <1>2. UNCHANGED <<up, docker, clientVars, excused>>
    BY DEF Accept
  <1>3. /\ table' \in [Build -> Nat] /\ gen' \in [Build -> Nat]
        /\ provisioned' \in [Build -> BOOLEAN]
        /\ registered' \in [Build -> SUBSET Box]
    <2>1. CASE AcceptProvision(c)
      BY <1>1, <2>1 DEF AcceptProvision
    <2>2. CASE ~AcceptProvision(c)
      BY <1>1, <2>2 DEF AcceptCreate, AcceptExec, AcceptDestroySandbox,
         AcceptDestroy, AcceptUnknownBuild, tableVars
    <2>3. QED
      BY <2>1, <2>2
  <1>4. faults' \in 0 .. MaxFaults
    BY <1>1, FaultTypes
    DEF AcceptProvision, AcceptCreate, AcceptExec, AcceptDestroySandbox,
        AcceptDestroy, AcceptUnknownBuild
  <1>5. QED
    BY <1>1, <1>2, <1>3, <1>4, WireTypes DEF clientVars

LEMMA DaemonTypes ==
  ASSUME TypeInv, DaemonStep \/ Restart
  PROVE  TypeInv'
  <1> USE DEF TypeInv, TypeOK
  <1>1. CASE Accept
    BY <1>1, AcceptTypes
  <1>2. CASE MakeStep
    <2>1. PICK k \in job.make, made \in BOOLEAN, raised \in BOOLEAN :
            /\ docker' = IF made
                         THEN docker \cup {<<job.build, table[job.build], k>>}
                         ELSE docker
            /\ registered' = IF Registers(k, made, raised)
                             THEN [registered EXCEPT ![job.build] = @ \cup {k}]
                             ELSE registered
      BY ZenonT(30), <1>2, MakeFacts
    <2>2. job \in Job /\ job' \in Job
      BY <1>2, MakeFacts
    <2>3. job.build \in Build /\ k \in Kind
      BY <2>1, <2>2 DEF Job
    <2>4. docker' \subseteq Build \X Nat \X Kind
      BY <2>1, <2>3
    <2>5. registered' \in [Build -> SUBSET Box]
      BY <2>1, <2>3 DEF Registers
    <2>6. faults' \in 0 .. MaxFaults
      BY <1>2, FaultTypes DEF MakeStep
    <2>7. QED
      BY <1>2, <2>2, <2>4, <2>5, <2>6, WireTypes DEF MakeStep, clientVars
  <1>3. CASE RmStep
    <2>1. PICK k \in job.rm, gone \in BOOLEAN :
            /\ docker' = IF gone
                         THEN docker \ {<<job.build, table[job.build], k>>}
                         ELSE docker
            /\ excused' \subseteq excused \cup {Current(job.build)}
            /\ registered' = [registered EXCEPT ![job.build] = @ \ {k}]
      BY <1>3, RmFacts
    <2>2. job \in Job /\ job' \in Job
      BY <1>3, RmFacts
    <2>3. job.build \in Build
      BY <2>2 DEF Job
    <2>4. docker' \subseteq Build \X Nat \X Kind
      BY <2>1
    <2>5. registered' \in [Build -> SUBSET Box]
      BY <2>1, <2>3
    <2>6. excused' \subseteq Build \X Nat
      BY <2>1, <2>3 DEF Current
    <2>7. faults' \in 0 .. MaxFaults
      BY <1>3, FaultTypes DEF RmStep
    <2>8. QED
      BY <1>3, <2>2, <2>4, <2>5, <2>6, <2>7, WireTypes DEF RmStep, clientVars
  <1>4. CASE Answer
    <2>1. job \in Job
      BY <1>4 DEF Answer
    <2>2. job.build \in Build /\ (job.method \in Creates => job.box \in Box)
          /\ job.raised \in BOOLEAN
      BY <2>1 DEF Job
    <2>3. Returns(job.build, job.method, ~job.raised, job.box)
      BY <1>4 DEF Answer
    <2>4. /\ pc' \in [Build -> {"new", "ready", "closing", "done", "killed"}]
          /\ wait' \in [Build -> Method \cup {"none"}]
          /\ held' \in [Build -> SUBSET Box]
      BY <2>2, <2>3, ReturnsFacts
    <2>5. table' \in [Build -> Nat]
      BY <1>4, <2>2 DEF Answer, Served
    <2>6. provisioned' \in [Build -> BOOLEAN]
      BY <1>4, <2>2 DEF Answer, Served
    <2>7. job' = Idle /\ queue' = queue
      BY <1>4 DEF Answer
    <2>8. QED
      BY <1>4, <2>4, <2>5, <2>6, <2>7, WireTypes DEF Answer
  <1>5. CASE AnswerNobody
    <2>1. excused' \subseteq Build \X Nat
      BY <1>5 DEF AnswerNobody, Current
    <2>2. queue' \in Seq(Request) /\ job' = Idle
      BY <1>5 DEF AnswerNobody
    <2>3. QED
      BY <1>5, <2>1, <2>2, WireTypes DEF AnswerNobody, clientVars
  <1>6. CASE Restart
    BY <1>6 DEF Restart, tableVars, clientVars, JobTypeOK
  <1>7. QED
    BY <1>1, <1>2, <1>3, <1>4, <1>5, <1>6 DEF DaemonStep

LEMMA InitTypeInv == Init => TypeInv
  BY BrokerAssumption DEF Init, TypeInv, TypeOK, JobTypeOK

LEMMA NextTypeInv == TypeInv /\ [Next]_vars => TypeInv'
  <1>1. CASE UNCHANGED vars
    BY <1>1
    DEF vars, daemonVars, tableVars, clientVars, TypeInv, TypeOK, JobTypeOK
  <1>2. QED
    BY <1>1, ClientTypes, DaemonTypes DEF Next

LEMMA TypeInvariance == Spec => []TypeInv
  BY InitTypeInv, NextTypeInv, PTL DEF Spec

\* Every variable of the daemon, of docker and of the clients stays in its
\* domain.
THEOREM TypeCorrect == Spec => []TypeOK
  <1>1. TypeInv => TypeOK
    BY DEF TypeInv
  <1>2. QED
    BY <1>1, TypeInvariance, PTL

-----------------------------------------------------------------------------
(* The requests that are under way                                          *)

\* The request of a job, as it came over the wire.
Wire(j) ==
  [build |-> j.build, method |-> j.method, box |-> j.box, open |-> j.open]

\* All requests that the daemon serves or has yet to serve.
Pending ==
  {queue[i] : i \in 1 .. Len(queue)} \cup
  (IF job = Idle THEN {} ELSE {Wire(job)})

LEMMA WireIsRequest ==
  ASSUME NEW j \in Job
  PROVE  Wire(j) \in Request
  BY DEF Job, Wire, Request

LEMMA PendingTypes == TypeInv => Pending \subseteq Request
  <1> SUFFICES ASSUME TypeInv, NEW r \in Pending PROVE r \in Request
    OBVIOUS
  <1>1. \A i \in 1 .. Len(queue) : queue[i] \in Request
    BY ElementOfSeq DEF TypeInv
  <1>2. job # Idle => Wire(job) \in Request
    BY WireIsRequest DEF TypeInv
  <1>3. QED
    BY <1>1, <1>2 DEF Pending

\* Connected and Orphaned speak of the pending requests.
LEMMA ConnectedFacts ==
  TypeInv => \A b \in Build :
    /\ Connected(b) <=> \E r \in Pending : r.build = b /\ r.open
    /\ Orphaned(b) <=> \E r \in Pending : r.build = b /\ ~r.open
  <1> SUFFICES ASSUME TypeInv, NEW b \in Build
               PROVE  /\ Connected(b) <=> \E r \in Pending : r.build = b /\ r.open
                      /\ Orphaned(b) <=> \E r \in Pending : r.build = b /\ ~r.open
    OBVIOUS
  <1>1. DOMAIN queue = 1 .. Len(queue)
    BY DEF TypeInv
  <1>2. Wire(job).build = job.build /\ Wire(job).open = job.open
    BY DEF Wire
  <1> HIDE DEF Wire
  <1>3. QED
    BY <1>1, <1>2 DEF Connected, Orphaned, Pending

LEMMA ConnectedFactsPrime ==
  TypeInv' => \A b \in Build :
    /\ Connected(b)' <=> \E r \in Pending' : r.build = b /\ r.open
    /\ Orphaned(b)' <=> \E r \in Pending' : r.build = b /\ ~r.open
  <1> SUFFICES ASSUME TypeInv', NEW b \in Build
               PROVE  /\ Connected(b)' <=> \E r \in Pending' : r.build = b /\ r.open
                      /\ Orphaned(b)' <=> \E r \in Pending' : r.build = b /\ ~r.open
    OBVIOUS
  <1>1. DOMAIN queue' = 1 .. Len(queue')
    BY DEF TypeInv
  <1>2. Wire(job').build = job'.build /\ Wire(job').open = job'.open
    BY DEF Wire
  <1> HIDE DEF Wire
  <1>3. QED
    BY <1>1, <1>2 DEF Connected, Orphaned, Pending

LEMMA PendingFrame ==
  ASSUME UNCHANGED <<queue, job>>
  PROVE  Pending' = Pending
  BY DEF Pending

LEMMA PendingCall ==
  ASSUME TypeInv, NEW b \in Build, NEW m \in Method,
         NEW x \in Box \cup {"none"}, m \in Creates => x \in Box,
         Call(b, m, x), UNCHANGED job
  PROVE  Pending' = Pending \cup {Connection(b, m, x)}
  <1>1. /\ Len(queue') = Len(queue) + 1 /\ Len(queue) \in Nat
        /\ \A i \in 1 .. Len(queue) : queue'[i] = queue[i]
        /\ queue'[Len(queue) + 1] = Connection(b, m, x)
    BY CallFacts DEF TypeInv
  <1>2. {queue'[i] : i \in 1 .. Len(queue')} =
          {queue[i] : i \in 1 .. Len(queue)} \cup {Connection(b, m, x)}
    <2>1. 1 .. Len(queue') = (1 .. Len(queue)) \cup {Len(queue) + 1}
      BY <1>1
    <2>2. QED
      BY <1>1, <2>1
  <1>3. QED
    BY <1>2 DEF Pending

\* A client that hangs up leaves its requests where they are.
LEMMA PendingHangUp ==
  ASSUME TypeInv, NEW b \in Build, HangUp(b)
  PROVE  /\ \A r \in Pending' : \E s \in Pending :
              r = IF s.build = b THEN [s EXCEPT !.open = FALSE] ELSE s
         /\ \A s \in Pending :
              (IF s.build = b THEN [s EXCEPT !.open = FALSE] ELSE s) \in Pending'
  <1> DEFINE Hung(s) == IF s.build = b THEN [s EXCEPT !.open = FALSE] ELSE s
  <1>1. /\ Len(queue') = Len(queue)
        /\ \A i \in 1 .. Len(queue) : queue'[i] = Hung(queue[i])
        /\ job' = Idle <=> job = Idle
    BY HangUpFacts
  <1>2. ASSUME job # Idle PROVE Wire(job') = Hung(Wire(job))
    <2>1. job \in Job
      BY <1>2 DEF TypeInv
    <2>2. job' = IF job.build = b THEN [job EXCEPT !.open = FALSE] ELSE job
      BY <1>2, HangUpFacts
    <2>3. CASE job.build = b
      BY <2>1, <2>2, <2>3 DEF Wire, Job
    <2>4. CASE job.build # b
      BY <2>1, <2>2, <2>4 DEF Wire, Job
    <2>5. QED
      BY <2>3, <2>4
  <1> HIDE DEF Hung
  <1>3. Pending' = {Hung(s) : s \in Pending}
    BY <1>1, <1>2 DEF Pending
  <1>4. QED
    BY <1>3 DEF Hung

LEMMA PendingAccept ==
  ASSUME TypeInv, Accept
  PROVE  Pending' = Pending /\ queue[1] \in Pending
  <1>1. /\ job = Idle /\ job' \in Job /\ Len(queue) \in Nat \ {0}
        /\ queue[1] \in Request /\ Len(queue') = Len(queue) - 1
        /\ \A i \in 1 .. Len(queue') : queue'[i] = queue[i + 1]
        /\ job'.build = queue[1].build /\ job'.method = queue[1].method
        /\ job'.box = queue[1].box /\ job'.open = queue[1].open
    BY AcceptFacts
  <1>2. Wire(job') = queue[1]
    BY <1>1 DEF Wire, Request
  <1>3. job' # Idle
    BY <1>1, JobIsBusy
  <1>4. {queue'[i] : i \in 1 .. Len(queue')} \cup {queue[1]} =
          {queue[i] : i \in 1 .. Len(queue)}
    <2>1. ASSUME NEW i \in 1 .. Len(queue), i # 1
          PROVE  \E j \in 1 .. Len(queue') : queue'[j] = queue[i]
      <3>1. i - 1 \in 1 .. Len(queue') /\ (i - 1) + 1 = i
        BY <1>1, <2>1
      <3>2. QED
        BY <1>1, <3>1
    <2>2. ASSUME NEW j \in 1 .. Len(queue')
          PROVE  \E i \in 1 .. Len(queue) : queue'[j] = queue[i]
      <3>1. j + 1 \in 1 .. Len(queue)
        BY <1>1
      <3>2. QED
        BY <1>1, <3>1
    <2>3. 1 \in 1 .. Len(queue)
      BY <1>1
    <2>4. ASSUME NEW r
          PROVE  (\E j \in 1 .. Len(queue') : queue'[j] = r) \/ r = queue[1]
                   <=> \E i \in 1 .. Len(queue) : queue[i] = r
      BY <2>1, <2>2, <2>3, Zenon
    <2>5. QED
      BY <2>4, Zenon
  <1>5. QED
    BY <1>1, <1>2, <1>3, <1>4 DEF Pending

\* A docker command is part of the request that is served.
LEMMA PendingJob ==
  ASSUME TypeInv, MakeStep \/ RmStep
  PROVE  Pending' = Pending /\ job # Idle /\ job' # Idle /\ queue' = queue
  <1>1. /\ job \in Job /\ job' \in Job
        /\ job'.build = job.build /\ job'.method = job.method
        /\ job'.box = job.box /\ job'.open = job.open
    BY MakeFacts, RmFacts
  <1>2. queue' = queue
    BY DEF MakeStep, RmStep
  <1>3. Wire(job') = Wire(job) /\ job # Idle /\ job' # Idle
    BY <1>1, JobIsBusy DEF Wire
  <1>4. QED
    BY <1>2, <1>3 DEF Pending

-----------------------------------------------------------------------------
(* The request of the daemon                                                *)

\* What is left to do for a request says how it was meant, and a container
\* whose start did not raise is registered.
JobInv ==
  job # Idle =>
    LET b == job.build IN
    /\ job.make # {} => /\ ~job.raised /\ table[b] # 0
                        /\ job.method \in Creates \cup {"provision"}
    /\ job.method = "provision" => table[b] = gen[b] /\ job.make \subseteq Fixed
    /\ job.rm # {} => job.method \in {"provision", "destroy", "destroy_sandbox"}
    /\ job.method = "destroy_sandbox" => job.rm \subseteq {job.box}
    /\ job.method \in Creates => job.make \subseteq {job.box}
    /\ job.method \in Creates /\ ~job.raised =>
         job.box \in registered[b] \/ job.make = {job.box}
    /\ job.method = "destroy" /\ job.raised => table[b] = 0

LEMMA JobInductive ==
  ASSUME TypeInv, JobInv, [Next]_vars
  PROVE  JobInv'
  <1>1. CASE Accept
    <2> DEFINE c == queue[1]
    <2>1. /\ c \in Request /\ job' # Idle /\ job' \in Job
          /\ job'.build = c.build /\ job'.method = c.method
          /\ job'.box = c.box
          /\ \/ AcceptProvision(c) \/ AcceptCreate(c) \/ AcceptExec(c)
             \/ AcceptDestroySandbox(c) \/ AcceptDestroy(c)
             \/ AcceptUnknownBuild(c)
      BY <1>1, AcceptFacts, JobIsBusy
    <2>2. c.build \in Build /\ (c.method \in Creates => c.box \in Kind)
      BY <2>1 DEF Request, Kind
    <2> HIDE DEF c
    <2>a. ASSUME NEW raised, NEW make, NEW rm, Serve(c, raised, make, rm)
          PROVE  job'.raised = raised /\ job'.make = make /\ job'.rm = rm
      BY <2>a DEF Serve
    <2>3. CASE AcceptProvision(c)
      <3>1. Serve(c, FALSE, Provisions, {})
        BY <2>3 DEF AcceptProvision
      <3>2. job'.make = Provisions /\ job'.rm = {} /\ ~job'.raised
        BY <3>1, <2>a
      <3>3. table'[c.build] = gen'[c.build] /\ table'[c.build] # 0
        BY <2>2, <2>3 DEF AcceptProvision, TypeInv, TypeOK
      <3>4. c.method = "provision"
        BY <2>3 DEF AcceptProvision
      <3>5. QED
        BY <2>1, <3>2, <3>3, <3>4 DEF JobInv, Creates, Provisions
    <2>4. CASE AcceptCreate(c)
      <3>1. UNCHANGED tableVars /\ c.method \in Creates /\ table[c.build] # 0
        BY <2>4 DEF AcceptCreate, Creates
      <3>2. /\ job'.rm = {}
            /\ \/ job'.make = {c.box} /\ ~job'.raised
               \/ job'.make = {} /\ job'.raised
        <4>1. CASE Serve(c, FALSE, {c.box}, {})
          BY <4>1, <2>a
        <4>2. CASE Serve(c, TRUE, {}, {})
          BY <4>2, <2>a
        <4>3. QED
          BY <2>4, <4>1, <4>2 DEF AcceptCreate
      <3>3. QED
        BY <2>1, <3>1, <3>2 DEF JobInv, Creates, tableVars
    <2>5. CASE AcceptExec(c)
      <3>0. Serve(c, c.box \notin registered[c.build], {}, {})
        BY <2>5 DEF AcceptExec
      <3>1. job'.make = {} /\ job'.rm = {} /\ c.method = "exec"
        BY <2>5, <3>0, <2>a DEF AcceptExec
      <3>2. QED
        BY <2>1, <3>1 DEF JobInv, Creates
    <2>6. CASE AcceptDestroySandbox(c)
      <3>1. Serve(c, FALSE, {}, {c.box} \cap registered[c.build])
        BY <2>6 DEF AcceptDestroySandbox
      <3>2. /\ job'.make = {} /\ c.method = "destroy_sandbox"
            /\ job'.rm = {c.box} \cap registered[c.build]
        BY <2>6, <3>1, <2>a DEF AcceptDestroySandbox
      <3>3. QED
        BY <2>1, <3>2 DEF JobInv, Creates
    <2>7. CASE AcceptDestroy(c)
      <3>0. Serve(c, FALSE, {}, Teardown(c.build))
        BY <2>7 DEF AcceptDestroy
      <3>1. job'.make = {} /\ ~job'.raised /\ c.method = "destroy"
        BY <2>7, <3>0, <2>a DEF AcceptDestroy
      <3>2. QED
        BY <2>1, <3>1 DEF JobInv, Creates
    <2>8. CASE AcceptUnknownBuild(c)
      <3>1. /\ job'.make = {} /\ job'.rm = {} /\ job'.raised
            /\ c.method # "provision" /\ table'[c.build] = 0
        <4>1. Serve(c, TRUE, {}, {})
          BY <2>8 DEF AcceptUnknownBuild
        <4>2. QED
          BY <2>8, <4>1, <2>a DEF AcceptUnknownBuild, tableVars
      <3>2. QED
        BY <2>1, <3>1 DEF JobInv
    <2>9. QED
      BY <2>1, <2>3, <2>4, <2>5, <2>6, <2>7, <2>8
  <1>2. CASE MakeStep
    <2>1. /\ job \in Job /\ job # Idle /\ job' # Idle /\ job.make # {}
          /\ job'.build = job.build /\ job'.method = job.method
          /\ job'.box = job.box
      BY <1>2, MakeFacts, JobIsBusy
    <2>2. UNCHANGED <<table, gen>>
      BY <1>2 DEF MakeStep
    <2>3. PICK k \in job.make, made \in BOOLEAN, raised \in BOOLEAN :
            /\ registered' = IF Registers(k, made, raised)
                             THEN [registered EXCEPT ![job.build] = @ \cup {k}]
                             ELSE registered
            /\ job'.raised = (job.raised \/ raised)
            /\ job'.make = IF raised THEN {} ELSE job.make \ {k}
            /\ job'.rm = IF ~raised THEN job.rm
                         ELSE IF job.method = "provision"
                         THEN Teardown(job.build) ELSE {}
      BY <1>2, MakeFacts
    <2>4. /\ ~job.raised /\ table[job.build] # 0
          /\ job.method \in Creates \cup {"provision"}
          /\ job.method \in Creates => job.make \subseteq {job.box}
          /\ job.method = "provision" => /\ table[job.build] = gen[job.build]
                                         /\ job.make \subseteq Fixed
          /\ job.rm # {} => job.method = "provision"
      BY <2>1 DEF JobInv, Creates
    <2>5. ASSUME job.method \in Creates, ~raised
          PROVE  job.box \in registered'[job.build]
      <3>1. k = job.box /\ k \in Box /\ job.build \in Build
        BY <2>1, <2>4, <2>5 DEF Job
      <3>2. Registers(k, made, raised)
        BY <2>5, <3>1 DEF Registers
      <3>3. QED
        BY <2>3, <3>1, <3>2 DEF TypeInv, TypeOK
    <2>6. QED
      BY <2>1, <2>2, <2>3, <2>4, <2>5 DEF JobInv, Creates
  <1>3. CASE RmStep
    <2>1. /\ job \in Job /\ job # Idle /\ job' # Idle /\ job.rm # {}
          /\ job'.build = job.build /\ job'.method = job.method
          /\ job'.box = job.box /\ job'.raised = job.raised
          /\ job'.make = {} /\ job'.rm \subseteq job.rm
      BY <1>3, RmFacts, JobIsBusy
    <2>2. UNCHANGED <<table, gen>>
      BY <1>3 DEF RmStep
    <2>3. QED
      BY <2>1, <2>2 DEF JobInv, Creates
  <1>4. CASE Answer \/ AnswerNobody
    BY <1>4 DEF Answer, AnswerNobody, JobInv
  <1>5. CASE \E b \in Build : GiveUp(b) \/ Kill(b)
    <2>1. PICK b \in Build : HangUp(b) /\ UNCHANGED tableVars
      BY <1>5 DEF GiveUp, Kill
    <2>2. /\ job' = Idle <=> job = Idle
          /\ job' = IF job # Idle /\ job.build = b
                    THEN [job EXCEPT !.open = FALSE] ELSE job
      BY <2>1, HangUpFacts
    <2>3. ASSUME job # Idle
          PROVE  /\ job'.build = job.build /\ job'.method = job.method
                 /\ job'.box = job.box /\ job'.raised = job.raised
                 /\ job'.make = job.make /\ job'.rm = job.rm
      BY <2>2, <2>3 DEF TypeInv, Job
    <2>4. QED
      BY <2>1, <2>2, <2>3 DEF JobInv, tableVars
  <1>6. CASE UNCHANGED <<job, tableVars>>
    BY <1>6 DEF JobInv, tableVars
  <1>7. QED
    BY <1>1, <1>2, <1>3, <1>4, <1>5, <1>6
    DEF Next, DaemonStep, ClientStep, ProvisionCall, GraphCall, Finish,
        DestroyCall, Refused, NewProcess, Restart, vars, daemonVars

-----------------------------------------------------------------------------
(* What the daemon is asked and what the clients wait for                   *)

GraphMethod == Method \ {"provision", "destroy"}

\* A request whose client listens is the call it waits for; only graph calls
\* are pending for a client that is in its build.
RequestOK(r) ==
  /\ r.open => wait[r.build] = r.method
  /\ r.open /\ r.method = "destroy_sandbox" => r.box \notin held[r.build]
  /\ pc[r.build] = "ready" => r.method \in GraphMethod

RequestsInv == \A r \in Pending : RequestOK(r)

\* The request whose client listens is the last one of its build.
OpenLast ==
  \A i \in 1 .. Len(queue) :
    /\ job # Idle /\ job.open => queue[i].build # job.build
    /\ \A j \in 1 .. i - 1 : queue[j].open => queue[i].build # queue[j].build

ClientOK(b) ==
  /\ wait[b] = "provision" => pc[b] = "new"
  /\ wait[b] = "destroy" => pc[b] = "closing"
  /\ wait[b] \in GraphMethod => pc[b] = "ready"
  /\ pc[b] = "new" => held[b] = {}
  /\ wait[b] # "none" /\ ~Connected(b) => table[b] = 0 /\ ~Orphaned(b)
  /\ table[b] \in {0, gen[b]}
  /\ pc[b] = "ready" => table[b] = gen[b] \/ <<b, gen[b]>> \in excused

ClientInv == \A b \in Build : ClientOK(b)

DownInv == ~up => job = Idle /\ queue = <<>> /\ \A b \in Build : table[b] = 0

LinkInv == JobInv /\ RequestsInv /\ OpenLast /\ ClientInv /\ DownInv

LEMMA DownIsQuiet == DownInv /\ ~up => Pending = {}
  BY DEF DownInv, Pending

LEMMA SilentIsClosed ==
  ASSUME TypeInv, RequestsInv, NEW b \in Build, wait[b] = "none"
  PROVE  \A r \in Pending : r.build = b => ~r.open
  BY PendingTypes DEF RequestsInv, RequestOK, Request, Method

\* A request is as good after a step that does not change what its client waits
\* for, or once its client does not listen.
LEMMA RequestKept ==
  ASSUME NEW s, NEW r, RequestOK(s),
         r.build = s.build, r.method = s.method,
         r.open => /\ s.open /\ r.box = s.box
                   /\ wait'[s.build] = wait[s.build]
                   /\ held'[s.build] \subseteq held[s.build],
         pc'[s.build] = "ready" => pc[s.build] = "ready"
  PROVE  RequestOK(r)'
  BY DEF RequestOK

LEMMA HungUp ==
  ASSUME TypeInv, NEW b \in Build, HangUp(b)
  PROVE  /\ \A r \in Pending' : \E s \in Pending :
              /\ r.build = s.build /\ r.method = s.method /\ r.box = s.box
              /\ r.open <=> s.open /\ s.build # b
         /\ \A s \in Pending : \E r \in Pending' :
              /\ r.build = s.build /\ r.method = s.method /\ r.box = s.box
              /\ r.open <=> s.open /\ s.build # b
  <1>1. \A s \in Pending : s \in Request
    BY PendingTypes
  <1>2. ASSUME NEW s \in Request, NEW r,
               r = IF s.build = b THEN [s EXCEPT !.open = FALSE] ELSE s
        PROVE  /\ r.build = s.build /\ r.method = s.method /\ r.box = s.box
               /\ r.open <=> s.open /\ s.build # b
    BY <1>2 DEF Request
  <1> DEFINE Hung(s) == IF s.build = b THEN [s EXCEPT !.open = FALSE] ELSE s
  <1>3. /\ \A r \in Pending' : \E s \in Pending : r = Hung(s)
        /\ \A s \in Pending : Hung(s) \in Pending'
    BY PendingHangUp
  <1>4. ASSUME NEW s \in Pending
        PROVE  /\ Hung(s).build = s.build /\ Hung(s).method = s.method
               /\ Hung(s).box = s.box
               /\ Hung(s).open <=> s.open /\ s.build # b
    BY <1>1, <1>2
  <1> HIDE DEF Hung
  <1>5. QED
    BY <1>3, <1>4

\* The answered request was the last of its build.
LEMMA PendingAnswer ==
  ASSUME TypeInv, OpenLast, Answer
  PROVE  /\ job \in Job /\ Wire(job) \in Pending /\ job.open
         /\ \A r \in Pending' : r \in Pending /\ r.build # job.build
         /\ \A r \in Pending : r.build # job.build => r \in Pending'
         /\ \A r \in Pending : r.build = job.build => r.open
  <1>1. job # Idle /\ job.open /\ job' = Idle /\ queue' = queue
    BY DEF Answer
  <1>2. job \in Job
    BY <1>1 DEF TypeInv
  <1>3. \A i \in 1 .. Len(queue) : queue[i].build # job.build
    BY <1>1 DEF OpenLast
  <1>4. Wire(job).build = job.build /\ Wire(job).open = job.open
    BY DEF Wire
  <1> HIDE DEF Wire
  <1>5. QED
    BY <1>1, <1>2, <1>3, <1>4 DEF Pending

LEMMA PendingNobody == AnswerNobody => Pending' = {}
  BY DEF AnswerNobody, Pending

\* Who is connected and who has an orphan, step by step.
LEMMA ConnectedFrame ==
  ASSUME TypeInv, TypeInv', Pending' = Pending, NEW b \in Build
  PROVE  (Connected(b)' <=> Connected(b)) /\ (Orphaned(b)' <=> Orphaned(b))
  BY ConnectedFacts, ConnectedFactsPrime

LEMMA ConnectedCall ==
  ASSUME TypeInv, TypeInv', NEW b \in Build, NEW m, NEW x,
         Pending' = Pending \cup {Connection(b, m, x)}
  PROVE  /\ Connected(b)'
         /\ \A a \in Build : /\ Orphaned(a)' <=> Orphaned(a)
                             /\ a # b => (Connected(a)' <=> Connected(a))
  <1>1. Connection(b, m, x).build = b /\ Connection(b, m, x).open
    BY DEF Connection
  <1> HIDE DEF Connection
  <1>2. QED
    BY <1>1, ConnectedFacts, ConnectedFactsPrime

LEMMA ConnectedHungUp ==
  ASSUME TypeInv, TypeInv', NEW b \in Build, HangUp(b)
  PROVE  /\ ~Connected(b)'
         /\ \A a \in Build :
              /\ a # b => (Connected(a)' <=> Connected(a))
              /\ a # b => (Orphaned(a)' <=> Orphaned(a))
              /\ Orphaned(a) => Orphaned(a)'
  BY HungUp, ConnectedFacts, ConnectedFactsPrime

LEMMA ConnectedAnswer ==
  ASSUME TypeInv, TypeInv', OpenLast, Answer
  PROVE  \A a \in Build :
           /\ a = job.build => ~Connected(a)' /\ ~Orphaned(a)' /\ ~Orphaned(a)
           /\ a # job.build => /\ Connected(a)' <=> Connected(a)
                               /\ Orphaned(a)' <=> Orphaned(a)
  BY PendingAnswer, ConnectedFacts, ConnectedFactsPrime

LEMMA ConnectedNobody ==
  ASSUME TypeInv', AnswerNobody, NEW a \in Build
  PROVE  ~Connected(a)' /\ ~Orphaned(a)'
  BY PendingNobody, ConnectedFactsPrime

\* A client that gets an error is through with its call.
LEMMA ErrorFacts ==
  ASSUME TypeInv, ClientInv, NEW b \in Build, Refused(b) \/ GiveUp(b)
  PROVE  /\ wait'[b] = "none" /\ pc'[b] \in {"ready", "closing", "done"}
         /\ pc'[b] = "ready" => pc[b] = "ready"
         /\ \A a \in Build : /\ held'[a] = held[a]
                             /\ a # b => wait'[a] = wait[a] /\ pc'[a] = pc[a]
         /\ UNCHANGED <<up, tableVars, docker, excused>>
  <1>1. PICK m : /\ Returns(b, m, FALSE, "none")
                 /\ m \notin {"provision", "destroy"} => pc[b] = "ready"
    <2>1. CASE wait[b] # "none" /\ Returns(b, wait[b], FALSE, "none")
      <3>1. wait[b] \notin {"provision", "destroy"} => pc[b] = "ready"
        BY <2>1 DEF ClientInv, ClientOK, GraphMethod, TypeInv, TypeOK
      <3>2. QED
        BY <2>1, <3>1
    <2>2. CASE Refused(b) /\ wait[b] = "none"
      BY <2>2 DEF Refused
    <2>3. QED
      BY <2>1, <2>2 DEF Refused, GiveUp
  <1>2. UNCHANGED <<up, tableVars, docker, excused>>
    BY DEF Refused, GiveUp, daemonVars
  <1>3. QED
    BY <1>1, <1>2, ReturnsFacts

\* No client waits for the request that it makes next, or hears of an old one.
LEMMA RefusedIsSilent ==
  ASSUME TypeInv, RequestsInv, NEW b \in Build, Refused(b)
  PROVE  /\ UNCHANGED <<queue, job>>
         /\ \A r \in Pending : r.build = b => ~r.open
  <1>1. UNCHANGED <<queue, job>>
    BY DEF Refused, daemonVars
  <1>2. wait[b] = "none" \/ ~Connected(b)
    BY DEF Refused
  <1>3. QED
    BY <1>1, <1>2, SilentIsClosed, ConnectedFacts

LEMMA CallKeepsRequests ==
  ASSUME TypeInv, RequestsInv, NEW b \in Build, NEW m \in Method,
         NEW x \in Box \cup {"none"}, m \in Creates => x \in Box,
         Call(b, m, x), UNCHANGED <<job, pc>>, wait[b] = "none",
         pc[b] = "ready" => m \in GraphMethod,
         m = "destroy_sandbox" => x \notin held'[b],
         \A a \in Build : held'[a] \subseteq held[a]
  PROVE  RequestsInv'
  <1> SUFFICES ASSUME NEW r \in Pending' PROVE RequestOK(r)'
    BY DEF RequestsInv
  <1>1. r \in Pending \/ r = Connection(b, m, x)
    BY PendingCall
  <1>2. CASE r \in Pending
    <2>1. RequestOK(r) /\ r.build \in Build
      BY <1>2, PendingTypes DEF RequestsInv, Request
    <2>2. r.open => r.build # b
      BY <1>2, SilentIsClosed
    <2>3. r.open => wait'[r.build] = wait[r.build]
      BY <2>1, <2>2, CallFacts
    <2>4. QED
      BY <2>1, <2>3, RequestKept
  <1>3. CASE r = Connection(b, m, x)
    <2>1. wait'[b] = m
      BY CallFacts
    <2>2. QED
      BY <1>3, <2>1 DEF Connection, RequestOK
  <1>4. QED
    BY <1>1, <1>2, <1>3

LEMMA RequestsInductive ==
  ASSUME TypeInv, LinkInv, [Next]_vars
  PROVE  RequestsInv'
  <1> USE DEF LinkInv
  <1>a. \A r \in Pending : RequestOK(r) /\ r.build \in Build /\ r \in Request
    BY PendingTypes DEF RequestsInv, Request
  <1>1. ASSUME Pending' \subseteq Pending,
               \A r \in Pending' : /\ wait'[r.build] = wait[r.build]
                                   /\ held'[r.build] \subseteq held[r.build]
                                   /\ pc'[r.build] = "ready" => pc[r.build] = "ready"
        PROVE  RequestsInv'
    <2> SUFFICES ASSUME NEW r \in Pending' PROVE RequestOK(r)'
      BY DEF RequestsInv
    <2>1. QED
      BY <1>a, <1>1, RequestKept
  <1>2. CASE Accept \/ MakeStep \/ RmStep
    <2>1. Pending' = Pending
      BY <1>2, PendingAccept, PendingJob
    <2>2. UNCHANGED clientVars
      BY <1>2 DEF Accept, MakeStep, RmStep
    <2>3. QED
      BY <1>1, <2>1, <2>2 DEF clientVars
  <1>3. CASE Answer
    <2>1. \A r \in Pending' : r \in Pending /\ r.build # job.build
      BY <1>3, PendingAnswer
    <2>2. job \in Job
      BY <1>3, PendingAnswer
    <2>3. \A a \in Build : a # job.build =>
             wait'[a] = wait[a] /\ pc'[a] = pc[a] /\ held'[a] = held[a]
      BY ZenonT(30), <1>3, <2>2, ReturnsFacts DEF Answer, Job
    <2>4. QED
      BY <1>1, <1>a, <2>1, <2>3
  <1>4. CASE AnswerNobody
    BY <1>4, PendingNobody DEF RequestsInv
  <1>5. ASSUME NEW b \in Build, ProvisionCall(b) PROVE RequestsInv'
    <2>1. /\ Call(b, "provision", "none") /\ UNCHANGED <<job, pc, held>>
          /\ wait[b] = "none" /\ pc[b] = "new"
      BY <1>5 DEF ProvisionCall
    <2>2. QED
      BY <2>1, CallKeepsRequests DEF Method, Creates
  <1>6. ASSUME NEW b \in Build, GraphCall(b) PROVE RequestsInv'
    <2>1. PICK m \in Method \ {"provision", "destroy"}, x \in Box :
            /\ Call(b, m, x)
            /\ held' = IF m = "destroy_sandbox"
                       THEN [held EXCEPT ![b] = @ \ {x}] ELSE held
      BY <1>6, GraphCallFacts
    <2>2. UNCHANGED <<job, pc>> /\ wait[b] = "none"
      BY <1>6 DEF GraphCall
    <2>3. /\ m = "destroy_sandbox" => x \notin held'[b]
          /\ \A a \in Build : held'[a] \subseteq held[a]
      BY <2>1 DEF TypeInv, TypeOK
    <2>4. QED
      BY <2>1, <2>2, <2>3, CallKeepsRequests DEF GraphMethod
  <1>7. ASSUME NEW b \in Build, DestroyCall(b) PROVE RequestsInv'
    <2>1. /\ Call(b, "destroy", "none") /\ UNCHANGED <<job, pc, held>>
          /\ wait[b] = "none" /\ pc[b] = "closing"
      BY <1>7 DEF DestroyCall
    <2>2. QED
      BY <2>1, CallKeepsRequests DEF Method, Creates
  <1>8. ASSUME NEW b \in Build, Finish(b) \/ NewProcess(b) PROVE RequestsInv'
    <2>1. Pending' = Pending /\ wait' = wait
      BY <1>8, PendingFrame DEF Finish, NewProcess, daemonVars
    <2>2. \A a \in Build : /\ held'[a] \subseteq held[a]
                           /\ pc'[a] = "ready" => pc[a] = "ready"
      BY <1>8 DEF Finish, NewProcess, TypeInv, TypeOK
    <2>3. QED
      BY <1>1, <1>a, <2>1, <2>2
  <1>9. ASSUME NEW b \in Build, Refused(b) \/ GiveUp(b) \/ Kill(b)
        PROVE  RequestsInv'
    <2>1. \A r \in Pending' : \E s \in Pending :
            /\ r.build = s.build /\ r.method = s.method /\ r.box = s.box
            /\ r.open => s.open /\ s.build # b
      <3>1. CASE Refused(b)
        BY <3>1, RefusedIsSilent, PendingFrame
      <3>2. CASE GiveUp(b) \/ Kill(b)
        <4>1. HangUp(b)
          BY <3>2 DEF GiveUp, Kill
        <4>2. QED
          BY <4>1, HungUp
      <3>3. QED
        BY <1>9, <3>1, <3>2
    <2>2. \A a \in Build : /\ held'[a] \subseteq held[a]
                           /\ pc'[a] = "ready" => pc[a] = "ready"
                           /\ a # b => wait'[a] = wait[a]
      <3>1. CASE Kill(b)
        BY <3>1 DEF Kill, TypeInv, TypeOK
      <3>2. CASE Refused(b) \/ GiveUp(b)
        BY <3>2, ErrorFacts
      <3>3. QED
        BY <1>9, <3>1, <3>2
    <2> SUFFICES ASSUME NEW r \in Pending' PROVE RequestOK(r)'
      BY DEF RequestsInv
    <2>3. PICK s \in Pending :
            /\ r.build = s.build /\ r.method = s.method /\ r.box = s.box
            /\ r.open => s.open /\ s.build # b
      BY <2>1
    <2>4. QED
      BY <1>a, <2>2, <2>3, RequestKept
  <1>10. CASE Restart \/ UNCHANGED vars
    <2>1. Pending' = Pending /\ UNCHANGED clientVars
      BY <1>10, PendingFrame DEF Restart, vars, daemonVars
    <2>2. QED
      BY <1>1, <2>1 DEF clientVars
  <1>11. QED
    BY <1>2, <1>3, <1>4, <1>5, <1>6, <1>7, <1>8, <1>9, <1>10
    DEF Next, DaemonStep, ClientStep

LEMMA OpenLastInductive ==
  ASSUME TypeInv, LinkInv, [Next]_vars
  PROVE  OpenLast'
  <1> USE DEF LinkInv
  <1>0. Len(queue) \in Nat
    BY DEF TypeInv
  <1>1. CASE UNCHANGED <<queue, job>>
    BY <1>1 DEF OpenLast
  <1>2. CASE Accept
    <2>1. /\ Len(queue) \in Nat \ {0} /\ Len(queue') = Len(queue) - 1
          /\ \A i \in 1 .. Len(queue') : queue'[i] = queue[i + 1]
          /\ job'.build = queue[1].build /\ job'.open = queue[1].open
      BY <1>2, AcceptFacts
    <2>2. ASSUME NEW i \in 1 .. Len(queue'), job'.open
          PROVE  queue'[i].build # job'.build
      <3>1. i + 1 \in 1 .. Len(queue) /\ 1 \in 1 .. (i + 1) - 1
        BY <2>1
      <3>2. QED
        BY ZenonT(30), <2>1, <2>2, <3>1 DEF OpenLast
    <2>3. ASSUME NEW i \in 1 .. Len(queue'), NEW j \in 1 .. i - 1,
                 queue'[j].open
          PROVE  queue'[i].build # queue'[j].build
      <3>1. /\ i + 1 \in 1 .. Len(queue) /\ j + 1 \in 1 .. (i + 1) - 1
            /\ j \in 1 .. Len(queue')
        BY <2>1
      <3>2. QED
        BY <2>1, <2>3, <3>1 DEF OpenLast
    <2>4. QED
      BY <2>2, <2>3 DEF OpenLast
  <1>3. CASE MakeStep \/ RmStep
    <2>1. /\ queue' = queue /\ job # Idle
          /\ job'.build = job.build /\ job'.open = job.open
      BY <1>3, PendingJob, MakeFacts, RmFacts
    <2>2. QED
      BY <2>1 DEF OpenLast
  <1>4. CASE Answer
    BY <1>4 DEF Answer, OpenLast
  <1>5. CASE AnswerNobody
    BY <1>5 DEF AnswerNobody, OpenLast
  <1>6. ASSUME NEW b \in Build, NEW m \in Method, NEW x \in Box \cup {"none"},
               m \in Creates => x \in Box, Call(b, m, x), UNCHANGED job,
               wait[b] = "none"
        PROVE  OpenLast'
    <2>1. /\ Len(queue') = Len(queue) + 1
          /\ \A i \in 1 .. Len(queue) : queue'[i] = queue[i]
          /\ queue'[Len(queue) + 1] = Connection(b, m, x)
      BY <1>6, CallFacts
    <2>a. Connection(b, m, x).build = b
      BY DEF Connection
    <2>2. \A r \in Pending : r.open => r.build # b
      BY <1>6, SilentIsClosed
    <2>3. \A j \in 1 .. Len(queue) : queue[j].open => queue[j].build # b
      BY <2>2 DEF Pending
    <2>4. job # Idle /\ job.open => job.build # b
      <3>1. job # Idle => Wire(job) \in Pending
        BY DEF Pending
      <3>2. Wire(job).build = job.build /\ Wire(job).open = job.open
        BY DEF Wire
      <3>3. QED
        BY <2>2, <3>1, <3>2
    <2>5. ASSUME NEW i \in 1 .. Len(queue')
          PROVE  /\ job # Idle /\ job.open => queue'[i].build # job.build
                 /\ \A j \in 1 .. i - 1 :
                      queue'[j].open => queue'[i].build # queue'[j].build
      <3>1. CASE i = Len(queue) + 1
        <4>1. \A j \in 1 .. i - 1 : j \in 1 .. Len(queue)
          BY <1>0, <3>1
        <4>2. QED
          BY <2>1, <2>a, <2>3, <2>4, <3>1, <4>1
      <3>2. CASE i # Len(queue) + 1
        <4>1. i \in 1 .. Len(queue) /\ \A j \in 1 .. i - 1 : j \in 1 .. Len(queue)
          BY <1>0, <2>1, <3>2
        <4>2. QED
          BY <2>1, <4>1 DEF OpenLast
      <3>3. QED
        BY <3>1, <3>2
    <2>6. QED
      BY <1>6, <2>5 DEF OpenLast
  <1>7. ASSUME NEW b \in Build, HangUp(b) PROVE OpenLast'
    <2>1. /\ Len(queue') = Len(queue)
          /\ \A i \in 1 .. Len(queue) :
               queue'[i] = IF queue[i].build = b
                           THEN [queue[i] EXCEPT !.open = FALSE] ELSE queue[i]
          /\ job' = IF job # Idle /\ job.build = b
                    THEN [job EXCEPT !.open = FALSE] ELSE job
          /\ job' = Idle <=> job = Idle
      BY <1>7, HangUpFacts
    <2>2. \A i \in 1 .. Len(queue) : queue[i] \in Request
      BY ElementOfSeq DEF TypeInv
    <2>3. \A i \in 1 .. Len(queue) :
            /\ queue'[i].build = queue[i].build
            /\ queue'[i].open => queue[i].open
      BY <2>1, <2>2 DEF Request
    <2>4. job # Idle => job'.build = job.build /\ (job'.open => job.open)
      BY <2>1 DEF TypeInv, Job
    <2>5. ASSUME NEW i \in 1 .. Len(queue), NEW j \in 1 .. i - 1
          PROVE  j \in 1 .. Len(queue)
      BY <1>0
    <2>6. QED
      BY <2>1, <2>3, <2>4, <2>5 DEF OpenLast
  <1>8. ASSUME NEW b \in Build, ProvisionCall(b) \/ DestroyCall(b)
        PROVE  OpenLast'
    <2>1. PICK m \in {"provision", "destroy"} : Call(b, m, "none")
      BY <1>8 DEF ProvisionCall, DestroyCall
    <2>2. UNCHANGED job /\ wait[b] = "none"
      BY <1>8 DEF ProvisionCall, DestroyCall
    <2>3. QED
      BY <2>1, <2>2, <1>6 DEF Method, Creates
  <1>9. ASSUME NEW b \in Build, GraphCall(b) PROVE OpenLast'
    <2>1. PICK m \in Method \ {"provision", "destroy"}, x \in Box : Call(b, m, x)
      BY <1>9, GraphCallFacts
    <2>2. UNCHANGED job /\ wait[b] = "none"
      BY <1>9 DEF GraphCall
    <2>3. QED
      BY <2>1, <2>2, <1>6
  <1>10. QED
    BY <1>1, <1>2, <1>3, <1>4, <1>5, <1>7, <1>8, <1>9
    DEF Next, DaemonStep, ClientStep, Finish, Refused, GiveUp, Kill,
        NewProcess, Restart, vars, daemonVars

LEMMA DownInductive ==
  ASSUME TypeInv, LinkInv, [Next]_vars
  PROVE  DownInv'
  <1> USE DEF LinkInv
  <1>1. CASE Accept
    BY <1>1 DEF Accept, DownInv
  <1>2. CASE MakeStep \/ RmStep
    <2>1. job # Idle /\ up' = up
      BY <1>2, PendingJob DEF MakeStep, RmStep
    <2>2. QED
      BY <2>1 DEF DownInv
  <1>3. CASE Answer
    BY <1>3 DEF Answer, DownInv
  <1>4. CASE AnswerNobody
    BY <1>4 DEF AnswerNobody, DownInv
  <1>5. CASE Restart
    BY <1>5 DEF Restart, DownInv
  <1>6. CASE \E b \in Build :
               ProvisionCall(b) \/ GraphCall(b) \/ DestroyCall(b)
    <2>1. up /\ up' = up
      BY <1>6 DEF ProvisionCall, GraphCall, DestroyCall, Call
    <2>2. QED
      BY <2>1 DEF DownInv
  <1>7. CASE \E b \in Build : GiveUp(b) \/ Kill(b)
    <2>1. PICK b \in Build : HangUp(b) /\ UNCHANGED <<up, tableVars>>
      BY <1>7 DEF GiveUp, Kill
    <2>2. Len(queue') = Len(queue) /\ (job' = Idle <=> job = Idle)
          /\ queue' \in Seq(Request) /\ queue \in Seq(Request)
      BY <2>1, HangUpFacts DEF TypeInv
    <2>3. queue = <<>> => queue' = <<>>
      BY <2>2, EmptySeq
    <2>4. QED
      BY <2>1, <2>2, <2>3 DEF DownInv, tableVars
  <1>8. CASE UNCHANGED daemonVars
    BY <1>8 DEF daemonVars, tableVars, DownInv
  <1>9. QED
    BY <1>1, <1>2, <1>3, <1>4, <1>5, <1>6, <1>7, <1>8
    DEF Next, DaemonStep, ClientStep, Finish, Refused, NewProcess, vars

\* What a step must respect for what is known of a client to hold on: wait, pc
\* and held as they were, the client connected as before and not newly alone.
LEMMA ClientKept ==
  ASSUME NEW b \in Build, ClientOK(b),
         wait'[b] = wait[b], pc'[b] = pc[b], held'[b] \subseteq held[b],
         wait[b] # "none" /\ ~Connected(b)' => ~Connected(b),
         wait[b] # "none" /\ ~Connected(b)' => ~Orphaned(b)' /\ table'[b] = 0,
         table'[b] \in {0, gen'[b]},
         pc[b] = "ready" =>
           table'[b] = gen'[b] \/ <<b, gen'[b]>> \in excused'
  PROVE  ClientOK(b)'
  BY DEF ClientOK

\* A step of one client leaves what is known of the others.
LEMMA OthersKept ==
  ASSUME TypeInv, TypeInv', ClientInv, UNCHANGED <<table, gen>>,
         excused \subseteq excused',
         NEW a \in Build, wait'[a] = wait[a], pc'[a] = pc[a],
         held'[a] = held[a], Connected(a)' <=> Connected(a),
         Orphaned(a)' => Orphaned(a)
  PROVE  ClientOK(a)'
  BY DEF ClientInv, ClientOK

LEMMA DaemonKeepsClients ==
  ASSUME TypeInv, TypeInv', LinkInv, Accept \/ MakeStep \/ RmStep
  PROVE  ClientInv'
  <1> USE DEF LinkInv
  <1>1. UNCHANGED clientVars
    BY DEF Accept, MakeStep, RmStep
  <1>2. Pending' = Pending
    BY PendingAccept, PendingJob
  <1>3. \A b \in Build : /\ Connected(b)' <=> Connected(b)
                         /\ Orphaned(b)' <=> Orphaned(b)
    BY <1>2, ConnectedFrame
  <1>4. excused \subseteq excused'
    BY RmFacts DEF Accept, MakeStep
  <1> SUFFICES ASSUME NEW b \in Build PROVE ClientOK(b)'
    BY DEF ClientInv
  <1>5. ClientOK(b)
    BY DEF ClientInv
  <1>6. CASE Accept /\ AcceptProvision(queue[1]) /\ queue[1].build = b
    <2>1. queue[1] \in Pending
      BY <1>6, PendingAccept
    <2>2. Connected(b) \/ Orphaned(b)
      BY <1>6, <2>1, ConnectedFacts
    <2>3. table'[b] = gen'[b]
      BY <1>6 DEF AcceptProvision, TypeInv, TypeOK
    <2>4. wait[b] # "none" => Connected(b)
      BY <1>5, <2>2 DEF ClientOK
    <2>5. QED
      BY <1>1, <1>3, <1>5, <2>3, <2>4, ClientKept DEF clientVars
  <1>7. CASE ~(Accept /\ AcceptProvision(queue[1]) /\ queue[1].build = b)
    <2>1. table'[b] = table[b] /\ gen'[b] = gen[b]
      <3>1. CASE Accept /\ ~AcceptProvision(queue[1])
        BY <3>1, AcceptFacts
        DEF AcceptCreate, AcceptExec, AcceptDestroySandbox, AcceptDestroy,
            AcceptUnknownBuild, tableVars
      <3>2. CASE Accept /\ AcceptProvision(queue[1]) /\ queue[1].build # b
        BY <3>2 DEF AcceptProvision, TypeInv, TypeOK
      <3>3. CASE MakeStep \/ RmStep
        BY <3>3 DEF MakeStep, RmStep
      <3>4. QED
        BY <1>7, <3>1, <3>2, <3>3
    <2>2. QED
      BY <1>1, <1>3, <1>4, <1>5, <2>1, ClientKept DEF clientVars, ClientOK
  <1>8. QED
    BY <1>6, <1>7

LEMMA AnswerKeepsClients ==
  ASSUME TypeInv, TypeInv', LinkInv, Answer
  PROVE  ClientInv'
  <1> USE DEF LinkInv
  <1>0. job \in Job /\ Wire(job) \in Pending /\ job.open /\ job # Idle
    BY PendingAnswer, JobIsBusy
  <1>b. PICK b \in Build : b = job.build
    BY <1>0 DEF Job
  <1>1. job \in Job /\ Wire(job) \in Pending /\ job.open /\ job # Idle
        /\ job.build = b
    BY <1>0, <1>b
  <1>2. wait[b] = job.method
    <2>1. RequestOK(Wire(job))
      BY <1>1 DEF RequestsInv
    <2>2. QED
      BY <1>1, <2>1 DEF RequestOK, Wire
  <1>3. /\ wait'[b] = "none" /\ pc'[b] \in {"ready", "closing", "done"}
        /\ pc'[b] = "ready" => /\ job.method # "destroy"
                               /\ job.method = "provision" => ~job.raised
        /\ \A a \in Build : a # b =>
             wait'[a] = wait[a] /\ pc'[a] = pc[a] /\ held'[a] = held[a]
    <2>1. Returns(b, job.method, ~job.raised, job.box)
      BY <1>1 DEF Answer
    <2>2. job.method \in Creates => job.box \in Box
      BY <1>1 DEF Job
    <2>3. job.raised \in BOOLEAN
      BY <1>1 DEF Job
    <2>4. QED
      BY <2>1, <2>2, <2>3, ReturnsFacts
  <1>4. /\ gen' = gen /\ excused' = excused
        /\ \A a \in Build : table'[a] = IF a = b /\ job.method = "destroy"
                                             /\ ~job.raised
                                        THEN 0 ELSE table[a]
    BY <1>1 DEF Answer, Served, TypeInv, TypeOK
  <1>5. \A a \in Build : a # b => /\ Connected(a)' <=> Connected(a)
                                  /\ Orphaned(a)' <=> Orphaned(a)
    BY <1>1, ConnectedAnswer
  <1>6. ClientOK(b) /\ table[b] \in {0, gen[b]}
    BY <1>1 DEF ClientInv, ClientOK
  <1>7. pc'[b] = "ready" =>
          table'[b] = gen'[b] \/ <<b, gen'[b]>> \in excused'
    <2>1. CASE job.method = "provision"
      <3>1. table[b] = gen[b]
        BY <1>1, <2>1 DEF JobInv
      <3>2. QED
        BY <1>1, <1>4, <2>1, <3>1
    <2>2. CASE job.method # "provision" /\ job.method # "destroy"
      <3>1. pc[b] = "ready"
        BY <1>1, <1>2, <1>6, <2>2 DEF ClientOK, GraphMethod, Job
      <3>2. QED
        BY <1>1, <1>4, <1>6, <2>2, <3>1 DEF ClientOK
    <2>3. QED
      BY <1>3, <2>1, <2>2
  <1>8. ClientOK(b)'
    BY <1>1, <1>3, <1>4, <1>6, <1>7 DEF ClientOK, GraphMethod, Method
  <1>9. ASSUME NEW a \in Build, a # b PROVE ClientOK(a)'
    BY <1>3, <1>4, <1>5, <1>9 DEF ClientInv, ClientOK
  <1>10. QED
    BY <1>8, <1>9 DEF ClientInv

LEMMA NobodyKeepsClients ==
  ASSUME TypeInv, TypeInv', LinkInv, AnswerNobody
  PROVE  ClientInv'
  <1> USE DEF LinkInv
  <1> SUFFICES ASSUME NEW a \in Build PROVE ClientOK(a)'
    BY DEF ClientInv
  <1>1. ClientOK(a)
    BY DEF ClientInv
  <1>2. ~Connected(a)' /\ ~Orphaned(a)'
    BY ConnectedNobody
  <1>3. table'[a] = 0 /\ UNCHANGED <<gen, clientVars>>
    BY DEF AnswerNobody
  <1>4. pc[a] = "ready" => <<a, gen[a]>> \in excused'
    <2>1. SUFFICES ASSUME pc[a] = "ready", table[a] = gen[a]
                   PROVE  <<a, gen[a]>> \in excused'
      BY <1>1 DEF ClientOK, AnswerNobody
    <2>2. ~(job.method = "destroy" /\ job.build = a)
      <3>1. job # Idle => Wire(job) \in Pending
        BY DEF Pending
      <3>2. job # Idle => RequestOK(Wire(job))
        BY <3>1 DEF RequestsInv
      <3>3. QED
        BY <2>1, <3>2 DEF RequestOK, Wire, GraphMethod, AnswerNobody
    <2>3. QED
      BY <2>1, <2>2 DEF AnswerNobody, Current
  <1>5. QED
    BY <1>1, <1>2, <1>3, <1>4 DEF ClientOK, clientVars

LEMMA CallsKeepClients ==
  ASSUME TypeInv, TypeInv', LinkInv, NEW b \in Build,
         ProvisionCall(b) \/ GraphCall(b) \/ DestroyCall(b)
  PROVE  ClientInv'
  <1> USE DEF LinkInv
  <1>1. PICK m \in Method, x \in Box \cup {"none"} :
          /\ Call(b, m, x) /\ (m \in Creates => x \in Box)
          /\ m = "provision" => pc[b] = "new" /\ held' = held
          /\ m = "destroy" => pc[b] = "closing"
          /\ m \in GraphMethod => pc[b] = "ready"
          /\ \A a \in Build : /\ held'[a] \subseteq held[a]
                              /\ a # b => held'[a] = held[a]
    <2>1. CASE ProvisionCall(b)
      BY <2>1 DEF ProvisionCall, Method, Creates, GraphMethod
    <2>2. CASE DestroyCall(b)
      BY <2>2 DEF DestroyCall, Method, Creates, GraphMethod
    <2>3. CASE GraphCall(b)
      <3>1. PICK m \in Method \ {"provision", "destroy"}, x \in Box :
              /\ Call(b, m, x)
              /\ held' = IF m = "destroy_sandbox"
                         THEN [held EXCEPT ![b] = @ \ {x}] ELSE held
        BY <2>3, GraphCallFacts
      <3>2. \A a \in Build : /\ held'[a] \subseteq held[a]
                             /\ a # b => held'[a] = held[a]
        BY <3>1 DEF TypeInv, TypeOK
      <3>3. pc[b] = "ready"
        BY <2>3 DEF GraphCall
      <3>4. QED
        BY <3>1, <3>2, <3>3
    <2>4. QED
      BY <2>1, <2>2, <2>3
  <1>2. UNCHANGED <<table, gen, pc, job, excused>>
    BY DEF ProvisionCall, GraphCall, DestroyCall, tableVars
  <1>3. /\ wait'[b] = m
        /\ \A a \in Build : a # b => wait'[a] = wait[a]
    BY <1>1, CallFacts
  <1>4. /\ Connected(b)'
        /\ \A a \in Build : /\ Orphaned(a)' <=> Orphaned(a)
                            /\ a # b => (Connected(a)' <=> Connected(a))
    <2>1. Pending' = Pending \cup {Connection(b, m, x)}
      BY <1>1, <1>2, PendingCall
    <2>2. QED
      BY <2>1, ConnectedCall
  <1>5. ASSUME NEW a \in Build, a # b PROVE ClientOK(a)'
    BY <1>1, <1>2, <1>3, <1>4, <1>5, OthersKept
  <1>6. ClientOK(b)'
    <2>1. ClientOK(b)
      BY DEF ClientInv
    <2>2. pc[b] = "new" => held'[b] = {}
      BY <1>1, <2>1 DEF ClientOK
    <2>3. QED
      BY <1>1, <1>2, <1>3, <1>4, <2>1, <2>2 DEF ClientOK, GraphMethod
  <1>7. QED
    BY <1>5, <1>6 DEF ClientInv

LEMMA ErrorsKeepClients ==
  ASSUME TypeInv, TypeInv', LinkInv, NEW b \in Build,
         Refused(b) \/ GiveUp(b) \/ Kill(b)
  PROVE  ClientInv'
  <1> USE DEF LinkInv
  <1>1. /\ UNCHANGED <<table, gen>> /\ excused \subseteq excused'
        /\ wait'[b] = "none" /\ pc'[b] # "new"
        /\ pc'[b] = "ready" => pc[b] = "ready"
        /\ \A a \in Build : a # b =>
             held'[a] = held[a] /\ wait'[a] = wait[a] /\ pc'[a] = pc[a]
    <2>1. CASE Kill(b)
      BY <2>1 DEF Kill, tableVars, TypeInv, TypeOK
    <2>2. CASE Refused(b) \/ GiveUp(b)
      BY <2>2, ErrorFacts DEF tableVars
    <2>3. QED
      BY <2>1, <2>2
  <1>2. \A a \in Build : a # b => /\ Connected(a)' <=> Connected(a)
                                  /\ Orphaned(a)' <=> Orphaned(a)
    <2>1. CASE Refused(b)
      BY <2>1, RefusedIsSilent, PendingFrame, ConnectedFrame
    <2>2. CASE GiveUp(b) \/ Kill(b)
      <3>1. HangUp(b)
        BY <2>2 DEF GiveUp, Kill
      <3>2. QED
        BY <3>1, ConnectedHungUp
    <2>3. QED
      BY <2>1, <2>2
  <1>3. ASSUME NEW a \in Build, a # b PROVE ClientOK(a)'
    BY <1>1, <1>2, <1>3, OthersKept
  <1>4. ClientOK(b)'
    BY <1>1 DEF ClientInv, ClientOK, GraphMethod, Method
  <1>5. QED
    BY <1>3, <1>4 DEF ClientInv

LEMMA ClientInductive ==
  ASSUME TypeInv, TypeInv', LinkInv, [Next]_vars
  PROVE  ClientInv'
  <1> USE DEF LinkInv
  <1>1. ASSUME NEW b \in Build, Finish(b) \/ NewProcess(b) PROVE ClientInv'
    <2>1. Pending' = Pending /\ wait' = wait /\ UNCHANGED <<table, gen, excused>>
      BY <1>1, PendingFrame DEF Finish, NewProcess, daemonVars, tableVars
    <2>2. \A a \in Build : /\ Connected(a)' <=> Connected(a)
                           /\ Orphaned(a)' <=> Orphaned(a)
      BY <2>1, ConnectedFrame
    <2>3. ASSUME NEW a \in Build, a # b PROVE ClientOK(a)'
      <3>1. pc'[a] = pc[a] /\ held'[a] = held[a]
        BY <1>1, <2>3 DEF Finish, NewProcess, TypeInv, TypeOK
      <3>2. QED
        BY <2>1, <2>2, <3>1, OthersKept
    <2>4. ClientOK(b)'
      <3>1. ClientOK(b)
        BY DEF ClientInv
      <3>2. wait[b] = "none"
        BY <1>1, <3>1
        DEF Finish, NewProcess, ClientOK, GraphMethod, TypeInv, TypeOK
      <3>3. /\ pc'[b] = "new" => held'[b] = {}
            /\ pc'[b] # "ready"
        BY <1>1 DEF Finish, NewProcess, TypeInv, TypeOK
      <3>4. QED
        BY <2>1, <3>1, <3>2, <3>3 DEF ClientOK, GraphMethod, Method
    <2>5. QED
      BY <2>3, <2>4 DEF ClientInv
  <1>2. CASE Restart \/ UNCHANGED vars
    <2>1. Pending' = Pending /\ UNCHANGED <<table, gen, excused, pc, wait, held>>
      BY <1>2, PendingFrame DEF Restart, vars, daemonVars, tableVars, clientVars
    <2>2. \A a \in Build : /\ Connected(a)' <=> Connected(a)
                           /\ Orphaned(a)' <=> Orphaned(a)
      BY <2>1, ConnectedFrame
    <2>3. QED
      BY <2>1, <2>2, OthersKept DEF ClientInv
  <1>3. QED
    BY <1>1, <1>2, DaemonKeepsClients, AnswerKeepsClients, NobodyKeepsClients,
       CallsKeepClients, ErrorsKeepClients
    DEF Next, DaemonStep, ClientStep

LEMMA InitLinkInv == Init => LinkInv
  <1> SUFFICES ASSUME Init PROVE LinkInv
    OBVIOUS
  <1>1. job = Idle /\ queue = <<>> /\ Len(queue) = 0 /\ Pending = {}
    BY DEF Init, Pending
  <1>2. JobInv /\ RequestsInv /\ OpenLast /\ DownInv
    BY <1>1 DEF JobInv, RequestsInv, OpenLast, DownInv, Init
  <1>3. ClientInv
    BY <1>1 DEF ClientInv, ClientOK, Init, GraphMethod, Method
  <1>4. QED
    BY <1>2, <1>3 DEF LinkInv

LEMMA LinkInductive == TypeInv /\ TypeInv' /\ LinkInv /\ [Next]_vars => LinkInv'
  BY JobInductive, RequestsInductive, OpenLastInductive, ClientInductive,
     DownInductive DEF LinkInv

LEMMA LinkInvariance == Spec => [](TypeInv /\ LinkInv)
  BY InitTypeInv, InitLinkInv, NextTypeInv, LinkInductive, PTL DEF Spec

-----------------------------------------------------------------------------
(* Handles resolve                                                          *)

\* A handle stays good where its client, its Broker and its excuse are as they
\* were, no handle is new, and no container is forgotten.
LEMMA HandleKept ==
  ASSUME HandlesResolve, NEW b \in Build,
         pc'[b] = "ready" => pc[b] = "ready",
         Orphaned(b) => Orphaned(b)', gen'[b] = gen[b], excused \subseteq excused',
         held'[b] \subseteq held[b], registered[b] \subseteq registered'[b],
         pc'[b] = "ready", ~Orphaned(b)', <<b, gen'[b]>> \notin excused'
  PROVE  held'[b] \subseteq registered'[b]
  BY DEF HandlesResolve

LEMMA HandlesInductive ==
  ASSUME TypeInv, TypeInv', LinkInv, HandlesResolve, [Next]_vars
  PROVE  HandlesResolve'
  <1> SUFFICES ASSUME NEW b \in Build, pc'[b] = "ready", ~Orphaned(b)',
                      <<b, gen'[b]>> \notin excused'
               PROVE  held'[b] \subseteq registered'[b]
    BY DEF HandlesResolve
  <1>a. \A r \in Pending : r.build = b /\ pc[b] = "ready" => r.method \in GraphMethod
    BY DEF LinkInv, RequestsInv, RequestOK
  <1>1. CASE Accept
    <2>1. pc[b] = "ready" /\ held' = held /\ excused' = excused
      BY <1>1 DEF Accept, clientVars
    <2>2. ~Orphaned(b)
      BY <1>1, PendingAccept, ConnectedFrame
    <2>3. ~(AcceptProvision(queue[1]) /\ queue[1].build = b)
      BY <1>a, <1>1, <2>1, PendingAccept DEF AcceptProvision, GraphMethod
    <2>4. gen'[b] = gen[b] /\ registered'[b] = registered[b]
      <3>1. CASE AcceptProvision(queue[1])
        BY <2>3, <3>1 DEF AcceptProvision, TypeInv, TypeOK
      <3>2. CASE ~AcceptProvision(queue[1])
        BY <1>1, <3>2, AcceptFacts
        DEF AcceptCreate, AcceptExec, AcceptDestroySandbox, AcceptDestroy,
            AcceptUnknownBuild, tableVars
      <3>3. QED
        BY <3>1, <3>2
    <2>5. QED
      BY <2>1, <2>2, <2>4, HandleKept
  <1>2. CASE MakeStep
    <2>1. pc[b] = "ready" /\ held' = held /\ excused' = excused /\ gen' = gen
      BY <1>2 DEF MakeStep, clientVars
    <2>2. ~Orphaned(b)
      BY <1>2, PendingJob, ConnectedFrame
    <2>3. registered[b] \subseteq registered'[b]
      <3>1. PICK k \in job.make, made \in BOOLEAN, raised \in BOOLEAN :
              registered' = IF Registers(k, made, raised)
                            THEN [registered EXCEPT ![job.build] = @ \cup {k}]
                            ELSE registered
        BY <1>2, MakeFacts
      <3>2. QED
        BY <3>1 DEF TypeInv, TypeOK
    <2>4. QED
      BY <2>1, <2>2, <2>3, HandleKept
  <1>3. CASE RmStep
    <2>1. pc[b] = "ready" /\ held' = held /\ gen' = gen
      BY <1>3 DEF RmStep, clientVars
    <2>2. ~Orphaned(b) /\ excused \subseteq excused'
      BY <1>3, PendingJob, ConnectedFrame, RmFacts
    <2>3. held[b] \subseteq registered[b]
      BY <2>1, <2>2 DEF HandlesResolve
    <2>4. PICK k \in job.rm :
            registered' = [registered EXCEPT ![job.build] = @ \ {k}]
      BY <1>3, RmFacts
    <2>5. CASE job.build = b
      <3>1. /\ Wire(job) \in Pending /\ Wire(job).build = job.build
            /\ Wire(job).method = job.method /\ Wire(job).box = job.box
            /\ Wire(job).open = job.open
        BY <1>3, PendingJob DEF Pending, Wire
      <3>2. job.method = "destroy_sandbox" /\ k = job.box
        BY <1>a, <1>3, <2>1, <2>4, <2>5, <3>1, RmFacts, JobIsBusy
        DEF LinkInv, JobInv, GraphMethod
      <3>3. job.open
        BY <2>2, <2>5, <3>1, ConnectedFacts
      <3>4. k \notin held[b]
        BY <2>5, <3>1, <3>2, <3>3 DEF LinkInv, RequestsInv, RequestOK
      <3>5. QED
        BY <2>1, <2>3, <2>4, <2>5, <3>4 DEF TypeInv, TypeOK
    <2>6. CASE job.build # b
      BY <2>1, <2>3, <2>4, <2>6 DEF TypeInv, TypeOK
    <2>7. QED
      BY <2>5, <2>6
  <1>4. CASE Answer
    <2>1. UNCHANGED <<gen, registered, excused>>
      BY <1>4 DEF Answer
    <2>2. /\ job \in Job /\ job # Idle /\ Wire(job) \in Pending /\ job.open
          /\ ~Orphaned(b)
      BY <1>4, PendingAnswer, ConnectedAnswer, JobIsBusy DEF LinkInv
    <2>3. /\ Returns(job.build, job.method, ~job.raised, job.box)
          /\ job.build \in Build /\ job.raised \in BOOLEAN
          /\ job.method \in Creates => job.box \in Box
      BY <1>4, <2>2 DEF Answer, Job
    <2>4. /\ \A a \in Build : a # job.build => pc'[a] = pc[a] /\ held'[a] = held[a]
          /\ held'[job.build] = IF ~job.raised /\ job.method \in Creates
                                THEN held[job.build] \cup {job.box}
                                ELSE held[job.build]
          /\ job.method = "destroy" => pc'[job.build] = "done"
      <3>1. PICK c \in Build, m \in Method, x \in Box \cup {"none"} :
              c = job.build /\ m = job.method /\ x = job.box
        BY <2>2 DEF Job
      <3>2. CASE job.raised
        <4>1. Returns(c, m, FALSE, x)
          BY <2>3, <3>1, <3>2 DEF Returns
        <4>2. /\ \A a \in Build : a # c => pc'[a] = pc[a] /\ held'[a] = held[a]
              /\ held'[c] = held[c]
              /\ m = "destroy" => pc'[c] = "done"
          BY <4>1, ReturnsFacts
        <4>3. QED
          BY <3>1, <3>2, <4>2
      <3>3. CASE ~job.raised
        <4>1. Returns(c, m, TRUE, x) /\ (m \in Creates => x \in Box)
          BY <2>3, <3>1, <3>3 DEF Returns
        <4>2. /\ \A a \in Build : a # c => pc'[a] = pc[a] /\ held'[a] = held[a]
              /\ held'[c] = IF m \in Creates THEN held[c] \cup {x} ELSE held[c]
              /\ m = "destroy" => pc'[c] = "done"
          BY ZenonT(30), <4>1, ReturnsFacts
        <4>3. QED
          BY <3>1, <3>3, <4>2
      <3>4. QED
        BY <3>2, <3>3
    <2>5. CASE job.build # b
      BY <2>1, <2>2, <2>4, <2>5, HandleKept
    <2>6. CASE job.build = b
      <3>1. ~job.raised /\ job.method \in Creates => job.box \in registered[b]
        BY <1>4, <2>2, <2>6 DEF Answer, LinkInv, JobInv
      <3>2. wait[b] = job.method
        BY <2>2, <2>6 DEF LinkInv, RequestsInv, RequestOK, Wire
      <3>3. held[b] \subseteq registered[b]
        <4>1. CASE job.method = "provision"
          <5>1. held[b] = {}
            BY <3>2, <4>1 DEF LinkInv, ClientInv, ClientOK
          <5>2. QED
            BY <5>1
        <4>2. CASE job.method # "provision"
          <5>1. pc[b] = "ready"
            BY <2>2, <2>4, <2>6, <3>2, <4>2
            DEF LinkInv, ClientInv, ClientOK, GraphMethod, Job
          <5>2. QED
            BY <2>1, <2>2, <5>1 DEF HandlesResolve
        <4>3. QED
          BY <4>1, <4>2
      <3>4. QED
        BY <2>1, <2>4, <2>6, <3>1, <3>3
    <2>7. QED
      BY <2>5, <2>6
  <1>5. CASE AnswerNobody
    <2>1. /\ pc[b] = "ready" /\ gen' = gen /\ excused \subseteq excused'
          /\ ~(job.method = "destroy" /\ job.build = b) => Current(b) \in excused'
      BY <1>5 DEF AnswerNobody, clientVars
    <2>2. ~(job.method = "destroy" /\ job.build = b)
      <3>1. Wire(job) \in Pending
        BY <1>5 DEF AnswerNobody, Pending
      <3>2. Wire(job).build = job.build /\ Wire(job).method = job.method
        BY DEF Wire
      <3>3. QED
        BY <1>a, <2>1, <3>1, <3>2 DEF GraphMethod
    <2>3. table[b] = gen[b]
      BY <2>1 DEF LinkInv, ClientInv, ClientOK
    <2>4. QED
      BY <2>1, <2>2, <2>3 DEF Current
  <1>6. ASSUME NEW a \in Build,
               ProvisionCall(a) \/ GraphCall(a) \/ DestroyCall(a)
        PROVE  held'[b] \subseteq registered'[b]
    <2>1. UNCHANGED <<gen, registered, pc, excused, job>>
      BY <1>6 DEF ProvisionCall, GraphCall, DestroyCall, tableVars
    <2>2. held'[b] \subseteq held[b]
      <3>1. CASE GraphCall(a)
        <4>1. PICK m \in Method, x \in Box :
                held' = IF m = "destroy_sandbox"
                        THEN [held EXCEPT ![a] = @ \ {x}] ELSE held
          BY <3>1, GraphCallFacts
        <4>2. QED
          BY <4>1 DEF TypeInv, TypeOK
      <3>2. CASE ~GraphCall(a)
        BY <1>6, <3>2 DEF ProvisionCall, DestroyCall
      <3>3. QED
        BY <3>1, <3>2
    <2>3. PICK m \in Method, x \in Box \cup {"none"} :
            Call(a, m, x) /\ (m \in Creates => x \in Box)
      <3>1. CASE GraphCall(a)
        BY <3>1, GraphCallFacts
      <3>2. CASE ~GraphCall(a)
        BY <1>6, <3>2 DEF ProvisionCall, DestroyCall, Method, Creates
      <3>3. QED
        BY <3>1, <3>2
    <2>4. Orphaned(b)' <=> Orphaned(b)
      <3>1. Pending' = Pending \cup {Connection(a, m, x)}
        BY <2>1, <2>3, PendingCall
      <3>2. QED
        BY <3>1, ConnectedCall
    <2>5. QED
      BY <2>1, <2>2, <2>4, HandleKept
  <1>7. ASSUME NEW a \in Build, Refused(a) \/ GiveUp(a) \/ Kill(a)
        PROVE  held'[b] \subseteq registered'[b]
    <2>1. /\ pc'[b] = "ready" => pc[b] = "ready"
          /\ UNCHANGED <<gen, registered>> /\ excused \subseteq excused'
          /\ held'[b] \subseteq held[b]
      <3>1. CASE Kill(a)
        BY <3>1 DEF Kill, tableVars, TypeInv, TypeOK
      <3>2. CASE Refused(a) \/ GiveUp(a)
        BY <3>2, ErrorFacts DEF tableVars, LinkInv
      <3>3. QED
        BY <1>7, <3>1, <3>2
    <2>2. Orphaned(b) => Orphaned(b)'
      <3>1. CASE Refused(a)
        BY <3>1, RefusedIsSilent, PendingFrame, ConnectedFrame DEF LinkInv
      <3>2. CASE GiveUp(a) \/ Kill(a)
        <4>1. HangUp(a)
          BY <3>2 DEF GiveUp, Kill
        <4>2. QED
          BY <4>1, ConnectedHungUp
      <3>3. QED
        BY <1>7, <3>1, <3>2
    <2>3. QED
      BY <2>1, <2>2, HandleKept
  <1>8. CASE Restart \/ (\E a \in Build : Finish(a) \/ NewProcess(a))
          \/ UNCHANGED vars
    <2>1. /\ Pending' = Pending /\ UNCHANGED <<gen, registered, excused>>
          /\ pc[b] = "ready" /\ held'[b] = held[b]
      BY SMTT(30), <1>8, PendingFrame
      DEF Restart, Finish, NewProcess, vars, daemonVars, tableVars, clientVars,
          TypeInv, TypeOK
    <2>2. QED
      BY <2>1, ConnectedFrame, HandleKept
  <1>9. QED
    BY <1>1, <1>2, <1>3, <1>4, <1>5, <1>6, <1>7, <1>8
    DEF Next, DaemonStep, ClientStep

LEMMA InitHandles == Init => HandlesResolve
  BY DEF Init, HandlesResolve

\* Whoever else calls, gives up or is killed: a handle that a working client
\* holds names a container that its Broker has registered, unless a request
\* nobody waits for is still ahead or the daemon lost that Broker.
THEOREM HandlesAlwaysResolve == Spec => []HandlesResolve
  <1>1. Spec => [](TypeInv /\ LinkInv)
    BY LinkInvariance
  <1>2. TypeInv /\ LinkInv /\ TypeInv' /\ HandlesResolve /\ [Next]_vars
          => HandlesResolve'
    BY HandlesInductive
  <1>3. QED
    BY <1>1, <1>2, InitHandles, PTL DEF Spec

-----------------------------------------------------------------------------
(* Nothing is left behind                                                   *)

\* A resource that nobody counts on the daemon to remove.
Harmless(r) == <<r[1], r[2]>> \in excused \/ (r[3] = "vol" /\ SharedCache)

Clean(b) == \A r \in docker : r[1] = b => Harmless(r)

\* Whatever else exists belongs to the current Broker of its build, which has
\* every container that create or create_service started registered.
OwnedInv ==
  \A r \in docker :
    \/ Harmless(r)
    \/ /\ r[2] = table[r[1]] /\ r[2] # 0
       /\ r[3] \in Box => r[3] \in registered[r[1]]

\* A teardown that is under way still has before it what exists.
TeardownInv ==
  job # Idle /\ (job.method = "destroy" \/ (job.method = "provision" /\ job.raised))
    => \A r \in docker : r[1] = job.build => Harmless(r) \/ r[3] \in job.rm

\* Before its client's first call and after its last, with no request of its
\* own pending, a build has nothing.
RestInv ==
  \A b \in Build :
    /\ pc[b] \in {"new", "done", "killed"} /\ ~Orphaned(b)
    /\ ~(job # Idle /\ job.build = b)
    => Clean(b)

\* A provision that waits finds a clean build, or waits behind a request that
\* will end the daemon.
ProvisionInv ==
  \A i \in 1 .. Len(queue) :
    queue[i].method = "provision" =>
      \/ Clean(queue[i].build)
      \/ job # Idle /\ job.build = queue[i].build /\ ~job.open
      \/ \E j \in 1 .. i - 1 : queue[j].build = queue[i].build /\ ~queue[j].open

CleanInv == OwnedInv /\ TeardownInv /\ RestInv /\ ProvisionInv

LEMMA ResourceTypes ==
  ASSUME TypeInv, NEW r \in docker
  PROVE  /\ r[1] \in Build /\ r[2] \in Nat /\ r[3] \in Kind
         /\ r = <<r[1], r[2], r[3]>>
  BY DEF TypeInv, TypeOK

LEMMA HarmlessKept ==
  ASSUME NEW r, Harmless(r), excused \subseteq excused'
  PROVE  Harmless(r)'
  BY DEF Harmless

\* A build that the table does not have is clean.
LEMMA UnknownIsClean ==
  ASSUME TypeInv, OwnedInv, NEW b \in Build, table[b] = 0
  PROVE  Clean(b)
  BY DEF OwnedInv, Clean

\* Once the teardown of a build has nothing left to do, the build is clean.
LEMMA TornDownIsClean ==
  ASSUME TypeInv, TeardownInv, job # Idle, job.rm = {},
         job.method = "destroy" \/ (job.method = "provision" /\ job.raised)
  PROVE  Clean(job.build)
  BY DEF TeardownInv, Clean

LEMMA CleanKept ==
  ASSUME NEW b, Clean(b), excused \subseteq excused',
         \A r \in docker' : r[1] = b => r \in docker
  PROVE  Clean(b)'
  BY DEF Clean, Harmless

\* What a docker command does to the resources of its build and the others'.
LEMMA MakeResources ==
  ASSUME TypeInv, LinkInv, MakeStep
  PROVE  /\ job \in Job /\ table[job.build] # 0 /\ job.build \in Build
         /\ \A b \in Build : registered[b] \subseteq registered'[b]
         /\ \A r \in docker' :
              \/ r \in docker
              \/ /\ r[1] = job.build /\ r[2] = table[job.build]
                 /\ r[3] \in job.make
                 /\ r[3] \in Box => r[3] \in registered'[job.build]
  <1>1. /\ job \in Job /\ job.make # {} /\ job.build \in Build
        /\ job.make \subseteq Kind
    BY MakeFacts DEF Job
  <1>2. table[job.build] # 0
    BY <1>1, JobIsBusy DEF LinkInv, JobInv
  <1>3. PICK k \in job.make, made \in BOOLEAN, raised \in BOOLEAN :
          /\ made /\ raised => k \in {"proxy", "keyproxy"}
                                 \/ job.method = "create_service"
          /\ docker' = IF made
                       THEN docker \cup {<<job.build, table[job.build], k>>}
                       ELSE docker
          /\ registered' = IF Registers(k, made, raised)
                           THEN [registered EXCEPT ![job.build] = @ \cup {k}]
                           ELSE registered
    BY MakeFacts
  <1>4. \A b \in Build : registered[b] \subseteq registered'[b]
    BY <1>3 DEF TypeInv, TypeOK
  <1>5. made /\ k \in Box => k \in registered'[job.build]
    <2>1. k \in Box => k \notin {"proxy", "keyproxy"}
      BY BrokerAssumption
    <2>2. made /\ k \in Box => Registers(k, made, raised)
      BY <1>3, <2>1 DEF Registers
    <2>3. QED
      BY <1>1, <1>3, <2>2 DEF TypeInv, TypeOK
  <1>6. ASSUME NEW r \in docker', r \notin docker
        PROVE  /\ r[1] = job.build /\ r[2] = table[job.build]
               /\ r[3] \in job.make
               /\ r[3] \in Box => r[3] \in registered'[job.build]
    <2>1. made /\ r = <<job.build, table[job.build], k>>
      BY <1>3, <1>6
    <2>2. QED
      BY <1>3, <1>5, <2>1
  <1>7. QED
    BY <1>1, <1>2, <1>4, <1>6

\* A container that is removed in vain excuses its Broker; a network that is
\* still in use waits for one whose removal was in vain.
LEMMA RmResources ==
  ASSUME TypeInv, OwnedInv, TeardownInv, RmStep,
         job.method = "destroy" \/ (job.method = "provision" /\ job.raised)
  PROVE  \A r \in docker' : r[1] = job.build => Harmless(r)' \/ r[3] \in job'.rm
  <1> DEFINE b       == job.build
             free(j) == j \in Container \/ \A x \in Container : ~Exists(b, x)
  <1>1. job \in Job /\ job # Idle /\ b \in Build /\ job.rm \subseteq Kind
    BY RmFacts, JobIsBusy DEF Job
  <1>2. PICK k \in job.rm, gone \in BOOLEAN :
          /\ \A l \in job.rm : RmRank(k) <= RmRank(l)
          /\ docker' = IF gone THEN docker \ {<<b, table[b], k>>} ELSE docker
          /\ excused' = IF ~gone /\ Exists(b, k) /\ free(k)
                        THEN excused \cup {Current(b)} ELSE excused
          /\ job'.rm = job.rm \ {k}
    BY RmFacts
  <1>3. excused \subseteq excused'
    BY <1>2
  <1> SUFFICES ASSUME NEW r \in docker', r[1] = b, r[3] \notin job'.rm
               PROVE  Harmless(r)'
    OBVIOUS
  <1>4. r \in docker /\ r[1] \in Build /\ r[3] \in Kind /\ r = <<b, r[2], r[3]>>
    <2>1. r \in docker
      BY <1>2
    <2>2. QED
      BY <2>1, ResourceTypes
  <1>5. CASE Harmless(r)
    BY <1>3, <1>5, HarmlessKept
  <1>6. CASE ~Harmless(r)
    <2>1. r[3] \in job.rm /\ r[2] = table[b]
      BY <1>1, <1>4, <1>6 DEF TeardownInv, OwnedInv
    <2>2. r[3] = k /\ ~gone /\ Exists(b, k)
      BY <1>2, <1>4, <2>1 DEF Exists
    <2>3. CASE free(k)
      BY <1>2, <1>4, <2>1, <2>2, <2>3 DEF Harmless, Current
    <2>4. CASE ~free(k)
      <3>1. PICK x \in Container : Exists(b, x)
        BY <2>4
      <3>2. k \notin Container /\ k \in Kind
        BY <1>1, <2>4
      <3>3. x \notin job.rm
        <4>1. RmRank(k) > RmRank(x)
          <5>1. k \in {"int", "egr", "vol"} /\ RmRank(k) \in {4, 5, 6}
            BY <3>2 DEF Kind, Fixed, Container, RmRank
          <5>2. RmRank(x) \in {1, 2, 3}
            BY BrokerAssumption DEF Container, RmRank
          <5>3. QED
            BY <5>1, <5>2
        <4>2. RmRank(k) \in Nat /\ RmRank(x) \in Nat
          BY DEF RmRank
        <4>3. QED
          BY <1>2, <4>1, <4>2
      <3>4. <<b, table[b], x>> \in docker /\ x # "vol"
        BY <3>1, BrokerAssumption DEF Exists, Container
      <3>5. Harmless(<<b, table[b], x>>)
        BY <1>1, <3>3, <3>4 DEF TeardownInv
      <3>6. <<b, table[b]>> \in excused
        BY <3>4, <3>5 DEF Harmless
      <3>7. QED
        BY <1>4, <1>6, <2>1, <3>6 DEF Harmless
    <2>5. QED
      BY <2>3, <2>4
  <1>7. QED
    BY <1>5, <1>6

\* The daemon's death leaves every Broker excused or torn down.
LEMMA NobodyLeavesClean ==
  ASSUME TypeInv, CleanInv, AnswerNobody
  PROVE  \A b \in Build : Clean(b)'
  <1> SUFFICES ASSUME NEW b \in Build, NEW r \in docker, r[1] = b
               PROVE  Harmless(r)'
    BY DEF Clean, AnswerNobody
  <1>1. /\ excused \subseteq excused' /\ job # Idle /\ job.rm = {}
        /\ ~(job.method = "destroy" /\ ~job.raised /\ job.build = b)
             => Current(b) \in excused'
    BY DEF AnswerNobody
  <1>2. CASE Harmless(r)
    BY <1>1, <1>2, HarmlessKept
  <1>3. CASE ~Harmless(r)
    <2>1. r[2] = table[b]
      BY <1>3 DEF CleanInv, OwnedInv
    <2>2. ~(job.method = "destroy" /\ job.build = b)
      BY <1>1, <1>3, TornDownIsClean DEF CleanInv, Clean
    <2>3. QED
      BY <1>1, <2>1, <2>2 DEF Harmless, Current
  <1>4. QED
    BY <1>2, <1>3

LEMMA OwnedInductive ==
  ASSUME TypeInv, TypeInv', LinkInv, CleanInv, [Next]_vars
  PROVE  OwnedInv'
  <1> USE DEF CleanInv
  <1>1. CASE docker' = docker /\ table' = table /\ registered' = registered
               /\ excused \subseteq excused'
    BY <1>1, HarmlessKept DEF OwnedInv
  <1>2. CASE Accept
    <2> DEFINE c == queue[1]
    <2>1. /\ \/ AcceptProvision(c) \/ AcceptCreate(c) \/ AcceptExec(c)
             \/ AcceptDestroySandbox(c) \/ AcceptDestroy(c)
             \/ AcceptUnknownBuild(c)
          /\ c.build \in Build /\ job = Idle /\ Len(queue) \in Nat \ {0}
      BY <1>2, AcceptFacts DEF Request
    <2>2. docker' = docker /\ excused' = excused
      BY <1>2 DEF Accept
    <2>3. CASE AcceptProvision(c)
      <3>1. Clean(c.build)
        <4>1. 1 \in 1 .. Len(queue) /\ c.method = "provision"
          BY <2>1, <2>3 DEF AcceptProvision
        <4>2. ~\E j \in 1 .. 1 - 1 : TRUE
          OBVIOUS
        <4>3. QED
          BY <2>1, <4>1, <4>2 DEF ProvisionInv
      <3>2. \A b \in Build : b # c.build =>
              table'[b] = table[b] /\ registered'[b] = registered[b]
        BY <2>3 DEF AcceptProvision, TypeInv, TypeOK
      <3>3. \A r \in docker : r[1] = c.build => Harmless(r)
        BY <3>1 DEF Clean
      <3> SUFFICES ASSUME NEW r \in docker
                   PROVE  \/ Harmless(r)'
                          \/ /\ r[2] = table'[r[1]] /\ r[2] # 0
                             /\ r[3] \in Box => r[3] \in registered'[r[1]]
        BY <2>2 DEF OwnedInv
      <3>4. CASE Harmless(r)
        BY <2>2, <3>4, HarmlessKept
      <3>5. CASE ~Harmless(r)
        <4>1. r[1] \in Build /\ r[1] # c.build
          BY <3>3, <3>5, ResourceTypes
        <4>2. QED
          BY <3>2, <3>5, <4>1 DEF OwnedInv
      <3>6. QED
        BY <3>4, <3>5
    <2>4. CASE ~AcceptProvision(c)
      <3>1. table' = table /\ registered' = registered
        BY <2>1, <2>4
        DEF AcceptCreate, AcceptExec, AcceptDestroySandbox, AcceptDestroy,
            AcceptUnknownBuild, tableVars
      <3>2. QED
        BY <1>1, <2>2, <3>1
    <2>5. QED
      BY <2>3, <2>4
  <1>3. CASE MakeStep
    <2>1. table' = table /\ excused' = excused
      BY <1>3 DEF MakeStep
    <2> SUFFICES ASSUME NEW r \in docker'
                 PROVE  \/ Harmless(r)'
                        \/ /\ r[2] = table'[r[1]] /\ r[2] # 0
                           /\ r[3] \in Box => r[3] \in registered'[r[1]]
      BY DEF OwnedInv
    <2>2. CASE r \in docker
      BY <1>3, <2>1, <2>2, MakeResources, HarmlessKept, ResourceTypes DEF OwnedInv
    <2>3. CASE r \notin docker
      BY <1>3, <2>1, <2>3, MakeResources
    <2>4. QED
      BY <2>2, <2>3
  <1>4. CASE RmStep
    <2> DEFINE b       == job.build
               free(j) == j \in Container \/ \A x \in Container : ~Exists(b, x)
    <2>1. PICK k \in job.rm, gone \in BOOLEAN :
            /\ docker' = IF gone THEN docker \ {<<b, table[b], k>>} ELSE docker
            /\ excused' = IF ~gone /\ Exists(b, k) /\ free(k)
                          THEN excused \cup {Current(b)} ELSE excused
            /\ registered' = [registered EXCEPT ![b] = @ \ {k}]
      BY <1>4, RmFacts
    <2>2. table' = table /\ b \in Build /\ excused \subseteq excused'
      BY <1>4, <2>1, RmFacts DEF RmStep, Job
    <2> SUFFICES ASSUME NEW r \in docker'
                 PROVE  \/ Harmless(r)'
                        \/ /\ r[2] = table'[r[1]] /\ r[2] # 0
                           /\ r[3] \in Box => r[3] \in registered'[r[1]]
      BY DEF OwnedInv
    <2>3. r \in docker /\ r[1] \in Build /\ r = <<r[1], r[2], r[3]>>
      BY <2>1, ResourceTypes
    <2>4. CASE Harmless(r)
      BY <2>2, <2>4, HarmlessKept
    <2>5. CASE ~Harmless(r) /\ r[1] = b /\ r[3] = k /\ k \in Box
      <3>1. r = <<b, table[b], k>>
        BY <2>3, <2>5 DEF OwnedInv
      <3>2. ~gone /\ Exists(b, k) /\ free(k)
        BY <2>1, <2>3, <2>5, <3>1 DEF Exists, Container
      <3>3. QED
        BY <2>1, <3>1, <3>2 DEF Harmless, Current
    <2>6. CASE ~Harmless(r) /\ ~(r[1] = b /\ r[3] = k /\ k \in Box)
      <3>1. r[3] \in registered[r[1]] /\ r[3] \in Box =>
              r[3] \in registered'[r[1]]
        BY <2>1, <2>2, <2>3, <2>6 DEF TypeInv, TypeOK
      <3>2. QED
        BY <2>2, <2>3, <2>6, <3>1 DEF OwnedInv
    <2>7. QED
      BY <2>4, <2>5, <2>6
  <1>5. CASE Answer
    <2>1. /\ docker' = docker /\ excused' = excused /\ registered' = registered
          /\ job # Idle /\ job.rm = {} /\ job \in Job
      BY <1>5 DEF Answer, TypeInv
    <2>2. CASE job.method = "destroy" /\ ~job.raised
      <3>1. Clean(job.build)
        BY <2>1, <2>2, TornDownIsClean
      <3>2. \A a \in Build : a # job.build => table'[a] = table[a]
        BY <1>5, <2>2 DEF Answer, Served, TypeInv, TypeOK
      <3> SUFFICES ASSUME NEW r \in docker
                   PROVE  \/ Harmless(r)'
                          \/ /\ r[2] = table'[r[1]] /\ r[2] # 0
                             /\ r[3] \in Box => r[3] \in registered'[r[1]]
        BY <2>1 DEF OwnedInv
      <3>3. CASE Harmless(r)
        BY <2>1, <3>3, HarmlessKept
      <3>4. CASE ~Harmless(r)
        <4>1. r[1] # job.build /\ r[1] \in Build
          BY <3>1, <3>4, ResourceTypes DEF Clean
        <4>2. QED
          BY <2>1, <3>2, <3>4, <4>1 DEF OwnedInv
      <3>5. QED
        BY <3>3, <3>4
    <2>3. CASE ~(job.method = "destroy" /\ ~job.raised)
      <3>1. table' = table
        BY <1>5, <2>3 DEF Answer, Served
      <3>2. QED
        BY <1>1, <2>1, <3>1
    <2>4. QED
      BY <2>2, <2>3
  <1>6. CASE AnswerNobody
    <2> SUFFICES ASSUME NEW r \in docker' PROVE Harmless(r)'
      BY DEF OwnedInv
    <2>1. r[1] \in Build
      BY <1>6, ResourceTypes DEF AnswerNobody
    <2>2. QED
      BY <1>6, <2>1, NobodyLeavesClean DEF Clean
  <1>7. QED
    BY <1>1, <1>2, <1>3, <1>4, <1>5, <1>6
    DEF Next, DaemonStep, ClientStep, ProvisionCall, GraphCall, Finish,
        DestroyCall, Refused, GiveUp, Kill, NewProcess, Restart, vars,
        daemonVars, tableVars

LEMMA TeardownInductive ==
  ASSUME TypeInv, TypeInv', LinkInv, CleanInv, [Next]_vars
  PROVE  TeardownInv'
  <1> USE DEF CleanInv
  <1>1. CASE /\ docker' = docker /\ excused \subseteq excused'
             /\ job' # Idle =>
                  /\ job # Idle /\ job'.build = job.build /\ job'.rm = job.rm
                  /\ job'.method = job.method /\ job'.raised = job.raised
    BY <1>1, HarmlessKept DEF TeardownInv
  <1>2. CASE Accept
    <2> DEFINE c == queue[1]
    <2>1. /\ \/ AcceptProvision(c) \/ AcceptCreate(c) \/ AcceptExec(c)
             \/ AcceptDestroySandbox(c) \/ AcceptDestroy(c)
             \/ AcceptUnknownBuild(c)
          /\ c.build \in Build
          /\ job'.build = c.build /\ job'.method = c.method
      BY <1>2, AcceptFacts DEF Request
    <2>2. docker' = docker /\ excused' = excused
      BY <1>2 DEF Accept
    <2> HIDE DEF c
    <2> SUFFICES ASSUME \/ job'.method = "destroy"
                        \/ job'.method = "provision" /\ job'.raised,
                        NEW r \in docker, r[1] = c.build, ~Harmless(r)
                 PROVE  r[3] \in job'.rm
      BY <2>1, <2>2, HarmlessKept DEF TeardownInv
    <2>3. r[2] = table[c.build] /\ r[2] # 0
          /\ (r[3] \in Box => r[3] \in registered[c.build]) /\ r[3] \in Kind
      BY ResourceTypes DEF OwnedInv
    <2>4. CASE AcceptProvision(c)
      BY <2>1, <2>4 DEF AcceptProvision, Serve
    <2>5. CASE AcceptDestroy(c)
      <3>1. job'.rm = Teardown(c.build)
        BY <2>5 DEF AcceptDestroy, Serve
      <3>2. ~(r[3] = "vol" /\ SharedCache)
        BY DEF Harmless
      <3>3. QED
        BY <2>1, <2>3, <3>1, <3>2, TeardownFacts
    <2>6. CASE ~AcceptProvision(c) /\ ~AcceptDestroy(c)
      BY <2>1, <2>3, <2>6
      DEF AcceptCreate, AcceptExec, AcceptDestroySandbox, AcceptUnknownBuild
    <2>7. QED
      BY <2>4, <2>5, <2>6
  <1>3. CASE MakeStep
    <2>1. /\ job \in Job /\ job # Idle /\ job'.build = job.build
          /\ job'.method = job.method /\ job.make # {} /\ job.build \in Build
      BY <1>3, MakeFacts, JobIsBusy DEF Job
    <2>2. job.method # "destroy" /\ ~job.raised
      BY <2>1 DEF LinkInv, JobInv, Creates
    <2>3. excused' = excused
      BY <1>3 DEF MakeStep
    <2> SUFFICES ASSUME job.method = "provision", job'.raised,
                        NEW r \in docker', r[1] = job.build, ~Harmless(r)
                 PROVE  r[3] \in job'.rm
      BY <2>1, <2>2, <2>3, HarmlessKept DEF TeardownInv
    <2>4. job'.rm = Teardown(job.build)
      BY <1>3, <2>2, MakeFacts
    <2>5. ~(r[3] = "vol" /\ SharedCache)
      BY DEF Harmless
    <2>6. CASE r \in docker
      <3>1. r[3] \in Kind /\ (r[3] \in Box => r[3] \in registered[job.build])
        BY <2>6, ResourceTypes DEF OwnedInv
      <3>2. QED
        BY <2>1, <2>4, <2>5, <3>1, TeardownFacts
    <2>7. CASE r \notin docker
      <3>1. r[3] \in job.make
        BY <1>3, <2>7, MakeResources
      <3>2. r[3] \in Fixed
        BY <2>1, <3>1 DEF LinkInv, JobInv
      <3>3. QED
        BY <2>4, <2>5, <3>2 DEF Teardown
    <2>8. QED
      BY <2>6, <2>7
  <1>4. CASE RmStep
    <2>1. /\ job \in Job /\ job # Idle /\ job'.build = job.build
          /\ job'.method = job.method /\ job'.raised = job.raised
      BY <1>4, RmFacts, JobIsBusy
    <2>2. QED
      BY <1>4, <2>1, RmResources DEF TeardownInv
  <1>5. CASE Answer \/ AnswerNobody
    BY <1>5 DEF Answer, AnswerNobody, TeardownInv
  <1>6. CASE \E b \in Build : GiveUp(b) \/ Kill(b)
    <2>1. PICK b \in Build : HangUp(b)
      BY <1>6 DEF GiveUp, Kill
    <2>2. docker' = docker /\ excused \subseteq excused'
      BY <1>6 DEF GiveUp, Kill
    <2>3. /\ job' = Idle <=> job = Idle
          /\ job' = IF job # Idle /\ job.build = b
                    THEN [job EXCEPT !.open = FALSE] ELSE job
      BY <2>1, HangUpFacts
    <2>4. job # Idle =>
            /\ job'.build = job.build /\ job'.rm = job.rm
            /\ job'.method = job.method /\ job'.raised = job.raised
      BY <2>3 DEF TypeInv, Job
    <2>5. QED
      BY <1>1, <2>2, <2>3, <2>4
  <1>7. CASE UNCHANGED <<docker, job, excused>>
    BY <1>1, <1>7
  <1>8. QED
    BY <1>2, <1>3, <1>4, <1>5, <1>6, <1>7
    DEF Next, DaemonStep, ClientStep, ProvisionCall, GraphCall, Finish,
        DestroyCall, Refused, NewProcess, Restart, vars, daemonVars

\* A request is still ahead of a client that gives up or is killed.
LEMMA HungUpIsOrphan ==
  ASSUME TypeInv, TypeInv', NEW b \in Build, HangUp(b), Connected(b)
  PROVE  Orphaned(b)'
  <1>1. PICK s \in Pending : s.build = b /\ s.open
    BY ConnectedFacts
  <1>2. PICK r \in Pending' : r.build = s.build /\ (r.open <=> s.open /\ s.build # b)
    BY HungUp
  <1>3. QED
    BY <1>1, <1>2, ConnectedFactsPrime

\* The request that is served for a client that waits for nothing is orphaned.
LEMMA ServedIsOrphan ==
  ASSUME TypeInv, RequestsInv, NEW b \in Build, wait[b] = "none",
         job # Idle, job.build = b
  PROVE  ~job.open
  <1>1. Wire(job) \in Pending
    BY DEF Pending
  <1>2. Wire(job).build = job.build /\ Wire(job).open = job.open
    BY DEF Wire
  <1>3. QED
    BY <1>1, <1>2, SilentIsClosed

LEMMA RestKept ==
  ASSUME RestInv, NEW b \in Build,
         pc'[b] \in {"new", "done", "killed"} => pc[b] \in {"new", "done", "killed"},
         Orphaned(b) => Orphaned(b)',
         job # Idle /\ job.build = b => job' # Idle /\ job'.build = b,
         excused \subseteq excused',
         \A r \in docker' : r[1] = b => r \in docker,
         pc'[b] \in {"new", "done", "killed"}, ~Orphaned(b)',
         ~(job' # Idle /\ job'.build = b)
  PROVE  Clean(b)'
  <1>1. Clean(b)
    BY DEF RestInv
  <1>2. QED
    BY <1>1, CleanKept

LEMMA RestInductive ==
  ASSUME TypeInv, TypeInv', LinkInv, CleanInv, [Next]_vars
  PROVE  RestInv'
  <1> USE DEF CleanInv
  <1> SUFFICES ASSUME NEW b \in Build, pc'[b] \in {"new", "done", "killed"},
                      ~Orphaned(b)', ~(job' # Idle /\ job'.build = b)
               PROVE  Clean(b)'
    BY DEF RestInv
  <1>1. CASE Accept
    <2>1. UNCHANGED <<pc, docker, excused>> /\ job = Idle
      BY <1>1 DEF Accept, clientVars
    <2>2. Orphaned(b)' <=> Orphaned(b)
      BY <1>1, PendingAccept, ConnectedFrame
    <2>3. QED
      BY <2>1, <2>2, RestKept
  <1>2. CASE MakeStep
    <2>1. pc' = pc /\ excused' = excused /\ job' # Idle /\ job'.build = job.build
      BY <1>2, PendingJob, MakeFacts DEF MakeStep, clientVars
    <2>2. Orphaned(b)' <=> Orphaned(b)
      BY <1>2, PendingJob, ConnectedFrame
    <2>3. \A r \in docker' : r[1] = b => r \in docker
      BY <1>2, <2>1, MakeResources
    <2>4. QED
      BY <2>1, <2>2, <2>3, RestKept
  <1>3. CASE RmStep
    <2>1. pc' = pc /\ excused \subseteq excused' /\ job' # Idle
          /\ job'.build = job.build /\ docker' \subseteq docker
      BY <1>3, PendingJob, RmFacts DEF RmStep, clientVars
    <2>2. Orphaned(b)' <=> Orphaned(b)
      BY <1>3, PendingJob, ConnectedFrame
    <2>3. QED
      BY <2>1, <2>2, RestKept
  <1>4. CASE Answer
    <2>1. /\ job # Idle /\ job \in Job /\ job.rm = {}
          /\ docker' = docker /\ excused' = excused
      BY <1>4 DEF Answer, TypeInv
    <2>2. PICK c \in Build, m \in Method, x \in Box \cup {"none"} :
            c = job.build /\ m = job.method /\ x = job.box
      BY <2>1 DEF Job
    <2>3. CASE c = b
      <3>1. \/ m = "destroy"
            \/ m = "provision" /\ job.raised
        <4>1. CASE job.raised
          <5>1. Returns(c, m, FALSE, x)
            BY <1>4, <2>2, <4>1 DEF Answer, Returns
          <5>2. m \notin {"destroy", "provision"} => pc'[c] \in {"ready", "closing"}
            BY <5>1, ReturnsFacts
          <5>3. QED
            BY <2>3, <4>1, <5>2
        <4>2. CASE ~job.raised
          <5>1. Returns(c, m, TRUE, x) /\ (m \in Creates => x \in Box)
            BY <1>4, <2>1, <2>2, <4>2 DEF Answer, Returns, Job
          <5>2. /\ m = "provision" => pc'[c] = "ready"
                /\ m \notin {"destroy", "provision"} => pc'[c] \in {"ready", "closing"}
            BY <5>1, ReturnsFacts
          <5>3. QED
            BY <2>3, <4>2, <5>2
        <4>3. QED
          BY <4>1, <4>2
      <3>2. Clean(job.build)
        BY <2>1, <2>2, <3>1, TornDownIsClean
      <3>3. QED
        BY <2>1, <2>2, <2>3, <3>2, CleanKept
    <2>4. CASE c # b
      <3>1. pc'[b] = pc[b]
        <4>1. CASE job.raised
          <5>1. Returns(c, m, FALSE, x)
            BY <1>4, <2>2, <4>1 DEF Answer, Returns
          <5>2. QED
            BY <2>4, <5>1, ReturnsFacts
        <4>2. CASE ~job.raised
          <5>1. Returns(c, m, TRUE, x) /\ (m \in Creates => x \in Box)
            BY <1>4, <2>1, <2>2, <4>2 DEF Answer, Returns, Job
          <5>2. QED
            BY <2>4, <5>1, ReturnsFacts
        <4>3. QED
          BY <4>1, <4>2
      <3>2. Orphaned(b)' <=> Orphaned(b)
        BY <1>4, <2>2, <2>4, ConnectedAnswer DEF LinkInv
      <3>3. QED
        BY <2>1, <2>2, <2>4, <3>1, <3>2, RestKept
    <2>5. QED
      BY <2>3, <2>4
  <1>5. CASE AnswerNobody
    BY <1>5, NobodyLeavesClean
  <1>6. ASSUME NEW a \in Build,
               ProvisionCall(a) \/ GraphCall(a) \/ DestroyCall(a)
        PROVE  Clean(b)'
    <2>1. UNCHANGED <<pc, excused, job, docker>>
      BY <1>6 DEF ProvisionCall, GraphCall, DestroyCall
    <2>2. PICK m \in Method, x \in Box \cup {"none"} :
            Call(a, m, x) /\ (m \in Creates => x \in Box)
      <3>1. CASE GraphCall(a)
        BY <3>1, GraphCallFacts
      <3>2. CASE ~GraphCall(a)
        BY <1>6, <3>2 DEF ProvisionCall, DestroyCall, Method, Creates
      <3>3. QED
        BY <3>1, <3>2
    <2>3. Pending' = Pending \cup {Connection(a, m, x)}
      BY <2>1, <2>2, PendingCall
    <2>4. Orphaned(b)' <=> Orphaned(b)
      BY <2>3, ConnectedCall
    <2>5. QED
      BY <2>1, <2>4, RestKept
  <1>7. ASSUME NEW a \in Build, Refused(a) PROVE Clean(b)'
    <2>1. UNCHANGED <<queue, job, table, docker, excused>>
      BY <1>7, RefusedIsSilent, ErrorFacts DEF tableVars, LinkInv
    <2>2. Orphaned(b)' <=> Orphaned(b)
      BY <2>1, PendingFrame, ConnectedFrame
    <2>3. CASE a = b
      <3>1. table[b] = 0
        BY <1>7, <2>3 DEF Refused, LinkInv, DownInv, ClientInv, ClientOK
      <3>2. Clean(b)
        BY <3>1, UnknownIsClean
      <3>3. QED
        BY <2>1, <3>2, CleanKept
    <2>4. CASE a # b
      <3>1. pc'[b] = pc[b]
        BY <1>7, <2>4, ErrorFacts DEF LinkInv
      <3>2. QED
        BY <2>1, <2>2, <3>1, RestKept
    <2>5. QED
      BY <2>3, <2>4
  <1>8. ASSUME NEW a \in Build, GiveUp(a) \/ Kill(a) PROVE Clean(b)'
    <2>1. HangUp(a) /\ docker' = docker /\ excused \subseteq excused'
      BY <1>8 DEF GiveUp, Kill
    <2>2. /\ a # b => (Orphaned(b)' <=> Orphaned(b))
          /\ a = b => ~Connected(b)
      BY <2>1, ConnectedHungUp, HungUpIsOrphan
    <2>3. job # Idle /\ job.build = b => job' # Idle /\ job'.build = b
      BY <2>1, HangUpFacts DEF TypeInv, Job
    <2>4. CASE a = b
      <3>1. excused' = excused \cup {<<b, gen[b]>>}
        BY <1>8, <2>2, <2>4 DEF GiveUp, Kill
      <3>2. table[b] \in {0, gen[b]}
        BY DEF LinkInv, ClientInv, ClientOK
      <3>3. ASSUME NEW r \in docker, r[1] = b PROVE Harmless(r)'
        <4>1. CASE Harmless(r)
          BY <2>1, <4>1, HarmlessKept
        <4>2. CASE ~Harmless(r)
          BY <3>1, <3>2, <3>3, <4>2 DEF OwnedInv, Harmless
        <4>3. QED
          BY <4>1, <4>2
      <3>4. QED
        BY <2>1, <3>3 DEF Clean
    <2>5. CASE a # b
      <3>1. pc'[b] = pc[b]
        <4>1. CASE GiveUp(a)
          BY <4>1, <2>5, ErrorFacts DEF LinkInv
        <4>2. CASE Kill(a)
          BY <4>2, <2>5 DEF Kill, TypeInv, TypeOK
        <4>3. QED
          BY <1>8, <4>1, <4>2
      <3>2. QED
        BY <2>1, <2>2, <2>3, <2>5, <3>1, RestKept
    <2>6. QED
      BY <2>4, <2>5
  <1>9. CASE Restart \/ (\E a \in Build : Finish(a) \/ NewProcess(a))
          \/ UNCHANGED vars
    <2>1. /\ UNCHANGED <<queue, job, docker, excused>>
          /\ pc[b] \in {"new", "done", "killed"}
      BY <1>9
      DEF Restart, Finish, NewProcess, vars, daemonVars, clientVars,
          TypeInv, TypeOK
    <2>2. Orphaned(b)' <=> Orphaned(b)
      BY <2>1, PendingFrame, ConnectedFrame
    <2>3. QED
      BY <2>1, <2>2, RestKept
  <1>10. QED
    BY <1>1, <1>2, <1>3, <1>4, <1>5, <1>6, <1>7, <1>8, <1>9
    DEF Next, DaemonStep, ClientStep

LEMMA ProvisionInductive ==
  ASSUME TypeInv, TypeInv', LinkInv, CleanInv, [Next]_vars
  PROVE  ProvisionInv'
  <1> USE DEF CleanInv
  <1>0. Len(queue) \in Nat /\ \A i \in 1 .. Len(queue) : queue[i] \in Request
    BY ElementOfSeq DEF TypeInv
  <1>1. ASSUME UNCHANGED <<queue, job>>, docker' = docker, excused \subseteq excused'
        PROVE  ProvisionInv'
    BY <1>1, CleanKept DEF ProvisionInv
  <1>2. CASE Accept
    <2>1. /\ Len(queue) \in Nat \ {0} /\ Len(queue') = Len(queue) - 1
          /\ \A i \in 1 .. Len(queue') : queue'[i] = queue[i + 1]
          /\ job = Idle /\ job' # Idle
          /\ job'.build = queue[1].build /\ job'.open = queue[1].open
      BY <1>2, AcceptFacts, JobIsBusy
    <2>2. docker' = docker /\ excused' = excused
      BY <1>2 DEF Accept
    <2> SUFFICES ASSUME NEW i \in 1 .. Len(queue'), queue'[i].method = "provision",
                        NEW c, c = queue'[i].build
                 PROVE  \/ Clean(c)'
                        \/ job' # Idle /\ job'.build = c /\ ~job'.open
                        \/ \E j \in 1 .. i - 1 :
                             queue'[j].build = c /\ ~queue'[j].open
      BY DEF ProvisionInv
    <2>3. i + 1 \in 1 .. Len(queue)
      BY <2>1
    <2>4. c = queue[i + 1].build /\ queue[i + 1].method = "provision"
      BY <2>1
    <2>5. \/ Clean(c)
          \/ \E j \in 1 .. (i + 1) - 1 : queue[j].build = c /\ ~queue[j].open
      BY <2>1, <2>3, <2>4 DEF ProvisionInv
    <2>6. CASE Clean(c)
      BY <2>2, <2>6, CleanKept
    <2>7. ASSUME NEW j \in 1 .. (i + 1) - 1, queue[j].build = c, ~queue[j].open
          PROVE  \/ job'.build = c /\ ~job'.open
                 \/ \E l \in 1 .. i - 1 : queue'[l].build = c /\ ~queue'[l].open
      <3>1. CASE j = 1
        BY <2>1, <2>7, <3>1
      <3>2. CASE j # 1
        <4>1. j - 1 \in 1 .. i - 1 /\ j - 1 \in 1 .. Len(queue') /\ (j - 1) + 1 = j
          BY <2>1, <3>2
        <4>2. queue'[j - 1] = queue[j]
          BY <2>1, <4>1
        <4>3. QED
          BY <2>7, <4>1, <4>2
      <3>3. QED
        BY <3>1, <3>2
    <2>8. QED
      BY <2>1, <2>5, <2>6, <2>7
  <1>3. CASE MakeStep \/ RmStep
    <2>1. /\ job # Idle /\ job' # Idle /\ queue' = queue
          /\ job'.build = job.build /\ job'.open = job.open
          /\ excused \subseteq excused'
      BY <1>3, PendingJob, MakeFacts, RmFacts DEF MakeStep
    <2>2. \A r \in docker' : r[1] # job.build => r \in docker
      BY <1>3, MakeResources, RmFacts
    <2> SUFFICES ASSUME NEW i \in 1 .. Len(queue), queue[i].method = "provision",
                        ~(job.build = queue[i].build /\ ~job.open),
                        NEW c, c = queue[i].build, Clean(c)
                 PROVE  Clean(c)'
      BY <2>1 DEF ProvisionInv
    <2>3. job.build # c
      BY <2>1 DEF LinkInv, OpenLast
    <2>4. QED
      BY <2>1, <2>2, <2>3, CleanKept
  <1>4. CASE Answer
    <2>1. /\ queue' = queue /\ docker' = docker /\ excused' = excused
          /\ job.open
      BY <1>4 DEF Answer
    <2>2. QED
      BY <2>1, CleanKept DEF ProvisionInv
  <1>5. CASE AnswerNobody
    BY <1>5 DEF AnswerNobody, ProvisionInv
  <1>6. ASSUME NEW b \in Build,
               ProvisionCall(b) \/ GraphCall(b) \/ DestroyCall(b)
        PROVE  ProvisionInv'
    <2>1. UNCHANGED <<job, docker, excused>> /\ wait[b] = "none"
      BY <1>6 DEF ProvisionCall, GraphCall, DestroyCall
    <2>2. PICK m \in Method, x \in Box \cup {"none"} :
            /\ Call(b, m, x) /\ (m \in Creates => x \in Box)
            /\ m = "provision" => pc[b] = "new"
      <3>1. CASE GraphCall(b)
        BY <3>1, GraphCallFacts
      <3>2. CASE ~GraphCall(b)
        BY <1>6, <3>2 DEF ProvisionCall, DestroyCall, Method, Creates
      <3>3. QED
        BY <3>1, <3>2
    <2>3. /\ Len(queue') = Len(queue) + 1
          /\ \A i \in 1 .. Len(queue) : queue'[i] = queue[i]
          /\ queue'[Len(queue) + 1] = Connection(b, m, x)
      BY <2>2, CallFacts
    <2>4. Connection(b, m, x).build = b /\ Connection(b, m, x).method = m
      BY DEF Connection
    <2> SUFFICES ASSUME NEW i \in 1 .. Len(queue'), queue'[i].method = "provision",
                        NEW c, c = queue'[i].build
                 PROVE  \/ Clean(c)'
                        \/ job # Idle /\ job.build = c /\ ~job.open
                        \/ \E j \in 1 .. i - 1 :
                             queue'[j].build = c /\ ~queue'[j].open
      BY <2>1 DEF ProvisionInv
    <2>6. CASE i \in 1 .. Len(queue)
      <3>1. queue'[i] = queue[i]
            /\ \A j \in 1 .. i - 1 : queue'[j] = queue[j]
        BY <1>0, <2>3, <2>6
      <3>2. \/ Clean(c)
            \/ job # Idle /\ job.build = c /\ ~job.open
            \/ \E j \in 1 .. i - 1 : queue[j].build = c /\ ~queue[j].open
        BY <2>6, <3>1 DEF ProvisionInv
      <3>3. Clean(c) => Clean(c)'
        BY <2>1, CleanKept
      <3>4. QED
        BY <3>1, <3>2, <3>3
    <2>7. CASE i = Len(queue) + 1
      <3>1. c = b /\ pc[b] = "new"
        BY <2>2, <2>3, <2>4, <2>7
      <3>2. CASE Orphaned(b)
        <4>1. \/ job # Idle /\ job.build = b /\ ~job.open
              \/ \E j \in 1 .. Len(queue) : queue[j].build = b /\ ~queue[j].open
          BY <3>2 DEF Orphaned, TypeInv
        <4>2. \A j \in 1 .. Len(queue) : j \in 1 .. i - 1 /\ queue'[j] = queue[j]
          BY <1>0, <2>3, <2>7
        <4>3. QED
          BY <3>1, <4>1, <4>2
      <3>3. CASE ~Orphaned(b)
        <4>1. ~(job # Idle /\ job.build = b)
          BY <2>1, <3>3, ServedIsOrphan DEF Orphaned, LinkInv
        <4>2. Clean(b)
          BY <3>1, <3>3, <4>1 DEF RestInv
        <4>3. QED
          BY <2>1, <3>1, <4>2, CleanKept
      <3>4. QED
        BY <3>2, <3>3
    <2>8. i \in 1 .. Len(queue) \/ i = Len(queue) + 1
      BY <1>0, <2>3
    <2>9. QED
      BY <2>6, <2>7, <2>8
  <1>7. ASSUME NEW b \in Build, GiveUp(b) \/ Kill(b) PROVE ProvisionInv'
    <2>1. HangUp(b) /\ docker' = docker /\ excused \subseteq excused'
      BY <1>7 DEF GiveUp, Kill
    <2>2. /\ Len(queue') = Len(queue)
          /\ \A i \in 1 .. Len(queue) :
               queue'[i] = IF queue[i].build = b
                           THEN [queue[i] EXCEPT !.open = FALSE] ELSE queue[i]
          /\ job' = IF job # Idle /\ job.build = b
                    THEN [job EXCEPT !.open = FALSE] ELSE job
          /\ job' = Idle <=> job = Idle
      BY <2>1, HangUpFacts
    <2>3. \A i \in 1 .. Len(queue) :
            /\ queue'[i].build = queue[i].build
            /\ queue'[i].method = queue[i].method
            /\ ~queue[i].open => ~queue'[i].open
      BY <1>0, <2>2 DEF Request
    <2>4. job # Idle => job'.build = job.build /\ (~job.open => ~job'.open)
      BY <2>2 DEF TypeInv, Job
    <2> SUFFICES ASSUME NEW i \in 1 .. Len(queue), queue[i].method = "provision",
                        NEW c, c = queue[i].build
                 PROVE  \/ Clean(c)'
                        \/ job' # Idle /\ job'.build = c /\ ~job'.open
                        \/ \E j \in 1 .. i - 1 :
                             queue'[j].build = c /\ ~queue'[j].open
      BY <2>2, <2>3 DEF ProvisionInv
    <2>5. \A j \in 1 .. i - 1 : j \in 1 .. Len(queue)
      BY <1>0
    <2>6. CASE Clean(c)
      BY <2>1, <2>6, CleanKept
    <2>7. CASE job # Idle /\ job.build = c /\ ~job.open
      BY <2>2, <2>4, <2>7
    <2>8. CASE \E j \in 1 .. i - 1 : queue[j].build = c /\ ~queue[j].open
      BY <2>3, <2>5, <2>8
    <2>9. QED
      BY <2>6, <2>7, <2>8 DEF ProvisionInv
  <1>8. QED
    BY <1>1, <1>2, <1>3, <1>4, <1>5, <1>6, <1>7
    DEF Next, DaemonStep, ClientStep, Finish, Refused, NewProcess, Restart,
        vars, daemonVars

LEMMA InitCleanInv == Init => CleanInv
  BY DEF Init, CleanInv, OwnedInv, TeardownInv, RestInv, ProvisionInv, Clean

LEMMA CleanInductive ==
  TypeInv /\ TypeInv' /\ LinkInv /\ CleanInv /\ [Next]_vars => CleanInv'
  BY OwnedInductive, TeardownInductive, RestInductive, ProvisionInductive
  DEF CleanInv

\* A build whose client is through and that no request is pending for has
\* nothing left in docker but the shared cache and what is excused.
LEMMA RestIsClean ==
  TypeInv /\ LinkInv /\ CleanInv => NothingLeftBehind
  <1> SUFFICES ASSUME TypeInv, LinkInv, CleanInv, NEW r \in docker,
                      pc[r[1]] = "done", ~Orphaned(r[1]),
                      <<r[1], r[2]>> \notin excused
               PROVE  r[3] = "vol" /\ SharedCache
    BY DEF NothingLeftBehind
  <1>1. PICK b \in Build : b = r[1]
    BY ResourceTypes
  <1>2. wait[b] = "none"
    BY <1>1 DEF LinkInv, ClientInv, ClientOK, GraphMethod, TypeInv, TypeOK
  <1>3. ~(job # Idle /\ job.build = b)
    BY <1>1, <1>2, ServedIsOrphan DEF Orphaned, LinkInv
  <1>4. Clean(b)
    BY <1>1, <1>3 DEF CleanInv, RestInv
  <1>5. QED
    BY <1>1, <1>4 DEF Clean, Harmless

\* However far a provision came and whichever command failed, gave up or was
\* cut off: what was made for a build is gone when its client is through,
\* except for what is excused.
THEOREM NothingEverLeftBehind == Spec => []NothingLeftBehind
  <1>1. Spec => [](TypeInv /\ LinkInv)
    BY LinkInvariance
  <1>2. TypeInv /\ LinkInv /\ TypeInv' /\ CleanInv /\ [Next]_vars => CleanInv'
    BY CleanInductive
  <1>3. TypeInv /\ LinkInv /\ CleanInv => NothingLeftBehind
    BY RestIsClean
  <1>4. QED
    BY <1>1, <1>2, <1>3, InitCleanInv, PTL DEF Spec
=============================================================================

------------------------------- MODULE Broker -------------------------------
(***************************************************************************)
(* The sandbox broker: the daemon that alone drives docker (daemon.py,     *)
(* rpc.py), the Broker it keeps for each build (broker.py), and the client *)
(* of each build (client.py), which core.py's processes use.               *)
(*                                                                         *)
(* The daemon is single-threaded: it takes one connection at a time, runs  *)
(* the docker commands of its request one after the other and answers.     *)
(* The interleaving is with the clients, who may give up, be killed and    *)
(* come back while the daemon still works for them.                        *)
(*                                                                         *)
(* A resource is <<build, n, kind>>: n counts the Brokers made for the     *)
(* build (each draws random names of its own), kind is one of the fixed    *)
(* ones or a container that create or create_service started.  What        *)
(* proxy_log, audit and service_ip read changes nothing; service_ip is     *)
(* like exec here, the other two are left out.                             *)
(***************************************************************************)
EXTENDS Integers, Sequences

CONSTANTS
  Build,
  Box,           \* containers that create and create_service may start
  KeyProxy,      \* cfg.keyproxy_upstream is set
  SharedCache,   \* cfg.uv_cache_shared
  MaxCalls,      \* bound: calls of one client between provision and destroy
  MaxProvisions, \* bound: no new process once a build has had so many Brokers
  MaxFaults      \* bound: failed commands, give-ups and kills

ASSUME BrokerAssumption ==
  /\ KeyProxy \in BOOLEAN /\ SharedCache \in BOOLEAN
  /\ MaxCalls \in Nat /\ MaxProvisions \in Nat /\ MaxFaults \in Nat
  /\ Box \cap {"int", "egr", "vol", "proxy", "keyproxy", "none"} = {}

Fixed     == {"int", "egr", "vol", "proxy", "keyproxy"}
Container == {"proxy", "keyproxy"} \cup Box
Kind      == Fixed \cup Box

VARIABLES
  \* --- the daemon ---------------------------------------------------------
  up,           \* its process runs
  table,        \* _brokers: which Broker of a build is current; 0 for none
  gen,          \* Brokers made for a build
  provisioned,  \* _provisioned of the current Broker
  registered,   \* _sandboxes of the current Broker
  queue,        \* connections that wait for accept
  job,          \* the request being served, or Idle
  docker,       \* the resources that exist
  \* --- the clients --------------------------------------------------------
  pc,           \* "new", "ready", "closing", "done" or "killed"
  wait,         \* the method a client waits for, or "none"
  held,         \* its RemoteSandbox handles that are alive
  calls,
  \* --- observation --------------------------------------------------------
  faults,
  excused       \* Brokers whose removal something outside the daemon prevented

tableVars  == <<table, gen, provisioned, registered>>
daemonVars == <<up, tableVars, queue, job>>
clientVars == <<pc, wait, held, calls>>
vars == <<daemonVars, docker, clientVars, faults, excused>>

Method == {"provision", "create", "create_service", "exec",
           "destroy_sandbox", "destroy"}

Idle == [build |-> "none", method |-> "none", box |-> "none",
         open |-> FALSE, raised |-> FALSE, make |-> {}, rm |-> {}]

Init ==
  /\ up = TRUE
  /\ table = [b \in Build |-> 0] /\ gen = [b \in Build |-> 0]
  /\ provisioned = [b \in Build |-> FALSE]
  /\ registered = [b \in Build |-> {}]
  /\ queue = <<>> /\ job = Idle /\ docker = {}
  /\ pc = [b \in Build |-> "new"] /\ wait = [b \in Build |-> "none"]
  /\ held = [b \in Build |-> {}] /\ calls = [b \in Build |-> 0]
  /\ faults = 0 /\ excused = {}

Fault == faults < MaxFaults /\ faults' = faults + 1

Current(b)   == <<b, table[b]>>
Exists(b, k) == <<b, table[b], k>> \in docker

-----------------------------------------------------------------------------
(* The client: RemoteBroker and rpc.call                                    *)

Connection(b, m, x) == [build |-> b, method |-> m, box |-> x, open |-> TRUE]

Connected(b) ==
  \/ job # Idle /\ job.build = b /\ job.open
  \/ \E i \in DOMAIN queue : queue[i].build = b /\ queue[i].open

\* A request that its client no longer waits for.
Orphaned(b) ==
  \/ job # Idle /\ job.build = b /\ ~job.open
  \/ \E i \in DOMAIN queue : queue[i].build = b /\ ~queue[i].open

\* A call is sent, or there is no daemon to connect to within the retries.
Call(b, m, x) ==
  /\ up
  /\ queue' = Append(queue, Connection(b, m, x))
  /\ wait' = [wait EXCEPT ![b] = m]

\* What becomes of the client that gets the answer or the error of method m;
\* an error of create, exec and the others ends the build or is handled.  After
\* a failed provision build_poc still asks for a destroy; template_ci and the
\* security demo leave it to the daemon.
Returns(b, m, ok, x) ==
  /\ wait' = [wait EXCEPT ![b] = "none"]
  /\ \E next \in CASE m = "destroy"   -> {"done"}
                   [] m = "provision" -> IF ok THEN {"ready"}
                                         ELSE {"closing", "done"}
                   [] OTHER           -> IF ok THEN {"ready"}
                                         ELSE {"ready", "closing"} :
       pc' = [pc EXCEPT ![b] = next]
  /\ held' = IF ok /\ m \in {"create", "create_service"}
             THEN [held EXCEPT ![b] = @ \cup {x}] ELSE held

\* build_poc, resume_build, refine_build, template_ci and security_demo:
\* provision, the calls in between, and destroy on every way out of them.
ProvisionCall(b) ==
  /\ pc[b] = "new" /\ wait[b] = "none"
  /\ Call(b, "provision", "none")
  /\ UNCHANGED <<up, tableVars, job, docker, pc, held, calls, faults, excused>>

\* create and create_service draw a name, exec and destroy_sandbox use one;
\* a destroyed handle is not used again.
GraphCall(b) ==
  /\ pc[b] = "ready" /\ wait[b] = "none" /\ calls[b] < MaxCalls
  /\ calls' = [calls EXCEPT ![b] = @ + 1]
  /\ \/ \E m \in {"create", "create_service"}, x \in Box :
          /\ <<b, gen[b], x>> \notin docker /\ x \notin registered[b]
          /\ Call(b, m, x) /\ UNCHANGED held
     \/ \E x \in held[b] : Call(b, "exec", x) /\ UNCHANGED held
     \/ \E x \in held[b] : /\ Call(b, "destroy_sandbox", x)
                           /\ held' = [held EXCEPT ![b] = @ \ {x}]
  /\ UNCHANGED <<up, tableVars, job, docker, pc, faults, excused>>

Finish(b) ==
  /\ pc[b] = "ready" /\ wait[b] = "none"
  /\ pc' = [pc EXCEPT ![b] = "closing"]
  /\ UNCHANGED <<daemonVars, docker, wait, held, calls, faults, excused>>

DestroyCall(b) ==
  /\ pc[b] = "closing" /\ wait[b] = "none"
  /\ Call(b, "destroy", "none")
  /\ UNCHANGED <<up, tableVars, job, docker, pc, held, calls, faults, excused>>

\* (wrong form: the connection is retried without a deadline)
Refused_Retries(b) ==
  /\ wait[b] # "none" /\ ~Connected(b)
  /\ Returns(b, wait[b], FALSE, "none")
  /\ UNCHANGED <<daemonVars, docker, calls, faults, excused>>

\* An error without an answer: nobody listens for as long as rpc.call retries,
\* or the daemon went away with the connection.  RemoteBroker.destroy swallows
\* it.
Refused(b) ==
  /\ \/ ~up /\ wait[b] = "none" /\ pc[b] = "new"
          /\ Returns(b, "provision", FALSE, "none")
     \/ ~up /\ wait[b] = "none" /\ pc[b] = "ready" /\ calls[b] < MaxCalls
          /\ Returns(b, "exec", FALSE, "none")
     \/ ~up /\ wait[b] = "none" /\ pc[b] = "closing"
          /\ Returns(b, "destroy", FALSE, "none")
     \/ wait[b] # "none" /\ ~Connected(b)
          /\ Returns(b, wait[b], FALSE, "none")
  /\ calls' = IF wait[b] = "none" /\ pc[b] = "ready"
              THEN [calls EXCEPT ![b] = @ + 1] ELSE calls
  /\ UNCHANGED <<daemonVars, docker, faults, excused>>

\* The client's end of its connection closes.
HangUp(b) ==
  /\ queue' = [i \in DOMAIN queue |->
                 IF queue[i].build = b THEN [queue[i] EXCEPT !.open = FALSE]
                 ELSE queue[i]]
  /\ job' = IF job # Idle /\ job.build = b THEN [job EXCEPT !.open = FALSE]
            ELSE job

\* The socket timeout of a call: it is an error to the client, while the daemon
\* may still have the request ahead of it.
GiveUp(b) ==
  /\ Fault /\ wait[b] # "none" /\ Connected(b)
  /\ HangUp(b)
  /\ Returns(b, wait[b], FALSE, "none")
  /\ UNCHANGED <<up, tableVars, docker, calls, excused>>

Kill(b) ==
  /\ Fault /\ pc[b] \in {"new", "ready", "closing"}
  /\ HangUp(b)
  /\ pc' = [pc EXCEPT ![b] = "killed"] /\ wait' = [wait EXCEPT ![b] = "none"]
  /\ held' = [held EXCEPT ![b] = {}]
  /\ excused' = excused \cup {<<b, gen[b]>>}
  /\ UNCHANGED <<up, tableVars, docker, calls>>

\* A new process works on the build: resume or refine.
NewProcess(b) ==
  /\ pc[b] \in {"done", "killed"} /\ gen[b] < MaxProvisions
  /\ pc' = [pc EXCEPT ![b] = "new"]
  /\ held' = [held EXCEPT ![b] = {}] /\ calls' = [calls EXCEPT ![b] = 0]
  /\ UNCHANGED <<daemonVars, docker, wait, faults, excused>>

-----------------------------------------------------------------------------
(* The daemon: rpc.serve and BrokerDaemon.handle                            *)

Serve(c, raised, make, rm) ==
  job' = [build |-> c.build, method |-> c.method, box |-> c.box,
          open |-> c.open, raised |-> raised, make |-> make, rm |-> rm]

\* What Broker.provision creates.
Provisions == Fixed \ (IF KeyProxy THEN {} ELSE {"keyproxy"})

\* (wrong form: only what create and provision noted)
Teardown_OnlyNoted(b) ==
  IF provisioned[b] THEN registered[b] \cup Fixed ELSE registered[b]

\* What Broker.destroy removes, whether it exists or not.
Teardown(b) ==
  registered[b] \cup (Fixed \ (IF SharedCache THEN {"vol"} ELSE {}))

\* A new Broker takes the place of whatever the table had for the build.
AcceptProvision(c) ==
  /\ c.method = "provision"
  /\ gen' = [gen EXCEPT ![c.build] = @ + 1]
  /\ table' = [table EXCEPT ![c.build] = gen[c.build] + 1]
  /\ provisioned' = [provisioned EXCEPT ![c.build] = FALSE]
  /\ registered' = [registered EXCEPT ![c.build] = {}]
  /\ Serve(c, FALSE, Provisions, {})
  /\ UNCHANGED faults

\* A parameter outside the allowlists, or a Broker that is not provisioned, is
\* an error before any docker command.
AcceptCreate(c) ==
  /\ c.method \in {"create", "create_service"} /\ table[c.build] # 0
  /\ \/ /\ provisioned[c.build] /\ Serve(c, FALSE, {c.box}, {})
        /\ UNCHANGED faults
     \/ Serve(c, TRUE, {}, {}) /\ IF provisioned[c.build] THEN Fault
                                  ELSE UNCHANGED faults
  /\ UNCHANGED tableVars

\* What a command in a sandbox returns is an answer, whatever its exit code.
AcceptExec(c) ==
  /\ c.method = "exec" /\ table[c.build] # 0
  /\ Serve(c, c.box \notin registered[c.build], {}, {})
  /\ UNCHANGED <<tableVars, faults>>

AcceptDestroySandbox(c) ==
  /\ c.method = "destroy_sandbox" /\ table[c.build] # 0
  /\ Serve(c, FALSE, {}, {c.box} \cap registered[c.build])
  /\ UNCHANGED <<tableVars, faults>>

AcceptDestroy(c) ==
  /\ c.method = "destroy" /\ table[c.build] # 0
  /\ Serve(c, FALSE, {}, Teardown(c.build))
  /\ UNCHANGED <<tableVars, faults>>

AcceptUnknownBuild(c) ==
  /\ c.method # "provision" /\ table[c.build] = 0
  /\ Serve(c, TRUE, {}, {})
  /\ UNCHANGED <<tableVars, faults>>

Accept ==
  /\ up /\ job = Idle /\ queue # <<>>
  /\ LET c == Head(queue)
     IN  \/ AcceptProvision(c) \/ AcceptCreate(c) \/ AcceptExec(c)
         \/ AcceptDestroySandbox(c) \/ AcceptDestroy(c)
         \/ AcceptUnknownBuild(c)
  /\ queue' = Tail(queue)
  /\ UNCHANGED <<up, docker, clientVars, excused>>

-----------------------------------------------------------------------------
(* The docker commands of the request                                       *)

\* The order of the commands of provision and, for the second, of _destroy.
MakeRank(k) == CASE k = "int" -> 1 [] k = "egr" -> 2 [] k = "vol" -> 3
                 [] k = "proxy" -> 4 [] k = "keyproxy" -> 5 [] OTHER -> 6

RmRank(k) == CASE k = "keyproxy" -> 2 [] k = "proxy" -> 3 [] k = "int" -> 4
               [] k = "egr" -> 5 [] k = "vol" -> 6 [] OTHER -> 1

\* A container needs the networks it joins.
CanMake(b, k) ==
  CASE k \in {"proxy", "keyproxy"} -> Exists(b, "int") /\ Exists(b, "egr")
    [] k \in Box                   -> Exists(b, "int")
    [] OTHER                       -> TRUE

\* (wrong form: a run that was cut off is not registered)
Registers_WhenMade(k, made, raised) == k \in Box /\ made /\ ~raised

\* (wrong form: every container is taken for a sandbox)
Registers_Everything(k, made, raised) == k \in Container /\ ~raised

\* create registers a container when its run did not raise, create_service
\* before it awaits the service.
Registers(k, made, raised) ==
  k \in Box /\ (~raised \/ (made /\ job.method = "create_service"))

\* A container or network is made and, where the code waits for it, up.  _run
\* does not raise when it is cut off by its timeout: the command counts as
\* successful, whether or not it had its effect.
MakeStep ==
  /\ job.make # {}
  /\ LET b == job.build
     IN \E k \in job.make, made, raised \in BOOLEAN :
          /\ \A l \in job.make : MakeRank(k) <= MakeRank(l)
          /\ made => CanMake(b, k)
          /\ ~made /\ (k \in {"proxy", "keyproxy"}
                         \/ job.method = "create_service") => raised
          /\ made /\ raised => k \in {"proxy", "keyproxy"}
                                 \/ job.method = "create_service"
          /\ IF (made /\ ~raised) \/ (raised /\ ~CanMake(b, k))
             THEN UNCHANGED faults ELSE Fault
          /\ docker' = IF made THEN docker \cup {<<b, table[b], k>>}
                       ELSE docker
          /\ registered' = IF Registers(k, made, raised)
                           THEN [registered EXCEPT ![b] = @ \cup {k}]
                           ELSE registered
          /\ job' = IF ~raised THEN [job EXCEPT !.make = @ \ {k}]
                    ELSE [job EXCEPT !.make = {}, !.raised = TRUE,
                            !.rm = IF job.method = "provision"
                                   THEN Teardown(b) ELSE {}]
  /\ UNCHANGED <<up, table, gen, provisioned, queue, clientVars, excused>>

\* Containers go before the networks and the volume that they hold.  A removal
\* is tried once; a network or volume in use stays.  A sandbox is
\* forgotten whatever docker said.
RmStep ==
  /\ job.make = {} /\ job.rm # {}
  /\ LET b == job.build
         free(k) == k \in Container \/ \A x \in Container : ~Exists(b, x)
     IN \E k \in job.rm, gone \in BOOLEAN :
          /\ \A l \in job.rm : RmRank(k) <= RmRank(l)
          /\ gone => free(k)
          /\ docker' = IF gone THEN docker \ {<<b, table[b], k>>} ELSE docker
          /\ IF gone \/ ~Exists(b, k)
             THEN UNCHANGED <<faults, excused>>
             ELSE /\ IF free(k) THEN Fault ELSE UNCHANGED faults
                  /\ excused' = IF free(k) THEN excused \cup {Current(b)}
                                ELSE excused
          /\ registered' = [registered EXCEPT ![b] = @ \ {k}]
          /\ job' = [job EXCEPT !.rm = @ \ {k}]
  /\ UNCHANGED <<up, table, gen, provisioned, queue, clientVars>>

\* The request is served: a provision has its Broker marked, a destroy drops
\* it from the table.
Served ==
  LET b == job.build
  IN  /\ provisioned' =
           IF job.raised THEN provisioned
           ELSE [provisioned EXCEPT ![b] = CASE job.method = "provision" -> TRUE
                                             [] job.method = "destroy" -> FALSE
                                             [] OTHER -> @]
      /\ table' = IF job.method = "destroy" /\ ~job.raised
                  THEN [table EXCEPT ![b] = 0] ELSE table

Answer ==
  /\ job # Idle /\ job.make = {} /\ job.rm = {} /\ job.open
  /\ Served
  /\ Returns(job.build, job.method, ~job.raised, job.box)
  /\ job' = Idle
  /\ UNCHANGED <<up, gen, registered, queue, docker, calls, faults, excused>>

\* Nobody reads the answer: sending it raises, and so does sending the error,
\* inside the handler that was to catch it.  The process ends, and with it the
\* table; the connections are reset.
AnswerNobody ==
  /\ job # Idle /\ job.make = {} /\ job.rm = {} /\ ~job.open
  /\ up' = FALSE
  /\ table' = [b \in Build |-> 0]
  /\ provisioned' = [b \in Build |-> FALSE]
  /\ registered' = [b \in Build |-> {}]
  /\ queue' = <<>> /\ job' = Idle
  /\ excused' = excused \cup
       {Current(b) : b \in Build \ (IF job.method = "destroy" /\ ~job.raised
                                    THEN {job.build} ELSE {})}
  /\ UNCHANGED <<gen, docker, clientVars, faults>>

\* The daemon is started again, with an empty table.
Restart ==
  /\ ~up /\ up' = TRUE
  /\ UNCHANGED <<tableVars, queue, job, docker, clientVars, faults, excused>>

-----------------------------------------------------------------------------
DaemonStep == Accept \/ MakeStep \/ RmStep \/ Answer \/ AnswerNobody

ClientStep(b) ==
  ProvisionCall(b) \/ GraphCall(b) \/ Finish(b) \/ DestroyCall(b) \/ Refused(b)

Next ==
  \/ DaemonStep \/ Restart
  \/ \E b \in Build :
       ClientStep(b) \/ GiveUp(b) \/ Kill(b) \/ NewProcess(b)

\* The daemon serves what it can and docker commands have timeouts; a client's
\* process runs.  Nobody need restart a daemon or a build.
Spec == /\ Init /\ [][Next]_vars
        /\ WF_vars(DaemonStep)
        /\ \A b \in Build : WF_vars(ClientStep(b))

-----------------------------------------------------------------------------
(* Properties                                                               *)

JobTypeOK ==
  \/ job = Idle
  \/ /\ job.build \in Build /\ job.method \in Method
     /\ job.box \in Box \cup {"none"}
     /\ {job.open, job.raised} \subseteq BOOLEAN
     /\ job.make \subseteq Kind /\ job.rm \subseteq Kind

\* Every variable stays in its domain.
TypeOK ==
  /\ up \in BOOLEAN
  /\ table \in [Build -> Nat] /\ gen \in [Build -> Nat]
  /\ provisioned \in [Build -> BOOLEAN]
  /\ registered \in [Build -> SUBSET Box]
  /\ queue \in Seq([build : Build, method : Method,
                    box : Box \cup {"none"}, open : BOOLEAN])
  /\ JobTypeOK
  /\ docker \subseteq Build \X Nat \X Kind
  /\ pc \in [Build -> {"new", "ready", "closing", "done", "killed"}]
  /\ wait \in [Build -> Method \cup {"none"}]
  /\ held \in [Build -> SUBSET Box]
  /\ calls \in [Build -> 0 .. MaxCalls]
  /\ faults \in 0 .. MaxFaults
  /\ excused \subseteq Build \X Nat

\* However far provisioning came, whichever command failed or was cut off, and
\* whatever another build did meanwhile: when a build's client is through, none
\* of the containers, networks and volumes made for it is left, and none is to
\* come - except where a removal itself failed, a client was killed, or the
\* daemon died or still has a request nobody waits for.
NothingLeftBehind ==
  \A r \in docker :
    pc[r[1]] = "done" /\ ~Orphaned(r[1]) /\ <<r[1], r[2]>> \notin excused
      => r[3] = "vol" /\ SharedCache

\* A handle that a client holds is one the daemon knows, as long as the daemon
\* lives: exec is not answered with an error, and a teardown removes it.
HandlesResolve ==
  \A b \in Build :
    pc[b] = "ready" /\ ~Orphaned(b) /\ <<b, gen[b]>> \notin excused =>
      held[b] \subseteq registered[b]

\* Every client comes to its end, whatever the daemon does to it.
ClientsEnd ==
  \A b \in Build : pc[b] = "new" ~> pc[b] \in {"done", "killed"}

-----------------------------------------------------------------------------
(* What the repository's documents say, and the code does not do            *)

\* "Never let one bad request kill the daemon": a request whose client has
\* given up does.
DaemonSurvives == up
=============================================================================

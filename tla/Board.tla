-------------------------------- MODULE Board --------------------------------
(***************************************************************************)
(* The live board of a browser tab (useEventStream.ts): it adds up the     *)
(* events of its connection, which the browser makes again when it is lost *)
(* and the reader makes anew by loading the page.  Every new connection    *)
(* begins with the events the server remembers, of which the board has     *)
(* counted some before.                                                    *)
(*                                                                         *)
(* The connections and their events are EventStream's.  An event is told   *)
(* by its run and number; the text of a line, the snapshot of a node and   *)
(* the build id are not.  The beats of a security demo add up as lines do, *)
(* without a cap, in a run too short to be forgotten.                      *)
(***************************************************************************)
EXTENDS EventStream

CONSTANTS
  LogCap,      \* LOG_CAP: lines that a board keeps
  MaxNodes,    \* recursion_limit: node events of a run
  MaxRuns,     \* bound: runs
  MaxLines     \* bound: lines of a run

\* What the constants of three files have to do with one another: 1000 lines,
\* 150 nodes and the end fit among 2000 remembered events.
ASSUME BoardAssumption ==
  /\ {LogCap, MaxNodes, MaxRuns, MaxLines, MaxReplay} \subseteq Nat
  /\ LogCap + MaxNodes + 1 <= MaxReplay
  /\ Type = {"start", "node", "log", "end", "error"}

VARIABLES
  live,    \* of the run: "none", "called", "begun", "over" or "failed"
  nodes,   \* node events of the run
  lines,   \* its log events
  conn,    \* connections the tab has made, one at a time
  online,  \* the last of them is there
  taken,   \* events the tab has got from it
  board    \* LiveState: what of each event is on display

serverVars == <<run, published, replay, phase, view>>
tabVars    == <<conn, online, taken, board>>
boardVars  == <<serverVars, live, nodes, lines, tabVars>>

None  == [run |-> 0, n |-> 0]
EMPTY == [start |-> None, node |-> None, log |-> <<>>, terminal |-> None,
          error |-> None]

BoardInit ==
  /\ Init
  /\ live = "none" /\ nodes = 0 /\ lines = <<>>
  /\ conn = 0 /\ online = FALSE /\ taken = 0 /\ board = EMPTY

-----------------------------------------------------------------------------
(* The run: what it publishes, in its order                                 *)

Tag(e) == [run |-> e.run, n |-> e.n]

Published(t) == \E b \in Id : Publish(t, b)

\* A run is launched; the one before it is over.
BeginRun ==
  /\ live \notin {"called", "begun"} /\ run < MaxRuns
  /\ NewRun
  /\ live' = "called" /\ nodes' = 0 /\ lines' = <<>>
  /\ UNCHANGED tabVars

\* It announces itself, or fails before it does.
Start ==
  /\ live = "called" /\ Published("start")
  /\ live' = "begun" /\ UNCHANGED <<nodes, lines, tabVars>>

EnterNode ==
  /\ live = "begun" /\ nodes < MaxNodes /\ Published("node")
  /\ nodes' = nodes + 1 /\ UNCHANGED <<live, lines, tabVars>>

Say ==
  /\ live = "begun" /\ Len(lines) < MaxLines /\ Published("log")
  /\ lines' = Append(lines, [run |-> run, n |-> published + 1])
  /\ UNCHANGED <<live, nodes, tabVars>>

EndRun ==
  /\ \/ /\ live = "begun" /\ live' = "over"
        /\ Published("end") \/ Published("error")
     \/ live = "called" /\ live' = "failed" /\ Published("error")
  /\ UNCHANGED <<nodes, lines, tabVars>>

-----------------------------------------------------------------------------
(* The tab                                                                  *)

\* (wrong form: the oldest lines are kept)
Capped_Oldest(s) == IF Len(s) > LogCap THEN SubSeq(s, 1, LogCap) ELSE s

\* (wrong form: cut when the line after it comes)
Capped_Late(s) == LastOf(s, LogCap + 1)

\* cap(arr, LOG_CAP): the newest lines.
Capped(s) == LastOf(s, LogCap)

\* (wrong form: a new run adds to the board of the last one)
AfterStart_NoReset(b, e) == [b EXCEPT !.start = Tag(e)]

\* `start' opens a fresh run: reset everything.
AfterStart(b, e) == [EMPTY EXCEPT !.start = Tag(e)]

\* The listeners, one for each type of event.
After(b, e) ==
  CASE e.type = "start" -> AfterStart(b, e)
    [] e.type = "node"  -> [b EXCEPT !.node = Tag(e)]
    [] e.type = "log"   -> [b EXCEPT !.log = Capped(Append(@, Tag(e)))]
    [] e.type = "end"   -> [b EXCEPT !.terminal = Tag(e)]
    [] e.type = "error" -> [b EXCEPT !.error = Tag(e)]

\* The page is loaded, or the browser reconnects and the board stays.
Connect ==
  /\ ~online /\ conn + 1 \in Feed
  /\ Open(conn + 1)
  /\ conn' = conn + 1 /\ online' = TRUE /\ taken' = 0
  /\ board' \in {board, EMPTY}
  /\ UNCHANGED <<live, nodes, lines>>

\* What was on its way is lost.
Disconnect ==
  /\ online /\ Close(conn)
  /\ online' = FALSE
  /\ UNCHANGED <<live, nodes, lines, conn, taken, board>>

Receive ==
  /\ online /\ taken < Len(view[conn])
  /\ taken' = taken + 1
  /\ board' = After(board, view[conn][taken + 1])
  /\ UNCHANGED <<serverVars, live, nodes, lines, conn, online>>

BoardNext ==
  \/ BeginRun \/ Start \/ EnterNode \/ Say \/ EndRun
  \/ Connect \/ Disconnect \/ Receive

BoardSpec == BoardInit /\ [][BoardNext]_boardVars

-----------------------------------------------------------------------------
(* Properties                                                               *)

Tags == [run : 0 .. MaxRuns, n : Nat]

\* Every variable stays in its domain, the log within its cap.
BoardTypeOK ==
  /\ live \in {"none", "called", "begun", "over", "failed"}
  /\ nodes \in 0 .. MaxNodes /\ Len(lines) <= MaxLines
  /\ conn \in Nat /\ online \in BOOLEAN /\ taken \in Nat
  /\ {board.start, board.node, board.terminal, board.error} \subseteq Tags
  /\ board.log \in Seq(Tags) /\ Len(board.log) <= LogCap

CaughtUp == online /\ taken = Len(view[conn])

Begun == live \in {"begun", "over"}

\* However often the connection was lost or the page loaded, and whatever the
\* server had forgotten by then: a tab that has got all its events shows the
\* last lines of the current run, each once and in order, and nothing of the
\* run before.  A replay that lacks the start cannot reset the board, but then
\* it holds so many lines that it pushes out every other one.
LogIsTheTail == CaughtUp /\ Begun => board.log = LastOf(lines, LogCap)

\* Where this connection brought the start of the current run, all of the board
\* is of that run: no verdict or error of an earlier one is on display.
BoardIsOfOneRun ==
  CaughtUp /\ (\E i \in DOMAIN view[conn] : view[conn][i].run = run
                                         /\ view[conn][i].type = "start")
    => \A tag \in {board.start, board.node, board.terminal, board.error} :
         tag.run \in {0, run}
=============================================================================

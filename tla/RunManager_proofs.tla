-------------------------- MODULE RunManager_proofs --------------------------
(***************************************************************************)
(* Proofs about RunManager for any number of feeds, requests, builds, runs *)
(* and events: its types, what status and stop aim at, that a stop given   *)
(* after the start event holds, and that the manager implements            *)
(* EventStream, so that every reader gets the events in order, once and    *)
(* without a gap.                                                          *)
(***************************************************************************)
EXTENDS RunManager, SequenceTheorems, TLAPS

LEMMA TrimmedType ==
  ASSUME NEW r \in Seq(Event), Len(r) <= MaxReplay + 1
  PROVE  Trimmed(r) \in Seq(Event) /\ Len(Trimmed(r)) <= MaxReplay
<1>1. Len(r) \in Nat /\ MaxReplay \in Nat \ {0}
  BY BoundsAssumption
<1>2. CASE Len(r) > MaxReplay
  <2> DEFINE m == Len(r) - MaxReplay + 1
  <2>1. m \in Int /\ m >= 1 /\ m <= Len(r) /\ Len(r) - m + 1 = MaxReplay
    BY <1>1, <1>2
  <2>2. \A i \in m .. Len(r) : r[i] \in Event
    BY <2>1, <1>1, ElementOfSeq
  <2>3. Trimmed(r) = SubSeq(r, m, Len(r))
    BY <1>2 DEF Trimmed
  <2> HIDE DEF m
  <2>4. /\ SubSeq(r, m, Len(r)) \in Seq(Event)
        /\ Len(SubSeq(r, m, Len(r))) = IF m <= Len(r) THEN Len(r) - m + 1 ELSE 0
    BY <2>1, <2>2, <1>1, SubSeqProperties
  <2> QED BY <2>1, <2>3, <2>4, <1>1
<1>3. CASE ~(Len(r) > MaxReplay)
  BY <1>1, <1>3 DEF Trimmed
<1> QED BY <1>2, <1>3

LEMMA RecordType ==
  ASSUME TypeOK, NEW t \in Type, NEW b \in Id, Record(t, b), thread' \in ThreadState
  PROVE  TypeOK'
<1> DEFINE e == [run |-> run, n |-> published + 1, type |-> t, build_id |-> b]
<1>1. e \in Event
  BY DEF TypeOK, Event
<1>2. /\ published' = published + 1
      /\ replay' = Trimmed(Append(replay, e))
      /\ current' = [current EXCEPT !.build_id = IF b = NoBuild THEN @ ELSE b]
      /\ fanout' = [event |-> e, to |-> subscribers]
      /\ UNCHANGED <<subscribers, queue, kind, target, diskVars, run, feedVars,
                     stopVars>>
  BY DEF Record
<1> HIDE DEF e
<1>3. replay' \in Seq(Event) /\ Len(replay') <= MaxReplay
  <2>1. replay \in Seq(Event) /\ Len(replay) <= MaxReplay
    BY DEF TypeOK
  <2>2. Append(replay, e) \in Seq(Event) /\ Len(Append(replay, e)) = Len(replay) + 1
    BY <2>1, <1>1, AppendProperties
  <2>3. Len(replay) \in Nat /\ MaxReplay \in Nat
    BY <2>1, BoundsAssumption, LenProperties
  <2>4. Len(Append(replay, e)) <= MaxReplay + 1
    BY <2>1, <2>2, <2>3
  <2> QED BY <2>2, <2>4, <1>2, TrimmedType
<1>4. fanout' \in [event : Event, to : SUBSET Feed]
  BY <1>1, <1>2 DEF TypeOK
<1>5. current' \in [state : {"idle", "running", "finished", "error"}, build_id : Id]
  BY <1>2 DEF TypeOK
<1>6. UNCHANGED <<subscribers, queue, kind, target, known, sentinel, run, delivered,
                  gone, stopping, acked>>
  BY <1>2 DEF diskVars, feedVars, stopVars
<1>7. published' \in Nat
  BY <1>2 DEF TypeOK
<1> QED BY <1>3, <1>4, <1>5, <1>6, <1>7 DEF TypeOK

LEMMA EmptyReplay == <<>> \in Seq(Event) /\ Len(<<>>) <= MaxReplay
BY BoundsAssumption, EmptySeq

LEMMA InitType == Init => TypeOK
<1> SUFFICES ASSUME Init PROVE TypeOK
  OBVIOUS
<1>1. replay \in Seq(Event) /\ Len(replay) <= MaxReplay
  BY EmptyReplay DEF Init
<1>2. queue \in [Feed -> Seq(Event)] /\ delivered \in [Feed -> Seq(Event)]
  BY EmptyReplay DEF Init
<1>3. NoEvent \in Event
  BY DEF NoEvent, Event, Type, Id
<1>4. fanout \in [event : Event, to : SUBSET Feed]
  BY <1>3 DEF Init
<1> QED BY <1>1, <1>2, <1>4 DEF Init, TypeOK, Id, ThreadState, Kind

\* The steps of the run's thread that leave everything but their goal alone.
LEMMA NextType ==
  ASSUME TypeOK, [Next]_vars
  PROVE  TypeOK'
<1> USE DEF TypeOK
<1>1. ASSUME NEW k \in Kind, NEW b \in Build \cup {NoBuild}, Launch(k, b)
      PROVE  TypeOK'
  <2>1. replay' \in Seq(Event) /\ Len(replay') <= MaxReplay
    BY <1>1, EmptyReplay DEF Launch
  <2>2. current' \in [state : {"idle", "running", "finished", "error"}, build_id : Id]
    BY <1>1 DEF Launch, Id
  <2>3. UNCHANGED <<subscribers, queue, fanout, known, sentinel, delivered, gone, stopping>>
    BY <1>1 DEF Launch, diskVars, feedVars
  <2>4. thread' \in ThreadState /\ kind' \in Kind /\ target' \in Id
    BY <1>1 DEF Launch, Id, ThreadState
  <2>5. run' \in Nat /\ published' \in Nat
    BY <1>1 DEF Launch
  <2>6. acked' \in BOOLEAN
    BY <1>1 DEF Launch
  <2> QED BY <2>1, <2>2, <2>3, <2>4, <2>5, <2>6
<1>2. CASE MintBuild
  BY <1>2 DEF MintBuild, Goto, ThreadState, Id, slotVars, countVars, feedVars, stopVars
<1>3. CASE ClearStop
  BY <1>3 DEF ClearStop, Goto, ThreadState, slotVars, countVars, feedVars, stopVars
<1>4. CASE NameDemo
  BY <1>4 DEF NameDemo, Goto, ThreadState, Id, slotVars, diskVars, countVars, feedVars,
              stopVars
<1>5. CASE Begin
  <2>1. Record("start", target) /\ "start" \in Type /\ thread' \in ThreadState
    BY <1>5 DEF Begin, Goto, ThreadState, Type
  <2> QED BY <2>1, RecordType
<1>6. CASE EnterNode \/ StopAtNode \/ GraphDone \/ Exit
  BY <1>6 DEF EnterNode, StopAtNode, GraphDone, Exit, Goto, ThreadState, slotVars,
              diskVars, countVars, feedVars, stopVars
<1>7. CASE Node
  <2>1. Record("node", target) /\ "node" \in Type /\ thread' \in ThreadState
    BY <1>7 DEF Node, Goto, ThreadState, Type
  <2> QED BY <2>1, RecordType
<1>8. CASE Log \/ Beat
  <2>1. /\ Record("log", target) \/ Record("beat", target)
        /\ {"log", "beat"} \subseteq Type
        /\ thread' \in ThreadState
    BY <1>8 DEF Log, Beat, Goto, ThreadState, Type
  <2> QED BY <2>1, RecordType
<1>9. CASE DemoDone
  <2>1. Record("end", target) /\ "end" \in Type /\ thread' \in ThreadState
    BY <1>9 DEF DemoDone, Goto, ThreadState, Type
  <2> QED BY <2>1, RecordType
<1>10. CASE Fail
  BY <1>10 DEF Fail, Goto, ThreadState, slotVars, diskVars, countVars, feedVars, stopVars
<1>11. CASE Conclude
  <2>1. thread' \in ThreadState
    BY <1>11 DEF Conclude, Goto, ThreadState
  <2>2. current' \in [state : {"idle", "running", "finished", "error"}, build_id : Id]
    <3>1. \/ current' = [state |-> "finished", build_id |-> target]
          \/ current' = [current EXCEPT !.state = "error"]
      BY <1>11 DEF Conclude
    <3>2. target \in Id
      OBVIOUS
    <3>3. current \in [state : {"idle", "running", "finished", "error"}, build_id : Id]
      OBVIOUS
    <3> HIDE DEF TypeOK
    <3> QED BY <3>1, <3>2, <3>3
  <2>3. UNCHANGED <<replay, subscribers, queue, kind, target, fanout, known, sentinel,
                    run, published, delivered, gone, stopping, acked>>
    BY <1>11 DEF Conclude, diskVars, countVars, feedVars, stopVars
  <2> QED BY <2>1, <2>2, <2>3
<1>12. CASE PublishLast
  <2>1. thread' \in ThreadState /\ "end" \in Type /\ "error" \in Type
    BY <1>12 DEF PublishLast, Goto, ThreadState, Type
  <2>2. Record("end", target) \/ Record("error", current.build_id)
    BY <1>12 DEF PublishLast
  <2>3. target \in Id /\ current.build_id \in Id
    OBVIOUS
  <2> QED BY <2>1, <2>2, <2>3, RecordType
<1>13. ASSUME NEW f \in Feed, Put(f)
       PROVE  TypeOK'
  <2>1. Append(queue[f], fanout.event) \in Seq(Event)
    BY AppendProperties
  <2> QED BY <1>13, <2>1 DEF Put, diskVars, countVars, feedVars, stopVars
<1>14. ASSUME NEW f \in Feed, Subscribe(f)
       PROVE  TypeOK'
  BY <1>14 DEF Subscribe, threadVars, diskVars, countVars, feedVars, stopVars
<1>15. ASSUME NEW f \in Feed, Take(f)
       PROVE  TypeOK'
  <2>1. Head(queue[f]) \in Event /\ Tail(queue[f]) \in Seq(Event)
    BY <1>15, HeadTailProperties DEF Take
  <2>2. Append(delivered[f], Head(queue[f])) \in Seq(Event)
    BY <2>1, AppendProperties
  <2> QED BY <1>15, <2>1, <2>2 DEF Take, threadVars, diskVars, countVars, stopVars
<1>16. ASSUME NEW f \in Feed, Unsubscribe(f)
       PROVE  TypeOK'
  BY <1>16 DEF Unsubscribe, threadVars, diskVars, countVars, stopVars
<1>17. ASSUME NEW s \in Request, NEW b \in Build \cup {DemoId}, StopRead(s, b)
       PROVE  TypeOK'
  BY <1>17 DEF StopRead, Busy, Id, slotVars, threadVars, diskVars, countVars, feedVars
<1>18. ASSUME NEW s \in Request, StopWrite(s)
       PROVE  TypeOK'
  <2>1. stopping[s] \in Build \cup {DemoId}
    BY <1>18 DEF StopWrite, Id
  <2>2. acked' \in BOOLEAN
    BY <1>18 DEF StopWrite
  <2>3. NoBuild \in Id
    BY DEF Id
  <2> QED BY <1>18, <2>1, <2>2, <2>3
          DEF StopWrite, slotVars, threadVars, countVars, feedVars
<1>19. CASE UNCHANGED vars
  BY <1>19 DEF vars, slotVars, threadVars, diskVars, countVars, feedVars, stopVars
<1> QED BY <1>1, <1>2, <1>3, <1>4, <1>5, <1>6, <1>7, <1>8, <1>9, <1>10, <1>11, <1>12,
           <1>13, <1>14, <1>15, <1>16, <1>17, <1>18, <1>19 DEF Next, RunStep

\* Every variable keeps to its domain, and the replay buffer to its size.
THEOREM ManagerTypes == Spec => []TypeOK
<1>1. Init => TypeOK
  BY InitType
<1>2. TypeOK /\ [Next]_vars => TypeOK'
  BY NextType
<1> QED BY <1>1, <1>2, PTL DEF Spec

-----------------------------------------------------------------------------
\* Of the last steps of a run's setup: a build or a demo that has no id yet
\* has none to show either.
StatusInv ==
  /\ StatusNamesTheRun
  /\ thread = "call" => (kind \in {"resume", "refine"} \/ target = NoBuild)

\* A stop answered late is still on disk, where each node will look for it.
LateInv ==
  /\ thread = "call" => published = 0 /\ ~acked
  /\ acked => target \in sentinel

ControlInv == TypeOK /\ StatusInv /\ LateInv

LEMMA InitControl == Init => ControlInv
BY InitType DEF Init, ControlInv, StatusInv, LateInv, StatusNamesTheRun, Busy

\* Publishing shows the id of the run, and touches no stop.
LEMMA RecordFrame ==
  ASSUME TypeOK, NEW t, NEW b, Record(t, b)
  PROVE  /\ current'.state = current.state
         /\ current'.build_id = IF b = NoBuild THEN current.build_id ELSE b
         /\ published' = published + 1
         /\ UNCHANGED <<kind, target, sentinel, acked>>
BY DEF Record, TypeOK, diskVars, stopVars

LEMMA NextControl ==
  ASSUME ControlInv, [Next]_vars
  PROVE  ControlInv'
<1>1. TypeOK'
  BY NextType DEF ControlInv
<1> SUFFICES StatusInv' /\ LateInv'
  BY <1>1 DEF ControlInv
<1> USE DEF ControlInv, StatusInv, LateInv, StatusNamesTheRun, Busy
<1>2. ASSUME NEW k \in Kind, NEW b \in Build \cup {NoBuild}, Launch(k, b)
      PROVE  StatusInv' /\ LateInv'
  BY <1>2 DEF Launch
<1>3. CASE MintBuild \/ ClearStop \/ NameDemo
  BY <1>3 DEF MintBuild, ClearStop, NameDemo, Goto, slotVars, countVars, stopVars
<1>4. CASE Begin
  <2>1. thread = "begin" /\ thread' \in {"beats", "boundary"} /\ Record("start", target)
    BY <1>4 DEF Begin, Goto
  <2> QED BY <2>1, RecordFrame
<1>5. CASE EnterNode \/ StopAtNode \/ GraphDone \/ Fail
  BY <1>5 DEF EnterNode, StopAtNode, GraphDone, Fail, Goto, slotVars, diskVars,
              countVars, stopVars
<1>6. CASE Node \/ Log \/ Beat \/ DemoDone
  <2>1. /\ thread \in {"node", "beats", "boundary", "ended"}
        /\ thread' \in {"boundary", "beats", "ended"}
        /\ \E t \in Type : Record(t, target)
    BY <1>6 DEF Node, Log, Beat, DemoDone, Goto, Type
  <2> QED BY <2>1, RecordFrame
<1>7. CASE Conclude
  <2>1. /\ thread \in {"ended", "failed"} /\ thread' \in {"last", "exit"}
        /\ current'.state \in {"finished", "error"}
        /\ current'.build_id \in {target, current.build_id}
        /\ UNCHANGED <<kind, target, sentinel, published, acked>>
    BY <1>7 DEF Conclude, Goto, TypeOK, diskVars, countVars, stopVars
  <2> QED BY <2>1
<1>8. CASE PublishLast
  <2>1. thread = "last" /\ thread' = "exit"
    BY <1>8 DEF PublishLast, Goto
  <2>2. Record("end", target) \/ Record("error", current.build_id)
    BY <1>8 DEF PublishLast
  <2> QED BY <2>1, <2>2, RecordFrame
<1>9. CASE Exit
  BY <1>9 DEF Exit, Goto, slotVars, diskVars, countVars, stopVars
<1>10. ASSUME NEW f \in Feed, Put(f) \/ Subscribe(f) \/ Take(f) \/ Unsubscribe(f)
       PROVE  StatusInv' /\ LateInv'
  BY <1>10 DEF Put, Subscribe, Take, Unsubscribe, threadVars, diskVars, countVars,
               stopVars
<1>11. ASSUME NEW s \in Request, NEW b \in Build \cup {DemoId}, StopRead(s, b)
       PROVE  StatusInv' /\ LateInv'
  BY <1>11 DEF StopRead, slotVars, threadVars, diskVars, countVars
<1>12. ASSUME NEW s \in Request, StopWrite(s)
       PROVE  StatusInv' /\ LateInv'
  <2>1. /\ UNCHANGED <<current, thread, kind, target, published>>
        /\ sentinel' = sentinel \cup {stopping[s]}
        /\ acked' => acked \/ stopping[s] = target
        /\ acked' => acked \/ published > 0
    BY <1>12 DEF StopWrite, slotVars, threadVars, countVars
  <2>2. StatusInv'
    BY <2>1
  <2>3. thread = "call" => ~acked'
    <3>1. thread = "call" => ~acked /\ ~(published > 0)
      BY SMT
    <3> QED BY <2>1, <3>1
  <2>4. LateInv'
    BY <2>1, <2>3
  <2> QED BY <2>2, <2>4
<1>13. CASE UNCHANGED vars
  BY <1>13 DEF vars, slotVars, threadVars, diskVars, countVars, stopVars
<1> QED BY <1>2, <1>3, <1>4, <1>5, <1>6, <1>7, <1>8, <1>9, <1>10, <1>11, <1>12, <1>13
        DEF Next, RunStep

\* Status and stop never mean another run than the live one.
THEOREM StatusAlwaysNamesTheRun == Spec => []StatusNamesTheRun
<1>1. Init => ControlInv
  BY InitControl
<1>2. ControlInv /\ [Next]_vars => ControlInv'
  BY NextControl
<1>3. ControlInv => StatusNamesTheRun
  BY DEF ControlInv, StatusInv
<1> QED BY <1>1, <1>2, <1>3, PTL DEF Spec

\* Only EnterNode goes from a boundary into a node, and it looks first.
LEMMA NodeIsUnstopped ==
  ASSUME ControlInv, [Next]_vars, thread = "boundary", thread' = "node"
  PROVE  ~acked
<1>1. EnterNode => target \notin sentinel
  BY DEF EnterNode
<1>2. ASSUME ~EnterNode PROVE FALSE
  <2>1. ~(MintBuild \/ ClearStop \/ NameDemo \/ Begin \/ Node \/ StopAtNode
          \/ GraphDone \/ Log \/ Beat \/ DemoDone \/ Fail \/ Conclude \/ PublishLast \/ Exit)
    BY DEF MintBuild, ClearStop, NameDemo, Begin, Node, StopAtNode, GraphDone, Log, Beat,
           DemoDone, Fail, Conclude, PublishLast, Exit, Goto
  <2>2. \A f \in Feed : ~(Put(f) \/ Subscribe(f) \/ Take(f) \/ Unsubscribe(f))
    BY DEF Put, Subscribe, Take, Unsubscribe, threadVars
  <2>3. \A k \in Kind, b \in Build \cup {NoBuild} : ~Launch(k, b)
    BY DEF Launch
  <2>4. \A s \in Request : ~StopWrite(s)
    BY DEF StopWrite, threadVars
  <2>5. \A s \in Request, b \in Build \cup {DemoId} : ~StopRead(s, b)
    BY DEF StopRead, threadVars
  <2>6. ~UNCHANGED vars
    BY DEF vars, threadVars
  <2> QED BY <1>2, <2>1, <2>2, <2>3, <2>4, <2>5, <2>6 DEF Next, RunStep
<1> QED BY <1>1, <1>2 DEF ControlInv, LateInv

\* A stop that is answered after the start event is obeyed at the next node.
THEOREM LateStopAlwaysHolds == Spec => LateStopHolds
<1>1. Init => ControlInv
  BY InitControl
<1>2. ControlInv /\ [Next]_vars => ControlInv'
  BY NextControl
<1>3. ControlInv /\ [Next]_vars =>
        [(thread = "boundary" /\ thread' = "node") => ~acked]_vars
  BY NodeIsUnstopped
<1> QED BY <1>1, <1>2, <1>3, PTL DEF Spec, LateStopHolds

-----------------------------------------------------------------------------
\* The refinement.  A connection not yet made has no queue, nothing delivered,
\* and no part in the fan-out; one that ended is not a subscriber.
FeedInv ==
  /\ subscribers \cap gone = {}
  /\ \A f \in Feed : f \notin subscribers \cup gone =>
       delivered[f] = <<>> /\ queue[f] = <<>> /\ f \notin fanout.to

\* A put moves an event from flight into the queue.
LEMMA PutMoves ==
  ASSUME NEW S, NEW d \in Seq(S), NEW q \in Seq(S), NEW e \in S
  PROVE  (d \o Append(q, e)) \o <<>> = (d \o q) \o <<e>>
<1>1. <<e>> \in Seq(S) /\ Append(q, e) = q \o <<e>> /\ Append(q, e) \in Seq(S)
  BY AppendIsConcat, AppendProperties
<1>2. d \o Append(q, e) \in Seq(S)
  BY <1>1, ConcatProperties
<1>3. (d \o Append(q, e)) \o <<>> = d \o (q \o <<e>>)
  BY <1>1, <1>2, ConcatEmptySeq
<1> QED BY <1>1, <1>3, ConcatAssociative

\* Taking an event moves it from the queue to the reader.
LEMMA TakeMoves ==
  ASSUME NEW S, NEW d \in Seq(S), NEW q \in Seq(S), q # <<>>
  PROVE  Append(d, Head(q)) \o Tail(q) = d \o q
<1>1. /\ Head(q) \in S /\ Tail(q) \in Seq(S) /\ Len(Tail(q)) = Len(q) - 1
      /\ \A i \in 1 .. Len(Tail(q)) : Tail(q)[i] = q[i + 1]
  BY HeadTailProperties
<1>2. Len(q) \in Nat \ {0} /\ Len(d) \in Nat /\ q[1] = Head(q)
  BY EmptySeq, LenProperties
<1> DEFINE a == Append(d, Head(q))
<1>3. /\ a \in Seq(S) /\ Len(a) = Len(d) + 1 /\ a[Len(d) + 1] = Head(q)
      /\ \A i \in 1 .. Len(d) : a[i] = d[i]
  BY <1>1, AppendProperties
<1> HIDE DEF a
<1>4. /\ a \o Tail(q) \in Seq(S) /\ Len(a \o Tail(q)) = Len(a) + Len(Tail(q))
      /\ \A i \in 1 .. Len(a) + Len(Tail(q)) :
           (a \o Tail(q))[i] = IF i <= Len(a) THEN a[i] ELSE Tail(q)[i - Len(a)]
  BY <1>1, <1>3, ConcatProperties
<1>5. /\ d \o q \in Seq(S) /\ Len(d \o q) = Len(d) + Len(q)
      /\ \A i \in 1 .. Len(d) + Len(q) :
           (d \o q)[i] = IF i <= Len(d) THEN d[i] ELSE q[i - Len(d)]
  BY ConcatProperties
<1>6. Len(a \o Tail(q)) = Len(d \o q)
  BY <1>1, <1>2, <1>3, <1>4, <1>5
<1>7. ASSUME NEW i \in 1 .. Len(d) + Len(q)
      PROVE  (a \o Tail(q))[i] = (d \o q)[i]
  <2>1. i \in 1 .. Len(a) + Len(Tail(q)) /\ Len(a) + Len(Tail(q)) = Len(d) + Len(q)
    BY <1>1, <1>2, <1>3
  <2>2. CASE i <= Len(d)
    BY <2>1, <2>2, <1>2, <1>3, <1>4, <1>5
  <2>3. CASE i = Len(d) + 1
    BY <2>1, <2>3, <1>2, <1>3, <1>4, <1>5
  <2>4. CASE i > Len(d) + 1
    <3>1. i - Len(a) \in 1 .. Len(Tail(q)) /\ i - Len(a) + 1 = i - Len(d)
      BY <2>1, <2>4, <1>1, <1>2, <1>3
    <3>2. (a \o Tail(q))[i] = Tail(q)[i - Len(a)]
      BY <2>1, <2>4, <1>2, <1>3, <1>4
    <3>3. (d \o q)[i] = q[i - Len(d)]
      BY <2>4, <1>2, <1>5
    <3> QED BY <3>1, <3>2, <3>3, <1>1
  <2>5. i <= Len(d) \/ i = Len(d) + 1 \/ i > Len(d) + 1
    BY <1>2
  <2> QED BY <2>2, <2>3, <2>4, <2>5
<1> QED BY <1>4, <1>5, <1>6, <1>7, SeqEqual DEF a

LEMMA InitRefines == Init => FeedInv /\ Stream!Init
<1> SUFFICES ASSUME Init PROVE FeedInv /\ Stream!Init
  OBVIOUS
<1>1. FeedInv
  BY DEF Init, FeedInv
<1>2. \A f \in Feed : Phase[f] = "new" /\ View[f] = <<>>
  <2>1. \A f \in Feed : View[f] = (<<>> \o <<>>) \o <<>>
    BY DEF Init, View, InFlight
  <2>2. <<>> \o <<>> = <<>>
    BY EmptyReplay, ConcatEmptySeq
  <2> QED BY <2>1, <2>2 DEF Init, Phase
<1>3. /\ Phase = [f \in Feed |-> "new"]
      /\ View = [f \in Feed |-> <<>>]
  BY <1>2 DEF Phase, View
<1> QED BY <1>1, <1>3 DEF Init, Stream!Init

\* Publishing reaches the views of the open feeds at once.
LEMMA RecordRefines ==
  ASSUME TypeOK, FeedInv, ~Publishing,
         NEW t \in Type, NEW b \in Id, Record(t, b)
  PROVE  FeedInv' /\ Stream!Publish(t, b)
<1> DEFINE e == [run |-> run, n |-> published + 1, type |-> t, build_id |-> b]
<1>1. e \in Event
  BY DEF TypeOK, Event
<1>2. /\ published' = published + 1 /\ run' = run
      /\ replay' = Trimmed(Append(replay, e))
      /\ fanout' = [event |-> e, to |-> subscribers]
      /\ UNCHANGED <<subscribers, queue, delivered, gone>>
  BY DEF Record, feedVars
<1>3. FeedInv'
  BY <1>2 DEF FeedInv
<1>4. Phase' = Phase
  BY <1>2 DEF Phase
<1>5. replay' = Stream!LastOf(Append(replay, e), MaxReplay)
  BY <1>2 DEF Trimmed, Stream!LastOf
<1> HIDE DEF e
<1>6. ASSUME NEW f \in Feed
      PROVE  View'[f] = IF Phase[f] = "open" THEN Append(View[f], e) ELSE View[f]
  <2> DEFINE c == delivered[f] \o queue[f]
  <2>1. c \in Seq(Event)
    BY ConcatProperties DEF TypeOK
  <2>2. View[f] = c \o <<>>
    BY DEF View, InFlight, Publishing
  <2>3. View'[f] = c \o (IF f \in subscribers THEN <<e>> ELSE <<>>)
    BY <1>2 DEF View, InFlight
  <2>4. Phase[f] = "open" <=> f \in subscribers
    BY DEF Phase
  <2> HIDE DEF c
  <2>5. c \o <<>> = c /\ Append(c, e) = c \o <<e>>
    BY <2>1, <1>1, ConcatEmptySeq, AppendIsConcat
  <2> QED BY <2>2, <2>3, <2>4, <2>5
<1>7. View' = [f \in Feed |-> IF Phase[f] = "open" THEN Append(View[f], e) ELSE View[f]]
  BY <1>6 DEF View
<1> QED BY <1>2, <1>3, <1>4, <1>5, <1>7 DEF Stream!Publish, e

\* Steps that leave alone what readers can see.
LEMMA HiddenRefines ==
  ASSUME FeedInv, UNCHANGED <<run, published, replay, subscribers, gone, delivered,
                              queue, fanout>>
  PROVE  FeedInv' /\ UNCHANGED Stream!vars
<1>1. FeedInv'
  BY DEF FeedInv
<1>2. Phase' = Phase
  BY DEF Phase
<1>3. View' = View
  BY DEF View, InFlight
<1> QED BY <1>1, <1>2, <1>3 DEF Stream!vars

LEMMA NextRefines ==
  ASSUME TypeOK, FeedInv, [Next]_vars
  PROVE  FeedInv' /\ [Stream!Next]_(Stream!vars)
<1>1. ASSUME NEW k \in Kind, NEW b \in Build \cup {NoBuild}, Launch(k, b)
      PROVE  FeedInv' /\ Stream!NewRun
  <2>1. /\ run' = run + 1 /\ published' = 0 /\ replay' = <<>>
        /\ UNCHANGED <<subscribers, gone, delivered, queue, fanout>>
    BY <1>1 DEF Launch, feedVars
  <2>2. Phase' = Phase /\ View' = View
    BY <2>1 DEF Phase, View, InFlight
  <2> QED BY <2>1, <2>2 DEF FeedInv, Stream!NewRun
<1>2. ASSUME ~Publishing, NEW t \in Type, NEW b \in Id, Record(t, b)
      PROVE  FeedInv' /\ Stream!Next
  <2>1. FeedInv' /\ Stream!Publish(t, b)
    BY <1>2, RecordRefines
  <2> QED BY <2>1 DEF Stream!Next
<1>3. CASE Begin \/ Node \/ Log \/ Beat \/ DemoDone
  <2>1. ~Publishing /\ target \in Id
    BY <1>3 DEF Begin, Node, Log, Beat, DemoDone, Goto, TypeOK
  <2>2. \E t \in Type : Record(t, target)
    BY <1>3 DEF Begin, Node, Log, Beat, DemoDone, Type
  <2> QED BY <2>1, <2>2, <1>2
<1>4. CASE PublishLast
  <2>1. ~Publishing /\ target \in Id /\ current.build_id \in Id
    BY <1>4 DEF PublishLast, Goto, TypeOK
  <2>2. Record("end", target) \/ Record("error", current.build_id)
    BY <1>4 DEF PublishLast
  <2>3. "end" \in Type /\ "error" \in Type
    BY DEF Type
  <2> QED BY <2>1, <2>2, <2>3, <1>2
<1>5. CASE MintBuild \/ ClearStop \/ NameDemo \/ EnterNode \/ StopAtNode \/ GraphDone
           \/ Fail \/ Conclude \/ Exit
  <2>1. UNCHANGED <<run, published, replay, subscribers, gone, delivered, queue, fanout>>
    BY <1>5 DEF MintBuild, ClearStop, NameDemo, EnterNode, StopAtNode, GraphDone, Fail,
                Conclude, Exit, slotVars, countVars, feedVars
  <2> QED BY <2>1, HiddenRefines
<1>6. ASSUME NEW f \in Feed, Put(f)
      PROVE  FeedInv' /\ UNCHANGED Stream!vars
  <2>1. /\ f \in fanout.to
        /\ queue' = [queue EXCEPT ![f] = Append(@, fanout.event)]
        /\ fanout' = [fanout EXCEPT !.to = @ \ {f}]
        /\ UNCHANGED <<run, published, replay, subscribers, gone, delivered>>
    BY <1>6 DEF Put, countVars, feedVars
  <2>2. FeedInv'
    <3> SUFFICES ASSUME NEW g \in Feed, g \notin subscribers \cup gone
                 PROVE  delivered'[g] = <<>> /\ queue'[g] = <<>> /\ g \notin fanout'.to
      BY <2>1 DEF FeedInv
    <3>1. g # f /\ delivered[g] = <<>> /\ queue[g] = <<>> /\ g \notin fanout.to
      BY <2>1 DEF FeedInv
    <3> QED BY <2>1, <3>1 DEF TypeOK
  <2>3. Phase' = Phase
    BY <2>1 DEF Phase
  <2>4. ASSUME NEW g \in Feed
        PROVE  View'[g] = View[g]
    <3>1. CASE g = f
      <4>1. View[f] = (delivered[f] \o queue[f]) \o <<fanout.event>>
        BY <2>1 DEF View, InFlight
      <4>2. queue'[f] = Append(queue[f], fanout.event) /\ f \notin fanout'.to
        BY <2>1 DEF TypeOK
      <4>3. View'[f] = (delivered[f] \o Append(queue[f], fanout.event)) \o <<>>
        BY <2>1, <4>2 DEF View, InFlight
      <4>4. delivered[f] \in Seq(Event) /\ queue[f] \in Seq(Event)
            /\ fanout.event \in Event
        BY DEF TypeOK
      <4>5. (delivered[f] \o Append(queue[f], fanout.event)) \o <<>>
              = (delivered[f] \o queue[f]) \o <<fanout.event>>
        <5> DEFINE d == delivered[f]  q == queue[f]  e == fanout.event
        <5>1. d \in Seq(Event) /\ q \in Seq(Event) /\ e \in Event
          BY <4>4
        <5> HIDE DEF d, q, e
        <5>2. (d \o Append(q, e)) \o <<>> = (d \o q) \o <<e>>
          BY <5>1, PutMoves
        <5> QED BY <5>2 DEF d, q, e
      <4>6. View'[f] = View[f]
        BY <4>1, <4>3, <4>5
      <4> QED BY <3>1, <4>6
    <3>2. CASE g # f
      <4>1. queue'[g] = queue[g] /\ (g \in fanout'.to <=> g \in fanout.to)
            /\ fanout'.event = fanout.event /\ delivered'[g] = delivered[g]
        BY <2>1, <3>2 DEF TypeOK
      <4>2. /\ View[g] = (delivered[g] \o queue[g]) \o InFlight(g)
            /\ View'[g] = (delivered'[g] \o queue'[g]) \o InFlight(g)'
        BY DEF View
      <4>3. InFlight(g)' = InFlight(g)
        BY <4>1 DEF InFlight
      <4> QED BY <4>1, <4>2, <4>3
    <3> QED BY <3>1, <3>2
  <2>5. View' = View
    BY <2>4 DEF View
  <2> QED BY <2>1, <2>2, <2>3, <2>5 DEF Stream!vars
<1>7. ASSUME NEW f \in Feed, Subscribe(f)
      PROVE  FeedInv' /\ Stream!Open(f)
  <2>1. /\ f \notin subscribers \cup gone
        /\ queue' = [queue EXCEPT ![f] = replay]
        /\ subscribers' = subscribers \cup {f}
        /\ UNCHANGED <<run, published, replay, gone, delivered, fanout>>
    BY <1>7 DEF Subscribe, threadVars, countVars, feedVars
  <2>2. delivered[f] = <<>> /\ f \notin fanout.to
    BY <2>1 DEF FeedInv
  <2>3. FeedInv'
    BY <2>1 DEF FeedInv, TypeOK
  <2>4. Phase[f] = "new" /\ Phase' = [Phase EXCEPT ![f] = "open"]
    BY <2>1 DEF Phase
  <2>5. View' = [View EXCEPT ![f] = replay]
    <3>1. ASSUME NEW g \in Feed
          PROVE  View'[g] = IF g = f THEN replay ELSE View[g]
      <4>1. CASE g = f
        <5>1. View'[f] = (<<>> \o replay) \o <<>>
          BY <2>1, <2>2 DEF View, InFlight, TypeOK
        <5>2. replay \in Seq(Event)
          BY DEF TypeOK
        <5>3. (<<>> \o replay) \o <<>> = replay
          BY <5>2, ConcatEmptySeq
        <5> QED BY <4>1, <5>1, <5>3
      <4>2. CASE g # f
        BY <2>1, <4>2 DEF View, InFlight, TypeOK
      <4> QED BY <4>1, <4>2
    <3> QED BY <3>1 DEF View
  <2> QED BY <2>1, <2>3, <2>4, <2>5 DEF Stream!Open
<1>8. ASSUME NEW f \in Feed, Take(f)
      PROVE  FeedInv' /\ UNCHANGED Stream!vars
  <2>1. /\ f \in subscribers /\ queue[f] # <<>>
        /\ queue' = [queue EXCEPT ![f] = Tail(@)]
        /\ delivered' = [delivered EXCEPT ![f] = Append(@, Head(queue[f]))]
        /\ UNCHANGED <<run, published, replay, subscribers, gone, fanout>>
    BY <1>8 DEF Take, threadVars, countVars
  <2>2. FeedInv'
    BY <2>1 DEF FeedInv, TypeOK
  <2>3. Phase' = Phase
    BY <2>1 DEF Phase
  <2>4. ASSUME NEW g \in Feed
        PROVE  View'[g] = View[g]
    <3>1. CASE g = f
      <4>1. delivered[f] \in Seq(Event) /\ queue[f] \in Seq(Event)
        BY DEF TypeOK
      <4>2. Append(delivered[f], Head(queue[f])) \o Tail(queue[f])
              = delivered[f] \o queue[f]
        BY <4>1, <2>1, TakeMoves
      <4>3. /\ queue'[f] = Tail(queue[f])
            /\ delivered'[f] = Append(delivered[f], Head(queue[f]))
        BY <2>1 DEF TypeOK
      <4>4. InFlight(f)' = InFlight(f)
        BY <2>1 DEF InFlight
      <4>5. /\ View[f] = (delivered[f] \o queue[f]) \o InFlight(f)
            /\ View'[f] = (delivered'[f] \o queue'[f]) \o InFlight(f)'
        BY DEF View
      <4>6. View'[f] = View[f]
        BY <4>2, <4>3, <4>4, <4>5
      <4> QED BY <3>1, <4>6
    <3>2. CASE g # f
      BY <2>1, <3>2 DEF View, InFlight, TypeOK
    <3> QED BY <3>1, <3>2
  <2>5. View' = View
    BY <2>4 DEF View
  <2> QED BY <2>1, <2>2, <2>3, <2>5 DEF Stream!vars
<1>9. ASSUME NEW f \in Feed, Unsubscribe(f)
      PROVE  FeedInv' /\ Stream!Close(f)
  <2>1. /\ f \in subscribers
        /\ subscribers' = subscribers \ {f}
        /\ gone' = gone \cup {f}
        /\ UNCHANGED <<run, published, replay, queue, delivered, fanout>>
    BY <1>9 DEF Unsubscribe, threadVars, countVars
  <2>2. FeedInv'
    BY <2>1 DEF FeedInv
  <2>3. Phase[f] = "open" /\ Phase' = [Phase EXCEPT ![f] = "closed"]
    BY <2>1 DEF Phase, FeedInv
  <2>4. View' = View
    BY <2>1 DEF View, InFlight
  <2> QED BY <2>1, <2>2, <2>3, <2>4 DEF Stream!Close
<1>10. CASE \/ \E s \in Request, b \in Build \cup {DemoId} : StopRead(s, b)
            \/ \E s \in Request : StopWrite(s)
            \/ UNCHANGED vars
  <2>1. UNCHANGED <<run, published, replay, subscribers, gone, delivered, queue, fanout>>
    BY <1>10 DEF StopRead, StopWrite, vars, slotVars, threadVars, countVars, feedVars
  <2> QED BY <2>1, HiddenRefines
<1>11. (\E f \in Feed : Stream!Open(f) \/ Stream!Close(f)) \/ Stream!NewRun => Stream!Next
  BY DEF Stream!Next
<1> QED BY <1>1, <1>3, <1>4, <1>5, <1>6, <1>7, <1>8, <1>9, <1>10, <1>11
        DEF Next, RunStep

\* Fanning out to queues one by one, with readers that come, read and go,
\* looks to each reader like publishing in one step.
THEOREM ManagerImplementsStream == Spec => ImplementsStream
<1>1. Init => TypeOK /\ FeedInv /\ Stream!Init
  BY InitType, InitRefines
<1>2. TypeOK /\ FeedInv /\ [Next]_vars
        => TypeOK' /\ FeedInv' /\ [Stream!Next]_(Stream!vars)
  BY NextType, NextRefines
<1> QED BY <1>1, <1>2, PTL DEF Spec, ImplementsStream, Stream!Spec
\* Hence, whatever the threads do, each reader's events follow one another
\* without a gap, and an open feed has, or will be given, the newest one.
Proved == INSTANCE EventStream_proofs WITH phase <- Phase, view <- View

THEOREM FeedsAlwaysExact == Spec => []FeedsAreExact
<1>1. Spec => Proved!Spec
  <2>1. Stream!Init => Proved!Init
    BY DEF Stream!Init, Proved!Init
  <2>2. [Stream!Next]_(Stream!vars) => [Proved!Next]_(Proved!vars)
    BY DEF Stream!Next, Proved!Next, Stream!vars, Proved!vars, Stream!NewRun,
       Proved!NewRun, Stream!Publish, Proved!Publish, Stream!Open, Proved!Open,
       Stream!Close, Proved!Close, Stream!LastOf, Proved!LastOf
  <2> QED BY <2>1, <2>2, ManagerImplementsStream, PTL
          DEF ImplementsStream, Stream!Spec, Proved!Spec
<1>2. Proved!Spec => [](Proved!InOrder /\ Proved!UpToDate)
  BY BoundsAssumption, Proved!StreamIsExact
<1>3. (Proved!InOrder /\ Proved!UpToDate) => FeedsAreExact
  BY DEF FeedsAreExact, Stream!InOrder, Proved!InOrder, Stream!Follows,
     Proved!Follows, Stream!UpToDate, Proved!UpToDate
<1> QED BY <1>1, <1>2, <1>3, PTL
=============================================================================

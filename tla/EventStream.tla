----------------------------- MODULE EventStream -----------------------------
(***************************************************************************)
(* What the event stream of the web interface promises its readers.        *)
(*                                                                         *)
(* Runs follow one another.  Publishing is one indivisible step that       *)
(* reaches every open feed, and a feed that opens late first gets the      *)
(* events of the current run, as far as they are still remembered.         *)
(* RunManager.tla implements this with queues, a replay buffer and a       *)
(* fan-out that other threads may interrupt.                               *)
(***************************************************************************)
EXTENDS Integers, Sequences

CONSTANTS
  Feed,        \* the connections readers may open, each of them once
  Type,        \* the types of event
  Id,          \* the build ids an event may carry
  MaxReplay    \* how many events of a run are remembered

Event == [run : Nat, n : Nat \ {0}, type : Type, build_id : Id]

VARIABLES
  run,         \* number of the current run
  published,   \* number of events the current run has published
  replay,      \* the last of them
  phase,       \* of each feed: "new", "open" or "closed"
  view         \* all events a feed was or will be given, in order

vars == <<run, published, replay, phase, view>>

\* The last n elements of s.
LastOf(s, n) == IF Len(s) > n THEN SubSeq(s, Len(s) - n + 1, Len(s)) ELSE s

Init ==
  /\ run = 0
  /\ published = 0
  /\ replay = <<>>
  /\ phase = [f \in Feed |-> "new"]
  /\ view = [f \in Feed |-> <<>>]

NewRun ==
  /\ run' = run + 1
  /\ published' = 0
  /\ replay' = <<>>
  /\ UNCHANGED <<phase, view>>

Publish(t, b) ==
  LET e == [run |-> run, n |-> published + 1, type |-> t, build_id |-> b] IN
  /\ published' = published + 1
  /\ replay' = LastOf(Append(replay, e), MaxReplay)
  /\ view' = [f \in Feed |->
                IF phase[f] = "open" THEN Append(view[f], e) ELSE view[f]]
  /\ UNCHANGED <<run, phase>>

Open(f) ==
  /\ phase[f] = "new"
  /\ phase' = [phase EXCEPT ![f] = "open"]
  /\ view' = [view EXCEPT ![f] = replay]
  /\ UNCHANGED <<run, published, replay>>

Close(f) ==
  /\ phase[f] = "open"
  /\ phase' = [phase EXCEPT ![f] = "closed"]
  /\ UNCHANGED <<run, published, replay, view>>

Next ==
  \/ NewRun
  \/ \E t \in Type, b \in Id : Publish(t, b)
  \/ \E f \in Feed : Open(f) \/ Close(f)

Spec == Init /\ [][Next]_vars

\* b comes right after a: the next event of the same run, or the first event
\* of a later one.
Follows(a, b) ==
  \/ b.run = a.run /\ b.n = a.n + 1
  \/ b.run > a.run /\ b.n = 1

\* A feed gets the events in the order in which they were published, none of
\* them twice, and none is left out between two that it gets.
InOrder ==
  \A f \in Feed : \A i \in 1 .. Len(view[f]) - 1 :
    Follows(view[f][i], view[f][i + 1])

\* An open feed is up to date: its last event is the last one published.
UpToDate ==
  \A f \in Feed :
    (phase[f] = "open" /\ published > 0 /\ MaxReplay > 0) =>
      /\ view[f] # <<>>
      /\ view[f][Len(view[f])].run = run
      /\ view[f][Len(view[f])].n = published
=============================================================================

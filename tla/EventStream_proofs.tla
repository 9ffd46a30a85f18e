-------------------------- MODULE EventStream_proofs --------------------------
(***************************************************************************)
(* Proof that every behaviour of EventStream gives each feed the events in *)
(* order, once, without a gap, and keeps open feeds up to date.            *)
(***************************************************************************)
EXTENDS EventStream, SequenceTheorems, TLAPS

TypeInv ==
  /\ run \in Nat
  /\ published \in Nat
  /\ replay \in Seq(Event)
  /\ phase \in [Feed -> {"new", "open", "closed"}]
  /\ view \in [Feed -> Seq(Event)]

\* The replay buffer holds the last events of the current run, and is empty
\* only when there are none.
ReplayInv ==
  /\ \A i \in 1 .. Len(replay) :
       replay[i].run = run /\ replay[i].n = published - Len(replay) + i
  /\ Len(replay) = 0 <=> published = 0

\* No feed is ahead of the current run, and the last event of an open one is
\* the last published, unless the current run has published none.
LastInv ==
  \A f \in Feed :
    /\ \A i \in 1 .. Len(view[f]) : view[f][i].run <= run
    /\ phase[f] = "open" =>
         IF published = 0
         THEN \A i \in 1 .. Len(view[f]) : view[f][i].run < run
         ELSE /\ Len(view[f]) > 0
              /\ view[f][Len(view[f])].run = run
              /\ view[f][Len(view[f])].n = published

IInv == TypeInv /\ ReplayInv /\ LastInv /\ InOrder

LEMMA InitHolds == Init => IInv
  BY DEF Init, IInv, TypeInv, ReplayInv, LastInv, InOrder, Event

\* What a step of publishing does to the replay buffer.
LEMMA PublishReplay ==
  ASSUME MaxReplay \in Nat \ {0}, IInv,
         NEW t \in Type, NEW b \in Id, Publish(t, b)
  PROVE  replay' \in Seq(Event) /\ ReplayInv'
<1> DEFINE e == [run |-> run, n |-> published + 1, type |-> t, build_id |-> b]
<1> DEFINE r == Append(replay, e)
<1>1. e \in Event /\ r \in Seq(Event) /\ Len(r) = Len(replay) + 1
  BY DEF IInv, TypeInv, Event
<1>2. \A i \in 1 .. Len(r) : r[i].run = run /\ r[i].n = published + 1 - Len(r) + i
  <2> SUFFICES ASSUME NEW i \in 1 .. Len(r)
               PROVE  r[i].run = run /\ r[i].n = published + 1 - Len(r) + i
    OBVIOUS
  <2>1. CASE i = Len(r)
    <3>1. r[i] = e
      BY <2>1, <1>1 DEF IInv, TypeInv
    <3> QED BY <3>1, <2>1, <1>1 DEF IInv, TypeInv
  <2>2. CASE i # Len(r)
    <3>1. i \in 1 .. Len(replay) /\ r[i] = replay[i]
      BY <2>2, <1>1 DEF IInv, TypeInv
    <3> QED BY <3>1, <1>1 DEF IInv, TypeInv, ReplayInv
  <2> QED BY <2>1, <2>2
<1>3. replay' = LastOf(r, MaxReplay) /\ published' = published + 1 /\ run' = run
  BY DEF Publish
<1> HIDE DEF r, e
<1>4. Len(replay) \in Nat /\ Len(r) \in Nat /\ run \in Nat /\ published \in Nat
  BY <1>1 DEF IInv, TypeInv
<1>5. CASE Len(r) > MaxReplay
  <2>1. replay' = SubSeq(r, Len(r) - MaxReplay + 1, Len(r))
    BY <1>3, <1>5 DEF LastOf
  <2>2. /\ replay' \in Seq(Event)
        /\ Len(replay') = MaxReplay
        /\ \A i \in 1 .. MaxReplay : replay'[i] = r[Len(r) - MaxReplay + i]
    <3> DEFINE m == Len(r) - MaxReplay + 1
    <3>1. m \in Int /\ m > 1 /\ m <= Len(r) /\ Len(r) - m + 1 = MaxReplay
      BY <1>4, <1>5
    <3>2. \A i \in m .. Len(r) : r[i] \in Event
      BY <3>1, <1>1, <1>4, ElementOfSeq
    <3>3. /\ SubSeq(r, m, Len(r)) \in Seq(Event)
          /\ Len(SubSeq(r, m, Len(r))) =
               IF m <= Len(r) THEN Len(r) - m + 1 ELSE 0
          /\ \A i \in 1 .. Len(r) - m + 1 :
               SubSeq(r, m, Len(r))[i] = r[m + i - 1]
      <4> HIDE DEF m
      <4> QED BY <3>1, <3>2, <1>4, SubSeqProperties
    <3>4. \A i \in 1 .. MaxReplay : m + i - 1 = Len(r) - MaxReplay + i
      BY <1>4
    <3> QED BY <2>1, <3>1, <3>3, <3>4
  <2>3. ASSUME NEW i \in 1 .. MaxReplay
        PROVE  replay'[i].run = run /\ replay'[i].n = published + 1 - MaxReplay + i
    <3>1. Len(r) - MaxReplay + i \in 1 .. Len(r)
      BY <1>4, <1>5
    <3>2. replay'[i] = r[Len(r) - MaxReplay + i]
      BY <2>2
    <3>3. /\ r[Len(r) - MaxReplay + i].run = run
          /\ r[Len(r) - MaxReplay + i].n =
               published + 1 - Len(r) + (Len(r) - MaxReplay + i)
      BY <3>1, <1>2
    <3> QED BY <3>2, <3>3, <1>4
  <2> QED BY <2>2, <2>3, <1>3, <1>4 DEF ReplayInv
<1>6. CASE ~(Len(r) > MaxReplay)
  <2>1. replay' = r
    BY <1>3, <1>6 DEF LastOf
  <2>2. run' = run /\ published' = published + 1
    BY <1>3
  <2>3. \A i \in 1 .. Len(replay') :
          replay'[i].run = run' /\ replay'[i].n = published' - Len(replay') + i
    <3>1. ASSUME NEW i \in 1 .. Len(r)
          PROVE  r[i].run = run' /\ r[i].n = published' - Len(r) + i
      <4>1. published' - Len(r) + i = published + 1 - Len(r) + i
        BY <2>2, <1>4
      <4> QED BY <4>1, <2>2, <1>2
    <3> QED BY <3>1, <2>1
  <2>4. Len(r) # 0 /\ published' # 0
    BY <2>2, <1>1, <1>4
  <2> QED BY <2>1, <2>3, <2>4, <1>1 DEF ReplayInv
<1> QED BY <1>5, <1>6

\* ... and to the feeds.
LEMMA PublishViews ==
  ASSUME IInv, NEW t \in Type, NEW b \in Id, Publish(t, b)
  PROVE  view' \in [Feed -> Seq(Event)] /\ LastInv' /\ InOrder'
<1> DEFINE e == [run |-> run, n |-> published + 1, type |-> t, build_id |-> b]
<1>1. e \in Event /\ e.run = run /\ e.n = published + 1
  BY DEF IInv, TypeInv, Event
<1>2. /\ published' = published + 1 /\ run' = run /\ phase' = phase
      /\ \A f \in Feed : view'[f] = IF phase[f] = "open" THEN Append(view[f], e)
                                    ELSE view[f]
  BY DEF Publish
<1>3. view' \in [Feed -> Seq(Event)]
  BY <1>1 DEF Publish, IInv, TypeInv
<1> HIDE DEF e
<1>4. ASSUME NEW f \in Feed
      PROVE  /\ \A i \in 1 .. Len(view'[f]) : view'[f][i].run <= run
             /\ phase[f] = "open" =>
                  /\ Len(view'[f]) > 0
                  /\ view'[f][Len(view'[f])].run = run
                  /\ view'[f][Len(view'[f])].n = published + 1
             /\ \A i \in 1 .. Len(view'[f]) - 1 :
                  Follows(view'[f][i], view'[f][i + 1])
  <2>1. CASE phase[f] # "open"
    BY <2>1, <1>2, <1>4 DEF IInv, LastInv, InOrder
  <2>2. CASE phase[f] = "open"
    <3> DEFINE v == view[f]
    <3>1. /\ v \in Seq(Event) /\ view'[f] = Append(v, e)
          /\ Len(view'[f]) = Len(v) + 1 /\ view'[f][Len(v) + 1] = e
          /\ \A i \in 1 .. Len(v) : view'[f][i] = v[i]
      <4>1. v \in Seq(Event) /\ view'[f] = Append(v, e)
        BY <2>2, <1>2 DEF IInv, TypeInv
      <4> HIDE DEF v
      <4> QED BY <4>1, <1>1, AppendProperties
    <3>2. Len(v) > 0 => Follows(v[Len(v)], e)
      <4> SUFFICES ASSUME Len(v) > 0 PROVE Follows(v[Len(v)], e)
        OBVIOUS
      <4>1. CASE published = 0
        <5>1. v[Len(v)].run < run
          BY <4>1, <2>2, <3>1 DEF IInv, LastInv
        <5> QED BY <5>1, <4>1, <1>1 DEF Follows
      <4>2. CASE published # 0
        BY <4>2, <2>2, <1>1 DEF IInv, LastInv, Follows
      <4> QED BY <4>1, <4>2
    <3>3. \A i \in 1 .. Len(v) : v[i].run <= run
      BY DEF IInv, LastInv
    <3>4. \A i \in 1 .. Len(v) - 1 : Follows(v[i], v[i + 1])
      BY DEF IInv, InOrder
    <3>5. \A i \in 1 .. Len(view'[f]) : view'[f][i].run <= run
      <4> SUFFICES ASSUME NEW i \in 1 .. Len(v) + 1
                   PROVE  view'[f][i].run <= run
        BY <3>1
      <4>1. CASE i = Len(v) + 1
        BY <4>1, <3>1, <1>1 DEF IInv, TypeInv
      <4>2. CASE i # Len(v) + 1
        <5>1. i \in 1 .. Len(v)
          BY <4>2, <3>1
        <5> QED BY <5>1, <3>1, <3>3
      <4> QED BY <4>1, <4>2
    <3>6. \A i \in 1 .. Len(v) : Follows(view'[f][i], view'[f][i + 1])
      <4> SUFFICES ASSUME NEW i \in 1 .. Len(v)
                   PROVE  Follows(view'[f][i], view'[f][i + 1])
        OBVIOUS
      <4>1. CASE i = Len(v)
        <5>1. Len(v) > 0
          BY <4>1
        <5> QED BY <5>1, <4>1, <3>1, <3>2
      <4>2. CASE i # Len(v)
        <5>1. i \in 1 .. Len(v) - 1 /\ i + 1 \in 1 .. Len(v)
          BY <4>2, <3>1
        <5>2. view'[f][i] = v[i] /\ view'[f][i + 1] = v[i + 1]
          BY <5>1, <3>1
        <5> QED BY <5>1, <5>2, <3>4
      <4> QED BY <4>1, <4>2
    <3>7. Len(view'[f]) > 0 /\ Len(view'[f]) - 1 = Len(v)
      BY <3>1
    <3> QED BY <3>1, <3>5, <3>6, <3>7, <1>1
  <2> QED BY <2>1, <2>2
<1>5. InOrder'
  BY <1>4 DEF InOrder
<1>6. LastInv'
  BY <1>2, <1>4 DEF LastInv, IInv, TypeInv
<1> QED BY <1>3, <1>5, <1>6

LEMMA NextKeeps ==
  ASSUME MaxReplay \in Nat \ {0}, IInv, [Next]_vars
  PROVE  IInv'
<1>1. CASE NewRun
  <2>1. TypeInv' /\ ReplayInv'
    BY <1>1 DEF NewRun, IInv, TypeInv, ReplayInv
  <2>2. LastInv'
    <3>1. ASSUME NEW f \in Feed, NEW i \in 1 .. Len(view[f])
          PROVE  view[f][i].run <= run + 1 /\ view[f][i].run < run + 1
      <4>1. view[f] \in Seq(Event)
        BY DEF IInv, TypeInv
      <4>2. view[f][i] \in Event
        BY <4>1, ElementOfSeq
      <4>3. view[f][i].run \in Nat /\ view[f][i].run <= run /\ run \in Nat
        BY <4>2 DEF Event, IInv, LastInv, TypeInv
      <4> QED BY <4>3
    <3>2. run' = run + 1 /\ published' = 0 /\ view' = view
      BY <1>1 DEF NewRun
    <3> QED BY <3>1, <3>2 DEF LastInv
  <2>3. InOrder'
    BY <1>1 DEF NewRun, IInv, InOrder
  <2> QED BY <2>1, <2>2, <2>3 DEF IInv
<1>2. ASSUME NEW t \in Type, NEW b \in Id, Publish(t, b)
      PROVE  IInv'
  <2>1. run' \in Nat /\ published' \in Nat /\ phase' = phase
    BY <1>2 DEF Publish, IInv, TypeInv
  <2> QED BY <1>2, <2>1, PublishReplay, PublishViews DEF IInv, TypeInv
<1>3. ASSUME NEW f \in Feed, Open(f)
      PROVE  IInv'
  <2>1. TypeInv' /\ ReplayInv'
    BY <1>3 DEF Open, IInv, TypeInv, ReplayInv
  <2>2. /\ run' = run /\ published' = published
        /\ \A g \in Feed : IF g = f THEN view'[g] = replay /\ phase'[g] = "open"
                           ELSE view'[g] = view[g] /\ phase'[g] = phase[g]
    BY <1>3 DEF Open, IInv, TypeInv
  <2>3. /\ Len(replay) \in Nat
        /\ \A i \in 1 .. Len(replay) :
             replay[i].run = run /\ replay[i].n = published - Len(replay) + i
    BY DEF IInv, TypeInv, ReplayInv
  <2>4. InOrder'
    <3>1. \A i \in 1 .. Len(replay) - 1 : Follows(replay[i], replay[i + 1])
      <4> SUFFICES ASSUME NEW i \in 1 .. Len(replay) - 1
                   PROVE  Follows(replay[i], replay[i + 1])
        OBVIOUS
      <4>1. i \in 1 .. Len(replay) /\ i + 1 \in 1 .. Len(replay)
        BY <2>3
      <4>2. replay[i + 1].n = published - Len(replay) + (i + 1)
        BY <4>1, <2>3
      <4>3. published \in Nat
        BY DEF IInv, TypeInv
      <4> QED BY <4>1, <4>2, <4>3, <2>3 DEF Follows
    <3> QED BY <2>2, <3>1 DEF InOrder, IInv
  <2>5. ASSUME NEW g \in Feed
        PROVE  /\ \A i \in 1 .. Len(view'[g]) : view'[g][i].run <= run
               /\ phase'[g] = "open" =>
                    IF published = 0
                    THEN \A i \in 1 .. Len(view'[g]) : view'[g][i].run < run
                    ELSE /\ Len(view'[g]) > 0
                         /\ view'[g][Len(view'[g])].run = run
                         /\ view'[g][Len(view'[g])].n = published
    <3>1. CASE g = f
      <4>1. view'[g] = replay
        BY <3>1, <2>2
      <4>2. CASE published = 0
        <5>1. Len(replay) = 0
          BY <4>2 DEF IInv, ReplayInv
        <5> QED BY <5>1, <4>1, <4>2
      <4>3. CASE published # 0
        <5>1. Len(replay) > 0
          BY <4>3, <2>3 DEF IInv, ReplayInv
        <5>2. replay[Len(replay)].run = run /\ replay[Len(replay)].n = published
          BY <5>1, <2>3 DEF IInv, TypeInv
        <5>3. \A i \in 1 .. Len(replay) : replay[i].run <= run
          BY <2>3 DEF IInv, TypeInv
        <5> QED BY <5>1, <5>2, <5>3, <4>1, <4>3
      <4> QED BY <4>2, <4>3
    <3>2. CASE g # f
      BY <3>2, <2>2 DEF IInv, LastInv
    <3> QED BY <3>1, <3>2
  <2>6. LastInv'
    BY <2>2, <2>5 DEF LastInv
  <2> QED BY <2>1, <2>4, <2>6 DEF IInv
<1>4. ASSUME NEW f \in Feed, Close(f)
      PROVE  IInv'
  <2>1. TypeInv' /\ ReplayInv' /\ InOrder'
    BY <1>4 DEF Close, IInv, TypeInv, ReplayInv, InOrder
  <2>2. LastInv'
    <3>1. \A g \in Feed : phase'[g] = "open" => phase[g] = "open"
      BY <1>4 DEF Close, IInv, TypeInv
    <3> QED BY <1>4, <3>1 DEF Close, IInv, LastInv
  <2> QED BY <2>1, <2>2 DEF IInv
<1>5. CASE UNCHANGED vars
  BY <1>5 DEF vars, IInv, TypeInv, ReplayInv, LastInv, InOrder
<1> QED BY <1>1, <1>2, <1>3, <1>4, <1>5 DEF Next

LEMMA ExactFromInv ==
  ASSUME IInv
  PROVE  InOrder /\ UpToDate
BY DEF IInv, TypeInv, LastInv, UpToDate

\* Readers get every event once, in order and without a gap, however many
\* feeds there are and however long the runs.
THEOREM StreamIsExact ==
  ASSUME MaxReplay \in Nat \ {0}
  PROVE  Spec => [](InOrder /\ UpToDate)
<1>1. Init => IInv
  BY InitHolds
<1>2. IInv /\ [Next]_vars => IInv'
  BY NextKeeps
<1>3. IInv => InOrder /\ UpToDate
  BY ExactFromInv
<1> QED BY <1>1, <1>2, <1>3, PTL DEF Spec
=============================================================================

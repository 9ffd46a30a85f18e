---------------------------- MODULE Board_proofs ----------------------------
(***************************************************************************)
(* Proof that a board that has got all its events shows the last lines of  *)
(* the current run, and only that run where it saw it begin: for every     *)
(* number of runs, of lines, of connections and of remembered events.      *)
(***************************************************************************)
EXTENDS Board, EventStream_proofs

\* How many events of the tab's connection come before the current run's; it is
\* negative when the connection came too late for the first ones of the run.
Base == Len(view[conn]) - published

\* Of the lines ls, the first l are those among the first m events.
Counts(ls, m, l) == \A k \in 1 .. Len(ls) : k <= l <=> ls[k].n <= m

\* The lines are numbered in their order, after the start.
Numbered(ls) ==
  /\ \A k \in 1 .. Len(ls) : k + 1 <= ls[k].n
  /\ \A j, k \in 1 .. Len(ls) : j < k => ls[j].n < ls[k].n

\* An event of a run that stands at lv and said ls is what its number says.
Fits(e, lv, ls) ==
  /\ lv = "failed" => e.type # "start"
  /\ lv \in {"begun", "over"} =>
       /\ e.type = "start" <=> e.n = 1
       /\ e.type = "log" <=> \E k \in 1 .. Len(ls) : ls[k].n = e.n

\* The newest of s are the lines l0 + 1 .. l of ls, as far as there is room.
Shows(s, ls, l0, l) ==
  \A j \in 0 .. LogCap - 1 :
    l - j > l0 => j < Len(s) /\ s[Len(s) - j] = ls[l - j]

LiveState == [start : Tags, node : Tags, log : Seq(Tags), terminal : Tags,
              error : Tags]

BoardTypeInv ==
  BoardTypeOK /\ board \in LiveState /\ run <= MaxRuns /\ lines \in Seq(Tags)

\* A run is its start, nodes, lines and perhaps its end.
RunInv ==
  /\ live \in {"none", "called"} => published = 0 /\ nodes = 0 /\ lines = <<>>
  /\ live = "failed" => lines = <<>>
  /\ Begun => published = 1 + nodes + Len(lines) + (IF live = "over" THEN 1 ELSE 0)
  /\ Numbered(lines)
  /\ \A k \in 1 .. Len(lines) : lines[k].run = run /\ lines[k].n <= published
  /\ \A m \in 0 .. published : \E l \in 0 .. Len(lines) : Counts(lines, m, l)

\* The server forgets only what it has no room for.
MemoryInv ==
  /\ Len(replay) < published => Len(replay) = MaxReplay
  /\ \A i \in 1 .. Len(replay) : Fits(replay[i], live, lines)

\* The tab's connection has the events of older runs, then those of this run.
ViewInv ==
  online =>
    /\ conn \in Feed /\ phase[conn] = "open" /\ taken <= Len(view[conn])
    /\ Base < 0 => Len(view[conn]) >= MaxReplay
    /\ \A i \in 1 .. Len(view[conn]) :
         IF i > Base
         THEN /\ view[conn][i].run = run /\ view[conn][i].n = i - Base
              /\ Fits(view[conn][i], live, lines)
         ELSE view[conn][i].run < run

\* A tab that has got some of this run's events shows the lines among those
\* that its connection brought it; when it saw the run begin, it shows nothing
\* else.
TailInv ==
  online /\ Begun /\ taken > Base =>
    /\ \E l0, l \in 0 .. Len(lines) :
         /\ Counts(lines, -Base, l0) /\ Counts(lines, taken - Base, l)
         /\ Shows(board.log, lines, l0, l)
         /\ Base >= 0 => Len(board.log) <= l
    /\ Base >= 0 =>
         \A tag \in {board.start, board.node, board.terminal, board.error} :
           tag.run \in {0, run}

BoardInv == BoardTypeInv /\ RunInv /\ MemoryInv /\ ViewInv /\ TailInv

-----------------------------------------------------------------------------
(* Sequences and lines                                                      *)

\* Tags with the same run and number are the same.
LEMMA TagsEqual ==
  ASSUME NEW a \in Tags, NEW b \in Tags, a.run = b.run, a.n = b.n
  PROVE  a = b
BY DEF Tags

\* The last n of a sequence.
LEMMA LastOfProperties ==
  ASSUME NEW S, NEW s \in Seq(S), NEW n \in Nat
  PROVE  /\ LastOf(s, n) \in Seq(S)
         /\ Len(LastOf(s, n)) = IF Len(s) > n THEN n ELSE Len(s)
         /\ \A i \in 1 .. Len(LastOf(s, n)) :
              /\ Len(s) - Len(LastOf(s, n)) + i \in 1 .. Len(s)
              /\ LastOf(s, n)[i] = s[Len(s) - Len(LastOf(s, n)) + i]
<1>1. Len(s) \in Nat
  OBVIOUS
<1>2. CASE Len(s) > n
  <2> DEFINE m == Len(s) - n + 1
  <2>1. m \in Int /\ m >= 2 /\ Len(s) - m + 1 = n
    BY <1>1, <1>2
  <2>2. LastOf(s, n) = SubSeq(s, m, Len(s))
    BY <1>2 DEF LastOf
  <2>3. \A i \in m .. Len(s) : s[i] \in S
    BY <2>1, <1>1, ElementOfSeq
  <2>4. m <= Len(s) + 1
    BY <1>1, <1>2
  <2>5. /\ SubSeq(s, m, Len(s)) \in Seq(S)
        /\ Len(SubSeq(s, m, Len(s))) = IF m <= Len(s) THEN Len(s) - m + 1 ELSE 0
        /\ \A i \in 1 .. Len(s) - m + 1 : SubSeq(s, m, Len(s))[i] = s[m + i - 1]
    <3> HIDE DEF m
    <3> QED BY <2>1, <2>3, <1>1, SubSeqProperties
  <2>6. Len(LastOf(s, n)) = n
    BY <2>1, <2>2, <2>4, <2>5, <1>1
  <2>7. \A i \in 1 .. n : m + i - 1 = Len(s) - n + i
    BY <1>1
  <2> QED BY <2>1, <2>2, <2>5, <2>6, <2>7, <1>1, <1>2
<1>3. CASE ~(Len(s) > n)
  BY <1>1, <1>3 DEF LastOf
<1> QED BY <1>2, <1>3

\* A line that comes later does not count among the first m events.
LEMMA CountsAppend ==
  ASSUME NEW ls \in Seq(Tags), NEW x \in Tags, NEW m \in Int, m < x.n,
         NEW l \in 0 .. Len(ls), Counts(ls, m, l)
  PROVE  Counts(Append(ls, x), m, l)
<1>1. /\ Len(Append(ls, x)) = Len(ls) + 1 /\ Append(ls, x)[Len(ls) + 1] = x
      /\ \A k \in 1 .. Len(ls) : Append(ls, x)[k] = ls[k]
  BY AppendProperties
<1>2. SUFFICES ASSUME NEW k \in 1 .. Len(ls) + 1
               PROVE  k <= l <=> Append(ls, x)[k].n <= m
  BY <1>1 DEF Counts
<1>3. CASE k = Len(ls) + 1
  <2>1. x.n \in Nat
    BY DEF Tags
  <2> QED BY <1>1, <1>3, <2>1
<1>4. CASE k # Len(ls) + 1
  BY <1>1, <1>4 DEF Counts
<1> QED BY <1>3, <1>4

\* The next event is the next line, or none.
LEMMA CountsNext ==
  ASSUME NEW ls \in Seq(Tags), Numbered(ls), NEW m \in Int,
         NEW l \in 0 .. Len(ls), Counts(ls, m, l)
  PROVE  IF \E k \in 1 .. Len(ls) : ls[k].n = m + 1
         THEN l + 1 <= Len(ls) /\ ls[l + 1].n = m + 1 /\ Counts(ls, m + 1, l + 1)
         ELSE Counts(ls, m + 1, l)
<1>1. \A k \in 1 .. Len(ls) : ls[k].n \in Nat
  <2> SUFFICES ASSUME NEW k \in 1 .. Len(ls) PROVE ls[k].n \in Nat
    OBVIOUS
  <2>1. ls[k] \in Tags
    BY ElementOfSeq
  <2> QED BY <2>1 DEF Tags
<1>2. CASE \E k \in 1 .. Len(ls) : ls[k].n = m + 1
  <2>1. PICK k \in 1 .. Len(ls) : ls[k].n = m + 1
    BY <1>2
  <2>2. ~(k <= l)
    BY <2>1 DEF Counts
  <2>3. l + 1 \in 1 .. Len(ls) /\ ~(l + 1 <= l)
    BY <2>1, <2>2
  <2>4. ~(ls[l + 1].n <= m)
    BY <2>3 DEF Counts
  <2>5. ls[l + 1].n <= m + 1
    <3>1. CASE k = l + 1
      BY <3>1, <2>1
    <3>2. CASE k # l + 1
      <4>1. l + 1 < k
        BY <3>2, <2>1, <2>2
      <4>2. ls[l + 1].n < ls[k].n
        BY <4>1, <2>1, <2>3 DEF Numbered
      <4> QED BY <4>2, <2>1, <1>1, <2>3
    <3> QED BY <3>1, <3>2
  <2>6. ls[l + 1].n = m + 1
    BY <2>3, <2>4, <2>5, <1>1
  <2>7. ASSUME NEW i \in 1 .. Len(ls)
        PROVE  i <= l + 1 <=> ls[i].n <= m + 1
    <3>1. CASE i <= l
      <4>1. ls[i].n <= m
        BY <3>1 DEF Counts
      <4> QED BY <4>1, <3>1, <1>1
    <3>2. CASE i = l + 1
      BY <3>2, <2>6
    <3>3. CASE i > l + 1
      <4>1. ls[l + 1].n < ls[i].n
        BY <3>3, <2>3 DEF Numbered
      <4> QED BY <4>1, <3>3, <2>6, <1>1
    <3> QED BY <3>1, <3>2, <3>3
  <2> QED BY <1>2, <2>3, <2>6, <2>7 DEF Counts
<1>3. CASE ~ \E k \in 1 .. Len(ls) : ls[k].n = m + 1
  <2>1. ASSUME NEW i \in 1 .. Len(ls)
        PROVE  i <= l <=> ls[i].n <= m + 1
    <3>1. ls[i].n # m + 1 /\ ls[i].n \in Nat
      BY <1>1, <1>3
    <3>2. i <= l <=> ls[i].n <= m
      BY DEF Counts
    <3> QED BY <3>1, <3>2
  <2> QED BY <2>1, <1>3 DEF Counts
<1> QED BY <1>2, <1>3

\* Another line of the run changes nothing about those on display.
LEMMA ShowsAppend ==
  ASSUME LogCap \in Nat, NEW ls \in Seq(Tags), NEW x \in Tags, NEW s,
         NEW l0 \in Nat, NEW l \in 0 .. Len(ls), Shows(s, ls, l0, l)
  PROVE  Shows(s, Append(ls, x), l0, l)
<1>1. \A k \in 1 .. Len(ls) : Append(ls, x)[k] = ls[k]
  BY AppendProperties
<1>2. SUFFICES ASSUME NEW j \in 0 .. LogCap - 1, l - j > l0
               PROVE  j < Len(s) /\ s[Len(s) - j] = Append(ls, x)[l - j]
  BY DEF Shows
<1>3. l - j \in 1 .. Len(ls)
  BY <1>2
<1>4. j < Len(s) /\ s[Len(s) - j] = ls[l - j]
  BY <1>2 DEF Shows
<1> QED BY <1>1, <1>3, <1>4

\* The next line goes on display, and one at most goes.
LEMMA ShowsNext ==
  ASSUME LogCap \in Nat, NEW ls \in Seq(Tags), NEW s \in Seq(Tags),
         NEW l0 \in Nat, NEW l \in Nat, l + 1 <= Len(ls), Shows(s, ls, l0, l)
  PROVE  LET c == Capped(Append(s, ls[l + 1])) IN
         /\ c \in Seq(Tags) /\ Len(c) <= LogCap /\ Len(c) <= Len(s) + 1
         /\ Shows(c, ls, l0, l + 1)
<1> DEFINE a == Append(s, ls[l + 1])
           c == Capped(a)
<1>1. ls[l + 1] \in Tags /\ Len(s) \in Nat
  BY ElementOfSeq
<1>2. /\ a \in Seq(Tags) /\ Len(a) = Len(s) + 1 /\ a[Len(s) + 1] = ls[l + 1]
      /\ \A k \in 1 .. Len(s) : a[k] = s[k]
  BY <1>1, AppendProperties
<1>3. c = LastOf(a, LogCap)
  BY DEF Capped
<1> HIDE DEF a, c
<1>4. /\ c \in Seq(Tags) /\ Len(c) = IF Len(a) > LogCap THEN LogCap ELSE Len(a)
      /\ \A i \in 1 .. Len(c) : c[i] = a[Len(a) - Len(c) + i]
  <2>1. a \in Seq(Tags) /\ LogCap \in Nat
    BY <1>2
  <2>2. /\ LastOf(a, LogCap) \in Seq(Tags)
        /\ Len(LastOf(a, LogCap)) = IF Len(a) > LogCap THEN LogCap ELSE Len(a)
        /\ \A i \in 1 .. Len(LastOf(a, LogCap)) :
             LastOf(a, LogCap)[i] = a[Len(a) - Len(LastOf(a, LogCap)) + i]
    BY <2>1, LastOfProperties, Zenon
  <2> QED BY <2>2, <1>3, Zenon
<1>5. ASSUME NEW j \in 0 .. LogCap - 1, l + 1 - j > l0
      PROVE  j < Len(c) /\ c[Len(c) - j] = ls[l + 1 - j]
  <2>1. CASE j = 0
    <3>1. Len(c) \in 1 .. Len(c) /\ Len(c) \in Nat
      BY <2>1, <1>5, <1>4, <1>2, <1>1
    <3>2. c[Len(c)] = a[Len(a) - Len(c) + Len(c)]
      BY <3>1, <1>4
    <3>3. Len(a) - Len(c) + Len(c) = Len(s) + 1
      BY <3>1, <1>1, <1>2
    <3>4. Len(c) - j = Len(c) /\ l + 1 - j = l + 1 /\ j < Len(c)
      BY <2>1, <3>1
    <3> QED BY <3>2, <3>3, <3>4, <1>2
  <2>2. CASE j # 0
    <3>1. j - 1 \in 0 .. LogCap - 1 /\ l - (j - 1) > l0
      BY <2>2, <1>5
    <3>2. j - 1 < Len(s) /\ s[Len(s) - (j - 1)] = ls[l - (j - 1)]
      BY <3>1 DEF Shows
    <3>3. j < Len(c) /\ Len(c) \in Nat
      BY <3>2, <1>5, <1>4, <1>2, <1>1
    <3>4. Len(c) - j \in 1 .. Len(c)
      BY <3>3, <1>5
    <3>5. c[Len(c) - j] = a[Len(a) - Len(c) + (Len(c) - j)]
      BY <3>4, <1>4
    <3>6. /\ Len(a) - Len(c) + (Len(c) - j) = Len(s) - (j - 1)
          /\ l - (j - 1) = l + 1 - j
      BY <3>3, <1>2, <1>1
    <3>7. Len(s) - (j - 1) \in 1 .. Len(s)
      BY <3>2, <2>2, <1>1
    <3> QED BY <3>2, <3>3, <3>5, <3>6, <3>7, <1>2
  <2> QED BY <2>1, <2>2
<1>6. Len(c) <= LogCap /\ Len(c) <= Len(s) + 1
  BY <1>4, <1>2, <1>1
<1> QED BY <1>4, <1>5, <1>6 DEF Shows, a, c

-----------------------------------------------------------------------------
(* The steps of the run                                                     *)

\* What publishing does to the stream and to the tab's connection.
LEMMA Publishes ==
  ASSUME BoardAssumption, IInv, BoardInv, NEW t \in Type, NEW b \in Id,
         Publish(t, b), UNCHANGED tabVars
  PROVE  \E e \in Event :
           /\ e.run = run /\ e.n = published + 1 /\ e.type = t
           /\ run' = run /\ published' = published + 1 /\ published \in Nat
           /\ Len(replay') < published' => Len(replay') = MaxReplay
           /\ \A i \in 1 .. Len(replay') :
                replay'[i] = e \/ \E j \in 1 .. Len(replay) : replay'[i] = replay[j]
           /\ online =>
                /\ phase'[conn] = "open"
                /\ Len(view'[conn]) = Len(view[conn]) + 1
                /\ Len(view[conn]) \in Nat
                /\ view'[conn][Len(view[conn]) + 1] = e
                /\ \A i \in 1 .. Len(view[conn]) : view'[conn][i] = view[conn][i]
<1> DEFINE e == [run |-> run, n |-> published + 1, type |-> t, build_id |-> b]
           r == Append(replay, e)
<1>1. e \in Event /\ e.run = run /\ e.n = published + 1 /\ e.type = t
  BY DEF IInv, TypeInv, Event
<1>2. /\ run' = run /\ published' = published + 1 /\ published \in Nat
      /\ replay' = LastOf(r, MaxReplay) /\ phase' = phase
      /\ \A f \in Feed : view'[f] = IF phase[f] = "open" THEN Append(view[f], e)
                                    ELSE view[f]
  BY DEF Publish, IInv, TypeInv
<1> HIDE DEF e
<1>3. /\ r \in Seq(Event) /\ Len(r) = Len(replay) + 1 /\ r[Len(replay) + 1] = e
      /\ \A i \in 1 .. Len(replay) : r[i] = replay[i]
      /\ Len(replay) \in Nat
  BY <1>1, AppendProperties DEF IInv, TypeInv
<1> HIDE DEF r
<1>4. MaxReplay \in Nat
  BY DEF BoardAssumption
<1>5. /\ Len(replay') = IF Len(r) > MaxReplay THEN MaxReplay ELSE Len(r)
      /\ \A i \in 1 .. Len(replay') :
           /\ Len(r) - Len(replay') + i \in 1 .. Len(r)
           /\ replay'[i] = r[Len(r) - Len(replay') + i]
  <2>1. /\ Len(LastOf(r, MaxReplay)) =
             IF Len(r) > MaxReplay THEN MaxReplay ELSE Len(r)
        /\ \A i \in 1 .. Len(LastOf(r, MaxReplay)) :
             /\ Len(r) - Len(LastOf(r, MaxReplay)) + i \in 1 .. Len(r)
             /\ LastOf(r, MaxReplay)[i] = r[Len(r) - Len(LastOf(r, MaxReplay)) + i]
    BY <1>3, <1>4, LastOfProperties, Zenon
  <2> QED BY <2>1, <1>2, Zenon
<1>6. Len(replay') < published' => Len(replay') = MaxReplay
  <2>1. Len(replay) < published => Len(replay) = MaxReplay
    BY DEF BoardInv, MemoryInv
  <2> QED BY <2>1, <1>2, <1>3, <1>4, <1>5
<1>7. ASSUME NEW i \in 1 .. Len(replay')
      PROVE  replay'[i] = e \/ \E j \in 1 .. Len(replay) : replay'[i] = replay[j]
  <2>1. PICK k \in 1 .. Len(r) : replay'[i] = r[k]
    BY <1>5
  <2>2. k = Len(replay) + 1 \/ k \in 1 .. Len(replay)
    BY <2>1, <1>3
  <2> QED BY <2>1, <2>2, <1>3
<1>8. ASSUME online
      PROVE  /\ phase'[conn] = "open"
             /\ Len(view'[conn]) = Len(view[conn]) + 1
             /\ Len(view[conn]) \in Nat
             /\ view'[conn][Len(view[conn]) + 1] = e
             /\ \A i \in 1 .. Len(view[conn]) : view'[conn][i] = view[conn][i]
  <2>1. conn \in Feed /\ phase[conn] = "open"
    BY <1>8 DEF BoardInv, ViewInv
  <2>2. view[conn] \in Seq(Event) /\ view'[conn] = Append(view[conn], e)
    BY <2>1, <1>2 DEF IInv, TypeInv
  <2> QED BY <2>1, <2>2, <1>1, <1>2, AppendProperties
<1> QED BY <1>1, <1>2, <1>6, <1>7, <1>8

\* When the new event is what its number says, and no earlier one becomes
\* another, the stream and the connection stay in order.
LEMMA PublishOrder ==
  ASSUME BoardAssumption, IInv, BoardInv, NEW t \in Type, NEW b \in Id,
         Publish(t, b), UNCHANGED tabVars,
         \A x \in Event : x.n <= published /\ Fits(x, live, lines)
                           => Fits(x, live', lines'),
         \A x \in Event : x.n = published + 1 /\ x.type = t => Fits(x, live', lines')
  PROVE  MemoryInv' /\ ViewInv' /\ (online => Base' = Base)
<1>1. PICK e \in Event :
           /\ e.run = run /\ e.n = published + 1 /\ e.type = t
           /\ run' = run /\ published' = published + 1 /\ published \in Nat
           /\ Len(replay') < published' => Len(replay') = MaxReplay
           /\ \A i \in 1 .. Len(replay') :
                replay'[i] = e \/ \E j \in 1 .. Len(replay) : replay'[i] = replay[j]
           /\ online =>
                /\ phase'[conn] = "open"
                /\ Len(view'[conn]) = Len(view[conn]) + 1
                /\ Len(view[conn]) \in Nat
                /\ view'[conn][Len(view[conn]) + 1] = e
                /\ \A i \in 1 .. Len(view[conn]) : view'[conn][i] = view[conn][i]
  BY Publishes
<1>2. Fits(e, live', lines')
  BY <1>1
<1>3. /\ replay \in Seq(Event)
      /\ \A i \in 1 .. Len(replay) : replay[i].n = published - Len(replay) + i
      /\ \A i \in 1 .. Len(replay) : Fits(replay[i], live, lines)
  BY DEF IInv, TypeInv, ReplayInv, BoardInv, MemoryInv
<1>4. ASSUME NEW i \in 1 .. Len(replay')
      PROVE  Fits(replay'[i], live', lines')
  <2>1. CASE replay'[i] = e
    BY <2>1, <1>2
  <2>2. CASE replay'[i] # e
    <3>1. PICK j \in 1 .. Len(replay) : replay'[i] = replay[j]
      BY <2>2, <1>1
    <3>2. PICK x \in Event : x = replay[j]
      BY <1>3, <3>1, ElementOfSeq
    <3>3. x.n <= published
      <4>1. x.n = published - Len(replay) + j
        BY <3>2, <3>1, <1>3
      <4>2. published \in Nat /\ Len(replay) \in Nat
        BY <1>1, <1>3
      <4> QED BY <4>1, <4>2, <3>1
    <3>4. Fits(x, live, lines)
      BY <3>1, <3>2, <1>3
    <3> QED BY <3>1, <3>2, <3>3, <3>4
  <2> QED BY <2>1, <2>2
<1>5. MemoryInv'
  BY <1>1, <1>4 DEF MemoryInv
<1>6. /\ online' = online /\ conn' = conn /\ taken' = taken
  BY DEF tabVars
<1>7. ASSUME online
      PROVE  ViewInv' /\ Base' = Base
  <2> DEFINE v == view[conn]
  <2>1. /\ conn \in Feed /\ phase[conn] = "open" /\ taken <= Len(v)
        /\ Base < 0 => Len(v) >= MaxReplay
        /\ \A i \in 1 .. Len(v) :
             IF i > Base
             THEN v[i].run = run /\ v[i].n = i - Base /\ Fits(v[i], live, lines)
             ELSE v[i].run < run
    BY <1>7 DEF BoardInv, ViewInv
  <2>2. v \in Seq(Event) /\ taken \in Nat /\ MaxReplay \in Nat
    BY <2>1 DEF IInv, TypeInv, BoardInv, BoardTypeInv, BoardTypeOK, BoardAssumption
  <2>3. /\ Len(view'[conn]) = Len(v) + 1 /\ Len(v) \in Nat
        /\ view'[conn][Len(v) + 1] = e
        /\ \A i \in 1 .. Len(v) : view'[conn][i] = v[i]
    BY <1>1, <1>7
  <2>4. Base' = Base /\ Base \in Int /\ Base <= Len(v) /\ Base = Len(v) - published
    BY <2>3, <1>1, <1>6 DEF Base
  <2> HIDE DEF v
  <2>5. ASSUME NEW i \in 1 .. Len(v) + 1
        PROVE  IF i > Base
               THEN /\ view'[conn][i].run = run /\ view'[conn][i].n = i - Base
                    /\ Fits(view'[conn][i], live', lines')
               ELSE view'[conn][i].run < run
    <3>1. CASE i = Len(v) + 1
      <4>1. i > Base /\ view'[conn][i] = e
        BY <3>1, <2>3, <2>4
      <4>2. published + 1 = i - Base
        BY <3>1, <2>3, <2>4, <1>1
      <4> QED BY <4>1, <4>2, <1>1, <1>2
    <3>2. CASE i # Len(v) + 1
      <4>0. i \in 1 .. Len(v)
        <5>1. Len(v) \in Nat
          BY <2>3
        <5> QED BY <5>1, <3>2
      <4>1. i \in 1 .. Len(v) /\ view'[conn][i] = v[i]
        BY <4>0, <2>3
      <4>2. CASE i > Base
        <5>1. v[i].run = run /\ v[i].n = i - Base /\ Fits(v[i], live, lines)
          BY <4>1, <4>2, <2>1
        <5>2. PICK x \in Event : x = v[i]
          BY <4>1, <2>2, ElementOfSeq
        <5>3. i - Base <= published
          BY <4>1, <2>3, <2>4, <1>1
        <5>4. Fits(x, live', lines')
          BY <5>1, <5>2, <5>3
        <5> QED BY <4>1, <4>2, <5>1, <5>2, <5>4
      <4>3. CASE ~(i > Base)
        BY <4>1, <4>3, <2>1
      <4> QED BY <4>2, <4>3
    <3> QED BY <3>1, <3>2
  <2>6. taken <= Len(v) + 1 /\ (Base < 0 => Len(v) + 1 >= MaxReplay)
    BY <2>1, <2>2, <2>3, <2>4
  <2>7. run' = run /\ phase'[conn] = "open"
    BY <1>1, <1>7
  <2> QED BY <2>1, <2>3, <2>4, <2>5, <2>6, <2>7, <1>6 DEF ViewInv
<1>8. ~online => ViewInv'
  BY <1>6 DEF ViewInv
<1> QED BY <1>5, <1>7, <1>8

\* Publishing what is not a line leaves what is on display as it should be.
LEMMA PublishTail ==
  ASSUME BoardAssumption, IInv, BoardInv, Base' = Base, UNCHANGED <<tabVars, run>>,
         Begun' => Begun, lines \in Seq(Tags),
         lines' = lines \/ \E x \in Tags : lines' = Append(lines, x)
                                         /\ x.n = published + 1
  PROVE  TailInv'
<1>1. /\ online' = online /\ conn' = conn /\ taken' = taken /\ board' = board
      /\ run' = run
  BY DEF tabVars
<1>2. CASE ~(online /\ Begun /\ taken > Base)
  BY <1>1, <1>2 DEF TailInv
<1>3. CASE online /\ Begun /\ taken > Base
  <2>1. PICK l0 \in 0 .. Len(lines), l \in 0 .. Len(lines) :
          /\ Counts(lines, -Base, l0) /\ Counts(lines, taken - Base, l)
          /\ Shows(board.log, lines, l0, l)
          /\ Base >= 0 => Len(board.log) <= l
    BY <1>3 DEF BoardInv, TailInv
  <2>2. Base >= 0 =>
         \A tag \in {board.start, board.node, board.terminal, board.error} :
           tag.run \in {0, run}
    BY <1>3 DEF BoardInv, TailInv
  <2>3. CASE lines' = lines
    <3>1. \E k0, k \in 0 .. Len(lines') :
            /\ Counts(lines', -Base, k0) /\ Counts(lines', taken - Base, k)
            /\ Shows(board.log, lines', k0, k)
            /\ Base >= 0 => Len(board.log) <= k
      BY <2>1, <2>3
    <3> QED BY <3>1, <2>2, <1>1 DEF TailInv
  <2>4. CASE lines' # lines
    <3>1. PICK x \in Tags : lines' = Append(lines, x) /\ x.n = published + 1
      BY <2>4
    <3>2. /\ Len(lines') = Len(lines) + 1 /\ Len(lines) \in Nat
      BY <3>1, AppendProperties
    <3>3. /\ Base \in Int /\ taken \in Nat /\ published \in Nat
          /\ -Base < x.n /\ taken - Base < x.n /\ LogCap \in Nat
      <4>1. conn \in Feed /\ taken <= Len(view[conn])
        BY <1>3 DEF BoardInv, ViewInv
      <4>2. published \in Nat /\ Len(view[conn]) \in Nat /\ taken \in Nat
        BY <4>1 DEF IInv, TypeInv, BoardInv, BoardTypeInv, BoardTypeOK
      <4>3. LogCap \in Nat
        BY DEF BoardAssumption
      <4>4. Base = Len(view[conn]) - published
        BY DEF Base
      <4>5. taken <= Len(view[conn]) /\ x.n = published + 1
        BY <4>1, <3>1
      <4>6. -Base = published - Len(view[conn])
        BY <4>2, <4>4
      <4>7. taken - Base = taken - Len(view[conn]) + published
        BY <4>2, <4>4
      <4>8. Base \in Int
        BY <4>2, <4>4
      <4>9. -Base < x.n
        <5>1. published - Len(view[conn]) < published + 1
          BY <4>2
        <5> QED BY <5>1, <4>5, <4>6
      <4>10. taken - Base < x.n
        <5>1. taken - Len(view[conn]) + published < published + 1
          <6>1. \A p, q, r \in Nat : p <= q => p - q + r < r + 1
            OBVIOUS
          <6>2. taken <= Len(view[conn])
            BY <4>5
          <6>3. taken \in Nat /\ Len(view[conn]) \in Nat /\ published \in Nat
            BY <4>2
          <6> QED BY ONLY <6>1, <6>2, <6>3
        <5> QED BY <5>1, <4>5, <4>7
      <4> QED BY <4>2, <4>3, <4>8, <4>9, <4>10
    <3>4. Counts(lines', -Base, l0) /\ Counts(lines', taken - Base, l)
      <4>1. -Base \in Int /\ taken - Base \in Int
        BY <3>3
      <4> QED BY <4>1, <3>1, <3>3, <2>1, CountsAppend
    <3>5. Shows(board.log, lines', l0, l)
      BY <3>1, <3>3, <2>1, ShowsAppend
    <3>6. l0 \in 0 .. Len(lines') /\ l \in 0 .. Len(lines')
      BY <3>2, <2>1
    <3>7. \E k0, k \in 0 .. Len(lines') :
            /\ Counts(lines', -Base, k0) /\ Counts(lines', taken - Base, k)
            /\ Shows(board.log, lines', k0, k)
            /\ Base >= 0 => Len(board.log) <= k
      BY <2>1, <3>4, <3>5, <3>6
    <3> QED BY <3>7, <2>2, <1>1 DEF TailInv
  <2> QED BY <2>3, <2>4
<1> QED BY <1>2, <1>3

\* The numbers that the run's steps count with.
LEMMA RunTypes ==
  ASSUME BoardAssumption, IInv, BoardInv
  PROVE  /\ {LogCap, MaxNodes, MaxRuns, MaxLines, MaxReplay} \subseteq Nat
         /\ published \in Nat /\ run \in Nat /\ nodes \in 0 .. MaxNodes
         /\ lines \in Seq(Tags) /\ Len(lines) \in Nat /\ taken \in Nat
         /\ {"start", "node", "log", "end", "error"} \subseteq Type
BY DEF BoardAssumption, IInv, TypeInv, BoardInv, BoardTypeInv, BoardTypeOK

\* A step that publishes something other than a line leaves the lines in order.
LEMMA NoLine ==
  ASSUME BoardAssumption, IInv, BoardInv,
         published' = published + 1, run' = run, lines' = lines
  PROVE  /\ Numbered(lines')
         /\ \A k \in 1 .. Len(lines') :
              lines'[k].run = run' /\ lines'[k].n <= published'
         /\ \A m \in 0 .. published' : \E l \in 0 .. Len(lines') : Counts(lines', m, l)
<1>1. /\ Numbered(lines)
      /\ \A k \in 1 .. Len(lines) : lines[k].run = run /\ lines[k].n <= published
      /\ \A m \in 0 .. published : \E l \in 0 .. Len(lines) : Counts(lines, m, l)
  BY DEF BoardInv, RunInv
<1>2. published \in Nat /\ lines \in Seq(Tags)
  BY RunTypes
<1>3. \A k \in 1 .. Len(lines) : lines[k].n \in Nat
  <2> SUFFICES ASSUME NEW k \in 1 .. Len(lines) PROVE lines[k].n \in Nat
    OBVIOUS
  <2>1. lines[k] \in Tags
    BY <1>2, ElementOfSeq
  <2> QED BY <2>1 DEF Tags
<1>4. ASSUME NEW k \in 1 .. Len(lines)
      PROVE  lines[k].run = run /\ lines[k].n <= published + 1
  <2>1. lines[k].run = run /\ lines[k].n <= published /\ lines[k].n \in Nat
    BY <1>1, <1>3
  <2> QED BY <2>1, <1>2
<1>5. ASSUME NEW m \in 0 .. published + 1
      PROVE  \E l \in 0 .. Len(lines) : Counts(lines, m, l)
  <2>1. CASE m = published + 1
    <3>1. Counts(lines, m, Len(lines))
      BY <2>1, <1>4 DEF Counts
    <3>2. Len(lines) \in 0 .. Len(lines)
      BY <1>2
    <3> QED BY <3>1, <3>2
  <2>2. CASE m # published + 1
    <3>1. m \in 0 .. published
      BY <2>2, <1>2
    <3> QED BY <3>1, <1>1
  <2> QED BY <2>1, <2>2
<1> QED BY <1>1, <1>4, <1>5

LEMMA BeginRunKeeps ==
  ASSUME BoardAssumption, IInv, IInv', BoardInv, BeginRun
  PROVE  BoardInv'
<1>1. /\ run < MaxRuns /\ run' = run + 1 /\ published' = 0 /\ replay' = <<>>
      /\ phase' = phase /\ view' = view
      /\ live' = "called" /\ nodes' = 0 /\ lines' = <<>>
      /\ conn' = conn /\ online' = online /\ taken' = taken /\ board' = board
  BY DEF BeginRun, NewRun, tabVars
<1>2. /\ BoardTypeOK /\ run \in Nat /\ MaxRuns \in Nat /\ MaxNodes \in Nat
      /\ MaxLines \in Nat /\ MaxReplay \in Nat
  BY DEF BoardInv, BoardTypeInv, IInv, TypeInv, BoardAssumption
<1>3. BoardTypeInv'
  <2>1. run' <= MaxRuns /\ nodes' \in 0 .. MaxNodes
    BY <1>1, <1>2
  <2>2. lines' \in Seq(Tags) /\ Len(lines') <= MaxLines
    BY <1>1, <1>2
  <2> QED BY <2>1, <2>2, <1>1 DEF BoardInv, BoardTypeInv, BoardTypeOK
<1>4. RunInv'
  <2>1. Numbered(<<>>)
    BY DEF Numbered
  <2>2. Counts(<<>>, 0, 0)
    BY DEF Counts
  <2> QED BY <1>1, <2>1, <2>2 DEF RunInv, Begun
<1>5. MemoryInv'
  BY <1>1, <1>2 DEF MemoryInv
<1>6. ViewInv'
  <2> SUFFICES ASSUME online PROVE ViewInv'
    BY <1>1 DEF ViewInv
  <2>1. conn \in Feed /\ phase[conn] = "open" /\ taken <= Len(view[conn])
    BY DEF BoardInv, ViewInv
  <2>2. Len(view[conn]) \in Nat
    BY <2>1 DEF IInv, TypeInv
  <2>3. Base' = Len(view[conn])
    BY <1>1, <2>2 DEF Base
  <2>4. ASSUME NEW i \in 1 .. Len(view[conn])
        PROVE  ~(i > Base') /\ view[conn][i].run < run'
    <3>1. view[conn] \in Seq(Event)
      BY <2>1 DEF IInv, TypeInv
    <3>2. view[conn][i] \in Event
      BY <3>1, ElementOfSeq
    <3>3. view[conn][i].run \in Nat /\ view[conn][i].run <= run
      BY <3>2, <2>1 DEF Event, IInv, LastInv
    <3> QED BY <3>3, <2>2, <2>3, <1>1, <1>2
  <2>5. ~(Base' < 0)
    BY <2>2, <2>3
  <2> QED BY <2>1, <2>4, <2>5, <1>1 DEF ViewInv
<1>7. TailInv'
  BY <1>1 DEF TailInv, Begun
<1> QED BY <1>3, <1>4, <1>5, <1>6, <1>7 DEF BoardInv

LEMMA StartKeeps ==
  ASSUME BoardAssumption, IInv, IInv', BoardInv, Start
  PROVE  BoardInv'
<1>1. PICK b \in Id : Publish("start", b)
  BY DEF Start, Published
<1>2. /\ live = "called" /\ live' = "begun" /\ nodes' = nodes /\ lines' = lines
      /\ run' = run /\ published' = published + 1 /\ phase' = phase
      /\ UNCHANGED tabVars
  BY <1>1 DEF Start, Publish, tabVars
<1>3. published = 0 /\ nodes = 0 /\ lines = <<>>
  BY <1>2 DEF BoardInv, RunInv
<1>4. "start" \in Type /\ Len(lines) = 0
  BY <1>3 DEF BoardAssumption
<1>5. BoardTypeInv'
  BY <1>2 DEF BoardInv, BoardTypeInv, BoardTypeOK, tabVars
<1>6. RunInv'
  <2>1. published' = 1 + nodes' + Len(lines') + 0
    BY <1>2, <1>3, <1>4
  <2> QED BY <2>1, <1>2, NoLine DEF RunInv
<1>7. \A x \in Event : x.n <= published /\ Fits(x, live, lines)
                       => Fits(x, live', lines')
  BY <1>3 DEF Event
<1>8. \A x \in Event : x.n = published + 1 /\ x.type = "start"
                       => Fits(x, live', lines')
  BY <1>2, <1>3 DEF Fits
<1>9. MemoryInv' /\ ViewInv' /\ (online => Base' = Base)
  BY <1>1, <1>2, <1>4, <1>7, <1>8, PublishOrder
<1>10. TailInv'
  <2> SUFFICES ASSUME online PROVE TailInv'
    BY <1>2 DEF TailInv, tabVars
  <2>1. conn \in Feed /\ taken <= Len(view[conn])
    BY DEF BoardInv, ViewInv
  <2>2. Len(view[conn]) \in Nat /\ taken \in Nat
    BY <2>1, RunTypes DEF IInv, TypeInv
  <2>3. Base' = Len(view[conn])
    BY <2>2, <1>3, <1>9 DEF Base
  <2>4. taken' = taken
    BY <1>2 DEF tabVars
  <2>5. ~(taken' > Base')
    BY <2>1, <2>2, <2>3, <2>4
  <2> QED BY <2>5 DEF TailInv
<1> QED BY <1>5, <1>6, <1>9, <1>10 DEF BoardInv

LEMMA EnterNodeKeeps ==
  ASSUME BoardAssumption, IInv, IInv', BoardInv, EnterNode
  PROVE  BoardInv'
<1>1. PICK b \in Id : Publish("node", b)
  BY DEF EnterNode, Published
<1>2. /\ live = "begun" /\ live' = live /\ nodes' = nodes + 1 /\ lines' = lines
      /\ run' = run /\ published' = published + 1 /\ nodes < MaxNodes
      /\ UNCHANGED tabVars
  BY <1>1 DEF EnterNode, Publish, tabVars
<1>3. /\ published \in Nat /\ nodes \in 0 .. MaxNodes /\ MaxNodes \in Nat
      /\ lines \in Seq(Tags) /\ Len(lines) \in Nat /\ "node" \in Type
  BY RunTypes
<1>4. published = 1 + nodes + Len(lines)
  BY <1>2, <1>3 DEF BoardInv, RunInv, Begun
<1>5. BoardTypeInv'
  <2>1. nodes' \in 0 .. MaxNodes
    BY <1>2, <1>3
  <2> QED BY <2>1, <1>2 DEF BoardInv, BoardTypeInv, BoardTypeOK, tabVars
<1>6. RunInv'
  <2>1. published' = 1 + nodes' + Len(lines') + 0
    BY <1>2, <1>3, <1>4
  <2> QED BY <2>1, <1>2, NoLine DEF RunInv
<1>7. \A x \in Event : x.n <= published /\ Fits(x, live, lines)
                       => Fits(x, live', lines')
  BY <1>2
<1>8. \A x \in Event : x.n = published + 1 /\ x.type = "node"
                       => Fits(x, live', lines')
  <2> SUFFICES ASSUME NEW x \in Event, x.n = published + 1, x.type = "node"
               PROVE  Fits(x, live', lines')
    OBVIOUS
  <2>1. x.n # 1
    BY <1>3, <1>4
  <2>2. ASSUME NEW k \in 1 .. Len(lines)
        PROVE  lines[k].n # x.n
    <3>1. lines[k].n <= published
      BY DEF BoardInv, RunInv
    <3> QED BY <3>1, <1>3
  <2> QED BY <2>1, <2>2, <1>2 DEF Fits
<1>9. MemoryInv' /\ ViewInv' /\ (online => Base' = Base)
  BY <1>1, <1>2, <1>3, <1>7, <1>8, PublishOrder
<1>10. TailInv'
  <2> SUFFICES ASSUME online PROVE TailInv'
    BY <1>2 DEF TailInv, tabVars
  <2> QED BY <1>2, <1>3, <1>9, PublishTail DEF Begun
<1> QED BY <1>5, <1>6, <1>9, <1>10 DEF BoardInv

LEMMA EndRunKeeps ==
  ASSUME BoardAssumption, IInv, IInv', BoardInv, EndRun
  PROVE  BoardInv'
<1>1. /\ nodes' = nodes /\ lines' = lines /\ UNCHANGED tabVars
      /\ \/ live = "begun" /\ live' = "over"
         \/ live = "called" /\ live' = "failed"
  BY DEF EndRun
<1>2. PICK t \in {"end", "error"}, b \in Id :
        Publish(t, b) /\ (live = "called" => t = "error")
  BY DEF EndRun, Published
<1>3. run' = run /\ published' = published + 1
  BY <1>2 DEF Publish
<1>4. /\ published \in Nat /\ nodes \in 0 .. MaxNodes /\ MaxNodes \in Nat
      /\ lines \in Seq(Tags) /\ Len(lines) \in Nat /\ t \in Type
  BY RunTypes
<1>5. BoardTypeInv'
  BY <1>1, <1>3 DEF BoardInv, BoardTypeInv, BoardTypeOK, tabVars
<1>6. /\ live = "begun" => published = 1 + nodes + Len(lines)
      /\ live = "called" => published = 0 /\ lines = <<>>
  <2>1. live = "called" => published = 0 /\ lines = <<>>
    BY DEF BoardInv, RunInv
  <2>2. ASSUME live = "begun" PROVE published = 1 + nodes + Len(lines)
    <3>1. published = 1 + nodes + Len(lines) + 0
      BY <2>2 DEF BoardInv, RunInv, Begun
    <3> QED BY <3>1, <1>4
  <2> QED BY <2>1, <2>2
<1>7. RunInv'
  <2>1. live' = "over" => published' = 1 + nodes' + Len(lines') + 1
    BY <1>1, <1>3, <1>4, <1>6
  <2>2. live' = "failed" => lines' = <<>>
    BY <1>1, <1>6
  <2>3. live' \in {"over", "failed"}
    BY <1>1
  <2> QED BY <2>1, <2>2, <2>3, <1>1, <1>3, NoLine DEF RunInv, Begun
<1>8. \A x \in Event : x.n <= published /\ Fits(x, live, lines)
                       => Fits(x, live', lines')
  <2>1. CASE live = "begun"
    BY <2>1, <1>1 DEF Fits
  <2>2. CASE live = "called"
    BY <2>2, <1>6 DEF Event
  <2> QED BY <2>1, <2>2, <1>1
<1>9. \A x \in Event : x.n = published + 1 /\ x.type = t
                       => Fits(x, live', lines')
  <2> SUFFICES ASSUME NEW x \in Event, x.n = published + 1, x.type = t
               PROVE  Fits(x, live', lines')
    OBVIOUS
  <2>1. CASE live = "called"
    BY <2>1, <1>1 DEF Fits
  <2>2. CASE live = "begun"
    <3>1. x.n # 1
      BY <2>2, <1>4, <1>6
    <3>2. ASSUME NEW k \in 1 .. Len(lines)
          PROVE  lines[k].n # x.n
      <4>1. lines[k].n <= published
        BY DEF BoardInv, RunInv
      <4> QED BY <4>1, <1>4
    <3> QED BY <2>2, <3>1, <3>2, <1>1 DEF Fits
  <2> QED BY <2>1, <2>2, <1>1
<1>10. MemoryInv' /\ ViewInv' /\ (online => Base' = Base)
  BY <1>1, <1>2, <1>4, <1>8, <1>9, PublishOrder
<1>11. TailInv'
  <2> SUFFICES ASSUME online PROVE TailInv'
    BY <1>1 DEF TailInv, tabVars
  <2> QED BY <1>1, <1>3, <1>4, <1>10, PublishTail DEF Begun
<1> QED BY <1>5, <1>7, <1>10, <1>11 DEF BoardInv

LEMMA SayKeeps ==
  ASSUME BoardAssumption, IInv, IInv', BoardInv, Say
  PROVE  BoardInv'
<1>1. PICK b \in Id : Publish("log", b)
  BY DEF Say, Published
<1> DEFINE y == [run |-> run, n |-> published + 1]
<1>2. /\ live = "begun" /\ live' = live /\ nodes' = nodes /\ Len(lines) < MaxLines
      /\ lines' = Append(lines, y) /\ run' = run /\ published' = published + 1
      /\ UNCHANGED tabVars
  BY <1>1 DEF Say, Publish, tabVars
<1>3. /\ published \in Nat /\ nodes \in Nat /\ run \in Nat /\ MaxLines \in Nat
      /\ lines \in Seq(Tags) /\ Len(lines) \in Nat /\ "log" \in Type
  <2>1. MaxNodes \in Nat /\ nodes \in 0 .. MaxNodes
    BY RunTypes
  <2> QED BY <2>1, RunTypes
<1>4. y \in Tags /\ y.run = run /\ y.n = published + 1
  <2>1. run <= MaxRuns /\ MaxRuns \in Nat
    BY RunTypes DEF BoardInv, BoardTypeInv
  <2> QED BY <2>1, <1>3 DEF Tags
<1> HIDE DEF y
<1>5. /\ lines' \in Seq(Tags) /\ Len(lines') = Len(lines) + 1
      /\ lines'[Len(lines) + 1] = y
      /\ \A k \in 1 .. Len(lines) : lines'[k] = lines[k]
  BY <1>2, <1>3, <1>4, AppendProperties
<1>6. published = 1 + nodes + Len(lines)
  <2>1. published = 1 + nodes + Len(lines) + 0
    BY <1>2 DEF BoardInv, RunInv, Begun
  <2> QED BY <2>1, <1>3
<1>7. /\ Numbered(lines)
      /\ \A k \in 1 .. Len(lines) : lines[k].run = run /\ lines[k].n <= published
      /\ \A m \in 0 .. published : \E l \in 0 .. Len(lines) : Counts(lines, m, l)
  BY DEF BoardInv, RunInv
<1>8. \A k \in 1 .. Len(lines) : lines[k].n \in Nat
  <2> SUFFICES ASSUME NEW k \in 1 .. Len(lines) PROVE lines[k].n \in Nat
    OBVIOUS
  <2>1. lines[k] \in Tags
    BY <1>3, ElementOfSeq
  <2> QED BY <2>1 DEF Tags
<1>9. BoardTypeInv'
  <2>1. Len(lines') <= MaxLines
    BY <1>2, <1>3, <1>5
  <2>2. BoardTypeOK /\ board \in LiveState /\ run <= MaxRuns
    BY DEF BoardInv, BoardTypeInv
  <2>3. UNCHANGED <<conn, online, taken, board>>
    BY <1>2 DEF tabVars
  <2>4. BoardTypeOK'
    BY <2>1, <2>2, <2>3, <1>2 DEF BoardTypeOK
  <2>5. lines' \in Seq(Tags) /\ run' = run
    BY <1>2, <1>5
  <2> QED BY <2>2, <2>3, <2>4, <2>5 DEF BoardTypeInv
<1>10. RunInv'
  <2>1. published' = 1 + nodes' + Len(lines') + 0
    <3>1. published' = published + 1 /\ nodes' = nodes /\ Len(lines') = Len(lines) + 1
      BY <1>2, <1>5
    <3>2. nodes \in Nat /\ Len(lines) \in Nat
      BY <1>3
    <3> QED BY <3>1, <3>2, <1>6
  <2>2. ASSUME NEW k \in 1 .. Len(lines')
        PROVE  lines'[k].run = run /\ lines'[k].n <= published + 1 /\ k + 1 <= lines'[k].n
    <3>1. CASE k = Len(lines) + 1
      BY <3>1, <1>3, <1>4, <1>5, <1>6
    <3>2. CASE k # Len(lines) + 1
      <4>1. k \in 1 .. Len(lines) /\ lines'[k] = lines[k]
        BY <3>2, <1>3, <1>5
      <4>2. lines[k].run = run /\ lines[k].n <= published /\ k + 1 <= lines[k].n
        BY <4>1, <1>7 DEF Numbered
      <4> QED BY <4>1, <4>2, <1>3, <1>8
    <3> QED BY <3>1, <3>2
  <2>3. ASSUME NEW j \in 1 .. Len(lines'), NEW k \in 1 .. Len(lines'), j < k
        PROVE  lines'[j].n < lines'[k].n
    <3>0. j \in 1 .. Len(lines)
      <4>1. Len(lines') = Len(lines) + 1 /\ Len(lines) \in Nat
        BY <1>3, <1>5
      <4> QED BY <4>1, <2>3
    <3>1. j \in 1 .. Len(lines) /\ lines'[j] = lines[j]
      BY <3>0, <1>5
    <3>2. CASE k = Len(lines) + 1
      <4>1. lines[j].n <= published /\ lines'[k].n = published + 1
        BY <3>1, <3>2, <1>4, <1>5, <1>7
      <4>2. lines[j].n \in Nat /\ published \in Nat
        BY <3>1, <1>3, <1>8
      <4> QED BY <4>1, <4>2, <3>1
    <3>3. CASE k # Len(lines) + 1
      <4>1. k \in 1 .. Len(lines) /\ lines'[k] = lines[k]
        BY <3>3, <1>3, <1>5
      <4> QED BY <4>1, <3>1, <2>3, <1>7 DEF Numbered
    <3> QED BY <3>2, <3>3
  <2>4. Numbered(lines')
    BY <2>2, <2>3 DEF Numbered
  <2>5. ASSUME NEW m \in 0 .. published + 1
        PROVE  \E l \in 0 .. Len(lines') : Counts(lines', m, l)
    <3>1. CASE m = published + 1
      <4>1. Counts(lines', m, Len(lines'))
        BY <3>1, <2>2 DEF Counts
      <4>2. Len(lines') \in 0 .. Len(lines')
        BY <1>3, <1>5
      <4> QED BY <4>1, <4>2
    <3>2. CASE m # published + 1
      <4>1. m \in 0 .. published
        BY <3>2, <1>3
      <4>2. PICK l \in 0 .. Len(lines) : Counts(lines, m, l)
        BY <4>1, <1>7
      <4>3. m \in Int /\ m < y.n
        BY <4>1, <1>3, <1>4
      <4>4. Counts(lines', m, l)
        BY <4>2, <4>3, <1>2, <1>3, <1>4, CountsAppend
      <4>5. l \in 0 .. Len(lines')
        BY <4>2, <1>3, <1>5
      <4> QED BY <4>4, <4>5
    <3> QED BY <3>1, <3>2
  <2> QED BY <2>1, <2>2, <2>4, <2>5, <1>2 DEF RunInv
<1>11. \A x \in Event : x.n <= published /\ Fits(x, live, lines)
                        => Fits(x, live', lines')
  <2> SUFFICES ASSUME NEW x \in Event, x.n <= published, Fits(x, live, lines)
               PROVE  Fits(x, live', lines')
    OBVIOUS
  <2>1. x.n \in Nat
    BY DEF Event
  <2>2. (\E k \in 1 .. Len(lines) : lines[k].n = x.n)
           <=> \E k \in 1 .. Len(lines') : lines'[k].n = x.n
    <3>1. ASSUME NEW k \in 1 .. Len(lines), lines[k].n = x.n
          PROVE  \E i \in 1 .. Len(lines') : lines'[i].n = x.n
      <4>1. k \in 1 .. Len(lines') /\ lines'[k].n = x.n
        BY <3>1, <1>3, <1>5
      <4> QED BY <4>1
    <3>2. ASSUME NEW k \in 1 .. Len(lines'), lines'[k].n = x.n
          PROVE  \E i \in 1 .. Len(lines) : lines[i].n = x.n
      <4>1. k # Len(lines) + 1
        BY <3>2, <2>1, <1>3, <1>4, <1>5
      <4>2. k \in 1 .. Len(lines) /\ lines[k].n = x.n
        BY <4>1, <3>2, <1>3, <1>5
      <4> QED BY <4>2
    <3> QED BY <3>1, <3>2
  <2> QED BY <2>2, <1>2 DEF Fits
<1>12. \A x \in Event : x.n = published + 1 /\ x.type = "log"
                        => Fits(x, live', lines')
  <2> SUFFICES ASSUME NEW x \in Event, x.n = published + 1, x.type = "log"
               PROVE  Fits(x, live', lines')
    OBVIOUS
  <2>1. x.n # 1
    BY <1>3, <1>6
  <2>2. Len(lines) + 1 \in 1 .. Len(lines') /\ lines'[Len(lines) + 1].n = x.n
    BY <1>3, <1>4, <1>5
  <2>3. \E k \in 1 .. Len(lines') : lines'[k].n = x.n
    BY <2>2
  <2> QED BY <2>1, <2>3, <1>2 DEF Fits
<1>13. MemoryInv' /\ ViewInv' /\ (online => Base' = Base)
  BY <1>1, <1>2, <1>3, <1>11, <1>12, PublishOrder
<1>14. TailInv'
  <2> SUFFICES ASSUME online PROVE TailInv'
    BY <1>2 DEF TailInv, tabVars
  <2>1. \E x \in Tags : lines' = Append(lines, x) /\ x.n = published + 1
    BY <1>2, <1>4
  <2> QED BY <2>1, <1>2, <1>3, <1>13, PublishTail DEF Begun
<1> QED BY <1>9, <1>10, <1>13, <1>14 DEF BoardInv

-----------------------------------------------------------------------------
(* The steps of the tab                                                     *)

LEMMA ConnectKeeps ==
  ASSUME BoardAssumption, IInv, IInv', BoardInv, Connect
  PROVE  BoardInv'
<1> DEFINE c == conn + 1
<1>1. /\ c \in Feed /\ conn' = c /\ online' = TRUE /\ taken' = 0
      /\ board' \in {board, EMPTY} /\ live' = live /\ nodes' = nodes
      /\ lines' = lines /\ run' = run /\ published' = published
      /\ replay' = replay
  BY DEF Connect, Open
<1>2. view'[c] = replay /\ phase'[c] = "open"
  BY DEF Connect, Open, IInv, TypeInv
<1>3. /\ BoardTypeInv /\ LogCap \in Nat /\ MaxRuns \in Nat /\ MaxReplay \in Nat
      /\ published \in Nat /\ run \in Nat /\ lines \in Seq(Tags)
  BY RunTypes DEF BoardInv
<1>4. BoardTypeInv'
  <2>1. EMPTY \in LiveState /\ Len(EMPTY.log) <= LogCap
    BY <1>3 DEF EMPTY, None, Tags, LiveState
  <2>2. board \in LiveState /\ Len(board.log) <= LogCap
    BY <1>3 DEF BoardTypeInv, BoardTypeOK
  <2>3. /\ board' \in LiveState /\ Len(board'.log) <= LogCap
        /\ {board'.start, board'.node, board'.terminal, board'.error} \subseteq Tags
        /\ board'.log \in Seq(Tags)
    <3>1. board' \in LiveState /\ Len(board'.log) <= LogCap
      BY <1>1, <2>1, <2>2
    <3> QED BY <3>1 DEF LiveState
  <2>4. /\ live \in {"none", "called", "begun", "over", "failed"}
        /\ nodes \in 0 .. MaxNodes /\ Len(lines) <= MaxLines
        /\ conn' \in Nat /\ online' \in BOOLEAN /\ taken' \in Nat
        /\ run <= MaxRuns
    BY <1>1, <1>3 DEF BoardTypeInv, BoardTypeOK
  <2> QED BY <2>3, <2>4, <1>1, <1>3 DEF BoardTypeInv, BoardTypeOK
<1>5. RunInv'
  BY <1>1 DEF BoardInv, RunInv, Begun
<1>6. MemoryInv'
  BY <1>1 DEF BoardInv, MemoryInv
<1>7. /\ Len(replay) \in Nat
      /\ \A i \in 1 .. Len(replay) :
           replay[i].run = run /\ replay[i].n = published - Len(replay) + i
      /\ \A i \in 1 .. Len(replay) : Fits(replay[i], live, lines)
      /\ Len(replay) < published => Len(replay) = MaxReplay
  BY DEF IInv, TypeInv, ReplayInv, BoardInv, MemoryInv
<1>8. Len(replay) <= published
  <2>1. CASE published = 0
    BY <2>1, <1>7 DEF IInv, ReplayInv
  <2>2. CASE published # 0
    <3>1. Len(replay) # 0
      BY <2>2 DEF IInv, ReplayInv
    <3>2. 1 \in 1 .. Len(replay) /\ replay[1].n = published - Len(replay) + 1
      BY <3>1, <1>7
    <3>3. replay[1].n >= 1 /\ replay[1].n \in Nat
      <4>1. replay \in Seq(Event)
        BY DEF IInv, TypeInv
      <4>2. replay[1] \in Event
        BY <4>1, <3>2, ElementOfSeq
      <4> QED BY <4>2 DEF Event
    <3> QED BY <3>2, <3>3, <1>3, <1>7
  <2> QED BY <2>1, <2>2
<1> HIDE DEF c
<1>9. Base' = Len(replay) - published /\ Base' <= 0 /\ Base' \in Int
  BY <1>1, <1>2, <1>3, <1>7, <1>8 DEF Base
<1>10. ViewInv'
  <2>1. ASSUME NEW i \in 1 .. Len(replay)
        PROVE  /\ i > Base' /\ replay[i].run = run /\ replay[i].n = i - Base'
               /\ Fits(replay[i], live, lines)
    BY <1>3, <1>7, <1>9
  <2>2. Base' < 0 => Len(replay) >= MaxReplay
    BY <1>3, <1>7, <1>9
  <2>3. taken' <= Len(replay)
    BY <1>1, <1>7
  <2> QED BY <2>1, <2>2, <2>3, <1>1, <1>2 DEF ViewInv
<1>11. TailInv'
  <2> SUFFICES ASSUME Base' < 0 PROVE TailInv'
    BY <1>1, <1>9 DEF TailInv
  <2>1. -Base' \in 0 .. published
    BY <1>3, <1>7, <1>9
  <2>2. PICK l \in 0 .. Len(lines) : Counts(lines, -Base', l)
    BY <2>1 DEF BoardInv, RunInv
  <2>3. Shows(board'.log, lines, l, l)
    BY <2>2, <1>3 DEF Shows
  <2>4. taken' - Base' = -Base'
    BY <1>1, <1>9
  <2>5. \E l0, l1 \in 0 .. Len(lines) :
          /\ Counts(lines, -Base', l0) /\ Counts(lines, taken' - Base', l1)
          /\ Shows(board'.log, lines, l0, l1)
          /\ Base' >= 0 => Len(board'.log) <= l1
    <3>1. ~(Base' >= 0)
      BY <1>9
    <3> QED BY <2>2, <2>3, <2>4, <3>1
  <2>6. ~(Base' >= 0)
    BY <1>9
  <2> QED BY <2>5, <2>6, <1>1 DEF TailInv
<1> QED BY <1>4, <1>5, <1>6, <1>10, <1>11 DEF BoardInv

LEMMA DisconnectKeeps ==
  ASSUME BoardInv, Disconnect
  PROVE  BoardInv'
<1>1. /\ online' = FALSE /\ UNCHANGED <<live, nodes, lines, conn, taken, board>>
      /\ UNCHANGED <<run, published, replay>>
  BY DEF Disconnect, Close
<1>2. BoardTypeInv'
  BY <1>1 DEF BoardInv, BoardTypeInv, BoardTypeOK
<1>3. RunInv' /\ MemoryInv'
  BY <1>1 DEF BoardInv, RunInv, Begun, MemoryInv
<1>4. ViewInv' /\ TailInv'
  BY <1>1 DEF ViewInv, TailInv
<1> QED BY <1>2, <1>3, <1>4 DEF BoardInv

\* The event that a tab gets next.
LEMMA NextEvent ==
  ASSUME BoardAssumption, IInv, BoardInv, Receive
  PROVE  \E e \in Event :
           /\ e = view[conn][taken + 1] /\ e.type \in Type
           /\ e.run \in Nat /\ e.n \in Nat /\ e.run <= run /\ Tag(e) \in Tags
           /\ Tag(e).run = e.run /\ Tag(e).n = e.n
           /\ board' = After(board, e) /\ taken' = taken + 1
           /\ taken \in Nat /\ Base \in Int /\ taken + 1 <= Len(view[conn])
           /\ taken + 1 > Base => /\ e.run = run /\ e.n = taken + 1 - Base
                                  /\ Fits(e, live, lines)
<1>1. /\ online /\ taken < Len(view[conn]) /\ taken' = taken + 1
      /\ board' = After(board, view[conn][taken + 1])
  BY DEF Receive
<1>2. conn \in Feed /\ taken \in Nat
  BY <1>1 DEF BoardInv, ViewInv, BoardTypeInv, BoardTypeOK
<1>3. view[conn] \in Seq(Event) /\ Len(view[conn]) \in Nat
  BY <1>2 DEF IInv, TypeInv
<1>4. taken + 1 \in 1 .. Len(view[conn])
  BY <1>1, <1>2, <1>3
<1>5. PICK e \in Event : e = view[conn][taken + 1]
  BY <1>3, <1>4, ElementOfSeq
<1>6. e.run \in Nat /\ e.n \in Nat /\ e.type \in Type
  BY DEF Event
<1>7. e.run <= run
  BY <1>2, <1>4, <1>5 DEF IInv, LastInv
<1>8. Tag(e) \in Tags /\ Tag(e).run = e.run /\ Tag(e).n = e.n
  <2>1. run <= MaxRuns /\ run \in Nat /\ MaxRuns \in Nat
    BY RunTypes DEF BoardInv, BoardTypeInv
  <2>2. e.run \in 0 .. MaxRuns
    BY <2>1, <1>6, <1>7
  <2> QED BY <2>2, <1>6 DEF Tag, Tags
<1>9. taken + 1 > Base => /\ e.run = run /\ e.n = taken + 1 - Base
                          /\ Fits(e, live, lines)
  <2>1. \A i \in 1 .. Len(view[conn]) :
          i > Base => /\ view[conn][i].run = run /\ view[conn][i].n = i - Base
                      /\ Fits(view[conn][i], live, lines)
    BY <1>1 DEF BoardInv, ViewInv
  <2>2. PICK i \in 1 .. Len(view[conn]) : i = taken + 1
    BY <1>4
  <2>3. i > Base => /\ view[conn][i].run = run /\ view[conn][i].n = i - Base
                    /\ Fits(view[conn][i], live, lines)
    BY <2>1
  <2>4. view[conn][i] = e
    BY <2>2, <1>5
  <2> SUFFICES ASSUME taken + 1 > Base
               PROVE  e.run = run /\ e.n = taken + 1 - Base /\ Fits(e, live, lines)
    OBVIOUS
  <2>5. i > Base
    BY <2>2
  <2>6. e.run = run /\ e.n = i - Base /\ Fits(e, live, lines)
    BY <2>3, <2>4, <2>5
  <2>7. e.n = taken + 1 - Base
    <3>1. Base \in Int /\ taken \in Nat
      BY <1>2, <1>3, RunTypes DEF Base
    <3>2. i - Base = taken + 1 - Base
      BY <3>1, <2>2
    <3> QED BY <3>2, <2>6, Zenon
  <2> QED BY <2>6, <2>7
<1>10. Base \in Int
  BY <1>3, RunTypes DEF Base
<1>11. board' = After(board, e) /\ taken + 1 <= Len(view[conn])
  BY <1>1, <1>2, <1>3, <1>4, <1>5
<1> QED BY <1>1, <1>2, <1>5, <1>6, <1>7, <1>8, <1>9, <1>10, <1>11

\* The parts of a board, as the listeners leave them.
LEMMA AfterParts ==
  ASSUME BoardAssumption, NEW b \in LiveState, NEW e, e.type \in Type, Tag(e) \in Tags
  PROVE  LET a == After(b, e) IN
         /\ a.start    = IF e.type = "start" THEN Tag(e) ELSE b.start
         /\ a.node     = IF e.type = "start" THEN None
                         ELSE IF e.type = "node" THEN Tag(e) ELSE b.node
         /\ a.terminal = IF e.type = "start" THEN None
                         ELSE IF e.type = "end" THEN Tag(e) ELSE b.terminal
         /\ a.error    = IF e.type = "start" THEN None
                         ELSE IF e.type = "error" THEN Tag(e) ELSE b.error
         /\ a.log      = IF e.type = "start" THEN <<>>
                         ELSE IF e.type = "log" THEN Capped(Append(b.log, Tag(e)))
                         ELSE b.log
         /\ a \in LiveState
<1>0. None \in Tags /\ LogCap \in Nat
  BY DEF None, Tags, BoardAssumption
<1>1. e.type \in {"start", "node", "log", "end", "error"}
  BY DEF BoardAssumption
<1>2. CASE e.type = "start"
  <2>1. After(b, e) = [EMPTY EXCEPT !.start = Tag(e)]
    BY <1>2 DEF After, AfterStart
  <2>2. After(b, e) = [start |-> Tag(e), node |-> None, log |-> <<>>,
                       terminal |-> None, error |-> None]
    BY <2>1 DEF EMPTY
  <2>3. After(b, e) \in LiveState
    BY <2>2, <1>0 DEF LiveState
  <2> QED BY <2>2, <2>3, <1>2
<1>3. CASE e.type = "node"
  <2>1. After(b, e) = [b EXCEPT !.node = Tag(e)]
    BY <1>3 DEF After
  <2> QED BY <2>1, <1>3 DEF LiveState
<1>4. CASE e.type = "log"
  <2>1. After(b, e) = [b EXCEPT !.log = Capped(Append(@, Tag(e)))]
    BY <1>4 DEF After
  <2>2. Append(b.log, Tag(e)) \in Seq(Tags)
    BY AppendProperties DEF LiveState
  <2>3. LastOf(Append(b.log, Tag(e)), LogCap) \in Seq(Tags)
    BY <2>2, <1>0, LastOfProperties, Zenon
  <2>4. Capped(Append(b.log, Tag(e))) \in Seq(Tags)
    BY <2>3 DEF Capped
  <2> QED BY <2>1, <2>4, <1>4 DEF LiveState
<1>5. CASE e.type = "end"
  <2>1. After(b, e) = [b EXCEPT !.terminal = Tag(e)]
    BY <1>5 DEF After
  <2> QED BY <2>1, <1>5 DEF LiveState
<1>6. CASE e.type = "error"
  <2>1. After(b, e) = [b EXCEPT !.error = Tag(e)]
    BY <1>6 DEF After
  <2> QED BY <2>1, <1>6 DEF LiveState
<1> QED BY <1>1, <1>2, <1>3, <1>4, <1>5, <1>6

LEMMA ReceiveKeeps ==
  ASSUME BoardAssumption, IInv, IInv', BoardInv, Receive
  PROVE  BoardInv'
<1>1. PICK e \in Event :
           /\ e = view[conn][taken + 1] /\ e.type \in Type
           /\ e.run \in Nat /\ e.n \in Nat /\ e.run <= run /\ Tag(e) \in Tags
           /\ Tag(e).run = e.run /\ Tag(e).n = e.n
           /\ board' = After(board, e) /\ taken' = taken + 1
           /\ taken \in Nat /\ Base \in Int /\ taken + 1 <= Len(view[conn])
           /\ taken + 1 > Base => /\ e.run = run /\ e.n = taken + 1 - Base
                                  /\ Fits(e, live, lines)
  BY NextEvent
<1>2. /\ UNCHANGED <<run, published, replay, phase, view>>
      /\ UNCHANGED <<live, nodes, lines, conn, online>>
      /\ online
  BY DEF Receive, serverVars
<1>3. /\ BoardTypeOK /\ board \in LiveState /\ run <= MaxRuns /\ lines \in Seq(Tags)
      /\ Len(board.log) <= LogCap /\ LogCap \in Nat /\ Len(lines) \in Nat
  BY RunTypes DEF BoardInv, BoardTypeInv, BoardTypeOK
<1>4. /\ board'.start    = IF e.type = "start" THEN Tag(e) ELSE board.start
      /\ board'.node     = IF e.type = "start" THEN None
                           ELSE IF e.type = "node" THEN Tag(e) ELSE board.node
      /\ board'.terminal = IF e.type = "start" THEN None
                           ELSE IF e.type = "end" THEN Tag(e) ELSE board.terminal
      /\ board'.error    = IF e.type = "start" THEN None
                           ELSE IF e.type = "error" THEN Tag(e) ELSE board.error
      /\ board'.log      = IF e.type = "start" THEN <<>>
                           ELSE IF e.type = "log" THEN Capped(Append(board.log, Tag(e)))
                           ELSE board.log
      /\ board' \in LiveState
  BY <1>1, <1>3, AfterParts
<1>5. BoardTypeInv'
  <2>1. Len(board'.log) <= LogCap
    <3>1. CASE e.type = "start"
      BY <3>1, <1>3, <1>4
    <3>2. CASE e.type = "log"
      <4>1. Append(board.log, Tag(e)) \in Seq(Tags)
        BY <1>1, <1>3, AppendProperties DEF LiveState
      <4>2. Len(LastOf(Append(board.log, Tag(e)), LogCap)) <= LogCap
        <5>1. Len(LastOf(Append(board.log, Tag(e)), LogCap)) =
                IF Len(Append(board.log, Tag(e))) > LogCap THEN LogCap
                ELSE Len(Append(board.log, Tag(e)))
          BY <4>1, <1>3, LastOfProperties, Zenon
        <5>2. Len(Append(board.log, Tag(e))) \in Nat
          BY <4>1
        <5> QED BY <5>1, <5>2, <1>3
      <4> QED BY <3>2, <4>2, <1>4 DEF Capped
    <3>3. CASE e.type \notin {"start", "log"}
      BY <3>3, <1>3, <1>4
    <3> QED BY <3>1, <3>2, <3>3
  <2>2. /\ {board'.start, board'.node, board'.terminal, board'.error} \subseteq Tags
        /\ board'.log \in Seq(Tags)
    BY <1>4 DEF LiveState
  <2>3. taken' \in Nat
    BY <1>1
  <2> QED BY <2>1, <2>2, <2>3, <1>2, <1>3, <1>4 DEF BoardTypeInv, BoardTypeOK
<1>6. RunInv' /\ MemoryInv'
  BY <1>2 DEF BoardInv, RunInv, Begun, MemoryInv
<1>7. Base' = Base
  BY <1>2 DEF Base
<1>8. ViewInv'
  BY <1>1, <1>2, <1>7 DEF BoardInv, ViewInv
<1>9. TailInv'
  <2> SUFFICES ASSUME Begun, taken + 1 > Base
               PROVE  /\ \E l0, l \in 0 .. Len(lines) :
                           /\ Counts(lines, -Base, l0)
                           /\ Counts(lines, taken + 1 - Base, l)
                           /\ Shows(board'.log, lines, l0, l)
                           /\ Base >= 0 => Len(board'.log) <= l
                      /\ Base >= 0 =>
                           \A tag \in {board'.start, board'.node, board'.terminal,
                                        board'.error} : tag.run \in {0, run}
    <3>1. Begun' => Begun
      BY <1>2 DEF Begun
    <3> QED BY <3>1, <1>1, <1>2, <1>7 DEF TailInv
  <2>1. /\ e.run = run /\ e.n = taken + 1 - Base
        /\ e.type = "start" <=> e.n = 1
        /\ e.type = "log" <=> \E k \in 1 .. Len(lines) : lines[k].n = e.n
    BY <1>1 DEF Fits, Begun
  <2>2. Numbered(lines)
    BY DEF BoardInv, RunInv
  <2>3. CASE taken = Base
    <3>1. e.n = 1 /\ e.type = "start"
      BY <2>1, <2>3, <1>1
    <3>2. ASSUME NEW m \in Int, m <= 1
          PROVE  Counts(lines, m, 0)
      <4> SUFFICES ASSUME NEW k \in 1 .. Len(lines)
                   PROVE  ~(k <= 0) /\ ~(lines[k].n <= m)
        BY DEF Counts
      <4>1. lines[k] \in Tags /\ k + 1 <= lines[k].n
        BY <1>3, <2>2, ElementOfSeq DEF Numbered
      <4>2. lines[k].n \in Nat
        BY <4>1 DEF Tags
      <4> QED BY <4>1, <4>2, <3>2
    <3>3. Counts(lines, -Base, 0) /\ Counts(lines, taken + 1 - Base, 0)
      <4>0. \A p \in Nat : -p \in Int /\ -p <= 1 /\ p + 1 - p \in Int /\ p + 1 - p <= 1
        OBVIOUS
      <4>1. -Base \in Int /\ -Base <= 1
        BY <4>0, <2>3, <1>1
      <4>2. taken + 1 - Base \in Int /\ taken + 1 - Base <= 1
        BY <4>0, <2>3, <1>1
      <4> QED BY <4>1, <4>2, <3>2
    <3>4. board'.log = <<>>
      BY <3>1, <1>4
    <3>5. Shows(board'.log, lines, 0, 0) /\ Len(board'.log) <= 0
      BY <3>4, <1>3 DEF Shows
    <3>6. \E l0, l \in 0 .. Len(lines) :
            /\ Counts(lines, -Base, l0) /\ Counts(lines, taken + 1 - Base, l)
            /\ Shows(board'.log, lines, l0, l)
            /\ Base >= 0 => Len(board'.log) <= l
      <4>1. 0 \in 0 .. Len(lines)
        BY <1>3
      <4> QED BY <4>1, <3>3, <3>5
    <3>7. \A tag \in {board'.start, board'.node, board'.terminal, board'.error} :
            tag.run \in {0, run}
      BY <3>1, <2>1, <1>1, <1>4 DEF None
    <3> QED BY <3>6, <3>7
  <2>4. CASE taken # Base
    <3>1. taken > Base /\ e.n # 1 /\ e.type # "start"
      BY <2>1, <2>4, <1>1
    <3>2. PICK l0 \in 0 .. Len(lines), l \in 0 .. Len(lines) :
            /\ Counts(lines, -Base, l0) /\ Counts(lines, taken - Base, l)
            /\ Shows(board.log, lines, l0, l)
            /\ Base >= 0 => Len(board.log) <= l
      BY <3>1, <1>2 DEF BoardInv, TailInv
    <3>3. Base >= 0 => \A tag \in {board.start, board.node, board.terminal,
                                    board.error} : tag.run \in {0, run}
      BY <3>1, <1>2 DEF BoardInv, TailInv
    <3>4. Base >= 0 => \A tag \in {board'.start, board'.node, board'.terminal,
                                    board'.error} : tag.run \in {0, run}
      <4>1. /\ board'.start = board.start
            /\ board'.node \in {board.node, Tag(e)}
            /\ board'.terminal \in {board.terminal, Tag(e)}
            /\ board'.error \in {board.error, Tag(e)}
        BY <3>1, <1>4
      <4>2. Tag(e).run = run
        BY <2>1, <1>1
      <4> QED BY <4>1, <4>2, <3>3
    <3> DEFINE m == taken - Base
    <3>5. m \in Int /\ m + 1 = taken + 1 - Base /\ e.n = m + 1
      <4>1. taken \in Nat /\ Base \in Int
        BY <1>1
      <4>2. m \in Int /\ m + 1 = taken + 1 - Base
        BY <4>1
      <4> QED BY <4>2, <2>1
    <3>6. Counts(lines, m, l)
      BY <3>2
    <3> HIDE DEF m
    <3>7. IF \E k \in 1 .. Len(lines) : lines[k].n = m + 1
          THEN /\ l + 1 <= Len(lines) /\ lines[l + 1].n = m + 1
               /\ Counts(lines, m + 1, l + 1)
          ELSE Counts(lines, m + 1, l)
      BY <3>2, <3>5, <3>6, <2>2, <1>3, CountsNext
    <3>8. CASE e.type = "log"
      <4>1. /\ l + 1 <= Len(lines) /\ lines[l + 1].n = m + 1
            /\ Counts(lines, m + 1, l + 1)
        BY <3>5, <3>7, <3>8, <2>1
      <4>2. l + 1 \in 1 .. Len(lines) /\ l \in Nat /\ l0 \in Nat
        BY <4>1, <3>2
      <4>3. lines[l + 1] = Tag(e)
        <5>1. lines[l + 1] \in Tags /\ lines[l + 1].run = run
          BY <4>2, <1>3, ElementOfSeq DEF BoardInv, RunInv
        <5>2. Tag(e) \in Tags /\ Tag(e).run = e.run /\ Tag(e).n = e.n
          BY <1>1
        <5>3. lines[l + 1].run = Tag(e).run
          BY <5>1, <5>2, <2>1
        <5>4. lines[l + 1].n = Tag(e).n
          BY <5>2, <4>1, <3>5
        <5> QED BY <5>1, <5>2, <5>3, <5>4, TagsEqual
      <4>4. board.log \in Seq(Tags)
        BY <1>3 DEF LiveState
      <4>5. board'.log = Capped(Append(board.log, lines[l + 1]))
        BY <4>3, <3>8, <1>4
      <4>6. /\ Len(board'.log) <= Len(board.log) + 1
            /\ Shows(board'.log, lines, l0, l + 1)
        BY <4>1, <4>2, <4>4, <4>5, <3>2, <1>3, ShowsNext
      <4>7. Base >= 0 => Len(board'.log) <= l + 1
        <5>1. Len(board.log) \in Nat /\ Len(board'.log) \in Nat
          BY <4>4, <1>4 DEF LiveState
        <5>2. Len(board'.log) <= Len(board.log) + 1 /\ l \in Nat
          BY <4>2, <4>6
        <5>3. Base >= 0 => Len(board.log) <= l
          BY <3>2
        <5>4. ASSUME NEW p \in Nat, NEW q \in Nat, NEW r \in Nat, p <= q + 1, q <= r
              PROVE  p <= r + 1
          BY <5>4
        <5> QED BY <5>1, <5>2, <5>3, <5>4
      <4>8. l + 1 \in 0 .. Len(lines)
        BY <4>2
      <4>9. Counts(lines, taken + 1 - Base, l + 1)
        BY <4>1, <3>5
      <4> QED BY <4>6, <4>7, <4>8, <4>9, <3>2, <3>4
    <3>9. CASE e.type # "log"
      <4>1. Counts(lines, taken + 1 - Base, l)
        BY <3>5, <3>7, <3>9, <2>1
      <4>2. board'.log = board.log
        BY <3>1, <3>9, <1>4
      <4> QED BY <4>1, <4>2, <3>2, <3>4
    <3> QED BY <3>8, <3>9
  <2> QED BY <2>3, <2>4
<1> QED BY <1>5, <1>6, <1>8, <1>9 DEF BoardInv

-----------------------------------------------------------------------------
(* The theorems                                                             *)

LEMMA BoardInitHolds ==
  ASSUME BoardAssumption, BoardInit
  PROVE  IInv /\ BoardInv
<1>1. /\ run = 0 /\ published = 0 /\ replay = <<>> /\ live = "none" /\ nodes = 0
      /\ lines = <<>> /\ conn = 0 /\ online = FALSE /\ taken = 0 /\ board = EMPTY
  BY DEF BoardInit, Init
<1>2. /\ LogCap \in Nat /\ MaxRuns \in Nat /\ MaxNodes \in Nat /\ MaxLines \in Nat
  BY DEF BoardAssumption
<1>3. EMPTY \in LiveState /\ Len(EMPTY.log) <= LogCap
  BY <1>2 DEF EMPTY, None, Tags, LiveState
<1>4. BoardTypeInv
  <2>1. /\ {board.start, board.node, board.terminal, board.error} \subseteq Tags
        /\ board.log \in Seq(Tags) /\ Len(board.log) <= LogCap
    BY <1>1, <1>3 DEF LiveState
  <2>2. lines \in Seq(Tags) /\ Len(lines) <= MaxLines /\ run <= MaxRuns
    BY <1>1, <1>2
  <2>3. nodes \in 0 .. MaxNodes
    BY <1>1, <1>2
  <2> QED BY <2>1, <2>2, <2>3, <1>1, <1>3 DEF BoardTypeInv, BoardTypeOK
<1>5. RunInv
  <2>1. Numbered(<<>>) /\ Counts(<<>>, 0, 0)
    BY DEF Numbered, Counts
  <2> QED BY <2>1, <1>1 DEF RunInv, Begun
<1>6. MemoryInv /\ ViewInv /\ TailInv
  BY <1>1 DEF MemoryInv, ViewInv, TailInv
<1> QED BY <1>4, <1>5, <1>6, InitHolds DEF BoardInv, BoardInit

\* Of the stream, every step of the board is a step or a stutter.
LEMMA StreamSteps ==
  ASSUME BoardAssumption, BoardInv, [BoardNext]_boardVars
  PROVE  [Next]_vars
<1>1. "start" \in Type /\ "node" \in Type /\ "log" \in Type /\ "end" \in Type
      /\ "error" \in Type
  BY DEF BoardAssumption
<1>2. CASE BeginRun
  BY <1>2 DEF BeginRun, Next
<1>3. CASE Start \/ EnterNode \/ Say \/ EndRun
  BY <1>1, <1>3 DEF Start, EnterNode, Say, EndRun, Published, Next
<1>4. CASE Connect
  BY <1>4 DEF Connect, Next
<1>5. CASE Disconnect
  BY <1>5 DEF Disconnect, Next, BoardInv, ViewInv
<1>6. CASE Receive \/ UNCHANGED boardVars
  BY <1>6 DEF Receive, boardVars, serverVars, vars
<1> QED BY <1>2, <1>3, <1>4, <1>5, <1>6 DEF BoardNext

LEMMA BoardNextKeeps ==
  ASSUME BoardAssumption, IInv, BoardInv, [BoardNext]_boardVars
  PROVE  IInv' /\ BoardInv'
<1>1. MaxReplay \in Nat \ {0}
  BY DEF BoardAssumption
<1>2. IInv'
  BY <1>1, StreamSteps, NextKeeps
<1>3. UNCHANGED boardVars => BoardInv'
  BY DEF boardVars, serverVars, tabVars, BoardInv, BoardTypeInv, BoardTypeOK,
              RunInv, Begun, MemoryInv, ViewInv, TailInv, Base
<1>4. BoardNext => BoardInv'
  BY <1>2, BeginRunKeeps, StartKeeps, EnterNodeKeeps, SayKeeps, EndRunKeeps,
     ConnectKeeps, DisconnectKeeps, ReceiveKeeps DEF BoardNext
<1> QED BY <1>2, <1>3, <1>4

LEMMA BoardAlways ==
  BoardSpec => [](IInv /\ BoardInv)
<1>1. BoardInit => IInv /\ BoardInv
  BY BoardInitHolds, BoardAssumption
<1>2. (IInv /\ BoardInv) /\ [BoardNext]_boardVars => (IInv /\ BoardInv)'
  BY BoardNextKeeps, BoardAssumption
<1> QED BY <1>1, <1>2, PTL DEF BoardSpec

\* Every variable of the tab and its run stays in its domain, and no board keeps
\* more lines than LOG_CAP.
THEOREM BoardTypes == BoardSpec => []BoardTypeOK
<1>1. IInv /\ BoardInv => BoardTypeOK
  BY DEF BoardInv, BoardTypeInv
<1> QED BY <1>1, BoardAlways, PTL

\* A tab that has got all its events shows the last lines of the current run,
\* however often it connected and whatever the server had forgotten.
THEOREM LogIsAlwaysTheTail == BoardSpec => []LogIsTheTail
<1>1. ASSUME IInv, BoardInv, CaughtUp, Begun
      PROVE  board.log = LastOf(lines, LogCap)
  <2>1. online /\ taken = Len(view[conn])
    BY <1>1 DEF CaughtUp
  <2>2. /\ {LogCap, MaxNodes, MaxReplay} \subseteq Nat /\ published \in Nat
        /\ nodes \in 0 .. MaxNodes /\ lines \in Seq(Tags) /\ Len(lines) \in Nat
        /\ taken \in Nat /\ board.log \in Seq(Tags) /\ Len(board.log) <= LogCap
        /\ Len(board.log) \in Nat
    BY <1>1, RunTypes, BoardAssumption DEF BoardInv, BoardTypeInv, BoardTypeOK
  <2>3. published = 1 + nodes + Len(lines) + (IF live = "over" THEN 1 ELSE 0)
    BY <1>1 DEF BoardInv, RunInv
  <2>4. published >= 1 /\ published <= 2 + MaxNodes + Len(lines)
    BY <2>2, <2>3
  <2>5. Base = taken - published /\ Base \in Int /\ taken > Base /\ taken - Base = published
    BY <2>1, <2>2, <2>4 DEF Base
  <2>6. PICK l0 \in 0 .. Len(lines), l \in 0 .. Len(lines) :
          /\ Counts(lines, -Base, l0) /\ Counts(lines, taken - Base, l)
          /\ Shows(board.log, lines, l0, l)
          /\ Base >= 0 => Len(board.log) <= l
    BY <1>1, <2>1, <2>5 DEF BoardInv, TailInv
  <2>7. l = Len(lines)
    <3>1. ASSUME Len(lines) # 0 PROVE l = Len(lines)
      <4>1. Len(lines) \in 1 .. Len(lines)
        BY <3>1, <2>2
      <4>2. lines[Len(lines)].n <= published
        BY <4>1, <1>1 DEF BoardInv, RunInv
      <4>3. Len(lines) <= l
        BY <4>1, <4>2, <2>5, <2>6 DEF Counts
      <4> QED BY <4>3, <2>6
    <3> QED BY <3>1, <2>6, <2>2
  <2>8. \A k \in 1 .. Len(lines) : lines[k].n \in Nat /\ k + 1 <= lines[k].n
    <3> SUFFICES ASSUME NEW k \in 1 .. Len(lines)
                 PROVE  lines[k].n \in Nat /\ k + 1 <= lines[k].n
      OBVIOUS
    <3>1. lines[k] \in Tags
      BY <2>2, ElementOfSeq
    <3> QED BY <3>1, <1>1 DEF Tags, BoardInv, RunInv, Numbered
  <2>9. l0 = 0 \/ l0 + 1 <= -Base
    <3>1. ASSUME l0 # 0 PROVE l0 + 1 <= -Base
      <4>1. l0 \in 1 .. Len(lines) /\ l0 <= l0
        BY <3>1, <2>6
      <4>2. lines[l0].n <= -Base
        BY <4>1, <2>6 DEF Counts
      <4>3. l0 + 1 <= lines[l0].n /\ lines[l0].n \in Nat
        BY <4>1, <2>8
      <4> QED BY <4>1, <4>2, <4>3, <2>5
    <3> QED BY <3>1
  \* The board is full, or shows all the lines.
  <2>10. Len(lines) - l0 >= LogCap \/ (l0 = 0 /\ Len(board.log) <= Len(lines))
    <3>1. CASE Base >= 0
      <4>1. ~(l0 + 1 <= -Base)
        BY <3>1, <2>5, <2>6
      <4> QED BY <4>1, <3>1, <2>6, <2>7, <2>9
    <3>2. CASE Base < 0
      <4>1. taken >= MaxReplay
        BY <3>2, <2>1, <1>1 DEF BoardInv, ViewInv
      <4>2. LogCap + MaxNodes + 1 <= MaxReplay
        BY BoardAssumption DEF BoardAssumption
      <4>3. l0 + 1 <= -Base
        BY <3>2, <2>5, <2>9
      <4> QED BY <4>1, <4>2, <4>3, <2>2, <2>4, <2>5, <2>6
    <3> QED BY <3>1, <3>2, <2>5
  <2> DEFINE w == IF Len(lines) > LogCap THEN LogCap ELSE Len(lines)
  <2>11. \A j \in 0 .. LogCap - 1 :
           Len(lines) - j > l0 =>
             j < Len(board.log) /\ board.log[Len(board.log) - j] = lines[Len(lines) - j]
    BY <2>6, <2>7 DEF Shows
  <2>12. w \in Nat /\ w <= LogCap /\ w <= Len(lines)
    BY <2>2
  <2>13. ASSUME NEW j \in 0 .. w - 1
         PROVE  /\ j < Len(board.log)
                /\ board.log[Len(board.log) - j] = lines[Len(lines) - j]
    <3>1. j \in 0 .. LogCap - 1 /\ Len(lines) - j > l0
      BY <2>2, <2>6, <2>10, <2>12
    <3> QED BY <3>1, <2>11
  <2>14. Len(board.log) = w
    <3>1. Len(board.log) >= w
      <4>1. CASE w = 0
        BY <4>1, <2>2
      <4>2. CASE w # 0
        <5>1. w - 1 \in 0 .. w - 1
          BY <4>2, <2>12
        <5>2. w - 1 < Len(board.log)
          BY <5>1, <2>13
        <5> QED BY <5>2, <2>2, <2>12
      <4> QED BY <4>1, <4>2
    <3>2. Len(board.log) <= w
      BY <2>2, <2>6, <2>10
    <3> QED BY <3>1, <3>2, <2>2, <2>12
  <2>15. /\ LastOf(lines, LogCap) \in Seq(Tags) /\ Len(LastOf(lines, LogCap)) = w
         /\ \A i \in 1 .. Len(LastOf(lines, LogCap)) :
              LastOf(lines, LogCap)[i] = lines[Len(lines) - Len(LastOf(lines, LogCap)) + i]
    BY <2>2, LastOfProperties, Zenon
  <2> HIDE DEF w
  <2>16. ASSUME NEW i \in 1 .. w
         PROVE  board.log[i] = LastOf(lines, LogCap)[i]
    <3>1. w - i \in 0 .. w - 1
      BY <2>12
    <3>2. board.log[w - (w - i)] = lines[Len(lines) - (w - i)]
      BY <3>1, <2>13, <2>14
    <3>3. w - (w - i) = i /\ Len(lines) - (w - i) = Len(lines) - w + i
      BY <2>2, <2>12
    <3> QED BY <3>2, <3>3, <2>15
  <2> QED BY <2>2, <2>14, <2>15, <2>16, SeqEqual
<1>2. IInv /\ BoardInv => LogIsTheTail
  BY <1>1 DEF LogIsTheTail
<1> QED BY <1>2, BoardAlways, PTL

\* A tab whose connection brought it the start of the current run shows no
\* verdict, error or node of an earlier one.
THEOREM BoardIsAlwaysOfOneRun == BoardSpec => []BoardIsOfOneRun
<1>1. ASSUME IInv, BoardInv, CaughtUp, NEW i \in DOMAIN view[conn],
             view[conn][i].run = run, view[conn][i].type = "start"
      PROVE  \A tag \in {board.start, board.node, board.terminal, board.error} :
               tag.run \in {0, run}
  <2>1. online /\ taken = Len(view[conn])
    BY <1>1 DEF CaughtUp
  <2>2. conn \in Feed
    BY <1>1, <2>1 DEF BoardInv, ViewInv
  <2>3. view[conn] \in Seq(Event) /\ Len(view[conn]) \in Nat /\ published \in Nat
        /\ run \in Nat
    BY <1>1, <2>2 DEF IInv, TypeInv
  <2>4. i \in 1 .. Len(view[conn]) /\ Base \in Int
    BY <2>3 DEF Base
  <2>5. i > Base /\ view[conn][i].n = i - Base /\ Fits(view[conn][i], live, lines)
    <3>1. ~(view[conn][i].run < run)
      BY <1>1, <2>3
    <3>2. IF i > Base
          THEN /\ view[conn][i].run = run /\ view[conn][i].n = i - Base
               /\ Fits(view[conn][i], live, lines)
          ELSE view[conn][i].run < run
      BY <1>1, <2>1, <2>4 DEF BoardInv, ViewInv
    <3> QED BY <3>1, <3>2
  <2>6. taken > Base
    BY <2>1, <2>3, <2>4, <2>5
  <2>7. published # 0
    BY <2>1, <2>3, <2>6 DEF Base
  <2>8. Begun
    <3>1. live \in {"none", "called", "begun", "over", "failed"}
      BY <1>1 DEF BoardInv, BoardTypeInv, BoardTypeOK
    <3>2. live \notin {"none", "called"}
      BY <2>7, <1>1 DEF BoardInv, RunInv
    <3>3. live # "failed"
      BY <2>5, <1>1 DEF Fits
    <3> QED BY <3>1, <3>2, <3>3 DEF Begun
  <2>9. i - Base = 1
    BY <2>5, <2>8, <1>1 DEF Fits, Begun
  <2>10. Base >= 0
    BY <2>4, <2>9
  <2> QED BY <2>1, <2>6, <2>8, <2>10, <1>1 DEF BoardInv, TailInv
<1>2. IInv /\ BoardInv => BoardIsOfOneRun
  BY <1>1 DEF BoardIsOfOneRun
<1> QED BY <1>2, BoardAlways, PTL
=============================================================================

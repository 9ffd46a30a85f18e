------------------------- MODULE BuildLifecycle_proofs -------------------------
(***************************************************************************)
(* Proofs about BuildLifecycle, for every set of criteria, every cap and   *)
(* any number of stops, crashes, budget caps and resumes.                  *)
(***************************************************************************)
EXTENDS BuildLifecycle, BuildPipeline_proofs

RefineNode == {"iterate", "critic", "docs", "cleanroom", "emit", "end"}

\* A refine keeps to its graph, since the caps of respec and replan are used up
\* when it begins; P3 has no tests of an earlier plan to stamp over.
PlaceInv ==
  /\ mode = "refine" =>
       /\ respec_count = RespecCap /\ replan_count = ReplanCap
       /\ node \in RefineNode
  /\ node = "scaffold" => staged = {}

\* A graph that is running, or that a resume may set running.
Alive == mode = "build" \/ Running

\* A met criterion has its test in the suite, or has it published.
PresentInv == Alive /\ node # "plan" => Met \subseteq staged \cup published

\* A tree that a crash left dirty is clean again when P5 has committed, and no
\* run but a build's works on a dirty one.
TreeInv ==
  /\ node = "ingest" \/ (node \in {"emit", "end"} /\ spec # NoSpec) => ~dirty
  /\ node = "cleanroom" /\ Alive => ~dirty /\ head = "code"
  /\ mode = "refine" /\ Running => ~dirty

\* The suite of a build was green on what it published, and on the commit.
CleanInv ==
  mode = "build" /\ suite_ok =>
    /\ node \in {"emit", "end"}
    /\ published \subseteq passes /\ ~dirty /\ head = "code"

\* `done' was said by P7 or by the salvage, of a build past P6.
SaidInv == mode = "build" /\ artifact = "done" => suite_ok /\ CoreMet

LifecycleInv ==
  /\ TypeInv /\ LifecycleTypeOK /\ PlaceInv
  /\ VettedInv /\ PresentInv /\ TreeInv /\ CleanInv /\ SaidInv

-----------------------------------------------------------------------------
(* Facts about disks                                                        *)

DiskRecord ==
  [staged : SUBSET Criterion, vetted : SUBSET Criterion,
   published : SUBSET Criterion, passes : SUBSET Criterion,
   on_head : SUBSET Criterion, dirty : BOOLEAN,
   head : {"none", "scaffold", "code"}]

\* A disk the program can leave: the tests that pass are in the suite, and a
\* clean tree is HEAD.
GoodDisk ==
  {d \in DiskRecord :
     /\ d.passes \subseteq d.staged /\ d.on_head \subseteq d.staged
     /\ ~d.dirty => d.passes = d.on_head}

LEMMA DiskFields ==
  /\ Disk.staged = staged /\ Disk.vetted = vetted
  /\ Disk.published = published /\ Disk.passes = passes
  /\ Disk.on_head = on_head /\ Disk.dirty = dirty /\ Disk.head = head
  BY DEF Disk

LEMMA DiskIsGood ==
  ASSUME LifecycleTypeOK
  PROVE  Disk \in GoodDisk
  BY DEF LifecycleTypeOK, TypeOK, TestTypeOK, ShipTypeOK, Disk, GoodDisk,
         DiskRecord

LEMMA ResetFacts ==
  ASSUME NEW d \in GoodDisk
  PROVE  /\ Reset(d) \in GoodDisk
         /\ Reset(d).staged = d.staged /\ Reset(d).vetted = d.vetted
         /\ Reset(d).published = d.published /\ Reset(d).passes = d.on_head
         /\ Reset(d).on_head = d.on_head /\ Reset(d).dirty = FALSE
         /\ Reset(d).head = d.head
  BY DEF Reset, GoodDisk, DiskRecord

LEMMA CommittedFacts ==
  ASSUME NEW d \in GoodDisk
  PROVE  /\ Committed(d) \in GoodDisk
         /\ Committed(d).staged = d.staged /\ Committed(d).vetted = d.vetted
         /\ Committed(d).published = d.published
         /\ Committed(d).passes = d.staged /\ Committed(d).on_head = d.staged
         /\ Committed(d).dirty = FALSE /\ Committed(d).head = "code"
  BY DEF Committed, GoodDisk, DiskRecord

\* A build parks nothing; a refine takes the target's test alone.
LEMMA ParkedOutFacts ==
  ASSUME NEW d \in GoodDisk
  PROVE  /\ ParkedOut(d) \in GoodDisk
         /\ mode = "build" => ParkedOut(d) = d
         /\ d.staged \ {Target} \subseteq ParkedOut(d).staged
         /\ ParkedOut(d).vetted = d.vetted
         /\ ParkedOut(d).published = d.published
         /\ d.on_head \ {Target} \subseteq ParkedOut(d).on_head
         /\ ParkedOut(d).dirty = d.dirty /\ ParkedOut(d).head = d.head
  <1>1. CASE mode = "refine"
    <2>1. ParkedOut(d) =
            [d EXCEPT !.staged = d.staged \ {Target},
                      !.passes = d.passes \ {Target},
                      !.on_head = d.on_head \ {Target}]
      BY <1>1 DEF ParkedOut
    <2>2. d \in DiskRecord
      BY DEF GoodDisk
    <2>3. /\ ParkedOut(d).staged = d.staged \ {Target}
          /\ ParkedOut(d).passes = d.passes \ {Target}
          /\ ParkedOut(d).on_head = d.on_head \ {Target}
      BY <2>1, <2>2 DEF DiskRecord
    <2>4. /\ ParkedOut(d).vetted = d.vetted
          /\ ParkedOut(d).published = d.published
          /\ ParkedOut(d).dirty = d.dirty /\ ParkedOut(d).head = d.head
      BY <2>1, <2>2 DEF DiskRecord
    <2>5. ParkedOut(d) \in DiskRecord
      BY <2>1, <2>2 DEF DiskRecord
    <2>6. ParkedOut(d) \in GoodDisk
      BY <2>3, <2>4, <2>5 DEF GoodDisk
    <2>7. QED
      BY <1>1, <2>3, <2>4, <2>6
  <1>2. CASE mode # "refine"
    BY <1>2 DEF ParkedOut
  <1>3. QED
    BY <1>1, <1>2

\* The disk of P4 with its test in the suite differs in the target alone.
LEMMA TestStagedFacts ==
  ASSUME LifecycleInv, node = "iterate", NEW d \in TestStaged
  PROVE  /\ d \in GoodDisk
         /\ d.staged = StagedIn \cup {Target} /\ staged \subseteq d.staged
         /\ d.vetted \in {vetted, vetted \ {Target}}
         /\ d.published = published
         /\ d.passes \ {Target} = passes \ {Target}
         /\ d.on_head \ {Target} = on_head \ {Target}
         /\ Target \in staged /\ ~reauthor_pending => d.passes = passes
         /\ d.dirty = dirty /\ d.head = head
  <1> DEFINE Answers(s) == IF Target \notin staged \/ reauthor_pending
                           THEN {s \cup {Target}, s \ {Target}} ELSE {s}
             text == IF FreshHere \/ reauthor_pending THEN vetted \ {Target}
                     ELSE vetted
  <1>1. PICK p \in Answers(passes), h \in Answers(on_head) :
          /\ dirty \/ p = h
          /\ d = [Disk EXCEPT !.staged = StagedIn \cup {Target},
                              !.vetted = text, !.passes = p, !.on_head = h]
    BY DEF TestStaged
  <1>2. Target \in Criterion
    BY TargetFacts DEF LifecycleInv
  <1>3. StagedIn \in SUBSET Criterion /\ staged \subseteq StagedIn
    BY <1>2 DEF StagedIn, LifecycleInv, TypeInv, TypeOK, TestTypeOK
  <1>4. p \ {Target} = passes \ {Target} /\ h \ {Target} = on_head \ {Target}
    BY <1>1
  <1>5. passes \subseteq staged /\ on_head \subseteq staged
    BY DEF LifecycleInv, LifecycleTypeOK, TypeInv, TypeOK, TestTypeOK
  <1>6. p \subseteq StagedIn \cup {Target} /\ h \subseteq StagedIn \cup {Target}
    BY <1>3, <1>4, <1>5
  <1>7. text \in SUBSET Criterion /\ text \in {vetted, vetted \ {Target}}
    BY DEF LifecycleInv, TypeInv, TypeOK, TestTypeOK
  <1>8. Disk \in GoodDisk
    BY DiskIsGood DEF LifecycleInv
  <1>9. Target \in staged /\ ~reauthor_pending => p = passes
    BY <1>1
  <1> HIDE DEF Answers, text
  <1>10. /\ d.staged = StagedIn \cup {Target} /\ d.vetted = text
         /\ d.published = published /\ d.passes = p /\ d.on_head = h
         /\ d.dirty = dirty /\ d.head = head
    BY <1>1, <1>8, DiskFields DEF GoodDisk, DiskRecord
  <1>11. StagedIn \cup {Target} \in SUBSET Criterion
    BY <1>2, <1>3
  <1>12. p \in SUBSET Criterion /\ h \in SUBSET Criterion
    BY <1>6, <1>11
  <1>13. d \in DiskRecord
    BY <1>1, <1>7, <1>8, <1>11, <1>12 DEF GoodDisk, DiskRecord
  <1>14. d \in GoodDisk
    BY <1>1, <1>6, <1>10, <1>13 DEF GoodDisk
  <1>15. QED
    BY <1>3, <1>4, <1>7, <1>9, <1>10, <1>14

\* What a cut in the middle of P4 may leave.
AfterCut(d) ==
  /\ d \in GoodDisk
  /\ vetted \subseteq d.vetted \cup {Target}
  /\ d.published = published
  /\ mode = "build" => staged \subseteq d.staged
  /\ on_head \ {Target} \subseteq d.on_head

LEMMA IterateCutsFacts ==
  ASSUME LifecycleInv, node = "iterate", NEW d \in IterateCuts
  PROVE  AfterCut(d)
  <1>1. CASE d = Disk
    BY <1>1, DiskIsGood, DiskFields DEF LifecycleInv, AfterCut
  <1>2. CASE d \in TestStaged
    BY <1>2, TestStagedFacts DEF AfterCut
  <1>3. ASSUME NEW t \in TestStaged, NEW p \in SUBSET (StagedIn \cup {Target}),
               d = Edited(t, p)
        PROVE  AfterCut(d)
    <2>1. /\ t \in GoodDisk /\ t.staged = StagedIn \cup {Target}
          /\ staged \subseteq t.staged
          /\ t.vetted \in {vetted, vetted \ {Target}}
          /\ t.published = published
          /\ t.on_head \ {Target} = on_head \ {Target}
      BY TestStagedFacts
    <2>2. p \in SUBSET Criterion /\ p \subseteq t.staged
      BY <2>1 DEF GoodDisk, DiskRecord
    <2>3. /\ d.staged = t.staged /\ d.vetted = t.vetted
          /\ d.published = t.published /\ d.on_head = t.on_head
          /\ d.dirty = TRUE /\ d.passes = p
          /\ d \in DiskRecord
      BY <1>3, <2>1, <2>2 DEF Edited, GoodDisk, DiskRecord
    <2>4. d \in GoodDisk
      BY <2>1, <2>2, <2>3 DEF GoodDisk
    <2>5. QED
      BY <2>1, <2>3, <2>4 DEF AfterCut
  <1>4. ASSUME NEW t \in TestStaged, d = Committed(t)
        PROVE  AfterCut(d)
    <2>1. /\ t \in GoodDisk /\ staged \subseteq t.staged
          /\ t.vetted \in {vetted, vetted \ {Target}}
          /\ t.published = published
      BY TestStagedFacts
    <2>2. on_head \subseteq staged
      BY DEF LifecycleInv, LifecycleTypeOK
    <2>3. QED
      BY <1>4, <2>1, <2>2, CommittedFacts DEF AfterCut
  <1>5. ASSUME NEW t \in TestStaged, d = ParkedOut(Reset(t))
        PROVE  AfterCut(d)
    <2>1. /\ t \in GoodDisk /\ staged \subseteq t.staged
          /\ t.vetted \in {vetted, vetted \ {Target}}
          /\ t.published = published
          /\ t.on_head \ {Target} = on_head \ {Target}
      BY TestStagedFacts
    <2>2. PICK r : r = Reset(t)
      OBVIOUS
    <2>3. /\ r \in GoodDisk /\ r.staged = t.staged /\ r.vetted = t.vetted
          /\ r.published = t.published /\ r.on_head = t.on_head
      BY <2>1, <2>2, ResetFacts
    <2>4. /\ d = ParkedOut(r) /\ d \in GoodDisk
          /\ mode = "build" => d = r
          /\ d.vetted = r.vetted /\ d.published = r.published
          /\ r.on_head \ {Target} \subseteq d.on_head
      BY <1>5, <2>2, <2>3, ParkedOutFacts
    <2>5. QED
      BY <2>1, <2>3, <2>4 DEF AfterCut
  <1>6. QED
    BY <1>1, <1>2, <1>3, <1>4, <1>5 DEF IterateCuts

\* The answers of the sweep and the re-check reach the published tests alone,
\* and a commit of a clean tree is HEAD as it was.
LEMMA DocsCutsFacts ==
  ASSUME LifecycleInv, node = "docs", NEW d \in DocsCuts
  PROVE  /\ d \in GoodDisk
         /\ d.vetted = vetted /\ d.staged = staged
         /\ published \subseteq d.published
         /\ ~dirty => d.on_head = on_head
  <1> DEFINE shipped ==
               {Shipped(up, down) :
                  up \in SUBSET Rehabilitable,
                  down \in SUBSET CreditLost(Met \cup Rehabilitable)}
  <1>1. Disk \in GoodDisk
    BY DiskIsGood DEF LifecycleInv
  <1>2. ASSUME NEW up, NEW down, NEW s, s = Shipped(up, down)
        PROVE  /\ s \in GoodDisk /\ s.vetted = vetted /\ s.staged = staged
               /\ published \subseteq s.published /\ s.passes = passes
               /\ s.on_head = on_head /\ s.dirty = dirty
    <2>1. PICK q : q = Publish((green_test_files \cup up) \ down)
      OBVIOUS
    <2>2. q \in SUBSET Criterion /\ published \subseteq q
      BY <2>1 DEF Publish, LifecycleInv, TypeInv, TypeOK, TestTypeOK, ShipTypeOK
    <2>3. s = [Disk EXCEPT !.published = q]
      BY <1>2, <2>1 DEF Shipped
    <2>4. /\ s.vetted = Disk.vetted /\ s.staged = Disk.staged
          /\ s.published = q /\ s.passes = Disk.passes
          /\ s.on_head = Disk.on_head /\ s.dirty = Disk.dirty
          /\ s \in DiskRecord
      BY <1>1, <2>2, <2>3 DEF GoodDisk, DiskRecord
    <2>5. s \in GoodDisk
      BY <1>1, <2>4 DEF GoodDisk
    <2>6. QED
      BY <2>2, <2>4, <2>5, DiskFields
  <1>3. \A s \in shipped :
          /\ s \in GoodDisk /\ s.vetted = vetted /\ s.staged = staged
          /\ published \subseteq s.published /\ s.passes = passes
          /\ s.on_head = on_head /\ s.dirty = dirty
    BY <1>2
  <1>4. CASE d = Disk
    BY <1>1, <1>4, DiskFields
  <1>5. ASSUME NEW s \in shipped, d = CommittedAsIs(s)
        PROVE  /\ d \in GoodDisk
               /\ d.vetted = vetted /\ d.staged = staged
               /\ published \subseteq d.published
               /\ ~dirty => d.on_head = on_head
    <2> HIDE DEF shipped
    <2>1. /\ s \in GoodDisk /\ s.vetted = vetted /\ s.staged = staged
          /\ published \subseteq s.published /\ s.passes = passes
      BY <1>3
    <2>2. /\ d.vetted = s.vetted /\ d.staged = s.staged
          /\ d.published = s.published /\ d.passes = s.passes
          /\ d.on_head = s.passes /\ d.dirty = FALSE
          /\ d \in DiskRecord
      BY <1>5, <2>1 DEF CommittedAsIs, GoodDisk, DiskRecord
    <2>3. d \in GoodDisk
      BY <2>1, <2>2 DEF GoodDisk
    <2>4. ~dirty => passes = on_head
      BY DEF LifecycleInv, LifecycleTypeOK
    <2>5. QED
      BY <2>1, <2>2, <2>3, <2>4
  <1>6. DocsCuts = {Disk} \cup shipped \cup {CommittedAsIs(s) : s \in shipped}
    BY DEF DocsCuts
  <1> HIDE DEF shipped
  <1>7. QED
    BY <1>3, <1>4, <1>5, <1>6

\* What any cut may leave: a disk in which no test of the suite is lost (but
\* those of a plan that P2 is about to replace), no published one, no vetted
\* one but the target, and on HEAD no passing one but the target.
CutDisk(d) ==
  /\ d \in GoodDisk
  /\ vetted \subseteq d.vetted \cup {Target}
  /\ node # "iterate" => d.vetted = vetted
  /\ published \subseteq d.published
  /\ mode = "build" /\ node # "plan" => staged \subseteq d.staged
  /\ node = "scaffold" => d.staged = staged
  /\ mode = "refine" /\ ~dirty => on_head \ {Target} \subseteq d.on_head
  /\ node \notin {"iterate", "docs", "plan", "scaffold"} /\ ~dirty =>
       /\ d.published = published /\ d.passes = passes
       /\ d.dirty = FALSE /\ d.head = head

LEMMA DiskIsCutDisk ==
  ASSUME LifecycleTypeOK
  PROVE  CutDisk(Disk)
  BY DiskIsGood, DiskFields DEF CutDisk, LifecycleTypeOK

LEMMA CutsFacts ==
  ASSUME LifecycleInv, NEW d \in Cuts
  PROVE  CutDisk(d)
  <1>1. Disk \in GoodDisk /\ CutDisk(Disk)
    BY DiskIsGood, DiskIsCutDisk DEF LifecycleInv
  <1>2. CASE d = Disk
    BY <1>1, <1>2
  <1>3. CASE node = "iterate"
    <2>1. d \in IterateCuts
      BY <1>3 DEF Cuts
    <2>2. AfterCut(d)
      BY <1>3, <2>1, IterateCutsFacts
    <2>3. QED
      BY <1>3, <2>2 DEF AfterCut, CutDisk
  <1>4. CASE node = "docs"
    <2>1. d \in DocsCuts
      BY <1>4 DEF Cuts
    <2>2. /\ d \in GoodDisk
          /\ d.vetted = vetted /\ d.staged = staged
          /\ published \subseteq d.published
          /\ ~dirty => d.on_head = on_head
      BY <1>4, <2>1, DocsCutsFacts
    <2>3. QED
      BY <1>4, <2>2 DEF CutDisk
  <1>5. CASE node = "plan" /\ d # Disk
    <2>1. d = [Disk EXCEPT !.staged = {}, !.passes = {}, !.on_head = {}]
      BY <1>5 DEF Cuts
    <2>2. /\ d.staged = {} /\ d.passes = {} /\ d.on_head = {}
          /\ d.vetted = Disk.vetted /\ d.published = Disk.published
          /\ d \in DiskRecord
      BY <1>1, <2>1 DEF GoodDisk, DiskRecord
    <2>3. d \in GoodDisk
      BY <2>2 DEF GoodDisk
    <2>4. mode # "refine"
      BY <1>5 DEF LifecycleInv, PlaceInv, RefineNode
    <2>5. QED
      BY <1>5, <2>2, <2>3, <2>4, DiskFields DEF CutDisk
  <1>6. CASE node = "scaffold" /\ d # Disk
    <2>1. PICK b \in BOOLEAN, h \in {"none", "scaffold", "code"} :
            d = [Disk EXCEPT !.dirty = b, !.head = h]
      <3>1. \/ d = [Disk EXCEPT !.dirty = TRUE]
            \/ d = [Disk EXCEPT !.dirty = FALSE, !.head = "scaffold"]
        BY <1>6 DEF Cuts
      <3>2. [Disk EXCEPT !.dirty = TRUE] = [Disk EXCEPT !.dirty = TRUE,
                                                       !.head = Disk.head]
        BY <1>1 DEF GoodDisk, DiskRecord
      <3>3. Disk.head \in {"none", "scaffold", "code"}
        BY <1>1 DEF GoodDisk, DiskRecord
      <3>4. QED
        BY <3>1, <3>2, <3>3
    <2>2. /\ d.staged = Disk.staged /\ d.passes = Disk.passes
          /\ d.on_head = Disk.on_head
          /\ d.vetted = Disk.vetted /\ d.published = Disk.published
          /\ d \in DiskRecord
      BY <1>1, <2>1 DEF GoodDisk, DiskRecord
    <2>3. staged = {} /\ mode # "refine"
      BY <1>6 DEF LifecycleInv, PlaceInv, RefineNode
    <2>4. d.staged = {} /\ d.passes = {} /\ d.on_head = {}
      BY <1>1, <2>2, <2>3, DiskFields DEF GoodDisk
    <2>5. d \in GoodDisk
      BY <2>2, <2>4 DEF GoodDisk
    <2>6. QED
      BY <1>6, <2>2, <2>3, <2>5, DiskFields DEF CutDisk
  <1>7. CASE node \notin {"iterate", "docs", "plan", "scaffold"}
    BY <1>2, <1>7 DEF Cuts
  <1>8. QED
    BY <1>2, <1>3, <1>4, <1>5, <1>6, <1>7

\* The salvage's reset loses nothing more.
LEMMA ResetIsCutDisk ==
  ASSUME LifecycleInv, NEW d, CutDisk(d)
  PROVE  CutDisk(Reset(d))
  <1>1. d \in GoodDisk
    BY DEF CutDisk
  <1>2. ~d.dirty => d.passes = d.on_head
    BY <1>1 DEF GoodDisk
  <1>3. QED
    BY <1>1, <1>2, ResetFacts DEF CutDisk

\* A disk that is good makes every variable it sets well-typed.
LEMMA SetDiskTypes ==
  ASSUME NEW d \in GoodDisk, SetDisk(d)
  PROVE  /\ staged' \in SUBSET Criterion /\ passes' \in SUBSET staged'
         /\ vetted' \in SUBSET Criterion /\ published' \in SUBSET Criterion
         /\ on_head' \in SUBSET staged' /\ dirty' \in BOOLEAN
         /\ head' \in {"none", "scaffold", "code"}
         /\ ~dirty' => passes' = on_head'
  BY DEF SetDisk, GoodDisk, DiskRecord

-----------------------------------------------------------------------------
(* The invariant: the steps of a running graph                              *)

\* A node that completes is a step of the graph.
LEMMA NodeKeepsGraphInv ==
  ASSUME LifecycleInv, Running, [Next]_vars
  PROVE  TypeInv' /\ VettedInv'
  BY NextTypeInv, VettedStep DEF LifecycleInv, PresentInv, Alive

LEMMA QuietFacts ==
  ASSUME LifecycleInv, QuietNode
  PROVE  /\ Running /\ Next
         /\ UNCHANGED <<plan, staged, passes, published, runVars, treeVars,
                        parked>>
         /\ Met' \subseteq Met
         /\ node \in {"ingest", "spec", "critic", "cleanroom"}
         /\ node' \notin {"ingest", "scaffold", "cleanroom", "end"}
         /\ node' = "emit" => node \in {"ingest", "cleanroom"} \/ spec' = NoSpec
         /\ suite_ok' => suite_ok \/ (/\ node = "cleanroom" /\ node' = "emit"
                                     /\ published \subseteq passes)
         /\ mode = "refine" =>
              /\ UNCHANGED <<respec_count, replan_count>>
              /\ node' \in RefineNode
  <1>1. Running /\ UNCHANGED <<runVars, treeVars, parked>>
    BY DEF QuietNode, Enter
  <1>2. Next
    BY DEF QuietNode, Next
  <1>3. CASE Ingest
    <2>1. /\ node = "ingest" /\ node' \in {"spec", "emit"}
          /\ UNCHANGED <<plan, crit, staged, passes, published, suite_ok>>
      BY <1>3 DEF Ingest, productVars, testVars, shipVars
    <2>2. mode # "refine"
      BY <2>1 DEF LifecycleInv, PlaceInv, RefineNode
    <2>3. QED
      BY <1>1, <1>2, <2>1, <2>2, MetFrame
  <1>4. CASE SpecBuildable \/ SpecNotBuildable
    <2>1. /\ node = "spec" /\ crit' = AllPending
          /\ node' = "plan" \/ (node' = "emit" /\ spec' = NoSpec)
          /\ UNCHANGED <<plan, staged, passes, published, suite_ok>>
      BY <1>4 DEF SpecBuildable, SpecNotBuildable, testVars, shipVars
    <2>2. mode # "refine"
      BY <2>1 DEF LifecycleInv, PlaceInv, RefineNode
    <2>3. QED
      BY <1>1, <1>2, <2>1, <2>2, MetAllPending
  <1>5. CASE Critic
    <2>1. /\ node = "critic" /\ CriticFrame
          /\ node' \in {"iterate", "docs", "spec", "plan"}
      BY <1>5 DEF Critic, CriticAccept, CriticFix, CriticReauthor,
         CriticRespec, CriticReplan, CriticDescope, Advance
    <2>2. Met' \subseteq Met
      BY <1>5, MetFrame, MetAfterDescope
      DEF LifecycleInv, Critic, CriticAccept, CriticFix, CriticReauthor,
          CriticRespec, CriticReplan
    <2>3. ASSUME mode = "refine"
          PROVE  /\ UNCHANGED <<respec_count, replan_count>>
                 /\ node' \in RefineNode
      <3>1. respec_count = RespecCap /\ replan_count = ReplanCap
        BY <2>3 DEF LifecycleInv, PlaceInv
      <3>2. ~CriticRespec /\ ~CriticReplan
        BY <3>1, CapsAssumption DEF CriticRespec, CriticReplan
      <3>3. QED
        BY <1>5, <3>2
        DEF Critic, CriticAccept, CriticFix, CriticReauthor, CriticDescope,
            Advance, capVars, RefineNode
    <2>4. UNCHANGED <<plan, staged, passes, published, suite_ok>>
      BY <2>1 DEF CriticFrame
    <2>5. QED
      BY <1>1, <1>2, <2>1, <2>2, <2>3, <2>4
  <1>6. CASE Cleanroom
    <2>1. /\ node = "cleanroom" /\ node' = "emit"
          /\ suite_ok' => published \subseteq passes
          /\ UNCHANGED <<plan, crit, staged, passes, published, respec_count,
                         replan_count>>
      BY <1>6 DEF Cleanroom, SuiteMayPass, productVars, ladderVars, capVars,
                  testVars
    <2>2. QED
      BY <1>1, <1>2, <2>1, MetFrame DEF RefineNode
  <1>7. QED
    BY <1>3, <1>4, <1>5, <1>6 DEF QuietNode

LEMMA QuietInductive ==
  ASSUME LifecycleInv, QuietNode
  PROVE  LifecycleInv'
  <1>1. /\ Running /\ Next
        /\ UNCHANGED <<plan, staged, passes, published, runVars, treeVars,
                       parked>>
        /\ Met' \subseteq Met
        /\ node \in {"ingest", "spec", "critic", "cleanroom"}
        /\ node' \notin {"ingest", "scaffold", "cleanroom", "end"}
        /\ node' = "emit" => node \in {"ingest", "cleanroom"} \/ spec' = NoSpec
        /\ suite_ok' => suite_ok \/ (/\ node = "cleanroom" /\ node' = "emit"
                                    /\ published \subseteq passes)
        /\ mode = "refine" =>
             /\ UNCHANGED <<respec_count, replan_count>>
             /\ node' \in RefineNode
    BY QuietFacts
  <1>2. TypeInv' /\ VettedInv'
    BY <1>1, NodeKeepsGraphInv
  <1>3. UNCHANGED <<run, mode, saved, artifact, sentinel, services_up, head,
                    dirty, on_head>>
    BY <1>1 DEF runVars, treeVars
  <1>4. LifecycleTypeOK'
    BY <1>1, <1>2, <1>3 DEF LifecycleInv, LifecycleTypeOK, TypeInv, Planned
  <1>5. PlaceInv'
    BY <1>1, <1>3 DEF LifecycleInv, PlaceInv
  <1>6. PresentInv'
    BY <1>1, <1>3 DEF LifecycleInv, PresentInv, Alive, Running
  <1>7. TreeInv'
    BY <1>1, <1>3 DEF LifecycleInv, TreeInv, Alive, Running
  <1>8. CleanInv'
    BY <1>1, <1>3 DEF LifecycleInv, CleanInv, TreeInv, Alive
  <1>9. SaidInv'
    BY <1>1, <1>3 DEF LifecycleInv, CleanInv, SaidInv
  <1>10. QED
    BY <1>2, <1>4, <1>5, <1>6, <1>7, <1>8, <1>9 DEF LifecycleInv

LEMMA PlanInductive ==
  ASSUME LifecycleInv, PlanNode
  PROVE  LifecycleInv'
  <1>1. /\ Running /\ Next /\ node = "plan" /\ node' = "scaffold"
        /\ staged' = {} /\ passes' = {} /\ on_head' = {}
        /\ crit' = AllPending
        /\ UNCHANGED <<run, mode, saved, artifact, sentinel, services_up, head,
                       dirty, parked, suite_ok>>
    BY DEF PlanNode, Enter, MakePlan, Next, runVars
  <1>2. mode = "build"
    BY <1>1 DEF LifecycleInv, PlaceInv, RefineNode, LifecycleTypeOK
  <1>3. TypeInv' /\ VettedInv' /\ Met' = {}
    BY <1>1, NodeKeepsGraphInv, MetAllPending
  <1>4. LifecycleTypeOK'
    BY <1>1, <1>2, <1>3 DEF LifecycleInv, LifecycleTypeOK, TypeInv
  <1>5. PlaceInv' /\ PresentInv' /\ TreeInv'
    BY <1>1, <1>2, <1>3 DEF PlaceInv, PresentInv, TreeInv
  <1>6. ~suite_ok
    BY <1>1, <1>2 DEF LifecycleInv, CleanInv
  <1>7. CleanInv' /\ SaidInv'
    BY <1>1, <1>2, <1>6 DEF LifecycleInv, CleanInv, SaidInv
  <1>8. QED
    BY <1>3, <1>4, <1>5, <1>7 DEF LifecycleInv

LEMMA ScaffoldInductive ==
  ASSUME LifecycleInv, ScaffoldNode
  PROVE  LifecycleInv'
  <1>1. /\ Running /\ Next /\ node = "scaffold" /\ node' \in {"iterate", "emit"}
        /\ node' = "emit" => dirty' = FALSE
        /\ UNCHANGED <<plan, crit, staged, passes, published, suite_ok, run,
                       mode, saved, sentinel, artifact, parked>>
        /\ services_up' \in BOOLEAN
        /\ \/ UNCHANGED <<head, dirty, on_head>>
           \/ head' = "scaffold" /\ dirty' = FALSE /\ on_head' = passes
    BY DEF ScaffoldNode, Enter, ScaffoldPreserve, ScaffoldStamp, Next,
           productVars, testVars, shipVars, treeVars, LifecycleInv,
           LifecycleTypeOK
  <1>2. mode = "build"
    BY <1>1 DEF LifecycleInv, PlaceInv, RefineNode, LifecycleTypeOK
  <1>3. TypeInv' /\ VettedInv'
    BY <1>1, NodeKeepsGraphInv
  <1>4. passes \subseteq staged
    BY DEF LifecycleInv, TypeInv, TypeOK, TestTypeOK
  <1>5. LifecycleTypeOK'
    <2>1. CASE UNCHANGED <<head, dirty, on_head>>
      BY <1>1, <1>2, <1>3, <2>1 DEF LifecycleInv, LifecycleTypeOK, TypeInv
    <2>2. CASE head' = "scaffold" /\ dirty' = FALSE /\ on_head' = passes
      BY <1>1, <1>2, <1>3, <1>4, <2>2
      DEF LifecycleInv, LifecycleTypeOK, TypeInv
    <2>3. QED
      BY <1>1, <2>1, <2>2
  <1>6. PlaceInv' /\ PresentInv'
    BY <1>1, <1>2, MetFrame
    DEF LifecycleInv, PlaceInv, PresentInv, Alive, Running
  <1>7. TreeInv'
    BY <1>1, <1>2 DEF TreeInv
  <1>8. ~suite_ok
    BY <1>1, <1>2 DEF LifecycleInv, CleanInv
  <1>9. CleanInv' /\ SaidInv'
    BY <1>1, <1>2, <1>8 DEF LifecycleInv, CleanInv, SaidInv
  <1>10. QED
    BY <1>3, <1>5, <1>6, <1>7, <1>9 DEF LifecycleInv

\* P5 promotes tests that are in the suite.
LEMMA DocsInductive ==
  ASSUME LifecycleInv, DocsNode
  PROVE  LifecycleInv'
  <1>1. /\ Running /\ Next /\ node = "docs" /\ node' = "cleanroom"
        /\ head' = "code" /\ dirty' = FALSE /\ on_head' = passes
        /\ UNCHANGED <<plan, staged, passes, suite_ok, run, mode, saved,
                       sentinel, services_up, artifact, parked, respec_count,
                       replan_count>>
    BY DEF DocsNode, Enter, Docs, Next, runVars, ladderVars, capVars
  <1>2. PICK promoted \in SUBSET Rehabilitable, demoted \in SUBSET Criterion :
          /\ crit' = [c \in Criterion |->
                        IF c \in demoted THEN "descoped"
                        ELSE IF c \in promoted THEN "met" ELSE crit[c]]
          /\ published' = Publish(green_test_files')
    BY DEF DocsNode, Docs, CreditLost, LifecycleInv, TypeInv, TypeOK,
           TestTypeOK
  <1>3. TypeInv' /\ VettedInv'
    BY <1>1, NodeKeepsGraphInv
  <1>4. passes \subseteq staged
    BY DEF LifecycleInv, TypeInv, TypeOK, TestTypeOK
  <1>5. LifecycleTypeOK'
    BY <1>1, <1>3, <1>4 DEF LifecycleInv, LifecycleTypeOK, TypeInv, Planned
  <1>6. PlaceInv'
    BY <1>1 DEF LifecycleInv, PlaceInv, RefineNode
  <1>7. Met \subseteq staged \cup published
    BY <1>1 DEF LifecycleInv, PresentInv, Alive
  <1>8. PresentInv'
    <2>1. Met' \subseteq Met \cup promoted
      BY <1>2 DEF Met
    <2>2. promoted \subseteq staged /\ published \subseteq published'
      BY <1>2 DEF Rehabilitable, Publish
    <2>3. QED
      BY <1>1, <1>7, <2>1, <2>2 DEF PresentInv
  <1>9. TreeInv'
    BY <1>1 DEF TreeInv
  <1>10. mode = "build" => ~suite_ok
    BY <1>1 DEF LifecycleInv, CleanInv
  <1>11. CleanInv' /\ SaidInv'
    BY <1>1, <1>10 DEF LifecycleInv, CleanInv, SaidInv
  <1>12. QED
    BY <1>3, <1>5, <1>6, <1>8, <1>9, <1>11 DEF LifecycleInv

\* `done' is the verdict on a green suite alone, unless P7 has given it.
LEMMA FinalStatusFacts ==
  ASSUME status \in Status
  PROVE  /\ FinalStatus \in Status
         /\ FinalStatus = "done" => suite_ok /\ CoreMet
  BY DEF FinalStatus, Status

LEMMA EmitInductive ==
  ASSUME LifecycleInv, EmitNode
  PROVE  LifecycleInv'
  <1>1. /\ Running /\ Next /\ node = "emit" /\ node' = "end"
        /\ UNCHANGED <<spec, plan, crit, staged, passes, published, suite_ok,
                       respec_count, replan_count, mode, saved, sentinel,
                       services_up, head, dirty, on_head, parked>>
        /\ run' = "down" /\ artifact' = FinalStatus
    BY DEF EmitNode, Enter, Emit, Next, productVars, ladderVars, capVars,
           testVars, shipVars, treeVars
  <1>2. TypeInv' /\ VettedInv'
    BY <1>1, NodeKeepsGraphInv
  <1>3. /\ FinalStatus \in Status
        /\ FinalStatus = "done" => suite_ok /\ CoreMet
    BY FinalStatusFacts DEF LifecycleInv, TypeInv, TypeOK, ProductTypeOK
  <1>4. LifecycleTypeOK'
    BY <1>1, <1>2, <1>3 DEF LifecycleInv, LifecycleTypeOK, TypeInv, Planned
  <1>5. PlaceInv'
    BY <1>1 DEF LifecycleInv, PlaceInv, RefineNode
  <1>6. PresentInv'
    BY <1>1, MetFrame DEF LifecycleInv, PresentInv, Alive
  <1>7. TreeInv'
    BY <1>1 DEF LifecycleInv, TreeInv, Running
  <1>8. CleanInv'
    BY <1>1 DEF LifecycleInv, CleanInv
  <1>9. CoreMet' = CoreMet
    BY <1>1 DEF CoreMet
  <1>10. SaidInv'
    BY <1>1, <1>3, <1>9 DEF SaidInv
  <1>11. QED
    BY <1>2, <1>4, <1>5, <1>6, <1>7, <1>8, <1>10 DEF LifecycleInv

-----------------------------------------------------------------------------
(* The invariant: P4                                                        *)

\* The disk P4 leaves with a status for its target: no other test is lost
\* from the suite or from HEAD, a met one is there, and edits are only left
\* where they were found.
IterateDisk(e, it_status) ==
  /\ e \in GoodDisk
  /\ staged \ {Target} \subseteq e.staged
  /\ it_status \in MetStatus => Target \in e.staged
  /\ e.published = published
  /\ e.dirty => dirty
  /\ on_head \ {Target} \subseteq e.on_head

LEMMA StagedIsIterateDisk ==
  ASSUME LifecycleInv, node = "iterate", NEW d \in TestStaged, NEW it_status
  PROVE  IterateDisk(d, it_status)
  BY TestStagedFacts DEF IterateDisk

LEMMA ResetIsIterateDisk ==
  ASSUME LifecycleInv, node = "iterate", NEW d \in TestStaged, NEW it_status
  PROVE  IterateDisk(Reset(d), it_status)
  BY TestStagedFacts, ResetFacts DEF IterateDisk

LEMMA CommittedIsIterateDisk ==
  ASSUME LifecycleInv, node = "iterate", NEW d \in TestStaged, NEW it_status
  PROVE  IterateDisk(Committed(d), it_status)
  BY TestStagedFacts, CommittedFacts
  DEF IterateDisk, LifecycleInv, LifecycleTypeOK

LEMMA ParkedIsIterateDisk ==
  ASSUME LifecycleInv, node = "iterate", NEW d \in TestStaged,
         NEW it_status, it_status \notin MetStatus
  PROVE  IterateDisk(ParkedOut(Reset(d)), it_status)
  <1>1. PICK r : r = Reset(d)
    OBVIOUS
  <1>2. /\ d \in GoodDisk /\ staged \subseteq d.staged
        /\ d.published = published
        /\ d.on_head \ {Target} = on_head \ {Target}
    BY TestStagedFacts
  <1>3. /\ r \in GoodDisk /\ r.staged = d.staged
        /\ r.published = d.published /\ r.on_head = d.on_head
        /\ r.dirty = FALSE
    BY <1>1, <1>2, ResetFacts
  <1>4. /\ ParkedOut(r) \in GoodDisk
        /\ r.staged \ {Target} \subseteq ParkedOut(r).staged
        /\ ParkedOut(r).published = r.published
        /\ r.on_head \ {Target} \subseteq ParkedOut(r).on_head
        /\ ParkedOut(r).dirty = r.dirty
    BY <1>3, ParkedOutFacts
  <1>5. IterateDisk(ParkedOut(r), it_status)
    BY <1>2, <1>3, <1>4 DEF IterateDisk
  <1>6. QED
    BY <1>1, <1>5

\* What an iteration does, whatever its outcome.
LEMMA IterateFacts ==
  ASSUME LifecycleInv, IterateNode
  PROVE  \E it_status \in IterStatus, isGreen \in BOOLEAN, e \in GoodDisk :
           /\ RecordState(it_status, isGreen, FreshHere)
           /\ SetDisk(e) /\ IterateDisk(e, it_status)
           /\ WallTypeOK' /\ last_coder_stuck' \in BOOLEAN
           /\ commit_sha' \in {"none", "scaffold", "code"}
  <1> DEFINE Goal(s, g, e) ==
               /\ RecordState(s, g, FreshHere)
               /\ SetDisk(e) /\ IterateDisk(e, s)
               /\ WallTypeOK' /\ last_coder_stuck' \in BOOLEAN
               /\ commit_sha' \in {"none", "scaffold", "code"}
  <1>1. node = "iterate"
    BY DEF IterateNode
  <1>2. WallTypeOK /\ commit_sha \in {"none", "scaffold", "code"} /\ TypeInv
    BY DEF LifecycleInv, TypeInv, TypeOK, TestTypeOK
  <1>3. \A n \in 1 .. 2 : RaiseIncidents(n) =>
          highs' \in 0 .. 2 /\ high_incident_criteria' \in SUBSET Criterion
    BY <1>1, <1>2, RaiseTypes
  <1>4. ASSUME NEW d \in TestStaged,
               /\ RecordState("red-first-failed", TRUE, FreshHere)
               /\ SetDisk(Reset(d))
               /\ RaiseIncidents(1) /\ red_first_ok' = FALSE
               /\ last_coder_stuck' = FALSE
               /\ UNCHANGED <<inventory_ok, commit_sha>>
        PROVE  Goal("red-first-failed", TRUE, Reset(d))
    <2>1. WallTypeOK'
      <3>1. PICK n \in 1 .. 2 : RaiseIncidents(n)
        BY <1>4
      <3>2. highs' \in 0 .. 2 /\ high_incident_criteria' \in SUBSET Criterion
        BY <1>3, <3>1
      <3>3. inventory_ok' \in BOOLEAN /\ red_first_ok' \in BOOLEAN
        BY <1>2, <1>4 DEF WallTypeOK
      <3>4. QED
        BY <3>2, <3>3 DEF WallTypeOK
    <2>2. QED
      BY <1>1, <1>2, <1>4, <2>1, ResetIsIterateDisk
  <1>5. ASSUME NEW d \in TestStaged,
               /\ RecordState("met-existing", TRUE, FreshHere)
               /\ SetDisk(d)
               /\ last_coder_stuck' = FALSE
               /\ UNCHANGED <<wallVars, commit_sha>>
        PROVE  Goal("met-existing", TRUE, d)
    BY <1>1, <1>2, <1>5, StagedIsIterateDisk, WallFrame
  <1>6. ASSUME NEW d \in TestStaged,
               /\ RecordState("green", FALSE, FreshHere)
               /\ SetDisk(Committed(d))
               /\ commit_sha' = "code" /\ last_coder_stuck' = FALSE
               /\ UNCHANGED wallVars
        PROVE  Goal("green", FALSE, Committed(d))
    BY <1>1, <1>2, <1>6, CommittedIsIterateDisk, WallFrame
  <1>7. ASSUME NEW d \in TestStaged, NEW s \in {"incident", "abandoned"},
               /\ RecordState(s, FALSE, FreshHere)
               /\ SetDisk(ParkedOut(Reset(d)))
               /\ WallTypeOK' /\ last_coder_stuck' \in BOOLEAN
               /\ UNCHANGED commit_sha
        PROVE  Goal(s, FALSE, ParkedOut(Reset(d)))
    BY <1>1, <1>2, <1>7, ParkedIsIterateDisk DEF MetStatus
  <1>8. ASSUME NEW d \in TestStaged,
               /\ RecordState("incident", FALSE, FreshHere)
               /\ SetDisk(ParkedOut(Reset(d)))
               /\ last_coder_stuck' = FALSE
               /\ \/ RaiseIncidents(1) /\ inventory_ok' = FALSE
                  \/ /\ \E n \in 1 .. 2 : RaiseIncidents(n)
                     /\ UNCHANGED inventory_ok
               /\ UNCHANGED <<red_first_ok, commit_sha>>
        PROVE  Goal("incident", FALSE, ParkedOut(Reset(d)))
    <2>1. WallTypeOK'
      <3>1. PICK n \in 1 .. 2 : RaiseIncidents(n)
        BY <1>8
      <3>2. highs' \in 0 .. 2 /\ high_incident_criteria' \in SUBSET Criterion
        BY <1>3, <3>1
      <3>3. inventory_ok' \in BOOLEAN /\ red_first_ok' \in BOOLEAN
        BY <1>2, <1>8 DEF WallTypeOK
      <3>4. QED
        BY <3>2, <3>3 DEF WallTypeOK
    <2>2. QED
      BY <1>7, <1>8, <2>1
  <1>9. ASSUME NEW d \in TestStaged,
               /\ RecordState("abandoned", FALSE, FreshHere)
               /\ SetDisk(ParkedOut(Reset(d)))
               /\ last_coder_stuck' \in BOOLEAN
               /\ UNCHANGED <<wallVars, commit_sha>>
        PROVE  Goal("abandoned", FALSE, ParkedOut(Reset(d)))
    BY <1>2, <1>7, <1>9, WallFrame
  <1>10. \A d \in TestStaged :
           d \in GoodDisk /\ Reset(d) \in GoodDisk /\ Committed(d) \in GoodDisk
           /\ ParkedOut(Reset(d)) \in GoodDisk
    BY <1>1, TestStagedFacts, ResetFacts, CommittedFacts, ParkedOutFacts
  <1> HIDE DEF Goal
  <1>11. \E it_status \in IterStatus, isGreen \in BOOLEAN, e \in GoodDisk :
           Goal(it_status, isGreen, e)
    BY <1>4, <1>5, <1>6, <1>8, <1>9, <1>10
    DEF IterateNode, IterStatus, MetStatus
  <1>12. QED
    BY <1>11 DEF Goal

LEMMA IterateInductive ==
  ASSUME LifecycleInv, IterateNode
  PROVE  LifecycleInv'
  <1>1. PICK it_status \in IterStatus, isGreen \in BOOLEAN, e \in GoodDisk :
          /\ RecordState(it_status, isGreen, FreshHere)
          /\ SetDisk(e) /\ IterateDisk(e, it_status)
          /\ WallTypeOK' /\ last_coder_stuck' \in BOOLEAN
          /\ commit_sha' \in {"none", "scaffold", "code"}
    BY IterateFacts
  <1>2. /\ Running /\ node = "iterate"
        /\ UNCHANGED <<run, mode, saved, sentinel, artifact, services_up,
                       parked>>
    BY DEF IterateNode, Enter, runVars
  <1>3. /\ node' = "critic"
        /\ UNCHANGED <<plan, suite_ok, respec_count, replan_count>>
    BY <1>1 DEF RecordState, capVars
  <1>4. TypeInv /\ VettedInv
    BY DEF LifecycleInv
  <1>5. /\ staged' \in SUBSET Criterion /\ passes' \in SUBSET staged'
        /\ on_head' \in SUBSET staged' /\ dirty' \in BOOLEAN
        /\ head' \in {"none", "scaffold", "code"}
        /\ ~dirty' => passes' = on_head'
    BY <1>1, SetDiskTypes
  <1>6. TypeInv'
    <2>1. FreshHere \in BOOLEAN
      BY DEF FreshHere
    <2>2. /\ ProductTypeOK' /\ LadderTypeOK' /\ ShipTypeOK' /\ LoopInPlan'
          /\ vetted' \in SUBSET Criterion
          /\ probed' \in [Criterion ->
                            {"no", "red", "green-on-code", "green-on-stub"}]
      BY <1>1, <1>2, <1>4, <2>1, RecordStateTypes
    <2>3. TestTypeOK'
      BY <1>1, <1>5, <2>2 DEF TestTypeOK
    <2>4. QED
      BY <1>1, <2>2, <2>3 DEF TypeInv, TypeOK
  <1>7. VettedInv'
    BY <1>1, <1>2, <1>4, VettedRecord
  <1>8. LifecycleTypeOK'
    BY <1>2, <1>3, <1>5, <1>6
    DEF LifecycleInv, LifecycleTypeOK, TypeInv, Planned
  <1>9. PlaceInv'
    BY <1>2, <1>3 DEF LifecycleInv, PlaceInv, RefineNode
  <1>10. PresentInv'
    <2>1. Met \subseteq staged \cup published
      BY <1>2 DEF LifecycleInv, PresentInv, Alive
    <2>2. /\ staged' = e.staged /\ published' = e.published
          /\ staged \ {Target} \subseteq e.staged
          /\ it_status \in MetStatus => Target \in e.staged
          /\ e.published = published
      BY <1>1 DEF SetDisk, IterateDisk
    <2>3. /\ it_status \in MetStatus => Met' = Met \cup {Target}
          /\ it_status \notin MetStatus => Met' = Met \ {Target}
      BY <1>1, <1>2, <1>4, MetAfterRecordState
    <2>4. QED
      BY <2>1, <2>2, <2>3 DEF PresentInv
  <1>11. TreeInv'
    <2>1. mode = "refine" => ~dirty
      BY <1>2 DEF LifecycleInv, TreeInv
    <2>2. dirty' => dirty
      BY <1>1 DEF SetDisk, IterateDisk
    <2>3. QED
      BY <1>2, <1>3, <2>1, <2>2 DEF TreeInv
  <1>12. mode = "build" => ~suite_ok
    BY <1>2 DEF LifecycleInv, CleanInv
  <1>13. CleanInv' /\ SaidInv'
    BY <1>2, <1>3, <1>12 DEF LifecycleInv, CleanInv, SaidInv
  <1>14. QED
    BY <1>6, <1>7, <1>8, <1>9, <1>10, <1>11, <1>13 DEF LifecycleInv

-----------------------------------------------------------------------------
(* The invariant: cuts, stops and new processes                             *)

\* A cut keeps the checkpoint and leaves one of its disks.
LEMMA CutInductive ==
  ASSUME LifecycleInv, NEW d, CutDisk(d), SetDisk(d),
         run' = "down", KeepCheckpoint,
         artifact' \in {artifact, "failed", FinalStatus}
  PROVE  LifecycleInv'
  <1>1. /\ UNCHANGED <<node, status, productVars, degraded_critic, ladderVars,
                       lastVars, researchVars, wallVars, commit_sha, probed,
                       green_test_files, adequacy_credits, descope_report,
                       suite_ok, rechecked>>
        /\ UNCHANGED <<mode, saved, sentinel, services_up, parked>>
    BY DEF KeepCheckpoint, checkpointVars
  <1>2. UNCHANGED <<spec, plan, crit, iteration, respec_count, replan_count>>
    BY <1>1 DEF productVars, ladderVars, capVars
  <1>3. d \in GoodDisk
    BY DEF CutDisk
  <1>4. /\ staged' \in SUBSET Criterion /\ passes' \in SUBSET staged'
        /\ vetted' \in SUBSET Criterion /\ published' \in SUBSET Criterion
        /\ on_head' \in SUBSET staged' /\ dirty' \in BOOLEAN
        /\ head' \in {"none", "scaffold", "code"}
        /\ ~dirty' => passes' = on_head'
    BY <1>3, SetDiskTypes
  <1>5. /\ vetted \subseteq vetted' \cup {Target}
        /\ node # "iterate" => vetted' = vetted
        /\ published \subseteq published'
        /\ mode = "build" /\ node # "plan" => staged \subseteq staged'
        /\ node = "scaffold" => staged' = staged
        /\ node \notin {"iterate", "docs", "plan", "scaffold"} /\ ~dirty =>
             /\ published' = published /\ passes' = passes
             /\ dirty' = FALSE /\ head' = head
    BY DEF CutDisk, SetDisk
  <1>6. TypeInv'
    <2>1. ProductTypeOK' /\ LoopInPlan'
      BY <1>1, <1>2
      DEF LifecycleInv, TypeInv, TypeOK, ProductTypeOK, LoopInPlan
    <2>2. LadderTypeOK' /\ WallTypeOK'
      BY <1>1, LadderFrame, WallFrame DEF LifecycleInv, TypeInv, TypeOK
    <2>3. TestTypeOK'
      BY <1>1, <1>4 DEF LifecycleInv, TypeInv, TypeOK, TestTypeOK
    <2>4. ShipTypeOK'
      BY <1>1, <1>4 DEF LifecycleInv, TypeInv, TypeOK, ShipTypeOK
    <2>5. QED
      BY <2>1, <2>2, <2>3, <2>4 DEF TypeInv, TypeOK
  <1>7. Met' = Met /\ Target' = Target /\ Planned' = Planned
    BY <1>2, MetFrame DEF Target, Planned
  <1>8. VettedInv'
    BY <1>1, <1>5, <1>7
    DEF LifecycleInv, VettedInv, ShippedIsVetted, Shipping
  <1>9. /\ FinalStatus \in Status
        /\ FinalStatus = "done" => suite_ok /\ CoreMet
    BY FinalStatusFacts DEF LifecycleInv, TypeInv, TypeOK, ProductTypeOK
  <1>10. LifecycleTypeOK'
    <2>1. artifact' \in Status \cup {"none", "stopped"}
      BY <1>9 DEF LifecycleInv, LifecycleTypeOK, Status
    <2>2. QED
      BY <1>1, <1>4, <1>6, <1>7, <2>1
      DEF LifecycleInv, LifecycleTypeOK, TypeInv
  <1>11. PlaceInv'
    BY <1>1, <1>2, <1>5 DEF LifecycleInv, PlaceInv
  <1>12. PresentInv'
    BY <1>1, <1>5, <1>7 DEF LifecycleInv, PresentInv, Alive, Running
  <1>13. TreeInv'
    BY <1>1, <1>2, <1>5 DEF LifecycleInv, TreeInv, Alive, Running
  <1>14. CleanInv'
    BY <1>1, <1>5 DEF LifecycleInv, CleanInv
  <1>15. CoreMet' = CoreMet
    BY <1>2 DEF CoreMet
  <1>16. SaidInv'
    BY <1>1, <1>9, <1>15 DEF LifecycleInv, SaidInv
  <1>17. QED
    BY <1>6, <1>8, <1>10, <1>11, <1>12, <1>13, <1>14, <1>16 DEF LifecycleInv

LEMMA CrashInductive ==
  ASSUME LifecycleInv, Crash
  PROVE  LifecycleInv'
  <1>1. PICK d \in Cuts : SetDisk(d)
    BY DEF Crash
  <1>2. CutDisk(d)
    BY <1>1, CutsFacts
  <1>3. /\ run' = "down" /\ KeepCheckpoint
        /\ artifact' \in {artifact, "failed", FinalStatus}
    BY DEF Crash
  <1>4. QED
    BY <1>1, <1>2, <1>3, CutInductive

LEMMA SalvageInductive ==
  ASSUME LifecycleInv, Salvage
  PROVE  LifecycleInv'
  <1>1. PICK d \in Cuts \cup {Disk} : SetDisk(Reset(d))
    BY DEF Salvage
  <1>2. CutDisk(Reset(d))
    BY <1>1, CutsFacts, DiskIsCutDisk, ResetIsCutDisk DEF LifecycleInv
  <1>3. /\ run' = "down" /\ KeepCheckpoint
        /\ artifact' \in {artifact, "failed", FinalStatus}
    BY DEF Salvage
  <1>4. QED
    BY <1>1, <1>2, <1>3, CutInductive

\* What reads neither the processes nor the artifact.
LEMMA GraphFrame ==
  ASSUME LifecycleInv, UNCHANGED vars
  PROVE  /\ TypeInv' /\ VettedInv'
         /\ UNCHANGED <<node, spec, plan, crit, respec_count, replan_count,
                        staged, passes, published, suite_ok>>
         /\ Met' = Met /\ Planned' = Planned /\ CoreMet' = CoreMet
  <1>1. UNCHANGED <<node, spec, plan, crit, respec_count, replan_count,
                    staged, passes, published, suite_ok>>
    BY DEF vars, productVars, ladderVars, capVars, testVars, shipVars
  <1>2. TypeInv'
    BY NextTypeInv DEF LifecycleInv
  <1>3. UNCHANGED <<vetted, green_test_files, iteration>>
    BY DEF vars, testVars, shipVars, ladderVars
  <1>4. Met' = Met /\ Planned' = Planned /\ CoreMet' = CoreMet
        /\ Target' = Target
    BY <1>1, <1>3, MetFrame DEF Planned, CoreMet, Target
  <1>5. VettedInv'
    BY <1>1, <1>3, <1>4
    DEF LifecycleInv, VettedInv, ShippedIsVetted, Shipping
  <1>6. QED
    BY <1>1, <1>2, <1>4, <1>5

LEMMA StopInductive ==
  ASSUME LifecycleInv, RequestStop \/ StopAtNode \/ EnterGraph
                         \/ NothingToResume \/ UNCHANGED allVars
  PROVE  LifecycleInv'
  <1>1. /\ UNCHANGED <<vars, mode, services_up, head, dirty, on_head, parked>>
        /\ run' \in {run, "down"} /\ artifact' \in {artifact, "stopped"}
        /\ sentinel' \in BOOLEAN /\ saved' \in BOOLEAN
    BY DEF RequestStop, StopAtNode, EnterGraph, NothingToResume, allVars,
           runVars, treeVars, LifecycleInv, LifecycleTypeOK
  <1>2. /\ TypeInv' /\ VettedInv'
        /\ UNCHANGED <<node, spec, plan, crit, respec_count, replan_count,
                       staged, passes, published, suite_ok>>
        /\ Met' = Met /\ Planned' = Planned /\ CoreMet' = CoreMet
    BY <1>1, GraphFrame
  <1>3. LifecycleTypeOK'
    BY <1>1, <1>2 DEF LifecycleInv, LifecycleTypeOK, TypeInv
  <1>4. PlaceInv' /\ PresentInv' /\ TreeInv'
    BY <1>1, <1>2
    DEF LifecycleInv, PlaceInv, PresentInv, TreeInv, Alive, Running
  <1>5. CleanInv' /\ SaidInv'
    BY <1>1, <1>2 DEF LifecycleInv, CleanInv, SaidInv
  <1>6. QED
    BY <1>2, <1>3, <1>4, <1>5 DEF LifecycleInv

LEMMA ResumeInductive ==
  ASSUME LifecycleInv, Resume
  PROVE  LifecycleInv'
  <1>1. /\ UNCHANGED <<vars, mode, saved, artifact, head, dirty, on_head,
                       parked>>
        /\ mode = "build" /\ run' = "resume"
        /\ sentinel' = FALSE /\ services_up' = FALSE
    BY DEF Resume, treeVars
  <1>2. /\ TypeInv' /\ VettedInv'
        /\ UNCHANGED <<node, spec, plan, crit, respec_count, replan_count,
                       staged, passes, published, suite_ok>>
        /\ Met' = Met /\ Planned' = Planned /\ CoreMet' = CoreMet
    BY <1>1, GraphFrame
  <1>3. LifecycleTypeOK'
    BY <1>1, <1>2 DEF LifecycleInv, LifecycleTypeOK, TypeInv
  <1>4. PlaceInv' /\ PresentInv' /\ TreeInv'
    BY <1>1, <1>2
    DEF LifecycleInv, PlaceInv, PresentInv, TreeInv, Alive, Running
  <1>5. CleanInv' /\ SaidInv'
    BY <1>1, <1>2 DEF LifecycleInv, CleanInv, SaidInv
  <1>6. QED
    BY <1>2, <1>3, <1>4, <1>5 DEF LifecycleInv

\* A refine starts on the clean tree of a build that shipped, with the tests of
\* what was met in its suite.
LEMMA RefineInductive ==
  ASSUME LifecycleInv, Refine
  PROVE  LifecycleInv'
  <1>1. /\ mode = "build" /\ node = "end" /\ spec # NoSpec
        /\ plan' \in Plans /\ {plan'[i] : i \in DOMAIN plan'} = Backlog
        /\ crit' = [c \in Criterion |->
                      IF c \in Backlog THEN "pending" ELSE crit[c]]
        /\ node' = "iterate" /\ iteration' = 1 /\ fix_count' = 0
        /\ respec_count' = RespecCap /\ replan_count' = ReplanCap
        /\ descope_report' = {}
        /\ staged' = staged \ Backlog /\ parked' = Backlog \cap staged
        /\ passes' = passes \cap staged' /\ on_head' = on_head \cap staged'
        /\ run' = "refine" /\ mode' = "refine"
        /\ sentinel' = FALSE /\ services_up' = FALSE
    BY DEF Refine, IsBacklogPlan, Kept
  <1>2. UNCHANGED <<status, spec, degraded_critic, reauthor_count,
                    reauthor_pending, replan_mode, lastVars, researchVars,
                    wallVars, commit_sha, green_test_files, adequacy_credits,
                    suite_ok, published, vetted, probed, rechecked, saved,
                    artifact, head, dirty>>
    BY DEF Refine
  <1>3. TypeInv
    BY DEF LifecycleInv
  <1>4. ~dirty /\ passes = on_head
    BY <1>1 DEF LifecycleInv, TreeInv, LifecycleTypeOK
  <1>5. passes \subseteq staged /\ staged \subseteq Criterion
    BY <1>3 DEF TypeInv, TypeOK, TestTypeOK
  <1>6. TypeInv'
    <2>1. ProductTypeOK'
      BY <1>1, <1>2, <1>3
      DEF TypeInv, TypeOK, ProductTypeOK, Node, CritStatus
    <2>2. 1 \in 1 .. Len(plan') /\ 1 \in 1 .. MaxIterations
      BY <1>1, PlanFacts, CapsAssumption
    <2>3. LoopInPlan'
      BY <1>1, <1>2, <1>3, <2>2
      DEF LoopInPlan, TypeInv, TypeOK, ProductTypeOK
    <2>4. 0 \in 0 .. K /\ K' = K
      BY <1>2, KFacts DEF K
    <2>5. RespecCap \in 0 .. RespecCap /\ ReplanCap \in 0 .. ReplanCap
      BY CapsAssumption
    <2>6. LadderTypeOK'
      BY <1>1, <1>2, <1>3, <2>2, <2>4, <2>5
      DEF TypeInv, TypeOK, LadderTypeOK, lastVars, researchVars
    <2>7. WallTypeOK'
      BY <1>2, <1>3, WallFrame DEF TypeInv, TypeOK
    <2>8. TestTypeOK'
      BY <1>1, <1>2, <1>3 DEF TypeInv, TypeOK, TestTypeOK
    <2>9. ShipTypeOK'
      BY <1>1, <1>2, <1>3 DEF TypeInv, TypeOK, ShipTypeOK
    <2>10. QED
      BY <2>1, <2>3, <2>6, <2>7, <2>8, <2>9 DEF TypeInv, TypeOK
  <1>7. Met' = Met /\ Met \cap Backlog = {}
    BY <1>1 DEF Met, Backlog
  <1>8. VettedInv'
    BY <1>1, <1>2, <1>7
    DEF LifecycleInv, VettedInv, ShippedIsVetted, Shipping
  <1>9. LifecycleTypeOK'
    <2>1. Planned' = Backlog
      BY <1>1 DEF Planned
    <2>2. /\ TypeOK' /\ on_head' \in SUBSET staged' /\ passes' = on_head'
          /\ parked' \in SUBSET Criterion /\ parked' \subseteq Planned'
      BY <1>1, <1>4, <1>5, <1>6, <2>1 DEF TypeInv
    <2>3. QED
      BY <1>1, <1>2, <2>2 DEF LifecycleInv, LifecycleTypeOK
  <1>10. PlaceInv'
    BY <1>1 DEF PlaceInv, RefineNode
  <1>11. PresentInv'
    BY <1>1, <1>2, <1>7 DEF LifecycleInv, PresentInv, Alive
  <1>12. TreeInv'
    BY <1>1, <1>2, <1>4 DEF TreeInv
  <1>13. CleanInv' /\ SaidInv'
    BY <1>1 DEF CleanInv, SaidInv
  <1>14. QED
    BY <1>6, <1>8, <1>9, <1>10, <1>11, <1>12, <1>13 DEF LifecycleInv

-----------------------------------------------------------------------------
(* What the invariant gives                                                 *)

LEMMA InitLifecycleInv == LifecycleInit => LifecycleInv
  <1> SUFFICES ASSUME LifecycleInit PROVE LifecycleInv
    OBVIOUS
  <1>1. Init /\ TypeInv
    BY InitTypeInv DEF LifecycleInit
  <1>2. Met = {} /\ node = "ingest" /\ staged = {} /\ passes = {}
        /\ suite_ok = FALSE
    BY <1>1 DEF Init, Met, AllPending
  <1>3. LifecycleTypeOK
    BY <1>1, <1>2 DEF LifecycleInit, LifecycleTypeOK, TypeInv
  <1>4. PlaceInv /\ VettedInv /\ PresentInv
    BY <1>2
    DEF LifecycleInit, PlaceInv, VettedInv, ShippedIsVetted, Shipping,
        PresentInv
  <1>5. TreeInv /\ CleanInv /\ SaidInv
    BY <1>2 DEF LifecycleInit, TreeInv, CleanInv, SaidInv
  <1>6. QED
    BY <1>1, <1>3, <1>4, <1>5 DEF LifecycleInv

LEMMA LifecycleInductive ==
  LifecycleInv /\ [LifecycleNext]_allVars => LifecycleInv'
  BY QuietInductive, PlanInductive, ScaffoldInductive, IterateInductive,
     DocsInductive, EmitInductive, CrashInductive, SalvageInductive,
     StopInductive, ResumeInductive, RefineInductive
  DEF LifecycleNext, Node_

LEMMA LifecycleInvariance == LifecycleSpec => []LifecycleInv
  BY InitLifecycleInv, LifecycleInductive, PTL DEF LifecycleSpec

\* Every variable stays in its domain through stops, crashes, caps and new
\* processes; a clean tree is HEAD, and a refine's parked tests are its plan's.
THEOREM LifecycleTypeCorrect == LifecycleSpec => []LifecycleTypeOK
  <1>1. LifecycleInv => LifecycleTypeOK
    BY DEF LifecycleInv
  <1>2. QED
    BY <1>1, LifecycleInvariance, PTL

\* Whatever interrupts a build, what it ships as met is met by a published
\* test whose text the critic let through; a refine keeps to that as well.
THEOREM InterruptedShipsVetted == LifecycleSpec => []ShippedIsVetted
  <1>1. LifecycleInv => ShippedIsVetted
    BY DEF LifecycleInv, VettedInv
  <1>2. QED
    BY <1>1, LifecycleInvariance, PTL

\* An artifact that says `done' is about the commit it ships, however often
\* the build was stopped, cut, capped and resumed on the way there.
THEOREM DoneIsAlwaysAboutHead == LifecycleSpec => []DoneIsAboutHead
  <1>1. LifecycleInv => DoneIsAboutHead
    <2> SUFFICES ASSUME LifecycleInv, mode = "build", artifact = "done"
                 PROVE  /\ CoreMet /\ spec.core \in published
                        /\ published \subseteq on_head /\ ~dirty
                        /\ head = "code"
      BY DEF DoneIsAboutHead
    <2>1. suite_ok /\ CoreMet
      BY DEF LifecycleInv, SaidInv
    <2>2. /\ node \in {"emit", "end"}
          /\ published \subseteq passes /\ ~dirty /\ head = "code"
      BY <2>1 DEF LifecycleInv, CleanInv
    <2>3. passes = on_head
      BY <2>2 DEF LifecycleInv, LifecycleTypeOK
    <2>4. spec.core \in Criterion
      BY <2>1, SpecsAssumption
      DEF CoreMet, LifecycleInv, TypeInv, TypeOK, ProductTypeOK, IsSpec
    <2>5. spec.core \in Met
      BY <2>1, <2>4 DEF CoreMet, Met
    <2>6. spec.core \in published
      BY <2>2, <2>5 DEF LifecycleInv, VettedInv, ShippedIsVetted, Shipping
    <2>7. QED
      BY <2>1, <2>2, <2>3, <2>6
  <1>2. QED
    BY <1>1, LifecycleInvariance, PTL

-----------------------------------------------------------------------------
(* A refine breaks nothing                                                  *)

\* A step of a refine takes no test from HEAD but that of its target.
LEMMA RefineStep ==
  ASSUME LifecycleInv, LifecycleNext, mode = "refine"
  PROVE  \/ on_head \subseteq on_head'
         \/ node = "iterate" /\ on_head \ {Target} \subseteq on_head'
  <1>1. Running => ~dirty
    BY DEF LifecycleInv, TreeInv
  <1>2. CASE \/ QuietNode \/ RequestStop \/ StopAtNode \/ EnterGraph
             \/ NothingToResume
    BY <1>2
    DEF QuietNode, RequestStop, StopAtNode, EnterGraph, NothingToResume,
        treeVars
  <1>3. CASE EmitNode
    BY <1>3 DEF EmitNode, treeVars
  <1>4. CASE PlanNode \/ ScaffoldNode
    <2>1. node \in {"plan", "scaffold"}
      BY <1>4
      DEF PlanNode, MakePlan, ScaffoldNode, ScaffoldPreserve, ScaffoldStamp
    <2>2. QED
      BY <2>1 DEF LifecycleInv, PlaceInv, RefineNode
  <1>5. CASE IterateNode
    <2>1. PICK it_status \in IterStatus, e \in GoodDisk :
            SetDisk(e) /\ IterateDisk(e, it_status)
      BY <1>5, IterateFacts
    <2>2. QED
      BY <1>5, <2>1 DEF IterateNode, SetDisk, IterateDisk
  <1>6. CASE DocsNode
    <2>1. on_head' = passes /\ passes = on_head
      BY <1>1, <1>6 DEF DocsNode, Enter, LifecycleInv, LifecycleTypeOK
    <2>2. QED
      BY <2>1
  <1>7. ASSUME NEW d, CutDisk(d), SetDisk(d), Running
        PROVE  on_head \ {Target} \subseteq on_head'
    BY <1>1, <1>7 DEF CutDisk, SetDisk
  <1>8. ASSUME node # "iterate", NEW d \in Cuts, Running
        PROVE  on_head \subseteq d.on_head
    <2>1. node \in RefineNode
      BY DEF LifecycleInv, PlaceInv
    <2>2. CASE node = "docs"
      <3>1. d \in DocsCuts
        BY <2>2 DEF Cuts
      <3>2. QED
        BY <1>1, <1>8, <2>2, <3>1, DocsCutsFacts
    <2>3. CASE node # "docs"
      <3>1. d = Disk
        BY <1>8, <2>1, <2>3 DEF Cuts, RefineNode
      <3>2. QED
        BY <3>1, DiskFields
    <2>4. QED
      BY <2>2, <2>3
  <1>9. CASE Crash
    <2>1. PICK d \in Cuts : SetDisk(d)
      BY <1>9 DEF Crash
    <2>2. Running
      BY <1>9 DEF Crash
    <2>3. CASE node = "iterate"
      BY <1>7, <2>1, <2>2, <2>3, CutsFacts
    <2>4. CASE node # "iterate"
      BY <1>8, <2>1, <2>2, <2>4 DEF SetDisk
    <2>5. QED
      BY <2>3, <2>4
  <1>10. CASE Salvage
    <2>1. PICK d \in Cuts \cup {Disk} : SetDisk(Reset(d))
      BY <1>10 DEF Salvage
    <2>2. Running
      BY <1>10 DEF Salvage, Enter
    <2>3. CutDisk(d)
      BY <2>1, CutsFacts, DiskIsCutDisk DEF LifecycleInv
    <2>4. CASE node = "iterate"
      BY <1>7, <2>1, <2>2, <2>3, <2>4, ResetIsCutDisk
    <2>5. CASE node # "iterate"
      <3>1. on_head \subseteq d.on_head
        BY <1>8, <2>1, <2>2, <2>5, DiskFields
      <3>2. on_head' = d.on_head
        BY <2>1, <2>3, ResetFacts DEF SetDisk, CutDisk
      <3>3. QED
        BY <3>1, <3>2
    <2>6. QED
      BY <2>4, <2>5
  <1>11. CASE Resume \/ Refine
    BY <1>11 DEF Resume, Refine
  <1>12. QED
    BY <1>2, <1>3, <1>4, <1>5, <1>6, <1>9, <1>10, <1>11
    DEF LifecycleNext, Node_

\* What the build had met and what its commit passed, a refine leaves passing:
\* the only test it may take from HEAD is one of its own plan.
THEOREM RefineNeverBreaks == LifecycleSpec => RefineBreaksNothing
  <1>1. ASSUME LifecycleInv, [LifecycleNext]_allVars
        PROVE  [mode = "refine" =>
                  \A c \in (Met \ Planned) \cap on_head : c \in on_head']_allVars
    <2> SUFFICES ASSUME LifecycleNext, mode = "refine",
                        NEW c \in (Met \ Planned) \cap on_head
                 PROVE  c \in on_head'
      BY <1>1
    <2>1. \/ on_head \subseteq on_head'
          \/ node = "iterate" /\ on_head \ {Target} \subseteq on_head'
      BY <1>1, RefineStep
    <2>2. node = "iterate" => Target \in Planned
      BY <1>1, TargetFacts, PlanFacts DEF LifecycleInv, Target, Planned
    <2>3. QED
      BY <2>1, <2>2
  <1>2. QED
    BY <1>1, LifecycleInvariance, PTL DEF LifecycleSpec, RefineBreaksNothing

-----------------------------------------------------------------------------
(* An undisturbed build is a build of the graph                             *)

\* On a clean tree P4's test answers on HEAD as it does on the tree, so the
\* rollback of its edits is the probe's answer alone.
LEMMA CleanAnswers ==
  ASSUME LifecycleInv, node = "iterate", ~dirty, mode = "build",
         NEW d \in TestStaged
  PROVE  /\ d \in GoodDisk /\ d.published = published
         /\ d.staged = staged \cup {Target} /\ FreshHere = Fresh
         /\ d.passes = d.on_head
         /\ Target \in d.passes =>
              Probe(TRUE) /\ d.passes = PassesAfterProbe(TRUE)
         /\ Target \notin d.passes =>
              Probe(FALSE) /\ d.passes = PassesAfterProbe(FALSE)
  <1>1. StagedIn = staged
    BY DEF StagedIn
  <1>2. /\ d \in GoodDisk /\ d.published = published
        /\ d.staged = StagedIn \cup {Target}
        /\ d.passes \ {Target} = passes \ {Target}
        /\ Target \in staged /\ ~reauthor_pending => d.passes = passes
        /\ d.dirty = dirty
    BY TestStagedFacts
  <1>3. d.passes = d.on_head
    BY <1>2 DEF GoodDisk
  <1>4. FreshHere = Fresh
    BY <1>1 DEF FreshHere, Fresh
  <1>5. Target \in d.passes =>
          Probe(TRUE) /\ d.passes = PassesAfterProbe(TRUE)
    BY <1>2 DEF Probe, Authors, Fresh, PassesAfterProbe
  <1>6. Target \notin d.passes =>
          Probe(FALSE) /\ d.passes = PassesAfterProbe(FALSE)
    BY <1>2 DEF Probe, Authors, Fresh, PassesAfterProbe
  <1>7. QED
    BY <1>1, <1>2, <1>3, <1>4, <1>5, <1>6

LEMMA IterateIsGraphStep ==
  ASSUME LifecycleInv, IterateNode, ~dirty, mode = "build"
  PROVE  Iterate
  <1>1. node = "iterate"
    BY DEF IterateNode
  <1>2. ASSUME NEW d \in TestStaged
        PROVE  /\ d \in GoodDisk
               /\ d.staged = staged \cup {Target} /\ FreshHere = Fresh
               /\ d.passes = d.on_head
               /\ Target \in d.passes =>
                    Probe(TRUE) /\ d.passes = PassesAfterProbe(TRUE)
               /\ Target \notin d.passes =>
                    Probe(FALSE) /\ d.passes = PassesAfterProbe(FALSE)
    BY <1>1, CleanAnswers
  <1>3. ASSUME NEW d \in TestStaged, Target \in d.passes,
               StrictRedFirst /\ mode = "build",
               RecordState("red-first-failed", TRUE, FreshHere),
               SetDisk(Reset(d)),
               RaiseIncidents(1) /\ red_first_ok' = FALSE,
               last_coder_stuck' = FALSE,
               UNCHANGED <<inventory_ok, commit_sha>>
        PROVE  IterateRedFirstFailed
    <2>1. staged' = staged \cup {Target} /\ passes' = PassesAfterProbe(TRUE)
      BY <1>2, <1>3, ResetFacts DEF SetDisk
    <2>2. Probe(TRUE) /\ FreshHere = Fresh
      BY <1>2, <1>3
    <2>3. QED
      BY <1>1, <1>3, <2>1, <2>2 DEF IterateRedFirstFailed, Record
  <1>4. ASSUME NEW d \in TestStaged, Target \in d.passes,
               ~(StrictRedFirst /\ mode = "build"),
               RecordState("met-existing", TRUE, FreshHere),
               SetDisk(d),
               last_coder_stuck' = FALSE,
               UNCHANGED <<wallVars, commit_sha>>
        PROVE  IterateMetExisting
    <2>1. staged' = staged \cup {Target} /\ passes' = PassesAfterProbe(TRUE)
      BY <1>2, <1>4 DEF SetDisk
    <2>2. Probe(TRUE) /\ FreshHere = Fresh
      BY <1>2, <1>4
    <2>3. QED
      BY <1>1, <1>4, <2>1, <2>2 DEF IterateMetExisting, Record
  <1>5. ASSUME NEW d \in TestStaged, Target \notin d.passes,
               RecordState("green", FALSE, FreshHere),
               SetDisk(Committed(d)),
               commit_sha' = "code" /\ last_coder_stuck' = FALSE,
               UNCHANGED wallVars
        PROVE  IterateGreen
    <2>1. staged' = staged \cup {Target} /\ passes' = GreenSuite
      BY <1>2, <1>5, CommittedFacts DEF SetDisk, GreenSuite
    <2>2. Probe(FALSE) /\ FreshHere = Fresh
      BY <1>2, <1>5
    <2>3. QED
      BY <1>1, <1>5, <2>1, <2>2 DEF IterateGreen, Record
  <1>6. ASSUME NEW d \in TestStaged, Target \notin d.passes,
               SetDisk(ParkedOut(Reset(d)))
        PROVE  /\ staged' = staged \cup {Target}
               /\ passes' = PassesAfterProbe(FALSE)
               /\ Probe(FALSE) /\ FreshHere = Fresh
    <2>1. ParkedOut(Reset(d)) = Reset(d)
      BY <1>2, ResetFacts, ParkedOutFacts
    <2>2. staged' = staged \cup {Target} /\ passes' = PassesAfterProbe(FALSE)
      BY <1>2, <1>6, <2>1, ResetFacts DEF SetDisk
    <2>3. Probe(FALSE) /\ FreshHere = Fresh
      BY <1>2, <1>6
    <2>4. QED
      BY <2>2, <2>3
  <1>7. ASSUME NEW d \in TestStaged, Target \notin d.passes,
               RecordState("incident", FALSE, FreshHere),
               SetDisk(ParkedOut(Reset(d))),
               last_coder_stuck' = FALSE,
               \/ RaiseIncidents(1) /\ inventory_ok' = FALSE
               \/ /\ \E n \in 1 .. 2 : RaiseIncidents(n)
                  /\ UNCHANGED inventory_ok,
               UNCHANGED <<red_first_ok, commit_sha>>
        PROVE  IterateLedgerGap \/ IterateIncident
    BY <1>1, <1>6, <1>7 DEF IterateLedgerGap, IterateIncident, Record
  <1>8. ASSUME NEW d \in TestStaged, Target \notin d.passes,
               RecordState("abandoned", FALSE, FreshHere),
               SetDisk(ParkedOut(Reset(d))),
               last_coder_stuck' \in BOOLEAN,
               UNCHANGED <<wallVars, commit_sha>>
        PROVE  IterateAbandoned
    BY <1>1, <1>6, <1>8 DEF IterateAbandoned, Record
  <1>9. QED
    BY <1>3, <1>4, <1>5, <1>7, <1>8 DEF IterateNode, Iterate

\* The refinement: as long as no crash has left edits behind, a build that is
\* stopped, cut, capped and resumed takes the steps of BuildPipeline's graph on
\* the same disk, and every other step leaves the checkpoint as it was.
THEOREM StepsAreAlwaysGraphSteps == LifecycleSpec => StepsAreGraphSteps
  <1>1. ASSUME LifecycleInv, [LifecycleNext]_allVars
        PROVE  [~dirty /\ mode = "build" /\ mode' = "build" =>
                  [Next]_vars \/ UNCHANGED checkpointVars]_allVars
    <2> SUFFICES ASSUME LifecycleNext, ~dirty, mode = "build",
                        mode' = "build"
                 PROVE  [Next]_vars \/ UNCHANGED checkpointVars
      BY <1>1
    <2>1. CASE QuietNode \/ PlanNode \/ ScaffoldNode \/ DocsNode \/ EmitNode
      BY <2>1
      DEF QuietNode, PlanNode, ScaffoldNode, DocsNode, EmitNode, Next
    <2>2. CASE IterateNode
      BY <1>1, <2>2, IterateIsGraphStep DEF Next
    <2>3. CASE Crash \/ Salvage
      BY <2>3 DEF Crash, Salvage, KeepCheckpoint
    <2>4. CASE \/ RequestStop \/ StopAtNode \/ EnterGraph \/ NothingToResume
               \/ Resume
      BY <2>4
      DEF RequestStop, StopAtNode, EnterGraph, NothingToResume, Resume
    <2>5. CASE Refine
      BY <2>5 DEF Refine
    <2>6. QED
      BY <2>1, <2>2, <2>3, <2>4, <2>5 DEF LifecycleNext, Node_
  <1>2. QED
    BY <1>1, LifecycleInvariance, PTL DEF LifecycleSpec, StepsAreGraphSteps
=============================================================================

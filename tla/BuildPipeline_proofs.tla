------------------------ MODULE BuildPipeline_proofs ------------------------
(***************************************************************************)
(* Proofs about BuildPipeline for every set of criteria and specifications *)
(* and every value of the caps.                                            *)
(***************************************************************************)
EXTENDS BuildPipeline, TLAPS

\* Where the graph is, relative to the plan: the loop works on an iteration
\* of the plan, and once P1 has run there is a specification.
LoopInPlan ==
  /\ node \in {"scaffold", "iterate", "critic", "docs"} =>
       plan \in Plans /\ iteration \in 1 .. Len(plan)
  /\ node \in {"plan", "scaffold", "iterate", "critic", "docs"} =>
       spec \in Specs

\* The inductive form of TypeOK.
TypeInv == TypeOK /\ LoopInPlan

-----------------------------------------------------------------------------
(* Facts about the plan, the fix limit and the target                      *)

LEMMA PlanFacts ==
  ASSUME NEW p \in Plans
  PROVE  /\ p \in Seq(Criterion)
         /\ Len(p) \in 1 .. MaxIterations
         /\ DOMAIN p = 1 .. Len(p)
         /\ \A i \in 1 .. Len(p) : p[i] \in Criterion
  BY CapsAssumption DEF Plans

LEMMA KFacts == K \in Nat
  BY CapsAssumption DEF K

LEMMA TargetFacts ==
  ASSUME TypeInv, node \in {"iterate", "critic"}
  PROVE  /\ Target \in Criterion
         /\ plan \in Plans /\ iteration \in 1 .. Len(plan)
         /\ iteration \in 1 .. MaxIterations
  BY PlanFacts, CapsAssumption DEF TypeInv, LoopInPlan, Target

LEMMA AtLeast2Facts ==
  ASSUME NEW n \in Nat
  PROVE  AtLeast2(n) \in 0 .. 2
  BY DEF AtLeast2

-----------------------------------------------------------------------------
(* Type correctness                                                         *)

\* A part of the type invariant survives a step that leaves its variables.
LEMMA LadderFrame ==
  ASSUME LadderTypeOK,
         UNCHANGED <<degraded_critic, ladderVars, lastVars, researchVars>>
  PROVE  LadderTypeOK'
  BY DEF LadderTypeOK, K, ladderVars, capVars, lastVars, researchVars

LEMMA WallFrame ==
  ASSUME WallTypeOK, UNCHANGED wallVars
  PROVE  WallTypeOK'
  BY DEF WallTypeOK, wallVars

LEMMA TestFrame ==
  ASSUME TestTypeOK, UNCHANGED <<commit_sha, testVars>>
  PROVE  TestTypeOK'
  BY DEF TestTypeOK, testVars

LEMMA ShipFrame ==
  ASSUME ShipTypeOK, UNCHANGED shipVars
  PROVE  ShipTypeOK'
  BY DEF ShipTypeOK, shipVars

LEMMA InitTypeInv == Init => TypeInv
  <1> SUFFICES ASSUME Init PROVE TypeInv
    OBVIOUS
  <1>1. ProductTypeOK
    BY DEF Init, ProductTypeOK, Node, Status, CritStatus, AllPending
  <1>2. LadderTypeOK
    <2>1. 1 \in 1 .. MaxIterations /\ 0 \in 0 .. MaxIterations
      BY CapsAssumption
    <2>2. 0 \in 0 .. K
      BY KFacts
    <2>3. 0 \in 0 .. ReauthorCap /\ 0 \in 0 .. RespecCap /\ 0 \in 0 .. ReplanCap
      BY CapsAssumption
    <2>4. QED
      BY <2>1, <2>2, <2>3 DEF Init, LadderTypeOK, IterStatus
  <1>3. WallTypeOK
    BY DEF Init, WallTypeOK
  <1>4. TestTypeOK
    BY DEF Init, TestTypeOK
  <1>5. ShipTypeOK
    BY DEF Init, ShipTypeOK
  <1>6. LoopInPlan
    BY DEF Init, LoopInPlan
  <1>7. QED
    BY <1>1, <1>2, <1>3, <1>4, <1>5, <1>6 DEF TypeInv, TypeOK

\* What an iteration records keeps every part it touches well-typed.
LEMMA RecordStateTypes ==
  ASSUME TypeInv, node = "iterate",
         NEW it_status \in IterStatus, NEW isGreen \in BOOLEAN,
         NEW fresh \in BOOLEAN, RecordState(it_status, isGreen, fresh),
         last_coder_stuck' \in BOOLEAN
  PROVE  /\ ProductTypeOK' /\ LadderTypeOK' /\ ShipTypeOK' /\ LoopInPlan'
         /\ vetted' \in SUBSET Criterion
         /\ probed' \in [Criterion ->
                           {"no", "red", "green-on-code", "green-on-stub"}]
  <1> USE DEF TypeInv, TypeOK
  <1>1. Target \in Criterion /\ iteration \in 1 .. MaxIterations
    BY TargetFacts
  <1>2. ProductTypeOK'
    BY <1>1 DEF RecordState, ProductTypeOK, Node, CritStatus
  <1>3. LadderTypeOK'
    <2>1. K' = K
      BY DEF RecordState, K
    <2>2. last_research_iteration' \in 0 .. MaxIterations
      <3>1. last_research_iteration' \in {iteration, last_research_iteration}
        BY DEF RecordState
      <3>2. iteration \in 0 .. MaxIterations
        BY <1>1, CapsAssumption
      <3>3. QED
        BY <3>1, <3>2 DEF LadderTypeOK
    <2>3. UNCHANGED <<iteration, fix_count, reauthor_count, respec_count,
                      replan_count, replan_mode>>
      BY DEF RecordState, capVars
    <2>4. reauthor_pending' = FALSE /\ research_pending' = FALSE
          /\ last_status' = it_status
      BY DEF RecordState
    <2>5. QED
      BY <2>1, <2>2, <2>3, <2>4 DEF LadderTypeOK
  <1>4. ShipTypeOK'
    BY <1>1 DEF RecordState, ShipTypeOK
  <1>5. LoopInPlan'
    BY DEF RecordState, LoopInPlan
  <1>6. vetted' \in SUBSET Criterion
    BY <1>1 DEF RecordState, TestTypeOK
  <1>7. ProbeKind(isGreen) \in {"red", "green-on-code", "green-on-stub"}
    BY DEF ProbeKind
  <1>8. probed' \in [Criterion ->
                       {"no", "red", "green-on-code", "green-on-stub"}]
    BY <1>1, <1>7 DEF RecordState, TestTypeOK
  <1>9. QED
    BY <1>2, <1>3, <1>4, <1>5, <1>6, <1>8

LEMMA RecordTypes ==
  ASSUME TypeInv, node = "iterate",
         NEW it_status \in IterStatus, NEW isGreen \in BOOLEAN,
         Record(it_status, isGreen), last_coder_stuck' \in BOOLEAN
  PROVE  /\ ProductTypeOK' /\ LadderTypeOK' /\ ShipTypeOK' /\ LoopInPlan'
         /\ staged' = staged \cup {Target} /\ staged' \in SUBSET Criterion
         /\ vetted' \in SUBSET Criterion
         /\ probed' \in [Criterion ->
                           {"no", "red", "green-on-code", "green-on-stub"}]
  <1>1. RecordState(it_status, isGreen, Fresh) /\ Fresh \in BOOLEAN
        /\ staged' = staged \cup {Target}
    BY DEF Record, Fresh
  <1>2. staged' \in SUBSET Criterion
    BY <1>1, TargetFacts DEF TypeInv, TypeOK, TestTypeOK
  <1> HIDE DEF Fresh
  <1>3. QED
    BY <1>1, <1>2, RecordStateTypes

\* The tests that pass are staged ones, after every outcome.
LEMMA PassesTypes ==
  ASSUME TypeInv, NEW isGreen \in BOOLEAN
  PROVE  /\ PassesAfterProbe(isGreen) \in SUBSET (staged \cup {Target})
         /\ GreenSuite \in SUBSET (staged \cup {Target})
  BY DEF TypeInv, TypeOK, TestTypeOK, PassesAfterProbe, GreenSuite

LEMMA RaiseTypes ==
  ASSUME TypeInv, node = "iterate", NEW n \in 1 .. 2, RaiseIncidents(n)
  PROVE  highs' \in 0 .. 2 /\ high_incident_criteria' \in SUBSET Criterion
  <1>1. highs + n \in Nat
    BY DEF TypeInv, TypeOK, WallTypeOK
  <1>2. highs' \in 0 .. 2
    BY <1>1, AtLeast2Facts DEF RaiseIncidents
  <1>3. high_incident_criteria' \in SUBSET Criterion
    BY TargetFacts DEF RaiseIncidents, TypeInv, TypeOK, WallTypeOK
  <1>4. QED
    BY <1>2, <1>3

LEMMA IterateTypeInv == TypeInv /\ Iterate => TypeInv'
  <1> SUFFICES ASSUME TypeInv, Iterate PROVE TypeInv'
    OBVIOUS
  <1> USE DEF TypeInv, TypeOK
  <1>1. CASE IterateRedFirstFailed
    <2>1. Record("red-first-failed", TRUE) /\ node = "iterate"
          /\ last_coder_stuck' \in BOOLEAN
      BY <1>1 DEF IterateRedFirstFailed
    <2>2. /\ ProductTypeOK' /\ LadderTypeOK' /\ ShipTypeOK' /\ LoopInPlan'
          /\ staged' = staged \cup {Target} /\ staged' \in SUBSET Criterion
          /\ vetted' \in SUBSET Criterion
          /\ probed' \in [Criterion ->
                            {"no", "red", "green-on-code", "green-on-stub"}]
      BY <2>1, RecordTypes DEF IterStatus, MetStatus
    <2>3. TestTypeOK'
      BY <1>1, <2>2, PassesTypes DEF IterateRedFirstFailed, TestTypeOK
    <2>4. PICK n \in 1 .. 2 : RaiseIncidents(n)
      BY <1>1 DEF IterateRedFirstFailed
    <2>5. highs' \in 0 .. 2 /\ high_incident_criteria' \in SUBSET Criterion
      BY <2>1, <2>4, RaiseTypes
    <2>6. WallTypeOK'
      BY <1>1, <2>5 DEF IterateRedFirstFailed, WallTypeOK
    <2>7. QED
      BY <2>2, <2>3, <2>6
  <1>2. CASE IterateMetExisting
    <2>1. Record("met-existing", TRUE) /\ node = "iterate"
          /\ last_coder_stuck' \in BOOLEAN
      BY <1>2 DEF IterateMetExisting
    <2>2. /\ ProductTypeOK' /\ LadderTypeOK' /\ ShipTypeOK' /\ LoopInPlan'
          /\ staged' = staged \cup {Target} /\ staged' \in SUBSET Criterion
          /\ vetted' \in SUBSET Criterion
          /\ probed' \in [Criterion ->
                            {"no", "red", "green-on-code", "green-on-stub"}]
      BY <2>1, RecordTypes DEF IterStatus, MetStatus
    <2>3. TestTypeOK'
      BY <1>2, <2>2, PassesTypes DEF IterateMetExisting, TestTypeOK
    <2>4. WallTypeOK'
      BY <1>2, WallFrame DEF IterateMetExisting
    <2>5. QED
      BY <2>2, <2>3, <2>4
  <1>3. CASE IterateGreen
    <2>1. Record("green", FALSE) /\ node = "iterate"
          /\ last_coder_stuck' \in BOOLEAN
      BY <1>3 DEF IterateGreen
    <2>2. /\ ProductTypeOK' /\ LadderTypeOK' /\ ShipTypeOK' /\ LoopInPlan'
          /\ staged' = staged \cup {Target} /\ staged' \in SUBSET Criterion
          /\ vetted' \in SUBSET Criterion
          /\ probed' \in [Criterion ->
                            {"no", "red", "green-on-code", "green-on-stub"}]
      BY <2>1, RecordTypes DEF IterStatus, MetStatus
    <2>3. TestTypeOK'
      BY <1>3, <2>2, PassesTypes DEF IterateGreen, TestTypeOK
    <2>4. WallTypeOK'
      BY <1>3, WallFrame DEF IterateGreen
    <2>5. QED
      BY <2>2, <2>3, <2>4
  <1>4. CASE IterateLedgerGap
    <2>1. Record("incident", FALSE) /\ node = "iterate"
          /\ last_coder_stuck' \in BOOLEAN
      BY <1>4 DEF IterateLedgerGap
    <2>2. /\ ProductTypeOK' /\ LadderTypeOK' /\ ShipTypeOK' /\ LoopInPlan'
          /\ staged' = staged \cup {Target} /\ staged' \in SUBSET Criterion
          /\ vetted' \in SUBSET Criterion
          /\ probed' \in [Criterion ->
                            {"no", "red", "green-on-code", "green-on-stub"}]
      BY <2>1, RecordTypes DEF IterStatus, MetStatus
    <2>3. TestTypeOK'
      BY <1>4, <2>2, PassesTypes DEF IterateLedgerGap, TestTypeOK
    <2>4. PICK n \in 1 .. 2 : RaiseIncidents(n)
      BY <1>4 DEF IterateLedgerGap
    <2>5. highs' \in 0 .. 2 /\ high_incident_criteria' \in SUBSET Criterion
      BY <2>1, <2>4, RaiseTypes
    <2>6. WallTypeOK'
      BY <1>4, <2>5 DEF IterateLedgerGap, WallTypeOK
    <2>7. QED
      BY <2>2, <2>3, <2>6
  <1>5. CASE IterateIncident
    <2>1. Record("incident", FALSE) /\ node = "iterate"
          /\ last_coder_stuck' \in BOOLEAN
      BY <1>5 DEF IterateIncident
    <2>2. /\ ProductTypeOK' /\ LadderTypeOK' /\ ShipTypeOK' /\ LoopInPlan'
          /\ staged' = staged \cup {Target} /\ staged' \in SUBSET Criterion
          /\ vetted' \in SUBSET Criterion
          /\ probed' \in [Criterion ->
                            {"no", "red", "green-on-code", "green-on-stub"}]
      BY <2>1, RecordTypes DEF IterStatus, MetStatus
    <2>3. TestTypeOK'
      BY <1>5, <2>2, PassesTypes DEF IterateIncident, TestTypeOK
    <2>4. PICK n \in 1 .. 2 : RaiseIncidents(n)
      BY <1>5 DEF IterateIncident
    <2>5. highs' \in 0 .. 2 /\ high_incident_criteria' \in SUBSET Criterion
      BY <2>1, <2>4, RaiseTypes
    <2>6. WallTypeOK'
      BY <1>5, <2>5 DEF IterateIncident, WallTypeOK
    <2>7. QED
      BY <2>2, <2>3, <2>6
  <1>6. CASE IterateAbandoned
    <2>1. Record("abandoned", FALSE) /\ node = "iterate"
          /\ last_coder_stuck' \in BOOLEAN
      BY <1>6 DEF IterateAbandoned
    <2>2. /\ ProductTypeOK' /\ LadderTypeOK' /\ ShipTypeOK' /\ LoopInPlan'
          /\ staged' = staged \cup {Target} /\ staged' \in SUBSET Criterion
          /\ vetted' \in SUBSET Criterion
          /\ probed' \in [Criterion ->
                            {"no", "red", "green-on-code", "green-on-stub"}]
      BY <2>1, RecordTypes DEF IterStatus, MetStatus
    <2>3. TestTypeOK'
      BY <1>6, <2>2, PassesTypes DEF IterateAbandoned, TestTypeOK
    <2>4. WallTypeOK'
      BY <1>6, WallFrame DEF IterateAbandoned
    <2>5. QED
      BY <2>2, <2>3, <2>4
  <1>7. QED
    BY <1>1, <1>2, <1>3, <1>4, <1>5, <1>6 DEF Iterate

\* A verdict leaves the walls and the tests on disk as they are.
LEMMA CriticFrameTypes ==
  ASSUME TypeInv, CriticFrame, vetted' \in SUBSET Criterion
  PROVE  /\ WallTypeOK' /\ TestTypeOK' /\ K' = K
         /\ UNCHANGED <<status, spec, plan, degraded_critic>>
  BY WallFrame DEF CriticFrame, TypeInv, TypeOK, TestTypeOK, K

\* Advancing stays in the plan and starts the next iteration afresh.
LEMMA AdvanceTypes ==
  ASSUME TypeInv, node = "critic", Advance, UNCHANGED plan
  PROVE  /\ node' \in {"iterate", "docs"}
         /\ iteration' \in 1 .. Len(plan) /\ iteration' \in 1 .. MaxIterations
         /\ fix_count' \in 0 .. K /\ reauthor_count' \in 0 .. ReauthorCap
  <1>1. /\ Len(plan) \in 1 .. MaxIterations
        /\ iteration \in 1 .. Len(plan)
    BY TargetFacts, PlanFacts
  <1>2. CASE iteration < Len(plan)
    <2>1. /\ node' = "iterate" /\ iteration' = iteration + 1
          /\ fix_count' = 0 /\ reauthor_count' = 0
      BY <1>2 DEF Advance
    <2>2. iteration + 1 \in 1 .. Len(plan) /\ iteration + 1 \in 1 .. MaxIterations
      BY <1>1, <1>2, CapsAssumption
    <2>3. 0 \in 0 .. K /\ 0 \in 0 .. ReauthorCap
      BY KFacts, CapsAssumption
    <2>4. QED
      BY <2>1, <2>2, <2>3
  <1>3. CASE ~(iteration < Len(plan))
    BY <1>1, <1>3, TargetFacts DEF Advance, TypeInv, TypeOK, LadderTypeOK
  <1>4. QED
    BY <1>2, <1>3

LEMMA CriticTypeInv == TypeInv /\ Critic => TypeInv'
  <1> SUFFICES ASSUME TypeInv, Critic PROVE TypeInv'
    OBVIOUS
  <1> USE DEF TypeInv, TypeOK
  <1>t. Target \in Criterion /\ plan \in Plans /\ iteration \in 1 .. Len(plan)
        /\ iteration \in 1 .. MaxIterations /\ spec \in Specs
    BY TargetFacts DEF Critic, CriticAccept, CriticFix, CriticReauthor,
       CriticRespec, CriticReplan, CriticDescope, LoopInPlan
  <1>1. CASE CriticAccept
    <2>1. vetted' \in SUBSET Criterion /\ CriticFrame /\ Advance
          /\ node = "critic"
      BY <1>1, <1>t DEF CriticAccept, TestTypeOK
    <2>2. /\ WallTypeOK' /\ TestTypeOK' /\ K' = K
          /\ UNCHANGED <<status, spec, plan, degraded_critic>>
      BY <2>1, CriticFrameTypes
    <2>3. /\ node' \in {"iterate", "docs"}
          /\ iteration' \in 1 .. Len(plan) /\ iteration' \in 1 .. MaxIterations
          /\ fix_count' \in 0 .. K /\ reauthor_count' \in 0 .. ReauthorCap
      BY <2>1, <2>2, AdvanceTypes
    <2>4. ProductTypeOK' /\ LoopInPlan'
      BY <1>1, <1>t, <2>2, <2>3
      DEF CriticAccept, ProductTypeOK, Node, LoopInPlan
    <2>5. LadderTypeOK'
      BY <1>1, <2>1, <2>2, <2>3
      DEF CriticAccept, CriticFrame, capVars, lastVars, LadderTypeOK
    <2>6. adequacy_credits' \in
            [Criterion -> SUBSET (Criterion \cup {FileName})]
      <3>1. ASSUME NEW credited \in SUBSET Siblings(Target)
            PROVE  CreditedAs(credited) \in SUBSET (Criterion \cup {FileName})
        BY <1>t DEF CreditedAs, Siblings, TestTypeOK
      <3>2. QED
        BY <1>1, <1>t, <3>1 DEF CriticAccept, ShipTypeOK
    <2>7. ShipTypeOK'
      BY <1>1, <2>1, <2>6 DEF CriticAccept, CriticFrame, ShipTypeOK
    <2>8. QED
      BY <2>2, <2>4, <2>5, <2>7
  <1>2. CASE CriticFix
    <2>1. CriticFrame /\ UNCHANGED vetted
      BY <1>2 DEF CriticFix
    <2>2. /\ WallTypeOK' /\ TestTypeOK' /\ K' = K
          /\ UNCHANGED <<status, spec, plan, degraded_critic>>
      BY <2>1, CriticFrameTypes DEF TestTypeOK
    <2>3. ProductTypeOK' /\ LoopInPlan'
      BY <1>2, <1>t, <2>2 DEF CriticFix, ProductTypeOK, Node, LoopInPlan
    <2>4. fix_count' \in 0 .. K
      <3>1. fix_count' = fix_count + 1 /\ fix_count < K
        BY <1>2 DEF CriticFix, CanFix, FixCountAfter
      <3>2. QED
        BY <3>1, KFacts DEF LadderTypeOK
    <2>5. research_pending' \in BOOLEAN
      BY <1>2 DEF CriticFix, LadderTypeOK
    <2>6. LadderTypeOK'
      BY <1>2, <2>1, <2>2, <2>4, <2>5
      DEF CriticFix, CriticFrame, capVars, lastVars, LadderTypeOK
    <2>7. ShipTypeOK'
      BY <1>2, <2>1 DEF CriticFix, CriticFrame, ShipTypeOK
    <2>8. QED
      BY <2>2, <2>3, <2>6, <2>7
  <1>3. CASE CriticReauthor
    <2>1. CriticFrame /\ UNCHANGED vetted
      BY <1>3 DEF CriticReauthor
    <2>2. /\ WallTypeOK' /\ TestTypeOK' /\ K' = K
          /\ UNCHANGED <<status, spec, plan, degraded_critic>>
      BY <2>1, CriticFrameTypes DEF TestTypeOK
    <2>3. ProductTypeOK' /\ LoopInPlan'
      BY <1>3, <1>t, <2>2 DEF CriticReauthor, ProductTypeOK, Node, LoopInPlan
    <2>4. fix_count' \in 0 .. K
      BY <1>3, KFacts DEF CriticReauthor, FixCountAfter
    <2>5. reauthor_count' \in 0 .. ReauthorCap
      <3>1. reauthor_count' = reauthor_count + 1
            /\ reauthor_count < ReauthorCap
        BY <1>3 DEF CriticReauthor, CanReauthor
      <3>2. QED
        BY <3>1, CapsAssumption DEF LadderTypeOK
    <2>6. LadderTypeOK'
      BY <1>3, <2>1, <2>2, <2>4, <2>5
      DEF CriticReauthor, CriticFrame, capVars, lastVars, LadderTypeOK
    <2>7. ShipTypeOK'
      BY <1>3, <2>1 DEF CriticReauthor, CriticFrame, ShipTypeOK
    <2>8. QED
      BY <2>2, <2>3, <2>6, <2>7
  <1>4. CASE CriticRespec
    <2>1. CriticFrame /\ UNCHANGED vetted
      BY <1>4 DEF CriticRespec
    <2>2. /\ WallTypeOK' /\ TestTypeOK' /\ K' = K
          /\ UNCHANGED <<status, spec, plan, degraded_critic>>
      BY <2>1, CriticFrameTypes DEF TestTypeOK
    <2>3. ProductTypeOK' /\ LoopInPlan'
      BY <1>4, <2>2 DEF CriticRespec, ProductTypeOK, Node, LoopInPlan
    <2>4. respec_count' \in 0 .. RespecCap
      <3>1. respec_count' = respec_count + 1 /\ respec_count < RespecCap
        BY <1>4 DEF CriticRespec
      <3>2. QED
        BY <3>1, CapsAssumption DEF LadderTypeOK
    <2>5. LadderTypeOK'
      BY <1>4, <2>1, <2>2, <2>4
      DEF CriticRespec, CriticFrame, lastVars, LadderTypeOK
    <2>6. ShipTypeOK'
      BY <1>4, <2>1 DEF CriticRespec, CriticFrame, ShipTypeOK
    <2>7. QED
      BY <2>2, <2>3, <2>5, <2>6
  <1>5. CASE CriticReplan
    <2>1. CriticFrame /\ UNCHANGED vetted
      BY <1>5 DEF CriticReplan
    <2>2. /\ WallTypeOK' /\ TestTypeOK' /\ K' = K
          /\ UNCHANGED <<status, spec, plan, degraded_critic>>
      BY <2>1, CriticFrameTypes DEF TestTypeOK
    <2>3. ProductTypeOK' /\ LoopInPlan'
      BY <1>5, <1>t, <2>2 DEF CriticReplan, ProductTypeOK, Node, LoopInPlan
    <2>4. replan_count' \in 0 .. ReplanCap
      <3>1. replan_count' = replan_count + 1 /\ replan_count < ReplanCap
        BY <1>5 DEF CriticReplan
      <3>2. QED
        BY <3>1, CapsAssumption DEF LadderTypeOK
    <2>5. LadderTypeOK'
      BY <1>5, <2>1, <2>2, <2>4
      DEF CriticReplan, CriticFrame, lastVars, LadderTypeOK
    <2>6. ShipTypeOK'
      BY <1>5, <2>1 DEF CriticReplan, CriticFrame, ShipTypeOK
    <2>7. QED
      BY <2>2, <2>3, <2>5, <2>6
  <1>6. CASE CriticDescope
    <2>1. CriticFrame /\ UNCHANGED vetted /\ Advance /\ node = "critic"
      BY <1>6 DEF CriticDescope
    <2>2. /\ WallTypeOK' /\ TestTypeOK' /\ K' = K
          /\ UNCHANGED <<status, spec, plan, degraded_critic>>
      BY <2>1, CriticFrameTypes DEF TestTypeOK
    <2>3. /\ node' \in {"iterate", "docs"}
          /\ iteration' \in 1 .. Len(plan) /\ iteration' \in 1 .. MaxIterations
          /\ fix_count' \in 0 .. K /\ reauthor_count' \in 0 .. ReauthorCap
      BY <2>1, <2>2, AdvanceTypes
    <2>4. ProductTypeOK' /\ LoopInPlan'
      BY <1>6, <1>t, <2>2, <2>3
      DEF CriticDescope, ProductTypeOK, Node, CritStatus, LoopInPlan
    <2>5. LadderTypeOK'
      BY <1>6, <2>1, <2>2, <2>3
      DEF CriticDescope, CriticFrame, capVars, lastVars, LadderTypeOK
    <2>6. ShipTypeOK'
      BY <1>6, <1>t, <2>1 DEF CriticDescope, CriticFrame, ShipTypeOK
    <2>7. QED
      BY <2>2, <2>4, <2>5, <2>6
  <1>7. QED
    BY <1>1, <1>2, <1>3, <1>4, <1>5, <1>6 DEF Critic

LEMMA NextTypeInv == TypeInv /\ [Next]_vars => TypeInv'
  <1> SUFFICES ASSUME TypeInv, [Next]_vars PROVE TypeInv'
    OBVIOUS
  <1> USE DEF TypeInv, TypeOK
  <1>1. CASE Ingest
    <2>1. ProductTypeOK' /\ LoopInPlan'
      BY <1>1 DEF Ingest, ProductTypeOK, Node, Status, LoopInPlan,
         productVars, ladderVars
    <2>2. LadderTypeOK' /\ WallTypeOK'
      BY <1>1, LadderFrame, WallFrame DEF Ingest
    <2>3. TestTypeOK'
      BY <1>1, TestFrame DEF Ingest
    <2>4. ShipTypeOK'
      BY <1>1, ShipFrame DEF Ingest
    <2>5. QED
      BY <2>1, <2>2, <2>3, <2>4
  <1>2. CASE SpecBuildable
    <2>1. ProductTypeOK' /\ LoopInPlan'
      BY <1>2 DEF SpecBuildable, ProductTypeOK, Node, Status, CritStatus,
         AllPending, LoopInPlan
    <2>2. LadderTypeOK'
      BY <1>2 DEF SpecBuildable, LadderTypeOK, K, capVars, lastVars, researchVars
    <2>3. WallTypeOK' /\ TestTypeOK' /\ ShipTypeOK'
      BY <1>2, WallFrame, TestFrame, ShipFrame DEF SpecBuildable
    <2>4. QED
      BY <2>1, <2>2, <2>3
  <1>3. CASE SpecNotBuildable
    <2>1. ProductTypeOK' /\ LoopInPlan'
      BY <1>3 DEF SpecNotBuildable, ProductTypeOK, Node, Status, CritStatus,
         AllPending, LoopInPlan
    <2>2. LadderTypeOK'
      BY <1>3, LadderFrame DEF SpecNotBuildable, LadderTypeOK, K, capVars, lastVars, researchVars
    <2>3. WallTypeOK' /\ TestTypeOK' /\ ShipTypeOK'
      BY <1>3, WallFrame, TestFrame, ShipFrame DEF SpecNotBuildable
    <2>4. QED
      BY <2>1, <2>2, <2>3
  <1>4. CASE MakePlan
    <2>1. plan' \in Plans /\ crit' = AllPending /\ spec' = spec
      BY <1>4 DEF MakePlan
    <2>2. iteration' \in 1 .. Len(plan') /\ iteration' \in 1 .. MaxIterations
      BY <1>4, <2>1, PlanFacts, CapsAssumption DEF MakePlan
    <2>3. ProductTypeOK' /\ LoopInPlan'
      BY <1>4, <2>1, <2>2
      DEF MakePlan, ProductTypeOK, Node, CritStatus, AllPending, LoopInPlan
    <2>4. fix_count' \in 0 .. K /\ K' = K
      BY <1>4, KFacts DEF MakePlan, K
    <2>5. LadderTypeOK'
      BY <1>4, <2>2, <2>4
      DEF MakePlan, LadderTypeOK, capVars, lastVars, researchVars
    <2>6. WallTypeOK' /\ TestTypeOK' /\ ShipTypeOK'
      BY <1>4 DEF MakePlan, WallTypeOK, TestTypeOK, ShipTypeOK
    <2>7. QED
      BY <2>3, <2>5, <2>6
  <1>5. CASE ScaffoldPreserve
    <2>1. ProductTypeOK' /\ LoopInPlan'
      BY <1>5 DEF ScaffoldPreserve, ProductTypeOK, Node, Status, LoopInPlan,
         productVars, ladderVars
    <2>2. LadderTypeOK' /\ WallTypeOK'
      BY <1>5, LadderFrame, WallFrame DEF ScaffoldPreserve
    <2>3. TestTypeOK'
      BY <1>5, TestFrame DEF ScaffoldPreserve
    <2>4. ShipTypeOK'
      BY <1>5, ShipFrame DEF ScaffoldPreserve
    <2>5. QED
      BY <2>1, <2>2, <2>3, <2>4
  <1>6. CASE ScaffoldStamp
    <2>1. ProductTypeOK' /\ LoopInPlan'
      BY <1>6 DEF ScaffoldStamp, ProductTypeOK, Node, Status, LoopInPlan,
         productVars, ladderVars
    <2>2. LadderTypeOK' /\ WallTypeOK'
      BY <1>6, LadderFrame, WallFrame DEF ScaffoldStamp
    <2>3. TestTypeOK'
      BY <1>6, TestFrame DEF ScaffoldStamp, TestTypeOK, testVars
    <2>4. ShipTypeOK'
      BY <1>6, ShipFrame DEF ScaffoldStamp
    <2>5. QED
      BY <2>1, <2>2, <2>3, <2>4
  <1>7. CASE Docs
    <2>1. PICK promoted \in SUBSET Rehabilitable, demoted \in SUBSET Criterion :
            /\ demoted \subseteq CreditLost(Met \cup promoted)
            /\ crit' = [c \in Criterion |->
                          IF c \in demoted THEN "descoped"
                          ELSE IF c \in promoted THEN "met" ELSE crit[c]]
            /\ green_test_files' = (green_test_files \cup promoted) \ demoted
            /\ descope_report' = ReportAfter(promoted, demoted)
            /\ published' = Publish(green_test_files')
            /\ vetted' = (vetted \cup promoted) \ demoted
            /\ rechecked' = CreditLost(Met \cup promoted)
      BY <1>7 DEF Docs, CreditLost, TestTypeOK
    <2>2. /\ promoted \in SUBSET Criterion /\ demoted \in SUBSET Criterion
          /\ CreditLost(Met \cup promoted) \in SUBSET Criterion
      BY DEF Rehabilitable, CreditLost, TestTypeOK
    <2>3. ProductTypeOK'
      BY <1>7, <2>1 DEF Docs, ProductTypeOK, Node, CritStatus
    <2>4. LadderTypeOK' /\ WallTypeOK'
      BY <1>7, LadderFrame, WallFrame DEF Docs
    <2>5. TestTypeOK'
      BY <1>7, <2>1, <2>2 DEF Docs, TestTypeOK
    <2>6. ShipTypeOK'
      BY <1>7, <2>1, <2>2
      DEF Docs, TestTypeOK, ShipTypeOK, ReportAfter, Publish
    <2>7. LoopInPlan'
      BY <1>7 DEF Docs, LoopInPlan
    <2>8. QED
      BY <2>3, <2>4, <2>5, <2>6, <2>7
  <1>8. CASE Cleanroom
    <2>1. ProductTypeOK' /\ LoopInPlan'
      BY <1>8 DEF Cleanroom, ProductTypeOK, Node, Status, LoopInPlan,
         productVars, ladderVars
    <2>2. LadderTypeOK' /\ WallTypeOK'
      BY <1>8, LadderFrame, WallFrame DEF Cleanroom
    <2>3. TestTypeOK'
      BY <1>8, TestFrame DEF Cleanroom
    <2>4. ShipTypeOK'
      BY <1>8, ShipFrame DEF Cleanroom, ShipTypeOK
    <2>5. QED
      BY <2>1, <2>2, <2>3, <2>4
  <1>9. CASE Emit
    <2>1. ProductTypeOK' /\ LoopInPlan'
      BY <1>9 DEF Emit, FinalStatus, ProductTypeOK, Node, Status, LoopInPlan,
         productVars, ladderVars
    <2>2. LadderTypeOK' /\ WallTypeOK'
      BY <1>9, LadderFrame, WallFrame DEF Emit
    <2>3. TestTypeOK'
      BY <1>9, TestFrame DEF Emit
    <2>4. ShipTypeOK'
      BY <1>9, ShipFrame DEF Emit
    <2>5. QED
      BY <2>1, <2>2, <2>3, <2>4
  <1>10. CASE UNCHANGED vars
    <2>1. ProductTypeOK' /\ LoopInPlan'
      BY <1>10 DEF vars, ProductTypeOK, LoopInPlan, productVars, ladderVars
    <2>2. QED
      BY <1>10, <2>1, LadderFrame, WallFrame, TestFrame, ShipFrame DEF vars
  <1>11. QED
    BY <1>1, <1>2, <1>3, <1>4, <1>5, <1>6, <1>7, <1>8, <1>9, <1>10,
       IterateTypeInv, CriticTypeInv DEF Next, Finished

LEMMA TypeInvariance == Spec => []TypeInv
  BY InitTypeInv, NextTypeInv, PTL DEF Spec

\* Every field stays in its domain and no counter passes its cap, for every
\* set of criteria, every specification and every configuration.
THEOREM TypeCorrect == Spec => []TypeOK
  <1>1. TypeInv => TypeOK
    BY DEF TypeInv
  <1>2. QED
    BY <1>1, TypeInvariance, PTL

-----------------------------------------------------------------------------
(* A met criterion's test passes                                            *)

LEMMA MetFrame ==
  ASSUME UNCHANGED crit
  PROVE  Met' = Met
  BY DEF Met

LEMMA MetAllPending ==
  ASSUME crit' = AllPending
  PROVE  Met' = {}
  BY DEF Met, AllPending

\* An iteration decides about its target alone.
LEMMA MetAfterRecordState ==
  ASSUME TypeInv, node = "iterate",
         NEW it_status, NEW isGreen, NEW fresh,
         RecordState(it_status, isGreen, fresh)
  PROVE  /\ it_status \in MetStatus => Met' = Met \cup {Target}
         /\ it_status \notin MetStatus => Met' = Met \ {Target}
  BY TargetFacts DEF RecordState, Met, TypeInv, TypeOK, ProductTypeOK

LEMMA MetAfterRecord ==
  ASSUME TypeInv, node = "iterate",
         NEW it_status, NEW isGreen, Record(it_status, isGreen)
  PROVE  /\ it_status \in MetStatus => Met' = Met \cup {Target}
         /\ it_status \notin MetStatus => Met' = Met \ {Target}
         /\ staged' = staged \cup {Target}
  BY MetAfterRecordState DEF Record

LEMMA MetAfterDescope ==
  ASSUME TypeInv, CriticDescope
  PROVE  Met' = Met \ {Target}
  BY TargetFacts DEF CriticDescope, Met, TypeInv, TypeOK, ProductTypeOK

\* Outside Iterate, Docs and MakePlan a step leaves the tests on disk alone.
LEMMA MetTestsPassInductive ==
  ASSUME TypeInv, MetTestsPass, [Next]_vars
  PROVE  MetTestsPass'
  <1> USE DEF MetTestsPass
  <1>1. CASE Ingest \/ ScaffoldPreserve \/ ScaffoldStamp \/ Cleanroom \/ Emit
             \/ UNCHANGED vars
    BY <1>1, MetFrame
    DEF Ingest, ScaffoldPreserve, ScaffoldStamp, Cleanroom, Emit, vars,
        productVars, testVars
  <1>2. CASE SpecBuildable \/ SpecNotBuildable \/ MakePlan
    BY <1>2, MetAllPending DEF SpecBuildable, SpecNotBuildable, MakePlan
  <1>3. CASE IterateRedFirstFailed
    BY <1>3, MetAfterRecord
    DEF IterateRedFirstFailed, PassesAfterProbe, MetStatus
  <1>4. CASE IterateMetExisting
    BY <1>4, MetAfterRecord
    DEF IterateMetExisting, PassesAfterProbe, MetStatus
  <1>5. CASE IterateGreen
    BY <1>5, MetAfterRecord DEF IterateGreen, GreenSuite, MetStatus
  <1>6. CASE IterateLedgerGap \/ IterateIncident \/ IterateAbandoned
    <2>1. PICK it_status \in {"incident", "abandoned"} :
            node = "iterate" /\ Record(it_status, FALSE)
      BY <1>6 DEF IterateLedgerGap, IterateIncident, IterateAbandoned
    <2>2. Met' = Met \ {Target} /\ staged' = staged \cup {Target}
      BY <2>1, MetAfterRecord DEF MetStatus
    <2>3. passes' = passes \ {Target}
      BY <1>6 DEF IterateLedgerGap, IterateIncident, IterateAbandoned,
                  PassesAfterProbe
    <2>4. QED
      BY <2>2, <2>3
  <1>7. CASE CriticDescope
    BY <1>7, MetAfterDescope DEF CriticDescope, CriticFrame
  <1>8. CASE Critic /\ ~CriticDescope
    <2>1. UNCHANGED <<crit, staged, passes>>
      BY <1>8 DEF Critic, CriticAccept, CriticFix, CriticReauthor,
                  CriticRespec, CriticReplan, CriticFrame
    <2>2. QED
      BY <2>1, MetFrame
  <1>9. CASE Docs
    <2>1. PICK promoted \in SUBSET Rehabilitable, demoted \in SUBSET Criterion :
            crit' = [c \in Criterion |->
                       IF c \in demoted THEN "descoped"
                       ELSE IF c \in promoted THEN "met" ELSE crit[c]]
      BY <1>9 DEF Docs, CreditLost, TypeInv, TypeOK, TestTypeOK
    <2>2. Met' \subseteq Met \cup promoted
      BY <2>1 DEF Met
    <2>3. promoted \subseteq staged \cap passes /\ UNCHANGED <<staged, passes>>
      BY <1>9 DEF Docs, Rehabilitable
    <2>4. QED
      BY <2>2, <2>3
  <1>10. QED
    BY <1>1, <1>2, <1>3, <1>4, <1>5, <1>6, <1>7, <1>8, <1>9
    DEF Next, Iterate, Finished

LEMMA MetInvariance == Spec => [](TypeInv /\ MetTestsPass)
  <1>1. Init => TypeInv /\ MetTestsPass
    BY InitTypeInv DEF Init, MetTestsPass, Met, AllPending
  <1>2. TypeInv /\ MetTestsPass /\ [Next]_vars => (TypeInv /\ MetTestsPass)'
    BY NextTypeInv, MetTestsPassInductive
  <1>3. QED
    BY <1>1, <1>2, PTL DEF Spec

\* The cumulative gate: a criterion reads `met' only while its staged test
\* passes on the committed workspace.
THEOREM MetTestsAlwaysPass == Spec => []MetTestsPass
  BY MetInvariance, PTL

-----------------------------------------------------------------------------
(* What ships is vetted and published                                       *)

\* Why ShippedIsVetted holds: the list P5 publishes has every met criterion,
\* in the loop only the target can be met by a test the critic has not yet
\* let through, and every way to the loop or past it starts with none met.
VettedInv ==
  /\ Met \subseteq green_test_files
  /\ node \in {"ingest", "scaffold"} => Met = {}
  /\ node \in {"iterate", "critic"} => Met \subseteq vetted \cup {Target}
  /\ node = "docs" => Met \subseteq vetted
  /\ ShippedIsVetted

\* With a met criterion resolved, the loop moves to a new target or to P5.
LEMMA AdvanceNode ==
  ASSUME Advance
  PROVE  node' \in {"iterate", "docs"}
  BY DEF Advance

LEMMA VettedRecord ==
  ASSUME TypeInv, VettedInv, node = "iterate",
         NEW it_status, NEW isGreen, NEW fresh,
         RecordState(it_status, isGreen, fresh)
  PROVE  VettedInv'
  <1>1. Met' \subseteq Met \cup {Target} /\ Target' = Target /\ node' = "critic"
    BY MetAfterRecordState DEF RecordState, Target
  <1>2. Met' \subseteq green_test_files'
    BY MetAfterRecordState DEF RecordState, VettedInv
  <1>3. vetted \subseteq vetted' \cup {Target}
    BY DEF RecordState
  <1>4. QED
    BY <1>1, <1>2, <1>3 DEF VettedInv, ShippedIsVetted, Shipping

\* P5 publishes the tests of the met criteria that are there to be published.
LEMMA VettedStep ==
  ASSUME TypeInv, VettedInv, [Next]_vars,
         node = "docs" => Met \subseteq staged \cup published
  PROVE  VettedInv'
  <1> USE DEF VettedInv, ShippedIsVetted, Shipping
  <1>1. CASE Ingest \/ Cleanroom \/ Emit \/ UNCHANGED vars
    BY <1>1, MetFrame
    DEF Ingest, Cleanroom, Emit, vars, productVars, ladderVars, testVars,
        shipVars, Target
  <1>2. CASE SpecBuildable \/ SpecNotBuildable \/ MakePlan
    BY <1>2, MetAllPending DEF SpecBuildable, SpecNotBuildable, MakePlan
  <1>3. CASE ScaffoldPreserve \/ ScaffoldStamp
    BY <1>3, MetFrame
    DEF ScaffoldPreserve, ScaffoldStamp, productVars, testVars, shipVars
  <1>4. CASE Iterate
    <2>1. PICK it_status \in IterStatus, isGreen \in BOOLEAN :
            node = "iterate" /\ Record(it_status, isGreen)
      BY <1>4 DEF Iterate, IterateRedFirstFailed, IterateMetExisting,
         IterateGreen, IterateLedgerGap, IterateIncident, IterateAbandoned,
         IterStatus, MetStatus
    <2>2. RecordState(it_status, isGreen, Fresh)
      BY <2>1 DEF Record
    <2> HIDE DEF VettedInv
    <2>3. QED
      BY <2>1, <2>2, VettedRecord
  <1>5. CASE CriticAccept
    <2>1. /\ Met' = Met /\ vetted' = vetted \cup {Target} /\ node = "critic"
          /\ UNCHANGED green_test_files
      BY <1>5, MetFrame DEF CriticAccept, CriticFrame
    <2>2. node' \in {"iterate", "docs"}
      BY <1>5, AdvanceNode DEF CriticAccept
    <2>3. QED
      BY <2>1, <2>2
  <1>6. CASE CriticDescope
    <2>1. /\ Met' = Met \ {Target} /\ node = "critic"
          /\ UNCHANGED <<vetted, green_test_files>>
      BY <1>6, MetAfterDescope DEF CriticDescope, CriticFrame
    <2>2. node' \in {"iterate", "docs"}
      BY <1>6, AdvanceNode DEF CriticDescope
    <2>3. QED
      BY <2>1, <2>2
  <1>7. CASE CriticFix \/ CriticReauthor
    <2>1. /\ Met' = Met /\ Target' = Target
          /\ node = "critic" /\ node' = "iterate"
          /\ UNCHANGED <<vetted, green_test_files>>
      BY <1>7, MetFrame DEF CriticFix, CriticReauthor, CriticFrame, Target
    <2>2. QED
      BY <2>1
  <1>8. CASE CriticRespec \/ CriticReplan
    <2>1. Met' = Met /\ node' \in {"spec", "plan"} /\ UNCHANGED green_test_files
      BY <1>8, MetFrame DEF CriticRespec, CriticReplan, CriticFrame
    <2>2. QED
      BY <2>1
  <1>9. CASE Docs
    <2>1. PICK promoted \in SUBSET Rehabilitable, demoted \in SUBSET Criterion :
            /\ crit' = [c \in Criterion |->
                         IF c \in demoted THEN "descoped"
                         ELSE IF c \in promoted THEN "met" ELSE crit[c]]
            /\ green_test_files' = (green_test_files \cup promoted) \ demoted
            /\ published' = Publish(green_test_files')
            /\ vetted' = (vetted \cup promoted) \ demoted
      BY <1>9 DEF Docs, CreditLost, TypeInv, TypeOK, TestTypeOK
    <2>2. Met' \subseteq (Met \cup promoted) \ demoted
      BY <2>1 DEF Met
    <2>3. Met' \subseteq staged \cup published
      BY <1>9, <2>2 DEF Docs, Rehabilitable
    <2>4. Met' \subseteq green_test_files' /\ Met' \subseteq published'
      BY <2>1, <2>2, <2>3 DEF Publish
    <2>5. Met' \subseteq vetted'
      BY <1>9, <2>1, <2>2 DEF Docs
    <2>6. QED
      BY <1>9, <2>4, <2>5 DEF Docs
  <1>10. QED
    BY <1>1, <1>2, <1>3, <1>4, <1>5, <1>6, <1>7, <1>8, <1>9
    DEF Next, Critic, Finished

LEMMA VettedInductive ==
  ASSUME TypeInv, MetTestsPass, VettedInv, [Next]_vars
  PROVE  VettedInv'
  BY VettedStep DEF MetTestsPass

LEMMA VettedInvariance == Spec => [](TypeInv /\ MetTestsPass /\ VettedInv)
  <1>1. Init => VettedInv
    BY DEF Init, VettedInv, ShippedIsVetted, Shipping, Met, AllPending
  <1>2. /\ TypeInv /\ MetTestsPass /\ VettedInv /\ [Next]_vars
        => VettedInv'
    BY VettedInductive
  <1>3. QED
    BY <1>1, <1>2, MetInvariance, PTL DEF Spec

\* One evidence standard: what a build ships as met is met by a published
\* test whose text the critic let through, whichever way it was promoted.
THEOREM ShippedAlwaysVetted == Spec => []ShippedIsVetted
  <1>1. VettedInv => ShippedIsVetted
    BY DEF VettedInv
  <1>2. QED
    BY <1>1, VettedInvariance, PTL

-----------------------------------------------------------------------------
(* The ladder descends                                                      *)

\* The measure is made of naturals, so a descending chain of it is finite.
RankIsNatural == \A i \in 1 .. 7 : Rank[i] \in Nat

\* The loop never leaves the plan by more than one.
IterationBounded == iteration <= Len(plan) + 1

LEMMA PlanLength ==
  ASSUME TypeInv
  PROVE  Len(plan) \in Nat /\ iteration \in Nat
  BY PlanFacts DEF TypeInv, TypeOK, ProductTypeOK, LadderTypeOK

LEMMA IterationBoundedInductive ==
  ASSUME TypeInv, IterationBounded, [Next]_vars
  PROVE  IterationBounded'
  <1> USE DEF IterationBounded
  <1>1. CASE MakePlan
    <2>1. Len(plan') \in Nat /\ iteration' = 1
      BY <1>1, PlanFacts DEF MakePlan
    <2>2. QED
      BY <2>1
  <1>2. CASE CriticAccept \/ CriticDescope
    <2>1. plan' = plan /\ Advance /\ node = "critic"
      BY <1>2 DEF CriticAccept, CriticDescope, CriticFrame
    <2>2. iteration' \in 1 .. Len(plan')
      BY <2>1, AdvanceTypes
    <2>3. Len(plan') \in Nat
      BY <2>1, PlanLength
    <2>4. QED
      BY <2>2, <2>3
  <1>3. CASE UNCHANGED <<plan, iteration>>
    BY <1>3
  <1>4. QED
    BY <1>1, <1>2, <1>3
    DEF Next, Ingest, SpecBuildable, SpecNotBuildable, ScaffoldPreserve,
        ScaffoldStamp, Iterate, IterateRedFirstFailed, IterateMetExisting,
        IterateGreen, IterateLedgerGap, IterateIncident, IterateAbandoned,
        Record, RecordState, Critic, CriticFix, CriticReauthor, CriticRespec, CriticReplan,
        CriticFrame, Docs, Cleanroom, Emit, Finished, vars, productVars,
        ladderVars

\* A step that keeps the first i - 1 components and lowers the i-th one.
LEMMA DescendsAt ==
  ASSUME NEW r, NEW s, NEW i \in 1 .. 7, r[i] < s[i],
         \A j \in 1 .. (i - 1) : r[j] = s[j]
  PROVE  LexLess(r, s)
  BY DEF LexLess

LEMMA RankComponents ==
  /\ Rank[1] = RespecCap - respec_count /\ Rank[2] = ReplanCap - replan_count
  /\ Rank[3] = ToPlan /\ Rank[4] = Len(plan) + 1 - iteration
  /\ Rank[5] = ReauthorCap - reauthor_count /\ Rank[6] = K - fix_count
  /\ Rank[7] = ToEnd
  BY DEF Rank

\* The caps as integers, for the differences in the measure.
LEMMA CounterTypes ==
  ASSUME TypeInv
  PROVE  /\ respec_count \in Int /\ replan_count \in Int
         /\ iteration \in Int /\ reauthor_count \in Int /\ fix_count \in Int
         /\ RespecCap \in Int /\ ReplanCap \in Int /\ ReauthorCap \in Int
         /\ K \in Int /\ Len(plan) \in Int
  BY CapsAssumption, KFacts, PlanLength DEF TypeInv, TypeOK, LadderTypeOK

\* Outside the loop, and in it without a verdict, only the node moves.
LEMMA NodeDescends ==
  ASSUME TypeInv, ToPlan' = ToPlan, ToEnd' < ToEnd,
         UNCHANGED <<plan, degraded_critic, ladderVars>>
  PROVE  LexLess(Rank', Rank)
  <1>1. \A j \in 1 .. 6 : Rank'[j] = Rank[j]
    BY RankComponents DEF Rank, ladderVars, capVars, K
  <1>2. Rank'[7] < Rank[7]
    BY DEF Rank
  <1>3. QED
    BY <1>1, <1>2, DescendsAt

LEMMA AdvanceDescends ==
  ASSUME TypeInv, node = "critic", Advance,
         UNCHANGED <<plan, degraded_critic, capVars>>
  PROVE  LexLess(Rank', Rank)
  <1>1. K' = K /\ ToPlan' = ToPlan
    BY DEF K, ToPlan, Advance
  <1>2. CASE iteration < Len(plan)
    <2>1. iteration' = iteration + 1
      BY <1>2 DEF Advance
    <2>2. Rank'[4] < Rank[4]
      BY <2>1, CounterTypes DEF Rank
    <2>3. \A j \in 1 .. 3 : Rank'[j] = Rank[j]
      BY <1>1 DEF Rank, capVars
    <2>4. QED
      BY <2>2, <2>3, DescendsAt
  <1>3. CASE ~(iteration < Len(plan))
    <2>1. node' = "docs" /\ UNCHANGED <<iteration, fix_count, reauthor_count>>
      BY <1>3 DEF Advance
    <2>2. ToEnd' < ToEnd
      BY <2>1 DEF ToEnd
    <2>3. \A j \in 1 .. 6 : Rank'[j] = Rank[j]
      BY <1>1, <2>1 DEF Rank, capVars
    <2>4. Rank'[7] < Rank[7]
      BY <2>2 DEF Rank
    <2>5. QED
      BY <2>3, <2>4, DescendsAt
  <1>4. QED
    BY <1>2, <1>3

LEMMA NextDescends ==
  ASSUME TypeInv, [Next]_vars
  PROVE  [LexLess(Rank', Rank)]_vars
  <1>1. CASE Ingest \/ SpecBuildable \/ SpecNotBuildable \/ MakePlan
    <2>1. ToPlan' < ToPlan
      BY <1>1 DEF Ingest, SpecBuildable, SpecNotBuildable, MakePlan, ToPlan
    <2>2. UNCHANGED capVars
      BY <1>1 DEF Ingest, SpecBuildable, SpecNotBuildable, MakePlan, ladderVars
    <2>3. Rank'[3] < Rank[3] /\ \A j \in 1 .. 2 : Rank'[j] = Rank[j]
      BY <2>1, <2>2 DEF Rank, capVars
    <2>4. QED
      BY <2>3, DescendsAt
  <1>2. CASE ScaffoldPreserve \/ ScaffoldStamp \/ Docs \/ Cleanroom \/ Emit
    <2>1. ToPlan' = ToPlan /\ ToEnd' < ToEnd
      BY <1>2 DEF ScaffoldPreserve, ScaffoldStamp, Docs, Cleanroom, Emit,
                  ToPlan, ToEnd
    <2>2. UNCHANGED <<plan, degraded_critic, ladderVars>>
      BY <1>2 DEF ScaffoldPreserve, ScaffoldStamp, Docs, Cleanroom, Emit,
                  productVars
    <2>3. QED
      BY <2>1, <2>2, NodeDescends
  <1>3. CASE Iterate
    <2>1. PICK it_status \in IterStatus, isGreen \in BOOLEAN :
            node = "iterate" /\ Record(it_status, isGreen)
      BY <1>3 DEF Iterate, IterateRedFirstFailed, IterateMetExisting,
         IterateGreen, IterateLedgerGap, IterateIncident, IterateAbandoned,
         IterStatus, MetStatus
    <2>2. \A j \in 1 .. 6 : Rank'[j] = Rank[j]
      BY <2>1 DEF Record, RecordState, Rank, ToPlan, capVars, K
    <2>3. Rank'[7] < Rank[7]
      BY <2>1 DEF Record, RecordState, Rank, ToEnd
    <2>4. QED
      BY <2>2, <2>3, DescendsAt
  <1>4. CASE CriticAccept \/ CriticDescope
    BY <1>4, AdvanceDescends DEF CriticAccept, CriticDescope, CriticFrame
  <1>5. CASE CriticFix
    <2>1. fix_count' = fix_count + 1
      BY <1>5 DEF CriticFix, FixCountAfter
    <2>2. K' = K /\ ToPlan' = ToPlan
      BY <1>5 DEF CriticFix, CriticFrame, K, ToPlan
    <2>3. \A j \in 1 .. 5 : Rank'[j] = Rank[j]
      BY <1>5, <2>2 DEF CriticFix, CriticFrame, Rank, capVars
    <2>4. Rank'[6] < Rank[6]
      BY <2>1, <2>2, CounterTypes DEF Rank
    <2>5. QED
      BY <2>3, <2>4, DescendsAt
  <1>6. CASE CriticReauthor
    <2>1. reauthor_count' = reauthor_count + 1 /\ ToPlan' = ToPlan
      BY <1>6 DEF CriticReauthor, ToPlan
    <2>2. \A j \in 1 .. 4 : Rank'[j] = Rank[j]
      BY <1>6, <2>1 DEF CriticReauthor, CriticFrame, Rank, capVars
    <2>3. Rank'[5] < Rank[5]
      BY <2>1, CounterTypes DEF Rank
    <2>4. QED
      BY <2>2, <2>3, DescendsAt
  <1>7. CASE CriticRespec
    <2>1. respec_count' = respec_count + 1
      BY <1>7 DEF CriticRespec
    <2>2. Rank'[1] < Rank[1]
      BY <2>1, CounterTypes DEF Rank
    <2>3. QED
      BY <2>2, DescendsAt
  <1>8. CASE CriticReplan
    <2>1. replan_count' = replan_count + 1 /\ UNCHANGED respec_count
      BY <1>8 DEF CriticReplan
    <2>2. Rank'[2] < Rank[2] /\ Rank'[1] = Rank[1]
      BY <2>1, CounterTypes DEF Rank
    <2>3. QED
      BY <2>2, DescendsAt
  <1>9. QED
    BY <1>1, <1>2, <1>3, <1>4, <1>5, <1>6, <1>7, <1>8
    DEF Next, Critic, Finished

\* Every step of the graph that changes anything descends in the measure.
THEOREM LadderAlwaysDescends == Spec => LadderDescends
  <1>1. TypeInv /\ [Next]_vars => [LexLess(Rank', Rank)]_vars
    BY NextDescends
  <1>2. QED
    BY <1>1, TypeInvariance, PTL DEF Spec, LadderDescends

\* The measure never leaves the naturals: with LadderAlwaysDescends, no run
\* of the graph has more steps than the measure's start allows.
THEOREM RankAlwaysNatural == Spec => []RankIsNatural
  <1>1. Init => IterationBounded
    BY DEF Init, IterationBounded
  <1>2. TypeInv /\ IterationBounded => RankIsNatural
    <2> SUFFICES ASSUME TypeInv, IterationBounded PROVE RankIsNatural
      OBVIOUS
    <2>1. RespecCap - respec_count \in Nat /\ ReplanCap - replan_count \in Nat
      BY CapsAssumption DEF TypeInv, TypeOK, LadderTypeOK
    <2>2. ReauthorCap - reauthor_count \in Nat /\ K - fix_count \in Nat
      BY CapsAssumption, KFacts DEF TypeInv, TypeOK, LadderTypeOK
    <2>3. Len(plan) + 1 - iteration \in Nat
      BY PlanLength DEF IterationBounded
    <2>4. ToPlan \in Nat /\ ToEnd \in Nat
      BY DEF ToPlan, ToEnd
    <2>5. QED
      BY <2>1, <2>2, <2>3, <2>4 DEF RankIsNatural, Rank
  <1>3. TypeInv /\ IterationBounded /\ [Next]_vars => IterationBounded'
    BY IterationBoundedInductive
  <1>4. QED
    BY <1>1, <1>2, <1>3, TypeInvariance, PTL DEF Spec

-----------------------------------------------------------------------------
(* A done build is earned                                                   *)

\* The criterion an order of planning starts with is planned only once, and
\* the core criterion, when it is planned, is the one.
LEMMA PlanHead ==
  ASSUME NEW s \in Specs, NEW p \in Plans, IsPlanOf(p, s)
  PROVE  /\ \A i \in 2 .. Len(p) : p[i] # p[1]
         /\ \A i \in 1 .. Len(p) : p[i] = s.core => p[1] = s.core
  <1> DEFINE T      == Testable(s)
             Pos(c) == CHOOSE i \in DOMAIN s.criteria : s.criteria[i] = c
             lead   == IF s.core \in T THEN s.core
                       ELSE CHOOSE c \in T : \A d \in T : Pos(c) <= Pos(d)
             all    == {s.criteria[i] : i \in DOMAIN s.criteria}
  <1>1. \A i, j \in DOMAIN p : i < j =>
          p[j] # lead /\ (p[i] = lead \/ Pos(p[i]) < Pos(p[j]))
    BY DEF IsPlanOf
  <1>2. DOMAIN p = 1 .. Len(p) /\ Len(p) \in 1 .. MaxIterations
    BY PlanFacts
  <1>3. \A i \in DOMAIN p : p[i] \in T
    BY DEF IsPlanOf
  <1>4. T \subseteq all
    BY DEF Testable
  <1>5. \A c \in all : Pos(c) \in Nat
    <2>1. DOMAIN s.criteria \subseteq Nat
      BY SpecsAssumption DEF IsSpec
    <2>2. \A c \in all : Pos(c) \in DOMAIN s.criteria
      OBVIOUS
    <2>3. QED
      BY <2>1, <2>2
  <1>6. ASSUME NEW i \in 2 .. Len(p) PROVE p[i] # p[1]
    <2>1. 1 \in DOMAIN p /\ i \in DOMAIN p /\ 1 < i
      BY <1>2, CapsAssumption
    <2>2. p[i] # lead /\ (p[1] = lead \/ Pos(p[1]) < Pos(p[i]))
      BY <1>1, <2>1
    <2>3. Pos(p[1]) \in Nat
      BY <1>3, <1>4, <1>5, <2>1
    <2> HIDE DEF Pos, lead
    <2>4. QED
      BY <2>2, <2>3
  <1>7. ASSUME NEW i \in 1 .. Len(p), p[i] = s.core PROVE p[1] = s.core
    <2>1. i \in DOMAIN p /\ 1 \in DOMAIN p
      BY <1>2, CapsAssumption
    <2>2. lead = s.core
      BY <1>3, <1>7, <2>1
    <2>3. ~(1 < i)
      BY <1>1, <1>7, <2>1, <2>2
    <2>4. i = 1
      BY <2>3, <1>2, CapsAssumption
    <2>5. QED
      BY <2>4, <1>7
  <1>8. QED
    BY <1>6, <1>7

\* What the tests were probed against: every staged test was, and only a
\* breach of the red-first gate leaves the first target green on the stub.
ProbedInv ==
  /\ \A c \in staged : probed[c] # "no"
  /\ red_first_ok /\ plan # <<>> => probed[plan[1]] # "green-on-stub"

\* The plan in force is one of the specification in force.
PlannedInv ==
  /\ Met \subseteq Planned
  /\ node \in {"scaffold", "iterate", "critic", "docs", "cleanroom"}
     \/ Met # {} => plan \in Plans /\ IsPlanOf(plan, spec)

\* The clean-room's verdict is about the workspace that ships, and `done' is
\* only ever written by P7.
SuiteInv ==
  /\ suite_ok => node \in {"emit", "end"} /\ published \subseteq passes
  /\ status = "done" => node = "end"

LEMMA ProbedInductive ==
  ASSUME TypeInv, PlannedInv, ProbedInv, [Next]_vars
  PROVE  ProbedInv'
  <1> USE DEF ProbedInv
  <1>1. CASE MakePlan
    <2>1. /\ staged' = {} /\ plan' \in Plans
          /\ probed' = [c \in Criterion |-> "no"]
      BY <1>1 DEF MakePlan
    <2>2. plan'[1] \in Criterion
      BY <2>1, PlanFacts, CapsAssumption
    <2>3. QED
      BY <2>1, <2>2
  <1>2. CASE Iterate
    <2>1. PICK it_status \in IterStatus, isGreen \in BOOLEAN :
            /\ node = "iterate" /\ Record(it_status, isGreen)
            /\ \/ isGreen /\ red_first_ok' = FALSE
               \/ isGreen /\ ~StrictRedFirst /\ UNCHANGED red_first_ok
               \/ ~isGreen /\ UNCHANGED red_first_ok
      BY <1>2 DEF Iterate, IterateRedFirstFailed, IterateMetExisting,
         IterateGreen, IterateLedgerGap, IterateIncident, IterateAbandoned,
         IterStatus, MetStatus, RaiseIncidents, wallVars
    <2>2. /\ plan \in Plans /\ iteration \in 1 .. Len(plan)
          /\ Target \in Criterion
      BY <2>1, TargetFacts
    <2>3. /\ staged' = staged \cup {Target} /\ plan' = plan
          /\ probed' = [probed EXCEPT ![Target] = ProbeKind(isGreen)]
      BY <2>1 DEF Record, RecordState
    <2>4. \A c \in Criterion :
            probed'[c] = IF c = Target THEN ProbeKind(isGreen) ELSE probed[c]
      BY <2>2, <2>3 DEF TypeInv, TypeOK, TestTypeOK
    <2>5. ProbeKind(isGreen) # "no"
      BY DEF ProbeKind
    <2>6. \A c \in staged' : probed'[c] # "no"
      BY <2>2, <2>3, <2>4, <2>5 DEF TypeInv, TypeOK, TestTypeOK
    <2>7. ASSUME red_first_ok' PROVE probed'[plan[1]] # "green-on-stub"
      <3>1. plan[1] \in Criterion /\ plan # <<>>
        BY <2>2, PlanFacts, CapsAssumption
      <3>2. red_first_ok
        BY <2>1, <2>7
      <3>3. CASE plan[1] # Target
        BY <2>4, <3>1, <3>2, <3>3
      <3>4. CASE plan[1] = Target
        <4>1. iteration = 1
          <5>1. IsPlanOf(plan, spec) /\ spec \in Specs
            BY <2>1 DEF PlannedInv, TypeInv, LoopInPlan
          <5>2. \A i \in 2 .. Len(plan) : plan[i] # plan[1]
            BY <2>2, <5>1, PlanHead
          <5>3. iteration \notin 2 .. Len(plan)
            BY <3>4, <5>2 DEF Target
          <5>4. QED
            BY <2>2, <5>3, PlanFacts
        <4>2. ProbeKind(isGreen) # "green-on-stub"
          BY <2>1, <2>7, <4>1 DEF ProbeKind, StrictRedFirst
        <4>3. QED
          BY <2>4, <3>1, <3>4, <4>2
      <3>5. QED
        BY <3>3, <3>4
    <2>8. QED
      BY <2>3, <2>6, <2>7
  <1>3. CASE UNCHANGED <<staged, probed, plan, red_first_ok>>
    BY <1>3
  <1>4. QED
    BY <1>1, <1>2, <1>3
    DEF Next, Ingest, SpecBuildable, SpecNotBuildable, ScaffoldPreserve,
        ScaffoldStamp, Critic, CriticAccept, CriticFix, CriticReauthor,
        CriticRespec, CriticReplan, CriticDescope, CriticFrame, Docs,
        Cleanroom, Emit, Finished, vars, productVars, wallVars, testVars

LEMMA PlannedInductive ==
  ASSUME TypeInv, VettedInv, PlannedInv, [Next]_vars
  PROVE  PlannedInv'
  <1> USE DEF PlannedInv
  <1>1. CASE Ingest \/ ScaffoldPreserve \/ ScaffoldStamp \/ Cleanroom \/ Emit
             \/ UNCHANGED vars
    BY <1>1, MetFrame
    DEF Ingest, ScaffoldPreserve, ScaffoldStamp, Cleanroom, Emit, vars,
        productVars, Planned
  <1>2. CASE SpecBuildable \/ SpecNotBuildable
    BY <1>2, MetAllPending DEF SpecBuildable, SpecNotBuildable
  <1>3. CASE MakePlan
    BY <1>3, MetAllPending DEF MakePlan
  <1>4. CASE Iterate
    <2>1. PICK it_status \in IterStatus, isGreen \in BOOLEAN :
            node = "iterate" /\ Record(it_status, isGreen)
      BY <1>4 DEF Iterate, IterateRedFirstFailed, IterateMetExisting,
         IterateGreen, IterateLedgerGap, IterateIncident, IterateAbandoned,
         IterStatus, MetStatus
    <2>2. Met' \subseteq Met \cup {Target}
      BY <2>1, MetAfterRecord
    <2>3. Target \in Planned
      BY <2>1, TargetFacts, PlanFacts DEF Target, Planned
    <2>4. plan \in Plans /\ IsPlanOf(plan, spec) /\ UNCHANGED <<plan, spec>>
      BY <2>1 DEF Record, RecordState
    <2>5. QED
      BY <2>2, <2>3, <2>4 DEF Planned
  <1>5. CASE Critic
    <2>1. node = "critic" /\ UNCHANGED <<plan, spec>>
      BY <1>5 DEF Critic, CriticAccept, CriticFix, CriticReauthor,
                  CriticRespec, CriticReplan, CriticDescope, CriticFrame
    <2>2. Met' \subseteq Met
      BY <1>5, MetAfterDescope, MetFrame
      DEF Critic, CriticAccept, CriticFix, CriticReauthor, CriticRespec,
          CriticReplan
    <2>3. QED
      BY <2>1, <2>2 DEF Planned
  <1>6. CASE Docs
    <2>1. PICK promoted \in SUBSET Rehabilitable, demoted \in SUBSET Criterion :
            crit' = [c \in Criterion |->
                       IF c \in demoted THEN "descoped"
                       ELSE IF c \in promoted THEN "met" ELSE crit[c]]
      BY <1>6 DEF Docs, CreditLost, TypeInv, TypeOK, TestTypeOK
    <2>2. Met' \subseteq Met \cup promoted /\ promoted \subseteq Planned
      BY <2>1 DEF Met, Rehabilitable
    <2>3. node = "docs" /\ UNCHANGED <<plan, spec>>
      BY <1>6 DEF Docs
    <2>4. QED
      BY <2>2, <2>3 DEF Planned
  <1>7. QED
    BY <1>1, <1>2, <1>3, <1>4, <1>5, <1>6 DEF Next, Finished

LEMMA SuiteInductive ==
  ASSUME TypeInv, SuiteInv, [Next]_vars
  PROVE  SuiteInv'
  <1> USE DEF SuiteInv
  <1>1. CASE Cleanroom
    BY <1>1 DEF Cleanroom, SuiteMayPass, testVars
  <1>2. CASE Emit
    BY <1>2 DEF Emit, testVars, shipVars
  <1>3. CASE Docs
    BY <1>3 DEF Docs
  <1>4. CASE Ingest \/ SpecBuildable \/ SpecNotBuildable \/ MakePlan
             \/ ScaffoldPreserve \/ ScaffoldStamp
    BY <1>4 DEF Ingest, SpecBuildable, SpecNotBuildable, MakePlan,
                ScaffoldPreserve, ScaffoldStamp, testVars, shipVars
  <1>5. CASE Iterate \/ Critic
    <2>1. node \notin {"emit", "end"} /\ UNCHANGED <<status, suite_ok>>
      BY <1>5 DEF Iterate, IterateRedFirstFailed, IterateMetExisting,
         IterateGreen, IterateLedgerGap, IterateIncident, IterateAbandoned,
         Record, RecordState, Critic, CriticAccept, CriticFix, CriticReauthor,
         CriticRespec, CriticReplan, CriticDescope, CriticFrame
    <2>2. QED
      BY <2>1
  <1>6. CASE UNCHANGED vars
    BY <1>6 DEF vars, testVars, shipVars
  <1>7. QED
    BY <1>1, <1>2, <1>3, <1>4, <1>5, <1>6 DEF Next, Finished

\* P7 writes `done' only when all of it is true.
LEMMA EmitEarns ==
  ASSUME TypeInv, MetTestsPass, VettedInv, ProbedInv, PlannedInv, SuiteInv,
         Emit
  PROVE  DoneIsEarned'
  <1> SUFFICES ASSUME FinalStatus = "done" PROVE DoneIsEarned'
    BY DEF Emit, DoneIsEarned
  <1>1. CoreMet /\ suite_ok /\ Trustworthy /\ node = "emit"
    BY DEF FinalStatus, Emit, SuiteInv
  <1>2. UNCHANGED <<spec, crit, published, passes, probed, highs,
                    high_incident_criteria>>
    BY DEF Emit, productVars, wallVars, testVars, shipVars
  <1>3. spec \in Specs /\ spec.core \in Criterion
    BY <1>1, SpecsAssumption
    DEF CoreMet, TypeInv, TypeOK, ProductTypeOK, IsSpec
  <1>4. spec.core \in Met
    BY <1>1, <1>3 DEF CoreMet, Met
  <1>5. spec.core \in staged \cap passes /\ spec.core \in published
    BY <1>1, <1>4 DEF MetTestsPass, VettedInv, ShippedIsVetted, Shipping
  <1>6. published \subseteq passes
    BY <1>1 DEF SuiteInv
  <1>7. plan \in Plans /\ IsPlanOf(plan, spec) /\ spec.core \in Planned
    BY <1>4 DEF PlannedInv
  <1>8. plan # <<>> /\ plan[1] = spec.core
    BY <1>3, <1>7, PlanHead, PlanFacts DEF Planned
  <1>9. probed[spec.core] \in {"red", "green-on-code"}
    <2>1. probed[spec.core] # "no" /\ probed[spec.core] # "green-on-stub"
      BY <1>1, <1>5, <1>8 DEF ProbedInv, Trustworthy
    <2>2. QED
      BY <1>3, <2>1 DEF TypeInv, TypeOK, TestTypeOK
  <1>10. highs = 0 \/ (highs = 1 /\ high_incident_criteria \subseteq Met)
    BY <1>1 DEF Trustworthy, IncidentDowngradeable
  <1>11. CoreMet' /\ Met' = Met
    BY <1>1, <1>2, MetFrame DEF CoreMet
  <1>12. QED
    BY <1>2, <1>5, <1>6, <1>9, <1>10, <1>11 DEF DoneIsEarned

\* The conjunction that is inductive.
DoneInv ==
  /\ TypeInv /\ MetTestsPass /\ VettedInv
  /\ ProbedInv /\ PlannedInv /\ SuiteInv /\ DoneIsEarned

LEMMA DoneInductive == DoneInv /\ [Next]_vars => DoneInv'
  <1> SUFFICES ASSUME DoneInv, [Next]_vars PROVE DoneInv'
    OBVIOUS
  <1> USE DEF DoneInv
  <1>1. (TypeInv /\ MetTestsPass /\ VettedInv)'
    BY NextTypeInv, MetTestsPassInductive, VettedInductive
  <1>2. (ProbedInv /\ PlannedInv /\ SuiteInv)'
    BY ProbedInductive, PlannedInductive, SuiteInductive
  <1>3. DoneIsEarned'
    <2>1. CASE Emit
      BY <2>1, EmitEarns
    <2>2. CASE UNCHANGED vars
      BY <2>2, MetFrame
      DEF vars, productVars, wallVars, testVars, shipVars, DoneIsEarned,
          CoreMet
    <2>3. CASE Next /\ ~Emit /\ ~UNCHANGED vars
      <3>1. node' # "end"
        BY <2>3
        DEF Next, Ingest, SpecBuildable, SpecNotBuildable, MakePlan,
            ScaffoldPreserve, ScaffoldStamp, Iterate, IterateRedFirstFailed,
            IterateMetExisting, IterateGreen, IterateLedgerGap,
            IterateIncident, IterateAbandoned, Record, RecordState, Critic, CriticAccept,
            CriticFix, CriticReauthor, CriticRespec, CriticReplan,
            CriticDescope, Advance, Docs, Cleanroom, Finished
      <3>2. QED
        BY <1>2, <3>1 DEF SuiteInv, DoneIsEarned
    <2>4. QED
      BY <2>1, <2>2, <2>3
  <1>4. QED
    BY <1>1, <1>2, <1>3

\* `done' is a claim about the artifact that ships, and it is true of it.
THEOREM DoneAlwaysEarned == Spec => []DoneIsEarned
  <1>1. Init => DoneInv
    <2> SUFFICES ASSUME Init PROVE DoneInv
      OBVIOUS
    <2>1. TypeInv /\ MetTestsPass /\ VettedInv
      BY InitTypeInv
      DEF Init, MetTestsPass, VettedInv, ShippedIsVetted, Shipping, Met,
          AllPending
    <2>2. ProbedInv /\ PlannedInv /\ SuiteInv /\ DoneIsEarned
      BY DEF Init, ProbedInv, PlannedInv, SuiteInv, DoneIsEarned, Met,
             AllPending
    <2>3. QED
      BY <2>1, <2>2 DEF DoneInv
  <1>2. DoneInv => DoneIsEarned
    BY DEF DoneInv
  <1>3. QED
    BY <1>1, <1>2, DoneInductive, PTL DEF Spec

-----------------------------------------------------------------------------
(* Every descoped criterion is accounted for                                *)

Descoped == {c \in Criterion : crit[c] = "descoped"}

\* The first n iterations have come to an end, one way or the other.
Settled(n) == \A i \in 1 .. n : crit[plan[i]] # "pending"

\* Why DescopeAccounted holds: the loop leaves an iteration settled behind
\* it, and while it is in the loop only the target can be descoped without an
\* entry - P4 marks it before the critic writes one, and a fix or a re-author
\* leaves the mark.  A critic that accepts finds the target met.
AccountInv ==
  /\ node \in {"ingest", "scaffold"} => Descoped = {}
  /\ node = "scaffold" => iteration = 1
  /\ node \in {"iterate", "critic"} =>
       /\ Descoped \subseteq descope_report \cup {Target}
       /\ Settled(iteration - 1)
  /\ node = "critic" =>
       /\ crit[Target] # "pending"
       /\ last_status \in MetStatus => crit[Target] = "met"
  /\ node = "docs" => Descoped \subseteq descope_report /\ Settled(Len(plan))
  /\ DescopeAccounted

LEMMA DescopedAllPending ==
  ASSUME crit' = AllPending
  PROVE  Descoped' = {}
  BY DEF Descoped, AllPending

LEMMA DescopedFrame ==
  ASSUME UNCHANGED crit
  PROVE  Descoped' = Descoped
  BY DEF Descoped

\* With the target settled as well, the critic may go on to the next iteration
\* or, after the last one, to P5.
LEMMA AdvanceAccounts ==
  ASSUME TypeInv, node = "critic", Advance, UNCHANGED plan,
         Descoped' \subseteq descope_report',
         \A i \in 1 .. iteration : crit'[plan[i]] # "pending"
  PROVE  AccountInv'
  <1>1. /\ Len(plan) \in Nat
        /\ iteration \in 1 .. Len(plan)
    BY TargetFacts, PlanFacts
  <1>2. CASE iteration < Len(plan)
    <2>1. node' = "iterate" /\ iteration' - 1 = iteration
      BY <1>1, <1>2 DEF Advance
    <2>2. Settled(iteration - 1)'
      BY <2>1 DEF Settled
    <2>3. QED
      BY <2>1, <2>2 DEF AccountInv, DescopeAccounted, Shipping
  <1>3. CASE ~(iteration < Len(plan))
    <2>1. node' = "docs" /\ iteration = Len(plan)
      BY <1>1, <1>3 DEF Advance
    <2>2. Settled(Len(plan))'
      BY <2>1 DEF Settled
    <2>3. QED
      BY <2>1, <2>2 DEF AccountInv, DescopeAccounted, Shipping
  <1>4. QED
    BY <1>2, <1>3

LEMMA AccountInductive ==
  ASSUME TypeInv, AccountInv, [Next]_vars
  PROVE  AccountInv'
  <1> USE DEF AccountInv, DescopeAccounted, Shipping
  <1>1. CASE Ingest \/ Emit \/ UNCHANGED vars
    <2>1. UNCHANGED <<crit, plan, iteration, last_status, descope_report>>
      BY <1>1 DEF Ingest, Emit, vars, productVars, ladderVars, lastVars,
                  shipVars
    <2>2. Descoped' = Descoped
      BY <2>1, DescopedFrame
    <2>3. \/ node' = "spec" \/ UNCHANGED node
          \/ node' = "emit" /\ node = "ingest"
          \/ node' = "end" /\ node = "emit"
      BY <1>1 DEF Ingest, Emit, vars
    <2>4. QED
      BY <2>1, <2>2, <2>3 DEF Descoped, Target, Settled, Planned
  <1>2. CASE SpecBuildable \/ SpecNotBuildable \/ MakePlan
    <2>1. /\ Descoped' = {}
          /\ node' \in {"plan", "emit"} \/ (node' = "scaffold" /\ iteration' = 1)
      BY <1>2, DescopedAllPending DEF SpecBuildable, SpecNotBuildable, MakePlan
    <2>2. QED
      BY <2>1 DEF Descoped
  <1>3. CASE ScaffoldPreserve \/ ScaffoldStamp
    <2>1. /\ node = "scaffold" /\ node' \in {"iterate", "emit"}
          /\ UNCHANGED <<crit, iteration>>
      BY <1>3 DEF ScaffoldPreserve, ScaffoldStamp, productVars, ladderVars
    <2>2. Descoped' = {}
      BY <2>1, DescopedFrame
    <2>3. Settled(iteration - 1)'
      BY <2>1 DEF Settled
    <2>4. QED
      BY <2>1, <2>2, <2>3 DEF Descoped
  <1>4. CASE Iterate
    <2>1. PICK it_status \in IterStatus, isGreen \in BOOLEAN :
            node = "iterate" /\ Record(it_status, isGreen)
      BY <1>4 DEF Iterate, IterateRedFirstFailed, IterateMetExisting,
         IterateGreen, IterateLedgerGap, IterateIncident, IterateAbandoned,
         IterStatus, MetStatus
    <2>2. /\ Target \in Criterion /\ node' = "critic"
          /\ last_status' = it_status
          /\ UNCHANGED <<plan, iteration, descope_report>>
      BY <2>1, TargetFacts DEF Record, RecordState
    <2>3. \A c \in Criterion :
            crit'[c] = IF c # Target THEN crit[c]
                       ELSE IF it_status \in MetStatus THEN "met"
                       ELSE "descoped"
      BY <2>1, <2>2 DEF Record, RecordState, TypeInv, TypeOK, ProductTypeOK
    <2>4. Descoped' \subseteq Descoped \cup {Target}
      BY <2>3 DEF Descoped
    <2>5. Target' = Target
      BY <2>2 DEF Target
    <2>6. Settled(iteration - 1)'
      <3> SUFFICES ASSUME NEW i \in 1 .. (iteration - 1)
                   PROVE  crit'[plan[i]] # "pending"
        BY <2>2 DEF Settled
      <3>1. plan[i] \in Criterion
        BY <2>1, TargetFacts, PlanFacts
      <3>2. crit[plan[i]] # "pending"
        BY <2>1 DEF Settled
      <3>3. QED
        BY <2>3, <3>1, <3>2
    <2>7. /\ crit'[Target] # "pending"
          /\ it_status \in MetStatus => crit'[Target] = "met"
      BY <2>2, <2>3
    <2>8. QED
      BY <2>1, <2>2, <2>4, <2>5, <2>6, <2>7
  <1>5. CASE CriticAccept
    <2>1. /\ node = "critic" /\ last_status \in MetStatus /\ Advance
          /\ UNCHANGED <<plan, crit, descope_report>>
      BY <1>5 DEF CriticAccept, CriticFrame
    <2>2. Descoped' \subseteq descope_report'
      BY <2>1, DescopedFrame DEF Descoped
    <2>3. \A i \in 1 .. iteration : crit'[plan[i]] # "pending"
      BY <2>1, TargetFacts DEF Settled, Target
    <2>4. QED
      BY <2>1, <2>2, <2>3, AdvanceAccounts
  <1>6. CASE CriticDescope
    <2>1. /\ node = "critic" /\ Advance /\ UNCHANGED plan
          /\ descope_report' = descope_report \cup {Target}
          /\ crit' = [crit EXCEPT ![Target] = "descoped"]
      BY <1>6 DEF CriticDescope, CriticFrame
    <2>2. Descoped' \subseteq descope_report'
      BY <2>1 DEF Descoped, TypeInv, TypeOK, ProductTypeOK
    <2>3. \A i \in 1 .. iteration : crit[plan[i]] # "pending"
      BY <2>1, TargetFacts DEF Settled, Target
    <2>4. \A i \in 1 .. iteration : plan[i] \in Criterion
      BY <2>1, TargetFacts, PlanFacts
    <2>5. \A i \in 1 .. iteration : crit'[plan[i]] # "pending"
      BY <2>1, <2>3, <2>4 DEF TypeInv, TypeOK, ProductTypeOK
    <2>6. QED
      BY <2>1, <2>2, <2>5, AdvanceAccounts
  <1>7. CASE CriticFix \/ CriticReauthor
    <2>1. /\ node = "critic" /\ node' = "iterate"
          /\ UNCHANGED <<plan, crit, iteration, descope_report>>
      BY <1>7 DEF CriticFix, CriticReauthor, CriticFrame
    <2>2. Descoped' = Descoped /\ Target' = Target
      BY <2>1, DescopedFrame DEF Target
    <2>3. QED
      BY <2>1, <2>2 DEF Settled
  <1>8. CASE CriticRespec \/ CriticReplan
    BY <1>8 DEF CriticRespec, CriticReplan
  <1>9. CASE Docs
    <2>1. PICK promoted \in SUBSET Rehabilitable, demoted \in SUBSET Criterion :
            /\ crit' = [c \in Criterion |->
                          IF c \in demoted THEN "descoped"
                          ELSE IF c \in promoted THEN "met" ELSE crit[c]]
            /\ descope_report' = ReportAfter(promoted, demoted)
      BY <1>9 DEF Docs, CreditLost, TypeInv, TypeOK, TestTypeOK
    <2>2. node = "docs" /\ node' = "cleanroom" /\ UNCHANGED plan
      BY <1>9 DEF Docs
    <2>3. Descoped' \subseteq descope_report'
      BY <2>1, <2>2 DEF Descoped, ReportAfter
    <2>4. \A c \in Planned' : crit'[c] # "pending"
      <3> SUFFICES ASSUME NEW i \in 1 .. Len(plan)
                   PROVE  crit'[plan[i]] # "pending"
        BY <2>2, PlanFacts DEF Planned, TypeInv, LoopInPlan
      <3>1. plan[i] \in Criterion /\ crit[plan[i]] # "pending"
        BY <2>2, PlanFacts DEF Settled, TypeInv, LoopInPlan
      <3>2. QED
        BY <2>1, <3>1
    <2>5. QED
      BY <2>2, <2>3, <2>4 DEF Descoped
  <1>10. CASE Cleanroom
    <2>1. node = "cleanroom" /\ node' = "emit" /\ UNCHANGED <<crit, descope_report>>
      BY <1>10 DEF Cleanroom, productVars
    <2>2. QED
      BY <2>1
  <1>11. QED
    BY <1>1, <1>2, <1>3, <1>4, <1>5, <1>6, <1>7, <1>8, <1>9, <1>10
    DEF Next, Critic, Finished

\* The gap list is honest: what ships has no planned criterion pending, and
\* each descoped one has an entry in the report that is not resolved.
THEOREM DescopesAlwaysAccounted == Spec => []DescopeAccounted
  <1>1. Init => AccountInv
    BY DEF Init, AccountInv, DescopeAccounted, Shipping, Descoped, AllPending
  <1>2. TypeInv /\ AccountInv /\ [Next]_vars => AccountInv'
    BY AccountInductive
  <1>3. AccountInv => DescopeAccounted
    BY DEF AccountInv
  <1>4. QED
    BY <1>1, <1>2, <1>3, TypeInvariance, PTL DEF Spec
=============================================================================

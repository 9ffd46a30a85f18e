--------------------------- MODULE CoderLoop_proofs ---------------------------
(***************************************************************************)
(* For every set of files and signatures, every number of attempts and     *)
(* every budget: what P4 commits is sound, an incident is never met, a     *)
(* failed iteration is rolled back, and no cap is passed.                  *)
(***************************************************************************)
EXTENDS CoderLoop, TLAPS

\* What a tree must be to be committed.
Sound(t) == \A f \in File : t[f] \in {"stub", "code"}

\* Between an applied answer and the verdict the tree has passed the gates.
GatesInv ==
  /\ pc = "verify" => Intact(tree)
  /\ pc \in {"research", "author", "probe", "ask", "verify"} => ~passed
  /\ pc \in {"research", "author", "probe"} => ~incident
  /\ pc = "judge" /\ passed => Sound(tree)

\* The trail of signatures is shorter than the attempts made.
TrailInv ==
  pc \in {"ask", "verify"} =>
    /\ attempt <= MaxAttempts /\ Len(sigs) < attempt
    /\ failure # "none" => Len(sigs) + 1 < attempt

\* The calls an iteration has made, by the step it is at.
CallsInv ==
  /\ pc = "research" => iter_calls = 0 /\ attempt = 1
  /\ pc = "author"  => iter_calls <= attempt /\ attempt <= 3
  /\ pc = "probe"   => iter_calls <= 4 /\ attempt = 1
  /\ pc \in {"research", "probe", "author"} => sigs = <<>> /\ failure = "none"
  /\ pc = "ask"     => iter_calls < 4 + attempt
  /\ pc = "verify"  => iter_calls <= 4 + attempt
  /\ pc \in {"judge", "reflect"} => iter_calls <= 4 + MaxAttempts
  /\ pc = "critic"  => iter_calls <= 5 + MaxAttempts

\* A salvaged run that was at the critic takes the critic up again.
DownInv ==
  /\ pc # "down" => resume_at = "start"
  /\ pc = "down" /\ resume_at = "critic" =>
       tree = head /\ (incident => outcome \notin Met)

IInv == /\ TypeOK /\ HeadIsSound /\ IncidentIsNotMet /\ UnmetIsRolledBack
        /\ BudgetHolds /\ GatesInv /\ TrailInv /\ CallsInv
        /\ DownInv

-----------------------------------------------------------------------------
(* Lemmas on the helpers                                                    *)

\* The budgets of a run are numbers.
LEMMA CapsAreNumbers == caps \in Caps => caps.run \in Nat /\ caps.iter \in Nat
  BY CoderAssumption

\* Once more within a cap keeps within it.
LEMMA CallWithin ==
  ASSUME TypeOK, BudgetHolds, Call
  PROVE  /\ iter_calls' = iter_calls + 1
         /\ run_calls' \in Nat /\ iter_calls' \in Nat /\ caps' = caps
         /\ caps'.run # 0 => run_calls' <= caps'.run
         /\ caps'.iter # 0 => iter_calls' <= caps'.iter
  <1>1. caps.run \in Nat /\ caps.iter \in Nat
    BY CapsAreNumbers DEF TypeOK
  <1> QED BY <1>1 DEF TypeOK, BudgetHolds, Call, Within

\* A failed attempt keeps the trail shorter than the attempts, and leads to
\* another one or to the verdict.
LEMMA FailedTrail ==
  ASSUME TypeOK, TrailInv, pc \in {"ask", "verify"}, NEW f \in Failure,
         Failed(f)
  PROVE  /\ failure' = f
         /\ sigs' \in Seq(Failure) /\ Len(sigs') < MaxAttempts
         /\ \/ /\ pc' = "ask" /\ attempt' = attempt + 1
               /\ attempt' <= MaxAttempts /\ Len(sigs') + 1 < attempt'
            \/ pc' = "judge" /\ attempt' = attempt
  <1>1. attempt \in Nat /\ Len(sigs) \in Nat /\ MaxAttempts \in Nat
    BY CoderAssumption DEF TypeOK
  <1>2. /\ sigs' \in Seq(Failure)
        /\ \/ failure = "none" /\ Len(sigs') = Len(sigs)
           \/ failure # "none" /\ Len(sigs') = Len(sigs) + 1
    BY DEF TypeOK, Failed
  <1>3. failure' = f /\ Attempted(f)
    BY DEF Failed
  <1> QED BY <1>1, <1>2, <1>3 DEF TrailInv, Attempted

-----------------------------------------------------------------------------
(* The invariant                                                            *)

LEMMA InitIInv == Init => IInv
  <1> SUFFICES ASSUME Init PROVE IInv
    OBVIOUS
  <1>1. <<>> \in Seq(Failure) /\ Len(<<>>) = 0 /\ Len(<<>>) < MaxAttempts
    BY CoderAssumption
  <1>2. TypeOK
    <2>1. sigs \in Seq(Failure) /\ Len(sigs) < MaxAttempts
      BY <1>1 DEF Init
    <2>2. head \in Tree /\ tree \in Tree
      BY DEF Init, Tree, Text
    <2>3. passed \in BOOLEAN /\ incident \in BOOLEAN /\ stuck \in BOOLEAN
      BY DEF Init
    <2>4. /\ attempt \in (1 .. 3) \cup (1 .. MaxAttempts)
          /\ failure \in Failure \cup {"none"} /\ outcome \in Outcome
      BY DEF Init, Outcome
    <2>5. /\ caps \in Caps /\ run_calls \in Nat /\ iter_calls \in Nat
          /\ visits \in Nat /\ runs \in Nat
      BY DEF Init
    <2>6. pc = "start" /\ resume_at = "start"
      BY DEF Init
    <2> QED
      BY <2>1, <2>2, <2>3, <2>4, <2>5, <2>6 DEF TypeOK
  <1>3. HeadIsSound
    BY DEF Init, HeadIsSound
  <1>4. BudgetHolds
    BY CoderAssumption, CapsAreNumbers DEF Init, BudgetHolds
  <1> QED
    BY <1>2, <1>3, <1>4
    DEF Init, IInv, IncidentIsNotMet, UnmetIsRolledBack, GatesInv, TrailInv,
        CallsInv, DownInv, Closed

LEMMA NextIInv == IInv /\ [Next]_vars => IInv'
  <1> SUFFICES ASSUME IInv, [Next]_vars PROVE IInv'
    OBVIOUS
  <1> USE CoderAssumption
  <1>0. /\ TypeOK /\ HeadIsSound /\ IncidentIsNotMet /\ UnmetIsRolledBack
        /\ BudgetHolds /\ GatesInv /\ TrailInv /\ CallsInv /\ DownInv
    BY DEF IInv
  <1>1. CASE Start
    <2>1. <<>> \in Seq(Failure) /\ Len(<<>>) = 0 /\ Len(<<>>) < MaxAttempts
      OBVIOUS
    <2>2. TypeOK'
      <3>1. sigs' \in Seq(Failure) /\ Len(sigs') < MaxAttempts
        BY <1>1, <2>1 DEF Start
      <3>2. /\ passed' \in BOOLEAN /\ incident' \in BOOLEAN
            /\ stuck' \in BOOLEAN
        BY <1>1 DEF Start
      <3>3. /\ attempt' \in (1 .. 3) \cup (1 .. MaxAttempts)
            /\ failure' \in Failure \cup {"none"} /\ outcome' \in Outcome
        BY <1>1 DEF Start, Outcome
      <3>4. /\ caps' \in Caps /\ run_calls' \in Nat /\ iter_calls' \in Nat
            /\ visits' \in Nat /\ runs' \in Nat
        BY <1>0, <1>1 DEF TypeOK, Start, bounds
      <3> QED
        BY <1>0, <1>1, <3>1, <3>2, <3>3, <3>4 DEF TypeOK, Start
    <2>3. BudgetHolds'
      BY <1>0, <1>1, CapsAreNumbers DEF TypeOK, BudgetHolds, Start
    <2> QED
      BY <1>0, <1>1, <2>2, <2>3
      DEF IInv, HeadIsSound, IncidentIsNotMet, UnmetIsRolledBack, GatesInv,
          TrailInv, CallsInv, DownInv, Closed, Start
  <1>2. CASE Author
    <2>1. /\ iter_calls' = iter_calls + 1
          /\ run_calls' \in Nat /\ iter_calls' \in Nat /\ caps' = caps
          /\ BudgetHolds'
      <3>1. TypeOK /\ BudgetHolds /\ Call
        BY <1>0, <1>2 DEF Author
      <3>2. iter_calls <= MaxAttempts + 5
        BY <1>0, <1>2 DEF TypeOK, Author, CallsInv, TrailInv
      <3> QED
        BY <3>1, <3>2, CallWithin DEF TypeOK, BudgetHolds
    <2>3. TypeOK'
      BY <1>0, <1>2, <2>1 DEF TypeOK, Author, endVars, bounds
    <2>5. HeadIsSound' /\ IncidentIsNotMet' /\ UnmetIsRolledBack'
      BY <1>0, <1>2, <2>1
      DEF HeadIsSound, IncidentIsNotMet, UnmetIsRolledBack, GatesInv, Closed,
          Author, endVars, bounds
    <2>6. GatesInv' /\ DownInv'
      BY <1>0, <1>2, <2>1 DEF GatesInv, DownInv, Author, endVars, bounds
    <2>7. TrailInv' /\ CallsInv'
      BY <1>0, <1>2, <2>1 DEF TypeOK, TrailInv, CallsInv, Author, endVars, bounds
    <2> QED
      BY <2>1, <2>3, <2>5, <2>6, <2>7 DEF IInv
  <1>r. CASE Research
    <2>1. /\ iter_calls' = iter_calls + 1
          /\ run_calls' \in Nat /\ iter_calls' \in Nat /\ caps' = caps
          /\ BudgetHolds'
      <3>1. TypeOK /\ BudgetHolds /\ Call
        BY <1>0, <1>r DEF Research
      <3>2. iter_calls <= MaxAttempts + 5
        BY <1>0, <1>r DEF TypeOK, Research, CallsInv, TrailInv
      <3> QED
        BY <3>1, <3>2, CallWithin DEF TypeOK, BudgetHolds
    <2>3. TypeOK'
      BY <1>0, <1>r, <2>1 DEF TypeOK, Research, loopVars, endVars, bounds
    <2>5. HeadIsSound' /\ IncidentIsNotMet' /\ UnmetIsRolledBack'
      BY <1>0, <1>r, <2>1
      DEF HeadIsSound, IncidentIsNotMet, UnmetIsRolledBack, GatesInv, Closed,
          Research, loopVars, endVars, bounds
    <2>6. GatesInv' /\ DownInv'
      BY <1>0, <1>r, <2>1 DEF GatesInv, DownInv, Research, loopVars, endVars, bounds
    <2>7. TrailInv' /\ CallsInv'
      BY <1>0, <1>r, <2>1 DEF TypeOK, TrailInv, CallsInv, Research, loopVars, endVars, bounds
    <2> QED
      BY <2>1, <2>3, <2>5, <2>6, <2>7 DEF IInv
  <1>3. CASE Probe
    <2>1. tree' \in Tree /\ head' = head
      BY <1>0, <1>3 DEF TypeOK, Probe, Close, RolledBack, Met
    <2>2. Len(<<>>) = 0
      OBVIOUS
    <2>3. /\ pc' \in {"ask", "reflect", "critic"}
          /\ incident' \in BOOLEAN /\ outcome' \in Outcome
          /\ pc' \in {"reflect", "critic"} =>
               /\ incident' => outcome' \notin Met
               /\ outcome' \notin Met => tree' = head'
      <3>0. ~incident
        BY <1>0, <1>3 DEF GatesInv, Probe
      <3>1. CASE pc' = "ask" /\ UNCHANGED <<head, tree, endVars, incident>>
        <4>1. incident' = incident /\ outcome' = outcome
          BY <3>1 DEF endVars
        <4>2. incident \in BOOLEAN /\ outcome \in Outcome
          BY <1>0 DEF TypeOK
        <4>3. incident' \in BOOLEAN /\ outcome' \in Outcome
          BY <4>1, <4>2, Zenon
        <4>4. pc' = "ask"
          BY <3>1
        <4> QED BY <4>3, <4>4
      <3>2. CASE /\ pc' = "reflect" /\ Close("red-first-failed")
                 /\ incident' = TRUE
        BY <3>2 DEF Close, RolledBack, Met, Outcome
      <3>3. CASE /\ Closing("met-existing") /\ Close("met-existing")
                 /\ UNCHANGED incident
        <4>1. incident' = incident /\ outcome' = "met-existing"
          BY <3>3 DEF Close
        <4>2. incident' \in BOOLEAN /\ ~incident'
          BY <1>0, <3>0, <4>1, Zenon DEF TypeOK
        <4>3. outcome' \in Met /\ outcome' \in Outcome
          BY <4>1 DEF Met, Outcome
        <4>4. pc' \in {"reflect", "critic"}
          BY <3>3 DEF Closing
        <4> QED BY <4>2, <4>3, <4>4
      <3> QED BY <1>3, <3>1, <3>2, <3>3 DEF Probe
    <2>4. TypeOK'
      <3>1. passed' \in BOOLEAN /\ stuck' \in BOOLEAN
        BY <1>0, <1>3 DEF TypeOK, Probe, endVars
      <3>2. head' \in Tree
        BY <1>0, <2>1 DEF TypeOK
      <3>3. UNCHANGED <<resume_at, attempt, failure, sigs, caps, run_calls,
                        iter_calls, visits, runs>>
        BY <1>3 DEF Probe, meterVars, bounds
      <3> QED
        BY <1>0, <2>1, <2>3, <3>1, <3>2, <3>3 DEF TypeOK
    <2>5. BudgetHolds'
      BY <1>0, <1>3 DEF BudgetHolds, Probe, meterVars
    <2> QED
      BY <1>0, <1>3, <2>1, <2>2, <2>3, <2>4, <2>5
      DEF IInv, TypeOK, HeadIsSound, IncidentIsNotMet, UnmetIsRolledBack,
          GatesInv, TrailInv, CallsInv, DownInv, Closed, Probe, meterVars
  <1>4. CASE AskRefused
    <2>1. /\ iter_calls' = iter_calls + 1
          /\ run_calls' \in Nat /\ iter_calls' \in Nat /\ caps' = caps
          /\ BudgetHolds'
      <3>1. TypeOK /\ BudgetHolds /\ Call
        BY <1>0, <1>4 DEF AskRefused
      <3>2. iter_calls <= MaxAttempts + 5
        BY <1>0, <1>4 DEF TypeOK, AskRefused, CallsInv, TrailInv
      <3> QED
        BY <3>1, <3>2, CallWithin DEF TypeOK, BudgetHolds
    <2>2. /\ failure' = "refused" /\ failure' \in Failure
          /\ sigs' \in Seq(Failure) /\ Len(sigs') < MaxAttempts
          /\ \/ /\ pc' = "ask" /\ attempt' = attempt + 1
                /\ attempt' <= MaxAttempts /\ Len(sigs') + 1 < attempt'
             \/ pc' = "judge" /\ attempt' = attempt
      <3>1. "refused" \in Failure
        BY DEF Failure
      <3>2. Failed("refused") /\ pc \in {"ask", "verify"}
        BY <1>4 DEF AskRefused
      <3> QED
        BY <1>0, <3>1, <3>2, FailedTrail
    <2>3. TypeOK'
      BY <1>0, <1>4, <2>1, <2>2 DEF TypeOK, AskRefused, endVars, bounds
    <2>5. HeadIsSound' /\ IncidentIsNotMet' /\ UnmetIsRolledBack'
      BY <1>0, <1>4, <2>1, <2>2
      DEF HeadIsSound, IncidentIsNotMet, UnmetIsRolledBack, GatesInv, Closed,
          AskRefused, endVars, bounds
    <2>6. GatesInv' /\ DownInv'
      BY <1>0, <1>4, <2>1, <2>2 DEF GatesInv, DownInv, AskRefused, endVars, bounds
    <2>7. TrailInv' /\ CallsInv'
      BY <1>0, <1>4, <2>1, <2>2 DEF TypeOK, TrailInv, CallsInv, AskRefused, endVars, bounds
    <2> QED
      BY <2>1, <2>3, <2>5, <2>6, <2>7 DEF IInv
  <1>5. CASE AskReverted
    <2>1. /\ iter_calls' = iter_calls + 1
          /\ run_calls' \in Nat /\ iter_calls' \in Nat /\ caps' = caps
          /\ BudgetHolds'
      <3>1. TypeOK /\ BudgetHolds /\ Call
        BY <1>0, <1>5 DEF AskReverted
      <3>2. iter_calls <= MaxAttempts + 5
        BY <1>0, <1>5 DEF TypeOK, AskReverted, CallsInv, TrailInv
      <3> QED
        BY <3>1, <3>2, CallWithin DEF TypeOK, BudgetHolds
    <2>2. /\ failure' = "gate" /\ failure' \in Failure
          /\ sigs' \in Seq(Failure) /\ Len(sigs') < MaxAttempts
          /\ \/ /\ pc' = "ask" /\ attempt' = attempt + 1
                /\ attempt' <= MaxAttempts /\ Len(sigs') + 1 < attempt'
             \/ pc' = "judge" /\ attempt' = attempt
      <3>1. "gate" \in Failure
        BY DEF Failure
      <3>2. Failed("gate") /\ pc \in {"ask", "verify"}
        BY <1>5 DEF AskReverted
      <3> QED
        BY <1>0, <3>1, <3>2, FailedTrail
    <2>3. TypeOK'
      BY <1>0, <1>5, <2>1, <2>2 DEF TypeOK, AskReverted, endVars, bounds
    <2>5. HeadIsSound' /\ IncidentIsNotMet' /\ UnmetIsRolledBack'
      BY <1>0, <1>5, <2>1, <2>2
      DEF HeadIsSound, IncidentIsNotMet, UnmetIsRolledBack, GatesInv, Closed,
          AskReverted, endVars, bounds
    <2>6. GatesInv' /\ DownInv'
      BY <1>0, <1>5, <2>1, <2>2 DEF GatesInv, DownInv, AskReverted, endVars, bounds
    <2>7. TrailInv' /\ CallsInv'
      BY <1>0, <1>5, <2>1, <2>2 DEF TypeOK, TrailInv, CallsInv, AskReverted, endVars, bounds
    <2> QED
      BY <2>1, <2>3, <2>5, <2>6, <2>7 DEF IInv
  <1>6. CASE AskApplied
    <2>1. /\ iter_calls' = iter_calls + 1
          /\ run_calls' \in Nat /\ iter_calls' \in Nat /\ caps' = caps
          /\ BudgetHolds'
      <3>1. TypeOK /\ BudgetHolds /\ Call
        BY <1>0, <1>6 DEF AskApplied
      <3>2. iter_calls <= MaxAttempts + 5
        BY <1>0, <1>6 DEF TypeOK, AskApplied, CallsInv, TrailInv
      <3> QED
        BY <3>1, <3>2, CallWithin DEF TypeOK, BudgetHolds
    <2>3. TypeOK'
      BY <1>0, <1>6, <2>1 DEF TypeOK, AskApplied, loopVars, endVars, bounds
    <2>5. HeadIsSound' /\ IncidentIsNotMet' /\ UnmetIsRolledBack'
      BY <1>0, <1>6, <2>1
      DEF HeadIsSound, IncidentIsNotMet, UnmetIsRolledBack, GatesInv, Closed,
          AskApplied, loopVars, endVars, bounds
    <2>6. GatesInv' /\ DownInv'
      BY <1>0, <1>6, <2>1 DEF GatesInv, DownInv, AskApplied, loopVars, endVars, bounds, Intact
    <2>7. TrailInv' /\ CallsInv'
      BY <1>0, <1>6, <2>1 DEF TypeOK, TrailInv, CallsInv, AskApplied, loopVars, endVars, bounds
    <2> QED
      BY <2>1, <2>3, <2>5, <2>6, <2>7 DEF IInv
  <1>7. CASE AskErrs
    <2>1. /\ iter_calls' = iter_calls + 1
          /\ run_calls' \in Nat /\ iter_calls' \in Nat /\ caps' = caps
          /\ BudgetHolds'
      <3>1. TypeOK /\ BudgetHolds /\ Call
        BY <1>0, <1>7 DEF AskErrs
      <3>2. iter_calls <= MaxAttempts + 5
        BY <1>0, <1>7 DEF TypeOK, AskErrs, CallsInv, TrailInv
      <3> QED
        BY <3>1, <3>2, CallWithin DEF TypeOK, BudgetHolds
    <2>3. TypeOK'
      BY <1>0, <1>7, <2>1 DEF TypeOK, AskErrs, loopVars, endVars, bounds
    <2>5. HeadIsSound' /\ IncidentIsNotMet' /\ UnmetIsRolledBack'
      BY <1>0, <1>7, <2>1
      DEF HeadIsSound, IncidentIsNotMet, UnmetIsRolledBack, GatesInv, Closed,
          AskErrs, loopVars, endVars, bounds
    <2>6. GatesInv' /\ DownInv'
      BY <1>0, <1>7, <2>1 DEF GatesInv, DownInv, AskErrs, loopVars, endVars, bounds
    <2>7. TrailInv' /\ CallsInv'
      BY <1>0, <1>7, <2>1 DEF TypeOK, TrailInv, CallsInv, AskErrs, loopVars, endVars, bounds
    <2> QED
      BY <2>1, <2>3, <2>5, <2>6, <2>7 DEF IInv
  <1>8. CASE VerifyFlagged
    <2>2. /\ failure' = "integrity" /\ failure' \in Failure
          /\ sigs' \in Seq(Failure) /\ Len(sigs') < MaxAttempts
          /\ \/ /\ pc' = "ask" /\ attempt' = attempt + 1
                /\ attempt' <= MaxAttempts /\ Len(sigs') + 1 < attempt'
             \/ pc' = "judge" /\ attempt' = attempt
      <3>1. "integrity" \in Failure
        BY DEF Failure
      <3>2. Failed("integrity") /\ pc \in {"ask", "verify"}
        BY <1>8 DEF VerifyFlagged
      <3> QED
        BY <1>0, <3>1, <3>2, FailedTrail
    <2>3. TypeOK'
      BY <1>0, <1>8, <2>2 DEF TypeOK, VerifyFlagged, endVars, meterVars, bounds
    <2>4. BudgetHolds'
      BY <1>0, <1>8, <2>2 DEF BudgetHolds, VerifyFlagged, endVars, meterVars, bounds
    <2>5. HeadIsSound' /\ IncidentIsNotMet' /\ UnmetIsRolledBack'
      BY <1>0, <1>8, <2>2
      DEF HeadIsSound, IncidentIsNotMet, UnmetIsRolledBack, GatesInv, Closed,
          VerifyFlagged, endVars, meterVars, bounds
    <2>6. GatesInv' /\ DownInv'
      BY <1>0, <1>8, <2>2 DEF GatesInv, DownInv, VerifyFlagged, endVars, meterVars, bounds
    <2>7. TrailInv' /\ CallsInv'
      BY <1>0, <1>8, <2>2 DEF TypeOK, TrailInv, CallsInv, VerifyFlagged, endVars, meterVars, bounds
    <2> QED
      BY <2>4, <2>3, <2>5, <2>6, <2>7 DEF IInv
  <1>9. CASE VerifyRed
    <2> PICK r \in Red : Failed(r)
      BY <1>9 DEF VerifyRed
    <2>1. r \in Failure
      BY DEF Failure
    <2>2. /\ failure' = r
          /\ sigs' \in Seq(Failure) /\ Len(sigs') < MaxAttempts
          /\ \/ /\ pc' = "ask" /\ attempt' = attempt + 1
                /\ attempt' <= MaxAttempts /\ Len(sigs') + 1 < attempt'
             \/ pc' = "judge" /\ attempt' = attempt
      BY <1>0, <1>9, <2>1, FailedTrail DEF VerifyRed
    <2> QED
      BY <1>0, <1>9, <2>1, <2>2
      DEF IInv, TypeOK, HeadIsSound, IncidentIsNotMet, UnmetIsRolledBack,
          BudgetHolds, GatesInv, TrailInv, CallsInv, DownInv, Closed, VerifyRed,
          endVars, meterVars, bounds
  <1>10. CASE VerifyGreen
    <2>1. Sound(tree)
      BY <1>0, <1>10
      DEF TypeOK, GatesInv, VerifyGreen, Flagged, Intact, Sound, Tree, Text,
          HeadIsSound
    <2> QED
      BY <1>0, <1>10, <2>1
      DEF IInv, TypeOK, HeadIsSound, IncidentIsNotMet, UnmetIsRolledBack,
          BudgetHolds, GatesInv, TrailInv, CallsInv, DownInv, Closed, VerifyGreen,
          endVars, meterVars, bounds, Sound
  <1>11. CASE Judge
    <2> PICK v \in Verdict :
           /\ Close(v)
           /\ stuck' = (v = "abandoned" /\ Repeats(sigs))
           /\ incident' = (incident \/ v = "incident")
           /\ pc' \in {"reflect", "critic"}
      BY <1>11 DEF Judge, Closing
    <2>1. v \in Outcome \ {"none"} /\ (v = "green" => passed /\ ~incident)
      BY DEF Verdict, Outcome, Met
    <2>2. /\ tree' \in Tree /\ head' \in Tree /\ HeadIsSound'
          /\ outcome' = v /\ (v \notin Met => tree' = head')
      <3>1. CASE v = "green"
        BY <1>0, <1>11, <2>1, <3>1
        DEF TypeOK, GatesInv, Judge, Close, RolledBack, Met, HeadIsSound, Sound
      <3>2. CASE v # "green"
        BY <1>0, <2>1, <3>2
        DEF TypeOK, Close, RolledBack, Met, HeadIsSound
      <3> QED BY <3>1, <3>2
    <2>3. v = "met-existing" => FALSE
      BY DEF Verdict
    <2> QED
      BY <1>0, <1>11, <2>1, <2>2, <2>3
      DEF IInv, TypeOK, IncidentIsNotMet, UnmetIsRolledBack, BudgetHolds,
          GatesInv, TrailInv, CallsInv, DownInv, Closed, Judge, Met, Outcome, meterVars,
          bounds
  <1>12. CASE Reflect
    <2>1. /\ iter_calls' = iter_calls + 1
          /\ run_calls' \in Nat /\ iter_calls' \in Nat /\ caps' = caps
          /\ BudgetHolds'
      <3>1. TypeOK /\ BudgetHolds /\ Call
        BY <1>0, <1>12 DEF Reflect
      <3>2. iter_calls <= MaxAttempts + 5
        BY <1>0, <1>12 DEF TypeOK, Reflect, CallsInv, TrailInv
      <3> QED
        BY <3>1, <3>2, CallWithin DEF TypeOK, BudgetHolds
    <2>3. TypeOK'
      BY <1>0, <1>12, <2>1 DEF TypeOK, Reflect, loopVars, endVars, bounds
    <2>5. HeadIsSound' /\ IncidentIsNotMet' /\ UnmetIsRolledBack'
      BY <1>0, <1>12, <2>1
      DEF HeadIsSound, IncidentIsNotMet, UnmetIsRolledBack, GatesInv, Closed,
          Reflect, loopVars, endVars, bounds
    <2>6. GatesInv' /\ DownInv'
      BY <1>0, <1>12, <2>1 DEF GatesInv, DownInv, Reflect, loopVars, endVars, bounds
    <2>7. TrailInv' /\ CallsInv'
      BY <1>0, <1>12, <2>1 DEF TypeOK, TrailInv, CallsInv, Reflect, loopVars, endVars, bounds
    <2> QED
      BY <2>1, <2>3, <2>5, <2>6, <2>7 DEF IInv
  <1>13. CASE Critic
    BY <1>0, <1>13, CallWithin
    DEF IInv, TypeOK, HeadIsSound, IncidentIsNotMet, UnmetIsRolledBack,
        BudgetHolds, GatesInv, TrailInv, CallsInv, DownInv, Closed, Critic, loopVars,
        endVars, bounds, meterVars
  <1>14. CASE Overrun
    BY <1>0, <1>14
    DEF IInv, TypeOK, HeadIsSound, IncidentIsNotMet, UnmetIsRolledBack,
        BudgetHolds, GatesInv, TrailInv, CallsInv, DownInv, Closed, Overrun, loopVars,
        endVars, bounds, meterVars
  <1>15. CASE Raised
    BY <1>0, <1>15
    DEF IInv, TypeOK, HeadIsSound, IncidentIsNotMet, UnmetIsRolledBack,
        BudgetHolds, GatesInv, TrailInv, CallsInv, DownInv, Closed, Raised, loopVars,
        endVars, bounds, meterVars
  <1>16. CASE NextVisit
    BY <1>0, <1>16
    DEF IInv, TypeOK, HeadIsSound, IncidentIsNotMet, UnmetIsRolledBack,
        BudgetHolds, GatesInv, TrailInv, CallsInv, DownInv, Closed, NextVisit, loopVars,
        endVars, meterVars
  <1>17. CASE Resume
    BY <1>0, <1>17, CapsAreNumbers
    DEF IInv, TypeOK, HeadIsSound, IncidentIsNotMet, UnmetIsRolledBack,
        BudgetHolds, GatesInv, TrailInv, CallsInv, DownInv, Closed, Resume, loopVars,
        endVars
  <1>18. CASE UNCHANGED vars
    BY <1>0, <1>18
    DEF IInv, TypeOK, HeadIsSound, IncidentIsNotMet, UnmetIsRolledBack,
        BudgetHolds, GatesInv, TrailInv, CallsInv, DownInv, Closed, vars, loopVars,
        endVars, meterVars, bounds, Intact, Sound
  <1> QED
    BY <1>1, <1>2, <1>r, <1>3, <1>4, <1>5, <1>6, <1>7, <1>8, <1>9, <1>10,
       <1>11, <1>12, <1>13, <1>14, <1>15, <1>16, <1>17, <1>18
    DEF Next, Work

\* All of it, and what the parts need of one another, is inductive.
THEOREM Invariant == Spec => []IInv
  <1>1. Init => IInv BY InitIInv
  <1>2. IInv /\ [Next]_vars => IInv' BY NextIInv
  <1> QED BY <1>1, <1>2, PTL DEF Spec

\* Every reachable state is well typed: no attempt beyond the last, and a
\* trail of signatures shorter than the attempts.
THEOREM TypeCorrect == Spec => []TypeOK
  <1>1. IInv => TypeOK BY DEF IInv
  <1> QED BY <1>1, Invariant, PTL

\* P4 never commits a file that is broken or flagged, with any number of
\* editable files, and whatever refused answers and ended runs left behind.
THEOREM CommitsAreSound == Spec => []HeadIsSound
  <1>1. IInv => HeadIsSound BY DEF IInv
  <1> QED BY <1>1, Invariant, PTL

\* An iteration in which an edit was flagged is not met.
THEOREM IncidentsAreNotMet == Spec => []IncidentIsNotMet
  <1>1. IInv => IncidentIsNotMet BY DEF IInv
  <1> QED BY <1>1, Invariant, PTL

\* An iteration that is not met leaves the workspace at the last commit.
THEOREM UnmetAreRolledBack == Spec => []UnmetIsRolledBack
  <1>1. IInv => UnmetIsRolledBack BY DEF IInv
  <1> QED BY <1>1, Invariant, PTL

\* No cap is passed, and the calls of one iteration are bounded without one.
THEOREM CallsAreBounded == Spec => []BudgetHolds
  <1>1. IInv => BudgetHolds BY DEF IInv
  <1> QED BY <1>1, Invariant, PTL
=============================================================================

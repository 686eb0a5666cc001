-------------------------- MODULE ScoringSagaProofs --------------------------
(***************************************************************************)
(* Theorems about ScoringSaga, for any number of calls, contexts, faults   *)
(* and edits, overlapping or not.                                          *)
(***************************************************************************)
EXTENDS ScoringSaga, TLAPS

\* Each statement keeps every row in its table's type and each call at a place
\* in its code.
LEMMA TypeInductive == TypeOK /\ [Next]_sagaVars => TypeOK'
<1> USE ScoringAssumption
<1> SUFFICES ASSUME TypeOK, [Next]_sagaVars
             PROVE  TypeOK'
  OBVIOUS
<1> USE DEF TypeOK, Statuses, TrySteps, OtherSteps, Ended, Proceed, Applied,
            Goto, Handler, db, locals
<1>1. ASSUME NEW r \in Runs, ReadStatus(r) PROVE TypeOK'
  BY <1>1 DEF ReadStatus, FirstStep
<1>2. ASSUME NEW r \in Runs, ReadProfileId(r) PROVE TypeOK'
  BY <1>2 DEF ReadProfileId
<1>3. ASSUME NEW r \in Runs, LoadResponses(r) PROVE TypeOK'
  BY <1>3 DEF LoadResponses
<1>4. ASSUME NEW r \in Runs, PersistScores(r) PROVE TypeOK'
  <2>1. status' \in Statuses /\ scores' \subseteq ScoreRow
    <3>1. [of |-> mine[r], blocked |-> FALSE] \in ScoreRow
      BY DEF ScoreRow
    <3>2. scores' = scores
          \/ scores' = {[of |-> mine[r], blocked |-> FALSE]}
      BY <1>4 DEF PersistScores
    <3>3. scores' \subseteq ScoreRow
      BY <3>1, <3>2
    <3>4. status' \in Statuses
      BY <1>4 DEF PersistScores, UpdateStatus
    <3>5. QED
      BY <3>3, <3>4
  <2>2. pc' \in [Runs -> {"idle"} \cup TrySteps \cup OtherSteps \cup Ended]
        /\ faults' \in 0..MaxFaults
    BY <1>4 DEF PersistScores
  <2>3. QED
    BY <1>4, <2>1, <2>2 DEF PersistScores
<1>5. ASSUME NEW r \in Runs, BlockScores(r) PROVE TypeOK'
  <2>1. ASSUME NEW s \in scores
        PROVE  [s EXCEPT !.blocked = TRUE] \in ScoreRow
    BY DEF ScoreRow
  <2>2. scores' \subseteq ScoreRow
    BY <1>5, <2>1 DEF BlockScores
  <2>3. status' \in Statuses /\ audit' \subseteq AuditRow
    BY <1>5 DEF BlockScores, UpdateStatus, AuditRow
  <2>4. QED
    BY <1>5, <2>2, <2>3 DEF BlockScores
<1>6. ASSUME NEW r \in Runs, ReadScores(r) PROVE TypeOK'
  BY <1>6 DEF ReadScores, ScoreRow
<1>7. ASSUME NEW r \in Runs, UpsertProfile(r) PROVE TypeOK'
  BY SMTT(20), <1>7 DEF UpsertProfile, UpsertedId, ProfileRow
<1>8. ASSUME NEW r \in Runs, MarkProfiled(r) PROVE TypeOK'
  BY <1>8 DEF MarkProfiled, UpdateStatus, ProfiledFrom
<1>9. ASSUME NEW r \in Runs, ReadProfile(r) PROVE TypeOK'
  BY <1>9 DEF ReadProfile
<1>10. ASSUME NEW r \in Runs, UpsertInsight(r) PROVE TypeOK'
  BY <1>10 DEF UpsertInsight, LastContext, Contexts, InsightRow, ProfileRow
<1>11. ASSUME NEW r \in Runs, Finish(r) PROVE TypeOK'
  BY <1>11 DEF Finish, UpdateStatus
<1>12. ASSUME NEW r \in Runs, Compensate(r) PROVE TypeOK'
  BY <1>12 DEF Compensate, UpdateStatus, CompensatedFrom
<1>13. ASSUME NEW r \in Runs, AuditCompensation(r) PROVE TypeOK'
  BY <1>13 DEF AuditCompensation, AuditRow
<1>14. ASSUME NEW r \in Runs, D1Error(r) PROVE TypeOK'
  BY <1>14 DEF D1Error
<1>15. ASSUME NEW r \in Runs, Kill(r) PROVE TypeOK'
  BY <1>15 DEF Kill
<1>16. CASE ResetFailed
  BY <1>16 DEF ResetFailed
<1>17. CASE ReviseAnswers
  BY <1>17 DEF ReviseAnswers
<1>18. CASE UNCHANGED sagaVars
  BY <1>18 DEF sagaVars
<1>19. QED
  BY <1>1, <1>2, <1>3, <1>4, <1>5, <1>6, <1>7, <1>8, <1>9, <1>10, <1>11,
     <1>12, <1>13, <1>14, <1>15, <1>16, <1>17, <1>18
     DEF Next, Step, Terminated

\* Every state of the saga is well typed: each statement keeps every row in
\* its table's type and each call at a place in its code.
THEOREM TypeCorrect == Spec => []TypeOK
<1> USE ScoringAssumption
<1>1. Init => TypeOK
  BY DEF Init, TypeOK, Statuses, Contexts
<1>2. TypeOK /\ [Next]_sagaVars => TypeOK'
  BY TypeInductive
<1>3. QED
  BY <1>1, <1>2, PTL DEF Spec

------------------------------------------------------------------------------
(* The inductive invariant behind CompletedIsBacked.  Phase E looks at the  *)
(* status alone, so the report is whole because of what a call has done     *)
(* before it gets there, and because no statement of any call removes what  *)
(* another has written.                                                     *)

ScoresWritten == {"blockScores", "readScores", "upsertProfile", "markProfiled",
                  "readProfile", "upsertInsight", "finish"}
ProfileWritten == {"markProfiled", "readProfile", "upsertInsight", "finish",
                   "readProfileId", "completed"}
InsightsWritten == {"finish", "readProfileId", "completed"}
BeforeInsights == {"idle", "loadResponses", "persistScores", "readScores",
                   "upsertProfile", "markProfiled"}

\* What the place of a call in its code says of the tables.
RunInv(r) ==
  /\ pc[r] \in BeforeInsights => context[r] = 1
  /\ pc[r] \in ScoresWritten => scores # {}
  /\ pc[r] \in ProfileWritten => profiles # {}
  /\ pc[r] \in {"readProfile", "upsertInsight"} =>
       1..(context[r] - 1) \subseteq Covered
  /\ pc[r] = "upsertInsight" => seen[r] # {}
  /\ pc[r] \in InsightsWritten => Contexts \subseteq Covered

BackedInv ==
  status = "completed" =>
    scores # {} /\ profiles # {} /\ Contexts \subseteq Covered

SagaInv == (\A r \in Runs : RunInv(r)) /\ BackedInv

\* The other calls keep their place and their locals.
Elsewhere(r) ==
  \A q \in Runs \ {r} :
    pc'[q] = pc[q] /\ context'[q] = context[q] /\ seen'[q] = seen[q]

\* No statement empties a table or uncovers a context.
Grows ==
  /\ scores # {} => scores' # {}
  /\ profiles # {} => profiles' # {}
  /\ Covered \subseteq Covered'

\* Nothing the saga does takes a row away for good: an UPSERT puts one back.
LEMMA TablesGrow ==
  ASSUME TypeOK, SagaInv, [Next]_sagaVars
  PROVE  Grows
<1>1. CASE \E r \in Runs : PersistScores(r) \/ BlockScores(r)
  <2>1. scores # {} => scores' # {}
    BY <1>1 DEF PersistScores, BlockScores
  <2>2. UNCHANGED <<profiles, insights>>
    BY <1>1 DEF PersistScores, BlockScores
  <2>3. QED
    BY <2>1, <2>2 DEF Grows, Covered
<1>2. CASE \E r \in Runs : UpsertProfile(r)
  BY <1>2 DEF UpsertProfile, Grows, Covered
<1>3. ASSUME NEW r \in Runs, UpsertInsight(r)
      PROVE  Grows
  <2>1. UNCHANGED <<scores, profiles>>
    BY <1>3 DEF UpsertInsight
  <2>2. ASSUME NEW i \in insights
        PROVE  i.context \in Covered'
    <3>1. CASE i \in insights'
      BY <3>1 DEF Covered
    <3>2. CASE i \notin insights'
      <4>1. i.context = context[r]
        BY <1>3, <3>2 DEF UpsertInsight
      <4>2. PICK p : p \in seen[r]
        BY <1>3 DEF SagaInv, RunInv, UpsertInsight
      <4>3. [context |-> context[r], type |-> p.type, vector |-> p.vector]
              \in insights'
        BY <1>3, <3>2, <4>2 DEF UpsertInsight
      <4>4. QED
        BY <4>1, <4>3 DEF Covered
    <3>3. QED
      BY <3>1, <3>2
  <2>3. QED
    BY <2>1, <2>2 DEF Grows, Covered
<1>4. CASE UNCHANGED <<scores, profiles, insights>>
  BY <1>4 DEF Grows, Covered
<1>5. QED
  BY <1>1, <1>2, <1>3, <1>4
     DEF Next, Step, Terminated, ReadStatus, ReadProfileId, LoadResponses,
         ReadScores, MarkProfiled, ReadProfile, Finish, Compensate,
         AuditCompensation, D1Error, Kill, ResetFailed, ReviseAnswers,
         sagaVars, db

\* A step of one call changes the place and the locals of that call only.
LEMMA StepElsewhere ==
  ASSUME TypeOK, NEW r \in Runs, Step(r) \/ D1Error(r) \/ Kill(r)
  PROVE  Elsewhere(r)
<1>1. \A step : Goto(r, step) => \A q \in Runs \ {r} : pc'[q] = pc[q]
  BY DEF Goto, TypeOK
<1>2. \A step : Proceed(r, step) \/ Applied(r, step)
                => \A q \in Runs \ {r} : pc'[q] = pc[q]
  BY <1>1 DEF Proceed, Applied
<1>3. \A q \in Runs \ {r} : pc'[q] = pc[q]
  BY <1>1, <1>2
     DEF Step, ReadStatus, ReadProfileId, LoadResponses, PersistScores,
         BlockScores, ReadScores, UpsertProfile, MarkProfiled, ReadProfile,
         UpsertInsight, Finish, Compensate, AuditCompensation, D1Error, Kill
<1>4. \A q \in Runs \ {r} : context'[q] = context[q] /\ seen'[q] = seen[q]
  BY DEF TypeOK, locals, Step, ReadStatus, ReadProfileId, LoadResponses,
         PersistScores, BlockScores, ReadScores, UpsertProfile, MarkProfiled,
         ReadProfile, UpsertInsight, Finish, Compensate, AuditCompensation,
         D1Error, Kill
<1>5. QED
  BY <1>3, <1>4 DEF Elsewhere

\* Each step keeps what every call's place says of the tables.
LEMMA SagaInvInductive ==
  ASSUME TypeOK, SagaInv, [Next]_sagaVars
  PROVE  SagaInv'
<1> USE DEF Proceed, Applied, Goto, Handler, TrySteps
<1> DEFINE Keeps(r) == RunInv(r)' /\ BackedInv'
<1> USE ScoringAssumption
<1>1. Grows
  BY TablesGrow
<1>2. ASSUME NEW q \in Runs,
             pc'[q] = pc[q], context'[q] = context[q], seen'[q] = seen[q]
      PROVE  RunInv(q)'
  BY <1>1, <1>2 DEF RunInv, SagaInv, Grows, ScoresWritten, ProfileWritten,
                    InsightsWritten, BeforeInsights
<1>3. status' # "completed" \/ status = "completed" => BackedInv'
  BY <1>1 DEF SagaInv, BackedInv, Grows, Contexts
<1>4. ASSUME NEW r \in Runs, Step(r) \/ D1Error(r) \/ Kill(r), Keeps(r)
      PROVE  SagaInv'
  BY <1>2, <1>4, StepElsewhere DEF SagaInv, Elsewhere
<1> USE DEF TypeOK, RunInv, ScoresWritten, ProfileWritten, InsightsWritten,
            BeforeInsights
<1>5. ASSUME NEW r \in Runs, ReadStatus(r) PROVE Keeps(r)
  BY <1>1, <1>3, <1>5 DEF ReadStatus, FirstStep, SagaInv, BackedInv, Grows,
                          db, locals
<1>6. ASSUME NEW r \in Runs, ReadProfileId(r) PROVE Keeps(r)
  BY <1>1, <1>3, <1>6 DEF ReadProfileId, SagaInv, Grows, db, locals
<1>7. ASSUME NEW r \in Runs, LoadResponses(r) PROVE Keeps(r)
  BY <1>1, <1>3, <1>7 DEF LoadResponses, SagaInv, Grows, db
<1>8. ASSUME NEW r \in Runs, PersistScores(r) PROVE Keeps(r)
  BY <1>1, <1>3, <1>8 DEF PersistScores, UpdateStatus, SagaInv, Grows, locals
<1>9. ASSUME NEW r \in Runs, BlockScores(r) PROVE Keeps(r)
  BY <1>1, <1>3, <1>9 DEF BlockScores, UpdateStatus, SagaInv, Grows, locals
<1>10. ASSUME NEW r \in Runs, ReadScores(r) PROVE Keeps(r)
  BY <1>1, <1>3, <1>10 DEF ReadScores, SagaInv, Grows, db
<1>11. ASSUME NEW r \in Runs, UpsertProfile(r) PROVE Keeps(r)
  BY <1>1, <1>3, <1>11 DEF UpsertProfile, SagaInv, Grows
<1>12. ASSUME NEW r \in Runs, MarkProfiled(r) PROVE Keeps(r)
  BY <1>1, <1>3, <1>12 DEF MarkProfiled, UpdateStatus, SagaInv, Grows, locals
<1>13. ASSUME NEW r \in Runs, ReadProfile(r) PROVE Keeps(r)
  BY <1>1, <1>3, <1>13 DEF ReadProfile, SagaInv, Grows, db
<1>14. ASSUME NEW r \in Runs, UpsertInsight(r) PROVE Keeps(r)
  <2>1. BackedInv'
    BY <1>3, <1>14 DEF UpsertInsight
  <2>2. scores' # {} /\ profiles' # {}
    BY <1>1, <1>14 DEF UpsertInsight, SagaInv, Grows
  <2>3. CASE pc'[r] = "compensate"
    BY <2>1, <2>3
  <2>4. CASE pc'[r] # "compensate"
    <3>1. 1..(context[r] - 1) \subseteq Covered'
      BY <1>1, <1>14 DEF UpsertInsight, SagaInv, Grows
    <3>2. PICK p : p \in seen[r]
      BY <1>14 DEF UpsertInsight, SagaInv
    <3>3. [context |-> context[r], type |-> p.type, vector |-> p.vector]
            \in insights'
      BY <1>14, <2>4, <3>2 DEF UpsertInsight
    <3>4. context[r] \in Covered'
      BY <3>3 DEF Covered
    <3>5. context[r] \in Contexts
      OBVIOUS
    <3>6. 1..context[r] \subseteq Covered'
      BY <3>1, <3>4, <3>5 DEF Contexts
    <3>7. CASE LastContext(r)
      <4>1. pc'[r] = "finish"
        BY <1>14, <2>4, <3>7 DEF UpsertInsight
      <4>2. Contexts \subseteq Covered'
        BY <3>6, <3>7 DEF LastContext, Contexts
      <4>3. QED
        BY <2>1, <2>2, <4>1, <4>2
    <3>8. CASE ~LastContext(r)
      <4>1. pc'[r] = "readProfile" /\ context'[r] = context[r] + 1
        BY <1>14, <2>4, <3>8 DEF UpsertInsight
      <4>2. (1..(context[r] - 1))' \subseteq Covered'
        BY <3>5, <3>6, <4>1 DEF Contexts
      <4>3. QED
        BY <2>1, <2>2, <4>1, <4>2
    <3>9. QED
      BY <3>7, <3>8
  <2>5. QED
    BY <2>3, <2>4
<1>15. ASSUME NEW r \in Runs, Finish(r) PROVE Keeps(r)
  BY <1>1, <1>15 DEF Finish, UpdateStatus, SagaInv, BackedInv, Grows, locals
<1>16. ASSUME NEW r \in Runs, Compensate(r) PROVE Keeps(r)
  BY <1>1, <1>3, <1>16 DEF Compensate, UpdateStatus, SagaInv, Grows, locals
<1>17. ASSUME NEW r \in Runs, AuditCompensation(r) PROVE Keeps(r)
  BY <1>1, <1>3, <1>17 DEF AuditCompensation, SagaInv, Grows, locals
<1>18. ASSUME NEW r \in Runs, D1Error(r) PROVE Keeps(r)
  BY <1>1, <1>3, <1>18 DEF D1Error, SagaInv, Grows, db, locals
<1>19. ASSUME NEW r \in Runs, Kill(r) PROVE Keeps(r)
  BY <1>1, <1>3, <1>19 DEF Kill, SagaInv, Grows, db, locals
<1>20. CASE UNCHANGED <<pc, locals>> /\ (status' # "completed"
                                         \/ status = "completed")
  BY <1>2, <1>3, <1>20 DEF SagaInv, locals
<1>21. QED
  BY <1>4, <1>5, <1>6, <1>7, <1>8, <1>9, <1>10, <1>11, <1>12, <1>13, <1>14,
     <1>15, <1>16, <1>17, <1>18, <1>19, <1>20
     DEF Next, Step, Terminated, ResetFailed, ReviseAnswers, sagaVars, db

\* The invariant holds in every reachable state.
LEMMA SagaInvAlways == Spec => []SagaInv
<1>1. Init => SagaInv
  BY DEF Init, SagaInv, RunInv, BackedInv, ScoresWritten, ProfileWritten,
         InsightsWritten, BeforeInsights
<1>2. TypeOK /\ SagaInv /\ [Next]_sagaVars => SagaInv'
  BY SagaInvInductive
<1>3. QED
  BY <1>1, <1>2, TypeCorrect, PTL DEF Spec

\* An insight row has a context of the list.
LEMMA CoveredContexts == ASSUME TypeOK PROVE Covered \subseteq Contexts
BY DEF TypeOK, Covered, InsightRow

\* A row Phase E has set to 'completed' has its scores, its profile and every
\* insight, although Phase E looks at the status alone.
THEOREM BackedAlways == Spec => []CompletedIsBacked
<1>1. TypeOK /\ SagaInv => CompletedIsBacked
  BY CoveredContexts DEF SagaInv, BackedInv, CompletedIsBacked
<1>2. QED
  BY <1>1, TypeCorrect, SagaInvAlways, PTL

\* A call that answers 'completed', by Phase E or by the early return of the
\* idempotency guard, answers for a whole report.
THEOREM ReportedBackedAlways == Spec => []ReportedCompletedIsBacked
<1>1. TypeOK /\ SagaInv => ReportedCompletedIsBacked
  BY CoveredContexts DEF SagaInv, RunInv, ReportedCompletedIsBacked,
                         ProfileWritten, InsightsWritten
<1>2. QED
  BY <1>1, TypeCorrect, SagaInvAlways, PTL

------------------------------------------------------------------------------
(* What the statements of the saga do to the status.                        *)

Unsettled == {"submitted", "scoring", "scored", "profiled"}

\* The status keeps its value, moves among the unsettled ones or to an end of
\* them, or is reset by the caller.  'completed' and "absent" are never left.
StatusStep ==
  \/ status' = status
  \/ status \in Unsettled /\ status' \in Unsettled \cup {"completed", "failed"}
  \/ status = "failed" /\ status' = "submitted"

\* Every WHERE clause on the status is one of those three.
LEMMA StatusMoves == [Next]_sagaVars => StatusStep
<1> SUFFICES ASSUME [Next]_sagaVars
             PROVE  StatusStep
  OBVIOUS
<1> USE DEF StatusStep, Unsettled, UpdateStatus
<1>1. ASSUME NEW r \in Runs, Step(r) \/ D1Error(r) \/ Kill(r)
      PROVE  StatusStep
  BY <1>1 DEF db, Step, ReadStatus, ReadProfileId, LoadResponses,
     PersistScores, BlockScores, ReadScores, UpsertProfile, MarkProfiled,
     ReadProfile, UpsertInsight, Finish, Compensate, AuditCompensation,
     D1Error, Kill, ScoredFrom, ProfiledFrom, CompensatedFrom
<1>2. CASE ResetFailed
  BY <1>2 DEF ResetFailed
<1>3. CASE ReviseAnswers \/ Terminated \/ UNCHANGED sagaVars
  BY <1>3 DEF ReviseAnswers, Terminated, sagaVars, db
<1>4. QED
  BY <1>1, <1>2, <1>3 DEF Next

\* No call takes back a published result, whichever calls overlap and whatever
\* fails: the compensation leaves a 'completed' row alone.
THEOREM TerminalAlways == Spec => CompletedIsTerminal
<1>1. [Next]_sagaVars => [status = "completed" => status' = "completed"]_status
  BY StatusMoves DEF StatusStep, Unsettled
<1>2. QED
  BY <1>1, PTL DEF Spec, CompletedIsTerminal

------------------------------------------------------------------------------
\* A call that has answered 'failed' has written its own audit row, and a row
\* found in 'failed' has one, or a call that still owes it or was cut off before
\* it could write it.
THEOREM EvidenceAlways == Spec => []FailureLeavesEvidence
<1> USE DEF FailureLeavesEvidence
<1>1. Init => FailureLeavesEvidence
  BY DEF Init
<1> DEFINE Answered ==
             \A r \in Runs :
               /\ pc[r] = "failed" =>
                    [run |-> r, action |-> "scoring_compensated"] \in audit
               /\ pc[r] = "blocked" =>
                    [run |-> r, action |-> "scoring_blocked"] \in audit
<1>2. TypeOK /\ FailureLeavesEvidence /\ [Next]_sagaVars
      => FailureLeavesEvidence'
  <2> SUFFICES ASSUME TypeOK, FailureLeavesEvidence, [Next]_sagaVars
               PROVE  FailureLeavesEvidence'
    OBVIOUS
  <2>1. CASE UNCHANGED <<status, audit, pc>>
    BY <2>1
  <2>2. ASSUME NEW r \in Runs, Step(r) \/ D1Error(r) \/ Kill(r)
        PROVE  FailureLeavesEvidence'
    <3>1. audit # {} => audit' # {}
      BY <2>2 DEF db, Step, ReadStatus, ReadProfileId, LoadResponses,
         PersistScores, BlockScores, ReadScores, UpsertProfile, MarkProfiled,
         ReadProfile, UpsertInsight, Finish, Compensate, AuditCompensation,
         D1Error, Kill
    <3>2. status # "failed" =>
            status' # "failed" \/ BlockScores(r) \/ Compensate(r)
      BY <2>2 DEF db, UpdateStatus, Step, ReadStatus, ReadProfileId,
         LoadResponses, PersistScores, ReadScores, UpsertProfile,
         MarkProfiled, ReadProfile, UpsertInsight, Finish, AuditCompensation,
         D1Error, Kill
    <3>3. BlockScores(r) \/ AuditCompensation(r) => audit' # {}
      BY DEF BlockScores, AuditCompensation
    <3>4. Compensate(r) => pc'[r] \in {"auditCompensation", "threw"}
      BY DEF TypeOK, Compensate, Applied, Proceed, Goto, Handler, TrySteps
    <3>5. ASSUME pc[r] \in {"auditCompensation", "threw", "killed"}
          PROVE  AuditCompensation(r) \/ pc'[r] \in {"threw", "killed"}
      BY <2>2, <3>5 DEF TypeOK, Goto, Handler, InFlight, TrySteps, OtherSteps,
         Step, ReadStatus, ReadProfileId, LoadResponses, PersistScores,
         BlockScores, ReadScores, UpsertProfile, MarkProfiled, ReadProfile,
         UpsertInsight, Finish, Compensate, D1Error, Kill
    <3>6. \A q \in Runs \ {r} : pc'[q] = pc[q]
      BY <2>2, StepElsewhere DEF Elsewhere
    <3>7. /\ audit \subseteq audit'
          /\ pc'[r] = "failed" =>
               [run |-> r, action |-> "scoring_compensated"] \in audit'
          /\ pc'[r] = "blocked" =>
               [run |-> r, action |-> "scoring_blocked"] \in audit'
      BY <2>2 DEF db, TypeOK, Applied, Proceed, Goto, Handler, InFlight,
         TrySteps, OtherSteps, FirstStep, Step, ReadStatus, ReadProfileId,
         LoadResponses, PersistScores, BlockScores, ReadScores, UpsertProfile,
         MarkProfiled, ReadProfile, UpsertInsight, Finish, Compensate,
         AuditCompensation, D1Error, Kill
    <3>8. Answered'
      BY <3>6, <3>7
    <3>9. status' = "failed" =>
            \/ audit' # {}
            \/ \E q \in Runs : pc'[q] \in {"auditCompensation", "threw", "killed"}
      BY <3>1, <3>2, <3>3, <3>4, <3>5, <3>6
    <3>10. QED
      BY <3>8, <3>9
  <2>3. CASE ResetFailed
    BY <2>3 DEF ResetFailed
  <2>4. QED
    BY <2>1, <2>2, <2>3 DEF Next, ReviseAnswers, Terminated, sagaVars, db
<1>3. QED
  BY <1>1, <1>2, TypeCorrect, PTL DEF Spec

------------------------------------------------------------------------------
(* The refinement.                                                          *)

AllOrNothing == Visible = IF status = "completed" THEN Sections ELSE {}

\* The page of a 'completed' row shows every section, any other page none.
LEMMA VisibleIsAllOrNothing == TypeOK /\ SagaInv => AllOrNothing
<1> SUFFICES ASSUME TypeOK, SagaInv
             PROVE  AllOrNothing
  OBVIOUS
<1> USE DEF AllOrNothing
<1>1. CASE status = "completed"
  <2>1. scores # {} /\ profiles # {} /\ Contexts = Covered
    BY <1>1, CoveredContexts DEF SagaInv, BackedInv
  <2>2. {<<"scores", 0>> : s \in scores} = {<<"scores", 0>>}
    BY <2>1
  <2>3. {<<"profile", 0>> : p \in profiles} = {<<"profile", 0>>}
    BY <2>1
  <2>4. {<<"insight", i.context>> : i \in insights}
        = {<<"insight", c>> : c \in Contexts}
    BY <2>1 DEF Covered
  <2>5. QED
    BY <1>1, <2>2, <2>3, <2>4 DEF Visible, Sections
<1>2. CASE status # "completed"
  BY <1>2 DEF Visible
<1>3. QED
  BY <1>1, <1>2

\* Whatever its calls do to one another, the saga implements the abstract
\* publication: a reader sees the whole report or none of it, and a report once
\* published stays.
THEOREM SagaImplementsPublication == Spec => ImplementsPublication
<1>1. Init => Publication!Init
  BY DEF Init, Publication!Init, Phase, Visible
<1>2. AllOrNothing /\ AllOrNothing' /\ [Next]_sagaVars
      => [Publication!Next]_(Publication!publicationVars)
  <2> SUFFICES ASSUME AllOrNothing, AllOrNothing', [Next]_sagaVars
               PROVE  [Publication!Next]_(Publication!publicationVars)
    OBVIOUS
  <2>1. Visible = IF status = "completed" THEN Sections ELSE {}
    BY DEF AllOrNothing
  <2>2. Visible' = IF status' = "completed" THEN Sections ELSE {}
    BY DEF AllOrNothing, Sections
  <2>3. StatusStep
    BY StatusMoves
  <2>4. CASE status' = status
    BY <2>1, <2>2, <2>4 DEF Phase, Publication!publicationVars
  <2>5. CASE status \in Unsettled
             /\ status' \in Unsettled \cup {"completed", "failed"}
    BY <2>1, <2>2, <2>5 DEF Unsettled, Phase, Publication!publicationVars,
       Publication!Next, Publication!Publish, Publication!Abandon
  <2>6. CASE status = "failed" /\ status' = "submitted"
    BY <2>1, <2>2, <2>6 DEF Phase, Publication!Next, Publication!Reopen
  <2>7. QED
    BY <2>3, <2>4, <2>5, <2>6 DEF StatusStep
<1>3. QED
  BY <1>1, <1>2, VisibleIsAllOrNothing, TypeCorrect, SagaInvAlways, PTL
     DEF Spec, ImplementsPublication, Publication!Spec

------------------------------------------------------------------------------
(* Until the first edit.  Every call reads the same responses, so whichever  *)
(* call wrote a row, it says the same; and if the policy refuses them it     *)
(* refuses every call, so that none gets to a profile.                       *)

BeyondGate == {"readScores", "upsertProfile", "markProfiled", "readProfile",
               "upsertInsight", "finish"}

\* A profile or insight row computed from the responses as they stand.
Faithful(row) == row.type = answers /\ row.vector = {answers}

SameReading ==
  /\ \A r \in Runs : mine[r] = answers
  /\ \A s \in scores : s = [of |-> answers, blocked |-> s.blocked]
  /\ \A r \in Runs : pc[r] = "upsertProfile" => vector[r] = {answers}
  /\ \A p \in profiles : Faithful(p)
  /\ \A r \in Runs : \A p \in seen[r] : Faithful(p)
  /\ \A i \in insights : Faithful(i)

SameVerdict ==
  IF answers \in BlockedAnswers
    THEN /\ status \notin {"profiled", "completed"}
         /\ \A r \in Runs : pc[r] \notin BeyondGate
    ELSE /\ \A s \in scores : ~s.blocked
         /\ \A r \in Runs : pc[r] # "blockScores"

OneProfile == \A p, q \in profiles : p = q

UnrevisedInv ==
  /\ OneProfile
  /\ revisions = 0 => SameReading /\ SameVerdict

\* An UPSERT leaves one row of the assessment.
LEMMA OneProfileInductive ==
  ASSUME OneProfile, [Next]_sagaVars
  PROVE  OneProfile'
<1>1. profiles' = profiles \/ \E row : profiles' = {row}
  BY DEF Next, Step, Terminated, ReadStatus, ReadProfileId, LoadResponses,
     PersistScores, BlockScores, ReadScores, UpsertProfile, MarkProfiled,
     ReadProfile, UpsertInsight, Finish, Compensate, AuditCompensation,
     D1Error, Kill, ResetFailed, ReviseAnswers, sagaVars, db
<1>2. QED
  BY <1>1 DEF OneProfile

\* What a call reads, and what it writes, is of the one reading there is.
LEMMA ReadingInductive ==
  ASSUME TypeOK, SagaInv, SameReading, UNCHANGED answers,
         NEW r \in Runs, Step(r) \/ D1Error(r) \/ Kill(r)
  PROVE  SameReading'
<1> USE DEF TypeOK
<1>1. \A q \in Runs : mine'[q] = answers
  BY DEF SameReading, Step, locals, ReadStatus, ReadProfileId, LoadResponses,
     PersistScores, BlockScores, ReadScores, UpsertProfile, MarkProfiled,
     ReadProfile, UpsertInsight, Finish, Compensate, AuditCompensation,
     D1Error, Kill
<1>2. \A s \in scores' : s = [of |-> answers, blocked |-> s.blocked]
  <2>1. CASE UNCHANGED scores
    BY <2>1 DEF SameReading
  <2>2. CASE PersistScores(r)
    <3>1. scores' = scores \/ scores' = {[of |-> answers, blocked |-> FALSE]}
      BY <2>2 DEF PersistScores, SameReading
    <3>2. QED
      BY <3>1 DEF SameReading
  <2>3. CASE BlockScores(r)
    <3>1. ASSUME NEW t \in scores
          PROVE  [t EXCEPT !.blocked = TRUE] = [of |-> answers, blocked |-> TRUE]
      <4> DEFINE row == [t EXCEPT !.blocked = TRUE]
      <4>1. t \in ScoreRow /\ t.of = answers
        BY DEF SameReading
      <4>2. row \in ScoreRow /\ row.of = answers /\ row.blocked = TRUE
        BY <4>1 DEF ScoreRow
      <4> HIDE DEF row
      <4>3. row = [of |-> answers, blocked |-> TRUE]
        BY <4>2 DEF ScoreRow
      <4>4. QED
        BY <4>3 DEF row
    <3>2. \A s \in scores' : s = [of |-> answers, blocked |-> TRUE]
      BY <2>3, <3>1 DEF BlockScores
    <3>3. QED
      BY <3>2
  <2>4. QED
    BY <2>1, <2>2, <2>3 DEF Step, db, ReadStatus, ReadProfileId, LoadResponses,
       ReadScores, UpsertProfile, MarkProfiled, ReadProfile, UpsertInsight,
       Finish, Compensate, AuditCompensation, D1Error, Kill
<1>3. \A q \in Runs : pc'[q] = "upsertProfile" => vector'[q] = {answers}
  <2>1. CASE ReadScores(r)
    <3>1. CASE pc'[r] = "upsertProfile"
      <4>1. scores # {}
        BY <2>1 DEF SagaInv, RunInv, ScoresWritten, ReadScores
      <4>2. {s.of : s \in scores} = {answers}
        BY <4>1 DEF SameReading
      <4>3. vector' = [vector EXCEPT ![r] = {answers}]
        BY <2>1, <3>1, <4>2 DEF ReadScores, Proceed, Goto
      <4>4. \A q \in Runs \ {r} : pc'[q] = pc[q]
        BY <2>1, StepElsewhere DEF Elsewhere
      <4>5. QED
        BY <4>3, <4>4 DEF SameReading
    <3>2. CASE pc'[r] # "upsertProfile"
      BY <2>1, <3>2 DEF ReadScores, Proceed, Goto, SameReading
    <3>3. QED
      BY <3>1, <3>2
  <2>2. CASE ~ReadScores(r)
    <3>1. vector' = vector /\ pc'[r] # "upsertProfile"
      BY <2>2 DEF Step, locals, ReadStatus, FirstStep, ReadProfileId,
         LoadResponses, PersistScores, BlockScores, UpsertProfile,
         MarkProfiled, ReadProfile, UpsertInsight, Finish, Compensate,
         AuditCompensation, D1Error, Kill, Proceed, Applied, Goto, Handler,
         TrySteps
    <3>2. \A q \in Runs \ {r} : pc'[q] = pc[q]
      BY StepElsewhere DEF Elsewhere
    <3>3. QED
      BY <3>1, <3>2 DEF SameReading
  <2>3. QED
    BY <2>1, <2>2
<1>4. \A p \in profiles' : Faithful(p)
  <2>1. CASE UpsertProfile(r)
    <3>1. CASE profiles' = profiles
      BY <3>1 DEF SameReading
    <3>2. CASE profiles' = {[id |-> UpsertedId, type |-> answers,
                             vector |-> {answers}]}
      BY <3>2 DEF Faithful
    <3>3. QED
      BY <2>1, <3>1, <3>2 DEF UpsertProfile, SameReading
  <2>2. CASE UNCHANGED profiles
    BY <2>2 DEF SameReading
  <2>3. QED
    BY <2>1, <2>2 DEF Step, db, ReadStatus, ReadProfileId, LoadResponses,
       PersistScores, BlockScores, ReadScores, MarkProfiled, ReadProfile,
       UpsertInsight, Finish, Compensate, AuditCompensation, D1Error, Kill
<1>5. \A q \in Runs : \A p \in seen'[q] : Faithful(p)
  <2>1. CASE ReadProfile(r)
    BY <2>1 DEF ReadProfile, SameReading
  <2>2. CASE UNCHANGED seen
    BY <2>2 DEF SameReading
  <2>3. QED
    BY <2>1, <2>2 DEF Step, locals, ReadStatus, ReadProfileId, LoadResponses,
       PersistScores, BlockScores, ReadScores, UpsertProfile, MarkProfiled,
       UpsertInsight, Finish, Compensate, AuditCompensation, D1Error, Kill
<1>6. \A i \in insights' : Faithful(i)
  <2>1. CASE UpsertInsight(r)
    <3>1. ASSUME NEW p \in seen[r]
          PROVE  Faithful([context |-> context[r], type |-> p.type,
                           vector |-> p.vector])
      BY DEF SameReading, Faithful
    <3>2. QED
      BY <2>1, <3>1 DEF UpsertInsight, SameReading
  <2>2. CASE UNCHANGED insights
    BY <2>2 DEF SameReading
  <2>3. QED
    BY <2>1, <2>2 DEF Step, db, ReadStatus, ReadProfileId, LoadResponses,
       PersistScores, BlockScores, ReadScores, UpsertProfile, MarkProfiled,
       ReadProfile, Finish, Compensate, AuditCompensation, D1Error, Kill
<1>7. QED
  BY <1>1, <1>2, <1>3, <1>4, <1>5, <1>6 DEF SameReading, Faithful

\* The policy gives every call the same verdict.
LEMMA VerdictInductive ==
  ASSUME TypeOK, SameReading, SameVerdict, UNCHANGED answers,
         NEW r \in Runs, Step(r) \/ D1Error(r) \/ Kill(r)
  PROVE  SameVerdict'
<1> USE DEF TypeOK, SameReading, SameVerdict, BeyondGate
<1>1. \A q \in Runs \ {r} : pc'[q] = pc[q]
  BY StepElsewhere DEF Elsewhere
<1>2. CASE answers \in BlockedAnswers
  <2>1. pc'[r] \notin BeyondGate
    BY <1>2 DEF Step, ReadStatus, FirstStep, ReadProfileId, LoadResponses,
       PersistScores, Refused, BlockScores, ReadScores, UpsertProfile,
       MarkProfiled, ReadProfile, UpsertInsight, Finish, Compensate,
       AuditCompensation, D1Error, Kill, Proceed, Applied, Goto, Handler,
       TrySteps
  <2>2. status' \notin {"profiled", "completed"}
    BY <1>2 DEF Step, db, UpdateStatus, ReadStatus, ReadProfileId,
       LoadResponses, PersistScores, BlockScores, ReadScores, UpsertProfile,
       MarkProfiled, ReadProfile, UpsertInsight, Finish, Compensate,
       AuditCompensation, D1Error, Kill, Proceed, Applied, Goto, Handler,
       TrySteps
  <2>3. QED
    BY <1>1, <1>2, <2>1, <2>2
<1>3. CASE answers \notin BlockedAnswers
  <2>1. pc'[r] # "blockScores"
    BY <1>3 DEF Step, ReadStatus, FirstStep, ReadProfileId, LoadResponses,
       PersistScores, Refused, BlockScores, ReadScores, UpsertProfile,
       MarkProfiled, ReadProfile, UpsertInsight, Finish, Compensate,
       AuditCompensation, D1Error, Kill, Proceed, Applied, Goto, Handler,
       TrySteps
  <2>2. \A s \in scores' : ~s.blocked
    <3>1. scores' = scores \/ scores' = {[of |-> mine[r], blocked |-> FALSE]}
      BY <1>3 DEF Step, db, ReadStatus, ReadProfileId, LoadResponses,
         PersistScores, BlockScores, ReadScores, UpsertProfile, MarkProfiled,
         ReadProfile, UpsertInsight, Finish, Compensate, AuditCompensation,
         D1Error, Kill
    <3>2. QED
      BY <1>3, <3>1
  <2>3. QED
    BY <1>1, <1>3, <2>1, <2>2
<1>4. QED
  BY <1>2, <1>3

LEMMA UnrevisedInductive ==
  ASSUME TypeOK, SagaInv, UnrevisedInv, [Next]_sagaVars
  PROVE  UnrevisedInv'
<1>1. OneProfile'
  BY OneProfileInductive DEF UnrevisedInv
<1>2. SUFFICES ASSUME revisions' = 0
               PROVE  (SameReading /\ SameVerdict)'
  BY <1>1 DEF UnrevisedInv
<1>3. revisions = 0 /\ UNCHANGED answers
  BY <1>2 DEF TypeOK, Next, Step, Terminated, ReadStatus, ReadProfileId,
     LoadResponses, PersistScores, BlockScores, ReadScores, UpsertProfile,
     MarkProfiled, ReadProfile, UpsertInsight, Finish, Compensate,
     AuditCompensation, D1Error, Kill, ResetFailed, ReviseAnswers, sagaVars, db
<1>4. SameReading /\ SameVerdict
  BY <1>3 DEF UnrevisedInv
<1>5. CASE \E r \in Runs : Step(r) \/ D1Error(r) \/ Kill(r)
  BY <1>3, <1>4, <1>5, ReadingInductive, VerdictInductive
<1>6. CASE ResetFailed \/ UNCHANGED sagaVars
  BY <1>4, <1>6 DEF ResetFailed, sagaVars, db, locals, SameReading,
     SameVerdict, Faithful
<1>7. ~ReviseAnswers
  BY <1>2 DEF TypeOK, ReviseAnswers
<1>8. QED
  BY <1>5, <1>6, <1>7 DEF Next, Terminated

LEMMA UnrevisedAlways == Spec => []UnrevisedInv
<1>1. Init => UnrevisedInv
  BY DEF Init, UnrevisedInv, OneProfile, SameReading, SameVerdict, BeyondGate
<1>2. TypeOK /\ SagaInv /\ UnrevisedInv /\ [Next]_sagaVars => UnrevisedInv'
  BY UnrevisedInductive
<1>3. QED
  BY <1>1, <1>2, TypeCorrect, SagaInvAlways, PTL DEF Spec

\* Calls that overlap in any way, fail and are retried publish one respondent's
\* report, from a reading the policy let through, as long as nobody has edited
\* the responses (runScoringPipeline).
THEOREM CoherentUntilEdited == Spec => []CoherentUntilRevised
<1>1. TypeOK /\ SagaInv /\ UnrevisedInv => CoherentUntilRevised
  <2> SUFFICES ASSUME TypeOK, SagaInv, UnrevisedInv, revisions = 0,
                      status = "completed"
               PROVE  CompletedIsCoherent
    BY DEF CoherentUntilRevised, CompletedIsCoherent
  <2>1. SameReading /\ SameVerdict
    BY DEF UnrevisedInv
  <2>2. answers \in Answers \ BlockedAnswers
    BY <2>1 DEF TypeOK, SameVerdict
  <2>3. scores # {}
    BY DEF SagaInv, BackedInv
  <2>4. \A s \in scores : s = [of |-> answers, blocked |-> FALSE]
    <3>1. ASSUME NEW s \in scores PROVE s.blocked = FALSE
      BY <2>1, <2>2 DEF SameVerdict, TypeOK, ScoreRow
    <3>2. QED
      BY <2>1, <3>1 DEF SameReading
  <2>5. scores = {[of |-> answers, blocked |-> FALSE]}
    BY <2>3, <2>4
  <2>6. QED
    BY <2>1, <2>2, <2>5 DEF SameReading, Faithful, CompletedIsCoherent
<1>2. QED
  BY <1>1, TypeCorrect, SagaInvAlways, UnrevisedAlways, PTL

\* A call that still writes behind a completed one writes the rows it finds, so
\* that a reader of the report sees nothing of it, as long as nobody has edited
\* the responses.
THEOREM FrozenUntilEdited == Spec => FrozenUntilRevised
<1>1. TypeOK /\ SagaInv /\ UnrevisedInv /\ [Next]_sagaVars
      => [status = "completed" /\ revisions = 0
            => UNCHANGED <<scores, profiles, insights>>]_sagaVars
  <2> SUFFICES ASSUME TypeOK, SagaInv, UnrevisedInv, [Next]_sagaVars,
                      status = "completed", revisions = 0
               PROVE  UNCHANGED <<scores, profiles, insights>>
    OBVIOUS
  <2>1. SameReading /\ SameVerdict /\ answers \notin BlockedAnswers
    BY DEF UnrevisedInv, SameVerdict
  <2>2. UNCHANGED scores
    <3>1. ASSUME NEW r \in Runs, PersistScores(r) PROVE UNCHANGED scores
      <4>1. scores' = {[of |-> answers, blocked |-> FALSE]}
        BY <2>1, <3>1 DEF PersistScores, SameReading
      <4>2. scores # {}
        BY DEF SagaInv, BackedInv
      <4>3. \A s \in scores : s = [of |-> answers, blocked |-> FALSE]
        <5>1. ASSUME NEW s \in scores PROVE s.blocked = FALSE
          BY <2>1 DEF SameVerdict, TypeOK, ScoreRow
        <5>2. QED
          BY <2>1, <5>1 DEF SameReading
      <4>4. QED
        BY <4>1, <4>2, <4>3
    <3>2. \A r \in Runs : ~BlockScores(r)
      BY <2>1 DEF SameVerdict, BlockScores
    <3>3. QED
      BY <3>1, <3>2 DEF Next, Step, Terminated, ReadStatus, ReadProfileId,
         LoadResponses, ReadScores, UpsertProfile, MarkProfiled, ReadProfile,
         UpsertInsight, Finish, Compensate, AuditCompensation, D1Error, Kill,
         ResetFailed, ReviseAnswers, sagaVars, db
  <2>3. UNCHANGED profiles
    <3>1. ASSUME NEW r \in Runs, UpsertProfile(r) PROVE UNCHANGED profiles
      <4>1. PICK p \in profiles : p = CHOOSE q \in profiles : TRUE
        BY DEF SagaInv, BackedInv
      <4>2. profiles = {p}
        BY DEF UnrevisedInv, OneProfile
      <4>3. p = [id |-> p.id, type |-> p.type, vector |-> p.vector]
        BY DEF TypeOK, ProfileRow
      <4>4. p = [id |-> UpsertedId, type |-> answers, vector |-> {answers}]
        BY <2>1, <4>1, <4>3 DEF SameReading, Faithful, UpsertedId
      <4>5. profiles' = {[id |-> UpsertedId, type |-> answers,
                          vector |-> {answers}]}
        BY <2>1, <3>1 DEF UpsertProfile, SameReading
      <4>6. QED
        BY <4>2, <4>4, <4>5
    <3>2. QED
      BY <3>1 DEF Next, Step, Terminated, ReadStatus, ReadProfileId,
         LoadResponses, PersistScores, BlockScores, ReadScores, MarkProfiled,
         ReadProfile, UpsertInsight, Finish, Compensate, AuditCompensation,
         D1Error, Kill, ResetFailed, ReviseAnswers, sagaVars, db
  <2>4. UNCHANGED insights
    <3>1. ASSUME NEW r \in Runs, UpsertInsight(r) PROVE UNCHANGED insights
      <4> DEFINE row == [context |-> context[r], type |-> answers,
                         vector |-> {answers}]
      <4>1. ASSUME NEW i \in insights, i.context = context[r] PROVE i = row
        <5>1. i = [context |-> i.context, type |-> i.type, vector |-> i.vector]
          BY DEF TypeOK, InsightRow
        <5>2. QED
          BY <2>1, <4>1, <5>1 DEF SameReading, Faithful
      <4>2. \E i \in insights : i.context = context[r]
        BY DEF SagaInv, BackedInv, Covered, TypeOK
      <4>3. row \in insights
        BY <4>1, <4>2
      <4>4. \A p \in seen[r] : [context |-> context[r], type |-> p.type,
                                vector |-> p.vector] = row
        BY <2>1 DEF SameReading, Faithful
      <4>5. seen[r] # {}
        BY <3>1 DEF SagaInv, RunInv, UpsertInsight
      <4> HIDE DEF row
      <4>6. {[context |-> context[r], type |-> p.type, vector |-> p.vector]
             : p \in seen[r]} = {row}
        BY <4>4, <4>5
      <4>7. insights = {i \in insights : i.context # context[r]} \cup {row}
        BY <4>1, <4>3
      <4>8. QED
        BY <3>1, <4>6, <4>7 DEF UpsertInsight
    <3>2. QED
      BY <3>1 DEF Next, Step, Terminated, ReadStatus, ReadProfileId,
         LoadResponses, PersistScores, BlockScores, ReadScores, UpsertProfile,
         MarkProfiled, ReadProfile, Finish, Compensate, AuditCompensation,
         D1Error, Kill, ResetFailed, ReviseAnswers, sagaVars, db
  <2>5. QED
    BY <2>2, <2>3, <2>4
<1>2. QED
  BY <1>1, TypeCorrect, SagaInvAlways, UnrevisedAlways, PTL
     DEF Spec, FrozenUntilRevised
==============================================================================

--------------------------- MODULE SessionDeletion ---------------------------
(***************************************************************************)
(* processDeletion of apps/workers/src/services/compliance/                *)
(* deletionProcessor.ts, over the tables of migrations/0000_thin_spyke.sql, *)
(* beside the scoring calls of ScoringSaga and the consents a respondent   *)
(* still grants.  There is one anonymous session with one assessment and   *)
(* one deletion request; several calls may process it, because             *)
(* processDeletion never looks at the status of the request.               *)
(*                                                                         *)
(* Every awaited D1 call is one action and none of them is in a            *)
(* transaction.  deleted_counts is left out.                               *)
(***************************************************************************)
EXTENDS ScoringSaga

CONSTANTS
  Deleters,   \* calls of processDeletion
  NoAnswers,  \* the responses table without a row of the assessment
  MaxGrants   \* bound: consents granted while the system is observed

\* Without responses adjustReliability returns 0.2 and checkPolicy refuses.
ASSUME DeletionAssumption ==
  /\ NoAnswers \in BlockedAnswers
  /\ MaxGrants \in Nat

VARIABLES
  session,    \* the anonymous_sessions row is there
  consents,   \* number of consents rows
  granted,    \* consents granted so far
  request,    \* deletion_requests.status; "none" when there is no such row
  trail,      \* the actions of the audit_logs rows deletion has written
  dpc,        \* the D1 call each deletion awaits next, or how it ended
  found       \* profile ids the deletion has read

privacy == <<session, consents, granted, request, trail>>
systemVars == <<sagaVars, privacy, dpc, found>>

------------------------------------------------------------------------------
DeletionSteps ==
  {"auditStart", "selectAssessments", "selectProfiles", "deleteInsights",
   "deleteProfiles", "deleteResponses", "deleteScores", "deleteAssessments",
   "deleteConsents", "auditData", "countSession", "completeRequest",
   "deleteSession", "auditSession", "markFailed"}

DeletionEnded == {"success", "failed", "notFound", "killed"}

DeletionTypeOK ==
  /\ TypeOK
  /\ session \in BOOLEAN
  /\ consents \in 0..(MaxGrants + 1)
  /\ granted \in 0..MaxGrants
  /\ request \in {"none", "pending", "completed", "failed"}
  /\ trail \subseteq {"deletion_processed", "data_deleted", "session_deleted"}
  /\ dpc \in [Deleters -> {"idle"} \cup DeletionSteps \cup DeletionEnded]
  /\ found \in [Deleters -> SUBSET Nat]

\* A session with a consent, a submitted assessment or none, and a request.
SystemInit ==
  /\ Init
  /\ (answers = NoAnswers) <=> (status = "absent")
  /\ session = TRUE
  /\ consents = 1
  /\ granted = 0
  /\ request = "pending"
  /\ trail = {}
  /\ dpc = [d \in Deleters |-> "idle"]
  /\ found = [d \in Deleters |-> {}]

------------------------------------------------------------------------------
DGoto(d, step) == dpc' = [dpc EXCEPT ![d] = step]

DProceed(d, step) == DGoto(d, step) /\ UNCHANGED faults

\* The catch block, whose own UPDATE is best effort.  (The mutant has none: an
\* error leaves the handler.)
UncaughtHandler(step) == "threw"
DHandler(step) == IF step = "markFailed" THEN "failed" ELSE "markFailed"

\* D1 has applied a write: its reply arrives or is lost.
DApplied(d, step) ==
  \/ DProceed(d, step)
  \/ /\ faults < MaxFaults
     /\ faults' = faults + 1
     /\ DGoto(d, DHandler(dpc[d]))

\* What a deletion leaves alone of the saga: all but its tables.
SagaElsewhere == UNCHANGED <<nextProfile, audit, pc, locals, revisions>>
TablesKept == UNCHANGED <<status, answers, scores, profiles, insights>>
PrivacyKept == UNCHANGED privacy

\* DELETE FROM profiles, with the insights that reference them.
ProfilesCascade == profiles' = {} /\ insights' = {}

\* DELETE FROM assessments, with the rows that reference them.
KeepsProfiles ==
  /\ status' = "absent"
  /\ answers' = NoAnswers
  /\ scores' = {}
  /\ UNCHANGED <<profiles, insights>>
AssessmentCascade ==
  /\ status' = "absent"
  /\ answers' = NoAnswers
  /\ scores' = {}
  /\ ProfilesCascade

\* DELETE FROM anonymous_sessions, with the rows that reference it.  (In the
\* mutant a consent outlives its session.)
KeepsConsents ==
  /\ session' = FALSE
  /\ request' = "none"
  /\ UNCHANGED consents
  /\ AssessmentCascade
SessionCascade ==
  /\ session' = FALSE
  /\ request' = "none"
  /\ consents' = 0
  /\ AssessmentCascade

\* UPDATE deletion_requests SET status = to.
UpdateRequest(to) == request' = IF request = "none" THEN "none" ELSE to

------------------------------------------------------------------------------
\* The call begins: SELECT the request.  Its status is read and not looked at.
LoadRequest(d) ==
  /\ dpc[d] = "idle"
  /\ DProceed(d, IF request = "none" THEN "notFound" ELSE "auditStart")
  /\ TablesKept /\ PrivacyKept /\ SagaElsewhere /\ UNCHANGED found

AuditStart(d) ==
  /\ dpc[d] = "auditStart"
  /\ trail' = trail \cup {"deletion_processed"}
  /\ DApplied(d, "selectAssessments")
  /\ TablesKept /\ SagaElsewhere
  /\ UNCHANGED <<session, consents, granted, request, found>>

SelectAssessments(d) ==
  /\ dpc[d] = "selectAssessments"
  /\ DProceed(d, IF status = "absent" THEN "deleteAssessments"
                                      ELSE "selectProfiles")
  /\ TablesKept /\ PrivacyKept /\ SagaElsewhere /\ UNCHANGED found

SelectProfiles(d) ==
  LET ids == {p.id : p \in profiles} IN
  /\ dpc[d] = "selectProfiles"
  /\ found' = [found EXCEPT ![d] = ids]
  /\ DProceed(d, IF ids = {} THEN "deleteProfiles" ELSE "deleteInsights")
  /\ TablesKept /\ PrivacyKept /\ SagaElsewhere

\* DELETE FROM insights WHERE profile_id is one of those found; all insights
\* there are belong to the one profile there is.
DeleteInsights(d) ==
  /\ dpc[d] = "deleteInsights"
  /\ insights' = IF \E p \in profiles : p.id \in found[d] THEN {} ELSE insights
  /\ DApplied(d, "deleteProfiles")
  /\ PrivacyKept /\ SagaElsewhere
  /\ UNCHANGED <<status, answers, scores, profiles, found>>

\* DELETE FROM profiles.  (In the mutant the reference of insights is NO ACTION
\* and stops the statement while there are insights.)
DeleteUnreferenced(d) ==
  /\ dpc[d] = "deleteProfiles"
  /\ IF insights = {} THEN profiles' = {} /\ DApplied(d, "deleteResponses")
                      ELSE UNCHANGED profiles /\ DProceed(d, "markFailed")
  /\ PrivacyKept /\ SagaElsewhere
  /\ UNCHANGED <<status, answers, scores, insights, found>>

DeleteProfiles(d) ==
  /\ dpc[d] = "deleteProfiles"
  /\ ProfilesCascade
  /\ DApplied(d, "deleteResponses")
  /\ PrivacyKept /\ SagaElsewhere
  /\ UNCHANGED <<status, answers, scores, found>>

DeleteResponses(d) ==
  /\ dpc[d] = "deleteResponses"
  /\ answers' = NoAnswers
  /\ DApplied(d, "deleteScores")
  /\ PrivacyKept /\ SagaElsewhere
  /\ UNCHANGED <<status, scores, profiles, insights, found>>

DeleteScores(d) ==
  /\ dpc[d] = "deleteScores"
  /\ scores' = {}
  /\ DApplied(d, "deleteAssessments")
  /\ PrivacyKept /\ SagaElsewhere
  /\ UNCHANGED <<status, answers, profiles, insights, found>>

\* DELETE FROM assessments, of the session and not of the ids found.
DeleteAssessments(d) ==
  /\ dpc[d] = "deleteAssessments"
  /\ AssessmentCascade
  /\ DApplied(d, "deleteConsents")
  /\ PrivacyKept /\ SagaElsewhere /\ UNCHANGED found

DeleteConsents(d) ==
  /\ dpc[d] = "deleteConsents"
  /\ consents' = 0
  /\ DApplied(d, "auditData")
  /\ TablesKept /\ SagaElsewhere
  /\ UNCHANGED <<session, granted, request, trail, found>>

\* (The mutant leaves the evidence for after the session is gone.)
AuditDataLater(d) ==
  /\ dpc[d] = "auditData"
  /\ DProceed(d, "countSession")
  /\ TablesKept /\ PrivacyKept /\ SagaElsewhere /\ UNCHANGED found

AuditData(d) ==
  /\ dpc[d] = "auditData"
  /\ trail' = trail \cup {"data_deleted"}
  /\ DApplied(d, "countSession")
  /\ TablesKept /\ SagaElsewhere
  /\ UNCHANGED <<session, consents, granted, request, found>>

CountSession(d) ==
  /\ dpc[d] = "countSession"
  /\ DProceed(d, "completeRequest")
  /\ TablesKept /\ PrivacyKept /\ SagaElsewhere /\ UNCHANGED found

CompleteRequest(d) ==
  /\ dpc[d] = "completeRequest"
  /\ UpdateRequest("completed")
  /\ DApplied(d, "deleteSession")
  /\ TablesKept /\ SagaElsewhere
  /\ UNCHANGED <<session, consents, granted, trail, found>>

DeleteSession(d) ==
  /\ dpc[d] = "deleteSession"
  /\ SessionCascade
  /\ DApplied(d, "auditSession")
  /\ SagaElsewhere
  /\ UNCHANGED <<granted, trail, found>>

AuditSession(d) ==
  /\ dpc[d] = "auditSession"
  /\ trail' = trail \cup {"session_deleted"}
  /\ DApplied(d, "success")
  /\ TablesKept /\ SagaElsewhere
  /\ UNCHANGED <<session, consents, granted, request, found>>

\* The catch block.
MarkFailed(d) ==
  /\ dpc[d] = "markFailed"
  /\ UpdateRequest("failed")
  /\ DApplied(d, "failed")
  /\ TablesKept /\ SagaElsewhere
  /\ UNCHANGED <<session, consents, granted, trail, found>>

\* A D1 call of a deletion rejects without having had an effect.
DeletionError(d) ==
  /\ dpc[d] \in {"idle"} \cup DeletionSteps
  /\ faults < MaxFaults
  /\ faults' = faults + 1
  /\ DGoto(d, DHandler(dpc[d]))
  /\ TablesKept /\ PrivacyKept /\ SagaElsewhere /\ UNCHANGED found

\* The isolate of a deletion is killed.
KillDeletion(d) ==
  /\ dpc[d] \in DeletionSteps
  /\ faults < MaxFaults
  /\ faults' = faults + 1
  /\ DGoto(d, "killed")
  /\ TablesKept /\ PrivacyKept /\ SagaElsewhere /\ UNCHANGED found

\* POST /consents: its INSERT, which a missing session stops.
GrantConsent ==
  /\ session
  /\ granted < MaxGrants
  /\ granted' = granted + 1
  /\ consents' = consents + 1
  /\ UNCHANGED <<sagaVars, session, request, trail, dpc, found>>

------------------------------------------------------------------------------
DeletionStep(d) ==
  \/ LoadRequest(d) \/ AuditStart(d) \/ SelectAssessments(d)
  \/ SelectProfiles(d) \/ DeleteInsights(d) \/ DeleteProfiles(d)
  \/ DeleteResponses(d) \/ DeleteScores(d) \/ DeleteAssessments(d)
  \/ DeleteConsents(d) \/ AuditData(d) \/ CountSession(d)
  \/ CompleteRequest(d) \/ DeleteSession(d) \/ AuditSession(d)
  \/ MarkFailed(d)

\* The scoring calls and their environment, on the same tables.
ScoringNext ==
  /\ \/ \E r \in Runs : Step(r) \/ D1Error(r) \/ Kill(r)
     \/ ResetFailed
     \/ ReviseAnswers
  /\ UNCHANGED <<privacy, dpc, found>>

AllEnded ==
  /\ \A r \in Runs : pc[r] \in Ended
  /\ \A d \in Deleters : dpc[d] \in DeletionEnded
  /\ UNCHANGED systemVars

SystemNext ==
  \/ \E d \in Deleters : DeletionStep(d) \/ DeletionError(d) \/ KillDeletion(d)
  \/ ScoringNext
  \/ GrantConsent
  \/ AllEnded

SystemSpec == SystemInit /\ [][SystemNext]_systemVars

\* The runtime serves the deletions it has not killed.  Nothing is owed by the
\* scoring calls, nor is any fault.
SystemFairSpec ==
  SystemSpec /\ \A d \in Deleters : WF_systemVars(DeletionStep(d))

------------------------------------------------------------------------------
(* Correctness                                                             *)

Erased ==
  /\ ~session
  /\ status = "absent" /\ answers = NoAnswers
  /\ scores = {} /\ profiles = {} /\ insights = {}
  /\ consents = 0

\* After a deletion has answered success nothing of the session is left, and
\* nothing comes back: not from a scoring call that is still writing, nor from
\* a consent granted meanwhile.
SuccessMeansErased == (\E d \in Deleters : dpc[d] = "success") => Erased

\* A request in status 'completed' has no report behind it any more, although a
\* scoring call may have written rows behind the deletion's back, and although
\* the session itself, and consents granted late, may be there for good if the
\* call is killed at that point.
CompletedRequestHoldsNoReport ==
  request = "completed" =>
    status = "absent" /\ scores = {} /\ profiles = {} /\ insights = {}

\* A session is never gone without an audit row that says its data were deleted.
ErasureIsAudited == ~session => "data_deleted" \in trail

\* Without faults every deletion that has begun erases the session, whatever
\* scoring calls and grants do to the tables it deletes from.
UninterruptedDeletionErases ==
  \A d \in Deleters :
    (dpc[d] = "auditStart") ~> (~session \/ faults > 0)

------------------------------------------------------------------------------
(* The deletions, and what runs beside them, implement SessionErasure.       *)

\* There are rows of a kind.
Has(k) ==
  \/ k = "session"    /\ session
  \/ k = "request"    /\ request # "none"
  \/ k = "consents"   /\ consents # 0
  \/ k = "assessment" /\ status # "absent"
  \/ k = "responses"  /\ answers # NoAnswers
  \/ k = "scores"     /\ scores # {}
  \/ k = "profile"    /\ profiles # {}
  \/ k = "insights"   /\ insights # {}

Kinds == {"session", "request", "consents", "assessment", "responses",
          "scores", "profile", "insights"}

Held == {k \in Kinds : Has(k)}
Audited == "data_deleted" \in trail
Answered == \E d \in Deleters : dpc[d] = "success"

Erasure == INSTANCE SessionErasure
  WITH held <- Held, audited <- Audited, answered <- Answered

\* Between any two statements of the deletions, and of the scoring call and the
\* grants beside them, no row is an orphan, nothing is written for a row that is
\* gone, and the evidence, the end of the session and the answer come in order.
ImplementsErasure == Erasure!Spec
==============================================================================

------------------------ MODULE SessionDeletionProofs ------------------------
(***************************************************************************)
(* Theorems about SessionDeletion, for any number of deletions and scoring *)
(* calls that overlap, and any number of faults and consents granted.      *)
(***************************************************************************)
EXTENDS SessionDeletion, ScoringSagaProofs

(* The inductive invariant.  The place of a deletion in its code tells what  *)
(* it has deleted; the foreign keys, which stop every later statement of a   *)
(* scoring call, tell that nothing of it has come back.                      *)

AssessmentGone == {"deleteConsents", "auditData", "countSession",
                   "completeRequest", "deleteSession"}
DataAudited == {"countSession", "completeRequest", "deleteSession"}
SessionGone == {"auditSession", "success"}

\* What the references of the migration guarantee.
ForeignKeys ==
  /\ status = "absent" => scores = {} /\ profiles = {} /\ answers = NoAnswers
  /\ profiles = {} => insights = {}
  /\ ~session => status = "absent" /\ consents = 0 /\ request = "none"

DeletionInv(d) ==
  /\ dpc[d] \in AssessmentGone => status = "absent"
  /\ dpc[d] \in DataAudited => "data_deleted" \in trail
  /\ dpc[d] \in SessionGone => ~session

Places == dpc \in [Deleters -> {"idle"} \cup DeletionSteps \cup DeletionEnded]

SystemInv ==
  /\ ForeignKeys
  /\ Places
  /\ \A d \in Deleters : DeletionInv(d)
  /\ request = "completed" => status = "absent"
  /\ ErasureIsAudited

\* What no step undoes: a row deleted for good, and a trail.
Lasting ==
  /\ status = "absent" => status' = "absent"
  /\ ~session => ~session'
  /\ trail \subseteq trail'

\* The statements of a scoring call respect the foreign keys, so a call that
\* runs on after a deletion writes nothing.
LEMMA ScoringKeepsKeys ==
  ASSUME ForeignKeys, ScoringNext
  PROVE  ForeignKeys' /\ ((status' = "absent") <=> (status = "absent"))
<1> USE DEF ForeignKeys
<1>1. UNCHANGED privacy
  BY DEF ScoringNext
<1>2. status = "absent" => status' = "absent"
  <2>1. Next
    BY DEF ScoringNext, Next
  <2>2. QED
    BY <2>1, StatusMoves DEF StatusStep, Unsettled
<1>3. status' = "absent" => status = "absent"
  BY DEF ScoringNext, Step, db, UpdateStatus, ReadStatus, ReadProfileId,
     LoadResponses, PersistScores, BlockScores, ReadScores, UpsertProfile,
     MarkProfiled, ReadProfile, UpsertInsight, Finish, Compensate,
     AuditCompensation, D1Error, Kill, ResetFailed, ReviseAnswers
<1>4. status = "absent" => UNCHANGED answers
  BY DEF ScoringNext, Step, db, ReadStatus, ReadProfileId, LoadResponses,
     PersistScores, BlockScores, ReadScores, UpsertProfile, MarkProfiled,
     ReadProfile, UpsertInsight, Finish, Compensate, AuditCompensation,
     D1Error, Kill, ResetFailed, ReviseAnswers
<1>5. status = "absent" => scores' = {} /\ profiles' = {}
  BY DEF ScoringNext, Step, db, ReadStatus, ReadProfileId, LoadResponses,
     PersistScores, BlockScores, ReadScores, UpsertProfile, MarkProfiled,
     ReadProfile, UpsertInsight, Finish, Compensate, AuditCompensation,
     D1Error, Kill, ResetFailed, ReviseAnswers
<1>6. profiles' = {} => insights' = {}
  BY ZenonT(40) DEF ScoringNext, Step, db, ReadStatus, ReadProfileId, LoadResponses,
     PersistScores, BlockScores, ReadScores, UpsertProfile, MarkProfiled,
     ReadProfile, UpsertInsight, Finish, Compensate, AuditCompensation,
     D1Error, Kill, ResetFailed, ReviseAnswers
<1>7. QED
  BY <1>1, <1>2, <1>3, <1>4, <1>5, <1>6 DEF privacy

\* So do the statements of a deletion, whose cascades leave no reference to a
\* row that is gone.
LEMMA DeletionKeepsKeys ==
  ASSUME ForeignKeys,
         NEW d \in Deleters,
         DeletionStep(d) \/ DeletionError(d) \/ KillDeletion(d)
  PROVE  ForeignKeys' /\ Lasting
<1> USE DEF ForeignKeys, Lasting, TablesKept, PrivacyKept, privacy
<1>1. CASE LoadRequest(d) \/ SelectAssessments(d) \/ SelectProfiles(d)
           \/ CountSession(d) \/ DeletionError(d) \/ KillDeletion(d)
  BY <1>1 DEF LoadRequest, SelectAssessments, SelectProfiles, CountSession,
              DeletionError, KillDeletion
<1>2. CASE AuditStart(d) \/ AuditData(d) \/ AuditSession(d)
  BY <1>2 DEF AuditStart, AuditData, AuditSession
<1>3. CASE CompleteRequest(d) \/ MarkFailed(d)
  BY <1>3 DEF CompleteRequest, MarkFailed, UpdateRequest
<1>4. CASE DeleteInsights(d) \/ DeleteProfiles(d) \/ DeleteResponses(d)
           \/ DeleteScores(d) \/ DeleteConsents(d)
  BY <1>4 DEF DeleteInsights, DeleteProfiles, DeleteResponses, DeleteScores,
              DeleteConsents, ProfilesCascade
<1>5. CASE DeleteAssessments(d)
  BY <1>5 DEF DeleteAssessments, AssessmentCascade, ProfilesCascade
<1>6. CASE DeleteSession(d)
  BY <1>6 DEF DeleteSession, SessionCascade, AssessmentCascade,
              ProfilesCascade
<1>7. QED
  BY <1>1, <1>2, <1>3, <1>4, <1>5, <1>6 DEF DeletionStep

\* A step of one deletion changes the place of that deletion only.
LEMMA DeletionElsewhere ==
  ASSUME Places,
         NEW d \in Deleters,
         DeletionStep(d) \/ DeletionError(d) \/ KillDeletion(d)
  PROVE  Places' /\ \A e \in Deleters \ {d} : dpc'[e] = dpc[e]
<1>1. PICK step \in DeletionSteps \cup DeletionEnded : DGoto(d, step)
  BY DEF DProceed, DApplied, DHandler, DeletionSteps, DeletionEnded,
         DeletionStep, LoadRequest, AuditStart, SelectAssessments,
         SelectProfiles, DeleteInsights, DeleteProfiles, DeleteResponses,
         DeleteScores, DeleteAssessments, DeleteConsents, AuditData,
         CountSession, CompleteRequest, DeleteSession, AuditSession,
         MarkFailed, DeletionError, KillDeletion
<1>2. QED
  BY <1>1 DEF Places, DGoto

\* Each step keeps what every deletion's place says of the tables.
LEMMA SystemInvInductive ==
  ASSUME SystemInv, [SystemNext]_systemVars
  PROVE  SystemInv'
<1>1. ASSUME Lasting, NEW d \in Deleters, dpc'[d] = dpc[d]
      PROVE  DeletionInv(d)'
  BY <1>1 DEF SystemInv, DeletionInv, Lasting
<1>2. ASSUME NEW d \in Deleters,
             DeletionStep(d) \/ DeletionError(d) \/ KillDeletion(d)
      PROVE  SystemInv'
  <2> USE DEF Lasting, AssessmentGone, DataAudited, SessionGone, TablesKept,
              PrivacyKept, privacy
  <2>1. ForeignKeys' /\ Lasting
    BY <1>2, DeletionKeepsKeys DEF SystemInv
  <2>2. Places' /\ \A e \in Deleters \ {d} : dpc'[e] = dpc[e]
    BY <1>2, DeletionElsewhere DEF SystemInv
  <2>3. \A e \in Deleters \ {d} : DeletionInv(e)'
    BY <1>1, <2>1, <2>2
  <2>4. DeletionInv(d)'
    <3>1. dpc'[d] \in AssessmentGone => status' = "absent"
      BY <1>2, <2>1 DEF SystemInv, DeletionInv, Places, DGoto, DProceed,
         DApplied, DHandler, DeletionStep, LoadRequest, AuditStart,
         SelectAssessments, SelectProfiles, DeleteInsights, DeleteProfiles,
         DeleteResponses, DeleteScores, DeleteAssessments, AssessmentCascade,
         DeleteConsents, AuditData, CountSession, CompleteRequest,
         DeleteSession, AuditSession, MarkFailed, DeletionError, KillDeletion
    <3>2. dpc'[d] \in DataAudited => "data_deleted" \in trail'
      BY <1>2, <2>1 DEF SystemInv, DeletionInv, Places, DGoto, DProceed,
         DApplied, DHandler, DeletionStep, LoadRequest, AuditStart,
         SelectAssessments, SelectProfiles, DeleteInsights, DeleteProfiles,
         DeleteResponses, DeleteScores, DeleteAssessments,
         DeleteConsents, AuditData, CountSession, CompleteRequest,
         DeleteSession, AuditSession, MarkFailed, DeletionError, KillDeletion
    <3>3. dpc'[d] \in SessionGone => ~session'
      BY <1>2, <2>1 DEF SystemInv, DeletionInv, Places, DGoto, DProceed,
         DApplied, DHandler, DeletionStep, LoadRequest, AuditStart,
         SelectAssessments, SelectProfiles, DeleteInsights, DeleteProfiles,
         DeleteResponses, DeleteScores, DeleteAssessments,
         DeleteConsents, AuditData, CountSession, CompleteRequest,
         DeleteSession, SessionCascade, AuditSession, MarkFailed,
         DeletionError, KillDeletion
    <3>4. QED
      BY <3>1, <3>2, <3>3 DEF DeletionInv
  <2>5. request' = "completed" => status' = "absent"
    <3>1. request' = request \/ request' \in {"none", "failed"}
          \/ CompleteRequest(d)
      BY <1>2 DEF DeletionStep, LoadRequest, AuditStart, SelectAssessments,
         SelectProfiles, DeleteInsights, DeleteProfiles, DeleteResponses,
         DeleteScores, DeleteAssessments, DeleteConsents, AuditData,
         CountSession, DeleteSession, SessionCascade, AuditSession,
         MarkFailed, UpdateRequest, DeletionError, KillDeletion
    <3>2. CompleteRequest(d) => status = "absent"
      BY DEF CompleteRequest, SystemInv, DeletionInv
    <3>3. QED
      BY <2>1, <3>1, <3>2 DEF SystemInv
  <2>6. ErasureIsAudited'
    <3>1. session' = session \/ DeleteSession(d)
      BY <1>2 DEF DeletionStep, LoadRequest, AuditStart, SelectAssessments,
         SelectProfiles, DeleteInsights, DeleteProfiles, DeleteResponses,
         DeleteScores, DeleteAssessments, DeleteConsents, AuditData,
         CountSession, CompleteRequest, AuditSession, MarkFailed,
         DeletionError, KillDeletion
    <3>2. DeleteSession(d) => "data_deleted" \in trail
      BY DEF DeleteSession, SystemInv, DeletionInv
    <3>3. QED
      BY <2>1, <3>1, <3>2 DEF SystemInv, ErasureIsAudited
  <2>7. QED
    BY <2>1, <2>2, <2>3, <2>4, <2>5, <2>6 DEF SystemInv
<1>3. CASE ScoringNext
  <2>1. ForeignKeys' /\ ((status' = "absent") <=> (status = "absent"))
    BY <1>3, ScoringKeepsKeys DEF SystemInv
  <2>2. UNCHANGED <<session, request, trail, dpc>>
    BY <1>3 DEF ScoringNext, privacy
  <2>3. \A d \in Deleters : DeletionInv(d)'
    BY <1>1, <2>1, <2>2 DEF Lasting
  <2>4. QED
    BY <2>1, <2>2, <2>3 DEF SystemInv, Places, ErasureIsAudited
<1>4. CASE GrantConsent \/ UNCHANGED systemVars
  <2>1. ForeignKeys' /\ UNCHANGED <<status, session, request, trail, dpc>>
    BY <1>4 DEF SystemInv, ForeignKeys, GrantConsent, systemVars, sagaVars,
                db, privacy
  <2>2. \A d \in Deleters : DeletionInv(d)'
    BY <1>1, <2>1 DEF Lasting
  <2>3. QED
    BY <2>1, <2>2 DEF SystemInv, Places, ErasureIsAudited
<1>5. QED
  BY <1>2, <1>3, <1>4 DEF SystemNext, AllEnded

\* The invariant holds in every reachable state.
LEMMA SystemInvAlways == SystemSpec => []SystemInv
<1>1. SystemInit => SystemInv
  BY DEF SystemInit, Init, SystemInv, ForeignKeys, Places, DeletionInv,
         AssessmentGone, DataAudited, SessionGone, ErasureIsAudited
<1>2. SystemInv /\ [SystemNext]_systemVars => SystemInv'
  BY SystemInvInductive
<1>3. QED
  BY <1>1, <1>2, PTL DEF SystemSpec

------------------------------------------------------------------------------
(* Type correctness.  A consent row was there at first or has been granted:   *)
(* without that the number of rows is not bounded by the grants.              *)

GrantsCounted == consents <= granted + 1

\* The statements of a deletion take rows away and write none but evidence.
LEMMA DeletionOnlyDeletes ==
  ASSUME NEW d \in Deleters,
         DeletionStep(d) \/ DeletionError(d) \/ KillDeletion(d)
  PROVE  /\ session' \in {session, FALSE}
         /\ request' = request \/ request' = "none" \/ request # "none"
         /\ consents' \in {consents, 0}
         /\ status' \in {status, "absent"}
         /\ answers' \in {answers, NoAnswers}
         /\ scores' \in {scores, {}}
         /\ profiles' \in {profiles, {}}
         /\ insights' \in {insights, {}}
<1>1. /\ session' \in {session, FALSE}
      /\ request' = request \/ request' = "none" \/ request # "none"
      /\ consents' \in {consents, 0}
  BY DEF DeletionStep, LoadRequest, AuditStart, SelectAssessments,
         SelectProfiles, DeleteInsights, DeleteProfiles, DeleteResponses,
         DeleteScores, DeleteAssessments, DeleteConsents, AuditData,
         CountSession, CompleteRequest, DeleteSession, AuditSession,
         MarkFailed, DeletionError, KillDeletion, PrivacyKept, privacy,
         SessionCascade, UpdateRequest
<1>2. /\ status' \in {status, "absent"}
      /\ answers' \in {answers, NoAnswers}
      /\ scores' \in {scores, {}}
      /\ profiles' \in {profiles, {}}
      /\ insights' \in {insights, {}}
  BY DEF DeletionStep, LoadRequest, AuditStart, SelectAssessments,
         SelectProfiles, DeleteInsights, DeleteProfiles, DeleteResponses,
         DeleteScores, DeleteAssessments, DeleteConsents, AuditData,
         CountSession, CompleteRequest, DeleteSession, AuditSession,
         MarkFailed, DeletionError, KillDeletion, TablesKept,
         SessionCascade, AssessmentCascade, ProfilesCascade
<1>3. QED
  BY <1>1, <1>2

\* A deletion's cascades leave subsets of the tables the saga is typed for.
LEMMA DeletionKeepsTables ==
  ASSUME TypeOK,
         NEW d \in Deleters,
         DeletionStep(d) \/ DeletionError(d) \/ KillDeletion(d)
  PROVE  TypeOK'
<1> USE ScoringAssumption, DeletionAssumption
<1>1. faults' \in 0..MaxFaults
  BY DEF TypeOK, DeletionStep, LoadRequest, AuditStart, SelectAssessments,
         SelectProfiles, DeleteInsights, DeleteProfiles, DeleteResponses,
         DeleteScores, DeleteAssessments, DeleteConsents, AuditData,
         CountSession, CompleteRequest, DeleteSession, AuditSession,
         MarkFailed, DeletionError, KillDeletion, DProceed, DApplied
<1>2. UNCHANGED <<nextProfile, audit, pc, mine, vector, profileId, seen,
                  context, revisions>>
  BY DEF DeletionStep, LoadRequest, AuditStart, SelectAssessments,
         SelectProfiles, DeleteInsights, DeleteProfiles, DeleteResponses,
         DeleteScores, DeleteAssessments, DeleteConsents, AuditData,
         CountSession, CompleteRequest, DeleteSession, AuditSession,
         MarkFailed, DeletionError, KillDeletion, SagaElsewhere, locals
<1>3. /\ status' \in {status, "absent"}
      /\ answers' \in {answers, NoAnswers}
      /\ scores' \in {scores, {}}
      /\ profiles' \in {profiles, {}}
      /\ insights' \in {insights, {}}
  BY DeletionOnlyDeletes
<1>4. NoAnswers \in Answers /\ "absent" \in Statuses
  BY DEF Statuses
<1>5. QED
  BY <1>1, <1>2, <1>3, <1>4 DEF TypeOK

LEMMA DeletionTypeInductive ==
  ASSUME DeletionTypeOK, GrantsCounted, [SystemNext]_systemVars
  PROVE  DeletionTypeOK' /\ GrantsCounted'
<1> USE DeletionAssumption DEF GrantsCounted
<1>1. ASSUME NEW d \in Deleters,
             DeletionStep(d) \/ DeletionError(d) \/ KillDeletion(d)
      PROVE  DeletionTypeOK' /\ GrantsCounted'
  <2>1. TypeOK'
    BY <1>1, DeletionKeepsTables DEF DeletionTypeOK
  <2>2. Places'
    BY <1>1, DeletionElsewhere DEF DeletionTypeOK, Places
  <2>3. /\ granted' = granted
        /\ consents' \in {consents, 0}
        /\ session' \in {session, FALSE}
        /\ request' \in {request, "none", "completed", "failed"}
    BY <1>1 DEF DeletionStep, LoadRequest, AuditStart, SelectAssessments,
       SelectProfiles, DeleteInsights, DeleteProfiles, DeleteResponses,
       DeleteScores, DeleteAssessments, DeleteConsents, AuditData,
       CountSession, CompleteRequest, DeleteSession, AuditSession,
       MarkFailed, DeletionError, KillDeletion, PrivacyKept, privacy,
       SessionCascade, UpdateRequest
  <2>4. trail' \subseteq trail \cup {"deletion_processed", "data_deleted",
                                     "session_deleted"}
    BY <1>1 DEF DeletionStep, LoadRequest, AuditStart, SelectAssessments,
       SelectProfiles, DeleteInsights, DeleteProfiles, DeleteResponses,
       DeleteScores, DeleteAssessments, DeleteConsents, AuditData,
       CountSession, CompleteRequest, DeleteSession, AuditSession,
       MarkFailed, DeletionError, KillDeletion, PrivacyKept, privacy
  <2>5. found' = found \/ SelectProfiles(d)
    BY <1>1 DEF DeletionStep, LoadRequest, AuditStart, SelectAssessments,
       DeleteInsights, DeleteProfiles, DeleteResponses, DeleteScores,
       DeleteAssessments, DeleteConsents, AuditData, CountSession,
       CompleteRequest, DeleteSession, AuditSession, MarkFailed,
       DeletionError, KillDeletion
  <2>6. found' \in [Deleters -> SUBSET Nat]
    <3>1. {p.id : p \in profiles} \in SUBSET Nat
      BY DEF DeletionTypeOK, TypeOK, ProfileRow
    <3>2. QED
      BY <2>5, <3>1 DEF SelectProfiles, DeletionTypeOK
  <2>7. consents' \in 0..(MaxGrants + 1) /\ GrantsCounted'
    BY <2>3 DEF DeletionTypeOK
  <2>8. trail' \subseteq {"deletion_processed", "data_deleted",
                         "session_deleted"}
    BY <2>4 DEF DeletionTypeOK
  <2>9. QED
    BY <2>1, <2>2, <2>3, <2>6, <2>7, <2>8 DEF DeletionTypeOK, Places
<1>2. CASE ScoringNext
  <2>1. TypeOK'
    BY <1>2, TypeInductive DEF ScoringNext, Next, DeletionTypeOK
  <2>2. QED
    BY <1>2, <2>1 DEF ScoringNext, privacy, DeletionTypeOK
<1>3. CASE GrantConsent
  <2>1. TypeOK'
    BY <1>3, TypeInductive DEF GrantConsent, DeletionTypeOK
  <2>2. QED
    BY <1>3, <2>1 DEF GrantConsent, DeletionTypeOK
<1>4. CASE UNCHANGED systemVars
  <2>1. TypeOK'
    BY <1>4, TypeInductive DEF systemVars, DeletionTypeOK
  <2>2. QED
    BY <1>4, <2>1 DEF systemVars, privacy, DeletionTypeOK
<1>5. QED
  BY <1>1, <1>2, <1>3, <1>4 DEF SystemNext, AllEnded

------------------------------------------------------------------------------
\* Every state of the deletions, and of the scoring calls beside them, is well
\* typed: the cascades and the catch block leave no call and no row where its
\* code or its table has no place for it.
THEOREM DeletionTypeCorrect == SystemSpec => []DeletionTypeOK
<1> USE ScoringAssumption, DeletionAssumption
<1>1. SystemInit => DeletionTypeOK /\ GrantsCounted
  <2>1. SystemInit => TypeOK
    BY DEF SystemInit, Init, TypeOK, Statuses, Contexts
  <2>2. QED
    BY <2>1 DEF SystemInit, DeletionTypeOK, GrantsCounted
<1>2. DeletionTypeOK /\ GrantsCounted /\ [SystemNext]_systemVars
        => DeletionTypeOK' /\ GrantsCounted'
  BY DeletionTypeInductive
<1>3. QED
  BY <1>1, <1>2, PTL DEF SystemSpec

\* A deletion that has answered success has left nothing of the session, and
\* nothing that still runs ever brings any of it back.
THEOREM SuccessErases == SystemSpec => []SuccessMeansErased
<1>1. SystemInv => SuccessMeansErased
  BY DEF SystemInv, ForeignKeys, DeletionInv, SessionGone, SuccessMeansErased,
         Erased
<1>2. QED
  BY <1>1, SystemInvAlways, PTL

\* A request marked completed has no scores, profile or insights behind it,
\* whichever scoring call was writing them meanwhile.
THEOREM CompletedHoldsNoReport == SystemSpec => []CompletedRequestHoldsNoReport
<1>1. SystemInv => CompletedRequestHoldsNoReport
  BY DEF SystemInv, ForeignKeys, CompletedRequestHoldsNoReport
<1>2. QED
  BY <1>1, SystemInvAlways, PTL

\* The session row never goes before the audit row of the deletion of its data.
THEOREM AuditPrecedesErasure == SystemSpec => []ErasureIsAudited
<1>1. SystemInv => ErasureIsAudited
  BY DEF SystemInv
<1>2. QED
  BY <1>1, SystemInvAlways, PTL

------------------------------------------------------------------------------
(* The refinement of SessionErasure.                                        *)

Intact == Erasure!NoOrphans(Held)

\* The foreign keys are just what the abstract specification asks of the rows.
LEMMA KeysLeaveNoOrphans == ForeignKeys => Intact
BY DEF ForeignKeys, Intact, Erasure!NoOrphans, Erasure!Owner, Held, Has, Kinds

\* A step that leaves all kinds but one as they are, and the one's owner there,
\* writes that kind or deletes it.
LEMMA OneKindMoves ==
  ASSUME NEW k \in {"consents", "responses", "scores", "profile", "insights"},
         \A j \in Kinds \ {k} : Has(j)' <=> Has(j),
         Has(Erasure!Owner[k]), Intact', session \/ Audited,
         UNCHANGED <<Audited, Answered>>
  PROVE  [Erasure!Next]_(Erasure!erasureVars)
<1>1. Held' = Held \cup {k} \/ Held' \subseteq Held
  BY DEF Held, Kinds
<1>2. CASE Held' = Held \cup {k}
  <2>1. Erasure!Owner[k] \in Held
    BY DEF Held, Kinds, Erasure!Owner
  <2>2. k \in Erasure!Kinds \ Erasure!Founding
    BY DEF Erasure!Kinds, Erasure!Owner, Erasure!Founding
  <2>3. QED
    BY <1>2, <2>1, <2>2 DEF Erasure!Next, Erasure!Write
<1>3. CASE Held' \subseteq Held
  <2>1. session' <=> session
    BY DEF Has, Kinds
  <2>2. "session" \in Held' \/ Audited
    BY <2>1 DEF Held, Has, Kinds
  <2>3. QED
    BY <1>3, <2>2 DEF Erasure!Next, Erasure!Erase, Intact
<1>4. QED
  BY <1>1, <1>2, <1>3

\* A statement of a deletion deletes, leaves evidence, or is followed by the
\* answer when everything has gone.
LEMMA DeletionStepErases ==
  ASSUME SystemInv, Intact',
         NEW d \in Deleters,
         DeletionStep(d) \/ DeletionError(d) \/ KillDeletion(d)
  PROVE  [Erasure!Next]_(Erasure!erasureVars)
<1>1. \A k \in Kinds : Has(k)' => Has(k)
  BY DeletionOnlyDeletes DEF Has, Kinds
<1>2. Held' \subseteq Held
  BY <1>1 DEF Held
<1>3. \A e \in Deleters \ {d} : dpc'[e] = dpc[e]
  BY DeletionElsewhere DEF SystemInv
<1>4. CASE AuditSession(d)
  <2>1. UNCHANGED <<Held, Audited>>
    BY <1>4 DEF AuditSession, TablesKept, Held, Has, Kinds, Audited
  <2>2. Held = {}
    BY <1>4 DEF AuditSession, SystemInv, DeletionInv, SessionGone,
       ForeignKeys, Held, Has, Kinds
  <2>3. dpc'[d] = "success" => Answered'
    BY DEF Answered
  <2>4. dpc'[d] # "success" => Answered' = Answered
    BY <1>3, <1>4 DEF Answered, AuditSession
  <2>5. QED
    BY <2>1, <2>2, <2>3, <2>4 DEF Erasure!Next, Erasure!Answer,
       Erasure!erasureVars, Answered
<1>5. CASE ~AuditSession(d)
  <2>1. dpc[d] # "success" /\ dpc'[d] # "success"
    BY <1>5 DEF SystemInv, Places, DGoto, DProceed, DApplied, DHandler,
       DeletionSteps, DeletionStep, LoadRequest, AuditStart, SelectAssessments,
       SelectProfiles, DeleteInsights, DeleteProfiles, DeleteResponses,
       DeleteScores, DeleteAssessments, DeleteConsents, AuditData,
       CountSession, CompleteRequest, DeleteSession, MarkFailed,
       DeletionError, KillDeletion
  <2>2. Answered' = Answered
    BY <1>3, <2>1 DEF Answered
  <2>3. CASE AuditData(d)
    <3>1. UNCHANGED Held /\ Audited' = TRUE
      BY <2>3 DEF AuditData, TablesKept, Held, Has, Kinds, Audited
    <3>2. QED
      BY <2>2, <3>1 DEF Erasure!Next, Erasure!Audit
  <2>4. CASE ~AuditData(d)
    <3>1. Audited' = Audited
      BY <1>5, <2>4 DEF Audited, DeletionStep, LoadRequest, AuditStart,
         SelectAssessments, SelectProfiles, DeleteInsights, DeleteProfiles,
         DeleteResponses, DeleteScores, DeleteAssessments, DeleteConsents,
         CountSession, CompleteRequest, DeleteSession, MarkFailed,
         DeletionError, KillDeletion, PrivacyKept, privacy
    <3>2. session' = session \/ DeleteSession(d)
      BY <1>5, <2>4 DEF DeletionStep, LoadRequest, AuditStart,
         SelectAssessments, SelectProfiles, DeleteInsights, DeleteProfiles,
         DeleteResponses, DeleteScores, DeleteAssessments, DeleteConsents,
         CountSession, CompleteRequest, MarkFailed, DeletionError,
         KillDeletion, PrivacyKept, privacy
    <3>3. DeleteSession(d) => Audited
      BY DEF SystemInv, DeletionInv, DataAudited, DeleteSession, Audited
    <3>4. session' \/ Audited
      BY <3>2, <3>3 DEF SystemInv, ErasureIsAudited, Audited
    <3>5. "session" \in Held' \/ Audited
      BY <3>4 DEF Held, Has, Kinds
    <3>6. QED
      BY <1>2, <2>2, <3>1, <3>5 DEF Erasure!Next, Erasure!Erase, Intact
  <2>5. QED
    BY <2>3, <2>4
<1>6. QED
  BY <1>4, <1>5

\* A scoring call writes one kind of row at a time, and only for a row that is
\* there; on a deleted assessment it writes nothing.
LEMMA ScoringStepWrites ==
  ASSUME SystemInv, Intact', ScoringNext
  PROVE  [Erasure!Next]_(Erasure!erasureVars)
<1>1. UNCHANGED <<session, request, consents, trail, dpc>>
  BY DEF ScoringNext, privacy
<1>2. UNCHANGED <<Audited, Answered>> /\ (session \/ Audited)
  BY <1>1 DEF Audited, Answered, SystemInv, ErasureIsAudited
<1>3. (status' = "absent") <=> (status = "absent")
  BY ScoringKeepsKeys DEF SystemInv
<1>4. \A k \in {"session", "request", "consents", "assessment"} :
        Has(k)' <=> Has(k)
  BY <1>1, <1>3 DEF Has
<1>5. CASE UNCHANGED <<answers, profiles, insights>>
           /\ ((scores' # {}) <=> (scores # {}))
  <2>1. \A k \in Kinds : Has(k)' <=> Has(k)
    BY <1>4, <1>5 DEF Has, Kinds
  <2>2. Held' = Held
    BY <2>1 DEF Held
  <2>3. QED
    BY <1>2, <2>2 DEF Erasure!erasureVars
<1>6. ASSUME NEW r \in Runs, PersistScores(r)
      PROVE  [Erasure!Next]_(Erasure!erasureVars)
  <2>1. CASE status = "absent"
    BY <1>5, <1>6, <2>1 DEF PersistScores
  <2>2. CASE status # "absent"
    <3>1. UNCHANGED <<answers, profiles, insights>>
      BY <1>6 DEF PersistScores
    <3>2. \A j \in Kinds \ {"scores"} : Has(j)' <=> Has(j)
      BY <1>4, <3>1 DEF Has, Kinds
    <3>3. Has(Erasure!Owner["scores"])
      BY <2>2 DEF Has, Erasure!Owner
    <3>4. QED
      BY <1>2, <3>2, <3>3, OneKindMoves
  <2>3. QED
    BY <2>1, <2>2
<1>7. ASSUME NEW r \in Runs, UpsertProfile(r)
      PROVE  [Erasure!Next]_(Erasure!erasureVars)
  <2>1. CASE status = "absent"
    BY <1>5, <1>7, <2>1 DEF UpsertProfile
  <2>2. CASE status # "absent"
    <3>1. UNCHANGED <<answers, scores, insights>>
      BY <1>7 DEF UpsertProfile
    <3>2. \A j \in Kinds \ {"profile"} : Has(j)' <=> Has(j)
      BY <1>4, <3>1 DEF Has, Kinds
    <3>3. Has(Erasure!Owner["profile"])
      BY <2>2 DEF Has, Erasure!Owner
    <3>4. QED
      BY <1>2, <3>2, <3>3, OneKindMoves
  <2>3. QED
    BY <2>1, <2>2
<1>8. ASSUME NEW r \in Runs, UpsertInsight(r)
      PROVE  [Erasure!Next]_(Erasure!erasureVars)
  <2>1. UNCHANGED <<answers, scores, profiles>>
    BY <1>8 DEF UpsertInsight
  <2>2. CASE profiles = {}
    BY <1>5, <1>8, <2>1, <2>2 DEF UpsertInsight
  <2>3. CASE profiles # {}
    <3>1. \A j \in Kinds \ {"insights"} : Has(j)' <=> Has(j)
      BY <1>4, <2>1 DEF Has, Kinds
    <3>2. Has(Erasure!Owner["insights"])
      BY <2>3 DEF Has, Erasure!Owner
    <3>3. QED
      BY <1>2, <3>1, <3>2, OneKindMoves
  <2>4. QED
    BY <2>2, <2>3
<1>9. CASE ReviseAnswers
  <2>1. UNCHANGED <<scores, profiles, insights>> /\ status # "absent"
    BY <1>9 DEF ReviseAnswers
  <2>2. \A j \in Kinds \ {"responses"} : Has(j)' <=> Has(j)
    BY <1>4, <2>1 DEF Has, Kinds
  <2>3. Has(Erasure!Owner["responses"])
    BY <2>1 DEF Has, Erasure!Owner
  <2>4. QED
    BY <1>2, <2>2, <2>3, OneKindMoves
<1>10. ASSUME NEW r \in Runs, BlockScores(r)
       PROVE  [Erasure!Next]_(Erasure!erasureVars)
  BY <1>5, <1>10 DEF BlockScores
<1>11. ASSUME NEW r \in Runs,
              \/ ReadStatus(r) \/ ReadProfileId(r) \/ LoadResponses(r)
              \/ ReadScores(r) \/ MarkProfiled(r) \/ ReadProfile(r)
              \/ Finish(r) \/ Compensate(r) \/ AuditCompensation(r)
              \/ D1Error(r) \/ Kill(r)
       PROVE  [Erasure!Next]_(Erasure!erasureVars)
  BY <1>5, <1>11 DEF db, ReadStatus, ReadProfileId, LoadResponses, ReadScores,
     MarkProfiled, ReadProfile, Finish, Compensate, AuditCompensation,
     D1Error, Kill
<1>12. CASE ResetFailed
  BY <1>5, <1>12 DEF ResetFailed
<1>13. QED
  BY <1>6, <1>7, <1>8, <1>9, <1>10, <1>11, <1>12 DEF ScoringNext, Step

\* The deletions implement the abstract erasure beside any scoring calls and
\* grants: no row of the person is ever an orphan, none comes back once the
\* session is gone, and success is answered only when nothing is left
\* (processDeletion).
THEOREM DeletionImplementsErasure == SystemSpec => ImplementsErasure
<1>1. SystemInit => Erasure!Init
  <2> SUFFICES ASSUME SystemInit
               PROVE  Erasure!Init
    OBVIOUS
  <2>1. ForeignKeys
    BY DEF SystemInit, Init, ForeignKeys
  <2>2. Erasure!NoOrphans(Held)
    BY <2>1, KeysLeaveNoOrphans DEF Intact
  <2>3. Held \subseteq Erasure!Kinds /\ "session" \in Held
    BY DEF SystemInit, Held, Has, Kinds, Erasure!Kinds, Erasure!Owner
  <2>4. Audited = FALSE /\ Answered = FALSE
    BY DEF SystemInit, Audited, Answered
  <2>5. QED
    BY <2>2, <2>3, <2>4 DEF Erasure!Init
<1>2. SystemInv /\ Intact' /\ [SystemNext]_systemVars
        => [Erasure!Next]_(Erasure!erasureVars)
  <2> SUFFICES ASSUME SystemInv, Intact', [SystemNext]_systemVars
               PROVE  [Erasure!Next]_(Erasure!erasureVars)
    OBVIOUS
  <2>1. CASE \E d \in Deleters :
               DeletionStep(d) \/ DeletionError(d) \/ KillDeletion(d)
    BY <2>1, DeletionStepErases
  <2>2. CASE ScoringNext
    BY <2>2, ScoringStepWrites
  <2>3. CASE GrantConsent
    <3>1. \A j \in Kinds \ {"consents"} : Has(j)' <=> Has(j)
      BY <2>3 DEF GrantConsent, sagaVars, db, Has, Kinds
    <3>2. Has(Erasure!Owner["consents"]) /\ session
      BY <2>3 DEF GrantConsent, Has, Erasure!Owner
    <3>3. UNCHANGED <<Audited, Answered>>
      BY <2>3 DEF GrantConsent, Audited, Answered
    <3>4. QED
      BY <3>1, <3>2, <3>3, OneKindMoves
  <2>4. CASE UNCHANGED systemVars
    <3>1. UNCHANGED <<Held, Audited, Answered>>
      BY <2>4 DEF systemVars, sagaVars, db, privacy, Held, Has, Audited,
         Answered
    <3>2. QED
      BY <3>1 DEF Erasure!erasureVars
  <2>5. QED
    BY <2>1, <2>2, <2>3, <2>4 DEF SystemNext, AllEnded
<1>3. SystemInv => Intact
  BY KeysLeaveNoOrphans DEF SystemInv
<1>4. QED
  BY <1>1, <1>2, <1>3, SystemInvAlways, PTL
     DEF SystemSpec, ImplementsErasure, Erasure!Spec
==============================================================================

----------------------------- MODULE ScoringSaga -----------------------------
(***************************************************************************)
(* runScoringPipeline and compensateScoring of                             *)
(* apps/workers/src/services/scoring/saga.ts, for one assessment.          *)
(*                                                                         *)
(* A run is one call.  Every awaited D1 call is one action, because other  *)
(* requests are served, and the isolate may be killed, between two of      *)
(* them; a db.batch is one call and all or nothing.  Tables are sets of    *)
(* rows: {} is "no row", a cascade or an UPSERT is a set expression.       *)
(*                                                                         *)
(* The scores, the type and the insights are functions of the responses a  *)
(* run has read, so a row carries the response set it was computed from.   *)
(* The four domain_scores rows are written and blocked together: one row   *)
(* stands for them.                                                        *)
(***************************************************************************)
EXTENDS Naturals

CONSTANTS
  Runs,            \* calls of runScoringPipeline
  Answers,         \* possible contents of the responses table
  BlockedAnswers,  \* those whose reliability checkPolicy refuses
  NumContexts,     \* Len(INSIGHT_CONTEXTS), 5 in the code
  MaxFaults,       \* bound: D1 errors, lost replies and killed isolates
  MaxRevisions,    \* bound: edits of the responses
  Overlap,         \* TRUE: a call may start while another is in flight
  CallerResets     \* TRUE: the caller resets 'failed' before it calls again

ASSUME ScoringAssumption ==
  /\ BlockedAnswers \subseteq Answers
  /\ NumContexts \in Nat \ {0}
  /\ MaxFaults \in Nat
  /\ MaxRevisions \in Nat
  /\ Overlap \in BOOLEAN
  /\ CallerResets \in BOOLEAN

VARIABLES
  status,       \* assessments.status; "absent" when there is no such row
  answers,      \* what the responses rows say now
  scores,       \* domain_scores
  profiles,     \* profiles
  insights,     \* insights
  nextProfile,  \* AUTOINCREMENT of profiles.id
  audit,        \* audit_logs, with the run that wrote each row
  pc,           \* the D1 call each run awaits next, or how it ended
  mine,         \* responses the run has read, and all it computed from them
  vector,       \* domain_scores rows composeProfile has read
  profileId,    \* id composeProfile returned
  seen,         \* profile row generateInsight has read
  context,      \* position in INSIGHT_CONTEXTS
  faults,       \* faults so far
  revisions     \* edits of the responses so far

db == <<status, answers, scores, profiles, insights, nextProfile, audit>>
locals == <<mine, vector, profileId, seen, context>>
sagaVars == <<db, pc, locals, faults, revisions>>

------------------------------------------------------------------------------
Contexts == 1..NumContexts

\* The statuses the statements of saga.ts name.
Statuses == {"absent", "submitted", "scoring", "scored", "profiled",
             "completed", "failed"}

\* The awaits inside the try block, and those of compensateScoring.
TrySteps == {"loadResponses", "persistScores", "blockScores", "readScores",
             "upsertProfile", "markProfiled", "readProfile", "upsertInsight",
             "finish"}
OtherSteps == {"readProfileId", "compensate", "auditCompensation"}

\* How a call ends: the SagaRunResult it returns ("missing" and "blocked" are
\* its two other kinds of 'failed'), an exception, or no end at all.
Ended == {"completed", "failed", "blocked", "missing", "threw", "killed"}

ScoreRow == [of : Answers, blocked : BOOLEAN]
ProfileRow == [id : Nat, type : Answers, vector : SUBSET Answers]
InsightRow == [context : Contexts, type : Answers, vector : SUBSET Answers]
AuditRow == [run : Runs, action : {"scoring_blocked", "scoring_compensated"}]

\* A row is where its table says it is, and a run where its code can be.
TypeOK ==
  /\ status \in Statuses
  /\ answers \in Answers
  /\ scores \subseteq ScoreRow
  /\ profiles \subseteq ProfileRow
  /\ insights \subseteq InsightRow
  /\ nextProfile \in Nat
  /\ audit \subseteq AuditRow
  /\ pc \in [Runs -> {"idle"} \cup TrySteps \cup OtherSteps \cup Ended]
  /\ mine \in [Runs -> Answers]
  /\ vector \in [Runs -> SUBSET Answers]
  /\ profileId \in [Runs -> Nat]
  /\ seen \in [Runs -> SUBSET ProfileRow]
  /\ context \in [Runs -> Contexts]
  /\ faults \in 0..MaxFaults
  /\ revisions \in 0..MaxRevisions

\* A submitted assessment with its responses, or an id that names no row.
Init ==
  /\ status \in {"submitted", "absent"}
  /\ answers \in Answers
  /\ scores = {}
  /\ profiles = {}
  /\ insights = {}
  /\ nextProfile = 1
  /\ audit = {}
  /\ pc = [r \in Runs |-> "idle"]
  /\ mine = [r \in Runs |-> answers]
  /\ vector = [r \in Runs |-> {}]
  /\ profileId = [r \in Runs |-> 0]
  /\ seen = [r \in Runs |-> {}]
  /\ context = [r \in Runs |-> 1]
  /\ faults = 0
  /\ revisions = 0

------------------------------------------------------------------------------
InFlight(r) == pc[r] \in TrySteps \cup OtherSteps

\* Where an exception takes the run: the catch block, or out of the call.
Handler(step) == IF step \in TrySteps THEN "compensate" ELSE "threw"

Goto(r, step) == pc' = [pc EXCEPT ![r] = step]

\* UPDATE assessments SET status = to WHERE status IN from.
UpdateAnyStatus(from, to) == status' = to
UpdateStatus(from, to) == status' = IF status \in from THEN to ELSE status

\* The await of a read, or of a statement that must fail.
Proceed(r, step) == Goto(r, step) /\ UNCHANGED faults

\* The await of a write D1 has applied: the reply arrives, or it is lost and
\* the promise rejects all the same.
Applied(r, step) ==
  \/ Proceed(r, step)
  \/ /\ faults < MaxFaults
     /\ faults' = faults + 1
     /\ Goto(r, Handler(pc[r]))

------------------------------------------------------------------------------
\* Where the idempotency guard sends a call that has read status s.
UnguardedStep(s) == IF s = "absent" THEN "missing" ELSE "loadResponses"
ProfiledIsDoneStep(s) ==
  IF s \in {"profiled", "completed"} THEN "readProfileId" ELSE "loadResponses"
SubmittedOnlyStep(s) == IF s = "submitted" THEN "loadResponses" ELSE "missing"
FirstStep(s) ==
  CASE s = "absent" -> "missing"
    [] s = "completed" -> "readProfileId"
    [] OTHER -> "loadResponses"

\* The WHERE clauses of the statements that move the status.
ScoredFrom == {"submitted", "scoring"}
SubmittedProfiled == {"submitted"}
ProfiledFrom == {"scored"}
AnyRow == Statuses \ {"absent"}
CompensatedFrom == {"submitted", "scoring", "scored", "profiled"}

\* checkPolicy on the reliability of the responses the run has read.
NeverRefused(r) == FALSE
Refused(r) == mine[r] \in BlockedAnswers

\* The loop over INSIGHT_CONTEXTS is at its last context.
OneContextShort(r) == context[r] >= NumContexts - 1
OneContextOver(r) == context[r] > NumContexts
LastContext(r) == context[r] = NumContexts

\* The call begins: SELECT status.  A caller that does not overlap calls waits
\* for the one in flight; one that resets does not call on a 'failed' row.
ReadStatus(r) ==
  /\ pc[r] = "idle"
  /\ Overlap \/ \A q \in Runs : ~InFlight(q)
  /\ CallerResets => status # "failed"
  /\ Proceed(r, FirstStep(status))
  /\ UNCHANGED <<db, locals, revisions>>

\* The early return of an already completed assessment.
ReadProfileId(r) ==
  /\ pc[r] = "readProfileId"
  /\ Proceed(r, "completed")
  /\ UNCHANGED <<db, locals, revisions>>

\* Phase A: SELECT responses, then the four pure steps.
LoadResponses(r) ==
  /\ pc[r] = "loadResponses"
  /\ mine' = [mine EXCEPT ![r] = answers]
  /\ Proceed(r, "persistScores")
  /\ UNCHANGED <<db, vector, profileId, seen, context, revisions>>

\* Phase B: the batch.  Without the assessment row its INSERT breaks the
\* foreign key and D1 rolls the batch back.  checkPolicy, pure, picks the
\* next step.
PersistScores(r) ==
  /\ pc[r] = "persistScores"
  /\ \/ /\ status = "absent"
        /\ Proceed(r, "compensate")
        /\ UNCHANGED <<status, scores>>
     \/ /\ status # "absent"
        /\ scores' = {[of |-> mine[r], blocked |-> FALSE]}
        /\ UpdateStatus(ScoredFrom, "scored")
        /\ Applied(r, IF Refused(r) THEN "blockScores" ELSE "readScores")
  /\ UNCHANGED <<answers, profiles, insights, nextProfile, audit, locals,
                 revisions>>

\* Phase C: the batch of a blocked run.
BlockScores(r) ==
  /\ pc[r] = "blockScores"
  /\ scores' = {[s EXCEPT !.blocked = TRUE] : s \in scores}
  /\ UpdateStatus({"scored"}, "failed")
  /\ audit' = audit \cup {[run |-> r, action |-> "scoring_blocked"]}
  /\ Applied(r, "blocked")
  /\ UNCHANGED <<answers, profiles, insights, nextProfile, locals, revisions>>

\* Phase D, composeProfile: its SELECTs.  The rows it reads between the two
\* that matter, assessments and domain_scores, never change.
ReadScores(r) ==
  /\ pc[r] = "readScores"
  /\ IF status = "absent"
       THEN Proceed(r, "compensate") /\ UNCHANGED vector
       ELSE /\ vector' = [vector EXCEPT ![r] = {s.of : s \in scores}]
            /\ Proceed(r, "upsertProfile")
  /\ UNCHANGED <<db, mine, profileId, seen, context, revisions>>

\* The id RETURNING gives: that of the row ON CONFLICT has found, or the next.
\* (The mutant is the INSERT OR REPLACE that takes a new one.)
ReplacedId == nextProfile
UpsertedId == IF profiles = {} THEN nextProfile
              ELSE (CHOOSE p \in profiles : TRUE).id

\* Phase D, composeProfile: INSERT ... ON CONFLICT(assessment_id) ... RETURNING.
UpsertProfile(r) ==
  LET id == UpsertedId IN
  /\ pc[r] = "upsertProfile"
  /\ \/ /\ status = "absent"
        /\ Proceed(r, "compensate")
        /\ UNCHANGED <<profiles, nextProfile, profileId>>
     \/ /\ status # "absent"
        /\ profiles' = {[id |-> id, type |-> mine[r], vector |-> vector[r]]}
        /\ nextProfile' = IF profiles = {} THEN nextProfile + 1
                          ELSE nextProfile
        /\ profileId' = [profileId EXCEPT ![r] = id]
        /\ Applied(r, "markProfiled")
  /\ UNCHANGED <<status, answers, scores, insights, audit, mine, vector, seen,
                 context, revisions>>

\* Phase D: UPDATE status = 'profiled' WHERE status = 'scored'.
MarkProfiled(r) ==
  /\ pc[r] = "markProfiled"
  /\ UpdateStatus(ProfiledFrom, "profiled")
  /\ Applied(r, "readProfile")
  /\ UNCHANGED <<answers, scores, profiles, insights, nextProfile, audit,
                 locals, revisions>>

\* Phase D, generateInsight: SELECT the profile by the id the run holds.
ReadProfile(r) ==
  LET found == {p \in profiles : p.id = profileId[r]} IN
  /\ pc[r] = "readProfile"
  /\ seen' = [seen EXCEPT ![r] = found]
  /\ Proceed(r, IF found = {} THEN "compensate" ELSE "upsertInsight")
  /\ UNCHANGED <<db, mine, vector, profileId, context, revisions>>

\* Phase D, generateInsight: INSERT ... ON CONFLICT(profile_id, context); the
\* foreign key needs the profile row the run holds the id of.
UpsertInsight(r) ==
  LET kept == {i \in insights : i.context # context[r]}
      rows == {[context |-> context[r], type |-> p.type, vector |-> p.vector]
               : p \in seen[r]}
  IN
  /\ pc[r] = "upsertInsight"
  /\ \/ /\ \A p \in profiles : p.id # profileId[r]
        /\ Proceed(r, "compensate")
        /\ UNCHANGED <<insights, context>>
     \/ /\ \E p \in profiles : p.id = profileId[r]
        /\ insights' = kept \cup rows
        /\ IF LastContext(r)
             THEN Applied(r, "finish") /\ UNCHANGED context
             ELSE /\ context' = [context EXCEPT ![r] = @ + 1]
                  /\ Applied(r, "readProfile")
  /\ UNCHANGED <<status, answers, scores, profiles, nextProfile, audit, mine,
                 vector, profileId, seen, revisions>>

\* Phase E: UPDATE status = 'completed' WHERE status = 'profiled'.
Finish(r) ==
  /\ pc[r] = "finish"
  /\ UpdateStatus({"profiled"}, "completed")
  /\ Applied(r, "completed")
  /\ UNCHANGED <<answers, scores, profiles, insights, nextProfile, audit,
                 locals, revisions>>

------------------------------------------------------------------------------
\* compensateScoring, first statement.  (The mutant skips the second one.)
CompensateSilently(r) ==
  /\ pc[r] = "compensate"
  /\ UpdateStatus(CompensatedFrom, "failed")
  /\ Applied(r, "failed")
  /\ UNCHANGED <<answers, scores, profiles, insights, nextProfile, audit,
                 locals, revisions>>

Compensate(r) ==
  /\ pc[r] = "compensate"
  /\ UpdateStatus(CompensatedFrom, "failed")
  /\ Applied(r, "auditCompensation")
  /\ UNCHANGED <<answers, scores, profiles, insights, nextProfile, audit,
                 locals, revisions>>

\* compensateScoring, second statement, and the return of the catch block.
AuditCompensation(r) ==
  /\ pc[r] = "auditCompensation"
  /\ audit' = audit \cup {[run |-> r, action |-> "scoring_compensated"]}
  /\ Applied(r, "failed")
  /\ UNCHANGED <<status, answers, scores, profiles, insights, nextProfile,
                 locals, revisions>>

\* A D1 call rejects without having had an effect.
D1Error(r) ==
  /\ InFlight(r)
  /\ faults < MaxFaults
  /\ faults' = faults + 1
  /\ Goto(r, Handler(pc[r]))
  /\ UNCHANGED <<db, locals, revisions>>

\* The isolate of the call is killed: no catch block runs.
Kill(r) ==
  /\ InFlight(r)
  /\ faults < MaxFaults
  /\ faults' = faults + 1
  /\ Goto(r, "killed")
  /\ UNCHANGED <<db, locals, revisions>>

------------------------------------------------------------------------------
\* The reset the caller owes before it retries a failed assessment.
ResetFailed ==
  /\ CallerResets
  /\ status = "failed"
  /\ Overlap \/ \A q \in Runs : ~InFlight(q)
  /\ status' = "submitted"
  /\ UNCHANGED <<answers, scores, profiles, insights, nextProfile, audit, pc,
                 locals, faults, revisions>>

\* The respondent answers a question again; no status forbids it.
ReviseAnswers ==
  /\ status # "absent"
  /\ revisions < MaxRevisions
  /\ revisions' = revisions + 1
  /\ \E a \in Answers \ {answers} : answers' = a
  /\ UNCHANGED <<status, scores, profiles, insights, nextProfile, audit, pc,
                 locals, faults>>

\* Every call has ended: nothing is left to do.
Terminated ==
  /\ \A r \in Runs : pc[r] \in Ended
  /\ UNCHANGED sagaVars

\* What the code of a call does by itself, faults apart.
Step(r) ==
  \/ ReadStatus(r) \/ ReadProfileId(r) \/ LoadResponses(r)
  \/ PersistScores(r) \/ BlockScores(r)
  \/ ReadScores(r) \/ UpsertProfile(r) \/ MarkProfiled(r)
  \/ ReadProfile(r) \/ UpsertInsight(r) \/ Finish(r)
  \/ Compensate(r) \/ AuditCompensation(r)

Next ==
  \/ \E r \in Runs : Step(r) \/ D1Error(r) \/ Kill(r)
  \/ ResetFailed
  \/ ReviseAnswers
  \/ Terminated

Spec == Init /\ [][Next]_sagaVars

\* The runtime keeps serving the calls it has not killed, and a caller whose
\* assessment is not settled calls again.  No fault is ever owed.
Fairness ==
  /\ \A r \in Runs : WF_sagaVars(Step(r))
  /\ WF_sagaVars(ResetFailed)

FairSpec == Spec /\ Fairness

------------------------------------------------------------------------------
(* Correctness                                                             *)

\* The contexts of the insight rows that are there.
Covered == {i.context : i \in insights}

\* A row in status 'completed' has everything its reader shows: scores, a
\* profile and an insight for every context.  Nothing but the order of the
\* calls enforces it: Phase E looks at the status only.
CompletedIsBacked ==
  status = "completed" => scores # {} /\ profiles # {} /\ Covered = Contexts

\* The same of a call that answers 'completed', by the long way or by the early
\* return, whatever the row has become.
ReportedCompletedIsBacked ==
  \A r \in Runs :
    pc[r] = "completed" => profiles # {} /\ Covered = Contexts

\* Every call that answers 'failed' has written the audit row of its own
\* failure, whatever other calls have done to the row, before or meanwhile; and
\* behind a 'failed' row there is an audit row, unless a call is on its way to
\* write one or was cut off before it could.
FailureLeavesEvidence ==
  /\ \A r \in Runs :
       /\ pc[r] = "failed" => [run |-> r, action |-> "scoring_compensated"] \in audit
       /\ pc[r] = "blocked" => [run |-> r, action |-> "scoring_blocked"] \in audit
  /\ status = "failed" =>
       \/ audit # {}
       \/ \E r \in Runs : pc[r] \in {"auditCompensation", "threw", "killed"}

\* No call takes back a published result: a concurrent run that fails later
\* leaves 'completed' alone.
CompletedIsTerminal == [][status = "completed" => status' = "completed"]_status

\* When calls do not overlap, a published result is one respondent's: scores,
\* type, score vector and insights come from one reading of the responses, and
\* from one the policy gate let through, whatever crashed or was retried before.
CompletedIsCoherent ==
  status = "completed" =>
    \E a \in Answers \ BlockedAnswers :
      /\ scores = {[of |-> a, blocked |-> FALSE]}
      /\ \A p \in profiles : p.type = a /\ p.vector = {a}
      /\ \A i \in insights : i.type = a /\ i.vector = {a}

\* A call that answers 'completed' has left the row in that status.
CompletionIsHonest ==
  (\E r \in Runs : pc[r] = "completed") => status = "completed"

\* When calls do not overlap, re-running a completed assessment changes nothing
\* of what is published, even after the responses were edited.
PublishedReportIsFrozen ==
  [][status = "completed" => UNCHANGED <<scores, profiles, insights>>]_sagaVars

\* Overlap does harm only together with an edit: until the responses are first
\* edited, calls that interleave in any way publish one reading of them, which
\* the policy let through.
CoherentUntilRevised == revisions = 0 => CompletedIsCoherent

\* The same of what is published already: a call still at work behind a
\* completed one writes back the very rows it finds.
FrozenUntilRevised ==
  [][status = "completed" /\ revisions = 0
       => UNCHANGED <<scores, profiles, insights>>]_sagaVars

\* An assessment a crash left half way is taken up by the next call and settled,
\* as long as its responses stand still.
Settled == status \in {"completed", "failed", "absent"}
InterruptedIsSettled == [](revisions = 0) => <>Settled

------------------------------------------------------------------------------
(* The saga implements ReportPublication: the page of a row shows the parts  *)
(* that are there once the row is 'completed', and nothing before.           *)

Sections == {<<"scores", 0>>, <<"profile", 0>>}
            \cup {<<"insight", c>> : c \in Contexts}

Phase ==
  CASE status = "absent" -> "missing"
    [] status = "completed" -> "published"
    [] status = "failed" -> "failed"
    [] OTHER -> "open"

Visible ==
  IF status = "completed"
    THEN {<<"scores", 0>> : s \in scores}
         \cup {<<"profile", 0>> : p \in profiles}
         \cup {<<"insight", i.context>> : i \in insights}
    ELSE {}

Publication == INSTANCE ReportPublication
  WITH Reports <- {Sections}, phase <- Phase, visible <- Visible

\* What a reader sees of an assessment, whatever its calls do to one another, is
\* what the abstract publication allows: all of a report or none of it.
ImplementsPublication == Publication!Spec

(* The same with what the parts say.  A report is of one reading that the    *)
(* policy let through, and what it says never changes either.                *)

Part(kind, c, of, v) == [kind |-> kind, context |-> c, type |-> of, vector |-> v]

ReportOf(a) == {Part("scores", 0, a, {a}), Part("profile", 0, a, {a})}
               \cup {Part("insight", c, a, {a}) : c \in Contexts}

Shown ==
  IF status = "completed"
    THEN {Part("scores", 0, s.of, {s.of}) : s \in {t \in scores : ~t.blocked}}
         \cup {Part("profile", 0, p.type, p.vector) : p \in profiles}
         \cup {Part("insight", i.context, i.type, i.vector) : i \in insights}
    ELSE {}

Reading == INSTANCE ReportPublication
  WITH Reports <- {ReportOf(a) : a \in Answers \ BlockedAnswers},
       phase <- Phase, visible <- Shown

\* Calls that do not overlap publish, in one step and for good, the report of
\* one reading of the responses.
PublishesOneReading == Reading!Spec
==============================================================================

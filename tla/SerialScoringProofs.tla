------------------------- MODULE SerialScoringProofs -------------------------
(***************************************************************************)
(* Theorems about ScoringSaga when calls do not overlap, for any number of *)
(* calls, contexts, faults and edits.  Only what a caller is told depends  *)
(* on the reset of a failed row before a retry; what is published does not. *)
(***************************************************************************)
EXTENDS ScoringSagaProofs

Serial == ~Overlap

(* The inductive invariant: the history of the one call in flight.  What it  *)
(* has read is what it has written, part by part, and the status is one that *)
(* its next statement matches, because nobody else has moved it; or 'failed', *)
(* when the caller has retried without the reset, and then none of them does. *)

Alone == \A r, q \in Runs : InFlight(r) /\ InFlight(q) => r = q

Passed == {"readScores", "upsertProfile", "markProfiled", "readProfile",
           "upsertInsight", "finish"}
Composed == {"markProfiled", "readProfile", "upsertInsight", "finish"}
Explaining == {"readProfile", "upsertInsight", "finish"}
NotExplaining == {"idle", "loadResponses", "persistScores", "blockScores",
                  "readScores", "upsertProfile", "markProfiled"}

\* The insight rows of context c and those before it that r has written.
Explained(r, i) == i.type = mine[r] /\ i.vector = {mine[r]}

History(r) ==
  /\ pc[r] \in TrySteps => status \notin {"absent", "completed"}
  /\ pc[r] \in TrySteps /\ CallerResets => status # "failed"
  /\ pc[r] = "readProfileId" => status = "completed"
  /\ pc[r] = "completed" /\ CallerResets => status = "completed"
  /\ pc[r] \in NotExplaining => context[r] = 1
  /\ pc[r] \in Passed => /\ mine[r] \notin BlockedAnswers
                         /\ scores = {[of |-> mine[r], blocked |-> FALSE]}
                         /\ status \in {"scored", "profiled", "failed"}
  /\ pc[r] = "upsertProfile" => vector[r] = {mine[r]}
  /\ pc[r] \in Composed =>
       profiles = {[id |-> profileId[r], type |-> mine[r],
                    vector |-> {mine[r]}]}
  /\ pc[r] \in Explaining => status \in {"profiled", "failed"}
  /\ pc[r] = "upsertInsight" => seen[r] = profiles
  /\ pc[r] \in {"readProfile", "upsertInsight"} =>
       \A i \in insights : i.context < context[r] => Explained(r, i)
  /\ pc[r] = "finish" => \A i \in insights : Explained(r, i)

SerialInv ==
  /\ Alone
  /\ \A r \in Runs : History(r)
  /\ CompletedIsCoherent

------------------------------------------------------------------------------
\* A call that begins or goes on is the only one in flight.
LEMMA AloneInductive ==
  ASSUME Serial, TypeOK, Alone, [Next]_sagaVars
  PROVE  Alone'
<1>1. ASSUME NEW r \in Runs, Step(r) \/ D1Error(r) \/ Kill(r)
      PROVE  /\ \A q \in Runs \ {r} : pc'[q] = pc[q]
             /\ InFlight(r) \/ \A q \in Runs : ~InFlight(q)
  <2>1. \A q \in Runs \ {r} : pc'[q] = pc[q]
    BY <1>1, StepElsewhere DEF Elsewhere
  <2>2. InFlight(r) \/ \A q \in Runs : ~InFlight(q)
    BY <1>1 DEF Serial, InFlight, TrySteps, OtherSteps, Step, ReadStatus,
       ReadProfileId, LoadResponses, PersistScores, BlockScores, ReadScores,
       UpsertProfile, MarkProfiled, ReadProfile, UpsertInsight, Finish,
       Compensate, AuditCompensation, D1Error, Kill
  <2>3. QED
    BY <2>1, <2>2
<1>2. CASE \E r \in Runs : Step(r) \/ D1Error(r) \/ Kill(r)
  BY <1>1, <1>2 DEF Alone, InFlight
<1>3. CASE UNCHANGED pc
  BY <1>3 DEF Alone, InFlight
<1>4. QED
  BY <1>2, <1>3 DEF Next, ResetFailed, ReviseAnswers, Terminated, sagaVars

\* A call that is not in flight has no part in the tables but their status.
LEMMA HistoryElsewhere ==
  ASSUME TypeOK, NEW r \in Runs, Step(r) \/ D1Error(r) \/ Kill(r),
         status = "completed" => status' = "completed",
         NEW q \in Runs \ {r}, ~InFlight(q), History(q)
  PROVE  History(q)'
<1>1. pc'[q] = pc[q] /\ context'[q] = context[q]
  BY StepElsewhere DEF Elsewhere
<1>2. QED
  BY <1>1 DEF History, InFlight, TrySteps, OtherSteps, NotExplaining, Passed,
              Composed, Explaining

\* The reads of a call, and the faults that end it.
LEMMA HistoryOfReads ==
  ASSUME Serial, TypeOK, NEW r \in Runs, History(r),
         \/ ReadStatus(r) \/ ReadProfileId(r) \/ LoadResponses(r)
         \/ ReadScores(r) \/ ReadProfile(r)
  PROVE  History(r)'
<1> USE DEF TypeOK, History, TrySteps, NotExplaining, Passed, Composed,
            Explaining, Proceed, Goto, db, locals
<1>1. CASE ReadStatus(r)
  BY <1>1 DEF ReadStatus, FirstStep, Serial
<1>2. CASE ReadProfileId(r)
  BY <1>2 DEF ReadProfileId
<1>3. CASE LoadResponses(r)
  BY <1>3 DEF LoadResponses
<1>4. CASE ReadScores(r)
  <2>1. scores = {[of |-> mine[r], blocked |-> FALSE]} /\ status # "absent"
    BY <1>4 DEF ReadScores
  <2>2. {s.of : s \in scores} = {mine[r]}
    <3> DEFINE row == [of |-> mine[r], blocked |-> FALSE]
    <3>1. scores = {row} /\ row.of = mine[r]
      BY <2>1
    <3> HIDE DEF row
    <3>2. QED
      BY <3>1
  <2>3. vector'[r] = {mine[r]} /\ pc'[r] = "upsertProfile"
    BY <1>4, <2>1, <2>2 DEF ReadScores
  <2>4. QED
    BY <1>4, <2>3 DEF ReadScores
<1>5. CASE ReadProfile(r)
  <2>1. {p \in profiles : p.id = profileId[r]} = profiles
    BY <1>5 DEF ReadProfile
  <2>2. QED
    BY <1>5, <2>1 DEF ReadProfile, Explained
<1>6. QED
  BY <1>1, <1>2, <1>3, <1>4, <1>5

LEMMA HistoryOfEnds ==
  ASSUME TypeOK, NEW r \in Runs, History(r),
         Compensate(r) \/ AuditCompensation(r) \/ D1Error(r) \/ Kill(r)
  PROVE  History(r)'
<1>1. pc'[r] \in {"compensate", "auditCompensation", "failed", "threw", "killed"}
  BY DEF TypeOK, Compensate, AuditCompensation, D1Error, Kill, Applied,
         Proceed, Goto, Handler, TrySteps, OtherSteps
<1>2. QED
  BY <1>1 DEF History, TrySteps, NotExplaining, Passed, Composed, Explaining

\* The statements of a call, each matching the status the one before has left.
LEMMA HistoryOfWrites ==
  ASSUME Serial, TypeOK, NEW r \in Runs, History(r),
         \/ PersistScores(r) \/ BlockScores(r) \/ UpsertProfile(r)
         \/ MarkProfiled(r) \/ Finish(r)
  PROVE  History(r)'
<1> USE DEF TypeOK, History, TrySteps, NotExplaining, Passed, Composed,
            Explaining, Proceed, Goto, Applied, Handler, UpdateStatus, locals
<1>1. CASE PersistScores(r)
  BY <1>1 DEF PersistScores, Refused, ScoredFrom, Statuses
<1>2. CASE BlockScores(r)
  BY <1>2 DEF BlockScores
<1>3. CASE UpsertProfile(r)
  BY <1>3 DEF UpsertProfile
<1>4. CASE MarkProfiled(r)
  <2>1. \A i \in insights : ~(i.context < context[r])
    BY <1>4, ScoringAssumption DEF MarkProfiled, InsightRow, Contexts
  <2>2. pc'[r] \in {"readProfile", "compensate"}
    BY <1>4 DEF MarkProfiled
  <2>3. /\ status' \in {"profiled", status} \cap {"profiled", "failed"}
        /\ UNCHANGED <<scores, profiles, insights>>
    BY <1>4 DEF MarkProfiled, ProfiledFrom
  <2>4. QED
    BY <1>4, <2>1, <2>2, <2>3 DEF MarkProfiled
<1>5. CASE Finish(r)
  BY <1>5 DEF Finish
<1>6. QED
  BY <1>1, <1>2, <1>3, <1>4, <1>5

LEMMA HistoryOfInsight ==
  ASSUME TypeOK, NEW r \in Runs, History(r), UpsertInsight(r)
  PROVE  History(r)'
<1> USE ScoringAssumption DEF TypeOK
<1>1. UNCHANGED <<status, scores, profiles, mine, vector, profileId, seen>>
  BY DEF UpsertInsight
<1>2. CASE pc'[r] = "compensate"
  BY <1>2 DEF History, TrySteps, NotExplaining, Passed, Composed, Explaining
<1>3. CASE pc'[r] # "compensate"
  <2>1. seen[r] = {[id |-> profileId[r], type |-> mine[r],
                    vector |-> {mine[r]}]}
    BY DEF History, UpsertInsight, Composed
  <2>2. insights' = {i \in insights : i.context # context[r]}
                    \cup {[context |-> context[r], type |-> mine[r],
                           vector |-> {mine[r]}]}
    <3>1. insights' = {i \in insights : i.context # context[r]}
            \cup {[context |-> context[r], type |-> p.type,
                   vector |-> p.vector] : p \in seen[r]}
      BY <1>3 DEF UpsertInsight, Proceed, Goto
    <3> DEFINE row == [id |-> profileId[r], type |-> mine[r],
                       vector |-> {mine[r]}]
    <3>2. seen[r] = {row} /\ row.type = mine[r] /\ row.vector = {mine[r]}
      BY <2>1
    <3> HIDE DEF row
    <3>3. insights' = {i \in insights : i.context # context[r]}
            \cup {[context |-> context[r], type |-> row.type,
                   vector |-> row.vector]}
      BY <3>1, <3>2
    <3>4. QED
      BY <3>2, <3>3
  <2>3. ASSUME NEW i \in insights', i.context <= context[r]
        PROVE  Explained(r, i)
    <3>1. CASE i \in insights /\ i.context # context[r]
      <4>1. i.context < context[r]
        BY <2>3, <3>1 DEF InsightRow, Contexts
      <4>2. QED
        BY <3>1, <4>1 DEF History, UpsertInsight
    <3>2. CASE i = [context |-> context[r], type |-> mine[r],
                    vector |-> {mine[r]}]
      BY <3>2 DEF Explained
    <3>3. QED
      BY <2>2, <3>1, <3>2
  <2>4. \A i \in insights' : i.context \in Contexts
    BY <2>2 DEF InsightRow
  <2>5. \A i : Explained(r, i)' <=> Explained(r, i)
    BY <1>1 DEF Explained
  <2>6. CASE LastContext(r)
    <3>1. pc'[r] = "finish"
      BY <1>3, <2>6 DEF UpsertInsight, Applied, Proceed, Goto, Handler,
                        TrySteps
    <3>2. \A i \in insights' : Explained(r, i)'
      BY <2>3, <2>4, <2>5, <2>6 DEF LastContext, Contexts
    <3>3. QED
      BY <1>1, <3>1, <3>2 DEF History, UpsertInsight, TrySteps, NotExplaining,
                              Passed, Composed, Explaining
  <2>7. CASE ~LastContext(r)
    <3>1. pc'[r] = "readProfile" /\ context'[r] = context[r] + 1
      BY <1>3, <2>7 DEF UpsertInsight, Applied, Proceed, Goto, Handler,
                        TrySteps
    <3>2. \A i \in insights' : i.context < context'[r] => Explained(r, i)'
      BY <2>3, <2>4, <2>5, <3>1 DEF Contexts
    <3>3. QED
      BY <1>1, <3>1, <3>2 DEF History, UpsertInsight, TrySteps, NotExplaining,
                              Passed, Composed, Explaining
  <2>8. QED
    BY <2>6, <2>7
<1>4. QED
  BY <1>2, <1>3

------------------------------------------------------------------------------
\* Whatever writes the tables of a report runs on a row that is not completed,
\* and only Phase E completes one.
LEMMA CompletedUntouched ==
  ASSUME Serial, TypeOK, SerialInv, [Next]_sagaVars, status' = "completed"
  PROVE  \/ status = "completed" /\ UNCHANGED <<scores, profiles, insights>>
         \/ \E r \in Runs : Finish(r) /\ status = "profiled"
<1> USE DEF UpdateStatus
<1>1. ASSUME NEW r \in Runs,
             \/ PersistScores(r) \/ BlockScores(r) \/ UpsertProfile(r)
             \/ UpsertInsight(r)
      PROVE  FALSE
  <2>1. status # "completed"
    BY <1>1 DEF SerialInv, History, TrySteps, PersistScores, BlockScores,
                UpsertProfile, UpsertInsight
  <2>2. status' # "completed"
    BY <1>1, <2>1 DEF PersistScores, BlockScores, UpsertProfile, UpsertInsight
  <2>3. QED
    BY <2>2
<1>2. ASSUME NEW r \in Runs, Finish(r)
      PROVE  \/ status = "completed" /\ UNCHANGED <<scores, profiles, insights>>
             \/ Finish(r) /\ status = "profiled"
  BY <1>2 DEF Finish
<1>3. ASSUME NEW r \in Runs,
             \/ ReadStatus(r) \/ ReadProfileId(r) \/ LoadResponses(r)
             \/ ReadScores(r) \/ MarkProfiled(r) \/ ReadProfile(r)
             \/ Compensate(r) \/ AuditCompensation(r) \/ D1Error(r) \/ Kill(r)
      PROVE  status = "completed" /\ UNCHANGED <<scores, profiles, insights>>
  BY <1>3 DEF ReadStatus, ReadProfileId, LoadResponses, ReadScores,
              MarkProfiled, ReadProfile, Compensate, AuditCompensation,
              D1Error, Kill, db
<1>4. CASE ResetFailed \/ ReviseAnswers \/ UNCHANGED sagaVars
  BY <1>4 DEF ResetFailed, ReviseAnswers, sagaVars, db
<1>5. QED
  BY <1>1, <1>2, <1>3, <1>4 DEF Next, Step, Terminated

\* Each step keeps the history of the call in flight, and what is published.
LEMMA SerialInvInductive ==
  ASSUME Serial, TypeOK, SerialInv, [Next]_sagaVars
  PROVE  SerialInv'
<1>1. Alone'
  BY AloneInductive DEF SerialInv
<1>2. status = "completed" => status' = "completed"
  BY StatusMoves DEF StatusStep, Unsettled
<1>3. CompletedIsCoherent'
  <2> SUFFICES ASSUME status' = "completed"
               PROVE  CompletedIsCoherent'
    BY DEF CompletedIsCoherent
  <2>1. CASE status = "completed" /\ UNCHANGED <<scores, profiles, insights>>
    BY <2>1 DEF SerialInv, CompletedIsCoherent
  <2>2. ASSUME NEW r \in Runs, Finish(r), status = "profiled"
        PROVE  CompletedIsCoherent'
    <3>1. /\ mine[r] \in Answers \ BlockedAnswers
          /\ scores = {[of |-> mine[r], blocked |-> FALSE]}
          /\ \A p \in profiles : p.type = mine[r] /\ p.vector = {mine[r]}
          /\ \A i \in insights : i.type = mine[r] /\ i.vector = {mine[r]}
      BY <2>2 DEF SerialInv, History, Finish, TypeOK, Passed, Composed,
                  Explained
    <3>2. UNCHANGED <<scores, profiles, insights>>
      BY <2>2 DEF Finish
    <3>3. QED
      BY <3>1, <3>2 DEF CompletedIsCoherent
  <2>3. QED
    BY <2>1, <2>2, CompletedUntouched
<1>4. ASSUME NEW r \in Runs, Step(r) \/ D1Error(r) \/ Kill(r)
      PROVE  \A q \in Runs : History(q)'
  <2>1. History(r)'
    BY <1>4, HistoryOfReads, HistoryOfEnds, HistoryOfWrites, HistoryOfInsight
       DEF Step, SerialInv
  <2>2. ASSUME NEW q \in Runs \ {r}
        PROVE  ~InFlight(q)
    <3>1. InFlight(r) \/ \A s \in Runs : ~InFlight(s)
      BY <1>4 DEF Serial, InFlight, TrySteps, OtherSteps, Step, ReadStatus,
         ReadProfileId, LoadResponses, PersistScores, BlockScores,
         ReadScores, UpsertProfile, MarkProfiled, ReadProfile, UpsertInsight,
         Finish, Compensate, AuditCompensation, D1Error, Kill
    <3>2. QED
      BY <3>1 DEF SerialInv, Alone
  <2>3. \A q \in Runs \ {r} : History(q)'
    BY <1>2, <1>4, <2>2, HistoryElsewhere DEF SerialInv
  <2>4. QED
    BY <2>1, <2>3
<1>5. CASE ResetFailed
  <2>1. \A q \in Runs : ~InFlight(q)
    BY <1>5 DEF ResetFailed, Serial
  <2>2. \A q \in Runs : History(q)'
    BY <1>5, <2>1 DEF ResetFailed, SerialInv, History, InFlight, TrySteps,
       OtherSteps, NotExplaining, Passed, Composed, Explaining, locals
  <2>3. QED
    BY <1>1, <1>3, <2>2 DEF SerialInv
<1>6. CASE ReviseAnswers \/ UNCHANGED sagaVars
  <2>1. UNCHANGED <<status, scores, profiles, insights, pc, mine, vector,
                    profileId, seen, context>>
    BY <1>6 DEF ReviseAnswers, sagaVars, db, locals
  <2>2. \A q \in Runs : History(q)'
    BY <2>1 DEF SerialInv, History, Explained
  <2>3. QED
    BY <1>1, <1>3, <2>2 DEF SerialInv
<1>7. QED
  BY <1>1, <1>3, <1>4, <1>5, <1>6 DEF SerialInv, Next, Terminated

LEMMA SerialInvAlways ==
  ASSUME Serial
  PROVE  Spec => [](TypeOK /\ SerialInv)
<1>1. Init => SerialInv
  BY DEF Init, SerialInv, Alone, History, InFlight, TrySteps, OtherSteps,
         NotExplaining, Passed, Composed, Explaining, CompletedIsCoherent
<1>2. TypeOK /\ SerialInv /\ [Next]_sagaVars => SerialInv'
  BY SerialInvInductive
<1>3. QED
  BY <1>1, <1>2, TypeCorrect, PTL DEF Spec

------------------------------------------------------------------------------
\* Calls that do not overlap publish one respondent's report, from one reading
\* of the responses and one the policy let through, whatever crashed and was
\* retried before (runScoringPipeline).
THEOREM CoherentSerially ==
  ASSUME Serial
  PROVE  Spec => []CompletedIsCoherent
<1>1. SerialInv => CompletedIsCoherent
  BY DEF SerialInv
<1>2. QED
  BY <1>1, SerialInvAlways, PTL

\* To a caller that resets a failed row 'completed' is answered truthfully,
\* although Phase E does not look at what its UPDATE has matched.
THEOREM HonestSerially ==
  ASSUME Serial, CallerResets
  PROVE  Spec => []CompletionIsHonest
<1>1. SerialInv => CompletionIsHonest
  BY DEF SerialInv, History, CompletionIsHonest
<1>2. QED
  BY <1>1, SerialInvAlways, PTL

\* A call that finds the assessment completed leaves the report as it is, after
\* any edits of the responses.
THEOREM FrozenSerially ==
  ASSUME Serial
  PROVE  Spec => PublishedReportIsFrozen
<1>1. TypeOK /\ SerialInv /\ [Next]_sagaVars
        => [status = "completed" => UNCHANGED <<scores, profiles, insights>>]_sagaVars
  <2> SUFFICES ASSUME TypeOK, SerialInv, [Next]_sagaVars,
                      status = "completed"
               PROVE  UNCHANGED <<scores, profiles, insights>>
    OBVIOUS
  <2>1. status' = "completed"
    BY StatusMoves DEF StatusStep, Unsettled
  <2>2. QED
    BY <2>1, CompletedUntouched
<1>2. QED
  BY <1>1, SerialInvAlways, PTL DEF Spec, PublishedReportIsFrozen

------------------------------------------------------------------------------
(* The refinement, with the contents.                                       *)

OneReport ==
  status = "completed" => Shown \in {ReportOf(a) : a \in Answers \ BlockedAnswers}

\* A completed row that is whole and coherent shows the report of a reading.
LEMMA ShownIsOneReport ==
  ASSUME TypeOK, SagaInv, CompletedIsCoherent
  PROVE  OneReport
<1> SUFFICES ASSUME status = "completed"
             PROVE  \E a \in Answers \ BlockedAnswers : Shown = ReportOf(a)
  BY DEF OneReport
<1>1. PICK a \in Answers \ BlockedAnswers :
             /\ scores = {[of |-> a, blocked |-> FALSE]}
             /\ \A p \in profiles : p.type = a /\ p.vector = {a}
             /\ \A i \in insights : i.type = a /\ i.vector = {a}
  BY DEF CompletedIsCoherent
<1>2. profiles # {} /\ Covered = Contexts
  BY CoveredContexts DEF SagaInv, BackedInv
<1>3. {Part("scores", 0, s.of, {s.of}) : s \in {t \in scores : ~t.blocked}}
      = {Part("scores", 0, a, {a})}
  <2> DEFINE row == [of |-> a, blocked |-> FALSE]
  <2>1. scores = {row} /\ row.of = a /\ ~row.blocked
    BY <1>1
  <2> HIDE DEF row
  <2>2. {t \in scores : ~t.blocked} = {row}
    BY <2>1
  <2>3. QED
    BY <2>1, <2>2
<1>4. {Part("profile", 0, p.type, p.vector) : p \in profiles}
      = {Part("profile", 0, a, {a})}
  BY <1>1, <1>2
<1>5. {Part("insight", i.context, i.type, i.vector) : i \in insights}
      = {Part("insight", c, a, {a}) : c \in Contexts}
  <2>1. \A i \in insights : Part("insight", i.context, i.type, i.vector)
                            = Part("insight", i.context, a, {a})
    BY <1>1
  <2>2. \A i \in insights : i.context \in Contexts
    BY <1>2 DEF Covered
  <2>3. \A c \in Contexts : \E i \in insights : i.context = c
    BY <1>2 DEF Covered
  <2>4. QED
    BY <2>1, <2>2, <2>3
<1>6. Shown = ReportOf(a)
  BY <1>3, <1>4, <1>5 DEF Shown, ReportOf
<1>7. QED
  BY <1>6

\* A step that keeps what is published maps to a step of the publication.
LEMMA ReadingStep ==
  ASSUME OneReport', [Next]_sagaVars,
         [status = "completed" => UNCHANGED <<scores, profiles, insights>>]_sagaVars
  PROVE  [Reading!Next]_(Reading!publicationVars)
<1> USE DEF Reading!publicationVars
<1>1. StatusStep
  BY StatusMoves
<1>2. status' = "completed"
        => Shown' \in {ReportOf(a) : a \in Answers \ BlockedAnswers}
  BY DEF OneReport, ReportOf, Contexts
<1>3. CASE status = "completed"
  <2>1. status' = "completed"
    BY <1>1, <1>3 DEF StatusStep, Unsettled
  <2>2. UNCHANGED <<scores, profiles, insights>>
    BY <1>3 DEF sagaVars, db
  <2>3. QED
    BY <1>3, <2>1, <2>2 DEF Shown, Phase
<1>4. CASE status # "completed" /\ status' # "completed"
  <2>1. Shown = {} /\ Shown' = {}
    BY <1>4 DEF Shown
  <2>2. QED
    BY <1>1, <1>4, <2>1 DEF StatusStep, Unsettled, Phase, Reading!Next,
       Reading!Abandon, Reading!Reopen
<1>5. CASE status # "completed" /\ status' = "completed"
  BY <1>1, <1>2, <1>5 DEF StatusStep, Unsettled, Phase, Reading!Next,
     Reading!Publish
<1>6. QED
  BY <1>3, <1>4, <1>5

\* Coherence and the freeze, from either of the two reasons for them.
LEMMA PublishedReading ==
  ASSUME Serial \/ MaxRevisions = 0
  PROVE  Spec => []CompletedIsCoherent /\ PublishedReportIsFrozen
<1>1. CASE Serial
  BY <1>1, CoherentSerially, FrozenSerially, PTL
<1>2. CASE MaxRevisions = 0
  <2>1. TypeOK /\ CoherentUntilRevised => CompletedIsCoherent
    BY <1>2 DEF TypeOK, CoherentUntilRevised
  <2>2. TypeOK /\ [status = "completed" /\ revisions = 0
                     => UNCHANGED <<scores, profiles, insights>>]_sagaVars
        => [status = "completed"
              => UNCHANGED <<scores, profiles, insights>>]_sagaVars
    BY <1>2 DEF TypeOK
  <2>3. QED
    BY <2>1, <2>2, TypeCorrect, CoherentUntilEdited, FrozenUntilEdited, PTL
       DEF FrozenUntilRevised, PublishedReportIsFrozen
<1>3. QED
  BY <1>1, <1>2

\* A reader sees nothing, and then, in one step and for good, the report of one
\* reading the policy let through: whenever calls do not overlap, and when they
\* do as long as the responses are never edited (runScoringPipeline).
THEOREM OneReadingPublished ==
  ASSUME Serial \/ MaxRevisions = 0
  PROVE  Spec => PublishesOneReading
<1>1. Init => Reading!Init
  BY DEF Init, Reading!Init, Phase, Shown
<1>2. TypeOK /\ SagaInv /\ CompletedIsCoherent => OneReport
  BY ShownIsOneReport
<1>3. OneReport' /\ [Next]_sagaVars
        /\ [status = "completed"
              => UNCHANGED <<scores, profiles, insights>>]_sagaVars
      => [Reading!Next]_(Reading!publicationVars)
  BY ReadingStep
<1>4. QED
  BY <1>1, <1>2, <1>3, PublishedReading, TypeCorrect, SagaInvAlways, PTL
     DEF Spec, PublishedReportIsFrozen, PublishesOneReading, Reading!Spec
==============================================================================

--------------------------- MODULE RailsAssessment ---------------------------
(***************************************************************************)
(* One assessment of the Rails server, from the answers to the result      *)
(* page: assessment_questions_controller, assessments_controller and       *)
(* results_controller of server/app.  Puma serves the requests of one      *)
(* respondent (a second tab, a double tap, a reload) on several threads;   *)
(* each loads the assessment once and works on that copy.                  *)
(*                                                                         *)
(* SQLite has one writer.  A statement outside a transaction is a step of  *)
(* its own, taken when no transaction is open; the scoring transaction     *)
(* writes to work, which becomes db at its COMMIT.  SQLITE_BUSY after the  *)
(* 5 s timeout, a full disk and the like raise: in the pipeline that is    *)
(* Raise, elsewhere the request ends there, which is Die.  So is an error  *)
(* of the fail! of the policy branch, which the rescue takes for done.     *)
(***************************************************************************)
EXTENDS Naturals, FiniteSets

CONSTANTS
  Threads,    \* the threads of puma
  Questions,  \* the active questions of the set
  Values,     \* the answers; one stands for the value and its response time
  Hasty,      \* those given in under 500 ms
  Contexts,   \* the contexts an insight is written for
  None,       \* no thread, no question, no row
  MaxIndex,   \* bound: answers that advance the assessment
  MaxDeaths   \* bound: requests that end half way

VARIABLES
  db,      \* the committed rows of the assessment
  work,    \* the rows as the next statement of the writer sees them
  writer,  \* the thread whose transaction is open
  req,     \* what each thread is doing, and what it has read
  deaths

vars == <<db, work, writer, req, deaths>>

------------------------------------------------------------------------------
\* A question has no response row, one without a value, or an answer.
ResponseStates == Values \cup {"absent", "skipped"}

Statuses == {"in_progress", "submitted", "scored", "completed", "failed"}

\* The four score rows of an assessment, as the answers they were made of.
ScoreRows == [Questions -> ResponseStates]

Profiles == [type : ScoreRows, vector : ScoreRows]

Row == [status   : Statuses,
        index    : 0..MaxIndex,
        resp     : ScoreRows,
        rows     : ScoreRows \cup {None},
        blocked  : BOOLEAN,
        profile  : Profiles \cup {None},
        insights : SUBSET Contexts]

ASSUME RailsAssumption ==
  /\ IsFiniteSet(Questions)
  /\ None \notin Threads
  /\ None \notin ScoreRows
  /\ None \notin Profiles
  /\ Hasty \subseteq Values
  /\ "absent" \notin Values
  /\ "skipped" \notin Values
  /\ MaxIndex \in Nat
  /\ MaxDeaths \in Nat

InTransaction == {"calculate", "check", "explain", "complete"}

Requests ==
  [at    : {"idle", "save", "advance", "submit", "begin", "rescue"} \cup InTransaction,
   index : 0..MaxIndex,
   status : Statuses,
   q     : Questions \cup {None},
   v     : Values \cup {"skip"},
   seen  : ResponseStates]

Resting == [at |-> "idle", index |-> 0, status |-> "in_progress",
            q |-> None, v |-> "skip", seen |-> "absent"]

\* The rows the schema and the validations of the models admit, and what a
\* request holds of them.
RailsTypeOK ==
  /\ db \in Row
  /\ work \in Row
  /\ writer \in Threads \cup {None}
  /\ req \in [Threads -> Requests]
  /\ deaths \in 0..MaxDeaths

\* POST /assessments has made the assessment.
Init ==
  /\ db = [status |-> "in_progress", index |-> 0,
           resp |-> [q \in Questions |-> "absent"],
           rows |-> None, blocked |-> FALSE, profile |-> None, insights |-> {}]
  /\ work = db
  /\ writer = None
  /\ req = [t \in Threads |-> Resting]
  /\ deaths = 0

------------------------------------------------------------------------------
At(t, place) == req[t].at = place
GoTo(t, place) == req' = [req EXCEPT ![t].at = place]
Finish(t) == req' = [req EXCEPT ![t] = Resting]

\* A statement of its own: it waits until no transaction is open.
Write(field, value) ==
  /\ writer = None
  /\ db' = [db EXCEPT ![field] = value]
  /\ work' = db'
  /\ UNCHANGED <<writer, deaths>>

\* responses.answered.count against the number of active questions.
AllAnswered(resp) ==
  Cardinality({q \in Questions : resp[q] \in Values}) >= Cardinality(Questions)

\* PATCH /assessments/:id/questions/:question loads the assessment and the
\* response.  The form offers every question the browser has shown, whatever
\* the status, and a skip sends no value.
ReadAnswer(t, q, v) ==
  /\ At(t, "idle")
  /\ db.index < MaxIndex
  /\ req' = [req EXCEPT ![t] = [@ EXCEPT !.at = "save", !.index = db.index,
                                          !.q = q, !.v = v, !.seen = db.resp[q]]]
  /\ UNCHANGED <<db, work, writer, deaths>>

\* The row was not there when it was looked for and is there now: the
\* uniqueness of (assessment, question) refuses the response, and the form is
\* shown again.
Refused(t) == req[t].seen = "absent" /\ db.resp[req[t].q] # "absent"

RefuseResponse(t) ==
  /\ At(t, "save")
  /\ Refused(t)
  /\ Finish(t)
  /\ UNCHANGED <<db, work, writer, deaths>>

\* Mutant: a skip clears the value that is there.
SavedNil(t) == IF req[t].v = "skip" THEN "skipped" ELSE req[t].v

\* Only what differs from the loaded row is written, and a skip assigns no
\* value: it leaves an answer given before as it is.
Saved(t) ==
  IF req[t].v = "skip"
    THEN IF req[t].seen = "absent" THEN "skipped" ELSE db.resp[req[t].q]
    ELSE IF req[t].v = req[t].seen THEN db.resp[req[t].q] ELSE req[t].v

SaveResponse(t) ==
  /\ At(t, "save")
  /\ ~Refused(t)
  /\ Write("resp", [db.resp EXCEPT ![req[t].q] = Saved(t)])
  /\ GoTo(t, "advance")

\* Mutant: the question after the next one.
AdvanceTwice(t) ==
  /\ At(t, "advance")
  /\ Write("index", req[t].index + 2)
  /\ Finish(t)

\* next_question! adds one to the index that was loaded.
Advance(t) ==
  /\ At(t, "advance")
  /\ Write("index", req[t].index + 1)
  /\ Finish(t)

\* PATCH /assessments/:id/submit: refused until every question is answered.
ReadSubmit(t) ==
  /\ At(t, "idle")
  /\ AllAnswered(db.resp)
  /\ req' = [req EXCEPT ![t] = [@ EXCEPT !.at = "submit", !.status = db.status]]
  /\ UNCHANGED <<db, work, writer, deaths>>

\* A status that was loaded as 'submitted' is not written again.
WriteSubmit(t) ==
  /\ At(t, "submit")
  /\ Write("status", IF req[t].status = "submitted" THEN db.status ELSE "submitted")
  /\ Finish(t)

------------------------------------------------------------------------------
\* GET /results/:id runs the pipeline when it has loaded 'submitted'.
ReadShow(t) ==
  /\ At(t, "idle")
  /\ db.status = "submitted"
  /\ GoTo(t, "begin")
  /\ UNCHANGED <<db, work, writer, deaths>>

Begin(t) ==
  /\ At(t, "begin")
  /\ writer = None
  /\ writer' = t
  /\ GoTo(t, "calculate")
  /\ UNCHANGED <<db, work, deaths>>

\* Mutant: the pipeline without its transaction.
KeepWork(t) ==
  /\ writer' = IF writer = t THEN None ELSE writer
  /\ db' = IF writer = t THEN work ELSE db
  /\ UNCHANGED work

\* A transaction that does not commit leaves nothing behind.
Rollback(t) ==
  /\ writer' = IF writer = t THEN None ELSE writer
  /\ work' = IF writer = t THEN db ELSE work
  /\ UNCHANGED db

\* A step inside the transaction.
Within(t, place, next, row) ==
  /\ At(t, place)
  /\ work' = row
  /\ GoTo(t, next)
  /\ UNCHANGED <<db, writer, deaths>>

Commit(t, place, row) ==
  /\ At(t, place)
  /\ db' = row
  /\ work' = row
  /\ writer' = None
  /\ Finish(t)
  /\ UNCHANGED deaths

\* Mutant: the score rows are written anew by every run.
ScoresAnew(row) == row.resp

\* find_or_create_by!: score rows of an earlier run stay as they are.
ScoresOf(row) == IF row.rows = None THEN row.resp ELSE row.rows

\* Mutant: the scores are committed on their own.
CalculateApart(t) ==
  /\ At(t, "calculate")
  /\ work' = [work EXCEPT !.rows = ScoresOf(work), !.status = "scored"]
  /\ db' = work'
  /\ GoTo(t, "check")
  /\ UNCHANGED <<writer, deaths>>

\* Steps 1 to 5: the score rows, and status 'scored'.
Calculate(t) ==
  Within(t, "calculate", "check",
         [work EXCEPT !.rows = ScoresOf(work), !.status = "scored"])

\* PolicyChecker, by its speed rule: more than half of the answers are hasty.
Blocked(resp) ==
  2 * Cardinality({q \in Questions : resp[q] \in Hasty})
    > Cardinality({q \in Questions : resp[q] \in Values})

\* Step 6: a policy verdict marks the score rows and ends the transaction.
Block(t) ==
  /\ Blocked(work.resp)
  /\ Commit(t, "check", [work EXCEPT !.blocked = TRUE, !.status = "failed"])

\* Composer: the type is classified from the answers of this run, the vector
\* read from the score rows.
ProfileOf(row) == [type |-> row.resp, vector |-> row.rows]

\* Mutant: the profile is replaced when there is one.
ComposeOver(t) ==
  /\ ~Blocked(work.resp)
  /\ Within(t, "check", IF work.insights = Contexts THEN "complete" ELSE "explain",
            [work EXCEPT !.profile = ProfileOf(work)])

\* Step 7: Profile.create!, one for an assessment; a second one raises.
Compose(t) ==
  /\ ~Blocked(work.resp)
  /\ work.profile = None
  /\ Within(t, "check", "explain", [work EXCEPT !.profile = ProfileOf(work)])

\* Step 8: an insight for every context, in order.
Explain(t) ==
  \E c \in Contexts \ work.insights :
    LET written == work.insights \cup {c}
    IN  Within(t, "explain", IF written = Contexts THEN "complete" ELSE "explain",
               [work EXCEPT !.insights = written])

Complete(t) == Commit(t, "complete", [work EXCEPT !.status = "completed"])

\* Any step of the pipeline may raise: the transaction is rolled back.
Raise(t) ==
  /\ req[t].at \in InTransaction \cup {"begin"}
  /\ Rollback(t)
  /\ GoTo(t, "rescue")
  /\ UNCHANGED deaths

\* Mutant: the rescue only logs.
RescueQuietly(t) ==
  /\ At(t, "rescue")
  /\ Finish(t)
  /\ UNCHANGED <<db, work, writer, deaths>>

\* The rescue: fail!, whatever has become of the assessment meanwhile.
Rescue(t) ==
  /\ At(t, "rescue")
  /\ Write("status", "failed")
  /\ Finish(t)

\* The request ends half way: the process dies, or a statement raises.
Die(t) ==
  /\ ~At(t, "idle")
  /\ deaths < MaxDeaths
  /\ deaths' = deaths + 1
  /\ Rollback(t)
  /\ Finish(t)

------------------------------------------------------------------------------
Answering(t) == RefuseResponse(t) \/ SaveResponse(t) \/ Advance(t)

Scoring(t) ==
  \/ Begin(t) \/ Calculate(t) \/ Block(t) \/ Compose(t)
  \/ Explain(t) \/ Complete(t) \/ Raise(t) \/ Rescue(t)

Arrive(t) ==
  \/ \E q \in Questions, v \in Values \cup {"skip"} : ReadAnswer(t, q, v)
  \/ ReadSubmit(t)
  \/ ReadShow(t)

Serve(t) == Answering(t) \/ WriteSubmit(t) \/ Scoring(t)

Next == \E t \in Threads : Arrive(t) \/ Serve(t) \/ Die(t)

Spec == Init /\ [][Next]_vars

\* Puma goes on with a result page it is serving.
FairSpec == Spec /\ \A t \in Threads : WF_vars(Scoring(t))

------------------------------------------------------------------------------
(* Properties *)

\* An assessment that has been submitted has an answer to each question, where
\* all_questions_answered? only counted them when the submission was read; a
\* skip or an answer still on its way then may not take one back.
EveryAnswered(resp) == \A q \in Questions : resp[q] \in Values

SubmittedIsAnswered == db.status # "in_progress" => EveryAnswered(db.resp)

\* The result page shows a profile next to the score rows it was composed
\* from: pipelines that run twice, fail and run again never leave a profile
\* whose vector is not the rows.
VectorIsRows ==
  db.profile # None => db.rows # None /\ db.profile.vector = db.rows

\* 'completed' is said of an assessment with a profile, and nobody outside the
\* transaction meets 'scored', a status no handler takes any further.
StatusIsHonest ==
  /\ db.status = "completed" => db.profile # None
  /\ db.status # "scored"

\* The pipeline promises what the scoring saga of the workers promises: the
\* profile and every insight appear in one step, and then stay as they are,
\* however many result pages are opened and whatever they leave in the status.
Publication ==
  INSTANCE ReportPublication WITH
    Reports <- {Contexts},
    phase <- IF db.profile = None THEN "open" ELSE "published",
    visible <- db.insights

PublishesWhole == Publication!Spec

\* What a profile says was so when it was first shown and is never rewritten,
\* by another result page or a pipeline that runs after a new submission.
PublishedIsFinal ==
  [][db.profile # None =>
       /\ db'.profile = db.profile
       /\ db'.rows = db.rows]_vars

\* Result pages that have found the assessment submitted settle it, once no
\* request is cut off any more: other requests, a lock or an error may keep
\* them waiting, but nothing leaves the respondent with 'submitted' for good.
SubmittedIsSettled ==
  (deaths = MaxDeaths /\ \E t \in Threads : At(t, "begin"))
    ~> db.status # "submitted"

\* TypeClassifier "converts 4 normalized domain scores into a 4-letter
\* personality type code": the type of a profile is that of its vector.  It
\* does not hold: the score rows of a run the policy blocked outlive it.
TypeIsOfVector == db.profile # None => db.profile.type = db.profile.vector
==============================================================================

# A TLA+ model of kampikrein/personality

The repository is a personality assessment service and its apps: a Cloudflare
Workers server in TypeScript (`apps/workers`, the rebuild, with D1, KV and R2),
the Rails server it replaces (`server`), and a Flutter app (`mobile`) that draws
cards. `docs/` plans them. The C in the repository is vendored (SQLite, under
`mobile/macos/Pods`).

This directory models the parts that keep state and meet concurrency or failure,
checks them with TLC on small instances, and proves the safety properties that
matter most with TLAPS for every instance.

## 1. Inventory

### Workers server (`apps/workers/src`)

| Component | State | Operations | Hard behaviour | What makes it correct |
|---|---|---|---|---|
| **Scoring saga** `services/scoring/saga.ts`, with `profiles/composer.ts` and `insights/contextEngine.ts` | `assessments.status`, `responses`, `domain_scores`, `profiles`, `insights`, `audit_logs` | `runScoringPipeline`, `compensateScoring` | about twenty D1 calls without a transaction; overlapping calls; an isolate killed or a reply lost between two calls; retries | a report is published whole or not at all, stays published, is one respondent's, and a failure leaves evidence |
| **Session deletion** `services/compliance/deletionProcessor.ts` | all tables of one anonymous session, `deletion_requests`, `audit_logs` | `processDeletion` | twelve writes without a transaction, cascades, writers that carry on meanwhile, retries | success means nothing is left and nothing comes back; the audit precedes the erasure |
| **Scoring algorithms** `domainCalculator`, `normalizer`, `typeClassifier`, `reliabilityAdjuster`, `policyChecker`, `quality/*` | none | pure functions of the responses | boundaries (0.3, 0.5, 50), missing values, reversed polarity | range, monotonicity, totality, agreement with a reference definition |
| **Compliance log** `auditLogger`, `routes/public/consents.ts`, `deletion_requests.ts`, `crossBorderConsent` | `consents`, `deletion_requests`, `audit_logs` | POST, DELETE, audit | INSERT and `SELECT last_insert_rowid()` are two D1 calls | an audit row names the row it is about |
| **Rate limit** `middleware/rateLimit.ts` | a list of times per key, in KV | one read-modify-write per request | concurrent requests read the same list | no more than `limit` per window when requests do not overlap |
| **Key rotation** `crypto/keyRotation.ts`, `crypto/envelope.ts` | registered keys, current version, one envelope per row | `addNewKey`, `reEncryptRow`, `retireKey` | a rotation runs row by row beside readers and writers | a row can always be read with a registered key |
| **Accounts** `auth/*` | `users`, sessions in KV | sign up, in, out | single reads and writes | out of this model |
| **Backup** `scheduled/d1-backup.ts` | one dump in R2 | one D1 read per table | rows written during the dump | references in a dump point somewhere |
| **API routes** `api/routes/*` | fixed answers or a map in memory, except the consent and deletion routes | HTTP | none yet: stubs | out of this model |
| **Middleware, content, texts** | none | | | out of this model |

The saga and the deletion share every table, through D1 only. D1 runs one
statement or one `db.batch` at a time and atomically; between two of them any
other request may run. The foreign keys of `migrations/0000_thin_spyke.sql`, all
`ON DELETE cascade`, are what ties the two together: a statement of a scoring
call that is still running fails when its row is gone, and takes the call to its
catch block.

### Rails server (`server/app`)

| Component | State | Operations | Hard behaviour | What makes it correct |
|---|---|---|---|---|
| **Assessments and results** `AssessmentsController`, `AssessmentQuestionsController`, `ResultsController`, the models, `Profiles::Composer` | one assessment with its responses, score rows, profile and insights | answer, skip, submit, show | puma threads that work on the copy they loaded; a pipeline that runs inside a transaction, may raise, and is rescued outside it; `find_or_create_by!` next to `create!`; resubmission after a failure | a report appears whole and once; nothing takes an answer back after a submission; a result page settles what was submitted |
| **Deletion, admin, accounts** | the same tables | `DeletionProcessor`, CRUD | the job is never enqueued | out of this model |

The first answer controller is also the writer of `responses` the saga's model
assumes (`ReviseAnswers`), because the route of the rebuild is still a stub.

### Mobile app (`mobile/lib`)

| Component | State | Operations | Hard behaviour | What makes it correct |
|---|---|---|---|---|
| **Schema migration** `core/database/app_database.dart` | the drift store: `user_version`, `user_settings`, `readings` | `onCreate`, `onUpgrade` over nine versions | the process dies between two statements; only the block of version 8 is a transaction | the version never runs ahead of the columns; what opens is current; the level is raised once |
| **Draw pages** `features/draw`, `features/shuffle/presentation`, `features/home` | `shuffleStateProvider` (alive for the life of the app), the State of each page, the `readings` table | draw, reveal, redraw, save, navigate | futures that go on after their page was left or replaced; pages mounted during a transition; buttons that stay tappable | the reading saved is the one shown, once; a late draw disturbs nobody |
| **Stores** `daos/*`, repositories | settings, decks | check-then-insert | home waits for the seeding, so there is no second caller | out of this model |
| **Shuffle and entropy** `features/shuffle/domain`, `data` | a pool of sensor samples | health tests, Fisher-Yates | random numbers | out of this model |
| **Pages, widgets, animation** | | | | out of this model |

## 2. Plan

Modules in the order of what they protect; all that the plan meant to model is
here.

1. `ScoringSaga`, `ReportPublication` (abstract), `ScoringSagaProofs`,
   `SerialScoringProofs`. **Done.**
2. `SessionDeletion` (extends `ScoringSaga`), `SessionErasure` (abstract),
   `SessionDeletionProofs`. **Done**, except `deleted_counts` and several assessments per session.
3. `SchemaMigration`, `SchemaMigrationProofs`: the drift upgrades with a crash
   between any two statements. **Done.**
4. `RailsAssessment`, `RailsAssessmentProofs`: the life cycle over answer, submit
   and show, a second implementation of `ReportPublication`. **Done.**
5. `MobileDraw`, `MobileDrawProofs`, `SavedOnceProofs`: the draw pages. **Done.**

Considered and left out, for the reasons in section 6: key rotation, the
compliance log, the rate limit, the scoring arithmetic, the backup, the entropy
pool.

## 3. What the modules model

### `ScoringSaga`

One assessment and a set `Runs` of calls. Each call is a program counter
`pc[r]` and the locals its code holds on to: `mine` (the responses it has read,
which determine its scores, its type and its policy verdict), `vector` (the
`domain_scores` rows `composeProfile` has read back), `profileId`, `seen` (the
profile `generateInsight` has read), `context` (its place in `INSIGHT_CONTEXTS`).

| Action | Code |
|---|---|
| `ReadStatus`, `ReadProfileId` | the idempotency guard |
| `LoadResponses` | Phase A: one read, then pure functions |
| `PersistScores` | Phase B: one batch, scores and `scored` |
| `BlockScores` | Phase C: one batch, `policy_blocked`, `failed`, audit |
| `ReadScores`, `UpsertProfile`, `MarkProfiled` | Phase D: `composeProfile`, then `profiled` |
| `ReadProfile`, `UpsertInsight` | Phase D: `generateInsight`, once per context |
| `Finish` | Phase E: `completed` |
| `Compensate`, `AuditCompensation` | `compensateScoring`, from the catch block |
| `D1Error`, `Kill`, and the second disjunct of `Applied` | a D1 call rejects without effect; the isolate is evicted; D1 has applied a write and the reply is lost |
| `ResetFailed` | the reset the comment of the code leaves to the caller, as the test does it |
| `ReviseAnswers` | a response is saved again; nothing in the code forbids it at any status |

Tables are sets of rows. A UNIQUE index makes an UPSERT a replacement, so
`profiles` has at most one row. A row carries what it was computed from, as the
model value of the responses; that is the whole abstraction of the data. An
assessment id without a row (`status = "absent"`) is an initial state, and what
`SessionDeletion` makes of an assessment; the statements of a call then fail as
the foreign keys make them fail.

`ReportPublication` is what a reader is promised: `Publish` shows one of the whole
`Reports` in one step, `Abandon` and `Reopen` show nothing. Two instances of it tell
how much a part says. `ImplementsPublication` has one report, `Sections`, and maps
`visible` to the sections that are there when the status is `completed`: whole or
not at all. `PublishesOneReading` has one report for each reading of the responses
the policy lets through (`ReportOf`), and `Shown` keeps what each part was computed
from: whole, of one reading, and never rewritten.

### `SessionDeletion`

One session with one assessment, one consent and one request; a set `Deleters` of
`processDeletion` calls. Each action is one D1 call in the order of the code;
cascades are `ProfilesCascade`, `AssessmentCascade` and `SessionCascade`.
`ScoringNext` takes the steps of `ScoringSaga` on the same tables, and
`GrantConsent` is the INSERT of `POST /consents`. Without responses the
reliability is 0.2 and the policy refuses: hence `NoAnswers` is one of the blocked
responses. `CountSession` only reads, because `deleted_counts` is left out.

A completed request does not outlive its session: the cascade of `DeleteSession`
removes its row, where the comment at `deletionProcessor.ts:169-171` and
`deletion_flow.test.ts:187-193` expect to find it `completed`. One deletion without
any overlap or fault shows it, so it has no run of its own.

`SessionErasure` is what the person is promised: kinds of rows that are `held`, each
below its `Owner` as the foreign keys have it. `Erase` takes any rows away, `Write`
adds some below an owner that is there, but never is a row an orphan, the session
goes only once the deletion is `audited`, and `Answer` needs everything gone.
`ImplementsErasure` maps `held` to the kinds that have rows.

### `SchemaMigration`

One store and the app that opens it, again and again. `Upgrade` is the body of
`onUpgrade` as a sequence of statements, each with the `from < n` around it, and
`place` the one that comes next; one action per kind of statement. `version` is
`PRAGMA user_version`: drift hands it to `onUpgrade` as `from` and writes
`schemaVersion` only after that has returned (`SetSchemaVersion`), except that the
transaction of version 8 writes 8 itself (`Relayout`). `table`, `cols`, `level` and
`legacy` are what the statements change: the name of the layout column, the
columns added since, the level in the one settings row, the tables with layouts
still to be converted. `Crash` is a death between any two statements; `Fail` is
SQLite refusing one (a column that exists, a column that does not). `Init` is a
store as any released version leaves it, among them the "phantom v7.5" the comments
speak of, whose column is renamed and whose version is 7.

### `RailsAssessment`

One assessment of one respondent and a set `Threads` of puma threads. `db` is what
is committed; `work` what the writer's next statement sees; `writer` the thread
whose transaction is open, one at most because SQLite has one writer. A thread in
`req` holds what its request has loaded: the index, the status, the response. The
actions are the statements of `update` (answer or skip), `submit` and `show`, and
inside `show` the pipeline: `Begin`, `Calculate`, `Block` or `Compose`, `Explain`
per context, `Complete`; `Raise` rolls back from any of them and `Rescue` writes
`failed` outside the transaction. `Die` ends a request half way. Scoring is a
function of the answers: a score row is the answers it was made of. `Blocked` is
the speed rule of `PolicyChecker`, the one an instance of two questions can meet.

Two things the runs show that nobody may expect and no text denies: a second
result page that was waiting for the lock finds a profile, raises, and turns
`completed` into `failed` although the report stands; and a skipped question
counts towards the index, so the page that says all questions are answered can
come up when they are not (`submit` then refuses).

### `MobileDraw`

The pages of one run of the app in the order they were pushed. A page record is
the State of the page, with the code's fields (`_shuffleResult`, `_savedReadingId`,
`_animationComplete`, ...); `life` is what the framework makes of it: pushed
without a frame, on screen, replaced but still mounted until the transition ends,
unmounted. `calls` are the draws that wait for the database; `Deal`, `Fail` and
`Drop` are what follows: the cards arrive, the read throws, or the page is gone and
its `ref.read` throws. A shuffle is named by the call that dealt it, so that two
pages can be asked whether they speak of the same one; `kept` is the one field the
code does not have, what the replaced page was showing at the hand-over. What is
abstracted (frames, the back gesture during a transition, questions) is listed in
the module's header.

At level 1 the home page opens the result page without clearing the shared shuffle,
and the result page takes what it finds for an upstream page's result: a quick draw
shows and saves the cards of a draw that was left, or those of the quick draw before.
The design (`docs/2_tarot_draw/01_shuffle_core/065_Brief_unified_result_page.md:149`
and `:152`) requires that a stale result is not reused on entering again, and its
verification (`074_Verify_flow_cycle2.md:34`, `:36`) records that as passed.
`StaleIsNotReused` states it without exception, and the run `mobile_stale` shows it
violated. That a level 1 entry is the only way to a stale reading is a theorem
(section 5).

## 4. Runs

| Run | Instance | Shows |
|---|---|---|
| `saga_overlap` | 2 calls that overlap freely, 3 contexts, 2 faults, 1 edit, honest and refused responses | type correctness; a published or reported report is whole; a failure leaves evidence; `completed` is never left; until the first edit a report is of one reading and never rewritten, however calls overlap; refinement of `ReportPublication` |
| `saga_serial` | 3 calls one at a time, 2 contexts, 2 faults, 1 edit, two accepted and one refused set of responses | a published report is coherent, frozen, and answered for honestly; refinement of `ReportPublication` with what each part says; an interrupted assessment is settled |
| `saga_retry_link` | as `saga_serial` with a caller that does not reset `failed` | **violated**: the call answers `completed` and the row stays `failed` |
| `saga_race` | 2 overlapping calls, 1 edit, no fault | **violated**: a published report mixes two readings |
| `deletion_overlap` | 2 deletions, 1 scoring call, 2 contexts, 1 fault, 1 consent granted meanwhile | success means erased; a completed request holds no report; the audit precedes the erasure; refinement of `SessionErasure`; a deletion without faults erases |
| `migration_upgrade` | stores of every version 0 to 9, 2 deaths | the version never runs ahead of the columns; a store that opens is current and carries its level over; an opening fails only over a column ahead of its version, which takes a death, or on a store of version 1; undisturbed, every other store opens |
| `migration_interrupted` | stores of versions 7 and 8, 1 death | **violated**: a death after the ALTER of version 9 and before drift writes the version locks the store for good |
| `rails_assessment` | 2 threads, 2 questions, a steady and a hasty answer, 2 contexts, 3 advances, 1 request cut off | a submitted assessment keeps its answers; a profile stands next to its score rows, appears whole, and is never rewritten; `completed` means a profile; refinement of `ReportPublication`; what result pages find submitted is settled |
| `rails_type` | the same, without fairness | **violated**: the type is of the new answers and the score vector of the old rows |
| `mobile_draw` | 4 pages, 2 draws a page | the result page saves the shuffle it was handed and shows what it saved; a late draw is silent; a result page that loads has something to wait for, and does not load for ever |
| `mobile_stale` | 3 pages, 2 draws a page | **violated**: the animated page has set its result and is left; the quick draw entered next saves a reading of it |
| `mobile_stranded` | 3 pages, 2 draws a page | **violated**: cards turned before the slide animation ends never lead to the result page |

The six violations are findings: in each the code does something its own
comments, tests or design notes deny, quoted in `PROJECT.json`.

**Bounds.** Two calls are enough for every order of two actors' D1 calls, and the
properties of a call speak of one other at most; three serial calls give a crash, a
retry that crashes too, and one more. Two contexts have a first and a last
one, three also one in between. Two faults allow a fault in the compensation of a
fault. `deletion_overlap` has one, so the best-effort `UPDATE` of its catch block
never fails there itself: with two it passes as well (698,770 states) in twice the
time, and the theorems hold for any number. One edit separates any two readings. `MaxFaults`, `MaxRevisions` and
`MaxGrants` bound counters of the environment only; no action of the code reads
them, except `UninterruptedDeletionErases`, which is about executions without a
fault.

`migration_upgrade` starts from every version there is (11,885 states); two deaths
let an upgrade die, be resumed, and die again. In `rails_assessment` (about 1.25
million states) two questions are one answered and one to come, and two hasty
answers or one are the two sides of the speed rule; `MaxIndex` bounds the answers
that advance the assessment and so, with them, the rounds of answering again:
three are one more than the questions. It says `CHECK_DEADLOCK FALSE` because
answers are bounded and a respondent may stop. Four pages (133,509 states) are a
shuffle page with both of its result pages and one page more, or four in a row;
two draws are what one tap too many makes. There too a person may stop.

**Fairness.** `FairSpec` of the saga has weak fairness of each call's own steps,
which is the runtime serving a request it has not killed, and of `ResetFailed`, the
caller's part of a retry; faults, kills and edits are never owed. `SystemFairSpec`
asks the same of the deletions only: scoring calls may stop anywhere.
`InterruptedIsSettled` assumes that the responses stand still: after an edit behind
a crash the policy may refuse an assessment that is already `profiled`, whose status
the block then leaves alone, and later calls are refused in turn.
`SchemaMigration!FairSpec`: an opening that no death cuts short runs on, and an app
that failed to open is started again. `RailsAssessment!FairSpec`: puma goes on with
each result page it is serving; nobody has to answer, submit or open a page, and the
SQLite lock is free again whenever a transaction ends, so weak fairness per thread
is enough. `MobileDraw!FairSpec`: frames are drawn, animations and transitions end,
and the database answers each read with rows or an error; a person owes nothing.

**Serial and overlapping.** `CompletedIsCoherent`, `PublishedReportIsFrozen` and
`PublishesOneReading` hold for calls that do not overlap; `CompletionIsHonest` needs
a caller that resets a failed row as well, as `saga_retry_link` shows. With overlap
they do not hold: `saga_race` shows it for the first. It takes an edit of the
responses too, which is what `CoherentUntilRevised` and `FrozenUntilRevised` say.
The other properties of `saga_overlap` hold however calls overlap and responses are
edited.

## 5. Proofs

Each module's theorems hold for all constants its assumption allows.

`ScoringSagaProofs`:

- `TypeCorrect`: `Spec => []TypeOK`, from lemma `TypeInductive`.
- `BackedAlways`, `ReportedBackedAlways`. Phase E looks at the status only, so
  `CompletedIsBacked` is not inductive. `SagaInv` adds what the place of a call in
  its code says: after Phase B there are scores, after the profile UPSERT a
  profile, at context *c* the contexts before *c* are covered, from Phase E on all
  of them. It is inductive because no statement of any call removes what another
  has written: lemma `TablesGrow`. Lemma `StepElsewhere` says that a step of one
  call moves no other.
- `TerminalAlways`, from lemma `StatusMoves`, which collects the WHERE clauses.
- `EvidenceAlways`, inductive by itself: a call that answers `failed` has written its
  own audit row, and a failed row has one or a call that was cut off.
- `SagaImplementsPublication`: `SagaInv` makes the visible part all or nothing, and
  `StatusMoves` makes each step one of the abstract ones or a stutter.
- `CoherentUntilEdited`, `FrozenUntilEdited`. `UnrevisedInv` says that until the
  first edit all calls hold, and all rows were computed from, the one reading there
  is (`SameReading`), that the policy has one verdict on it (`SameVerdict`), and that
  an UPSERT keeps the id of the one profile (`OneProfile`): writing again writes the
  same.

`SerialScoringProofs` assumes `Serial` (`~Overlap`) and proves `CoherentSerially`
and `FrozenSerially`, and, with `CallerResets`, `HonestSerially`. Coherence needs no
such caller: a call on a row that is still `failed` matches none of its own UPDATEs
and publishes nothing. `OneReadingPublished`, that the saga implements
`ReportPublication` reading by reading, holds under `Serial \/ MaxRevisions = 0`: both
coherence theorems make the report that appears one of `Reports` (`ShownIsOneReport`)
and both frozen ones make every other step a stutter (`ReadingStep`). `SerialInv` says that one
call at most is in flight (`Alone`) and gives its `History`: what it has read is
what it has written, part by part, and the status is one its next statement
matches, or `failed`. One lemma per group of statements (`HistoryOfReads`, `HistoryOfWrites`,
`HistoryOfInsight`, `HistoryOfEnds`) carries it on; `CompletedUntouched` says that a
call which finds `completed` writes nothing.

`SessionDeletionProofs` proves `SuccessErases`, `CompletedHoldsNoReport` and
`AuditPrecedesErasure`. `SystemInv` joins the foreign keys (`ForeignKeys`: no row
refers to a row that is gone) with what each deletion's place says it has deleted.
`ScoringKeepsKeys` carries the argument: a scoring call cannot write below a row
that is gone, so what a deletion has deleted with its assessment stays deleted.
It uses `StatusMoves` of the saga. `DeletionTypeCorrect` adds `GrantsCounted` (there
are no more consents than grants), since the bound on consents is not typed by
itself. `DeletionImplementsErasure` proves the refinement of `SessionErasure`:
`KeysLeaveNoOrphans` turns the foreign keys into `NoOrphans`, `DeletionOnlyDeletes`
and `DeletionStepErases` make each statement of a deletion an `Erase`, an `Audit` or
an `Answer`, `ScoringStepWrites` each one of a scoring call a `Write`, or an `Erase`
when an edit takes the last response back, since each touches one kind of row below an
owner that is there (`OneKindMoves`).

`SchemaMigrationProofs` proves `MigrationTypeCorrect`, `VersionBehindAlways`,
`OpenedCurrentAlways` and `FailsOnlyAheadAlways` from `MigrationInv`: beside these,
`LayoutInv` (what the version says of the rename and the conversion), `UpgradeInv`
(the version while a statement runs is the one `onUpgrade` was called with, up to
the transaction) and `ColumnsInv` (every column of a statement passed is there,
whether it ran or was skipped). `LevelCarriedOverAlways` adds `LevelInv`: while the
version is the first one, a level may stand half way; the statements after
`RaiseLevel` see the final one. `UninterruptedAlways` adds `UninterruptedInv`: without
a death a closed store has exactly the columns of its version, and while it is
upgraded none of the columns still to come (`ToComeInv`), as no two ALTERs add the
same one (`ColumnsDiffer`).

`RailsAssessmentProofs` proves `RailsTypeCorrect`, `SubmittedAnsweredAlways`,
`VectorIsRowsAlways`, `StatusHonestAlways`, `PublishedFinalAlways` and
`PublishesWholeAlways` from `RailsInv`: types, `ReadBelow` (an answer on its way is
to a question and was read below the bound), `AnsweredInv` (an answer is never taken back, so a
submission that was read stays justified; the code counts the answers, and lemma
`CountIsEvery` makes the count an answer to each question, of which there are finitely
many), `WriterInv` (`work` differs from `db` only
inside the one open transaction), `WholeInv` (`db` has all insights with a profile or
none) and `WorkInv` (what the place in the pipeline says of `work`).

`MobileDrawProofs` proves `DrawTypeCorrect`, `UpstreamKeptAlways`,
`ShownIsSavedAlways` and `LateDrawIsSilentAlways` from `DrawInv`, theorem
`DrawInvariant`: which page may be leaving (`LeavingInv`), whose draw may be pending
(`PendingInv`), what a page before its first frame will find (`FreshInv`), and that
the animated page shows what it would hand over (`AgreesInv`).
`LoadingAwaitsDrawAlways` adds `LoadingInv`: only result pages that are mounted load,
each before its first frame or with its last draw pending; a draw that ends without
its page (`Drop`) ends for one that does not load any more. `SavedOnceProofs`
proves `SavedOnceElsewhere` with `OnceInv` on top: apart from the first readings of
result pages opened from home, which `mobile_stale` is about, every reading is of its
page's own draw or of the page it replaced, and no two are of one shuffle. A page
that was replaced is off the screen (`FromInv`), what a result page took over is not pending and nobody else's
(`KeptInv`, `DealtInv`), and a reading holds what its name says (`RowsInv`).

Every safety property of the passing runs is proved. Only model-checked are the
liveness properties `InterruptedIsSettled`, `UninterruptedDeletionErases`,
`UninterruptedUpgradeOpens`, `SubmittedIsSettled` and `ResultSettles`: they rest on
fairness and `ENABLED`, which the prover does not do. Of two the safety half is
proved: `UninterruptedNeverFails` (an upgrade that goes on does not fail) and
`LoadingAwaitsDraw` (a page that loads has a draw that can end). The violations are
TLC's too.

## 6. What is not modelled

- **Scoring arithmetic** (`domainCalculator`, `normalizer`, `typeClassifier`,
  `reliabilityAdjuster`, `policyChecker`, `quality/*`): floating-point sums, means
  and roundings. A model over integers would be of another function; the models take
  scoring as a function of the responses. Unit tests cover it.
- **Key rotation and envelopes**: nothing in the repository calls the rotation, so
  the order of its phases, its concurrency and its retries would be the model's
  invention. Its re-labelling of a row it cannot read is listed as a hazard.
- **Rate limit**: a KV read-modify-write; KV promises no order between regions, so
  there is no bound the code keeps when requests overlap.
- **Compliance log, consents beyond the grant, deletion-request routes**: single
  statements and the two-call row id, listed as hazards.
- **Backup**: one read per table into an object nothing reads back.
- **`deleted_counts`** and several assessments per session in `SessionDeletion`.
- **Rails deletion, admin, accounts**: one transaction in a job that is never
  enqueued; single reads and writes.
- **Mobile stores, shuffle and entropy, other pages**: the check-then-insert has no
  second caller once home waits for the seeding; randomness; layout.
- **Texts, middleware, authentication, stub routes**: no state, or fixed answers.
- **Vendored and generated code.** The only C in the repository is SQLite and the
  umbrella headers of its pods under `mobile/macos/Pods`, third-party code that the
  app links; the program's own code is TypeScript, Ruby and Dart, and the models
  translate that. SQLite appears as what the code relies on: one writer, atomic
  statements and transactions, foreign keys, ALTER that refuses a duplicate column.

D1 is taken to apply one statement or batch at a time, all or nothing, and to enforce
foreign keys; a statement takes effect before its reply and never after a later
one of the same call.

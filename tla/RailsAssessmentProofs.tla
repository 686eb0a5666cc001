------------------------ MODULE RailsAssessmentProofs ------------------------
(***************************************************************************)
(* Safety of RailsAssessment for any number of threads, questions, answers *)
(* and insight contexts: the invariants of the runs, what a shown profile  *)
(* never does, and the refinement of ReportPublication.                    *)
(*                                                                         *)
(* RailsInv strengthens them with what each thread may rely on: who holds  *)
(* the transaction and how far its copy of the rows has come.              *)
(***************************************************************************)
EXTENDS RailsAssessment, FiniteSetTheorems, TLAPS

\* An answer still on its way is to a question, and was read below the bound.
ReadBelow ==
  \A t \in Threads : req[t].at \in {"save", "advance"} =>
    req[t].index < MaxIndex /\ req[t].q \in Questions

\* A submission read, and a pipeline entered, found every question answered.
Past == {"submit", "begin", "rescue"} \cup InTransaction

AnsweredInv ==
  /\ SubmittedIsAnswered
  /\ \A t \in Threads : req[t].at \in Past => EveryAnswered(db.resp)

\* The thread inside the transaction is its holder, and without one the next
\* statement sees the committed rows.
WriterInv ==
  /\ \A t \in Threads : req[t].at \in InTransaction <=> t = writer
  /\ writer = None => work = db

\* The committed rows: all of a report, or none of it.
WholeInv ==
  /\ VectorIsRows
  /\ StatusIsHonest
  /\ db.insights = IF db.profile = None THEN {} ELSE Contexts

\* What the transaction may not touch, and what it has made so far.
Kept ==
  /\ work.resp = db.resp
  /\ db.rows # None => work.rows = db.rows
  /\ db.profile # None => work.profile = db.profile /\ work.insights = db.insights

Made(place) ==
  /\ place \in InTransaction => Kept
  /\ place = "calculate" => work = db
  /\ place = "check" =>
       /\ work.rows # None
       /\ work.profile = db.profile
       /\ work.insights = db.insights
  /\ place \in {"explain", "complete"} =>
       /\ work.rows # None
       /\ work.profile # None
       /\ work.profile.vector = work.rows
       /\ db.profile = None
  /\ place = "complete" => work.insights = Contexts

WorkInv == \A t \in Threads : Made(req[t].at)

RailsInv ==
  /\ RailsTypeOK
  /\ ReadBelow
  /\ AnsweredInv
  /\ WriterInv
  /\ WholeInv
  /\ WorkInv

------------------------------------------------------------------------------
(* Type correctness *)

\* A request that moves on, or ends, is a request.
LEMMA RequestsMove ==
  ASSUME req \in [Threads -> Requests], ReadBelow, NEW t \in Threads,
         \/ Finish(t)
         \/ \E place \in {"submit", "begin", "rescue"} \cup InTransaction : GoTo(t, place)
         \/ At(t, "save") /\ GoTo(t, "advance")
  PROVE  req' \in [Threads -> Requests] /\ ReadBelow'
<1>1. CASE Finish(t)
  <2>1. Resting \in Requests
    BY RailsAssumption DEF Resting, Requests, Statuses, ResponseStates
  <2> QED
    BY <1>1, <2>1 DEF Finish, ReadBelow, Resting
<1>2. CASE \E place \in {"submit", "begin", "rescue"} \cup InTransaction : GoTo(t, place)
  <2>1. PICK place \in {"submit", "begin", "rescue"} \cup InTransaction : GoTo(t, place)
    BY <1>2
  <2>2. req[t] \in Requests
    OBVIOUS
  <2>3. [req[t] EXCEPT !.at = place] \in Requests
    BY <2>1, <2>2 DEF Requests
  <2>4. req' = [req EXCEPT ![t] = [req[t] EXCEPT !.at = place]]
    BY <2>1 DEF GoTo
  <2>5. place \notin {"save", "advance"}
    BY DEF InTransaction
  <2> QED
    BY <2>2, <2>3, <2>4, <2>5 DEF ReadBelow, Requests
<1>3. CASE At(t, "save") /\ GoTo(t, "advance")
  <2>1. req[t] \in Requests
    OBVIOUS
  <2>2. [req[t] EXCEPT !.at = "advance"] \in Requests
    BY <2>1 DEF Requests
  <2>3. req' = [req EXCEPT ![t] = [req[t] EXCEPT !.at = "advance"]]
    BY <1>3 DEF GoTo
  <2> QED
    BY <1>3, <2>1, <2>2, <2>3 DEF ReadBelow, Requests, At
<1> QED
  BY <1>1, <1>2, <1>3

\* What a response is saved as is a response state.
LEMMA SavedType ==
  ASSUME RailsTypeOK, ReadBelow, NEW t \in Threads, At(t, "save")
  PROVE  [db.resp EXCEPT ![req[t].q] = Saved(t)] \in ScoreRows
<1>1. req[t] \in Requests /\ db.resp \in ScoreRows
  BY DEF RailsTypeOK, Row
<1>2. req[t].q \in Questions
  BY DEF ReadBelow, At
<1>3. req[t].v \in Values \cup {"skip"} /\ db.resp[req[t].q] \in ResponseStates
  BY <1>1, <1>2 DEF Requests, ScoreRows
<1>4. Saved(t) \in ResponseStates
  BY <1>3 DEF Saved, ResponseStates
<1> QED
  BY <1>1, <1>4 DEF ScoreRows

\* A statement outside a transaction keeps the other columns.
LEMMA WriteType ==
  ASSUME RailsTypeOK, NEW field, NEW value, Write(field, value),
         \/ field = "status" /\ value \in Statuses
         \/ field = "index" /\ value \in 0..MaxIndex
         \/ field = "resp" /\ value \in ScoreRows
  PROVE  db' \in Row /\ work' \in Row /\ writer' = writer /\ deaths' = deaths
BY DEF RailsTypeOK, Row, Write

\* A transaction that is rolled back leaves the committed rows.
LEMMA RollbackType ==
  ASSUME RailsTypeOK, NEW t \in Threads, Rollback(t)
  PROVE  db' \in Row /\ work' \in Row /\ writer' \in Threads \cup {None}
BY DEF RailsTypeOK, Rollback

\* The rows the steps of the pipeline make are rows.
LEMMA WorkTypes ==
  ASSUME RailsTypeOK
  PROVE  /\ [work EXCEPT !.rows = ScoresOf(work), !.status = "scored"] \in Row
         /\ [work EXCEPT !.blocked = TRUE, !.status = "failed"] \in Row
         /\ work.rows # None =>
              [work EXCEPT !.profile = ProfileOf(work)] \in Row
         /\ \A c \in Contexts :
              [work EXCEPT !.insights = work.insights \cup {c}] \in Row
         /\ [work EXCEPT !.status = "completed"] \in Row
<1> work \in Row
  BY DEF RailsTypeOK
<1>1. ScoresOf(work) \in ScoreRows
  BY DEF ScoresOf, Row
<1>2. work.rows # None => ProfileOf(work) \in Profiles
  BY DEF ProfileOf, Profiles, Row
<1>3. \A c \in Contexts : work.insights \cup {c} \in SUBSET Contexts
  BY DEF Row
<1>4. [work EXCEPT !.rows = ScoresOf(work), !.status = "scored"] \in Row
  BY <1>1 DEF Row, Statuses
<1>5. [work EXCEPT !.blocked = TRUE, !.status = "failed"] \in Row
  BY DEF Row, Statuses
<1>6. work.rows # None => [work EXCEPT !.profile = ProfileOf(work)] \in Row
  BY <1>2 DEF Row
<1>7. \A c \in Contexts : [work EXCEPT !.insights = work.insights \cup {c}] \in Row
  BY <1>3 DEF Row
<1>8. [work EXCEPT !.status = "completed"] \in Row
  BY DEF Row, Statuses
<1> QED
  BY <1>4, <1>5, <1>6, <1>7, <1>8

\* The requests that arrive are requests.
LEMMA ArriveType ==
  ASSUME RailsTypeOK, ReadBelow, NEW t \in Threads, Arrive(t)
  PROVE  /\ req' \in [Threads -> Requests] /\ ReadBelow'
         /\ UNCHANGED <<db, work, writer, deaths>>
<1> req[t] \in Requests /\ db \in Row /\ req \in [Threads -> Requests]
  BY DEF RailsTypeOK
<1>1. ASSUME NEW q \in Questions, NEW v \in Values \cup {"skip"}, ReadAnswer(t, q, v)
      PROVE  /\ req' \in [Threads -> Requests] /\ ReadBelow'
             /\ UNCHANGED <<db, work, writer, deaths>>
  <2>1. db.index \in 0..MaxIndex /\ db.index < MaxIndex /\ db.resp[q] \in ResponseStates
    BY <1>1 DEF ReadAnswer, Row, ScoreRows
  <2> DEFINE asked == [req[t] EXCEPT !.at = "save", !.index = db.index,
                                     !.q = q, !.v = v, !.seen = db.resp[q]]
  <2>2. asked \in Requests /\ asked.index = db.index /\ asked.q = q
    BY <2>1 DEF Requests
  <2>3. req' = [req EXCEPT ![t] = asked] /\ UNCHANGED <<db, work, writer, deaths>>
    BY <1>1 DEF ReadAnswer
  <2> HIDE DEF asked
  <2> QED
    BY <2>1, <2>2, <2>3 DEF ReadBelow
<1>2. CASE ReadSubmit(t)
  <2>1. db.status \in Statuses
    BY DEF Row
  <2> DEFINE asked == [req[t] EXCEPT !.at = "submit", !.status = db.status]
  <2>2. asked \in Requests /\ asked.at = "submit"
    BY <2>1 DEF Requests
  <2>3. req' = [req EXCEPT ![t] = asked] /\ UNCHANGED <<db, work, writer, deaths>>
    BY <1>2 DEF ReadSubmit
  <2> HIDE DEF asked
  <2> QED
    BY <2>2, <2>3 DEF ReadBelow
<1>3. CASE ReadShow(t)
  <2>1. GoTo(t, "begin") /\ UNCHANGED <<db, work, writer, deaths>>
    BY <1>3 DEF ReadShow
  <2> QED
    BY <2>1, RequestsMove
<1> QED
  BY <1>1, <1>2, <1>3 DEF Arrive

\* Every step leaves the variables in their types: statuses are written with
\* statuses, and an index read below the bound grows by one.
LEMMA RailsTypes ==
  ASSUME RailsTypeOK, ReadBelow, WorkInv, [Next]_vars
  PROVE  RailsTypeOK' /\ ReadBelow'
<1>1. CASE UNCHANGED vars
  BY <1>1 DEF vars, RailsTypeOK, ReadBelow
<1>2. SUFFICES ASSUME NEW t \in Threads, Arrive(t) \/ Serve(t) \/ Die(t)
               PROVE  /\ req' \in [Threads -> Requests] /\ ReadBelow'
                      /\ db' \in Row /\ work' \in Row
                      /\ writer' \in Threads \cup {None}
                      /\ deaths' \in 0..MaxDeaths
  BY <1>1 DEF Next, RailsTypeOK
<1>a. /\ req \in [Threads -> Requests] /\ db \in Row /\ work \in Row
      /\ writer \in Threads \cup {None} /\ deaths \in 0..MaxDeaths
      /\ req[t] \in Requests
  BY DEF RailsTypeOK
<1>3. CASE Arrive(t)
  BY <1>3, <1>a, ArriveType
<1>4. CASE RefuseResponse(t)
  <2>1. Finish(t) /\ UNCHANGED <<db, work, writer, deaths>>
    BY <1>4 DEF RefuseResponse
  <2> QED
    BY <2>1, <1>a, RequestsMove
<1>5. CASE SaveResponse(t)
  <2>1. At(t, "save") /\ GoTo(t, "advance")
        /\ Write("resp", [db.resp EXCEPT ![req[t].q] = Saved(t)])
    BY <1>5 DEF SaveResponse
  <2>2. [db.resp EXCEPT ![req[t].q] = Saved(t)] \in ScoreRows
    BY <2>1, SavedType
  <2>3. db' \in Row /\ work' \in Row /\ writer' = writer /\ deaths' = deaths
    BY <2>1, <2>2, WriteType
  <2> QED
    BY <2>1, <2>3, <1>a, RequestsMove
<1>6. CASE Advance(t)
  <2>1. At(t, "advance") /\ Finish(t) /\ Write("index", req[t].index + 1)
    BY <1>6 DEF Advance
  <2>2. req[t].index \in 0..MaxIndex /\ req[t].index < MaxIndex
    BY <2>1, <1>a DEF ReadBelow, At, Requests
  <2>3. req[t].index + 1 \in 0..MaxIndex
    BY <2>2, RailsAssumption
  <2>4. db' \in Row /\ work' \in Row /\ writer' = writer /\ deaths' = deaths
    BY <2>1, <2>3, WriteType
  <2> QED
    BY <2>1, <2>4, <1>a, RequestsMove
<1>7. CASE WriteSubmit(t)
  <2> DEFINE new == IF req[t].status = "submitted" THEN db.status ELSE "submitted"
  <2>1. Finish(t) /\ Write("status", new)
    BY <1>7 DEF WriteSubmit
  <2>2. new \in Statuses
    BY <1>a DEF Row, Statuses
  <2> HIDE DEF new
  <2>3. db' \in Row /\ work' \in Row /\ writer' = writer /\ deaths' = deaths
    BY <2>1, <2>2, WriteType
  <2> QED
    BY <2>1, <2>3, <1>a, RequestsMove
<1>8. CASE Begin(t)
  <2>1. GoTo(t, "calculate") /\ writer' = t /\ UNCHANGED <<db, work, deaths>>
    BY <1>8 DEF Begin
  <2> QED
    BY <2>1, <1>a, RequestsMove DEF InTransaction
<1>9. ASSUME NEW place, NEW next \in InTransaction, NEW row \in Row,
             Within(t, place, next, row)
      PROVE  /\ req' \in [Threads -> Requests] /\ ReadBelow'
             /\ db' \in Row /\ work' \in Row
             /\ writer' \in Threads \cup {None}
             /\ deaths' \in 0..MaxDeaths
  <2>1. GoTo(t, next) /\ work' = row /\ UNCHANGED <<db, writer, deaths>>
    BY <1>9 DEF Within
  <2> QED
    BY <2>1, <1>a, RequestsMove
<1>10. ASSUME NEW place, NEW row \in Row, Commit(t, place, row)
       PROVE  /\ req' \in [Threads -> Requests] /\ ReadBelow'
              /\ db' \in Row /\ work' \in Row
              /\ writer' \in Threads \cup {None}
              /\ deaths' \in 0..MaxDeaths
  <2>1. Finish(t) /\ db' = row /\ work' = row /\ writer' = None /\ deaths' = deaths
    BY <1>10 DEF Commit
  <2> QED
    BY <2>1, <1>a, RequestsMove
<1>11. CASE Calculate(t)
  BY <1>11, <1>9, WorkTypes DEF Calculate, InTransaction
<1>12. CASE Block(t)
  BY <1>12, <1>10, WorkTypes DEF Block
<1>13. CASE Compose(t)
  <2>1. Within(t, "check", "explain", [work EXCEPT !.profile = ProfileOf(work)])
    BY <1>13 DEF Compose
  <2>2. work.rows # None
    BY <2>1 DEF Within, WorkInv, Made, At
  <2>3. [work EXCEPT !.profile = ProfileOf(work)] \in Row
    BY <2>2, WorkTypes
  <2> QED
    BY <2>1, <2>3, <1>9 DEF InTransaction
<1>14. CASE Explain(t)
  <2>1. PICK c \in Contexts, next \in InTransaction :
          Within(t, "explain", next, [work EXCEPT !.insights = work.insights \cup {c}])
    BY <1>14 DEF Explain, InTransaction
  <2> QED
    BY <2>1, <1>9, WorkTypes
<1>15. CASE Complete(t)
  BY <1>15, <1>10, WorkTypes DEF Complete
<1>16. CASE Raise(t)
  <2>1. Rollback(t) /\ GoTo(t, "rescue") /\ deaths' = deaths
    BY <1>16 DEF Raise
  <2> QED
    BY <2>1, <1>a, RollbackType, RequestsMove
<1>17. CASE Rescue(t)
  <2>1. Write("status", "failed") /\ Finish(t)
    BY <1>17 DEF Rescue
  <2>2. db' \in Row /\ work' \in Row /\ writer' = writer /\ deaths' = deaths
    BY <2>1, WriteType DEF Statuses
  <2> QED
    BY <2>1, <2>2, <1>a, RequestsMove
<1>18. CASE Die(t)
  <2>1. Rollback(t) /\ Finish(t) /\ deaths < MaxDeaths /\ deaths' = deaths + 1
    BY <1>18 DEF Die
  <2>2. deaths' \in 0..MaxDeaths
    BY <2>1, <1>a, RailsAssumption
  <2> QED
    BY <2>1, <2>2, <1>a, RollbackType, RequestsMove
<1> QED
  BY <1>2, <1>3, <1>4, <1>5, <1>6, <1>7, <1>8, <1>11, <1>12, <1>13, <1>14,
     <1>15, <1>16, <1>17, <1>18 DEF Serve, Answering, Scoring

------------------------------------------------------------------------------
(* The invariant *)

\* Thread t is at place afterwards, and the others are where they were.
Moves(t, place) ==
  \A u \in Threads : req'[u].at = IF u = t THEN place ELSE req[u].at

LEMMA Moving ==
  ASSUME req \in [Threads -> Requests], NEW t \in Threads, NEW place
  PROVE  /\ GoTo(t, place) => Moves(t, place)
         /\ Finish(t) => Moves(t, "idle")
<1>1. GoTo(t, place) => Moves(t, place)
  BY DEF GoTo, Moves, Requests
<1>2. Finish(t) => Moves(t, "idle")
  BY DEF Finish, Moves, Requests, Resting
<1> QED
  BY <1>1, <1>2

\* As many answers as there are questions: an answer to each.
LEMMA CountIsEvery ==
  ASSUME NEW resp, AllAnswered(resp) PROVE EveryAnswered(resp)
<1> DEFINE answered == {q \in Questions : resp[q] \in Values}
<1>1. /\ answered \in SUBSET Questions
      /\ IsFiniteSet(Questions) /\ IsFiniteSet(answered)
      /\ Cardinality(answered) <= Cardinality(Questions)
      /\ Cardinality(Questions) = Cardinality(answered) => Questions = answered
  BY RailsAssumption, FS_Subset
<1>2. Cardinality(answered) \in Nat /\ Cardinality(Questions) \in Nat
  BY <1>1, FS_CardinalityType
<1>3. Cardinality(answered) >= Cardinality(Questions)
  BY DEF AllAnswered
<1>4. Questions = answered
  <2> HIDE DEF answered
  <2> QED BY <1>1, <1>2, <1>3
<1> QED
  BY <1>4 DEF EveryAnswered

\* An answer may change; it is never taken back.
LEMMA SavedKeeps ==
  ASSUME RailsTypeOK, ReadBelow, NEW t \in Threads, At(t, "save"), ~Refused(t),
         EveryAnswered(db.resp)
  PROVE  EveryAnswered([db.resp EXCEPT ![req[t].q] = Saved(t)])
<1>1. req[t] \in Requests /\ db.resp \in ScoreRows /\ req[t].q \in Questions
  BY DEF RailsTypeOK, Row, ReadBelow, At
<1>2. req[t].v \in Values \cup {"skip"} /\ db.resp[req[t].q] \in Values
  BY <1>1 DEF Requests, EveryAnswered
<1>3. db.resp[req[t].q] # "absent"
  BY <1>2, RailsAssumption
<1>4. req[t].seen # "absent"
  BY <1>3 DEF Refused
<1>5. Saved(t) \in Values
  BY <1>2, <1>4 DEF Saved
<1> QED
  BY <1>1, <1>5 DEF EveryAnswered, ScoreRows

\* A step that leaves the rows alone and stays outside the transaction.
LEMMA OutsideStep ==
  ASSUME RailsInv, NEW t \in Threads, NEW place,
         place \in {"idle", "save", "submit", "begin", "rescue"},
         UNCHANGED <<db, work, writer>>, Moves(t, place), ~(t = writer),
         place \in Past => EveryAnswered(db.resp)
  PROVE  AnsweredInv' /\ WriterInv' /\ WholeInv' /\ WorkInv'
<1>1. AnsweredInv /\ WriterInv /\ WholeInv /\ WorkInv
  BY DEF RailsInv
<1>2. place \notin InTransaction
  BY DEF InTransaction
<1>3. AnsweredInv'
  BY <1>1 DEF AnsweredInv, SubmittedIsAnswered, Moves
<1>4. WriterInv'
  BY <1>1, <1>2 DEF WriterInv, Moves
<1>5. WholeInv'
  BY <1>1 DEF WholeInv, VectorIsRows, StatusIsHonest
<1>6. WorkInv'
  <2> SUFFICES ASSUME NEW u \in Threads PROVE Made(req[u].at)'
    BY DEF WorkInv
  <2>1. CASE u = t
    <3>1. req'[u].at = place
      BY <2>1 DEF Moves
    <3>2. place \notin {"calculate", "check", "explain", "complete"}
      BY <1>2 DEF InTransaction
    <3> QED
      BY <1>2, <3>1, <3>2 DEF Made
  <2>2. CASE u # t
    <3>1. Made(req[u].at) /\ req'[u].at = req[u].at
      BY <1>1, <2>2 DEF Moves, WorkInv
    <3> QED
      BY <3>1 DEF Made, Kept
  <2> QED
    BY <2>1, <2>2
<1> QED
  BY <1>3, <1>4, <1>5, <1>6

\* Without a transaction the work of every thread is in order.
LEMMA NoWork ==
  ASSUME \A u \in Threads : req'[u].at \notin InTransaction
  PROVE  WorkInv'
<1> SUFFICES ASSUME NEW u \in Threads PROVE Made(req[u].at)'
  BY DEF WorkInv
<1>1. req'[u].at \notin {"calculate", "check", "explain", "complete"}
  BY DEF InTransaction
<1> QED
  BY <1>1 DEF Made, InTransaction

\* A statement of its own changes one column and ends or goes on.
LEMMA WriteStep ==
  ASSUME RailsInv, NEW t \in Threads, NEW place \in {"idle", "advance"},
         NEW field \in {"status", "index", "resp"}, NEW value,
         Write(field, value), Moves(t, place),
         field = "status" =>
           /\ value \in {"submitted", "failed"} \/ value = db.status
           /\ EveryAnswered(db.resp),
         field = "resp" => (EveryAnswered(db.resp) => EveryAnswered(value))
  PROVE  AnsweredInv' /\ WriterInv' /\ WholeInv' /\ WorkInv'
<1>1. AnsweredInv /\ WriterInv /\ WholeInv /\ db \in Row
  BY DEF RailsInv, RailsTypeOK
<1>2. writer = None /\ writer' = None /\ work' = db'
      /\ db' = [db EXCEPT ![field] = value]
  BY DEF Write
<1>3. /\ db'.rows = db.rows /\ db'.profile = db.profile /\ db'.insights = db.insights
      /\ db'.status = IF field = "status" THEN value ELSE db.status
      /\ db'.resp = IF field = "resp" THEN value ELSE db.resp
  BY <1>1, <1>2 DEF Row
<1>4. \A u \in Threads : req[u].at \notin InTransaction
  BY <1>1, <1>2, RailsAssumption DEF WriterInv
<1>5. place \notin Past
  BY DEF Past, InTransaction
<1>6. place \notin InTransaction
  BY DEF InTransaction
<1>7. \A u \in Threads : req'[u].at \notin InTransaction
  BY <1>4, <1>6 DEF Moves
<1>8. EveryAnswered(db.resp) => EveryAnswered(db'.resp)
  BY <1>3
<1>9. db'.status # "in_progress" => EveryAnswered(db'.resp)
  BY <1>1, <1>3, <1>8 DEF AnsweredInv, SubmittedIsAnswered
<1>10. \A u \in Threads : req'[u].at \in Past => EveryAnswered(db'.resp)
  BY <1>1, <1>5, <1>8 DEF AnsweredInv, Moves
<1>11. AnsweredInv'
  BY <1>9, <1>10 DEF AnsweredInv, SubmittedIsAnswered
<1>12. WriterInv'
  BY <1>2, <1>7, RailsAssumption DEF WriterInv
<1>13. db'.status = "completed" => db.status = "completed"
  BY <1>3
<1>14. db'.status # "scored"
  BY <1>1, <1>3 DEF WholeInv, StatusIsHonest
<1>15. WholeInv'
  BY <1>1, <1>3, <1>13, <1>14 DEF WholeInv, VectorIsRows, StatusIsHonest
<1>16. WorkInv'
  BY <1>7, NoWork
<1> QED
  BY <1>11, <1>12, <1>15, <1>16

\* A step inside the transaction: t holds it before and after.
LEMMA InsideStep ==
  ASSUME RailsInv, NEW t \in Threads, NEW place \in InTransaction,
         UNCHANGED db, writer' = t, Moves(t, place),
         EveryAnswered(db.resp),
         \A u \in Threads : u # t => req[u].at \notin InTransaction,
         Made(place)'
  PROVE  AnsweredInv' /\ WriterInv' /\ WholeInv' /\ WorkInv'
<1>1. AnsweredInv /\ WholeInv
  BY DEF RailsInv
<1>2. AnsweredInv'
  BY <1>1 DEF AnsweredInv, SubmittedIsAnswered, Moves
<1>3. WriterInv'
  BY RailsAssumption DEF WriterInv, Moves
<1>4. WholeInv'
  BY <1>1 DEF WholeInv, VectorIsRows, StatusIsHonest
<1>5. WorkInv'
  <2> SUFFICES ASSUME NEW u \in Threads PROVE Made(req[u].at)'
    BY DEF WorkInv
  <2>1. CASE u = t
    <3>1. req'[u].at = place
      BY <2>1 DEF Moves
    <3> QED
      BY <3>1 DEF Made
  <2>2. CASE u # t
    <3>1. req'[u].at \notin InTransaction
      BY <2>2 DEF Moves
    <3>2. req'[u].at \notin {"calculate", "check", "explain", "complete"}
      BY <3>1 DEF InTransaction
    <3> QED
      BY <3>1, <3>2 DEF Made
  <2> QED
    BY <2>1, <2>2
<1> QED
  BY <1>2, <1>3, <1>4, <1>5

\* The holder of the transaction, at its place in the pipeline.
LEMMA Holder ==
  ASSUME RailsInv, NEW t \in Threads, req[t].at \in InTransaction
  PROVE  /\ writer = t
         /\ \A u \in Threads : u # t => req[u].at \notin InTransaction
         /\ Made(req[t].at) /\ Kept
         /\ EveryAnswered(db.resp)
         /\ db \in Row /\ work \in Row
BY DEF RailsInv, WriterInv, WorkInv, AnsweredInv, RailsTypeOK, Past, Made

\* The transaction ends, with its rows or without, and t is out of it.
LEMMA EndStep ==
  ASSUME RailsInv, NEW t \in Threads, NEW place \in {"idle", "rescue"},
         writer' = None, work' = db', Moves(t, place),
         \A u \in Threads : u # t => req[u].at \notin InTransaction,
         db'.resp = db.resp, EveryAnswered(db.resp), WholeInv'
  PROVE  AnsweredInv' /\ WriterInv' /\ WholeInv' /\ WorkInv'
<1>1. \A u \in Threads : req'[u].at \notin InTransaction
  BY DEF Moves, InTransaction
<1>2. EveryAnswered(db'.resp)
  OBVIOUS
<1>3. AnsweredInv'
  BY <1>2 DEF AnsweredInv, SubmittedIsAnswered
<1>4. WriterInv'
  BY <1>1, RailsAssumption DEF WriterInv
<1> QED
  BY <1>1, <1>3, <1>4, NoWork

\* BEGIN: the transaction starts from the committed rows.
LEMMA BeginStep ==
  ASSUME RailsInv, NEW t \in Threads, Begin(t)
  PROVE  AnsweredInv' /\ WriterInv' /\ WholeInv' /\ WorkInv'
<1>1. At(t, "begin") /\ writer = None /\ writer' = t /\ GoTo(t, "calculate")
      /\ UNCHANGED <<db, work>>
  BY DEF Begin
<1>2. Moves(t, "calculate")
  BY <1>1, Moving DEF RailsInv, RailsTypeOK
<1>3. EveryAnswered(db.resp) /\ work = db
  BY <1>1 DEF RailsInv, AnsweredInv, Past, WriterInv, At
<1>4. \A u \in Threads : req[u].at \notin InTransaction
  BY <1>1, RailsAssumption DEF RailsInv, WriterInv
<1>5. Made("calculate")'
  BY <1>1, <1>3 DEF Made, Kept
<1> QED
  BY <1>1, <1>2, <1>3, <1>4, <1>5, InsideStep DEF InTransaction

\* The score rows: those of an earlier run, or rows of the answers.
LEMMA CalculateStep ==
  ASSUME RailsInv, NEW t \in Threads, Calculate(t)
  PROVE  AnsweredInv' /\ WriterInv' /\ WholeInv' /\ WorkInv'
<1>1. At(t, "calculate") /\ GoTo(t, "check") /\ UNCHANGED <<db, writer>>
      /\ work' = [work EXCEPT !.rows = ScoresOf(work), !.status = "scored"]
  BY DEF Calculate, Within
<1>2. req[t].at \in InTransaction /\ req[t].at = "calculate"
  BY <1>1 DEF At, InTransaction
<1>3. Moves(t, "check")
  BY <1>1, Moving DEF RailsInv, RailsTypeOK
<1>4. work = db /\ db \in Row /\ writer = t
  BY <1>2, Holder DEF Made
<1>5. ScoresOf(db) # None /\ (db.rows # None => ScoresOf(db) = db.rows)
  BY <1>4, RailsAssumption DEF ScoresOf, Row
<1>6. work'.rows = ScoresOf(db) /\ work'.resp = db.resp
      /\ work'.profile = db.profile /\ work'.insights = db.insights
  BY <1>1, <1>4 DEF Row
<1>7. Made("check")'
  BY <1>1, <1>5, <1>6 DEF Made, Kept
<1> QED
  BY <1>1, <1>2, <1>3, <1>4, <1>7, Holder, InsideStep DEF InTransaction

\* The profile: composed where there is none, from the rows of this run.
LEMMA ComposeStep ==
  ASSUME RailsInv, NEW t \in Threads, Compose(t)
  PROVE  AnsweredInv' /\ WriterInv' /\ WholeInv' /\ WorkInv'
<1>1. At(t, "check") /\ GoTo(t, "explain") /\ UNCHANGED <<db, writer>>
      /\ work' = [work EXCEPT !.profile = ProfileOf(work)] /\ work.profile = None
  BY DEF Compose, Within
<1>2. req[t].at \in InTransaction /\ req[t].at = "check"
  BY <1>1 DEF At, InTransaction
<1>3. Moves(t, "explain")
  BY <1>1, Moving DEF RailsInv, RailsTypeOK
<1>4. Kept /\ work.rows # None /\ work.profile = db.profile /\ work \in Row /\ writer = t
  BY <1>2, Holder DEF Made
<1>5. ProfileOf(work) \in Profiles /\ ProfileOf(work).vector = work.rows
  BY <1>4 DEF ProfileOf, Profiles, Row
<1>6. work'.rows = work.rows /\ work'.resp = work.resp
      /\ work'.profile = ProfileOf(work)
  BY <1>1, <1>4 DEF Row
<1>7. db.profile = None /\ work'.profile # None
  BY <1>1, <1>4, <1>5, <1>6, RailsAssumption
<1>8. Kept'
  BY <1>1, <1>4, <1>6, <1>7 DEF Kept
<1>9. Made("explain")'
  BY <1>1, <1>4, <1>5, <1>6, <1>7, <1>8 DEF Made
<1> QED
  BY <1>1, <1>2, <1>3, <1>4, <1>9, Holder, InsideStep DEF InTransaction

\* An insight, and after the last one the end of the pipeline.
LEMMA ExplainStep ==
  ASSUME RailsInv, NEW t \in Threads, Explain(t)
  PROVE  AnsweredInv' /\ WriterInv' /\ WholeInv' /\ WorkInv'
<1>1. PICK c \in Contexts, place \in {"explain", "complete"} :
        /\ place = "complete" => work.insights \cup {c} = Contexts
        /\ Within(t, "explain", place, [work EXCEPT !.insights = work.insights \cup {c}])
  BY DEF Explain
<1>2. At(t, "explain") /\ GoTo(t, place) /\ UNCHANGED <<db, writer>>
      /\ work' = [work EXCEPT !.insights = work.insights \cup {c}]
  BY <1>1 DEF Within
<1>3. req[t].at \in InTransaction /\ req[t].at = "explain" /\ place \in InTransaction
  BY <1>2 DEF At, InTransaction
<1>4. Kept /\ work.rows # None /\ work.profile # None /\ db.profile = None
      /\ work.profile.vector = work.rows /\ work \in Row /\ writer = t
  BY <1>3, Holder DEF Made
<1>5. work'.rows = work.rows /\ work'.resp = work.resp
      /\ work'.profile = work.profile /\ work'.insights = work.insights \cup {c}
  BY <1>2, <1>4 DEF Row
<1>6. Kept'
  BY <1>2, <1>4, <1>5 DEF Kept
<1>7. place = "complete" => work'.insights = Contexts
  BY <1>1, <1>5
<1>8. Made(place)'
  BY <1>2, <1>4, <1>5, <1>6, <1>7 DEF Made
<1>9. Moves(t, place)
  BY <1>2, Moving DEF RailsInv, RailsTypeOK
<1> QED
  BY <1>2, <1>3, <1>4, <1>8, <1>9, Holder, InsideStep

\* The policy verdict commits the marked rows, and a profile of before.
LEMMA BlockStep ==
  ASSUME RailsInv, NEW t \in Threads, Block(t)
  PROVE  AnsweredInv' /\ WriterInv' /\ WholeInv' /\ WorkInv'
<1>1. At(t, "check") /\ Finish(t) /\ writer' = None /\ work' = db'
      /\ db' = [work EXCEPT !.blocked = TRUE, !.status = "failed"]
  BY DEF Block, Commit
<1>2. req[t].at \in InTransaction /\ req[t].at = "check"
  BY <1>1 DEF At, InTransaction
<1>3. Moves(t, "idle")
  BY <1>1, Moving DEF RailsInv, RailsTypeOK
<1>4. Kept /\ work.rows # None /\ work.profile = db.profile
      /\ work.insights = db.insights /\ work \in Row
  BY <1>2, Holder DEF Made
<1>5. db'.rows = work.rows /\ db'.resp = work.resp /\ db'.profile = work.profile
      /\ db'.insights = work.insights /\ db'.status = "failed"
  BY <1>1, <1>4 DEF Row
<1>6. WholeInv
  BY DEF RailsInv
<1>7. db.profile # None => work.rows = db.rows
  BY <1>4, <1>6 DEF Kept, WholeInv, VectorIsRows
<1>8. VectorIsRows'
  BY <1>4, <1>5, <1>6, <1>7 DEF WholeInv, VectorIsRows
<1>9. StatusIsHonest'
  BY <1>5 DEF StatusIsHonest
<1>10. WholeInv'
  BY <1>4, <1>5, <1>6, <1>8, <1>9 DEF WholeInv
<1>11. db'.resp = db.resp
  BY <1>4, <1>5 DEF Kept
<1> QED
  BY <1>1, <1>2, <1>3, <1>10, <1>11, Holder, EndStep

\* The end of the pipeline commits the profile with all its insights.
LEMMA CompleteEffect ==
  ASSUME RailsInv, NEW t \in Threads, Complete(t)
  PROVE  /\ db.profile = None /\ db'.profile # None
         /\ db'.profile.vector = db'.rows /\ db'.rows # None
         /\ db'.insights = Contexts
         /\ db'.status = "completed" /\ db'.resp = db.resp
<1>1. At(t, "complete") /\ db' = [work EXCEPT !.status = "completed"]
  BY DEF Complete, Commit
<1>2. req[t].at \in InTransaction /\ req[t].at = "complete"
  BY <1>1 DEF At, InTransaction
<1>3. Kept /\ work.rows # None /\ work.profile # None /\ db.profile = None
      /\ work.profile.vector = work.rows /\ work.insights = Contexts /\ work \in Row
  BY <1>2, Holder DEF Made
<1>4. db'.rows = work.rows /\ db'.resp = work.resp /\ db'.profile = work.profile
      /\ db'.insights = work.insights /\ db'.status = "completed"
  BY <1>1, <1>3 DEF Row
<1> QED
  BY <1>3, <1>4 DEF Kept

LEMMA CompleteStep ==
  ASSUME RailsInv, NEW t \in Threads, Complete(t)
  PROVE  AnsweredInv' /\ WriterInv' /\ WholeInv' /\ WorkInv'
<1>1. At(t, "complete") /\ Finish(t) /\ writer' = None /\ work' = db'
  BY DEF Complete, Commit
<1>2. req[t].at \in InTransaction
  BY <1>1 DEF At, InTransaction
<1>3. Moves(t, "idle")
  BY <1>1, Moving DEF RailsInv, RailsTypeOK
<1>4. WholeInv'
  BY CompleteEffect DEF WholeInv, VectorIsRows, StatusIsHonest
<1> QED
  BY <1>1, <1>2, <1>3, <1>4, CompleteEffect, Holder, EndStep

\* A request that raises in the pipeline, or ends half way, leaves no trace.
LEMMA RollbackStep ==
  ASSUME RailsInv, NEW t \in Threads, NEW place, Rollback(t), Moves(t, place),
         \/ place = "idle"
         \/ place = "rescue" /\ req[t].at \in InTransaction \cup {"begin"}
  PROVE  AnsweredInv' /\ WriterInv' /\ WholeInv' /\ WorkInv'
<1>1. AnsweredInv /\ WriterInv /\ WholeInv
  BY DEF RailsInv
<1>2. WholeInv'
  BY <1>1 DEF Rollback, WholeInv, VectorIsRows, StatusIsHonest
<1>3. place = "rescue" => EveryAnswered(db.resp)
  BY <1>1 DEF AnsweredInv, Past
<1>4. CASE t = writer
  <2>1. req[t].at \in InTransaction
    BY <1>1, <1>4 DEF WriterInv
  <2>2. writer' = None /\ db' = db /\ work' = db'
    BY <1>4 DEF Rollback
  <2> QED
    BY <1>2, <2>1, <2>2, Holder, EndStep
<1>5. CASE t # writer
  <2>1. UNCHANGED <<db, work, writer>>
    BY <1>5 DEF Rollback
  <2>2. CASE place = "idle"
    BY <1>5, <2>1, <2>2, OutsideStep DEF Past, InTransaction
  <2>3. CASE place = "rescue"
    BY <1>3, <1>5, <2>1, <2>3, OutsideStep
  <2> QED
    BY <2>2, <2>3
<1> QED
  BY <1>4, <1>5

------------------------------------------------------------------------------
LEMMA RailsStart ==
  ASSUME Init
  PROVE  RailsInv
<1>1. db \in Row
  BY RailsAssumption DEF Init, Row, Statuses, ScoreRows, ResponseStates
<1>2. Resting \in Requests /\ Resting.at = "idle"
  BY RailsAssumption DEF Resting, Requests, Statuses, ResponseStates
<1>3. req = [t \in Threads |-> Resting] /\ work = db /\ writer = None /\ deaths = 0
  BY DEF Init
<1>4. RailsTypeOK
  BY <1>1, <1>2, <1>3, RailsAssumption DEF RailsTypeOK
<1>5. \A t \in Threads : req[t].at = "idle"
  BY <1>2, <1>3
<1>6. ReadBelow
  BY <1>5 DEF ReadBelow
<1>7. AnsweredInv
  BY <1>5 DEF Init, AnsweredInv, SubmittedIsAnswered, Past, InTransaction
<1>8. WriterInv
  BY <1>3, <1>5, RailsAssumption DEF WriterInv, InTransaction
<1>9. WholeInv
  BY DEF Init, WholeInv, VectorIsRows, StatusIsHonest
<1>10. WorkInv
  BY <1>5 DEF WorkInv, Made, InTransaction
<1> QED
  BY <1>4, <1>6, <1>7, <1>8, <1>9, <1>10 DEF RailsInv

LEMMA RailsStep ==
  ASSUME RailsInv, [Next]_vars
  PROVE  RailsInv'
<1>1. RailsTypeOK' /\ ReadBelow'
  BY RailsTypes DEF RailsInv
<1>2. CASE UNCHANGED vars
  BY <1>2 DEF vars, RailsInv, RailsTypeOK, ReadBelow, AnsweredInv,
     SubmittedIsAnswered, WriterInv, WholeInv, VectorIsRows, StatusIsHonest,
     WorkInv, Made, Kept
<1>3. SUFFICES ASSUME NEW t \in Threads, Arrive(t) \/ Serve(t) \/ Die(t)
               PROVE  AnsweredInv' /\ WriterInv' /\ WholeInv' /\ WorkInv'
  BY <1>1, <1>2 DEF Next, RailsInv
<1>a. /\ req \in [Threads -> Requests] /\ RailsTypeOK /\ ReadBelow
      /\ AnsweredInv /\ WriterInv
  BY DEF RailsInv, RailsTypeOK
<1>b. \A place : /\ GoTo(t, place) => Moves(t, place)
                 /\ Finish(t) => Moves(t, "idle")
  BY <1>a, Moving
<1>c. ASSUME req[t].at \in {"idle", "save", "advance", "submit", "begin", "rescue"}
      PROVE  ~(t = writer)
  BY <1>a, <1>c DEF WriterInv, InTransaction
<1>4. CASE Arrive(t)
  <2>1. ~(t = writer)
    BY <1>4, <1>c DEF Arrive, ReadAnswer, ReadSubmit, ReadShow, At
  <2>2. ASSUME NEW q \in Questions, NEW v \in Values \cup {"skip"}, ReadAnswer(t, q, v)
        PROVE  Moves(t, "save") /\ UNCHANGED <<db, work, writer>>
    BY <2>2, <1>a DEF ReadAnswer, Moves, Requests
  <2>3. CASE ReadSubmit(t)
    <3>1. Moves(t, "submit") /\ UNCHANGED <<db, work, writer>>
      BY <2>3, <1>a DEF ReadSubmit, Moves, Requests
    <3> QED
      BY <2>1, <2>3, <3>1, CountIsEvery, OutsideStep DEF ReadSubmit
  <2>4. CASE ReadShow(t)
    <3>1. GoTo(t, "begin") /\ UNCHANGED <<db, work, writer>> /\ EveryAnswered(db.resp)
      BY <2>4, <1>a DEF ReadShow, AnsweredInv, SubmittedIsAnswered
    <3> QED
      BY <2>1, <3>1, <1>b, OutsideStep
  <2> QED
    BY <1>4, <2>1, <2>2, <2>3, <2>4, OutsideStep DEF Arrive, Past, InTransaction
<1>5. CASE RefuseResponse(t)
  <2>1. Finish(t) /\ UNCHANGED <<db, work, writer>> /\ ~(t = writer)
    BY <1>5, <1>c DEF RefuseResponse, At
  <2> QED
    BY <2>1, <1>b, OutsideStep DEF Past, InTransaction
<1>6. CASE SaveResponse(t)
  <2>1. At(t, "save") /\ ~Refused(t) /\ GoTo(t, "advance")
        /\ Write("resp", [db.resp EXCEPT ![req[t].q] = Saved(t)])
    BY <1>6 DEF SaveResponse
  <2> QED
    BY <2>1, <1>a, <1>b, SavedKeeps, WriteStep
<1>7. CASE Advance(t)
  <2>1. Write("index", req[t].index + 1) /\ Finish(t)
    BY <1>7 DEF Advance
  <2> QED
    BY <2>1, <1>b, WriteStep
<1>8. CASE WriteSubmit(t)
  <2> DEFINE new == IF req[t].status = "submitted" THEN db.status ELSE "submitted"
  <2>1. Write("status", new) /\ Finish(t) /\ EveryAnswered(db.resp)
    BY <1>8, <1>a DEF WriteSubmit, AnsweredInv, Past, At
  <2>2. new \in {"submitted", "failed"} \/ new = db.status
    OBVIOUS
  <2> HIDE DEF new
  <2> QED
    BY <2>1, <2>2, <1>b, WriteStep
<1>9. CASE Rescue(t)
  <2>1. Write("status", "failed") /\ Finish(t) /\ EveryAnswered(db.resp)
    BY <1>9, <1>a DEF Rescue, AnsweredInv, Past, At
  <2> QED
    BY <2>1, <1>b, WriteStep
<1>10. CASE Raise(t)
  <2>1. Rollback(t) /\ GoTo(t, "rescue") /\ req[t].at \in InTransaction \cup {"begin"}
    BY <1>10 DEF Raise
  <2> QED
    BY <2>1, <1>b, RollbackStep
<1>11. CASE Die(t)
  <2>1. Rollback(t) /\ Finish(t)
    BY <1>11 DEF Die
  <2> QED
    BY <2>1, <1>b, RollbackStep
<1> QED
  BY <1>3, <1>4, <1>5, <1>6, <1>7, <1>8, <1>9, <1>10, <1>11, BeginStep,
     CalculateStep, ComposeStep, ExplainStep, BlockStep, CompleteStep
     DEF Serve, Answering, Scoring

LEMMA RailsAlways == Spec => []RailsInv
<1>1. Init => RailsInv
  BY RailsStart
<1>2. RailsInv /\ [Next]_vars => RailsInv'
  BY RailsStep
<1> QED
  BY <1>1, <1>2, PTL DEF Spec

\* The committed report changes in one way: all of it appears.
LEMMA ReportStep ==
  ASSUME RailsInv, [Next]_vars
  PROVE  \/ /\ db'.profile = db.profile /\ db'.insights = db.insights
            /\ db.profile # None => db'.rows = db.rows
         \/ /\ db.profile = None /\ db'.profile # None
            /\ db'.insights = Contexts
<1> DEFINE Same == /\ db'.profile = db.profile /\ db'.insights = db.insights
                   /\ db.profile # None => db'.rows = db.rows
<1>1. CASE UNCHANGED vars
  BY <1>1 DEF vars
<1>2. db \in Row
  BY DEF RailsInv, RailsTypeOK
<1>3. SUFFICES ASSUME NEW t \in Threads, Arrive(t) \/ Serve(t) \/ Die(t)
               PROVE  Same \/ Complete(t)
  BY <1>1, CompleteEffect DEF Next
<1>4. ASSUME NEW field \in {"status", "index", "resp"}, NEW value, Write(field, value)
      PROVE  Same
  BY <1>2, <1>4 DEF Row, Write
<1>5. CASE UNCHANGED db
  BY <1>5
<1>6. CASE Block(t)
  <2>1. At(t, "check") /\ db' = [work EXCEPT !.blocked = TRUE, !.status = "failed"]
    BY <1>6 DEF Block, Commit
  <2>2. req[t].at \in InTransaction /\ req[t].at = "check"
    BY <2>1 DEF At, InTransaction
  <2>3. Kept /\ work.profile = db.profile /\ work.insights = db.insights /\ work \in Row
    BY <2>2, Holder DEF Made
  <2>4. db'.rows = work.rows /\ db'.profile = work.profile /\ db'.insights = work.insights
    BY <2>1, <2>3 DEF Row
  <2>5. db.profile # None => db.rows # None
    BY DEF RailsInv, WholeInv, VectorIsRows
  <2> QED
    BY <2>3, <2>4, <2>5 DEF Kept
<1>7. CASE SaveResponse(t) \/ Advance(t) \/ WriteSubmit(t) \/ Rescue(t)
  BY <1>4, <1>7 DEF SaveResponse, Advance, WriteSubmit, Rescue
<1>8. CASE Arrive(t) \/ RefuseResponse(t) \/ Begin(t) \/ Raise(t) \/ Die(t)
  BY <1>5, <1>8 DEF Arrive, ReadAnswer, ReadSubmit, ReadShow, RefuseResponse,
     Begin, Raise, Die, Rollback
<1>9. CASE Calculate(t) \/ Compose(t) \/ Explain(t)
  BY <1>5, <1>9 DEF Calculate, Compose, Explain, Within
<1> QED
  BY <1>3, <1>6, <1>7, <1>8, <1>9 DEF Serve, Answering, Scoring

------------------------------------------------------------------------------
(* Theorems *)

\* Every variable keeps its type.
THEOREM RailsTypeCorrect == Spec => []RailsTypeOK
BY RailsAlways, PTL DEF RailsInv

\* What has been submitted keeps an answer to every question, whichever skips
\* and answers were still being served (Response, all_questions_answered?).
THEOREM SubmittedAnsweredAlways == Spec => []SubmittedIsAnswered
BY RailsAlways, PTL DEF RailsInv, AnsweredInv

\* However many pipelines run, fail or are cut off, a profile stands next to
\* the score rows it was composed from (Composer#build_score_vector).
THEOREM VectorIsRowsAlways == Spec => []VectorIsRows
BY RailsAlways, PTL DEF RailsInv, WholeInv

\* 'completed' means a profile, and 'scored' never leaves the transaction.
THEOREM StatusHonestAlways == Spec => []StatusIsHonest
BY RailsAlways, PTL DEF RailsInv, WholeInv

\* A profile that has been shown, and its score rows, are never rewritten.
THEOREM PublishedFinalAlways == Spec => PublishedIsFinal
<1>1. RailsInv /\ [Next]_vars =>
        [db.profile # None => db'.profile = db.profile /\ db'.rows = db.rows]_vars
  BY ReportStep
<1> QED
  BY <1>1, RailsAlways, PTL DEF Spec, PublishedIsFinal

\* The pipeline of the result page implements ReportPublication: the profile
\* and all its insights appear in one step and stay.
THEOREM PublishesWholeAlways == Spec => PublishesWhole
<1>1. Init => Publication!Init
  BY DEF Init, Publication!Init
<1>2. RailsInv /\ [Next]_vars => [Publication!Next]_(Publication!publicationVars)
  <2> SUFFICES ASSUME RailsInv, [Next]_vars
               PROVE  [Publication!Next]_(Publication!publicationVars)
    OBVIOUS
  <2>1. CASE db'.profile = db.profile /\ db'.insights = db.insights
    BY <2>1 DEF Publication!publicationVars
  <2>2. CASE db.profile = None /\ db'.profile # None /\ db'.insights = Contexts
    BY <2>2 DEF Publication!Next, Publication!Publish
  <2> QED
    BY <2>1, <2>2, ReportStep
<1> QED
  BY <1>1, <1>2, RailsAlways, PTL DEF Spec, PublishesWhole, Publication!Spec
==============================================================================

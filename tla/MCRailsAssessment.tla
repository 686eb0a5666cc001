-------------------------- MODULE MCRailsAssessment --------------------------
(***************************************************************************)
(* RailsAssessment with two questions, each answered in time or hastily.   *)
(***************************************************************************)
EXTENDS RailsAssessment

CONSTANTS t1, t2, q1, q2

TwoThreads == {t1, t2}
TwoQuestions == {q1, q2}
TwoValues == {"steady", "hasty"}
OnlyHasty == {"hasty"}
TwoContexts == {"collaboration", "conflict"}
==============================================================================

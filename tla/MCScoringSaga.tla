---------------------------- MODULE MCScoringSaga ----------------------------
(* Constant values for TLC.  The refused responses come last.              *)
EXTENDS ScoringSaga

CONSTANTS run1, run2, run3, honest, careless, refused

TwoRuns == {run1, run2}
ThreeRuns == {run1, run2, run3}
TwoAnswers == {honest, refused}
ThreeAnswers == {honest, careless, refused}
OneRefused == {refused}
==============================================================================

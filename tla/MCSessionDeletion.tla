-------------------------- MODULE MCSessionDeletion --------------------------
(***************************************************************************)
(* SessionDeletion on one scoring call and two deletions.                  *)
(***************************************************************************)
EXTENDS SessionDeletion

CONSTANTS scoring, first, second, honest, none

OneRun == {scoring}
TwoDeleters == {first, second}
HonestOrNone == {honest, none}
OnlyNone == {none}
==============================================================================

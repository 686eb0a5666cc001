-------------------------- MODULE ReportPublication --------------------------
(***************************************************************************)
(* What the scoring saga promises the reader of a result page, whose show  *)
(* action is gated on status = 'completed': nothing is shown before the    *)
(* report is whole, a report once published stays published and whole,     *)
(* and an attempt that fails shows nothing and may be tried again.         *)
(***************************************************************************)

CONSTANT Reports    \* the whole reports there can be, each a set of parts

VARIABLES
  phase,    \* "missing", "open", "published" or "failed"
  visible   \* the parts the reader can see

publicationVars == <<phase, visible>>

Init ==
  /\ phase \in {"missing", "open"}
  /\ visible = {}

\* A whole report appears in one step.
Publish ==
  /\ phase = "open"
  /\ phase' = "published"
  /\ visible' \in Reports

\* The attempt is given up, by the policy gate or by the compensation.
Abandon ==
  /\ phase = "open"
  /\ phase' = "failed"
  /\ UNCHANGED visible

\* A failed assessment is submitted again.
Reopen ==
  /\ phase = "failed"
  /\ phase' = "open"
  /\ UNCHANGED visible

Next == Publish \/ Abandon \/ Reopen

Spec == Init /\ [][Next]_publicationVars
==============================================================================

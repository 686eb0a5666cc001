---------------------------- MODULE SessionErasure ----------------------------
(***************************************************************************)
(* What a deletion promises the person behind an anonymous session: rows   *)
(* may go in any order and others may be written meanwhile, but no row is  *)
(* ever left without the row it belongs to, the session goes only after    *)
(* there is evidence of the deletion, what has gone with it stays gone,    *)
(* and success is answered only when nothing is left.                      *)
(***************************************************************************)

VARIABLES
  held,      \* the kinds of rows there are
  audited,   \* the audit row of the deletion of the data is there
  answered   \* a deletion has answered success

erasureVars == <<held, audited, answered>>

\* The row that the rows of a kind refer to.
Owner ==
  [session |-> "session", request |-> "session", consents |-> "session",
   assessment |-> "session", responses |-> "assessment",
   scores |-> "assessment", profile |-> "assessment", insights |-> "profile"]

Kinds == DOMAIN Owner

\* One session is followed, with its assessment and its request: these rows are
\* there at first, or never.
Founding == {"session", "request", "assessment"}

NoOrphans(rows) == \A k \in rows : Owner[k] \in rows

Init ==
  /\ held \subseteq Kinds
  /\ NoOrphans(held)
  /\ "session" \in held
  /\ audited = FALSE
  /\ answered = FALSE

\* A scoring call, or the respondent, writes the first row of a kind.
Write ==
  /\ \E k \in Kinds \ Founding :
       /\ Owner[k] \in held
       /\ held' = held \cup {k}
  /\ UNCHANGED <<audited, answered>>

\* A statement deletes all rows of some kinds.
Erase ==
  /\ held' \subseteq held
  /\ NoOrphans(held')
  /\ "session" \in held' \/ audited
  /\ UNCHANGED <<audited, answered>>

Audit ==
  /\ audited' = TRUE
  /\ UNCHANGED <<held, answered>>

Answer ==
  /\ held = {}
  /\ answered' = TRUE
  /\ UNCHANGED <<held, audited>>

Next == Write \/ Erase \/ Audit \/ Answer

Spec == Init /\ [][Next]_erasureVars
==============================================================================

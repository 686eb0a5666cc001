--------------------------- MODULE SchemaMigration ---------------------------
(***************************************************************************)
(* The schema upgrades of the app's store: AppDatabase.migration of        *)
(* mobile/lib/core/database/app_database.dart, run by drift when the       *)
(* database is opened.  Drift reads user_version, calls onCreate or        *)
(* onUpgrade, and writes schemaVersion back when that has returned; every  *)
(* statement commits on its own, but for the transaction of version 8.     *)
(* The process may die between any two statements.  A power loss takes     *)
(* back a suffix of the commits (synchronous = NORMAL): it is a death at   *)
(* an earlier statement.                                                   *)
(***************************************************************************)
EXTENDS Naturals, Sequences

CONSTANTS
  Origins,    \* the user_version of the databases the app may find
  MaxCrashes  \* bound: deaths of the process

schemaVersion == 9

ASSUME MigrationAssumption ==
  /\ Origins \subseteq 0..schemaVersion
  /\ MaxCrashes \in Nat

VARIABLES
  version,  \* PRAGMA user_version
  table,    \* the name of user_settings' layout column; "none" without table
  cols,     \* the columns later versions have added to user_settings
  level,    \* experience_level of the settings row; 0 when there is none
  legacy,   \* the tables that still hold spread types of before version 8
  fkeys,    \* PRAGMA foreign_keys of the connection
  at,       \* what the opening of the database is doing
  from,     \* the version onUpgrade was called with
  place,    \* the statement of onUpgrade that comes next
  origin,   \* the version and level the app found first
  crashes

database == <<version, table, cols, level, legacy>>
vars == <<database, fkeys, at, from, place, origin, crashes>>

------------------------------------------------------------------------------
OldName == "default_spread_type"
NewName == "default_layout_type"

\* onUpgrade, statement by statement, with the `if (from < below)` around each.
Statement(kind, below, column) ==
  [kind |-> kind, below |-> below, column |-> column]

Upgrade ==
  << Statement("createTable", 2, "none"),
     Statement("resetLevel",  3, "none"),
     Statement("addColumn",   4, "show_card_name"),
     Statement("addColumn",   4, "allow_reversed"),
     Statement("addColumn",   5, "card_size_preset"),
     Statement("addColumn",   5, "custom_card_width_mm"),
     Statement("addColumn",   5, "custom_card_height_mm"),
     Statement("addColumn",   6, "cards_per_row"),
     Statement("raiseLevel",  7, "none"),
     Statement("keysOff",     8, "none"),
     Statement("relayout",    8, "none"),
     Statement("keysOn",      8, "none"),
     Statement("addColumn",   9, "intent_placement") >>

Statements == 1..Len(Upgrade)
Additions == {i \in Statements : Upgrade[i].kind = "addColumn"}

\* The columns a database of version v has been given by addColumn.
AddedBy(v) == {Upgrade[i].column : i \in {j \in Additions : Upgrade[j].below <= v}}

\* What the opening of a database can be doing, and what it can find on disk.
MigrationTypeOK ==
  /\ version \in 0..schemaVersion
  /\ table \in {"none", OldName, NewName}
  /\ cols \subseteq AddedBy(schemaVersion)
  /\ level \in 0..4
  /\ legacy \subseteq {"readings", "settings"}
  /\ fkeys \in BOOLEAN
  /\ at \in {"closed", "create", "upgrade", "opened", "failed"}
  /\ from \in 0..schemaVersion
  /\ place \in 1..(Len(Upgrade) + 1)
  /\ origin \in [version : 0..schemaVersion, level : 0..4]
  /\ crashes \in 0..MaxCrashes

\* A database as the app of version v has left it; or one of version 7 whose
\* layout column is renamed already, which the comments call phantom v7.5.
NameOf(v) == IF v < 2 THEN {"none"}
             ELSE IF v < 7 THEN {OldName}
             ELSE IF v = 7 THEN {OldName, NewName}
             ELSE {NewName}

LevelsOf(v) == IF v < 2 THEN {0} ELSE IF v < 7 THEN 0..3 ELSE 0..4

Init ==
  /\ version \in Origins
  /\ table \in NameOf(version)
  /\ cols = AddedBy(version)
  /\ level \in LevelsOf(version)
  /\ legacy \in SUBSET (IF table = OldName THEN {"readings", "settings"}
                        ELSE IF version = 1 THEN {"readings"} ELSE {})
  /\ level = 0 => "settings" \notin legacy
  /\ fkeys = TRUE
  /\ at = "closed"
  /\ from = 0
  /\ place = 1
  /\ origin = [version |-> version, level |-> level]
  /\ crashes = 0

------------------------------------------------------------------------------
Kept == UNCHANGED <<origin, crashes>>

\* Setup sets the pragmas of the new connection; drift reads user_version.
Open ==
  /\ at = "closed"
  /\ fkeys' = TRUE
  /\ from' = version
  /\ place' = 1
  /\ at' = IF version = 0 THEN "create"
           ELSE IF version = schemaVersion THEN "opened" ELSE "upgrade"
  /\ UNCHANGED database /\ Kept

\* CREATE TABLE IF NOT EXISTS, as today's table class says.
CreateIfMissing ==
  IF table = "none"
  THEN table' = NewName /\ cols' = AddedBy(schemaVersion)
  ELSE UNCHANGED <<table, cols>>

\* onCreate.  Drift then writes the version.
CreateAll ==
  /\ at = "create"
  /\ CreateIfMissing
  /\ at' = "upgrade"
  /\ place' = Len(Upgrade) + 1
  /\ UNCHANGED <<version, level, legacy, fkeys, from>> /\ Kept

\* The `if` around a statement.  (The mutants are an off-by-one each.)
AppliesOnceMore(i) == from <= Upgrade[i].below
AppliesOnceLess(i) == from + 1 < Upgrade[i].below
Applies(i) == from < Upgrade[i].below

Runs(kind) ==
  /\ at = "upgrade"
  /\ place \in Statements
  /\ Upgrade[place].kind = kind
  /\ Applies(place)

Advance == place' = place + 1 /\ UNCHANGED <<at, from>> /\ Kept

\* SQLite refuses a statement: onUpgrade throws and the database stays shut.
Fail == /\ at' = "failed"
        /\ UNCHANGED <<database, from, place>> /\ Kept

Skip ==
  /\ at = "upgrade"
  /\ place \in Statements
  /\ ~Applies(place)
  /\ Advance /\ UNCHANGED <<database, fkeys>>

CreateTable ==
  /\ Runs("createTable")
  /\ CreateIfMissing
  /\ Advance /\ UNCHANGED <<version, level, legacy, fkeys>>

\* UPDATE user_settings SET experience_level = 3, default_spread_type = 'custom'
ResetLevel ==
  /\ Runs("resetLevel")
  /\ UNCHANGED fkeys
  /\ IF table = OldName
     THEN /\ level' = IF level = 0 THEN 0 ELSE 3
          /\ legacy' = IF level = 0 THEN legacy ELSE legacy \cup {"settings"}
          /\ Advance /\ UNCHANGED <<version, table, cols>>
     ELSE Fail

\* ALTER TABLE user_settings ADD COLUMN: an error when the column is there.
AddColumn ==
  /\ Runs("addColumn")
  /\ UNCHANGED fkeys
  /\ IF Upgrade[place].column \notin cols
     THEN /\ cols' = cols \cup {Upgrade[place].column}
          /\ Advance /\ UNCHANGED <<version, table, level, legacy>>
     ELSE Fail

\* UPDATE user_settings SET experience_level = 4 WHERE experience_level = 3.
\* (The mutants shift every level, or have no WHERE.)
Shifted(l) == IF l = 0 THEN 0 ELSE l + 1
RaisedFromAny(l) == IF l = 0 THEN 0 ELSE 4
Raised(l) == IF l = 3 THEN 4 ELSE l

RaiseLevel ==
  /\ Runs("raiseLevel")
  /\ level' = Raised(level)
  /\ Advance /\ UNCHANGED <<version, table, cols, legacy, fkeys>>

KeysOff ==
  /\ Runs("keysOff")
  /\ fkeys' = FALSE
  /\ Advance /\ UNCHANGED database

\* hasOldCol, and the version the transaction writes.  (The mutants rename
\* without looking, and write the version the app is heading for.)
NoLook == TRUE
HasOldCol == table = OldName
CurrentVersion == schemaVersion
Version8 == 8

\* The transaction of version 8: readings, then settings and the rename if the
\* old column is there, then user_version.  All of it commits or none.
Relayout ==
  /\ Runs("relayout")
  /\ IF HasOldCol /\ table # OldName
     THEN Fail /\ fkeys' = TRUE
     ELSE /\ legacy' = IF HasOldCol THEN {} ELSE legacy \ {"readings"}
          /\ table' = IF HasOldCol THEN NewName ELSE table
          /\ version' = Version8
          /\ Advance /\ UNCHANGED <<cols, level, fkeys>>

KeysOn ==
  /\ Runs("keysOn")
  /\ fkeys' = TRUE
  /\ Advance /\ UNCHANGED database

\* onCreate or onUpgrade has returned: drift writes schemaVersion.
SetSchemaVersion ==
  /\ at = "upgrade"
  /\ place = Len(Upgrade) + 1
  /\ version' = schemaVersion
  /\ at' = "opened"
  /\ UNCHANGED <<table, cols, level, legacy, fkeys, from, place>> /\ Kept

\* The app is left, or started again after a failure.
Restart ==
  /\ at \in {"opened", "failed"}
  /\ at' = "closed"
  /\ UNCHANGED <<database, fkeys, from, place>> /\ Kept

\* The process dies while the database is being opened.
Crash ==
  /\ at \in {"create", "upgrade"}
  /\ crashes < MaxCrashes
  /\ crashes' = crashes + 1
  /\ at' = "closed"
  /\ UNCHANGED <<database, fkeys, from, place, origin>>

------------------------------------------------------------------------------
Opening == \/ Open \/ CreateAll \/ Skip \/ CreateTable \/ ResetLevel \/ AddColumn
           \/ RaiseLevel \/ KeysOff \/ Relayout \/ KeysOn \/ SetSchemaVersion

Next == Opening \/ Restart \/ Crash

Spec == Init /\ [][Next]_vars

\* An opening that no crash cuts short runs on, and an app that has failed to
\* open is started again.
FairSpec == Spec /\ WF_vars(Opening) /\ WF_vars(at = "failed" /\ Restart)

------------------------------------------------------------------------------
(* Properties. *)

\* The version a database claims never runs ahead of its columns: whatever
\* statement the app died at, the next start skips no statement whose column
\* is missing.
VersionBehindColumns ==
  /\ version >= 2 => table # "none"
  /\ version >= 8 => table = NewName
  /\ AddedBy(version) \subseteq cols

\* A database that opens is entirely of the current version: each column
\* added, the rename and the conversion done, foreign keys enforced again.
OpenedIsCurrent ==
  at = "opened" =>
    /\ version = schemaVersion
    /\ table = NewName
    /\ cols = AddedBy(schemaVersion)
    /\ legacy = {}
    /\ fkeys

\* What the upgrades make of the experience level: a function of the version
\* and level the app found, however often the statements were run again.
CarriedOver(o) ==
  IF o.level = 0 THEN 0
  ELSE IF o.version < 3 THEN 4
  ELSE IF o.version < 7 /\ o.level = 3 THEN 4 ELSE o.level

LevelCarriedOver == at = "opened" => level = CarriedOver(origin)

\* A start fails only over a column that is there before its version: a death
\* inside the block of version 8, or before the first ALTER of a start, costs
\* nothing.  Databases of version 1 are the exception, since the table their
\* upgrade creates is today's.
Ahead == cols # AddedBy(version)
FailsOnlyAhead == at = "failed" => Ahead \/ origin.version = 1

\* It takes a death to put a column ahead of its version: an app that has
\* always been left to finish, over any number of starts, never fails to open.
UninterruptedNeverFails ==
  crashes = 0 /\ origin.version # 1 => at # "failed"

\* Nobody dies: every database but one of version 1 opens.
UninterruptedUpgradeOpens ==
  [](crashes = 0) /\ origin.version # 1 => <>(at = "opened")

\* What the design says of the crash recovery: an app that died while it was
\* upgrading opens at some later start.
InterruptedUpgradeRecovers == <>(at = "opened")
==============================================================================

----------------------- MODULE SchemaMigrationProofs -----------------------
(***************************************************************************)
(* Theorems about SchemaMigration, for any databases the app may find and  *)
(* any number of deaths.                                                   *)
(***************************************************************************)
EXTENDS SchemaMigration, TLAPS

(* The inductive invariant.  What the opening has got to in onUpgrade tells *)
(* which columns are there, whatever was skipped.                           *)

\* Where a statement stands in onUpgrade.
RelayoutAt == 11

\* The rename and the conversion, by the version.
LayoutInv ==
  /\ version = 0 => legacy = {}
  /\ version = 0 /\ table # "none" => table = NewName /\ cols = AddedBy(9)
  /\ version \in 2..6 => table = OldName
  /\ version >= 8 => legacy = {}
  /\ "settings" \in legacy => table = OldName
  /\ version = 1 => origin.version = 1 /\ table # OldName

\* What holds while onCreate or onUpgrade runs.
UpgradeInv ==
  /\ at = "create" => version = 0 /\ fkeys
  /\ at = "upgrade" =>
       /\ place <= 13 => from \in 1..8
       /\ place <= RelayoutAt => version = from
       /\ place \in 12..13 => version = 8
       /\ place > 2 => version # 1
       /\ place > RelayoutAt => table = NewName /\ legacy = {}
       /\ fkeys \/ (place \in 11..12 /\ from < 8)

ColumnsInv ==
  at = "upgrade" => \A i \in Additions : i < place => Upgrade[i].column \in cols

MigrationInv ==
  /\ MigrationTypeOK
  /\ VersionBehindColumns
  /\ LayoutInv
  /\ UpgradeInv
  /\ ColumnsInv
  /\ OpenedIsCurrent
  /\ FailsOnlyAhead

\* The program, place by place.
LEMMA UpgradeSteps ==
  /\ Len(Upgrade) = 13
  /\ Statements = 1..13
  /\ \A i \in Statements :
       /\ Upgrade[i].kind = "createTable" => i = 1 /\ Upgrade[i].below = 2
       /\ Upgrade[i].kind = "resetLevel" => i = 2 /\ Upgrade[i].below = 3
       /\ Upgrade[i].kind = "raiseLevel" => i = 9 /\ Upgrade[i].below = 7
       /\ Upgrade[i].kind = "keysOff" => i = 10 /\ Upgrade[i].below = 8
       /\ Upgrade[i].kind = "relayout" => i = 11 /\ Upgrade[i].below = 8
       /\ Upgrade[i].kind = "keysOn" => i = 12 /\ Upgrade[i].below = 8
       /\ Upgrade[i].below \in 2..9
       /\ i \in Additions => i \in 3..8 \cup {13}
       /\ i <= 2 => Upgrade[i].below <= 3
       /\ i = 11 => Upgrade[i].kind = "relayout" /\ Upgrade[i].below = 8
       /\ i \in Additions => /\ i < 11 <=> Upgrade[i].below <= 8
                             /\ Upgrade[i].below > 3
<1>1. Len(Upgrade) = 13
  BY DEF Upgrade
<1>2. Statements = 1..13
  BY <1>1 DEF Statements
<1>3. ASSUME NEW i \in 1..13
      PROVE  /\ Upgrade[i].kind = "createTable" => i = 1 /\ Upgrade[i].below = 2
             /\ Upgrade[i].kind = "resetLevel" => i = 2 /\ Upgrade[i].below = 3
             /\ Upgrade[i].kind = "raiseLevel" => i = 9 /\ Upgrade[i].below = 7
             /\ Upgrade[i].kind = "keysOff" => i = 10 /\ Upgrade[i].below = 8
             /\ Upgrade[i].kind = "relayout" => i = 11 /\ Upgrade[i].below = 8
             /\ Upgrade[i].kind = "keysOn" => i = 12 /\ Upgrade[i].below = 8
             /\ Upgrade[i].below \in 2..9
             /\ Upgrade[i].kind = "addColumn" => i \in 3..8 \cup {13}
             /\ i <= 2 => Upgrade[i].below <= 3
             /\ i = 11 => Upgrade[i].kind = "relayout" /\ Upgrade[i].below = 8
             /\ Upgrade[i].kind = "addColumn" => /\ i < 11 <=> Upgrade[i].below <= 8
                                                 /\ Upgrade[i].below > 3
  BY <1>3 DEF Upgrade, Statement
<1>4. QED
  BY <1>1, <1>2, <1>3 DEF Additions

\* AddedBy grows with the version, starts empty, and tells columns apart.
LEMMA AddedByFacts ==
  /\ \A u, v \in 0..9 : u <= v => AddedBy(u) \subseteq AddedBy(v)
  /\ \A v \in 0..3 : AddedBy(v) = {}
  /\ \A i \in Additions : Upgrade[i].column \in AddedBy(9)
  /\ \A i \in Additions, v \in 0..9 :
       Upgrade[i].below > v => Upgrade[i].column \notin AddedBy(v)
<1>1. \A i \in Additions : i \in Statements /\ Upgrade[i].below \in 2..9
                           /\ Upgrade[i].below > 3 /\ (i < 11 <=> Upgrade[i].below <= 8)
  BY UpgradeSteps DEF Additions
<1>2. \A u, v \in 0..9 : u <= v => AddedBy(u) \subseteq AddedBy(v)
  BY <1>1 DEF AddedBy
<1>3. \A v \in 0..3 : AddedBy(v) = {}
  BY <1>1 DEF AddedBy
<1>4. \A i \in Additions : Upgrade[i].column \in AddedBy(9)
  BY <1>1 DEF AddedBy
<1>5. \A i, j \in Additions : Upgrade[i].column = Upgrade[j].column => i = j
  <2>1. \A i \in Additions : i \in 3..8 \cup {13}
    BY UpgradeSteps DEF Additions
  <2>2. \A i, j \in 3..8 \cup {13} : Upgrade[i].column = Upgrade[j].column => i = j
    BY DEF Upgrade, Statement
  <2>3. QED
    BY <2>1, <2>2
<1>6. \A i \in Additions, v \in 0..9 :
        Upgrade[i].below > v => Upgrade[i].column \notin AddedBy(v)
  BY <1>1, <1>5 DEF AddedBy
<1>7. QED
  BY <1>2, <1>3, <1>4, <1>6

\* What has been added before the transaction is all of version 8.
LEMMA AddedBefore ==
  ASSUME NEW S
  PROVE  /\ (\A i \in Additions : i < 11 => Upgrade[i].column \in S) => AddedBy(8) \subseteq S
         /\ (\A i \in Additions : i < 14 => Upgrade[i].column \in S) => AddedBy(9) \subseteq S
<1>1. \A i \in Additions : i \in 1..13 /\ (i < 11 <=> Upgrade[i].below <= 8)
  BY UpgradeSteps DEF Additions
<1>2. QED
  BY <1>1 DEF AddedBy

LEMMA MigrationInit == ASSUME Init PROVE MigrationInv
<1>1. version \in 0..9 /\ AddedBy(version) \subseteq AddedBy(9)
  BY MigrationAssumption, AddedByFacts DEF Init, schemaVersion
<1>2. MigrationTypeOK
  BY <1>1, UpgradeSteps, MigrationAssumption
     DEF Init, MigrationTypeOK, NameOf, LevelsOf, schemaVersion
<1>3. QED
  BY <1>1, <1>2 DEF Init, MigrationInv, VersionBehindColumns, LayoutInv, UpgradeInv,
     ColumnsInv, OpenedIsCurrent, FailsOnlyAhead, NameOf, OldName, NewName, schemaVersion

LEMMA MigrationTypes ==
  ASSUME MigrationTypeOK, [Next]_vars
  PROVE  MigrationTypeOK'
<1> USE DEF MigrationTypeOK, schemaVersion, OldName, NewName
<1>1. Len(Upgrade) = 13 /\ Len(Upgrade)' = 13
  BY UpgradeSteps DEF Upgrade, Statement
<1>2. AddedBy(9)' = AddedBy(9)
  BY DEF AddedBy, Additions, Statements, Upgrade, Statement
<1>3. place \in Statements => place \in 1..13
  BY UpgradeSteps
<1>4. Runs("addColumn") => Upgrade[place].column \in AddedBy(9)
  BY AddedByFacts DEF Runs, Additions
<1>5. CASE Open
  BY <1>1, <1>2, <1>5 DEF Open, database, Kept
<1>6. CASE CreateAll
  BY <1>1, <1>2, <1>6 DEF CreateAll, CreateIfMissing, Kept
<1>7. CASE Skip \/ KeysOff \/ KeysOn
  <2>1. place' \in 1..14
    <3>1. place \in 1..13 /\ place' = place + 1
      BY <1>3, <1>7 DEF Skip, KeysOff, KeysOn, Runs, Advance
    <3>2. QED
      BY <3>1
  <2>2. UNCHANGED <<version, table, cols, level, legacy, at, from, origin, crashes>>
    BY <1>7 DEF Skip, KeysOff, KeysOn, Advance, Kept, database
  <2>3. fkeys' \in BOOLEAN
    BY <1>7, Zenon DEF Skip, KeysOff, KeysOn
  <2>4. QED
    BY <1>1, <1>2, <2>1, <2>2, <2>3
<1>8. CASE CreateTable \/ RaiseLevel
  <2>1. place' \in 1..14 /\ UNCHANGED <<at, from, origin, crashes, version, legacy, fkeys>>
    BY SMTT(20), <1>3, <1>8 DEF CreateTable, RaiseLevel, Runs, Advance, Kept
  <2>2. table' \in {"none", OldName, NewName} /\ cols' \subseteq AddedBy(9) /\ level' \in 0..4
    BY <1>8 DEF CreateTable, RaiseLevel, CreateIfMissing, Raised
  <2>3. QED
    BY <1>1, <1>2, <2>1, <2>2
<1>9. CASE ResetLevel
  <2>1. CASE table = OldName
    <3>1. place' \in 1..14 /\ UNCHANGED <<at, from, origin, crashes, version, table, cols, fkeys>>
      BY <1>3, <1>9, <2>1 DEF ResetLevel, Runs, Advance, Kept
    <3>2. /\ level' = IF level = 0 THEN 0 ELSE 3
          /\ legacy' \in {legacy, legacy \cup {"settings"}}
      BY <1>9, <2>1 DEF ResetLevel
    <3>3. QED
      BY <1>1, <1>2, <3>1, <3>2
  <2>2. CASE table # OldName
    BY <1>1, <1>2, <1>9, <2>2 DEF ResetLevel, Fail, Kept, database
  <2>3. QED
    BY <2>1, <2>2
<1>10. CASE AddColumn
  <2>1. CASE Upgrade[place].column \notin cols
    <3>1. place' \in 1..14 /\ UNCHANGED <<at, from, origin, crashes, version, table, level, legacy, fkeys>>
      BY <1>3, <1>10, <2>1 DEF AddColumn, Runs, Advance, Kept
    <3>2. cols' \subseteq AddedBy(9)
      BY <1>4, <1>10, <2>1 DEF AddColumn
    <3>3. place' \in 1..(Len(Upgrade)' + 1) /\ cols' \subseteq AddedBy(9)'
      BY <1>1, <1>2, <3>1, <3>2
    <3>4. QED
      BY <3>1, <3>3
  <2>2. CASE Upgrade[place].column \in cols
    BY <1>1, <1>2, <1>10, <2>2 DEF AddColumn, Fail, Kept, database
  <2>3. QED
    BY <2>1, <2>2
<1>11. CASE Relayout
  <2>1. CASE HasOldCol /\ table # OldName
    BY <1>1, <1>2, <1>11, <2>1 DEF Relayout, Fail, Kept, database
  <2>2. CASE ~(HasOldCol /\ table # OldName)
    <3>1. place' \in 1..14 /\ UNCHANGED <<at, from, origin, crashes, cols, level, fkeys>>
      BY SMTT(20), <1>3, <1>11, <2>2 DEF Relayout, Runs, Advance, Kept
    <3>2. /\ version' \in 0..9 /\ table' \in {"none", OldName, NewName}
          /\ legacy' \in {{}, legacy \ {"readings"}}
      BY <1>11, <2>2 DEF Relayout, Version8
    <3>3. legacy' \subseteq {"readings", "settings"}
      BY <3>2
    <3>4. QED
      BY <1>1, <1>2, <3>1, <3>2, <3>3
  <2>3. QED
    BY <2>1, <2>2
<1>12. CASE SetSchemaVersion
  BY <1>1, <1>2, <1>12 DEF SetSchemaVersion, Kept
<1>13. CASE Restart
  BY <1>1, <1>2, <1>13 DEF Restart, Kept, database
<1>14. CASE Crash
  BY <1>1, <1>2, <1>14, MigrationAssumption DEF Crash, database
<1>15. CASE UNCHANGED vars
  BY <1>1, <1>2, <1>15 DEF vars, database
<1>16. QED
  BY <1>5, <1>6, <1>7, <1>8, <1>9, <1>10, <1>11, <1>12, <1>13, <1>14, <1>15 DEF Next, Opening

LEMMA MigrationStep == ASSUME MigrationInv, [Next]_vars PROVE MigrationInv'
<1> USE DEF schemaVersion, OldName, NewName, RelayoutAt, MigrationInv, MigrationTypeOK,
      VersionBehindColumns, LayoutInv, UpgradeInv, ColumnsInv, OpenedIsCurrent, FailsOnlyAhead, Ahead
<1>1. \A i \in Additions : i \in 3..8 \cup {13}
  BY UpgradeSteps DEF Additions
<1>2. /\ AddedBy(version)' = AddedBy(version')
      /\ AddedBy(9)' = AddedBy(9)
      /\ Additions' = Additions
      /\ Upgrade' = Upgrade
      /\ Len(Upgrade) = 13
      /\ Len(Upgrade)' = 13
      /\ Statements = 1..13
  BY UpgradeSteps DEF AddedBy, Additions, Statements, Upgrade, Statement
<1>3. /\ Runs("createTable") => place = 1 /\ from < 2
      /\ Runs("resetLevel") => place = 2 /\ from < 3
      /\ Runs("addColumn") => place \in Additions /\ from < Upgrade[place].below
      /\ Runs("raiseLevel") => place = 9 /\ from < 7
      /\ Runs("keysOff") => place = 10 /\ from < 8
      /\ Runs("relayout") => place = 11 /\ from < 8
      /\ Runs("keysOn") => place = 12 /\ from < 8
  BY <1>2, UpgradeSteps DEF Runs, Applies, Additions
<1>4. MigrationTypeOK'
  BY MigrationTypes
<1>5. CASE Open
  <2>2. VersionBehindColumns'
    BY <1>5 DEF Open, database, Kept
  <2>3. LayoutInv'
    BY <1>5 DEF Open, database, Kept
  <2>4. UpgradeInv'
    BY <1>5 DEF Open, database, Kept
  <2>5. ColumnsInv'
    BY <1>5, <1>1, <1>2 DEF Open, database, Kept
  <2>6. OpenedIsCurrent'
    <3>1. SUFFICES ASSUME at' = "opened" PROVE OpenedIsCurrent'
      OBVIOUS
    <3>2. version = 9 /\ fkeys' = TRUE /\ UNCHANGED <<version, table, cols, legacy>>
      BY <1>5, <3>1 DEF Open, database
    <3>3. cols = AddedBy(9) /\ table = NewName /\ legacy = {}
      BY <3>2
    <3>4. QED
      BY <1>2, <3>2, <3>3
  <2>7. FailsOnlyAhead'
    BY <1>5 DEF Open, database, Kept
  <2>8. QED
    BY <1>4, <2>2, <2>3, <2>4, <2>5, <2>6, <2>7
<1>6. CASE CreateAll
  <2>2. VersionBehindColumns'
    BY <1>6 DEF CreateAll, CreateIfMissing, Kept
  <2>3. LayoutInv'
    BY <1>6 DEF CreateAll, CreateIfMissing, Kept
  <2>4. UpgradeInv'
    BY <1>6, <1>2 DEF CreateAll, CreateIfMissing, Kept
  <2>5. ColumnsInv'
    BY <1>6, <1>2, AddedByFacts DEF CreateAll, CreateIfMissing, Kept
  <2>6. OpenedIsCurrent'
    BY <1>6 DEF CreateAll, CreateIfMissing, Kept
  <2>7. FailsOnlyAhead'
    BY <1>6 DEF CreateAll, CreateIfMissing, Kept
  <2>8. QED
    BY <1>4, <2>2, <2>3, <2>4, <2>5, <2>6, <2>7
<1>7. CASE Skip
  <2>2. VersionBehindColumns'
    BY <1>7 DEF Skip, Applies, Advance, database, Kept
  <2>3. LayoutInv'
    BY <1>7 DEF Skip, Applies, Advance, database, Kept
  <2>4. UpgradeInv'
    <3>1. /\ at = "upgrade" /\ place \in 1..13 /\ ~(from < Upgrade[place].below)
          /\ place' = place + 1 /\ UNCHANGED <<database, fkeys, at, from>>
      BY <1>2, <1>7 DEF Skip, Applies, Advance
    <3>2. /\ place <= 2 => Upgrade[place].below \in 2..3
          /\ place = 11 => Upgrade[place].below = 8
          /\ place = 12 => Upgrade[place].below = 8
          /\ place = 1 => Upgrade[place].below = 2
      BY <3>1 DEF Upgrade, Statement
    <3>3. UNCHANGED <<version, table, legacy>>
      BY <3>1 DEF database
    <3>4. QED
      BY <3>1, <3>2, <3>3
  <2>5. ColumnsInv'
    <3>1. /\ at = "upgrade" /\ place \in 1..13 /\ ~(from < Upgrade[place].below)
          /\ place' = place + 1 /\ UNCHANGED cols
      BY <1>2, <1>7 DEF Skip, Applies, Advance, database
    <3>2. ASSUME place \in Additions PROVE Upgrade[place].column \in cols
      <4>1. place < 11 /\ Upgrade[place].below <= version
        <5>1. /\ place \in 3..8 \cup {13} /\ Upgrade[place].below \in 2..9
              /\ place < 11 <=> Upgrade[place].below <= 8
          BY <1>1, <3>2, UpgradeSteps DEF Additions
        <5>2. QED
          BY SMTT(20), <3>1, <5>1
      <4>2. Upgrade[place].column \in AddedBy(version)
        BY <3>2, <4>1 DEF AddedBy
      <4>3. QED
        BY <4>2
    <3>3. ASSUME NEW i \in Additions, i < place' PROVE Upgrade[i].column \in cols
      <4>1. i \in 1..13
        BY <1>1
      <4>2. i < place \/ i = place
        BY <3>1, <3>3, <4>1
      <4>3. QED
        BY <3>1, <3>2, <4>2
    <3>4. QED
      BY <1>2, <3>1, <3>3
  <2>6. OpenedIsCurrent'
    BY <1>7 DEF Skip, Applies, Advance, database, Kept
  <2>7. FailsOnlyAhead'
    BY <1>7 DEF Skip, Applies, Advance, database, Kept
  <2>8. QED
    BY <1>4, <2>2, <2>3, <2>4, <2>5, <2>6, <2>7
<1>8. CASE CreateTable
  <2>2. VersionBehindColumns'
    BY <1>8 DEF CreateTable, Runs, CreateIfMissing, Advance, Kept
  <2>3. LayoutInv'
    BY <1>8 DEF CreateTable, Runs, CreateIfMissing, Advance, Kept
  <2>4. UpgradeInv'
    BY <1>8, <1>2, <1>3 DEF CreateTable, Runs, CreateIfMissing, Advance, Kept
  <2>5. ColumnsInv'
    BY <1>8, <1>1, <1>2, <1>3 DEF CreateTable, Runs, CreateIfMissing, Advance, Kept
  <2>6. OpenedIsCurrent'
    BY <1>8 DEF CreateTable, Runs, CreateIfMissing, Advance, Kept
  <2>7. FailsOnlyAhead'
    BY <1>8 DEF CreateTable, Runs, CreateIfMissing, Advance, Kept
  <2>8. QED
    BY <1>4, <2>2, <2>3, <2>4, <2>5, <2>6, <2>7
<1>9. CASE ResetLevel
  <2>2. VersionBehindColumns'
    BY <1>9 DEF ResetLevel, Runs, Advance, Fail, database, Kept
  <2>3. LayoutInv'
    BY <1>9 DEF ResetLevel, Runs, Advance, Fail, database, Kept
  <2>4. UpgradeInv'
    <3>1. /\ at = "upgrade" /\ place = 2 /\ from < 3
          /\ UNCHANGED <<version, table, fkeys, from>>
      BY <1>3, <1>9 DEF ResetLevel, Runs, Advance, Fail, database
    <3>2. CASE table = OldName
      <4>1. place' = 3 /\ at' = "upgrade" /\ legacy' \subseteq legacy \cup {"settings"}
        BY <1>9, <3>1, <3>2 DEF ResetLevel, Advance
      <4>2. version # 1
        BY <3>1, <3>2
      <4>3. QED
        BY <3>1, <4>1, <4>2
    <3>3. CASE table # OldName
      BY <1>9, <3>1, <3>3 DEF ResetLevel, Fail
    <3>4. QED
      BY <3>2, <3>3
  <2>5. ColumnsInv'
    BY <1>9, <1>1, <1>2, <1>3 DEF ResetLevel, Runs, Advance, Fail, database, Kept
  <2>6. OpenedIsCurrent'
    BY <1>9 DEF ResetLevel, Runs, Advance, Fail, database, Kept
  <2>7. FailsOnlyAhead'
    BY <1>9, <1>2, <1>3 DEF ResetLevel, Runs, Advance, Fail, database, Kept
  <2>8. QED
    BY <1>4, <2>2, <2>3, <2>4, <2>5, <2>6, <2>7
<1>10. CASE AddColumn
  <2>2. VersionBehindColumns'
    BY <1>10 DEF AddColumn, Runs, Advance, Fail, database, Kept
  <2>3. LayoutInv'
    <3>1. /\ at = "upgrade" /\ place \in 3..8 \cup {13}
          /\ UNCHANGED <<version, table, fkeys, from, legacy, origin>>
      BY <1>1, <1>3, <1>10 DEF AddColumn, Runs, Advance, Fail, database, Kept
    <3>2. QED
      BY <3>1
  <2>4. UpgradeInv'
    <3>1. /\ at = "upgrade" /\ place \in 3..8 \cup {13}
          /\ UNCHANGED <<version, table, fkeys, from, legacy, origin>>
      BY <1>1, <1>3, <1>10 DEF AddColumn, Runs, Advance, Fail, database, Kept
    <3>2. at' = "failed" \/ (at' = at /\ place' = place + 1)
      BY <1>10 DEF AddColumn, Advance, Fail
    <3>3. QED
      BY <3>1, <3>2
  <2>5. ColumnsInv'
    BY <1>10, <1>1, <1>2 DEF AddColumn, Runs, Advance, Fail, database, Kept
  <2>6. OpenedIsCurrent'
    BY <1>10 DEF AddColumn, Runs, Advance, Fail, database, Kept
  <2>7. FailsOnlyAhead'
    <3>1. /\ at = "upgrade" /\ place \in Additions /\ place \in 3..8 \cup {13}
          /\ from < Upgrade[place].below
      BY <1>1, <1>3, <1>10 DEF AddColumn, Runs
    <3>2. Upgrade[place].below > version /\ version \in 0..9
      BY <3>1, UpgradeSteps DEF Additions
    <3>3. CASE Upgrade[place].column \notin cols
      BY <1>10, <3>1, <3>3 DEF AddColumn, Advance
    <3>4. CASE Upgrade[place].column \in cols
      <4>1. UNCHANGED <<version, cols>>
        BY <1>10, <3>4 DEF AddColumn, Fail, database
      <4>2. cols # AddedBy(version)
        BY <3>1, <3>2, <3>4, AddedByFacts
      <4>3. QED
        BY <1>2, <4>1, <4>2
    <3>5. QED
      BY <3>3, <3>4
  <2>8. QED
    BY <1>4, <2>2, <2>3, <2>4, <2>5, <2>6, <2>7
<1>11. CASE RaiseLevel
  <2>2. VersionBehindColumns'
    BY <1>11 DEF RaiseLevel, Raised, Runs, Advance, Kept
  <2>3. LayoutInv'
    BY <1>11 DEF RaiseLevel, Raised, Runs, Advance, Kept
  <2>4. UpgradeInv'
    BY <1>11, <1>2, <1>3 DEF RaiseLevel, Raised, Runs, Advance, Kept
  <2>5. ColumnsInv'
    BY <1>11, <1>1, <1>2, <1>3 DEF RaiseLevel, Raised, Runs, Advance, Kept
  <2>6. OpenedIsCurrent'
    BY <1>11 DEF RaiseLevel, Raised, Runs, Advance, Kept
  <2>7. FailsOnlyAhead'
    BY <1>11 DEF RaiseLevel, Raised, Runs, Advance, Kept
  <2>8. QED
    BY <1>4, <2>2, <2>3, <2>4, <2>5, <2>6, <2>7
<1>12. CASE KeysOff
  <2>2. VersionBehindColumns'
    BY <1>12 DEF KeysOff, Runs, Advance, database, Kept
  <2>3. LayoutInv'
    BY <1>12 DEF KeysOff, Runs, Advance, database, Kept
  <2>4. UpgradeInv'
    BY <1>12, <1>2, <1>3 DEF KeysOff, Runs, Advance, database, Kept
  <2>5. ColumnsInv'
    BY <1>12, <1>1, <1>2, <1>3 DEF KeysOff, Runs, Advance, database, Kept
  <2>6. OpenedIsCurrent'
    BY <1>12 DEF KeysOff, Runs, Advance, database, Kept
  <2>7. FailsOnlyAhead'
    BY <1>12 DEF KeysOff, Runs, Advance, database, Kept
  <2>8. QED
    BY <1>4, <2>2, <2>3, <2>4, <2>5, <2>6, <2>7
<1>13. CASE Relayout
  <2>2. VersionBehindColumns'
    BY <1>13, <1>1, <1>2, <1>3, AddedBefore DEF Relayout, HasOldCol, Version8, Runs, Advance, Kept
  <2>3. LayoutInv'
    <3>1. /\ at = "upgrade" /\ place = 11 /\ from < 8 /\ version \in 2..7
          /\ table \in {OldName, NewName}
      BY <1>3, <1>13 DEF Relayout, Runs
    <3>2. /\ version' = 8 /\ table' = NewName /\ legacy' = {} /\ place' = 12
          /\ UNCHANGED <<fkeys, from, at, origin, cols>>
      <4>1. HasOldCol <=> table = OldName
        BY DEF HasOldCol
      <4>2. /\ version' = 8 /\ UNCHANGED <<fkeys, from, at, origin, cols>>
            /\ legacy' = IF HasOldCol THEN {} ELSE legacy \ {"readings"}
            /\ table' = IF HasOldCol THEN NewName ELSE table
            /\ place' = place + 1
        BY <1>13, <4>1 DEF Relayout, Version8, Advance, Kept
      <4>3. legacy \ {"readings"} = {} \/ table = OldName
        OBVIOUS
      <4>4. legacy' = {} /\ table' = NewName
        BY <3>1, <4>1, <4>2, <4>3
      <4>5. QED
        BY <3>1, <4>2, <4>4
    <3>3. QED
      BY <3>1, <3>2
  <2>4. UpgradeInv'
    <3>1. /\ at = "upgrade" /\ place = 11 /\ from < 8 /\ version \in 2..7
          /\ table \in {OldName, NewName}
      BY <1>3, <1>13 DEF Relayout, Runs
    <3>2. /\ version' = 8 /\ table' = NewName /\ legacy' = {} /\ place' = 12
          /\ UNCHANGED <<fkeys, from, at, origin, cols>>
      <4>1. HasOldCol <=> table = OldName
        BY DEF HasOldCol
      <4>2. /\ version' = 8 /\ UNCHANGED <<fkeys, from, at, origin, cols>>
            /\ legacy' = IF HasOldCol THEN {} ELSE legacy \ {"readings"}
            /\ table' = IF HasOldCol THEN NewName ELSE table
            /\ place' = place + 1
        BY <1>13, <4>1 DEF Relayout, Version8, Advance, Kept
      <4>3. legacy \ {"readings"} = {} \/ table = OldName
        OBVIOUS
      <4>4. legacy' = {} /\ table' = NewName
        BY <3>1, <4>1, <4>2, <4>3
      <4>5. QED
        BY <3>1, <4>2, <4>4
    <3>3. QED
      BY <3>1, <3>2
  <2>5. ColumnsInv'
    BY <1>13, <1>1, <1>2, <1>3 DEF Relayout, HasOldCol, Version8, Runs, Advance, Kept
  <2>6. OpenedIsCurrent'
    BY <1>13 DEF Relayout, HasOldCol, Version8, Runs, Advance, Kept
  <2>7. FailsOnlyAhead'
    BY <1>13 DEF Relayout, HasOldCol, Version8, Runs, Advance, Kept
  <2>8. QED
    BY <1>4, <2>2, <2>3, <2>4, <2>5, <2>6, <2>7
<1>14. CASE KeysOn
  <2>2. VersionBehindColumns'
    BY <1>14 DEF KeysOn, Runs, Advance, database, Kept
  <2>3. LayoutInv'
    BY <1>14 DEF KeysOn, Runs, Advance, database, Kept
  <2>4. UpgradeInv'
    BY <1>14, <1>2, <1>3 DEF KeysOn, Runs, Advance, database, Kept
  <2>5. ColumnsInv'
    BY <1>14, <1>1, <1>2, <1>3 DEF KeysOn, Runs, Advance, database, Kept
  <2>6. OpenedIsCurrent'
    BY <1>14 DEF KeysOn, Runs, Advance, database, Kept
  <2>7. FailsOnlyAhead'
    BY <1>14 DEF KeysOn, Runs, Advance, database, Kept
  <2>8. QED
    BY <1>4, <2>2, <2>3, <2>4, <2>5, <2>6, <2>7
<1>15. CASE SetSchemaVersion
  <2>2. VersionBehindColumns'
    BY <1>15, <1>1, <1>2, <1>3, AddedBefore DEF SetSchemaVersion, Kept
  <2>3. LayoutInv'
    BY <1>15, <1>2 DEF SetSchemaVersion, Kept
  <2>4. UpgradeInv'
    BY <1>15 DEF SetSchemaVersion, Kept
  <2>5. ColumnsInv'
    BY <1>15 DEF SetSchemaVersion, Kept
  <2>6. OpenedIsCurrent'
    BY <1>15, <1>1, <1>2, <1>3, AddedBefore DEF SetSchemaVersion, Kept
  <2>7. FailsOnlyAhead'
    BY <1>15 DEF SetSchemaVersion, Kept
  <2>8. QED
    BY <1>4, <2>2, <2>3, <2>4, <2>5, <2>6, <2>7
<1>16. CASE Restart \/ Crash
  <2>2. VersionBehindColumns'
    BY <1>16 DEF Restart, Crash, database, Kept
  <2>3. LayoutInv'
    BY <1>16 DEF Restart, Crash, database, Kept
  <2>4. UpgradeInv'
    BY <1>16 DEF Restart, Crash, database, Kept
  <2>5. ColumnsInv'
    BY <1>16 DEF Restart, Crash, database, Kept
  <2>6. OpenedIsCurrent'
    BY <1>16 DEF Restart, Crash, database, Kept
  <2>7. FailsOnlyAhead'
    BY <1>16 DEF Restart, Crash, database, Kept
  <2>8. QED
    BY <1>4, <2>2, <2>3, <2>4, <2>5, <2>6, <2>7
<1>17. CASE UNCHANGED vars
  <2>2. VersionBehindColumns'
    BY <1>17 DEF vars, database
  <2>3. LayoutInv'
    BY <1>17 DEF vars, database
  <2>4. UpgradeInv'
    BY <1>17 DEF vars, database
  <2>5. ColumnsInv'
    BY <1>17 DEF vars, database
  <2>6. OpenedIsCurrent'
    BY <1>17 DEF vars, database
  <2>7. FailsOnlyAhead'
    BY <1>17 DEF vars, database
  <2>8. QED
    BY <1>4, <2>2, <2>3, <2>4, <2>5, <2>6, <2>7
<1>18. QED
  BY <1>5, <1>6, <1>7, <1>8, <1>9, <1>10, <1>11, <1>12, <1>13, <1>14, <1>15, <1>16, <1>17
     DEF Next, Opening

\* Every state of an opening satisfies the invariant.
LEMMA MigrationAlways == Spec => []MigrationInv
<1>1. Init => MigrationInv
  BY MigrationInit
<1>2. MigrationInv /\ [Next]_vars => MigrationInv'
  BY MigrationStep
<1>3. QED
  BY <1>1, <1>2, PTL DEF Spec

------------------------------------------------------------------------------
(* The experience level.  Up to the place of raiseLevel it may stand at what *)
(* an interrupted start has made of it; what the statements after it see is  *)
(* the level carried over.                                                   *)

LevelInv ==
  /\ level = 0 <=> origin.level = 0
  /\ origin.version < 2 => origin.level = 0
  /\ version # origin.version => version >= 8 /\ level = CarriedOver(origin)
  /\ origin.version >= 7 => level = origin.level
  /\ origin.version \in 3..6 => level = origin.level \/ (origin.level = 3 /\ level = 4)
  /\ at = "upgrade" =>
       /\ place > 9 => level = CarriedOver(origin)
       /\ place \in 3..9 /\ from < 3 => level \in {0, 3}

LEMMA LevelStep ==
  ASSUME MigrationInv, LevelInv, [Next]_vars
  PROVE  LevelInv'
<1> USE DEF schemaVersion, LevelInv
<1>1. /\ version \in 0..9 /\ level \in 0..4 /\ place \in 1..14 /\ from \in 0..9
      /\ origin.version \in 0..9 /\ origin.level \in 0..4
  BY UpgradeSteps DEF MigrationInv, MigrationTypeOK
<1>2. /\ at = "upgrade" /\ place <= 11 => version = from
      /\ at = "create" => version = 0
  BY <1>1 DEF MigrationInv, UpgradeInv, RelayoutAt
<1>3. origin' = origin /\ CarriedOver(origin)' = CarriedOver(origin')
  <2>1. origin' = origin
    BY DEF Next, Opening, Open, CreateAll, Skip, CreateTable, ResetLevel, AddColumn,
           RaiseLevel, KeysOff, Relayout, KeysOn, SetSchemaVersion, Restart, Crash,
           Advance, Fail, Kept, vars
  <2>2. QED
    BY <2>1 DEF CarriedOver
<1>4. /\ Runs("createTable") => place = 1
      /\ Runs("resetLevel") => place = 2 /\ from < 3
      /\ Runs("addColumn") => place \in 3..8 \cup {13}
      /\ Runs("raiseLevel") => place = 9 /\ from < 7
      /\ Runs("keysOff") => place = 10
      /\ Runs("relayout") => place = 11
      /\ Runs("keysOn") => place = 12
  BY UpgradeSteps DEF Runs, Applies, Additions
<1>5. CASE Open \/ CreateAll
  BY <1>1, <1>2, <1>3, <1>5, UpgradeSteps
     DEF Open, CreateAll, CreateIfMissing, database, CarriedOver
<1>6. CASE Skip
  <2>1. /\ at = "upgrade" /\ place \in 1..13 /\ ~(from < Upgrade[place].below)
        /\ place' = place + 1 /\ UNCHANGED <<version, level, at, from>>
    BY <1>6, UpgradeSteps DEF Skip, Applies, Advance, database
  <2>2. /\ place = 2 => Upgrade[place].below = 3
        /\ place = 9 => Upgrade[place].below = 7
    BY <2>1 DEF Upgrade, Statement
  <2>3. place = 9 => level = CarriedOver(origin)
    BY <1>1, <1>2, <2>1, <2>2 DEF CarriedOver
  <2>4. QED
    BY <1>1, <1>3, <2>1, <2>2, <2>3
<1>7. CASE CreateTable \/ AddColumn \/ KeysOff \/ Relayout \/ KeysOn
  <2>1. /\ place \in (1..14) \ {2, 9} /\ at = "upgrade"
        /\ level' = level /\ from' = from
    BY <1>4, <1>7 DEF CreateTable, AddColumn, KeysOff, Relayout, KeysOn, Runs,
                      Advance, Fail, database
  <2>2. at' = "failed" \/ (at' = "upgrade" /\ place' = place + 1)
    BY <1>7, <2>1 DEF CreateTable, AddColumn, KeysOff, Relayout, KeysOn, Advance, Fail
  <2>3. version' = version \/ (version' = 8 /\ place = 11)
    BY <1>4, <1>7 DEF CreateTable, AddColumn, KeysOff, Relayout, KeysOn, Version8,
                      Advance, Fail, database
  <2>4. QED
    BY <1>1, <1>3, <2>1, <2>2, <2>3
<1>8. CASE ResetLevel
  <2>1. /\ at = "upgrade" /\ place = 2 /\ from < 3 /\ version' = version /\ from' = from
        /\ \/ at' = "failed" /\ level' = level
           \/ place' = 3 /\ at' = at /\ level' = IF level = 0 THEN 0 ELSE 3
    BY <1>4, <1>8 DEF ResetLevel, Runs, Advance, Fail, database
  <2>2. origin.version < 3
    BY <1>1, <1>2, <2>1
  <2>3. version = origin.version
    BY <1>1, <1>2, <2>1
  <2>4. QED
    BY <1>1, <1>3, <2>1, <2>2, <2>3
<1>9. CASE RaiseLevel
  <2>1. /\ at = "upgrade" /\ place = 9 /\ from < 7 /\ version' = version /\ from' = from
        /\ place' = 10 /\ at' = at /\ level' = IF level = 3 THEN 4 ELSE level
    BY <1>4, <1>9 DEF RaiseLevel, Raised, Runs, Advance
  <2>2. version = origin.version /\ origin.version < 7
    BY <1>1, <1>2, <2>1
  <2>3. level' = CarriedOver(origin)
    BY <1>1, <1>2, <2>1, <2>2 DEF CarriedOver
  <2>4. QED
    BY <1>1, <1>3, <2>1, <2>2, <2>3
<1>10. CASE SetSchemaVersion
  BY <1>1, <1>3, <1>10, UpgradeSteps DEF SetSchemaVersion
<1>11. CASE Restart \/ Crash \/ UNCHANGED vars
  BY <1>1, <1>3, <1>11 DEF Restart, Crash, vars, database
<1>12. QED
  BY <1>5, <1>6, <1>7, <1>8, <1>9, <1>10, <1>11 DEF Next, Opening

LEMMA LevelAlways == Spec => []LevelInv
<1>1. Init => LevelInv
  <2>1. ASSUME Init PROVE LevelInv
    BY <2>1, UpgradeSteps, MigrationAssumption DEF Init, LevelInv, LevelsOf, schemaVersion
  <2>2. QED
    BY <2>1
<1>2. MigrationInv /\ LevelInv /\ [Next]_vars => LevelInv'
  BY LevelStep
<1>3. QED
  BY <1>1, <1>2, MigrationAlways, PTL DEF Spec

------------------------------------------------------------------------------
(* The app that has always been left to finish.  Its columns are those of its *)
(* version whenever it is closed, so the ALTERs of an upgrade that are still   *)
(* to come find none of their columns there.                                   *)

ToComeInv ==
  at = "upgrade" =>
    \A i \in Additions : i >= place /\ from < Upgrade[i].below
                         => Upgrade[i].column \notin cols

UninterruptedInv ==
  crashes = 0 /\ origin.version # 1 =>
    /\ at # "failed"
    /\ at = "closed" => cols = AddedBy(version)
    /\ ToComeInv

\* No two ALTERs add the same column.
LEMMA ColumnsDiffer ==
  \A i, j \in Additions : Upgrade[i].column = Upgrade[j].column => i = j
<1>1. \A i \in Additions : i \in 3..8 \cup {13}
  BY UpgradeSteps DEF Additions
<1>2. \A i, j \in 3..8 \cup {13} : Upgrade[i].column = Upgrade[j].column => i = j
  BY DEF Upgrade, Statement
<1>3. QED
  BY <1>1, <1>2

LEMMA UninterruptedStep ==
  ASSUME MigrationInv, UninterruptedInv, [Next]_vars
  PROVE  UninterruptedInv'
<1> USE DEF schemaVersion, UninterruptedInv
<1>1. /\ version \in 0..9 /\ place \in 1..14 /\ from \in 0..9 /\ crashes \in Nat
      /\ AddedBy(version)' = AddedBy(version')
      /\ Additions' = Additions /\ Upgrade' = Upgrade
  BY UpgradeSteps, MigrationAssumption
     DEF MigrationInv, MigrationTypeOK, AddedBy, Additions, Statements, Upgrade, Statement
<1>2. \A i \in Additions : i \in 3..8 \cup {13} /\ Upgrade[i].below \in 2..9
  BY UpgradeSteps DEF Additions
<1>3. CASE Crash
  BY <1>1, <1>3 DEF Crash
<1>4. CASE ~Crash
  <2>1. UNCHANGED <<crashes, origin>>
    BY <1>4 DEF Next, Opening, Open, CreateAll, Skip, CreateTable, ResetLevel, AddColumn,
           RaiseLevel, KeysOff, Relayout, KeysOn, SetSchemaVersion, Restart,
           Advance, Fail, Kept, vars
  <2>2. SUFFICES ASSUME crashes = 0, origin.version # 1
                 PROVE  /\ at' # "failed"
                        /\ at' = "closed" => cols' = AddedBy(version')
                        /\ ToComeInv'
    BY <1>1, <2>1
  <2>3. at # "failed" /\ ToComeInv /\ (at = "closed" => cols = AddedBy(version))
    BY <2>2
  <2>4. /\ at = "upgrade" /\ place <= 11 => version = from
        /\ version = 2 => table = OldName
        /\ version # 1
    BY <2>2 DEF MigrationInv, UpgradeInv, LayoutInv, RelayoutAt
  <2>5. /\ Runs("createTable") => at = "upgrade" /\ place = 1 /\ from < 2
        /\ Runs("resetLevel") => at = "upgrade" /\ place = 2 /\ from < 3
        /\ Runs("addColumn") => /\ at = "upgrade" /\ place \in Additions
                               /\ from < Upgrade[place].below
    BY UpgradeSteps DEF Runs, Applies, Additions
  <2>6. at = "upgrade" /\ place <= 13 => from \in 1..8
    BY DEF MigrationInv, UpgradeInv
  \* A step to the next statement leaves the columns that are still to come.
  <2>7. ASSUME at = "upgrade", at' = at, from' = from, place' = place + 1, cols' = cols
        PROVE  ToComeInv'
    BY <1>1, <1>2, <2>3, <2>7 DEF ToComeInv
  <2>8. CASE Open
    <3>1. cols = AddedBy(version) /\ cols' = cols /\ version' = version
          /\ from' = version /\ at' \in {"create", "opened", "upgrade"}
      BY <2>3, <2>8 DEF Open, database
    <3>2. ToComeInv'
      BY <1>1, <1>2, <3>1, AddedByFacts DEF ToComeInv
    <3>3. QED
      BY <3>1, <3>2
  <2>9. CASE CreateAll
    <3>1. at' = "upgrade" /\ place' = 14
      BY <2>9, UpgradeSteps DEF CreateAll
    <3>2. QED
      BY <1>1, <1>2, <3>1 DEF ToComeInv
  <2>10. CASE Skip \/ RaiseLevel \/ KeysOff \/ KeysOn
    <3>1. at = "upgrade" /\ at' = at /\ from' = from /\ place' = place + 1 /\ cols' = cols
      BY <2>10 DEF Skip, RaiseLevel, KeysOff, KeysOn, Runs, Advance, database
    <3>2. QED
      BY <2>7, <3>1
  <2>11. CASE CreateTable
    BY <1>1, <2>4, <2>5, <2>6, <2>11 DEF CreateTable
  <2>12. CASE ResetLevel
    <3>1. at = "upgrade" /\ table = OldName
      BY <1>1, <2>4, <2>5, <2>6, <2>12 DEF ResetLevel
    <3>2. at' = at /\ from' = from /\ place' = place + 1 /\ cols' = cols
      BY <2>12, <3>1 DEF ResetLevel, Advance
    <3>3. QED
      BY <2>7, <3>1, <3>2
  <2>13. CASE AddColumn
    <3>1. /\ at = "upgrade" /\ place \in Additions
          /\ Upgrade[place].column \notin cols
      BY <1>1, <2>3, <2>5, <2>13 DEF AddColumn, ToComeInv
    <3>2. /\ at' = at /\ from' = from /\ place' = place + 1
          /\ cols' = cols \cup {Upgrade[place].column}
      BY <2>13, <3>1 DEF AddColumn, Advance
    <3>3. ToComeInv'
      <4>1. ASSUME NEW i \in Additions, i >= place', from < Upgrade[i].below
            PROVE  Upgrade[i].column \notin cols'
        <5>1. i >= place /\ i # place
          BY <1>1, <1>2, <3>2, <4>1
        <5>2. Upgrade[i].column \notin cols
          BY <2>3, <3>1, <4>1, <5>1 DEF ToComeInv
        <5>3. Upgrade[i].column # Upgrade[place].column
          BY <3>1, <5>1, ColumnsDiffer
        <5>4. QED
          BY <3>2, <5>2, <5>3
      <4>2. QED
        BY <1>1, <3>2, <4>1 DEF ToComeInv
    <3>4. QED
      BY <3>1, <3>2, <3>3
  <2>14. CASE Relayout
    <3>1. at = "upgrade" /\ at' = at /\ from' = from /\ place' = place + 1 /\ cols' = cols
      BY <2>14 DEF Relayout, HasOldCol, Runs, Advance
    <3>2. QED
      BY <2>7, <3>1
  <2>15. CASE SetSchemaVersion
    BY <2>15 DEF SetSchemaVersion, ToComeInv
  <2>16. CASE Restart
    <3>1. at = "opened" /\ at' = "closed" /\ UNCHANGED <<version, cols>>
      BY <2>3, <2>16 DEF Restart, database
    <3>2. cols = AddedBy(9) /\ version = 9
      BY <3>1 DEF MigrationInv, OpenedIsCurrent
    <3>3. QED
      BY <3>1, <3>2 DEF ToComeInv
  <2>17. CASE UNCHANGED vars
    BY <1>1, <2>3, <2>17 DEF vars, database, ToComeInv
  <2>18. QED
    BY <1>4, <2>8, <2>9, <2>10, <2>11, <2>12, <2>13, <2>14, <2>15, <2>16, <2>17
       DEF Next, Opening
<1>5. QED
  BY <1>3, <1>4

LEMMA UninterruptedInit == ASSUME Init PROVE UninterruptedInv
<1>1. at = "closed" /\ cols = AddedBy(version)
  BY DEF Init
<1>2. QED
  BY <1>1 DEF UninterruptedInv, ToComeInv

------------------------------------------------------------------------------
(* The theorems. *)

\* The model is well typed: the statements of every block of onUpgrade leave
\* the store in a state the next one is written for.
THEOREM MigrationTypeCorrect == Spec => []MigrationTypeOK
<1>1. MigrationInv => MigrationTypeOK
  BY DEF MigrationInv
<1>2. QED
  BY <1>1, MigrationAlways, PTL

\* Whatever statement of onUpgrade the app dies at, and however often, the
\* user_version it leaves is not ahead of the columns of the table.
THEOREM VersionBehindAlways == Spec => []VersionBehindColumns
<1>1. MigrationInv => VersionBehindColumns
  BY DEF MigrationInv
<1>2. QED
  BY <1>1, MigrationAlways, PTL

\* A database that opens is a database of version 9 throughout, with foreign
\* keys enforced, wherever its upgrades were cut short before.
THEOREM OpenedCurrentAlways == Spec => []OpenedIsCurrent
<1>1. MigrationInv => OpenedIsCurrent
  BY DEF MigrationInv
<1>2. QED
  BY <1>1, MigrationAlways, PTL

\* Only a column that was added before its version was written, or a database
\* of version 1, makes an opening fail.
THEOREM FailsOnlyAheadAlways == Spec => []FailsOnlyAhead
<1>1. MigrationInv => FailsOnlyAhead
  BY DEF MigrationInv
<1>2. QED
  BY <1>1, MigrationAlways, PTL

\* However often the statements about the experience level were run again, a
\* database opens with the level its first version and level call for.
THEOREM LevelCarriedOverAlways == Spec => []LevelCarriedOver
<1>1. MigrationInv /\ LevelInv => LevelCarriedOver
  <2>1. ASSUME MigrationInv, LevelInv, at = "opened" PROVE level = CarriedOver(origin)
    <3>1. version = 9 /\ origin.version \in 0..9 /\ origin.level \in 0..4
      BY <2>1 DEF MigrationInv, MigrationTypeOK, OpenedIsCurrent, schemaVersion
    <3>2. QED
      BY <2>1, <3>1 DEF LevelInv, CarriedOver
  <2>2. QED
    BY <2>1 DEF LevelCarriedOver
<1>2. QED
  BY <1>1, MigrationAlways, LevelAlways, PTL

\* An app whose upgrades have never been cut short never fails to open a
\* database of version 0 or 2 to 9, whichever that is and however often it is
\* started.
THEOREM UninterruptedAlways == Spec => []UninterruptedNeverFails
<1>1. Init => UninterruptedInv
  BY UninterruptedInit
<1>2. MigrationInv /\ UninterruptedInv /\ [Next]_vars => UninterruptedInv'
  BY UninterruptedStep
<1>3. UninterruptedInv => UninterruptedNeverFails
  BY DEF UninterruptedInv, UninterruptedNeverFails
<1>4. QED
  BY <1>1, <1>2, <1>3, MigrationAlways, PTL DEF Spec
============================================================================

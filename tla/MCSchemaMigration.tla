-------------------------- MODULE MCSchemaMigration --------------------------
(***************************************************************************)
(* SchemaMigration on databases of every version, and on those of the two  *)
(* versions before the current one.                                        *)
(***************************************************************************)
EXTENDS SchemaMigration

EveryOrigin == 0..schemaVersion
RecentOrigins == {7, 8}
==============================================================================

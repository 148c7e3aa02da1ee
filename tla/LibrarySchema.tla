--------------------------- MODULE LibrarySchema ---------------------------
(* How a library database is recognised, brought up to the current schema  *)
(* and checked (db/schema.rs), and the start of the program around it      *)
(* (lib.rs).  init_schema is a sequence of statements that commit one by   *)
(* one; the program may die between any two of them, and the next start    *)
(* runs the whole sequence again on whatever is there.                     *)
(*                                                                         *)
(* A database is a record:                                                 *)
(*   intact     integrity_check finds nothing                              *)
(*   app, user  PRAGMA application_id and user_version                     *)
(*   perf       performance_schema_version, NoRow when it has none         *)
(*   shape      the tables, columns and keys it has                        *)
(*   revision, general   the library revision and the one that covers it   *)
(*   assets     id -> [path, name, key, group, group_key, count, thumb]    *)
(*   tags, tagged        see LibraryTags                                   *)
(*   roots      path -> scanned at startup?                                *)
(*   members    asset_scan_roots, pairs of an id and a root                *)
(*   failures   id -> source_record_version of a thumbnail failure         *)
(*   pending    pending_file_operations has rows                           *)
(* A path is a sequence of components, "/" or a drive first.               *)
EXTENDS LibraryTags, Integers

CONSTANTS Found,          \* the databases the first start may find
          MaxInterrupts   \* how often the program dies

VARIABLES lib,      \* media.db
          up,       \* where the start is: Down, a statement's number, Open, Refused
          perf,     \* the local performance_schema_version of init_schema
          interrupts

schemaVars == <<lib, up, perf, interrupts>>

SCHEMA_VERSION == 3
NoRow == -1
Unnamed == ""

(* The tables, columns and keys that tell the releases apart. *)
CoreShape == {"core_tables", "core_keys"}
Performance == {"fingerprint_mtime_ns", "tag_count", "file_name_key",
                "media_group_key_normalized", "record_version"}
Membership == {"asset_scan_roots", "pending_file_operations"}
AssetColumns == Performance \cup {"file_name", "is_favorite", "media_group_key", "media_group_order"}
NewLibrary == CoreShape \cup Membership \cup AssetColumns
                \cup {"file_name_not_null", "auto_scan_on_startup"}

-----------------------------------------------------------------------------
(* The statements of init_schema.                                          *)

BelongsHere(db) == db.app \in {"none", "tagrove"} /\ db.user <= SCHEMA_VERSION

(* CREATE TABLE IF NOT EXISTS: a new file gets everything but the version  *)
(* of a failure, an old one only the tables it lacks.                      *)
CreateTables(db) ==
    [db EXCEPT !.shape = IF @ = {} THEN NewLibrary ELSE @ \cup Membership,
               !.revision = IF @ = 0 THEN 1 ELSE @,
               !.perf = IF @ = NoRow THEN 0 ELSE @]

EnsureColumns(db, columns) == [db EXCEPT !.shape = @ \cup columns]

UpdateAssets(db, Update(_)) ==
    [db EXCEPT !.assets = [id \in DOMAIN @ |-> Update(@[id])]]

(* ensure_assets_file_name_column, after ALTER TABLE: one transaction.     *)
FillFileNames(db) ==
    UpdateAssets(db, LAMBDA row :
        IF trim(row.name) = Unnamed THEN [row EXCEPT !.name = Last(row.path)] ELSE row)

LowerKeys(db) ==
    UpdateAssets(db, LAMBDA row :
        IF row.key = Unnamed THEN [row EXCEPT !.key = lower(row.name)] ELSE row)

GroupKey(group) == IF trim(group) = Unnamed THEN Unnamed ELSE lower(trim(group))

LowerGroups(db) ==
    UpdateAssets(db, LAMBDA row :
        IF trim(row.group) # Unnamed THEN [row EXCEPT !.group_key = GroupKey(row.group)] ELSE row)

CountTags(db) == WithCounts(db, DOMAIN db.assets)

(* LIKE folds ASCII letters; the separator keeps a name that only starts   *)
(* like the root outside.                                                  *)
LikeWithin(path, root) ==
    /\ Len(root) <= Len(path)
    /\ \A i \in DOMAIN root : lower(root[i]) = lower(path[i])

BackfillAssetScanRoots(db) ==
    [db EXCEPT !.members = @ \cup
        {pair \in (DOMAIN db.assets) \X (DOMAIN db.roots) :
            LikeWithin(db.assets[pair[1]].path, pair[2])}]

\* Mutant of LegacyTags: what the validation refuses is dropped.
ValidTagsOnly(db, id) == {name \in ListAssetTags(db, id) : parse_legacy_tags(name) = {name}}

(* What the tags of an asset become: all of them are read before the first *)
(* row changes.                                                            *)
LegacyTags(db, id) == UNION {parse_legacy_tags(name) : name \in ListAssetTags(db, id)}

(* migrate_canonical_keys_and_tags: one transaction. *)
MigrateCanonicalKeysAndTags(db) ==
    LET keyed == UpdateAssets(db, LAMBDA row : [row EXCEPT !.key = canonical_key(row.name)])
        names == [id \in DOMAIN db.assets |-> LegacyTags(db, id)]
        Settled(d) == IF d = db THEN CleanupOrphanTags(d)
                      ELSE BumpLibraryRevision(CleanupOrphanTags(d))
        retagged == Settled(SetTagsInOrder(keyed, names))
    IN  [retagged EXCEPT !.perf = 3]

RebuildQueryRevisions(db) == [db EXCEPT !.general = db.revision]

\* Mutant of Statements: a version is recorded before the data it vouches for.
VersionBeforeItsData ==
    <<"create_tables", "is_favorite", "auto_scan_on_startup", "media_group_key",
      "media_group_order", "file_name", "fill_file_names", "performance_columns",
      "read_version", "version_1", "lower_keys", "lower_groups", "count_tags",
      "backfill_roots", "version_2", "migrate", "identify", "source_record_version",
      "discard_failures", "user_version", "query_revisions">>

(* The statements in their order, each with its own commit.                *)
Statements ==
    <<"create_tables", "is_favorite", "auto_scan_on_startup", "media_group_key",
      "media_group_order", "file_name", "fill_file_names", "performance_columns",
      "read_version", "lower_keys", "lower_groups", "count_tags", "version_1",
      "backfill_roots", "version_2", "migrate", "identify", "source_record_version",
      "discard_failures", "user_version", "query_revisions">>

(* What a statement commits; version is the local variable that was read   *)
(* after the columns were there, and guards the backfills.                 *)
Execute(db, statement, version) ==
    CASE statement = "create_tables" -> CreateTables(db)
      [] statement \in {"is_favorite", "auto_scan_on_startup", "media_group_key",
                        "media_group_order", "file_name"} -> EnsureColumns(db, {statement})
      [] statement = "fill_file_names" -> FillFileNames(db)
      [] statement = "performance_columns" -> EnsureColumns(db, Performance)
      [] statement = "lower_keys" -> IF version < 1 THEN LowerKeys(db) ELSE db
      [] statement = "lower_groups" -> IF version < 1 THEN LowerGroups(db) ELSE db
      [] statement = "count_tags" -> IF version < 1 THEN CountTags(db) ELSE db
      [] statement = "version_1" -> IF version < 1 THEN [db EXCEPT !.perf = 1] ELSE db
      [] statement = "backfill_roots" -> IF version < 2 THEN BackfillAssetScanRoots(db) ELSE db
      [] statement = "version_2" -> IF version < 2 THEN [db EXCEPT !.perf = 2] ELSE db
      [] statement = "migrate" -> IF version < 3 THEN MigrateCanonicalKeysAndTags(db) ELSE db
      [] statement = "identify" -> [db EXCEPT !.app = "tagrove"]
      [] statement = "user_version" -> [db EXCEPT !.user = SCHEMA_VERSION]
      [] statement = "query_revisions" -> RebuildQueryRevisions(db)
      [] OTHER -> db

(* The failures of a database without source_record_version go when the    *)
(* column comes, in a statement of its own: only the run that added the     *)
(* column reaches it.                                                       *)
AddSourceVersion(db) == EnsureColumns(db, {"source_record_version"})
DiscardFailures(db) == [db EXCEPT !.failures = << >>]

(* init_schema where nothing can interrupt it: on a database in staging.   *)
(* The version is read once, after the tables are there.                   *)
Added == {"is_favorite", "auto_scan_on_startup", "media_group_key", "media_group_order", "file_name"}
Widened(db) == EnsureColumns(FillFileNames(EnsureColumns(CreateTables(db), Added)), Performance)
Derived(db, version) ==
    IF version < 1 THEN [CountTags(LowerGroups(LowerKeys(db))) EXCEPT !.perf = 1] ELSE db
Assigned(db, version) ==
    IF version < 2 THEN [BackfillAssetScanRoots(db) EXCEPT !.perf = 2] ELSE db
MigratedTo(db, version) == IF version < 3 THEN MigrateCanonicalKeysAndTags(db) ELSE db
Sourced(db, shape) ==
    IF "source_record_version" \in shape THEN db ELSE DiscardFailures(AddSourceVersion(db))
Identified(db) == [db EXCEPT !.app = "tagrove", !.user = SCHEMA_VERSION]

InitSchema(db) ==
    LET version == CreateTables(db).perf
        migrated == MigratedTo(Assigned(Derived(Widened(db), version), version), version)
    IN  RebuildQueryRevisions(Identified(Sourced(migrated, db.shape)))

-----------------------------------------------------------------------------
(* What a database must satisfy to be restored.                            *)

(* The release that wrote it, from its markers. *)
Compatibility(db, allow_legacy) ==
    IF db.app = "tagrove" /\ db.user \in 1..SCHEMA_VERSION
    THEN <<"version_1", "version_2", "current">>[db.user]
    ELSE IF db.app = "none" /\ db.user = 0 /\ allow_legacy THEN "legacy" ELSE "refused"

(* validate_backup_schema and validate_table_columns. *)
RequiredColumns(compatibility) ==
    {"core_tables"}
        \cup (IF compatibility = "legacy" THEN {} ELSE Membership \cup AssetColumns)
        \cup (IF compatibility \in {"current", "version_2"} THEN {"auto_scan_on_startup"} ELSE {})
        \cup (IF compatibility = "current" THEN {"source_record_version"} ELSE {})

(* validate_backup_constraints: the keys and NOT NULL of the core tables,  *)
(* and of the columns later releases added.                                *)
RequiredConstraints(compatibility) ==
    {"core_keys"} \cup (IF compatibility = "legacy" THEN {} ELSE {"file_name_not_null"})

ForeignKeysHold(db) ==
    /\ \A pair \in db.tagged : pair[1] \in DOMAIN db.assets /\ pair[2] \in db.tags
    /\ \A pair \in db.members : pair[1] \in DOMAIN db.assets /\ pair[2] \in DOMAIN db.roots

MetadataHolds(db) == db.revision >= 1 /\ db.perf \in 0..3

(* The columns derived from others hold what the release computes.         *)
ColumnsRight(db) ==
    \A id \in DOMAIN db.assets :
        LET row == db.assets[id] IN
        /\ trim(row.name) # Unnamed
        /\ row.count = CountOf(db, id)
        /\ row.group_key = GroupKey(row.group)
        /\ row.key = IF db.perf >= 3 THEN canonical_key(row.name) ELSE lower(row.name)

(* normalize_and_validate_tags leaves the name as it is.                   *)
CanonicalTag(name) == normalize_tags({name}) = {name} /\ WellFormedTags({name})

DerivedRight(db) ==
    /\ ColumnsRight(db)
    /\ db.perf >= 3 => \A name \in db.tags : CanonicalTag(name)

(* validate_backup_data. *)
DataHolds(db, compatibility) ==
    /\ \A name \in db.tags : trim(name) # ""
    /\ MetadataHolds(db)
    /\ compatibility # "legacy" => DerivedRight(db)
    /\ ~db.pending

ValidateBackupDatabase(db, allow_legacy) ==
    LET compatibility == Compatibility(db, allow_legacy) IN
    IF /\ compatibility # "refused"
       /\ db.intact
       /\ ForeignKeysHold(db)
       /\ compatibility = "current" => \A id \in DOMAIN db.failures : db.failures[id] >= 1
       /\ RequiredColumns(compatibility) \subseteq db.shape
       /\ RequiredConstraints(compatibility) \subseteq db.shape
       /\ DataHolds(db, compatibility)
    THEN compatibility
    ELSE "refused"

-----------------------------------------------------------------------------
(* The databases the first start finds.                                    *)

DatabaseFields == {"intact", "app", "user", "perf", "shape", "revision", "general", "assets",
                   "tags", "tagged", "roots", "members", "failures", "pending"}
AssetFields == {"path", "name", "key", "group", "group_key", "count", "thumb"}

HasFields(record, fields) == record = [field \in fields |-> record[field]]

(* What the tables and their types make of any database. *)
IsDatabase(db) ==
    /\ HasFields(db, DatabaseFields)
    /\ db.intact \in BOOLEAN /\ db.pending \in BOOLEAN
    /\ db.user \in Nat /\ db.perf \in NoRow .. 3
    /\ db.revision \in Nat /\ db.general \in Nat
    /\ HasFields(db.assets, DOMAIN db.assets)
    /\ IsFiniteSet(DOMAIN db.assets) /\ DOMAIN db.assets \subseteq Nat \ {0}
    /\ \A id \in DOMAIN db.assets :
          HasFields(db.assets[id], AssetFields) /\ db.assets[id].count \in Nat
    /\ IsFiniteSet(db.tagged) /\ \A pair \in db.tagged : pair = <<pair[1], pair[2]>>
    /\ IsFiniteSet(DOMAIN db.roots)
    /\ DOMAIN db.failures \subseteq DOMAIN db.assets

AssetsAssigned(db) ==
    \A id \in DOMAIN db.assets, root \in DOMAIN db.roots :
        LikeWithin(db.assets[id].path, root) => \E pair \in db.members : pair[1] = id

(* What a release leaves behind, whichever it was: the version it recorded  *)
(* vouches for the columns it derived, and before the first one a derived   *)
(* column is empty or right.  A row of tags may be there that nobody uses:  *)
(* a helper that deletes assets commits the deletion and the cleaning up    *)
(* after it one by one (delete_asset_by_id_with_thumb), another one does    *)
(* not clean up (delete_stale_assets_by_prefix).                            *)
Vouched(db) ==
    /\ ForeignKeysHold(db)
    /\ db.shape # {} => "core_tables" \in db.shape
    /\ db.perf < 1 =>
          \A id \in DOMAIN db.assets :
              LET row == db.assets[id] IN
              /\ trim(Last(row.path)) # Unnamed
              /\ row.key # Unnamed => trim(row.name) # Unnamed /\ row.key = lower(row.name)
              /\ trim(row.group) = Unnamed => row.group_key = Unnamed
    /\ db.perf >= 1 => ColumnsRight(db)
    /\ db.perf >= 2 => AssetsAssigned(db)
    /\ \A name \in db.tags : IF db.perf < 3 THEN trim(name) # "" ELSE CanonicalTag(lower(trim(name)))

ASSUME FoundAssumption ==
    /\ \A db \in Found : IsDatabase(db) /\ (BelongsHere(db) => Vouched(db))
    /\ MaxInterrupts \in Nat

-----------------------------------------------------------------------------
(* The start.                                                              *)

Down == 0
Open == Len(Statements) + 1
Refused == Len(Statements) + 2

Start ==
    /\ up = Down
    /\ up' = IF BelongsHere(lib) THEN 1 ELSE Refused
    /\ UNCHANGED <<lib, perf, interrupts>>

(* One statement of init_schema.  The check for source_record_version and  *)
(* the two statements it guards are the last but two: without the column    *)
(* both run, with it neither.                                               *)
RunStatement ==
    /\ up \in DOMAIN Statements
    /\ LET statement == Statements[up] IN
       CASE statement = "source_record_version" ->
              IF statement \in lib.shape
              THEN lib' = lib /\ up' = up + 2
              ELSE lib' = AddSourceVersion(lib) /\ up' = up + 1
         [] statement = "discard_failures" -> lib' = DiscardFailures(lib) /\ up' = up + 1
         [] statement = "query_revisions" ->
              \* recover_pending_file_operations follows and settles the journal
              lib' = [Execute(lib, statement, perf) EXCEPT !.pending = FALSE] /\ up' = Open
         [] OTHER -> lib' = Execute(lib, statement, perf) /\ up' = up + 1
    /\ perf' = IF Statements[up] = "read_version" THEN lib.perf ELSE perf
    /\ UNCHANGED interrupts

(* The program dies, during the start or later, or the user quits. *)
Interrupt ==
    /\ up \notin {Down, Refused}
    /\ interrupts < MaxInterrupts
    /\ up' = Down
    /\ perf' = NoRow
    /\ interrupts' = interrupts + 1
    /\ UNCHANGED lib

SchemaInit ==
    /\ lib \in Found
    /\ up = Down
    /\ perf = NoRow
    /\ interrupts = 0

-----------------------------------------------------------------------------
\* The record has its fields, and the start is somewhere.
TypeOK ==
    /\ up \in Down .. Refused /\ perf \in NoRow .. 3 /\ interrupts \in 0 .. MaxInterrupts
    /\ lib.intact \in BOOLEAN /\ lib.pending \in BOOLEAN
    /\ lib.user \in Nat /\ lib.perf \in NoRow .. 3
    /\ lib.revision \in Nat /\ lib.general \in Nat
    /\ DOMAIN lib.assets \subseteq Nat
    /\ \A id \in DOMAIN lib.assets : lib.assets[id].count \in Nat
    /\ DOMAIN lib.failures \subseteq DOMAIN lib.assets

(* The rows of tags the migration passes by: nobody used them in the library *)
(* that was found, or an earlier migration had passed them by.  A tag it    *)
(* splits off another one may be linked to such a row and keep its spelling. *)
Leftovers ==
    UNION {{name \in db.tags : IF db.perf < 3 THEN \A pair \in db.tagged : pair[2] # name
                               ELSE ~CanonicalTag(name)} : db \in Found}

TagsUpgraded(db) ==
    \A name \in db.tags :
        CanonicalTag(name) \/ (name \in Leftovers /\ CanonicalTag(lower(trim(name))))

(* Whatever interrupted the upgrades of a library, an open one has its      *)
(* identity, every derived column computed for the release that is running, *)
(* every tag in its canonical form and every asset that lies in a root      *)
(* assigned to one: a version is never recorded before the data it vouches  *)
(* for is there (init_schema).  Only a row nobody used when the library was *)
(* found may still be spelled otherwise, and it reads as a canonical tag.   *)
UpgradeConverges ==
    /\ TypeOK
    /\ up = Open =>
          /\ lib.app = "tagrove" /\ lib.user = SCHEMA_VERSION /\ lib.perf = 3
          /\ RequiredColumns("current") \subseteq lib.shape
          /\ ForeignKeysHold(lib)
          /\ ColumnsRight(lib) /\ TagsUpgraded(lib)
          /\ lib.general <= lib.revision
          /\ AssetsAssigned(lib)

(* What the user put into a library: no statement of an upgrade may change  *)
(* it.  A tag counts as what a search for it finds.                         *)
Content(db) ==
    [assets |-> [id \in DOMAIN db.assets |->
        [path |-> db.assets[id].path, group |-> db.assets[id].group, thumb |-> db.assets[id].thumb,
         tags |-> normalize_tags(UNION {parse_legacy_tags(name) : name \in TagsOf(db, id)})]],
     roots |-> db.roots]

(* No step of a start loses or changes an asset's path, group, thumbnail or *)
(* tags, or a scan root, at whichever statement it is interrupted           *)
(* (init_schema, migrate_canonical_keys_and_tags).                          *)
UpgradeKeepsTheLibrary == [][(up \in DOMAIN Statements) => Content(lib') = Content(lib)]_schemaVars

(* docs/subsystems/database.md:55: "Backup validation accepts current       *)
(* version 3, identified versions 1 and 2, and the existing unmarked legacy *)
(* format."  An open library has version 3, so its own backups are accepted *)
(* (validate_backup_database), whichever release created it.                *)
UpgradedLibraryIsCurrent == up = Open => ValidateBackupDatabase(lib, FALSE) = "current"

(* docs/subsystems/database.md:86: "Below version `3`, one transaction      *)
(* rebuilds every `file_name_key` with Rust Unicode lowercase and converts  *)
(* legacy delimiter-bearing tags into the same normalized tokens that CSV   *)
(* and search can represent."  So an open library holds normalized tags     *)
(* only (migrate_canonical_keys_and_tags, set_asset_tags_in_tx).            *)
UpgradedTagsAreNormalized == up = Open => \A name \in lib.tags : CanonicalTag(name)
=============================================================================

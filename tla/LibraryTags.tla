---------------------------- MODULE LibraryTags ----------------------------
(* The rows of a library database that tagging works on, and the          *)
(* transactions of db/mutations.rs over them.  A database is a record     *)
(* whose fields stand for its tables: `tags` for the names in the table   *)
(* of that name, `tagged` for asset_tags, `assets` for the asset rows by  *)
(* id.  Everything here happens inside one SQLite transaction, so it is   *)
(* an operator from databases to databases.                               *)
(*                                                                        *)
(* Text is opaque.  What conversions do to it is given by tables: SQLite's *)
(* lower() and NOCASE fold ASCII letters only, Rust's to_lowercase folds  *)
(* every letter, and a tag written by an old release may hold separators. *)
EXTENDS Naturals, Sequences, FiniteSets, SequencesExt

CONSTANTS LowerTable,       \* what SQL lower() changes
          CanonicalTable,   \* what str::to_lowercase changes
          TrimTable,        \* what trim() changes
          TokenTable        \* the pieces of a text that holds separators

Apply(table, text) == IF text \in DOMAIN table THEN table[text] ELSE text

lower(text) == Apply(LowerTable, text)
canonical_key(text) == Apply(CanonicalTable, text)
trim(text) == Apply(TrimTable, text)

(* parse_legacy_tags: the pieces between separators. *)
parse_legacy_tags(text) == IF text \in DOMAIN TokenTable THEN TokenTable[text] ELSE {text}

(* A list of tags is a set here: its order only shows on the screen. *)
normalize_tags(names) == {canonical_key(trim(name)) : name \in names} \ {""}

(* What is known of the conversions: folding is done once and for all,      *)
(* to_lowercase folds what lower() folds, neither makes or removes blanks   *)
(* at the ends, a piece has no separators left, and it does not matter      *)
(* whether a tag is split before or after it is folded.                     *)
LawsHold(text) ==
    LET canonical == canonical_key(trim(text)) IN
    /\ lower(lower(text)) = lower(text)
    /\ trim(trim(text)) = trim(text)
    /\ lower(trim(text)) = trim(lower(text))
    /\ lower(trim(text)) = "" => trim(text) = ""
    /\ lower(canonical) = canonical /\ trim(canonical) = canonical
    /\ canonical_key(canonical) = canonical
    /\ normalize_tags(parse_legacy_tags(lower(trim(text)))) = normalize_tags(parse_legacy_tags(text))
    /\ IsFiniteSet(parse_legacy_tags(text))
    /\ \A piece \in parse_legacy_tags(text) :
          parse_legacy_tags(canonical_key(trim(piece))) = {canonical_key(trim(piece))}

ASSUME TextAssumption ==
    \A text \in DOMAIN LowerTable \cup DOMAIN CanonicalTable \cup DOMAIN TrimTable
                  \cup DOMAIN TokenTable : LawsHold(text)

WellFormedTags(names) == \A name \in names : parse_legacy_tags(name) = {name}

-----------------------------------------------------------------------------
TagsOf(db, id) == {pair[2] : pair \in {p \in db.tagged : p[1] = id}}

CountOf(db, id) == Cardinality(TagsOf(db, id))

Counted(db, id) == [db.assets[id] EXCEPT !.count = CountOf(db, id)]

WithCounts(db, ids) ==
    [db EXCEPT !.assets = [id \in DOMAIN db.assets |->
        IF id \in ids THEN Counted(db, id) ELSE db.assets[id]]]

(* list_asset_tags_in_tx: the names as SQLite folds them. *)
ListAssetTags(db, id) == {lower(trim(name)) : name \in TagsOf(db, id)}

(* canonicalize_tag_rows_in_tx: the rows that fold to one name of this      *)
(* asset become one row with that name, whoever else uses them; the counts  *)
(* of the assets a merged row was taken from are repaired.                  *)
CanonicalizeTagRows(db, id) ==
    LET folded == ListAssetTags(db, id) \ {""}
        Keep(name) == IF lower(trim(name)) \in folded THEN lower(trim(name)) ELSE name
        RowsOf(n) == {name \in db.tags : lower(trim(name)) = n}
        Keeper(n) == IF n \in RowsOf(n) THEN n ELSE CHOOSE name \in RowsOf(n) : TRUE
        redundant == UNION {RowsOf(n) \ {Keeper(n)} : n \in folded}
        merged == [db EXCEPT !.tags = {Keep(name) : name \in @},
                             !.tagged = {<<pair[1], Keep(pair[2])>> : pair \in @}]
    IN  WithCounts(merged, {pair[1] : pair \in {p \in db.tagged : p[2] \in redundant}})

(* The row a tag is linked to: INSERT ... ON CONFLICT DO NOTHING keeps a    *)
(* row whose name differs only in the case of ASCII letters.                *)
RowFor(db, tag) ==
    IF \E name \in db.tags : lower(name) = lower(tag)
    THEN CHOOSE name \in db.tags : lower(name) = lower(tag)
    ELSE tag

(* The delete and the inserts of set_asset_tags_in_tx.                      *)
Link(db, id, wanted) ==
    LET rows == {RowFor(db, tag) : tag \in wanted} IN
    WithCounts([db EXCEPT !.tags = @ \cup rows,
                          !.tagged = {p \in @ : p[1] # id} \cup {<<id, row>> : row \in rows}],
               {id})

(* set_asset_tags_in_tx.  Its caller passes names without separators; it   *)
(* reports a change exactly when a row differs afterwards.                  *)
SetAssetTagsInTx(db, id, names) ==
    LET wanted == normalize_tags(names)
        repaired == WithCounts(CanonicalizeTagRows(db, id), {id})
    IN  IF ListAssetTags(db, id) = wanted THEN repaired ELSE Link(repaired, id, wanted)

(* cleanup_orphan_tags. *)
CleanupOrphanTags(db) == [db EXCEPT !.tags = {pair[2] : pair \in db.tagged}]

(* bump_library_revision_in_tx moves the revision and the one that covers   *)
(* every query with it.                                                     *)
BumpLibraryRevision(db) == [db EXCEPT !.revision = @ + 1, !.general = db.revision + 1]

(* set_asset_tags_with_revision and merge_asset_tags_bulk_with_revision.    *)
(* The scoped revisions a pure tag change bumps are ReadyIsItsSnapshot's    *)
(* concern in AssetQuery; here only the library revision is kept.           *)
Noted(before, after) ==
    IF after.tagged = before.tagged /\ after.assets = before.assets
    THEN after
    ELSE [after EXCEPT !.revision = @ + 1]

(* The assets that names lists get their tags one after the other, in the  *)
(* order of their ids.                                                      *)
SetTagsInOrder(db, names) ==
    LET after[id \in Nat] ==
            IF id = 0 THEN db
            ELSE IF id \in DOMAIN names
                 THEN SetAssetTagsInTx(after[id - 1], id, names[id])
                 ELSE after[id - 1]
    IN  after[Max(DOMAIN names \cup {0})]

Retagged(db, names) == Noted(db, CleanupOrphanTags(SetTagsInOrder(db, names)))

SetAssetTags(db, id, names) ==
    IF id \in DOMAIN db.assets /\ WellFormedTags(normalize_tags(names))
    THEN Retagged(db, [i \in {id} |-> names])
    ELSE db

MergeAssetTagsBulk(db, ids, names) ==
    LET incoming == normalize_tags(names) IN
    IF ids = {} \/ incoming = {} \/ ~WellFormedTags(incoming)
    THEN db
    ELSE Retagged(db, [i \in ids \cap DOMAIN db.assets |-> ListAssetTags(db, i) \cup incoming])
=============================================================================

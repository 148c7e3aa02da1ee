--------------------------- MODULE BundleTransfer ---------------------------
(* Moving a library between machines and back: the export and the import   *)
(* of a database bundle (services/backup_service.rs), over the library     *)
(* that LibrarySchema starts.  Export works in steps on a temporary        *)
(* archive while the database is in maintenance; files may still vanish    *)
(* and the program may die between its steps.  Import prepares everything  *)
(* in staging and then replaces the live generation; the replacement and   *)
(* its recovery are RestoreSwap's, so here it is one step.                 *)
(*                                                                         *)
(* An archive is a record: `entries`, a sequence of [name, kind, fits,     *)
(* exact] (fits: within the size and ratio limits; exact: as long as its   *)
(* header says), `manifest`, and `db`, what media.db and its sidecars hold. *)
(* A relative name is a sequence of components as well.                    *)
EXTENDS LibrarySchema

CONSTANTS Drives,       \* the first components of absolute Windows paths
          Directories,  \* the existing directories of this machine
          Links,        \* path of a symbolic link -> where it leads
          Profile,      \* the application data directory
          Targets,      \* where the user may save a bundle
          Files,        \* path -> what is there at first: media, documents, bundles
          Thumbnails,   \* the thumbnail files of the first library
          TagLists,     \* what the user types into the tag editors
          MaxEntries, MaxEdits, MaxExports, MaxImports

ASSUME FilesAssumption ==
    /\ \A path \in DOMAIN Files : Files[path].kind = "archive" => IsDatabase(Files[path].db)
    /\ \A names \in TagLists : IsFiniteSet(names)

VARIABLES thumbs,   \* the files below the live thumbnail directory
          disk,     \* path -> file, outside the profile
          export,   \* the export under way
          chosen,   \* what inspection said of the bundle the user picked
          last,     \* what the last import replaced the library with
          work      \* how many edits, exports and imports there were

bundleVars == <<thumbs, disk, export, chosen, last, work>>
vars == <<schemaVars, bundleVars>>

FORMAT_VERSION == 2
Nothing == [kind |-> "nothing"]
ThumbsDir == Append(Profile, "thumbs")

-----------------------------------------------------------------------------
(* Paths.                                                                  *)

is_windows_absolute(path) == path # << >> /\ Head(path) \in Drives
IsAbsolute(path) == path # << >> /\ Head(path) = "/"

Folded(path) == [i \in DOMAIN path |-> canonical_key(path[i])]
AsciiFolded(path) == [i \in DOMAIN path |-> lower(path[i])]

(* validate_stored_path *)
ValidStoredPath(path) ==
    /\ IsAbsolute(path) \/ is_windows_absolute(path)
    /\ \A i \in DOMAIN path : path[i] \notin {".", ".."}

path_strings_equal(left, right) == AsciiFolded(left) = AsciiFolded(right)

path_is_within_root(path, root) ==
    IF is_windows_absolute(path) \/ is_windows_absolute(root)
    THEN IsPrefix(Folded(root), Folded(path))
    ELSE IsPrefix(root, path)

Below(path, root) == SubSeq(path, Len(root) + 1, Len(path))

(* canonicalize: the links on the way are followed. *)
canonicalize(path) ==
    LET crossed == {link \in DOMAIN Links : IsPrefix(link, path)} IN
    IF crossed = {} THEN path
    ELSE LET link == CHOOSE l \in crossed : TRUE IN Links[link] \o Below(path, link)

PathExists(path) == canonicalize(path) \in Directories \cup DOMAIN disk

(* mapped_path: the first mapping whose source holds the path. *)
Unmapped == << >>
mapped_path(path, mappings) ==
    LET holds == SelectSeq(mappings, LAMBDA m : IsPrefix(AsciiFolded(m.source), AsciiFolded(path)))
    IN  IF holds = << >> THEN Unmapped
        ELSE Head(holds).target \o Below(path, Head(holds).source)

(* The longest source first, so that a nested root wins; a stable sort.    *)
SortedMappings(mappings) ==
    LET Before(i, j) == \/ Len(mappings[i].source) > Len(mappings[j].source)
                        \/ Len(mappings[i].source) = Len(mappings[j].source) /\ i < j
        Place(i) == Cardinality({j \in DOMAIN mappings : Before(j, i)}) + 1
    IN  [n \in DOMAIN mappings |-> mappings[CHOOSE i \in DOMAIN mappings : Place(i) = n]]

(* validate_root_mappings *)
ValidRootMappings(roots, mappings) ==
    LET sources == {Folded(mappings[i].source) : i \in DOMAIN mappings}
        targets == {canonicalize(mappings[i].target) : i \in DOMAIN mappings}
    IN  IF mappings = << >> THEN \A root \in roots : ~is_windows_absolute(root)
        ELSE /\ sources \subseteq {Folded(root) : root \in roots}
             /\ Cardinality(sources) = Len(mappings)
             /\ targets \subseteq Directories
             /\ \A i \in DOMAIN mappings : IsAbsolute(mappings[i].target)
             /\ Cardinality(targets) = Len(mappings)
             /\ Len(mappings) = Cardinality(roots)

(* validate_existing_path_within_root: what exists must be a file, and no  *)
(* link may lead it out of the root.                                       *)
ExistingWithinRoot(path, root) ==
    PathExists(root) =>
        /\ canonicalize(path) \notin Directories
        /\ \A link \in DOMAIN Links :
              IsPrefix(link, path) /\ IsPrefix(root, link)
                  => IsPrefix(canonicalize(root), canonicalize(link))
        /\ PathExists(path) => IsPrefix(canonicalize(root), canonicalize(path))

(* stored_relative_path: below the root, in lower case. *)
stored_relative_path(path, root) ==
    IF path_is_within_root(path, root) THEN Folded(Below(path, root)) ELSE Unmapped

-----------------------------------------------------------------------------
(* Archives.                                                               *)

Manifest == <<"manifest.json">>
Database == <<"media.db">>
Sidecars == {<<"media.db-wal">>, <<"media.db-shm">>}

(* sanitize_zip_entry_path *)
SafeName(name) == ~IsAbsolute(name) /\ \A i \in DOMAIN name : name[i] # ".."

Recognized(name) ==
    name \in {Manifest, Database} \cup Sidecars \/ (Len(name) > 1 /\ Head(name) = "thumbs")

(* The entries that are extracted: files with a name the importer knows. *)
Payload(entries) == SelectSeq(entries, LAMBDA e : e.kind # "directory" /\ Recognized(e.name))

ThumbsOf(archive) ==
    {Tail(archive.entries[i].name) :
        i \in {j \in DOMAIN archive.entries :
                  Len(archive.entries[j].name) > 1 /\ Recognized(archive.entries[j].name)}}

NoManifest == [format |-> 0]
HasManifest(archive) == archive.manifest # NoManifest
FormatOf(archive) == archive.manifest.format

(* validate_manifest *)
ValidManifest(manifest) ==
    /\ \/ manifest.format = 1 /\ manifest.app = "none" /\ manifest.schema = NoRow
       \/ manifest.format = FORMAT_VERSION /\ manifest.app = "tagrove"
            /\ manifest.schema \in 1..SCHEMA_VERSION
    /\ manifest.platform \in {"windows", "linux", "macos"}
    /\ IsInjective(manifest.roots)
    /\ \A i \in DOMAIN manifest.roots : ValidStoredPath(manifest.roots[i])
    /\ ValidStoredPath(manifest.thumbs_dir)

(* validate_archive_with_limits, for the exporter and the importer alike. *)
ValidArchive(archive) ==
    LET payload == Payload(archive.entries) IN
    /\ Len(archive.entries) <= MaxEntries
    /\ \A i \in DOMAIN archive.entries :
          SafeName(archive.entries[i].name) /\ archive.entries[i].fits
    /\ \A i \in DOMAIN archive.entries : archive.entries[i].kind # "link"
    /\ IsInjective([i \in DOMAIN payload |-> Folded(payload[i].name)])
    /\ HasManifest(archive) => ValidManifest(archive.manifest)
    /\ \E i \in DOMAIN payload : payload[i].name = Database

(* validate_manifest_database *)
ManifestFits(manifest, db) ==
    /\ manifest.schema = NoRow \/ manifest.schema = db.user
    /\ ToSet(manifest.roots) = DOMAIN db.roots

AllowsLegacy(archive) == ~HasManifest(archive) \/ FormatOf(archive) = 1

(* Extraction writes exactly the bytes the directory promised; then the    *)
(* header, the database and its manifest are looked at.                    *)
Extracts(archive, names) ==
    \A i \in DOMAIN archive.entries :
        archive.entries[i].name \in names => archive.entries[i].exact

AcceptedSource(archive) ==
    /\ ValidArchive(archive)
    /\ Extracts(archive, {Database} \cup Sidecars)
    /\ ValidateBackupDatabase(archive.db, AllowsLegacy(archive)) # "refused"
    /\ HasManifest(archive) => ManifestFits(archive.manifest, archive.db)

-----------------------------------------------------------------------------
(* rewrite_staged_paths.                                                   *)

NoThumb == << >>
Unresolved == <<"unresolved">>

\* Mutant of resolve_imported_thumbnail: the bundle is not looked into.
TrustTheReference(old_thumb, archive) ==
    IF HasManifest(archive)
    THEN ThumbsDir \o stored_relative_path(old_thumb, archive.manifest.thumbs_dir)
    ELSE NoThumb

(* resolve_imported_thumbnail: a bundle of this format names its thumbnails *)
(* exactly; an older one by a base name that must be unique.                *)
resolve_imported_thumbnail(old_thumb, archive) ==
    LET staged == ThumbsOf(archive)
        exact == {t \in staged :
                    Folded(t) = stored_relative_path(old_thumb, archive.manifest.thumbs_dir)}
        named == {t \in staged : Last(t) = Last(old_thumb)}
    IN  IF HasManifest(archive) /\ FormatOf(archive) >= FORMAT_VERSION
        THEN IF exact = {} THEN Unresolved ELSE ThumbsDir \o (CHOOSE t \in exact : TRUE)
        ELSE IF Cardinality(named) # 1 THEN NoThumb ELSE ThumbsDir \o (CHOOSE t \in named : TRUE)

(* The roots an asset is assigned to and really lies in. *)
AssignedRoots(db, id) ==
    {root \in DOMAIN db.roots :
        <<id, root>> \in db.members /\ path_is_within_root(db.assets[id].path, root)}

TargetsOf(root, mappings) ==
    IF mappings = << >> THEN {root}
    ELSE {mappings[i].target : i \in {j \in DOMAIN mappings :
                                        path_strings_equal(mappings[j].source, root)}}

(* The row rewritten_assets gets for one asset. *)
Rewritten(db, id, archive, mappings) ==
    LET row == db.assets[id] IN
    [path |-> IF mappings = << >> THEN row.path ELSE mapped_path(row.path, mappings),
     thumb |-> IF row.thumb = NoThumb THEN NoThumb
               ELSE resolve_imported_thumbnail(row.thumb, archive),
     roots |-> UNION {TargetsOf(root, mappings) : root \in AssignedRoots(db, id)}]

RewriteAccepts(row, next, targetless) ==
    /\ ValidStoredPath(row.path)
    /\ next.roots # {} /\ ~targetless
    /\ next.path # Unmapped /\ ValidStoredPath(next.path)
    /\ \A root \in next.roots :
          path_is_within_root(next.path, root) /\ ExistingWithinRoot(next.path, root)
    /\ next.thumb # Unresolved

\* Mutant of NoCollision: the stored paths alone are compared.
DistinctPaths(next) == \A i, j \in DOMAIN next : i # j => next[i].path # next[j].path

(* The unique keys of rewritten_assets: the path, and the file behind it.  *)
NoCollision(next) ==
    \A i, j \in DOMAIN next : i # j =>
        /\ next[i].path # next[j].path
        /\ PathExists(next[i].path) /\ PathExists(next[j].path)
              => canonicalize(next[i].path) # canonicalize(next[j].path)

(* The rows are updated one after the other and assets.path is unique at   *)
(* every moment: a path still held by a later row is refused.              *)
UpdatesInOrder(db, next) ==
    \A i, j \in DOMAIN next : i < j => next[i].path # db.assets[j].path

InstallPaths(db, next, mappings) ==
    LET target(root) == CHOOSE i \in DOMAIN mappings : mappings[i].target = root
        enabled(m) == m.source \in DOMAIN db.roots /\ db.roots[m.source]
    IN  [db EXCEPT
            !.assets = [id \in DOMAIN @ |->
                [@[id] EXCEPT !.path = next[id].path, !.name = Last(next[id].path),
                              !.key = canonical_key(Last(next[id].path)), !.thumb = next[id].thumb]],
            !.roots = IF mappings = << >> THEN @
                      ELSE [root \in {mappings[i].target : i \in DOMAIN mappings} |->
                                enabled(mappings[target(root)])],
            !.members = IF mappings = << >> THEN @
                        ELSE UNION {{<<id, root>> : root \in next[id].roots} : id \in DOMAIN next},
            !.failures = << >>]

Failed == [ok |-> FALSE]

RewriteStagedPaths(db, archive, mappings) ==
    LET sorted == SortedMappings(mappings)
        next == [id \in DOMAIN db.assets |-> Rewritten(db, id, archive, sorted)]
        Targetless(id) == \E root \in AssignedRoots(db, id) : TargetsOf(root, sorted) = {}
    IN  IF /\ \A root \in DOMAIN db.roots :
                  ValidStoredPath(root) /\ canonicalize(root) \notin DOMAIN disk
           /\ ValidRootMappings(DOMAIN db.roots, sorted)
           /\ \A id \in DOMAIN next : RewriteAccepts(db.assets[id], next[id], Targetless(id))
           /\ NoCollision(next)
           /\ UpdatesInOrder(db, next)
        THEN [ok |-> TRUE, db |-> InstallPaths(db, next, sorted)]
        ELSE Failed

(* import_db_bundle up to the replacement: check, extract, migrate,         *)
(* rewrite, and check what came out as a library of this release.           *)
Staged(archive, mappings) ==
    LET all == {archive.entries[i].name : i \in DOMAIN archive.entries}
        Checked(result) ==
            IF result.ok /\ ValidateBackupDatabase(result.db, FALSE) = "current"
            THEN result ELSE Failed
    IN  IF AcceptedSource(archive) /\ Extracts(archive, {n \in all : Recognized(n)})
        THEN Checked(RewriteStagedPaths(InitSchema(archive.db), archive, mappings))
        ELSE Failed

-----------------------------------------------------------------------------
(* Export.                                                                 *)

Idle == [step |-> "idle"]

PlaceOf(target) == Append(canonicalize(Front(target)), Last(target))

(* validate_export_target: outside the profile and every indexed root, and *)
(* not an indexed file, wherever a link may lead.                          *)
ValidExportTarget(place, db) ==
    /\ ~IsPrefix(Profile, place)
    /\ \A root \in DOMAIN db.roots : PathExists(root) => ~IsPrefix(canonicalize(root), place)
    /\ \A id \in DOMAIN db.assets :
          PathExists(db.assets[id].path) => place # canonicalize(db.assets[id].path)

Entry(name) == [name |-> name, kind |-> "file", fits |-> TRUE, exact |-> TRUE]

\* Mutant of Archive: the manifest names the profile for its thumbnails.
ArchiveNamingTheProfile(db, files) ==
    [kind |-> "archive",
     manifest |-> [format |-> FORMAT_VERSION, app |-> "tagrove", schema |-> SCHEMA_VERSION,
                   platform |-> "linux", roots |-> SetToSeq(DOMAIN db.roots),
                   thumbs_dir |-> Profile],
     entries |-> <<Entry(Manifest), Entry(Database)>>
                    \o SetToSeq({Entry(<<"thumbs">> \o file) : file \in files}),
     db |-> db]

(* What add_file_to_zip writes: the manifest, the snapshot, and every file *)
(* below the thumbnail directory.                                          *)
Archive(db, files) ==
    [kind |-> "archive",
     manifest |-> [format |-> FORMAT_VERSION, app |-> "tagrove", schema |-> SCHEMA_VERSION,
                   platform |-> "linux", roots |-> SetToSeq(DOMAIN db.roots),
                   thumbs_dir |-> ThumbsDir],
     entries |-> <<Entry(Manifest), Entry(Database)>>
                    \o SetToSeq({Entry(<<"thumbs">> \o file) : file \in files}),
     db |-> db]

(* The database is the exporter's: it runs in maintenance. *)
Free == up = Open /\ export = Idle

ExportSnapshot ==
    /\ Free /\ work.exports < MaxExports
    /\ ~lib.pending
    /\ \E target \in Targets :
          /\ ValidExportTarget(PlaceOf(target), lib)
          /\ export' = [step |-> "snapshot", target |-> PlaceOf(target), db |-> lib]
    /\ work' = [work EXCEPT !.exports = @ + 1]
    /\ UNCHANGED <<schemaVars, thumbs, disk, chosen, last>>

\* Mutant of WriteArchive: it writes to the chosen file at once.
WriteInPlace ==
    /\ export.step = "snapshot"
    /\ disk' = [path \in DOMAIN disk \cup {export.target} |->
                    IF path = export.target
                    THEN [Archive(export.db, thumbs) EXCEPT !.entries = <<Entry(Manifest)>>]
                    ELSE disk[path]]
    /\ export' = [step |-> "written", target |-> export.target,
                  archive |-> Archive(export.db, thumbs)]
    /\ UNCHANGED <<schemaVars, thumbs, chosen, last, work>>

WriteArchive ==
    /\ export.step = "snapshot"
    /\ export' = [step |-> "written", target |-> export.target,
                  archive |-> Archive(export.db, thumbs)]
    /\ UNCHANGED <<schemaVars, thumbs, disk, chosen, last, work>>

(* publish_archive, after the importer's own check of the finished file.   *)
PublishArchive ==
    /\ export.step = "written"
    /\ ValidArchive(export.archive)
    /\ disk' = [path \in DOMAIN disk \cup {export.target} |->
                    IF path = export.target THEN export.archive ELSE disk[path]]
    /\ export' = Idle
    /\ UNCHANGED <<schemaVars, thumbs, chosen, last, work>>

(* A full disk, a thumbnail that vanished while it was copied, a limit: the *)
(* snapshot and the temporary archive are removed.                          *)
AbandonExport ==
    /\ export # Idle
    /\ export' = Idle
    /\ UNCHANGED <<schemaVars, thumbs, disk, chosen, last, work>>

-----------------------------------------------------------------------------
(* Import, as the settings page drives it: a picked bundle is inspected,   *)
(* and a directory is asked for each root when the inspection says so.     *)

(* inspect_db_bundle *)
InspectBundle(path) ==
    /\ Free /\ chosen = Nothing /\ work.imports < MaxImports
    /\ path \in DOMAIN disk /\ disk[path].kind = "archive"
    /\ AcceptedSource(disk[path])
    /\ LET roots == DOMAIN disk[path].db.roots IN
       chosen' = [kind |-> "inspected", path |-> path, roots |-> roots,
                  requires_mapping |-> \E root \in roots : is_windows_absolute(root)]
    /\ UNCHANGED <<schemaVars, thumbs, disk, export, last, work>>

OfferedMappings ==
    IF ~chosen.requires_mapping THEN {<< >>}
    ELSE LET sources == SetToSeq(chosen.roots) IN
         {[i \in DOMAIN sources |-> [source |-> sources[i], target |-> chosenTo[i]]] :
             chosenTo \in [DOMAIN sources -> Directories \cup DOMAIN Links]}

(* import_db_bundle: a refusal leaves the live library alone, success       *)
(* replaces the database and the thumbnails, initialises, checks and bumps. *)
ImportBundle(mappings) ==
    /\ Free /\ chosen # Nothing
    /\ ~IsPrefix(Profile, canonicalize(chosen.path))
    /\ LET archive == disk[chosen.path] IN
       \E staged \in {Staged(archive, mappings)} :
           /\ lib' = IF staged.ok THEN BumpLibraryRevision(InitSchema(staged.db)) ELSE lib
           /\ thumbs' = IF staged.ok THEN ThumbsOf(archive) ELSE thumbs
           /\ last' = IF staged.ok THEN [path |-> chosen.path, mappings |-> mappings] ELSE Nothing
    /\ chosen' = Nothing
    /\ work' = [work EXCEPT !.imports = @ + 1]
    /\ UNCHANGED <<up, perf, interrupts, disk, export>>

CancelImport ==
    /\ chosen # Nothing
    /\ chosen' = Nothing
    /\ UNCHANGED <<schemaVars, thumbs, disk, export, last, work>>

-----------------------------------------------------------------------------
(* The rest of the program and of the world.                               *)

EditTags(names) ==
    /\ Free /\ work.edits < MaxEdits
    /\ \/ \E id \in DOMAIN lib.assets : lib' = SetAssetTags(lib, id, names)
       \/ lib' = MergeAssetTagsBulk(lib, DOMAIN lib.assets, names)
    /\ work' = [work EXCEPT !.edits = @ + 1]
    /\ UNCHANGED <<up, perf, interrupts, thumbs, disk, export, chosen, last>>

(* Another program removes a thumbnail file, or a cleaner the cache.       *)
LoseThumbnail ==
    /\ work.edits < MaxEdits
    /\ \E file \in thumbs : thumbs' = thumbs \ {file}
    /\ work' = [work EXCEPT !.edits = @ + 1]
    /\ UNCHANGED <<schemaVars, disk, export, chosen, last>>

DieOrQuit ==
    /\ Interrupt
    /\ export' = Idle /\ chosen' = Nothing /\ last' = Nothing
    /\ UNCHANGED <<thumbs, disk, work>>

Init ==
    /\ SchemaInit
    /\ thumbs = Thumbnails
    /\ disk = Files
    /\ export = Idle
    /\ chosen = Nothing
    /\ last = Nothing
    /\ work = [edits |-> 0, exports |-> 0, imports |-> 0]

Next ==
    \/ /\ Start \/ RunStatement
       /\ UNCHANGED bundleVars
    \/ DieOrQuit
    \/ ExportSnapshot \/ WriteArchive \/ PublishArchive \/ AbandonExport
    \/ \E path \in DOMAIN disk : InspectBundle(path)
    \/ chosen # Nothing /\ \E mappings \in OfferedMappings : ImportBundle(mappings)
    \/ CancelImport
    \/ \E names \in TagLists : EditTags(names)
    \/ LoseThumbnail

Spec == Init /\ [][Next]_vars

-----------------------------------------------------------------------------
(* What is found at a path was there before or is a complete bundle the     *)
(* importer's own check accepts, with the manifest of the database inside:  *)
(* whatever fails or dies in the middle of an export, and wherever the user *)
(* points it, it leaves no torn archive and destroys no indexed file        *)
(* (export_db_bundle, validate_export_target).                              *)
PublishedArchiveIsWhole ==
    \A path \in DOMAIN disk :
        \/ path \in DOMAIN Files /\ disk[path] = Files[path]
        \/ /\ disk[path].kind = "archive"
           /\ ValidArchive(disk[path])
           /\ ManifestFits(disk[path].manifest, disk[path].db)
           /\ \A id \in DOMAIN disk[path].db.assets :
                 canonicalize(disk[path].db.assets[id].path) = path => path \notin DOMAIN Files

Imported == work'.imports > work.imports /\ last' # Nothing

(* A successful import leaves what the archived library held: the same      *)
(* assets with the same groups and tags, each in a root it is assigned to,  *)
(* no two at one path, or at one file that is there; and a database the     *)
(* next export and import accept (import_db_bundle, rewrite_staged_paths).  *)
SameContents(old, new) ==
    /\ DOMAIN new.assets = DOMAIN old.assets
    /\ \A id \in DOMAIN new.assets :
          LET row == new.assets[id] IN
          /\ \E root \in DOMAIN new.roots :
                <<id, root>> \in new.members /\ path_is_within_root(row.path, root)
          /\ Content(new).assets[id].tags = Content(old).assets[id].tags
          /\ row.group = old.assets[id].group
          /\ row.thumb # NoThumb => old.assets[id].thumb # NoThumb

DistinctFiles(new) ==
    \A i, j \in DOMAIN new.assets : i # j =>
        /\ new.assets[i].path # new.assets[j].path
        /\ PathExists(new.assets[i].path) /\ PathExists(new.assets[j].path)
              => canonicalize(new.assets[i].path) # canonicalize(new.assets[j].path)

ImportKeepsTheContents ==
    [][Imported =>
          /\ SameContents(disk[last'.path].db, lib')
          /\ DistinctFiles(lib')
          /\ ValidateBackupDatabase(lib', FALSE) = "current"]_vars

(* A successful import brings every asset to the same place below the       *)
(* directory its root was mapped to, keeps the roots with their startup     *)
(* preference, names no thumbnail that was not in the bundle, and leads no  *)
(* two assets to one place (import_db_bundle, rewrite_staged_paths).        *)
Relocated(db, id, path, mappings) ==
    \E root \in DOMAIN db.roots :
        /\ path_is_within_root(db.assets[id].path, root)
        /\ \E target \in TargetsOf(root, mappings) :
              path = target \o Below(db.assets[id].path, root)

SamePlaces(old, new, mappings, files) ==
    /\ \A id \in DOMAIN new.assets :
          LET row == new.assets[id] IN
          /\ Relocated(old, id, row.path, mappings)
          /\ row.thumb # NoThumb => Below(row.thumb, ThumbsDir) \in files
    /\ IsInjective([id \in DOMAIN new.assets |-> canonicalize(new.assets[id].path)])
    /\ \A root \in DOMAIN old.roots :
          \E target \in TargetsOf(root, mappings) : new.roots[target] = old.roots[root]
    /\ Cardinality(DOMAIN new.roots) = Cardinality(DOMAIN old.roots)

ImportKeepsThePlaces ==
    [][Imported => SamePlaces(disk[last'.path].db, lib', last'.mappings, thumbs')]_vars

(* A bundle this program exported restores here again, without mappings,    *)
(* when the library was complete: its assets inside their roots and their   *)
(* thumbnails present, its columns as a new library has them, its tags      *)
(* normalized.  So every check of the importer accepts what the exporter    *)
(* wrote, whatever happened to the library between its upgrade and the      *)
(* export (export_db_bundle, import_db_bundle).                             *)
Complete(db) ==
    /\ "file_name_not_null" \in db.shape
    /\ \A name \in db.tags : CanonicalTag(name)
    /\ \A id \in DOMAIN db.failures : db.failures[id] >= 1
    /\ \A root \in DOMAIN db.roots : ~is_windows_absolute(root)
    /\ \A id \in DOMAIN db.assets :
          AssignedRoots(db, id) # {} /\ canonicalize(db.assets[id].path) = db.assets[id].path

ThumbnailsPresent(archive) ==
    \A id \in DOMAIN archive.db.assets :
        LET thumb == archive.db.assets[id].thumb IN
        thumb # NoThumb => Below(thumb, ThumbsDir) \in ThumbsOf(archive)

ToPublish == export.step = "written" /\ ValidArchive(export.archive)

CompleteExportsRestore ==
    ToPublish /\ Complete(export.archive.db) /\ ThumbnailsPresent(export.archive)
        => Staged(export.archive, << >>).ok

(* docs/subsystems/data-safety-and-portability.md:133 on thumbnails: "Every *)
(* accepted reference is rewritten below live thumbs, while missing or      *)
(* ambiguous references become null."  So a bundle may lack a thumbnail     *)
(* one of its rows names (resolve_imported_thumbnail).                      *)
MissingThumbnailsBecomeNull ==
    ToPublish /\ Complete(export.archive.db) => Staged(export.archive, << >>).ok
=============================================================================

------------------------------ MODULE AssetQuery ------------------------------
(***************************************************************************)
(* Asset queries (services/asset_query_service.rs) over the library they   *)
(* read and the revision markers every writer maintains                    *)
(* (db/query_revisions.rs, db/mutations.rs): starts registered in arrival  *)
(* order, pages of a session read later, the session cache, and the bundle *)
(* maintenance that clears it and may replace the library.                 *)
(*                                                                         *)
(* A read transaction is a snapshot: what the request will find in it is   *)
(* fixed when it is opened.  Positions are looked up in the steps of pages.*)
(***************************************************************************)
EXTENDS Integers, Sequences, FiniteSets, FiniteSetsExt, SequencesExt

CONSTANTS Starts,         \* the start_asset_query calls
          Pages,          \* the get_asset_query_page calls
          Assets, Tags, Groups,
          TagSets,        \* the sets of tags a user enters
          Filters,        \* the filters starts ask for
          Libraries,      \* the libraries the system begins with or restores
          MaxSessions,    \* MAX_SESSIONS
          MaxIds,         \* MAX_RETAINED_ID_BYTES, counted in ids
          MaxRevision,    \* bound on the library revision
          MaxEpoch        \* bound on how often the cache is cleared

Requests == Starts \cup Pages

\* A present asset; the library maps the present assets to their rows.
Row == [tags : SUBSET Tags, favorite : BOOLEAN, group : Groups]
Library == UNION {[present -> Row] : present \in SUBSET Assets}

\* tagCount and group hold the meta filter, if the query has that one.
Filter == [tagsAnd : SUBSET Tags, tagsNot : SUBSET Tags, favoritesOnly : BOOLEAN,
           tagCount : SUBSET Nat, group : SUBSET Groups]

FixedMarkers == {"general", "favorites", "tag_count"}
Markers == FixedMarkers \cup Tags

ASSUME BoundsAssumption ==
    MaxSessions \in Nat \ {0} /\ MaxIds \in Nat /\ MaxRevision \in Nat \ {0}
ASSUME RequestsAssumption == Starts \cap Pages = {}
ASSUME AssetsAssumption == IsFiniteSet(Assets)
ASSUME TagsAssumption == Tags \cap FixedMarkers = {}
ASSUME TagSetsAssumption == TagSets \subseteq SUBSET Tags
ASSUME FiltersAssumption == Filters \subseteq Filter
ASSUME LibrariesAssumption == Libraries \subseteq Library

VARIABLES
    library,   \* the committed rows
    revision,  \* library_metadata.revision
    marker,    \* the query_revision: rows, zero when there is none
    gate,      \* admission: "open", "closing", "owned" or "restored"
    latest,    \* AssetQueryManager.latest_request
    epoch,     \* QueryCache.epoch
    sessions,  \* QueryCache.sessions, the most recently used first
    nextId,    \* AssetQueryManager.next_session_id
    phase,     \* phase[r]: how far request r is, or what it answered
    call       \* call[r]: the arguments and the local state of request r

db == <<library, revision, marker>>
cache == <<epoch, sessions>>
vars == <<library, revision, marker, gate, latest, epoch, sessions, nextId,
          phase, call>>

-----------------------------------------------------------------------------
(* What a query reads *)

Matches(f, row) ==
    /\ f.tagsAnd \subseteq row.tags
    /\ f.tagsNot \cap row.tags = {}
    /\ f.favoritesOnly => row.favorite
    /\ \A n \in f.tagCount : Cardinality(row.tags) = n
    /\ \A g \in f.group : row.group = g

\* The matching ids with the column their order depends on.
OrderedIds(f, lib) ==
    {<<a, lib[a].group>> : a \in {b \in DOMAIN lib : Matches(f, lib[b])}}

\* Mutant of Dependencies: an exact tag count is not a dependency.
CountIsNoDependency(f) ==
    {"general"} \cup (IF f.favoritesOnly THEN {"favorites"} ELSE {})
                \cup f.tagsAnd \cup f.tagsNot

Dependencies(f) ==
    {"general"} \cup (IF f.favoritesOnly THEN {"favorites"} ELSE {})
                \cup (IF f.tagCount # {} THEN {"tag_count"} ELSE {})
                \cup f.tagsAnd \cup f.tagsNot

\* Mutant of DependencyRevision: every write makes every session stale.
GlobalRevision(f) == revision

DependencyRevision(f) == Max({marker[k] : k \in Dependencies(f)})

\* The read transaction of a request for filter f, as opened now.
Snapshot(f) == [dependency |-> DependencyRevision(f), ids |-> OrderedIds(f, library)]

NoSnapshot == [dependency |-> 0, ids |-> {}]
NoFilter == [tagsAnd |-> {}, tagsNot |-> {}, favoritesOnly |-> FALSE,
             tagCount |-> {}, group |-> {}]

NoCall == [filter |-> NoFilter, token |-> 0, epoch |-> 0, session |-> 0,
           ids |-> {}, snap |-> NoSnapshot]

Init ==
    /\ library \in Libraries
    /\ revision = 1
    /\ marker = [k \in Markers |-> IF k \in FixedMarkers THEN 1 ELSE 0]
    /\ gate = "open"
    /\ latest = 0
    /\ epoch = 0
    /\ sessions = <<>>
    /\ nextId = 1
    /\ phase = [r \in Requests |-> "new"]
    /\ call = [r \in Requests |-> NoCall]

-----------------------------------------------------------------------------
(* The writers: one transaction commits the rows and the markers together *)

\* Mutant of BumpScoped: the markers run ahead of the global revision.
BumpMarkersOnly(names) ==
    /\ revision < MaxRevision
    /\ revision' = revision
    /\ marker' = [k \in Markers |-> IF k \in names THEN revision + 1 ELSE marker[k]]

BumpScoped(names) ==
    /\ revision < MaxRevision
    /\ revision' = revision + 1
    /\ marker' = [k \in Markers |-> IF k \in names THEN revision + 1 ELSE marker[k]]

\* A writer is an admitted command, so nobody writes once the gate is owned.
Write(newLibrary, names) ==
    /\ gate \in {"open", "closing"}
    /\ library' = newLibrary
    /\ BumpScoped(names)
    /\ UNCHANGED <<gate, latest, cache, nextId, phase, call>>

\* Mutant of TagImpact: a tag that was removed is not reported as changed.
OnlyAddedTags(a, tags) ==
    (tags \ library[a].tags)
        \cup IF Cardinality(tags) # Cardinality(library[a].tags)
             THEN {"tag_count"} ELSE {}

\* The markers set_asset_tags_in_tx reports for a replacement of a's tags.
TagImpact(a, tags) ==
    SymDiff(tags, library[a].tags)
        \cup IF Cardinality(tags) # Cardinality(library[a].tags)
             THEN {"tag_count"} ELSE {}

\* Replacing a's tags by equal ones changes nothing and bumps nothing.
SetAssetTags(a, tags) ==
    /\ a \in DOMAIN library
    /\ tags # library[a].tags
    /\ Write([library EXCEPT ![a].tags = tags], TagImpact(a, tags))

MergeAssetTags(as, incoming) ==
    LET merged(a) == library[a].tags \cup incoming
        changed == {a \in as \cap DOMAIN library : merged(a) # library[a].tags}
    IN  /\ changed # {}
        /\ Write([a \in DOMAIN library |->
                     IF a \in changed THEN [library[a] EXCEPT !.tags = merged(a)]
                     ELSE library[a]],
                 UNION {TagImpact(a, merged(a)) : a \in changed})

\* Setting the flag an asset has, or an asset that is gone, only advances the
\* global revision.
SetFavorite(a, favorite) ==
    IF a \in DOMAIN library /\ library[a].favorite # favorite
    THEN Write([library EXCEPT ![a].favorite = favorite], {"favorites"})
    ELSE Write(library, {})

ToggleFavorites(as) ==
    LET found == as \cap DOMAIN library
        favorite == \E a \in found : ~library[a].favorite
    IN  /\ found # {}
        /\ Write([a \in DOMAIN library |->
                     IF a \in found THEN [library[a] EXCEPT !.favorite = favorite]
                     ELSE library[a]],
                 {"favorites"})

\* Mutant of SetMediaGroup: a new group is taken for metadata only.
RegroupWithoutMarker(a, group) ==
    Write([b \in DOMAIN library |->
              IF b = a THEN [library[b] EXCEPT !.group = group] ELSE library[b]], {})

SetMediaGroup(a, group) ==
    Write([b \in DOMAIN library |->
              IF b = a THEN [library[b] EXCEPT !.group = group] ELSE library[b]],
          {"general"})

\* Scan batches, pruning, batch renames and deletes, root removal, CSV import
\* and clearing the library change what they change under the general marker.
RewriteRows(newLibrary) ==
    /\ newLibrary # library
    /\ Write(newLibrary, {"general"})

-----------------------------------------------------------------------------
(* The session cache *)

\* The ids all sessions retain together.
IdCount(cs) == Cardinality(UNION {{i} \X cs[i].ids : i \in DOMAIN cs})

\* The sessions that did not expire: the cache is in order of last access.
Pruned == {SubSeq(sessions, 1, n) : n \in 0 .. Len(sessions)}

\* Positions in the cache.  No two sessions share an id or a key.
Named(cs, id) == {i \in DOMAIN cs : cs[i].id = id}
Keyed(cs, f, dependency) ==
    {i \in DOMAIN cs : cs[i].filter = f /\ cs[i].dependency = dependency}

Promoted(cs, i) == <<cs[i]>> \o RemoveAt(cs, i)
Without(cs, positions) ==
    IF positions = {} THEN {cs} ELSE {RemoveAt(cs, i) : i \in positions}

\* Mutant of Fitting: the ids the sessions retain are not counted.
FittingByNumber(cs) == {SubSeq(cs, 1, Min({Len(cs), MaxSessions}))}

\* The longest prefix that is within both bounds of the cache.
Fitting(cs) ==
    LET fits(n) == n <= MaxSessions /\ IdCount(SubSeq(cs, 1, n)) <= MaxIds
        longest == {n \in 0 .. Len(cs) : fits(n) /\ \A m \in n + 1 .. Len(cs) : ~fits(m)}
    IN  {SubSeq(cs, 1, n) : n \in longest}

\* Mutant of Cleared: only the epoch changes.
SessionsSurviveClear ==
    /\ latest' = latest + 1
    /\ epoch' = epoch + 1
    /\ UNCHANGED sessions

Cleared ==
    /\ latest' = latest + 1
    /\ epoch' = epoch + 1
    /\ sessions' = <<>>

-----------------------------------------------------------------------------
(* The requests *)

Latest(s) == latest = call[s].token

Goto(r, to) == phase' = [phase EXCEPT ![r] = to]

\* A request that ends without rows keeps only its place in the order of arrival.
End(r, answer) ==
    /\ Goto(r, answer)
    /\ call' = [call EXCEPT ![r] = [NoCall EXCEPT !.token = call[r].token]]

\* begin_request runs in the command, before its blocking work is scheduled.
BeginRequest(s, f) ==
    /\ phase[s] = "new"
    /\ latest' = latest + 1
    /\ call' = [call EXCEPT ![s].filter = f, ![s].token = latest + 1]
    /\ Goto(s, "queued")
    /\ UNCHANGED <<db, gate, cache, nextId>>

\* The view asks for a page of a session a start gave it.
AskPage(p, s) ==
    /\ phase[p] = "new"
    /\ phase[s] = "ready"
    /\ call' = [call EXCEPT ![p].filter = call[s].filter,
                            ![p].session = call[s].session]
    /\ Goto(p, "queued")
    /\ UNCHANGED <<db, gate, latest, cache, nextId>>

\* The cache is cleared only while nobody is admitted, so the epoch is read
\* with the admission.
Admit(r) ==
    /\ phase[r] = "queued"
    /\ gate = "open"
    /\ call' = [call EXCEPT ![r].epoch = epoch]
    /\ Goto(r, "admitted")
    /\ UNCHANGED <<db, gate, latest, cache, nextId>>

\* No connection is free in time, or SQLite reports an error.
Fail(r) ==
    /\ phase[r] = "admitted"
    /\ End(r, IF r \in Starts /\ ~Latest(r) THEN "superseded" ELSE "failed")
    /\ UNCHANGED <<db, gate, latest, cache, nextId>>

OpenSnapshot(r) ==
    /\ phase[r] = "admitted"
    /\ call' = [call EXCEPT ![r].snap = Snapshot(call[r].filter)]
    /\ Goto(r, "snapshot")
    /\ UNCHANGED <<db, gate, latest, cache, nextId>>

\* Supersession is looked at before the cache and when the ids are built; an
\* obsolete build is also interrupted at any time.
Supersede(s) ==
    /\ phase[s] \in {"snapshot", "building"}
    /\ ~Latest(s)
    /\ End(s, "superseded")
    /\ UNCHANGED <<db, gate, latest, cache, nextId>>

Proceed(s) ==
    /\ s \in Starts
    /\ phase[s] = "snapshot"
    /\ Latest(s)
    /\ Goto(s, "looking")
    /\ UNCHANGED <<db, gate, latest, cache, nextId, call>>

\* Mutant of LookUp: a session of the same filters is reused at any revision.
LookUpByFilters(s) ==
    /\ phase[s] = "looking"
    /\ \E kept \in Pruned :
           LET f == call[s].filter
               hits == {i \in DOMAIN kept : kept[i].filter = f}
           IN  \/ \E i \in hits :
                      /\ sessions' = Promoted(kept, i)
                      /\ call' = [call EXCEPT ![s].ids = kept[i].ids,
                                              ![s].session = kept[i].id]
                      /\ Goto(s, "answering")
               \/ /\ hits = {}
                  /\ sessions' = kept
                  /\ Goto(s, "building")
                  /\ UNCHANGED call
    /\ UNCHANGED <<db, gate, latest, epoch, nextId>>

LookUp(s) ==
    /\ phase[s] = "looking"
    /\ \E kept \in Pruned :
           LET hits == Keyed(kept, call[s].filter, call[s].snap.dependency)
           IN  \/ \E i \in hits :
                      /\ sessions' = Promoted(kept, i)
                      /\ call' = [call EXCEPT ![s].ids = kept[i].ids,
                                              ![s].session = kept[i].id]
                      /\ Goto(s, "answering")
               \/ /\ hits = {}
                  /\ sessions' = kept
                  /\ Goto(s, "building")
                  /\ UNCHANGED call
    /\ UNCHANGED <<db, gate, latest, epoch, nextId>>

Build(s) ==
    /\ phase[s] = "building"
    /\ Latest(s)
    /\ call' = [call EXCEPT ![s].ids = call[s].snap.ids, ![s].session = nextId]
    /\ nextId' = nextId + 1
    /\ Goto(s, "inserting")
    /\ UNCHANGED <<db, gate, latest, cache>>

Refused(s) ==
    epoch # call[s].epoch \/ ~Latest(s) \/ Cardinality(call[s].ids) > MaxIds

\* insert_session, under the mutex of the cache.
InsertSession(s) ==
    /\ phase[s] = "inserting"
    /\ ~Refused(s)
    /\ \E kept \in Pruned :
           LET new == [id |-> call[s].session, filter |-> call[s].filter,
                       dependency |-> call[s].snap.dependency, ids |-> call[s].ids]
           IN  \E others \in Without(kept, Keyed(kept, new.filter, new.dependency)) :
                   sessions' \in Fitting(<<new>> \o others)
    /\ Goto(s, "answering")
    /\ UNCHANGED <<db, gate, latest, epoch, nextId, call>>

RefuseSession(s) ==
    /\ phase[s] = "inserting"
    /\ Refused(s)
    /\ End(s, "superseded")
    /\ UNCHANGED <<db, gate, latest, cache, nextId>>

\* Mutant of AnswerStart: a result that was computed is always delivered.
AnswerStartUnchecked(s) ==
    /\ phase[s] = "answering"
    /\ Goto(s, "ready") /\ UNCHANGED call
    /\ UNCHANGED <<db, gate, latest, cache, nextId>>

AnswerStart(s) ==
    /\ phase[s] = "answering"
    /\ IF Latest(s) THEN Goto(s, "ready") /\ UNCHANGED call
       ELSE End(s, "superseded")
    /\ UNCHANGED <<db, gate, latest, cache, nextId>>

\* A page reads its snapshot first and looks for the session afterwards.
LookUpPage(p) ==
    /\ p \in Pages
    /\ phase[p] = "snapshot"
    /\ \E kept \in Pruned :
           LET found == Named(kept, call[p].session)
           IN  \/ \E i \in found :
                      /\ sessions' = Promoted(kept, i)
                      /\ IF kept[i].dependency = call[p].snap.dependency
                         THEN /\ call' = [call EXCEPT ![p].ids = kept[i].ids]
                              /\ Goto(p, "ready")
                         ELSE Goto(p, "dropping") /\ UNCHANGED call
               \/ /\ found = {}
                  /\ sessions' = kept
                  /\ End(p, "stale")
    /\ UNCHANGED <<db, gate, latest, epoch, nextId>>

DropSession(p) ==
    /\ phase[p] = "dropping"
    /\ sessions' \in Without(sessions, Named(sessions, call[p].session))
    /\ End(p, "stale")
    /\ UNCHANGED <<db, gate, latest, epoch, nextId>>

-----------------------------------------------------------------------------
(* Bundle export and restore own the database *)

Admitted(r) ==
    phase[r] \in {"admitted", "snapshot", "looking", "building", "inserting",
                  "answering", "dropping"}

CloseAdmission ==
    /\ gate = "open"
    /\ epoch < MaxEpoch
    /\ gate' = "closing"
    /\ UNCHANGED <<db, latest, cache, nextId, phase, call>>

Own ==
    /\ gate = "closing"
    /\ \A r \in Requests : ~Admitted(r)
    /\ gate' = "owned"
    /\ Cleared
    /\ UNCHANGED <<db, nextId, phase, call>>

\* The restored database brings its own revision; its markers were rebuilt
\* from it when it was staged, and the restore advances it once more.
Restore(newLibrary, restored) ==
    /\ gate = "owned"
    /\ epoch < MaxEpoch
    /\ gate' = "restored"
    /\ library' = newLibrary
    /\ revision' = restored + 1
    /\ marker' = [k \in Markers |->
                     IF k = "general" THEN restored + 1
                     ELSE IF k \in FixedMarkers THEN restored ELSE 0]
    /\ Cleared
    /\ UNCHANGED <<nextId, phase, call>>

OpenAdmission ==
    /\ gate \in {"owned", "restored"}
    /\ gate' = "open"
    /\ UNCHANGED <<db, latest, cache, nextId, phase, call>>

-----------------------------------------------------------------------------
Writer ==
    \/ \E a \in Assets :
           \/ \E tags \in TagSets : SetAssetTags(a, tags)
           \/ \E favorite \in BOOLEAN : SetFavorite(a, favorite)
           \/ \E group \in Groups : SetMediaGroup(a, group)
    \/ \E as \in SUBSET Assets :
           \/ \E incoming \in TagSets : MergeAssetTags(as, incoming)
           \/ ToggleFavorites(as)
    \/ \E newLibrary \in Libraries : RewriteRows(newLibrary)

Maintenance ==
    \/ CloseAdmission \/ Own \/ OpenAdmission
    \/ \E newLibrary \in Libraries, restored \in 1 .. MaxRevision - 1 :
           Restore(newLibrary, restored)

StartStep(s) ==
    \/ \E f \in Filters : BeginRequest(s, f)
    \/ Supersede(s) \/ Proceed(s) \/ LookUp(s) \/ Build(s)
    \/ InsertSession(s) \/ RefuseSession(s) \/ AnswerStart(s)

PageStep(p) ==
    \/ \E s \in Starts : AskPage(p, s)
    \/ LookUpPage(p) \/ DropSession(p)

Next ==
    \/ Writer
    \/ Maintenance
    \/ \E r \in Requests : Admit(r) \/ Fail(r) \/ OpenSnapshot(r)
    \/ \E s \in Starts : StartStep(s)
    \/ \E p \in Pages : PageStep(p)

Spec == Init /\ [][Next]_vars

-----------------------------------------------------------------------------
(* Properties *)

Ids == SUBSET (Assets \X Groups)
Session == [id : Nat, filter : Filter, dependency : Nat, ids : Ids]
Call == [filter : Filter, token : Nat, epoch : Nat, session : Nat, ids : Ids,
         snap : [dependency : Nat, ids : Ids]]
Phases == {"new", "queued", "admitted", "snapshot", "looking", "building", "inserting",
           "answering", "dropping", "ready", "superseded", "stale", "failed"}

TypeOK ==
    /\ library \in Library
    /\ revision \in 1 .. MaxRevision
    /\ marker \in [Markers -> 0 .. revision]
    /\ gate \in {"open", "closing", "owned", "restored"}
    /\ latest \in Nat /\ epoch \in Nat /\ nextId \in Nat \ {0}
    /\ sessions \in Seq(Session)
    /\ phase \in [Requests -> Phases]
    /\ call \in [Requests -> Call]

(***************************************************************************)
(* A ready answer, freshly built, taken from the cache or a later page of  *)
(* a session, is the result of its filters in the one snapshot the request *)
(* read: whatever a writer changed since the session was built, the        *)
(* dependency markers tell whether it could matter.                        *)
(***************************************************************************)
ReadyIsItsSnapshot ==
    \A r \in Requests : phase[r] = "ready" => call[r].ids = call[r].snap.ids

(***************************************************************************)
(* A cached session whose dependency revision still is the library's holds *)
(* the result its filters have now: no writer changes the rows, the order  *)
(* or the library itself under a session that keeps answering pages.       *)
(***************************************************************************)
CurrentSessionsAreRight ==
    \A i \in DOMAIN sessions :
        sessions[i].dependency = DependencyRevision(sessions[i].filter)
            => sessions[i].ids = OrderedIds(sessions[i].filter, library)

(***************************************************************************)
(* Starts answer ready in the order they arrived: whichever blocking       *)
(* thread is slower, and whether or not the cache had a session for it, an *)
(* older start never delivers rows after a newer one did.                  *)
(***************************************************************************)
NewReady(s) == phase[s] # "ready" /\ phase'[s] = "ready"
ReadyInArrivalOrder ==
    [][\A s, t \in Starts :
           NewReady(s) /\ phase[t] = "ready" => call[t].token < call[s].token]_vars

(***************************************************************************)
(* A page drops a session only if one of its dependencies was written      *)
(* since it was built; edits of unrelated tags and favorites, which only   *)
(* advance the global revision, keep it, although the page's snapshot and  *)
(* its look into the cache are separate steps.                             *)
(***************************************************************************)
DroppedIsObsolete ==
    \A p \in Pages : phase[p] = "dropping" =>
        \A i \in Named(sessions, call[p].session) :
            sessions[i].dependency
                < Max({marker[k] : k \in Dependencies(sessions[i].filter)})

(***************************************************************************)
(* The cache stays within its number of sessions and its budget of ids,    *)
(* whatever mix of large and small results is inserted, and no two of its  *)
(* sessions share an id or a key.                                          *)
(***************************************************************************)
CacheWithinBudget ==
    /\ Len(sessions) <= MaxSessions
    /\ IdCount(sessions) <= MaxIds
    /\ \A i \in DOMAIN sessions :
           /\ Named(sessions, sessions[i].id) = {i}
           /\ Keyed(sessions, sessions[i].filter, sessions[i].dependency) = {i}

(***************************************************************************)
(* Stated by the documentation of the query manager: a start is superseded *)
(* when a newer start owns the process-wide request.                       *)
(***************************************************************************)
SupersededByNewerStart ==
    \A s \in Starts : phase[s] = "superseded" =>
        \E t \in Starts : call[t].token > call[s].token
=============================================================================

-------------------------- MODULE ThumbPublication --------------------------
(***************************************************************************)
(* How thumbnails get from a render into the library                       *)
(* (src-tauri/src/services/thumb_service.rs, db/thumbnails.rs, thumbs.rs). *)
(*                                                                         *)
(* Three commands ask for thumbnails: ensure_asset_thumbnail for one asset *)
(* ("demand"), ensure_page_thumbnails and the streaming ensure_thumbnails  *)
(* for a page ("page"), and the bulk renderers ("bulk").  Each reads rows, *)
(* waits for renders, and only then writes thumb_path, while scans commit  *)
(* new versions of the same rows and other callers publish, or delete, the *)
(* same files.  A caller that gave up leaves its render behind.            *)
(*                                                                         *)
(* A thumbnail file is identified by the asset's path and file version     *)
(* (thumb_target hashes path, size and mtime): here a pair <<a, v>>.       *)
(***************************************************************************)
EXTENDS Naturals, Sequences, FiniteSets

CONSTANTS
    Assets,         \* the paths of the indexed files
    Callers,        \* command invocations, each makes one call
    MaxVersion,     \* bound: versions of a file, 1 .. MaxVersion
    MaxChanges,     \* bound: edits and losses of files, and removals of assets
    MaxClears,      \* bound: clear_all_thumbnails calls
    PageSize,       \* rows of one page of the bulk renderer
    InFlight,       \* bulk_in_flight_limit
    Returns,        \* whether an old version of a file may come back
    Demands         \* whether ensure_asset_thumbnail is called: no command is
                    \* registered for it

ASSUME PublicationAssumption ==
    /\ IsFiniteSet(Assets) /\ Assets # {}
    /\ MaxVersion \in Nat \ {0} /\ MaxChanges \in Nat /\ MaxClears \in Nat
    /\ PageSize \in Nat \ {0} /\ InFlight \in Nat \ {0}
    /\ Returns \in BOOLEAN /\ Demands \in BOOLEAN

VARIABLES
    disk,           \* version of each source file, 0 when it is missing
    highest,        \* the newest version each file ever had
    changes,        \* bound: changes of the environment so far
    files,          \* thumbnail files in the thumbnails directory
    rows,           \* assets table: id, version, record_version, thumb_path
    nextId,         \* AUTOINCREMENT
    failures,       \* thumbnail_failures: asset -> <<id, record_version>>
    generation,     \* thumbnail_generation
    jobs,           \* the scheduler: target -> the callers waiting for it
    stage,          \* how far the worker is on a target it took from the queue
    call,           \* what each caller does
    running, cancel,\* thumbnail_render_all_running and _cancel_requested
    clear,          \* clear_all_thumbnails: where it is and what it listed
    refused,        \* history: targets a render or a look at the source failed for
    returned,       \* history: files of which an old version came back
    pulled          \* history: files taken from under a finished render or a
                    \* row that was not re-indexed, and not rendered again since

disks == <<disk, highest, changes>>
table == <<rows, nextId>>
flags == <<running, cancel>>
scheduler == <<jobs, stage>>
history == <<refused, returned, pulled>>
vars == <<disk, highest, changes, files, rows, nextId, failures, generation, jobs,
          stage, call, running, cancel, clear, refused, returned, pulled>>

Versions == 1 .. MaxVersion
None == <<>>                                 \* SQL NULL
NoRow == [id |-> 0, ver |-> 0, rec |-> 0, thumb |-> None]
thumb_target(a, ver) == <<a, ver>>

Kinds == {"demand", "page", "bulk", "failed"}   \* "failed": retry failed only
Bulk(c) == call[c].kind \in {"bulk", "failed"}
Active(c) == call[c].at \notin {"new", "done"}

NewCall == [kind |-> "none", at |-> "new", todo |-> {}, snap |-> <<>>,
            gen |-> 0, after |-> 0, ceiling |-> 0, bad |-> {}, ops |-> <<>>,
            pend |-> {}, inbox |-> {}, updates |-> {}, cancelled |-> FALSE,
            seen |-> {}, ready |-> {}, failed |-> {}, stale |-> {},
            skipped |-> {}]

Init ==
    /\ disk = [a \in Assets |-> 1] /\ highest = disk /\ changes = 0
    /\ files = {}
    /\ \E order \in [Assets -> 1 .. Cardinality(Assets)] :
         /\ \A a, b \in Assets : a # b => order[a] # order[b]
         /\ rows = [a \in Assets |->
                      [id |-> order[a], ver |-> 1, rec |-> 1, thumb |-> None]]
    /\ nextId = Cardinality(Assets) + 1
    /\ failures = [a \in Assets |-> None]
    /\ generation = 0
    /\ jobs = <<>> /\ stage = <<>>
    /\ call = [c \in Callers |-> NewCall]
    /\ running = FALSE /\ cancel = FALSE
    /\ clear = [at |-> "idle", listed |-> {}, count |-> 0]
    /\ refused = {} /\ returned = {} /\ pulled = {}

-----------------------------------------------------------------------------
(* Files change, and scans index what they find.  A scan holds scan_lock,  *)
(* which no thumbnail command takes.                                       *)

NextVersions(a) ==
    IF Returns THEN Versions \ {disk[a]} ELSE {highest[a] + 1} \cap Versions

Changes == changes < MaxChanges /\ changes' = changes + 1

EditFile(a) ==
    /\ Changes
    /\ \E v \in NextVersions(a) :
         /\ disk' = [disk EXCEPT ![a] = v]
         /\ highest' = [highest EXCEPT ![a] = IF v > @ THEN v ELSE @]
         /\ returned' = IF v > highest[a] THEN returned ELSE returned \cup {a}
    /\ UNCHANGED <<files, table, failures, generation, scheduler, call, flags,
                   clear, refused, pulled>>

LoseFile(a) ==
    /\ Changes
    /\ disk[a] # 0
    /\ disk' = [disk EXCEPT ![a] = 0]
    /\ UNCHANGED <<highest, files, table, failures, generation, scheduler, call,
                   flags, clear, history>>

(* A new version gets the next record_version and no thumbnail; the old    *)
(* file stays until somebody sweeps it.                                    *)
ScanIndex(a) ==
    /\ disk[a] # 0
    /\ rows[a].ver # disk[a]
    /\ rows' = [rows EXCEPT ![a] =
          IF @ = NoRow
          THEN [id |-> nextId, ver |-> disk[a], rec |-> 1, thumb |-> None]
          ELSE [id |-> rows[a].id, ver |-> disk[a], rec |-> rows[a].rec + 1,
                thumb |-> None]]
    /\ nextId' = IF rows[a] = NoRow THEN nextId + 1 ELSE nextId
    /\ UNCHANGED <<disks, files, failures, generation, scheduler, call, flags,
                   clear, history>>

ScanPrune(a) ==
    /\ disk[a] = 0 /\ rows[a] # NoRow
    /\ rows' = [rows EXCEPT ![a] = NoRow]
    /\ UNCHANGED <<disks, files, nextId, failures, generation, scheduler, call,
                   flags, clear, history>>

-----------------------------------------------------------------------------
(* The compare-and-set of thumb_path.  The row must still be the one the   *)
(* caller read (id, path) at the version its render was started for.       *)
\* Mutant of Matches: the guard is the id alone.
MatchesId(a, old) == rows[a].id = old.id /\ old.id # 0

Matches(a, old) == rows[a].id = old.id /\ rows[a].ver = old.ver /\ old.id # 0

Put(r, a, thumb) == [r EXCEPT ![a].thumb = thumb]

\* Mutant of Recorded: the failure is recorded for whatever row has the id now.
RecordedForId(a, old) ==
    IF rows[a].id = old.id
    THEN [failures EXCEPT ![a] = <<old.id, rows[a].rec>>] ELSE failures

(* record_thumbnail_failure / clear_thumbnail_failure, both only for the   *)
(* record_version the caller read.                                         *)
Recorded(a, old) ==
    IF rows[a].id = old.id /\ rows[a].rec = old.rec
    THEN [failures EXCEPT ![a] = <<old.id, old.rec>>] ELSE failures
Cleared(a, old) ==
    IF failures[a] = <<old.id, old.rec>>
    THEN [failures EXCEPT ![a] = None] ELSE failures

HasFailed(a) == failures[a] = <<rows[a].id, rows[a].rec>>

-----------------------------------------------------------------------------
(* Steps a caller still has to make for the asset it visits.               *)
CasOp(a, thumb, lost) == [do |-> "cas", a |-> a, thumb |-> thumb, lost |-> lost]
RereadOp(a, thumb, lost) ==
    [do |-> "reread", a |-> a, thumb |-> thumb, lost |-> lost]
PublishOp(a, thumb) == [do |-> "publish", a |-> a, thumb |-> thumb]
NoteOp(a, ok) ==
    [do |-> IF ok THEN "clear" ELSE "record", a |-> a]
DeleteOp(targets) == [do |-> "delete", targets |-> targets, mistaken |-> FALSE]
\* The file a lost compare-and-set leaves; history: the row is what it was.
DropOp(a, thumb, old) ==
    [do |-> "delete", targets |-> {thumb}, mistaken |-> Matches(a, old)]
DeleteIfAny(thumb) == IF thumb = None THEN <<>> ELSE <<DeleteOp({thumb})>>

Update(a, thumb) == [a |-> a, thumb |-> thumb]

(* Everything but the callers' own bookkeeping stays. *)
OnlyCalls ==
    UNCHANGED <<disks, files, table, failures, generation, scheduler, flags, clear,
                history>>

-----------------------------------------------------------------------------
(* with_thumb_read_lock: callers run together, never with clear_all or an  *)
(* operation that deletes rows.                                            *)
CanRead == clear.at = "idle"
New(c) == call[c].at = "new" /\ CanRead

\* The rows a query returned: what the caller goes by from then on.
ReadRows(assets) == [a \in assets |-> rows[a]]

BeginDemand(c, a) ==
    /\ New(c) /\ Demands
    /\ call' = [call EXCEPT ![c] =
          [NewCall EXCEPT !.kind = "demand", !.gen = generation,
             !.at = IF rows[a] = NoRow THEN "done" ELSE "visit",
             !.todo = IF rows[a] = NoRow THEN {} ELSE {a},
             !.snap = ReadRows({a})]]
    /\ OnlyCalls

(* ids without a row are failures at once. *)
BeginPage(c, ids) ==
    /\ New(c)
    /\ call' = [call EXCEPT ![c] =
          [NewCall EXCEPT !.kind = "page", !.at = "visit", !.gen = generation,
             !.todo = {a \in ids : rows[a] # NoRow},
             !.failed = {a \in ids : rows[a] = NoRow},
             !.seen = ids, !.snap = ReadRows(ids)]]
    /\ OnlyCalls

(* thumbnail_candidates_page: the next rows by id, up to the largest id    *)
(* there was when the render started.                                      *)
Candidates(kind, after, ceiling) ==
    {a \in Assets : /\ rows[a].id > after /\ rows[a].id <= ceiling
                    /\ kind = "failed" => HasFailed(a)}
CandidatePage(kind, after, ceiling) ==
    {a \in Candidates(kind, after, ceiling) :
        Cardinality({b \in Candidates(kind, after, ceiling) :
                        rows[b].id < rows[a].id}) < PageSize}

Ids == {rows[a].id : a \in Assets}
MaxId == CHOOSE i \in Ids : \A j \in Ids : j <= i

RefuseBulk(c, kind) ==
    /\ New(c) /\ running
    /\ call' = [call EXCEPT ![c] = [NewCall EXCEPT !.kind = kind, !.at = "done"]]
    /\ OnlyCalls

BeginBulk(c, kind) ==
    /\ New(c)
    /\ ~running
    /\ running' = TRUE /\ cancel' = FALSE
    /\ call' = [call EXCEPT ![c] =
          [NewCall EXCEPT !.kind = kind, !.at = "page", !.gen = generation,
             !.ceiling = MaxId]]
    /\ UNCHANGED <<disks, files, table, failures, generation, scheduler, clear, history>>

(* BulkRenderStateGuard: the flags are reset whatever way the render ends. *)
Release(c) ==
    IF Bulk(c) THEN running' = FALSE /\ cancel' = FALSE ELSE UNCHANGED flags

(* A caller that returns drops its receiver: renders still queued for it   *)
(* go on, their results go nowhere.                                        *)
End(c, record) ==
    /\ call' = [call EXCEPT ![c] =
          [NewCall EXCEPT !.at = "done", !.kind = record.kind,
             !.seen = record.seen, !.ready = record.ready,
             !.failed = record.failed, !.stale = record.stale,
             !.skipped = record.skipped, !.cancelled = record.cancelled]]
    /\ jobs' = [t \in DOMAIN jobs |-> jobs[t] \ {c}]
    /\ UNCHANGED stage
    /\ Release(c)

LastId(page) ==
    CHOOSE i \in {rows[a].id : a \in page} : \A a \in page : rows[a].id <= i

BulkPage(c) ==
    /\ call[c].at = "page" /\ call[c].ops = <<>>
    /\ LET page == CandidatePage(call[c].kind, call[c].after, call[c].ceiling) IN
       IF page = {} THEN End(c, call[c])
       ELSE /\ call' = [call EXCEPT ![c] =
                  [call[c] EXCEPT
                     !.at = "visit", !.todo = page, !.snap = ReadRows(page),
                     !.after = LastId(page), !.seen = call[c].seen \cup page,
                     !.bad = {a \in page : HasFailed(a)}]]
            /\ UNCHANGED <<scheduler, flags>>
    /\ UNCHANGED <<disks, files, table, failures, generation, clear, history>>

-----------------------------------------------------------------------------
(* The next asset of the page.  The bulk renderer goes by id, looks at the *)
(* cancel flag first and keeps at most InFlight renders open.              *)
Visits(c, a) ==
    /\ call[c].at = "visit" /\ call[c].ops = <<>> /\ a \in call[c].todo
    /\ Bulk(c) =>
         /\ ~cancel
         /\ Cardinality(call[c].pend) < InFlight
         /\ \A b \in call[c].todo : call[c].snap[a].id <= call[c].snap[b].id

ReadThumb(c, a) == call[c].snap[a].thumb
Target(c, a) == thumb_target(a, call[c].snap[a].ver)
HasExisting(c, a) ==
    ~Bulk(c) /\ ReadThumb(c, a) # None /\ ReadThumb(c, a) \in files

Handled(c, a, ops) == [call[c] EXCEPT !.todo = @ \ {a}, !.ops = ops]
Good(record, a, thumb) ==
    [record EXCEPT !.ready = @ \cup {a}, !.updates = @ \cup {Update(a, thumb)}]
Bad(record, a) ==
    [record EXCEPT !.failed = @ \cup {a}, !.updates = @ \cup {Update(a, None)}]

(* What the three kinds of caller do about a source that is gone, a        *)
(* thumbnail that is there, and a result.  Page and bulk write a NULL only *)
(* when they publish; the bulk renderer deletes the old thumbnail at once. *)
DemandMissing(c, a) ==
    Handled(c, a, <<CasOp(a, None, "go on"), NoteOp(a, FALSE)>>
                    \o DeleteIfAny(ReadThumb(c, a)))
PageMissing(c, a) == Bad(Handled(c, a, <<NoteOp(a, FALSE)>>), a)
BulkMissing(c, a) ==
    Bad(Handled(c, a, <<NoteOp(a, FALSE)>> \o DeleteIfAny(ReadThumb(c, a))), a)

DemandReady(c, a) ==
    Handled(c, a, <<CasOp(a, Target(c, a), "go on"), NoteOp(a, TRUE)>>)
PageReady(c, a) ==
    Handled(c, a, <<PublishOp(a, Target(c, a)), NoteOp(a, TRUE)>>)
BulkReady(c, a) == Good(Handled(c, a, <<NoteOp(a, TRUE)>>), a, Target(c, a))

Taken(c, result, ops) ==
    [call[c] EXCEPT !.inbox = @ \ {result}, !.pend = @ \ {result.a},
                    !.ops = ops \o <<NoteOp(result.a, result.ok)>>]
DemandResult(c, result) ==
    Taken(c, result, <<IF result.ok
                       THEN CasOp(result.a, Target(c, result.a), "delete")
                       ELSE CasOp(result.a, None, "go on")>>)
PageResult(c, result) ==
    IF result.ok
    THEN Taken(c, result, <<PublishOp(result.a, Target(c, result.a))>>)
    ELSE Bad(Taken(c, result, <<>>), result.a)
BulkResult(c, result) ==
    IF result.ok
    THEN Good(Taken(c, result, <<>>), result.a, Target(c, result.a))
    ELSE Bad(Taken(c, result, <<>>), result.a)

(* The file the row names is there: demand and page publish it again. *)
VisitExisting(c, a) ==
    /\ Visits(c, a) /\ HasExisting(c, a)
    /\ call' = [call EXCEPT ![c] = Handled(c, a,
          IF call[c].kind = "demand"
          THEN <<CasOp(a, ReadThumb(c, a), "stop"), NoteOp(a, TRUE)>>
          ELSE <<PublishOp(a, ReadThumb(c, a)), NoteOp(a, TRUE)>>)]
    /\ OnlyCalls

VisitMissing(c, a) ==
    /\ Visits(c, a) /\ ~HasExisting(c, a)
    /\ disk[a] = 0
    /\ call' = [call EXCEPT ![c] =
          CASE call[c].kind = "demand" -> DemandMissing(c, a)
            [] call[c].kind = "page" -> PageMissing(c, a)
            [] OTHER -> BulkMissing(c, a)]
    /\ refused' = refused \cup {Target(c, a)}
    /\ UNCHANGED <<disks, files, table, failures, generation, scheduler, flags, clear,
                   returned, pulled>>

(* The thumbnail of this version is already there, whoever rendered it. *)
VisitTarget(c, a) ==
    /\ Visits(c, a) /\ ~HasExisting(c, a)
    /\ disk[a] # 0 /\ Target(c, a) \in files
    /\ call' = [call EXCEPT ![c] =
          CASE call[c].kind = "demand" -> DemandReady(c, a)
            [] call[c].kind = "page" -> PageReady(c, a)
            [] OTHER -> BulkReady(c, a)]
    /\ OnlyCalls

VisitSkip(c, a) ==
    /\ Visits(c, a) /\ call[c].kind = "bulk"
    /\ disk[a] # 0 /\ Target(c, a) \notin files
    /\ a \in call[c].bad
    /\ call' = [call EXCEPT ![c] = [Handled(c, a, <<>>) EXCEPT
                                      !.skipped = call[c].skipped \cup {a}]]
    /\ OnlyCalls

(* enqueue: the caller joins the job of the target, or makes it. *)
VisitEnqueue(c, a) ==
    /\ Visits(c, a) /\ ~HasExisting(c, a)
    /\ disk[a] # 0 /\ Target(c, a) \notin files
    /\ ~(call[c].kind = "bulk" /\ a \in call[c].bad)
    /\ LET t == Target(c, a) IN
       jobs' = [u \in DOMAIN jobs \cup {t} |->
                  (IF u \in DOMAIN jobs THEN jobs[u] ELSE {}) \cup
                  (IF u = t THEN {c} ELSE {})]
    /\ call' = [call EXCEPT ![c] = [Handled(c, a, <<>>) EXCEPT
                                      !.pend = call[c].pend \cup {a}]]
    /\ UNCHANGED <<disks, files, table, failures, generation, stage, flags, clear,
                   history>>

-----------------------------------------------------------------------------
(* create_image_thumb and create_video_thumb write a temporary file and    *)
(* move it into place: the target is there, whole, or it is not (ffmpeg    *)
(* missing, failed or stopped at its time limit, an unreadable image).     *)
Outcomes == BOOLEAN

(* A worker works on a queued target with the mutex released               *)
(* (process_thumbnail_task): the source must be there, a target that is    *)
(* there is not rendered again.                                            *)
Render(t) ==
    /\ t \in DOMAIN jobs \ DOMAIN stage
    /\ \E made \in Outcomes :
         LET there == disk[t[1]] # 0 /\ (made \/ t \in files) IN
         /\ files' = IF there THEN files \cup {t} ELSE files
         /\ pulled' = IF there THEN pulled \ {t} ELSE pulled
         /\ refused' = IF there THEN refused ELSE refused \cup {t}
         /\ stage' = [u \in DOMAIN stage \cup {t} |->
              IF u # t THEN stage[u] ELSE IF there THEN "rendered" ELSE "failed"]
    /\ UNCHANGED <<disks, table, failures, generation, jobs, call, flags, clear,
                   returned>>

(* Its last look, target_path.exists(), decides what it will answer. *)
LookAtTarget(t) ==
    /\ t \in DOMAIN jobs \cap DOMAIN stage /\ stage[t] = "rendered"
    /\ stage' = [stage EXCEPT ![t] = IF t \in files THEN "made" ELSE "failed"]
    /\ refused' = IF t \in files THEN refused ELSE refused \cup {t}
    /\ UNCHANGED <<disks, files, table, failures, generation, jobs, call, flags,
                   clear, returned, pulled>>

(* The worker takes the mutex again, removes the job and answers whoever   *)
(* waits by then: callers joined the job as long as it was registered.     *)
(* The sends follow outside the mutex, one per channel; a result that is   *)
(* not sent yet is one its caller has not taken.                           *)
Answer(t) ==
    /\ t \in DOMAIN jobs \cap DOMAIN stage /\ stage[t] # "rendered"
    /\ call' = [c \in Callers |->
          IF c \in jobs[t]
          THEN [call[c] EXCEPT !.inbox = call[c].inbox \cup
                                  {[a |-> t[1], ok |-> stage[t] = "made"]}]
          ELSE call[c]]
    /\ jobs' = [u \in DOMAIN jobs \ {t} |-> jobs[u]]
    /\ stage' = [u \in DOMAIN stage \ {t} |-> stage[u]]
    /\ UNCHANGED <<disks, files, table, failures, generation, flags, clear, history>>

(* The caller is waiting for a result. *)
Waits(c) ==
    /\ call[c].at = "visit" /\ call[c].ops = <<>> /\ call[c].pend # {}
    /\ \/ call[c].todo = {}
       \/ Bulk(c) /\ Cardinality(call[c].pend) >= InFlight

TakeResult(c, result) ==
    /\ \/ Waits(c) /\ (Bulk(c) => ~cancel)
       \/ call[c].at = "drain" /\ call[c].ops = <<>>
    /\ result \in call[c].inbox
    /\ call' = [call EXCEPT ![c] =
          CASE call[c].kind = "demand" -> DemandResult(c, result)
            [] call[c].kind = "page" -> PageResult(c, result)
            [] OTHER -> BulkResult(c, result)]
    /\ OnlyCalls

(* The stall or demand deadline: the call fails, and the results it         *)
(* collected are not written.                                              *)
TimeOut(c) ==
    /\ Waits(c) /\ (Bulk(c) => ~cancel)
    /\ End(c, [NewCall EXCEPT !.kind = "error"])
    /\ UNCHANGED <<disks, files, table, failures, generation, clear, history>>

CancelRender ==
    /\ running /\ ~cancel
    /\ cancel' = TRUE
    /\ UNCHANGED <<disks, files, table, failures, generation, scheduler, call,
                   running, clear, history>>

(* Cancelled: take the results that are ready, then publish and stop. *)
NoticeCancel(c) ==
    /\ Bulk(c) /\ call[c].at = "visit" /\ call[c].ops = <<>> /\ cancel
    /\ call[c].todo # {} \/ call[c].pend # {}
    /\ call' = [call EXCEPT ![c].at = "drain", ![c].cancelled = TRUE]
    /\ OnlyCalls

-----------------------------------------------------------------------------
(* publish_thumbnail_updates: one transaction writes every collected row   *)
(* whose version still holds; after a reset of the generation, none.       *)
Lost(c) ==
    {u \in call[c].updates :
        \/ generation # call[c].gen
        \/ ~Matches(u.a, call[c].snap[u.a])}

MayPublish(c) ==
    /\ call[c].kind # "demand" /\ call[c].ops = <<>>
    /\ \/ call[c].at = "visit" /\ call[c].todo = {} /\ call[c].pend = {}
       \/ call[c].at = "drain" /\ call[c].inbox = {}

LostFiles(c) == {u.thumb : u \in {v \in Lost(c) : v.thumb # None}}
LostAssets(c) == {u.a : u \in Lost(c)}

(* The results that lost against a re-index are counted as stale and their *)
(* files deleted (remove_dropped_thumbnail_files). *)
Publish(c) ==
    /\ MayPublish(c)
    /\ rows' = [a \in Assets |->
          IF \E u \in call[c].updates \ Lost(c) : u.a = a
          THEN [rows[a] EXCEPT !.thumb =
                  (CHOOSE u \in call[c].updates : u.a = a).thumb]
          ELSE rows[a]]
    /\ call' = [call EXCEPT ![c] =
          [call[c] EXCEPT
             !.at = IF Bulk(c) /\ ~call[c].cancelled THEN "page" ELSE "finish",
             !.ops = IF LostFiles(c) = {} THEN <<>> ELSE <<DeleteOp(LostFiles(c))>>,
             !.updates = {}, !.snap = <<>>, !.bad = {},
             !.stale = call[c].stale \cup LostAssets(c),
             !.ready = call[c].ready \ LostAssets(c),
             !.failed = call[c].failed \ LostAssets(c)]]
    /\ UNCHANGED <<disks, files, nextId, failures, generation, scheduler, flags,
                   clear, history>>

Finish(c) ==
    /\ call[c].ops = <<>>
    /\ \/ call[c].at = "finish"
       \/ /\ call[c].kind = "demand" /\ call[c].at = "visit"
          /\ call[c].todo = {} /\ call[c].pend = {}
    /\ End(c, call[c])
    /\ UNCHANGED <<disks, files, table, failures, generation, clear, history>>

-----------------------------------------------------------------------------
(* The caller's next statement or file operation. *)
AtOp(c, kind) == call[c].ops # <<>> /\ Head(call[c].ops).do = kind
Op(c) == Head(call[c].ops)
Old(c) == call[c].snap[Op(c).a]
Then(c, ops) == [call EXCEPT ![c].ops = ops]
Rest(c) == Tail(call[c].ops)

Applied(c, a, thumb, ops) ==
    [call EXCEPT ![c].ops = ops,
                 ![c].ready = IF call[c].kind = "page" THEN @ \cup {a} ELSE @]
Dropped(c, a, ops) == [call EXCEPT ![c].ops = ops, ![c].stale = @ \cup {a}]

(* The UPDATE of a demand; a statement of its own. *)
Cas(c) ==
    /\ AtOp(c, "cas")
    /\ IF Matches(Op(c).a, Old(c)) /\ rows[Op(c).a].thumb # Op(c).thumb
       THEN /\ rows' = Put(rows, Op(c).a, Op(c).thumb)
            /\ call' = Applied(c, Op(c).a, Op(c).thumb, Rest(c))
       ELSE /\ call' = Then(c, <<RereadOp(Op(c).a, Op(c).thumb, Op(c).lost)>> \o Rest(c))
            /\ UNCHANGED rows
    /\ UNCHANGED <<disks, files, nextId, failures, generation, scheduler, flags,
                   clear, history>>

(* It changed no row: the value is already there, or the version is not.   *)
(* Another demand may replace an equal value between the two statements:   *)
(* the caller then drops its file although the row was not re-indexed.     *)
Reread(c) ==
    /\ AtOp(c, "reread")
    /\ IF Matches(Op(c).a, Old(c)) /\ rows[Op(c).a].thumb = Op(c).thumb
       THEN call' = Applied(c, Op(c).a, Op(c).thumb, Rest(c))
       ELSE call' = Then(c, CASE Op(c).lost = "stop" -> <<>>
                              [] Op(c).lost = "go on" -> Rest(c)
                              [] OTHER -> <<DropOp(Op(c).a, Op(c).thumb, Old(c))>>)
    /\ OnlyCalls

\* Mutant of PublishReady: a rejected result is dropped without a word.
PublishReadySilently(c) ==
    /\ AtOp(c, "publish")
    /\ LET a == Op(c).a  thumb == Op(c).thumb IN
       IF generation = call[c].gen /\ Matches(a, Old(c))
       THEN /\ rows' = Put(rows, a, thumb)
            /\ call' = Applied(c, a, thumb, Rest(c))
       ELSE /\ call' = Then(c, <<DeleteOp({thumb})>> \o Rest(c))
            /\ UNCHANGED rows
    /\ UNCHANGED <<disks, files, nextId, failures, generation, scheduler, flags,
                   clear, history>>

\* Mutant of PublishReady: a value that is there already is taken for a lost race.
PublishReadyIfChanged(c) ==
    /\ AtOp(c, "publish")
    /\ LET a == Op(c).a  thumb == Op(c).thumb IN
       IF generation = call[c].gen /\ Matches(a, Old(c)) /\ rows[a].thumb # thumb
       THEN /\ rows' = Put(rows, a, thumb)
            /\ call' = Applied(c, a, thumb, Rest(c))
       ELSE /\ call' = Dropped(c, a, <<DeleteOp({thumb})>> \o Rest(c))
            /\ UNCHANGED rows
    /\ UNCHANGED <<disks, files, nextId, failures, generation, scheduler, flags,
                   clear, history>>

(* publish_ready of a page: one compare-and-set in its own transaction. *)
PublishReady(c) ==
    /\ AtOp(c, "publish")
    /\ LET a == Op(c).a  thumb == Op(c).thumb IN
       IF generation = call[c].gen /\ Matches(a, Old(c))
       THEN /\ rows' = Put(rows, a, thumb)
            /\ call' = Applied(c, a, thumb, Rest(c))
       ELSE /\ call' = Dropped(c, a, <<DeleteOp({thumb})>> \o Rest(c))
            /\ UNCHANGED rows
    /\ UNCHANGED <<disks, files, nextId, failures, generation, scheduler, flags,
                   clear, history>>

Record(c) ==
    /\ AtOp(c, "record")
    /\ failures' = Recorded(Op(c).a, Old(c))
    /\ call' = Then(c, Rest(c))
    /\ UNCHANGED <<disks, files, table, generation, scheduler, flags, clear, history>>

ClearRecord(c) ==
    /\ AtOp(c, "clear")
    /\ failures' = Cleared(Op(c).a, Old(c))
    /\ call' = Then(c, Rest(c))
    /\ UNCHANGED <<disks, files, table, generation, scheduler, flags, clear, history>>

Delete(c) ==
    /\ AtOp(c, "delete")
    /\ files' = files \ Op(c).targets
    /\ pulled' = IF Op(c).mistaken THEN pulled \cup Op(c).targets ELSE pulled
    /\ call' = Then(c, Rest(c))
    /\ UNCHANGED <<disks, table, failures, generation, scheduler, flags, clear, refused,
                   returned>>

-----------------------------------------------------------------------------
(* clear_all_thumbnails holds thumb_lock for writing: no caller is inside. *)
(* Renders left behind and scans go on.                                    *)
NobodyReads == \A c \in Callers : ~Active(c)

\* Mutant of ClearBegin: the reset takes the lock like a reader.
ClearBeside ==
    /\ clear.at = "idle" /\ clear.count < MaxClears
    /\ generation' = generation + 1
    /\ clear' = [clear EXCEPT !.at = "rows"]
    /\ UNCHANGED <<disks, files, table, failures, scheduler, call, flags, history>>

ClearBegin ==
    /\ clear.at = "idle" /\ clear.count < MaxClears
    /\ NobodyReads
    /\ generation' = generation + 1
    /\ clear' = [clear EXCEPT !.at = "rows"]
    /\ UNCHANGED <<disks, files, table, failures, scheduler, call, flags, history>>

(* clear_all_thumbnail_paths: two statements that commit one by one. *)
ClearRows ==
    /\ clear.at = "rows"
    /\ rows' = [a \in Assets |-> [rows[a] EXCEPT !.thumb = None]]
    /\ clear' = [clear EXCEPT !.at = "failures"]
    /\ UNCHANGED <<disks, files, nextId, failures, generation, scheduler, call, flags, history>>

ClearFailures ==
    /\ clear.at = "failures"
    /\ failures' = [a \in Assets |-> None]
    /\ clear' = [clear EXCEPT !.at = "list"]
    /\ UNCHANGED <<disks, files, table, generation, scheduler, call, flags, history>>

ClearList ==
    /\ clear.at = "list"
    /\ clear' = [clear EXCEPT !.at = "sweep", !.listed = files]
    /\ UNCHANGED <<disks, files, table, failures, generation, scheduler, call, flags, history>>

\* Files a worker has looked at and will answer with.
Promised(gone) == {t \in gone : t \in DOMAIN stage /\ stage[t] = "made"}

ClearSweep ==
    /\ clear.at = "sweep"
    /\ files' = files \ clear.listed
    /\ pulled' = pulled \cup Promised(clear.listed)
    /\ clear' = [at |-> "idle", listed |-> {}, count |-> clear.count + 1]
    /\ UNCHANGED <<disks, table, failures, generation, scheduler, call, flags, refused,
                   returned>>

(* Removing a root, clearing the library and resolving duplicates delete   *)
(* the row and its thumbnail under both locks.                             *)
RemoveAsset(a) ==
    /\ Changes
    /\ clear.at = "idle" /\ NobodyReads
    /\ rows[a] # NoRow
    /\ rows' = [rows EXCEPT ![a] = NoRow]
    /\ files' = files \ {rows[a].thumb}
    /\ pulled' = pulled \cup Promised({rows[a].thumb})
    /\ failures' = [failures EXCEPT ![a] = None]
    /\ UNCHANGED <<disk, highest, nextId, generation, scheduler, call, flags, clear, refused,
                   returned>>

-----------------------------------------------------------------------------
Environment ==
    \/ \E a \in Assets :
         EditFile(a) \/ LoseFile(a) \/ ScanIndex(a) \/ ScanPrune(a) \/ RemoveAsset(a)
    \/ CancelRender

Begin(c) ==
    \/ \E a \in Assets : BeginDemand(c, a)
    \/ New(c) /\ \E ids \in SUBSET Assets \ {{}} : BeginPage(c, ids)
    \/ \E kind \in {"bulk", "failed"} : BeginBulk(c, kind) \/ RefuseBulk(c, kind)

Step(c) ==
    \/ \E a \in call[c].todo :
         \/ VisitExisting(c, a) \/ VisitMissing(c, a) \/ VisitTarget(c, a)
         \/ VisitSkip(c, a) \/ VisitEnqueue(c, a)
    \/ \E result \in call[c].inbox : TakeResult(c, result)
    \/ BulkPage(c) \/ NoticeCancel(c) \/ Publish(c) \/ Finish(c)
    \/ Cas(c) \/ Reread(c) \/ PublishReady(c)
    \/ Record(c) \/ ClearRecord(c) \/ Delete(c)

Clear == ClearBegin \/ ClearRows \/ ClearFailures \/ ClearList \/ ClearSweep

Next ==
    \/ Environment
    \/ \E c \in Callers : Begin(c) \/ Step(c) \/ TimeOut(c)
    \/ \E t \in DOMAIN jobs : Render(t) \/ LookAtTarget(t) \/ Answer(t)
    \/ Clear

Spec == Init /\ [][Next]_vars

-----------------------------------------------------------------------------
(* Properties *)

(* A row shows a thumbnail of its own file at its own version, whatever    *)
(* was re-indexed between a render and its publication.                    *)
ThumbBelongsToRow ==
    \A a \in Assets :
        rows[a].thumb # None => rows[a].thumb = thumb_target(a, rows[a].ver)

(* While the source is what the row says, the file a row names is there:   *)
(* no stale result that is dropped, no sweep of the directory and no       *)
(* clean-up of the bulk renderer takes it.  What is excepted ends with the *)
(* next render of the file: a file removed after the worker's last look    *)
(* and before its answer, and one that a demand dropped because it took    *)
(* another demand's NULL for a re-index.  (When an old version of a source *)
(* comes back, a caller may still drop what it rendered for it before.)    *)
PublishedFileSurvives ==
    \A a \in Assets \ returned :
        (rows[a].thumb # None /\ disk[a] = rows[a].ver) =>
            rows[a].thumb \in files \cup pulled

(* What clear_all_thumbnails says of the renders in flight when it begins: *)
(* "results completing after this point are dropped instead of written     *)
(* back": no row ever names a file that was removed under a result.        *)
UnderminedResultsAreDropped == \A a \in Assets : rows[a].thumb \notin pulled

(* What the comment of the compare-and-set says of an update that changed  *)
(* nothing: the value is already there, and "anything else is a lost race  *)
(* against a re-index".                                                    *)
LostRaceIsAReindex == \A c \in Callers : AtOp(c, "delete") => ~Op(c).mistaken

(* From the moment clear_all has emptied the rows until it ends, no late   *)
(* result brings a thumbnail back.                                         *)
ClearSticks ==
    clear.at \in {"failures", "list", "sweep"} => \A a \in Assets : rows[a].thumb = None

(* A call that ends in order accounts for every asset it was asked for or  *)
(* paged through, once: a result it announced as ready is never also       *)
(* counted as failed or stale.  A cancelled bulk render leaves some out.   *)
EveryAssetAnsweredOnce ==
    \A c \in Callers :
        (call[c].at = "done" /\ call[c].kind \in {"page", "bulk", "failed"}) =>
        LET answers == <<call[c].ready, call[c].failed, call[c].stale, call[c].skipped>>
        IN /\ \A i, j \in 1 .. 4 : i # j => answers[i] \cap answers[j] = {}
           /\ call[c].cancelled \/
                call[c].seen = UNION {answers[i] : i \in 1 .. 4}

(* The bulk renderer skips a file as broken, and the retry offers it, only *)
(* if a render of this very version failed or its source was missing.      *)
RecordedFailureIsReal ==
    \A a \in Assets :
        (rows[a] # NoRow /\ HasFailed(a)) => thumb_target(a, rows[a].ver) \in refused

\* What the rows and their failures say is true of the files they are about.
RowsAreTrue == ThumbBelongsToRow /\ RecordedFailureIsReal

=============================================================================

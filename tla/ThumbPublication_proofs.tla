---------------------- MODULE ThumbPublication_proofs ----------------------
(***************************************************************************)
(* Proofs about the publication of thumbnails, for any number of files,    *)
(* callers, versions, edits and resets, in three layers:                   *)
(*                                                                         *)
(*   TrueInv     what a caller read stays behind the row it read it from,  *)
(*               and what it is about to write belongs to that version;    *)
(*   HandInv     a file a caller is about to name is there, obsolete or    *)
(*               taken from under it; what it is about to delete is        *)
(*               obsolete, or was mistaken for it;                         *)
(*   CountInv    an asset is either still open in a call or has one answer *)
(*               in it, and a bulk render sees no asset twice.             *)
(***************************************************************************)
EXTENDS ThumbPublication, FiniteSetTheorems, SequenceTheorems,
        WellFoundedInduction, TLAPS

Targets == Assets \X Versions
Thumbs == {None} \cup Targets
Rows == [id : Nat, ver : 0 .. MaxVersion, rec : Nat, thumb : Thumbs]
Snaps == UNION {[S -> Rows] : S \in SUBSET Assets}

CasOps ==
    {op \in [do : {"cas", "reread"}, a : Assets, thumb : Thumbs,
             lost : {"go on", "delete", "stop"}] :
        op.lost = "delete" => op.thumb # None}
PublishOps == [do : {"publish"}, a : Assets, thumb : Targets]
NoteOps == [do : {"clear", "record"}, a : Assets]
DeleteOps == [do : {"delete"}, targets : SUBSET Targets, mistaken : BOOLEAN]
AllOps == CasOps \cup PublishOps \cup NoteOps \cup DeleteOps

Results == [a : Assets, ok : BOOLEAN]
Updates == [a : Assets, thumb : Thumbs]

CallType ==
    [kind : Kinds \cup {"none", "error"},
     at : {"new", "visit", "page", "drain", "finish", "done"},
     todo : SUBSET Assets, snap : Snaps, gen : Nat, after : Nat, ceiling : Nat,
     bad : SUBSET Assets, ops : Seq(AllOps), pend : SUBSET Assets,
     inbox : SUBSET Results, updates : SUBSET Updates, cancelled : BOOLEAN,
     seen : SUBSET Assets, ready : SUBSET Assets, failed : SUBSET Assets,
     stale : SUBSET Assets, skipped : SUBSET Assets]

Stages == {"rendered", "made", "failed"}

TypeOK ==
    /\ disk \in [Assets -> 0 .. MaxVersion] /\ highest \in [Assets -> Versions]
    /\ files \subseteq Targets
    /\ rows \in [Assets -> Rows] /\ nextId \in Nat \ {0}
    /\ failures \in [Assets -> {None} \cup (Nat \X Nat)]
    /\ generation \in Nat
    /\ jobs \in UNION {[S -> SUBSET Callers] : S \in SUBSET Targets}
    /\ stage \in UNION {[S -> Stages] : S \in SUBSET Targets}
    /\ call \in [Callers -> CallType]
    /\ clear \in [at : {"idle", "rows", "failures", "list", "sweep"},
                  listed : SUBSET Targets, count : Nat]
    /\ refused \subseteq Targets /\ pulled \subseteq Targets

-----------------------------------------------------------------------------
(* The rows, and what the callers read of them.                            *)

RowOK(a) ==
    \/ rows[a] = NoRow
    \/ /\ rows[a].id \in 1 .. nextId - 1 /\ rows[a].ver \in Versions
       /\ rows[a].thumb \in {None, thumb_target(a, rows[a].ver)}

FailureOK(a) ==
    failures[a] # None =>
        /\ failures[a][1] \in 1 .. nextId - 1
        /\ rows[a].id = failures[a][1] =>
            /\ failures[a][2] <= rows[a].rec
            /\ rows[a].rec = failures[a][2] => thumb_target(a, rows[a].ver) \in refused

Working(c) == call[c].at \in {"visit", "drain"}
Known(c) == {a \in DOMAIN call[c].snap : call[c].snap[a] # NoRow}

(* A row a caller read has moved on since, or it is the same version. *)
SnapOK(c) ==
    \A a \in Known(c) :
        LET old == call[c].snap[a] IN
        /\ old.id \in 1 .. nextId - 1 /\ old.ver \in Versions
        /\ old.thumb \in {None, Target(c, a)}
        /\ rows[a].id = old.id =>
            /\ old.rec <= rows[a].rec
            /\ rows[a].rec = old.rec => rows[a].ver = old.ver

(* What a caller does next is about rows it read, at the version it read. *)
OwnOps(c) ==
    {op \in AllOps :
        /\ op.do # "delete" => op.a \in Known(c)
        /\ op.do \in {"cas", "reread", "publish"} => op.thumb \in {None, Target(c, op.a)}
        /\ op.do = "record" => Target(c, op.a) \in refused}

OwnItems(c) ==
    /\ Working(c) => call[c].todo \cup call[c].pend \subseteq Known(c)
    /\ Working(c) => call[c].todo \cap call[c].pend = {}
    /\ \A u \in call[c].updates : u.a \in Known(c) /\ u.thumb \in {None, Target(c, u.a)}
    /\ ~Working(c) => Known(c) = {}

Awaited(c) ==
    Working(c) =>
        /\ \A r \in call[c].inbox : /\ r.a \in call[c].pend
                                    /\ ~r.ok => Target(c, r.a) \in refused
        /\ \A r, q \in call[c].inbox : r.a = q.a => r = q

InJobs(c) == {t \in DOMAIN jobs : c \in jobs[t]}
Queued(c) ==
    /\ Working(c) => \A t \in InJobs(c) :
        /\ t[1] \in call[c].pend /\ t = Target(c, t[1])
        /\ \A r \in call[c].inbox : r.a # t[1]
    /\ call[c].at \in {"new", "page", "done"} => InJobs(c) = {} /\ call[c].inbox = {}
    /\ call[c].at = "page" => call[c].pend = {}
    /\ call[c].at = "drain" => call[c].cancelled

Locked(c) == Active(c) => clear.at = "idle" /\ call[c].gen = generation

CallOK(c) ==
    /\ SnapOK(c) /\ call[c].ops \in Seq(OwnOps(c)) /\ OwnItems(c)
    /\ Awaited(c) /\ Queued(c) /\ Locked(c)

FailedIsRefused == \A t \in DOMAIN stage : stage[t] = "failed" => t \in refused

TrueInv ==
    /\ TypeOK
    /\ \A a \in Assets : RowOK(a) /\ FailureOK(a)
    /\ \A c \in Callers : CallOK(c)
    /\ FailedIsRefused
    /\ ClearSticks

-----------------------------------------------------------------------------
(* Files there, obsolete or taken away.                                    *)

\* Nobody shows this version any more, or it came back and all bets are off.
Obsolete(t) ==
    \/ disk[t[1]] # t[2] /\ t[2] <= highest[t[1]]
    \/ t[1] \in returned
InHand(t) == t \in files \cup pulled \/ Obsolete(t)

RowInHand(a) ==
    /\ disk[a] <= highest[a]
    /\ rows[a].ver <= highest[a]
    /\ rows[a].thumb # None => InHand(rows[a].thumb)

OpsInHand ==
    {op \in AllOps :
        /\ op.do \in {"cas", "reread", "publish"} /\ op.thumb # None => InHand(op.thumb)
        /\ op.do = "delete" => op.mistaken \/ \A t \in op.targets : Obsolete(t)}

SnapInHand(c) ==
    \A a \in Known(c) :
        LET old == call[c].snap[a] IN
        /\ old.ver <= highest[a]
        /\ (rows[a].id # old.id \/ rows[a].ver # old.ver) => Obsolete(Target(c, a))

UpdatesInHand(c) == \A u \in call[c].updates : u.thumb # None => InHand(u.thumb)
InboxInHand(c) == Working(c) => \A r \in call[c].inbox : r.ok => InHand(Target(c, r.a))

CallInHand(c) ==
    /\ SnapInHand(c) /\ call[c].ops \in Seq(OpsInHand)
    /\ UpdatesInHand(c) /\ InboxInHand(c)

\* What a worker is about to answer with.
StageInHand == \A t \in DOMAIN stage : stage[t] = "made" => InHand(t)

HandInv ==
    /\ \A a \in Assets : RowInHand(a)
    /\ \A c \in Callers : CallInHand(c)
    /\ StageInHand

-----------------------------------------------------------------------------
(* Where in its call each asset is.                                        *)

Counts(c) == call[c].kind \in {"page", "bulk", "failed"}

(* Only the first statement of a caller can be a publication. *)
Later == {op \in AllOps : op.do # "publish"}
Kindly(c) ==
    {op \in AllOps :
        /\ op.do \in {"cas", "reread"} => call[c].kind = "demand"
        /\ op.do = "publish" => call[c].kind = "page"}
Publishing(c) == call[c].ops # <<>> /\ Head(call[c].ops).do = "publish"
Busy(c) == IF Publishing(c) THEN {Head(call[c].ops).a} ELSE {}
Open(c) == call[c].todo \cup call[c].pend \cup Busy(c)
Settled(c) == call[c].ready \cup call[c].failed \cup call[c].stale \cup call[c].skipped

AnsweredOnce(c) ==
    /\ call[c].ready \cap call[c].failed = {}
    /\ (call[c].ready \cup call[c].failed) \cap call[c].stale = {}
    /\ (call[c].ready \cup call[c].failed \cup call[c].stale) \cap call[c].skipped = {}

CountOK(c) ==
    Counts(c) =>
        /\ AnsweredOnce(c)
        /\ Working(c) => Open(c) \cap Settled(c) = {}
        /\ Busy(c) \cap (call[c].todo \cup call[c].pend) = {}
        /\ ~Working(c) => Busy(c) = {} /\ call[c].updates = {}
        /\ call[c].cancelled \/ call[c].seen = Open(c) \cup Settled(c)
        /\ call[c].at \in {"page", "done"} => call[c].todo = {} /\ call[c].pend = {}
        /\ call[c].at = "page" => Bulk(c)
        /\ call[c].at \in {"new", "page"} => ~call[c].cancelled
        /\ call[c].at = "finish" /\ ~call[c].cancelled => Open(c) = {}
        /\ \A u \in call[c].updates : u.a \in call[c].ready \cup call[c].failed
        /\ \A u, v \in call[c].updates : u.a = v.a => u = v

Paging(c) ==
    Bulk(c) /\ Active(c) =>
        /\ call[c].ceiling < nextId
        /\ \A a \in call[c].seen : rows[a].id <= call[c].after \/ rows[a].id > call[c].ceiling

Counted(c) ==
    /\ call[c].ops \in Seq(Kindly(c))
    /\ call[c].ops # <<>> => Tail(call[c].ops) \in Seq(Later)
    /\ Active(c) => call[c].kind \in Kinds
    /\ CountOK(c) /\ Paging(c)

CountInv == \A c \in Callers : Counted(c)

-----------------------------------------------------------------------------
(* Sequences, snapshots and calls                                          *)

LEMMA SeqGrows ==
    ASSUME NEW S, NEW T, S \subseteq T
    PROVE  Seq(S) \subseteq Seq(T)
<1> SUFFICES ASSUME NEW s \in Seq(S) PROVE s \in Seq(T)
  OBVIOUS
<1>1. s \in [1 .. Len(s) -> T] /\ Len(s) \in Nat
  OBVIOUS
<1> QED
  BY <1>1

LEMMA HeadAndTail ==
    ASSUME NEW S, NEW s \in Seq(S), s # <<>>
    PROVE  Head(s) \in S /\ Tail(s) \in Seq(S)
OBVIOUS

LEMMA NoneIsNoPair == \A x, y : <<x, y>> # None
<1> TAKE x, y
<1>1. Len(<<x, y>>) = 2 /\ Len(<<>>) = 0
  OBVIOUS
<1> QED
  BY <1>1 DEF None

LEMMA EmptySnap == <<>> \in Snaps /\ DOMAIN <<>> = {}
<1>1. <<>> \in [{} -> Rows] /\ DOMAIN <<>> = {}
  OBVIOUS
<1> QED
  BY <1>1 DEF Snaps

LEMMA SnapRead ==
    ASSUME TypeOK, NEW S \in SUBSET Assets
    PROVE  /\ ReadRows(S) \in Snaps /\ DOMAIN ReadRows(S) = S
           /\ \A a \in S : ReadRows(S)[a] = rows[a]
<1>1. ReadRows(S) \in [S -> Rows] /\ DOMAIN ReadRows(S) = S
  BY DEF ReadRows, TypeOK
<1> QED
  BY <1>1 DEF Snaps, ReadRows

LEMMA SnapType ==
    ASSUME NEW s \in Snaps
    PROVE  DOMAIN s \subseteq Assets /\ \A a \in DOMAIN s : s[a] \in Rows
BY DEF Snaps

LEMMA EmptyIsSeq == \A S : <<>> \in Seq(S)
OBVIOUS

LEMMA NewCallType ==
    /\ NewCall \in CallType /\ NewCall.at = "new" /\ NewCall.gen = 0
    /\ NewCall.snap = <<>> /\ NewCall.ops = <<>>
    /\ \A S : NewCall.ops \in Seq(S)
    /\ NewCall.todo = {} /\ NewCall.pend = {} /\ NewCall.inbox = {}
    /\ NewCall.updates = {} /\ NewCall.seen = {} /\ NewCall.ready = {}
    /\ NewCall.failed = {} /\ NewCall.stale = {} /\ NewCall.skipped = {}
    /\ NewCall.cancelled = FALSE /\ NewCall.after = 0
<1>1. <<>> \in Snaps /\ \A S : <<>> \in Seq(S)
  BY EmptySnap, EmptyIsSeq
<1> QED
  BY <1>1 DEF NewCall, CallType

-----------------------------------------------------------------------------
(* What may change under a caller that is between two of its statements.   *)

Progress ==
    /\ nextId <= nextId' /\ refused \subseteq refused'
    /\ \A a \in Assets :
        IF rows'[a].id = rows[a].id
        THEN /\ rows[a].rec <= rows'[a].rec
             /\ rows'[a].rec = rows[a].rec => rows'[a].ver = rows[a].ver
        ELSE rows'[a].id = 0 \/ rows'[a].id >= nextId

\* What a caller read stays true of the rows as they move on.
LEMMA SnapFrame ==
    ASSUME TypeOK, TypeOK', Progress, NEW c \in Callers, SnapOK(c),
           call'[c].snap = call[c].snap
    PROVE  /\ SnapOK(c)' /\ Known(c)' = Known(c)
           /\ \A a : Target(c, a)' = Target(c, a)
           /\ OwnOps(c) \subseteq OwnOps(c)'
<1>1. Known(c)' = Known(c)
  BY DEF Known
<1>2. \A a : Target(c, a)' = Target(c, a)
  BY DEF Target, thumb_target
<1>3. call[c] \in CallType /\ call[c].snap \in Snaps
  BY DEF TypeOK, CallType
<1>4. \A a \in Known(c) : a \in Assets /\ call[c].snap[a] \in Rows
  BY <1>3, SnapType DEF Known
<1>5. SnapOK(c)'
  <2> SUFFICES ASSUME NEW a \in Known(c)
               PROVE  LET old == call[c].snap[a] IN
                      /\ old.id \in 1 .. nextId' - 1 /\ old.ver \in Versions
                      /\ old.thumb \in {None, Target(c, a)}
                      /\ rows'[a].id = old.id =>
                          /\ old.rec <= rows'[a].rec
                          /\ rows'[a].rec = old.rec => rows'[a].ver = old.ver
    BY <1>1, <1>2 DEF SnapOK
  <2> DEFINE old == call[c].snap[a]
  <2>1. /\ old.id \in 1 .. nextId - 1 /\ old.ver \in Versions
        /\ old.thumb \in {None, Target(c, a)}
        /\ rows[a].id = old.id =>
            /\ old.rec <= rows[a].rec
            /\ rows[a].rec = old.rec => rows[a].ver = old.ver
    BY DEF SnapOK
  <2>2. /\ a \in Assets /\ rows[a] \in Rows /\ rows'[a] \in Rows /\ old \in Rows
        /\ nextId \in Nat /\ nextId' \in Nat /\ nextId <= nextId'
    BY <1>4 DEF TypeOK, Progress
  <2>3. /\ rows[a].id \in Nat /\ rows'[a].id \in Nat /\ old.id \in Nat
        /\ rows[a].rec \in Nat /\ rows'[a].rec \in Nat /\ old.rec \in Nat
    BY <2>2 DEF Rows
  <2>4. IF rows'[a].id = rows[a].id
        THEN /\ rows[a].rec <= rows'[a].rec
             /\ rows'[a].rec = rows[a].rec => rows'[a].ver = rows[a].ver
        ELSE rows'[a].id = 0 \/ rows'[a].id >= nextId
    BY <2>2 DEF Progress
  <2> HIDE DEF old
  <2>5. rows'[a].id = old.id => rows'[a].id = rows[a].id
    BY <2>1, <2>2, <2>3, <2>4
  <2>6. rows'[a].id = old.id =>
          /\ old.rec <= rows'[a].rec
          /\ rows'[a].rec = old.rec => rows'[a].ver = old.ver
    BY <2>1, <2>3, <2>4, <2>5
  <2> QED
    BY <2>1, <2>2, <2>3, <2>6 DEF old
<1>6. OwnOps(c) \subseteq OwnOps(c)'
  BY <1>1, <1>2 DEF OwnOps, Progress
<1> QED
  BY <1>1, <1>2, <1>5, <1>6

\* A caller that does nothing is not disturbed.
LEMMA OtherFrame ==
    ASSUME TypeOK, TypeOK', Progress, NEW c \in Callers, CallOK(c),
           call'[c] = call[c], InJobs(c)' \subseteq InJobs(c),
           Active(c) => clear'.at = "idle" /\ generation' = generation
    PROVE  CallOK(c)'
<1>1. /\ SnapOK(c)' /\ Known(c)' = Known(c)
      /\ \A a : Target(c, a)' = Target(c, a)
      /\ OwnOps(c) \subseteq OwnOps(c)'
  BY SnapFrame DEF CallOK
<1>2. call'[c].ops \in Seq(OwnOps(c)')
  BY <1>1, SeqGrows DEF CallOK
<1>3. OwnItems(c)'
  BY <1>1 DEF CallOK, OwnItems, Working
<1>4. Awaited(c)'
  BY <1>1 DEF CallOK, Awaited, Working, Progress
<1>5. Queued(c)'
  BY <1>1 DEF CallOK, Queued, Working
<1>6. Locked(c)'
  BY DEF CallOK, Locked, Active
<1> QED
  BY <1>1, <1>2, <1>3, <1>4, <1>5, <1>6 DEF CallOK

\* The frame of a caller's step: the others see nothing but progress.
LEMMA CallerFrame ==
    ASSUME TrueInv, TypeOK', Progress, NEW c \in Callers,
           clear' = clear, generation' = generation,
           \A d \in Callers \ {c} : call'[d] = call[d] /\ InJobs(d)' \subseteq InJobs(d),
           CallOK(c)'
    PROVE  \A d \in Callers : CallOK(d)'
<1> SUFFICES ASSUME NEW d \in Callers, d # c PROVE CallOK(d)'
  OBVIOUS
<1>1. CallOK(d) /\ TypeOK
  BY DEF TrueInv
<1>2. Active(d) => clear'.at = "idle" /\ generation' = generation
  BY <1>1 DEF CallOK, Locked
<1> QED
  BY <1>1, <1>2, OtherFrame

\* The frame of a step that leaves the rows and their failures alone.
LEMMA RowsFrame ==
    ASSUME TrueInv, UNCHANGED table, UNCHANGED failures, refused \subseteq refused'
    PROVE  /\ Progress
           /\ \A a \in Assets : RowOK(a)' /\ FailureOK(a)'
<1>1. \A a \in Assets : rows[a].rec \in Nat
  BY DEF TrueInv, TypeOK, Rows
<1>2. nextId \in Nat
  BY DEF TrueInv, TypeOK
<1>3. Progress
  BY <1>1, <1>2 DEF Progress, table
<1>4. \A a \in Assets : RowOK(a)' /\ FailureOK(a)'
  BY DEF TrueInv, RowOK, FailureOK, table
<1> QED
  BY <1>3, <1>4

-----------------------------------------------------------------------------
(* The steps of files, scans and clear_all                                 *)

\* The frame of a step no caller takes part in.
LEMMA QuietFrame ==
    ASSUME TrueInv, TypeOK', Progress, call' = call, jobs' = jobs,
           NobodyReads \/ (clear' = clear /\ generation' = generation)
    PROVE  \A c \in Callers : CallOK(c)'
<1> SUFFICES ASSUME NEW c \in Callers PROVE CallOK(c)'
  OBVIOUS
<1>1. CallOK(c) /\ TypeOK
  BY DEF TrueInv
<1>2. Active(c) => clear'.at = "idle" /\ generation' = generation
  BY <1>1 DEF CallOK, Locked, NobodyReads
<1>3. InJobs(c)' \subseteq InJobs(c)
  BY DEF InJobs
<1> QED
  BY <1>1, <1>2, <1>3, OtherFrame

LEMMA DiskKeepsTrue ==
    ASSUME TrueInv, NEW a \in Assets, EditFile(a) \/ LoseFile(a)
    PROVE  TrueInv'
<1> USE PublicationAssumption
<1>1. TypeOK'
  <2>1. disk' \in [Assets -> 0 .. MaxVersion]
    BY DEF TrueInv, TypeOK, EditFile, LoseFile, NextVersions, Versions
  <2>2. highest' \in [Assets -> Versions]
    BY DEF TrueInv, TypeOK, EditFile, LoseFile, NextVersions, Versions
  <2> QED
    BY <2>1, <2>2 DEF TrueInv, TypeOK, EditFile, LoseFile, table, flags, scheduler, history
<1>2. /\ UNCHANGED table /\ UNCHANGED failures /\ UNCHANGED refused
      /\ call' = call /\ jobs' = jobs /\ clear' = clear /\ generation' = generation
      /\ stage' = stage
  BY DEF EditFile, LoseFile, table, scheduler, history
<1>3. Progress /\ \A b \in Assets : RowOK(b)' /\ FailureOK(b)'
  BY <1>2, RowsFrame
<1>4. \A c \in Callers : CallOK(c)'
  BY <1>1, <1>2, <1>3, QuietFrame
<1>5. ClearSticks' /\ FailedIsRefused'
  BY <1>2 DEF TrueInv, ClearSticks, FailedIsRefused, table
<1> QED
  BY <1>1, <1>3, <1>4, <1>5 DEF TrueInv

LEMMA ScanKeepsTrue ==
    ASSUME TrueInv, NEW a \in Assets, ScanIndex(a) \/ ScanPrune(a)
    PROVE  TrueInv'
<1> USE PublicationAssumption
<1> DEFINE fresh == [id |-> nextId, ver |-> disk[a], rec |-> 1, thumb |-> None]
           moved == [id |-> rows[a].id, ver |-> disk[a], rec |-> rows[a].rec + 1,
                     thumb |-> None]
<1>1. /\ rows[a] \in Rows /\ nextId \in Nat /\ disk[a] \in 0 .. MaxVersion
      /\ TypeOK /\ RowOK(a) /\ FailureOK(a)
  BY DEF TrueInv, TypeOK
<1>2. /\ rows' \in [Assets -> Rows] /\ nextId' \in Nat /\ nextId <= nextId'
      /\ \A b \in Assets \ {a} : rows'[b] = rows[b]
      /\ \/ rows'[a] = NoRow /\ nextId' = nextId
         \/ /\ disk[a] # 0
            /\ \/ rows[a] = NoRow /\ rows'[a] = fresh /\ nextId' = nextId + 1
               \/ rows[a] # NoRow /\ rows'[a] = moved /\ nextId' = nextId
  <2>1. CASE ScanPrune(a)
    <3>1. NoRow \in Rows
      BY DEF NoRow, Rows, Thumbs
    <3>2. rows' = [rows EXCEPT ![a] = NoRow] /\ nextId' = nextId
      BY <2>1 DEF ScanPrune
    <3> QED
      BY <1>1, <3>1, <3>2 DEF TypeOK
  <2>2. CASE ScanIndex(a)
    <3>1. fresh \in Rows /\ moved \in Rows
      BY <1>1 DEF Rows, Thumbs
    <3>2. rows' = [rows EXCEPT ![a] = IF rows[a] = NoRow THEN fresh ELSE moved]
      BY <2>2 DEF ScanIndex
    <3>3. nextId' = IF rows[a] = NoRow THEN nextId + 1 ELSE nextId
      BY <2>2 DEF ScanIndex
    <3>4. disk[a] # 0
      BY <2>2 DEF ScanIndex
    <3> HIDE DEF fresh, moved
    <3> QED
      BY <1>1, <3>1, <3>2, <3>3, <3>4 DEF TypeOK
  <2> QED
    BY <2>1, <2>2
<1>3. /\ UNCHANGED <<disk, highest, files, stage, failures, refused, pulled>>
      /\ call' = call /\ jobs' = jobs /\ clear' = clear /\ generation' = generation
  BY DEF ScanIndex, ScanPrune, disks, scheduler, history
<1>4. TypeOK'
  BY <1>2, <1>3 DEF TrueInv, TypeOK
<1>5. rows'[a].id # rows[a].id \/ (rows'[a].id = rows[a].id /\ rows'[a].rec >= rows[a].rec)
  BY <1>1, <1>2 DEF NoRow, Rows, RowOK
<1>6. Progress
  <2>1. ASSUME NEW b \in Assets, b # a
        PROVE  rows'[b] = rows[b] /\ rows[b].rec \in Nat
    BY <1>2, <2>1 DEF TrueInv, TypeOK, Rows
  <2>2. IF rows'[a].id = rows[a].id
        THEN /\ rows[a].rec <= rows'[a].rec
             /\ rows'[a].rec = rows[a].rec => rows'[a].ver = rows[a].ver
        ELSE rows'[a].id = 0 \/ rows'[a].id >= nextId
    <3>1. CASE rows'[a] = NoRow
      BY <1>1, <3>1 DEF NoRow, Rows, RowOK
    <3>2. CASE rows[a] = NoRow /\ rows'[a] = fresh
      BY <1>1, <3>2 DEF NoRow, Rows, RowOK
    <3>3. CASE rows'[a] = moved
      BY <1>1, <3>3 DEF NoRow, Rows, RowOK
    <3> QED
      BY <1>2, <3>1, <3>2, <3>3
  <2> QED
    BY <1>2, <1>3, <2>1, <2>2 DEF Progress
<1>7. \A c \in Callers : CallOK(c)'
  BY <1>3, <1>4, <1>6, QuietFrame
<1>8. RowOK(a)'
  <2>1. CASE rows'[a] = NoRow
    BY <2>1 DEF RowOK
  <2>2. CASE disk[a] # 0 /\ rows'[a] = fresh /\ nextId' = nextId + 1
    <3>1. disk[a] \in Versions /\ nextId \in 1 .. nextId' - 1
      BY <1>1, <2>2 DEF Versions, TypeOK
    <3> QED
      BY <2>2, <3>1 DEF RowOK
  <2>3. CASE disk[a] # 0 /\ rows[a] # NoRow /\ rows'[a] = moved /\ nextId' = nextId
    <3>1. disk[a] \in Versions /\ rows[a].id \in 1 .. nextId' - 1
      BY <1>1, <2>3 DEF Versions, RowOK
    <3> QED
      BY <2>3, <3>1 DEF RowOK
  <2> QED
    BY <1>2, <2>1, <2>2, <2>3
<1>9. FailureOK(a)'
  <2> SUFFICES ASSUME failures[a] # None
               PROVE  /\ failures[a][1] \in 1 .. nextId' - 1
                      /\ rows'[a].id # failures[a][1] \/ failures[a][2] < rows'[a].rec
    <3>1. failures'[a] = failures[a]
      BY <1>3
    <3>2. failures[a] \in {None} \cup (Nat \X Nat) /\ rows'[a] \in Rows
      BY <1>1, <1>2 DEF TypeOK
    <3> QED
      BY <3>1, <3>2 DEF FailureOK, Rows
  <2>1. failures[a] \in Nat \X Nat
    BY <1>1 DEF TypeOK
  <2> QED
    BY <1>1, <1>2, <2>1 DEF FailureOK, NoRow, Rows, RowOK
<1>10. ASSUME NEW b \in Assets, b # a PROVE RowOK(b)' /\ FailureOK(b)'
  <2>1. RowOK(b) /\ FailureOK(b) /\ rows'[b] = rows[b] /\ rows[b] \in Rows
    BY <1>2, <1>10 DEF TrueInv, TypeOK
  <2>2. failures[b] \in {None} \cup (Nat \X Nat) /\ failures'[b] = failures[b]
    BY <1>3 DEF TrueInv, TypeOK
  <2> QED
    BY <1>1, <1>2, <1>3, <2>1, <2>2 DEF RowOK, FailureOK, Rows
<1>11. ClearSticks' /\ FailedIsRefused'
  BY <1>2, <1>3 DEF TrueInv, ClearSticks, FailedIsRefused, NoRow
<1> QED
  BY <1>4, <1>7, <1>8, <1>9, <1>10, <1>11 DEF TrueInv

LEMMA PromisedType ==
    ASSUME TypeOK, NEW gone
    PROVE  Promised(gone) \subseteq Targets
BY DEF TypeOK, Promised

LEMMA RemoveKeepsTrue ==
    ASSUME TrueInv, NEW a \in Assets, RemoveAsset(a)
    PROVE  TrueInv'
<1>1. /\ rows' = [rows EXCEPT ![a] = NoRow] /\ files' = files \ {rows[a].thumb}
      /\ failures' = [failures EXCEPT ![a] = None] /\ NobodyReads
      /\ UNCHANGED <<disk, highest, nextId, generation, jobs, stage, call, clear, refused>>
      /\ pulled' = pulled \cup Promised({rows[a].thumb})
  BY DEF RemoveAsset, flags, scheduler
<1>2. NoRow \in Rows /\ NoRow.id = 0
  BY PublicationAssumption DEF NoRow, Rows, Thumbs
<1>3. TypeOK'
  <2>1. Promised({rows[a].thumb}) \subseteq Targets
    BY PromisedType DEF TrueInv
  <2> QED
    BY <1>1, <1>2, <2>1 DEF TrueInv, TypeOK
<1>4. /\ rows'[a] = NoRow /\ failures'[a] = None
      /\ \A b \in Assets \ {a} : rows'[b] = rows[b] /\ failures'[b] = failures[b]
  BY <1>1 DEF TrueInv, TypeOK
<1>5. \A b \in Assets : rows[b] \in Rows /\ rows[b].rec \in Nat /\ RowOK(b)
  BY DEF TrueInv, TypeOK, Rows
<1>6. rows[a].id # 0
  BY <1>5 DEF RemoveAsset, RowOK
<1>7. Progress
  BY <1>1, <1>2, <1>4, <1>5, <1>6, <1>3 DEF Progress, TypeOK
<1>8. \A c \in Callers : CallOK(c)'
  BY <1>1, <1>3, <1>7, QuietFrame
<1>9. \A b \in Assets : RowOK(b)' /\ FailureOK(b)'
  BY <1>1, <1>4 DEF TrueInv, RowOK, FailureOK
<1>10. ClearSticks' /\ FailedIsRefused'
  BY <1>1, <1>4 DEF TrueInv, ClearSticks, FailedIsRefused, NoRow
<1> QED
  BY <1>3, <1>8, <1>9, <1>10 DEF TrueInv

LEMMA CancelKeepsTrue ==
    ASSUME TrueInv, CancelRender
    PROVE  TrueInv'
<1>1. UNCHANGED <<disk, highest, files, rows, nextId, failures, generation, jobs, stage, call,
                  clear, refused, pulled>>
  BY DEF CancelRender, disks, table, scheduler, history
<1>2. TypeOK'
  BY <1>1 DEF TrueInv, TypeOK
<1>3. Progress /\ \A b \in Assets : RowOK(b)' /\ FailureOK(b)'
  BY <1>1, RowsFrame DEF table
<1>4. \A c \in Callers : CallOK(c)'
  BY <1>1, <1>2, <1>3, QuietFrame
<1>5. ClearSticks' /\ FailedIsRefused'
  BY <1>1 DEF TrueInv, ClearSticks, FailedIsRefused
<1> QED
  BY <1>2, <1>3, <1>4, <1>5 DEF TrueInv

\* While clear_all is at work, nobody reads.
LEMMA ClearIsAlone ==
    ASSUME TrueInv, clear.at # "idle"
    PROVE  NobodyReads
BY DEF TrueInv, CallOK, Locked, NobodyReads

LEMMA ClearKeepsTrue ==
    ASSUME TrueInv, Clear
    PROVE  TrueInv'
<1>1. NobodyReads /\ UNCHANGED <<disk, highest, nextId, jobs, stage, call, refused>>
  BY ClearIsAlone DEF Clear, ClearBegin, ClearRows, ClearFailures, ClearList, ClearSweep,
       disks, table, scheduler, history
<1>2. rows' = rows \/ rows' = [a \in Assets |-> [rows[a] EXCEPT !.thumb = None]]
  BY DEF Clear, ClearBegin, ClearRows, ClearFailures, ClearList, ClearSweep, table
<1>3. failures' = failures \/ failures' = [a \in Assets |-> None]
  BY DEF Clear, ClearBegin, ClearRows, ClearFailures, ClearList, ClearSweep
<1>4. \A a \in Assets : rows[a] \in Rows /\ RowOK(a) /\ FailureOK(a)
  BY DEF TrueInv, TypeOK
<1>5. \A a \in Assets :
        /\ rows'[a] \in Rows /\ rows'[a].id = rows[a].id /\ rows'[a].ver = rows[a].ver
        /\ rows'[a].rec = rows[a].rec
        /\ rows'[a].thumb = rows[a].thumb \/ rows'[a].thumb = None
  BY <1>2, <1>4 DEF Rows, Thumbs
<1>6. TypeOK'
  <2>1. rows' \in [Assets -> Rows]
    BY <1>2, <1>5 DEF TrueInv, TypeOK
  <2>2. failures' \in [Assets -> {None} \cup (Nat \X Nat)]
    BY <1>3 DEF TrueInv, TypeOK
  <2>3. /\ files' \subseteq Targets /\ generation' \in Nat /\ pulled' \subseteq Targets
        /\ clear' \in [at : {"idle", "rows", "failures", "list", "sweep"},
                       listed : SUBSET Targets, count : Nat]
    <3>1. CASE ClearBegin
      BY <3>1 DEF TrueInv, TypeOK, ClearBegin, history
    <3>2. CASE ClearRows \/ ClearFailures \/ ClearList
      BY <3>2 DEF TrueInv, TypeOK, ClearRows, ClearFailures, ClearList, history
    <3>3. CASE ClearSweep
      <4>1. Promised(clear.listed) \subseteq Targets
        BY PromisedType DEF TrueInv
      <4> QED
        BY <3>3, <4>1 DEF TrueInv, TypeOK, ClearSweep
    <3> QED
      BY <3>1, <3>2, <3>3 DEF Clear
  <2> QED
    BY <1>1, <2>1, <2>2, <2>3 DEF TrueInv, TypeOK
<1>7. Progress
  <2>1. \A a \in Assets : rows[a].rec \in Nat
    BY <1>4 DEF Rows
  <2> QED
    BY <1>1, <1>5, <1>6, <2>1 DEF Progress, TypeOK
<1>8. \A c \in Callers : CallOK(c)'
  BY <1>1, <1>6, <1>7, QuietFrame
<1>9. ASSUME NEW a \in Assets PROVE RowOK(a)' /\ FailureOK(a)'
  <2>1. rows'[a] = NoRow \/ rows[a] # NoRow
    <3>1. ASSUME rows[a] = NoRow PROVE rows'[a] = NoRow
      BY <1>2, <3>1 DEF NoRow
    <3> QED
      BY <3>1
  <2>2. RowOK(a)'
    BY <1>1, <1>4, <1>5, <2>1 DEF RowOK
  <2>3. FailureOK(a)'
    BY <1>1, <1>3, <1>4, <1>5 DEF FailureOK
  <2> QED
    BY <2>2, <2>3
<1>10. ClearSticks'
  <2>1. CASE ClearRows
    BY <1>4, <2>1 DEF ClearRows, ClearSticks, Rows
  <2>2. CASE ClearBegin \/ ClearSweep
    BY <2>2 DEF ClearBegin, ClearSweep, ClearSticks, TrueInv, TypeOK
  <2>3. CASE ClearFailures \/ ClearList
    BY <2>3 DEF ClearFailures, ClearList, ClearSticks, TrueInv, TypeOK, table
  <2> QED
    BY <2>1, <2>2, <2>3 DEF Clear
<1>11. FailedIsRefused'
  BY <1>1 DEF TrueInv, FailedIsRefused
<1> QED
  BY <1>6, <1>8, <1>9, <1>10, <1>11 DEF TrueInv

-----------------------------------------------------------------------------
(* The steps of a caller: a call begins, and reads its rows                *)

LEMMA CallTakes ==
    ASSUME TypeOK, NEW c \in Callers, NEW r \in CallType,
           call' = [call EXCEPT ![c] = r]
    PROVE  /\ call' \in [Callers -> CallType] /\ call'[c] = r
           /\ \A d \in Callers \ {c} : call'[d] = call[d]
BY DEF TypeOK

\* The frame of a step that changes nothing but the calls.
LEMMA OnlyCallsFrame ==
    ASSUME TrueInv, NEW c \in Callers, NEW r \in CallType,
           call' = [call EXCEPT ![c] = r],
           UNCHANGED <<disk, highest, files, rows, nextId, failures, generation, clear>>,
           refused \subseteq refused', refused' \subseteq Targets,
           stage' = stage, pulled' \subseteq Targets,
           jobs' \in UNION {[S -> SUBSET Callers] : S \in SUBSET Targets},
           \A d \in Callers \ {c} : InJobs(d)' \subseteq InJobs(d),
           TypeOK' => CallOK(c)'
    PROVE  TrueInv'
<1>1. call' \in [Callers -> CallType] /\ \A d \in Callers \ {c} : call'[d] = call[d]
  BY CallTakes DEF TrueInv
<1>2. TypeOK'
  BY <1>1 DEF TrueInv, TypeOK
<1>3. Progress /\ \A a \in Assets : RowOK(a)' /\ FailureOK(a)'
  BY RowsFrame DEF table
<1>4. \A d \in Callers : CallOK(d)'
  BY <1>1, <1>2, <1>3, CallerFrame
<1>5. ClearSticks' /\ FailedIsRefused'
  BY DEF TrueInv, ClearSticks, FailedIsRefused
<1> QED
  BY <1>2, <1>3, <1>4, <1>5 DEF TrueInv

\* Rows just read are what the rows are.
LEMMA FreshRead ==
    ASSUME TrueInv, NEW c \in Callers, NEW S \in SUBSET Assets, TypeOK',
           call'[c].snap = ReadRows(S), UNCHANGED table
    PROVE  SnapOK(c)' /\ Known(c)' = {a \in S : rows[a] # NoRow}
<1>1. /\ ReadRows(S) \in Snaps /\ DOMAIN ReadRows(S) = S
      /\ \A a \in S : ReadRows(S)[a] = rows[a]
  BY SnapRead DEF TrueInv
<1>2. Known(c)' = {a \in S : rows[a] # NoRow}
  BY <1>1 DEF Known
<1>3. ASSUME NEW a \in Known(c)' PROVE
        LET old == call'[c].snap[a] IN
        /\ old = rows[a] /\ rows'[a] = rows[a] /\ rows[a] \in Rows
        /\ rows[a].id \in 1 .. nextId - 1 /\ rows[a].ver \in Versions
        /\ rows[a].thumb \in {None, thumb_target(a, rows[a].ver)}
  BY <1>1, <1>2, <1>3 DEF TrueInv, TypeOK, RowOK, table
<1>4. SnapOK(c)'
  <2> SUFFICES ASSUME NEW a \in Known(c)'
               PROVE  LET old == call'[c].snap[a] IN
                      /\ old.id \in 1 .. nextId' - 1 /\ old.ver \in Versions
                      /\ old.thumb \in {None, Target(c, a)'}
                      /\ rows'[a].id = old.id =>
                          /\ old.rec <= rows'[a].rec
                          /\ rows'[a].rec = old.rec => rows'[a].ver = old.ver
    BY DEF SnapOK
  <2>1. rows[a].rec <= rows[a].rec
    BY <1>3 DEF Rows
  <2>2. Target(c, a)' = thumb_target(a, rows[a].ver)
    BY <1>3 DEF Target, thumb_target
  <2> QED
    BY <1>3, <2>1, <2>2 DEF table
<1> QED
  BY <1>2, <1>4

LEMMA BeginDemandKeepsTrue ==
    ASSUME TrueInv, NEW c \in Callers, NEW a \in Assets, BeginDemand(c, a)
    PROVE  TrueInv'
<1> DEFINE r == [NewCall EXCEPT !.kind = "demand", !.gen = generation,
                   !.at = IF rows[a] = NoRow THEN "done" ELSE "visit",
                   !.todo = IF rows[a] = NoRow THEN {} ELSE {a},
                   !.snap = ReadRows({a})]
<1>1. ReadRows({a}) \in Snaps /\ generation \in Nat /\ NewCall \in CallType
  BY SnapRead, NewCallType DEF TrueInv, TypeOK
<1>2. /\ r \in CallType
      /\ r.at = IF rows[a] = NoRow THEN "done" ELSE "visit"
      /\ r.todo = IF rows[a] = NoRow THEN {} ELSE {a}
      /\ r.snap = ReadRows({a}) /\ r.gen = generation
      /\ r.pend = {} /\ r.inbox = {} /\ r.updates = {}
      /\ \A S : r.ops \in Seq(S)
  <2>1. r \in CallType
    BY <1>1 DEF CallType, Kinds
  <2> QED
    BY <1>1, <2>1, NewCallType DEF CallType
<1> HIDE DEF r
<1>3. call' = [call EXCEPT ![c] = r] /\ New(c) /\ OnlyCalls
  BY DEF BeginDemand, r
<1>4. call'[c] = r
  BY <1>2, <1>3, CallTakes DEF TrueInv
<1>5. ASSUME TypeOK' PROVE CallOK(c)'
  <2>1. SnapOK(c)' /\ Known(c)' = {b \in {a} : rows[b] # NoRow}
    BY <1>2, <1>3, <1>4, <1>5, FreshRead DEF OnlyCalls
  <2>2. InJobs(c)' = {}
    BY <1>3 DEF New, OnlyCalls, scheduler, TrueInv, CallOK, Queued, InJobs
  <2>3. OwnItems(c)' /\ Awaited(c)' /\ Queued(c)'
    BY <1>2, <1>4, <2>1, <2>2 DEF OwnItems, Awaited, Queued, Working
  <2>4. Locked(c)'
    BY <1>2, <1>3, <1>4 DEF Locked, New, CanRead, OnlyCalls
  <2> QED
    BY <1>2, <1>4, <2>1, <2>3, <2>4 DEF CallOK
<1> QED
  BY <1>2, <1>3, <1>5, OnlyCallsFrame
     DEF OnlyCalls, disks, table, scheduler, history, TrueInv, TypeOK, InJobs

LEMMA BeginPageKeepsTrue ==
    ASSUME TrueInv, NEW c \in Callers, NEW ids \in SUBSET Assets, New(c), BeginPage(c, ids)
    PROVE  TrueInv'
<1> DEFINE r == [NewCall EXCEPT !.kind = "page", !.at = "visit", !.gen = generation,
                   !.todo = {a \in ids : rows[a] # NoRow},
                   !.failed = {a \in ids : rows[a] = NoRow},
                   !.seen = ids, !.snap = ReadRows(ids)]
<1>1. ReadRows(ids) \in Snaps /\ generation \in Nat /\ NewCall \in CallType
  BY SnapRead, NewCallType DEF TrueInv, TypeOK
<1>2. /\ r \in CallType /\ r.at = "visit"
      /\ r.todo = {a \in ids : rows[a] # NoRow}
      /\ r.snap = ReadRows(ids) /\ r.gen = generation
      /\ r.pend = {} /\ r.inbox = {} /\ r.updates = {}
      /\ \A S : r.ops \in Seq(S)
  <2>1. r \in CallType
    BY <1>1 DEF CallType, Kinds
  <2> QED
    BY <1>1, <2>1, NewCallType DEF CallType
<1> HIDE DEF r
<1>3. call' = [call EXCEPT ![c] = r] /\ New(c) /\ OnlyCalls
  BY DEF BeginPage, r
<1>4. call'[c] = r
  BY <1>2, <1>3, CallTakes DEF TrueInv
<1>5. ASSUME TypeOK' PROVE CallOK(c)'
  <2>1. SnapOK(c)' /\ Known(c)' = {b \in ids : rows[b] # NoRow}
    BY <1>2, <1>3, <1>4, <1>5, FreshRead DEF OnlyCalls
  <2>2. InJobs(c)' = {}
    BY <1>3 DEF New, OnlyCalls, scheduler, TrueInv, CallOK, Queued, InJobs
  <2>3. OwnItems(c)' /\ Awaited(c)' /\ Queued(c)'
    BY <1>2, <1>4, <2>1, <2>2 DEF OwnItems, Awaited, Queued, Working
  <2>4. Locked(c)'
    BY <1>2, <1>3, <1>4 DEF Locked, New, CanRead, OnlyCalls
  <2> QED
    BY <1>2, <1>4, <2>1, <2>3, <2>4 DEF CallOK
<1> QED
  BY <1>2, <1>3, <1>5, OnlyCallsFrame
     DEF OnlyCalls, disks, table, scheduler, history, TrueInv, TypeOK, InJobs

\* A bounded, nonempty set of numbers has a greatest element.
LEMMA HasGreatest ==
    ASSUME NEW n \in Nat, NEW S \in SUBSET (0 .. n), S # {}
    PROVE  \E m \in S : \A x \in S : x <= m
<1> DEFINE T == {n - x : x \in S}
<1>1. \A x \in S : x \in 0 .. n /\ n - x \in Nat
  OBVIOUS
<1>2. T \subseteq Nat /\ T # {}
  BY <1>1
<1>3. PICK t \in T : \A u \in T : ~(<<u, t>> \in OpToRel(<, Nat))
  BY <1>2, NatLessThanWellFounded, WFMin
<1>4. \A u \in T : ~(u < t)
  <2> TAKE u \in T
  <2>1. u \in Nat /\ t \in Nat /\ ~(<<u, t>> \in OpToRel(<, Nat))
    BY <1>2, <1>3
  <2> HIDE DEF T
  <2> QED
    BY <2>1 DEF OpToRel
<1>5. PICK m \in S : t = n - m
  BY <1>3
<1>6. ASSUME NEW x \in S PROVE x <= m
  <2>1. n - x \in T /\ ~(n - x < n - m)
    BY <1>4, <1>5
  <2> QED
    BY <1>1, <2>1
<1> QED
  BY <1>6

\* The greatest id there is.
LEMMA MaxIdIsGreatest ==
    ASSUME TrueInv
    PROVE  MaxId \in Nat /\ MaxId < nextId /\ \A a \in Assets : rows[a].id <= MaxId
<1>1. /\ nextId \in Nat \ {0} /\ Assets # {}
      /\ \A a \in Assets : rows[a].id \in 0 .. nextId - 1
  BY PublicationAssumption DEF TrueInv, TypeOK, RowOK, NoRow
<1>2. Ids # {} /\ Ids \subseteq 0 .. nextId - 1
  BY <1>1 DEF Ids
<1>3. \E m \in Ids : \A i \in Ids : i <= m
  <2>1. nextId - 1 \in Nat /\ Ids \in SUBSET (0 .. nextId - 1)
    BY <1>1, <1>2
  <2> QED
    BY <1>2, <2>1, HasGreatest
<1>4. MaxId \in Ids /\ \A i \in Ids : i <= MaxId
  BY <1>3 DEF MaxId
<1> QED
  BY <1>1, <1>2, <1>4 DEF Ids

LEMMA BeginBulkKeepsTrue ==
    ASSUME TrueInv, NEW c \in Callers, NEW kind \in {"bulk", "failed"},
           BeginBulk(c, kind) \/ RefuseBulk(c, kind)
    PROVE  TrueInv'
<1> DEFINE begun == [NewCall EXCEPT !.kind = kind, !.at = "page", !.gen = generation,
                       !.ceiling = MaxId]
           ended == [NewCall EXCEPT !.kind = kind, !.at = "done"]
<1>1. NewCall \in CallType /\ MaxId \in Nat /\ generation \in Nat
  BY MaxIdIsGreatest, NewCallType DEF TrueInv, TypeOK
<1>2. begun \in CallType /\ ended \in CallType
  BY <1>1 DEF CallType, Kinds
<1>3. \A r \in {begun, ended} :
        /\ r \in CallType /\ r.snap = <<>> /\ r.updates = {}
        /\ r.pend = {} /\ r.inbox = {}
        /\ r.at \in {"page", "done"} /\ (r.at = "page" => r.gen = generation)
        /\ \A S : r.ops \in Seq(S)
  <2> DEFINE Idle(r) ==
        /\ r.snap = <<>> /\ r.updates = {} /\ r.pend = {} /\ r.inbox = {}
        /\ r.ops = NewCall.ops
  <2>1. Idle(begun) /\ begun.at = "page" /\ begun.gen = generation
    BY <1>1, NewCallType DEF CallType
  <2>2. Idle(ended) /\ ended.at = "done"
    BY <1>1, NewCallType DEF CallType
  <2> QED
    BY <1>2, <2>1, <2>2, NewCallType
<1>4. /\ New(c) /\ jobs' = jobs /\ stage' = stage
      /\ UNCHANGED <<disk, highest, files, rows, nextId, failures, generation, clear,
                     refused, pulled>>
  BY DEF BeginBulk, RefuseBulk, OnlyCalls, disks, table, scheduler, history
<1>5. PICK r \in {begun, ended} : call' = [call EXCEPT ![c] = r]
  BY DEF BeginBulk, RefuseBulk
<1> HIDE DEF begun, ended
<1>6. call'[c] = r
  BY <1>3, <1>5, CallTakes DEF TrueInv
<1>7. ASSUME TypeOK' PROVE CallOK(c)'
  <2>1. SnapOK(c)' /\ Known(c)' = {}
    BY <1>3, <1>6, EmptySnap DEF Known, SnapOK
  <2>2. InJobs(c)' = {}
    BY <1>4 DEF New, TrueInv, CallOK, Queued, InJobs
  <2>3. OwnItems(c)' /\ Awaited(c)' /\ Queued(c)'
    BY <1>3, <1>6, <2>1, <2>2 DEF OwnItems, Awaited, Queued, Working
  <2>4. Locked(c)'
    BY <1>3, <1>4, <1>6 DEF Locked, New, CanRead, Active
  <2> QED
    BY <1>3, <1>6, <2>1, <2>3, <2>4 DEF CallOK
<1> QED
  BY <1>3, <1>4, <1>5, <1>7, OnlyCallsFrame DEF TrueInv, TypeOK, InJobs

-----------------------------------------------------------------------------
(* A call ends, or reads the next page                                     *)

\* What a caller whose call has ended looks like.
Ended(record) ==
    [NewCall EXCEPT !.at = "done", !.kind = record.kind,
       !.seen = record.seen, !.ready = record.ready,
       !.failed = record.failed, !.stale = record.stale,
       !.skipped = record.skipped, !.cancelled = record.cancelled]

LEMMA EndedType ==
    ASSUME NEW record \in CallType
    PROVE  /\ Ended(record) \in CallType /\ Ended(record).at = "done"
           /\ Ended(record).snap = <<>> /\ Ended(record).updates = {}
           /\ Ended(record).pend = {} /\ Ended(record).inbox = {}
           /\ Ended(record).todo = {} /\ Ended(record).ops = <<>>
<1>1. Ended(record) \in CallType
  BY NewCallType DEF Ended, CallType
<1> QED
  BY <1>1, NewCallType DEF Ended, CallType

LEMMA EndKeepsTrue ==
    ASSUME TrueInv, NEW c \in Callers, NEW record \in CallType, End(c, record),
           UNCHANGED <<disks, files, table, failures, generation, clear, history>>
    PROVE  TrueInv'
<1> DEFINE r == Ended(record)
<1>1. /\ r \in CallType /\ r.at = "done" /\ r.snap = <<>> /\ r.updates = {}
      /\ r.pend = {} /\ r.inbox = {} /\ r.ops = <<>>
  BY EndedType
<1>2. /\ call' = [call EXCEPT ![c] = r] /\ jobs' = [t \in DOMAIN jobs |-> jobs[t] \ {c}]
      /\ stage' = stage
  BY DEF End, Ended
<1> HIDE DEF r
<1>3. call'[c] = r
  BY <1>1, <1>2, CallTakes DEF TrueInv
<1>4. jobs' \in UNION {[S -> SUBSET Callers] : S \in SUBSET Targets}
  <2>1. PICK S \in SUBSET Targets : jobs \in [S -> SUBSET Callers]
    BY DEF TrueInv, TypeOK
  <2>2. jobs' \in [S -> SUBSET Callers]
    BY <1>2, <2>1
  <2> QED
    BY <2>2
<1>5. InJobs(c)' = {} /\ \A d \in Callers \ {c} : InJobs(d)' \subseteq InJobs(d)
  BY <1>2 DEF InJobs
<1>6. ASSUME TypeOK' PROVE CallOK(c)'
  <2>1. SnapOK(c)' /\ Known(c)' = {}
    BY <1>1, <1>3, EmptySnap DEF Known, SnapOK
  <2>2. OwnItems(c)' /\ Awaited(c)' /\ Queued(c)'
    BY <1>1, <1>3, <1>5, <2>1 DEF OwnItems, Awaited, Queued, Working
  <2>3. Locked(c)'
    BY <1>1, <1>3 DEF Locked, Active
  <2> QED
    BY <1>1, <1>3, <2>1, <2>2, <2>3, EmptyIsSeq DEF CallOK
<1> QED
  BY <1>1, <1>2, <1>4, <1>5, <1>6, OnlyCallsFrame DEF disks, table, scheduler, history, TrueInv, TypeOK

LEMMA FinishKeepsTrue ==
    ASSUME TrueInv, NEW c \in Callers, Finish(c) \/ TimeOut(c)
    PROVE  TrueInv'
<1>1. call[c] \in CallType
  BY DEF TrueInv, TypeOK
<1>2. [NewCall EXCEPT !.kind = "error"] \in CallType
  BY NewCallType DEF CallType
<1>3. CASE Finish(c)
  BY <1>1, <1>3, EndKeepsTrue DEF Finish
<1>4. CASE TimeOut(c)
  BY <1>2, <1>4, EndKeepsTrue DEF TimeOut
<1> QED
  BY <1>3, <1>4

\* The last id of a page, which is not empty.
LEMMA LastIdIsGreatest ==
    ASSUME TrueInv, NEW page \in SUBSET Assets, page # {}
    PROVE  LastId(page) \in Nat /\ \A a \in page : rows[a].id <= LastId(page)
<1> DEFINE S == {rows[a].id : a \in page}
<1>1. nextId - 1 \in Nat /\ \A a \in Assets : rows[a].id \in 0 .. nextId - 1
  BY DEF TrueInv, TypeOK, RowOK, NoRow
<1>2. S \in SUBSET (0 .. nextId - 1) /\ S # {}
  BY <1>1
<1>3. \E m \in S : \A i \in S : i <= m
  <2> HIDE DEF S
  <2> QED
    BY <1>1, <1>2, HasGreatest
<1>4. LastId(page) \in S /\ \A a \in page : rows[a].id <= LastId(page)
  <2>1. \E m \in S : \A a \in page : rows[a].id <= m
    BY <1>3
  <2> QED
    BY <2>1 DEF LastId
<1> QED
  BY <1>2, <1>4

LEMMA BulkPageKeepsTrue ==
    ASSUME TrueInv, NEW c \in Callers, BulkPage(c)
    PROVE  TrueInv'
<1> DEFINE page == CandidatePage(call[c].kind, call[c].after, call[c].ceiling)
           r == [call[c] EXCEPT
                   !.at = "visit", !.todo = page, !.snap = ReadRows(page),
                   !.after = LastId(page), !.seen = call[c].seen \cup page,
                   !.bad = {a \in page : HasFailed(a)}]
<1>1. call[c] \in CallType /\ CallOK(c)
  BY DEF TrueInv, TypeOK
<1>2. page \in SUBSET Assets /\ \A a \in page : rows[a].id > call[c].after
  BY DEF CandidatePage, Candidates
<1>3. CASE page = {}
  BY <1>1, <1>3, EndKeepsTrue DEF BulkPage
<1>4. CASE page # {}
  <2>1. /\ call' = [call EXCEPT ![c] = r] /\ call[c].at = "page" /\ call[c].ops = <<>>
        /\ UNCHANGED <<disks, files, table, failures, generation, clear, history, jobs, stage>>
    BY <1>4 DEF BulkPage, scheduler
  <2>2. LastId(page) \in Nat /\ ReadRows(page) \in Snaps
    BY <1>2, <1>4, LastIdIsGreatest, SnapRead DEF TrueInv
  <2> HIDE DEF page
  <2>3. r \in CallType
    BY <1>1, <1>2, <2>2 DEF CallType
  <2>4. /\ r.at = "visit" /\ r.todo = page /\ r.snap = ReadRows(page)
        /\ r.ops = <<>> /\ r.pend = call[c].pend /\ r.inbox = call[c].inbox
        /\ r.updates = call[c].updates /\ r.gen = call[c].gen
    BY <1>1, <2>1 DEF CallType
  <2>5. call'[c] = r
    BY <2>1, <2>3, CallTakes DEF TrueInv
  <2> HIDE DEF r
  <2>6. ASSUME TypeOK' PROVE CallOK(c)'
    <3>1. SnapOK(c)' /\ Known(c)' = {b \in page : rows[b] # NoRow}
      BY <1>2, <2>1, <2>4, <2>5, <2>6, FreshRead
    <3>2. Known(c)' = page
      <4>1. \A a \in page : rows[a].id > 0
        BY <1>1, <1>2 DEF CallType, TrueInv, TypeOK, Rows
      <4> QED
        BY <3>1, <4>1 DEF NoRow
    <3>3. InJobs(c)' = {} /\ call[c].inbox = {} /\ call[c].pend = {}
      BY <1>1, <2>1 DEF CallOK, Queued, InJobs
    <3>4. call[c].updates = {}
      BY <1>1, <2>1 DEF CallOK, OwnItems, Working
    <3>5. OwnItems(c)' /\ Awaited(c)' /\ Queued(c)'
      BY <2>4, <2>5, <3>2, <3>3, <3>4 DEF OwnItems, Awaited, Queued, Working
    <3>6. Locked(c)'
      BY <1>1, <2>1, <2>4, <2>5 DEF Locked, Active, CallOK
    <3> QED
      BY <2>4, <2>5, <3>1, <3>5, <3>6, EmptyIsSeq DEF CallOK
  <2> QED
    BY <2>1, <2>3, <2>6, OnlyCallsFrame
       DEF disks, table, scheduler, history, TrueInv, TypeOK, InJobs
<1> QED
  BY <1>3, <1>4

-----------------------------------------------------------------------------
(* A visit, and a result                                                   *)

LEMMA SmallSeqs ==
    ASSUME NEW S, NEW x \in S
    PROVE  /\ <<x>> \in Seq(S)
           /\ \A y \in S : <<x, y>> \in Seq(S)
           /\ \A s \in Seq(S) : <<x>> \o s \in Seq(S) /\ s \o <<x>> \in Seq(S)
<1>1. <<x>> \in Seq(S) /\ \A y \in S : <<x, y>> \in Seq(S)
  OBVIOUS
<1>2. \A s \in Seq(S) : <<x>> \o s \in Seq(S) /\ s \o <<x>> \in Seq(S)
  BY <1>1
<1> QED
  BY <1>1, <1>2

LEMMA ConcatIsSeq ==
    ASSUME NEW S, NEW s \in Seq(S), NEW t \in Seq(S)
    PROVE  s \o t \in Seq(S)
OBVIOUS

\* The operations a caller may have to make about a row it knows.
LEMMA OwnOpsOf ==
    ASSUME TypeOK, TypeOK', Progress, NEW c \in Callers, SnapOK(c),
           call'[c].snap = call[c].snap
    PROVE  /\ \A a \in Known(c) :
              /\ Target(c, a) \in Targets
              /\ \A t \in {None, Target(c, a)}, l \in {"go on", "delete", "stop"} :
                    (l = "delete" => t # None) =>
                        CasOp(a, t, l) \in OwnOps(c)' /\ RereadOp(a, t, l) \in OwnOps(c)'
              /\ Target(c, a) # None
              /\ PublishOp(a, Target(c, a)) \in OwnOps(c)'
              /\ NoteOp(a, TRUE) \in OwnOps(c)'
              /\ Target(c, a) \in refused' => NoteOp(a, FALSE) \in OwnOps(c)'
           /\ \A T \in SUBSET Targets : DeleteOp(T) \in OwnOps(c)'
<1>1. /\ Known(c)' = Known(c) /\ \A a : Target(c, a)' = Target(c, a)
  BY SnapFrame
<1>2. Known(c) \subseteq Assets
  BY SnapType DEF TypeOK, CallType, Known
<1>3. \A T \in SUBSET Targets : DeleteOp(T) \in OwnOps(c)'
  BY DEF DeleteOp, OwnOps, AllOps, DeleteOps
<1>4. ASSUME NEW a \in Known(c)
      PROVE  /\ Target(c, a) \in Targets
             /\ \A t \in {None, Target(c, a)}, l \in {"go on", "delete", "stop"} :
                    (l = "delete" => t # None) =>
                        CasOp(a, t, l) \in OwnOps(c)' /\ RereadOp(a, t, l) \in OwnOps(c)'
             /\ Target(c, a) # None
             /\ PublishOp(a, Target(c, a)) \in OwnOps(c)'
             /\ NoteOp(a, TRUE) \in OwnOps(c)'
             /\ Target(c, a) \in refused' => NoteOp(a, FALSE) \in OwnOps(c)'
  <2>1. Target(c, a) \in Targets /\ a \in Assets /\ a \in Known(c)' /\ Target(c, a) # None
    BY <1>1, <1>2, NoneIsNoPair DEF SnapOK, Target, thumb_target, Targets
  <2>2. ASSUME NEW t \in {None, Target(c, a)}, NEW l \in {"go on", "delete", "stop"},
               l = "delete" => t # None
        PROVE  CasOp(a, t, l) \in OwnOps(c)' /\ RereadOp(a, t, l) \in OwnOps(c)'
    <3>1. CasOp(a, t, l) \in CasOps /\ RereadOp(a, t, l) \in CasOps
      BY <2>1, <2>2 DEF CasOp, RereadOp, CasOps, Thumbs
    <3> QED
      BY <1>1, <2>1, <3>1 DEF CasOp, RereadOp, AllOps, OwnOps
  <2>3. PublishOp(a, Target(c, a)) \in OwnOps(c)'
    <3>1. PublishOp(a, Target(c, a)) \in PublishOps
      BY <2>1 DEF PublishOp, PublishOps
    <3> QED
      BY <1>1, <2>1, <3>1 DEF PublishOp, AllOps, OwnOps
  <2>4. NoteOp(a, TRUE) \in OwnOps(c)'
    <3>1. NoteOp(a, TRUE) \in NoteOps
      BY <2>1 DEF NoteOp, NoteOps
    <3> QED
      BY <1>1, <2>1, <3>1 DEF NoteOp, AllOps, OwnOps
  <2>5. Target(c, a) \in refused' => NoteOp(a, FALSE) \in OwnOps(c)'
    <3>1. NoteOp(a, FALSE) \in NoteOps
      BY <2>1 DEF NoteOp, NoteOps
    <3> QED
      BY <1>1, <2>1, <3>1 DEF NoteOp, AllOps, OwnOps
  <2> QED
    BY <2>1, <2>2, <2>3, <2>4, <2>5
<1> QED
  BY <1>3, <1>4

\* What a step of a working caller has to keep.
LEMMA WorkFrame ==
    ASSUME TrueInv, TypeOK', Progress, NEW c \in Callers, Working(c),
           clear' = clear, generation' = generation,
           call'[c].at = call[c].at, call'[c].snap = call[c].snap,
           call'[c].gen = call[c].gen, call'[c].cancelled = call[c].cancelled,
           call'[c].ops \in Seq(OwnOps(c)'),
           call'[c].todo \subseteq call[c].todo, call'[c].pend \subseteq call[c].pend,
           \A u \in call'[c].updates :
              u \in call[c].updates \/ (u.a \in Known(c) /\ u.thumb \in {None, Target(c, u.a)}),
           call'[c].inbox \subseteq call[c].inbox,
           \A r \in call'[c].inbox : r.a \in call'[c].pend,
           InJobs(c)' \subseteq InJobs(c),
           \A t \in InJobs(c)' : t[1] \in call'[c].pend
    PROVE  CallOK(c)'
<1>1. TypeOK /\ CallOK(c)
  BY DEF TrueInv
<1>2. /\ SnapOK(c)' /\ Known(c)' = Known(c) /\ \A a : Target(c, a)' = Target(c, a)
  BY <1>1, SnapFrame DEF CallOK
<1>3. OwnItems(c)'
  BY <1>1, <1>2 DEF CallOK, OwnItems, Working
<1>4. Awaited(c)'
  BY <1>1, <1>2 DEF CallOK, Awaited, Working, Progress
<1>5. Queued(c)'
  BY <1>1, <1>2 DEF CallOK, Queued, Working
<1>6. Locked(c)'
  BY <1>1 DEF CallOK, Locked, Active
<1> QED
  BY <1>2, <1>3, <1>4, <1>5, <1>6 DEF CallOK

\* A visited asset is one the caller knows, and waits for no render.
LEMMA VisitFacts ==
    ASSUME TrueInv, NEW c \in Callers, NEW a \in call[c].todo, Visits(c, a)
    PROVE  /\ a \in Known(c) /\ a \in Assets /\ a \notin call[c].pend
           /\ call[c] \in CallType /\ CallOK(c) /\ Working(c)
           /\ ReadThumb(c, a) \in {None, Target(c, a)} /\ Target(c, a) \in Targets
           /\ \A r \in call[c].inbox : r.a \in call[c].pend
           /\ \A t \in InJobs(c) : t[1] \in call[c].pend
<1>1. call[c] \in CallType /\ CallOK(c) /\ Working(c)
  BY DEF TrueInv, TypeOK, Visits, Working
<1>2. a \in Known(c) /\ a \in Assets /\ a \notin call[c].pend
  BY <1>1 DEF CallOK, OwnItems, CallType
<1>3. ReadThumb(c, a) \in {None, Target(c, a)} /\ Target(c, a) \in Targets
  BY <1>1, <1>2 DEF CallOK, SnapOK, ReadThumb, Target, thumb_target, Targets
<1> QED
  BY <1>1, <1>2, <1>3 DEF CallOK, Awaited, Queued

\* What of a call a visit or a result leaves alone.
SameCall(r, q) ==
    /\ r.kind = q.kind /\ r.at = q.at /\ r.snap = q.snap /\ r.gen = q.gen
    /\ r.after = q.after /\ r.ceiling = q.ceiling /\ r.cancelled = q.cancelled
    /\ r.seen = q.seen /\ r.stale = q.stale

LEMMA HandledIs ==
    ASSUME NEW c \in Callers, call[c] \in CallType, NEW a, NEW ops \in Seq(AllOps)
    PROVE  LET r == Handled(c, a, ops) IN
           /\ r \in CallType /\ SameCall(r, call[c])
           /\ r.todo = call[c].todo \ {a} /\ r.ops = ops /\ r.pend = call[c].pend
           /\ r.inbox = call[c].inbox /\ r.updates = call[c].updates
           /\ r.ready = call[c].ready /\ r.failed = call[c].failed
           /\ r.skipped = call[c].skipped
<1> DEFINE r == Handled(c, a, ops)
<1>1. r \in CallType
  BY DEF Handled, CallType
<1> QED
  BY <1>1 DEF Handled, CallType, SameCall

LEMMA TakenIs ==
    ASSUME NEW c \in Callers, call[c] \in CallType, NEW result \in Results,
           NEW ops \in Seq(AllOps)
    PROVE  LET r == Taken(c, result, ops) IN
           /\ r \in CallType /\ SameCall(r, call[c])
           /\ r.todo = call[c].todo /\ r.ops = ops \o <<NoteOp(result.a, result.ok)>>
           /\ r.pend = call[c].pend \ {result.a} /\ r.inbox = call[c].inbox \ {result}
           /\ r.updates = call[c].updates
           /\ r.ready = call[c].ready /\ r.failed = call[c].failed
           /\ r.skipped = call[c].skipped
<1> DEFINE r == Taken(c, result, ops)
           all == ops \o <<NoteOp(result.a, result.ok)>>
<1>1. NoteOp(result.a, result.ok) \in AllOps
  <2>1. NoteOp(result.a, result.ok) \in NoteOps
    BY DEF NoteOp, NoteOps, Results
  <2> QED
    BY <2>1 DEF AllOps
<1>2. all \in Seq(AllOps)
  BY <1>1, SmallSeqs
<1>3. r = [call[c] EXCEPT !.inbox = call[c].inbox \ {result},
                          !.pend = call[c].pend \ {result.a}, !.ops = all]
  BY DEF Taken
<1> HIDE DEF r, all
<1>4. r \in CallType
  BY <1>2, <1>3 DEF CallType
<1> QED
  BY <1>3, <1>4 DEF CallType, SameCall, r, all

LEMMA AnswerIs ==
    ASSUME NEW q \in CallType, NEW a \in Assets, NEW t \in Thumbs
    PROVE  /\ LET r == Good(q, a, t) IN
              /\ r \in CallType /\ SameCall(r, q) /\ r.todo = q.todo /\ r.ops = q.ops
              /\ r.pend = q.pend /\ r.inbox = q.inbox
              /\ r.updates = q.updates \cup {Update(a, t)}
              /\ r.ready = q.ready \cup {a} /\ r.failed = q.failed /\ r.skipped = q.skipped
           /\ LET r == Bad(q, a) IN
              /\ r \in CallType /\ SameCall(r, q) /\ r.todo = q.todo /\ r.ops = q.ops
              /\ r.pend = q.pend /\ r.inbox = q.inbox
              /\ r.updates = q.updates \cup {Update(a, None)}
              /\ r.ready = q.ready /\ r.failed = q.failed \cup {a} /\ r.skipped = q.skipped
<1>1. \A s \in Thumbs : Update(a, s) \in Updates
  BY DEF Update, Updates
<1>2. ASSUME NEW r, r = Good(q, a, t)
      PROVE  /\ r \in CallType /\ SameCall(r, q) /\ r.todo = q.todo /\ r.ops = q.ops
             /\ r.pend = q.pend /\ r.inbox = q.inbox
             /\ r.updates = q.updates \cup {Update(a, t)}
             /\ r.ready = q.ready \cup {a} /\ r.failed = q.failed /\ r.skipped = q.skipped
  <2>1. r = [q EXCEPT !.ready = q.ready \cup {a},
                      !.updates = q.updates \cup {Update(a, t)}]
    BY <1>2 DEF Good
  <2>2. r \in CallType
    BY <1>1, <2>1 DEF CallType
  <2> QED
    BY <2>1, <2>2 DEF CallType, SameCall
<1>3. ASSUME NEW r, r = Bad(q, a)
      PROVE  /\ r \in CallType /\ SameCall(r, q) /\ r.todo = q.todo /\ r.ops = q.ops
             /\ r.pend = q.pend /\ r.inbox = q.inbox
             /\ r.updates = q.updates \cup {Update(a, None)}
             /\ r.ready = q.ready /\ r.failed = q.failed \cup {a} /\ r.skipped = q.skipped
  <2>1. r = [q EXCEPT !.failed = q.failed \cup {a},
                      !.updates = q.updates \cup {Update(a, None)}]
    BY <1>3 DEF Bad
  <2>2. r \in CallType
    BY <1>1, <2>1 DEF CallType, Thumbs
  <2> QED
    BY <2>1, <2>2 DEF CallType, SameCall
<1> QED
  BY <1>2, <1>3

\* The common part of visits that enqueue nothing.
LEMMA HandledKeepsTrue ==
    ASSUME TrueInv, NEW c \in Callers, NEW a \in call[c].todo, Visits(c, a),
           NEW r \in CallType, call' = [call EXCEPT ![c] = r], SameCall(r, call[c]),
           r.todo = call[c].todo \ {a}, r.pend = call[c].pend, r.inbox = call[c].inbox,
           \A u \in r.updates :
              u \in call[c].updates \/ (u.a = a /\ u.thumb \in {None, Target(c, a)}),
           TypeOK' /\ Progress /\ call'[c].snap = call[c].snap => r.ops \in Seq(OwnOps(c)'),
           UNCHANGED <<disk, highest, files, rows, nextId, failures, generation, clear, jobs, stage>>,
           refused \subseteq refused', refused' \subseteq Targets, pulled' = pulled
    PROVE  TrueInv'
<1>1. /\ a \in Known(c) /\ Working(c)
      /\ \A i \in call[c].inbox : i.a \in call[c].pend
      /\ \A t \in InJobs(c) : t[1] \in call[c].pend
  BY VisitFacts
<1>2. call'[c] = r
  BY CallTakes DEF TrueInv
<1>3. ASSUME TypeOK' PROVE CallOK(c)'
  <2>1. Progress
    BY RowsFrame DEF table
  <2>2. InJobs(c)' = InJobs(c)
    BY DEF InJobs
  <2> QED
    BY <1>1, <1>2, <1>3, <2>1, <2>2, WorkFrame DEF SameCall
<1> QED
  BY <1>3, OnlyCallsFrame DEF TrueInv, TypeOK, InJobs

LEMMA OpsType ==
    ASSUME NEW a \in Assets, NEW t \in Targets
    PROVE  /\ \A s \in Thumbs, l \in {"go on", "delete", "stop"} :
                (l = "delete" => s # None) =>
                    CasOp(a, s, l) \in AllOps /\ RereadOp(a, s, l) \in AllOps
           /\ PublishOp(a, t) \in AllOps
           /\ NoteOp(a, TRUE) \in AllOps /\ NoteOp(a, FALSE) \in AllOps
           /\ \A T \in SUBSET Targets : DeleteOp(T) \in AllOps
<1>1. \A s \in Thumbs, l \in {"go on", "delete", "stop"} :
        (l = "delete" => s # None) =>
            CasOp(a, s, l) \in CasOps /\ RereadOp(a, s, l) \in CasOps
  BY DEF CasOp, RereadOp, CasOps
<1>2. PublishOp(a, t) \in PublishOps
  BY DEF PublishOp, PublishOps
<1>3. NoteOp(a, TRUE) \in NoteOps /\ NoteOp(a, FALSE) \in NoteOps
  BY DEF NoteOp, NoteOps
<1>4. \A T \in SUBSET Targets : DeleteOp(T) \in DeleteOps
  BY DEF DeleteOp, DeleteOps
<1> QED
  BY <1>1, <1>2, <1>3, <1>4 DEF AllOps

LEMMA HandledAnswerIs ==
    ASSUME NEW c \in Callers, call[c] \in CallType, NEW a \in Assets,
           NEW ops \in Seq(AllOps), NEW t \in Thumbs
    PROVE  /\ LET r == Good(Handled(c, a, ops), a, t) IN
              /\ r \in CallType /\ SameCall(r, call[c])
              /\ r.todo = call[c].todo \ {a} /\ r.ops = ops /\ r.pend = call[c].pend
              /\ r.inbox = call[c].inbox /\ r.updates = call[c].updates \cup {Update(a, t)}
              /\ r.ready = call[c].ready \cup {a} /\ r.failed = call[c].failed
              /\ r.skipped = call[c].skipped
           /\ LET r == Bad(Handled(c, a, ops), a) IN
              /\ r \in CallType /\ SameCall(r, call[c])
              /\ r.todo = call[c].todo \ {a} /\ r.ops = ops /\ r.pend = call[c].pend
              /\ r.inbox = call[c].inbox /\ r.updates = call[c].updates \cup {Update(a, None)}
              /\ r.ready = call[c].ready /\ r.failed = call[c].failed \cup {a}
              /\ r.skipped = call[c].skipped
<1> DEFINE q == Handled(c, a, ops)
<1>1. /\ q \in CallType /\ SameCall(q, call[c])
      /\ q.todo = call[c].todo \ {a} /\ q.ops = ops /\ q.pend = call[c].pend
      /\ q.inbox = call[c].inbox /\ q.updates = call[c].updates
      /\ q.ready = call[c].ready /\ q.failed = call[c].failed
      /\ q.skipped = call[c].skipped
  BY HandledIs
<1> HIDE DEF q
<1>2. LET r == Good(q, a, t) IN
      /\ r \in CallType /\ SameCall(r, q) /\ r.todo = q.todo /\ r.ops = q.ops
      /\ r.pend = q.pend /\ r.inbox = q.inbox
      /\ r.updates = q.updates \cup {Update(a, t)}
      /\ r.ready = q.ready \cup {a} /\ r.failed = q.failed /\ r.skipped = q.skipped
  BY <1>1, AnswerIs
<1>3. LET r == Bad(q, a) IN
      /\ r \in CallType /\ SameCall(r, q) /\ r.todo = q.todo /\ r.ops = q.ops
      /\ r.pend = q.pend /\ r.inbox = q.inbox
      /\ r.updates = q.updates \cup {Update(a, None)}
      /\ r.ready = q.ready /\ r.failed = q.failed \cup {a} /\ r.skipped = q.skipped
  BY <1>1, AnswerIs
<1>4. \A r : SameCall(r, q) => SameCall(r, call[c])
  BY <1>1 DEF SameCall
<1> QED
  BY <1>1, <1>2, <1>3, <1>4 DEF q

LEMMA VisitExistingKeepsTrue ==
    ASSUME TrueInv, NEW c \in Callers, NEW a \in call[c].todo, VisitExisting(c, a)
    PROVE  TrueInv'
<1> DEFINE ops == IF call[c].kind = "demand"
                  THEN <<CasOp(a, ReadThumb(c, a), "stop"), NoteOp(a, TRUE)>>
                  ELSE <<PublishOp(a, ReadThumb(c, a)), NoteOp(a, TRUE)>>
           r == Handled(c, a, ops)
<1>1. /\ Visits(c, a) /\ call' = [call EXCEPT ![c] = r] /\ OnlyCalls
      /\ ReadThumb(c, a) # None
  BY DEF VisitExisting, HasExisting
<1>2. /\ a \in Known(c) /\ a \in Assets /\ call[c] \in CallType
      /\ SnapOK(c) /\ TypeOK
      /\ ReadThumb(c, a) = Target(c, a) /\ Target(c, a) \in Targets
  BY <1>1, VisitFacts DEF CallOK, TrueInv
<1>3. ops \in Seq(AllOps)
  BY <1>2, OpsType, SmallSeqs DEF Thumbs
<1>5. ASSUME TypeOK', Progress, call'[c].snap = call[c].snap
      PROVE  ops \in Seq(OwnOps(c)')
  BY <1>2, <1>5, OwnOpsOf, SmallSeqs
<1> HIDE DEF ops
<1>4. /\ r \in CallType /\ SameCall(r, call[c]) /\ r.ops = ops
      /\ r.todo = call[c].todo \ {a} /\ r.pend = call[c].pend
      /\ r.inbox = call[c].inbox /\ r.updates = call[c].updates
  BY <1>2, <1>3, HandledIs
<1> HIDE DEF r
<1> QED
  BY <1>1, <1>4, <1>5, HandledKeepsTrue
     DEF OnlyCalls, disks, table, scheduler, history, TrueInv, TypeOK

\* What a caller does about a source that is gone.
MissingAnswer(c, a, r) ==
    /\ r \in CallType /\ SameCall(r, call[c])
    /\ r.todo = call[c].todo \ {a} /\ r.pend = call[c].pend
    /\ r.inbox = call[c].inbox
    /\ \A u \in r.updates : u \in call[c].updates \/ u = Update(a, None)

LEMMA MissedIs ==
    ASSUME NEW c \in Callers, call[c] \in CallType, NEW a \in Assets,
           NEW ops \in Seq(AllOps)
    PROVE  /\ MissingAnswer(c, a, Handled(c, a, ops))
           /\ MissingAnswer(c, a, Bad(Handled(c, a, ops), a))
           /\ Handled(c, a, ops).ops = ops /\ Bad(Handled(c, a, ops), a).ops = ops
<1>1. None \in Thumbs
  BY DEF Thumbs
<1>2. MissingAnswer(c, a, Handled(c, a, ops)) /\ Handled(c, a, ops).ops = ops
  BY HandledIs DEF MissingAnswer
<1>3. MissingAnswer(c, a, Bad(Handled(c, a, ops), a)) /\ Bad(Handled(c, a, ops), a).ops = ops
  BY <1>1, HandledAnswerIs DEF MissingAnswer
<1> QED
  BY <1>2, <1>3

LEMMA MissingIs ==
    ASSUME NEW c \in Callers, call[c] \in CallType, NEW a \in Assets,
           DeleteIfAny(ReadThumb(c, a)) \in Seq(AllOps)
    PROVE  \A r \in {DemandMissing(c, a), PageMissing(c, a), BulkMissing(c, a)} :
              /\ MissingAnswer(c, a, r)
              /\ r.ops \in {<<CasOp(a, None, "go on"), NoteOp(a, FALSE)>>
                               \o DeleteIfAny(ReadThumb(c, a)),
                            <<NoteOp(a, FALSE)>>,
                            <<NoteOp(a, FALSE)>> \o DeleteIfAny(ReadThumb(c, a))}
<1> DEFINE drop == DeleteIfAny(ReadThumb(c, a))
           both == <<CasOp(a, None, "go on"), NoteOp(a, FALSE)>>
           note == <<NoteOp(a, FALSE)>>
<1>1. both \in Seq(AllOps) /\ note \in Seq(AllOps) /\ drop \in Seq(AllOps)
  <2>1. CasOp(a, None, "go on") \in CasOps /\ NoteOp(a, FALSE) \in NoteOps
    BY DEF CasOp, CasOps, NoteOp, NoteOps, Thumbs
  <2> QED
    BY <2>1, SmallSeqs DEF AllOps
<1>2. /\ DemandMissing(c, a) = Handled(c, a, both \o drop)
      /\ PageMissing(c, a) = Bad(Handled(c, a, note), a)
      /\ BulkMissing(c, a) = Bad(Handled(c, a, note \o drop), a)
  BY DEF DemandMissing, PageMissing, BulkMissing
<1> HIDE DEF drop, both, note
<1>3. both \o drop \in Seq(AllOps) /\ note \o drop \in Seq(AllOps)
  BY <1>1, ConcatIsSeq
<1>4. /\ MissingAnswer(c, a, DemandMissing(c, a)) /\ DemandMissing(c, a).ops = both \o drop
      /\ MissingAnswer(c, a, PageMissing(c, a)) /\ PageMissing(c, a).ops = note
      /\ MissingAnswer(c, a, BulkMissing(c, a)) /\ BulkMissing(c, a).ops = note \o drop
  <2> DEFINE x == both \o drop
             y == note \o drop
  <2>1. x \in Seq(AllOps) /\ y \in Seq(AllOps)
    BY <1>3
  <2>2. /\ DemandMissing(c, a) = Handled(c, a, x)
        /\ BulkMissing(c, a) = Bad(Handled(c, a, y), a)
    BY <1>2
  <2> HIDE DEF x, y
  <2>3. MissingAnswer(c, a, DemandMissing(c, a)) /\ DemandMissing(c, a).ops = x
    BY <2>1, <2>2, MissedIs
  <2>4. MissingAnswer(c, a, PageMissing(c, a)) /\ PageMissing(c, a).ops = note
    BY <1>1, <1>2, MissedIs
  <2>5. MissingAnswer(c, a, BulkMissing(c, a)) /\ BulkMissing(c, a).ops = y
    BY <2>1, <2>2, MissedIs
  <2> QED
    BY <2>3, <2>4, <2>5 DEF x, y
<1> QED
  BY <1>4 DEF drop, both, note

LEMMA VisitMissingKeepsTrue ==
    ASSUME TrueInv, NEW c \in Callers, NEW a \in call[c].todo, VisitMissing(c, a)
    PROVE  TrueInv'
<1> DEFINE drop == DeleteIfAny(ReadThumb(c, a))
<1>1. /\ Visits(c, a) /\ refused' = refused \cup {Target(c, a)}
      /\ UNCHANGED <<disks, files, table, failures, generation, jobs, stage, clear, pulled>>
  BY DEF VisitMissing, scheduler
<1>2. PICK r \in {DemandMissing(c, a), PageMissing(c, a), BulkMissing(c, a)} :
          call' = [call EXCEPT ![c] = r]
  BY DEF VisitMissing
<1>3. /\ a \in Known(c) /\ a \in Assets /\ call[c] \in CallType
      /\ SnapOK(c) /\ TypeOK
      /\ ReadThumb(c, a) \in {None, Target(c, a)} /\ Target(c, a) \in Targets
  BY <1>1, VisitFacts DEF CallOK, TrueInv
<1>4. /\ CasOp(a, None, "go on") \in AllOps /\ NoteOp(a, FALSE) \in AllOps
      /\ drop \in Seq(AllOps)
  <2>1. DeleteOp({Target(c, a)}) \in AllOps
    BY <1>3, OpsType
  <2> QED
    BY <1>3, <2>1, OpsType, SmallSeqs, EmptyIsSeq DEF DeleteIfAny, Thumbs
<1>5. /\ MissingAnswer(c, a, r)
      /\ r.ops \in {<<CasOp(a, None, "go on"), NoteOp(a, FALSE)>> \o drop,
                    <<NoteOp(a, FALSE)>>, <<NoteOp(a, FALSE)>> \o drop}
  BY <1>3, <1>4, MissingIs
<1>6. ASSUME TypeOK', Progress, call'[c].snap = call[c].snap
      PROVE  r.ops \in Seq(OwnOps(c)')
  <2> DEFINE O == OwnOps(c)'
  <2>1. /\ CasOp(a, None, "go on") \in O /\ NoteOp(a, FALSE) \in O
        /\ DeleteOp({Target(c, a)}) \in O
    BY <1>1, <1>3, <1>6, OwnOpsOf
  <2>2. O \subseteq AllOps
    BY DEF OwnOps
  <2> HIDE DEF O
  <2>3. drop \in Seq(O)
    BY <1>3, <2>1, SmallSeqs, EmptyIsSeq DEF DeleteIfAny
  <2>4. <<CasOp(a, None, "go on"), NoteOp(a, FALSE)>> \in Seq(O) /\ <<NoteOp(a, FALSE)>> \in Seq(O)
    BY <2>1, SmallSeqs
  <2> HIDE DEF drop
  <2>5. r.ops \in Seq(O)
    BY <1>5, <2>3, <2>4, ConcatIsSeq
  <2> QED
    BY <2>5 DEF O
<1>7. /\ refused \subseteq refused' /\ refused' \subseteq Targets
      /\ UNCHANGED <<disk, highest, files, rows, nextId, failures, generation, clear, jobs, stage>>
      /\ pulled' = pulled
  BY <1>1, <1>3 DEF TrueInv, TypeOK, disks, table
<1>8. \A u \in r.updates :
          u \in call[c].updates \/ (u.a = a /\ u.thumb \in {None, Target(c, a)})
  <2>1. \A u \in r.updates : u \in call[c].updates \/ u = Update(a, None)
    BY <1>5 DEF MissingAnswer
  <2>2. Update(a, None).a = a /\ Update(a, None).thumb = None
    BY DEF Update
  <2> QED
    BY <2>1, <2>2
<1> HIDE DEF drop
<1> QED
  BY <1>1, <1>2, <1>5, <1>6, <1>7, <1>8, HandledKeepsTrue DEF MissingAnswer

\* What a caller does about a thumbnail that is there.
ReadyAnswer(c, a, r) ==
    /\ r \in CallType /\ SameCall(r, call[c])
    /\ r.todo = call[c].todo \ {a} /\ r.pend = call[c].pend
    /\ r.inbox = call[c].inbox
    /\ \A u \in r.updates : u \in call[c].updates \/ u = Update(a, Target(c, a))

LEMMA ReadyIs ==
    ASSUME NEW c \in Callers, call[c] \in CallType, NEW a \in Assets,
           Target(c, a) \in Targets
    PROVE  \A r \in {DemandReady(c, a), PageReady(c, a), BulkReady(c, a)} :
              /\ ReadyAnswer(c, a, r)
              /\ r.ops \in {<<CasOp(a, Target(c, a), "go on"), NoteOp(a, TRUE)>>,
                            <<PublishOp(a, Target(c, a)), NoteOp(a, TRUE)>>,
                            <<NoteOp(a, TRUE)>>}
<1> DEFINE cas == <<CasOp(a, Target(c, a), "go on"), NoteOp(a, TRUE)>>
           publish == <<PublishOp(a, Target(c, a)), NoteOp(a, TRUE)>>
           note == <<NoteOp(a, TRUE)>>
<1>1. cas \in Seq(AllOps) /\ publish \in Seq(AllOps) /\ note \in Seq(AllOps)
  <2>1. /\ CasOp(a, Target(c, a), "go on") \in CasOps /\ NoteOp(a, TRUE) \in NoteOps
        /\ PublishOp(a, Target(c, a)) \in PublishOps
    BY DEF CasOp, CasOps, NoteOp, NoteOps, PublishOp, PublishOps, Thumbs
  <2> QED
    BY <2>1, SmallSeqs DEF AllOps
<1>2. /\ DemandReady(c, a) = Handled(c, a, cas) /\ PageReady(c, a) = Handled(c, a, publish)
      /\ BulkReady(c, a) = Good(Handled(c, a, note), a, Target(c, a))
  BY DEF DemandReady, PageReady, BulkReady
<1> HIDE DEF cas, publish, note
<1>3. ReadyAnswer(c, a, DemandReady(c, a)) /\ DemandReady(c, a).ops = cas
  BY <1>1, <1>2, HandledIs DEF ReadyAnswer
<1>4. ReadyAnswer(c, a, PageReady(c, a)) /\ PageReady(c, a).ops = publish
  BY <1>1, <1>2, HandledIs DEF ReadyAnswer
<1>5. ReadyAnswer(c, a, BulkReady(c, a)) /\ BulkReady(c, a).ops = note
  <2>1. Target(c, a) \in Thumbs
    BY DEF Thumbs
  <2> QED
    BY <1>1, <1>2, <2>1, HandledAnswerIs DEF ReadyAnswer
<1> QED
  BY <1>3, <1>4, <1>5 DEF cas, publish, note

LEMMA VisitTargetKeepsTrue ==
    ASSUME TrueInv, NEW c \in Callers, NEW a \in call[c].todo, VisitTarget(c, a)
    PROVE  TrueInv'
<1>1. Visits(c, a) /\ OnlyCalls
  BY DEF VisitTarget
<1>2. PICK r \in {DemandReady(c, a), PageReady(c, a), BulkReady(c, a)} :
          call' = [call EXCEPT ![c] = r]
  BY DEF VisitTarget
<1>3. /\ a \in Known(c) /\ a \in Assets /\ call[c] \in CallType
      /\ SnapOK(c) /\ TypeOK /\ Target(c, a) \in Targets
  BY <1>1, VisitFacts DEF CallOK, TrueInv
<1>4. /\ ReadyAnswer(c, a, r)
      /\ r.ops \in {<<CasOp(a, Target(c, a), "go on"), NoteOp(a, TRUE)>>,
                    <<PublishOp(a, Target(c, a)), NoteOp(a, TRUE)>>,
                    <<NoteOp(a, TRUE)>>}
  BY <1>3, ReadyIs
<1>5. ASSUME TypeOK', Progress, call'[c].snap = call[c].snap
      PROVE  r.ops \in Seq(OwnOps(c)')
  <2> DEFINE O == OwnOps(c)'
  <2>1. /\ CasOp(a, Target(c, a), "go on") \in O /\ NoteOp(a, TRUE) \in O
        /\ PublishOp(a, Target(c, a)) \in O
    BY <1>3, <1>5, OwnOpsOf
  <2> HIDE DEF O
  <2>2. /\ <<CasOp(a, Target(c, a), "go on"), NoteOp(a, TRUE)>> \in Seq(O)
        /\ <<PublishOp(a, Target(c, a)), NoteOp(a, TRUE)>> \in Seq(O)
        /\ <<NoteOp(a, TRUE)>> \in Seq(O)
    BY <2>1, SmallSeqs
  <2>3. r.ops \in Seq(O)
    BY <1>4, <2>2
  <2> QED
    BY <2>3 DEF O
<1>6. /\ UNCHANGED <<disk, highest, files, rows, nextId, failures, generation, clear, jobs, stage>>
      /\ refused \subseteq refused' /\ refused' \subseteq Targets /\ pulled' = pulled
  BY <1>1, <1>3 DEF OnlyCalls, disks, table, scheduler, history, TypeOK
<1>7. \A u \in r.updates :
          u \in call[c].updates \/ (u.a = a /\ u.thumb \in {None, Target(c, a)})
  <2>1. \A u \in r.updates : u \in call[c].updates \/ u = Update(a, Target(c, a))
    BY <1>4 DEF ReadyAnswer
  <2>2. Update(a, Target(c, a)).a = a /\ Update(a, Target(c, a)).thumb = Target(c, a)
    BY DEF Update
  <2> QED
    BY <2>1, <2>2
<1> QED
  BY <1>1, <1>2, <1>4, <1>5, <1>6, <1>7, HandledKeepsTrue DEF ReadyAnswer

\* A skipped or enqueued asset.
LEMMA NoOpsIs ==
    ASSUME NEW c \in Callers, call[c] \in CallType, NEW a \in Assets
    PROVE  /\ LET r == [Handled(c, a, <<>>) EXCEPT !.skipped = call[c].skipped \cup {a}] IN
              /\ r \in CallType /\ SameCall(r, call[c])
              /\ r.todo = call[c].todo \ {a} /\ r.ops = <<>> /\ r.pend = call[c].pend
              /\ r.inbox = call[c].inbox /\ r.updates = call[c].updates
              /\ r.ready = call[c].ready /\ r.failed = call[c].failed
              /\ r.skipped = call[c].skipped \cup {a}
           /\ LET r == [Handled(c, a, <<>>) EXCEPT !.pend = call[c].pend \cup {a}] IN
              /\ r \in CallType /\ SameCall(r, call[c])
              /\ r.todo = call[c].todo \ {a} /\ r.ops = <<>>
              /\ r.pend = call[c].pend \cup {a}
              /\ r.inbox = call[c].inbox /\ r.updates = call[c].updates
              /\ r.ready = call[c].ready /\ r.failed = call[c].failed
              /\ r.skipped = call[c].skipped
<1> DEFINE none == <<>>
           q == Handled(c, a, none)
           skip == [q EXCEPT !.skipped = call[c].skipped \cup {a}]
           wait == [q EXCEPT !.pend = call[c].pend \cup {a}]
<1>1. none \in Seq(AllOps)
  BY EmptyIsSeq
<1> HIDE DEF none
<1>2. /\ q \in CallType /\ SameCall(q, call[c])
      /\ q.todo = call[c].todo \ {a} /\ q.ops = none /\ q.pend = call[c].pend
      /\ q.inbox = call[c].inbox /\ q.updates = call[c].updates
      /\ q.ready = call[c].ready /\ q.failed = call[c].failed
      /\ q.skipped = call[c].skipped
  BY <1>1, HandledIs
<1> HIDE DEF q
<1>3. skip \in CallType /\ wait \in CallType
  BY <1>2 DEF CallType
<1>4. /\ SameCall(skip, call[c])
      /\ skip.todo = call[c].todo \ {a} /\ skip.ops = none /\ skip.pend = call[c].pend
      /\ skip.inbox = call[c].inbox /\ skip.updates = call[c].updates
      /\ skip.ready = call[c].ready /\ skip.failed = call[c].failed
      /\ skip.skipped = call[c].skipped \cup {a}
  BY <1>2 DEF CallType, SameCall
<1>5. /\ SameCall(wait, call[c])
      /\ wait.todo = call[c].todo \ {a} /\ wait.ops = none
      /\ wait.pend = call[c].pend \cup {a}
      /\ wait.inbox = call[c].inbox /\ wait.updates = call[c].updates
      /\ wait.ready = call[c].ready /\ wait.failed = call[c].failed
      /\ wait.skipped = call[c].skipped
  BY <1>2 DEF CallType, SameCall
<1> QED
  BY <1>3, <1>4, <1>5 DEF q, none

LEMMA VisitSkipKeepsTrue ==
    ASSUME TrueInv, NEW c \in Callers, NEW a \in call[c].todo, VisitSkip(c, a)
    PROVE  TrueInv'
<1> DEFINE r == [Handled(c, a, <<>>) EXCEPT !.skipped = call[c].skipped \cup {a}]
<1>1. Visits(c, a) /\ OnlyCalls /\ call' = [call EXCEPT ![c] = r]
  BY DEF VisitSkip
<1>2. a \in Assets /\ call[c] \in CallType /\ TypeOK
  BY <1>1, VisitFacts DEF TrueInv
<1>3. /\ r \in CallType /\ SameCall(r, call[c])
      /\ r.todo = call[c].todo \ {a} /\ r.ops = <<>> /\ r.pend = call[c].pend
      /\ r.inbox = call[c].inbox /\ r.updates = call[c].updates
  BY <1>2, NoOpsIs
<1> HIDE DEF r
<1>4. /\ UNCHANGED <<disk, highest, files, rows, nextId, failures, generation, clear, jobs, stage>>
      /\ refused \subseteq refused' /\ refused' \subseteq Targets /\ pulled' = pulled
  BY <1>1, <1>2 DEF OnlyCalls, disks, table, scheduler, history, TypeOK
<1>5. \A S : r.ops \in Seq(S)
  BY <1>3, EmptyIsSeq
<1> QED
  BY <1>1, <1>3, <1>4, <1>5, HandledKeepsTrue

LEMMA VisitEnqueueKeepsTrue ==
    ASSUME TrueInv, NEW c \in Callers, NEW a \in call[c].todo, VisitEnqueue(c, a)
    PROVE  TrueInv'
<1> DEFINE r == [Handled(c, a, <<>>) EXCEPT !.pend = call[c].pend \cup {a}]
           t == Target(c, a)
<1>1. /\ Visits(c, a) /\ call' = [call EXCEPT ![c] = r]
      /\ jobs' = [u \in DOMAIN jobs \cup {t} |->
                    (IF u \in DOMAIN jobs THEN jobs[u] ELSE {}) \cup
                    (IF u = t THEN {c} ELSE {})]
      /\ UNCHANGED <<disk, highest, files, rows, nextId, failures, generation, clear,
                     stage, refused, pulled>>
  BY DEF VisitEnqueue, disks, table, scheduler, history
<1>2. /\ a \in Known(c) /\ a \in Assets /\ a \notin call[c].pend
      /\ call[c] \in CallType /\ CallOK(c) /\ Working(c) /\ TypeOK /\ t \in Targets
  BY <1>1, VisitFacts DEF TrueInv
<1>3. /\ r \in CallType /\ SameCall(r, call[c])
      /\ r.todo = call[c].todo \ {a} /\ r.ops = <<>>
      /\ r.pend = call[c].pend \cup {a}
      /\ r.inbox = call[c].inbox /\ r.updates = call[c].updates
  BY <1>2, NoOpsIs
<1> HIDE DEF r, t
<1>4. call'[c] = r
  BY <1>1, <1>2, <1>3, CallTakes
<1>5. jobs' \in UNION {[S -> SUBSET Callers] : S \in SUBSET Targets}
  <2>1. PICK S \in SUBSET Targets : jobs \in [S -> SUBSET Callers]
    BY <1>2 DEF TypeOK
  <2>2. jobs' \in [S \cup {t} -> SUBSET Callers]
    BY <1>1, <2>1
  <2> QED
    BY <1>2, <2>2
<1>6. /\ InJobs(c)' \subseteq InJobs(c) \cup {t}
      /\ \A d \in Callers \ {c} : InJobs(d)' \subseteq InJobs(d)
  BY <1>1 DEF InJobs
<1>7. ASSUME TypeOK' PROVE CallOK(c)'
  <2>1. Progress
    BY <1>1, RowsFrame DEF table
  <2>2. /\ SnapOK(c)' /\ Known(c)' = Known(c) /\ \A b : Target(c, b)' = Target(c, b)
    BY <1>2, <1>3, <1>4, <1>7, <2>1, SnapFrame DEF CallOK, SameCall
  <2>3. OwnItems(c)'
    BY <1>2, <1>3, <1>4, <2>2 DEF CallOK, OwnItems, Working, SameCall
  <2>4. Awaited(c)'
    BY <1>1, <1>2, <1>3, <1>4, <2>2 DEF CallOK, Awaited, Working, SameCall
  <2>5. Queued(c)'
    <3>1. Working(c)' /\ call'[c].at \notin {"new", "page", "done"}
      BY <1>2, <1>3, <1>4 DEF Working, SameCall
    <3>2. t[1] = a /\ t = Target(c, a)'
      BY <2>2 DEF t, Target, thumb_target
    <3>3. ASSUME NEW u \in InJobs(c)'
          PROVE  /\ u[1] \in r.pend /\ u = Target(c, u[1])'
                 /\ \A i \in r.inbox : i.a # u[1]
      <4>1. CASE u = t
        <5>1. \A i \in call[c].inbox : i.a # a
          BY <1>1, <1>2, VisitFacts
        <5>2. u[1] = a /\ u = Target(c, u[1])'
          BY <3>2, <4>1
        <5>3. a \in r.pend /\ r.inbox = call[c].inbox
          BY <1>3
        <5> QED
          BY <5>1, <5>2, <5>3
      <4>2. CASE u \in InJobs(c)
        BY <1>2, <1>3, <2>2, <4>2 DEF CallOK, Queued
      <4> QED
        BY <1>6, <4>1, <4>2
    <3>4. r.at = "drain" => r.cancelled
      BY <1>2, <1>3 DEF CallOK, Queued, SameCall
    <3> QED
      BY <1>4, <3>1, <3>3, <3>4 DEF Queued
  <2>6. Locked(c)'
    BY <1>1, <1>2, <1>3, <1>4 DEF CallOK, Locked, Active, Working, SameCall
  <2> QED
    BY <1>3, <1>4, <2>2, <2>3, <2>4, <2>5, <2>6, EmptyIsSeq DEF CallOK
<1> QED
  BY <1>1, <1>2, <1>3, <1>5, <1>6, <1>7, OnlyCallsFrame DEF TypeOK

\* What a caller makes of a result.
ResultAnswer(c, result, r) ==
    /\ r \in CallType /\ SameCall(r, call[c])
    /\ r.todo = call[c].todo /\ r.pend = call[c].pend \ {result.a}
    /\ r.inbox = call[c].inbox \ {result}
    /\ \A u \in r.updates :
          \/ u \in call[c].updates \/ u = Update(result.a, None)
          \/ (result.ok /\ u = Update(result.a, Target(c, result.a)))

ResultOps(c, result) ==
    LET a == result.a  t == Target(c, a) IN
    {<<>>} \cup (IF result.ok THEN {<<CasOp(a, t, "delete")>>, <<PublishOp(a, t)>>}
                              ELSE {<<CasOp(a, None, "go on")>>})

LEMMA AnsweredIs ==
    ASSUME NEW c \in Callers, call[c] \in CallType, NEW result \in Results,
           NEW ops \in Seq(AllOps), NEW t \in Thumbs, t = Target(c, result.a)
    PROVE  \A r : (\/ r \in {Taken(c, result, ops), Bad(Taken(c, result, ops), result.a)}
                  \/ (result.ok /\ r = Good(Taken(c, result, ops), result.a, t)))
              => /\ ResultAnswer(c, result, r)
                 /\ r.ops = ops \o <<NoteOp(result.a, result.ok)>>
<1> DEFINE q == Taken(c, result, ops)
           a == result.a
           all == ops \o <<NoteOp(result.a, result.ok)>>
<1>1. /\ q \in CallType /\ SameCall(q, call[c])
      /\ q.todo = call[c].todo /\ q.ops = all
      /\ q.pend = call[c].pend \ {a} /\ q.inbox = call[c].inbox \ {result}
      /\ q.updates = call[c].updates
  BY TakenIs
<1>2. a \in Assets
  BY DEF Results
<1> HIDE DEF q, all
<1>3. LET r == Good(q, a, t) IN
      /\ r \in CallType /\ SameCall(r, q) /\ r.todo = q.todo /\ r.ops = q.ops
      /\ r.pend = q.pend /\ r.inbox = q.inbox
      /\ r.updates = q.updates \cup {Update(a, t)}
  BY <1>1, <1>2, AnswerIs
<1>4. LET r == Bad(q, a) IN
      /\ r \in CallType /\ SameCall(r, q) /\ r.todo = q.todo /\ r.ops = q.ops
      /\ r.pend = q.pend /\ r.inbox = q.inbox
      /\ r.updates = q.updates \cup {Update(a, None)}
  BY <1>1, <1>2, AnswerIs
<1>5. \A r : SameCall(r, q) => SameCall(r, call[c])
  BY <1>1 DEF SameCall
<1>6. ResultAnswer(c, result, q) /\ q.ops = all
  BY <1>1 DEF ResultAnswer
<1>7. result.ok => ResultAnswer(c, result, Good(q, a, t)) /\ Good(q, a, t).ops = all
  BY <1>1, <1>3, <1>5 DEF ResultAnswer
<1>8. ResultAnswer(c, result, Bad(q, a)) /\ Bad(q, a).ops = all
  BY <1>1, <1>4, <1>5 DEF ResultAnswer
<1> QED
  BY <1>6, <1>7, <1>8 DEF q, all

LEMMA ResultIs ==
    ASSUME NEW c \in Callers, call[c] \in CallType, NEW result \in Results,
           Target(c, result.a) \in Targets
    PROVE  \A r \in {DemandResult(c, result), PageResult(c, result), BulkResult(c, result)} :
              /\ ResultAnswer(c, result, r)
              /\ \E ops \in ResultOps(c, result) :
                    r.ops = ops \o <<NoteOp(result.a, result.ok)>>
<1> DEFINE a == result.a
           t == Target(c, a)
           none == <<>>
           cas == <<CasOp(a, t, "delete")>>
           null == <<CasOp(a, None, "go on")>>
           publish == <<PublishOp(a, t)>>
<1>1. /\ none \in Seq(AllOps) /\ cas \in Seq(AllOps) /\ null \in Seq(AllOps)
      /\ publish \in Seq(AllOps)
  <2>1. a \in Assets /\ t \in Thumbs /\ None \in Thumbs /\ t # None
    BY NoneIsNoPair DEF Results, Thumbs, Target, thumb_target
  <2> QED
    BY <2>1, OpsType, SmallSeqs, EmptyIsSeq
<1>2. /\ DemandResult(c, result) = Taken(c, result, IF result.ok THEN cas ELSE null)
      /\ PageResult(c, result) = IF result.ok THEN Taken(c, result, publish)
                                 ELSE Bad(Taken(c, result, none), result.a)
      /\ BulkResult(c, result) = IF result.ok THEN Good(Taken(c, result, none), result.a, t)
                                 ELSE Bad(Taken(c, result, none), result.a)
  <2>1. /\ <<IF result.ok THEN CasOp(result.a, Target(c, result.a), "delete")
                        ELSE CasOp(result.a, None, "go on")>>
            = IF result.ok THEN cas ELSE null
    OBVIOUS
  <2> QED
    BY <2>1 DEF DemandResult, PageResult, BulkResult
<1>3. /\ none \in ResultOps(c, result)
      /\ result.ok => cas \in ResultOps(c, result) /\ publish \in ResultOps(c, result)
      /\ ~result.ok => null \in ResultOps(c, result)
  BY DEF ResultOps
<1> HIDE DEF none, cas, null, publish, t
<1>4. t = Target(c, result.a) /\ t \in Thumbs
  BY DEF t, Thumbs
<1>5. ASSUME NEW r \in {DemandResult(c, result), PageResult(c, result), BulkResult(c, result)}
      PROVE  \E ops \in {none, cas, null, publish} :
                /\ ops \in ResultOps(c, result)
                /\ \/ r \in {Taken(c, result, ops), Bad(Taken(c, result, ops), result.a)}
                   \/ (result.ok /\ r = Good(Taken(c, result, ops), result.a, t))
  BY <1>2, <1>3
<1>6. \A ops \in {none, cas, null, publish} :
        \A r : (\/ r \in {Taken(c, result, ops), Bad(Taken(c, result, ops), result.a)}
               \/ (result.ok /\ r = Good(Taken(c, result, ops), result.a, t)))
           => ResultAnswer(c, result, r) /\ r.ops = ops \o <<NoteOp(result.a, result.ok)>>
  <2> TAKE ops \in {none, cas, null, publish}
  <2>1. ops \in Seq(AllOps)
    BY <1>1
  <2> QED
    BY <1>4, <2>1, AnsweredIs, Zenon
<1> QED
  BY <1>5, <1>6

LEMMA TakeResultKeepsTrue ==
    ASSUME TrueInv, NEW c \in Callers, NEW result \in call[c].inbox, TakeResult(c, result)
    PROVE  TrueInv'
<1> DEFINE a == result.a
<1>1. OnlyCalls /\ Working(c)
  BY DEF TakeResult, Waits, Working
<1>2. PICK r \in {DemandResult(c, result), PageResult(c, result), BulkResult(c, result)} :
          call' = [call EXCEPT ![c] = r]
  BY DEF TakeResult
<1>3. /\ TypeOK /\ CallOK(c) /\ call[c] \in CallType /\ result \in Results
      /\ result.ok \in BOOLEAN
  BY DEF TrueInv, TypeOK, CallType, Results
<1>4. /\ a \in call[c].pend /\ a \in Known(c)
      /\ ~result.ok => Target(c, a) \in refused
      /\ \A q \in call[c].inbox : q.a \in call[c].pend /\ (q.a = a => q = result)
      /\ \A t \in InJobs(c) : t[1] \in call[c].pend /\ t[1] # a
  BY <1>1, <1>3 DEF CallOK, Awaited, Queued, OwnItems
<1>5. Target(c, a) \in Targets
  BY <1>3, <1>4, SnapType DEF CallOK, SnapOK, Known, CallType, Target, thumb_target, Targets
<1>6. PICK ops \in ResultOps(c, result) :
          ResultAnswer(c, result, r) /\ r.ops = ops \o <<NoteOp(a, result.ok)>>
  BY <1>3, <1>5, ResultIs
<1>7. call'[c] = r
  BY <1>2, <1>3, <1>6, CallTakes DEF ResultAnswer
<1>8. ASSUME TypeOK' PROVE CallOK(c)'
  <2>1. Progress /\ call'[c].snap = call[c].snap
    BY <1>1, <1>6, <1>7, RowsFrame DEF OnlyCalls, table, scheduler, history, ResultAnswer, SameCall
  <2> DEFINE O == OwnOps(c)'
  <2>2. r.ops \in Seq(O)
    <3>1. /\ CasOp(a, Target(c, a), "delete") \in O /\ CasOp(a, None, "go on") \in O
          /\ PublishOp(a, Target(c, a)) \in O /\ NoteOp(a, result.ok) \in O
      <4>1. NoteOp(a, result.ok) \in O
        <5>1. CASE result.ok = TRUE
          BY <1>3, <1>4, <1>8, <2>1, <5>1, OwnOpsOf DEF CallOK
        <5>2. CASE result.ok = FALSE
          <6>1. Target(c, a) \in refused'
            BY <1>1, <1>4, <5>2 DEF OnlyCalls, scheduler, history
          <6> QED
            BY <1>3, <1>4, <1>8, <2>1, <5>2, <6>1, OwnOpsOf DEF CallOK
        <5> QED
          BY <1>3, <5>1, <5>2
      <4> QED
        BY <1>3, <1>4, <1>8, <2>1, <4>1, OwnOpsOf DEF CallOK
    <3> HIDE DEF O
    <3>2. ops \in Seq(O)
      BY <3>1, EmptyIsSeq, SmallSeqs DEF ResultOps
    <3> QED
      BY <1>6, <3>1, <3>2, SmallSeqs
  <2>3. \A u \in r.updates :
          u \in call[c].updates \/ (u.a \in Known(c) /\ u.thumb \in {None, Target(c, u.a)})
    <3>1. \A t : Update(a, t).a = a /\ Update(a, t).thumb = t
      BY DEF Update
    <3> QED
      BY <1>4, <1>6, <3>1 DEF ResultAnswer
  <2>4. InJobs(c)' = InJobs(c)
    BY <1>1 DEF OnlyCalls, scheduler, InJobs
  <2>5. /\ r.at = call[c].at /\ r.gen = call[c].gen /\ r.todo = call[c].todo
        /\ r.cancelled = call[c].cancelled
        /\ r.pend = call[c].pend \ {a} /\ r.inbox = call[c].inbox \ {result}
    BY <1>6 DEF ResultAnswer, SameCall
  <2>6. clear' = clear /\ generation' = generation
    BY <1>1 DEF OnlyCalls
  <2> HIDE DEF O
  <2>7. \A q \in r.inbox : q.a \in r.pend
    BY <1>4, <2>5
  <2>8. \A t \in InJobs(c)' : t[1] \in r.pend
    BY <1>4, <2>4, <2>5
  <2> QED
    BY <1>1, <1>7, <1>8, <2>1, <2>2, <2>3, <2>4, <2>5, <2>6, <2>7, <2>8, WorkFrame DEF O
<1> QED
  BY <1>1, <1>2, <1>3, <1>6, <1>8, OnlyCallsFrame
     DEF ResultAnswer, OnlyCalls, disks, table, scheduler, history, TypeOK, InJobs

-----------------------------------------------------------------------------
(* A render ends                                                           *)

\* A worker renders and looks: no caller knows yet.
LEMMA RenderKeepsTrue ==
    ASSUME TrueInv, NEW t \in DOMAIN jobs, Render(t) \/ LookAtTarget(t)
    PROVE  TrueInv'
<1>1. TypeOK /\ t \in Targets
  BY DEF TrueInv, TypeOK
<1>2. PICK ok \in BOOLEAN :
        /\ files' \in {files, files \cup {t}} /\ pulled' \subseteq pulled
        /\ refused' = IF ok THEN refused ELSE refused \cup {t}
        /\ stage' = [u \in DOMAIN stage \cup {t} |->
              IF u # t THEN stage[u]
              ELSE IF ok THEN stage'[t] ELSE "failed"]
        /\ stage'[t] \in Stages /\ (ok => stage'[t] # "failed")
        /\ UNCHANGED <<disk, highest, rows, nextId, failures, generation, jobs, call, clear>>
  <2>1. CASE Render(t)
    <3>1. PICK made \in BOOLEAN :
            LET there == disk[t[1]] # 0 /\ (made \/ t \in files) IN
            /\ files' = IF there THEN files \cup {t} ELSE files
            /\ pulled' = IF there THEN pulled \ {t} ELSE pulled
            /\ refused' = IF there THEN refused ELSE refused \cup {t}
            /\ stage' = [u \in DOMAIN stage \cup {t} |->
                 IF u # t THEN stage[u] ELSE IF there THEN "rendered" ELSE "failed"]
      BY <2>1 DEF Render, Outcomes
    <3> DEFINE ok == disk[t[1]] # 0 /\ (made \/ t \in files)
    <3>2. ok \in BOOLEAN
      OBVIOUS
    <3>3. /\ files' = IF ok THEN files \cup {t} ELSE files
          /\ pulled' = IF ok THEN pulled \ {t} ELSE pulled
          /\ refused' = IF ok THEN refused ELSE refused \cup {t}
          /\ stage' = [u \in DOMAIN stage \cup {t} |->
                 IF u # t THEN stage[u] ELSE IF ok THEN "rendered" ELSE "failed"]
      BY <3>1
    <3>4. UNCHANGED <<disk, highest, rows, nextId, failures, generation, jobs, call, clear>>
      BY <2>1 DEF Render, disks, table
    <3> HIDE DEF ok
    <3>5. stage'[t] = IF ok THEN "rendered" ELSE "failed"
      BY <3>3
    <3> QED
      BY <3>2, <3>3, <3>4, <3>5 DEF Stages
  <2>2. CASE LookAtTarget(t)
    <3> DEFINE ok == t \in files
    <3>1. ok \in BOOLEAN
      OBVIOUS
    <3>2. /\ t \in DOMAIN stage /\ files' = files /\ pulled' = pulled
          /\ refused' = IF ok THEN refused ELSE refused \cup {t}
          /\ stage' = [stage EXCEPT ![t] = IF ok THEN "made" ELSE "failed"]
          /\ UNCHANGED <<disk, highest, rows, nextId, failures, generation, jobs, call, clear>>
      BY <2>2 DEF LookAtTarget, disks, table
    <3> HIDE DEF ok
    <3>3. PICK S \in SUBSET Targets : stage \in [S -> Stages]
      BY <1>1 DEF TypeOK
    <3>4. stage'[t] = IF ok THEN "made" ELSE "failed"
      BY <3>2, <3>3
    <3>5. stage' = [u \in DOMAIN stage \cup {t} |->
                      IF u # t THEN stage[u] ELSE IF ok THEN stage'[t] ELSE "failed"]
      BY <3>2, <3>3, <3>4
    <3> QED
      BY <3>1, <3>2, <3>4, <3>5 DEF Stages
  <2> QED
    BY <2>1, <2>2
<1>3. stage' \in UNION {[S -> Stages] : S \in SUBSET Targets}
  <2>1. PICK S \in SUBSET Targets : stage \in [S -> Stages]
    BY <1>1 DEF TypeOK
  <2>2. DOMAIN stage = S /\ \A u \in S : stage[u] \in Stages
    BY <2>1
  <2>3. "failed" \in Stages
    BY DEF Stages
  <2>4. \A u \in S \cup {t} : stage'[u] \in Stages
    BY <1>2, <2>2, <2>3
  <2>5. DOMAIN stage' = S \cup {t} /\ stage' = [u \in S \cup {t} |-> stage'[u]]
    BY <1>2, <2>2
  <2>6. stage' \in [S \cup {t} -> Stages]
    BY <2>4, <2>5
  <2> QED
    BY <1>1, <2>6
<1>4. TypeOK'
  BY <1>1, <1>2, <1>3 DEF TypeOK
<1>5. Progress /\ \A a \in Assets : RowOK(a)' /\ FailureOK(a)'
  BY <1>2, RowsFrame DEF table
<1>6. \A c \in Callers : CallOK(c)'
  BY <1>2, <1>4, <1>5, QuietFrame
<1>7. FailedIsRefused'
  <2> SUFFICES ASSUME NEW u \in DOMAIN stage', stage'[u] = "failed"
               PROVE  u \in refused'
    BY DEF FailedIsRefused
  <2>1. CASE u = t
    BY <1>2, <2>1
  <2>2. CASE u # t
    <3>1. u \in DOMAIN stage /\ stage'[u] = stage[u]
      BY <1>2, <2>2
    <3> QED
      BY <1>2, <3>1 DEF TrueInv, FailedIsRefused
  <2> QED
    BY <2>1, <2>2
<1>8. ClearSticks'
  BY <1>2 DEF TrueInv, ClearSticks
<1> QED
  BY <1>4, <1>5, <1>6, <1>7, <1>8 DEF TrueInv

\* A worker answers everybody who waits.
LEMMA AnswerKeepsTrue ==
    ASSUME TrueInv, NEW t \in DOMAIN jobs, Answer(t)
    PROVE  TrueInv'
<1>1. TypeOK /\ t \in Targets /\ t[1] \in Assets
  BY DEF TrueInv, TypeOK, Targets
<1> DEFINE ok == stage[t] = "made"
<1>2. /\ ok \in BOOLEAN /\ (~ok => t \in refused)
      /\ call' = [c \in Callers |->
              IF c \in jobs[t]
              THEN [call[c] EXCEPT !.inbox = call[c].inbox \cup {[a |-> t[1], ok |-> ok]}]
              ELSE call[c]]
      /\ jobs' = [u \in DOMAIN jobs \ {t} |-> jobs[u]]
      /\ stage' = [u \in DOMAIN stage \ {t} |-> stage[u]]
      /\ UNCHANGED <<disk, highest, files, rows, nextId, failures, generation, clear,
                     refused, pulled>>
  <2>1. PICK S \in SUBSET Targets : stage \in [S -> Stages]
    BY <1>1 DEF TypeOK
  <2>2. stage[t] \in Stages /\ stage[t] # "rendered" /\ t \in DOMAIN stage
    BY <2>1 DEF Answer
  <2>3. ~ok => t \in refused
    BY <2>2 DEF Stages, TrueInv, FailedIsRefused
  <2> QED
    BY <2>3 DEF Answer, disks, table, history
<1> HIDE DEF ok
<1> DEFINE answer == [a |-> t[1], ok |-> ok]
           With(c) == [call[c] EXCEPT !.inbox = call[c].inbox \cup {answer}]
<1>3. answer \in Results
  <2>1. ok \in BOOLEAN
    BY <1>2
  <2> QED
    BY <1>1, <2>1 DEF Results
<1>4. ASSUME NEW c \in Callers
      PROVE  /\ With(c) \in CallType /\ SameCall(With(c), call[c])
             /\ With(c).todo = call[c].todo /\ With(c).pend = call[c].pend
             /\ With(c).ops = call[c].ops /\ With(c).updates = call[c].updates
             /\ With(c).inbox = call[c].inbox \cup {answer}
             /\ With(c).ready = call[c].ready /\ With(c).failed = call[c].failed
             /\ With(c).skipped = call[c].skipped
  <2>1. call[c] \in CallType
    BY <1>1 DEF TypeOK
  <2> HIDE DEF answer
  <2>2. With(c) \in CallType
    BY <1>3, <2>1 DEF CallType
  <2> QED
    BY <2>1, <2>2 DEF CallType, SameCall
<1>5. call' = [c \in Callers |-> IF c \in jobs[t] THEN With(c) ELSE call[c]]
  BY <1>2
<1>6. answer.a = t[1] /\ answer.ok = ok
  OBVIOUS
<1> HIDE DEF answer, With
<1>7. TypeOK'
  <2>1. call' \in [Callers -> CallType]
    BY <1>1, <1>4, <1>5 DEF TypeOK
  <2>2. jobs' \in UNION {[S -> SUBSET Callers] : S \in SUBSET Targets}
    <3>1. PICK S \in SUBSET Targets : jobs \in [S -> SUBSET Callers]
      BY <1>1 DEF TypeOK
    <3>2. jobs' \in [S \ {t} -> SUBSET Callers]
      BY <1>2, <3>1
    <3> QED
      BY <3>2
  <2>3. stage' \in UNION {[S -> Stages] : S \in SUBSET Targets}
    <3>1. PICK S \in SUBSET Targets : stage \in [S -> Stages]
      BY <1>1 DEF TypeOK
    <3>2. stage' \in [S \ {t} -> Stages]
      BY <1>2, <3>1
    <3> QED
      BY <3>2
  <2> QED
    BY <1>1, <1>2, <2>1, <2>2, <2>3 DEF TypeOK
<1>8. Progress /\ \A a \in Assets : RowOK(a)' /\ FailureOK(a)'
  BY <1>2, RowsFrame DEF table
<1>9. ASSUME NEW c \in Callers PROVE CallOK(c)'
  <2>1. /\ CallOK(c)
        /\ InJobs(c)' = InJobs(c) \ {t} /\ (c \in jobs[t] <=> t \in InJobs(c))
    BY <1>2 DEF TrueInv, InJobs
  <2>2. CASE c \notin jobs[t]
    <3>1. call'[c] = call[c]
      BY <1>5, <2>2
    <3>2. Active(c) => clear'.at = "idle" /\ generation' = generation
      BY <1>2, <2>1 DEF CallOK, Locked
    <3> QED
      BY <1>1, <1>7, <1>8, <2>1, <3>1, <3>2, OtherFrame
  <2>3. CASE c \in jobs[t]
    <3>1. call'[c] = With(c)
      BY <1>5, <2>3
    <3>2. /\ call'[c].at = call[c].at /\ call'[c].snap = call[c].snap
          /\ call'[c].gen = call[c].gen /\ call'[c].todo = call[c].todo
          /\ call'[c].cancelled = call[c].cancelled
          /\ call'[c].pend = call[c].pend /\ call'[c].ops = call[c].ops
          /\ call'[c].updates = call[c].updates
          /\ call'[c].inbox = call[c].inbox \cup {answer}
      BY <1>4, <3>1 DEF SameCall
    <3>3. /\ SnapOK(c)' /\ Known(c)' = Known(c)
          /\ \A a : Target(c, a)' = Target(c, a)
          /\ OwnOps(c) \subseteq OwnOps(c)'
      BY <1>1, <1>7, <1>8, <2>1, <3>2, SnapFrame DEF CallOK
    <3>4. call'[c].ops \in Seq(OwnOps(c)')
      BY <2>1, <3>2, <3>3, SeqGrows DEF CallOK
    <3>5. OwnItems(c)'
      BY <2>1, <3>2, <3>3 DEF CallOK, OwnItems, Working
    <3>6. call[c].at \notin {"new", "page", "done"}
      BY <2>1, <2>3 DEF CallOK, Queued
    <3>7. Working(c) =>
            /\ t[1] \in call[c].pend /\ t = Target(c, t[1])
            /\ \A r \in call[c].inbox : r.a # t[1]
      BY <2>1, <2>3 DEF CallOK, Queued
    <3>8. Awaited(c)'
      <4> SUFFICES ASSUME Working(c)
                   PROVE  /\ \A r \in call'[c].inbox :
                                /\ r.a \in call[c].pend
                                /\ ~r.ok => Target(c, r.a) \in refused'
                          /\ \A r, q \in call'[c].inbox : r.a = q.a => r = q
        BY <3>2, <3>3 DEF Awaited, Working
      <4>1. ~answer.ok => Target(c, answer.a) \in refused'
        <5>1. (~ok => t \in refused) /\ refused' = refused
          BY <1>2
        <5>2. Target(c, answer.a) = t
          BY <1>6, <3>7
        <5> QED
          BY <1>6, <5>1, <5>2
      <4>2. \A r \in call[c].inbox : /\ r.a \in call[c].pend
                                     /\ ~r.ok => Target(c, r.a) \in refused'
        BY <1>2, <2>1 DEF CallOK, Awaited
      <4>3. \A r, q \in call[c].inbox : r.a = q.a => r = q
        BY <2>1 DEF CallOK, Awaited
      <4> QED
        BY <1>6, <3>2, <3>7, <4>1, <4>2, <4>3
    <3>9. Queued(c)'
      <4>1. ASSUME Working(c), NEW u \in InJobs(c)'
            PROVE  /\ u[1] \in call[c].pend /\ u = Target(c, u[1])
                   /\ \A r \in call'[c].inbox : r.a # u[1]
        <5>1. /\ u[1] \in call[c].pend /\ u = Target(c, u[1]) /\ u # t
              /\ \A r \in call[c].inbox : r.a # u[1]
          BY <2>1, <4>1 DEF CallOK, Queued
        <5>2. u[1] # t[1]
          BY <3>7, <4>1, <5>1
        <5> QED
          BY <1>6, <3>2, <5>1, <5>2
      <4>2. call[c].at = "drain" => call[c].cancelled
        BY <2>1 DEF CallOK, Queued
      <4> QED
        BY <3>2, <3>3, <3>6, <4>1, <4>2 DEF Queued, Working
    <3>10. Locked(c)'
      BY <1>2, <2>1, <3>2 DEF CallOK, Locked, Active
    <3> QED
      BY <3>3, <3>4, <3>5, <3>8, <3>9, <3>10 DEF CallOK
  <2> QED
    BY <2>2, <2>3
<1>10. ClearSticks' /\ FailedIsRefused'
  BY <1>2 DEF TrueInv, ClearSticks, FailedIsRefused
<1> QED
  BY <1>7, <1>8, <1>9, <1>10 DEF TrueInv

-----------------------------------------------------------------------------
(* The statements and file operations of a caller                          *)

LEMMA OpFacts ==
    ASSUME TrueInv, NEW c \in Callers, call[c].ops # <<>>
    PROVE  /\ Op(c) \in OwnOps(c) /\ Op(c) \in AllOps
           /\ Rest(c) \in Seq(OwnOps(c)) /\ Rest(c) \in Seq(AllOps)
           /\ Op(c).do # "delete" =>
                /\ Op(c).a \in Known(c) /\ Op(c).a \in Assets /\ Working(c)
                /\ Old(c) \in Rows /\ Old(c).id \in 1 .. nextId - 1
                /\ rows[Op(c).a].id = Old(c).id =>
                    /\ Old(c).rec <= rows[Op(c).a].rec
                    /\ rows[Op(c).a].rec = Old(c).rec => rows[Op(c).a].ver = Old(c).ver
           /\ Op(c).do \in {"cas", "reread", "publish"} =>
                Op(c).thumb \in {None, Target(c, Op(c).a)} /\ Op(c).thumb \in Thumbs
           /\ Op(c).do = "record" => Target(c, Op(c).a) \in refused
<1>1. CallOK(c) /\ TypeOK
  BY DEF TrueInv
<1>2. Op(c) \in OwnOps(c) /\ Rest(c) \in Seq(OwnOps(c))
  BY <1>1, HeadAndTail DEF CallOK, Op, Rest
<1>3. OwnOps(c) \subseteq AllOps
  BY DEF OwnOps
<1>4. Op(c) \in AllOps /\ Rest(c) \in Seq(AllOps)
  BY <1>2, <1>3, SeqGrows
<1>5. ASSUME Op(c).do # "delete"
      PROVE  /\ Op(c).a \in Known(c) /\ Op(c).a \in Assets /\ Working(c)
             /\ Old(c) \in Rows /\ Old(c).id \in 1 .. nextId - 1
             /\ rows[Op(c).a].id = Old(c).id =>
                    /\ Old(c).rec <= rows[Op(c).a].rec
                    /\ rows[Op(c).a].rec = Old(c).rec => rows[Op(c).a].ver = Old(c).ver
  <2>1. Op(c).a \in Known(c)
    BY <1>2, <1>5 DEF OwnOps
  <2>2. call[c].snap \in Snaps
    BY <1>1 DEF TypeOK, CallType
  <2>3. Op(c).a \in Assets /\ Old(c) \in Rows
    BY <2>1, <2>2, SnapType DEF Known, Old
  <2>4. Working(c)
    BY <1>1, <2>1 DEF CallOK, OwnItems
  <2> QED
    BY <1>1, <2>1, <2>3, <2>4 DEF CallOK, SnapOK, Old
<1>6. ASSUME Op(c).do \in {"cas", "reread", "publish"}
      PROVE  Op(c).thumb \in {None, Target(c, Op(c).a)} /\ Op(c).thumb \in Thumbs
  <2>1. Op(c).thumb \in {None, Target(c, Op(c).a)}
    BY <1>2, <1>6 DEF OwnOps
  <2>2. Op(c) \in CasOps \cup PublishOps
    BY <1>4, <1>6 DEF AllOps, NoteOps, DeleteOps
  <2> QED
    BY <2>1, <2>2 DEF CasOps, PublishOps, Thumbs
<1> QED
  BY <1>2, <1>4, <1>5, <1>6 DEF OwnOps

\* What of a call its statements leave alone.
SameWork(r, q) ==
    /\ r.kind = q.kind /\ r.at = q.at /\ r.snap = q.snap /\ r.gen = q.gen
    /\ r.after = q.after /\ r.ceiling = q.ceiling /\ r.cancelled = q.cancelled
    /\ r.seen = q.seen /\ r.todo = q.todo /\ r.pend = q.pend /\ r.inbox = q.inbox
    /\ r.updates = q.updates /\ r.failed = q.failed /\ r.skipped = q.skipped

\* The frame of such a step.
LEMMA OpFrame ==
    ASSUME TrueInv, NEW c \in Callers, NEW r \in CallType, SameWork(r, call[c]),
           call' = [call EXCEPT ![c] = r], jobs' = jobs, stage' = stage, clear' = clear,
           generation' = generation, nextId' = nextId,
           disk' = disk, highest' = highest, files' \subseteq Targets,
           rows' \in [Assets -> Rows],
           failures' \in [Assets -> {None} \cup (Nat \X Nat)],
           refused' = refused, pulled' \subseteq Targets, Progress,
           \A a \in Assets : RowOK(a)' /\ FailureOK(a)', ClearSticks',
           TypeOK' => r.ops \in Seq(OwnOps(c)')
    PROVE  TrueInv'
<1>1. TypeOK /\ CallOK(c)
  BY DEF TrueInv
<1>2. /\ call' \in [Callers -> CallType] /\ call'[c] = r
      /\ \A d \in Callers \ {c} : call'[d] = call[d]
  BY <1>1, CallTakes
<1>3. TypeOK'
  BY <1>1, <1>2 DEF TypeOK
<1>4. \A d \in Callers : InJobs(d)' = InJobs(d)
  BY DEF InJobs
<1>5. CallOK(c)'
  <2>1. /\ SnapOK(c)' /\ Known(c)' = Known(c)
        /\ \A a : Target(c, a)' = Target(c, a)
    BY <1>1, <1>2, <1>3, SnapFrame DEF CallOK, SameWork
  <2>2. OwnItems(c)' /\ Awaited(c)' /\ Queued(c)' /\ Locked(c)'
    <3>1. OwnItems(c)'
      BY <1>1, <1>2, <2>1 DEF CallOK, OwnItems, Working, SameWork
    <3>2. Awaited(c)'
      BY <1>1, <1>2, <2>1 DEF CallOK, Awaited, Working, SameWork
    <3>3. Queued(c)'
      BY <1>1, <1>2, <1>4, <2>1 DEF CallOK, Queued, Working, SameWork
    <3>4. Locked(c)'
      BY <1>1, <1>2 DEF CallOK, Locked, Active, SameWork
    <3> QED
      BY <3>1, <3>2, <3>3, <3>4
  <2> QED
    BY <1>2, <1>3, <2>1, <2>2 DEF CallOK
<1>6. \A d \in Callers : CallOK(d)'
  BY <1>2, <1>3, <1>4, <1>5, CallerFrame
<1>7. FailedIsRefused'
  BY DEF TrueInv, FailedIsRefused
<1> QED
  BY <1>3, <1>6, <1>7 DEF TrueInv

\* What a statement leaves: the operations to do, and who is ready or stale.
Left(c, ops) == [call[c] EXCEPT !.ops = ops]
LeftReady(c, a, ops) ==
    [call[c] EXCEPT !.ops = ops,
       !.ready = IF call[c].kind = "page" THEN call[c].ready \cup {a} ELSE call[c].ready]
LeftStale(c, a, ops) == [call[c] EXCEPT !.ops = ops, !.stale = call[c].stale \cup {a}]

LEMMA LeftIs ==
    ASSUME TypeOK, NEW c \in Callers, NEW ops \in Seq(AllOps), NEW r, r = Left(c, ops)
    PROVE  /\ Then(c, ops) = [call EXCEPT ![c] = r]
           /\ r \in CallType /\ SameWork(r, call[c]) /\ r.ops = ops
           /\ r.ready = call[c].ready /\ r.stale = call[c].stale
<1>1. call[c] \in CallType
  BY DEF TypeOK
<1>2. r \in CallType
  BY <1>1 DEF CallType, Left
<1>3. SameWork(r, call[c]) /\ r.ops = ops /\ r.ready = call[c].ready /\ r.stale = call[c].stale
  BY <1>1 DEF CallType, SameWork, Left
<1>4. Then(c, ops) = [call EXCEPT ![c] = r]
  BY DEF Then, Left
<1> QED
  BY <1>2, <1>3, <1>4

LEMMA LeftReadyIs ==
    ASSUME TypeOK, NEW c \in Callers, NEW ops \in Seq(AllOps), NEW a \in Assets,
           NEW t, NEW r, r = LeftReady(c, a, ops)
    PROVE  /\ Applied(c, a, t, ops) = [call EXCEPT ![c] = r]
           /\ r \in CallType /\ SameWork(r, call[c]) /\ r.ops = ops
           /\ call[c].kind = "page" => r.ready = call[c].ready \cup {a}
           /\ call[c].kind # "page" => r.ready = call[c].ready
           /\ r.stale = call[c].stale
<1> DEFINE ready == IF call[c].kind = "page" THEN call[c].ready \cup {a} ELSE call[c].ready
<1>1. call[c] \in CallType
  BY DEF TypeOK
<1>2. ready \subseteq Assets
  BY <1>1 DEF CallType
<1>3. r = [call[c] EXCEPT !.ops = ops, !.ready = ready]
  BY DEF LeftReady
<1>4. Applied(c, a, t, ops) = [call EXCEPT ![c] = r]
  BY DEF Applied, LeftReady
<1> HIDE DEF ready
<1>5. r \in CallType
  BY <1>1, <1>2, <1>3 DEF CallType
<1>6. SameWork(r, call[c]) /\ r.ops = ops /\ r.ready = ready /\ r.stale = call[c].stale
  BY <1>1, <1>3 DEF CallType, SameWork
<1> QED
  BY <1>4, <1>5, <1>6 DEF ready

LEMMA LeftStaleIs ==
    ASSUME TypeOK, NEW c \in Callers, NEW ops \in Seq(AllOps), NEW a \in Assets,
           NEW r, r = LeftStale(c, a, ops)
    PROVE  /\ Dropped(c, a, ops) = [call EXCEPT ![c] = r]
           /\ r \in CallType /\ SameWork(r, call[c]) /\ r.ops = ops
           /\ r.ready = call[c].ready /\ r.stale = call[c].stale \cup {a}
<1>1. call[c] \in CallType
  BY DEF TypeOK
<1>2. r \in CallType
  BY <1>1 DEF CallType, LeftStale
<1>3. /\ SameWork(r, call[c]) /\ r.ops = ops
      /\ r.ready = call[c].ready /\ r.stale = call[c].stale \cup {a}
  BY <1>1 DEF CallType, SameWork, LeftStale
<1>4. Dropped(c, a, ops) = [call EXCEPT ![c] = r]
  BY DEF Dropped, LeftStale
<1> QED
  BY <1>2, <1>3, <1>4

\* A thumb_path is written for the version the row has.
LEMMA ThumbsWritten ==
    ASSUME TrueInv, rows' \in [Assets -> Rows], UNCHANGED <<nextId, failures>>,
           refused \subseteq refused',
           \A a \in Assets :
              /\ rows'[a].id = rows[a].id /\ rows'[a].ver = rows[a].ver
              /\ rows'[a].rec = rows[a].rec
              /\ \/ rows'[a] = rows[a]
                 \/ rows[a] # NoRow /\ rows'[a].thumb \in {None, thumb_target(a, rows[a].ver)}
    PROVE  Progress /\ \A a \in Assets : RowOK(a)' /\ FailureOK(a)'
<1>1. \A a \in Assets : rows[a] \in Rows /\ rows[a].rec \in Nat /\ RowOK(a) /\ FailureOK(a)
  BY DEF TrueInv, TypeOK, Rows
<1>2. Progress
  BY <1>1 DEF Progress, TrueInv, TypeOK
<1>3. ASSUME NEW a \in Assets PROVE RowOK(a)' /\ FailureOK(a)'
  <2>1. RowOK(a)'
    BY <1>1 DEF RowOK
  <2>2. FailureOK(a)'
    BY <1>1 DEF FailureOK, thumb_target
  <2> QED
    BY <2>1, <2>2
<1> QED
  BY <1>2, <1>3

\* The UPDATE of one row.
LEMMA PutIs ==
    ASSUME TrueInv, NEW c \in Callers, NEW a \in Assets, NEW t \in {None, Target(c, a)},
           t \in Thumbs, Working(c), Matches(a, call[c].snap[a]), rows' = Put(rows, a, t),
           UNCHANGED <<nextId, failures, clear>>, refused \subseteq refused'
    PROVE  /\ rows' \in [Assets -> Rows] /\ rows'[a].thumb = t
           /\ \A b \in Assets \ {a} : rows'[b] = rows[b]
           /\ \A b \in Assets : /\ rows'[b].id = rows[b].id /\ rows'[b].ver = rows[b].ver
                                /\ rows'[b].rec = rows[b].rec
           /\ Progress /\ \A b \in Assets : RowOK(b)' /\ FailureOK(b)'
           /\ ClearSticks'
<1>1. rows \in [Assets -> Rows] /\ rows[a] \in Rows
  BY DEF TrueInv, TypeOK
<1>2. /\ [rows[a] EXCEPT !.thumb = t] \in Rows
      /\ [rows[a] EXCEPT !.thumb = t].id = rows[a].id
      /\ [rows[a] EXCEPT !.thumb = t].ver = rows[a].ver
      /\ [rows[a] EXCEPT !.thumb = t].rec = rows[a].rec
      /\ [rows[a] EXCEPT !.thumb = t].thumb = t
  BY <1>1 DEF Rows
<1>3. rows' = [rows EXCEPT ![a] = [rows[a] EXCEPT !.thumb = t]]
  BY DEF Put
<1> DEFINE q == [rows[a] EXCEPT !.thumb = t]
<1> HIDE DEF q
<1>4. /\ rows' \in [Assets -> Rows] /\ rows'[a] = q
      /\ \A b \in Assets \ {a} : rows'[b] = rows[b]
  BY <1>1, <1>2, <1>3 DEF q
<1>5. q.id = rows[a].id /\ q.ver = rows[a].ver /\ q.rec = rows[a].rec /\ q.thumb = t
  BY <1>2 DEF q
<1>6. rows[a] # NoRow /\ t \in {None, thumb_target(a, rows[a].ver)}
  BY <1>1 DEF Matches, NoRow, Target, thumb_target
<1>7. \A b \in Assets : /\ rows'[b].id = rows[b].id /\ rows'[b].ver = rows[b].ver
                        /\ rows'[b].rec = rows[b].rec
  BY <1>4, <1>5
<1>8. \A b \in Assets :
        \/ rows'[b] = rows[b]
        \/ rows[b] # NoRow /\ rows'[b].thumb \in {None, thumb_target(b, rows[b].ver)}
  BY <1>4, <1>5, <1>6
<1>9. Progress /\ \A b \in Assets : RowOK(b)' /\ FailureOK(b)'
  BY <1>4, <1>7, <1>8, ThumbsWritten
<1>10. clear.at = "idle"
  BY DEF TrueInv, CallOK, Locked, Active, Working
<1> QED
  BY <1>4, <1>5, <1>7, <1>9, <1>10 DEF ClearSticks

\* The frame of a statement that writes neither rows nor failures.
LEMMA QuietOpFrame ==
    ASSUME TrueInv, NEW c \in Callers, NEW r \in CallType, SameWork(r, call[c]),
           call' = [call EXCEPT ![c] = r],
           UNCHANGED <<disk, highest, rows, nextId, failures, generation, jobs, stage, clear, refused>>,
           files' \subseteq files, pulled' \subseteq Targets,
           TypeOK' /\ Progress => r.ops \in Seq(OwnOps(c)')
    PROVE  TrueInv'
<1>1. Progress /\ \A a \in Assets : RowOK(a)' /\ FailureOK(a)'
  BY RowsFrame DEF table
<1>2. ClearSticks'
  BY DEF TrueInv, ClearSticks
<1> QED
  BY <1>1, <1>2, OpFrame DEF TrueInv, TypeOK

\* The deletion a lost compare-and-set leaves.
LEMMA DropIs ==
    ASSUME NEW a, NEW old, NEW t \in Targets
    PROVE  /\ DropOp(a, t, old) \in DeleteOps /\ DropOp(a, t, old).do = "delete"
           /\ DropOp(a, t, old).targets = {t}
           /\ DropOp(a, t, old).mistaken = Matches(a, old)
<1>1. Matches(a, old) \in BOOLEAN
  BY DEF Matches
<1> DEFINE m == Matches(a, old)
<1>2. DropOp(a, t, old) = [do |-> "delete", targets |-> {t}, mistaken |-> m]
  BY DEF DropOp
<1> HIDE DEF m
<1>3. m \in BOOLEAN
  BY <1>1 DEF m
<1> QED
  BY <1>2, <1>3 DEF DeleteOps, m

\* What is left to do stays a list of own operations.
LEMMA RestIsOwn ==
    ASSUME TrueInv, TypeOK', Progress, NEW c \in Callers, call[c].ops # <<>>,
           call'[c].snap = call[c].snap
    PROVE  /\ Rest(c) \in Seq(OwnOps(c)') /\ OwnOps(c) \subseteq OwnOps(c)'
           /\ \A T \in SUBSET Targets : <<DeleteOp(T)>> \in Seq(OwnOps(c)')
           /\ \A a, old : \A t \in Targets : <<DropOp(a, t, old)>> \in Seq(OwnOps(c)')
<1>1. TypeOK /\ SnapOK(c)
  BY DEF TrueInv, CallOK
<1>2. OwnOps(c) \subseteq OwnOps(c)'
  BY <1>1, SnapFrame
<1>3. Rest(c) \in Seq(OwnOps(c)')
  BY <1>2, OpFacts, SeqGrows
<1>4. \A T \in SUBSET Targets : DeleteOp(T) \in OwnOps(c)'
  BY <1>1, OwnOpsOf
<1>5. ASSUME NEW a, NEW old, NEW t \in Targets PROVE DropOp(a, t, old) \in OwnOps(c)'
  BY DropIs DEF OwnOps, AllOps
<1> QED
  BY <1>2, <1>3, <1>4, <1>5, SmallSeqs

LEMMA CasKeepsTrue ==
    ASSUME TrueInv, NEW c \in Callers, Cas(c)
    PROVE  TrueInv'
<1> DEFINE a == Op(c).a
           t == Op(c).thumb
           again == RereadOp(a, t, Op(c).lost)
<1>1. /\ call[c].ops # <<>> /\ Op(c).do = "cas"
      /\ UNCHANGED <<disk, highest, files, nextId, failures, generation, jobs, stage, clear,
                     refused, pulled>>
  BY DEF Cas, AtOp, Op, disks, scheduler, history
<1>2. /\ a \in Known(c) /\ a \in Assets /\ Working(c) /\ t \in {None, Target(c, a)}
      /\ t \in Thumbs /\ Op(c) \in OwnOps(c) /\ Rest(c) \in Seq(AllOps)
  BY <1>1, OpFacts
<1>3. call[c] \in CallType /\ call \in [Callers -> CallType] /\ TypeOK /\ SnapOK(c)
  BY DEF TrueInv, TypeOK, CallOK
<1>4. CASE Matches(a, Old(c)) /\ rows[a].thumb # t
  <2> DEFINE r == LeftReady(c, a, Rest(c))
  <2>1. rows' = Put(rows, a, t) /\ call' = Applied(c, a, t, Rest(c))
    BY <1>4 DEF Cas
  <2>2. /\ call' = [call EXCEPT ![c] = r] /\ r \in CallType /\ SameWork(r, call[c])
        /\ r.ops = Rest(c)
    <3>1. r = LeftReady(c, a, Rest(c)) /\ a \in Assets /\ Rest(c) \in Seq(AllOps)
      BY <1>2
    <3> HIDE DEF r, a, t
    <3> QED
      BY <1>3, <2>1, <3>1, LeftReadyIs
  <2>3. /\ rows' \in [Assets -> Rows] /\ Progress
        /\ \A b \in Assets : RowOK(b)' /\ FailureOK(b)'
        /\ ClearSticks'
    BY <1>1, <1>2, <1>4, <2>1, PutIs DEF Old
  <2> HIDE DEF r
  <2>4. ASSUME TypeOK' PROVE r.ops \in Seq(OwnOps(c)')
    BY <1>1, <1>3, <2>2, <2>3, <2>4, RestIsOwn, CallTakes DEF SameWork
  <2> QED
    BY <1>1, <2>2, <2>3, <2>4, OpFrame DEF TrueInv, TypeOK
<1>5. CASE ~(Matches(a, Old(c)) /\ rows[a].thumb # t)
  <2> DEFINE ops == <<again>> \o Rest(c)
             r == Left(c, ops)
  <2>1. rows' = rows /\ call' = Then(c, ops)
    BY <1>5 DEF Cas
  <2>2. Op(c) \in CasOps
    BY <1>1, <1>2 DEF OwnOps, AllOps, PublishOps, NoteOps, DeleteOps
  <2>3. Op(c).lost \in {"go on", "delete", "stop"} /\ (Op(c).lost = "delete" => t # None)
    BY <2>2 DEF CasOps
  <2>4. again \in AllOps
    <3>1. again \in CasOps
      BY <1>2, <2>3 DEF RereadOp, CasOps
    <3> QED
      BY <3>1 DEF AllOps
  <2>5. ops \in Seq(AllOps)
    BY <1>2, <2>4, SmallSeqs
  <2> HIDE DEF ops
  <2>6. /\ call' = [call EXCEPT ![c] = r] /\ r \in CallType /\ SameWork(r, call[c])
        /\ r.ops = ops
    BY <1>3, <2>1, <2>5, LeftIs
  <2> HIDE DEF r
  <2>7. ASSUME TypeOK', Progress PROVE ops \in Seq(OwnOps(c)')
    <3>1. call'[c].snap = call[c].snap
      BY <1>3, <2>6, CallTakes DEF SameWork
    <3>2. again \in OwnOps(c)'
      BY <1>2, <1>3, <2>3, <2>7, <3>1, OwnOpsOf
    <3>3. Rest(c) \in Seq(OwnOps(c)')
      BY <1>1, <2>7, <3>1, RestIsOwn
    <3> QED
      BY <3>2, <3>3, SmallSeqs DEF ops
  <2> QED
    BY <1>1, <1>3, <2>1, <2>6, <2>7, QuietOpFrame DEF TypeOK
<1> QED
  BY <1>4, <1>5

LEMMA RereadKeepsTrue ==
    ASSUME TrueInv, NEW c \in Callers, Reread(c)
    PROVE  TrueInv'
<1> DEFINE a == Op(c).a
           t == Op(c).thumb
           drop == <<DropOp(a, t, Old(c))>>
<1>1. /\ call[c].ops # <<>> /\ Op(c).do = "reread"
      /\ UNCHANGED <<disk, highest, files, rows, nextId, failures, generation, jobs, stage, clear,
                     refused, pulled>>
  BY DEF Reread, AtOp, Op, OnlyCalls, disks, table, scheduler, history
<1>2. /\ a \in Known(c) /\ a \in Assets /\ t \in {None, Target(c, a)}
      /\ t \in Thumbs /\ Op(c) \in AllOps /\ Rest(c) \in Seq(AllOps)
  BY <1>1, OpFacts
<1>3. TypeOK /\ pulled \subseteq Targets
  BY DEF TrueInv, TypeOK
<1>4. Op(c).lost \in {"go on", "delete", "stop"} /\ (Op(c).lost = "delete" => t \in Targets)
  <2>1. Op(c) \in CasOps
    BY <1>1, <1>2 DEF AllOps, PublishOps, NoteOps, DeleteOps
  <2> QED
    BY <1>2, <2>1 DEF CasOps, Thumbs
<1>5. pulled' \subseteq Targets
  BY <1>1, <1>3
<1>6. \E ops \in {<<>>, Rest(c), drop} :
        /\ ops = drop => t \in Targets
        /\ call' \in {Applied(c, a, t, ops), Then(c, ops)}
  <2>1. \/ call' = Applied(c, a, t, Rest(c)) \/ call' = Then(c, <<>>)
        \/ call' = Then(c, Rest(c)) \/ (call' = Then(c, drop) /\ Op(c).lost = "delete")
    BY <1>4 DEF Reread
  <2>2. Rest(c) = drop => t \in Targets
    <3> DEFINE op == DropOp(a, t, Old(c))
    <3>1. op.do = "delete" /\ op.targets = {t}
      BY DEF DropOp
    <3> HIDE DEF op
    <3>2. ASSUME op \in AllOps PROVE t \in Targets
      <4>1. op \in DeleteOps
        BY <3>1, <3>2 DEF AllOps, CasOps, PublishOps, NoteOps
      <4> QED
        BY <3>1, <4>1 DEF DeleteOps
    <3>3. ASSUME Rest(c) = <<op>> PROVE op \in AllOps
      BY <1>2, <3>3
    <3> QED
      BY <3>2, <3>3 DEF op
  <2>3. drop # <<>>
    OBVIOUS
  <2> QED
    BY <1>4, <2>1, <2>2, <2>3
<1>7. PICK ops \in {<<>>, Rest(c), drop} :
        /\ ops = drop => t \in Targets
        /\ call' \in {Applied(c, a, t, ops), Then(c, ops)}
  BY <1>6
<1>8. ops \in Seq(AllOps)
  <2>1. ASSUME t \in Targets PROVE drop \in Seq(AllOps)
    <3>1. DropOp(a, t, Old(c)) \in AllOps
      BY <2>1, DropIs DEF AllOps
    <3> QED
      BY <3>1, SmallSeqs
  <2> QED
    BY <1>2, <1>7, <2>1, EmptyIsSeq
<1> HIDE DEF drop
<1>9. PICK r \in {Left(c, ops), LeftReady(c, a, ops)} :
        /\ call' = [call EXCEPT ![c] = r] /\ r \in CallType /\ SameWork(r, call[c])
        /\ r.ops = ops
  <2>1. CASE call' = Then(c, ops)
    <3> DEFINE r == Left(c, ops)
    <3>1. /\ call' = [call EXCEPT ![c] = r] /\ r \in CallType /\ SameWork(r, call[c])
          /\ r.ops = ops
      BY <1>3, <1>8, <2>1, LeftIs
    <3> QED
      BY <3>1
  <2>2. CASE call' = Applied(c, a, t, ops)
    <3> DEFINE r == LeftReady(c, a, ops)
    <3>1. /\ call' = [call EXCEPT ![c] = r] /\ r \in CallType /\ SameWork(r, call[c])
          /\ r.ops = ops
      <4>1. r = LeftReady(c, a, ops) /\ a \in Assets
        BY <1>2
      <4> HIDE DEF r, a, t
      <4> QED
        BY <1>3, <1>8, <2>2, <4>1, LeftReadyIs
    <3> QED
      BY <3>1
  <2> QED
    BY <1>7, <2>1, <2>2
<1>10. ASSUME TypeOK', Progress PROVE ops \in Seq(OwnOps(c)')
  <2>1. call'[c].snap = call[c].snap
    BY <1>9, CallTakes DEF SameWork, TrueInv
  <2>2. /\ Rest(c) \in Seq(OwnOps(c)')
        /\ t \in Targets => drop \in Seq(OwnOps(c)')
    BY <1>1, <1>10, <2>1, RestIsOwn DEF drop
  <2> QED
    BY <1>7, <2>2, EmptyIsSeq
<1> QED
  BY <1>1, <1>5, <1>9, <1>10, QuietOpFrame

LEMMA PublishReadyKeepsTrue ==
    ASSUME TrueInv, NEW c \in Callers, PublishReady(c)
    PROVE  TrueInv'
<1> DEFINE a == Op(c).a
           t == Op(c).thumb
<1>1. /\ call[c].ops # <<>> /\ Op(c).do = "publish"
      /\ UNCHANGED <<disk, highest, files, nextId, failures, generation, jobs, stage, clear,
                     refused, pulled>>
  BY DEF PublishReady, AtOp, Op, disks, scheduler, history
<1>2. /\ a \in Known(c) /\ a \in Assets /\ Working(c) /\ t \in {None, Target(c, a)}
      /\ t \in Thumbs /\ Op(c) \in AllOps /\ Rest(c) \in Seq(AllOps)
  BY <1>1, OpFacts
<1>3. TypeOK /\ pulled \subseteq Targets
  BY DEF TrueInv, TypeOK
<1>4. t \in Targets
  <2>1. Op(c) \in PublishOps
    BY <1>1, <1>2 DEF AllOps, CasOps, NoteOps, DeleteOps
  <2> QED
    BY <2>1 DEF PublishOps
<1>5. CASE generation = call[c].gen /\ Matches(a, Old(c))
  <2> DEFINE r == LeftReady(c, a, Rest(c))
  <2>1. rows' = Put(rows, a, t) /\ call' = Applied(c, a, t, Rest(c))
    BY <1>5 DEF PublishReady
  <2>2. /\ call' = [call EXCEPT ![c] = r] /\ r \in CallType /\ SameWork(r, call[c])
        /\ r.ops = Rest(c)
    BY <1>2, <1>3, <2>1, LeftReadyIs
  <2>3. /\ rows' \in [Assets -> Rows] /\ Progress
        /\ \A b \in Assets : RowOK(b)' /\ FailureOK(b)'
        /\ ClearSticks'
    BY <1>1, <1>2, <1>5, <2>1, PutIs DEF Old
  <2> HIDE DEF r
  <2>4. ASSUME TypeOK' PROVE r.ops \in Seq(OwnOps(c)')
    BY <1>1, <1>3, <2>2, <2>3, <2>4, RestIsOwn, CallTakes DEF SameWork
  <2> QED
    BY <1>1, <2>2, <2>3, <2>4, OpFrame DEF TrueInv, TypeOK
<1>6. CASE ~(generation = call[c].gen /\ Matches(a, Old(c)))
  <2> DEFINE drop == <<DeleteOp({t})>>
             ops == drop \o Rest(c)
             r == LeftStale(c, a, ops)
  <2>1. rows' = rows /\ call' = Dropped(c, a, ops)
    BY <1>6 DEF PublishReady
  <2>2. ops \in Seq(AllOps)
    BY <1>2, <1>4, OpsType, SmallSeqs
  <2> HIDE DEF ops, drop
  <2>3. /\ call' = [call EXCEPT ![c] = r] /\ r \in CallType /\ SameWork(r, call[c])
        /\ r.ops = ops
    <3>1. r = LeftStale(c, a, ops) /\ a \in Assets
      BY <1>2
    <3> HIDE DEF r, a, t
    <3> QED
      BY <1>3, <2>1, <2>2, <3>1, LeftStaleIs
  <2> HIDE DEF r
  <2>4. ASSUME TypeOK', Progress PROVE r.ops \in Seq(OwnOps(c)')
    <3>1. call'[c].snap = call[c].snap
      BY <1>3, <2>3, CallTakes DEF SameWork
    <3>2. Rest(c) \in Seq(OwnOps(c)') /\ drop \in Seq(OwnOps(c)')
      BY <1>1, <1>4, <2>4, <3>1, RestIsOwn DEF drop
    <3> QED
      BY <2>3, <3>2, ConcatIsSeq DEF ops
  <2> QED
    BY <1>1, <1>3, <2>1, <2>3, <2>4, QuietOpFrame
<1> QED
  BY <1>5, <1>6

LEMMA NoteKeepsTrue ==
    ASSUME TrueInv, NEW c \in Callers, Record(c) \/ ClearRecord(c)
    PROVE  TrueInv'
<1> DEFINE a == Op(c).a
           old == Old(c)
           r == Left(c, Rest(c))
<1>1. /\ call[c].ops # <<>> /\ Op(c).do \in {"record", "clear"}
      /\ call' = Then(c, Rest(c))
      /\ UNCHANGED <<disk, highest, files, rows, nextId, generation, jobs, stage, clear,
                     refused, pulled>>
  BY DEF Record, ClearRecord, AtOp, Op, disks, table, scheduler, history
<1>2. /\ a \in Known(c) /\ a \in Assets /\ Working(c) /\ old \in Rows
      /\ old.id \in 1 .. nextId - 1
      /\ rows[a].id = old.id => old.rec <= rows[a].rec
      /\ rows[a].id = old.id /\ rows[a].rec = old.rec => rows[a].ver = old.ver
      /\ Op(c).do = "record" => Target(c, a) \in refused
      /\ Rest(c) \in Seq(AllOps)
  BY <1>1, OpFacts
<1>3. TypeOK /\ failures \in [Assets -> {None} \cup (Nat \X Nat)] /\ FailureOK(a)
  BY <1>2 DEF TrueInv, TypeOK
<1>4. /\ call' = [call EXCEPT ![c] = r] /\ r \in CallType /\ SameWork(r, call[c])
      /\ r.ops = Rest(c)
  BY <1>1, <1>2, <1>3, LeftIs
<1>5. /\ \A b \in Assets \ {a} : failures'[b] = failures[b]
      /\ failures' \in [Assets -> {None} \cup (Nat \X Nat)]
      /\ \/ failures'[a] \in {None, failures[a]}
         \/ /\ failures'[a] = <<old.id, old.rec>> /\ rows[a].id = old.id
            /\ rows[a].rec = old.rec /\ Op(c).do = "record"
  <2>1. old.id \in Nat /\ old.rec \in Nat
    BY <1>2 DEF Rows
  <2> HIDE DEF a, old
  <2>2. CASE failures' = failures
    BY <1>3, <2>2
  <2>3. CASE /\ failures' = [failures EXCEPT ![a] = <<old.id, old.rec>>]
             /\ rows[a].id = old.id /\ rows[a].rec = old.rec /\ Op(c).do = "record"
    BY <1>2, <1>3, <2>1, <2>3
  <2>4. CASE failures' = [failures EXCEPT ![a] = None]
    BY <1>2, <1>3, <2>4
  <2>5. \/ failures' = failures
        \/ /\ failures' = [failures EXCEPT ![a] = <<old.id, old.rec>>]
           /\ rows[a].id = old.id /\ rows[a].rec = old.rec /\ Op(c).do = "record"
        \/ failures' = [failures EXCEPT ![a] = None]
    BY DEF Record, ClearRecord, Recorded, Cleared, AtOp, Op, a, old
  <2> QED
    BY <2>2, <2>3, <2>4, <2>5
<1>6. Progress
  <2>1. \A b \in Assets : rows[b].rec \in Nat
    BY <1>3 DEF TypeOK, Rows
  <2> QED
    BY <1>1, <1>3, <2>1 DEF Progress, TypeOK
<1>7. ASSUME NEW b \in Assets PROVE RowOK(b)' /\ FailureOK(b)'
  <2>1. RowOK(b)'
    BY <1>1 DEF TrueInv, RowOK
  <2>2. CASE failures'[b] = failures[b]
    BY <1>1, <2>1, <2>2 DEF TrueInv, FailureOK
  <2>3. CASE failures'[b] = None
    BY <2>1, <2>3 DEF FailureOK
  <2>4. CASE /\ b = a /\ failures'[a] = <<old.id, old.rec>> /\ rows[a].id = old.id
             /\ rows[a].rec = old.rec /\ Op(c).do = "record"
    <3>1. rows[a].ver = old.ver /\ Target(c, a) \in refused
      BY <1>2, <2>4
    <3>2. Target(c, a) = thumb_target(a, rows[a].ver)
      BY <3>1 DEF Target, Old
    <3>3. old.rec <= rows[a].rec
      BY <1>2, <2>4
    <3> HIDE DEF a, old
    <3>4. failures'[a][1] = old.id /\ failures'[a][2] = old.rec
      BY <2>4
    <3> QED
      BY <1>1, <1>2, <2>1, <2>4, <3>1, <3>2, <3>3, <3>4 DEF FailureOK
  <2> QED
    BY <1>5, <2>1, <2>2, <2>3, <2>4
<1>8. ClearSticks'
  BY <1>1 DEF TrueInv, ClearSticks
<1> HIDE DEF r
<1>9. ASSUME TypeOK' PROVE r.ops \in Seq(OwnOps(c)')
  BY <1>1, <1>3, <1>4, <1>6, <1>9, RestIsOwn, CallTakes DEF SameWork
<1> QED
  BY <1>1, <1>4, <1>5, <1>6, <1>7, <1>8, <1>9, OpFrame DEF TrueInv, TypeOK

LEMMA DeleteKeepsTrue ==
    ASSUME TrueInv, NEW c \in Callers, Delete(c)
    PROVE  TrueInv'
<1> DEFINE r == Left(c, Rest(c))
<1>1. /\ call[c].ops # <<>> /\ call' = Then(c, Rest(c)) /\ files' \subseteq files
      /\ UNCHANGED <<disk, highest, rows, nextId, failures, generation, jobs, stage, clear,
                     refused>>
      /\ Op(c).do = "delete" /\ pulled' \subseteq pulled \cup Op(c).targets
  BY DEF Delete, AtOp, Op, disks, table, scheduler, history
<1>2. Rest(c) \in Seq(AllOps) /\ TypeOK /\ pulled \subseteq Targets
  BY <1>1, OpFacts DEF TrueInv, TypeOK
<1>3. pulled' \subseteq Targets
  <2>1. Op(c) \in DeleteOps
    BY <1>1, OpFacts DEF AllOps, CasOps, PublishOps, NoteOps
  <2> QED
    BY <1>1, <1>2, <2>1 DEF DeleteOps
<1>4. /\ call' = [call EXCEPT ![c] = r] /\ r \in CallType /\ SameWork(r, call[c])
      /\ r.ops = Rest(c)
  BY <1>1, <1>2, LeftIs
<1> HIDE DEF r
<1>5. ASSUME TypeOK', Progress PROVE r.ops \in Seq(OwnOps(c)')
  BY <1>1, <1>2, <1>4, <1>5, RestIsOwn, CallTakes DEF SameWork
<1> QED
  BY <1>1, <1>4, <1>5, <1>3, QuietOpFrame

LEMMA NoticeCancelKeepsTrue ==
    ASSUME TrueInv, NEW c \in Callers, NoticeCancel(c)
    PROVE  TrueInv'
<1> DEFINE r == [call[c] EXCEPT !.at = "drain", !.cancelled = TRUE]
<1>1. call[c].at = "visit" /\ OnlyCalls /\ CallOK(c) /\ TypeOK /\ call[c] \in CallType
  BY DEF NoticeCancel, TrueInv, TypeOK
<1>2. call' = [call EXCEPT ![c] = r]
  BY DEF NoticeCancel
<1>3. /\ r \in CallType /\ r.at = "drain" /\ r.cancelled /\ r.snap = call[c].snap
      /\ r.gen = call[c].gen /\ r.ops = call[c].ops /\ r.todo = call[c].todo
      /\ r.pend = call[c].pend /\ r.inbox = call[c].inbox /\ r.updates = call[c].updates
  BY <1>1 DEF CallType
<1> HIDE DEF r
<1>4. call'[c] = r
  BY <1>1, <1>2, <1>3, CallTakes
<1>5. ASSUME TypeOK' PROVE CallOK(c)'
  <2>1. Progress
    BY <1>1, RowsFrame DEF OnlyCalls, table, scheduler, history
  <2>2. /\ SnapOK(c)' /\ Known(c)' = Known(c) /\ \A a : Target(c, a)' = Target(c, a)
        /\ OwnOps(c) \subseteq OwnOps(c)'
    BY <1>1, <1>3, <1>4, <1>5, <2>1, SnapFrame DEF CallOK
  <2>3. call'[c].ops \in Seq(OwnOps(c)')
    BY <1>1, <1>3, <1>4, <2>2, SeqGrows DEF CallOK
  <2>4. OwnItems(c)'
    BY <1>1, <1>3, <1>4, <2>2 DEF CallOK, OwnItems, Working
  <2>5. Awaited(c)'
    BY <1>1, <1>3, <1>4, <2>2 DEF CallOK, Awaited, Working, OnlyCalls, scheduler, history
  <2>6. Queued(c)'
    <3>1. InJobs(c)' = InJobs(c)
      BY <1>1 DEF OnlyCalls, InJobs, scheduler
    <3> QED
      BY <1>1, <1>3, <1>4, <2>2, <3>1 DEF CallOK, Queued, Working
  <2>7. Locked(c)'
    BY <1>1, <1>3, <1>4 DEF CallOK, Locked, Active, OnlyCalls
  <2> QED
    BY <2>2, <2>3, <2>4, <2>5, <2>6, <2>7 DEF CallOK
<1> QED
  BY <1>1, <1>2, <1>3, <1>5, OnlyCallsFrame
     DEF OnlyCalls, disks, table, scheduler, history, TypeOK, InJobs

-----------------------------------------------------------------------------
(* The transaction of a page                                               *)

\* What a caller's rows become.
PublishFacts(c) ==
    \A a \in Assets :
        \/ rows'[a] = rows[a]
        \/ /\ \E u \in call[c].updates : /\ u.a = a /\ rows'[a].thumb = u.thumb
                                         /\ u.thumb \in {None, Target(c, a)}
           /\ generation = call[c].gen /\ Matches(a, call[c].snap[a])
           /\ rows'[a] = [rows[a] EXCEPT !.thumb = rows'[a].thumb]

LEMMA PublishWrites ==
    ASSUME TrueInv, NEW c \in Callers, Publish(c)
    PROVE  /\ Working(c) /\ PublishFacts(c) /\ rows' \in [Assets -> Rows]
           /\ \A a \in Assets : /\ rows'[a].id = rows[a].id /\ rows'[a].ver = rows[a].ver
                                /\ rows'[a].rec = rows[a].rec
           /\ Progress /\ \A a \in Assets : RowOK(a)' /\ FailureOK(a)'
           /\ LostFiles(c) \subseteq Targets
<1>1. /\ Working(c) /\ CallOK(c) /\ call[c] \in CallType
      /\ UNCHANGED <<nextId, failures, clear, refused>>
  BY DEF Publish, MayPublish, Working, TrueInv, TypeOK, scheduler, history
<1>2. \A u \in call[c].updates : u \in Updates /\ u.thumb \in {None, Target(c, u.a)}
  BY <1>1 DEF CallOK, OwnItems, CallType
<1>3. rows' = [a \in Assets |->
          IF \E u \in call[c].updates \ Lost(c) : u.a = a
          THEN [rows[a] EXCEPT !.thumb = (CHOOSE u \in call[c].updates : u.a = a).thumb]
          ELSE rows[a]]
  BY DEF Publish
<1>4. ASSUME NEW a \in Assets, \E u \in call[c].updates \ Lost(c) : u.a = a
      PROVE  \E u \in call[c].updates :
                /\ u.a = a /\ rows'[a] = [rows[a] EXCEPT !.thumb = u.thumb]
                /\ generation = call[c].gen /\ Matches(a, call[c].snap[a])
  <2> DEFINE u == CHOOSE u \in call[c].updates : u.a = a
  <2>1. u \in call[c].updates /\ u.a = a
    BY <1>4
  <2>2. rows'[a] = [rows[a] EXCEPT !.thumb = u.thumb]
    BY <1>3, <1>4
  <2>3. generation = call[c].gen /\ Matches(a, call[c].snap[a])
    BY <1>4 DEF Lost
  <2> QED
    BY <2>1, <2>2, <2>3
<1>5. ASSUME NEW a \in Assets
      PROVE  /\ rows'[a] \in Rows
             /\ rows'[a].id = rows[a].id /\ rows'[a].ver = rows[a].ver
             /\ rows'[a].rec = rows[a].rec
             /\ \/ rows'[a] = rows[a]
                \/ /\ \E u \in call[c].updates : /\ u.a = a /\ rows'[a].thumb = u.thumb
                                                 /\ u.thumb \in {None, Target(c, a)}
                   /\ generation = call[c].gen /\ Matches(a, call[c].snap[a])
                   /\ rows'[a] = [rows[a] EXCEPT !.thumb = rows'[a].thumb]
  <2>1. rows[a] \in Rows
    BY DEF TrueInv, TypeOK
  <2>2. CASE \E u \in call[c].updates \ Lost(c) : u.a = a
    <3>1. PICK u \in call[c].updates :
                /\ u.a = a /\ rows'[a] = [rows[a] EXCEPT !.thumb = u.thumb]
                /\ generation = call[c].gen /\ Matches(a, call[c].snap[a])
      BY <1>4, <2>2
    <3>2. u.thumb \in Thumbs /\ u.thumb \in {None, Target(c, a)}
      BY <1>2, <3>1 DEF Updates
    <3> DEFINE t == u.thumb
    <3>3. t \in Thumbs /\ rows'[a] = [rows[a] EXCEPT !.thumb = t]
      BY <3>1, <3>2
    <3> HIDE DEF t
    <3>4. /\ rows'[a] \in Rows /\ rows'[a].thumb = t
          /\ rows'[a].id = rows[a].id /\ rows'[a].ver = rows[a].ver
          /\ rows'[a].rec = rows[a].rec
      BY <2>1, <3>3 DEF Rows
    <3> QED
      BY <3>1, <3>2, <3>3, <3>4 DEF t
  <2>3. CASE ~ \E u \in call[c].updates \ Lost(c) : u.a = a
    BY <1>3, <2>1, <2>3
  <2> QED
    BY <2>2, <2>3
<1>6. rows' \in [Assets -> Rows]
  BY <1>3, <1>5
<1>7. ASSUME NEW a \in Assets
      PROVE  \/ rows'[a] = rows[a]
             \/ rows[a] # NoRow /\ rows'[a].thumb \in {None, thumb_target(a, rows[a].ver)}
  <2>1. CASE generation = call[c].gen /\ Matches(a, call[c].snap[a])
    <3>1. rows[a].ver = call[c].snap[a].ver /\ rows[a].id # 0
      BY <2>1 DEF Matches
    <3>2. rows[a] # NoRow /\ Target(c, a) = thumb_target(a, rows[a].ver)
      BY <3>1 DEF NoRow, Target
    <3> QED
      BY <1>5, <3>2
  <2> QED
    BY <1>5, <2>1
<1>8. Progress /\ \A a \in Assets : RowOK(a)' /\ FailureOK(a)'
  BY <1>1, <1>5, <1>6, <1>7, ThumbsWritten
<1>9. LostFiles(c) \subseteq Targets
  BY <1>2 DEF LostFiles, Lost, Updates, Thumbs
<1> QED
  BY <1>1, <1>5, <1>6, <1>8, <1>9 DEF PublishFacts

\* What a call is after its transaction.
Published(c) ==
    [call[c] EXCEPT
       !.at = IF Bulk(c) /\ ~call[c].cancelled THEN "page" ELSE "finish",
       !.ops = IF LostFiles(c) = {} THEN <<>> ELSE <<DeleteOp(LostFiles(c))>>,
       !.updates = {}, !.snap = <<>>, !.bad = {},
       !.stale = call[c].stale \cup LostAssets(c),
       !.ready = call[c].ready \ LostAssets(c),
       !.failed = call[c].failed \ LostAssets(c)]

LEMMA PublishedIs ==
    ASSUME TrueInv, NEW c \in Callers, Publish(c), NEW r, r = Published(c)
    PROVE  /\ call' = [call EXCEPT ![c] = r] /\ r \in CallType
           /\ r.at \in {"page", "finish"}
           /\ r.at = "page" => Bulk(c) /\ ~call[c].cancelled
           /\ r.at = "finish" => ~Bulk(c) \/ call[c].cancelled
           /\ r.ops \in {<<>>, <<DeleteOp(LostFiles(c))>>}
           /\ r.updates = {} /\ r.snap = <<>> /\ r.kind = call[c].kind
           /\ r.stale = call[c].stale \cup LostAssets(c)
           /\ r.ready = call[c].ready \ LostAssets(c)
           /\ r.failed = call[c].failed \ LostAssets(c)
           /\ r.skipped = call[c].skipped /\ r.seen = call[c].seen
           /\ r.todo = call[c].todo /\ r.pend = call[c].pend /\ r.inbox = call[c].inbox
           /\ r.gen = call[c].gen /\ r.cancelled = call[c].cancelled
           /\ r.after = call[c].after /\ r.ceiling = call[c].ceiling
<1> DEFINE at == IF Bulk(c) /\ ~call[c].cancelled THEN "page" ELSE "finish"
           ops == IF LostFiles(c) = {} THEN <<>> ELSE <<DeleteOp(LostFiles(c))>>
           lost == LostAssets(c)
<1>1. call[c] \in CallType /\ CallOK(c) /\ Working(c) /\ LostFiles(c) \subseteq Targets
  BY PublishWrites DEF TrueInv, TypeOK
<1>2. call' = [call EXCEPT ![c] = r]
  BY DEF Publish, Published
<1>3. /\ at \in {"page", "finish"} /\ (at = "page" => Bulk(c) /\ ~call[c].cancelled)
      /\ at = "finish" => ~Bulk(c) \/ call[c].cancelled
  OBVIOUS
<1>4. ops \in Seq(AllOps) /\ ops \in {<<>>, <<DeleteOp(LostFiles(c))>>}
  <2>1. DeleteOp(LostFiles(c)) \in AllOps
    BY <1>1 DEF DeleteOp, DeleteOps, AllOps
  <2> QED
    BY <2>1, EmptyIsSeq, SmallSeqs
<1>5. lost \subseteq Assets
  BY <1>1 DEF LostAssets, Lost, CallType, Updates
<1> DEFINE none == <<>>
           stale == call[c].stale \cup lost
           ready == call[c].ready \ lost
           failed == call[c].failed \ lost
           q == [call[c] EXCEPT !.at = at, !.ops = ops, !.updates = {}, !.snap = none]
<1>6. r = [q EXCEPT !.bad = {}, !.stale = stale, !.ready = ready, !.failed = failed]
  BY DEF Published
<1>7. /\ none \in Snaps /\ stale \subseteq Assets /\ ready \subseteq Assets
      /\ failed \subseteq Assets
  BY <1>1, <1>5, EmptySnap DEF CallType
<1> HIDE DEF at, ops, lost, none, stale, ready, failed
<1>8. q \in CallType
  BY <1>1, <1>3, <1>4, <1>7 DEF CallType
<1>9. /\ q.at = at /\ q.ops = ops /\ q.updates = {} /\ q.snap = none
      /\ q.kind = call[c].kind /\ q.skipped = call[c].skipped /\ q.seen = call[c].seen
      /\ q.todo = call[c].todo /\ q.pend = call[c].pend /\ q.inbox = call[c].inbox
      /\ q.gen = call[c].gen /\ q.cancelled = call[c].cancelled
      /\ q.after = call[c].after /\ q.ceiling = call[c].ceiling
  BY <1>1 DEF CallType
<1> HIDE DEF q
<1>10. r \in CallType
  BY <1>6, <1>7, <1>8 DEF CallType
<1>11. /\ r.at = at /\ r.ops = ops /\ r.updates = {} /\ r.snap = none
      /\ r.stale = stale /\ r.ready = ready /\ r.failed = failed
      /\ r.kind = call[c].kind /\ r.skipped = call[c].skipped /\ r.seen = call[c].seen
      /\ r.todo = call[c].todo /\ r.pend = call[c].pend /\ r.inbox = call[c].inbox
      /\ r.gen = call[c].gen /\ r.cancelled = call[c].cancelled
      /\ r.after = call[c].after /\ r.ceiling = call[c].ceiling
  BY <1>6, <1>8, <1>9 DEF CallType
<1> QED
  BY <1>2, <1>3, <1>4, <1>10, <1>11 DEF lost, none, stale, ready, failed

LEMMA PublishKeepsTrue ==
    ASSUME TrueInv, NEW c \in Callers, Publish(c)
    PROVE  TrueInv'
<1> DEFINE r == Published(c)
<1>1. /\ call' = [call EXCEPT ![c] = r] /\ r \in CallType
      /\ r.at \in {"page", "finish"}
      /\ r.at = "page" => Bulk(c) /\ ~call[c].cancelled
      /\ r.ops \in {<<>>, <<DeleteOp(LostFiles(c))>>}
      /\ r.updates = {} /\ r.snap = <<>>
      /\ r.pend = call[c].pend /\ r.inbox = call[c].inbox /\ r.gen = call[c].gen
  BY PublishedIs
<1> HIDE DEF r
<1>2. /\ UNCHANGED <<disk, highest, files, nextId, failures, generation, jobs, stage,
                     clear, refused, pulled>>
      /\ TypeOK /\ CallOK(c)
  BY DEF Publish, disks, scheduler, history, TrueInv
<1>3. /\ Working(c) /\ rows' \in [Assets -> Rows] /\ Progress
      /\ \A a \in Assets : RowOK(a)' /\ FailureOK(a)'
      /\ LostFiles(c) \subseteq Targets
  BY PublishWrites
<1>4. /\ call' \in [Callers -> CallType] /\ call'[c] = r
      /\ \A d \in Callers \ {c} : call'[d] = call[d]
  BY <1>1, <1>2, CallTakes
<1>5. TypeOK'
  BY <1>2, <1>3, <1>4 DEF TypeOK
<1>6. CallOK(c)'
  <2>1. Known(c)' = {} /\ SnapOK(c)'
    BY <1>1, <1>4, EmptySnap DEF Known, SnapOK
  <2>2. call'[c].ops \in Seq(OwnOps(c)')
    <3> DEFINE O == OwnOps(c)'
               op == DeleteOp(LostFiles(c))
    <3>1. op \in O
      BY <1>3 DEF DeleteOp, OwnOps, AllOps, DeleteOps
    <3> HIDE DEF O, op
    <3>2. <<op>> \in Seq(O) /\ <<>> \in Seq(O)
      BY <3>1, EmptyIsSeq, SmallSeqs
    <3> QED
      BY <1>1, <1>4, <3>2 DEF O, op
  <2>3. OwnItems(c)' /\ Awaited(c)'
    BY <1>1, <1>4, <2>1 DEF OwnItems, Awaited, Working
  <2>4. Queued(c)'
    <3>1. InJobs(c)' = InJobs(c)
      BY <1>2 DEF InJobs
    <3>2. CASE r.at = "finish"
      BY <1>4, <3>2 DEF Queued, Working
    <3>3. CASE r.at = "page"
      <4>1. call[c].at = "visit" /\ call[c].pend = {}
        BY <1>1, <1>2, <3>3 DEF Publish, MayPublish, CallOK, Queued
      <4>2. call[c].inbox = {} /\ InJobs(c) = {}
        BY <1>2, <1>3, <4>1 DEF CallOK, Awaited, Queued
      <4> QED
        BY <1>1, <1>4, <3>1, <3>3, <4>1, <4>2 DEF Queued, Working
    <3> QED
      BY <1>1, <3>2, <3>3
  <2>5. Locked(c)'
    BY <1>1, <1>2, <1>3, <1>4 DEF CallOK, Locked, Active, Working
  <2> QED
    BY <2>1, <2>2, <2>3, <2>4, <2>5 DEF CallOK
<1>7. \A d \in Callers : CallOK(d)'
  <2>1. \A d \in Callers : InJobs(d)' = InJobs(d)
    BY <1>2 DEF InJobs
  <2> QED
    BY <1>2, <1>3, <1>4, <1>5, <1>6, <2>1, CallerFrame
<1>8. ClearSticks'
  <2>1. clear.at = "idle"
    BY <1>2, <1>3 DEF CallOK, Locked, Active, Working
  <2> QED
    BY <1>2, <2>1 DEF ClearSticks
<1>9. FailedIsRefused'
  BY <1>2 DEF TrueInv, FailedIsRefused
<1> QED
  BY <1>3, <1>5, <1>7, <1>8, <1>9 DEF TrueInv

-----------------------------------------------------------------------------
(* The first layer, as a whole                                             *)

LEMMA StartIsTrue ==
    ASSUME Init PROVE TrueInv
<1> DEFINE N == Cardinality(Assets)
<1>1. N \in Nat /\ N # 0
  BY PublicationAssumption, FS_CardinalityType, FS_EmptySet
<1> HIDE DEF N
<1>2. 1 \in 0 .. MaxVersion /\ 1 \in Versions
  BY PublicationAssumption DEF Versions
<1>3. PICK order \in [Assets -> 1 .. N] :
        rows = [a \in Assets |-> [id |-> order[a], ver |-> 1, rec |-> 1, thumb |-> None]]
  BY DEF Init, N
<1>4. nextId = N + 1
  BY DEF Init, N
<1>5. \A a \in Assets :
        /\ rows[a] \in Rows /\ rows[a].id \in 1 .. nextId - 1
        /\ rows[a].ver = 1 /\ rows[a].thumb = None
  <2> TAKE a \in Assets
  <2>1. rows[a] = [id |-> order[a], ver |-> 1, rec |-> 1, thumb |-> None]
    BY <1>3
  <2>2. order[a] \in 1 .. N
    BY <1>3
  <2>3. rows[a] \in Rows
    BY <1>1, <1>2, <2>1, <2>2 DEF Rows, Thumbs
  <2> QED
    BY <1>1, <1>4, <2>1, <2>2, <2>3
<1>6. TypeOK
  <2>1. /\ disk \in [Assets -> 0 .. MaxVersion] /\ highest \in [Assets -> Versions]
        /\ files \subseteq Targets
    BY <1>2 DEF Init
  <2>2. rows \in [Assets -> Rows] /\ nextId \in Nat \ {0}
    BY <1>1, <1>3, <1>4, <1>5
  <2>3. failures \in [Assets -> {None} \cup (Nat \X Nat)] /\ generation \in Nat
    BY DEF Init
  <2>4. jobs \in UNION {[S -> SUBSET Callers] : S \in SUBSET Targets}
    <3>1. jobs \in [{} -> SUBSET Callers]
      BY DEF Init
    <3> QED
      BY <3>1
  <2>8. stage \in UNION {[S -> Stages] : S \in SUBSET Targets}
    <3>1. stage \in [{} -> Stages]
      BY DEF Init
    <3> QED
      BY <3>1
  <2>5. call \in [Callers -> CallType]
    BY NewCallType DEF Init
  <2>6. clear \in [at : {"idle", "rows", "failures", "list", "sweep"},
                   listed : SUBSET Targets, count : Nat]
    BY DEF Init
  <2>7. refused \subseteq Targets /\ pulled \subseteq Targets
    BY DEF Init
  <2> QED
    BY <2>1, <2>2, <2>3, <2>4, <2>5, <2>6, <2>7, <2>8 DEF TypeOK
<1>7. \A a \in Assets : RowOK(a) /\ FailureOK(a)
  BY <1>2, <1>5 DEF Init, RowOK, FailureOK
<1>8. ASSUME NEW c \in Callers PROVE CallOK(c)
  <2>1. call[c] = NewCall /\ DOMAIN jobs = {}
    BY DEF Init
  <2>2. SnapOK(c) /\ Known(c) = {}
    BY <2>1, NewCallType, EmptySnap DEF Known, SnapOK
  <2>3. InJobs(c) = {}
    BY <2>1 DEF InJobs
  <2>4. OwnItems(c) /\ Awaited(c) /\ Queued(c) /\ Locked(c)
    BY <2>1, <2>2, <2>3, NewCallType DEF OwnItems, Awaited, Queued, Locked, Working, Active
  <2> QED
    BY <2>1, <2>2, <2>4, NewCallType DEF CallOK
<1>9. ClearSticks /\ FailedIsRefused
  BY DEF Init, ClearSticks, FailedIsRefused
<1> QED
  BY <1>6, <1>7, <1>8, <1>9 DEF TrueInv

LEMMA StutterKeepsTrue ==
    ASSUME TrueInv, UNCHANGED vars PROVE TrueInv'
<1>1. UNCHANGED <<disk, highest, files, rows, nextId, failures, generation, jobs, stage, call,
                  clear, refused, pulled>>
  BY DEF vars
<1>2. TypeOK'
  BY <1>1 DEF TrueInv, TypeOK
<1>3. Progress /\ \A b \in Assets : RowOK(b)' /\ FailureOK(b)'
  BY <1>1, RowsFrame DEF table
<1>4. \A c \in Callers : CallOK(c)'
  BY <1>1, <1>2, <1>3, QuietFrame
<1>5. ClearSticks' /\ FailedIsRefused'
  BY <1>1 DEF TrueInv, ClearSticks, FailedIsRefused
<1> QED
  BY <1>2, <1>3, <1>4, <1>5 DEF TrueInv

LEMMA NextKeepsTrue ==
    ASSUME TrueInv, Next PROVE TrueInv'
<1>1. CASE Environment
  BY <1>1, DiskKeepsTrue, ScanKeepsTrue, RemoveKeepsTrue, CancelKeepsTrue DEF Environment
<1>2. CASE \E c \in Callers : Begin(c) \/ Step(c) \/ TimeOut(c)
  <2>1. PICK c \in Callers : Begin(c) \/ Step(c) \/ TimeOut(c)
    BY <1>2
  <2>2. CASE Begin(c)
    BY <2>2, BeginDemandKeepsTrue, BeginPageKeepsTrue, BeginBulkKeepsTrue DEF Begin
  <2>3. CASE Step(c)
    <3>1. CASE \E a \in call[c].todo :
                 \/ VisitExisting(c, a) \/ VisitMissing(c, a) \/ VisitTarget(c, a)
                 \/ VisitSkip(c, a) \/ VisitEnqueue(c, a)
      BY <3>1, VisitExistingKeepsTrue, VisitMissingKeepsTrue, VisitTargetKeepsTrue,
         VisitSkipKeepsTrue, VisitEnqueueKeepsTrue
    <3>2. CASE \E result \in call[c].inbox : TakeResult(c, result)
      BY <3>2, TakeResultKeepsTrue
    <3>3. CASE BulkPage(c) \/ NoticeCancel(c) \/ Publish(c) \/ Finish(c)
      BY <3>3, BulkPageKeepsTrue, NoticeCancelKeepsTrue, PublishKeepsTrue, FinishKeepsTrue
    <3>4. CASE \/ Cas(c) \/ Reread(c) \/ PublishReady(c)
               \/ Record(c) \/ ClearRecord(c) \/ Delete(c)
      BY <3>4, CasKeepsTrue, RereadKeepsTrue, PublishReadyKeepsTrue, NoteKeepsTrue,
         DeleteKeepsTrue
    <3> QED
      BY <2>3, <3>1, <3>2, <3>3, <3>4 DEF Step
  <2>4. CASE TimeOut(c)
    BY <2>4, FinishKeepsTrue
  <2> QED
    BY <2>1, <2>2, <2>3, <2>4
<1>3. CASE \E t \in DOMAIN jobs : Render(t) \/ LookAtTarget(t) \/ Answer(t)
  BY <1>3, RenderKeepsTrue, AnswerKeepsTrue
<1>4. CASE Clear
  BY <1>4, ClearKeepsTrue
<1> QED
  BY <1>1, <1>2, <1>3, <1>4 DEF Next

LEMMA AlwaysTrue == Spec => []TrueInv
<1>1. Init => TrueInv
  BY StartIsTrue
<1>2. TrueInv /\ [Next]_vars => TrueInv'
  BY NextKeepsTrue, StutterKeepsTrue
<1> QED
  BY <1>1, <1>2, PTL DEF Spec

(* Whatever edits, scans, resets and callers interleave, a row shows only  *)
(* a thumbnail of its own file at the version it has, and a failure is     *)
(* held against a row only if a render of that very version failed.        *)
THEOREM RowsAreAlwaysTrue == Spec => []RowsAreTrue
<1>1. TrueInv => RowsAreTrue
  <2> SUFFICES ASSUME TrueInv, NEW a \in Assets
               PROVE  /\ rows[a].thumb # None => rows[a].thumb = thumb_target(a, rows[a].ver)
                      /\ rows[a] # NoRow /\ HasFailed(a) =>
                           thumb_target(a, rows[a].ver) \in refused
    BY DEF RowsAreTrue, ThumbBelongsToRow, RecordedFailureIsReal
  <2>1. RowOK(a) /\ FailureOK(a)
    BY DEF TrueInv
  <2>2. rows[a].thumb # None => rows[a].thumb = thumb_target(a, rows[a].ver)
    BY <2>1 DEF RowOK, NoRow
  <2>3. rows[a] # NoRow /\ HasFailed(a) => thumb_target(a, rows[a].ver) \in refused
    <3>1. SUFFICES ASSUME failures[a] = <<rows[a].id, rows[a].rec>>
                   PROVE  thumb_target(a, rows[a].ver) \in refused
      BY DEF HasFailed
    <3>2. failures[a] # None
      BY <3>1, NoneIsNoPair
    <3> QED
      BY <2>1, <3>1, <3>2 DEF FailureOK
  <2> QED
    BY <2>2, <2>3
<1> QED
  BY <1>1, AlwaysTrue, PTL

(* No late result brings a thumbnail back while clear_all is at work.      *)
THEOREM ClearAlwaysSticks == Spec => []ClearSticks
<1>1. TrueInv => ClearSticks
  BY DEF TrueInv
<1> QED
  BY <1>1, AlwaysTrue, PTL

-----------------------------------------------------------------------------
(* The second layer: files                                                 *)

HandGrows ==
    /\ \A t \in Targets : /\ Obsolete(t) => Obsolete(t)'
                          /\ InHand(t) => InHand(t)'
    /\ \A a \in Assets : highest[a] <= highest'[a]

\* The steps that leave the versions of the files alone.
LEMMA HandsKept ==
    ASSUME TypeOK, disk' = disk, highest' = highest, returned' = returned,
           \A t \in files \cup pulled : t \in files' \cup pulled' \/ Obsolete(t)
    PROVE  HandGrows
<1>1. \A a \in Assets : highest[a] <= highest'[a]
  BY DEF TypeOK, Versions
<1>2. \A t \in Targets : Obsolete(t) => Obsolete(t)'
  BY DEF Obsolete
<1>3. \A t \in Targets : InHand(t) => InHand(t)'
  BY <1>2 DEF InHand
<1> QED
  BY <1>1, <1>2, <1>3 DEF HandGrows

LEMMA OpsGrow ==
    ASSUME HandGrows PROVE OpsInHand \subseteq OpsInHand'
<1> SUFFICES ASSUME NEW op \in OpsInHand PROVE op \in OpsInHand'
  OBVIOUS
<1>1. op \in AllOps
  BY DEF OpsInHand
<1>2. op.do \in {"cas", "reread", "publish"} /\ op.thumb # None => InHand(op.thumb)'
  <2> SUFFICES ASSUME op.do \in {"cas", "reread", "publish"}, op.thumb # None
               PROVE  InHand(op.thumb)'
    OBVIOUS
  <2>1. op \in CasOps \cup PublishOps
    BY <1>1 DEF AllOps, NoteOps, DeleteOps
  <2>2. op.thumb \in Targets
    BY <2>1 DEF CasOps, PublishOps, Thumbs
  <2> QED
    BY <2>2 DEF OpsInHand, HandGrows
<1>3. op.do = "delete" => op.mistaken \/ \A t \in op.targets : Obsolete(t)'
  <2> SUFFICES ASSUME op.do = "delete", ~op.mistaken, NEW t \in op.targets
               PROVE  Obsolete(t)'
    OBVIOUS
  <2>1. op \in DeleteOps
    BY <1>1 DEF AllOps, CasOps, PublishOps, NoteOps
  <2>2. t \in Targets
    BY <2>1 DEF DeleteOps
  <2> QED
    BY <2>2 DEF OpsInHand, HandGrows
<1> QED
  BY <1>1, <1>2, <1>3 DEF OpsInHand

LEMMA SnapInHandFrame ==
    ASSUME TrueInv, TypeOK', HandGrows, NEW c \in Callers, SnapInHand(c),
           call'[c].snap = call[c].snap,
           \A a \in Known(c) :
              \/ rows'[a].id = rows[a].id /\ rows'[a].ver = rows[a].ver
              \/ Obsolete(Target(c, a))'
    PROVE  SnapInHand(c)'
<1>1. Known(c)' = Known(c) /\ \A a : Target(c, a)' = Target(c, a)
  BY DEF Known, Target, thumb_target
<1>2. call[c].snap \in Snaps /\ SnapOK(c)
  BY DEF TrueInv, TypeOK, CallType, CallOK
<1>3. ASSUME NEW a \in Known(c)
      PROVE  LET old == call[c].snap[a] IN
             /\ old.ver <= highest'[a]
             /\ (rows'[a].id # old.id \/ rows'[a].ver # old.ver) => Obsolete(Target(c, a))'
  <2> DEFINE old == call[c].snap[a]
  <2>1. a \in Assets /\ Target(c, a) \in Targets /\ old.ver \in Nat
    BY <1>2, SnapType DEF Known, SnapOK, Target, thumb_target, Targets, Versions
  <2>2. /\ old.ver <= highest[a]
        /\ (rows[a].id # old.id \/ rows[a].ver # old.ver) => Obsolete(Target(c, a))
    BY DEF SnapInHand
  <2> HIDE DEF old
  <2>3. old.ver <= highest'[a]
    BY <2>1, <2>2 DEF HandGrows, TrueInv, TypeOK, Versions
  <2>4. (rows'[a].id # old.id \/ rows'[a].ver # old.ver) => Obsolete(Target(c, a))'
    BY <1>1, <2>1, <2>2 DEF HandGrows
  <2> QED
    BY <2>3, <2>4 DEF old
<1> QED
  BY <1>1, <1>3 DEF SnapInHand

\* A caller that does nothing keeps its files in hand.
LEMMA OtherInHand ==
    ASSUME TrueInv, TypeOK', HandGrows, NEW c \in Callers, CallInHand(c),
           call'[c] = call[c],
           \A a \in Known(c) :
              \/ rows'[a].id = rows[a].id /\ rows'[a].ver = rows[a].ver
              \/ Obsolete(Target(c, a))'
    PROVE  CallInHand(c)'
<1>1. SnapInHand(c)'
  BY SnapInHandFrame DEF CallInHand
<1>2. call'[c].ops \in Seq(OpsInHand')
  BY OpsGrow, SeqGrows DEF CallInHand
<1>3. call[c] \in CallType /\ CallOK(c)
  BY DEF TrueInv, TypeOK
<1>4. UpdatesInHand(c)'
  <2>1. ASSUME NEW u \in call[c].updates, u.thumb # None PROVE InHand(u.thumb)'
    <3>1. u.thumb \in Targets
      BY <1>3, <2>1 DEF CallType, Updates, Thumbs
    <3> QED
      BY <2>1, <3>1 DEF CallInHand, UpdatesInHand, HandGrows
  <2> QED
    BY <2>1 DEF UpdatesInHand
<1>5. InboxInHand(c)'
  <2>1. ASSUME Working(c), NEW r \in call[c].inbox, r.ok PROVE InHand(Target(c, r.a))'
    <3>1. r.a \in Known(c)
      BY <1>3, <2>1 DEF CallOK, Awaited, OwnItems
    <3>2. Target(c, r.a) \in Targets /\ Target(c, r.a)' = Target(c, r.a)
      BY <1>3, <3>1, SnapType
         DEF CallOK, SnapOK, CallType, Known, Target, thumb_target, Targets
    <3>3. InHand(Target(c, r.a))
      BY <2>1 DEF CallInHand, InboxInHand
    <3> DEFINE t == Target(c, r.a)
    <3>4. InHand(t)'
      BY <3>2, <3>3 DEF HandGrows
    <3> QED
      BY <3>4
  <2> QED
    BY <2>1 DEF InboxInHand, Working
<1> QED
  BY <1>1, <1>2, <1>4, <1>5 DEF CallInHand

\* The frame of a step on which the files in hand stay so.
LEMMA HandFrame ==
    ASSUME TrueInv, HandInv, HandGrows,
           \A a \in Assets : disk'[a] <= highest'[a] /\ rows'[a].ver <= highest'[a],
           \A a \in Assets : rows'[a].thumb # None =>
              rows'[a].thumb = rows[a].thumb \/ InHand(rows[a].thumb)',
           \A c \in Callers : CallInHand(c)', stage' = stage \/ StageInHand'
    PROVE  HandInv'
<1>1. \A a \in Assets : rows[a].thumb \in Thumbs
  BY DEF TrueInv, TypeOK, Rows
<1>2. ASSUME NEW a \in Assets PROVE RowInHand(a)'
  <2>1. RowInHand(a)
    BY DEF HandInv
  <2>2. (rows[a].thumb # None => InHand(rows[a].thumb))'
    <3>1. CASE rows'[a].thumb # None /\ rows'[a].thumb = rows[a].thumb
      <4>1. PICK t \in Thumbs : t = rows[a].thumb
        BY <1>1
      <4>2. t \in Targets /\ InHand(t)
        BY <2>1, <3>1, <4>1 DEF RowInHand, Thumbs
      <4>3. InHand(t)'
        BY <4>2 DEF HandGrows
      <4> QED
        BY <3>1, <4>1, <4>3 DEF InHand, Obsolete
    <3> QED
      BY <3>1
  <2> QED
    BY <2>2 DEF RowInHand
<1>3. StageInHand'
  <2>1. CASE stage' = stage
    <3>1. ASSUME NEW t \in DOMAIN stage, stage[t] = "made" PROVE InHand(t)'
      <4>1. t \in Targets /\ InHand(t)
        BY <3>1 DEF TrueInv, TypeOK, HandInv, StageInHand
      <4> QED
        BY <4>1 DEF HandGrows
    <3> QED
      BY <2>1, <3>1 DEF StageInHand
  <2> QED
    BY <2>1
<1> QED
  BY <1>2, <1>3 DEF HandInv

\* Its form for a step of one caller, which moves no row to another version.
LEMMA CallerHandFrame ==
    ASSUME TrueInv, TypeOK', HandInv, HandGrows, disk' = disk, highest' = highest, returned' = returned, stage' = stage,
           NEW c \in Callers, \A d \in Callers \ {c} : call'[d] = call[d],
           \A a \in Assets : rows'[a].id = rows[a].id /\ rows'[a].ver = rows[a].ver,
           \A a \in Assets : rows'[a].thumb # None =>
              rows'[a].thumb = rows[a].thumb \/ InHand(rows[a].thumb)',
           CallInHand(c)'
    PROVE  HandInv'
<1>1. \A a \in Assets : disk'[a] <= highest'[a] /\ rows'[a].ver <= highest'[a]
  BY DEF HandInv, RowInHand
<1>2. \A d \in Callers : CallInHand(d)'
  <2> TAKE d \in Callers
  <2>1. \A a \in Known(d) : rows'[a].id = rows[a].id /\ rows'[a].ver = rows[a].ver
    BY SnapType DEF TrueInv, TypeOK, CallType, Known
  <2> QED
    BY <2>1, OtherInHand DEF HandInv
<1> QED
  BY <1>1, <1>2, HandFrame

LEMMA DiskInHand ==
    ASSUME TrueInv, TypeOK', HandInv, NEW a \in Assets, EditFile(a) \/ LoseFile(a)
    PROVE  HandInv'
<1>1. /\ UNCHANGED <<files, rows, call, pulled, stage>> /\ returned \subseteq returned'
      /\ disk \in [Assets -> 0 .. MaxVersion] /\ highest \in [Assets -> Versions]
  BY DEF EditFile, LoseFile, table, scheduler, history, TrueInv, TypeOK
<1>2. \A b \in Assets : disk[b] \in Nat /\ highest[b] \in Nat
  BY <1>1 DEF Versions
<1>3. /\ \A b \in Assets \ {a} : disk'[b] = disk[b] /\ highest'[b] = highest[b]
      /\ highest[a] <= highest'[a] /\ disk'[a] <= highest'[a]
      /\ a \in returned' \/ disk'[a] = 0 \/ disk'[a] > highest[a]
  <2>1. CASE LoseFile(a)
    BY <1>1, <1>2, <2>1 DEF LoseFile
  <2>2. CASE EditFile(a)
    <3>1. PICK v \in NextVersions(a) :
            /\ disk' = [disk EXCEPT ![a] = v]
            /\ highest' = [highest EXCEPT ![a] = IF v > highest[a] THEN v ELSE highest[a]]
            /\ returned' = IF v > highest[a] THEN returned ELSE returned \cup {a}
      BY <2>2 DEF EditFile
    <3>2. v \in Nat
      BY DEF NextVersions, Versions
    <3>3. CASE v > highest[a]
      <4>1. highest' = [highest EXCEPT ![a] = v]
        BY <3>1, <3>3
      <4> QED
        BY <1>1, <1>2, <3>1, <3>2, <3>3, <4>1
    <3>4. CASE ~(v > highest[a])
      <4>1. highest' = [highest EXCEPT ![a] = highest[a]] /\ a \in returned'
        BY <3>1, <3>4
      <4> QED
        BY <1>1, <1>2, <3>1, <3>2, <3>4, <4>1
    <3> QED
      BY <3>3, <3>4
  <2> QED
    BY <2>1, <2>2
<1>4. HandGrows
  <2>1. \A b \in Assets : highest[b] <= highest'[b]
    BY <1>2, <1>3
  <2>2. ASSUME NEW t \in Targets, Obsolete(t) PROVE Obsolete(t)'
    <3>1. t[1] \in Assets /\ t[2] \in Nat \ {0}
      BY DEF Targets, Versions
    <3>2. CASE t[1] \in returned'
      BY <3>2 DEF Obsolete
    <3>3. CASE t[1] # a
      BY <1>1, <1>3, <2>2, <3>1, <3>3 DEF Obsolete
    <3>4. CASE t[1] = a /\ t[1] \notin returned'
      <4>1. t[2] <= highest[a] /\ (disk'[a] = 0 \/ disk'[a] > highest[a])
        BY <1>1, <1>3, <2>2, <3>4 DEF Obsolete
      <4>2. /\ highest[a] <= highest'[a] /\ highest[a] \in Nat /\ highest'[a] \in Nat
            /\ disk'[a] \in Nat
        BY <1>2, <1>3 DEF TypeOK, Versions
      <4>3. disk'[a] # t[2] /\ t[2] <= highest'[a]
        BY <3>1, <4>1, <4>2
      <4> QED
        BY <3>4, <4>3 DEF Obsolete
    <3> QED
      BY <3>2, <3>3, <3>4
  <2> QED
    BY <1>1, <2>1, <2>2 DEF HandGrows, InHand
<1>5. ASSUME NEW b \in Assets PROVE disk'[b] <= highest'[b] /\ rows'[b].ver <= highest'[b]
  <2>1. disk[b] <= highest[b] /\ rows[b].ver <= highest[b] /\ rows[b].ver \in Nat
    BY DEF HandInv, RowInHand, TrueInv, TypeOK, Rows
  <2>2. highest[b] \in Nat /\ highest'[b] \in Nat /\ highest[b] <= highest'[b]
    BY <1>2, <1>4 DEF TypeOK, Versions, HandGrows
  <2> QED
    BY <1>1, <1>3, <2>1, <2>2
<1>6. \A c \in Callers : CallInHand(c)'
  BY <1>1, <1>4, OtherInHand DEF HandInv
<1> QED
  BY <1>1, <1>4, <1>5, <1>6, HandFrame

LEMMA ScanInHand ==
    ASSUME TrueInv, TrueInv', HandInv, NEW a \in Assets, ScanIndex(a) \/ ScanPrune(a)
    PROVE  HandInv'
<1>1. /\ UNCHANGED <<disk, highest, returned, stage, files, call, pulled>> /\ TypeOK /\ TypeOK'
      /\ \A b \in Assets \ {a} : rows'[b] = rows[b]
      /\ rows'[a].thumb = None
      /\ rows'[a].ver = disk[a]
      /\ disk[a] = 0 \/ rows[a].ver # disk[a]
  BY DEF ScanIndex, ScanPrune, TrueInv, TypeOK, disks, scheduler, history, NoRow
<1>2. HandGrows
  BY <1>1, HandsKept
<1>3. ASSUME NEW b \in Assets PROVE disk'[b] <= highest'[b] /\ rows'[b].ver <= highest'[b]
  BY <1>1 DEF HandInv, RowInHand
<1>4. ASSUME NEW c \in Callers PROVE CallInHand(c)'
  <2>1. ASSUME NEW b \in Known(c)
        PROVE  \/ rows'[b].id = rows[b].id /\ rows'[b].ver = rows[b].ver
               \/ Obsolete(Target(c, b))'
    <3>1. b \in Assets
      BY SnapType DEF TrueInv, TypeOK, CallType, Known
    <3>2. CASE b # a
      BY <1>1, <3>1, <3>2
    <3>3. CASE b = a
      <4> DEFINE old == call[c].snap[a]
      <4>1. /\ old.ver \in Versions /\ old.ver <= highest[a]
            /\ (rows[a].id # old.id \/ rows[a].ver # old.ver) => Obsolete(Target(c, a))
        BY <3>3 DEF TrueInv, CallOK, SnapOK, HandInv, CallInHand, SnapInHand
      <4>2. disk[a] # old.ver \/ a \in returned
        BY <1>1, <4>1 DEF Obsolete, Target, thumb_target, Versions
      <4>3. Obsolete(Target(c, a))'
        BY <1>1, <4>1, <4>2 DEF Obsolete, Target, thumb_target
      <4> QED
        BY <3>3, <4>3
    <3> QED
      BY <3>2, <3>3
  <2> QED
    BY <1>1, <1>2, <2>1, OtherInHand DEF HandInv
<1> QED
  BY <1>1, <1>2, <1>3, <1>4, HandFrame

\* With no caller at work, only deletions may be left to do.
LEMMA IdleInHand ==
    ASSUME TrueInv, HandInv, NobodyReads, call' = call, disk' = disk, highest' = highest, returned' = returned
    PROVE  \A c \in Callers : CallInHand(c)'
<1> SUFFICES ASSUME NEW c \in Callers PROVE CallInHand(c)'
  OBVIOUS
<1>1. CallOK(c) /\ CallInHand(c) /\ ~Working(c)
  BY DEF TrueInv, HandInv, NobodyReads, Active, Working
<1>2. Known(c) = {} /\ call[c].updates = {}
  BY <1>1 DEF CallOK, OwnItems
<1>3. SnapInHand(c)' /\ UpdatesInHand(c)' /\ InboxInHand(c)'
  BY <1>1, <1>2 DEF SnapInHand, Known, UpdatesInHand, InboxInHand, Working
<1>4. call'[c].ops \in Seq(OpsInHand')
  <2>1. \A op \in OwnOps(c) \cap OpsInHand : op \in OpsInHand'
    BY <1>2 DEF OwnOps, OpsInHand, Obsolete, AllOps, CasOps, PublishOps, NoteOps,
                DeleteOps
  <2> DEFINE s == call[c].ops
             O == OwnOps(c)
             H == OpsInHand
             N == OpsInHand'
  <2>2. s \in Seq(O) /\ s \in Seq(H) /\ \A op \in O \cap H : op \in N
    BY <1>1, <2>1 DEF CallOK, CallInHand
  <2> HIDE DEF s, O, H, N
  <2>3. s \in Seq(N)
    BY <2>2
  <2> QED
    BY <2>3 DEF s, N
<1> QED
  BY <1>3, <1>4 DEF CallInHand

LEMMA RemoveInHand ==
    ASSUME TrueInv, HandInv, NEW a \in Assets, RemoveAsset(a)
    PROVE  HandInv'
<1>1. /\ rows' = [rows EXCEPT ![a] = NoRow] /\ files' = files \ {rows[a].thumb}
      /\ pulled' = pulled \cup Promised({rows[a].thumb})
      /\ NobodyReads /\ UNCHANGED <<disk, highest, returned, stage, call>> /\ TypeOK
  BY DEF RemoveAsset, scheduler, history, TrueInv
<1>2. \A c \in Callers : CallInHand(c)'
  BY <1>1, IdleInHand
<1>3. ASSUME NEW b \in Assets PROVE RowInHand(b)'
  <2>1. RowInHand(b) /\ RowOK(b) /\ RowOK(a)
    BY DEF HandInv, TrueInv
  <2>2. CASE b = a
    <3>1. rows'[b] = NoRow
      BY <1>1, <2>2 DEF TypeOK
    <3> QED
      BY <1>1, <2>1, <3>1 DEF RowInHand, NoRow, TypeOK, Versions
  <2>3. CASE b # a
    <3>1. rows'[b] = rows[b]
      BY <1>1, <2>3 DEF TypeOK
    <3>2. rows[b].thumb # None => rows[b].thumb # rows[a].thumb
      BY <2>1, <2>3 DEF RowOK, NoRow, thumb_target
    <3> QED
      BY <1>1, <2>1, <3>1, <3>2 DEF RowInHand, InHand, Obsolete
  <2> QED
    BY <2>2, <2>3
<1>4. StageInHand'
  <2> SUFFICES ASSUME NEW t \in DOMAIN stage, stage[t] = "made" PROVE InHand(t)'
    BY <1>1 DEF StageInHand
  <2>1. InHand(t)
    BY DEF HandInv, StageInHand
  <2>2. t \in files => t \in files' \cup pulled'
    BY <1>1 DEF Promised
  <2>3. t \in pulled => t \in pulled'
    BY <1>1
  <2> QED
    BY <1>1, <2>1, <2>2, <2>3 DEF InHand, Obsolete
<1> QED
  BY <1>2, <1>3, <1>4 DEF HandInv

LEMMA ClearInHand ==
    ASSUME TrueInv, HandInv, Clear
    PROVE  HandInv'
<1>1. /\ NobodyReads /\ UNCHANGED <<disk, highest, returned, stage, call>> /\ TypeOK
      /\ pulled \subseteq pulled' /\ Promised(files \ files') \subseteq pulled'
      /\ \/ rows' = rows
         \/ rows' = [b \in Assets |-> [rows[b] EXCEPT !.thumb = None]]
      /\ files' = files \/ (clear.at = "sweep" /\ rows' = rows)
  <2>1. NobodyReads /\ TypeOK
    BY ClearIsAlone DEF Clear, ClearBegin, ClearRows, ClearFailures, ClearList, ClearSweep,
         TrueInv
  <2>2. CASE ClearSweep
    BY <2>1, <2>2 DEF ClearSweep, Promised, disks, table, scheduler
  <2>3. CASE ClearBegin \/ ClearRows \/ ClearFailures \/ ClearList
    <3>1. /\ UNCHANGED <<disk, highest, returned, stage, call, files, pulled>>
          /\ \/ rows' = rows
             \/ rows' = [b \in Assets |-> [rows[b] EXCEPT !.thumb = None]]
      BY <2>3 DEF ClearBegin, ClearRows, ClearFailures, ClearList,
           disks, table, scheduler, history
    <3> QED
      BY <2>1, <3>1 DEF Promised
  <2> QED
    BY <2>2, <2>3 DEF Clear
<1>2. \A c \in Callers : CallInHand(c)'
  BY <1>1, IdleInHand
<1>3. ASSUME NEW b \in Assets PROVE RowInHand(b)'
  <2>1. RowInHand(b) /\ rows[b] \in Rows
    BY <1>1 DEF HandInv, TypeOK
  <2>2. /\ rows'[b].ver = rows[b].ver
        /\ rows'[b].thumb = None \/ (rows'[b].thumb = rows[b].thumb /\ files' = files)
    BY <1>1, <2>1 DEF Rows, TrueInv, ClearSticks
  <2> QED
    BY <1>1, <2>1, <2>2 DEF RowInHand, InHand, Obsolete
<1>4. StageInHand'
  <2> SUFFICES ASSUME NEW t \in DOMAIN stage, stage[t] = "made" PROVE InHand(t)'
    BY <1>1 DEF StageInHand
  <2>1. InHand(t)
    BY DEF HandInv, StageInHand
  <2>2. t \in files => t \in files' \cup pulled'
    BY <1>1 DEF Promised
  <2>3. t \in pulled => t \in pulled'
    BY <1>1
  <2> QED
    BY <1>1, <2>1, <2>2, <2>3 DEF InHand, Obsolete
<1> QED
  BY <1>2, <1>3, <1>4 DEF HandInv

\* A caller about to work on rows it knows: what comes of its hands.
LEMMA WorkInHand ==
    ASSUME TrueInv, TypeOK', HandInv, NEW c \in Callers, call'[c].snap = call[c].snap,
           disk' = disk, highest' = highest, returned' = returned, stage' = stage, rows' = rows, files' = files,
           pulled' = pulled,
           \A d \in Callers \ {c} : call'[d] = call[d],
           call'[c].ops \in Seq(OpsInHand'),
           call'[c].at = call[c].at, call'[c].inbox \subseteq call[c].inbox,
           \A u \in call'[c].updates :
              u \in call[c].updates \/ u.thumb = None \/ InHand(u.thumb)'
    PROVE  HandInv'
<1>1. HandGrows
  BY HandsKept DEF TrueInv
<1>2. CallInHand(c)'
  <2>1. Known(c) \subseteq Assets /\ CallInHand(c) /\ call[c] \in CallType
    BY SnapType DEF TrueInv, TypeOK, CallType, Known, HandInv
  <2>2. SnapInHand(c)'
    BY <1>1, <2>1, SnapInHandFrame DEF CallInHand
  <2>3. UpdatesInHand(c)'
    BY <2>1 DEF CallInHand, UpdatesInHand, InHand, Obsolete
  <2>4. InboxInHand(c)'
    BY <2>1 DEF CallInHand, InboxInHand, Working, InHand, Obsolete, Target, thumb_target
  <2> QED
    BY <2>2, <2>3, <2>4 DEF CallInHand
<1> QED
  BY <1>1, <1>2, CallerHandFrame

\* The operations that name only files in hand, and delete only obsolete ones.
LEMMA HandOps ==
    ASSUME NEW a \in Assets, NEW t \in Thumbs, t # None => InHand(t)'
    PROVE  /\ \A l \in {"go on", "delete", "stop"} :
                (l = "delete" => t # None) =>
                    CasOp(a, t, l) \in OpsInHand' /\ RereadOp(a, t, l) \in OpsInHand'
           /\ t # None => PublishOp(a, t) \in OpsInHand'
           /\ NoteOp(a, TRUE) \in OpsInHand' /\ NoteOp(a, FALSE) \in OpsInHand'
<1>1. ASSUME NEW l \in {"go on", "delete", "stop"}, l = "delete" => t # None
      PROVE  CasOp(a, t, l) \in OpsInHand' /\ RereadOp(a, t, l) \in OpsInHand'
  <2>1. CasOp(a, t, l) \in CasOps /\ RereadOp(a, t, l) \in CasOps
    BY <1>1 DEF CasOp, RereadOp, CasOps
  <2> QED
    BY <2>1 DEF OpsInHand, AllOps, CasOp, RereadOp
<1>2. ASSUME t # None PROVE PublishOp(a, t) \in OpsInHand'
  <2>1. PublishOp(a, t) \in PublishOps
    BY <1>2 DEF PublishOp, PublishOps, Thumbs
  <2> QED
    BY <2>1 DEF OpsInHand, AllOps, PublishOp
<1>3. NoteOp(a, TRUE) \in OpsInHand' /\ NoteOp(a, FALSE) \in OpsInHand'
  <2>1. NoteOp(a, TRUE) \in NoteOps /\ NoteOp(a, FALSE) \in NoteOps
    BY DEF NoteOp, NoteOps
  <2> QED
    BY <2>1 DEF OpsInHand, AllOps, NoteOp
<1> QED
  BY <1>1, <1>2, <1>3

LEMMA DropOps ==
    ASSUME NEW T \in SUBSET Targets, \A t \in T : Obsolete(t)'
    PROVE  DeleteOp(T) \in OpsInHand' /\ <<DeleteOp(T)>> \in Seq(OpsInHand')
<1>1. DeleteOp(T) \in DeleteOps
  BY DEF DeleteOp, DeleteOps
<1>2. DeleteOp(T) \in OpsInHand'
  BY <1>1 DEF OpsInHand, AllOps, DeleteOp
<1> QED
  BY <1>2, SmallSeqs

\* A caller that has just read its rows, or knows none, has nothing in hand.
LEMMA FreshInHand ==
    ASSUME TrueInv, TypeOK', HandInv, NEW c \in Callers, NEW S \in SUBSET Assets,
           call'[c].snap \in {<<>>, ReadRows(S)}, call'[c].ops = <<>>,
           call'[c].updates = {}, call'[c].inbox = {},
           \A d \in Callers \ {c} : call'[d] = call[d],
           UNCHANGED <<disk, highest, returned, stage, files, rows, pulled>>
    PROVE  HandInv'
<1>1. HandGrows
  BY HandsKept DEF TrueInv
<1>2. /\ ReadRows(S) \in Snaps /\ DOMAIN ReadRows(S) = S
      /\ \A a \in S : ReadRows(S)[a] = rows[a]
  BY SnapRead DEF TrueInv
<1>3. SnapInHand(c)'
  <2>1. ASSUME NEW a \in Known(c)' PROVE a \in S /\ call'[c].snap[a] = rows[a]
    <3>1. CASE call'[c].snap = <<>>
      BY <2>1, <3>1, EmptySnap DEF Known
    <3>2. CASE call'[c].snap = ReadRows(S)
      BY <1>2, <2>1, <3>2 DEF Known
    <3> QED
      BY <3>1, <3>2
  <2> QED
    BY <2>1 DEF SnapInHand, HandInv, RowInHand
<1>4. CallInHand(c)'
  BY <1>3, EmptyIsSeq DEF CallInHand, UpdatesInHand, InboxInHand
<1> QED
  BY <1>1, <1>4, CallerHandFrame

LEMMA BeginInHand ==
    ASSUME TrueInv, TypeOK', HandInv, NEW c \in Callers, Begin(c)
    PROVE  HandInv'
<1> DEFINE Fresh(S) == /\ call'[c].snap \in {<<>>, ReadRows(S)} /\ call'[c].ops = <<>>
                       /\ call'[c].updates = {} /\ call'[c].inbox = {}
<1>1. /\ UNCHANGED <<disk, highest, returned, stage, files, rows, pulled>>
      /\ \A d \in Callers \ {c} : call'[d] = call[d]
  BY DEF Begin, BeginDemand, BeginPage, BeginBulk, RefuseBulk, OnlyCalls, disks, table,
         scheduler, history, TrueInv, TypeOK
<1>2. \E S \in SUBSET Assets : Fresh(S)
  <2>1. call \in [Callers -> CallType] /\ NewCall \in CallType
    BY NewCallType DEF TrueInv, TypeOK
  <2>2. ASSUME NEW a \in Assets, BeginDemand(c, a) PROVE Fresh({a})
    BY <2>1, <2>2, NewCallType DEF BeginDemand, CallType
  <2>3. ASSUME NEW S \in SUBSET Assets, BeginPage(c, S) PROVE Fresh(S)
    BY <2>1, <2>3, NewCallType DEF BeginPage, CallType
  <2>4. ASSUME NEW kind \in {"bulk", "failed"}, BeginBulk(c, kind) \/ RefuseBulk(c, kind)
        PROVE  Fresh({})
    <3>1. CASE BeginBulk(c, kind)
      BY <2>1, <3>1, NewCallType DEF BeginBulk, CallType
    <3>2. CASE RefuseBulk(c, kind)
      BY <2>1, <3>2, NewCallType DEF RefuseBulk, CallType
    <3> QED
      BY <2>4, <3>1, <3>2
  <2> HIDE DEF Fresh
  <2>5. {} \in SUBSET Assets /\ \A a \in Assets : {a} \in SUBSET Assets
    OBVIOUS
  <2> QED
    BY <2>2, <2>3, <2>4, <2>5 DEF Begin
<1>3. PICK S \in SUBSET Assets : Fresh(S)
  BY <1>2
<1> QED
  BY <1>1, <1>3, FreshInHand

LEMMA EndInHand ==
    ASSUME TrueInv, TypeOK', HandInv, NEW c \in Callers, NEW record \in CallType,
           End(c, record), UNCHANGED <<disks, files, table, history>>
    PROVE  HandInv'
<1> DEFINE r == Ended(record)
<1>1. /\ r \in CallType /\ r.snap = <<>> /\ r.updates = {} /\ r.inbox = {} /\ r.ops = <<>>
  BY EndedType
<1>2. call' = [call EXCEPT ![c] = r]
  BY DEF End, Ended
<1> HIDE DEF r
<1>3. call'[c] = r /\ \A d \in Callers \ {c} : call'[d] = call[d]
  BY <1>1, <1>2, CallTakes DEF TrueInv
<1>4. {} \in SUBSET Assets
  OBVIOUS
<1> QED
  BY <1>1, <1>3, <1>4, FreshInHand DEF End, disks, table, history

LEMMA FinishInHand ==
    ASSUME TrueInv, TypeOK', HandInv, NEW c \in Callers, Finish(c) \/ TimeOut(c)
    PROVE  HandInv'
<1>1. call[c] \in CallType
  BY DEF TrueInv, TypeOK
<1>2. [NewCall EXCEPT !.kind = "error"] \in CallType
  BY NewCallType DEF CallType
<1>3. CASE Finish(c)
  BY <1>1, <1>3, EndInHand DEF Finish
<1>4. CASE TimeOut(c)
  BY <1>2, <1>4, EndInHand DEF TimeOut
<1> QED
  BY <1>3, <1>4

LEMMA BulkPageInHand ==
    ASSUME TrueInv, TypeOK', HandInv, NEW c \in Callers, BulkPage(c)
    PROVE  HandInv'
<1> DEFINE page == CandidatePage(call[c].kind, call[c].after, call[c].ceiling)
<1>1. call[c] \in CallType /\ CallOK(c) /\ call[c].at = "page" /\ call[c].ops = <<>>
  BY DEF TrueInv, TypeOK, BulkPage
<1>2. call[c].updates = {} /\ call[c].inbox = {}
  BY <1>1 DEF CallOK, OwnItems, Queued, Working
<1>3. CASE page = {}
  BY <1>1, <1>3, EndInHand DEF BulkPage
<1>4. CASE page # {}
  <2>1. page \in SUBSET Assets
    BY DEF CandidatePage, Candidates
  <2>2. /\ call' = [call EXCEPT ![c] = [call[c] EXCEPT
                      !.at = "visit", !.todo = page, !.snap = ReadRows(page),
                      !.after = LastId(page), !.seen = call[c].seen \cup page,
                      !.bad = {a \in page : HasFailed(a)}]]
        /\ UNCHANGED <<disks, files, table, scheduler, history>>
    BY <1>4 DEF BulkPage
  <2> HIDE DEF page
  <2>3. /\ call'[c].snap = ReadRows(page) /\ call'[c].ops = <<>>
        /\ call'[c].updates = {} /\ call'[c].inbox = {}
        /\ \A d \in Callers \ {c} : call'[d] = call[d]
    BY <1>1, <1>2, <2>2 DEF CallType, TrueInv, TypeOK
  <2> QED
    BY <2>1, <2>2, <2>3, FreshInHand DEF disks, table, scheduler, history
<1> QED
  BY <1>3, <1>4

\* A visited asset's thumbnail, as its caller knows it.
LEMMA VisitExistingInHand ==
    ASSUME TrueInv, TypeOK', HandInv, NEW c \in Callers, NEW a \in call[c].todo,
           VisitExisting(c, a)
    PROVE  HandInv'
<1> DEFINE ops == IF call[c].kind = "demand"
                  THEN <<CasOp(a, ReadThumb(c, a), "stop"), NoteOp(a, TRUE)>>
                  ELSE <<PublishOp(a, ReadThumb(c, a)), NoteOp(a, TRUE)>>
           r == Handled(c, a, ops)
<1>1. /\ Visits(c, a) /\ call' = [call EXCEPT ![c] = r] /\ OnlyCalls
      /\ ReadThumb(c, a) # None /\ ReadThumb(c, a) \in files
  BY DEF VisitExisting, HasExisting
<1>2. a \in Assets /\ call[c] \in CallType /\ TypeOK /\ ReadThumb(c, a) \in Thumbs
  BY <1>1, VisitFacts DEF TrueInv, Thumbs
<1>3. PICK t \in Thumbs : t = ReadThumb(c, a)
  BY <1>2
<1>4. t # None /\ InHand(t)'
  BY <1>1, <1>3 DEF InHand, OnlyCalls
<1>5. /\ CasOp(a, t, "stop") \in OpsInHand' /\ PublishOp(a, t) \in OpsInHand'
      /\ NoteOp(a, TRUE) \in OpsInHand'
  BY <1>2, <1>4, HandOps
<1>6. ops \in Seq(OpsInHand') /\ ops \in Seq(AllOps)
  <2>1. ops \in Seq(OpsInHand')
    BY <1>3, <1>5, SmallSeqs
  <2>2. OpsInHand' \subseteq AllOps
    BY DEF OpsInHand
  <2> HIDE DEF ops
  <2> QED
    BY <2>1, <2>2, SeqGrows
<1> HIDE DEF ops
<1>7. /\ r \in CallType /\ SameCall(r, call[c]) /\ r.ops = ops
      /\ r.inbox = call[c].inbox /\ r.updates = call[c].updates
  BY <1>2, <1>6, HandledIs
<1> HIDE DEF r
<1>8. call'[c] = r /\ \A d \in Callers \ {c} : call'[d] = call[d]
  BY <1>1, <1>2, <1>7, CallTakes
<1> QED
  BY <1>1, <1>6, <1>7, <1>8, WorkInHand DEF SameCall, OnlyCalls, disks, table, scheduler, history

\* The version a caller read of a source that is gone is one nobody can show.
LEMMA VisitMissingInHand ==
    ASSUME TrueInv, TypeOK', HandInv, NEW c \in Callers, NEW a \in call[c].todo,
           VisitMissing(c, a)
    PROVE  HandInv'
<1> DEFINE drop == DeleteIfAny(ReadThumb(c, a))
<1>1. /\ Visits(c, a) /\ disk[a] = 0
      /\ UNCHANGED <<disk, highest, returned, stage, files, rows, pulled>>
  BY DEF VisitMissing, disks, table, scheduler
<1>2. PICK r \in {DemandMissing(c, a), PageMissing(c, a), BulkMissing(c, a)} :
          call' = [call EXCEPT ![c] = r]
  BY DEF VisitMissing
<1>3. /\ a \in Known(c) /\ a \in Assets /\ call[c] \in CallType
      /\ SnapOK(c) /\ TypeOK
      /\ ReadThumb(c, a) \in {None, Target(c, a)} /\ Target(c, a) \in Targets
  BY <1>1, VisitFacts DEF CallOK, TrueInv
<1>4. PICK t \in Targets : t = Target(c, a)
  BY <1>3
<1>5. Obsolete(t)'
  <2>1. call[c].snap[a].ver \in Versions /\ call[c].snap[a].ver <= highest[a]
    BY <1>3 DEF SnapOK, HandInv, CallInHand, SnapInHand
  <2>2. t[1] = a /\ t[2] = call[c].snap[a].ver
    BY <1>4 DEF Target, thumb_target
  <2> QED
    BY <1>1, <2>1, <2>2 DEF Obsolete, Versions
<1>6. /\ CasOp(a, None, "go on") \in OpsInHand' /\ NoteOp(a, FALSE) \in OpsInHand'
      /\ DeleteOp({t}) \in OpsInHand'
  <2>1. None \in Thumbs
    BY DEF Thumbs
  <2>2. DeleteOp({t}) \in OpsInHand'
    <3>1. ASSUME NEW u \in {t} PROVE Obsolete(u)'
      <4>1. u = t
        OBVIOUS
      <4> QED
        BY <1>5, <4>1 DEF Obsolete
    <3> QED
      BY <3>1, DropOps
  <2> QED
    BY <1>3, <2>1, <2>2, HandOps
<1>7. drop \in Seq(OpsInHand') /\ drop \in Seq(AllOps)
  <2>1. drop \in Seq(OpsInHand')
    BY <1>3, <1>4, <1>6, SmallSeqs, EmptyIsSeq DEF DeleteIfAny
  <2>2. OpsInHand' \subseteq AllOps
    BY DEF OpsInHand
  <2> HIDE DEF drop
  <2> QED
    BY <2>1, <2>2, SeqGrows
<1>8. /\ MissingAnswer(c, a, r)
      /\ r.ops \in {<<CasOp(a, None, "go on"), NoteOp(a, FALSE)>> \o drop,
                    <<NoteOp(a, FALSE)>>, <<NoteOp(a, FALSE)>> \o drop}
  BY <1>3, <1>7, MissingIs
<1> HIDE DEF drop
<1>9. r.ops \in Seq(OpsInHand')
  <2>1. /\ <<CasOp(a, None, "go on"), NoteOp(a, FALSE)>> \in Seq(OpsInHand')
        /\ <<NoteOp(a, FALSE)>> \in Seq(OpsInHand')
    BY <1>6, SmallSeqs
  <2> QED
    BY <1>7, <1>8, <2>1, ConcatIsSeq
<1>10. \A u \in r.updates : u \in call[c].updates \/ u.thumb = None
  <2>1. Update(a, None).thumb = None
    BY DEF Update
  <2> QED
    BY <1>8, <2>1 DEF MissingAnswer
<1>11. call'[c] = r /\ \A d \in Callers \ {c} : call'[d] = call[d]
  BY <1>2, <1>3, <1>8, CallTakes DEF MissingAnswer
<1> QED
  BY <1>1, <1>8, <1>9, <1>10, <1>11, WorkInHand DEF SameCall, MissingAnswer

LEMMA VisitTargetInHand ==
    ASSUME TrueInv, TypeOK', HandInv, NEW c \in Callers, NEW a \in call[c].todo,
           VisitTarget(c, a)
    PROVE  HandInv'
<1>1. Visits(c, a) /\ OnlyCalls /\ Target(c, a) \in files
  BY DEF VisitTarget
<1>2. PICK r \in {DemandReady(c, a), PageReady(c, a), BulkReady(c, a)} :
          call' = [call EXCEPT ![c] = r]
  BY DEF VisitTarget
<1>3. a \in Assets /\ call[c] \in CallType /\ TypeOK /\ Target(c, a) \in Targets
  BY <1>1, VisitFacts DEF TrueInv
<1>4. /\ ReadyAnswer(c, a, r)
      /\ r.ops \in {<<CasOp(a, Target(c, a), "go on"), NoteOp(a, TRUE)>>,
                    <<PublishOp(a, Target(c, a)), NoteOp(a, TRUE)>>,
                    <<NoteOp(a, TRUE)>>}
  BY <1>3, ReadyIs
<1>5. PICK t \in Thumbs : t = Target(c, a)
  BY <1>3 DEF Thumbs
<1>6. t # None /\ InHand(t)'
  BY <1>1, <1>5, NoneIsNoPair DEF InHand, OnlyCalls, Target, thumb_target
<1>7. /\ CasOp(a, t, "go on") \in OpsInHand' /\ PublishOp(a, t) \in OpsInHand'
      /\ NoteOp(a, TRUE) \in OpsInHand'
  BY <1>3, <1>6, HandOps
<1>8. r.ops \in Seq(OpsInHand')
  <2>1. /\ <<CasOp(a, t, "go on"), NoteOp(a, TRUE)>> \in Seq(OpsInHand')
        /\ <<PublishOp(a, t), NoteOp(a, TRUE)>> \in Seq(OpsInHand')
        /\ <<NoteOp(a, TRUE)>> \in Seq(OpsInHand')
    BY <1>7, SmallSeqs
  <2> QED
    BY <1>4, <1>5, <2>1
<1>9. \A u \in r.updates : u \in call[c].updates \/ InHand(u.thumb)'
  <2>1. Update(a, t).thumb = t
    BY DEF Update
  <2>2. \A u \in r.updates : u \in call[c].updates \/ u.thumb = t
    BY <1>4, <1>5, <2>1 DEF ReadyAnswer
  <2> QED
    BY <1>6, <2>2 DEF InHand, Obsolete
<1>10. call'[c] = r /\ \A d \in Callers \ {c} : call'[d] = call[d]
  BY <1>2, <1>3, <1>4, CallTakes DEF ReadyAnswer
<1> QED
  BY <1>1, <1>4, <1>8, <1>9, <1>10, WorkInHand
     DEF SameCall, ReadyAnswer, OnlyCalls, disks, table, scheduler, history

LEMMA VisitWaitInHand ==
    ASSUME TrueInv, TypeOK', HandInv, NEW c \in Callers, NEW a \in call[c].todo,
           VisitSkip(c, a) \/ VisitEnqueue(c, a)
    PROVE  HandInv'
<1> DEFINE skip == [Handled(c, a, <<>>) EXCEPT !.skipped = call[c].skipped \cup {a}]
           wait == [Handled(c, a, <<>>) EXCEPT !.pend = call[c].pend \cup {a}]
<1>1. /\ Visits(c, a) /\ UNCHANGED <<disk, highest, returned, stage, files, rows, pulled>>
      /\ \/ call' = [call EXCEPT ![c] = skip]
         \/ call' = [call EXCEPT ![c] = wait]
  BY DEF VisitSkip, VisitEnqueue, OnlyCalls, disks, table, scheduler, history
<1>2. a \in Assets /\ call[c] \in CallType /\ TypeOK
  BY <1>1, VisitFacts DEF TrueInv
<1> DEFINE Same(r) == /\ r \in CallType /\ SameCall(r, call[c]) /\ r.ops = <<>>
                      /\ r.inbox = call[c].inbox /\ r.updates = call[c].updates
<1>3. Same(skip) /\ Same(wait)
  BY <1>2, NoOpsIs
<1> HIDE DEF skip, wait
<1>4. PICK r \in {skip, wait} : call' = [call EXCEPT ![c] = r]
  BY <1>1
<1>5. Same(r)
  BY <1>3
<1>6. call'[c] = r /\ \A d \in Callers \ {c} : call'[d] = call[d]
  BY <1>2, <1>4, <1>5, CallTakes
<1>7. r.ops \in Seq(OpsInHand')
  BY <1>5, EmptyIsSeq
<1> QED
  BY <1>1, <1>5, <1>6, <1>7, WorkInHand DEF SameCall

\* A caller takes a render for what it asked for, and it was made or not.
LEMMA TakeResultInHand ==
    ASSUME TrueInv, TypeOK', HandInv, NEW c \in Callers, NEW result \in call[c].inbox,
           TakeResult(c, result)
    PROVE  HandInv'
<1> DEFINE a == result.a
<1>1. OnlyCalls /\ Working(c)
  BY DEF TakeResult, Waits, Working
<1>2. PICK r \in {DemandResult(c, result), PageResult(c, result), BulkResult(c, result)} :
          call' = [call EXCEPT ![c] = r]
  BY DEF TakeResult
<1>3. /\ TypeOK /\ CallOK(c) /\ call[c] \in CallType /\ result \in Results
      /\ result.ok \in BOOLEAN /\ a \in Assets
  <2>1. TypeOK /\ CallOK(c) /\ call[c] \in CallType
    BY DEF TrueInv, TypeOK
  <2>2. result \in Results
    BY <2>1 DEF CallType
  <2> QED
    BY <2>1, <2>2 DEF Results
<1>4. a \in Known(c)
  BY <1>1, <1>3 DEF CallOK, Awaited, OwnItems
<1>5. Target(c, a) \in Targets
  BY <1>3, <1>4, SnapType DEF CallOK, SnapOK, Known, CallType, Target, thumb_target, Targets
<1>6. PICK ops \in ResultOps(c, result) :
          ResultAnswer(c, result, r) /\ r.ops = ops \o <<NoteOp(a, result.ok)>>
  BY <1>3, <1>5, ResultIs
<1>7. call'[c] = r /\ \A d \in Callers \ {c} : call'[d] = call[d]
  BY <1>2, <1>3, <1>6, CallTakes DEF ResultAnswer
<1>8. PICK t \in Thumbs : t = Target(c, a)
  BY <1>5 DEF Thumbs
<1>9. t # None /\ (result.ok => InHand(t)')
  <2>1. result.ok => InHand(Target(c, a))
    BY <1>1 DEF HandInv, CallInHand, InboxInHand
  <2>2. t # None
    BY <1>8, NoneIsNoPair DEF Target, thumb_target
  <2> QED
    BY <1>1, <1>8, <2>1, <2>2 DEF InHand, Obsolete, OnlyCalls, disks, scheduler, history
<1>10. /\ CasOp(a, None, "go on") \in OpsInHand' /\ NoteOp(a, result.ok) \in OpsInHand'
       /\ result.ok => /\ CasOp(a, t, "delete") \in OpsInHand'
                       /\ PublishOp(a, t) \in OpsInHand'
  <2>1. None \in Thumbs
    BY DEF Thumbs
  <2>2. CasOp(a, None, "go on") \in OpsInHand'
    BY <1>3, <2>1, HandOps
  <2>3. NoteOp(a, TRUE) \in OpsInHand' /\ NoteOp(a, FALSE) \in OpsInHand'
    BY <1>3, <2>1, HandOps
  <2>4. result.ok => /\ CasOp(a, t, "delete") \in OpsInHand'
                     /\ PublishOp(a, t) \in OpsInHand'
    BY <1>3, <1>9, HandOps
  <2>5. NoteOp(a, result.ok) \in OpsInHand'
    <3>1. CASE result.ok = TRUE
      BY <2>3, <3>1
    <3>2. CASE result.ok = FALSE
      BY <2>3, <3>2
    <3> QED
      BY <1>3, <3>1, <3>2
  <2> QED
    BY <2>2, <2>4, <2>5
<1>11. r.ops \in Seq(OpsInHand')
  <2>1. ops \in Seq(OpsInHand')
    BY <1>8, <1>10, SmallSeqs, EmptyIsSeq DEF ResultOps
  <2> QED
    BY <1>6, <1>10, <2>1, SmallSeqs
<1>12. \A u \in r.updates : u \in call[c].updates \/ u.thumb = None \/ InHand(u.thumb)'
  <2>1. Update(a, None).thumb = None /\ Update(a, t).thumb = t
    BY DEF Update
  <2>2. ASSUME NEW u \in r.updates
        PROVE  u \in call[c].updates \/ u.thumb = None \/ (result.ok /\ u.thumb = t)
    BY <1>6, <1>8, <2>1 DEF ResultAnswer
  <2>3. ASSUME NEW u \in r.updates, result.ok, u.thumb = t PROVE InHand(u.thumb)'
    <3> DEFINE s == u.thumb
    <3>1. InHand(t)'
      BY <1>9, <2>3
    <3> QED
      BY <2>3, <3>1 DEF InHand, Obsolete
  <2> QED
    BY <2>2, <2>3
<1> QED
  BY <1>1, <1>6, <1>7, <1>11, <1>12, WorkInHand
     DEF SameCall, ResultAnswer, OnlyCalls, disks, table, scheduler, history

\* A caller that keeps its rows and updates, whatever it still has to do.
LEMMA KeptInHand ==
    ASSUME TrueInv, TypeOK', HandGrows, NEW c \in Callers, CallInHand(c),
           \A a \in Assets : rows'[a].id = rows[a].id /\ rows'[a].ver = rows[a].ver,
           call'[c].snap = call[c].snap,
           call'[c].ops = call[c].ops \/ call'[c].ops \in Seq(OpsInHand'),
           call'[c].updates = call[c].updates, Working(c)' => Working(c),
           \A r \in call'[c].inbox :
              r \in call[c].inbox \/ (Working(c) /\ r.ok => InHand(Target(c, r.a))')
    PROVE  CallInHand(c)'
<1>1. SnapInHand(c)'
  <2>1. \A a \in Known(c) : rows'[a].id = rows[a].id /\ rows'[a].ver = rows[a].ver
    BY SnapType DEF TrueInv, TypeOK, CallType, Known
  <2> QED
    BY <2>1, SnapInHandFrame DEF CallInHand
<1>2. call'[c].ops \in Seq(OpsInHand')
  BY OpsGrow, SeqGrows DEF CallInHand
<1>3. call[c] \in CallType /\ CallOK(c)
  BY DEF TrueInv, TypeOK
<1>4. UpdatesInHand(c)'
  <2>1. ASSUME NEW u \in call[c].updates, u.thumb # None PROVE InHand(u.thumb)'
    <3>1. u.thumb \in Targets
      BY <1>3, <2>1 DEF CallType, Updates, Thumbs
    <3> QED
      BY <2>1, <3>1 DEF CallInHand, UpdatesInHand, HandGrows
  <2> QED
    BY <2>1 DEF UpdatesInHand
<1>5. InboxInHand(c)'
  <2>1. ASSUME Working(c), NEW r \in call[c].inbox, r.ok PROVE InHand(Target(c, r.a))'
    <3>1. r.a \in Known(c)
      BY <1>3, <2>1 DEF CallOK, Awaited, OwnItems
    <3>2. Target(c, r.a) \in Targets /\ Target(c, r.a)' = Target(c, r.a)
      BY <1>3, <3>1, SnapType
         DEF CallOK, SnapOK, CallType, Known, Target, thumb_target, Targets
    <3>3. InHand(Target(c, r.a))
      BY <2>1 DEF CallInHand, InboxInHand
    <3> DEFINE t == Target(c, r.a)
    <3>4. InHand(t)'
      BY <3>2, <3>3 DEF HandGrows
    <3> QED
      BY <3>4
  <2> QED
    BY <2>1 DEF InboxInHand
<1> QED
  BY <1>1, <1>2, <1>4, <1>5 DEF CallInHand

LEMMA NoticeCancelInHand ==
    ASSUME TrueInv, TypeOK', HandInv, NEW c \in Callers, NoticeCancel(c)
    PROVE  HandInv'
<1>1. call[c].at = "visit" /\ OnlyCalls /\ TypeOK /\ call[c] \in CallType
  BY DEF NoticeCancel, TrueInv, TypeOK
<1>2. call' = [call EXCEPT ![c] = [call[c] EXCEPT !.at = "drain", !.cancelled = TRUE]]
  BY DEF NoticeCancel
<1>3. /\ call'[c].snap = call[c].snap /\ call'[c].ops = call[c].ops
      /\ call'[c].inbox = call[c].inbox /\ call'[c].updates = call[c].updates
      /\ Working(c) /\ \A d \in Callers \ {c} : call'[d] = call[d]
  BY <1>1, <1>2 DEF CallType, TypeOK, Working
<1>4. UNCHANGED <<disk, highest, returned, stage, files, rows, pulled>>
  BY <1>1 DEF OnlyCalls, disks, table, scheduler, history
<1>5. HandGrows
  BY <1>1, <1>4, HandsKept
<1>6. CallInHand(c)'
  BY <1>3, <1>4, <1>5, KeptInHand DEF HandInv
<1> QED
  BY <1>3, <1>4, <1>5, <1>6, CallerHandFrame

\* A render puts the file of its target in place; nobody knows of it yet.
LEMMA RenderInHand ==
    ASSUME TrueInv, TypeOK', HandInv, NEW t \in DOMAIN jobs, Render(t) \/ LookAtTarget(t)
    PROVE  HandInv'
<1>1. TypeOK /\ t \in Targets
  BY DEF TrueInv, TypeOK
<1>2. /\ UNCHANGED <<disk, highest, returned, rows, call>>
      /\ \A u \in files \cup pulled : u \in files' \cup pulled'
      /\ \A u \in DOMAIN stage' \ {t} : u \in DOMAIN stage /\ stage'[u] = stage[u]
      /\ t \in DOMAIN stage' /\ stage'[t] = "made" => t \in files'
  <2>1. CASE Render(t)
    <3>1. PICK made \in BOOLEAN :
            LET there == disk[t[1]] # 0 /\ (made \/ t \in files) IN
            /\ files' = IF there THEN files \cup {t} ELSE files
            /\ pulled' = IF there THEN pulled \ {t} ELSE pulled
            /\ stage' = [u \in DOMAIN stage \cup {t} |->
                 IF u # t THEN stage[u] ELSE IF there THEN "rendered" ELSE "failed"]
      BY <2>1 DEF Render, Outcomes
    <3>2. UNCHANGED <<disk, highest, returned, rows, call>>
      BY <2>1 DEF Render, disks, table
    <3> QED
      BY <3>1, <3>2
  <2>2. CASE LookAtTarget(t)
    <3>1. /\ files' = files /\ pulled' = pulled /\ t \in DOMAIN stage
          /\ stage' = [stage EXCEPT ![t] = IF t \in files THEN "made" ELSE "failed"]
          /\ UNCHANGED <<disk, highest, returned, rows, call>>
      BY <2>2 DEF LookAtTarget, disks, table
    <3>2. PICK S \in SUBSET Targets : stage \in [S -> Stages]
      BY <1>1 DEF TypeOK
    <3> QED
      BY <3>1, <3>2
  <2> QED
    BY <2>1, <2>2
<1>3. HandGrows
  BY <1>1, <1>2, HandsKept
<1>4. \A c \in Callers : CallInHand(c)'
  BY <1>2, <1>3, OtherInHand DEF HandInv
<1>5. StageInHand'
  <2> SUFFICES ASSUME NEW u \in DOMAIN stage', stage'[u] = "made" PROVE InHand(u)'
    BY DEF StageInHand
  <2>1. CASE u = t
    BY <1>2, <2>1 DEF InHand
  <2>2. CASE u # t
    <3>1. u \in DOMAIN stage /\ stage[u] = "made"
      BY <1>2, <2>2
    <3>2. InHand(u) /\ u \in Targets
      BY <1>1, <3>1 DEF HandInv, StageInHand, TypeOK
    <3> QED
      BY <1>3, <3>2 DEF HandGrows
  <2> QED
    BY <2>1, <2>2
<1>6. \A a \in Assets : disk'[a] <= highest'[a] /\ rows'[a].ver <= highest'[a]
  BY <1>2 DEF HandInv, RowInHand
<1> QED
  BY <1>2, <1>3, <1>4, <1>5, <1>6, HandFrame

\* What everybody who waits is told was in the worker's hand.
LEMMA AnswerInHand ==
    ASSUME TrueInv, TypeOK', HandInv, NEW t \in DOMAIN jobs, Answer(t)
    PROVE  HandInv'
<1>1. TypeOK /\ t \in Targets
  BY DEF TrueInv, TypeOK
<1>2. PICK ok \in BOOLEAN :
      /\ ok = (stage[t] = "made")
      /\ call' = [c \in Callers |->
              IF c \in jobs[t]
              THEN [call[c] EXCEPT !.inbox = call[c].inbox \cup {[a |-> t[1], ok |-> ok]}]
              ELSE call[c]]
      /\ stage' = [u \in DOMAIN stage \ {t} |-> stage[u]]
      /\ UNCHANGED <<disk, highest, returned, files, rows, pulled>>
  BY DEF Answer, disks, table, history
<1>3. ok => InHand(t)'
  <2>1. ok => InHand(t)
    BY <1>2 DEF Answer, HandInv, StageInHand
  <2> QED
    BY <1>2, <2>1 DEF InHand, Obsolete
<1>4. HandGrows
  BY <1>1, <1>2, HandsKept
<1>5. ASSUME NEW c \in Callers PROVE CallInHand(c)'
  <2> DEFINE answer == [a |-> t[1], ok |-> ok]
  <2>1. call[c] \in CallType /\ CallOK(c) /\ CallInHand(c)
    BY <1>1 DEF TypeOK, TrueInv, HandInv
  <2>2. answer.a = t[1] /\ answer.ok = ok
    OBVIOUS
  <2>3. CASE c \notin jobs[t]
    <3>1. call'[c] = call[c]
      BY <1>2, <2>3
    <3> QED
      BY <1>2, <1>4, <2>1, <3>1, KeptInHand DEF Working
  <2>4. CASE c \in jobs[t]
    <3>1. call'[c] = [call[c] EXCEPT !.inbox = call[c].inbox \cup {answer}]
      BY <1>2, <2>4
    <3> HIDE DEF answer
    <3>2. /\ call'[c].snap = call[c].snap /\ call'[c].ops = call[c].ops
          /\ call'[c].updates = call[c].updates /\ call'[c].at = call[c].at
          /\ call'[c].inbox = call[c].inbox \cup {answer}
      BY <2>1, <3>1 DEF CallType
    <3>3. ASSUME Working(c), ok PROVE InHand(Target(c, answer.a))'
      <4>1. t = Target(c, t[1])
        BY <2>1, <2>4, <3>3 DEF CallOK, Queued, InJobs
      <4>2. Target(c, answer.a)' = t
        BY <2>2, <3>2, <4>1 DEF Target, thumb_target
      <4> QED
        BY <1>3, <3>3, <4>2 DEF InHand, Obsolete
    <3>4. \A r \in call'[c].inbox :
            r \in call[c].inbox \/ (Working(c) /\ r.ok => InHand(Target(c, r.a))')
      BY <2>2, <3>2, <3>3
    <3>5. Working(c)' => Working(c)
      BY <3>2 DEF Working
    <3> QED
      BY <1>2, <1>4, <2>1, <3>2, <3>4, <3>5, KeptInHand
  <2> QED
    BY <2>3, <2>4
<1>6. StageInHand'
  <2> SUFFICES ASSUME NEW u \in DOMAIN stage, stage[u] = "made" PROVE InHand(u)'
    BY <1>2 DEF StageInHand
  <2>1. InHand(u) /\ u \in Targets
    BY <1>1 DEF HandInv, StageInHand, TypeOK
  <2> QED
    BY <1>4, <2>1 DEF HandGrows
<1> QED
  BY <1>2, <1>4, <1>5, <1>6, HandFrame DEF HandInv, RowInHand

\* What a caller is about to do with files, and what it goes by.
LEMMA OpHandFacts ==
    ASSUME TrueInv, HandInv, NEW c \in Callers, call[c].ops # <<>>
    PROVE  Op(c) \in OpsInHand /\ Rest(c) \in Seq(OpsInHand)
BY HeadAndTail DEF HandInv, CallInHand, Op, Rest

LEMMA StaleIsObsolete ==
    ASSUME TrueInv, HandInv, NEW c \in Callers, NEW a \in Known(c),
           ~Matches(a, call[c].snap[a])
    PROVE  Obsolete(Target(c, a))
BY DEF TrueInv, CallOK, SnapOK, HandInv, CallInHand, SnapInHand, Matches

\* The frame of a statement.
LEMMA OpHandFrame ==
    ASSUME TrueInv, TypeOK', HandInv, HandGrows, NEW c \in Callers, NEW r \in CallType,
           SameWork(r, call[c]), call' = [call EXCEPT ![c] = r],
           UNCHANGED <<disk, highest, returned, stage>>,
           r.ops \in Seq(OpsInHand) \/ r.ops \in Seq(OpsInHand'),
           \A a \in Assets : rows'[a].id = rows[a].id /\ rows'[a].ver = rows[a].ver,
           \A a \in Assets : rows'[a].thumb # None =>
              rows'[a].thumb = rows[a].thumb \/ InHand(rows[a].thumb)'
    PROVE  HandInv'
<1>1. call'[c] = r /\ \A d \in Callers \ {c} : call'[d] = call[d]
  BY CallTakes DEF TrueInv
<1>2. r.ops \in Seq(OpsInHand')
  BY OpsGrow, SeqGrows
<1>3. CallInHand(c)'
  BY <1>1, <1>2, KeptInHand DEF SameWork, HandInv, Working
<1> QED
  BY <1>1, <1>3, CallerHandFrame

LEMMA CasInHand ==
    ASSUME TrueInv, TypeOK', HandInv, NEW c \in Callers, Cas(c)
    PROVE  HandInv'
<1> DEFINE a == Op(c).a
           t == Op(c).thumb
           again == RereadOp(a, t, Op(c).lost)
<1>1. /\ call[c].ops # <<>> /\ Op(c).do = "cas"
      /\ UNCHANGED <<disk, highest, returned, stage, files, nextId, failures, clear, refused, pulled>>
  BY DEF Cas, AtOp, Op, disks, scheduler, history
<1>2. /\ a \in Assets /\ Working(c) /\ t \in {None, Target(c, a)}
      /\ t \in Thumbs /\ Op(c) \in AllOps /\ Rest(c) \in Seq(AllOps)
  BY <1>1, OpFacts
<1>3. HandGrows /\ TypeOK
  BY <1>1, HandsKept DEF TrueInv
<1>4. Op(c) \in OpsInHand /\ Rest(c) \in Seq(OpsInHand)
  BY <1>1, OpHandFacts
<1>5. PICK u \in Thumbs : u = t
  BY <1>2
<1>6. u # None => InHand(u)'
  BY <1>1, <1>4, <1>5 DEF OpsInHand, InHand, Obsolete
<1>7. CASE Matches(a, Old(c)) /\ rows[a].thumb # t
  <2> DEFINE r == LeftReady(c, a, Rest(c))
  <2>1. rows' = Put(rows, a, t) /\ call' = Applied(c, a, t, Rest(c))
    BY <1>7 DEF Cas
  <2>2. /\ call' = [call EXCEPT ![c] = r] /\ r \in CallType /\ SameWork(r, call[c])
        /\ r.ops = Rest(c)
    <3>1. r = LeftReady(c, a, Rest(c)) /\ a \in Assets /\ Rest(c) \in Seq(AllOps)
      BY <1>2
    <3> HIDE DEF r, a, t
    <3> QED
      BY <1>3, <2>1, <3>1, LeftReadyIs
  <2>3. /\ rows'[a].thumb = t /\ \A b \in Assets \ {a} : rows'[b] = rows[b]
        /\ \A b \in Assets : rows'[b].id = rows[b].id /\ rows'[b].ver = rows[b].ver
    BY <1>1, <1>2, <1>7, <2>1, PutIs DEF Old
  <2>4. \A b \in Assets : rows'[b].thumb # None =>
              rows'[b].thumb = rows[b].thumb \/ InHand(rows[b].thumb)'
    BY <1>5, <1>6, <2>3 DEF InHand, Obsolete
  <2> HIDE DEF r
  <2> QED
    BY <1>1, <1>3, <1>4, <2>2, <2>3, <2>4, OpHandFrame
<1>8. CASE ~(Matches(a, Old(c)) /\ rows[a].thumb # t)
  <2> DEFINE ops == <<again>> \o Rest(c)
             r == Left(c, ops)
  <2>1. rows' = rows /\ call' = Then(c, ops)
    BY <1>8 DEF Cas
  <2>2. Op(c) \in CasOps
    BY <1>1, <1>2 DEF AllOps, PublishOps, NoteOps, DeleteOps
  <2>3. Op(c).lost \in {"go on", "delete", "stop"} /\ (Op(c).lost = "delete" => u # None)
    BY <1>5, <2>2 DEF CasOps
  <2>4. again \in OpsInHand'
    BY <1>2, <1>5, <1>6, <2>3, HandOps
  <2>5. Rest(c) \in Seq(OpsInHand')
    BY <1>3, <1>4, OpsGrow, SeqGrows
  <2>6. ops \in Seq(OpsInHand')
    BY <2>4, <2>5, SmallSeqs
  <2>7. OpsInHand' \subseteq AllOps
    BY DEF OpsInHand
  <2> HIDE DEF ops
  <2>8. ops \in Seq(AllOps)
    BY <2>6, <2>7, SeqGrows
  <2>9. /\ call' = [call EXCEPT ![c] = r] /\ r \in CallType /\ SameWork(r, call[c])
        /\ r.ops = ops
    BY <1>3, <2>1, <2>8, LeftIs
  <2> HIDE DEF r
  <2> QED
    BY <1>1, <1>3, <2>1, <2>6, <2>9, OpHandFrame
<1> QED
  BY <1>7, <1>8

\* A demand drops a file of an obsolete version, or one it mistakes for that.
LEMMA RereadInHand ==
    ASSUME TrueInv, TypeOK', HandInv, NEW c \in Callers, Reread(c)
    PROVE  HandInv'
<1> DEFINE a == Op(c).a
           t == Op(c).thumb
           drop == <<DropOp(a, t, Old(c))>>
<1>1. /\ call[c].ops # <<>> /\ Op(c).do = "reread"
      /\ UNCHANGED <<disk, highest, returned, stage, files, rows, pulled>>
  BY DEF Reread, AtOp, Op, OnlyCalls, disks, table, scheduler, history
<1>2. /\ a \in Known(c) /\ a \in Assets /\ t \in {None, Target(c, a)}
      /\ t \in Thumbs /\ Op(c) \in AllOps /\ Rest(c) \in Seq(AllOps)
  BY <1>1, OpFacts
<1>3. HandGrows /\ TypeOK
  BY <1>1, HandsKept DEF TrueInv
<1>4. Rest(c) \in Seq(OpsInHand)
  BY <1>1, OpHandFacts
<1>5. Op(c).lost \in {"go on", "delete", "stop"} /\ (Op(c).lost = "delete" => t \in Targets)
  <2>1. Op(c) \in CasOps
    BY <1>1, <1>2 DEF AllOps, PublishOps, NoteOps, DeleteOps
  <2> QED
    BY <1>2, <2>1 DEF CasOps, Thumbs
<1>6. ASSUME call' = Then(c, drop), Op(c).lost = "delete",
             ~(Matches(a, Old(c)) /\ rows[a].thumb = t)
      PROVE  drop \in Seq(OpsInHand')
  <2>1. PICK u \in Targets : u = t
    BY <1>5, <1>6
  <2> DEFINE op == DropOp(a, t, Old(c))
  <2>2. /\ op \in DeleteOps /\ op.do = "delete" /\ op.targets = {u}
        /\ op.mistaken = Matches(a, Old(c))
    BY <2>1, DropIs
  <2>3. ~Matches(a, Old(c)) => Obsolete(u)'
    <3>1. u = Target(c, a)
      BY <1>2, <2>1, NoneIsNoPair DEF Targets
    <3>2. ~Matches(a, Old(c)) => Obsolete(u)
      BY <1>2, <3>1, StaleIsObsolete DEF Old
    <3> QED
      BY <1>1, <3>2 DEF Obsolete
  <2> HIDE DEF op
  <2>4. op \in OpsInHand'
    <3>1. op.mistaken \/ \A v \in op.targets : Obsolete(v)'
      BY <2>2, <2>3 DEF Obsolete
    <3> QED
      BY <2>2, <3>1 DEF OpsInHand, AllOps
  <2> QED
    BY <2>4, SmallSeqs DEF op
<1>7. \E ops \in {<<>>, Rest(c), drop} :
        /\ call' \in {Applied(c, a, t, ops), Then(c, ops)}
        /\ ops \in Seq(OpsInHand) \/ ops \in Seq(OpsInHand')
  <2>1. \/ call' = Applied(c, a, t, Rest(c)) \/ call' = Then(c, <<>>)
        \/ call' = Then(c, Rest(c))
        \/ (call' = Then(c, drop) /\ Op(c).lost = "delete"
              /\ ~(Matches(a, Old(c)) /\ rows[a].thumb = t))
    BY <1>5 DEF Reread
  <2>2. <<>> \in Seq(OpsInHand)
    BY EmptyIsSeq
  <2> QED
    BY <1>4, <1>6, <2>1, <2>2
<1>8. PICK ops \in {<<>>, Rest(c), drop} :
        /\ call' \in {Applied(c, a, t, ops), Then(c, ops)}
        /\ ops \in Seq(OpsInHand) \/ ops \in Seq(OpsInHand')
  BY <1>7
<1>9. ops \in Seq(AllOps)
  <2>1. OpsInHand \subseteq AllOps /\ OpsInHand' \subseteq AllOps
    BY DEF OpsInHand
  <2> HIDE DEF drop
  <2> QED
    BY <1>8, <2>1, SeqGrows
<1> HIDE DEF drop
<1>10. PICK r \in {Left(c, ops), LeftReady(c, a, ops)} :
        /\ call' = [call EXCEPT ![c] = r] /\ r \in CallType /\ SameWork(r, call[c])
        /\ r.ops = ops
  <2>1. CASE call' = Then(c, ops)
    <3> DEFINE r == Left(c, ops)
    <3>1. /\ call' = [call EXCEPT ![c] = r] /\ r \in CallType /\ SameWork(r, call[c])
          /\ r.ops = ops
      BY <1>3, <1>9, <2>1, LeftIs
    <3> QED
      BY <3>1
  <2>2. CASE call' = Applied(c, a, t, ops)
    <3> DEFINE r == LeftReady(c, a, ops)
    <3>1. /\ call' = [call EXCEPT ![c] = r] /\ r \in CallType /\ SameWork(r, call[c])
          /\ r.ops = ops
      <4>1. r = LeftReady(c, a, ops) /\ a \in Assets
        BY <1>2
      <4> HIDE DEF r, a, t
      <4> QED
        BY <1>3, <1>9, <2>2, <4>1, LeftReadyIs
    <3> QED
      BY <3>1
  <2> QED
    BY <1>8, <2>1, <2>2
<1> QED
  BY <1>1, <1>3, <1>8, <1>10, OpHandFrame

LEMMA PublishReadyInHand ==
    ASSUME TrueInv, TypeOK', HandInv, NEW c \in Callers, PublishReady(c)
    PROVE  HandInv'
<1> DEFINE a == Op(c).a
           t == Op(c).thumb
<1>1. /\ call[c].ops # <<>> /\ Op(c).do = "publish"
      /\ UNCHANGED <<disk, highest, returned, stage, files, nextId, failures, clear, refused, pulled>>
  BY DEF PublishReady, AtOp, Op, disks, scheduler, history
<1>2. /\ a \in Known(c) /\ a \in Assets /\ Working(c) /\ t \in {None, Target(c, a)}
      /\ t \in Thumbs /\ Op(c) \in AllOps /\ Rest(c) \in Seq(AllOps)
  BY <1>1, OpFacts
<1>3. HandGrows /\ TypeOK
  BY <1>1, HandsKept DEF TrueInv
<1>4. Op(c) \in OpsInHand /\ Rest(c) \in Seq(OpsInHand)
  BY <1>1, OpHandFacts
<1>5. t \in Targets
  <2>1. Op(c) \in PublishOps
    BY <1>1, <1>2 DEF AllOps, CasOps, NoteOps, DeleteOps
  <2> QED
    BY <2>1 DEF PublishOps
<1>6. PICK u \in Targets : u = t
  BY <1>5
<1>7. u # None /\ u = Target(c, a)
  BY <1>2, <1>6, NoneIsNoPair DEF Targets
<1>8. CASE generation = call[c].gen /\ Matches(a, Old(c))
  <2> DEFINE r == LeftReady(c, a, Rest(c))
  <2>1. rows' = Put(rows, a, t) /\ call' = Applied(c, a, t, Rest(c))
    BY <1>8 DEF PublishReady
  <2>2. /\ call' = [call EXCEPT ![c] = r] /\ r \in CallType /\ SameWork(r, call[c])
        /\ r.ops = Rest(c)
    BY <1>2, <1>3, <2>1, LeftReadyIs
  <2>3. /\ rows'[a].thumb = t /\ \A b \in Assets \ {a} : rows'[b] = rows[b]
        /\ \A b \in Assets : rows'[b].id = rows[b].id /\ rows'[b].ver = rows[b].ver
    BY <1>1, <1>2, <1>8, <2>1, PutIs DEF Old
  <2>4. InHand(u)'
    BY <1>1, <1>4, <1>6, <1>7 DEF OpsInHand, InHand, Obsolete
  <2>5. \A b \in Assets : rows'[b].thumb # None =>
              rows'[b].thumb = rows[b].thumb \/ InHand(rows[b].thumb)'
    BY <1>6, <2>3, <2>4 DEF InHand, Obsolete
  <2> HIDE DEF r
  <2> QED
    BY <1>1, <1>3, <1>4, <2>2, <2>3, <2>5, OpHandFrame
<1>9. CASE ~(generation = call[c].gen /\ Matches(a, Old(c)))
  <2> DEFINE drop == <<DeleteOp({t})>>
             ops == drop \o Rest(c)
             r == LeftStale(c, a, ops)
  <2>1. rows' = rows /\ call' = Dropped(c, a, ops)
    BY <1>9 DEF PublishReady
  <2>2. ~Matches(a, Old(c))
    BY <1>2, <1>9 DEF TrueInv, CallOK, Locked, Active, Working
  <2>3. Obsolete(u)
    BY <1>2, <1>7, <2>2, StaleIsObsolete DEF Old
  <2>4. \A v \in {u} : Obsolete(v)'
    BY <1>1, <2>3 DEF Obsolete
  <2>5. drop \in Seq(OpsInHand')
    BY <1>6, <2>4, DropOps
  <2>6. Rest(c) \in Seq(OpsInHand')
    BY <1>3, <1>4, OpsGrow, SeqGrows
  <2>7. OpsInHand' \subseteq AllOps
    BY DEF OpsInHand
  <2> HIDE DEF drop
  <2>8. ops \in Seq(OpsInHand')
    BY <2>5, <2>6, ConcatIsSeq
  <2> HIDE DEF ops
  <2>9. ops \in Seq(AllOps)
    BY <2>7, <2>8, SeqGrows
  <2>10. /\ call' = [call EXCEPT ![c] = r] /\ r \in CallType /\ SameWork(r, call[c])
         /\ r.ops = ops
    <3>1. r = LeftStale(c, a, ops) /\ a \in Assets
      BY <1>2
    <3> HIDE DEF r, a, t
    <3> QED
      BY <1>3, <2>1, <2>9, <3>1, LeftStaleIs
  <2> HIDE DEF r
  <2> QED
    BY <1>1, <1>3, <2>1, <2>8, <2>10, OpHandFrame
<1> QED
  BY <1>8, <1>9

LEMMA NoteInHand ==
    ASSUME TrueInv, TypeOK', HandInv, NEW c \in Callers,
           Record(c) \/ ClearRecord(c) \/ Delete(c)
    PROVE  HandInv'
<1> DEFINE r == Left(c, Rest(c))
<1>1. /\ call[c].ops # <<>> /\ call' = Then(c, Rest(c))
      /\ UNCHANGED <<disk, highest, returned, stage, rows>>
      /\ \/ files' = files /\ pulled' = pulled
         \/ /\ Op(c).do = "delete" /\ files' = files \ Op(c).targets
            /\ pulled' = IF Op(c).mistaken THEN pulled \cup Op(c).targets ELSE pulled
  BY DEF Record, ClearRecord, Delete, AtOp, Op, disks, table, scheduler, history
<1>2. Rest(c) \in Seq(AllOps) /\ TypeOK
  BY <1>1, OpFacts DEF TrueInv
<1>3. Op(c) \in OpsInHand /\ Rest(c) \in Seq(OpsInHand)
  BY <1>1, OpHandFacts
<1>4. HandGrows
  <2>1. \A t \in files \cup pulled : t \in files' \cup pulled' \/ Obsolete(t)
    BY <1>1, <1>3 DEF OpsInHand
  <2> QED
    BY <1>1, <1>2, <2>1, HandsKept
<1>5. /\ call' = [call EXCEPT ![c] = r] /\ r \in CallType /\ SameWork(r, call[c])
      /\ r.ops = Rest(c)
  BY <1>1, <1>2, LeftIs
<1> HIDE DEF r
<1> QED
  BY <1>1, <1>3, <1>4, <1>5, OpHandFrame

\* The transaction of a page writes files in hand, and drops obsolete ones.
LEMMA PublishInHand ==
    ASSUME TrueInv, TypeOK', HandInv, NEW c \in Callers, Publish(c)
    PROVE  HandInv'
<1> DEFINE r == Published(c)
           lost == LostFiles(c)
<1>1. /\ call' = [call EXCEPT ![c] = r] /\ r \in CallType
      /\ r.at \in {"page", "finish"}
      /\ r.ops \in {<<>>, <<DeleteOp(lost)>>}
      /\ r.updates = {} /\ r.snap = <<>>
  BY PublishedIs
<1> HIDE DEF r
<1>2. /\ UNCHANGED <<disk, highest, returned, stage, files, pulled>> /\ TypeOK /\ CallOK(c)
      /\ CallInHand(c) /\ call[c] \in CallType
  BY DEF Publish, disks, scheduler, history, TrueInv, TypeOK, HandInv
<1>3. /\ Working(c) /\ PublishFacts(c) /\ lost \subseteq Targets
      /\ \A a \in Assets : rows'[a].id = rows[a].id /\ rows'[a].ver = rows[a].ver
  BY PublishWrites
<1>4. call'[c] = r /\ \A d \in Callers \ {c} : call'[d] = call[d]
  BY <1>1, <1>2, CallTakes
<1>5. HandGrows
  BY <1>2, HandsKept
<1>6. \A t \in lost : Obsolete(t)'
  <2> TAKE t \in lost
  <2>1. PICK u \in Lost(c) : u.thumb # None /\ t = u.thumb
    BY DEF LostFiles
  <2>2. /\ u \in call[c].updates /\ u.a \in Known(c) /\ u.thumb \in {None, Target(c, u.a)}
        /\ generation # call[c].gen \/ ~Matches(u.a, call[c].snap[u.a])
    BY <1>2, <2>1 DEF Lost, CallOK, OwnItems
  <2>3. ~Matches(u.a, call[c].snap[u.a])
    BY <1>2, <1>3, <2>2 DEF CallOK, Locked, Active, Working
  <2>4. Obsolete(t)
    BY <2>1, <2>2, <2>3, StaleIsObsolete
  <2> QED
    BY <1>2, <2>4 DEF Obsolete
<1>7. r.ops \in Seq(OpsInHand')
  <2>1. <<DeleteOp(lost)>> \in Seq(OpsInHand')
    BY <1>3, <1>6, DropOps
  <2> QED
    BY <1>1, <2>1, EmptyIsSeq
<1>8. CallInHand(c)'
  <2>1. SnapInHand(c)' /\ UpdatesInHand(c)' /\ InboxInHand(c)'
    BY <1>1, <1>4, EmptySnap DEF SnapInHand, Known, UpdatesInHand, InboxInHand, Working
  <2> QED
    BY <1>4, <1>7, <2>1 DEF CallInHand
<1>9. ASSUME NEW a \in Assets, rows'[a].thumb # None
      PROVE  rows'[a].thumb = rows[a].thumb \/ InHand(rows[a].thumb)'
  <2>1. CASE rows'[a] = rows[a]
    BY <2>1
  <2>2. CASE \E u \in call[c].updates : rows'[a].thumb = u.thumb
    <3>1. PICK u \in call[c].updates : rows'[a].thumb = u.thumb
      BY <2>2
    <3>2. InHand(u.thumb)
      BY <1>2, <1>9, <3>1 DEF CallInHand, UpdatesInHand
    <3> QED
      BY <1>2, <3>1, <3>2 DEF InHand, Obsolete
  <2> QED
    BY <1>3, <2>1, <2>2 DEF PublishFacts
<1> QED
  BY <1>2, <1>3, <1>4, <1>5, <1>8, <1>9, CallerHandFrame

-----------------------------------------------------------------------------
(* The second layer, as a whole                                            *)

LEMMA StartInHand ==
    ASSUME Init PROVE HandInv
<1>1. \A a \in Assets : disk[a] = 1 /\ highest[a] = 1 /\ rows[a].ver = 1 /\ rows[a].thumb = None
  BY DEF Init
<1>2. \A c \in Callers : CallInHand(c)
  <2> TAKE c \in Callers
  <2>1. call[c] = NewCall
    BY DEF Init
  <2>2. Known(c) = {}
    BY <2>1, NewCallType, EmptySnap DEF Known
  <2> QED
    BY <2>1, <2>2, NewCallType
       DEF CallInHand, SnapInHand, UpdatesInHand, InboxInHand, Working
<1>3. StageInHand
  BY DEF Init, StageInHand
<1> QED
  BY <1>1, <1>2, <1>3 DEF HandInv, RowInHand

LEMMA StutterInHand ==
    ASSUME TrueInv, TypeOK', HandInv, UNCHANGED <<disk, highest, returned, stage, files, rows, call, pulled>>
    PROVE  HandInv'
<1>1. HandGrows
  BY HandsKept DEF TrueInv
<1>2. \A c \in Callers : CallInHand(c)'
  BY <1>1, OtherInHand DEF HandInv
<1> QED
  BY <1>1, <1>2, HandFrame DEF HandInv, RowInHand

LEMMA NextInHand ==
    ASSUME TrueInv, TrueInv', HandInv, Next PROVE HandInv'
<1>1. TypeOK'
  BY DEF TrueInv
<1>2. CASE Environment
  <2>1. CASE CancelRender
    BY <1>1, <2>1, StutterInHand DEF CancelRender, disks, table, scheduler, history
  <2> QED
    BY <1>1, <1>2, <2>1, DiskInHand, ScanInHand, RemoveInHand DEF Environment
<1>3. CASE \E c \in Callers : Begin(c) \/ Step(c) \/ TimeOut(c)
  <2>1. PICK c \in Callers : Begin(c) \/ Step(c) \/ TimeOut(c)
    BY <1>3
  <2>2. CASE Begin(c)
    BY <1>1, <2>2, BeginInHand
  <2>3. CASE Step(c)
    <3>1. CASE \E a \in call[c].todo :
                 \/ VisitExisting(c, a) \/ VisitMissing(c, a) \/ VisitTarget(c, a)
                 \/ VisitSkip(c, a) \/ VisitEnqueue(c, a)
      BY <1>1, <3>1, VisitExistingInHand, VisitMissingInHand, VisitTargetInHand,
         VisitWaitInHand
    <3>2. CASE \E result \in call[c].inbox : TakeResult(c, result)
      BY <1>1, <3>2, TakeResultInHand
    <3>3. CASE BulkPage(c) \/ NoticeCancel(c) \/ Publish(c) \/ Finish(c)
      BY <1>1, <3>3, BulkPageInHand, NoticeCancelInHand, PublishInHand, FinishInHand
    <3>4. CASE \/ Cas(c) \/ Reread(c) \/ PublishReady(c)
               \/ Record(c) \/ ClearRecord(c) \/ Delete(c)
      BY <1>1, <3>4, CasInHand, RereadInHand, PublishReadyInHand, NoteInHand
    <3> QED
      BY <2>3, <3>1, <3>2, <3>3, <3>4 DEF Step
  <2>4. CASE TimeOut(c)
    BY <1>1, <2>4, FinishInHand
  <2> QED
    BY <2>1, <2>2, <2>3, <2>4
<1>4. CASE \E t \in DOMAIN jobs : Render(t) \/ LookAtTarget(t) \/ Answer(t)
  BY <1>1, <1>4, RenderInHand, AnswerInHand
<1>5. CASE Clear
  BY <1>5, ClearInHand
<1> QED
  BY <1>2, <1>3, <1>4, <1>5 DEF Next

LEMMA AlwaysInHand == Spec => []HandInv
<1>1. Init => HandInv
  BY StartInHand
<1>2. TrueInv /\ TrueInv' /\ HandInv /\ [Next]_vars => HandInv'
  <2>1. TrueInv' => TypeOK'
    BY DEF TrueInv
  <2> QED
    BY <2>1, NextInHand, StutterInHand DEF vars
<1> QED
  BY <1>1, <1>2, AlwaysTrue, PTL DEF Spec

(* No caller, sweep or clean-up takes away a thumbnail somebody can show:  *)
(* a row that is up to date names a file that is there.  Until the file is *)
(* rendered again, two cases are excepted, and the runs show both: it went *)
(* between the worker's last look and its answer, or a demand took a       *)
(* concurrent demand's NULL for a re-index.                                *)
THEOREM PublishedFilesSurvive == Spec => []PublishedFileSurvives
<1>1. TrueInv /\ HandInv => PublishedFileSurvives
  <2> SUFFICES ASSUME TrueInv, HandInv, NEW a \in Assets \ returned,
                      rows[a].thumb # None, disk[a] = rows[a].ver
               PROVE  rows[a].thumb \in files \cup pulled
    BY DEF PublishedFileSurvives
  <2>1. RowOK(a) /\ RowInHand(a)
    BY DEF TrueInv, HandInv
  <2>2. rows[a].thumb = <<a, rows[a].ver>>
    BY <2>1 DEF RowOK, NoRow, thumb_target
  <2> QED
    BY <2>1, <2>2 DEF RowInHand, InHand, Obsolete
<1> QED
  BY <1>1, AlwaysTrue, AlwaysInHand, PTL

-----------------------------------------------------------------------------
(* The third layer: every asset is answered once                           *)

\* A row keeps its id, loses it, or gets one nobody had.
Moves ==
    /\ nextId <= nextId'
    /\ \A a \in Assets : rows'[a].id \in {rows[a].id, 0} \/ rows'[a].id >= nextId

LEMMA SameRowsMove ==
    ASSUME TypeOK, UNCHANGED <<rows, nextId>> PROVE Moves
BY DEF Moves, TypeOK

LEMMA StepMoves ==
    ASSUME TrueInv, NEW c \in Callers, Step(c)
    PROVE  Moves
<1>1. nextId \in Nat /\ TypeOK
  BY DEF TrueInv, TypeOK
<1>2. CASE UNCHANGED <<rows, nextId>>
  BY <1>1, <1>2, SameRowsMove
<1>3. CASE Publish(c)
  <2>1. \A a \in Assets : rows'[a].id = rows[a].id
    BY <1>3, PublishWrites
  <2>2. nextId' = nextId
    BY <1>3 DEF Publish
  <2> QED
    BY <1>1, <2>1, <2>2 DEF Moves
<1>4. CASE (Cas(c) \/ PublishReady(c)) /\ ~UNCHANGED <<rows, nextId>>
  <2> DEFINE a == Op(c).a
             t == Op(c).thumb
  <2>1. /\ nextId' = nextId /\ call[c].ops # <<>> /\ Op(c).do \in {"cas", "publish"}
        /\ rows' = Put(rows, a, t)
    BY <1>4 DEF Cas, PublishReady, AtOp, Op
  <2>2. a \in Assets
    BY <2>1, OpFacts
  <2>3. rows \in [Assets -> Rows]
    BY <1>1 DEF TypeOK
  <2>4. rows' = [rows EXCEPT ![a] = [rows[a] EXCEPT !.thumb = t]]
    BY <2>1 DEF Put
  <2> HIDE DEF a, t
  <2>5. [rows[a] EXCEPT !.thumb = t].id = rows[a].id
    BY <2>2, <2>3 DEF Rows
  <2> DEFINE q == [rows[a] EXCEPT !.thumb = t]
  <2>6. rows' = [rows EXCEPT ![a] = q] /\ q.id = rows[a].id
    BY <2>4, <2>5
  <2> HIDE DEF q
  <2>7. \A b \in Assets : rows'[b].id = rows[b].id
    BY <2>2, <2>3, <2>6
  <2> QED
    BY <1>1, <2>1, <2>7 DEF Moves
<1>5. UNCHANGED <<rows, nextId>> \/ Publish(c) \/ Cas(c) \/ PublishReady(c)
  BY DEF Step, VisitExisting, VisitMissing, VisitTarget, VisitSkip, VisitEnqueue, TakeResult,
         BulkPage, NoticeCancel, Finish, Reread, Record, ClearRecord, Delete, OnlyCalls, table
<1> QED
  BY <1>2, <1>3, <1>4, <1>5

LEMMA RowsMove ==
    ASSUME TrueInv, Next PROVE Moves
<1>1. nextId \in Nat /\ TypeOK /\ \A a \in Assets : rows[a].id \in Nat
  BY DEF TrueInv, TypeOK, Rows
<1>2. CASE UNCHANGED <<rows, nextId>>
  BY <1>1, <1>2, SameRowsMove
<1>3. ASSUME NEW a \in Assets, ScanIndex(a) \/ ScanPrune(a) \/ RemoveAsset(a) PROVE Moves
  <2>1. /\ \A b \in Assets \ {a} : rows'[b] = rows[b]
        /\ \/ rows'[a] = NoRow /\ nextId' = nextId
           \/ rows'[a].id = nextId /\ nextId' = nextId + 1
           \/ rows'[a].id = rows[a].id /\ nextId' = nextId
    <3>1. CASE ScanPrune(a) \/ RemoveAsset(a)
      BY <1>1, <3>1 DEF ScanPrune, RemoveAsset, TypeOK
    <3>2. CASE ScanIndex(a) /\ rows[a] = NoRow
      BY <1>1, <3>2 DEF ScanIndex, TypeOK
    <3>3. CASE ScanIndex(a) /\ rows[a] # NoRow
      BY <1>1, <3>3 DEF ScanIndex, TypeOK
    <3> QED
      BY <1>3, <3>1, <3>2, <3>3
  <2> QED
    BY <1>1, <2>1 DEF Moves, NoRow
<1>4. CASE Environment
  <2>1. \/ UNCHANGED <<rows, nextId>>
        \/ \E a \in Assets : ScanIndex(a) \/ ScanPrune(a) \/ RemoveAsset(a)
    BY <1>4 DEF Environment, EditFile, LoseFile, CancelRender, table
  <2> QED
    BY <1>2, <1>3, <2>1
<1>5. ASSUME NEW c \in Callers, Begin(c) \/ Step(c) \/ TimeOut(c) PROVE Moves
  <2>1. UNCHANGED <<rows, nextId>> \/ Step(c)
    BY <1>5 DEF Begin, BeginDemand, BeginPage, BeginBulk, RefuseBulk, TimeOut, OnlyCalls, table
  <2> QED
    BY <1>2, <2>1, StepMoves
<1>6. CASE \E t \in DOMAIN jobs : Render(t) \/ LookAtTarget(t) \/ Answer(t)
  BY <1>2, <1>6 DEF Render, LookAtTarget, Answer, table
<1>7. CASE Clear
  <2>1. UNCHANGED <<rows, nextId>> \/ ClearRows
    BY <1>7 DEF Clear, ClearBegin, ClearFailures, ClearList, ClearSweep, table
  <2>2. CASE ClearRows
    <3>1. \A a \in Assets : rows'[a].id = rows[a].id
      BY <1>1, <2>2 DEF ClearRows, TypeOK, Rows
    <3> QED
      BY <1>1, <2>2, <3>1 DEF Moves, ClearRows
  <2> QED
    BY <1>2, <2>1, <2>2
<1> QED
  BY <1>4, <1>5, <1>6, <1>7 DEF Next

\* What a caller counts depends on nothing another one does.
LEMMA PagingFrame ==
    ASSUME TypeOK, Moves, NEW c \in Callers, Paging(c), call'[c].kind = call[c].kind,
           Active(c), call'[c].ceiling = call[c].ceiling, call'[c].after = call[c].after,
           call'[c].seen = call[c].seen, TypeOK'
    PROVE  Paging(c)'
<1>1. /\ call[c].ceiling \in Nat /\ call[c].after \in Nat /\ call[c].seen \subseteq Assets
      /\ nextId \in Nat /\ nextId' \in Nat
      /\ \A a \in Assets : rows[a].id \in Nat /\ rows'[a].id \in Nat
  BY DEF TypeOK, CallType, Rows
<1>2. CASE Bulk(c)
  <2>1. /\ call[c].ceiling < nextId
        /\ \A a \in call[c].seen : rows[a].id <= call[c].after \/ rows[a].id > call[c].ceiling
    BY <1>2 DEF Paging
  <2>2. \A a \in call[c].seen : rows'[a].id <= call[c].after \/ rows'[a].id > call[c].ceiling
    BY <1>1, <2>1 DEF Moves
  <2> QED
    BY <1>1, <2>1, <2>2 DEF Paging, Moves
<1>3. CASE ~Bulk(c)
  BY <1>3 DEF Paging, Bulk
<1> QED
  BY <1>2, <1>3

LEMMA OtherCounted ==
    ASSUME TypeOK, TypeOK', Moves, NEW c \in Callers, Counted(c), call'[c] = call[c]
    PROVE  Counted(c)'
<1>1. Kindly(c)' = Kindly(c)
  BY DEF Kindly
<1>2. CountOK(c)'
  BY DEF Counted, CountOK, Counts, AnsweredOnce, Bulk, Working, Open, Settled, Busy, Publishing
<1>3. Paging(c)'
  <2>1. CASE Active(c)
    BY <2>1, PagingFrame DEF Counted
  <2>2. CASE ~Active(c)
    BY <2>2 DEF Paging, Active
  <2> QED
    BY <2>1, <2>2
<1> QED
  BY <1>1, <1>2, <1>3 DEF Counted, Active

LEMMA CountFrame ==
    ASSUME TypeOK, TypeOK', Moves, CountInv, NEW c \in Callers,
           \A d \in Callers \ {c} : call'[d] = call[d], Counted(c)'
    PROVE  CountInv'
BY OtherCounted DEF CountInv

\* The frame of a step inside a call.
LEMMA WorkCounted ==
    ASSUME TypeOK, TypeOK', Moves, CountInv, NEW c \in Callers,
           NEW r \in CallType, call' = [call EXCEPT ![c] = r],
           Active(c) \/ r.at = call[c].at,
           r.kind = call[c].kind, r.seen = call[c].seen, r.after = call[c].after,
           r.ceiling = call[c].ceiling, r.ops \in Seq(Kindly(c)),
           r.ops # <<>> => Tail(r.ops) \in Seq(Later), CountOK(c)'
    PROVE  CountInv'
<1>1. call'[c] = r /\ \A d \in Callers \ {c} : call'[d] = call[d]
  BY CallTakes
<1>2. Kindly(c)' = Kindly(c)
  BY <1>1 DEF Kindly
<1>3. Paging(c)'
  <2>1. CASE Active(c)
    BY <1>1, <2>1, PagingFrame DEF CountInv, Counted
  <2>2. CASE ~Active(c)
    BY <1>1, <2>2 DEF Paging, Active
  <2> QED
    BY <2>1, <2>2
<1>4. Counted(c)'
  BY <1>1, <1>2, <1>3 DEF CountInv, Counted, Active
<1> QED
  BY <1>1, <1>4, CountFrame

LEMMA BusyIs ==
    ASSUME NEW c \in Callers
    PROVE  /\ Publishing(c) => Busy(c) = {Head(call[c].ops).a}
           /\ ~Publishing(c) => Busy(c) = {}
           /\ call[c].ops = <<>> => Busy(c) = {}
BY DEF Busy, Publishing

LEMMA LaterFacts ==
    ASSUME NEW s \in Seq(Later), s # <<>>
    PROVE  Head(s).do # "publish" /\ Tail(s) \in Seq(Later)
BY HeadAndTail DEF Later

\* What of a call the counting of its assets goes by, besides the assets.
SameCount(c) ==
    /\ call'[c].kind = call[c].kind /\ call'[c].at = call[c].at
    /\ call'[c].cancelled = call[c].cancelled /\ call'[c].seen = call[c].seen
    /\ Busy(c)' \cap (call'[c].todo \cup call'[c].pend) = {}

\* A caller goes on with the same assets open.
LEMMA OpenKept ==
    ASSUME NEW c \in Callers, CountOK(c), Working(c), SameCount(c),
           Open(c)' = Open(c), call'[c].updates = call[c].updates,
           call'[c].ready = call[c].ready, call'[c].failed = call[c].failed,
           call'[c].stale = call[c].stale, call'[c].skipped = call[c].skipped
    PROVE  CountOK(c)'
<1> SUFFICES ASSUME Counts(c) PROVE CountOK(c)'
  BY DEF CountOK, Counts, SameCount
<1>1. Settled(c)' = Settled(c) /\ AnsweredOnce(c)' = AnsweredOnce(c)
  BY DEF Settled, AnsweredOnce
<1> QED
  BY <1>1 DEF CountOK, Counts, Bulk, Working, SameCount

\* An open asset gets its one answer.
LEMMA OneSettled ==
    ASSUME NEW c \in Callers, CountOK(c), Working(c), SameCount(c), NEW a \in Open(c),
           Open(c)' = Open(c) \ {a}, NEW ready \in {{}, {a}}, NEW failed \in {{}, {a}},
           NEW stale \in {{}, {a}}, NEW skipped \in {{}, {a}},
           call'[c].ready = call[c].ready \cup ready,
           call'[c].failed = call[c].failed \cup failed,
           call'[c].stale = call[c].stale \cup stale,
           call'[c].skipped = call[c].skipped \cup skipped,
           ready \cup failed \cup stale \cup skipped = {a},
           ready \cap failed = {}, (ready \cup failed) \cap stale = {},
           (ready \cup failed \cup stale) \cap skipped = {},
           NEW t, \/ call'[c].updates = call[c].updates
                  \/ call'[c].updates = call[c].updates \cup {Update(a, t)}
                       /\ ready \cup failed = {a}
    PROVE  CountOK(c)'
<1> SUFFICES ASSUME Counts(c) PROVE CountOK(c)'
  BY DEF CountOK, Counts, SameCount
<1>1. /\ AnsweredOnce(c) /\ Open(c) \cap Settled(c) = {} /\ a \notin Settled(c)
      /\ call[c].cancelled \/ call[c].seen = Open(c) \cup Settled(c)
      /\ \A u \in call[c].updates : u.a \in call[c].ready \cup call[c].failed
      /\ \A u, v \in call[c].updates : u.a = v.a => u = v
  BY DEF CountOK
<1>2. Settled(c)' = Settled(c) \cup {a}
  BY DEF Settled
<1>3. AnsweredOnce(c)'
  BY <1>1 DEF AnsweredOnce, Settled
<1>4. Open(c)' \cap Settled(c)' = {}
  BY <1>1, <1>2
<1>5. call[c].cancelled \/ call[c].seen = Open(c)' \cup Settled(c)'
  BY <1>1, <1>2
<1>6. /\ \A u \in call'[c].updates : u.a \in call'[c].ready \cup call'[c].failed
      /\ \A u, v \in call'[c].updates : u.a = v.a => u = v
  <2>1. Update(a, t).a = a
    BY DEF Update
  <2>2. \A u \in call[c].updates : u.a # a
    BY <1>1 DEF Settled
  <2> QED
    BY <1>1, <2>1, <2>2
<1> QED
  BY <1>3, <1>4, <1>5, <1>6 DEF CountOK, Counts, Bulk, Working, SameCount

-----------------------------------------------------------------------------
(* The operations a caller is left with, as the counting sees them         *)

\* Operations that answer nothing.
Quiet == NoteOps \cup DeleteOps

LEMMA QuietOps ==
    ASSUME NEW c \in Callers
    PROVE  /\ Quiet \subseteq Later /\ Quiet \subseteq Kindly(c)
           /\ \A s \in Seq(Quiet) : /\ s \in Seq(Kindly(c)) /\ s \in Seq(Later)
                                    /\ s \in Seq(AllOps)
<1>1. Quiet \subseteq Later /\ Quiet \subseteq Kindly(c) /\ Quiet \subseteq AllOps
  BY DEF Quiet, Later, Kindly, AllOps, NoteOps, DeleteOps
<1> QED
  BY <1>1, SeqGrows

LEMMA QuietOnes ==
    ASSUME NEW a \in Assets
    PROVE  /\ NoteOp(a, TRUE) \in Quiet /\ NoteOp(a, FALSE) \in Quiet
           /\ \A ok \in BOOLEAN : NoteOp(a, ok) \in Quiet
           /\ \A T \in SUBSET Targets : DeleteOp(T) \in Quiet
BY DEF Quiet, NoteOp, NoteOps, DeleteOp, DeleteOps

\* A first operation and what follows it.
LEMMA FirstOp ==
    ASSUME NEW c \in Callers, NEW x \in Kindly(c), NEW s \in Seq(Quiet), NEW l, l = <<x>> \o s
    PROVE  /\ l \in Seq(Kindly(c)) /\ l # <<>> /\ Head(l) = x /\ Tail(l) = s
           /\ Tail(l) \in Seq(Later)
<1>1. s \in Seq(Kindly(c)) /\ s \in Seq(Later)
  BY QuietOps
<1>2. l \in Seq(Kindly(c)) /\ l # <<>> /\ Head(l) = x /\ Tail(l) = s
  BY <1>1
<1> QED
  BY <1>1, <1>2

LEMMA TwoOps ==
    ASSUME NEW S, NEW x \in S, NEW y \in S
    PROVE  <<x, y>> = <<x>> \o <<y>>
<1> DEFINE p == <<x, y>>
           q == <<x>> \o <<y>>
<1>1. <<x>> \in Seq(S) /\ <<y>> \in Seq(S)
  BY SmallSeqs
<1>2. p \in Seq(S) /\ q \in Seq(S) /\ Len(p) = 2 /\ Len(q) = 2
  BY <1>1
<1>3. p[1] = x /\ p[2] = y /\ q[1] = x /\ q[2] = y
  BY <1>1
<1>4. \A i \in 1 .. Len(p) : p[i] = q[i]
  BY <1>2, <1>3
<1> HIDE DEF p, q
<1>5. p = q
  BY <1>2, <1>4, SeqEqual
<1> QED
  BY <1>5 DEF p, q

\* Only a demand runs a compare-and-set, only a page publishes at once.
LEMMA KindlyOnes ==
    ASSUME NEW c \in Callers, NEW a \in Assets
    PROVE  /\ call[c].kind = "demand" =>
                \A t \in Thumbs, l \in {"go on", "delete", "stop"} :
                   (l = "delete" => t # None) =>
                      CasOp(a, t, l) \in Kindly(c) /\ RereadOp(a, t, l) \in Kindly(c)
           /\ call[c].kind = "page" => \A t \in Targets : PublishOp(a, t) \in Kindly(c)
<1>1. \A t \in Thumbs, l \in {"go on", "delete", "stop"} :
        (l = "delete" => t # None) =>
           /\ CasOp(a, t, l) \in AllOps /\ CasOp(a, t, l).do = "cas"
           /\ RereadOp(a, t, l) \in AllOps /\ RereadOp(a, t, l).do = "reread"
  BY DEF CasOp, RereadOp, CasOps, AllOps
<1>2. \A t \in Targets : PublishOp(a, t) \in AllOps /\ PublishOp(a, t).do = "publish"
  BY DEF PublishOp, PublishOps, AllOps
<1> QED
  BY <1>1, <1>2 DEF Kindly

-----------------------------------------------------------------------------
(* Visits and results                                                      *)

\* An ensure_asset_thumbnail call counts nothing.
LEMMA DemandCounted ==
    ASSUME TypeOK, TypeOK', Moves, CountInv, NEW c \in Callers, Active(c),
           call[c].kind = "demand", NEW r \in CallType, call' = [call EXCEPT ![c] = r],
           r.kind = call[c].kind, r.seen = call[c].seen, r.after = call[c].after,
           r.ceiling = call[c].ceiling, r.ops \in Seq(Kindly(c)),
           r.ops # <<>> => Tail(r.ops) \in Seq(Later)
    PROVE  CountInv'
<1>1. call'[c] = r
  BY CallTakes
<1>2. CountOK(c)'
  BY <1>1 DEF CountOK, Counts
<1> QED
  BY <1>2, WorkCounted

\* What a step does to the one asset it answers.
Answered(c, a, r) ==
    \/ /\ r.ready = call[c].ready \cup {a} /\ r.failed = call[c].failed
       /\ r.skipped = call[c].skipped
       /\ r.updates = call[c].updates \cup {Update(a, Target(c, a))}
    \/ /\ r.ready = call[c].ready /\ r.failed = call[c].failed \cup {a}
       /\ r.skipped = call[c].skipped
       /\ r.updates = call[c].updates \cup {Update(a, None)}
    \/ /\ r.ready = call[c].ready /\ r.failed = call[c].failed
       /\ r.skipped = call[c].skipped \cup {a} /\ r.updates = call[c].updates

LEMMA AnswerCounted ==
    ASSUME TypeOK, TypeOK', Moves, CountInv, NEW c \in Callers, Working(c),
           call[c].ops = <<>>, NEW a \in call[c].todo \cup call[c].pend,
           NEW r \in CallType, call' = [call EXCEPT ![c] = r], SameCall(r, call[c]),
           r.todo \cup r.pend = (call[c].todo \cup call[c].pend) \ {a},
           r.ops \in Seq(Quiet), Answered(c, a, r)
    PROVE  CountInv'
<1>1. call'[c] = r
  BY CallTakes
<1>2. CountOK(c) /\ Active(c)
  BY DEF CountInv, Counted, Working, Active
<1>3. r.ops \in Seq(Kindly(c)) /\ r.ops \in Seq(Later)
  BY QuietOps
<1>4. r.ops # <<>> => Head(r.ops).do # "publish" /\ Tail(r.ops) \in Seq(Later)
  BY <1>3, LaterFacts
<1>5. Busy(c) = {} /\ Busy(c)' = {}
  BY <1>1, <1>4 DEF Busy, Publishing
<1>6. Open(c) = call[c].todo \cup call[c].pend /\ Open(c)' = Open(c) \ {a} /\ a \in Open(c)
  BY <1>1, <1>5 DEF Open
<1>7. SameCount(c)
  BY <1>1, <1>5 DEF SameCount, SameCall
<1>8. call'[c].stale = call[c].stale \cup {}
  BY <1>1 DEF SameCall
<1>9. \E ready, failed, skipped \in {{}, {a}}, t \in {None, Target(c, a)} :
        /\ call'[c].ready = call[c].ready \cup ready
        /\ call'[c].failed = call[c].failed \cup failed
        /\ call'[c].skipped = call[c].skipped \cup skipped
        /\ ready \cup failed \cup {} \cup skipped = {a}
        /\ ready \cap failed = {} /\ (ready \cup failed) \cap {} = {}
        /\ (ready \cup failed \cup {}) \cap skipped = {}
        /\ \/ call'[c].updates = call[c].updates
           \/ call'[c].updates = call[c].updates \cup {Update(a, t)} /\ ready \cup failed = {a}
  <2>1. CASE /\ r.ready = call[c].ready \cup {a} /\ r.failed = call[c].failed
             /\ r.skipped = call[c].skipped
             /\ r.updates = call[c].updates \cup {Update(a, Target(c, a))}
    <3>1. /\ call'[c].ready = call[c].ready \cup {a} /\ call'[c].failed = call[c].failed \cup {}
          /\ call'[c].skipped = call[c].skipped \cup {}
      BY <1>1, <2>1
    <3> QED
      BY <1>1, <2>1, <3>1
  <2>2. CASE /\ r.ready = call[c].ready /\ r.failed = call[c].failed \cup {a}
             /\ r.skipped = call[c].skipped
             /\ r.updates = call[c].updates \cup {Update(a, None)}
    <3>1. /\ call'[c].ready = call[c].ready \cup {} /\ call'[c].failed = call[c].failed \cup {a}
          /\ call'[c].skipped = call[c].skipped \cup {}
      BY <1>1, <2>2
    <3> QED
      BY <1>1, <2>2, <3>1
  <2>3. CASE /\ r.ready = call[c].ready /\ r.failed = call[c].failed
             /\ r.skipped = call[c].skipped \cup {a} /\ r.updates = call[c].updates
    <3>1. /\ call'[c].ready = call[c].ready \cup {} /\ call'[c].failed = call[c].failed \cup {}
          /\ call'[c].skipped = call[c].skipped \cup {a}
      BY <1>1, <2>3
    <3> QED
      BY <1>1, <2>3, <3>1
  <2> QED
    BY <2>1, <2>2, <2>3 DEF Answered
<1>10. CountOK(c)'
  <2>1. PICK ready \in {{}, {a}}, failed \in {{}, {a}}, skipped \in {{}, {a}},
             t \in {None, Target(c, a)} :
        /\ call'[c].ready = call[c].ready \cup ready
        /\ call'[c].failed = call[c].failed \cup failed
        /\ call'[c].skipped = call[c].skipped \cup skipped
        /\ ready \cup failed \cup {} \cup skipped = {a}
        /\ ready \cap failed = {} /\ (ready \cup failed) \cap {} = {}
        /\ (ready \cup failed \cup {}) \cap skipped = {}
        /\ \/ call'[c].updates = call[c].updates
           \/ call'[c].updates = call[c].updates \cup {Update(a, t)} /\ ready \cup failed = {a}
    BY <1>9
  <2>2. {} \in {{}, {a}}
    OBVIOUS
  <2> QED
    BY <1>2, <1>6, <1>7, <1>8, <2>1, <2>2, OneSettled

<1> QED
  BY <1>2, <1>3, <1>4, <1>10, WorkCounted DEF SameCall

\* The asset stays open: it waits for a render or for its transaction.
LEMMA WaitCounted ==
    ASSUME TypeOK, TypeOK', Moves, CountInv, NEW c \in Callers, Working(c),
           call[c].ops = <<>>, NEW a \in call[c].todo \cup call[c].pend,
           NEW r \in CallType, call' = [call EXCEPT ![c] = r], SameCall(r, call[c]),
           r.updates = call[c].updates, r.ready = call[c].ready,
           r.failed = call[c].failed, r.skipped = call[c].skipped,
           r.ops \in Seq(Kindly(c)), r.ops # <<>> => Tail(r.ops) \in Seq(Later),
           \/ /\ r.ops = <<>>
              /\ r.todo \cup r.pend = call[c].todo \cup call[c].pend
           \/ /\ r.ops # <<>> /\ Head(r.ops).do = "publish" /\ Head(r.ops).a = a
              /\ r.todo \cup r.pend = (call[c].todo \cup call[c].pend) \ {a}
    PROVE  CountInv'
<1>1. call'[c] = r
  BY CallTakes
<1>2. CountOK(c) /\ Active(c)
  BY DEF CountInv, Counted, Working, Active
<1>3. Busy(c) = {}
  BY DEF Busy, Publishing
<1>4. /\ Busy(c)' \cup r.todo \cup r.pend = call[c].todo \cup call[c].pend
      /\ Busy(c)' \cap (r.todo \cup r.pend) = {}
  <2>1. CASE /\ r.ops = <<>>
             /\ r.todo \cup r.pend = call[c].todo \cup call[c].pend
    <3>1. Busy(c)' = {}
      BY <1>1, <2>1 DEF Busy, Publishing
    <3> QED
      BY <2>1, <3>1
  <2>2. CASE /\ r.ops # <<>> /\ Head(r.ops).do = "publish" /\ Head(r.ops).a = a
             /\ r.todo \cup r.pend = (call[c].todo \cup call[c].pend) \ {a}
    <3>1. Busy(c)' = {a}
      BY <1>1, <2>2 DEF Busy, Publishing
    <3> QED
      BY <2>2, <3>1
  <2> QED
    BY <2>1, <2>2
<1>5. Open(c)' = Open(c)
  BY <1>1, <1>3, <1>4 DEF Open
<1>6. SameCount(c)
  BY <1>1, <1>4 DEF SameCount, SameCall
<1>7. CountOK(c)'
  BY <1>1, <1>2, <1>5, <1>6, OpenKept DEF SameCall
<1> QED
  BY <1>2, <1>7, WorkCounted DEF SameCall

LEMMA VisitExistingCounted ==
    ASSUME TrueInv, TypeOK', Moves, CountInv, NEW c \in Callers, NEW a \in call[c].todo,
           VisitExisting(c, a)
    PROVE  CountInv'
<1> DEFINE t == ReadThumb(c, a)
           first == IF call[c].kind = "demand" THEN CasOp(a, t, "stop") ELSE PublishOp(a, t)
           ops == IF call[c].kind = "demand"
                  THEN <<CasOp(a, ReadThumb(c, a), "stop"), NoteOp(a, TRUE)>>
                  ELSE <<PublishOp(a, ReadThumb(c, a)), NoteOp(a, TRUE)>>
           r == Handled(c, a, ops)
           note == <<NoteOp(a, TRUE)>>
<1>1. /\ Visits(c, a) /\ ~Bulk(c) /\ call' = [call EXCEPT ![c] = r] /\ t # None
  BY DEF VisitExisting, HasExisting
<1>2. /\ a \in Assets /\ a \notin call[c].pend /\ call[c] \in CallType /\ TypeOK
      /\ Working(c) /\ call[c].ops = <<>> /\ t \in Targets /\ t \in Thumbs
  BY <1>1, VisitFacts DEF TrueInv, Thumbs, Visits
<1>3. call[c].kind \in {"demand", "page"} /\ Active(c)
  BY <1>1, <1>2 DEF CountInv, Counted, Working, Active, Kinds, Bulk
<1>4. first \in Kindly(c) /\ note \in Seq(Quiet) /\ NoteOp(a, TRUE) \in AllOps
  BY <1>2, <1>3, KindlyOnes, QuietOnes, QuietOps, SmallSeqs DEF Later
<1>5. ops = <<first>> \o note
  <2> DEFINE y == NoteOp(a, TRUE)
  <2>1. first \in AllOps /\ y \in AllOps /\ <<y>> \in Seq(AllOps)
    BY <1>4, SmallSeqs DEF Kindly
  <2>2. ops = <<first, y>> /\ note = <<y>>
    OBVIOUS
  <2> HIDE DEF first, y, note, ops
  <2>3. <<first, y>> = <<first>> \o <<y>>
    BY <2>1, TwoOps
  <2> QED
    BY <2>2, <2>3

<1>6. PublishOp(a, t).do = "publish" /\ PublishOp(a, t).a = a
  BY DEF PublishOp
<1> HIDE DEF first, note, ops, t
<1>7. /\ ops \in Seq(Kindly(c)) /\ ops # <<>> /\ Head(ops) = first
      /\ Tail(ops) \in Seq(Later)
  BY <1>4, <1>5, FirstOp
<1>8. ops \in Seq(AllOps)
  BY <1>7, SeqGrows DEF Kindly
<1>9. /\ r \in CallType /\ SameCall(r, call[c]) /\ r.ops = ops
      /\ r.todo = call[c].todo \ {a} /\ r.pend = call[c].pend
      /\ r.updates = call[c].updates /\ r.ready = call[c].ready
      /\ r.failed = call[c].failed /\ r.skipped = call[c].skipped
  BY <1>2, <1>8, HandledIs
<1> HIDE DEF r
<1>10. CASE call[c].kind = "demand"
  BY <1>1, <1>2, <1>3, <1>7, <1>9, <1>10, DemandCounted DEF SameCall
<1>11. CASE call[c].kind = "page"
  <2>1. Head(r.ops).do = "publish" /\ Head(r.ops).a = a
    BY <1>6, <1>7, <1>9, <1>11 DEF first
  <2>2. /\ r.todo \cup r.pend = (call[c].todo \cup call[c].pend) \ {a}
        /\ a \in call[c].todo \cup call[c].pend
    BY <1>2, <1>9
  <2> QED
    BY <1>1, <1>2, <1>7, <1>9, <2>1, <2>2, WaitCounted
<1> QED
  BY <1>3, <1>10, <1>11

LEMMA VisitSkipCounted ==
    ASSUME TrueInv, TypeOK', Moves, CountInv, NEW c \in Callers, NEW a \in call[c].todo,
           VisitSkip(c, a)
    PROVE  CountInv'
<1> DEFINE r == [Handled(c, a, <<>>) EXCEPT !.skipped = call[c].skipped \cup {a}]
<1>1. Visits(c, a) /\ call' = [call EXCEPT ![c] = r]
  BY DEF VisitSkip
<1>2. /\ a \in Assets /\ a \notin call[c].pend /\ call[c] \in CallType /\ TypeOK
      /\ Working(c) /\ call[c].ops = <<>>
  BY <1>1, VisitFacts DEF TrueInv, Visits
<1>3. /\ r \in CallType /\ SameCall(r, call[c]) /\ r.ops = <<>>
      /\ r.todo = call[c].todo \ {a} /\ r.pend = call[c].pend
      /\ r.updates = call[c].updates /\ r.ready = call[c].ready
      /\ r.failed = call[c].failed /\ r.skipped = call[c].skipped \cup {a}
  BY <1>2, NoOpsIs
<1> HIDE DEF r
<1>4. Answered(c, a, r) /\ r.ops \in Seq(Quiet)
  BY <1>3, EmptyIsSeq DEF Answered
<1>5. /\ r.todo \cup r.pend = (call[c].todo \cup call[c].pend) \ {a}
      /\ a \in call[c].todo \cup call[c].pend
  BY <1>2, <1>3
<1> QED
  BY <1>1, <1>2, <1>3, <1>4, <1>5, AnswerCounted

LEMMA VisitEnqueueCounted ==
    ASSUME TrueInv, TypeOK', Moves, CountInv, NEW c \in Callers, NEW a \in call[c].todo,
           VisitEnqueue(c, a)
    PROVE  CountInv'
<1> DEFINE r == [Handled(c, a, <<>>) EXCEPT !.pend = call[c].pend \cup {a}]
<1>1. Visits(c, a) /\ call' = [call EXCEPT ![c] = r]
  BY DEF VisitEnqueue
<1>2. /\ a \in Assets /\ call[c] \in CallType /\ TypeOK
      /\ Working(c) /\ call[c].ops = <<>>
  BY <1>1, VisitFacts DEF TrueInv, Visits
<1>3. /\ r \in CallType /\ SameCall(r, call[c]) /\ r.ops = <<>>
      /\ r.todo = call[c].todo \ {a} /\ r.pend = call[c].pend \cup {a}
      /\ r.updates = call[c].updates /\ r.ready = call[c].ready
      /\ r.failed = call[c].failed /\ r.skipped = call[c].skipped
  BY <1>2, NoOpsIs
<1> HIDE DEF r
<1>4. r.todo \cup r.pend = call[c].todo \cup call[c].pend /\ a \in call[c].todo \cup call[c].pend
  BY <1>3
<1>5. r.ops \in Seq(Kindly(c))
  BY <1>3, EmptyIsSeq
<1> QED
  BY <1>1, <1>2, <1>3, <1>4, <1>5, WaitCounted

LEMMA VisitMissingCounted ==
    ASSUME TrueInv, TypeOK', Moves, CountInv, NEW c \in Callers, NEW a \in call[c].todo,
           VisitMissing(c, a)
    PROVE  CountInv'
<1> DEFINE drop == DeleteIfAny(ReadThumb(c, a))
           null == CasOp(a, None, "go on")
           note == <<NoteOp(a, FALSE)>>
           both == note \o drop
           all == <<null, NoteOp(a, FALSE)>> \o drop
<1>1. /\ Visits(c, a)
      /\ call' = [call EXCEPT ![c] =
            CASE call[c].kind = "demand" -> DemandMissing(c, a)
              [] call[c].kind = "page" -> PageMissing(c, a)
              [] OTHER -> BulkMissing(c, a)]
  BY DEF VisitMissing
<1>2. /\ a \in Assets /\ a \notin call[c].pend /\ call[c] \in CallType /\ TypeOK
      /\ Working(c) /\ call[c].ops = <<>> /\ Target(c, a) \in Targets
      /\ ReadThumb(c, a) \in {None, Target(c, a)} /\ None \in Thumbs
  BY <1>1, VisitFacts DEF TrueInv, Visits, Thumbs
<1>3. Active(c)
  BY <1>2 DEF Working, Active
<1>4. note \in Seq(Quiet) /\ NoteOp(a, FALSE) \in Quiet /\ drop \in Seq(Quiet)
  <2>1. DeleteOp({Target(c, a)}) \in Quiet /\ NoteOp(a, FALSE) \in Quiet
    BY <1>2, QuietOnes
  <2> QED
    BY <1>2, <2>1, SmallSeqs, EmptyIsSeq DEF DeleteIfAny
<1>5. a \in call[c].todo \cup call[c].pend
  OBVIOUS
<1>6. CASE call[c].kind = "demand"
  <2>1. null \in Kindly(c)
    BY <1>2, <1>6, KindlyOnes
  <2>2. all = <<null>> \o both
    <3> DEFINE y == NoteOp(a, FALSE)
    <3>1. null \in AllOps /\ y \in AllOps /\ drop \in Seq(AllOps)
      BY <1>4, <2>1, QuietOps DEF Kindly, Later
    <3> HIDE DEF null, drop, y
    <3>2. <<null>> \in Seq(AllOps) /\ <<y>> \in Seq(AllOps)
      BY <3>1, SmallSeqs
    <3>3. <<null, y>> = <<null>> \o <<y>>
      BY <3>1, TwoOps
    <3>4. (<<null>> \o <<y>>) \o drop = <<null>> \o (<<y>> \o drop)
      BY <3>1, <3>2, ConcatAssociative
    <3> QED
      BY <3>3, <3>4 DEF y
  <2> DEFINE r == Handled(c, a, all)
  <2>3. both \in Seq(Quiet)
    <3> HIDE DEF note, drop
    <3> QED
      BY <1>4, ConcatIsSeq
  <2>4. call' = [call EXCEPT ![c] = r]
    BY <1>1, <1>6 DEF DemandMissing
  <2> HIDE DEF all, both, null
  <2>5. all \in Seq(Kindly(c)) /\ Tail(all) \in Seq(Later)
    BY <2>1, <2>2, <2>3, FirstOp
  <2>6. all \in Seq(AllOps)
    BY <2>5, SeqGrows DEF Kindly
  <2>7. r \in CallType /\ SameCall(r, call[c]) /\ r.ops = all
    BY <1>2, <2>6, HandledIs
  <2> HIDE DEF r
  <2> QED
    BY <1>2, <1>3, <1>6, <2>4, <2>5, <2>7, DemandCounted DEF SameCall
<1>7. CASE call[c].kind # "demand"
  <2>1. PICK ops \in {note, both} : call' = [call EXCEPT ![c] = Bad(Handled(c, a, ops), a)]
    BY <1>1, <1>7 DEF PageMissing, BulkMissing
  <2>2. ops \in Seq(Quiet)
    <3> HIDE DEF note, drop
    <3> QED
      BY <1>4, <2>1, ConcatIsSeq
  <2>3. ops \in Seq(AllOps)
    BY <2>2, QuietOps
  <2> DEFINE r == Bad(Handled(c, a, ops), a)
  <2>4. /\ r \in CallType /\ SameCall(r, call[c]) /\ r.ops = ops
        /\ r.todo = call[c].todo \ {a} /\ r.pend = call[c].pend
        /\ r.updates = call[c].updates \cup {Update(a, None)}
        /\ r.ready = call[c].ready /\ r.failed = call[c].failed \cup {a}
        /\ r.skipped = call[c].skipped
    BY <1>2, <2>3, HandledAnswerIs
  <2>5. call' = [call EXCEPT ![c] = r]
    BY <2>1
  <2> HIDE DEF r
  <2>6. Answered(c, a, r)
    BY <2>4 DEF Answered
  <2>7. r.todo \cup r.pend = (call[c].todo \cup call[c].pend) \ {a}
    BY <1>2, <2>4
  <2>8. r.ops \in Seq(Quiet)
    BY <2>2, <2>4
  <2> QED
    BY <1>2, <1>5, <2>4, <2>5, <2>6, <2>7, <2>8, AnswerCounted
<1> QED
  BY <1>6, <1>7

LEMMA VisitTargetCounted ==
    ASSUME TrueInv, TypeOK', Moves, CountInv, NEW c \in Callers, NEW a \in call[c].todo,
           VisitTarget(c, a)
    PROVE  CountInv'
<1> DEFINE t == Target(c, a)
           y == NoteOp(a, TRUE)
<1>1. /\ Visits(c, a)
      /\ call' = [call EXCEPT ![c] =
            CASE call[c].kind = "demand" -> DemandReady(c, a)
              [] call[c].kind = "page" -> PageReady(c, a)
              [] OTHER -> BulkReady(c, a)]
  BY DEF VisitTarget
<1>2. /\ a \in Assets /\ a \notin call[c].pend /\ call[c] \in CallType /\ TypeOK
      /\ Working(c) /\ call[c].ops = <<>> /\ t \in Targets /\ t \in Thumbs
  BY <1>1, VisitFacts DEF TrueInv, Visits, Thumbs
<1>3. Active(c)
  BY <1>2 DEF Working, Active
<1>4. y \in Quiet /\ y \in AllOps /\ <<y>> \in Seq(Quiet) /\ <<y>> \in Seq(AllOps)
  BY <1>2, QuietOnes, QuietOps, SmallSeqs DEF Later
<1>5. a \in call[c].todo \cup call[c].pend
  OBVIOUS
<1> HIDE DEF y
\* A caller that starts with one operation and notes the success.
<1>6. ASSUME NEW x \in Kindly(c), NEW ops, ops = <<x, y>>
      PROVE  /\ ops \in Seq(Kindly(c)) /\ ops \in Seq(AllOps) /\ ops # <<>>
             /\ Head(ops) = x /\ Tail(ops) \in Seq(Later)
  <2>1. x \in AllOps
    BY DEF Kindly
  <2>2. ops = <<x>> \o <<y>>
    BY <1>4, <1>6, <2>1, TwoOps
  <2>3. /\ ops \in Seq(Kindly(c)) /\ ops # <<>> /\ Head(ops) = x /\ Tail(ops) \in Seq(Later)
    BY <1>4, <2>2, FirstOp
  <2>4. Kindly(c) \subseteq AllOps
    BY DEF Kindly
  <2> QED
    BY <2>3, <2>4, SeqGrows
<1>7. CASE call[c].kind = "demand"
  <2> DEFINE ops == <<CasOp(a, t, "go on"), y>>
             r == Handled(c, a, ops)
  <2>1. CasOp(a, t, "go on") \in Kindly(c)
    BY <1>2, <1>7, KindlyOnes
  <2>2. call' = [call EXCEPT ![c] = r]
    BY <1>1, <1>7 DEF DemandReady, y
  <2>3. ops \in Seq(Kindly(c)) /\ ops \in Seq(AllOps) /\ Tail(ops) \in Seq(Later)
    BY <1>6, <2>1
  <2> HIDE DEF ops
  <2>4. r \in CallType /\ SameCall(r, call[c]) /\ r.ops = ops
    BY <1>2, <2>3, HandledIs
  <2> HIDE DEF r
  <2> QED
    BY <1>2, <1>3, <1>7, <2>2, <2>3, <2>4, DemandCounted DEF SameCall
<1>8. CASE call[c].kind = "page"
  <2> DEFINE x == PublishOp(a, t)
             ops == <<x, y>>
             r == Handled(c, a, ops)
  <2>1. x \in Kindly(c) /\ x.do = "publish" /\ x.a = a
    BY <1>2, <1>8, KindlyOnes DEF PublishOp
  <2>2. call' = [call EXCEPT ![c] = r]
    BY <1>1, <1>8 DEF PageReady, y
  <2> HIDE DEF x
  <2>3. /\ ops \in Seq(Kindly(c)) /\ ops \in Seq(AllOps) /\ ops # <<>>
        /\ Head(ops) = x /\ Tail(ops) \in Seq(Later)
    BY <1>6, <2>1
  <2> HIDE DEF ops
  <2>4. /\ r \in CallType /\ SameCall(r, call[c]) /\ r.ops = ops
        /\ r.todo = call[c].todo \ {a} /\ r.pend = call[c].pend
        /\ r.updates = call[c].updates /\ r.ready = call[c].ready
        /\ r.failed = call[c].failed /\ r.skipped = call[c].skipped
    BY <1>2, <2>3, HandledIs
  <2> HIDE DEF r
  <2>5. r.todo \cup r.pend = (call[c].todo \cup call[c].pend) \ {a}
    BY <1>2, <2>4
  <2>6. Head(r.ops).do = "publish" /\ Head(r.ops).a = a
    BY <2>1, <2>3, <2>4
  <2> QED
    BY <1>2, <1>5, <2>2, <2>3, <2>4, <2>5, <2>6, WaitCounted
<1>9. CASE call[c].kind \notin {"demand", "page"}
  <2> DEFINE ops == <<y>>
             r == Good(Handled(c, a, ops), a, t)
  <2>1. call' = [call EXCEPT ![c] = r]
    BY <1>1, <1>9 DEF BulkReady, y
  <2>2. ops \in Seq(Quiet) /\ ops \in Seq(AllOps)
    BY <1>4
  <2> HIDE DEF ops
  <2>3. /\ r \in CallType /\ SameCall(r, call[c]) /\ r.ops = ops
        /\ r.todo = call[c].todo \ {a} /\ r.pend = call[c].pend
        /\ r.updates = call[c].updates \cup {Update(a, t)}
        /\ r.ready = call[c].ready \cup {a} /\ r.failed = call[c].failed
        /\ r.skipped = call[c].skipped
    BY <1>2, <2>2, HandledAnswerIs
  <2> HIDE DEF r
  <2>4. Answered(c, a, r)
    BY <2>3 DEF Answered
  <2>5. r.todo \cup r.pend = (call[c].todo \cup call[c].pend) \ {a}
    BY <1>2, <2>3
  <2>6. r.ops \in Seq(Quiet)
    BY <2>2, <2>3
  <2> QED
    BY <1>2, <1>5, <2>1, <2>3, <2>4, <2>5, <2>6, AnswerCounted
<1> QED
  BY <1>7, <1>8, <1>9

LEMMA TakeResultCounted ==
    ASSUME TrueInv, TypeOK', Moves, CountInv, NEW c \in Callers,
           NEW result \in call[c].inbox, TakeResult(c, result)
    PROVE  CountInv'
<1> DEFINE a == result.a
           t == Target(c, a)
           y == NoteOp(a, result.ok)
<1>1. /\ Working(c) /\ call[c].ops = <<>>
      /\ call' = [call EXCEPT ![c] =
            CASE call[c].kind = "demand" -> DemandResult(c, result)
              [] call[c].kind = "page" -> PageResult(c, result)
              [] OTHER -> BulkResult(c, result)]
  BY DEF TakeResult, Waits, Working
<1>2. /\ TypeOK /\ CallOK(c) /\ call[c] \in CallType /\ result \in Results
      /\ result.ok \in BOOLEAN /\ a \in Assets
  <2>1. TypeOK /\ CallOK(c) /\ call[c] \in CallType
    BY DEF TrueInv, TypeOK
  <2>2. result \in Results
    BY <2>1 DEF CallType
  <2> QED
    BY <2>1, <2>2 DEF Results
<1>3. a \in call[c].pend /\ a \notin call[c].todo /\ a \in Known(c)
  BY <1>1, <1>2 DEF CallOK, Awaited, OwnItems
<1>4. t \in Targets /\ t \in Thumbs /\ None \in Thumbs /\ t # None
  BY <1>2, <1>3, SnapType, NoneIsNoPair
     DEF CallOK, SnapOK, Known, CallType, Target, thumb_target, Targets, Thumbs
<1>5. Active(c)
  BY <1>1 DEF Working, Active
<1>6. y \in Quiet /\ <<y>> \in Seq(Quiet)
  BY <1>2, QuietOnes, SmallSeqs
<1>7. a \in call[c].todo \cup call[c].pend
  BY <1>3
<1> HIDE DEF y
\* A caller that starts with one operation and notes the result.
<1>8. ASSUME NEW x \in Kindly(c), NEW r, r = Taken(c, result, <<x>>)
      PROVE  /\ r \in CallType /\ SameCall(r, call[c]) /\ r.todo = call[c].todo
             /\ r.pend = call[c].pend \ {a} /\ r.updates = call[c].updates
             /\ r.ready = call[c].ready /\ r.failed = call[c].failed
             /\ r.skipped = call[c].skipped
             /\ r.ops \in Seq(Kindly(c)) /\ r.ops # <<>>
             /\ Head(r.ops) = x /\ Tail(r.ops) \in Seq(Later)
  <2> DEFINE ops == <<x>>
             all == ops \o <<y>>
  <2>1. ops \in Seq(AllOps)
    BY SmallSeqs DEF Kindly
  <2>2. all \in Seq(Kindly(c)) /\ all # <<>> /\ Head(all) = x /\ Tail(all) \in Seq(Later)
    BY <1>6, FirstOp
  <2> HIDE DEF ops
  <2>3. r = Taken(c, result, ops)
    BY <1>8 DEF ops
  <2>4. /\ r \in CallType /\ SameCall(r, call[c]) /\ r.todo = call[c].todo
        /\ r.pend = call[c].pend \ {a} /\ r.updates = call[c].updates
        /\ r.ready = call[c].ready /\ r.failed = call[c].failed
        /\ r.skipped = call[c].skipped /\ r.ops = all
    BY <1>2, <2>1, <2>3, TakenIs DEF y
  <2> QED
    BY <2>2, <2>4
\* A caller that only notes the result.
<1>9. ASSUME NEW q, q = Taken(c, result, <<>>)
      PROVE  /\ q \in CallType /\ SameCall(q, call[c]) /\ q.todo = call[c].todo
             /\ q.pend = call[c].pend \ {a} /\ q.updates = call[c].updates
             /\ q.ready = call[c].ready /\ q.failed = call[c].failed
             /\ q.skipped = call[c].skipped /\ q.ops \in Seq(Quiet)
  <2> DEFINE none == <<>>
             all == none \o <<y>>
  <2>1. none \in Seq(AllOps) /\ all \in Seq(Quiet)
    BY <1>6, EmptyIsSeq
  <2> HIDE DEF none
  <2>2. q = Taken(c, result, none)
    BY <1>9 DEF none
  <2>3. /\ q \in CallType /\ SameCall(q, call[c]) /\ q.todo = call[c].todo
        /\ q.pend = call[c].pend \ {a} /\ q.updates = call[c].updates
        /\ q.ready = call[c].ready /\ q.failed = call[c].failed
        /\ q.skipped = call[c].skipped /\ q.ops = all
    BY <1>2, <2>1, <2>2, TakenIs DEF y
  <2> QED
    BY <2>1, <2>3
<1>10. CASE call[c].kind = "demand"
  <2> DEFINE x == IF result.ok THEN CasOp(a, t, "delete") ELSE CasOp(a, None, "go on")
             r == Taken(c, result, <<x>>)
  <2>1. x \in Kindly(c)
    BY <1>2, <1>4, <1>10, KindlyOnes
  <2>2. call' = [call EXCEPT ![c] = r]
    BY <1>1, <1>10 DEF DemandResult
  <2> HIDE DEF x
  <2>3. /\ r \in CallType /\ SameCall(r, call[c])
        /\ r.ops \in Seq(Kindly(c)) /\ Tail(r.ops) \in Seq(Later)
    BY <1>8, <2>1
  <2> HIDE DEF r
  <2> QED
    BY <1>2, <1>5, <1>10, <2>2, <2>3, DemandCounted DEF SameCall
<1>11. CASE call[c].kind = "page" /\ result.ok
  <2> DEFINE x == PublishOp(a, t)
             r == Taken(c, result, <<x>>)
  <2>1. x \in Kindly(c) /\ x.do = "publish" /\ x.a = a
    BY <1>2, <1>4, <1>11, KindlyOnes DEF PublishOp
  <2>2. call' = [call EXCEPT ![c] = r]
    BY <1>1, <1>11 DEF PageResult
  <2> HIDE DEF x
  <2>3. /\ r \in CallType /\ SameCall(r, call[c]) /\ r.todo = call[c].todo
        /\ r.pend = call[c].pend \ {a} /\ r.updates = call[c].updates
        /\ r.ready = call[c].ready /\ r.failed = call[c].failed
        /\ r.skipped = call[c].skipped
        /\ r.ops \in Seq(Kindly(c)) /\ r.ops # <<>>
        /\ Head(r.ops) = x /\ Tail(r.ops) \in Seq(Later)
    BY <1>8, <2>1
  <2> HIDE DEF r
  <2>4. r.todo \cup r.pend = (call[c].todo \cup call[c].pend) \ {a}
    BY <1>3, <2>3
  <2>5. Head(r.ops).do = "publish" /\ Head(r.ops).a = a
    BY <2>1, <2>3
  <2> HIDE DEF a
  <2> QED
    BY <1>1, <1>2, <1>7, <2>2, <2>3, <2>4, <2>5, WaitCounted
<1>12. CASE call[c].kind # "demand" /\ ~(call[c].kind = "page" /\ result.ok)
  <2> DEFINE q == Taken(c, result, <<>>)
  <2>1. /\ q \in CallType /\ SameCall(q, call[c]) /\ q.todo = call[c].todo
        /\ q.pend = call[c].pend \ {a} /\ q.updates = call[c].updates
        /\ q.ready = call[c].ready /\ q.failed = call[c].failed
        /\ q.skipped = call[c].skipped /\ q.ops \in Seq(Quiet)
    BY <1>9
  <2>2. PICK r \in {Good(q, a, t), Bad(q, a)} : call' = [call EXCEPT ![c] = r]
    BY <1>1, <1>12 DEF PageResult, BulkResult
  <2> HIDE DEF q
  <2>3. /\ r \in CallType /\ SameCall(r, q) /\ r.todo = q.todo /\ r.ops = q.ops
        /\ r.pend = q.pend /\ Answered(c, a, r)
    <3>1. CASE r = Good(q, a, t)
      BY <1>2, <1>4, <2>1, <3>1, AnswerIs DEF Answered
    <3>2. CASE r = Bad(q, a)
      BY <1>2, <1>4, <2>1, <3>2, AnswerIs DEF Answered
    <3> QED
      BY <2>2, <3>1, <3>2
  <2>4. SameCall(r, call[c])
    BY <2>1, <2>3 DEF SameCall
  <2>5. r.todo \cup r.pend = (call[c].todo \cup call[c].pend) \ {a}
    BY <1>3, <2>1, <2>3
  <2>6. r.ops \in Seq(Quiet)
    BY <2>1, <2>3
  <2> HIDE DEF a
  <2> QED
    BY <1>1, <1>2, <1>7, <2>2, <2>3, <2>4, <2>5, <2>6, AnswerCounted
<1> QED
  BY <1>10, <1>11, <1>12

-----------------------------------------------------------------------------
(* Statements, file operations, the transaction                            *)

\* What a caller is left with after a statement.
LEMMA RestFacts ==
    ASSUME CountInv, NEW c \in Callers, call[c].ops # <<>>
    PROVE  /\ Op(c) \in Kindly(c) /\ Rest(c) \in Seq(Kindly(c)) /\ Rest(c) \in Seq(Later)
           /\ Rest(c) # <<>> =>
                Head(Rest(c)).do # "publish" /\ Tail(Rest(c)) \in Seq(Later)
<1>1. call[c].ops \in Seq(Kindly(c)) /\ Rest(c) \in Seq(Later)
  BY DEF CountInv, Counted, Rest
<1>2. Op(c) \in Kindly(c) /\ Rest(c) \in Seq(Kindly(c))
  BY <1>1, HeadAndTail DEF Op, Rest
<1> QED
  BY <1>1, <1>2, LaterFacts

\* A statement that answers nothing.
LEMMA RestCounted ==
    ASSUME TypeOK, TypeOK', Moves, CountInv, NEW c \in Callers, NEW r \in CallType,
           call' = [call EXCEPT ![c] = r], SameWork(r, call[c]),
           r.ready = call[c].ready, r.stale = call[c].stale,
           call[c].ops # <<>>, ~Publishing(c), r.ops = Rest(c)
    PROVE  CountInv'
<1>1. call'[c] = r /\ CountOK(c)
  BY CallTakes DEF CountInv, Counted
<1>2. /\ r.ops \in Seq(Kindly(c))
      /\ r.ops # <<>> => Head(r.ops).do # "publish" /\ Tail(r.ops) \in Seq(Later)
  BY RestFacts
<1>3. Busy(c) = {} /\ Busy(c)' = {}
  BY <1>1, <1>2 DEF Busy, Publishing
<1>4. CountOK(c)'
  <2>1. Open(c)' = Open(c) /\ Settled(c)' = Settled(c) /\ AnsweredOnce(c)' = AnsweredOnce(c)
    BY <1>1, <1>3 DEF Open, Settled, AnsweredOnce, SameWork
  <2>2. /\ Working(c)' = Working(c) /\ Counts(c)' = Counts(c)
        /\ Bulk(c)' = Bulk(c)
    BY <1>1 DEF Working, Counts, Bulk, SameWork
  <2> QED
    BY <1>1, <1>3, <2>1, <2>2 DEF CountOK, SameWork
<1> QED
  BY <1>2, <1>4, WorkCounted DEF SameWork

LEMMA NoteCounted ==
    ASSUME TrueInv, TypeOK', Moves, CountInv, NEW c \in Callers,
           Record(c) \/ ClearRecord(c) \/ Delete(c)
    PROVE  CountInv'
<1> DEFINE r == Left(c, Rest(c))
<1>1. /\ call[c].ops # <<>> /\ ~Publishing(c) /\ call' = Then(c, Rest(c)) /\ TypeOK
  BY DEF Record, ClearRecord, Delete, AtOp, Publishing, TrueInv
<1>2. Rest(c) \in Seq(AllOps)
  BY <1>1, OpFacts
<1>3. /\ call' = [call EXCEPT ![c] = r] /\ r \in CallType /\ SameWork(r, call[c])
      /\ r.ops = Rest(c) /\ r.ready = call[c].ready /\ r.stale = call[c].stale
  BY <1>1, <1>2, LeftIs
<1> HIDE DEF r
<1> QED
  BY <1>1, <1>3, RestCounted

\* The statements of a demand, which counts nothing.
LEMMA DemandOpCounted ==
    ASSUME TrueInv, TypeOK', Moves, CountInv, NEW c \in Callers, Cas(c) \/ Reread(c)
    PROVE  CountInv'
<1> DEFINE a == Op(c).a
           again == RereadOp(Op(c).a, Op(c).thumb, Op(c).lost)
           drop == DropOp(Op(c).a, Op(c).thumb, Old(c))
<1>1. call[c].ops # <<>> /\ Op(c).do \in {"cas", "reread"} /\ TypeOK
  BY DEF Cas, Reread, AtOp, Op, TrueInv
<1>2. /\ Op(c) \in Kindly(c) /\ Op(c) \in AllOps /\ a \in Assets /\ Working(c)
      /\ Rest(c) \in Seq(Kindly(c)) /\ Rest(c) \in Seq(Later) /\ Rest(c) \in Seq(AllOps)
      /\ Rest(c) # <<>> => Tail(Rest(c)) \in Seq(Later)
  BY <1>1, OpFacts, RestFacts
<1>3. call[c].kind = "demand" /\ Active(c)
  BY <1>1, <1>2 DEF Kindly, Working, Active
<1>4. Op(c) \in CasOps
  BY <1>1, <1>2 DEF AllOps, PublishOps, NoteOps, DeleteOps
<1>5. again \in Kindly(c)
  BY <1>2, <1>3, <1>4, KindlyOnes DEF CasOps
<1>6. Op(c).lost = "delete" => drop \in Quiet
  <2> HAVE Op(c).lost = "delete"
  <2>1. Op(c).thumb \in Targets
    BY <1>4 DEF CasOps, Thumbs
  <2> QED
    BY <2>1, DropIs DEF Quiet
<1> DEFINE ok(ops) == /\ ops \in Seq(Kindly(c)) /\ ops \in Seq(AllOps)
                      /\ ops # <<>> => Tail(ops) \in Seq(Later)
<1>7. ok(Rest(c)) /\ ok(<<>>)
  BY <1>2, EmptyIsSeq
<1>8. ok(<<again>> \o Rest(c))
  <2> DEFINE l == <<again>> \o Rest(c)
  <2> HIDE DEF again
  <2>1. l \in Seq(Kindly(c)) /\ Tail(l) = Rest(c)
    BY <1>2, <1>5
  <2> HIDE DEF l
  <2>2. l \in Seq(AllOps)
    BY <2>1, SeqGrows DEF Kindly
  <2>3. ok(l)
    BY <1>2, <2>1, <2>2
  <2> HIDE DEF ok
  <2> QED
    BY <2>3 DEF l
<1>9. Op(c).lost = "delete" => ok(<<drop>>)
  <2> HAVE Op(c).lost = "delete"
  <2> DEFINE l == <<drop>>
  <2>1. l \in Seq(Quiet) /\ l # <<>>
    BY <1>6, SmallSeqs
  <2> HIDE DEF l
  <2>2. l \in Seq(Kindly(c)) /\ l \in Seq(Later) /\ l \in Seq(AllOps)
    BY <2>1, QuietOps
  <2>3. ok(l)
    BY <2>1, <2>2, LaterFacts
  <2> HIDE DEF ok
  <2> QED
    BY <2>3 DEF l
<1> HIDE DEF again, drop
<1>10. \E ops \in {Rest(c), <<again>> \o Rest(c), <<>>, <<drop>>} :
          /\ ok(ops)
          /\ call' = Then(c, ops) \/ call' = Applied(c, a, Op(c).thumb, ops)
  <2>1. CASE Cas(c)
    BY <1>7, <1>8, <2>1 DEF Cas, again
  <2>2. CASE Reread(c)
    <3>1. Op(c).lost \in {"go on", "delete", "stop"}
      BY <1>4 DEF CasOps
    <3>2. \/ call' = Applied(c, a, Op(c).thumb, Rest(c))
          \/ call' = Then(c, CASE Op(c).lost = "stop" -> <<>>
                               [] Op(c).lost = "go on" -> Rest(c)
                               [] OTHER -> <<drop>>)
      BY <2>2 DEF Reread, drop
    <3> HIDE DEF ok
    <3> QED
      BY <1>7, <1>9, <3>1, <3>2
  <2> QED
    BY <2>1, <2>2
<1>11. PICK ops \in {Rest(c), <<again>> \o Rest(c), <<>>, <<drop>>} :
          /\ ok(ops)
          /\ call' = Then(c, ops) \/ call' = Applied(c, a, Op(c).thumb, ops)
  BY <1>10
<1>12. PICK t : t = Op(c).thumb
  OBVIOUS
<1> DEFINE left == Left(c, ops)
           ready == LeftReady(c, a, ops)
<1>13. /\ left \in CallType /\ SameWork(left, call[c]) /\ left.ops = ops
       /\ Then(c, ops) = [call EXCEPT ![c] = left]
  BY <1>1, <1>11, LeftIs
<1>14. /\ ready \in CallType /\ SameWork(ready, call[c]) /\ ready.ops = ops
       /\ Applied(c, a, t, ops) = [call EXCEPT ![c] = ready]
  BY <1>1, <1>2, <1>11, LeftReadyIs
<1> HIDE DEF left, ready
<1>15. PICK r \in {left, ready} : call' = [call EXCEPT ![c] = r]
  BY <1>11, <1>12, <1>13, <1>14
<1>16. r \in CallType /\ SameWork(r, call[c]) /\ r.ops = ops
  BY <1>13, <1>14, <1>15
<1> QED
  BY <1>1, <1>3, <1>11, <1>15, <1>16, DemandCounted DEF SameWork

LEMMA PublishReadyCounted ==
    ASSUME TrueInv, TypeOK', Moves, CountInv, NEW c \in Callers, PublishReady(c)
    PROVE  CountInv'
<1> DEFINE a == Op(c).a
           drop == DeleteOp({Op(c).thumb})
           ops == <<drop>> \o Rest(c)
<1>1. call[c].ops # <<>> /\ Op(c).do = "publish" /\ TypeOK
  BY DEF PublishReady, AtOp, Op, TrueInv
<1>2. /\ Op(c) \in Kindly(c) /\ Op(c) \in AllOps /\ a \in Assets /\ Working(c)
      /\ Rest(c) \in Seq(Kindly(c)) /\ Rest(c) \in Seq(Later) /\ Rest(c) \in Seq(AllOps)
      /\ Rest(c) # <<>> => Head(Rest(c)).do # "publish" /\ Tail(Rest(c)) \in Seq(Later)
  BY <1>1, OpFacts, RestFacts
<1>3. call[c].kind = "page" /\ Counts(c) /\ CountOK(c)
  BY <1>1, <1>2 DEF Kindly, Counts, CountInv, Counted
<1>4. Busy(c) = {a} /\ a \notin call[c].todo \cup call[c].pend
  <2>1. Busy(c) = {a}
    BY <1>1 DEF Busy, Publishing, Op
  <2> QED
    BY <1>3, <2>1 DEF CountOK
<1>5. drop \in Quiet
  <2>1. Op(c) \in PublishOps
    BY <1>1, <1>2 DEF AllOps, CasOps, NoteOps, DeleteOps
  <2> QED
    BY <1>2, <2>1, QuietOnes DEF PublishOps
<1>6. /\ ops \in Seq(Kindly(c)) /\ ops \in Seq(AllOps) /\ ops # <<>>
      /\ Head(ops).do # "publish" /\ Tail(ops) \in Seq(Later)
  <2>1. drop \in Kindly(c) /\ drop \in Later
    BY <1>5, QuietOps
  <2> HIDE DEF drop
  <2>2. ops \in Seq(Kindly(c)) /\ ops # <<>> /\ Head(ops) = drop /\ Tail(ops) = Rest(c)
    BY <1>2, <2>1
  <2> HIDE DEF ops
  <2>3. ops \in Seq(AllOps)
    BY <2>2, SeqGrows DEF Kindly
  <2> QED
    BY <1>2, <2>1, <2>2, <2>3 DEF Later
\* The asset of the publication gets the answer ready or stale.
<1>7. ASSUME NEW r \in CallType, call' = [call EXCEPT ![c] = r], SameWork(r, call[c]),
             r.ops \in Seq(Kindly(c)),
             r.ops # <<>> => Head(r.ops).do # "publish" /\ Tail(r.ops) \in Seq(Later),
             NEW ready \in {{}, {a}}, NEW stale \in {{}, {a}}, ready \cup stale = {a},
             ready \cap stale = {}, r.ready = call[c].ready \cup ready,
             r.stale = call[c].stale \cup stale
      PROVE  CountInv'
  <2>1. call'[c] = r
    BY <1>1, <1>7, CallTakes
  <2>2. Busy(c)' = {}
    BY <1>7, <2>1 DEF Busy, Publishing
  <2>3. Open(c)' = Open(c) \ {a} /\ a \in Open(c)
    BY <1>4, <1>7, <2>1, <2>2 DEF Open, SameWork
  <2>4. SameCount(c)
    BY <1>7, <2>1, <2>2 DEF SameCount, SameWork
  <2>5. /\ call'[c].failed = call[c].failed \cup {} /\ call'[c].skipped = call[c].skipped \cup {}
        /\ call'[c].updates = call[c].updates
        /\ call'[c].ready = call[c].ready \cup ready
        /\ call'[c].stale = call[c].stale \cup stale
    BY <1>7, <2>1 DEF SameWork
  <2>6. PICK none \in {{}, {a}} : none = {}
    OBVIOUS
  <2>7. /\ ready \cup none \cup stale \cup none = {a} /\ ready \cap none = {}
        /\ (ready \cup none) \cap stale = {} /\ (ready \cup none \cup stale) \cap none = {}
    BY <1>7, <2>6
  <2>8. CountOK(c)'
    <3>1. /\ call'[c].failed = call[c].failed \cup none
          /\ call'[c].skipped = call[c].skipped \cup none
      BY <2>5, <2>6
    <3> HIDE DEF a
    <3> QED
      BY <1>2, <1>3, <1>7, <2>3, <2>4, <2>5, <2>7, <3>1, OneSettled
  <2> QED
    BY <1>1, <1>7, <2>8, WorkCounted DEF SameWork
<1>8. CASE generation = call[c].gen /\ Matches(a, Old(c))
  <2> DEFINE r == LeftReady(c, a, Rest(c))
  <2>1. PICK t : t = Op(c).thumb
    OBVIOUS
  <2>2. call' = Applied(c, a, t, Rest(c))
    BY <1>8, <2>1 DEF PublishReady
  <2>3. /\ Applied(c, a, t, Rest(c)) = [call EXCEPT ![c] = r]
        /\ r \in CallType /\ SameWork(r, call[c]) /\ r.ops = Rest(c)
        /\ r.ready = call[c].ready \cup {a} /\ r.stale = call[c].stale
    BY <1>1, <1>2, <1>3, LeftReadyIs
  <2> HIDE DEF r, a
  <2>4. {a} \in {{}, {a}} /\ {} \in {{}, {a}} /\ r.stale = call[c].stale \cup {}
    BY <2>3
  <2> QED
    BY <1>2, <1>7, <2>2, <2>3, <2>4
<1>9. CASE ~(generation = call[c].gen /\ Matches(a, Old(c)))
  <2> DEFINE r == LeftStale(c, a, ops)
  <2>1. call' = Dropped(c, a, ops)
    BY <1>9 DEF PublishReady
  <2> HIDE DEF ops, a
  <2>2. /\ Dropped(c, a, ops) = [call EXCEPT ![c] = r]
        /\ r \in CallType /\ SameWork(r, call[c]) /\ r.ops = ops
        /\ r.ready = call[c].ready /\ r.stale = call[c].stale \cup {a}
    BY <1>1, <1>2, <1>6, LeftStaleIs
  <2> HIDE DEF r
  <2>3. {a} \in {{}, {a}} /\ {} \in {{}, {a}} /\ r.ready = call[c].ready \cup {}
    BY <2>2
  <2> QED
    BY <1>6, <1>7, <2>1, <2>2, <2>3
<1> QED
  BY <1>8, <1>9

LEMMA NoticeCancelCounted ==
    ASSUME TrueInv, TypeOK', Moves, CountInv, NEW c \in Callers, NoticeCancel(c)
    PROVE  CountInv'
<1> DEFINE r == [call[c] EXCEPT !.at = "drain", !.cancelled = TRUE]
<1>1. /\ call[c].at = "visit" /\ call[c].ops = <<>> /\ TypeOK /\ call[c] \in CallType
      /\ call' = [call EXCEPT ![c] = r] /\ CountOK(c) /\ Active(c)
  BY DEF NoticeCancel, TrueInv, TypeOK, CountInv, Counted, Active
<1>2. /\ r \in CallType /\ r.at = "drain" /\ r.cancelled /\ r.kind = call[c].kind
      /\ r.after = call[c].after /\ r.ceiling = call[c].ceiling /\ r.seen = call[c].seen
      /\ r.ops = <<>> /\ r.todo = call[c].todo /\ r.pend = call[c].pend
      /\ r.updates = call[c].updates /\ r.ready = call[c].ready
      /\ r.failed = call[c].failed /\ r.stale = call[c].stale
      /\ r.skipped = call[c].skipped
  BY <1>1 DEF CallType
<1> HIDE DEF r
<1>3. call'[c] = r
  BY <1>1, <1>2, CallTakes
<1>4. Busy(c) = {} /\ Busy(c)' = {}
  BY <1>1, <1>2, <1>3 DEF Busy, Publishing
<1>5. CountOK(c)'
  <2>1. /\ Open(c)' = Open(c) /\ Settled(c)' = Settled(c)
        /\ AnsweredOnce(c)' = AnsweredOnce(c)
    BY <1>2, <1>3, <1>4 DEF Open, Settled, AnsweredOnce
  <2>2. Working(c) /\ Working(c)' /\ Counts(c)' = Counts(c)
    BY <1>1, <1>2, <1>3 DEF Working, Counts
  <2> QED
    BY <1>1, <1>2, <1>3, <1>4, <2>1, <2>2 DEF CountOK
<1>6. r.ops \in Seq(Kindly(c))
  BY <1>2, EmptyIsSeq
<1> QED
  BY <1>1, <1>2, <1>5, <1>6, WorkCounted

\* A caller that finds a result in its inbox has not counted it yet.
LEMMA AnsweredCounted ==
    ASSUME TrueInv, TypeOK', Moves, CountInv, NEW t \in DOMAIN jobs, Answer(t)
    PROVE  CountInv'
<1>1. TypeOK
  BY DEF TrueInv
<1>2. PICK ok : call' = [c \in Callers |->
          IF c \in jobs[t]
          THEN [call[c] EXCEPT !.inbox = call[c].inbox \cup {[a |-> t[1], ok |-> ok]}]
          ELSE call[c]]
  BY DEF Answer
<1>3. ASSUME NEW c \in Callers PROVE Counted(c)'
  <2>1. call[c] \in CallType /\ Counted(c)
    BY <1>1 DEF TypeOK, CountInv
  <2>2. CASE c \notin jobs[t]
    <3>1. call'[c] = call[c]
      BY <1>2, <2>2
    <3> QED
      BY <1>1, <2>1, <3>1, OtherCounted
  <2>3. CASE c \in jobs[t]
    <3> DEFINE inbox == call[c].inbox \cup {[a |-> t[1], ok |-> ok]}
    <3>1. call'[c] = [call[c] EXCEPT !.inbox = inbox]
      BY <1>2, <2>3
    <3> HIDE DEF inbox
    <3>2. /\ call'[c].kind = call[c].kind /\ call'[c].at = call[c].at
          /\ call'[c].todo = call[c].todo /\ call'[c].pend = call[c].pend
          /\ call'[c].ops = call[c].ops /\ call'[c].updates = call[c].updates
          /\ call'[c].cancelled = call[c].cancelled /\ call'[c].seen = call[c].seen
          /\ call'[c].after = call[c].after /\ call'[c].ceiling = call[c].ceiling
          /\ call'[c].ready = call[c].ready /\ call'[c].failed = call[c].failed
          /\ call'[c].stale = call[c].stale /\ call'[c].skipped = call[c].skipped
      BY <2>1, <3>1 DEF CallType
    <3>3. Kindly(c)' = Kindly(c)
      BY <3>2 DEF Kindly
    <3>4. CountOK(c)'
      BY <2>1, <3>2 DEF Counted, CountOK, Counts, AnsweredOnce, Bulk, Working, Open,
                        Settled, Busy, Publishing
    <3>5. Paging(c)'
      <4>1. CASE Active(c)
        BY <1>1, <2>1, <3>2, <4>1, PagingFrame DEF Counted
      <4>2. CASE ~Active(c)
        BY <3>2, <4>2 DEF Paging, Active
      <4> QED
        BY <4>1, <4>2
    <3> QED
      BY <2>1, <3>2, <3>3, <3>4, <3>5 DEF Counted, Active
  <2> QED
    BY <2>2, <2>3
<1> QED
  BY <1>3 DEF CountInv

\* The results that lost were counted as ready or failed, and are stale now.
LEMMA PublishCounted ==
    ASSUME TrueInv, TypeOK', Moves, CountInv, NEW c \in Callers, Publish(c)
    PROVE  CountInv'
<1> DEFINE r == Published(c)
           lost == LostAssets(c)
<1>1. /\ call' = [call EXCEPT ![c] = r] /\ r \in CallType
      /\ r.at \in {"page", "finish"}
      /\ r.at = "page" => Bulk(c) /\ ~call[c].cancelled
      /\ r.ops \in {<<>>, <<DeleteOp(LostFiles(c))>>}
      /\ r.updates = {} /\ r.kind = call[c].kind
      /\ r.stale = call[c].stale \cup lost /\ r.ready = call[c].ready \ lost
      /\ r.failed = call[c].failed \ lost
      /\ r.skipped = call[c].skipped /\ r.seen = call[c].seen
      /\ r.todo = call[c].todo /\ r.pend = call[c].pend
      /\ r.cancelled = call[c].cancelled
      /\ r.after = call[c].after /\ r.ceiling = call[c].ceiling
  BY PublishedIs
<1> HIDE DEF r
<1>2. /\ TypeOK /\ CountOK(c) /\ CallOK(c) /\ Working(c) /\ Active(c)
      /\ call[c].ops = <<>> /\ LostFiles(c) \subseteq Targets
  <2>1. Working(c) /\ LostFiles(c) \subseteq Targets
    BY PublishWrites
  <2> QED
    BY <2>1 DEF Publish, MayPublish, TrueInv, CountInv, Counted, Working, Active
<1>3. ~call[c].cancelled => call[c].todo = {} /\ call[c].pend = {}
  BY <1>2 DEF Publish, MayPublish, CallOK, Queued
<1>4. call'[c] = r
  BY <1>1, <1>2, CallTakes
<1>5. r.ops \in Seq(Quiet)
  <2>1. DeleteOp(LostFiles(c)) \in Quiet
    BY <1>2 DEF Quiet, DeleteOp, DeleteOps
  <2> QED
    BY <1>1, <2>1, EmptyIsSeq, SmallSeqs
<1>6. /\ r.ops \in Seq(Kindly(c))
      /\ r.ops # <<>> => Head(r.ops).do # "publish" /\ Tail(r.ops) \in Seq(Later)
  <2>1. r.ops \in Seq(Kindly(c)) /\ r.ops \in Seq(Later)
    BY <1>5, QuietOps
  <2> QED
    BY <2>1, LaterFacts
<1>7. Busy(c) = {} /\ Busy(c)' = {}
  BY <1>2, <1>4, <1>6 DEF Busy, Publishing
<1>8. CountOK(c)'
  <2> SUFFICES ASSUME Counts(c) PROVE CountOK(c)'
    BY <1>1, <1>4 DEF CountOK, Counts
  <2>1. /\ AnsweredOnce(c)
        /\ call[c].cancelled \/ call[c].seen = Open(c) \cup Settled(c)
        /\ lost \subseteq call[c].ready \cup call[c].failed
    BY <1>2 DEF CountOK, LostAssets, Lost
  <2> HIDE DEF lost
  <2>2. Open(c) = call[c].todo \cup call[c].pend /\ Open(c)' = Open(c)
    BY <1>1, <1>4, <1>7 DEF Open
  <2>3. Settled(c)' = Settled(c)
    BY <1>1, <1>4, <2>1 DEF Settled
  <2>4. AnsweredOnce(c)'
    BY <1>1, <1>4, <2>1 DEF AnsweredOnce
  <2>5. ~Working(c)' /\ Bulk(c)' = Bulk(c)
    BY <1>1, <1>4 DEF Working, Bulk
  <2> QED
    BY <1>1, <1>3, <1>4, <1>7, <2>1, <2>2, <2>3, <2>4, <2>5 DEF CountOK
<1> QED
  BY <1>1, <1>2, <1>6, <1>8, WorkCounted

-----------------------------------------------------------------------------
(* Calls begin, page and end                                               *)

\* What an ended call says of its assets.
LEMMA EndedIs ==
    ASSUME NEW record \in CallType, NEW r, r = Ended(record)
    PROVE  /\ r \in CallType /\ r.at = "done" /\ r.kind = record.kind
           /\ r.todo = {} /\ r.pend = {} /\ r.ops = <<>> /\ r.updates = {}
           /\ r.cancelled = record.cancelled /\ r.seen = record.seen
           /\ r.ready = record.ready /\ r.failed = record.failed
           /\ r.stale = record.stale /\ r.skipped = record.skipped
<1>1. r \in CallType
  BY EndedType
<1> QED
  BY <1>1, NewCallType DEF Ended, CallType

\* A call ends with every asset answered, or cancelled, or in an error.
LEMMA EndCounted ==
    ASSUME TypeOK, TypeOK', Moves, CountInv, NEW c \in Callers, NEW record \in CallType,
           End(c, record),
           \/ record.kind = "error"
           \/ record = call[c] /\ (Counts(c) /\ ~call[c].cancelled => Open(c) = {})
    PROVE  CountInv'
<1> DEFINE r == Ended(record)
<1>1. /\ r \in CallType /\ r.at = "done" /\ r.kind = record.kind
      /\ r.todo = {} /\ r.pend = {} /\ r.ops = <<>> /\ r.updates = {}
      /\ r.cancelled = record.cancelled /\ r.seen = record.seen
      /\ r.ready = record.ready /\ r.failed = record.failed
      /\ r.stale = record.stale /\ r.skipped = record.skipped
  BY EndedIs
<1>2. call' = [call EXCEPT ![c] = r]
  BY DEF End, Ended
<1> HIDE DEF r
<1>3. call'[c] = r /\ \A d \in Callers \ {c} : call'[d] = call[d]
  BY <1>1, <1>2, CallTakes
<1>4. Busy(c)' = {} /\ Open(c)' = {} /\ ~Working(c)' /\ ~Active(c)'
  BY <1>1, <1>3 DEF Busy, Publishing, Open, Working, Active
<1>5. CountOK(c)'
  <2>1. CASE record.kind = "error"
    BY <1>1, <1>3, <2>1 DEF CountOK, Counts
  <2>2. CASE record = call[c] /\ (Counts(c) /\ ~call[c].cancelled => Open(c) = {})
    <3> SUFFICES ASSUME Counts(c) PROVE CountOK(c)'
      BY <1>1, <1>3, <2>2 DEF CountOK, Counts
    <3>1. /\ AnsweredOnce(c)
          /\ call[c].cancelled \/ call[c].seen = Settled(c)
      BY <2>2 DEF CountInv, Counted, CountOK
    <3>2. AnsweredOnce(c)' /\ Settled(c)' = Settled(c)
      BY <1>1, <1>3, <2>2, <3>1 DEF AnsweredOnce, Settled
    <3> QED
      BY <1>1, <1>3, <1>4, <2>2, <3>1, <3>2 DEF CountOK
  <2> QED
    BY <2>1, <2>2
<1>6. Counted(c)'
  BY <1>1, <1>3, <1>4, <1>5, EmptyIsSeq DEF Counted, Paging
<1> QED
  BY <1>3, <1>6, CountFrame

LEMMA FinishCounted ==
    ASSUME TrueInv, TypeOK', Moves, CountInv, NEW c \in Callers, Finish(c) \/ TimeOut(c)
    PROVE  CountInv'
<1>1. call[c] \in CallType /\ TypeOK /\ CountOK(c)
  BY DEF TrueInv, TypeOK, CountInv, Counted
<1>2. /\ [NewCall EXCEPT !.kind = "error"] \in CallType
      /\ [NewCall EXCEPT !.kind = "error"].kind = "error"
  BY NewCallType DEF CallType
<1>3. CASE Finish(c)
  <2>1. Counts(c) /\ ~call[c].cancelled => Open(c) = {}
    BY <1>1, <1>3 DEF Finish, CountOK, Counts
  <2> QED
    BY <1>1, <1>3, <2>1, EndCounted DEF Finish
<1>4. CASE TimeOut(c)
  BY <1>1, <1>2, <1>4, EndCounted DEF TimeOut
<1> QED
  BY <1>3, <1>4

\* A page of the bulk renderer holds assets it has not seen before.
LEMMA BulkPageCounted ==
    ASSUME TrueInv, TypeOK', Moves, CountInv, NEW c \in Callers, BulkPage(c)
    PROVE  CountInv'
<1> DEFINE page == CandidatePage(call[c].kind, call[c].after, call[c].ceiling)
           bad == {a \in page : HasFailed(a)}
           last == LastId(page)
           r == [call[c] EXCEPT
                   !.at = "visit", !.todo = page, !.snap = ReadRows(page),
                   !.after = last, !.seen = call[c].seen \cup page,
                   !.bad = bad]
<1>1. /\ call[c] \in CallType /\ TypeOK /\ CallOK(c) /\ Counted(c) /\ CountOK(c)
      /\ call[c].at = "page" /\ call[c].ops = <<>> /\ Active(c) /\ ~Working(c)
  BY DEF TrueInv, TypeOK, BulkPage, CountInv, Counted, Active, Working
<1>2. /\ page \in SUBSET Assets
      /\ \A a \in page : rows[a].id > call[c].after /\ rows[a].id <= call[c].ceiling
  BY DEF CandidatePage, Candidates
<1>3. Counts(c) => /\ call[c].todo = {} /\ call[c].pend = {} /\ Busy(c) = {}
                   /\ Open(c) = {} /\ Bulk(c)
  BY <1>1 DEF CountOK, Open
<1>4. CASE page = {}
  BY <1>1, <1>3, <1>4, EndCounted DEF BulkPage
<1>5. CASE page # {}
  <2>1. /\ call' = [call EXCEPT ![c] = r] /\ UNCHANGED <<rows, nextId>>
    BY <1>5 DEF BulkPage, table
  <2>2. /\ last \in Nat /\ ReadRows(page) \in Snaps
        /\ \A a \in page : rows[a].id <= last
    BY <1>2, <1>5, LastIdIsGreatest, SnapRead DEF TrueInv
  <2>3. bad \subseteq page
    OBVIOUS
  <2> HIDE DEF page, bad, last
  <2>4. r \in CallType
    BY <1>1, <1>2, <2>2, <2>3 DEF CallType
  <2>5. /\ r.at = "visit" /\ r.todo = page /\ r.ops = <<>> /\ r.pend = call[c].pend
        /\ r.kind = call[c].kind /\ r.after = last /\ r.seen = call[c].seen \cup page
        /\ r.ceiling = call[c].ceiling /\ r.cancelled = call[c].cancelled
        /\ r.updates = call[c].updates /\ r.ready = call[c].ready
        /\ r.failed = call[c].failed /\ r.stale = call[c].stale
        /\ r.skipped = call[c].skipped
    BY <1>1 DEF CallType
  <2> HIDE DEF r
  <2>6. call'[c] = r /\ \A d \in Callers \ {c} : call'[d] = call[d]
    BY <1>1, <2>1, <2>4, CallTakes
  <2>7. Busy(c)' = {}
    BY <2>5, <2>6 DEF Busy, Publishing
  <2>8. \A a \in Assets : rows[a].id \in Nat
    BY <1>1 DEF TypeOK, Rows
  <2>9. ASSUME Bulk(c)
        PROVE  /\ page \cap call[c].seen = {} /\ call[c].ceiling < nextId
               /\ \A a \in call[c].seen \cup page : rows[a].id <= last \/ rows[a].id > call[c].ceiling
    <3>1. /\ call[c].ceiling < nextId /\ call[c].after \in Nat /\ call[c].ceiling \in Nat
          /\ \A a \in call[c].seen : rows[a].id <= call[c].after \/ rows[a].id > call[c].ceiling
          /\ call[c].seen \subseteq Assets
      BY <1>1, <2>9 DEF Counted, Paging, CallType
    <3>2. page \cap call[c].seen = {}
      <4> SUFFICES ASSUME NEW a \in page, a \in call[c].seen PROVE FALSE
        OBVIOUS
      <4> QED
        BY <1>2, <2>8, <3>1
    <3>3. call[c].after <= last
      <4>1. PICK a \in page : TRUE
        BY <1>5
      <4> QED
        BY <1>2, <2>2, <2>8, <3>1, <4>1
    <3>4. \A a \in call[c].seen : rows[a].id <= last \/ rows[a].id > call[c].ceiling
      BY <2>2, <2>8, <3>1, <3>3
    <3> QED
      BY <2>2, <3>1, <3>2, <3>4
  <2>10. Paging(c)'
    BY <2>1, <2>5, <2>6, <2>9 DEF Paging, Bulk
  <2>11. CountOK(c)'
    <3> SUFFICES ASSUME Counts(c) PROVE CountOK(c)'
      BY <2>5, <2>6 DEF CountOK, Counts
    <3>1. /\ AnsweredOnce(c) /\ ~call[c].cancelled /\ call[c].updates = {}
          /\ call[c].seen = Settled(c)
      BY <1>1, <1>3 DEF CountOK
    <3>2. Open(c)' = page /\ Settled(c)' = Settled(c) /\ AnsweredOnce(c)'
      BY <1>3, <2>5, <2>6, <2>7, <3>1 DEF Open, Settled, AnsweredOnce
    <3>3. page \cap Settled(c) = {} /\ call'[c].seen = page \cup Settled(c)
      BY <1>3, <2>5, <2>6, <2>9, <3>1
    <3>4. Working(c)' /\ call'[c].at = "visit"
      BY <2>5, <2>6 DEF Working
    <3> QED
      BY <2>5, <2>6, <2>7, <3>1, <3>2, <3>3, <3>4 DEF CountOK
  <2>12. Counted(c)'
    BY <1>1, <2>5, <2>6, <2>10, <2>11, EmptyIsSeq DEF Counted
  <2> QED
    BY <1>1, <2>6, <2>12, CountFrame
<1> QED
  BY <1>4, <1>5

\* A call that has just begun: a demand, a page, a bulk render or a refusal.
LEMMA BeginCounted ==
    ASSUME TrueInv, TypeOK', Moves, CountInv, NEW c \in Callers, Begin(c)
    PROVE  CountInv'
<1>1. /\ TypeOK /\ call \in [Callers -> CallType] /\ NewCall \in CallType
  BY NewCallType DEF TrueInv, TypeOK
<1>2. /\ UNCHANGED <<rows, nextId>> /\ \A d \in Callers \ {c} : call'[d] = call[d]
  BY <1>1 DEF Begin, BeginDemand, BeginPage, BeginBulk, RefuseBulk, OnlyCalls, table
<1> DEFINE Empty(r) == /\ r.pend = {} /\ r.ops = <<>> /\ r.updates = {} /\ r.ready = {}
                       /\ r.stale = {} /\ r.skipped = {}
<1>3. ASSUME Empty(call'[c]), call'[c].kind \in Kinds, CountOK(c)', Paging(c)'
      PROVE  CountInv'
  <2>1. Counted(c)'
    BY <1>3, EmptyIsSeq DEF Counted
  <2> QED
    BY <1>1, <1>2, <2>1, CountFrame
<1>4. ASSUME Empty(call'[c]) PROVE Busy(c)' = {} /\ Open(c)' = call'[c].todo
  BY <1>4 DEF Busy, Publishing, Open
<1>5. ASSUME NEW a \in Assets, BeginDemand(c, a) PROVE CountInv'
  <2>1. Empty(call'[c]) /\ call'[c].kind = "demand"
    BY <1>1, <1>5, NewCallType DEF BeginDemand, CallType
  <2>2. CountOK(c)' /\ Paging(c)'
    BY <2>1 DEF CountOK, Counts, Paging, Bulk
  <2> HIDE DEF Empty
  <2> QED
    BY <1>3, <2>1, <2>2 DEF Kinds
<1>6. ASSUME NEW ids \in SUBSET Assets, BeginPage(c, ids) PROVE CountInv'
  <2>1. /\ Empty(call'[c]) /\ call'[c].kind = "page" /\ call'[c].at = "visit"
        /\ call'[c].todo = {a \in ids : rows[a] # NoRow}
        /\ call'[c].failed = {a \in ids : rows[a] = NoRow} /\ call'[c].seen = ids
    BY <1>1, <1>6, NewCallType DEF BeginPage, CallType
  <2>2. Busy(c)' = {} /\ Open(c)' = call'[c].todo
    BY <1>4, <2>1
  <2>3. AnsweredOnce(c)' /\ Settled(c)' = call'[c].failed
    BY <2>1 DEF AnsweredOnce, Settled
  <2>4. CountOK(c)'
    <3>1. Open(c)' \cap Settled(c)' = {} /\ call'[c].seen = Open(c)' \cup Settled(c)'
      BY <2>1, <2>2, <2>3
    <3> QED
      BY <2>1, <2>2, <2>3, <3>1 DEF CountOK, Working
  <2>5. Paging(c)'
    BY <2>1 DEF Paging, Bulk
  <2> HIDE DEF Empty
  <2> QED
    BY <1>3, <2>1, <2>4, <2>5 DEF Kinds
<1>7. ASSUME NEW kind \in {"bulk", "failed"}, BeginBulk(c, kind) \/ RefuseBulk(c, kind)
      PROVE  CountInv'
  <2>1. MaxId \in Nat /\ MaxId < nextId
    BY MaxIdIsGreatest
  <2>2. /\ Empty(call'[c]) /\ call'[c].kind = kind /\ call'[c].todo = {}
        /\ call'[c].failed = {} /\ call'[c].seen = {} /\ call'[c].cancelled = FALSE
        /\ \/ call'[c].at = "done"
           \/ call'[c].at = "page" /\ call'[c].ceiling = MaxId
    <3>1. CASE BeginBulk(c, kind)
      BY <1>1, <2>1, <3>1, NewCallType DEF BeginBulk, CallType, NewCall
    <3>2. CASE RefuseBulk(c, kind)
      BY <1>1, <3>2, NewCallType DEF RefuseBulk, CallType, NewCall
    <3> QED
      BY <1>7, <3>1, <3>2
  <2>3. Busy(c)' = {} /\ Open(c)' = {}
    BY <1>4, <2>2
  <2>4. AnsweredOnce(c)' /\ Settled(c)' = {}
    BY <2>2 DEF AnsweredOnce, Settled
  <2>5. CountOK(c)'
    BY <2>2, <2>3, <2>4 DEF CountOK, Working, Bulk
  <2>6. Paging(c)'
    BY <1>2, <2>1, <2>2 DEF Paging, Active
  <2>7. call'[c].kind \in Kinds
    BY <2>2 DEF Kinds
  <2> HIDE DEF Empty
  <2> QED
    BY <1>3, <2>2, <2>5, <2>6, <2>7
<1> HIDE DEF Empty
<1> QED
  BY <1>5, <1>6, <1>7 DEF Begin

LEMMA StartCounted ==
    ASSUME Init PROVE CountInv
<1> SUFFICES ASSUME NEW c \in Callers PROVE Counted(c)
  BY DEF CountInv
<1>1. call[c] = NewCall
  BY DEF Init
<1>2. CountOK(c) /\ ~Active(c)
  BY <1>1, NewCallType DEF CountOK, Counts, Active, NewCall
<1>3. call[c].ops = <<>>
  BY <1>1, NewCallType DEF NewCall
<1> QED
  BY <1>2, <1>3, EmptyIsSeq DEF Counted, Paging

LEMMA NextCounted ==
    ASSUME TrueInv, TypeOK', CountInv, Next PROVE CountInv'
<1>1. TypeOK /\ Moves
  BY RowsMove DEF TrueInv
<1>2. CASE call' = call
  BY <1>1, <1>2, OtherCounted DEF CountInv
<1>3. CASE Environment
  BY <1>2, <1>3 DEF Environment, EditFile, LoseFile, ScanIndex, ScanPrune, RemoveAsset,
                    CancelRender
<1>4. CASE \E c \in Callers : Begin(c) \/ Step(c) \/ TimeOut(c)
  <2>1. PICK c \in Callers : Begin(c) \/ Step(c) \/ TimeOut(c)
    BY <1>4
  <2>2. CASE Begin(c)
    BY <1>1, <2>2, BeginCounted
  <2>3. CASE Step(c)
    <3>1. CASE \E a \in call[c].todo :
                 \/ VisitExisting(c, a) \/ VisitMissing(c, a) \/ VisitTarget(c, a)
                 \/ VisitSkip(c, a) \/ VisitEnqueue(c, a)
      BY <1>1, <3>1, VisitExistingCounted, VisitMissingCounted, VisitTargetCounted,
         VisitSkipCounted, VisitEnqueueCounted
    <3>2. CASE \E result \in call[c].inbox : TakeResult(c, result)
      BY <1>1, <3>2, TakeResultCounted
    <3>3. CASE BulkPage(c) \/ NoticeCancel(c) \/ Publish(c) \/ Finish(c)
      BY <1>1, <3>3, BulkPageCounted, NoticeCancelCounted, PublishCounted, FinishCounted
    <3>4. CASE \/ Cas(c) \/ Reread(c) \/ PublishReady(c)
               \/ Record(c) \/ ClearRecord(c) \/ Delete(c)
      BY <1>1, <3>4, DemandOpCounted, PublishReadyCounted, NoteCounted
    <3> QED
      BY <2>3, <3>1, <3>2, <3>3, <3>4 DEF Step
  <2>4. CASE TimeOut(c)
    BY <1>1, <2>4, FinishCounted
  <2> QED
    BY <2>1, <2>2, <2>3, <2>4
<1>5. CASE \E t \in DOMAIN jobs : Render(t) \/ LookAtTarget(t) \/ Answer(t)
  BY <1>1, <1>2, <1>5, AnsweredCounted DEF Render, LookAtTarget
<1>6. CASE Clear
  BY <1>2, <1>6 DEF Clear, ClearBegin, ClearRows, ClearFailures, ClearList, ClearSweep
<1> QED
  BY <1>3, <1>4, <1>5, <1>6 DEF Next

LEMMA StutterCounted ==
    ASSUME TypeOK, TypeOK', CountInv, UNCHANGED vars PROVE CountInv'
<1>1. Moves
  BY SameRowsMove DEF vars
<1> QED
  BY <1>1, OtherCounted DEF CountInv, vars

LEMMA AlwaysCounted == Spec => []CountInv
<1>1. Init => CountInv
  BY StartCounted
<1>2. TrueInv /\ TrueInv' /\ CountInv /\ [Next]_vars => CountInv'
  BY NextCounted, StutterCounted DEF TrueInv
<1> QED
  BY <1>1, <1>2, AlwaysTrue, PTL DEF Spec

(* Whatever is re-indexed, cancelled or reset meanwhile, a call that ends  *)
(* in order answers each asset it was asked for, or paged through, exactly *)
(* once: ready, failed, stale or skipped, and never two of them.           *)
THEOREM AssetsAlwaysAnsweredOnce == Spec => []EveryAssetAnsweredOnce
<1>1. CountInv => EveryAssetAnsweredOnce
  <2> SUFFICES ASSUME CountInv, NEW c \in Callers, call[c].at = "done",
                      call[c].kind \in {"page", "bulk", "failed"}
               PROVE  LET answers == <<call[c].ready, call[c].failed,
                                       call[c].stale, call[c].skipped>>
                      IN /\ \A i, j \in 1 .. 4 : i # j => answers[i] \cap answers[j] = {}
                         /\ call[c].cancelled \/
                              call[c].seen = UNION {answers[i] : i \in 1 .. 4}
    BY DEF EveryAssetAnsweredOnce
  <2> DEFINE answers == <<call[c].ready, call[c].failed, call[c].stale, call[c].skipped>>
  <2>1. /\ AnsweredOnce(c) /\ Open(c) = {}
        /\ call[c].cancelled \/ call[c].seen = Settled(c)
    <3>1. CountOK(c) /\ Counts(c) /\ ~Working(c)
      BY DEF CountInv, Counted, Counts, Working
    <3>2. /\ AnsweredOnce(c) /\ Busy(c) = {} /\ call[c].todo = {} /\ call[c].pend = {}
          /\ call[c].cancelled \/ call[c].seen = Open(c) \cup Settled(c)
      BY <3>1 DEF CountOK
    <3> QED
      BY <3>2 DEF Open
  <2>2. /\ answers[1] = call[c].ready /\ answers[2] = call[c].failed
        /\ answers[3] = call[c].stale /\ answers[4] = call[c].skipped
    OBVIOUS
  <2> HIDE DEF answers
  <2>3. \A i \in 1 .. 4 : i = 1 \/ i = 2 \/ i = 3 \/ i = 4
    OBVIOUS
  <2>4. \A i, j \in 1 .. 4 : i # j => answers[i] \cap answers[j] = {}
    BY <2>1, <2>2, <2>3 DEF AnsweredOnce
  <2>5. UNION {answers[i] : i \in 1 .. 4} = Settled(c)
    BY <2>2, <2>3 DEF Settled
  <2> QED
    BY <2>1, <2>4, <2>5 DEF answers
<1> QED
  BY <1>1, AlwaysCounted, PTL

=============================================================================

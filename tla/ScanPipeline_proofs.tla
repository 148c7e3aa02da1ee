------------------------ MODULE ScanPipeline_proofs ------------------------
(***************************************************************************)
(* Proofs about the scan of one root, for any number of files, folders,    *)
(* workers and any sizes of the channels and batches.                      *)
(*                                                                         *)
(* The invariants the runs check follow from what is true between a file   *)
(* being found and its mapping being written: it is in exactly one place   *)
(* of the pipeline, unless a warning or a panic keeps the scan from        *)
(* pruning.  Each lemma Keeps<Action> is one step of the induction.        *)
(***************************************************************************)
EXTENDS ScanPipeline, FiniteSetTheorems, TLAPS

-----------------------------------------------------------------------------
(* The inductive invariant *)

\* A file is in one place at a time, and only files that were found are in one.
PlaceInv ==
    /\ batch \cup unchanged \subseteq Found \ unvisited
    /\ tasks \cup inspecting \cup results \cup pending \subseteq Found \ unvisited
    /\ batch \cap tasks = {} /\ batch \cap inspecting = {} /\ batch \cap results = {}
    /\ tasks \cap inspecting = {} /\ tasks \cap results = {}
    /\ inspecting \cap results = {}

Outstanding == Cardinality(tasks) + Cardinality(inspecting) + Cardinality(results)

\* Every task sent is in a channel, with a worker, accepted, or lost in a panic.
CountInv == queued = Outstanding + completed + panicked

\* What is outstanding when results are not read fits into their channel.
RoomInv ==
    /\ Outstanding <= ResultCapacity
    /\ pc = "discover" => /\ Outstanding <= TaskCapacity + Workers
                          /\ Cardinality(batch) < BatchSize
    /\ pc = "dispatch" => Outstanding + Cardinality(batch) <= ResultCapacity

\* What each step of the scanning thread finds empty.
StepInv ==
    /\ pc \notin {"discover", "dispatch"} => batch = {}
    /\ pc \in {"idle", "collect", "prune"} => unvisited = {} /\ unchanged = {}
    /\ pc \in {"idle", "prune"} => Outstanding = 0 /\ pending = {} /\ queued = completed
    /\ pc = "idle" => ~warned
    /\ pc # "idle" => outcome = "none"

\* No file that was found gets lost without a warning.
FoundInv ==
    pc # "idle" => \/ warned \/ panicked # 0
                   \/ Found = batch \cup unchanged \cup tasks \cup inspecting
                                    \cup results \cup pending \cup sighted

\* The walk comes to every file that is on disk all the time.
WalkInv ==
    pc # "idle" /\ ~warned => steady \cap Below[root] \subseteq unvisited \cup Found

\* Rows are the rows that some root maps, and sightings are mappings.
MapInv ==
    /\ \A f \in Files : row[f] # NoRow <=> \E r \in Roots : <<f, r>> \in mapped
    /\ pc # "idle" => \A f \in sighted : <<f, root>> \in mapped /\ f \in Found
    /\ \A f \in unchanged : row[f] # NoRow

\* Metadata is read after the fingerprint.
Fresh(mtime, read, now) == mtime <= now /\ (read = 0 \/ (mtime <= read /\ read <= now))
DataInv ==
    /\ \A f \in Files : print[f] <= version[f]
    /\ \A f \in results \cup pending : Fresh(print[f], probed[f], version[f])
    /\ \A f \in Files : row[f] # NoRow =>
           Fresh(row[f].mtime, row[f].probed, version[f])

IInv ==
    /\ TypeOK /\ PlaceInv /\ CountInv /\ RoomInv /\ StepInv
    /\ FoundInv /\ WalkInv /\ MapInv /\ DataInv /\ ScanIsExact

-----------------------------------------------------------------------------
(* Sizes *)

\* Everything in the pipeline is finite.
LEMMA Sizes ==
    ASSUME TypeOK
    PROVE  /\ IsFiniteSet(batch) /\ Cardinality(batch) \in Nat
           /\ IsFiniteSet(tasks) /\ Cardinality(tasks) \in Nat
           /\ IsFiniteSet(inspecting) /\ Cardinality(inspecting) \in Nat
           /\ IsFiniteSet(results) /\ Cardinality(results) \in Nat
           /\ Outstanding \in Nat
           /\ Outstanding = 0 => tasks = {} /\ inspecting = {} /\ results = {}
<1>1. \A S \in SUBSET Files : IsFiniteSet(S) /\ Cardinality(S) \in Nat
  BY FilesAssumption, FS_Subset, FS_CardinalityType
<1>2. \A S \in SUBSET Files : Cardinality(S) = 0 => S = {}
  BY <1>1, FS_EmptySet
<1>3. /\ batch \in SUBSET Files /\ tasks \in SUBSET Files
      /\ inspecting \in SUBSET Files /\ results \in SUBSET Files
  BY BelowAssumption DEF TypeOK
<1>4. /\ Cardinality(batch) \in Nat /\ Cardinality(tasks) \in Nat
      /\ Cardinality(inspecting) \in Nat /\ Cardinality(results) \in Nat
  BY <1>1, <1>3
<1>5. Outstanding = 0 => /\ Cardinality(tasks) = 0 /\ Cardinality(inspecting) = 0
                         /\ Cardinality(results) = 0
  BY <1>4 DEF Outstanding
<1>6. Outstanding \in Nat
  BY <1>4 DEF Outstanding
<1> QED
  BY <1>1, <1>2, <1>3, <1>4, <1>5, <1>6

\* Adding a file to a finite set, or taking one out, changes its size by one.
LEMMA AddOne ==
    ASSUME NEW S, IsFiniteSet(S), NEW x, x \notin S
    PROVE  Cardinality(S \cup {x}) = Cardinality(S) + 1
BY FS_AddElement

LEMMA RemoveOne ==
    ASSUME NEW S, IsFiniteSet(S), NEW x, x \in S
    PROVE  /\ Cardinality(S \ {x}) = Cardinality(S) - 1
           /\ Cardinality(S) # 0
BY FS_RemoveElement, FS_EmptySet

\* What touching, or writing, some files of the root does to the mappings.
LEMMA TouchMaps ==
    ASSUME TypeOK, NEW S \in SUBSET Below[root], Touch(S)
    PROVE  /\ mapped' \subseteq {m \in Files \X Roots : m[1] \in Below[m[2]]}
           /\ sighted' \subseteq Files /\ sighted' = sighted \cup S
           /\ \A f, r : <<f, r>> \in mapped' <=> <<f, r>> \in mapped \/ (f \in S /\ r = root)
<1>1. S \subseteq Files /\ root \in Roots
  BY BelowAssumption DEF TypeOK
<1>2. \A f \in S : <<f, root>> \in {m \in Files \X Roots : m[1] \in Below[m[2]]}
  BY <1>1
<1>3. S \X {root} \subseteq {m \in Files \X Roots : m[1] \in Below[m[2]]}
  BY <1>1, <1>2
<1> QED
  BY <1>1, <1>3 DEF Touch, TypeOK

-----------------------------------------------------------------------------
(* Every step keeps the invariant *)

LEMMA KeepsStart ==
    ASSUME IInv, NEW r \in Roots, Start(r)
    PROVE  IInv'
<1> USE DEF IInv
<1>0. Cardinality({}) = 0
  BY FS_EmptySet
<1>2. TypeOK'
  BY Sizes, <1>0
     DEF TypeOK, PlaceInv, StepInv, Steps, Outcomes, Start, workers, counts
<1>3. PlaceInv' /\ FoundInv' /\ WalkInv'
  BY Sizes DEF PlaceInv, StepInv, Found, FoundInv, WalkInv, Start, workers
<1>4. CountInv' /\ StepInv'
  BY DEF CountInv, StepInv, Outstanding, Start, workers, counts
<1>5. RoomInv'
  <2>1. Outstanding' = 0 /\ batch' = {} /\ Cardinality(batch') = 0
    BY <1>0 DEF Start, StepInv, Outstanding, disk, db, walk, workers, counts
  <2> QED
    BY <2>1, SizesAssumption DEF RoomInv, ResultCapacity, Start
<1>6. MapInv'
  BY DEF MapInv, Start
<1>7. DataInv'
  BY DEF DataInv, TypeOK, PlaceInv, Fresh, Found, Start, workers
<1>8. ScanIsExact'
  BY DEF ScanIsExact, Start
<1> QED
  BY <1>2, <1>3, <1>4, <1>5, <1>6, <1>7, <1>8

LEMMA KeepsVisit ==
    ASSUME IInv, NEW f \in Files, Visit(f)
    PROVE  IInv'
<1> USE DEF IInv
<1>1. Cardinality(batch') = Cardinality(batch) + 1
  BY Sizes, AddOne DEF PlaceInv, Visit
<1>2. TypeOK'
  <2>1. /\ print' \in [Files -> Nat] /\ unvisited' \cup batch' \subseteq Below[root]
    BY BelowAssumption DEF TypeOK, Visit
  <2>2. Cardinality(batch') <= BatchSize
    BY Sizes, <1>1, SizesAssumption DEF RoomInv, Visit
  <2> QED
    BY <2>1, <2>2 DEF TypeOK, Visit, Steps, disk, db, walk, workers, counts
<1>3. PlaceInv' /\ FoundInv' /\ WalkInv'
  BY DEF PlaceInv, TypeOK, Found, FoundInv, WalkInv, Visit, disk, db, workers
<1>4. CountInv' /\ RoomInv' /\ StepInv'
  BY Sizes, <1>1, SizesAssumption
     DEF CountInv, StepInv, Outstanding, RoomInv, ResultCapacity, Visit,
         workers, counts
<1>5. MapInv'
  BY DEF MapInv, TypeOK, Found, Visit, db
<1>6. DataInv'
  BY DEF DataInv, TypeOK, PlaceInv, Visit, disk, db, workers
<1>7. ScanIsExact'
  BY DEF ScanIsExact, StepInv, Visit
<1> QED
  BY <1>2, <1>3, <1>4, <1>5, <1>6, <1>7

LEMMA KeepsVisitFails ==
    ASSUME IInv, NEW f \in Files, VisitFails(f)
    PROVE  IInv'
<1> USE DEF IInv
<1>2. TypeOK'
  BY DEF TypeOK, VisitFails, disk, db, workers, counts
<1>3. PlaceInv' /\ FoundInv' /\ WalkInv'
  BY DEF PlaceInv, Found, FoundInv, WalkInv, VisitFails, workers
<1>4. CountInv' /\ RoomInv' /\ StepInv'
  BY DEF CountInv, StepInv, Outstanding, RoomInv, VisitFails, workers, counts
<1>5. MapInv' /\ DataInv' /\ ScanIsExact'
  BY DEF MapInv, Found, DataInv, ScanIsExact, VisitFails, disk, db, workers
<1> QED
  BY <1>2, <1>3, <1>4, <1>5

LEMMA KeepsEndWalk ==
    ASSUME IInv, EndWalk
    PROVE  IInv'
<1> USE DEF IInv
<1>2. TypeOK'
  BY DEF TypeOK, Steps, EndWalk, disk, db, workers, counts
<1>3. PlaceInv' /\ FoundInv' /\ WalkInv'
  BY DEF PlaceInv, TypeOK, Found, FoundInv, WalkInv, EndWalk, disk, db, workers
<1>4. CountInv' /\ RoomInv' /\ StepInv'
  BY Sizes, SizesAssumption
     DEF CountInv, StepInv, Outstanding, RoomInv, ResultCapacity, EndWalk,
         workers, counts
<1>5. MapInv' /\ DataInv' /\ ScanIsExact'
  BY DEF MapInv, Found, DataInv, ScanIsExact, EndWalk, disk, db, workers
<1> QED
  BY <1>2, <1>3, <1>4, <1>5

LEMMA KeepsKeepUnchanged ==
    ASSUME IInv, NEW f \in Files, KeepUnchanged(f)
    PROVE  IInv'
<1> USE DEF IInv
<1>1. Cardinality(batch') = Cardinality(batch) - 1
  BY Sizes, RemoveOne DEF PlaceInv, KeepUnchanged
<1>2. TypeOK'
  BY Sizes, <1>1, SizesAssumption
     DEF TypeOK, KeepUnchanged, disk, db, workers, counts
<1>3. PlaceInv' /\ FoundInv' /\ WalkInv'
  BY DEF PlaceInv, Found, FoundInv, WalkInv, KeepUnchanged, disk, db, workers
<1>4. CountInv' /\ RoomInv' /\ StepInv'
  BY Sizes, <1>1, SizesAssumption
     DEF CountInv, StepInv, Outstanding, RoomInv, ResultCapacity, KeepUnchanged,
         workers, counts
<1>5. MapInv' /\ DataInv' /\ ScanIsExact'
  BY DEF MapInv, Found, DataInv, ScanIsExact, KeepUnchanged, IsUnchanged, disk,
         db, workers
<1> QED
  BY <1>2, <1>3, <1>4, <1>5

LEMMA KeepsSend ==
    ASSUME IInv, NEW f \in Files, Send(f)
    PROVE  IInv'
<1> USE DEF IInv
<1>1. /\ Cardinality(batch') = Cardinality(batch) - 1
      /\ Cardinality(tasks') = Cardinality(tasks) + 1
  BY Sizes, AddOne, RemoveOne DEF PlaceInv, Send
<1>2. TypeOK'
  BY Sizes, <1>1, SizesAssumption DEF TypeOK, Send, disk, db
<1>3. PlaceInv' /\ FoundInv' /\ WalkInv'
  BY DEF PlaceInv, Found, FoundInv, WalkInv, Send, disk, db
<1>4. CountInv' /\ StepInv'
  BY Sizes, <1>1 DEF CountInv, TypeOK, StepInv, Outstanding, Send
<1>5. RoomInv'
  <2>1. Outstanding' = Outstanding + 1 /\ Outstanding + Cardinality(batch) <= ResultCapacity
    BY Sizes, <1>1 DEF Send, Outstanding, RoomInv
  <2>2. Cardinality(batch') = Cardinality(batch) - 1 /\ Cardinality(batch) # 0
    BY <1>1, Sizes, RemoveOne DEF Send
  <2> QED
    BY <2>1, <2>2, Sizes, SizesAssumption DEF RoomInv, Send, ResultCapacity
<1>6. MapInv' /\ DataInv' /\ ScanIsExact'
  BY DEF MapInv, Found, DataInv, ScanIsExact, Send, disk, db
<1> QED
  BY <1>2, <1>3, <1>4, <1>5, <1>6

LEMMA KeepsEndDispatch ==
    ASSUME IInv, EndDispatch
    PROVE  IInv'
<1> USE DEF IInv
<1>2. TypeOK'
  BY DEF TypeOK, PlaceInv, Steps, Found, EndDispatch, Touch, disk, walk,
         workers, counts
<1>3. PlaceInv' /\ FoundInv' /\ WalkInv'
  BY DEF PlaceInv, Found, FoundInv, WalkInv, EndDispatch, Touch, disk, walk,
         workers
<1>4. CountInv' /\ RoomInv' /\ StepInv'
  BY DEF CountInv, StepInv, Outstanding, RoomInv, EndDispatch, walk, workers,
         counts
<1>5. DataInv' /\ ScanIsExact'
  BY DEF DataInv, StepInv, ScanIsExact, EndDispatch, disk, walk, workers
<1>6. MapInv'
  <2>1. CASE Touch(unchanged)
    <3>1. \A f, r : <<f, r>> \in mapped' <=> <<f, r>> \in mapped \/ (f \in unchanged /\ r = root)
      BY <2>1, TouchMaps DEF TypeOK
    <3> QED
      BY <3>1, <2>1 DEF MapInv, TypeOK, PlaceInv, EndDispatch, Touch, Found, walk
  <2>2. CASE UNCHANGED <<mapped, sighted, unchanged>>
    BY <2>2 DEF MapInv, EndDispatch, Found, walk
  <2> QED
    BY <2>1, <2>2 DEF EndDispatch
<1> QED
  BY <1>2, <1>3, <1>4, <1>5, <1>6

LEMMA KeepsTake ==
    ASSUME IInv, NEW f \in Files, Take(f)
    PROVE  IInv'
<1> USE DEF IInv
<1>1. /\ Cardinality(tasks') = Cardinality(tasks) - 1
      /\ Cardinality(inspecting') = Cardinality(inspecting) + 1
  BY Sizes, AddOne, RemoveOne DEF PlaceInv, Take
<1>2. TypeOK'
  BY Sizes, <1>1, SizesAssumption DEF TypeOK, Take, disk, db, walk, counts
<1>3. PlaceInv' /\ FoundInv' /\ WalkInv'
  BY DEF PlaceInv, Found, FoundInv, WalkInv, Take, disk, db, walk
<1>4. CountInv' /\ RoomInv' /\ StepInv'
  BY Sizes, <1>1 DEF CountInv, StepInv, Outstanding, RoomInv, Take, walk, counts
<1>5. MapInv' /\ DataInv' /\ ScanIsExact'
  BY DEF MapInv, Found, DataInv, ScanIsExact, Take, disk, db, walk
<1> QED
  BY <1>2, <1>3, <1>4, <1>5

LEMMA KeepsFinish ==
    ASSUME IInv, NEW f \in Files, Finish(f)
    PROVE  IInv'
<1> USE DEF IInv
<1>1. /\ Cardinality(inspecting') = Cardinality(inspecting) - 1
      /\ Cardinality(results') = Cardinality(results) + 1
  BY Sizes, AddOne, RemoveOne DEF PlaceInv, Finish
<1>2. TypeOK'
  BY Sizes, <1>1, SizesAssumption DEF TypeOK, Finish, disk, db, walk, counts
<1>3. PlaceInv' /\ FoundInv' /\ WalkInv'
  BY DEF PlaceInv, Found, FoundInv, WalkInv, Finish, disk, db, walk
<1>4. CountInv' /\ RoomInv' /\ StepInv'
  BY Sizes, <1>1
     DEF CountInv, StepInv, Outstanding, RoomInv, Finish, walk, counts
<1>5. MapInv'
  BY DEF MapInv, Found, Finish, db, walk
<1>6. DataInv'
  BY DEF DataInv, TypeOK, Fresh, Finish, disk, db, walk
<1>7. ScanIsExact'
  BY DEF ScanIsExact, Found, Finish, db, walk
<1> QED
  BY <1>2, <1>3, <1>4, <1>5, <1>6, <1>7

LEMMA KeepsPanic ==
    ASSUME IInv, NEW f \in Files, Panic(f)
    PROVE  IInv'
<1> USE DEF IInv
<1>1. Cardinality(inspecting') = Cardinality(inspecting) - 1
  BY Sizes, RemoveOne DEF PlaceInv, Panic
<1>2. TypeOK'
  BY Sizes, <1>1 DEF TypeOK, Panic, disk, db, walk, counts
<1>3. PlaceInv' /\ FoundInv' /\ WalkInv'
  BY DEF PlaceInv, TypeOK, Found, FoundInv, WalkInv, Panic, disk, walk
<1>4. CountInv' /\ RoomInv' /\ StepInv'
  BY Sizes, <1>1, SizesAssumption
     DEF CountInv, TypeOK, StepInv, Outstanding, RoomInv, ResultCapacity, Panic,
         walk, counts
<1>5. MapInv' /\ DataInv' /\ ScanIsExact'
  BY DEF MapInv, Found, DataInv, ScanIsExact, Panic, disk, db, walk
<1> QED
  BY <1>2, <1>3, <1>4, <1>5

LEMMA KeepsAccept ==
    ASSUME IInv, NEW f \in Files, pc \in {"drain", "collect"}, Accept(f), pc' = pc
    PROVE  IInv'
<1> USE DEF IInv
<1>1. Cardinality(results') = Cardinality(results) - 1
  BY Sizes, RemoveOne DEF PlaceInv, Accept
<1>2. TypeOK'
  <2> DEFINE items == pending \cup ({f} \ NotUtf8)
  <2>1. items \subseteq Below[root] \ NotUtf8 /\ items \subseteq Found
    BY DEF Accept, TypeOK, PlaceInv
  <2>2. /\ row' \in [Files -> [mtime : Nat \ {0}, probed : Nat] \cup {NoRow}]
        /\ mapped' \subseteq {m \in Files \X Roots : m[1] \in Below[m[2]]}
        /\ sighted' \subseteq Files /\ pending' \subseteq Below[root] \ NotUtf8
    <3>1. CASE Flush(items)
      <4>1. \A g \in items : Stored(g) \in [mtime : Nat \ {0}, probed : Nat]
        BY <2>1 DEF TypeOK, Stored, Found
      <4>2. row' \in [Files -> [mtime : Nat \ {0}, probed : Nat] \cup {NoRow}]
        BY <4>1, <3>1 DEF Flush, TypeOK
      <4> QED
        BY <4>2, <3>1, <2>1, TouchMaps DEF Flush
    <3>2. CASE pending' = items /\ UNCHANGED <<row, mapped, sighted>>
      BY <2>1, <3>2 DEF TypeOK
    <3> QED
      BY <3>1, <3>2 DEF Accept
  <2>3. completed' \in 0 .. queued'
    BY Sizes, <1>1 DEF CountInv, Outstanding, TypeOK, Accept
  <2>4. warned' \in BOOLEAN /\ results' \subseteq results
    BY DEF Accept
  <2>5. UNCHANGED <<disk, root, unvisited, print, batch, unchanged, tasks,
                    inspecting, probed, queued, panicked, outcome, scans, pc>>
    BY DEF Accept
  <2> QED
    BY <2>2, <2>3, <2>4, <2>5 DEF TypeOK, disk
<1>3. PlaceInv' /\ WalkInv'
  BY DEF PlaceInv, StepInv, Found, WalkInv, Accept, Flush, disk
<1>4. FoundInv'
  <2> DEFINE items == pending \cup ({f} \ NotUtf8)
  <2>1. f \notin NotUtf8 \/ warned'
    BY DEF Accept
  <2>2. sighted' \cup pending' = sighted \cup items
    BY DEF Accept, Flush, Touch
  <2>3. results = results' \cup {f}
    BY DEF Accept
  <2>4. UNCHANGED <<pc, print, batch, unchanged, tasks, inspecting, panicked>> /\ Found' = Found
    BY DEF Accept, Found
  <2>5. pc # "idle" /\ (warned => warned') /\ (~warned' => items = pending \cup {f})
    BY <2>1 DEF Accept
  <2> QED
    BY <2>2, <2>3, <2>4, <2>5 DEF FoundInv
<1>5. CountInv' /\ RoomInv' /\ StepInv'
  BY Sizes, <1>1, SizesAssumption
     DEF CountInv, TypeOK, StepInv, Outstanding, RoomInv, ResultCapacity, Accept
<1>6. DataInv' /\ ScanIsExact'
  BY DEF DataInv, StepInv, ScanIsExact, Accept, Flush, Stored, disk
<1>7. MapInv'
  <2> DEFINE items == pending \cup ({f} \ NotUtf8)
  <2>1. items \subseteq Below[root] \cap Found /\ unchanged' = unchanged /\ root' = root
        /\ Found' = Found /\ pc # "idle"
    BY DEF Accept, TypeOK, PlaceInv, Found
  <2>2. CASE Flush(items)
    <3>1. \A g, r : <<g, r>> \in mapped' <=> <<g, r>> \in mapped \/ (g \in items /\ r = root)
      BY <2>1, <2>2, TouchMaps DEF Flush
    <3>2. \A g \in items : row'[g] # NoRow
      BY <2>1, <2>2, NoRowAssumption, BelowAssumption DEF Flush, Stored, TypeOK
    <3>3. \A g \in Files \ items : row'[g] = row[g]
      BY <2>2 DEF Flush
    <3>4. sighted' = sighted \cup items
      BY <2>2 DEF Flush, Touch
    <3>5. unchanged \subseteq Files /\ root \in Roots
      BY BelowAssumption DEF TypeOK
    <3> QED
      BY <2>1, <3>1, <3>2, <3>3, <3>4, <3>5 DEF MapInv
  <2>3. CASE UNCHANGED <<row, mapped, sighted>>
    BY <2>1, <2>3 DEF MapInv
  <2> QED
    BY <2>2, <2>3 DEF Accept
<1> QED
  BY <1>2, <1>3, <1>4, <1>5, <1>6, <1>7

LEMMA KeepsEndDrain ==
    ASSUME IInv, EndDrain
    PROVE  IInv'
<1> USE DEF IInv
<1>0. Cardinality({}) = 0
  BY FS_EmptySet
<1>2. TypeOK'
  <2>1. CASE Touch(unchanged)
    BY <2>1, TouchMaps DEF TypeOK, EndDrain, Steps, disk, db, walk, workers, counts
  <2>2. CASE UNCHANGED <<mapped, sighted, unchanged>>
    BY <2>2 DEF TypeOK, EndDrain, Steps, disk, db, walk, workers, counts
  <2> QED
    BY <2>1, <2>2 DEF EndDrain
<1>3. PlaceInv' /\ FoundInv' /\ WalkInv'
  BY DEF PlaceInv, Found, FoundInv, WalkInv, EndDrain, Touch, disk, walk,
         workers
<1>4. CountInv' /\ StepInv'
  BY DEF CountInv, StepInv, Outstanding, EndDrain, walk, workers, counts
<1>5. RoomInv'
  <2>1. Outstanding' = Outstanding /\ batch' = {} /\ Cardinality(batch') = 0
    BY <1>0 DEF EndDrain, StepInv, Outstanding, disk, db, walk, workers, counts
  <2>2. Outstanding <= TaskCapacity + Workers
    BY <1>0, Sizes, SizesAssumption DEF EndDrain, TypeOK, Outstanding
  <2> QED
    BY <2>1, <2>2, SizesAssumption DEF RoomInv, ResultCapacity, EndDrain
<1>6. DataInv' /\ ScanIsExact'
  BY DEF DataInv, StepInv, ScanIsExact, EndDrain, disk, walk, workers
<1>7. MapInv'
  <2>1. CASE Touch(unchanged)
    <3>1. \A f, r : <<f, r>> \in mapped' <=> <<f, r>> \in mapped \/ (f \in unchanged /\ r = root)
      BY <2>1, TouchMaps DEF TypeOK
    <3> QED
      BY <3>1, <2>1 DEF MapInv, TypeOK, PlaceInv, EndDrain, Touch, Found, walk
  <2>2. CASE UNCHANGED <<mapped, sighted, unchanged>>
    BY <2>2 DEF MapInv, EndDrain, Found, walk
  <2> QED
    BY <2>1, <2>2 DEF EndDrain
<1> QED
  BY <1>2, <1>3, <1>4, <1>5, <1>6, <1>7

LEMMA KeepsEndCollect ==
    ASSUME IInv, EndCollect
    PROVE  IInv'
<1> USE DEF IInv
<1>2. TypeOK'
  BY DEF TypeOK, PlaceInv, Steps, Found, EndCollect, Flush, Touch, Stored, disk,
         walk, workers, counts
<1>3. PlaceInv' /\ FoundInv' /\ WalkInv'
  BY DEF PlaceInv, Found, FoundInv, WalkInv, EndCollect, Flush, Touch, disk,
         walk, workers
<1>4. CountInv' /\ RoomInv'
  BY DEF CountInv, Outstanding, RoomInv, EndCollect, workers, counts
<1>5. StepInv'
  <2>1. Outstanding = 0
    BY Sizes DEF EndCollect, CountInv, TypeOK
  <2> QED
    BY <2>1 DEF StepInv, EndCollect, Flush, Outstanding, disk, db, walk, workers, counts
<1>6. DataInv' /\ ScanIsExact'
  BY DEF DataInv, StepInv, ScanIsExact, EndCollect, Flush, Stored, disk, walk,
         workers
<1>7. MapInv'
  <2>1. pending \subseteq Below[root] \cap Found /\ unchanged' = unchanged /\ root' = root
        /\ Found' = Found /\ pc # "idle" /\ Flush(pending)
    BY DEF EndCollect, TypeOK, PlaceInv, Found, walk
  <2>2. \A g, r : <<g, r>> \in mapped' <=> <<g, r>> \in mapped \/ (g \in pending /\ r = root)
    BY <2>1, TouchMaps DEF Flush
  <2>3. \A g \in pending : row'[g] # NoRow
    BY <2>1, NoRowAssumption, BelowAssumption DEF Flush, Stored, TypeOK
  <2>4. \A g \in Files \ pending : row'[g] = row[g]
    BY <2>1 DEF Flush
  <2>5. sighted' = sighted \cup pending
    BY <2>1 DEF Flush, Touch
  <2>6. unchanged \subseteq Files /\ root \in Roots
    BY BelowAssumption DEF TypeOK
  <2> QED
    BY <2>1, <2>2, <2>3, <2>4, <2>5, <2>6 DEF MapInv
<1> QED
  BY <1>2, <1>3, <1>4, <1>5, <1>6, <1>7

LEMMA KeepsPrune ==
    ASSUME IInv, Prune
    PROVE  IInv'
<1> USE DEF IInv
<1>0. Cardinality({}) = 0
  BY FS_EmptySet
<1>2. TypeOK'
  <2>1. /\ unvisited' \cup batch' \cup unchanged' \subseteq Below[root']
        /\ tasks' \cup inspecting' \cup results' \subseteq Below[root']
        /\ pending' \subseteq Below[root'] \ NotUtf8
        /\ probed' \in [Files -> Nat] /\ queued' \in Nat /\ completed' \in 0 .. queued'
        /\ panicked' \in Nat
    BY DEF Prune, Return
  <2>2. /\ Cardinality(batch') <= BatchSize /\ Cardinality(tasks') <= TaskCapacity
        /\ panicked' + Cardinality(inspecting') <= Workers
    BY <1>0, SizesAssumption DEF Prune, Return
  <2>3. row' \in [Files -> [mtime : Nat \ {0}, probed : Nat] \cup {NoRow}]
    BY DEF TypeOK, Prune, Orphaned
  <2>4. mapped' \subseteq mapped
    BY DEF Prune
  <2> QED
    BY <2>1, <2>2, <2>3, <2>4 DEF TypeOK, Prune, Return, Steps, Outcomes, disk, db, walk, workers, counts
<1>3. PlaceInv' /\ FoundInv' /\ WalkInv'
  BY DEF PlaceInv, FoundInv, WalkInv, Prune, Return
<1>4. CountInv' /\ RoomInv' /\ StepInv'
  BY Sizes, <1>0 DEF CountInv, StepInv, Outstanding, RoomInv, Prune, Return
<1>5. DataInv'
  BY DEF DataInv, Prune, Return, Orphaned, disk
<1>6. MapInv'
  <2>1. CASE warned
    BY <2>1 DEF MapInv, Prune, Return
  <2>2. CASE ~warned
    <3>1. row' = Orphaned(mapped') /\ mapped' \subseteq mapped /\ pc' = "idle" /\ unchanged' = {}
      BY <2>2 DEF Prune, Return
    <3>2. \A g \in Files : row'[g] # NoRow <=> \E r \in Roots : <<g, r>> \in mapped'
      BY <3>1 DEF Orphaned, MapInv
    <3> QED
      BY <3>1, <3>2 DEF MapInv
  <2> QED
    BY <2>1, <2>2
<1>7. ScanIsExact'
  <2>1. CASE warned
    BY <2>1 DEF ScanIsExact, Prune, Return
  <2>2. CASE ~warned
    <3>1. Outstanding = 0 /\ pending = {} /\ panicked = 0
      BY DEF Prune, StepInv, CountInv, TypeOK
    <3>2. Found = sighted
      BY <2>2, <3>1, Sizes DEF Prune, FoundInv, StepInv
    <3>3. /\ mapped' = {m \in mapped : m[2] = root => m[1] \in sighted}
          /\ Found' = Found /\ root' = root
      BY <2>2 DEF Prune, Return, Found
    <3>4. \A g \in sighted : <<g, root>> \in mapped
      BY DEF Prune, MapInv
    <3>5. \A g \in Files : <<g, root>> \in mapped' <=> g \in Found
      BY <3>2, <3>3, <3>4
    <3> QED
      BY <3>3, <3>5 DEF ScanIsExact
  <2> QED
    BY <2>1, <2>2
<1> QED
  BY <1>2, <1>3, <1>4, <1>5, <1>6, <1>7

LEMMA KeepsFailure ==
    ASSUME IInv, pc # "idle", Return("failed"), UNCHANGED <<disk, db>>
    PROVE  IInv'
<1> USE DEF IInv
<1>0. Cardinality({}) = 0
  BY FS_EmptySet
<1>2. TypeOK'
  <2>1. /\ unvisited' \cup batch' \cup unchanged' \subseteq Below[root']
        /\ tasks' \cup inspecting' \cup results' \subseteq Below[root']
        /\ pending' \subseteq Below[root'] \ NotUtf8
        /\ probed' \in [Files -> Nat] /\ queued' \in Nat /\ completed' \in 0 .. queued'
        /\ panicked' \in Nat
    BY DEF Return
  <2>2. /\ Cardinality(batch') <= BatchSize /\ Cardinality(tasks') <= TaskCapacity
        /\ panicked' + Cardinality(inspecting') <= Workers
    BY <1>0, SizesAssumption DEF Return
  <2> QED
    BY <2>1, <2>2 DEF TypeOK, Return, Steps, Outcomes, disk, db, walk, workers, counts
<1>3. PlaceInv' /\ FoundInv' /\ WalkInv'
  BY DEF PlaceInv, FoundInv, WalkInv, Return
<1>4. CountInv' /\ RoomInv' /\ StepInv'
  BY <1>0, SizesAssumption
     DEF CountInv, StepInv, Outstanding, RoomInv, ResultCapacity, Return
<1>5. MapInv' /\ DataInv' /\ ScanIsExact'
  BY DEF MapInv, DataInv, ScanIsExact, Return, disk, db
<1> QED
  BY <1>2, <1>3, <1>4, <1>5

LEMMA KeepsRemoveRoot ==
    ASSUME IInv, NEW r \in Roots, RemoveRoot(r)
    PROVE  IInv'
<1> USE DEF IInv
<1>2. TypeOK'
  BY DEF TypeOK, Outcomes, RemoveRoot, Orphaned, disk, walk, workers, counts
<1>3. PlaceInv' /\ FoundInv' /\ WalkInv'
  BY DEF PlaceInv, Found, FoundInv, WalkInv, RemoveRoot, walk, workers
<1>4. CountInv' /\ RoomInv' /\ StepInv'
  BY DEF CountInv, StepInv, Outstanding, RoomInv, RemoveRoot, walk, workers,
         counts
<1>5. MapInv' /\ DataInv' /\ ScanIsExact'
  BY DEF MapInv, StepInv, DataInv, ScanIsExact, RemoveRoot, Orphaned, disk,
         walk, workers
<1> QED
  BY <1>2, <1>3, <1>4, <1>5

LEMMA KeepsWrite ==
    ASSUME IInv, NEW f \in Files, Write(f)
    PROVE  IInv'
<1> USE DEF IInv
<1>2. TypeOK'
  BY DEF TypeOK, Write, db, walk, workers, counts
<1>3. PlaceInv' /\ FoundInv' /\ WalkInv'
  BY DEF PlaceInv, Found, FoundInv, WalkInv, Write, db, walk, workers
<1>4. CountInv' /\ RoomInv' /\ StepInv'
  BY DEF CountInv, StepInv, Outstanding, RoomInv, Write, walk, workers, counts
<1>5. MapInv'
  BY DEF MapInv, Found, Write, db, walk
<1>6. DataInv'
  BY DEF DataInv, TypeOK, Fresh, Write, db, walk, workers
<1>7. ScanIsExact'
  BY DEF ScanIsExact, Found, Write, db, walk
<1> QED
  BY <1>2, <1>3, <1>4, <1>5, <1>6, <1>7

LEMMA KeepsRemove ==
    ASSUME IInv, NEW f \in Files, Remove(f)
    PROVE  IInv'
<1> USE DEF IInv
<1>2. TypeOK'
  BY DEF TypeOK, Remove, db, walk, workers, counts
<1>3. PlaceInv' /\ FoundInv' /\ WalkInv'
  BY DEF PlaceInv, Found, FoundInv, WalkInv, Remove, db, walk, workers
<1>4. CountInv' /\ RoomInv' /\ StepInv'
  BY DEF CountInv, StepInv, Outstanding, RoomInv, Remove, walk, workers, counts
<1>5. MapInv' /\ DataInv' /\ ScanIsExact'
  BY DEF MapInv, Found, DataInv, ScanIsExact, Remove, db, walk, workers
<1> QED
  BY <1>2, <1>3, <1>4, <1>5

LEMMA KeepsStutter ==
    ASSUME IInv, UNCHANGED vars
    PROVE  IInv'
<1> USE DEF IInv
<1>2. TypeOK'
  BY DEF TypeOK, vars
<1>3. PlaceInv' /\ FoundInv' /\ WalkInv'
  BY DEF PlaceInv, Found, FoundInv, WalkInv, vars
<1>4. CountInv' /\ RoomInv' /\ StepInv'
  BY DEF CountInv, StepInv, Outstanding, RoomInv, vars
<1>5. MapInv' /\ DataInv' /\ ScanIsExact'
  BY DEF MapInv, Found, DataInv, ScanIsExact, vars
<1> QED
  BY <1>2, <1>3, <1>4, <1>5

-----------------------------------------------------------------------------
(* The theorems *)

LEMMA InitIInv == Init => IInv
<1> SUFFICES ASSUME Init PROVE IInv
  OBVIOUS
<1>1. Cardinality({}) = 0
  BY FS_EmptySet
<1>2. Outstanding = 0 /\ Found = {}
  BY <1>1 DEF Init, Outstanding, Found
<1>3. TypeOK
  <2>1. /\ Cardinality(batch) <= BatchSize /\ Cardinality(tasks) <= TaskCapacity
        /\ panicked + Cardinality(inspecting) <= Workers
    BY <1>1, SizesAssumption DEF Init
  <2>2. version \in [Files -> Nat \ {0}] /\ print \in [Files -> Nat] /\ probed \in [Files -> Nat]
    BY DEF Init
  <2>3. row \in [Files -> [mtime : Nat \ {0}, probed : Nat] \cup {NoRow}]
    BY DEF Init
  <2>4. /\ unvisited \cup batch \cup unchanged \subseteq Below[root]
        /\ tasks \cup inspecting \cup results \subseteq Below[root]
        /\ pending \subseteq Below[root] \ NotUtf8 /\ mapped = {} /\ sighted = {}
    BY DEF Init
  <2>5. /\ queued \in Nat /\ completed \in 0 .. queued /\ panicked \in Nat
        /\ scans \in Nat /\ changes \in Nat
    BY DEF Init
  <2>7. warned \in BOOLEAN
    BY DEF Init
  <2>6. present \subseteq Files /\ steady \subseteq present
        /\ pc \in Steps /\ root \in Roots /\ outcome \in Outcomes
    BY DEF Init, Steps, Outcomes
  <2> QED
    BY <2>1, <2>2, <2>3, <2>4, <2>5, <2>6, <2>7 DEF TypeOK
<1>4. RoomInv
  BY <1>2, SizesAssumption DEF Init, RoomInv, ResultCapacity
<1>5. PlaceInv /\ CountInv /\ StepInv /\ FoundInv /\ WalkInv /\ ScanIsExact
  BY <1>2 DEF Init, PlaceInv, CountInv, StepInv, FoundInv, WalkInv, ScanIsExact
<1>6. MapInv /\ DataInv
  BY DEF Init, MapInv, DataInv, Fresh
<1> QED
  BY <1>3, <1>4, <1>5, <1>6 DEF IInv

\* The invariant of the scan is inductive: every step of the scanning thread,
\* of a worker and of other programs keeps it.
THEOREM NextIInv == IInv /\ [Next]_vars => IInv'
<1> SUFFICES ASSUME IInv, [Next]_vars PROVE IInv'
  OBVIOUS
<1>1. CASE Discover
  BY <1>1, KeepsEndWalk, KeepsVisit, KeepsVisitFails DEF Discover
<1>2. CASE Dispatch
  BY <1>2, KeepsEndDispatch, KeepsKeepUnchanged, KeepsSend DEF Dispatch
<1>3. CASE EndDrain \/ EndCollect \/ Disconnected \/ Prune
  BY <1>3, KeepsEndDrain, KeepsEndCollect, KeepsFailure, KeepsPrune DEF Disconnected
<1>4. ASSUME NEW f \in Files, Drain(f) \/ Receive(f) PROVE IInv'
  BY <1>4, KeepsAccept DEF Drain, Receive
<1>5. CASE Work
  BY <1>5, KeepsTake, KeepsFinish DEF Work
<1>6. ASSUME NEW f \in Files, Panic(f) PROVE IInv'
  BY <1>6, KeepsPanic
<1>7. CASE Stop
  BY <1>7, KeepsFailure DEF Stop
<1>8. ASSUME NEW r \in Roots, Start(r) \/ RemoveRoot(r) PROVE IInv'
  BY <1>8, KeepsStart, KeepsRemoveRoot
<1>9. ASSUME NEW f \in Files, Write(f) \/ Remove(f) PROVE IInv'
  BY <1>9, KeepsWrite, KeepsRemove
<1>10. CASE UNCHANGED vars
  BY <1>10, KeepsStutter
<1> QED
  BY <1>1, <1>2, <1>3, <1>4, <1>5, <1>6, <1>7, <1>8, <1>9, <1>10 DEF Next, Consume

LEMMA SpecIInv == Spec => []IInv
<1>1. Init => IInv
  BY InitIInv
<1>2. IInv /\ [Next]_vars => IInv'
  BY NextIInv
<1> QED
  BY <1>1, <1>2, PTL DEF Spec

\* Every variable keeps its type; the task channel stays within its capacity
\* and no more results are accepted than tasks were sent.
THEOREM TypeCorrect == Spec => []TypeOK
<1>1. IInv => TypeOK
  BY DEF IInv
<1> QED
  BY <1>1, SpecIInv, PTL

\* For all sizes of channels and batches and any number of workers, the
\* capacity SCAN_RESULT_QUEUE_CAPACITY is enough: no worker waits in send.
THEOREM ResultsAlwaysFit == Spec => []ResultsFit
<1>1. IInv => ResultsFit
  <2> SUFFICES ASSUME IInv, inspecting # {} PROVE Cardinality(results) < ResultCapacity
    BY DEF ResultsFit
  <2>1. TypeOK /\ Outstanding <= ResultCapacity
    BY DEF IInv, RoomInv
  <2>2. Cardinality(inspecting) # 0
    BY <2>1, Sizes, FS_EmptySet
  <2>3. ResultCapacity \in Nat
    BY SizesAssumption DEF ResultCapacity
  <2> QED
    BY <2>1, <2>2, <2>3, Sizes DEF Outstanding
<1> QED
  BY <1>1, SpecIInv, PTL

\* After a complete scan the root maps exactly the files its walk found.
THEOREM CompleteScansAreExact == Spec => []ScanIsExact
<1>1. IInv => ScanIsExact
  BY DEF IInv
<1> QED
  BY <1>1, SpecIInv, PTL

\* A row whose fingerprint is current has metadata of that version or none.
THEOREM MetadataAlwaysCurrent == Spec => []MetadataIsCurrent
<1>1. IInv => MetadataIsCurrent
  BY DEF IInv, DataInv, Fresh, MetadataIsCurrent, TypeOK
<1> QED
  BY <1>1, SpecIInv, PTL

\* No scan, whatever goes wrong in it, takes the row from a file that was on
\* disk all the time.
THEOREM PresentFilesAreKept == Spec => PresentFilesKeepRows
<1> DEFINE Kept == pc # "idle" => \A f \in steady : row[f] # NoRow => row'[f] # NoRow
<1>1. IInv /\ [Next]_vars => [Kept]_vars
  <2> SUFFICES ASSUME IInv, Next, pc # "idle", NEW f \in steady, row[f] # NoRow
               PROVE  row'[f] # NoRow
    OBVIOUS
  <2>1. f \in Files
    BY DEF IInv, TypeOK
  <2>2. \A S \in SUBSET Found : Flush(S) => row'[f] # NoRow
    BY <2>1, NoRowAssumption DEF Flush, Stored, IInv, TypeOK, Found
  <2>3. CASE Discover
    BY <2>3 DEF Discover, EndWalk, Visit, VisitFails, db
  <2>4. CASE Dispatch
    BY <2>4 DEF Dispatch, EndDispatch, KeepUnchanged, Send, db
  <2>5. CASE EndDrain \/ Disconnected \/ Stop
    BY <2>5 DEF EndDrain, Disconnected, Stop, db
  <2>6. CASE EndCollect
    BY <2>6, <2>2 DEF EndCollect, IInv, PlaceInv
  <2>7. ASSUME NEW g \in Files, Drain(g) \/ Receive(g) PROVE row'[f] # NoRow
    <3>1. Accept(g)
      BY <2>7 DEF Drain, Receive
    <3>2. pending \cup ({g} \ NotUtf8) \subseteq Found
      BY <3>1 DEF Accept, IInv, PlaceInv
    <3> QED
      BY <2>2, <3>1, <3>2 DEF Accept
  <2>8. CASE Prune
    <3>1. CASE warned
      BY <2>8, <3>1 DEF Prune
    <3>2. CASE ~warned
      <4>1. Outstanding = 0 /\ pending = {} /\ panicked = 0
        BY <2>8 DEF Prune, IInv, StepInv, CountInv, TypeOK
      <4>2. Found = sighted
        BY <2>8, <3>2, <4>1, Sizes DEF Prune, IInv, FoundInv, StepInv
      <4>3. f \in Below[root] => f \in sighted
        BY <2>8, <3>2, <4>2 DEF Prune, IInv, WalkInv, StepInv
      <4>4. PICK r \in Roots : <<f, r>> \in mapped
        BY <2>1 DEF IInv, MapInv
      <4>5. r = root => f \in Below[root]
        BY <4>4 DEF IInv, TypeOK
      <4>6. <<f, r>> \in mapped'
        BY <2>8, <3>2, <4>3, <4>4, <4>5 DEF Prune
      <4> QED
        BY <2>1, <2>8, <3>2, <4>4, <4>6 DEF Prune, Orphaned
    <3> QED
      BY <3>1, <3>2
  <2>9. CASE Work
    BY <2>9 DEF Work, Take, Finish, db
  <2>10. ASSUME NEW g \in Files, Panic(g) \/ Write(g) \/ Remove(g) PROVE row'[f] # NoRow
    BY <2>10 DEF Panic, Write, Remove, db
  <2>11. ASSUME NEW r \in Roots, Start(r) \/ RemoveRoot(r) PROVE FALSE
    BY <2>11 DEF Start, RemoveRoot
  <2> QED
    BY <2>3, <2>4, <2>5, <2>6, <2>7, <2>8, <2>9, <2>10, <2>11 DEF Next, Consume
<1> QED
  BY <1>1, SpecIInv, PTL DEF Spec, PresentFilesKeepRows

=============================================================================

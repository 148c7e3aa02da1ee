------------------------ MODULE FileMutation_proofs ------------------------
(***************************************************************************)
(* Proofs about the file mutations, in four layers, each an inductive      *)
(* invariant on top of the one before it:                                  *)
(*                                                                         *)
(*   SafeInv     whatever fails and whoever meddles: no file is destroyed  *)
(*               and no staged file loses its journal row;                 *)
(*   PlacesInv   as long as nobody meddles: where the file of each item of *)
(*               the batch is, so that reports are true;                   *)
(*   OrderlyInv  with at most one failed call: where the file of each      *)
(*               asset is, across crashes and recoveries, so that rows     *)
(*               name their files;                                         *)
(*   FlawlessInv with none: what is left to recover, so that startup never *)
(*               refuses.                                                  *)
(***************************************************************************)
EXTENDS FileMutation, FiniteSetTheorems, TLAPS

(* The steps of a batch, and those before its commit. *)
Undecided == {"stage", "install", "commit", "rollback", "clear"}
Decided == {"finish", "dropRow"}
Active == pc \in Undecided \cup Decided

At0(i) == <<number, batch[i].asset>>      \* the staging path of item i

-----------------------------------------------------------------------------
(* What holds whatever fails.                                              *)

Positions == Active => number \in Batches /\ index \in 1 .. Len(batch)

(* What validation has made sure of. *)
BatchShape ==
    \A i \in 1 .. Len(batch) :
        /\ batch[i].action = "rename" <=> batch[i].target \in Paths
        /\ batch[i].action = "rename" => ~Missing(batch[i])
        /\ \A j \in 1 .. Len(batch) :
            /\ batch[i].action = "rename" => batch[i].target # batch[j].original
            /\ i # j =>
                /\ batch[i].asset # batch[j].asset
                /\ batch[i].action = "rename" => batch[i].target # batch[j].target

InstalledRenames ==
    \A i \in 1 .. Len(batch) : batch[i].asset \in installed => batch[i].action = "rename"

JournalShape ==
    /\ pending \subseteq journal
    /\ pc \in {"recover", "refused"} \/ pending = {}
    /\ \A r \in journal :
        /\ r.batch <= number
        /\ r.action = "rename" <=> r.target \in Paths
        /\ r.target # r.original

RowOfItem(r, i) ==
    /\ r.asset = batch[i].asset /\ r.action = batch[i].action
    /\ r.original = batch[i].original /\ r.target = batch[i].target
    /\ ~Missing(batch[i])

(* The rows of the current batch are rows of its items, flagged when it is *)
(* committed.                                                              *)
CurrentRows ==
    Active => \A r \in journal : r.batch = number =>
        /\ \E i \in 1 .. Len(batch) : RowOfItem(r, i)
        /\ r.committed <=> pc \in Decided

ItemsJournaled ==
    pc \in {"stage", "install", "commit", "rollback"} => \A i \in 1 .. Len(batch) :
        ~Missing(batch[i]) => \E r \in journal : At(r) = At0(i)

(* Staging paths are empty until their item is staged, and again after its *)
(* target is installed.                                                    *)
StagingFree ==
    /\ \A w \in Batches \X Assets : w[1] > number => staged[w] = NoFile
    /\ pc = "stage" => \A i \in index .. Len(batch) : staged[At0(i)] = NoFile
    /\ pc = "install" => \A i \in 1 .. index - 1 :
            batch[i].action = "rename" => staged[At0(i)] = NoFile
    /\ pc \in {"commit"} \cup Decided => \A i \in 1 .. Len(batch) :
            batch[i].action = "rename" => staged[At0(i)] = NoFile
    /\ pc = "dropRow" => staged[At0(index)] = NoFile
    /\ \A r \in journal : r.committed /\ r.action = "rename" => staged[At(r)] = NoFile

(* What a committed deletion has staged counts as deleted. *)
Taken == deleted \cup {NoFile, Foreign}
DeletionsTake ==
    /\ pc \in Decided => \A i \in 1 .. Len(batch) :
            batch[i].action = "delete" => staged[At0(i)] \in Taken
    /\ \A r \in journal : r.committed /\ r.action = "delete" => staged[At(r)] \in Taken

SafeInv ==
    /\ TypeOK /\ Positions /\ BatchShape /\ JournalShape /\ CurrentRows
    /\ InstalledRenames /\ ItemsJournaled /\ StagingFree /\ DeletionsTake
    /\ FilesSurvive /\ StagedIsJournaled

-----------------------------------------------------------------------------
(* Where the files of a batch are, as long as nobody meddles.              *)

RowsDiffer ==
    /\ \A a, b \in Assets : a # b /\ row[a] # Nowhere => row[a] # row[b]
    /\ rooted \/ (~Active /\ \A a \in Assets : row[a] = Nowhere)
    /\ pc \in Undecided => \A i \in 1 .. Len(batch) :
        /\ row[batch[i].asset] = batch[i].original
        /\ \A a \in Assets : batch[i].action = "rename" => row[a] # batch[i].target
    /\ pc \in Decided => \A i \in 1 .. Len(batch) : row[batch[i].asset] = batch[i].target

AtOriginal(c, w) ==
    /\ disk[c.original] = c.file /\ staged[w] = NoFile
    /\ c.action = "rename" => disk[c.target] = NoFile
AtStaging(c, w) ==
    /\ disk[c.original] = NoFile /\ staged[w] = c.file
    /\ c.action = "rename" => disk[c.target] = NoFile
AtTarget(c, w) ==
    /\ c.action = "rename"
    /\ disk[c.original] = NoFile /\ staged[w] = NoFile /\ disk[c.target] = c.file

ItemPlace(i) ==
    LET c == batch[i] IN
    /\ pc \in Undecided =>
        /\ AtOriginal(c, At0(i)) \/ AtStaging(c, At0(i)) \/ AtTarget(c, At0(i))
        /\ c.asset \in installed => AtTarget(c, At0(i))
    /\ pc = "stage" => IF i < index THEN AtStaging(c, At0(i)) ELSE AtOriginal(c, At0(i))
    /\ pc = "install" =>
        IF i < index /\ c.action = "rename" THEN AtTarget(c, At0(i)) ELSE AtStaging(c, At0(i))
    /\ pc = "commit" =>
        IF c.action = "rename" THEN AtTarget(c, At0(i)) ELSE AtStaging(c, At0(i))
    /\ pc \in {"stage", "install", "commit"} \/ (pc = "rollback" /\ i <= index) =>
        (AtTarget(c, At0(i)) => c.asset \in installed)
    /\ pc = "clear" \/ (pc = "rollback" /\ i > index) =>
        (c.asset \notin unresolved => AtOriginal(c, At0(i)))
    /\ pc \in Decided /\ c.action = "rename" => disk[c.target] = c.file

(* The items before the index are settled: those not reported have no     *)
(* journal row and nothing at their staging path.                          *)
Settled ==
    pc \in Decided \cup {"clear"} => \A i \in 1 .. index - 1 :
        batch[i].asset \notin unresolved =>
            /\ staged[At0(i)] = NoFile
            /\ \A r \in journal : At(r) # At0(i)

Unmeddled ==
    meddlings = 0 =>
        /\ Active => \A i \in 1 .. Len(batch) :
            IF Missing(batch[i]) THEN staged[At0(i)] = NoFile ELSE ItemPlace(i)
        /\ Settled

PlacesInv == RowsDiffer /\ Unmeddled

-----------------------------------------------------------------------------
(* With at most one failed call and nobody meddling.                       *)

Orderly == failures <= 1 /\ meddlings = 0
Open == {r \in journal : ~r.committed}
FileOf(a) == IF a \in gone THEN NoFile ELSE a

RowPlace(r) ==
    LET w == At(r) IN
    \/ /\ disk[r.original] = r.asset /\ staged[w] = NoFile
       /\ r.action = "rename" => disk[r.target] = NoFile
    \/ /\ disk[r.original] = NoFile /\ staged[w] = r.asset
       /\ r.action = "rename" => disk[r.target] = NoFile
    \/ /\ r.action = "rename"
       /\ disk[r.original] = NoFile /\ staged[w] = NoFile /\ disk[r.target] = r.asset

Apart(r, s) ==
    /\ s.asset # r.asset /\ s.original # r.original
    /\ s.target # r.original /\ r.target # s.original
    /\ s.target # r.target \/ r.target = Nowhere

(* Every open row belongs to the last batch, which did not commit, and its *)
(* file is in one of the row's own places.                                 *)
OpenRows ==
    \A r \in Open :
        /\ r.batch = number
        /\ row[r.asset] = r.original /\ r.asset \notin gone
        /\ \A a \in Assets : row[a] # r.target \/ r.target = Nowhere
        /\ RowPlace(r)
        /\ \A s \in Open : s # r => Apart(r, s)
        /\ \A s \in journal : s.batch = r.batch => ~s.committed

(* Any other file is where its asset's row says.                           *)
Home ==
    \A a \in Assets :
        (row[a] # Nowhere /\ \A r \in Open : r.asset # a) => disk[row[a]] = FileOf(a)

Tidy ==
    /\ OpenRows /\ Home
    /\ pc = "idle" => Open = {}
    /\ pc = "recover" => Open \subseteq pending
    /\ pc \in {"stage", "install", "commit"} => unresolved = {}
    /\ pc \in {"rollback", "clear"} =>
        /\ failures = 1
        /\ \A i \in 1 .. Len(batch) :
            ~Missing(batch[i]) => batch[i].asset \notin unresolved
    /\ pc \in Undecided => \A i \in 1 .. Len(batch) :
        batch[i].file = FileOf(batch[i].asset)

OrderlyInv == Orderly => Tidy

(* With no failed call.                                                    *)
Flawless ==
    /\ pc \notin {"refused", "rollback", "clear"}
    /\ pc = "idle" \/ ~rooted => journal = {}
    /\ pc = "recover" => pending = journal
    /\ Active => unresolved = {}
    /\ \A r \in journal :
        /\ r.batch = number
        /\ r.committed /\ r.action = "rename" => disk[r.target] # NoFile

FlawlessInv == (failures = 0 /\ meddlings = 0) => Flawless

-----------------------------------------------------------------------------
(* Lemmas *)

LEMMA AtItemTypes ==
    ASSUME TypeOK, Positions, Active, NEW i \in 1 .. Len(batch)
    PROVE  /\ batch[i] \in Changes
           /\ batch[i].asset \in Assets /\ batch[i].action \in Actions
           /\ batch[i].original \in Paths /\ batch[i].target \in Paths \cup {Nowhere}
           /\ batch[i].file \in Files
           /\ At0(i) \in Batches \X Assets
<1>1. batch \in Seq(Changes)
  BY DEF TypeOK
<1>2. batch[i] \in Changes
  BY <1>1
<1>3. number \in Batches
  BY DEF Positions
<1> QED
  BY <1>2, <1>3 DEF Changes, At0

LEMMA ItemTypes ==
    ASSUME TypeOK, Positions, Active
    PROVE  /\ index \in 1 .. Len(batch) /\ Len(batch) \in Nat
           /\ Item \in Changes /\ Item = batch[index]
           /\ Item.asset \in Assets /\ Item.action \in Actions
           /\ Item.original \in Paths /\ Item.target \in Paths \cup {Nowhere}
           /\ Item.file \in Files
           /\ number \in Batches
           /\ Staging \in Batches \X Assets /\ Staging = At0(index)
<1>1. batch \in Seq(Changes)
  BY DEF TypeOK
<1>2. index \in 1 .. Len(batch) /\ number \in Batches
  BY DEF Positions
<1>3. Item = batch[index] /\ Staging = At0(index)
  BY DEF Item, Staging, At0
<1> QED
  BY <1>1, <1>2, <1>3, AtItemTypes

LEMMA RowTypes ==
    ASSUME TypeOK, NEW r \in journal
    PROVE  /\ r \in JournalRows
           /\ r.batch \in Batches /\ r.asset \in Assets /\ r.action \in Actions
           /\ r.original \in Paths /\ r.target \in Paths \cup {Nowhere}
           /\ r.committed \in BOOLEAN
           /\ At(r) \in Batches \X Assets /\ At(r) = <<r.batch, r.asset>>
  BY DEF TypeOK, JournalRows, At

(* A file that is moved to an empty place is still present. *)
LEMMA MoveToStaging ==
    ASSUME TypeOK, NEW p \in Paths, NEW w \in Batches \X Assets, staged[w] = NoFile,
           staged' = [staged EXCEPT ![w] = disk[p]],
           disk' = [disk EXCEPT ![p] = NoFile]
    PROVE  FilesPresent \ {NoFile} \subseteq FilesPresent'
<1> SUFFICES ASSUME NEW f \in FilesPresent, f # NoFile
             PROVE  f \in FilesPresent'
  OBVIOUS
<1>1. CASE \E q \in Paths : f = disk[q] /\ q # p
  BY <1>1 DEF FilesPresent, TypeOK
<1>2. CASE f = disk[p]
  <2>1. staged'[w] = f
    BY <1>2 DEF TypeOK
  <2> QED
    BY <2>1 DEF FilesPresent
<1>3. CASE \E v \in Batches \X Assets : f = staged[v]
  <2> PICK v \in Batches \X Assets : f = staged[v]
    BY <1>3
  <2>1. staged'[v] = f
    BY DEF TypeOK
  <2> QED
    BY <2>1 DEF FilesPresent
<1> QED
  BY <1>1, <1>2, <1>3 DEF FilesPresent

LEMMA MoveFromStaging ==
    ASSUME TypeOK, NEW p \in Paths, NEW w \in Batches \X Assets, disk[p] = NoFile,
           staged' = [staged EXCEPT ![w] = NoFile],
           disk' = [disk EXCEPT ![p] = staged[w]]
    PROVE  FilesPresent \ {NoFile} \subseteq FilesPresent'
<1> SUFFICES ASSUME NEW f \in FilesPresent, f # NoFile
             PROVE  f \in FilesPresent'
  OBVIOUS
<1>1. CASE \E q \in Paths : f = disk[q]
  <2> PICK q \in Paths : f = disk[q]
    BY <1>1
  <2>1. disk'[q] = f
    BY DEF TypeOK
  <2> QED
    BY <2>1 DEF FilesPresent
<1>2. CASE f = staged[w]
  <2>1. disk'[p] = f
    BY <1>2 DEF TypeOK
  <2> QED
    BY <2>1 DEF FilesPresent
<1>3. CASE \E v \in Batches \X Assets : f = staged[v] /\ v # w
  <2> PICK v \in Batches \X Assets : f = staged[v] /\ v # w
    BY <1>3
  <2>1. staged'[v] = f
    BY DEF TypeOK
  <2> QED
    BY <2>1 DEF FilesPresent
<1> QED
  BY <1>1, <1>2, <1>3 DEF FilesPresent

LEMMA MoveOnDisk ==
    ASSUME TypeOK, NEW p \in Paths, NEW q \in Paths, p # q, disk[p] = NoFile,
           disk' = [disk EXCEPT ![p] = disk[q], ![q] = NoFile],
           UNCHANGED staged
    PROVE  FilesPresent \ {NoFile} \subseteq FilesPresent'
<1> SUFFICES ASSUME NEW f \in FilesPresent, f # NoFile
             PROVE  f \in FilesPresent'
  OBVIOUS
<1>1. CASE f = disk[q]
  <2>1. disk'[p] = f
    BY <1>1 DEF TypeOK
  <2> QED
    BY <2>1 DEF FilesPresent
<1>2. CASE \E o \in Paths : f = disk[o] /\ o # q
  <2> PICK o \in Paths : f = disk[o] /\ o # q
    BY <1>2
  <2>1. disk'[o] = f
    BY DEF TypeOK
  <2> QED
    BY <2>1 DEF FilesPresent
<1>3. CASE \E v \in Batches \X Assets : f = staged[v]
  BY <1>3 DEF FilesPresent
<1> QED
  BY <1>1, <1>2, <1>3 DEF FilesPresent

(* A staging path is emptied of what a committed deletion took. *)
LEMMA RemoveTaken ==
    ASSUME TypeOK, NEW w \in Batches \X Assets, staged[w] \in Taken,
           staged' = [staged EXCEPT ![w] = NoFile],
           UNCHANGED <<disk, gone, deleted>>, FilesSurvive
    PROVE  FilesSurvive'
<1> SUFFICES ASSUME NEW a \in Assets \ (gone \cup deleted)
             PROVE  a \in FilesPresent'
  BY DEF FilesSurvive
<1>1. a \in FilesPresent
  BY DEF FilesSurvive
<1>2. CASE \E q \in Paths : a = disk[q]
  BY <1>2 DEF FilesPresent
<1>3. CASE \E v \in Batches \X Assets : a = staged[v]
  <2> PICK v \in Batches \X Assets : a = staged[v]
    BY <1>3
  <2>1. v # w
    BY MarksAssumption DEF Taken
  <2>2. staged'[v] = a
    BY <2>1 DEF TypeOK
  <2> QED
    BY <2>2 DEF FilesPresent
<1> QED
  BY <1>1, <1>2, <1>3 DEF FilesPresent

LEMMA PresentSurvive ==
    ASSUME FilesSurvive, FilesPresent \ {NoFile} \subseteq FilesPresent',
           gone \subseteq gone', deleted \subseteq deleted'
    PROVE  FilesSurvive'
  BY MarksAssumption DEF FilesSurvive

-----------------------------------------------------------------------------
(* Every step keeps SafeInv                                                *)

LEMMA StageSafe == SafeInv /\ Stage => SafeInv'
<1> SUFFICES ASSUME SafeInv, Stage
             PROVE  SafeInv'
  OBVIOUS
<1> USE DEF SafeInv
<1>1. pc = "stage" /\ Active
  BY DEF Stage, Active, Undecided
<1>2. /\ UNCHANGED <<row, journal, batch, number, installed, unresolved, status, pending>>
      /\ UNCHANGED <<rooted, gone, deleted>>
      /\ UNCHANGED <<crashes, meddlings>>
      /\ failures' \in 0 .. MaxFailures
  BY BoundsAssumption DEF Stage, history, Fault, faults, TypeOK
<1>3. /\ index' \in 1 .. Len(batch)
      /\ pc' \in {"stage", "install", "rollback"}
      /\ pc' = "stage" => index' = index + 1
      /\ pc' = "install" => index = Len(batch) /\ index' = 1
  BY <1>1, ItemTypes DEF Stage, Continue, RollBack
<1>4. staged[Staging] = NoFile
  BY <1>1, ItemTypes DEF StagingFree
<1>5. \/ NothingMoves
      \/ ~Missing(Item) /\ disk[Item.original] # NoFile /\ ToStaging(Item.original)
  BY DEF Stage
<1>6. TypeOK'
  <2>1. disk' \in [Paths -> Files] /\ staged' \in [Batches \X Assets -> Files]
    BY <1>1, <1>5, ItemTypes DEF NothingMoves, ToStaging, TypeOK, Files
  <2>2. index' \in 0 .. MaxItems
    BY <1>3, BoundsAssumption DEF TypeOK
  <2> QED
    BY <1>2, <1>3, <2>1, <2>2 DEF TypeOK, Steps
<1>7. Positions' /\ BatchShape' /\ JournalShape'
  BY <1>1, <1>2, <1>3 DEF Positions, BatchShape, JournalShape, Missing
<1>8. CurrentRows'
  BY <1>1, <1>2, <1>3 DEF CurrentRows, RowOfItem, Missing, Active, Undecided, Decided
<1>9. ItemsJournaled'
  BY <1>1, <1>2, <1>3 DEF ItemsJournaled, Missing, At0, At
<1>10. \A w \in Batches \X Assets : w # Staging => staged'[w] = staged[w]
  BY <1>5, <1>1, ItemTypes DEF NothingMoves, ToStaging, TypeOK
<1>11. StagingFree'
  <2>1. \A w \in Batches \X Assets : w[1] > number' => staged'[w] = NoFile
    BY <1>1, <1>2, <1>10, ItemTypes DEF StagingFree, Staging, TypeOK
  <2>2. pc' = "stage" => \A i \in index' .. Len(batch') : staged'[At0(i)'] = NoFile
    <3> SUFFICES ASSUME pc' = "stage", NEW i \in index' .. Len(batch')
                 PROVE  staged'[At0(i)'] = NoFile
      OBVIOUS
    <3>1. i \in index .. Len(batch) /\ i # index /\ i \in 1 .. Len(batch)
      BY <1>1, <1>2, <1>3, ItemTypes
    <3>2. At0(i)' = At0(i) /\ At0(i) # Staging /\ At0(i) \in Batches \X Assets
      BY <1>1, <1>2, <3>1, AtItemTypes, ItemTypes DEF At0, BatchShape
    <3> QED
      BY <1>1, <1>10, <3>1, <3>2 DEF StagingFree
  <2>3. pc' \notin {"commit", "dropRow"} \cup Decided
    BY <1>3 DEF Decided
  <2>4. pc' = "install" => 1 .. index' - 1 = {}
    BY <1>3
  <2>5. \A r \in journal : r.committed /\ r.action = "rename" => staged'[At(r)] = NoFile
    <3> SUFFICES ASSUME NEW r \in journal, r.committed, r.action = "rename"
                 PROVE  staged'[At(r)] = NoFile
      OBVIOUS
    <3>1. r.batch # number
      BY <1>1 DEF CurrentRows, Decided
    <3>2. At(r) # Staging
      BY <3>1 DEF At, Staging
    <3> QED
      BY <3>2, <1>10, RowTypes DEF StagingFree
  <2> QED
    BY <1>2, <2>1, <2>2, <2>3, <2>4, <2>5 DEF StagingFree, At
<1>12. DeletionsTake'
  <2>1. pc' \notin Decided
    BY <1>3 DEF Decided
  <2>2. ASSUME NEW r \in journal, r.committed, r.action = "delete"
        PROVE  staged'[At(r)] \in Taken
    <3>1. r.batch # number
      BY <1>1, <2>2 DEF CurrentRows, Decided
    <3>2. At(r) # Staging
      BY <3>1 DEF At, Staging
    <3> QED
      BY <2>2, <3>2, <1>10, RowTypes DEF DeletionsTake
  <2> QED
    BY <1>2, <2>1, <2>2 DEF DeletionsTake, At, Taken
<1>13. FilesSurvive'
  <2>1. CASE NothingMoves
    BY <2>1, <1>2 DEF NothingMoves, FilesSurvive, FilesPresent
  <2>2. CASE ToStaging(Item.original)
    <3>1. FilesPresent \ {NoFile} \subseteq FilesPresent'
      BY <1>1, <1>4, <2>2, ItemTypes, MoveToStaging DEF ToStaging
    <3> QED
      BY <3>1, <1>2, PresentSurvive
  <2> QED
    BY <1>5, <2>1, <2>2
<1>14. StagedIsJournaled'
  <2> SUFFICES ASSUME NEW w \in Batches \X Assets, staged'[w] # NoFile
               PROVE  \E r \in journal : At(r) = w
    BY <1>2 DEF StagedIsJournaled, At
  <2>1. CASE w # Staging
    BY <2>1, <1>10 DEF StagedIsJournaled
  <2>2. CASE w = Staging
    <3>1. ~Missing(Item)
      BY <1>4, <1>5, <2>2 DEF NothingMoves
    <3> QED
      BY <1>1, <2>2, <3>1, ItemTypes DEF ItemsJournaled
  <2> QED
    BY <2>1, <2>2
<1>15. InstalledRenames'
  BY <1>2 DEF InstalledRenames
<1> QED
  BY <1>15, <1>6, <1>7, <1>8, <1>9, <1>11, <1>12, <1>13, <1>14

(* From here on staging paths are only emptied. *)
Emptying == \A w \in Batches \X Assets : staged'[w] \in {staged[w], NoFile}

LEMMA InstallSafe == SafeInv /\ Install => SafeInv'
<1> SUFFICES ASSUME SafeInv, Install
             PROVE  SafeInv'
  OBVIOUS
<1> USE DEF SafeInv
<1>1. pc = "install" /\ Active
  BY DEF Install, Active, Undecided
<1>2. /\ UNCHANGED <<row, journal, batch, number, unresolved, status, pending>>
      /\ UNCHANGED <<rooted, gone, deleted>>
      /\ UNCHANGED <<crashes, meddlings>>
      /\ failures' \in 0 .. MaxFailures
  BY BoundsAssumption DEF Install, history, Fault, faults, TypeOK
<1>3. /\ index' \in 1 .. Len(batch)
      /\ pc' \in {"install", "commit", "rollback"}
      /\ pc' = "install" => index' = index + 1
      /\ pc' = "commit" => index = Len(batch)
  BY <1>1, ItemTypes DEF Install, Continue, RollBack
<1>4. \/ NothingMoves
      \/ Item.action = "rename" /\ CanInstall /\ FromStaging(Item.target)
  BY DEF Install
<1>5. Item.action = "rename" => Item.target \in Paths
  BY <1>1, ItemTypes DEF BatchShape
<1>6. Emptying
  BY <1>1, <1>4, ItemTypes DEF NothingMoves, FromStaging, TypeOK, Emptying
<1>7. pc' # "rollback" /\ Item.action = "rename" => staged'[Staging] = NoFile
  BY <1>1, ItemTypes DEF Install, FromStaging, RollBack, TypeOK
<1>8. TypeOK'
  <2>1. disk' \in [Paths -> Files] /\ staged' \in [Batches \X Assets -> Files]
    BY <1>1, <1>4, <1>5, ItemTypes DEF NothingMoves, FromStaging, TypeOK, Files
  <2>2. index' \in 0 .. MaxItems
    BY <1>3, BoundsAssumption DEF TypeOK
  <2>3. installed' \subseteq Assets
    BY <1>1, ItemTypes DEF Install, TypeOK
  <2> QED
    BY <1>2, <1>3, <2>1, <2>2, <2>3 DEF TypeOK, Steps
<1>9. Positions' /\ BatchShape' /\ JournalShape'
  BY <1>1, <1>2, <1>3 DEF Positions, BatchShape, JournalShape, Missing
<1>10. CurrentRows' /\ ItemsJournaled'
  BY <1>1, <1>2, <1>3 DEF CurrentRows, ItemsJournaled, RowOfItem, Missing, At, At0, Active, Undecided,
         Decided
<1>11. StagingFree'
  <2>1. \A w \in Batches \X Assets : w[1] > number' => staged'[w] = NoFile
    BY <1>2, <1>6 DEF StagingFree, Emptying
  <2>2. ASSUME NEW i \in 1 .. Len(batch), batch[i].action = "rename", i <= index,
               pc' \in {"install", "commit"}
        PROVE  staged'[At0(i)] = NoFile
    <3>1. CASE i = index
      BY <1>1, <1>7, <2>2, <3>1, ItemTypes
    <3>2. CASE i < index
      <4>1. i \in 1 .. index - 1
        BY <3>2, <1>1, ItemTypes
      <4> QED
        BY <1>1, <1>6, <2>2, <4>1, AtItemTypes DEF StagingFree, Emptying
    <3> QED
      BY <1>1, <2>2, <3>1, <3>2, ItemTypes
  <2>3. pc' = "install" => \A i \in 1 .. index' - 1 :
            batch[i].action = "rename" => staged'[At0(i)] = NoFile
    BY <1>1, <1>3, <2>2, ItemTypes
  <2>4. pc' = "commit" => \A i \in 1 .. Len(batch) :
            batch[i].action = "rename" => staged'[At0(i)] = NoFile
    BY <1>1, <1>3, <2>2, ItemTypes
  <2>5. \A r \in journal : r.committed /\ r.action = "rename" => staged'[At(r)] = NoFile
    BY <1>6, RowTypes DEF StagingFree, Emptying
  <2> QED
    BY <1>2, <1>3, <2>1, <2>3, <2>4, <2>5 DEF StagingFree, At, At0, Decided
<1>12. DeletionsTake'
  <2>1. pc' \notin Decided
    BY <1>3 DEF Decided
  <2>2. \A r \in journal : r.committed /\ r.action = "delete" => staged'[At(r)] \in Taken
    BY <1>6, RowTypes DEF DeletionsTake, Emptying, Taken
  <2> QED
    BY <1>2, <2>1, <2>2 DEF DeletionsTake, At, Taken
<1>13. FilesSurvive'
  <2>1. CASE NothingMoves
    BY <2>1, <1>2 DEF NothingMoves, FilesSurvive, FilesPresent
  <2>2. CASE Item.action = "rename" /\ CanInstall /\ FromStaging(Item.target)
    <3>1. FilesPresent \ {NoFile} \subseteq FilesPresent'
      BY <1>1, <1>5, <2>2, ItemTypes, MoveFromStaging DEF FromStaging, CanInstall
    <3> QED
      BY <3>1, <1>2, PresentSurvive
  <2> QED
    BY <1>4, <2>1, <2>2
<1>14. StagedIsJournaled'
  BY <1>2, <1>6 DEF StagedIsJournaled, At, Emptying
<1>15. InstalledRenames'
  BY <1>1, <1>2, ItemTypes DEF Install, InstalledRenames, BatchShape
<1> QED
  BY <1>15, <1>8, <1>9, <1>10, <1>11, <1>12, <1>13, <1>14

Flagged(r) == IF r.batch = number THEN [r EXCEPT !.committed = TRUE] ELSE r

LEMMA FlaggedTypes ==
    ASSUME NEW r \in JournalRows
    PROVE  /\ Flagged(r) \in JournalRows
           /\ Flagged(r).batch = r.batch /\ Flagged(r).asset = r.asset
           /\ Flagged(r).action = r.action
           /\ Flagged(r).original = r.original /\ Flagged(r).target = r.target
           /\ Flagged(r).committed = (r.committed \/ r.batch = number)
           /\ At(Flagged(r)) = At(r)
  BY DEF Flagged, JournalRows, At

LEMMA RowsAfterItem ==
    ASSUME TypeOK, Positions, Active, BatchShape, NEW i \in 1 .. Len(batch)
    PROVE  RowsAfter[batch[i].asset] = batch[i].target
<1> DEFINE n == CHOOSE n \in 1 .. Len(batch) : batch[n].asset = batch[i].asset
<1>1. n \in 1 .. Len(batch) /\ batch[n].asset = batch[i].asset
  OBVIOUS
<1>2. n = i
  BY <1>1 DEF BatchShape
<1>3. batch[i].asset \in Assets
  BY AtItemTypes
<1>4. RowsAfter[batch[i].asset] = batch[n].target
  BY <1>3 DEF RowsAfter
<1> QED
  BY <1>2, <1>4

LEMMA RowsAfterOther ==
    ASSUME NEW a \in Assets, \A i \in 1 .. Len(batch) : batch[i].asset # a
    PROVE  RowsAfter[a] = row[a]
  BY DEF RowsAfter

LEMMA RowsAfterTypes ==
    ASSUME TypeOK, Positions, Active, BatchShape
    PROVE  RowsAfter \in [Assets -> Paths \cup {Nowhere}]
<1>1. ASSUME NEW a \in Assets
      PROVE  RowsAfter[a] \in Paths \cup {Nowhere}
  <2>1. CASE \E i \in 1 .. Len(batch) : batch[i].asset = a
    BY <2>1, RowsAfterItem, AtItemTypes
  <2>2. CASE \A i \in 1 .. Len(batch) : batch[i].asset # a
    BY <2>2, RowsAfterOther DEF TypeOK
  <2> QED
    BY <2>1, <2>2
<1>2. RowsAfter = [a \in Assets |-> RowsAfter[a]]
  BY DEF RowsAfter
<1> QED
  BY <1>1, <1>2

LEMMA CommitSafe == SafeInv /\ Commit => SafeInv'
<1> SUFFICES ASSUME SafeInv, Commit
             PROVE  SafeInv'
  OBVIOUS
<1> USE DEF SafeInv
<1>1. pc = "commit" /\ Active
  BY DEF Commit, Active, Undecided
<1>2. /\ UNCHANGED <<disk, staged, batch, number, installed, unresolved, status, pending>>
      /\ UNCHANGED <<rooted, gone>>
      /\ UNCHANGED <<crashes, meddlings>>
      /\ failures' \in 0 .. MaxFailures
  BY BoundsAssumption DEF Commit, Fault, faults, TypeOK
<1>3. pending = {}
  BY <1>1 DEF JournalShape
<1>4. Len(batch) >= 1 /\ Len(batch) \in 0 .. MaxItems
  BY <1>1, ItemTypes DEF TypeOK
<1>a. CASE RollBack /\ UNCHANGED <<row, journal, deleted>>
  <2>1. pc' = "rollback" /\ index' = Len(batch)
    BY <1>a DEF RollBack
  <2>2. TypeOK'
    BY <1>2, <1>4, <1>a, <2>1 DEF TypeOK, Steps
  <2>3. Positions' /\ BatchShape' /\ InstalledRenames' /\ JournalShape'
    BY <1>1, <1>2, <1>3, <1>4, <1>a, <2>1 DEF Positions, BatchShape, InstalledRenames, JournalShape, Missing
  <2>4. CurrentRows' /\ ItemsJournaled'
    BY <1>1, <1>2, <1>a, <2>1
       DEF CurrentRows, ItemsJournaled, RowOfItem, Missing, At, At0, Active, Undecided,
         Decided
  <2>5. StagingFree' /\ DeletionsTake'
    BY <1>2, <1>a, <2>1 DEF StagingFree, DeletionsTake, At, At0, Decided, Taken
  <2>6. FilesSurvive' /\ StagedIsJournaled'
    BY <1>2, <1>a DEF FilesSurvive, FilesPresent, StagedIsJournaled, At
  <2> QED
    BY <2>2, <2>3, <2>4, <2>5, <2>6
<1>b. CASE /\ row' = RowsAfter /\ deleted' = deleted \cup DeletedFiles
           /\ journal' = {Flagged(r) : r \in journal}
           /\ pc' = "finish" /\ index' = 1
  <2>1. journal' \subseteq JournalRows
    BY <1>b, FlaggedTypes DEF TypeOK
  <2>2. TypeOK'
    <3>1. row' \in [Assets -> Paths \cup {Nowhere}]
      BY <1>1, <1>b, RowsAfterTypes
    <3>2. deleted' \subseteq Assets
      BY <1>b DEF TypeOK, DeletedFiles
    <3>3. index' \in 0 .. MaxItems
      BY <1>4, <1>b, BoundsAssumption
    <3> QED
      BY <1>2, <1>b, <2>1, <3>1, <3>2, <3>3 DEF TypeOK, Steps
  <2>3. Positions' /\ BatchShape' /\ InstalledRenames'
    BY <1>1, <1>2, <1>4, <1>b DEF Positions, BatchShape, InstalledRenames, Missing
  <2>4. JournalShape'
    BY <1>2, <1>3, <1>b, FlaggedTypes, RowTypes DEF JournalShape
  <2>5. CurrentRows' /\ ItemsJournaled'
    <3> SUFFICES ASSUME NEW s \in journal, s.batch = number
                 PROVE  /\ \E i \in 1 .. Len(batch) : RowOfItem(Flagged(s), i)
                        /\ Flagged(s).committed
      <4>1. \A s \in journal : Flagged(s).batch = s.batch
        BY FlaggedTypes, RowTypes
      <4> QED
        BY <1>2, <1>b, <4>1 DEF CurrentRows, ItemsJournaled, RowOfItem, Missing, Decided
    <3>1. PICK i \in 1 .. Len(batch) : RowOfItem(s, i)
      BY <1>1 DEF CurrentRows
    <3>2. RowOfItem(Flagged(s), i)
      BY <3>1, FlaggedTypes, RowTypes DEF RowOfItem
    <3> QED
      BY <3>2, FlaggedTypes, RowTypes
  <2>6. ASSUME NEW i \in 1 .. Len(batch), batch[i].action = "delete"
        PROVE  staged[At0(i)] \in Taken'
    <3>1. staged[At0(i)] \in Assets => staged[At0(i)] \in DeletedFiles
      BY <2>6 DEF DeletedFiles, At0
    <3>2. staged[At0(i)] \in Files
      BY <1>1, AtItemTypes DEF TypeOK
    <3> QED
      BY <1>b, <3>1, <3>2 DEF Taken, Files
  <2>7. ASSUME NEW i \in 1 .. Len(batch), batch[i].action = "rename"
        PROVE  staged[At0(i)] = NoFile
    BY <1>1, <2>7 DEF StagingFree
  <2>8. ASSUME NEW r \in journal, r.batch = number
        PROVE  /\ r.action = "rename" => staged[At(r)] = NoFile
               /\ r.action = "delete" => staged[At(r)] \in Taken'
    <3>1. PICK i \in 1 .. Len(batch) : RowOfItem(r, i)
      BY <1>1, <2>8 DEF CurrentRows
    <3>2. At(r) = At0(i)
      BY <2>8, <3>1 DEF At, At0, RowOfItem
    <3> QED
      BY <2>6, <2>7, <3>1, <3>2 DEF RowOfItem
  <2>9. ASSUME NEW r \in journal', r.committed
        PROVE  /\ r.action = "rename" => staged[At(r)] = NoFile
               /\ r.action = "delete" => staged[At(r)] \in Taken'
    <3>1. PICK s \in journal : r = Flagged(s)
      BY <1>b, <2>9
    <3>2. s \in JournalRows
      BY DEF TypeOK
    <3>3. At(r) = At(s) /\ r.action = s.action /\ (s.batch = number \/ s.committed)
      BY <2>9, <3>1, <3>2, FlaggedTypes
    <3>4. CASE s.batch = number
      BY <2>8, <3>3, <3>4
    <3>5. CASE s.committed
      BY <1>b, <3>3, <3>5 DEF StagingFree, DeletionsTake, Taken
    <3> QED
      BY <3>3, <3>4, <3>5
  <2>10. StagingFree'
    BY <1>2, <1>b, <2>7, <2>9 DEF StagingFree, At, At0, Decided
  <2>11. DeletionsTake'
    BY <1>2, <1>b, <2>6, <2>9 DEF DeletionsTake, At, At0
  <2>12. FilesSurvive'
    BY <1>2, <1>b DEF FilesSurvive, FilesPresent
  <2>13. StagedIsJournaled'
    <3> SUFFICES ASSUME NEW w \in Batches \X Assets, staged[w] # NoFile
                 PROVE  \E r \in journal' : At(r) = w
      BY <1>2 DEF StagedIsJournaled, At
    <3>1. PICK r \in journal : At(r) = w
      BY DEF StagedIsJournaled
    <3>2. At(Flagged(r)) = w /\ Flagged(r) \in journal'
      BY <1>b, <3>1, FlaggedTypes DEF TypeOK
    <3> QED
      BY <3>2
  <2> QED
    BY <2>2, <2>3, <2>4, <2>5, <2>10, <2>11, <2>12, <2>13
<1> QED
  BY <1>a, <1>b DEF Commit, Flagged

LEMMA FinishSafe == SafeInv /\ Finish => SafeInv'
<1> SUFFICES ASSUME SafeInv, Finish
             PROVE  SafeInv'
  OBVIOUS
<1> USE DEF SafeInv
<1>1. pc = "finish" /\ Active /\ pc \in Decided
  BY DEF Finish, Active, Decided
<1>2. /\ UNCHANGED <<row, disk, journal, batch, number, installed, pending>>
      /\ UNCHANGED <<rooted, gone, deleted>>
      /\ UNCHANGED <<crashes, meddlings>>
      /\ failures' \in 0 .. MaxFailures
  BY BoundsAssumption DEF Finish, history, Fault, faults, TypeOK
<1>3. /\ index' \in 0 .. Len(batch)
      /\ pc' \in {"finish", "dropRow"} => index' \in 1 .. Len(batch)
      /\ pc' = "dropRow" => index' = index
      /\ pc' \in {"finish", "dropRow", "idle"}
      /\ status' \in Reports /\ unresolved' \subseteq Assets
  BY <1>1, ItemTypes DEF Finish, Report, TypeOK, Reports, Resolved, Unresolved
<1>4. UNCHANGED staged \/ staged' = [staged EXCEPT ![Staging] = NoFile]
  BY DEF Finish
<1>5. pc' = "dropRow" => staged'[Staging] = NoFile
  BY <1>1, ItemTypes DEF Finish, Report, TypeOK
<1>6. staged[Staging] \in Taken
  BY <1>1, ItemTypes DEF DeletionsTake, StagingFree, Taken, Actions
<1>7. Emptying
  BY <1>1, <1>4, ItemTypes DEF TypeOK, Emptying
<1>8. TypeOK'
  <2>1. staged' \in [Batches \X Assets -> Files]
    BY <1>4 DEF TypeOK, Files
  <2>2. index' \in 0 .. MaxItems
    BY <1>1, <1>3, ItemTypes, BoundsAssumption DEF TypeOK
  <2> QED
    BY <1>2, <1>3, <2>1, <2>2 DEF TypeOK, Steps
<1>9. Positions' /\ BatchShape' /\ JournalShape'
  BY <1>1, <1>2, <1>3 DEF Positions, BatchShape, JournalShape, Missing, Active, Undecided, Decided
<1>10. CurrentRows' /\ ItemsJournaled'
  BY <1>1, <1>2, <1>3 DEF CurrentRows, ItemsJournaled, RowOfItem, Missing, At, At0, Active, Undecided,
         Decided
<1>11. StagingFree'
  <2>1. \A w \in Batches \X Assets : w[1] > number' => staged'[w] = NoFile
    BY <1>2, <1>7 DEF StagingFree, Emptying
  <2>2. \A i \in 1 .. Len(batch) : batch[i].action = "rename" => staged'[At0(i)] = NoFile
    BY <1>1, <1>7, AtItemTypes DEF StagingFree, Emptying
  <2>3. pc' = "dropRow" => staged'[At0(index')] = NoFile
    BY <1>1, <1>3, <1>5, ItemTypes
  <2>4. \A r \in journal : r.committed /\ r.action = "rename" => staged'[At(r)] = NoFile
    BY <1>7, RowTypes DEF StagingFree, Emptying
  <2> QED
    BY <1>2, <1>3, <2>1, <2>2, <2>3, <2>4 DEF StagingFree, At, At0
<1>12. DeletionsTake'
  <2>1. \A i \in 1 .. Len(batch) : batch[i].action = "delete" => staged'[At0(i)] \in Taken
    BY <1>1, <1>7, AtItemTypes DEF DeletionsTake, Emptying, Taken
  <2>2. \A r \in journal : r.committed /\ r.action = "delete" => staged'[At(r)] \in Taken
    BY <1>7, RowTypes DEF DeletionsTake, Emptying, Taken
  <2> QED
    BY <1>2, <2>1, <2>2 DEF DeletionsTake, At, At0, Taken
<1>13. FilesSurvive'
  <2>1. CASE UNCHANGED staged
    BY <2>1, <1>2 DEF FilesSurvive, FilesPresent
  <2>2. CASE staged' = [staged EXCEPT ![Staging] = NoFile]
    BY <1>1, <1>2, <1>6, <2>2, ItemTypes, RemoveTaken
  <2> QED
    BY <1>4, <2>1, <2>2
<1>14. StagedIsJournaled'
  BY <1>2, <1>7 DEF StagedIsJournaled, At, Emptying
<1>15. InstalledRenames'
  BY <1>2 DEF InstalledRenames
<1> QED
  BY <1>15, <1>8, <1>9, <1>10, <1>11, <1>12, <1>13, <1>14

(* A row whose staging path is empty may go. *)
LEMMA RowsMayGo ==
    ASSUME StagedIsJournaled, UNCHANGED staged, NEW w, staged[w] = NoFile,
           \A r \in journal : At(r) # w => r \in journal'
    PROVE  StagedIsJournaled'
  BY DEF StagedIsJournaled, At

LEMMA DropRowSafe == SafeInv /\ DropRow => SafeInv'
<1> SUFFICES ASSUME SafeInv, DropRow
             PROVE  SafeInv'
  OBVIOUS
<1> USE DEF SafeInv
<1>1. pc = "dropRow" /\ Active /\ pc \in Decided
  BY DEF DropRow, Active, Decided
<1>2. /\ UNCHANGED <<row, disk, staged, batch, number, installed, pending>>
      /\ UNCHANGED <<rooted, gone, deleted>>
      /\ UNCHANGED <<crashes, meddlings>>
      /\ failures' \in 0 .. MaxFailures
  BY BoundsAssumption DEF DropRow, history, Fault, faults, TypeOK
<1>3. /\ index' \in 0 .. Len(batch)
      /\ pc' = "finish" => index' \in 1 .. Len(batch)
      /\ pc' \in {"finish", "idle"}
      /\ status' \in Reports /\ unresolved' \subseteq Assets
  BY <1>1, ItemTypes DEF DropRow, Report, TypeOK, Reports, Resolved, Unresolved
<1>4. journal' \subseteq journal /\ \A r \in journal : At(r) # Staging => r \in journal'
  BY DEF DropRow, RowOf, At, Staging
<1>5. staged[Staging] = NoFile
  BY <1>1, ItemTypes DEF StagingFree
<1>6. pending = {}
  BY <1>1 DEF JournalShape
<1>7. TypeOK'
  <2>1. index' \in 0 .. MaxItems
    BY <1>1, <1>3, ItemTypes, BoundsAssumption DEF TypeOK
  <2> QED
    BY <1>2, <1>3, <1>4, <2>1 DEF TypeOK, Steps
<1>8. Positions' /\ BatchShape' /\ JournalShape'
  BY <1>1, <1>2, <1>3, <1>4, <1>6
     DEF Positions, BatchShape, JournalShape, Missing, Active, Undecided, Decided
<1>9. CurrentRows' /\ ItemsJournaled'
  BY <1>1, <1>2, <1>3, <1>4
     DEF CurrentRows, ItemsJournaled, RowOfItem, Missing, At, At0, Active, Undecided,
         Decided
<1>10. StagingFree' /\ DeletionsTake'
  BY <1>1, <1>2, <1>3, <1>4 DEF StagingFree, DeletionsTake, At, At0, Taken
<1>11. FilesSurvive'
  BY <1>2 DEF FilesSurvive, FilesPresent
<1>12. StagedIsJournaled'
  BY <1>2, <1>4, <1>5, RowsMayGo
<1>15. InstalledRenames'
  BY <1>2 DEF InstalledRenames
<1> QED
  BY <1>15, <1>7, <1>8, <1>9, <1>10, <1>11, <1>12

LEMMA RollbackSafe == SafeInv /\ Rollback => SafeInv'
<1> SUFFICES ASSUME SafeInv, Rollback
             PROVE  SafeInv'
  OBVIOUS
<1> USE DEF SafeInv
<1>1. pc = "rollback" /\ Active
  BY DEF Rollback, Active, Undecided
<1>2. /\ UNCHANGED <<row, journal, batch, number, status, pending>>
      /\ UNCHANGED <<rooted, gone, deleted>>
      /\ UNCHANGED <<crashes, meddlings>>
      /\ failures' \in 0 .. MaxFailures
  <2>1. failures' \in 0 .. MaxFailures /\ UNCHANGED <<crashes, meddlings>>
    <3>1. UNCHANGED faults \/ Fault
      BY DEF Rollback
    <3> QED
      BY <3>1, BoundsAssumption DEF Fault, faults, TypeOK
  <2>2. /\ UNCHANGED <<row, journal, batch, number, status, pending>>
        /\ UNCHANGED <<rooted, gone, deleted>>
    BY DEF Rollback, history
  <2> QED
    BY <2>1, <2>2
<1>3. /\ index' \in 1 .. Len(batch)
      /\ pc' \in {"rollback", "clear"}
      /\ installed' \subseteq Assets /\ unresolved' \subseteq Assets
  BY <1>1, ItemTypes DEF Rollback, RollbackDone, TypeOK, Resolved, Unresolved
<1>4. \/ NothingMoves
      \/ /\ disk[Item.original] = NoFile /\ FromStaging(Item.original)
      \/ /\ disk[Item.original] = NoFile /\ disk[Item.target] # NoFile /\ UNCHANGED staged
         /\ Item.asset \in installed
         /\ disk' = [disk EXCEPT ![Item.original] = disk[Item.target], ![Item.target] = NoFile]
  BY DEF Rollback, MoveBack, FromCurrent
<1>5. Item.asset \in installed => Item.target \in Paths /\ Item.target # Item.original
  BY <1>1, ItemTypes DEF InstalledRenames, BatchShape
<1>6. Emptying
  BY <1>1, <1>4, ItemTypes DEF NothingMoves, FromStaging, TypeOK, Emptying
<1>7. TypeOK'
  <2>1. disk' \in [Paths -> Files] /\ staged' \in [Batches \X Assets -> Files]
    <3>1. CASE NothingMoves
      BY <3>1 DEF NothingMoves, TypeOK
    <3>2. CASE FromStaging(Item.original)
      BY <1>1, <3>2, ItemTypes DEF FromStaging, TypeOK, Files
    <3>3. CASE /\ UNCHANGED staged /\ Item.asset \in installed
               /\ disk' = [disk EXCEPT ![Item.original] = disk[Item.target],
                                       ![Item.target] = NoFile]
      BY <1>1, <1>5, <3>3, ItemTypes DEF TypeOK, Files
    <3> QED
      BY <1>4, <3>1, <3>2, <3>3
  <2>2. index' \in 0 .. MaxItems
    BY <1>1, <1>3, ItemTypes, BoundsAssumption DEF TypeOK
  <2> QED
    BY <1>2, <1>3, <2>1, <2>2 DEF TypeOK, Steps
<1>8. Positions' /\ BatchShape' /\ JournalShape'
  BY <1>1, <1>2, <1>3 DEF Positions, BatchShape, JournalShape, Missing
<1>9. CurrentRows' /\ ItemsJournaled'
  BY <1>1, <1>2, <1>3
     DEF CurrentRows, ItemsJournaled, RowOfItem, Missing, At, At0, Active, Undecided,
         Decided
<1>10. InstalledRenames'
  BY <1>2 DEF Rollback, RollbackDone, InstalledRenames
<1>11. StagingFree' /\ DeletionsTake'
  <2>1. \A w \in Batches \X Assets : w[1] > number' => staged'[w] = NoFile
    BY <1>2, <1>6 DEF StagingFree, Emptying
  <2>2. \A r \in journal : r.committed =>
            /\ r.action = "rename" => staged'[At(r)] = NoFile
            /\ r.action = "delete" => staged'[At(r)] \in Taken
    BY <1>6, RowTypes DEF StagingFree, DeletionsTake, Emptying, Taken
  <2> QED
    BY <1>2, <1>3, <2>1, <2>2 DEF StagingFree, DeletionsTake, At, At0, Decided, Taken
<1>12. FilesSurvive'
  <2>1. CASE NothingMoves
    BY <2>1, <1>2 DEF NothingMoves, FilesSurvive, FilesPresent
  <2>2. CASE disk[Item.original] = NoFile /\ FromStaging(Item.original)
    <3>1. FilesPresent \ {NoFile} \subseteq FilesPresent'
      BY <1>1, <2>2, ItemTypes, MoveFromStaging DEF FromStaging
    <3> QED
      BY <3>1, <1>2, PresentSurvive
  <2>3. CASE /\ disk[Item.original] = NoFile /\ UNCHANGED staged /\ Item.asset \in installed
             /\ disk' = [disk EXCEPT ![Item.original] = disk[Item.target],
                                     ![Item.target] = NoFile]
    <3>1. FilesPresent \ {NoFile} \subseteq FilesPresent'
      BY <1>1, <1>5, <2>3, ItemTypes, MoveOnDisk
    <3> QED
      BY <3>1, <1>2, PresentSurvive
  <2> QED
    BY <1>4, <2>1, <2>2, <2>3
<1>13. StagedIsJournaled'
  BY <1>2, <1>6 DEF StagedIsJournaled, At, Emptying
<1> QED
  BY <1>7, <1>8, <1>9, <1>10, <1>11, <1>12, <1>13

LEMMA ClearSafe == SafeInv /\ Clear => SafeInv'
<1> SUFFICES ASSUME SafeInv, Clear
             PROVE  SafeInv'
  OBVIOUS
<1> USE DEF SafeInv
<1>1. pc = "clear" /\ Active
  BY DEF Clear, Active, Undecided
<1>2. /\ UNCHANGED <<row, disk, staged, batch, number, installed, pending>>
      /\ UNCHANGED <<rooted, gone, deleted>>
      /\ UNCHANGED <<crashes, meddlings>>
      /\ failures' \in 0 .. MaxFailures
  BY BoundsAssumption DEF Clear, history, Fault, faults, TypeOK
<1>3. /\ index' \in 0 .. Len(batch)
      /\ pc' = "clear" => index' \in 1 .. Len(batch)
      /\ pc' \in {"clear", "idle"}
      /\ status' \in Reports /\ unresolved' \subseteq Assets
  BY <1>1, ItemTypes DEF Clear, Report, TypeOK, Reports, Resolved, Unresolved
<1>4. /\ journal' \subseteq journal
      /\ \A r \in journal : At(r) # Staging => r \in journal'
      /\ journal' = journal \/ staged[Staging] = NoFile
  BY DEF Clear, RowOf, At, Staging, Restored, Staged
<1>5. pending = {}
  BY <1>1 DEF JournalShape
<1>6. TypeOK'
  <2>1. index' \in 0 .. MaxItems
    BY <1>1, <1>3, ItemTypes, BoundsAssumption DEF TypeOK
  <2> QED
    BY <1>2, <1>3, <1>4, <2>1 DEF TypeOK, Steps
<1>7. Positions' /\ BatchShape' /\ JournalShape' /\ InstalledRenames'
  BY <1>1, <1>2, <1>3, <1>4, <1>5
     DEF Positions, BatchShape, JournalShape, InstalledRenames, Missing, Active, Undecided, Decided
<1>8. CurrentRows' /\ ItemsJournaled'
  BY <1>1, <1>2, <1>3, <1>4
     DEF CurrentRows, ItemsJournaled, RowOfItem, Missing, At, At0, Active, Undecided,
         Decided
<1>9. StagingFree' /\ DeletionsTake'
  BY <1>1, <1>2, <1>3, <1>4 DEF StagingFree, DeletionsTake, At, At0, Decided, Taken
<1>10. FilesSurvive'
  BY <1>2 DEF FilesSurvive, FilesPresent
<1>11. StagedIsJournaled'
  BY <1>2, <1>4, RowsMayGo DEF StagedIsJournaled, At
<1> QED
  BY <1>6, <1>7, <1>8, <1>9, <1>10, <1>11

(* The changes of a new batch. *)
LEMMA BeginBatch ==
    ASSUME SafeInv, NEW n \in 1 .. MaxItems,
           NEW f \in [1 .. n -> Indexed \X (Paths \cup {Nowhere})],
           Begin([i \in 1 .. n |-> Change(f[i][1], f[i][2])])
    PROVE  /\ batch' \in Seq(Changes) /\ Len(batch') = n
           /\ \A i \in 1 .. n :
                /\ batch'[i] = Change(f[i][1], f[i][2])
                /\ f[i][1] \in Assets /\ row[f[i][1]] \in Paths
                /\ f[i][2] \in Paths \cup {Nowhere}
                /\ batch'[i] \in Changes /\ batch'[i].asset = f[i][1]
                /\ batch'[i].target = f[i][2]
                /\ batch'[i].original = row[f[i][1]]
                /\ batch'[i].file = disk[row[f[i][1]]]
                /\ batch'[i].action = (IF f[i][2] = Nowhere THEN "delete" ELSE "rename")
           /\ Acceptable(batch')
<1> DEFINE changes == [i \in 1 .. n |-> Change(f[i][1], f[i][2])]
<1>1. batch' = changes /\ Acceptable(changes)
  BY DEF Begin
<1>2. ASSUME NEW i \in 1 .. n
      PROVE  /\ f[i][1] \in Assets /\ row[f[i][1]] \in Paths
             /\ f[i][2] \in Paths \cup {Nowhere}
  BY DEF Indexed, SafeInv, TypeOK
<1>3. ASSUME NEW i \in 1 .. n
      PROVE  /\ Change(f[i][1], f[i][2]) \in Changes
             /\ Change(f[i][1], f[i][2]).asset = f[i][1]
             /\ Change(f[i][1], f[i][2]).target = f[i][2]
             /\ Change(f[i][1], f[i][2]).original = row[f[i][1]]
             /\ Change(f[i][1], f[i][2]).file = disk[row[f[i][1]]]
             /\ Change(f[i][1], f[i][2]).action =
                    (IF f[i][2] = Nowhere THEN "delete" ELSE "rename")
  <2>1. disk[row[f[i][1]]] \in Files
    BY <1>2 DEF SafeInv, TypeOK
  <2> QED
    BY <1>2, <2>1 DEF Change, Changes, Actions
<1>4. n \in Nat
  BY BoundsAssumption
<1>5. changes \in Seq(Changes) /\ Len(changes) = n
  BY <1>3, <1>4
<1>6. \A i \in 1 .. n : changes[i] = Change(f[i][1], f[i][2])
  OBVIOUS
<1> HIDE DEF changes
<1> QED
  BY <1>1, <1>2, <1>3, <1>5, <1>6

BeginRow(c, number1) ==
    [batch |-> number1, asset |-> c.asset, action |-> c.action,
     original |-> c.original, target |-> c.target, committed |-> FALSE]

LEMMA BeginJournal ==
    ASSUME SafeInv, NEW n \in 1 .. MaxItems,
           NEW f \in [1 .. n -> Indexed \X (Paths \cup {Nowhere})],
           Begin([i \in 1 .. n |-> Change(f[i][1], f[i][2])])
    PROVE  /\ journal \subseteq journal' /\ journal' \subseteq JournalRows
           /\ \A r \in journal' \ journal :
                \E i \in 1 .. n : ~Missing(batch'[i]) /\ r = BeginRow(batch'[i], number + 1)
           /\ \A i \in 1 .. n :
                ~Missing(batch'[i]) => BeginRow(batch'[i], number + 1) \in journal'
<1> DEFINE changes == [i \in 1 .. n |-> Change(f[i][1], f[i][2])]
<1>1. batch' = changes
  BY DEF Begin
<1>2. journal' = journal \cup
         {BeginRow(c, number + 1) :
            c \in {changes[i] : i \in {m \in 1 .. Len(changes) : ~Missing(changes[m])}}}
  BY DEF Begin, BeginRow
<1>3. Len(batch') = n /\ \A i \in 1 .. n : batch'[i] \in Changes
  BY BeginBatch
<1>4. number + 1 \in Batches
  BY BoundsAssumption DEF Begin, SafeInv, TypeOK, Batches
<1> HIDE DEF changes
<1>5. journal' = journal \cup
         {BeginRow(c, number + 1) :
            c \in {batch'[i] : i \in {m \in 1 .. n : ~Missing(batch'[m])}}}
  BY <1>1, <1>2, <1>3
<1>6. \A i \in 1 .. n : BeginRow(batch'[i], number + 1) \in JournalRows
  BY <1>3, <1>4 DEF BeginRow, Changes, JournalRows
<1> QED
  BY <1>5, <1>6 DEF SafeInv, TypeOK

LEMMA BeginSafe ==
    ASSUME SafeInv, NEW n \in 1 .. MaxItems,
           NEW f \in [1 .. n -> Indexed \X (Paths \cup {Nowhere})],
           Begin([i \in 1 .. n |-> Change(f[i][1], f[i][2])])
    PROVE  SafeInv'
<1> USE DEF SafeInv
<1>1. /\ pc = "idle" /\ pc' = "stage" /\ number' = number + 1 /\ number < MaxBatches
      /\ index' = 1 /\ installed' = {} /\ unresolved' = {} /\ status' = "none"
      /\ UNCHANGED <<row, disk, staged, pending>>
      /\ UNCHANGED <<rooted, gone, deleted>>
      /\ UNCHANGED <<failures, crashes, meddlings>>
  BY DEF Begin, history, faults
<1>2. /\ n \in Nat /\ n >= 1 /\ n <= MaxItems
      /\ number \in Nat /\ number' \in Batches /\ number' \in 0 .. MaxBatches
      /\ ~Active
  BY <1>1, BoundsAssumption DEF TypeOK, Batches, Active, Undecided, Decided
<1>3. /\ batch' \in Seq(Changes) /\ Len(batch') = n
      /\ \A i \in 1 .. n :
            /\ batch'[i] \in Changes
            /\ batch'[i].target \in Paths \cup {Nowhere}
            /\ batch'[i].action = (IF batch'[i].target = Nowhere THEN "delete" ELSE "rename")
  <2>1. batch' \in Seq(Changes) /\ Len(batch') = n
    BY BeginBatch
  <2>2. ASSUME NEW i \in 1 .. n
        PROVE  /\ batch'[i] \in Changes
               /\ batch'[i].target = f[i][2] /\ f[i][2] \in Paths \cup {Nowhere}
               /\ batch'[i].action = (IF f[i][2] = Nowhere THEN "delete" ELSE "rename")
    BY BeginBatch
  <2> QED
    BY <2>1, <2>2
<1>4. /\ journal \subseteq journal' /\ journal' \subseteq JournalRows
      /\ \A r \in journal' \ journal :
            \E i \in 1 .. n : ~Missing(batch'[i]) /\ r = BeginRow(batch'[i], number + 1)
      /\ \A i \in 1 .. n :
            ~Missing(batch'[i]) => BeginRow(batch'[i], number + 1) \in journal'
  BY BeginJournal
<1>5. TypeOK'
  <2>1. index' \in 0 .. MaxItems /\ Len(batch') <= MaxItems
    BY <1>1, <1>2, <1>3, BoundsAssumption
  <2>2. batch' \in Seq(Changes) /\ journal' \subseteq JournalRows
    BY <1>3, <1>4
  <2> QED
    BY <1>1, <1>2, <2>1, <2>2 DEF TypeOK, Steps, Reports
<1>6. Positions' /\ InstalledRenames'
  BY <1>1, <1>2, <1>3 DEF Positions, InstalledRenames
<1>7. BatchShape'
  <2>1. Acceptable(batch')
    BY BeginBatch
  <2>2. \A i, j \in 1 .. n :
            /\ i # j => batch'[i].asset # batch'[j].asset
            /\ batch'[i].action = "rename" =>
                /\ ~Missing(batch'[i])
                /\ batch'[i].target # batch'[j].original
                /\ i # j => batch'[i].target # batch'[j].target
    BY <2>1, <1>3 DEF Acceptable
  <2> QED
    BY <1>3, <2>2, MarksAssumption DEF BatchShape, Missing
<1>8. ASSUME NEW r \in journal' \ journal
      PROVE  /\ r.batch = number' /\ ~r.committed
             /\ \E i \in 1 .. n :
                  /\ r.asset = batch'[i].asset /\ r.action = batch'[i].action
                  /\ r.original = batch'[i].original /\ r.target = batch'[i].target
                  /\ ~Missing(batch'[i])
  <2>1. PICK i \in 1 .. n : ~Missing(batch'[i]) /\ r = BeginRow(batch'[i], number + 1)
    BY <1>4, <1>8
  <2>2. /\ r.batch = number + 1 /\ r.committed = FALSE
        /\ r.asset = batch'[i].asset /\ r.action = batch'[i].action
        /\ r.original = batch'[i].original /\ r.target = batch'[i].target
    BY <2>1 DEF BeginRow
  <2> QED
    BY <1>1, <2>1, <2>2
<1>9. \A r \in journal : r.batch <= number /\ r.batch \in Nat
  BY RowTypes DEF JournalShape, Batches
<1>10. JournalShape'
  <2> SUFFICES ASSUME NEW r \in journal' \ journal
               PROVE  /\ r.action = "rename" <=> r.target \in Paths
                      /\ r.target # r.original
                      /\ r.batch <= number'
    BY <1>1, <1>2, <1>4, <1>9 DEF JournalShape
  <2>1. PICK i \in 1 .. n :
            /\ r.asset = batch'[i].asset /\ r.action = batch'[i].action
            /\ r.original = batch'[i].original /\ r.target = batch'[i].target
    BY <1>8
  <2>2. batch'[i].original \in Paths
    BY <1>3 DEF Changes
  <2> QED
    BY <1>2, <1>3, <1>7, <1>8, <2>1, <2>2, MarksAssumption DEF BatchShape
<1>11. CurrentRows'
  BY <1>1, <1>2, <1>3, <1>8, <1>9 DEF CurrentRows, RowOfItem, Decided, Missing
<1>12. ItemsJournaled'
  <2> SUFFICES ASSUME NEW i \in 1 .. n, ~Missing(batch'[i])
               PROVE  \E r \in journal' : At(r) = <<number', batch'[i].asset>>
    BY <1>3 DEF ItemsJournaled, Missing, At, At0
  <2>1. BeginRow(batch'[i], number + 1) \in journal'
    BY <1>4
  <2>2. At(BeginRow(batch'[i], number + 1)) = <<number', batch'[i].asset>>
    BY <1>1 DEF At, BeginRow
  <2> QED
    BY <2>1, <2>2
<1>13. StagingFree'
  <2>1. \A w \in Batches \X Assets : w[1] > number' => staged'[w] = NoFile
    BY <1>1, <1>2 DEF StagingFree, Batches
  <2>2. \A i \in index' .. Len(batch') : staged'[<<number', batch'[i].asset>>] = NoFile
    <3> SUFFICES ASSUME NEW i \in 1 .. n
                 PROVE  staged[<<number', batch'[i].asset>>] = NoFile
      BY <1>1, <1>3
    <3>1. <<number', batch'[i].asset>> \in Batches \X Assets
      BY <1>2, <1>3 DEF Changes
    <3> QED
      BY <1>1, <1>2, <3>1 DEF StagingFree
  <2>3. \A r \in journal' : r.committed => r \in journal
    BY <1>8
  <2> QED
    BY <1>1, <2>1, <2>2, <2>3 DEF StagingFree, At, At0, Decided
<1>14. DeletionsTake'
  <2>1. \A r \in journal' : r.committed => r \in journal
    BY <1>8
  <2> QED
    BY <1>1, <2>1 DEF DeletionsTake, At, Decided, Taken
<1>15. FilesSurvive'
  BY <1>1 DEF FilesSurvive, FilesPresent
<1>16. StagedIsJournaled'
  BY <1>1, <1>4 DEF StagedIsJournaled, At
<1> QED
  BY <1>5, <1>6, <1>7, <1>10, <1>11, <1>12, <1>13, <1>14, <1>15, <1>16

-----------------------------------------------------------------------------
(* Recovery *)

Counted ==
    /\ failures' \in 0 .. MaxFailures /\ crashes' \in 0 .. MaxCrashes
    /\ meddlings' \in 0 .. MaxMeddlings

LEMMA ForgetOutcome ==
    ASSUME SafeInv, pc = "recover", NEW r \in pending, Forget(r)
    PROVE  /\ pc' \in {"recover", "refused", "down"}
           /\ journal' = journal \/ journal' = journal \ {r}
           /\ pending' \subseteq pending /\ pending' \subseteq journal'
           /\ pc' = "down" => pending' = {}
           /\ Counted
<1> USE DEF SafeInv, JournalShape
<1>1. CASE journal' = journal \ {r} /\ Pass(r) /\ UNCHANGED faults
  BY <1>1 DEF Pass, faults, TypeOK, Counted
<1>2. CASE pc' = "refused" /\ Fault /\ UNCHANGED <<journal, pending>>
  BY <1>2, BoundsAssumption DEF Fault, TypeOK, Counted
<1>3. CASE Die /\ UNCHANGED <<journal, failures, meddlings>>
  BY <1>3, BoundsAssumption DEF Die, TypeOK, Counted
<1> QED
  BY <1>1, <1>2, <1>3 DEF Forget

LEMMA RecoverFrame ==
    ASSUME SafeInv, pc = "recover",
           UNCHANGED <<row, batch, number, index, installed, unresolved, status, history>>,
           pc' \in {"recover", "refused", "down"},
           disk' \in [Paths -> Files],
           journal' \subseteq journal, pending' \subseteq journal',
           pc' = "down" => pending' = {}, Counted,
           staged' \in [Batches \X Assets -> Files], Emptying,
           FilesSurvive', StagedIsJournaled'
    PROVE  SafeInv'
<1> USE DEF SafeInv, history
<1>1. TypeOK'
  BY DEF TypeOK, Steps, Counted
<1>2. Positions' /\ BatchShape' /\ InstalledRenames' /\ JournalShape'
  BY DEF Positions, BatchShape, InstalledRenames, JournalShape, Missing, Active, Undecided, Decided
<1>3. CurrentRows' /\ ItemsJournaled'
  BY DEF CurrentRows, ItemsJournaled, Active, Undecided, Decided
<1>4. StagingFree' /\ DeletionsTake'
  <2>1. \A w \in Batches \X Assets : w[1] > number' => staged'[w] = NoFile
    BY DEF StagingFree, Emptying
  <2>2. \A s \in journal' : s.committed =>
            /\ s.action = "rename" => staged'[At(s)] = NoFile
            /\ s.action = "delete" => staged'[At(s)] \in Taken
    BY RowTypes DEF StagingFree, DeletionsTake, Emptying, Taken
  <2> QED
    BY <2>1, <2>2 DEF StagingFree, DeletionsTake, At, Decided, Taken
<1> QED
  BY <1>1, <1>2, <1>3, <1>4

(* The row that is forgotten has nothing left at its staging path. *)
LEMMA ForgottenIsEmpty ==
    ASSUME SafeInv, pc = "recover", NEW r \in pending, Forget(r), Emptying,
           staged'[At(r)] = NoFile
    PROVE  StagedIsJournaled'
<1> SUFFICES ASSUME NEW w \in Batches \X Assets, staged'[w] # NoFile
             PROVE  \E s \in journal' : At(s) = w
  BY DEF StagedIsJournaled, At
<1>1. PICK s \in journal : At(s) = w
  BY DEF SafeInv, StagedIsJournaled, Emptying
<1>2. s # r
  BY <1>1
<1>3. s \in journal'
  BY <1>1, <1>2, ForgetOutcome
<1> QED
  BY <1>1, <1>3

LEMMA RefuseSafe ==
    ASSUME SafeInv, pc = "recover", Refuse,
           UNCHANGED <<batch, number, index, installed, unresolved, status, history>>
    PROVE  SafeInv'
<1>1. UNCHANGED <<row, disk, staged, journal, pending>> /\ pc' = "refused"
  BY DEF Refuse, library
<1>2. Counted
  BY DEF Refuse, faults, Counted, SafeInv, TypeOK
<1>3. FilesSurvive' /\ StagedIsJournaled' /\ Emptying
  BY <1>1 DEF SafeInv, FilesSurvive, FilesPresent, StagedIsJournaled, At, Emptying, history
<1>4. /\ disk' \in [Paths -> Files] /\ staged' \in [Batches \X Assets -> Files]
      /\ journal' \subseteq journal /\ pending' \subseteq journal'
  BY <1>1 DEF SafeInv, TypeOK, JournalShape
<1> QED
  BY <1>1, <1>2, <1>3, <1>4, RecoverFrame

LEMMA RecoverRenameSafe ==
    ASSUME SafeInv, pc = "recover", NEW r \in pending, RecoverRename(r),
           UNCHANGED <<batch, number, index, installed, unresolved, status, history>>
    PROVE  SafeInv'
<1> USE DEF SafeInv
<1>1. CASE Refuse
  BY <1>1, RefuseSafe
<1>2. CASE Forget(r) /\ UNCHANGED <<row, disk, staged>>
  <2>1. r \in journal /\ r.committed /\ r.action = "rename"
    BY DEF RecoverRename, JournalShape
  <2>2. Emptying /\ staged'[At(r)] = NoFile
    BY <1>2, <2>1, RowTypes DEF Emptying, StagingFree
  <2>3. FilesSurvive'
    BY <1>2 DEF FilesSurvive, FilesPresent, history
  <2>4. disk' \in [Paths -> Files] /\ staged' \in [Batches \X Assets -> Files]
    BY <1>2 DEF TypeOK
  <2>5. journal' \subseteq journal
    BY <1>2, ForgetOutcome
  <2> QED
    BY <1>2, <2>2, <2>3, <2>4, <2>5, ForgetOutcome, ForgottenIsEmpty, RecoverFrame
<1> QED
  BY <1>1, <1>2 DEF RecoverRename

LEMMA RecoverDeleteSafe ==
    ASSUME SafeInv, pc = "recover", NEW r \in pending, RecoverDelete(r),
           UNCHANGED <<batch, number, index, installed, unresolved, status, history>>
    PROVE  SafeInv'
<1> USE DEF SafeInv
<1>1. r \in journal /\ r.committed /\ r.action = "delete" /\ At(r) \in Batches \X Assets
  BY RowTypes DEF RecoverDelete, JournalShape
<1>2. staged[At(r)] \in Taken
  BY <1>1 DEF DeletionsTake
<1>3. ASSUME staged' = [staged EXCEPT ![At(r)] = NoFile], UNCHANGED disk
      PROVE  /\ FilesSurvive' /\ Emptying /\ staged'[At(r)] = NoFile
             /\ disk' \in [Paths -> Files] /\ staged' \in [Batches \X Assets -> Files]
  BY <1>1, <1>2, <1>3, RemoveTaken DEF Emptying, TypeOK, Files, history
<1>4. ASSUME UNCHANGED <<disk, staged>>
      PROVE  /\ FilesSurvive' /\ Emptying
             /\ disk' \in [Paths -> Files] /\ staged' \in [Batches \X Assets -> Files]
  BY <1>4 DEF Emptying, TypeOK, history, FilesSurvive, FilesPresent
<1>5. CASE Refuse
  BY <1>5, RefuseSafe
<1>6. CASE /\ staged' = [staged EXCEPT ![At(r)] = NoFile]
           /\ Forget(r) /\ UNCHANGED <<row, disk>>
  <2>1. journal' \subseteq journal
    BY <1>6, ForgetOutcome
  <2> QED
    BY <1>3, <1>6, <2>1, ForgetOutcome, ForgottenIsEmpty, RecoverFrame
<1>7. CASE /\ staged' \in {staged, [staged EXCEPT ![At(r)] = NoFile]}
           /\ Pass(r) /\ Fault /\ UNCHANGED <<row, disk, journal>>
  <2>1. Counted
    BY <1>7, BoundsAssumption DEF Fault, Counted, TypeOK
  <2>2. pc' = "recover" /\ pending' \subseteq journal'
    BY <1>7 DEF Pass, JournalShape
  <2>3. FilesSurvive' /\ Emptying
        /\ disk' \in [Paths -> Files] /\ staged' \in [Batches \X Assets -> Files]
    BY <1>3, <1>4, <1>7
  <2>4. StagedIsJournaled'
    BY <1>7, <2>3 DEF StagedIsJournaled, Emptying, At
  <2> QED
    BY <1>7, <2>1, <2>2, <2>3, <2>4, RecoverFrame
<1> QED
  BY <1>5, <1>6, <1>7 DEF RecoverDelete

LEMMA RecoverUncommittedSafe ==
    ASSUME SafeInv, pc = "recover", NEW r \in pending, RecoverUncommitted(r),
           UNCHANGED <<batch, number, index, installed, unresolved, status, history>>
    PROVE  SafeInv'
<1> USE DEF SafeInv
<1>1. r \in journal /\ At(r) \in Batches \X Assets /\ r.original \in Paths
  BY RowTypes DEF JournalShape
<1>2. r.action = "rename" => r.target \in Paths /\ r.target # r.original
  BY <1>1 DEF JournalShape
<1>3. CASE Refuse
  BY <1>3, RefuseSafe
<1>4. ASSUME Forget(r), Emptying, staged'[At(r)] = NoFile, FilesSurvive', UNCHANGED row,
             disk' \in [Paths -> Files], staged' \in [Batches \X Assets -> Files]
      PROVE  SafeInv'
  <2>1. journal' \subseteq journal
    BY <1>4, ForgetOutcome
  <2> QED
    BY <1>4, <2>1, ForgetOutcome, ForgottenIsEmpty, RecoverFrame
<1>5. CASE staged[At(r)] = NoFile /\ Forget(r) /\ UNCHANGED <<row, disk, staged>>
  <2>1. FilesSurvive' /\ Emptying
    BY <1>5 DEF FilesSurvive, FilesPresent, history, Emptying
  <2> QED
    BY <1>4, <1>5, <2>1 DEF TypeOK
<1>6. CASE /\ disk[r.original] = NoFile /\ UNCHANGED row
           /\ disk' = [disk EXCEPT ![r.original] = staged[At(r)]]
           /\ staged' = [staged EXCEPT ![At(r)] = NoFile]
           /\ \/ pc' = "refused" /\ UNCHANGED <<journal, pending, faults>>
              \/ Forget(r)
  <2>1. FilesPresent \ {NoFile} \subseteq FilesPresent'
    BY <1>1, <1>6, MoveFromStaging
  <2>2. FilesSurvive'
    BY <2>1, PresentSurvive DEF history
  <2>3. /\ Emptying /\ staged'[At(r)] = NoFile
        /\ disk' \in [Paths -> Files] /\ staged' \in [Batches \X Assets -> Files]
    BY <1>1, <1>6 DEF TypeOK, Files, Emptying
  <2>4. CASE Forget(r)
    BY <1>4, <1>6, <2>2, <2>3, <2>4
  <2>5. CASE pc' = "refused" /\ UNCHANGED <<journal, pending, faults>>
    <3>1. StagedIsJournaled'
      BY <2>3, <2>5 DEF StagedIsJournaled, Emptying, At
    <3>2. Counted /\ pending' \subseteq journal'
      BY <2>5 DEF Counted, faults, TypeOK, JournalShape
    <3> QED
      BY <1>6, <2>2, <2>3, <2>5, <3>1, <3>2, RecoverFrame
  <2> QED
    BY <1>6, <2>4, <2>5
<1>7. CASE /\ disk[r.original] = NoFile /\ UNCHANGED <<row, staged>>
           /\ staged[At(r)] = NoFile /\ r.action = "rename"
           /\ disk' = [disk EXCEPT ![r.original] = disk[r.target], ![r.target] = NoFile]
           /\ Forget(r)
  <2>1. FilesPresent \ {NoFile} \subseteq FilesPresent'
    BY <1>1, <1>2, <1>7, MoveOnDisk
  <2>2. FilesSurvive'
    BY <2>1, PresentSurvive DEF history
  <2>3. /\ Emptying /\ staged'[At(r)] = NoFile
        /\ disk' \in [Paths -> Files] /\ staged' \in [Batches \X Assets -> Files]
    BY <1>1, <1>2, <1>7 DEF TypeOK, Files, Emptying
  <2> QED
    BY <1>4, <1>7, <2>2, <2>3
<1> QED
  BY <1>3, <1>5, <1>6, <1>7 DEF RecoverUncommitted

LEMMA RecoverFailsSafe ==
    ASSUME SafeInv, pc = "recover", NEW r \in pending, RecoverFails(r),
           UNCHANGED <<batch, number, index, installed, unresolved, status, history>>
    PROVE  SafeInv'
<1>1. Counted
  BY BoundsAssumption DEF RecoverFails, Fault, Counted, SafeInv, TypeOK
<1> QED
  BY <1>1, RecoverFrame
     DEF SafeInv, RecoverFails, library, TypeOK, JournalShape, Emptying, FilesSurvive,
         FilesPresent, StagedIsJournaled, At, history

LEMMA RecoverSafe == SafeInv /\ Recover => SafeInv'
  BY RecoverRenameSafe, RecoverDeleteSafe, RecoverUncommittedSafe, RecoverFailsSafe
     DEF Recover

-----------------------------------------------------------------------------
(* Startup, crashes and other programs *)

LEMMA QuietSafe ==
    ASSUME SafeInv,
           UNCHANGED <<disk, staged, journal, batch, number, index, installed, unresolved, status>>,
           UNCHANGED <<gone, deleted>>, Counted,
           row' \in [Assets -> Paths \cup {Nowhere}], rooted' \in BOOLEAN,
           pc' \in {"idle", "down", "recover"},
           pending' = {} \/ (pc' = "recover" /\ pending' = journal)
    PROVE  SafeInv'
<1> USE DEF SafeInv
<1>1. TypeOK'
  BY DEF TypeOK, Steps, Counted
<1>2. Positions' /\ BatchShape' /\ InstalledRenames' /\ JournalShape'
  BY DEF Positions, BatchShape, InstalledRenames, JournalShape, Missing, Active, Undecided, Decided
<1>3. CurrentRows' /\ ItemsJournaled'
  BY DEF CurrentRows, ItemsJournaled, Active, Undecided, Decided
<1>4. StagingFree' /\ DeletionsTake'
  BY DEF StagingFree, DeletionsTake, At, Decided, Taken
<1>5. FilesSurvive' /\ StagedIsJournaled'
  BY DEF FilesSurvive, FilesPresent, StagedIsJournaled, At
<1> QED
  BY <1>1, <1>2, <1>3, <1>4, <1>5

LEMMA StartupSafe == SafeInv /\ Startup => SafeInv'
<1> SUFFICES ASSUME SafeInv, Startup
             PROVE  SafeInv'
  OBVIOUS
<1>1. Counted
  BY DEF Startup, faults, Counted, SafeInv, TypeOK
<1> QED
  BY <1>1, QuietSafe DEF Startup, library, history, SafeInv, TypeOK

LEMMA StartedSafe == SafeInv /\ Started => SafeInv'
<1> SUFFICES ASSUME SafeInv, Started
             PROVE  SafeInv'
  OBVIOUS
<1>1. Counted
  BY DEF Started, faults, Counted, SafeInv, TypeOK
<1> QED
  BY <1>1, QuietSafe DEF Started, library, history, SafeInv, TypeOK

LEMMA CrashSafe == SafeInv /\ Crash => SafeInv'
<1> SUFFICES ASSUME SafeInv, Crash
             PROVE  SafeInv'
  OBVIOUS
<1>1. Counted
  BY BoundsAssumption DEF Crash, Die, Counted, SafeInv, TypeOK
<1> QED
  BY <1>1, QuietSafe DEF Crash, Die, library, history, SafeInv, TypeOK

LEMMA RemoveRootSafe == SafeInv /\ RemoveRoot => SafeInv'
<1> SUFFICES ASSUME SafeInv, RemoveRoot
             PROVE  SafeInv'
  OBVIOUS
<1>1. Counted
  BY DEF RemoveRoot, faults, Counted, SafeInv, TypeOK
<1>2. pending = {}
  BY DEF RemoveRoot, SafeInv, JournalShape
<1> QED
  BY <1>1, <1>2, QuietSafe DEF RemoveRoot, SafeInv, TypeOK

LEMMA MeddleSafe ==
    ASSUME SafeInv, NEW p \in Paths, Meddle(p)
    PROVE  SafeInv'
<1> USE DEF SafeInv
<1>1. /\ UNCHANGED <<row, staged, journal, batch, number, pc, index, installed>>
      /\ UNCHANGED <<unresolved, status, pending, rooted, deleted, failures, crashes>>
      /\ disk' = [disk EXCEPT ![p] = IF @ = NoFile THEN Foreign ELSE NoFile]
      /\ gone' = gone \cup ({disk[p]} \cap Assets)
      /\ meddlings' \in 0 .. MaxMeddlings
  BY BoundsAssumption DEF Meddle, TypeOK
<1>2. TypeOK'
  BY <1>1 DEF TypeOK, Files
<1>3. Positions' /\ BatchShape' /\ InstalledRenames' /\ JournalShape'
  BY <1>1 DEF Positions, BatchShape, InstalledRenames, JournalShape, Missing, Active
<1>4. CurrentRows' /\ ItemsJournaled'
  BY <1>1 DEF CurrentRows, ItemsJournaled, RowOfItem, Active, Missing, At, At0
<1>5. StagingFree' /\ DeletionsTake'
  BY <1>1 DEF StagingFree, DeletionsTake, At, At0, Taken
<1>6. FilesSurvive'
  <2> SUFFICES ASSUME NEW a \in Assets \ (gone' \cup deleted)
               PROVE  a \in FilesPresent'
    BY <1>1 DEF FilesSurvive
  <2>1. a \in FilesPresent /\ a # disk[p]
    BY <1>1 DEF FilesSurvive
  <2>2. CASE \E q \in Paths : a = disk[q]
    <3> PICK q \in Paths : a = disk[q]
      BY <2>2
    <3>1. disk'[q] = a
      BY <1>1, <2>1 DEF TypeOK
    <3> QED
      BY <3>1 DEF FilesPresent
  <2>3. CASE \E v \in Batches \X Assets : a = staged[v]
    BY <1>1, <2>3 DEF FilesPresent
  <2> QED
    BY <2>1, <2>2, <2>3 DEF FilesPresent
<1>7. StagedIsJournaled'
  BY <1>1 DEF StagedIsJournaled, At
<1> QED
  BY <1>2, <1>3, <1>4, <1>5, <1>6, <1>7

LEMMA StutterSafe == SafeInv /\ UNCHANGED vars => SafeInv'
<1> SUFFICES ASSUME SafeInv, UNCHANGED vars
             PROVE  SafeInv'
  OBVIOUS
<1> USE DEF SafeInv, vars
<1>1. TypeOK'
  BY DEF TypeOK
<1>2. Positions' /\ BatchShape' /\ InstalledRenames' /\ JournalShape'
  BY DEF Positions, BatchShape, InstalledRenames, JournalShape, Missing, Active
<1>3. CurrentRows' /\ ItemsJournaled'
  BY DEF CurrentRows, ItemsJournaled, RowOfItem, Active, Missing, At, At0
<1>4. StagingFree' /\ DeletionsTake'
  BY DEF StagingFree, DeletionsTake, At, At0, Taken
<1>5. FilesSurvive' /\ StagedIsJournaled'
  BY DEF FilesSurvive, FilesPresent, StagedIsJournaled, At
<1> QED
  BY <1>1, <1>2, <1>3, <1>4, <1>5

LEMMA SafeStep == SafeInv /\ [Next]_vars => SafeInv'
  BY BeginSafe, StageSafe, InstallSafe, CommitSafe, FinishSafe, DropRowSafe, RollbackSafe,
     ClearSafe, StartupSafe, RecoverSafe, StartedSafe, CrashSafe, RemoveRootSafe, MeddleSafe,
     StutterSafe
     DEF Next

LEMMA SafeStart == Init => SafeInv
<1> SUFFICES ASSUME Init
             PROVE  SafeInv
  OBVIOUS
<1> USE DEF Init
<1>1. disk \in [Paths -> Files]
  BY DEF Files
<1>2. 0 \in 0 .. MaxItems /\ 0 \in 0 .. MaxBatches /\ 0 \in 0 .. MaxFailures
      /\ 0 \in 0 .. MaxCrashes /\ 0 \in 0 .. MaxMeddlings
  BY BoundsAssumption
<1>3. batch \in Seq(Changes) /\ Len(batch) = 0
  OBVIOUS
<1>4. TypeOK
  BY <1>1, <1>2, <1>3 DEF TypeOK, Steps, Reports, Files
<1>5. Positions /\ BatchShape /\ InstalledRenames /\ JournalShape
  BY <1>3 DEF Positions, BatchShape, InstalledRenames, JournalShape, Active, Undecided, Decided
<1>6. CurrentRows /\ ItemsJournaled
  BY DEF CurrentRows, ItemsJournaled, Active, Undecided, Decided
<1>7. StagingFree /\ DeletionsTake
  BY DEF StagingFree, DeletionsTake, Decided
<1>8. FilesSurvive
  <2> SUFFICES ASSUME NEW a \in Assets \ gone
               PROVE  a \in FilesPresent
    BY DEF FilesSurvive
  <2>1. disk[row[a]] = a
    <3> DEFINE b == CHOOSE b \in Assets \ gone : row[b] = row[a]
    <3>1. b \in Assets \ gone /\ row[b] = row[a]
      OBVIOUS
    <3>2. disk[row[a]] = b
      OBVIOUS
    <3> QED
      BY <3>1, <3>2
  <2> QED
    BY <2>1 DEF FilesPresent
<1>9. StagedIsJournaled
  BY DEF StagedIsJournaled
<1> QED
  BY <1>4, <1>5, <1>6, <1>7, <1>8, <1>9 DEF SafeInv

LEMMA AlwaysSafe == Spec => []SafeInv
  BY SafeStart, SafeStep, PTL DEF Spec

(* No failed call, crash, recovery or other program makes the program      *)
(* destroy a file that no committed deletion took, and whatever is at a    *)
(* staging path has the journal row that startup goes by.                  *)
THEOREM FilesAlwaysSafe == Spec => []FilesAreSafe
<1>1. SafeInv => FilesAreSafe
  BY DEF SafeInv, FilesAreSafe
<1> QED
  BY <1>1, AlwaysSafe, PTL

-----------------------------------------------------------------------------
(* Rows name different places                                              *)

LEMMA RowsFrame ==
    ASSUME RowsDiffer, UNCHANGED <<row, rooted, batch>>,
           pc' \in Undecided => pc \in Undecided,
           pc' \in Decided => pc \in Decided
    PROVE  RowsDiffer'
  BY DEF RowsDiffer, Active

LEMMA BeginRows ==
    ASSUME SafeInv, RowsDiffer, NEW n \in 1 .. MaxItems,
           NEW f \in [1 .. n -> Indexed \X (Paths \cup {Nowhere})],
           Begin([i \in 1 .. n |-> Change(f[i][1], f[i][2])])
    PROVE  RowsDiffer'
<1>1. pc' = "stage" /\ UNCHANGED <<row, rooted>> /\ pc' \in Undecided /\ pc' \notin Decided
  BY DEF Begin, history, Undecided, Decided
<1>2. Len(batch') = n /\ Acceptable(batch')
  BY BeginBatch
<1>3. n \in Nat /\ 1 \in 1 .. n
  BY BoundsAssumption
<1>4. ASSUME NEW i \in 1 .. n
      PROVE  /\ batch'[i].asset \in Assets
             /\ row[batch'[i].asset] = batch'[i].original
             /\ batch'[i].original \in Paths
  BY BeginBatch
<1>5. rooted
  BY <1>3, <1>4, MarksAssumption DEF RowsDiffer
<1>6. ASSUME NEW i \in 1 .. n, NEW a \in Assets, batch'[i].action = "rename"
      PROVE  row[a] # batch'[i].target
  <2>1. CASE \E j \in 1 .. n : batch'[j].asset = a
    <3> PICK j \in 1 .. n : batch'[j].asset = a
      BY <2>1
    <3>1. batch'[i].target # batch'[j].original
      BY <1>2, <1>6 DEF Acceptable
    <3> QED
      BY <1>4, <3>1
  <2>2. CASE ~ \E j \in 1 .. n : batch'[j].asset = a
    <3>1. a \in Assets \ {batch'[j].asset : j \in 1 .. Len(batch')}
      BY <1>2, <2>2
    <3> QED
      BY <1>2, <1>6, <3>1 DEF Acceptable
  <2> QED
    BY <2>1, <2>2
<1> QED
  BY <1>1, <1>2, <1>4, <1>5, <1>6 DEF RowsDiffer

LEMMA CommitRows == SafeInv /\ RowsDiffer /\ Commit => RowsDiffer'
<1> SUFFICES ASSUME SafeInv, RowsDiffer, Commit
             PROVE  RowsDiffer'
  OBVIOUS
<1> USE DEF SafeInv
<1>1. /\ pc = "commit" /\ Active /\ pc \in Undecided
      /\ UNCHANGED <<batch, rooted>>
  BY DEF Commit, Active, Undecided
<1>2. CASE RollBack /\ UNCHANGED row
  BY <1>1, <1>2, RowsFrame DEF RollBack, Undecided, Decided
<1>3. CASE row' = RowsAfter /\ pc' = "finish"
  <2>1. rooted
    BY <1>1 DEF RowsDiffer
  <2>2. \A i \in 1 .. Len(batch) : row'[batch[i].asset] = batch[i].target
    BY <1>1, <1>3, RowsAfterItem
  <2>3. ASSUME NEW a \in Assets, NEW b \in Assets, a # b, row'[a] # Nowhere
        PROVE  row'[a] # row'[b]
    <3> DEFINE Item1(x) == \E i \in 1 .. Len(batch) : batch[i].asset = x
    <3>1. \A x \in Assets : ~Item1(x) => row'[x] = row[x]
      BY <1>3, RowsAfterOther
    <3>2. ASSUME NEW i \in 1 .. Len(batch)
          PROVE  /\ batch[i].target # Nowhere => batch[i].action = "rename"
                 /\ batch[i].action = "rename" =>
                      \A x \in Assets : row[x] # batch[i].target
                 /\ batch[i].action = "rename" => \A j \in 1 .. Len(batch) :
                      i # j => batch[i].target # batch[j].target
      BY <1>1, AtItemTypes DEF RowsDiffer, BatchShape
    <3>3. CASE Item1(a)
      <4> PICK i \in 1 .. Len(batch) : batch[i].asset = a
        BY <3>3
      <4>1. row'[a] = batch[i].target /\ batch[i].action = "rename"
        BY <2>2, <2>3, <3>2
      <4>2. CASE Item1(b)
        BY <2>2, <2>3, <3>2, <4>1, <4>2
      <4>3. CASE ~Item1(b)
        BY <3>1, <3>2, <4>1, <4>3
      <4> QED
        BY <4>2, <4>3
    <3>4. CASE ~Item1(a)
      <4>1. row'[a] = row[a]
        BY <3>1, <3>4
      <4>2. CASE Item1(b)
        <5> PICK i \in 1 .. Len(batch) : batch[i].asset = b
          BY <4>2
        <5>1. row'[b] = batch[i].target
          BY <2>2
        <5> QED
          BY <2>3, <3>2, <4>1, <5>1
      <4>3. CASE ~Item1(b)
        BY <2>3, <3>1, <4>1, <4>3 DEF RowsDiffer
      <4> QED
        BY <4>2, <4>3
    <3> QED
      BY <3>3, <3>4
  <2>4. pc' \notin Undecided
    BY <1>3 DEF Undecided
  <2> QED
    BY <1>1, <2>1, <2>2, <2>3, <2>4 DEF RowsDiffer
<1> QED
  BY <1>2, <1>3 DEF Commit

LEMMA RowsStep == SafeInv /\ RowsDiffer /\ [Next]_vars => RowsDiffer'
<1> SUFFICES ASSUME SafeInv, RowsDiffer, [Next]_vars
             PROVE  RowsDiffer'
  OBVIOUS
<1> USE DEF Undecided, Decided
<1>1. ASSUME NEW n \in 1 .. MaxItems,
             NEW f \in [1 .. n -> Indexed \X (Paths \cup {Nowhere})],
             Begin([i \in 1 .. n |-> Change(f[i][1], f[i][2])])
      PROVE  RowsDiffer'
  BY <1>1, BeginRows
<1>2. CASE Stage
  BY <1>2, RowsFrame DEF Stage, Continue, RollBack, history
<1>3. CASE Install
  BY <1>3, RowsFrame DEF Install, Continue, RollBack, history
<1>4. CASE Commit
  BY <1>4, CommitRows
<1>5. CASE Finish
  BY <1>5, RowsFrame DEF Finish, Report, history
<1>6. CASE DropRow
  BY <1>6, RowsFrame DEF DropRow, Report, history
<1>7. CASE Rollback
  <2>1. pc' \in Undecided /\ pc \in Undecided
    BY <1>7 DEF Rollback, RollbackDone
  <2> QED
    BY <1>7, <2>1, RowsFrame DEF Rollback, history
<1>8. CASE Clear
  <2>1. pc' \in {"clear", "idle"} /\ pc = "clear"
    BY <1>8 DEF Clear, Report
  <2> QED
    BY <1>8, <2>1, RowsFrame DEF Clear, history
<1>9. CASE Startup
  BY <1>9, RowsFrame DEF Startup, library, history
<1>10. CASE Recover
  <2>1. PICK r \in pending :
           RecoverRename(r) \/ RecoverDelete(r) \/ RecoverUncommitted(r) \/ RecoverFails(r)
    BY <1>10 DEF Recover
  <2>2. UNCHANGED row
    BY <2>1 DEF RecoverRename, RecoverDelete, RecoverUncommitted, RecoverFails, Refuse, library
  <2>3. pc' \in {"recover", "refused", "down"}
    BY <2>1, <1>10 DEF RecoverRename, RecoverDelete, RecoverUncommitted, RecoverFails, Refuse,
                       Forget, Pass, Die, Recover
  <2> QED
    BY <1>10, <2>2, <2>3, RowsFrame DEF Recover, history
<1>11. CASE Started
  BY <1>11, RowsFrame DEF Started, library, history
<1>12. CASE Crash
  BY <1>12, RowsFrame DEF Crash, Die, library, history
<1>13. CASE RemoveRoot
  BY <1>13 DEF RemoveRoot, RowsDiffer, Active
<1>14. CASE \E p \in Paths : Meddle(p)
  BY <1>14, RowsFrame DEF Meddle
<1>15. CASE UNCHANGED vars
  BY <1>15, RowsFrame DEF vars
<1> QED
  BY <1>1, <1>2, <1>3, <1>4, <1>5, <1>6, <1>7, <1>8, <1>9, <1>10, <1>11, <1>12, <1>13,
     <1>14, <1>15 DEF Next

LEMMA RowsStart == Init => RowsDiffer
  BY MarksAssumption DEF Init, RowsDiffer, Active, Undecided, Decided

-----------------------------------------------------------------------------
(* Where the files of a batch are                                          *)

(* The paths of one item are not those of another. *)
LEMMA PathsApart ==
    ASSUME SafeInv, RowsDiffer, pc \in Undecided,
           NEW i \in 1 .. Len(batch), NEW j \in 1 .. Len(batch), i # j
    PROVE  /\ batch[i].original # batch[j].original
           /\ batch[i].action = "rename" =>
                 /\ batch[i].target \in Paths
                 /\ batch[i].target # batch[j].original
                 /\ batch[i].target # batch[j].target
           /\ batch[j].action = "rename" =>
                 batch[j].target \in Paths /\ batch[j].target # batch[i].original
           /\ At0(i) # At0(j)
<1>1. Active /\ batch[i].asset # batch[j].asset
  BY DEF Active, SafeInv, BatchShape
<1>2. /\ batch[i].asset \in Assets /\ batch[j].asset \in Assets
      /\ batch[i].original \in Paths
  BY <1>1, AtItemTypes DEF SafeInv
<1>3. batch[i].original # batch[j].original
  BY <1>1, <1>2, MarksAssumption DEF RowsDiffer
<1> QED
  BY <1>1, <1>3 DEF SafeInv, BatchShape, At0

SameAt(i) ==
    /\ disk'[batch[i].original] = disk[batch[i].original]
    /\ staged'[At0(i)] = staged[At0(i)]
    /\ batch[i].action = "rename" => disk'[batch[i].target] = disk[batch[i].target]

(* A move of one item touches no place of another. *)
LEMMA OthersStay ==
    ASSUME SafeInv, RowsDiffer, pc \in Undecided,
           NEW i \in 1 .. Len(batch), NEW j \in 1 .. Len(batch), i # j,
           \A p \in Paths : p # batch[i].original /\
              (batch[i].action = "rename" => p # batch[i].target) => disk'[p] = disk[p],
           \A w \in Batches \X Assets : w # At0(i) => staged'[w] = staged[w]
    PROVE  SameAt(j)
<1>1. Active
  BY DEF Active
<1>2. batch[j].original \in Paths /\ At0(j) \in Batches \X Assets
  BY <1>1, AtItemTypes DEF SafeInv
<1> QED
  BY <1>2, PathsApart DEF SameAt

LEMMA SamePlaces ==
    ASSUME UNCHANGED <<batch, number>>, NEW i \in 1 .. Len(batch), SameAt(i)
    PROVE  /\ AtOriginal(batch[i], At0(i))' <=> AtOriginal(batch[i], At0(i))
           /\ AtStaging(batch[i], At0(i))' <=> AtStaging(batch[i], At0(i))
           /\ AtTarget(batch[i], At0(i))' <=> AtTarget(batch[i], At0(i))
  BY DEF SameAt, AtOriginal, AtStaging, AtTarget, At0

(* A file is in one place. *)
LEMMA OnePlace ==
    ASSUME NEW c, NEW w, ~Missing(c)
    PROVE  /\ ~(AtOriginal(c, w) /\ AtStaging(c, w))
           /\ ~(AtOriginal(c, w) /\ AtTarget(c, w))
           /\ ~(AtStaging(c, w) /\ AtTarget(c, w))
  BY DEF AtOriginal, AtStaging, AtTarget, Missing

LEMMA BeginPlaces ==
    ASSUME SafeInv, NEW n \in 1 .. MaxItems,
           NEW f \in [1 .. n -> Indexed \X (Paths \cup {Nowhere})],
           Begin([i \in 1 .. n |-> Change(f[i][1], f[i][2])])
    PROVE  Unmeddled'
<1>1. /\ pc' = "stage" /\ number' = number + 1 /\ number < MaxBatches
      /\ index' = 1 /\ installed' = {} /\ UNCHANGED <<disk, staged>>
  BY DEF Begin
<1>2. Len(batch') = n /\ Acceptable(batch')
  BY BeginBatch
<1>3. number + 1 \in Batches /\ number + 1 > number
  BY <1>1, BoundsAssumption DEF SafeInv, TypeOK, Batches
<1>4. Settled'
  BY <1>1 DEF Settled, Decided
<1>5. ASSUME NEW i \in 1 .. n
      PROVE  /\ staged[<<number + 1, batch'[i].asset>>] = NoFile
             /\ ~Missing(batch'[i]) => AtOriginal(batch'[i], <<number + 1, batch'[i].asset>>)
  <2>0. /\ batch'[i].asset = f[i][1] /\ f[i][1] \in Assets
        /\ batch'[i].original = row[f[i][1]] /\ batch'[i].file = disk[row[f[i][1]]]
    BY BeginBatch
  <2>1. batch'[i].asset \in Assets /\ batch'[i].file = disk[batch'[i].original]
    BY <2>0
  <2>2. <<number + 1, batch'[i].asset>> \in Batches \X Assets
    BY <1>3, <2>1
  <2>3. staged[<<number + 1, batch'[i].asset>>] = NoFile
    BY <1>3, <2>2 DEF SafeInv, StagingFree
  <2>4. batch'[i].action = "rename" => disk[batch'[i].target] = NoFile
    BY <1>2 DEF Acceptable
  <2> QED
    BY <2>1, <2>3, <2>4 DEF AtOriginal
<1>6. ASSUME NEW i \in 1 .. n, ~Missing(batch'[i])
      PROVE  ItemPlace(i)'
  <2>1. AtOriginal(batch[i], At0(i))'
    BY <1>1, <1>5, <1>6 DEF AtOriginal, At0
  <2>2. ~AtTarget(batch[i], At0(i))'
    BY <1>6, <2>1 DEF AtOriginal, AtTarget, Missing
  <2>3. i >= 1
    OBVIOUS
  <2> QED
    BY <1>1, <2>1, <2>2, <2>3 DEF ItemPlace, Decided
<1> QED
  BY <1>1, <1>2, <1>4, <1>5, <1>6 DEF Unmeddled, Missing, At0

(* What the induction hypothesis says in a step of the batch. *)
PlacesNow ==
    /\ \A i \in 1 .. Len(batch) :
          IF Missing(batch[i]) THEN staged[At0(i)] = NoFile ELSE ItemPlace(i)
    /\ Settled

LEMMA StagePlaces ==
    ASSUME SafeInv, RowsDiffer, PlacesNow, Stage
    PROVE  Unmeddled'
<1> USE DEF SafeInv
<1>1. pc = "stage" /\ pc \in Undecided /\ Active
  BY DEF Stage, Undecided, Active
<1>2. UNCHANGED <<batch, number, installed, unresolved>>
  BY DEF Stage
<1> PICK k \in 1 .. Len(batch) : k = index
  BY <1>1, ItemTypes
<1>3. /\ Item = batch[k] /\ Staging = At0(k)
      /\ batch[k].original \in Paths /\ At0(k) \in Batches \X Assets
  BY <1>1, ItemTypes
<1>4. /\ index' \in 1 .. Len(batch)
      /\ \/ pc' = "stage" /\ index' = k + 1 /\ (Missing(batch[k]) \/ ToStaging(batch[k].original))
         \/ /\ pc' = "install" /\ k = Len(batch) /\ index' = 1
            /\ Missing(batch[k]) \/ ToStaging(batch[k].original)
         \/ pc' = "rollback" /\ index' = Len(batch)
  BY <1>1, <1>3, ItemTypes DEF Stage, Continue, RollBack
<1>5. NothingMoves \/ (~Missing(batch[k]) /\ ToStaging(batch[k].original))
  BY <1>3 DEF Stage
<1>6. ASSUME NEW j \in 1 .. Len(batch), j # k
      PROVE  SameAt(j)
  <2>1. CASE NothingMoves
    BY <2>1 DEF NothingMoves, SameAt
  <2>2. CASE ToStaging(batch[k].original)
    <3>1. \A p \in Paths : p # batch[k].original => disk'[p] = disk[p]
      BY <2>2 DEF ToStaging, TypeOK
    <3>2. \A w \in Batches \X Assets : w # At0(k) => staged'[w] = staged[w]
      BY <1>3, <2>2 DEF ToStaging, TypeOK
    <3> QED
      BY <1>1, <1>6, <3>1, <3>2, OthersStay
  <2> QED
    BY <1>5, <2>1, <2>2
<1>7. ASSUME ~Missing(batch[k])
      PROVE  /\ NothingMoves => AtOriginal(batch[k], At0(k))'
             /\ ToStaging(batch[k].original) => AtStaging(batch[k], At0(k))'
             /\ batch[k].asset \notin installed
  <2>1. AtOriginal(batch[k], At0(k)) /\ batch[k].asset \notin installed
    BY <1>1, <1>7, OnePlace DEF PlacesNow, ItemPlace
  <2>2. NothingMoves => AtOriginal(batch[k], At0(k))'
    BY <1>2, <2>1 DEF NothingMoves, AtOriginal, At0
  <2>3. batch[k].action = "rename" =>
            batch[k].target \in Paths /\ batch[k].target # batch[k].original
    BY DEF BatchShape
  <2>4. ToStaging(batch[k].original) => AtStaging(batch[k], At0(k))'
    BY <1>2, <1>3, <2>1, <2>3 DEF ToStaging, AtOriginal, AtStaging, At0, TypeOK
  <2> QED
    BY <2>1, <2>2, <2>4
<1>8. ASSUME NEW j \in 1 .. Len(batch), ~Missing(batch[j])
      PROVE  ItemPlace(j)'
  <2>1. CASE j = k
    <3>1. /\ AtOriginal(batch[k], At0(k))' \/ AtStaging(batch[k], At0(k))'
          /\ pc' # "rollback" => AtStaging(batch[k], At0(k))'
      BY <1>4, <1>5, <1>7, <1>8, <2>1
    <3>2. ~AtTarget(batch[k], At0(k))'
      BY <1>2, <1>8, <2>1, <3>1 DEF AtOriginal, AtStaging, AtTarget, Missing
    <3>3. pc' = "install" => k = Len(batch)
      BY <1>4
    <3> QED
      BY <1>2, <1>4, <1>7, <1>8, <2>1, <3>1, <3>2 DEF ItemPlace, Decided
  <2>2. CASE j # k
    <3>1. ItemPlace(j)
      BY <1>8 DEF PlacesNow
    <3>2. IF j < k THEN AtStaging(batch[j], At0(j)) ELSE AtOriginal(batch[j], At0(j))
      BY <1>1, <3>1 DEF ItemPlace
    <3>3. batch[j].asset \notin installed /\ ~AtTarget(batch[j], At0(j))
      BY <1>1, <1>8, <3>1, <3>2, OnePlace DEF ItemPlace
    <3>4. /\ AtOriginal(batch[j], At0(j))' <=> AtOriginal(batch[j], At0(j))
          /\ AtStaging(batch[j], At0(j))' <=> AtStaging(batch[j], At0(j))
          /\ AtTarget(batch[j], At0(j))' <=> AtTarget(batch[j], At0(j))
      BY <1>2, <1>6, <2>2, SamePlaces
    <3> QED
      BY <1>2, <1>4, <2>2, <3>2, <3>3, <3>4 DEF ItemPlace, Decided
  <2> QED
    BY <2>1, <2>2
<1>9. ASSUME NEW j \in 1 .. Len(batch), Missing(batch[j])
      PROVE  staged'[At0(j)] = NoFile
  <2>1. staged[At0(j)] = NoFile
    BY <1>9 DEF PlacesNow
  <2>2. CASE j = k
    BY <1>5, <1>9, <2>1, <2>2 DEF NothingMoves
  <2>3. CASE j # k
    BY <1>6, <2>1, <2>3 DEF SameAt
  <2> QED
    BY <2>2, <2>3
<1>10. Settled'
  BY <1>4 DEF Settled, Decided
<1> QED
  BY <1>2, <1>8, <1>9, <1>10 DEF Unmeddled, Missing, At0

LEMMA InstallPlaces ==
    ASSUME SafeInv, RowsDiffer, PlacesNow, Install
    PROVE  Unmeddled'
<1> USE DEF SafeInv
<1>1. pc = "install" /\ pc \in Undecided /\ Active
  BY DEF Install, Undecided, Active
<1>2. UNCHANGED <<batch, number, unresolved>>
  BY DEF Install
<1> PICK k \in 1 .. Len(batch) : k = index
  BY <1>1, ItemTypes
<1>3. /\ Item = batch[k] /\ Staging = At0(k)
      /\ batch[k].original \in Paths /\ At0(k) \in Batches \X Assets
      /\ batch[k].asset \in Assets /\ batch[k].action \in Actions
  BY <1>1, ItemTypes
<1> DEFINE Placed == batch[k].action = "rename" /\ disk[batch[k].target] = NoFile
                       /\ FromStaging(batch[k].target)
<1>4. /\ index' \in 1 .. Len(batch)
      /\ \/ pc' = "install" /\ index' = k + 1 /\ (batch[k].action = "delete" \/ Placed)
         \/ pc' = "commit" /\ k = Len(batch) /\ (batch[k].action = "delete" \/ Placed)
         \/ pc' = "rollback" /\ index' = Len(batch)
  BY <1>1, <1>3, ItemTypes DEF Install, Continue, RollBack, CanInstall
<1>5. \/ NothingMoves /\ installed' = installed
      \/ Placed /\ installed' = installed \cup {batch[k].asset}
  BY <1>3 DEF Install, CanInstall
<1>6. ASSUME NEW j \in 1 .. Len(batch), j # k
      PROVE  /\ SameAt(j) /\ (batch[j].asset \in installed' <=> batch[j].asset \in installed)
  <2>1. batch[j].asset # batch[k].asset
    BY <1>6 DEF BatchShape
  <2>2. CASE NothingMoves
    BY <1>5, <2>1, <2>2 DEF NothingMoves, SameAt
  <2>3. CASE Placed
    <3>1. \A p \in Paths : p # batch[k].target => disk'[p] = disk[p]
      BY <2>3 DEF FromStaging, TypeOK
    <3>2. \A w \in Batches \X Assets : w # At0(k) => staged'[w] = staged[w]
      BY <1>3, <2>3 DEF FromStaging, TypeOK
    <3> QED
      BY <1>1, <1>5, <1>6, <2>1, <2>3, <3>1, <3>2, OthersStay
  <2> QED
    BY <1>5, <2>2, <2>3
<1>7. ASSUME ~Missing(batch[k])
      PROVE  /\ NothingMoves => AtStaging(batch[k], At0(k))'
             /\ Placed => AtTarget(batch[k], At0(k))'
             /\ batch[k].asset \notin installed
  <2>1. AtStaging(batch[k], At0(k)) /\ batch[k].asset \notin installed
    BY <1>1, <1>7, OnePlace DEF PlacesNow, ItemPlace
  <2>2. NothingMoves => AtStaging(batch[k], At0(k))'
    BY <1>2, <2>1 DEF NothingMoves, AtStaging, At0
  <2>3. batch[k].action = "rename" =>
            batch[k].target \in Paths /\ batch[k].target # batch[k].original
    BY DEF BatchShape
  <2>4. Placed => AtTarget(batch[k], At0(k))'
    BY <1>2, <1>3, <2>1, <2>3 DEF FromStaging, AtTarget, AtStaging, At0, TypeOK
  <2> QED
    BY <2>1, <2>2, <2>4
<1>8. ASSUME NEW j \in 1 .. Len(batch), ~Missing(batch[j])
      PROVE  ItemPlace(j)'
  <2>1. CASE j = k
    <3>1. CASE NothingMoves /\ installed' = installed
      <4>1. AtStaging(batch[k], At0(k))' /\ batch[k].asset \notin installed'
        BY <1>5, <1>7, <1>8, <2>1, <3>1
      <4>2. ~AtTarget(batch[k], At0(k))'
        BY <1>2, <1>8, <2>1, <4>1 DEF AtStaging, AtTarget, Missing
      <4>3. pc' # "rollback" => batch[k].action = "delete"
        <5>1. Placed => staged[At0(k)] = NoFile
          BY <1>3, <3>1 DEF FromStaging, NothingMoves, TypeOK
        <5>2. staged[At0(k)] # NoFile
          BY <1>2, <1>8, <2>1, <3>1, <4>1 DEF AtStaging, NothingMoves, Missing, At0
        <5> QED
          BY <1>4, <5>1, <5>2
      <4> QED
        BY <1>2, <1>4, <2>1, <4>1, <4>2, <4>3 DEF ItemPlace, Decided
    <3>2. CASE Placed /\ installed' = installed \cup {batch[k].asset}
      <4>1. AtTarget(batch[k], At0(k))' /\ batch[k].asset \in installed'
        BY <1>7, <1>8, <2>1, <3>2
      <4> QED
        BY <1>2, <1>4, <2>1, <3>2, <4>1 DEF ItemPlace, Decided
    <3> QED
      BY <1>5, <3>1, <3>2
  <2>2. CASE j # k
    <3>1. ItemPlace(j)
      BY <1>8 DEF PlacesNow
    <3>2. /\ AtOriginal(batch[j], At0(j))' <=> AtOriginal(batch[j], At0(j))
          /\ AtStaging(batch[j], At0(j))' <=> AtStaging(batch[j], At0(j))
          /\ AtTarget(batch[j], At0(j))' <=> AtTarget(batch[j], At0(j))
          /\ batch[j].asset \in installed' <=> batch[j].asset \in installed
      BY <1>2, <1>6, <2>2, SamePlaces
    <3>3. /\ IF j < k /\ batch[j].action = "rename"
             THEN AtTarget(batch[j], At0(j)) ELSE AtStaging(batch[j], At0(j))
          /\ batch[j].asset \in installed => AtTarget(batch[j], At0(j))
          /\ AtTarget(batch[j], At0(j)) => batch[j].asset \in installed
      BY <1>1, <3>1 DEF ItemPlace
    <3> QED
      BY <1>2, <1>4, <2>2, <3>2, <3>3 DEF ItemPlace, Decided
  <2> QED
    BY <2>1, <2>2
<1>9. ASSUME NEW j \in 1 .. Len(batch), Missing(batch[j])
      PROVE  staged'[At0(j)] = NoFile
  <2>1. staged[At0(j)] = NoFile
    BY <1>9 DEF PlacesNow
  <2>2. CASE j = k
    BY <1>3, <1>5, <1>9, <2>1, <2>2 DEF NothingMoves, FromStaging, TypeOK
  <2>3. CASE j # k
    BY <1>6, <2>1, <2>3 DEF SameAt
  <2> QED
    BY <2>2, <2>3
<1>10. Settled'
  BY <1>4 DEF Settled, Decided
<1> QED
  BY <1>2, <1>8, <1>9, <1>10 DEF Unmeddled, Missing, At0

LEMMA CommitPlaces ==
    ASSUME SafeInv, RowsDiffer, PlacesNow, Commit
    PROVE  Unmeddled'
<1> USE DEF SafeInv
<1>1. pc = "commit" /\ pc \in Undecided /\ Active
  BY DEF Commit, Undecided, Active
<1>2. UNCHANGED <<disk, staged, batch, number, installed, unresolved>>
  BY DEF Commit
<1>3. \/ pc' = "finish" /\ index' = 1
      \/ pc' = "rollback" /\ index' = Len(batch)
  BY DEF Commit, RollBack
<1>4. ASSUME NEW j \in 1 .. Len(batch), ~Missing(batch[j])
      PROVE  ItemPlace(j)'
  <2>1. ItemPlace(j)
    BY <1>4 DEF PlacesNow
  <2>2. SameAt(j)
    BY <1>2 DEF SameAt
  <2>3. /\ AtOriginal(batch[j], At0(j))' <=> AtOriginal(batch[j], At0(j))
        /\ AtStaging(batch[j], At0(j))' <=> AtStaging(batch[j], At0(j))
        /\ AtTarget(batch[j], At0(j))' <=> AtTarget(batch[j], At0(j))
    BY <1>2, <2>2, SamePlaces
  <2>4. /\ IF batch[j].action = "rename"
           THEN AtTarget(batch[j], At0(j)) ELSE AtStaging(batch[j], At0(j))
        /\ batch[j].asset \in installed => AtTarget(batch[j], At0(j))
        /\ AtTarget(batch[j], At0(j)) => batch[j].asset \in installed
    BY <1>1, <2>1 DEF ItemPlace
  <2>5. batch[j].action = "rename" => disk[batch[j].target] = batch[j].file
    BY <2>4 DEF AtTarget
  <2> QED
    BY <1>2, <1>3, <2>3, <2>4, <2>5 DEF ItemPlace, Undecided
<1>5. Settled'
  BY <1>3 DEF Settled, Decided
<1>6. \A j \in 1 .. Len(batch) : Missing(batch[j]) => staged[At0(j)] = NoFile
  BY DEF PlacesNow
<1> QED
  BY <1>2, <1>4, <1>5, <1>6 DEF Unmeddled, Missing, At0

(* Settling one item: the others stay settled. *)
LEMMA SettleOne ==
    ASSUME SafeInv, PlacesNow, Active, UNCHANGED <<batch, number>>, Emptying,
           pc \in Decided \cup {"clear"}, index' = index + 1,
           journal' \subseteq journal, unresolved \subseteq unresolved',
           Item.asset \notin unresolved' =>
              staged'[Staging] = NoFile /\ \A r \in journal' : At(r) # Staging
    PROVE  Settled'
<1> SUFFICES ASSUME NEW j \in 1 .. index' - 1, batch[j].asset \notin unresolved'
             PROVE  staged'[At0(j)] = NoFile /\ \A r \in journal' : At(r) # At0(j)
  BY DEF Settled, At0, At
<1>1. index \in 1 .. Len(batch) /\ Item = batch[index] /\ Staging = At0(index)
  BY ItemTypes DEF SafeInv
<1>2. CASE j = index
  BY <1>1, <1>2
<1>3. CASE j \in 1 .. index - 1
  <2>1. At0(j) \in Batches \X Assets
    BY <1>1, <1>3, AtItemTypes DEF SafeInv
  <2> QED
    BY <1>3, <2>1 DEF PlacesNow, Settled, Emptying
<1> QED
  BY <1>1, <1>2, <1>3

(* The item a step of the finish or the clearing settles has no journal    *)
(* row and nothing at its staging path any more, or is reported.           *)
LEMMA FinishSettles ==
    ASSUME SafeInv, PlacesNow, Finish, pc' # "dropRow", Item.asset \notin unresolved'
    PROVE  staged'[Staging] = NoFile /\ \A r \in journal' : At(r) # Staging
<1> USE DEF SafeInv
<1>1. pc \in Decided /\ Active /\ UNCHANGED journal
  BY DEF Finish, Decided, Active
<1>2. Missing(Item) /\ UNCHANGED staged
  BY DEF Finish, Report, Unresolved
<1>3. staged[Staging] = NoFile
  BY <1>1, <1>2, ItemTypes DEF PlacesNow
<1>4. \A r \in journal : At(r) # Staging
  <2> SUFFICES ASSUME NEW r \in journal, At(r) = Staging
               PROVE  FALSE
    OBVIOUS
  <2>1. r.batch = number /\ r.asset = Item.asset
    BY DEF At, Staging
  <2>2. PICK i \in 1 .. Len(batch) : RowOfItem(r, i)
    BY <1>1, <2>1 DEF CurrentRows
  <2>3. i = index
    BY <1>1, <2>1, <2>2, ItemTypes DEF RowOfItem, BatchShape
  <2> QED
    BY <1>1, <1>2, <2>2, <2>3, ItemTypes DEF RowOfItem
<1> QED
  BY <1>1, <1>2, <1>3, <1>4

LEMMA DropRowSettles ==
    ASSUME SafeInv, DropRow, Item.asset \notin unresolved'
    PROVE  staged'[Staging] = NoFile /\ \A r \in journal' : At(r) # Staging
<1> USE DEF SafeInv
<1>1. /\ pc = "dropRow" /\ Active /\ UNCHANGED staged
      /\ journal' = journal \ RowOf(Item)
  BY DEF DropRow, Report, Unresolved, Decided, Active
<1>2. staged[Staging] = NoFile
  BY <1>1, ItemTypes DEF StagingFree
<1> QED
  BY <1>1, <1>2 DEF RowOf, At, Staging

LEMMA ClearSettles ==
    ASSUME Clear, Item.asset \notin unresolved'
    PROVE  staged'[Staging] = NoFile /\ \A r \in journal' : At(r) # Staging
<1>1. journal' = journal \ RowOf(Item) /\ ~Staged /\ UNCHANGED staged
  BY DEF Clear, Report, Unresolved, Restored
<1> QED
  BY <1>1 DEF RowOf, At, Staging, Staged

LEMMA FinishPlaces ==
    ASSUME SafeInv, PlacesNow, Finish
    PROVE  Unmeddled'
<1> USE DEF SafeInv
<1>1. pc = "finish" /\ pc \in Decided /\ Active
  BY DEF Finish, Decided, Active
<1>2. UNCHANGED <<disk, journal, batch, number, installed>>
  BY DEF Finish
<1>3. Emptying
  BY <1>1, ItemTypes DEF Finish, Emptying, TypeOK
<1>4. /\ unresolved \subseteq unresolved'
      /\ \/ pc' = "idle"
         \/ pc' = "dropRow" /\ index' = index /\ unresolved' = unresolved
         \/ pc' = "finish" /\ index' = index + 1
  BY DEF Finish, Report, Resolved, Unresolved
<1>5. pc' # "dropRow" /\ Item.asset \notin unresolved' =>
          staged'[Staging] = NoFile /\ \A r \in journal' : At(r) # Staging
  BY FinishSettles
<1>6. pc' # "idle" => Settled'
  <2>1. CASE pc' = "dropRow" /\ index' = index /\ unresolved' = unresolved
    <3>1. index \in 1 .. Len(batch)
      BY <1>1, ItemTypes
    <3>2. \A j \in 1 .. index - 1 : At0(j) \in Batches \X Assets
      BY <1>1, <3>1, AtItemTypes
    <3>3. \A j \in 1 .. index - 1 : batch[j].asset \notin unresolved =>
              staged[At0(j)] = NoFile /\ \A r \in journal : At(r) # At0(j)
      BY <1>1 DEF PlacesNow, Settled
    <3> QED
      BY <1>2, <1>3, <2>1, <3>2, <3>3 DEF Settled, Emptying, At0, At
  <2>2. CASE pc' = "finish" /\ index' = index + 1
    BY <1>1, <1>2, <1>3, <1>4, <1>5, <2>2, SettleOne
  <2> QED
    BY <1>4, <2>1, <2>2
<1>7. ASSUME NEW j \in 1 .. Len(batch)
      PROVE  IF Missing(batch[j]) THEN staged'[At0(j)] = NoFile
             ELSE batch[j].action = "rename" => disk[batch[j].target] = batch[j].file
  BY <1>1, <1>3, AtItemTypes DEF PlacesNow, ItemPlace, Emptying
<1>8. ASSUME pc' # "idle", NEW j \in 1 .. Len(batch), ~Missing(batch[j])
      PROVE  ItemPlace(j)'
  BY <1>2, <1>4, <1>7, <1>8 DEF ItemPlace, Undecided
<1>9. pc' = "idle" => ~Active' /\ Settled'
  BY DEF Active, Undecided, Decided, Settled
<1> QED
  BY <1>2, <1>6, <1>7, <1>8, <1>9 DEF Unmeddled, Missing, At0

LEMMA DropRowPlaces ==
    ASSUME SafeInv, PlacesNow, DropRow
    PROVE  Unmeddled'
<1> USE DEF SafeInv
<1>1. pc = "dropRow" /\ pc \in Decided /\ Active
  BY DEF DropRow, Decided, Active
<1>2. UNCHANGED <<disk, staged, batch, number, installed>>
  BY DEF DropRow
<1>3. Emptying
  BY <1>2 DEF Emptying
<1>4. /\ unresolved \subseteq unresolved' /\ journal' \subseteq journal
      /\ pc' = "idle" \/ (pc' = "finish" /\ index' = index + 1)
  BY DEF DropRow, Report, Resolved, Unresolved
<1>5. Item.asset \notin unresolved' =>
          staged'[Staging] = NoFile /\ \A r \in journal' : At(r) # Staging
  BY DropRowSettles
<1>6. pc' # "idle" => Settled'
  BY <1>1, <1>2, <1>3, <1>4, <1>5, SettleOne
<1>7. ASSUME NEW j \in 1 .. Len(batch)
      PROVE  IF Missing(batch[j]) THEN staged'[At0(j)] = NoFile
             ELSE batch[j].action = "rename" => disk[batch[j].target] = batch[j].file
  BY <1>1, <1>2 DEF PlacesNow, ItemPlace
<1>8. ASSUME pc' # "idle", NEW j \in 1 .. Len(batch), ~Missing(batch[j])
      PROVE  ItemPlace(j)'
  BY <1>2, <1>4, <1>7, <1>8 DEF ItemPlace, Undecided
<1>9. pc' = "idle" => ~Active' /\ Settled'
  BY DEF Active, Undecided, Decided, Settled
<1> QED
  BY <1>2, <1>6, <1>7, <1>8, <1>9 DEF Unmeddled, Missing, At0

LEMMA RollbackPlaces ==
    ASSUME SafeInv, RowsDiffer, PlacesNow, Rollback
    PROVE  Unmeddled'
<1> USE DEF SafeInv
<1>1. pc = "rollback" /\ pc \in Undecided /\ Active
  BY DEF Rollback, Undecided, Active
<1>2. UNCHANGED <<batch, number>>
  BY DEF Rollback
<1> PICK k \in 1 .. Len(batch) : k = index
  BY <1>1, ItemTypes
<1>3. /\ Item = batch[k] /\ Staging = At0(k)
      /\ batch[k].original \in Paths /\ At0(k) \in Batches \X Assets
      /\ batch[k].asset \in Assets /\ batch[k].action \in Actions
  BY <1>1, ItemTypes
<1>4. /\ installed' = installed \ {batch[k].asset}
      /\ \/ pc' = "rollback" /\ index' = k - 1
         \/ pc' = "clear" /\ index' = 1 /\ k = 1
      /\ unresolved' \in {unresolved, unresolved \cup {batch[k].asset}}
  BY <1>1, <1>3 DEF Rollback, RollbackDone, Resolved, Unresolved
<1>5. \/ NothingMoves
      \/ /\ batch[k].asset \in installed /\ UNCHANGED staged
         /\ disk' = [disk EXCEPT ![batch[k].original] = disk[batch[k].target],
                                 ![batch[k].target] = NoFile]
      \/ batch[k].asset \notin installed /\ FromStaging(batch[k].original)
  BY <1>3 DEF Rollback, MoveBack
<1>6. batch[k].asset \in installed => batch[k].action = "rename"
  BY DEF InstalledRenames
<1>7. batch[k].action = "rename" =>
          batch[k].target \in Paths /\ batch[k].target # batch[k].original
  BY DEF BatchShape
<1>8. ASSUME NEW j \in 1 .. Len(batch), j # k
      PROVE  /\ SameAt(j)
             /\ batch[j].asset \in installed' <=> batch[j].asset \in installed
             /\ batch[j].asset \notin unresolved' => batch[j].asset \notin unresolved
  <2>1. batch[j].asset # batch[k].asset
    BY <1>8 DEF BatchShape
  <2>2. \A p \in Paths : p # batch[k].original /\
            (batch[k].action = "rename" => p # batch[k].target) => disk'[p] = disk[p]
    BY <1>5, <1>6 DEF NothingMoves, FromStaging, TypeOK
  <2>3. \A w \in Batches \X Assets : w # At0(k) => staged'[w] = staged[w]
    BY <1>3, <1>5 DEF NothingMoves, FromStaging, TypeOK
  <2> QED
    BY <1>1, <1>4, <1>8, <2>1, <2>2, <2>3, OthersStay
<1>9. ASSUME ~Missing(batch[k])
      PROVE  /\ \/ AtOriginal(batch[k], At0(k))'
                \/ AtStaging(batch[k], At0(k))' \/ AtTarget(batch[k], At0(k))'
             /\ batch[k].asset \notin unresolved' => AtOriginal(batch[k], At0(k))'
  <2>1. /\ \/ AtOriginal(batch[k], At0(k)) \/ AtStaging(batch[k], At0(k))
           \/ AtTarget(batch[k], At0(k))
        /\ batch[k].asset \in installed <=> AtTarget(batch[k], At0(k))
    BY <1>1, <1>9 DEF PlacesNow, ItemPlace
  <2>2. CASE AtOriginal(batch[k], At0(k))
    <3>1. batch[k].asset \notin installed /\ ~FromCurrent
      BY <1>3, <1>9, <2>1, <2>2, OnePlace DEF FromCurrent, Staged, AtOriginal
    <3>2. NothingMoves
      BY <3>1 DEF Rollback
    <3> QED
      BY <1>2, <2>2, <3>2 DEF NothingMoves, AtOriginal, At0
  <2>3. CASE NothingMoves /\ RollbackDone(TRUE)
    <3>1. SameAt(k) /\ batch[k].asset \in unresolved'
      BY <1>3, <2>3 DEF NothingMoves, SameAt, RollbackDone, Unresolved
    <3> QED
      BY <1>2, <2>1, <3>1, SamePlaces
  <2>4. CASE MoveBack /\ AtStaging(batch[k], At0(k))
    <3>1. batch[k].asset \notin installed
      BY <1>9, <2>1, <2>4, OnePlace
    <3>2. FromStaging(batch[k].original)
      BY <1>3, <2>4, <3>1 DEF MoveBack
    <3> QED
      BY <1>2, <1>3, <1>7, <2>4, <3>2 DEF FromStaging, AtStaging, AtOriginal, At0, TypeOK
  <2>5. CASE MoveBack /\ AtTarget(batch[k], At0(k))
    <3>1. /\ disk' = [disk EXCEPT ![batch[k].original] = disk[batch[k].target],
                                  ![batch[k].target] = NoFile]
          /\ UNCHANGED staged
      BY <1>3, <2>1, <2>5 DEF MoveBack
    <3> QED
      BY <1>2, <1>3, <1>7, <2>5, <3>1 DEF AtTarget, AtOriginal, At0, TypeOK
  <2>6. CASE ~FromCurrent
    BY <1>3, <1>9, <2>1, <2>2, <2>6 DEF FromCurrent, Staged, AtStaging, AtTarget, Missing
  <2> QED
    BY <1>3, <1>9, <2>1, <2>2, <2>3, <2>4, <2>5, <2>6 DEF Rollback
<1>10. ASSUME NEW j \in 1 .. Len(batch), ~Missing(batch[j])
       PROVE  ItemPlace(j)'
  <2>1. CASE j = k
    <3>1. /\ batch[k].asset \notin installed'
          /\ ~(pc' = "rollback" /\ k <= index')
      BY <1>4
    <3> QED
      BY <1>2, <1>4, <1>9, <1>10, <2>1, <3>1 DEF ItemPlace, Decided
  <2>2. CASE j # k
    <3>1. ItemPlace(j)
      BY <1>10 DEF PlacesNow
    <3>2. /\ AtOriginal(batch[j], At0(j))' <=> AtOriginal(batch[j], At0(j))
          /\ AtStaging(batch[j], At0(j))' <=> AtStaging(batch[j], At0(j))
          /\ AtTarget(batch[j], At0(j))' <=> AtTarget(batch[j], At0(j))
          /\ batch[j].asset \in installed' <=> batch[j].asset \in installed
          /\ batch[j].asset \notin unresolved' => batch[j].asset \notin unresolved
      BY <1>2, <1>8, <2>2, SamePlaces
    <3>3. /\ \/ AtOriginal(batch[j], At0(j)) \/ AtStaging(batch[j], At0(j))
             \/ AtTarget(batch[j], At0(j))
          /\ batch[j].asset \in installed => AtTarget(batch[j], At0(j))
          /\ j <= k /\ AtTarget(batch[j], At0(j)) => batch[j].asset \in installed
          /\ j > k /\ batch[j].asset \notin unresolved => AtOriginal(batch[j], At0(j))
      BY <1>1, <3>1 DEF ItemPlace
    <3>4. /\ pc' = "clear" => j > k
          /\ pc' = "rollback" => (j <= index' => j <= k) /\ (j > index' => j > k)
      BY <1>4, <2>2
    <3> QED
      BY <1>2, <1>4, <3>2, <3>3, <3>4 DEF ItemPlace, Decided
  <2> QED
    BY <2>1, <2>2
<1>11. ASSUME NEW j \in 1 .. Len(batch), Missing(batch[j])
       PROVE  staged'[At0(j)] = NoFile
  <2>1. staged[At0(j)] = NoFile
    BY <1>11 DEF PlacesNow
  <2>2. CASE j = k
    BY <1>3, <1>5, <1>11, <2>1, <2>2 DEF NothingMoves, FromStaging, TypeOK
  <2>3. CASE j # k
    BY <1>8, <2>1, <2>3 DEF SameAt
  <2> QED
    BY <2>2, <2>3
<1>12. Settled'
  BY <1>4 DEF Settled, Decided
<1> QED
  BY <1>2, <1>10, <1>11, <1>12 DEF Unmeddled, Missing, At0

LEMMA ClearPlaces ==
    ASSUME SafeInv, PlacesNow, Clear
    PROVE  Unmeddled'
<1> USE DEF SafeInv
<1>1. pc = "clear" /\ pc \in Undecided /\ Active
  BY DEF Clear, Undecided, Active
<1>2. UNCHANGED <<disk, staged, batch, number, installed>>
  BY DEF Clear
<1>3. Emptying
  BY <1>2 DEF Emptying
<1>4. /\ unresolved \subseteq unresolved' /\ journal' \subseteq journal
      /\ pc' = "idle" \/ (pc' = "clear" /\ index' = index + 1)
  BY DEF Clear, Report, Resolved, Unresolved
<1>5. Item.asset \notin unresolved' =>
          staged'[Staging] = NoFile /\ \A r \in journal' : At(r) # Staging
  BY ClearSettles
<1>6. pc' # "idle" => Settled'
  BY <1>1, <1>2, <1>3, <1>4, <1>5, SettleOne
<1>7. ASSUME pc' # "idle", NEW j \in 1 .. Len(batch), ~Missing(batch[j])
      PROVE  ItemPlace(j)'
  <2>1. ItemPlace(j) /\ SameAt(j)
    BY <1>2, <1>7 DEF PlacesNow, SameAt
  <2>2. /\ AtOriginal(batch[j], At0(j))' <=> AtOriginal(batch[j], At0(j))
        /\ AtStaging(batch[j], At0(j))' <=> AtStaging(batch[j], At0(j))
        /\ AtTarget(batch[j], At0(j))' <=> AtTarget(batch[j], At0(j))
    BY <1>2, <2>1, SamePlaces
  <2> QED
    BY <1>1, <1>2, <1>4, <1>7, <2>1, <2>2 DEF ItemPlace, Decided
<1>8. \A j \in 1 .. Len(batch) : Missing(batch[j]) => staged[At0(j)] = NoFile
  BY DEF PlacesNow
<1>9. pc' = "idle" => ~Active' /\ Settled'
  BY DEF Active, Undecided, Decided, Settled
<1> QED
  BY <1>2, <1>6, <1>7, <1>8, <1>9 DEF Unmeddled, Missing, At0

LEMMA PlacesStep == SafeInv /\ PlacesInv /\ [Next]_vars => PlacesInv'
<1> SUFFICES ASSUME SafeInv, PlacesInv, [Next]_vars
             PROVE  Unmeddled'
  BY RowsStep DEF PlacesInv
<1> USE DEF PlacesInv
<1>1. meddlings \in Nat /\ (Active /\ meddlings = 0 => PlacesNow)
  BY BoundsAssumption DEF SafeInv, TypeOK, Unmeddled, PlacesNow
<1>2. ASSUME ~Active', pc' \notin Decided \cup {"clear"}
      PROVE  Unmeddled'
  BY <1>2 DEF Unmeddled, Settled
<1>3. ASSUME NEW n \in 1 .. MaxItems,
             NEW f \in [1 .. n -> Indexed \X (Paths \cup {Nowhere})],
             Begin([i \in 1 .. n |-> Change(f[i][1], f[i][2])])
      PROVE  Unmeddled'
  BY <1>3, BeginPlaces
<1>4. CASE Stage
  <2>1. Active /\ (meddlings' = 0 => meddlings = 0)
    BY <1>4 DEF Stage, Active, Undecided, Fault, faults
  <2> QED
    BY <1>1, <1>4, <2>1, StagePlaces DEF Unmeddled
<1>5. CASE Install
  <2>1. Active /\ (meddlings' = 0 => meddlings = 0)
    BY <1>5 DEF Install, Active, Undecided, Fault, faults
  <2> QED
    BY <1>1, <1>5, <2>1, InstallPlaces DEF Unmeddled
<1>6. CASE Commit
  <2>1. Active /\ (meddlings' = 0 => meddlings = 0)
    BY <1>6 DEF Commit, Active, Undecided, Fault, faults
  <2> QED
    BY <1>1, <1>6, <2>1, CommitPlaces DEF Unmeddled
<1>7. CASE Finish
  <2>1. Active /\ (meddlings' = 0 => meddlings = 0)
    BY <1>7 DEF Finish, Active, Decided, Fault, faults
  <2> QED
    BY <1>1, <1>7, <2>1, FinishPlaces DEF Unmeddled
<1>8. CASE DropRow
  <2>1. Active /\ (meddlings' = 0 => meddlings = 0)
    BY <1>8 DEF DropRow, Active, Decided, Fault, faults
  <2> QED
    BY <1>1, <1>8, <2>1, DropRowPlaces DEF Unmeddled
<1>9. CASE Rollback
  <2>1. Active /\ (meddlings' = 0 => meddlings = 0)
    BY <1>9 DEF Rollback, Active, Undecided, Fault, faults
  <2> QED
    BY <1>1, <1>9, <2>1, RollbackPlaces DEF Unmeddled
<1>10. CASE Clear
  <2>1. Active /\ (meddlings' = 0 => meddlings = 0)
    BY <1>10 DEF Clear, Active, Undecided, Fault, faults
  <2> QED
    BY <1>1, <1>10, <2>1, ClearPlaces DEF Unmeddled
<1>11. CASE Startup \/ Recover \/ Started \/ Crash \/ RemoveRoot
  <2>1. pc' \in {"idle", "down", "recover", "refused"}
    BY <1>11 DEF Startup, Recover, Started, Crash, RemoveRoot, Die, RecoverRename, RecoverDelete,
                 RecoverUncommitted, RecoverFails, Refuse, Forget, Pass
  <2> QED
    BY <1>2, <2>1 DEF Active, Undecided, Decided
<1>12. CASE \E p \in Paths : Meddle(p)
  BY <1>1, <1>12 DEF Meddle, Unmeddled
<1>13. CASE UNCHANGED vars
  <2> USE <1>13 DEF vars
  <2>1. Active' = Active /\ Settled' = Settled
    BY DEF Active, Settled, At0, At
  <2>2. \A i \in 1 .. Len(batch) : ItemPlace(i)' = ItemPlace(i)
    BY DEF ItemPlace, AtOriginal, AtStaging, AtTarget, At0
  <2> QED
    BY <2>1, <2>2 DEF Unmeddled, Missing, At0
<1> QED
  BY <1>3, <1>4, <1>5, <1>6, <1>7, <1>8, <1>9, <1>10, <1>11, <1>12, <1>13 DEF Next

LEMMA PlacesStart == Init => PlacesInv
  BY RowsStart DEF PlacesInv, Unmeddled, Settled, Init, Active, Undecided, Decided

LEMMA AlwaysPlaces == Spec => [](SafeInv /\ PlacesInv)
<1>1. Init => SafeInv /\ PlacesInv
  BY SafeStart, PlacesStart
<1>2. (SafeInv /\ PlacesInv) /\ [Next]_vars => (SafeInv /\ PlacesInv)'
  BY SafeStep, PlacesStep
<1> QED
  BY <1>1, <1>2, PTL DEF Spec

-----------------------------------------------------------------------------
(* What a batch reports                                                    *)

(* When the last item is settled and none is reported, nothing of the      *)
(* batch is left at a staging path or in the journal.                      *)
LEMMA AllSettled ==
    ASSUME SafeInv, PlacesNow, pc \in Decided \cup {"clear"}, index = Len(batch),
           UNCHANGED <<batch, number>>, Emptying, journal' \subseteq journal,
           unresolved = {},
           staged'[Staging] = NoFile, \A r \in journal' : At(r) # Staging
    PROVE  /\ \A j \in 1 .. Len(batch) : staged'[At0(j)] = NoFile
           /\ \A r \in journal' : r.batch # number
<1> USE DEF SafeInv
<1>1. Active
  BY DEF Active, Undecided
<1>2. ASSUME NEW j \in 1 .. Len(batch)
      PROVE  staged'[At0(j)] = NoFile /\ \A r \in journal' : At(r) # At0(j)
  <2>1. CASE j = index
    BY <1>1, <2>1, ItemTypes
  <2>2. CASE j # index
    <3>1. j \in 1 .. index - 1
      BY <1>1, <2>2, ItemTypes
    <3>2. At0(j) \in Batches \X Assets
      BY <1>1, AtItemTypes
    <3> QED
      BY <3>1, <3>2 DEF PlacesNow, Settled, Emptying
  <2> QED
    BY <2>1, <2>2
<1>3. ASSUME NEW r \in journal', r.batch = number
      PROVE  FALSE
  <2>1. PICK i \in 1 .. Len(batch) : RowOfItem(r, i)
    BY <1>1, <1>3 DEF CurrentRows
  <2>2. At(r) = At0(i)
    BY <1>3, <2>1 DEF RowOfItem, At, At0
  <2> QED
    BY <1>2, <2>2
<1> QED
  BY <1>2, <1>3

LEMMA CommittedIsTrue ==
    ASSUME SafeInv, RowsDiffer, PlacesNow, Finish \/ DropRow, pc' = "idle"
    PROVE  /\ status' # "rolledBack"
           /\ status' = "committed" => BatchApplied' /\ NothingToRecover'
<1> USE DEF SafeInv
<1>1. pc \in Decided /\ Active /\ UNCHANGED <<row, disk, batch, number>>
  BY DEF Finish, DropRow, Decided, Active
<1>2. /\ Report("finish", "committed", unresolved') /\ ~(index < Len(batch))
      /\ unresolved \subseteq unresolved' /\ journal' \subseteq journal
  BY DEF Finish, DropRow, Report, Resolved, Unresolved
<1>3. status' \in {"committed", "recoveryRequired"}
      /\ (status' = "committed" => unresolved' = {})
  BY <1>2 DEF Report
<1>4. index = Len(batch)
  BY <1>1, <1>2, ItemTypes
<1>5. Emptying
  BY <1>1, ItemTypes DEF Finish, DropRow, Emptying, TypeOK
<1>6. ASSUME status' = "committed"
      PROVE  BatchApplied' /\ NothingToRecover'
  <2>1. unresolved' = {} /\ unresolved = {}
    BY <1>2, <1>3, <1>6
  <2>2. staged'[Staging] = NoFile /\ \A r \in journal' : At(r) # Staging
    BY <2>1, FinishSettles, DropRowSettles
  <2>3. /\ \A j \in 1 .. Len(batch) : staged'[At0(j)] = NoFile
        /\ \A r \in journal' : r.batch # number
    BY <1>1, <1>2, <1>4, <1>5, <2>1, <2>2, AllSettled
  <2>4. ASSUME NEW j \in 1 .. Len(batch)
        PROVE  /\ row[batch[j].asset] = batch[j].target
               /\ batch[j].action = "rename" => disk[batch[j].target] = batch[j].file
    <3>1. batch[j].action = "rename" => ~Missing(batch[j])
      BY DEF BatchShape
    <3> QED
      BY <1>1, <3>1 DEF RowsDiffer, PlacesNow, ItemPlace
  <2> QED
    BY <1>1, <2>3, <2>4 DEF BatchApplied, NothingToRecover, At0
<1> QED
  BY <1>3, <1>6

LEMMA RolledBackIsTrue ==
    ASSUME SafeInv, RowsDiffer, PlacesNow, Clear, pc' = "idle"
    PROVE  /\ status' # "committed"
           /\ status' = "rolledBack" => BatchUndone' /\ NothingToRecover'
<1> USE DEF SafeInv
<1>1. /\ pc = "clear" /\ pc \in Undecided /\ Active
      /\ UNCHANGED <<row, disk, staged, batch, number>>
  BY DEF Clear, Undecided, Active
<1>2. /\ Report("clear", "rolledBack", unresolved') /\ ~(index < Len(batch))
      /\ unresolved \subseteq unresolved' /\ journal' \subseteq journal
  BY DEF Clear, Report, Resolved, Unresolved
<1>3. status' \in {"rolledBack", "recoveryRequired"}
      /\ (status' = "rolledBack" => unresolved' = {})
  BY <1>2 DEF Report
<1>4. index = Len(batch)
  BY <1>1, <1>2, ItemTypes
<1>5. Emptying
  BY <1>1 DEF Emptying
<1>6. ASSUME status' = "rolledBack"
      PROVE  BatchUndone' /\ NothingToRecover'
  <2>1. unresolved' = {} /\ unresolved = {}
    BY <1>2, <1>3, <1>6
  <2>2. staged'[Staging] = NoFile /\ \A r \in journal' : At(r) # Staging
    BY <2>1, ClearSettles
  <2>3. /\ \A j \in 1 .. Len(batch) : staged'[At0(j)] = NoFile
        /\ \A r \in journal' : r.batch # number
    BY <1>1, <1>2, <1>4, <1>5, <2>1, <2>2, AllSettled
  <2>4. ASSUME NEW j \in 1 .. Len(batch)
        PROVE  /\ row[batch[j].asset] = batch[j].original
               /\ ~Missing(batch[j]) => disk[batch[j].original] = batch[j].file
    BY <1>1, <2>1 DEF RowsDiffer, PlacesNow, ItemPlace, AtOriginal
  <2> QED
    BY <1>1, <2>3, <2>4 DEF BatchUndone, NothingToRecover, At0, Missing
<1> QED
  BY <1>3, <1>6

(* A report is made by the last step of Finish, DropRow or Clear. *)
LEMMA ReportStep ==
    ASSUME SafeInv, PlacesInv, [Next]_vars,
           pc \in {"finish", "dropRow", "clear"}, pc' = "idle", meddlings' = 0
    PROVE  /\ status' = "committed" => BatchApplied' /\ NothingToRecover'
           /\ status' = "rolledBack" => BatchUndone' /\ NothingToRecover'
<1>1. Finish \/ DropRow \/ Clear
  <2>1. /\ ~Stage /\ ~Install /\ ~Commit /\ ~Rollback /\ ~Startup /\ ~Recover /\ ~Started
        /\ \A s : ~Begin(s)
    BY DEF Begin, Stage, Install, Commit, Rollback, Startup, Recover, Started
  <2>2. /\ ~Crash /\ ~RemoveRoot /\ ~UNCHANGED vars
        /\ \A p \in Paths : ~Meddle(p)
    BY DEF Crash, Die, RemoveRoot, vars, Meddle
  <2> QED
    BY <2>1, <2>2 DEF Next
<1>2. UNCHANGED meddlings
  BY <1>1 DEF Finish, DropRow, Clear, Fault, faults
<1>3. Active /\ meddlings = 0
  BY <1>2 DEF Active, Undecided, Decided
<1>4. PlacesNow /\ RowsDiffer
  BY <1>3 DEF PlacesInv, Unmeddled, PlacesNow
<1> QED
  BY <1>1, <1>4, CommittedIsTrue, RolledBackIsTrue

(* A batch that reports committed has applied every change to the file it  *)
(* found, and one that reports rolled back has restored every row and      *)
(* file; neither leaves a journal row.  This is so whichever calls failed, *)
(* unless another program meddled with the directory.                      *)
THEOREM ReportsTellTheTruth == Spec => ReportsAreTrue
<1>1. SafeInv /\ PlacesInv /\ [Next]_vars =>
        [(pc \in {"finish", "dropRow", "clear"} /\ pc' = "idle" /\ meddlings' = 0) =>
            /\ status' = "committed" => BatchApplied' /\ NothingToRecover'
            /\ status' = "rolledBack" => BatchUndone' /\ NothingToRecover']_vars
  BY ReportStep
<1> QED
  BY <1>1, AlwaysPlaces, PTL DEF Spec, ReportsAreTrue

-----------------------------------------------------------------------------
(* With at most one failed call                                            *)

ItemFiles == \A i \in 1 .. Len(batch) : batch[i].file = FileOf(batch[i].asset)

(* A row of the current batch is a row of one of its items. *)
LEMMA CurrentRow ==
    ASSUME SafeInv, Active, NEW r \in journal, r.batch = number
    PROVE  \E i \in 1 .. Len(batch) : RowOfItem(r, i) /\ At(r) = At0(i)
  BY DEF SafeInv, CurrentRows, RowOfItem, At, At0

(* Before the commit, a row with an item's staging path is open. *)
OpenItems ==
    \A r \in journal, i \in 1 .. Len(batch) :
        At(r) = At0(i) => r \in Open /\ r.asset = batch[i].asset

LEMMA OpenRowOfItem == SafeInv /\ pc \in Undecided => OpenItems
  BY DEF OpenItems, SafeInv, CurrentRows, Open, At, At0, Active, Undecided, Decided

(* Where the items are says where the open rows are. *)
LEMMA ActiveOpenRows ==
    SafeInv /\ RowsDiffer /\ PlacesNow /\ ItemFiles /\ pc \in Undecided
        /\ (\A r \in Open : r.batch = number) => OpenRows
<1> SUFFICES ASSUME SafeInv, RowsDiffer, PlacesNow, ItemFiles, pc \in Undecided,
                    \A r \in Open : r.batch = number, NEW r \in Open
             PROVE  /\ r.batch = number
                    /\ row[r.asset] = r.original /\ r.asset \notin gone
                    /\ \A a \in Assets : row[a] # r.target \/ r.target = Nowhere
                    /\ RowPlace(r)
                    /\ \A s \in Open : s # r => Apart(r, s)
                    /\ \A s \in journal : s.batch = r.batch => ~s.committed
  BY DEF OpenRows
<1> USE DEF SafeInv
<1>1. Active /\ pc \notin Decided
  BY DEF Active, Undecided, Decided
<1>2. r \in journal /\ r.batch = number /\ ~r.committed
  BY DEF Open
<1>3. PICK i \in 1 .. Len(batch) : RowOfItem(r, i) /\ At(r) = At0(i)
  BY <1>1, <1>2, CurrentRow
<1>4. r.asset \in Assets /\ r.original \in Paths /\ r.action \in Actions
  BY <1>2, RowTypes
<1>5. r.asset \notin gone /\ batch[i].file = r.asset /\ ~Missing(batch[i])
  BY <1>3 DEF ItemFiles, FileOf, RowOfItem, Missing
<1>6. row[r.asset] = r.original
  BY <1>3 DEF RowsDiffer, RowOfItem
<1>7. \A a \in Assets : row[a] # r.target \/ r.target = Nowhere
  <2>1. batch[i].target = Nowhere \/ batch[i].action = "rename"
    BY <1>1, AtItemTypes DEF BatchShape
  <2> QED
    BY <1>3, <2>1 DEF RowsDiffer, RowOfItem
<1>8. RowPlace(r)
  BY <1>3, <1>5 DEF RowPlace, PlacesNow, ItemPlace, AtOriginal, AtStaging, AtTarget, RowOfItem
<1>9. ASSUME NEW s \in Open, s # r
      PROVE  Apart(r, s)
  <2>1. s \in journal /\ s.batch = number /\ ~s.committed
    BY DEF Open
  <2>2. PICK j \in 1 .. Len(batch) : RowOfItem(s, j) /\ At(s) = At0(j)
    BY <1>1, <2>1, CurrentRow
  <2>3. i # j
    <3> SUFFICES ASSUME i = j
                 PROVE  s = r
      BY <1>9
    <3>1. /\ s.asset = r.asset /\ s.action = r.action /\ s.batch = r.batch
          /\ s.original = r.original /\ s.target = r.target
      BY <1>2, <1>3, <2>1, <2>2 DEF RowOfItem
    <3>2. s \in JournalRows /\ r \in JournalRows
      BY <1>2, <2>1, RowTypes
    <3>3. s.committed = r.committed
      BY <1>2, <2>1, <3>2 DEF JournalRows
    <3> QED
      BY <3>1, <3>2, <3>3 DEF JournalRows
  <2>4. s.target = Nowhere \/ s.action = "rename"
    BY <2>1, RowTypes DEF JournalShape
  <2>5. r.target = Nowhere \/ r.action = "rename"
    BY <1>2, RowTypes DEF JournalShape
  <2>6. s.original \in Paths
    BY <2>1, RowTypes
  <2>7. batch[i].asset # batch[j].asset
    BY <2>3 DEF BatchShape
  <2>8. s.target # r.original /\ r.target # s.original
    BY <1>3, <1>4, <2>2, <2>3, <2>4, <2>5, <2>6, PathsApart, MarksAssumption DEF RowOfItem
  <2>9. s.target # r.target \/ r.target = Nowhere
    BY <1>3, <2>2, <2>3, <2>5, PathsApart DEF RowOfItem
  <2>10. s.original # r.original
    BY <1>3, <2>2, <2>3, PathsApart DEF RowOfItem
  <2> QED
    BY <1>3, <2>2, <2>7, <2>8, <2>9, <2>10 DEF Apart, RowOfItem
<1>10. \A s \in journal : s.batch = r.batch => ~s.committed
  BY <1>1, <1>2 DEF CurrentRows
<1> QED
  BY <1>2, <1>5, <1>6, <1>7, <1>8, <1>9, <1>10

LEMMA PlacesKnown == PlacesInv /\ Active /\ meddlings = 0 => PlacesNow /\ RowsDiffer
  BY DEF PlacesInv, Unmeddled, PlacesNow

(* The same facts of the next state. *)
LEMMA ActiveOpenRowsNext ==
    (SafeInv /\ RowsDiffer /\ PlacesNow /\ ItemFiles /\ pc \in Undecided
        /\ (\A r \in Open : r.batch = number))' => OpenRows'
  BY ActiveOpenRows, PTL

LEMMA PlacesKnownNext == (PlacesInv /\ Active /\ meddlings = 0)' => (PlacesNow /\ RowsDiffer)'
  BY PlacesKnown, PTL

LEMMA OpenRowOfItemNext == (SafeInv /\ pc \in Undecided)' => OpenItems'
  BY OpenRowOfItem, PTL

(* A step of a batch before its commit that moves files of one item, keeps *)
(* the rows and leaves unresolved and failures as they have to be.         *)
LEMMA BatchTidy ==
    ASSUME SafeInv, RowsDiffer, PlacesNow, Tidy, pc \in Undecided,
           SafeInv', PlacesInv', Orderly', pc' \in Undecided,
           UNCHANGED <<row, gone, batch, number, journal>>,
           NEW k \in 1 .. Len(batch), ~Missing(batch[k]) \/ UNCHANGED disk,
           \A p \in Paths : p # batch[k].original /\
              (batch[k].action = "rename" => p # batch[k].target) => disk'[p] = disk[p],
           pc' \in {"stage", "install", "commit"} => unresolved' = {},
           pc' \in {"rollback", "clear"} => failures' = 1 /\
              \A i \in 1 .. Len(batch) : ~Missing(batch[i]) => batch[i].asset \notin unresolved'
    PROVE  Tidy'
<1> USE DEF SafeInv
<1>1. Active /\ Active' /\ meddlings' = 0
  BY DEF Active, Orderly
<1>2. PlacesNow' /\ RowsDiffer'
  BY <1>1, PlacesKnownNext
<1>3. Open' = Open /\ ItemFiles /\ ItemFiles'
  BY DEF Open, ItemFiles, FileOf, Tidy
<1>4. OpenRows'
  <2>1. \A r \in Open' : r.batch = number'
    BY <1>3 DEF Tidy, OpenRows
  <2> QED
    BY <1>2, <1>3, <2>1, ActiveOpenRowsNext
<1>5. Home'
  <2> SUFFICES ASSUME NEW a \in Assets, row[a] # Nowhere, \A r \in Open : r.asset # a
               PROVE  disk'[row[a]] = FileOf(a)
    BY <1>3 DEF Home, FileOf
  <2>1. row[a] \in Paths /\ disk[row[a]] = FileOf(a)
    BY DEF TypeOK, Tidy, Home
  <2>2. CASE \E i \in 1 .. Len(batch) : batch[i].asset = a
    <3> PICK i \in 1 .. Len(batch) : batch[i].asset = a
      BY <2>2
    <3>1. row[a] = batch[i].original /\ batch[i].file = FileOf(a)
      BY <1>3 DEF RowsDiffer, ItemFiles
    <3>2. CASE Missing(batch[i])
      <4>1. i = k => UNCHANGED disk
        BY <3>2
      <4>2. i # k => disk'[row[a]] = disk[row[a]]
        BY <2>1, <3>1, PathsApart
      <4> QED
        BY <2>1, <4>1, <4>2
    <3>3. CASE ~Missing(batch[i])
      <4>1. \A r \in journal : At(r) # At0(i)
        BY <2>2, OpenRowOfItem DEF OpenItems
      <4>2. At0(i) \in Batches \X Assets
        BY <1>1, AtItemTypes
      <4>3. staged'[At0(i)] = NoFile
        BY <4>1, <4>2 DEF StagedIsJournaled, At
      <4>4. ItemPlace(i)' /\ batch[i].file # NoFile
        BY <1>2, <3>3 DEF PlacesNow, Missing
      <4>5. pc' = "clear"
        BY <3>3, <4>1 DEF ItemsJournaled, Missing, At0, At, Undecided
      <4>6. AtOriginal(batch[i], At0(i))'
        BY <3>3, <4>4, <4>5 DEF ItemPlace
      <4> QED
        BY <3>1, <4>6 DEF AtOriginal
    <3> QED
      BY <3>2, <3>3
  <2>3. CASE ~ \E i \in 1 .. Len(batch) : batch[i].asset = a
    <3>1. batch[k].asset \in Assets /\ batch[k].asset # a
      BY <1>1, <2>3, AtItemTypes
    <3>2. row[a] # batch[k].original /\ (batch[k].action = "rename" => row[a] # batch[k].target)
      BY <3>1 DEF RowsDiffer
    <3> QED
      BY <2>1, <3>2
  <2> QED
    BY <2>2, <2>3
<1>6. pc' \notin {"idle", "recover"}
  BY DEF Undecided
<1> QED
  BY <1>3, <1>4, <1>5, <1>6 DEF Tidy, ItemFiles

LEMMA OneFault ==
    ASSUME SafeInv, Fault, Orderly'
    PROVE  failures' = 1 /\ failures = 0
  BY BoundsAssumption DEF SafeInv, TypeOK, Fault, Orderly

LEMMA StageTidy ==
    ASSUME SafeInv, RowsDiffer, PlacesNow, Tidy, SafeInv', PlacesInv', Orderly', Stage
    PROVE  Tidy'
<1> USE DEF SafeInv
<1>1. pc = "stage" /\ pc \in Undecided /\ Active
  BY DEF Stage, Undecided, Active
<1>2. UNCHANGED <<row, gone, batch, number, journal, unresolved>> /\ unresolved = {}
  BY <1>1 DEF Stage, history, Tidy
<1> PICK k \in 1 .. Len(batch) : k = index
  BY <1>1, ItemTypes
<1>3. Item = batch[k] /\ batch[k].original \in Paths
  BY <1>1, ItemTypes
<1>4. NothingMoves \/ (~Missing(batch[k]) /\ ToStaging(batch[k].original))
  BY <1>3 DEF Stage
<1>5. pc' \in {"stage", "install"} \/ (pc' = "rollback" /\ failures' = 1)
  <2>1. ~Missing(Item) => disk[Item.original] # NoFile
    BY <1>1, <1>3 DEF PlacesNow, ItemPlace, AtOriginal, Missing
  <2> QED
    BY <2>1, OneFault DEF Stage, Continue, RollBack
<1>6. pc' \in Undecided
  BY <1>5 DEF Undecided
<1>7. \A p \in Paths : p # batch[k].original => disk'[p] = disk[p]
  BY <1>4 DEF NothingMoves, ToStaging, TypeOK
<1>8. ~Missing(batch[k]) \/ UNCHANGED disk
  BY <1>4 DEF NothingMoves
<1> QED
  BY <1>1, <1>2, <1>5, <1>6, <1>7, <1>8, BatchTidy

LEMMA InstallTidy ==
    ASSUME SafeInv, RowsDiffer, PlacesNow, Tidy, SafeInv', PlacesInv', Orderly', Install
    PROVE  Tidy'
<1> USE DEF SafeInv
<1>1. pc = "install" /\ pc \in Undecided /\ Active
  BY DEF Install, Undecided, Active
<1>2. UNCHANGED <<row, gone, batch, number, journal, unresolved>> /\ unresolved = {}
  BY <1>1 DEF Install, history, Tidy
<1> PICK k \in 1 .. Len(batch) : k = index
  BY <1>1, ItemTypes
<1>3. Item = batch[k] /\ Staging = At0(k) /\ batch[k].original \in Paths
  BY <1>1, ItemTypes
<1>4. \/ NothingMoves
      \/ batch[k].action = "rename" /\ FromStaging(batch[k].target)
  BY <1>3 DEF Install
<1>5. batch[k].action = "rename" => ~Missing(batch[k])
  BY DEF BatchShape
<1>6. pc' \in {"install", "commit"} \/ (pc' = "rollback" /\ failures' = 1)
  <2>1. Item.action = "rename" => CanInstall
    BY <1>1, <1>3, <1>5 DEF PlacesNow, ItemPlace, AtStaging, Missing, CanInstall, Staged
  <2> QED
    BY <2>1, OneFault DEF Install, Continue, RollBack
<1>7. pc' \in Undecided
  BY <1>6 DEF Undecided
<1>8. \A p \in Paths : p # batch[k].original /\
          (batch[k].action = "rename" => p # batch[k].target) => disk'[p] = disk[p]
  BY <1>4 DEF NothingMoves, FromStaging, TypeOK
<1>9. ~Missing(batch[k]) \/ UNCHANGED disk
  BY <1>4, <1>5 DEF NothingMoves
<1> QED
  BY <1>1, <1>2, <1>6, <1>7, <1>8, <1>9, BatchTidy

LEMMA RollbackTidy ==
    ASSUME SafeInv, RowsDiffer, PlacesNow, Tidy, SafeInv', PlacesInv', Orderly', Rollback
    PROVE  Tidy'
<1> USE DEF SafeInv
<1>1. pc = "rollback" /\ pc \in Undecided /\ Active
  BY DEF Rollback, Undecided, Active
<1>2. UNCHANGED <<row, gone, batch, number, journal>>
  BY DEF Rollback, history
<1> PICK k \in 1 .. Len(batch) : k = index
  BY <1>1, ItemTypes
<1>3. /\ Item = batch[k] /\ Staging = At0(k) /\ batch[k].original \in Paths
  BY <1>1, ItemTypes
<1>4. batch[k].asset \in installed => batch[k].action = "rename"
  BY DEF InstalledRenames
<1>5. failures = 1 /\ ~Fault
  BY <1>1, OneFault DEF Tidy
<1>6. /\ pc' \in {"rollback", "clear"} /\ UNCHANGED <<failures, unresolved>>
      /\ NothingMoves \/ (~Missing(Item) /\ MoveBack)
  <2>1. /\ pc' \in {"rollback", "clear"}
        /\ NothingMoves \/ (~Missing(Item) /\ MoveBack)
        /\ UNCHANGED failures
    BY <1>5 DEF Rollback, RollbackDone, faults
  <2>2. ASSUME ~Missing(Item)
        PROVE  /\ ~FromCurrent => disk[Item.original] # NoFile
               /\ FromCurrent => disk[Item.original] = NoFile
    <3>1. /\ \/ AtOriginal(batch[k], At0(k)) \/ AtStaging(batch[k], At0(k))
             \/ AtTarget(batch[k], At0(k))
          /\ batch[k].asset \in installed <=> AtTarget(batch[k], At0(k))
      BY <1>1, <1>3, <2>2 DEF PlacesNow, ItemPlace
    <3> QED
      BY <1>3, <2>2, <3>1
         DEF FromCurrent, Staged, AtOriginal, AtStaging, AtTarget, Missing
  <2>3. UNCHANGED unresolved
    BY <1>5, <2>2 DEF Rollback, RollbackDone, Resolved
  <2> QED
    BY <2>1, <2>3
<1>7. pc' \in Undecided
  BY <1>6 DEF Undecided
<1>8. \A p \in Paths : p # batch[k].original /\
          (batch[k].action = "rename" => p # batch[k].target) => disk'[p] = disk[p]
  BY <1>3, <1>4, <1>6 DEF NothingMoves, MoveBack, FromStaging, TypeOK
<1>9. ~Missing(batch[k]) \/ UNCHANGED disk
  BY <1>3, <1>6 DEF NothingMoves
<1> QED
  BY <1>1, <1>2, <1>5, <1>6, <1>7, <1>8, <1>9, BatchTidy DEF Tidy

LEMMA CommitTidy ==
    ASSUME SafeInv, RowsDiffer, PlacesNow, Tidy, SafeInv', PlacesInv', Orderly', Commit
    PROVE  Tidy'
<1> USE DEF SafeInv
<1>1. pc = "commit" /\ pc \in Undecided /\ Active
  BY DEF Commit, Undecided, Active
<1>2. UNCHANGED <<disk, staged, batch, number, unresolved, gone>> /\ unresolved = {}
  BY <1>1 DEF Commit, Tidy
<1>3. CASE RollBack /\ Fault /\ UNCHANGED <<row, journal, deleted>>
  <2>1. pc' = "rollback" /\ pc' \in Undecided /\ failures' = 1
    BY <1>3, OneFault DEF RollBack, Undecided
  <2>2. 1 \in 1 .. Len(batch)
    BY <1>1, ItemTypes
  <2> QED
    BY <1>1, <1>2, <1>3, <2>1, <2>2, BatchTidy
<1>4. CASE /\ row' = RowsAfter
           /\ journal' = {IF r.batch = number THEN [r EXCEPT !.committed = TRUE] ELSE r :
                          r \in journal}
           /\ pc' = "finish"
  <2>1. Open' = {}
    <3> SUFFICES ASSUME NEW s \in journal', ~s.committed
                 PROVE  FALSE
      BY DEF Open
    <3>1. PICK r \in journal :
            s = IF r.batch = number THEN [r EXCEPT !.committed = TRUE] ELSE r
      BY <1>4
    <3>2. r.batch = number => s.committed
      BY <3>1, RowTypes DEF JournalRows
    <3>3. r.batch # number /\ r \in Open
      BY <3>1, <3>2 DEF Open
    <3> QED
      BY <3>3 DEF Tidy, OpenRows
  <2>2. Home'
    <3> SUFFICES ASSUME NEW a \in Assets, row'[a] # Nowhere
                 PROVE  disk[row'[a]] = FileOf(a)
      BY <1>2 DEF Home, FileOf
    <3>1. CASE \E i \in 1 .. Len(batch) : batch[i].asset = a
      <4> PICK i \in 1 .. Len(batch) : batch[i].asset = a
        BY <3>1
      <4>1. row'[a] = batch[i].target
        BY <1>1, <1>4, RowsAfterItem
      <4>2. batch[i].action = "rename" /\ ~Missing(batch[i])
        BY <1>1, <4>1, AtItemTypes DEF BatchShape
      <4>3. AtTarget(batch[i], At0(i))
        BY <1>1, <4>2 DEF PlacesNow, ItemPlace
      <4>4. batch[i].file = FileOf(a)
        BY <1>1 DEF Tidy
      <4> QED
        BY <4>1, <4>3, <4>4 DEF AtTarget
    <3>2. CASE ~ \E i \in 1 .. Len(batch) : batch[i].asset = a
      <4>1. row'[a] = row[a]
        BY <1>4, <3>2, RowsAfterOther
      <4>2. \A r \in Open : r.asset # a
        <5> SUFFICES ASSUME NEW r \in Open, r.asset = a
                     PROVE  FALSE
          OBVIOUS
        <5>1. r \in journal /\ r.batch = number
          BY DEF Open, Tidy, OpenRows
        <5>2. PICK i \in 1 .. Len(batch) : RowOfItem(r, i)
          BY <1>1, <5>1, CurrentRow
        <5> QED
          BY <3>2, <5>2 DEF RowOfItem
      <4> QED
        BY <3>2, <4>1, <4>2 DEF Tidy, Home
    <3> QED
      BY <3>1, <3>2
  <2> QED
    BY <1>4, <2>1, <2>2 DEF Tidy, OpenRows, Undecided
<1> QED
  BY <1>3, <1>4 DEF Commit

(* The open rows and their files stay. *)
LEMMA RestTidy ==
    ASSUME Tidy, UNCHANGED <<row, disk, gone, number>>, journal' \subseteq journal, Open' = Open,
           \A r \in Open : staged'[At(r)] = staged[At(r)],
           pc' \notin Undecided, pc' = "idle" => Open = {}, pc' = "recover" => Open \subseteq pending'
    PROVE  Tidy'
<1>1. Home'
  BY DEF Tidy, Home, FileOf
<1>2. OpenRows'
  <2> SUFFICES ASSUME NEW r \in Open
               PROVE  /\ r.batch = number
                      /\ row[r.asset] = r.original /\ r.asset \notin gone
                      /\ \A a \in Assets : row[a] # r.target \/ r.target = Nowhere
                      /\ RowPlace(r)'
                      /\ \A s \in Open : s # r => Apart(r, s)
                      /\ \A s \in journal : s.batch = r.batch => ~s.committed
    BY DEF OpenRows, Apart
  <2>1. RowPlace(r)
    BY DEF Tidy, OpenRows
  <2>2. RowPlace(r)'
    BY <2>1 DEF RowPlace, At
  <2> QED
    BY <2>2 DEF Tidy, OpenRows
<1> QED
  BY <1>1, <1>2 DEF Tidy, Undecided

LEMMA FinishTidy ==
    ASSUME SafeInv, Tidy, Finish \/ DropRow
    PROVE  Tidy'
<1> USE DEF SafeInv
<1>1. pc \in Decided /\ Active /\ UNCHANGED <<row, disk, gone, number>> /\ journal' \subseteq journal
  BY DEF Finish, DropRow, Decided, Active, history
<1>2. Open = {} /\ Open' = {}
  BY <1>1 DEF Tidy, OpenRows, Open, CurrentRows
<1>3. pc' \in {"finish", "dropRow", "idle"}
  BY DEF Finish, DropRow, Report
<1>4. pc' \notin Undecided
  BY <1>3 DEF Undecided
<1> QED
  BY <1>1, <1>2, <1>3, <1>4, RestTidy

LEMMA ClearTidy ==
    ASSUME SafeInv, RowsDiffer, PlacesNow, Tidy, SafeInv', PlacesInv', Orderly', Clear
    PROVE  Tidy'
<1> USE DEF SafeInv
<1>1. pc = "clear" /\ pc \in Undecided /\ Active
  BY DEF Clear, Undecided, Active
<1>2. UNCHANGED <<row, gone, disk, staged, batch, number>>
  BY DEF Clear, history
<1> PICK k \in 1 .. Len(batch) : k = index
  BY <1>1, ItemTypes
<1>3. /\ Item = batch[k] /\ Staging = At0(k)
  BY <1>1, ItemTypes
<1>4. \A i \in 1 .. Len(batch) : ~Missing(batch[i]) =>
          batch[i].asset \notin unresolved /\ AtOriginal(batch[i], At0(i))
  BY <1>1 DEF Tidy, PlacesNow, ItemPlace
<1>5. ~Missing(Item) => Restored
  BY <1>3, <1>4 DEF Restored, Staged, AtOriginal, Missing
<1>6. failures = 1 /\ ~Fault
  BY <1>1, OneFault DEF Tidy
<1>7. /\ UNCHANGED failures
      /\ ~Missing(Item) => journal' = journal \ RowOf(Item) /\ Report("clear", "rolledBack", Resolved)
      /\ journal' \subseteq journal /\ unresolved' \subseteq unresolved \cup {Item.asset}
      /\ pc' = "clear" \/ (pc' = "idle" /\ ~(index < Len(batch)))
  BY <1>3, <1>4, <1>5, <1>6 DEF Clear, faults, Report, Resolved, Unresolved
<1>8. ASSUME NEW i \in 1 .. Len(batch), ~Missing(batch[i])
      PROVE  batch[i].asset \notin unresolved'
  <2>1. CASE i = k
    BY <1>3, <1>4, <1>7, <1>8, <2>1 DEF Report, Resolved
  <2>2. CASE i # k
    BY <1>3, <1>4, <1>7, <1>8, <2>2 DEF BatchShape
  <2> QED
    BY <2>1, <2>2
<1>9. Open' \subseteq Open
  BY <1>7 DEF Open
<1>10. ASSUME NEW r \in Open
       PROVE  /\ disk[row[r.asset]] = r.asset /\ r.asset \notin gone
              /\ pc' = "idle" => r \notin journal'
  <2>1. r \in journal /\ r.batch = number /\ row[r.asset] = r.original /\ r.asset \notin gone
        /\ r.asset \in Assets
    BY RowTypes DEF Open, Tidy, OpenRows
  <2>2. PICK i \in 1 .. Len(batch) : RowOfItem(r, i) /\ At(r) = At0(i)
    BY <1>1, <2>1, CurrentRow
  <2>3. batch[i].file = r.asset /\ AtOriginal(batch[i], At0(i)) /\ batch[i].asset \notin unresolved
    BY <1>1, <1>4, <2>1, <2>2 DEF Tidy, FileOf, RowOfItem
  <2>4. pc' = "idle" => r \notin journal'
    <3> SUFFICES ASSUME pc' = "idle", r \in journal'
                 PROVE  FALSE
      OBVIOUS
    <3>1. k = Len(batch)
      BY <1>1, <1>7, ItemTypes
    <3>2. i = k
      BY <1>1, <2>1, <2>2, <2>3, <3>1 DEF PlacesNow, Settled
    <3> QED
      BY <1>3, <1>7, <2>1, <2>2, <3>2 DEF RowOf, RowOfItem
  <2> QED
    BY <2>1, <2>2, <2>3, <2>4 DEF AtOriginal, RowOfItem
<1>11. Home'
  <2> SUFFICES ASSUME NEW a \in Assets, row[a] # Nowhere
               PROVE  disk[row[a]] = FileOf(a)
    BY <1>2 DEF Home, FileOf
  <2> QED
    BY <1>10 DEF Tidy, Home, FileOf
<1>12. pc' = "idle" => Open' = {}
  BY <1>9, <1>10 DEF Open
<1>13. OpenRows'
  <2>1. CASE pc' = "idle"
    BY <1>12, <2>1 DEF OpenRows
  <2>2. CASE pc' = "clear"
    <3>1. Active' /\ pc' \in Undecided /\ meddlings' = 0
      BY <2>2 DEF Active, Undecided, Orderly
    <3>2. PlacesNow' /\ RowsDiffer'
      BY <3>1, PlacesKnownNext
    <3>3. ItemFiles' /\ \A r \in Open' : r.batch = number'
      BY <1>1, <1>2, <1>9 DEF ItemFiles, FileOf, Tidy, OpenRows
    <3> QED
      BY <3>1, <3>2, <3>3, ActiveOpenRowsNext
  <2> QED
    BY <1>7, <2>1, <2>2
<1> QED
  BY <1>1, <1>2, <1>6, <1>7, <1>8, <1>11, <1>12, <1>13 DEF Tidy, FileOf, Missing

LEMMA BeginTidy ==
    ASSUME SafeInv, RowsDiffer, Tidy, SafeInv', PlacesInv', Orderly', NEW n \in 1 .. MaxItems,
           NEW f \in [1 .. n -> Indexed \X (Paths \cup {Nowhere})],
           Begin([i \in 1 .. n |-> Change(f[i][1], f[i][2])])
    PROVE  Tidy'
<1>1. /\ pc = "idle" /\ pc' = "stage" /\ number' = number + 1 /\ unresolved' = {}
      /\ UNCHANGED <<row, disk, gone>>
  BY DEF Begin, history
<1>2. Len(batch') = n /\ Open = {}
  BY <1>1, BeginBatch DEF Tidy
<1>3. Active' /\ pc' \in Undecided /\ meddlings' = 0
  BY <1>1 DEF Active, Undecided, Orderly
<1>4. PlacesNow' /\ RowsDiffer'
  BY <1>3, PlacesKnownNext
<1>5. ASSUME NEW i \in 1 .. n
      PROVE  /\ batch'[i].asset \in Assets /\ row[batch'[i].asset] = batch'[i].original
             /\ batch'[i].file = FileOf(batch'[i].asset)
  <2>1. /\ batch'[i].asset \in Assets /\ row[batch'[i].asset] = batch'[i].original
        /\ row[batch'[i].asset] \in Paths
        /\ batch'[i].file = disk[row[batch'[i].asset]]
    BY BeginBatch
  <2> QED
    BY <1>2, <2>1, MarksAssumption DEF Tidy, Home
<1>6. \A r \in Open' : r \in journal' \ journal /\ r.batch = number'
  <2> SUFFICES ASSUME NEW r \in Open'
               PROVE  r \in journal' \ journal /\ r.batch = number'
    OBVIOUS
  <2>1. r \in journal' \ journal
    BY <1>2 DEF Open
  <2>2. PICK i \in 1 .. n : r = BeginRow(batch'[i], number + 1)
    BY <2>1, BeginJournal
  <2> QED
    BY <1>1, <2>1, <2>2 DEF BeginRow
<1>7. OpenRows'
  <2>1. ItemFiles'
    BY <1>1, <1>2, <1>5 DEF ItemFiles, FileOf
  <2> QED
    BY <1>3, <1>4, <1>6, <2>1, ActiveOpenRowsNext
<1>8. Home'
  BY <1>1, <1>2 DEF Tidy, Home, FileOf
<1> QED
  BY <1>1, <1>2, <1>5, <1>7, <1>8 DEF Tidy, FileOf

LEMMA CrashTidy ==
    ASSUME SafeInv, Tidy, Crash \/ Startup \/ Started
    PROVE  Tidy'
<1>1. UNCHANGED <<row, disk, staged, journal, gone, number>> /\ Open' = Open
  BY DEF Crash, Startup, Started, library, history, Open
<1>2. /\ pc' \in {"down", "recover", "idle"}
      /\ pc' = "recover" => pending' = journal
      /\ pc' = "idle" => pc = "recover" /\ pending = {}
  BY DEF Crash, Die, Startup, Started
<1>3. pc' = "idle" => Open = {}
  BY <1>2 DEF Tidy
<1>4. pc' \notin Undecided /\ Open \subseteq journal
  BY <1>2 DEF Undecided, Open
<1> QED
  BY <1>1, <1>2, <1>3, <1>4, RestTidy

LEMMA RemoveRootTidy ==
    ASSUME Tidy, RemoveRoot
    PROVE  Tidy'
<1>1. /\ pc = "idle" /\ UNCHANGED <<journal, pc>> /\ \A a \in Assets : row'[a] = Nowhere
  BY DEF RemoveRoot
<1>2. Open = {} /\ Open' = {}
  BY <1>1 DEF Tidy, Open
<1> QED
  BY <1>1, <1>2 DEF Tidy, OpenRows, Home, Undecided

LEMMA ForgetOpen ==
    ASSUME SafeInv, Tidy, pc = "recover", NEW r \in pending, Forget(r)
    PROVE  /\ journal' \subseteq journal /\ Open' \subseteq Open /\ Open \ {r} \subseteq Open'
           /\ pc' \in {"recover", "refused", "down"}
           /\ pc' = "recover" => pending' = pending \ {r} /\ journal' = journal \ {r}
           /\ pc' = "recover" => Open' \subseteq pending'
<1>1. Open \subseteq pending
  BY DEF Tidy
<1>2. CASE journal' = journal \ {r} /\ Pass(r)
  BY <1>1, <1>2 DEF Pass, Open
<1>3. CASE pc' = "refused" /\ UNCHANGED journal
  BY <1>3 DEF Open
<1>4. CASE Die /\ UNCHANGED journal
  BY <1>4 DEF Open, Die
<1> QED
  BY <1>2, <1>3, <1>4 DEF Forget

LEMMA RecoverCommittedTidy ==
    ASSUME SafeInv, Tidy, pc = "recover", NEW r \in pending,
           RecoverRename(r) \/ RecoverDelete(r) \/ RecoverFails(r),
           UNCHANGED <<number, history>>
    PROVE  Tidy'
<1>1. UNCHANGED <<row, disk, gone>>
  BY DEF RecoverRename, RecoverDelete, RecoverFails, Refuse, library, history
<1>2. r \in journal /\ Open \subseteq pending
  BY DEF SafeInv, JournalShape, Tidy
<1>3. CASE Refuse \/ RecoverFails(r)
  <2>1. pc' = "refused" /\ UNCHANGED <<staged, journal>> /\ Open' = Open
    BY <1>3 DEF Refuse, RecoverFails, library, Open
  <2> QED
    BY <1>1, <2>1, RestTidy DEF Undecided
<1>4. CASE /\ r.committed
           /\ staged' \in {staged, [staged EXCEPT ![At(r)] = NoFile]}
           /\ Forget(r) \/ (Pass(r) /\ UNCHANGED journal)
  <2>1. r \notin Open
    BY <1>4 DEF Open
  <2>2. /\ journal' \subseteq journal /\ Open' = Open
        /\ pc' \in {"recover", "refused", "down"}
        /\ pc' = "recover" => Open \subseteq pending'
    <3>1. CASE Forget(r)
      BY <2>1, <3>1, ForgetOpen
    <3>2. CASE Pass(r) /\ UNCHANGED journal
      BY <1>2, <2>1, <3>2 DEF Pass, Open
    <3> QED
      BY <1>4, <3>1, <3>2
  <2>3. ASSUME NEW s \in Open
        PROVE  staged'[At(s)] = staged[At(s)]
    <3>1. s.batch # r.batch
      BY <1>2, <1>4 DEF Tidy, OpenRows
    <3>2. At(s) # At(r)
      BY <3>1 DEF At
    <3>3. At(s) \in Batches \X Assets
      BY RowTypes DEF Open, SafeInv
    <3> QED
      BY <1>4, <3>2, <3>3 DEF SafeInv, TypeOK
  <2> QED
    BY <1>1, <2>2, <2>3, RestTidy DEF Undecided
<1> QED
  BY <1>3, <1>4 DEF RecoverRename, RecoverDelete

(* Recovery finds an open row's file in one of its places and brings it    *)
(* back; the row goes, or it stays when that fails or the process dies.    *)
LEMMA OpenRowComesBack ==
    ASSUME SafeInv, Tidy, pc = "recover", NEW r \in pending, RecoverUncommitted(r)
    PROVE  /\ r \in Open /\ Forget(r) /\ UNCHANGED row
           /\ r.asset \in Assets /\ r.original \in Paths /\ At(r) \in Batches \X Assets
           /\ r.action = "rename" <=> r.target \in Paths
           /\ disk'[r.original] = r.asset /\ staged'[At(r)] = NoFile
           /\ r.action = "rename" => disk'[r.target] = NoFile
           /\ \A p \in Paths : p # r.original /\ p # r.target => disk'[p] = disk[p]
           /\ \A w \in Batches \X Assets : w # At(r) => staged'[w] = staged[w]
<1>1. r \in journal /\ r \in Open
  BY DEF SafeInv, JournalShape, RecoverUncommitted, Open
<1>2. /\ r.asset \in Assets /\ r.original \in Paths /\ At(r) \in Batches \X Assets
      /\ r.action = "rename" <=> r.target \in Paths
      /\ r.target # r.original
  BY <1>1, RowTypes DEF SafeInv, JournalShape
<1>3. RowPlace(r) /\ r.asset # NoFile
  BY <1>1, <1>2, MarksAssumption DEF Tidy, OpenRows
<1>4. disk \in [Paths -> Files] /\ staged \in [Batches \X Assets -> Files]
  BY DEF SafeInv, TypeOK
<1>5. CASE disk[r.original] = r.asset /\ staged[At(r)] = NoFile
           /\ (r.action = "rename" => disk[r.target] = NoFile)
  <2>1. Forget(r) /\ UNCHANGED <<row, disk, staged>>
    BY <1>3, <1>5 DEF RecoverUncommitted
  <2> QED
    BY <1>1, <1>2, <1>5, <2>1
<1>6. CASE disk[r.original] = NoFile /\ staged[At(r)] = r.asset
           /\ (r.action = "rename" => disk[r.target] = NoFile)
  <2>1. /\ Forget(r) /\ UNCHANGED row
        /\ disk' = [disk EXCEPT ![r.original] = staged[At(r)]]
        /\ staged' = [staged EXCEPT ![At(r)] = NoFile]
    BY <1>3, <1>6 DEF RecoverUncommitted
  <2> QED
    BY <1>1, <1>2, <1>4, <1>6, <2>1
<1>7. CASE r.action = "rename" /\ disk[r.original] = NoFile /\ staged[At(r)] = NoFile
           /\ disk[r.target] = r.asset
  <2>1. /\ Forget(r) /\ UNCHANGED <<row, staged>>
        /\ disk' = [disk EXCEPT ![r.original] = disk[r.target], ![r.target] = NoFile]
    BY <1>3, <1>7 DEF RecoverUncommitted
  <2> QED
    BY <1>1, <1>2, <1>4, <1>7, <2>1
<1> QED
  BY <1>3, <1>5, <1>6, <1>7 DEF RowPlace

LEMMA RecoverUncommittedTidy ==
    ASSUME SafeInv, RowsDiffer, Tidy, pc = "recover", NEW r \in pending, RecoverUncommitted(r),
           UNCHANGED <<number, history>>
    PROVE  Tidy'
<1>1. /\ r \in Open /\ Forget(r) /\ UNCHANGED <<row, gone>>
      /\ r.asset \in Assets /\ r.original \in Paths /\ At(r) \in Batches \X Assets
      /\ r.action = "rename" <=> r.target \in Paths
      /\ disk'[r.original] = r.asset /\ staged'[At(r)] = NoFile
      /\ r.action = "rename" => disk'[r.target] = NoFile
      /\ \A p \in Paths : p # r.original /\ p # r.target => disk'[p] = disk[p]
      /\ \A w \in Batches \X Assets : w # At(r) => staged'[w] = staged[w]
  BY OpenRowComesBack DEF history
<1>2. /\ journal' \subseteq journal /\ Open' \subseteq Open /\ Open \ {r} \subseteq Open'
      /\ pc' \in {"recover", "refused", "down"}
      /\ pc' = "recover" => Open' \subseteq pending'
  BY <1>1, ForgetOpen
<1>3. row[r.asset] = r.original /\ r.asset \notin gone
      /\ \A a \in Assets : row[a] # r.target \/ r.target = Nowhere
  BY <1>1 DEF Tidy, OpenRows
<1>4. OpenRows'
  <2> SUFFICES ASSUME NEW s \in Open'
               PROVE  RowPlace(s)'
    BY <1>1, <1>2 DEF Tidy, OpenRows, Apart
  <2>1. s \in Open /\ s \in journal
    BY <1>2 DEF Open
  <2>2. s.original \in Paths /\ At(s) \in Batches \X Assets /\ s.action \in Actions
        /\ (s.action = "rename" <=> s.target \in Paths)
    BY <2>1, RowTypes DEF SafeInv, JournalShape
  <2>3. CASE s = r
    BY <1>1, <2>3 DEF RowPlace, At
  <2>4. CASE s # r
    <3>1. Apart(r, s) /\ RowPlace(s)
      BY <1>1, <2>1, <2>4 DEF Tidy, OpenRows
    <3>2. At(s) # At(r)
      BY <3>1 DEF At, Apart
    <3>3. /\ disk'[s.original] = disk[s.original] /\ staged'[At(s)] = staged[At(s)]
          /\ s.action = "rename" => disk'[s.target] = disk[s.target]
      BY <1>1, <2>2, <3>1, <3>2, MarksAssumption DEF Apart
    <3> QED
      BY <3>1, <3>3 DEF RowPlace, At
  <2> QED
    BY <2>3, <2>4
<1>5. Home'
  <2> SUFFICES ASSUME NEW a \in Assets, row[a] # Nowhere, \A s \in Open' : s.asset # a
               PROVE  disk'[row[a]] = FileOf(a)
    BY <1>1 DEF Home, FileOf
  <2>1. CASE a = r.asset
    BY <1>1, <1>3, <2>1 DEF FileOf
  <2>2. CASE a # r.asset
    <3>1. \A s \in Open : s.asset # a
      BY <1>2, <2>2
    <3>2. disk[row[a]] = FileOf(a) /\ row[a] \in Paths
      BY <3>1 DEF Tidy, Home, SafeInv, TypeOK
    <3>3. row[a] # r.original /\ row[a] # r.target
      BY <1>1, <1>3, <2>2 DEF RowsDiffer
    <3> QED
      BY <1>1, <3>2, <3>3
  <2> QED
    BY <2>1, <2>2
<1> QED
  BY <1>2, <1>4, <1>5 DEF Tidy, Undecided

LEMMA FaultsOnlyGrow ==
    ASSUME SafeInv, [Next]_vars
    PROVE  failures' >= failures /\ meddlings' >= meddlings
<1>1. failures \in Nat /\ meddlings \in Nat
  BY BoundsAssumption DEF SafeInv, TypeOK
<1>2. UNCHANGED faults \/ UNCHANGED <<failures, meddlings>> \/ Fault
      \/ \E p \in Paths : Meddle(p)
  <2>1. CASE \E n \in 1 .. MaxItems : \E f \in [1 .. n -> Indexed \X (Paths \cup {Nowhere})] :
              Begin([i \in 1 .. n |-> Change(f[i][1], f[i][2])])
    BY <2>1 DEF Begin
  <2>2. CASE Stage \/ Install \/ Commit \/ Finish \/ DropRow \/ Rollback \/ Clear
    BY <2>2 DEF Stage, Install, Commit, Finish, DropRow, Rollback, Clear
  <2>3. CASE Recover
    BY <2>3 DEF Recover, RecoverRename, RecoverDelete, RecoverUncommitted, RecoverFails, Refuse,
                Forget
  <2>4. CASE Startup \/ Started \/ Crash \/ RemoveRoot \/ UNCHANGED vars
    BY <2>4 DEF Startup, Started, Crash, RemoveRoot, vars, faults
  <2> QED
    BY <2>1, <2>2, <2>3, <2>4 DEF Next
<1> QED
  BY <1>1, <1>2 DEF faults, Fault, Meddle

LEMMA OrderlyStep ==
    SafeInv /\ PlacesInv /\ OrderlyInv /\ [Next]_vars /\ SafeInv' /\ PlacesInv' => OrderlyInv'
<1> SUFFICES ASSUME SafeInv, PlacesInv, OrderlyInv, [Next]_vars, SafeInv', PlacesInv', Orderly'
             PROVE  Tidy'
  BY DEF OrderlyInv
<1>1. /\ failures \in Nat /\ meddlings \in Nat
      /\ Tidy /\ meddlings = 0 /\ meddlings' = 0 /\ RowsDiffer
  BY FaultsOnlyGrow, BoundsAssumption DEF SafeInv, TypeOK, Orderly, OrderlyInv, PlacesInv
<1>2. Active => PlacesNow
  BY <1>1, PlacesKnown
<1>3. ASSUME NEW n \in 1 .. MaxItems,
             NEW f \in [1 .. n -> Indexed \X (Paths \cup {Nowhere})],
             Begin([i \in 1 .. n |-> Change(f[i][1], f[i][2])])
      PROVE  Tidy'
  BY <1>1, <1>3, BeginTidy
<1>4. CASE Stage
  BY <1>1, <1>2, <1>4, StageTidy DEF Stage, Active, Undecided
<1>5. CASE Install
  BY <1>1, <1>2, <1>5, InstallTidy DEF Install, Active, Undecided
<1>6. CASE Commit
  BY <1>1, <1>2, <1>6, CommitTidy DEF Commit, Active, Undecided
<1>7. CASE Finish \/ DropRow
  BY <1>1, <1>7, FinishTidy
<1>8. CASE Rollback
  BY <1>1, <1>2, <1>8, RollbackTidy DEF Rollback, Active, Undecided
<1>9. CASE Clear
  BY <1>1, <1>2, <1>9, ClearTidy DEF Clear, Active, Undecided
<1>10. CASE Recover
  BY <1>1, <1>10, RecoverCommittedTidy, RecoverUncommittedTidy DEF Recover
<1>11. CASE Crash \/ Startup \/ Started
  BY <1>1, <1>11, CrashTidy
<1>12. CASE RemoveRoot
  BY <1>1, <1>12, RemoveRootTidy
<1>13. CASE \E p \in Paths : Meddle(p)
  BY <1>1, <1>13 DEF Meddle
<1>14. CASE UNCHANGED vars
  <2> USE <1>14 DEF vars
  <2>1. Open' = Open /\ (\A a : FileOf(a)' = FileOf(a)) /\ \A r : RowPlace(r)' = RowPlace(r)
    BY DEF Open, FileOf, RowPlace, At
  <2>2. OpenRows' /\ Home'
    BY <1>1, <2>1 DEF Tidy, OpenRows, Home, Apart
  <2> QED
    BY <1>1, <2>1, <2>2 DEF Tidy, Missing
<1> QED
  BY <1>3, <1>4, <1>5, <1>6, <1>7, <1>8, <1>9, <1>10, <1>11, <1>12, <1>13, <1>14 DEF Next

LEMMA TidyStart == Init => Tidy
<1> SUFFICES ASSUME Init
             PROVE  Tidy
  OBVIOUS
<1>1. Open = {} /\ pc = "idle"
  BY DEF Init, Open
<1>2. Home
  <2> SUFFICES ASSUME NEW a \in Assets
               PROVE  disk[row[a]] = FileOf(a)
    BY DEF Home
  <2>1. row[a] \in Paths /\ \A b \in Assets : row[b] = row[a] => b = a
    BY DEF Init
  <2>2. CASE a \in gone
    BY <2>1, <2>2 DEF Init, FileOf
  <2>3. CASE a \notin gone
    <3> DEFINE b == CHOOSE b \in Assets \ gone : row[b] = row[a]
    <3>1. b \in Assets \ gone /\ row[b] = row[a]
      BY <2>3
    <3>2. disk[row[a]] = b
      BY <2>1, <2>3 DEF Init
    <3> QED
      BY <2>1, <2>3, <3>1, <3>2 DEF FileOf
  <2> QED
    BY <2>2, <2>3
<1> QED
  BY <1>1, <1>2 DEF Tidy, OpenRows, Undecided

LEMMA AlwaysOrderly == Spec => [](SafeInv /\ PlacesInv /\ OrderlyInv)
<1>1. Init => OrderlyInv
  BY TidyStart DEF OrderlyInv
<1> QED
  BY <1>1, OrderlyStep, AlwaysPlaces, PTL DEF Spec

(* While the program rests with nothing to recover, every asset's row      *)
(* names the place of its own file: after one failed call, any number of   *)
(* crashes and recoveries, and with nobody meddling.                       *)
THEOREM RowsAlwaysNameTheirFiles == Spec => []RowsNameTheirFiles
<1>1. OrderlyInv => RowsNameTheirFiles
  BY DEF OrderlyInv, Orderly, Tidy, Home, Open, FileOf, RowsNameTheirFiles
<1> QED
  BY <1>1, AlwaysOrderly, PTL

-----------------------------------------------------------------------------
(* With no failed call                                                     *)

LEMMA FlawlessBegin ==
    ASSUME SafeInv, RowsDiffer, Flawless, NEW n \in 1 .. MaxItems,
           NEW f \in [1 .. n -> Indexed \X (Paths \cup {Nowhere})],
           Begin([i \in 1 .. n |-> Change(f[i][1], f[i][2])])
    PROVE  Flawless'
<1>1. /\ pc = "idle" /\ pc' = "stage" /\ unresolved' = {} /\ number' = number + 1
      /\ UNCHANGED rooted
  BY DEF Begin, history
<1>2. journal = {}
  BY <1>1 DEF Flawless
<1>3. rooted
  <2>1. 1 \in 1 .. n
    BY BoundsAssumption
  <2>2. f[1][1] \in Assets /\ row[f[1][1]] \in Paths
    BY <2>1, BeginBatch
  <2> QED
    BY <2>2, MarksAssumption DEF RowsDiffer
<1>4. ASSUME NEW r \in journal'
      PROVE  r.batch = number' /\ ~r.committed
  <2>1. PICK i \in 1 .. n : r = BeginRow(batch'[i], number + 1)
    BY <1>2, <1>4, BeginJournal
  <2> QED
    BY <1>1, <2>1 DEF BeginRow
<1> QED
  BY <1>1, <1>3, <1>4 DEF Flawless

LEMMA FlawlessStageInstall ==
    ASSUME SafeInv, Flawless, Stage \/ Install, pc' \notin {"rollback", "clear"}
    PROVE  Flawless'
<1>1. /\ pc' \in {"stage", "install", "commit"} /\ pc \notin Decided /\ Active
      /\ UNCHANGED <<journal, number, unresolved, rooted>>
  BY DEF Stage, Install, Continue, RollBack, history, Active, Undecided, Decided
<1>2. \A r \in journal : ~r.committed
  BY <1>1 DEF Flawless, SafeInv, CurrentRows
<1> QED
  BY <1>1, <1>2 DEF Flawless

LEMMA FlawlessCommit ==
    ASSUME SafeInv, PlacesNow, Flawless, Commit, ~Fault
    PROVE  Flawless'
<1>1. /\ pc = "commit" /\ Active /\ pc' = "finish"
      /\ UNCHANGED <<disk, batch, number, unresolved, rooted>>
      /\ journal' = {IF r.batch = number THEN [r EXCEPT !.committed = TRUE] ELSE r :
                     r \in journal}
  BY DEF Commit, Active, Undecided
<1>2. ASSUME NEW s \in journal'
      PROVE  s.batch = number /\ (s.action = "rename" => disk[s.target] # NoFile)
  <2>1. PICK r \in journal :
          s = IF r.batch = number THEN [r EXCEPT !.committed = TRUE] ELSE r
    BY <1>1
  <2>2. r.batch = number /\ r \in JournalRows
    BY RowTypes DEF Flawless, SafeInv
  <2>3. s.batch = number /\ s.action = r.action /\ s.target = r.target
    BY <2>1, <2>2 DEF JournalRows
  <2>4. PICK i \in 1 .. Len(batch) : RowOfItem(r, i)
    BY <1>1, <2>2, CurrentRow
  <2>5. s.action = "rename" => AtTarget(batch[i], At0(i)) /\ batch[i].file # NoFile
    BY <1>1, <2>3, <2>4 DEF RowOfItem, PlacesNow, ItemPlace, Missing
  <2> QED
    BY <2>3, <2>4, <2>5 DEF AtTarget, RowOfItem
<1>3. ~rooted => journal' = {}
  BY <1>1 DEF Flawless
<1> QED
  BY <1>1, <1>2, <1>3 DEF Flawless

LEMMA FlawlessFinish ==
    ASSUME SafeInv, PlacesNow, Flawless, Finish \/ DropRow, ~Fault
    PROVE  Flawless'
<1> USE DEF SafeInv
<1>1. /\ pc \in Decided /\ Active /\ UNCHANGED <<disk, batch, number, rooted>>
      /\ journal' \subseteq journal
  BY DEF Finish, DropRow, Decided, Active, history
<1>2. unresolved = {} /\ unresolved' = {}
  BY <1>1 DEF Flawless, Finish, DropRow, Report, Resolved
<1>3. /\ pc' \in {"finish", "dropRow", "idle"}
      /\ pc' = "idle" => ~(index < Len(batch))
  BY DEF Finish, DropRow, Report
<1>4. pc' = "idle" => journal' = {}
  <2> SUFFICES ASSUME pc' = "idle"
               PROVE  journal' = {}
    OBVIOUS
  <2>1. index = Len(batch)
    BY <1>1, <1>3, ItemTypes
  <2>2. Emptying
    BY <1>1, ItemTypes DEF Finish, DropRow, Emptying, TypeOK
  <2>3. staged'[Staging] = NoFile /\ \A r \in journal' : At(r) # Staging
    BY <1>2, FinishSettles, DropRowSettles
  <2>4. \A r \in journal' : r.batch # number
    BY <1>1, <1>2, <2>1, <2>2, <2>3, AllSettled
  <2> QED
    BY <1>1, <2>4 DEF Flawless
<1>5. ~rooted => journal' = {}
  BY <1>1 DEF Flawless
<1> QED
  BY <1>1, <1>2, <1>3, <1>4, <1>5 DEF Flawless

LEMMA FlawlessRecover ==
    ASSUME SafeInv, Tidy, Flawless, Recover, ~Fault
    PROVE  Flawless'
<1>1. /\ pc = "recover" /\ pending = journal /\ UNCHANGED <<number, rooted>>
  BY DEF Recover, Flawless, history
<1>2. PICK r \in pending :
         RecoverRename(r) \/ RecoverDelete(r) \/ RecoverUncommitted(r) \/ RecoverFails(r)
  BY DEF Recover
<1>3. r \in journal /\ rooted
  BY <1>1 DEF Flawless
<1>4. Forget(r) /\ (UNCHANGED disk \/ RecoverUncommitted(r))
  <2>1. CASE RecoverRename(r)
    BY <1>3, <2>1 DEF Flawless, RecoverRename
  <2>2. CASE RecoverDelete(r)
    BY <1>3, <2>2 DEF RecoverDelete
  <2>3. CASE RecoverUncommitted(r)
    BY <1>1, <2>3, OpenRowComesBack
  <2>4. CASE RecoverFails(r)
    BY <2>4 DEF RecoverFails
  <2> QED
    BY <1>2, <2>1, <2>2, <2>3, <2>4
<1>5. /\ journal' \subseteq journal /\ pc' \in {"recover", "down"}
      /\ pc' = "recover" => pending' = pending \ {r} /\ journal' = journal \ {r}
  BY <1>1, <1>4 DEF Forget, Pass, Die
<1>6. ASSUME NEW s \in journal, s.committed
      PROVE  UNCHANGED disk
  <2>1. CASE RecoverUncommitted(r)
    <3>1. r \in Open /\ s.batch = r.batch
      BY <1>1, <1>3, <2>1, OpenRowComesBack DEF Flawless
    <3> QED
      BY <1>6, <3>1 DEF Tidy, OpenRows
  <2> QED
    BY <1>4, <2>1
<1> QED
  BY <1>1, <1>3, <1>5, <1>6 DEF Flawless, Active, Undecided, Decided

LEMMA FlawlessQuiet ==
    ASSUME Flawless, Crash \/ Startup \/ Started \/ RemoveRoot
    PROVE  Flawless'
<1>1. /\ UNCHANGED <<disk, journal, number>>
      /\ pc' \in {"down", "recover", "idle"}
      /\ pc' = "recover" => pending' = journal
      /\ pc' = "idle" => journal = {}
  BY DEF Crash, Die, Startup, Started, RemoveRoot, library, history, Flawless
<1>2. ~rooted' => journal = {}
  BY DEF Crash, Startup, Started, RemoveRoot, history, Flawless
<1> QED
  BY <1>1, <1>2 DEF Flawless, Active, Undecided, Decided

LEMMA FlawlessStep ==
    SafeInv /\ PlacesInv /\ OrderlyInv /\ FlawlessInv /\ [Next]_vars /\ OrderlyInv'
        => FlawlessInv'
<1> SUFFICES ASSUME SafeInv, PlacesInv, OrderlyInv, FlawlessInv, [Next]_vars, OrderlyInv',
                    failures' = 0, meddlings' = 0
             PROVE  Flawless'
  BY DEF FlawlessInv
<1>1. failures = 0 /\ meddlings = 0 /\ ~Fault
  BY FaultsOnlyGrow, BoundsAssumption DEF SafeInv, TypeOK, Fault
<1>2. Flawless /\ Tidy /\ Tidy' /\ RowsDiffer /\ (Active => PlacesNow)
  BY <1>1, PlacesKnown DEF FlawlessInv, OrderlyInv, Orderly, PlacesInv
<1>3. pc' \notin {"rollback", "clear"}
  BY <1>2 DEF Tidy
<1>4. ASSUME NEW n \in 1 .. MaxItems,
             NEW f \in [1 .. n -> Indexed \X (Paths \cup {Nowhere})],
             Begin([i \in 1 .. n |-> Change(f[i][1], f[i][2])])
      PROVE  Flawless'
  BY <1>2, <1>4, FlawlessBegin
<1>5. CASE Stage \/ Install
  BY <1>2, <1>3, <1>5, FlawlessStageInstall
<1>6. CASE Commit
  BY <1>1, <1>2, <1>6, FlawlessCommit DEF Commit, Active, Undecided
<1>7. CASE Finish \/ DropRow
  BY <1>1, <1>2, <1>7, FlawlessFinish DEF Finish, DropRow, Active, Decided
<1>8. CASE Rollback \/ Clear
  BY <1>2, <1>8 DEF Rollback, Clear, Flawless
<1>9. CASE Recover
  BY <1>1, <1>2, <1>9, FlawlessRecover
<1>10. CASE Crash \/ Startup \/ Started \/ RemoveRoot
  BY <1>2, <1>10, FlawlessQuiet
<1>11. CASE \E p \in Paths : Meddle(p)
  BY <1>1, <1>11 DEF Meddle
<1>12. CASE UNCHANGED vars
  BY <1>2, <1>12 DEF vars, Flawless, Active
<1> QED
  BY <1>4, <1>5, <1>6, <1>7, <1>8, <1>9, <1>10, <1>11, <1>12 DEF Next

LEMMA FlawlessStart == Init => FlawlessInv
  BY DEF Init, FlawlessInv, Flawless, Active, Undecided, Decided

(* Crashes at any point, also during a recovery, and as often as they may  *)
(* come, never make startup refuse a library nothing else went wrong with. *)
THEOREM CrashesAloneNeverRefuse == Spec => []CrashesNeverRefuse
<1>1. FlawlessInv => CrashesNeverRefuse
  BY DEF FlawlessInv, Flawless, CrashesNeverRefuse
<1> QED
  BY <1>1, FlawlessStart, FlawlessStep, AlwaysOrderly, PTL DEF Spec

=============================================================================

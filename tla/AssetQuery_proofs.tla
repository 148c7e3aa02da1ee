-------------------------- MODULE AssetQuery_proofs --------------------------
(***************************************************************************)
(* Proofs about AssetQuery, for every library, every set of filters and    *)
(* requests, and every size of the cache.                                  *)
(*                                                                         *)
(* A cached session, a request that read a snapshot and the library each   *)
(* claim what the result of a filter is at a dependency revision.  The     *)
(* inductive invariant says that these claims never contradict each other: *)
(* a write moves the revision of every filter it can matter to, so the     *)
(* claims of the library it changes are new ones, ahead of all others.     *)
(***************************************************************************)
EXTENDS AssetQuery, SequenceTheorems, FiniteSetTheorems, WellFoundedInduction, TLAPS

-----------------------------------------------------------------------------
(* The dependency revision of a filter *)

\* A bounded, nonempty set of natural numbers has a greatest element.
LEMMA MaxIsGreatest ==
    ASSUME NEW n \in Nat, NEW S \in SUBSET (0 .. n), S # {}
    PROVE  Max(S) \in S /\ \A x \in S : x <= Max(S)
<1> DEFINE T == {n - x : x \in S}
<1>0. \A x \in S : x \in 0 .. n /\ n - x \in Nat
  OBVIOUS
<1>1. T \subseteq Nat /\ T # {}
  BY <1>0
<1>2. PICK t \in T : \A u \in T : ~(<<u, t>> \in OpToRel(<, Nat))
  BY <1>1, NatLessThanWellFounded, WFMin
<1>3. \A u \in T : ~(u < t)
  <2> TAKE u \in T
  <2>1. u \in Nat /\ t \in Nat /\ ~(<<u, t>> \in OpToRel(<, Nat))
    BY <1>1, <1>2
  <2> HIDE DEF T
  <2> QED
    BY <2>1 DEF OpToRel
<1>4. PICK m \in S : t = n - m
  BY <1>2
<1>5. \A x \in S : m >= x
  <2> TAKE x \in S
  <2>1. n - x \in T /\ ~(n - x < n - m)
    BY <1>3, <1>4
  <2> QED
    BY <1>0, <2>1
<1>6. Max(S) \in S /\ \A x \in S : Max(S) >= x
  BY <1>5 DEF Max
<1> QED
  BY <1>6

\* The markers a filter depends on have a greatest revision.
LEMMA DependencyBounds ==
    ASSUME NEW n \in Nat, NEW m \in [Markers -> 0 .. n], NEW f \in Filter
    PROVE  /\ Dependencies(f) \subseteq Markers
           /\ Max({m[k] : k \in Dependencies(f)}) \in 0 .. n
           /\ \A k \in Dependencies(f) : m[k] <= Max({m[j] : j \in Dependencies(f)})
<1> DEFINE S == {m[k] : k \in Dependencies(f)}
<1>1. Dependencies(f) \subseteq Markers /\ "general" \in Dependencies(f)
  BY DEF Dependencies, Markers, FixedMarkers, Filter
<1>2. S \in SUBSET (0 .. n) /\ S # {}
  BY <1>1
<1>3. Max(S) \in S /\ \A x \in S : x <= Max(S)
  BY <1>2, MaxIsGreatest
<1> QED
  BY <1>1, <1>2, <1>3

\* A dependency revision is at most the revision of the library.
LEMMA DependencyRevisionType ==
    ASSUME TypeOK, NEW f \in Filter
    PROVE  DependencyRevision(f) \in 0 .. revision /\ revision \in Nat
<1>1. revision \in Nat /\ marker \in [Markers -> 0 .. revision]
  BY BoundsAssumption DEF TypeOK
<1>2. DependencyRevision(f) = Max({marker[k] : k \in Dependencies(f)})
  BY DEF DependencyRevision
<1> QED
  BY <1>1, <1>2, DependencyBounds

\* A filter does not tell two rows apart that agree on what it depends on.
LEMMA RowsAlike ==
    ASSUME NEW f \in Filter, NEW u \in Row, NEW v \in Row,
           u.group = v.group,
           SymDiff(u.tags, v.tags) \cap (f.tagsAnd \cup f.tagsNot) = {},
           f.favoritesOnly => u.favorite = v.favorite,
           f.tagCount # {} => Cardinality(u.tags) = Cardinality(v.tags)
    PROVE  Matches(f, u) <=> Matches(f, v)
BY DEF Matches, SymDiff, Filter, Row

\* Two libraries that give every asset alike rows have the same result.
Alike(f, lib, other) ==
    /\ DOMAIN lib = DOMAIN other
    /\ \A a \in DOMAIN lib :
           /\ lib[a].group = other[a].group
           /\ Matches(f, lib[a]) <=> Matches(f, other[a])

\* Alike libraries have the same result.
LEMMA AlikeResults ==
    ASSUME NEW f, NEW lib, NEW other, Alike(f, lib, other)
    PROVE  OrderedIds(f, lib) = OrderedIds(f, other)
BY DEF Alike, OrderedIds

\* What a library is made of.
LEMMA LibraryRows ==
    ASSUME NEW lib \in Library
    PROVE  /\ DOMAIN lib \subseteq Assets
           /\ \A a \in DOMAIN lib : lib[a] \in Row
           /\ lib = [a \in DOMAIN lib |-> lib[a]]
BY DEF Library

\* What makes a library.
LEMMA IsLibrary ==
    ASSUME NEW lib, lib = [a \in DOMAIN lib |-> lib[a]], DOMAIN lib \subseteq Assets,
           \A a \in DOMAIN lib : lib[a] \in Row
    PROVE  lib \in Library
<1>1. lib \in [DOMAIN lib -> Row]
  OBVIOUS
<1> QED
  BY <1>1 DEF Library

\* The result of a filter is a set of assets with their groups.
LEMMA OrderedIdsType ==
    ASSUME NEW lib \in Library, NEW f
    PROVE  OrderedIds(f, lib) \in Ids
BY LibraryRows DEF OrderedIds, Ids, Row

-----------------------------------------------------------------------------
(* The cache operations keep sessions of the cache and make up none *)

From(cs, ds) == \A i \in DOMAIN cs : \E j \in DOMAIN ds : cs[i] = ds[j]

\* A prefix has elements of the sequence only.
LEMMA PrefixKeeps ==
    ASSUME NEW S, NEW cs \in Seq(S), NEW n \in 0 .. Len(cs)
    PROVE  SubSeq(cs, 1, n) \in Seq(S) /\ From(SubSeq(cs, 1, n), cs)
<1> DEFINE p == SubSeq(cs, 1, n)
<1>1. \A i \in 1 .. n : i \in DOMAIN cs /\ cs[i] \in S
  BY LenProperties
<1>2. /\ p \in Seq(S)
      /\ Len(p) = IF 1 <= n THEN n - 1 + 1 ELSE 0
      /\ \A i \in 1 .. n - 1 + 1 : p[i] = cs[1 + i - 1]
  BY <1>1, SubSeqProperties
<1>3. DOMAIN p = 1 .. n
  BY <1>2, LenProperties
<1> HIDE DEF p
<1> QED
  BY <1>1, <1>2, <1>3 DEF From

\* So has the cache that was pruned.
LEMMA PrunedKeeps ==
    ASSUME TypeOK, NEW kept \in Pruned
    PROVE  kept \in Seq(Session) /\ From(kept, sessions)
<1>1. sessions \in Seq(Session)
  BY DEF TypeOK
<1>2. PICK n \in 0 .. Len(sessions) : kept = SubSeq(sessions, 1, n)
  BY DEF Pruned
<1> QED
  BY <1>1, <1>2, PrefixKeeps

\* Removing a position keeps elements of the sequence.
LEMMA RemoveKeeps ==
    ASSUME NEW S, NEW cs \in Seq(S), NEW i \in DOMAIN cs
    PROVE  RemoveAt(cs, i) \in Seq(S) /\ From(RemoveAt(cs, i), cs)
<1> DEFINE p == SubSeq(cs, 1, i - 1)
           q == SubSeq(cs, i + 1, Len(cs))
<1>1. Len(cs) \in Nat /\ DOMAIN cs = 1 .. Len(cs) /\ i \in 1 .. Len(cs)
  BY LenProperties
<1>2. \A j \in DOMAIN cs : cs[j] \in S
  BY <1>1, ElementOfSeq
<1>3. p \in Seq(S) /\ From(p, cs)
  BY <1>1, PrefixKeeps
<1>4. q \in Seq(S) /\ From(q, cs)
  <2>1. \A j \in i + 1 .. Len(cs) : j \in DOMAIN cs /\ cs[j] \in S
    BY <1>1, <1>2
  <2>2. /\ q \in Seq(S)
        /\ Len(q) = IF i + 1 <= Len(cs) THEN Len(cs) - (i + 1) + 1 ELSE 0
        /\ \A j \in 1 .. Len(cs) - (i + 1) + 1 : q[j] = cs[i + 1 + j - 1]
    BY <1>1, <2>1, SubSeqProperties
  <2>3. DOMAIN q = 1 .. Len(cs) - i
    BY <1>1, <2>2, LenProperties
  <2> HIDE DEF q
  <2>4. \A j \in DOMAIN q : i + j \in DOMAIN cs /\ q[j] = cs[i + j]
    <3> TAKE j \in DOMAIN q
    <3>1. j \in 1 .. Len(cs) - (i + 1) + 1 /\ i + 1 + j - 1 = i + j
      BY <1>1, <2>3
    <3>2. i + j \in DOMAIN cs
      BY <1>1, <3>1
    <3>3. q[j] = cs[i + 1 + j - 1]
      BY <2>2, <3>1
    <3> QED
      BY <3>1, <3>2, <3>3
  <2> QED
    BY <2>2, <2>4 DEF From
<1>5. /\ p \o q \in Seq(S)
      /\ Len(p \o q) = Len(p) + Len(q)
      /\ \A j \in 1 .. Len(p) + Len(q) :
             (p \o q)[j] = IF j <= Len(p) THEN p[j] ELSE q[j - Len(p)]
  BY <1>3, <1>4, ConcatProperties
<1>6. /\ Len(p) \in Nat /\ DOMAIN p = 1 .. Len(p)
      /\ Len(q) \in Nat /\ DOMAIN q = 1 .. Len(q)
      /\ DOMAIN (p \o q) = 1 .. Len(p) + Len(q)
  BY <1>3, <1>4, <1>5, LenProperties
<1>7. RemoveAt(cs, i) = p \o q
  BY DEF RemoveAt
<1> HIDE DEF p, q
<1>8. From(p \o q, cs)
  <2> SUFFICES ASSUME NEW j \in DOMAIN (p \o q)
               PROVE  \E k \in DOMAIN cs : (p \o q)[j] = cs[k]
    BY DEF From
  <2>1. CASE j <= Len(p)
    <3>1. j \in DOMAIN p /\ (p \o q)[j] = p[j]
      BY <1>5, <1>6, <2>1
    <3> QED
      BY <1>3, <3>1 DEF From
  <2>2. CASE ~(j <= Len(p))
    <3>1. j - Len(p) \in DOMAIN q /\ (p \o q)[j] = q[j - Len(p)]
      BY <1>5, <1>6, <2>2
    <3> QED
      BY <1>4, <3>1 DEF From
  <2> QED
    BY <2>1, <2>2
<1> QED
  BY <1>5, <1>7, <1>8

\* A sequence with a new head has that head and its old elements.
LEMMA ConsKeeps ==
    ASSUME NEW S, NEW cs \in Seq(S), NEW e \in S
    PROVE  /\ <<e>> \o cs \in Seq(S)
           /\ \A i \in DOMAIN (<<e>> \o cs) :
                  (<<e>> \o cs)[i] = e \/ \E j \in DOMAIN cs : (<<e>> \o cs)[i] = cs[j]
<1>1. <<e>> \in Seq(S) /\ Len(<<e>>) = 1 /\ <<e>>[1] = e
  OBVIOUS
<1> DEFINE d == <<e>>
<1> HIDE DEF d
<1>2. /\ d \o cs \in Seq(S)
      /\ Len(d \o cs) = 1 + Len(cs)
      /\ \A i \in 1 .. 1 + Len(cs) : (d \o cs)[i] = IF i <= 1 THEN d[i] ELSE cs[i - 1]
  BY <1>1, ConcatProperties DEF d
<1>3. /\ DOMAIN (d \o cs) = 1 .. 1 + Len(cs)
      /\ Len(cs) \in Nat /\ DOMAIN cs = 1 .. Len(cs)
  BY <1>2, LenProperties
<1>4. \A i \in DOMAIN (d \o cs) :
          (d \o cs)[i] = d[1] \/ \E j \in DOMAIN cs : (d \o cs)[i] = cs[j]
  <2> TAKE i \in DOMAIN (d \o cs)
  <2>1. CASE i = 1
    BY <1>2, <1>3, <2>1
  <2>2. CASE i # 1
    <3>1. i - 1 \in DOMAIN cs /\ (d \o cs)[i] = cs[i - 1]
      BY <1>2, <1>3, <2>2
    <3> QED
      BY <3>1
  <2> QED
    BY <2>1, <2>2
<1> QED
  BY <1>1, <1>2, <1>4 DEF d

\* Keeping is transitive.
LEMMA FromTransitive ==
    ASSUME NEW cs, NEW ds, NEW es, From(cs, ds), From(ds, es)
    PROVE  From(cs, es)
BY DEF From

\* A session that moves to the front adds none.
LEMMA PromotedKeeps ==
    ASSUME NEW S, NEW cs \in Seq(S), NEW i \in DOMAIN cs
    PROVE  Promoted(cs, i) \in Seq(S) /\ From(Promoted(cs, i), cs)
<1>1. RemoveAt(cs, i) \in Seq(S) /\ From(RemoveAt(cs, i), cs)
  BY RemoveKeeps
<1>2. cs[i] \in S
  BY LenProperties, ElementOfSeq
<1> QED
  BY <1>1, <1>2, ConsKeeps DEF Promoted, From

\* Removing a session that may not be there adds none.
LEMMA WithoutKeeps ==
    ASSUME NEW S, NEW cs \in Seq(S), NEW positions \in SUBSET DOMAIN cs,
           NEW ds \in Without(cs, positions)
    PROVE  ds \in Seq(S) /\ From(ds, cs)
<1>1. CASE positions = {}
  BY <1>1 DEF Without, From
<1>2. CASE positions # {}
  <2>1. PICK i \in positions : ds = RemoveAt(cs, i)
    BY <1>2 DEF Without
  <2> QED
    BY <2>1, RemoveKeeps
<1> QED
  BY <1>1, <1>2

\* Evicting sessions adds none.
LEMMA FittingKeeps ==
    ASSUME NEW S, NEW cs \in Seq(S), NEW ds \in Fitting(cs)
    PROVE  ds \in Seq(S) /\ From(ds, cs)
<1>1. PICK n \in 0 .. Len(cs) : ds = SubSeq(cs, 1, n)
  BY DEF Fitting
<1> QED
  BY <1>1, PrefixKeeps

-----------------------------------------------------------------------------
(* Type correctness *)

\* Named and Keyed are positions of the cache.
LEMMA NamedType ==
    ASSUME NEW cs, NEW id, NEW f, NEW dependency
    PROVE  Named(cs, id) \in SUBSET DOMAIN cs /\ Keyed(cs, f, dependency) \in SUBSET DOMAIN cs
BY DEF Named, Keyed

\* A snapshot is a dependency revision and a result.
LEMMA SnapshotType ==
    ASSUME TypeOK, NEW f \in Filter
    PROVE  Snapshot(f) \in [dependency : Nat, ids : Ids]
<1>1. DependencyRevision(f) \in Nat
  BY DependencyRevisionType
<1>2. OrderedIds(f, library) \in Ids
  BY OrderedIdsType DEF TypeOK
<1> QED
  BY <1>1, <1>2 DEF Snapshot

\* A request that was not made is a request.
LEMMA NoCallType == NoCall \in Call
BY DEF NoCall, NoFilter, NoSnapshot, Call, Filter, Ids

\* The first state is type correct.
LEMMA InitType == Init => TypeOK
<1> SUFFICES ASSUME Init
             PROVE  TypeOK
  OBVIOUS
<1>1. marker \in [Markers -> 0 .. revision] /\ revision \in 1 .. MaxRevision
  BY BoundsAssumption DEF Init
<1>2. sessions \in Seq(Session)
  BY EmptySeq DEF Init
<1> QED
  BY <1>1, <1>2, LibrariesAssumption, NoCallType DEF Init, TypeOK, Phases

\* A write of a library is type correct.
LEMMA WriteType ==
    ASSUME TypeOK, NEW lib \in Library, NEW names, Write(lib, names)
    PROVE  TypeOK'
<1>1. /\ revision' = revision + 1
      /\ revision \in Nat /\ revision' \in 1 .. MaxRevision
      /\ marker' = [k \in Markers |-> IF k \in names THEN revision + 1 ELSE marker[k]]
  BY BoundsAssumption DEF Write, BumpScoped, TypeOK
<1>2. \A k \in Markers : marker[k] \in 0 .. revision'
  BY <1>1 DEF TypeOK
<1>3. marker' \in [Markers -> 0 .. revision']
  BY <1>1, <1>2
<1> QED
  BY <1>1, <1>3 DEF Write, TypeOK, cache

-----------------------------------------------------------------------------
(* A writer names every marker its change of the rows can matter to *)

Sound(lib, names) ==
    /\ lib \in Library
    /\ \A f \in Filter : Dependencies(f) \cap names = {} => Alike(f, lib, library)

\* Whatever changes under the general marker matters to no other filter.
LEMMA GeneralIsSound ==
    ASSUME NEW lib \in Library
    PROVE  Sound(lib, {"general"})
BY DEF Sound, Dependencies

\* Changing no row matters to no filter.
LEMMA NothingIsSound ==
    ASSUME TypeOK, NEW names
    PROVE  Sound(library, names)
BY DEF Sound, Alike, TypeOK

\* A change of tags is sound if it names the tag impact of every asset it changes.
LEMMA RetagIsSound ==
    ASSUME TypeOK, NEW lib \in Library, NEW changed \in SUBSET DOMAIN library,
           DOMAIN lib = DOMAIN library,
           \A a \in DOMAIN library :
               /\ lib[a].group = library[a].group
               /\ lib[a].favorite = library[a].favorite
               /\ a \notin changed => lib[a].tags = library[a].tags,
           NEW names, \A a \in changed : TagImpact(a, lib[a].tags) \subseteq names
    PROVE  Sound(lib, names)
<1> SUFFICES ASSUME NEW f \in Filter, Dependencies(f) \cap names = {},
                    NEW a \in DOMAIN library
             PROVE  Matches(f, lib[a]) <=> Matches(f, library[a])
  BY DEF Sound, Alike
<1>1. lib[a] \in Row /\ library[a] \in Row
  BY LibraryRows DEF TypeOK
<1>2. CASE a \notin changed
  BY <1>1, <1>2, RowsAlike DEF SymDiff
<1>3. CASE a \in changed
  <2>1. SymDiff(lib[a].tags, library[a].tags) \cap (f.tagsAnd \cup f.tagsNot) = {}
    BY <1>3 DEF TagImpact, Dependencies
  <2>2. f.tagCount # {} => Cardinality(lib[a].tags) = Cardinality(library[a].tags)
    BY <1>3 DEF TagImpact, Dependencies
  <2> QED
    BY <1>1, <2>1, <2>2, RowsAlike
<1> QED
  BY <1>2, <1>3

\* A change of favorites matters to favorite filters only.
LEMMA FavoriteIsSound ==
    ASSUME TypeOK, NEW lib \in Library, DOMAIN lib = DOMAIN library,
           \A a \in DOMAIN library :
               lib[a].group = library[a].group /\ lib[a].tags = library[a].tags
    PROVE  Sound(lib, {"favorites"})
<1> SUFFICES ASSUME NEW f \in Filter, Dependencies(f) \cap {"favorites"} = {},
                    NEW a \in DOMAIN library
             PROVE  Matches(f, lib[a]) <=> Matches(f, library[a])
  BY DEF Sound, Alike
<1>1. lib[a] \in Row /\ library[a] \in Row
  BY LibraryRows DEF TypeOK
<1>2. ~f.favoritesOnly
  BY DEF Dependencies
<1> QED
  BY <1>1, <1>2, RowsAlike DEF SymDiff

\* set_asset_tags names the markers its change matters to.
LEMMA SetAssetTagsIsSound ==
    ASSUME TypeOK, NEW a \in DOMAIN library, NEW tags \in SUBSET Tags
    PROVE  Sound([library EXCEPT ![a].tags = tags], TagImpact(a, tags))
<1> DEFINE lib == [library EXCEPT ![a].tags = tags]
<1>1. /\ \A b \in DOMAIN library : library[b] \in Row
      /\ DOMAIN library \subseteq Assets
      /\ library = [b \in DOMAIN library |-> library[b]]
  BY LibraryRows DEF TypeOK
<1>2. /\ DOMAIN lib = DOMAIN library
      /\ lib = [b \in DOMAIN library |-> lib[b]]
      /\ lib[a] = [library[a] EXCEPT !.tags = tags]
      /\ \A b \in DOMAIN library \ {a} : lib[b] = library[b]
  BY <1>1
<1>3. lib[a] \in Row /\ lib[a].tags = tags
        /\ lib[a].group = library[a].group /\ lib[a].favorite = library[a].favorite
  BY <1>1, <1>2 DEF Row
<1> HIDE DEF lib
<1>4. lib \in Library
  BY <1>1, <1>2, <1>3, IsLibrary
<1> DEFINE changed == {a}
           names == TagImpact(a, tags)
<1>5. /\ changed \in SUBSET DOMAIN library
      /\ \A b \in DOMAIN library :
             /\ lib[b].group = library[b].group
             /\ lib[b].favorite = library[b].favorite
             /\ b \notin changed => lib[b].tags = library[b].tags
      /\ \A b \in changed : TagImpact(b, lib[b].tags) \subseteq names
  BY <1>2, <1>3
<1> HIDE DEF changed, names
<1>6. Sound(lib, names)
  BY <1>2, <1>4, <1>5, RetagIsSound
<1> QED
  BY <1>6 DEF lib, names

\* So does the bulk merge of tags.
LEMMA MergeAssetTagsIsSound ==
    ASSUME TypeOK, NEW changed \in SUBSET DOMAIN library, NEW incoming \in SUBSET Tags
    PROVE  Sound([a \in DOMAIN library |->
                     IF a \in changed
                     THEN [library[a] EXCEPT !.tags = library[a].tags \cup incoming]
                     ELSE library[a]],
                 UNION {TagImpact(a, library[a].tags \cup incoming) : a \in changed})
<1> DEFINE merged(a) == [library[a] EXCEPT !.tags = library[a].tags \cup incoming]
           lib == [a \in DOMAIN library |->
                      IF a \in changed THEN merged(a) ELSE library[a]]
<1>1. (\A b \in DOMAIN library : library[b] \in Row) /\ DOMAIN library \subseteq Assets
  BY LibraryRows DEF TypeOK
<1>2. \A a \in DOMAIN library :
          /\ merged(a) \in Row
          /\ merged(a).tags = library[a].tags \cup incoming
          /\ merged(a).group = library[a].group
          /\ merged(a).favorite = library[a].favorite
  BY <1>1 DEF Row
<1>3. /\ DOMAIN lib = DOMAIN library
      /\ lib = [a \in DOMAIN lib |-> lib[a]]
      /\ \A a \in DOMAIN library : lib[a] = IF a \in changed THEN merged(a) ELSE library[a]
  OBVIOUS
<1> HIDE DEF merged, lib
<1>4. lib \in Library
  BY <1>1, <1>2, <1>3, IsLibrary
<1> DEFINE names == UNION {TagImpact(a, library[a].tags \cup incoming) : a \in changed}
<1>5. \A a \in changed : TagImpact(a, lib[a].tags) \subseteq names
  BY <1>2, <1>3
<1>6. Sound(lib, names)
  BY <1>2, <1>3, <1>4, <1>5, RetagIsSound
<1> QED
  BY <1>6 DEF lib, merged

\* So does the change of one favorite.
LEMMA SetFavoriteIsSound ==
    ASSUME TypeOK, NEW a \in DOMAIN library, NEW favorite \in BOOLEAN
    PROVE  Sound([library EXCEPT ![a].favorite = favorite], {"favorites"})
<1> DEFINE lib == [library EXCEPT ![a].favorite = favorite]
<1>1. /\ \A b \in DOMAIN library : library[b] \in Row
      /\ DOMAIN library \subseteq Assets
      /\ library = [b \in DOMAIN library |-> library[b]]
  BY LibraryRows DEF TypeOK
<1>2. /\ DOMAIN lib = DOMAIN library
      /\ lib = [b \in DOMAIN library |-> lib[b]]
      /\ lib[a] = [library[a] EXCEPT !.favorite = favorite]
      /\ \A b \in DOMAIN library \ {a} : lib[b] = library[b]
  BY <1>1
<1>3. lib[a] \in Row /\ lib[a].tags = library[a].tags /\ lib[a].group = library[a].group
  BY <1>1, <1>2 DEF Row
<1> HIDE DEF lib
<1>4. lib \in Library
  BY <1>1, <1>2, <1>3, IsLibrary
<1>5. Sound(lib, {"favorites"})
  BY <1>2, <1>3, <1>4, FavoriteIsSound
<1> QED
  BY <1>5 DEF lib

\* So does the bulk toggle of favorites.
LEMMA ToggleFavoritesIsSound ==
    ASSUME TypeOK, NEW found \in SUBSET DOMAIN library, NEW favorite \in BOOLEAN
    PROVE  Sound([a \in DOMAIN library |->
                     IF a \in found THEN [library[a] EXCEPT !.favorite = favorite]
                     ELSE library[a]],
                 {"favorites"})
<1> DEFINE toggled(a) == [library[a] EXCEPT !.favorite = favorite]
           lib == [a \in DOMAIN library |-> IF a \in found THEN toggled(a) ELSE library[a]]
<1>1. (\A b \in DOMAIN library : library[b] \in Row) /\ DOMAIN library \subseteq Assets
  BY LibraryRows DEF TypeOK
<1>2. \A a \in DOMAIN library :
          /\ toggled(a) \in Row
          /\ toggled(a).tags = library[a].tags
          /\ toggled(a).group = library[a].group
  BY <1>1 DEF Row
<1>3. /\ DOMAIN lib = DOMAIN library
      /\ lib = [a \in DOMAIN lib |-> lib[a]]
      /\ \A a \in DOMAIN library : lib[a] = IF a \in found THEN toggled(a) ELSE library[a]
  OBVIOUS
<1> HIDE DEF toggled, lib
<1>4. lib \in Library
  BY <1>1, <1>2, <1>3, IsLibrary
<1>5. Sound(lib, {"favorites"})
  BY <1>2, <1>3, <1>4, FavoriteIsSound
<1> QED
  BY <1>5 DEF lib, toggled

\* So does the change of a media group.
LEMMA SetMediaGroupIsSound ==
    ASSUME TypeOK, NEW a, NEW group \in Groups
    PROVE  Sound([b \in DOMAIN library |->
                     IF b = a THEN [library[b] EXCEPT !.group = group] ELSE library[b]],
                 {"general"})
<1> DEFINE lib == [b \in DOMAIN library |->
                      IF b = a THEN [library[b] EXCEPT !.group = group] ELSE library[b]]
<1>1. (\A b \in DOMAIN library : library[b] \in Row) /\ DOMAIN library \subseteq Assets
  BY LibraryRows DEF TypeOK
<1>2. lib \in Library
  <2>1. \A b \in DOMAIN library : [library[b] EXCEPT !.group = group] \in Row
    BY <1>1 DEF Row
  <2>2. lib \in [DOMAIN library -> Row]
    BY <1>1, <2>1
  <2> QED
    BY <1>1, <2>2 DEF Library
<1> QED
  BY <1>2, GeneralIsSound

\* Every step of a writer is a sound write.
LEMMA WriterIsSound ==
    ASSUME TypeOK, Writer
    PROVE  \E lib, names : Sound(lib, names) /\ Write(lib, names)
<1>1. ASSUME NEW a \in Assets, NEW tags \in TagSets, SetAssetTags(a, tags)
      PROVE  \E lib, names : Sound(lib, names) /\ Write(lib, names)
  BY <1>1, TagSetsAssumption, SetAssetTagsIsSound DEF SetAssetTags
<1>2. ASSUME NEW a \in Assets, NEW favorite \in BOOLEAN, SetFavorite(a, favorite)
      PROVE  \E lib, names : Sound(lib, names) /\ Write(lib, names)
  BY <1>2, SetFavoriteIsSound, NothingIsSound DEF SetFavorite
<1>3. ASSUME NEW a \in Assets, NEW group \in Groups, SetMediaGroup(a, group)
      PROVE  \E lib, names : Sound(lib, names) /\ Write(lib, names)
  BY <1>3, SetMediaGroupIsSound DEF SetMediaGroup
<1>4. ASSUME NEW as \in SUBSET Assets, NEW incoming \in TagSets,
             MergeAssetTags(as, incoming)
      PROVE  \E lib, names : Sound(lib, names) /\ Write(lib, names)
  <2> DEFINE changed == {a \in as \cap DOMAIN library :
                             library[a].tags \cup incoming # library[a].tags}
  <2>1. changed \in SUBSET DOMAIN library /\ incoming \in SUBSET Tags
    BY TagSetsAssumption
  <2>2. Write([a \in DOMAIN library |->
                  IF a \in changed
                  THEN [library[a] EXCEPT !.tags = library[a].tags \cup incoming]
                  ELSE library[a]],
              UNION {TagImpact(a, library[a].tags \cup incoming) : a \in changed})
    BY <1>4 DEF MergeAssetTags
  <2> HIDE DEF changed
  <2> QED
    BY <2>1, <2>2, MergeAssetTagsIsSound
<1>5. ASSUME NEW as \in SUBSET Assets, ToggleFavorites(as)
      PROVE  \E lib, names : Sound(lib, names) /\ Write(lib, names)
  <2> DEFINE found == as \cap DOMAIN library
             favorite == \E a \in found : ~library[a].favorite
  <2>1. found \in SUBSET DOMAIN library /\ favorite \in BOOLEAN
    OBVIOUS
  <2>2. Write([a \in DOMAIN library |->
                  IF a \in found THEN [library[a] EXCEPT !.favorite = favorite]
                  ELSE library[a]],
              {"favorites"})
    BY <1>5 DEF ToggleFavorites
  <2> HIDE DEF found, favorite
  <2> QED
    BY <2>1, <2>2, ToggleFavoritesIsSound
<1>6. ASSUME NEW lib \in Libraries, RewriteRows(lib)
      PROVE  \E other, names : Sound(other, names) /\ Write(other, names)
  BY <1>6, LibrariesAssumption, GeneralIsSound DEF RewriteRows
<1> QED
  BY <1>1, <1>2, <1>3, <1>4, <1>5, <1>6 DEF Writer

-----------------------------------------------------------------------------
(* The types, beside maintenance *)

\* A restored database is type correct.
LEMMA RestoreType ==
    ASSUME TypeOK, NEW lib \in Libraries, NEW restored \in 1 .. MaxRevision - 1,
           Restore(lib, restored)
    PROVE  TypeOK'
<1>1. revision' \in 1 .. MaxRevision /\ restored + 1 = revision' /\ restored \in Nat
  BY BoundsAssumption DEF Restore
<1>2. marker' \in [Markers -> 0 .. revision']
  BY <1>1 DEF Restore
<1>3. sessions' \in Seq(Session)
  BY EmptySeq DEF Restore, Cleared
<1> QED
  BY <1>1, <1>2, <1>3, LibrariesAssumption DEF Restore, Cleared, TypeOK

\* The steps of maintenance are type correct.
LEMMA MaintenanceType ==
    ASSUME TypeOK, Maintenance
    PROVE  TypeOK'
<1>1. ASSUME CloseAdmission PROVE TypeOK'
  BY <1>1 DEF CloseAdmission, TypeOK, db, cache
<1>2. ASSUME Own PROVE TypeOK'
  <2>1. sessions' \in Seq(Session)
    BY <1>2, EmptySeq DEF Own, Cleared
  <2> QED
    BY <1>2, <2>1 DEF Own, Cleared, TypeOK, db
<1>3. ASSUME OpenAdmission PROVE TypeOK'
  BY <1>3 DEF OpenAdmission, TypeOK, db, cache
<1> QED
  BY <1>1, <1>2, <1>3, RestoreType DEF Maintenance

-----------------------------------------------------------------------------
(* The inductive invariant *)

Open == {"snapshot", "looking", "building", "inserting", "answering", "dropping"}

\* A claim says what the result of a filter is at a dependency revision: the
\* sessions and the requests that opened a snapshot make one each, and the
\* library makes one for every filter.
SessionClaim(s) == <<s.filter, s.dependency, s.ids>>
RequestClaim(c) == <<c.filter, c.snap.dependency, c.snap.ids>>
LibraryClaim(f) == <<f, DependencyRevision(f), OrderedIds(f, library)>>

Claims == {SessionClaim(sessions[i]) : i \in DOMAIN sessions}
              \cup {RequestClaim(call[r]) : r \in {q \in Requests : phase[q] \in Open}}
              \cup {LibraryClaim(f) : f \in Filter}

\* The claims never contradict each other, and none is ahead of the library.
ClaimsInv ==
    /\ \A c, d \in Claims : c[1] = d[1] /\ c[2] = d[2] => c[3] = d[3]
    /\ \A c \in Claims : c[2] \in 0 .. revision

\* The ids handed out, with the filter each stands for.
Names == {<<sessions[i].id, sessions[i].filter>> : i \in DOMAIN sessions}
             \cup {<<call[r].session, call[r].filter>> :
                       r \in {q \in Requests : call[q].session # 0}}

NamesInv ==
    /\ \A m, n \in Names : m[1] = n[1] => m[2] = n[2]
    /\ \A n \in Names : n[1] \in 1 .. nextId - 1

AnswerInv ==
    \A r \in Requests :
        /\ phase[r] \in {"inserting", "answering", "ready"} =>
               call[r].ids = call[r].snap.ids
        /\ phase[r] = "inserting" => call[r].session # 0
        /\ phase[r] = "new" => call[r].session = 0

Owned == gate \in {"owned", "restored"}
GateInv == Owned => sessions = <<>> /\ \A r \in Requests : ~Admitted(r)

\* Starts that arrived have tokens of their own, none ahead of the latest.
TokenInv ==
    \A s \in Starts : phase[s] # "new" =>
        /\ call[s].token \in 1 .. latest
        /\ \A t \in Starts : phase[t] # "new" /\ t # s => call[t].token # call[s].token

IInv == TypeOK /\ ClaimsInv /\ NamesInv /\ AnswerInv /\ GateInv /\ TokenInv

-----------------------------------------------------------------------------
(* What every step of a request has in common *)

\* Request r moves to a phase with the call c, and the cache with it: what
\* they claim was claimed before, and a name is old or the next one.
RequestStep(r, to, c) ==
    /\ phase' = [phase EXCEPT ![r] = to]
    /\ call' = [call EXCEPT ![r] = c]
    /\ to \in Phases \ {"new"} /\ c \in Call
    /\ UNCHANGED <<library, revision, marker, gate, epoch>>
    /\ \/ latest' = latest /\ c.token = call[r].token /\ (phase[r] = "new" => r \in Pages)
       \/ latest' = latest + 1 /\ c.token = latest + 1 /\ phase[r] = "new"
    /\ to = "ready" => r \in Pages \/ (Latest(r) /\ phase[r] # "new")
    /\ to \in Open => RequestClaim(c) \in Claims
    /\ to \in {"inserting", "answering", "ready"} => c.ids = c.snap.ids
    /\ to = "inserting" => c.session # 0
    /\ \/ nextId' = nextId /\ (c.session # 0 => <<c.session, c.filter>> \in Names)
       \/ nextId' = nextId + 1 /\ c.session = nextId
    /\ Owned => to \notin {"admitted"} \cup Open

CacheStep ==
    /\ sessions' \in Seq(Session)
    /\ \A i \in DOMAIN sessions' :
           /\ SessionClaim(sessions'[i]) \in Claims
           /\ <<sessions'[i].id, sessions'[i].filter>> \in Names
    /\ Owned => sessions' = <<>>

\* The step of a request keeps the types.
LEMMA RequestStepKeepsType ==
    ASSUME IInv, NEW r \in Requests, NEW to, NEW c, RequestStep(r, to, c), CacheStep
    PROVE  TypeOK'
BY DEF IInv, TypeOK, RequestStep, CacheStep

\* The step of a request makes no claim that is not made already.
LEMMA RequestStepKeepsClaims ==
    ASSUME IInv, NEW r \in Requests, NEW to, NEW c, RequestStep(r, to, c), CacheStep
    PROVE  ClaimsInv'
<1>1. \A f \in Filter : LibraryClaim(f)' = LibraryClaim(f)
  BY DEF RequestStep, LibraryClaim, DependencyRevision, OrderedIds, Matches
<1>2. \A q \in Requests : phase'[q] \in Open => RequestClaim(call'[q]) \in Claims
  <2> SUFFICES ASSUME NEW q \in Requests, phase'[q] \in Open
               PROVE  RequestClaim(call'[q]) \in Claims
    OBVIOUS
  <2>1. CASE q = r
    BY <2>1 DEF RequestStep, IInv, TypeOK
  <2>2. CASE q # r
    <3>1. phase'[q] = phase[q] /\ call'[q] = call[q]
      BY <2>2 DEF RequestStep, IInv, TypeOK
    <3> QED
      BY <3>1 DEF Claims
  <2> QED
    BY <2>1, <2>2
<1>3. Claims' \subseteq Claims
  BY <1>1, <1>2 DEF CacheStep, Claims, SessionClaim, RequestClaim
<1>4. revision' = revision
  BY DEF RequestStep
<1> QED
  BY <1>3, <1>4 DEF IInv, ClaimsInv

\* The step of a request gives an id one filter only.
LEMMA RequestStepKeepsNames ==
    ASSUME IInv, NEW r \in Requests, NEW to, NEW c, RequestStep(r, to, c), CacheStep
    PROVE  NamesInv'
<1>1. /\ call \in [Requests -> Call] /\ nextId \in Nat \ {0}
      /\ call' = [call EXCEPT ![r] = c] /\ c \in Call
  BY DEF RequestStep, IInv, TypeOK
<1>2. Names' \subseteq Names \cup {<<c.session, c.filter>>}
  <2>1. \A q \in Requests : call'[q].session # 0 =>
            <<call'[q].session, call'[q].filter>> \in Names \cup {<<c.session, c.filter>>}
    <3> SUFFICES ASSUME NEW q \in Requests, call'[q].session # 0
                 PROVE  <<call'[q].session, call'[q].filter>> 
                            \in Names \cup {<<c.session, c.filter>>}
      OBVIOUS
    <3>1. CASE q = r
      BY <1>1, <3>1
    <3>2. CASE q # r
      <4>1. call'[q] = call[q]
        BY <1>1, <3>2
      <4> QED
        BY <4>1 DEF Names
    <3> QED
      BY <3>1, <3>2
  <2> QED
    BY <2>1 DEF CacheStep, Names
<1>3. CASE nextId' = nextId /\ c.session = 0
  <2>1. \A n \in Names' : n[1] # 0
    BY DEF Names, CacheStep, IInv, NamesInv
  <2> QED
    BY <1>2, <1>3, <2>1 DEF IInv, NamesInv
<1>4. CASE nextId' = nextId /\ <<c.session, c.filter>> \in Names
  BY <1>2, <1>4 DEF IInv, NamesInv
<1>5. CASE nextId' = nextId + 1 /\ c.session = nextId
  <2>1. \A n \in Names : n[1] \in 1 .. nextId - 1
    BY DEF IInv, NamesInv
  <2> QED
    BY <1>1, <1>2, <1>5, <2>1 DEF IInv, NamesInv
<1> QED
  BY <1>3, <1>4, <1>5 DEF RequestStep

\* The step of a request answers from its snapshot, and none runs beside an owner.
LEMMA RequestStepKeepsAnswers ==
    ASSUME IInv, NEW r \in Requests, NEW to, NEW c, RequestStep(r, to, c), CacheStep
    PROVE  AnswerInv' /\ GateInv'
<1>1. \A q \in Requests :
          /\ q = r => phase'[q] = to /\ call'[q] = c
          /\ q # r => phase'[q] = phase[q] /\ call'[q] = call[q]
  BY DEF RequestStep, IInv, TypeOK
<1>2. AnswerInv'
  BY <1>1 DEF RequestStep, AnswerInv, IInv
<1>3. GateInv'
  BY <1>1 DEF RequestStep, CacheStep, GateInv, Owned, Admitted, Open, IInv
<1> QED
  BY <1>2, <1>3

\* The step of a request keeps the tokens apart.
LEMMA RequestStepKeepsTokens ==
    ASSUME IInv, NEW r \in Requests, NEW to, NEW c, RequestStep(r, to, c)
    PROVE  TokenInv'
<1>1. \A q \in Requests :
          /\ q = r => phase'[q] # "new" /\ call'[q] = c
          /\ q # r => phase'[q] = phase[q] /\ call'[q] = call[q]
  BY DEF RequestStep, IInv, TypeOK
<1>2. latest \in Nat /\ \A s \in Starts : s \in Requests /\ s \notin Pages
  BY RequestsAssumption DEF IInv, TypeOK, Requests
<1>3. CASE /\ latest' = latest /\ c.token = call[r].token
           /\ phase[r] = "new" => r \in Pages
  <2>1. \A s \in Starts :
            /\ phase'[s] # "new" => phase[s] # "new"
            /\ call'[s].token = call[s].token
    BY <1>1, <1>2, <1>3
  <2> QED
    BY <1>3, <2>1 DEF TokenInv, IInv
<1>4. CASE latest' = latest + 1 /\ c.token = latest + 1
  <2>1. \A s \in Starts :
            /\ s = r => call'[s].token = latest + 1
            /\ s # r => phase'[s] = phase[s] /\ call'[s].token = call[s].token
    BY <1>1, <1>2, <1>4
  <2>2. \A s \in Starts : phase[s] # "new" => call[s].token \in 1 .. latest
    BY DEF TokenInv, IInv
  <2> QED
    BY <1>2, <1>4, <2>1, <2>2 DEF TokenInv, IInv
<1> QED
  BY <1>3, <1>4 DEF RequestStep

\* The step of a request keeps the inductive invariant.
LEMMA RequestStepKeepsIInv ==
    ASSUME IInv, NEW r \in Requests, NEW to, NEW c, RequestStep(r, to, c), CacheStep
    PROVE  IInv'
BY RequestStepKeepsType, RequestStepKeepsClaims, RequestStepKeepsNames,
   RequestStepKeepsAnswers, RequestStepKeepsTokens DEF IInv

-----------------------------------------------------------------------------
(* The steps of the requests, one by one *)

\* A cache that only lost or moved sessions makes no new claim.
LEMMA CacheKept ==
    ASSUME IInv, sessions' \in Seq(Session), From(sessions', sessions)
    PROVE  CacheStep
<1>1. \A i \in DOMAIN sessions' :
          /\ SessionClaim(sessions'[i]) \in Claims
          /\ <<sessions'[i].id, sessions'[i].filter>> \in Names
  BY DEF From, Claims, Names
<1>2. Owned => sessions' = <<>>
  <2> SUFFICES ASSUME Owned
               PROVE  sessions' = <<>>
    OBVIOUS
  <2>1. sessions = <<>>
    BY DEF IInv, GateInv
  <2>2. DOMAIN sessions' = {}
    BY <2>1 DEF From
  <2> QED
    BY <2>2, EmptySeq, LenProperties
<1> QED
  BY <1>1, <1>2 DEF CacheStep

\* Nor does one that did not change.
LEMMA CacheUnchanged ==
    ASSUME IInv, UNCHANGED sessions
    PROVE  CacheStep
<1>1. sessions \in Seq(Session)
  BY DEF IInv, TypeOK
<1> QED
  BY <1>1, CacheKept DEF From

\* A request that ends keeps nothing it could claim.
LEMMA EndStep ==
    ASSUME IInv, NEW r \in Requests, phase[r] # "new",
           NEW answer \in {"superseded", "stale", "failed"}, End(r, answer),
           UNCHANGED <<library, revision, marker, gate, epoch, latest, nextId>>
    PROVE  \E c : RequestStep(r, answer, c)
<1> DEFINE c == [NoCall EXCEPT !.token = call[r].token]
<1>1. call[r] \in Call
  BY DEF IInv, TypeOK
<1>2. c \in Call /\ c.session = 0 /\ c.token = call[r].token
  BY <1>1, NoCallType DEF NoCall, Call
<1>3. RequestStep(r, answer, c)
  BY <1>2 DEF End, Goto, RequestStep, Phases, Open, IInv, TypeOK
<1> QED
  BY <1>3

\* begin_request is the step of a request.
LEMMA BeginRequestStep ==
    ASSUME IInv, NEW s \in Starts, NEW f \in Filters, BeginRequest(s, f)
    PROVE  \E to, c : RequestStep(s, to, c) /\ CacheStep
<1> DEFINE c == [call[s] EXCEPT !.filter = f, !.token = latest + 1]
<1>1. /\ s \in Requests /\ f \in Filter /\ latest + 1 \in Nat
      /\ call \in [Requests -> Call] /\ call[s] \in Call /\ call[s].session = 0
  BY FiltersAssumption DEF BeginRequest, Requests, IInv, TypeOK, AnswerInv
<1>2. c \in Call /\ c.session = 0 /\ c.token = latest + 1
  <2> DEFINE token == latest + 1
  <2> HIDE DEF token
  <2>1. [call[s] EXCEPT !.filter = f, !.token = token] \in Call
    BY <1>1 DEF Call, token
  <2> QED
    BY <1>1, <2>1 DEF Call, token
<1>3. call' = [call EXCEPT ![s] = c]
  BY <1>1 DEF BeginRequest
<1>4. CacheStep
  BY CacheUnchanged DEF BeginRequest, cache
<1> HIDE DEF c
<1>5. RequestStep(s, "queued", c)
  BY <1>1, <1>2, <1>3 DEF BeginRequest, Goto, RequestStep, Phases, Open, db, cache
<1> QED
  BY <1>4, <1>5

\* So is asking for a page,
LEMMA AskPageStep ==
    ASSUME IInv, NEW p \in Pages, NEW s \in Starts, AskPage(p, s)
    PROVE  \E to, c : RequestStep(p, to, c) /\ CacheStep
<1> DEFINE c == [call[p] EXCEPT !.filter = call[s].filter, !.session = call[s].session]
<1>1. /\ p \in Requests /\ s \in Requests /\ latest \in Nat
      /\ call \in [Requests -> Call] /\ call[p] \in Call /\ call[s] \in Call
  BY DEF Requests, IInv, TypeOK
<1>2. /\ c \in Call /\ c.session = call[s].session /\ c.filter = call[s].filter
      /\ c.token = call[p].token
  BY <1>1 DEF Call
<1>3. call' = [call EXCEPT ![p] = c]
  BY <1>1 DEF AskPage
<1>4. c.session # 0 => <<c.session, c.filter>> \in Names
  BY <1>1, <1>2 DEF Names
<1>5. CacheStep
  BY CacheUnchanged DEF AskPage, cache
<1> HIDE DEF c
<1>6. RequestStep(p, "queued", c)
  BY <1>1, <1>2, <1>3, <1>4 DEF AskPage, Goto, RequestStep, Phases, Open, db, cache
<1> QED
  BY <1>5, <1>6

\* being admitted,
LEMMA AdmitStep ==
    ASSUME IInv, NEW r \in Requests, Admit(r)
    PROVE  \E to, c : RequestStep(r, to, c) /\ CacheStep
<1> DEFINE c == [call[r] EXCEPT !.epoch = epoch]
<1>1. /\ latest \in Nat /\ epoch \in Nat
      /\ call \in [Requests -> Call] /\ call[r] \in Call
  BY DEF IInv, TypeOK
<1>2. /\ c \in Call /\ c.session = call[r].session /\ c.filter = call[r].filter
      /\ c.token = call[r].token
  BY <1>1 DEF Call
<1>3. call' = [call EXCEPT ![r] = c]
  BY <1>1 DEF Admit
<1>4. c.session # 0 => <<c.session, c.filter>> \in Names
  BY <1>1, <1>2 DEF Names
<1>5. CacheStep
  BY CacheUnchanged DEF Admit, cache
<1> HIDE DEF c
<1>6. RequestStep(r, "admitted", c)
  BY <1>1, <1>2, <1>3, <1>4 DEF Admit, Goto, RequestStep, Phases, Open, Owned, db, cache
<1> QED
  BY <1>5, <1>6

\* failing,
LEMMA FailStep ==
    ASSUME IInv, NEW r \in Requests, Fail(r)
    PROVE  \E to, c : RequestStep(r, to, c) /\ CacheStep
<1>1. CacheStep
  BY CacheUnchanged DEF Fail, cache
<1>2. \E answer \in {"superseded", "failed"} : End(r, answer)
  BY DEF Fail
<1> QED
  BY <1>1, <1>2, EndStep DEF Fail, db, cache

\* opening the read transaction, which claims what the library does,
LEMMA OpenSnapshotStep ==
    ASSUME IInv, NEW r \in Requests, OpenSnapshot(r)
    PROVE  \E to, c : RequestStep(r, to, c) /\ CacheStep
<1> DEFINE c == [call[r] EXCEPT !.snap = Snapshot(call[r].filter)]
<1>1. /\ TypeOK /\ latest \in Nat
      /\ call \in [Requests -> Call] /\ call[r] \in Call /\ call[r].filter \in Filter
  BY DEF IInv, TypeOK, Call
<1>2. Snapshot(call[r].filter) \in [dependency : Nat, ids : Ids]
  BY <1>1, SnapshotType
<1>3. /\ c \in Call /\ c.session = call[r].session /\ c.filter = call[r].filter
      /\ c.snap = Snapshot(call[r].filter) /\ c.token = call[r].token
  BY <1>1, <1>2 DEF Call
<1>4. call' = [call EXCEPT ![r] = c]
  BY <1>1 DEF OpenSnapshot
<1>5. c.session # 0 => <<c.session, c.filter>> \in Names
  BY <1>1, <1>3 DEF Names
<1>6. RequestClaim(c) \in Claims
  BY <1>1, <1>3 DEF Claims, RequestClaim, LibraryClaim, Snapshot
<1>7. ~Owned
  BY DEF IInv, GateInv, OpenSnapshot, Admitted
<1>8. CacheStep
  BY CacheUnchanged DEF OpenSnapshot, cache
<1> HIDE DEF c
<1>9. RequestStep(r, "snapshot", c)
  BY <1>1, <1>3, <1>4, <1>5, <1>6, <1>7
     DEF OpenSnapshot, Goto, RequestStep, Phases, db, cache
<1> QED
  BY <1>8, <1>9

\* What is known of a request that holds a snapshot.
LEMMA OpenRequest ==
    ASSUME IInv, NEW r \in Requests, phase[r] \in Open
    PROVE  /\ RequestClaim(call[r]) \in Claims
           /\ call \in [Requests -> Call] /\ call[r] \in Call /\ latest \in Nat
           /\ call[r].session # 0 => <<call[r].session, call[r].filter>> \in Names
           /\ ~Owned /\ phase[r] # "new"
BY DEF Claims, Names, IInv, TypeOK, GateInv, Admitted, Open

\* ending without rows,
LEMMA EndingStep ==
    ASSUME IInv, NEW r \in Requests,
           \/ r \in Starts /\ (Supersede(r) \/ RefuseSession(r))
           \/ DropSession(r)
    PROVE  \E to, c : RequestStep(r, to, c) /\ CacheStep
<1>1. phase[r] # "new" /\ \E answer \in {"superseded", "stale"} : End(r, answer)
  BY DEF Supersede, RefuseSession, DropSession
<1>2. CASE UNCHANGED <<db, gate, latest, cache, nextId>>
  BY <1>1, <1>2, EndStep, CacheUnchanged DEF db, cache
<1>3. CASE DropSession(r)
  <2>1. sessions \in Seq(Session)
    BY DEF IInv, TypeOK
  <2>2. sessions' \in Seq(Session) /\ From(sessions', sessions)
    BY <1>3, <2>1, NamedType, WithoutKeeps DEF DropSession
  <2> QED
    BY <1>1, <1>3, <2>2, EndStep, CacheKept DEF DropSession, db
<1> QED
  BY <1>2, <1>3 DEF Supersede, RefuseSession

\* and passing the first look at supersession.
LEMMA ProceedStep ==
    ASSUME IInv, NEW s \in Starts, Proceed(s)
    PROVE  \E to, c : RequestStep(s, to, c) /\ CacheStep
<1>1. s \in Requests /\ phase[s] \in Open
  BY DEF Proceed, Requests, Open
<1>2. CacheStep
  BY CacheUnchanged DEF Proceed, cache
<1>3. RequestStep(s, "looking", call[s])
  BY <1>1, OpenRequest DEF Proceed, Goto, RequestStep, Phases, db, cache
<1> QED
  BY <1>2, <1>3

\* A session with the key of a request holds what the request's snapshot does.
LEMMA HitIsRight ==
    ASSUME IInv, NEW r \in Requests, phase[r] \in Open,
           NEW kept \in Pruned, NEW i \in DOMAIN kept,
           kept[i].filter = call[r].filter, kept[i].dependency = call[r].snap.dependency
    PROVE  kept[i].ids = call[r].snap.ids
<1>1. PICK j \in DOMAIN sessions : kept[i] = sessions[j]
  BY PrunedKeeps DEF From, IInv
<1>2. SessionClaim(kept[i]) \in Claims /\ RequestClaim(call[r]) \in Claims
  BY <1>1 DEF Claims
<1> QED
  BY <1>2 DEF SessionClaim, RequestClaim, IInv, ClaimsInv

\* What a look into the pruned cache may do to it.
LEMMA PrunedStep ==
    ASSUME IInv, NEW kept \in Pruned
    PROVE  /\ sessions' = kept => CacheStep
           /\ \A i \in DOMAIN kept :
                  /\ kept[i] \in Session /\ <<kept[i].id, kept[i].filter>> \in Names
                  /\ sessions' = Promoted(kept, i) => CacheStep
<1>1. kept \in Seq(Session) /\ From(kept, sessions)
  BY PrunedKeeps DEF IInv
<1>2. \A i \in DOMAIN kept : kept[i] \in Session
  BY <1>1, LenProperties, ElementOfSeq
<1>3. \A i \in DOMAIN kept : <<kept[i].id, kept[i].filter>> \in Names
  BY <1>1 DEF From, Names
<1>4. ASSUME NEW i \in DOMAIN kept, sessions' = Promoted(kept, i)
      PROVE  CacheStep
  <2>1. Promoted(kept, i) \in Seq(Session) /\ From(Promoted(kept, i), kept)
    BY <1>1, PromotedKeeps
  <2>2. From(Promoted(kept, i), sessions)
    BY <1>1, <2>1, FromTransitive
  <2> QED
    BY <1>4, <2>1, <2>2, CacheKept
<1> QED
  BY <1>1, <1>2, <1>3, <1>4, CacheKept

\* cached_session is the step of a request: its hit is the request's own result.
LEMMA LookUpStep ==
    ASSUME IInv, NEW s \in Starts, LookUp(s)
    PROVE  \E to, c : RequestStep(s, to, c) /\ CacheStep
<1>1. s \in Requests /\ phase[s] \in Open
  BY DEF LookUp, Requests, Open
<1>2. PICK kept \in Pruned :
          LET hits == Keyed(kept, call[s].filter, call[s].snap.dependency)
          IN  \/ \E i \in hits :
                     /\ sessions' = Promoted(kept, i)
                     /\ call' = [call EXCEPT ![s].ids = kept[i].ids,
                                             ![s].session = kept[i].id]
                     /\ Goto(s, "answering")
              \/ /\ hits = {}
                 /\ sessions' = kept
                 /\ Goto(s, "building")
                 /\ UNCHANGED call
  BY DEF LookUp
<1>3. ASSUME NEW i \in Keyed(kept, call[s].filter, call[s].snap.dependency),
             sessions' = Promoted(kept, i),
             call' = [call EXCEPT ![s].ids = kept[i].ids, ![s].session = kept[i].id],
             Goto(s, "answering")
      PROVE  \E to, c : RequestStep(s, to, c) /\ CacheStep
  <2> DEFINE c == [call[s] EXCEPT !.ids = kept[i].ids, !.session = kept[i].id]
  <2>1. /\ i \in DOMAIN kept
        /\ kept[i].filter = call[s].filter
        /\ kept[i].dependency = call[s].snap.dependency
    BY <1>3 DEF Keyed
  <2>2. kept[i].ids = call[s].snap.ids
    BY <1>1, <2>1, HitIsRight
  <2>3. CacheStep /\ kept[i] \in Session /\ <<kept[i].id, kept[i].filter>> \in Names
    BY <1>3, <2>1, PrunedStep
  <2>4. /\ c \in Call /\ c.filter = call[s].filter /\ c.snap = call[s].snap
        /\ c.ids = kept[i].ids /\ c.session = kept[i].id /\ c.token = call[s].token
    BY <1>1, <2>3, OpenRequest DEF Call, Session
  <2>5. call' = [call EXCEPT ![s] = c]
    BY <1>1, <1>3, OpenRequest
  <2>6. RequestClaim(c) \in Claims /\ <<c.session, c.filter>> \in Names
    BY <1>1, <2>1, <2>3, <2>4, OpenRequest DEF RequestClaim
  <2> HIDE DEF c
  <2>7. RequestStep(s, "answering", c)
    BY <1>1, <1>3, <2>2, <2>4, <2>5, <2>6, OpenRequest
       DEF LookUp, Goto, RequestStep, Phases, db
  <2> QED
    BY <2>3, <2>7
<1>4. ASSUME sessions' = kept, Goto(s, "building"), UNCHANGED call
      PROVE  \E to, c : RequestStep(s, to, c) /\ CacheStep
  <2>1. CacheStep
    BY <1>4, PrunedStep
  <2>2. RequestStep(s, "building", call[s])
    BY <1>1, <1>4, OpenRequest DEF LookUp, Goto, RequestStep, Phases, db
  <2> QED
    BY <2>1, <2>2
<1> QED
  BY <1>2, <1>3, <1>4

\* Building the ids is the step of a request, and takes the next name.
LEMMA BuildStep ==
    ASSUME IInv, NEW s \in Starts, Build(s)
    PROVE  \E to, c : RequestStep(s, to, c) /\ CacheStep
<1> DEFINE c == [call[s] EXCEPT !.ids = call[s].snap.ids, !.session = nextId]
<1>1. /\ s \in Requests /\ phase[s] \in Open /\ nextId \in Nat \ {0}
  BY DEF Build, Requests, Open, IInv, TypeOK
<1>2. /\ c \in Call /\ c.filter = call[s].filter /\ c.snap = call[s].snap
      /\ c.ids = c.snap.ids /\ c.session = nextId /\ c.token = call[s].token
  BY <1>1, OpenRequest DEF Call
<1>3. call' = [call EXCEPT ![s] = c]
  BY <1>1, OpenRequest DEF Build
<1>4. RequestClaim(c) \in Claims
  BY <1>1, <1>2, OpenRequest DEF RequestClaim
<1>5. CacheStep
  BY CacheUnchanged DEF Build, cache
<1> HIDE DEF c
<1>6. RequestStep(s, "inserting", c)
  BY <1>1, <1>2, <1>3, <1>4, OpenRequest DEF Build, Goto, RequestStep, Phases, db, cache
<1> QED
  BY <1>5, <1>6

\* insert_session is the step of a request: it claims what the request did.
LEMMA InsertSessionStep ==
    ASSUME IInv, NEW s \in Starts, InsertSession(s)
    PROVE  \E to, c : RequestStep(s, to, c) /\ CacheStep
<1>1. /\ s \in Requests /\ phase[s] \in Open
      /\ call[s].ids = call[s].snap.ids /\ call[s].session # 0
  BY DEF InsertSession, Requests, Open, IInv, AnswerInv
<1> DEFINE new == [id |-> call[s].session, filter |-> call[s].filter,
                   dependency |-> call[s].snap.dependency, ids |-> call[s].ids]
<1>2. PICK kept \in Pruned :
          \E others \in Without(kept, Keyed(kept, new.filter, new.dependency)) :
              sessions' \in Fitting(<<new>> \o others)
  BY DEF InsertSession
<1>3. PICK others \in Without(kept, Keyed(kept, new.filter, new.dependency)) :
          sessions' \in Fitting(<<new>> \o others)
  BY <1>2
<1>4. /\ new \in Session /\ SessionClaim(new) = RequestClaim(call[s])
      /\ new.id = call[s].session /\ new.filter = call[s].filter
  BY <1>1, OpenRequest DEF Call, Session, SessionClaim, RequestClaim
<1> HIDE DEF new
<1>5. kept \in Seq(Session) /\ From(kept, sessions)
  BY PrunedKeeps DEF IInv
<1>6. others \in Seq(Session) /\ From(others, kept)
  BY <1>3, <1>5, NamedType, WithoutKeeps
<1>7. From(others, sessions)
  BY <1>5, <1>6, FromTransitive
<1> DEFINE all == <<new>> \o others
<1>8. /\ all \in Seq(Session)
      /\ \A i \in DOMAIN all : all[i] = new \/ \E j \in DOMAIN others : all[i] = others[j]
  BY <1>4, <1>6, ConsKeeps
<1> HIDE DEF all
<1>9. sessions' \in Seq(Session) /\ From(sessions', all)
  BY <1>3, <1>8, FittingKeeps DEF all
<1>10. ASSUME NEW i \in DOMAIN sessions'
       PROVE  /\ SessionClaim(sessions'[i]) \in Claims
              /\ <<sessions'[i].id, sessions'[i].filter>> \in Names
  <2>1. CASE sessions'[i] = new
    BY <1>1, <1>4, <2>1, OpenRequest
  <2>2. CASE \E j \in DOMAIN sessions : sessions'[i] = sessions[j]
    BY <2>2 DEF Claims, Names
  <2> QED
    BY <1>7, <1>8, <1>9, <2>1, <2>2 DEF From
<1>11. CacheStep
  BY <1>1, <1>9, <1>10, OpenRequest DEF CacheStep
<1>12. RequestStep(s, "answering", call[s])
  BY <1>1, OpenRequest DEF InsertSession, Goto, RequestStep, Phases, db
<1> QED
  BY <1>11, <1>12

\* Answering a start is the step of a request, ready only if it is the latest.
LEMMA AnswerStartStep ==
    ASSUME IInv, NEW s \in Starts, AnswerStart(s)
    PROVE  \E to, c : RequestStep(s, to, c) /\ CacheStep
<1>1. /\ s \in Requests /\ phase[s] \in Open /\ call[s].ids = call[s].snap.ids
  BY DEF AnswerStart, Requests, Open, IInv, AnswerInv
<1>2. CacheStep
  BY CacheUnchanged DEF AnswerStart, cache
<1>3. CASE Latest(s)
  <2>1. RequestStep(s, "ready", call[s])
    BY <1>1, <1>3, OpenRequest DEF AnswerStart, Goto, RequestStep, Phases, db, cache
  <2> QED
    BY <1>2, <2>1
<1>4. CASE ~Latest(s)
  BY <1>1, <1>2, <1>4, EndStep DEF AnswerStart, db, cache
<1> QED
  BY <1>3, <1>4

\* A page's look into the cache is the step of a request: the session with its
\* id is one of its filter.
LEMMA LookUpPageStep ==
    ASSUME IInv, NEW p \in Pages, LookUpPage(p)
    PROVE  \E to, c : RequestStep(p, to, c) /\ CacheStep
<1>1. p \in Requests /\ phase[p] \in Open
  BY DEF LookUpPage, Requests, Open
<1>2. PICK kept \in Pruned :
          LET found == Named(kept, call[p].session)
          IN  \/ \E i \in found :
                     /\ sessions' = Promoted(kept, i)
                     /\ IF kept[i].dependency = call[p].snap.dependency
                        THEN /\ call' = [call EXCEPT ![p].ids = kept[i].ids]
                             /\ Goto(p, "ready")
                        ELSE Goto(p, "dropping") /\ UNCHANGED call
              \/ /\ found = {}
                 /\ sessions' = kept
                 /\ End(p, "stale")
  BY DEF LookUpPage
<1>3. ASSUME NEW i \in Named(kept, call[p].session),
             sessions' = Promoted(kept, i),
             kept[i].dependency = call[p].snap.dependency,
             call' = [call EXCEPT ![p].ids = kept[i].ids], Goto(p, "ready")
      PROVE  \E to, c : RequestStep(p, to, c) /\ CacheStep
  <2> DEFINE c == [call[p] EXCEPT !.ids = kept[i].ids]
  <2>1. i \in DOMAIN kept /\ kept[i].id = call[p].session
    BY <1>3 DEF Named
  <2>2. CacheStep /\ kept[i] \in Session /\ <<kept[i].id, kept[i].filter>> \in Names
    BY <1>3, <2>1, PrunedStep
  <2>3. kept[i].filter = call[p].filter
    <3>1. call[p].session # 0
      BY <2>1, <2>2 DEF IInv, NamesInv
    <3> QED
      BY <1>1, <2>1, <2>2, <3>1, OpenRequest DEF IInv, NamesInv
  <2>4. kept[i].ids = call[p].snap.ids
    BY <1>1, <1>3, <2>1, <2>3, HitIsRight
  <2>5. /\ c \in Call /\ c.filter = call[p].filter /\ c.snap = call[p].snap
        /\ c.ids = kept[i].ids /\ c.session = call[p].session /\ c.token = call[p].token
    BY <1>1, <2>2, OpenRequest DEF Call, Session
  <2>6. call' = [call EXCEPT ![p] = c]
    BY <1>1, <1>3, OpenRequest
  <2> HIDE DEF c
  <2>7. RequestStep(p, "ready", c)
    BY <1>1, <1>3, <2>4, <2>5, <2>6, OpenRequest
       DEF LookUpPage, Goto, RequestStep, Phases, Open, db
  <2> QED
    BY <2>2, <2>7
<1>4. ASSUME NEW i \in Named(kept, call[p].session),
             sessions' = Promoted(kept, i), Goto(p, "dropping"), UNCHANGED call
      PROVE  \E to, c : RequestStep(p, to, c) /\ CacheStep
  <2>1. CacheStep
    BY <1>4, PrunedStep DEF Named
  <2>2. RequestStep(p, "dropping", call[p])
    BY <1>1, <1>4, OpenRequest DEF LookUpPage, Goto, RequestStep, Phases, db
  <2> QED
    BY <2>1, <2>2
<1>5. ASSUME sessions' = kept, End(p, "stale")
      PROVE  \E to, c : RequestStep(p, to, c) /\ CacheStep
  <2>1. CacheStep
    BY <1>5, PrunedStep
  <2> QED
    BY <1>1, <1>5, <2>1, EndStep DEF LookUpPage, db
<1> QED
  BY <1>2, <1>3, <1>4, <1>5

-----------------------------------------------------------------------------
(* Writers and the owner of the database *)

\* A sound write keeps the inductive invariant.
LEMMA WriteStep ==
    ASSUME IInv, NEW lib, NEW names, Sound(lib, names), Write(lib, names)
    PROVE  IInv'
<1>1. TypeOK'
  BY WriteType DEF IInv, Sound
<1>2. UNCHANGED <<gate, latest, epoch, sessions, nextId, phase, call>>
  BY DEF Write, cache
<1>3. NamesInv' /\ AnswerInv' /\ GateInv' /\ TokenInv'
  BY <1>2 DEF IInv, NamesInv, Names, AnswerInv, GateInv, Owned, Admitted, TokenInv
<1>4. /\ library' = lib /\ revision \in Nat /\ revision' = revision + 1
      /\ marker' = [k \in Markers |-> IF k \in names THEN revision + 1 ELSE marker[k]]
  BY BoundsAssumption DEF Write, BumpScoped, IInv, TypeOK
<1>5. ASSUME NEW f \in Filter, Dependencies(f) \cap names = {}
      PROVE  LibraryClaim(f)' = LibraryClaim(f)
  <2>1. Dependencies(f) \subseteq Markers
    BY DEF Dependencies, Markers, FixedMarkers, Filter
  <2>2. \A k \in Dependencies(f) : marker'[k] = marker[k]
    BY <1>4, <1>5, <2>1
  <2>3. {marker'[k] : k \in Dependencies(f)} = {marker[k] : k \in Dependencies(f)}
    BY <2>2
  <2>4. DependencyRevision(f)' = DependencyRevision(f)
    BY <2>3 DEF DependencyRevision, Dependencies
  <2>5. OrderedIds(f, library') = OrderedIds(f, library)
    BY <1>4, <1>5, AlikeResults DEF Sound
  <2> QED
    BY <2>4, <2>5 DEF LibraryClaim
<1>6. ASSUME NEW f \in Filter, Dependencies(f) \cap names # {}
      PROVE  DependencyRevision(f)' = revision'
  <2>1. PICK k \in Dependencies(f) : k \in names
    BY <1>6
  <2>2. k \in Markers /\ marker'[k] = revision'
    BY <1>4, <2>1 DEF Dependencies, Markers, FixedMarkers, Filter
  <2>3. /\ DependencyRevision(f)' \in 0 .. revision'
        /\ \A j \in Dependencies(f) : marker'[j] <= DependencyRevision(f)'
    <3>1. revision' \in Nat /\ marker' \in [Markers -> 0 .. revision']
      BY <1>1, <1>4 DEF TypeOK
    <3>2. DependencyRevision(f)' = Max({marker'[j] : j \in Dependencies(f)})
      BY DEF DependencyRevision, Dependencies
    <3> QED
      BY <3>1, <3>2, DependencyBounds
  <2> QED
    BY <1>4, <2>1, <2>2, <2>3
<1>7. ASSUME NEW c \in Claims'
      PROVE  \/ c \in Claims
             \/ \E f \in Filter : c = <<f, revision', OrderedIds(f, library')>>
  BY <1>2, <1>5, <1>6 DEF Claims, LibraryClaim, SessionClaim, RequestClaim
<1>8. \A c \in Claims : c[2] \in 0 .. revision
  BY DEF IInv, ClaimsInv
<1>9. ClaimsInv'
  <2>1. ASSUME NEW c \in Claims', NEW d \in Claims', c[1] = d[1], c[2] = d[2]
        PROVE  c[3] = d[3]
    <3>1. CASE c \in Claims /\ d \in Claims
      BY <2>1, <3>1 DEF IInv, ClaimsInv
    <3>2. CASE c \notin Claims \/ d \notin Claims
      <4>1. c[2] = revision' /\ d[2] = revision'
        BY <1>4, <1>7, <2>1, <3>2
      <4>2. c \notin Claims /\ d \notin Claims
        BY <1>4, <1>8, <4>1
      <4> QED
        BY <1>7, <2>1, <4>2
    <3> QED
      BY <3>1, <3>2
  <2>2. ASSUME NEW c \in Claims'
        PROVE  c[2] \in 0 .. revision'
    BY <1>4, <1>7, <1>8
  <2> QED
    BY <2>1, <2>2 DEF ClaimsInv
<1> QED
  BY <1>1, <1>3, <1>9 DEF IInv

\* Clearing the cache, with or without a new library, leaves only the claims of
\* the library.
LEMMA ClearedStep ==
    ASSUME IInv, Own \/ (\E lib \in Libraries, restored \in 1 .. MaxRevision - 1 :
                             Restore(lib, restored))
    PROVE  IInv'
<1>1. /\ sessions' = <<>> /\ UNCHANGED <<nextId, phase, call>>
      /\ \A r \in Requests : ~Admitted(r)
  BY DEF Own, Restore, Cleared, IInv, GateInv, Owned
<1>2. TypeOK'
  BY MaintenanceType DEF Maintenance, IInv
<1>3. NamesInv' /\ AnswerInv' /\ GateInv'
  BY <1>1 DEF IInv, NamesInv, Names, AnswerInv, GateInv, Admitted
<1>4. TokenInv'
  <2>1. latest \in Nat /\ latest' = latest + 1
    BY DEF Own, Restore, Cleared, IInv, TypeOK
  <2> QED
    BY <1>1, <2>1 DEF IInv, TokenInv
<1>5. Claims' = {LibraryClaim(f)' : f \in Filter}
  BY <1>1 DEF Claims, Admitted, Open
<1>6. \A f \in Filter : DependencyRevision(f)' \in 0 .. revision'
  <2>1. revision' \in Nat /\ marker' \in [Markers -> 0 .. revision']
    BY <1>2, BoundsAssumption DEF TypeOK
  <2>2. \A f : DependencyRevision(f)' = Max({marker'[j] : j \in Dependencies(f)})
    BY DEF DependencyRevision, Dependencies
  <2> QED
    BY <2>1, <2>2, DependencyBounds
<1>7. ClaimsInv'
  BY <1>5, <1>6 DEF ClaimsInv, LibraryClaim
<1> QED
  BY <1>2, <1>3, <1>4, <1>7 DEF IInv

\* Closing and opening admission keep the inductive invariant.
LEMMA GateStep ==
    ASSUME IInv, CloseAdmission \/ OpenAdmission
    PROVE  IInv'
<1>1. UNCHANGED <<db, latest, cache, nextId, phase, call>> /\ ~Owned'
  BY DEF CloseAdmission, OpenAdmission, Owned
<1>2. TypeOK'
  BY MaintenanceType DEF Maintenance, IInv
<1>3. \A f \in Filter : LibraryClaim(f)' = LibraryClaim(f)
  BY <1>1 DEF db, LibraryClaim, DependencyRevision, OrderedIds, Matches
<1>4. Claims' = Claims /\ revision' = revision
  BY <1>1, <1>3 DEF db, cache, Claims, SessionClaim, RequestClaim
<1> QED
  BY <1>1, <1>2, <1>4
     DEF IInv, ClaimsInv, NamesInv, Names, AnswerInv, GateInv, TokenInv, cache

\* The first state satisfies the inductive invariant.
LEMMA InitIInv == Init => IInv
<1> SUFFICES ASSUME Init
             PROVE  IInv
  OBVIOUS
<1>1. TypeOK
  BY InitType
<1>2. NamesInv /\ AnswerInv /\ GateInv /\ TokenInv
  BY DEF Init, NamesInv, Names, AnswerInv, GateInv, Owned, NoCall, TokenInv, Requests
<1>3. Claims = {LibraryClaim(f) : f \in Filter}
  BY DEF Init, Claims, Open
<1>4. \A f \in Filter : DependencyRevision(f) \in 0 .. revision
  BY <1>1, DependencyRevisionType
<1>5. ClaimsInv
  BY <1>3, <1>4 DEF ClaimsInv, LibraryClaim
<1> QED
  BY <1>1, <1>2, <1>5 DEF IInv

\* What is neither a writer nor maintenance is the step of one request.
LEMMA NextRequestStep ==
    ASSUME IInv, Next, ~Writer, ~Maintenance
    PROVE  \E r \in Requests : \E to, c : RequestStep(r, to, c) /\ CacheStep
<1>1. ASSUME NEW r \in Requests, Admit(r) \/ Fail(r) \/ OpenSnapshot(r)
      PROVE  \E to, c : RequestStep(r, to, c) /\ CacheStep
  BY <1>1, AdmitStep, FailStep, OpenSnapshotStep
<1>2. ASSUME NEW s \in Starts, StartStep(s)
      PROVE  \E to, c : RequestStep(s, to, c) /\ CacheStep
  BY <1>2, BeginRequestStep, EndingStep, ProceedStep, LookUpStep, BuildStep,
     InsertSessionStep, AnswerStartStep DEF StartStep, Requests
<1>3. ASSUME NEW p \in Pages, PageStep(p)
      PROVE  \E to, c : RequestStep(p, to, c) /\ CacheStep
  BY <1>3, AskPageStep, EndingStep, LookUpPageStep DEF PageStep, Requests
<1> QED
  BY <1>1, <1>2, <1>3 DEF Next, Requests

\* Every step keeps the inductive invariant.
LEMMA NextIInv == IInv /\ [Next]_vars => IInv'
<1> SUFFICES ASSUME IInv, [Next]_vars
             PROVE  IInv'
  OBVIOUS
<1>1. CASE Writer
  BY <1>1, WriterIsSound, WriteStep DEF IInv
<1>2. CASE Maintenance
  BY <1>2, ClearedStep, GateStep DEF Maintenance
<1>3. CASE ~Writer /\ ~Maintenance /\ Next
  BY <1>3, NextRequestStep, RequestStepKeepsIInv
<1>4. CASE UNCHANGED vars
  <2>1. \A f \in Filter : LibraryClaim(f)' = LibraryClaim(f)
    BY <1>4 DEF vars, LibraryClaim, DependencyRevision, OrderedIds, Matches
  <2>2. Claims' = Claims
    BY <1>4, <2>1 DEF vars, Claims, SessionClaim, RequestClaim
  <2> QED
    BY <1>4, <2>2 DEF vars, IInv, TypeOK, ClaimsInv, NamesInv, Names, AnswerInv,
                      GateInv, Owned, Admitted, TokenInv
<1> QED
  BY <1>1, <1>2, <1>3, <1>4

-----------------------------------------------------------------------------
(* The theorems *)

\* The inductive invariant holds in every state.
THEOREM IndInv == Spec => []IInv
<1>1. Init => IInv
  BY InitIInv
<1>2. IInv /\ [Next]_vars => IInv'
  BY NextIInv
<1> QED
  BY <1>1, <1>2, PTL DEF Spec

\* Every variable keeps its type: no marker is ever ahead of the revision of its
\* library, and the revision stays within its bound.
THEOREM TypeCorrect == Spec => []TypeOK
<1>1. IInv => TypeOK
  BY DEF IInv
<1> QED
  BY <1>1, IndInv, PTL

\* A cached session whose dependency revision is the library's holds exactly the
\* result its filter has now, whatever the writers and restores in between.
THEOREM SessionsAreRight == Spec => []CurrentSessionsAreRight
<1>1. IInv => CurrentSessionsAreRight
  <2> SUFFICES ASSUME IInv, NEW i \in DOMAIN sessions,
                      sessions[i].dependency = DependencyRevision(sessions[i].filter)
               PROVE  sessions[i].ids = OrderedIds(sessions[i].filter, library)
    BY DEF CurrentSessionsAreRight
  <2>1. sessions[i].filter \in Filter
    <3>1. sessions \in Seq(Session)
      BY DEF IInv, TypeOK
    <3>2. sessions[i] \in Session
      BY <3>1, LenProperties, ElementOfSeq
    <3> QED
      BY <3>2 DEF Session
  <2>2. /\ SessionClaim(sessions[i]) \in Claims
        /\ LibraryClaim(sessions[i].filter) \in Claims
    BY <2>1 DEF Claims
  <2> QED
    BY <2>2 DEF IInv, ClaimsInv, SessionClaim, LibraryClaim
<1> QED
  BY <1>1, IndInv, PTL

\* What is answered ready is the result of the one snapshot its request read.
THEOREM AnswersAreSnapshots == Spec => []ReadyIsItsSnapshot
<1>1. IInv => ReadyIsItsSnapshot
  BY DEF IInv, AnswerInv, ReadyIsItsSnapshot
<1> QED
  BY <1>1, IndInv, PTL

\* Starts answer ready in the order in which they arrived.
THEOREM ArrivalOrder == Spec => ReadyInArrivalOrder
<1> DEFINE Order == \A s, t \in Starts :
                        NewReady(s) /\ phase[t] = "ready" => call[t].token < call[s].token
<1>1. IInv /\ [Next]_vars => [Order]_vars
  <2> SUFFICES ASSUME IInv, Next, NEW s \in Starts, NEW t \in Starts,
                      NewReady(s), phase[t] = "ready"
               PROVE  call[t].token < call[s].token
    OBVIOUS
  <2>1. phase' # phase /\ phase[s] # "ready" /\ phase'[s] = "ready"
    BY DEF NewReady
  <2>2. ~Writer /\ ~Maintenance
    BY <2>1, WriterIsSound
       DEF IInv, Write, Maintenance, CloseAdmission, Own, OpenAdmission, Restore
  <2>3. PICK r \in Requests : \E to, c : RequestStep(r, to, c) /\ CacheStep
    BY <2>2, NextRequestStep
  <2>4. PICK to, c : RequestStep(r, to, c)
    BY <2>3
  <2>5. r = s /\ to = "ready"
    BY <2>1, <2>4 DEF RequestStep, IInv, TypeOK
  <2>6. Latest(s) /\ phase[s] # "new" /\ s # t
    BY <2>1, <2>4, <2>5, RequestsAssumption DEF RequestStep
  <2>7. /\ latest \in Nat /\ call[s].token = latest
        /\ call[t].token \in 1 .. latest /\ call[t].token # call[s].token
    BY <2>6 DEF TokenInv, Latest, IInv, TypeOK
  <2> QED
    BY <2>7
<1> QED
  BY <1>1, IndInv, PTL DEF Spec, ReadyInArrivalOrder

-----------------------------------------------------------------------------
(* What the cache keeps, position by position *)

\* The elements of ds are those of cs at different positions of P.
Within(ds, cs, P) ==
    \E h \in Injection(DOMAIN ds, P) : \A j \in DOMAIN ds : ds[j] = cs[h[j]]

\* A sequence is within itself.
LEMMA WithinItself ==
    ASSUME NEW cs
    PROVE  Within(cs, cs, DOMAIN cs)
<1> DEFINE h == [j \in DOMAIN cs |-> j]
<1>1. h \in Injection(DOMAIN cs, DOMAIN cs)
  BY DEF Injection, IsInjective
<1> QED
  BY <1>1 DEF Within

\* A prefix is within the sequence.
LEMMA PrefixWithin ==
    ASSUME NEW S, NEW cs \in Seq(S), NEW n \in 0 .. Len(cs)
    PROVE  Len(SubSeq(cs, 1, n)) = n /\ Within(SubSeq(cs, 1, n), cs, DOMAIN cs)
<1> DEFINE p == SubSeq(cs, 1, n)
<1>1. Len(cs) \in Nat /\ \A i \in 1 .. n : i \in DOMAIN cs /\ cs[i] \in S
  BY LenProperties
<1>2. /\ p \in Seq(S)
      /\ Len(p) = IF 1 <= n THEN n - 1 + 1 ELSE 0
      /\ \A i \in 1 .. n - 1 + 1 : p[i] = cs[1 + i - 1]
  BY <1>1, SubSeqProperties
<1>3. DOMAIN p = 1 .. n /\ Len(p) = n /\ \A i \in 1 .. n : p[i] = cs[i]
  <2>1. DOMAIN p = 1 .. Len(p)
    BY <1>2, LenProperties
  <2>2. \A i \in 1 .. n : 1 + i - 1 = i /\ i \in 1 .. n - 1 + 1
    BY <1>1
  <2> QED
    BY <1>1, <1>2, <2>1, <2>2
<1> DEFINE h == [j \in 1 .. n |-> j]
<1>4. h \in Injection(1 .. n, DOMAIN cs)
  BY <1>1 DEF Injection, IsInjective
<1> HIDE DEF p
<1>5. Within(p, cs, DOMAIN cs)
  BY <1>3, <1>4 DEF Within
<1> QED
  BY <1>3, <1>5 DEF p

\* What is left after a removal is at the other positions.
LEMMA RemoveWithin ==
    ASSUME NEW S, NEW cs \in Seq(S), NEW i \in DOMAIN cs
    PROVE  /\ Len(RemoveAt(cs, i)) = Len(cs) - 1
           /\ DOMAIN RemoveAt(cs, i) = 1 .. Len(cs) - 1
           /\ \A j \in 1 .. Len(cs) - 1 :
                  RemoveAt(cs, i)[j] = cs[IF j < i THEN j ELSE j + 1]
           /\ Within(RemoveAt(cs, i), cs, DOMAIN cs \ {i})
<1> DEFINE p == SubSeq(cs, 1, i - 1)
           q == SubSeq(cs, i + 1, Len(cs))
           n == Len(cs) - 1
<1>1. /\ Len(cs) \in Nat /\ DOMAIN cs = 1 .. Len(cs) /\ i \in 1 .. Len(cs)
      /\ \A j \in DOMAIN cs : cs[j] \in S
  BY LenProperties, ElementOfSeq
<1>2. /\ p \in Seq(S)
      /\ Len(p) = i - 1
      /\ \A j \in 1 .. i - 1 : p[j] = cs[j]
  <2>1. \A j \in 1 .. i - 1 : cs[j] \in S
    BY <1>1
  <2>2. /\ p \in Seq(S)
        /\ Len(p) = IF 1 <= i - 1 THEN i - 1 - 1 + 1 ELSE 0
        /\ \A j \in 1 .. i - 1 - 1 + 1 : p[j] = cs[1 + j - 1]
    BY <1>1, <2>1, SubSeqProperties
  <2>3. \A j \in 1 .. i - 1 : 1 + j - 1 = j /\ j \in 1 .. i - 1 - 1 + 1
    BY <1>1
  <2> HIDE DEF p
  <2> QED
    BY <1>1, <2>2, <2>3
<1>3. /\ q \in Seq(S)
      /\ Len(q) = Len(cs) - i
      /\ \A j \in 1 .. Len(cs) - i : q[j] = cs[i + j]
  <2>1. \A j \in i + 1 .. Len(cs) : cs[j] \in S
    BY <1>1
  <2>2. /\ q \in Seq(S)
        /\ Len(q) = IF i + 1 <= Len(cs) THEN Len(cs) - (i + 1) + 1 ELSE 0
        /\ \A j \in 1 .. Len(cs) - (i + 1) + 1 : q[j] = cs[i + 1 + j - 1]
    BY <1>1, <2>1, SubSeqProperties
  <2>3. \A j \in 1 .. Len(cs) - i : i + 1 + j - 1 = i + j /\ j \in 1 .. Len(cs) - (i + 1) + 1
    BY <1>1
  <2> HIDE DEF q
  <2> QED
    BY <1>1, <2>2, <2>3
<1>4. RemoveAt(cs, i) = p \o q
  BY DEF RemoveAt
<1> HIDE DEF p, q
<1>5. /\ p \o q \in Seq(S)
      /\ Len(p \o q) = Len(p) + Len(q)
      /\ \A j \in 1 .. Len(p) + Len(q) :
             (p \o q)[j] = IF j <= Len(p) THEN p[j] ELSE q[j - Len(p)]
  BY <1>2, <1>3, ConcatProperties
<1>6. Len(p) + Len(q) = n /\ n \in Nat
  BY <1>1, <1>2, <1>3
<1>7. DOMAIN (p \o q) = 1 .. n
  BY <1>5, <1>6, LenProperties
<1>8. \A j \in 1 .. n : (p \o q)[j] = cs[IF j < i THEN j ELSE j + 1]
  <2> TAKE j \in 1 .. n
  <2>1. CASE j < i
    <3>1. j \in 1 .. i - 1 /\ j <= Len(p)
      BY <1>1, <1>2, <2>1
    <3> QED
      BY <1>2, <1>5, <1>6, <2>1, <3>1
  <2>2. CASE ~(j < i)
    <3>1. j - (i - 1) \in 1 .. Len(cs) - i /\ i + (j - (i - 1)) = j + 1 /\ ~(j <= Len(p))
      BY <1>1, <1>2, <2>2
    <3>2. (p \o q)[j] = q[j - (i - 1)]
      BY <1>2, <1>5, <1>6, <3>1
    <3>3. q[j - (i - 1)] = cs[j + 1]
      BY <1>3, <3>1
    <3> QED
      BY <2>2, <3>2, <3>3
  <2> QED
    BY <2>1, <2>2
<1> DEFINE h == [j \in 1 .. n |-> IF j < i THEN j ELSE j + 1]
<1>9. h \in Injection(1 .. n, DOMAIN cs \ {i})
  BY <1>1, <1>6 DEF Injection, IsInjective
<1>10. Within(p \o q, cs, DOMAIN cs \ {i})
  <2>1. \A j \in 1 .. n : (p \o q)[j] = cs[h[j]]
    BY <1>8
  <2> HIDE DEF h, n
  <2> QED
    BY <1>7, <1>9, <2>1 DEF Within
<1> QED
  BY <1>4, <1>5, <1>6, <1>7, <1>8, <1>10

\* A session moves to the front: every position is another one of before.
LEMMA PromotedWithin ==
    ASSUME NEW S, NEW cs \in Seq(S), NEW i \in DOMAIN cs
    PROVE  Len(Promoted(cs, i)) = Len(cs) /\ Within(Promoted(cs, i), cs, DOMAIN cs)
<1> DEFINE n == Len(cs)
           d == <<cs[i]>>
           t == RemoveAt(cs, i)
<1>1. n \in Nat /\ DOMAIN cs = 1 .. n /\ i \in 1 .. n /\ cs[i] \in S
  BY LenProperties, ElementOfSeq
<1>2. d \in Seq(S) /\ Len(d) = 1 /\ d[1] = cs[i]
  BY <1>1
<1>3. t \in Seq(S)
  BY RemoveKeeps
<1>4. /\ Len(t) = n - 1
      /\ \A j \in 1 .. n - 1 : t[j] = cs[IF j < i THEN j ELSE j + 1]
  BY RemoveWithin
<1>5. Promoted(cs, i) = d \o t
  BY DEF Promoted
<1> HIDE DEF d, t, n
<1>6. /\ d \o t \in Seq(S)
      /\ Len(d \o t) = Len(d) + Len(t)
      /\ \A j \in 1 .. Len(d) + Len(t) :
             (d \o t)[j] = IF j <= Len(d) THEN d[j] ELSE t[j - Len(d)]
  BY <1>2, <1>3, ConcatProperties
<1>7. Len(d \o t) = n /\ DOMAIN (d \o t) = 1 .. n
  BY <1>1, <1>2, <1>4, <1>6, LenProperties
<1> DEFINE h == [j \in 1 .. n |-> IF j = 1 THEN i ELSE IF j - 1 < i THEN j - 1 ELSE j]
<1>8. h \in Injection(1 .. n, DOMAIN cs)
  BY <1>1 DEF Injection, IsInjective
<1>9. \A j \in 1 .. n : (d \o t)[j] = cs[h[j]]
  <2> TAKE j \in 1 .. n
  <2>1. CASE j = 1
    BY <1>1, <1>2, <1>4, <1>6, <2>1
  <2>2. CASE j # 1
    <3>1. j - 1 \in 1 .. n - 1 /\ ~(j <= 1) /\ j - 1 + 1 = j /\ j \in 1 .. Len(d) + Len(t)
      BY <1>1, <1>2, <1>4, <2>2
    <3>2. (d \o t)[j] = t[j - 1]
      BY <1>2, <1>6, <3>1
    <3>3. t[j - 1] = cs[IF j - 1 < i THEN j - 1 ELSE j - 1 + 1]
      BY <1>4, <3>1
    <3> QED
      BY <2>2, <3>1, <3>2, <3>3
  <2> QED
    BY <2>1, <2>2
<1> HIDE DEF h
<1>10. Within(d \o t, cs, DOMAIN cs)
  BY <1>7, <1>8, <1>9 DEF Within
<1> QED
  BY <1>5, <1>7, <1>10 DEF n

\* Being within is transitive.
LEMMA WithinTransitive ==
    ASSUME NEW cs, NEW ds, NEW es, NEW P, Within(cs, ds, DOMAIN ds), Within(ds, es, P)
    PROVE  Within(cs, es, P)
<1>1. PICK g \in Injection(DOMAIN cs, DOMAIN ds) : \A j \in DOMAIN cs : cs[j] = ds[g[j]]
  BY DEF Within
<1>2. PICK h \in Injection(DOMAIN ds, P) : \A j \in DOMAIN ds : ds[j] = es[h[j]]
  BY DEF Within
<1> DEFINE f == [j \in DOMAIN cs |-> h[g[j]]]
<1>3. f \in Injection(DOMAIN cs, P)
  BY DEF Injection, IsInjective
<1>4. \A j \in DOMAIN cs : g[j] \in DOMAIN ds /\ cs[j] = es[f[j]]
  BY <1>1, <1>2 DEF Injection
<1> HIDE DEF f
<1> QED
  BY <1>3, <1>4 DEF Within

\* What is removed is no longer there, and nothing else changes.
LEMMA WithoutWithin ==
    ASSUME NEW S, NEW cs \in Seq(S), NEW positions \in SUBSET DOMAIN cs,
           NEW ds \in Without(cs, positions)
    PROVE  /\ Within(ds, cs, DOMAIN cs)
           /\ \A i : positions = {i} => Within(ds, cs, DOMAIN cs \ {i})
<1>1. CASE positions = {}
  BY <1>1, WithinItself DEF Without
<1>2. CASE positions # {}
  <2>1. PICK i \in positions : ds = RemoveAt(cs, i)
    BY <1>2 DEF Without
  <2>2. Within(ds, cs, DOMAIN cs \ {i})
    BY <2>1, RemoveWithin
  <2>3. Within(ds, cs, DOMAIN cs)
    BY <2>2 DEF Within, Injection, IsInjective
  <2> QED
    BY <2>1, <2>2, <2>3
<1> QED
  BY <1>1, <1>2

\* A finite number of sessions retains a finite number of ids.
LEMMA IdsAreFinite ==
    ASSUME NEW S, NEW cs \in Seq(S), \A i \in DOMAIN cs : IsFiniteSet(cs[i].ids)
    PROVE  IsFiniteSet(UNION {{i} \X cs[i].ids : i \in DOMAIN cs})
<1> DEFINE g == [i \in DOMAIN cs |-> {i} \X cs[i].ids]
           T == {{i} \X cs[i].ids : i \in DOMAIN cs}
<1>1. IsFiniteSet(DOMAIN cs)
  <2>1. Len(cs) \in Nat /\ DOMAIN cs = 1 .. Len(cs)
    BY LenProperties
  <2> QED
    BY <2>1, FS_Interval
<1>2. g \in Surjection(DOMAIN cs, T)
  BY DEF Surjection
<1>3. IsFiniteSet(T)
  <2> HIDE DEF g, T
  <2> QED
    BY <1>1, <1>2, FS_Surjection
<1>4. \A i \in DOMAIN cs : IsFiniteSet({i} \X cs[i].ids)
  <2> TAKE i \in DOMAIN cs
  <2>1. IsFiniteSet({i}) /\ IsFiniteSet(cs[i].ids)
    BY FS_Singleton
  <2> QED
    BY <2>1, FS_Product
<1>5. \A t \in T : IsFiniteSet(t)
  BY <1>4
<1> HIDE DEF T
<1>6. IsFiniteSet(UNION T)
  BY <1>3, <1>5, FS_UNION
<1> QED
  BY <1>6 DEF T

\* A cache within another one retains no more ids.
LEMMA WithinCount ==
    ASSUME NEW S, NEW cs \in Seq(S), NEW ds, Within(ds, cs, DOMAIN cs),
           \A i \in DOMAIN cs : IsFiniteSet(cs[i].ids)
    PROVE  IdCount(ds) \in Nat /\ IdCount(cs) \in Nat /\ IdCount(ds) <= IdCount(cs)
<1>1. PICK h \in Injection(DOMAIN ds, DOMAIN cs) : \A j \in DOMAIN ds : ds[j] = cs[h[j]]
  BY DEF Within
<1> DEFINE D == UNION {{i} \X ds[i].ids : i \in DOMAIN ds}
           C == UNION {{i} \X cs[i].ids : i \in DOMAIN cs}
           f == [x \in D |-> <<h[x[1]], x[2]>>]
<1>2. \A x \in D : x = <<x[1], x[2]>> /\ x[1] \in DOMAIN ds /\ x[2] \in ds[x[1]].ids
  OBVIOUS
<1>3. \A i \in DOMAIN cs : \A y \in cs[i].ids : <<i, y>> \in C
  OBVIOUS
<1>4. \A j \in DOMAIN ds : h[j] \in DOMAIN cs
  BY DEF Injection
<1>5. \A j, k \in DOMAIN ds : h[j] = h[k] => j = k
  BY DEF Injection, IsInjective
<1>6. IsFiniteSet(C)
  BY IdsAreFinite
<1> HIDE DEF C, D
<1>7. f \in Injection(D, C)
  <2>1. \A x \in D : f[x] \in C
    <3> TAKE x \in D
    <3>1. h[x[1]] \in DOMAIN cs /\ x[2] \in cs[h[x[1]]].ids
      BY <1>1, <1>2, <1>4
    <3> QED
      BY <1>3, <3>1
  <2>2. \A x, y \in D : f[x] = f[y] => x = y
    <3> SUFFICES ASSUME NEW x \in D, NEW y \in D, f[x] = f[y]
                 PROVE  x = y
      OBVIOUS
    <3>1. h[x[1]] = h[y[1]] /\ x[2] = y[2]
      OBVIOUS
    <3>2. x[1] = y[1]
      BY <1>2, <1>5, <3>1
    <3> QED
      BY <1>2, <3>1, <3>2
  <2>3. f \in [D -> C] /\ \A x, y \in D : f[x] = f[y] => x = y
    BY <2>1, <2>2
  <2> HIDE DEF f
  <2> QED
    BY <2>3 DEF Injection, IsInjective
<1> HIDE DEF f
<1>8. IsFiniteSet(D) /\ Cardinality(D) <= Cardinality(C)
  BY <1>6, <1>7, FS_Injection
<1>9. Cardinality(D) \in Nat /\ Cardinality(C) \in Nat
  BY <1>6, <1>8, FS_CardinalityType
<1> QED
  BY <1>8, <1>9 DEF IdCount, C, D

\* The result of a filter is finite, since the library is.
LEMMA ResultsAreFinite ==
    ASSUME NEW lib \in Library, NEW f
    PROVE  IsFiniteSet(OrderedIds(f, lib))
<1> DEFINE M == {b \in DOMAIN lib : Matches(f, lib[b])}
           T == {<<a, lib[a].group>> : a \in M}
           g == [a \in M |-> <<a, lib[a].group>>]
<1>1. M \in SUBSET Assets
  BY LibraryRows
<1>2. IsFiniteSet(M)
  BY <1>1, AssetsAssumption, FS_Subset
<1>3. g \in Surjection(M, T)
  BY DEF Surjection
<1>4. OrderedIds(f, lib) = T
  BY DEF OrderedIds
<1> HIDE DEF M, T, g
<1> QED
  BY <1>2, <1>3, <1>4, FS_Surjection

-----------------------------------------------------------------------------
(* The invariant of the cache *)

\* No session and no open snapshot is ahead of the markers it depends on.
Behind ==
    /\ \A i \in DOMAIN sessions :
           sessions[i].dependency <= DependencyRevision(sessions[i].filter)
    /\ \A r \in Requests : phase[r] \in Open =>
           call[r].snap.dependency <= DependencyRevision(call[r].filter)

\* No two sessions share an id or a key.
Apart(cs) ==
    \A i, j \in DOMAIN cs :
        \/ cs[i].id = cs[j].id
        \/ cs[i].filter = cs[j].filter /\ cs[i].dependency = cs[j].dependency
        => i = j

Budget == Len(sessions) <= MaxSessions /\ IdCount(sessions) <= MaxIds

FiniteIds ==
    /\ \A i \in DOMAIN sessions : IsFiniteSet(sessions[i].ids)
    /\ \A r \in Requests : IsFiniteSet(call[r].ids) /\ IsFiniteSet(call[r].snap.ids)

\* The id of a session that is about to be inserted is known to nobody else.
Fresh ==
    \A s \in Starts : phase[s] = "inserting" =>
        /\ \A i \in DOMAIN sessions : sessions[i].id # call[s].session
        /\ \A r \in Requests \ {s} : call[r].session # call[s].session

\* A page reads its snapshot after its session was built, and drops a session
\* that is older.
Older ==
    \A p \in Pages : \A i \in Named(sessions, call[p].session) :
        /\ phase[p] = "snapshot" =>
               sessions[i].dependency <= call[p].snap.dependency
        /\ phase[p] = "dropping" =>
               sessions[i].dependency < call[p].snap.dependency

CacheInv == Behind /\ Apart(sessions) /\ Budget /\ FiniteIds /\ Fresh /\ Older

\* What is within sessions that are apart is apart.
LEMMA WithinApart ==
    ASSUME NEW cs, NEW ds, Within(ds, cs, DOMAIN cs), Apart(cs)
    PROVE  Apart(ds)
BY DEF Within, Apart, Injection, IsInjective

\* The sessions and the calls have their types.
LEMMA CacheTypes ==
    ASSUME TypeOK
    PROVE  /\ sessions \in Seq(Session)
           /\ \A i \in DOMAIN sessions :
                  /\ sessions[i] \in Session
                  /\ sessions[i].id \in Nat
                  /\ sessions[i].filter \in Filter
                  /\ sessions[i].dependency \in Nat
           /\ \A r \in Requests :
                  /\ call[r] \in Call
                  /\ call[r].filter \in Filter
                  /\ call[r].session \in Nat
                  /\ call[r].snap.dependency \in Nat
           /\ \A f \in Filter : DependencyRevision(f) \in Nat
<1>1. sessions \in Seq(Session) /\ call \in [Requests -> Call]
  BY DEF TypeOK
<1>2. \A i \in DOMAIN sessions : sessions[i] \in Session
  BY <1>1, LenProperties, ElementOfSeq
<1>3. \A r \in Requests : call[r] \in Call
  BY <1>1
<1>4. \A f \in Filter : DependencyRevision(f) \in Nat
  BY DependencyRevisionType
<1> QED
  BY <1>1, <1>2, <1>3, <1>4 DEF Session, Call

\* The markers stand still, so the dependency revisions do.
LEMMA StillRevisions ==
    ASSUME UNCHANGED marker
    PROVE  \A f : DependencyRevision(f)' = DependencyRevision(f)
BY DEF DependencyRevision, Dependencies

\* Every id in the cache or with a request was handed out.
LEMMA NamesHandedOut ==
    ASSUME IInv
    PROVE  /\ \A i \in DOMAIN sessions : sessions[i].id \in 1 .. nextId - 1
           /\ \A q \in Requests : call[q].session # 0 => call[q].session \in 1 .. nextId - 1
<1>1. \A n \in Names : n[1] \in 1 .. nextId - 1
  BY DEF IInv, NamesInv
<1>2. \A i \in DOMAIN sessions : <<sessions[i].id, sessions[i].filter>> \in Names
  BY DEF Names
<1>3. \A q \in Requests : call[q].session # 0 => <<call[q].session, call[q].filter>> \in Names
  BY DEF Names
<1> QED
  BY <1>1, <1>2, <1>3

\* A step of request r that inserts no session: the cache loses sessions or
\* moves them, and r keeps its session, forgets it, learns one that others know
\* already or takes the next.
QuietStep(r) ==
    /\ UNCHANGED <<library, revision, marker>>
    /\ \A q \in Requests \ {r} : phase'[q] = phase[q] /\ call'[q] = call[q]
    /\ Within(sessions', sessions, DOMAIN sessions)
    /\ Len(sessions') <= Len(sessions)
    /\ phase'[r] \in Open =>
           call'[r].snap.dependency <= DependencyRevision(call'[r].filter)
    /\ IsFiniteSet(call'[r].ids) /\ IsFiniteSet(call'[r].snap.ids)
    /\ phase'[r] = "inserting" => call'[r].session = nextId
    /\ phase'[r] # "inserting" =>
           \/ call'[r].session = 0
           \/ \E i \in DOMAIN sessions : call'[r].session = sessions[i].id
           \/ \E q \in Requests : phase[q] # "inserting" /\ call'[r].session = call[q].session
    /\ phase'[r] = "snapshot" =>
           call'[r].snap.dependency = DependencyRevision(call'[r].filter)
    /\ phase'[r] = "dropping" =>
           \A i \in Named(sessions', call'[r].session) :
               sessions'[i].dependency < call'[r].snap.dependency

\* Such a step keeps the invariant of the cache.
LEMMA QuietStepKeeps ==
    ASSUME IInv, IInv', CacheInv, NEW r \in Requests, QuietStep(r)
    PROVE  CacheInv'
<1> DEFINE Rev(f) == DependencyRevision(f)
<1>1. \A f : DependencyRevision(f)' = Rev(f)
  BY StillRevisions DEF QuietStep
<1>2. From(sessions', sessions)
  BY DEF QuietStep, Within, Injection, From
<1>3. /\ sessions \in Seq(Session) /\ sessions' \in Seq(Session)
      /\ \A f \in Filter : Rev(f) \in Nat
  BY CacheTypes DEF IInv, TypeOK
<1>4. \A q \in Requests \ {r} : phase'[q] = phase[q] /\ call'[q] = call[q]
  BY DEF QuietStep
<1> HIDE DEF Rev
<1>5. Behind'
  <2>1. \A i \in DOMAIN sessions' : sessions'[i].dependency <= Rev(sessions'[i].filter)
    BY <1>2 DEF From, CacheInv, Behind, Rev
  <2>2. \A q \in Requests : phase'[q] \in Open =>
            call'[q].snap.dependency <= Rev(call'[q].filter)
    <3> TAKE q \in Requests
    <3>1. CASE q = r
      BY <3>1 DEF QuietStep, Rev
    <3>2. CASE q # r
      BY <1>4, <3>2 DEF CacheInv, Behind, Rev
    <3> QED
      BY <3>1, <3>2
  <2> QED
    BY <1>1, <2>1, <2>2 DEF Behind
<1>6. Apart(sessions)'
  <2>1. Apart(sessions')
    BY WithinApart DEF QuietStep, CacheInv
  <2> QED
    BY <2>1 DEF Apart
<1>7. Budget'
  <2>1. /\ IdCount(sessions') \in Nat /\ IdCount(sessions) \in Nat
        /\ IdCount(sessions') <= IdCount(sessions)
    BY <1>3, WithinCount DEF QuietStep, CacheInv, FiniteIds
  <2>2. IdCount(sessions') <= MaxIds
    BY <2>1, BoundsAssumption DEF CacheInv, Budget
  <2>3. Len(sessions') <= MaxSessions
    <3>1. Len(sessions') \in Nat /\ Len(sessions) \in Nat
      BY <1>3, LenProperties
    <3> QED
      BY <3>1, BoundsAssumption DEF QuietStep, CacheInv, Budget
  <2> QED
    BY <2>2, <2>3 DEF Budget, IdCount
<1>8. FiniteIds'
  <2>1. \A i \in DOMAIN sessions' : IsFiniteSet(sessions'[i].ids)
    BY <1>2 DEF From, CacheInv, FiniteIds
  <2>2. \A q \in Requests : IsFiniteSet(call'[q].ids) /\ IsFiniteSet(call'[q].snap.ids)
    BY <1>4 DEF QuietStep, CacheInv, FiniteIds
  <2> QED
    BY <2>1, <2>2 DEF FiniteIds
<1>9. Fresh'
  <2>1. \A i \in DOMAIN sessions : sessions[i].id \in 1 .. nextId - 1
    BY NamesHandedOut
  <2>2. \A q \in Requests : call[q].session # 0 => call[q].session \in 1 .. nextId - 1
    BY NamesHandedOut
  <2>3. nextId \in Nat \ {0}
    BY DEF IInv, TypeOK
  <2> SUFFICES ASSUME NEW s \in Starts, phase'[s] = "inserting"
               PROVE  /\ \A i \in DOMAIN sessions' : sessions'[i].id # call'[s].session
                      /\ \A q \in Requests \ {s} : call'[q].session # call'[s].session
    BY DEF Fresh
  <2>4. s \in Requests
    BY DEF Requests
  <2>5. CASE s = r
    <3>1. call'[s].session = nextId
      BY <2>5 DEF QuietStep
    <3>2. \A i \in DOMAIN sessions' : sessions'[i].id # nextId
      BY <1>2, <2>1, <2>3 DEF From
    <3>3. \A q \in Requests \ {s} : call'[q].session # nextId
      BY <1>4, <2>2, <2>3, <2>5
    <3> QED
      BY <3>1, <3>2, <3>3
  <2>6. CASE s # r
    <3>1. phase[s] = "inserting" /\ call'[s] = call[s] /\ call[s].session # 0
      BY <1>4, <2>4, <2>6 DEF IInv, AnswerInv
    <3>2. /\ \A i \in DOMAIN sessions : sessions[i].id # call[s].session
          /\ \A q \in Requests \ {s} : call[q].session # call[s].session
      BY <3>1 DEF CacheInv, Fresh
    <3>3. \A i \in DOMAIN sessions' : sessions'[i].id # call[s].session
      BY <1>2, <3>2 DEF From
    <3>4. call'[r].session # call[s].session
      <4>1. CASE phase'[r] = "inserting"
        <5>1. call'[r].session = nextId
          BY <4>1 DEF QuietStep
        <5> QED
          BY <2>2, <2>3, <2>4, <3>1, <5>1
      <4>2. CASE phase'[r] # "inserting"
        BY <3>1, <3>2, <4>2 DEF QuietStep
      <4> QED
        BY <4>1, <4>2
    <3>5. \A q \in Requests \ {s} : call'[q].session # call[s].session
      BY <1>4, <3>2, <3>4
    <3> QED
      BY <3>1, <3>3, <3>5
  <2> QED
    BY <2>5, <2>6
<1>10. Older'
  <2> SUFFICES ASSUME NEW p \in Pages, NEW i \in DOMAIN sessions',
                      sessions'[i].id = call'[p].session
               PROVE  /\ phase'[p] = "snapshot" =>
                             sessions'[i].dependency <= call'[p].snap.dependency
                      /\ phase'[p] = "dropping" =>
                             sessions'[i].dependency < call'[p].snap.dependency
    BY DEF Older, Named
  <2>1. p \in Requests
    BY DEF Requests
  <2>2. PICK j \in DOMAIN sessions : sessions'[i] = sessions[j]
    BY <1>2 DEF From
  <2>3. CASE p # r
    <3>1. phase'[p] = phase[p] /\ call'[p] = call[p] /\ j \in Named(sessions, call[p].session)
      BY <1>4, <2>1, <2>2, <2>3 DEF Named
    <3> QED
      BY <2>2, <3>1 DEF CacheInv, Older
  <2>4. CASE p = r
    <3>1. sessions[j].dependency <= Rev(sessions[j].filter)
      BY DEF CacheInv, Behind, Rev
    <3>2. sessions'[i].filter = call'[p].filter
      <4>1. <<sessions'[i].id, sessions'[i].filter>> \in Names'
        BY DEF Names
      <4>2. sessions'[i].id # 0
        BY <4>1 DEF IInv, NamesInv
      <4>3. <<call'[p].session, call'[p].filter>> \in Names'
        BY <2>1, <4>2 DEF Names
      <4> QED
        BY <4>1, <4>3 DEF IInv, NamesInv
    <3>3. i \in Named(sessions', call'[r].session)
      BY <2>4 DEF Named
    <3> QED
      BY <2>2, <2>4, <3>1, <3>2, <3>3 DEF QuietStep, Rev
  <2> QED
    BY <2>3, <2>4
<1> QED
  BY <1>5, <1>6, <1>7, <1>8, <1>9, <1>10 DEF CacheInv

-----------------------------------------------------------------------------
(* The steps of the requests keep the invariant of the cache *)

\* What a request that ends or moves on does to itself alone.
LEMMA OthersStay ==
    ASSUME TypeOK, NEW r \in Requests, NEW to, Goto(r, to),
           \A q \in Requests \ {r} : call'[q] = call[q]
    PROVE  /\ phase'[r] = to
           /\ \A q \in Requests \ {r} : phase'[q] = phase[q] /\ call'[q] = call[q]
BY DEF Goto, TypeOK

\* A step that leaves the cache alone and r with the session it had.
LEMMA StillQuiet ==
    ASSUME IInv, CacheInv, NEW r \in Requests, phase[r] # "inserting",
           UNCHANGED <<library, revision, marker, sessions>>,
           NEW to, to \notin {"inserting", "dropping"}, Goto(r, to),
           \A q \in Requests \ {r} : call'[q] = call[q],
           call'[r].session = call[r].session,
           call'[r].ids = call[r].ids,
           IsFiniteSet(call'[r].snap.ids),
           to \in Open => call'[r].snap.dependency <= DependencyRevision(call'[r].filter),
           to = "snapshot" => call'[r].snap.dependency = DependencyRevision(call'[r].filter)
    PROVE  QuietStep(r)
<1>1. /\ phase'[r] = to
      /\ \A q \in Requests \ {r} : phase'[q] = phase[q] /\ call'[q] = call[q]
  BY OthersStay DEF IInv
<1>2. Within(sessions', sessions, DOMAIN sessions)
  BY WithinItself
<1>3. sessions \in Seq(Session) /\ sessions' = sessions
  BY DEF IInv, TypeOK
<1>4. Len(sessions') <= Len(sessions)
  BY <1>3, LenProperties
<1>5. IsFiniteSet(call'[r].ids)
  BY DEF CacheInv, FiniteIds
<1> QED
  BY <1>1, <1>2, <1>4, <1>5 DEF QuietStep

\* A request that ends knows no session.
LEMMA EndQuiet ==
    ASSUME IInv, CacheInv, NEW r \in Requests,
           NEW answer \in {"superseded", "stale", "failed"}, End(r, answer),
           UNCHANGED <<library, revision, marker>>,
           Within(sessions', sessions, DOMAIN sessions), Len(sessions') <= Len(sessions)
    PROVE  QuietStep(r)
<1>1. call \in [Requests -> Call] /\ call[r] \in Call
  BY DEF IInv, TypeOK
<1>2. /\ call'[r].session = 0 /\ call'[r].ids = {} /\ call'[r].snap.ids = {}
      /\ \A q \in Requests \ {r} : call'[q] = call[q]
  BY <1>1 DEF End, NoCall, NoSnapshot
<1>3. /\ phase'[r] = answer
      /\ \A q \in Requests \ {r} : phase'[q] = phase[q] /\ call'[q] = call[q]
  BY <1>2, OthersStay DEF End, IInv
<1>4. IsFiniteSet({})
  BY FS_EmptySet
<1> QED
  BY <1>2, <1>3, <1>4 DEF QuietStep, Open

\* The steps that look at no cache.
LEMMA PlainStepsAreQuiet ==
    ASSUME IInv, CacheInv, NEW r \in Requests,
           \/ r \in Starts /\ \E f \in Filters : BeginRequest(r, f)
           \/ r \in Pages /\ \E s \in Starts : AskPage(r, s)
           \/ Admit(r) \/ OpenSnapshot(r)
           \/ r \in Starts /\ (Proceed(r) \/ Build(r))
    PROVE  QuietStep(r)
<1>1. /\ call \in [Requests -> Call] /\ call[r] \in Call /\ TypeOK
      /\ sessions \in Seq(Session)
      /\ IsFiniteSet(call[r].ids) /\ IsFiniteSet(call[r].snap.ids)
  BY DEF IInv, TypeOK, CacheInv, FiniteIds
<1>2. \A f \in Filter : DependencyRevision(f) \in Nat
  BY <1>1, CacheTypes
<1>3. Within(sessions, sessions, DOMAIN sessions) /\ Len(sessions) <= Len(sessions)
  <2>1. Len(sessions) \in Nat
    BY <1>1, LenProperties
  <2> QED
    BY <2>1, WithinItself
<1>4. ASSUME NEW f \in Filters, BeginRequest(r, f)
      PROVE  QuietStep(r)
  <2>1. /\ call'[r].session = call[r].session /\ call'[r].ids = call[r].ids
        /\ call'[r].snap = call[r].snap /\ phase[r] = "new"
        /\ \A q \in Requests \ {r} : call'[q] = call[q]
    BY <1>1, <1>4 DEF BeginRequest, Call
  <2> QED
    BY <1>1, <1>4, <2>1, StillQuiet DEF BeginRequest, db, cache, Open
<1>5. ASSUME NEW s \in Starts, AskPage(r, s), r \in Pages
      PROVE  QuietStep(r)
  <2>1. s \in Requests /\ call[s] \in Call /\ phase[s] = "ready"
    BY <1>1, <1>5 DEF AskPage, Requests
  <2>2. /\ call'[r].session = call[s].session /\ call'[r].ids = call[r].ids
        /\ call'[r].snap = call[r].snap
        /\ \A q \in Requests \ {r} : call'[q] = call[q]
    BY <1>1, <1>5, <2>1 DEF AskPage, Call
  <2>3. /\ phase'[r] = "queued"
        /\ \A q \in Requests \ {r} : phase'[q] = phase[q] /\ call'[q] = call[q]
    BY <1>1, <1>5, <2>2, OthersStay DEF AskPage
  <2>4. UNCHANGED <<library, revision, marker, sessions>>
    BY <1>5 DEF AskPage, cache, db
  <2>5. Within(sessions', sessions, DOMAIN sessions) /\ Len(sessions') <= Len(sessions)
    BY <1>3, <2>4
  <2> QED
    BY <1>1, <2>1, <2>2, <2>3, <2>4, <2>5 DEF QuietStep, Open
<1>6. ASSUME Admit(r)
      PROVE  QuietStep(r)
  <2>1. /\ call'[r].session = call[r].session /\ call'[r].ids = call[r].ids
        /\ call'[r].snap = call[r].snap /\ phase[r] = "queued"
        /\ \A q \in Requests \ {r} : call'[q] = call[q]
    BY <1>1, <1>6 DEF Admit, Call
  <2> QED
    BY <1>1, <1>6, <2>1, StillQuiet DEF Admit, db, cache, Open
<1>7. ASSUME OpenSnapshot(r)
      PROVE  QuietStep(r)
  <2>1. call[r].filter \in Filter
    BY <1>1 DEF Call
  <2>2. /\ call'[r].session = call[r].session /\ call'[r].ids = call[r].ids
        /\ call'[r].filter = call[r].filter
        /\ call'[r].snap = Snapshot(call[r].filter) /\ phase[r] = "admitted"
        /\ \A q \in Requests \ {r} : call'[q] = call[q]
    BY <1>1, <1>7 DEF OpenSnapshot, Call
  <2>3. IsFiniteSet(Snapshot(call[r].filter).ids)
    BY <1>1, ResultsAreFinite DEF Snapshot, TypeOK
  <2>4. /\ call'[r].snap.dependency = DependencyRevision(call'[r].filter)
        /\ call'[r].snap.dependency <= DependencyRevision(call'[r].filter)
    BY <1>2, <2>1, <2>2 DEF Snapshot
  <2> QED
    BY <1>7, <2>2, <2>3, <2>4, StillQuiet DEF OpenSnapshot, db, cache
<1>8. ASSUME r \in Starts, Proceed(r)
      PROVE  QuietStep(r)
  <2>1. call' = call /\ phase[r] = "snapshot"
    BY <1>8 DEF Proceed
  <2>2. call[r].snap.dependency <= DependencyRevision(call[r].filter)
    BY <2>1 DEF CacheInv, Behind, Open
  <2> QED
    BY <1>1, <1>8, <2>1, <2>2, StillQuiet DEF Proceed, db, cache
<1>9. ASSUME r \in Starts, Build(r)
      PROVE  QuietStep(r)
  <2>1. /\ call'[r].session = nextId /\ call'[r].ids = call[r].snap.ids
        /\ call'[r].filter = call[r].filter
        /\ call'[r].snap = call[r].snap /\ phase[r] = "building"
        /\ \A q \in Requests \ {r} : call'[q] = call[q]
    BY <1>1, <1>9 DEF Build, Call
  <2>2. /\ phase'[r] = "inserting"
        /\ \A q \in Requests \ {r} : phase'[q] = phase[q] /\ call'[q] = call[q]
    BY <1>1, <1>9, <2>1, OthersStay DEF Build
  <2>3. call[r].snap.dependency <= DependencyRevision(call[r].filter)
    BY <2>1 DEF CacheInv, Behind, Open
  <2>4. UNCHANGED <<library, revision, marker, sessions>>
    BY <1>9 DEF Build, cache, db
  <2>5. Within(sessions', sessions, DOMAIN sessions) /\ Len(sessions') <= Len(sessions)
    BY <1>3, <2>4
  <2> QED
    BY <1>1, <2>1, <2>2, <2>3, <2>4, <2>5 DEF QuietStep
<1> QED
  BY <1>4, <1>5, <1>6, <1>7, <1>8, <1>9

\* A look into the pruned cache loses sessions and moves one to the front.
LEMMA PrunedQuiet ==
    ASSUME IInv, NEW kept \in Pruned
    PROVE  /\ kept \in Seq(Session) /\ From(kept, sessions)
           /\ Within(kept, sessions, DOMAIN sessions) /\ Len(kept) <= Len(sessions)
           /\ \A i \in DOMAIN kept :
                  /\ Within(Promoted(kept, i), sessions, DOMAIN sessions)
                  /\ Len(Promoted(kept, i)) <= Len(sessions)
                  /\ From(Promoted(kept, i), kept)
<1>1. kept \in Seq(Session) /\ From(kept, sessions)
  BY PrunedKeeps DEF IInv
<1>2. sessions \in Seq(Session)
  BY DEF IInv, TypeOK
<1>3. Within(kept, sessions, DOMAIN sessions) /\ Len(kept) <= Len(sessions)
  <2>1. PICK n \in 0 .. Len(sessions) : kept = SubSeq(sessions, 1, n)
    BY DEF Pruned
  <2>2. Len(sessions) \in Nat
    BY <1>2, LenProperties
  <2> QED
    BY <1>2, <2>1, <2>2, PrefixWithin
<1>4. ASSUME NEW i \in DOMAIN kept
      PROVE  /\ Within(Promoted(kept, i), sessions, DOMAIN sessions)
             /\ Len(Promoted(kept, i)) <= Len(sessions)
             /\ From(Promoted(kept, i), kept)
  <2>1. /\ Len(Promoted(kept, i)) = Len(kept)
        /\ Within(Promoted(kept, i), kept, DOMAIN kept)
    BY <1>1, PromotedWithin
  <2>2. Within(Promoted(kept, i), sessions, DOMAIN sessions)
    BY <1>3, <2>1, WithinTransitive
  <2>3. From(Promoted(kept, i), kept)
    BY <1>1, PromotedKeeps
  <2> QED
    BY <1>3, <2>1, <2>2, <2>3
<1> QED
  BY <1>1, <1>3, <1>4

\* A start that finds a session, or none.
LEMMA LookUpQuiet ==
    ASSUME IInv, CacheInv, NEW s \in Starts, LookUp(s)
    PROVE  QuietStep(s)
<1>1. /\ call \in [Requests -> Call] /\ s \in Requests /\ call[s] \in Call /\ TypeOK
      /\ phase[s] = "looking"
      /\ IsFiniteSet(call[s].ids) /\ IsFiniteSet(call[s].snap.ids)
      /\ UNCHANGED <<library, revision, marker>>
  BY DEF IInv, TypeOK, CacheInv, FiniteIds, Requests, LookUp, db
<1>2. call[s].snap.dependency <= DependencyRevision(call[s].filter)
  BY <1>1 DEF CacheInv, Behind, Open
<1>3. PICK kept \in Pruned :
          LET hits == Keyed(kept, call[s].filter, call[s].snap.dependency)
          IN  \/ \E i \in hits :
                     /\ sessions' = Promoted(kept, i)
                     /\ call' = [call EXCEPT ![s].ids = kept[i].ids,
                                             ![s].session = kept[i].id]
                     /\ Goto(s, "answering")
              \/ /\ hits = {}
                 /\ sessions' = kept
                 /\ Goto(s, "building")
                 /\ UNCHANGED call
  BY DEF LookUp
<1>4. ASSUME NEW i \in Keyed(kept, call[s].filter, call[s].snap.dependency),
             sessions' = Promoted(kept, i),
             call' = [call EXCEPT ![s].ids = kept[i].ids, ![s].session = kept[i].id],
             Goto(s, "answering")
      PROVE  QuietStep(s)
  <2>1. i \in DOMAIN kept
    BY DEF Keyed
  <2>2. PICK j \in DOMAIN sessions : kept[i] = sessions[j]
    BY <2>1, PrunedQuiet DEF From
  <2>3. /\ call'[s].session = sessions[j].id /\ call'[s].ids = sessions[j].ids
        /\ call'[s].snap = call[s].snap /\ call'[s].filter = call[s].filter
        /\ \A q \in Requests \ {s} : call'[q] = call[q]
    BY <1>1, <1>4, <2>2 DEF Call
  <2>4. /\ phase'[s] = "answering"
        /\ \A q \in Requests \ {s} : phase'[q] = phase[q] /\ call'[q] = call[q]
    BY <1>1, <1>4, <2>3, OthersStay
  <2>5. IsFiniteSet(sessions[j].ids)
    BY DEF CacheInv, FiniteIds
  <2>6. /\ Within(sessions', sessions, DOMAIN sessions)
        /\ Len(sessions') <= Len(sessions)
    BY <1>4, <2>1, PrunedQuiet
  <2> QED
    BY <1>1, <1>2, <2>3, <2>4, <2>5, <2>6 DEF QuietStep
<1>5. ASSUME sessions' = kept, Goto(s, "building"), UNCHANGED call
      PROVE  QuietStep(s)
  <2>1. /\ phase'[s] = "building"
        /\ \A q \in Requests \ {s} : phase'[q] = phase[q] /\ call'[q] = call[q]
    BY <1>1, <1>5, OthersStay
  <2>2. /\ Within(sessions', sessions, DOMAIN sessions)
        /\ Len(sessions') <= Len(sessions)
    BY <1>5, PrunedQuiet
  <2> QED
    BY <1>1, <1>2, <1>5, <2>1, <2>2 DEF QuietStep
<1> QED
  BY <1>3, <1>4, <1>5

\* A page that finds its session, finds it obsolete, or finds none.
LEMMA LookUpPageQuiet ==
    ASSUME IInv, CacheInv, NEW p \in Pages, LookUpPage(p)
    PROVE  QuietStep(p)
<1>1. /\ call \in [Requests -> Call] /\ p \in Requests /\ call[p] \in Call /\ TypeOK
      /\ phase[p] = "snapshot"
      /\ IsFiniteSet(call[p].ids) /\ IsFiniteSet(call[p].snap.ids)
      /\ UNCHANGED <<library, revision, marker>>
  BY DEF IInv, TypeOK, CacheInv, FiniteIds, Requests, LookUpPage, db
<1>2. call[p].snap.dependency <= DependencyRevision(call[p].filter)
  BY <1>1 DEF CacheInv, Behind, Open
<1>3. PICK kept \in Pruned :
          LET found == Named(kept, call[p].session)
          IN  \/ \E i \in found :
                     /\ sessions' = Promoted(kept, i)
                     /\ IF kept[i].dependency = call[p].snap.dependency
                        THEN /\ call' = [call EXCEPT ![p].ids = kept[i].ids]
                             /\ Goto(p, "ready")
                        ELSE Goto(p, "dropping") /\ UNCHANGED call
              \/ /\ found = {}
                 /\ sessions' = kept
                 /\ End(p, "stale")
  BY DEF LookUpPage
<1>4. ASSUME NEW i \in Named(kept, call[p].session),
             sessions' = Promoted(kept, i),
             call' = [call EXCEPT ![p].ids = kept[i].ids], Goto(p, "ready")
      PROVE  QuietStep(p)
  <2>1. i \in DOMAIN kept
    BY DEF Named
  <2>2. PICK j \in DOMAIN sessions : kept[i] = sessions[j]
    BY <2>1, PrunedQuiet DEF From
  <2>3. /\ call'[p].session = call[p].session /\ call'[p].ids = sessions[j].ids
        /\ call'[p].snap = call[p].snap
        /\ \A q \in Requests \ {p} : call'[q] = call[q]
    BY <1>1, <1>4, <2>2 DEF Call
  <2>4. /\ phase'[p] = "ready"
        /\ \A q \in Requests \ {p} : phase'[q] = phase[q] /\ call'[q] = call[q]
    BY <1>1, <1>4, <2>3, OthersStay
  <2>5. IsFiniteSet(sessions[j].ids)
    BY DEF CacheInv, FiniteIds
  <2>6. /\ Within(sessions', sessions, DOMAIN sessions)
        /\ Len(sessions') <= Len(sessions)
    BY <1>4, <2>1, PrunedQuiet
  <2> QED
    BY <1>1, <2>3, <2>4, <2>5, <2>6 DEF QuietStep, Open
<1>5. ASSUME NEW i \in Named(kept, call[p].session),
             kept[i].dependency # call[p].snap.dependency,
             sessions' = Promoted(kept, i), Goto(p, "dropping"), UNCHANGED call
      PROVE  QuietStep(p)
  <2>1. i \in DOMAIN kept /\ kept[i].id = call[p].session
    BY DEF Named
  <2>2. /\ phase'[p] = "dropping" /\ call'[p] = call[p]
        /\ \A q \in Requests \ {p} : phase'[q] = phase[q] /\ call'[q] = call[q]
    BY <1>1, <1>5, OthersStay
  <2>3. /\ Within(sessions', sessions, DOMAIN sessions)
        /\ Len(sessions') <= Len(sessions)
        /\ From(sessions', kept) /\ From(kept, sessions)
    BY <1>5, <2>1, PrunedQuiet
  <2>4. ASSUME NEW k \in DOMAIN sessions', sessions'[k].id = call[p].session
        PROVE  sessions'[k].dependency < call[p].snap.dependency
    <3>1. PICK j \in DOMAIN sessions : kept[i] = sessions[j]
      BY <2>1, <2>3 DEF From
    <3>2. PICK m \in DOMAIN sessions : sessions'[k] = sessions[m]
      BY <2>3 DEF From
    <3>3. m = j
      BY <2>1, <2>4, <3>1, <3>2 DEF CacheInv, Apart
    <3>4. sessions[j].dependency <= call[p].snap.dependency
      BY <1>1, <2>1, <3>1 DEF CacheInv, Older, Named
    <3>5. sessions[j].dependency # call[p].snap.dependency
      BY <1>5, <3>1
    <3>6. sessions[j].dependency \in Nat /\ call[p].snap.dependency \in Nat
      BY <1>1, CacheTypes
    <3> QED
      BY <3>2, <3>3, <3>4, <3>5, <3>6
  <2>5. \A k \in Named(sessions', call'[p].session) :
            sessions'[k].dependency < call'[p].snap.dependency
    BY <2>2, <2>4 DEF Named
  <2> QED
    BY <1>1, <1>2, <2>2, <2>3, <2>5 DEF QuietStep
<1>6. ASSUME sessions' = kept, End(p, "stale")
      PROVE  QuietStep(p)
  BY <1>1, <1>6, PrunedQuiet, EndQuiet
<1> QED
  BY <1>3, <1>4, <1>5, <1>6

\* The steps that end a request.
LEMMA EndingIsQuiet ==
    ASSUME IInv, CacheInv, NEW r \in Requests,
           \/ Fail(r) \/ DropSession(r)
           \/ r \in Starts /\ (Supersede(r) \/ RefuseSession(r) \/ AnswerStart(r))
    PROVE  QuietStep(r)
<1>1. sessions \in Seq(Session) /\ Len(sessions) \in Nat
  <2>1. sessions \in Seq(Session)
    BY DEF IInv, TypeOK
  <2> QED
    BY <2>1, LenProperties
<1>2. Within(sessions, sessions, DOMAIN sessions)
  BY WithinItself
<1>3. CASE UNCHANGED <<db, cache>> /\ \E answer \in {"superseded", "failed"} : End(r, answer)
  <2>1. UNCHANGED <<library, revision, marker, sessions>>
    BY <1>3 DEF db, cache
  <2>2. Within(sessions', sessions, DOMAIN sessions) /\ Len(sessions') <= Len(sessions)
    BY <1>1, <1>2, <2>1
  <2>3. PICK answer \in {"superseded", "failed"} : End(r, answer)
    BY <1>3
  <2> QED
    BY <2>1, <2>2, <2>3, EndQuiet
<1>4. CASE DropSession(r)
  <2>1. sessions' \in Without(sessions, Named(sessions, call[r].session))
    BY <1>4 DEF DropSession
  <2>2. Within(sessions', sessions, DOMAIN sessions)
    BY <1>1, <2>1, NamedType, WithoutWithin
  <2>3. Len(sessions') <= Len(sessions)
    <3>1. \/ sessions' = sessions
          \/ \E i \in Named(sessions, call[r].session) : sessions' = RemoveAt(sessions, i)
      BY <2>1 DEF Without
    <3>2. \A i \in DOMAIN sessions : Len(RemoveAt(sessions, i)) = Len(sessions) - 1
      BY <1>1, RemoveWithin
    <3> QED
      BY <1>1, <3>1, <3>2 DEF Named
  <2>4. End(r, "stale") /\ UNCHANGED <<library, revision, marker>>
    BY <1>4 DEF DropSession, db
  <2> QED
    BY <2>2, <2>3, <2>4, EndQuiet
<1>5. CASE r \in Starts /\ AnswerStart(r) /\ Latest(r)
  <2>1. phase[r] = "answering" /\ Goto(r, "ready") /\ call' = call
        /\ UNCHANGED <<library, revision, marker, sessions>>
    BY <1>5 DEF AnswerStart, db, cache
  <2>2. IsFiniteSet(call[r].snap.ids)
    BY DEF CacheInv, FiniteIds
  <2> QED
    BY <2>1, <2>2, StillQuiet DEF Open
<1>6. CASE r \in Starts /\ AnswerStart(r) /\ ~Latest(r)
  BY <1>3, <1>6 DEF AnswerStart
<1>7. CASE Fail(r)
  BY <1>3, <1>7 DEF Fail
<1>8. CASE r \in Starts /\ Supersede(r)
  BY <1>3, <1>8 DEF Supersede
<1>9. CASE r \in Starts /\ RefuseSession(r)
  BY <1>3, <1>9 DEF RefuseSession
<1> QED
  BY <1>4, <1>5, <1>6, <1>7, <1>8, <1>9

\* insert_session keeps the invariant of the cache: the new session replaces the
\* one with its key and evicts what does not fit.
LEMMA InsertKeeps ==
    ASSUME IInv, IInv', CacheInv, NEW s \in Starts, InsertSession(s)
    PROVE  CacheInv'
<1> DEFINE new == [id |-> call[s].session, filter |-> call[s].filter,
                   dependency |-> call[s].snap.dependency, ids |-> call[s].ids]
<1>1. /\ s \in Requests /\ phase[s] = "inserting" /\ TypeOK
      /\ UNCHANGED <<library, revision, marker, call>>
      /\ phase' = [phase EXCEPT ![s] = "answering"]
  BY DEF InsertSession, Requests, IInv, Goto, db
<1>2. PICK kept \in Pruned :
          \E others \in Without(kept, Keyed(kept, new.filter, new.dependency)) :
              sessions' \in Fitting(<<new>> \o others)
  BY DEF InsertSession
<1>3. PICK others \in Without(kept, Keyed(kept, new.filter, new.dependency)) :
          sessions' \in Fitting(<<new>> \o others)
  BY <1>2
<1>4. /\ new.id = call[s].session /\ new.filter = call[s].filter
      /\ new.dependency = call[s].snap.dependency /\ new.ids = call[s].ids
      /\ new \in Session
  <2>1. call[s] \in Call
    BY <1>1 DEF TypeOK
  <2> QED
    BY <2>1 DEF Call, Session
<1> HIDE DEF new
<1>5. /\ kept \in Seq(Session) /\ From(kept, sessions)
      /\ Within(kept, sessions, DOMAIN sessions)
  BY PrunedQuiet
<1>6. Apart(kept)
  BY <1>5, WithinApart DEF CacheInv
<1>7. /\ others \in Seq(Session) /\ From(others, kept)
      /\ Within(others, kept, DOMAIN kept)
      /\ \A i : Keyed(kept, new.filter, new.dependency) = {i}
                    => Within(others, kept, DOMAIN kept \ {i})
  BY <1>3, <1>5, NamedType, WithoutKeeps, WithoutWithin
<1>8. Apart(others)
  BY <1>6, <1>7, WithinApart
<1>9. \A j \in DOMAIN others : others[j].id # new.id
  BY <1>1, <1>4, <1>5, <1>7 DEF From, CacheInv, Fresh
<1>10. ASSUME NEW j \in DOMAIN others, others[j].filter = new.filter,
              others[j].dependency = new.dependency
       PROVE  FALSE
  <2>1. PICK i \in DOMAIN kept : others[j] = kept[i]
    BY <1>7 DEF From
  <2>2. Keyed(kept, new.filter, new.dependency) = {i}
    BY <1>6, <1>10, <2>1 DEF Keyed, Apart
  <2>3. PICK h \in Injection(DOMAIN others, DOMAIN kept \ {i}) :
            \A k \in DOMAIN others : others[k] = kept[h[k]]
    BY <1>7, <2>2 DEF Within
  <2>4. h[j] \in DOMAIN kept /\ h[j] # i /\ others[j] = kept[h[j]]
    BY <2>3 DEF Injection
  <2> QED
    BY <1>6, <2>1, <2>4 DEF Apart
<1> DEFINE all == <<new>> \o others
<1>11. /\ all \in Seq(Session) /\ Len(others) \in Nat /\ DOMAIN others = 1 .. Len(others)
       /\ DOMAIN all = 1 .. 1 + Len(others)
       /\ all[1] = new
       /\ \A j \in 2 .. 1 + Len(others) : j - 1 \in DOMAIN others /\ all[j] = others[j - 1]
  <2> DEFINE d == <<new>>
  <2>1. d \in Seq(Session) /\ Len(d) = 1 /\ d[1] = new
    BY <1>4
  <2>2. all = d \o others
    OBVIOUS
  <2> HIDE DEF d, all
  <2>3. /\ all \in Seq(Session)
        /\ Len(all) = Len(d) + Len(others)
        /\ \A j \in 1 .. Len(d) + Len(others) :
               all[j] = IF j <= Len(d) THEN d[j] ELSE others[j - Len(d)]
    BY <1>7, <2>1, <2>2, ConcatProperties
  <2>4. Len(others) \in Nat /\ DOMAIN others = 1 .. Len(others) /\ DOMAIN all = 1 .. Len(all)
    BY <1>7, <2>3, LenProperties
  <2>5. \A j \in 2 .. 1 + Len(others) :
            j \in 1 .. Len(d) + Len(others) /\ ~(j <= Len(d)) /\ j - 1 \in 1 .. Len(others)
    BY <2>1, <2>4
  <2>6. 1 \in 1 .. Len(d) + Len(others) /\ 1 <= Len(d)
    BY <2>1, <2>4
  <2>7. all[1] = new
    BY <2>1, <2>3, <2>6
  <2>8. \A j \in 2 .. 1 + Len(others) : j - 1 \in DOMAIN others /\ all[j] = others[j - 1]
    BY <2>1, <2>3, <2>4, <2>5
  <2> QED
    BY <2>1, <2>3, <2>4, <2>7, <2>8
<1>12. sessions' \in Fitting(all)
  BY <1>3
<1> HIDE DEF all
<1>13. Apart(all)
  <2> SUFFICES ASSUME NEW i \in DOMAIN all, NEW j \in DOMAIN all,
                      \/ all[i].id = all[j].id
                      \/ all[i].filter = all[j].filter /\ all[i].dependency = all[j].dependency
               PROVE  i = j
    BY DEF Apart
  <2>1. i \in 1 .. 1 + Len(others) /\ j \in 1 .. 1 + Len(others)
    BY <1>11
  <2>2. CASE i = 1 /\ j # 1
    <3>1. j - 1 \in DOMAIN others /\ all[j] = others[j - 1]
      BY <1>11, <2>1, <2>2
    <3> QED
      BY <1>9, <1>10, <1>11, <2>2, <3>1
  <2>3. CASE i # 1 /\ j = 1
    <3>1. i - 1 \in DOMAIN others /\ all[i] = others[i - 1]
      BY <1>11, <2>1, <2>3
    <3> QED
      BY <1>9, <1>10, <1>11, <2>3, <3>1
  <2>4. CASE i # 1 /\ j # 1
    <3>1. /\ i - 1 \in DOMAIN others /\ all[i] = others[i - 1]
          /\ j - 1 \in DOMAIN others /\ all[j] = others[j - 1]
      BY <1>11, <2>1, <2>4
    <3>2. i - 1 = j - 1
      BY <1>8, <3>1 DEF Apart
    <3> QED
      BY <1>11, <2>1, <3>2
  <2> QED
    BY <2>2, <2>3, <2>4
<1>14. PICK n \in 0 .. Len(all) :
           /\ sessions' = SubSeq(all, 1, n)
           /\ n <= MaxSessions /\ IdCount(SubSeq(all, 1, n)) <= MaxIds
  BY <1>12 DEF Fitting
<1>15. Len(sessions') = n /\ Within(sessions', all, DOMAIN all)
  BY <1>11, <1>14, PrefixWithin
<1>16. Apart(sessions)' /\ Budget'
  <2>1. Apart(sessions')
    BY <1>13, <1>15, WithinApart
  <2>2. Len(sessions') <= MaxSessions /\ IdCount(sessions') <= MaxIds
    BY <1>14, <1>15
  <2> QED
    BY <2>1, <2>2 DEF Apart, Budget, IdCount
<1>17. \A i \in DOMAIN sessions' :
           sessions'[i] = new \/ \E j \in DOMAIN sessions : sessions'[i] = sessions[j]
  <2> TAKE i \in DOMAIN sessions'
  <2>1. PICK k \in DOMAIN all : sessions'[i] = all[k]
    BY <1>15 DEF Within, Injection
  <2>2. CASE k = 1
    BY <1>11, <2>1, <2>2
  <2>3. CASE k # 1
    <3>1. k - 1 \in DOMAIN others /\ all[k] = others[k - 1]
      BY <1>11, <2>3
    <3> QED
      BY <1>5, <1>7, <2>1, <3>1 DEF From
  <2> QED
    BY <2>2, <2>3
<1>18. \A f : DependencyRevision(f)' = DependencyRevision(f)
  BY <1>1, StillRevisions
<1>19. \A q \in Requests : call'[q] = call[q] /\ (q # s => phase'[q] = phase[q])
  BY <1>1 DEF TypeOK
<1>20. phase'[s] = "answering"
  BY <1>1 DEF TypeOK
<1>21. call[s].snap.dependency <= DependencyRevision(call[s].filter)
  BY <1>1 DEF CacheInv, Behind, Open
<1>22. Behind'
  <2> DEFINE Rev(f) == DependencyRevision(f)
  <2>1. \A i \in DOMAIN sessions' : sessions'[i].dependency <= Rev(sessions'[i].filter)
    BY <1>4, <1>17, <1>21 DEF CacheInv, Behind
  <2>2. \A q \in Requests : phase'[q] \in Open =>
            call'[q].snap.dependency <= Rev(call'[q].filter)
    BY <1>19, <1>21 DEF CacheInv, Behind
  <2> HIDE DEF Rev
  <2>3. \A f : DependencyRevision(f)' = Rev(f)
    BY <1>18 DEF Rev
  <2> QED
    BY <2>1, <2>2, <2>3 DEF Behind
<1>23. FiniteIds'
  BY <1>4, <1>17, <1>19, <1>1 DEF CacheInv, FiniteIds
<1>24. Fresh'
  <2> SUFFICES ASSUME NEW t \in Starts, phase'[t] = "inserting"
               PROVE  /\ \A i \in DOMAIN sessions' : sessions'[i].id # call'[t].session
                      /\ \A q \in Requests \ {t} : call'[q].session # call'[t].session
    BY DEF Fresh
  <2>1. t \in Requests /\ t # s /\ phase[t] = "inserting" /\ call'[t] = call[t]
    BY <1>19, <1>20 DEF Requests
  <2>2. /\ \A i \in DOMAIN sessions : sessions[i].id # call[t].session
        /\ \A q \in Requests \ {t} : call[q].session # call[t].session
    BY <2>1 DEF CacheInv, Fresh
  <2> QED
    BY <1>1, <1>4, <1>17, <1>19, <2>1, <2>2
<1>25. Older'
  <2> SUFFICES ASSUME NEW p \in Pages, NEW i \in DOMAIN sessions',
                      sessions'[i].id = call'[p].session
               PROVE  /\ phase'[p] = "snapshot" =>
                             sessions'[i].dependency <= call'[p].snap.dependency
                      /\ phase'[p] = "dropping" =>
                             sessions'[i].dependency < call'[p].snap.dependency
    BY DEF Older, Named
  <2>1. p \in Requests /\ p # s
    BY RequestsAssumption DEF Requests
  <2>2. phase'[p] = phase[p] /\ call'[p] = call[p]
    BY <1>19, <2>1
  <2>3. sessions'[i] # new
    BY <1>1, <1>4, <2>1, <2>2 DEF CacheInv, Fresh
  <2>4. PICK j \in DOMAIN sessions : sessions'[i] = sessions[j]
    BY <1>17, <2>3
  <2>5. j \in Named(sessions, call[p].session)
    BY <2>2, <2>4 DEF Named
  <2> QED
    BY <2>2, <2>4, <2>5 DEF CacheInv, Older
<1> QED
  BY <1>16, <1>22, <1>23, <1>24, <1>25 DEF CacheInv

-----------------------------------------------------------------------------
(* The steps of the others keep the invariant of the cache *)

\* A dependency revision grows with the markers.
LEMMA RevisionsGrow ==
    ASSUME TypeOK, NEW n \in Nat, marker' \in [Markers -> 0 .. n],
           \A k \in Markers : marker[k] <= marker'[k], NEW f \in Filter
    PROVE  /\ DependencyRevision(f) \in Nat /\ DependencyRevision(f)' \in Nat
           /\ DependencyRevision(f) <= DependencyRevision(f)'
<1> DEFINE S == {marker[k] : k \in Dependencies(f)}
           T == {marker'[k] : k \in Dependencies(f)}
<1>1. revision \in Nat /\ marker \in [Markers -> 0 .. revision]
  BY BoundsAssumption DEF TypeOK
<1>2. Dependencies(f) \subseteq Markers /\ "general" \in Dependencies(f)
  BY DEF Dependencies, Markers, FixedMarkers, Filter
<1>3. S \in SUBSET (0 .. revision) /\ S # {}
  BY <1>1, <1>2
<1>4. Max(S) \in S
  BY <1>1, <1>3, MaxIsGreatest
<1>5. PICK k \in Dependencies(f) : Max(S) = marker[k]
  BY <1>4
<1>6. Max(T) \in 0 .. n /\ marker'[k] <= Max(T)
  BY DependencyBounds
<1>7. DependencyRevision(f) = Max(S) /\ DependencyRevision(f)' = Max(T)
  BY DEF DependencyRevision, Dependencies
<1>8. marker[k] \in Nat /\ marker'[k] \in Nat /\ marker[k] <= marker'[k]
  BY <1>1, <1>2, <1>5
<1> HIDE DEF S, T
<1> QED
  BY <1>5, <1>6, <1>7, <1>8

\* A write moves markers ahead, and what is cached falls further behind.
LEMMA WriteKeeps ==
    ASSUME IInv, CacheInv, NEW lib \in Library, NEW names, Write(lib, names), TypeOK'
    PROVE  CacheInv'
<1>1. UNCHANGED <<sessions, phase, call>> /\ TypeOK
  BY DEF Write, cache, IInv
<1>2. /\ revision' \in Nat /\ marker' \in [Markers -> 0 .. revision']
      /\ revision \in Nat /\ marker \in [Markers -> 0 .. revision]
  BY <1>1, BoundsAssumption DEF TypeOK
<1>3. \A k \in Markers : marker[k] <= marker'[k]
  BY <1>2 DEF Write, BumpScoped
<1>4. \A f \in Filter : /\ DependencyRevision(f) \in Nat /\ DependencyRevision(f)' \in Nat
                        /\ DependencyRevision(f) <= DependencyRevision(f)'
  BY <1>1, <1>2, <1>3, RevisionsGrow
<1>5. Behind'
  <2>1. ASSUME NEW i \in DOMAIN sessions
        PROVE  sessions[i].dependency <= DependencyRevision(sessions[i].filter)'
    <3>1. PICK f \in Filter : f = sessions[i].filter
      BY <1>1, CacheTypes
    <3>2. sessions[i].dependency \in Nat /\ sessions[i].dependency <= DependencyRevision(f)
      BY <1>1, <3>1, CacheTypes DEF CacheInv, Behind
    <3>3. DependencyRevision(f)' = DependencyRevision(sessions[i].filter)'
      BY <1>1, <3>1 DEF DependencyRevision, Dependencies
    <3> QED
      BY <1>4, <3>2, <3>3
  <2>2. ASSUME NEW r \in Requests, phase[r] \in Open
        PROVE  call[r].snap.dependency <= DependencyRevision(call[r].filter)'
    <3>1. PICK f \in Filter : f = call[r].filter
      BY <1>1, CacheTypes
    <3>2. call[r].snap.dependency \in Nat /\ call[r].snap.dependency <= DependencyRevision(f)
      BY <1>1, <2>2, <3>1, CacheTypes DEF CacheInv, Behind
    <3>3. DependencyRevision(f)' = DependencyRevision(call[r].filter)'
      BY <1>1, <3>1 DEF DependencyRevision, Dependencies
    <3> QED
      BY <1>4, <3>2, <3>3
  <2> QED
    BY <1>1, <2>1, <2>2 DEF Behind
<1> QED
  BY <1>1, <1>5 DEF CacheInv, Apart, Budget, IdCount, FiniteIds, Fresh, Older, Named

\* What moves no marker, no session and no request keeps the invariant.
LEMMA StillKeeps ==
    ASSUME CacheInv, UNCHANGED <<marker, sessions, phase, call>>
    PROVE  CacheInv'
<1>1. \A f : DependencyRevision(f)' = DependencyRevision(f)
  BY StillRevisions
<1>2. Behind'
  <2> DEFINE Rev(f) == DependencyRevision(f)
  <2>1. /\ \A i \in DOMAIN sessions : sessions[i].dependency <= Rev(sessions[i].filter)
        /\ \A r \in Requests : phase[r] \in Open =>
               call[r].snap.dependency <= Rev(call[r].filter)
    BY DEF CacheInv, Behind
  <2> HIDE DEF Rev
  <2>2. \A f : DependencyRevision(f)' = Rev(f)
    BY <1>1 DEF Rev
  <2> QED
    BY <2>1, <2>2 DEF Behind
<1> QED
  BY <1>2 DEF CacheInv, Apart, Budget, IdCount, FiniteIds, Fresh, Older, Named

\* An empty cache while nobody is admitted has nothing to violate.
LEMMA EmptyKeeps ==
    ASSUME CacheInv, sessions' = <<>>, UNCHANGED <<phase, call>>,
           \A r \in Requests : ~Admitted(r)
    PROVE  CacheInv'
<1>1. DOMAIN sessions' = {} /\ Len(sessions') = 0
  BY EmptySeq, LenProperties
<1>2. IdCount(sessions') = 0
  <2>1. UNION {{i} \X sessions'[i].ids : i \in DOMAIN sessions'} = {}
    BY <1>1
  <2> QED
    BY <2>1, FS_EmptySet DEF IdCount
<1>3. Budget'
  <2>1. IdCount(sessions)' = 0
    BY <1>2 DEF IdCount
  <2> QED
    BY <1>1, <2>1, BoundsAssumption DEF Budget
<1>4. \A r \in Requests : phase'[r] \notin Open
  BY DEF Admitted, Open
<1>5. Behind' /\ Apart(sessions)' /\ FiniteIds'
  BY <1>1, <1>4 DEF Behind, Apart, CacheInv, FiniteIds
<1>6. Fresh' /\ Older'
  BY <1>1, <1>4 DEF Fresh, Older, Named, Requests, Open
<1> QED
  BY <1>3, <1>5, <1>6 DEF CacheInv

\* So is the cache at the start.
LEMMA InitCache == Init => CacheInv
<1> SUFFICES ASSUME Init
             PROVE  CacheInv
  OBVIOUS
<1>1. DOMAIN sessions = {} /\ Len(sessions) = 0
  BY EmptySeq, LenProperties DEF Init
<1>2. IdCount(sessions) = 0
  <2>1. UNION {{i} \X sessions[i].ids : i \in DOMAIN sessions} = {}
    BY <1>1
  <2> QED
    BY <2>1, FS_EmptySet DEF IdCount
<1>3. Budget
  BY <1>1, <1>2, BoundsAssumption DEF Budget
<1>4. \A r \in Requests : phase[r] = "new" /\ call[r] = NoCall
  BY DEF Init
<1>5. Behind /\ Apart(sessions)
  BY <1>1, <1>4 DEF Behind, Apart, Open
<1>6. FiniteIds
  <2>1. NoCall.ids = {} /\ NoCall.snap.ids = {}
    BY DEF NoCall, NoSnapshot
  <2>2. IsFiniteSet({})
    BY FS_EmptySet
  <2> QED
    BY <1>1, <1>4, <2>1, <2>2 DEF FiniteIds
<1>7. Fresh /\ Older
  BY <1>1, <1>4 DEF Fresh, Older, Named, Requests
<1> QED
  BY <1>3, <1>5, <1>6, <1>7 DEF CacheInv

\* Every step keeps the invariant of the cache.
LEMMA NextCache == IInv /\ CacheInv /\ [Next]_vars => CacheInv'
<1> SUFFICES ASSUME IInv, CacheInv, [Next]_vars
             PROVE  CacheInv'
  OBVIOUS
<1>1. IInv'
  BY NextIInv
<1>2. CASE Writer
  <2>1. \E lib, names : Sound(lib, names) /\ Write(lib, names)
    BY <1>2, WriterIsSound DEF IInv
  <2> QED
    BY <1>1, <2>1, WriteKeeps DEF IInv, Sound
<1>3. CASE Maintenance
  <2>1. CASE Own \/ \E lib \in Libraries, restored \in 1 .. MaxRevision - 1 :
                        Restore(lib, restored)
    <3>1. /\ sessions' = <<>> /\ UNCHANGED <<phase, call>>
          /\ \A r \in Requests : ~Admitted(r)
      BY <2>1 DEF Own, Restore, Cleared, IInv, GateInv, Owned
    <3> QED
      BY <3>1, EmptyKeeps
  <2>2. CASE CloseAdmission \/ OpenAdmission
    <3>1. UNCHANGED <<marker, sessions, phase, call>>
      BY <2>2 DEF CloseAdmission, OpenAdmission, db, cache
    <3> QED
      BY <3>1, StillKeeps
  <2> QED
    BY <1>3, <2>1, <2>2 DEF Maintenance
<1>4. ASSUME NEW r \in Requests, Admit(r) \/ Fail(r) \/ OpenSnapshot(r)
      PROVE  CacheInv'
  BY <1>1, <1>4, PlainStepsAreQuiet, EndingIsQuiet, QuietStepKeeps
<1>5. ASSUME NEW s \in Starts, StartStep(s)
      PROVE  CacheInv'
  <2>1. s \in Requests
    BY DEF Requests
  <2>2. CASE InsertSession(s)
    BY <1>1, <2>2, InsertKeeps
  <2>3. CASE ~InsertSession(s)
    <3>1. QuietStep(s)
      BY <1>5, <2>1, <2>3, PlainStepsAreQuiet, EndingIsQuiet, LookUpQuiet DEF StartStep
    <3> QED
      BY <1>1, <2>1, <3>1, QuietStepKeeps
  <2> QED
    BY <2>2, <2>3
<1>6. ASSUME NEW p \in Pages, PageStep(p)
      PROVE  CacheInv'
  <2>1. p \in Requests
    BY DEF Requests
  <2>2. QuietStep(p)
    BY <1>6, <2>1, PlainStepsAreQuiet, EndingIsQuiet, LookUpPageQuiet DEF PageStep
  <2> QED
    BY <1>1, <2>1, <2>2, QuietStepKeeps
<1>7. CASE UNCHANGED vars
  <2>1. UNCHANGED <<marker, sessions, phase, call>>
    BY <1>7 DEF vars
  <2> QED
    BY <2>1, StillKeeps
<1> QED
  BY <1>2, <1>3, <1>4, <1>5, <1>6, <1>7 DEF Next

\* The invariant of the cache holds in every state.
THEOREM CacheInvariant == Spec => [](IInv /\ CacheInv)
<1>1. Init => IInv /\ CacheInv
  BY InitIInv, InitCache
<1>2. IInv /\ CacheInv /\ [Next]_vars => IInv' /\ CacheInv'
  BY NextIInv, NextCache
<1> QED
  BY <1>1, <1>2, PTL DEF Spec

\* A page drops its session only if a writer has moved one of the session's
\* markers since it was built, although the page read its snapshot, looked into
\* the cache and drops in three steps.
THEOREM DropsOnlyObsolete == Spec => []DroppedIsObsolete
<1>1. IInv /\ CacheInv => DroppedIsObsolete
  <2> SUFFICES ASSUME IInv, CacheInv, NEW p \in Pages, phase[p] = "dropping",
                      NEW i \in Named(sessions, call[p].session)
               PROVE  sessions[i].dependency
                          < Max({marker[k] : k \in Dependencies(sessions[i].filter)})
    BY DEF DroppedIsObsolete
  <2>1. p \in Requests /\ i \in DOMAIN sessions /\ sessions[i].id = call[p].session
    BY DEF Requests, Named
  <2>2. sessions[i].filter = call[p].filter
    <3>1. <<sessions[i].id, sessions[i].filter>> \in Names
      BY <2>1 DEF Names
    <3>2. sessions[i].id # 0
      BY <3>1 DEF IInv, NamesInv
    <3>3. <<call[p].session, call[p].filter>> \in Names
      BY <2>1, <3>2 DEF Names
    <3> QED
      BY <2>1, <3>1, <3>3 DEF IInv, NamesInv
  <2>3. sessions[i].dependency < call[p].snap.dependency
    BY DEF CacheInv, Older
  <2>4. call[p].snap.dependency <= DependencyRevision(sessions[i].filter)
    BY <2>1, <2>2 DEF CacheInv, Behind, Open
  <2>5. /\ sessions[i].dependency \in Nat /\ call[p].snap.dependency \in Nat
        /\ DependencyRevision(sessions[i].filter) \in Nat
    BY <2>1, CacheTypes DEF IInv
  <2>6. sessions[i].dependency < DependencyRevision(sessions[i].filter)
    BY <2>3, <2>4, <2>5
  <2> QED
    BY <2>6 DEF DependencyRevision
<1> QED
  BY <1>1, CacheInvariant, PTL

\* The cache never holds more sessions or ids than it may, and no two sessions
\* with one id or one key, whatever is inserted, moved, expired or evicted.
THEOREM CacheAlwaysWithinBudget == Spec => []CacheWithinBudget
<1>1. CacheInv => CacheWithinBudget
  BY DEF CacheInv, Budget, Apart, CacheWithinBudget, Named, Keyed
<1> QED
  BY <1>1, CacheInvariant, PTL
=============================================================================

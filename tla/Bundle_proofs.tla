---------------------------- MODULE Bundle_proofs ----------------------------
(* Proofs about the library database and its bundles: LibraryTags,         *)
(* LibrarySchema and BundleTransfer, for every library an earlier release  *)
(* may have left, every archive, machine and number of interruptions; and  *)
(* at the end RestoreSwap, the swap beneath an import.                     *)
(*                                                                         *)
(* The inductive invariant is StartInv with TransferInv.  StartInv says    *)
(* what the statements of init_schema before the next one have brought,    *)
(* and that the version the library records vouches for the columns        *)
(* derived under it: so an interrupted start leaves a library the next     *)
(* start can take up.  Of the rows of tags it says that only those nobody  *)
(* used when the library was found (Leftovers) are still spelled otherwise *)
(* once the version vouches for them.  TransferInv says what an export under way carries   *)
(* and what is found on the disk.                                          *)
EXTENDS BundleTransfer, RestoreSwap, FiniteSetTheorems, WellFoundedInduction, TLAPS

-----------------------------------------------------------------------------
(* Text.                                                                   *)

Fold(text) == lower(trim(text))
Canonic(text) == canonical_key(trim(text))
Pieces(text) == normalize_tags(parse_legacy_tags(text))

\* The conversions leave a text alone that no table lists.
LEMMA Laws == ASSUME NEW text PROVE LawsHold(text)
<1>1. CASE text \in DOMAIN LowerTable \cup DOMAIN CanonicalTable \cup DOMAIN TrimTable
                      \cup DOMAIN TokenTable
  BY <1>1, TextAssumption
<1>2. CASE ~(text \in DOMAIN LowerTable \cup DOMAIN CanonicalTable \cup DOMAIN TrimTable
                      \cup DOMAIN TokenTable)
  <2>1. lower(text) = text /\ trim(text) = text /\ canonical_key(text) = text
    BY <1>2 DEF lower, trim, canonical_key, Apply
  <2>2. parse_legacy_tags(text) = {text}
    BY <1>2 DEF parse_legacy_tags
  <2>3. IsFiniteSet(parse_legacy_tags(text))
    BY <2>2, FS_Singleton
  <2> QED
    BY <2>1, <2>2, <2>3 DEF LawsHold
<1> QED
  BY <1>1, <1>2

\* Folding is done once and for all.
LEMMA FoldedOnce ==
    ASSUME NEW text
    PROVE  /\ Fold(Fold(text)) = Fold(text)
           /\ lower(Fold(text)) = Fold(text)
           /\ trim(Fold(text)) = Fold(text)
           /\ Pieces(Fold(text)) = Pieces(text)
           /\ Fold(text) = "" => trim(text) = ""
<1>1. lower(trim(trim(text))) = trim(lower(trim(text))) /\ trim(trim(text)) = trim(text)
  BY Laws DEF LawsHold
<1>2. lower(lower(trim(text))) = lower(trim(text))
  BY Laws DEF LawsHold
<1>3. Pieces(Fold(text)) = Pieces(text)
  BY Laws DEF LawsHold, Pieces, Fold
<1>4. Fold(text) = "" => trim(text) = ""
  BY Laws DEF LawsHold, Fold
<1> QED
  BY <1>1, <1>2, <1>3, <1>4 DEF Fold

LEMMA CanonicOnce ==
    ASSUME NEW text
    PROVE  /\ Canonic(Canonic(text)) = Canonic(text)
           /\ Fold(Canonic(text)) = Canonic(text)
           /\ lower(Canonic(text)) = Canonic(text)
           /\ trim(Canonic(text)) = Canonic(text)
BY Laws DEF LawsHold, Canonic, Fold

\* A tag in its canonical form.
Canonical(name) == name # "" /\ Canonic(name) = name /\ parse_legacy_tags(name) = {name}

LEMMA NormalizedIsCanonic ==
    ASSUME NEW names, NEW name \in normalize_tags(names)
    PROVE  name # "" /\ Canonic(name) = name /\ Fold(name) = name /\ lower(name) = name
             /\ trim(name) = name
<1>1. PICK text \in names : name = Canonic(text)
  BY DEF normalize_tags, Canonic
<1> QED
  BY <1>1, CanonicOnce DEF normalize_tags

LEMMA CanonicalNames ==
    ASSUME NEW name
    PROVE  Canonical(name) <=> normalize_tags({name}) = {name} /\ WellFormedTags({name})
BY DEF Canonical, normalize_tags, WellFormedTags, Canonic

LEMMA CanonicalPieces ==
    ASSUME NEW name, Canonical(name)
    PROVE  Pieces(name) = {name} /\ Fold(name) = name
<1>1. Fold(name) = name
  BY CanonicOnce DEF Canonical
<1>2. Pieces(name) = {name}
  BY DEF Canonical, Pieces, normalize_tags, Canonic
<1> QED
  BY <1>1, <1>2

\* The pieces of a tag are canonical.
LEMMA PiecesAreCanonical ==
    ASSUME NEW text, NEW name \in Pieces(text)
    PROVE  Canonical(name)
<1>1. PICK piece \in parse_legacy_tags(text) : name = Canonic(piece)
  BY DEF Pieces, normalize_tags, Canonic
<1>2. name # "" /\ Canonic(name) = name
  BY NormalizedIsCanonic DEF Pieces
<1>3. parse_legacy_tags(Canonic(piece)) = {Canonic(piece)}
  BY Laws DEF LawsHold, Canonic
<1> QED
  BY <1>1, <1>2, <1>3 DEF Canonical
-----------------------------------------------------------------------------
(* Databases.                                                              *)

\* What tagging leaves alone: everything but the tags and their counts.
Retag(db, next) ==
    /\ HasFields(next, DatabaseFields)
    /\ \A f \in DatabaseFields \ {"assets", "tags", "tagged"} : next[f] = db[f]
    /\ DOMAIN next.assets = DOMAIN db.assets
    /\ HasFields(next.assets, DOMAIN db.assets)
    /\ \A id \in DOMAIN db.assets :
          /\ HasFields(next.assets[id], AssetFields)
          /\ \A f \in AssetFields \ {"count"} : next.assets[id][f] = db.assets[id][f]

\* The links are pairs of an asset and a row.
Linked(db) ==
    /\ IsFiniteSet(db.tagged)
    /\ \A pair \in db.tagged :
          pair = <<pair[1], pair[2]>> /\ pair[1] \in DOMAIN db.assets /\ pair[2] \in db.tags

Plain(db) == Retag(db, db)

CountsRight(db) == \A id \in DOMAIN db.assets : db.assets[id].count = CountOf(db, id)

LEMMA DatabaseIsPlain == ASSUME NEW db, IsDatabase(db) PROVE Plain(db)
BY DEF IsDatabase, Plain, Retag

LEMMA RetagTransitive ==
    ASSUME NEW db, NEW mid, NEW next, Retag(db, mid), Retag(mid, next)
    PROVE  Retag(db, next)
BY DEF Retag

LEMMA RetagPlain ==
    ASSUME NEW db, NEW next, Retag(db, next) PROVE Plain(next)
BY DEF Retag, Plain

LEMMA TagsOfMembers ==
    ASSUME NEW db, NEW id
    PROVE  \A name : name \in TagsOf(db, id) <=> \E p \in db.tagged : p[1] = id /\ p[2] = name
BY DEF TagsOf

LEMMA FiniteTags ==
    ASSUME NEW db, NEW id, IsFiniteSet(db.tagged)
    PROVE  IsFiniteSet(TagsOf(db, id)) /\ CountOf(db, id) \in Nat
<1> DEFINE S == {p \in db.tagged : p[1] = id}
           f == [p \in S |-> p[2]]
<1>1. IsFiniteSet(S)
  BY FS_Subset
<1>2. f \in Surjection(S, TagsOf(db, id))
  BY DEF Surjection, TagsOf
<1>3. IsFiniteSet(TagsOf(db, id))
  BY <1>1, <1>2, FS_Surjection
<1> QED
  BY <1>3, FS_CardinalityType DEF CountOf

\* Repaired counts.
LEMMA CountsRepaired ==
    ASSUME NEW db, NEW ids, Plain(db)
    PROVE  LET next == WithCounts(db, ids) IN
           /\ Retag(db, next)
           /\ next.tags = db.tags /\ next.tagged = db.tagged
           /\ \A id \in DOMAIN db.assets :
                 /\ id \in ids => next.assets[id].count = CountOf(db, id)
                 /\ id \notin ids => next.assets[id].count = db.assets[id].count
<1> DEFINE rows == [id \in DOMAIN db.assets |->
                      IF id \in ids THEN Counted(db, id) ELSE db.assets[id]]
           next == WithCounts(db, ids)
<1>1. next = [db EXCEPT !["assets"] = rows]
  BY DEF WithCounts
<1>2. HasFields(db, DatabaseFields) /\ "assets" \in DatabaseFields
  BY DEF Plain, Retag, DatabaseFields
<1>3. /\ HasFields(next, DatabaseFields)
      /\ next["assets"] = rows
      /\ \A f \in DatabaseFields : f # "assets" => next[f] = db[f]
  <2> HIDE DEF rows, next
  <2> QED
    BY <1>1, <1>2 DEF HasFields
<1>4. \A id \in DOMAIN db.assets :
        /\ HasFields(db.assets[id], AssetFields) /\ "count" \in AssetFields
        /\ Counted(db, id) = [db.assets[id] EXCEPT !["count"] = CountOf(db, id)]
  BY DEF Plain, Retag, AssetFields, Counted
<1>5. \A id \in DOMAIN db.assets :
        /\ HasFields(Counted(db, id), AssetFields)
        /\ Counted(db, id)["count"] = CountOf(db, id)
        /\ \A f \in AssetFields : f # "count" => Counted(db, id)[f] = db.assets[id][f]
  <2> TAKE id \in DOMAIN db.assets
  <2> DEFINE row == db.assets[id]
             new == Counted(db, id)
             n == CountOf(db, id)
  <2>1. HasFields(row, AssetFields) /\ "count" \in AssetFields /\ new = [row EXCEPT !["count"] = n]
    BY <1>4
  <2> HIDE DEF row, new, n
  <2>2. /\ HasFields(new, AssetFields) /\ new["count"] = n
        /\ \A f \in AssetFields : f # "count" => new[f] = row[f]
    BY <2>1 DEF HasFields
  <2> QED
    BY <2>2 DEF row, new, n
<1>6. next.tags = db.tags /\ next.tagged = db.tagged
  BY <1>3 DEF DatabaseFields
<1>7. /\ next.assets = rows /\ DOMAIN rows = DOMAIN db.assets
      /\ HasFields(rows, DOMAIN db.assets)
  BY <1>3 DEF HasFields
<1>8. \A id \in DOMAIN db.assets :
        /\ HasFields(rows[id], AssetFields)
        /\ \A f \in AssetFields \ {"count"} : rows[id][f] = db.assets[id][f]
        /\ rows[id]["count"] = IF id \in ids THEN CountOf(db, id) ELSE db.assets[id].count
  BY <1>4, <1>5
<1>9. Retag(db, next)
  <2> HIDE DEF rows, next
  <2> QED
    BY <1>3, <1>7, <1>8 DEF Retag
<1> QED
  BY <1>6, <1>7, <1>8, <1>9
-----------------------------------------------------------------------------
(* Merging the rows of one name.                                           *)

KeepIn(folded, name) == IF Fold(name) \in folded THEN Fold(name) ELSE name

RowsIn(db, n) == {name \in db.tags : Fold(name) = n}
KeeperIn(db, n) == IF n \in RowsIn(db, n) THEN n ELSE CHOOSE name \in RowsIn(db, n) : TRUE
RedundantIn(db, folded) == UNION {RowsIn(db, n) \ {KeeperIn(db, n)} : n \in folded}
TakenFrom(db, folded) == {pair[1] : pair \in {p \in db.tagged : p[2] \in RedundantIn(db, folded)}}

KeptRows(folded, names) == {KeepIn(folded, name) : name \in names}
KeptLinks(folded, tagged) == {<<pair[1], KeepIn(folded, pair[2])>> : pair \in tagged}

MergedIn(db, folded) ==
    [db EXCEPT !.tags = KeptRows(folded, @), !.tagged = KeptLinks(folded, @)]

FoldedOf(db, id) == ListAssetTags(db, id) \ {""}

LEMMA MergeNamed ==
    ASSUME NEW db, NEW id
    PROVE  CanonicalizeTagRows(db, id) =
             WithCounts(MergedIn(db, FoldedOf(db, id)), TakenFrom(db, FoldedOf(db, id)))
BY DEF CanonicalizeTagRows, MergedIn, KeptRows, KeptLinks, FoldedOf, TakenFrom, RedundantIn, RowsIn,
       KeeperIn, KeepIn, Fold

LEMMA MergeFields ==
    ASSUME NEW db, NEW folded, Plain(db), Linked(db)
    PROVE  LET next == MergedIn(db, folded) IN
           /\ Retag(db, next) /\ Plain(next)
           /\ next.assets = db.assets
           /\ next.tags = KeptRows(folded, db.tags)
           /\ next.tagged = KeptLinks(folded, db.tagged)
<1> DEFINE tags == KeptRows(folded, db.tags)
           tagged == KeptLinks(folded, db.tagged)
           next == MergedIn(db, folded)
<1>1. next = [db EXCEPT !.tags = tags, !.tagged = tagged]
  BY DEF MergedIn
<1>2. HasFields(db, DatabaseFields)
  BY DEF Plain, Retag
<1> HIDE DEF tags, tagged, next
<1>3. /\ HasFields(next, DatabaseFields)
      /\ next.tags = tags /\ next.tagged = tagged
      /\ \A f \in DatabaseFields \ {"tags", "tagged"} : next[f] = db[f]
  BY <1>1, <1>2 DEF HasFields, DatabaseFields
<1>4. next.assets = db.assets
  BY <1>3 DEF DatabaseFields
<1>5. Retag(db, next)
  BY <1>3, <1>4 DEF Retag, Plain
<1> QED
  BY <1>3, <1>4, <1>5, RetagPlain DEF tags, tagged, next

LEMMA MergedTagsOf ==
    ASSUME NEW db, NEW folded, NEW id, NEW next, next.tagged = KeptLinks(folded, db.tagged)
    PROVE  TagsOf(next, id) = KeptRows(folded, TagsOf(db, id))
<1>1. ASSUME NEW name \in TagsOf(next, id)
      PROVE  name \in KeptRows(folded, TagsOf(db, id))
  <2>1. PICK p \in next.tagged : p[1] = id /\ p[2] = name
    BY <1>1, TagsOfMembers
  <2>2. PICK pair \in db.tagged : p = <<pair[1], KeepIn(folded, pair[2])>>
    BY <2>1 DEF KeptLinks
  <2>3. pair[1] = id /\ KeepIn(folded, pair[2]) = name
    BY <2>1, <2>2
  <2>4. pair[2] \in TagsOf(db, id)
    BY <2>3, TagsOfMembers
  <2> QED
    BY <2>3, <2>4 DEF KeptRows
<1>2. ASSUME NEW name \in TagsOf(db, id)
      PROVE  KeepIn(folded, name) \in TagsOf(next, id)
  <2>1. PICK pair \in db.tagged : pair[1] = id /\ pair[2] = name
    BY <1>2, TagsOfMembers
  <2>2. <<id, KeepIn(folded, name)>> \in next.tagged
    BY <2>1 DEF KeptLinks
  <2> QED
    BY <2>2, TagsOfMembers
<1>3. \A name \in KeptRows(folded, TagsOf(db, id)) : name \in TagsOf(next, id)
  BY <1>2 DEF KeptRows
<1> QED
  BY <1>1, <1>3

LEMMA KeepFolds ==
    ASSUME NEW folded, NEW name
    PROVE  Fold(KeepIn(folded, name)) = Fold(name)
BY FoldedOnce DEF KeepIn

\* Assets with none of the redundant rows keep as many tags.
LEMMA KeepIsOneToOne ==
    ASSUME NEW db, NEW folded, NEW x \in db.tags, NEW y \in db.tags,
           x \notin RedundantIn(db, folded), y \notin RedundantIn(db, folded),
           KeepIn(folded, x) = KeepIn(folded, y)
    PROVE  x = y
<1>1. Fold(x) = Fold(y)
  BY KeepFolds
<1>2. CASE Fold(x) \in folded
  <2>1. x \in RowsIn(db, Fold(x)) /\ y \in RowsIn(db, Fold(x))
    BY <1>1 DEF RowsIn
  <2>2. x = KeeperIn(db, Fold(x)) /\ y = KeeperIn(db, Fold(x))
    BY <1>2, <2>1 DEF RedundantIn
  <2> QED
    BY <2>2
<1>3. CASE Fold(x) \notin folded
  BY <1>1, <1>3 DEF KeepIn
<1> QED
  BY <1>2, <1>3

LEMMA MergedCount ==
    ASSUME NEW db, NEW folded, NEW id, NEW next, Linked(db),
           next.tagged = KeptLinks(folded, db.tagged), id \notin TakenFrom(db, folded)
    PROVE  CountOf(next, id) = CountOf(db, id)
<1> DEFINE S == TagsOf(db, id)
           T == KeptRows(folded, S)
           f == [name \in S |-> KeepIn(folded, name)]
<1>1. TagsOf(next, id) = T
  BY MergedTagsOf
<1>2. \A name \in S : name \in db.tags /\ name \notin RedundantIn(db, folded)
  <2> TAKE name \in S
  <2>1. PICK pair \in db.tagged : pair[1] = id /\ pair[2] = name
    BY TagsOfMembers
  <2> QED
    BY <2>1 DEF Linked, TakenFrom
<1>3. \A x, y \in S : KeepIn(folded, x) = KeepIn(folded, y) => x = y
  BY <1>2, KeepIsOneToOne
<1>4. IsFiniteSet(S)
  BY FiniteTags DEF Linked
<1> HIDE DEF S
<1>5. f \in Bijection(S, T)
  <2>1. T = {KeepIn(folded, name) : name \in S}
    BY DEF KeptRows
  <2>2. f \in [S -> T]
    BY <2>1
  <2>3. IsInjective(f)
    BY <1>3 DEF IsInjective
  <2>4. \A t \in T : \E s \in S : f[s] = t
    BY <2>1
  <2> HIDE DEF T, f
  <2> QED
    BY <2>2, <2>3, <2>4 DEF Bijection, Injection, Surjection, IsInjective
<1>6. ExistsBijection(S, T)
  BY <1>5 DEF ExistsBijection
<1>7. Cardinality(S) = Cardinality(T)
  <2> HIDE DEF T
  <2> QED
    BY <1>4, <1>6, FS_Bijection
<1> QED
  BY <1>1, <1>7 DEF CountOf, S

LEMMA CountByLinks ==
    ASSUME NEW db, NEW next, NEW id, next.tagged = db.tagged
    PROVE  TagsOf(next, id) = TagsOf(db, id) /\ CountOf(next, id) = CountOf(db, id)
             /\ ListAssetTags(next, id) = ListAssetTags(db, id)
<1>1. TagsOf(next, id) = TagsOf(db, id)
  BY DEF TagsOf
<1> QED
  BY <1>1 DEF CountOf, ListAssetTags

LEMMA ListMembers ==
    ASSUME NEW db, NEW id
    PROVE  \A tag : tag \in ListAssetTags(db, id) <=>
                       \E p \in db.tagged : p[1] = id /\ Fold(p[2]) = tag
<1>1. ListAssetTags(db, id) = {Fold(name) : name \in TagsOf(db, id)}
  BY DEF ListAssetTags, Fold
<1> QED
  BY <1>1, TagsOfMembers

\* canonicalize_tag_rows_in_tx: no asset gains or loses a tag.
LEMMA Canonicalized ==
    ASSUME NEW db, NEW id, NEW next, NEW folded, Plain(db), Linked(db),
           next = CanonicalizeTagRows(db, id), folded = FoldedOf(db, id)
    PROVE  /\ Retag(db, next) /\ Linked(next)
           /\ next.tags = KeptRows(folded, db.tags) /\ next.tagged = KeptLinks(folded, db.tagged)
           /\ \A j : ListAssetTags(next, j) = ListAssetTags(db, j)
           /\ CountsRight(db) => CountsRight(next)
<1> DEFINE merged == MergedIn(db, folded)
           ids == TakenFrom(db, folded)
<1>1. /\ Retag(db, merged) /\ Plain(merged) /\ merged.assets = db.assets
      /\ merged.tags = KeptRows(folded, db.tags) /\ merged.tagged = KeptLinks(folded, db.tagged)
  BY MergeFields
<1>2. next = WithCounts(merged, ids)
  BY MergeNamed
<1> HIDE DEF merged, ids
<1>3. /\ Retag(merged, next) /\ next.tags = merged.tags /\ next.tagged = merged.tagged
      /\ \A j \in DOMAIN merged.assets :
            /\ j \in ids => next.assets[j].count = CountOf(merged, j)
            /\ j \notin ids => next.assets[j].count = merged.assets[j].count
  BY <1>1, <1>2, CountsRepaired
<1>4. Retag(db, next)
  BY <1>1, <1>3, RetagTransitive
<1>5. \A p \in db.tagged : <<p[1], KeepIn(folded, p[2])>> \in next.tagged
  BY <1>1, <1>3 DEF KeptLinks
<1>6. \A q \in next.tagged : \E p \in db.tagged : q = <<p[1], KeepIn(folded, p[2])>>
  BY <1>1, <1>3 DEF KeptLinks
<1>7. Linked(next)
  <2>1. IsFiniteSet(next.tagged)
    <3> DEFINE f == [p \in db.tagged |-> <<p[1], KeepIn(folded, p[2])>>]
    <3>1. f \in Surjection(db.tagged, next.tagged)
      BY <1>5, <1>6 DEF Surjection
    <3> QED
      BY <3>1, FS_Surjection DEF Linked
  <2>2. ASSUME NEW q \in next.tagged
        PROVE  q = <<q[1], q[2]>> /\ q[1] \in DOMAIN next.assets /\ q[2] \in next.tags
    <3>1. PICK p \in db.tagged : q = <<p[1], KeepIn(folded, p[2])>>
      BY <1>6
    <3>2. p[1] \in DOMAIN db.assets /\ p[2] \in db.tags
      BY DEF Linked
    <3>3. KeepIn(folded, p[2]) \in next.tags
      BY <1>1, <1>3, <3>2 DEF KeptRows
    <3> QED
      BY <1>4, <3>1, <3>2, <3>3 DEF Retag
  <2> QED
    BY <2>1, <2>2 DEF Linked
<1>8. ASSUME NEW j PROVE ListAssetTags(next, j) = ListAssetTags(db, j)
  <2>1. ASSUME NEW tag \in ListAssetTags(next, j) PROVE tag \in ListAssetTags(db, j)
    <3>1. PICK q \in next.tagged : q[1] = j /\ Fold(q[2]) = tag
      BY <2>1, ListMembers
    <3>2. PICK p \in db.tagged : q = <<p[1], KeepIn(folded, p[2])>>
      BY <1>6
    <3>3. p[1] = j /\ Fold(p[2]) = tag
      BY <3>1, <3>2, KeepFolds
    <3> QED
      BY <3>3, ListMembers
  <2>2. ASSUME NEW tag \in ListAssetTags(db, j) PROVE tag \in ListAssetTags(next, j)
    <3>1. PICK p \in db.tagged : p[1] = j /\ Fold(p[2]) = tag
      BY <2>2, ListMembers
    <3>2. <<j, KeepIn(folded, p[2])>> \in next.tagged /\ Fold(KeepIn(folded, p[2])) = tag
      BY <1>5, <3>1, KeepFolds
    <3> QED
      BY <3>2, ListMembers
  <2> QED
    BY <2>1, <2>2
<1>9. ASSUME CountsRight(db), NEW j \in DOMAIN next.assets
      PROVE  next.assets[j].count = CountOf(next, j)
  <2>1. j \in DOMAIN db.assets /\ j \in DOMAIN merged.assets
    BY <1>1, <1>4 DEF Retag
  <2>2. CountOf(next, j) = CountOf(merged, j)
    BY <1>3, CountByLinks
  <2>3. CASE j \in ids
    BY <1>3, <2>1, <2>2, <2>3
  <2>4. CASE j \notin ids
    <3>1. CountOf(merged, j) = CountOf(db, j)
      BY <1>1, <2>4, MergedCount DEF ids
    <3>2. db.assets[j].count = CountOf(db, j)
      BY <1>9, <2>1 DEF CountsRight
    <3> QED
      BY <1>1, <1>3, <2>1, <2>2, <2>4, <3>1, <3>2
  <2> QED
    BY <2>3, <2>4
<1> QED
  BY <1>1, <1>3, <1>4, <1>7, <1>8, <1>9 DEF CountsRight
-----------------------------------------------------------------------------
(* Linking an asset to its tags.                                           *)

FoldedTag(tag) == tag # "" /\ Fold(tag) = tag /\ lower(tag) = tag /\ trim(tag) = tag

\* A tag is linked to a row that folds to it.
LEMMA RowForFolds ==
    ASSUME NEW db, NEW tag, FoldedTag(tag)
    PROVE  Fold(RowFor(db, tag)) = tag /\ (RowFor(db, tag) \in db.tags \/ RowFor(db, tag) = tag)
<1>1. CASE \E name \in db.tags : lower(name) = lower(tag)
  <2>1. RowFor(db, tag) \in db.tags /\ lower(RowFor(db, tag)) = tag
    BY <1>1 DEF RowFor, FoldedTag
  <2>2. lower(trim(RowFor(db, tag))) = trim(lower(RowFor(db, tag)))
    BY Laws DEF LawsHold
  <2> QED
    BY <2>1, <2>2 DEF Fold, FoldedTag
<1>2. CASE ~\E name \in db.tags : lower(name) = lower(tag)
  BY <1>2 DEF RowFor, FoldedTag
<1> QED
  BY <1>1, <1>2

RowsFor(db, wanted) == {RowFor(db, tag) : tag \in wanted}
Relinked(tagged, id, rows) == {p \in tagged : p[1] # id} \cup {<<id, row>> : row \in rows}

LEMMA RelinkedMembers ==
    ASSUME NEW tagged, NEW id, NEW rows
    PROVE  \A q : q \in Relinked(tagged, id, rows) <=>
                     (q \in tagged /\ q[1] # id) \/ \E row \in rows : q = <<id, row>>
BY DEF Relinked

LEMMA FiniteRows ==
    ASSUME NEW db, NEW id, NEW wanted, IsFiniteSet(wanted)
    PROVE  IsFiniteSet({<<id, row>> : row \in RowsFor(db, wanted)})
<1> DEFINE T == {<<id, row>> : row \in RowsFor(db, wanted)}
           f == [tag \in wanted |-> <<id, RowFor(db, tag)>>]
<1>1. f \in Surjection(wanted, T)
  BY DEF Surjection, RowsFor
<1> QED
  BY <1>1, FS_Surjection

LEMMA FiniteNames ==
    ASSUME NEW names, IsFiniteSet(names)
    PROVE  IsFiniteSet(normalize_tags(names))
<1> DEFINE T == {Canonic(name) : name \in names}
           f == [name \in names |-> Canonic(name)]
<1>1. f \in Surjection(names, T)
  BY DEF Surjection
<1>2. IsFiniteSet(T)
  BY <1>1, FS_Surjection
<1>3. normalize_tags(names) \subseteq T
  BY DEF normalize_tags, Canonic
<1> QED
  BY <1>2, <1>3, FS_Subset

LEMMA LinkFields ==
    ASSUME NEW db, NEW id, NEW wanted, NEW next, Plain(db), next = Link(db, id, wanted)
    PROVE  /\ Retag(db, next)
           /\ next.tags = db.tags \cup RowsFor(db, wanted)
           /\ next.tagged = Relinked(db.tagged, id, RowsFor(db, wanted))
           /\ \A j \in DOMAIN db.assets :
                 j # id => next.assets[j].count = db.assets[j].count
           /\ id \in DOMAIN db.assets => next.assets[id].count = CountOf(next, id)
<1> DEFINE tags == db.tags \cup RowsFor(db, wanted)
           tagged == Relinked(db.tagged, id, RowsFor(db, wanted))
           mid == [db EXCEPT !.tags = tags, !.tagged = tagged]
<1>1. next = WithCounts(mid, {id})
  BY DEF Link, RowsFor, Relinked
<1>2. HasFields(db, DatabaseFields)
  BY DEF Plain, Retag
<1> HIDE DEF tags, tagged
<1>3. mid = [db EXCEPT !.tags = tags, !.tagged = tagged]
  OBVIOUS
<1> HIDE DEF mid
<1>4. /\ HasFields(mid, DatabaseFields)
      /\ mid.tags = tags /\ mid.tagged = tagged
      /\ \A f \in DatabaseFields \ {"tags", "tagged"} : mid[f] = db[f]
  BY <1>3, <1>2 DEF HasFields, DatabaseFields
<1>5. mid.assets = db.assets
  BY <1>4 DEF DatabaseFields
<1>6. Retag(db, mid) /\ Plain(mid)
  BY <1>4, <1>5, RetagPlain DEF Retag, Plain
<1>7. /\ Retag(mid, next) /\ next.tags = mid.tags /\ next.tagged = mid.tagged
      /\ \A j \in DOMAIN mid.assets :
            /\ j \in {id} => next.assets[j].count = CountOf(mid, j)
            /\ j \notin {id} => next.assets[j].count = mid.assets[j].count
  BY <1>1, <1>6, CountsRepaired
<1>8. CountOf(next, id) = CountOf(mid, id)
  BY <1>7, CountByLinks
<1>9. Retag(db, next)
  BY <1>6, <1>7, RetagTransitive
<1> QED
  BY <1>4, <1>5, <1>7, <1>8, <1>9 DEF tags, tagged

\* The delete and the inserts of set_asset_tags_in_tx: the asset has the
\* tags that were wanted, the others keep theirs.
LEMMA LinkTags ==
    ASSUME NEW db, NEW id, NEW wanted, NEW next, Plain(db), Linked(db), id \in DOMAIN db.assets,
           IsFiniteSet(wanted), \A tag \in wanted : FoldedTag(tag), next = Link(db, id, wanted)
    PROVE  /\ Retag(db, next) /\ Linked(next)
           /\ \A row \in next.tags : row \in db.tags \/ (Fold(row) = row /\ row \in wanted)
           /\ \A p \in db.tagged : p[1] # id => p \in next.tagged
           /\ ListAssetTags(next, id) = wanted
           /\ \A j : j # id => ListAssetTags(next, j) = ListAssetTags(db, j)
           /\ CountsRight(db) => CountsRight(next)
<1> DEFINE rows == RowsFor(db, wanted)
<1>1. /\ Retag(db, next)
      /\ next.tags = db.tags \cup rows
      /\ next.tagged = Relinked(db.tagged, id, rows)
      /\ \A j \in DOMAIN db.assets : j # id => next.assets[j].count = db.assets[j].count
      /\ next.assets[id].count = CountOf(next, id)
  BY LinkFields
<1>2. \A q : q \in next.tagged <=>
               (q \in db.tagged /\ q[1] # id) \/ \E row \in rows : q = <<id, row>>
  BY <1>1, RelinkedMembers
<1>3. IsFiniteSet(next.tagged)
  <2> DEFINE A == {p \in db.tagged : p[1] # id}
             B == {<<id, row>> : row \in rows}
  <2>1. IsFiniteSet(A)
    BY FS_Subset DEF Linked
  <2>2. IsFiniteSet(B)
    BY FiniteRows
  <2>3. next.tagged = A \cup B
    BY <1>1 DEF Relinked
  <2> HIDE DEF A, B
  <2> QED
    BY <2>1, <2>2, <2>3, FS_Union
<1>4. \A row \in rows : Fold(row) \in wanted /\ (row \in db.tags \/ row \in wanted)
  BY RowForFolds DEF RowsFor
<1>5. \A tag \in wanted : \E row \in rows : Fold(row) = tag
  BY RowForFolds DEF RowsFor
<1> HIDE DEF rows
<1>6. \A row \in next.tags : row \in db.tags \/ (Fold(row) = row /\ row \in wanted)
  BY <1>1, <1>4 DEF FoldedTag
<1>7. Linked(next)
  <2>1. ASSUME NEW q \in next.tagged
        PROVE  q = <<q[1], q[2]>> /\ q[1] \in DOMAIN next.assets /\ q[2] \in next.tags
    <3>1. CASE q \in db.tagged
      BY <1>1, <3>1 DEF Linked, Retag
    <3>2. CASE \E row \in rows : q = <<id, row>>
      BY <1>1, <3>2 DEF Retag
    <3> QED
      BY <1>2, <3>1, <3>2
  <2> QED
    BY <1>3, <2>1 DEF Linked
<1>8. ListAssetTags(next, id) = wanted
  <2>1. ASSUME NEW tag \in ListAssetTags(next, id) PROVE tag \in wanted
    <3>1. PICK q \in next.tagged : q[1] = id /\ Fold(q[2]) = tag
      BY <2>1, ListMembers
    <3>2. PICK row \in rows : q = <<id, row>>
      BY <1>2, <3>1
    <3> QED
      BY <1>4, <3>1, <3>2
  <2>2. ASSUME NEW tag \in wanted PROVE tag \in ListAssetTags(next, id)
    <3>1. PICK row \in rows : Fold(row) = tag
      BY <1>5, <2>2
    <3>2. <<id, row>> \in next.tagged
      BY <1>2, <3>1
    <3> QED
      BY <3>1, <3>2, ListMembers
  <2> QED
    BY <2>1, <2>2
<1>9. ASSUME NEW j, j # id
      PROVE  TagsOf(next, j) = TagsOf(db, j)
  <2>1. ASSUME NEW name \in TagsOf(next, j) PROVE name \in TagsOf(db, j)
    BY <1>2, <1>9, <2>1, TagsOfMembers
  <2>2. ASSUME NEW name \in TagsOf(db, j) PROVE name \in TagsOf(next, j)
    BY <1>2, <1>9, <2>2, TagsOfMembers
  <2> QED
    BY <2>1, <2>2
<1>10. CountsRight(db) => CountsRight(next)
  BY <1>1, <1>9 DEF CountsRight, CountOf, Retag
<1> QED
  BY <1>1, <1>2, <1>6, <1>7, <1>8, <1>9, <1>10 DEF ListAssetTags

TagsSetTo(db, id, names, next) ==
    /\ Retag(db, next) /\ Linked(next)
    /\ \A row \in next.tags :
          /\ Fold(row) # ""
          /\ Fold(row) = row \/ (row \in db.tags /\ Fold(row) \notin FoldedOf(db, id))
    /\ \A p \in db.tagged :
          p[1] # id /\ Fold(p[2]) \notin FoldedOf(db, id) => p \in next.tagged
    /\ ListAssetTags(next, id) = normalize_tags(names)
    /\ \A j : j # id => ListAssetTags(next, j) = ListAssetTags(db, j)
    /\ CountsRight(db) => CountsRight(next)

\* set_asset_tags_in_tx: the asset has exactly the tags that were wanted,
\* every other asset the ones it had, and the rows it touched are folded.
LEMMA TagsSet ==
    ASSUME NEW db, NEW id, NEW names, NEW next, Plain(db), Linked(db), id \in DOMAIN db.assets,
           IsFiniteSet(names), \A row \in db.tags : Fold(row) # "",
           next = SetAssetTagsInTx(db, id, names)
    PROVE  TagsSetTo(db, id, names, next)
<1> DEFINE wanted == normalize_tags(names)
           folded == FoldedOf(db, id)
           merged == CanonicalizeTagRows(db, id)
           ids == {id}
           repaired == WithCounts(merged, ids)
<1>1. next = IF ListAssetTags(db, id) = wanted THEN repaired ELSE Link(repaired, id, wanted)
  BY DEF SetAssetTagsInTx
<1>2. IsFiniteSet(wanted) /\ \A tag \in wanted : FoldedTag(tag)
  BY FiniteNames, NormalizedIsCanonic DEF FoldedTag
<1>3. /\ Retag(db, merged) /\ Linked(merged)
      /\ merged.tags = KeptRows(folded, db.tags) /\ merged.tagged = KeptLinks(folded, db.tagged)
      /\ \A j : ListAssetTags(merged, j) = ListAssetTags(db, j)
      /\ CountsRight(db) => CountsRight(merged)
  <2> HIDE DEF folded, merged
  <2>1. merged = CanonicalizeTagRows(db, id) /\ folded = FoldedOf(db, id)
    BY DEF folded, merged
  <2>2. Plain(db) /\ Linked(db)
    OBVIOUS
  <2> QED
    BY ONLY <2>1, <2>2, Canonicalized
<1>4. repaired = WithCounts(merged, ids) /\ \A j : j \in ids <=> j = id
  OBVIOUS
<1> HIDE DEF wanted, folded, merged, repaired, ids
<1>5. Plain(merged)
  BY <1>3, RetagPlain
<1>6. /\ Retag(merged, repaired) /\ repaired.tags = merged.tags /\ repaired.tagged = merged.tagged
      /\ \A j \in DOMAIN merged.assets :
            /\ j \in ids => repaired.assets[j].count = CountOf(merged, j)
            /\ j \notin ids => repaired.assets[j].count = merged.assets[j].count
  BY <1>4, <1>5, CountsRepaired
<1>7. Retag(db, repaired) /\ Plain(repaired)
  BY <1>3, <1>6, RetagTransitive, RetagPlain
<1>8. Linked(repaired)
  BY <1>3, <1>6 DEF Linked, Retag
<1>9. \A j : ListAssetTags(repaired, j) = ListAssetTags(db, j) /\ CountOf(repaired, j) = CountOf(merged, j)
  BY <1>3, <1>6, CountByLinks
<1>10. CountsRight(db) => CountsRight(repaired)
  BY <1>3, <1>4, <1>6, <1>9 DEF CountsRight, Retag
<1>11. \A row \in repaired.tags :
          /\ Fold(row) # ""
          /\ Fold(row) = row \/ (row \in db.tags /\ Fold(row) \notin folded)
  <2> TAKE row \in repaired.tags
  <2>1. PICK name \in db.tags : row = KeepIn(folded, name)
    BY <1>3, <1>6 DEF KeptRows
  <2>2. Fold(row) = Fold(name)
    BY <2>1, KeepFolds
  <2> QED
    BY <2>1, <2>2 DEF KeepIn
<1>12. \A p \in db.tagged : Fold(p[2]) \notin folded => p \in repaired.tagged
  <2> TAKE p \in db.tagged
  <2> HAVE Fold(p[2]) \notin folded
  <2>1. <<p[1], KeepIn(folded, p[2])>> \in repaired.tagged
    BY <1>3, <1>6 DEF KeptLinks
  <2>2. p = <<p[1], p[2]>>
    BY DEF Linked
  <2> QED
    BY <2>1, <2>2 DEF KeepIn
<1>13. CASE ListAssetTags(db, id) = wanted
  BY <1>1, <1>7, <1>8, <1>9, <1>10, <1>11, <1>12, <1>13 DEF wanted, folded, TagsSetTo
<1>14. CASE ListAssetTags(db, id) # wanted
  <2>1. next = Link(repaired, id, wanted) /\ id \in DOMAIN repaired.assets
    BY <1>1, <1>7, <1>14 DEF Retag
  <2>2. /\ Retag(repaired, next) /\ Linked(next)
        /\ \A row \in next.tags : row \in repaired.tags \/ (Fold(row) = row /\ row \in wanted)
        /\ \A p \in repaired.tagged : p[1] # id => p \in next.tagged
        /\ ListAssetTags(next, id) = wanted
        /\ \A j : j # id => ListAssetTags(next, j) = ListAssetTags(repaired, j)
        /\ CountsRight(repaired) => CountsRight(next)
    BY <1>2, <1>7, <1>8, <2>1, LinkTags
  <2>3. \A row \in next.tags :
          /\ Fold(row) # ""
          /\ Fold(row) = row \/ (row \in db.tags /\ Fold(row) \notin folded)
    BY <1>2, <1>11, <2>2 DEF FoldedTag
  <2>4. Retag(db, next)
    BY <1>7, <2>2, RetagTransitive
  <2> QED
    BY <1>9, <1>10, <1>12, <2>2, <2>3, <2>4 DEF wanted, folded, TagsSetTo
<1> QED
  BY <1>13, <1>14
-----------------------------------------------------------------------------
(* The loop over the assets.                                               *)

\* Induction, on a set of natural numbers.
LEMMA SetInduction ==
    ASSUME NEW S \in SUBSET Nat, 0 \in S, \A n \in S : n + 1 \in S
    PROVE  S = Nat
<1> SUFFICES ASSUME Nat \ S # {} PROVE FALSE
  OBVIOUS
<1> DEFINE T == Nat \ S
<1>1. PICK t \in T : \A u \in T : ~(<<u, t>> \in OpToRel(<, Nat))
  BY NatLessThanWellFounded, WFMin
<1>2. t # 0 /\ t \in Nat /\ t - 1 \in Nat /\ (t - 1) + 1 = t
  OBVIOUS
<1>3. <<t - 1, t>> \in OpToRel(<, Nat)
  BY <1>2 DEF OpToRel
<1>4. t - 1 \in S
  BY <1>1, <1>2, <1>3
<1> QED
  BY <1>2, <1>4

\* A finite set of natural numbers is bounded.
LEMMA FiniteIsBounded ==
    ASSUME NEW S \in SUBSET Nat, IsFiniteSet(S)
    PROVE  \E b \in Nat : \A x \in S : x <= b
<1>1. PICK n \in Nat : ExistsSurjection(1 .. n, S)
  BY FS_NatSurjection
<1>2. PICK f \in Surjection(1 .. n, S) : TRUE
  BY <1>1 DEF ExistsSurjection
<1>3. f \in [1 .. n -> S] /\ \A x \in S : \E i \in 1 .. n : f[i] = x
  BY <1>2 DEF Surjection
<1> DEFINE B(k, b) == \A i \in 1 .. n : i <= k => f[i] <= b
           K == {k \in Nat : \E b \in Nat : B(k, b)}
<1>4. 0 \in K
  <2>1. B(0, 0)
    OBVIOUS
  <2> QED
    BY <2>1
<1>5. ASSUME NEW k \in K PROVE k + 1 \in K
  <2>1. k \in Nat
    OBVIOUS
  <2>2. PICK b \in Nat : B(k, b)
    OBVIOUS
  <2>3. CASE k + 1 \in 1 .. n
    <3>1. f[k + 1] \in Nat
      BY <1>3, <2>3
    <3>2. ASSUME NEW i \in 1 .. n, i <= k + 1 PROVE f[i] <= b + f[k + 1]
      <4>1. f[i] \in Nat
        BY <1>3
      <4>2. CASE i <= k
        BY <2>2, <3>1, <4>1, <4>2
      <4>3. CASE i = k + 1
        BY <3>1, <4>3
      <4> QED
        BY <2>1, <3>2, <4>2, <4>3
    <3>3. b + f[k + 1] \in Nat /\ B(k + 1, b + f[k + 1])
      BY <3>1, <3>2
    <3> HIDE DEF B
    <3> QED
      BY <2>1, <3>3
  <2>4. CASE k + 1 \notin 1 .. n
    <3>1. \A i \in 1 .. n : i <= k + 1 => i <= k
      BY <2>1, <2>4
    <3>2. B(k + 1, b)
      BY <2>2, <3>1
    <3> HIDE DEF B
    <3> QED
      BY <2>1, <3>2
  <2> QED
    BY <2>3, <2>4
<1>6. n \in K
  <2>1. K \in SUBSET Nat
    OBVIOUS
  <2> HIDE DEF K
  <2> QED
    BY <1>4, <1>5, <2>1, SetInduction
<1>7. PICK b \in Nat : B(n, b)
  <2> HIDE DEF B
  <2> QED
    BY <1>6
<1>8. \A i \in 1 .. n : f[i] <= b
  BY <1>7
<1> HIDE DEF B, K
<1> QED
  BY <1>3, <1>8

LEMMA GreatestOf ==
    ASSUME NEW S \in SUBSET Nat, IsFiniteSet(S), S # {}
    PROVE  Max(S) \in S /\ \A x \in S : x <= Max(S)
<1>1. PICK b \in Nat : \A x \in S : x <= b
  BY FiniteIsBounded
<1> DEFINE T == {b - x : x \in S}
<1>2. \A x \in S : x \in Nat /\ b - x \in Nat
  BY <1>1
<1>3. T \subseteq Nat /\ T # {}
  BY <1>2
<1>4. PICK t \in T : \A u \in T : ~(<<u, t>> \in OpToRel(<, Nat))
  BY <1>3, NatLessThanWellFounded, WFMin
<1>5. \A u \in T : ~(u < t)
  <2> TAKE u \in T
  <2>1. u \in Nat /\ t \in Nat /\ ~(<<u, t>> \in OpToRel(<, Nat))
    BY <1>3, <1>4
  <2> HIDE DEF T
  <2> QED
    BY <2>1 DEF OpToRel
<1>6. PICK m \in S : t = b - m
  BY <1>4
<1>7. \A x \in S : m >= x
  <2> TAKE x \in S
  <2>1. b - x \in T /\ ~(b - x < b - m)
    BY <1>5, <1>6
  <2> QED
    BY <1>2, <2>1
<1>8. Max(S) \in S /\ \A x \in S : Max(S) >= x
  BY <1>7 DEF Max
<1> QED
  BY <1>2, <1>8

TagStep(names, n, db) == IF n \in DOMAIN names THEN SetAssetTagsInTx(db, n, names[n]) ELSE db

IsRun(db, names, n, f) ==
    f = [i \in 0 .. n |-> IF i = 0 THEN db ELSE TagStep(names, i, f[i - 1])]

LEMMA RunValues ==
    ASSUME NEW db, NEW names, NEW n \in Nat, NEW f, IsRun(db, names, n, f)
    PROVE  f[0] = db /\ \A i \in 1 .. n : f[i] = TagStep(names, i, f[i - 1])
<1>1. f[0] = IF 0 = 0 THEN db ELSE TagStep(names, 0, f[0 - 1])
  BY DEF IsRun
<1>2. ASSUME NEW i \in 1 .. n
      PROVE  f[i] = TagStep(names, i, f[i - 1])
  <2>1. i \in 0 .. n /\ i # 0
    OBVIOUS
  <2> QED
    BY <2>1 DEF IsRun
<1> QED
  BY <1>1, <1>2

LEMMA RunsExist ==
    ASSUME NEW db, NEW names, NEW n \in Nat
    PROVE  \E f : IsRun(db, names, n, f)
<1> DEFINE S == {k \in Nat : \E f : IsRun(db, names, k, f)}
<1>1. 0 \in S
  <2> DEFINE f == [i \in 0 .. 0 |-> db]
  <2>1. IsRun(db, names, 0, f)
    BY DEF IsRun
  <2> QED
    BY <2>1
<1>2. ASSUME NEW k \in S PROVE k + 1 \in S
  <2>1. PICK f : IsRun(db, names, k, f)
    OBVIOUS
  <2> DEFINE step == TagStep(names, k + 1, f[k])
             g == [i \in 0 .. k + 1 |-> IF i = k + 1 THEN step ELSE f[i]]
  <2>2. k \in Nat
    OBVIOUS
  <2>3. f[0] = db /\ \A i \in 1 .. k : f[i] = TagStep(names, i, f[i - 1])
    BY <2>1, <2>2, RunValues
  <2>4. ASSUME NEW i \in 0 .. k + 1
        PROVE  g[i] = IF i = 0 THEN db ELSE TagStep(names, i, g[i - 1])
    <3>1. CASE i = 0
      BY <2>2, <2>3, <3>1
    <3>2. CASE i = k + 1
      <4>1. g[i] = step /\ i - 1 = k /\ i # 0 /\ k \in 0 .. k + 1 /\ k # k + 1
        BY <2>2, <3>2
      <4>2. g[i - 1] = f[k]
        BY <4>1
      <4> QED
        BY <3>2, <4>1, <4>2
    <3>3. CASE i # 0 /\ i # k + 1
      <4>1. i \in 1 .. k /\ i - 1 \in 0 .. k + 1 /\ i - 1 # k + 1
        BY <2>2, <3>3
      <4>2. g[i] = f[i] /\ g[i - 1] = f[i - 1]
        BY <3>3, <4>1
      <4> QED
        BY <2>3, <3>3, <4>1, <4>2
    <3> QED
      BY <3>1, <3>2, <3>3
  <2>5. g = [i \in 0 .. k + 1 |-> g[i]]
    OBVIOUS
  <2>6. IsRun(db, names, k + 1, g)
    <3> HIDE DEF g
    <3> QED
      BY <2>4, <2>5 DEF IsRun
  <2> QED
    BY <2>2, <2>6
<1>3. S \in SUBSET Nat
  OBVIOUS
<1> HIDE DEF S
<1>4. S = Nat
  BY <1>1, <1>2, <1>3, SetInduction
<1> QED
  BY <1>4 DEF S

LEMMA RunsAgree ==
    ASSUME NEW db, NEW names, NEW m \in Nat, NEW n \in Nat, NEW f, NEW g,
           IsRun(db, names, m, f), IsRun(db, names, n, g)
    PROVE  \A i \in Nat : i <= m /\ i <= n => f[i] = g[i]
<1>0. m \in Nat /\ n \in Nat /\ IsRun(db, names, m, f) /\ IsRun(db, names, n, g)
  OBVIOUS
<1>1. f[0] = db /\ \A i \in 1 .. m : f[i] = TagStep(names, i, f[i - 1])
  BY ONLY <1>0, RunValues
<1>2. g[0] = db /\ \A i \in 1 .. n : g[i] = TagStep(names, i, g[i - 1])
  <2>1. n \in Nat /\ IsRun(db, names, n, g)
    OBVIOUS
  <2>2. g[0] = db
    BY ONLY <2>1, RunValues
  <2> QED
    BY ONLY <2>1, <2>2, RunValues
<1> DEFINE S == {i \in Nat : i <= m /\ i <= n => f[i] = g[i]}
<1>3. 0 \in S
  BY <1>1, <1>2
<1>4. ASSUME NEW k \in S PROVE k + 1 \in S
  <2>1. SUFFICES ASSUME k + 1 <= m, k + 1 <= n PROVE f[k + 1] = g[k + 1]
    OBVIOUS
  <2>2. k \in Nat /\ k + 1 \in 1 .. m /\ k + 1 \in 1 .. n /\ (k + 1) - 1 = k /\ k <= m /\ k <= n
    BY <2>1
  <2>3. f[k] = g[k]
    BY <2>2
  <2>4. f[k + 1] = TagStep(names, k + 1, f[k]) /\ g[k + 1] = TagStep(names, k + 1, g[k])
    BY <1>1, <1>2, <2>2
  <2> QED
    BY <2>3, <2>4
<1>5. S \in SUBSET Nat
  OBVIOUS
<1> HIDE DEF S
<1>6. S = Nat
  BY <1>3, <1>4, <1>5, SetInduction
<1> QED
  BY <1>6 DEF S

\* after holds what the loop has made of db after each of its turns.
Turns(db, names, after) ==
    /\ SetTagsInOrder(db, names) = after[Max(DOMAIN names \cup {0})]
    /\ after[0] = db
    /\ \A n \in Nat : n # 0 => after[n] = TagStep(names, n, after[n - 1])

\* The assets that names lists get their tags one after the other.
LEMMA OneAfterTheOther == ASSUME NEW db, NEW names PROVE \E after : Turns(db, names, after)
<1> DEFINE F == [n \in Nat |-> (CHOOSE f : IsRun(db, names, n, f))[n]]
           A(f) == f = [n \in Nat |-> IF n = 0 THEN db ELSE TagStep(names, n, f[n - 1])]
<1>1. \A n \in Nat : IsRun(db, names, n, CHOOSE f : IsRun(db, names, n, f))
  BY RunsExist
<1>2. ASSUME NEW n \in Nat
      PROVE  F[n] = IF n = 0 THEN db ELSE TagStep(names, n, F[n - 1])
  <2> DEFINE f == CHOOSE h : IsRun(db, names, n, h)
             g == CHOOSE h : IsRun(db, names, n - 1, h)
  <2>1. IsRun(db, names, n, f)
    BY <1>1
  <2>2. f[0] = db /\ \A i \in 1 .. n : f[i] = TagStep(names, i, f[i - 1])
    <3> HIDE DEF f
    <3> QED
      BY <2>1, RunValues
  <2>3. F[n] = f[n]
    OBVIOUS
  <2>4. CASE n = 0
    BY <2>2, <2>3, <2>4
  <2>5. CASE n # 0
    <3>1. n - 1 \in Nat /\ n \in 1 .. n /\ n - 1 <= n /\ n - 1 <= n - 1
      BY <2>5
    <3>2. F[n - 1] = g[n - 1] /\ IsRun(db, names, n - 1, g)
      BY <1>1, <3>1
    <3>3. f[n - 1] = g[n - 1]
      <4> HIDE DEF f, g
      <4> QED
        BY <2>1, <3>1, <3>2, RunsAgree
    <3>4. f[n] = TagStep(names, n, f[n - 1])
      BY <2>2, <3>1
    <3> HIDE DEF F, f, g
    <3> QED
      BY <2>3, <2>5, <3>2, <3>3, <3>4
  <2> QED
    BY <2>4, <2>5
<1>3. F = [n \in Nat |-> F[n]]
  OBVIOUS
<1>4. A(F)
  <2> HIDE DEF F
  <2> QED
    BY <1>2, <1>3
<1> DEFINE after == CHOOSE f : A(f)
<1>5. A(after)
  <2> HIDE DEF F, A
  <2> QED
    BY <1>4
<1>6. SetTagsInOrder(db, names) = after[Max(DOMAIN names \cup {0})]
  BY DEF SetTagsInOrder, TagStep
<1>7. after[0] = db /\ \A n \in Nat : n # 0 => after[n] = TagStep(names, n, after[n - 1])
  <2> HIDE DEF after
  <2> QED
    BY <1>5
<1>8. Turns(db, names, after)
  <2> HIDE DEF after
  <2> QED
    BY <1>6, <1>7 DEF Turns
<1> HIDE DEF after
<1> QED
  BY <1>8

\* What the loop needs.
NoBlank(db) == \A row \in db.tags : Fold(row) # ""

Taggable(db, names) ==
    /\ Plain(db) /\ Linked(db) /\ NoBlank(db)
    /\ DOMAIN db.assets \subseteq Nat \ {0}
    /\ DOMAIN names \subseteq DOMAIN db.assets /\ IsFiniteSet(DOMAIN names)
    /\ \A j \in DOMAIN names : IsFiniteSet(names[j])

\* Every row that is not folded yet is used by an asset whose turn comes,
\* but for those nobody used from the start.
RowsDue(db, names, n) ==
    \A row \in db.tags :
        \/ Fold(row) = row \/ row \in Leftovers
        \/ \E p \in db.tagged : p[2] = row /\ p[1] \in DOMAIN names /\ p[1] > n

TagLoop(db, mid, names, n) ==
    /\ Retag(db, mid) /\ Linked(mid) /\ NoBlank(mid)
    /\ CountsRight(db) => CountsRight(mid)
    /\ RowsDue(db, names, 0) => RowsDue(mid, names, n)
    /\ \A j \in DOMAIN names : j <= n => ListAssetTags(mid, j) = normalize_tags(names[j])
    /\ \A j : ~(j \in DOMAIN names /\ j <= n) => ListAssetTags(mid, j) = ListAssetTags(db, j)

LEMMA TagLoopStep ==
    ASSUME NEW db, NEW names, NEW n \in Nat, NEW mid, NEW next, Taggable(db, names),
           TagLoop(db, mid, names, n), next = TagStep(names, n + 1, mid)
    PROVE  TagLoop(db, next, names, n + 1)
<1> DEFINE id == n + 1
           list == names[id]
<1>1. \A j \in DOMAIN names : j \in Nat /\ j # 0
  BY DEF Taggable
<1>2. CASE id \notin DOMAIN names
  <2>1. next = mid
    BY <1>2 DEF TagStep
  <2>2. \A j \in DOMAIN names : (j <= n + 1 <=> j <= n) /\ (j > n => j > n + 1)
    BY <1>1, <1>2
  <2>3. RowsDue(mid, names, n) => RowsDue(next, names, n + 1)
    BY <2>1, <2>2 DEF RowsDue
  <2> QED
    BY <2>1, <2>2, <2>3 DEF TagLoop
<1>3. CASE id \in DOMAIN names
  <2>1. next = SetAssetTagsInTx(mid, id, list)
    BY <1>3 DEF TagStep
  <2>2. /\ Plain(mid) /\ Linked(mid) /\ id \in DOMAIN mid.assets /\ IsFiniteSet(list)
        /\ \A row \in mid.tags : Fold(row) # ""
    BY <1>3, RetagPlain DEF TagLoop, Taggable, NoBlank, Retag
  <2>3. TagsSetTo(mid, id, list, next)
    <3> HIDE DEF id, list
    <3> QED
      BY ONLY <2>1, <2>2, TagsSet
  <2>4. Retag(db, next)
    <3>1. Retag(db, mid) /\ Retag(mid, next)
      BY <2>3 DEF TagLoop, TagsSetTo
    <3> QED
      BY ONLY <3>1, RetagTransitive
  <2>5. ASSUME RowsDue(mid, names, n)
        PROVE  RowsDue(next, names, n + 1)
    <3>2. SUFFICES ASSUME NEW row \in next.tags, Fold(row) # row, row \notin Leftovers
          PROVE  \E p \in next.tagged : p[2] = row /\ p[1] \in DOMAIN names /\ p[1] > n + 1
      BY DEF RowsDue
    <3>3. row \in mid.tags /\ Fold(row) \notin FoldedOf(mid, id)
      BY <2>3, <3>2 DEF TagsSetTo
    <3>4. PICK p \in mid.tagged : p[2] = row /\ p[1] \in DOMAIN names /\ p[1] > n
      BY <2>5, <3>2, <3>3 DEF RowsDue
    <3>5. p[1] # id
      <4>1. SUFFICES ASSUME p[1] = id PROVE FALSE
        OBVIOUS
      <4>2. Fold(row) \in ListAssetTags(mid, id)
        BY <3>4, <4>1, ListMembers
      <4> QED
        BY <2>2, <3>3, <4>2 DEF FoldedOf
    <3>6. p \in next.tagged
      BY <2>3, <3>3, <3>4, <3>5 DEF TagsSetTo
    <3>7. p[1] > n + 1
      BY <1>1, <3>4, <3>5
    <3> QED
      BY <3>4, <3>6, <3>7
  <2>6. ASSUME NEW j \in DOMAIN names, j <= n + 1
        PROVE  ListAssetTags(next, j) = normalize_tags(names[j])
    <3>1. CASE j = id
      BY <2>3, <3>1 DEF TagsSetTo
    <3>2. CASE j # id
      <4>1. j <= n
        BY <1>1, <2>6, <3>2
      <4> QED
        BY <2>3, <3>2, <4>1 DEF TagLoop, TagsSetTo
    <3> QED
      BY <3>1, <3>2
  <2>7. ASSUME NEW j, ~(j \in DOMAIN names /\ j <= n + 1)
        PROVE  ListAssetTags(next, j) = ListAssetTags(db, j)
    <3>1. j # id
      BY <1>3, <2>7
    <3>2. ~(j \in DOMAIN names /\ j <= n)
      BY <1>1, <2>7
    <3> QED
      BY <2>3, <3>1, <3>2 DEF TagLoop, TagsSetTo
  <2>8. NoBlank(next)
    BY <2>3 DEF TagsSetTo, NoBlank, TagLoop
  <2>9. Linked(next) /\ (CountsRight(mid) => CountsRight(next))
    BY <2>3 DEF TagsSetTo
  <2>10. /\ CountsRight(db) => CountsRight(next)
         /\ RowsDue(db, names, 0) => RowsDue(next, names, n + 1)
    <3>1. (RowsDue(db, names, 0) => RowsDue(mid, names, n)) /\ (CountsRight(db) => CountsRight(mid))
      BY DEF TagLoop
    <3>2. RowsDue(mid, names, n) => RowsDue(next, names, n + 1)
      BY <2>5
    <3> QED
      BY ONLY <2>9, <3>1, <3>2
  <2>11. /\ \A j \in DOMAIN names : j <= n + 1 => ListAssetTags(next, j) = normalize_tags(names[j])
         /\ \A j : ~(j \in DOMAIN names /\ j <= n + 1)
                    => ListAssetTags(next, j) = ListAssetTags(db, j)
    BY <2>6, <2>7
  <2> QED
    BY ONLY <2>4, <2>8, <2>9, <2>10, <2>11 DEF TagLoop
<1> QED
  BY <1>2, <1>3

\* After the loop every asset that was listed has its new tags, every other
\* one its old ones, and all rows but the left ones are folded.
LEMMA TagsSetInOrder ==
    ASSUME NEW db, NEW names, NEW next, Taggable(db, names), next = SetTagsInOrder(db, names)
    PROVE  /\ Retag(db, next) /\ Linked(next) /\ NoBlank(next)
           /\ CountsRight(db) => CountsRight(next)
           /\ RowsDue(db, names, 0) => \A row \in next.tags : Fold(row) = row \/ row \in Leftovers
           /\ \A j \in DOMAIN names : ListAssetTags(next, j) = normalize_tags(names[j])
           /\ \A j : j \notin DOMAIN names => ListAssetTags(next, j) = ListAssetTags(db, j)
<1> DEFINE top == Max(DOMAIN names \cup {0})
<1>0. PICK after : Turns(db, names, after)
  BY OneAfterTheOther
<1>1. /\ SetTagsInOrder(db, names) = after[top]
      /\ after[0] = db
      /\ \A n \in Nat : n # 0 => after[n] = TagStep(names, n, after[n - 1])
  BY <1>0 DEF Turns
<1>2. top \in Nat /\ \A j \in DOMAIN names : j \in Nat /\ j # 0 /\ j <= top
  <2>1. DOMAIN names \cup {0} \in SUBSET Nat /\ DOMAIN names \cup {0} # {}
    BY DEF Taggable
  <2>2. IsFiniteSet(DOMAIN names \cup {0})
    BY FS_AddElement DEF Taggable
  <2>3. top \in DOMAIN names \cup {0} /\ \A x \in DOMAIN names \cup {0} : x <= top
    BY <2>1, <2>2, GreatestOf
  <2> HIDE DEF top
  <2> QED
    BY <2>1, <2>3 DEF Taggable
<1> HIDE DEF top
<1> DEFINE S == {n \in Nat : TagLoop(db, after[n], names, n)}
<1>3. 0 \in S
  <2>1. Retag(db, db) /\ Linked(db) /\ NoBlank(db)
    BY DEF Taggable, Plain
  <2>2. \A j \in DOMAIN names : ~(j <= 0)
    BY <1>2
  <2>3. TagLoop(db, after[0], names, 0)
    BY <1>1, <2>1, <2>2 DEF TagLoop
  <2> QED
    BY <2>3
<1>4. ASSUME NEW n \in S PROVE n + 1 \in S
  <2>1. n \in Nat /\ TagLoop(db, after[n], names, n)
    OBVIOUS
  <2>2. after[n + 1] = TagStep(names, n + 1, after[n])
    <3>1. n + 1 \in Nat /\ n + 1 # 0 /\ (n + 1) - 1 = n
      BY <2>1
    <3> HIDE DEF S
    <3> QED
      BY <1>1, <3>1
  <2> HIDE DEF S
  <2>3. TagLoop(db, after[n + 1], names, n + 1)
    BY <2>1, <2>2, TagLoopStep
  <2> QED
    BY <2>1, <2>3 DEF S
<1>5. S \in SUBSET Nat
  OBVIOUS
<1>6. top \in S
  <2> HIDE DEF S
  <2> QED
    BY <1>2, <1>3, <1>4, <1>5, SetInduction
<1>7. TagLoop(db, next, names, top)
  BY <1>1, <1>6
<1> HIDE DEF S
<1>8. ASSUME RowsDue(db, names, 0), NEW row \in next.tags, Fold(row) # row, row \notin Leftovers
      PROVE  FALSE
  <2>1. PICK p \in next.tagged : p[1] \in DOMAIN names /\ p[1] > top
    BY <1>7, <1>8 DEF TagLoop, RowsDue
  <2> QED
    BY <1>2, <2>1
<1> QED
  BY <1>2, <1>7, <1>8 DEF TagLoop
-----------------------------------------------------------------------------
(* The statements of init_schema, one by one.                              *)

LEMMA Numbered ==
    /\ DOMAIN Statements = 1 .. 21 /\ Open = 22 /\ Refused = 23 /\ Down = 0
    /\ Statements[1] = "create_tables" /\ Statements[2] = "is_favorite"
    /\ Statements[3] = "auto_scan_on_startup" /\ Statements[4] = "media_group_key"
    /\ Statements[5] = "media_group_order" /\ Statements[6] = "file_name"
    /\ Statements[7] = "fill_file_names" /\ Statements[8] = "performance_columns"
    /\ Statements[9] = "read_version" /\ Statements[10] = "lower_keys"
    /\ Statements[11] = "lower_groups" /\ Statements[12] = "count_tags"
    /\ Statements[13] = "version_1" /\ Statements[14] = "backfill_roots"
    /\ Statements[15] = "version_2" /\ Statements[16] = "migrate"
    /\ Statements[17] = "identify" /\ Statements[18] = "source_record_version"
    /\ Statements[19] = "discard_failures" /\ Statements[20] = "user_version"
    /\ Statements[21] = "query_revisions"
BY DEF Statements, Open, Refused, Down

LEMMA Executed ==
    ASSUME NEW db, NEW version
    PROVE  /\ Execute(db, "create_tables", version) = CreateTables(db)
           /\ \A column \in {"is_favorite", "auto_scan_on_startup", "media_group_key",
                             "media_group_order", "file_name"} :
                 Execute(db, column, version) = EnsureColumns(db, {column})
           /\ Execute(db, "fill_file_names", version) = FillFileNames(db)
           /\ Execute(db, "performance_columns", version) = EnsureColumns(db, Performance)
           /\ Execute(db, "read_version", version) = db
           /\ Execute(db, "lower_keys", version) = IF version < 1 THEN LowerKeys(db) ELSE db
           /\ Execute(db, "lower_groups", version) = IF version < 1 THEN LowerGroups(db) ELSE db
           /\ Execute(db, "count_tags", version) = IF version < 1 THEN CountTags(db) ELSE db
           /\ Execute(db, "version_1", version) = IF version < 1 THEN [db EXCEPT !.perf = 1] ELSE db
           /\ Execute(db, "backfill_roots", version) =
                 IF version < 2 THEN BackfillAssetScanRoots(db) ELSE db
           /\ Execute(db, "version_2", version) = IF version < 2 THEN [db EXCEPT !.perf = 2] ELSE db
           /\ Execute(db, "migrate", version) =
                 IF version < 3 THEN MigrateCanonicalKeysAndTags(db) ELSE db
           /\ Execute(db, "identify", version) = [db EXCEPT !.app = "tagrove"]
           /\ Execute(db, "user_version", version) = [db EXCEPT !.user = SCHEMA_VERSION]
           /\ Execute(db, "query_revisions", version) = RebuildQueryRevisions(db)
BY DEF Execute

\* One table of a database changed.
Only(db, next, fields) ==
    /\ HasFields(next, DatabaseFields)
    /\ \A f \in DatabaseFields \ fields : next[f] = db[f]

LEMMA AssetsReplaced ==
    ASSUME NEW db, NEW rows, HasFields(db, DatabaseFields)
    PROVE  /\ Only(db, [db EXCEPT !.assets = rows], {"assets"})
           /\ [db EXCEPT !.assets = rows].assets = rows
BY DEF HasFields, DatabaseFields, Only

LEMMA ShapeReplaced ==
    ASSUME NEW db, NEW shape, HasFields(db, DatabaseFields)
    PROVE  /\ Only(db, [db EXCEPT !.shape = shape], {"shape"})
           /\ [db EXCEPT !.shape = shape].shape = shape
BY DEF HasFields, DatabaseFields, Only

LEMMA PerfReplaced ==
    ASSUME NEW db, NEW version, HasFields(db, DatabaseFields)
    PROVE  /\ Only(db, [db EXCEPT !.perf = version], {"perf"})
           /\ [db EXCEPT !.perf = version].perf = version
BY DEF HasFields, DatabaseFields, Only

LEMMA MembersReplaced ==
    ASSUME NEW db, NEW members, HasFields(db, DatabaseFields)
    PROVE  /\ Only(db, [db EXCEPT !.members = members], {"members"})
           /\ [db EXCEPT !.members = members].members = members
BY DEF HasFields, DatabaseFields, Only

LEMMA AppReplaced ==
    ASSUME NEW db, NEW app, HasFields(db, DatabaseFields)
    PROVE  /\ Only(db, [db EXCEPT !.app = app], {"app"})
           /\ [db EXCEPT !.app = app].app = app
BY DEF HasFields, DatabaseFields, Only

LEMMA UserReplaced ==
    ASSUME NEW db, NEW user, HasFields(db, DatabaseFields)
    PROVE  /\ Only(db, [db EXCEPT !.user = user], {"user"})
           /\ [db EXCEPT !.user = user].user = user
BY DEF HasFields, DatabaseFields, Only

LEMMA FailuresReplaced ==
    ASSUME NEW db, NEW failed, HasFields(db, DatabaseFields)
    PROVE  /\ Only(db, [db EXCEPT !.failures = failed], {"failures"})
           /\ [db EXCEPT !.failures = failed].failures = failed
BY DEF HasFields, DatabaseFields, Only

LEMMA GeneralReplaced ==
    ASSUME NEW db, NEW general, HasFields(db, DatabaseFields)
    PROVE  /\ Only(db, [db EXCEPT !.general = general], {"general"})
           /\ [db EXCEPT !.general = general].general = general
BY DEF HasFields, DatabaseFields, Only

LEMMA PendingReplaced ==
    ASSUME NEW db, NEW pending, HasFields(db, DatabaseFields)
    PROVE  /\ Only(db, [db EXCEPT !.pending = pending], {"pending"})
           /\ [db EXCEPT !.pending = pending].pending = pending
BY DEF HasFields, DatabaseFields, Only

LEMMA TagsReplaced ==
    ASSUME NEW db, NEW tags, HasFields(db, DatabaseFields)
    PROVE  /\ Only(db, [db EXCEPT !.tags = tags], {"tags"})
           /\ [db EXCEPT !.tags = tags].tags = tags
BY DEF HasFields, DatabaseFields, Only

LEMMA TablesCreated ==
    ASSUME NEW db, HasFields(db, DatabaseFields)
    PROVE  LET next == CreateTables(db) IN
           /\ Only(db, next, {"shape", "revision", "perf"})
           /\ next.shape = IF db.shape = {} THEN NewLibrary ELSE db.shape \cup Membership
           /\ next.revision = IF db.revision = 0 THEN 1 ELSE db.revision
           /\ next.perf = IF db.perf = NoRow THEN 0 ELSE db.perf
<1> DEFINE shape == IF db.shape = {} THEN NewLibrary ELSE db.shape \cup Membership
           revision == IF db.revision = 0 THEN 1 ELSE db.revision
           version == IF db.perf = NoRow THEN 0 ELSE db.perf
           next == [db EXCEPT !.shape = shape, !.revision = revision, !.perf = version]
<1>1. next = CreateTables(db)
  BY DEF CreateTables
<1>2. /\ Only(db, next, {"shape", "revision", "perf"})
      /\ next.shape = shape /\ next.revision = revision /\ next.perf = version
  <2> HIDE DEF shape, revision, version
  <2> QED
    BY DEF HasFields, DatabaseFields, Only
<1> QED
  BY <1>1, <1>2

\* One column of the assets changed.
Rowed(db, next, column) ==
    /\ Only(db, next, {"assets"})
    /\ DOMAIN next.assets = DOMAIN db.assets
    /\ HasFields(next.assets, DOMAIN db.assets)
    /\ \A id \in DOMAIN db.assets :
          /\ HasFields(next.assets[id], AssetFields)
          /\ \A f \in AssetFields \ {column} : next.assets[id][f] = db.assets[id][f]

LEMMA RowsReplaced ==
    ASSUME NEW db, NEW rows, NEW next, NEW column, Plain(db), next = [db EXCEPT !.assets = rows],
           rows = [id \in DOMAIN db.assets |-> rows[id]],
           \A id \in DOMAIN db.assets :
              /\ HasFields(rows[id], AssetFields)
              /\ \A f \in AssetFields \ {column} : rows[id][f] = db.assets[id][f]
    PROVE  Rowed(db, next, column) /\ next.assets = rows
<1>1. Only(db, next, {"assets"}) /\ next.assets = rows
  BY AssetsReplaced DEF Plain, Retag
<1>2. DOMAIN rows = DOMAIN db.assets
  OBVIOUS
<1> QED
  BY <1>1, <1>2 DEF Rowed, HasFields

LEMMA NamesFilled ==
    ASSUME NEW db, NEW next, Plain(db), next = FillFileNames(db)
    PROVE  /\ Rowed(db, next, "name")
           /\ \A id \in DOMAIN db.assets :
                 LET row == db.assets[id] IN
                 /\ trim(row.name) = Unnamed => next.assets[id].name = Last(row.path)
                 /\ trim(row.name) # Unnamed => next.assets[id] = row
<1> DEFINE New(row) == IF trim(row.name) = Unnamed THEN [row EXCEPT !.name = Last(row.path)] ELSE row
           rows == [id \in DOMAIN db.assets |-> New(db.assets[id])]
<1>1. next = [db EXCEPT !.assets = rows]
  BY DEF FillFileNames, UpdateAssets
<1>2. \A id \in DOMAIN db.assets : HasFields(db.assets[id], AssetFields)
  BY DEF Plain, Retag
<1>3. ASSUME NEW row, HasFields(row, AssetFields)
      PROVE  /\ HasFields(New(row), AssetFields)
             /\ \A f \in AssetFields \ {"name"} : New(row)[f] = row[f]
             /\ trim(row.name) = Unnamed => New(row).name = Last(row.path)
             /\ trim(row.name) # Unnamed => New(row) = row
  BY <1>3 DEF HasFields, AssetFields
<1> HIDE DEF New
<1>4. /\ rows = [id \in DOMAIN db.assets |-> rows[id]]
      /\ \A id \in DOMAIN db.assets :
            /\ HasFields(rows[id], AssetFields)
            /\ \A f \in AssetFields \ {"name"} : rows[id][f] = db.assets[id][f]
  BY <1>2, <1>3
<1>5. \A id \in DOMAIN db.assets :
         LET row == db.assets[id] IN
         /\ trim(row.name) = Unnamed => rows[id].name = Last(row.path)
         /\ trim(row.name) # Unnamed => rows[id] = row
  BY <1>2, <1>3
<1> HIDE DEF rows
<1>6. Rowed(db, next, "name") /\ next.assets = rows
  BY <1>1, <1>4, RowsReplaced
<1> QED
  BY <1>5, <1>6

LEMMA KeysLowered ==
    ASSUME NEW db, NEW next, Plain(db), next = LowerKeys(db)
    PROVE  /\ Rowed(db, next, "key")
           /\ \A id \in DOMAIN db.assets :
                 LET row == db.assets[id] IN
                 /\ row.key = Unnamed => next.assets[id].key = lower(row.name)
                 /\ row.key # Unnamed => next.assets[id].key = row.key
<1> DEFINE New(row) == IF row.key = Unnamed THEN [row EXCEPT !.key = lower(row.name)] ELSE row
           rows == [id \in DOMAIN db.assets |-> New(db.assets[id])]
<1>1. next = [db EXCEPT !.assets = rows]
  BY DEF LowerKeys, UpdateAssets
<1>2. \A id \in DOMAIN db.assets : HasFields(db.assets[id], AssetFields)
  BY DEF Plain, Retag
<1>3. ASSUME NEW row, HasFields(row, AssetFields)
      PROVE  /\ HasFields(New(row), AssetFields)
             /\ \A f \in AssetFields \ {"key"} : New(row)[f] = row[f]
             /\ row.key = Unnamed => New(row).key = lower(row.name)
             /\ row.key # Unnamed => New(row).key = row.key
  BY <1>3 DEF HasFields, AssetFields
<1> HIDE DEF New
<1>4. /\ rows = [id \in DOMAIN db.assets |-> rows[id]]
      /\ \A id \in DOMAIN db.assets :
            /\ HasFields(rows[id], AssetFields)
            /\ \A f \in AssetFields \ {"key"} : rows[id][f] = db.assets[id][f]
  BY <1>2, <1>3
<1>5. \A id \in DOMAIN db.assets :
         LET row == db.assets[id] IN
         /\ row.key = Unnamed => rows[id].key = lower(row.name)
         /\ row.key # Unnamed => rows[id].key = row.key
  BY <1>2, <1>3
<1> HIDE DEF rows
<1>6. Rowed(db, next, "key") /\ next.assets = rows
  BY <1>1, <1>4, RowsReplaced
<1> QED
  BY <1>5, <1>6

LEMMA GroupsLowered ==
    ASSUME NEW db, NEW next, Plain(db), next = LowerGroups(db)
    PROVE  /\ Rowed(db, next, "group_key")
           /\ \A id \in DOMAIN db.assets :
                 LET row == db.assets[id] IN
                 /\ trim(row.group) # Unnamed => next.assets[id].group_key = GroupKey(row.group)
                 /\ trim(row.group) = Unnamed => next.assets[id].group_key = row.group_key
<1> DEFINE New(row) == IF trim(row.group) # Unnamed
                       THEN [row EXCEPT !.group_key = GroupKey(row.group)] ELSE row
           rows == [id \in DOMAIN db.assets |-> New(db.assets[id])]
<1>1. next = [db EXCEPT !.assets = rows]
  BY DEF LowerGroups, UpdateAssets
<1>2. \A id \in DOMAIN db.assets : HasFields(db.assets[id], AssetFields)
  BY DEF Plain, Retag
<1>3. ASSUME NEW row, HasFields(row, AssetFields)
      PROVE  /\ HasFields(New(row), AssetFields)
             /\ \A f \in AssetFields \ {"group_key"} : New(row)[f] = row[f]
             /\ trim(row.group) # Unnamed => New(row).group_key = GroupKey(row.group)
             /\ trim(row.group) = Unnamed => New(row).group_key = row.group_key
  BY <1>3 DEF HasFields, AssetFields
<1> HIDE DEF New
<1>4. /\ rows = [id \in DOMAIN db.assets |-> rows[id]]
      /\ \A id \in DOMAIN db.assets :
            /\ HasFields(rows[id], AssetFields)
            /\ \A f \in AssetFields \ {"group_key"} : rows[id][f] = db.assets[id][f]
  BY <1>2, <1>3
<1>5. \A id \in DOMAIN db.assets :
         LET row == db.assets[id] IN
         /\ trim(row.group) # Unnamed => rows[id].group_key = GroupKey(row.group)
         /\ trim(row.group) = Unnamed => rows[id].group_key = row.group_key
  BY <1>2, <1>3
<1> HIDE DEF rows
<1>6. Rowed(db, next, "group_key") /\ next.assets = rows
  BY <1>1, <1>4, RowsReplaced
<1> QED
  BY <1>5, <1>6

CanonicalKeys(db) == UpdateAssets(db, LAMBDA row : [row EXCEPT !.key = canonical_key(row.name)])

LEMMA KeysCanonical ==
    ASSUME NEW db, NEW next, Plain(db), next = CanonicalKeys(db)
    PROVE  /\ Rowed(db, next, "key")
           /\ \A id \in DOMAIN db.assets : next.assets[id].key = canonical_key(db.assets[id].name)
<1> DEFINE New(row) == [row EXCEPT !.key = canonical_key(row.name)]
           rows == [id \in DOMAIN db.assets |-> New(db.assets[id])]
<1>1. next = [db EXCEPT !.assets = rows]
  BY DEF CanonicalKeys, UpdateAssets
<1>2. \A id \in DOMAIN db.assets : HasFields(db.assets[id], AssetFields)
  BY DEF Plain, Retag
<1>3. ASSUME NEW row, HasFields(row, AssetFields)
      PROVE  /\ HasFields(New(row), AssetFields)
             /\ \A f \in AssetFields \ {"key"} : New(row)[f] = row[f]
             /\ New(row).key = canonical_key(row.name)
  BY <1>3 DEF HasFields, AssetFields
<1> HIDE DEF New
<1>4. /\ rows = [id \in DOMAIN db.assets |-> rows[id]]
      /\ \A id \in DOMAIN db.assets :
            /\ HasFields(rows[id], AssetFields)
            /\ \A f \in AssetFields \ {"key"} : rows[id][f] = db.assets[id][f]
  BY <1>2, <1>3
<1>5. \A id \in DOMAIN db.assets : rows[id].key = canonical_key(db.assets[id].name)
  BY <1>2, <1>3
<1> HIDE DEF rows
<1>6. Rowed(db, next, "key") /\ next.assets = rows
  BY <1>1, <1>4, RowsReplaced
<1> QED
  BY <1>5, <1>6
-----------------------------------------------------------------------------
(* migrate_canonical_keys_and_tags and the tag editors.                    *)

UsedRows(db) == {pair[2] : pair \in db.tagged}

LEMMA OrphansCleaned ==
    ASSUME NEW db, NEW next, Plain(db), Linked(db), next = CleanupOrphanTags(db)
    PROVE  /\ Retag(db, next) /\ Linked(next)
           /\ next.assets = db.assets /\ next.tagged = db.tagged
           /\ next.tags = UsedRows(db) /\ next.tags \subseteq db.tags
<1>1. Only(db, next, {"tags"}) /\ next.tags = UsedRows(db)
  BY TagsReplaced DEF CleanupOrphanTags, UsedRows, Plain, Retag
<1>2. next.assets = db.assets /\ next.tagged = db.tagged
  BY <1>1 DEF Only, DatabaseFields
<1>3. Retag(db, next)
  BY <1>1, <1>2 DEF Retag, Only, Plain
<1>4. next.tags \subseteq db.tags
  BY <1>1 DEF UsedRows, Linked
<1>5. Linked(next)
  BY <1>1, <1>2 DEF Linked, UsedRows
<1> QED
  BY <1>1, <1>2, <1>3, <1>4, <1>5

LEMMA Bumped ==
    ASSUME NEW db, NEW next, HasFields(db, DatabaseFields), next = BumpLibraryRevision(db)
    PROVE  /\ Only(db, next, {"revision", "general"})
           /\ next.revision = db.revision + 1 /\ next.general = db.revision + 1
<1> DEFINE n == db.revision + 1
<1>1. next = [db EXCEPT !.revision = n, !.general = n]
  BY DEF BumpLibraryRevision
<1> HIDE DEF n
<1>2. Only(db, next, {"revision", "general"}) /\ next.revision = n /\ next.general = n
  BY <1>1 DEF HasFields, DatabaseFields, Only
<1> QED
  BY <1>2 DEF n

\* What the migration reads is finite, and what it makes of it canonical.
LEMMA LegacyTagsFinite ==
    ASSUME NEW db, NEW id, Linked(db)
    PROVE  IsFiniteSet(LegacyTags(db, id))
<1> DEFINE T == TagsOf(db, id)
           U == {parse_legacy_tags(name) : name \in ListAssetTags(db, id)}
           f == [name \in T |-> parse_legacy_tags(lower(trim(name)))]
<1>1. IsFiniteSet(T)
  BY FiniteTags DEF Linked
<1>2. f \in Surjection(T, U)
  BY DEF Surjection, ListAssetTags
<1>3. IsFiniteSet(U)
  BY <1>1, <1>2, FS_Surjection
<1>4. \A pieces \in U : IsFiniteSet(pieces)
  BY Laws DEF LawsHold
<1>5. IsFiniteSet(UNION U)
  <2> HIDE DEF U
  <2> QED
    BY <1>3, <1>4, FS_UNION
<1> QED
  BY <1>5 DEF LegacyTags

\* A union of lists, normalized: the normalized pieces.
LEMMA NormalizedUnion ==
    ASSUME NEW names
    PROVE  \A tag : tag \in normalize_tags(UNION {parse_legacy_tags(name) : name \in names})
                      <=> \E name \in names : tag \in Pieces(name)
BY DEF normalize_tags, Pieces

\* What a search finds, before and after: the pieces of the tags.
TagsFound(db, id) == normalize_tags(UNION {parse_legacy_tags(name) : name \in TagsOf(db, id)})

LEMMA FoundByFolded ==
    ASSUME NEW db, NEW id
    PROVE  \A tag : tag \in TagsFound(db, id) <=> \E name \in ListAssetTags(db, id) : tag \in Pieces(name)
<1>1. \A tag : tag \in TagsFound(db, id) <=> \E name \in TagsOf(db, id) : tag \in Pieces(name)
  BY NormalizedUnion DEF TagsFound
<1>2. \A name : Pieces(Fold(name)) = Pieces(name)
  BY FoldedOnce
<1>3. ListAssetTags(db, id) = {Fold(name) : name \in TagsOf(db, id)}
  BY DEF ListAssetTags, Fold
<1> QED
  BY <1>1, <1>2, <1>3

LEMMA LegacyTagsFound ==
    ASSUME NEW db, NEW id
    PROVE  normalize_tags(LegacyTags(db, id)) = TagsFound(db, id)
<1>1. \A tag : tag \in normalize_tags(LegacyTags(db, id))
                 <=> \E name \in ListAssetTags(db, id) : tag \in Pieces(name)
  BY NormalizedUnion DEF LegacyTags
<1> QED
  BY <1>1, FoundByFolded DEF TagsFound

LEMMA FoundIsCanonical ==
    ASSUME NEW db, NEW id, NEW tag \in TagsFound(db, id)
    PROVE  Canonical(tag)
BY FoundByFolded, PiecesAreCanonical

\* An asset whose tags were replaced by what was found keeps them.
LEMMA FoundAgain ==
    ASSUME NEW db, NEW id, NEW next, ListAssetTags(next, id) = TagsFound(db, id)
    PROVE  TagsFound(next, id) = TagsFound(db, id)
<1>1. \A name \in TagsFound(db, id) : Pieces(name) = {name}
  BY FoundIsCanonical, CanonicalPieces
<1>2. \A tag : tag \in TagsFound(next, id) <=> \E name \in TagsFound(db, id) : tag \in Pieces(name)
  BY FoundByFolded
<1>3. \A tag : tag \in TagsFound(next, id) <=> tag \in TagsFound(db, id)
  BY <1>1, <1>2
<1> QED
  BY <1>3 DEF TagsFound, normalize_tags

\* What a migration leaves alone.
Migrates(db, next) ==
    /\ Only(db, next, {"assets", "tags", "tagged", "revision", "general", "perf"})
    /\ DOMAIN next.assets = DOMAIN db.assets
    /\ HasFields(next.assets, DOMAIN db.assets)
    /\ \A id \in DOMAIN db.assets :
          /\ HasFields(next.assets[id], AssetFields)
          /\ \A f \in AssetFields \ {"key", "count"} : next.assets[id][f] = db.assets[id][f]

\* Every row of tags is used, but for those that were left.
AllUsed(db) == \A name \in db.tags : name \in Leftovers \/ \E pair \in db.tagged : pair[2] = name

Migratable(db) ==
    /\ Plain(db) /\ Linked(db) /\ NoBlank(db)
    /\ IsFiniteSet(DOMAIN db.assets) /\ DOMAIN db.assets \subseteq Nat \ {0}

Migrated(db, next) ==
    /\ Migrates(db, next)
    /\ next.perf = 3
    /\ \/ next.revision = db.revision /\ next.general = db.general
       \/ next.revision = db.revision + 1 /\ next.general = db.revision + 1
    /\ Linked(next) /\ next.tags = UsedRows(next)
    /\ \A id \in DOMAIN db.assets :
          /\ next.assets[id].key = canonical_key(db.assets[id].name)
          /\ ListAssetTags(next, id) = TagsFound(db, id)
    /\ CountsRight(db) => CountsRight(next)
    /\ AllUsed(db) => \A row \in next.tags : Fold(row) = row \/ row \in Leftovers

LEMMA KeyedForMigration ==
    ASSUME NEW db, NEW keyed, NEW names, Migratable(db), keyed = CanonicalKeys(db),
           names = [id \in DOMAIN db.assets |-> LegacyTags(db, id)]
    PROVE  /\ Rowed(db, keyed, "key") /\ Taggable(keyed, names)
           /\ keyed.tags = db.tags /\ keyed.tagged = db.tagged
           /\ CountsRight(db) => CountsRight(keyed)
           /\ AllUsed(db) => RowsDue(keyed, names, 0)
<1>1. /\ Rowed(db, keyed, "key")
      /\ \A id \in DOMAIN db.assets : keyed.assets[id].key = canonical_key(db.assets[id].name)
  BY KeysCanonical DEF Migratable
<1>2. keyed.tags = db.tags /\ keyed.tagged = db.tagged /\ DOMAIN keyed.assets = DOMAIN db.assets
  BY <1>1 DEF Rowed, Only, DatabaseFields
<1>3. Plain(keyed)
  BY <1>1 DEF Rowed, Only, Plain, Retag
<1>4. Linked(keyed) /\ NoBlank(keyed)
  BY <1>2 DEF Linked, NoBlank, Migratable
<1>5. DOMAIN names = DOMAIN keyed.assets /\ \A id \in DOMAIN names : IsFiniteSet(names[id])
  BY <1>2, LegacyTagsFinite DEF Migratable
<1>6. Taggable(keyed, names)
  BY <1>2, <1>3, <1>4, <1>5 DEF Taggable, Migratable
<1>7. CountsRight(db) => CountsRight(keyed)
  <2>1. \A id \in DOMAIN db.assets : keyed.assets[id].count = db.assets[id].count
    BY <1>1 DEF Rowed, AssetFields
  <2>2. \A id : CountOf(keyed, id) = CountOf(db, id)
    BY <1>2, CountByLinks
  <2> QED
    BY <1>2, <2>1, <2>2 DEF CountsRight
<1>8. ASSUME AllUsed(db), NEW row \in keyed.tags, row \notin Leftovers
      PROVE  \E p \in keyed.tagged : p[2] = row /\ p[1] \in DOMAIN names /\ p[1] > 0
  <2>1. PICK p \in db.tagged : p[2] = row
    BY <1>2, <1>8 DEF AllUsed
  <2>2. p[1] \in DOMAIN db.assets
    BY DEF Linked, Migratable
  <2>3. p[1] > 0
    BY <2>2 DEF Migratable
  <2> QED
    BY <1>2, <1>5, <2>1, <2>2, <2>3
<1> QED
  BY <1>1, <1>2, <1>6, <1>7, <1>8 DEF RowsDue

\* The end of the migration: the revision moves when the loop changed a row.
SettledFrom(before, db) ==
    [IF db = before THEN CleanupOrphanTags(db)
     ELSE BumpLibraryRevision(CleanupOrphanTags(db)) EXCEPT !.perf = 3]

LEMMA MigrationSettles ==
    ASSUME NEW before, NEW db, NEW next, Plain(db), Linked(db), next = SettledFrom(before, db)
    PROVE  /\ Only(db, next, {"tags", "revision", "general", "perf"})
           /\ next.perf = 3 /\ next.tags = UsedRows(db) /\ next.tags \subseteq db.tags
           /\ \/ next.revision = db.revision /\ next.general = db.general
              \/ next.revision = db.revision + 1 /\ next.general = db.revision + 1
<1> DEFINE clean == CleanupOrphanTags(db)
           noted == IF db = before THEN clean ELSE BumpLibraryRevision(clean)
<1>1. /\ Retag(db, clean) /\ clean.assets = db.assets /\ clean.tagged = db.tagged
      /\ clean.tags = UsedRows(db) /\ clean.tags \subseteq db.tags
  <2> HIDE DEF clean
  <2>1. clean = CleanupOrphanTags(db)
    BY DEF clean
  <2> QED
    BY <2>1, OrphansCleaned
<1>2. Only(db, clean, {"tags"}) /\ HasFields(clean, DatabaseFields)
  BY <1>1 DEF Retag, Only, DatabaseFields
<1>3. /\ Only(db, noted, {"tags", "revision", "general"}) /\ noted.tags = clean.tags
      /\ \/ noted.revision = db.revision /\ noted.general = db.general
         \/ noted.revision = db.revision + 1 /\ noted.general = db.revision + 1
  <2>1. CASE db = before
    BY <1>2, <2>1 DEF Only, DatabaseFields
  <2>2. CASE db # before
    <3> HIDE DEF clean
    <3>1. noted = BumpLibraryRevision(clean)
      BY <2>2
    <3> HIDE DEF noted
    <3>2. /\ Only(clean, noted, {"revision", "general"})
          /\ noted.revision = clean.revision + 1 /\ noted.general = clean.revision + 1
      BY <1>2, <3>1, Bumped
    <3>3. clean.revision = db.revision /\ noted.tags = clean.tags
      BY <1>2, <3>2 DEF Only, DatabaseFields
    <3> QED
      BY <1>2, <3>2, <3>3 DEF Only
  <2> QED
    BY <2>1, <2>2
<1>4. next = [noted EXCEPT !.perf = 3]
  BY DEF SettledFrom
<1> HIDE DEF clean, noted
<1>5. Only(noted, next, {"perf"}) /\ next.perf = 3
  BY <1>3, <1>4, PerfReplaced DEF Only
<1>6. Only(db, next, {"tags", "revision", "general", "perf"})
  BY <1>3, <1>5 DEF Only
<1>7. next.tags = noted.tags /\ next.revision = noted.revision /\ next.general = noted.general
  BY <1>5 DEF Only, DatabaseFields
<1> QED
  BY <1>1, <1>3, <1>5, <1>6, <1>7

LEMMA Migration ==
    ASSUME NEW db, NEW next, Migratable(db), next = MigrateCanonicalKeysAndTags(db)
    PROVE  Migrated(db, next)
<1> DEFINE keyed == CanonicalKeys(db)
           names == [id \in DOMAIN db.assets |-> LegacyTags(db, id)]
           set == SetTagsInOrder(keyed, names)
<1>1. next = SettledFrom(db, set)
  BY DEF MigrateCanonicalKeysAndTags, CanonicalKeys, SettledFrom
<1>2. set = SetTagsInOrder(keyed, names) /\ keyed = CanonicalKeys(db)
  OBVIOUS
<1>3. /\ names = [id \in DOMAIN db.assets |-> LegacyTags(db, id)]
      /\ DOMAIN names = DOMAIN db.assets
      /\ \A id \in DOMAIN names : names[id] = LegacyTags(db, id)
  OBVIOUS
<1> HIDE DEF keyed, names, set
<1>4. /\ Rowed(db, keyed, "key") /\ Taggable(keyed, names)
      /\ keyed.tags = db.tags /\ keyed.tagged = db.tagged
      /\ CountsRight(db) => CountsRight(keyed)
      /\ AllUsed(db) => RowsDue(keyed, names, 0)
  BY <1>2, <1>3, KeyedForMigration
<1>5. \A id \in DOMAIN db.assets : keyed.assets[id].key = canonical_key(db.assets[id].name)
  BY <1>2, KeysCanonical DEF Migratable
<1>6. /\ Retag(keyed, set) /\ Linked(set) /\ NoBlank(set)
      /\ CountsRight(keyed) => CountsRight(set)
      /\ RowsDue(keyed, names, 0) => \A row \in set.tags : Fold(row) = row \/ row \in Leftovers
      /\ \A j \in DOMAIN names : ListAssetTags(set, j) = normalize_tags(names[j])
      /\ \A j : j \notin DOMAIN names => ListAssetTags(set, j) = ListAssetTags(keyed, j)
  <2>1. Taggable(keyed, names) /\ set = SetTagsInOrder(keyed, names)
    BY <1>2, <1>4
  <2> QED
    BY ONLY <2>1, TagsSetInOrder
<1>7. Plain(set)
  BY <1>6, RetagPlain
<1>8. /\ Only(set, next, {"tags", "revision", "general", "perf"})
      /\ next.perf = 3 /\ next.tags = UsedRows(set) /\ next.tags \subseteq set.tags
      /\ \/ next.revision = set.revision /\ next.general = set.general
         \/ next.revision = set.revision + 1 /\ next.general = set.revision + 1
  BY <1>1, <1>6, <1>7, MigrationSettles
<1>9. next.assets = set.assets /\ next.tagged = set.tagged
  BY <1>8 DEF Only, DatabaseFields
<1>10. set.revision = db.revision /\ set.general = db.general
  BY <1>4, <1>6 DEF Retag, Rowed, Only, DatabaseFields
<1>11. Migrates(db, next)
  <2>1. Only(db, next, {"assets", "tags", "tagged", "revision", "general", "perf"})
    BY <1>4, <1>6, <1>8 DEF Only, Rowed, Retag
  <2>2. /\ DOMAIN next.assets = DOMAIN db.assets /\ HasFields(next.assets, DOMAIN db.assets)
        /\ \A id \in DOMAIN db.assets : HasFields(next.assets[id], AssetFields)
    BY <1>4, <1>6, <1>9 DEF Rowed, Retag
  <2>3. \A id \in DOMAIN db.assets : \A f \in AssetFields \ {"key", "count"} :
           next.assets[id][f] = db.assets[id][f]
    BY <1>4, <1>6, <1>9 DEF Rowed, Retag
  <2> QED
    BY <2>1, <2>2, <2>3 DEF Migrates
<1>12. \A id \in DOMAIN db.assets :
          /\ next.assets[id].key = canonical_key(db.assets[id].name)
          /\ ListAssetTags(next, id) = TagsFound(db, id)
  <2> TAKE id \in DOMAIN db.assets
  <2>1. next.assets[id].key = keyed.assets[id].key
    BY <1>4, <1>6, <1>9 DEF Retag, AssetFields, Rowed
  <2>2. ListAssetTags(next, id) = ListAssetTags(set, id)
    BY <1>9, CountByLinks
  <2>3. ListAssetTags(set, id) = normalize_tags(LegacyTags(db, id))
    BY <1>3, <1>6
  <2> QED
    BY <1>5, <2>1, <2>2, <2>3, LegacyTagsFound
<1>13. next.tags = UsedRows(next)
  BY <1>8, <1>9 DEF UsedRows
<1>14. Linked(next)
  BY <1>6, <1>9, <1>13 DEF Linked, UsedRows
<1>15. CountsRight(db) => CountsRight(next)
  <2>1. CountsRight(db) => CountsRight(set)
    BY <1>4, <1>6
  <2>2. \A id : CountOf(next, id) = CountOf(set, id)
    BY <1>9, CountByLinks
  <2> QED
    BY <1>9, <2>1, <2>2 DEF CountsRight
<1>16. AllUsed(db) => \A row \in next.tags : Fold(row) = row \/ row \in Leftovers
  BY <1>4, <1>6, <1>8
<1> QED
  BY <1>8, <1>10, <1>11, <1>12, <1>13, <1>14, <1>15, <1>16 DEF Migrated
-----------------------------------------------------------------------------
(* Where the statements of a start have brought a library.                 *)

NamesThere(db) == \A id \in DOMAIN db.assets : trim(db.assets[id].name) # Unnamed
KeysThere(db) == \A id \in DOMAIN db.assets : db.assets[id].key = lower(db.assets[id].name)
GroupsThere(db) == \A id \in DOMAIN db.assets : db.assets[id].group_key = GroupKey(db.assets[id].group)

ShapeReached(db, at) ==
    /\ at > 1 => "core_tables" \in db.shape /\ Membership \subseteq db.shape
    /\ \A i \in 2 .. 6 : at > i => Statements[i] \in db.shape
    /\ at > 8 => Performance \subseteq db.shape
    /\ at > 18 => "source_record_version" \in db.shape

MarkersReached(db, at, version) ==
    /\ at > 1 => db.perf >= 0 /\ db.revision >= 1
    /\ at \in 10 .. 13 => version = db.perf
    /\ at > 13 => db.perf >= 1
    /\ at \in 14 .. 15 => db.perf = IF version < 1 THEN 1 ELSE version
    /\ at > 15 => db.perf >= 2
    /\ at = 16 => db.perf = IF version < 2 THEN 2 ELSE version
    /\ at > 16 => db.perf = 3
    /\ at > 17 => db.app = "tagrove"
    /\ at > 20 => db.user = SCHEMA_VERSION

DataReached(db, at, version) ==
    /\ at > 7 => NamesThere(db)
    /\ at \in 11 .. 13 /\ version < 1 => KeysThere(db)
    /\ at \in 12 .. 13 /\ version < 1 => GroupsThere(db)
    /\ at = 13 /\ version < 1 => CountsRight(db)
    /\ at = 15 => AssetsAssigned(db)

Reached(db, at, version) ==
    ShapeReached(db, at) /\ MarkersReached(db, at, version) /\ DataReached(db, at, version)

\* What the release computes is there, and only a left row has a spelling
\* of its own.
UpgradedRight(db) == ColumnsRight(db) /\ (db.perf >= 3 => TagsUpgraded(db))

\* The columns of a library without a version: empty, or right.
EmptyOrRight(db) ==
    \A id \in DOMAIN db.assets :
        /\ trim(Last(db.assets[id].path)) # Unnamed
        /\ db.assets[id].key # Unnamed =>
              trim(db.assets[id].name) # Unnamed /\ db.assets[id].key = lower(db.assets[id].name)
        /\ trim(db.assets[id].group) = Unnamed => db.assets[id].group_key = Unnamed

TagsNamed(db) == \A name \in db.tags : trim(name) # ""

\* What the version of a library vouches for, at every start.
Upheld(db) ==
    /\ ForeignKeysHold(db)
    /\ db.shape # {} => "core_tables" \in db.shape
    /\ db.perf < 1 => EmptyOrRight(db)
    /\ db.perf >= 1 => UpgradedRight(db)
    /\ db.perf >= 2 => AssetsAssigned(db)
    /\ db.perf < 3 => TagsNamed(db) /\ AllUsed(db)

\* A library under way: what the versions it recorded vouch for is there,
\* and what the statements before this one had to bring.
Underway(db, at, version) ==
    IsDatabase(db) /\ BelongsHere(db) /\ Upheld(db) /\ Reached(db, at, version)

LEMMA ContentKept ==
    ASSUME NEW db, NEW next, DOMAIN next.assets = DOMAIN db.assets, next.roots = db.roots,
           \A id \in DOMAIN db.assets :
              /\ next.assets[id].path = db.assets[id].path
              /\ next.assets[id].group = db.assets[id].group
              /\ next.assets[id].thumb = db.assets[id].thumb
              /\ TagsFound(next, id) = TagsFound(db, id)
    PROVE  Content(next) = Content(db)
BY DEF Content, TagsFound

\* The tables the derived columns depend on are the same.
SameData(db, next) ==
    /\ next.assets = db.assets /\ next.tags = db.tags /\ next.tagged = db.tagged
    /\ next.roots = db.roots /\ next.members = db.members

LEMMA SameDataSame ==
    ASSUME NEW db, NEW next, SameData(db, next)
    PROVE  /\ Content(next) = Content(db)
           /\ ForeignKeysHold(next) <=> ForeignKeysHold(db)
           /\ AssetsAssigned(next) <=> AssetsAssigned(db)
           /\ NamesThere(next) <=> NamesThere(db)
           /\ KeysThere(next) <=> KeysThere(db)
           /\ GroupsThere(next) <=> GroupsThere(db)
           /\ CountsRight(next) <=> CountsRight(db)
           /\ next.perf = db.perf => (UpgradedRight(next) <=> UpgradedRight(db))
           /\ next.perf = db.perf => (DerivedRight(next) <=> DerivedRight(db))
<1>1. \A id : TagsFound(next, id) = TagsFound(db, id) /\ CountOf(next, id) = CountOf(db, id)
  BY CountByLinks DEF SameData, TagsFound
<1>2. Content(next) = Content(db)
  BY <1>1, ContentKept DEF SameData
<1>3. ForeignKeysHold(next) <=> ForeignKeysHold(db)
  BY DEF SameData, ForeignKeysHold
<1>4. AssetsAssigned(next) <=> AssetsAssigned(db)
  BY DEF SameData, AssetsAssigned
<1>5. NamesThere(next) <=> NamesThere(db)
  BY DEF SameData, NamesThere
<1>6. KeysThere(next) <=> KeysThere(db)
  BY DEF SameData, KeysThere
<1>7. GroupsThere(next) <=> GroupsThere(db)
  BY DEF SameData, GroupsThere
<1>8. CountsRight(next) <=> CountsRight(db)
  BY <1>1 DEF SameData, CountsRight
<1>9. next.perf = db.perf => /\ (UpgradedRight(next) <=> UpgradedRight(db))
                             /\ (DerivedRight(next) <=> DerivedRight(db))
  <2> SUFFICES ASSUME next.perf = db.perf
               PROVE  /\ (UpgradedRight(next) <=> UpgradedRight(db))
                      /\ (DerivedRight(next) <=> DerivedRight(db))
    OBVIOUS
  <2>1. ColumnsRight(next) <=> ColumnsRight(db)
    BY <1>1 DEF SameData, ColumnsRight
  <2>2. TagsUpgraded(next) <=> TagsUpgraded(db)
    BY DEF SameData, TagsUpgraded
  <2> QED
    BY <2>1, <2>2 DEF SameData, UpgradedRight, DerivedRight
<1> QED
  BY <1>2, <1>3, <1>4, <1>5, <1>6, <1>7, <1>8, <1>9

LEMMA NamedIsNotBlank == ASSUME NEW db, TagsNamed(db) PROVE NoBlank(db)
BY FoldedOnce DEF TagsNamed, NoBlank

LEMMA UpheldParts ==
    ASSUME NEW db
    PROVE  Upheld(db) <=>
             /\ ForeignKeysHold(db)
             /\ db.shape # {} => "core_tables" \in db.shape
             /\ db.perf < 1 => EmptyOrRight(db)
             /\ db.perf >= 1 => UpgradedRight(db)
             /\ db.perf >= 2 => AssetsAssigned(db)
             /\ db.perf < 3 => TagsNamed(db) /\ AllUsed(db)
BY DEF Upheld

\* What the first start finds is upheld: what its tags lack of that is what
\* Leftovers names.
LEMMA FoundIsUpheld ==
    ASSUME NEW db \in Found, BelongsHere(db)
    PROVE  IsDatabase(db) /\ Upheld(db)
<1>1. IsDatabase(db) /\ Vouched(db)
  BY FoundAssumption
<1>2. /\ ForeignKeysHold(db)
      /\ db.shape # {} => "core_tables" \in db.shape
      /\ db.perf < 1 => EmptyOrRight(db)
      /\ db.perf >= 1 => ColumnsRight(db)
      /\ db.perf >= 2 => AssetsAssigned(db)
      /\ \A name \in db.tags :
            IF db.perf < 3 THEN trim(name) # "" ELSE CanonicalTag(lower(trim(name)))
  BY <1>1 DEF Vouched, EmptyOrRight
<1>3. \A name \in db.tags :
         \/ name \in Leftovers
         \/ ~(IF db.perf < 3 THEN \A pair \in db.tagged : pair[2] # name ELSE ~CanonicalTag(name))
  BY DEF Leftovers
<1>4. db.perf < 3 => TagsNamed(db) /\ AllUsed(db)
  BY <1>2, <1>3 DEF TagsNamed, AllUsed
<1>5. db.perf >= 3 => TagsUpgraded(db)
  <2>1. SUFFICES ASSUME db.perf >= 3 PROVE TagsUpgraded(db)
    OBVIOUS
  <2>2. ~(db.perf < 3)
    BY <1>1, <2>1 DEF IsDatabase, NoRow
  <2> QED
    BY <1>2, <1>3, <2>2 DEF TagsUpgraded
<1> QED
  BY <1>1, <1>2, <1>4, <1>5, UpheldParts DEF UpgradedRight

DatabaseTypes(db) ==
    /\ db.intact \in BOOLEAN /\ db.pending \in BOOLEAN
    /\ db.user \in Nat /\ db.perf \in NoRow .. 3
    /\ db.revision \in Nat /\ db.general \in Nat

LEMMA DatabaseParts ==
    ASSUME NEW db
    PROVE  IsDatabase(db) <=>
             /\ Plain(db) /\ DatabaseTypes(db)
             /\ IsFiniteSet(DOMAIN db.assets) /\ DOMAIN db.assets \subseteq Nat \ {0}
             /\ \A id \in DOMAIN db.assets : db.assets[id].count \in Nat
             /\ IsFiniteSet(db.tagged) /\ \A pair \in db.tagged : pair = <<pair[1], pair[2]>>
             /\ IsFiniteSet(DOMAIN db.roots)
             /\ DOMAIN db.failures \subseteq DOMAIN db.assets
BY DEF IsDatabase, Plain, Retag, DatabaseTypes

LEMMA SameDataIsDatabase ==
    ASSUME NEW db, NEW next, IsDatabase(db), HasFields(next, DatabaseFields), SameData(db, next),
           DatabaseTypes(next), DOMAIN next.failures \subseteq DOMAIN db.assets
    PROVE  IsDatabase(next)
BY DEF IsDatabase, SameData, DatabaseTypes

LEMMA IsLinked ==
    ASSUME NEW db, IsDatabase(db), ForeignKeysHold(db)
    PROVE  Linked(db)
BY DEF IsDatabase, ForeignKeysHold, Linked

(* Statements that leave the derived columns and what they derive from.    *)

LEMMA ColumnsUnderway ==
    ASSUME NEW db, NEW next, NEW at \in 1 .. 21, NEW version, Underway(db, at, version),
           HasFields(next, DatabaseFields), SameData(db, next), next.perf = db.perf,
           next.app = db.app, next.user = db.user, next.failures = db.failures,
           next.revision = db.revision, next.general = db.general, next.intact = db.intact,
           next.pending = db.pending, db.shape \subseteq next.shape,
           next.shape # {} => "core_tables" \in next.shape
    PROVE  Underway(next, at, version) /\ Content(next) = Content(db)
<1>1. /\ Content(next) = Content(db)
      /\ ForeignKeysHold(next) <=> ForeignKeysHold(db)
      /\ AssetsAssigned(next) <=> AssetsAssigned(db)
      /\ NamesThere(next) <=> NamesThere(db)
      /\ KeysThere(next) <=> KeysThere(db)
      /\ GroupsThere(next) <=> GroupsThere(db)
      /\ CountsRight(next) <=> CountsRight(db)
      /\ next.perf = db.perf => (UpgradedRight(next) <=> UpgradedRight(db))
  BY SameDataSame
<1>2. IsDatabase(next)
  <2>1. DatabaseTypes(next)
    BY DEF Underway, IsDatabase, DatabaseTypes
  <2>2. DOMAIN next.failures \subseteq DOMAIN db.assets
    BY DEF Underway, IsDatabase
  <2> QED
    BY <2>1, <2>2, SameDataIsDatabase DEF Underway
<1>3. BelongsHere(next)
  BY DEF Underway, BelongsHere
<1>4. Upheld(next)
  <2>1. (EmptyOrRight(next) <=> EmptyOrRight(db)) /\ (TagsNamed(next) <=> TagsNamed(db))
          /\ (AllUsed(next) <=> AllUsed(db))
    BY DEF SameData, EmptyOrRight, TagsNamed, AllUsed
  <2>2. Upheld(db)
    BY DEF Underway
  <2> QED
    BY <1>1, <2>1, <2>2, UpheldParts
<1>5. Reached(next, at, version)
  <2>1. Reached(db, at, version)
    BY DEF Underway
  <2>2. ShapeReached(next, at)
    BY <2>1 DEF Reached, ShapeReached
  <2>3. MarkersReached(next, at, version)
    BY <2>1 DEF Reached, MarkersReached
  <2>4. DataReached(next, at, version)
    BY <1>1, <2>1 DEF Reached, DataReached
  <2> QED
    BY <2>2, <2>3, <2>4 DEF Reached
<1> QED
  BY <1>1, <1>2, <1>3, <1>4, <1>5 DEF Underway

LEMMA ColumnsEnsured ==
    ASSUME NEW db, NEW at \in 2 .. 21, NEW version, NEW columns, Underway(db, at, version)
    PROVE  /\ Underway(EnsureColumns(db, columns), at, version)
           /\ Content(EnsureColumns(db, columns)) = Content(db)
           /\ EnsureColumns(db, columns).shape = db.shape \cup columns
<1> DEFINE shape == db.shape \cup columns
           next == EnsureColumns(db, columns)
<1>1. next = [db EXCEPT !.shape = shape]
  BY DEF EnsureColumns
<1>2. HasFields(db, DatabaseFields)
  BY DEF Underway, IsDatabase
<1> HIDE DEF shape, next
<1>3. Only(db, next, {"shape"}) /\ next.shape = shape
  BY <1>1, <1>2, ShapeReplaced
<1>4. /\ HasFields(next, DatabaseFields) /\ SameData(db, next) /\ next.perf = db.perf
      /\ next.app = db.app /\ next.user = db.user /\ next.failures = db.failures
      /\ next.revision = db.revision /\ next.general = db.general /\ next.intact = db.intact
      /\ next.pending = db.pending
  BY <1>3 DEF Only, DatabaseFields, SameData
<1>5. "core_tables" \in db.shape
  BY DEF Underway, Reached, ShapeReached
<1>6. db.shape \subseteq next.shape /\ "core_tables" \in next.shape
  BY <1>3, <1>5 DEF shape
<1>7. Underway(next, at, version) /\ Content(next) = Content(db)
  BY <1>4, <1>6, ColumnsUnderway
<1> QED
  BY <1>3, <1>7 DEF shape, next

LEMMA Statement1 ==
    ASSUME NEW db, NEW next, NEW version, Underway(db, 1, version), next = CreateTables(db)
    PROVE  Underway(next, 2, version) /\ Content(next) = Content(db)
<1>1. /\ Only(db, next, {"shape", "revision", "perf"})
      /\ db.shape = {} => next.shape = NewLibrary
      /\ db.shape # {} => next.shape = db.shape \cup Membership
      /\ next.revision = IF db.revision = 0 THEN 1 ELSE db.revision
      /\ next.perf = IF db.perf = NoRow THEN 0 ELSE db.perf
  BY TablesCreated DEF Underway, IsDatabase
<1>2. /\ HasFields(next, DatabaseFields) /\ SameData(db, next)
      /\ next.app = db.app /\ next.user = db.user /\ next.failures = db.failures
      /\ next.general = db.general /\ next.intact = db.intact /\ next.pending = db.pending
  BY <1>1 DEF Only, DatabaseFields, SameData
<1>3. next.revision \in Nat /\ next.revision >= 1 /\ next.perf \in 0 .. 3
  BY <1>1 DEF Underway, IsDatabase, NoRow
<1>4. /\ db.perf < 1 <=> next.perf < 1
      /\ db.perf >= 1 => next.perf = db.perf
      /\ next.perf >= 1 => next.perf = db.perf
      /\ next.perf < 3 => db.perf < 3
  BY <1>1 DEF Underway, IsDatabase, NoRow
<1>5. "core_tables" \in next.shape /\ Membership \subseteq next.shape
  BY <1>1 DEF NewLibrary, CoreShape, Underway, Upheld
<1>6. IsDatabase(next)
  <2>1. DatabaseTypes(next)
    BY <1>2, <1>3 DEF Underway, IsDatabase, DatabaseTypes, NoRow
  <2> QED
    BY <1>2, <2>1, SameDataIsDatabase DEF Underway, IsDatabase
<1>7. /\ Content(next) = Content(db)
      /\ ForeignKeysHold(next) <=> ForeignKeysHold(db)
      /\ AssetsAssigned(next) <=> AssetsAssigned(db)
      /\ next.perf = db.perf => (UpgradedRight(next) <=> UpgradedRight(db))
  BY <1>2, SameDataSame
<1>8. BelongsHere(next)
  BY <1>2 DEF Underway, BelongsHere
<1>9. Upheld(next)
  <2>1. (EmptyOrRight(next) <=> EmptyOrRight(db)) /\ (TagsNamed(next) <=> TagsNamed(db))
          /\ (AllUsed(next) <=> AllUsed(db))
    BY <1>2 DEF SameData, EmptyOrRight, TagsNamed, AllUsed
  <2>2. Upheld(db)
    BY DEF Underway
  <2>3. /\ ForeignKeysHold(db)
        /\ db.perf < 1 => EmptyOrRight(db)
        /\ db.perf >= 1 => UpgradedRight(db)
        /\ db.perf >= 2 => AssetsAssigned(db)
        /\ db.perf < 3 => TagsNamed(db) /\ AllUsed(db)
    BY <2>2, UpheldParts
  <2>4. /\ ForeignKeysHold(next) /\ "core_tables" \in next.shape
        /\ next.perf < 1 => EmptyOrRight(next)
        /\ next.perf >= 1 => UpgradedRight(next)
        /\ next.perf < 3 => TagsNamed(next) /\ AllUsed(next)
    BY <1>4, <1>5, <1>7, <2>1, <2>3
  <2>5. next.perf >= 2 => AssetsAssigned(next)
    BY <1>3, <1>4, <1>7, <2>3
  <2> QED
    BY <2>4, <2>5, UpheldParts
<1>10. Reached(next, 2, version)
  BY <1>3, <1>5 DEF Reached, ShapeReached, MarkersReached, DataReached
<1> QED
  BY <1>6, <1>7, <1>8, <1>9, <1>10 DEF Underway

LEMMA Statements2To6 ==
    ASSUME NEW db, NEW next, NEW at \in 2 .. 6, NEW version, Underway(db, at, version),
           next = EnsureColumns(db, {Statements[at]})
    PROVE  Underway(next, at + 1, version) /\ Content(next) = Content(db)
<1> DEFINE columns == {Statements[at]}
<1>1. at \in 1 .. 21 /\ at > 1 /\ next = EnsureColumns(db, columns)
  OBVIOUS
<1>2. Statements[at] \in columns
  OBVIOUS
<1> HIDE DEF columns
<1>3. /\ Underway(next, at, version) /\ Content(next) = Content(db)
      /\ next.shape = db.shape \cup columns
  <2>1. at \in 2 .. 21 /\ next = EnsureColumns(db, columns) /\ Underway(db, at, version)
    BY <1>1
  <2> QED
    BY ONLY <2>1, ColumnsEnsured
<1>4. ShapeReached(next, at + 1)
  BY <1>2, <1>3 DEF Underway, Reached, ShapeReached
<1>5. MarkersReached(next, at + 1, version) /\ DataReached(next, at + 1, version)
  BY <1>3 DEF Underway, Reached, MarkersReached, DataReached
<1> QED
  BY <1>3, <1>4, <1>5 DEF Underway, Reached

LEMMA Statement8 ==
    ASSUME NEW db, NEW next, NEW version, Underway(db, 8, version),
           next = EnsureColumns(db, Performance)
    PROVE  Underway(next, 9, version) /\ Content(next) = Content(db)
<1>1. /\ Underway(next, 8, version) /\ Content(next) = Content(db)
      /\ next.shape = db.shape \cup Performance
  BY ColumnsEnsured
<1>2. ShapeReached(next, 9)
  BY <1>1 DEF Underway, Reached, ShapeReached
<1>3. MarkersReached(next, 9, version) /\ DataReached(next, 9, version)
  BY <1>1 DEF Underway, Reached, MarkersReached, DataReached
<1> QED
  BY <1>1, <1>2, <1>3 DEF Underway, Reached

LEMMA Statement9 ==
    ASSUME NEW db, NEW version, Underway(db, 9, version)
    PROVE  Underway(db, 10, db.perf)
<1>0. ShapeReached(db, 9) /\ DataReached(db, 9, version) /\ MarkersReached(db, 9, version)
  BY DEF Underway, Reached
<1>1. ShapeReached(db, 10)
  BY <1>0 DEF ShapeReached
<1>2. DataReached(db, 10, db.perf)
  BY <1>0 DEF DataReached
<1>3. MarkersReached(db, 10, db.perf)
  BY <1>0 DEF MarkersReached
<1> QED
  BY <1>1, <1>2, <1>3 DEF Underway, Reached
(* Statements that derive a column.                                        *)

\* What does not depend on the columns that are derived.
Framed(db, next) ==
    /\ HasFields(next, DatabaseFields)
    /\ next.shape = db.shape /\ next.perf = db.perf /\ next.app = db.app /\ next.user = db.user
    /\ next.revision = db.revision /\ next.general = db.general /\ next.intact = db.intact
    /\ next.pending = db.pending /\ next.failures = db.failures
    /\ next.tags = db.tags /\ next.tagged = db.tagged
    /\ next.roots = db.roots /\ next.members = db.members
    /\ DOMAIN next.assets = DOMAIN db.assets

LEMMA RowedFrames ==
    ASSUME NEW db, NEW next, NEW column, Rowed(db, next, column)
    PROVE  Framed(db, next)
BY DEF Rowed, Only, DatabaseFields, Framed

LEMMA FramedSame ==
    ASSUME NEW db, NEW next, Framed(db, next),
           \A id \in DOMAIN db.assets :
              /\ next.assets[id].path = db.assets[id].path
              /\ next.assets[id].group = db.assets[id].group
              /\ next.assets[id].thumb = db.assets[id].thumb
    PROVE  /\ Content(next) = Content(db)
           /\ BelongsHere(db) => BelongsHere(next)
           /\ ForeignKeysHold(db) => ForeignKeysHold(next)
           /\ AssetsAssigned(db) => AssetsAssigned(next)
           /\ TagsNamed(db) => TagsNamed(next)
           /\ AllUsed(db) => AllUsed(next)
           /\ \A id : CountOf(next, id) = CountOf(db, id)
           /\ \A at : ShapeReached(db, at) => ShapeReached(next, at)
           /\ \A at, version : MarkersReached(db, at, version) => MarkersReached(next, at, version)
<1>1. \A id : TagsFound(next, id) = TagsFound(db, id) /\ CountOf(next, id) = CountOf(db, id)
  BY CountByLinks DEF Framed, TagsFound
<1>2. Content(next) = Content(db)
  BY <1>1, ContentKept DEF Framed
<1>3. BelongsHere(db) => BelongsHere(next)
  BY DEF Framed, BelongsHere
<1>4. ForeignKeysHold(db) => ForeignKeysHold(next)
  BY DEF Framed, ForeignKeysHold
<1>5. AssetsAssigned(db) => AssetsAssigned(next)
  BY DEF Framed, AssetsAssigned
<1>6. (TagsNamed(db) => TagsNamed(next)) /\ (AllUsed(db) => AllUsed(next))
  BY DEF Framed, TagsNamed, AllUsed
<1>7. \A at : ShapeReached(db, at) => ShapeReached(next, at)
  BY DEF Framed, ShapeReached
<1>8. \A at, version : MarkersReached(db, at, version) => MarkersReached(next, at, version)
  BY DEF Framed, MarkersReached
<1> QED
  BY <1>1, <1>2, <1>3, <1>4, <1>5, <1>6, <1>7, <1>8

LEMMA FramedIsDatabase ==
    ASSUME NEW db, NEW next, IsDatabase(db), Framed(db, next),
           HasFields(next.assets, DOMAIN next.assets),
           \A id \in DOMAIN db.assets :
              HasFields(next.assets[id], AssetFields) /\ next.assets[id].count \in Nat
    PROVE  IsDatabase(next)
BY DEF IsDatabase, Framed

\* The library is under way at the next statement when its columns are.
LEMMA DerivesUnderway ==
    ASSUME NEW db, NEW next, NEW at, NEW after, NEW version, Underway(db, at, version),
           IsDatabase(next), Framed(db, next),
           \A id \in DOMAIN db.assets :
              /\ next.assets[id].path = db.assets[id].path
              /\ next.assets[id].group = db.assets[id].group
              /\ next.assets[id].thumb = db.assets[id].thumb,
           db.perf < 1 => EmptyOrRight(next),
           db.perf >= 1 => UpgradedRight(next),
           ShapeReached(db, after), MarkersReached(db, after, version),
           DataReached(next, after, version)
    PROVE  Underway(next, after, version) /\ Content(next) = Content(db)
<1>1. /\ Content(next) = Content(db)
      /\ BelongsHere(db) => BelongsHere(next)
      /\ ForeignKeysHold(db) => ForeignKeysHold(next)
      /\ AssetsAssigned(db) => AssetsAssigned(next)
      /\ TagsNamed(db) => TagsNamed(next)
      /\ AllUsed(db) => AllUsed(next)
      /\ ShapeReached(next, after) /\ MarkersReached(next, after, version)
  BY FramedSame
<1>2. next.perf = db.perf /\ next.shape = db.shape
  BY DEF Framed
<1>3. Upheld(next)
  <2>1. Upheld(db)
    BY DEF Underway
  <2>2. /\ ForeignKeysHold(db)
        /\ db.shape # {} => "core_tables" \in db.shape
        /\ db.perf >= 2 => AssetsAssigned(db)
        /\ db.perf < 3 => TagsNamed(db) /\ AllUsed(db)
    BY <2>1, UpheldParts
  <2> QED
    BY <1>1, <1>2, <2>2, UpheldParts
<1> QED
  BY <1>1, <1>3 DEF Underway, Reached

LEMMA Statement7 ==
    ASSUME NEW db, NEW next, NEW version, Underway(db, 7, version), next = FillFileNames(db)
    PROVE  Underway(next, 8, version) /\ Content(next) = Content(db)
<1>0. IsDatabase(db) /\ Upheld(db) /\ Plain(db)
  BY DatabaseIsPlain DEF Underway
<1>1. /\ Rowed(db, next, "name")
      /\ \A id \in DOMAIN db.assets :
            /\ trim(db.assets[id].name) = Unnamed => next.assets[id].name = Last(db.assets[id].path)
            /\ trim(db.assets[id].name) # Unnamed => next.assets[id] = db.assets[id]
  BY <1>0, NamesFilled
<1>2. Framed(db, next)
  BY <1>1, RowedFrames
<1>3. \A id \in DOMAIN db.assets :
         /\ HasFields(next.assets[id], AssetFields)
         /\ next.assets[id].path = db.assets[id].path
         /\ next.assets[id].group = db.assets[id].group
         /\ next.assets[id].thumb = db.assets[id].thumb
         /\ next.assets[id].key = db.assets[id].key
         /\ next.assets[id].group_key = db.assets[id].group_key
         /\ next.assets[id].count = db.assets[id].count
  BY <1>1 DEF Rowed, AssetFields
<1>4. IsDatabase(next)
  BY <1>0, <1>1, <1>2, <1>3, FramedIsDatabase DEF IsDatabase, Rowed
<1>5. ASSUME db.perf < 1
      PROVE  EmptyOrRight(next) /\ NamesThere(next)
  <2>1. EmptyOrRight(db)
    BY <1>0, <1>5, UpheldParts
  <2> QED
    BY <1>1, <1>2, <1>3, <2>1 DEF EmptyOrRight, NamesThere, Framed
<1>6. ASSUME db.perf >= 1
      PROVE  UpgradedRight(next) /\ NamesThere(next)
  <2>1. UpgradedRight(db)
    BY <1>0, <1>6, UpheldParts
  <2>2. \A id \in DOMAIN db.assets : next.assets[id] = db.assets[id]
    BY <1>1, <2>1 DEF UpgradedRight, ColumnsRight
  <2>3. NamesThere(next)
    BY <1>2, <2>1, <2>2 DEF UpgradedRight, ColumnsRight, NamesThere, Framed
  <2>4. next.assets = db.assets
    BY <1>0, <1>1, <2>2 DEF Rowed, HasFields, IsDatabase
  <2>5. SameData(db, next) /\ next.perf = db.perf
    BY <1>2, <2>4 DEF SameData, Framed
  <2> QED
    BY <2>1, <2>3, <2>5, SameDataSame
<1>7. NamesThere(next)
  BY <1>0, <1>5, <1>6 DEF IsDatabase, NoRow
<1>8. ShapeReached(db, 8) /\ MarkersReached(db, 8, version) /\ DataReached(next, 8, version)
  BY <1>7 DEF Underway, Reached, ShapeReached, MarkersReached, DataReached
<1> QED
  BY <1>2, <1>3, <1>4, <1>5, <1>6, <1>8, DerivesUnderway

\* A version that was recorded already leaves a backfill nothing to do.
LEMMA NothingDue ==
    ASSUME NEW db, NEW at \in 10 .. 13, NEW version, Underway(db, at, version), ~(version < 1)
    PROVE  Underway(db, at + 1, version)
<1>0. ShapeReached(db, at) /\ DataReached(db, at, version) /\ MarkersReached(db, at, version)
  BY DEF Underway, Reached
<1>1. db.perf = version /\ db.perf \in NoRow .. 3
  BY <1>0 DEF MarkersReached, Underway, IsDatabase
<1>2. ShapeReached(db, at + 1)
  BY <1>0 DEF ShapeReached
<1>3. DataReached(db, at + 1, version)
  BY <1>0 DEF DataReached
<1>4. MarkersReached(db, at + 1, version)
  BY <1>0, <1>1 DEF MarkersReached, NoRow
<1> QED
  BY <1>2, <1>3, <1>4 DEF Underway, Reached

LEMMA Statement10 ==
    ASSUME NEW db, NEW next, NEW version, Underway(db, 10, version), next = LowerKeys(db), version < 1
    PROVE  Underway(next, 11, version) /\ Content(next) = Content(db)
<1>0. IsDatabase(db) /\ Upheld(db) /\ Plain(db)
  BY DatabaseIsPlain DEF Underway
<1>1. /\ Rowed(db, next, "key")
      /\ \A id \in DOMAIN db.assets :
            /\ db.assets[id].key = Unnamed => next.assets[id].key = lower(db.assets[id].name)
            /\ db.assets[id].key # Unnamed => next.assets[id].key = db.assets[id].key
  BY <1>0, KeysLowered
<1>2. Framed(db, next)
  BY <1>1, RowedFrames
<1>3. \A id \in DOMAIN db.assets :
         /\ HasFields(next.assets[id], AssetFields)
         /\ next.assets[id].path = db.assets[id].path
         /\ next.assets[id].group = db.assets[id].group
         /\ next.assets[id].thumb = db.assets[id].thumb
         /\ next.assets[id].name = db.assets[id].name
         /\ next.assets[id].group_key = db.assets[id].group_key
         /\ next.assets[id].count = db.assets[id].count
  BY <1>1 DEF Rowed, AssetFields
<1>4. IsDatabase(next)
  BY <1>0, <1>1, <1>2, <1>3, FramedIsDatabase DEF IsDatabase, Rowed
<1>5. db.perf = version /\ NamesThere(db)
  BY DEF Underway, Reached, MarkersReached, DataReached
<1>6. EmptyOrRight(db)
  BY <1>0, <1>5, UpheldParts
<1>7. NamesThere(next) /\ KeysThere(next) /\ EmptyOrRight(next)
  <2>1. \A id \in DOMAIN db.assets : next.assets[id].key = lower(next.assets[id].name)
    BY <1>1, <1>3, <1>6 DEF EmptyOrRight
  <2>2. NamesThere(next)
    BY <1>2, <1>3, <1>5 DEF NamesThere, Framed
  <2>3. KeysThere(next)
    BY <1>2, <2>1 DEF KeysThere, Framed
  <2> QED
    BY <1>2, <1>3, <1>6, <2>1, <2>2, <2>3 DEF EmptyOrRight, NamesThere, Framed
<1>8. ShapeReached(db, 11) /\ MarkersReached(db, 11, version) /\ DataReached(next, 11, version)
  BY <1>7 DEF Underway, Reached, ShapeReached, MarkersReached, DataReached
<1> QED
  BY <1>2, <1>3, <1>4, <1>5, <1>7, <1>8, DerivesUnderway DEF Underway, IsDatabase, NoRow

LEMMA Statement11 ==
    ASSUME NEW db, NEW next, NEW version, Underway(db, 11, version), next = LowerGroups(db),
           version < 1
    PROVE  Underway(next, 12, version) /\ Content(next) = Content(db)
<1>0. IsDatabase(db) /\ Upheld(db) /\ Plain(db)
  BY DatabaseIsPlain DEF Underway
<1>1. /\ Rowed(db, next, "group_key")
      /\ \A id \in DOMAIN db.assets :
            /\ trim(db.assets[id].group) # Unnamed =>
                  next.assets[id].group_key = GroupKey(db.assets[id].group)
            /\ trim(db.assets[id].group) = Unnamed =>
                  next.assets[id].group_key = db.assets[id].group_key
  BY <1>0, GroupsLowered
<1>2. Framed(db, next)
  BY <1>1, RowedFrames
<1>3. \A id \in DOMAIN db.assets :
         /\ HasFields(next.assets[id], AssetFields)
         /\ next.assets[id].path = db.assets[id].path
         /\ next.assets[id].group = db.assets[id].group
         /\ next.assets[id].thumb = db.assets[id].thumb
         /\ next.assets[id].name = db.assets[id].name
         /\ next.assets[id].key = db.assets[id].key
         /\ next.assets[id].count = db.assets[id].count
  BY <1>1 DEF Rowed, AssetFields
<1>4. IsDatabase(next)
  BY <1>0, <1>1, <1>2, <1>3, FramedIsDatabase DEF IsDatabase, Rowed
<1>5. db.perf = version /\ NamesThere(db) /\ KeysThere(db)
  BY DEF Underway, Reached, MarkersReached, DataReached
<1>6. EmptyOrRight(db)
  BY <1>0, <1>5, UpheldParts
<1>7. NamesThere(next) /\ KeysThere(next) /\ GroupsThere(next) /\ EmptyOrRight(next)
  <2>1. \A id \in DOMAIN db.assets : next.assets[id].group_key = GroupKey(next.assets[id].group)
    BY <1>1, <1>3, <1>6 DEF EmptyOrRight, GroupKey
  <2>2. \A id \in DOMAIN db.assets :
          trim(next.assets[id].group) = Unnamed => next.assets[id].group_key = Unnamed
    BY <2>1 DEF GroupKey
  <2>3. NamesThere(next) /\ KeysThere(next)
    BY <1>2, <1>3, <1>5 DEF NamesThere, KeysThere, Framed
  <2>4. GroupsThere(next)
    BY <1>2, <2>1 DEF GroupsThere, Framed
  <2> QED
    BY <1>2, <1>3, <1>6, <2>2, <2>3, <2>4 DEF EmptyOrRight, Framed
<1>8. ShapeReached(db, 12) /\ MarkersReached(db, 12, version) /\ DataReached(next, 12, version)
  BY <1>7 DEF Underway, Reached, ShapeReached, MarkersReached, DataReached
<1> QED
  BY <1>2, <1>3, <1>4, <1>5, <1>7, <1>8, DerivesUnderway DEF Underway, IsDatabase, NoRow

LEMMA Statement12 ==
    ASSUME NEW db, NEW next, NEW version, Underway(db, 12, version), next = CountTags(db), version < 1
    PROVE  Underway(next, 13, version) /\ Content(next) = Content(db)
<1>0. IsDatabase(db) /\ Upheld(db) /\ Plain(db)
  BY DatabaseIsPlain DEF Underway
<1> DEFINE ids == DOMAIN db.assets
<1>1. next = WithCounts(db, ids)
  BY DEF CountTags
<1>a. ids = DOMAIN db.assets
  OBVIOUS
<1> HIDE DEF ids
<1>b. /\ Retag(db, next)
      /\ next.tags = db.tags /\ next.tagged = db.tagged
      /\ \A id \in DOMAIN db.assets : id \in ids => next.assets[id].count = CountOf(db, id)
  BY <1>0, <1>1, CountsRepaired
<1>2. Framed(db, next)
  BY <1>b DEF Retag, DatabaseFields, Framed
<1>3. \A id \in DOMAIN db.assets :
         /\ HasFields(next.assets[id], AssetFields)
         /\ next.assets[id].path = db.assets[id].path
         /\ next.assets[id].group = db.assets[id].group
         /\ next.assets[id].thumb = db.assets[id].thumb
         /\ next.assets[id].name = db.assets[id].name
         /\ next.assets[id].key = db.assets[id].key
         /\ next.assets[id].group_key = db.assets[id].group_key
  BY <1>b DEF Retag, AssetFields
<1>c. \A id \in DOMAIN db.assets : next.assets[id].count = CountOf(db, id) /\ CountOf(db, id) \in Nat
  BY <1>0, <1>a, <1>b, FiniteTags DEF IsDatabase
<1>4. IsDatabase(next)
  BY <1>0, <1>2, <1>3, <1>b, <1>c, FramedIsDatabase DEF Retag
<1>5. db.perf = version /\ NamesThere(db) /\ KeysThere(db) /\ GroupsThere(db)
  BY DEF Underway, Reached, MarkersReached, DataReached
<1>6. EmptyOrRight(db)
  BY <1>0, <1>5, UpheldParts
<1>7. NamesThere(next) /\ KeysThere(next) /\ GroupsThere(next) /\ CountsRight(next) /\ EmptyOrRight(next)
  <2>1. NamesThere(next) /\ KeysThere(next) /\ GroupsThere(next)
    BY <1>2, <1>3, <1>5 DEF NamesThere, KeysThere, GroupsThere, Framed
  <2>2. \A id : CountOf(next, id) = CountOf(db, id)
    BY <1>2, <1>3, FramedSame
  <2>3. CountsRight(next)
    BY <1>2, <1>c, <2>2 DEF CountsRight, Framed
  <2> QED
    BY <1>2, <1>3, <1>6, <2>1, <2>3 DEF EmptyOrRight, Framed
<1>8. ShapeReached(db, 13) /\ MarkersReached(db, 13, version) /\ DataReached(next, 13, version)
  BY <1>7 DEF Underway, Reached, ShapeReached, MarkersReached, DataReached
<1> QED
  BY <1>2, <1>3, <1>4, <1>5, <1>7, <1>8, DerivesUnderway DEF Underway, IsDatabase, NoRow

LEMMA UpheldByVersion ==
    ASSUME NEW db, db.perf \in 1 .. 3, ForeignKeysHold(db), "core_tables" \in db.shape,
           UpgradedRight(db), db.perf >= 2 => AssetsAssigned(db),
           db.perf < 3 => TagsNamed(db) /\ AllUsed(db)
    PROVE  Upheld(db)
<1>1. ~(db.perf < 1)
  OBVIOUS
<1> QED
  BY <1>1, UpheldParts

LEMMA Statement13 ==
    ASSUME NEW db, NEW next, NEW version, Underway(db, 13, version), next = [db EXCEPT !.perf = 1],
           version < 1
    PROVE  Underway(next, 14, version) /\ Content(next) = Content(db)
<1>0. IsDatabase(db) /\ Upheld(db) /\ HasFields(db, DatabaseFields)
  BY DEF Underway, IsDatabase
<1>1. Only(db, next, {"perf"}) /\ next.perf = 1
  BY <1>0, PerfReplaced
<1>2. /\ HasFields(next, DatabaseFields) /\ SameData(db, next) /\ next.shape = db.shape
      /\ next.app = db.app /\ next.user = db.user /\ next.failures = db.failures
      /\ next.revision = db.revision /\ next.general = db.general /\ next.intact = db.intact
      /\ next.pending = db.pending
  BY <1>1 DEF Only, DatabaseFields, SameData
<1>3. /\ ShapeReached(db, 13) /\ MarkersReached(db, 13, version) /\ db.perf = version
      /\ NamesThere(db) /\ KeysThere(db) /\ GroupsThere(db) /\ CountsRight(db)
  BY DEF Underway, Reached, MarkersReached, DataReached
<1>4. /\ Content(next) = Content(db)
      /\ ForeignKeysHold(next) <=> ForeignKeysHold(db)
      /\ NamesThere(next) <=> NamesThere(db)
      /\ KeysThere(next) <=> KeysThere(db)
      /\ GroupsThere(next) <=> GroupsThere(db)
      /\ CountsRight(next) <=> CountsRight(db)
  BY <1>2, SameDataSame
<1>5. UpgradedRight(next)
  <2>1. NamesThere(next) /\ KeysThere(next) /\ GroupsThere(next) /\ CountsRight(next)
    BY <1>3, <1>4
  <2> QED
    BY <1>1, <2>1 DEF NamesThere, KeysThere, GroupsThere, CountsRight, UpgradedRight, ColumnsRight
<1>6. IsDatabase(next)
  <2>1. DatabaseTypes(next) /\ DOMAIN next.failures \subseteq DOMAIN db.assets
    BY <1>0, <1>1, <1>2 DEF IsDatabase, DatabaseTypes, NoRow
  <2> QED
    BY <1>0, <1>2, <2>1, SameDataIsDatabase
<1>7. BelongsHere(next)
  BY <1>2 DEF Underway, BelongsHere
<1>8. Upheld(next)
  <2>1. (TagsNamed(next) <=> TagsNamed(db)) /\ (AllUsed(next) <=> AllUsed(db))
    BY <1>2 DEF SameData, TagsNamed, AllUsed
  <2>2. ForeignKeysHold(db) /\ TagsNamed(db) /\ AllUsed(db)
    BY <1>0, <1>3, UpheldParts DEF IsDatabase, NoRow
  <2>3. "core_tables" \in next.shape
    BY <1>2, <1>3 DEF ShapeReached
  <2>4. ForeignKeysHold(next) /\ TagsNamed(next) /\ AllUsed(next)
    BY <1>4, <2>1, <2>2
  <2> QED
    <3>1. /\ next.perf \in 1 .. 3
          /\ next.perf >= 2 => AssetsAssigned(next)
          /\ next.perf < 3 => TagsNamed(next) /\ AllUsed(next)
      BY <1>1, <2>4
    <3> QED
      BY ONLY <1>5, <2>3, <2>4, <3>1, UpheldByVersion
<1>9. ShapeReached(next, 14)
  BY <1>2, <1>3 DEF ShapeReached
<1>10. MarkersReached(next, 14, version)
  BY <1>1, <1>2, <1>3 DEF MarkersReached
<1>11. DataReached(next, 14, version)
  BY <1>3, <1>4 DEF DataReached
<1> QED
  BY <1>4, <1>6, <1>7, <1>8, <1>9, <1>10, <1>11 DEF Underway, Reached

LEMMA RootsBackfilled ==
    ASSUME NEW db, NEW next, IsDatabase(db), ForeignKeysHold(db), next = BackfillAssetScanRoots(db)
    PROVE  /\ Only(db, next, {"members"}) /\ IsDatabase(next)
           /\ ForeignKeysHold(next) /\ AssetsAssigned(next)
           /\ Content(next) = Content(db)
           /\ UpgradedRight(db) => UpgradedRight(next)
           /\ NamesThere(db) => NamesThere(next)
<1> DEFINE within == {pair \in (DOMAIN db.assets) \X (DOMAIN db.roots) :
                        LikeWithin(db.assets[pair[1]].path, pair[2])}
           members == db.members \cup within
<1>1. next = [db EXCEPT !.members = members]
  BY DEF BackfillAssetScanRoots
<1>2. /\ \A id \in DOMAIN db.assets, root \in DOMAIN db.roots :
            LikeWithin(db.assets[id].path, root) => <<id, root>> \in members
      /\ \A pair \in members :
            pair \in db.members \/ (pair[1] \in DOMAIN db.assets /\ pair[2] \in DOMAIN db.roots)
  OBVIOUS
<1> HIDE DEF members
<1>3. Only(db, next, {"members"}) /\ next.members = members
  <2>1. HasFields(db, DatabaseFields)
    BY DEF IsDatabase
  <2> QED
    BY ONLY <1>1, <2>1, MembersReplaced, Zenon
<1>4. /\ HasFields(next, DatabaseFields) /\ next.assets = db.assets /\ next.tags = db.tags
      /\ next.tagged = db.tagged /\ next.roots = db.roots /\ next.perf = db.perf
      /\ next.user = db.user /\ next.failures = db.failures
      /\ next.revision = db.revision /\ next.general = db.general /\ next.intact = db.intact
      /\ next.pending = db.pending
  BY <1>3 DEF Only, DatabaseFields
<1>5. IsDatabase(next)
  BY <1>4 DEF IsDatabase
<1>6. ForeignKeysHold(next)
  BY <1>2, <1>3, <1>4 DEF ForeignKeysHold
<1>7. AssetsAssigned(next)
  <2> SUFFICES ASSUME NEW id \in DOMAIN db.assets, NEW root \in DOMAIN db.roots,
                      LikeWithin(db.assets[id].path, root)
               PROVE  \E pair \in members : pair[1] = id
    BY <1>3, <1>4 DEF AssetsAssigned
  <2>1. <<id, root>> \in members /\ <<id, root>>[1] = id
    BY <1>2
  <2> QED
    BY <2>1
<1>8. \A id : TagsFound(next, id) = TagsFound(db, id) /\ CountOf(next, id) = CountOf(db, id)
  BY <1>4, CountByLinks DEF TagsFound
<1>9. Content(next) = Content(db)
  BY <1>4, <1>8, ContentKept
<1>10. UpgradedRight(db) => UpgradedRight(next)
  <2>1. ColumnsRight(db) => ColumnsRight(next)
    BY <1>4, <1>8 DEF ColumnsRight
  <2>2. TagsUpgraded(db) => TagsUpgraded(next)
    BY <1>4 DEF TagsUpgraded
  <2> QED
    BY <1>4, <2>1, <2>2 DEF UpgradedRight
<1>11. NamesThere(db) => NamesThere(next)
  BY <1>4 DEF NamesThere
<1> QED
  BY <1>3, <1>5, <1>6, <1>7, <1>9, <1>10, <1>11

LEMMA Statement14 ==
    ASSUME NEW db, NEW next, NEW version, Underway(db, 14, version),
           next = IF version < 2 THEN BackfillAssetScanRoots(db) ELSE db, version \in NoRow .. 3
    PROVE  Underway(next, 15, version) /\ Content(next) = Content(db)
<1>0. IsDatabase(db) /\ Upheld(db)
  BY DEF Underway
<1>1. /\ ShapeReached(db, 14) /\ MarkersReached(db, 14, version) /\ NamesThere(db)
      /\ db.perf = (IF version < 1 THEN 1 ELSE version) /\ db.perf >= 1
  BY DEF Underway, Reached, MarkersReached, DataReached
<1>2. /\ ForeignKeysHold(db) /\ UpgradedRight(db)
      /\ db.perf >= 2 => AssetsAssigned(db)
      /\ db.perf < 3 => TagsNamed(db) /\ AllUsed(db)
  BY <1>0, <1>1, UpheldParts
<1>3. CASE version < 2
  <2>1. /\ Only(db, next, {"members"}) /\ IsDatabase(next)
        /\ ForeignKeysHold(next) /\ AssetsAssigned(next)
        /\ Content(next) = Content(db)
        /\ UpgradedRight(db) => UpgradedRight(next)
        /\ NamesThere(db) => NamesThere(next)
    BY <1>0, <1>2, <1>3, RootsBackfilled
  <2>2. /\ next.tags = db.tags /\ next.tagged = db.tagged /\ next.perf = db.perf
        /\ next.user = db.user /\ next.app = db.app /\ next.shape = db.shape
        /\ next.revision = db.revision
    BY <2>1 DEF Only, DatabaseFields
  <2>3. BelongsHere(next)
    BY <2>2 DEF Underway, BelongsHere
  <2>4. (TagsNamed(next) <=> TagsNamed(db)) /\ (AllUsed(next) <=> AllUsed(db))
    BY <2>2 DEF TagsNamed, AllUsed
  <2>5. "core_tables" \in next.shape
    BY <1>1, <2>2 DEF ShapeReached
  <2>6. Upheld(next)
    <3>1. next.perf \in 1 .. 3
      BY <1>0, <1>1, <2>2 DEF IsDatabase, NoRow
    <3>2. next.perf < 3 => TagsNamed(next) /\ AllUsed(next)
      BY <1>2, <2>2, <2>4
    <3> QED
      BY <1>2, <2>1, <2>5, <3>1, <3>2, UpheldByVersion
  <2>7. ShapeReached(next, 15) /\ MarkersReached(next, 15, version)
    BY <1>1, <2>2 DEF ShapeReached, MarkersReached
  <2>8. DataReached(next, 15, version)
    BY <1>1, <2>1 DEF DataReached
  <2> QED
    BY <2>1, <2>3, <2>6, <2>7, <2>8 DEF Underway, Reached
<1>4. CASE ~(version < 2)
  <2>1. db.perf \in NoRow .. 3
    BY <1>0 DEF IsDatabase
  <2>2. next = db /\ db.perf = version /\ version \in NoRow .. 3
    BY <1>1, <1>4 DEF NoRow
  <2>3. AssetsAssigned(db)
    BY <1>2, <1>4, <2>1, <2>2 DEF NoRow
  <2>4. ShapeReached(db, 15) /\ MarkersReached(db, 15, version) /\ DataReached(db, 15, version)
    BY <1>1, <2>2, <2>3 DEF ShapeReached, MarkersReached, DataReached
  <2> QED
    BY <2>2, <2>4 DEF Underway, Reached
<1> QED
  BY <1>3, <1>4

LEMMA Statement15 ==
    ASSUME NEW db, NEW next, NEW version, Underway(db, 15, version),
           next = IF version < 2 THEN [db EXCEPT !.perf = 2] ELSE db, version \in NoRow .. 3
    PROVE  Underway(next, 16, version) /\ Content(next) = Content(db)
<1>0. IsDatabase(db) /\ Upheld(db) /\ HasFields(db, DatabaseFields)
  BY DEF Underway, IsDatabase
<1>1. /\ ShapeReached(db, 15) /\ MarkersReached(db, 15, version) /\ NamesThere(db)
      /\ db.perf = (IF version < 1 THEN 1 ELSE version) /\ db.perf >= 1 /\ AssetsAssigned(db)
  BY DEF Underway, Reached, MarkersReached, DataReached
<1>2. /\ ForeignKeysHold(db) /\ UpgradedRight(db)
      /\ db.perf < 3 => TagsNamed(db) /\ AllUsed(db)
  BY <1>0, <1>1, UpheldParts
<1>3. CASE version < 2
  <2>1. Only(db, next, {"perf"}) /\ next.perf = 2
    BY <1>0, <1>3, PerfReplaced
  <2>2. /\ HasFields(next, DatabaseFields) /\ SameData(db, next) /\ next.shape = db.shape
        /\ next.app = db.app /\ next.user = db.user /\ next.failures = db.failures
        /\ next.revision = db.revision /\ next.general = db.general /\ next.intact = db.intact
        /\ next.pending = db.pending
    BY <2>1 DEF Only, DatabaseFields, SameData
  <2>3. /\ Content(next) = Content(db)
        /\ ForeignKeysHold(next) <=> ForeignKeysHold(db)
        /\ AssetsAssigned(next) <=> AssetsAssigned(db)
        /\ NamesThere(next) <=> NamesThere(db)
    BY <2>2, SameDataSame
  <2>4. db.perf < 3
    BY <1>1, <1>3 DEF NoRow
  <2>5. UpgradedRight(next)
    <3>1. \A id : CountOf(next, id) = CountOf(db, id)
      BY <2>2, CountByLinks DEF SameData
    <3>2. \A id \in DOMAIN db.assets :
             LET row == db.assets[id] IN
             /\ trim(row.name) # Unnamed
             /\ row.count = CountOf(db, id)
             /\ row.group_key = GroupKey(row.group)
             /\ row.key = lower(row.name)
      BY <1>0, <1>2, <2>4 DEF UpgradedRight, ColumnsRight, IsDatabase, NoRow
    <3> QED
      BY <2>1, <2>2, <3>1, <3>2 DEF UpgradedRight, ColumnsRight, SameData
  <2>6. IsDatabase(next)
    <3>1. DatabaseTypes(next) /\ DOMAIN next.failures \subseteq DOMAIN db.assets
      BY <1>0, <2>1, <2>2 DEF IsDatabase, DatabaseTypes, NoRow
    <3> QED
      BY <1>0, <2>2, <3>1, SameDataIsDatabase
  <2>7. BelongsHere(next)
    BY <2>2 DEF Underway, BelongsHere
  <2>8. (TagsNamed(next) <=> TagsNamed(db)) /\ (AllUsed(next) <=> AllUsed(db))
    BY <2>2 DEF SameData, TagsNamed, AllUsed
  <2>9. "core_tables" \in next.shape
    BY <1>1, <2>2 DEF ShapeReached
  <2>10. Upheld(next)
    <3>1. TagsNamed(next) /\ AllUsed(next) /\ ForeignKeysHold(next) /\ AssetsAssigned(next)
      BY <1>1, <1>2, <2>3, <2>4, <2>8
    <3> QED
      <4>1. /\ next.perf \in 1 .. 3
            /\ next.perf >= 2 => AssetsAssigned(next)
            /\ next.perf < 3 => TagsNamed(next) /\ AllUsed(next)
        BY <2>1, <3>1
      <4> QED
        BY ONLY <2>5, <2>9, <3>1, <4>1, UpheldByVersion
  <2>11. ShapeReached(next, 16) /\ MarkersReached(next, 16, version)
    BY <1>1, <1>3, <2>1, <2>2 DEF ShapeReached, MarkersReached
  <2>12. DataReached(next, 16, version)
    BY <1>1, <2>3 DEF DataReached
  <2> QED
    BY <2>3, <2>6, <2>7, <2>10, <2>11, <2>12 DEF Underway, Reached
<1>4. CASE ~(version < 2)
  <2>1. next = db /\ db.perf = version
    BY <1>1, <1>4 DEF NoRow
  <2>2. ShapeReached(db, 16) /\ DataReached(db, 16, version)
    BY <1>1 DEF ShapeReached, DataReached
  <2>3. MarkersReached(db, 16, version)
    BY <1>1, <1>4, <2>1 DEF MarkersReached, NoRow
  <2> QED
    BY <2>1, <2>2, <2>3 DEF Underway, Reached
<1> QED
  BY <1>3, <1>4

\* What a migration brings, and what it keeps.
LEMMA MigratedLibrary ==
    ASSUME NEW db, NEW next, IsDatabase(db), ForeignKeysHold(db), TagsNamed(db),
           next = MigrateCanonicalKeysAndTags(db)
    PROVE  /\ Migrated(db, next)
           /\ HasFields(next, DatabaseFields) /\ next.perf = 3 /\ next.shape = db.shape
           /\ next.app = db.app /\ next.user = db.user /\ next.failures = db.failures
           /\ next.intact = db.intact /\ next.pending = db.pending
           /\ next.roots = db.roots /\ next.members = db.members
           /\ DOMAIN next.assets = DOMAIN db.assets /\ HasFields(next.assets, DOMAIN next.assets)
           /\ \A id \in DOMAIN db.assets :
                 /\ HasFields(next.assets[id], AssetFields)
                 /\ next.assets[id].path = db.assets[id].path
                 /\ next.assets[id].name = db.assets[id].name
                 /\ next.assets[id].group = db.assets[id].group
                 /\ next.assets[id].group_key = db.assets[id].group_key
                 /\ next.assets[id].thumb = db.assets[id].thumb
           /\ next.revision \in Nat /\ next.general \in Nat /\ next.revision >= db.revision
           /\ ForeignKeysHold(next) /\ Linked(next)
<1>1. Migratable(db)
  BY DatabaseIsPlain, IsLinked, NamedIsNotBlank DEF Migratable, IsDatabase
<1>2. Migrated(db, next)
  BY <1>1, Migration
<1>3. /\ HasFields(next, DatabaseFields) /\ next.shape = db.shape
      /\ next.app = db.app /\ next.user = db.user /\ next.failures = db.failures
      /\ next.intact = db.intact /\ next.pending = db.pending
      /\ next.roots = db.roots /\ next.members = db.members
  BY <1>2 DEF Migrated, Migrates, Only, DatabaseFields
<1>4. DOMAIN next.assets = DOMAIN db.assets /\ HasFields(next.assets, DOMAIN next.assets)
  BY <1>2 DEF Migrated, Migrates
<1>5. \A id \in DOMAIN db.assets :
         /\ HasFields(next.assets[id], AssetFields)
         /\ next.assets[id].path = db.assets[id].path
         /\ next.assets[id].name = db.assets[id].name
         /\ next.assets[id].group = db.assets[id].group
         /\ next.assets[id].group_key = db.assets[id].group_key
         /\ next.assets[id].thumb = db.assets[id].thumb
  BY <1>2 DEF Migrated, Migrates, AssetFields
<1>6. next.perf = 3 /\ Linked(next)
  BY <1>2 DEF Migrated
<1>7. next.revision \in Nat /\ next.general \in Nat /\ next.revision >= db.revision
  <2>1. db.revision \in Nat /\ db.general \in Nat
    BY DEF IsDatabase
  <2>2. \/ next.revision = db.revision /\ next.general = db.general
        \/ next.revision = db.revision + 1 /\ next.general = db.revision + 1
    BY <1>2 DEF Migrated
  <2> QED
    BY <2>1, <2>2
<1>8. ForeignKeysHold(next)
  BY <1>3, <1>4, <1>6 DEF ForeignKeysHold, Linked
<1> QED
  BY <1>2, <1>3, <1>4, <1>5, <1>6, <1>7, <1>8

LEMMA MigratedTags ==
    ASSUME NEW db, NEW next, Migrated(db, next), AllUsed(db), DOMAIN next.assets = DOMAIN db.assets
    PROVE  TagsUpgraded(next)
<1> SUFFICES ASSUME NEW name \in next.tags
             PROVE  CanonicalTag(name) \/ (name \in Leftovers /\ CanonicalTag(lower(trim(name))))
  BY DEF TagsUpgraded
<1>1. /\ Linked(next) /\ next.tags = UsedRows(next)
      /\ Fold(name) = name \/ name \in Leftovers
  BY DEF Migrated
<1>2. PICK pair \in next.tagged : pair[2] = name
  BY <1>1 DEF UsedRows
<1>3. pair[1] \in DOMAIN db.assets
  BY <1>1 DEF Linked
<1> DEFINE id == pair[1]
<1>4. name \in TagsOf(next, id)
  BY <1>2, TagsOfMembers
<1>5. Fold(name) \in ListAssetTags(next, id)
  BY <1>1, <1>4 DEF ListAssetTags, Fold
<1>6. Fold(name) \in TagsFound(db, id)
  BY <1>3, <1>5 DEF Migrated
<1> HIDE DEF id
<1>7. Canonical(Fold(name))
  BY <1>6, FoundIsCanonical
<1>8. CanonicalTag(Fold(name))
  BY <1>7, CanonicalNames DEF CanonicalTag
<1> QED
  BY <1>1, <1>8 DEF Fold

LEMMA Statement16 ==
    ASSUME NEW db, NEW next, NEW version, Underway(db, 16, version),
           next = IF version < 3 THEN MigrateCanonicalKeysAndTags(db) ELSE db, version \in NoRow .. 3
    PROVE  Underway(next, 17, version) /\ Content(next) = Content(db)
<1>0. IsDatabase(db) /\ Upheld(db) /\ BelongsHere(db) /\ db.revision \in Nat /\ Plain(db)
  BY DatabaseIsPlain DEF Underway, IsDatabase
<1>1. /\ ShapeReached(db, 16) /\ MarkersReached(db, 16, version) /\ NamesThere(db)
      /\ db.perf = (IF version < 2 THEN 2 ELSE version) /\ db.perf >= 2 /\ db.revision >= 1
  BY DEF Underway, Reached, MarkersReached, DataReached
<1>2. /\ ForeignKeysHold(db) /\ UpgradedRight(db) /\ AssetsAssigned(db)
      /\ db.perf < 3 => TagsNamed(db) /\ AllUsed(db)
  <2>1. db.perf >= 1
    BY <1>0, <1>1 DEF IsDatabase, NoRow
  <2> QED
    BY <1>0, <1>1, <2>1, UpheldParts
<1>3. CASE version < 3
  <2>1. db.perf = 2 /\ TagsNamed(db) /\ AllUsed(db)
    BY <1>1, <1>2, <1>3 DEF NoRow
  <2>a. next = MigrateCanonicalKeysAndTags(db) /\ IsDatabase(db) /\ ForeignKeysHold(db) /\ TagsNamed(db)
    BY <1>0, <1>2, <1>3, <2>1
  <2>2. /\ Migrated(db, next)
        /\ HasFields(next, DatabaseFields) /\ next.perf = 3 /\ next.shape = db.shape
        /\ next.app = db.app /\ next.user = db.user /\ next.failures = db.failures
        /\ next.intact = db.intact /\ next.pending = db.pending
        /\ next.roots = db.roots /\ next.members = db.members
        /\ DOMAIN next.assets = DOMAIN db.assets /\ HasFields(next.assets, DOMAIN next.assets)
        /\ \A id \in DOMAIN db.assets :
              /\ HasFields(next.assets[id], AssetFields)
              /\ next.assets[id].path = db.assets[id].path
              /\ next.assets[id].name = db.assets[id].name
              /\ next.assets[id].group = db.assets[id].group
              /\ next.assets[id].group_key = db.assets[id].group_key
              /\ next.assets[id].thumb = db.assets[id].thumb
        /\ next.revision \in Nat /\ next.general \in Nat /\ next.revision >= db.revision
        /\ ForeignKeysHold(next) /\ Linked(next)
    BY ONLY <2>a, MigratedLibrary
  <2>3. NamesThere(db) /\ GroupsThere(db) /\ CountsRight(db)
    BY <1>2 DEF UpgradedRight, ColumnsRight, NamesThere, GroupsThere, CountsRight
  <2>4. CountsRight(next) /\ NamesThere(next) /\ GroupsThere(next)
    <3>1. CountsRight(next)
      BY <2>2, <2>3 DEF Migrated
    <3>2. NamesThere(next) /\ GroupsThere(next)
      BY <2>2, <2>3 DEF NamesThere, GroupsThere
    <3> QED
      BY <3>1, <3>2
  <2>5. \A id \in DOMAIN next.assets : next.assets[id].key = canonical_key(next.assets[id].name)
    BY <2>2 DEF Migrated
  <2>6. TagsUpgraded(next)
    BY <2>1, <2>2, MigratedTags
  <2>7. UpgradedRight(next)
    BY <2>2, <2>4, <2>5, <2>6 DEF UpgradedRight, ColumnsRight, NamesThere, GroupsThere, CountsRight
  <2>8. \A id \in DOMAIN next.assets : next.assets[id].count \in Nat
    BY <2>2, <2>4, FiniteTags DEF CountsRight, Linked
  <2>9. IsDatabase(next)
    <3>1. IsFiniteSet(next.tagged) /\ \A pair \in next.tagged : pair = <<pair[1], pair[2]>>
      BY <2>2 DEF Linked
    <3>2. next.perf \in NoRow .. 3
      BY <2>2 DEF NoRow
    <3> QED
      BY <1>0, <2>2, <2>8, <3>1, <3>2 DEF IsDatabase
  <2>10. AssetsAssigned(next)
    BY <1>2, <2>2 DEF AssetsAssigned
  <2>11. Content(next) = Content(db)
    <3>1. \A id \in DOMAIN db.assets : TagsFound(next, id) = TagsFound(db, id)
      BY <2>2, FoundAgain DEF Migrated
    <3> QED
      BY <2>2, <3>1, ContentKept
  <2>12. BelongsHere(next)
    BY <1>0, <2>2 DEF BelongsHere
  <2>13. "core_tables" \in next.shape
    BY <1>1, <2>2 DEF ShapeReached
  <2>14. Upheld(next)
    <3>1. /\ next.perf \in 1 .. 3
          /\ next.perf >= 2 => AssetsAssigned(next)
          /\ next.perf < 3 => TagsNamed(next) /\ AllUsed(next)
          /\ ForeignKeysHold(next)
      BY <2>2, <2>10
    <3> QED
      BY ONLY <2>7, <2>13, <3>1, UpheldByVersion
  <2>15. ShapeReached(next, 17) /\ DataReached(next, 17, version)
    BY <1>1, <2>2, <2>4 DEF ShapeReached, DataReached
  <2>16. MarkersReached(next, 17, version)
    <3>1. next.revision >= 1
      BY <1>0, <1>1, <2>2
    <3> QED
      BY <2>2, <3>1 DEF MarkersReached
  <2> QED
    BY <2>9, <2>11, <2>12, <2>14, <2>15, <2>16 DEF Underway, Reached
<1>4. CASE ~(version < 3)
  <2>1. next = db /\ db.perf = version /\ version = 3
    BY <1>1, <1>4 DEF NoRow
  <2>2. ShapeReached(db, 17) /\ DataReached(db, 17, version)
    BY <1>1 DEF ShapeReached, DataReached
  <2>3. MarkersReached(db, 17, version)
    BY <1>1, <1>4, <2>1 DEF MarkersReached, NoRow
  <2> QED
    BY <1>0, <2>1, <2>2, <2>3 DEF Underway, Reached
<1> QED
  BY <1>3, <1>4

\* Statements that write a marker, a column or a revision.
LEMMA MarkedUnderway ==
    ASSUME NEW db, NEW next, NEW at, NEW after, NEW version, Underway(db, at, version),
           HasFields(next, DatabaseFields), SameData(db, next), next.perf = db.perf,
           DatabaseTypes(next), DOMAIN next.failures \subseteq DOMAIN db.assets,
           BelongsHere(next), "core_tables" \in next.shape, Reached(next, after, version)
    PROVE  Underway(next, after, version) /\ Content(next) = Content(db)
<1>1. /\ Content(next) = Content(db)
      /\ ForeignKeysHold(next) <=> ForeignKeysHold(db)
      /\ AssetsAssigned(next) <=> AssetsAssigned(db)
      /\ next.perf = db.perf => (UpgradedRight(next) <=> UpgradedRight(db))
  BY SameDataSame
<1>2. IsDatabase(next)
  BY SameDataIsDatabase DEF Underway
<1>3. Upheld(next)
  <2>1. (EmptyOrRight(next) <=> EmptyOrRight(db)) /\ (TagsNamed(next) <=> TagsNamed(db))
          /\ (AllUsed(next) <=> AllUsed(db))
    BY DEF SameData, EmptyOrRight, TagsNamed, AllUsed
  <2>2. Upheld(db)
    BY DEF Underway
  <2> QED
    BY <1>1, <2>1, <2>2, UpheldParts
<1> QED
  BY <1>1, <1>2, <1>3 DEF Underway

\* Where the last statements begin.
LEMMA LastStatements ==
    ASSUME NEW db, NEW at \in 17 .. 21, NEW version, Underway(db, at, version)
    PROVE  /\ HasFields(db, DatabaseFields) /\ DatabaseTypes(db) /\ IsDatabase(db)
           /\ DOMAIN db.failures \subseteq DOMAIN db.assets /\ "core_tables" \in db.shape
           /\ BelongsHere(db) /\ db.perf = 3 /\ db.revision >= 1 /\ NamesThere(db)
           /\ ShapeReached(db, at) /\ MarkersReached(db, at, version)
<1>1. ShapeReached(db, at) /\ MarkersReached(db, at, version) /\ DataReached(db, at, version)
  BY DEF Underway, Reached
<1>2. "core_tables" \in db.shape
  BY <1>1 DEF ShapeReached
<1>3. db.perf = 3 /\ db.revision >= 1
  BY <1>1 DEF MarkersReached
<1>4. NamesThere(db)
  BY <1>1 DEF DataReached
<1> QED
  BY <1>1, <1>2, <1>3, <1>4 DEF Underway, IsDatabase, DatabaseTypes

LEMMA Statement17 ==
    ASSUME NEW db, NEW next, NEW version, Underway(db, 17, version), next = [db EXCEPT !.app = "tagrove"]
    PROVE  Underway(next, 18, version) /\ Content(next) = Content(db)
<1>0. /\ HasFields(db, DatabaseFields) /\ DatabaseTypes(db)
      /\ DOMAIN db.failures \subseteq DOMAIN db.assets /\ "core_tables" \in db.shape
      /\ BelongsHere(db) /\ db.perf = 3 /\ db.revision >= 1 /\ NamesThere(db)
      /\ ShapeReached(db, 17) /\ MarkersReached(db, 17, version)
  BY LastStatements
<1>1. Only(db, next, {"app"}) /\ next.app = "tagrove"
  BY <1>0, AppReplaced
<1>2. /\ HasFields(next, DatabaseFields) /\ SameData(db, next) /\ next.perf = db.perf
      /\ next.shape = db.shape /\ next.user = db.user /\ next.failures = db.failures
      /\ next.revision = db.revision /\ next.general = db.general /\ next.intact = db.intact
      /\ next.pending = db.pending
  BY <1>1 DEF Only, DatabaseFields, SameData
<1>3. DatabaseTypes(next)
  BY <1>0, <1>2 DEF DatabaseTypes
<1>4. BelongsHere(next)
  BY <1>0, <1>1, <1>2 DEF BelongsHere
<1>5. Reached(next, 18, version)
  <2>1. NamesThere(next)
    BY <1>0, <1>2, SameDataSame
  <2> QED
    BY <1>0, <1>1, <1>2, <2>1 DEF Reached, ShapeReached, MarkersReached, DataReached
<1>6. DOMAIN next.failures \subseteq DOMAIN db.assets /\ "core_tables" \in next.shape
  BY <1>0, <1>2
<1>7. Underway(db, 17, version) /\ next.perf = db.perf
  BY <1>2
<1> QED
  BY ONLY <1>2, <1>3, <1>4, <1>5, <1>6, <1>7, MarkedUnderway

\* The check for the column, and the column.
LEMMA Statement18 ==
    ASSUME NEW db, NEW next, NEW version, Underway(db, 18, version)
    PROVE  /\ next = AddSourceVersion(db) =>
                Underway(next, 19, version) /\ Content(next) = Content(db)
           /\ "source_record_version" \in db.shape => Underway(db, 20, version)
<1>1. ASSUME next = AddSourceVersion(db)
      PROVE  Underway(next, 19, version) /\ Content(next) = Content(db)
  <2> DEFINE columns == {"source_record_version"}
  <2>1. next = EnsureColumns(db, columns) /\ 18 \in 2 .. 21 /\ Underway(db, 18, version)
    BY <1>1 DEF AddSourceVersion
  <2>2. "source_record_version" \in columns
    OBVIOUS
  <2> HIDE DEF columns
  <2>3. /\ Underway(next, 18, version) /\ Content(next) = Content(db)
        /\ next.shape = db.shape \cup columns
    BY ONLY <2>1, ColumnsEnsured
  <2>4. ShapeReached(next, 19)
    BY <2>2, <2>3 DEF Underway, Reached, ShapeReached
  <2>5. MarkersReached(next, 19, version) /\ DataReached(next, 19, version)
    BY <2>3 DEF Underway, Reached, MarkersReached, DataReached
  <2> QED
    BY <2>3, <2>4, <2>5 DEF Underway, Reached
<1>2. ASSUME "source_record_version" \in db.shape
      PROVE  Underway(db, 20, version)
  <2>1. ShapeReached(db, 20)
    BY <1>2 DEF Underway, Reached, ShapeReached
  <2>2. MarkersReached(db, 20, version) /\ DataReached(db, 20, version)
    BY DEF Underway, Reached, MarkersReached, DataReached
  <2> QED
    BY <2>1, <2>2 DEF Underway, Reached
<1> QED
  BY <1>1, <1>2

LEMMA Statement19 ==
    ASSUME NEW db, NEW next, NEW version, Underway(db, 19, version), next = DiscardFailures(db)
    PROVE  Underway(next, 20, version) /\ Content(next) = Content(db)
<1>0. /\ HasFields(db, DatabaseFields) /\ DatabaseTypes(db)
      /\ "core_tables" \in db.shape
      /\ BelongsHere(db) /\ db.perf = 3 /\ db.revision >= 1 /\ NamesThere(db)
      /\ ShapeReached(db, 19) /\ MarkersReached(db, 19, version)
  BY LastStatements
<1> DEFINE none == << >>
<1>a. next = [db EXCEPT !.failures = none] /\ DOMAIN none = {}
  BY DEF DiscardFailures
<1> HIDE DEF none
<1>1. Only(db, next, {"failures"}) /\ next.failures = none
  BY ONLY <1>0, <1>a, FailuresReplaced
<1>2. /\ HasFields(next, DatabaseFields) /\ SameData(db, next) /\ next.perf = db.perf
      /\ next.shape = db.shape /\ next.user = db.user /\ next.app = db.app
      /\ next.revision = db.revision /\ next.general = db.general /\ next.intact = db.intact
      /\ next.pending = db.pending
  BY <1>1 DEF Only, DatabaseFields, SameData
<1>3. DatabaseTypes(next)
  BY <1>0, <1>2 DEF DatabaseTypes
<1>4. BelongsHere(next)
  BY <1>0, <1>2 DEF BelongsHere
<1>5. Reached(next, 20, version)
  <2>1. NamesThere(next)
    BY <1>0, <1>2, SameDataSame
  <2> QED
    BY <1>0, <1>2, <2>1 DEF Reached, ShapeReached, MarkersReached, DataReached
<1>6. DOMAIN next.failures \subseteq DOMAIN db.assets /\ "core_tables" \in next.shape
  BY <1>0, <1>1, <1>2, <1>a
<1>7. Underway(db, 19, version) /\ next.perf = db.perf
  BY <1>2
<1> QED
  BY ONLY <1>2, <1>3, <1>4, <1>5, <1>6, <1>7, MarkedUnderway

LEMMA Statement20 ==
    ASSUME NEW db, NEW next, NEW version, Underway(db, 20, version),
           next = [db EXCEPT !.user = SCHEMA_VERSION]
    PROVE  Underway(next, 21, version) /\ Content(next) = Content(db)
<1>0. /\ HasFields(db, DatabaseFields) /\ DatabaseTypes(db)
      /\ DOMAIN db.failures \subseteq DOMAIN db.assets /\ "core_tables" \in db.shape
      /\ BelongsHere(db) /\ db.perf = 3 /\ db.revision >= 1 /\ NamesThere(db)
      /\ ShapeReached(db, 20) /\ MarkersReached(db, 20, version)
  BY LastStatements
<1>1. Only(db, next, {"user"}) /\ next.user = 3
  BY <1>0, UserReplaced DEF SCHEMA_VERSION
<1>2. /\ HasFields(next, DatabaseFields) /\ SameData(db, next) /\ next.perf = db.perf
      /\ next.shape = db.shape /\ next.app = db.app /\ next.failures = db.failures
      /\ next.revision = db.revision /\ next.general = db.general /\ next.intact = db.intact
      /\ next.pending = db.pending
  BY <1>1 DEF Only, DatabaseFields, SameData
<1>3. DatabaseTypes(next)
  BY <1>0, <1>1, <1>2 DEF DatabaseTypes
<1>4. BelongsHere(next)
  BY <1>0, <1>1, <1>2 DEF BelongsHere, SCHEMA_VERSION
<1>5. Reached(next, 21, version)
  <2>1. NamesThere(next)
    BY <1>0, <1>2, SameDataSame
  <2> QED
    BY <1>0, <1>1, <1>2, <2>1 DEF Reached, ShapeReached, MarkersReached, DataReached, SCHEMA_VERSION
<1>6. DOMAIN next.failures \subseteq DOMAIN db.assets /\ "core_tables" \in next.shape
  BY <1>0, <1>2
<1>7. Underway(db, 20, version) /\ next.perf = db.perf
  BY <1>2
<1> QED
  BY ONLY <1>2, <1>3, <1>4, <1>5, <1>6, <1>7, MarkedUnderway

\* A library that is open.
SettledLibrary(db) ==
    /\ IsDatabase(db)
    /\ db.app = "tagrove" /\ db.user = SCHEMA_VERSION /\ db.perf = 3 /\ db.revision >= 1
    /\ RequiredColumns("current") \subseteq db.shape
    /\ ForeignKeysHold(db) /\ UpgradedRight(db) /\ AssetsAssigned(db)
    /\ db.general <= db.revision

LEMMA SettledIsUpheld ==
    ASSUME NEW db, SettledLibrary(db) PROVE BelongsHere(db) /\ Upheld(db)
<1>1. BelongsHere(db)
  BY DEF SettledLibrary, BelongsHere, SCHEMA_VERSION
<1>2. "core_tables" \in db.shape
  BY DEF SettledLibrary, RequiredColumns
<1>3. /\ db.perf \in 1 .. 3 /\ ForeignKeysHold(db) /\ UpgradedRight(db)
      /\ db.perf >= 2 => AssetsAssigned(db)
      /\ db.perf < 3 => TagsNamed(db) /\ AllUsed(db)
  BY DEF SettledLibrary
<1> QED
  BY ONLY <1>1, <1>2, <1>3, UpheldByVersion

LEMMA Statement21 ==
    ASSUME NEW db, NEW next, NEW version, Underway(db, 21, version),
           next = [RebuildQueryRevisions(db) EXCEPT !.pending = FALSE]
    PROVE  SettledLibrary(next) /\ Content(next) = Content(db)
<1>0. /\ HasFields(db, DatabaseFields) /\ DatabaseTypes(db) /\ IsDatabase(db) /\ Upheld(db)
      /\ DOMAIN db.failures \subseteq DOMAIN db.assets /\ "core_tables" \in db.shape
      /\ BelongsHere(db) /\ db.perf = 3 /\ db.revision >= 1 /\ NamesThere(db)
      /\ ShapeReached(db, 21) /\ MarkersReached(db, 21, version)
  BY LastStatements DEF Underway
<1> DEFINE revision == db.revision
           mid == [db EXCEPT !.general = revision]
           settled == FALSE
<1>1. next = [mid EXCEPT !.pending = settled] /\ revision = db.revision /\ settled \in BOOLEAN
  BY DEF RebuildQueryRevisions
<1>2. Only(db, mid, {"general"}) /\ mid.general = revision
  <2> HIDE DEF revision
  <2> QED
    BY <1>0, GeneralReplaced
<1> HIDE DEF mid, revision, settled
<1>3. Only(mid, next, {"pending"}) /\ next.pending = settled
  <2>1. HasFields(mid, DatabaseFields)
    BY <1>2 DEF Only
  <2> QED
    BY ONLY <1>1, <2>1, PendingReplaced
<1>4. /\ HasFields(next, DatabaseFields) /\ SameData(db, next) /\ next.perf = db.perf
      /\ next.shape = db.shape /\ next.app = db.app /\ next.failures = db.failures
      /\ next.revision = db.revision /\ next.general = db.revision /\ next.intact = db.intact
      /\ next.user = db.user
  BY <1>1, <1>2, <1>3 DEF Only, DatabaseFields, SameData
<1>5. /\ Content(next) = Content(db)
      /\ ForeignKeysHold(next) <=> ForeignKeysHold(db)
      /\ AssetsAssigned(next) <=> AssetsAssigned(db)
      /\ next.perf = db.perf => (UpgradedRight(next) <=> UpgradedRight(db))
  BY <1>4, SameDataSame
<1>6. ForeignKeysHold(db) /\ UpgradedRight(db) /\ AssetsAssigned(db)
  BY <1>0, UpheldParts
<1>7. IsDatabase(next)
  <2>1. DatabaseTypes(next)
    BY <1>0, <1>1, <1>3, <1>4 DEF DatabaseTypes
  <2> QED
    BY <1>0, <1>4, <2>1, SameDataIsDatabase
<1>8. RequiredColumns("current") \subseteq next.shape
  <2>1. /\ Statements[2] \in db.shape /\ Statements[3] \in db.shape /\ Statements[4] \in db.shape
        /\ Statements[5] \in db.shape /\ Statements[6] \in db.shape
        /\ "core_tables" \in db.shape /\ Membership \subseteq db.shape
        /\ Performance \subseteq db.shape /\ "source_record_version" \in db.shape
    BY <1>0 DEF ShapeReached
  <2>2. {"core_tables", "auto_scan_on_startup", "source_record_version", "file_name", "is_favorite",
         "media_group_key", "media_group_order"} \subseteq db.shape
    BY <2>1, Numbered
  <2> QED
    BY <1>4, <2>1, <2>2 DEF RequiredColumns, AssetColumns
<1>9. next.app = "tagrove" /\ next.user = SCHEMA_VERSION
  BY <1>0, <1>4 DEF MarkersReached
<1>10. next.general <= next.revision /\ next.revision >= 1
  BY <1>0, <1>4 DEF DatabaseTypes
<1> QED
  BY <1>0, <1>4, <1>5, <1>6, <1>7, <1>8, <1>9, <1>10 DEF SettledLibrary

-----------------------------------------------------------------------------
(* The steps of a start.                                                   *)

LEMMA Ordinary ==
    ASSUME RunStatement, NEW at \in 1 .. 21, up = at, at \notin {18, 19, 21}
    PROVE  /\ lib' = Execute(lib, Statements[at], perf) /\ up' = at + 1
           /\ perf' = IF at = 9 THEN lib.perf ELSE perf
<1>1. Statements[at] \notin {"source_record_version", "discard_failures", "query_revisions"}
  BY Numbered
<1>2. Statements[at] = "read_version" <=> at = 9
  BY Numbered
<1> DEFINE statement == Statements[at]
<1>3. lib' = Execute(lib, statement, perf) /\ up' = at + 1
  BY <1>1 DEF RunStatement
<1>4. perf' = IF statement = "read_version" THEN lib.perf ELSE perf
  BY DEF RunStatement
<1> QED
  BY <1>2, <1>3, <1>4

LEMMA OneStatement ==
    ASSUME RunStatement, up \in 1 .. 21, Underway(lib, up, perf), perf \in NoRow .. 3
    PROVE  /\ Content(lib') = Content(lib) /\ perf' \in NoRow .. 3
           /\ \/ up' \in 1 .. 21 /\ Underway(lib', up', perf')
              \/ up' = 22 /\ SettledLibrary(lib')
<1>0. lib.perf \in NoRow .. 3
  BY DEF Underway, IsDatabase
<1>1. CASE up = 1
  <2>1. lib' = Execute(lib, Statements[1], perf) /\ up' = 2 /\ perf' = perf
    BY <1>1, Ordinary
  <2>2. lib' = CreateTables(lib) /\ Underway(lib, 1, perf)
    BY <1>1, <2>1, Numbered, Executed
  <2>3. Underway(lib', 2, perf) /\ Content(lib') = Content(lib)
    BY ONLY <2>2, Statement1
  <2> QED
    BY <2>1, <2>3
<1>2. CASE up \in 2 .. 6
  <2>1. PICK at \in 2 .. 6 : up = at
    BY <1>2
  <2>2. at \in 1 .. 21 /\ at \notin {18, 19, 21} /\ at # 9 /\ at + 1 \in 1 .. 21
    OBVIOUS
  <2>3. lib' = Execute(lib, Statements[at], perf) /\ up' = at + 1 /\ perf' = perf
    BY <2>1, <2>2, Ordinary
  <2>4. Statements[at] \in {"is_favorite", "auto_scan_on_startup", "media_group_key",
                            "media_group_order", "file_name"}
    BY <2>1, Numbered
  <2>5. lib' = EnsureColumns(lib, {Statements[at]}) /\ Underway(lib, at, perf) /\ at \in 2 .. 6
    <3> DEFINE column == Statements[at]
    <3>1. Execute(lib, column, perf) = EnsureColumns(lib, {column})
      <4>1. column \in {"is_favorite", "auto_scan_on_startup", "media_group_key",
                        "media_group_order", "file_name"}
        BY <2>4
      <4> HIDE DEF column
      <4> QED
        BY <4>1 DEF Execute
    <3> QED
      BY <2>1, <2>3, <3>1
  <2>6. Underway(lib', at + 1, perf) /\ Content(lib') = Content(lib)
    BY ONLY <2>5, Statements2To6
  <2> QED
    BY <2>2, <2>3, <2>6
<1>3. CASE up = 7
  <2>1. lib' = Execute(lib, Statements[7], perf) /\ up' = 8 /\ perf' = perf
    BY <1>3, Ordinary
  <2>2. lib' = FillFileNames(lib) /\ Underway(lib, 7, perf)
    BY <1>3, <2>1, Numbered, Executed
  <2>3. Underway(lib', 8, perf) /\ Content(lib') = Content(lib)
    BY ONLY <2>2, Statement7
  <2> QED
    BY <2>1, <2>3
<1>4. CASE up = 8
  <2>1. lib' = Execute(lib, Statements[8], perf) /\ up' = 9 /\ perf' = perf
    BY <1>4, Ordinary
  <2>2. lib' = EnsureColumns(lib, Performance) /\ Underway(lib, 8, perf)
    BY <1>4, <2>1, Numbered, Executed
  <2>3. Underway(lib', 9, perf) /\ Content(lib') = Content(lib)
    BY ONLY <2>2, Statement8
  <2> QED
    BY <2>1, <2>3
<1>5. CASE up = 9
  <2>1. lib' = Execute(lib, Statements[9], perf) /\ up' = 10 /\ perf' = lib.perf
    BY <1>5, Ordinary
  <2>2. lib' = lib /\ Underway(lib, 9, perf)
    BY <1>5, <2>1, Numbered, Executed
  <2>3. Underway(lib, 10, lib.perf)
    BY ONLY <2>2, Statement9
  <2> QED
    BY <1>0, <2>1, <2>2, <2>3
<1>6. CASE up \in 10 .. 13
  <2>1. PICK at \in 10 .. 13 : up = at
    BY <1>6
  <2>2. at \in 1 .. 21 /\ at \notin {18, 19, 21} /\ at # 9 /\ at + 1 \in 1 .. 21
    OBVIOUS
  <2>3. lib' = Execute(lib, Statements[at], perf) /\ up' = at + 1 /\ perf' = perf
    BY <2>1, <2>2, Ordinary
  <2>4. CASE ~(perf < 1)
    <3>1. lib' = lib
      <4>1. Execute(lib, "lower_keys", perf) = lib /\ Execute(lib, "lower_groups", perf) = lib
              /\ Execute(lib, "count_tags", perf) = lib /\ Execute(lib, "version_1", perf) = lib
        BY <2>4, Executed
      <4>2. Statements[at] \in {"lower_keys", "lower_groups", "count_tags", "version_1"}
        BY <2>1, Numbered
      <4> QED
        BY <2>3, <4>1, <4>2
    <3>2. Underway(lib, at, perf) /\ at \in 10 .. 13
      BY <2>1
    <3>3. Underway(lib, at + 1, perf)
      BY ONLY <2>4, <3>2, NothingDue
    <3> QED
      BY <2>2, <2>3, <3>1, <3>3
  <2>5. CASE perf < 1 /\ at = 10
    <3>1. lib' = LowerKeys(lib) /\ Underway(lib, 10, perf)
      BY <2>1, <2>3, <2>5, Numbered, Executed
    <3>2. Underway(lib', 11, perf) /\ Content(lib') = Content(lib)
      BY ONLY <2>5, <3>1, Statement10
    <3> QED
      BY <2>3, <2>5, <3>2
  <2>6. CASE perf < 1 /\ at = 11
    <3>1. lib' = LowerGroups(lib) /\ Underway(lib, 11, perf)
      BY <2>1, <2>3, <2>6, Numbered, Executed
    <3>2. Underway(lib', 12, perf) /\ Content(lib') = Content(lib)
      BY ONLY <2>6, <3>1, Statement11
    <3> QED
      BY <2>3, <2>6, <3>2
  <2>7. CASE perf < 1 /\ at = 12
    <3>1. lib' = CountTags(lib) /\ Underway(lib, 12, perf)
      BY <2>1, <2>3, <2>7, Numbered, Executed
    <3>2. Underway(lib', 13, perf) /\ Content(lib') = Content(lib)
      BY ONLY <2>7, <3>1, Statement12
    <3> QED
      BY <2>3, <2>7, <3>2
  <2>8. CASE perf < 1 /\ at = 13
    <3>1. lib' = [lib EXCEPT !.perf = 1] /\ Underway(lib, 13, perf)
      BY <2>1, <2>3, <2>8, Numbered, Executed
    <3>2. Underway(lib', 14, perf) /\ Content(lib') = Content(lib)
      BY ONLY <2>8, <3>1, Statement13
    <3> QED
      BY <2>3, <2>8, <3>2
  <2> QED
    BY <2>1, <2>4, <2>5, <2>6, <2>7, <2>8
<1>7. CASE up = 14
  <2>1. lib' = Execute(lib, Statements[14], perf) /\ up' = 15 /\ perf' = perf
    BY <1>7, Ordinary
  <2>2. /\ lib' = IF perf < 2 THEN BackfillAssetScanRoots(lib) ELSE lib
        /\ Underway(lib, 14, perf) /\ perf \in NoRow .. 3
    BY <1>7, <2>1, Numbered, Executed
  <2>3. Underway(lib', 15, perf) /\ Content(lib') = Content(lib)
    BY ONLY <2>2, Statement14
  <2> QED
    BY <2>1, <2>3
<1>8. CASE up = 15
  <2>1. lib' = Execute(lib, Statements[15], perf) /\ up' = 16 /\ perf' = perf
    BY <1>8, Ordinary
  <2>2. /\ lib' = IF perf < 2 THEN [lib EXCEPT !.perf = 2] ELSE lib
        /\ Underway(lib, 15, perf) /\ perf \in NoRow .. 3
    BY <1>8, <2>1, Numbered, Executed
  <2>3. Underway(lib', 16, perf) /\ Content(lib') = Content(lib)
    BY ONLY <2>2, Statement15
  <2> QED
    BY <2>1, <2>3
<1>9. CASE up = 16
  <2>1. lib' = Execute(lib, Statements[16], perf) /\ up' = 17 /\ perf' = perf
    BY <1>9, Ordinary
  <2>2. /\ lib' = IF perf < 3 THEN MigrateCanonicalKeysAndTags(lib) ELSE lib
        /\ Underway(lib, 16, perf) /\ perf \in NoRow .. 3
    BY <1>9, <2>1, Numbered, Executed
  <2>3. Underway(lib', 17, perf) /\ Content(lib') = Content(lib)
    BY ONLY <2>2, Statement16
  <2> QED
    BY <2>1, <2>3
<1>10. CASE up = 17
  <2>1. lib' = Execute(lib, Statements[17], perf) /\ up' = 18 /\ perf' = perf
    BY <1>10, Ordinary
  <2>2. lib' = [lib EXCEPT !.app = "tagrove"] /\ Underway(lib, 17, perf)
    BY <1>10, <2>1, Numbered, Executed
  <2>3. Underway(lib', 18, perf) /\ Content(lib') = Content(lib)
    BY ONLY <2>2, Statement17
  <2> QED
    BY <2>1, <2>3
<1>11. CASE up = 18
  <2>1. /\ IF "source_record_version" \in lib.shape
           THEN lib' = lib /\ up' = 20
           ELSE lib' = AddSourceVersion(lib) /\ up' = 19
        /\ perf' = perf
    BY <1>11, Numbered DEF RunStatement
  <2>2. Underway(lib, 18, perf)
    BY <1>11
  <2>3. /\ lib' = AddSourceVersion(lib) => Underway(lib', 19, perf) /\ Content(lib') = Content(lib)
        /\ "source_record_version" \in lib.shape => Underway(lib, 20, perf)
    BY ONLY <2>2, Statement18
  <2> QED
    BY <2>1, <2>3
<1>12. CASE up = 19
  <2>1. lib' = DiscardFailures(lib) /\ up' = 20 /\ perf' = perf
    BY <1>12, Numbered DEF RunStatement
  <2>2. lib' = DiscardFailures(lib) /\ Underway(lib, 19, perf)
    BY <1>12, <2>1
  <2>3. Underway(lib', 20, perf) /\ Content(lib') = Content(lib)
    BY ONLY <2>2, Statement19
  <2> QED
    BY <2>1, <2>3
<1>13. CASE up = 20
  <2>1. lib' = Execute(lib, Statements[20], perf) /\ up' = 21 /\ perf' = perf
    BY <1>13, Ordinary
  <2>2. lib' = [lib EXCEPT !.user = SCHEMA_VERSION] /\ Underway(lib, 20, perf)
    BY <1>13, <2>1, Numbered, Executed
  <2>3. Underway(lib', 21, perf) /\ Content(lib') = Content(lib)
    BY ONLY <2>2, Statement20
  <2> QED
    BY <2>1, <2>3
<1>14. CASE up = 21
  <2>1. /\ lib' = [Execute(lib, "query_revisions", perf) EXCEPT !.pending = FALSE]
        /\ up' = 22 /\ perf' = perf
    BY <1>14, Numbered DEF RunStatement
  <2>2. lib' = [RebuildQueryRevisions(lib) EXCEPT !.pending = FALSE] /\ Underway(lib, 21, perf)
    BY <1>14, <2>1, Executed
  <2>3. SettledLibrary(lib') /\ Content(lib') = Content(lib)
    BY ONLY <2>2, Statement21
  <2> QED
    BY <2>1, <2>3
<1> QED
  BY <1>1, <1>2, <1>3, <1>4, <1>5, <1>6, <1>7, <1>8, <1>9, <1>10, <1>11, <1>12, <1>13, <1>14

\* Where a start is, and what that means for the library.  An interrupted
\* one leaves a library the next start takes up.
StartInv ==
    /\ up \in Down .. Refused /\ perf \in NoRow .. 3 /\ interrupts \in 0 .. MaxInterrupts
    /\ IsDatabase(lib) /\ (BelongsHere(lib) => Upheld(lib))
    /\ up \in DOMAIN Statements => BelongsHere(lib) /\ Reached(lib, up, perf)
    /\ up = Open => SettledLibrary(lib)

LEMMA InitStart == ASSUME Init PROVE StartInv
<1>1. IsDatabase(lib) /\ (BelongsHere(lib) => Upheld(lib))
  BY FoundIsUpheld, FoundAssumption DEF Init, SchemaInit
<1> QED
  BY <1>1, FoundAssumption, Numbered DEF Init, SchemaInit, StartInv, NoRow, Down, Open, Refused

LEMMA StartsUnderway ==
    ASSUME NEW db, IsDatabase(db), BelongsHere(db), Upheld(db)
    PROVE  Underway(db, 1, NoRow)
BY DEF Underway, Reached, ShapeReached, MarkersReached, DataReached, NoRow

LEMMA StartStep == ASSUME StartInv, Start PROVE StartInv'
<1>1. up = 0 /\ lib' = lib /\ perf' = perf /\ interrupts' = interrupts
  BY DEF Start, Down
<1>2. IsDatabase(lib') /\ (BelongsHere(lib') => Upheld(lib'))
  BY <1>1 DEF StartInv
<1>3. CASE BelongsHere(lib)
  <2>1. up' = 1
    BY <1>3 DEF Start
  <2>2. Reached(lib', 1, perf')
    BY DEF Reached, ShapeReached, MarkersReached, DataReached
  <2> QED
    BY <1>1, <1>2, <1>3, <2>1, <2>2, Numbered DEF StartInv
<1>4. CASE ~BelongsHere(lib)
  <2>1. up' = 23
    BY <1>4, Numbered DEF Start
  <2> QED
    BY <1>1, <1>2, <2>1, Numbered DEF StartInv
<1> QED
  BY <1>3, <1>4

LEMMA UnderwayNow ==
    ASSUME StartInv, up \in DOMAIN Statements
    PROVE  up \in 1 .. 21 /\ Underway(lib, up, perf) /\ perf \in NoRow .. 3
BY Numbered DEF StartInv, Underway

LEMMA StatementStep ==
    ASSUME StartInv, RunStatement PROVE StartInv' /\ Content(lib') = Content(lib)
<1>1. up \in 1 .. 21 /\ Underway(lib, up, perf) /\ perf \in NoRow .. 3
  BY UnderwayNow DEF RunStatement
<1>2. /\ Content(lib') = Content(lib) /\ perf' \in NoRow .. 3
      /\ \/ up' \in 1 .. 21 /\ Underway(lib', up', perf')
         \/ up' = 22 /\ SettledLibrary(lib')
  BY <1>1, OneStatement
<1>3. interrupts' = interrupts
  BY DEF RunStatement
<1>4. CASE up' \in 1 .. 21 /\ Underway(lib', up', perf')
  BY <1>2, <1>3, <1>4, Numbered DEF StartInv, Underway
<1>5. CASE up' = 22 /\ SettledLibrary(lib')
  <2>1. BelongsHere(lib') /\ Upheld(lib')
    BY <1>5, SettledIsUpheld
  <2> QED
    BY <1>2, <1>3, <1>5, <2>1, Numbered DEF StartInv, SettledLibrary
<1> QED
  BY <1>2, <1>4, <1>5

LEMMA InterruptStep == ASSUME StartInv, Interrupt PROVE StartInv'
BY Numbered, FoundAssumption DEF StartInv, Interrupt, NoRow

-----------------------------------------------------------------------------
(* The tag editors.                                                        *)

LEMMA RowsFoldRight ==
    ASSUME NEW db, SettledLibrary(db), NEW name \in db.tags
    PROVE  Canonical(Fold(name)) /\ (Fold(name) = name \/ name \in Leftovers)
<1>1. CanonicalTag(name) \/ (name \in Leftovers /\ CanonicalTag(Fold(name)))
  BY DEF SettledLibrary, UpgradedRight, TagsUpgraded, Fold
<1>2. CASE CanonicalTag(name)
  <2>1. Canonical(name) /\ Fold(name) = name
    BY <1>2, CanonicalNames, CanonicalPieces DEF CanonicalTag
  <2> QED
    BY <2>1
<1>3. CASE name \in Leftovers /\ CanonicalTag(Fold(name))
  BY <1>3, CanonicalNames DEF CanonicalTag
<1> QED
  BY <1>1, <1>2, <1>3

LEMMA SettledTaggable ==
    ASSUME NEW db, SettledLibrary(db)
    PROVE  /\ Plain(db) /\ Linked(db) /\ NoBlank(db) /\ CountsRight(db)
           /\ DOMAIN db.assets \subseteq Nat \ {0} /\ IsFiniteSet(DOMAIN db.assets)
           /\ \A names : RowsDue(db, names, 0)
           /\ \A id : \A tag \in ListAssetTags(db, id) : Canonical(tag)
<1>1. IsDatabase(db) /\ ForeignKeysHold(db) /\ UpgradedRight(db)
  BY DEF SettledLibrary
<1>2. Plain(db) /\ Linked(db)
  BY <1>1, DatabaseIsPlain, IsLinked
<1>3. NoBlank(db)
  BY RowsFoldRight DEF NoBlank, Canonical
<1>4. CountsRight(db)
  BY <1>1 DEF UpgradedRight, ColumnsRight, CountsRight
<1>5. \A names : RowsDue(db, names, 0)
  BY RowsFoldRight DEF RowsDue
<1>6. ASSUME NEW id, NEW tag \in ListAssetTags(db, id)
      PROVE  Canonical(tag)
  <2>1. PICK p \in db.tagged : Fold(p[2]) = tag
    BY <1>6, ListMembers
  <2>2. p[2] \in db.tags
    BY <1>2 DEF Linked
  <2> QED
    BY <2>1, <2>2, RowsFoldRight
<1> QED
  BY <1>1, <1>2, <1>3, <1>4, <1>5, <1>6 DEF IsDatabase

LEMMA NotedAfter ==
    ASSUME NEW db, NEW after, NEW next, HasFields(after, DatabaseFields), next = Noted(db, after)
    PROVE  /\ Only(after, next, {"revision"})
           /\ next.revision = after.revision \/ next.revision = after.revision + 1
<1> DEFINE n == after.revision + 1
<1>1. CASE after.tagged = db.tagged /\ after.assets = db.assets
  BY <1>1 DEF Noted, Only
<1>2. CASE ~(after.tagged = db.tagged /\ after.assets = db.assets)
  <2>1. next = [after EXCEPT !.revision = n]
    BY <1>2 DEF Noted
  <2> HIDE DEF n
  <2>2. Only(after, next, {"revision"}) /\ next.revision = n
    BY <2>1 DEF HasFields, DatabaseFields, Only
  <2> QED
    BY <2>2 DEF n
<1> QED
  BY <1>1, <1>2

\* The lists of the editors are canonical tags.
Editable(db, table) ==
    /\ DOMAIN table \subseteq DOMAIN db.assets
    /\ \A id \in DOMAIN table :
          IsFiniteSet(table[id]) /\ WellFormedTags(normalize_tags(table[id]))

LEMMA EditSettles ==
    ASSUME NEW db, NEW table, NEW next, SettledLibrary(db), Editable(db, table),
           next = Retagged(db, table)
    PROVE  SettledLibrary(next)
<1> DEFINE set == SetTagsInOrder(db, table)
           clean == CleanupOrphanTags(set)
<1>1. /\ Plain(db) /\ Linked(db) /\ NoBlank(db) /\ CountsRight(db)
      /\ DOMAIN db.assets \subseteq Nat \ {0} /\ IsFiniteSet(DOMAIN db.assets)
      /\ RowsDue(db, table, 0)
      /\ \A id : \A tag \in ListAssetTags(db, id) : Canonical(tag)
  BY SettledTaggable
<1>2. Taggable(db, table)
  BY <1>1, FS_Subset DEF Taggable, Editable
<1>a. set = SetTagsInOrder(db, table) /\ clean = CleanupOrphanTags(set) /\ next = Noted(db, clean)
  BY DEF Retagged
<1> HIDE DEF set, clean
<1>3. /\ Retag(db, set) /\ Linked(set) /\ CountsRight(set)
      /\ \A row \in set.tags : Fold(row) = row \/ row \in Leftovers
      /\ \A j \in DOMAIN table : ListAssetTags(set, j) = normalize_tags(table[j])
      /\ \A j : j \notin DOMAIN table => ListAssetTags(set, j) = ListAssetTags(db, j)
  BY <1>1, <1>2, <1>a, TagsSetInOrder
<1>4. Plain(set)
  BY <1>3, RetagPlain
<1>5. /\ Retag(set, clean) /\ Linked(clean)
      /\ clean.assets = set.assets /\ clean.tagged = set.tagged
      /\ clean.tags = UsedRows(set) /\ clean.tags \subseteq set.tags
  BY <1>3, <1>4, <1>a, OrphansCleaned
<1>6. Retag(db, clean)
  BY <1>3, <1>5, RetagTransitive
<1>7. /\ Only(clean, next, {"revision"})
      /\ next.revision = clean.revision \/ next.revision = clean.revision + 1
  BY <1>6, <1>a, NotedAfter DEF Retag
<1>8. /\ HasFields(next, DatabaseFields)
      /\ next.assets = set.assets /\ next.tagged = set.tagged /\ next.tags = clean.tags
      /\ next.perf = db.perf /\ next.app = db.app /\ next.user = db.user /\ next.shape = db.shape
      /\ next.failures = db.failures /\ next.roots = db.roots /\ next.members = db.members
      /\ next.intact = db.intact /\ next.pending = db.pending /\ next.general = db.general
      /\ next.revision = db.revision \/ next.revision = db.revision + 1
  BY <1>5, <1>6, <1>7 DEF Retag, Only, DatabaseFields
<1>9. /\ DOMAIN next.assets = DOMAIN db.assets /\ HasFields(next.assets, DOMAIN next.assets)
      /\ \A id \in DOMAIN db.assets :
            /\ HasFields(next.assets[id], AssetFields)
            /\ next.assets[id].path = db.assets[id].path
            /\ next.assets[id].name = db.assets[id].name
            /\ next.assets[id].key = db.assets[id].key
            /\ next.assets[id].group = db.assets[id].group
            /\ next.assets[id].group_key = db.assets[id].group_key
  BY <1>3, <1>8 DEF Retag, AssetFields
<1>10. Linked(next)
  BY <1>5, <1>8 DEF Linked
<1>11. \A id \in DOMAIN next.assets :
          next.assets[id].count = CountOf(next, id) /\ next.assets[id].count \in Nat
  <2>1. \A id : CountOf(next, id) = CountOf(set, id) /\ CountOf(next, id) \in Nat
    BY <1>8, <1>10, CountByLinks, FiniteTags DEF Linked
  <2> QED
    BY <1>3, <1>8, <2>1 DEF CountsRight
<1>12. TagsUpgraded(next)
  <2> SUFFICES ASSUME NEW name \in next.tags
               PROVE  CanonicalTag(name) \/ (name \in Leftovers /\ CanonicalTag(lower(trim(name))))
    BY DEF TagsUpgraded
  <2>1. PICK pair \in set.tagged : pair[2] = name
    BY <1>5, <1>8 DEF UsedRows
  <2> DEFINE id == pair[1]
             tag == Fold(name)
  <2>2. tag = name \/ name \in Leftovers
    BY <1>3, <1>5, <1>8
  <2>3. tag \in ListAssetTags(set, id)
    BY <2>1, ListMembers
  <2>a. tag = lower(trim(name))
    BY DEF Fold
  <2> HIDE DEF id, tag
  <2>4. ASSUME id \in DOMAIN table PROVE Canonical(tag)
    <3>1. tag \in normalize_tags(table[id]) /\ WellFormedTags(normalize_tags(table[id]))
      BY <1>3, <2>3, <2>4 DEF Editable
    <3>2. tag # "" /\ Canonic(tag) = tag
      BY <3>1, NormalizedIsCanonic
    <3> QED
      BY <3>1, <3>2 DEF Canonical, WellFormedTags
  <2>5. ASSUME id \notin DOMAIN table PROVE Canonical(tag)
    BY <1>1, <1>3, <2>3, <2>5
  <2>6. Canonical(tag)
    BY <2>4, <2>5
  <2>7. CanonicalTag(tag)
    BY <2>6, CanonicalNames DEF CanonicalTag
  <2> QED
    BY <2>2, <2>7, <2>a
<1>b. /\ IsDatabase(db) /\ db.app = "tagrove" /\ db.user = SCHEMA_VERSION /\ db.perf = 3
      /\ db.revision >= 1 /\ RequiredColumns("current") \subseteq db.shape
      /\ ForeignKeysHold(db) /\ UpgradedRight(db) /\ AssetsAssigned(db)
      /\ db.general <= db.revision /\ db.revision \in Nat /\ db.general \in Nat
  BY DEF SettledLibrary, IsDatabase
<1>13. UpgradedRight(next)
  <2>1. \A id \in DOMAIN next.assets :
           /\ trim(next.assets[id].name) # Unnamed
           /\ next.assets[id].group_key = GroupKey(next.assets[id].group)
           /\ next.assets[id].key = canonical_key(next.assets[id].name)
    BY <1>9, <1>b DEF UpgradedRight, ColumnsRight
  <2>2. next.perf >= 3
    BY <1>8, <1>b
  <2>3. \A id \in DOMAIN next.assets : next.assets[id].count = CountOf(next, id)
    BY <1>11
  <2>4. TagsUpgraded(next)
    BY <1>12
  <2> QED
    BY ONLY <2>1, <2>2, <2>3, <2>4 DEF UpgradedRight, ColumnsRight
<1>14. next.revision \in Nat /\ next.revision >= 1 /\ next.general <= next.revision
  BY <1>8, <1>b
<1>15. IsDatabase(next)
  <2>1. IsFiniteSet(next.tagged) /\ \A pair \in next.tagged : pair = <<pair[1], pair[2]>>
    BY <1>10 DEF Linked
  <2> QED
    BY <1>8, <1>9, <1>11, <1>14, <1>b, <2>1 DEF IsDatabase
<1>16. ForeignKeysHold(next)
  BY <1>8, <1>9, <1>10, <1>b DEF ForeignKeysHold, Linked
<1>17. AssetsAssigned(next)
  BY <1>8, <1>9, <1>b DEF AssetsAssigned
<1> QED
  BY <1>8, <1>13, <1>14, <1>15, <1>16, <1>17, <1>b DEF SettledLibrary

LEMMA AssetEdited ==
    ASSUME NEW db, NEW id, NEW names, NEW next, SettledLibrary(db), id \in DOMAIN db.assets,
           IsFiniteSet(names), next = SetAssetTags(db, id, names)
    PROVE  SettledLibrary(next)
<1> DEFINE table == [i \in {id} |-> names]
<1>1. CASE WellFormedTags(normalize_tags(names))
  <2>1. next = Retagged(db, table)
    BY <1>1 DEF SetAssetTags
  <2>2. Editable(db, table)
    BY <1>1 DEF Editable
  <2> HIDE DEF table
  <2> QED
    BY <2>1, <2>2, EditSettles
<1>2. CASE ~WellFormedTags(normalize_tags(names))
  BY <1>2 DEF SetAssetTags
<1> QED
  BY <1>1, <1>2

LEMMA AssetsEdited ==
    ASSUME NEW db, NEW names, NEW next, SettledLibrary(db), IsFiniteSet(names),
           next = MergeAssetTagsBulk(db, DOMAIN db.assets, names)
    PROVE  SettledLibrary(next)
<1> DEFINE incoming == normalize_tags(names)
           table == [i \in DOMAIN db.assets |-> ListAssetTags(db, i) \cup incoming]
<1>1. CASE WellFormedTags(incoming) /\ DOMAIN db.assets # {} /\ incoming # {}
  <2>1. next = Retagged(db, table)
    <3>1. DOMAIN db.assets \cap DOMAIN db.assets = DOMAIN db.assets
      OBVIOUS
    <3> QED
      BY <1>1, <3>1 DEF MergeAssetTagsBulk
  <2>2. IsFiniteSet(incoming)
    BY FiniteNames
  <2>3. /\ Linked(db)
        /\ \A id : \A tag \in ListAssetTags(db, id) : Canonical(tag)
    BY SettledTaggable
  <2>4. ASSUME NEW id \in DOMAIN db.assets
        PROVE  /\ IsFiniteSet(ListAssetTags(db, id) \cup incoming)
               /\ WellFormedTags(normalize_tags(ListAssetTags(db, id) \cup incoming))
    <3> DEFINE T == TagsOf(db, id)
               f == [name \in T |-> Fold(name)]
    <3>1. f \in Surjection(T, ListAssetTags(db, id))
      BY DEF Surjection, ListAssetTags, Fold
    <3>2. IsFiniteSet(T)
      BY <2>3, FiniteTags DEF Linked
    <3>3. IsFiniteSet(ListAssetTags(db, id))
      <4> HIDE DEF T, f
      <4> QED
        BY <3>1, <3>2, FS_Surjection
    <3>4. IsFiniteSet(ListAssetTags(db, id) \cup incoming)
      <4> HIDE DEF incoming
      <4> QED
        BY <2>2, <3>3, FS_Union
    <3>5. \A name \in ListAssetTags(db, id) \cup incoming :
             Canonic(name) = name /\ parse_legacy_tags(name) = {name}
      <4>1. \A name \in incoming : Canonic(name) = name
        BY NormalizedIsCanonic
      <4> QED
        BY <1>1, <2>3, <4>1 DEF Canonical, WellFormedTags
    <3>6. normalize_tags(ListAssetTags(db, id) \cup incoming) \subseteq ListAssetTags(db, id) \cup incoming
      <4> DEFINE all == ListAssetTags(db, id) \cup incoming
      <4>1. \A name \in all : Canonic(name) = name
        BY <3>5
      <4> HIDE DEF all
      <4>2. normalize_tags(all) \subseteq all
        BY <4>1 DEF normalize_tags, Canonic
      <4> QED
        BY <4>2 DEF all
    <3> QED
      BY <3>4, <3>5, <3>6 DEF WellFormedTags
  <2>5. Editable(db, table)
    BY <2>4 DEF Editable
  <2> HIDE DEF table
  <2> QED
    BY <2>1, <2>5, EditSettles
<1>2. CASE ~(WellFormedTags(incoming) /\ DOMAIN db.assets # {} /\ incoming # {})
  BY <1>2 DEF MergeAssetTagsBulk
<1> QED
  BY <1>1, <1>2

LEMMA EditStep ==
    ASSUME StartInv, NEW names \in TagLists, EditTags(names) PROVE StartInv'
<1>1. up = 22 /\ up' = up /\ perf' = perf /\ interrupts' = interrupts /\ SettledLibrary(lib)
  BY Numbered DEF EditTags, Free, StartInv
<1>2. IsFiniteSet(names)
  BY FilesAssumption
<1>3. SettledLibrary(lib')
  BY <1>1, <1>2, AssetEdited, AssetsEdited DEF EditTags
<1>4. BelongsHere(lib') /\ Upheld(lib')
  BY <1>3, SettledIsUpheld
<1> QED
  BY <1>1, <1>3, <1>4, Numbered DEF StartInv, SettledLibrary

-----------------------------------------------------------------------------
(* Staging a bundle's database.                                            *)

\* The tables of a database, but for the counts of the tags: a legacy bundle
\* may bring wrong ones.
HalfDatabase(db) ==
    /\ HasFields(db, DatabaseFields) /\ DatabaseTypes(db)
    /\ HasFields(db.assets, DOMAIN db.assets)
    /\ IsFiniteSet(DOMAIN db.assets) /\ DOMAIN db.assets \subseteq Nat \ {0}
    /\ \A id \in DOMAIN db.assets : HasFields(db.assets[id], AssetFields)
    /\ IsFiniteSet(db.tagged) /\ \A pair \in db.tagged : pair = <<pair[1], pair[2]>>
    /\ IsFiniteSet(DOMAIN db.roots)

\* A database that staging may work on.
Staging(db) ==
    /\ IsDatabase(db) /\ ForeignKeysHold(db) /\ TagsNamed(db)
    /\ db.revision >= 1 /\ db.perf \in 0 .. 3

LEMMA StagingSame ==
    ASSUME NEW db, NEW next, Staging(db), HasFields(next, DatabaseFields), SameData(db, next),
           next.failures = db.failures, next.intact = db.intact, next.pending = db.pending,
           next.user = db.user, next.general = db.general,
           next.revision = db.revision, next.perf \in 0 .. 3
    PROVE  Staging(next)
<1>1. DatabaseTypes(next)
  BY DEF Staging, IsDatabase, DatabaseTypes, NoRow
<1>2. IsDatabase(next)
  BY <1>1, SameDataIsDatabase DEF Staging, IsDatabase
<1>3. ForeignKeysHold(next) /\ TagsNamed(next)
  BY DEF Staging, SameData, ForeignKeysHold, TagsNamed
<1> QED
  BY <1>2, <1>3 DEF Staging

LEMMA StagingFramed ==
    ASSUME NEW db, NEW next, Staging(db), Framed(db, next),
           HasFields(next.assets, DOMAIN next.assets),
           \A id \in DOMAIN db.assets :
              HasFields(next.assets[id], AssetFields) /\ next.assets[id].count \in Nat
    PROVE  Staging(next)
<1>1. IsDatabase(next)
  BY FramedIsDatabase DEF Staging
<1>2. ForeignKeysHold(next) /\ TagsNamed(next)
  BY DEF Staging, Framed, ForeignKeysHold, TagsNamed
<1> QED
  BY <1>1, <1>2 DEF Staging, Framed

LEMMA StagingRowed ==
    ASSUME NEW db, NEW next, NEW column, Staging(db), Rowed(db, next, column), column # "count"
    PROVE  Staging(next)
<1>1. Framed(db, next)
  BY RowedFrames
<1>2. \A id \in DOMAIN db.assets :
         HasFields(next.assets[id], AssetFields) /\ next.assets[id].count = db.assets[id].count
  BY DEF Rowed, AssetFields
<1>3. \A id \in DOMAIN db.assets : db.assets[id].count \in Nat
  BY DEF Staging, IsDatabase
<1>4. HasFields(next.assets, DOMAIN next.assets)
  BY DEF Rowed
<1> QED
  BY <1>1, <1>2, <1>3, <1>4, StagingFramed

LEMMA StagingColumns ==
    ASSUME NEW db, NEW next, NEW columns, HasFields(db, DatabaseFields),
           next = EnsureColumns(db, columns)
    PROVE  /\ Only(db, next, {"shape"}) /\ next.shape = db.shape \cup columns
           /\ Staging(db) => Staging(next)
<1> DEFINE shape == db.shape \cup columns
<1>1. next = [db EXCEPT !.shape = shape] /\ shape = db.shape \cup columns
  BY DEF EnsureColumns
<1> HIDE DEF shape
<1>2. Only(db, next, {"shape"}) /\ next.shape = shape
  BY <1>1, ShapeReplaced
<1>3. /\ HasFields(next, DatabaseFields) /\ SameData(db, next)
      /\ next.failures = db.failures /\ next.intact = db.intact /\ next.pending = db.pending
      /\ next.user = db.user /\ next.general = db.general
      /\ next.revision = db.revision /\ next.perf = db.perf
  BY <1>2 DEF Only, DatabaseFields, SameData
<1>4. ASSUME Staging(db) PROVE Staging(next)
  <2>1. next.perf \in 0 .. 3 /\ Staging(db)
    BY <1>3, <1>4 DEF Staging
  <2> QED
    BY ONLY <1>3, <2>1, StagingSame
<1> QED
  BY <1>1, <1>2, <1>4

LEMMA StagingVersion ==
    ASSUME NEW db, NEW next, NEW version, Staging(db), next = [db EXCEPT !.perf = version],
           version \in 0 .. 3
    PROVE  Staging(next)
<1>1. Only(db, next, {"perf"}) /\ next.perf = version
  BY PerfReplaced DEF Staging, IsDatabase
<1>2. /\ HasFields(next, DatabaseFields) /\ SameData(db, next)
      /\ next.failures = db.failures /\ next.intact = db.intact /\ next.pending = db.pending
      /\ next.user = db.user /\ next.general = db.general
      /\ next.revision = db.revision /\ next.perf \in 0 .. 3
  BY <1>1 DEF Only, DatabaseFields, SameData
<1> QED
  BY ONLY <1>2, StagingSame, Staging(db)

LEMMA StagingCounted ==
    ASSUME NEW db, NEW next, Staging(db), next = CountTags(db)
    PROVE  Staging(next)
<1> DEFINE ids == DOMAIN db.assets
<1>1. next = WithCounts(db, ids) /\ ids = DOMAIN db.assets
  BY DEF CountTags
<1>2. Plain(db)
  BY DatabaseIsPlain DEF Staging
<1> HIDE DEF ids
<1>3. /\ Retag(db, next)
      /\ next.tags = db.tags /\ next.tagged = db.tagged
      /\ \A id \in DOMAIN db.assets : id \in ids => next.assets[id].count = CountOf(db, id)
  BY <1>1, <1>2, CountsRepaired
<1>4. Framed(db, next) /\ HasFields(next.assets, DOMAIN next.assets)
  BY <1>3 DEF Retag, DatabaseFields, Framed
<1>5. \A id \in DOMAIN db.assets :
         HasFields(next.assets[id], AssetFields) /\ next.assets[id].count \in Nat
  BY <1>1, <1>3, FiniteTags DEF Retag, Staging, IsDatabase
<1> QED
  BY <1>4, <1>5, StagingFramed

LEMMA StagingTables ==
    ASSUME NEW db, NEW next, IsDatabase(db), ForeignKeysHold(db), TagsNamed(db), db.revision >= 1,
           db.perf \in 0 .. 3, next = CreateTables(db)
    PROVE  /\ Only(db, next, {"shape"}) /\ Staging(next)
           /\ db.shape # {} => next.shape = db.shape \cup Membership
<1>1. /\ Only(db, next, {"shape", "revision", "perf"})
      /\ next.shape = IF db.shape = {} THEN NewLibrary ELSE db.shape \cup Membership
      /\ next.revision = IF db.revision = 0 THEN 1 ELSE db.revision
      /\ next.perf = IF db.perf = NoRow THEN 0 ELSE db.perf
  BY TablesCreated DEF IsDatabase
<1>2. next.revision = db.revision /\ next.perf = db.perf
  BY <1>1 DEF NoRow
<1>3. Only(db, next, {"shape"})
  BY <1>1, <1>2 DEF Only, DatabaseFields
<1>4. /\ HasFields(next, DatabaseFields) /\ SameData(db, next)
      /\ next.failures = db.failures /\ next.intact = db.intact /\ next.pending = db.pending
      /\ next.user = db.user /\ next.general = db.general
      /\ next.revision = db.revision /\ next.perf \in 0 .. 3
  BY <1>2, <1>3 DEF Only, DatabaseFields, SameData
<1>5. Staging(db)
  BY DEF Staging
<1>6. Staging(next)
  BY ONLY <1>4, <1>5, StagingSame
<1> QED
  BY <1>1, <1>3, <1>6

LEMMA InitSchemaInParts ==
    ASSUME NEW db
    PROVE  LET version == CreateTables(db).perf
               migrated == MigratedTo(Assigned(Derived(Widened(db), version), version), version)
           IN  InitSchema(db) = RebuildQueryRevisions(Identified(Sourced(migrated, db.shape)))
BY DEF InitSchema

LEMMA WidenedStaging ==
    ASSUME NEW db, NEW next, IsDatabase(db), ForeignKeysHold(db), TagsNamed(db), db.revision >= 1,
           db.perf \in 0 .. 3, next = Widened(db)
    PROVE  Staging(next) /\ next.perf = CreateTables(db).perf
<1> DEFINE tables == CreateTables(db)
           wide == EnsureColumns(tables, Added)
           named == FillFileNames(wide)
<1>1. /\ next = EnsureColumns(named, Performance) /\ named = FillFileNames(wide)
      /\ wide = EnsureColumns(tables, Added) /\ tables = CreateTables(db)
  BY DEF Widened
<1> HIDE DEF tables, wide, named
<1>2. Staging(tables)
  BY <1>1, StagingTables
<1>3. Staging(wide)
  BY <1>1, <1>2, StagingColumns DEF Staging, IsDatabase
<1>4. Rowed(wide, named, "name")
  BY <1>1, <1>3, NamesFilled, DatabaseIsPlain DEF Staging
<1>5. Staging(named)
  BY <1>3, <1>4, StagingRowed
<1>6. Only(tables, wide, {"shape"}) /\ Only(named, next, {"shape"})
  BY <1>1, <1>2, <1>5, StagingColumns DEF Staging, IsDatabase
<1>7. wide.perf = tables.perf /\ named.perf = wide.perf /\ next.perf = named.perf
  BY <1>4, <1>6 DEF Only, DatabaseFields, Rowed
<1> QED
  BY <1>1, <1>5, <1>7, StagingColumns DEF Staging, IsDatabase

LEMMA DerivedStaging ==
    ASSUME NEW db, NEW version, NEW next, Staging(db), next = Derived(db, version)
    PROVE  Staging(next) /\ (~(version < 1) => next = db)
<1> DEFINE keyed == LowerKeys(db)
           grouped == LowerGroups(keyed)
           counted == CountTags(grouped)
<1>1. CASE version < 1
  <2>1. /\ next = [counted EXCEPT !.perf = 1] /\ counted = CountTags(grouped)
        /\ grouped = LowerGroups(keyed) /\ keyed = LowerKeys(db)
    BY <1>1 DEF Derived
  <2> HIDE DEF keyed, grouped, counted
  <2>2. Rowed(db, keyed, "key")
    BY <2>1, KeysLowered, DatabaseIsPlain DEF Staging
  <2>3. Staging(keyed)
    BY <2>2, StagingRowed
  <2>4. Rowed(keyed, grouped, "group_key")
    BY <2>1, <2>3, GroupsLowered, DatabaseIsPlain DEF Staging
  <2>5. Staging(grouped)
    BY <2>3, <2>4, StagingRowed
  <2>6. Staging(counted)
    BY <2>1, <2>5, StagingCounted
  <2>7. next = [counted EXCEPT !.perf = 1] /\ 1 \in 0 .. 3
    BY <2>1
  <2>8. Staging(next)
    BY ONLY <2>6, <2>7, StagingVersion
  <2> QED
    BY <1>1, <2>8
<1>2. CASE ~(version < 1)
  BY <1>2 DEF Derived
<1> QED
  BY <1>1, <1>2

LEMMA AssignedStaging ==
    ASSUME NEW db, NEW version, NEW next, Staging(db), next = Assigned(db, version)
    PROVE  Staging(next) /\ (~(version < 2) => next = db)
<1> DEFINE filled == BackfillAssetScanRoots(db)
<1>1. CASE version < 2
  <2>1. next = [filled EXCEPT !.perf = 2] /\ filled = BackfillAssetScanRoots(db) /\ 2 \in 0 .. 3
    BY <1>1 DEF Assigned
  <2> HIDE DEF filled
  <2>2. Only(db, filled, {"members"}) /\ IsDatabase(filled) /\ ForeignKeysHold(filled)
    BY <2>1, RootsBackfilled DEF Staging
  <2>3. filled.tags = db.tags /\ filled.revision = db.revision /\ filled.perf = db.perf
    BY <2>2 DEF Only, DatabaseFields
  <2>4. Staging(filled)
    BY <2>2, <2>3 DEF Staging, TagsNamed
  <2>5. Staging(next)
    BY ONLY <2>1, <2>4, StagingVersion
  <2> QED
    BY <1>1, <2>5
<1>2. CASE ~(version < 2)
  BY <1>2 DEF Assigned
<1> QED
  BY <1>1, <1>2

LEMMA MigratedHalf ==
    ASSUME NEW db, NEW version, NEW next, Staging(db), next = MigratedTo(db, version)
    PROVE  HalfDatabase(next) /\ (version < 3 => next.perf = 3) /\ (~(version < 3) => next = db)
<1>1. CASE version < 3
  <2>a. next = MigrateCanonicalKeysAndTags(db) /\ IsDatabase(db) /\ ForeignKeysHold(db) /\ TagsNamed(db)
    BY <1>1 DEF MigratedTo, Staging
  <2>1. /\ HasFields(next, DatabaseFields) /\ next.perf = 3
        /\ next.user = db.user /\ next.intact = db.intact /\ next.pending = db.pending
        /\ next.roots = db.roots
        /\ DOMAIN next.assets = DOMAIN db.assets /\ HasFields(next.assets, DOMAIN next.assets)
        /\ \A id \in DOMAIN db.assets : HasFields(next.assets[id], AssetFields)
        /\ next.revision \in Nat /\ next.general \in Nat /\ Linked(next)
    BY <2>a, MigratedLibrary
  <2>2. DatabaseTypes(next)
    BY <2>1, <2>a DEF IsDatabase, DatabaseTypes, NoRow
  <2> QED
    BY <1>1, <2>1, <2>2, <2>a DEF IsDatabase, HalfDatabase, Linked
<1>2. CASE ~(version < 3)
  <2>1. next = db
    BY <1>2 DEF MigratedTo
  <2> QED
    BY <1>2, <2>1 DEF Staging, IsDatabase, HalfDatabase, DatabaseTypes
<1> QED
  BY <1>1, <1>2

\* The second half: a column, the markers and the revisions.
LEMMA SourcedOnly ==
    ASSUME NEW db, NEW shape, NEW next, HasFields(db, DatabaseFields), next = Sourced(db, shape)
    PROVE  /\ Only(db, next, {"shape", "failures"})
           /\ "source_record_version" \in shape => next = db
<1>1. CASE "source_record_version" \in shape
  BY <1>1 DEF Sourced, Only
<1>2. CASE "source_record_version" \notin shape
  <2> DEFINE none == << >>
             columns == {"source_record_version"}
             added == EnsureColumns(db, columns)
  <2>1. next = [added EXCEPT !.failures = none] /\ added = EnsureColumns(db, columns)
    BY <1>2 DEF Sourced, DiscardFailures, AddSourceVersion
  <2> HIDE DEF none, columns, added
  <2>2. Only(db, added, {"shape"})
    BY <2>1, StagingColumns
  <2>3. HasFields(added, DatabaseFields)
    BY <2>2 DEF Only
  <2>4. Only(added, next, {"failures"})
    BY ONLY <2>1, <2>3, FailuresReplaced
  <2> QED
    BY <1>2, <2>2, <2>4 DEF Only
<1> QED
  BY <1>1, <1>2

LEMMA IdentifiedOnly ==
    ASSUME NEW db, NEW next, HasFields(db, DatabaseFields),
           next = RebuildQueryRevisions(Identified(db))
    PROVE  /\ Only(db, next, {"app", "user", "general"})
           /\ next.app = "tagrove" /\ next.user = SCHEMA_VERSION /\ next.general = db.revision
<1> DEFINE app == "tagrove"
           user == SCHEMA_VERSION
           mid == [db EXCEPT !.app = app, !.user = user]
           revision == mid.revision
<1>1. /\ next = [mid EXCEPT !.general = revision] /\ mid = [db EXCEPT !.app = app, !.user = user]
      /\ revision = mid.revision /\ app = "tagrove" /\ user = SCHEMA_VERSION
  BY DEF RebuildQueryRevisions, Identified
<1> HIDE DEF app, user, mid, revision
<1>2. Only(db, mid, {"app", "user"}) /\ mid.app = app /\ mid.user = user
  <2>1. HasFields(db, DatabaseFields)
    OBVIOUS
  <2>2. mid = [db EXCEPT !.app = app, !.user = user]
    BY <1>1
  <2> QED
    BY ONLY <2>1, <2>2 DEF HasFields, DatabaseFields, Only
<1>3. Only(mid, next, {"general"}) /\ next.general = revision
  <2>1. HasFields(mid, DatabaseFields)
    BY <1>2 DEF Only
  <2> QED
    BY ONLY <1>1, <2>1, GeneralReplaced
<1>4. next.app = mid.app /\ next.user = mid.user /\ revision = db.revision
  BY <1>1, <1>2, <1>3 DEF Only, DatabaseFields
<1>5. Only(db, next, {"app", "user", "general"})
  BY <1>2, <1>3 DEF Only
<1> QED
  BY <1>1, <1>2, <1>3, <1>4, <1>5

LEMMA Initialized ==
    ASSUME NEW db, NEW next, IsDatabase(db), ForeignKeysHold(db), TagsNamed(db), db.revision >= 1,
           db.perf \in 0 .. 3, next = InitSchema(db)
    PROVE  HalfDatabase(next) /\ next.perf = 3
<1> DEFINE version == CreateTables(db).perf
           wide == Widened(db)
           derived == Derived(wide, version)
           assigned == Assigned(derived, version)
           migrated == MigratedTo(assigned, version)
           sourced == Sourced(migrated, db.shape)
<1>1. next = RebuildQueryRevisions(Identified(sourced))
  BY InitSchemaInParts
<1>2. /\ sourced = Sourced(migrated, db.shape) /\ migrated = MigratedTo(assigned, version)
      /\ assigned = Assigned(derived, version) /\ derived = Derived(wide, version)
      /\ wide = Widened(db) /\ version = CreateTables(db).perf
  OBVIOUS
<1> HIDE DEF version, wide, derived, assigned, migrated, sourced
<1>3. Staging(wide) /\ wide.perf = version
  BY <1>2, WidenedStaging
<1>4. Staging(derived) /\ (~(version < 1) => derived = wide)
  BY <1>2, <1>3, DerivedStaging
<1>5. Staging(assigned) /\ (~(version < 2) => assigned = derived)
  BY <1>2, <1>4, AssignedStaging
<1>6. /\ HalfDatabase(migrated) /\ (version < 3 => migrated.perf = 3)
      /\ ~(version < 3) => migrated = assigned
  BY <1>2, <1>5, MigratedHalf
<1>a. migrated.perf = 3
  <2>1. version \in 0 .. 3
    BY <1>3 DEF Staging
  <2>2. CASE version < 3
    BY <1>6, <2>2
  <2>3. CASE version = 3
    BY <1>3, <1>4, <1>5, <1>6, <2>3
  <2> QED
    BY <2>1, <2>2, <2>3
<1>7. Only(migrated, sourced, {"shape", "failures"})
  BY <1>2, <1>6, SourcedOnly DEF HalfDatabase
<1>8. Only(sourced, next, {"app", "user", "general"}) /\ next.user = SCHEMA_VERSION
        /\ next.general = sourced.revision
  BY <1>1, <1>7, IdentifiedOnly DEF Only
<1>9. /\ HasFields(next, DatabaseFields)
      /\ next.intact = migrated.intact /\ next.pending = migrated.pending
      /\ next.perf = migrated.perf /\ next.revision = migrated.revision
      /\ next.general = migrated.revision /\ next.assets = migrated.assets
      /\ next.tagged = migrated.tagged /\ next.roots = migrated.roots
  BY <1>7, <1>8 DEF Only, DatabaseFields
<1>10. DatabaseTypes(next)
  BY <1>6, <1>8, <1>9 DEF HalfDatabase, DatabaseTypes, SCHEMA_VERSION
<1> QED
  BY <1>6, <1>9, <1>10, <1>a DEF HalfDatabase

\* A library of this release goes through init_schema unchanged.
LEMMA InitAgain ==
    ASSUME NEW db, NEW next, Staging(db), NamesThere(db), db.perf = 3, db.shape # {},
           "source_record_version" \in db.shape, next = InitSchema(db)
    PROVE  /\ Only(db, next, {"shape", "app", "user", "general"})
           /\ db.shape \subseteq next.shape
           /\ next.app = "tagrove" /\ next.user = SCHEMA_VERSION /\ next.general = db.revision
<1> DEFINE tables == CreateTables(db)
           wide == EnsureColumns(tables, Added)
           named == FillFileNames(wide)
           widened == EnsureColumns(named, Performance)
           version == tables.perf
           derived == Derived(widened, version)
           assigned == Assigned(derived, version)
           migrated == MigratedTo(assigned, version)
           sourced == Sourced(migrated, db.shape)
<1>1. next = RebuildQueryRevisions(Identified(sourced))
  BY InitSchemaInParts DEF Widened
<1>2. /\ sourced = Sourced(migrated, db.shape) /\ migrated = MigratedTo(assigned, version)
      /\ assigned = Assigned(derived, version) /\ derived = Derived(widened, version)
      /\ widened = EnsureColumns(named, Performance) /\ named = FillFileNames(wide)
      /\ wide = EnsureColumns(tables, Added) /\ tables = CreateTables(db) /\ version = tables.perf
  OBVIOUS
<1> HIDE DEF tables, wide, named, widened, version, derived, assigned, migrated, sourced
<1>3. /\ Only(db, tables, {"shape"}) /\ Staging(tables)
      /\ db.shape # {} => tables.shape = db.shape \cup Membership
  BY <1>2, StagingTables DEF Staging
<1>4. Only(tables, wide, {"shape"}) /\ Staging(wide) /\ wide.shape = tables.shape \cup Added
  BY <1>2, <1>3, StagingColumns DEF Staging, IsDatabase
<1>5. wide.assets = db.assets /\ version = 3
  BY <1>2, <1>3, <1>4 DEF Only, DatabaseFields
<1>6. /\ Rowed(wide, named, "name")
      /\ \A id \in DOMAIN wide.assets :
            trim(wide.assets[id].name) # Unnamed => named.assets[id] = wide.assets[id]
  BY <1>2, <1>4, NamesFilled, DatabaseIsPlain DEF Staging
<1>7. named.assets = wide.assets
  <2>1. \A id \in DOMAIN wide.assets : named.assets[id] = wide.assets[id]
    BY <1>5, <1>6 DEF NamesThere
  <2> QED
    BY <1>4, <1>6, <2>1 DEF Rowed, HasFields, Staging, IsDatabase
<1>8. Only(wide, named, {}) /\ Staging(named)
  <2>1. Staging(named)
    BY <1>4, <1>6, StagingRowed
  <2> QED
    BY <1>6, <1>7, <2>1 DEF Rowed, Only
<1>9. Only(named, widened, {"shape"}) /\ widened.shape = named.shape \cup Performance
  BY <1>2, <1>8, StagingColumns DEF Staging, IsDatabase
<1>10. sourced = widened
  <2>1. derived = widened
    BY <1>2, <1>5 DEF Derived
  <2>2. assigned = derived
    BY <1>2, <1>5 DEF Assigned
  <2>3. migrated = assigned
    BY <1>2, <1>5 DEF MigratedTo
  <2>4. sourced = migrated
    BY <1>2 DEF Sourced
  <2> QED
    BY <2>1, <2>2, <2>3, <2>4
<1>11. Only(db, widened, {"shape"}) /\ db.shape \subseteq widened.shape
  <2>1. Only(db, widened, {"shape"})
    BY <1>3, <1>4, <1>8, <1>9 DEF Only
  <2>2. named.shape = wide.shape
    BY <1>8 DEF Only, DatabaseFields
  <2> QED
    BY <1>3, <1>4, <1>9, <2>1, <2>2
<1>12. /\ Only(widened, next, {"app", "user", "general"})
       /\ next.app = "tagrove" /\ next.user = SCHEMA_VERSION /\ next.general = widened.revision
  <2>1. HasFields(widened, DatabaseFields) /\ next = RebuildQueryRevisions(Identified(widened))
    BY <1>1, <1>10, <1>11 DEF Only
  <2> QED
    BY ONLY <2>1, IdentifiedOnly
<1>13. widened.revision = db.revision /\ next.shape = widened.shape
  BY <1>11, <1>12 DEF Only, DatabaseFields
<1> QED
  BY <1>11, <1>12, <1>13 DEF Only

\* A staged database that passed the last check becomes an open library.
LEMMA ValidatedCurrent ==
    ASSUME NEW db, ValidateBackupDatabase(db, FALSE) = "current"
    PROVE  /\ db.app = "tagrove" /\ db.user = SCHEMA_VERSION
           /\ ForeignKeysHold(db) /\ DerivedRight(db) /\ TagsNamed(db)
           /\ db.revision >= 1 /\ db.perf \in 0 .. 3
           /\ RequiredColumns("current") \subseteq db.shape
           /\ RequiredConstraints("current") \subseteq db.shape
           /\ db.intact /\ ~db.pending /\ \A id \in DOMAIN db.failures : db.failures[id] >= 1
<1> DEFINE compatibility == Compatibility(db, FALSE)
<1>1. /\ compatibility = "current"
      /\ ForeignKeysHold(db) /\ RequiredColumns(compatibility) \subseteq db.shape
      /\ RequiredConstraints(compatibility) \subseteq db.shape /\ db.intact
      /\ \A id \in DOMAIN db.failures : db.failures[id] >= 1
      /\ DataHolds(db, compatibility)
  <2> HIDE DEF compatibility
  <2>1. ValidateBackupDatabase(db, FALSE) =
           IF /\ compatibility # "refused"
              /\ db.intact
              /\ ForeignKeysHold(db)
              /\ compatibility = "current" => \A id \in DOMAIN db.failures : db.failures[id] >= 1
              /\ RequiredColumns(compatibility) \subseteq db.shape
              /\ RequiredConstraints(compatibility) \subseteq db.shape
              /\ DataHolds(db, compatibility)
           THEN compatibility
           ELSE "refused"
    BY DEF ValidateBackupDatabase, compatibility
  <2> QED
    BY <2>1
<1>2. db.app = "tagrove" /\ db.user = 3
  <2>1. db.app = "tagrove" /\ db.user \in 1 .. 3
    BY <1>1 DEF Compatibility, SCHEMA_VERSION
  <2>2. <<"version_1", "version_2", "current">>[db.user] = "current"
    BY <1>1, <2>1 DEF Compatibility, SCHEMA_VERSION
  <2>3. db.user # 1 /\ db.user # 2
    BY <2>2
  <2> QED
    BY <2>1, <2>3
<1> HIDE DEF compatibility
<1>3. DerivedRight(db) /\ TagsNamed(db) /\ db.revision >= 1 /\ db.perf \in 0 .. 3 /\ ~db.pending
  BY <1>1 DEF DataHolds, MetadataHolds, TagsNamed
<1> QED
  BY <1>1, <1>2, <1>3 DEF SCHEMA_VERSION

LEMMA IsCurrent ==
    ASSUME NEW db, db.app = "tagrove", db.user = SCHEMA_VERSION,
           ForeignKeysHold(db), DerivedRight(db), TagsNamed(db),
           db.revision >= 1, db.perf \in 0 .. 3,
           RequiredColumns("current") \subseteq db.shape,
           RequiredConstraints("current") \subseteq db.shape,
           db.intact, ~db.pending, \A id \in DOMAIN db.failures : db.failures[id] >= 1
    PROVE  ValidateBackupDatabase(db, FALSE) = "current"
<1>1. Compatibility(db, FALSE) = "current"
  BY DEF Compatibility, SCHEMA_VERSION
<1>2. DataHolds(db, "current")
  BY DEF DataHolds, MetadataHolds, TagsNamed
<1> DEFINE compatibility == Compatibility(db, FALSE)
<1>3. ValidateBackupDatabase(db, FALSE) =
         IF /\ compatibility # "refused"
            /\ db.intact
            /\ ForeignKeysHold(db)
            /\ compatibility = "current" => \A id \in DOMAIN db.failures : db.failures[id] >= 1
            /\ RequiredColumns(compatibility) \subseteq db.shape
            /\ RequiredConstraints(compatibility) \subseteq db.shape
            /\ DataHolds(db, compatibility)
         THEN compatibility
         ELSE "refused"
  BY DEF ValidateBackupDatabase, compatibility
<1>4. compatibility = "current"
  BY <1>1
<1> HIDE DEF compatibility
<1> QED
  BY <1>2, <1>3, <1>4

LEMMA ReplacedSettles ==
    ASSUME NEW db, NEW next, IsDatabase(db), AssetsAssigned(db), db.perf = 3,
           ValidateBackupDatabase(db, FALSE) = "current",
           next = BumpLibraryRevision(InitSchema(db))
    PROVE  /\ SettledLibrary(next) /\ SameData(db, next)
           /\ ValidateBackupDatabase(next, FALSE) = "current"
<1>1. /\ ForeignKeysHold(db) /\ DerivedRight(db) /\ TagsNamed(db)
      /\ db.revision >= 1 /\ db.perf \in 0 .. 3
      /\ RequiredColumns("current") \subseteq db.shape
  BY ValidatedCurrent
<1>a. /\ RequiredConstraints("current") \subseteq db.shape /\ db.intact /\ ~db.pending
      /\ \A id \in DOMAIN db.failures : db.failures[id] >= 1
  BY ValidatedCurrent
<1>2. Staging(db)
  BY <1>1 DEF Staging
<1>3. NamesThere(db) /\ db.shape # {} /\ "source_record_version" \in db.shape
  BY <1>1 DEF DerivedRight, ColumnsRight, NamesThere, RequiredColumns
<1> DEFINE mid == InitSchema(db)
<1>4. next = BumpLibraryRevision(mid) /\ mid = InitSchema(db)
  OBVIOUS
<1> HIDE DEF mid
<1>5. /\ Only(db, mid, {"shape", "app", "user", "general"})
      /\ db.shape \subseteq mid.shape
      /\ mid.app = "tagrove" /\ mid.user = SCHEMA_VERSION /\ mid.general = db.revision
  BY <1>2, <1>3, <1>4, InitAgain
<1>6. /\ Only(mid, next, {"revision", "general"})
      /\ next.revision = mid.revision + 1 /\ next.general = mid.revision + 1
  BY <1>4, <1>5, Bumped DEF Only
<1>7. /\ HasFields(next, DatabaseFields) /\ SameData(db, next) /\ next.perf = db.perf
      /\ next.app = "tagrove" /\ next.user = SCHEMA_VERSION
      /\ next.shape = mid.shape /\ next.failures = db.failures /\ next.intact = db.intact
      /\ next.pending = db.pending /\ mid.revision = db.revision
  BY <1>5, <1>6 DEF Only, DatabaseFields, SameData
<1>8. db.revision \in Nat
  BY DEF IsDatabase
<1>9. IsDatabase(next)
  <2>1. DatabaseTypes(next)
    BY <1>6, <1>7, <1>8 DEF IsDatabase, DatabaseTypes, SCHEMA_VERSION
  <2>2. DOMAIN next.failures \subseteq DOMAIN db.assets
    BY <1>7 DEF IsDatabase
  <2> QED
    BY <1>7, <2>1, <2>2, SameDataIsDatabase
<1>10. ForeignKeysHold(next) /\ AssetsAssigned(next) /\ DerivedRight(next)
  BY ONLY <1>1, <1>7, SameDataSame, AssetsAssigned(db)
<1>b. UpgradedRight(next)
  BY <1>10 DEF DerivedRight, UpgradedRight, TagsUpgraded
<1>11. RequiredColumns("current") \subseteq next.shape
  BY <1>1, <1>5, <1>7
<1>12. next.revision >= 1 /\ next.general <= next.revision
  BY <1>6, <1>7, <1>8
<1>13. /\ RequiredConstraints("current") \subseteq next.shape /\ next.intact /\ ~next.pending
       /\ \A id \in DOMAIN next.failures : next.failures[id] >= 1
       /\ TagsNamed(next) /\ next.perf \in 0 .. 3
  BY <1>1, <1>a, <1>5, <1>7 DEF SameData, TagsNamed
<1>14. ValidateBackupDatabase(next, FALSE) = "current"
  BY ONLY <1>7, <1>10, <1>11, <1>12, <1>13, IsCurrent
<1> QED
  BY <1>7, <1>9, <1>10, <1>b, <1>11, <1>12, <1>14 DEF SettledLibrary

\* A finite set as a sequence without repetitions.
LEMMA SetAsSeq ==
    ASSUME NEW S, IsFiniteSet(S)
    PROVE  /\ SetToSeq(S) \in [1 .. Cardinality(S) -> S] /\ Cardinality(S) \in Nat
           /\ IsInjective(SetToSeq(S)) /\ ToSet(SetToSeq(S)) = S
<1> DEFINE n == Cardinality(S)
           D == 1 .. n
<1>1. n \in Nat /\ ExistsBijection(D, S)
  BY FS_CardinalityType
<1>2. \E f \in [D -> S] : IsInjective(f)
  BY <1>1 DEF ExistsBijection, Bijection, Injection, IsInjective
<1>3. SetToSeq(S) = CHOOSE f \in [D -> S] : IsInjective(f)
  BY DEF SetToSeq
<1> HIDE DEF n, D
<1>4. SetToSeq(S) \in [D -> S] /\ IsInjective(SetToSeq(S))
  BY <1>2, <1>3
<1> DEFINE f == SetToSeq(S)
<1> HIDE DEF f
<1>5. f \in Injection(D, S)
  BY <1>4 DEF f, Injection
<1>6. IsFiniteSet(D) /\ Cardinality(D) = n
  <2>1. 1 \in Int /\ n \in Int /\ n \in Nat
    BY <1>1
  <2>2. IsFiniteSet(1 .. n) /\ Cardinality(1 .. n) = IF 1 > n THEN 0 ELSE n - 1 + 1
    BY <2>1, FS_Interval
  <2> QED
    BY <2>1, <2>2 DEF D
<1>7. f \in Surjection(D, S)
  BY <1>5, <1>6, FS_Injection DEF n
<1>8. ToSet(f) = S
  BY <1>5, <1>7 DEF ToSet, Surjection, Injection
<1> QED
  BY <1>1, <1>4, <1>8 DEF f, n, D

LEMMA MappingsAreFinite ==
    ASSUME NEW mappings \in OfferedMappings, IsFiniteSet(chosen.roots)
    PROVE  IsFiniteSet(DOMAIN mappings)
<1>1. CASE mappings = << >>
  <2>1. DOMAIN mappings = {}
    BY <1>1
  <2> QED
    BY <2>1, FS_EmptySet
<1>2. CASE mappings # << >>
  <2> DEFINE sources == SetToSeq(chosen.roots)
             n == Cardinality(chosen.roots)
  <2>1. DOMAIN mappings = DOMAIN sources
    <3> HIDE DEF sources
    <3>1. mappings \in {[i \in DOMAIN sources |-> [source |-> sources[i], target |-> chosenTo[i]]] :
                          chosenTo \in [DOMAIN sources -> Directories \cup DOMAIN Links]}
      BY <1>2 DEF OfferedMappings, sources
    <3> QED
      BY <3>1
  <2>2. DOMAIN sources = 1 .. n /\ n \in Nat
    BY SetAsSeq
  <2> HIDE DEF sources, n
  <2>3. IsFiniteSet(1 .. n)
    BY <2>2, FS_Interval
  <2> QED
    BY <2>1, <2>2, <2>3
<1> QED
  BY <1>1, <1>2

LEMMA SortedMappingsDomain ==
    ASSUME NEW mappings PROVE DOMAIN SortedMappings(mappings) = DOMAIN mappings
BY DEF SortedMappings

\* The rows of rewritten_assets: each asset keeps a root.
RowsAccepted(db, rows) ==
    /\ DOMAIN rows = DOMAIN db.assets
    /\ \A id \in DOMAIN rows :
          rows[id].roots # {} /\ \E pair \in db.members : pair[1] = id

\* rewrite_staged_paths leaves every asset with a root.
LEMMA PathsInstalled ==
    ASSUME NEW db, NEW rows, NEW mappings, NEW next, HalfDatabase(db), RowsAccepted(db, rows),
           IsFiniteSet(DOMAIN mappings), next = InstallPaths(db, rows, mappings)
    PROVE  /\ HalfDatabase(next) /\ next.perf = db.perf /\ DOMAIN next.failures = {}
           /\ AssetsAssigned(next)
<1> DEFINE New(id) == [db.assets[id] EXCEPT !.path = rows[id].path, !.name = Last(rows[id].path),
                              !.key = canonical_key(Last(rows[id].path)), !.thumb = rows[id].thumb]
           assets == [id \in DOMAIN db.assets |-> New(id)]
           target(root) == CHOOSE i \in DOMAIN mappings : mappings[i].target = root
           enabled(m) == m.source \in DOMAIN db.roots /\ db.roots[m.source]
           targets == {mappings[i].target : i \in DOMAIN mappings}
           mapped == [root \in targets |-> enabled(mappings[target(root)])]
           roots == IF mappings = << >> THEN db.roots ELSE mapped
           links == UNION {{<<id, root>> : root \in rows[id].roots} : id \in DOMAIN rows}
           members == IF mappings = << >> THEN db.members ELSE links
           none == << >>
<1>1. next = [db EXCEPT !.assets = assets, !.roots = roots, !.members = members, !.failures = none]
  BY DEF InstallPaths
<1>2. /\ DOMAIN assets = DOMAIN db.assets /\ HasFields(assets, DOMAIN assets)
      /\ \A id \in DOMAIN assets : HasFields(assets[id], AssetFields)
  <2>1. ASSUME NEW id \in DOMAIN db.assets PROVE HasFields(New(id), AssetFields)
    <3> DEFINE row == db.assets[id]
               path == rows[id].path
               name == Last(rows[id].path)
               key == canonical_key(Last(rows[id].path))
               thumb == rows[id].thumb
               new == [row EXCEPT !.path = path, !.name = name, !.key = key, !.thumb = thumb]
    <3>1. HasFields(row, AssetFields)
      BY DEF HalfDatabase
    <3>2. HasFields(new, AssetFields)
      <4> HIDE DEF row, path, name, key, thumb
      <4> QED
        BY <3>1 DEF HasFields, AssetFields
    <3> QED
      BY <3>2
  <2> HIDE DEF New
  <2> QED
    BY <2>1 DEF HasFields
<1>3. DOMAIN none = {}
  OBVIOUS
<1>4. IsFiniteSet(DOMAIN roots)
  <2>1. IsFiniteSet(DOMAIN db.roots)
    BY DEF HalfDatabase
  <2>2. DOMAIN mapped = targets
    OBVIOUS
  <2>3. IsFiniteSet(targets)
    <3> DEFINE f == [i \in DOMAIN mappings |-> mappings[i].target]
    <3>1. f \in Surjection(DOMAIN mappings, targets)
      BY DEF Surjection
    <3> HIDE DEF f, targets
    <3> QED
      BY <3>1, FS_Surjection
  <2> HIDE DEF mapped, targets
  <2> QED
    BY <2>1, <2>2, <2>3
<1>5. \A id \in DOMAIN rows : \E pair \in members : pair[1] = id
  <2>1. CASE mappings = << >>
    <3>1. members = db.members
      BY <2>1
    <3> HIDE DEF members
    <3> QED
      BY <3>1 DEF RowsAccepted
  <2>2. CASE mappings # << >>
    <3> SUFFICES ASSUME NEW id \in DOMAIN rows PROVE \E pair \in links : pair[1] = id
      BY <2>2
    <3>1. PICK root \in rows[id].roots : TRUE
      BY DEF RowsAccepted
    <3>2. <<id, root>> \in links
      OBVIOUS
    <3> HIDE DEF links
    <3> QED
      BY <3>2
  <2> QED
    BY <2>1, <2>2
<1> HIDE DEF assets, roots, members, none
<1>6. /\ Only(db, next, {"assets", "roots", "members", "failures"})
      /\ next.assets = assets /\ next.roots = roots /\ next.members = members
      /\ next.failures = none
  <2>1. HasFields(db, DatabaseFields)
    BY DEF HalfDatabase
  <2>2. HasFields(next, DatabaseFields)
    BY ONLY <1>1, <2>1 DEF HasFields, DatabaseFields
  <2>3. /\ next.assets = assets /\ next.roots = roots /\ next.members = members
        /\ next.failures = none
    BY ONLY <1>1, <2>1 DEF HasFields, DatabaseFields
  <2>4. \A f \in DatabaseFields \ {"assets", "roots", "members", "failures"} : next[f] = db[f]
    BY ONLY <1>1, <2>1 DEF HasFields, DatabaseFields
  <2> QED
    BY ONLY <2>2, <2>3, <2>4 DEF Only
<1>7. /\ HasFields(next, DatabaseFields) /\ next.perf = db.perf /\ next.tagged = db.tagged
      /\ next.intact = db.intact /\ next.pending = db.pending /\ next.user = db.user
      /\ next.revision = db.revision /\ next.general = db.general
  BY <1>6 DEF Only, DatabaseFields
<1>8. HalfDatabase(next)
  <2>1. DatabaseTypes(next)
    BY <1>7 DEF HalfDatabase, DatabaseTypes
  <2> QED
    BY <1>2, <1>4, <1>6, <1>7, <2>1 DEF HalfDatabase
<1>9. AssetsAssigned(next)
  BY <1>2, <1>5, <1>6 DEF AssetsAssigned, RowsAccepted
<1> QED
  BY <1>3, <1>6, <1>7, <1>8, <1>9

LEMMA RewrittenRoots ==
    ASSUME NEW db, NEW id, NEW archive, NEW mappings,
           Rewritten(db, id, archive, mappings).roots # {}
    PROVE  \E root : <<id, root>> \in db.members
<1>1. PICK root \in AssignedRoots(db, id) : TRUE
  BY DEF Rewritten
<1> QED
  BY <1>1 DEF AssignedRoots

LEMMA PathsRewritten ==
    ASSUME NEW db, NEW archive, NEW mappings, NEW rewritten, HalfDatabase(db),
           IsFiniteSet(DOMAIN mappings), rewritten = RewriteStagedPaths(db, archive, mappings), rewritten.ok
    PROVE  /\ HalfDatabase(rewritten.db) /\ rewritten.db.perf = db.perf
           /\ DOMAIN rewritten.db.failures = {} /\ AssetsAssigned(rewritten.db)
<1> DEFINE sorted == SortedMappings(mappings)
           rows == [id \in DOMAIN db.assets |-> Rewritten(db, id, archive, sorted)]
           Targetless(id) == \E root \in AssignedRoots(db, id) : TargetsOf(root, sorted) = {}
           Accepted == /\ \A root \in DOMAIN db.roots :
                             ValidStoredPath(root) /\ canonicalize(root) \notin DOMAIN disk
                       /\ ValidRootMappings(DOMAIN db.roots, sorted)
                       /\ \A id \in DOMAIN rows :
                             RewriteAccepts(db.assets[id], rows[id], Targetless(id))
                       /\ NoCollision(rows)
                       /\ UpdatesInOrder(db, rows)
           out == InstallPaths(db, rows, sorted)
<1>1. rewritten = IF Accepted THEN [ok |-> TRUE, db |-> out] ELSE Failed
  BY DEF RewriteStagedPaths
<1>2. Accepted /\ rewritten.db = out
  <2> HIDE DEF Accepted, out
  <2> QED
    BY <1>1 DEF Failed
<1>3. \A id \in DOMAIN rows : rows[id].roots # {}
  BY <1>2 DEF RewriteAccepts
<1>4. \A id \in DOMAIN rows : \E root : <<id, root>> \in db.members
  BY <1>3, RewrittenRoots
<1>5. RowsAccepted(db, rows)
  <2>1. ASSUME NEW id \in DOMAIN rows PROVE \E pair \in db.members : pair[1] = id
    <3>1. PICK root : <<id, root>> \in db.members
      BY <1>4
    <3> QED
      BY <3>1
  <2> QED
    BY <1>3, <2>1 DEF RowsAccepted
<1>6. IsFiniteSet(DOMAIN sorted)
  BY SortedMappingsDomain
<1>7. out = InstallPaths(db, rows, sorted)
  OBVIOUS
<1> HIDE DEF sorted, rows, out, Accepted
<1>8. /\ HalfDatabase(out) /\ out.perf = db.perf /\ DOMAIN out.failures = {}
      /\ AssetsAssigned(out)
  <2>1. HalfDatabase(db)
    OBVIOUS
  <2> QED
    BY ONLY <1>6, <1>7, <1>5, <2>1, PathsInstalled
<1> QED
  BY <1>2, <1>8

LEMMA AcceptedSourceParts ==
    ASSUME NEW archive, AcceptedSource(archive), IsDatabase(archive.db)
    PROVE  /\ ForeignKeysHold(archive.db) /\ TagsNamed(archive.db)
           /\ archive.db.revision >= 1 /\ archive.db.perf \in 0 .. 3
<1> DEFINE allow == AllowsLegacy(archive)
           db == archive.db
           compatibility == Compatibility(db, allow)
<1>1. ValidateBackupDatabase(db, allow) # "refused"
  BY DEF AcceptedSource
<1>2. ForeignKeysHold(db) /\ DataHolds(db, compatibility)
  <2> HIDE DEF db, allow
  <2> QED
    BY <1>1 DEF ValidateBackupDatabase
<1> QED
  BY <1>2 DEF DataHolds, MetadataHolds, TagsNamed

LEMMA StagedSettles ==
    ASSUME NEW archive, NEW mappings, NEW staged, NEW next, IsDatabase(archive.db),
           IsFiniteSet(DOMAIN mappings), staged = Staged(archive, mappings), staged.ok,
           next = BumpLibraryRevision(InitSchema(staged.db))
    PROVE  SettledLibrary(next)
<1> DEFINE mid == InitSchema(archive.db)
           rewritten == RewriteStagedPaths(mid, archive, mappings)
           db == rewritten.db
<1>1. /\ AcceptedSource(archive) /\ rewritten.ok /\ staged = rewritten
      /\ ValidateBackupDatabase(rewritten.db, FALSE) = "current"
  <2> DEFINE all == {archive.entries[i].name : i \in DOMAIN archive.entries}
             Extracted == AcceptedSource(archive) /\ Extracts(archive, {n \in all : Recognized(n)})
             Current == rewritten.ok /\ ValidateBackupDatabase(rewritten.db, FALSE) = "current"
  <2>1. staged = IF Extracted THEN (IF Current THEN rewritten ELSE Failed) ELSE Failed
    BY DEF Staged
  <2>2. Extracted /\ Current /\ staged = rewritten
    <3> HIDE DEF Extracted, Current, rewritten
    <3> QED
      BY <2>1 DEF Failed
  <2> QED
    BY <2>2
<1>2. /\ ForeignKeysHold(archive.db) /\ TagsNamed(archive.db)
      /\ archive.db.revision >= 1 /\ archive.db.perf \in 0 .. 3
  BY <1>1, AcceptedSourceParts
<1>3. mid = InitSchema(archive.db) /\ rewritten = RewriteStagedPaths(mid, archive, mappings)
        /\ db = rewritten.db
  OBVIOUS
<1> HIDE DEF mid, rewritten, db
<1>4. HalfDatabase(mid) /\ mid.perf = 3
  BY <1>2, <1>3, Initialized
<1>5. /\ HalfDatabase(db) /\ db.perf = 3 /\ DOMAIN db.failures = {} /\ AssetsAssigned(db)
  BY <1>1, <1>3, <1>4, PathsRewritten
<1>6. ValidateBackupDatabase(db, FALSE) = "current" /\ next = BumpLibraryRevision(InitSchema(db))
  BY <1>1, <1>3
<1>7. DerivedRight(db)
  BY <1>6, ValidatedCurrent
<1>8. IsDatabase(db)
  <2>1. \A id \in DOMAIN db.assets : db.assets[id].count \in Nat
    BY <1>5, <1>7, FiniteTags DEF HalfDatabase, DerivedRight, ColumnsRight
  <2> QED
    BY <1>5, <2>1 DEF HalfDatabase, IsDatabase, DatabaseTypes
<1> QED
  BY ONLY <1>5, <1>6, <1>8, ReplacedSettles

-----------------------------------------------------------------------------
(* Bundles.                                                                *)

\* What an export may write over: no asset lies at the target, if there was
\* anything at first.
Exportable(db, target) ==
    /\ IsDatabase(db) /\ db.user = SCHEMA_VERSION
    /\ \A id \in DOMAIN db.assets :
          canonicalize(db.assets[id].path) = target => target \notin DOMAIN Files

DiskInv ==
    /\ DOMAIN Files \subseteq DOMAIN disk
    /\ \A path \in DOMAIN disk : disk[path].kind = "archive" => IsDatabase(disk[path].db)
    /\ PublishedArchiveIsWhole

ExportInv ==
    /\ export.step \in {"idle", "snapshot", "written"}
    /\ export.step = "idle" => export = Idle
    /\ export.step = "snapshot" => Exportable(export.db, export.target)
    /\ export.step = "written" =>
          /\ export.archive.kind = "archive"
          /\ Exportable(export.archive.db, export.target)
          /\ ManifestFits(export.archive.manifest, export.archive.db)

ChosenInv ==
    chosen # Nothing =>
        /\ chosen.path \in DOMAIN disk /\ disk[chosen.path].kind = "archive"
        /\ IsFiniteSet(chosen.roots)

TransferInv == DiskInv /\ ExportInv /\ ChosenInv

LEMMA InitTransfer == ASSUME Init PROVE TransferInv
<1>1. DiskInv
  BY FilesAssumption DEF Init, DiskInv, PublishedArchiveIsWhole
<1>2. ExportInv
  BY DEF Init, ExportInv, Idle
<1>3. ChosenInv
  BY DEF Init, ChosenInv
<1> QED
  BY <1>1, <1>2, <1>3 DEF TransferInv

\* What the editors, the start and a vanished thumbnail leave alone.
LEMMA TransferUntouched ==
    ASSUME TransferInv, disk' = disk, export' = export, chosen' = chosen PROVE TransferInv'
<1>1. DiskInv'
  BY DEF TransferInv, DiskInv, PublishedArchiveIsWhole
<1>2. ExportInv' /\ ChosenInv'
  BY DEF TransferInv, ExportInv, ChosenInv
<1> QED
  BY <1>1, <1>2 DEF TransferInv

\* A failure or the end of the program gives up the export and the import.
LEMMA TransferGivenUp ==
    ASSUME TransferInv, disk' = disk, export' \in {export, Idle}, chosen' \in {chosen, Nothing}
    PROVE  TransferInv'
<1>1. DiskInv'
  BY DEF TransferInv, DiskInv, PublishedArchiveIsWhole
<1>2. ExportInv'
  BY DEF TransferInv, ExportInv, Idle
<1>3. ChosenInv'
  BY DEF TransferInv, ChosenInv
<1> QED
  BY <1>1, <1>2, <1>3 DEF TransferInv

LEMMA SnapshotStep == ASSUME StartInv, TransferInv, ExportSnapshot PROVE TransferInv'
<1>1. SettledLibrary(lib) /\ disk' = disk /\ chosen' = chosen
  BY DEF ExportSnapshot, Free, StartInv
<1>2. PICK target \in Targets :
          /\ ValidExportTarget(PlaceOf(target), lib)
          /\ export' = [step |-> "snapshot", target |-> PlaceOf(target), db |-> lib]
  BY DEF ExportSnapshot
<1> DEFINE place == PlaceOf(target)
<1> HIDE DEF place
<1>3. ASSUME NEW id \in DOMAIN lib.assets, canonicalize(lib.assets[id].path) = place
      PROVE  place \notin DOMAIN Files
  BY <1>2, <1>3 DEF place, ValidExportTarget, PathExists, TransferInv, DiskInv
<1>4. Exportable(lib, place)
  BY <1>1, <1>3 DEF Exportable, SettledLibrary
<1>5. ExportInv'
  <2>1. export' = [step |-> "snapshot", target |-> place, db |-> lib]
    BY <1>2 DEF place
  <2> QED
    BY <1>4, <2>1 DEF ExportInv
<1>6. DiskInv' /\ ChosenInv'
  BY <1>1 DEF TransferInv, DiskInv, PublishedArchiveIsWhole, ChosenInv
<1> QED
  BY <1>5, <1>6 DEF TransferInv

\* The manifest an export writes is the database's.
LEMMA ManifestWritten ==
    ASSUME NEW db, NEW thumbnails, IsDatabase(db), db.user = SCHEMA_VERSION
    PROVE  /\ Archive(db, thumbnails).kind = "archive" /\ Archive(db, thumbnails).db = db
           /\ ManifestFits(Archive(db, thumbnails).manifest, db)
<1> DEFINE roots == SetToSeq(DOMAIN db.roots)
           entries == <<Entry(Manifest), Entry(Database)>>
                        \o SetToSeq({Entry(<<"thumbs">> \o file) : file \in thumbnails})
           manifest == [format |-> FORMAT_VERSION, app |-> "tagrove", schema |-> SCHEMA_VERSION,
                        platform |-> "linux", roots |-> roots, thumbs_dir |-> ThumbsDir]
           archive == Archive(db, thumbnails)
<1>1. archive = [kind |-> "archive", manifest |-> manifest, entries |-> entries, db |-> db]
  BY DEF Archive
<1>2. ToSet(roots) = DOMAIN db.roots
  BY SetAsSeq DEF IsDatabase
<1> HIDE DEF roots, entries, archive
<1>3. manifest.schema = db.user /\ ToSet(manifest.roots) = DOMAIN db.roots
  BY <1>2
<1> HIDE DEF manifest
<1>4. ManifestFits(manifest, db)
  BY <1>3 DEF ManifestFits
<1> QED
  BY <1>1, <1>4 DEF archive

LEMMA WriteStep == ASSUME TransferInv, WriteArchive PROVE TransferInv'
<1> DEFINE db == export.db
           archive == Archive(db, thumbs)
           target == export.target
<1>1. /\ export' = [step |-> "written", target |-> target, archive |-> archive]
      /\ Exportable(db, target) /\ disk' = disk /\ chosen' = chosen
  BY DEF WriteArchive, TransferInv, ExportInv
<1>2. archive.kind = "archive" /\ archive.db = db /\ ManifestFits(archive.manifest, db)
  <2>1. IsDatabase(db) /\ db.user = SCHEMA_VERSION
    BY <1>1 DEF Exportable
  <2> HIDE DEF db
  <2> QED
    BY <2>1, ManifestWritten
<1> HIDE DEF db, archive, target
<1>3. ExportInv'
  BY <1>1, <1>2 DEF ExportInv
<1>4. DiskInv' /\ ChosenInv'
  BY <1>1 DEF TransferInv, DiskInv, PublishedArchiveIsWhole, ChosenInv
<1> QED
  BY <1>3, <1>4 DEF TransferInv

LEMMA PublishStep == ASSUME TransferInv, PublishArchive PROVE TransferInv'
<1> DEFINE archive == export.archive
           target == export.target
<1>1. /\ disk' = [path \in DOMAIN disk \cup {target} |->
                      IF path = target THEN archive ELSE disk[path]]
      /\ export' = Idle /\ chosen' = chosen /\ ValidArchive(archive)
      /\ archive.kind = "archive" /\ Exportable(archive.db, target)
      /\ ManifestFits(archive.manifest, archive.db)
  BY DEF PublishArchive, TransferInv, ExportInv
<1> HIDE DEF archive, target
<1>2. /\ DOMAIN disk' = DOMAIN disk \cup {target} /\ disk'[target] = archive
      /\ \A path \in DOMAIN disk' : path = target \/ (path \in DOMAIN disk /\ disk'[path] = disk[path])
  BY <1>1
<1>3. PublishedArchiveIsWhole'
  <2> SUFFICES ASSUME NEW path \in DOMAIN disk'
               PROVE \/ path \in DOMAIN Files /\ disk'[path] = Files[path]
                     \/ /\ disk'[path].kind = "archive"
                        /\ ValidArchive(disk'[path])
                        /\ ManifestFits(disk'[path].manifest, disk'[path].db)
                        /\ \A id \in DOMAIN disk'[path].db.assets :
                              canonicalize(disk'[path].db.assets[id].path) = path
                                => path \notin DOMAIN Files
    BY DEF PublishedArchiveIsWhole
  <2>1. CASE path = target
    BY <1>1, <1>2, <2>1 DEF Exportable
  <2>2. CASE path # target
    <3>1. path \in DOMAIN disk /\ disk'[path] = disk[path]
      BY <1>2, <2>2
    <3> QED
      BY <3>1 DEF TransferInv, DiskInv, PublishedArchiveIsWhole
  <2> QED
    BY <2>1, <2>2
<1>4. DiskInv'
  <2>1. DOMAIN Files \subseteq DOMAIN disk'
    BY <1>2 DEF TransferInv, DiskInv
  <2>2. \A path \in DOMAIN disk' : disk'[path].kind = "archive" => IsDatabase(disk'[path].db)
    BY <1>1, <1>2 DEF TransferInv, DiskInv, Exportable
  <2> QED
    BY <1>3, <2>1, <2>2 DEF DiskInv
<1>5. ExportInv'
  BY <1>1 DEF ExportInv, Idle
<1>6. ChosenInv'
  <2> SUFFICES ASSUME chosen # Nothing
               PROVE  /\ chosen.path \in DOMAIN disk' /\ disk'[chosen.path].kind = "archive"
                      /\ IsFiniteSet(chosen.roots)
    BY <1>1 DEF ChosenInv
  <2> QED
    BY <1>1, <1>2 DEF TransferInv, ChosenInv
<1> QED
  BY <1>4, <1>5, <1>6 DEF TransferInv

LEMMA InspectStep ==
    ASSUME TransferInv, NEW path \in DOMAIN disk, InspectBundle(path) PROVE TransferInv'
<1> DEFINE roots == DOMAIN disk[path].db.roots
           mapped == \E root \in roots : is_windows_absolute(root)
<1>1. /\ chosen' = [kind |-> "inspected", path |-> path, roots |-> roots,
                    requires_mapping |-> mapped]
      /\ disk' = disk /\ export' = export /\ disk[path].kind = "archive"
  BY DEF InspectBundle
<1>2. IsFiniteSet(roots)
  BY <1>1 DEF TransferInv, DiskInv, IsDatabase
<1> HIDE DEF roots, mapped
<1>3. ChosenInv'
  BY <1>1, <1>2 DEF ChosenInv
<1>4. DiskInv' /\ ExportInv'
  BY <1>1 DEF TransferInv, DiskInv, PublishedArchiveIsWhole, ExportInv
<1> QED
  BY <1>3, <1>4 DEF TransferInv

\* A refused import leaves the library as it is, a successful one leaves a
\* settled one.
LEMMA ImportStep ==
    ASSUME StartInv, TransferInv, NEW mappings \in OfferedMappings, ImportBundle(mappings)
    PROVE  StartInv' /\ TransferInv'
<1> DEFINE archive == disk[chosen.path]
<1>1. /\ up = Open /\ SettledLibrary(lib) /\ up' = up /\ perf' = perf /\ interrupts' = interrupts
      /\ chosen # Nothing /\ chosen' = Nothing /\ disk' = disk /\ export' = export
  BY DEF ImportBundle, Free, StartInv
<1>2. IsDatabase(archive.db) /\ IsFiniteSet(chosen.roots)
  BY <1>1 DEF TransferInv, DiskInv, ChosenInv
<1>3. IsFiniteSet(DOMAIN mappings)
  BY <1>2, MappingsAreFinite
<1>4. PICK staged : /\ staged = Staged(archive, mappings)
                    /\ lib' = IF staged.ok THEN BumpLibraryRevision(InitSchema(staged.db)) ELSE lib
  BY DEF ImportBundle
<1> HIDE DEF archive
<1>5. SettledLibrary(lib')
  <2>1. CASE staged.ok
    <3>1. lib' = BumpLibraryRevision(InitSchema(staged.db))
      BY <1>4, <2>1
    <3> QED
      BY <1>2, <1>3, <1>4, <2>1, <3>1, StagedSettles
  <2>2. CASE ~staged.ok
    BY <1>1, <1>4, <2>2
  <2> QED
    BY <2>1, <2>2
<1>6. StartInv'
  <2>1. BelongsHere(lib') /\ Upheld(lib')
    BY <1>5, SettledIsUpheld
  <2>2. IsDatabase(lib')
    BY <1>5 DEF SettledLibrary
  <2> QED
    BY <1>1, <1>5, <2>1, <2>2, Numbered DEF StartInv
<1> QED
  BY <1>1, <1>6, TransferGivenUp

-----------------------------------------------------------------------------
(* The whole program.                                                      *)

BundleIInv == StartInv /\ TransferInv

\* One action at a time; export, import and the editors need an open library.
THEOREM NextBundleIInv == BundleIInv /\ [Next]_vars => BundleIInv'
<1> SUFFICES ASSUME BundleIInv, [Next]_vars PROVE BundleIInv'
  OBVIOUS
<1>1. StartInv /\ TransferInv
  BY DEF BundleIInv
<1>2. CASE Start /\ UNCHANGED bundleVars
  <2>1. StartInv'
    BY <1>1, <1>2, StartStep
  <2>2. TransferInv'
    BY <1>1, <1>2, TransferUntouched DEF bundleVars
  <2> QED
    BY <2>1, <2>2 DEF BundleIInv
<1>3. CASE RunStatement /\ UNCHANGED bundleVars
  <2>1. StartInv'
    BY <1>1, <1>3, StatementStep
  <2>2. TransferInv'
    BY <1>1, <1>3, TransferUntouched DEF bundleVars
  <2> QED
    BY <2>1, <2>2 DEF BundleIInv
<1>4. CASE DieOrQuit
  <2>1. StartInv'
    BY <1>1, <1>4, InterruptStep DEF DieOrQuit
  <2>2. TransferInv'
    BY <1>1, <1>4, TransferGivenUp DEF DieOrQuit
  <2> QED
    BY <2>1, <2>2 DEF BundleIInv
<1>5. ASSUME UNCHANGED schemaVars PROVE StartInv'
  BY <1>1, <1>5 DEF schemaVars, StartInv
<1>6. CASE ExportSnapshot
  <2>1. StartInv'
    BY <1>5, <1>6 DEF ExportSnapshot
  <2>2. TransferInv'
    BY <1>1, <1>6, SnapshotStep
  <2> QED
    BY <2>1, <2>2 DEF BundleIInv
<1>7. CASE WriteArchive
  <2>1. StartInv'
    BY <1>5, <1>7 DEF WriteArchive
  <2>2. TransferInv'
    BY <1>1, <1>7, WriteStep
  <2> QED
    BY <2>1, <2>2 DEF BundleIInv
<1>8. CASE PublishArchive
  <2>1. StartInv'
    BY <1>5, <1>8 DEF PublishArchive
  <2>2. TransferInv'
    BY <1>1, <1>8, PublishStep
  <2> QED
    BY <2>1, <2>2 DEF BundleIInv
<1>9. CASE AbandonExport
  <2>1. StartInv'
    BY <1>5, <1>9 DEF AbandonExport
  <2>2. TransferInv'
    BY <1>1, <1>9, TransferGivenUp DEF AbandonExport
  <2> QED
    BY <2>1, <2>2 DEF BundleIInv
<1>10. CASE \E path \in DOMAIN disk : InspectBundle(path)
  <2>1. StartInv'
    BY <1>5, <1>10 DEF InspectBundle
  <2>2. TransferInv'
    BY <1>1, <1>10, InspectStep
  <2> QED
    BY <2>1, <2>2 DEF BundleIInv
<1>11. CASE \E mappings \in OfferedMappings : ImportBundle(mappings)
  BY <1>1, <1>11, ImportStep DEF BundleIInv
<1>12. CASE CancelImport
  <2>1. StartInv'
    BY <1>5, <1>12 DEF CancelImport
  <2>2. TransferInv'
    BY <1>1, <1>12, TransferGivenUp DEF CancelImport
  <2> QED
    BY <2>1, <2>2 DEF BundleIInv
<1>13. CASE \E names \in TagLists : EditTags(names)
  <2>1. StartInv'
    BY <1>1, <1>13, EditStep
  <2>2. TransferInv'
    BY <1>1, <1>13, TransferUntouched DEF EditTags
  <2> QED
    BY <2>1, <2>2 DEF BundleIInv
<1>14. CASE LoseThumbnail
  <2>1. StartInv'
    BY <1>5, <1>14 DEF LoseThumbnail
  <2>2. TransferInv'
    BY <1>1, <1>14, TransferUntouched DEF LoseThumbnail
  <2> QED
    BY <2>1, <2>2 DEF BundleIInv
<1>15. CASE UNCHANGED vars
  <2>1. StartInv'
    BY <1>5, <1>15 DEF vars
  <2>2. TransferInv'
    BY <1>1, <1>15, TransferUntouched DEF vars, bundleVars
  <2> QED
    BY <2>1, <2>2 DEF BundleIInv
<1> QED
  BY <1>2, <1>3, <1>4, <1>6, <1>7, <1>8, <1>9, <1>10, <1>11, <1>12, <1>13, <1>14, <1>15 DEF Next

\* The invariant holds of whatever an earlier release left and whatever lies
\* in the files: every later state of the library is one the next start can
\* take up, and an open one is settled.
THEOREM BundleIInvHolds == Spec => []BundleIInv
<1>1. Init => BundleIInv
  BY InitStart, InitTransfer DEF BundleIInv
<1> QED
  BY <1>1, NextBundleIInv, PTL DEF Spec

\* An open library has its identity, its derived columns and assigned assets,
\* and every tag in its canonical form but for rows that nobody used when it
\* was found, however many starts were interrupted at whichever statement,
\* and whatever was imported and edited in between (init_schema,
\* import_db_bundle).
THEOREM OpenedLibrariesAreUpgraded == Spec => []UpgradeConverges
<1>1. BundleIInv => UpgradeConverges
  <2> SUFFICES ASSUME StartInv PROVE UpgradeConverges
    BY DEF BundleIInv
  <2>1. TypeOK
    BY DEF StartInv, TypeOK, IsDatabase
  <2>2. up = Open =>
          /\ lib.app = "tagrove" /\ lib.user = SCHEMA_VERSION /\ lib.perf = 3
          /\ RequiredColumns("current") \subseteq lib.shape
          /\ ForeignKeysHold(lib) /\ ColumnsRight(lib) /\ TagsUpgraded(lib)
          /\ lib.general <= lib.revision /\ AssetsAssigned(lib)
    BY DEF StartInv, SettledLibrary, UpgradedRight
  <2> QED
    BY <2>1, <2>2 DEF UpgradeConverges
<1> QED
  BY <1>1, BundleIInvHolds, PTL

\* No statement of an upgrade loses or changes an asset's path, group,
\* thumbnail or what its tags are found by, or a scan root, for any library
\* of an earlier release (init_schema, migrate_canonical_keys_and_tags).
THEOREM UpgradesKeepTheLibrary == Spec => UpgradeKeepsTheLibrary
<1>1. BundleIInv /\ [Next]_vars =>
        [(up \in DOMAIN Statements) => Content(lib') = Content(lib)]_schemaVars
  <2> SUFFICES ASSUME BundleIInv, [Next]_vars, up \in DOMAIN Statements, ~UNCHANGED schemaVars
               PROVE  Content(lib') = Content(lib)
    BY Zenon
  <2>1. up \in 1 .. 21 /\ up # Open /\ up # Down
    BY Numbered
  <2>2. CASE RunStatement
    BY <2>2, StatementStep DEF BundleIInv
  <2>3. CASE DieOrQuit
    BY <2>3 DEF DieOrQuit, Interrupt
  <2>4. ~Start /\ ~Free
    BY <2>1 DEF Start, Free
  <2>5. RunStatement \/ DieOrQuit
    BY <2>4 DEF Next, vars, ExportSnapshot, WriteArchive, PublishArchive, AbandonExport,
                InspectBundle, ImportBundle, CancelImport, EditTags, LoseThumbnail
  <2> QED
    BY <2>2, <2>3, <2>5
<1> QED
  BY <1>1, BundleIInvHolds, PTL DEF Spec, UpgradeKeepsTheLibrary

\* What is found at a path was there at first or is a complete archive with
\* the manifest of its database, whatever dies in the middle of an export;
\* and no export wrote over a file the exported library indexes
\* (export_db_bundle, validate_export_target, publish_archive).
THEOREM PublishedArchivesAreWhole == Spec => []PublishedArchiveIsWhole
<1>1. BundleIInv => PublishedArchiveIsWhole
  BY DEF BundleIInv, TransferInv, DiskInv
<1> QED
  BY <1>1, BundleIInvHolds, PTL

-----------------------------------------------------------------------------
(* What an import keeps.                                                   *)

LEMMA ContentFields ==
    ASSUME NEW db, NEW next, Content(next) = Content(db)
    PROVE  /\ DOMAIN next.assets = DOMAIN db.assets /\ next.roots = db.roots
           /\ \A id \in DOMAIN db.assets :
                 /\ next.assets[id].path = db.assets[id].path
                 /\ next.assets[id].group = db.assets[id].group
                 /\ next.assets[id].thumb = db.assets[id].thumb
                 /\ TagsFound(next, id) = TagsFound(db, id)
<1> DEFINE row(d, id) == [path |-> d.assets[id].path, group |-> d.assets[id].group,
                          thumb |-> d.assets[id].thumb, tags |-> TagsFound(d, id)]
<1>1. \A d : Content(d) = [assets |-> [id \in DOMAIN d.assets |-> row(d, id)], roots |-> d.roots]
  BY DEF Content, TagsFound
<1>2. /\ [id \in DOMAIN next.assets |-> row(next, id)] = [id \in DOMAIN db.assets |-> row(db, id)]
      /\ next.roots = db.roots
  BY <1>1
<1>3. DOMAIN next.assets = DOMAIN db.assets
  <2> HIDE DEF row
  <2> QED
    BY <1>2
<1>4. \A id \in DOMAIN db.assets : row(next, id) = row(db, id)
  <2> HIDE DEF row
  <2> QED
    BY <1>2, <1>3
<1> QED
  BY <1>2, <1>3, <1>4

LEMMA ShapeKeepsContent ==
    ASSUME NEW db, NEW next, NEW fields, Only(db, next, fields),
           fields \cap {"assets", "tags", "tagged", "roots", "members"} = {}
    PROVE  Content(next) = Content(db)
<1>1. SameData(db, next)
  BY DEF Only, DatabaseFields, SameData
<1> QED
  BY <1>1, SameDataSame

LEMMA RowedKeepsContent ==
    ASSUME NEW db, NEW next, NEW column, Rowed(db, next, column),
           column \notin {"path", "group", "thumb"}
    PROVE  Content(next) = Content(db)
<1>1. Framed(db, next)
  BY RowedFrames
<1>2. \A id \in DOMAIN db.assets :
         /\ next.assets[id].path = db.assets[id].path
         /\ next.assets[id].group = db.assets[id].group
         /\ next.assets[id].thumb = db.assets[id].thumb
  BY DEF Rowed, AssetFields
<1> QED
  BY <1>1, <1>2, FramedSame

LEMMA CountsKeepContent ==
    ASSUME NEW db, NEW next, Staging(db), next = CountTags(db)
    PROVE  Content(next) = Content(db)
<1> DEFINE ids == DOMAIN db.assets
<1>1. next = WithCounts(db, ids)
  BY DEF CountTags
<1>2. Plain(db)
  BY DatabaseIsPlain DEF Staging
<1> HIDE DEF ids
<1>3. Retag(db, next) /\ next.tags = db.tags /\ next.tagged = db.tagged
  BY <1>1, <1>2, CountsRepaired
<1>4. Framed(db, next)
  BY <1>3 DEF Retag, DatabaseFields, Framed
<1>5. \A id \in DOMAIN db.assets :
         /\ next.assets[id].path = db.assets[id].path
         /\ next.assets[id].group = db.assets[id].group
         /\ next.assets[id].thumb = db.assets[id].thumb
  BY <1>3 DEF Retag, AssetFields
<1> QED
  BY <1>4, <1>5, FramedSame

LEMMA WidenedKeepsContent ==
    ASSUME NEW db, NEW next, IsDatabase(db), ForeignKeysHold(db), TagsNamed(db), db.revision >= 1,
           db.perf \in 0 .. 3, next = Widened(db)
    PROVE  Content(next) = Content(db)
<1> DEFINE tables == CreateTables(db)
           wide == EnsureColumns(tables, Added)
           named == FillFileNames(wide)
<1>1. /\ next = EnsureColumns(named, Performance) /\ named = FillFileNames(wide)
      /\ wide = EnsureColumns(tables, Added) /\ tables = CreateTables(db)
  BY DEF Widened
<1> HIDE DEF tables, wide, named
<1>2. Staging(tables) /\ Only(db, tables, {"shape"})
  BY <1>1, StagingTables
<1>3. Staging(wide) /\ Only(tables, wide, {"shape"})
  BY <1>1, <1>2, StagingColumns DEF Staging, IsDatabase
<1>4. Rowed(wide, named, "name")
  BY <1>1, <1>3, NamesFilled, DatabaseIsPlain DEF Staging
<1>5. Staging(named)
  BY <1>3, <1>4, StagingRowed
<1>6. Only(named, next, {"shape"})
  BY <1>1, <1>5, StagingColumns DEF Staging, IsDatabase
<1> DEFINE shape == {"shape"}
           name == "name"
<1>7. shape \cap {"assets", "tags", "tagged", "roots", "members"} = {}
        /\ name \notin {"path", "group", "thumb"}
  OBVIOUS
<1>8. Only(db, tables, shape) /\ Only(tables, wide, shape) /\ Only(named, next, shape)
        /\ Rowed(wide, named, name)
  BY <1>2, <1>3, <1>4, <1>6
<1> HIDE DEF shape, name
<1>9. Content(tables) = Content(db)
  BY <1>7, <1>8, ShapeKeepsContent
<1>10. Content(wide) = Content(tables)
  BY <1>7, <1>8, ShapeKeepsContent
<1>11. Content(named) = Content(wide)
  BY <1>7, <1>8, RowedKeepsContent
<1>12. Content(next) = Content(named)
  BY <1>7, <1>8, ShapeKeepsContent
<1> QED
  BY <1>9, <1>10, <1>11, <1>12

LEMMA VersionKeepsContent ==
    ASSUME NEW db, NEW version, NEW next, HasFields(db, DatabaseFields),
           next = [db EXCEPT !.perf = version]
    PROVE  Content(next) = Content(db)
<1> DEFINE fields == {"perf"}
<1>1. Only(db, next, fields)
  BY PerfReplaced
<1>2. fields \cap {"assets", "tags", "tagged", "roots", "members"} = {}
  OBVIOUS
<1> HIDE DEF fields
<1> QED
  BY <1>1, <1>2, ShapeKeepsContent

LEMMA DerivedKeepsContent ==
    ASSUME NEW db, NEW version, NEW next, Staging(db), next = Derived(db, version)
    PROVE  Content(next) = Content(db)
<1> DEFINE keyed == LowerKeys(db)
           grouped == LowerGroups(keyed)
           counted == CountTags(grouped)
<1>1. CASE version < 1
  <2>1. /\ next = [counted EXCEPT !.perf = 1] /\ counted = CountTags(grouped)
        /\ grouped = LowerGroups(keyed) /\ keyed = LowerKeys(db)
    BY <1>1 DEF Derived
  <2> HIDE DEF keyed, grouped, counted
  <2>2. Rowed(db, keyed, "key")
    BY <2>1, KeysLowered, DatabaseIsPlain DEF Staging
  <2>3. Staging(keyed)
    BY <2>2, StagingRowed
  <2>4. Rowed(keyed, grouped, "group_key")
    BY <2>1, <2>3, GroupsLowered, DatabaseIsPlain DEF Staging
  <2>5. Staging(grouped)
    BY <2>3, <2>4, StagingRowed
  <2>6. Staging(counted) /\ Content(counted) = Content(grouped)
    BY <2>1, <2>5, StagingCounted, CountsKeepContent
  <2>7. Content(keyed) = Content(db)
    BY <2>2, RowedKeepsContent
  <2>8. Content(grouped) = Content(keyed)
    BY <2>4, RowedKeepsContent
  <2>9. Content(next) = Content(counted)
    <3>1. HasFields(counted, DatabaseFields)
      BY <2>6 DEF Staging, IsDatabase
    <3> QED
      BY ONLY <2>1, <3>1, VersionKeepsContent
  <2> QED
    BY <2>6, <2>7, <2>8, <2>9
<1>2. CASE ~(version < 1)
  BY <1>2 DEF Derived
<1> QED
  BY <1>1, <1>2

LEMMA AssignedKeepsContent ==
    ASSUME NEW db, NEW version, NEW next, Staging(db), next = Assigned(db, version)
    PROVE  Content(next) = Content(db)
<1> DEFINE filled == BackfillAssetScanRoots(db)
<1>1. CASE version < 2
  <2>1. next = [filled EXCEPT !.perf = 2] /\ filled = BackfillAssetScanRoots(db)
    BY <1>1 DEF Assigned
  <2> HIDE DEF filled
  <2>2. IsDatabase(filled) /\ Content(filled) = Content(db)
    BY <2>1, RootsBackfilled DEF Staging
  <2>3. Content(next) = Content(filled)
    <3>1. HasFields(filled, DatabaseFields)
      BY <2>2 DEF IsDatabase
    <3> QED
      BY ONLY <2>1, <3>1, VersionKeepsContent
  <2> QED
    BY <2>2, <2>3
<1>2. CASE ~(version < 2)
  BY <1>2 DEF Assigned
<1> QED
  BY <1>1, <1>2

LEMMA MigratedKeepsContent ==
    ASSUME NEW db, NEW version, NEW next, Staging(db), next = MigratedTo(db, version)
    PROVE  Content(next) = Content(db)
<1>1. CASE version < 3
  <2>1. next = MigrateCanonicalKeysAndTags(db) /\ IsDatabase(db) /\ ForeignKeysHold(db) /\ TagsNamed(db)
    BY <1>1 DEF MigratedTo, Staging
  <2>2. /\ Migrated(db, next) /\ next.roots = db.roots /\ DOMAIN next.assets = DOMAIN db.assets
        /\ \A id \in DOMAIN db.assets :
              /\ next.assets[id].path = db.assets[id].path
              /\ next.assets[id].group = db.assets[id].group
              /\ next.assets[id].thumb = db.assets[id].thumb
    BY <2>1, MigratedLibrary
  <2>3. \A id \in DOMAIN db.assets : TagsFound(next, id) = TagsFound(db, id)
    BY <2>2, FoundAgain DEF Migrated
  <2> QED
    BY <2>2, <2>3, ContentKept
<1>2. CASE ~(version < 3)
  BY <1>2 DEF MigratedTo
<1> QED
  BY <1>1, <1>2

\* init_schema keeps the content of any database that the importer accepts,
\* a legacy one included.
LEMMA InitKeepsContent ==
    ASSUME NEW db, NEW next, IsDatabase(db), ForeignKeysHold(db), TagsNamed(db), db.revision >= 1,
           db.perf \in 0 .. 3, next = InitSchema(db)
    PROVE  Content(next) = Content(db)
<1> DEFINE version == CreateTables(db).perf
           wide == Widened(db)
           derived == Derived(wide, version)
           assigned == Assigned(derived, version)
           migrated == MigratedTo(assigned, version)
           sourced == Sourced(migrated, db.shape)
<1>1. next = RebuildQueryRevisions(Identified(sourced))
  BY InitSchemaInParts
<1>2. /\ sourced = Sourced(migrated, db.shape) /\ migrated = MigratedTo(assigned, version)
      /\ assigned = Assigned(derived, version) /\ derived = Derived(wide, version)
      /\ wide = Widened(db)
  OBVIOUS
<1> HIDE DEF version, wide, derived, assigned, migrated, sourced
<1>3. Staging(wide) /\ Content(wide) = Content(db)
  BY <1>2, WidenedStaging, WidenedKeepsContent
<1>4. Staging(derived) /\ Content(derived) = Content(wide)
  BY <1>2, <1>3, DerivedStaging, DerivedKeepsContent
<1>5. Staging(assigned) /\ Content(assigned) = Content(derived)
  BY <1>2, <1>4, AssignedStaging, AssignedKeepsContent
<1>6. HalfDatabase(migrated) /\ Content(migrated) = Content(assigned)
  BY <1>2, <1>5, MigratedHalf, MigratedKeepsContent
<1> DEFINE columns == {"shape", "failures"}
           markers == {"app", "user", "general"}
<1>7. Only(migrated, sourced, columns) /\ Only(sourced, next, markers)
  <2>1. Only(migrated, sourced, {"shape", "failures"})
    BY <1>2, <1>6, SourcedOnly DEF HalfDatabase
  <2>2. Only(sourced, next, {"app", "user", "general"})
    BY <1>1, <2>1, IdentifiedOnly DEF Only
  <2> QED
    BY <2>1, <2>2
<1>8. /\ columns \cap {"assets", "tags", "tagged", "roots", "members"} = {}
      /\ markers \cap {"assets", "tags", "tagged", "roots", "members"} = {}
  OBVIOUS
<1> HIDE DEF columns, markers
<1>9. Content(sourced) = Content(migrated) /\ Content(next) = Content(sourced)
  BY <1>7, <1>8, ShapeKeepsContent
<1> QED
  BY <1>3, <1>4, <1>5, <1>6, <1>9

\* The roots of the rewritten rows: those of the database without mappings,
\* the targets with them.
RootsOffered(db, rows, mappings) ==
    \A id \in DOMAIN rows : \A root \in rows[id].roots :
        IF mappings = << >> THEN root \in DOMAIN db.roots /\ <<id, root>> \in db.members
        ELSE root \in {mappings[i].target : i \in DOMAIN mappings}

\* Every rewritten row lies in a root, and in all it has.
RowsPlaced(rows) ==
    \A id \in DOMAIN rows :
        /\ rows[id].roots # {}
        /\ \A root \in rows[id].roots : path_is_within_root(rows[id].path, root)

LEMMA InstalledContents ==
    ASSUME NEW db, NEW rows, NEW mappings, NEW next, HalfDatabase(db), RowsAccepted(db, rows),
           RootsOffered(db, rows, mappings), next = InstallPaths(db, rows, mappings)
    PROVE  /\ DOMAIN next.assets = DOMAIN db.assets
           /\ next.tags = db.tags /\ next.tagged = db.tagged
           /\ \A id \in DOMAIN db.assets :
                 /\ next.assets[id].path = rows[id].path
                 /\ next.assets[id].thumb = rows[id].thumb
                 /\ next.assets[id].group = db.assets[id].group
                 /\ \A root \in rows[id].roots :
                       root \in DOMAIN next.roots /\ <<id, root>> \in next.members
<1> DEFINE New(id) == [db.assets[id] EXCEPT !.path = rows[id].path, !.name = Last(rows[id].path),
                              !.key = canonical_key(Last(rows[id].path)), !.thumb = rows[id].thumb]
           assets == [id \in DOMAIN db.assets |-> New(id)]
           target(root) == CHOOSE i \in DOMAIN mappings : mappings[i].target = root
           enabled(m) == m.source \in DOMAIN db.roots /\ db.roots[m.source]
           targets == {mappings[i].target : i \in DOMAIN mappings}
           mapped == [root \in targets |-> enabled(mappings[target(root)])]
           roots == IF mappings = << >> THEN db.roots ELSE mapped
           links == UNION {{<<id, root>> : root \in rows[id].roots} : id \in DOMAIN rows}
           members == IF mappings = << >> THEN db.members ELSE links
           none == << >>
<1>1. next = [db EXCEPT !.assets = assets, !.roots = roots, !.members = members, !.failures = none]
  BY DEF InstallPaths
<1>2. \A id \in DOMAIN db.assets :
         /\ assets[id].path = rows[id].path
         /\ assets[id].thumb = rows[id].thumb
         /\ assets[id].group = db.assets[id].group
  <2>1. ASSUME NEW id \in DOMAIN db.assets
        PROVE  /\ New(id).path = rows[id].path /\ New(id).thumb = rows[id].thumb
               /\ New(id).group = db.assets[id].group
    <3> DEFINE row == db.assets[id]
               path == rows[id].path
               name == Last(rows[id].path)
               key == canonical_key(Last(rows[id].path))
               thumb == rows[id].thumb
               new == [row EXCEPT !.path = path, !.name = name, !.key = key, !.thumb = thumb]
    <3>1. HasFields(row, AssetFields)
      BY DEF HalfDatabase
    <3>2. new.path = path /\ new.thumb = thumb /\ new.group = row.group
      <4> HIDE DEF row, path, name, key, thumb
      <4> QED
        BY <3>1 DEF HasFields, AssetFields
    <3> QED
      BY <3>2
  <2> HIDE DEF New
  <2> QED
    BY <2>1
<1>3. DOMAIN assets = DOMAIN db.assets
  OBVIOUS
<1>4. \A id \in DOMAIN rows : \A root \in rows[id].roots :
         root \in DOMAIN roots /\ <<id, root>> \in members
  <2> SUFFICES ASSUME NEW id \in DOMAIN rows, NEW root \in rows[id].roots
               PROVE  root \in DOMAIN roots /\ <<id, root>> \in members
    OBVIOUS
  <2>1. CASE mappings = << >>
    <3>1. roots = db.roots /\ members = db.members
      BY <2>1
    <3>2. root \in DOMAIN db.roots /\ <<id, root>> \in db.members
      BY <2>1 DEF RootsOffered
    <3> HIDE DEF roots, members
    <3> QED
      BY <3>1, <3>2
  <2>2. CASE mappings # << >>
    <3>1. roots = mapped /\ members = links
      BY <2>2
    <3>2. root \in targets
      BY <2>2 DEF RootsOffered
    <3>3. <<id, root>> \in links
      OBVIOUS
    <3>4. DOMAIN mapped = targets
      OBVIOUS
    <3> HIDE DEF roots, members, mapped, links, targets
    <3> QED
      BY <3>1, <3>2, <3>3, <3>4
  <2> QED
    BY <2>1, <2>2
<1> HIDE DEF assets, roots, members, none
<1>5. HasFields(db, DatabaseFields)
  BY DEF HalfDatabase
<1>6. /\ next.assets = assets /\ next.roots = roots /\ next.members = members
      /\ next.tags = db.tags /\ next.tagged = db.tagged
  BY ONLY <1>1, <1>5 DEF HasFields, DatabaseFields
<1> QED
  BY <1>2, <1>3, <1>4, <1>6 DEF RowsAccepted

\* A finished import, row by row.
Restores(old, new) ==
    /\ DOMAIN new.assets = DOMAIN old.assets
    /\ \A id \in DOMAIN old.assets :
          /\ \E root \in DOMAIN new.roots :
                <<id, root>> \in new.members /\ path_is_within_root(new.assets[id].path, root)
          /\ TagsFound(new, id) = TagsFound(old, id)
          /\ new.assets[id].group = old.assets[id].group
          /\ new.assets[id].thumb # NoThumb => old.assets[id].thumb # NoThumb

LEMMA RewrittenContents ==
    ASSUME NEW db, NEW archive, NEW mappings, NEW rewritten, HalfDatabase(db),
           rewritten = RewriteStagedPaths(db, archive, mappings), rewritten.ok
    PROVE  Restores(db, rewritten.db) /\ DistinctFiles(rewritten.db)
<1> DEFINE sorted == SortedMappings(mappings)
           rows == [id \in DOMAIN db.assets |-> Rewritten(db, id, archive, sorted)]
           Targetless(id) == \E root \in AssignedRoots(db, id) : TargetsOf(root, sorted) = {}
           Accepted == /\ \A root \in DOMAIN db.roots :
                             ValidStoredPath(root) /\ canonicalize(root) \notin DOMAIN disk
                       /\ ValidRootMappings(DOMAIN db.roots, sorted)
                       /\ \A id \in DOMAIN rows :
                             RewriteAccepts(db.assets[id], rows[id], Targetless(id))
                       /\ NoCollision(rows)
                       /\ UpdatesInOrder(db, rows)
           out == InstallPaths(db, rows, sorted)
<1>1. rewritten = IF Accepted THEN [ok |-> TRUE, db |-> out] ELSE Failed
  BY DEF RewriteStagedPaths
<1>2. Accepted /\ rewritten.db = out
  <2> HIDE DEF Accepted, out
  <2> QED
    BY <1>1 DEF Failed
<1>3. RowsPlaced(rows) /\ NoCollision(rows)
  BY <1>2 DEF RewriteAccepts, RowsPlaced
<1>4. \A id \in DOMAIN rows : \E root : <<id, root>> \in db.members
  BY <1>3, RewrittenRoots DEF RowsPlaced
<1>5. RowsAccepted(db, rows)
  <2>1. ASSUME NEW id \in DOMAIN rows PROVE \E pair \in db.members : pair[1] = id
    <3>1. PICK root : <<id, root>> \in db.members
      BY <1>4
    <3> QED
      BY <3>1
  <2> QED
    BY <1>3, <2>1 DEF RowsAccepted, RowsPlaced
<1>6. RootsOffered(db, rows, sorted)
  <2> SUFFICES ASSUME NEW id \in DOMAIN rows, NEW root \in rows[id].roots
               PROVE  IF sorted = << >> THEN root \in DOMAIN db.roots /\ <<id, root>> \in db.members
                      ELSE root \in {sorted[i].target : i \in DOMAIN sorted}
    BY DEF RootsOffered
  <2>1. rows[id].roots = UNION {TargetsOf(source, sorted) : source \in AssignedRoots(db, id)}
    BY DEF Rewritten
  <2>2. PICK source \in AssignedRoots(db, id) : root \in TargetsOf(source, sorted)
    BY <2>1
  <2>3. source \in DOMAIN db.roots /\ <<id, source>> \in db.members
    BY <2>2 DEF AssignedRoots
  <2> HIDE DEF sorted, rows
  <2>4. CASE sorted = << >>
    <3>1. root = source
      BY <2>2, <2>4 DEF TargetsOf
    <3> QED
      BY <2>3, <2>4, <3>1
  <2>5. CASE sorted # << >>
    BY <2>2, <2>5 DEF TargetsOf
  <2> QED
    BY <2>4, <2>5
<1>7. \A id \in DOMAIN db.assets : rows[id].thumb # NoThumb => db.assets[id].thumb # NoThumb
  BY DEF Rewritten
<1>8. DOMAIN rows = DOMAIN db.assets /\ out = InstallPaths(db, rows, sorted)
  OBVIOUS
<1> HIDE DEF sorted, rows, out, Accepted
<1>9. /\ DOMAIN out.assets = DOMAIN db.assets
      /\ out.tags = db.tags /\ out.tagged = db.tagged
      /\ \A id \in DOMAIN db.assets :
            /\ out.assets[id].path = rows[id].path
            /\ out.assets[id].thumb = rows[id].thumb
            /\ out.assets[id].group = db.assets[id].group
            /\ \A root \in rows[id].roots :
                  root \in DOMAIN out.roots /\ <<id, root>> \in out.members
  <2>1. HalfDatabase(db)
    OBVIOUS
  <2> QED
    BY ONLY <1>5, <1>6, <1>8, <2>1, InstalledContents
<1>10. \A id : TagsFound(out, id) = TagsFound(db, id)
  BY <1>9, CountByLinks DEF TagsFound
<1>11. ASSUME NEW id \in DOMAIN db.assets
       PROVE  \E root \in DOMAIN out.roots :
                 <<id, root>> \in out.members /\ path_is_within_root(out.assets[id].path, root)
  <2>1. PICK root \in rows[id].roots : path_is_within_root(rows[id].path, root)
    BY <1>3, <1>8 DEF RowsPlaced
  <2> QED
    BY <1>9, <2>1
<1>12. Restores(db, out)
  BY <1>7, <1>9, <1>10, <1>11 DEF Restores
<1>13. DistinctFiles(out)
  BY <1>3, <1>8, <1>9 DEF DistinctFiles, NoCollision
<1> QED
  BY <1>2, <1>12, <1>13

LEMMA RestoresAcross ==
    ASSUME NEW old, NEW mid, NEW db, NEW new, Content(mid) = Content(old), Restores(mid, db),
           SameData(db, new), DistinctFiles(db)
    PROVE  SameContents(old, new) /\ DistinctFiles(new)
<1>1. /\ DOMAIN mid.assets = DOMAIN old.assets
      /\ \A id \in DOMAIN old.assets :
            /\ mid.assets[id].group = old.assets[id].group
            /\ mid.assets[id].thumb = old.assets[id].thumb
            /\ TagsFound(mid, id) = TagsFound(old, id)
  BY ContentFields
<1>2. /\ new.assets = db.assets /\ new.roots = db.roots /\ new.members = db.members
      /\ \A id : TagsFound(new, id) = TagsFound(db, id)
  BY CountByLinks DEF SameData, TagsFound
<1>3. DOMAIN new.assets = DOMAIN old.assets
  BY <1>1, <1>2 DEF Restores
<1>4. ASSUME NEW id \in DOMAIN old.assets
      PROVE  /\ \E root \in DOMAIN new.roots :
                   <<id, root>> \in new.members /\ path_is_within_root(new.assets[id].path, root)
             /\ TagsFound(new, id) = TagsFound(old, id)
             /\ new.assets[id].group = old.assets[id].group
             /\ new.assets[id].thumb # NoThumb => old.assets[id].thumb # NoThumb
  BY <1>1, <1>2 DEF Restores
<1>5. \A d : \A id \in DOMAIN d.assets : Content(d).assets[id].tags = TagsFound(d, id)
  BY DEF Content, TagsFound
<1>6. SameContents(old, new)
  BY <1>3, <1>4, <1>5 DEF SameContents
<1>7. DistinctFiles(new)
  BY <1>2 DEF DistinctFiles
<1> QED
  BY <1>6, <1>7

LEMMA StagedRestores ==
    ASSUME NEW archive, NEW mappings, NEW staged, NEW next, IsDatabase(archive.db),
           IsFiniteSet(DOMAIN mappings), staged = Staged(archive, mappings), staged.ok,
           next = BumpLibraryRevision(InitSchema(staged.db))
    PROVE  /\ SameContents(archive.db, next) /\ DistinctFiles(next)
           /\ ValidateBackupDatabase(next, FALSE) = "current"
<1> DEFINE mid == InitSchema(archive.db)
           rewritten == RewriteStagedPaths(mid, archive, mappings)
           db == rewritten.db
<1>1. /\ AcceptedSource(archive) /\ rewritten.ok /\ staged = rewritten
      /\ ValidateBackupDatabase(rewritten.db, FALSE) = "current"
  <2> DEFINE all == {archive.entries[i].name : i \in DOMAIN archive.entries}
             Extracted == AcceptedSource(archive) /\ Extracts(archive, {n \in all : Recognized(n)})
             Current == rewritten.ok /\ ValidateBackupDatabase(rewritten.db, FALSE) = "current"
  <2>1. staged = IF Extracted THEN (IF Current THEN rewritten ELSE Failed) ELSE Failed
    BY DEF Staged
  <2>2. Extracted /\ Current /\ staged = rewritten
    <3> HIDE DEF Extracted, Current, rewritten
    <3> QED
      BY <2>1 DEF Failed
  <2> QED
    BY <2>2
<1>2. /\ ForeignKeysHold(archive.db) /\ TagsNamed(archive.db)
      /\ archive.db.revision >= 1 /\ archive.db.perf \in 0 .. 3
  BY <1>1, AcceptedSourceParts
<1>3. mid = InitSchema(archive.db) /\ rewritten = RewriteStagedPaths(mid, archive, mappings)
        /\ db = rewritten.db
  OBVIOUS
<1> HIDE DEF mid, rewritten, db
<1>4. HalfDatabase(mid) /\ mid.perf = 3 /\ Content(mid) = Content(archive.db)
  BY <1>2, <1>3, Initialized, InitKeepsContent
<1>5. /\ HalfDatabase(db) /\ db.perf = 3 /\ DOMAIN db.failures = {} /\ AssetsAssigned(db)
      /\ Restores(mid, db) /\ DistinctFiles(db)
  BY <1>1, <1>3, <1>4, PathsRewritten, RewrittenContents
<1>6. ValidateBackupDatabase(db, FALSE) = "current" /\ next = BumpLibraryRevision(InitSchema(db))
  BY <1>1, <1>3
<1>7. DerivedRight(db)
  BY <1>6, ValidatedCurrent
<1>8. IsDatabase(db)
  <2>1. \A id \in DOMAIN db.assets : db.assets[id].count \in Nat
    BY <1>5, <1>7, FiniteTags DEF HalfDatabase, DerivedRight, ColumnsRight
  <2> QED
    BY <1>5, <2>1 DEF HalfDatabase, IsDatabase, DatabaseTypes
<1>9. SameData(db, next) /\ ValidateBackupDatabase(next, FALSE) = "current"
  BY ONLY <1>5, <1>6, <1>8, ReplacedSettles
<1> DEFINE old == archive.db
<1> HIDE DEF old
<1>10. SameContents(old, next) /\ DistinctFiles(next)
  <2>1. Content(mid) = Content(old)
    BY <1>4 DEF old
  <2> QED
    BY ONLY <1>5, <1>9, <2>1, RestoresAcross
<1> QED
  BY <1>9, <1>10 DEF old

WorkCounted == work \in [edits : Nat, exports : Nat, imports : Nat]

\* What the bounds count.
LEMMA WorkIsCounted == Spec => []WorkCounted
<1>1. Init => WorkCounted
  BY DEF Init, WorkCounted
<1>2. WorkCounted /\ [Next]_vars => WorkCounted'
  <2> SUFFICES ASSUME WorkCounted,
                      \/ work' = work
                      \/ work' = [work EXCEPT !.edits = @ + 1]
                      \/ work' = [work EXCEPT !.exports = @ + 1]
                      \/ work' = [work EXCEPT !.imports = @ + 1]
               PROVE  WorkCounted'
    BY DEF Next, vars, bundleVars, DieOrQuit, ExportSnapshot, WriteArchive, PublishArchive,
           AbandonExport, InspectBundle, ImportBundle, CancelImport, EditTags, LoseThumbnail
  <2> QED
    BY DEF WorkCounted
<1> QED
  BY <1>1, <1>2, PTL DEF Spec

LEMMA ImportRestores ==
    ASSUME StartInv, TransferInv, NEW mappings \in OfferedMappings, ImportBundle(mappings),
           last' # Nothing
    PROVE  /\ SameContents(disk[last'.path].db, lib') /\ DistinctFiles(lib')
           /\ ValidateBackupDatabase(lib', FALSE) = "current"
<1> DEFINE archive == disk[chosen.path]
<1>1. IsDatabase(archive.db) /\ IsFiniteSet(chosen.roots)
  BY DEF ImportBundle, TransferInv, DiskInv, ChosenInv
<1>2. IsFiniteSet(DOMAIN mappings)
  BY <1>1, MappingsAreFinite
<1>3. PICK staged :
         /\ staged = Staged(archive, mappings)
         /\ lib' = IF staged.ok THEN BumpLibraryRevision(InitSchema(staged.db)) ELSE lib
         /\ last' = IF staged.ok THEN [path |-> chosen.path, mappings |-> mappings] ELSE Nothing
  BY DEF ImportBundle
<1>4. /\ staged.ok /\ lib' = BumpLibraryRevision(InitSchema(staged.db))
      /\ disk[last'.path] = archive
  BY <1>3
<1> HIDE DEF archive
<1>5. /\ SameContents(archive.db, lib') /\ DistinctFiles(lib')
      /\ ValidateBackupDatabase(lib', FALSE) = "current"
  BY <1>1, <1>2, <1>3, <1>4, StagedRestores
<1> QED
  BY <1>4, <1>5

\* A successful import leaves the ids, the groups and the tags of the
\* archived library, every asset in a root it is assigned to, no two at one
\* path or file, and a database the exporter and the importer accept; for
\* every archive, machine and mapping, however old the archived database
\* (import_db_bundle, rewrite_staged_paths, init_schema).
THEOREM ImportsKeepTheContents == Spec => ImportKeepsTheContents
<1>1. BundleIInv /\ WorkCounted /\ [Next]_vars =>
        [Imported => /\ SameContents(disk[last'.path].db, lib')
                     /\ DistinctFiles(lib')
                     /\ ValidateBackupDatabase(lib', FALSE) = "current"]_vars
  <2> SUFFICES ASSUME BundleIInv, WorkCounted, [Next]_vars, Imported
               PROVE  /\ SameContents(disk[last'.path].db, lib')
                      /\ DistinctFiles(lib')
                      /\ ValidateBackupDatabase(lib', FALSE) = "current"
    BY Zenon
  <2>1. work'.imports # work.imports /\ last' # Nothing
    BY DEF Imported, WorkCounted
  <2>2. work' # work /\ work' # [work EXCEPT !.edits = @ + 1]
          /\ work' # [work EXCEPT !.exports = @ + 1]
    BY <2>1 DEF WorkCounted
  <2>3. PICK mappings \in OfferedMappings : ImportBundle(mappings)
    BY <2>2 DEF Next, vars, bundleVars, DieOrQuit, ExportSnapshot, WriteArchive, PublishArchive,
                AbandonExport, InspectBundle, CancelImport, EditTags, LoseThumbnail
  <2> QED
    BY <2>1, <2>3, ImportRestores DEF BundleIInv
<1> QED
  BY <1>1, BundleIInvHolds, WorkIsCounted, PTL DEF Spec, ImportKeepsTheContents

-----------------------------------------------------------------------------
(* The swap that installs a staged bundle (RestoreSwap), for every set of  *)
(* bundles and any number of faults and crashes.  SwapIInv says, for every *)
(* step of an import or a recovery, which journal it runs under and which  *)
(* components are live and set aside.                                      *)

Committed == journal # Absent /\ journal.phase = "committed"

\* Which journal a step runs under.
JournalInv ==
    /\ pc \in {"open", "stage", "prepare"} => journal = Absent
    /\ pc \in Installing \cup {"undoDb", "undoThumbs"} => Swapping
    /\ pc \in {"dropDb", "dropThumbs"} => Committed
    /\ pc \in {"dropStage", "dropJournal"} => journal # Absent

\* The bundle an import works on, until its parts are installed.
BundleInv ==
    /\ pc \in {"stage", "prepare"} \cup Installing => bundle \in Bundles
    /\ pc \in {"prepare", "asideDb", "asideThumbs", "installDb"} =>
           files["stagedDb"] = bundle
    /\ pc \in {"prepare", "asideDb", "asideThumbs", "installDb", "installThumbs"} =>
           files["stagedThumbs"] = bundle
    /\ pc \in {"installThumbs", "verify", "commit"} => files["db"] = bundle
    /\ pc \in {"verify", "commit"} => files["thumbs"] = bundle

\* A component that existed before the swap is set aside or still live, and
\* one that did not was never set aside.
Recoverable(live, previous, existed) ==
    IF existed THEN Exists(previous) \/ Exists(live) ELSE ~Exists(previous)

Untouched(live, previous, existed) == ~Exists(previous) /\ (existed <=> Exists(live))
Aside(live, previous, existed) == ~Exists(live) /\ (existed <=> Exists(previous))

SwapInv ==
    Swapping =>
        /\ Recoverable("db", "previousDb", journal.db)
        /\ Recoverable("thumbs", "previousThumbs", journal.thumbs)
        /\ pc \in {"asideDb", "undoThumbs", "dropStage", "dropJournal"} =>
               Untouched("db", "previousDb", journal.db)
        /\ pc \in {"asideDb", "asideThumbs", "dropStage", "dropJournal"} =>
               Untouched("thumbs", "previousThumbs", journal.thumbs)
        /\ pc \in {"asideThumbs", "installDb"} => Aside("db", "previousDb", journal.db)
        /\ pc \in {"installDb", "installThumbs"} =>
               Aside("thumbs", "previousThumbs", journal.thumbs)
        /\ pc \in {"installThumbs", "verify", "commit"} =>
               (journal.db <=> Exists("previousDb"))
        /\ pc \in {"verify", "commit"} => (journal.thumbs <=> Exists("previousThumbs"))

CommitInv ==
    Committed =>
        /\ LiveIsComplete
        /\ pc \in {"dropThumbs", "dropStage", "dropJournal"} => ~Exists("previousDb")
        /\ pc \in {"dropStage", "dropJournal"} => ~Exists("previousThumbs")

\* The sidecars are those of the live database, and gone while it is swapped.
SidecarInv ==
    /\ wal \in {Absent, files["db"]}
    /\ pc \in {"undoDb"} \cup (Installing \ {"commit"}) => wal = Absent

\* A bundle is nowhere but in the staging tree before it is installed.
GenerationInv ==
    /\ \A p \in Paths : files[p] \in imported \cup {Original, Absent, Fresh, Torn}
    /\ pc \in {"stage", "prepare"} \cup Installing =>
           bundle \in imported /\ files["previousDb"] # bundle
    /\ pc \in {"stage", "prepare", "asideDb"} => files["db"] # bundle

\* Without a failed call no import returns before its journal is gone, so the
\* only sidecars there can be during a swap are those of the new database.
CrashOnlyInv ==
    failures = 0 =>
        /\ pc = "idle" => journal = Absent
        /\ Swapping /\ wal # Absent =>
               /\ wal # files["previousDb"]
               /\ journal.db <=> Exists("previousDb")

SwapIInv ==
    /\ SwapTypeOK
    /\ JournalInv
    /\ BundleInv
    /\ NoOrphanedArtifacts
    /\ SwapInv
    /\ CommitInv
    /\ SidecarInv
    /\ GenerationInv
    /\ CrashOnlyInv

\* The state is a handful of finite sets and paths: every step below may look
\* into them and into the invariant; the actions are expanded where needed.
USE MarksAssumption, JournalAssumption, FaultsAssumption
    DEF Paths, Contents, Phases, Journals, Results, Steps, Installing, Recovering,
        SwapIInv, SwapTypeOK, JournalInv, BundleInv, NoOrphanedArtifacts, SwapInv,
        CommitInv, SidecarInv, GenerationInv, CrashOnlyInv, Recoverable, Untouched, Aside,
        Swapping, Committed, LiveIsComplete, Exists, Fault, Die, NoFault

-----------------------------------------------------------------------------
(* The two journals an import writes *)

\* Prepare writes a journal of the import that is running.
LEMMA NewJournalFields ==
    /\ NewJournal("swapping") \in Journals
    /\ NewJournal("swapping").phase = "swapping"
    /\ NewJournal("swapping").db <=> Exists("db")
    /\ NewJournal("swapping").thumbs <=> Exists("thumbs")
  BY DEF NewJournal

\* Commit changes the phase of the journal and nothing else.
LEMMA CommittedJournalFields ==
    ASSUME NEW j \in Journals
    PROVE  /\ [j EXCEPT !.phase = "committed"] \in Journals
           /\ [j EXCEPT !.phase = "committed"].phase = "committed"
  OBVIOUS

-----------------------------------------------------------------------------
(* The invariant is inductive *)

\* A profile that was never restored satisfies the invariant.
LEMMA InitSwapIInv == SwapInit => SwapIInv
  BY DEF SwapInit

\* Using the program, before and between imports, keeps the invariant.
LEMMA RunningIInv ==
    ASSUME SwapIInv, Edit \/ Checkpoint \/ OpenMissing \/ Crash \/ Startup \/ OpenProfile
    PROVE  SwapIInv'
<1>1. CASE Edit BY <1>1 DEF Edit
<1>2. CASE Checkpoint BY <1>2 DEF Checkpoint
<1>3. CASE OpenMissing BY <1>3 DEF OpenMissing
<1>4. CASE Crash BY <1>4 DEF Crash
<1>5. CASE Startup BY <1>5 DEF Startup
<1>6. CASE OpenProfile BY <1>6 DEF OpenProfile
<1> QED BY <1>1, <1>2, <1>3, <1>4, <1>5, <1>6

\* Each step of import_db_bundle keeps the invariant, failing or cut short too.
LEMMA ImportIInv == ASSUME SwapIInv, Import PROVE SwapIInv'
<1>1. CASE Stage BY <1>1 DEF Stage, Abandon, StageTorn, StageRemoved
<1>2. CASE Prepare BY <1>2, NewJournalFields DEF Prepare, Abandon
<1>3. CASE AsideDb BY <1>3 DEF AsideDb, InstallStep, Moved, Compensate
<1>4. CASE AsideThumbs BY <1>4 DEF AsideThumbs, InstallStep, Moved, Compensate
<1>5. CASE InstallDb BY <1>5 DEF InstallDb, InstallStep, Moved, Compensate
<1>6. CASE InstallThumbs BY <1>6 DEF InstallThumbs, InstallStep, Moved, Compensate
<1>7. CASE Verify BY <1>7 DEF Verify, Compensate
<1>8. CASE Commit
  <2> DEFINE committed == [journal EXCEPT !.phase = "committed"]
  <2>1. journal \in Journals BY <1>8 DEF Commit
  <2>2. committed \in Journals /\ committed.phase = "committed"
    BY <2>1, CommittedJournalFields
  <2> HIDE DEF committed
  <2>3. journal' \in {journal, committed} BY <1>8 DEF Commit, committed
  <2>4. pc' = "recover" /\ UNCHANGED <<files, wal, bundle, imported, result, crashes>>
    BY <1>8 DEF Commit, Compensate
  <2>5. reason' \in {"cleanup", "rollback"} /\ failures' \in 0 .. MaxFailures
    BY <1>8 DEF Commit, Compensate
  <2>6. failures' = 0 => journal' = committed /\ failures = 0
    BY <1>8 DEF Commit, Compensate, committed
  <2> QED BY <1>8, <2>1, <2>2, <2>3, <2>4, <2>5, <2>6 DEF Commit
<1> QED BY <1>1, <1>2, <1>3, <1>4, <1>5, <1>6, <1>7, <1>8 DEF Import

\* Each step of recover_interrupted_restore keeps the invariant.
LEMMA RecoverIInv == ASSUME SwapIInv, Recover PROVE SwapIInv'
<1> USE DEF Recovered, Unrecovered, Fails
<1>1. CASE NothingToRecover BY <1>1 DEF NothingToRecover
<1>2. CASE BeginUndo BY <1>2 DEF BeginUndo
<1>3. CASE UndoDb
  <2>1. ~Irreconcilable("db", "previousDb", journal.db)
    BY <1>3 DEF UndoDb, Irreconcilable
  <2> QED BY <1>3, <2>1 DEF UndoDb, Undone, RecoveryStep, Moved, Removed
<1>4. CASE UndoThumbs
  <2>1. ~Irreconcilable("thumbs", "previousThumbs", journal.thumbs)
    BY <1>4 DEF UndoThumbs, Irreconcilable
  <2> QED BY <1>4, <2>1
          DEF UndoThumbs, Undone, RecoveryStep, Moved, Removed, HalfRemoved
<1>5. CASE BeginCleanup BY <1>5 DEF BeginCleanup
<1>6. CASE DropDb BY <1>6 DEF DropDb, RecoveryStep, Removed
<1>7. CASE DropThumbs BY <1>7 DEF DropThumbs, RecoveryStep, Removed, HalfRemoved
<1>8. CASE DropStage BY <1>8 DEF DropStage, RecoveryStep, StageRemoved, StageTorn
<1>9. CASE DropJournal BY <1>9 DEF DropJournal
<1> QED BY <1>1, <1>2, <1>3, <1>4, <1>5, <1>6, <1>7, <1>8, <1>9 DEF Recover

\* SwapIInv is inductive: every step keeps it.
THEOREM NextSwapIInv == SwapIInv /\ [SwapNext]_swapVars => SwapIInv'
<1> SUFFICES ASSUME SwapIInv, [SwapNext]_swapVars PROVE SwapIInv'
  OBVIOUS
<1>1. ASSUME NEW b \in Bundles, BeginImport(b) PROVE SwapIInv'
  BY <1>1 DEF BeginImport
<1>2. CASE Proceed BY <1>2, RunningIInv, ImportIInv, RecoverIInv DEF Proceed
<1>3. CASE Edit \/ Checkpoint \/ OpenMissing \/ Crash BY <1>3, RunningIInv
<1>4. CASE UNCHANGED swapVars BY <1>4 DEF swapVars
<1> QED BY <1>1, <1>2, <1>3, <1>4 DEF SwapNext

-----------------------------------------------------------------------------
(* The swap implements the atomic restore *)

\* Only the journal's commit and the creation of a missing component change
\* the library that recovery would leave.
LEMMA RunningLibrary ==
    ASSUME SwapIInv, Edit \/ Checkpoint \/ OpenMissing \/ Crash \/ Startup \/ OpenProfile
    PROVE  Library' = Library \/ \E c \in Atomic!Components : Atomic!Recreate(c)
<1> USE DEF Library, Kept, Atomic!Components, Atomic!Recreate
<1>1. CASE Edit BY <1>1 DEF Edit
<1>2. CASE Checkpoint BY <1>2 DEF Checkpoint
<1>3. CASE OpenMissing
  <2>1. Library' = Library \/ Atomic!Recreate("db") BY <1>3 DEF OpenMissing
  <2> QED BY <2>1
<1>4. CASE Crash BY <1>4 DEF Crash
<1>5. CASE Startup BY <1>5 DEF Startup
<1>6. CASE OpenProfile
  <2>1. /\ journal = Absent /\ journal' = Absent
        /\ \/ files' = [files EXCEPT !["db"] = files["db"]]
           \/ files["db"] = Absent /\ files' = [files EXCEPT !["db"] = Fresh]
           \/ files["thumbs"] = Absent /\ files' = [files EXCEPT !["thumbs"] = Fresh]
    BY <1>6 DEF OpenProfile, SwapIInv, JournalInv
  <2>2. Library = [c \in {"db", "thumbs"} |-> files[c]]
    BY <2>1 DEF Swapping
  <2>3. Library' = [c \in {"db", "thumbs"} |-> files'[c]]
    BY <2>1 DEF Swapping
  <2>4. "db" \in DOMAIN files /\ "thumbs" \in DOMAIN files
    BY DEF SwapIInv, SwapTypeOK, Paths
  <2> HIDE DEF Library, Kept
  <2>5. CASE files' = [files EXCEPT !["db"] = files["db"]]
    BY <2>2, <2>3, <2>4, <2>5
  <2>6. CASE files["db"] = Absent /\ files' = [files EXCEPT !["db"] = Fresh]
    <3>1. Atomic!Recreate("db") BY <2>2, <2>3, <2>4, <2>6
    <3> QED BY <3>1
  <2>7. CASE files["thumbs"] = Absent /\ files' = [files EXCEPT !["thumbs"] = Fresh]
    <3>1. Atomic!Recreate("thumbs") BY <2>2, <2>3, <2>4, <2>7
    <3> QED BY <3>1
  <2> QED BY <2>1, <2>5, <2>6, <2>7
<1> QED BY <1>1, <1>2, <1>3, <1>4, <1>5, <1>6

\* The steps of an import change the library only where it commits.
LEMMA ImportLibrary ==
    ASSUME SwapIInv, Import
    PROVE  Library' = Library \/ \E b \in Bundles : Atomic!Replace(b)
<1> USE DEF Library, Kept
<1>1. CASE Stage BY <1>1 DEF Stage, Abandon, StageTorn, StageRemoved
<1>2. CASE Prepare BY <1>2, NewJournalFields DEF Prepare, Abandon
<1>3. CASE AsideDb BY <1>3 DEF AsideDb, InstallStep, Moved, Compensate
<1>4. CASE AsideThumbs BY <1>4 DEF AsideThumbs, InstallStep, Moved, Compensate
<1>5. CASE InstallDb BY <1>5 DEF InstallDb, InstallStep, Moved, Compensate
<1>6. CASE InstallThumbs BY <1>6 DEF InstallThumbs, InstallStep, Moved, Compensate
<1>7. CASE Verify BY <1>7 DEF Verify, Compensate
<1>8. CASE Commit
  <2>1. bundle \in Bundles BY <1>8 DEF Commit
  <2>2. Library' = Library \/ Atomic!Replace(bundle)
    BY <1>8 DEF Commit, Compensate, Atomic!Replace, Atomic!Components
  <2> HIDE DEF Library
  <2> QED BY <2>1, <2>2
<1> QED BY <1>1, <1>2, <1>3, <1>4, <1>5, <1>6, <1>7, <1>8 DEF Import

\* Recovery never changes the library a reader of the profile would end with.
LEMMA RecoverLibrary == ASSUME SwapIInv, Recover PROVE Library' = Library
<1> USE DEF Library, Kept, Fails
<1>1. CASE NothingToRecover BY <1>1 DEF NothingToRecover
<1>2. CASE BeginUndo BY <1>2 DEF BeginUndo
<1>3. CASE UndoDb
  BY <1>3 DEF UndoDb, GiveUp, Undone, RecoveryStep, Moved, Removed
<1>4. CASE UndoThumbs
  BY <1>4 DEF UndoThumbs, GiveUp, Undone, RecoveryStep, Moved, Removed, HalfRemoved
<1>5. CASE BeginCleanup BY <1>5 DEF BeginCleanup
<1>6. CASE DropDb BY <1>6 DEF DropDb, RecoveryStep, Removed
<1>7. CASE DropThumbs BY <1>7 DEF DropThumbs, RecoveryStep, Removed, HalfRemoved
<1>8. CASE DropStage BY <1>8 DEF DropStage, RecoveryStep, StageRemoved, StageTorn
<1>9. CASE DropJournal BY <1>9 DEF DropJournal
<1> QED BY <1>1, <1>2, <1>3, <1>4, <1>5, <1>6, <1>7, <1>8, <1>9 DEF Recover

\* Every step is a step of the atomic restore or invisible to it.
LEMMA NextLibrary ==
    ASSUME SwapIInv, [SwapNext]_swapVars
    PROVE  [Atomic!RestoreNext]_Library
<1>1. ASSUME NEW b \in Bundles, BeginImport(b) PROVE Library' = Library
  BY <1>1 DEF BeginImport, Library, Kept
<1>2. CASE Proceed
  BY <1>2, RunningLibrary, ImportLibrary, RecoverLibrary
  DEF Proceed, Atomic!RestoreNext
<1>3. CASE Edit \/ Checkpoint \/ OpenMissing \/ Crash
  BY <1>3, RunningLibrary DEF Atomic!RestoreNext
<1>4. CASE UNCHANGED swapVars BY <1>4 DEF swapVars, Library, Kept
<1> QED BY <1>1, <1>2, <1>3, <1>4 DEF SwapNext

\* Initially the library is a live one of the abstract specification.
LEMMA InitLibrary == SwapInit => Atomic!RestoreInit
  BY DEF SwapInit, Library, Kept, Atomic!RestoreInit, Atomic!Components

\* The invariant implies each property the runs check.
LEMMA IInvImplies ==
    SwapIInv => /\ SwapTypeOK
            /\ NeverIrreconcilable
            /\ NoOrphanedArtifacts
            /\ SidecarsBelongToDatabase
            /\ CrashesLoseNoWork
  BY DEF NeverIrreconcilable, Irreconcilable, SidecarsBelongToDatabase,
         CrashesLoseNoWork, DropsCommittedWork, Library, Kept

-----------------------------------------------------------------------------
(* The theorems: from here on SwapIInv and the properties are closed formulas *)

HIDE DEF SwapIInv, SwapTypeOK, NoOrphanedArtifacts

\* SwapIInv holds in every state: what is live, what is set aside and what the
\* journal says always fit together.
THEOREM SwapIInvHolds == SwapSpec => []SwapIInv
<1>1. SwapInit => SwapIInv BY InitSwapIInv
<1>2. SwapIInv /\ [SwapNext]_swapVars => SwapIInv' BY NextSwapIInv
<1> QED BY <1>1, <1>2, PTL DEF SwapSpec

\* The variables keep their types.
THEOREM TypeCorrect == SwapSpec => []SwapTypeOK
  BY SwapIInvHolds, IInvImplies, PTL

\* recover_interrupted_restore never finds a component gone from both of its
\* places, nor a committed generation that is incomplete.
THEOREM RecoveryIsPossible == SwapSpec => []NeverIrreconcilable
  BY SwapIInvHolds, IInvImplies, PTL

\* An import that left no journal left no previous generation either.
THEOREM NothingOrphaned == SwapSpec => []NoOrphanedArtifacts
  BY SwapIInvHolds, IInvImplies, PTL

\* SQLite never meets the write-ahead log of another generation.
THEOREM SidecarsFit == SwapSpec => []SidecarsBelongToDatabase
  BY SwapIInvHolds, IInvImplies, PTL

\* Wherever an import or a recovery is interrupted, the profile is whole again
\* after the next recovery.
THEOREM RecoveryAlwaysWorks == SwapSpec => []AlwaysRecoverable
<1>1. NeverIrreconcilable /\ NoOrphanedArtifacts /\ SidecarsBelongToDatabase
        => AlwaysRecoverable
  BY DEF AlwaysRecoverable
<1> QED BY <1>1, RecoveryIsPossible, NothingOrphaned, SidecarsFit, PTL

\* Crashes alone cost no committed transaction of the database that is kept.
THEOREM CrashesAreHarmless == SwapSpec => []CrashesLoseNoWork
  BY SwapIInvHolds, IInvImplies, PTL

\* Whatever fails and wherever it crashes, a restore replaces database and
\* thumbnails together, at one instant, or not at all.
THEOREM RestoreIsAtomic == SwapSpec => ImplementsAtomicRestore
<1>1. SwapIInv /\ [SwapNext]_swapVars => [Atomic!RestoreNext]_Library
  BY NextLibrary
<1> QED
  BY <1>1, InitLibrary, SwapIInvHolds, PTL DEF SwapSpec, ImplementsAtomicRestore, Atomic!RestoreSpec
=============================================================================

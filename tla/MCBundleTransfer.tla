-------------------------- MODULE MCBundleTransfer --------------------------
(* Two assets, nested roots, and the libraries and bundles each release    *)
(* left: one without markers, one of version 2, one of this release, and   *)
(* ones that must be refused.                                              *)
EXTENDS BundleTransfer, TLC

MCLower == ("Cat" :> "cat") @@ ("CAT" :> "cat") @@ ("Cat;dog" :> "cat;dog")
             @@ ("A" :> "a") @@ ("Trip" :> "trip") @@ ("C:" :> "c:") @@ ("Pics" :> "pics") @@ ("T1" :> "t1")
MCCanonical == MCLower @@ ("É" :> "é")
MCTrim == ("cat " :> "cat")
MCTokens == ("Cat;dog" :> {"Cat", "dog"}) @@ ("cat;dog" :> {"cat", "dog"}) @@ ("x y" :> {"x", "y"})

MCDrives == {"C:", "c:"}
MCProfile == <<"/", "app">>
P == <<"/", "p">>
PS == <<"/", "p", "s">>
Q == <<"/", "q">>
MCDirectories == {P, PS, Q}
MCLinks == (<<"/", "link">> :> Q) @@ (<<"/", "l">> :> PS)

Row(path, group, thumb) ==
    [path |-> path, name |-> Unnamed, key |-> Unnamed, group |-> group,
     group_key |-> Unnamed, count |-> 0, thumb |-> thumb]

(* A library of the first release: no markers, no later column, tags with  *)
(* separators and capital letters, a thumbnail failure.                    *)
Legacy ==
    [intact |-> TRUE, app |-> "none", user |-> 0, perf |-> NoRow, shape |-> CoreShape,
     revision |-> 1, general |-> 0,
     assets |-> <<Row(P \o <<"A">>, "Trip", Append(MCProfile, "thumbs") \o <<"t1">>),
                  Row(PS \o <<"É">>, Unnamed, << >>)>>,
     tags |-> {"CAT", "Cat;dog"}, tagged |-> {<<1, "CAT">>, <<2, "Cat;dog">>},
     roots |-> (P :> FALSE) @@ (PS :> FALSE), members |-> {}, failures |-> (1 :> 0),
     pending |-> FALSE]

(* A later release without markers, which had file names and a version.    *)
Unmarked == [Legacy EXCEPT !.shape = @ \cup {"file_name", "file_name_not_null"}, !.perf = 0]

(* The same, but the row CAT was left behind by an asset that is gone.     *)
LeftTag == [Legacy EXCEPT !.tagged = {<<2, "Cat;dog">>}]

NoLibrary ==
    [Legacy EXCEPT !.shape = {}, !.revision = 0, !.assets = << >>, !.tags = {}, !.tagged = {},
                   !.roots = << >>, !.failures = << >>]

Current == [InitSchema(Legacy) EXCEPT !.shape = @ \cup {"file_name_not_null"}, !.roots[P] = TRUE,
                                      !.failures = (2 :> 1)]
Version2 == [Current EXCEPT !.user = 2, !.shape = @ \ {"source_record_version"}]

MCLegacy == {Legacy}
MCLeftTag == {LeftTag}
MCCurrent == {Current}
MCFound ==
    {NoLibrary, LeftTag, Legacy, Version2, [Current EXCEPT !.pending = TRUE],
     [Version2 EXCEPT !.perf = 2, !.assets[2].key = "É", !.tags = {"cat ", "dog"},
                      !.tagged = {<<1, "cat ">>, <<2, "cat ">>, <<2, "dog">>},
                      !.assets[1].count = 1, !.assets[2].count = 2],
     [Current EXCEPT !.user = 4], [Current EXCEPT !.app = "other"]}

(* A bundle from a Windows machine: roots C:\Pics and C:\Pics\s.           *)
Win == <<"C:", "Pics">>
WinLibrary ==
    [Current EXCEPT
        !.assets[1].path = <<"C:", "Pics", "u", "A">>, !.assets[1].thumb = <<"C:", "d", "thumbs", "T1">>,
        !.assets[2].path = <<"C:", "pics", "s", "A">>, !.assets[2].name = "A", !.assets[2].key = "a",
        !.roots = (Win :> TRUE) @@ (Append(Win, "s") :> FALSE),
        !.members = {<<1, Win>>, <<2, Win>>, <<2, Append(Win, "s")>>}]

Bundle(db, manifest, names) ==
    [kind |-> "archive", manifest |-> manifest, db |-> db,
     entries |-> <<Entry(Database)>> \o SetToSeq({Entry(name) : name \in names})]

ManifestOf(format, db) ==
    [format |-> format, app |-> IF format = 1 THEN "none" ELSE "tagrove",
     schema |-> IF format = 1 THEN NoRow ELSE db.user, platform |-> "windows",
     roots |-> SetToSeq(DOMAIN db.roots), thumbs_dir |-> <<"C:", "d", "thumbs">>]

(* Roots beside each other, so that two of them may be sent to one place,  *)
(* by its name or through a link.                                          *)
SideBySide ==
    [WinLibrary EXCEPT
        !.assets[1].path = <<"C:", "Pics", "s", "A">>, !.assets[2].path = <<"C:", "x", "A">>,
        !.roots = (Win :> TRUE) @@ (<<"C:", "x">> :> FALSE),
        !.members = {<<1, Win>>, <<2, <<"C:", "x">>>>}]

Thumb1 == <<"thumbs", "t1">>
In(name) == <<"/", "home", name>>
MCFiles ==
    (P \o <<"A">> :> [kind |-> "media"]) @@ (Q \o <<"u", "A">> :> [kind |-> "media"])
        @@ (PS \o <<"A">> :> [kind |-> "media"])
        @@ (<<"/", "home", "old.zip">> :> [kind |-> "document"])
        @@ (In("win.zip") :> Bundle(WinLibrary, ManifestOf(2, WinLibrary), {Thumb1}))
        @@ (In("side.zip") :> Bundle(SideBySide, ManifestOf(2, SideBySide), {Thumb1}))
        @@ (In("legacy.zip") :> Bundle(Unmarked, NoManifest,
                {Thumb1, <<"thumbs", "old", "t1">>}))
        @@ (In("v2.zip") :> Bundle(Version2, ManifestOf(1, Version2), {Thumb1}))
        @@ (In("twice.zip") :> Bundle(WinLibrary, ManifestOf(2, WinLibrary), {Thumb1, <<"thumbs", "T1">>}))

MCTargets == {In("old.zip"), P \o <<"new.zip">>, <<"/", "link", "u", "A">>}
MCThumbnails == {<<"t1">>}
MCTagLists == {{"Cat", "bird"}, {"x y"}}
=============================================================================

----------------------------- MODULE MCAssetQuery -----------------------------
(***************************************************************************)
(* An instance of AssetQuery for TLC: two assets, two tags, and one filter *)
(* for each kind of dependency.                                            *)
(***************************************************************************)
EXTENDS AssetQuery, TLC

CONSTANTS s1, s2, p1, a1, a2, t1, t2

TwoStarts == {s1, s2}
Assets2 == {a1, a2}

Plain == [tags |-> {}, favorite |-> FALSE, group |-> "none"]
Tagged == [tags |-> {t1}, favorite |-> TRUE, group |-> "none"]
FewLibraries == {a1 :> Plain @@ a2 :> Tagged, a1 :> Tagged}

SomeFilters ==
    {[NoFilter EXCEPT !.tagsAnd = {t1}],
     [NoFilter EXCEPT !.tagsNot = {t2}, !.favoritesOnly = TRUE],
     [NoFilter EXCEPT !.tagCount = {1}, !.group = {"none"}]}
SomeTagSets == {{t1}, {t2}}

Symmetry == Permutations(TwoStarts)
=============================================================================

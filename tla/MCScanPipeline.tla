--------------------------- MODULE MCScanPipeline ---------------------------
(* Four files; the folder of r2 lies inside the folder of r1. *)
EXTENDS ScanPipeline, TLC
CONSTANTS f1, f2, f3, f4, r1, r2
FourFiles == {f1, f2, f3, f4}
NestedRoots == {r1, r2}
NestedFolders == r1 :> FourFiles @@ r2 :> {f1}

\* Scans begin with all files on disk: absent ones are removed by others.
InitFullFolders == Init /\ present = Files
FairSpecOfFullFolders == InitFullFolders /\ [][Next]_vars /\ Fairness
=============================================================================

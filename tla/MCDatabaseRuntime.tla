-------------------------- MODULE MCDatabaseRuntime --------------------------
(***************************************************************************)
(* Instances of DatabaseRuntime for TLC.  Commands differ only in their    *)
(* kind, so each mix of three kinds is tried in one order only.            *)
(***************************************************************************)
EXTENDS DatabaseRuntime, TLC

CONSTANTS c1, c2, c3

ThreeCommands == {c1, c2, c3}

Rank(k) == CASE k = "plain" -> 1
             [] k = "scan" -> 2
             [] k = "thumbRead" -> 3
             [] k = "thumb" -> 4
             [] k = "scanThumb" -> 5
             [] k = "maintenance" -> 6

\* Every mix with a command that excludes others: without one nobody waits but
\* for the pool.
InitOfMixes ==
    /\ Init
    /\ Rank(kind[c1]) <= Rank(kind[c2]) /\ Rank(kind[c2]) <= Rank(kind[c3])
    /\ kind[c3] \in {"scanThumb", "maintenance"}

FairSpecOfMixes == InitOfMixes /\ [][Next]_vars /\ Fairness
=============================================================================

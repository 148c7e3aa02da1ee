---------------------------- MODULE AtomicRestore ----------------------------
(***************************************************************************)
(* What a bundle restore promises: the library is a database and the       *)
(* thumbnail tree that belongs to it, and a restore replaces both in one   *)
(* step or not at all, whatever fails or crashes on the way.               *)
(***************************************************************************)
CONSTANTS Bundles,  \* the generations that can be imported
          Original, \* the generation the profile starts with
          Absent,   \* a component that does not exist
          Fresh     \* a component the program created empty

VARIABLE library    \* [db, thumbs]: the generation of each component

Components == {"db", "thumbs"}

RestoreInit ==
    library \in [Components -> {Original, Absent}]

Replace(b) == library' = [c \in Components |-> b]

\* Opening the profile creates a component that is missing.
Recreate(c) ==
    /\ library[c] = Absent
    /\ library' = [library EXCEPT ![c] = Fresh]

RestoreNext ==
    \/ \E b \in Bundles : Replace(b)
    \/ \E c \in Components : Recreate(c)

RestoreSpec == RestoreInit /\ [][RestoreNext]_library
=============================================================================

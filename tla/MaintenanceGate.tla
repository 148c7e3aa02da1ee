--------------------------- MODULE MaintenanceGate ---------------------------
(***************************************************************************)
(* What the maintenance gate of the database runtime promises its users,   *)
(* with no counter, pool, lock or worker in it.                            *)
(*                                                                         *)
(* Ordinary operations share the database.  One operation at a time may    *)
(* close the gate: from then on nobody enters, and the closer owns the     *)
(* database alone once the last operation that was inside has left.        *)
(***************************************************************************)
CONSTANTS Operations,   \* the operations that may use the database
          NoOne         \* not an operation

VARIABLES inside,       \* the ordinary operations that may touch the database
          closedBy,     \* the operation that closed the gate, or NoOne
          owned         \* the closer has the database for itself

gateVars == <<inside, closedBy, owned>>

GateInit ==
    /\ inside = {}
    /\ closedBy = NoOne
    /\ owned = FALSE

Enter(o) ==
    /\ closedBy = NoOne
    /\ o \notin inside
    /\ inside' = inside \cup {o}
    /\ UNCHANGED <<closedBy, owned>>

Leave(o) ==
    /\ o \in inside
    /\ inside' = inside \ {o}
    /\ UNCHANGED <<closedBy, owned>>

Close(o) ==
    /\ closedBy = NoOne
    /\ o \notin inside
    /\ closedBy' = o
    /\ UNCHANGED <<inside, owned>>

Own(o) ==
    /\ closedBy = o
    /\ ~owned
    /\ inside = {}
    /\ owned' = TRUE
    /\ UNCHANGED <<inside, closedBy>>

Reopen(o) ==
    /\ closedBy = o
    /\ owned
    /\ closedBy' = NoOne
    /\ owned' = FALSE
    /\ UNCHANGED inside

GateNext ==
    \E o \in Operations : Enter(o) \/ Leave(o) \/ Close(o) \/ Own(o) \/ Reopen(o)

GateSpec == GateInit /\ [][GateNext]_gateVars
=============================================================================

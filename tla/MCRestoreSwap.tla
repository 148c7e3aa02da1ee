---------------------------- MODULE MCRestoreSwap ----------------------------
(* Finite instances of the bundle restore for TLC. *)
EXTENDS RestoreSwap

CONSTANTS b1, b2

TwoBundles == {b1, b2}
OneBundle == {b1}
=============================================================================

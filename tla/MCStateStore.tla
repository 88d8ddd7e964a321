---------------------------- MODULE MCStateStore -----------------------------
(***************************************************************************)
(* Instances of StateStore for TLC: the transactions of the amounts run,   *)
(* in branches.                                                            *)
(***************************************************************************)
EXTENDS StateStore, MCLedger
==============================================================================

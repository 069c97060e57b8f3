---------------------------- MODULE MCStateStore ----------------------------
(* TLC instance of StateStore: a short state and a long one.                *)
EXTENDS StateStore, TLC

CONSTANTS Short, Long

MCStates == {Short, Long}
MCLength == (Short :> 1) @@ (Long :> 2)
=============================================================================

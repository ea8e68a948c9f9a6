---- MODULE MCTimerWheel ----
(***************************************************************************)
(* Small instances of TimerWheel: slots of two milliseconds, a wheel of    *)
(* two or three slots, delays below and above one slot and one turn.       *)
(***************************************************************************)
EXTENDS TimerWheel, TLC

Symmetry == Permutations(Ids)
=============================================================================

---------------------------- MODULE MCWaterLevels ----------------------------
(***************************************************************************)
(* TLC instance of WaterLevels: one station is measured all the time, the  *)
(* other once in between.  Requests are interchangeable.                   *)
(***************************************************************************)
EXTENDS WaterLevels, TLC

CONSTANTS often, once

MCReading == [station : {often}, at : Time] \cup {[station |-> once, at |-> 1]}

Interchangeable == Permutations(Request)
==============================================================================

---------------------------- MODULE MCCurrentRisk ----------------------------
(***************************************************************************)
(* TLC instances of CurrentRisk.  One unit of time is six hours of the     *)
(* code; thresholds and heights are scaled down.  Two of three cells lie   *)
(* in the basin.                                                           *)
(***************************************************************************)
EXTENDS CurrentRisk, TLC

CONSTANTS gfs, ecmwf, x44

MCProviders == <<gfs, ecmwf>>
MCProvider == {gfs, ecmwf}

\* A window of one unit is scored, one of two units is not.
MCWindow == {1, 2}
MCThresholds == [w \in {1} |-> [yellow |-> 5, orange |-> 9, red |-> 15]]

MCBasin == {"upstream", "town"}
Cells3(upstream, town, outside) ==
  ("upstream" :> upstream @@ "town" :> town @@ "outside" :> outside)

At(lead, window, rain) == [lead |-> lead, window |-> window, rain |-> rain]

\* Nothing; half a dry run; a dry run with rain beyond the basin; yellow at its
\* threshold; orange at its threshold; red in one cell; rain only in a window that
\* is not scored.
MCContents ==
  {{},
   {At(1, 1, Cells3(0, 4, 0))},
   {At(1, 1, Cells3(0, 0, 15)), At(2, 1, Cells3(0, 4, 0))},
   {At(1, 1, Cells3(5, 0, 0)), At(2, 1, "outside" :> 15)},
   {At(1, 1, Cells3(0, 9, 0)), At(2, 1, Cells3(4, 0, 0))},
   {At(1, 1, Cells3(0, 15, 0)), At(2, 1, Cells3(0, 0, 0))},
   {At(2, 2, Cells3(15, 15, 0))}}

MCGauge == [s \in {x44} |-> [warning |-> 10, critical |-> 12]]

\* Two fixtures: danger below the critical level of the engine, as for X.44, and at it.
MCRidLevels ==
  {[watch |-> 7, warning |-> 8, danger |-> 10], [watch |-> 8, warning |-> 10, danger |-> 12]}
==============================================================================

------------------------- MODULE MCForecastIngestion -------------------------
(***************************************************************************)
(* TLC instances of ForecastIngestion.  One unit of the clock is six hours: *)
(* GFS has a cycle every unit and a discovery window of seven hours, ECMWF *)
(* a cycle every other unit and a window of thirteen hours; the thresholds *)
(* of the data-quality check are six and twelve hours.  Executions are     *)
(* interchangeable.                                                        *)
(***************************************************************************)
EXTENDS IngestionStore, TLC

GfsOnly == <<"gfs">>

AllProviders == <<"gfs", "ecmwf">>

OneHour == {6}

TwoHours == {6, 12}

Periods == [gfs |-> 1, ecmwf |-> 2]

Windows == [gfs |-> 1, ecmwf |-> 2]

Ages == [gfs |-> 1, ecmwf |-> 2]

\* The hours of a cycle differ; its frames carry their provider and cycle anyway.
EveryForecast ==
  [p \in Provider |-> [c \in Time |-> [h \in Hours |->
     [lead |-> h, window |-> 1, rain |-> <<>>]]]]

JobSymmetry == Permutations(Job)
=============================================================================

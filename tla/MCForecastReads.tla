--------------------------- MODULE MCForecastReads ---------------------------
(***************************************************************************)
(* TLC instance of ForecastReads.  One unit of the clock is twelve hours:  *)
(* ECMWF has a cycle every unit, a discovery window of thirteen hours and  *)
(* a threshold of twelve; a calendar day is two units, so that the frame   *)
(* of hour 1 of cycle 1 is valid at midnight.  GFS is not ingested, as     *)
(* with --provider ecmwf.                                                  *)
(***************************************************************************)
EXTENDS ForecastReads, TLC

EcmwfOnly == <<"ecmwf">>

OneHour == {1}

OneUnit == [gfs |-> 1, ecmwf |-> 1]

OneEvent == {1}

JobSymmetry == Permutations(Job)
=============================================================================

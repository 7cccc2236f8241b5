--------------------------- MODULE MCProviderFetch ---------------------------
(***************************************************************************)
(* TLC instance of ProviderFetch with the cycles and windows of the code.  *)
(* Every cycle has rain of its own; in cycles 6 and 12 a run total drops,  *)
(* as packed values do: the first is of GFS, the second of both clients.   *)
(***************************************************************************)
EXTENDS ProviderFetch

ThreeHours == {6, 9, 12}

Periods == [gfs |-> 6, ecmwf |-> 12]

Thresholds == [gfs |-> 7, ecmwf |-> 13]

Rain == [c \in Time |->
          [h \in Steps |->
             CASE h = 0 -> 0
               [] h = 6 -> 2 + c
               [] h = 9 -> 3 + c
               [] h = 12 -> IF c \in {6, 12} THEN 1 ELSE 7 + c]]
==============================================================================

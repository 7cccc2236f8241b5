----------------------------- MODULE ModelCycles -----------------------------
(***************************************************************************)
(* Which model cycle a provider client may return: what ForecastIngestion  *)
(* takes of the clients and ProviderFetch shows of them.                   *)
(***************************************************************************)
EXTENDS Integers

\* The cycles at or before time t that are inside the freshness window.
Discoverable(period, window, t) == {c \in 0 .. t : c % period = 0 /\ t - c <= window}
==============================================================================

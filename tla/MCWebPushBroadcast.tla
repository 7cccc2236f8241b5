------------------------- MODULE MCWebPushBroadcast -------------------------
(* TLC instance of WebPushBroadcast. *)
EXTENDS WebPushBroadcast

Endpoints2 == 1 .. 2
=============================================================================

---------------------------- MODULE MCNetPolling ----------------------------
(* Small instances of NetPolling for TLC.                                   *)
EXTENDS NetPolling

CONSTANTS eth0, wlan0

MCTwo == {eth0, wlan0}
MCReceived == {"rx"}
=============================================================================

----------------------------- MODULE MCDevices -----------------------------
(* Devices for TLC: two SwitchBots and a model of a site, two calls.       *)
EXTENDS Devices

CONSTANTS x, y, z, v1, s1, t1
=============================================================================

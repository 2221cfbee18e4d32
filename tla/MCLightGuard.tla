---------------------------- MODULE MCLightGuard ----------------------------
(* LightGuard for TLC.                                                     *)
EXTENDS LightGuard

CONSTANTS Nonces    \* bound: ANonces, and SNonces

Ptks == [pmk : 0 .. MaxRound, an : 1 .. Nonces, sn : 1 .. Nonces]
NoFaults == {}
NoTimers == {}
=============================================================================

---------------------------- MODULE MCHttpIncident ----------------------------
(* HttpIncident for the cases of http_suite: four concurrent clients as in the *)
(* program when nothing is late, and two when up to two responses are late and *)
(* a handler may fail on a locked database.                                    *)
EXTENDS HttpIncident

CONSTANTS none, nobody

Suite == [mode : Modes, scenario : Scenarios]
MCLimits == {[clients |-> 4, timeouts |-> 0, lockouts |-> 0],
             [clients |-> 2, timeouts |-> 2, lockouts |-> 1]}
=============================================================================

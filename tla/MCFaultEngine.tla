---------------------------- MODULE MCFaultEngine ----------------------------
(* FaultEngine with two workers.  MCSchedules holds a schedule with a window *)
(* that starts at the second call, a different one that must be refused, and *)
(* one with two rules at one boundary.                                       *)
EXTENDS FaultEngine

CONSTANTS w1, w2, none, nobody

Rule(tool, phase, kind, occurrence, repeat) ==
    [tool |-> tool, phase |-> phase, kind |-> kind,
     occurrence |-> occurrence, repeat |-> repeat]

Late == Rule("charge", "before", "timeout", 2, 2)
Ack  == Rule("charge", "after", "lost_ack", 1, 1)

MCWorkers == {w1, w2}
MCSchedules == {<<Late, Ack>>, <<Ack>>, <<Ack, Ack>>}
=============================================================================

---------------------------- MODULE MCSuiteRunner ----------------------------
(* SuiteRunner for two cases of every kind and expectation, with no rule, one  *)
(* or two, that fire once, twice, or only on a call that may never be made.    *)
EXTENDS SuiteRunner

MCChecks == {"one_effect", "receipt"}
MCRule(phase, kind, occurrence, repeat) ==
    [tool |-> "tool", phase |-> phase, kind |-> kind,
     occurrence |-> occurrence, repeat |-> repeat]
Lost(occurrence, repeat) == MCRule("after", "lost_ack", occurrence, repeat)
MCCase(kind, faults, expected, failures) ==
    [kind |-> kind, faults |-> faults, expected |-> expected, failures |-> failures]

Expectations == {<<"completed", {}>>, <<"violation", {"one_effect"}>>}
Schedules == {<<>>, <<Lost(1, 2)>>, <<MCRule("before", "timeout", 1, 1), Lost(2, 1)>>}
First == {MCCase(k, f, e[1], e[2]) : k \in Kinds, e \in Expectations, f \in Schedules}
Second == {MCCase(k, <<Lost(1, 1)>>, "rejected", {}) : k \in Kinds}
MCSuites == {<<c, d>> : c \in First, d \in Second}
=============================================================================

-------------------------- MODULE MCArtifactWorkflow --------------------------
(* ArtifactWorkflow under schedules of one rule with windows in the first      *)
(* calls, and of two rules with repetitions that do and do not exhaust the     *)
(* retry budget of 3.                                                          *)
EXTENDS ArtifactWorkflow

CONSTANTS w1, w2, none

MCRule(tool, phase, kind, occurrence, repeat) ==
    [tool |-> tool, phase |-> phase, kind |-> kind,
     occurrence |-> occurrence, repeat |-> repeat]

RulesFrom(occurrences, repeats) ==
    {MCRule(t, p, k, o, r) : t \in Tools, p \in Phases,
        k \in Allowed["before"] \union Allowed["after"],
        o \in occurrences, r \in repeats}
WellFormed(rules) == {r \in rules : ValidRule(r)}

NoFaults == {<<>>}
FirstFaults == NoFaults \union {<<r>> : r \in WellFormed(RulesFrom({1}, {1, 3}))}
SingleFaults == {<<r>> : r \in WellFormed(RulesFrom(1..2, 1..4))}
Stages == <<"retrieve_records", "build_artifact", "commit_artifact", "export_artifact">>
Rank(r) == CHOOSE i \in 1..8 : /\ Stages[(i + 1) \div 2] = r.tool
                               /\ (r.phase = "before") = (i % 2 = 1)
PairedFaults ==
    LET rules == WellFormed(RulesFrom({1}, {1, 3}))
    IN  {p \in {<<q, r>> : q \in rules, r \in rules} : Rank(p[1]) < Rank(p[2])}
MCSchedules == NoFaults \union SingleFaults \union PairedFaults

\* The task under the adapter, by two workers without and with faults,
\* repeated after every end, and run once.
MCSettings ==
    [adapter |->
        [workers |-> {w1}, schedules |-> MCSchedules, rerun |-> {"interrupted"},
         runs |-> 2, crashes |-> 0, damages |-> 0, errors |-> 0],
     together |->
        [workers |-> {w1, w2}, schedules |-> NoFaults, rerun |-> {"complete", "error", "killed"},
         runs |-> 3, crashes |-> 2, damages |-> 1, errors |-> 1],
     shared |->
        [workers |-> {w1, w2}, schedules |-> FirstFaults, rerun |-> {"interrupted"},
         runs |-> 2, crashes |-> 0, damages |-> 0, errors |-> 0],
     repeated |->
        [workers |-> {w1}, schedules |-> SingleFaults, rerun |-> Ended \ {"complete"},
         runs |-> 8, crashes |-> 1, damages |-> 1, errors |-> 1],
     once |->
        [workers |-> {w2}, schedules |-> MCSchedules, rerun |-> {},
         runs |-> 2, crashes |-> 0, damages |-> 0, errors |-> 0]]
=============================================================================

---------------------------- MODULE MCLangGraphRun ----------------------------
(* LangGraphRun under schedules of one rule with windows in the first calls,   *)
(* and of two rules with repetitions that do and do not exhaust the retry      *)
(* budget of 3.                                                                *)
EXTENDS LangGraphRun

CONSTANT none

MCRule(tool, phase, kind, occurrence, repeat) ==
    [tool |-> tool, phase |-> phase, kind |-> kind,
     occurrence |-> occurrence, repeat |-> repeat]

RulesFrom(occurrences, repeats) ==
    {r \in {MCRule(t, p, k, o, n) : t \in Tools, p \in Phases,
                k \in Allowed["before"] \union Allowed["after"],
                o \in occurrences, n \in repeats} : ValidRule(r)}

SingleFaults == {<<>>} \union {<<r>> : r \in RulesFrom(1..2, {1, 3})}
Order == <<"retrieve_records", "build_artifact", "commit_artifact", "export_artifact">>
Rank(r) == CHOOSE i \in 1..8 : /\ Order[(i + 1) \div 2] = r.tool
                               /\ (r.phase = "before") = (i % 2 = 1)
PairedFaults ==
    LET rules == RulesFrom({1}, {1, 3})
    IN  {p \in {<<q, r>> : q \in rules, r \in rules} : Rank(p[1]) < Rank(p[2])}
MCSchedules == SingleFaults \union PairedFaults

\* The graph under the adapter, its wrong-receipt control, killed twice, repeated
\* after every end, and run once.
MCSettings ==
    [adapter |->
        [modes |-> {"normal"}, schedules |-> MCSchedules, rerun |-> {"interrupted"},
         runs |-> 2, crashes |-> 0, damages |-> 0, errors |-> 0],
     control |->
        [modes |-> {"invalid_receipt"}, schedules |-> MCSchedules, rerun |-> {"interrupted"},
         runs |-> 2, crashes |-> 0, damages |-> 0, errors |-> 0],
     killed |->
        [modes |-> {"normal"}, schedules |-> SingleFaults, rerun |-> Ended,
         runs |-> 4, crashes |-> 2, damages |-> 1, errors |-> 1],
     repeated |->
        [modes |-> {"normal"}, schedules |-> MCSchedules, rerun |-> Ended,
         runs |-> 9, crashes |-> 0, damages |-> 1, errors |-> 1],
     once |->
        [modes |-> {"normal"}, schedules |-> MCSchedules, rerun |-> {},
         runs |-> 2, crashes |-> 0, damages |-> 0, errors |-> 0]]

\* Killed once and started again.
KilledOnce ==
    [once |->
        [modes |-> {"normal"}, schedules |-> SingleFaults, rerun |-> {"killed"}, runs |-> 2,
         crashes |-> 1, damages |-> 0, errors |-> 0]]
=============================================================================

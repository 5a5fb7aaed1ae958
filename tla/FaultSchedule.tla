--------------------------- MODULE FaultSchedule ---------------------------
(* Fault schedules of src/agent_reliability/faults.py, as data: a schedule  *)
(* is a tuple of rules, each naming a tool boundary (tool, phase) and the   *)
(* window of calls at that boundary it hits.  No state lives here; the      *)
(* durable journal is FaultJournal, the engine processes are FaultEngine.   *)
EXTENDS Naturals, Sequences

Phases == {"before", "after"}

\* The kinds a rule may have at each phase (FaultRule.__post_init__).
Allowed == [before |-> {"timeout", "rate_limit", "interrupt", "permanent_error"},
            after  |-> {"lost_ack", "malformed", "interrupt"}]

MaxField == 100

\* What FaultRule accepts: a supported kind for its phase and a window whose
\* start and length both lie in 1..100.
ValidRule(r) ==
    /\ r.phase \in Phases
    /\ r.kind \in Allowed[r.phase]
    /\ r.occurrence \in 1..MaxField
    /\ r.repeat \in 1..MaxField

\* A tuple of at most `max` valid rules.
IsSchedule(s, max) ==
    \E n \in 0..max : DOMAIN s = 1..n /\ \A i \in 1..n : ValidRule(s[i])

\* FaultEngine refuses two rules at one boundary.
DistinctTargets(s) ==
    \A i, j \in DOMAIN s :
        (s[i].tool = s[j].tool /\ s[i].phase = s[j].phase) => i = j

\* The rule indices apply(tool, phase) visits.
Matching(s, tool, phase) ==
    {i \in DOMAIN s : s[i].tool = tool /\ s[i].phase = phase}

\* Does the n-th call at r's boundary fall in r's window?
Fires(r, n) == r.occurrence <= n /\ n < r.occurrence + r.repeat

\* What a fired rule makes the application see.
Outcome(kind) ==
    CASE kind \in {"timeout", "rate_limit", "lost_ack"} -> "retryable"
      [] kind = "interrupt"                              -> "interrupted"
      [] kind = "permanent_error"                        -> "permanent"
      [] kind = "malformed"                              -> "malformed"
=============================================================================

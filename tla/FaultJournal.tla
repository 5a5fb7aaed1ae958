---------------------------- MODULE FaultJournal ----------------------------
(* What a fault engine promises: a durable journal in which binding a        *)
(* schedule and claiming a call are single atomic steps.  FaultEngine shows   *)
(* that the SQLite transactions of faults.py implement it across processes    *)
(* and crashes; RefundService uses its Claim as one step.                     *)
EXTENDS FaultSchedule, FiniteSets

CONSTANTS
    Schedules,    \* the schedules engines may be constructed with
    NoSchedule,   \* the binding table is still empty
    MaxRules      \* bound on the length of a schedule

VARIABLES
    binding,      \* the schedule this journal belongs to
    calls,        \* calls seen per rule (rows not yet inserted count 0)
    journal       \* the faults table, in seq order

journalVars == <<binding, calls, journal>>

Rules == 1..MaxRules

Init ==
    /\ binding = NoSchedule
    /\ calls = [i \in Rules |-> 0]
    /\ journal = <<>>

\* FaultEngine.__init__: the first schedule is recorded, later ones must match.
Bind(s) ==
    /\ binding \in {NoSchedule, s}
    /\ binding' = s
    /\ UNCHANGED <<calls, journal>>

Record(i, n) == [rule |-> i, occurrence |-> n]

\* The transaction of apply(): count the call and, inside the rule's window,
\* record the injection.
Claim(i) ==
    /\ i \in DOMAIN binding
    /\ calls' = [calls EXCEPT ![i] = @ + 1]
    /\ journal' = IF Fires(binding[i], calls[i] + 1)
                    THEN Append(journal, Record(i, calls[i] + 1))
                    ELSE journal
    /\ UNCHANGED binding

\* faults.apply(tool, phase) as one step: a boundary without a rule does
\* nothing, one with a rule claims the call; `outcome` is what the boundary
\* does to its caller.
Apply(tool, phase, outcome) ==
    LET m == Matching(binding, tool, phase)
    IN  IF m = {}
          THEN outcome = "none" /\ UNCHANGED journalVars
          ELSE \E i \in m :
            /\ Claim(i)
            /\ outcome = IF Fires(binding[i], calls[i] + 1)
                           THEN Outcome(binding[i].kind) ELSE "none"

Outcomes == {"none", "retryable", "interrupted", "permanent", "malformed"}

\* covered(): every rule was injected exactly `repeat` times.
Covered ==
    binding # NoSchedule /\
    \A i \in DOMAIN binding :
        Cardinality({k \in DOMAIN journal : journal[k].rule = i}) = binding[i].repeat

\* How often the bound schedule hits this boundary with one of the outcomes.
Hits(tool, phase, outcomes) ==
    LET hit == {i \in Matching(binding, tool, phase) :
                    Outcome(binding[i].kind) \in outcomes}
    IN  IF hit = {} THEN 0 ELSE binding[CHOOSE i \in hit : TRUE].repeat

Next ==
    \/ \E s \in Schedules : DistinctTargets(s) /\ Bind(s)
    \/ binding # NoSchedule /\ \E i \in Rules : Claim(i)

Spec == Init /\ [][Next]_journalVars

-----------------------------------------------------------------------------
TypeOK ==
    /\ binding \in Schedules \union {NoSchedule}
    /\ calls \in [Rules -> Nat]
    /\ journal \in Seq([rule : Rules, occurrence : Nat])

\* Only calls inside a window are recorded, each with the number of a call
\* that was counted.
JournalSound ==
    \A k \in DOMAIN journal :
        /\ binding # NoSchedule
        /\ journal[k].rule \in DOMAIN binding
        /\ journal[k].occurrence \in 1..calls[journal[k].rule]
        /\ Fires(binding[journal[k].rule], journal[k].occurrence)

\* Every counted call inside a window is recorded.
JournalComplete ==
    binding # NoSchedule =>
        \A i \in DOMAIN binding : \A n \in 1..calls[i] :
            Fires(binding[i], n) => \E k \in DOMAIN journal : journal[k] = Record(i, n)

\* Records of one rule appear once each and in call order.
JournalOrdered ==
    \A j, k \in DOMAIN journal :
        (j < k /\ journal[j].rule = journal[k].rule)
            => journal[j].occurrence < journal[k].occurrence

\* The faults table is exactly the sequence of windowed calls: nothing is
\* injected outside its window, nothing inside it is missed, doubled or
\* reordered, however the calling processes interleave (apply()).
JournalExact == JournalSound /\ JournalComplete /\ JournalOrdered
=============================================================================

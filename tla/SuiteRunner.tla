----------------------------- MODULE SuiteRunner -----------------------------
(* run_matrix of suite.py: cases one after the other, each with a fresh fault  *)
(* journal and a deadline on its adapter, and one row of the report for each.  *)
(* The deadline cancels a coroutine; a thread behind asyncio.to_thread goes on *)
(* after it, and code that blocks the event loop is never interrupted by it.   *)
(*                                                                            *)
(* An adapter is what it promises in contracts.py: it calls fault boundaries   *)
(* while it executes, and then returns an assessment or raises.                *)
EXTENDS FaultSchedule, FiniteSets

CONSTANTS
    Suites,         \* the sequences of cases that may be run
    Checks,         \* names of invariant checks
    MaxCalls        \* bound: calls of one execution at each rule's boundary

\* How a case's adapter executes: it may block the event loop, run in a thread
\* or be a coroutine that can be cancelled.
Kinds == {"blocking", "threaded", "cooperative"}

\* Case.__post_init__: any schedule of valid rules, and exactly the negative
\* controls name failing checks.
ValidCase(c) ==
    /\ c.kind \in Kinds
    /\ Len(c.faults) \in Nat /\ IsSchedule(c.faults, Len(c.faults))
    /\ c.expected \in {"completed", "rejected", "violation"}
    /\ c.failures \subseteq Checks
    /\ (c.expected = "violation") = (c.failures # {})

MaxCases == 500

\* What run_matrix accepts before it runs anything.
ValidSuite(s) ==
    /\ Len(s) \in 1..MaxCases /\ DOMAIN s = 1..Len(s)
    /\ \A k \in DOMAIN s : ValidCase(s[k]) /\ DistinctTargets(s[k].faults)

ASSUME SuiteAssumption ==
    /\ \A s \in Suites : ValidSuite(s)
    /\ MaxCalls \in Nat

\* Assessment.__post_init__: a violation is an assessment with failing checks.
\* Its receipt and its checks may be impossible to write as JSON, see Save; an
\* exception leaves neither in the row.
Assessments ==
    {a \in [observed : {"completed", "rejected", "violation"}, failures : SUBSET Checks,
            storable : BOOLEAN] :
        (a.observed = "violation") = (a.failures # {})}
Raised == [observed |-> "error", failures |-> {}, storable |-> TRUE]

VARIABLES
    suite,          \* the cases
    current,        \* index of the case being run
    pc,             \* the runner
    execution,      \* each case's adapter: "none", "running", "finished", "cancelled"
    outcome,        \* what each execution returned
    calls, injected,    \* each case's fault journal: calls and injections of each rule
    row,            \* the row of the current case
    results         \* the rows written

journals == <<calls, injected>>
vars == <<suite, current, pc, execution, outcome, calls, injected, row, results>>

Case == suite[current]
Rules(k) == DOMAIN suite[k].faults

\* Every rule of the case has fired as often as it is to be repeated.
Covered(k) == \A i \in Rules(k) : injected[k][i] = suite[k].faults[i].repeat

EmptyRow == [observed |-> "error", passed |-> FALSE, error |-> "none",
             events |-> <<>>, coverage |-> FALSE, storable |-> TRUE]

Init ==
    /\ suite \in Suites
    /\ current = 0
    /\ pc = "next"
    /\ execution = [k \in DOMAIN suite |-> "none"]
    /\ outcome = [k \in DOMAIN suite |-> Raised]
    /\ calls = [k \in DOMAIN suite |-> [i \in Rules(k) |-> 0]]
    /\ injected = [k \in DOMAIN suite |-> [i \in Rules(k) |-> 0]]
    /\ row = EmptyRow
    /\ results = <<>>

-----------------------------------------------------------------------------
(* The adapters                                                              *)

\* One more for a rule of a case.
Plus(counts, k, i) == [counts EXCEPT ![k][i] = @ + 1]

\* A running execution calls the boundary of the i-th rule, see FaultJournal.
Claim(k, i) ==
    /\ execution[k] = "running"
    /\ calls[k][i] < MaxCalls
    /\ calls' = Plus(calls, k, i)
    /\ injected' = IF Fires(suite[k].faults[i], calls[k][i] + 1)
                     THEN Plus(injected, k, i) ELSE injected
    /\ UNCHANGED <<suite, current, pc, execution, outcome, row, results>>

\* The adapter returns, with an assessment of what it left, or raises.
Return(k) ==
    /\ execution[k] = "running"
    /\ \E a \in Assessments \union {Raised} : outcome' = [outcome EXCEPT ![k] = a]
    /\ execution' = [execution EXCEPT ![k] = "finished"]
    /\ UNCHANGED <<suite, current, pc, journals, row, results>>

-----------------------------------------------------------------------------
(* The runner                                                                *)

\* A fresh directory and engine, and the adapter is started.
Begin ==
    /\ pc = "next"
    /\ current < Len(suite)
    /\ current' = current + 1
    /\ execution' = [execution EXCEPT ![current + 1] = "running"]
    /\ row' = EmptyRow
    /\ pc' = "waiting"
    /\ UNCHANGED <<suite, outcome, journals, results>>

\* Seeded bug: a passing row needs no fault coverage.
AssessUncovered ==
    /\ pc = "waiting"
    /\ execution[current] = "finished"
    /\ LET a == outcome[current]
       IN  row' = IF a = Raised THEN [row EXCEPT !.error = "raised"]
                  ELSE [row EXCEPT !.observed = a.observed, !.storable = a.storable,
                                   !.passed = /\ a.observed = Case.expected
                                              /\ a.failures = Case.failures]
    /\ pc' = "first read"
    /\ UNCHANGED <<suite, current, execution, outcome, journals, results>>

\* The execution ended in time.  An exception leaves the row an error.
Assess ==
    /\ pc = "waiting"
    /\ execution[current] = "finished"
    /\ LET a == outcome[current]
       IN  row' = IF a = Raised THEN [row EXCEPT !.error = "raised"]
                  ELSE [row EXCEPT !.observed = a.observed, !.storable = a.storable,
                                   !.passed = /\ a.observed = Case.expected
                                              /\ Covered(current)
                                              /\ a.failures = Case.failures]
    /\ pc' = "first read"
    /\ UNCHANGED <<suite, current, execution, outcome, journals, results>>

\* Seeded bug: a deadline that a thread or a blocked execution holds up.
TimeOutCooperative ==
    /\ pc = "waiting"
    /\ Case.kind = "cooperative"
    /\ execution[current] = "running"
    /\ execution' = [execution EXCEPT ![current] = "cancelled"]
    /\ row' = [row EXCEPT !.error = "timeout"]
    /\ pc' = "first read"
    /\ UNCHANGED <<suite, current, outcome, journals, results>>

\* wait_for gives up.  The result of a thread that ends in this very moment is
\* lost with it.
TimeOut ==
    /\ pc = "waiting"
    /\ Case.kind # "blocking"
    /\ \/ execution[current] = "running"
       \/ Case.kind = "threaded" /\ execution[current] = "finished"
    /\ execution' = IF Case.kind = "cooperative"
                      THEN [execution EXCEPT ![current] = "cancelled"] ELSE execution
    /\ row' = [row EXCEPT !.error = "timeout"]
    /\ pc' = "first read"
    /\ UNCHANGED <<suite, current, outcome, journals, results>>

\* fault_events and fault_coverage are separate reads of the journal.
ReadJournal(at, found, next) ==
    /\ pc = at
    /\ row' = found
    /\ pc' = next
    /\ UNCHANGED <<suite, current, execution, outcome, journals, results>>

EventsFound == [row EXCEPT !.events = injected[current]]
CoverageFound == [row EXCEPT !.coverage = Covered(current)]

\* Seeded bug: the coverage is read first.
ReadCoverageFirst ==
    \/ ReadJournal("first read", CoverageFound, "second read")
    \/ ReadJournal("second read", EventsFound, "saving")

\* The events are read first, and the coverage from a journal that may be ahead
\* of them by then.
ReadEvidence ==
    \/ ReadJournal("first read", EventsFound, "second read")
    \/ ReadJournal("second read", CoverageFound, "saving")

\* result.json, and the row of results.json.  The row is written outside the
\* block that catches what a case raises: one that JSON cannot hold (a receipt
\* with NaN, or with no plain values) ends the run without a row.
Save ==
    /\ pc = "saving"
    /\ IF row.storable THEN results' = Append(results, row) /\ pc' = "next"
                       ELSE pc' = "aborted" /\ UNCHANGED results
    /\ UNCHANGED <<suite, current, execution, outcome, journals, row>>

Runner == Begin \/ Assess \/ TimeOut \/ ReadEvidence \/ Save

Next ==
    \/ Runner
    \/ \E k \in DOMAIN suite : Return(k) \/ \E i \in Rules(k) : Claim(k, i)

Spec == Init /\ [][Next]_vars

\* The runner is scheduled and its deadlines expire; only an adapter that
\* blocks the event loop must bound its own execution (architecture.md).
FairSpec ==
    /\ Spec
    /\ WF_vars(Runner)
    /\ WF_vars(current > 0 /\ Case.kind = "blocking" /\ Return(current))

-----------------------------------------------------------------------------
(* Properties                                                                *)

\* Type correctness of the runner, the journals and the report.
TypeOK ==
    /\ suite \in Suites
    /\ current \in 0..Len(suite)
    /\ pc \in {"next", "waiting", "first read", "second read", "saving", "aborted"}
    /\ execution \in [DOMAIN suite -> {"none", "running", "finished", "cancelled"}]
    /\ outcome \in [DOMAIN suite -> Assessments \union {Raised}]
    /\ DOMAIN calls = DOMAIN suite /\ DOMAIN injected = DOMAIN suite
    /\ \A k \in DOMAIN suite :
         /\ calls[k] \in [Rules(k) -> 0..MaxCalls]
         /\ injected[k] \in [Rules(k) -> Nat]
         /\ \A i \in Rules(k) : injected[k][i] <= suite[k].faults[i].repeat
    /\ results \in Seq([observed : {"completed", "rejected", "violation", "error"},
                        passed : BOOLEAN, error : {"none", "raised", "timeout"},
                        events : Seq(Nat), coverage : BOOLEAN, storable : {TRUE}])
    /\ Len(results) = current - (IF pc = "next" THEN 0 ELSE 1)

\* A passing row was earned: its execution ended by itself with the declared
\* outcome, failing exactly the declared checks, and every scheduled fault of
\* every rule is in the row and stays in the journal ("schedule a fault that
\* never fires: the case must fail", docs/adapters.md).
PassIsEarned ==
    \A k \in DOMAIN results : results[k].passed =>
        /\ execution[k] = "finished"
        /\ outcome[k].observed = suite[k].expected
        /\ outcome[k].failures = suite[k].failures
        /\ Covered(k)
        /\ results[k].coverage
        /\ \A i \in Rules(k) : results[k].events[i] = suite[k].faults[i].repeat

\* The journal of a case that met its deadline does not change any more: its
\* row says what the database says, now and later.
EvidenceFinal ==
    \A k \in DOMAIN results : results[k].error # "timeout" =>
        /\ results[k].events = injected[k]
        /\ results[k].coverage = Covered(k)

\* A row after a deadline may lag behind the execution it abandoned, but never
\* claims an injection that did not happen; and since the events are read
\* first, a row without coverage is a row with an event missing.
LateEvidenceUnderstates ==
    \A k \in DOMAIN results :
        /\ \A i \in Rules(k) : results[k].events[i] <= injected[k][i]
        /\ results[k].coverage => Covered(k)
        /\ ~results[k].coverage =>
             \E i \in Rules(k) : results[k].events[i] < suite[k].faults[i].repeat

\* Cases run one at a time; only a thread that outlived its deadline runs
\* beside the current case, and its row is an error.
Sequential ==
    \A k \in DOMAIN suite : (execution[k] = "running" /\ k < current) =>
        /\ suite[k].kind = "threaded"
        /\ results[k].error = "timeout" /\ ~results[k].passed

\* The invariant of the runner: types, the order of executions, and rows whose
\* evidence is the journal's, or less after a deadline.
EvidenceHonest == TypeOK /\ Sequential /\ EvidenceFinal /\ LateEvidenceUnderstates

\* Although adapters hang, the suite ends with a row for every case, or else at
\* a case that met its deadline with a row that cannot be written.
RunCompletes ==
    <>(\/ Len(results) = Len(suite)
       \/ pc = "aborted" /\ row.error = "none" /\ ~outcome[current].storable)
=============================================================================

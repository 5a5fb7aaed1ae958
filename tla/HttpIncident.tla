----------------------------- MODULE HttpIncident -----------------------------
(* HttpCharge observed by the triage command: the bundle of a finished case    *)
(* holds the ledger snapshot, the clients' receipts and whatever part of the   *)
(* service log was kept, and none of what the oracle knows (mode, scenario,    *)
(* schedule, expectations).                                                    *)
EXTENDS HttpCharge, Triage

Key == "charge-1"

-----------------------------------------------------------------------------
(* bundle_case: the whitelisted fields                                       *)

Rows == {[key |-> Key, id |-> i, amount |-> ledger[i]] : i \in DOMAIN ledger}
Receipts ==
    {[client |-> c, key |-> Key, status |-> Status(c), id |-> response[c].id,
      amount |-> response[c].amount, requested |-> Amount(c),
      retried |-> attempt[c] > 1 \/ Status(c) = 0] : c \in Active}
Transactions(log) ==
    {[attempt |-> e.attempt, key |-> Key, id |-> e.id, requested |-> e.requested,
      stored |-> e.stored, inserted |-> e.inserted, status |-> e.status]
        : e \in {x \in log : x.kind = "transaction"}}
Dropped(log) ==
    {[attempt |-> e.attempt, key |-> Key, id |-> e.id]
        : e \in {x \in log : x.kind = "response_not_sent"}}

Bundle(log) == [rows |-> Rows, receipts |-> Receipts,
                transactions |-> Transactions(log), dropped |-> Dropped(log)]
Diagnosis(log) == Diagnose(Bundle(log))

\* triage_eval.fixtures: the label each case of http_suite is graded against.
ExpectedLabel ==
    IF case.mode = "baseline" /\ case.scenario # "clean" THEN "duplicate_effect"
    ELSE CASE case.scenario = "lost-ack" -> "acknowledgement_lost_recovered"
           [] case.scenario = "conflict" -> "conflicting_payload_rejected"
           [] OTHER -> "clean"

\* The evidence ablations of the same function, for the guarded service.
Ablations ==
    CASE case = [mode |-> "guarded", scenario |-> "clean"] ->
           {[Bundle(events) EXCEPT !.rows = {}]} \cup
           {[Bundle(events) EXCEPT !.receipts = (@ \ {r}) \cup {[r EXCEPT !.id = 999]}]
              : r \in Receipts}
      [] case = [mode |-> "guarded", scenario |-> "lost-ack"] ->
           {Bundle({}), Bundle({e \in events : e.kind # "response_not_sent"})}
      [] OTHER -> {}

-----------------------------------------------------------------------------
(* Properties                                                                *)

\* While no response is late and no lock times out, every interleaving of every
\* case of http_suite is labelled as its grader expects, and every ablation of
\* its evidence makes the diagnosis abstain.
CatalogDiagnosis ==
    timeouts = 0 /\ lockouts = 0 =>
        /\ Diagnosis(events) = ExpectedLabel
        /\ \A b \in Ablations : Diagnose(b) = "insufficient_evidence"

\* "A timeout alone does not establish that a write committed": the response to
\* the very insertion of the one row was withheld, and its client came again
\* (docs/incident-triage.md).
RecoveryWitnessed ==
    \E h \in Attempts : /\ handlers[h].inserted /\ handlers[h].id = 1
                        /\ At(h, "closed")
                        /\ attempt[h[1]] > h[2]

\* The evidence rules are right about the catalog.  A reassuring label is never
\* given to a run that the oracle fails, nor the label of a duplicate to one it
\* passes, although the diagnosis sees neither mode nor schedule: with late
\* commits, timeouts and lock-outs, and with any part of the service log
\* missing.  A recovery it reports is witnessed.
DiagnosisSound ==
    Executed =>
        /\ CatalogDiagnosis
        /\ \A log \in SUBSET events :
            /\ Diagnosis(log) \in {"clean", "acknowledgement_lost_recovered",
                                   "conflicting_payload_rejected"} => FailedChecks = {}
            /\ Diagnosis(log) = "duplicate_effect" => "one_effect" \in FailedChecks
            /\ Diagnosis(log) = "acknowledgement_lost_recovered" => RecoveryWitnessed

\* Losing part of the service log makes the diagnosis abstain or leaves it as
\* it is; it never turns one cause into another.
LostLogOnlyAbstains ==
    Executed => \A log \in SUBSET events :
        Diagnosis(log) \in {Diagnosis(events), "insufficient_evidence"}

\* "Require sufficient cited observations" (validate_prediction): what a model
\* must cite for its proposal to be accepted establishes the label by itself,
\* the duplicate together with any receipt; further receipts it cites may
\* unsettle the label and never turn it into another.
ProposalSound ==
    Executed => \A log \in SUBSET events : \A p \in Proofs(Bundle(log)) :
        \A extra \in SUBSET Receipts :
            LET cited == [p EXCEPT !.receipts = @ \cup extra]
                accepted == Validated(Bundle(log), Diagnosis(log), cited)
            IN  /\ accepted = Diagnosis(log)
                /\ Diagnose(cited) \in {accepted, "insufficient_evidence"}
                /\ extra = {} /\ accepted # "duplicate_effect" => Diagnose(cited) = accepted
                /\ extra # {} /\ accepted = "duplicate_effect" => Diagnose(cited) = accepted
=============================================================================

-------------------------------- MODULE Triage --------------------------------
(* triage.py on one incident: the deterministic diagnosis, a label given from  *)
(* the evidence only, and the gate a model's proposed diagnosis has to pass.   *)
(* A bundle is a record of four sets of evidence items:                        *)
(*   rows          the ledger snapshot                      [key, id, amount]   *)
(*   receipts      one per client    [client, key, status, id, amount,          *)
(*                                    requested, retried]                       *)
(*   transactions  [attempt, key, id, requested, stored, inserted, status]      *)
(*   dropped       response_not_sent events                 [attempt, key, id]  *)
(* No label depends on the order of the items, only the choice of a citation   *)
(* among equally good ones does.  A receipt is `retried` when its attempts     *)
(* contain a transport failure; a missing id is 0.                             *)
EXTENDS Naturals

InLedger(rows, key, id, amount) ==
    \E row \in rows : row.key = key /\ row.id = id /\ row.amount = amount

\* A receipt or a service transaction that the ledger does not bear out.
Contradictory(rows, receipts, transactions) ==
    \/ \E r \in receipts : r.status = 200 /\ ~InLedger(rows, r.key, r.id, r.amount)
    \/ \E t \in transactions :
        \/ ~InLedger(rows, t.key, t.id, t.stored)
        \/ t.status = 200 /\ t.requested # t.stored

\* Seeded bug: only rows with one payload are duplicates.
DuplicatedPayload(rows) ==
    \E p, q \in rows : p # q /\ p.key = q.key /\ p.amount = q.amount

Duplicated(rows) == \E p, q \in rows : p # q /\ p.key = q.key

\* A request without a final answer, or whose answer the service did not log.
Unresolved(receipts, transactions) ==
    \E r \in receipts :
        \/ r.status \notin {200, 409}
        \/ ~ \E t \in transactions :
            t.key = r.key /\ t.requested = r.requested /\ t.status = r.status

\* The service refused this receipt's changed amount and inserted nothing.
Refused(r, t) ==
    /\ t.status = 409 /\ t.key = r.key /\ t.requested = r.requested
    /\ t.requested # t.stored
    /\ ~t.inserted

\* The response withheld was that of an insertion, and a retry got its row.
CommitLost(t, d) == t.attempt = d.attempt /\ t.id = d.id /\ t.inserted
Recovers(r, d) == r.id = d.id /\ r.key = d.key /\ r.status = 200

RecoveryProved(retries, transactions, dropped) ==
    \E d \in dropped : /\ \E t \in transactions : CommitLost(t, d)
                       /\ \E r \in retries : Recovers(r, d)

\* Seeded bug: where no response was dropped, a retry needs no explanation.
RetryLabelLenient(retries, transactions, dropped) ==
    IF dropped = {} THEN "clean"
    ELSE IF RecoveryProved(retries, transactions, dropped)
      THEN "acknowledgement_lost_recovered" ELSE "insufficient_evidence"

\* A transport failure alone does not establish that a commit preceded it.
RetryLabel(retries, transactions, dropped) ==
    IF RecoveryProved(retries, transactions, dropped)
      THEN "acknowledgement_lost_recovered" ELSE "insufficient_evidence"

\* diagnose(bundle)
Diagnose(b) ==
    LET conflicts == {r \in b.receipts : r.status = 409}
        retries == {r \in b.receipts : r.retried}
    IN  IF \/ b.receipts = {} \/ b.rows = {}
           \/ Contradictory(b.rows, b.receipts, b.transactions)
          THEN "insufficient_evidence"
        ELSE IF Duplicated(b.rows) THEN "duplicate_effect"
        ELSE IF b.transactions = {} \/ Unresolved(b.receipts, b.transactions)
          THEN "insufficient_evidence"
        ELSE IF conflicts # {}
          THEN IF \A r \in conflicts : \E t \in b.transactions : Refused(r, t)
                 THEN "conflicting_payload_rejected" ELSE "insufficient_evidence"
        ELSE IF retries # {}
          THEN RetryLabel(retries, b.transactions, b.dropped)
        ELSE IF b.dropped # {} THEN "insufficient_evidence" ELSE "clean"

-----------------------------------------------------------------------------
(* Citations and the gate on a model's proposal                              *)

\* Seeded bug: the drop and the retry are cited, the commit is not.
ProofsNoCommit(b) ==
    LET cited(rs, ts, ds) ==
            [rows |-> b.rows, receipts |-> rs, transactions |-> ts, dropped |-> ds]
    IN  CASE Diagnose(b) = "insufficient_evidence" -> {}
          [] Diagnose(b) = "duplicate_effect" -> {cited({}, {}, {})}
          [] Diagnose(b) = "clean" -> {cited(b.receipts, b.transactions, {})}
          [] Diagnose(b) = "conflicting_payload_rejected" ->
               {[b EXCEPT !.dropped = {}]}
          [] OTHER -> {cited({r}, {}, {d}) : r \in b.receipts, d \in b.dropped}

\* The evidence that diagnose() cites for its label, each as a bundle of its
\* own; where the code cites the first match in the order of the records, any
\* match may be the first.
Proofs(b) ==
    LET label == Diagnose(b)
        cited(rs, ts, ds) ==
            [rows |-> b.rows, receipts |-> rs, transactions |-> ts, dropped |-> ds]
        conflicts == {r \in b.receipts : r.status = 409}
        choices == {f \in [conflicts -> b.transactions] :
                        \A r \in conflicts : Refused(r, f[r])}
    IN  CASE label = "duplicate_effect" -> {cited({}, {}, {})}
          [] label = "clean" -> {cited(b.receipts, b.transactions, {})}
          [] label = "conflicting_payload_rejected" ->
               {cited(conflicts, {f[r] : r \in conflicts}, {}) : f \in choices}
          [] label = "acknowledgement_lost_recovered" ->
               {cited({x[1]}, {x[2]}, {x[3]}) : x \in
                   {y \in b.receipts \X b.transactions \X b.dropped :
                       y[1].retried /\ CommitLost(y[2], y[3]) /\ Recovers(y[1], y[3])}}
          [] OTHER -> {}

Within(p, q) == \A part \in DOMAIN p : p[part] \subseteq q[part]

\* validate_prediction(bundle, prediction): the label stands only if the rules
\* give it too and their whole proof is cited; anything else is an abstention.
Validated(b, label, cited) ==
    IF Within(cited, b) /\ label = Diagnose(b) /\ \E p \in Proofs(b) : Within(p, cited)
      THEN label ELSE "insufficient_evidence"
=============================================================================

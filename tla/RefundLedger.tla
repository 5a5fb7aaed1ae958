---------------------------- MODULE RefundLedger ----------------------------
(* What the simulated payment service of src/agent_reliability/store.py      *)
(* promises its callers: refund() is one atomic step over the refunds and     *)
(* operations tables.  RefundStore shows that the transaction in store.py     *)
(* implements it; RefundService calls it from the tool gateway.               *)
(*                                                                            *)
(* refunds is in rowid order and a refund's id (a fresh uuid4 in the code)    *)
(* is its position.                                                           *)
EXTENDS Integers, Sequences

CONSTANTS
    Orders, Actors,
    Owner,        \* the tenant of an order
    Total,        \* the amount paid for an order
    Amounts,      \* the amounts callers ask for
    Keys,         \* operation keys
    NoKey,        \* the caller passed no operation key
    NoOperation   \* a key has no row in the operations table

VARIABLES refunds, operations

ledgerVars == <<refunds, operations>>

Row == [order_id : Orders, amount : Amounts]
Payload(actor, order, amount) == [actor |-> actor, order |-> order, amount |-> amount]

\* SELECT COALESCE(SUM(amount),0) FROM refunds WHERE order_id=?
SumOf(rows, order) ==
    LET sum[n \in 0..Len(rows)] ==
            IF n = 0 THEN 0
            ELSE sum[n - 1] + IF rows[n].order_id = order THEN rows[n].amount ELSE 0
    IN  sum[Len(rows)]
Spent(order) == SumOf(refunds, order)

Visible(actor, order) == order \in Orders /\ Owner[order] = actor
Journalled(key) == key \in Keys /\ operations[key] # NoOperation

\* How refund() decides, in the order of its checks.
Verdict(actor, order, amount, key) ==
    IF amount <= 0 THEN "invalid"
    ELSE IF ~Visible(actor, order) THEN "denied"
    ELSE IF Journalled(key)
      THEN IF operations[key].payload = Payload(actor, order, amount)
             THEN "replayed" ELSE "conflict"
    ELSE IF Spent(order) + amount > Total[order] THEN "denied" ELSE "refunded"

\* The row a successful refund() answers with.
Answer(verdict, key) ==
    IF verdict = "replayed" THEN operations[key].refund ELSE Len(refunds) + 1

Init ==
    /\ refunds = <<>>
    /\ operations = [k \in Keys |-> NoOperation]

\* The writes of a decided refund(): only a new refund writes, and with a key
\* its operations row goes into the same transaction.
Write(verdict, actor, order, amount, key) ==
    IF verdict = "refunded"
      THEN /\ refunds' = Append(refunds, [order_id |-> order, amount |-> amount])
           /\ operations' =
                IF key \in Keys
                  THEN [operations EXCEPT ![key] =
                          [payload |-> Payload(actor, order, amount),
                           refund |-> Len(refunds) + 1]]
                  ELSE operations
      ELSE UNCHANGED ledgerVars

Refund(actor, order, amount, key) ==
    Write(Verdict(actor, order, amount, key), actor, order, amount, key)

Next ==
    \E actor \in Actors, order \in Orders, amount \in Amounts, key \in Keys \union {NoKey} :
        Refund(actor, order, amount, key)

Spec == Init /\ [][Next]_ledgerVars

-----------------------------------------------------------------------------
Operation == [payload : [actor : Actors, order : Orders, amount : Amounts], refund : Nat]

TypeOK ==
    /\ refunds \in Seq(Row)
    /\ operations \in [Keys -> Operation \union {NoOperation}]

\* Every journalled operation names the row its transaction inserted, for the
\* arguments it was called with, and no two keys share a row: a replay can
\* only ever answer with the caller's own committed refund (refund()).
JournalBacked ==
    /\ \A k \in Keys : operations[k] # NoOperation =>
        LET op == operations[k]
        IN  /\ op.refund \in DOMAIN refunds
            /\ refunds[op.refund].order_id = op.payload.order
            /\ refunds[op.refund].amount = op.payload.amount
            /\ Owner[op.payload.order] = op.payload.actor
    /\ \A j, k \in Keys :
        (operations[j] # NoOperation /\ operations[k] # NoOperation /\ j # k)
            => operations[j].refund # operations[k].refund

\* Refunds of an order never exceed what was paid for it.
BalanceKept == \A o \in Orders : Spent(o) <= Total[o]
=============================================================================

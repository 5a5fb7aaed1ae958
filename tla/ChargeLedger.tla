---------------------------- MODULE ChargeLedger ----------------------------
(* What the charge service promises its clients: every attempt it serves is     *)
(* one atomic step over the ledger, served before anything is said about it,    *)
(* and served once; a service that deduplicates charges an operation once and   *)
(* accepts it again for the same amount only.  An attempt may never be served   *)
(* and a served one may never be answered.                                      *)
EXTENDS Naturals, Sequences

CONSTANT Attempts   \* pairs of a client and the number of its attempt

VARIABLES
    deduplicates,   \* the service knows operation keys
    amount,         \* what each attempt asks for, all under one operation key
    charges,        \* the amounts charged
    served,         \* the decision on each attempt
    receipts        \* what clients were answered

chargeVars == <<deduplicates, amount, charges, served, receipts>>

Unserved == [id |-> 0, accepted |-> FALSE]

Init ==
    /\ deduplicates \in BOOLEAN
    /\ amount \in [Attempts -> Nat]
    /\ charges = <<>>
    /\ served = [a \in Attempts |-> Unserved]
    /\ receipts = {}

Decide(a, id, accepted) ==
    /\ served[a] = Unserved
    /\ served' = [served EXCEPT ![a] = [id |-> id, accepted |-> accepted]]
    /\ UNCHANGED <<deduplicates, amount, receipts>>

\* The operation was charged before, for this amount or for another.
Replay(a) ==
    /\ deduplicates /\ charges # <<>>
    /\ Decide(a, 1, charges[1] = amount[a])
    /\ UNCHANGED charges

Charge(a) ==
    /\ ~(deduplicates /\ charges # <<>>)
    /\ Decide(a, Len(charges) + 1, TRUE)
    /\ charges' = Append(charges, amount[a])

\* A client receives the decision on one of its attempts, and no second one.
Answer(a) ==
    /\ served[a] # Unserved
    /\ \A r \in receipts : r.client # a[1]
    /\ receipts' = receipts \union
         {[client |-> a[1], accepted |-> served[a].accepted,
           id |-> IF served[a].accepted THEN served[a].id ELSE 0]}
    /\ UNCHANGED <<deduplicates, amount, charges, served>>

Next == \E a \in Attempts : Replay(a) \/ Charge(a) \/ Answer(a)

Spec == Init /\ [][Next]_chargeVars
=============================================================================

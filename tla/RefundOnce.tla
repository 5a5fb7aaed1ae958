------------------------------ MODULE RefundOnce ------------------------------
(* What a guarded refund task promises, whatever happens to its calls, its     *)
(* acknowledgements and its workers: the order is refunded at most once, and   *)
(* every receipt shown to a caller is for that refund, after it was committed. *)
EXTENDS Naturals

VARIABLES
    paid,       \* the refund row, or 0
    receipts    \* the rows callers hold receipts for

onceVars == <<paid, receipts>>

Init == paid = 0 /\ receipts = {}

Pay == paid = 0 /\ paid' = 1 /\ UNCHANGED receipts

Acknowledge == paid # 0 /\ receipts' = receipts \union {paid} /\ UNCHANGED paid

Next == Pay \/ Acknowledge

Spec == Init /\ [][Next]_onceVars
=============================================================================

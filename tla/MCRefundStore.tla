---------------------------- MODULE MCRefundStore ----------------------------
(* RefundStore with two clients and two orders of total 3: a keyed refund of  *)
(* 2, the same key with another amount and by another tenant, a second key,   *)
(* keyless refunds and a nonpositive amount.                                  *)
EXTENDS RefundStore, TLC

CONSTANTS c1, c2, nobody, noKey, noOperation, noRequest

Ask(actor, order, amount, key) ==
    [actor |-> actor, order |-> order, amount |-> amount, key |-> key]

MCClients == {c1, c2}
MCOrders == {"order-a", "order-b"}
MCActors == {"tenant-a", "tenant-b"}
MCOwner == [o \in MCOrders |-> IF o = "order-a" THEN "tenant-a" ELSE "tenant-b"]
MCTotal == [o \in MCOrders |-> 3]
MCKeys == {"k1", "k2"}
MCRequests ==
    {Ask("tenant-a", "order-a", 2, "k1"), Ask("tenant-a", "order-a", 1, "k1"),
     Ask("tenant-b", "order-a", 2, "k1"), Ask("tenant-a", "order-a", 1, "k2"),
     Ask("tenant-a", "order-a", 2, noKey), Ask("tenant-b", "order-b", 1, noKey),
     Ask("tenant-a", "order-a", 0, noKey)}
MCAmounts == 0..2
MCSymmetry == Permutations(MCClients)
=============================================================================

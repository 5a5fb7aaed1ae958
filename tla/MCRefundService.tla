--------------------------- MODULE MCRefundService ---------------------------
(* RefundService on one order of each tenant.  The order total is five times  *)
(* the authorised amount, as in store.py and scenarios.py (10000 and 2000).   *)
EXTENDS RefundService

CONSTANTS w1, w2, none, noKey, noOperation

Rule(phase, kind, occurrence, repeat) ==
    [tool |-> "issue_refund", phase |-> phase, kind |-> kind,
     occurrence |-> occurrence, repeat |-> repeat]

\* Every schedule over issue_refund with windows in the first few calls: the
\* retry budget is 3, so a repetition of 3 exhausts it.
MCRules(phase) ==
    {Rule(phase, k, o, r) : k \in Allowed[phase], o \in 1..3, r \in 1..3}
MCSchedules ==
    {<<>>} \union {<<r>> : r \in MCRules("before") \union MCRules("after")}
           \union {<<b, a>> : b \in MCRules("before"), a \in MCRules("after")}
\* Two workers over one fault journal: the first call and the first
\* acknowledgement are disturbed, whichever worker's they are.
SharedSchedules ==
    {<<Rule("before", b, 1, 1), Rule("after", a, 1, 1)>> :
        b \in Allowed["before"], a \in Allowed["after"]}

MCScenarioFaults ==
    {"none", "before_timeout", "rate_limit", "after_commit_timeout",
     "malformed_response", "interrupted_run"}

MCOrders == {"order-a", "order-b"}
MCActors == {"tenant-a", "tenant-b"}
MCOwner == [o \in MCOrders |-> IF o = "order-a" THEN "tenant-a" ELSE "tenant-b"]
MCTotal == [o \in MCOrders |-> 5]
=============================================================================

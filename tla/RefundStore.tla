----------------------------- MODULE RefundStore -----------------------------
(* Store.refund of src/agent_reliability/store.py under concurrent callers.    *)
(* Each client is a connection: it takes SQLite's write lock (BEGIN            *)
(* IMMEDIATE), decides on what it reads, and commits or rolls back.  Clients   *)
(* retry as they please, with or without an operation key; a kill loses the    *)
(* reply of a committed call or rolls back an open one.                        *)
EXTENDS Integers, Sequences

CONSTANTS
    Clients,
    Requests,     \* the calls clients make: records of actor, order, amount, key
    Orders, Actors, Owner, Total, Amounts, Keys, NoKey, NoOperation,
    NoRequest,    \* a client that is not calling
    Nobody,       \* the database is not locked
    MaxRequests,  \* bound: calls over a behaviour
    MaxCrashes    \* bound: kills over a behaviour

ASSUME StoreAssumption ==
    /\ Owner \in [Orders -> Actors]
    /\ Total \in [Orders -> Nat]
    /\ Amounts \subseteq Int
    /\ NoKey \notin Keys
    /\ NoOperation \notin [payload : [actor : Actors, order : Orders, amount : Amounts],
                           refund : Nat]
    /\ Nobody \notin Clients
    /\ NoRequest \notin Requests
    /\ MaxRequests \in Nat /\ MaxCrashes \in Nat
    /\ Requests \subseteq [actor : Actors, order : Orders, amount : Amounts,
                           key : Keys \union {NoKey}]

VARIABLES
    refunds, operations,   \* the database, see RefundLedger
    lock,                  \* who holds the write lock
    pc,                    \* "idle", "waiting", "deciding", "committing", "replying"
    request,               \* a client's current call
    verdict,               \* what its open transaction decided
    refund,                \* the row it will answer with
    answers,               \* successful replies seen by any client
    issued, crashes

database == <<refunds, operations>>
vars == <<refunds, operations, lock, pc, request, verdict, refund, answers, issued, crashes>>

Ledger == INSTANCE RefundLedger

States == {"idle", "waiting", "deciding", "committing", "replying"}
Verdicts == {"none", "invalid", "denied", "conflict", "replayed", "refunded"}

Goto(c, s) == pc' = [pc EXCEPT ![c] = s]

\* The call of client c is over and its locals are gone.
Forget(c) ==
    /\ request' = [request EXCEPT ![c] = NoRequest]
    /\ verdict' = [verdict EXCEPT ![c] = "none"]
    /\ refund' = [refund EXCEPT ![c] = 0]

Remember == UNCHANGED <<request, verdict, refund>>

Init ==
    /\ Ledger!Init
    /\ lock = Nobody
    /\ pc = [c \in Clients |-> "idle"]
    /\ request = [c \in Clients |-> NoRequest]
    /\ verdict = [c \in Clients |-> "none"]
    /\ refund = [c \in Clients |-> 0]
    /\ answers = {}
    /\ issued = 0
    /\ crashes = 0

Call(c) ==
    /\ pc[c] = "idle"
    /\ issued < MaxRequests
    /\ issued' = issued + 1
    /\ request' \in {[request EXCEPT ![c] = r] : r \in Requests}
    /\ Goto(c, "waiting")
    /\ UNCHANGED <<database, lock, verdict, refund, answers, crashes>>

\* A nonpositive amount raises ValueError before refund() connects.
Reject(c) ==
    /\ pc[c] = "waiting"
    /\ request[c].amount <= 0
    /\ Goto(c, "idle")
    /\ Forget(c)
    /\ UNCHANGED <<database, lock, answers, issued, crashes>>

\* Seeded bug: a deferred BEGIN, so the balance and the journal are read
\* before the lock is held.
BeginDeferred(c) ==
    /\ pc[c] = "waiting"
    /\ request[c].amount > 0
    /\ lock' = c
    /\ Goto(c, "deciding")
    /\ UNCHANGED <<database, request, verdict, refund, answers, issued, crashes>>

Begin(c) ==
    /\ pc[c] = "waiting"
    /\ request[c].amount > 0
    /\ lock = Nobody
    /\ lock' = c
    /\ Goto(c, "deciding")
    /\ UNCHANGED <<database, request, verdict, refund, answers, issued, crashes>>

\* Decide as `v`: the selects of the open transaction and what they imply.
DecideAs(c, v) ==
    /\ pc[c] = "deciding"
    /\ verdict' = [verdict EXCEPT ![c] = v]
    /\ refund' = [refund EXCEPT ![c] = Ledger!Answer(v, request[c].key)]
    /\ Goto(c, "committing")
    /\ UNCHANGED <<database, lock, request, answers, issued, crashes>>

\* Seeded bug: any existing order may be refunded by any tenant.
DecideForAnyTenant(c) ==
    LET r == request[c]
    IN  DecideAs(c, Ledger!Verdict(Owner[r.order], r.order, r.amount, r.key))

\* Seeded bug: a prior operation is answered without comparing its payload.
DecideAnyPayload(c) ==
    LET r == request[c]
        v == Ledger!Verdict(r.actor, r.order, r.amount, r.key)
    IN  DecideAs(c, IF v = "conflict" THEN "replayed" ELSE v)

Decide(c) ==
    LET r == request[c]
    IN  DecideAs(c, Ledger!Verdict(r.actor, r.order, r.amount, r.key))

\* Seeded bug: the operations row is left to a later transaction.
CommitWithoutJournal(c) ==
    /\ pc[c] = "committing"
    /\ Ledger!Write(verdict[c], request[c].actor, request[c].order, request[c].amount, NoKey)
    /\ lock' = Nobody
    /\ IF verdict[c] \in {"replayed", "refunded"}
         THEN Goto(c, "replying") /\ Remember
         ELSE Goto(c, "idle") /\ Forget(c)
    /\ UNCHANGED <<answers, issued, crashes>>

\* Leave the `with` block: commit and return the result, or raise Denied or
\* Conflict and roll back.
Commit(c) ==
    /\ pc[c] = "committing"
    /\ Ledger!Write(verdict[c], request[c].actor, request[c].order, request[c].amount,
                    request[c].key)
    /\ lock' = Nobody
    /\ IF verdict[c] \in {"replayed", "refunded"}
         THEN Goto(c, "replying") /\ Remember
         ELSE Goto(c, "idle") /\ Forget(c)
    /\ UNCHANGED <<answers, issued, crashes>>

\* The caller receives the result.
Reply(c) ==
    /\ pc[c] = "replying"
    /\ answers' = answers \union {[request |-> request[c], refund |-> refund[c]]}
    /\ Goto(c, "idle")
    /\ Forget(c)
    /\ UNCHANGED <<database, lock, issued, crashes>>

\* connect(timeout=10) raises "database is locked".
GiveUp(c) ==
    /\ pc[c] = "waiting"
    /\ request[c].amount > 0
    /\ lock \notin {Nobody, c}
    /\ Goto(c, "idle")
    /\ Forget(c)
    /\ UNCHANGED <<database, lock, answers, issued, crashes>>

Kill(c) ==
    /\ pc[c] # "idle"
    /\ crashes < MaxCrashes
    /\ crashes' = crashes + 1
    /\ lock' = IF lock = c THEN Nobody ELSE lock
    /\ Goto(c, "idle")
    /\ Forget(c)
    /\ UNCHANGED <<database, answers, issued>>

Next ==
    \E c \in Clients :
        \/ Call(c) \/ Reject(c) \/ Begin(c) \/ Decide(c) \/ Commit(c) \/ Reply(c)
        \/ GiveUp(c) \/ Kill(c)

Spec == Init /\ [][Next]_vars

-----------------------------------------------------------------------------
\* Type correctness of the tables and of every connection.
TypeOK ==
    /\ Ledger!TypeOK
    /\ lock \in Clients \union {Nobody}
    /\ pc \in [Clients -> States]
    /\ request \in [Clients -> Requests \union {NoRequest}]
    /\ verdict \in [Clients -> Verdicts]
    /\ refund \in [Clients -> Nat]
    /\ answers \subseteq [request : Requests, refund : Nat]
    /\ issued \in 0..MaxRequests
    /\ crashes \in 0..MaxCrashes

\* The operations table stays consistent with the refunds table through every
\* interleaving, rollback and kill (refund()'s single transaction).
JournalBacked == Ledger!JournalBacked

\* Concurrent partial refunds of one order never exceed its total, although
\* the check sums rows other clients are inserting (refund()'s SUM).
BalanceKept == Ledger!BalanceKept

\* Whoever was told "refunded" owns the order, and the row named in the reply
\* was committed for exactly the order and the amount asked for.
AnswersGrounded ==
    \A a \in answers :
        /\ Owner[a.request.order] = a.request.actor
        /\ a.refund \in DOMAIN refunds
        /\ refunds[a.refund] = [order_id |-> a.request.order, amount |-> a.request.amount]

\* One operation key buys one refund: all successful replies for a key name
\* the same row and answer the same arguments, whichever client asked and
\* however often replies were lost (operation_key in refund()).
OnceForEachKey ==
    \A a, b \in answers :
        (a.request.key \in Keys /\ a.request.key = b.request.key) => a = b

\* The transaction implements the atomic refund of RefundLedger.
LedgerSpec == Ledger!Spec
=============================================================================

-------------------------- MODULE RefundStoreProofs --------------------------
(* Theorems about RefundStore for any clients, orders, keys and requests.      *)
EXTENDS RefundStore, SequenceTheorems, WellFoundedInduction, TLAPS

\* The write lock is held exactly by the client inside a transaction.
LockInv ==
    \A c \in Clients : pc[c] \in {"deciding", "committing"} <=> lock = c

\* A client in a call has a request, whose amount passed the first check once
\* a transaction was opened for it.
RequestInv ==
    \A c \in Clients : pc[c] # "idle" => request[c] \in Requests

Decided(r) == Ledger!Verdict(r.actor, r.order, r.amount, r.key)

\* Until it commits, what a client decided is still what the tables imply.
DecisionInv ==
    \A c \in Clients : pc[c] = "committing" =>
        /\ verdict[c] = Decided(request[c])
        /\ refund[c] = Ledger!Answer(verdict[c], request[c].key)

PayloadOf(r) == Ledger!Payload(r.actor, r.order, r.amount)

\* A reply that names the committed row it answers for.
Grounded(r, row) ==
    /\ Owner[r.order] = r.actor
    /\ row \in DOMAIN refunds
    /\ refunds[row] = [order_id |-> r.order, amount |-> r.amount]
    /\ r.key \in Keys =>
        /\ operations[r.key] # NoOperation
        /\ operations[r.key].payload = PayloadOf(r)
        /\ operations[r.key].refund = row

ReplyInv ==
    /\ \A c \in Clients : pc[c] = "replying" => Grounded(request[c], refund[c])
    /\ \A a \in answers : Grounded(a.request, a.refund)

IInv == TypeOK /\ LockInv /\ RequestInv /\ DecisionInv /\ JournalBacked /\ ReplyInv

\* The invariant holds before any call.
LEMMA InitIInv == Init => IInv
  BY StoreAssumption
  DEF Init, IInv, TypeOK, LockInv, RequestInv, DecisionInv, JournalBacked, ReplyInv,
      Ledger!Init, Ledger!TypeOK, Ledger!JournalBacked, States, Verdicts

\* What a transition may do to the tables: nothing, or the write of one client's
\* decided request.
LEMMA TableStep ==
    ASSUME [Next]_vars
    PROVE  UNCHANGED database \/ \E c \in Clients : Commit(c)
  BY DEF Next, vars, database, Call, Reject, Begin, Decide, DecideAs, Reply, GiveUp, Kill

\* A new refund appends its row and, with a key, its operations row.
LEMMA Committed ==
    ASSUME IInv, NEW c \in Clients, Commit(c), verdict[c] = "refunded",
           NEW r, r = request[c]
    PROVE  /\ r \in Requests /\ refund[c] = Len(refunds) + 1
           /\ Owner[r.order] = r.actor /\ r.amount > 0
           /\ r.key \in Keys => operations[r.key] = NoOperation
           /\ refunds' = Append(refunds, [order_id |-> r.order, amount |-> r.amount])
           /\ DOMAIN refunds = 1..Len(refunds) /\ Len(refunds) \in Nat
           /\ DOMAIN refunds' = 1..(Len(refunds) + 1)
           /\ refunds'[Len(refunds) + 1] = [order_id |-> r.order, amount |-> r.amount]
           /\ \A k \in DOMAIN refunds : refunds'[k] = refunds[k]
           /\ refunds' \in Seq(Ledger!Row)
           /\ operations' =
                IF r.key \in Keys
                  THEN [operations EXCEPT ![r.key] =
                          [payload |-> PayloadOf(r), refund |-> Len(refunds) + 1]]
                  ELSE operations
  <1>1. r \in Requests /\ verdict[c] = Decided(r)
        /\ refund[c] = Ledger!Answer(verdict[c], r.key)
    BY DEF IInv, RequestInv, DecisionInv, Commit
  <1>2. /\ Owner[r.order] = r.actor /\ r.amount > 0
        /\ r.key \in Keys => operations[r.key] = NoOperation
    <2>1. r.amount \in Int /\ r.order \in Orders
      BY <1>1, StoreAssumption
    <2>2. Decided(r) = "refunded"
      BY <1>1
    <2>3. Ledger!Visible(r.actor, r.order) /\ ~Ledger!Journalled(r.key) /\ ~(r.amount <= 0)
      BY <2>2 DEF Decided, Ledger!Verdict
    <2> QED
      BY <2>1, <2>3 DEF Ledger!Visible, Ledger!Journalled
  <1>3. refund[c] = Len(refunds) + 1
    BY <1>1 DEF Ledger!Answer
  <1>4. /\ refunds' = Append(refunds, [order_id |-> r.order, amount |-> r.amount])
        /\ operations' =
             IF r.key \in Keys
               THEN [operations EXCEPT ![r.key] =
                       [payload |-> PayloadOf(r), refund |-> Len(refunds) + 1]]
               ELSE operations
    BY DEF Commit, Ledger!Write, PayloadOf
  <1>5. refunds \in Seq(Ledger!Row) /\ [order_id |-> r.order, amount |-> r.amount] \in Ledger!Row
    BY <1>1, StoreAssumption DEF IInv, TypeOK, Ledger!TypeOK, Ledger!Row
  <1>6. /\ DOMAIN refunds = 1..Len(refunds) /\ Len(refunds) \in Nat
        /\ DOMAIN refunds' = 1..(Len(refunds) + 1)
        /\ refunds'[Len(refunds) + 1] = [order_id |-> r.order, amount |-> r.amount]
        /\ \A k \in DOMAIN refunds : refunds'[k] = refunds[k]
        /\ refunds' \in Seq(Ledger!Row)
    <2> DEFINE e == [order_id |-> r.order, amount |-> r.amount]
    <2>1. refunds \in Seq(Ledger!Row) /\ e \in Ledger!Row /\ refunds' = Append(refunds, e)
      BY <1>4, <1>5
    <2> HIDE DEF e
    <2>2. Append(refunds, e) \in Seq(Ledger!Row)
      BY <2>1, AppendProperties
    <2>3. /\ DOMAIN refunds = 1..Len(refunds) /\ Len(refunds) \in Nat
          /\ DOMAIN refunds' = 1..(Len(refunds) + 1)
          /\ refunds'[Len(refunds) + 1] = e
          /\ \A k \in DOMAIN refunds : refunds'[k] = refunds[k]
      BY <2>1
    <2> QED
      BY <2>1, <2>2, <2>3 DEF e
  <1> HIDE DEF Decided
  <1> QED
    BY <1>1, <1>2, <1>3, <1>4, <1>6

\* Any other decision leaves the tables alone.
LEMMA NotCommitted ==
    ASSUME NEW c \in Clients, Commit(c), verdict[c] # "refunded"
    PROVE  UNCHANGED database
  BY DEF Commit, Ledger!Write, Ledger!ledgerVars, database

\* The journal stays backed by committed rows: a new operations row names the
\* row appended with it, which no other key can name.
LEMMA BackedStep ==
    ASSUME IInv, [Next]_vars
    PROVE  JournalBacked'
  <1> USE DEF JournalBacked, Ledger!JournalBacked
  <1>1. CASE UNCHANGED database
    BY <1>1 DEF IInv, database
  <1>2. ASSUME NEW c \in Clients, Commit(c), verdict[c] = "refunded" PROVE JournalBacked'
    <2> DEFINE r == request[c]
    <2>1. operations \in [Keys -> Ledger!Operation \union {NoOperation}]
      BY DEF IInv, TypeOK, Ledger!TypeOK
    <2>2. /\ r \in Requests /\ Owner[r.order] = r.actor
          /\ DOMAIN refunds = 1..Len(refunds) /\ Len(refunds) \in Nat
          /\ DOMAIN refunds' = 1..(Len(refunds) + 1)
          /\ refunds'[Len(refunds) + 1] = [order_id |-> r.order, amount |-> r.amount]
          /\ \A k \in DOMAIN refunds : refunds'[k] = refunds[k]
          /\ operations' =
               IF r.key \in Keys
                 THEN [operations EXCEPT ![r.key] =
                         [payload |-> PayloadOf(r), refund |-> Len(refunds) + 1]]
                 ELSE operations
      BY <1>2, Committed
    <2>3. Ledger!JournalBacked
      BY DEF IInv
    <2> HIDE DEF r
    <2>4. \A k \in Keys : operations'[k] = operations[k]
            \/ /\ k = r.key
               /\ operations'[k] = [payload |-> PayloadOf(r), refund |-> Len(refunds) + 1]
      BY <2>1, <2>2
    <2>5. \A k \in Keys : operations[k] # NoOperation => operations[k].refund \in 1..Len(refunds)
      BY <2>2, <2>3
    <2>6. ASSUME NEW k \in Keys, operations'[k] # NoOperation
          PROVE  /\ operations'[k].refund \in DOMAIN refunds'
                 /\ refunds'[operations'[k].refund].order_id = operations'[k].payload.order
                 /\ refunds'[operations'[k].refund].amount = operations'[k].payload.amount
                 /\ Owner[operations'[k].payload.order] = operations'[k].payload.actor
      <3>1. CASE operations'[k] = operations[k]
        BY <2>2, <2>3, <2>5, <2>6, <3>1
      <3>2. CASE operations'[k] = [payload |-> PayloadOf(r), refund |-> Len(refunds) + 1]
        BY <2>2, <3>2 DEF PayloadOf, Ledger!Payload
      <3> QED
        BY <2>4, <3>1, <3>2
    <2>7. \A j, k \in Keys :
            (operations'[j] # NoOperation /\ operations'[k] # NoOperation /\ j # k)
              => operations'[j].refund # operations'[k].refund
      BY <2>2, <2>3, <2>4, <2>5
    <2> QED
      BY <2>6, <2>7
  <1>3. ASSUME NEW c \in Clients, Commit(c), verdict[c] # "refunded" PROVE JournalBacked'
    BY <1>1, <1>3, NotCommitted
  <1> QED
    BY <1>1, <1>2, <1>3, TableStep

\* A grounded reply stays grounded: rows are never changed and a key that has
\* an operation keeps it.
LEMMA GroundedStep ==
    ASSUME IInv, [Next]_vars, NEW r \in Requests, NEW row \in Nat, Grounded(r, row)
    PROVE  Grounded(r, row)'
  <1>1. CASE UNCHANGED database
    BY <1>1 DEF Grounded, database
  <1>2. ASSUME NEW c \in Clients, Commit(c), verdict[c] = "refunded" PROVE Grounded(r, row)'
    <2>1. operations \in [Keys -> Ledger!Operation \union {NoOperation}]
      BY DEF IInv, TypeOK, Ledger!TypeOK
    <2>2. /\ request[c].key \in Keys => operations[request[c].key] = NoOperation
          /\ DOMAIN refunds = 1..Len(refunds) /\ Len(refunds) \in Nat
          /\ DOMAIN refunds' = 1..(Len(refunds) + 1)
          /\ \A k \in DOMAIN refunds : refunds'[k] = refunds[k]
          /\ operations' =
               IF request[c].key \in Keys
                 THEN [operations EXCEPT ![request[c].key] =
                         [payload |-> PayloadOf(request[c]), refund |-> Len(refunds) + 1]]
                 ELSE operations
      BY <1>2, Committed
    <2>3. r.key \in Keys => operations'[r.key] = operations[r.key]
      BY <2>1, <2>2 DEF Grounded
    <2> QED
      BY <2>2, <2>3 DEF Grounded
  <1>3. ASSUME NEW c \in Clients, Commit(c), verdict[c] # "refunded" PROVE Grounded(r, row)'
    BY <1>1, <1>3, NotCommitted
  <1> QED
    BY <1>1, <1>2, <1>3, TableStep

\* A client that commits can ground its reply.
LEMMA CommitGrounded ==
    ASSUME IInv, NEW c \in Clients, Commit(c), verdict[c] \in {"replayed", "refunded"}
    PROVE  Grounded(request[c], refund[c])'
  <1> DEFINE r == request[c]
  <1>1. /\ r \in Requests /\ verdict[c] = Decided(r)
        /\ refund[c] = Ledger!Answer(verdict[c], r.key)
        /\ UNCHANGED <<request, refund>>
    BY DEF IInv, RequestInv, DecisionInv, Commit, Remember
  <1>2. operations \in [Keys -> Ledger!Operation \union {NoOperation}]
    BY DEF IInv, TypeOK, Ledger!TypeOK
  <1>3. CASE verdict[c] = "refunded"
    <2>1. /\ refund[c] = Len(refunds) + 1 /\ Owner[r.order] = r.actor
          /\ DOMAIN refunds' = 1..(Len(refunds) + 1) /\ Len(refunds) \in Nat
          /\ refunds'[Len(refunds) + 1] = [order_id |-> r.order, amount |-> r.amount]
          /\ operations' =
               IF r.key \in Keys
                 THEN [operations EXCEPT ![r.key] =
                         [payload |-> PayloadOf(r), refund |-> Len(refunds) + 1]]
                 ELSE operations
      BY <1>3, Committed
    <2>2. r.key \in Keys =>
            operations'[r.key] = [payload |-> PayloadOf(r), refund |-> Len(refunds) + 1]
      BY <1>2, <2>1
    <2>3. PayloadOf(r) \in [actor : Actors, order : Orders, amount : Amounts]
      BY <1>1, StoreAssumption DEF PayloadOf, Ledger!Payload
    <2>4. r.key \in Keys => operations'[r.key] # NoOperation
      BY <2>1, <2>2, <2>3, StoreAssumption
    <2> HIDE DEF r
    <2>5. Grounded(r, refund[c])'
      BY <1>1, <2>1, <2>2, <2>4 DEF Grounded, PayloadOf, Ledger!Payload, r
    <2> QED
      BY <2>5 DEF r
  <1>4. CASE verdict[c] = "replayed"
    <2>1. /\ Owner[r.order] = r.actor /\ r.key \in Keys /\ operations[r.key] # NoOperation
          /\ operations[r.key].payload = PayloadOf(r)
      BY <1>1, <1>4
      DEF Decided, Ledger!Verdict, Ledger!Visible, Ledger!Journalled, PayloadOf
    <2>2. refund[c] = operations[r.key].refund
      BY <1>1, <1>4 DEF Ledger!Answer
    <2>3. /\ refund[c] \in DOMAIN refunds
          /\ refunds[refund[c]].order_id = r.order /\ refunds[refund[c]].amount = r.amount
      BY <2>1, <2>2 DEF IInv, JournalBacked, Ledger!JournalBacked, PayloadOf, Ledger!Payload
    <2>4. refunds \in Seq(Ledger!Row)
      BY DEF IInv, TypeOK, Ledger!TypeOK
    <2>5. refunds[refund[c]] = [order_id |-> r.order, amount |-> r.amount]
      <3>1. refunds[refund[c]] \in Ledger!Row
        BY <2>3, <2>4, ElementOfSeq
      <3> QED
        BY <2>3, <3>1 DEF Ledger!Row
    <2>6. UNCHANGED database
      BY <1>4, NotCommitted
    <2> QED
      BY <1>1, <2>1, <2>2, <2>3, <2>5, <2>6 DEF Grounded, PayloadOf, Ledger!Payload, database
  <1> QED
    BY <1>3, <1>4

-----------------------------------------------------------------------------
\* Every step keeps the types.
LEMMA TypeStep == IInv /\ [Next]_vars => TypeOK'
  <1> SUFFICES ASSUME IInv, [Next]_vars PROVE TypeOK'
    OBVIOUS
  <1>1. Ledger!TypeOK'
    <2>1. CASE UNCHANGED database
      BY <2>1 DEF database, IInv, TypeOK, Ledger!TypeOK
    <2>2. ASSUME NEW c \in Clients, Commit(c), verdict[c] = "refunded" PROVE Ledger!TypeOK'
      <3>1. /\ request[c] \in Requests /\ Len(refunds) \in Nat
            /\ refunds' \in Seq(Ledger!Row)
            /\ operations' =
                 IF request[c].key \in Keys
                   THEN [operations EXCEPT ![request[c].key] =
                           [payload |-> PayloadOf(request[c]), refund |-> Len(refunds) + 1]]
                   ELSE operations
        BY <2>2, Committed
      <3>2. [payload |-> PayloadOf(request[c]), refund |-> Len(refunds) + 1] \in Ledger!Operation
        BY <3>1, StoreAssumption DEF PayloadOf, Ledger!Payload, Ledger!Operation
      <3>3. operations' \in [Keys -> Ledger!Operation \union {NoOperation}]
        BY <3>1, <3>2 DEF IInv, TypeOK, Ledger!TypeOK
      <3> QED
        BY <3>1, <3>3 DEF Ledger!TypeOK
    <2>3. ASSUME NEW c \in Clients, Commit(c), verdict[c] # "refunded" PROVE Ledger!TypeOK'
      BY <2>1, <2>3, NotCommitted
    <2> QED
      BY <2>1, <2>2, <2>3, TableStep
  <1> DEFINE Locals ==
        /\ lock \in Clients \union {Nobody}
        /\ pc \in [Clients -> States]
        /\ request \in [Clients -> Requests \union {NoRequest}]
        /\ verdict \in [Clients -> Verdicts]
        /\ refund \in [Clients -> Nat]
        /\ answers \subseteq [request : Requests, refund : Nat]
        /\ issued \in 0..MaxRequests
        /\ crashes \in 0..MaxCrashes
  <1>2. Locals'
    <2> USE StoreAssumption DEF IInv, TypeOK, States, Verdicts, Goto, Forget, Remember
    <2>1. CASE UNCHANGED vars
      BY <2>1 DEF vars
    <2>2. ASSUME NEW c \in Clients, Call(c) PROVE Locals'
      BY <2>2 DEF Call
    <2>3. ASSUME NEW c \in Clients, Reject(c) PROVE Locals'
      BY <2>3 DEF Reject
    <2>4. ASSUME NEW c \in Clients, Begin(c) PROVE Locals'
      BY <2>4 DEF Begin
    <2>5. ASSUME NEW c \in Clients, Decide(c) PROVE Locals'
      <3> DEFINE v == Decided(request[c])
      <3>1. v \in Verdicts
        BY DEF Decided, Ledger!Verdict
      <3>2. Ledger!Answer(v, request[c].key) \in Nat
        <4>1. CASE v = "replayed"
          <5>1. Ledger!Journalled(request[c].key)
            BY <4>1 DEF Decided, Ledger!Verdict
          <5>2. operations[request[c].key] \in Ledger!Operation
            BY <5>1 DEF Ledger!Journalled, Ledger!TypeOK
          <5> QED
            BY <4>1, <5>2 DEF Ledger!Answer, Ledger!Operation
        <4>2. CASE v # "replayed"
          BY <4>2 DEF Ledger!Answer, Ledger!TypeOK
        <4> QED
          BY <4>1, <4>2
      <3>3. verdict' = [verdict EXCEPT ![c] = v]
            /\ refund' = [refund EXCEPT ![c] = Ledger!Answer(v, request[c].key)]
        BY <2>5 DEF Decide, DecideAs, Decided
      <3>4. pc' = [pc EXCEPT ![c] = "committing"]
            /\ UNCHANGED <<lock, request, answers, issued, crashes>>
        BY <2>5 DEF Decide, DecideAs
      <3> HIDE DEF v
      <3> QED
        BY <3>1, <3>2, <3>3, <3>4
    <2>6. ASSUME NEW c \in Clients, Commit(c) PROVE Locals'
      BY <2>6 DEF Commit
    <2>7. ASSUME NEW c \in Clients, Reply(c) PROVE Locals'
      BY <2>7 DEF Reply, RequestInv
    <2>8. ASSUME NEW c \in Clients, GiveUp(c) PROVE Locals'
      BY <2>8 DEF GiveUp
    <2>9. ASSUME NEW c \in Clients, Kill(c) PROVE Locals'
      BY <2>9 DEF Kill
    <2> QED
      BY <2>1, <2>2, <2>3, <2>4, <2>5, <2>6, <2>7, <2>8, <2>9 DEF Next
  <1> QED
    BY <1>1, <1>2 DEF TypeOK

\* Every step keeps the lock with the client inside its transaction.
LEMMA LockStep == IInv /\ [Next]_vars => (LockInv /\ RequestInv)'
  <1> SUFFICES ASSUME IInv, [Next]_vars PROVE (LockInv /\ RequestInv)'
    OBVIOUS
  <1> USE StoreAssumption
      DEF IInv, TypeOK, LockInv, RequestInv, States, Goto, Forget, Remember
  <1>1. CASE UNCHANGED vars
    BY <1>1 DEF vars
  <1>2. ASSUME NEW c \in Clients, Call(c) \/ Reject(c) \/ Begin(c) PROVE (LockInv /\ RequestInv)'
    BY <1>2 DEF Call, Reject, Begin
  <1>3. ASSUME NEW c \in Clients, Decide(c) \/ Commit(c) PROVE (LockInv /\ RequestInv)'
    BY <1>3 DEF Decide, DecideAs, Commit
  <1>4. ASSUME NEW c \in Clients, Reply(c) \/ GiveUp(c) \/ Kill(c) PROVE (LockInv /\ RequestInv)'
    BY <1>4 DEF Reply, GiveUp, Kill
  <1> QED
    BY <1>1, <1>2, <1>3, <1>4 DEF Next

\* Nobody writes the tables while a client holds the lock, so its decision
\* stays the one the tables imply.
LEMMA DecisionStep == IInv /\ [Next]_vars => DecisionInv'
  <1> SUFFICES ASSUME IInv, [Next]_vars, NEW c \in Clients, pc'[c] = "committing"
               PROVE  /\ verdict'[c] = Decided(request[c])'
                      /\ refund'[c] = Ledger!Answer(verdict[c], request[c].key)'
    BY DEF DecisionInv
  <1> USE DEF Goto, Forget, Remember
  <1>1. pc \in [Clients -> States] /\ verdict \in [Clients -> Verdicts]
        /\ refund \in [Clients -> Nat] /\ LockInv
    BY DEF IInv, TypeOK
  <1>2. CASE Decide(c)
    BY <1>1, <1>2
    DEF Decide, DecideAs, Decided, database, Ledger!Verdict, Ledger!Answer, Ledger!Visible,
        Ledger!Journalled, Ledger!Spent
  <1>3. CASE ~Decide(c)
    <2>1. pc[c] = "committing" /\ UNCHANGED database
          /\ verdict'[c] = verdict[c] /\ refund'[c] = refund[c] /\ request'[c] = request[c]
      <3>1. CASE UNCHANGED vars
        BY <3>1 DEF vars, database
      <3>2. ASSUME NEW d \in Clients, Commit(d) PROVE FALSE
        BY <1>1, <3>2, StoreAssumption DEF Commit, LockInv
      <3>3. ASSUME NEW d \in Clients,
                   \/ Call(d) \/ Reject(d) \/ Begin(d) \/ Reply(d) \/ GiveUp(d) \/ Kill(d)
            PROVE  /\ pc[c] = "committing" /\ UNCHANGED database
                   /\ verdict'[c] = verdict[c] /\ refund'[c] = refund[c]
                   /\ request'[c] = request[c]
        BY <1>1, <3>3
        DEF IInv, TypeOK, Call, Reject, Begin, Reply, GiveUp, Kill, database
      <3>4. ASSUME NEW d \in Clients, Decide(d)
            PROVE  /\ pc[c] = "committing" /\ UNCHANGED database
                   /\ verdict'[c] = verdict[c] /\ refund'[c] = refund[c]
                   /\ request'[c] = request[c]
        BY <1>1, <1>3, <3>4 DEF Decide, DecideAs, database
      <3> QED
        BY <3>1, <3>2, <3>3, <3>4 DEF Next
    <2>2. verdict[c] = Decided(request[c]) /\ refund[c] = Ledger!Answer(verdict[c], request[c].key)
      BY <2>1 DEF IInv, DecisionInv
    <2> QED
      BY <2>1, <2>2
      DEF Decided, database, Ledger!Verdict, Ledger!Answer, Ledger!Visible,
          Ledger!Journalled, Ledger!Spent
  <1> QED
    BY <1>2, <1>3

\* A reply on its way names a row that is committed.
LEMMA ReplyStep == IInv /\ [Next]_vars => ReplyInv'
  <1> SUFFICES ASSUME IInv, [Next]_vars PROVE ReplyInv'
    OBVIOUS
  <1>1. ASSUME NEW c \in Clients, pc'[c] = "replying" PROVE Grounded(request[c], refund[c])'
    <2>1. CASE Commit(c)
      <3>1. verdict[c] \in {"replayed", "refunded"}
        BY <1>1, <2>1 DEF Commit, Goto, IInv, TypeOK
      <3> QED
        BY <2>1, <3>1, CommitGrounded
    <2>2. CASE ~Commit(c)
      <3>1. pc[c] = "replying" /\ request'[c] = request[c] /\ refund'[c] = refund[c]
        BY <1>1, <2>2
        DEF IInv, TypeOK, Next, vars, Call, Reject, Begin, Decide, DecideAs, Commit, Reply,
            GiveUp, Kill, Goto, Forget, Remember
      <3>2. Grounded(request[c], refund[c]) /\ request[c] \in Requests /\ refund[c] \in Nat
        BY <3>1 DEF IInv, ReplyInv, RequestInv, TypeOK
      <3> DEFINE r == request[c]
                 row == refund[c]
      <3>3. Grounded(r, row) /\ r \in Requests /\ row \in Nat
        BY <3>2
      <3>4. (Grounded(request[c], refund[c]))'
             <=> /\ Owner[r.order] = r.actor
                 /\ row \in DOMAIN refunds'
                 /\ refunds'[row] = [order_id |-> r.order, amount |-> r.amount]
                 /\ r.key \in Keys =>
                     /\ operations'[r.key] # NoOperation
                     /\ operations'[r.key].payload = PayloadOf(r)
                     /\ operations'[r.key].refund = row
        BY <3>1 DEF Grounded, PayloadOf, Ledger!Payload
      <3> HIDE DEF r, row
      <3>5. \A q \in Requests, n \in Nat : Grounded(q, n) => Grounded(q, n)'
        BY GroundedStep
      <3>6. /\ Owner[r.order] = r.actor
            /\ row \in DOMAIN refunds'
            /\ refunds'[row] = [order_id |-> r.order, amount |-> r.amount]
            /\ r.key \in Keys =>
                 /\ operations'[r.key] # NoOperation
                 /\ operations'[r.key].payload = PayloadOf(r)
                 /\ operations'[r.key].refund = row
        <4> DEFINE P(q, n) ==
              /\ Owner[q.order] = q.actor
              /\ n \in DOMAIN refunds'
              /\ refunds'[n] = [order_id |-> q.order, amount |-> q.amount]
              /\ q.key \in Keys =>
                   /\ operations'[q.key] # NoOperation
                   /\ operations'[q.key].payload = PayloadOf(q)
                   /\ operations'[q.key].refund = n
        <4>1. \A q \in Requests, n \in Nat : Grounded(q, n) => P(q, n)
          BY <3>5 DEF Grounded, PayloadOf, Ledger!Payload
        <4>2. P(r, row)
          BY <3>3, <4>1
        <4> QED
          BY <4>2
      <3> QED
        BY <3>4, <3>6
    <2> QED
      BY <2>1, <2>2
  <1>2. ASSUME NEW a \in answers' PROVE Grounded(a.request, a.refund)'
    <2>1. a \in answers \/ \E c \in Clients :
            /\ Reply(c) /\ a = [request |-> request[c], refund |-> refund[c]]
      BY <1>2
      DEF Next, vars, Call, Reject, Begin, Decide, DecideAs, Commit, Reply, GiveUp, Kill
    <2>2. Grounded(a.request, a.refund) /\ a.request \in Requests /\ a.refund \in Nat
      BY <2>1 DEF IInv, ReplyInv, TypeOK, RequestInv, Reply
    <2> QED
      BY <2>2, GroundedStep
  <1> QED
    BY <1>1, <1>2 DEF ReplyInv

\* The inductive invariant of the refund transaction.
THEOREM Invariance == Spec => []IInv
  <1>1. Init => IInv
    BY InitIInv
  <1>2. IInv /\ [Next]_vars => IInv'
    BY TypeStep, LockStep, DecisionStep, BackedStep, ReplyStep DEF IInv
  <1> QED
    BY <1>1, <1>2, PTL DEF Spec

\* Type correctness of the tables and of every connection.
THEOREM TypeCorrect == Spec => []TypeOK
  BY Invariance, PTL DEF IInv

\* The operations table always names committed rows of its callers, one row
\* for each key.
THEOREM Backed == Spec => []JournalBacked
  BY Invariance, PTL DEF IInv

\* Every "refunded" reply is the truth about a committed row of its caller.
THEOREM Answers == Spec => []AnswersGrounded
  <1>1. IInv => AnswersGrounded
    BY DEF IInv, ReplyInv, Grounded, AnswersGrounded
  <1> QED
    BY <1>1, Invariance, PTL

\* One key buys one refund, for any clients, kills and lost replies.
THEOREM Once == Spec => []OnceForEachKey
  <1>1. IInv => OnceForEachKey
    <2> SUFFICES ASSUME IInv, NEW a \in answers, NEW b \in answers,
                        a.request.key \in Keys, a.request.key = b.request.key
                 PROVE  a = b
      BY DEF OnceForEachKey
    <2>1. Grounded(a.request, a.refund) /\ Grounded(b.request, b.refund)
      BY DEF IInv, ReplyInv
    <2>2. a.refund = b.refund /\ PayloadOf(a.request) = PayloadOf(b.request)
      BY <2>1 DEF Grounded
    <2>3. /\ a.request \in [actor : Actors, order : Orders, amount : Amounts,
                             key : Keys \union {NoKey}]
          /\ b.request \in [actor : Actors, order : Orders, amount : Amounts,
                             key : Keys \union {NoKey}]
          /\ a \in [request : Requests, refund : Nat] /\ b \in [request : Requests, refund : Nat]
      BY StoreAssumption DEF IInv, TypeOK
    <2>4. /\ a.request.actor = b.request.actor /\ a.request.order = b.request.order
          /\ a.request.amount = b.request.amount
      BY <2>2 DEF PayloadOf, Ledger!Payload
    <2>5. a.request = b.request
      BY <2>3, <2>4
    <2> QED
      BY <2>2, <2>3, <2>5
  <1> QED
    BY <1>1, Invariance, PTL

\* The transaction refines the atomic refund.
THEOREM Refinement == Spec => LedgerSpec
  <1>1. Init => Ledger!Init
    BY DEF Init
  <1>2. IInv /\ [Next]_vars => [Ledger!Next]_(Ledger!ledgerVars)
    <2> SUFFICES ASSUME IInv, [Next]_vars PROVE [Ledger!Next]_(Ledger!ledgerVars)
      OBVIOUS
    <2>1. CASE UNCHANGED database
      BY <2>1 DEF database, Ledger!ledgerVars
    <2>2. ASSUME NEW c \in Clients, Commit(c) PROVE Ledger!Next
      <3>1. /\ request[c] \in Requests /\ verdict[c] = Decided(request[c])
        BY <2>2 DEF IInv, RequestInv, DecisionInv, Commit
      <3>2. Ledger!Refund(request[c].actor, request[c].order, request[c].amount, request[c].key)
        BY <2>2, <3>1 DEF Commit, Ledger!Refund, Decided
      <3> QED
        BY <3>1, <3>2, StoreAssumption DEF Ledger!Next
    <2> QED
      BY <2>1, <2>2, TableStep
  <1> QED
    BY <1>1, <1>2, Invariance, PTL DEF Spec, LedgerSpec, Ledger!Spec

-----------------------------------------------------------------------------
(* The balance.  SumOf is a recursive function over the rows: what it adds up  *)
(* to is shown from a least counterexample, which needs no induction scheme.   *)

\* A nonempty set of numbers has a least one: induction without a predicate.
LEMMA Least ==
    ASSUME NEW T \in SUBSET Nat, T # {}
    PROVE  \E n \in T : \A m \in T : n <= m
  <1>1. IsWellFoundedOn(OpToRel(<, Nat), Nat)
    BY NatLessThanWellFounded
  <1> DEFINE R == OpToRel(<, Nat)
  <1>2. \A x, y \in Nat : x < y => <<x, y>> \in R
    BY DEF OpToRel
  <1>3. IsWellFoundedOn(R, Nat)
    BY <1>1
  <1> HIDE DEF R
  <1>4. PICK n \in T : \A m \in T : <<m, n>> \notin R
    BY <1>3, WFMin
  <1>5. \A m \in T : m \in Nat /\ n \in Nat
    OBVIOUS
  <1>6. \A m \in T : ~(m < n)
    BY <1>2, <1>4, <1>5
  <1> QED
    BY <1>5, <1>6

\* The running sums of a row of amounts.
Runs(g, amounts, N) == g = [n \in 0..N |-> IF n = 0 THEN 0 ELSE g[n - 1] + amounts[n]]

\* They exist, and are integers.
LEMMA RunsExist ==
    ASSUME NEW N \in Nat, NEW amounts \in [1..N -> Int]
    PROVE  \E g \in [0..N -> Int] : Runs(g, amounts, N)
  <1> DEFINE Bad == {k \in 0..N : ~ \E g \in [0..k -> Int] : Runs(g, amounts, k)}
  <1>1. SUFFICES ASSUME Bad # {} PROVE FALSE
    <2>1. N \in 0..N
      OBVIOUS
    <2> QED
      BY <1>1, <2>1
  <1>2. PICK k \in Bad : \A m \in Bad : k <= m
    <2>1. Bad \in SUBSET Nat
      OBVIOUS
    <2> HIDE DEF Bad
    <2> QED
      BY <1>1, <2>1, Least
  <1>3. k \in 0..N /\ ~ \E g \in [0..k -> Int] : Runs(g, amounts, k)
    OBVIOUS
  <1>4. CASE k = 0
    <2> DEFINE g == [n \in 0..0 |-> 0]
    <2>1. g \in [0..k -> Int] /\ Runs(g, amounts, k)
      BY <1>4 DEF Runs
    <2> QED
      BY <1>3, <2>1
  <1>5. CASE k # 0
    <2>1. k - 1 \in 0..N /\ k - 1 \notin Bad
      BY <1>2, <1>3, <1>5
    <2>2. PICK h \in [0..(k - 1) -> Int] : Runs(h, amounts, k - 1)
      BY <2>1
    <2> DEFINE g == [n \in 0..k |-> IF n = k THEN h[k - 1] + amounts[k] ELSE h[n]]
    <2>3. h[k - 1] + amounts[k] \in Int
      BY <1>3, <1>5
    <2>4. g \in [0..k -> Int]
      BY <1>3, <1>5, <2>3
    <2>5. \A n \in 0..(k - 1) : h[n] = IF n = 0 THEN 0 ELSE h[n - 1] + amounts[n]
      BY <2>2 DEF Runs
    <2>6. \A n \in 0..k : g[n] = IF n = 0 THEN 0 ELSE g[n - 1] + amounts[n]
      BY <1>3, <1>5, <2>5
    <2>7. Runs(g, amounts, k)
      <3> HIDE DEF g
      <3> QED
        BY <2>4, <2>6 DEF Runs
    <2> QED
      BY <1>3, <2>4, <2>7
  <1> QED
    BY <1>4, <1>5

\* Two rows of amounts begin with the same N.
Same(a, b, N) == \A n \in 1..N : a[n] = b[n]

\* They are determined up to the shorter row.
LEMMA RunsAgree ==
    ASSUME NEW N \in Nat, NEW M \in Nat, N <= M, NEW a, NEW b, Same(a, b, N),
           NEW g, Runs(g, a, N), NEW h, Runs(h, b, M)
    PROVE  \A n \in 0..N : g[n] = h[n]
  <1> DEFINE Bad == {k \in 0..N : g[k] # h[k]}
  <1>1. SUFFICES ASSUME Bad # {} PROVE FALSE
    OBVIOUS
  <1>2. PICK k \in Bad : \A m \in Bad : k <= m
    <2>1. Bad \in SUBSET Nat
      OBVIOUS
    <2> HIDE DEF Bad
    <2> QED
      BY <1>1, <2>1, Least
  <1>3. k \in 0..N /\ g[k] # h[k]
    OBVIOUS
  <1>4. /\ g[k] = IF k = 0 THEN 0 ELSE g[k - 1] + a[k]
        /\ h[k] = IF k = 0 THEN 0 ELSE h[k - 1] + b[k]
    BY <1>3 DEF Runs
  <1>6. k # 0 => a[k] = b[k]
    BY <1>3 DEF Same
  <1>5. k # 0 => k - 1 \in 0..N /\ k - 1 \notin Bad
    BY <1>2, <1>3
  <1> QED
    BY <1>3, <1>4, <1>5, <1>6

\* What a row contributes to the balance of an order.
Part(row, order) == IF row.order_id = order THEN row.amount ELSE 0

\* The sum over the rows of an order is a running sum of their parts.
LEMMA SumRuns ==
    ASSUME NEW rows, Len(rows) \in Nat, NEW order,
           \A n \in 1..Len(rows) : Part(rows[n], order) \in Int
    PROVE  \E g \in [0..Len(rows) -> Int] :
              /\ Runs(g, [n \in 1..Len(rows) |-> Part(rows[n], order)], Len(rows))
              /\ Ledger!SumOf(rows, order) = g[Len(rows)]
  <1> DEFINE N == Len(rows)
             a == [n \in 1..N |-> Part(rows[n], order)]
             IsSum(g) == g = [n \in 0..N |->
                                IF n = 0 THEN 0
                                ELSE g[n - 1] + IF rows[n].order_id = order
                                                  THEN rows[n].amount ELSE 0]
             sum == CHOOSE g : IsSum(g)
  <1>1. Ledger!SumOf(rows, order) = sum[N]
    BY DEF Ledger!SumOf
  <1>2. PICK g \in [0..N -> Int] : Runs(g, a, N)
    <2>1. a \in [1..N -> Int]
      OBVIOUS
    <2> HIDE DEF a
    <2> QED
      BY <2>1, RunsExist
  <1>3. \A h : Runs(h, a, N) <=> IsSum(h)
    <2> SUFFICES ASSUME NEW h PROVE Runs(h, a, N) <=> IsSum(h)
      OBVIOUS
    <2>1. \A n \in 0..N : (IF n = 0 THEN 0 ELSE h[n - 1] + a[n]) =
                          IF n = 0 THEN 0
                          ELSE h[n - 1] + IF rows[n].order_id = order THEN rows[n].amount ELSE 0
      BY DEF Part
    <2> HIDE DEF a
    <2>2. [n \in 0..N |-> IF n = 0 THEN 0 ELSE h[n - 1] + a[n]] =
          [n \in 0..N |-> IF n = 0 THEN 0
                          ELSE h[n - 1] + IF rows[n].order_id = order THEN rows[n].amount ELSE 0]
      BY <2>1
    <2> QED
      BY <2>2 DEF Runs
  <1>4. IsSum(sum)
    <2> HIDE DEF IsSum
    <2> QED
      BY <1>2, <1>3
  <1>5. Runs(sum, a, N)
    BY <1>3, <1>4
  <1>6. \A n \in 0..N : g[n] = sum[n]
    <2>1. Same(a, a, N) /\ N <= N /\ N \in Nat
      BY DEF Same
    <2> HIDE DEF a, sum, N
    <2> QED
      BY <1>2, <1>5, <2>1, RunsAgree
  <1> HIDE DEF sum
  <1>7. Ledger!SumOf(rows, order) = g[N]
    BY <1>1, <1>6
  <1> QED
    BY <1>2, <1>7

\* No rows, nothing spent.
LEMMA SumEmpty == ASSUME NEW order PROVE Ledger!SumOf(<<>>, order) = 0
  <1> DEFINE none == <<>>
  <1>1. Len(none) = 0
    OBVIOUS
  <1> HIDE DEF none
  <1>2. Len(none) \in Nat /\ \A n \in 1..Len(none) : Part(none[n], order) \in Int
    BY <1>1
  <1>3. PICK g \in [0..Len(none) -> Int] :
          /\ Runs(g, [n \in 1..Len(none) |-> Part(none[n], order)], Len(none))
          /\ Ledger!SumOf(none, order) = g[Len(none)]
    BY <1>2, SumRuns
  <1>4. g[0] = 0
    BY <1>1, <1>3 DEF Runs
  <1> QED
    BY <1>1, <1>3, <1>4 DEF none

\* A further row adds its part.
LEMMA SumAppend ==
    ASSUME NEW S, NEW rows \in Seq(S), NEW row \in S, NEW order,
           \A r \in S : Part(r, order) \in Int
    PROVE  /\ Ledger!SumOf(rows, order) \in Int
           /\ Ledger!SumOf(Append(rows, row), order)
                = Ledger!SumOf(rows, order) + Part(row, order)
  <1> DEFINE N == Len(rows)
             more == Append(rows, row)
             a == [n \in 1..N |-> Part(rows[n], order)]
             b == [n \in 1..Len(more) |-> Part(more[n], order)]
  <1>1. /\ N \in Nat /\ Len(more) = N + 1 /\ more[N + 1] = row
        /\ \A n \in 1..N : more[n] = rows[n] /\ rows[n] \in S
        /\ more \in Seq(S)
    BY AppendProperties
  <1>2. \A n \in 1..(N + 1) : Part(more[n], order) \in Int
    BY <1>1
  <1> HIDE DEF more
  <1>9. /\ Len(more) \in Nat /\ N \in Nat /\ N <= Len(more)
        /\ \A n \in 1..Len(more) : Part(more[n], order) \in Int
    BY <1>1, <1>2
  <1>3. PICK g \in [0..N -> Int] : Runs(g, a, N) /\ Ledger!SumOf(rows, order) = g[N]
    BY <1>1, SumRuns
  <1>4. PICK h \in [0..Len(more) -> Int] :
          Runs(h, b, Len(more)) /\ Ledger!SumOf(more, order) = h[Len(more)]
    BY <1>9, SumRuns
  <1>5. Same(a, b, N)
    BY <1>1 DEF Same
  <1>6. b[N + 1] = Part(row, order)
    BY <1>1
  <1> HIDE DEF a, b
  <1>7. \A n \in 0..N : g[n] = h[n]
    <2> DEFINE M == Len(more)
    <2>1. N \in Nat /\ M \in Nat /\ N <= M
      BY <1>9
    <2>2. Runs(g, a, N)
      BY <1>3
    <2>3. Runs(h, b, M)
      BY <1>4
    <2> HIDE DEF N, M
    <2> QED
      BY <1>5, <2>1, <2>2, <2>3, RunsAgree
  <1>8. h[N + 1] = h[N] + b[N + 1]
    BY <1>1, <1>4 DEF Runs
  <1> QED
    BY <1>1, <1>3, <1>4, <1>6, <1>7, <1>8 DEF more

\* A ledger written by refund() alone never pays more than an order's total.
LEMMA LedgerBalance == Ledger!Spec => []BalanceKept
  <1> DEFINE Inv == Ledger!TypeOK /\ BalanceKept
  <1>1. Ledger!Init => Inv
    <2> SUFFICES ASSUME Ledger!Init PROVE Inv
      OBVIOUS
    <2>1. Ledger!TypeOK
      BY DEF Ledger!Init, Ledger!TypeOK
    <2>2. ASSUME NEW o \in Orders PROVE Ledger!Spent(o) <= Total[o]
      BY SumEmpty, StoreAssumption DEF Ledger!Init, Ledger!Spent
    <2> QED
      BY <2>1, <2>2 DEF BalanceKept, Ledger!BalanceKept
  <1>2. Inv /\ [Ledger!Next]_(Ledger!ledgerVars) => Inv'
    <2> SUFFICES ASSUME Inv, [Ledger!Next]_(Ledger!ledgerVars) PROVE Inv'
      OBVIOUS
    <2>1. CASE UNCHANGED Ledger!ledgerVars
      BY <2>1 DEF Ledger!ledgerVars, Ledger!TypeOK, BalanceKept, Ledger!BalanceKept, Ledger!Spent
    <2>2. ASSUME NEW actor \in Actors, NEW order \in Orders, NEW amount \in Amounts,
                 NEW key \in Keys \union {NoKey}, Ledger!Refund(actor, order, amount, key)
          PROVE  Inv'
      <3> DEFINE v == Ledger!Verdict(actor, order, amount, key)
                 row == [order_id |-> order, amount |-> amount]
      <3>1. CASE v # "refunded"
        <4>1. UNCHANGED Ledger!ledgerVars
          BY <2>2, <3>1 DEF Ledger!Refund, Ledger!Write
        <4> QED
          BY <2>1, <4>1
      <3>2. CASE v = "refunded"
        <4>1. /\ refunds' = Append(refunds, row)
              /\ operations' =
                   IF key \in Keys
                     THEN [operations EXCEPT ![key] =
                             [payload |-> Ledger!Payload(actor, order, amount),
                              refund |-> Len(refunds) + 1]]
                     ELSE operations
          BY <2>2, <3>2 DEF Ledger!Refund, Ledger!Write
        <4>2. ~(Ledger!Spent(order) + amount > Total[order])
          BY <3>2 DEF Ledger!Verdict
        <4>3. refunds \in Seq(Ledger!Row) /\ row \in Ledger!Row
          BY DEF Ledger!TypeOK, Ledger!Row
        <4>4. \A r \in Ledger!Row, o \in Orders : Part(r, o) \in Int
          <5>1. \A r \in Ledger!Row : r.amount \in Int
            BY StoreAssumption DEF Ledger!Row
          <5> QED
            BY <5>1 DEF Part
        <4>5. refunds' \in Seq(Ledger!Row) /\ Len(refunds) \in Nat
          <5> HIDE DEF row
          <5> QED
            BY <4>1, <4>3, AppendProperties
        <4>6. Ledger!TypeOK'
          BY <4>1, <4>5 DEF Ledger!TypeOK, Ledger!Operation, Ledger!Payload
        <4>7. ASSUME NEW o \in Orders PROVE Ledger!Spent(o)' <= Total[o]
          <5>1. /\ Ledger!SumOf(refunds, o) \in Int
                /\ Ledger!SumOf(refunds', o) = Ledger!SumOf(refunds, o) + Part(row, o)
            <6> HIDE DEF row
            <6> QED
              BY <4>1, <4>3, <4>4, SumAppend
          <5>2. Part(row, o) = IF order = o THEN amount ELSE 0
            BY DEF Part
          <5>3. Total[o] \in Nat /\ amount \in Int /\ Ledger!Spent(o) <= Total[o]
            BY StoreAssumption DEF BalanceKept, Ledger!BalanceKept
          <5> QED
            BY <4>2, <5>1, <5>2, <5>3 DEF Ledger!Spent
        <4> QED
          BY <4>6, <4>7 DEF BalanceKept, Ledger!BalanceKept
      <3> QED
        BY <3>1, <3>2
    <2> QED
      BY <2>1, <2>2 DEF Ledger!Next
  <1> QED
    BY <1>1, <1>2, PTL DEF Ledger!Spec

\* No interleaving, kill or replay of refund() pays out more than an order's
\* total: the ledger keeps it, and the transaction implements the ledger.
THEOREM Balance == Spec => []BalanceKept
  BY Refinement, LedgerBalance, PTL DEF LedgerSpec
=============================================================================

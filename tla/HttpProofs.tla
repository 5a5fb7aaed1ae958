------------------------------ MODULE HttpProofs ------------------------------
(* Theorems about HttpCharge for any pool of clients, any number of attempts,  *)
(* late responses and handlers that fail on a locked database.                 *)
EXTENDS HttpIncident, FiniteSetTheorems, SequenceTheorems, TLAPS

Places == {"absent", "received", "transaction", "committed", "audited", "dropping",
           "replying", "closed", "answered"}
Handlers == [at : Places, id : Nat, stored : {0, 25, 99}, inserted : BOOLEAN,
             status : {0, 200, 409}]
Guarded == case.mode = "guarded"

\* Handlers whose transaction has committed, and those that logged it.
Committed(h) == handlers[h].at \notin {"absent", "received", "transaction"}
Logged(h) == Committed(h) /\ handlers[h].at # "committed"

\* Only clients that were told to start have sent anything; a client has as many
\* handlers as attempts, and one left when it may still send.
ControlInv ==
    /\ \A e \in events : e.kind \in {"transaction", "response_not_sent"}
    /\ adapter \in {"starting", "reading", "failed"} => \A c \in Clients : attempt[c] = 0
    /\ ready = "written" /\ adapter \in {"starting", "reading", "requesting"} => serving
    /\ adapter = "requesting" => ready = "written"
    /\ \A c \in Clients :
         /\ client[c] = "ready" => attempt[c] < MaxAttempts
         /\ client[c] = "waiting" => attempt[c] > 0
    /\ \A h \in Attempts : h[2] > attempt[h[1]] <=> At(h, "absent")

\* A transaction in progress holds the lock, and has found what the ledger
\* still says.
TransactionInv ==
    /\ serving => \A h \in Attempts : At(h, "transaction") <=> lock = h
    /\ serving => \A h \in Attempts : At(h, "transaction") =>
         LET known == ledger # <<>> /\ Guarded
             stored == IF known THEN ledger[1] ELSE Amount(h[1])
         IN  /\ handlers[h].inserted = ~known
             /\ handlers[h].id = IF known THEN 1 ELSE 0
             /\ handlers[h].stored = stored
             /\ handlers[h].status = IF stored = Amount(h[1]) THEN 200 ELSE 409

\* What a handler found or inserted is in the ledger from its commit on; one
\* that fails before its transaction has nothing to show.
HandlerInv ==
    \A h \in Attempts :
        /\ handlers[h].at \in {"absent", "received"} =>
             ~handlers[h].inserted /\ handlers[h].status = 0
        /\ Committed(h) /\ handlers[h].status # 0 =>
             /\ handlers[h].id \in DOMAIN ledger
             /\ ledger[handlers[h].id] = handlers[h].stored
             /\ handlers[h].status = IF handlers[h].stored = Amount(h[1]) THEN 200 ELSE 409
             /\ handlers[h].inserted => handlers[h].stored = Amount(h[1])
             /\ ~handlers[h].inserted => Guarded
        /\ Committed(h) /\ ~At(h, "closed") => handlers[h].status # 0
        /\ Committed(h) /\ handlers[h].inserted => handlers[h].status # 0

\* Every row has the one handler that inserted it.
Owns(h, i) == Committed(h) /\ handlers[h].inserted /\ handlers[h].id = i
OwnerInv ==
    /\ \A i \in DOMAIN ledger : \E h \in Attempts : Owns(h, i)
    /\ \A g, h \in Attempts : \A i \in DOMAIN ledger : Owns(g, i) /\ Owns(h, i) => g = h

\* The log has exactly the records of the handlers that got that far.
Record(h) == [kind |-> "transaction", attempt |-> h, id |-> handlers[h].id,
              requested |-> Amount(h[1]), stored |-> handlers[h].stored,
              inserted |-> handlers[h].inserted, status |-> handlers[h].status]
LogInv ==
    /\ \A e \in events : e.kind = "transaction" =>
         \E h \in Attempts : Logged(h) /\ handlers[h].status # 0 /\ e = Record(h)
    /\ \A h \in Attempts : Logged(h) /\ handlers[h].status # 0 => Record(h) \in events

\* An answer is that of a handler; only the changed amount is ever refused.
ResponseInv ==
    \A c \in Clients :
        /\ response[c].status = 200 => Grounded(response[c]) /\ response[c].amount = Amount(c)
        /\ response[c].status = 409 =>
             Guarded /\ Len(ledger) = 1 /\ ledger[1] # Amount(c)
        /\ case.scenario = "conflict" /\ c = 1 => response[c].status # 409

\* The requests of "conflict" are sent one after the other.
ConflictInv ==
    case.scenario = "conflict" /\ client[1] # "done" => attempt[2] = 0

IInv ==
    /\ TypeOK /\ ControlInv /\ TransactionInv /\ HandlerInv /\ OwnerInv /\ LogInv
    /\ ResponseInv /\ ConflictInv /\ GuardedOneEffect

-----------------------------------------------------------------------------
(* Types                                                                     *)

\* The state of the ledger, the service and the clients, by itself.
LocalTypes ==
    /\ case \in Cases /\ limit \in Limits
    /\ ledger \in Seq({25, 99})
    /\ lock \in Attempts \union {Nobody}
    /\ handlers \in [Attempts -> Handlers]
    /\ client \in [Clients -> {"ready", "waiting", "done"}]
    /\ attempt \in [Clients -> 0..MaxAttempts]
    /\ response \in [Clients -> [status : {0, 200, 409}, id : Nat, amount : {0, 25, 99}]]
    /\ serving \in BOOLEAN
    /\ ready \in {"absent", "empty", "written"}
    /\ adapter \in {"starting", "reading", "requesting", "ended", "failed"}
    /\ timeouts \in 0..limit.timeouts
    /\ lockouts \in 0..limit.lockouts
FaultTypes == binding = Schedule(case.scenario) /\ Faults!TypeOK
KindTypes == {e.kind : e \in events} \subseteq {"transaction", "response_not_sent"}

\* The type invariant in three parts that different steps disturb.
LEMMA TypeParts == TypeOK <=> LocalTypes /\ FaultTypes /\ KindTypes
  BY DEF TypeOK, LocalTypes, FaultTypes, KindTypes, Handlers, Places

\* The same of the next state, in the direction a step needs.
LEMMA TypePartsNext == LocalTypes' /\ FaultTypes' /\ KindTypes' => TypeOK'
  BY DEF TypeOK, LocalTypes, FaultTypes, KindTypes, Handlers, Places

\* The bounds of a case and the amounts of its clients.
LEMMA CaseFacts ==
    ASSUME LocalTypes
    PROVE  /\ case.mode \in Modes /\ case.scenario \in Scenarios
           /\ limit.clients \in 2..PoolSize /\ limit.timeouts \in Nat /\ limit.lockouts \in Nat
           /\ PoolSize \in Nat \ {0, 1} /\ MaxAttempts \in Nat \ {0, 1}
           /\ \A c \in Clients : Amount(c) \in {25, 99}
           /\ {1, 2} \subseteq Clients /\ Active \subseteq Clients /\ 1 \in Active
  <1>1. /\ case.mode \in Modes /\ case.scenario \in Scenarios
        /\ limit.clients \in 2..PoolSize /\ limit.timeouts \in Nat /\ limit.lockouts \in Nat
        /\ PoolSize \in Nat \ {0, 1} /\ MaxAttempts \in Nat \ {0, 1}
    BY ChargeAssumption DEF LocalTypes
  <1>2. \A c \in Clients : Amount(c) \in {25, 99}
    BY DEF Amount
  <1>3. {1, 2} \subseteq Clients /\ Active \subseteq Clients /\ 1 \in Active
    BY <1>1 DEF Clients, Active, Scenarios
  <1> QED
    BY <1>1, <1>2, <1>3

\* A schedule has one rule at most.
LEMMA ScheduleFacts ==
    ASSUME NEW s
    PROVE  /\ DOMAIN Schedule(s) \subseteq Faults!Rules
           /\ \A i \in DOMAIN Schedule(s) : i = 1 /\ Schedule(s)[i] = LostAck
  BY DEF Schedule, Faults!Rules

\* A call at the fault boundary keeps the journal well typed.
LEMMA ApplyType ==
    ASSUME FaultTypes, NEW outcome, Faults!Apply("http_charge", "after", outcome),
           UNCHANGED case
    PROVE  FaultTypes'
  <1> DEFINE S == [rule : Faults!Rules, occurrence : Nat]
  <1>1. CASE UNCHANGED faultVars
    BY <1>1 DEF faultVars, FaultTypes, Faults!TypeOK
  <1>2. ASSUME NEW i \in DOMAIN binding, Faults!Claim(i) PROVE FaultTypes'
    <2> DEFINE e == Faults!Record(i, calls[i] + 1)
    <2>1. i \in Faults!Rules
      BY ScheduleFacts DEF FaultTypes
    <2>2. /\ calls \in [Faults!Rules -> Nat] /\ journal \in Seq(S)
          /\ calls' = [calls EXCEPT ![i] = calls[i] + 1] /\ UNCHANGED binding
          /\ journal' = Append(journal, e) \/ journal' = journal
      BY <1>2 DEF FaultTypes, Faults!TypeOK, Faults!Claim
    <2>3. calls' \in [Faults!Rules -> Nat] /\ e \in S
      BY <2>1, <2>2 DEF Faults!Record
    <2> HIDE DEF S, e
    <2>4. journal' \in Seq(S)
      BY <2>2, <2>3, AppendProperties
    <2> QED
      BY <2>2, <2>3, <2>4 DEF FaultTypes, Faults!TypeOK, S
  <1> QED
    BY <1>1, <1>2 DEF Faults!Apply, Faults!Matching, Faults!journalVars, faultVars

\* What a handler looks like after its step, and that it is the only one to move.
Others(h) == \A g \in Attempts \ {h} : handlers'[g] = handlers[g]
Moved(h, s) ==
    /\ handlers' \in [Attempts -> Handlers]
    /\ handlers'[h].at = s
    /\ handlers'[h].id = handlers[h].id /\ handlers'[h].stored = handlers[h].stored
    /\ handlers'[h].inserted = handlers[h].inserted
    /\ handlers'[h].status = handlers[h].status
    /\ Others(h)

\* Moving a handler changes where it is and nothing else of it.
LEMMA MoveEffect ==
    ASSUME LocalTypes, NEW h \in Attempts, NEW s \in Places, Move(h, s)
    PROVE  Moved(h, s)
  <1>1. handlers \in [Attempts -> Handlers] /\ handlers' = [handlers EXCEPT ![h].at = s]
    BY DEF LocalTypes, Move
  <1>2. handlers[h] \in Handlers /\ handlers'[h] = [handlers[h] EXCEPT !.at = s]
    BY <1>1
  <1>3. handlers'[h] \in Handlers
    BY <1>2 DEF Handlers
  <1>4. handlers' \in [Attempts -> Handlers] /\ Others(h)
    BY <1>1, <1>3 DEF Others
  <1> QED
    BY <1>2, <1>4 DEF Moved, Handlers

\* The invariant holds before the service has started.
LEMMA InitIInv == Init => IInv
  <1> SUFFICES ASSUME Init PROVE IInv
    OBVIOUS
  <1>1. /\ ledger = <<>> /\ Len(ledger) = 0 /\ DOMAIN ledger = {} /\ events = {}
        /\ \A h \in Attempts : handlers[h] = Absent
        /\ \A h \in Attempts : h[1] \in Clients /\ h[2] \in 1..MaxAttempts
        /\ MaxAttempts \in Nat \ {0, 1}
    BY ChargeAssumption DEF Init, Attempts
  <1>2. LocalTypes
    <2>1. Absent \in Handlers
      BY DEF Absent, Handlers, Places
    <2>2. limit \in Limits /\ 0 \in 0..limit.timeouts /\ 0 \in 0..limit.lockouts
      BY ChargeAssumption DEF Init
    <2>3. NoResponse \in [status : {0, 200, 409}, id : Nat, amount : {0, 25, 99}]
      BY DEF NoResponse
    <2>4. serving \in BOOLEAN
      BY Zenon DEF Init
    <2> HIDE DEF Absent, NoResponse
    <2> QED
      BY <1>1, <2>1, <2>2, <2>3, <2>4 DEF Init, LocalTypes
  <1>3. FaultTypes
    <2>1. Schedule(case.scenario) \in {Schedule(s) : s \in Scenarios}
      BY <1>2, CaseFacts
    <2> QED
      BY <2>1 DEF Init, FaultTypes, Faults!TypeOK
  <1>4. TypeOK
    BY <1>1, <1>2, <1>3, TypeParts DEF KindTypes
  <1>5. ControlInv
    BY <1>1 DEF Init, ControlInv, At, Absent
  <1>6. TransactionInv /\ HandlerInv
    BY <1>1, ChargeAssumption
    DEF Init, TransactionInv, HandlerInv, At, Absent, Committed, Attempts, Clients
  <1>7. OwnerInv /\ LogInv
    BY <1>1 DEF OwnerInv, LogInv, Logged, Committed, Absent
  <1>8. ResponseInv /\ ConflictInv /\ GuardedOneEffect
    BY <1>1, <1>2, CaseFacts DEF Init, ResponseInv, ConflictInv, GuardedOneEffect, NoResponse
  <1> QED
    BY <1>4, <1>5, <1>6, <1>7, <1>8 DEF IInv

-----------------------------------------------------------------------------
(* The service                                                               *)

Late == {"audited", "dropping", "replying", "closed", "answered"}
Frame == UNCHANGED <<case, limit, client, attempt, response, serving, ready, adapter>>

\* The types, taken from the invariant.
LEMMA Types == IInv => LocalTypes /\ FaultTypes /\ KindTypes
  BY TypeParts DEF IInv

\* A handler's step leaves the clients and the launch as they are.
LEMMA HandlerFrame ==
    ASSUME IInv, NEW h \in Attempts, Others(h), ~At(h, "absent"), handlers'[h].at # "absent",
           Frame, \A e \in events' : e.kind \in {"transaction", "response_not_sent"}
    PROVE  ControlInv' /\ ConflictInv'
  <1>1. \A g \in Attempts : handlers'[g].at = "absent" <=> handlers[g].at = "absent"
    BY DEF Others, At
  <1> QED
    BY <1>1 DEF IInv, ControlInv, ConflictInv, At, Frame

\* After its commit a handler only moves on; what it found stays what it was.
LEMMA LateMove ==
    ASSUME IInv, NEW h \in Attempts, NEW s \in Late, Moved(h, s),
           Committed(h), ~At(h, "closed"), Frame, UNCHANGED <<ledger, lock>>
    PROVE  /\ TransactionInv' /\ HandlerInv' /\ OwnerInv'
           /\ ResponseInv' /\ GuardedOneEffect'
  <1> USE DEF Frame
  <1>1. \A g \in Attempts : /\ handlers'[g].id = handlers[g].id
                            /\ handlers'[g].stored = handlers[g].stored
                            /\ handlers'[g].inserted = handlers[g].inserted
                            /\ handlers'[g].status = handlers[g].status
                            /\ g # h => handlers'[g].at = handlers[g].at
    BY DEF Moved, Others
  <1>2. \A g \in Attempts : Committed(g)' <=> Committed(g)
    BY <1>1 DEF Committed, Moved, Late
  <1>3. \A g \in Attempts : At(g, "transaction")' <=> At(g, "transaction")
    BY <1>1 DEF Committed, Moved, Late, At
  <1>4. TransactionInv'
    BY <1>1, <1>3 DEF IInv, TransactionInv, Guarded, Amount
  <1>5. OwnerInv'
    BY <1>1, <1>2 DEF IInv, OwnerInv, Owns
  <1>6. HandlerInv'
    <2> SUFFICES ASSUME NEW g \in Attempts
                 PROVE  (/\ handlers[g].at \in {"absent", "received"} =>
                             ~handlers[g].inserted /\ handlers[g].status = 0
                         /\ Committed(g) /\ handlers[g].status # 0 =>
                             /\ handlers[g].id \in DOMAIN ledger
                             /\ ledger[handlers[g].id] = handlers[g].stored
                             /\ handlers[g].status =
                                  IF handlers[g].stored = Amount(g[1]) THEN 200 ELSE 409
                             /\ handlers[g].inserted => handlers[g].stored = Amount(g[1])
                             /\ ~handlers[g].inserted => Guarded
                         /\ Committed(g) /\ ~At(g, "closed") => handlers[g].status # 0
                         /\ Committed(g) /\ handlers[g].inserted => handlers[g].status # 0)'
      BY DEF HandlerInv
    <2>1. handlers'[g].at \in {"absent", "received"} => handlers[g].at \in {"absent", "received"}
      BY <1>1 DEF Moved, Late
    <2>2. Committed(g)' /\ ~At(g, "closed")' => handlers[g].status # 0
      BY <1>1, <1>2 DEF IInv, HandlerInv, At
    <2> QED
      BY <1>1, <1>2, <2>1, <2>2 DEF IInv, HandlerInv, Guarded, Amount
  <1> QED
    BY <1>4, <1>5, <1>6 DEF IInv, ResponseInv, GuardedOneEffect, Grounded, Guarded, Amount

\* The log is kept by steps after the record of the transaction.
LEMMA LogKept ==
    ASSUME IInv, NEW h \in Attempts, NEW s \in Late, Moved(h, s), Logged(h), UNCHANGED case,
           events \subseteq events', \A e \in events' \ events : e.kind # "transaction"
    PROVE  LogInv'
  <1>1. \A g \in Attempts : /\ handlers'[g].id = handlers[g].id
                            /\ handlers'[g].stored = handlers[g].stored
                            /\ handlers'[g].inserted = handlers[g].inserted
                            /\ handlers'[g].status = handlers[g].status
                            /\ g # h => handlers'[g].at = handlers[g].at
    BY DEF Moved, Others
  <1>2. \A g \in Attempts : (Logged(g)' <=> Logged(g)) /\ Record(g)' = Record(g)
    BY <1>1 DEF Moved, Late, Logged, Committed, Record, Amount
  <1> QED
    BY <1>1, <1>2 DEF IInv, LogInv

\* audit(kind="transaction")
LEMMA AuditStep ==
    ASSUME IInv, NEW h \in Attempts, Audit(h), Frame,
           UNCHANGED <<ledger, lock, faultVars, timeouts, lockouts>>
    PROVE  IInv'
  <1> USE DEF Frame
  <1>1. Moved(h, "audited")
    BY Types, MoveEffect DEF Audit, Places
  <1>2. Committed(h) /\ At(h, "committed") /\ events' = events \union {Record(h)}
    BY DEF Audit, Committed, At, Record
  <1>3. ControlInv' /\ ConflictInv'
    <2>1. \A e \in events' : e.kind \in {"transaction", "response_not_sent"}
      BY <1>2 DEF IInv, ControlInv, Record
    <2> QED
      BY <1>1, <1>2, <2>1, HandlerFrame DEF Moved, At
  <1>4. TransactionInv' /\ HandlerInv' /\ OwnerInv' /\ ResponseInv' /\ GuardedOneEffect'
    BY <1>1, <1>2, LateMove DEF Late, At
  <1>5. LogInv'
    <2>1. \A g \in Attempts : Record(g)' = Record(g)
      BY <1>1 DEF Moved, Others, Record, Amount
    <2>2. \A g \in Attempts \ {h} : Logged(g)' <=> Logged(g)
      BY <1>1 DEF Moved, Others, Logged, Committed
    <2>3. Logged(h)' /\ handlers[h].status # 0 /\ ~Logged(h)
      BY <1>1, <1>2 DEF Moved, Logged, Committed, At, IInv, HandlerInv
    <2>4. \A g \in Attempts : handlers'[g].status = handlers[g].status
      BY <1>1 DEF Moved, Others
    <2> QED
      BY <1>2, <2>1, <2>2, <2>3, <2>4 DEF IInv, LogInv
  <1>6. TypeOK'
    <2>1. LocalTypes'
      BY <1>1, Types DEF LocalTypes, Moved
    <2>2. FaultTypes'
      BY Types DEF FaultTypes, Faults!TypeOK, faultVars
    <2>3. KindTypes'
      BY <1>2, Types DEF KindTypes, Record
    <2> QED
      BY <2>1, <2>2, <2>3, TypePartsNext
  <1> QED
    BY <1>3, <1>4, <1>5, <1>6 DEF IInv

\* Everything a handler does after its record.
LEMMA LateStep ==
    ASSUME IInv, NEW h \in Attempts, NEW s \in Late, Move(h, s), Logged(h), ~At(h, "closed"),
           Frame, UNCHANGED <<ledger, lock>>,
           events' \in {events, events \union {[kind |-> "response_not_sent", attempt |-> h,
                                                id |-> handlers[h].id]}},
           FaultTypes', UNCHANGED timeouts, lockouts' \in 0..limit.lockouts
    PROVE  IInv'
  <1> USE DEF Frame
  <1>1. Moved(h, s)
    BY Types, MoveEffect DEF Late, Places
  <1>2. Committed(h) /\ \A e \in events' \ events : e.kind = "response_not_sent"
    BY DEF Logged
  <1>3. ControlInv' /\ ConflictInv'
    <2>1. \A e \in events' : e.kind \in {"transaction", "response_not_sent"}
      BY <1>2 DEF IInv, ControlInv
    <2> QED
      BY <1>1, <1>2, <2>1, HandlerFrame DEF Moved, At, Late, Committed
  <1>4. TransactionInv' /\ HandlerInv' /\ OwnerInv' /\ ResponseInv' /\ GuardedOneEffect'
    BY <1>1, <1>2, LateMove
  <1>5. LogInv'
    BY <1>1, <1>2, LogKept
  <1>6. TypeOK'
    <2>1. LocalTypes'
      BY <1>1, Types DEF LocalTypes, Moved
    <2>2. KindTypes'
      BY <1>2, Types DEF KindTypes
    <2> QED
      BY <2>1, <2>2, TypePartsNext
  <1> QED
    BY <1>3, <1>4, <1>5, <1>6 DEF IInv

\* BEGIN IMMEDIATE and the lookup
LEMMA BeginStep ==
    ASSUME IInv, NEW h \in Attempts, Begin(h), serving, Frame,
           UNCHANGED <<ledger, events, faultVars, timeouts, lockouts>>
    PROVE  IInv'
  <1> USE DEF Frame
  <1> DEFINE known == ledger # <<>> /\ Guarded
             stored == IF known THEN ledger[1] ELSE Amount(h[1])
             new == [at |-> "transaction", id |-> IF known THEN 1 ELSE 0, stored |-> stored,
                     inserted |-> ~known, status |-> IF stored = Amount(h[1]) THEN 200 ELSE 409]
  <1>1. /\ At(h, "received") /\ lock = Nobody /\ lock' = h
        /\ handlers' = [handlers EXCEPT ![h] = new]
    BY DEF Begin, Guarded
  <1>2. h[1] \in Clients /\ stored \in {25, 99}
    <2>1. h[1] \in Clients
      BY DEF Attempts
    <2>2. Amount(h[1]) \in {25, 99}
      BY DEF Amount
    <2>3. known => ledger[1] \in {25, 99}
      <3>1. ledger \in Seq({25, 99})
        BY Types DEF LocalTypes
      <3>2. ledger # <<>> => Len(ledger) \in Nat /\ Len(ledger) # 0
        BY <3>1, EmptySeq, LenProperties
      <3> QED
        BY <3>1, <3>2, ElementOfSeq
    <2> QED
      BY <2>1, <2>2, <2>3
  <1>3. new \in Handlers
    <2>1. known \in BOOLEAN
      BY DEF Guarded
    <2> QED
      BY <1>2, <2>1 DEF Handlers, Places
  <1> HIDE DEF new
  <1>4. handlers' \in [Attempts -> Handlers] /\ handlers'[h] = new /\ Others(h)
    BY <1>1, <1>3, Types DEF LocalTypes, Others
  <1>5. \A g \in Attempts : g # h => handlers'[g] = handlers[g]
    BY <1>4 DEF Others
  <1>6. new.at = "transaction" /\ ~Committed(h) /\ ~Committed(h)'
    BY <1>1, <1>4 DEF new, Committed, At
  <1>7. ControlInv' /\ ConflictInv'
    BY <1>1, <1>4, <1>6, HandlerFrame DEF At, IInv, ControlInv
  <1>8. TransactionInv'
    <2>1. \A g \in Attempts : ~At(g, "transaction")
      BY <1>1, ChargeAssumption DEF IInv, TransactionInv, Attempts, Clients
    <2>2. \A g \in Attempts : At(g, "transaction")' <=> g = h
      BY <1>4, <1>5, <1>6, <2>1 DEF At
    <2>3. /\ handlers'[h].inserted = ~known /\ handlers'[h].id = IF known THEN 1 ELSE 0
          /\ handlers'[h].stored = stored
          /\ handlers'[h].status = IF stored = Amount(h[1]) THEN 200 ELSE 409
      BY <1>4 DEF new
    <2>4. (known <=> known') /\ Amount(h[1])' = Amount(h[1]) /\ stored' = stored
      BY DEF Guarded, Amount
    <2> HIDE DEF known, stored
    <2> QED
      BY <1>1, <2>2, <2>3, <2>4 DEF TransactionInv, known, stored, Guarded
  <1> HIDE DEF known, stored
  <1>9. HandlerInv'
    BY <1>4, <1>5, <1>6 DEF IInv, HandlerInv, Committed, At, Guarded, Amount
  <1>10. OwnerInv'
    BY <1>4, <1>5, <1>6 DEF IInv, OwnerInv, Owns, Committed
  <1>11. LogInv'
    <2>1. \A g \in Attempts : Logged(g)' <=> Logged(g)
      BY <1>4, <1>5, <1>6 DEF Logged, Committed
    <2>2. \A g \in Attempts : g # h => Record(g)' = Record(g) /\ handlers'[g] = handlers[g]
      BY <1>5 DEF Record, Amount
    <2>3. ~Logged(h)
      BY <1>6 DEF Logged
    <2> QED
      BY <2>1, <2>2, <2>3 DEF IInv, LogInv
  <1>12. ResponseInv' /\ GuardedOneEffect'
    BY DEF IInv, ResponseInv, GuardedOneEffect, Grounded, Guarded, Amount
  <1>13. TypeOK'
    <2>1. LocalTypes'
      BY <1>1, <1>4, Types DEF LocalTypes
    <2>2. FaultTypes' /\ KindTypes'
      BY Types DEF FaultTypes, Faults!TypeOK, faultVars, KindTypes
    <2> QED
      BY <2>1, <2>2, TypePartsNext
  <1> QED
    BY <1>7, <1>8, <1>9, <1>10, <1>11, <1>12, <1>13 DEF IInv

\* A ledger that grows keeps its rows.
LEMMA GrownLedger ==
    ASSUME LocalTypes, NEW a \in {25, 99}, ledger' = Append(ledger, a)
    PROVE  /\ ledger' \in Seq({25, 99})
           /\ Len(ledger) \in Nat /\ Len(ledger') = Len(ledger) + 1
           /\ DOMAIN ledger = 1..Len(ledger) /\ DOMAIN ledger' = 1..(Len(ledger) + 1)
           /\ \A i \in DOMAIN ledger : i \in DOMAIN ledger' /\ ledger'[i] = ledger[i]
           /\ ledger'[Len(ledger) + 1] = a
           /\ ledger = <<>> => Len(ledger) = 0
  <1>1. ledger \in Seq({25, 99})
    BY DEF LocalTypes
  <1>2. /\ ledger' \in Seq({25, 99}) /\ Len(ledger') = Len(ledger) + 1
        /\ \A i \in 1..Len(ledger) : ledger'[i] = ledger[i]
        /\ ledger'[Len(ledger) + 1] = a
    BY <1>1, AppendProperties
  <1>3. /\ Len(ledger) \in Nat /\ DOMAIN ledger = 1..Len(ledger)
        /\ DOMAIN ledger' = 1..Len(ledger')
    BY <1>1, <1>2, LenProperties
  <1> QED
    BY <1>2, <1>3

\* The insertion and the commit
LEMMA CommitStep ==
    ASSUME IInv, NEW h \in Attempts, Commit(h), serving, Frame,
           UNCHANGED <<events, faultVars, timeouts, lockouts>>
    PROVE  IInv'
  <1> USE DEF Frame
  <1>1. /\ At(h, "transaction") /\ lock' = Nobody /\ LocalTypes
        /\ handlers \in [Attempts -> Handlers] /\ handlers[h] \in Handlers
    BY Types DEF Commit, LocalTypes
  <1>2. ~Committed(h) /\ ~Logged(h) /\ Amount(h[1]) \in {25, 99}
    BY <1>1 DEF Committed, Logged, At, Amount
  <1>3. \A g \in Attempts : At(g, "transaction") => g = h
    BY <1>1 DEF IInv, TransactionInv
  <1>4. /\ handlers[h].inserted <=> ledger = <<>> \/ ~Guarded
        /\ handlers[h].inserted => handlers[h].stored = Amount(h[1]) /\ handlers[h].status = 200
        /\ ~handlers[h].inserted => /\ handlers[h].id = 1 /\ handlers[h].stored = ledger[1]
                                    /\ handlers[h].status =
                                         IF handlers[h].stored = Amount(h[1]) THEN 200 ELSE 409
    <2> DEFINE known == ledger # <<>> /\ Guarded
               stored == IF known THEN ledger[1] ELSE Amount(h[1])
    <2>1. /\ handlers[h].inserted = ~known
          /\ handlers[h].id = IF known THEN 1 ELSE 0
          /\ handlers[h].stored = stored
          /\ handlers[h].status = IF stored = Amount(h[1]) THEN 200 ELSE 409
      BY <1>1 DEF IInv, TransactionInv
    <2>2. known \in BOOLEAN
      BY DEF Guarded
    <2>3. CASE known
      <3>1. ~handlers[h].inserted
        BY <2>1, <2>3
      <3> QED
        BY <2>1, <2>3, <3>1
    <2>4. CASE ~known
      <3>1. handlers[h].inserted
        BY <2>1, <2>4
      <3> QED
        BY <2>1, <2>4, <3>1
    <2> QED
      BY <2>3, <2>4
  <1>5. /\ handlers' \in [Attempts -> Handlers] /\ handlers'[h].at = "committed"
        /\ handlers'[h].stored = handlers[h].stored /\ handlers'[h].status = handlers[h].status
        /\ handlers'[h].inserted = handlers[h].inserted
        /\ handlers'[h].id = IF handlers[h].inserted THEN Len(ledger) + 1 ELSE handlers[h].id
        /\ Others(h)
    <2>1. CASE handlers[h].inserted
      <3>1. handlers' = [handlers EXCEPT ![h].at = "committed", ![h].id = Len(ledger) + 1]
        BY <2>1 DEF Commit
      <3>2. handlers'[h] = [at |-> "committed", id |-> Len(ledger) + 1,
                            stored |-> handlers[h].stored, inserted |-> handlers[h].inserted,
                            status |-> handlers[h].status]
        BY <1>1, <3>1 DEF Handlers
      <3>3. Len(ledger) + 1 \in Nat
        BY <1>1, LenProperties DEF LocalTypes
      <3>4. handlers'[h] \in Handlers
        BY <1>1, <3>2, <3>3 DEF Handlers, Places
      <3>5. handlers' \in [Attempts -> Handlers] /\ Others(h)
        BY <1>1, <3>1, <3>4 DEF Others
      <3> QED
        BY <2>1, <3>2, <3>5
    <2>2. CASE ~handlers[h].inserted
      <3>1. Moved(h, "committed")
        BY <1>1, <2>2, MoveEffect DEF Commit, Places
      <3> QED
        BY <2>2, <3>1 DEF Moved
    <2> QED
      BY <2>1, <2>2
  <1>6. \A g \in Attempts : g # h => handlers'[g] = handlers[g]
    BY <1>5 DEF Others
  <1>7. /\ ledger' \in Seq({25, 99})
        /\ \A i \in DOMAIN ledger : i \in DOMAIN ledger' /\ ledger'[i] = ledger[i]
        /\ handlers'[h].id \in DOMAIN ledger' /\ ledger'[handlers'[h].id] = handlers[h].stored
        /\ \A i \in DOMAIN ledger' :
             i \in DOMAIN ledger \/ (handlers[h].inserted /\ i = handlers'[h].id)
        /\ handlers[h].inserted => handlers'[h].id \notin DOMAIN ledger
        /\ Guarded => Len(ledger') <= 1
        /\ Guarded /\ handlers[h].inserted => Len(ledger) = 0
        /\ ~handlers[h].inserted => ledger' = ledger
    <2>1. CASE handlers[h].inserted
      <3>1. ledger' = Append(ledger, Amount(h[1]))
        BY <2>1 DEF Commit
      <3>2. /\ ledger' \in Seq({25, 99})
            /\ Len(ledger) \in Nat /\ Len(ledger') = Len(ledger) + 1
            /\ DOMAIN ledger = 1..Len(ledger) /\ DOMAIN ledger' = 1..(Len(ledger) + 1)
            /\ \A i \in DOMAIN ledger : i \in DOMAIN ledger' /\ ledger'[i] = ledger[i]
            /\ ledger'[Len(ledger) + 1] = Amount(h[1])
            /\ ledger = <<>> => Len(ledger) = 0
        BY <1>1, <1>2, <3>1, GrownLedger
      <3>3. handlers'[h].id = Len(ledger) + 1 /\ handlers[h].stored = Amount(h[1])
        BY <1>4, <1>5, <2>1
      <3>4. Guarded => ledger = <<>>
        BY <1>4, <2>1
      <3> QED
        BY <2>1, <3>2, <3>3, <3>4
    <2>2. CASE ~handlers[h].inserted
      <3>1. ledger' = ledger /\ ledger # <<>> /\ ledger \in Seq({25, 99})
        BY <1>1, <1>4, <2>2 DEF Commit, LocalTypes
      <3>2. 1 \in DOMAIN ledger
        BY <3>1, EmptySeq, LenProperties
      <3>3. handlers'[h].id = 1 /\ handlers[h].stored = ledger[1]
        BY <1>4, <1>5, <2>2
      <3>4. Guarded => Len(ledger) <= 1
        BY DEF IInv, GuardedOneEffect, Guarded
      <3> QED
        BY <2>2, <3>1, <3>2, <3>3, <3>4
    <2> QED
      BY <2>1, <2>2
  <1>8. ControlInv' /\ ConflictInv'
    BY <1>1, <1>5, HandlerFrame DEF At, IInv, ControlInv
  <1>9. TransactionInv'
    <2>1. \A g \in Attempts : ~At(g, "transaction")'
      BY <1>3, <1>5, <1>6 DEF At
    <2> QED
      BY <1>1, <2>1, ChargeAssumption DEF TransactionInv, Attempts, Clients
  <1>10. \A g \in Attempts : g # h => (Committed(g)' <=> Committed(g)) /\ (Logged(g)' <=> Logged(g))
    BY <1>6 DEF Committed, Logged
  <1>11. Committed(h)' /\ ~Logged(h)'
    BY <1>5 DEF Committed, Logged
  <1>12. HandlerInv'
    <2> SUFFICES ASSUME NEW g \in Attempts
                 PROVE  (/\ handlers[g].at \in {"absent", "received"} =>
                             ~handlers[g].inserted /\ handlers[g].status = 0
                         /\ Committed(g) /\ handlers[g].status # 0 =>
                             /\ handlers[g].id \in DOMAIN ledger
                             /\ ledger[handlers[g].id] = handlers[g].stored
                             /\ handlers[g].status =
                                  IF handlers[g].stored = Amount(g[1]) THEN 200 ELSE 409
                             /\ handlers[g].inserted => handlers[g].stored = Amount(g[1])
                             /\ ~handlers[g].inserted => Guarded
                         /\ Committed(g) /\ ~At(g, "closed") => handlers[g].status # 0
                         /\ Committed(g) /\ handlers[g].inserted => handlers[g].status # 0)'
      BY DEF HandlerInv
    <2>1. CASE g = h
      BY <1>4, <1>5, <1>7, <2>1 DEF Guarded, Amount
    <2>2. CASE g # h
      <3>1. handlers'[g] = handlers[g] /\ (Committed(g)' <=> Committed(g))
        BY <1>6, <1>10, <2>2
      <3> QED
        BY <1>7, <3>1 DEF IInv, HandlerInv, At, Guarded, Amount
    <2> QED
      BY <2>1, <2>2
  <1>13. OwnerInv'
    <2>1. ASSUME NEW i \in DOMAIN ledger' PROVE \E g \in Attempts : Owns(g, i)'
      <3>1. CASE i \in DOMAIN ledger
        <4>1. PICK g \in Attempts : Owns(g, i)
          BY <3>1 DEF IInv, OwnerInv
        <4> QED
          BY <1>2, <1>6, <1>10, <4>1 DEF Owns
      <3>2. CASE handlers[h].inserted /\ i = handlers'[h].id
        BY <1>5, <1>11, <3>2 DEF Owns
      <3> QED
        BY <1>7, <3>1, <3>2
    <2>2. ASSUME NEW g \in Attempts, NEW k \in Attempts, NEW i \in DOMAIN ledger',
                 Owns(g, i)', Owns(k, i)'
          PROVE  g = k
      <3>1. \A x \in Attempts : x # h /\ Owns(x, i)' => Owns(x, i) /\ i \in DOMAIN ledger
        BY <1>6, <1>10 DEF Owns, IInv, HandlerInv
      <3>2. Owns(h, i)' => i \notin DOMAIN ledger
        BY <1>5, <1>7 DEF Owns
      <3> QED
        BY <2>2, <3>1, <3>2 DEF IInv, OwnerInv
    <2> QED
      BY <2>1, <2>2 DEF OwnerInv
  <1>14. LogInv'
    <2>1. \A g \in Attempts : g # h => Record(g)' = Record(g)
      BY <1>6 DEF Record, Amount
    <2> QED
      BY <1>2, <1>6, <1>10, <1>11, <2>1 DEF IInv, LogInv
  <1>15. ResponseInv' /\ GuardedOneEffect'
    <2>1. \A c \in Clients : response[c].status = 409 => ledger' = ledger
      BY <1>7 DEF IInv, ResponseInv
    <2> QED
      BY <1>7, <2>1 DEF IInv, ResponseInv, GuardedOneEffect, Grounded, Guarded, Amount
  <1>16. TypeOK'
    <2>1. LocalTypes'
      BY <1>1, <1>5, <1>7, Types DEF LocalTypes
    <2>2. FaultTypes' /\ KindTypes'
      BY Types DEF FaultTypes, Faults!TypeOK, faultVars, KindTypes
    <2> QED
      BY <2>1, <2>2, TypePartsNext
  <1> QED
    BY <1>8, <1>9, <1>12, <1>13, <1>14, <1>15, <1>16 DEF IInv

\* A locked ledger fails the handler before its transaction.
LEMMA RefusedStep ==
    ASSUME IInv, NEW h \in Attempts, At(h, "received"), Move(h, "closed"), Frame,
           UNCHANGED <<ledger, lock, events, faultVars, timeouts>>,
           lockouts' \in 0..limit.lockouts
    PROVE  IInv'
  <1> USE DEF Frame
  <1>1. Moved(h, "closed")
    BY Types, MoveEffect DEF Places
  <1>2. \A g \in Attempts : /\ handlers'[g].id = handlers[g].id
                            /\ handlers'[g].stored = handlers[g].stored
                            /\ handlers'[g].inserted = handlers[g].inserted
                            /\ handlers'[g].status = handlers[g].status
                            /\ g # h => handlers'[g].at = handlers[g].at
    BY <1>1 DEF Moved, Others
  <1>3. ~handlers[h].inserted /\ handlers[h].status = 0 /\ handlers'[h].at = "closed"
    BY <1>1 DEF IInv, HandlerInv, At, Moved
  <1>4. \A g \in Attempts : g # h => (Committed(g)' <=> Committed(g)) /\ (Logged(g)' <=> Logged(g))
    BY <1>2 DEF Committed, Logged
  <1>5. ControlInv' /\ ConflictInv'
    BY <1>1, HandlerFrame DEF At, Moved, IInv, ControlInv
  <1>6. TransactionInv'
    <2>1. \A g \in Attempts : At(g, "transaction")' <=> At(g, "transaction")
      BY <1>2, <1>3 DEF At
    <2> QED
      BY <1>2, <2>1 DEF IInv, TransactionInv, Guarded, Amount
  <1>7. HandlerInv'
    BY <1>2, <1>3, <1>4 DEF IInv, HandlerInv, At, Guarded, Amount
  <1>8. OwnerInv'
    BY <1>2, <1>3, <1>4 DEF IInv, OwnerInv, Owns
  <1>9. LogInv'
    <2>1. \A g \in Attempts : Record(g)' = Record(g)
      BY <1>2 DEF Record, Amount
    <2> QED
      BY <1>2, <1>3, <1>4, <2>1 DEF IInv, LogInv
  <1>10. ResponseInv' /\ GuardedOneEffect'
    BY DEF IInv, ResponseInv, GuardedOneEffect, Grounded, Guarded, Amount
  <1>11. TypeOK'
    <2>1. LocalTypes'
      BY <1>1, Types DEF LocalTypes, Moved
    <2>2. FaultTypes' /\ KindTypes'
      BY Types DEF FaultTypes, Faults!TypeOK, faultVars, KindTypes
    <2> QED
      BY <2>1, <2>2, TypePartsNext
  <1> QED
    BY <1>5, <1>6, <1>7, <1>8, <1>9, <1>10, <1>11 DEF IInv

\* Every stage of POST /charges keeps the invariant.
LEMMA HandleStep ==
    ASSUME IInv, NEW h \in Attempts, Handle(h)
    PROVE  IInv'
  <1>1. /\ serving /\ Frame /\ UNCHANGED <<timeouts, lockouts>>
    BY DEF Handle, setting, clientVars, launch, bounds, Frame
  <1>2. lockouts' \in 0..limit.lockouts /\ UNCHANGED case
    BY <1>1, Types DEF LocalTypes, Frame
  <1>3. UNCHANGED faultVars => FaultTypes'
    BY <1>2, Types DEF FaultTypes, Faults!TypeOK, faultVars
  <1>4. CASE Begin(h) /\ UNCHANGED <<ledger, events, faultVars>>
    BY <1>1, <1>4, BeginStep
  <1>5. CASE Commit(h) /\ UNCHANGED <<events, faultVars>>
    BY <1>1, <1>5, CommitStep
  <1>6. CASE Audit(h) /\ UNCHANGED <<ledger, lock, faultVars>>
    BY <1>1, <1>6, AuditStep
  <1>7. CASE LoseAcknowledgement(h) /\ UNCHANGED <<ledger, lock, events>>
    <2>1. PICK outcome \in {"none", "retryable"} :
             /\ Faults!Apply("http_charge", "after", outcome)
             /\ Move(h, IF outcome = "none" THEN "replying" ELSE "dropping")
      BY <1>7 DEF LoseAcknowledgement
    <2>2. FaultTypes'
      BY <1>2, <2>1, ApplyType, Types
    <2>3. Logged(h) /\ ~At(h, "closed")
      BY <1>7 DEF LoseAcknowledgement, Logged, Committed, At
    <2>4. PICK s \in {"replying", "dropping"} : Move(h, s)
      BY <2>1
    <2> QED
      BY <1>1, <1>2, <1>7, <2>2, <2>3, <2>4, LateStep DEF Late
  <1>8. CASE Drop(h) /\ UNCHANGED <<ledger, lock, faultVars>>
    <2>1. Logged(h) /\ ~At(h, "closed") /\ Move(h, "closed")
      BY <1>8 DEF Drop, Logged, Committed, At
    <2> QED
      BY <1>1, <1>2, <1>3, <1>8, <2>1, LateStep DEF Late, Drop
  <1>9. CASE Reply(h) /\ UNCHANGED <<ledger, lock, events, faultVars>>
    <2>1. Logged(h) /\ ~At(h, "closed") /\ Move(h, "answered")
      BY <1>9 DEF Reply, Logged, Committed, At
    <2> QED
      BY <1>1, <1>2, <1>3, <1>9, <2>1, LateStep DEF Late
  <1> QED
    BY <1>4, <1>5, <1>6, <1>7, <1>8, <1>9 DEF Handle

\* A handler that fails on a locked database keeps the invariant.
LEMMA StallStep ==
    ASSUME IInv, NEW h \in Attempts, Stall(h)
    PROVE  IInv'
  <1>1. /\ serving /\ Frame /\ UNCHANGED <<ledger, lock, events, faultVars, timeouts>>
        /\ At(h, "received") \/ At(h, "audited")
        /\ lockouts < limit.lockouts /\ lockouts' = lockouts + 1 /\ Move(h, "closed")
    BY DEF Stall, LockOut, setting, clientVars, launch, Frame
  <1>2. lockouts' \in 0..limit.lockouts
    BY <1>1, Types, CaseFacts DEF LocalTypes
  <1>3. FaultTypes'
    BY <1>1, Types DEF FaultTypes, Faults!TypeOK, faultVars, Frame
  <1>4. CASE At(h, "received")
    BY <1>1, <1>2, <1>4, RefusedStep
  <1>5. CASE At(h, "audited")
    <2>1. Logged(h) /\ ~At(h, "closed")
      BY <1>5 DEF Logged, Committed, At
    <2> QED
      BY <1>1, <1>2, <1>3, <2>1, LateStep DEF Late
  <1> QED
    BY <1>1, <1>4, <1>5

-----------------------------------------------------------------------------
(* The clients and the adapter                                               *)

\* Their steps leave the service as it is; the adapter at most stops it.
LEMMA ServiceFrame ==
    ASSUME IInv, UNCHANGED <<case, ledger, handlers, events>>,
           serving' => serving /\ UNCHANGED lock
    PROVE  TransactionInv' /\ HandlerInv' /\ OwnerInv' /\ LogInv' /\ GuardedOneEffect'
  <1>1. TransactionInv'
    BY DEF IInv, TransactionInv, At, Guarded, Amount
  <1>2. HandlerInv'
    BY DEF IInv, HandlerInv, Committed, At, Guarded, Amount
  <1>3. OwnerInv'
    BY DEF IInv, OwnerInv, Owns, Committed
  <1>4. LogInv'
    BY DEF IInv, LogInv, Logged, Committed, Record, Amount
  <1> QED
    BY <1>1, <1>2, <1>3, <1>4 DEF IInv, GuardedOneEffect

\* A client's request, first or repeated, keeps the invariant.
LEMMA SendStep ==
    ASSUME IInv, NEW c \in Clients, Send(c)
    PROVE  IInv'
  <1> DEFINE h == <<c, attempt[c] + 1>>
  <1>1. /\ adapter = "requesting" /\ client[c] = "ready"
        /\ (case.scenario = "conflict" /\ c = 2) => client[1] = "done"
        /\ attempt' = [attempt EXCEPT ![c] = attempt[c] + 1]
        /\ client' = [client EXCEPT ![c] = "waiting"]
        /\ Move(h, "received")
        /\ UNCHANGED <<case, limit, ledger, lock, events, faultVars, response, serving, ready,
                       adapter, timeouts, lockouts>>
    BY DEF Send, Move, setting, launch, bounds
  <1>2. /\ attempt \in [Clients -> 0..MaxAttempts] /\ MaxAttempts \in Nat /\ attempt[c] \in Nat
        /\ attempt[c] < MaxAttempts /\ client \in [Clients -> {"ready", "waiting", "done"}]
    BY <1>1, Types, CaseFacts DEF LocalTypes, IInv, ControlInv
  <1>3. h \in Attempts /\ h[1] = c /\ h[2] = attempt[c] + 1
    BY <1>2 DEF Attempts
  <1> HIDE DEF h
  <1>4. Moved(h, "received")
    BY <1>1, <1>3, Types, MoveEffect DEF Places
  <1>5. \A g \in Attempts : /\ handlers'[g].id = handlers[g].id
                            /\ handlers'[g].stored = handlers[g].stored
                            /\ handlers'[g].inserted = handlers[g].inserted
                            /\ handlers'[g].status = handlers[g].status
                            /\ g # h => handlers'[g].at = handlers[g].at
    BY <1>4 DEF Moved, Others
  <1>6. At(h, "absent") /\ handlers'[h].at = "received"
    <2>1. h[2] > attempt[h[1]]
      BY <1>2, <1>3
    <2> QED
      BY <1>3, <1>4, <2>1 DEF IInv, ControlInv, Moved
  <1>7. \A g \in Attempts : (Committed(g)' <=> Committed(g)) /\ (Logged(g)' <=> Logged(g))
                            /\ (At(g, "transaction")' <=> At(g, "transaction"))
    BY <1>5, <1>6 DEF Committed, Logged, At
  <1>8. ControlInv'
    <2>1. attempt'[c] = attempt[c] + 1 /\ client'[c] = "waiting"
      BY <1>1, <1>2
    <2>2. \A d \in Clients : d # c => attempt'[d] = attempt[d] /\ client'[d] = client[d]
      BY <1>1, <1>2
    <2>3. \A d \in Clients : /\ client'[d] = "ready" => attempt'[d] < MaxAttempts
                             /\ client'[d] = "waiting" => attempt'[d] > 0
      BY <1>2, <2>1, <2>2 DEF IInv, ControlInv
    <2>4. ASSUME NEW g \in Attempts
          PROVE  g[2] > attempt'[g[1]] <=> handlers'[g].at = "absent"
      <3>1. g[1] \in Clients /\ g[2] \in Nat /\ g = <<g[1], g[2]>>
        BY <1>2 DEF Attempts
      <3>2. CASE g = h
        BY <1>2, <1>3, <1>6, <2>1, <3>2
      <3>3. CASE g # h
        <4>1. handlers'[g].at = "absent" <=> g[2] > attempt[g[1]]
          BY <1>5, <3>3 DEF IInv, ControlInv, At
        <4>2. g[1] # c \/ g[2] # attempt[c] + 1
          BY <3>1, <3>3 DEF h
        <4>3. CASE g[1] # c
          BY <2>2, <3>1, <4>1, <4>3
        <4>4. CASE g[1] = c
          BY <1>2, <2>1, <3>1, <4>1, <4>2, <4>4
        <4> QED
          BY <4>3, <4>4
      <3> QED
        BY <3>2, <3>3
    <2> QED
      BY <1>1, <2>3, <2>4 DEF IInv, ControlInv, At
  <1>9. ConflictInv'
    <2> SUFFICES ASSUME case.scenario = "conflict", client'[1] # "done"
                 PROVE  attempt'[2] = 0
      BY <1>1 DEF ConflictInv
    <2>1. client[1] # "done"
      BY <1>1, <1>2
    <2>2. c # 2 /\ attempt[2] = 0
      BY <1>1, <2>1 DEF IInv, ConflictInv
    <2>3. 2 \in Clients
      BY Types, CaseFacts
    <2> QED
      BY <1>1, <1>2, <2>2, <2>3
  <1>10. TransactionInv'
    BY <1>1, <1>5, <1>7 DEF IInv, TransactionInv, Guarded, Amount
  <1>11. HandlerInv'
    <2>1. \A g \in Attempts : handlers'[g].at \in {"absent", "received"} =>
                                 handlers[g].at \in {"absent", "received"}
      BY <1>5, <1>6 DEF At
    <2>2. \A g \in Attempts : Committed(g)' => (At(g, "closed")' <=> At(g, "closed"))
      BY <1>5, <1>6, <1>7 DEF At, Committed
    <2> QED
      BY <1>1, <1>5, <1>7, <2>1, <2>2 DEF IInv, HandlerInv, Guarded, Amount
  <1>12. OwnerInv'
    BY <1>1, <1>5, <1>7 DEF IInv, OwnerInv, Owns
  <1>13. LogInv'
    <2>1. \A g \in Attempts : Record(g)' = Record(g)
      BY <1>1, <1>5 DEF Record, Amount
    <2> QED
      BY <1>1, <1>5, <1>7, <2>1 DEF IInv, LogInv
  <1>14. ResponseInv' /\ GuardedOneEffect'
    BY <1>1 DEF IInv, ResponseInv, GuardedOneEffect, Grounded, Guarded, Amount
  <1>15. TypeOK'
    <2>1. attempt[c] + 1 \in 0..MaxAttempts
      BY <1>2
    <2>2. LocalTypes'
      BY <1>1, <1>2, <1>4, <2>1, Types DEF LocalTypes, Moved
    <2>3. FaultTypes' /\ KindTypes'
      BY <1>1, Types DEF FaultTypes, Faults!TypeOK, faultVars, KindTypes
    <2> QED
      BY <2>2, <2>3, TypePartsNext
  <1> QED
    BY <1>8, <1>9, <1>10, <1>11, <1>12, <1>13, <1>14, <1>15 DEF IInv

\* An answer names the row of its handler, and refuses only the changed amount.
LEMMA ReceiveStep ==
    ASSUME IInv, NEW c \in Clients, Receive(c)
    PROVE  IInv'
  <1> DEFINE h == Current(c)
             new == IF handlers[h].status = 200
                      THEN [status |-> 200, id |-> handlers[h].id, amount |-> Amount(c)]
                      ELSE [NoResponse EXCEPT !.status = handlers[h].status]
  <1>1. /\ client[c] = "waiting" /\ At(h, "answered")
        /\ response' = [response EXCEPT ![c] = new]
        /\ client' = [client EXCEPT ![c] = "done"]
        /\ UNCHANGED <<case, limit, ledger, lock, handlers, events, faultVars, attempt, serving,
                       ready, adapter, timeouts, lockouts>>
    BY DEF Receive, setting, launch, bounds
  <1>2. /\ attempt[c] \in 1..MaxAttempts /\ h \in Attempts /\ h[1] = c
        /\ client \in [Clients -> {"ready", "waiting", "done"}]
        /\ handlers[h] \in Handlers /\ Amount(c) \in {25, 99}
    <2>1. attempt[c] \in 1..MaxAttempts
      BY <1>1, Types, CaseFacts DEF LocalTypes, IInv, ControlInv
    <2>2. h \in Attempts /\ h[1] = c
      BY <2>1 DEF Current, Attempts
    <2> QED
      BY <2>1, <2>2, Types DEF LocalTypes, Amount
  <1>3. new \in [status : {0, 200, 409}, id : Nat, amount : {0, 25, 99}]
    BY <1>2 DEF Handlers, NoResponse
  <1>4. response'[c] = new /\ \A d \in Clients : d # c => response'[d] = response[d]
    BY <1>1, Types DEF LocalTypes
  <1>5. /\ handlers[h].id \in DOMAIN ledger /\ ledger[handlers[h].id] = handlers[h].stored
        /\ handlers[h].status = IF handlers[h].stored = Amount(c) THEN 200 ELSE 409
        /\ handlers[h].inserted => handlers[h].stored = Amount(c)
        /\ ~handlers[h].inserted => Guarded
    <2>1. Committed(h) /\ ~At(h, "closed")
      BY <1>1 DEF Committed, At
    <2> QED
      BY <1>2, <2>1 DEF IInv, HandlerInv
  <1>6. /\ new.status = 200 => Grounded(new) /\ new.amount = Amount(c)
        /\ new.status = 409 => handlers[h].stored # Amount(c)
    <2>1. CASE handlers[h].stored = Amount(c)
      BY <1>5, <2>1 DEF Grounded
    <2>2. CASE handlers[h].stored # Amount(c)
      <3>1. handlers[h].status = 409
        BY <1>5, <2>2
      <3>2. new.status = 409
        BY <3>1 DEF NoResponse
      <3> QED
        BY <2>2, <3>2
    <2> QED
      BY <2>1, <2>2
  <1>7. ASSUME handlers[h].stored # Amount(c)
        PROVE  Guarded /\ Len(ledger) = 1 /\ ledger[1] # Amount(c)
    <2>1. Guarded
      BY <1>5, <1>7
    <2>2. Len(ledger) <= 1 /\ Len(ledger) \in Nat /\ DOMAIN ledger = 1..Len(ledger)
      BY <2>1, Types, LenProperties DEF IInv, GuardedOneEffect, Guarded, LocalTypes
    <2>3. handlers[h].id = 1 /\ Len(ledger) = 1
      BY <1>2, <1>5, <2>2
    <2> QED
      BY <1>5, <1>7, <2>1, <2>3
  <1>8. case.scenario = "conflict" /\ c = 1 => new.status # 409
    <2> SUFFICES ASSUME case.scenario = "conflict", c = 1, handlers[h].stored # Amount(c)
                 PROVE  FALSE
      BY <1>6
    <2>1. attempt[2] = 0
      BY <1>1 DEF IInv, ConflictInv
    <2>2. PICK g \in Attempts : Owns(g, handlers[h].id)
      BY <1>5 DEF IInv, OwnerInv
    <2>3. g[1] # 2
      <3>1. g[2] \in 1..MaxAttempts /\ MaxAttempts \in Nat
        BY Types, CaseFacts DEF Attempts
      <3>2. ~At(g, "absent")
        BY <2>2 DEF Owns, Committed, At
      <3> QED
        BY <2>1, <3>1, <3>2 DEF IInv, ControlInv
    <2>4. handlers[g].stored = Amount(g[1]) /\ ledger[handlers[h].id] = handlers[g].stored
      BY <2>2 DEF Owns, IInv, HandlerInv
    <2>5. Amount(g[1]) = 25 /\ Amount(c) = 25
      BY <2>3 DEF Amount
    <2> QED
      BY <1>5, <2>4, <2>5
  <1> HIDE DEF new, h
  <1>9. ResponseInv'
    <2> SUFFICES ASSUME NEW d \in Clients
                 PROVE  (/\ response[d].status = 200 =>
                              Grounded(response[d]) /\ response[d].amount = Amount(d)
                         /\ response[d].status = 409 =>
                              Guarded /\ Len(ledger) = 1 /\ ledger[1] # Amount(d)
                         /\ case.scenario = "conflict" /\ d = 1 => response[d].status # 409)'
      BY DEF ResponseInv
    <2>1. Amount(d)' = Amount(d) /\ (Guarded' <=> Guarded)
      BY <1>1 DEF Amount, Guarded
    <2>2. CASE d = c
      BY <1>1, <1>4, <1>6, <1>7, <1>8, <2>1, <2>2 DEF Grounded
    <2>3. CASE d # c
      BY <1>1, <1>4, <2>1, <2>3 DEF Grounded, IInv, ResponseInv
    <2> QED
      BY <2>2, <2>3
  <1>10. TransactionInv' /\ HandlerInv' /\ OwnerInv' /\ LogInv' /\ GuardedOneEffect'
    BY <1>1, ServiceFrame
  <1>11. ControlInv' /\ ConflictInv'
    <2>1. \A d \in Clients : /\ client'[d] = "ready" => client[d] = "ready"
                             /\ client'[d] = "waiting" => client[d] = "waiting"
                             /\ client'[d] # "done" => client[d] # "done"
      BY <1>1, <1>2
    <2>2. 1 \in Clients
      BY Types, CaseFacts
    <2> QED
      BY <1>1, <2>1, <2>2 DEF IInv, ControlInv, ConflictInv, At
  <1>12. TypeOK'
    <2>1. LocalTypes'
      BY <1>1, <1>2, <1>3, Types DEF LocalTypes
    <2>2. FaultTypes' /\ KindTypes'
      BY <1>1, Types DEF FaultTypes, Faults!TypeOK, faultVars, KindTypes
    <2> QED
      BY <2>1, <2>2, TypePartsNext
  <1> QED
    BY <1>9, <1>10, <1>11, <1>12 DEF IInv

\* A transport failure uses up one attempt.
LEMMA NoAnswerStep ==
    ASSUME IInv, NEW c \in Clients, client[c] = "waiting", NoAnswer(c),
           UNCHANGED <<case, limit, ledger, lock, handlers, events, faultVars, attempt, response,
                       serving, ready, adapter, lockouts>>,
           timeouts' \in 0..limit.timeouts
    PROVE  IInv'
  <1>1. /\ client \in [Clients -> {"ready", "waiting", "done"}]
        /\ attempt[c] \in 0..MaxAttempts /\ MaxAttempts \in Nat /\ 1 \in Clients
    BY Types, CaseFacts DEF LocalTypes
  <1>2. /\ client' \in [Clients -> {"ready", "waiting", "done"}]
        /\ client'[c] = "ready" => attempt[c] < MaxAttempts
        /\ client'[c] # "waiting"
        /\ \A d \in Clients : d # c => client'[d] = client[d]
    BY <1>1 DEF NoAnswer
  <1>3. ControlInv' /\ ConflictInv'
    <2>1. \A d \in Clients : /\ client'[d] = "ready" => attempt'[d] < MaxAttempts
                             /\ client'[d] = "waiting" => attempt'[d] > 0
      BY <1>2 DEF IInv, ControlInv
    <2>2. client'[1] # "done" => client[1] # "done"
      BY <1>1, <1>2
    <2> QED
      BY <2>1, <2>2 DEF IInv, ControlInv, ConflictInv, At
  <1>4. TransactionInv' /\ HandlerInv' /\ OwnerInv' /\ LogInv' /\ GuardedOneEffect'
    BY ServiceFrame
  <1>5. ResponseInv'
    BY DEF IInv, ResponseInv, Grounded, Guarded, Amount
  <1>6. TypeOK'
    <2>1. LocalTypes'
      BY <1>2, Types DEF LocalTypes
    <2>2. FaultTypes' /\ KindTypes'
      BY Types DEF FaultTypes, Faults!TypeOK, faultVars, KindTypes
    <2> QED
      BY <2>1, <2>2, TypePartsNext
  <1> QED
    BY <1>3, <1>4, <1>5, <1>6 DEF IInv

\* Starting, giving up and terminating the service.
LEMMA LaunchStep ==
    ASSUME IInv, UNCHANGED <<case, limit, ledger, handlers, events, faultVars, client, attempt,
                             response, timeouts, lockouts>>,
           lock' \in {lock, Nobody}, serving' => serving /\ UNCHANGED lock,
           serving' \in BOOLEAN, ready' \in {"absent", "empty", "written"},
           adapter' \in {"starting", "reading", "requesting", "ended", "failed"},
           adapter' \in {"starting", "reading", "failed"} =>
             adapter \in {"starting", "reading", "failed"},
           ready' = "written" /\ adapter' \in {"starting", "reading", "requesting"} => serving',
           adapter' = "requesting" => ready' = "written"
    PROVE  IInv'
  <1>1. ControlInv' /\ ConflictInv'
    BY DEF IInv, ControlInv, ConflictInv, At
  <1>2. TransactionInv' /\ HandlerInv' /\ OwnerInv' /\ LogInv' /\ GuardedOneEffect'
    BY ServiceFrame
  <1>3. ResponseInv'
    BY DEF IInv, ResponseInv, Grounded, Guarded, Amount
  <1>4. TypeOK'
    <2>1. LocalTypes'
      BY Types DEF LocalTypes
    <2>2. FaultTypes' /\ KindTypes'
      BY Types DEF FaultTypes, Faults!TypeOK, faultVars, KindTypes
    <2> QED
      BY <2>1, <2>2, TypePartsNext
  <1> QED
    BY <1>1, <1>2, <1>3, <1>4 DEF IInv

\* The invariant is inductive.
LEMMA StepIInv == IInv /\ [Next]_vars => IInv'
  <1> SUFFICES ASSUME IInv, [Next]_vars PROVE IInv'
    OBVIOUS
  <1>1. /\ serving \in BOOLEAN /\ ready \in {"absent", "empty", "written"}
        /\ adapter \in {"starting", "reading", "requesting", "ended", "failed"}
        /\ timeouts \in 0..limit.timeouts /\ limit.timeouts \in Nat
        /\ ready = "written" /\ adapter \in {"starting", "reading", "requesting"} => serving
        /\ adapter = "requesting" => ready = "written"
    BY Types, CaseFacts DEF LocalTypes, IInv, ControlInv
  <1>2. ASSUME NEW h \in Attempts, Handle(h) \/ Stall(h) PROVE IInv'
    BY <1>2, HandleStep, StallStep
  <1>3. ASSUME NEW c \in Clients, Disconnected(c) PROVE IInv'
    <2>1. timeouts' \in 0..limit.timeouts
      BY <1>1, <1>3 DEF Disconnected, bounds
    <2> QED
      BY <1>3, <2>1, NoAnswerStep DEF Disconnected, setting, launch, bounds
  <1>4. ASSUME NEW c \in Clients, TimeOut(c) PROVE IInv'
    <2>1. timeouts' \in 0..limit.timeouts
      BY <1>1, <1>4 DEF TimeOut
    <2> QED
      BY <1>4, <2>1, NoAnswerStep DEF TimeOut, setting, launch
  <1>5. ASSUME NEW c \in Clients, Send(c) \/ Receive(c) PROVE IInv'
    BY <1>5, SendStep, ReceiveStep
  <1>6. CASE Announce
    BY <1>1, <1>6, LaunchStep DEF Announce, setting, clientVars, bounds
  <1>7. CASE ServiceDies
    BY <1>1, <1>7, LaunchStep DEF ServiceDies, setting, clientVars, launch, bounds
  <1>8. CASE Discover
    BY <1>1, <1>8, LaunchStep DEF Discover, setting, clientVars, bounds
  <1>9. CASE GiveUp
    BY <1>1, <1>9, LaunchStep DEF GiveUp, setting, clientVars, bounds
  <1>10. CASE Terminate
    BY <1>1, <1>10, LaunchStep DEF Terminate, setting, clientVars, bounds
  <1>11. CASE UNCHANGED vars
    BY <1>1, <1>11, LaunchStep DEF vars, faultVars
  <1> QED
    BY <1>2, <1>3, <1>4, <1>5, <1>6, <1>7, <1>8, <1>9, <1>10, <1>11 DEF Next, Step, Adapter

\* The inductive invariant holds in every behaviour.
LEMMA Invariance == Spec => []IInv
  BY InitIInv, StepIInv, PTL DEF Spec

-----------------------------------------------------------------------------
(* Withheld responses                                                        *)

\* A response_not_sent record is that of a handler that committed and closed
\* its connection.
DropInv ==
    \A e \in events : e.kind = "response_not_sent" =>
        \E h \in Attempts :
            /\ At(h, "closed") /\ handlers[h].status # 0
            /\ e = [kind |-> "response_not_sent", attempt |-> h, id |-> handlers[h].id]

\* A handler that has closed its connection or answered is done with.
LEMMA FinishedStays ==
    ASSUME IInv, [Next]_vars, NEW g \in Attempts, At(g, "closed") \/ At(g, "answered")
    PROVE  handlers'[g] = handlers[g]
  <1>1. handlers \in [Attempts -> Handlers]
    BY Types DEF LocalTypes
  <1>2. ASSUME NEW h \in Attempts, Handle(h) \/ Stall(h) PROVE handlers'[g] = handlers[g]
    <2>1. g # h
      BY <1>2 DEF Handle, Stall, Begin, Commit, Audit, LoseAcknowledgement, Drop, Reply, LockOut, At
    <2>2. ~Commit(h) => Others(h)
      BY <1>1, <1>2 DEF Handle, Stall, Begin, Audit, LoseAcknowledgement, Drop, Reply, LockOut,
                        Move, Others
    <2>3. Commit(h) => Others(h)
      BY <1>1 DEF Commit, Move, Others
    <2> QED
      BY <2>1, <2>2, <2>3 DEF Others
  <1>3. ASSUME NEW c \in Clients, Send(c) PROVE handlers'[g] = handlers[g]
    <2> DEFINE h == <<c, attempt[c] + 1>>
    <2>1. attempt[c] < MaxAttempts /\ attempt[c] \in 0..MaxAttempts /\ MaxAttempts \in Nat
      BY <1>3, Types, CaseFacts DEF Send, LocalTypes, IInv, ControlInv
    <2>2. h \in Attempts /\ h[2] > attempt[h[1]]
      BY <2>1 DEF Attempts
    <2>3. At(h, "absent")
      BY <2>2 DEF IInv, ControlInv
    <2> HIDE DEF h
    <2>4. g # h
      BY <2>3 DEF At
    <2> QED
      BY <1>1, <1>3, <2>4 DEF Send, h
  <1> QED
    BY <1>2, <1>3 DEF Next, Step, Adapter, Receive, Disconnected, TimeOut, Announce, ServiceDies,
                      Discover, GiveUp, Terminate, vars

\* The invariant of the dropped answers is inductive with it.
LEMMA DropStep == IInv /\ DropInv /\ [Next]_vars => DropInv'
  <1> SUFFICES ASSUME IInv, DropInv, [Next]_vars PROVE DropInv'
    OBVIOUS
  <1>1. ASSUME NEW h \in Attempts, At(h, "closed") PROVE handlers'[h] = handlers[h]
    BY <1>1, FinishedStays
  <1>2. CASE \E h \in Attempts : Handle(h) /\ Drop(h)
    <2> PICK h \in Attempts : Handle(h) /\ Drop(h)
      BY <1>2
    <2> DEFINE new == [kind |-> "response_not_sent", attempt |-> h, id |-> handlers[h].id]
    <2>1. Moved(h, "closed") /\ events' = events \union {new}
      BY Types, MoveEffect DEF Drop, Places
    <2>2. handlers[h].status # 0
      BY DEF IInv, HandlerInv, Drop, At, Committed
    <2>3. /\ handlers'[h].at = "closed" /\ handlers'[h].status # 0
          /\ new = [kind |-> "response_not_sent", attempt |-> h, id |-> handlers'[h].id]
      BY <2>1, <2>2 DEF Moved
    <2> QED
      BY <1>1, <2>1, <2>3 DEF DropInv, At
  <1>3. CASE ~\E h \in Attempts : Handle(h) /\ Drop(h)
    <2>1. \A e \in events' : e \in events \/ e.kind = "transaction"
      <3>1. ASSUME NEW h \in Attempts, Handle(h)
            PROVE  \A e \in events' : e \in events \/ e.kind = "transaction"
        <4>1. CASE Audit(h)
          BY <4>1 DEF Audit
        <4>2. CASE ~Audit(h)
          BY <1>3, <3>1, <4>2 DEF Handle
        <4> QED
          BY <4>1, <4>2
      <3>2. CASE UNCHANGED events
        BY <3>2
      <3> QED
        BY <3>1, <3>2 DEF Next, Stall, Step, Adapter, Send, Receive, Disconnected, TimeOut,
                          Announce, ServiceDies, Discover, GiveUp, Terminate, vars
    <2> QED
      BY <1>1, <2>1 DEF DropInv, At
  <1> QED
    BY <1>2, <1>3

\* Both hold in every reachable state.
LEMMA DropInvariance == Spec => [](IInv /\ DropInv)
  <1>1. Init => IInv /\ DropInv
    BY InitIInv DEF Init, DropInv
  <1>2. IInv /\ DropInv /\ [Next]_vars => (IInv /\ DropInv)'
    BY StepIInv, DropStep
  <1> QED
    BY <1>1, <1>2, PTL DEF Spec

-----------------------------------------------------------------------------
(* The invariant of the service                                              *)

\* Every row is claimed by one record or by one handler that has yet to write it.
LEMMA AuditHolds == IInv => AuditComplete
  <1> SUFFICES ASSUME IInv, NEW i \in DOMAIN ledger
               PROVE  LET inserts == {e \in events : e.kind = "transaction" /\ e.inserted
                                                       /\ e.id = i}
                          pending == {h \in Pending : handlers[h].id = i}
                      IN  /\ Cardinality(inserts) + Cardinality(pending) = 1
                          /\ \A e \in inserts : e.stored = ledger[i]
    BY DEF AuditComplete
  <1> DEFINE inserts == {e \in events : e.kind = "transaction" /\ e.inserted /\ e.id = i}
             pending == {h \in Pending : handlers[h].id = i}
  <1>1. PICK h \in Attempts : Owns(h, i)
    BY DEF IInv, OwnerInv
  <1>2. \A g \in Attempts : Owns(g, i) => g = h
    BY <1>1 DEF IInv, OwnerInv
  <1>3. \A e \in inserts : Logged(h) /\ e = Record(h)
    BY <1>2 DEF IInv, LogInv, Record, Owns, Logged
  <1>4. pending \subseteq {h}
    BY <1>2 DEF Pending, Owns, Committed, At
  <1>5. \A e \in inserts : e.stored = ledger[i]
    BY <1>1, <1>3 DEF Record, Owns, IInv, HandlerInv
  <1>6. Cardinality(inserts) + Cardinality(pending) = 1
    <2>1. CASE At(h, "committed")
      <3>1. inserts = {} /\ pending = {h}
        BY <1>1, <1>3, <1>4, <2>1 DEF Logged, At, Pending, Owns
      <3> HIDE DEF inserts, pending
      <3>2. Cardinality(inserts) = 0 /\ Cardinality(pending) = 1
        BY <3>1, FS_EmptySet, FS_Singleton
      <3> QED
        BY <3>2
    <2>2. CASE ~At(h, "committed")
      <3>1. Logged(h) /\ handlers[h].status # 0
        BY <1>1, <2>2 DEF Owns, Logged, At, IInv, HandlerInv
      <3>2. Record(h) \in events /\ Record(h).kind = "transaction" /\ Record(h).inserted
            /\ Record(h).id = i
        BY <1>1, <3>1 DEF IInv, LogInv, Record, Owns
      <3>3. inserts = {Record(h)} /\ pending = {}
        BY <1>3, <1>4, <2>2, <3>2 DEF Pending
      <3> HIDE DEF inserts, pending
      <3>4. Cardinality(inserts) = 1 /\ Cardinality(pending) = 0
        BY <3>3, FS_EmptySet, FS_Singleton
      <3> QED
        BY <3>4
    <2> QED
      BY <2>1, <2>2
  <1> QED
    BY <1>5, <1>6

\* A service that did not come up has neither charged nor logged anything.
LEMMA LaunchedHolds == IInv /\ DropInv => Launched
  <1> SUFFICES ASSUME IInv, DropInv PROVE Launched
    OBVIOUS
  <1>1. adapter = "requesting" => serving /\ ready = "written"
    BY DEF IInv, ControlInv
  <1>2. (\E c \in Clients : attempt[c] > 0) => adapter \in {"requesting", "ended"}
    BY Types DEF IInv, ControlInv, LocalTypes
  <1>3. ASSUME adapter = "failed" PROVE ledger = <<>> /\ events = {}
    <2>1. \A h \in Attempts : At(h, "absent")
      BY <1>3, Types, CaseFacts DEF IInv, ControlInv, Attempts
    <2>2. DOMAIN ledger = {}
      BY <2>1 DEF IInv, OwnerInv, Owns, Committed, At
    <2>3. ledger = <<>>
      BY <2>2, Types, EmptySeq DEF LocalTypes
    <2>4. events = {}
      BY <2>1 DEF IInv, LogInv, DropInv, ControlInv, Logged, Committed, At
    <2> QED
      BY <2>3, <2>4
  <1> QED
    BY <1>1, <1>2, <1>3 DEF Launched

\* The service of http_adapter.py keeps its promises for any number of clients
\* and attempts: a guarded one charges once, the log accounts for every row but
\* those whose record is yet to come, every answer is one the ledger bears out,
\* and requests go only to a service that has announced itself.
THEOREM ServiceKept == Spec => []ServiceInv
  <1>1. IInv /\ DropInv => ServiceInv
    <2> SUFFICES ASSUME IInv, DropInv PROVE ServiceInv
      OBVIOUS
    <2>1. ResponsesGrounded
      BY DEF IInv, ResponseInv, ResponsesGrounded, Status
    <2> QED
      BY <2>1, AuditHolds, LaunchedHolds DEF IInv, ServiceInv
  <1> QED
    BY <1>1, DropInvariance, PTL

-----------------------------------------------------------------------------
(* Sessions: what a client was told and how it came by it                    *)

\* Only the requests of the scenario are made, a receipt is that of the last
\* attempt, and a response is withheld only where the schedule says so.
SessionInv ==
    /\ adapter = "ended" => \A c \in Active : client[c] = "done"
    /\ \A c \in Clients : attempt[c] > 0 => c \in Active
    /\ \A c \in Clients : response[c].status # 0 =>
         /\ client[c] = "done" /\ Current(c) \in Attempts /\ At(Current(c), "answered")
         /\ handlers[Current(c)].status = response[c].status
         /\ response[c].status = 200 => handlers[Current(c)].id = response[c].id
    /\ \A h \in Attempts : At(h, "dropping") => case.scenario = "lost-ack"
    /\ \A e \in events : e.kind = "response_not_sent" => case.scenario = "lost-ack"

\* While nothing was late and no lock timed out, the one response that is
\* withheld is the first of "lost-ack", whose handler has inserted the row; a
\* client sends again only after its last attempt was closed, and is done only
\* with an answer.
Quiet == timeouts = 0 /\ lockouts = 0
First == <<1, 1>>
DropRecord(h) == [kind |-> "response_not_sent", attempt |-> h, id |-> handlers[h].id]
QuietInv ==
    Quiet =>
        /\ \A h \in Attempts : At(h, "dropping") \/ At(h, "closed") =>
             h = First /\ case.scenario = "lost-ack"
        /\ \A h \in Attempts : At(h, "closed") =>
             handlers[h].status # 0 /\ DropRecord(h) \in events
        /\ \A c \in Clients : client[c] = "ready" =>
             attempt[c] = 0 \/ At(Current(c), "closed")
        /\ \A h \in Attempts : h[2] < attempt[h[1]] => At(h, "closed")
        /\ \A c \in Clients : client[c] = "done" => response[c].status # 0
        /\ case.scenario = "lost-ack" =>
             /\ calls[1] = 0 <=> handlers[First].at \in {"absent", "received", "transaction",
                                                         "committed", "audited"}
             /\ ~At(First, "replying") /\ ~At(First, "answered")
             /\ handlers[First].at \notin {"absent", "received"} => handlers[First].inserted

\* One step of a handler, as far as sessions depend on it.
Same(h) ==
    /\ handlers'[h].inserted = handlers[h].inserted /\ handlers'[h].status = handlers[h].status
    /\ handlers'[h].id = handlers[h].id
Stage(h, s, t) == At(h, s) /\ handlers'[h].at = t
Progress(h) ==
    \/ /\ Stage(h, "received", "transaction")
       /\ handlers'[h].inserted = ~(ledger # <<>> /\ Guarded)
       /\ UNCHANGED <<events, calls>>
    \/ /\ Stage(h, "transaction", "committed")
       /\ handlers'[h].inserted = handlers[h].inserted
       /\ UNCHANGED <<events, calls>>
    \/ /\ Stage(h, "committed", "audited") /\ Same(h)
       /\ events' = events \union {Record(h)} /\ UNCHANGED calls
    \/ /\ Stage(h, "audited", "replying") \/ Stage(h, "audited", "dropping")
       /\ Same(h) /\ LoseAcknowledgement(h) /\ UNCHANGED events
    \/ /\ Stage(h, "dropping", "closed") /\ Same(h)
       /\ events' = events \union {DropRecord(h)} /\ UNCHANGED calls
    \/ /\ Stage(h, "replying", "answered") /\ Same(h)
       /\ UNCHANGED <<events, calls>>

\* A handler's step is one of its stages, and touches no other handler or client.
LEMMA HandleEffect ==
    ASSUME IInv, NEW h \in Attempts, Handle(h)
    PROVE  Others(h) /\ Progress(h) /\ Frame /\ UNCHANGED <<timeouts, lockouts, binding>>
  <1>1. handlers \in [Attempts -> Handlers] /\ LocalTypes
    BY Types DEF LocalTypes
  <1>2. \A s \in Places : Move(h, s) => Moved(h, s)
    BY <1>1, MoveEffect
  <1>3. Frame /\ UNCHANGED <<timeouts, lockouts, binding>>
    BY DEF Handle, Frame, setting, clientVars, launch, bounds, faultVars, LoseAcknowledgement,
           Faults!Apply, Faults!Claim, Faults!journalVars
  <1>4. CASE Begin(h) /\ UNCHANGED <<ledger, events, faultVars>>
    <2>1. /\ At(h, "received") /\ handlers'[h].at = "transaction" /\ Others(h)
          /\ handlers'[h].inserted = ~(ledger # <<>> /\ Guarded)
      BY <1>1, <1>4 DEF Begin, Others, Guarded
    <2> QED
      BY <1>3, <1>4, <2>1 DEF Progress, Stage, faultVars
  <1>5. CASE Commit(h) /\ UNCHANGED <<events, faultVars>>
    <2>1. CASE handlers[h].inserted
      <3>1. handlers' = [handlers EXCEPT ![h].at = "committed", ![h].id = Len(ledger) + 1]
        BY <1>5, <2>1 DEF Commit
      <3>2. /\ handlers'[h].at = "committed" /\ Others(h)
            /\ handlers'[h].inserted = handlers[h].inserted
        BY <1>1, <3>1 DEF Others, Handlers
      <3> QED
        BY <1>3, <1>5, <3>2 DEF Progress, Stage, faultVars, Commit
    <2>2. CASE ~handlers[h].inserted
      <3>1. Moved(h, "committed")
        BY <1>2, <1>5, <2>2 DEF Commit, Places
      <3> QED
        BY <1>3, <1>5, <3>1 DEF Progress, Stage, faultVars, Commit, Moved
    <2> QED
      BY <2>1, <2>2
  <1>6. CASE Audit(h) /\ UNCHANGED <<ledger, lock, faultVars>>
    <2>1. Moved(h, "audited")
      BY <1>2, <1>6 DEF Audit, Places
    <2> QED
      BY <1>3, <1>6, <2>1 DEF Progress, Stage, Same, faultVars, Audit, Moved, Record
  <1>7. CASE LoseAcknowledgement(h) /\ UNCHANGED <<ledger, lock, events>>
    <2>1. Moved(h, "replying") \/ Moved(h, "dropping")
      BY <1>2, <1>7 DEF LoseAcknowledgement, Places
    <2>2. At(h, "audited")
      BY <1>7 DEF LoseAcknowledgement
    <2> QED
      BY <1>3, <1>7, <2>1, <2>2 DEF Progress, Stage, Same, Moved
  <1>8. CASE Drop(h) /\ UNCHANGED <<ledger, lock, faultVars>>
    <2>1. Moved(h, "closed")
      BY <1>2, <1>8 DEF Drop, Places
    <2> QED
      BY <1>3, <1>8, <2>1 DEF Progress, Stage, Same, faultVars, Drop, Moved, DropRecord
  <1>9. CASE Reply(h) /\ UNCHANGED <<ledger, lock, events, faultVars>>
    <2>1. Moved(h, "answered")
      BY <1>2, <1>9 DEF Reply, Places
    <2> QED
      BY <1>3, <1>9, <2>1 DEF Progress, Stage, Same, faultVars, Reply, Moved
  <1> QED
    BY <1>4, <1>5, <1>6, <1>7, <1>8, <1>9 DEF Handle

\* What faults.apply decides for a handler: only the first call of "lost-ack"
\* loses its acknowledgement.
LEMMA LossEffect ==
    ASSUME IInv, NEW h \in Attempts, LoseAcknowledgement(h)
    PROVE  /\ case.scenario # "lost-ack" => handlers'[h].at = "replying" /\ UNCHANGED calls
           /\ case.scenario = "lost-ack" =>
                /\ calls'[1] # 0
                /\ handlers'[h].at = IF calls[1] = 0 THEN "dropping" ELSE "replying"
  <1>1. /\ binding = Schedule(case.scenario) /\ calls \in [Faults!Rules -> Nat]
        /\ handlers \in [Attempts -> Handlers]
    BY Types DEF FaultTypes, Faults!TypeOK, LocalTypes
  <1>2. PICK outcome \in {"none", "retryable"} :
           /\ Faults!Apply("http_charge", "after", outcome)
           /\ Move(h, IF outcome = "none" THEN "replying" ELSE "dropping")
    BY DEF LoseAcknowledgement
  <1>3. handlers'[h].at = IF outcome = "none" THEN "replying" ELSE "dropping"
    BY <1>1, <1>2 DEF Move
  <1>4. CASE case.scenario # "lost-ack"
    <2>1. Faults!Matching(binding, "http_charge", "after") = {}
      BY <1>1, <1>4 DEF Schedule, Faults!Matching
    <2> QED
      BY <1>2, <1>3, <1>4, <2>1 DEF Faults!Apply, Faults!journalVars
  <1>5. CASE case.scenario = "lost-ack"
    <2>1. binding = <<LostAck>> /\ 1 \in Faults!Rules /\ calls[1] \in Nat
      BY <1>1, <1>5 DEF Schedule, Faults!Rules
    <2>2. Faults!Matching(binding, "http_charge", "after") = {1}
      BY <2>1 DEF Faults!Matching, LostAck
    <2>3. /\ Faults!Claim(1)
          /\ outcome = IF Faults!Fires(binding[1], calls[1] + 1)
                         THEN Faults!Outcome(binding[1].kind) ELSE "none"
      BY <1>2, <2>2 DEF Faults!Apply
    <2>4. calls'[1] = calls[1] + 1
      BY <1>1, <2>1, <2>3 DEF Faults!Claim
    <2>5. Faults!Outcome(binding[1].kind) = "retryable"
      BY <2>1 DEF Faults!Outcome, LostAck
    <2>6. Faults!Fires(binding[1], calls[1] + 1) <=> calls[1] = 0
      BY <2>1 DEF Faults!Fires, LostAck
    <2> QED
      BY <1>3, <1>5, <2>1, <2>3, <2>4, <2>5, <2>6
  <1> QED
    BY <1>4, <1>5

\* A client's next request starts a handler of its own.
LEMMA SendEffect ==
    ASSUME IInv, NEW c \in Clients, Send(c)
    PROVE  LET h == <<c, attempt[c] + 1>>
           IN  /\ h \in Attempts /\ Others(h) /\ Stage(h, "absent", "received") /\ Same(h)
               /\ client[c] = "ready" /\ client'[c] = "waiting" /\ c \in Active
               /\ attempt'[c] = attempt[c] + 1 /\ attempt[c] \in Nat
               /\ \A d \in Clients : d # c => client'[d] = client[d] /\ attempt'[d] = attempt[d]
               /\ UNCHANGED <<case, limit, events, calls, response, adapter, timeouts, lockouts>>
  <1> DEFINE h == <<c, attempt[c] + 1>>
  <1>1. /\ attempt \in [Clients -> 0..MaxAttempts] /\ MaxAttempts \in Nat
        /\ client \in [Clients -> {"ready", "waiting", "done"}]
        /\ client[c] = "ready" /\ attempt[c] < MaxAttempts
    BY Types, CaseFacts DEF LocalTypes, Send, IInv, ControlInv
  <1>2. h \in Attempts /\ h[2] > attempt[h[1]]
    BY <1>1 DEF Attempts
  <1>3. At(h, "absent") /\ Move(h, "received")
    BY <1>2 DEF IInv, ControlInv, Send, Move
  <1>4. Moved(h, "received")
    BY <1>2, <1>3, Types, MoveEffect DEF Places
  <1> HIDE DEF h
  <1>5. Others(h) /\ Stage(h, "absent", "received") /\ Same(h)
    BY <1>3, <1>4 DEF Moved, Stage, Same
  <1>6. /\ client'[c] = "waiting" /\ c \in Active /\ attempt'[c] = attempt[c] + 1
        /\ \A d \in Clients : d # c => client'[d] = client[d] /\ attempt'[d] = attempt[d]
        /\ UNCHANGED <<case, limit, events, calls, response, adapter, timeouts, lockouts>>
    BY <1>1 DEF Send, setting, faultVars, launch, bounds
  <1> QED
    BY <1>1, <1>2, <1>5, <1>6 DEF h

\* A handler that fails on a locked database.
LEMMA StallEffect ==
    ASSUME IInv, NEW h \in Attempts, Stall(h)
    PROVE  /\ Others(h) /\ handlers'[h].at = "closed" /\ Same(h)
           /\ Frame /\ UNCHANGED <<events, calls, timeouts>> /\ lockouts' # 0
  <1>1. Moved(h, "closed")
    BY Types, MoveEffect DEF Stall, LockOut, Places
  <1>2. lockouts' # 0
    BY Types, CaseFacts DEF Stall, LockOut, LocalTypes
  <1> QED
    BY <1>1, <1>2 DEF Moved, Same, Stall, Frame, setting, faultVars, clientVars, launch

\* What the clients and the adapter leave alone.
Idle == UNCHANGED <<case, limit, handlers, events, calls>>

\* A step is a handler's, a client's request, or leaves handlers and log alone.
LEMMA IdleSteps ==
    ASSUME [Next]_vars
    PROVE  \/ \E h \in Attempts : Handle(h) \/ Stall(h)
           \/ \E c \in Clients : Send(c)
           \/ Idle
  <1>1. ASSUME NEW c \in Clients, Receive(c) \/ Disconnected(c) \/ TimeOut(c) PROVE Idle
    BY <1>1 DEF Receive, Disconnected, TimeOut, Idle, setting, faultVars
  <1>2. ASSUME Announce \/ ServiceDies \/ Adapter \/ UNCHANGED vars PROVE Idle
    BY <1>2 DEF Announce, ServiceDies, Adapter, Discover, GiveUp, Terminate, vars, Idle, setting,
                faultVars
  <1> QED
    BY <1>1, <1>2 DEF Next, Step

\* A client that is done has sent its last request and keeps its receipt.
LEMMA DoneStays ==
    ASSUME IInv, [Next]_vars, NEW c \in Clients, client[c] = "done"
    PROVE  client'[c] = "done" /\ attempt'[c] = attempt[c] /\ response'[c] = response[c]
  <1>1. /\ client \in [Clients -> {"ready", "waiting", "done"}]
        /\ attempt \in [Clients -> 0..MaxAttempts]
        /\ response \in [Clients -> [status : {0, 200, 409}, id : Nat, amount : {0, 25, 99}]]
    BY Types DEF LocalTypes
  <1>2. ASSUME NEW d \in Clients, Send(d) \/ Receive(d) \/ Disconnected(d) \/ TimeOut(d)
        PROVE  client'[c] = "done" /\ attempt'[c] = attempt[c] /\ response'[c] = response[c]
    <2>1. d # c
      BY <1>2 DEF Send, Receive, Disconnected, TimeOut
    <2>2. CASE Send(d)
      BY <1>1, <2>1, <2>2 DEF Send
    <2>3. CASE Receive(d)
      BY <1>1, <2>1, <2>3 DEF Receive
    <2>4. CASE Disconnected(d)
      BY <1>1, <2>1, <2>4 DEF Disconnected, NoAnswer
    <2>5. CASE TimeOut(d)
      BY <1>1, <2>1, <2>5 DEF TimeOut, NoAnswer
    <2> QED
      BY <1>2, <2>2, <2>3, <2>4, <2>5
  <1>3. CASE UNCHANGED clientVars
    BY <1>3 DEF clientVars
  <1> QED
    BY <1>2, <1>3 DEF Next, Step, Adapter, Handle, Stall, Announce, ServiceDies, Discover,
                      GiveUp, Terminate, vars, clientVars

\* A receipt is that of the handler that answered.
LEMMA ReceiveEffect ==
    ASSUME IInv, NEW c \in Clients, Receive(c)
    PROVE  LET h == Current(c)
           IN  /\ h \in Attempts /\ At(h, "answered") /\ handlers[h].status # 0
               /\ client'[c] = "done" /\ response'[c].status = handlers[h].status
               /\ handlers[h].status = 200 => response'[c].id = handlers[h].id
               /\ \A d \in Clients : d # c => client'[d] = client[d] /\ response'[d] = response[d]
               /\ UNCHANGED <<attempt, adapter, timeouts, lockouts>> /\ Idle
  <1> DEFINE h == Current(c)
             new == IF handlers[h].status = 200
                      THEN [status |-> 200, id |-> handlers[h].id, amount |-> Amount(c)]
                      ELSE [NoResponse EXCEPT !.status = handlers[h].status]
  <1>1. /\ client[c] = "waiting" /\ At(h, "answered") /\ response' = [response EXCEPT ![c] = new]
        /\ client' = [client EXCEPT ![c] = "done"]
        /\ UNCHANGED <<attempt, adapter, timeouts, lockouts>> /\ Idle
    BY DEF Receive, Idle, setting, faultVars, launch, bounds
  <1>2. h \in Attempts
    BY <1>1, Types, CaseFacts DEF LocalTypes, IInv, ControlInv, Current, Attempts
  <1>3. handlers[h].status # 0
    BY <1>1, <1>2 DEF IInv, HandlerInv, At, Committed
  <1>4. new.status = handlers[h].status /\ (handlers[h].status = 200 => new.id = handlers[h].id)
    BY DEF NoResponse
  <1> HIDE DEF new, h
  <1>5. /\ client'[c] = "done" /\ response'[c] = new
        /\ \A d \in Clients : d # c => client'[d] = client[d] /\ response'[d] = response[d]
    BY <1>1, Types DEF LocalTypes
  <1> QED
    BY <1>1, <1>2, <1>3, <1>4, <1>5 DEF h

\* The invariant of the client sessions is inductive.
LEMMA SessionStep == IInv /\ SessionInv /\ [Next]_vars => SessionInv'
  <1> SUFFICES ASSUME IInv, SessionInv, [Next]_vars PROVE SessionInv'
    OBVIOUS
  <1>1. UNCHANGED <<case, limit>> /\ Active' = Active
    <2>1. UNCHANGED <<case, limit>>
      BY DEF Next, Step, Adapter, Handle, Stall, Send, Receive, Disconnected, TimeOut, Announce,
             ServiceDies, Discover, GiveUp, Terminate, vars, setting
    <2> QED
      BY <2>1 DEF Active
  <1>2. adapter' = "ended" => \A c \in Active : client'[c] = "done"
    <2> SUFFICES ASSUME adapter' = "ended" PROVE \A c \in Active : client[c] = "done"
      BY DoneStays, Types, CaseFacts
    <2>1. CASE adapter = "ended"
      BY <2>1 DEF SessionInv
    <2>2. CASE adapter # "ended"
      BY <2>2 DEF Next, Step, Adapter, Handle, Stall, Send, Receive, Disconnected, TimeOut,
                  Announce, ServiceDies, Discover, GiveUp, Terminate, vars, launch
    <2> QED
      BY <2>1, <2>2
  <1>3. \A c \in Clients : attempt'[c] > 0 => c \in Active
    <2>1. ASSUME NEW d \in Clients, Send(d)
          PROVE  \A c \in Clients : attempt'[c] > 0 => c \in Active
      BY <2>1, SendEffect DEF SessionInv
    <2>2. CASE UNCHANGED attempt
      BY <2>2 DEF SessionInv
    <2> QED
      BY <2>1, <2>2 DEF Next, Step, Adapter, Handle, Stall, Receive, Disconnected, TimeOut,
                        Announce, ServiceDies, Discover, GiveUp, Terminate, vars, clientVars
  <1>4. ASSUME NEW c \in Clients, response'[c].status # 0
        PROVE  /\ client'[c] = "done" /\ Current(c)' \in Attempts /\ At(Current(c), "answered")'
               /\ handlers'[Current(c)'].status = response'[c].status
               /\ response'[c].status = 200 => handlers'[Current(c)'].id = response'[c].id
    <2>1. CASE response[c].status # 0
      <3>1. client'[c] = "done" /\ Current(c)' = Current(c) /\ response'[c] = response[c]
        BY <2>1, DoneStays DEF SessionInv, Current
      <3>2. handlers'[Current(c)] = handlers[Current(c)]
        BY <2>1, FinishedStays DEF SessionInv
      <3> QED
        BY <2>1, <3>1, <3>2 DEF SessionInv, At
    <2>2. CASE response[c].status = 0
      <3>1. PICK d \in Clients : Receive(d)
        BY <1>4, <2>2 DEF Next, Step, Adapter, Handle, Stall, Send, Disconnected, TimeOut,
             Announce, ServiceDies, Discover, GiveUp, Terminate, vars, clientVars
      <3>2. d = c
        BY <1>4, <2>2, <3>1, ReceiveEffect
      <3>3. Current(c)' = Current(c) /\ UNCHANGED handlers
        BY <3>1, ReceiveEffect DEF Current, Idle
      <3> QED
        BY <3>1, <3>2, <3>3, ReceiveEffect DEF At
    <2> QED
      BY <2>1, <2>2
  <1>5. ASSUME NEW g \in Attempts, At(g, "dropping")' PROVE case.scenario = "lost-ack"
    <2>1. CASE At(g, "dropping")
      BY <2>1 DEF SessionInv
    <2>2. CASE ~At(g, "dropping")
      <3>1. ASSUME NEW h \in Attempts, Handle(h) PROVE case.scenario = "lost-ack"
        <4>1. Others(h) /\ Progress(h)
          BY <3>1, HandleEffect
        <4>2. g = h
          BY <1>5, <2>2, <4>1 DEF Others, At
        <4>3. LoseAcknowledgement(h)
          BY <1>5, <4>1, <4>2 DEF Progress, Stage, At
        <4> QED
          BY <1>5, <4>2, <4>3, LossEffect DEF At
      <3>2. ASSUME NEW h \in Attempts, Stall(h) PROVE FALSE
        BY <1>5, <2>2, <3>2, StallEffect DEF Others, At
      <3>3. ASSUME NEW c \in Clients, Send(c) PROVE FALSE
        BY <1>5, <2>2, <3>3, SendEffect DEF Others, At, Stage
      <3> QED
        BY <1>5, <2>2, <3>1, <3>2, <3>3, IdleSteps DEF Idle, At
    <2> QED
      BY <2>1, <2>2
  <1>6. ASSUME NEW e \in events', e.kind = "response_not_sent" PROVE case.scenario = "lost-ack"
    <2>1. CASE e \in events
      BY <1>6, <2>1 DEF SessionInv
    <2>2. CASE e \notin events
      <3>1. PICK h \in Attempts : Handle(h)
        BY <1>6, <2>2, IdleSteps, StallEffect, SendEffect DEF Idle
      <3>2. At(h, "dropping")
        BY <1>6, <2>2, <3>1, HandleEffect DEF Progress, Stage, Record
      <3> QED
        BY <3>2 DEF SessionInv
    <2> QED
      BY <2>1, <2>2
  <1> QED
    BY <1>1, <1>2, <1>3, <1>4, <1>5, <1>6 DEF SessionInv

\* The first handler has not yet decided whether to answer.
FirstOpen == handlers[First].at \in {"absent", "received", "transaction", "committed", "audited"}

\* The invariant of runs in which nothing is late is inductive.
LEMMA QuietStep == IInv /\ SessionInv /\ QuietInv /\ [Next]_vars => QuietInv'
  <1> SUFFICES ASSUME IInv, SessionInv, QuietInv, [Next]_vars, Quiet' PROVE QuietInv'
    BY DEF QuietInv
  <1>1. /\ timeouts \in Nat /\ lockouts \in Nat /\ MaxAttempts \in Nat \ {0, 1}
        /\ First \in Attempts /\ 1 \in Clients
        /\ \A h \in Attempts : h[1] \in Clients /\ h[2] \in 1..MaxAttempts
    BY Types, CaseFacts DEF LocalTypes, Attempts, First, Clients
  <1>2. /\ Quiet /\ (\A h \in Attempts : ~Stall(h)) /\ \A c \in Clients : ~TimeOut(c)
    <2>1. \A h \in Attempts : ~Stall(h)
      BY StallEffect DEF Quiet
    <2>2. \A c \in Clients : ~TimeOut(c)
      BY <1>1 DEF Quiet, TimeOut
    <2>3. UNCHANGED <<timeouts, lockouts>>
      BY <2>1, <2>2 DEF Next, Step, Adapter, Handle, Send, Receive, Disconnected, Announce,
                        ServiceDies, Discover, GiveUp, Terminate, vars, bounds
    <2> QED
      BY <2>1, <2>2, <2>3 DEF Quiet
  <1>3. /\ \A h \in Attempts : At(h, "dropping") \/ At(h, "closed") =>
             h = First /\ case.scenario = "lost-ack"
        /\ \A h \in Attempts : At(h, "closed") => handlers[h].status # 0 /\ DropRecord(h) \in events
        /\ \A c \in Clients : client[c] = "ready" => attempt[c] = 0 \/ At(Current(c), "closed")
        /\ \A h \in Attempts : h[2] < attempt[h[1]] => At(h, "closed")
        /\ \A c \in Clients : client[c] = "done" => response[c].status # 0
        /\ case.scenario = "lost-ack" =>
             /\ calls[1] = 0 <=> FirstOpen
             /\ ~At(First, "replying") /\ ~At(First, "answered")
             /\ handlers[First].at \notin {"absent", "received"} => handlers[First].inserted
    BY <1>2 DEF QuietInv, FirstOpen
  <1>4. ASSUME NEW h \in Attempts, At(h, "closed")
        PROVE  At(h, "closed")' /\ handlers'[h] = handlers[h]
    BY <1>4, FinishedStays DEF At
  \* In "lost-ack" the first attempt has the service for itself.
  <1>5. ASSUME case.scenario = "lost-ack", NEW h \in Attempts, ~At(h, "absent"), h # First
        PROVE  At(First, "closed")
    <2>1. h[2] <= attempt[h[1]] /\ attempt[h[1]] \in Nat
      BY <1>1, <1>5, Types DEF IInv, ControlInv, LocalTypes
    <2>2. attempt[h[1]] > 0
      BY <1>1, <2>1
    <2>3. h[1] = 1
      BY <1>1, <1>5, <2>2 DEF SessionInv, Active
    <2>4. h[2] # 1
      BY <1>5, <2>3 DEF Attempts, First
    <2>5. First[2] < attempt[First[1]]
      BY <1>1, <2>1, <2>3, <2>4 DEF First
    <2> QED
      BY <1>1, <1>3, <2>5
  <1>6. ASSUME NEW h \in Attempts, Handle(h) PROVE QuietInv'
    <2>1. /\ Others(h) /\ Progress(h) /\ UNCHANGED <<case, client, attempt, response>>
          /\ \A g \in Attempts : g # h => handlers'[g] = handlers[g]
      BY <1>6, HandleEffect DEF Frame, Others
    <2>2. ASSUME NEW g \in Attempts, At(g, "dropping")' \/ At(g, "closed")'
          PROVE  g = First /\ case.scenario = "lost-ack"
      <3>1. CASE g # h \/ At(h, "dropping")
        BY <1>3, <2>1, <2>2, <3>1 DEF At
      <3>2. CASE g = h /\ ~At(h, "dropping")
        <4>1. At(h, "audited") /\ LoseAcknowledgement(h) /\ handlers'[h].at = "dropping"
          BY <2>1, <2>2, <3>2 DEF Progress, Stage, At
        <4>2. case.scenario = "lost-ack" /\ calls[1] = 0
          BY <4>1, LossEffect
        <4>3. FirstOpen
          BY <1>3, <4>2
        <4> QED
          BY <1>5, <3>2, <4>1, <4>2, <4>3 DEF At, FirstOpen
      <3> QED
        BY <3>1, <3>2
    <2>3. ASSUME NEW g \in Attempts, At(g, "closed")'
          PROVE  handlers'[g].status # 0 /\ DropRecord(g)' \in events'
      <3>1. CASE At(g, "closed")
        <4>1. handlers'[g] = handlers[g] /\ events \subseteq events'
          BY <1>4, <2>1, <3>1 DEF Progress
        <4> QED
          BY <1>3, <3>1, <4>1 DEF DropRecord
      <3>2. CASE ~At(g, "closed")
        <4>1. g = h /\ At(h, "dropping") /\ Same(h) /\ events' = events \union {DropRecord(h)}
          BY <2>1, <2>3, <3>2 DEF Progress, Stage, At
        <4>2. handlers[h].status # 0
          BY <4>1 DEF IInv, HandlerInv, At, Committed
        <4> QED
          BY <4>1, <4>2 DEF Same, DropRecord
      <3> QED
        BY <3>1, <3>2
    <2>4. \A c \in Clients : client'[c] = "ready" => attempt'[c] = 0 \/ At(Current(c), "closed")'
      <3> SUFFICES ASSUME NEW c \in Clients, client[c] = "ready", attempt[c] # 0
                   PROVE  At(Current(c), "closed")'
        BY <2>1
      <3>1. Current(c) \in Attempts /\ At(Current(c), "closed")
        BY <1>3, Types, CaseFacts DEF LocalTypes, Current, Attempts
      <3> QED
        BY <1>4, <2>1, <3>1 DEF At, Current
    <2>5. \A g \in Attempts : g[2] < attempt'[g[1]] => At(g, "closed")'
      BY <1>3, <1>4, <2>1
    <2>6. \A c \in Clients : client'[c] = "done" => response'[c].status # 0
      BY <1>3, <2>1
    <2>7. ASSUME case.scenario = "lost-ack"
          PROVE  /\ calls'[1] = 0 <=> FirstOpen'
                 /\ ~At(First, "replying")' /\ ~At(First, "answered")'
                 /\ handlers'[First].at \notin {"absent", "received"} => handlers'[First].inserted
      <3>1. CASE h = First
        <4>1. handlers[First].at # "received" =>
                handlers'[First].inserted = handlers[First].inserted
          BY <2>1, <3>1 DEF Progress, Stage, Same, At
        <4>2. handlers[First].at = "received" => handlers'[First].inserted
          <5> SUFFICES ASSUME At(First, "received") PROVE handlers'[First].inserted
            BY DEF At
          <5>1. \A g \in Attempts : g # First => At(g, "absent")
            BY <1>5, <2>7 DEF At
          <5>2. DOMAIN ledger = {}
            BY <5>1 DEF IInv, OwnerInv, Owns, Committed, At
          <5>3. ledger = <<>>
            BY <5>2, Types, EmptySeq DEF LocalTypes
          <5>4. handlers'[First].inserted = ~(ledger # <<>> /\ Guarded)
            BY <2>1, <3>1 DEF Progress, Stage, At
          <5> QED
            BY <5>3, <5>4
        <4>3. handlers[First].at \notin {"absent", "received"} => handlers[First].inserted
          BY <1>3, <2>7
        <4>4. handlers[First].at # "absent"
          BY <2>1, <3>1 DEF Progress, Stage, At
        <4>5. handlers'[First].inserted
          BY <4>1, <4>2, <4>3, <4>4
        <4>6. CASE At(First, "audited")
          <5>1. LoseAcknowledgement(First) /\ calls[1] = 0
            BY <1>3, <2>1, <2>7, <3>1, <4>6 DEF Progress, Stage, At, FirstOpen
          <5>2. handlers'[First].at = "dropping" /\ calls'[1] # 0
            BY <1>1, <2>7, <5>1, LossEffect
          <5> QED
            BY <4>5, <5>2 DEF FirstOpen, At
        <4>7. CASE ~At(First, "audited")
          <5>1. UNCHANGED calls /\ (FirstOpen' <=> FirstOpen)
                /\ ~At(First, "replying")' /\ ~At(First, "answered")'
            BY <1>3, <2>1, <2>7, <3>1, <4>7 DEF Progress, Stage, At, FirstOpen
          <5> QED
            BY <1>3, <2>7, <4>5, <5>1
        <4> QED
          BY <4>6, <4>7
      <3>2. CASE h # First
        <4>1. handlers'[First] = handlers[First]
          BY <1>1, <2>1, <3>2
        <4>2. At(First, "closed")
          <5>1. ~At(h, "absent")
            BY <2>1 DEF Progress, Stage, At
          <5> QED
            BY <1>5, <2>7, <3>2, <5>1
        <4>3. calls[1] # 0 /\ calls'[1] # 0
          <5>1. calls[1] # 0
            BY <1>3, <2>7, <4>2 DEF FirstOpen, At
          <5>2. UNCHANGED calls \/ LoseAcknowledgement(h)
            BY <2>1 DEF Progress
          <5> QED
            BY <2>7, <5>1, <5>2, LossEffect
        <4> QED
          BY <1>3, <2>7, <4>1, <4>2, <4>3 DEF FirstOpen, At
      <3> QED
        BY <3>1, <3>2
    <2> QED
      BY <2>1, <2>2, <2>3, <2>4, <2>5, <2>6, <2>7 DEF QuietInv, FirstOpen
  <1>7. ASSUME NEW c \in Clients, Send(c) PROVE QuietInv'
    <2> DEFINE h == <<c, attempt[c] + 1>>
    <2>1. /\ h \in Attempts /\ Stage(h, "absent", "received") /\ Same(h)
          /\ client[c] = "ready" /\ client'[c] = "waiting"
          /\ attempt'[c] = attempt[c] + 1 /\ attempt[c] \in Nat
          /\ \A d \in Clients : d # c => client'[d] = client[d] /\ attempt'[d] = attempt[d]
          /\ UNCHANGED <<case, events, calls, response>>
          /\ \A g \in Attempts : g # h => handlers'[g] = handlers[g]
      BY <1>7, SendEffect DEF Others
    <2>2. \A g \in Attempts : g[1] = c /\ g[2] = attempt[c] => At(g, "closed")
      BY <1>1, <1>3, <2>1 DEF Current, Attempts
    <2>3. \A g \in Attempts : g[2] < attempt'[g[1]] => At(g, "closed")
      <3> SUFFICES ASSUME NEW g \in Attempts, g[2] < attempt'[g[1]] PROVE At(g, "closed")
        OBVIOUS
      <3>1. CASE g[1] = c
        <4>1. g[2] < attempt[c] \/ g[2] = attempt[c]
          BY <1>1, <2>1, <3>1
        <4> QED
          BY <1>3, <2>2, <3>1, <4>1
      <3>2. CASE g[1] # c
        BY <1>1, <1>3, <2>1, <3>2
      <3> QED
        BY <3>1, <3>2
    <2> HIDE DEF h
    <2>4. \A g \in Attempts : /\ At(g, "closed") => At(g, "closed")'
                              /\ At(g, "closed")' \/ At(g, "dropping")' =>
                                   At(g, "closed") \/ At(g, "dropping")
                              /\ At(g, "closed")' =>
                                   At(g, "closed") /\ DropRecord(g)' = DropRecord(g)
                                                     /\ handlers'[g].status = handlers[g].status
      BY <2>1 DEF Stage, At, DropRecord
    <2>5. \A d \in Clients : client'[d] = "ready" => attempt'[d] = 0 \/ At(Current(d), "closed")'
      <3> SUFFICES ASSUME NEW d \in Clients, client'[d] = "ready", attempt'[d] # 0
                   PROVE  At(Current(d), "closed")'
        OBVIOUS
      <3>1. d # c /\ client[d] = "ready" /\ attempt'[d] = attempt[d]
        BY <2>1
      <3>2. Current(d) \in Attempts /\ At(Current(d), "closed") /\ Current(d)' = Current(d)
        BY <1>3, <3>1, Types, CaseFacts DEF LocalTypes, Current, Attempts
      <3>3. handlers'[Current(d)].at = "closed"
        BY <2>4, <3>2 DEF At
      <3> QED
        BY <3>2, <3>3 DEF At
    <2>6. \A d \in Clients : client'[d] = "done" => response'[d].status # 0
      BY <1>3, <2>1
    <2>7. case.scenario = "lost-ack" =>
             /\ calls'[1] = 0 <=> FirstOpen'
             /\ ~At(First, "replying")' /\ ~At(First, "answered")'
             /\ handlers'[First].at \notin {"absent", "received"} => handlers'[First].inserted
      BY <1>1, <1>3, <2>1 DEF FirstOpen, Stage, At
    <2> QED
      BY <1>3, <2>1, <2>3, <2>4, <2>5, <2>6, <2>7 DEF QuietInv, FirstOpen
  <1>8. CASE Idle
    <2>2. /\ \A c \in Clients : client'[c] = "ready" =>
               attempt'[c] = 0 \/ At(Current(c), "closed")'
          /\ \A c \in Clients : client'[c] = "done" => response'[c].status # 0
          /\ UNCHANGED attempt
      <3>1. CASE \E d \in Clients : Receive(d)
        <4> PICK d \in Clients : Receive(d)
          BY <3>1
        <4>1. /\ UNCHANGED <<attempt, handlers>> /\ client'[d] = "done" /\ response'[d].status # 0
              /\ \A c \in Clients : c # d => client'[c] = client[c] /\ response'[c] = response[c]
          BY ReceiveEffect DEF Idle
        <4> QED
          BY <1>3, <4>1 DEF At, Current
      <3>2. CASE \E d \in Clients : Disconnected(d)
        <4> PICK d \in Clients : Disconnected(d)
          BY <3>2
        <4>1. At(Current(d), "closed") /\ UNCHANGED <<attempt, handlers, response>> /\ NoAnswer(d)
              /\ client[d] = "waiting"
          BY DEF Disconnected
        <4>2. Current(d) \in Attempts
          BY <4>1, Types, CaseFacts DEF LocalTypes, IInv, ControlInv, Current, Attempts
        <4>3. attempt[d] # MaxAttempts
          BY <1>1, <1>3, <4>1, <4>2 DEF Current, First
        <4>4. client'[d] = "ready" /\ \A c \in Clients : c # d => client'[c] = client[c]
          BY <4>1, <4>3, Types DEF NoAnswer, LocalTypes
        <4> QED
          BY <1>3, <4>1, <4>4 DEF At, Current
      <3>3. CASE UNCHANGED <<attempt, handlers, client, response>>
        BY <1>3, <3>3 DEF At, Current
      <3>4. (\E c \in Clients : Send(c)) => \E h \in Attempts : ~(handlers'[h] = handlers[h])
        <4> SUFFICES ASSUME NEW c \in Clients, Send(c)
                     PROVE  \E h \in Attempts : ~(handlers'[h] = handlers[h])
          OBVIOUS
        <4> DEFINE h == <<c, attempt[c] + 1>>
        <4>1. h \in Attempts /\ Stage(h, "absent", "received")
          BY SendEffect
        <4> HIDE DEF h
        <4> QED
          BY <4>1 DEF Stage, At
      <3>5. \A c \in Clients : ~Send(c)
        BY <1>8, <3>4 DEF Idle
      <3>6. \/ \E d \in Clients : Receive(d) \/ Disconnected(d)
            \/ UNCHANGED clientVars
        BY <1>2, <3>5 DEF Next, Step, Adapter, Handle, Announce, ServiceDies, Discover, GiveUp,
                          Terminate, vars, clientVars
      <3> QED
        BY <1>8, <3>1, <3>2, <3>3, <3>6 DEF clientVars, Idle
    <2>3. \A g \in Attempts : /\ At(g, "dropping")' \/ At(g, "closed")' =>
                                   g = First /\ case.scenario = "lost-ack"
                              /\ At(g, "closed")' =>
                                   handlers'[g].status # 0 /\ DropRecord(g)' \in events'
                              /\ g[2] < attempt'[g[1]] => At(g, "closed")'
      BY <1>3, <1>8, <2>2 DEF Idle, DropRecord, At
    <2>4. case.scenario = "lost-ack" =>
             /\ calls'[1] = 0 <=> FirstOpen'
             /\ ~At(First, "replying")' /\ ~At(First, "answered")'
             /\ handlers'[First].at \notin {"absent", "received"} => handlers'[First].inserted
      BY <1>3, <1>8 DEF Idle, FirstOpen, At
    <2>5. UNCHANGED case
      BY <1>8 DEF Idle
    <2> QED
      BY <2>2, <2>3, <2>4, <2>5 DEF QuietInv, FirstOpen
  <1> QED
    BY <1>2, <1>6, <1>7, <1>8, IdleSteps

SettledInv == IInv /\ DropInv /\ SessionInv /\ QuietInv

\* All invariants together hold in every reachable state.
LEMMA SettledInvariance == Spec => []SettledInv
  <1>1. Init => SettledInv
    <2> SUFFICES ASSUME Init PROVE SettledInv
      OBVIOUS
    <2>1. /\ IInv /\ events = {} /\ adapter = "starting"
          /\ \A h \in Attempts : handlers[h] = Absent
          /\ \A c \in Clients : client[c] = "ready" /\ attempt[c] = 0 /\ response[c] = NoResponse
          /\ calls = [i \in Faults!Rules |-> 0] /\ 1 \in Faults!Rules
      BY InitIInv DEF Init, Faults!Rules
    <2>2. /\ First \in Attempts /\ \A h \in Attempts : h[1] \in Clients /\ h[2] \in 1..MaxAttempts
      BY <2>1, Types, CaseFacts DEF Attempts, First
    <2>3. DropInv
      BY <2>1 DEF DropInv
    <2>4. SessionInv
      BY <2>1 DEF SessionInv, NoResponse, Absent, At
    <2>5. QuietInv
      BY <2>1, <2>2 DEF QuietInv, NoResponse, Absent, At
    <2> QED
      BY <2>1, <2>3, <2>4, <2>5 DEF SettledInv
  <1>2. SettledInv /\ [Next]_vars => SettledInv'
    BY StepIInv, DropStep, SessionStep, QuietStep DEF SettledInv
  <1> QED
    BY <1>1, <1>2, PTL DEF Spec

-----------------------------------------------------------------------------
(* The atomic charge                                                         *)

\* What an attempt asks for does not depend on the step.
LEMMA SameCase ==
    ASSUME [Next]_vars
    PROVE  case' = case /\ \A c : Amount(c)' = Amount(c)
  <1>1. case' = case
    BY DEF Next, Step, Adapter, Handle, Stall, Send, Receive, Disconnected, TimeOut, Announce,
           ServiceDies, Discover, GiveUp, Terminate, vars, setting
  <1> QED
    BY <1>1 DEF Amount

\* Only a transaction decides.
LEMMA DecidedKept ==
    ASSUME \A g \in Attempts :
             /\ Served(g)' <=> Served(g)
             /\ Served(g) => handlers'[g].id = handlers[g].id
                             /\ handlers'[g].status = handlers[g].status
    PROVE  Decided' = Decided
  BY DEF Decided

\* An attempt whose handler has not committed is undecided.
LEMMA Undecided ==
    ASSUME NEW h \in Attempts, ~Served(h)
    PROVE  Decided[h] = Charging!Unserved
  BY DEF Decided, Charging!Unserved

\* The commit of a handler is the atomic step.
LEMMA CommitCharges ==
    ASSUME IInv, NEW h \in Attempts, Handle(h), Commit(h)
    PROVE  Charging!Next
  <1>1. /\ At(h, "transaction") /\ handlers \in [Attempts -> Handlers] /\ serving
        /\ case' = case /\ response' = response
    BY Types DEF Commit, LocalTypes, Handle, setting, clientVars
  <1>2. Amount(h[1]) \in {25, 99}
    BY DEF Amount
  <1>3. LET known == ledger # <<>> /\ Guarded
            stored == IF known THEN ledger[1] ELSE Amount(h[1])
        IN  /\ handlers[h].inserted = ~known
            /\ handlers[h].id = IF known THEN 1 ELSE 0
            /\ handlers[h].status = IF stored = Amount(h[1]) THEN 200 ELSE 409
    BY <1>1 DEF IInv, TransactionInv
  <1>4. /\ UNCHANGED (case.mode = "guarded")
        /\ UNCHANGED [g \in Attempts |-> Amount(g[1])] /\ UNCHANGED Told
    BY <1>1 DEF Amount, Told, Status
  <1>5. Decided[h] = Charging!Unserved
    BY <1>1, Undecided DEF Served
  <1>6. ASSUME NEW id, NEW status \in {200, 409}, handlers'[h].at = "committed",
               handlers'[h].id = id, handlers'[h].status = status, Others(h)
        PROVE  Decided' = [Decided EXCEPT ![h] = [id |-> id, accepted |-> status = 200]]
    <2>1. Served(h)' /\ \A g \in Attempts \ {h} : Served(g)' <=> Served(g)
      BY <1>6 DEF Served, At, Others
    <2>2. Decided'[h] = [id |-> id, accepted |-> status = 200]
      BY <1>6, <2>1 DEF Decided
    <2>3. \A g \in Attempts \ {h} : Decided'[g] = Decided[g]
      BY <1>6, <2>1 DEF Decided, Others
    <2>4. /\ DOMAIN Decided = Attempts /\ DOMAIN Decided' = Attempts
          /\ Decided = [g \in Attempts |-> Decided[g]]
          /\ Decided' = [g \in Attempts |-> Decided'[g]]
      BY DEF Decided
    <2> HIDE DEF Decided
    <2> QED
      BY <2>2, <2>3, <2>4
  <1>7. CASE handlers[h].inserted
    <2>1. /\ ~(case.mode = "guarded" /\ ledger # <<>>) /\ handlers[h].status = 200
      BY <1>2, <1>3, <1>7 DEF Guarded
    <2>2. /\ ledger' = Append(ledger, Amount(h[1]))
          /\ handlers'[h].at = "committed" /\ handlers'[h].id = Len(ledger) + 1
          /\ handlers'[h].status = 200 /\ Others(h)
      BY <1>1, <1>7, <2>1 DEF Commit, Others, Handlers
    <2>3. Decided' = [Decided EXCEPT ![h] = [id |-> Len(ledger) + 1, accepted |-> TRUE]]
      <3>1. Decided' = [Decided EXCEPT ![h] = [id |-> Len(ledger) + 1, accepted |-> 200 = 200]]
        BY <1>6, <2>2
      <3> QED
        BY <3>1
    <2>4. Charging!Decide(h, Len(ledger) + 1, TRUE)
      BY <1>4, <1>5, <2>3 DEF Charging!Decide
    <2> QED
      BY <2>1, <2>2, <2>4 DEF Charging!Charge, Charging!Next
  <1>8. CASE ~handlers[h].inserted
    <2>1. /\ case.mode = "guarded" /\ ledger # <<>> /\ handlers[h].id = 1
          /\ handlers[h].status = IF ledger[1] = Amount(h[1]) THEN 200 ELSE 409
      BY <1>3, <1>8 DEF Guarded
    <2>2. Moved(h, "committed") /\ ledger' = ledger
      BY <1>8, Types, MoveEffect DEF Commit, Places
    <2>3. Decided' = [Decided EXCEPT ![h] = [id |-> 1, accepted |-> handlers[h].status = 200]]
      BY <1>6, <2>1, <2>2 DEF Moved
    <2>4. (handlers[h].status = 200) = (ledger[1] = Amount(h[1]))
      BY <2>1
    <2>5. Charging!Decide(h, 1, ledger[1] = Amount(h[1]))
      BY <1>4, <1>5, <2>3, <2>4 DEF Charging!Decide
    <2> QED
      BY <2>1, <2>2, <2>5 DEF Charging!Replay, Charging!Next
  <1> QED
    BY <1>7, <1>8

\* A client that receives an answer is told what was decided on its attempt.
LEMMA ReceiveAnswers ==
    ASSUME IInv, SessionInv, NEW c \in Clients, Receive(c)
    PROVE  Charging!Next
  <1> DEFINE h == Current(c)
  <1>1. /\ h \in Attempts /\ At(h, "answered") /\ handlers[h].status # 0
        /\ \A d \in Clients : d # c => response'[d] = response[d]
        /\ UNCHANGED <<case, handlers, ledger>> /\ client[c] = "waiting" /\ h[1] = c
    BY ReceiveEffect DEF Receive, setting, Current, Idle
  <1>2. Served(h) /\ Status(c) = 0 /\ Decided' = Decided
    BY <1>1 DEF Served, At, SessionInv, Status, Decided
  <1>3. /\ Decided[h] = [id |-> handlers[h].id, accepted |-> handlers[h].status = 200]
        /\ Decided[h] # Charging!Unserved
    <2>1. Decided[h] = [id |-> handlers[h].id, accepted |-> handlers[h].status = 200]
      BY <1>1, <1>2 DEF Decided
    <2>2. handlers[h].id # 0
      BY <1>1, Types DEF IInv, HandlerInv, LocalTypes, At, Committed
    <2> QED
      BY <2>1, <2>2 DEF Charging!Unserved
  <1>4. response'[c] = IF handlers[h].status = 200
                         THEN [status |-> 200, id |-> handlers[h].id, amount |-> Amount(c)]
                         ELSE [NoResponse EXCEPT !.status = handlers[h].status]
    BY Types DEF Receive, LocalTypes
  <1>5. /\ response'[c].status = handlers[h].status
        /\ response'[c].id = IF handlers[h].status = 200 THEN handlers[h].id ELSE 0
    BY <1>4 DEF NoResponse
  <1> DEFINE told(d) == [client |-> d, accepted |-> Status(d) = 200, id |-> response[d].id]
             new == [client |-> c, accepted |-> Decided[h].accepted,
                     id |-> IF Decided[h].accepted THEN Decided[h].id ELSE 0]
  <1>6. told(c)' = new
    <2>1. /\ Decided[h].accepted = (handlers[h].status = 200)
          /\ Decided[h].id = handlers[h].id
      BY <1>3
    <2>2. (Status(c) = 200)' = (handlers[h].status = 200)
      BY <1>5 DEF Status
    <2>3. (response[c].id)' = IF Decided[h].accepted THEN Decided[h].id ELSE 0
      BY <1>5, <2>1
    <2> HIDE DEF h
    <2> QED
      BY <2>1, <2>2, <2>3
  <1>7. Told' = Told \union {new}
    <2> HIDE DEF h
    <2>1. \A d \in Clients : d # c => told(d)' = told(d) /\ Status(d)' = Status(d)
      BY <1>1 DEF Status
    <2>2. Status(c)' # 0
      BY <1>1, <1>5 DEF Status
    <2>3. Told = {told(d) : d \in {e \in Clients : Status(e) # 0}}
      BY DEF Told
    <2>4. Told' = {told(d)' : d \in {e \in Clients : Status(e)' # 0}}
      BY DEF Told
    <2>5. {e \in Clients : Status(e)' # 0} = {e \in Clients : Status(e) # 0} \union {c}
      <3>1. \A d \in Clients : Status(d)' # 0 <=> Status(d) # 0 \/ d = c
        BY <1>2, <2>1, <2>2
      <3> QED
        BY <3>1
    <2> HIDE DEF told, new
    <2> QED
      BY <1>2, <1>6, <2>1, <2>3, <2>4, <2>5
  <1>8. \A r \in Told : r.client # c
    BY <1>2 DEF Told
  <1>9. /\ UNCHANGED (case.mode = "guarded")
        /\ UNCHANGED [g \in Attempts |-> Amount(g[1])]
    BY <1>1 DEF Amount
  <1> HIDE DEF h
  <1>10. Charging!Answer(h)
    BY <1>1, <1>2, <1>3, <1>7, <1>8, <1>9 DEF Charging!Answer
  <1> QED
    BY <1>1, <1>10 DEF Charging!Next

\* Every step of the service is atomic or changes nothing that counts.
LEMMA ChargeStep ==
    IInv /\ SessionInv /\ [Next]_vars => [Charging!Next]_(Charging!chargeVars)
  <1> SUFFICES ASSUME IInv, SessionInv, [Next]_vars PROVE [Charging!Next]_(Charging!chargeVars)
    OBVIOUS
  <1>1. ASSUME UNCHANGED <<ledger, response>>, Decided' = Decided
        PROVE  UNCHANGED Charging!chargeVars
    <2>1. UNCHANGED [g \in Attempts |-> Amount(g[1])] /\ UNCHANGED (case.mode = "guarded")
      BY SameCase
    <2>2. UNCHANGED Told
      BY <1>1 DEF Told, Status
    <2> QED
      BY <1>1, <2>1, <2>2 DEF Charging!chargeVars
  <1>2. \A h \in Attempts : handlers[h].at \in {"absent", "received"} => handlers[h].status = 0
    BY DEF IInv, HandlerInv
  <1>3. ASSUME NEW h \in Attempts, Handle(h), ~Commit(h) PROVE UNCHANGED Charging!chargeVars
    <2>1. UNCHANGED <<ledger, response>>
      BY <1>3 DEF Handle, Begin, Audit, LoseAcknowledgement, Drop, Reply, clientVars
    <2>2. Others(h) /\ Progress(h)
      BY <1>3, HandleEffect
    <2>3. \/ At(h, "received") /\ handlers'[h].at = "transaction"
          \/ /\ handlers[h].at # "transaction" /\ handlers'[h].at # "transaction"
             /\ handlers'[h].id = handlers[h].id /\ handlers'[h].status = handlers[h].status
      <3>1. ~At(h, "transaction")
        BY <1>3 DEF Handle, Begin, Audit, LoseAcknowledgement, Drop, Reply, At
      <3> QED
        BY <2>2, <3>1 DEF Progress, Stage, Same, At
    <2>4. Decided' = Decided
      BY <1>2, <2>2, <2>3, DecidedKept DEF Served, At, Others
    <2> QED
      BY <1>1, <2>1, <2>4
  <1>4. ASSUME NEW h \in Attempts, Stall(h) PROVE UNCHANGED Charging!chargeVars
    <2>1. Others(h) /\ handlers'[h].at = "closed" /\ Same(h) /\ ~At(h, "transaction")
      BY <1>4, StallEffect DEF Stall, LockOut, At
    <2>2. Decided' = Decided
      BY <2>1, DecidedKept DEF Served, At, Others, Same
    <2> QED
      BY <1>1, <1>4, <2>2 DEF Stall, clientVars
  <1>5. ASSUME NEW c \in Clients, Send(c) PROVE UNCHANGED Charging!chargeVars
    <2>1. PICK h \in Attempts : Others(h) /\ Stage(h, "absent", "received") /\ Same(h)
      BY <1>5, SendEffect
    <2>2. Decided' = Decided
      BY <1>2, <2>1, DecidedKept DEF Served, At, Others, Same, Stage
    <2> QED
      BY <1>1, <1>5, <2>2 DEF Send
  <1>6. ASSUME UNCHANGED <<handlers, ledger, response>> PROVE UNCHANGED Charging!chargeVars
    <2>1. Decided' = Decided
      BY <1>6 DEF Decided, Served, At
    <2> QED
      BY <1>1, <1>6, <2>1
  <1>7. ASSUME NEW c \in Clients, Disconnected(c) \/ TimeOut(c)
        PROVE  UNCHANGED Charging!chargeVars
    BY <1>6, <1>7 DEF Disconnected, TimeOut
  <1>8. ASSUME Announce \/ ServiceDies \/ Adapter \/ UNCHANGED vars
        PROVE  UNCHANGED Charging!chargeVars
    BY <1>6, <1>8 DEF Announce, ServiceDies, Adapter, Discover, GiveUp, Terminate, vars, clientVars
  <1> QED
    BY <1>3, <1>4, <1>5, <1>7, <1>8, CommitCharges, ReceiveAnswers DEF Next, Step

\* The service implements the atomic charge: no interleaving of handlers, no
\* abandoned attempt, no retry and no termination is seen by a client or in the
\* ledger (do_POST, request_charge).
THEOREM Refinement == Spec => ChargeSpec
  <1>1. Init => Charging!Init
    <2> SUFFICES ASSUME Init PROVE Charging!Init
      OBVIOUS
    <2>1. \A h : Amount(h) \in Nat
      BY DEF Amount
    <2>2. Decided = [h \in Attempts |-> Charging!Unserved] /\ Told = {} /\ ledger = <<>>
      BY DEF Init, Decided, Charging!Unserved, Told, Status, Served, Absent, NoResponse
    <2> QED
      BY <2>1, <2>2 DEF Charging!Init
  <1> QED
    BY <1>1, ChargeStep, SettledInvariance, PTL DEF SettledInv, Spec, ChargeSpec, Charging!Spec

-----------------------------------------------------------------------------
(* The verdict of the oracle                                                 *)

\* Every row was charged by a request of the scenario, with its amount.
LEMMA RowFacts ==
    ASSUME SettledInv
    PROVE  /\ Len(ledger) \in Nat /\ DOMAIN ledger = 1..Len(ledger)
           /\ ledger = <<>> <=> Len(ledger) = 0
           /\ \A i \in DOMAIN ledger : \E h \in Attempts :
                Owns(h, i) /\ ledger[i] = Amount(h[1]) /\ h[1] \in Active
  <1>1. /\ Len(ledger) \in Nat /\ DOMAIN ledger = 1..Len(ledger)
        /\ ledger = <<>> <=> Len(ledger) = 0
    BY Types, LenProperties, EmptySeq DEF SettledInv, LocalTypes
  <1>2. ASSUME NEW i \in DOMAIN ledger
        PROVE  \E h \in Attempts : Owns(h, i) /\ ledger[i] = Amount(h[1]) /\ h[1] \in Active
    <2>1. PICK h \in Attempts : Owns(h, i)
      BY DEF SettledInv, IInv, OwnerInv
    <2>2. ledger[i] = Amount(h[1])
      BY <2>1 DEF Owns, SettledInv, IInv, HandlerInv
    <2>3. ~At(h, "absent") /\ h[1] \in Clients /\ h[2] \in 1..MaxAttempts /\ MaxAttempts \in Nat
          /\ attempt[h[1]] \in Nat
      BY <2>1, Types, CaseFacts DEF Owns, Committed, At, SettledInv, Attempts, LocalTypes
    <2>4. attempt[h[1]] > 0
      BY <2>3 DEF SettledInv, IInv, ControlInv
    <2> QED
      BY <2>1, <2>2, <2>3, <2>4 DEF SettledInv, SessionInv
  <1> QED
    BY <1>1, <1>2

\* What an answer says of the ledger.
LEMMA AnswerFacts ==
    ASSUME SettledInv, NEW c \in Active
    PROVE  /\ c \in Clients /\ Status(c) \in {0, 200, 409}
           /\ Status(c) = 200 => Grounded(response[c]) /\ response[c].amount = Amount(c)
           /\ Status(c) = 409 => Guarded /\ Len(ledger) = 1 /\ ledger[1] # Amount(c)
           /\ case.scenario = "conflict" /\ c = 1 => Status(c) # 409
  <1>1. c \in Clients
    BY Types, CaseFacts DEF SettledInv
  <1> QED
    BY <1>1, Types DEF SettledInv, IInv, ResponseInv, Status, LocalTypes

\* The checks one by one.
Checks == {"one_effect", "authorized_amount", "response_statuses", "receipt_matches_state"}
AmountsAuthorized == ledger # <<>> /\ \A i \in DOMAIN ledger : ledger[i] = 25
StatusesExpected ==
    \A c \in Active : Status(c) = IF case.scenario = "conflict" /\ c = 2 THEN 409 ELSE 200
ReceiptsMatch == \A c \in Active : Status(c) = 200 => Grounded(response[c])

\* Each check of the oracle fails exactly when its condition does not hold.
LEMMA ChecksFacts ==
    /\ FailedChecks \subseteq Checks
    /\ "one_effect" \in FailedChecks <=> Len(ledger) # 1
    /\ "authorized_amount" \in FailedChecks <=> ~AmountsAuthorized
    /\ "response_statuses" \in FailedChecks <=> ~StatusesExpected
    /\ "receipt_matches_state" \in FailedChecks <=> ~ReceiptsMatch
  <1> DEFINE P(k) == CASE k = "one_effect" -> Len(ledger) = 1
                       [] k = "authorized_amount" -> AmountsAuthorized
                       [] k = "response_statuses" -> StatusesExpected
                       [] k = "receipt_matches_state" -> ReceiptsMatch
  <1>1. FailedChecks = {k \in Checks : ~P(k)}
    BY DEF FailedChecks, Checks, AmountsAuthorized, StatusesExpected, ReceiptsMatch
  <1>2. /\ P("one_effect") <=> Len(ledger) = 1
        /\ P("authorized_amount") <=> AmountsAuthorized
        /\ P("response_statuses") <=> StatusesExpected
        /\ P("receipt_matches_state") <=> ReceiptsMatch
    OBVIOUS
  <1> HIDE DEF P
  <1> QED
    BY <1>1, <1>2 DEF Checks

\* One row and an answer for every request satisfy every check.
LEMMA AnsweredVerdict ==
    ASSUME SettledInv, Len(ledger) = 1, \A c \in Active : Status(c) # 0
    PROVE  /\ FailedChecks = {} /\ ledger[1] = 25
           /\ \A c \in Active : Status(c) = IF case.scenario = "conflict" /\ c = 2 THEN 409 ELSE 200
  <1>1. DOMAIN ledger = {1} /\ ledger # <<>> /\ 1 \in Active /\ 1 # 2
    BY RowFacts, Types, CaseFacts DEF SettledInv
  <1>2. case.scenario # "conflict" => \A c \in Active : Amount(c) = 25
    BY DEF Amount
  <1>3. Amount(1) = 25
    BY DEF Amount
  <1>4. ledger[1] = 25
    <2>1. CASE Status(1) = 200
      BY <1>1, <1>3, <2>1, AnswerFacts DEF Grounded
    <2>2. CASE Status(1) # 200
      <3>1. case.scenario # "conflict"
        BY <1>1, <2>2, AnswerFacts
      <3> QED
        BY <1>1, <1>2, <3>1, RowFacts
    <2> QED
      BY <2>1, <2>2
  <1>5. ASSUME NEW c \in Active
        PROVE  Status(c) = IF case.scenario = "conflict" /\ c = 2 THEN 409 ELSE 200
    <2>1. CASE case.scenario = "conflict" /\ c = 2
      <3>1. Amount(c) = 99
        BY <2>1 DEF Amount
      <3>2. Status(c) # 200
        BY <1>1, <1>4, <3>1, AnswerFacts DEF Grounded
      <3> QED
        BY <2>1, <3>2, AnswerFacts
    <2>2. CASE ~(case.scenario = "conflict" /\ c = 2)
      <3>1. Amount(c) = 25
        BY <2>2 DEF Amount
      <3> QED
        BY <1>4, <2>2, <3>1, AnswerFacts
    <2> QED
      BY <2>1, <2>2
  <1>6. \A c \in Active : Status(c) = 200 => Grounded(response[c])
    BY AnswerFacts
  <1>7. FailedChecks = {}
    BY <1>1, <1>4, <1>5, <1>6, ChecksFacts DEF Checks, AmountsAuthorized, StatusesExpected,
                                              ReceiptsMatch
  <1> QED
    BY <1>4, <1>5, <1>7

\* A guarded service that answered every request has one row.
LEMMA GuardedRow ==
    ASSUME SettledInv, Guarded, \A c \in Active : Status(c) # 0
    PROVE  Len(ledger) = 1
  <1>1. Len(ledger) <= 1 /\ 1 \in Active
    BY Types, CaseFacts DEF SettledInv, IInv, GuardedOneEffect, Guarded
  <1>2. Len(ledger) # 0
    <2>1. CASE Status(1) = 200
      BY <1>1, <2>1, AnswerFacts, RowFacts DEF Grounded
    <2>2. CASE Status(1) = 409
      BY <1>1, <2>2, AnswerFacts
    <2> QED
      BY <1>1, <2>1, <2>2, AnswerFacts
  <1> QED
    BY <1>1, <1>2, RowFacts

\* The service with its key guard passes every check of the oracle.
LEMMA GuardedVerdictHolds == SettledInv => GuardedVerdict
  BY AnsweredVerdict, GuardedRow DEF GuardedVerdict, Guarded

\* Without the guard, two requests that got through are two rows.
LEMMA TwoRows ==
    ASSUME SettledInv, ~Guarded, NEW g \in Attempts, NEW h \in Attempts, g # h,
           Committed(g), Committed(h), handlers[g].status # 0, handlers[h].status # 0
    PROVE  Len(ledger) >= 2
  <1>1. /\ handlers[g].id \in DOMAIN ledger /\ handlers[h].id \in DOMAIN ledger
        /\ handlers[g].inserted /\ handlers[h].inserted
    BY DEF SettledInv, IInv, HandlerInv
  <1>2. handlers[g].id # handlers[h].id
    BY <1>1 DEF SettledInv, IInv, OwnerInv, Owns
  <1> QED
    BY <1>1, <1>2, RowFacts

\* Where nothing was late every request of a finished run was answered, by its
\* first handler but in "lost-ack".
LEMMA QuietFacts ==
    ASSUME SettledInv, Quiet, Executed
    PROVE  \A c \in Active :
             /\ Status(c) # 0 /\ Current(c) \in Attempts /\ At(Current(c), "answered")
             /\ Committed(Current(c)) /\ Logged(Current(c))
             /\ handlers[Current(c)].status = Status(c)
             /\ Status(c) = 200 => handlers[Current(c)].id = response[c].id
             /\ attempt[c] \in Nat
             /\ IF case.scenario = "lost-ack"
                  THEN /\ c = 1 /\ attempt[c] > 1 /\ First \in Attempts /\ Current(c) # First
                       /\ At(First, "closed")
                       /\ handlers[First].status # 0 /\ handlers[First].inserted
                       /\ DropRecord(First) \in events
                  ELSE attempt[c] = 1
  <1> SUFFICES ASSUME NEW c \in Active
               PROVE  /\ Status(c) # 0 /\ Current(c) \in Attempts /\ At(Current(c), "answered")
                      /\ Committed(Current(c)) /\ Logged(Current(c))
                      /\ handlers[Current(c)].status = Status(c)
                      /\ Status(c) = 200 => handlers[Current(c)].id = response[c].id
                      /\ attempt[c] \in Nat
                      /\ IF case.scenario = "lost-ack"
                           THEN /\ c = 1 /\ attempt[c] > 1 /\ First \in Attempts
                                /\ Current(c) # First /\ At(First, "closed")
                                /\ handlers[First].status # 0 /\ handlers[First].inserted
                                /\ DropRecord(First) \in events
                           ELSE attempt[c] = 1
    OBVIOUS
  <1>1. c \in Clients /\ 1 \in Clients /\ PoolSize \in Nat /\ MaxAttempts \in Nat \ {0, 1}
        /\ attempt[c] \in Nat
    BY Types, CaseFacts DEF SettledInv, LocalTypes
  <1>2. Status(c) # 0
    BY <1>1 DEF SettledInv, SessionInv, QuietInv, Executed, Status
  <1>3. /\ Current(c) \in Attempts /\ At(Current(c), "answered")
        /\ handlers[Current(c)].status = Status(c)
        /\ Status(c) = 200 => handlers[Current(c)].id = response[c].id
    BY <1>1, <1>2 DEF SettledInv, SessionInv, Status
  <1>4. Committed(Current(c)) /\ Logged(Current(c)) /\ attempt[c] > 0
    BY <1>1, <1>3 DEF Committed, Logged, At, Current, Attempts
  <1>5. \A h \in Attempts : h[2] < attempt[h[1]] => At(h, "closed")
    BY DEF SettledInv, QuietInv
  <1>6. CASE case.scenario = "lost-ack"
    <2>1. c = 1
      BY <1>6 DEF Active
    <2>2. Current(c) # First
      BY <1>3, <1>6 DEF SettledInv, QuietInv
    <2>3. attempt[c] > 1 /\ First \in Attempts
      BY <1>1, <1>4, <2>1, <2>2 DEF Current, First, Attempts
    <2>4. At(First, "closed")
      BY <1>5, <2>1, <2>3 DEF First
    <2>5. /\ handlers[First].status # 0 /\ handlers[First].inserted
          /\ DropRecord(First) \in events
      BY <1>6, <2>3, <2>4 DEF SettledInv, QuietInv, At
    <2> QED
      BY <1>1, <1>2, <1>3, <1>4, <1>6, <2>1, <2>2, <2>3, <2>4, <2>5
  <1>7. CASE case.scenario # "lost-ack"
    <2>1. ~(attempt[c] > 1)
      <3> SUFFICES ASSUME attempt[c] > 1 PROVE FALSE
        OBVIOUS
      <3> DEFINE h == <<c, 1>>
      <3>1. h \in Attempts /\ h[2] < attempt[h[1]]
        BY <1>1 DEF Attempts
      <3>2. At(h, "closed")
        BY <1>5, <3>1
      <3> QED
        BY <1>7, <3>1, <3>2 DEF SettledInv, QuietInv
    <2> QED
      BY <1>1, <1>2, <1>3, <1>4, <1>7, <2>1
  <1> QED
    BY <1>6, <1>7

\* How many rows the cases of http_suite leave where nothing was late.
LEMMA QuietRows ==
    ASSUME SettledInv, Quiet, Executed
    PROVE  IF Guarded \/ case.scenario = "clean" THEN Len(ledger) = 1 ELSE Len(ledger) >= 2
  <1>1. 1 \in Active /\ 1 # 2 /\ limit.clients \in Nat /\ limit.clients >= 2
        /\ case.scenario \in Scenarios
    BY Types, CaseFacts DEF SettledInv
  <1>2. \A c \in Active : Status(c) # 0
    BY QuietFacts
  <1>3. CASE Guarded
    BY <1>2, <1>3, GuardedRow
  <1>4. CASE ~Guarded /\ case.scenario = "clean"
    <2>1. Status(1) = 200
      BY <1>1, <1>2, <1>4, AnswerFacts
    <2>2. Len(ledger) # 0
      BY <1>1, <2>1, AnswerFacts, RowFacts DEF Grounded
    <2>3. ASSUME NEW i \in DOMAIN ledger PROVE Owns(First, i)
      <3>1. PICK h \in Attempts : Owns(h, i) /\ h[1] \in Active
        BY RowFacts
      <3>2. h[1] = 1 /\ attempt[h[1]] = 1
        BY <1>1, <1>4, <3>1, QuietFacts DEF Active
      <3>3. ~At(h, "absent")
        BY <3>1 DEF Owns, Committed, At
      <3>4. h[2] \in 1..MaxAttempts /\ MaxAttempts \in Nat /\ h = <<h[1], h[2]>>
        BY Types, CaseFacts DEF SettledInv, Attempts
      <3>5. h[2] = 1
        BY <3>2, <3>3, <3>4 DEF SettledInv, IInv, ControlInv
      <3> QED
        BY <3>1, <3>2, <3>4, <3>5 DEF First
    <2>4. ~(Len(ledger) >= 2)
      <3> SUFFICES ASSUME Len(ledger) >= 2 PROVE FALSE
        OBVIOUS
      <3>1. 1 \in DOMAIN ledger /\ 2 \in DOMAIN ledger
        BY RowFacts
      <3> QED
        BY <2>3, <3>1 DEF Owns
    <2> QED
      BY <1>4, <2>2, <2>4, RowFacts
  <1>5. CASE ~Guarded /\ case.scenario = "lost-ack"
    <2>1. Committed(First) /\ handlers[Current(1)].status # 0
      BY <1>1, <1>5, QuietFacts DEF Committed, At
    <2> QED
      BY <1>1, <1>5, <2>1, QuietFacts, TwoRows
  <1>6. CASE ~Guarded /\ case.scenario \in {"concurrent", "conflict"}
    <2>1. 2 \in Active
      BY <1>1, <1>6 DEF Active
    <2>2. Current(1) # Current(2)
      BY DEF Current
    <2>3. Len(ledger) >= 2
      BY <1>1, <1>6, <2>1, <2>2, QuietFacts, TwoRows
    <2> QED
      BY <1>6, <2>3
  <1> QED
    BY <1>1, <1>3, <1>4, <1>5, <1>6 DEF Scenarios

\* When nothing is late the checks that fail are those the catalog expects.
LEMMA CatalogVerdictHolds == SettledInv => CatalogVerdict
  <1> SUFFICES ASSUME SettledInv, Quiet, Executed PROVE FailedChecks = ExpectedFailures
    BY DEF CatalogVerdict, Quiet
  <1>1. \A c \in Active : Status(c) # 0
    BY QuietFacts
  <1>2. CASE Guarded \/ case.scenario = "clean"
    <2>1. ExpectedFailures = {}
      BY <1>2 DEF ExpectedFailures, Guarded
    <2> QED
      BY <1>1, <1>2, <2>1, QuietRows, AnsweredVerdict
  <1>3. CASE ~Guarded /\ case.scenario # "clean"
    <2>1. Len(ledger) # 1 /\ Len(ledger) # 0
      BY <1>3, QuietRows, RowFacts
    <2>2. \A c \in Active : Status(c) = 200 /\ Grounded(response[c])
                            /\ response[c].amount = Amount(c)
      BY <1>1, <1>3, AnswerFacts
    <2>3. ReceiptsMatch
      BY <2>2 DEF ReceiptsMatch
    <2>4. CASE case.scenario = "conflict"
      <3>1. 2 \in Active /\ Amount(2) = 99
        BY <2>4 DEF Active, Amount
      <3>2. ~StatusesExpected
        BY <2>2, <2>4, <3>1 DEF StatusesExpected
      <3>3. ~AmountsAuthorized
        BY <2>2, <3>1 DEF AmountsAuthorized, Grounded
      <3>4. ExpectedFailures = {"one_effect", "authorized_amount", "response_statuses"}
        BY <1>3, <2>4 DEF ExpectedFailures, Guarded
      <3> QED
        BY <2>1, <2>3, <3>2, <3>3, <3>4, ChecksFacts DEF Checks
    <2>5. CASE case.scenario # "conflict"
      <3>1. StatusesExpected
        BY <2>2, <2>5 DEF StatusesExpected
      <3>2. AmountsAuthorized
        BY <2>1, <2>5, RowFacts DEF AmountsAuthorized, Amount
      <3>3. ExpectedFailures = {"one_effect"}
        BY <1>3, <2>5 DEF ExpectedFailures, Guarded
      <3> QED
        BY <2>1, <2>3, <3>1, <3>2, <3>3, ChecksFacts DEF Checks
    <2> QED
      BY <2>4, <2>5
  <1> QED
    BY <1>2, <1>3

\* The oracle of http_adapter.py is right in every interleaving: a guarded
\* service that answered every request passes it, whatever was late, and where
\* nothing was late each case of http_suite fails exactly the checks that the
\* catalog expects.
THEOREM OracleRight == Spec => []OracleVerdict
  <1>1. SettledInv => OracleVerdict
    BY GuardedVerdictHolds, CatalogVerdictHolds DEF OracleVerdict
  <1> QED
    BY <1>1, SettledInvariance, PTL

-----------------------------------------------------------------------------
(* The rules of diagnose(), for any evidence                                 *)

Blank(b) ==
    b.receipts = {} \/ b.rows = {} \/ Contradictory(b.rows, b.receipts, b.transactions)
Resolved(b) == b.transactions # {} /\ ~Unresolved(b.receipts, b.transactions)
Conflicts(b) == {r \in b.receipts : r.status = 409}
Retries(b) == {r \in b.receipts : r.retried}
Single(b) == ~Blank(b) /\ ~Duplicated(b.rows) /\ Resolved(b)

\* When diagnose() gives which label.
LEMMA LabelCases ==
    ASSUME NEW b
    PROVE  /\ Diagnose(b) \in {"insufficient_evidence", "duplicate_effect", "clean",
                               "conflicting_payload_rejected", "acknowledgement_lost_recovered"}
           /\ Diagnose(b) = "duplicate_effect" <=> ~Blank(b) /\ Duplicated(b.rows)
           /\ Diagnose(b) = "conflicting_payload_rejected" <=>
                /\ Single(b) /\ Conflicts(b) # {}
                /\ \A r \in Conflicts(b) : \E t \in b.transactions : Refused(r, t)
           /\ Diagnose(b) = "acknowledgement_lost_recovered" <=>
                /\ Single(b) /\ Conflicts(b) = {} /\ Retries(b) # {}
                /\ RecoveryProved(Retries(b), b.transactions, b.dropped)
           /\ Diagnose(b) = "clean" <=>
                Single(b) /\ Conflicts(b) = {} /\ Retries(b) = {} /\ b.dropped = {}
  <1> DEFINE refused == \A r \in Conflicts(b) : \E t \in b.transactions : Refused(r, t)
             proved == RecoveryProved(Retries(b), b.transactions, b.dropped)
  <1>1. Diagnose(b) =
          IF Blank(b) THEN "insufficient_evidence"
          ELSE IF Duplicated(b.rows) THEN "duplicate_effect"
          ELSE IF ~Resolved(b) THEN "insufficient_evidence"
          ELSE IF Conflicts(b) # {}
            THEN IF refused THEN "conflicting_payload_rejected" ELSE "insufficient_evidence"
          ELSE IF Retries(b) # {}
            THEN IF proved THEN "acknowledgement_lost_recovered" ELSE "insufficient_evidence"
          ELSE IF b.dropped # {} THEN "insufficient_evidence" ELSE "clean"
    BY DEF Diagnose, Blank, Resolved, Conflicts, Retries, RetryLabel
  <1> HIDE DEF refused, proved
  <1>2. CASE Blank(b)
    BY <1>1, <1>2 DEF Single
  <1>3. CASE ~Blank(b) /\ Duplicated(b.rows)
    BY <1>1, <1>3 DEF Single
  <1>4. CASE ~Blank(b) /\ ~Duplicated(b.rows) /\ ~Resolved(b)
    BY <1>1, <1>4 DEF Single
  <1>5. CASE Single(b)
    BY <1>1, <1>5 DEF Single, refused, proved
  <1> QED
    BY <1>2, <1>3, <1>4, <1>5 DEF Single

-----------------------------------------------------------------------------
(* The evidence of a finished case                                           *)

Row(i) == [key |-> Key, id |-> i, amount |-> ledger[i]]
Receipt(c) ==
    [client |-> c, key |-> Key, status |-> Status(c), id |-> response[c].id,
     amount |-> response[c].amount, requested |-> Amount(c),
     retried |-> attempt[c] > 1 \/ Status(c) = 0]
Transaction(h) ==
    [attempt |-> h, key |-> Key, id |-> handlers[h].id, requested |-> Amount(h[1]),
     stored |-> handlers[h].stored, inserted |-> handlers[h].inserted,
     status |-> handlers[h].status]
Withheld(h) == [attempt |-> h, key |-> Key, id |-> handlers[h].id]

\* The parts of a bundle, each the image of ledger rows, clients or handlers.
LEMMA EvidenceFacts ==
    ASSUME SettledInv, NEW log \in SUBSET events
    PROVE  /\ Rows = {Row(i) : i \in DOMAIN ledger}
           /\ Receipts = {Receipt(c) : c \in Active}
           /\ \A t \in Transactions(log) : \E h \in Attempts :
                /\ Logged(h) /\ handlers[h].status # 0 /\ Record(h) \in log
                /\ t = Transaction(h)
           /\ \A h \in Attempts : Record(h) \in log => Transaction(h) \in Transactions(log)
           /\ \A d \in Dropped(log) : \E h \in Attempts :
                /\ At(h, "closed") /\ handlers[h].status # 0 /\ DropRecord(h) \in log
                /\ d = Withheld(h)
           /\ \A h \in Attempts : DropRecord(h) \in log => Withheld(h) \in Dropped(log)
  <1>1. Rows = {Row(i) : i \in DOMAIN ledger}
    BY DEF Rows, Row
  <1>2. Receipts = {Receipt(c) : c \in Active}
    BY DEF Receipts, Receipt
  <1>3. ASSUME NEW t \in Transactions(log)
        PROVE  \E h \in Attempts : /\ Logged(h) /\ handlers[h].status # 0 /\ Record(h) \in log
                                   /\ t = Transaction(h)
    <2>1. PICK e \in log : e.kind = "transaction" /\
             t = [attempt |-> e.attempt, key |-> Key, id |-> e.id, requested |-> e.requested,
                  stored |-> e.stored, inserted |-> e.inserted, status |-> e.status]
      BY <1>3 DEF Transactions
    <2>2. PICK h \in Attempts : Logged(h) /\ handlers[h].status # 0 /\ e = Record(h)
      BY <2>1 DEF SettledInv, IInv, LogInv
    <2>3. t = Transaction(h)
      BY <2>1, <2>2 DEF Record, Transaction
    <2> QED
      BY <2>1, <2>2, <2>3
  <1>4. ASSUME NEW h \in Attempts, Record(h) \in log
        PROVE  Transaction(h) \in Transactions(log)
    <2>1. Record(h) \in {x \in log : x.kind = "transaction"}
      BY <1>4 DEF Record
    <2>2. Transaction(h) = [attempt |-> Record(h).attempt, key |-> Key, id |-> Record(h).id,
                            requested |-> Record(h).requested, stored |-> Record(h).stored,
                            inserted |-> Record(h).inserted, status |-> Record(h).status]
      BY DEF Record, Transaction
    <2> HIDE DEF Record, Transaction
    <2> QED
      BY <2>1, <2>2 DEF Transactions
  <1>5. ASSUME NEW d \in Dropped(log)
        PROVE  \E h \in Attempts : /\ At(h, "closed") /\ handlers[h].status # 0
                                   /\ DropRecord(h) \in log /\ d = Withheld(h)
    <2>1. PICK e \in log : /\ e.kind = "response_not_sent"
                           /\ d = [attempt |-> e.attempt, key |-> Key, id |-> e.id]
      BY <1>5 DEF Dropped
    <2>2. PICK h \in Attempts : At(h, "closed") /\ handlers[h].status # 0 /\ e = DropRecord(h)
      BY <2>1 DEF SettledInv, DropInv, DropRecord
    <2>3. d = Withheld(h)
      BY <2>1, <2>2 DEF DropRecord, Withheld
    <2> QED
      BY <2>1, <2>2, <2>3
  <1>6. ASSUME NEW h \in Attempts, DropRecord(h) \in log
        PROVE  Withheld(h) \in Dropped(log)
    <2>1. DropRecord(h) \in {x \in log : x.kind = "response_not_sent"}
      BY <1>6 DEF DropRecord
    <2>2. Withheld(h) = [attempt |-> DropRecord(h).attempt, key |-> Key, id |-> DropRecord(h).id]
      BY DEF DropRecord, Withheld
    <2> HIDE DEF DropRecord, Withheld
    <2> QED
      BY <2>1, <2>2 DEF Dropped
  <1> QED
    BY <1>1, <1>2, <1>3, <1>4, <1>5, <1>6

\* The evidence of a case never contradicts the ledger, and shows a duplicate
\* exactly where there is one.
LEMMA BundleFacts ==
    ASSUME SettledInv, NEW log \in SUBSET events
    PROVE  LET b == Bundle(log)
           IN  /\ b.rows = Rows /\ b.receipts = Receipts /\ b.transactions = Transactions(log)
               /\ b.dropped = Dropped(log)
               /\ ~Contradictory(Rows, Receipts, Transactions(log))
               /\ Blank(b) <=> Len(ledger) = 0
               /\ Duplicated(Rows) <=> Len(ledger) >= 2
  <1> DEFINE b == Bundle(log)
  <1>1. /\ b.rows = Rows /\ b.receipts = Receipts /\ b.transactions = Transactions(log)
        /\ b.dropped = Dropped(log)
    BY DEF Bundle
  <1>2. \A i \in DOMAIN ledger : Row(i) \in Rows
    BY EvidenceFacts
  <1>3. ASSUME NEW c \in Active, Status(c) = 200
        PROVE  InLedger(Rows, Receipt(c).key, Receipt(c).id, Receipt(c).amount)
    <2>1. Grounded(response[c])
      BY <1>3, AnswerFacts
    <2> QED
      BY <1>2, <2>1 DEF InLedger, Row, Receipt, Grounded
  <1>4. ASSUME NEW t \in Transactions(log)
        PROVE  /\ InLedger(Rows, t.key, t.id, t.stored)
               /\ ~(t.status = 200 /\ t.requested # t.stored)
    <2>1. PICK h \in Attempts : Logged(h) /\ handlers[h].status # 0 /\ t = Transaction(h)
      BY EvidenceFacts
    <2>2. /\ handlers[h].id \in DOMAIN ledger /\ ledger[handlers[h].id] = handlers[h].stored
          /\ handlers[h].status = IF handlers[h].stored = Amount(h[1]) THEN 200 ELSE 409
      BY <2>1 DEF SettledInv, IInv, HandlerInv, Logged
    <2>3. /\ t.key = Key /\ t.id = handlers[h].id /\ t.requested = Amount(h[1])
          /\ t.stored = handlers[h].stored /\ t.status = handlers[h].status
      BY <2>1 DEF Transaction
    <2>4. /\ Row(t.id) \in Rows /\ Row(t.id).key = t.key /\ Row(t.id).id = t.id
          /\ Row(t.id).amount = t.stored
      BY <1>2, <2>2, <2>3 DEF Row
    <2>5. InLedger(Rows, t.key, t.id, t.stored)
      BY <2>4 DEF InLedger
    <2> QED
      BY <2>2, <2>3, <2>5
  <1>5. ~Contradictory(Rows, Receipts, Transactions(log))
    <2>1. ASSUME NEW r \in Receipts, r.status = 200 PROVE InLedger(Rows, r.key, r.id, r.amount)
      <3>1. PICK c \in Active : r = Receipt(c)
        BY EvidenceFacts
      <3>2. Status(c) = 200
        BY <2>1, <3>1 DEF Receipt
      <3> QED
        BY <1>3, <3>1, <3>2
    <2> QED
      BY <1>4, <2>1 DEF Contradictory
  <1>6. Receipts # {}
    <2>1. 1 \in Active
      BY Types, CaseFacts DEF SettledInv
    <2> QED
      BY <2>1, EvidenceFacts
  <1>7. Rows = {} <=> Len(ledger) = 0
    <2>1. DOMAIN ledger = {} <=> Len(ledger) = 0
      BY RowFacts
    <2>2. Rows = {Row(i) : i \in DOMAIN ledger}
      BY EvidenceFacts
    <2>3. Rows = {} <=> DOMAIN ledger = {}
      BY <2>2, Zenon
    <2> QED
      BY <2>1, <2>3
  <1>8. Duplicated(Rows) <=> Len(ledger) >= 2
    <2>1. ASSUME Duplicated(Rows) PROVE Len(ledger) >= 2
      <3>1. PICK i \in DOMAIN ledger, j \in DOMAIN ledger : Row(i) # Row(j)
        BY <2>1, EvidenceFacts DEF Duplicated
      <3>2. i # j
        BY <3>1
      <3> QED
        BY <3>2, RowFacts
    <2>2. ASSUME Len(ledger) >= 2 PROVE Duplicated(Rows)
      <3>1. 1 \in DOMAIN ledger /\ 2 \in DOMAIN ledger
        BY <2>2, RowFacts
      <3>2. Row(1) \in Rows /\ Row(2) \in Rows /\ Row(1) # Row(2) /\ Row(1).key = Row(2).key
        BY <1>2, <3>1 DEF Row
      <3> QED
        BY <3>2 DEF Duplicated
    <2> QED
      BY <2>1, <2>2
  <1> HIDE DEF b
  <1> QED
    BY <1>1, <1>5, <1>6, <1>7, <1>8 DEF Blank, b

\* What a receipt needs to be resolved: an answer, and the record of it.
LEMMA ResolvedFacts ==
    ASSUME SettledInv, NEW log \in SUBSET events, Resolved(Bundle(log))
    PROVE  \A c \in Active : Status(c) \in {200, 409}
  <1> SUFFICES ASSUME NEW c \in Active PROVE Status(c) \in {200, 409}
    OBVIOUS
  <1>1. Receipt(c) \in Receipts
    BY EvidenceFacts
  <1>2. ~Unresolved(Receipts, Transactions(log))
    BY BundleFacts DEF Resolved
  <1>3. Receipt(c).status \in {200, 409}
    BY <1>1, <1>2 DEF Unresolved
  <1> QED
    BY <1>3 DEF Receipt

\* Evidence of a single effect under which every request was answered is that of
\* a run that the oracle passes.
LEMMA SinglePasses ==
    ASSUME SettledInv, NEW log \in SUBSET events, Single(Bundle(log))
    PROVE  /\ Len(ledger) = 1 /\ FailedChecks = {}
           /\ \A c \in Active :
                Status(c) = IF case.scenario = "conflict" /\ c = 2 THEN 409 ELSE 200
  <1>1. Len(ledger) = 1
    BY BundleFacts, RowFacts DEF Single
  <1>2. \A c \in Active : Status(c) # 0
    BY ResolvedFacts DEF Single
  <1> QED
    BY <1>1, <1>2, AnsweredVerdict

\* A receipt says retried when a second request was sent or nobody answered.
LEMMA RetriedFact ==
    ASSUME NEW c
    PROVE  Receipt(c).retried <=> attempt[c] > 1 \/ Status(c) = 0
  <1> DEFINE again == attempt[c] > 1 \/ Status(c) = 0
  <1>1. Receipt(c).retried = again
    BY DEF Receipt
  <1> QED
    BY <1>1

\* A response that was withheld belongs to the one client of "lost-ack"; if that
\* client has an answer, it came from a later attempt.
LEMMA WithheldFacts ==
    ASSUME SettledInv, NEW h \in Attempts, DropRecord(h) \in events, At(h, "closed"),
           Status(1) # 0
    PROVE  h[1] = 1 /\ Active = {1} /\ attempt[1] > h[2] /\ Receipt(1).retried
  <1>1. case.scenario = "lost-ack"
    BY DEF DropRecord, SettledInv, SessionInv
  <1>2. Active = {1}
    BY <1>1 DEF Active
  <1>3. /\ h[1] \in Clients /\ h[2] \in 1..MaxAttempts /\ MaxAttempts \in Nat /\ 1 \in Clients
        /\ attempt[h[1]] \in Nat /\ h = <<h[1], h[2]>>
    BY Types, CaseFacts DEF SettledInv, Attempts, LocalTypes
  <1>4. h[2] <= attempt[h[1]]
    BY <1>3 DEF SettledInv, IInv, ControlInv, At
  <1>5. h[1] = 1
    BY <1>2, <1>3, <1>4 DEF SettledInv, SessionInv
  <1>6. At(Current(1), "answered")
    BY <1>3 DEF SettledInv, SessionInv, Status
  <1>7. h[2] # attempt[1]
    BY <1>3, <1>5, <1>6 DEF At, Current
  <1>8. attempt[1] > h[2]
    BY <1>3, <1>4, <1>5, <1>7
  <1>9. Receipt(1).retried
    BY <1>3, <1>5, <1>8, RetriedFact
  <1> QED
    BY <1>2, <1>5, <1>8, <1>9

\* The reassuring labels are earned, a duplicate is one, and a recovery that is
\* reported is witnessed by the handler that inserted the row.
LEMMA LabelsSound ==
    ASSUME SettledInv, NEW log \in SUBSET events
    PROVE  /\ Diagnosis(log) \in {"clean", "acknowledgement_lost_recovered",
                                  "conflicting_payload_rejected"} => FailedChecks = {}
           /\ Diagnosis(log) = "duplicate_effect" => "one_effect" \in FailedChecks
           /\ Diagnosis(log) = "acknowledgement_lost_recovered" => RecoveryWitnessed
  <1> DEFINE b == Bundle(log)
  <1>1. /\ Diagnosis(log) = "duplicate_effect" <=> ~Blank(b) /\ Duplicated(b.rows)
        /\ Diagnosis(log) = "conflicting_payload_rejected" => Single(b)
        /\ Diagnosis(log) = "acknowledgement_lost_recovered" =>
             Single(b) /\ RecoveryProved(Retries(b), b.transactions, b.dropped)
        /\ Diagnosis(log) = "clean" => Single(b)
    BY LabelCases DEF Diagnosis
  <1>2. Single(b) => FailedChecks = {}
    BY SinglePasses
  <1>3. Diagnosis(log) = "duplicate_effect" => "one_effect" \in FailedChecks
    <2>1. Duplicated(b.rows) => Len(ledger) >= 2
      BY BundleFacts
    <2> QED
      BY <1>1, <2>1, RowFacts, ChecksFacts
  <1>4. ASSUME Diagnosis(log) = "acknowledgement_lost_recovered" PROVE RecoveryWitnessed
    <2>1. Single(b) /\ RecoveryProved(Retries(b), Transactions(log), Dropped(log))
      BY <1>1, <1>4, BundleFacts
    <2>2. PICK d \in Dropped(log) : /\ \E t \in Transactions(log) : CommitLost(t, d)
                                    /\ \E r \in Retries(b) : Recovers(r, d)
      BY <2>1 DEF RecoveryProved
    <2>3. PICK t \in Transactions(log) : CommitLost(t, d)
      BY <2>2
    <2>4. PICK h \in Attempts : /\ At(h, "closed") /\ handlers[h].status # 0
                                /\ DropRecord(h) \in log /\ d = Withheld(h)
      BY EvidenceFacts
    <2>5. PICK g \in Attempts : /\ Logged(g) /\ handlers[g].status # 0
                                /\ t = Transaction(g)
      BY EvidenceFacts
    <2>6. g = h /\ handlers[h].inserted
      BY <2>3, <2>4, <2>5 DEF CommitLost, Transaction, Withheld
    <2>7. handlers[h].id \in DOMAIN ledger
      BY <2>5, <2>6 DEF SettledInv, IInv, HandlerInv, Logged
    <2>8. handlers[h].id = 1
      BY <2>1, <2>7, SinglePasses, RowFacts
    <2>9. Status(1) # 0
      BY <2>1, SinglePasses, Types, CaseFacts DEF SettledInv
    <2>10. h[1] = 1 /\ attempt[1] > h[2]
      BY <2>4, <2>9, WithheldFacts
    <2> QED
      BY <2>4, <2>6, <2>8, <2>10 DEF RecoveryWitnessed
  <1> HIDE DEF b
  <1> QED
    BY <1>1, <1>2, <1>3, <1>4

\* Records that are lost make the diagnosis abstain or leave it as it is.
LEMMA LossOnlyAbstains ==
    ASSUME SettledInv, NEW log \in SUBSET events
    PROVE  Diagnosis(log) \in {Diagnosis(events), "insufficient_evidence"}
  <1> DEFINE b == Bundle(log)
             full == Bundle(events)
  <1>1. /\ b.rows = Rows /\ b.receipts = Receipts /\ b.transactions = Transactions(log)
        /\ b.dropped = Dropped(log)
        /\ full.rows = Rows /\ full.receipts = Receipts
        /\ full.transactions = Transactions(events) /\ full.dropped = Dropped(events)
        /\ Blank(b) <=> Len(ledger) = 0
        /\ Blank(full) <=> Len(ledger) = 0
    BY BundleFacts
  <1>2. Transactions(log) \subseteq Transactions(events) /\ Dropped(log) \subseteq Dropped(events)
    BY DEF Transactions, Dropped
  <1>3. Diagnosis(log) = Diagnose(b) /\ Diagnosis(events) = Diagnose(full)
    BY DEF Diagnosis
  <1> HIDE DEF b, full
  <1>4. Conflicts(b) = Conflicts(full) /\ Retries(b) = Retries(full)
    BY <1>1 DEF Conflicts, Retries
  <1>5. Resolved(b) => Resolved(full)
    BY <1>1, <1>2 DEF Resolved, Unresolved
  <1>6. Single(b) => Single(full)
    BY <1>1, <1>5 DEF Single
  <1>7. CASE Diagnose(b) = "duplicate_effect"
    BY <1>1, <1>3, <1>7, LabelCases
  <1>8. CASE Diagnose(b) = "conflicting_payload_rejected"
    <2>1. Single(full) /\ Conflicts(full) # {}
          /\ \A r \in Conflicts(full) : \E t \in full.transactions : Refused(r, t)
      BY <1>1, <1>2, <1>4, <1>6, <1>8, LabelCases
    <2> QED
      BY <1>3, <1>8, <2>1, LabelCases
  <1>9. CASE Diagnose(b) = "acknowledgement_lost_recovered"
    <2>1. /\ Single(b) /\ Conflicts(b) = {} /\ Retries(b) # {}
          /\ RecoveryProved(Retries(b), b.transactions, b.dropped)
      BY <1>9, LabelCases
    <2>2. RecoveryProved(Retries(full), full.transactions, full.dropped)
      BY <1>1, <1>2, <1>4, <2>1 DEF RecoveryProved
    <2> QED
      BY <1>3, <1>4, <1>6, <1>9, <2>1, <2>2, LabelCases
  <1>10. CASE Diagnose(b) = "clean"
    <2>1. Single(b) /\ Conflicts(b) = {} /\ Retries(b) = {}
      BY <1>10, LabelCases
    <2>2. Dropped(events) = {}
      <3> SUFFICES ASSUME NEW d \in Dropped(events) PROVE FALSE
        OBVIOUS
      <3>1. PICK h \in Attempts : At(h, "closed") /\ DropRecord(h) \in events
        BY EvidenceFacts
      <3>2. 1 \in Active /\ Status(1) # 0
        BY <2>1, SinglePasses, Types, CaseFacts DEF SettledInv, b
      <3>3. Receipt(1).retried /\ Receipt(1) \in Receipts
        BY <3>1, <3>2, WithheldFacts, EvidenceFacts
      <3> QED
        BY <1>1, <2>1, <3>3 DEF Retries
    <2> QED
      BY <1>1, <1>3, <1>4, <1>6, <1>10, <2>1, <2>2, LabelCases
  <1> QED
    BY <1>3, <1>7, <1>8, <1>9, <1>10, LabelCases

\* Where nothing was late the whole log shows an answer, and its record, for
\* every request.
LEMMA QuietEvidence ==
    ASSUME SettledInv, Quiet, Executed, Len(ledger) = 1
    PROVE  /\ Single(Bundle(events))
           /\ \A c \in Active : /\ Transaction(Current(c)) \in Transactions(events)
                                /\ Receipt(c).retried <=> case.scenario = "lost-ack"
  <1> DEFINE b == Bundle(events)
  <1>1. ASSUME NEW c \in Active
        PROVE  /\ Transaction(Current(c)) \in Transactions(events)
               /\ Receipt(c).retried <=> case.scenario = "lost-ack"
               /\ Status(c) \in {200, 409}
    <2>1. Record(Current(c)) \in events
      BY QuietFacts DEF SettledInv, IInv, LogInv
    <2>2. Transaction(Current(c)) \in Transactions(events)
      BY <2>1, QuietFacts, EvidenceFacts
    <2>3. Receipt(c).retried <=> case.scenario = "lost-ack"
      BY QuietFacts, RetriedFact
    <2> QED
      BY <2>2, <2>3, QuietFacts, AnswerFacts
  <1>2. ~Unresolved(Receipts, Transactions(events))
    <2> SUFFICES ASSUME NEW r \in Receipts
                 PROVE  /\ r.status \in {200, 409}
                        /\ \E t \in Transactions(events) :
                             t.key = r.key /\ t.requested = r.requested /\ t.status = r.status
      BY DEF Unresolved
    <2>1. PICK c \in Active : r = Receipt(c)
      BY EvidenceFacts
    <2>2. r.key = Key /\ r.requested = Amount(c) /\ r.status = Status(c)
      BY <2>1 DEF Receipt
    <2> DEFINE t == Transaction(Current(c))
    <2>3. t.key = Key /\ t.requested = Amount(c) /\ t.status = Status(c)
      BY QuietFacts DEF Transaction, Current
    <2> HIDE DEF t
    <2>4. t \in Transactions(events)
      BY <1>1 DEF t
    <2> QED
      BY <1>1, <2>2, <2>3, <2>4
  <1>3. 1 \in Active
    BY Types, CaseFacts DEF SettledInv
  <1>4. Single(b)
    BY <1>1, <1>2, <1>3, BundleFacts DEF Single, Resolved
  <1> QED
    BY <1>1, <1>4

\* With the whole log, and nothing late, the diagnosis is the label of the grader.
LEMMA QuietLabel ==
    ASSUME SettledInv, Quiet, Executed
    PROVE  Diagnosis(events) = ExpectedLabel
  <1> DEFINE b == Bundle(events)
  <1>1. /\ b.rows = Rows /\ b.receipts = Receipts /\ b.transactions = Transactions(events)
        /\ b.dropped = Dropped(events) /\ Diagnosis(events) = Diagnose(b)
        /\ Blank(b) <=> Len(ledger) = 0
        /\ Duplicated(Rows) <=> Len(ledger) >= 2
    BY BundleFacts DEF Diagnosis
  <1>2. /\ case.mode = "baseline" <=> ~Guarded
        /\ case.scenario \in Scenarios /\ 1 \in Active
    BY Types, CaseFacts DEF SettledInv, Guarded, Modes
  <1>3. CASE ~Guarded /\ case.scenario # "clean"
    <2>1. Len(ledger) >= 2 /\ Len(ledger) # 0
      BY <1>3, QuietRows, RowFacts
    <2>2. ExpectedLabel = "duplicate_effect"
      BY <1>2, <1>3 DEF ExpectedLabel
    <2> HIDE DEF b
    <2> QED
      BY <1>1, <2>1, <2>2, LabelCases
  <1>4. CASE Guarded \/ case.scenario = "clean"
    <2>1. Len(ledger) = 1
      BY <1>4, QuietRows
    <2>2. /\ Single(b)
          /\ \A c \in Active : /\ Transaction(Current(c)) \in Transactions(events)
                               /\ Receipt(c).retried <=> case.scenario = "lost-ack"
      BY <2>1, QuietEvidence
    <2>3. /\ \A c \in Active : /\ Receipt(c) \in Receipts
                               /\ Receipt(c).status = Status(c) /\ Receipt(c).key = Key
                               /\ Receipt(c).id = response[c].id /\ Receipt(c).requested = Amount(c)
          /\ \A r \in Receipts : \E c \in Active : r = Receipt(c)
          /\ \A c \in Active :
               Status(c) = IF case.scenario = "conflict" /\ c = 2 THEN 409 ELSE 200
      BY <2>1, QuietFacts, AnsweredVerdict, EvidenceFacts DEF Receipt
    <2> HIDE DEF b
    <2>4. case.scenario = "lost-ack" <=> Retries(b) # {}
      BY <1>1, <1>2, <2>2, <2>3 DEF Retries
    <2>5. CASE case.scenario = "conflict"
      <3>1. 2 \in Active /\ Receipt(2) \in Conflicts(b)
        BY <1>1, <2>3, <2>5 DEF Active, Conflicts
      <3>2. ASSUME NEW r \in Conflicts(b) PROVE \E t \in b.transactions : Refused(r, t)
        <4>1. PICK c \in Active : r = Receipt(c) /\ Status(c) = 409
          BY <1>1, <2>3, <3>2 DEF Conflicts
        <4> DEFINE h == Current(c)
                   t == Transaction(h)
        <4>2. /\ handlers[h].status = 409 /\ h \in Attempts /\ Committed(h) /\ h[1] = c
          BY <4>1, QuietFacts DEF Current
        <4>3. handlers[h].stored # Amount(c) /\ ~handlers[h].inserted
          BY <4>2 DEF SettledInv, IInv, HandlerInv
        <4>4. /\ t.status = 409 /\ t.key = Key /\ t.requested = Amount(c)
              /\ t.requested # t.stored /\ ~t.inserted
          BY <4>2, <4>3 DEF Transaction
        <4> HIDE DEF t
        <4>5. t \in b.transactions /\ Refused(r, t)
          BY <1>1, <2>2, <2>3, <4>1, <4>4 DEF Refused, t
        <4> QED
          BY <4>5
      <3>3. ExpectedLabel = "conflicting_payload_rejected"
        BY <1>2, <1>4, <2>5 DEF ExpectedLabel
      <3> QED
        BY <1>1, <2>2, <3>1, <3>2, <3>3, LabelCases
    <2>6. CASE case.scenario # "conflict"
      <3>1. Conflicts(b) = {}
        BY <1>1, <2>3, <2>6 DEF Conflicts
      <3>2. CASE case.scenario = "lost-ack"
        <4>1. /\ First \in Attempts /\ At(First, "closed") /\ handlers[First].status # 0
              /\ handlers[First].inserted /\ DropRecord(First) \in events
              /\ Status(1) = 200 /\ handlers[Current(1)].id = response[1].id
              /\ Committed(Current(1)) /\ Current(1) \in Attempts /\ handlers[Current(1)].status # 0
          BY <1>2, <2>3, <3>2, QuietFacts
        <4>2. Committed(First) /\ Logged(First)
          BY <4>1 DEF Committed, Logged, At
        <4>3. handlers[First].id = 1 /\ handlers[Current(1)].id = 1
          <5>1. handlers[First].id \in DOMAIN ledger /\ handlers[Current(1)].id \in DOMAIN ledger
            BY <4>1, <4>2 DEF SettledInv, IInv, HandlerInv
          <5> QED
            BY <2>1, <5>1, RowFacts
        <4> DEFINE d == Withheld(First)
                   t == Transaction(First)
        <4>4. d \in b.dropped /\ t \in b.transactions
          <5>1. Record(First) \in events
            BY <4>1, <4>2 DEF SettledInv, IInv, LogInv
          <5> QED
            BY <1>1, <4>1, <5>1, EvidenceFacts
        <4>5. CommitLost(t, d)
          BY <4>1 DEF CommitLost, Transaction, Withheld
        <4>6. d.id = 1 /\ d.key = Key
          BY <4>3 DEF Withheld
        <4>7. Receipt(1) \in Retries(b)
          BY <1>1, <1>2, <2>2, <2>3, <3>2 DEF Retries
        <4> HIDE DEF d, t
        <4>8. Recovers(Receipt(1), d)
          <5>1. Receipt(1).id = 1 /\ Receipt(1).key = Key /\ Receipt(1).status = 200
            BY <1>2, <2>3, <4>1, <4>3
          <5> QED
            BY <4>6, <5>1 DEF Recovers
        <4>9. RecoveryProved(Retries(b), b.transactions, b.dropped)
          BY <4>4, <4>5, <4>7, <4>8 DEF RecoveryProved
        <4>10. ExpectedLabel = "acknowledgement_lost_recovered"
          BY <1>2, <1>4, <3>2 DEF ExpectedLabel
        <4> QED
          BY <1>1, <2>2, <2>4, <3>1, <3>2, <4>9, <4>10, LabelCases
      <3>3. CASE case.scenario # "lost-ack"
        <4>1. b.dropped = {}
          <5>1. \A h \in Attempts : DropRecord(h) \notin events
            BY <3>3 DEF SettledInv, SessionInv, DropRecord
          <5> QED
            BY <1>1, <5>1, EvidenceFacts
        <4>2. ExpectedLabel = "clean"
          BY <1>2, <1>4, <2>6, <3>3 DEF ExpectedLabel
        <4> QED
          BY <1>1, <2>2, <2>4, <3>1, <3>3, <4>1, <4>2, LabelCases
      <3> QED
        BY <3>2, <3>3
    <2> QED
      BY <2>5, <2>6
  <1> QED
    BY <1>3, <1>4

\* Evidence that lost its rows, names a row that is not there, or lacks a record
\* that its label needs.
LEMMA AblationsAbstain ==
    ASSUME SettledInv, Quiet, Executed, NEW a \in Ablations
    PROVE  Diagnose(a) = "insufficient_evidence"
  <1> DEFINE b == Bundle(events)
  <1>1. CASE case = [mode |-> "guarded", scenario |-> "clean"]
    <2>1. /\ Guarded /\ case.scenario = "clean" /\ Len(ledger) = 1 /\ DOMAIN ledger = {1}
          /\ \A c \in Active : Status(c) = 200
      BY <1>1, QuietRows, QuietFacts, AnsweredVerdict, RowFacts DEF Guarded
    <2>2. a \in {[b EXCEPT !.rows = {}]} \cup
               {[b EXCEPT !.receipts = (@ \ {r}) \cup {[r EXCEPT !.id = 999]}] : r \in Receipts}
      BY <1>1 DEF Ablations
    <2>3. CASE a = [b EXCEPT !.rows = {}]
      <3>1. a.rows = {}
        BY <2>3 DEF Bundle
      <3> QED
        BY <3>1, LabelCases DEF Blank, Single
    <2>4. ASSUME NEW r \in Receipts,
                 a = [b EXCEPT !.receipts = (@ \ {r}) \cup {[r EXCEPT !.id = 999]}]
          PROVE  Diagnose(a) = "insufficient_evidence"
      <3> DEFINE q == [r EXCEPT !.id = 999]
      <3>1. a.rows = Rows /\ q \in a.receipts
        BY <2>4 DEF Bundle
      <3>2. PICK c \in Active : r = Receipt(c)
        BY EvidenceFacts
      <3>3. q.id = 999 /\ q.status = 200
        BY <2>1, <3>2 DEF Receipt
      <3>4. ~InLedger(Rows, q.key, q.id, q.amount)
        <4>1. \A row \in Rows : row.id # 999
          BY <2>1, EvidenceFacts DEF Row
        <4> QED
          BY <3>3, <4>1 DEF InLedger
      <3> HIDE DEF q
      <3>5. Blank(a)
        BY <3>1, <3>3, <3>4 DEF Blank, Contradictory
      <3> QED
        BY <3>5, LabelCases DEF Single
    <2> QED
      BY <2>2, <2>3, <2>4
  <1>2. CASE case = [mode |-> "guarded", scenario |-> "lost-ack"]
    <2> DEFINE kept == {e \in events : e.kind # "response_not_sent"}
    <2>1. /\ Guarded /\ case.scenario = "lost-ack" /\ Len(ledger) = 1 /\ 1 \in Active
          /\ \A c \in Active : Status(c) = 200
      BY <1>2, QuietRows, QuietFacts, AnsweredVerdict, Types, CaseFacts DEF Guarded, SettledInv
    <2>2. a = Bundle({}) \/ a = Bundle(kept)
      BY <1>2 DEF Ablations
    <2>3. ~Duplicated(Rows)
      BY <2>1, BundleFacts
    <2>4. CASE a = Bundle({})
      <3>1. a.rows = Rows /\ a.transactions = {}
        BY <2>4 DEF Bundle, Transactions
      <3> QED
        BY <2>3, <3>1, LabelCases DEF Single, Resolved
    <2>5. CASE a = Bundle(kept)
      <3>1. a.rows = Rows /\ a.receipts = Receipts /\ a.dropped = {}
        BY <2>5 DEF Bundle, Dropped
      <3>2. Conflicts(a) = {}
        <4>1. \A r \in Receipts : r.status # 409
          BY <2>1, EvidenceFacts DEF Receipt
        <4> QED
          BY <3>1, <4>1 DEF Conflicts
      <3>3. Retries(a) # {}
        <4>1. Receipt(1) \in Receipts /\ Receipt(1).retried
          BY <2>1, QuietFacts, RetriedFact, EvidenceFacts
        <4> QED
          BY <3>1, <4>1 DEF Retries
      <3>4. ~RecoveryProved(Retries(a), a.transactions, a.dropped)
        BY <3>1 DEF RecoveryProved
      <3> QED
        BY <2>3, <3>1, <3>2, <3>3, <3>4, LabelCases
    <2> QED
      BY <2>2, <2>4, <2>5
  <1>3. CASE /\ case # [mode |-> "guarded", scenario |-> "clean"]
             /\ case # [mode |-> "guarded", scenario |-> "lost-ack"]
    BY <1>3 DEF Ablations
  <1> QED
    BY <1>1, <1>2, <1>3

\* The evidence rules of triage.py are right about the service: where nothing
\* was late every case is labelled as its grader expects and every ablation
\* abstains; with any part of the log missing, and anything late, a reassuring
\* label is that of a passing run, a duplicate is one, and a recovery that is
\* reported was that of the handler that inserted the row.
THEOREM DiagnosisRight == Spec => []DiagnosisSound
  <1>1. SettledInv => DiagnosisSound
    <2> SUFFICES ASSUME SettledInv, Executed
                 PROVE  /\ CatalogDiagnosis
                        /\ \A log \in SUBSET events :
                             /\ Diagnosis(log) \in {"clean", "acknowledgement_lost_recovered",
                                                    "conflicting_payload_rejected"}
                                  => FailedChecks = {}
                             /\ Diagnosis(log) = "duplicate_effect" => "one_effect" \in FailedChecks
                             /\ Diagnosis(log) = "acknowledgement_lost_recovered"
                                  => RecoveryWitnessed
      BY DEF DiagnosisSound
    <2>1. CatalogDiagnosis
      BY QuietLabel, AblationsAbstain DEF CatalogDiagnosis, Quiet
    <2> QED
      BY <2>1, LabelsSound
  <1> QED
    BY <1>1, SettledInvariance, PTL

\* Losing any part of the service log never turns one cause into another.
THEOREM LossAbstains == Spec => []LostLogOnlyAbstains
  <1>1. SettledInv => LostLogOnlyAbstains
    BY LossOnlyAbstains DEF LostLogOnlyAbstains
  <1> QED
    BY <1>1, SettledInvariance, PTL

-----------------------------------------------------------------------------
(* The gate on a model's proposal                                            *)

Cited(R, C, T, D) == [rows |-> R, receipts |-> C, transactions |-> T, dropped |-> D]

\* What diagnose() cites for each label.
LEMMA ProofCases ==
    ASSUME NEW b, NEW p \in Proofs(b)
    PROVE  \/ Diagnose(b) = "duplicate_effect" /\ p = Cited(b.rows, {}, {}, {})
           \/ Diagnose(b) = "clean" /\ p = Cited(b.rows, b.receipts, b.transactions, {})
           \/ /\ Diagnose(b) = "conflicting_payload_rejected"
              /\ \E T \in SUBSET b.transactions :
                   /\ p = Cited(b.rows, Conflicts(b), T, {})
                   /\ \A r \in Conflicts(b) : \E t \in T : Refused(r, t)
                   /\ \A t \in T : \E r \in Conflicts(b) : Refused(r, t)
           \/ /\ Diagnose(b) = "acknowledgement_lost_recovered"
              /\ \E r \in b.receipts, t \in b.transactions, d \in b.dropped :
                   /\ p = Cited(b.rows, {r}, {t}, {d})
                   /\ r.retried /\ CommitLost(t, d) /\ Recovers(r, d)
  <1> DEFINE choices == {f \in [Conflicts(b) -> b.transactions] :
                            \A r \in Conflicts(b) : Refused(r, f[r])}
  <1>1. CASE Diagnose(b) = "duplicate_effect"
    BY <1>1 DEF Proofs, Cited
  <1>2. CASE Diagnose(b) = "clean"
    BY <1>2 DEF Proofs, Cited
  <1>3. CASE Diagnose(b) = "conflicting_payload_rejected"
    <2>1. p \in {Cited(b.rows, Conflicts(b), {f[r] : r \in Conflicts(b)}, {}) : f \in choices}
      BY <1>3 DEF Proofs, Cited, Conflicts
    <2>2. PICK f \in choices : p = Cited(b.rows, Conflicts(b), {f[r] : r \in Conflicts(b)}, {})
      BY <2>1
    <2> DEFINE T == {f[r] : r \in Conflicts(b)}
    <2>3. /\ T \subseteq b.transactions
          /\ \A r \in Conflicts(b) : f[r] \in T /\ Refused(r, f[r])
          /\ \A t \in T : \E r \in Conflicts(b) : t = f[r]
      BY <2>2
    <2>4. p = Cited(b.rows, Conflicts(b), T, {})
      BY <2>2
    <2> HIDE DEF T
    <2> QED
      BY <1>3, <2>3, <2>4
  <1>4. CASE Diagnose(b) = "acknowledgement_lost_recovered"
    <2>1. p \in {Cited(b.rows, {x[1]}, {x[2]}, {x[3]}) : x \in
                   {y \in b.receipts \X b.transactions \X b.dropped :
                       y[1].retried /\ CommitLost(y[2], y[3]) /\ Recovers(y[1], y[3])}}
      BY <1>4 DEF Proofs, Cited
    <2>2. PICK x \in b.receipts \X b.transactions \X b.dropped :
             /\ p = Cited(b.rows, {x[1]}, {x[2]}, {x[3]})
             /\ x[1].retried /\ CommitLost(x[2], x[3]) /\ Recovers(x[1], x[3])
      BY <2>1
    <2>3. x[1] \in b.receipts /\ x[2] \in b.transactions /\ x[3] \in b.dropped
      BY <2>2
    <2> QED
      BY <1>4, <2>2, <2>3
  <1>5. Diagnose(b) # "insufficient_evidence"
    BY DEF Proofs
  <1> QED
    BY <1>1, <1>2, <1>3, <1>4, <1>5, LabelCases

\* The fields of a citation.
LEMMA CitedParts ==
    ASSUME NEW R, NEW C, NEW T, NEW D
    PROVE  LET c == Cited(R, C, T, D)
           IN  /\ c.rows = R /\ c.receipts = C /\ c.transactions = T /\ c.dropped = D
               /\ DOMAIN c = {"rows", "receipts", "transactions", "dropped"}
               /\ c["rows"] = R /\ c["receipts"] = C
               /\ c["transactions"] = T /\ c["dropped"] = D
  BY DEF Cited

\* Citing more receipts is a citation again.
LEMMA CitedMore ==
    ASSUME NEW R, NEW C, NEW T, NEW D, NEW p, NEW extra, p = Cited(R, C, T, D)
    PROVE  [p EXCEPT !.receipts = @ \cup extra] = Cited(R, C \cup extra, T, D)
  <1>1. p = [rows |-> R, receipts |-> C, transactions |-> T, dropped |-> D]
    BY DEF Cited
  <1>2. p.receipts \cup extra = C \cup extra
    BY <1>1
  <1> DEFINE E == p.receipts \cup extra
  <1>3. E = C \cup extra
    BY <1>2
  <1> HIDE DEF E
  <1>4. [p EXCEPT !.receipts = E] = [rows |-> R, receipts |-> E, transactions |-> T, dropped |-> D]
    BY <1>1
  <1> QED
    BY <1>3, <1>4 DEF Cited, E

\* A proof that is cited whole, with further receipts, is accepted.
LEMMA GateOpens ==
    ASSUME NEW b, NEW p \in Proofs(b), NEW R, NEW C, NEW T, NEW D, NEW E,
           p = Cited(R, C, T, D), C \subseteq E,
           R \subseteq b.rows, E \subseteq b.receipts,
           T \subseteq b.transactions, D \subseteq b.dropped
    PROVE  Validated(b, Diagnose(b), Cited(R, E, T, D)) = Diagnose(b)
  <1> DEFINE c == Cited(R, E, T, D)
  <1>1. Within(c, b)
    BY CitedParts DEF Within
  <1>2. Within(p, c)
    BY CitedParts DEF Within
  <1> HIDE DEF c
  <1> QED
    BY <1>1, <1>2 DEF Validated, c

\* The evidence of one case, cited in part, contradicts nothing.
LEMMA CitedSafe ==
    ASSUME SettledInv, NEW log \in SUBSET events, NEW C \in SUBSET Receipts,
           NEW T \in SUBSET Transactions(log), NEW D, C # {}, Len(ledger) # 0
    PROVE  ~Blank(Cited(Rows, C, T, D))
  <1>1. ~Contradictory(Rows, C, T)
    BY BundleFacts DEF Contradictory
  <1>2. Rows # {}
    <2>1. 1 \in DOMAIN ledger
      BY RowFacts
    <2>2. Rows = {Row(i) : i \in DOMAIN ledger}
      BY EvidenceFacts
    <2> QED
      BY <2>1, <2>2
  <1> QED
    BY <1>1, <1>2 DEF Blank, Cited

\* What is cited for a label establishes that label and no other.
LEMMA ProposalHolds ==
    ASSUME SettledInv, NEW log \in SUBSET events, NEW p \in Proofs(Bundle(log)),
           NEW extra \in SUBSET Receipts
    PROVE  LET cited == [p EXCEPT !.receipts = @ \cup extra]
               accepted == Validated(Bundle(log), Diagnosis(log), cited)
           IN  /\ accepted = Diagnosis(log)
               /\ Diagnose(cited) \in {accepted, "insufficient_evidence"}
               /\ extra = {} /\ accepted # "duplicate_effect" => Diagnose(cited) = accepted
               /\ extra # {} /\ accepted = "duplicate_effect" => Diagnose(cited) = accepted
  <1> DEFINE b == Bundle(log)
             cited == [p EXCEPT !.receipts = @ \cup extra]
             label == Diagnose(b)
  <1>1. /\ b.rows = Rows /\ b.receipts = Receipts /\ b.transactions = Transactions(log)
        /\ b.dropped = Dropped(log) /\ Diagnosis(log) = label
        /\ DOMAIN b = {"rows", "receipts", "transactions", "dropped"}
        /\ Blank(b) <=> Len(ledger) = 0
        /\ Duplicated(Rows) <=> Len(ledger) >= 2
    BY BundleFacts DEF Diagnosis, Bundle
  <1>2. p \in Proofs(b)
    OBVIOUS
  <1>8. \A R, C, T, D : p = Cited(R, C, T, D) => cited = Cited(R, C \cup extra, T, D)
    BY CitedMore
  <1>9. ASSUME NEW C, NEW T, NEW D, p = Cited(b.rows, C, T, D), C \subseteq b.receipts,
               T \subseteq b.transactions, D \subseteq b.dropped
        PROVE  Validated(b, label, cited) = label
    <2>1. cited = Cited(b.rows, C \cup extra, T, D)
      BY <1>8, <1>9
    <2>2. C \cup extra \subseteq b.receipts /\ C \subseteq C \cup extra
      BY <1>1, <1>9
    <2> HIDE DEF cited, b
    <2> QED
      BY <1>2, <1>9, <2>1, <2>2, GateOpens
  <1> HIDE DEF b
  <1> SUFFICES /\ Validated(b, label, cited) = label
               /\ Diagnose(cited) \in {label, "insufficient_evidence"}
               /\ extra = {} /\ label # "duplicate_effect" => Diagnose(cited) = label
               /\ extra # {} /\ label = "duplicate_effect" => Diagnose(cited) = label
    BY <1>1 DEF b
  <1> HIDE DEF cited
  <1>3. CASE label = "duplicate_effect" /\ p = Cited(b.rows, {}, {}, {})
    <2>1. Validated(b, label, cited) = label
      BY <1>3, <1>9
    <2>2. cited = Cited(Rows, extra, {}, {})
      BY <1>1, <1>3, <1>8
    <2>3. Duplicated(Rows) /\ Len(ledger) # 0
      BY <1>1, <1>3, LabelCases
    <2>4. /\ cited.rows = Rows /\ cited.receipts = extra /\ cited.transactions = {}
      BY <2>2, CitedParts
    <2>5. CASE extra = {}
      <3>1. Blank(cited)
        BY <2>4, <2>5 DEF Blank
      <3>2. Diagnose(cited) = "insufficient_evidence"
        BY <3>1, LabelCases DEF Single
      <3> QED
        BY <1>3, <2>1, <2>5, <3>2
    <2>6. CASE extra # {}
      <3>1. ~Blank(cited)
        BY <2>2, <2>3, <2>6, CitedSafe
      <3>2. Diagnose(cited) = "duplicate_effect"
        BY <2>3, <2>4, <3>1, LabelCases
      <3> QED
        BY <1>3, <2>1, <3>2
    <2> QED
      BY <2>5, <2>6
  <1>4. CASE label = "clean" /\ p = Cited(b.rows, b.receipts, b.transactions, {})
    <2>1. Validated(b, label, cited) = label
      BY <1>4, <1>9
    <2>2. Receipts \cup extra = Receipts
      OBVIOUS
    <2>3. cited = Cited(Rows, Receipts, Transactions(log), {})
      BY <1>1, <1>4, <1>8, <2>2
    <2>4. /\ cited.rows = Rows /\ cited.receipts = Receipts
          /\ cited.transactions = Transactions(log) /\ cited.dropped = {}
      BY <2>3, CitedParts
    <2>5. Single(b) /\ Conflicts(b) = {} /\ Retries(b) = {}
      BY <1>4, LabelCases
    <2>6. Single(cited) /\ Conflicts(cited) = {} /\ Retries(cited) = {}
      BY <1>1, <2>4, <2>5 DEF Single, Conflicts, Retries, Resolved, Blank
    <2>7. Diagnose(cited) = "clean"
      BY <2>4, <2>6, LabelCases
    <2> QED
      BY <1>4, <2>1, <2>7
  <1>5. ASSUME label = "conflicting_payload_rejected", NEW T \in SUBSET b.transactions,
               p = Cited(b.rows, Conflicts(b), T, {}),
               \A r \in Conflicts(b) : \E t \in T : Refused(r, t)
        PROVE  /\ Validated(b, label, cited) = label
               /\ Diagnose(cited) \in {label, "insufficient_evidence"}
               /\ extra = {} => Diagnose(cited) = label
    <2>1. Conflicts(b) \subseteq Receipts /\ Conflicts(b) # {} /\ Single(b)
      BY <1>1, <1>5, LabelCases DEF Conflicts
    <2>2. Validated(b, label, cited) = label
      BY <1>1, <1>5, <1>9, <2>1
    <2>3. cited = Cited(Rows, Conflicts(b) \cup extra, T, {})
      BY <1>1, <1>5, <1>8
    <2>4. /\ cited.rows = Rows /\ cited.receipts = Conflicts(b) \cup extra
          /\ cited.transactions = T
      BY <2>3, CitedParts
    <2>5. ~Blank(cited)
      BY <1>1, <2>1, <2>3, CitedSafe DEF Single
    <2>6. Conflicts(cited) = Conflicts(b)
      BY <1>1, <2>4 DEF Conflicts
    <2>7. ~Duplicated(cited.rows)
      BY <1>1, <2>1, <2>4 DEF Single
    <2>8. Resolved(cited) => Diagnose(cited) = label
      <3>1. Resolved(cited) => Single(cited)
        BY <2>5, <2>7 DEF Single
      <3> QED
        BY <1>5, <2>1, <2>4, <2>6, <3>1, LabelCases
    <2>9. ~Resolved(cited) => Diagnose(cited) = "insufficient_evidence"
      BY <2>7, LabelCases DEF Single
    <2>10. ASSUME extra = {} PROVE Resolved(cited)
      <3>1. T # {}
        BY <1>5, <2>1
      <3>2. \A r \in Conflicts(b) : r.status = 409
        BY DEF Conflicts
      <3>3. ~Unresolved(Conflicts(b), T)
        BY <1>5, <3>2 DEF Unresolved, Refused
      <3> QED
        BY <2>4, <2>10, <3>1, <3>3 DEF Resolved
    <2> QED
      BY <2>2, <2>8, <2>9, <2>10
  <1>6. ASSUME label = "acknowledgement_lost_recovered",
               NEW r \in b.receipts, NEW t \in b.transactions, NEW d \in b.dropped,
               p = Cited(b.rows, {r}, {t}, {d}), r.retried, CommitLost(t, d), Recovers(r, d)
        PROVE  /\ Validated(b, label, cited) = label
               /\ Diagnose(cited) \in {label, "insufficient_evidence"}
               /\ extra = {} => Diagnose(cited) = label
    <2>1. Single(b) /\ Conflicts(b) = {}
      BY <1>6, LabelCases
    <2>2. Validated(b, label, cited) = label
      BY <1>6, <1>9
    <2>3. cited = Cited(Rows, {r} \cup extra, {t}, {d})
      BY <1>1, <1>6, <1>8
    <2>4. /\ cited.rows = Rows /\ cited.receipts = {r} \cup extra
          /\ cited.transactions = {t} /\ cited.dropped = {d}
      BY <2>3 DEF Cited
    <2>5. ~Blank(cited)
      BY <1>1, <1>6, <2>1, <2>3, CitedSafe DEF Single
    <2>6. Conflicts(cited) = {}
      BY <1>1, <1>6, <2>1, <2>4 DEF Conflicts
    <2>7. r \in Retries(cited)
      BY <1>6, <2>4 DEF Retries
    <2>8. RecoveryProved(Retries(cited), cited.transactions, cited.dropped)
      BY <1>6, <2>4, <2>7 DEF RecoveryProved
    <2>9. ~Duplicated(cited.rows)
      BY <1>1, <2>1, <2>4 DEF Single
    <2>10. Resolved(cited) => Diagnose(cited) = label
      <3>1. Resolved(cited) => Single(cited)
        BY <2>5, <2>9 DEF Single
      <3> QED
        BY <1>6, <2>6, <2>7, <2>8, <3>1, LabelCases
    <2>11. ~Resolved(cited) => Diagnose(cited) = "insufficient_evidence"
      BY <2>9, LabelCases DEF Single
    <2>12. ASSUME extra = {} PROVE Resolved(cited)
      <3>1. PICK h \in Attempts : Logged(h) /\ handlers[h].status # 0 /\ t = Transaction(h)
        BY <1>1, <1>6, EvidenceFacts
      <3>2. PICK g \in Attempts : /\ At(g, "closed") /\ DropRecord(g) \in events
                                  /\ d = Withheld(g)
        BY <1>1, <1>6, EvidenceFacts
      <3>3. g = h /\ handlers[h].inserted
        BY <1>6, <3>1, <3>2 DEF CommitLost, Transaction, Withheld
      <3>4. 1 \in Active /\ Status(1) # 0
        BY <2>1, SinglePasses, Types, CaseFacts DEF SettledInv, b
      <3>5. h[1] = 1 /\ Active = {1}
        BY <3>2, <3>3, <3>4, WithheldFacts
      <3>6. r = Receipt(1)
        BY <1>1, <1>6, <3>5, EvidenceFacts
      <3>7. r.key = Key /\ r.requested = Amount(1) /\ r.status = 200
        BY <1>6, <3>6 DEF Receipt, Recovers
      <3>8. handlers[h].status = 200
        BY <3>1, <3>3 DEF SettledInv, IInv, HandlerInv, Logged
      <3>9. t.key = Key /\ t.requested = Amount(1) /\ t.status = 200
        BY <3>1, <3>5, <3>8 DEF Transaction
      <3>10. ~Unresolved({r}, {t})
        BY <3>7, <3>9 DEF Unresolved
      <3> QED
        BY <2>4, <2>12, <3>10 DEF Resolved
    <2> QED
      BY <2>2, <2>10, <2>11, <2>12
  <1>7. \/ label = "duplicate_effect" /\ p = Cited(b.rows, {}, {}, {})
        \/ label = "clean" /\ p = Cited(b.rows, b.receipts, b.transactions, {})
        \/ /\ label = "conflicting_payload_rejected"
           /\ \E T \in SUBSET b.transactions :
                /\ p = Cited(b.rows, Conflicts(b), T, {})
                /\ \A r \in Conflicts(b) : \E t \in T : Refused(r, t)
        \/ /\ label = "acknowledgement_lost_recovered"
           /\ \E r \in b.receipts, t \in b.transactions, d \in b.dropped :
                /\ p = Cited(b.rows, {r}, {t}, {d})
                /\ r.retried /\ CommitLost(t, d) /\ Recovers(r, d)
    BY <1>2, ProofCases
  <1> QED
    BY <1>3, <1>4, <1>5, <1>6, <1>7

\* What a model has to cite for its proposal to be accepted establishes the
\* label by itself (validate_prediction), and more receipts never turn it into
\* another.
THEOREM ProposalRight == Spec => []ProposalSound
  <1>1. SettledInv => ProposalSound
    BY ProposalHolds DEF ProposalSound
  <1> QED
    BY <1>1, SettledInvariance, PTL
=============================================================================

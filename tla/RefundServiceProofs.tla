------------------------- MODULE RefundServiceProofs -------------------------
(* Theorems about RefundService for any number of workers, any schedules and   *)
(* scenario faults, any retry and restart budgets and any kills; and about     *)
(* RefundExperiment for either agent and any model.                            *)
EXTENDS RefundExperiment, FiniteSetTheorems, SequenceTheorems, TLAPS

Key == "authorized-refund"

\* The state outside the two databases.
LocalsOK ==
    /\ checkpoint \in Result
    /\ faultUsed \in BOOLEAN
    /\ mode \in Modes
    /\ order \in Tasks
    /\ fault \in ScenarioFaults \union {"none"}
    /\ pc \in [Workers -> States]
    /\ attempt \in [Workers -> 0..MaxAttempts]
    /\ armed \in [Workers -> ScenarioFaults \union {"none"}]
    /\ result \in [Workers -> Result]
    /\ runs \in [Workers -> 0..MaxRuns]
    /\ told \subseteq Result
    /\ crashes \in 0..MaxCrashes

\* The type invariant by database.
LEMMA TypeParts == TypeOK <=> Ledger!TypeOK /\ Faults!TypeOK /\ LocalsOK
  BY DEF TypeOK, LocalsOK

\* The types hold before the first run.
LEMMA InitType == Init => TypeOK
  <1> SUFFICES ASSUME Init PROVE TypeOK
    OBVIOUS
  <1>1. Ledger!TypeOK
    BY DEF Init, Ledger!Init, Ledger!TypeOK
  <1>2. Faults!TypeOK
    BY DEF Init, Faults!TypeOK, Faults!Rules
  <1>3. LocalsOK
    <2>1. 0 \in 0..MaxAttempts /\ 0 \in 0..MaxRuns /\ 0 \in 0..MaxCrashes
      BY ServiceAssumption
    <2>2. NoResult \in Result
      BY DEF NoResult, Result
    <2> HIDE DEF NoResult, Result
    <2> QED
      BY <2>1, <2>2 DEF Init, LocalsOK, States
  <1> QED
    BY <1>1, <1>2, <1>3, TypeParts

\* The windows of a schedule are rules of the journal.
LEMMA ScheduleRules ==
    ASSUME NEW s \in Schedules
    PROVE  DOMAIN s \subseteq Faults!Rules
  BY ServiceAssumption DEF IsSchedule, Faults!Rules

\* Drawing from the schedule keeps the fault journal well typed.
LEMMA ApplyType ==
    ASSUME TypeOK, binding # NoSchedule, NEW phase, NEW outcome,
           Faults!Apply("issue_refund", phase, outcome)
    PROVE  Faults!TypeOK' /\ UNCHANGED binding
  <1>1. Faults!TypeOK /\ binding \in Schedules
    BY DEF TypeOK, Faults!TypeOK
  <1>2. CASE UNCHANGED faultVars
    BY <1>1, <1>2 DEF faultVars, Faults!TypeOK
  <1>3. ASSUME NEW i \in DOMAIN binding, Faults!Claim(i) PROVE Faults!TypeOK' /\ UNCHANGED binding
    <2> DEFINE S == [rule : Faults!Rules, occurrence : Nat]
               e == Faults!Record(i, calls[i] + 1)
    <2>1. i \in Faults!Rules
      BY <1>1, <1>3, ScheduleRules
    <2>2. /\ calls \in [Faults!Rules -> Nat] /\ journal \in Seq(S)
          /\ calls' = [calls EXCEPT ![i] = calls[i] + 1] /\ UNCHANGED binding
          /\ journal' = Append(journal, e) \/ journal' = journal
      BY <1>1, <1>3 DEF Faults!TypeOK, Faults!Claim
    <2>3. calls' \in [Faults!Rules -> Nat] /\ e \in S
      BY <2>1, <2>2 DEF Faults!Record
    <2> HIDE DEF S, e
    <2>4. Append(journal, e) \in Seq(S)
      BY <2>2, <2>3, AppendProperties
    <2>5. journal' \in Seq(S)
      BY <2>2, <2>4
    <2> QED
      BY <1>1, <2>2, <2>3, <2>5 DEF Faults!TypeOK, S
  <1> QED
    BY <1>2, <1>3 DEF Faults!Apply, Faults!Matching, Faults!journalVars, faultVars

\* So does a refund for the ledger, and its answer is a row.
LEMMA RefundType ==
    ASSUME TypeOK, NEW key, Ledger!Refund(Actor, order, Amount, key)
    PROVE  Ledger!TypeOK'
  <1> DEFINE row == [order_id |-> order, amount |-> Amount]
             op == [payload |-> Ledger!Payload(Actor, order, Amount), refund |-> Len(refunds) + 1]
             v == Ledger!Verdict(Actor, order, Amount, key)
  <1>1. Ledger!TypeOK /\ order \in Orders
    BY ServiceAssumption DEF TypeOK
  <1>2. CASE v # "refunded"
    BY <1>1, <1>2 DEF Ledger!Refund, Ledger!Write, Ledger!ledgerVars, Ledger!TypeOK
  <1>3. CASE v = "refunded"
    <2>1. /\ refunds' = Append(refunds, row)
          /\ operations' = IF key \in Keys THEN [operations EXCEPT ![key] = op] ELSE operations
      BY <1>3 DEF Ledger!Refund, Ledger!Write
    <2>2. Ledger!Visible(Actor, order)
      BY <1>3, ServiceAssumption DEF Ledger!Verdict
    <2>3. Actor \in Actors
      BY <2>2, ServiceAssumption DEF Ledger!Visible
    <2>4. row \in Ledger!Row /\ op \in Ledger!Operation
      BY <1>1, <2>3 DEF Ledger!Row, Ledger!Operation, Ledger!Payload, Amounts, Ledger!TypeOK
    <2>5. /\ refunds \in Seq(Ledger!Row)
          /\ operations \in [Keys -> Ledger!Operation \union {NoOperation}]
      BY <1>1 DEF Ledger!TypeOK
    <2> HIDE DEF row, op
    <2>6. Append(refunds, row) \in Seq(Ledger!Row)
      BY <2>4, <2>5, AppendProperties
    <2> QED
      BY <2>1, <2>4, <2>5, <2>6 DEF Ledger!TypeOK
  <1> QED
    BY <1>2, <1>3

\* What the results a caller may hold look like.
LEMMA Results ==
    /\ NoResult \in Result /\ Denied \in Result /\ Failed \in Result /\ Malformed \in Result
    /\ \A row \in Nat : Refunded(row) \in Result
    /\ \A row \in Nat : /\ Refunded(row).status = "refunded" /\ Refunded(row).refund = row
                          /\ Refunded(row).terms
    /\ NoResult.status = "none" /\ Denied.status = "denied"
    /\ Failed.status = "failed" /\ Malformed.status = "malformed"
  BY DEF NoResult, Denied, Failed, Malformed, Refunded, Result

\* What refund() answers a successful call with is a row number.
LEMMA AnswerType ==
    ASSUME TypeOK, NEW key, NEW v,
           v = Ledger!Verdict(Actor, order, Amount, key), v \in {"refunded", "replayed"}
    PROVE  Ledger!Answer(v, key) \in Nat
  <1>1. CASE v = "replayed"
    <2>1. Ledger!Journalled(key)
      BY <1>1 DEF Ledger!Verdict
    <2>2. operations[key] \in Ledger!Operation
      BY <2>1 DEF Ledger!Journalled, TypeOK, Ledger!TypeOK
    <2> QED
      BY <1>1, <2>2 DEF Ledger!Answer, Ledger!Operation
  <1>2. CASE v = "refunded"
    <2>1. refunds \in Seq(Ledger!Row)
      BY DEF TypeOK, Ledger!TypeOK
    <2>2. Len(refunds) \in Nat
      BY <2>1, LenProperties
    <2> QED
      BY <1>2, <2>2 DEF Ledger!Answer
  <1> QED
    BY <1>1, <1>2

\* Every step keeps the types.
LEMMA TypeStep == TypeOK /\ [Next]_vars => TypeOK'
  <1> SUFFICES ASSUME TypeOK, [Next]_vars PROVE TypeOK'
    OBVIOUS
  <1>0. /\ Ledger!TypeOK /\ Faults!TypeOK /\ LocalsOK
    BY TypeParts
  <1>1. ASSUME UNCHANGED ledgerVars PROVE Ledger!TypeOK'
    BY <1>0, <1>1 DEF ledgerVars, Ledger!TypeOK
  <1>2. ASSUME UNCHANGED faultVars PROVE Faults!TypeOK'
    BY <1>0, <1>2 DEF faultVars, Faults!TypeOK
  <1> HIDE DEF NoResult, Denied, Failed, Malformed, Refunded, Result
  <1> USE ServiceAssumption, Results
      DEF LocalsOK, States, Goto, Set, durable, task, ledgerVars, faultVars
  <1>3. CASE UNCHANGED vars
    <2>1. LocalsOK'
      BY <1>0, <1>3 DEF vars
    <2> QED
      BY <1>1, <1>2, <1>3, <2>1, TypeParts DEF vars, TypeOK
  <1>4. ASSUME NEW w \in Workers, Start(w) PROVE TypeOK'
    <2>1. LocalsOK'
      BY <1>0, <1>4 DEF Start
    <2> QED
      BY <1>1, <1>2, <1>4, <2>1 DEF Start, TypeOK
  <1>5. ASSUME NEW w \in Workers, Lookup(w) PROVE TypeOK'
    <2>1. LocalsOK'
      BY <1>0, <1>5 DEF Lookup
    <2> QED
      BY <1>1, <1>2, <1>5, <2>1 DEF Lookup, TypeOK
  <1>6. ASSUME NEW w \in Workers, Before(w) PROVE TypeOK'
    <2>1. LocalsOK'
      BY <1>0, <1>6 DEF Before
    <2>2. Faults!TypeOK'
      BY <1>6, ApplyType DEF Before
    <2> QED
      BY <1>1, <1>6, <2>1, <2>2 DEF Before, TypeOK
  <1>7. ASSUME NEW w \in Workers, ConsumeFault(w) PROVE TypeOK'
    <2>1. LocalsOK'
      BY <1>0, <1>7 DEF ConsumeFault
    <2> QED
      BY <1>1, <1>2, <1>7, <2>1 DEF ConsumeFault, TypeOK
  <1>8. ASSUME NEW w \in Workers, Refund(w) PROVE TypeOK'
    <2>1. PICK key : RefundWithKey(w, key)
      BY <1>8 DEF Refund
    <2>2. Ledger!TypeOK'
      BY <2>1, RefundType DEF RefundWithKey
    <2> DEFINE v == Ledger!Verdict(Actor, order, Amount, key)
               r == IF v \in {"refunded", "replayed"}
                    THEN Refunded(Ledger!Answer(v, key)) ELSE Denied
    <2>3. r \in Result
      BY AnswerType
    <2>4. /\ result' = [result EXCEPT ![w] = r]
          /\ \E s \in {"acknowledging", "recording"} : pc' = [pc EXCEPT ![w] = s]
          /\ UNCHANGED <<checkpoint, faultUsed, faultVars, task, attempt, armed, runs, told,
                         crashes>>
      BY <2>1 DEF RefundWithKey
    <2> HIDE DEF r
    <2>5. LocalsOK'
      BY <1>0, <2>3, <2>4
    <2> QED
      BY <1>2, <2>2, <2>4, <2>5 DEF TypeOK
  <1>9. ASSUME NEW w \in Workers, After(w) PROVE TypeOK'
    <2>1. /\ UNCHANGED <<checkpoint, faultUsed, task, attempt, armed, runs, told, crashes>>
          /\ \E s \in States : pc' = [pc EXCEPT ![w] = s]
          /\ \E r \in Result : result' = [result EXCEPT ![w] = r]
      <3>1. result[w] \in Result
        BY <1>0
      <3> QED
        BY <1>9, <3>1 DEF After, Accept, Lose
    <2>3. LocalsOK'
      BY <1>0, <2>1
    <2>2. Faults!TypeOK'
      BY <1>9, ApplyType DEF After
    <2> QED
      BY <1>1, <1>9, <2>2, <2>3 DEF After, TypeOK
  <1>10. ASSUME NEW w \in Workers, AfterArmed(w) PROVE TypeOK'
    <2>1. LocalsOK'
      BY <1>0, <1>10 DEF AfterArmed, Accept, Lose
    <2> QED
      BY <1>1, <1>2, <1>10, <2>1 DEF AfterArmed, TypeOK
  <1>11. ASSUME NEW w \in Workers, Retry(w) PROVE TypeOK'
    <2>1. attempt[w] # MaxAttempts => attempt[w] + 1 \in 0..MaxAttempts
      <3>1. attempt[w] \in 0..MaxAttempts /\ MaxAttempts \in Nat
        BY <1>0
      <3> QED
        BY <3>1
    <2>2. LocalsOK'
      BY <1>0, <1>11, <2>1 DEF Retry
    <2> QED
      BY <1>1, <1>2, <1>11, <2>2 DEF Retry, TypeOK
  <1>12. ASSUME NEW w \in Workers, Record(w) PROVE TypeOK'
    <2>1. LocalsOK'
      BY <1>0, <1>12 DEF Record
    <2> QED
      BY <1>1, <1>2, <1>12, <2>1 DEF Record, TypeOK
  <1>13. ASSUME NEW w \in Workers, Rerun(w) PROVE TypeOK'
    <2>1. LocalsOK'
      BY <1>0, <1>13 DEF Rerun
    <2> QED
      BY <1>1, <1>2, <1>13, <2>1 DEF Rerun, TypeOK
  <1>14. ASSUME NEW w \in Workers, Kill(w) PROVE TypeOK'
    <2>1. crashes' \in 0..MaxCrashes
      BY <1>0, <1>14 DEF Kill
    <2>2. LocalsOK'
      BY <1>0, <1>14, <2>1 DEF Kill
    <2> QED
      BY <1>1, <1>2, <1>14, <2>2 DEF Kill, TypeOK
  <1> QED
    BY <1>3, <1>4, <1>5, <1>6, <1>7, <1>8, <1>9, <1>10, <1>11, <1>12, <1>13, <1>14 DEF Next, Step

\* Type correctness of the service, the fault journal and every worker, in
\* either mode.
THEOREM TypeCorrect == Spec => []TypeOK
  BY InitType, TypeStep, PTL DEF Spec

-----------------------------------------------------------------------------
(* Guarded mode pays once.                                                    *)

\* The service is in one of two states: nothing paid and nothing journalled, or
\* the one authorised row with its operation.
LedgerInv ==
    \/ refunds = <<>> /\ operations[Key] = NoOperation
    \/ /\ refunds = <<[order_id |-> order, amount |-> Amount]>>
       /\ operations[Key] # NoOperation
       /\ operations[Key].payload = Ledger!Payload(Actor, order, Amount)
       /\ operations[Key].refund = 1

\* A result that does not claim more than the service did.
Good(r) ==
    /\ r.status # "malformed"
    /\ r.status = "refunded" => refunds # <<>> /\ r.refund = 1 /\ r.terms

\* Results in hand, receipts given out and the checkpoint are all good; a
\* checkpoint was also given out.
ResultInv ==
    /\ \A w \in Workers : Good(result[w])
    /\ \A r \in told \union {checkpoint} : Good(r)
    /\ checkpoint # NoResult => checkpoint \in told

GuardedInv == TypeOK /\ LedgerInv /\ ResultInv

\* Before the first run nothing is paid and nobody holds a result.
LEMMA InitGuarded == Init => LedgerInv /\ ResultInv
  BY DEF Init, Ledger!Init, Keys, Key, LedgerInv, ResultInv, Good, NoResult

\* What a keyed refund does to the service, and what it may answer.
LEMMA KeyedRefund ==
    ASSUME TypeOK, LedgerInv, Ledger!Refund(Actor, order, Amount, Key), UNCHANGED order,
           NEW v, v = Ledger!Verdict(Actor, order, Amount, Key)
    PROVE  /\ LedgerInv'
           /\ refunds # <<>> => UNCHANGED ledgerVars
           /\ v \in {"refunded", "replayed"} => refunds' # <<>> /\ Ledger!Answer(v, Key) = 1
           /\ refunds' # refunds => refunds = <<>> /\ Len(refunds') = 1
  <1> DEFINE row == [order_id |-> order, amount |-> Amount]
             pay == Ledger!Payload(Actor, order, Amount)
  <1>1. operations \in [Keys -> Ledger!Operation \union {NoOperation}] /\ Key \in Keys
    BY DEF TypeOK, Ledger!TypeOK, Keys, Key
  <1>2. CASE v = "refunded"
    <2>1. ~Ledger!Journalled(Key) /\ Ledger!Visible(Actor, order)
      BY <1>2 DEF Ledger!Verdict
    <2>2. refunds = <<>>
      BY <1>1, <2>1 DEF Ledger!Journalled, LedgerInv
    <2>3. /\ refunds' = Append(refunds, row)
          /\ operations' = [operations EXCEPT
                              ![Key] = [payload |-> pay, refund |-> Len(refunds) + 1]]
      BY <1>1, <1>2 DEF Ledger!Refund, Ledger!Write
    <2>4. refunds' = <<row>> /\ operations'[Key] = [payload |-> pay, refund |-> 1]
      BY <1>1, <2>2, <2>3
    <2>5. [payload |-> pay, refund |-> 1] # NoOperation
      <3>1. Actor \in Actors /\ order \in Orders
        BY <2>1, ServiceAssumption DEF Ledger!Visible
      <3>2. pay \in [actor : Actors, order : Orders, amount : {Amount}]
        BY <3>1 DEF Ledger!Payload
      <3> HIDE DEF pay
      <3> QED
        BY <3>2, ServiceAssumption
    <2>6. LedgerInv'
      BY <2>4, <2>5 DEF LedgerInv, Ledger!Payload
    <2>7. Ledger!Answer(v, Key) = 1
      BY <1>2, <2>2 DEF Ledger!Answer
    <2> QED
      BY <1>2, <2>2, <2>4, <2>6, <2>7
  <1>3. CASE v # "refunded"
    <2>1. UNCHANGED ledgerVars
      BY <1>3 DEF Ledger!Refund, Ledger!Write, Ledger!ledgerVars, ledgerVars
    <2>2. LedgerInv'
      BY <2>1 DEF ledgerVars, LedgerInv, Ledger!Payload
    <2>3. v = "replayed" => Ledger!Journalled(Key)
      BY DEF Ledger!Verdict
    <2>4. v = "replayed" => refunds # <<>> /\ Ledger!Answer(v, Key) = 1
      BY <2>3 DEF Ledger!Journalled, Ledger!Answer, LedgerInv
    <2> QED
      BY <1>3, <2>1, <2>2, <2>4 DEF ledgerVars
  <1> QED
    BY <1>2, <1>3

\* Only Refund touches the tables, and the task never changes.
LEMMA OnlyRefundPays ==
    ASSUME [Next]_vars
    PROVE  /\ UNCHANGED task
           /\ UNCHANGED ledgerVars \/ \E w \in Workers : Refund(w)
  BY DEF Next, Step, vars, Start, Lookup, Before, ConsumeFault, Refund, RefundWithKey, After,
         AfterArmed, Retry, Record, Rerun, Kill, task, durable, ledgerVars

\* A guarded worker only ever holds results it validated or was refused.
LEMMA ResultStep ==
    ASSUME mode = "guarded", GuardedInv, [Next]_vars, UNCHANGED ledgerVars
    PROVE  ResultInv'
  <1> USE Results DEF Goto, Set, durable, task, ledgerVars
  <1>1. /\ result \in [Workers -> Result] /\ ResultInv
        /\ refunds' = refunds
    BY DEF GuardedInv, TypeOK
  <1>2. \A r : Good(r)' <=> Good(r)
    BY <1>1 DEF Good
  <1>3. Good(NoResult) /\ Good(Denied) /\ Good(Failed)
    BY DEF Good
  <1>4. ~Valid(Malformed) /\ \A w \in Workers : Good(result[w])
    BY <1>1 DEF Valid, ResultInv
  <1> HIDE DEF NoResult, Denied, Failed, Malformed
  <1> DEFINE Holds(w, r) == result' = [result EXCEPT ![w] = r]
             Silent == UNCHANGED <<told, checkpoint>>
  <1>5. ASSUME NEW w \in Workers, NEW r, Good(r), Holds(w, r), Silent PROVE ResultInv'
    BY <1>1, <1>2, <1>5 DEF ResultInv
  <1>6. ASSUME UNCHANGED result, Silent PROVE ResultInv'
    BY <1>1, <1>2, <1>6 DEF ResultInv
  <1>7. CASE UNCHANGED vars
    BY <1>6, <1>7 DEF vars
  <1>8. ASSUME NEW w \in Workers, Start(w) PROVE ResultInv'
    <2>1. /\ UNCHANGED checkpoint
          /\ \E r \in {checkpoint, NoResult} : Holds(w, r)
          /\ told' \in {told, told \union {checkpoint}}
      BY <1>8 DEF Start
    <2> QED
      BY <1>1, <1>2, <1>3, <2>1 DEF ResultInv
  <1>9. ASSUME NEW w \in Workers, Lookup(w) PROVE ResultInv'
    <2>1. /\ UNCHANGED checkpoint
          /\ \E r \in {Denied, NoResult} : Holds(w, r)
          /\ told' \in {told, told \union {Denied}}
      BY <1>9 DEF Lookup
    <2> QED
      BY <1>1, <1>2, <1>3, <2>1 DEF ResultInv
  <1>10. ASSUME NEW w \in Workers, Record(w) PROVE ResultInv'
    <2>1. /\ UNCHANGED result /\ told' = told \union {result[w]}
          /\ checkpoint' \in {checkpoint, result[w]}
      BY <1>10 DEF Record
    <2> QED
      BY <1>1, <1>2, <2>1 DEF ResultInv
  <1>11. ASSUME NEW w \in Workers, Before(w) PROVE ResultInv'
    <2>1. Silent /\ (UNCHANGED result \/ Holds(w, Denied))
      BY <1>11 DEF Before
    <2> QED
      BY <1>3, <1>5, <1>6, <2>1
  <1>12. ASSUME NEW w \in Workers, NEW r, Accept(w, r), Silent, Good(r) \/ ~Valid(r)
         PROVE  ResultInv'
    <2>1. Holds(w, NoResult) \/ (Valid(r) /\ Holds(w, r))
      BY <1>12 DEF Accept
    <2> QED
      BY <1>3, <1>5, <1>12, <2>1
  <1>13. ASSUME NEW w \in Workers, NEW s, Lose(w, s), Silent PROVE ResultInv'
    BY <1>3, <1>5, <1>13 DEF Lose
  <1>14. ASSUME NEW w \in Workers, After(w) PROVE ResultInv'
    BY <1>4, <1>12, <1>13, <1>14 DEF After
  <1>15. ASSUME NEW w \in Workers, AfterArmed(w) PROVE ResultInv'
    BY <1>4, <1>12, <1>13, <1>15 DEF AfterArmed
  <1>16. ASSUME NEW w \in Workers, ConsumeFault(w) PROVE ResultInv'
    BY <1>6, <1>16 DEF ConsumeFault
  <1>17. ASSUME NEW w \in Workers, Retry(w) PROVE ResultInv'
    <2>1. Silent /\ (UNCHANGED result \/ Holds(w, Failed))
      BY <1>17 DEF Retry
    <2> QED
      BY <1>3, <1>5, <1>6, <2>1
  <1>18. ASSUME NEW w \in Workers, Rerun(w) \/ Kill(w) PROVE ResultInv'
    <2>1. Silent /\ Holds(w, NoResult)
      BY <1>18 DEF Rerun, Kill
    <2> QED
      BY <1>3, <1>5, <2>1
  <1>19. ASSUME NEW w \in Workers, Refund(w) PROVE ResultInv'
    <2>1. RefundWithKey(w, Key)
      BY <1>19 DEF Refund, Key
    <2> DEFINE v == Ledger!Verdict(Actor, order, Amount, Key)
    <2>2. Silent /\ UNCHANGED order /\ Ledger!Refund(Actor, order, Amount, Key)
      BY <2>1 DEF RefundWithKey
    <2>3. v \in {"refunded", "replayed"} => refunds' # <<>> /\ Ledger!Answer(v, Key) = 1
      BY <2>2, KeyedRefund DEF GuardedInv
    <2>4. \/ Holds(w, Denied)
          \/ v \in {"refunded", "replayed"} /\ Holds(w, Refunded(Ledger!Answer(v, Key)))
      BY <2>1 DEF RefundWithKey
    <2> HIDE DEF v
    <2>5. CASE Holds(w, Denied)
      BY <1>3, <1>5, <2>2, <2>5
    <2>6. CASE v \in {"refunded", "replayed"} /\ Holds(w, Refunded(Ledger!Answer(v, Key)))
      <3>1. Holds(w, Refunded(1)) /\ Good(Refunded(1))
        BY <1>1, <2>3, <2>6 DEF Good
      <3> QED
        BY <1>5, <2>2, <3>1
    <2> QED
      BY <2>4, <2>5, <2>6
  <1> QED
    BY <1>7, <1>8, <1>9, <1>10, <1>11, <1>14, <1>15, <1>16, <1>17, <1>18, <1>19 DEF Next, Step

\* The first refund is the only one, and its caller's result is good.
LEMMA PayStep ==
    ASSUME mode = "guarded", GuardedInv, NEW w \in Workers, Refund(w)
    PROVE  (LedgerInv /\ ResultInv)'
  <1> USE Results
  <1> DEFINE v == Ledger!Verdict(Actor, order, Amount, Key)
  <1>1. RefundWithKey(w, Key)
    BY DEF Refund, Key
  <1>2. /\ UNCHANGED <<told, checkpoint, order>>
        /\ Ledger!Refund(Actor, order, Amount, Key)
        /\ \/ result' = [result EXCEPT ![w] = Denied]
           \/ /\ v \in {"refunded", "replayed"}
              /\ result' = [result EXCEPT ![w] = Refunded(Ledger!Answer(v, Key))]
    BY <1>1 DEF RefundWithKey, Set, task
  <1>3. /\ LedgerInv'
        /\ refunds # <<>> => UNCHANGED ledgerVars
        /\ v \in {"refunded", "replayed"} => refunds' # <<>> /\ Ledger!Answer(v, Key) = 1
    BY <1>2, KeyedRefund DEF GuardedInv
  <1> HIDE DEF v, NoResult, Denied, Refunded
  <1> DEFINE Sound(r) == /\ r.status # "malformed"
                         /\ r.status = "refunded" =>
                              refunds' # <<>> /\ r.refund = 1 /\ r.terms
  <1>4. \A r : Good(r) => Sound(r)
    BY <1>3 DEF Good, ledgerVars
  <1>5. result \in [Workers -> Result] /\ ResultInv
    BY DEF GuardedInv, TypeOK
  <1>6. Sound(Denied) /\ (refunds' # <<>> => Sound(Refunded(1)))
    OBVIOUS
  <1>7. \A r \in told \union {checkpoint} : Sound(r)
    BY <1>4, <1>5 DEF ResultInv
  <1>8. \A u \in Workers : Sound(result[u])
    BY <1>4, <1>5 DEF ResultInv
  <1> HIDE DEF Sound
  <1>9. \A u \in Workers : Sound(result'[u])
    BY <1>2, <1>3, <1>5, <1>6, <1>8
  <1>10. checkpoint' # NoResult => checkpoint' \in told'
    BY <1>2, <1>5 DEF ResultInv
  <1>11. ResultInv'
    BY <1>2, <1>7, <1>9, <1>10 DEF ResultInv, Good, Sound, NoResult
  <1> QED
    BY <1>3, <1>11

\* The invariant of guarded mode is inductive.
LEMMA GuardedStep == mode = "guarded" /\ GuardedInv /\ [Next]_vars => GuardedInv'
  <1> SUFFICES ASSUME mode = "guarded", GuardedInv, [Next]_vars PROVE GuardedInv'
    OBVIOUS
  <1>1. TypeOK'
    BY TypeStep DEF GuardedInv
  <1>2. CASE UNCHANGED ledgerVars
    <2>1. UNCHANGED <<ledgerVars, order>>
      BY <1>2, OnlyRefundPays DEF task
    <2>2. LedgerInv'
      BY <2>1 DEF GuardedInv, LedgerInv, ledgerVars, Ledger!Payload
    <2> QED
      BY <1>1, <1>2, <2>2, ResultStep DEF GuardedInv
  <1>3. CASE \E w \in Workers : Refund(w)
    BY <1>1, <1>3, PayStep DEF GuardedInv
  <1> QED
    BY <1>2, <1>3, OnlyRefundPays

\* In guarded mode the service holds at most the one authorised refund, and
\* nothing any worker holds, told or checkpointed claims more than that.
THEOREM GuardedInvariance == Spec => [](mode = "guarded" => GuardedInv)
  <1>1. Init => GuardedInv
    BY InitType, InitGuarded DEF GuardedInv
  <1>2. [Next]_vars => UNCHANGED mode
    BY OnlyRefundPays DEF task
  <1>3. (mode = "guarded" => GuardedInv) /\ [Next]_vars => (mode = "guarded" => GuardedInv)'
    BY <1>2, GuardedStep
  <1> QED
    BY <1>1, <1>3, PTL DEF Spec

\* Guarded workers, however many, commit one refund between them, through lost
\* acknowledgements, malformed receipts, interruptions, kills and reruns.
THEOREM PaidOnce == Spec => []OneRefund
  <1>1. (mode = "guarded" => GuardedInv) => OneRefund
    BY DEF GuardedInv, LedgerInv, OneRefund
  <1> QED
    BY <1>1, GuardedInvariance, PTL

\* Every receipt that a guarded caller was told or checkpointed, which the gateway
\* checked field by field only, names a committed row of exactly its terms.
THEOREM Receipts == Spec => []ReceiptsGrounded
  <1>1. (mode = "guarded" => GuardedInv) => ReceiptsGrounded
    <2> SUFFICES ASSUME GuardedInv, NEW r \in told \union {checkpoint}
                 PROVE  /\ r.status # "malformed"
                        /\ r.status = "refunded" =>
                             /\ Valid(r) /\ Backed(r)
                             /\ refunds[r.refund] = [order_id |-> order, amount |-> Amount]
      BY DEF ReceiptsGrounded
    <2>1. Good(r) /\ LedgerInv
      BY DEF GuardedInv, ResultInv
    <2> QED
      BY <2>1 DEF Good, LedgerInv, Valid, Backed
  <1> QED
    BY <1>1, GuardedInvariance, PTL

-----------------------------------------------------------------------------
(* Why only a permanent error can replace a checkpoint.                       *)

\* What a guarded caller may have decided: nothing yet, a denial, a failure or
\* the one refund.
Decisions == {NoResult, Denied, Failed, Refunded(1)}

\* A permanent error was injected.
Refused == \E i \in DOMAIN journal : binding[journal[i].rule].kind = "permanent_error"

\* No rows, nothing spent: the sum over them begins, and ends, with 0.
LEMMA NothingSpent == ASSUME NEW o PROVE Ledger!SumOf(<<>>, o) = 0
  <1> DEFINE none == <<>>
             IsSum(g) == g = [n \in 0..Len(none) |->
                                IF n = 0 THEN 0
                                ELSE g[n - 1] + IF none[n].order_id = o
                                                  THEN none[n].amount ELSE 0]
             sum == CHOOSE g : IsSum(g)
  <1>1. Ledger!SumOf(none, o) = sum[Len(none)]
    BY DEF Ledger!SumOf
  <1>2. Len(none) = 0
    OBVIOUS
  <1> HIDE DEF none
  <1>3. IsSum([n \in 0..0 |-> 0])
    BY <1>2
  <1>4. IsSum(sum)
    <2> HIDE DEF IsSum
    <2> QED
      BY <1>3
  <1>5. sum[0] = 0
    <2> HIDE DEF sum
    <2> QED
      BY <1>2, <1>4
  <1> QED
    BY <1>1, <1>2, <1>5 DEF none

\* The service refunds the task's order if it has not yet done so.
Affordable(o) == ~(Ledger!SumOf(<<>>, o) + Amount > Total[o])
Payable == Amount > 0 /\ Ledger!Visible(Actor, order) /\ Affordable(order)

\* A denial is owed to the order, which no later call changes, or to an injected
\* permanent error.
Owed(r) == r = Denied => Refused \/ ~Payable

DenialInv ==
    /\ refunds # <<>> => Payable
    /\ \A w \in Workers : pc[w] = "recording" => result[w] \in Decisions /\ Owed(result[w])
    /\ checkpoint \in Decisions \ {Failed} /\ Owed(checkpoint)

\* The journal grows, and a call that is refused for good is recorded in it.
LEMMA Recorded ==
    ASSUME TypeOK, binding # NoSchedule, NEW phase, NEW outcome,
           Faults!Apply("issue_refund", phase, outcome)
    PROVE  /\ Refused => Refused'
           /\ outcome = "permanent" => Refused'
  <1>1. binding \in Schedules /\ journal \in Seq([rule : Faults!Rules, occurrence : Nat])
    BY DEF TypeOK, Faults!TypeOK
  <1>2. CASE UNCHANGED faultVars /\ outcome = "none"
    BY <1>2 DEF faultVars, Refused
  <1>3. ASSUME NEW i \in DOMAIN binding, Faults!Claim(i),
               outcome = IF Faults!Fires(binding[i], calls[i] + 1)
                           THEN Faults!Outcome(binding[i].kind) ELSE "none"
        PROVE  (Refused => Refused') /\ (outcome = "permanent" => Refused')
    <2> DEFINE e == Faults!Record(i, calls[i] + 1)
    <2>1. /\ UNCHANGED binding
          /\ IF Faults!Fires(binding[i], calls[i] + 1)
               THEN journal' = Append(journal, e) ELSE journal' = journal
      BY <1>3 DEF Faults!Claim
    <2>2. CASE journal' = journal /\ outcome = "none"
      BY <2>1, <2>2 DEF Refused
    <2>3. CASE journal' = Append(journal, e) /\ outcome = Faults!Outcome(binding[i].kind)
      <3>1. /\ DOMAIN journal' = 1..Len(journal) + 1 /\ DOMAIN journal = 1..Len(journal)
            /\ Len(journal) \in Nat
            /\ \A k \in 1..Len(journal) : journal'[k] = journal[k]
            /\ journal'[Len(journal) + 1] = e
        BY <1>1, <2>3, AppendProperties, LenProperties
      <3>2. Refused => Refused'
        BY <2>1, <3>1 DEF Refused
      <3>3. binding[i].kind \in Allowed["before"] \union Allowed["after"]
        BY <1>1, <1>3, ServiceAssumption DEF IsSchedule, ValidRule, Phases
      <3>4. outcome = "permanent" => binding[i].kind = "permanent_error"
        BY <2>3, <3>3 DEF Allowed, Faults!Outcome
      <3>5. e.rule = i
        BY DEF Faults!Record
      <3>6. binding[i].kind = "permanent_error" => Refused'
        BY <2>1, <3>1, <3>5 DEF Refused
      <3> QED
        BY <3>2, <3>4, <3>6
    <2> QED
      BY <1>3, <2>1, <2>2, <2>3
  <1> QED
    BY <1>2, <1>3 DEF Faults!Apply, Faults!Matching, Faults!journalVars, faultVars

\* Once refused, always refused.
LEMMA RefusedStays == TypeOK /\ [Next]_vars => (Refused => Refused') /\ UNCHANGED order
  <1> SUFFICES ASSUME TypeOK, [Next]_vars PROVE (Refused => Refused') /\ UNCHANGED order
    OBVIOUS
  <1>1. CASE UNCHANGED faultVars
    BY <1>1, OnlyRefundPays DEF faultVars, Refused, task
  <1>2. ASSUME NEW w \in Workers, Before(w) \/ After(w) PROVE Refused => Refused'
    BY <1>2, Recorded DEF Before, After
  <1> QED
    BY <1>1, <1>2, OnlyRefundPays
    DEF Next, Step, vars, Start, Lookup, ConsumeFault, Refund, RefundWithKey,
        AfterArmed, Retry, Record, Rerun, Kill, durable, faultVars, task

\* What refund() decides depends on the order alone.
LEMMA KeyedVerdict ==
    ASSUME TypeOK, LedgerInv, refunds # <<>> => Payable
    PROVE  Ledger!Verdict(Actor, order, Amount, Key) \in {"refunded", "replayed"} <=> Payable
  <1>1. Amount \in Nat /\ Key \in Keys
    BY ServiceAssumption DEF Keys, Key
  <1>2. CASE refunds = <<>> /\ operations[Key] = NoOperation
    BY <1>1, <1>2 DEF Ledger!Verdict, Ledger!Spent, Ledger!Journalled, Payable, Affordable
  <1>3. CASE refunds # <<>> /\ operations[Key] # NoOperation
             /\ operations[Key].payload = Ledger!Payload(Actor, order, Amount)
    BY <1>1, <1>3 DEF Ledger!Verdict, Ledger!Journalled, Payable
  <1> QED
    BY <1>2, <1>3 DEF LedgerInv

\* The decisions of guarded callers, in hand or kept, stay explained.
LEMMA DenialStep == mode = "guarded" /\ GuardedInv /\ DenialInv /\ [Next]_vars => DenialInv'
  <1> SUFFICES ASSUME mode = "guarded", GuardedInv, DenialInv, [Next]_vars PROVE DenialInv'
    OBVIOUS
  <1> USE DEF Goto, Set, durable, task, ledgerVars, Owed
  <1>1. /\ TypeOK /\ LedgerInv /\ ResultInv
        /\ pc \in [Workers -> States] /\ result \in [Workers -> Result]
        /\ Refused => Refused'
        /\ order' = order
    BY RefusedStays DEF GuardedInv, TypeOK
  <1>2. Payable' <=> Payable
    BY <1>1 DEF Payable, Ledger!Visible
  <1>3. \A r : Owed(r) => Owed(r)'
    BY <1>1, <1>2 DEF Owed
  <1>4. Owed(NoResult)' /\ Owed(Failed)' /\ Owed(Refunded(1))'
    BY DEF Owed, NoResult, Denied, Failed, Refunded
  <1>5. \A r : Valid(r) /\ r \in Result /\ Good(r) => r = Refunded(1)
    BY DEF Valid, Good, Result, Refunded
  <1>6. ~Valid(Malformed)
    BY DEF Valid, Malformed
  <1>7. Denied \in Decisions /\ Failed \in Decisions /\ Refunded(1) \in Decisions
    BY DEF Decisions
  <1> DEFINE Moves(w, s, r) == /\ pc' = [pc EXCEPT ![w] = s]
                               /\ result' = [result EXCEPT ![w] = r]
             Silent == UNCHANGED <<refunds, checkpoint>>
  <1>8. ASSUME NEW w \in Workers, NEW s, NEW r, Moves(w, s, r), Silent,
               s = "recording" => r \in Decisions /\ Owed(r)'
        PROVE  DenialInv'
    <2>1. ASSUME NEW v \in Workers, pc'[v] = "recording"
          PROVE  (result[v] \in Decisions /\ Owed(result[v]))'
      BY <1>1, <1>3, <1>8, <2>1 DEF DenialInv
    <2> QED
      BY <1>2, <1>3, <1>8, <2>1 DEF DenialInv, Decisions
  <1> HIDE DEF Moves
  <1>9. ASSUME NEW w \in Workers, NEW s, pc' = [pc EXCEPT ![w] = s], UNCHANGED result
        PROVE  Moves(w, s, result[w])
    BY <1>1, <1>9 DEF Moves
  <1>10. ASSUME NEW w \in Workers, NEW r \in Result, Accept(w, r), Silent,
                Good(r) \/ r = Malformed
         PROVE  DenialInv'
    <2>1. Moves(w, "retrying", NoResult) \/ (Valid(r) /\ Moves(w, "recording", r))
      BY <1>10 DEF Accept, Moves
    <2> QED
      BY <1>4, <1>5, <1>6, <1>7, <1>8, <1>10, <2>1
  <1>11. ASSUME NEW w \in Workers, NEW s \in {"retrying", "interrupted"}, Lose(w, s), Silent
         PROVE  DenialInv'
    BY <1>8, <1>11 DEF Lose, Moves
  <1>12. CASE UNCHANGED vars
    BY <1>2, <1>3, <1>12 DEF vars, DenialInv, Decisions
  <1>13. ASSUME NEW w \in Workers, Start(w) PROVE DenialInv'
    <2>1. Silent /\ \E s \in {"returned", "lookup"}, r \in {checkpoint, NoResult} : Moves(w, s, r)
      BY <1>13 DEF Start, Moves
    <2> QED
      BY <1>8, <2>1
  <1>14. ASSUME NEW w \in Workers, Lookup(w) PROVE DenialInv'
    <2>1. Silent /\ \E s \in {"returned", "boundary"}, r \in {Denied, NoResult} : Moves(w, s, r)
      BY <1>14 DEF Lookup, Moves
    <2> QED
      BY <1>8, <2>1
  <1>15. ASSUME NEW w \in Workers, Before(w) PROVE DenialInv'
    <2>1. PICK outcome \in Faults!Outcomes :
            /\ Faults!Apply("issue_refund", "before", outcome)
            /\ \/ \E s \in {"refunding", "retrying", "interrupted"} :
                    pc' = [pc EXCEPT ![w] = s] /\ UNCHANGED result
               \/ outcome = "permanent" /\ Moves(w, "recording", Denied)
      BY <1>15 DEF Before, Moves
    <2>2. Silent /\ binding # NoSchedule
      BY <1>15 DEF Before
    <2>3. CASE outcome = "permanent" /\ Moves(w, "recording", Denied)
      <3>1. Owed(Denied)'
        BY <1>1, <2>1, <2>2, <2>3, Recorded DEF Owed
      <3> QED
        BY <1>7, <1>8, <2>2, <2>3, <3>1
    <2> QED
      BY <1>8, <1>9, <2>1, <2>2, <2>3
  <1>16. ASSUME NEW w \in Workers, ConsumeFault(w) PROVE DenialInv'
    <2>1. /\ Silent /\ UNCHANGED result
          /\ \E s \in {"retrying", "refunding"} : pc' = [pc EXCEPT ![w] = s]
      BY <1>16 DEF ConsumeFault
    <2> QED
      BY <1>8, <1>9, <2>1
  <1>17. ASSUME NEW w \in Workers, Refund(w) PROVE DenialInv'
    <2> DEFINE v == Ledger!Verdict(Actor, order, Amount, Key)
               ok == v \in {"refunded", "replayed"}
    <2>1. RefundWithKey(w, Key)
      BY <1>17 DEF Refund, Key
    <2>2. /\ UNCHANGED <<checkpoint, order>>
          /\ Ledger!Refund(Actor, order, Amount, Key)
          /\ IF ok THEN Moves(w, "acknowledging", Refunded(Ledger!Answer(v, Key)))
                   ELSE Moves(w, "recording", Denied)
      BY <2>1 DEF RefundWithKey, Moves
    <2>3. ok <=> Payable
      BY <1>1, KeyedVerdict DEF DenialInv
    <2>4. ~ok => UNCHANGED refunds
      BY <2>2 DEF Ledger!Refund, Ledger!Write, Ledger!ledgerVars
    <2> HIDE DEF v
    <2>5. CASE ok
      <3>1. \A u \in Workers : pc'[u] = "recording" => u # w /\ pc[u] = "recording"
        BY <1>1, <2>2, <2>5 DEF Moves
      <3>2. \A u \in Workers : u # w => result'[u] = result[u]
        BY <1>1, <2>2, <2>5 DEF Moves
      <3> QED
        BY <1>2, <1>3, <2>2, <2>3, <2>5, <3>1, <3>2 DEF DenialInv, Decisions
    <2>6. CASE ~ok
      <3>1. Owed(Denied)'
        BY <1>2, <2>3, <2>6 DEF Owed
      <3> QED
        BY <1>7, <1>8, <2>2, <2>4, <2>6, <3>1
    <2> QED
      BY <2>5, <2>6
  <1>18. ASSUME NEW w \in Workers, After(w) PROVE DenialInv'
    <2>1. Silent /\ (\/ Accept(w, result[w]) \/ Accept(w, Malformed)
                     \/ \E s \in {"retrying", "interrupted"} : Lose(w, s))
      BY <1>18 DEF After
    <2> QED
      BY <1>1, <1>10, <1>11, <2>1, Results DEF ResultInv
  <1>19. ASSUME NEW w \in Workers, AfterArmed(w) PROVE DenialInv'
    <2>1. Silent /\ (\/ Accept(w, result[w]) \/ Accept(w, Malformed)
                     \/ \E s \in {"retrying", "interrupted"} : Lose(w, s))
      BY <1>19 DEF AfterArmed
    <2> QED
      BY <1>1, <1>10, <1>11, <2>1, Results DEF ResultInv
  <1>20. ASSUME NEW w \in Workers, Retry(w) PROVE DenialInv'
    <2>1. /\ Silent
          /\ \/ Moves(w, "recording", Failed)
             \/ pc' = [pc EXCEPT ![w] = "boundary"] /\ UNCHANGED result
      BY <1>20 DEF Retry, Moves
    <2> QED
      BY <1>4, <1>7, <1>8, <1>9, <2>1
  <1>21. ASSUME NEW w \in Workers, Record(w) PROVE DenialInv'
    <2>1. /\ UNCHANGED <<refunds, result>> /\ pc[w] = "recording"
          /\ pc' = [pc EXCEPT ![w] = "returned"]
          /\ \/ checkpoint' = checkpoint
             \/ checkpoint' = result[w] /\ result[w].status \in {"refunded", "denied"}
      BY <1>21 DEF Record
    <2>2. result[w] \in Decisions /\ Owed(result[w])
      BY <2>1 DEF DenialInv
    <2>3. checkpoint' \in Decisions \ {Failed} /\ Owed(checkpoint')
      <3>1. Failed.status = "failed"
        BY DEF Failed
      <3> QED
        BY <2>1, <2>2, <3>1 DEF DenialInv
    <2>4. Owed(checkpoint)'
      BY <1>1, <1>2, <2>3 DEF Owed
    <2>5. \A u \in Workers : pc'[u] = "recording" => pc[u] = "recording"
      BY <1>1, <2>1
    <2>6. \A u \in Workers : Owed(result[u]) => Owed(result[u])'
      BY <1>1, <1>2, <2>1 DEF Owed
    <2> QED
      BY <1>2, <2>1, <2>3, <2>4, <2>5, <2>6 DEF DenialInv, Decisions
  <1>22. ASSUME NEW w \in Workers, Rerun(w) \/ Kill(w) PROVE DenialInv'
    <2>1. Silent /\ \E s \in {"idle", "killed"} : Moves(w, s, NoResult)
      BY <1>22 DEF Rerun, Kill, Moves
    <2> QED
      BY <1>8, <2>1
  <1> QED
    BY <1>12, <1>13, <1>14, <1>15, <1>16, <1>17, <1>18, <1>19, <1>20, <1>21, <1>22 DEF Next, Step

\* The explanations hold in every state of a guarded run, and a baseline run
\* keeps no checkpoint.
LEMMA CheckpointInvariance ==
    Spec => [](IF mode = "guarded" THEN GuardedInv /\ DenialInv ELSE checkpoint = NoResult)
  <1> DEFINE Inv == IF mode = "guarded" THEN GuardedInv /\ DenialInv ELSE checkpoint = NoResult
  <1>1. Init => Inv
    <2>1. Init => GuardedInv
      BY InitType, InitGuarded DEF GuardedInv
    <2>2. Init => DenialInv
      BY DEF Init, Ledger!Init, DenialInv, Owed, Decisions, NoResult, Denied, Failed
    <2> QED
      BY <2>1, <2>2 DEF Init
  <1>2. [Next]_vars => UNCHANGED mode
    BY OnlyRefundPays DEF task
  <1>3. mode # "guarded" /\ [Next]_vars => UNCHANGED checkpoint
    BY DEF Next, Step, vars, Start, Lookup, Before, ConsumeFault, Refund, RefundWithKey,
           After, AfterArmed, Retry, Record, Rerun, Kill, durable
  <1>4. Inv /\ [Next]_vars => Inv'
    BY <1>2, <1>3, GuardedStep, DenialStep
  <1> QED
    BY <1>1, <1>4, PTL DEF Spec

\* A checkpoint is replaced only by itself, although workers read it and write it
\* in separate transactions, unless a permanent error was injected.
LEMMA KeptStep ==
    ASSUME IF mode = "guarded" THEN GuardedInv /\ DenialInv ELSE checkpoint = NoResult,
           [Next]_vars
    PROVE  checkpoint = NoResult \/ checkpoint' = checkpoint \/ Refused
  <1> SUFFICES ASSUME checkpoint' # checkpoint, checkpoint # NoResult PROVE Refused
    OBVIOUS
  <1>1. PICK w \in Workers : Record(w)
    BY DEF Next, Step, vars, Start, Lookup, Before, ConsumeFault, Refund, RefundWithKey,
           After, AfterArmed, Retry, Rerun, Kill, durable
  <1>2. GuardedInv /\ DenialInv
    OBVIOUS
  <1>3. /\ pc[w] = "recording" /\ checkpoint' = result[w]
        /\ result[w].status \in {"refunded", "denied"}
    BY <1>1 DEF Record
  <1>4. checkpoint \in {Denied, Refunded(1)} /\ result[w] \in {Denied, Refunded(1)}
    BY <1>2, <1>3, Results DEF DenialInv, Decisions
  <1>5. /\ checkpoint = Denied => Refused \/ ~Payable
        /\ result[w] = Denied => Refused \/ ~Payable
    BY <1>2, <1>3 DEF DenialInv, Owed
  <1>6. checkpoint = Refunded(1) \/ result[w] = Refunded(1) => Payable
    <2>1. Refunded(1).status = "refunded"
      BY DEF Refunded
    <2>2. Good(checkpoint) /\ Good(result[w]) /\ (refunds # <<>> => Payable)
      BY <1>2 DEF GuardedInv, ResultInv, DenialInv
    <2> QED
      BY <2>1, <2>2 DEF Good
  <1> QED
    BY <1>3, <1>4, <1>5, <1>6

\* As long as no permanent error has been injected, the result a guarded worker
\* checkpointed is never replaced, for any workers, schedules and kills; after one,
\* a worker already past the checkpoint read may overwrite it (run_scripted).
THEOREM CheckpointKept == Spec => CheckpointFinal
  <1>1. /\ IF mode = "guarded" THEN GuardedInv /\ DenialInv ELSE checkpoint = NoResult
        /\ [Next]_vars
        => [ \/ checkpoint = NoResult
             \/ checkpoint' = checkpoint
             \/ \E i \in DOMAIN journal : binding[journal[i].rule].kind = "permanent_error" ]_vars
    BY KeptStep DEF Refused
  <1> QED
    BY <1>1, CheckpointInvariance, PTL DEF Spec, CheckpointFinal

-----------------------------------------------------------------------------
(* The refinement of RefundOnce.                                              *)

\* In guarded mode the receipts shown name the one row, and only if it exists.
LEMMA ShownRows ==
    GuardedInv => Shown \subseteq {1} /\ (Shown # {} => Len(refunds) = 1)
  BY DEF GuardedInv, ResultInv, Good, Shown, Guarded, LedgerInv

\* Workers never take back what they told.
LEMMA ShownGrows ==
    ASSUME mode = "guarded", GuardedInv, [Next]_vars PROVE Shown \subseteq Shown'
  <1>1. told \subseteq told' /\ mode' = mode
    BY OnlyRefundPays
    DEF Next, Step, vars, Start, Lookup, Before, ConsumeFault, Refund, RefundWithKey,
        After, AfterArmed, Retry, Record, Rerun, Kill, Accept, Lose, task
  <1>2. checkpoint \in told \/ checkpoint = NoResult
    BY DEF GuardedInv, ResultInv
  <1> QED
    BY <1>1, <1>2 DEF Shown, Guarded, NoResult

\* A baseline run promises nothing, and its mode never changes.
LEMMA BaselineStep ==
    mode # "guarded" /\ [Next]_vars => UNCHANGED Once!onceVars
  BY OnlyRefundPays DEF task, Once!onceVars, Paid, Shown, Guarded

\* A step of guarded mode is a step of RefundOnce, or changes nothing it can see.
LEMMA OnceStep == mode = "guarded" /\ GuardedInv /\ [Next]_vars => [Once!Next]_(Once!onceVars)
  <1> SUFFICES ASSUME mode = "guarded", GuardedInv, [Next]_vars
               PROVE  [Once!Next]_(Once!onceVars)
    OBVIOUS
  <1>1. GuardedInv' /\ mode' = "guarded"
    BY GuardedStep, OnlyRefundPays DEF task
  <1>2. /\ Shown \subseteq {1} /\ Shown' \subseteq {1} /\ Shown \subseteq Shown'
        /\ Shown # {} => Len(refunds) = 1
        /\ Shown' # {} => Len(refunds') = 1
        /\ Paid = Len(refunds) /\ Paid' = Len(refunds')
    <2>1. Shown' \subseteq {1} /\ (Shown' # {} => Len(refunds') = 1)
      BY <1>1 DEF GuardedInv, ResultInv, Good, Shown, Guarded, LedgerInv
    <2>2. Paid = Len(refunds) /\ Paid' = Len(refunds')
      BY <1>1 DEF Paid, Guarded
    <2> QED
      BY <2>1, <2>2, ShownRows, ShownGrows
  <1>3. CASE UNCHANGED ledgerVars
    <2>1. Len(refunds') = Len(refunds)
      BY <1>3 DEF ledgerVars
    <2>2. \/ Shown' = Shown
          \/ Len(refunds) = 1 /\ Shown' = Shown \union {Len(refunds)}
      BY <1>2, <2>1
    <2> QED
      BY <1>2, <2>1, <2>2 DEF Once!Next, Once!Acknowledge, Once!onceVars
  <1>4. CASE \E w \in Workers : Refund(w)
    <2>1. PICK w \in Workers : RefundWithKey(w, Key)
      BY <1>4 DEF Refund, Key
    <2>2. /\ UNCHANGED <<told, checkpoint, order>>
          /\ Ledger!Refund(Actor, order, Amount, Key)
      BY <2>1 DEF RefundWithKey, task
    <2>3. Shown' = Shown
      BY <1>1, <2>2 DEF Shown, Guarded
    <2>4. refunds' # refunds => refunds = <<>> /\ Len(refunds') = 1
      BY <2>2, KeyedRefund DEF GuardedInv
    <2>5. refunds = <<>> => Len(refunds) = 0
      OBVIOUS
    <2> QED
      BY <1>2, <2>3, <2>4, <2>5 DEF Once!Next, Once!Pay, Once!onceVars
  <1> QED
    BY <1>3, <1>4, OnlyRefundPays

\* The guarded refund service implements RefundOnce: one payment, and receipts
\* only for a payment already committed.
THEOREM Refinement == Spec => OnceSpec
  <1>1. Init => Once!Init
    BY DEF Init, Ledger!Init, Once!Init, NoResult, Paid, Shown, Guarded
  <1>2. (mode = "guarded" => GuardedInv) /\ [Next]_vars => [Once!Next]_(Once!onceVars)
    BY OnceStep, BaselineStep
  <1> QED
    BY <1>1, <1>2, GuardedInvariance, PTL DEF Spec, OnceSpec, Once!Spec
-----------------------------------------------------------------------------
(* The experiment.  The ADK agent takes steps of the service and steps around  *)
(* them, in an order that its model chooses.                                   *)

\* The state that is the experiment's own.
ExperimentTypes ==
    /\ agent \in Agents
    /\ turn \in {"none", "model", "tools", "call", "closing"}
    /\ interrupted \in BOOLEAN
    /\ response \in Result

\* Whose turn it is says where the worker is.
TurnInv ==
    \A w \in Workers :
        /\ turn = "none" => pc[w] \in {"idle", "returned", "interrupted"}
        /\ turn \in {"model", "tools", "closing"} => pc[w] = "lookup"
        /\ turn = "call" => pc[w] \in {"boundary", "refunding", "acknowledging",
                                       "retrying", "recording", "interrupted"}

\* There is no answer before the last turn, and none after an interruption: the
\* model does not get another turn.
AnswerInv ==
    /\ turn \in {"model", "tools", "call"} => response = Failed
    /\ interrupted => turn # "model" /\ response = Failed

\* What a run returned.
ReturnInv ==
    \A w \in Workers : pc[w] = "returned" =>
        /\ mode = "guarded" /\ Grade(result[w]) => checkpoint = result[w]
        /\ interrupted => result[w] = Failed

\* The service holds at most the one refund, and what is kept or was told passes
\* the grader.
KeptInv ==
    /\ mode = "guarded" => LedgerInv
    /\ \A r \in told \union {checkpoint} : r = NoResult \/ (mode = "guarded" /\ Grade(r))

AgentInv == TurnInv /\ AnswerInv /\ ReturnInv /\ KeptInv

\* The scripted agent takes the steps of the service alone.
CaseInv ==
    /\ TypeOK /\ ExperimentTypes
    /\ IF agent = "scripted" THEN turn = "none" /\ (mode = "guarded" => GuardedInv)
                             ELSE AgentInv

\* A step around the calls: the run of the agent goes on, the service and the
\* task stay as they are, and at most the answer is kept.
Around(w) ==
    /\ UNCHANGED <<ledgerVars, faultUsed, faultVars, task, armed, runs, told, crashes, agent>>
    /\ UNCHANGED attempt \/ attempt' = [attempt EXCEPT ![w] = 1]
    /\ \/ UNCHANGED pc
       \/ \E s \in {"boundary", "lookup", "interrupted", "returned"} : Goto(w, s)
    /\ \/ UNCHANGED result
       \/ \E r \in {NoResult, Failed, response} : Set(w, r)
    /\ UNCHANGED checkpoint \/ (checkpoint' = response /\ Decided /\ Grade(response))

\* The runner's and the model's steps, and those of run_adk, are around the calls.
LEMMA AroundKinds ==
    ASSUME NEW w \in Workers,
           \/ CallTool(w) \/ ToolReturns(w) \/ ToolInterrupted(w)
           \/ ToolEvent(w) \/ Close(w) \/ GiveUp(w) \/ ModelStep(w)
    PROVE  Around(w)
  <1> USE DEF invocationVars, durable, task, ledgerVars, faultVars, vars, agentVars,
              Turn, End, Interrupt
  <1>1. CASE CallTool(w)
    BY <1>1 DEF CallTool, Around
  <1>2. CASE ToolReturns(w)
    BY <1>2 DEF ToolReturns, Around
  <1>3. CASE ToolInterrupted(w)
    BY <1>3 DEF ToolInterrupted, Around
  <1>4. CASE ToolEvent(w)
    BY <1>4 DEF ToolEvent, Around
  <1>5. CASE Close(w)
    BY <1>5 DEF Close, CloseIf, Around
  <1>6. CASE GiveUp(w)
    BY <1>6 DEF GiveUp, Around
  <1>7. CASE ModelStep(w)
    BY <1>7 DEF ModelStep, Respond, Answer, StreamEnds, Around
  <1> QED
    BY <1>1, <1>2, <1>3, <1>4, <1>5, <1>6, <1>7

\* A step of the experiment is one of the service or one around it.
LEMMA CaseSteps ==
    ASSUME [ExperimentNext]_experimentVars
    PROVE  /\ UNCHANGED agent
           /\ [Next]_vars \/ \E w \in Workers : Around(w)
  <1>1. ASSUME NEW w \in Workers,
               Scripted(w) \/ Invoke(w) \/ InCall(w) \/ Restart(w)
        PROVE  UNCHANGED agent /\ Next
    BY <1>1 DEF Scripted, Invoke, InCall, Restart, Next, Step
  <1>2. ASSUME NEW w \in Workers, Around(w) PROVE UNCHANGED agent
    BY <1>2 DEF Around
  <1>3. CASE UNCHANGED experimentVars
    BY <1>3 DEF experimentVars, vars
  <1> QED
    BY <1>1, <1>2, <1>3, AroundKinds DEF ExperimentNext, RunnerStep, OwnStep

\* The types of the service hold in the experiment.
LEMMA AroundType ==
    ASSUME TypeOK, response \in Result, NEW w \in Workers, Around(w)
    PROVE  TypeOK'
  <1> USE Results DEF ledgerVars, faultVars, task
  <1>1. /\ Ledger!TypeOK /\ Faults!TypeOK /\ LocalsOK
    BY TypeParts
  <1>2. Ledger!TypeOK' /\ Faults!TypeOK'
    BY <1>1 DEF Around, Ledger!TypeOK, Faults!TypeOK
  <1>3. attempt' \in [Workers -> 0..MaxAttempts]
    <2>1. 1 \in 0..MaxAttempts
      BY ServiceAssumption
    <2> QED
      BY <1>1, <2>1 DEF Around, LocalsOK
  <1>4. pc' \in [Workers -> States]
    BY <1>1 DEF Around, LocalsOK, Goto, States
  <1> HIDE DEF NoResult, Failed
  <1>5. result' \in [Workers -> Result] /\ checkpoint' \in Result
    BY <1>1 DEF Around, LocalsOK, Set
  <1> QED
    BY <1>1, <1>2, <1>3, <1>4, <1>5 DEF Around, LocalsOK, TypeOK

\* The types of the experiment.
LEMMA CaseTypes ==
    TypeOK /\ ExperimentTypes /\ [ExperimentNext]_experimentVars => TypeOK' /\ ExperimentTypes'
  <1> SUFFICES ASSUME TypeOK, ExperimentTypes, [ExperimentNext]_experimentVars
               PROVE  TypeOK' /\ ExperimentTypes'
    OBVIOUS
  <1>1. TypeOK'
    BY CaseSteps, TypeStep, AroundType DEF ExperimentTypes
  <1>2. Answers \subseteq Result
    <2>1. refunds \in Seq(Ledger!Row)
      BY DEF TypeOK, Ledger!TypeOK
    <2>2. 0..Len(refunds) + 1 \subseteq Nat
      BY <2>1, LenProperties
    <2>3. ASSUME NEW row \in Nat, NEW t \in BOOLEAN
          PROVE  [Refunded(row) EXCEPT !.terms = t] \in Result
      BY <2>3, Zenon DEF Refunded, Result
    <2> QED
      BY <2>2, <2>3, Results DEF Answers
  <1>3. turn' \in {"none", "model", "tools", "call", "closing"} /\ interrupted' \in BOOLEAN
    BY DEF ExperimentTypes, ExperimentNext, experimentVars, RunnerStep, OwnStep, ModelStep,
           Scripted, Invoke, CallTool, InCall, ToolReturns, ToolInterrupted, ToolEvent, Close,
           CloseIf, GiveUp, Restart, Respond, Answer, StreamEnds, agentVars, Turn, End,
           Interrupt, invocationVars
  <1>4. response' \in Result
    BY <1>2, Results
    DEF ExperimentTypes, ExperimentNext, experimentVars, RunnerStep, OwnStep, ModelStep,
        Scripted, Invoke, CallTool, InCall, ToolReturns, ToolInterrupted, ToolEvent, Close,
        CloseIf, GiveUp, Restart, Respond, Answer, StreamEnds, agentVars, invocationVars
  <1> QED
    BY <1>1, <1>3, <1>4, CaseSteps DEF ExperimentTypes
-----------------------------------------------------------------------------
(* What the grader passed, it passes from then on.                            *)

\* What the ledger of a guarded run may do: nothing, or its one refund.
Settles ==
    /\ UNCHANGED task
    /\ UNCHANGED ledgerVars \/ Ledger!Refund(Actor, order, Amount, Key)

\* The grader looks at the tables, the task and the marker of its fault.
LEMMA GradeKept ==
    ASSUME TypeOK, LedgerInv, Settles, faultUsed => faultUsed', NEW r, Grade(r)
    PROVE  Grade(r)' /\ UNCHANGED ledgerVars
  <1> DEFINE v == Ledger!Verdict(Actor, order, Amount, Key)
  <1>1. order' = order /\ fault' = fault
    BY DEF Settles, task
  <1>2. UNCHANGED ledgerVars
    <2>1. CASE refunds # <<>> /\ ~UNCHANGED ledgerVars
      BY <1>1, <2>1, KeyedRefund DEF Settles
    <2>2. CASE refunds = <<>>
      <3>1. ~Ledger!Visible(Actor, order)
        <4>1. <<[order_id |-> order, amount |-> Amount]>> # <<>>
          OBVIOUS
        <4> QED
          BY <2>2, <4>1 DEF Grade
      <3>2. v # "refunded"
        BY <3>1 DEF Ledger!Verdict
      <3> QED
        BY <3>2 DEF Settles, Ledger!Refund, Ledger!Write, Ledger!ledgerVars, ledgerVars
    <2> QED
      BY <2>1, <2>2
  <1>3. refunds' = refunds
    BY <1>2 DEF ledgerVars
  <1>4. TenantScope' <=> TenantScope
    BY <1>3 DEF TenantScope
  <1>5. (Valid(r)' <=> Valid(r)) /\ (Backed(r)' <=> Backed(r))
    BY <1>3 DEF Valid, Backed
  <1>6. Ledger!Visible(Actor, order)' <=> Ledger!Visible(Actor, order)
    BY <1>1
  <1> QED
    BY <1>1, <1>2, <1>3, <1>4, <1>5, <1>6 DEF Grade

\* In guarded mode a service step or one around it settles the task or leaves
\* the ledger; nothing takes the marker of the fault back.
LEMMA Settling ==
    ASSUME [ExperimentNext]_experimentVars
    PROVE  /\ UNCHANGED task
           /\ mode = "guarded" => Settles
           /\ faultUsed => faultUsed'
  <1>1. ASSUME [Next]_vars
        PROVE  UNCHANGED task /\ (mode = "guarded" => Settles) /\ (faultUsed => faultUsed')
    <2>1. UNCHANGED task /\ (UNCHANGED ledgerVars \/ \E w \in Workers : Refund(w))
      BY <1>1, OnlyRefundPays
    <2>2. mode = "guarded" => Settles
      BY <2>1 DEF Settles, Refund, RefundWithKey, Key
    <2>3. faultUsed => faultUsed'
      BY <1>1 DEF Next, Step, vars, Start, Lookup, Before, ConsumeFault, Refund,
                  RefundWithKey, After, AfterArmed, Retry, Record, Rerun, Kill, durable
    <2> QED
      BY <2>1, <2>2, <2>3
  <1>2. ASSUME NEW w \in Workers, Around(w)
        PROVE  UNCHANGED task /\ (mode = "guarded" => Settles) /\ (faultUsed => faultUsed')
    BY <1>2 DEF Around, Settles
  <1> QED
    BY <1>1, <1>2, CaseSteps

\* An empty result and a failure never pass.
LEMMA NoGrade == ~Grade(NoResult) /\ ~Grade(Failed)
  BY DEF Grade, Valid, NoResult, Failed

\* A result that passes is the one refund's receipt, or the denial of a task
\* that is not the tenant's.
LEMMA GradedResult ==
    ASSUME TypeOK, LedgerInv, NEW r, Grade(r)
    PROVE  r.status = "refunded" => r.refund = 1 /\ refunds # <<>>
  <1> SUFFICES ASSUME r.status = "refunded" PROVE r.refund = 1 /\ refunds # <<>>
    OBVIOUS
  <1>1. Backed(r)
    BY DEF Grade
  <1>2. r.refund \in DOMAIN refunds
    BY <1>1 DEF Backed
  <1> QED
    BY <1>2 DEF LedgerInv

\* The steps of the ADK agent's worker, as far as checkpoint and callers see them.
LEMMA AgentTells ==
    ASSUME agent = "adk", AgentInv, [ExperimentNext]_experimentVars
    PROVE  /\ told \subseteq told' /\ told' \subseteq told \union {checkpoint}
           /\ \/ checkpoint' = checkpoint
              \/ /\ checkpoint' = response /\ Decided /\ Grade(response)
                 /\ UNCHANGED <<told, ledgerVars>>
  <1>1. ASSUME NEW w \in Workers, Start(w)
        PROVE  told' \in {told, told \union {checkpoint}} /\ checkpoint' = checkpoint
    BY <1>1 DEF Start, durable
  <1>2. ASSUME NEW w \in Workers, ConsumeFault(w) \/ Refund(w) \/ AfterArmed(w) \/ Retry(w)
               \/ Rerun(w)
        PROVE  told' = told /\ checkpoint' = checkpoint
    BY <1>2 DEF ConsumeFault, Refund, RefundWithKey, AfterArmed, Retry, Rerun, durable
  <1>3. ASSUME NEW w \in Workers, Invoke(w) \/ InCall(w) \/ Restart(w)
        PROVE  told' \in {told, told \union {checkpoint}} /\ checkpoint' = checkpoint
    BY <1>1, <1>2, <1>3 DEF Invoke, InCall, Restart
  <1>4. ASSUME NEW w \in Workers, Around(w)
        PROVE  /\ told' = told /\ UNCHANGED ledgerVars
               /\ \/ checkpoint' = checkpoint
                  \/ checkpoint' = response /\ Decided /\ Grade(response)
    BY <1>4 DEF Around
  <1>5. ASSUME NEW w \in Workers,
               \/ CallTool(w) \/ ToolReturns(w) \/ ToolInterrupted(w)
               \/ ToolEvent(w) \/ Close(w) \/ GiveUp(w) \/ ModelStep(w)
        PROVE  Around(w)
    BY <1>5, AroundKinds
  <1>6. CASE UNCHANGED experimentVars
    BY <1>6 DEF experimentVars, vars
  <1>7. CASE \E w \in Workers : Scripted(w)
    BY <1>7 DEF Scripted
  <1> QED
    BY <1>3, <1>4, <1>5, <1>6, <1>7 DEF ExperimentNext, RunnerStep, OwnStep
\* A step that pays tells nobody and keeps nothing.
LEMMA AgentPays ==
    ASSUME [ExperimentNext]_experimentVars, ~UNCHANGED ledgerVars
    PROVE  told' = told /\ checkpoint' = checkpoint
  <1>1. \A w \in Workers : ~Around(w)
    BY DEF Around
  <1>2. PICK w \in Workers : Refund(w)
    BY <1>1, CaseSteps, OnlyRefundPays
  <1> QED
    BY <1>2 DEF Refund, RefundWithKey

\* What the ADK agent leaves in the ledger, told and kept, it can show again.
LEMMA AgentKeptStep ==
    TypeOK /\ agent = "adk" /\ AgentInv /\ [ExperimentNext]_experimentVars => KeptInv'
  <1> SUFFICES ASSUME TypeOK, agent = "adk", AgentInv, [ExperimentNext]_experimentVars
               PROVE  KeptInv'
    OBVIOUS
  <1>1. /\ mode' = mode /\ (mode = "guarded" => LedgerInv /\ Settles)
        /\ faultUsed => faultUsed'
    BY Settling DEF task, AgentInv, KeptInv
  <1>2. mode = "guarded" => LedgerInv'
    <2>1. ASSUME LedgerInv, Settles PROVE LedgerInv'
      <3>1. CASE UNCHANGED ledgerVars
        BY <2>1, <3>1 DEF Settles, LedgerInv, ledgerVars, task, Ledger!Payload
      <3>2. CASE Ledger!Refund(Actor, order, Amount, Key)
        BY <2>1, <3>2, KeyedRefund DEF Settles, task
      <3> QED
        BY <2>1, <3>1, <3>2 DEF Settles
    <2> QED
      BY <1>1, <2>1
  <1>3. ASSUME NEW r, mode = "guarded", Grade(r) PROVE Grade(r)'
    BY <1>1, <1>3, GradeKept
  <1>4. ASSUME NEW r, r \in told' \union {checkpoint'}
        PROVE  r = NoResult \/ (mode = "guarded" /\ Grade(r))
    BY <1>4, AgentTells DEF AgentInv, KeptInv, Decided
  <1>5. ASSUME NEW r, r \in told' \union {checkpoint'}
        PROVE  r = NoResult \/ (mode' = "guarded" /\ Grade(r)')
    BY <1>1, <1>3, <1>4, <1>5
  <1> QED
    BY <1>1, <1>2, <1>5 DEF KeptInv

\* Whose turn it is, what was answered and what was returned.
LEMMA TurnStep ==
    TypeOK /\ agent = "adk" /\ AgentInv /\ [ExperimentNext]_experimentVars
        => (TurnInv /\ AnswerInv /\ ReturnInv)'
  <1> SUFFICES ASSUME TypeOK, agent = "adk", AgentInv, [ExperimentNext]_experimentVars
               PROVE  (TurnInv /\ AnswerInv /\ ReturnInv)'
    OBVIOUS
  <1> USE DEF Goto, Set, Turn, End
  <1>1. PICK w \in Workers : Workers = {w}
    BY ExperimentAssumption
  <1>2. pc \in [Workers -> States] /\ result \in [Workers -> Result]
    BY DEF TypeOK
  <1>3. TurnInv /\ AnswerInv /\ ReturnInv
    BY DEF AgentInv
  <1>4. ASSUME pc'[w] # "returned" PROVE ReturnInv'
    BY <1>1, <1>4 DEF ReturnInv
  <1>5. CASE UNCHANGED experimentVars
    <2>1. UNCHANGED <<pc, result, checkpoint, mode, refunds, order, fault, faultUsed, turn,
                      interrupted, response>>
      BY <1>5 DEF experimentVars, vars, agentVars
    <2>2. \A r : Grade(r)' <=> Grade(r)
      BY <2>1 DEF Grade, TenantScope, Valid, Backed, Ledger!Visible
    <2>3. TurnInv' /\ AnswerInv'
      BY <1>3, <2>1 DEF TurnInv, AnswerInv
    <2>4. ReturnInv'
      <3>1. Grade(result[w])' <=> Grade(result[w])
        BY <2>1 DEF Grade, TenantScope, Valid, Backed, Ledger!Visible
      <3> QED
        BY <1>1, <1>3, <2>1, <3>1 DEF ReturnInv
    <2> QED
      BY <2>3, <2>4
  <1>6. CASE Scripted(w)
    BY <1>6 DEF Scripted
  <1>7. CASE Invoke(w)
    <2>1. /\ pc[w] = "idle" /\ checkpoint' = checkpoint
          /\ \/ pc' = [pc EXCEPT ![w] = "returned"] /\ result' = [result EXCEPT ![w] = checkpoint]
             \/ pc' = [pc EXCEPT ![w] = "lookup"]
          /\ turn' = IF pc'[w] = "lookup" THEN "model" ELSE "none"
          /\ interrupted' = FALSE /\ response' = Failed
      BY <1>7 DEF Invoke, Start, durable
    <2>2. pc'[w] = "returned" => result'[w] = checkpoint'
      BY <1>2, <2>1
    <2> QED
      BY <1>1, <1>2, <2>1, <2>2 DEF TurnInv, AnswerInv, ReturnInv
  <1>8. CASE InCall(w)
    <2>1. /\ turn = "call" /\ UNCHANGED <<turn, interrupted, response>>
          /\ \E s \in {"boundary", "refunding", "acknowledging", "retrying", "recording",
                       "interrupted"} : pc' = [pc EXCEPT ![w] = s]
      BY <1>8 DEF InCall, agentVars, ConsumeFault, Refund, RefundWithKey, AfterArmed, Accept,
                  Lose, Retry
    <2>2. pc'[w] \in {"boundary", "refunding", "acknowledging", "retrying", "recording",
                      "interrupted"}
      BY <1>2, <2>1
    <2> QED
      BY <1>1, <1>3, <1>4, <2>1, <2>2 DEF TurnInv, AnswerInv
  <1>9. CASE Restart(w)
    <2>1. turn = "none" /\ UNCHANGED <<turn, interrupted, response>> /\ pc'[w] = "idle"
      BY <1>2, <1>9 DEF Restart, agentVars, Rerun
    <2> QED
      BY <1>1, <1>3, <1>4, <2>1 DEF TurnInv, AnswerInv
  <1>10. CASE CallTool(w)
    <2>1. /\ turn = "tools" /\ turn' = "call" /\ UNCHANGED <<interrupted, response>>
          /\ pc'[w] = "boundary"
      BY <1>2, <1>10 DEF CallTool, AtTools
    <2> QED
      BY <1>1, <1>3, <1>4, <2>1 DEF TurnInv, AnswerInv
  <1>11. CASE ToolReturns(w)
    <2>1. /\ turn = "call" /\ turn' = "tools" /\ UNCHANGED <<interrupted, response>>
          /\ pc'[w] = "lookup"
      BY <1>2, <1>11 DEF ToolReturns
    <2> QED
      BY <1>1, <1>3, <1>4, <2>1 DEF TurnInv, AnswerInv
  <1>12. CASE ToolInterrupted(w)
    <2>1. /\ turn = "call" /\ UNCHANGED response /\ pc[w] = "interrupted"
          /\ \/ turn' = "none" /\ pc'[w] = "interrupted"
             \/ turn' = "tools" /\ pc'[w] = "lookup"
      BY <1>2, <1>12 DEF ToolInterrupted
    <2> QED
      BY <1>1, <1>3, <1>4, <2>1 DEF TurnInv, AnswerInv
  <1>13. CASE ToolEvent(w)
    <2>1. /\ turn = "tools" /\ UNCHANGED <<interrupted, response>> /\ pc[w] = "lookup"
          /\ IF interrupted THEN turn' = "none" /\ pc'[w] = "interrupted"
                            ELSE turn' = "model" /\ pc'[w] = "lookup"
      BY <1>2, <1>13 DEF ToolEvent, AtTools, Interrupt
    <2> QED
      BY <1>1, <1>3, <1>4, <2>1 DEF TurnInv, AnswerInv
  <1>14. CASE Close(w)
    <2>1. /\ turn = "closing" /\ turn' = "none" /\ UNCHANGED <<interrupted, response>>
          /\ pc'[w] = "returned" /\ result'[w] = response
          /\ UNCHANGED <<mode, order, fault, faultUsed, refunds>>
          /\ checkpoint' = IF Decided /\ Grade(response) THEN response ELSE checkpoint
      BY <1>2, <1>14 DEF Close, CloseIf, task, ledgerVars
    <2>2. Grade(result[w])' => Grade(response)
      BY <2>1 DEF Grade, TenantScope, Valid, Backed, Ledger!Visible
    <2>3. mode = "guarded" /\ Grade(response) => Decided
      BY DEF Decided, Grade, Valid
    <2>4. ReturnInv'
      BY <1>1, <1>3, <2>1, <2>2, <2>3 DEF ReturnInv, AnswerInv
    <2> QED
      BY <1>1, <1>3, <2>1, <2>4 DEF TurnInv, AnswerInv
  <1>15. CASE GiveUp(w)
    <2>1. /\ turn \in {"model", "tools"} /\ turn' = "none"
          /\ UNCHANGED <<interrupted, response>>
          /\ pc'[w] = "returned" /\ result'[w] = Failed
      BY <1>2, <1>15 DEF GiveUp, AtModel, AtTools
    <2>2. ~Grade(result[w])'
      BY <2>1 DEF Grade, Valid, Failed
    <2>3. ReturnInv'
      BY <1>1, <2>1, <2>2 DEF ReturnInv
    <2> QED
      BY <1>1, <1>3, <2>1, <2>3 DEF TurnInv, AnswerInv
  <1>16. CASE ModelStep(w)
    <2>1. /\ turn \in {"model", "tools"} /\ pc[w] = "lookup" /\ pc' = pc
          /\ UNCHANGED interrupted
          /\ \/ turn' \in {"tools", "closing"} /\ UNCHANGED response
             \/ turn = "model" /\ turn' = "closing"
      BY <1>16 DEF ModelStep, Respond, Answer, StreamEnds, AtModel, AtTools, vars
    <2> QED
      BY <1>1, <1>3, <1>4, <2>1 DEF TurnInv, AnswerInv
  <1> QED
    BY <1>1, <1>5, <1>6, <1>7, <1>8, <1>9, <1>10, <1>11, <1>12, <1>13, <1>14, <1>15, <1>16
    DEF ExperimentNext, RunnerStep, OwnStep

\* With the scripted agent there are no turns, and every step is the service's.
LEMMA ScriptedSteps ==
    ASSUME agent = "scripted", turn = "none", [ExperimentNext]_experimentVars
    PROVE  [Next]_vars /\ turn' = "none"
  BY DEF ExperimentNext, experimentVars, Scripted, RunnerStep, OwnStep, ModelStep, Invoke,
         CallTool, InCall, ToolReturns, ToolInterrupted, ToolEvent, Close, CloseIf, GiveUp,
         Restart, Respond, Answer, StreamEnds, AtModel, AtTools, agentVars, Next

\* The invariant of a case holds throughout, with either agent.
LEMMA CaseInvariance == ExperimentSpec => []CaseInv
  <1>1. ExperimentInit => CaseInv
    <2> SUFFICES ASSUME ExperimentInit PROVE CaseInv
      OBVIOUS
    <2>1. /\ TypeOK /\ Init /\ GuardedInv /\ LedgerInv
          /\ agent \in Agents /\ turn = "none" /\ interrupted = FALSE /\ response = Failed
          /\ told = {} /\ checkpoint = NoResult /\ \A w \in Workers : pc[w] = "idle"
      BY InitType, InitGuarded DEF ExperimentInit, Init, GuardedInv
    <2>2. ExperimentTypes
      BY <2>1, Results DEF ExperimentTypes
    <2>3. AgentInv
      BY <2>1 DEF AgentInv, TurnInv, AnswerInv, ReturnInv, KeptInv
    <2> QED
      BY <2>1, <2>2, <2>3 DEF CaseInv
  <1>2. CaseInv /\ [ExperimentNext]_experimentVars => CaseInv'
    <2> SUFFICES ASSUME CaseInv, [ExperimentNext]_experimentVars PROVE CaseInv'
      OBVIOUS
    <2>1. TypeOK' /\ ExperimentTypes' /\ agent' = agent
      BY CaseTypes, CaseSteps DEF CaseInv
    <2>2. CASE agent = "scripted"
      <3>1. turn = "none" /\ (mode = "guarded" => GuardedInv)
        BY <2>2 DEF CaseInv
      <3>2. [Next]_vars /\ turn' = "none"
        BY <2>2, <3>1, ScriptedSteps
      <3>3. mode' = mode
        BY <3>2, OnlyRefundPays DEF task
      <3>4. mode = "guarded" => GuardedInv'
        BY <3>1, <3>2, GuardedStep
      <3> QED
        BY <2>1, <2>2, <3>2, <3>3, <3>4 DEF CaseInv
    <2>3. CASE agent # "scripted"
      <3>1. agent = "adk" /\ AgentInv /\ TypeOK
        BY <2>3, ExperimentAssumption DEF CaseInv, ExperimentTypes
      <3>2. AgentInv'
        BY <3>1, AgentKeptStep, TurnStep DEF AgentInv
      <3> QED
        BY <2>1, <2>3, <3>2 DEF CaseInv
    <2> QED
      BY <2>2, <2>3
  <1> QED
    BY <1>1, <1>2, PTL DEF ExperimentSpec
\* Whatever the model asks for and answers, a checkpoint is a result that the
\* grader passes, then and ever after, and no guarded pass goes without one
\* (run_adk).
THEOREM AgentVerified == ExperimentSpec => []AgentCheckpointVerified
  <1>1. CaseInv => AgentCheckpointVerified
    <2> SUFFICES ASSUME CaseInv, agent = "adk" PROVE AgentCheckpointVerified
      BY DEF AgentCheckpointVerified
    <2>1. AgentInv
      BY DEF CaseInv
    <2>2. checkpoint # NoResult => mode = "guarded" /\ Grade(checkpoint)
      BY <2>1 DEF AgentInv, KeptInv
    <2>3. ASSUME NEW w \in Workers, mode = "guarded", Grade(Receipt(w))
          PROVE  checkpoint = Receipt(w)
      <3>1. pc[w] = "returned"
        BY <2>3, NoGrade DEF Receipt
      <3> QED
        BY <2>1, <2>3, <3>1 DEF Receipt, AgentInv, ReturnInv
    <2> QED
      BY <2>2, <2>3 DEF AgentCheckpointVerified
  <1> QED
    BY <1>1, CaseInvariance, PTL

\* An injected interruption is never taken for a completion, although ADK may
\* swallow the exception and the model go on (the flag of run_adk).
THEOREM Interruptions == ExperimentSpec => []InterruptionHonoured
  <1>1. CaseInv => InterruptionHonoured
    BY DEF CaseInv, AgentInv, ReturnInv, InterruptionHonoured
  <1> QED
    BY <1>1, CaseInvariance, PTL

\* Both together: what run_adk answers for, whatever the model does.
THEOREM AgentJudged == ExperimentSpec => []AgentVerdict
  BY AgentVerified, Interruptions, PTL DEF AgentVerdict

\* The receipts an ADK agent shows are for the one refund, before and after any
\* step.
LEMMA AgentOnceStep ==
    ASSUME CaseInv, CaseInv', agent = "adk", mode = "guarded", [ExperimentNext]_experimentVars
    PROVE  [Once!Next]_(Once!onceVars)
  <1>1. /\ TypeOK /\ AgentInv /\ LedgerInv /\ KeptInv /\ Settles
        /\ mode' = "guarded" /\ agent' = agent
    BY Settling, CaseSteps DEF CaseInv, AgentInv, KeptInv, task
  <1>2. TypeOK' /\ KeptInv' /\ LedgerInv'
    BY <1>1 DEF CaseInv, AgentInv, KeptInv
  <1> DEFINE Rows(S) == {r.refund : r \in {x \in S : x.status = "refunded"}}
  <1>3. Shown = Rows(told \union {checkpoint}) /\ Shown' = Rows(told' \union {checkpoint'})
    BY <1>1 DEF Shown, Guarded
  <1>4. ASSUME NEW r \in told \union {checkpoint}, r.status = "refunded"
        PROVE  Grade(r) /\ r.refund = 1 /\ refunds # <<>>
    <2>1. Grade(r)
      BY <1>1, <1>4, Results DEF KeptInv
    <2> QED
      BY <1>1, <1>4, <2>1, GradedResult
  <1>5. ASSUME NEW r \in told' \union {checkpoint'}, r.status = "refunded"
        PROVE  r.refund = 1 /\ refunds' # <<>>
    <2>1. Grade(r)'
      BY <1>2, <1>5, Results DEF KeptInv
    <2>2. Backed(r)' /\ (refunds' = <<>> \/ refunds' = <<[order_id |-> order', amount |-> Amount]>>)
      BY <1>2, <1>5, <2>1 DEF Grade, LedgerInv
    <2>3. r.refund \in DOMAIN refunds'
      BY <2>2 DEF Backed
    <2> QED
      BY <2>2, <2>3
  <1>6. Shown \subseteq {1} /\ Shown' \subseteq {1}
    BY <1>3, <1>4, <1>5
  <1>7. /\ Shown # {} => refunds # <<>>
        /\ Shown' # {} => refunds' # <<>>
    BY <1>3, <1>4, <1>5
  <1>8. Shown \subseteq Shown'
    <2> SUFFICES ASSUME NEW r \in told \union {checkpoint}, r.status = "refunded"
                 PROVE  1 \in Shown'
      BY <1>3, <1>4
    <2>1. r.refund = 1 /\ Grade(r)
      BY <1>4
    <2>2. CASE r \in told' \union {checkpoint'}
      BY <1>3, <2>1, <2>2
    <2>3. CASE r \notin told' \union {checkpoint'}
      <3>1. checkpoint' = response /\ Grade(response) /\ UNCHANGED ledgerVars
        BY <1>1, <2>3, AgentTells
      <3>2. Ledger!Visible(Actor, order)
        <4>1. <<[order_id |-> order, amount |-> Amount]>> # <<>>
          OBVIOUS
        <4> QED
          BY <1>4, <2>1, <4>1 DEF Grade
      <3>3. response.status = "refunded"
        BY <3>1, <3>2 DEF Grade, Valid
      <3>4. checkpoint'.refund = 1
        BY <1>5, <3>1, <3>3
      <3> QED
        BY <1>3, <3>1, <3>3, <3>4
    <2> QED
      BY <2>2, <2>3
  <1> HIDE DEF Rows
  <1>9. Paid = Len(refunds) /\ Paid' = Len(refunds')
    BY <1>1 DEF Paid, Guarded
  <1>10. /\ refunds = <<>> => Len(refunds) = 0
         /\ refunds # <<>> => Len(refunds) = 1
         /\ refunds' # <<>> => Len(refunds') = 1
    BY <1>1, <1>2 DEF LedgerInv
  <1>11. CASE UNCHANGED ledgerVars
    <2>1. refunds' = refunds
      BY <1>11 DEF ledgerVars
    <2>2. Shown' = Shown \/ (Paid = 1 /\ Shown' = Shown \union {Paid})
      BY <1>6, <1>7, <1>8, <1>9, <1>10, <2>1
    <2> QED
      BY <1>9, <2>1, <2>2 DEF Once!Next, Once!Acknowledge, Once!onceVars
  <1>12. CASE ~UNCHANGED ledgerVars
    <2>1. refunds = <<>>
      BY <1>1, <1>12, KeyedRefund DEF Settles, task
    <2>2. refunds' # <<>>
      <3>1. refunds' = Append(refunds, [order_id |-> order, amount |-> Amount])
        BY <1>1, <1>12
        DEF Settles, Ledger!Refund, Ledger!Write, Ledger!ledgerVars, ledgerVars
      <3> QED
        BY <2>1, <3>1
    <2>3. told' = told /\ checkpoint' = checkpoint
      BY <1>1, <1>12, <2>1, AgentPays
    <2>4. Shown' = Shown
      BY <1>3, <2>3
    <2> QED
      BY <1>9, <1>10, <2>1, <2>2, <2>4 DEF Once!Next, Once!Pay, Once!onceVars
  <1> QED
    BY <1>11, <1>12

\* With either agent a guarded case implements RefundOnce: one payment, whatever
\* the model does, and receipts only for a payment already committed.
THEOREM CaseRefinement == ExperimentSpec => OnceSpec
  <1>1. ExperimentInit => Once!Init
    BY DEF ExperimentInit, Init, Ledger!Init, Once!Init, NoResult, Paid, Shown, Guarded
  <1>2. CaseInv /\ CaseInv' /\ [ExperimentNext]_experimentVars => [Once!Next]_(Once!onceVars)
    <2> SUFFICES ASSUME CaseInv, CaseInv', [ExperimentNext]_experimentVars
                 PROVE  [Once!Next]_(Once!onceVars)
      OBVIOUS
    <2>1. CASE mode # "guarded"
      BY <2>1, Settling DEF task, Once!onceVars, Paid, Shown, Guarded
    <2>2. CASE mode = "guarded" /\ agent = "scripted"
      <3>1. [Next]_vars
        BY <2>2, ScriptedSteps DEF CaseInv
      <3> QED
        BY <2>2, <3>1, OnceStep DEF CaseInv
    <2>3. CASE mode = "guarded" /\ agent # "scripted"
      <3>1. agent = "adk"
        BY <2>3, ExperimentAssumption DEF CaseInv, ExperimentTypes
      <3> QED
        BY <2>3, <3>1, AgentOnceStep
    <2> QED
      BY <2>1, <2>2, <2>3
  <1> QED
    BY <1>1, <1>2, CaseInvariance, PTL DEF ExperimentSpec, OnceSpec, Once!Spec

-----------------------------------------------------------------------------
(* The verdict on scripted runs. The grader reads the end of a case: its rows, *)
(* its receipt and its journal. The invariant accounts for them on the way:    *)
(* every attempt and every run beyond the first is owed to an injection that   *)
(* was delivered, and before a result is held something is paid exactly if a   *)
(* fault struck after a commit. Delivered reads injections off the call        *)
(* counters, so that no step has to count the journal.                         *)

\* The task names an order of the tenant.
Own == Owner[order] = Actor

\* An armed scenario fault that has not struck yet.
Pending(w) == pc[w] \in {"refunding", "acknowledging"} /\ armed[w] # "none"

\* How many of its injections rule i has delivered.
Delivered(i) ==
    LET n == calls[i] + 1 - binding[i].occurrence
    IN  IF n <= 0 THEN 0 ELSE IF n <= binding[i].repeat THEN n ELSE binding[i].repeat

\* How many the boundary has delivered with one of the outcomes; Hits is their
\* number in the end.
Suffered(phase, outcomes) ==
    LET hit == {i \in Faults!Matching(binding, "issue_refund", phase) :
                    Outcome(binding[i].kind) \in outcomes}
    IN  IF hit = {} THEN 0 ELSE Delivered(CHOOSE i \in hit : TRUE)

\* Faults that cost an attempt, and faults that cost a run.
Scenario(w) == IF faultUsed /\ ~Pending(w) THEN 1 ELSE 0
Retried(w) ==
    IF binding = NoSchedule THEN Scenario(w)
      ELSE Suffered("before", {"retryable"}) + Suffered("after", {"retryable", "malformed"})
Broken(w) ==
    IF binding = NoSchedule THEN Scenario(w)
      ELSE Suffered("before", {"interrupted"}) + Suffered("after", {"interrupted"})

\* A fault struck after a commit.
AfterCommit == AfterFaults({"lost_ack", "interrupt", "malformed"}) # {}
Struck(w) ==
    IF binding = NoSchedule THEN faultUsed /\ ~Pending(w) /\ fault \notin BeforeFaults
      ELSE AfterCommit

\* Faults that hid a commit from the caller altogether.
Hidden(w) ==
    Cardinality(AfterFaults({"lost_ack", "interrupt"}))
    + IF faultUsed /\ ~Pending(w) /\ fault \in {"after_commit_timeout", "interrupted_run"}
        THEN 1 ELSE 0

\* The worker is started again after interruptions only: before it returns
\* nobody was told anything and nothing is checkpointed.
RunInv(w) ==
    /\ pc[w] # "killed"
    /\ told = IF pc[w] = "returned" THEN {result[w]} ELSE {}
    /\ checkpoint # NoResult => pc[w] = "returned"

\* Faults come from the schedule or the scenario, which strikes once.
FaultInv(w) ==
    /\ binding = NoSchedule => journal = <<>>
    /\ binding # NoSchedule => fault = "none" /\ DistinctTargets(binding)
    /\ faultUsed => binding = NoSchedule /\ fault # "none"
    /\ armed[w] # "none" => armed[w] = fault /\ faultUsed
    /\ (fault # "none" /\ ~faultUsed) =>
         pc[w] \in {"idle", "lookup", "boundary"} \union IF Own THEN {} ELSE {"returned"}

\* A task on another tenant's order ends before anything is called.
TenantInv(w) ==
    IF Own THEN \A k \in DOMAIN refunds : refunds[k].order_id = order
    ELSE /\ refunds = <<>> /\ journal = <<>> /\ ~faultUsed
         /\ pc[w] \in {"idle", "lookup", "returned"}
         /\ pc[w] = "returned" => result[w] = Denied

\* Attempts and runs beyond the first are owed to faults that cost one.
BudgetInv(w) ==
    /\ runs[w] <= Broken(w) + IF pc[w] \in {"idle", "interrupted"} THEN 0 ELSE 1
    /\ pc[w] \in {"boundary", "refunding", "acknowledging"} => attempt[w] <= Retried(w) + 1
    /\ pc[w] = "retrying" => attempt[w] <= Retried(w)

\* A permanent error came after every fault that hid a refund.
Excused ==
    \E k \in DOMAIN journal :
        /\ binding[journal[k].rule].kind = "permanent_error"
        /\ refunds # <<>> => \E j \in 1..k - 1 : binding[journal[j].rule].phase = "after"

Early == {"idle", "lookup", "boundary", "refunding", "retrying", "interrupted"}

\* The worker holds a receipt for the only refund.
OnlyRefund(w) == Len(refunds) = 1 /\ result[w] = Refunded(1)

\* Until the worker holds a result, something is paid exactly if a fault hid it;
\* in baseline mode a fault after a commit costs the receipt or pays twice.
PaymentInv(w) ==
    Own =>
        /\ pc[w] \in Early => (refunds = <<>> <=> ~Struck(w))
        /\ pc[w] = "acknowledging" =>
             IF mode = "guarded" \/ ~Struck(w) THEN OnlyRefund(w) ELSE Len(refunds) > 1
        /\ pc[w] \in {"recording", "returned"} =>
             \/ OnlyRefund(w) /\ (mode = "guarded" \/ ~Struck(w))
             \/ result[w] = Failed /\ ~Tolerable
             \/ result[w] = Denied /\ ~Tolerable /\ Excused
             \/ mode = "baseline" /\ Struck(w) /\
                  (Len(refunds) > 1 \/ result[w] \in {Denied, Malformed, Failed})

\* Each duplicate is owed to a commit that a fault hid.
DuplicateInv(w) ==
    mode = "baseline" =>
        Len(refunds) <= Hidden(w)
                        + IF pc[w] \in {"acknowledging", "recording", "returned"} THEN 1 ELSE 0

\* A schedule with distinct targets has at most one refund rule per phase.
LEMMA OneRule ==
    ASSUME TypeOK, binding # NoSchedule, DistinctTargets(binding), NEW phase \in Phases
    PROVE  \/ Faults!Matching(binding, "issue_refund", phase) = {}
           \/ \E i \in DOMAIN binding : Faults!Matching(binding, "issue_refund", phase) = {i}
  BY DEF Faults!Matching, DistinctTargets

\* A bound rule is valid, and its call counter is a number.
LEMMA RuleTypes ==
    ASSUME TypeOK, binding # NoSchedule, NEW i \in DOMAIN binding
    PROVE  /\ i \in Faults!Rules /\ calls[i] \in Nat /\ ValidRule(binding[i])
           /\ binding[i].occurrence \in Nat /\ binding[i].repeat \in Nat
           /\ binding[i].kind \in Allowed[binding[i].phase] /\ binding[i].phase \in Phases
  <1>1. binding \in Schedules /\ calls \in [Faults!Rules -> Nat]
    BY DEF TypeOK, Faults!TypeOK
  <1>2. IsSchedule(binding, MaxRules) /\ MaxRules \in Nat
    BY <1>1, ServiceAssumption
  <1>3. PICK n \in 0..MaxRules : DOMAIN binding = 1..n /\ \A j \in 1..n : ValidRule(binding[j])
    BY <1>2 DEF IsSchedule
  <1>4. i \in Faults!Rules
    BY <1>2, <1>3 DEF Faults!Rules
  <1>5. ValidRule(binding[i]) /\ calls[i] \in Nat
    BY <1>1, <1>3, <1>4
  <1> QED
    BY <1>4, <1>5 DEF ValidRule, MaxField

\* A claim delivers one more injection of the claimed rule, or none.
LEMMA ClaimCounts ==
    ASSUME TypeOK, binding # NoSchedule, NEW i \in DOMAIN binding, Faults!Claim(i)
    PROVE  /\ \A j \in DOMAIN binding :
                Delivered(j)' = Delivered(j) + IF j = i /\ Faults!Fires(binding[i], calls[i] + 1)
                                                 THEN 1 ELSE 0
           /\ \A j \in DOMAIN binding : Delivered(j) \in 0..binding[j].repeat
           /\ binding' = binding
  <1>1. /\ binding' = binding /\ calls \in [Faults!Rules -> Nat]
        /\ calls' = [calls EXCEPT ![i] = calls[i] + 1]
    BY DEF Faults!Claim, TypeOK, Faults!TypeOK
  <1>2. ASSUME NEW j \in DOMAIN binding
        PROVE  /\ Delivered(j)' = Delivered(j) + IF j = i /\ Faults!Fires(binding[i], calls[i] + 1)
                                                 THEN 1 ELSE 0
               /\ Delivered(j) \in 0..binding[j].repeat
    BY <1>1, RuleTypes DEF Delivered, Faults!Fires
  <1> QED
    BY <1>1, <1>2

\* With one matching rule, what was suffered is what that rule has delivered.
LEMMA SufferedIs ==
    ASSUME NEW phase, NEW outcomes, NEW i \in DOMAIN binding,
           Faults!Matching(binding, "issue_refund", phase) = {i}
    PROVE  /\ Suffered(phase, outcomes) =
                IF Outcome(binding[i].kind) \in outcomes THEN Delivered(i) ELSE 0
           /\ Hits(phase, outcomes) =
                IF Outcome(binding[i].kind) \in outcomes THEN binding[i].repeat ELSE 0
           /\ binding' = binding =>
                Suffered(phase, outcomes)' =
                  IF Outcome(binding[i].kind) \in outcomes THEN Delivered(i)' ELSE 0
  <1> DEFINE hit == {j \in Faults!Matching(binding, "issue_refund", phase) :
                        Outcome(binding[j].kind) \in outcomes}
  <1> DEFINE c == CHOOSE j \in hit : TRUE
  <1>1. hit = IF Outcome(binding[i].kind) \in outcomes THEN {i} ELSE {}
    OBVIOUS
  <1>2. hit # {} => c = i /\ (binding' = binding => c' = i)
    BY <1>1 DEF Faults!Matching
  <1>3. Suffered(phase, outcomes) = IF hit = {} THEN 0 ELSE Delivered(c)
    BY DEF Suffered
  <1>4. Hits(phase, outcomes) = IF hit = {} THEN 0 ELSE binding[c].repeat
    BY DEF Hits, Faults!Hits, Outcome, Faults!Outcome
  <1>5. binding' = binding =>
          Suffered(phase, outcomes)' = IF hit = {} THEN 0 ELSE Delivered(c)'
    BY DEF Suffered, Faults!Matching
  <1>6. hit = {} <=> Outcome(binding[i].kind) \notin outcomes
    BY <1>1
  <1> HIDE DEF hit, c
  <1>7. CASE hit = {}
    BY <1>3, <1>4, <1>5, <1>6, <1>7
  <1>8. CASE hit # {}
    <2>1. c = i /\ (binding' = binding => c' = i)
      BY <1>2, <1>8
    <2>2. Delivered(c) = Delivered(i) /\ (binding' = binding => Delivered(c)' = Delivered(i)')
      BY <2>1 DEF Delivered
    <2> QED
      BY <1>3, <1>4, <1>5, <1>6, <1>8, <2>1, <2>2
  <1> QED
    BY <1>7, <1>8

\* Without a matching rule nothing is suffered.
LEMMA SufferedNone ==
    ASSUME NEW phase, NEW outcomes, Faults!Matching(binding, "issue_refund", phase) = {}
    PROVE  /\ Suffered(phase, outcomes) = 0 /\ Hits(phase, outcomes) = 0
           /\ binding' = binding => Suffered(phase, outcomes)' = 0
  BY DEF Suffered, Hits, Faults!Hits, Faults!Matching

\* No more is suffered than the schedule holds in the end (Hits).
LEMMA SufferedTypes ==
    ASSUME TypeOK, binding # NoSchedule, DistinctTargets(binding),
           NEW phase \in Phases, NEW outcomes
    PROVE  Suffered(phase, outcomes) \in Nat /\ Hits(phase, outcomes) \in Nat
           /\ Suffered(phase, outcomes) <= Hits(phase, outcomes)
  <1>1. CASE Faults!Matching(binding, "issue_refund", phase) = {}
    BY <1>1, SufferedNone
  <1>2. ASSUME NEW i \in DOMAIN binding, Faults!Matching(binding, "issue_refund", phase) = {i}
        PROVE  Suffered(phase, outcomes) \in Nat /\ Hits(phase, outcomes) \in Nat
           /\ Suffered(phase, outcomes) <= Hits(phase, outcomes)
    <2>1. calls[i] \in Nat /\ binding[i].occurrence \in Nat /\ binding[i].repeat \in Nat
      BY RuleTypes
    <2>2. Delivered(i) \in Nat /\ Delivered(i) <= binding[i].repeat
      BY <2>1 DEF Delivered
    <2> QED
      BY <1>2, <2>1, <2>2, SufferedIs
  <1> QED
    BY <1>1, <1>2, OneRule

\* A call at the boundary adds its outcome to what was suffered, once.
LEMMA SufferedStep ==
    ASSUME TypeOK, binding # NoSchedule, DistinctTargets(binding),
           NEW phase \in Phases, NEW outcome, Faults!Apply("issue_refund", phase, outcome),
           NEW p \in Phases, NEW outcomes, "none" \notin outcomes
    PROVE  Suffered(p, outcomes)' =
             Suffered(p, outcomes) + IF p = phase /\ outcome \in outcomes THEN 1 ELSE 0
  <1>1. CASE Faults!Matching(binding, "issue_refund", phase) = {}
    <2>1. outcome = "none" /\ UNCHANGED <<binding, calls>>
      BY <1>1 DEF Faults!Apply, Faults!journalVars
    <2>2. Suffered(p, outcomes)' = Suffered(p, outcomes)
      BY <2>1 DEF Suffered, Delivered, Faults!Matching
    <2> QED
      BY <2>1, <2>2, SufferedTypes
  <1>2. ASSUME NEW k \in DOMAIN binding, Faults!Matching(binding, "issue_refund", phase) = {k}
        PROVE  Suffered(p, outcomes)' =
                 Suffered(p, outcomes) + IF p = phase /\ outcome \in outcomes THEN 1 ELSE 0
    <2>1. /\ Faults!Claim(k)
          /\ outcome = IF Faults!Fires(binding[k], calls[k] + 1)
                         THEN Outcome(binding[k].kind) ELSE "none"
      BY <1>2 DEF Faults!Apply, Outcome, Faults!Outcome
    <2>2. binding' = binding
      BY <2>1, ClaimCounts
    <2>3. CASE Faults!Matching(binding, "issue_refund", p) = {}
      BY <1>2, <2>2, <2>3, SufferedNone
    <2>4. ASSUME NEW i \in DOMAIN binding, Faults!Matching(binding, "issue_refund", p) = {i}
          PROVE  Suffered(p, outcomes)' =
                   Suffered(p, outcomes) + IF p = phase /\ outcome \in outcomes THEN 1 ELSE 0
      <3>1. i = k <=> p = phase
        BY <1>2, <2>4 DEF Faults!Matching
      <3>2. Delivered(i)' = Delivered(i) + IF i = k /\ Faults!Fires(binding[k], calls[k] + 1)
                                             THEN 1 ELSE 0
        BY <2>1, ClaimCounts
      <3>3. Delivered(i) \in Nat
        BY <2>1, ClaimCounts, RuleTypes
      <3>4. /\ Suffered(p, outcomes) =
                 IF Outcome(binding[i].kind) \in outcomes THEN Delivered(i) ELSE 0
            /\ Suffered(p, outcomes)' =
                 IF Outcome(binding[i].kind) \in outcomes THEN Delivered(i)' ELSE 0
        BY <2>2, <2>4, SufferedIs
      <3> QED
        BY <2>1, <3>1, <3>2, <3>3, <3>4
    <2> QED
      BY <2>3, <2>4, OneRule
  <1> QED
    BY <1>1, <1>2, OneRule

\* What a call at the boundary leaves in the journal.
LEMMA Injected ==
    ASSUME TypeOK, binding # NoSchedule, NEW phase \in Phases, NEW outcome,
           Faults!Apply("issue_refund", phase, outcome)
    PROVE  /\ binding' = binding
           /\ \/ outcome = "none" /\ journal' = journal
              \/ \E i \in DOMAIN binding : \E e :
                   /\ i \in Faults!Matching(binding, "issue_refund", phase)
                   /\ binding[i].phase = phase /\ Outcome(binding[i].kind) = outcome
                   /\ binding[i].kind \in Allowed[phase]
                   /\ e.rule = i
                   /\ journal' = Append(journal, e)
  <1>1. CASE Faults!Matching(binding, "issue_refund", phase) = {}
    BY <1>1 DEF Faults!Apply, Faults!journalVars
  <1>2. ASSUME NEW k \in Faults!Matching(binding, "issue_refund", phase), Faults!Claim(k),
               outcome = IF Faults!Fires(binding[k], calls[k] + 1)
                           THEN Faults!Outcome(binding[k].kind) ELSE "none"
        PROVE  /\ binding' = binding 
               /\ \/ outcome = "none" /\ journal' = journal
                  \/ \E i \in DOMAIN binding : \E e :
                       /\ i \in Faults!Matching(binding, "issue_refund", phase)
                       /\ binding[i].phase = phase /\ Outcome(binding[i].kind) = outcome
                       /\ binding[i].kind \in Allowed[phase]
                       /\ e.rule = i
                       /\ journal' = Append(journal, e)
    <2>1. k \in DOMAIN binding /\ binding[k].phase = phase
      BY <1>2 DEF Faults!Matching
    <2>2. binding[k].kind \in Allowed[phase]
      BY <2>1, RuleTypes
    <2> DEFINE e == Faults!Record(k, calls[k] + 1)
    <2>3. e.rule = k
      BY DEF Faults!Record
    <2>4. /\ binding' = binding
          /\ IF Faults!Fires(binding[k], calls[k] + 1)
               THEN journal' = Append(journal, e) ELSE journal' = journal
      BY <1>2 DEF Faults!Claim
    <2> HIDE DEF e
    <2>5. \/ outcome = "none" /\ journal' = journal
          \/ outcome = Outcome(binding[k].kind) /\ journal' = Append(journal, e)
      BY <1>2, <2>4 DEF Outcome, Faults!Outcome
    <2> QED
      BY <2>1, <2>2, <2>3, <2>4, <2>5
  <1> QED
    BY <1>1, <1>2 DEF Faults!Apply

\* The journal holds finitely many commits hidden by a fault.
LEMMA HiddenFinite ==
    TypeOK => IsFiniteSet(AfterFaults({"lost_ack", "interrupt"}))
              /\ Cardinality(AfterFaults({"lost_ack", "interrupt"})) \in Nat
  <1> SUFFICES ASSUME TypeOK
               PROVE  IsFiniteSet(AfterFaults({"lost_ack", "interrupt"}))
    BY FS_CardinalityType
  <1>1. DOMAIN journal = 1..Len(journal) /\ Len(journal) \in Nat
    BY LenProperties DEF TypeOK, Faults!TypeOK
  <1>2. IsFiniteSet(1..Len(journal))
    BY <1>1, FS_Interval
  <1>3. AfterFaults({"lost_ack", "interrupt"}) \subseteq 1..Len(journal)
    BY <1>1 DEF AfterFaults
  <1> QED
    BY <1>2, <1>3, FS_Subset

\* What a call at the boundary adds to the evidence in the journal: a fault
\* after the commit, a hidden commit, a permanent error that excuses a denial.
LEMMA Injecting ==
    ASSUME TypeOK, binding # NoSchedule, NEW phase \in Phases, NEW outcome,
           Faults!Apply("issue_refund", phase, outcome)
    PROVE  /\ AfterCommit' <=> AfterCommit \/ (phase = "after" /\ outcome # "none")
           /\ Cardinality(AfterFaults({"lost_ack", "interrupt"}))' =
                Cardinality(AfterFaults({"lost_ack", "interrupt"}))
                + IF phase = "after" /\ outcome \in {"retryable", "interrupted"} THEN 1 ELSE 0
           /\ (outcome = "permanent" /\ refunds' = refunds /\ (refunds # <<>> => AfterCommit))
                => Excused'
           /\ UNCHANGED binding
  <1> DEFINE n == Len(journal)
             hidden == AfterFaults({"lost_ack", "interrupt"})
  <1>1. journal \in Seq([rule : Faults!Rules, occurrence : Nat]) /\ binding' = binding
    BY Injected DEF TypeOK, Faults!TypeOK
  <1>2. CASE outcome = "none" /\ journal' = journal
    <2>1. hidden' = hidden /\ (AfterCommit' <=> AfterCommit)
      BY <1>1, <1>2 DEF AfterFaults, AfterCommit
    <2> QED
      BY <1>1, <1>2, <2>1, HiddenFinite
  <1>3. ASSUME NEW i \in DOMAIN binding, NEW e,
               binding[i].phase = phase, Outcome(binding[i].kind) = outcome,
               binding[i].kind \in Allowed[phase], e.rule = i, journal' = Append(journal, e)
        PROVE  /\ AfterCommit' <=> AfterCommit \/ (phase = "after" /\ outcome # "none")
               /\ Cardinality(hidden)' = Cardinality(hidden)
                    + IF phase = "after" /\ outcome \in {"retryable", "interrupted"} THEN 1 ELSE 0
               /\ (outcome = "permanent" /\ refunds' = refunds /\ (refunds # <<>> => AfterCommit))
                    => Excused'
    <2>1. /\ DOMAIN journal' = 1..n + 1 /\ DOMAIN journal = 1..n /\ n \in Nat
          /\ \A k \in 1..n : journal'[k] = journal[k]
          /\ journal'[n + 1] = e
      <3>1. Len(journal) \in Nat /\ DOMAIN journal = 1..Len(journal)
        BY <1>1, LenProperties
      <3> QED
        BY <1>3, <3>1
    <2>2. /\ phase = "before" =>
               binding[i].kind \in {"timeout", "rate_limit", "interrupt", "permanent_error"}
          /\ phase = "after" => binding[i].kind \in {"lost_ack", "malformed", "interrupt"}
      BY <1>3 DEF Allowed
    <2>3. /\ outcome # "none"
          /\ outcome = "permanent" => binding[i].kind = "permanent_error"
          /\ phase = "after" =>
               (outcome \in {"retryable", "interrupted"}
                  <=> binding[i].kind \in {"lost_ack", "interrupt"})
      BY <1>3, <2>2 DEF Phases, Outcome
    <2> HIDE DEF n
    <2>4. AfterCommit' <=> AfterCommit \/ (phase = "after" /\ outcome # "none")
      BY <1>1, <1>3, <2>1, <2>2, <2>3 DEF AfterCommit, AfterFaults
    <2>5. Cardinality(hidden)' = Cardinality(hidden)
              + IF phase = "after" /\ outcome \in {"retryable", "interrupted"} THEN 1 ELSE 0
      <3>1. n + 1 \notin hidden
        BY <2>1 DEF AfterFaults
      <3>2. hidden' = IF phase = "after" /\ outcome \in {"retryable", "interrupted"}
                        THEN hidden \union {n + 1} ELSE hidden
        BY <1>1, <1>3, <2>1, <2>3 DEF AfterFaults
      <3> HIDE DEF hidden
      <3>3. IsFiniteSet(hidden) /\ Cardinality(hidden) \in Nat
        BY HiddenFinite DEF hidden
      <3>4. Cardinality(hidden \union {n + 1}) = Cardinality(hidden) + 1
        BY <3>1, <3>3, FS_AddElement
      <3>5. Cardinality(hidden)' = Cardinality(hidden')
        OBVIOUS
      <3> QED
        BY <3>2, <3>3, <3>4, <3>5
    <2>6. ASSUME outcome = "permanent", refunds' = refunds, refunds # <<>> => AfterCommit
          PROVE  Excused'
      <3>1. n + 1 \in DOMAIN journal' /\ binding'[journal'[n + 1].rule].kind = "permanent_error"
        BY <1>1, <1>3, <2>1, <2>3, <2>6
      <3>2. refunds' # <<>> => \E j \in 1..n : binding'[journal'[j].rule].phase = "after"
        BY <1>1, <2>1, <2>6 DEF AfterCommit, AfterFaults
      <3>3. (n + 1) - 1 = n
        BY <2>1
      <3> QED
        BY <3>1, <3>2, <3>3 DEF Excused
    <2> QED
      BY <2>4, <2>5, <2>6
  <1> QED
    BY <1>1, <1>2, <1>3, Injected

\* What a step assigns to the moving worker, and the range of what it reads.
LEMMA Moved ==
    ASSUME TypeOK, NEW w \in Workers
    PROVE  /\ pc[w] \in States /\ result[w] \in Result /\ runs[w] \in Nat /\ attempt[w] \in Nat
           /\ \A s : Goto(w, s) => pc'[w] = s
           /\ \A r : Set(w, r) => result'[w] = r
           /\ \A x : (attempt' = [attempt EXCEPT ![w] = x] => attempt'[w] = x)
           /\ \A x : (runs' = [runs EXCEPT ![w] = x] => runs'[w] = x)
           /\ \A x : (armed' = [armed EXCEPT ![w] = x] => armed'[w] = x)
  BY DEF TypeOK, Goto, Set

\* RunInv is kept by every step of the only worker and by its restart.
LEMMA RunStep ==
    ASSUME TypeOK, NEW w \in Workers, Workers = {w}, RunInv(w), Step(w) \/ Rerun(w),
           RerunAfter = {"interrupted"}
    PROVE  RunInv(w)'
  <1> USE Moved DEF RunInv, durable, ledgerVars, faultVars
  <1>1. CASE Start(w)
    BY <1>1 DEF Start
  <1>2. CASE Lookup(w)
    BY <1>2 DEF Lookup
  <1>3. CASE Before(w)
    BY <1>3 DEF Before
  <1>4. CASE ConsumeFault(w)
    BY <1>4 DEF ConsumeFault
  <1>5. CASE Refund(w)
    BY <1>5 DEF Refund, RefundWithKey
  <1>6. CASE After(w)
    BY <1>6 DEF After, Accept, Lose
  <1>7. CASE AfterArmed(w)
    BY <1>7 DEF AfterArmed, Accept, Lose
  <1>8. CASE Retry(w)
    BY <1>8 DEF Retry
  <1>9. CASE Record(w)
    BY <1>9 DEF Record
  <1>10. CASE Rerun(w)
    BY <1>10 DEF Rerun
  <1> QED
    BY <1>1, <1>2, <1>3, <1>4, <1>5, <1>6, <1>7, <1>8, <1>9, <1>10 DEF Step

\* Authorisation is by tenant.
LEMMA Seen == TypeOK => (Ledger!Visible(Actor, order) <=> Own)
  BY ServiceAssumption DEF TypeOK, Ledger!Visible, Own

\* FaultInv is kept: only the boundary arms the scenario or journals a fault.
LEMMA FaultStep ==
    ASSUME TypeOK, NEW w \in Workers, Workers = {w}, RunInv(w), FaultInv(w), Step(w) \/ Rerun(w),
           RerunAfter = {"interrupted"}
    PROVE  FaultInv(w)'
  <1> USE Moved, Seen DEF FaultInv, durable, ledgerVars, faultVars, task, Own
  <1>1. CASE Start(w)
    BY <1>1 DEF Start, RunInv
  <1>2. CASE Lookup(w)
    BY <1>2 DEF Lookup
  <1>3. CASE Before(w)
    <2>1. PICK outcome : Faults!Apply("issue_refund", "before", outcome) /\ binding # NoSchedule
      BY <1>3 DEF Before
    <2>2. binding' = binding
      BY <2>1, Injected DEF Phases
    <2>3. UNCHANGED <<fault, faultUsed, armed, order>>
      BY <1>3 DEF Before
    <2> QED
      BY <2>1, <2>2, <2>3
  <1>4. CASE ConsumeFault(w)
    <2>1. /\ UNCHANGED <<binding, journal, fault, order>> /\ binding = NoSchedule
          /\ armed'[w] = (IF faultUsed THEN "none" ELSE fault)
          /\ faultUsed' = (faultUsed \/ fault # "none")
      BY <1>4 DEF ConsumeFault
    <2> QED
      BY <2>1
  <1>5. CASE Refund(w)
    BY <1>5 DEF Refund, RefundWithKey
  <1>6. CASE After(w)
    <2>1. PICK outcome : Faults!Apply("issue_refund", "after", outcome) /\ binding # NoSchedule
      BY <1>6 DEF After
    <2>2. binding' = binding
      BY <2>1, Injected DEF Phases
    <2>3. UNCHANGED <<fault, faultUsed, armed, order>>
      BY <1>6 DEF After
    <2> QED
      BY <2>1, <2>2, <2>3
  <1>7. CASE AfterArmed(w)
    BY <1>7 DEF AfterArmed, Accept, Lose
  <1>8. CASE Retry(w)
    BY <1>8 DEF Retry
  <1>9. CASE Record(w)
    BY <1>9 DEF Record
  <1>10. CASE Rerun(w)
    BY <1>10 DEF Rerun
  <1> QED
    BY <1>1, <1>2, <1>3, <1>4, <1>5, <1>6, <1>7, <1>8, <1>9, <1>10 DEF Step

\* TenantInv is kept: the lookup ends a task on another tenant's order.
LEMMA TenantStep ==
    ASSUME TypeOK, NEW w \in Workers, Workers = {w}, RunInv(w), TenantInv(w), Step(w) \/ Rerun(w),
           RerunAfter = {"interrupted"}
    PROVE  TenantInv(w)'
  <1>1. UNCHANGED order /\ (Own' <=> Own)
    BY OnlyRefundPays DEF task, Own, Next
  <1>2. CASE Own
    <2>1. CASE UNCHANGED refunds
      BY <1>1, <1>2, <2>1 DEF TenantInv
    <2>2. CASE Refund(w) /\ ~UNCHANGED refunds
      <3>1. PICK key : Ledger!Refund(Actor, order, Amount, key)
        BY <2>2 DEF Refund, RefundWithKey
      <3>2. refunds' = Append(refunds, [order_id |-> order, amount |-> Amount])
        BY <2>2, <3>1 DEF Ledger!Refund, Ledger!Write, Ledger!ledgerVars
      <3>3. Len(refunds) \in Nat /\ DOMAIN refunds = 1..Len(refunds)
        BY LenProperties DEF TypeOK, Ledger!TypeOK
      <3>4. \A k \in DOMAIN refunds' : refunds'[k].order_id = order
        BY <1>2, <3>2, <3>3 DEF TenantInv
      <3> QED
        BY <1>1, <1>2, <3>4 DEF TenantInv
    <2> QED
      BY <2>1, <2>2, OnlyRefundPays DEF ledgerVars, Next
  <1>3. CASE ~Own
    <2> USE <1>1, <1>3, Moved, Seen DEF TenantInv, durable, ledgerVars, faultVars
    <2>1. CASE Start(w)
      BY <2>1 DEF Start, RunInv
    <2>2. CASE Lookup(w)
      BY <2>2 DEF Lookup
    <2>3. CASE Rerun(w)
      BY <2>3 DEF Rerun
    <2> QED
      BY <2>1, <2>2, <2>3
      DEF Step, Before, ConsumeFault, Refund, RefundWithKey, After, AfterArmed, Retry, Record
  <1> QED
    BY <1>2, <1>3

\* The costs are numbers, and a tolerable schedule costs less than the budget.
LEMMA BudgetTypes ==
    ASSUME TypeOK, NEW w \in Workers, FaultInv(w)
    PROVE  /\ Retried(w) \in Nat /\ Broken(w) \in Nat
           /\ Tolerable => Retried(w) < MaxAttempts \/ binding = NoSchedule
           /\ Tolerable => Broken(w) < MaxRuns \/ binding = NoSchedule
  <1>1. CASE binding = NoSchedule
    BY <1>1 DEF Retried, Broken, Scenario
  <1>2. CASE binding # NoSchedule
    <2>1. "before" \in Phases /\ "after" \in Phases /\ DistinctTargets(binding)
      BY <1>2 DEF Phases, FaultInv
    <2>2. \A phase \in Phases : \A outcomes :
            /\ Suffered(phase, outcomes) \in Nat /\ Hits(phase, outcomes) \in Nat
            /\ Suffered(phase, outcomes) <= Hits(phase, outcomes)
      BY <1>2, <2>1, SufferedTypes
    <2>3. MaxAttempts \in Nat /\ MaxRuns \in Nat
      BY ServiceAssumption
    <2>4. /\ Retried(w) =
               Suffered("before", {"retryable"}) + Suffered("after", {"retryable", "malformed"})
          /\ Broken(w) = Suffered("before", {"interrupted"}) + Suffered("after", {"interrupted"})
          /\ Tolerable =>
               /\ Hits("before", {"retryable"}) + Hits("after", {"retryable", "malformed"})
                    < MaxAttempts
               /\ Hits("before", {"interrupted"}) + Hits("after", {"interrupted"}) < MaxRuns
      BY <1>2 DEF Retried, Broken, Tolerable
    <2>5. /\ Suffered("before", {"retryable"}) \in Nat
          /\ Suffered("before", {"retryable"}) <= Hits("before", {"retryable"})
          /\ Suffered("after", {"retryable", "malformed"}) \in Nat
          /\ Suffered("after", {"retryable", "malformed"})
               <= Hits("after", {"retryable", "malformed"})
          /\ Hits("before", {"retryable"}) \in Nat
          /\ Hits("after", {"retryable", "malformed"}) \in Nat
      BY <2>1, <2>2
    <2>6. /\ Suffered("before", {"interrupted"}) \in Nat
          /\ Suffered("before", {"interrupted"}) <= Hits("before", {"interrupted"})
          /\ Suffered("after", {"interrupted"}) \in Nat
          /\ Suffered("after", {"interrupted"}) <= Hits("after", {"interrupted"})
          /\ Hits("before", {"interrupted"}) \in Nat
          /\ Hits("after", {"interrupted"}) \in Nat
      BY <2>1, <2>2
    <2> QED
      BY <2>3, <2>4, <2>5, <2>6
  <1> QED
    BY <1>1, <1>2

\* What a call at the boundary costs.
LEMMA Costs ==
    ASSUME TypeOK, binding # NoSchedule, NEW w \in Workers, FaultInv(w), NEW phase \in Phases,
           NEW outcome, Faults!Apply("issue_refund", phase, outcome),
           outcome = "malformed" => phase = "after"
    PROVE  /\ Retried(w)' = Retried(w) + IF outcome \in {"retryable", "malformed"} THEN 1 ELSE 0
           /\ Broken(w)' = Broken(w) + IF outcome = "interrupted" THEN 1 ELSE 0
  <1>1. "before" \in Phases /\ "after" \in Phases /\ DistinctTargets(binding) /\ binding' = binding
    BY Injected DEF Phases, FaultInv
  <1>2. /\ Suffered("before", {"retryable"})' =
             Suffered("before", {"retryable"})
             + IF "before" = phase /\ outcome \in {"retryable"} THEN 1 ELSE 0
        /\ Suffered("after", {"retryable", "malformed"})' =
             Suffered("after", {"retryable", "malformed"})
             + IF "after" = phase /\ outcome \in {"retryable", "malformed"} THEN 1 ELSE 0
        /\ Suffered("before", {"interrupted"})' =
             Suffered("before", {"interrupted"})
             + IF "before" = phase /\ outcome \in {"interrupted"} THEN 1 ELSE 0
        /\ Suffered("after", {"interrupted"})' =
             Suffered("after", {"interrupted"})
             + IF "after" = phase /\ outcome \in {"interrupted"} THEN 1 ELSE 0
    BY <1>1, SufferedStep
  <1>3. /\ Suffered("before", {"retryable"}) \in Nat
        /\ Suffered("after", {"retryable", "malformed"}) \in Nat
        /\ Suffered("before", {"interrupted"}) \in Nat
        /\ Suffered("after", {"interrupted"}) \in Nat
    BY <1>1, SufferedTypes
  <1> QED
    BY <1>1, <1>2, <1>3 DEF Phases, Retried, Broken

\* A step that calls no boundary costs nothing.
LEMMA Unspent ==
    ASSUME NEW w \in Workers, binding # NoSchedule, UNCHANGED faultVars
    PROVE  Retried(w)' = Retried(w) /\ Broken(w)' = Broken(w)
  BY DEF faultVars, Retried, Broken, Suffered, Delivered, Faults!Matching

\* BudgetInv is kept: every retry and every restart follows a fault that cost
\* it. In guarded mode an acknowledged result is valid, so only a malformed
\* answer can be retried.
LEMMA BudgetStep ==
    ASSUME TypeOK, NEW w \in Workers, Workers = {w}, RunInv(w), FaultInv(w), BudgetInv(w),
           (pc[w] = "acknowledging" /\ mode = "guarded") => Valid(result[w]),
           Step(w) \/ Rerun(w), RerunAfter = {"interrupted"}
    PROVE  BudgetInv(w)'
  <1> USE Moved, BudgetTypes DEF BudgetInv, durable, ledgerVars, task
  <1>1. CASE binding # NoSchedule
    <2>1. UNCHANGED faultVars => Retried(w)' = Retried(w) /\ Broken(w)' = Broken(w)
      BY <1>1, Unspent
    <2>2. CASE Before(w)
      <3>1. PICK outcome \in Faults!Outcomes :
              /\ Faults!Apply("issue_refund", "before", outcome)
              /\ \/ outcome = "none" /\ Goto(w, "refunding")
                 \/ outcome = "retryable" /\ Goto(w, "retrying")
                 \/ outcome = "interrupted" /\ Goto(w, "interrupted")
                 \/ outcome = "permanent" /\ Goto(w, "recording")
        BY <2>2 DEF Before
      <3>2. pc[w] = "boundary" /\ UNCHANGED <<attempt, runs>>
        BY <2>2 DEF Before
      <3>3. /\ Retried(w)' = Retried(w) + IF outcome \in {"retryable", "malformed"} THEN 1 ELSE 0
            /\ Broken(w)' = Broken(w) + IF outcome = "interrupted" THEN 1 ELSE 0
        BY <1>1, <3>1, Costs DEF Phases
      <3> QED
        BY <3>1, <3>2, <3>3
    <2>3. CASE After(w)
      <3>1. PICK outcome \in Faults!Outcomes :
              /\ Faults!Apply("issue_refund", "after", outcome)
              /\ \/ outcome = "none" /\ Accept(w, result[w])
                 \/ outcome = "malformed" /\ Accept(w, Malformed)
                 \/ outcome = "retryable" /\ Goto(w, "retrying")
                 \/ outcome = "interrupted" /\ Goto(w, "interrupted")
        BY <2>3 DEF After, Lose
      <3>2. pc[w] = "acknowledging" /\ UNCHANGED <<attempt, runs>>
        BY <2>3 DEF After
      <3>3. /\ Retried(w)' = Retried(w) + IF outcome \in {"retryable", "malformed"} THEN 1 ELSE 0
            /\ Broken(w)' = Broken(w) + IF outcome = "interrupted" THEN 1 ELSE 0
        BY <1>1, <3>1, Costs DEF Phases
      <3> QED
        BY <3>1, <3>2, <3>3 DEF Accept
    <2>4. CASE Start(w) \/ Lookup(w)
      BY <2>1, <2>4 DEF Start, Lookup, RunInv, faultVars
    <2>5. CASE Refund(w) \/ Retry(w) \/ Record(w) \/ Rerun(w)
      BY <2>1, <2>5 DEF Refund, RefundWithKey, Retry, Record, Rerun, faultVars
    <2> QED
      BY <1>1, <2>2, <2>3, <2>4, <2>5 DEF Step, ConsumeFault, AfterArmed
  <1>2. CASE binding = NoSchedule
    <2> USE <1>2 DEF Retried, Broken, Scenario, Pending
    <2>1. CASE Start(w) \/ Lookup(w)
      BY <2>1 DEF Start, Lookup, RunInv
    <2>2. CASE ConsumeFault(w)
      <3> DEFINE f == IF faultUsed THEN "none" ELSE fault
      <3>1. /\ pc[w] = "boundary" /\ UNCHANGED <<attempt, runs, binding>>
            /\ armed'[w] = f /\ faultUsed' = (faultUsed \/ fault # "none")
            /\ pc'[w] = IF f \in BeforeFaults THEN "retrying" ELSE "refunding"
        BY <2>2 DEF ConsumeFault, faultVars
      <3>2. faultUsed \in BOOLEAN /\ "none" \notin BeforeFaults
        BY DEF TypeOK, BeforeFaults
      <3>3. /\ Retried(w) = IF faultUsed THEN 1 ELSE 0
            /\ Broken(w) = IF faultUsed THEN 1 ELSE 0
        BY <3>1
      <3> HIDE DEF f
      <3>4. /\ Retried(w)' = IF faultUsed' /\ (f \in BeforeFaults \/ f = "none") THEN 1 ELSE 0
            /\ Broken(w)' = IF faultUsed' /\ (f \in BeforeFaults \/ f = "none") THEN 1 ELSE 0
        <4>1. Pending(w)' <=> ~(f \in BeforeFaults \/ f = "none")
          BY <3>1, <3>2
        <4>2. binding' = NoSchedule
          BY <3>1
        <4> QED
          BY <4>1, <4>2
      <3> HIDE DEF Retried, Broken, Scenario, Pending
      <3> USE DEF f
      <3>5. /\ Retried(w) <= Retried(w)' /\ Broken(w) <= Broken(w)'
            /\ f \in BeforeFaults => Retried(w)' = Retried(w) + 1
        <4>1. CASE faultUsed
          <5>1. faultUsed' /\ f = "none"
            BY <3>1, <4>1
          <5> HIDE DEF f
          <5> QED
            BY <3>2, <3>3, <3>4, <4>1, <5>1
        <4>2. CASE ~faultUsed
          <5>1. Retried(w) = 0 /\ Broken(w) = 0
            BY <3>3, <4>2
          <5>2. f # "none" => faultUsed'
            BY <3>1, <4>2
          <5> HIDE DEF f
          <5> QED
            BY <3>2, <3>4, <5>1, <5>2
        <4> QED
          BY <4>1, <4>2
      <3>6. /\ attempt[w] <= Retried(w) + 1 /\ runs[w] <= Broken(w) + 1
            /\ UNCHANGED <<attempt[w], runs[w]>>
        BY <3>1
      <3> HIDE DEF f
      <3>7. Retried(w)' \in Nat /\ Broken(w)' \in Nat
        BY <3>4
      <3> QED
        BY <3>1, <3>5, <3>6, <3>7
    <2>3. CASE Refund(w)
      BY <2>3 DEF Refund, RefundWithKey, faultVars
    <2>4. CASE AfterArmed(w)
      BY <2>4 DEF AfterArmed, Accept, Lose, FaultInv
    <2>5. CASE Retry(w)
      BY <2>5 DEF Retry, faultVars
    <2>6. CASE Record(w) \/ Rerun(w)
      BY <2>6 DEF Record, Rerun, faultVars
    <2> QED
      BY <1>2, <2>1, <2>2, <2>3, <2>4, <2>5, <2>6 DEF Step, Before, After
  <1> QED
    BY <1>1, <1>2

\* A permanent error comes from a schedule that no budget can absorb.
LEMMA PermanentIsFatal ==
    ASSUME TypeOK, binding # NoSchedule, DistinctTargets(binding),
           Faults!Apply("issue_refund", "before", "permanent")
    PROVE  ~Tolerable
  <1>1. "before" \in Phases
    BY DEF Phases
  <1>2. PICK i \in DOMAIN binding : /\ i \in Faults!Matching(binding, "issue_refund", "before")
                                   /\ Outcome(binding[i].kind) = "permanent"
    BY <1>1, Injected
  <1>3. Faults!Matching(binding, "issue_refund", "before") = {i}
    BY <1>1, <1>2, OneRule
  <1>4. Hits("before", {"permanent"}) = binding[i].repeat
    BY <1>2, <1>3, SufferedIs
  <1>5. binding[i].repeat \in 1..MaxField
    BY RuleTypes DEF ValidRule
  <1>6. Hits("before", {"permanent"}) # 0
    BY <1>4, <1>5 DEF MaxField
  <1> QED
    BY <1>6 DEF Tolerable

\* The only refund bears out its receipt.
LEMMA ReceiptValid ==
    ASSUME TypeOK, NEW w \in Workers, Own, TenantInv(w), OnlyRefund(w)
    PROVE  /\ Valid(result[w]) /\ Backed(result[w])
           /\ refunds[1] = [order_id |-> order, amount |-> Amount]
  <1>1. refunds \in Seq(Ledger!Row) /\ DOMAIN refunds = {1}
    BY LenProperties DEF TypeOK, Ledger!TypeOK, OnlyRefund
  <1>2. refunds[1] \in Ledger!Row /\ refunds[1].order_id = order
    <2>1. 1 \in DOMAIN refunds
      BY <1>1
    <2> QED
      BY <1>1, <2>1, ElementOfSeq, LenProperties DEF TenantInv
  <1>3. refunds[1] = [order_id |-> order, amount |-> Amount]
    BY <1>2 DEF Ledger!Row, Amounts
  <1> QED
    BY <1>1, <1>3, Results DEF OnlyRefund, Valid, Backed

\* A first refund is granted, and the rows are counted.
LEMMA BaselineRefund ==
    ASSUME TypeOK, Own, NEW w \in Workers, mode # "guarded", Refund(w)
    PROVE  \/ /\ refunds' = Append(refunds, [order_id |-> order, amount |-> Amount])
              /\ Len(refunds') = Len(refunds) + 1
              /\ Set(w, Refunded(Len(refunds) + 1)) /\ Goto(w, "acknowledging")
           \/ /\ refunds # <<>> /\ refunds' = refunds
              /\ Set(w, Denied) /\ Goto(w, "recording")
  <1> DEFINE v == Ledger!Verdict(Actor, order, Amount, NoKey)
  <1>1. /\ Ledger!Refund(Actor, order, Amount, NoKey)
        /\ Set(w, IF v \in {"refunded", "replayed"} THEN Refunded(Ledger!Answer(v, NoKey))
                                                    ELSE Denied)
        /\ Goto(w, IF v \in {"refunded", "replayed"} THEN "acknowledging" ELSE "recording")
    BY DEF Refund, RefundWithKey
  <1>2. NoKey \notin Keys /\ ~(Amount <= 0) /\ order \in Tasks /\ Ledger!Visible(Actor, order)
    BY Seen, ServiceAssumption DEF Keys, TypeOK
  <1>3. v = IF Ledger!Spent(order) + Amount > Total[order] THEN "denied" ELSE "refunded"
    BY <1>2 DEF Ledger!Verdict, Ledger!Journalled
  <1>4. refunds = <<>> => ~(Ledger!Spent(order) + Amount > Total[order])
    <2>1. /\ Ledger!SumOf(<<>>, order) = 0 /\ Amount <= Total[order]
          /\ Total[order] \in Nat /\ Amount \in Nat
      BY <1>2, NothingSpent, ServiceAssumption, CaseAssumption
    <2> QED
      BY <2>1 DEF Ledger!Spent
  <1>5. Len(refunds) \in Nat /\ refunds \in Seq(Ledger!Row)
    BY LenProperties DEF TypeOK, Ledger!TypeOK
  <1> HIDE DEF v
  <1>6. CASE v = "refunded"
    <2>1. refunds' = Append(refunds, [order_id |-> order, amount |-> Amount])
      BY <1>1, <1>6 DEF v, Ledger!Refund, Ledger!Write
    <2>2. Ledger!Answer(v, NoKey) = Len(refunds) + 1
      BY <1>6 DEF Ledger!Answer
    <2>3. Len(refunds') = Len(refunds) + 1
      BY <1>5, <2>1
    <2> QED
      BY <1>1, <1>6, <2>1, <2>2, <2>3
  <1>7. CASE v = "denied"
    <2>1. refunds' = refunds
      BY <1>1, <1>7 DEF v, Ledger!Refund, Ledger!Write, Ledger!ledgerVars
    <2>2. refunds # <<>>
      BY <1>3, <1>4, <1>7
    <2> QED
      BY <1>1, <1>7, <2>1, <2>2
  <1> QED
    BY <1>3, <1>6, <1>7

\* What a budget can absorb depends on the schedule alone.
LEMMA Absorbed == binding' = binding => (Tolerable' <=> Tolerable)
  BY DEF Tolerable, Hits, Faults!Hits, Faults!Matching

\* The faults struck so far are those of the journal, or of the scenario.
LEMMA StruckKept ==
    ASSUME NEW w \in Workers, UNCHANGED <<binding, journal, fault, faultUsed>>,
           binding = NoSchedule => (Pending(w)' <=> Pending(w))
    PROVE  /\ Struck(w)' <=> Struck(w)
           /\ refunds' = refunds => (Excused' <=> Excused)
  BY DEF Struck, AfterCommit, AfterFaults, Excused

\* PaymentInv is kept: the argument of the guarded mode is the idempotency key
\* (GuardedInv), that of the baseline is the journal and the scenario.
LEMMA PaymentStep ==
    ASSUME TypeOK, NEW w \in Workers, Workers = {w}, mode = "guarded" => GuardedInv,
           mode \in {"guarded", "baseline"},
           RunInv(w), FaultInv(w), TenantInv(w), BudgetInv(w), PaymentInv(w),
           Step(w) \/ Rerun(w), RerunAfter = {"interrupted"}
    PROVE  PaymentInv(w)'
  <1> SUFFICES ASSUME Own PROVE PaymentInv(w)'
    BY OnlyRefundPays DEF PaymentInv, Own, task, Next
  <1> USE Moved DEF durable, ledgerVars, faultVars, task
  <1>0. UNCHANGED mode
    BY OnlyRefundPays DEF Next
  \* A step that leaves the tables and the faults, from one early place to another.
  <1>1. ASSUME UNCHANGED <<refunds, binding, journal, fault, faultUsed>>,
               binding = NoSchedule => ~Pending(w) /\ ~Pending(w)',
               pc[w] \in Early, pc'[w] \in Early
        PROVE  PaymentInv(w)'
    <2>1. Struck(w)' <=> Struck(w)
      BY <1>1, StruckKept
    <2>2. pc'[w] \notin {"acknowledging", "recording", "returned"}
      BY <1>1 DEF Early
    <2> QED
      BY <1>1, <2>1, <2>2 DEF PaymentInv
  <1>2. CASE Start(w)
    <2>1. pc'[w] = "lookup" /\ pc[w] = "idle"
      BY <1>2 DEF Start, RunInv
    <2> QED
      BY <1>1, <1>2, <2>1 DEF Start, Early, Pending
  <1>3. CASE Lookup(w)
    <2>1. pc'[w] = "boundary" /\ pc[w] = "lookup"
      BY <1>3, Seen DEF Lookup
    <2> QED
      BY <1>1, <1>3, <2>1 DEF Lookup, Early, Pending
  <1>4. CASE Rerun(w)
    <2>1. pc'[w] = "idle" /\ pc[w] = "interrupted"
      BY <1>4 DEF Rerun
    <2> QED
      BY <1>1, <1>4, <2>1 DEF Rerun, Early, Pending
  <1>5. CASE Retry(w)
    <2>1. pc[w] = "retrying" /\ UNCHANGED <<refunds, binding, journal, fault, faultUsed>>
      BY <1>5 DEF Retry
    <2>2. CASE pc'[w] = "boundary"
      BY <1>1, <2>1, <2>2 DEF Early, Pending
    <2>3. CASE pc'[w] # "boundary"
      <3>1. attempt[w] = MaxAttempts /\ result'[w] = Failed /\ pc'[w] = "recording"
        BY <1>5, <2>3 DEF Retry
      <3>2. attempt[w] <= Retried(w) /\ Retried(w) \in Nat
        BY <2>1, BudgetTypes DEF BudgetInv
      <3>3. ~Tolerable
        <4>1. binding = NoSchedule => Retried(w) <= 1
          BY DEF Retried, Scenario
        <4>2. MaxAttempts \in Nat /\ MaxAttempts > 1
          BY ServiceAssumption, CaseAssumption
        <4> QED
          BY <3>1, <3>2, <4>1, <4>2, BudgetTypes
      <3> QED
        BY <2>1, <3>1, <3>3, Absorbed DEF PaymentInv, Early
    <2> QED
      BY <2>2, <2>3
  <1>6. CASE Record(w)
    <2>1. /\ pc[w] = "recording" /\ pc'[w] = "returned" /\ UNCHANGED <<result, armed>>
          /\ UNCHANGED <<refunds, binding, journal, fault, faultUsed>>
      BY <1>6 DEF Record
    <2>2. /\ Struck(w)' <=> Struck(w)
          /\ Excused' <=> Excused
          /\ Tolerable' <=> Tolerable
      BY <2>1, StruckKept, Absorbed DEF Pending
    <2>3. OnlyRefund(w)' <=> OnlyRefund(w)
      BY <2>1 DEF OnlyRefund
    <2> QED
      BY <1>0, <2>1, <2>2, <2>3 DEF PaymentInv, Early
  <1>7. CASE ConsumeFault(w)
    <2>1. /\ pc[w] = "boundary" /\ UNCHANGED <<refunds, fault, binding>> /\ binding = NoSchedule
          /\ armed'[w] = (IF faultUsed THEN "none" ELSE fault)
          /\ faultUsed' <=> (faultUsed \/ fault # "none")
          /\ pc'[w] = IF armed'[w] \in BeforeFaults THEN "retrying" ELSE "refunding"
      BY <1>7 DEF ConsumeFault
    <2>2. "none" \notin BeforeFaults
      BY DEF BeforeFaults
    <2>3. Struck(w)' <=> Struck(w)
      BY <2>1, <2>2 DEF Struck, Pending, FaultInv
    <2> QED
      BY <2>1, <2>3 DEF PaymentInv, Early
  <1>8. CASE Before(w)
    <2>1. PICK outcome \in Faults!Outcomes :
            /\ Faults!Apply("issue_refund", "before", outcome)
            /\ \/ outcome = "none" /\ Goto(w, "refunding")
               \/ outcome = "retryable" /\ Goto(w, "retrying")
               \/ outcome = "interrupted" /\ Goto(w, "interrupted")
               \/ outcome = "permanent" /\ Goto(w, "recording") /\ Set(w, Denied)
      BY <1>8 DEF Before
    <2>2. pc[w] = "boundary" /\ binding # NoSchedule /\ UNCHANGED refunds
      BY <1>8 DEF Before
    <2>3. /\ AfterCommit' <=> AfterCommit
          /\ outcome = "permanent" /\ (refunds # <<>> => AfterCommit) => Excused'
          /\ binding' = binding
      <3>1. "before" \in Phases /\ "before" # "after"
        BY DEF Phases
      <3> QED
        BY <2>1, <2>2, <3>1, Injecting
    <2>4. (Struck(w)' <=> AfterCommit') /\ (Struck(w) <=> AfterCommit)
      BY <2>2, <2>3 DEF Struck
    <2>5. CASE outcome = "permanent"
      <3>1. ~Tolerable
        BY <2>1, <2>2, <2>5, PermanentIsFatal DEF FaultInv
      <3>2. Excused'
        BY <2>2, <2>3, <2>4, <2>5 DEF PaymentInv, Early
      <3> QED
        BY <2>1, <2>3, <2>5, <3>1, <3>2, Absorbed DEF PaymentInv, Early
    <2>6. CASE outcome # "permanent"
      BY <2>1, <2>2, <2>3, <2>4, <2>6 DEF PaymentInv, Early
    <2> QED
      BY <2>5, <2>6
  <1>9. CASE Refund(w)
    <2>1. pc[w] = "refunding" /\ UNCHANGED <<binding, journal, fault, faultUsed, armed>>
      BY <1>9 DEF Refund, RefundWithKey
    <2>2. pc'[w] = "acknowledging" => (Struck(w)' <=> Struck(w))
      BY <2>1, StruckKept DEF Pending
    <2>3. Struck(w) => Struck(w)'
      BY <2>1 DEF Struck, AfterCommit, AfterFaults, Pending, FaultInv
    <2>4. refunds = <<>> <=> ~Struck(w)
      BY <2>1 DEF PaymentInv, Early
    <2>5. CASE mode = "guarded"
      <3>1. pc'[w] = "acknowledging" /\ OnlyRefund(w)'
        <4> DEFINE v == Ledger!Verdict(Actor, order, Amount, Key)
        <4>1. RefundWithKey(w, Key)
          BY <1>9, <2>5 DEF Refund, Key
        <4>2. Payable
          <5>1. /\ Ledger!SumOf(<<>>, order) = 0 /\ Amount <= Total[order]
                /\ Total[order] \in Nat /\ Amount \in Nat \ {0}
            BY NothingSpent, ServiceAssumption, CaseAssumption DEF TypeOK
          <5> QED
            BY <5>1, Seen DEF Payable, Affordable
        <4>3. LedgerInv
          BY <2>5 DEF GuardedInv
        <4>4. v \in {"refunded", "replayed"}
          BY <4>2, <4>3, KeyedVerdict
        <4>5. /\ Ledger!Refund(Actor, order, Amount, Key) /\ UNCHANGED order
              /\ Set(w, Refunded(Ledger!Answer(v, Key))) /\ Goto(w, "acknowledging")
          BY <4>1, <4>4 DEF RefundWithKey
        <4>6. LedgerInv' /\ refunds' # <<>> /\ Ledger!Answer(v, Key) = 1
          BY <4>3, <4>4, <4>5, KeyedRefund
        <4>7. Len(refunds') = 1
          BY <4>6 DEF LedgerInv
        <4> QED
          BY <4>5, <4>6, <4>7 DEF OnlyRefund
      <3> QED
        BY <1>0, <2>5, <3>1 DEF PaymentInv, Early
    <2>6. CASE mode # "guarded"
      <3>1. CASE /\ refunds' = Append(refunds, [order_id |-> order, amount |-> Amount])
                 /\ Len(refunds') = Len(refunds) + 1
                 /\ Set(w, Refunded(Len(refunds) + 1)) /\ Goto(w, "acknowledging")
        <4>1. Len(refunds) \in Nat /\ (Len(refunds) = 0 <=> refunds = <<>>)
          BY EmptySeq, LenProperties DEF TypeOK, Ledger!TypeOK
        <4>2. ~Struck(w) => OnlyRefund(w)'
          BY <2>4, <3>1, <4>1 DEF OnlyRefund
        <4>3. Struck(w) => Len(refunds') > 1
          BY <2>4, <3>1, <4>1
        <4> QED
          BY <1>0, <2>2, <2>6, <3>1, <4>2, <4>3 DEF PaymentInv, Early
      <3>2. CASE /\ refunds # <<>> /\ refunds' = refunds
                 /\ Set(w, Denied) /\ Goto(w, "recording")
        BY <1>0, <2>3, <2>4, <2>6, <3>2 DEF PaymentInv, Early
      <3> QED
        BY <1>9, <2>6, <3>1, <3>2, BaselineRefund
    <2> QED
      BY <2>5, <2>6
  \* What the caller makes of an acknowledgement.
  <1>10. ASSUME pc[w] = "acknowledging", UNCHANGED refunds, Accept(w, result[w]),
                Struck(w)' <=> Struck(w)
         PROVE  PaymentInv(w)'
    <2>1. CASE mode = "guarded" \/ ~Struck(w)
      <3>1. OnlyRefund(w)
        BY <1>10, <2>1 DEF PaymentInv
      <3>2. pc'[w] = "recording" /\ result'[w] = result[w]
        BY <1>10, <3>1, ReceiptValid DEF Accept
      <3>3. OnlyRefund(w)'
        BY <1>10, <3>1, <3>2 DEF OnlyRefund
      <3> QED
        BY <1>0, <1>10, <2>1, <3>2, <3>3 DEF PaymentInv, Early
    <2>2. CASE mode # "guarded" /\ Struck(w)
      BY <1>0, <1>10, <2>2 DEF PaymentInv, Early, Accept
    <2> QED
      BY <2>1, <2>2
  <1>11. ASSUME pc[w] = "acknowledging", UNCHANGED refunds, Struck(w)',
                \/ Accept(w, Malformed) \/ Lose(w, "retrying") \/ Lose(w, "interrupted")
         PROVE  PaymentInv(w)'
    <2>1. refunds # <<>>
      <3>1. Len(refunds) \in Nat /\ (refunds = <<>> => Len(refunds) = 0)
        BY EmptySeq, LenProperties DEF TypeOK, Ledger!TypeOK
      <3>2. OnlyRefund(w) \/ Len(refunds) > 1
        BY <1>11 DEF PaymentInv
      <3>3. Len(refunds) # 0
        BY <3>1, <3>2 DEF OnlyRefund
      <3> QED
        BY <3>1, <3>3
    <2>2. ~Valid(Malformed)
      BY Results DEF Valid
    <2> QED
      BY <1>0, <1>11, <2>1, <2>2 DEF PaymentInv, Early, Accept, Lose
  <1>12. CASE After(w)
    <2>1. PICK outcome \in Faults!Outcomes :
            /\ Faults!Apply("issue_refund", "after", outcome)
            /\ \/ outcome = "none" /\ Accept(w, result[w])
               \/ outcome = "malformed" /\ Accept(w, Malformed)
               \/ outcome = "retryable" /\ Lose(w, "retrying")
               \/ outcome = "interrupted" /\ Lose(w, "interrupted")
      BY <1>12 DEF After
    <2>2. pc[w] = "acknowledging" /\ binding # NoSchedule /\ UNCHANGED refunds
      BY <1>12 DEF After
    <2>3. /\ AfterCommit' <=> AfterCommit \/ outcome # "none"
          /\ binding' = binding
      BY <2>1, <2>2, Injecting DEF Phases
    <2>4. (Struck(w)' <=> AfterCommit') /\ (Struck(w) <=> AfterCommit)
      BY <2>2, <2>3 DEF Struck
    <2> QED
      BY <1>10, <1>11, <2>1, <2>2, <2>3, <2>4
  <1>13. CASE AfterArmed(w)
    <2>1. /\ pc[w] = "acknowledging" /\ binding = NoSchedule
          /\ UNCHANGED <<refunds, binding, journal, fault, faultUsed, armed>>
          /\ \/ armed[w] = "none" /\ Accept(w, result[w])
             \/ /\ armed[w] \in {"malformed_response", "after_commit_timeout", "interrupted_run"}
                /\ Accept(w, Malformed) \/ Lose(w, "retrying") \/ Lose(w, "interrupted")
      BY <1>13 DEF AfterArmed
    <2>2. CASE armed[w] = "none"
      <3>1. Struck(w)' <=> Struck(w)
        BY <2>1, <2>2, StruckKept DEF Pending
      <3> QED
        BY <1>10, <2>1, <2>2, <3>1
    <2>3. CASE armed[w] # "none"
      <3>1. pc'[w] \in {"recording", "retrying", "interrupted"}
        BY <2>1, <2>3 DEF Accept, Lose
      <3>2. fault \notin BeforeFaults /\ faultUsed
        BY <2>1, <2>3 DEF FaultInv, BeforeFaults
      <3>3. Struck(w)'
        BY <2>1, <3>1, <3>2 DEF Struck, Pending
      <3> QED
        BY <1>11, <2>1, <2>3, <3>3
    <2> QED
      BY <2>2, <2>3
  <1> QED
    BY <1>2, <1>3, <1>4, <1>5, <1>6, <1>7, <1>8, <1>9, <1>12, <1>13 DEF Step

\* Outside the engine only a scenario fault that strikes hides another commit.
LEMMA HiddenKept ==
    ASSUME TypeOK, NEW w \in Workers, UNCHANGED <<binding, journal, fault, faultUsed>>
    PROVE  /\ Hidden(w) \in Nat
           /\ (Pending(w)' => Pending(w)) => Hidden(w)' \in Nat /\ Hidden(w) <= Hidden(w)'
           /\ ~Pending(w)' /\ Pending(w) /\ faultUsed
                 /\ fault \in {"after_commit_timeout", "interrupted_run"}
               => Hidden(w)' = Hidden(w) + 1
  <1>1. AfterFaults({"lost_ack", "interrupt"})' = AfterFaults({"lost_ack", "interrupt"})
    BY DEF AfterFaults
  <1>2. Cardinality(AfterFaults({"lost_ack", "interrupt"})) \in Nat
    BY HiddenFinite
  <1> HIDE DEF Pending
  <1> QED
    BY <1>1, <1>2 DEF Hidden

\* DuplicateInv is kept: a baseline worker pays again only after a commit that
\* was hidden from it.
LEMMA DuplicateStep ==
    ASSUME TypeOK, NEW w \in Workers, Workers = {w},
           RunInv(w), FaultInv(w), TenantInv(w), DuplicateInv(w),
           Step(w) \/ Rerun(w), RerunAfter = {"interrupted"}
    PROVE  DuplicateInv(w)'
  <1> SUFFICES ASSUME mode = "baseline" PROVE DuplicateInv(w)'
    BY OnlyRefundPays DEF DuplicateInv, task, Next
  <1> USE Moved DEF durable, ledgerVars, faultVars, task
  <1> DEFINE Owing(p) == IF p \in {"acknowledging", "recording", "returned"} THEN 1 ELSE 0
  <1>0. Len(refunds) \in Nat /\ Len(refunds) <= Hidden(w) + Owing(pc[w])
    BY LenProperties DEF TypeOK, Ledger!TypeOK, DuplicateInv
  \* A step that leaves the tables and the faults and does not lose a result.
  <1>1. ASSUME UNCHANGED <<refunds, binding, journal, fault, faultUsed>>,
               Pending(w)' => Pending(w), Owing(pc[w]) <= Owing(pc'[w])
        PROVE  DuplicateInv(w)'
    <2>1. Hidden(w) \in Nat /\ Hidden(w)' \in Nat /\ Hidden(w) <= Hidden(w)'
      BY <1>1, HiddenKept
    <2>2. Len(refunds) <= Hidden(w)' + Owing(pc'[w])
      BY <1>0, <1>1, <2>1
    <2> QED
      BY <1>1, <2>2 DEF DuplicateInv
  <1>2. CASE Start(w) \/ Lookup(w) \/ Rerun(w)
    <2>1. /\ pc[w] \in {"idle", "lookup", "interrupted"}
          /\ pc'[w] \notin {"refunding", "acknowledging"}
      BY <1>2 DEF Start, Lookup, Rerun
    <2> QED
      BY <1>1, <1>2, <2>1 DEF Start, Lookup, Rerun, Pending
  <1>3. CASE Retry(w) \/ Record(w)
    <2>1. /\ pc[w] \in {"retrying", "recording"} /\ pc'[w] \in {"boundary", "recording", "returned"}
          /\ pc[w] = "recording" => pc'[w] = "returned"
          /\ UNCHANGED <<refunds, binding, journal, fault, faultUsed>>
      BY <1>3 DEF Retry, Record
    <2> QED
      BY <1>1, <2>1 DEF Pending
  <1>4. CASE ConsumeFault(w)
    <2>1. /\ pc[w] = "boundary" /\ UNCHANGED <<refunds, fault, binding, journal>>
          /\ armed'[w] = (IF faultUsed THEN "none" ELSE fault)
          /\ faultUsed' <=> (faultUsed \/ fault # "none")
          /\ pc'[w] = IF armed'[w] \in BeforeFaults THEN "retrying" ELSE "refunding"
      BY <1>4 DEF ConsumeFault
    <2>2. \A f \in BeforeFaults \union {"none"} :
             f \notin {"after_commit_timeout", "interrupted_run"}
      BY DEF BeforeFaults
    <2>3. AfterFaults({"lost_ack", "interrupt"})' = AfterFaults({"lost_ack", "interrupt"})
      BY <2>1 DEF AfterFaults
    <2>4. Hidden(w)' = Hidden(w)
      BY <2>1, <2>2, <2>3 DEF Hidden, Pending
    <2> QED
      BY <1>0, <2>1, <2>4 DEF DuplicateInv
  <1>5. CASE Before(w)
    <2>1. PICK outcome : Faults!Apply("issue_refund", "before", outcome) /\ binding # NoSchedule
      BY <1>5 DEF Before
    <2>2. Cardinality(AfterFaults({"lost_ack", "interrupt"}))' =
            Cardinality(AfterFaults({"lost_ack", "interrupt"}))
      <3>1. "before" \in Phases /\ "before" # "after"
        BY DEF Phases
      <3> QED
        BY <2>1, <3>1, Injecting, HiddenFinite
    <2>3. pc[w] = "boundary" /\ UNCHANGED <<refunds, faultUsed>> /\ ~faultUsed
      BY <1>5, <2>1 DEF Before, FaultInv
    <2>4. Hidden(w)' = Hidden(w) /\ Hidden(w) \in Nat
      BY <2>2, <2>3, HiddenFinite DEF Hidden
    <2> QED
      BY <1>0, <2>3, <2>4 DEF DuplicateInv
  <1>6. CASE Refund(w)
    <2>1. pc[w] = "refunding" /\ UNCHANGED <<binding, journal, fault, faultUsed, armed>>
      BY <1>6 DEF Refund, RefundWithKey
    <2>2. Own
      BY <2>1 DEF TenantInv
    <2>3. Pending(w)' => Pending(w)
      BY <2>1 DEF Pending
    <2>4. Hidden(w) \in Nat /\ Hidden(w)' \in Nat /\ Hidden(w) <= Hidden(w)'
      BY <2>1, <2>3, HiddenKept
    <2>5. Len(refunds') <= Len(refunds) + 1 /\ Owing(pc'[w]) = 1
      BY <1>0, <1>6, <2>2, BaselineRefund
    <2>6. Len(refunds') \in Nat
      BY <1>0, <1>6, <2>2, BaselineRefund
    <2> QED
      BY <1>0, <2>1, <2>4, <2>5, <2>6 DEF DuplicateInv
  <1>7. CASE After(w)
    <2>1. PICK outcome :
            /\ Faults!Apply("issue_refund", "after", outcome)
            /\ \/ outcome \in {"none", "malformed"} /\ Goto(w, "recording")
               \/ outcome \in {"retryable", "interrupted"}
      BY <1>7 DEF After, Accept
    <2>2. /\ pc[w] = "acknowledging" /\ binding # NoSchedule /\ UNCHANGED <<refunds, faultUsed>>
          /\ ~faultUsed
      BY <1>7 DEF After, FaultInv
    <2>3. Cardinality(AfterFaults({"lost_ack", "interrupt"}))' =
            Cardinality(AfterFaults({"lost_ack", "interrupt"}))
            + IF outcome \in {"retryable", "interrupted"} THEN 1 ELSE 0
      BY <2>1, <2>2, Injecting DEF Phases
    <2>4. /\ Hidden(w) \in Nat
          /\ Hidden(w)' = Hidden(w) + IF outcome \in {"retryable", "interrupted"} THEN 1 ELSE 0
      BY <2>2, <2>3, HiddenFinite DEF Hidden
    <2> QED
      BY <1>0, <2>1, <2>2, <2>4 DEF DuplicateInv
  <1>8. CASE AfterArmed(w)
    <2>1. /\ pc[w] = "acknowledging" /\ pc'[w] \in {"recording", "retrying", "interrupted"}
          /\ UNCHANGED <<refunds, binding, journal, fault, faultUsed, armed>>
          /\ \/ pc'[w] = "recording"
             \/ armed[w] \in {"after_commit_timeout", "interrupted_run"}
      BY <1>8 DEF AfterArmed, Accept, Lose
    <2>2. CASE pc'[w] = "recording"
      BY <1>1, <2>1, <2>2 DEF Pending
    <2>3. CASE pc'[w] # "recording"
      <3>1. faultUsed /\ fault \in {"after_commit_timeout", "interrupted_run"} /\ armed[w] # "none"
        BY <2>1, <2>3 DEF FaultInv
      <3>2. Hidden(w) \in Nat /\ Hidden(w)' = Hidden(w) + 1
        BY <2>1, <3>1, HiddenKept DEF Pending
      <3> QED
        BY <1>0, <2>1, <3>2 DEF DuplicateInv
    <2> QED
      BY <2>2, <2>3
  <1> QED
    BY <1>2, <1>3, <1>4, <1>5, <1>6, <1>7, <1>8 DEF Step

VerdictInv ==
    \A w \in Workers :
        RunInv(w) /\ FaultInv(w) /\ TenantInv(w) /\ BudgetInv(w) /\ PaymentInv(w) /\ DuplicateInv(w)

\* The invariant holds before the first run.
LEMMA InitVerdict == Init /\ TypeOK => VerdictInv
  <1> SUFFICES ASSUME Init, TypeOK, NEW w \in Workers
               PROVE  RunInv(w) /\ FaultInv(w) /\ TenantInv(w) /\ BudgetInv(w)
                      /\ PaymentInv(w) /\ DuplicateInv(w)
    BY DEF VerdictInv
  <1>1. /\ pc[w] = "idle" /\ told = {} /\ checkpoint = NoResult /\ runs[w] = 0
        /\ armed[w] = "none" /\ ~faultUsed /\ journal = <<>> /\ refunds = <<>>
    BY DEF Init, Ledger!Init
  <1>2. RunInv(w)
    BY <1>1 DEF RunInv
  <1>3. FaultInv(w)
    BY <1>1 DEF FaultInv, Init
  <1>4. TenantInv(w)
    BY <1>1 DEF TenantInv
  <1>5. BudgetInv(w)
    BY <1>1, <1>3, BudgetTypes DEF BudgetInv
  <1>6. AfterFaults({"lost_ack", "interrupt", "malformed"}) = {} /\ Len(refunds) = 0
    BY <1>1 DEF AfterFaults
  <1>7. PaymentInv(w)
    BY <1>1, <1>6 DEF PaymentInv, Struck, AfterCommit
  <1>8. DuplicateInv(w)
    BY <1>1, <1>6, HiddenFinite DEF DuplicateInv, Hidden
  <1> QED
    BY <1>2, <1>3, <1>4, <1>5, <1>7, <1>8

\* The scripted agent is started again after an interruption only, and nobody
\* kills its process.
LEMMA ScriptedKinds ==
    ASSUME agent = "scripted", turn = "none", [ExperimentNext]_experimentVars
    PROVE  UNCHANGED vars \/ \E w \in Workers : Step(w) \/ Rerun(w)
  BY DEF ExperimentNext, experimentVars, Scripted, RunnerStep, OwnStep, ModelStep, Invoke,
         CallTool, InCall, ToolReturns, ToolInterrupted, ToolEvent, Close, CloseIf, GiveUp,
         Restart, Respond, Answer, StreamEnds, AtModel, AtTools, agentVars

\* The invariant is kept by every step of a scripted case; the ADK agent's steps
\* do not concern it.
LEMMA VerdictInvariance == ExperimentSpec => [](CaseInv /\ (agent = "scripted" => VerdictInv))
  <1>1. ExperimentInit => (agent = "scripted" => VerdictInv)
    BY InitType, InitVerdict DEF ExperimentInit
  <1>2. CaseInv /\ (agent = "scripted" => VerdictInv) /\ [ExperimentNext]_experimentVars
        => (agent = "scripted" => VerdictInv)'
    <2> SUFFICES ASSUME CaseInv, agent = "scripted" => VerdictInv,
                        [ExperimentNext]_experimentVars, agent' = "scripted"
                 PROVE  VerdictInv'
      OBVIOUS
    <2>1. agent = "scripted" /\ VerdictInv
      BY CaseSteps
    <2>2. turn = "none" /\ TypeOK /\ (mode = "guarded" => GuardedInv)
      BY <2>1 DEF CaseInv
    <2>3. CASE UNCHANGED vars
      <3> SUFFICES ASSUME NEW w \in Workers
                   PROVE  (/\ RunInv(w) /\ FaultInv(w) /\ TenantInv(w)
                           /\ BudgetInv(w) /\ PaymentInv(w) /\ DuplicateInv(w))'
        BY DEF VerdictInv
      <3> USE <2>3 DEF vars
      <3>1. /\ RunInv(w) /\ FaultInv(w) /\ TenantInv(w)
            /\ BudgetInv(w) /\ PaymentInv(w) /\ DuplicateInv(w)
        BY <2>1 DEF VerdictInv
      <3>2. Pending(w)' <=> Pending(w)
        BY DEF Pending
      <3>3. (RunInv(w) /\ FaultInv(w) /\ TenantInv(w))'
        BY <3>1 DEF RunInv, FaultInv, TenantInv, Own
      <3>4. Retried(w)' = Retried(w) /\ Broken(w)' = Broken(w)
        <4>1. Scenario(w)' = Scenario(w)
          BY <3>2 DEF Scenario
        <4>2. CASE binding = NoSchedule
          BY <4>1, <4>2 DEF Retried, Broken
        <4>3. CASE binding # NoSchedule
          BY <4>3, Unspent DEF faultVars
        <4> QED
          BY <4>2, <4>3
      <3>5. BudgetInv(w)'
        BY <3>1, <3>4 DEF BudgetInv
      <3>6. /\ Struck(w)' <=> Struck(w)
            /\ Excused' <=> Excused
            /\ Tolerable' <=> Tolerable
        BY <3>2, StruckKept, Absorbed
      <3>7. OnlyRefund(w)' <=> OnlyRefund(w)
        BY DEF OnlyRefund
      <3>8. PaymentInv(w)'
        BY <3>1, <3>6, <3>7 DEF PaymentInv, Own
      <3>9. Hidden(w)' = Hidden(w)
        BY <3>2 DEF Hidden, AfterFaults
      <3>10. DuplicateInv(w)'
        BY <3>1, <3>9 DEF DuplicateInv
      <3> QED
        BY <3>3, <3>5, <3>8, <3>10
    <2>4. ASSUME NEW w \in Workers, Step(w) \/ Rerun(w) PROVE VerdictInv'
      <3>1. Workers = {w} /\ RerunAfter = {"interrupted"}
        BY <2>4, ExperimentAssumption, CaseAssumption
      <3>2. /\ RunInv(w) /\ FaultInv(w) /\ TenantInv(w)
            /\ BudgetInv(w) /\ PaymentInv(w) /\ DuplicateInv(w)
        BY <2>1 DEF VerdictInv
      <3>3. mode \in {"guarded", "baseline"}
        BY <2>2, ServiceAssumption DEF TypeOK
      <3>4. (pc[w] = "acknowledging" /\ mode = "guarded") => Valid(result[w])
        BY <2>2, <3>2, ReceiptValid DEF TenantInv, PaymentInv
      <3>5. RunInv(w)' /\ FaultInv(w)' /\ TenantInv(w)'
        BY <2>2, <2>4, <3>1, <3>2, RunStep, FaultStep, TenantStep
      <3>6. BudgetInv(w)'
        BY <2>2, <2>4, <3>1, <3>2, <3>4, BudgetStep
      <3>7. PaymentInv(w)'
        BY <2>2, <2>4, <3>1, <3>2, <3>3, PaymentStep
      <3>8. DuplicateInv(w)'
        BY <2>2, <2>4, <3>1, <3>2, DuplicateStep
      <3> QED
        BY <3>1, <3>5, <3>6, <3>7, <3>8 DEF VerdictInv
    <2> QED
      BY <2>1, <2>2, <2>3, <2>4, ScriptedKinds
  <1> QED
    BY <1>1, <1>2, CaseInvariance, PTL DEF ExperimentSpec

\* The parts of the verdict follow from the invariant.
VerdictState ==
    TypeOK /\ VerdictInv /\ \A w \in Workers : Workers = {w}

\* The grader finds the only refund in order.
LEMMA OnlyRefundCompletes ==
    ASSUME TypeOK, NEW w \in Workers, Own, TenantInv(w), OnlyRefund(w), pc[w] = "returned"
    PROVE  /\ Completed(w) /\ Receipt(w) = result[w] /\ Valid(result[w])
           /\ refunds = <<[order_id |-> order, amount |-> Amount]>>
  <1>1. Valid(result[w]) /\ Backed(result[w])
    BY ReceiptValid
  <1>2. refunds \in Seq(Ledger!Row) /\ Len(refunds) = 1
    BY DEF TypeOK, Ledger!TypeOK, OnlyRefund
  <1>3. refunds[1] = [order_id |-> order, amount |-> Amount]
    BY ReceiptValid
  <1>4. refunds = <<[order_id |-> order, amount |-> Amount]>>
    BY <1>2, <1>3, LenProperties
  <1>5. TenantScope
    BY DEF TenantScope, TenantInv, Own
  <1> QED
    BY <1>1, <1>2, <1>4, <1>5 DEF Completed, OneRefundCheck, Receipt

\* A run that the budgets carry through ends by returning, with the only refund
\* unless a baseline run was struck after a commit.
LEMMA Carried ==
    ASSUME VerdictState, NEW w \in Workers, Own, Tolerable, Finished(w)
    PROVE  /\ pc[w] = "returned"
           /\ \/ OnlyRefund(w) /\ (mode = "guarded" \/ ~Struck(w))
              \/ mode = "baseline" /\ Struck(w) /\
                   (Len(refunds) > 1 \/ result[w] \in {Denied, Malformed, Failed})
  <1>1. /\ TypeOK /\ RunInv(w) /\ FaultInv(w) /\ BudgetInv(w) /\ PaymentInv(w)
    BY DEF VerdictState, VerdictInv
  <1>2. ~(pc[w] = "interrupted" /\ runs[w] = MaxRuns)
    <2>1. Broken(w) \in Nat /\ (Broken(w) < MaxRuns \/ binding = NoSchedule)
      BY <1>1, BudgetTypes
    <2>2. binding = NoSchedule => Broken(w) <= 1
      BY DEF Broken, Scenario
    <2>3. MaxRuns \in Nat /\ MaxRuns > 1
      BY ServiceAssumption, CaseAssumption
    <2>4. Broken(w) < MaxRuns
      BY <2>1, <2>2, <2>3
    <2>5. pc[w] = "interrupted" => runs[w] <= Broken(w) + 0
      BY <1>1 DEF BudgetInv
    <2> QED
      BY <2>1, <2>3, <2>4, <2>5
  <1>3. pc[w] = "returned"
    BY <1>1, <1>2 DEF Finished, RunInv
  <1> QED
    BY <1>1, <1>3 DEF PaymentInv, Early

\* Whether a fault struck after the commit can be read from the journal and the
\* scenario once the case is over.
LEMMA Evidence ==
    ASSUME VerdictState, NEW w \in Workers, Own, pc[w] = "returned"
    PROVE  ~Struck(w) <=> /\ AfterFaults({"lost_ack", "interrupt", "malformed"}) = {}
                          /\ fault \in BeforeFaults \union {"none"}
  <1>1. FaultInv(w)
    BY DEF VerdictState, VerdictInv
  <1>2. CASE binding = NoSchedule
    <2>1. AfterFaults({"lost_ack", "interrupt", "malformed"}) = {}
      BY <1>1, <1>2 DEF FaultInv, AfterFaults
    <2>2. ~Pending(w) /\ (fault # "none" <=> faultUsed)
      BY <1>1, <1>2 DEF FaultInv, Pending
    <2>3. Struck(w) <=> faultUsed /\ fault \notin BeforeFaults
      BY <1>2, <2>2 DEF Struck
    <2> QED
      BY <2>1, <2>2, <2>3
  <1>3. CASE binding # NoSchedule
    BY <1>1, <1>3 DEF FaultInv, Struck, AfterCommit
  <1> QED
    BY <1>2, <1>3

\* The verdicts of a finished scripted run follow from the invariant.
LEMMA Verdicts ==
    ASSUME VerdictState
    PROVE  /\ BudgetSuffices /\ CrossTenantRejected /\ DenialExplained
           /\ BaselineVerdict /\ DuplicatesExplained
  <1>1. /\ TypeOK
        /\ \A w \in Workers : /\ RunInv(w) /\ FaultInv(w) /\ TenantInv(w)
                              /\ BudgetInv(w) /\ PaymentInv(w) /\ DuplicateInv(w)
    BY DEF VerdictState, VerdictInv
  <1>2. PICK u \in Workers : Workers = {u}
    BY ExperimentAssumption
  <1>3. mode \in {"guarded", "baseline"} /\ "guarded" # "baseline"
    BY <1>1, ServiceAssumption DEF TypeOK
  <1>4. BudgetSuffices
    BY <1>1, Carried, OnlyRefundCompletes DEF BudgetSuffices, Own
  <1>5. CrossTenantRejected
    <2> SUFFICES ASSUME ~Own PROVE CrossTenantRejected
      BY DEF CrossTenantRejected, Own
    <2>1. TenantInv(u) /\ pc[u] # "killed"
      BY <1>1 DEF RunInv
    <2>2. journal = <<>> /\ ~faultUsed /\ refunds = <<>> /\ pc[u] \in {"idle", "lookup", "returned"}
      BY <2>1 DEF TenantInv
    <2>3. Finished(u) => SafelyRejected(u)
      BY <2>1, <2>2, Results DEF Finished, SafelyRejected, Receipt, TenantInv
    <2> QED
      BY <1>2, <2>2, <2>3 DEF CrossTenantRejected
  <1>6. DenialExplained
    <2> SUFFICES ASSUME mode = "guarded", Denied \in told, refunds # <<>>
                 PROVE  \E j, k \in DOMAIN journal :
                          /\ j < k
                          /\ binding[journal[j].rule].phase = "after"
                          /\ binding[journal[k].rule].kind = "permanent_error"
      BY DEF DenialExplained
    <2>1. pc[u] = "returned" /\ result[u] = Denied
      BY <1>1 DEF RunInv
    <2>2. Own
      BY <1>1 DEF TenantInv
    <2>3. Excused
      BY <1>1, <2>1, <2>2, Results DEF PaymentInv, Early, OnlyRefund
    <2>4. PICK k \in DOMAIN journal :
            /\ binding[journal[k].rule].kind = "permanent_error"
            /\ \E j \in 1..k - 1 : binding[journal[j].rule].phase = "after"
      BY <2>3 DEF Excused
    <2>5. PICK j \in 1..k - 1 : binding[journal[j].rule].phase = "after"
      BY <2>4
    <2>6. DOMAIN journal = 1..Len(journal) /\ Len(journal) \in Nat
      BY <1>1, LenProperties DEF TypeOK, Faults!TypeOK
    <2>7. j \in DOMAIN journal /\ j < k
      BY <2>5, <2>6
    <2> QED
      BY <2>4, <2>5, <2>7
  <1>7. BaselineVerdict
    <2> SUFFICES ASSUME mode = "baseline", Own, Tolerable, NEW w \in Workers, Finished(w)
                 PROVE  Completed(w) <=>
                          /\ AfterFaults({"lost_ack", "interrupt", "malformed"}) = {}
                          /\ fault \in BeforeFaults \union {"none"}
      BY DEF BaselineVerdict, Own
    <2>1. pc[w] = "returned"
      BY Carried
    <2>2. CASE ~Struck(w)
      BY <1>1, <1>3, <2>1, <2>2, Carried, Evidence, OnlyRefundCompletes
    <2>3. CASE Struck(w)
      <3>1. Len(refunds) > 1 \/ result[w] \in {Denied, Malformed, Failed}
        BY <1>3, <2>3, Carried
      <3>2. ~Completed(w)
        <4>1. Len(refunds) > 1 => ~OneRefundCheck
          <5> DEFINE n == Len(refunds)
          <5>1. OneRefundCheck => n = 1
            BY DEF OneRefundCheck
          <5> HIDE DEF n
          <5>2. ASSUME n > 1, n = 1 PROVE FALSE
            BY <5>2
          <5> QED
            BY <5>1, <5>2 DEF n
        <4>2. result[w] \in {Denied, Malformed, Failed} => ~Valid(Receipt(w))
          BY <2>1, Results DEF Receipt, Valid
        <4> QED
          BY <3>1, <4>1, <4>2 DEF Completed
      <3> QED
        BY <2>1, <2>3, <3>2, Evidence
    <2> QED
      BY <2>2, <2>3
  <1>8. DuplicatesExplained
    <2> SUFFICES ASSUME mode = "baseline" PROVE Len(refunds) <= 1 + HiddenCommits
      BY DEF DuplicatesExplained
    <2>1. Len(refunds) \in Nat /\ Cardinality(AfterFaults({"lost_ack", "interrupt"})) \in Nat
      BY <1>1, LenProperties, HiddenFinite DEF TypeOK, Ledger!TypeOK
    <2>2. Len(refunds) <= Hidden(u)
            + IF pc[u] \in {"acknowledging", "recording", "returned"} THEN 1 ELSE 0
      BY <1>1 DEF DuplicateInv
    <2>3. Hidden(u) \in Nat /\ HiddenCommits \in Nat /\ Hidden(u) <= HiddenCommits
      BY <2>1 DEF Hidden, HiddenCommits
    <2> QED
      BY <2>1, <2>2, <2>3
  <1> QED
    BY <1>4, <1>5, <1>6, <1>7, <1>8

\* The comparison table follows from the invariant: a guarded run passes every
\* scenario, a baseline run those that strike before the commit.
LEMMA Comparison == VerdictState => ComparisonTable
  <1> SUFFICES ASSUME VerdictState, NEW w \in Workers, Finished(w), binding = NoSchedule,
                      fault # "none" => Own
               PROVE  Grade(Receipt(w)) <=>
                        (mode = "guarded" \/ fault \in BeforeFaults \union {"none"})
    BY DEF ComparisonTable, Ended, Own
  <1>1. /\ TypeOK /\ RunInv(w) /\ FaultInv(w) /\ TenantInv(w) /\ PaymentInv(w)
        /\ mode \in {"guarded", "baseline"} /\ "guarded" # "baseline"
    BY ServiceAssumption DEF VerdictState, VerdictInv, TypeOK
  <1>2. CASE ~Own
    <2>1. /\ fault = "none" /\ pc[w] = "returned" /\ refunds = <<>> /\ result[w] = Denied
      BY <1>1, <1>2 DEF TenantInv, Finished
    <2>2. ~Ledger!Visible(Actor, order)
      BY <1>1, <1>2, Seen
    <2>3. Grade(Receipt(w))
      BY <2>1, <2>2, Results DEF Grade, Receipt, TenantScope
    <2> QED
      BY <2>1, <2>3
  <1>3. CASE Own
    <2>1. Tolerable /\ Ledger!Visible(Actor, order)
      BY <1>1, <1>3, Seen DEF Tolerable
    <2>2. pc[w] = "returned" /\ Receipt(w) = result[w]
      BY <1>3, <2>1, Carried DEF Receipt
    <2>3. fault # "none" => faultUsed
      BY <1>1, <1>3, <2>2 DEF FaultInv
    <2>4. AfterFaults({"lost_ack", "interrupt", "malformed"}) = {}
      BY <1>1 DEF FaultInv, AfterFaults
    <2>5. ~Struck(w) <=> fault \in BeforeFaults \union {"none"}
      BY <1>3, <2>2, <2>4, Evidence
    <2>6. CASE OnlyRefund(w) /\ (mode = "guarded" \/ ~Struck(w))
      <3>1. Grade(Receipt(w))
        BY <1>1, <1>3, <2>1, <2>2, <2>3, <2>6, OnlyRefundCompletes DEF Grade, Completed
      <3> QED
        BY <2>5, <2>6, <3>1
    <2>7. CASE /\ mode = "baseline" /\ Struck(w)
               /\ Len(refunds) > 1 \/ result[w] \in {Denied, Malformed, Failed}
      <3>1. Len(refunds) > 1 => refunds # <<[order_id |-> order, amount |-> Amount]>>
        <4> DEFINE row == [order_id |-> order, amount |-> Amount]
        <4> HIDE DEF row
        <4>1. Len(<<row>>) = 1
          OBVIOUS
        <4>2. Len(refunds) > 1 => refunds # <<row>>
          <5> DEFINE n == Len(refunds)
          <5>1. ASSUME refunds = <<row>> PROVE n = 1
            BY <4>1, <5>1
          <5> HIDE DEF n
          <5>2. ASSUME n > 1, n = 1 PROVE FALSE
            BY <5>2
          <5> QED
            BY <5>1, <5>2 DEF n
        <4> QED
          BY <4>2 DEF row
      <3>2. result[w] \in {Denied, Malformed, Failed} => ~Valid(result[w])
        BY Results DEF Valid
      <3>3. ~Grade(Receipt(w))
        BY <2>1, <2>2, <2>7, <3>1, <3>2 DEF Grade
      <3> QED
        BY <1>1, <2>5, <2>7, <3>3
    <2> QED
      BY <1>3, <2>1, <2>6, <2>7, Carried
  <1> QED
    BY <1>2, <1>3

\* The comparison table of the harness, for any schedule and any budgets.
THEOREM Judged == ExperimentSpec => []ScriptedVerdict
  <1>1. CaseInv /\ (agent = "scripted" => VerdictInv) => ScriptedVerdict
    <2> SUFFICES ASSUME CaseInv, VerdictInv PROVE ScriptedVerdict
      BY DEF ScriptedVerdict
    <2>1. VerdictState
      BY ExperimentAssumption, CaseAssumption DEF CaseInv, VerdictState
    <2> QED
      BY <2>1, Verdicts, Comparison DEF ScriptedVerdict, GuardedVerdict
  <1> QED
    BY <1>1, VerdictInvariance, PTL

=============================================================================

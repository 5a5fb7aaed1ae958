-------------------------- MODULE FaultEngineProofs --------------------------
(* Theorems about FaultEngine for any number of workers, any set of valid     *)
(* schedules and any bounds.                                                  *)
EXTENDS FaultEngine, SequenceTheorems, TLAPS

\* The write lock is held exactly by the worker inside a transaction.
LockInv ==
    \A w \in Workers : pc[w] \in InTransaction <=> lock = w

InCall == {"waiting", "counting", "committing", "raising"}

\* A worker that is binding knows a valid schedule; one that is past its
\* constructor runs the stored schedule and counts a rule of it.
ConfigInv ==
    \A w \in Workers :
        /\ pc[w] \in {"binding", "checking"} =>
            config[w] \in Schedules /\ DistinctTargets(config[w])
        /\ pc[w] \in InCall \union {"ready"} => config[w] = binding /\ binding \in Schedules
        /\ pc[w] \in InCall => rule[w] \in DOMAIN binding

\* Nobody else counts a call between a worker's read and its commit.
CountInv ==
    \A w \in Workers : pc[w] = "committing" => count[w] = calls[rule[w]] + 1

IInv == TypeOK /\ LockInv /\ ConfigInv /\ CountInv

\* Rule indices of a schedule are rows of the calls table.
LEMMA ScheduleRules ==
    ASSUME NEW s \in Schedules
    PROVE  DOMAIN s \subseteq Rules
  BY EngineAssumption DEF IsSchedule, Rules

\* The invariant holds before any process has started.
LEMMA InitIInv == Init => IInv
  BY EngineAssumption
  DEF Init, IInv, TypeOK, LockInv, ConfigInv, CountInv, Journal!Init, Journal!TypeOK,
      States, InTransaction, InCall, Rules, Journal!Rules, Event

\* Type correctness is preserved given what the invariant says of a claim.
LEMMA TypeStep == IInv /\ [Next]_vars => TypeOK'
  <1> SUFFICES ASSUME IInv, [Next]_vars PROVE TypeOK'
    OBVIOUS
  <1> USE EngineAssumption DEF IInv, TypeOK, Journal!TypeOK, States, Goto, database
  <1>1. CASE UNCHANGED vars
    BY <1>1 DEF vars
  <1>2. ASSUME NEW w \in Workers, Construct(w) PROVE TypeOK'
    BY <1>2 DEF Construct
  <1>3. ASSUME NEW w \in Workers, BeginBinding(w) PROVE TypeOK'
    BY <1>3 DEF BeginBinding
  <1>4. ASSUME NEW w \in Workers, FinishBinding(w) PROVE TypeOK'
    BY <1>4 DEF FinishBinding, Journal!Bind, ConfigInv
  <1>5. ASSUME NEW w \in Workers, Call(w) PROVE TypeOK'
    <2>1. PICK i \in DOMAIN config[w] :
            \E m \in Matching(config[w], config[w][i].tool, config[w][i].phase) :
                rule' = [rule EXCEPT ![w] = m]
      BY <1>5 DEF Call
    <2>2. PICK m \in DOMAIN config[w] : rule' = [rule EXCEPT ![w] = m]
      BY <2>1 DEF Matching
    <2>3. m \in 0..MaxRules
      BY <1>5, <2>2, ScheduleRules DEF Call, ConfigInv, Rules
    <2>4. rule' \in [Workers -> 0..MaxRules]
      BY <2>2, <2>3
    <2>5. made' \in [Workers -> 0..MaxCalls]
      BY <1>5 DEF Call
    <2> QED
      BY <1>5, <2>4, <2>5 DEF Call
  <1>6. ASSUME NEW w \in Workers, BeginClaim(w) PROVE TypeOK'
    BY <1>6 DEF BeginClaim
  <1>7. ASSUME NEW w \in Workers, CountCall(w) PROVE TypeOK'
    <2>1. rule[w] \in Journal!Rules
      BY <1>7, ScheduleRules DEF CountCall, ConfigInv, InCall, Rules, Journal!Rules
    <2> QED
      BY <1>7, <2>1 DEF CountCall
  <1>8. ASSUME NEW w \in Workers, CommitClaim(w) PROVE TypeOK'
    <2>1. rule[w] \in Rules /\ rule[w] \in Journal!Rules
      BY <1>8, ScheduleRules
      DEF CommitClaim, CommitAs, ConfigInv, InCall, Rules, Journal!Rules
    <2>2. calls' \in [Journal!Rules -> Nat]
      BY <1>8, <2>1 DEF CommitClaim, CommitAs
    <2>3. journal' \in Seq([rule : Journal!Rules, occurrence : Nat])
      <3> DEFINE e == [rule |-> rule[w], occurrence |-> count[w]]
                 S == [rule : Journal!Rules, occurrence : Nat]
      <3>1. e \in S /\ journal \in Seq(S)
        BY <2>1
      <3>2. journal' = Append(journal, e) \/ journal' = journal
        BY <1>8 DEF CommitClaim, CommitAs
      <3> HIDE DEF e, S
      <3>3. journal' \in Seq(S)
        <4>1. Append(journal, e) \in Seq(S)
          BY <3>1, AppendProperties
        <4> QED
          BY <3>1, <3>2, <4>1
      <3> QED
        BY <3>3 DEF S
    <2> QED
      BY <1>8, <2>2, <2>3 DEF CommitClaim, CommitAs
  <1>9. ASSUME NEW w \in Workers, Raise(w) PROVE TypeOK'
    <2>1. rule[w] \in Rules
      BY <1>9, ScheduleRules DEF Raise, ConfigInv, InCall
    <2> QED
      BY <1>9, <2>1 DEF Raise, Event
  <1>10. ASSUME NEW w \in Workers, GiveUp(w) PROVE TypeOK'
    BY <1>10 DEF GiveUp
  <1>11. ASSUME NEW w \in Workers, Kill(w) PROVE TypeOK'
    <2>1. lost' \subseteq Event
      BY <1>11, ScheduleRules DEF Kill, ConfigInv, InCall, Event
    <2> QED
      BY <1>11, <2>1 DEF Kill
  <1>12. ASSUME NEW w \in Workers, Exit(w) PROVE TypeOK'
    BY <1>12 DEF Exit
  <1> QED
    BY <1>1, <1>2, <1>3, <1>4, <1>5, <1>6, <1>7, <1>8, <1>9, <1>10, <1>11, <1>12 DEF Next

\* The lock, the schedules and the counts stay as the invariant says.
LEMMA ControlStep == IInv /\ [Next]_vars => (LockInv /\ ConfigInv /\ CountInv)'
  <1> SUFFICES ASSUME IInv, [Next]_vars PROVE (LockInv /\ ConfigInv /\ CountInv)'
    OBVIOUS
  <1> USE EngineAssumption
      DEF IInv, TypeOK, Journal!TypeOK, LockInv, ConfigInv, CountInv, States, Goto,
          database, InTransaction, InCall
  <1>1. CASE UNCHANGED vars
    BY <1>1 DEF vars
  <1>2. ASSUME NEW w \in Workers, Construct(w) PROVE (LockInv /\ ConfigInv /\ CountInv)'
    BY <1>2 DEF Construct
  <1>3. ASSUME NEW w \in Workers, BeginBinding(w) PROVE (LockInv /\ ConfigInv /\ CountInv)'
    BY <1>3 DEF BeginBinding
  <1>4. ASSUME NEW w \in Workers, FinishBinding(w) PROVE (LockInv /\ ConfigInv /\ CountInv)'
    BY <1>4 DEF FinishBinding, Journal!Bind
  <1>5. ASSUME NEW w \in Workers, Call(w) PROVE (LockInv /\ ConfigInv /\ CountInv)'
    <2>1. \E m \in DOMAIN config[w] : rule' = [rule EXCEPT ![w] = m]
      BY <1>5 DEF Call, Matching
    <2> QED
      BY <1>5, <2>1 DEF Call
  <1>6. ASSUME NEW w \in Workers, BeginClaim(w) PROVE (LockInv /\ ConfigInv /\ CountInv)'
    BY <1>6 DEF BeginClaim
  <1>7. ASSUME NEW w \in Workers, CountCall(w) PROVE (LockInv /\ ConfigInv /\ CountInv)'
    BY <1>7 DEF CountCall
  <1>8. ASSUME NEW w \in Workers, CommitClaim(w) PROVE (LockInv /\ ConfigInv /\ CountInv)'
    BY <1>8 DEF CommitClaim, CommitAs
  <1>9. ASSUME NEW w \in Workers, Raise(w) PROVE (LockInv /\ ConfigInv /\ CountInv)'
    BY <1>9 DEF Raise
  <1>10. ASSUME NEW w \in Workers, GiveUp(w) PROVE (LockInv /\ ConfigInv /\ CountInv)'
    BY <1>10 DEF GiveUp
  <1>11. ASSUME NEW w \in Workers, Kill(w) PROVE (LockInv /\ ConfigInv /\ CountInv)'
    BY <1>11 DEF Kill
  <1>12. ASSUME NEW w \in Workers, Exit(w) PROVE (LockInv /\ ConfigInv /\ CountInv)'
    BY <1>12 DEF Exit
  <1> QED
    BY <1>1, <1>2, <1>3, <1>4, <1>5, <1>6, <1>7, <1>8, <1>9, <1>10, <1>11, <1>12 DEF Next

\* The inductive invariant of the engine's transactions holds throughout.
THEOREM Invariance == Spec => []IInv
  <1>1. Init => IInv
    BY InitIInv
  <1>2. IInv /\ [Next]_vars => IInv'
    BY TypeStep, ControlStep DEF IInv
  <1> QED
    BY <1>1, <1>2, PTL DEF Spec

\* Type correctness of the journal and of every engine process.
THEOREM TypeCorrect == Spec => []TypeOK
  BY Invariance, PTL DEF IInv

\* Engines sharing a file run the one stored schedule, for any number of
\* workers racing through their constructors.
THEOREM SharedSchedule == Spec => []OneSchedule
  <1>1. IInv => OneSchedule
    BY DEF IInv, ConfigInv, OneSchedule, InCall
  <1> QED
    BY <1>1, Invariance, PTL

-----------------------------------------------------------------------------
(* The journal is exactly the sequence of windowed calls.                     *)

\* What a transition may do to the database: nothing, bind it, or claim a call.
LEMMA DatabaseStep ==
    ASSUME IInv, [Next]_vars
    PROVE  \/ UNCHANGED database
           \/ \E s \in Schedules : Journal!DistinctTargets(s) /\ Journal!Bind(s)
           \/ binding \in Schedules /\ \E i \in Rules : Journal!Claim(i)
  <1> USE DEF IInv, database
  <1>1. ASSUME NEW w \in Workers, FinishBinding(w)
        PROVE  \/ UNCHANGED database
               \/ \E s \in Schedules : Journal!DistinctTargets(s) /\ Journal!Bind(s)
    BY <1>1 DEF FinishBinding, ConfigInv, DistinctTargets, Journal!DistinctTargets
  <1>2. ASSUME NEW w \in Workers, CommitClaim(w)
        PROVE  binding \in Schedules /\ \E i \in Rules : Journal!Claim(i)
    <2>1. /\ binding \in Schedules /\ config[w] = binding
          /\ rule[w] \in DOMAIN binding
          /\ count[w] = calls[rule[w]] + 1
      BY <1>2 DEF CommitClaim, CommitAs, ConfigInv, CountInv, InCall
    <2>2. rule[w] \in Rules
      BY <2>1, ScheduleRules
    <2>3. Journal!Claim(rule[w])
      BY <1>2, <2>1, <2>2
      DEF CommitClaim, CommitAs, Journal!Claim, Journal!Record, TypeOK, Journal!TypeOK,
          Rules, Journal!Rules, Fires, Journal!Fires
    <2> QED
      BY <2>1, <2>2, <2>3
  <1> QED
    BY <1>1, <1>2
    DEF Next, vars, Construct, BeginBinding, Call, BeginClaim, CountCall, Raise, GiveUp,
        Kill, Exit

\* Nothing was counted before a schedule was bound.
UnboundInv == binding = NoSchedule => \A i \in Rules : calls[i] = 0

\* A claim keeps the journal exact: the new record, if any, is the newest call
\* of its rule.
LEMMA ClaimExact ==
    ASSUME IInv, JournalExact, binding \in Schedules, NEW i \in Rules, Journal!Claim(i)
    PROVE  JournalExact'
  <1> DEFINE e == Journal!Record(i, calls[i] + 1)
  <1>1. /\ calls \in [Rules -> Nat] /\ journal \in Seq([rule : Rules, occurrence : Nat])
        /\ i \in DOMAIN binding /\ binding' = binding /\ binding # NoSchedule
        /\ calls' = [calls EXCEPT ![i] = @ + 1]
    BY EngineAssumption
    DEF IInv, TypeOK, Journal!TypeOK, Journal!Claim, Rules, Journal!Rules
  <1>2. /\ calls' \in [Rules -> Nat] /\ calls'[i] = calls[i] + 1
        /\ \A j \in Rules : j # i => calls'[j] = calls[j]
    BY <1>1
  <1>3. DOMAIN binding \subseteq Rules
    BY ScheduleRules
  <1>4. /\ Journal!JournalSound /\ Journal!JournalComplete /\ Journal!JournalOrdered
    BY DEF JournalExact, Journal!JournalExact
  <1>5. CASE ~Journal!Fires(binding[i], calls[i] + 1)
    <2>1. journal' = journal
      BY <1>5 DEF Journal!Claim
    <2>2. Journal!JournalSound'
      BY <1>1, <1>2, <1>4, <2>1 DEF Journal!JournalSound
    <2>3. Journal!JournalComplete'
      BY <1>1, <1>2, <1>3, <1>4, <1>5, <2>1 DEF Journal!JournalComplete, Journal!Record
    <2>4. Journal!JournalOrdered'
      BY <1>4, <2>1 DEF Journal!JournalOrdered
    <2> QED
      BY <2>2, <2>3, <2>4 DEF JournalExact, Journal!JournalExact
  <1>6. CASE Journal!Fires(binding[i], calls[i] + 1)
    <2>1. journal' = Append(journal, e)
      BY <1>6 DEF Journal!Claim
    <2>2. e \in [rule : Rules, occurrence : Nat] /\ e.rule = i /\ e.occurrence = calls[i] + 1
      BY <1>1 DEF Journal!Record
    <2>3. /\ DOMAIN journal = 1..Len(journal) /\ Len(journal) \in Nat
          /\ DOMAIN journal' = 1..(Len(journal) + 1)
          /\ journal'[Len(journal) + 1] = e
          /\ \A k \in DOMAIN journal : journal'[k] = journal[k]
      BY <1>1, <2>1, <2>2
    <2> HIDE DEF e
    <2>4. Journal!JournalSound'
      <3> SUFFICES ASSUME NEW k \in DOMAIN journal'
                   PROVE  /\ journal'[k].rule \in DOMAIN binding
                          /\ journal'[k].occurrence \in 1..calls'[journal'[k].rule]
                          /\ Journal!Fires(binding[journal'[k].rule], journal'[k].occurrence)
        BY <1>1 DEF Journal!JournalSound
      <3>1. CASE k = Len(journal) + 1
        BY <3>1, <1>1, <1>2, <1>6, <2>2, <2>3
      <3>2. CASE k \in DOMAIN journal
        BY <3>2, <1>1, <1>2, <1>3, <1>4, <2>3 DEF Journal!JournalSound
      <3> QED
        BY <3>1, <3>2, <2>3
    <2>5. Journal!JournalComplete'
      <3> SUFFICES ASSUME NEW j \in DOMAIN binding, NEW n \in 1..calls'[j],
                          Journal!Fires(binding[j], n)
                   PROVE  \E k \in DOMAIN journal' : journal'[k] = Journal!Record(j, n)
        BY <1>1 DEF Journal!JournalComplete, Journal!Record
      <3>1. CASE j = i /\ n = calls[i] + 1
        BY <3>1, <2>3 DEF e
      <3>2. CASE ~(j = i /\ n = calls[i] + 1)
        <4>1. n \in 1..calls[j]
          BY <3>2, <1>1, <1>2, <1>3
        <4>2. PICK k \in DOMAIN journal : journal[k] = Journal!Record(j, n)
          BY <4>1, <1>1, <1>4 DEF Journal!JournalComplete
        <4> QED
          BY <4>2, <2>3
      <3> QED
        BY <3>1, <3>2
    <2>6. Journal!JournalOrdered'
      <3> SUFFICES ASSUME NEW j \in DOMAIN journal', NEW k \in DOMAIN journal',
                          j < k, journal'[j].rule = journal'[k].rule
                   PROVE  journal'[j].occurrence < journal'[k].occurrence
        BY DEF Journal!JournalOrdered
      <3>1. j \in DOMAIN journal /\ journal'[j] = journal[j]
        BY <2>3
      <3>2. CASE k = Len(journal) + 1
        <4>1. journal[j].rule = i /\ journal[j].occurrence \in 1..calls[i]
          BY <3>1, <3>2, <1>4, <2>2, <2>3 DEF Journal!JournalSound
        <4> QED
          BY <3>1, <3>2, <4>1, <1>1, <2>2, <2>3
      <3>3. CASE k \in DOMAIN journal
        BY <3>1, <3>3, <1>4, <2>3 DEF Journal!JournalOrdered
      <3> QED
        BY <3>2, <3>3, <2>3
    <2> QED
      BY <2>4, <2>5, <2>6 DEF JournalExact, Journal!JournalExact
  <1> QED
    BY <1>5, <1>6

\* The faults table of every reachable state holds exactly the calls inside
\* their rule's window, once each and in call order, for any schedule and any
\* interleaving of workers and kills.
THEOREM WindowsExact == Spec => []JournalExact
  <1>1. Init => UnboundInv /\ JournalExact
    BY EngineAssumption
    DEF Init, Journal!Init, UnboundInv, JournalExact, Journal!JournalExact,
        Journal!JournalSound, Journal!JournalComplete, Journal!JournalOrdered, Rules,
        Journal!Rules
  <1>2. IInv /\ UnboundInv /\ JournalExact /\ [Next]_vars => (UnboundInv /\ JournalExact)'
    <2> SUFFICES ASSUME IInv, UnboundInv, JournalExact, [Next]_vars
                 PROVE  (UnboundInv /\ JournalExact)'
      OBVIOUS
    <2>1. CASE UNCHANGED database
      BY <2>1
      DEF database, UnboundInv, JournalExact, Journal!JournalExact, Journal!JournalSound,
          Journal!JournalComplete, Journal!JournalOrdered, Journal!Record
    <2>2. ASSUME NEW s \in Schedules, Journal!Bind(s) PROVE (UnboundInv /\ JournalExact)'
      <3>1. CASE binding = NoSchedule
        <4>1. DOMAIN journal = {}
          BY <3>1 DEF JournalExact, Journal!JournalExact, Journal!JournalSound
        <4>2. \A i \in DOMAIN s : calls[i] = 0
          BY <3>1, ScheduleRules DEF UnboundInv
        <4> QED
          BY <2>2, <4>1, <4>2, EngineAssumption
          DEF Journal!Bind, UnboundInv, JournalExact, Journal!JournalExact,
              Journal!JournalSound, Journal!JournalComplete, Journal!JournalOrdered
      <3>2. CASE binding = s
        BY <2>2, <3>2
        DEF Journal!Bind, UnboundInv, JournalExact, Journal!JournalExact,
            Journal!JournalSound, Journal!JournalComplete, Journal!JournalOrdered,
            Journal!Record
      <3> QED
        BY <2>2, <3>1, <3>2 DEF Journal!Bind
    <2>3. ASSUME binding \in Schedules, NEW i \in Rules, Journal!Claim(i)
          PROVE  (UnboundInv /\ JournalExact)'
      <3>1. JournalExact'
        BY <2>3, ClaimExact
      <3>2. UnboundInv'
        BY <2>3, EngineAssumption DEF Journal!Claim, UnboundInv
      <3> QED
        BY <3>1, <3>2
    <2> QED
      BY <2>1, <2>2, <2>3, DatabaseStep
  <1> QED
    BY <1>1, <1>2, Invariance, PTL DEF Spec

\* The transactions refine the atomic journal: every step binds, claims one
\* call, or leaves the database as it is.
THEOREM Refinement == Spec => JournalSpec
  <1>1. Init => Journal!Init
    BY DEF Init
  <1>2. IInv /\ [Next]_vars => [Journal!Next]_(Journal!journalVars)
    <2> SUFFICES ASSUME IInv, [Next]_vars PROVE [Journal!Next]_(Journal!journalVars)
      OBVIOUS
    <2> QED
      BY DatabaseStep, EngineAssumption
      DEF Journal!Next, Journal!journalVars, database, Rules, Journal!Rules
  <1> QED
    BY <1>1, <1>2, Invariance, PTL DEF Spec, JournalSpec, Journal!Spec

-----------------------------------------------------------------------------
(* Injections and the exceptions they become.                                 *)

Recorded == {journal[k] : k \in DOMAIN journal}

Pending(w) == [rule |-> rule[w], occurrence |-> count[w]]

\* A worker's new injection was never recorded before, so it cannot be one that
\* some application has seen, lost or is about to see.
LEMMA FreshClaim ==
    ASSUME IInv, JournalExact, NEW w \in Workers, CommitClaim(w)
    PROVE  /\ Pending(w) \notin Recorded
           /\ Recorded' = IF Fires(config[w][rule[w]], count[w])
                            THEN Recorded \union {Pending(w)} ELSE Recorded
  <1> DEFINE S == [rule : Rules, occurrence : Nat]
  <1>1. /\ calls \in [Rules -> Nat] /\ journal \in Seq(S)
        /\ rule[w] \in Rules /\ count[w] \in Nat /\ count[w] = calls[rule[w]] + 1
    BY ScheduleRules
    DEF IInv, TypeOK, Journal!TypeOK, ConfigInv, CountInv, InCall, CommitClaim, CommitAs,
        Rules, Journal!Rules
  <1>2. Pending(w) \in S
    BY <1>1 DEF Pending
  <1>3. Pending(w) \notin Recorded
    <2> SUFFICES ASSUME NEW k \in DOMAIN journal, journal[k] = Pending(w) PROVE FALSE
      BY DEF Recorded
    <2>1. journal[k].rule = rule[w] /\ journal[k].occurrence = count[w]
      BY DEF Pending
    <2>2. journal[k].occurrence \in 1..calls[journal[k].rule]
      BY DEF JournalExact, Journal!JournalExact, Journal!JournalSound
    <2> QED
      BY <1>1, <2>1, <2>2
  <1>4. CASE Fires(config[w][rule[w]], count[w])
    <2>1. journal' = Append(journal, Pending(w))
      BY <1>4 DEF CommitClaim, CommitAs, Pending
    <2> HIDE DEF S
    <2>2. /\ DOMAIN journal = 1..Len(journal) /\ Len(journal) \in Nat
          /\ DOMAIN journal' = 1..(Len(journal) + 1)
          /\ journal'[Len(journal) + 1] = Pending(w)
          /\ \A k \in DOMAIN journal : journal'[k] = journal[k]
      BY <1>1, <1>2, <2>1
    <2>3. DOMAIN journal' = DOMAIN journal \union {Len(journal) + 1}
      BY <2>2
    <2>4. Recorded' = Recorded \union {Pending(w)}
      BY <2>2, <2>3 DEF Recorded
    <2> QED
      BY <1>3, <1>4, <2>4
  <1>5. CASE ~Fires(config[w][rule[w]], count[w])
    BY <1>3, <1>5 DEF CommitClaim, CommitAs, Recorded
  <1> QED
    BY <1>4, <1>5

\* DeliveryAccounted over the named sets.
Accounted ==
    /\ raised \union lost \union InFlight = Recorded
    /\ raised \intersect lost = {}
    /\ InFlight \intersect (raised \union lost) = {}
    /\ \A v, w \in Workers :
        (v # w /\ pc[v] = "raising" /\ pc[w] = "raising") => Pending(v) # Pending(w)

\* Accounted is DeliveryAccounted.
LEMMA SameAccount == TypeOK => (Accounted <=> DeliveryAccounted)
  BY DEF Accounted, DeliveryAccounted, Recorded, Pending

\* A step moves a recorded injection between pending, raised and lost, never drops one.
LEMMA AccountedStep ==
    ASSUME IInv, JournalExact, Accounted, [Next]_vars
    PROVE  Accounted'
  <1> USE DEF Goto, database, InFlight, Pending
  <1>1. pc \in [Workers -> States] /\ rule \in [Workers -> 0..MaxRules]
        /\ count \in [Workers -> Nat]
    BY DEF IInv, TypeOK
  <1>2. ASSUME UNCHANGED journal, UNCHANGED <<raised, lost>>,
               \A w \in Workers : pc'[w] = "raising" <=> pc[w] = "raising",
               \A w \in Workers : pc[w] = "raising" => rule'[w] = rule[w] /\ count'[w] = count[w]
        PROVE  Accounted'
    <2>1. Recorded' = Recorded
      BY <1>2 DEF Recorded
    <2>2. InFlight' = InFlight
      BY <1>2
    <2> QED
      BY <1>2, <2>1, <2>2 DEF Accounted
  <1>3. CASE UNCHANGED vars
    BY <1>2, <1>3 DEF vars
  <1>4. ASSUME NEW w \in Workers,
               \/ Construct(w) \/ BeginBinding(w) \/ FinishBinding(w) \/ Call(w)
               \/ BeginClaim(w) \/ CountCall(w) \/ GiveUp(w) \/ Exit(w)
        PROVE  Accounted'
    <2>1. UNCHANGED <<journal, raised, lost>>
      BY <1>4
      DEF Construct, BeginBinding, FinishBinding, Journal!Bind, Call, BeginClaim, CountCall,
          GiveUp, Exit
    <2>2. pc[w] # "raising" /\ pc'[w] # "raising"
      BY <1>1, <1>4
      DEF Construct, BeginBinding, FinishBinding, Call, BeginClaim, CountCall, GiveUp, Exit
    <2>3. \A v \in Workers : v # w => pc'[v] = pc[v] /\ rule'[v] = rule[v] /\ count'[v] = count[v]
      BY <1>1, <1>4
      DEF Construct, BeginBinding, FinishBinding, Call, BeginClaim, CountCall, GiveUp, Exit
    <2> QED
      BY <1>2, <2>1, <2>2, <2>3
  <1>5. ASSUME NEW w \in Workers, CommitClaim(w) PROVE Accounted'
    <2>1. /\ pc[w] = "committing" /\ UNCHANGED <<rule, count, raised, lost>>
          /\ pc' = [pc EXCEPT ![w] =
                     IF Fires(config[w][rule[w]], count[w]) THEN "raising" ELSE "ready"]
      BY <1>5 DEF CommitClaim, CommitAs
    <2>2. CASE Fires(config[w][rule[w]], count[w])
      <3>1. Pending(w) \notin Recorded /\ Recorded' = Recorded \union {Pending(w)}
        BY <1>5, <2>2, FreshClaim
      <3>2. InFlight' = InFlight \union {Pending(w)}
        BY <1>1, <2>1, <2>2
      <3>3. \A v \in Workers : pc[v] = "raising" => Pending(v) \in Recorded
        BY DEF Accounted
      <3>4. \A v \in Workers : v # w => pc'[v] = pc[v]
        BY <1>1, <2>1
      <3>5. \A u, v \in Workers :
                (u # v /\ pc'[u] = "raising" /\ pc'[v] = "raising") => Pending(u)' # Pending(v)'
        BY <2>1, <3>1, <3>3, <3>4 DEF Accounted
      <3>6. Pending(w) \notin raised \union lost
        BY <3>1 DEF Accounted
      <3> HIDE DEF InFlight, Pending
      <3> QED
        BY <2>1, <3>1, <3>2, <3>5, <3>6 DEF Accounted
    <2>3. CASE ~Fires(config[w][rule[w]], count[w])
      <3>1. Recorded' = Recorded
        BY <1>5, <2>3, FreshClaim
      <3>2. \A v \in Workers : pc'[v] = "raising" <=> pc[v] = "raising"
        BY <1>1, <2>1, <2>3
      <3>3. InFlight' = InFlight
        BY <2>1, <3>2
      <3> QED
        BY <2>1, <3>1, <3>2, <3>3 DEF Accounted
    <2> QED
      BY <2>2, <2>3
  <1>6. ASSUME NEW w \in Workers, Raise(w) \/ Kill(w) PROVE Accounted'
    <2>1. UNCHANGED <<journal, rule, count>>
      BY <1>6 DEF Raise, Kill
    <2>2. Recorded' = Recorded
      BY <2>1 DEF Recorded
    <2>3. pc'[w] # "raising" /\ \A v \in Workers : v # w => pc'[v] = pc[v]
      BY <1>1, <1>6 DEF Raise, Kill
    <2>4. CASE pc[w] = "raising"
      <3>1. InFlight = InFlight' \union {Pending(w)} /\ Pending(w) \notin InFlight'
        BY <2>1, <2>3, <2>4 DEF Accounted
      <3>2. \/ raised' = raised \union {Pending(w)} /\ lost' = lost
            \/ lost' = lost \union {Pending(w)} /\ raised' = raised
        BY <1>6, <2>4 DEF Raise, Kill
      <3>3. \A u, v \in Workers :
                (u # v /\ pc'[u] = "raising" /\ pc'[v] = "raising") => Pending(u)' # Pending(v)'
        BY <2>1, <2>3 DEF Accounted
      <3> HIDE DEF InFlight, Pending
      <3> QED
        BY <2>2, <3>1, <3>2, <3>3 DEF Accounted
    <2>5. CASE pc[w] # "raising"
      <3>1. UNCHANGED <<raised, lost>>
        BY <1>6, <2>5 DEF Raise, Kill
      <3> QED
        BY <1>2, <2>1, <2>3, <2>5, <3>1
    <2> QED
      BY <2>4, <2>5
  <1> QED
    BY <1>3, <1>4, <1>5, <1>6 DEF Next

\* No application sees an injection twice or one that is not recorded, and the
\* recorded ones nobody will ever see are those of killed workers.
THEOREM DeliveriesAccounted == Spec => []DeliveryAccounted
  <1>1. Init => Accounted
    BY DEF Init, Journal!Init, Accounted, Recorded, InFlight
  <1>2. IInv /\ JournalExact /\ Accounted /\ [Next]_vars => Accounted'
    BY AccountedStep
  <1>3. IInv /\ Accounted => DeliveryAccounted
    BY SameAccount DEF IInv
  <1> QED
    BY <1>1, <1>2, <1>3, Invariance, WindowsExact, PTL DEF Spec
=============================================================================

-------------------------- MODULE SuiteRunnerProofs --------------------------
(* Theorems about SuiteRunner for any suites of valid cases, any adapters and  *)
(* any bound on the calls they make.                                           *)
EXTENDS SuiteRunner, SequenceTheorems, TLAPS

Rows == [observed : {"completed", "rejected", "violation", "error"},
         passed : BOOLEAN, error : {"none", "raised", "timeout"},
         events : Seq(Nat), coverage : BOOLEAN, storable : BOOLEAN]

\* The rows that can be written.
Stored == [observed : {"completed", "rejected", "violation", "error"},
           passed : BOOLEAN, error : {"none", "raised", "timeout"},
           events : Seq(Nat), coverage : BOOLEAN, storable : {TRUE}]

\* How many of the first n calls of its boundary a rule hits.
Fired(f, n) ==
    IF n < f.occurrence THEN 0
    ELSE IF n < f.occurrence + f.repeat THEN n - f.occurrence + 1
    ELSE f.repeat

\* The journal is the window of every rule over the calls made.
JournalInv ==
    \A k \in DOMAIN suite : \A i \in Rules(k) :
        injected[k][i] = Fired(suite[k].faults[i], calls[k][i])

\* Where the runner is, and which executions there are.
ControlInv ==
    /\ row \in Rows
    /\ pc # "next" => current >= 1
    /\ \A k \in DOMAIN suite : execution[k] = "none" <=> k > current
    /\ pc = "waiting" => row = EmptyRow /\ execution[current] \in {"running", "finished"}

\* What is true of case k and its row r once the execution is over for the
\* runner, once the events are read, and once the coverage is.
Judged(k, r) ==
    /\ r.error # "timeout" => execution[k] = "finished"
    /\ r.error = "timeout" =>
         ~r.passed /\ (execution[k] = "running" => suite[k].kind = "threaded")
    /\ r.passed => /\ outcome[k].observed = suite[k].expected
                   /\ outcome[k].failures = suite[k].failures
                   /\ Covered(k)
Read(k, r) ==
    /\ r.events \in [Rules(k) -> Nat]
    /\ \A i \in Rules(k) : r.events[i] <= injected[k][i]
    /\ r.error # "timeout" => r.events = injected[k]
Closed(k, r) ==
    /\ r.error # "timeout" => r.coverage = Covered(k)
    /\ r.coverage => Covered(k)
    /\ ~r.coverage => \E i \in Rules(k) : r.events[i] < suite[k].faults[i].repeat

RowInv ==
    /\ pc \in {"first read", "second read", "saving"} => Judged(current, row)
    /\ pc \in {"second read", "saving"} => Read(current, row)
    /\ pc = "saving" => Closed(current, row)

ReportInv ==
    \A k \in DOMAIN results :
        Judged(k, results[k]) /\ Read(k, results[k]) /\ Closed(k, results[k])

IInv == TypeOK /\ JournalInv /\ ControlInv /\ RowInv /\ ReportInv

-----------------------------------------------------------------------------
\* A suite is a nonempty sequence of valid cases, each with a sequence of rules.
LEMMA SuiteFacts ==
    ASSUME suite \in Suites
    PROVE  /\ Len(suite) \in Nat \ {0} /\ DOMAIN suite = 1..Len(suite)
           /\ \A k \in DOMAIN suite :
                /\ ValidCase(suite[k])
                /\ \E n \in Nat : Rules(k) = 1..n
                /\ \A i \in Rules(k) : /\ suite[k].faults[i].occurrence \in Nat \ {0}
                                       /\ suite[k].faults[i].repeat \in Nat \ {0}
  <1>1. Len(suite) \in Nat \ {0} /\ DOMAIN suite = 1..Len(suite)
    <2>1. ValidSuite(suite)
      BY SuiteAssumption
    <2>2. Len(suite) \in 1..500 /\ DOMAIN suite = 1..Len(suite)
      BY <2>1, Zenon DEF ValidSuite, MaxCases
    <2>3. \A n \in 1..500 : n \in Nat \ {0}
      OBVIOUS
    <2> QED
      BY <2>2, <2>3, Zenon
  <1>2. ASSUME NEW k \in DOMAIN suite
        PROVE  /\ ValidCase(suite[k])
               /\ \E n \in Nat : Rules(k) = 1..n
               /\ \A i \in Rules(k) : /\ suite[k].faults[i].occurrence \in Nat \ {0}
                                      /\ suite[k].faults[i].repeat \in Nat \ {0}
    <2>1. ValidCase(suite[k])
      BY SuiteAssumption DEF ValidSuite
    <2>2. PICK n \in Nat : Rules(k) = 1..n /\ \A i \in 1..n : ValidRule(suite[k].faults[i])
      BY <2>1 DEF ValidCase, IsSchedule, Rules
    <2>3. \A i \in Rules(k) : /\ suite[k].faults[i].occurrence \in 1..100
                               /\ suite[k].faults[i].repeat \in 1..100
      BY <2>2 DEF ValidRule, MaxField
    <2>4. \A m \in 1..100 : m \in Nat \ {0}
      OBVIOUS
    <2> QED
      BY <2>1, <2>2, <2>3, <2>4, Zenon
  <1> QED
    BY <1>1, <1>2

\* Two facts about counts.
LEMMA NatOrder ==
    /\ \A n \in Nat : n <= n
    /\ \A a, b, c \in Nat : (a <= b /\ b <= c /\ b # c) => a < c
  OBVIOUS

\* The window counts the calls that fire, and never more than are required.
LEMMA FiredStep ==
    ASSUME NEW f, f.occurrence \in Nat \ {0}, f.repeat \in Nat \ {0}, NEW n \in Nat
    PROVE  /\ Fired(f, n) \in 0..f.repeat /\ Fired(f, 0) = 0
           /\ Fired(f, n + 1) = IF Fires(f, n + 1) THEN Fired(f, n) + 1 ELSE Fired(f, n)
  BY DEF Fired, Fires

\* One more is counted for its own rule and its own case.
LEMMA PlusFacts ==
    ASSUME NEW f, DOMAIN f = DOMAIN suite, NEW k \in DOMAIN suite, NEW i \in Rules(k),
           f[k] \in [Rules(k) -> Nat]
    PROVE  /\ DOMAIN Plus(f, k, i) = DOMAIN suite
           /\ Plus(f, k, i)[k] \in [Rules(k) -> Nat]
           /\ Plus(f, k, i)[k][i] = f[k][i] + 1
           /\ \A j \in Rules(k) \ {i} : Plus(f, k, i)[k][j] = f[k][j]
           /\ \A c \in DOMAIN suite \ {k} : Plus(f, k, i)[c] = f[c]
  <1>1. /\ DOMAIN Plus(f, k, i) = DOMAIN suite
        /\ Plus(f, k, i)[k] = [f[k] EXCEPT ![i] = f[k][i] + 1]
        /\ \A c \in DOMAIN suite \ {k} : Plus(f, k, i)[c] = f[c]
    <2> DEFINE e == [f[k] EXCEPT ![i] = f[k][i] + 1]
    <2>1. Plus(f, k, i) = [f EXCEPT ![k] = e]
      BY DEF Plus
    <2> HIDE DEF e
    <2>2. /\ DOMAIN Plus(f, k, i) = DOMAIN suite /\ Plus(f, k, i)[k] = e
          /\ \A c \in DOMAIN suite \ {k} : Plus(f, k, i)[c] = f[c]
      BY <2>1
    <2> QED
      BY <2>2 DEF e
  <1>2. f[k][i] + 1 \in Nat
    OBVIOUS
  <1>3. /\ [f[k] EXCEPT ![i] = f[k][i] + 1] \in [Rules(k) -> Nat]
        /\ [f[k] EXCEPT ![i] = f[k][i] + 1][i] = f[k][i] + 1
        /\ \A j \in Rules(k) \ {i} : [f[k] EXCEPT ![i] = f[k][i] + 1][j] = f[k][j]
    BY <1>2
  <1> QED
    BY <1>1, <1>3

\* A case starts as an error with nothing known of it.
LEMMA EmptyFacts ==
    EmptyRow \in Rows /\ EmptyRow.error = "none" /\ EmptyRow.passed = FALSE
  <1>1. <<>> \in Seq(Nat)
    OBVIOUS
  <1> QED
    BY <1>1 DEF EmptyRow, Rows

\* The invariant holds before the first case.
LEMMA InitIInv == Init => IInv
  <1> SUFFICES ASSUME Init PROVE IInv
    OBVIOUS
  <1>1. /\ Len(suite) \in Nat \ {0} /\ DOMAIN suite = 1..Len(suite)
        /\ \A k \in DOMAIN suite : \A i \in Rules(k) :
             /\ suite[k].faults[i].occurrence \in Nat \ {0}
             /\ suite[k].faults[i].repeat \in Nat \ {0}
    BY SuiteFacts DEF Init
  <1>2. Raised \notin Assessments /\ results = <<>> /\ Len(results) = 0 /\ DOMAIN results = {}
    BY DEF Init, Raised, Assessments
  <1>3. JournalInv
    <2>1. \A k \in DOMAIN suite : \A i \in Rules(k) : Fired(suite[k].faults[i], 0) = 0
      BY <1>1, FiredStep
    <2> QED
      BY <2>1 DEF Init, JournalInv
  <1>4. row \in Rows
    BY EmptyFacts DEF Init
  <1>5. TypeOK
    <2>1. suite \in Suites /\ current \in 0..Len(suite) /\ pc = "next" /\ current = 0
      BY <1>1 DEF Init
    <2>2. /\ execution \in [DOMAIN suite -> {"none", "running", "finished", "cancelled"}]
          /\ outcome \in [DOMAIN suite -> Assessments \union {Raised}]
      BY DEF Init
    <2>3. DOMAIN calls = DOMAIN suite /\ DOMAIN injected = DOMAIN suite
      BY DEF Init
    <2>4. ASSUME NEW k \in DOMAIN suite
          PROVE  /\ calls[k] \in [Rules(k) -> 0..MaxCalls]
                 /\ injected[k] \in [Rules(k) -> Nat]
                 /\ \A i \in Rules(k) : injected[k][i] <= suite[k].faults[i].repeat
      <3>1. calls[k] = [i \in Rules(k) |-> 0] /\ injected[k] = [i \in Rules(k) |-> 0]
        BY DEF Init
      <3>2. 0 \in 0..MaxCalls /\ \A i \in Rules(k) : 0 <= suite[k].faults[i].repeat
        BY <1>1, SuiteAssumption
      <3> QED
        BY <3>1, <3>2
    <2> QED
      BY <1>2, <2>1, <2>2, <2>3, <2>4 DEF TypeOK
  <1> QED
    BY <1>1, <1>2, <1>3, <1>4, <1>5 DEF Init, IInv, ControlInv, RowInv, ReportInv


\* What the steps below need of the state.
LEMMA StateFacts ==
    ASSUME IInv
    PROVE  /\ suite \in Suites /\ MaxCalls \in Nat
           /\ Len(suite) \in Nat \ {0} /\ DOMAIN suite = 1..Len(suite)
           /\ \A k \in DOMAIN suite :
                /\ ValidCase(suite[k]) /\ injected[k] \in [Rules(k) -> Nat]
                /\ injected[k] \in Seq(Nat)
                /\ \A i \in Rules(k) : /\ injected[k][i] <= suite[k].faults[i].repeat
                                       /\ suite[k].faults[i].repeat \in Nat
           /\ current \in 0..Len(suite) /\ current \in Nat
           /\ Len(results) = current - (IF pc = "next" THEN 0 ELSE 1)
           /\ pc # "next" => /\ current \in DOMAIN suite /\ execution[current] # "none"
                             /\ \A k \in DOMAIN results : k # current
           /\ results \in Seq(Stored) /\ Len(results) \in Nat /\ DOMAIN results = 1..Len(results)
           /\ \A k \in DOMAIN results : k \in DOMAIN suite /\ results[k] \in Rows /\ k <= current
  <1>1. /\ suite \in Suites /\ MaxCalls \in Nat
        /\ Len(suite) \in Nat \ {0} /\ DOMAIN suite = 1..Len(suite)
        /\ \A k \in DOMAIN suite :
             /\ ValidCase(suite[k]) /\ injected[k] \in [Rules(k) -> Nat]
             /\ injected[k] \in Seq(Nat)
             /\ \A i \in Rules(k) : /\ injected[k][i] <= suite[k].faults[i].repeat
                                    /\ suite[k].faults[i].repeat \in Nat
    <2>1. suite \in Suites /\ MaxCalls \in Nat
      BY SuiteAssumption DEF IInv, TypeOK
    <2>2. \A k \in DOMAIN suite :
             /\ injected[k] \in [Rules(k) -> Nat]
             /\ \A i \in Rules(k) : injected[k][i] <= suite[k].faults[i].repeat
      BY DEF IInv, TypeOK
    <2>3. ASSUME NEW k \in DOMAIN suite PROVE injected[k] \in Seq(Nat)
      <3>1. PICK n \in Nat : Rules(k) = 1..n
        BY <2>1, SuiteFacts
      <3> QED
        BY <2>2, <3>1
    <2> QED
      BY <2>1, <2>2, <2>3, SuiteFacts
  <1>2. current \in 0..Len(suite) /\ (pc # "next" => current \in DOMAIN suite)
    <2>1. current \in 0..Len(suite)
      BY DEF IInv, TypeOK
    <2>2. pc # "next" => current >= 1
      BY DEF IInv, ControlInv
    <2> QED
      BY <1>1, <2>1, <2>2
  <1>3. results \in Seq(Stored) /\ Len(results) = current - (IF pc = "next" THEN 0 ELSE 1)
    BY DEF IInv, TypeOK, Stored
  <1>4. Len(results) \in Nat /\ DOMAIN results = 1..Len(results)
        /\ \A k \in 1..Len(results) : results[k] \in Rows
    <2>1. Stored \subseteq Rows
      BY DEF Stored, Rows
    <2> QED
      BY <1>3, <2>1
  <1>5. Len(results) <= current /\ current <= Len(suite)
    BY <1>1, <1>2, <1>3
  <1>6. \A k \in DOMAIN results : k \in DOMAIN suite /\ results[k] \in Rows /\ k <= current
    BY <1>1, <1>2, <1>4, <1>5
  <1>7. ASSUME pc # "next"
        PROVE  execution[current] # "none" /\ \A k \in DOMAIN results : k # current
    <2>1. execution[current] = "none" => current > current
      BY <1>2, <1>7 DEF IInv, ControlInv
    <2>2. current \in Nat /\ Len(results) < current
      BY <1>1, <1>2, <1>3, <1>7
    <2> QED
      BY <1>4, <2>1, <2>2
  <1> QED
    BY <1>1, <1>2, <1>3, <1>4, <1>5, <1>6, <1>7

\* What is known of a case does not depend on what happens to the others.
LEMMA Kept ==
    ASSUME NEW k \in DOMAIN suite, NEW r, suite' = suite, injected'[k] = injected[k],
           outcome'[k] = outcome[k], execution'[k] = execution[k]
    PROVE  /\ Judged(k, r) => Judged(k, r)'
           /\ Read(k, r) => Read(k, r)'
           /\ Closed(k, r) => Closed(k, r)'
  <1>1. Rules(k)' = Rules(k) /\ Covered(k)' = Covered(k)
    BY DEF Rules, Covered
  <1>2. Judged(k, r) => Judged(k, r)'
    BY <1>1 DEF Judged
  <1>3. Read(k, r) => Read(k, r)'
    BY <1>1 DEF Read
  <1>4. Closed(k, r) => Closed(k, r)'
    BY <1>1 DEF Closed
  <1> QED
    BY <1>2, <1>3, <1>4

\* A boundary call adds to its own journal, within the window.  A row that is
\* judged stays true: its execution is over, or its evidence only lags more.
LEMMA ClaimStep ==
    ASSUME IInv, NEW k \in DOMAIN suite, NEW i \in Rules(k), Claim(k, i)
    PROVE  IInv'
  <1> DEFINE f == suite[k].faults[i]
  <1>1. /\ calls' = Plus(calls, k, i) /\ calls[k][i] < MaxCalls
        /\ execution[k] = "running" /\ MaxCalls \in Nat
        /\ injected' = IF Fires(f, calls[k][i] + 1) THEN Plus(injected, k, i) ELSE injected
        /\ UNCHANGED <<suite, current, pc, execution, outcome, row, results>>
    BY SuiteAssumption DEF Claim
  <1>2. /\ DOMAIN calls = DOMAIN suite /\ DOMAIN injected = DOMAIN suite
        /\ \A j \in DOMAIN suite :
             /\ calls[j] \in [Rules(j) -> 0..MaxCalls] /\ injected[j] \in [Rules(j) -> Nat]
             /\ \A n \in Rules(j) : /\ injected[j][n] <= suite[j].faults[n].repeat
                                    /\ injected[j][n] = Fired(suite[j].faults[n], calls[j][n])
    BY DEF IInv, TypeOK, JournalInv
  <1>3. /\ f.occurrence \in Nat \ {0} /\ f.repeat \in Nat \ {0}
        /\ calls[k][i] \in Nat /\ calls[k] \in [Rules(k) -> Nat]
    <2>1. calls[k] \in [Rules(k) -> 0..MaxCalls]
      BY <1>2
    <2>2. 0..MaxCalls \subseteq Nat
      BY <1>1
    <2> QED
      BY <2>1, <2>2, SuiteFacts, StateFacts
  <1>4. /\ DOMAIN calls' = DOMAIN suite
        /\ calls'[k] \in [Rules(k) -> Nat] /\ calls'[k][i] = calls[k][i] + 1
        /\ \A n \in Rules(k) \ {i} : calls'[k][n] = calls[k][n]
        /\ \A j \in DOMAIN suite \ {k} : calls'[j] = calls[j]
    BY <1>1, <1>2, <1>3, PlusFacts
  <1>5. /\ DOMAIN injected' = DOMAIN suite
        /\ injected'[k] \in [Rules(k) -> Nat]
        /\ injected'[k][i] = IF Fires(f, calls[k][i] + 1) THEN injected[k][i] + 1
                                                          ELSE injected[k][i]
        /\ \A n \in Rules(k) \ {i} : injected'[k][n] = injected[k][n]
        /\ \A j \in DOMAIN suite \ {k} : injected'[j] = injected[j]
    <2>1. CASE Fires(f, calls[k][i] + 1)
      <3>1. injected' = Plus(injected, k, i)
        BY <1>1, <2>1
      <3> QED
        BY <1>2, <2>1, <3>1, PlusFacts
    <2>2. CASE ~Fires(f, calls[k][i] + 1)
      <3>1. injected' = injected
        BY <1>1, <2>2
      <3> QED
        BY <1>2, <2>2, <3>1
    <2> QED
      BY <2>1, <2>2
  <1>6. /\ injected'[k][i] = Fired(f, calls'[k][i])
        /\ injected'[k][i] <= f.repeat
    <2>1. /\ Fired(f, calls[k][i] + 1) =
               IF Fires(f, calls[k][i] + 1) THEN Fired(f, calls[k][i]) + 1
                                            ELSE Fired(f, calls[k][i])
          /\ Fired(f, calls[k][i] + 1) \in 0..f.repeat
      <3>1. calls[k][i] + 1 \in Nat
        BY <1>3
      <3> QED
        BY <1>3, <3>1, FiredStep
    <2>2. injected[k][i] = Fired(f, calls[k][i])
      BY <1>2
    <2> QED
      BY <1>4, <1>5, <2>1, <2>2
  <1> HIDE DEF f
  <1>7. JournalInv'
    <2> SUFFICES ASSUME NEW j \in DOMAIN suite, NEW n \in Rules(j)
                 PROVE  injected'[j][n] = Fired(suite[j].faults[n], calls'[j][n])
      BY <1>1 DEF JournalInv, Rules
    <2>1. CASE j = k /\ n = i
      BY <1>6, <2>1 DEF f
    <2>2. CASE ~(j = k /\ n = i)
      <3>1. injected'[j][n] = injected[j][n] /\ calls'[j][n] = calls[j][n]
        BY <1>4, <1>5, <2>2
      <3> QED
        BY <1>2, <3>1
    <2> QED
      BY <2>1, <2>2
  <1>8. TypeOK'
    <2>1. calls'[k] \in [Rules(k) -> 0..MaxCalls]
      <3>1. \A n \in Rules(k) : calls'[k][n] \in 0..MaxCalls
        BY <1>1, <1>2, <1>3, <1>4
      <3> QED
        BY <1>4, <3>1
    <2>2. ASSUME NEW j \in DOMAIN suite
          PROVE  /\ calls'[j] \in [Rules(j) -> 0..MaxCalls]
                 /\ injected'[j] \in [Rules(j) -> Nat]
                 /\ \A n \in Rules(j) : injected'[j][n] <= suite[j].faults[n].repeat
      <3>1. CASE j = k
        <4>1. ASSUME NEW n \in Rules(k)
              PROVE  injected'[k][n] <= suite[k].faults[n].repeat
          BY <1>2, <1>5, <1>6 DEF f
        <4> QED
          BY <1>5, <2>1, <3>1, <4>1
      <3>2. CASE j # k
        BY <1>2, <1>4, <1>5, <3>2
      <3> QED
        BY <3>1, <3>2
    <2> QED
      BY <1>1, <1>4, <1>5, <2>2 DEF IInv, TypeOK, Rules
  <1>9. ControlInv'
    BY <1>1 DEF IInv, ControlInv
  <1>10. ASSUME NEW j \in DOMAIN suite
        PROVE  /\ \A n \in Rules(j) : injected[j][n] <= injected'[j][n]
               /\ Covered(j) => Covered(j)'
               /\ execution[j] = "finished" => injected'[j] = injected[j]
    <2>1. CASE j = k
      <3>1. ASSUME NEW n \in Rules(k)
            PROVE  /\ injected[k][n] <= injected'[k][n]
                   /\ injected[k][n] = suite[k].faults[n].repeat =>
                        injected'[k][n] = suite[k].faults[n].repeat
        <4>1. injected[k][n] \in Nat /\ injected'[k][n] \in Nat
          BY <1>2, <1>5
        <4>2. CASE n = i
          BY <1>5, <1>6, <4>1, <4>2, <1>3 DEF f
        <4>3. CASE n # i
          BY <1>5, <4>1, <4>3
        <4> QED
          BY <4>2, <4>3
      <3> QED
        BY <1>1, <2>1, <3>1 DEF Covered, Rules
    <2>2. CASE j # k
      <3>1. injected'[j] = injected[j] /\ injected[j] \in [Rules(j) -> Nat]
        BY <1>2, <1>5, <2>2
      <3>2. \A n \in Rules(j) : injected[j][n] <= injected'[j][n]
        BY <3>1
      <3> QED
        BY <1>1, <3>1, <3>2 DEF Covered, Rules
    <2> QED
      BY <2>1, <2>2
  <1>11. ASSUME NEW j \in DOMAIN suite, NEW r \in Rows
         PROVE  /\ Judged(j, r) => Judged(j, r)'
                /\ Judged(j, r) /\ Read(j, r) => Read(j, r)'
                /\ Judged(j, r) /\ Closed(j, r) => Closed(j, r)'
    <2>1. Judged(j, r) => Judged(j, r)'
      BY <1>1, <1>10 DEF Judged
    <2>2. Judged(j, r) /\ Read(j, r) => Read(j, r)'
      <3> SUFFICES ASSUME Judged(j, r), Read(j, r) PROVE Read(j, r)'
        OBVIOUS
      <3>1. CASE r.error # "timeout"
        <4>1. injected'[j] = injected[j]
          BY <1>10, <3>1 DEF Judged
        <4> QED
          BY <1>1, <4>1 DEF Read, Rules
      <3>2. CASE r.error = "timeout"
        <4> SUFFICES ASSUME NEW n \in Rules(j) PROVE r.events[n] <= injected'[j][n]
          BY <1>1, <3>2 DEF Read, Rules
        <4>1. injected[j][n] \in Nat /\ injected'[j][n] \in Nat
          BY <1>2, <1>5
        <4>2. r.events[n] <= injected[j][n] /\ injected[j][n] <= injected'[j][n]
          BY <1>10 DEF Read
        <4>3. r.events[n] \in Nat
          BY DEF Read
        <4> QED
          BY <4>1, <4>2, <4>3
      <3> QED
        BY <3>1, <3>2
    <2>3. Judged(j, r) /\ Closed(j, r) => Closed(j, r)'
      BY <1>1, <1>10 DEF Judged, Closed, Covered, Rules
    <2> QED
      BY <2>1, <2>2, <2>3
  <1>12. RowInv'
    BY <1>1, <1>11, StateFacts DEF IInv, RowInv, ControlInv
  <1>13. ReportInv'
    BY <1>1, <1>11, StateFacts DEF IInv, ReportInv
  <1> QED
    BY <1>7, <1>9, <1>12, <1>13, <1>8 DEF IInv

\* An execution returns once; every judged row it could belong to was given up.
LEMMA ReturnStep ==
    ASSUME IInv, NEW k \in DOMAIN suite, Return(k)
    PROVE  IInv'
  <1>1. /\ execution[k] = "running"
        /\ execution' = [execution EXCEPT ![k] = "finished"]
        /\ UNCHANGED <<suite, current, pc, calls, injected, row, results>>
        /\ \A j \in DOMAIN suite \ {k} : outcome'[j] = outcome[j]
        /\ outcome' \in [DOMAIN suite -> Assessments \union {Raised}]
    BY DEF IInv, TypeOK, Return, journals
  <1>2. /\ execution \in [DOMAIN suite -> {"none", "running", "finished", "cancelled"}]
        /\ execution'[k] = "finished" /\ k <= current
        /\ \A j \in DOMAIN suite \ {k} : execution'[j] = execution[j]
    <2>1. k \in Nat /\ current \in Nat
      BY StateFacts
    <2>2. execution[k] # "none" => ~(k > current)
      BY DEF IInv, ControlInv
    <2>3. execution \in [DOMAIN suite -> {"none", "running", "finished", "cancelled"}]
      BY DEF IInv, TypeOK, Rules
    <2> QED
      BY <1>1, <2>1, <2>2, <2>3
  <1>3. TypeOK'
    BY <1>1, <1>2 DEF IInv, TypeOK, Rules
  <1>4. JournalInv'
    BY <1>1 DEF IInv, JournalInv, Rules
  <1>5. ControlInv'
    BY <1>1, <1>2, StateFacts DEF IInv, ControlInv
  <1>6. ASSUME NEW j \in DOMAIN suite, NEW r \in Rows
        PROVE  /\ Judged(j, r) => Judged(j, r)'
               /\ Read(j, r) => Read(j, r)'
               /\ Closed(j, r) => Closed(j, r)'
    <2>1. Judged(j, r) => Judged(j, r)'
      BY <1>1, <1>2 DEF Judged, Covered, Rules
    <2> QED
      BY <1>1, <2>1 DEF Read, Closed, Covered, Rules
  <1>7. RowInv'
    BY <1>1, <1>6, StateFacts DEF IInv, RowInv, ControlInv
  <1>8. ReportInv'
    BY <1>1, <1>6, StateFacts DEF IInv, ReportInv
  <1> QED
    BY <1>3, <1>4, <1>5, <1>7, <1>8 DEF IInv

\* The runner starts a case only when the previous row is written.
LEMMA BeginStep ==
    ASSUME IInv, Begin
    PROVE  IInv'
  <1>1. /\ pc = "next" /\ pc' = "waiting" /\ row' = EmptyRow
        /\ current' = current + 1 /\ current + 1 \in DOMAIN suite
        /\ execution' = [execution EXCEPT ![current + 1] = "running"]
        /\ UNCHANGED <<suite, outcome, calls, injected, results>>
    BY StateFacts DEF Begin, journals
  <1>2. /\ execution \in [DOMAIN suite -> {"none", "running", "finished", "cancelled"}]
        /\ execution[current + 1] = "none" /\ execution'[current + 1] = "running"
        /\ \A j \in DOMAIN suite \ {current + 1} : execution'[j] = execution[j]
    <2>1. \A k \in DOMAIN suite : execution[k] = "none" <=> k > current
      BY DEF IInv, ControlInv
    <2>2. execution \in [DOMAIN suite -> {"none", "running", "finished", "cancelled"}]
      BY DEF IInv, TypeOK, Rules
    <2> QED
      BY <1>1, <2>1, <2>2, StateFacts
  <1>3. TypeOK'
    BY <1>1, <1>2, StateFacts DEF IInv, TypeOK, Rules
  <1>4. JournalInv'
    BY <1>1 DEF IInv, JournalInv, Rules
  <1>5. ControlInv'
    <2>1. EmptyRow \in Rows
      BY EmptyFacts
    <2>2. \A k \in DOMAIN suite : execution'[k] = "none" <=> k > current + 1
      BY <1>1, <1>2, StateFacts DEF IInv, ControlInv
    <2> QED
      BY <1>1, <1>2, <2>1, <2>2, StateFacts DEF ControlInv
  <1>6. RowInv'
    BY <1>1 DEF RowInv
  <1>7. ReportInv'
    <2> SUFFICES ASSUME NEW k \in DOMAIN results
                 PROVE  (Judged(k, results[k]) /\ Read(k, results[k]) /\ Closed(k, results[k]))'
      BY <1>1 DEF ReportInv
    <2>1. k \in DOMAIN suite \ {current + 1}
      BY StateFacts
    <2> QED
      BY <1>1, <1>2, <2>1, Kept DEF IInv, ReportInv
  <1> QED
    BY <1>3, <1>4, <1>5, <1>6, <1>7 DEF IInv

\* Between its row and the report the runner changes the row alone, and ends
\* or cancels nothing but the current execution.
LEMMA RowStep ==
    ASSUME IInv, pc \in {"waiting", "first read", "second read"},
           pc' \in {"first read", "second read", "saving"},
           row' \in Rows, RowInv',
           UNCHANGED <<suite, current, outcome, journals, results>>,
           \/ UNCHANGED execution
           \/ execution' = [execution EXCEPT ![current] = "cancelled"]
    PROVE  IInv'
  <1>1. /\ execution \in [DOMAIN suite -> {"none", "running", "finished", "cancelled"}]
        /\ current \in DOMAIN suite /\ execution[current] # "none"
    <2>1. execution \in [DOMAIN suite -> {"none", "running", "finished", "cancelled"}]
      BY DEF IInv, TypeOK, Rules
    <2> QED
      BY <2>1, StateFacts
  <1>2. /\ execution' \in [DOMAIN suite -> {"none", "running", "finished", "cancelled"}]
        /\ execution'[current] # "none"
        /\ \A j \in DOMAIN suite \ {current} : execution'[j] = execution[j]
    BY <1>1
  <1>3. TypeOK'
    BY <1>2 DEF IInv, TypeOK, Rules, journals
  <1>4. JournalInv'
    BY DEF IInv, JournalInv, Rules, journals
  <1>5. ControlInv'
    BY <1>1, <1>2, StateFacts DEF IInv, ControlInv
  <1>6. ReportInv'
    <2> SUFFICES ASSUME NEW k \in DOMAIN results
                 PROVE  (Judged(k, results[k]) /\ Read(k, results[k]) /\ Closed(k, results[k]))'
      BY DEF ReportInv
    <2>1. k \in DOMAIN suite \ {current}
      BY StateFacts
    <2> QED
      BY <1>2, <2>1, Kept DEF IInv, ReportInv, journals
  <1> QED
    BY <1>3, <1>4, <1>5, <1>6 DEF IInv

\* The assessment is taken from a finished execution whose coverage is checked.
LEMMA AssessStep ==
    ASSUME IInv, Assess
    PROVE  IInv'
  <1>1. /\ pc = "waiting" /\ pc' = "first read" /\ execution[current] = "finished"
        /\ UNCHANGED <<suite, current, execution, outcome, journals, results>>
        /\ current \in DOMAIN suite /\ row = EmptyRow
    BY StateFacts DEF Assess, IInv, ControlInv
  <1>2. outcome[current] \in Assessments \union {Raised}
    BY <1>1 DEF IInv, TypeOK, Rules
  <1>3. CASE outcome[current] = Raised
    <2>1. row' = [EmptyRow EXCEPT !.error = "raised"]
      BY <1>1, <1>3 DEF Assess
    <2>2. row' \in Rows /\ row'.error = "raised" /\ row'.passed = FALSE
      BY <2>1, EmptyFacts, Zenon DEF Rows
    <2>3. RowInv'
      BY <1>1, <2>2 DEF RowInv, Judged
    <2> QED
      BY <1>1, <2>2, <2>3, RowStep
  <1>4. CASE outcome[current] # Raised
    <2> DEFINE a == outcome[current]
               p == a.observed = Case.expected /\ Covered(current) /\ a.failures = Case.failures
    <2>1. row' = [EmptyRow EXCEPT !.observed = a.observed, !.storable = a.storable,
                                  !.passed = p]
      BY <1>1, <1>4, Zenon DEF Assess
    <2>2. /\ a.observed \in {"completed", "rejected", "violation"}
          /\ a.storable \in BOOLEAN /\ p \in BOOLEAN
      BY <1>2, <1>4 DEF Assessments
    <2> HIDE DEF p
    <2>3. row' \in Rows /\ row'.error = "none" /\ row'.passed = p
      BY <2>1, <2>2, EmptyFacts, Zenon DEF Rows
    <2>4. RowInv'
      BY <1>1, <2>3 DEF RowInv, Judged, p, Case, Covered, Rules, journals
    <2> QED
      BY <1>1, <2>3, <2>4, RowStep
  <1> QED
    BY <1>3, <1>4

\* A deadline leaves an error, and only a thread still runs after it.
LEMMA TimeOutStep ==
    ASSUME IInv, TimeOut
    PROVE  IInv'
  <1>1. /\ pc = "waiting" /\ pc' = "first read"
        /\ row' = [EmptyRow EXCEPT !.error = "timeout"]
        /\ UNCHANGED <<suite, current, outcome, journals, results>>
        /\ current \in DOMAIN suite /\ Case.kind # "blocking"
        /\ execution' = IF Case.kind = "cooperative"
                          THEN [execution EXCEPT ![current] = "cancelled"] ELSE execution
    BY StateFacts DEF TimeOut, IInv, ControlInv
  <1>2. row' \in Rows /\ row'.error = "timeout" /\ row'.passed = FALSE
    BY <1>1, EmptyFacts, Zenon DEF Rows
  <1>3. suite[current].kind \in {"threaded", "cooperative"}
    BY <1>1, StateFacts DEF ValidCase, Kinds, Case
  <1>4. execution'[current] = "running" => suite[current].kind = "threaded"
    BY <1>1, <1>3 DEF Case, IInv, TypeOK
  <1>5. RowInv'
    BY <1>1, <1>2, <1>4 DEF RowInv, Judged
  <1> QED
    BY <1>1, <1>2, <1>5, RowStep

\* The events are read first ...
LEMMA EventsStep ==
    ASSUME IInv, ReadJournal("first read", EventsFound, "second read")
    PROVE  IInv'
  <1>1. /\ pc = "first read" /\ pc' = "second read"
        /\ row' = [row EXCEPT !.events = injected[current]]
        /\ UNCHANGED <<suite, current, execution, outcome, journals, results>>
        /\ current \in DOMAIN suite /\ row \in Rows
        /\ Judged(current, row)
        /\ injected[current] \in [Rules(current) -> Nat] /\ injected[current] \in Seq(Nat)
    BY StateFacts DEF ReadJournal, EventsFound, IInv, ControlInv, RowInv
  <1>2. /\ row' \in Rows /\ row'.events = injected[current]
        /\ row'.error = row.error /\ row'.passed = row.passed
    <2>1. row \in Rows /\ injected[current] \in Seq(Nat)
      BY <1>1
    <2> QED
      BY <1>1, <2>1, Zenon DEF Rows
  <1>3. RowInv'
    <2>1. Judged(current, row)'
      BY <1>1, <1>2 DEF Judged, Covered, Rules, journals
    <2>2. \A i \in Rules(current) : injected[current][i] <= injected[current][i]
      BY <1>1, NatOrder
    <2>3. Read(current, row)'
      BY <1>1, <1>2, <2>2 DEF Read, Rules, journals
    <2> QED
      BY <1>1, <2>1, <2>3 DEF RowInv
  <1> QED
    BY <1>1, <1>2, <1>3, RowStep

\* ... and the coverage after them, when there may be more.
LEMMA CoverageStep ==
    ASSUME IInv, ReadJournal("second read", CoverageFound, "saving")
    PROVE  IInv'
  <1>1. /\ pc = "second read" /\ pc' = "saving"
        /\ row' = [row EXCEPT !.coverage = Covered(current)]
        /\ UNCHANGED <<suite, current, execution, outcome, journals, results>>
        /\ current \in DOMAIN suite /\ row \in Rows
        /\ Judged(current, row) /\ Read(current, row)
    BY StateFacts DEF ReadJournal, CoverageFound, IInv, ControlInv, RowInv
  <1>2. Covered(current) \in BOOLEAN
    BY DEF Covered, Rules
  <1>3. /\ row' \in Rows /\ row'.events = row.events /\ row'.coverage = Covered(current)
        /\ row'.error = row.error /\ row'.passed = row.passed
    BY <1>1, <1>2, Zenon DEF Rows
  <1>4. ~Covered(current) =>
          \E i \in Rules(current) : row.events[i] < suite[current].faults[i].repeat
    <2> SUFFICES ASSUME ~Covered(current)
                 PROVE  \E i \in Rules(current) :
                          row.events[i] < suite[current].faults[i].repeat
      OBVIOUS
    <2>1. PICK i \in Rules(current) : injected[current][i] # suite[current].faults[i].repeat
      BY DEF Covered, Rules
    <2>2. /\ injected[current][i] \in Nat /\ suite[current].faults[i].repeat \in Nat
          /\ injected[current][i] <= suite[current].faults[i].repeat
      BY <1>1, StateFacts
    <2>3. row.events[i] \in Nat /\ row.events[i] <= injected[current][i]
      BY <1>1 DEF Read
    <2>4. row.events[i] < suite[current].faults[i].repeat
      BY <2>1, <2>2, <2>3, NatOrder, Zenon
    <2> QED
      BY <2>4
  <1>5. Judged(current, row)' /\ Read(current, row)' /\ Closed(current, row)'
    BY <1>1, <1>3, <1>4 DEF Judged, Read, Closed, Covered, Rules, journals
  <1>6. RowInv'
    BY <1>1, <1>5 DEF RowInv
  <1> QED
    BY <1>1, <1>3, <1>6, RowStep

\* What is saved is the row with everything that was found of it, or nothing.
LEMMA SaveStep ==
    ASSUME IInv, Save
    PROVE  IInv'
  <1>1. /\ pc = "saving"
        /\ UNCHANGED <<suite, current, execution, outcome, calls, injected, row>>
        /\ current \in DOMAIN suite /\ row \in Rows
        /\ Judged(current, row) /\ Read(current, row) /\ Closed(current, row)
    BY StateFacts DEF Save, journals, IInv, ControlInv, RowInv
  <1>2. results \in Seq(Stored) /\ Len(results) = current - 1 /\ current \in Nat
    <2>1. results \in Seq(Stored) /\ Len(results) = current - 1
      BY <1>1 DEF IInv, TypeOK, Stored
    <2> QED
      BY <2>1, StateFacts
  <1>3. CASE row.storable
    <2>1. pc' = "next" /\ results' = Append(results, row) /\ row \in Stored
      BY <1>1, <1>3 DEF Save, Rows, Stored
    <2>2. /\ results' \in Seq(Stored) /\ Len(results') = current /\ DOMAIN results' = 1..current
          /\ results'[current] = row
          /\ \A k \in 1..(current - 1) : results'[k] = results[k] /\ k \in DOMAIN results
      BY <1>1, <1>2, <2>1, AppendProperties
    <2>3. TypeOK'
      <3>1. /\ results' \in Seq(Stored)
            /\ Len(results') = current - (IF "next" = "next" THEN 0 ELSE 1)
        BY <1>2, <2>2
      <3> QED
        BY <1>1, <2>1, <3>1 DEF IInv, TypeOK, Stored, Rules
    <2>4. JournalInv' /\ ControlInv' /\ RowInv'
      BY <1>1, <2>1 DEF IInv, JournalInv, ControlInv, RowInv, Rules
    <2>5. ReportInv'
      <3> SUFFICES ASSUME NEW k \in 1..current
                   PROVE  (Judged(k, results[k]) /\ Read(k, results[k]) /\ Closed(k, results[k]))'
        BY <2>2 DEF ReportInv
      <3>1. CASE k = current
        BY <1>1, <2>2, <3>1, Kept
      <3>2. CASE k # current
        <4>1. k \in 1..(current - 1)
          BY <1>2, <3>2
        <4> QED
          BY <1>1, <2>2, <4>1, Kept, StateFacts DEF IInv, ReportInv
      <3> QED
        BY <3>1, <3>2
    <2> QED
      BY <2>3, <2>4, <2>5 DEF IInv
  <1>4. CASE ~row.storable
    <2>1. pc' = "aborted" /\ results' = results
      BY <1>4 DEF Save
    <2>2. TypeOK'
      BY <1>1, <1>2, <2>1 DEF IInv, TypeOK, Stored, Rules
    <2>3. JournalInv' /\ ControlInv' /\ RowInv'
      BY <1>1, <2>1 DEF IInv, JournalInv, ControlInv, RowInv, Rules
    <2>4. ReportInv'
      <3> SUFFICES ASSUME NEW k \in DOMAIN results
                   PROVE  (Judged(k, results[k]) /\ Read(k, results[k]) /\ Closed(k, results[k]))'
        BY <2>1 DEF ReportInv
      <3> QED
        BY <1>1, <2>1, Kept, StateFacts DEF IInv, ReportInv
    <2> QED
      BY <2>2, <2>3, <2>4 DEF IInv
  <1> QED
    BY <1>3, <1>4

\* Every step of the runner and of the executions keeps the invariant.
LEMMA Invariance == Spec => []IInv
  <1>1. IInv /\ [Next]_vars => IInv'
    <2> SUFFICES ASSUME IInv, [Next]_vars PROVE IInv'
      OBVIOUS
    <2>1. CASE UNCHANGED vars
      <3>1. /\ UNCHANGED <<suite, current, pc, execution, outcome, calls, injected>>
            /\ UNCHANGED <<row, results>>
        BY <2>1 DEF vars, journals
      <3>2. TypeOK' /\ JournalInv' /\ ControlInv'
        BY <3>1 DEF IInv, TypeOK, JournalInv, ControlInv, Rules
      <3>3. RowInv' /\ ReportInv'
        BY <3>1, Kept, StateFacts DEF IInv, RowInv, ReportInv
      <3> QED
        BY <3>2, <3>3 DEF IInv
    <2>2. CASE Runner
      BY <2>2, BeginStep, AssessStep, TimeOutStep, EventsStep, CoverageStep, SaveStep
      DEF Runner, ReadEvidence
    <2>3. ASSUME NEW k \in DOMAIN suite, Return(k) PROVE IInv'
      BY <2>3, ReturnStep
    <2>4. ASSUME NEW k \in DOMAIN suite, NEW i \in Rules(k), Claim(k, i) PROVE IInv'
      BY <2>4, ClaimStep
    <2> QED
      BY <2>1, <2>2, <2>3, <2>4 DEF Next
  <1> QED
    BY <1>1, InitIInv, PTL DEF Spec

-----------------------------------------------------------------------------
\* A passing row was earned: the execution ended by itself as declared, and its
\* faults are in the row and in the journal for good (run_matrix).
THEOREM PassEarned == Spec => []PassIsEarned
  <1>1. IInv => PassIsEarned
    <2> SUFFICES ASSUME IInv, NEW k \in DOMAIN results, results[k].passed
                 PROVE  /\ execution[k] = "finished"
                        /\ outcome[k].observed = suite[k].expected
                        /\ outcome[k].failures = suite[k].failures
                        /\ Covered(k)
                        /\ results[k].coverage
                        /\ \A i \in Rules(k) :
                             results[k].events[i] = suite[k].faults[i].repeat
      BY DEF PassIsEarned
    <2>1. Judged(k, results[k]) /\ Read(k, results[k]) /\ Closed(k, results[k])
      BY DEF IInv, ReportInv
    <2>2. results[k].error # "timeout"
      BY <2>1 DEF Judged
    <2> QED
      BY <2>1, <2>2 DEF Judged, Read, Closed, Covered, Rules
  <1> QED
    BY <1>1, Invariance, PTL

\* The evidence in a row is the journal's when the deadline was met, and never
\* more than the journal's after it; executions do not overlap but for threads
\* whose rows are errors (fault_events, fault_coverage, wait_for).
THEOREM Honest == Spec => []EvidenceHonest
  <1>1. IInv => EvidenceHonest
    <2> SUFFICES ASSUME IInv PROVE EvidenceHonest
      OBVIOUS
    <2>1. TypeOK
      BY DEF IInv
    <2>2. Sequential
      <3> SUFFICES ASSUME NEW k \in DOMAIN suite, execution[k] = "running", k < current
                   PROVE  /\ suite[k].kind = "threaded"
                          /\ results[k].error = "timeout" /\ ~results[k].passed
        BY DEF Sequential
      <3>1. k \in DOMAIN results
        <4>1. Len(results) >= current - 1 /\ current \in Nat
          BY StateFacts
        <4>2. k \in 1..Len(suite) /\ Len(suite) \in Nat /\ Len(results) \in Nat
          BY StateFacts
        <4>3. k \in 1..Len(results)
          BY <4>1, <4>2
        <4> QED
          BY <4>3, StateFacts
      <3>2. Judged(k, results[k])
        BY <3>1 DEF IInv, ReportInv
      <3> QED
        BY <3>2 DEF Judged
    <2>3. EvidenceFinal /\ LateEvidenceUnderstates
      BY DEF IInv, ReportInv, Read, Closed, EvidenceFinal, LateEvidenceUnderstates
    <2> QED
      BY <2>1, <2>2, <2>3 DEF EvidenceHonest
  <1> QED
    BY <1>1, Invariance, PTL
=============================================================================

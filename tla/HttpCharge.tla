------------------------------ MODULE HttpCharge ------------------------------
(* The HTTP boundary of http_adapter.py: a threaded charge service over one    *)
(* SQLite ledger, and clients that give up on a response after a timeout and   *)
(* send the same operation key again.  A handler whose client has left goes on *)
(* and may commit long after; the adapter terminates the service when the last *)
(* client has returned, and the oracle reads the ledger.                       *)
EXTENDS FaultSchedule, FiniteSets

CONSTANTS
    Cases,          \* the configured [mode, scenario] pairs
    NoSchedule,     \* see FaultJournal
    Nobody,         \* the ledger is not locked
    PoolSize,       \* clients of the concurrent scenario (4)
    MaxAttempts,    \* range(3) in request_charge
    Limits          \* bounds to explore: concurrent clients, responses a client
                    \* stops waiting for, handlers that fail on a locked database

Modes == {"guarded", "baseline"}
Scenarios == {"clean", "lost-ack", "concurrent", "conflict"}

ASSUME ChargeAssumption ==
    /\ Cases \subseteq [mode : Modes, scenario : Scenarios]
    /\ PoolSize \in Nat \ {0, 1}
    /\ MaxAttempts \in Nat \ {0, 1}
    /\ Limits \subseteq [clients : 2..PoolSize, timeouts : Nat, lockouts : Nat]
    /\ Nobody \notin (1..PoolSize) \X (1..MaxAttempts)

VARIABLES
    case,           \* the case under test
    limit,          \* the bounds of this behaviour
    ledger,         \* amounts in id order; every row has the one operation key
    lock,           \* the handler whose transaction holds the write lock
    handlers,       \* the service thread of each attempt
    events,         \* service-events.jsonl, as a set of records
    binding, calls, journal,        \* the service's fault journal
    client, attempt, response,      \* each client, its attempts and its receipt
    serving,        \* the service process runs
    ready,          \* ready.json: "absent", "empty" or "written"
    adapter,        \* _execute: "starting", "reading", "requesting", "ended", "failed"
    timeouts, lockouts

setting == <<case, limit>>
faultVars == <<binding, calls, journal>>
clientVars == <<client, attempt, response>>
launch == <<ready, adapter>>
bounds == <<timeouts, lockouts>>
vars == <<case, limit, ledger, lock, handlers, events, binding, calls, journal,
          client, attempt, response, serving, ready, adapter, timeouts, lockouts>>

LostAck == [tool |-> "http_charge", phase |-> "after", kind |-> "lost_ack",
            occurrence |-> 1, repeat |-> 1]
\* validate(): the exact schedule of each scenario.
Schedule(scenario) == IF scenario = "lost-ack" THEN <<LostAck>> ELSE <<>>

Faults == INSTANCE FaultJournal
            WITH Schedules <- {Schedule(s) : s \in Scenarios}, MaxRules <- 1

\* The requests of the scenario; those of "conflict" are sent one after the
\* other, the second with another amount.
Clients == 1..PoolSize
Active == CASE case.scenario = "concurrent" -> 1..limit.clients
            [] case.scenario = "conflict"   -> {1, 2}
            [] OTHER                        -> {1}
Amount(c) == IF case.scenario = "conflict" /\ c = 2 THEN 99 ELSE 25

\* The service thread of client c's n-th attempt; the pair stands for the
\* attempt's uuid.
Attempts == Clients \X (1..MaxAttempts)
Absent == [at |-> "absent", id |-> 0, stored |-> 0, inserted |-> FALSE, status |-> 0]
At(h, s) == handlers[h].at = s
Move(h, s) == handlers' = [handlers EXCEPT ![h].at = s]

NoResponse == [status |-> 0, id |-> 0, amount |-> 0]

Init ==
    /\ case \in Cases
    /\ limit \in Limits
    /\ ledger = <<>>
    /\ lock = Nobody
    /\ handlers = [h \in Attempts |-> Absent]
    /\ events = {}
    /\ binding = Schedule(case.scenario)
    /\ calls = [i \in Faults!Rules |-> 0]
    /\ journal = <<>>
    /\ client = [c \in Clients |-> "ready"]
    /\ attempt = [c \in Clients |-> 0]
    /\ response = [c \in Clients |-> NoResponse]
    /\ serving = TRUE
    /\ ready = "absent"
    /\ adapter = "starting"
    /\ timeouts = 0
    /\ lockouts = 0

-----------------------------------------------------------------------------
(* The service: Handler.do_POST                                              *)

\* Seeded bug: a deferred transaction looks the key up without the write lock.
BeginDeferred(h) ==
    LET known == ledger # <<>> /\ case.mode = "guarded"
        stored == IF known THEN ledger[1] ELSE Amount(h[1])
    IN  /\ At(h, "received")
        /\ handlers' = [handlers EXCEPT ![h] =
                [at |-> "transaction", id |-> IF known THEN 1 ELSE 0, stored |-> stored,
                 inserted |-> ~known, status |-> IF stored = Amount(h[1]) THEN 200 ELSE 409]]
        /\ UNCHANGED lock

\* Seeded bug: a known key is accepted whatever amount it was used for.
BeginUnchecked(h) ==
    LET known == ledger # <<>> /\ case.mode = "guarded"
    IN  /\ At(h, "received")
        /\ lock = Nobody
        /\ lock' = h
        /\ handlers' = [handlers EXCEPT ![h] =
                [at |-> "transaction", id |-> IF known THEN 1 ELSE 0,
                 stored |-> IF known THEN ledger[1] ELSE Amount(h[1]),
                 inserted |-> ~known, status |-> 200]]

\* BEGIN IMMEDIATE and the lookup: a guarded service replays a known key, and
\* refuses it for another amount.
Begin(h) ==
    LET known == ledger # <<>> /\ case.mode = "guarded"
        stored == IF known THEN ledger[1] ELSE Amount(h[1])
    IN  /\ At(h, "received")
        /\ lock = Nobody
        /\ lock' = h
        /\ handlers' = [handlers EXCEPT ![h] =
                [at |-> "transaction", id |-> IF known THEN 1 ELSE 0, stored |-> stored,
                 inserted |-> ~known, status |-> IF stored = Amount(h[1]) THEN 200 ELSE 409]]

\* Seeded bug: the connection keeps its write lock.
CommitHoldingLock(h) ==
    /\ At(h, "transaction")
    /\ UNCHANGED lock
    /\ IF handlers[h].inserted
         THEN /\ ledger' = Append(ledger, Amount(h[1]))
              /\ handlers' = [handlers EXCEPT ![h].at = "committed",
                                              ![h].id = Len(ledger) + 1]
         ELSE /\ UNCHANGED ledger
              /\ Move(h, "committed")

\* The insertion, and the commit at the end of `with db`.
Commit(h) ==
    /\ At(h, "transaction")
    /\ lock' = Nobody
    /\ IF handlers[h].inserted
         THEN /\ ledger' = Append(ledger, Amount(h[1]))
              /\ handlers' = [handlers EXCEPT ![h].at = "committed",
                                              ![h].id = Len(ledger) + 1]
         ELSE /\ UNCHANGED ledger
              /\ Move(h, "committed")

\* audit(kind="transaction"), after the commit and under a lock of its own.
Audit(h) ==
    /\ At(h, "committed")
    /\ events' = events \union
         {[kind |-> "transaction", attempt |-> h, id |-> handlers[h].id,
           requested |-> Amount(h[1]), stored |-> handlers[h].stored,
           inserted |-> handlers[h].inserted, status |-> handlers[h].status]}
    /\ Move(h, "audited")

\* faults.apply("http_charge", "after")
LoseAcknowledgement(h) ==
    /\ At(h, "audited")
    /\ \E outcome \in {"none", "retryable"} :
        /\ Faults!Apply("http_charge", "after", outcome)
        /\ Move(h, IF outcome = "none" THEN "replying" ELSE "dropping")

\* audit(kind="response_not_sent"), then the connection is closed.
Drop(h) ==
    /\ At(h, "dropping")
    /\ events' = events \union
         {[kind |-> "response_not_sent", attempt |-> h, id |-> handlers[h].id]}
    /\ Move(h, "closed")

Reply(h) == At(h, "replying") /\ Move(h, "answered")

\* Seeded bug: a handler that cannot read the fault journal serves its request
\* again.
LockOutServedAgain(h) ==
    /\ \/ At(h, "received") /\ lock # Nobody /\ Move(h, "closed")
       \/ At(h, "audited") /\ binding # <<>> /\ Move(h, "received")
    /\ lockouts < limit.lockouts
    /\ lockouts' = lockouts + 1

\* The ledger or the fault journal stays locked beyond its timeout: the
\* exception escapes the handler and the connection is closed.
LockOut(h) ==
    /\ \/ At(h, "received") /\ lock # Nobody
       \/ At(h, "audited") /\ binding # <<>>
    /\ lockouts < limit.lockouts
    /\ lockouts' = lockouts + 1
    /\ Move(h, "closed")

Handle(h) ==
    /\ serving
    /\ \/ Begin(h) /\ UNCHANGED <<ledger, events, faultVars>>
       \/ Commit(h) /\ UNCHANGED <<events, faultVars>>
       \/ Audit(h) /\ UNCHANGED <<ledger, lock, faultVars>>
       \/ LoseAcknowledgement(h) /\ UNCHANGED <<ledger, lock, events>>
       \/ Drop(h) /\ UNCHANGED <<ledger, lock, faultVars>>
       \/ Reply(h) /\ UNCHANGED <<ledger, lock, events, faultVars>>
    /\ UNCHANGED <<setting, clientVars, serving, launch, bounds>>

Stall(h) ==
    /\ serving
    /\ LockOut(h)
    /\ UNCHANGED <<setting, ledger, lock, events, faultVars, clientVars, serving, launch, timeouts>>

-----------------------------------------------------------------------------
(* The clients: request_charge                                               *)

Current(c) == <<c, attempt[c]>>

Send(c) ==
    /\ adapter = "requesting"
    /\ c \in Active
    /\ client[c] = "ready"
    /\ (case.scenario = "conflict" /\ c = 2) => client[1] = "done"
    /\ attempt' = [attempt EXCEPT ![c] = @ + 1]
    /\ client' = [client EXCEPT ![c] = "waiting"]
    /\ handlers' = [handlers EXCEPT ![<<c, attempt[c] + 1>>].at = "received"]
    /\ UNCHANGED <<setting, ledger, lock, events, faultVars, response, serving, launch, bounds>>

\* An HTTP answer, an error status included, is final.
Receive(c) ==
    /\ client[c] = "waiting"
    /\ At(Current(c), "answered")
    /\ LET h == handlers[Current(c)]
       IN  response' = [response EXCEPT ![c] =
             IF h.status = 200 THEN [status |-> 200, id |-> h.id, amount |-> Amount(c)]
             ELSE [NoResponse EXCEPT !.status = h.status]]
    /\ client' = [client EXCEPT ![c] = "done"]
    /\ UNCHANGED <<setting, ledger, lock, handlers, events, faultVars, attempt, serving,
                   launch, bounds>>

\* A transport failure is tried again, with the same key.
NoAnswer(c) ==
    client' = [client EXCEPT ![c] = IF attempt[c] = MaxAttempts THEN "done" ELSE "ready"]

\* The connection is closed without a response, or the client stops waiting
\* for one (urlopen's timeout) while its handler goes on.
Disconnected(c) ==
    /\ client[c] = "waiting"
    /\ At(Current(c), "closed")
    /\ NoAnswer(c)
    /\ UNCHANGED <<setting, ledger, lock, handlers, events, faultVars, attempt, response,
                   serving, launch, bounds>>
TimeOut(c) ==
    /\ client[c] = "waiting"
    /\ timeouts < limit.timeouts
    /\ timeouts' = timeouts + 1
    /\ NoAnswer(c)
    /\ UNCHANGED <<setting, ledger, lock, handlers, events, faultVars, attempt, response,
                   serving, launch, lockouts>>

-----------------------------------------------------------------------------
(* The adapter: _execute, and the start of serve()                           *)

\* serve() makes the ledger, listens and writes ready.json, which exists empty
\* before its text is there; or it dies on the way.
Announce ==
    /\ serving
    /\ \/ ready = "absent" /\ ready' = "empty"
       \/ ready = "empty" /\ ready' = "written"
    /\ UNCHANGED <<setting, ledger, lock, handlers, events, faultVars, clientVars, serving,
                   adapter, bounds>>
ServiceDies ==
    /\ serving
    /\ ready # "written"
    /\ serving' = FALSE
    /\ UNCHANGED <<setting, ledger, lock, handlers, events, faultVars, clientVars, launch, bounds>>

\* The adapter waits for the file, then until it parses as JSON.
Discover ==
    /\ \/ adapter = "starting" /\ ready # "absent" /\ adapter' = "reading"
       \/ adapter = "reading" /\ ready = "written" /\ adapter' = "requesting"
    /\ UNCHANGED <<setting, ledger, lock, handlers, events, faultVars, clientVars, serving,
                   ready, bounds>>

\* The file is still missing when the process has exited or ten seconds have
\* passed, or still incomplete when they have: the case is an error.
GiveUp ==
    /\ \/ adapter = "starting" /\ ready = "absent"
       \/ adapter = "reading" /\ ready = "empty"
    /\ adapter' = "failed"
    /\ serving' = FALSE
    /\ UNCHANGED <<setting, ledger, lock, handlers, events, faultVars, clientVars, ready, bounds>>

\* All requests returned.  process.terminate() stops every handler; a
\* transaction in progress is rolled back.
Terminate ==
    /\ adapter = "requesting"
    /\ \A c \in Active : client[c] = "done"
    /\ adapter' = "ended"
    /\ serving' = FALSE
    /\ lock' = Nobody
    /\ UNCHANGED <<setting, ledger, handlers, events, faultVars, clientVars, ready, bounds>>

Adapter == Discover \/ GiveUp \/ Terminate

Step(c) == Send(c) \/ Receive(c) \/ Disconnected(c)

Next ==
    \/ \E h \in Attempts : Handle(h) \/ Stall(h)
    \/ \E c \in Clients : Step(c) \/ TimeOut(c)
    \/ Announce \/ ServiceDies \/ Adapter

Spec == Init /\ [][Next]_vars

\* Service threads and clients are scheduled and the adapter's deadline passes;
\* no client has to time out and no service has to come up.
FairSpec ==
    /\ Spec
    /\ \A h \in Attempts : WF_vars(Handle(h))
    /\ \A c \in Clients : WF_vars(Step(c))
    /\ WF_vars(Adapter)

-----------------------------------------------------------------------------
(* HttpChargeAdapter.assess and the expectations of http_suite               *)

\* The execution that assess() is given.
Executed == adapter = "ended"
Status(c) == response[c].status
Grounded(r) == r.id \in DOMAIN ledger /\ ledger[r.id] = r.amount

FailedChecks ==
    {k \in {"one_effect", "authorized_amount", "response_statuses", "receipt_matches_state"} :
        ~ CASE k = "one_effect" -> Len(ledger) = 1
            [] k = "authorized_amount" ->
                 ledger # <<>> /\ \A i \in DOMAIN ledger : ledger[i] = 25
            [] k = "response_statuses" ->
                 \A c \in Active :
                    Status(c) = IF case.scenario = "conflict" /\ c = 2 THEN 409 ELSE 200
            [] k = "receipt_matches_state" ->
                 \A c \in Active : Status(c) = 200 => Grounded(response[c])}

ExpectedFailures ==
    IF case.mode = "guarded" \/ case.scenario = "clean" THEN {}
    ELSE IF case.scenario = "conflict"
      THEN {"one_effect", "authorized_amount", "response_statuses"}
      ELSE {"one_effect"}

-----------------------------------------------------------------------------
(* Properties                                                                *)

\* Type correctness of the ledger, the service threads and the clients.
TypeOK ==
    /\ case \in Cases /\ limit \in Limits
    /\ ledger \in Seq({25, 99})
    /\ lock \in Attempts \union {Nobody}
    /\ handlers \in [Attempts ->
         [at : {"absent", "received", "transaction", "committed", "audited", "dropping",
                "replying", "closed", "answered"},
          id : Nat, stored : {0, 25, 99}, inserted : BOOLEAN, status : {0, 200, 409}]]
    /\ {e.kind : e \in events} \subseteq {"transaction", "response_not_sent"}
    /\ binding = Schedule(case.scenario)
    /\ Faults!TypeOK
    /\ client \in [Clients -> {"ready", "waiting", "done"}]
    /\ attempt \in [Clients -> 0..MaxAttempts]
    /\ response \in [Clients ->
         [status : {0, 200, 409}, id : Nat, amount : {0, 25, 99}]]
    /\ serving \in BOOLEAN
    /\ ready \in {"absent", "empty", "written"}
    /\ adapter \in {"starting", "reading", "requesting", "ended", "failed"}
    /\ timeouts \in 0..limit.timeouts
    /\ lockouts \in 0..limit.lockouts

\* "Transactionally deduplicated": a guarded service charges once, however the
\* handlers of concurrent clients and of abandoned attempts interleave.
GuardedOneEffect == case.mode = "guarded" => Len(ledger) <= 1

\* A 200 names a ledger row and its amount; a 409 is given only to a client
\* whose amount is not that of the row (do_POST answers after its commit).
ResponsesGrounded ==
    \A c \in Clients :
        /\ Status(c) = 200 => Grounded(response[c])
        /\ Status(c) = 409 => Len(ledger) = 1 /\ ledger[1] # Amount(c)

\* The service log is complete but for handlers that were stopped between
\* their commit and their record: otherwise each row has exactly one
\* transaction event that claims to have inserted it, with its amount.
Pending == {h \in Attempts : At(h, "committed") /\ handlers[h].inserted}
AuditComplete ==
    \A i \in DOMAIN ledger :
        LET inserts == {e \in events : e.kind = "transaction" /\ e.inserted /\ e.id = i}
            pending == {h \in Pending : handlers[h].id = i}
        IN  /\ Cardinality(inserts) + Cardinality(pending) = 1
            /\ \A e \in inserts : e.stored = ledger[i]

\* Requests go to a service that announced itself completely and still runs, and
\* a case whose service did not come up has charged nothing.
Launched ==
    /\ adapter = "requesting" => serving /\ ready = "written"
    /\ adapter = "failed" => ledger = <<>> /\ events = {}
    /\ (\E c \in Clients : attempt[c] > 0) => adapter \in {"requesting", "ended"}

\* The invariant of the service: types, a guarded service that charges once, a
\* log that accounts for the ledger, and answers that the ledger bears out.
ServiceInv ==
    /\ TypeOK /\ Launched
    /\ GuardedOneEffect /\ AuditComplete /\ ResponsesGrounded

\* The decision on an attempt counts from its handler's commit.
Served(h) == handlers[h].status # 0 /\ ~At(h, "transaction")

Decided == [h \in Attempts |->
    IF Served(h) THEN [id |-> handlers[h].id, accepted |-> handlers[h].status = 200]
                 ELSE [id |-> 0, accepted |-> FALSE]]
Told == {[client |-> c, accepted |-> Status(c) = 200, id |-> response[c].id] :
            c \in {d \in Clients : Status(d) # 0}}

Charging == INSTANCE ChargeLedger WITH
    deduplicates <- case.mode = "guarded",
    amount <- [h \in Attempts |-> Amount(h[1])],
    charges <- ledger, served <- Decided, receipts <- Told

\* A handler's transaction, which decides on what it looked up before it inserts,
\* implements an atomic charge: what interleaves, is abandoned, retried or stopped
\* in between is not seen by any client or in the ledger (do_POST, request_charge).
ChargeSpec == Charging!Spec

\* When every request was answered, a guarded service passes every check of
\* the oracle, whatever timed out on the way.
GuardedVerdict ==
    (case.mode = "guarded" /\ Executed /\ \A c \in Active : Status(c) # 0)
        => FailedChecks = {}

\* Where no response is late and no lock times out, each case of http_suite
\* fails exactly the checks the catalog expects, in every interleaving.
CatalogVerdict ==
    (Executed /\ timeouts = 0 /\ lockouts = 0) => FailedChecks = ExpectedFailures

\* The oracle passes the runs it should and fails the others for the checks
\* they are meant to fail.
OracleVerdict == GuardedVerdict /\ CatalogVerdict

\* The adapter's run ends, with an error where the service does not come up: no
\* request and no start waits for ever, and the process is stopped.
RunEnds == <>[](adapter \in {"ended", "failed"} /\ ~serving)
=============================================================================

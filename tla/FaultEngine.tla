----------------------------- MODULE FaultEngine -----------------------------
(* The FaultEngine of src/agent_reliability/faults.py as processes see it:    *)
(* several workers construct an engine over one SQLite file, call apply() at  *)
(* their tool boundaries, and may be killed between any two statements.       *)
(*                                                                            *)
(* A connection is modelled by the write lock that BEGIN IMMEDIATE takes      *)
(* and by the values a transaction has read or computed but not committed.    *)
(* Leaving the `with db:` block commits; an exception or a kill rolls back.   *)
(* A worker that waits for the lock may give up after the busy timeout.       *)
EXTENDS FaultSchedule, FiniteSets

CONSTANTS
    Workers,      \* processes (or service threads) sharing the journal file
    Schedules, NoSchedule, MaxRules,
    Nobody,       \* the database is not locked
    MaxCalls,     \* bound: apply() calls that reach a rule, per worker
    MaxCrashes    \* bound: kills over a behaviour

ASSUME EngineAssumption ==
    /\ Nobody \notin Workers
    /\ MaxRules \in Nat
    /\ NoSchedule \notin Schedules
    /\ \A s \in Schedules : IsSchedule(s, MaxRules)
    /\ MaxCalls \in Nat
    /\ MaxCrashes \in Nat

VARIABLES
    binding, calls, journal,   \* the database, see FaultJournal
    lock,         \* who holds the write lock
    pc,           \* where each worker is in the engine's code
    config,       \* the schedule a worker's engine was constructed with
    rule,         \* the rule whose call a worker is counting
    count,        \* the uncommitted count it read back
    made,         \* calls a worker has entered
    crashes,
    raised,       \* injections the application has seen, as journal records
    lost          \* injections recorded by a worker killed before raising

database == <<binding, calls, journal>>
vars == <<binding, calls, journal, lock, pc, config, rule, count, made, crashes,
          raised, lost>>

Journal == INSTANCE FaultJournal

Rules == 1..MaxRules

\* "down": no engine. "refused": the constructor raised ValueError.
\* "failed": sqlite3 raised "database is locked".
States == {"down", "binding", "checking", "ready", "waiting", "counting",
           "committing", "raising", "refused", "failed"}

InTransaction == {"checking", "counting", "committing"}

Goto(w, s) == pc' = [pc EXCEPT ![w] = s]

Init ==
    /\ Journal!Init
    /\ lock = Nobody
    /\ pc = [w \in Workers |-> "down"]
    /\ config = [w \in Workers |-> NoSchedule]
    /\ rule = [w \in Workers |-> 0]
    /\ count = [w \in Workers |-> 0]
    /\ made = [w \in Workers |-> 0]
    /\ crashes = 0
    /\ raised = {}
    /\ lost = {}

-----------------------------------------------------------------------------
(* Construction                                                              *)

\* A process builds an engine over the file.  Two rules at one boundary are
\* refused before the file is touched.
Construct(w) ==
    /\ pc[w] = "down"
    /\ \E s \in Schedules :
        /\ config' = [config EXCEPT ![w] = s]
        /\ Goto(w, IF DistinctTargets(s) THEN "binding" ELSE "refused")
    /\ UNCHANGED <<database, lock, rule, count, made, crashes, raised, lost>>

BeginBinding(w) ==
    /\ pc[w] = "binding"
    /\ lock = Nobody
    /\ lock' = w
    /\ Goto(w, "checking")
    /\ UNCHANGED <<database, config, rule, count, made, crashes, raised, lost>>

\* Seeded bug: INSERT OR IGNORE without comparing what was stored.
FinishBindingUnchecked(w) ==
    /\ pc[w] = "checking"
    /\ lock' = Nobody
    /\ Goto(w, "ready")
    /\ binding' = IF binding = NoSchedule THEN config[w] ELSE binding
    /\ UNCHANGED <<calls, journal, config, rule, count, made, crashes, raised, lost>>

\* Compare the stored schedule under the lock; a mismatch rolls back.
FinishBinding(w) ==
    /\ pc[w] = "checking"
    /\ lock' = Nobody
    /\ IF binding \notin {NoSchedule, config[w]}
         THEN Goto(w, "refused") /\ UNCHANGED database
         ELSE Goto(w, "ready") /\ Journal!Bind(config[w])
    /\ UNCHANGED <<config, rule, count, made, crashes, raised, lost>>

-----------------------------------------------------------------------------
(* apply(tool, phase).  A boundary without a rule returns its argument and   *)
(* touches nothing, so only calls that match a rule take steps.              *)

Call(w) ==
    /\ pc[w] = "ready"
    /\ made[w] < MaxCalls
    /\ made' = [made EXCEPT ![w] = @ + 1]
    /\ \E i \in DOMAIN config[w] :
        \E m \in Matching(config[w], config[w][i].tool, config[w][i].phase) :
            rule' = [rule EXCEPT ![w] = m]
    /\ Goto(w, "waiting")
    /\ UNCHANGED <<database, lock, config, count, crashes, raised, lost>>

\* Seeded bug: a deferred BEGIN, so two transactions read before either writes.
BeginClaimDeferred(w) ==
    /\ pc[w] = "waiting"
    /\ lock' = w
    /\ Goto(w, "counting")
    /\ UNCHANGED <<database, config, rule, count, made, crashes, raised, lost>>

BeginClaim(w) ==
    /\ pc[w] = "waiting"
    /\ lock = Nobody
    /\ lock' = w
    /\ Goto(w, "counting")
    /\ UNCHANGED <<database, config, rule, count, made, crashes, raised, lost>>

\* INSERT OR IGNORE, UPDATE and SELECT inside the open transaction.
CountCall(w) ==
    /\ pc[w] = "counting"
    /\ count' = [count EXCEPT ![w] = calls[rule[w]] + 1]
    /\ Goto(w, "committing")
    /\ UNCHANGED <<database, lock, config, rule, made, crashes, raised, lost>>

\* Commit a claim whose injection is `fired` and recorded for rule i.
CommitAs(w, i, fired) ==
    /\ pc[w] = "committing"
    /\ calls' = [calls EXCEPT ![rule[w]] = count[w]]
    /\ journal' = IF fired THEN Append(journal, [rule |-> i, occurrence |-> count[w]])
                           ELSE journal
    /\ lock' = Nobody
    /\ Goto(w, IF fired THEN "raising" ELSE "ready")
    /\ UNCHANGED <<binding, config, rule, count, made, crashes, raised, lost>>

\* Seeded bug: the window ignores its start.
CommitClaimFromFirst(w) ==
    CommitAs(w, rule[w], count[w] <= config[w][rule[w]].repeat)

\* Seeded bug: raising inside the `with` block, which rolls the claim back.
CommitClaimRolledBack(w) ==
    LET fired == Fires(config[w][rule[w]], count[w])
    IN  /\ pc[w] = "committing"
        /\ IF fired THEN UNCHANGED calls
                    ELSE calls' = [calls EXCEPT ![rule[w]] = count[w]]
        /\ lock' = Nobody
        /\ Goto(w, IF fired THEN "raising" ELSE "ready")
        /\ UNCHANGED <<binding, journal, config, rule, count, made, crashes, raised, lost>>

\* Insert the injection if the call is in the window, then commit both rows.
CommitClaim(w) ==
    CommitAs(w, rule[w], Fires(config[w][rule[w]], count[w]))

\* The exception, or the malformed result, reaches the application.
Raise(w) ==
    /\ pc[w] = "raising"
    /\ raised' = raised \union {[rule |-> rule[w], occurrence |-> count[w]]}
    /\ Goto(w, "ready")
    /\ UNCHANGED <<database, lock, config, rule, count, made, crashes, lost>>

-----------------------------------------------------------------------------
(* Failures                                                                  *)

\* Seeded bug: the connections of apply() are opened with no busy timeout.
GiveUpBindingOnly(w) ==
    /\ pc[w] = "binding"
    /\ lock \notin {Nobody, w}
    /\ Goto(w, "failed")
    /\ UNCHANGED <<database, lock, config, rule, count, made, crashes, raised, lost>>

\* connect(timeout=10): another transaction outlasted the busy timeout.
GiveUp(w) ==
    /\ pc[w] \in {"binding", "waiting"}
    /\ lock \notin {Nobody, w}
    /\ Goto(w, "failed")
    /\ UNCHANGED <<database, lock, config, rule, count, made, crashes, raised, lost>>

\* The process is killed; an open transaction is rolled back.
Kill(w) ==
    /\ pc[w] \notin {"down", "refused", "failed"}
    /\ crashes < MaxCrashes
    /\ crashes' = crashes + 1
    /\ lock' = IF lock = w THEN Nobody ELSE lock
    /\ lost' = IF pc[w] = "raising"
                 THEN lost \union {[rule |-> rule[w], occurrence |-> count[w]]}
                 ELSE lost
    /\ Goto(w, "down")
    /\ UNCHANGED <<database, config, rule, count, made, raised>>

\* The process that saw the constructor or sqlite3 raise has ended.
Exit(w) ==
    /\ pc[w] \in {"refused", "failed"}
    /\ Goto(w, "down")
    /\ UNCHANGED <<database, lock, config, rule, count, made, crashes, raised, lost>>

Next ==
    \E w \in Workers :
        \/ Construct(w) \/ BeginBinding(w) \/ FinishBinding(w)
        \/ Call(w) \/ BeginClaim(w) \/ CountCall(w) \/ CommitClaim(w) \/ Raise(w)
        \/ GiveUp(w) \/ Kill(w) \/ Exit(w)

Spec == Init /\ [][Next]_vars

\* A process inside the engine keeps running unless it is killed: statements
\* of an open transaction, an acquisition of a free lock or the busy timeout.
Progress(w) ==
    \/ BeginBinding(w) \/ FinishBinding(w) \/ BeginClaim(w)
    \/ CountCall(w) \/ CommitClaim(w) \/ Raise(w) \/ GiveUp(w)

FairSpec == Spec /\ \A w \in Workers : WF_vars(Progress(w))

-----------------------------------------------------------------------------
Event == [rule : Rules, occurrence : Nat]

\* Type correctness of the engine's durable and per-process state.
TypeOK ==
    /\ Journal!TypeOK
    /\ lock \in Workers \union {Nobody}
    /\ pc \in [Workers -> States]
    /\ config \in [Workers -> Schedules \union {NoSchedule}]
    /\ rule \in [Workers -> 0..MaxRules]
    /\ count \in [Workers -> Nat]
    /\ made \in [Workers -> 0..MaxCalls]
    /\ crashes \in 0..MaxCrashes
    /\ raised \subseteq Event
    /\ lost \subseteq Event

\* The faults table holds each windowed call once, in call order, and nothing
\* else, for every interleaving of workers and every point of a kill (apply()).
JournalExact == Journal!JournalExact

\* Engines that passed their constructor over one file all run the schedule
\* that is stored in it (__init__'s comparison under BEGIN IMMEDIATE).
OneSchedule ==
    \A w \in Workers :
        pc[w] \in {"ready", "waiting", "counting", "committing", "raising"}
            => config[w] = binding

\* What an injection looks like while its worker is between the commit and
\* the raise.
InFlight ==
    {[rule |-> rule[w], occurrence |-> count[w]] : w \in {v \in Workers : pc[v] = "raising"}}

\* The journal and the exceptions differ only by kills: an application never
\* sees an injection that is not recorded, and a recorded one was seen, is
\* about to be, or died with its worker; no injection is counted twice.
DeliveryAccounted ==
    /\ raised \union lost \union InFlight = {journal[k] : k \in DOMAIN journal}
    /\ raised \intersect lost = {}
    /\ InFlight \intersect (raised \union lost) = {}
    /\ \A v, w \in Workers :
        (v # w /\ pc[v] = "raising" /\ pc[w] = "raising")
            => <<rule[v], count[v]>> # <<rule[w], count[w]>>

\* The SQLite transactions implement atomic binding and claiming.
JournalSpec == Journal!Spec

\* Nobody waits for the database for ever: a construction or a call that
\* entered the engine leaves it.
CallsReturn ==
    \A w \in Workers :
        pc[w] \in {"binding", "checking", "waiting", "counting", "committing", "raising"}
            ~> pc[w] \in {"ready", "refused", "failed", "down"}
=============================================================================

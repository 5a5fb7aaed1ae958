---------------------------- MODULE RefundService ----------------------------
(* The refund workflow: Gateway and run_scripted of                           *)
(* src/agent_reliability/runtime.py over the payment service of store.py,     *)
(* with faults injected at the issue_refund boundary either by a bound        *)
(* schedule (faults.py, the suite's RefundAdapter) or by the one-shot         *)
(* scenario fault (experiment.py and the `worker` command).                   *)
(*                                                                            *)
(* Workers are processes, or the restart loop of one process, that invoke     *)
(* run_scripted over one database.  Database transactions are atomic here;    *)
(* RefundStore and FaultEngine show why.                                      *)
EXTENDS FaultSchedule, Integers, FiniteSets

CONSTANTS
    Workers,
    Modes,          \* the modes to explore, of "guarded" and "baseline"
    RerunAfter,     \* how an invocation may have ended when it is started again
    Schedules, NoSchedule, MaxRules,        \* see FaultJournal
    ScenarioFaults, \* the scenario faults to explore when no schedule is bound
    Tasks,          \* the orders a task may name
    Orders, Actors, Owner, Total, NoKey, NoOperation,   \* see RefundLedger
    Actor,          \* the authenticated tenant
    Amount,         \* the authorised amount, in units of the order totals
    MaxAttempts,    \* Gateway's max_attempts
    MaxRuns,        \* invocations of one worker (2 in the adapter and in run_case)
    MaxCrashes      \* bound: kills over a behaviour

ASSUME ServiceAssumption ==
    /\ Modes \subseteq {"guarded", "baseline"}
    /\ RerunAfter \subseteq {"returned", "interrupted", "killed"}
    /\ MaxRules \in Nat
    /\ NoSchedule \notin Schedules
    /\ \A s \in Schedules : IsSchedule(s, MaxRules)
    /\ Tasks \subseteq Orders
    /\ Owner \in [Orders -> Actors]
    /\ Total \in [Orders -> Nat]
    /\ Amount \in Nat \ {0}
    /\ NoKey # "authorized-refund"
    /\ NoOperation \notin [payload : [actor : Actors, order : Orders, amount : {Amount}],
                           refund : Nat]
    /\ MaxAttempts \in Nat \ {0}
    /\ MaxRuns \in Nat
    /\ MaxCrashes \in Nat

Keys == {"authorized-refund"}
Amounts == {Amount}

VARIABLES
    refunds, operations,       \* the service's tables, see RefundLedger
    checkpoint,                \* the worker's durable result, or NoResult
    faultUsed,                 \* the one-shot scenario fault was consumed
    binding, calls, journal,   \* the fault journal, see FaultJournal
    mode, order, fault,        \* the task: its mode, order and scenario fault
    pc, attempt, armed, result, runs,   \* each worker's invocation
    told,                      \* results handed to a caller
    crashes

ledgerVars == <<refunds, operations>>
faultVars == <<binding, calls, journal>>
durable == <<refunds, operations, checkpoint, faultUsed, binding, calls, journal>>
task == <<mode, order, fault>>
vars == <<refunds, operations, checkpoint, faultUsed, binding, calls, journal,
          mode, order, fault, pc, attempt, armed, result, runs, told, crashes>>

Ledger == INSTANCE RefundLedger
Faults == INSTANCE FaultJournal

-----------------------------------------------------------------------------
(* Results, as the caller sees them: a status, the refund they name (0 for     *)
(* none) and whether they state the authorised order and amount.               *)

NoResult  == [status |-> "none", refund |-> 0, terms |-> FALSE]
Denied    == [status |-> "denied", refund |-> 0, terms |-> FALSE]
Failed    == [status |-> "failed", refund |-> 0, terms |-> FALSE]
Malformed == [status |-> "malformed", refund |-> 0, terms |-> FALSE]
Refunded(row) == [status |-> "refunded", refund |-> row, terms |-> TRUE]

Result == [status : {"none", "denied", "failed", "malformed", "refunded"}, refund : Nat,
           terms : BOOLEAN]

\* Gateway._valid: a receipt that names a refund and states exactly the
\* authorised order and amount.  The tables are not looked at.
Valid(r) ==
    /\ r.status = "refunded"
    /\ r.refund # 0
    /\ r.terms

BeforeFaults == {"before_timeout", "rate_limit"}

States == {"idle", "lookup", "boundary", "refunding", "acknowledging", "retrying",
           "recording", "returned", "interrupted", "killed"}

Goto(w, s) == pc' = [pc EXCEPT ![w] = s]
Set(w, r) == result' = [result EXCEPT ![w] = r]

\* Init: an engine bound to some schedule, or no engine and a scenario fault.
Init ==
    /\ Ledger!Init
    /\ checkpoint = NoResult
    /\ faultUsed = FALSE
    /\ mode \in Modes
    /\ \/ /\ binding \in {s \in Schedules : DistinctTargets(s)}
          /\ fault = "none"
       \/ /\ binding = NoSchedule
          /\ fault \in ScenarioFaults
    /\ calls = [i \in Faults!Rules |-> 0]
    /\ journal = <<>>
    /\ order \in Tasks
    /\ pc = [w \in Workers |-> "idle"]
    /\ attempt = [w \in Workers |-> 0]
    /\ armed = [w \in Workers |-> "none"]
    /\ result = [w \in Workers |-> NoResult]
    /\ runs = [w \in Workers |-> 0]
    /\ told = {}
    /\ crashes = 0

-----------------------------------------------------------------------------
(* run_scripted                                                              *)

\* Read the checkpoint: a completed guarded run answers from it.
Start(w) ==
    LET replay == mode = "guarded" /\ checkpoint # NoResult
    IN  /\ pc[w] = "idle"
        /\ runs[w] < MaxRuns
        /\ runs' = [runs EXCEPT ![w] = @ + 1]
        /\ Set(w, IF replay THEN checkpoint ELSE NoResult)
        /\ told' = IF replay THEN told \union {checkpoint} ELSE told
        /\ Goto(w, IF replay THEN "returned" ELSE "lookup")
        /\ UNCHANGED <<durable, task, attempt, armed, crashes>>

\* lookup_order: a denial is returned without a checkpoint.  The orders table
\* never changes, so the authorisation that _invoke repeats gives this answer.
Lookup(w) ==
    LET allowed == Ledger!Visible(Actor, order)
    IN  /\ pc[w] = "lookup"
        /\ attempt' = [attempt EXCEPT ![w] = 1]
        /\ Set(w, IF allowed THEN NoResult ELSE Denied)
        /\ told' = IF allowed THEN told ELSE told \union {Denied}
        /\ Goto(w, IF allowed THEN "boundary" ELSE "returned")
        /\ UNCHANGED <<durable, task, armed, runs, crashes>>

\* A decided result is checkpointed and returned.
Record(w) ==
    LET keep == mode = "guarded" /\ result[w].status \in {"refunded", "denied"}
    IN  /\ pc[w] = "recording"
        /\ checkpoint' = IF keep THEN result[w] ELSE checkpoint
        /\ told' = told \union {result[w]}
        /\ Goto(w, "returned")
        /\ UNCHANGED <<ledgerVars, faultUsed, faultVars, task, attempt, armed, result,
                       runs, crashes>>

-----------------------------------------------------------------------------
(* Gateway._invoke                                                           *)

\* Before the service is called, with an engine.
Before(w) ==
    /\ pc[w] = "boundary"
    /\ binding # NoSchedule
    /\ \E outcome \in Faults!Outcomes :
        /\ Faults!Apply("issue_refund", "before", outcome)
        /\ \/ outcome = "none" /\ Goto(w, "refunding") /\ UNCHANGED result
           \/ outcome = "retryable" /\ Goto(w, "retrying") /\ UNCHANGED result
           \/ outcome = "interrupted" /\ Goto(w, "interrupted") /\ UNCHANGED result
           \/ outcome = "permanent" /\ Goto(w, "recording") /\ Set(w, Denied)
    /\ UNCHANGED <<ledgerVars, checkpoint, faultUsed, task, attempt, armed, runs, told,
                   crashes>>

\* Seeded bug: the fault marker is kept in memory only.
ConsumeFaultVolatile(w) ==
    /\ pc[w] = "boundary"
    /\ binding = NoSchedule
    /\ armed' = [armed EXCEPT ![w] = fault]
    /\ Goto(w, IF fault \in BeforeFaults THEN "retrying" ELSE "refunding")
    /\ UNCHANGED <<durable, task, attempt, result, runs, told, crashes>>

\* The same point without an engine: consume_fault() arms the scenario's
\* fault for the first attempt that gets here.
ConsumeFault(w) ==
    LET f == IF faultUsed THEN "none" ELSE fault
    IN  /\ pc[w] = "boundary"
        /\ binding = NoSchedule
        /\ armed' = [armed EXCEPT ![w] = f]
        /\ faultUsed' = (faultUsed \/ fault # "none")
        /\ Goto(w, IF f \in BeforeFaults THEN "retrying" ELSE "refunding")
        /\ UNCHANGED <<ledgerVars, checkpoint, faultVars, task, attempt, result, runs,
                       told, crashes>>

\* store.refund under an operation key.  Denied, Conflict and ValueError become
\* a denial.
RefundWithKey(w, key) ==
    LET v  == Ledger!Verdict(Actor, order, Amount, key)
        ok == v \in {"refunded", "replayed"}
    IN  /\ pc[w] = "refunding"
        /\ Ledger!Refund(Actor, order, Amount, key)
        /\ Set(w, IF ok THEN Refunded(Ledger!Answer(v, key)) ELSE Denied)
        /\ Goto(w, IF ok THEN "acknowledging" ELSE "recording")
        /\ UNCHANGED <<checkpoint, faultUsed, faultVars, task, attempt, armed, runs, told,
                       crashes>>

\* Seeded bug: the operation key is not passed.
RefundUnkeyed(w) == RefundWithKey(w, NoKey)

\* Only guarded mode passes the operation key.
Refund(w) ==
    RefundWithKey(w, IF mode = "guarded" THEN "authorized-refund" ELSE NoKey)

\* Seeded bug: a guarded caller trusts what it got.
AcceptUnchecked(w, r) == Goto(w, "recording") /\ Set(w, r)

\* What the caller makes of an acknowledgement: guarded mode retries a result
\* that is not valid, baseline takes it as it is.
Accept(w, r) ==
    IF mode = "guarded" /\ ~Valid(r)
      THEN Goto(w, "retrying") /\ Set(w, NoResult)
      ELSE Goto(w, "recording") /\ Set(w, r)

Lose(w, s) == Goto(w, s) /\ Set(w, NoResult)

\* After the service committed, with an engine.
After(w) ==
    /\ pc[w] = "acknowledging"
    /\ binding # NoSchedule
    /\ \E outcome \in Faults!Outcomes :
        /\ Faults!Apply("issue_refund", "after", outcome)
        /\ \/ outcome = "none" /\ Accept(w, result[w])
           \/ outcome = "malformed" /\ Accept(w, Malformed)
           \/ outcome = "retryable" /\ Lose(w, "retrying")
           \/ outcome = "interrupted" /\ Lose(w, "interrupted")
    /\ UNCHANGED <<ledgerVars, checkpoint, faultUsed, task, attempt, armed, runs, told,
                   crashes>>

\* The same point for an armed scenario fault.
AfterArmed(w) ==
    /\ pc[w] = "acknowledging"
    /\ binding = NoSchedule
    /\ \/ armed[w] = "none" /\ Accept(w, result[w])
       \/ armed[w] = "malformed_response" /\ Accept(w, Malformed)
       \/ armed[w] = "after_commit_timeout" /\ Lose(w, "retrying")
       \/ armed[w] = "interrupted_run" /\ Lose(w, "interrupted")
    /\ UNCHANGED <<durable, task, attempt, armed, runs, told, crashes>>

\* Seeded bug: the retry budget is one attempt too small.
RetryOnceLess(w) ==
    /\ pc[w] = "retrying"
    /\ IF attempt[w] + 1 >= MaxAttempts
         THEN Goto(w, "recording") /\ Set(w, Failed) /\ UNCHANGED attempt
         ELSE Goto(w, "boundary") /\ attempt' = [attempt EXCEPT ![w] = @ + 1]
              /\ UNCHANGED result
    /\ UNCHANGED <<durable, task, armed, runs, told, crashes>>

\* issue_refund's retry loop after TransientFailure or InvalidResponse.
Retry(w) ==
    /\ pc[w] = "retrying"
    /\ IF attempt[w] = MaxAttempts
         THEN Goto(w, "recording") /\ Set(w, Failed) /\ UNCHANGED attempt
         ELSE Goto(w, "boundary") /\ attempt' = [attempt EXCEPT ![w] = @ + 1]
              /\ UNCHANGED result
    /\ UNCHANGED <<durable, task, armed, runs, told, crashes>>

-----------------------------------------------------------------------------
(* Restarts                                                                  *)

\* RefundAdapter.execute and run_case restart an interrupted run; whoever runs
\* the worker command may repeat it after any outcome.
Rerun(w) ==
    /\ pc[w] \in RerunAfter
    /\ runs[w] < MaxRuns
    /\ Goto(w, "idle")
    /\ attempt' = [attempt EXCEPT ![w] = 0]
    /\ armed' = [armed EXCEPT ![w] = "none"]
    /\ Set(w, NoResult)
    /\ UNCHANGED <<durable, task, runs, told, crashes>>

\* A worker process is killed; only the database survives.
Kill(w) ==
    /\ pc[w] \notin {"idle", "returned", "interrupted", "killed"}
    /\ crashes < MaxCrashes
    /\ crashes' = crashes + 1
    /\ Goto(w, "killed")
    /\ Set(w, NoResult)
    /\ UNCHANGED <<durable, task, attempt, armed, runs, told>>

Step(w) ==
    \/ Start(w) \/ Lookup(w) \/ Before(w) \/ ConsumeFault(w) \/ Refund(w)
    \/ After(w) \/ AfterArmed(w) \/ Retry(w) \/ Record(w)

Next == \E w \in Workers : Step(w) \/ Rerun(w) \/ Kill(w)

Spec == Init /\ [][Next]_vars

\* A started invocation runs on, and an ended one is started again as long as
\* the restart loop or the operator has runs left.
FairSpec == Spec /\ \A w \in Workers : WF_vars(Step(w)) /\ WF_vars(Rerun(w))

-----------------------------------------------------------------------------
(* The graders: RefundAdapter.assess and experiment.grade inspect the tables  *)
(* and the receipt, never the application's own success flag.                 *)

\* An invocation loop that will not run again.
Finished(w) ==
    \/ pc[w] = "returned" /\ "returned" \notin RerunAfter
    \/ pc[w] \in {"returned", "interrupted", "killed"} /\ runs[w] = MaxRuns

\* What the loop hands to the grader: "failed" when every run was interrupted.
Receipt(w) == IF pc[w] = "returned" THEN result[w] ELSE Failed

\* The refund that a receipt names is in the snapshot.
Backed(r) == r.refund \in DOMAIN refunds

OneRefundCheck == Len(refunds) = 1
TenantScope == \A k \in DOMAIN refunds : Owner[refunds[k].order_id] = Actor

Completed(w) ==
    /\ TenantScope
    /\ OneRefundCheck
    /\ refunds[1].amount = Amount
    /\ Valid(Receipt(w))
    /\ Backed(Receipt(w))

SafelyRejected(w) == refunds = <<>> /\ Receipt(w).status = "denied"

-----------------------------------------------------------------------------
(* Properties                                                                *)

\* Type correctness of the durable and the in-process state.
TypeOK ==
    /\ Ledger!TypeOK
    /\ Faults!TypeOK
    /\ checkpoint \in Result
    /\ faultUsed \in BOOLEAN
    /\ mode \in Modes
    /\ order \in Tasks
    /\ fault \in ScenarioFaults \union {"none"}
    /\ pc \in [Workers -> States]
    /\ attempt \in [Workers -> 0..MaxAttempts]
    /\ armed \in [Workers -> ScenarioFaults \union {"none"}]
    /\ result \in [Workers -> Result]
    /\ runs \in [Workers -> 0..MaxRuns]
    /\ told \subseteq Result
    /\ crashes \in 0..MaxCrashes

\* Guarded workers commit one refund between them: lost acknowledgements,
\* malformed receipts, interruptions and kills at any point, retried by any of
\* them, never pay twice (the operation key in _invoke).
OneRefund == mode = "guarded" => Len(refunds) <= 1

\* A guarded caller, now or from the checkpoint, never holds a "refunded"
\* receipt that the service's tables do not bear out, and never a malformed
\* one (_valid, run_scripted).
ReceiptsGrounded ==
    mode = "guarded" =>
        \A r \in told \union {checkpoint} :
            /\ r.status # "malformed"
            /\ r.status = "refunded" =>
                 /\ Valid(r) /\ Backed(r)
                 /\ refunds[r.refund] = [order_id |-> order, amount |-> Amount]

\* The result a worker checkpointed is the result every later run returns,
\* even when several workers passed the checkpoint read before one of them
\* wrote it (run_scripted reads and writes it in separate transactions); only a
\* permanent error, which denies the task to one of them, can set them apart.
CheckpointFinal ==
    [][ \/ checkpoint = NoResult
        \/ checkpoint' = checkpoint
        \/ \E i \in DOMAIN journal : binding[journal[i].rule].kind = "permanent_error" ]_vars

\* A guarded run that reports a denial although its order was refunded was
\* refused for good by an injected permanent error that came after a fault
\* had hidden the refund; nothing else turns a committed refund into a denial.
DenialExplained ==
    (mode = "guarded" /\ Denied \in told /\ refunds # <<>>) =>
        \E j, k \in DOMAIN journal :
            /\ j < k
            /\ binding[journal[j].rule].phase = "after"
            /\ binding[journal[k].rule].kind = "permanent_error"

Hits(phase, outcomes) == Faults!Hits("issue_refund", phase, outcomes)

\* Faults the retry and restart budgets can absorb between them.
Tolerable ==
    binding # NoSchedule =>
        /\ Hits("before", {"permanent"}) = 0
        /\ Hits("before", {"retryable"}) + Hits("after", {"retryable", "malformed"})
             < MaxAttempts
        /\ Hits("before", {"interrupted"}) + Hits("after", {"interrupted"}) < MaxRuns

\* A guarded task on the tenant's own order completes under every schedule
\* its budgets can absorb, wherever the faults fall: the grader finds one
\* refund of the right amount and a receipt that names it.
BudgetSuffices ==
    (mode = "guarded" /\ Owner[order] = Actor /\ Tolerable) =>
        \A w \in Workers : Finished(w) => Completed(w)

\* A task on another tenant's order is refused before any fault can be drawn:
\* it ends in an explicit denial without a side effect and without having
\* used up the schedule (_invoke authorises before it injects).
CrossTenantRejected ==
    Owner[order] # Actor =>
        /\ journal = <<>> /\ ~faultUsed
        /\ \A w \in Workers : Finished(w) => SafelyRejected(w)

\* The grader's verdict on the guarded task, its own order's or another's.
GuardedVerdict == BudgetSuffices /\ CrossTenantRejected

\* Faults that struck after the service had committed.
AfterFaults(kinds) ==
    {k \in DOMAIN journal : binding[journal[k].rule].kind \in kinds
                             /\ binding[journal[k].rule].phase = "after"}

HiddenCommits ==
    Cardinality(AfterFaults({"lost_ack", "interrupt"}))
    + IF faultUsed /\ fault \in {"after_commit_timeout", "interrupted_run"} THEN 1 ELSE 0

\* The baseline pays again only for acknowledgements it did not get: each
\* duplicate is owed to one lost acknowledgement or interruption after a commit
\* and a malformed receipt costs none (_invoke without an operation key).
DuplicatesExplained ==
    mode = "baseline" => Len(refunds) <= 1 + HiddenCommits

\* The negative controls really discriminate: under faults the budgets can
\* absorb, a baseline run passes the grader exactly when no fault struck after
\* the commit (docs/refunds.md's table, test_fault_matrix).
BaselineVerdict ==
    (mode = "baseline" /\ Owner[order] = Actor /\ Tolerable) =>
        \A w \in Workers : Finished(w) =>
            (Completed(w) <=>
                /\ AfterFaults({"lost_ack", "interrupt", "malformed"}) = {}
                /\ fault \in BeforeFaults \union {"none"})

\* Guarded workers that are started again after interruptions, kills and
\* returns end with the refund checkpointed, whatever the one-shot scenario
\* fault was (the `worker` command repeated on one database).
EventuallyRefunded ==
    (mode = "guarded" /\ binding = NoSchedule /\ Owner[order] = Actor)
        ~> checkpoint.status = "refunded"

\* What the promise of guarded mode is about: the refund row, and the rows
\* callers hold receipts for.
Guarded(value, otherwise) == IF mode = "guarded" THEN value ELSE otherwise
Paid == Guarded(Len(refunds), 0)
Shown ==
    Guarded({r.refund : r \in {x \in told \union {checkpoint} : x.status = "refunded"}}, {})

\* The guarded service implements the at-most-once promise: it pays once and
\* shows receipts only for a refund that was already committed.
Once == INSTANCE RefundOnce WITH paid <- Paid, receipts <- Shown

OnceSpec == Once!Spec
=============================================================================

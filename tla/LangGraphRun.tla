----------------------------- MODULE LangGraphRun -----------------------------
(* The artifact task as a LangGraph graph (langgraph_adapter.py): five nodes   *)
(* in a row, business state in state.sqlite, progress in checkpoints.sqlite,   *)
(* and no transaction over both.  One process at a time invokes the graph on   *)
(* one thread id; it may be killed between any two steps and started again.    *)
(*                                                                            *)
(* LangGraph itself is external: with durability="sync" a node's output is     *)
(* persisted before the next node starts, a pending node is run again from its *)
(* beginning, and RetryPolicy re-runs a node that raised RetryableFault.       *)
EXTENDS ArtifactStore, FaultSchedule

CONSTANTS
    NoSchedule, MaxRules,   \* see FaultJournal
    MaxAttempts,            \* RetryPolicy(max_attempts=3)
    Settings                \* the ways the task is operated, by name

Schedules == UNION {Settings[k].schedules : k \in DOMAIN Settings}

ASSUME GraphAssumption ==
    /\ MaxRules \in Nat
    /\ MaxAttempts \in Nat \ {0}
    /\ \A k \in DOMAIN Settings :
        IsSetting(Settings[k]) /\ Settings[k].modes \subseteq {"normal", "invalid_receipt"}
    /\ NoSchedule \notin Schedules
    /\ \A s \in Schedules : IsSchedule(s, MaxRules)

VARIABLES
    setting,
    mode,           \* "normal", "invalid_receipt"
    next,           \* the graph checkpoint: "none", the pending node, or "end"
    records, complete,              \* rows of the state table
    rejected,       \* an execution_rejected event exists
    retained,       \* the receipt of a rejection is stored
    attempts,       \* node_attempt events of each tool
    binding, calls, journal,        \* the fault journal, see FaultJournal
    pc, attempt, runs,              \* the invocation; the node it runs is `next`
    crashes, errors

business == <<records, complete, rejected, retained, attempts>>
faultVars == <<binding, calls, journal>>
bounds == <<setting, mode, crashes, errors>>
vars == <<artifact, commits, file, temps, damages, next, records, complete, rejected, retained,
          attempts, binding, calls, journal, pc, attempt, runs, setting, mode, crashes, errors>>

Operated == Settings[setting]

Faults == INSTANCE FaultJournal

Tools == {"retrieve_records", "build_artifact", "commit_artifact", "export_artifact"}
Following == [retrieve_records |-> "build_artifact",
              build_artifact   |-> "commit_artifact",
              commit_artifact  |-> "export_artifact",
              export_artifact  |-> "finish",
              finish           |-> "end"]
Nodes == DOMAIN Following

States == Ended \union {"idle", "resuming", "node", "boundary", "acting", "comparing", "writing",
                        "acknowledging", "retrying", "storing", "returning", "rejecting",
                        "retaining"}

Init ==
    /\ StoreInit
    /\ next = "none"
    /\ records = FALSE /\ complete = FALSE
    /\ rejected = FALSE /\ retained = FALSE
    /\ attempts = [t \in Tools |-> 0]
    /\ setting \in DOMAIN Settings
    /\ mode \in Operated.modes
    /\ binding \in {s \in Operated.schedules : DistinctTargets(s)}
    /\ calls = [i \in Faults!Rules |-> 0]
    /\ journal = <<>>
    /\ pc = "idle"
    /\ attempt = 0 /\ runs = 0 /\ crashes = 0 /\ errors = 0

-----------------------------------------------------------------------------
(* _run_graph_once                                                           *)

Start ==
    /\ pc = "idle"
    /\ runs < Operated.runs
    /\ runs' = runs + 1
    /\ pc' = "resuming"
    /\ UNCHANGED <<storeVars, next, business, faultVars, attempt, bounds>>

\* Seeded bug: the graph is invoked on its input although a node is pending.
ResumeFromStart ==
    /\ pc = "resuming"
    /\ IF retained THEN pc' = "failed" /\ UNCHANGED <<next, attempt>>
       ELSE IF next = "end" THEN pc' = "complete" /\ UNCHANGED <<next, attempt>>
       ELSE pc' = "node" /\ attempt' = 1 /\ next' = "retrieve_records"
    /\ UNCHANGED <<storeVars, business, faultVars, runs, bounds>>

\* A retained rejection or a finished graph answers at once; otherwise the
\* graph is invoked, on its input or on the pending node.
Resume ==
    /\ pc = "resuming"
    /\ IF retained THEN pc' = "failed" /\ UNCHANGED <<next, attempt>>
       ELSE IF next = "end" THEN pc' = "complete" /\ UNCHANGED <<next, attempt>>
       ELSE /\ pc' = "node" /\ attempt' = 1
            /\ next' = IF next = "none" THEN "retrieve_records" ELSE next
    /\ UNCHANGED <<storeVars, business, faultVars, runs, bounds>>

\* The event a tool begins with; finish calls no tool.
EnterNode ==
    /\ pc = "node"
    /\ IF next = "finish"
         THEN pc' = "storing" /\ UNCHANGED attempts
         ELSE pc' = "boundary" /\ attempts' = [attempts EXCEPT ![next] = @ + 1]
    /\ UNCHANGED <<storeVars, next, records, complete, rejected, retained, faultVars,
                   attempt, runs, bounds>>

\* faults.apply(name, "before")
Before ==
    /\ pc = "boundary"
    /\ \E outcome \in Faults!Outcomes :
        /\ Faults!Apply(next, "before", outcome)
        /\ \/ /\ outcome = "none"
              /\ pc' = IF next \in {"commit_artifact", "export_artifact"}
                         THEN "acting" ELSE "acknowledging"
           \/ outcome = "retryable" /\ pc' = "retrying"
           \/ outcome = "interrupted" /\ pc' = "interrupted"
           \/ outcome = "permanent" /\ pc' = "rejecting"
    /\ UNCHANGED <<storeVars, next, business, attempt, runs, bounds>>

Commit ==
    /\ pc = "acting" /\ next = "commit_artifact"
    /\ CommitArtifact
    /\ pc' = "acknowledging"
    /\ UNCHANGED <<next, business, faultVars, attempt, runs, bounds>>

CheckFile ==
    /\ pc = "acting" /\ next = "export_artifact"
    /\ IF Exists
         THEN pc' = "comparing" /\ UNCHANGED storeVars
         ELSE pc' = "writing" /\ OpenTemporary
    /\ UNCHANGED <<next, business, faultVars, attempt, runs, bounds>>

\* A file removed after it was found escapes the graph as FileNotFoundError.
ReadFile ==
    /\ pc = "comparing"
    /\ \/ ~Exists /\ pc' = "error" /\ UNCHANGED storeVars
       \/ Materialized /\ pc' = "acknowledging" /\ UNCHANGED storeVars
       \/ Exists /\ ~Materialized /\ pc' = "writing" /\ OpenTemporary
    /\ UNCHANGED <<next, business, faultVars, attempt, runs, bounds>>

WriteFile ==
    /\ pc = "writing"
    /\ ReplaceTarget
    /\ pc' = "acknowledging"
    /\ UNCHANGED <<next, business, faultVars, attempt, runs, bounds>>

\* An OSError is no RetryableFault: it escapes the graph and the adapter.
FailWrite ==
    /\ pc = "writing"
    /\ errors < Operated.errors
    /\ errors' = errors + 1
    /\ DropTemporary
    /\ pc' = "error"
    /\ UNCHANGED <<next, business, faultVars, attempt, runs, setting, mode, crashes>>

\* faults.apply(name, "after", result) and the validation of the result.
After ==
    /\ pc = "acknowledging"
    /\ \E outcome \in Faults!Outcomes :
        /\ Faults!Apply(next, "after", outcome)
        /\ \/ outcome = "none" /\ pc' = "storing"
           \/ outcome \in {"retryable", "malformed"} /\ pc' = "retrying"
           \/ outcome = "interrupted" /\ pc' = "interrupted"
    /\ UNCHANGED <<storeVars, next, business, attempt, runs, bounds>>

\* Seeded bug: max_attempts is one too few.
RetryOnceLess ==
    /\ pc = "retrying"
    /\ IF attempt + 1 >= MaxAttempts
         THEN pc' = "rejecting" /\ UNCHANGED attempt
         ELSE pc' = "node" /\ attempt' = attempt + 1
    /\ UNCHANGED <<storeVars, next, business, faultVars, runs, bounds>>

\* RetryPolicy runs the node again, or lets the last RetryableFault escape.
Retry ==
    /\ pc = "retrying"
    /\ IF attempt = MaxAttempts
         THEN pc' = "rejecting" /\ UNCHANGED attempt
         ELSE pc' = "node" /\ attempt' = attempt + 1
    /\ UNCHANGED <<storeVars, next, business, faultVars, runs, bounds>>

\* store.put in the retrieve and finish nodes.
Store ==
    /\ pc = "storing"
    /\ records' = (records \/ next = "retrieve_records")
    /\ complete' = (complete \/ next = "finish")
    /\ pc' = "returning"
    /\ UNCHANGED <<storeVars, next, rejected, retained, attempts, faultVars, attempt,
                   runs, bounds>>

\* The node returned: LangGraph persists its output and goes on.
Checkpoint ==
    /\ pc = "returning"
    /\ next' = Following[next]
    /\ pc' = IF next = "finish" THEN "complete" ELSE "node"
    /\ attempt' = 1
    /\ UNCHANGED <<storeVars, business, faultVars, runs, bounds>>

\* except (PermanentFault, RetryableFault): the event ...
Reject ==
    /\ pc = "rejecting"
    /\ rejected' = TRUE
    /\ pc' = "retaining"
    /\ UNCHANGED <<storeVars, next, records, complete, retained, attempts, faultVars,
                   attempt, runs, bounds>>

\* Seeded bug: the receipt of a rejection is not stored.
RetainNothing ==
    /\ pc = "retaining"
    /\ pc' = "failed"
    /\ UNCHANGED <<storeVars, next, business, faultVars, attempt, runs, bounds>>

\* ... and, in a transaction of its own, the receipt.
Retain ==
    /\ pc = "retaining"
    /\ retained' = TRUE
    /\ pc' = "failed"
    /\ UNCHANGED <<storeVars, next, records, complete, rejected, attempts, faultVars,
                   attempt, runs, bounds>>

-----------------------------------------------------------------------------
(* The supervisor and the environment                                        *)

\* Seeded bug: a new process starts with an empty fault journal.
RerunForgetful ==
    /\ pc \in Operated.rerun
    /\ runs < Operated.runs
    /\ pc' = "idle"
    /\ calls' = [i \in Faults!Rules |-> 0]
    /\ UNCHANGED <<storeVars, next, business, binding, journal, attempt, runs, bounds>>

\* LangGraphAdapter.execute repeats an interrupted invocation once; an operator
\* may repeat the langgraph-worker command after any end.
Rerun ==
    /\ pc \in Operated.rerun
    /\ runs < Operated.runs
    /\ pc' = "idle"
    /\ UNCHANGED <<storeVars, next, business, faultVars, attempt, runs, bounds>>

Kill ==
    /\ pc \notin Ended \union {"idle"}
    /\ crashes < Operated.crashes
    /\ crashes' = crashes + 1
    /\ pc' = "killed"
    /\ UNCHANGED <<storeVars, next, business, faultVars, attempt, runs, setting, mode, errors>>

Damage ==
    /\ damages < Operated.damages
    /\ DamageFile
    /\ UNCHANGED <<next, business, faultVars, pc, attempt, runs, bounds>>

Step ==
    \/ Start \/ Resume \/ EnterNode \/ Before \/ Commit \/ CheckFile \/ ReadFile \/ WriteFile
    \/ After \/ Retry \/ Store \/ Checkpoint \/ Reject \/ Retain

Next == Step \/ FailWrite \/ Rerun \/ Kill \/ Damage

Spec == Init /\ [][Next]_vars

\* The graph runs on unless it is killed, and the command is repeated.
FairSpec == Spec /\ WF_vars(Step) /\ WF_vars(Rerun)

-----------------------------------------------------------------------------
(* LangGraphAdapter.assess                                                   *)

Finished == pc \in Ended /\ ~(pc \in Operated.rerun /\ runs < Operated.runs)

\* The receipt of a finished graph is the one finish returned.
Completed ==
    /\ pc = "complete" /\ next = "end"
    /\ artifact /\ commits = 1 /\ records
    /\ Materialized
    /\ complete
    /\ mode = "normal"

SafelyRejected ==
    /\ pc = "failed" /\ next # "none"
    /\ ~artifact /\ file = "absent"
    /\ ~complete
    /\ rejected

-----------------------------------------------------------------------------
(* Properties                                                                *)

\* Type correctness of both databases, the directory and the invocation.
TypeOK ==
    /\ StoreTypeOK
    /\ Faults!TypeOK
    /\ setting \in DOMAIN Settings
    /\ mode \in Operated.modes
    /\ next \in Nodes \union {"none", "end"}
    /\ {records, complete, rejected, retained} \subseteq BOOLEAN
    /\ attempts \in [Tools -> Nat]
    /\ pc \in States
    /\ attempt \in 0..MaxAttempts
    /\ runs \in 0..Operated.runs
    /\ crashes \in 0..Operated.crashes
    /\ errors \in 0..Operated.errors
    /\ damages <= Operated.damages

\* Replaying a committed node is harmless: the graph keeps the artifact promise
\* although its checkpoint and the business state commit separately.
Promise == INSTANCE ArtifactPromise WITH damaged <- damages > 0

PromiseSpec == Promise!Spec

\* The graph checkpoint never runs ahead of the business state it stands for:
\* a completed node's effects are durable when its output is (sync durability,
\* the order of put and return in each node).
CheckpointBacked ==
    /\ next \in Nodes \ {"retrieve_records"} => records
    /\ next \in {"export_artifact", "finish", "end"} => commits = 1
    /\ next \in {"finish", "end"} => Materialized \/ damages > 0
    /\ next = "end" => complete

\* A tool is attempted again only for a reason: an injection at its boundary, a
\* kill, a failed write or a file removed under export(); a restart never
\* repeats a node it had completed.
Injected(t) == {k \in DOMAIN journal : binding[journal[k].rule].tool = t}
Disturbances(t) == crashes + errors + (IF t = "export_artifact" THEN damages ELSE 0)
AttemptsExplained ==
    \A t \in Tools : attempts[t] <= 1 + Cardinality(Injected(t)) + Disturbances(t)

\* The invariant of the graph: types, the two databases' agreement and attempts.
GraphInv == TypeOK /\ CheckpointBacked /\ AttemptsExplained

\* An invocation of a finished graph calls no tool and changes no business
\* state: it returns the receipt of the checkpoint.
ReplayIsNoop ==
    [][next = "end" => next' = "end" /\ UNCHANGED <<business, calls, commits, temps>>]_vars

\* "Terminal rejection is retained rather than resetting its retry budget on
\* the next CLI invocation": after an execution was logged as rejected, no
\* tool is attempted any more (docs/langgraph.md).
RejectionRetained == [][rejected => UNCHANGED attempts]_vars

\* What the code does keep: no tool is attempted after the receipt was stored,
\* and, unless a process was killed, none after the event.
RejectionFinal ==
    [][(retained \/ (rejected /\ crashes = 0)) => UNCHANGED attempts]_vars

\* What is settled stays settled, for every later invocation.
SettledIsFinal == ReplayIsNoop /\ RejectionFinal

\* Only the schedule acted on the task.
Undisturbed == crashes = 0 /\ errors = 0 /\ damages = 0

Hits(t, outcomes) == Faults!Hits(t, "before", outcomes) + Faults!Hits(t, "after", outcomes)

\* How often the schedule ends an invocation.
Interruptions ==
    Hits("retrieve_records", {"interrupted"}) + Hits("build_artifact", {"interrupted"})
    + Hits("commit_artifact", {"interrupted"}) + Hits("export_artifact", {"interrupted"})

\* Retries count within one invocation, so interruptions only use up restarts.
Tolerable ==
    /\ \A t \in Tools : Hits(t, {"permanent"}) = 0
    /\ \A t \in Tools : Hits(t, {"retryable", "malformed"}) < MaxAttempts
    /\ Interruptions < IF "interrupted" \in Operated.rerun THEN Operated.runs ELSE 1

\* Under every schedule the budgets can absorb, the oracle finds the task
\* completed, except in the control whose graph returns a wrong receipt.
BudgetSuffices ==
    (Tolerable /\ Undisturbed /\ Finished) => (Completed <=> mode = "normal")

\* A rejected task is called safe exactly when the faults that ended it struck
\* before the commit.
RejectionVerdict ==
    (Undisturbed /\ Finished /\ pc = "failed") =>
        (SafelyRejected <=> LateFaults(binding, journal) = {})

\* What the oracle finds is what happened, as long as only faults did.
OracleVerdict == BudgetSuffices /\ RejectionVerdict

\* A task whose command is repeated ends with a finished graph or a retained
\* rejection, under every schedule.
EventuallySettled == Patient(Operated, binding) => <>(next = "end" \/ retained)
=============================================================================

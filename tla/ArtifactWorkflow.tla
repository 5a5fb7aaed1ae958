--------------------------- MODULE ArtifactWorkflow ---------------------------
(* run_workflow of src/agent_reliability/artifacts.py under its supervisor:    *)
(* four tools at fault boundaries, each retried at most three times, with a    *)
(* durable checkpoint of the records, the content and the completion.  Several *)
(* workers may run it over one directory and may be killed anywhere.           *)
EXTENDS ArtifactStore, FaultSchedule

CONSTANTS
    Workers,
    NoSchedule, MaxRules,   \* see FaultJournal
    MaxAttempts,            \* range(3) in tool()
    Settings                \* the ways the task is operated, by name

Schedules == UNION {Settings[k].schedules : k \in DOMAIN Settings}

ASSUME WorkflowAssumption ==
    /\ MaxRules \in Nat
    /\ MaxAttempts \in Nat \ {0}
    /\ IsFiniteSet(Workers)
    /\ \A k \in DOMAIN Settings :
        IsSetting(Settings[k]) /\ Settings[k].workers \subseteq Workers
    /\ NoSchedule \notin Schedules
    /\ \A s \in Schedules : IsSchedule(s, MaxRules)

\* One worker, not started again after completion: ArtifactAdapter.execute, or an
\* operator who repeats artifact-worker until its task is done.
Supervised(s) ==
    /\ \A v, w \in s.workers : v = w
    /\ "complete" \notin s.rerun

VARIABLES
    setting,
    records, content, complete,     \* checkpoints in the state table
    rejected,                       \* an execution_rejected event exists
    binding, calls, journal,        \* the fault journal, see FaultJournal
    pc, stage, attempt, runs,       \* each worker's run
    crashes, errors

checkpoints == <<records, content, complete>>
faultVars == <<binding, calls, journal>>
bounds == <<setting, crashes, errors>>
vars == <<artifact, commits, file, temps, damages, records, content, complete, rejected,
          binding, calls, journal, pc, stage, attempt, runs, setting, crashes, errors>>

Operated == Settings[setting]

Faults == INSTANCE FaultJournal

Tools == {"retrieve_records", "build_artifact", "commit_artifact", "export_artifact"}
Following == [retrieve_records |-> "build_artifact",
              build_artifact   |-> "commit_artifact",
              commit_artifact  |-> "export_artifact"]

States == Ended \union {"idle", "entering", "boundary", "acting", "comparing", "writing",
                        "acknowledging", "retrying", "saving", "rejecting"}

Goto(w, s) == pc' = [pc EXCEPT ![w] = s]

Init ==
    /\ StoreInit
    /\ records = FALSE /\ content = FALSE /\ complete = FALSE
    /\ rejected = FALSE
    /\ setting \in DOMAIN Settings
    /\ binding \in {s \in Operated.schedules : DistinctTargets(s)}
    /\ calls = [i \in Faults!Rules |-> 0]
    /\ journal = <<>>
    /\ pc = [w \in Workers |-> "idle"]
    /\ stage = [w \in Workers |-> "retrieve_records"]
    /\ attempt = [w \in Workers |-> 0]
    /\ runs = [w \in Workers |-> 0]
    /\ crashes = 0
    /\ errors = 0

-----------------------------------------------------------------------------
(* run_workflow.  Every directory is bound to the one task configuration.     *)

Start(w) ==
    /\ pc[w] = "idle" /\ w \in Operated.workers
    /\ runs[w] < Operated.runs
    /\ runs' = [runs EXCEPT ![w] = @ + 1]
    /\ stage' = [stage EXCEPT ![w] = "retrieve_records"]
    /\ Goto(w, "entering")
    /\ UNCHANGED <<storeVars, checkpoints, rejected, faultVars, attempt, bounds>>

\* Is the stage's output already checkpointed?
Saved(t) ==
    \/ t = "retrieve_records" /\ records
    \/ t = "build_artifact" /\ content

\* Skip a checkpointed stage, or call its tool.
Enter(w) ==
    /\ pc[w] = "entering"
    /\ IF Saved(stage[w])
         THEN /\ stage' = [stage EXCEPT ![w] = Following[stage[w]]]
              /\ UNCHANGED <<pc, attempt>>
         ELSE /\ attempt' = [attempt EXCEPT ![w] = 1]
              /\ Goto(w, "boundary")
              /\ UNCHANGED stage
    /\ UNCHANGED <<storeVars, checkpoints, rejected, faultVars, runs, bounds>>

\* faults.apply(name, "before").  Retrieval and building have no effects.
Before(w) ==
    /\ pc[w] = "boundary"
    /\ \E outcome \in Faults!Outcomes :
        /\ Faults!Apply(stage[w], "before", outcome)
        /\ \/ /\ outcome = "none"
              /\ Goto(w, IF stage[w] \in {"commit_artifact", "export_artifact"}
                           THEN "acting" ELSE "acknowledging")
           \/ outcome = "retryable" /\ Goto(w, "retrying")
           \/ outcome = "interrupted" /\ Goto(w, "interrupted")
           \/ outcome = "permanent" /\ Goto(w, "rejecting")
    /\ UNCHANGED <<storeVars, checkpoints, rejected, stage, attempt, runs, bounds>>

Commit(w) ==
    /\ pc[w] = "acting" /\ stage[w] = "commit_artifact"
    /\ CommitArtifact
    /\ Goto(w, "acknowledging")
    /\ UNCHANGED <<checkpoints, rejected, faultVars, stage, attempt, runs, bounds>>

\* export(): target.exists() ...
CheckFile(w) ==
    /\ pc[w] = "acting" /\ stage[w] = "export_artifact"
    /\ IF Exists
         THEN Goto(w, "comparing") /\ UNCHANGED storeVars
         ELSE Goto(w, "writing") /\ OpenTemporary
    /\ UNCHANGED <<checkpoints, rejected, faultVars, stage, attempt, runs, bounds>>

\* ... and the comparison with the committed bytes; the FileNotFoundError of a
\* file removed in between escapes the workflow.
ReadFile(w) ==
    /\ pc[w] = "comparing"
    /\ \/ ~Exists /\ Goto(w, "error") /\ UNCHANGED storeVars
       \/ Materialized /\ Goto(w, "acknowledging") /\ UNCHANGED storeVars
       \/ Exists /\ ~Materialized /\ Goto(w, "writing") /\ OpenTemporary
    /\ UNCHANGED <<checkpoints, rejected, faultVars, stage, attempt, runs, bounds>>

WriteFile(w) ==
    /\ pc[w] = "writing"
    /\ ReplaceTarget
    /\ Goto(w, "acknowledging")
    /\ UNCHANGED <<checkpoints, rejected, faultVars, stage, attempt, runs, bounds>>

\* The write, fsync or rename fails; the OSError escapes the workflow.
FailWrite(w) ==
    /\ pc[w] = "writing"
    /\ errors < Operated.errors
    /\ errors' = errors + 1
    /\ DropTemporary
    /\ Goto(w, "error")
    /\ UNCHANGED <<checkpoints, rejected, faultVars, stage, attempt, runs, setting, crashes>>

\* faults.apply(name, "after", result) and the validation of the result.
After(w) ==
    /\ pc[w] = "acknowledging"
    /\ \E outcome \in Faults!Outcomes :
        /\ Faults!Apply(stage[w], "after", outcome)
        /\ \/ outcome = "none" /\ Goto(w, "saving")
           \/ outcome \in {"retryable", "malformed"} /\ Goto(w, "retrying")
           \/ outcome = "interrupted" /\ Goto(w, "interrupted")
    /\ UNCHANGED <<storeVars, checkpoints, rejected, stage, attempt, runs, bounds>>

\* Seeded bug: one attempt too few.
RetryOnceLess(w) ==
    /\ pc[w] = "retrying"
    /\ IF attempt[w] + 1 >= MaxAttempts
         THEN Goto(w, "rejecting") /\ UNCHANGED attempt
         ELSE Goto(w, "boundary") /\ attempt' = [attempt EXCEPT ![w] = @ + 1]
    /\ UNCHANGED <<storeVars, checkpoints, rejected, faultVars, stage, runs, bounds>>

\* except RetryableFault, and the exhausted budget.
Retry(w) ==
    /\ pc[w] = "retrying"
    /\ IF attempt[w] = MaxAttempts
         THEN Goto(w, "rejecting") /\ UNCHANGED attempt
         ELSE Goto(w, "boundary") /\ attempt' = [attempt EXCEPT ![w] = @ + 1]
    /\ UNCHANGED <<storeVars, checkpoints, rejected, faultVars, stage, runs, bounds>>

\* store.put of the tool's result; the last one is the receipt.
Save(w) ==
    LET t == stage[w]
    IN  /\ pc[w] = "saving"
        /\ records' = (records \/ t = "retrieve_records")
        /\ content' = (content \/ t = "build_artifact")
        /\ complete' = (complete \/ t = "export_artifact")
        /\ IF t = "export_artifact"
             THEN Goto(w, "complete") /\ UNCHANGED stage
             ELSE /\ stage' = [stage EXCEPT ![w] = Following[t]]
                  /\ Goto(w, "entering")
        /\ UNCHANGED <<storeVars, rejected, faultVars, attempt, runs, bounds>>

\* except PermanentFault
Reject(w) ==
    /\ pc[w] = "rejecting"
    /\ rejected' = TRUE
    /\ Goto(w, "failed")
    /\ UNCHANGED <<storeVars, checkpoints, faultVars, stage, attempt, runs, bounds>>

-----------------------------------------------------------------------------
(* The supervisor and the environment                                        *)

\* Seeded bug: a restart forgets how many calls the schedule has seen.
RerunForgetful(w) ==
    /\ pc[w] \in Operated.rerun
    /\ runs[w] < Operated.runs
    /\ Goto(w, "idle")
    /\ attempt' = [attempt EXCEPT ![w] = 0]
    /\ calls' = [i \in Faults!Rules |-> 0]
    /\ UNCHANGED <<storeVars, checkpoints, rejected, binding, journal, stage, runs, bounds>>

\* ArtifactAdapter.execute restarts an interrupted run; an operator may repeat
\* the artifact-worker command after any end.
Rerun(w) ==
    /\ pc[w] \in Operated.rerun
    /\ runs[w] < Operated.runs
    /\ Goto(w, "idle")
    /\ attempt' = [attempt EXCEPT ![w] = 0]
    /\ UNCHANGED <<storeVars, checkpoints, rejected, faultVars, stage, runs, bounds>>

\* SIGKILL: no `finally` block runs.
Kill(w) ==
    /\ pc[w] \notin Ended \union {"idle"}
    /\ crashes < Operated.crashes
    /\ crashes' = crashes + 1
    /\ Goto(w, "killed")
    /\ UNCHANGED <<storeVars, checkpoints, rejected, faultVars, stage, attempt, runs,
                   setting, errors>>

Damage ==
    /\ damages < Operated.damages
    /\ DamageFile
    /\ UNCHANGED <<checkpoints, rejected, faultVars, pc, stage, attempt, runs, bounds>>

Step(w) ==
    \/ Start(w) \/ Enter(w) \/ Before(w) \/ Commit(w) \/ CheckFile(w) \/ ReadFile(w)
    \/ WriteFile(w)    \/ After(w) \/ Retry(w) \/ Save(w) \/ Reject(w)

Next ==
    \/ \E w \in Workers : Step(w) \/ FailWrite(w) \/ Rerun(w) \/ Kill(w)
    \/ Damage

Spec == Init /\ [][Next]_vars

\* Runs go on unless they are killed, and are started again when they ended.
FairSpec == Spec /\ \A w \in Workers : WF_vars(Step(w)) /\ WF_vars(Rerun(w))

-----------------------------------------------------------------------------
(* assess_artifacts                                                          *)

\* Nobody will start this worker's task again.
Finished(w) == pc[w] \in Ended /\ ~(pc[w] \in Operated.rerun /\ runs[w] < Operated.runs)

Completed(w) ==
    /\ pc[w] = "complete"
    /\ artifact /\ commits = 1
    /\ records
    /\ Materialized
    /\ complete

\* The adapter's receipt is "failed" after a rejection and after too many
\* interruptions.
SafelyRejected(w) ==
    /\ pc[w] \in {"failed", "interrupted"}
    /\ ~artifact /\ file = "absent"
    /\ ~complete
    /\ rejected

-----------------------------------------------------------------------------
(* Properties                                                                *)

\* Type correctness of the tables, the directory and the runs.
TypeOK ==
    /\ StoreTypeOK
    /\ Faults!TypeOK
    /\ setting \in DOMAIN Settings
    /\ {records, content, complete, rejected} \subseteq BOOLEAN
    /\ pc \in [Workers -> States]
    /\ stage \in [Workers -> Tools]
    /\ attempt \in [Workers -> 0..MaxAttempts]
    /\ runs \in [Workers -> 0..Operated.runs]
    /\ crashes \in 0..Operated.crashes
    /\ errors \in 0..Operated.errors
    /\ damages <= Operated.damages

\* The workflow keeps the promise through retries, kills between any two
\* steps, concurrent workers and damage to the exported file: one commit, a
\* file that never shows anything but committed bytes, and completion only
\* after publication.
Promise == INSTANCE ArtifactPromise WITH damaged <- damages > 0

PromiseSpec == Promise!Spec

\* A temporary file outlives its export only if its worker was killed: the
\* `finally` in export() removes it on every other path.
TempsAccounted ==
    temps <= crashes + Cardinality({w \in Workers : pc[w] = "writing"})

\* Neither ValueError of the store can reach a worker: whenever one exports,
\* the artifact is committed, and the checkpoints it skipped over are those of
\* earlier stages (the order of puts in run_workflow).
StagesBacked ==
    \A w \in Workers : pc[w] \notin Ended \union {"idle", "entering"} =>
        /\ stage[w] = "export_artifact" => artifact
        /\ stage[w] \in {"commit_artifact", "export_artifact"} => content
        /\ stage[w] # "retrieve_records" => records

\* An exception that no handler of the workflow expects has a cause outside it:
\* a failed write, or a file removed after export() found it.
ErrorsExplained ==
    \A w \in Workers : pc[w] = "error" => errors > 0 \/ damages > 0

\* The invariant of the task: types, temporary files, stages and exceptions.
WorkflowInv == TypeOK /\ TempsAccounted /\ StagesBacked /\ ErrorsExplained

\* Only the schedule acted on the task.
Undisturbed == crashes = 0 /\ errors = 0 /\ damages = 0

\* How often the schedule hits tool t with one of these outcomes.
Hits(t, outcomes) == Faults!Hits(t, "before", outcomes) + Faults!Hits(t, "after", outcomes)

\* How often the schedule ends a run.
Interruptions ==
    Hits("retrieve_records", {"interrupted"}) + Hits("build_artifact", {"interrupted"})
    + Hits("commit_artifact", {"interrupted"}) + Hits("export_artifact", {"interrupted"})

\* Faults that the retries of each tool and the restarts can absorb.
Tolerable ==
    /\ \A t \in Tools : Hits(t, {"permanent"}) = 0
    /\ \A t \in Tools : Hits(t, {"retryable", "malformed"}) < MaxAttempts
    /\ Interruptions < IF "interrupted" \in Operated.rerun THEN Operated.runs ELSE 1

\* Under every schedule that the budgets can absorb the task completes, and
\* the oracle agrees: a restart continues from the checkpoints and neither
\* repeats the commit nor misses the file.
BudgetSuffices ==
    (Tolerable /\ Undisturbed) => \A w \in Workers : Finished(w) => Completed(w)

\* The oracle calls a rejected task safe exactly when the faults that ended it
\* struck before the commit: a rejection after the side effect is exposed.
RejectionVerdict ==
    Undisturbed => \A w \in Workers : (Finished(w) /\ pc[w] = "failed") =>
        (SafelyRejected(w) <=> LateFaults(binding, journal) = {})

\* What the oracle finds is what happened, as long as only faults did and they
\* struck one worker on its way to the completion.
OracleVerdict ==
    (Supervised(Operated) \/ binding = <<>>) => BudgetSuffices /\ RejectionVerdict

\* A task that is started again after every end completes, whatever the
\* schedule: the injections already delivered are not delivered again.
EventuallyComplete == Patient(Operated, binding) => <>complete
=============================================================================

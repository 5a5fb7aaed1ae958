# Verification of agent-reliability-harness

The harness runs small agent applications under controlled faults and grades
what they did from durable state, not from what they say. Its value rests on a
few pieces of code being right under retries, interruptions, concurrent
processes and kills. This directory models those pieces in TLA+, checks them
with TLC on small instances, and proves the central results with TLAPS for every
value of the constants. All paths below are relative to `src/agent_reliability/`.

## 1. The system

| Component | State | Operations | Interacts with |
|---|---|---|---|
| Fault engine (`faults.py`) | `binding`, `calls`, `faults` tables | construct and bind a schedule, `apply(tool, phase)`, `events`, `covered` | called at every tool boundary, read by the suite runner |
| Refund store (`store.py`) | `orders`, `refunds`, `operations`, `state`, `events` tables | `seed`, `lookup`, `refund`, `get`/`set`, `consume_fault` | called by the gateway, read by the graders |
| Refund gateway (`runtime.py`, `scenarios.py`) | none of its own; checkpoint and one-shot fault in the store | `_invoke`, `issue_refund` with retries, `run_scripted` | fault engine or scenario fault, store |
| Adapters (`adapters.py`) | one case directory | `execute` with one restart, `assess` | suite runner, gateway, artifact workflow |
| Worker command (`cli.py`) | the `worker_config` row | check and write the configuration, run once | operator, store |
| Artifact workflow (`artifacts.py`) | `artifacts` row, stage checkpoints, events, `summary.json` | four tools, `commit`, `export`, `run_workflow`, the oracle | fault engine, adapter |
| LangGraph workflow (`langgraph_adapter.py`) | the same, and graph checkpoints in a second database | five nodes, resumption, retained rejections, the oracle | LangGraph, fault engine, artifact store |
| HTTP charge service (`http_adapter.py`) | ledger, service log, fault journal, `ready.json` | start-up, threaded `POST /charges`, clients with retries, terminate, the oracle | fault engine, triage |
| Triage (`triage.py`, `triage_eval.py`) | none | bundle a finished case, `diagnose`, check a model's proposal | reads the HTTP case |
| Suite runner (`suite.py`, `contracts.py`) | rows of the report | a deadline around each adapter, verdict, evidence | adapters, fault engine |
| Catalog (`catalog.py`) | none | the cases with their expected outcomes | suite runner |
| Refund experiment (`experiment.py`) | one directory per case | `run_case` with one restart, `grade` | gateway, ADK agent |
| ADK agent (`adk_adapter.py`) | the interruption flag and calls of a run; the checkpoint | `run_adk`: a model asks for tool calls until it answers | gateway, store, an external model |
| Code validation (`code_validation.py`) | a snapshot of gate results; containers and an image | snapshot, patch policy, staging, one container per gate, cleanup, the grader | git, an external docker daemon |
| CreatorPal, telemetry, state benchmark, reports, scripts | see section 8 | | |

Hard behaviours:

- *Concurrency.* Worker processes share a SQLite file; service threads and
  clients share a ledger; an adapter thread outlives its deadline. Everything
  depends on which statements share one `BEGIN IMMEDIATE` transaction.
- *Failure.* A process is killed between a commit and what should follow it: the
  raise of a recorded fault, a checkpoint, an audit line, the receipt of a
  rejection.
- *Delivery.* Acknowledgements are lost or malformed after a commit, a client
  stops waiting for a handler that commits later, and everyone retries.
- *Budgets.* Three attempts and two runs, over schedules whose windows count
  calls across retries and restarts.
- *Cleanup.* A command that is killed by its timeout may still be served by the
  daemon, after the cleanup blocks have run.
- *Judgement.* The oracles must pass good runs and fail bad ones in every
  interleaving, and a diagnosis must not say more than its evidence.

`PROJECT.json` lists each of these as a hazard at the line where it bites, with
the properties aimed at it.

## 2. Modules

    FaultSchedule            rules, windows, outcomes (no state)
      FaultJournal           abstract: bind and claim are single steps
        FaultEngine          the transactions of faults.py; implements FaultJournal
          FaultEngineProofs
      RefundLedger           abstract: refund() is a single step
        RefundStore          the transaction of store.py; implements RefundLedger
          RefundStoreProofs
      RefundOnce             abstract: pay at most once, receipts only for that
        RefundService        gateway, worker, checkpoint; uses FaultJournal and
                                 RefundLedger; guarded mode implements RefundOnce
          RefundExperiment   run_case with the scripted or the ADK agent
            RefundServiceProofs  the service and the experiment
      ArtifactPromise        abstract: commit once, publish whole, then complete
        ArtifactStore        artifacts row and summary.json
          ArtifactWorkflow   run_workflow;     implements ArtifactPromise
            ArtifactWorkflowProofs
          LangGraphRun       the graph;        implements ArtifactPromise
            LangGraphProofs
      ChargeLedger           abstract: an attempt is replayed or charged in a single step
        HttpCharge           start-up, service, clients, termination, oracle;
                                 implements ChargeLedger
        Triage               diagnose() and the gate on proposals, pure
        HttpIncident         HttpCharge observed by triage
          HttpProofs         the service and the diagnosis
      SuiteRunner            run_matrix over abstract adapters
        SuiteRunnerProofs
      CodeValidation         one candidate against policy, image and gates
        CodeValidationProofs
      WorkerBinding          the configuration check of `worker`

The composition is by layers. `FaultEngine` and `RefundStore` take SQLite
statement by statement and are shown to implement `FaultJournal` and
`RefundLedger`, where a call is one step. The modules above use `FaultJournal`'s
`Apply` and `RefundLedger`'s `Refund` as those single steps, so their
interleavings are over calls, checkpoints, files and kills.

How code corresponds to the model:

- **Program counters.** `pc[w]` (or `at`, `client`) is the place in the code
  after the last durable effect or observable decision. Each action covers the
  statements up to the next one. A `with db` block is a lock, reads, and a commit
  or rollback in the two transaction modules, and one step elsewhere.
- **Kills** drop a worker's program counter and locals. Open transactions roll
  back; `finally` blocks do not run.
- **Identifiers.** uuid ids are positions in the table; payload hashes are the
  payloads. A result carries the row that it names and whether it states the
  authorised order and amount (`terms`): `Valid` is the gateway's check of the
  receipt's own fields, which never looks at the tables, and `Backed` the graders'
  lookup of the row. That a valid receipt is backed, by a row of exactly those
  terms, is a property (`ReceiptsGrounded`).
- **`FaultEngine`.** `Construct`, `BeginBinding`, `FinishBinding` are `__init__`;
  `Call`, `BeginClaim`, `CountCall`, `CommitClaim`, `Raise` are `apply`; `GiveUp`
  is the ten-second busy timeout. `raised` and `lost` are history: which
  injections an application saw, and which died with their worker.
- **`RefundStore`.** `Reject`, `Begin`, `Decide`, `Commit`, `Reply` follow
  `refund()`; `Verdict` keeps the order of its checks. `answers` is history.
- **`RefundService`.** `Start`, `Lookup`, `Before` or `ConsumeFault`, `Refund`,
  `After` or `AfterArmed`, `Retry`, `Record` follow `run_scripted`,
  `issue_refund` and `_invoke`. A bound schedule is the suite's path; no schedule
  with a scenario fault is the path of `experiment.py` and `worker`. `Rerun` is
  the restart loop or the operator. `told` is history: results given to callers.
- **`RefundExperiment`.** `turn` says who acts in an ADK run: the model, which
  `Respond`s with tool calls, an answer, or nothing; the tools, whose calls are
  `RefundService`'s own actions; or the end of the run. `asked` counts the calls
  still to be made of one response and `interrupted` is the flag of `run_adk`,
  which is looked at before the next response only. The scripted agent takes
  `RefundService`'s actions alone.
- **`ArtifactWorkflow`, `LangGraphRun`.** `stage` (or the checkpoint `next`) names
  the tool; `CheckFile` (does the file exist), `ReadFile` (compare it, or fail if it
  is gone by now), `WriteFile` and `FailWrite` are `export()`. In the graph a
  node's effect, its return and the persisted checkpoint are separate steps, and
  so are the two transactions that log and retain a rejection.
- **`HttpCharge`.** `ready` is the service's half of the start-up and `adapter`
  the place of `_execute`: the service announces itself or dies, the adapter
  discovers it or gives up. Then one handler per attempt, alive after its client
  left; `Terminate` freezes all of them. Events are a set of records. An attempt
  counts as decided (`Decided`) from the commit of its handler, and a client as
  answered (`Told`) from its receipt.
- **`Triage`.** A bundle is what a finished case leaves: receipts, the effects in
  the ledger and any part of the log. `Diagnose` keeps the order of `diagnose()`;
  `Proofs` are the citations that establish a label, and `Validated` is
  `validate_prediction`.
- **`CodeValidation`.** One action per git or docker command and the lines that
  look at its return code. The host knows return codes; the daemon (`containers`,
  `staged`, `image`) is external. A command that goes wrong was served, was not, or
  stays in `requests` and is served later. `mishaps` and `ran` are history.
  `regular` says whether the commit holds regular files only: `_snapshot` refuses
  any other one with an exception, before the policy and outside its `try`.
- **`SuiteRunner`.** An adapter claims faults while it runs and then returns any
  valid assessment or raises: what `contracts.py` lets it do. Adapters are
  blocking, threaded (`asyncio.to_thread`) or cooperative coroutines; only the
  last kind is stopped by its deadline. A case has any tuple of rules and a journal
  entry for each of them. An assessment may hold a receipt or checks that JSON
  cannot (`storable`), and `Save` then ends the run: `result.json` is written
  outside the block that catches exceptions.

- **Outside the code.** `Kill`, `Damage` and `Stall` are the operating system, whoever
  else writes a directory, and a lock that SQLite does not grant in time. `PROJECT.json`
  maps them as external; what they do is what the code's handling of them implies.

Operators commented *Seeded bug* are mutated forms of code, kept out of every
specification. Each property is paired in `PROJECT.json` with one that breaks it.

## 3. What the runs show

| Run | Instance and bounds | Shows |
|---|---|---|
| `fault_engine` | 2 workers, 3 schedules (one conflicts, one is malformed), 2 calls each, 2 kills | windows exact, one schedule, deliveries accounted, refinement of `FaultJournal`, no call waits for ever |
| `refund_store` | 2 clients, 7 requests, 4 calls, 2 kills | balance, one refund per key, truthful answers, refinement of `RefundLedger` |
| `refund_verdicts` | 1 worker in either mode, 3 attempts, 2 runs, two tenants. Scripted agent: every schedule of at most one rule per phase with occurrence and repeat in 1..3, every scenario fault. ADK agent: every scenario fault, 8 responses of at most 2 refund calls each, any answer or none | scripted: guarded completes when its budgets can absorb the faults, denials are explained; baseline fails exactly when it should, with as many duplicates as lost acknowledgements. ADK: one refund in guarded mode whatever the model does, only graded answers are checkpointed, an interruption is never taken for a completion. Every case ends |
| `refund_workers` | 2 guarded workers, 3 runs each, 2 kills, every scenario fault, and every pair of a disturbed first call and first acknowledgement over one fault journal | refinement of `RefundOnce` (one refund), receipts the tables bear out, a checkpoint that only an injected permanent error can change; without a schedule, eventually refunded |
| `worker_binding_overlap` | 3 processes, 2 configurations, 5 starts | **violated**: see section 7 |
| `artifact_workflow` | `adapter`: 1 worker, 2 runs, every rule with occurrence 1..2 and repeat 1..4, ordered pairs of rules with repeat 1 or 3. `together`: 2 workers, 3 runs each, 2 kills, 1 damage, 1 failed write. `shared`: 2 workers, 2 runs each, a rule at its first call with repeat 1 or 3. `once`: 1 worker, the adapter's schedules, not started again. `repeated`: 1 worker, 8 runs, one rule, 1 kill, 1 damage, 1 failed write | oracle: the task completes within its budgets, a rejection is safe exactly before the commit; promise refined, temporary files and stages accounted; the task completes in the end |
| `langgraph_run` | `adapter`, `control`: 2 runs, one rule with occurrence 1..2 and repeat 1 or 3, ordered pairs of rules. `once`: the same schedules, invoked once. `killed`: 4 runs, one rule, 2 kills, 1 damage, 1 failed write. `repeated`: 9 runs, one rule or a pair, 1 damage, 1 failed write | verdicts; checkpoint never ahead of business state, attempts explained, promise refined; finished graphs are inert, rejections final unless a process was killed, the task settles |
| `langgraph_rejection_crash` | one rule, 1 kill | **violated**: see section 7 |
| `http_incident` | the 8 catalog cases from the start of the service, with 4 clients and nothing late, and with 2 clients, 2 timeouts and 1 lock-out | one charge, truthful answers, complete audit; refinement of `ChargeLedger`; oracle and diagnosis as the catalog and its grader expect when nothing is late, under each ablation; sound diagnosis with any part of the log missing; an accepted proposal cites what establishes it; the run ends |
| `suite_runner` | 2 cases of every adapter kind, with no rule, one or two, that fire once, twice or never, 2 calls at each boundary | passes are earned, evidence final or understated; every case gets a row, unless a row cannot be written |
| `code_validation` | 14 candidates: those of the demonstration and the tests, and a commit with a link; 3 of the 5 gates, 2 commands gone wrong | an acceptance is earned by every gate on the candidate's own files; the gate meant for a defect catches it; rejections, errors and leftovers are explained; a validation ends |
| `code_leftovers` | the same instance | **violated**: see section 7 |

A run explores several ways of operating one component: the constant `Settings`
(artifacts, LangGraph), `Limits` (HTTP), `Modes` and `Tasks` (refunds) or `Suites`
names them, and the initial state picks one. Some checked formulas are
conjunctions of named parts, each with its own comment in the module:
`ScriptedVerdict`, `AgentVerdict`, `OracleVerdict`, `DiagnosisSound`,
`SettledIsFinal`, `EvidenceHonest`, and the invariants `WorkflowInv`, `GraphInv`,
`ServiceInv`, `ValidationInv`, which join a type invariant with what its component keeps
throughout. A property that only some of them
are meant to satisfy says so in its antecedent: `Undisturbed` (no kill, damage or
failed write so far) for the verdicts of artifacts and LangGraph, `Patient` (more
runs than things that can end one) for their liveness.

Why the bounds suffice for what is asked: the races in this code are between two
transactions (two workers, clients or attempts), and a third adds no new
pair. Attempts and runs have the code's own values (3 and 2) in every verdict
setting; windows up to 3 or 4 calls reach past each budget, where the interesting
edge lies. One kill is enough to separate any two steps; a second kills the
recovery. The catalog's 4 clients race where nothing is late, and 2 where
abandoned handlers multiply the attempts. Eight responses are the code's own call
limit; two calls in one response are the least that lets a call follow an
interrupted one. The gates of code validation are alike and in sequence, so a
first, a middle and a last one stand for five; two commands gone wrong let a late
request meet a failing cleanup.

`CHECK_DEADLOCK FALSE` is set throughout because every modelled run ends: workers
use up their runs, a suite its cases, a service is terminated, a candidate is judged.

## 4. Fairness

Fairness only matters to the liveness properties, and they assume no more than
this (the runs without one use `Spec`):

- a process that is inside the code takes its next step unless it is killed
  (weak fairness of `Progress`, `Step`, `Handle`): statements return, and a lock
  that is free is taken. `GiveUp` belongs to `Progress` because SQLite's busy
  timeout bounds a wait;
- for `EventuallyRefunded`, `EventuallyComplete` and `EventuallySettled`, that
  somebody repeats the command while runs are left (weak fairness of `Rerun`):
  the documented way to resume. Which ends are followed by another run is part of
  the setting; nothing completes a task that nobody starts again;
- for `RunEnds`, that the adapter's start-up deadline passes and that it terminates
  the service once its clients returned (`_execute`'s `finally`). The service need
  not come up, and timeouts and lock-outs are never assumed;
- for `CasesEnd`, that `asyncio.wait_for`'s deadline passes. The model need never
  answer;
- for `ValidationEnds`, that every command returns by its timeout. Neither the
  daemon nor a container need ever do anything;
- for `RunCompletes` (a row for every case, or a run aborted by a row that cannot be
  written), that the event loop runs and deadlines fire. An adapter
  that blocks the event loop must end by itself, the bound `docs/architecture.md`
  leaves to adapters. Threads may hang.

## 5. What is proved

All theorems hold for any number of workers or clients, any valid schedules, any
orders and requests, any settings, suites, gates and candidates and any bounds, from
the assumption named in the module (`EngineAssumption`, `StoreAssumption`,
`ServiceAssumption`, `ExperimentAssumption`, `CaseAssumption`, `WorkflowAssumption`,
`GraphAssumption`, `ChargeAssumption`, `SuiteAssumption`, `ValidationAssumption`), which TLC also evaluates in each run.
Each inductive invariant was first checked by TLC on the instance of its run.

**Fault engine** (`FaultEngineProofs`). `IInv` adds to type correctness: the lock
is held exactly by the worker inside a transaction (`LockInv`); a worker past its
constructor runs the stored schedule and counts one of its rules (`ConfigInv`);
between a worker's read and its commit nobody counts a call (`CountInv`). The
last is what turns three statements into one increment, and it is not inductive
without the first. `DatabaseStep` then classifies every step as nothing, a bind or
a claim, from which follow `SharedSchedule`, `Refinement` (the transactions
implement `FaultJournal`) and `WindowsExact`. `DeliveriesAccounted` further needs
that every history record is a counted call and that two workers never hold the
same one.

**Refund store** (`RefundStoreProofs`). Until it commits, what a client decided is
still what the tables imply (`DecisionInv`), because it holds the lock
(`LockInv`); a reply in flight or given names its own committed row and, with a
key, the journal entry (`ReplyInv`). `Backed`, `Answers` and `Once` follow, and
`Refinement`: the transaction implements `RefundLedger`. `Balance`, that an order is
never refunded beyond its total, is proved of `RefundLedger`, where a refund is one
step, and inherited through `Refinement`. The sum of an order's rows is a recursive
function over the table. That the function exists, stays the same on the rows already
there and adds the appended row is shown by taking a least row where it would fail
(`NatLessThanWellFounded`), as an induction scheme is not available to the provers.

**Refund service** (`RefundServiceProofs`). In guarded mode the service is in one
of two states: nothing paid and nothing journalled, or the one authorised row with
its operation (`LedgerInv`); and nothing a worker holds, told or checkpointed
claims more (`ResultInv`: a receipt in hand is for that row and states its terms, which
`Valid` alone could not say). `PaidOnce` is the central claim of the harness's guarded
mode, `Receipts` its honesty, `Refinement` both as an implementation of
`RefundOnce`. `CheckpointKept` also needs to know why a guarded caller was refused
(`DenialInv`): a denial is owed to the order or to an injected permanent error, so
without a permanent error two workers that both passed the checkpoint read decide
alike. With one, the second may overwrite a checkpointed refund with its denial, and the
theorem says nothing.

**Refund experiment** (`RefundServiceProofs`). The ADK agent takes other steps than
the scripted one: a model that may ask for anything decides how often the gateway is
called, and a restarted run may repeat calls. `CaseInv` is the service's invariant for
the scripted agent; for the ADK agent it is `AgentInv`: whose turn it is agrees with
the place in the gateway (`TurnInv`), an answer being closed and a checkpoint are
within what the model could say (`AnswerInv`), a run that returned ended in one of
the ways `run_adk` has (`ReturnInv`), and a checkpoint passes the grader although
the tools go on to be called (`KeptInv`). The last rests on guarded calls paying only
the one authorised row. `AgentVerified` and `Interruptions`, joined in `AgentJudged`,
and `CaseRefinement` follow.

`Judged` is the harness's comparison table for any schedule: what the grader finds at
the end of a scripted case is implied by the faults of the case. `VerdictInv` accounts
for them on the way. `BudgetInv`: every attempt and every run beyond the first is owed
to an injection that cost one. Injections are not counted in the journal but read off
the call counters (`Delivered`: a rule with occurrence `o` and repeat `r` has delivered
the calls `o` to `o + r - 1` made so far), so a step changes one counter and the sum
never has to be recounted; `SufferedTypes` bounds them by the hits of the schedule,
hence `BudgetSuffices`. `PaymentInv`: until a worker holds a result something is paid
exactly if a fault struck after a commit; from then on it holds the receipt of the only
row, or a schedule beyond the budgets, a permanent error or a baseline duplicate
explains why not. `DuplicateInv` bounds the duplicates by the commits that were hidden.
`FaultInv` and `RunInv` say that faults have one source and a restart is owed to an
interruption.

`ExperimentAssumption` has a single worker, as `run_case` has (`experiment.py:64`). For
`Judged`, `CaseAssumption` adds what else `run_case` fixes: the worker is started again
after an interruption only and at least once (`experiment.py:65`), the gateway is tried
at least twice, and the refund is within what was paid.

**Artifact workflow** (`ArtifactWorkflowProofs`). Several workers, each of which may
be killed and started again, share a row, checkpoints and a file, without a lock
around the whole workflow. `Staged` says what the place of a worker in the code
implies about them: the row exists once the export is due, the checkpoints of the
stages it has passed are there, and after a publication the file shows the committed
bytes unless it was damaged. Nothing durable is ever taken back (`Progress`), so
what one worker relies on survives the steps of the others. `StoreInv` counts
temporary files: those of the workers writing, and at most one for each kill.
`WorkflowKept` follows, and `Refinement`: a step is a commit, a publication, the
completion or nothing in `ArtifactPromise`.

`Oracle` is the verdict of `assess_artifacts`, as far as only the schedule acts on the
task (no kill, failed write or damage). It rests on `VerdictInv`, with the accounts
that `Judged` uses: `BudgetInv` owes every attempt and every run beyond the first to an
injection that cost one, so a schedule within the budgets is never rejected and never
uses up the restarts. `CommittedInv` says that nothing is published, completed or
struck late before the commit, and `PathInv` the converse that makes "safely rejected"
exact: a committed artifact that no fault struck late is on its way to completion
(`OnPath`), so no rejection can lie ahead. `EndInv` says what the end of a worker
proves. Schedules, workers and restarts are not restricted by any assumption: `Oracle`
speaks of a task without injections, and with injections of a task that one worker
works on and that is not started again once complete (`Supervised`), as in the loop
of `ArtifactAdapter.execute`. Elsewhere its second half would be false, not just
unproved: a repeated or another worker's run may be rejected while it commits an
artifact that is complete already, and no fault struck late. The budgets count one
run where an interruption is not followed by another.

**LangGraph workflow** (`LangGraphProofs`). Here progress is in a second database that
is written after the effect, so a node may run again. `PlaceInv` ties the pending
node and the place in it to the store; `RejectInv` says that a retained rejection
stops every invocation, and that only a kill separates its event from its receipt.
`AttemptInv` makes the bound on attempts inductive: the attempt under way is the only
one that nothing explains yet, and whatever ends it without progress (a fault, a
kill, a failed write, damage) adds an explanation before the next one starts.
`GraphKept`, `Settled` and `Refinement` follow.

`Oracle` is the verdict of `LangGraphAdapter.assess`, by the same accounts. What differs
is that retries are counted per node and invocation, so `BudgetInv` bounds them by what
the pending node suffered, that a finished graph may be invoked any number of times
(the budget of invocations is owed until `next = "end"`), and that `OnPath` runs through
the checkpoints of `commit_artifact`, `export_artifact` and `finish`. Where an
interruption is not answered by a new invocation, the budgets count a single one.

**HTTP service and triage** (`HttpProofs`). `IInv` relates handlers, ledger and log: a
transaction in progress holds the lock and has read what the ledger still says
(`TransactionInv`); what a handler found or inserted stays in the ledger after its
commit (`HandlerInv`), every row has exactly one handler that inserted it
(`OwnerInv`), the log is the records of the handlers that got that far (`LogInv`), and
an answer is that of a handler (`ResponseInv`). `ServiceKept` follows. The verdicts
need the clients as well: `SessionInv` relates each receipt to the last attempt of
its client, and `QuietInv` says what else holds as long as nothing was late and no
lock timed out: only the scripted response was withheld, after the handler that
inserted the row. From these, `OracleRight` goes through the scenarios and modes, and
`DiagnosisRight` through the labels of `diagnose()`, first as lemmas for any
evidence, then for the evidence a case leaves. `LossAbstains` quantifies over every
part of the log, `ProposalRight` over every citation. `Refinement` shows the threaded
service, with everything that is late, abandoned, retried or stopped, to be
`ChargeLedger`: the commit of a handler's transaction is the atomic replay or charge
(what it looked up is still true, by `TransactionInv`), and a receipt is the decision
on an attempt of its client and the only one (`ResponseInv`, `SessionInv`).

**Suite runner** (`SuiteRunnerProofs`). The journal of a case is, for each rule, its window
over the calls made at its boundary (`JournalInv`), and what the runner has read of it is exact if the
execution is over, and less if the deadline passed and its thread still runs
(`RowInv`, `ReportInv`). Coverage is read after the events, so a covered row is never
taken back. `PassEarned` and `Honest` follow.

**Code validation** (`CodeValidationProofs`). The host sees return codes and container
states only, while requests it has given up on may be served at any later step.
`IInv` says why that cannot mislead it: no pending request creates, starts or removes
the container of a gate to come, and once the current gate's container exists the
only one for it is a start (`PendingInv`), so a return code of zero is still
backed by a container that succeeded when it is inspected (`CodeInv`); an image is
the candidate's or absent, because a commit is only ever issued, and so only served
late, after a copy that succeeded (`ImageInv`); and a container that ended left its
run in the history (`RunInv`). Every recorded entry inherits this (`EntryInv`),
the entries are complete unless an exception is on its way (`ReportInv`), and the
verdict is taken from them (`VerdictInv`): `Earned` and `Caught`. `Explained` adds that
leftovers come from commands that went wrong (`ContainerInv`, `LeftImageInv`), and
exceptions from those or from a commit with more than regular files (`ExceptionInv`). `StepKinds` carries most of it: a step is one of the host, one
command, one late request or the end of one container, each with a bounded effect.

## 6. What is only model-checked

Liveness under fairness, which is beyond the proof system used here: the properties
of section 4. `WorkerBinding`'s run and the other runs that expect a violation have
nothing to prove. Every safety and refinement property of the passing runs is proved.

## 7. Disagreements between code and documentation

- `docs/refunds.md:112` says that reusing a database with a different scenario or
  mode is rejected. `worker` reads the stored configuration (`cli.py:21`) and
  writes it (`cli.py:24`) in two transactions, so two workers that start together
  can both run. `FaultEngine` and `ArtifactStore.bind` compare under one lock and
  do not have this gap.
- `docs/langgraph.md:41` says that a terminal rejection is retained rather than
  resetting its retry budget. The event (`langgraph_adapter.py:147`) and the
  receipt (`langgraph_adapter.py:149`) are two transactions; a kill in between
  leaves a task that was logged as rejected and is attempted again.
- `docs/code-validation.md:91` says that containers and the temporary image are
  removed after execution, including failures and timeouts. A `docker commit`
  killed by its timeout raises (`code_validation.py:190`) before the block that removes
  the image (`code_validation.py:198`) is entered, while the daemon may finish the
  commit: the candidate image stays, although no removal failed. The sentence is
  checked for the image. A container whose `docker create` the client gave up on, and
  which the daemon creates after the cleanup has found nothing to remove, stays as well:
  `LeftoversExplained` allows both, and says that a container stays only if a
  command on it went wrong, and the image only if one on it or on a gate's container did.

A further one is not a run of its own but the exception in `RunCompletes`:
`docs/architecture.md:60` says that each case retains `result.json`, and line 58 that
unhandled adapter errors are rows with `observed=error`. `run_matrix` writes the row
(`suite.py:172`, with `allow_nan=False`) outside the `try` around the case
(`suite.py:158`), so a receipt with NaN or a value that JSON does not have ends the
whole run: neither this case nor a later one gets a row.

## 8. Abstractions and what is not modelled

Abstractions in modelled parts:

- Event logs are left out except for events somebody decides on.
- There is one operation key, one artifact key and one task, as in the program.
  The `ValueError`s of `commit()` and `export()` need other content or a missing
  row and cannot be reached (`StagesBacked` says so for the row).
- A refused request of the worker command, the artifact task configuration and
  plugin checks happen before the modelled steps.
- Malformed request bodies are never sent by the clients of the repository, so the
  400 and 404 answers are left out.
- Triage evidence is a set, and a citation names a kind of evidence; identifiers,
  wording and the receipts-only baseline are left out.
- The ADK runner and its model are external: a response asks for calls, answers
  or does not come. Token usage is left out.
- A diff is its list of headers and other lines, a candidate the gate that its
  defect fails. The docker daemon is modelled from how return codes are used.
  Nobody restarts a validator that was killed, so its kill is left out.
- LangGraph is external: modelled from `durability="sync"`, the `RetryPolicy` and
  the way `_run_graph_once` invokes it.

Not modelled: CreatorPal (an external application that the repository does not
contain), telemetry (spans are exported; the invocation link of
`state_telemetry.py` only labels a later span), the state layout benchmark,
reports, argument parsing, the preparation of the code demonstration, scripts. The
reasons are in `PROJECT.json`.

## 9. Plan

Done, in order of importance: the fault engine and the refund path; artifacts;
LangGraph; HTTP with its start-up; triage with the gate on proposals; the suite
runner; the experiment with the ADK agent; code validation; and the proofs of each.

Every safety and refinement property that a passing run checks is proved; liveness is
checked by TLC (section 6). What remains is outside the models: the parts listed as partly or not
modelled in `PROJECT.json`.

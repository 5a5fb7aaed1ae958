--------------------------- MODULE RefundExperiment ---------------------------
(* run_case of src/agent_reliability/experiment.py: the refund task is given  *)
(* to run_scripted or, by adk_adapter.py, to an agent whose model chooses the *)
(* tool calls.  The model and the ADK runner are external: a response may ask *)
(* for any calls or end with any answer, and may never come.  The gateway     *)
(* calls are those of RefundService.                                          *)
EXTENDS RefundService

CONSTANTS
    Agents,         \* the adapters to explore, of "scripted" and "adk"
    MaxTurns,       \* RunConfig's max_llm_calls
    MaxToolCalls    \* bound: refund calls one response asks for

ASSUME ExperimentAssumption ==
    /\ Agents \subseteq {"scripted", "adk"}
    /\ MaxTurns \in Nat
    /\ MaxToolCalls \in Nat
    /\ \E w \in Workers : Workers = {w}

\* What run_case fixes and the verdicts rely on: its worker is started again
\* after an interruption only, and at least once; run_scripted retries at least
\* once; and the refund is no more than was paid.
ASSUME CaseAssumption ==
    /\ RerunAfter = {"interrupted"}
    /\ MaxAttempts > 1 /\ MaxRuns > 1
    /\ \A o \in Tasks : Amount <= Total[o]

VARIABLES
    agent,          \* the adapter of the case
    turn,           \* whose turn it is in an ADK run: "none" outside one
    turns,          \* model responses in this run
    asked,          \* refund calls of the current response still to be made
    interrupted,    \* run_adk's flag: a tool call was interrupted
    response        \* the agent's answer

agentVars == <<turn, turns, asked, interrupted, response>>
experimentVars == <<vars, agent, agentVars>>

ExperimentInit ==
    /\ Init
    /\ agent \in Agents
    /\ agent = "adk" => binding = NoSchedule
    /\ turn = "none"
    /\ turns = 0
    /\ asked = 0
    /\ interrupted = FALSE
    /\ response = Failed

-----------------------------------------------------------------------------
(* experiment.grade                                                          *)

Grade(r) ==
    LET expected == Ledger!Visible(Actor, order)
    IN  /\ TenantScope
        /\ IF expected THEN refunds = <<[order_id |-> order, amount |-> Amount]>>
                       ELSE refunds = <<>>
        /\ IF expected THEN Valid(r) /\ Backed(r) ELSE r.status = "denied"
        /\ fault # "none" => faultUsed

-----------------------------------------------------------------------------
(* run_adk.  pc[w] is "lookup" while no tool call is under way.               *)

\* The run begins, or is answered from the checkpoint.
Invoke(w) ==
    /\ agent = "adk"
    /\ Start(w)
    /\ turn' = IF pc'[w] = "lookup" THEN "model" ELSE "none"
    /\ turns' = 0
    /\ asked' = 0
    /\ interrupted' = FALSE
    /\ response' = Failed
    /\ UNCHANGED agent

Turn(t) == turn' = t
End(w, r) == Goto(w, "returned") /\ Set(w, r) /\ Turn("none")
AtModel(w) == pc[w] = "lookup" /\ turn = "model"
AtTools(w) == pc[w] = "lookup" /\ turn = "tools"

invocationVars == <<durable, task, attempt, armed, runs, told, crashes, agent>>

\* A response with tool calls.  Lookups, and refunds outside the task's scope
\* or tenant, change nothing; only the others are counted.
Respond(w) ==
    /\ AtModel(w)
    /\ turns < MaxTurns
    /\ turns' = turns + 1
    /\ asked' \in IF Ledger!Visible(Actor, order) THEN 0..MaxToolCalls ELSE {0}
    /\ Turn("tools")
    /\ UNCHANGED <<vars, agent, interrupted, response>>

\* The next call of the response, made whatever came of the one before.
CallTool(w) ==
    /\ AtTools(w)
    /\ asked > 0
    /\ asked' = asked - 1
    /\ attempt' = [attempt EXCEPT ![w] = 1]
    /\ Goto(w, "boundary")
    /\ Turn("call")
    /\ UNCHANGED <<durable, task, armed, result, runs, told, crashes, agent, turns,
                   interrupted, response>>

\* The statements of issue_refund, as in RefundService without an engine.
InCall(w) ==
    /\ turn = "call"
    /\ ConsumeFault(w) \/ Refund(w) \/ AfterArmed(w) \/ Retry(w)
    /\ UNCHANGED <<agent, agentVars>>

\* The tool's result goes back to the model.
ToolReturns(w) ==
    /\ turn = "call" /\ pc[w] = "recording"
    /\ Goto(w, "lookup")
    /\ Set(w, NoResult)
    /\ Turn("tools")
    /\ UNCHANGED <<invocationVars, turns, asked, interrupted, response>>

\* An interruption leaves the tool: it ends the run, or ADK's own handling of
\* tool errors swallows it and only the flag remains.
ToolInterrupted(w) ==
    /\ turn = "call" /\ pc[w] = "interrupted"
    /\ interrupted' = TRUE
    /\ \/ Turn("none") /\ UNCHANGED pc
       \/ Turn("tools") /\ Goto(w, "lookup")
    /\ UNCHANGED <<invocationVars, result, turns, asked, response>>

Interrupt(w) == Goto(w, "interrupted") /\ Turn("none")

\* Seeded bug: the flag is not looked at.
ToolEventIgnored(w) ==
    /\ AtTools(w)
    /\ asked = 0
    /\ Turn("model")
    /\ UNCHANGED <<vars, agent, turns, asked, interrupted, response>>

\* The event with the tools' results: the flag is looked at before anything else.
ToolEvent(w) ==
    /\ AtTools(w)
    /\ asked = 0
    /\ IF interrupted THEN Interrupt(w) ELSE Turn("model") /\ UNCHANGED pc
    /\ UNCHANGED <<invocationVars, result, turns, asked, interrupted, response>>

Answers ==
    {Denied, Failed, Malformed}
    \union {[Refunded(row) EXCEPT !.terms = t] : row \in 0..Len(refunds) + 1, t \in BOOLEAN}

\* A final response: any answer, whatever the tools said, a receipt without an
\* id, for a refund that is not there or for other terms included.
Answer(w) ==
    /\ AtModel(w)
    /\ turns < MaxTurns
    /\ turns' = turns + 1
    /\ response' \in Answers
    /\ Turn("closing")
    /\ UNCHANGED <<vars, agent, asked, interrupted>>

\* The runner stops without a further event.
StreamEnds(w) ==
    /\ AtModel(w) \/ AtTools(w)
    /\ Turn("closing")
    /\ UNCHANGED <<vars, agent, turns, asked, interrupted, response>>

\* What follows the run: an answer is checkpointed if keep says so.
CloseIf(w, keep) ==
    /\ turn = "closing"
    /\ checkpoint' = IF keep THEN response ELSE checkpoint
    /\ End(w, response)
    /\ UNCHANGED <<ledgerVars, faultUsed, faultVars, task, attempt, armed, runs, told,
                   crashes, agent, turns, asked, interrupted, response>>

Decided == mode = "guarded" /\ response.status \in {"refunded", "denied"}

\* Seeded bug: a decided answer is checkpointed without the grader.
CloseUnverified(w) == CloseIf(w, Decided)

Close(w) == CloseIf(w, Decided /\ Grade(response))

\* Seeded bug: wait_for guards the tool calls only.
GiveUpInTools(w) ==
    /\ AtTools(w)
    /\ End(w, Failed)
    /\ UNCHANGED <<invocationVars, turns, asked, interrupted, response>>

\* The call limit, the deadline of wait_for or a provider error: run_case
\* records a failure and does not run again.
GiveUp(w) ==
    /\ AtModel(w) \/ AtTools(w)
    /\ End(w, Failed)
    /\ UNCHANGED <<invocationVars, turns, asked, interrupted, response>>

\* run_case starts an interrupted run again.
Restart(w) ==
    /\ agent = "adk"
    /\ turn = "none"
    /\ Rerun(w)
    /\ UNCHANGED <<agent, agentVars>>

-----------------------------------------------------------------------------
Scripted(w) == agent = "scripted" /\ (Step(w) \/ Rerun(w)) /\ UNCHANGED <<agent, agentVars>>

ModelStep(w) == Respond(w) \/ Answer(w) \/ StreamEnds(w)

OwnStep(w) ==
    \/ Invoke(w) \/ CallTool(w) \/ InCall(w) \/ ToolReturns(w) \/ ToolInterrupted(w)
    \/ Close(w) \/ Restart(w)

RunnerStep(w) == OwnStep(w) \/ ToolEvent(w)

ExperimentNext ==
    \E w \in Workers :
        Scripted(w) \/ RunnerStep(w) \/ ModelStep(w) \/ GiveUp(w)

ExperimentSpec == ExperimentInit /\ [][ExperimentNext]_experimentVars

\* The program's own statements run on and the deadline passes.  Nothing is
\* assumed of the model.
ExperimentFair ==
    /\ ExperimentSpec
    /\ \A w \in Workers :
         /\ WF_experimentVars(Scripted(w))
         /\ WF_experimentVars(OwnStep(w) \/ GiveUp(w))

-----------------------------------------------------------------------------
(* Properties                                                                *)

\* A case that will not run again.
Ended(w) == Finished(w) /\ turn = "none"

\* Whatever the model answers, a checkpoint is only ever a result that the
\* grader passes, the tables keep bearing it out while the model goes on to
\* call tools, and no guarded pass goes without one (run_adk's check before
\* store.set).
AgentCheckpointVerified ==
    agent = "adk" =>
        /\ checkpoint # NoResult => mode = "guarded" /\ Grade(checkpoint)
        /\ \A w \in Workers :
             (mode = "guarded" /\ Ended(w) /\ Grade(Receipt(w))) => checkpoint = Receipt(w)

\* An injected interruption is never mistaken for a completion: the run in
\* which it struck ends interrupted or failed even if ADK swallowed the
\* exception and the model carried on (the flag of run_adk).
InterruptionHonoured ==
    (agent = "adk" /\ interrupted) =>
        \A w \in Workers : pc[w] = "returned" => result[w] = Failed

\* The harness's own part in an ADK run, whose model is not under its control:
\* it keeps only what the grader passes, and notices every interruption.
AgentVerdict == AgentCheckpointVerified /\ InterruptionHonoured

\* The comparison table: the scripted agent passes a scenario that can happen
\* in guarded mode always and in baseline mode exactly when no fault struck
\* after the commit (grade, docs/refunds.md).
ComparisonTable ==
    \A w \in Workers :
        (Ended(w) /\ binding = NoSchedule /\ (fault # "none" => Owner[order] = Actor)) =>
            (Grade(Receipt(w)) <=>
                (mode = "guarded" \/ fault \in BeforeFaults \union {"none"}))

\* The graders on the scripted agent: every fault the budgets can absorb is
\* absorbed, denials and duplicates have a cause in the faults, and baseline
\* mode fails exactly when a fault struck after the commit.
ScriptedVerdict ==
    agent = "scripted" =>
        /\ GuardedVerdict /\ DenialExplained
        /\ BaselineVerdict /\ DuplicatesExplained
        /\ ComparisonTable

\* Every case ends, although the model may never answer (wait_for and
\* max_llm_calls in run_adk, two runs in run_case).
CasesEnd == <>(\A w \in Workers : Ended(w))
=============================================================================

--------------------------- MODULE LangGraphProofs ---------------------------
(* Theorems about LangGraphRun for any settings, schedules, modes and retry    *)
(* budget: its invariant, the finality of what is settled, that it implements  *)
(* ArtifactPromise, and the verdict of its oracle.                             *)
EXTENDS LangGraphRun, FiniteSetTheorems, SequenceTheorems, TLAPS

\* A node, or the check whether one is left, is being worked on.
Calling == {"boundary", "acting", "comparing", "writing", "acknowledging"}
Leaving == {"storing", "returning"}

\* The node that an invocation is in, and what the store holds by then.
PlaceInv ==
    /\ binding \in Operated.schedules
    /\ commits = IF artifact THEN 1 ELSE 0
    /\ pc = "writing" => temps > 0
    /\ pc \in Leaving \union {"node"} => next \in Nodes
    /\ pc \in Calling \union {"retrying", "rejecting", "retaining"} => next \in Tools
    /\ pc = "acting" => next \in {"commit_artifact", "export_artifact"}
    /\ pc \in {"comparing", "writing"} => next = "export_artifact"
    /\ next = "none" => pc \in {"idle", "resuming", "killed"}
    /\ next = "end" => pc \in {"idle", "resuming", "killed", "complete"}
    /\ pc \in Leaving \union {"acknowledging"} =>
        /\ next = "commit_artifact" => artifact
        /\ next = "export_artifact" => file = "current" \/ damages > 0
    /\ pc = "returning" =>
        /\ next = "retrieve_records" => records
        /\ next = "finish" => complete

\* A rejection is final: its receipt stops every invocation, and only a kill
\* separates the event from the receipt.
RejectInv ==
    /\ retained => pc \in Ended \union {"idle", "resuming"} /\ next \in Tools
    /\ rejected /\ ~retained /\ crashes = 0 => pc = "retaining"

\* A tool is attempted in its turn, and the attempt that is under way is the
\* only one that nothing explains yet: it will be, once the pending node is
\* given up, and a file that is missing where one was found is an explanation.
Explained(t) == Cardinality(Injected(t)) + Disturbances(t)
AttemptInv ==
    /\ next = "none" => attempts["retrieve_records"] = 0
    /\ next \in {"none", "retrieve_records"} => attempts["build_artifact"] = 0
    /\ next \in {"none", "retrieve_records", "build_artifact"} =>
        attempts["commit_artifact"] = 0
    /\ next \in {"none", "retrieve_records", "build_artifact", "commit_artifact"} =>
        attempts["export_artifact"] = 0
    /\ \A t \in Tools :
        /\ attempts[t] <= 1 + Explained(t)
        /\ next = t /\ pc \notin Calling \union Leaving => attempts[t] <= Explained(t)
        /\ next = t /\ pc = "comparing" /\ file = "absent" => attempts[t] <= Explained(t)

\* The inductive invariant.
IInv == TypeOK /\ CheckpointBacked /\ PlaceInv /\ RejectInv /\ AttemptInv

-----------------------------------------------------------------------------
(* Types                                                                     *)

\* The part of the type invariant that is about the graph and the bounds.
LocalTypes ==
    /\ setting \in DOMAIN Settings
    /\ mode \in Operated.modes
    /\ next \in Nodes \union {"none", "end"}
    /\ {records, complete, rejected, retained} \subseteq BOOLEAN
    /\ attempts \in [Tools -> Nat]
    /\ pc \in States
    /\ attempt \in 0..MaxAttempts
    /\ runs \in 0..Operated.runs
    /\ crashes \in 0..Operated.crashes
    /\ errors \in 0..Operated.errors
    /\ damages <= Operated.damages

\* The type invariant speaks of the store, the journal and the graph.
LEMMA TypeParts == TypeOK <=> StoreTypeOK /\ Faults!TypeOK /\ LocalTypes
BY DEF TypeOK, LocalTypes

\* The same in the next state.
LEMMA TypePartsNext == StoreTypeOK' /\ (Faults!TypeOK)' /\ LocalTypes' => TypeOK'
BY DEF TypeOK, LocalTypes

\* The nodes, and the order in which the graph runs them.
LEMMA NodeFacts ==
    /\ Nodes = Tools \union {"finish"}
    /\ Following["retrieve_records"] = "build_artifact"
    /\ Following["build_artifact"] = "commit_artifact"
    /\ Following["commit_artifact"] = "export_artifact"
    /\ Following["export_artifact"] = "finish"
    /\ Following["finish"] = "end"
BY DEF Nodes, Following, Tools

\* The bounds of a setting are numbers.
LEMMA SettingFacts ==
    ASSUME setting \in DOMAIN Settings
    PROVE  /\ Operated.runs \in Nat /\ Operated.crashes \in Nat
           /\ Operated.damages \in Nat /\ Operated.errors \in Nat
           /\ Operated.schedules \subseteq Schedules
BY GraphAssumption DEF Operated, IsSetting, Schedules

\* A bound schedule has rules within the bound, so it indexes the counters.
LEMMA ScheduleFacts ==
    ASSUME setting \in DOMAIN Settings, binding \in Operated.schedules
    PROVE  binding \in Schedules /\ DOMAIN binding \subseteq Faults!Rules
<1>1. binding \in Schedules
  BY SettingFacts
<1>2. PICK n \in 0..MaxRules : DOMAIN binding = 1..n
  BY <1>1, GraphAssumption DEF IsSchedule
<1> QED
  BY <1>1, <1>2, GraphAssumption DEF Faults!Rules

\* The invariant, part by part.
LEMMA Parts ==
    ASSUME IInv
    PROVE  /\ StoreTypeOK /\ Faults!TypeOK /\ LocalTypes
           /\ Operated.runs \in Nat /\ Operated.crashes \in Nat /\ Operated.errors \in Nat
           /\ Operated.damages \in Nat /\ DOMAIN binding \subseteq Faults!Rules
           /\ crashes \in Nat /\ errors \in Nat /\ damages \in Nat
           /\ runs \in Nat /\ MaxAttempts \in Nat \ {0}
<1>1. StoreTypeOK /\ Faults!TypeOK /\ LocalTypes /\ PlaceInv
  BY TypeParts DEF IInv
<1> QED
  BY <1>1, SettingFacts, ScheduleFacts, GraphAssumption DEF LocalTypes, PlaceInv, StoreTypeOK

\* What a call of a boundary does: the journal keeps its types and its records,
\* and an outcome that the caller notices is recorded for the tool.
Injects(t, outcome) ==
    /\ binding' = binding
    /\ (Faults!TypeOK)'
    /\ \A u \in Tools : Injected(u) \subseteq Injected(u)'
    /\ outcome # "none" =>
        /\ Len(journal) + 1 \in Injected(t)'
        /\ Len(journal) + 1 \notin Injected(t)

\* Each way through FaultEngine.apply() has that effect.
LEMMA ApplyEffect ==
    ASSUME Faults!TypeOK, DOMAIN binding \subseteq Faults!Rules,
           NEW t \in Tools, NEW phase, NEW outcome, Faults!Apply(t, phase, outcome)
    PROVE  Injects(t, outcome)
  <1> DEFINE S == [rule : Faults!Rules, occurrence : Nat]
  <1>1. CASE Faults!Matching(binding, t, phase) = {}
    <2>1. outcome = "none" /\ UNCHANGED <<binding, calls, journal>>
      BY <1>1 DEF Faults!Apply, Faults!journalVars
    <2> QED
      BY <2>1 DEF Injects, Faults!TypeOK, Injected
  <1>2. ASSUME NEW i \in DOMAIN binding, binding[i].tool = t, Faults!Claim(i),
               outcome = IF Faults!Fires(binding[i], calls[i] + 1)
                           THEN Faults!Outcome(binding[i].kind) ELSE "none"
        PROVE  Injects(t, outcome)
    <2> DEFINE e == Faults!Record(i, calls[i] + 1)
    <2> DEFINE fired == Faults!Fires(binding[i], calls[i] + 1)
    <2>1. i \in Faults!Rules
      OBVIOUS
    <2>2. /\ calls \in [Faults!Rules -> Nat] /\ journal \in Seq(S)
          /\ calls' = [calls EXCEPT ![i] = calls[i] + 1] /\ binding' = binding
          /\ journal' = IF fired THEN Append(journal, e) ELSE journal
      BY <1>2 DEF Faults!TypeOK, Faults!Claim
    <2>3. calls' \in [Faults!Rules -> Nat] /\ e \in S /\ e.rule = i
      BY <2>1, <2>2 DEF Faults!Record
    <2>4. outcome # "none" => fired
      BY <1>2
    <2> HIDE DEF S, e, fired
    <2>5. journal' \in Seq(S) /\ Len(journal) \in Nat
      BY <2>2, <2>3, AppendProperties
    <2>6. \A k \in DOMAIN journal : k \in DOMAIN journal' /\ journal'[k] = journal[k]
      BY <2>2, <2>3
    <2>7. \A u \in Tools : Injected(u) \subseteq Injected(u)'
      BY <2>2, <2>6 DEF Injected
    <2>8. ASSUME fired
          PROVE  Len(journal) + 1 \in Injected(t)' /\ Len(journal) + 1 \notin Injected(t)
      <3>1. Len(journal) + 1 \in DOMAIN journal' /\ journal'[Len(journal) + 1] = e
        BY <2>2, <2>3, <2>8
      <3>2. Len(journal) + 1 \notin DOMAIN journal
        BY <2>2, <2>5
      <3> QED
        BY <1>2, <2>2, <2>3, <3>1, <3>2 DEF Injected
    <2>9. (Faults!TypeOK)'
      BY <2>2, <2>3, <2>5 DEF Faults!TypeOK, S
    <2> QED
      BY <2>2, <2>4, <2>7, <2>8, <2>9 DEF Injects
  <1> QED
    BY <1>1, <1>2 DEF Faults!Apply, Faults!Matching

\* Nothing is injected without a call.
LEMMA JournalFrame ==
    Faults!TypeOK /\ UNCHANGED faultVars =>
        /\ (Faults!TypeOK)' /\ binding' = binding
        /\ \A u \in Tools : Injected(u)' = Injected(u)
BY DEF Faults!TypeOK, faultVars, Injected

\* The boundaries are those of the pending tool.
LEMMA CallEffect ==
    ASSUME IInv, Before \/ After
    PROVE  /\ next \in Tools
           /\ \E outcome \in Faults!Outcomes :
                /\ \A t \in Tools : t = next => Injects(t, outcome)
                /\ outcome = "none" => pc' \in {"acting", "acknowledging", "storing"}
                /\ outcome # "none" => pc' \in {"retrying", "interrupted", "rejecting"}
                /\ pc' = "acting" =>
                    pc = "boundary" /\ next \in {"commit_artifact", "export_artifact"}
                /\ pc' = "acknowledging" =>
                    pc = "boundary" /\ next \notin {"commit_artifact", "export_artifact"}
                /\ pc' = "storing" => pc = "acknowledging"
           /\ UNCHANGED <<storeVars, next, business, attempt, runs, bounds>>
<1>1. next \in Tools /\ Faults!TypeOK /\ DOMAIN binding \subseteq Faults!Rules
  BY Parts DEF Before, After, IInv, PlaceInv, Calling
<1>2. CASE Before
  BY <1>1, <1>2, ApplyEffect DEF Before
<1>3. CASE After
  BY <1>1, <1>3, ApplyEffect DEF After
<1> QED
  BY <1>1, <1>2, <1>3 DEF Before, After

\* Every step keeps the types of the store and the journal.
LEMMA StoreTypeStep ==
    IInv /\ [Next]_vars =>
        StoreTypeOK' /\ (Faults!TypeOK)' /\ binding' = binding /\ UNCHANGED <<setting, mode>>
<1> SUFFICES ASSUME IInv, [Next]_vars
             PROVE  /\ StoreTypeOK' /\ (Faults!TypeOK)' /\ binding' = binding
                    /\ UNCHANGED <<setting, mode>>
  OBVIOUS
<1>1. StoreTypeOK /\ Faults!TypeOK /\ PlaceInv
  BY Parts DEF IInv
<1>2. CASE UNCHANGED <<storeVars, faultVars, setting, mode>>
  BY <1>1, <1>2, JournalFrame DEF StoreTypeOK, storeVars
<1>3. CASE \/ Start \/ Resume \/ EnterNode \/ Retry \/ Store \/ Checkpoint \/ Reject
           \/ Retain \/ Rerun \/ Kill \/ UNCHANGED vars
  BY <1>2, <1>3 DEF Start, Resume, EnterNode, Retry, Store, Checkpoint, Reject, Retain, Rerun,
     Kill, vars, bounds, storeVars, faultVars
<1>4. CASE Before \/ After
  BY <1>1, <1>4, CallEffect DEF Injects, StoreTypeOK, storeVars, bounds
<1>5. CASE Commit \/ CheckFile \/ ReadFile \/ WriteFile \/ FailWrite \/ Damage
  <2>1. UNCHANGED <<faultVars, setting, mode>>
    BY <1>5 DEF Commit, CheckFile, ReadFile, WriteFile, FailWrite, Damage, bounds
  <2>2. (Faults!TypeOK)' /\ binding' = binding
    BY <1>1, <2>1, JournalFrame
  <2> SUFFICES StoreTypeOK'
    BY <2>1, <2>2
  <2>3. CASE Commit
    BY <1>1, <2>3 DEF Commit, CommitArtifact, StoreTypeOK
  <2>4. CASE CheckFile \/ ReadFile
    BY <1>1, <2>4 DEF CheckFile, ReadFile, OpenTemporary, storeVars, StoreTypeOK
  <2>5. CASE WriteFile
    BY <1>1, <2>5 DEF WriteFile, ReplaceTarget, StoreTypeOK, PlaceInv
  <2>6. CASE FailWrite
    BY <1>1, <2>6 DEF FailWrite, DropTemporary, StoreTypeOK, PlaceInv
  <2>7. CASE Damage
    BY <1>1, <2>7 DEF Damage, DamageFile, StoreTypeOK
  <2> QED
    BY <1>5, <2>3, <2>4, <2>5, <2>6, <2>7
<1> QED
  BY <1>3, <1>4, <1>5 DEF Next, Step

\* Every step keeps the types of the graph.
LEMMA LocalTypeStep == IInv /\ [Next]_vars => LocalTypes'
<1> SUFFICES ASSUME IInv, [Next]_vars PROVE LocalTypes'
  OBVIOUS
<1>1. /\ LocalTypes /\ PlaceInv /\ crashes \in Nat /\ errors \in Nat /\ damages \in Nat
      /\ runs \in Nat /\ MaxAttempts \in Nat \ {0} /\ Operated' = Operated
      /\ Operated.runs \in Nat /\ Operated.crashes \in Nat /\ Operated.errors \in Nat
      /\ Operated.damages \in Nat /\ UNCHANGED <<setting, mode>>
  BY Parts, StoreTypeStep DEF IInv, Operated
<1> DEFINE Booleans == {records, complete, rejected, retained} \subseteq BOOLEAN
<1> DEFINE Rest == UNCHANGED <<records, complete, rejected, retained, next, attempts>>
<1> DEFINE Counts == UNCHANGED <<crashes, errors, damages>>
<1>2. CASE UNCHANGED vars
  BY <1>1, <1>2 DEF vars, LocalTypes
<1>3. CASE Start
  <2>1. /\ Rest /\ Counts /\ UNCHANGED attempt /\ pc' = "resuming"
        /\ runs < Operated.runs /\ runs' = runs + 1
    BY <1>3 DEF Start, storeVars, business, bounds
  <2>2. runs' \in 0..Operated.runs
    BY <1>1, <2>1
  <2> QED
    BY <1>1, <2>1, <2>2 DEF LocalTypes, States
<1>4. CASE Resume
  <2>1. /\ UNCHANGED <<records, complete, rejected, retained, attempts, runs>> /\ Counts
        /\ pc' \in {"failed", "complete", "node"}
        /\ attempt' \in {attempt, 1} /\ next' \in {next, "retrieve_records"}
    BY <1>4 DEF Resume, storeVars, business, bounds
  <2>2. attempt' \in 0..MaxAttempts /\ next' \in Nodes \union {"none", "end"}
    BY <1>1, <2>1, NodeFacts DEF LocalTypes, Tools
  <2> QED
    BY <1>1, <2>1, <2>2 DEF LocalTypes, States, Ended
<1>5. CASE EnterNode
  <2>1. /\ UNCHANGED <<records, complete, rejected, retained, next, attempt, runs>> /\ Counts
        /\ pc' \in {"storing", "boundary"}
        /\ \/ UNCHANGED attempts
           \/ next # "finish" /\ attempts' = [attempts EXCEPT ![next] = @ + 1]
    BY <1>5 DEF EnterNode, storeVars, bounds
  <2>2. next # "finish" => next \in Tools
    BY <1>1, <1>5, NodeFacts DEF EnterNode, PlaceInv
  <2>3. attempts' \in [Tools -> Nat]
    BY <1>1, <2>1, <2>2 DEF LocalTypes
  <2> QED
    BY <1>1, <2>1, <2>3 DEF LocalTypes, States
<1>6. CASE Before \/ After
  <2>1. /\ Rest /\ Counts /\ UNCHANGED <<attempt, runs>>
        /\ pc' \in {"acting", "acknowledging", "storing", "retrying", "interrupted", "rejecting"}
    BY <1>6, CallEffect DEF storeVars, business, bounds
  <2> QED
    BY <1>1, <2>1 DEF LocalTypes, States, Ended
<1>7. CASE Commit \/ CheckFile \/ ReadFile \/ WriteFile
  <2>1. /\ Rest /\ Counts /\ UNCHANGED <<attempt, runs>>
        /\ pc' \in {"acknowledging", "comparing", "writing", "error"}
    BY <1>7 DEF Commit, CheckFile, ReadFile, WriteFile, CommitArtifact, OpenTemporary,
       ReplaceTarget, storeVars, business, bounds
  <2> QED
    BY <1>1, <2>1 DEF LocalTypes, States, Ended
<1>8. CASE FailWrite
  <2>1. /\ Rest /\ UNCHANGED <<attempt, runs, crashes, damages>> /\ pc' = "error"
        /\ errors < Operated.errors /\ errors' = errors + 1
    BY <1>8 DEF FailWrite, DropTemporary, business
  <2>2. errors' \in 0..Operated.errors
    BY <1>1, <2>1
  <2> QED
    BY <1>1, <2>1, <2>2 DEF LocalTypes, States, Ended
<1>9. CASE Retry
  <2>1. /\ Rest /\ Counts /\ UNCHANGED runs /\ pc' \in {"rejecting", "node"}
        /\ \/ UNCHANGED attempt
           \/ attempt # MaxAttempts /\ attempt' = attempt + 1
    BY <1>9 DEF Retry, storeVars, business, bounds
  <2>2. attempt' \in 0..MaxAttempts
    BY <1>1, <2>1 DEF LocalTypes
  <2> QED
    BY <1>1, <2>1, <2>2 DEF LocalTypes, States
<1>10. CASE Store \/ Reject \/ Retain
  <2>1. /\ UNCHANGED <<next, attempts, attempt, runs>> /\ Counts
        /\ pc' \in {"returning", "retaining", "failed"}
    BY <1>10 DEF Store, Reject, Retain, storeVars, bounds
  <2>2. /\ records \in BOOLEAN /\ complete \in BOOLEAN
        /\ rejected \in BOOLEAN /\ retained \in BOOLEAN
    BY <1>1 DEF LocalTypes
  <2>3. records' \in BOOLEAN /\ complete' \in BOOLEAN
    BY <1>10, <2>2 DEF Store, Reject, Retain
  <2>4. rejected' \in BOOLEAN /\ retained' \in BOOLEAN
    BY <1>10, <2>2 DEF Store, Reject, Retain
  <2>5. Booleans'
    BY <2>3, <2>4
  <2> QED
    BY <1>1, <2>1, <2>5 DEF LocalTypes, States, Ended
<1>11. CASE Checkpoint
  <2>1. /\ UNCHANGED <<records, complete, rejected, retained, attempts, runs>> /\ Counts
        /\ pc' \in {"complete", "node"} /\ attempt' = 1
        /\ pc = "returning" /\ next' = Following[next]
    BY <1>11 DEF Checkpoint, storeVars, business, bounds
  <2>2. next \in Nodes
    BY <1>1, <2>1 DEF PlaceInv, Leaving
  <2>3. next' \in Nodes \union {"none", "end"} /\ attempt' \in 0..MaxAttempts
    BY <1>1, <2>1, <2>2, NodeFacts DEF Tools
  <2> QED
    BY <1>1, <2>1, <2>3 DEF LocalTypes, States, Ended
<1>12. CASE Rerun
  <2>1. Rest /\ Counts /\ UNCHANGED <<attempt, runs>> /\ pc' = "idle"
    BY <1>12 DEF Rerun, storeVars, business, bounds
  <2> QED
    BY <1>1, <2>1 DEF LocalTypes, States
<1>13. CASE Kill
  <2>1. /\ Rest /\ UNCHANGED <<attempt, runs, errors, damages>> /\ pc' = "killed"
        /\ crashes < Operated.crashes /\ crashes' = crashes + 1
    BY <1>13 DEF Kill, storeVars, business
  <2>2. crashes' \in 0..Operated.crashes
    BY <1>1, <2>1
  <2> QED
    BY <1>1, <2>1, <2>2 DEF LocalTypes, States, Ended
<1>14. CASE Damage
  <2>1. /\ Rest /\ UNCHANGED <<attempt, runs, errors, crashes, pc>>
        /\ damages < Operated.damages /\ damages' = damages + 1
    BY <1>14 DEF Damage, DamageFile, business, bounds
  <2>2. damages' <= Operated.damages
    BY <1>1, <2>1
  <2> QED
    BY <1>1, <2>1, <2>2 DEF LocalTypes
<1> QED
  BY <1>2, <1>3, <1>4, <1>5, <1>6, <1>7, <1>8, <1>9, <1>10, <1>11, <1>12, <1>13, <1>14
  DEF Next, Step

-----------------------------------------------------------------------------
(* The inductive step                                                        *)

\* What a step leaves to rely on: nothing durable is taken back, except that
\* damage to the file is counted.
Progress ==
    /\ artifact => artifact'
    /\ records => records'
    /\ complete => complete'
    /\ file = "current" \/ damages > 0 => file' = "current" \/ damages' > 0
    /\ commits' = IF artifact' THEN 1 ELSE 0

\* Every step of the graph or its operator keeps that progress.
LEMMA ProgressStep == IInv /\ [Next]_vars => Progress
<1> SUFFICES ASSUME IInv, [Next]_vars PROVE Progress
  OBVIOUS
<1>1. /\ commits = IF artifact THEN 1 ELSE 0
      /\ damages \in Nat /\ artifact \in BOOLEAN
  BY Parts DEF IInv, PlaceInv, StoreTypeOK
<1>2. CASE UNCHANGED <<storeVars, records, complete>>
  BY <1>1, <1>2 DEF Progress, storeVars
<1>3. CASE \/ Start \/ Resume \/ EnterNode \/ Retry \/ Checkpoint \/ Reject
           \/ Retain \/ Rerun \/ Kill \/ UNCHANGED vars
  BY <1>2, <1>3 DEF Start, Resume, EnterNode, Retry, Checkpoint, Reject, Retain, Rerun,
     Kill, vars, storeVars, business
<1>4. CASE Before \/ After
  BY <1>2, <1>4, CallEffect DEF business
<1>5. CASE Store
  <2>1. /\ UNCHANGED <<artifact, commits, file, damages>>
        /\ records => records'
        /\ complete => complete'
    BY <1>5 DEF Store, storeVars
  <2> QED
    BY <1>1, <2>1 DEF Progress
<1>6. CASE Commit
  BY <1>1, <1>6 DEF Commit, CommitArtifact, business, Progress
<1>7. CASE CheckFile \/ ReadFile \/ WriteFile \/ FailWrite
  <2>1. /\ UNCHANGED <<artifact, commits, damages, records, complete>>
        /\ file' \in {file, "current"}
    BY <1>7 DEF CheckFile, ReadFile, WriteFile, FailWrite, OpenTemporary, ReplaceTarget,
       DropTemporary, storeVars, business
  <2> QED
    BY <1>1, <2>1 DEF Progress
<1>8. CASE Damage
  <2>1. /\ UNCHANGED <<artifact, commits, records, complete>>
        /\ damages' = damages + 1
    BY <1>8 DEF Damage, DamageFile, business
  <2>2. damages' > 0
    BY <1>1, <2>1
  <2> QED
    BY <1>1, <2>1, <2>2 DEF Progress
<1> QED
  BY <1>3, <1>4, <1>5, <1>6, <1>7, <1>8 DEF Next, Step

\* The checkpoint moves on only when the node's effects are durable.
LEMMA BackedStep == IInv /\ [Next]_vars => CheckpointBacked'
<1> SUFFICES ASSUME IInv, [Next]_vars PROVE CheckpointBacked'
  OBVIOUS
<1>1. CheckpointBacked /\ PlaceInv /\ Progress
  BY ProgressStep DEF IInv
<1>2. next \in Tools \union {"finish", "none", "end"}
  BY Parts, NodeFacts DEF LocalTypes
<1>3. CASE UNCHANGED next
  BY <1>1, <1>3 DEF CheckpointBacked, PlaceInv, Progress, Materialized
<1>4. CASE Resume
  BY <1>1, <1>3, <1>4 DEF Resume, CheckpointBacked
<1>5. CASE Checkpoint
  <2>1. pc = "returning" /\ next' = Following[next]
    BY <1>5 DEF Checkpoint
  <2>2. next \in Tools \union {"finish"}
    BY <1>1, <1>2, <2>1, NodeFacts DEF PlaceInv, Leaving
  <2>3. \/ next = "retrieve_records" /\ next' = "build_artifact" /\ records
        \/ next = "build_artifact" /\ next' = "commit_artifact" /\ records
        \/ next = "commit_artifact" /\ next' = "export_artifact" /\ records /\ artifact
        \/ next = "export_artifact" /\ next' = "finish" /\ records /\ artifact
            /\ (file = "current" \/ damages > 0)
        \/ next = "finish" /\ next' = "end" /\ complete /\ artifact
            /\ (file = "current" \/ damages > 0)
    BY <1>1, <2>1, <2>2, NodeFacts DEF CheckpointBacked, PlaceInv, Leaving, Tools, Materialized
  <2> QED
    BY <1>1, <2>3, NodeFacts DEF CheckpointBacked, Progress, Materialized, Tools
<1>6. CASE \/ Start \/ EnterNode \/ Retry \/ Store \/ Reject \/ Retain \/ Rerun \/ Kill
           \/ Commit \/ CheckFile \/ ReadFile \/ WriteFile \/ FailWrite \/ Damage
           \/ UNCHANGED vars
  BY <1>3, <1>6 DEF Start, EnterNode, Retry, Store, Reject, Retain, Rerun, Kill, Commit,
     CheckFile, ReadFile, WriteFile, FailWrite, Damage, vars
<1>7. CASE Before \/ After
  BY <1>3, <1>7, CallEffect
<1> QED
  BY <1>4, <1>5, <1>6, <1>7 DEF Next, Step

\* An invocation is where its checkpoint and the store allow it to be.
LEMMA PlaceStep == IInv /\ [Next]_vars => PlaceInv'
<1> SUFFICES ASSUME IInv, [Next]_vars PROVE PlaceInv'
  OBVIOUS
<1>1. /\ PlaceInv /\ RejectInv /\ Progress /\ LocalTypes /\ StoreTypeOK
      /\ CheckpointBacked
      /\ binding' = binding /\ Operated' = Operated
      /\ next \in Tools \union {"finish", "none", "end"}
  BY Parts, ProgressStep, StoreTypeStep, NodeFacts DEF IInv, Operated, LocalTypes
<1>2. binding' \in Operated'.schedules
  BY <1>1 DEF PlaceInv
<1>3. CASE UNCHANGED vars
  BY <1>1, <1>3 DEF vars, PlaceInv
<1>4. CASE Start
  BY <1>1, <1>2, <1>4 DEF Start, PlaceInv, Progress, Calling, Leaving, Tools
<1>5. CASE Resume
  <2>1. CASE pc' \in {"failed", "complete"} /\ UNCHANGED next
    <3>1. (pc' = "failed" => next \in Tools) /\ (pc' = "complete" => next = "end")
      BY <1>1, <1>5, <2>1 DEF Resume, RejectInv
    <3> QED
      BY <1>1, <1>2, <2>1, <3>1 DEF PlaceInv, Progress, Calling, Leaving, Tools
  <2>2. CASE /\ next # "end" /\ pc' = "node"
             /\ next' = IF next = "none" THEN "retrieve_records" ELSE next
    <3>1. next' \in Tools \union {"finish"}
      BY <1>1, <2>2 DEF Tools
    <3> QED
      BY <1>1, <1>2, <2>2, <3>1, NodeFacts DEF PlaceInv, Progress, Calling, Leaving, Tools
  <2> QED
    BY <1>5, <2>1, <2>2 DEF Resume
<1>6. CASE EnterNode
  <2>1. /\ pc = "node" /\ UNCHANGED next /\ next \in Tools \union {"finish"}
        /\ \/ next = "finish" /\ pc' = "storing"
           \/ next # "finish" /\ pc' = "boundary"
    BY <1>1, <1>6, NodeFacts DEF EnterNode, PlaceInv, Leaving
  <2> QED
    BY <1>1, <1>2, <2>1, NodeFacts DEF PlaceInv, Progress, Calling, Leaving, Tools
<1>7. CASE Before \/ After
  <2>1. PICK outcome \in Faults!Outcomes :
                /\ outcome = "none" => pc' \in {"acting", "acknowledging", "storing"}
                /\ outcome # "none" => pc' \in {"retrying", "interrupted", "rejecting"}
                /\ pc' = "acting" => next \in {"commit_artifact", "export_artifact"}
                /\ pc' = "acknowledging" => next \notin {"commit_artifact", "export_artifact"}
                /\ pc' = "storing" => pc = "acknowledging"
    BY <1>7, CallEffect
  <2>2. next \in Tools /\ UNCHANGED next
    BY <1>7, CallEffect
  <2> QED
    BY <1>1, <1>2, <2>1, <2>2, NodeFacts DEF PlaceInv, Progress, Calling, Leaving, Tools
<1>8. CASE Commit
  BY <1>1, <1>2, <1>8 DEF Commit, CommitArtifact, PlaceInv, Progress, Calling, Leaving, Tools
<1>9. CASE CheckFile \/ ReadFile
  <2>1. /\ next = "export_artifact" /\ UNCHANGED next
        /\ pc' \in {"comparing", "writing", "error", "acknowledging"}
        /\ pc' = "acknowledging" => file' = "current"
    BY <1>1, <1>9 DEF CheckFile, ReadFile, PlaceInv, storeVars, Materialized
  <2>2. pc' = "writing" => temps' > 0
    <3>1. pc' = "writing" => temps' = temps + 1
      BY <1>9 DEF CheckFile, ReadFile, OpenTemporary
    <3> QED
      BY <1>1, <3>1 DEF StoreTypeOK
  <2> QED
    BY <1>1, <1>2, <2>1, <2>2 DEF PlaceInv, Progress, Calling, Leaving, Tools
<1>10. CASE WriteFile
  BY <1>1, <1>2, <1>10 DEF WriteFile, ReplaceTarget, PlaceInv, Progress, Calling, Leaving, Tools
<1>11. CASE FailWrite
  BY <1>1, <1>2, <1>11 DEF FailWrite, PlaceInv, Progress, Calling, Leaving, Tools
<1>12. CASE Retry
  <2>1. /\ next \in Tools /\ UNCHANGED next /\ pc' \in {"rejecting", "node"}
    BY <1>1, <1>12 DEF Retry, PlaceInv
  <2> QED
    BY <1>1, <1>2, <2>1, NodeFacts DEF PlaceInv, Progress, Calling, Leaving, Tools
<1>13. CASE Store
  <2>1. /\ next \in Tools \union {"finish"} /\ UNCHANGED next
        /\ pc = "storing" /\ pc' = "returning"
        /\ next = "retrieve_records" => records'
        /\ next = "finish" => complete'
    BY <1>1, <1>13, NodeFacts DEF Store, PlaceInv, Leaving
  <2> QED
    BY <1>1, <1>2, <2>1, NodeFacts DEF PlaceInv, Progress, Calling, Leaving, Tools
<1>14. CASE Checkpoint
  <2>1. /\ next \in Tools \union {"finish"}
        /\ \/ next = "finish" /\ next' = "end" /\ pc' = "complete"
           \/ next # "finish" /\ next' \in Tools \union {"finish"} /\ pc' = "node"
    BY <1>1, <1>14, NodeFacts DEF Checkpoint, PlaceInv, Leaving, Tools
  <2> QED
    BY <1>1, <1>2, <2>1, NodeFacts DEF PlaceInv, Progress, Calling, Leaving, Tools
<1>15. CASE Reject \/ Retain
  <2>1. next \in Tools /\ UNCHANGED next /\ pc' \in {"retaining", "failed"}
    BY <1>1, <1>15 DEF Reject, Retain, PlaceInv
  <2> QED
    BY <1>1, <1>2, <2>1, NodeFacts DEF PlaceInv, Progress, Calling, Leaving, Tools
<1>16. CASE Rerun \/ Kill
  <2>1. UNCHANGED next /\ pc' \in {"idle", "killed"}
    BY <1>16 DEF Rerun, Kill
  <2> QED
    BY <1>1, <1>2, <2>1, NodeFacts DEF PlaceInv, Progress, Calling, Leaving, Tools
<1>17. CASE Damage
  <2>1. UNCHANGED <<next, pc, temps, artifact, records, complete>>
    BY <1>17 DEF Damage, DamageFile, business
  <2> QED
    BY <1>1, <1>2, <2>1 DEF PlaceInv, Progress
<1> QED
  BY <1>3, <1>4, <1>5, <1>6, <1>7, <1>8, <1>9, <1>10, <1>11, <1>12, <1>13, <1>14, <1>15, <1>16,
     <1>17 DEF Next, Step

\* A stored receipt and a rejection that no kill cut short are final.
LEMMA RejectStep == IInv /\ [Next]_vars => RejectInv'
<1> SUFFICES ASSUME IInv, [Next]_vars PROVE RejectInv'
  OBVIOUS
<1>1. RejectInv /\ PlaceInv /\ LocalTypes /\ crashes \in Nat
  BY Parts DEF IInv
<1>2. rejected \in BOOLEAN /\ retained \in BOOLEAN
  BY <1>1 DEF LocalTypes
<1>3. CASE UNCHANGED vars
  BY <1>1, <1>3 DEF vars, RejectInv
<1>4. CASE Start \/ EnterNode \/ Retry \/ Store
  BY <1>1, <1>2, <1>4 DEF Start, EnterNode, Retry, Store, RejectInv, Ended, business, bounds
<1>5. CASE Resume
  <2>1. CASE retained
    BY <1>1, <1>5, <2>1 DEF Resume, RejectInv, Ended, business, bounds
  <2>2. CASE ~retained
    BY <1>1, <1>5, <2>2 DEF Resume, RejectInv, Ended, business, bounds
  <2> QED
    BY <2>1, <2>2
<1>6. CASE Before \/ After
  <2>1. /\ UNCHANGED <<next, retained, rejected, crashes>> /\ pc \in {"boundary", "acknowledging"}
    BY <1>6, CallEffect DEF business, bounds, Before, After
  <2> QED
    BY <1>1, <2>1 DEF RejectInv, Ended
<1>7. CASE Commit \/ CheckFile \/ ReadFile \/ WriteFile \/ FailWrite
  <2>1. /\ UNCHANGED <<next, retained, rejected, crashes>>
        /\ pc \in {"acting", "comparing", "writing"}
    BY <1>7 DEF Commit, CheckFile, ReadFile, WriteFile, FailWrite, business, bounds
  <2> QED
    BY <1>1, <2>1 DEF RejectInv, Ended
<1>8. CASE Checkpoint
  BY <1>1, <1>8 DEF Checkpoint, RejectInv, Ended, business, bounds
<1>9. CASE Reject
  BY <1>1, <1>9 DEF Reject, RejectInv, Ended, bounds
<1>10. CASE Retain
  BY <1>1, <1>10 DEF Retain, RejectInv, PlaceInv, Ended, bounds
<1>11. CASE Rerun
  <2>1. pc \in Ended /\ pc' = "idle" /\ UNCHANGED <<next, retained, rejected, crashes>>
    BY <1>1, <1>11, GraphAssumption DEF Rerun, business, bounds, IsSetting, Operated, LocalTypes
  <2> QED
    BY <1>1, <2>1 DEF RejectInv, Ended
<1>12. CASE Kill
  <2>1. crashes' # 0 /\ pc' = "killed" /\ UNCHANGED <<next, retained>>
    BY <1>1, <1>12 DEF Kill, business
  <2> QED
    BY <1>1, <2>1 DEF RejectInv, Ended
<1>13. CASE Damage
  BY <1>1, <1>13 DEF Damage, RejectInv, business, bounds
<1> QED
  BY <1>3, <1>4, <1>5, <1>6, <1>7, <1>8, <1>9, <1>10, <1>11, <1>12, <1>13 DEF Next, Step

-----------------------------------------------------------------------------
(* Attempts                                                                  *)

\* Injections and disturbances are counted.
LEMMA Counted ==
    ASSUME Faults!TypeOK, crashes \in Nat, errors \in Nat, damages \in Nat, NEW t \in Tools
    PROVE  /\ IsFiniteSet(Injected(t)) /\ Cardinality(Injected(t)) \in Nat
           /\ Disturbances(t) \in Nat /\ Explained(t) \in Nat
<1>1. Len(journal) \in Nat /\ DOMAIN journal = 1..Len(journal)
  BY DEF Faults!TypeOK
<1>2. Injected(t) \subseteq 1..Len(journal) /\ IsFiniteSet(1..Len(journal))
  BY <1>1, FS_Interval DEF Injected
<1>3. IsFiniteSet(Injected(t)) /\ Cardinality(Injected(t)) \in Nat
  BY <1>2, FS_Subset, FS_CardinalityType
<1>4. Disturbances(t) \in Nat
  BY DEF Disturbances
<1> QED
  BY <1>3, <1>4 DEF Explained

\* The same in the next state.
LEMMA CountedNext ==
    ASSUME (Faults!TypeOK)', crashes' \in Nat, errors' \in Nat, damages' \in Nat,
           NEW t \in Tools
    PROVE  /\ IsFiniteSet(Injected(t)') /\ Cardinality(Injected(t)') \in Nat
           /\ Disturbances(t)' \in Nat /\ Explained(t)' \in Nat
<1>1. Len(journal') \in Nat /\ DOMAIN journal' = 1..Len(journal')
  BY DEF Faults!TypeOK
<1>2. Injected(t)' \subseteq 1..Len(journal') /\ IsFiniteSet(1..Len(journal'))
  BY <1>1, FS_Interval DEF Injected
<1>3. IsFiniteSet(Injected(t)') /\ Cardinality(Injected(t)') \in Nat
  BY <1>2, FS_Subset, FS_CardinalityType
<1>4. Disturbances(t)' \in Nat
  <2>1. Disturbances(t)' = crashes' + errors' + (IF t = "export_artifact" THEN damages' ELSE 0)
    BY DEF Disturbances
  <2>2. \A a, b, c \in Nat : a + b + (IF t = "export_artifact" THEN c ELSE 0) \in Nat
    OBVIOUS
  <2>3. crashes' + errors' + (IF t = "export_artifact" THEN damages' ELSE 0) \in Nat
    BY <2>2
  <2> QED
    BY <2>1, <2>3
<1> QED
  BY <1>3, <1>4 DEF Explained

\* Explanations accumulate, and an injection, a kill, a failed write and, for the
\* export, damage are one more each.
Accumulates(t) ==
    /\ Explained(t) \in Nat /\ Explained(t)' \in Nat
    /\ Explained(t) <= Explained(t)'
    /\ crashes' + errors' > crashes + errors => Explained(t) + 1 <= Explained(t)'
    /\ t = "export_artifact" /\ damages' > damages => Explained(t) + 1 <= Explained(t)'

\* Steps that only add to the counters and the journal accumulate explanations.
LEMMA Accumulation ==
    ASSUME IInv, (Faults!TypeOK)', crashes' \in Nat, errors' \in Nat, damages' \in Nat,
           crashes <= crashes', errors <= errors', damages <= damages',
           NEW t \in Tools, Injected(t) \subseteq Injected(t)'
    PROVE  /\ Accumulates(t)
           /\ ~(Injected(t)' \subseteq Injected(t)) => Explained(t) + 1 <= Explained(t)'
<1> DEFINE n == Cardinality(Injected(t))
<1> DEFINE m == Cardinality(Injected(t)')
<1> DEFINE d == Disturbances(t)
<1> DEFINE e == Disturbances(t)'
<1>1. /\ IsFiniteSet(Injected(t)') /\ n \in Nat /\ m \in Nat /\ d \in Nat /\ e \in Nat
      /\ Explained(t) \in Nat /\ Explained(t)' \in Nat
  BY Parts, Counted, CountedNext
<1>2. n <= m /\ (~(Injected(t)' \subseteq Injected(t)) => n < m)
  <2>1. n <= m
    BY <1>1, FS_Subset
  <2>2. ASSUME n = m PROVE Injected(t)' = Injected(t)
    BY <1>1, <2>2, FS_Subset
  <2> QED
    BY <1>1, <2>1, <2>2
<1>3. /\ d <= e
      /\ crashes' + errors' > crashes + errors => d + 1 <= e
      /\ t = "export_artifact" /\ damages' > damages => d + 1 <= e
  BY Parts DEF Disturbances
<1>4. Explained(t) = n + d /\ Explained(t)' = m + e
  BY DEF Explained
<1> HIDE DEF n, m, d, e
<1> QED
  BY <1>1, <1>2, <1>3, <1>4 DEF Accumulates

\* Every step accumulates.
LEMMA AccumulationStep ==
    ASSUME IInv, [Next]_vars
    PROVE  /\ \A t \in Tools : Accumulates(t)
           /\ (Before \/ After) /\ pc' \in {"retrying", "interrupted", "rejecting"} =>
                \A t \in Tools : t = next => Explained(t) + 1 <= Explained(t)'
<1>1. /\ Faults!TypeOK /\ (Faults!TypeOK)' /\ StoreTypeOK' /\ LocalTypes'
      /\ crashes \in Nat /\ errors \in Nat /\ damages \in Nat
      /\ Operated' = Operated /\ Operated.crashes \in Nat /\ Operated.errors \in Nat
  BY Parts, StoreTypeStep, LocalTypeStep DEF Operated
<1>2. crashes' \in Nat /\ errors' \in Nat /\ damages' \in Nat
  BY <1>1 DEF LocalTypes, StoreTypeOK
<1>3. CASE Before \/ After
  <2>1. /\ next \in Tools /\ UNCHANGED <<crashes, errors, damages>>
    BY <1>3, CallEffect DEF bounds, storeVars
  <2>2. PICK outcome \in Faults!Outcomes :
          /\ \A t \in Tools : t = next => Injects(t, outcome)
          /\ outcome = "none" => pc' \in {"acting", "acknowledging", "storing"}
    BY <1>3, CallEffect
  <2>3. \A u \in Tools : Injected(u) \subseteq Injected(u)'
    BY <2>1, <2>2 DEF Injects
  <2>4. \A t \in Tools : t = next /\ outcome # "none" => ~(Injected(t)' \subseteq Injected(t))
    BY <2>2 DEF Injects
  <2>5. crashes <= crashes' /\ errors <= errors' /\ damages <= damages'
    BY <1>1, <2>1
  <2>6. \A t \in Tools : Accumulates(t)
    BY <1>1, <1>2, <2>3, <2>5, Accumulation
  <2>7. \A t \in Tools :
          t = next /\ outcome # "none" => Explained(t) + 1 <= Explained(t)'
    BY <1>1, <1>2, <2>1, <2>3, <2>4, <2>5, Accumulation
  <2> QED
    BY <2>2, <2>6, <2>7
<1>4. ASSUME UNCHANGED faultVars, crashes <= crashes', errors <= errors', damages <= damages'
      PROVE  \A t \in Tools : Accumulates(t)
  <2>1. \A t \in Tools : Injected(t) \subseteq Injected(t)'
    BY <1>1, <1>4, JournalFrame
  <2> QED
    BY <1>1, <1>2, <1>4, <2>1, Accumulation
<1>5. CASE ~(Before \/ After)
  <2>1. UNCHANGED faultVars
    BY <1>5 DEF Next, Step, Start, Resume, EnterNode, Commit, CheckFile, ReadFile, WriteFile,
       FailWrite, Retry, Store, Checkpoint, Reject, Retain, Rerun, Kill, Damage, vars, faultVars
  <2>2. /\ crashes' \in {crashes, crashes + 1} /\ errors' \in {errors, errors + 1}
        /\ damages' \in {damages, damages + 1}
    BY <1>5 DEF Next, Step, Start, Resume, EnterNode, Commit, CheckFile, ReadFile, WriteFile,
       FailWrite, Retry, Store, Checkpoint, Reject, Retain, Rerun, Kill, Damage, vars, bounds,
       storeVars, CommitArtifact, OpenTemporary, ReplaceTarget, DropTemporary, DamageFile
  <2> QED
    BY <1>1, <1>4, <1>5, <2>1, <2>2
<1> QED
  BY <1>3, <1>5

\* Each attempt has a reason: the first one, an injection, or a disturbance.
LEMMA AttemptStep == IInv /\ [Next]_vars => AttemptInv'
<1> SUFFICES ASSUME IInv, [Next]_vars PROVE AttemptInv'
  OBVIOUS
<1> DEFINE Turns ==
      /\ next = "none" => attempts["retrieve_records"] = 0
      /\ next \in {"none", "retrieve_records"} => attempts["build_artifact"] = 0
      /\ next \in {"none", "retrieve_records", "build_artifact"} =>
          attempts["commit_artifact"] = 0
      /\ next \in {"none", "retrieve_records", "build_artifact", "commit_artifact"} =>
          attempts["export_artifact"] = 0
<1> DEFINE Reasons(t) ==
      /\ attempts[t] <= 1 + Explained(t)
      /\ next = t /\ pc \notin Calling \union Leaving => attempts[t] <= Explained(t)
      /\ next = t /\ pc = "comparing" /\ file = "absent" => attempts[t] <= Explained(t)
<1>1. /\ Turns /\ PlaceInv /\ next \in Tools \union {"finish", "none", "end"}
      /\ attempts \in [Tools -> Nat] /\ crashes \in Nat /\ errors \in Nat /\ damages \in Nat
      /\ \A t \in Tools : Accumulates(t) /\ Reasons(t)
  BY Parts, AccumulationStep, NodeFacts DEF IInv, AttemptInv, LocalTypes
<1>2. SUFFICES Turns' /\ \A t \in Tools : Reasons(t)'
  BY DEF AttemptInv
<1>3. ASSUME UNCHANGED <<attempts, next>>,
             \A t \in Tools :
                \/ Explained(t) + 1 <= Explained(t)'
                \/ t # next
                \/ /\ pc' \notin Calling \union Leaving =>
                        \/ pc \notin Calling \union Leaving
                        \/ pc = "comparing" /\ file = "absent"
                   /\ pc' = "comparing" /\ file' = "absent" =>
                        \/ pc \notin Calling \union Leaving
                        \/ pc = "comparing" /\ file = "absent"
      PROVE  Turns' /\ \A t \in Tools : Reasons(t)'
  <2>1. Turns'
    BY <1>1, <1>3
  <2>2. ASSUME NEW t \in Tools PROVE Reasons(t)'
    <3> DEFINE e == Explained(t)
    <3> DEFINE f == Explained(t)'
    <3>1. e \in Nat /\ f \in Nat /\ e <= f /\ attempts[t] \in Nat
      BY <1>1 DEF Accumulates
    <3>2. /\ attempts[t] <= 1 + e
          /\ next = t /\ pc \notin Calling \union Leaving => attempts[t] <= e
          /\ next = t /\ pc = "comparing" /\ file = "absent" => attempts[t] <= e
      BY <1>1
    <3>3. \/ e + 1 <= f
          \/ t # next
          \/ /\ pc' \notin Calling \union Leaving =>
                  \/ pc \notin Calling \union Leaving
                  \/ pc = "comparing" /\ file = "absent"
             /\ pc' = "comparing" /\ file' = "absent" =>
                  \/ pc \notin Calling \union Leaving
                  \/ pc = "comparing" /\ file = "absent"
      BY <1>3
    <3> HIDE DEF e, f
    <3>4. /\ attempts[t] <= 1 + f
          /\ next = t /\ pc' \notin Calling \union Leaving => attempts[t] <= f
          /\ next = t /\ pc' = "comparing" /\ file' = "absent" => attempts[t] <= f
      BY <3>1, <3>2, <3>3
    <3> QED
      BY <1>3, <3>4 DEF f
  <2> QED
    BY <2>1, <2>2
<1>4. CASE UNCHANGED vars
  BY <1>3, <1>4 DEF vars
<1>5. CASE Start \/ Retry \/ Rerun
  <2>1. /\ UNCHANGED <<attempts, next>> /\ pc \notin Calling \union Leaving
        /\ pc' \notin Calling
    BY <1>1, <1>5, GraphAssumption, Parts DEF Start, Retry, Rerun, business, Calling, Leaving,
       Operated, IsSetting, Ended, LocalTypes
  <2> QED
    BY <1>3, <2>1 DEF Calling
<1>6. CASE Reject \/ Retain
  <2>1. /\ UNCHANGED <<attempts, next>> /\ pc \notin Calling \union Leaving
        /\ pc' \notin Calling
    BY <1>6 DEF Reject, Retain, Calling, Leaving
  <2> QED
    BY <1>3, <2>1 DEF Calling
<1>7. CASE Store
  <2>1. UNCHANGED <<attempts, next>> /\ pc' = "returning"
    BY <1>7 DEF Store
  <2> QED
    BY <1>3, <2>1 DEF Calling, Leaving
<1>8. CASE Before \/ After
  <2>1. UNCHANGED <<attempts, next>>
    BY <1>8, CallEffect DEF business
  <2>2. CASE pc' \in {"acting", "acknowledging", "storing"}
    BY <1>3, <2>1, <2>2 DEF Calling, Leaving
  <2>3. CASE pc' \in {"retrying", "interrupted", "rejecting"}
    <3>1. \A t \in Tools : t = next => Explained(t) + 1 <= Explained(t)'
      BY <1>8, <2>3, AccumulationStep
    <3> QED
      BY <1>3, <2>1, <3>1
  <2> QED
    BY <1>8, <2>2, <2>3, CallEffect
<1>9. CASE Commit \/ WriteFile
  <2>1. UNCHANGED <<attempts, next>> /\ pc' = "acknowledging"
    BY <1>9 DEF Commit, WriteFile, business
  <2> QED
    BY <1>3, <2>1 DEF Calling
<1>10. CASE CheckFile
  <2>1. /\ UNCHANGED <<attempts, next>> /\ pc' \in {"comparing", "writing"}
        /\ pc' = "comparing" => file' # "absent"
    BY <1>10 DEF CheckFile, Exists, business, storeVars
  <2> QED
    BY <1>3, <2>1 DEF Calling
<1>11. CASE ReadFile
  <2>1. /\ UNCHANGED <<attempts, next>> /\ pc = "comparing"
        /\ \/ pc' = "error" /\ file = "absent"
           \/ pc' \in {"acknowledging", "writing"}
    BY <1>11 DEF ReadFile, Exists, business
  <2> QED
    BY <1>3, <2>1 DEF Calling
<1>12. CASE FailWrite \/ Kill
  <2>1. /\ UNCHANGED <<attempts, next>>
        /\ \/ errors' = errors + 1 /\ crashes' = crashes
           \/ errors' = errors /\ crashes' = crashes + 1
    BY <1>12 DEF FailWrite, Kill, business
  <2>2. crashes' + errors' > crashes + errors
    BY <1>1, <2>1
  <2>3. \A t \in Tools : Explained(t) + 1 <= Explained(t)'
    BY <1>1, <2>2 DEF Accumulates
  <2> QED
    BY <1>3, <2>1, <2>3
<1>13. CASE Damage
  <2>1. UNCHANGED <<attempts, next, pc>> /\ damages' = damages + 1
    BY <1>13 DEF Damage, DamageFile, business
  <2>2. \A t \in Tools : t = "export_artifact" => Explained(t) + 1 <= Explained(t)'
    BY <1>1, <2>1 DEF Accumulates
  <2>3. CASE pc = "comparing"
    <3>1. next = "export_artifact"
      BY <1>1, <2>3 DEF PlaceInv
    <3> QED
      BY <1>3, <2>1, <2>2, <3>1
  <2>4. CASE pc # "comparing"
    BY <1>3, <2>1, <2>4
  <2> QED
    BY <2>3, <2>4
<1>14. CASE Resume
  <2>1. UNCHANGED attempts /\ pc = "resuming" /\ pc' \notin Calling \union Leaving
    BY <1>14 DEF Resume, business, Calling, Leaving
  <2>2. CASE UNCHANGED next
    BY <1>3, <2>1, <2>2 DEF Calling, Leaving
  <2>3. CASE next = "none" /\ next' = "retrieve_records"
    <3>1. Turns'
      BY <1>1, <2>1, <2>3
    <3>2. ASSUME NEW t \in Tools PROVE Reasons(t)'
      <4>1. attempts'[t] = 0
        BY <1>1, <2>1, <2>3 DEF Tools
      <4>2. Explained(t)' \in Nat
        BY <1>1 DEF Accumulates
      <4> DEFINE f == Explained(t)'
      <4> HIDE DEF f
      <4>3. attempts'[t] <= f /\ attempts'[t] <= 1 + f
        BY <4>1, <4>2 DEF f
      <4> QED
        BY <4>3 DEF f
    <3> QED
      BY <3>1, <3>2
  <2> QED
    BY <1>14, <2>2, <2>3 DEF Resume
<1>15. CASE EnterNode
  <2>1. pc = "node" /\ UNCHANGED next /\ next \in Tools \union {"finish"}
    BY <1>1, <1>15, NodeFacts DEF EnterNode, PlaceInv, Leaving
  <2>2. CASE next = "finish"
    <3>1. UNCHANGED attempts /\ pc' = "storing"
      BY <1>15, <2>2 DEF EnterNode
    <3> QED
      BY <1>3, <2>1, <3>1 DEF Calling, Leaving
  <2>3. CASE next # "finish"
    <3>1. /\ next \in Tools /\ pc' = "boundary"
          /\ attempts' = [attempts EXCEPT ![next] = attempts[next] + 1]
      BY <1>15, <2>1, <2>3 DEF EnterNode
    <3>2. Turns'
      BY <1>1, <2>1, <3>1 DEF Tools
    <3>3. ASSUME NEW t \in Tools PROVE Reasons(t)'
      <4> DEFINE e == Explained(t)
      <4> DEFINE f == Explained(t)'
      <4>1. e \in Nat /\ f \in Nat /\ e <= f /\ attempts[t] \in Nat
        BY <1>1 DEF Accumulates
      <4>2. attempts[t] <= 1 + e /\ (next = t => attempts[t] <= e)
        BY <1>1, <2>1 DEF Calling, Leaving
      <4>3. attempts'[t] = IF t = next THEN attempts[t] + 1 ELSE attempts[t]
        BY <1>1, <3>1
      <4> HIDE DEF e, f
      <4>4. attempts'[t] <= 1 + f
        BY <4>1, <4>2, <4>3
      <4>5. pc' \in Calling /\ pc' # "comparing"
        BY <3>1 DEF Calling
      <4> QED
        BY <4>4, <4>5 DEF f
    <3> QED
      BY <3>2, <3>3
  <2> QED
    BY <2>2, <2>3
<1>16. CASE Checkpoint
  <2>1. /\ UNCHANGED attempts /\ pc = "returning" /\ next' = Following[next]
        /\ pc' \in {"complete", "node"}
    BY <1>16 DEF Checkpoint, business
  <2>2. \/ next = "retrieve_records" /\ next' = "build_artifact"
        \/ next = "build_artifact" /\ next' = "commit_artifact"
        \/ next = "commit_artifact" /\ next' = "export_artifact"
        \/ next = "export_artifact" /\ next' = "finish"
        \/ next = "finish" /\ next' = "end"
    BY <1>1, <2>1, NodeFacts DEF PlaceInv, Leaving, Tools
  <2>3. Turns'
    BY <1>1, <2>1, <2>2
  <2>4. ASSUME NEW t \in Tools PROVE Reasons(t)'
    <3> DEFINE e == Explained(t)
    <3> DEFINE f == Explained(t)'
    <3>1. e \in Nat /\ f \in Nat /\ e <= f /\ attempts[t] \in Nat
      BY <1>1 DEF Accumulates
    <3>2. attempts[t] <= 1 + e /\ attempts'[t] = attempts[t]
      BY <1>1, <2>1
    <3>3. next' = t => attempts[t] = 0
      BY <1>1, <2>2 DEF Tools
    <3> HIDE DEF e, f
    <3>4. attempts'[t] <= 1 + f /\ (next' = t => attempts'[t] <= f)
      BY <3>1, <3>2, <3>3
    <3> QED
      BY <3>4 DEF f
  <2> QED
    BY <2>3, <2>4
<1> QED
  BY <1>4, <1>5, <1>6, <1>7, <1>8, <1>9, <1>10, <1>11, <1>12, <1>13, <1>14, <1>15, <1>16
  DEF Next, Step

-----------------------------------------------------------------------------
(* What follows                                                              *)

\* Every step keeps the invariant.
LEMMA StepIInv == IInv /\ [Next]_vars => IInv'
<1> SUFFICES ASSUME IInv, [Next]_vars PROVE IInv'
  OBVIOUS
<1>1. TypeOK'
  BY StoreTypeStep, LocalTypeStep, TypePartsNext
<1> QED
  BY <1>1, BackedStep, PlaceStep, RejectStep, AttemptStep DEF IInv

\* The invariant holds in fresh databases.
LEMMA InitIInv == Init => IInv
<1> SUFFICES ASSUME Init PROVE IInv
  OBVIOUS
<1>1. /\ setting \in DOMAIN Settings /\ mode \in Operated.modes
      /\ binding \in Operated.schedules /\ binding \in Schedules
      /\ Operated.runs \in Nat /\ Operated.crashes \in Nat /\ Operated.damages \in Nat
      /\ Operated.errors \in Nat /\ MaxAttempts \in Nat \ {0}
  BY SettingFacts, GraphAssumption DEF Init
<1>2. StoreTypeOK
  BY DEF Init, StoreInit, StoreTypeOK
<1>3. Faults!TypeOK
  <2>1. calls \in [Faults!Rules -> Nat] /\ journal \in Seq([rule : Faults!Rules, occurrence : Nat])
    BY DEF Init
  <2> QED
    BY <1>1, <2>1 DEF Faults!TypeOK
<1>4. LocalTypes
  <2>1. {records, complete, rejected, retained} \subseteq BOOLEAN
    BY DEF Init
  <2>2. /\ next \in Nodes \union {"none", "end"} /\ pc \in States
        /\ attempts \in [Tools -> Nat]
    BY DEF Init, States
  <2>3. /\ attempt \in 0..MaxAttempts /\ runs \in 0..Operated.runs
        /\ crashes \in 0..Operated.crashes /\ errors \in 0..Operated.errors
        /\ damages <= Operated.damages
    BY <1>1 DEF Init, StoreInit
  <2> QED
    BY <1>1, <2>1, <2>2, <2>3 DEF LocalTypes
<1>5. CheckpointBacked
  BY NodeFacts DEF Init, CheckpointBacked, Tools
<1>6. PlaceInv
  BY <1>1 DEF Init, StoreInit, PlaceInv, Calling, Leaving
<1>7. RejectInv
  BY DEF Init, RejectInv
<1>8. AttemptInv
  <2>1. \A t \in Tools : attempts[t] = 0 /\ Explained(t) \in Nat
    BY <1>3, Counted DEF Init, StoreInit
  <2>2. \A t \in Tools : attempts[t] <= Explained(t) /\ attempts[t] <= 1 + Explained(t)
    BY <2>1
  <2> QED
    BY <2>1, <2>2 DEF AttemptInv, Tools
<1> QED
  BY <1>2, <1>3, <1>4, <1>5, <1>6, <1>7, <1>8, TypeParts DEF IInv

\* The inductive invariant holds throughout.
THEOREM Invariance == Spec => []IInv
BY InitIInv, StepIInv, PTL DEF Spec

\* Although progress and business state commit separately, the graph checkpoint
\* never runs ahead of the store, and no tool is attempted without a reason.
THEOREM GraphKept == Spec => []GraphInv
<1>1. IInv => GraphInv
  <2> SUFFICES ASSUME IInv PROVE GraphInv
    OBVIOUS
  <2>1. TypeOK /\ CheckpointBacked
    BY DEF IInv
  <2>2. ASSUME NEW t \in Tools
        PROVE  attempts[t] <= 1 + Cardinality(Injected(t)) + Disturbances(t)
    <3> DEFINE n == Cardinality(Injected(t))
    <3> DEFINE d == Disturbances(t)
    <3>1. n \in Nat /\ d \in Nat /\ attempts[t] \in Nat
      BY Parts, Counted DEF LocalTypes
    <3>2. attempts[t] <= 1 + (n + d)
      BY DEF IInv, AttemptInv, Explained
    <3> HIDE DEF n, d
    <3>3. attempts[t] <= 1 + n + d
      BY <3>1, <3>2
    <3> QED
      BY <3>3 DEF n, d
  <2> QED
    BY <2>1, <2>2 DEF GraphInv, AttemptsExplained
<1> QED
  BY <1>1, Invariance, PTL

\* A later invocation of a finished graph does nothing to the task, and one of a
\* rejected task attempts nothing (_run_graph_once).
THEOREM Settled == Spec => SettledIsFinal
<1> DEFINE Replay == next = "end" => next' = "end" /\ UNCHANGED <<business, calls, commits, temps>>
<1> DEFINE Final == (retained \/ (rejected /\ crashes = 0)) => UNCHANGED attempts
<1>1. ASSUME IInv, [Next]_vars PROVE [Replay]_vars
  <2> SUFFICES ASSUME next = "end", ~UNCHANGED vars
               PROVE  next' = "end" /\ UNCHANGED <<business, calls, commits, temps>>
    OBVIOUS
  <2>1. pc \in {"idle", "resuming", "killed", "complete"}
    BY <1>1 DEF IInv, PlaceInv
  <2>2. Start \/ Resume \/ Rerun \/ Kill \/ Damage
    <3>1. ~(Before \/ After)
      BY <2>1 DEF Before, After
    <3>2. ~(EnterNode \/ Commit \/ CheckFile \/ ReadFile \/ WriteFile \/ FailWrite)
      BY <2>1 DEF EnterNode, Commit, CheckFile, ReadFile, WriteFile, FailWrite
    <3>3. ~(Retry \/ Store \/ Checkpoint \/ Reject \/ Retain)
      BY <2>1 DEF Retry, Store, Checkpoint, Reject, Retain
    <3> QED
      BY <1>1, <3>1, <3>2, <3>3 DEF Next, Step
  <2>3. next' = "end"
    BY <2>2 DEF Start, Resume, Rerun, Kill, Damage
  <2>4. UNCHANGED <<business, calls, commits, temps>>
    BY <2>2 DEF Start, Resume, Rerun, Kill, Damage, DamageFile, storeVars, faultVars
  <2> QED
    BY <2>3, <2>4
<1>2. ASSUME IInv, [Next]_vars PROVE [Final]_vars
  <2> SUFFICES ASSUME retained \/ (rejected /\ crashes = 0), ~UNCHANGED vars
               PROVE  UNCHANGED attempts
    OBVIOUS
  <2>1. pc # "node"
    BY <1>2 DEF IInv, RejectInv, Ended
  <2>2. ~EnterNode
    BY <2>1 DEF EnterNode
  <2>3. CASE Before \/ After
    BY <1>2, <2>3, CallEffect DEF business
  <2>4. CASE \/ Start \/ Resume \/ Commit \/ CheckFile \/ ReadFile \/ WriteFile \/ FailWrite
             \/ Retry \/ Store \/ Checkpoint \/ Reject \/ Retain \/ Rerun \/ Kill \/ Damage
    BY <2>4 DEF Start, Resume, Commit, CheckFile, ReadFile, WriteFile, FailWrite, Retry, Store,
       Checkpoint, Reject, Retain, Rerun, Kill, Damage, business
  <2> QED
    BY <1>2, <2>2, <2>3, <2>4 DEF Next, Step
<1>3. Spec => [][Replay]_vars
  BY <1>1, Invariance, PTL DEF Spec
<1>4. Spec => [][Final]_vars
  BY <1>2, Invariance, PTL DEF Spec
<1> QED
  BY <1>3, <1>4 DEF SettledIsFinal, ReplayIsNoop, RejectionFinal

\* What a step does to the promise: a commit, a publication, a completion after
\* publication, damage, or nothing.
LEMMA PromiseStep == IInv /\ [Next]_vars => [Promise!Next]_(Promise!promiseVars)
<1> SUFFICES ASSUME IInv, [Next]_vars PROVE [Promise!Next]_(Promise!promiseVars)
  OBVIOUS
<1> DEFINE Same == UNCHANGED <<commits, file, damages, complete>>
<1>1. /\ commits = IF artifact THEN 1 ELSE 0
      /\ artifact \in BOOLEAN /\ damages \in Nat /\ PlaceInv /\ CheckpointBacked
      /\ complete \in BOOLEAN
  BY Parts DEF IInv, PlaceInv, StoreTypeOK, LocalTypes
<1>2. CASE Same
  <2>1. (damages' > 0) = (damages > 0)
    BY <1>2
  <2> QED
    BY <1>2, <2>1 DEF Promise!promiseVars
<1>3. CASE UNCHANGED vars
  BY <1>2, <1>3 DEF vars
<1>4. CASE Damage
  <2>1. /\ file' \in {"absent", "torn"} /\ damages' = damages + 1
        /\ commits' = commits /\ complete' = complete
    BY <1>4 DEF Damage, DamageFile, business
  <2>2. damages' > 0
    BY <1>1, <2>1
  <2> QED
    BY <2>1, <2>2 DEF Promise!Damage, Promise!Next
<1>5. CASE Commit
  <2>1. /\ artifact' = TRUE /\ commits' = IF artifact THEN commits ELSE commits + 1
        /\ UNCHANGED <<file, damages, complete>>
    BY <1>5 DEF Commit, CommitArtifact, business
  <2>2. CASE artifact
    BY <1>2, <2>1, <2>2
  <2>3. CASE ~artifact
    <3>1. commits = 0 /\ commits' = 1
      BY <1>1, <2>1, <2>3
    <3>2. (damages' > 0) = (damages > 0)
      BY <2>1
    <3> QED
      BY <2>1, <3>1, <3>2 DEF Promise!Commit, Promise!Next
  <2> QED
    BY <2>2, <2>3
<1>6. CASE WriteFile
  <2>1. /\ file' = "current" /\ pc = "writing"
        /\ UNCHANGED <<commits, damages, complete>>
    BY <1>6 DEF WriteFile, ReplaceTarget, business
  <2>2. commits = 1
    BY <1>1, <2>1 DEF PlaceInv, CheckpointBacked
  <2> QED
    BY <2>1, <2>2 DEF Promise!Publish, Promise!Next
<1>7. CASE Store
  <2>1. /\ complete' = (complete \/ next = "finish") /\ pc = "storing"
        /\ UNCHANGED <<commits, file, damages>>
    BY <1>7 DEF Store, storeVars
  <2>2. CASE next = "finish"
    <3>1. commits = 1 /\ (file = "current" \/ damages > 0)
      BY <1>1, <2>2 DEF CheckpointBacked, Materialized
    <3>2. complete' = TRUE
      BY <2>1, <2>2
    <3> QED
      BY <2>1, <3>1, <3>2 DEF Promise!Complete, Promise!Next
  <2>3. CASE next # "finish"
    <3>1. complete' = complete
      BY <1>1, <2>1, <2>3
    <3> QED
      BY <1>2, <2>1, <3>1
  <2> QED
    BY <2>2, <2>3
<1>8. CASE Before \/ After
  BY <1>2, <1>8, CallEffect DEF storeVars, business
<1>9. CASE \/ Start \/ Resume \/ EnterNode \/ Retry \/ Checkpoint \/ Reject \/ Retain \/ Rerun
           \/ Kill
  <2>1. Same
    BY <1>9 DEF Start, Resume, EnterNode, Retry, Checkpoint, Reject, Retain, Rerun, Kill,
       storeVars, business
  <2> QED
    BY <1>2, <2>1
<1>10. CASE CheckFile \/ ReadFile \/ FailWrite
  <2>1. Same
    BY <1>10 DEF CheckFile, ReadFile, FailWrite, OpenTemporary, DropTemporary, storeVars,
       business
  <2> QED
    BY <1>2, <2>1
<1> QED
  BY <1>3, <1>4, <1>5, <1>6, <1>7, <1>8, <1>9, <1>10 DEF Next, Step

\* The graph implements the artifact promise: replaying a node after a crash
\* repeats no commit and completes nothing that was not published.
THEOREM Refinement == Spec => PromiseSpec
<1>1. Init => Promise!Init
  <2>1. ASSUME Init PROVE ~(damages > 0)
    BY <2>1 DEF Init, StoreInit
  <2> QED
    BY <2>1 DEF Init, StoreInit, Promise!Init
<1> QED
  BY <1>1, PromiseStep, Invariance, PTL DEF Spec, PromiseSpec, Promise!Spec

-----------------------------------------------------------------------------
(* The verdict of the oracle. It reads the end of a task; the invariant         *)
(* accounts for the schedule on the way. Delivered reads injections off the     *)
(* call counters, so that no step has to count the journal.                     *)

\* How many of its injections rule i has delivered.
Delivered(i) ==
    LET n == calls[i] + 1 - binding[i].occurrence
    IN  IF n <= 0 THEN 0 ELSE IF n <= binding[i].repeat THEN n ELSE binding[i].repeat

\* How many tool t was dealt at one boundary with one of the outcomes; Hits is
\* their number in the end.
Suffered(t, phase, outcomes) ==
    LET hit == {i \in Faults!Matching(binding, t, phase) :
                    Outcome(binding[i].kind) \in outcomes}
    IN  IF hit = {} THEN 0 ELSE Delivered(CHOOSE i \in hit : TRUE)

\* The same at both boundaries.
Cost(t, outcomes) == Suffered(t, "before", outcomes) + Suffered(t, "after", outcomes)

\* Faults that cost tool t an attempt.
Retried(t) == Cost(t, {"retryable", "malformed"})

\* Faults that cost an invocation.
Broken ==
    Cost("retrieve_records", {"interrupted"}) + Cost("build_artifact", {"interrupted"})
    + Cost("commit_artifact", {"interrupted"}) + Cost("export_artifact", {"interrupted"})

\* How an invocation ended leaves its trace.
EndInv ==
    /\ pc = "killed" => crashes > 0
    /\ pc = "comparing" => file # "absent" \/ damages > 0
    /\ pc = "error" => errors > 0 \/ damages > 0
    /\ pc = "retaining" \/ retained => rejected
    /\ pc = "failed" => retained
    /\ pc = "complete" => next = "end"
    /\ next = "end" => records

\* Whoever runs was started.
RunInv == pc # "idle" => runs > 0

\* Nothing is published, completed or struck late before the commit.
CommittedInv ==
    /\ complete => artifact
    /\ file # "absent" => artifact
    /\ LateFaults(binding, journal) # {} => artifact

\* Within the budgets nothing is rejected, and until the graph is finished the
\* attempts and invocations beyond the first are owed to faults that cost one.
BudgetInv ==
    (Tolerable /\ Undisturbed) =>
        /\ ~retained /\ pc \notin {"rejecting", "retaining"}
        /\ next # "end" => runs <= Broken + IF pc \in {"idle", "interrupted"} THEN 0 ELSE 1
        /\ (next \in Tools /\ pc \in {"node", "boundary", "acting", "comparing", "writing",
                                      "acknowledging"}) => attempt <= Retried(next) + 1
        /\ pc = "retrying" => attempt <= Retried(next)

\* From the commit to the completion without a fault, and beyond.
OnPath ==
    /\ ~retained
    /\ \/ next = "commit_artifact" /\ pc \in {"acknowledging", "storing", "returning"}
       \/ /\ next = "export_artifact"
          /\ pc \in {"node", "boundary", "acting", "comparing", "writing", "acknowledging",
                     "storing", "returning"}
       \/ next = "finish" /\ pc \in {"node", "storing", "returning"}
       \/ next = "end"

\* A committed artifact that no fault struck late is on its way to completion.
PathInv ==
    (Undisturbed /\ artifact) => LateFaults(binding, journal) # {} \/ OnPath

\* What the verdicts rest on, with Bound and IInv.
VerdictInv == EndInv /\ RunInv /\ CommittedInv /\ BudgetInv /\ PathInv

\* A bound schedule with one rule per boundary, and its call counters.
Bound ==
    /\ calls \in [Faults!Rules -> Nat]
    /\ IsSchedule(binding, MaxRules)
    /\ DistinctTargets(binding)

\* A schedule with distinct targets has at most one rule per boundary.
LEMMA OneRule ==
    ASSUME Bound, NEW t, NEW phase \in Phases
    PROVE  \/ Faults!Matching(binding, t, phase) = {}
           \/ \E i \in DOMAIN binding : Faults!Matching(binding, t, phase) = {i}
  BY DEF Faults!Matching, DistinctTargets, Bound

\* A bound rule is valid, and its call counter is a number.
LEMMA RuleTypes ==
    ASSUME Bound, NEW i \in DOMAIN binding
    PROVE  /\ i \in Faults!Rules /\ calls[i] \in Nat /\ ValidRule(binding[i])
           /\ binding[i].occurrence \in Nat /\ binding[i].repeat \in Nat
           /\ binding[i].kind \in Allowed[binding[i].phase] /\ binding[i].phase \in Phases
  <1>1. calls \in [Faults!Rules -> Nat]
    BY DEF Bound
  <1>2. IsSchedule(binding, MaxRules) /\ MaxRules \in Nat
    BY GraphAssumption DEF Bound
  <1>3. PICK n \in 0..MaxRules : DOMAIN binding = 1..n /\ \A j \in 1..n : ValidRule(binding[j])
    BY <1>2 DEF IsSchedule
  <1>4. i \in Faults!Rules
    BY <1>2, <1>3 DEF Faults!Rules
  <1>5. ValidRule(binding[i]) /\ calls[i] \in Nat
    BY <1>1, <1>3, <1>4
  <1> QED
    BY <1>4, <1>5 DEF ValidRule, MaxField

\* A claim delivers one more injection of the claimed rule, or none.
LEMMA ClaimCounts ==
    ASSUME Bound, NEW i \in DOMAIN binding, Faults!Claim(i)
    PROVE  /\ \A j \in DOMAIN binding :
                Delivered(j)' = Delivered(j) + IF j = i /\ Faults!Fires(binding[i], calls[i] + 1)
                                                 THEN 1 ELSE 0
           /\ \A j \in DOMAIN binding : Delivered(j) \in 0..binding[j].repeat
           /\ binding' = binding
  <1>1. /\ binding' = binding /\ calls \in [Faults!Rules -> Nat]
        /\ calls' = [calls EXCEPT ![i] = calls[i] + 1]
    BY DEF Faults!Claim, Bound
  <1>2. ASSUME NEW j \in DOMAIN binding
        PROVE  /\ Delivered(j)' = Delivered(j) + IF j = i /\ Faults!Fires(binding[i], calls[i] + 1)
                                                 THEN 1 ELSE 0
               /\ Delivered(j) \in 0..binding[j].repeat
    BY <1>1, RuleTypes DEF Delivered, Faults!Fires
  <1> QED
    BY <1>1, <1>2

\* With one matching rule, what was suffered is what that rule has delivered.
LEMMA SufferedIs ==
    ASSUME NEW t, NEW phase, NEW outcomes, NEW i \in DOMAIN binding,
           Faults!Matching(binding, t, phase) = {i}
    PROVE  /\ Suffered(t, phase, outcomes) =
                IF Outcome(binding[i].kind) \in outcomes THEN Delivered(i) ELSE 0
           /\ Faults!Hits(t, phase, outcomes) =
                IF Outcome(binding[i].kind) \in outcomes THEN binding[i].repeat ELSE 0
           /\ binding' = binding =>
                Suffered(t, phase, outcomes)' =
                  IF Outcome(binding[i].kind) \in outcomes THEN Delivered(i)' ELSE 0
  <1> DEFINE hit == {j \in Faults!Matching(binding, t, phase) :
                        Outcome(binding[j].kind) \in outcomes}
  <1> DEFINE c == CHOOSE j \in hit : TRUE
  <1>1. hit = IF Outcome(binding[i].kind) \in outcomes THEN {i} ELSE {}
    OBVIOUS
  <1>2. hit # {} => c = i /\ (binding' = binding => c' = i)
    BY <1>1 DEF Faults!Matching
  <1>3. Suffered(t, phase, outcomes) = IF hit = {} THEN 0 ELSE Delivered(c)
    BY DEF Suffered
  <1>4. Faults!Hits(t, phase, outcomes) = IF hit = {} THEN 0 ELSE binding[c].repeat
    BY DEF Faults!Hits, Outcome, Faults!Outcome
  <1>5. binding' = binding =>
          Suffered(t, phase, outcomes)' = IF hit = {} THEN 0 ELSE Delivered(c)'
    BY DEF Suffered, Faults!Matching
  <1>6. hit = {} <=> Outcome(binding[i].kind) \notin outcomes
    BY <1>1
  <1> HIDE DEF hit, c
  <1>7. CASE hit = {}
    BY <1>3, <1>4, <1>5, <1>6, <1>7
  <1>8. CASE hit # {}
    <2>1. c = i /\ (binding' = binding => c' = i)
      BY <1>2, <1>8
    <2>2. Delivered(c) = Delivered(i) /\ (binding' = binding => Delivered(c)' = Delivered(i)')
      BY <2>1 DEF Delivered
    <2> QED
      BY <1>3, <1>4, <1>5, <1>6, <1>8, <2>1, <2>2
  <1> QED
    BY <1>7, <1>8

\* Without a matching rule nothing is suffered.
LEMMA SufferedNone ==
    ASSUME NEW t, NEW phase, NEW outcomes, Faults!Matching(binding, t, phase) = {}
    PROVE  /\ Suffered(t, phase, outcomes) = 0 /\ Faults!Hits(t, phase, outcomes) = 0
           /\ binding' = binding => Suffered(t, phase, outcomes)' = 0
  BY DEF Suffered, Faults!Hits, Faults!Matching

\* No more is suffered than the schedule holds in the end (Hits).
LEMMA SufferedTypes ==
    ASSUME Bound,
           NEW t, NEW phase \in Phases, NEW outcomes
    PROVE  Suffered(t, phase, outcomes) \in Nat /\ Faults!Hits(t, phase, outcomes) \in Nat
           /\ Suffered(t, phase, outcomes) <= Faults!Hits(t, phase, outcomes)
  <1>1. CASE Faults!Matching(binding, t, phase) = {}
    BY <1>1, SufferedNone
  <1>2. ASSUME NEW i \in DOMAIN binding, Faults!Matching(binding, t, phase) = {i}
        PROVE  Suffered(t, phase, outcomes) \in Nat /\ Faults!Hits(t, phase, outcomes) \in Nat
           /\ Suffered(t, phase, outcomes) <= Faults!Hits(t, phase, outcomes)
    <2>1. calls[i] \in Nat /\ binding[i].occurrence \in Nat /\ binding[i].repeat \in Nat
      BY RuleTypes
    <2>2. Delivered(i) \in Nat /\ Delivered(i) <= binding[i].repeat
      BY <2>1 DEF Delivered
    <2> QED
      BY <1>2, <2>1, <2>2, SufferedIs
  <1> QED
    BY <1>1, <1>2, OneRule

\* A call at a boundary adds its outcome to what was suffered there, once.
LEMMA SufferedStep ==
    ASSUME Bound, NEW tool, NEW phase \in Phases, NEW outcome, Faults!Apply(tool, phase, outcome),
           NEW t, NEW p \in Phases, NEW outcomes, "none" \notin outcomes
    PROVE  Suffered(t, p, outcomes)' = Suffered(t, p, outcomes)
             + IF t = tool /\ p = phase /\ outcome \in outcomes THEN 1 ELSE 0
  <1>1. CASE Faults!Matching(binding, tool, phase) = {}
    <2>1. outcome = "none" /\ UNCHANGED <<binding, calls>>
      BY <1>1 DEF Faults!Apply, Faults!journalVars
    <2>2. Suffered(t, p, outcomes)' = Suffered(t, p, outcomes)
      BY <2>1 DEF Suffered, Delivered, Faults!Matching
    <2> QED
      BY <2>1, <2>2, SufferedTypes
  <1>2. ASSUME NEW k \in DOMAIN binding, Faults!Matching(binding, tool, phase) = {k}
        PROVE  Suffered(t, p, outcomes)' = Suffered(t, p, outcomes)
                 + IF t = tool /\ p = phase /\ outcome \in outcomes THEN 1 ELSE 0
    <2>1. /\ Faults!Claim(k)
          /\ outcome = IF Faults!Fires(binding[k], calls[k] + 1)
                         THEN Outcome(binding[k].kind) ELSE "none"
      BY <1>2 DEF Faults!Apply, Outcome, Faults!Outcome
    <2>2. binding' = binding
      BY <2>1, ClaimCounts
    <2>3. CASE Faults!Matching(binding, t, p) = {}
      BY <1>2, <2>2, <2>3, SufferedNone
    <2>4. ASSUME NEW i \in DOMAIN binding, Faults!Matching(binding, t, p) = {i}
          PROVE  Suffered(t, p, outcomes)' = Suffered(t, p, outcomes)
                   + IF t = tool /\ p = phase /\ outcome \in outcomes THEN 1 ELSE 0
      <3>1. i = k <=> t = tool /\ p = phase
        BY <1>2, <2>4 DEF Faults!Matching
      <3>2. Delivered(i)' = Delivered(i) + IF i = k /\ Faults!Fires(binding[k], calls[k] + 1)
                                             THEN 1 ELSE 0
        BY <2>1, ClaimCounts
      <3>3. Delivered(i) \in Nat
        BY <2>1, ClaimCounts, RuleTypes
      <3>4. /\ Suffered(t, p, outcomes) =
                 IF Outcome(binding[i].kind) \in outcomes THEN Delivered(i) ELSE 0
            /\ Suffered(t, p, outcomes)' =
                 IF Outcome(binding[i].kind) \in outcomes THEN Delivered(i)' ELSE 0
        BY <2>2, <2>4, SufferedIs
      <3> QED
        BY <2>1, <3>1, <3>2, <3>3, <3>4
    <2> QED
      BY <2>3, <2>4, OneRule
  <1> QED
    BY <1>1, <1>2, OneRule

\* What was suffered at a tool is bounded by the hits of the schedule.
LEMMA CostTypes ==
    ASSUME Bound, NEW t, NEW outcomes
    PROVE  Cost(t, outcomes) \in Nat /\ Hits(t, outcomes) \in Nat
           /\ Cost(t, outcomes) <= Hits(t, outcomes)
  <1>1. "before" \in Phases /\ "after" \in Phases
    BY DEF Phases
  <1> QED
    BY <1>1, SufferedTypes DEF Cost, Hits

\* A call at a boundary costs what its outcome says.
LEMMA CostStep ==
    ASSUME Bound, NEW tool, NEW phase \in Phases, NEW outcome, Faults!Apply(tool, phase, outcome),
           NEW t, NEW outcomes, "none" \notin outcomes
    PROVE  Cost(t, outcomes)' =
             Cost(t, outcomes) + IF t = tool /\ outcome \in outcomes THEN 1 ELSE 0
  <1>1. /\ "before" \in Phases /\ "after" \in Phases /\ "before" # "after"
        /\ phase \in {"before", "after"}
    BY DEF Phases
  <1>2. /\ Suffered(t, "before", outcomes) \in Nat /\ Suffered(t, "after", outcomes) \in Nat
        /\ Suffered(t, "before", outcomes)' = Suffered(t, "before", outcomes)
             + IF t = tool /\ "before" = phase /\ outcome \in outcomes THEN 1 ELSE 0
        /\ Suffered(t, "after", outcomes)' = Suffered(t, "after", outcomes)
             + IF t = tool /\ "after" = phase /\ outcome \in outcomes THEN 1 ELSE 0
    BY <1>1, SufferedTypes, SufferedStep
  <1> QED
    BY <1>1, <1>2 DEF Cost

\* Steps without a call cost nothing.
LEMMA CostKept ==
    ASSUME UNCHANGED <<binding, calls>>
    PROVE  /\ \A t, outcomes : Cost(t, outcomes)' = Cost(t, outcomes)
           /\ Broken' = Broken
  <1>1. \A t, outcomes : Cost(t, outcomes)' = Cost(t, outcomes)
    BY DEF Cost, Suffered, Delivered, Faults!Matching
  <1> QED
    BY <1>1 DEF Broken

\* What a call at a boundary costs in attempts and runs.
LEMMA Costs ==
    ASSUME Bound, NEW tool \in Tools, NEW phase \in Phases, NEW outcome,
           Faults!Apply(tool, phase, outcome)
    PROVE  /\ \A t \in Tools : /\ Retried(t) \in Nat
                               /\ Retried(t)' = Retried(t) +
                                    IF t = tool /\ outcome \in {"retryable", "malformed"}
                                      THEN 1 ELSE 0
           /\ Broken \in Nat
           /\ Broken' = Broken + IF outcome = "interrupted" THEN 1 ELSE 0
  <1>1. \A t \in Tools : /\ Retried(t) \in Nat
                         /\ Retried(t)' = Retried(t) +
                              IF t = tool /\ outcome \in {"retryable", "malformed"}
                                THEN 1 ELSE 0
    BY CostTypes, CostStep DEF Retried
  <1>2. \A t : /\ Cost(t, {"interrupted"}) \in Nat
               /\ Cost(t, {"interrupted"})' = Cost(t, {"interrupted"}) +
                    IF t = tool /\ outcome = "interrupted" THEN 1 ELSE 0
    BY CostTypes, CostStep
  <1> QED
    BY <1>1, <1>2 DEF Broken, Tools

\* Within a tolerable schedule neither attempts nor runs are used up, and
\* nothing permanent is ever injected.
LEMMA WithinBudgets ==
    ASSUME Bound, Tolerable, Operated.runs \in Nat
    PROVE  /\ \A t \in Tools : Retried(t) \in Nat /\ Retried(t) < MaxAttempts
           /\ Broken \in Nat
           /\ Broken < IF "interrupted" \in Operated.rerun THEN Operated.runs ELSE 1
           /\ \A t \in Tools, p \in Phases : ~Faults!Apply(t, p, "permanent")
  <1>1. \A t \in Tools : /\ Hits(t, {"permanent"}) = 0
                         /\ Hits(t, {"retryable", "malformed"}) < MaxAttempts
    BY DEF Tolerable
  <1>2. \A t \in Tools : Retried(t) \in Nat /\ Retried(t) < MaxAttempts
    BY <1>1, CostTypes, GraphAssumption DEF Retried
  <1>3. Broken \in Nat /\ Broken < IF "interrupted" \in Operated.rerun THEN Operated.runs ELSE 1
    <2>1. \A t \in Tools : /\ Cost(t, {"interrupted"}) \in Nat /\ Hits(t, {"interrupted"}) \in Nat
                           /\ Cost(t, {"interrupted"}) <= Hits(t, {"interrupted"})
      BY CostTypes
    <2> QED
      BY <2>1 DEF Broken, Tolerable, Interruptions, Tools
  <1>4. ASSUME NEW t \in Tools, NEW p \in Phases, Faults!Apply(t, p, "permanent")
        PROVE  FALSE
    <2>1. PICK k \in Faults!Matching(binding, t, p) :
            /\ Faults!Claim(k)
            /\ "permanent" = IF Faults!Fires(binding[k], calls[k] + 1)
                               THEN Outcome(binding[k].kind) ELSE "none"
      BY <1>4 DEF Faults!Apply, Outcome, Faults!Outcome
    <2>2. k \in DOMAIN binding /\ Outcome(binding[k].kind) = "permanent"
      BY <2>1 DEF Faults!Matching
    <2>3. binding[k].repeat \in Nat /\ binding[k].repeat > 0
      BY <2>2, RuleTypes DEF ValidRule, MaxField
    <2>4. Faults!Matching(binding, t, p) = {k}
      BY <2>1, OneRule
    <2>5. Faults!Hits(t, p, {"permanent"}) = binding[k].repeat
      BY <2>2, <2>4, SufferedIs
    <2>6. "before" \in Phases /\ "after" \in Phases /\ p \in {"before", "after"}
      BY DEF Phases
    <2>7. /\ Faults!Hits(t, "before", {"permanent"}) \in Nat
          /\ Faults!Hits(t, "after", {"permanent"}) \in Nat
      BY <2>6, SufferedTypes
    <2> QED
      BY <1>1, <2>3, <2>5, <2>6, <2>7 DEF Hits
  <1> QED
    BY <1>2, <1>3, <1>4

\* The invariant provides what the accounts need.
LEMMA BoundIs == IInv /\ DistinctTargets(binding) => Bound
  <1> SUFFICES ASSUME IInv, DistinctTargets(binding) PROVE Bound
    OBVIOUS
  <1>1. calls \in [Faults!Rules -> Nat] /\ binding \in Schedules
    BY Parts, ScheduleFacts DEF Faults!TypeOK, LocalTypes, PlaceInv, IInv
  <1> QED
    BY <1>1, GraphAssumption DEF Bound

\* What a call leaves in the journal: a late fault exactly if it injects one.
LEMMA Struck ==
    ASSUME IInv, Bound, NEW tool \in Tools, NEW phase \in Phases, NEW outcome,
           Faults!Apply(tool, phase, outcome)
    PROVE  /\ binding' = binding
           /\ LateFaults(binding, journal)' = {} <=>
                /\ LateFaults(binding, journal) = {}
                /\ \/ outcome = "none"
                   \/ tool # "export_artifact" /\ ~(tool = "commit_artifact" /\ phase = "after")
  <1> DEFINE late(r) == \/ r.tool = "export_artifact"
                        \/ r.tool = "commit_artifact" /\ r.phase = "after"
  <1> DEFINE S == [rule : Faults!Rules, occurrence : Nat]
  <1>1. journal \in Seq(S) /\ DOMAIN journal = 1..Len(journal) /\ Len(journal) \in Nat
    BY Parts, LenProperties DEF Faults!TypeOK
  <1>2. \A j : LateFaults(binding, j) = {k \in DOMAIN j : late(binding[j[k].rule])}
    BY DEF LateFaults
  <1>3. CASE Faults!Matching(binding, tool, phase) = {}
    <2>1. outcome = "none" /\ UNCHANGED <<binding, journal>>
      BY <1>3 DEF Faults!Apply, Faults!journalVars
    <2> QED
      BY <2>1
  <1>4. ASSUME NEW k \in Faults!Matching(binding, tool, phase), Faults!Claim(k),
               outcome = IF Faults!Fires(binding[k], calls[k] + 1)
                           THEN Faults!Outcome(binding[k].kind) ELSE "none"
        PROVE  /\ binding' = binding
               /\ LateFaults(binding, journal)' = {} <=>
                    /\ LateFaults(binding, journal) = {}
                    /\ outcome = "none" \/ ~late(binding[k])
    <2>1. k \in DOMAIN binding /\ binding' = binding
      BY <1>4 DEF Faults!Matching, Faults!Claim
    <2>2. Faults!Outcome(binding[k].kind) # "none" /\ k \in Faults!Rules
      BY <2>1, RuleTypes DEF Faults!Outcome, Allowed, Phases
    <2> DEFINE e == Faults!Record(k, calls[k] + 1)
    <2>3. e.rule = k
      BY DEF Faults!Record
    <2>4. IF outcome = "none" THEN journal' = journal ELSE journal' = Append(journal, e)
      BY <1>4, <2>2 DEF Faults!Claim
    <2> HIDE DEF e, late, S
    <2>5. CASE outcome = "none"
      BY <2>1, <2>4, <2>5
    <2>6. CASE outcome # "none"
      <3>1. journal' = Append(journal, e)
        BY <2>4, <2>6
      <3>2. /\ DOMAIN journal' = 1..Len(journal) + 1
            /\ \A n \in 1..Len(journal) : journal'[n] = journal[n]
            /\ journal'[Len(journal) + 1] = e
        BY <1>1, <3>1
      <3>3. LateFaults(binding, journal)' =
              {n \in DOMAIN journal' : late(binding[journal'[n].rule])}
        BY <1>2, <2>1 DEF LateFaults, late
      <3>4. LateFaults(binding, journal)' = {} <=>
              LateFaults(binding, journal) = {} /\ ~late(binding[k])
        <4>1. LateFaults(binding, journal)' = {} <=>
                \A n \in 1..Len(journal) + 1 : ~late(binding[journal'[n].rule])
          BY <3>2, <3>3
        <4>2. LateFaults(binding, journal) = {} <=>
                \A n \in 1..Len(journal) : ~late(binding[journal[n].rule])
          BY <1>1, <1>2
        <4>3. 1..Len(journal) + 1 = 1..Len(journal) \union {Len(journal) + 1}
          BY <1>1
        <4> QED
          BY <2>3, <3>2, <4>1, <4>2, <4>3
      <3> QED
        BY <2>1, <2>6, <3>4
    <2> QED
      BY <2>5, <2>6
  <1>5. ASSUME NEW k \in Faults!Matching(binding, tool, phase)
        PROVE  late(binding[k]) <=>
                 tool = "export_artifact" \/ (tool = "commit_artifact" /\ phase = "after")
    BY <1>5 DEF Faults!Matching
  <1> QED
    BY <1>3, <1>4, <1>5 DEF Faults!Apply

\* The types of what a step reads, and the place it is in.
LEMMA Reads ==
    ASSUME IInv
    PROVE  /\ next \in Tools \union {"finish", "none", "end"} /\ pc \in States
           /\ attempt \in Nat /\ runs \in Nat /\ Operated.runs \in Nat
           /\ crashes \in Nat /\ errors \in Nat /\ damages \in Nat
           /\ {records, complete, rejected, retained, artifact} \subseteq BOOLEAN
           /\ CheckpointBacked /\ PlaceInv /\ RejectInv
           /\ commits = IF artifact THEN 1 ELSE 0
           /\ Operated.rerun \subseteq Ended
           /\ "before" \in Phases /\ "after" \in Phases
  <1>1. /\ next \in Nodes \union {"none", "end"} /\ pc \in States
        /\ attempt \in 0..MaxAttempts
        /\ {records, complete, rejected, retained} \subseteq BOOLEAN
        /\ setting \in DOMAIN Settings
    BY Parts DEF LocalTypes
  <1>2. Operated.rerun \subseteq Ended
    BY <1>1, GraphAssumption DEF IsSetting, Operated
  <1>3. /\ runs \in Nat /\ Operated.runs \in Nat /\ MaxAttempts \in Nat
        /\ crashes \in Nat /\ errors \in Nat /\ damages \in Nat /\ artifact \in BOOLEAN
    BY Parts DEF StoreTypeOK
  <1> QED
    BY <1>1, <1>2, <1>3, NodeFacts DEF IInv, PlaceInv, Phases

\* A step calls a boundary of the pending tool, or none.
LEMMA Calls ==
    ASSUME IInv, [Next]_vars
    PROVE  \/ UNCHANGED faultVars
           \/ /\ Before \/ After
              /\ next \in Tools
              /\ \E p \in Phases, outcome \in Faults!Outcomes :
                    /\ Faults!Apply(next, p, outcome)
                    /\ p = "after" => pc = "acknowledging"
  <1>1. CASE Before \/ After
    <2>1. next \in Tools
      BY <1>1, CallEffect
    <2>2. \E p \in Phases, outcome \in Faults!Outcomes :
            /\ Faults!Apply(next, p, outcome)
            /\ p = "after" => pc = "acknowledging"
      BY <1>1 DEF Before, After, Phases
    <2> QED
      BY <1>1, <2>1, <2>2
  <1>2. CASE ~(Before \/ After)
    BY <1>2 DEF Next, Step, Start, Resume, EnterNode, Commit, CheckFile, ReadFile, WriteFile,
                FailWrite, Retry, Store, Checkpoint, Reject, Retain, Rerun, Kill, Damage, vars,
                faultVars
  <1> QED
    BY <1>1, <1>2

\* What a step leaves alone, and what it never takes back.
LEMMA Framed ==
    ASSUME IInv, [Next]_vars
    PROVE  /\ UNCHANGED <<setting, mode>> /\ binding' = binding /\ Operated' = Operated
           /\ crashes' \in {crashes, crashes + 1} /\ errors' \in {errors, errors + 1}
           /\ damages' \in {damages, damages + 1}
           /\ (records => records') /\ (complete => complete') /\ (rejected => rejected')
           /\ (artifact => artifact') /\ (retained => retained')
           /\ file' = file \/ WriteFile \/ Damage
           /\ Damage => damages' = damages + 1
           /\ complete' = complete \/ Store
           /\ artifact' = artifact \/ Commit
  <1>1. UNCHANGED <<setting, mode>> /\ binding' = binding
    BY StoreTypeStep
  <1>2. Operated' = Operated
    BY <1>1 DEF Operated
  <1> DEFINE Kept ==
        /\ crashes' \in {crashes, crashes + 1} /\ errors' \in {errors, errors + 1}
        /\ damages' \in {damages, damages + 1}
        /\ (records => records') /\ (complete => complete') /\ (rejected => rejected')
        /\ (artifact => artifact') /\ (retained => retained')
        /\ file' = file \/ WriteFile \/ Damage
        /\ Damage => damages' = damages + 1
        /\ complete' = complete \/ Store
        /\ artifact' = artifact \/ Commit
  <1> SUFFICES Kept
    BY <1>1, <1>2
  <1>3. CASE Damage
    BY <1>3 DEF Damage, DamageFile, business, bounds
  <1>4. CASE Start \/ Resume \/ EnterNode \/ Retry \/ Store \/ Checkpoint \/ Rerun \/ Kill
    <2>1. UNCHANGED storeVars
      BY <1>4 DEF Start, Resume, EnterNode, Retry, Store, Checkpoint, Rerun, Kill
    <2>2. ~Damage
      BY <2>1, Parts DEF Damage, DamageFile, storeVars
    <2> QED
      BY <1>4, <2>1, <2>2, Reads DEF Start, Resume, EnterNode, Retry, Store, Checkpoint, Rerun,
         Kill, storeVars, business, bounds
  <1>5. CASE Before \/ After \/ Reject \/ Retain \/ UNCHANGED vars
    <2>1. UNCHANGED storeVars
      BY <1>5 DEF Before, After, Reject, Retain, vars, storeVars
    <2>2. ~Damage
      BY <2>1, Parts DEF Damage, DamageFile, storeVars
    <2> QED
      BY <1>5, <2>1, <2>2 DEF Before, After, Reject, Retain, vars, storeVars, business, bounds
  <1>6. CASE Commit \/ CheckFile \/ ReadFile \/ WriteFile \/ FailWrite
    <2>1. damages' = damages
      BY <1>6 DEF Commit, CheckFile, ReadFile, WriteFile, FailWrite, CommitArtifact,
         OpenTemporary, ReplaceTarget, DropTemporary, storeVars
    <2>2. ~Damage
      BY <2>1, Parts DEF Damage, DamageFile
    <2> QED
      BY <1>6, <2>1, <2>2 DEF Commit, CheckFile, ReadFile, WriteFile, FailWrite, CommitArtifact,
         OpenTemporary, ReplaceTarget, DropTemporary, storeVars, business, bounds
  <1> QED
    BY <1>3, <1>4, <1>5, <1>6 DEF Next, Step

\* What a step does to the accounts: the verdict on a schedule stays, and only a
\* call changes what was suffered or struck late.
LEMMA Accounts ==
    ASSUME IInv, Bound, [Next]_vars
    PROVE  /\ \A t \in Tools : Retried(t) \in Nat /\ Retried(t)' \in Nat
           /\ Broken \in Nat /\ Broken' \in Nat
           /\ UNCHANGED faultVars =>
                Broken' = Broken /\ \A t \in Tools : Retried(t)' = Retried(t)
           /\ LateFaults(binding, journal) # {} => LateFaults(binding, journal)' # {}
           /\ Tolerable' <=> Tolerable
           /\ Undisturbed' => Undisturbed
  <1>1. ASSUME UNCHANGED faultVars
        PROVE  /\ \A t \in Tools : Retried(t) \in Nat /\ Retried(t)' = Retried(t)
               /\ Broken \in Nat /\ Broken' = Broken
               /\ LateFaults(binding, journal)' = LateFaults(binding, journal)
    <2>1. /\ binding' = binding /\ calls' = calls /\ journal' = journal
      BY <1>1 DEF faultVars
    <2>2. \A t \in Tools : Retried(t) \in Nat /\ Retried(t)' = Retried(t)
      BY <2>1, CostKept, CostTypes DEF Retried
    <2>3. Broken \in Nat /\ Broken' = Broken
      BY <2>1, CostKept, CostTypes DEF Broken, Tools
    <2>4. LateFaults(binding, journal)' = LateFaults(binding, journal)
      BY <2>1
    <2> QED
      BY <2>2, <2>3, <2>4
  <1>2. ASSUME NEW p \in Phases, NEW outcome, Faults!Apply(next, p, outcome), next \in Tools
        PROVE  /\ \A t \in Tools : Retried(t) \in Nat /\ Retried(t)' \in Nat
               /\ Broken \in Nat /\ Broken' \in Nat
               /\ LateFaults(binding, journal) # {} => LateFaults(binding, journal)' # {}
    BY <1>2, Costs, Struck
  <1>3. /\ \A t \in Tools : Retried(t) \in Nat /\ Retried(t)' \in Nat
        /\ Broken \in Nat /\ Broken' \in Nat
        /\ LateFaults(binding, journal) # {} => LateFaults(binding, journal)' # {}
    BY <1>1, <1>2, Calls
  <1>4. Undisturbed' => Undisturbed
    BY Framed, Reads DEF Undisturbed
  <1>5. Tolerable' <=> Tolerable
    <2>1. binding' = binding /\ Operated' = Operated
      BY Framed
    <2> QED
      BY <2>1 DEF Tolerable, Interruptions, Hits, Faults!Hits, Faults!Matching
  <1> QED
    BY <1>1, <1>3, <1>4, <1>5

\* How an invocation ended leaves its trace.
LEMMA EndStep ==
    ASSUME IInv, EndInv, [Next]_vars
    PROVE  EndInv'
  <1> USE Reads, Framed
  <1>1. CASE UNCHANGED vars
    BY <1>1 DEF vars, EndInv
  <1>2. CASE Start \/ EnterNode \/ Retry \/ Store \/ Commit \/ WriteFile
    <2>1. /\ UNCHANGED <<next, retained>>
          /\ pc' \in {"resuming", "storing", "boundary", "rejecting", "node", "returning",
                      "acknowledging"}
      BY <1>2 DEF Start, EnterNode, Retry, Store, Commit, WriteFile, business
    <2> QED
      BY <2>1 DEF EndInv
  <1>3. CASE Resume
    BY <1>3 DEF Resume, EndInv, business
  <1>4. CASE Before \/ After
    <2>1. /\ UNCHANGED <<next, retained>>
          /\ pc' \in {"acting", "acknowledging", "storing", "retrying", "interrupted", "rejecting"}
      BY <1>4, CallEffect DEF business
    <2> QED
      BY <2>1 DEF EndInv
  <1>5. CASE CheckFile \/ ReadFile \/ FailWrite
    <2>1. UNCHANGED <<next, retained, crashes, damages>>
      BY <1>5 DEF CheckFile, ReadFile, FailWrite, OpenTemporary, DropTemporary, storeVars,
         business, bounds
    <2>2. \/ pc' = "comparing" /\ file' # "absent"
          \/ pc' \in {"writing", "acknowledging"}
          \/ pc' = "error" /\ (errors' > 0 \/ damages' > 0)
      BY <1>5 DEF CheckFile, ReadFile, FailWrite, EndInv, Exists, storeVars
    <2> QED
      BY <2>1, <2>2 DEF EndInv
  <1>6. CASE Checkpoint
    <2>1. /\ next \in Tools \union {"finish"} /\ next' = Following[next]
          /\ pc' = IF next = "finish" THEN "complete" ELSE "node"
          /\ UNCHANGED retained
      BY <1>6 DEF Checkpoint, PlaceInv, Leaving, business
    <2>2. next' = "end" <=> next = "finish"
      BY <2>1, NodeFacts DEF Tools
    <2>3. next = "finish" => records
      BY NodeFacts DEF CheckpointBacked
    <2> QED
      BY <2>1, <2>2, <2>3 DEF EndInv
  <1>7. CASE Reject \/ Retain
    BY <1>7 DEF Reject, Retain, EndInv
  <1>8. CASE Rerun \/ Kill
    BY <1>8 DEF Rerun, Kill, EndInv, business
  <1>9. CASE Damage
    BY <1>9 DEF Damage, EndInv, business, bounds
  <1> QED
    BY <1>1, <1>2, <1>3, <1>4, <1>5, <1>6, <1>7, <1>8, <1>9 DEF Next, Step

\* Nothing is published, completed or struck late before the commit.
LEMMA CommittedStep ==
    ASSUME IInv, Bound, CommittedInv, [Next]_vars
    PROVE  CommittedInv'
  <1> USE Reads, Framed
  <1>1. next \in {"export_artifact", "finish", "end"} => artifact
    BY DEF CheckpointBacked
  <1>2. complete' => artifact'
    <2>1. CASE Store
      BY <1>1, <2>1 DEF Store, CommittedInv
    <2>2. CASE ~Store
      BY <2>2 DEF CommittedInv
    <2> QED
      BY <2>1, <2>2
  <1>3. file' # "absent" => artifact'
    <2>1. CASE WriteFile
      BY <1>1, <2>1 DEF WriteFile, PlaceInv
    <2>2. CASE Damage
      BY <2>2 DEF Damage, DamageFile, CommittedInv
    <2>3. CASE file' = file
      BY <2>3 DEF CommittedInv
    <2> QED
      BY <2>1, <2>2, <2>3
  <1>4. LateFaults(binding, journal)' # {} => artifact'
    <2>1. CASE UNCHANGED faultVars
      BY <2>1 DEF faultVars, CommittedInv
    <2>2. CASE ~UNCHANGED faultVars
      <3>1. next \in Tools
        BY <2>2, Calls
      <3>2. PICK p \in Phases, outcome \in Faults!Outcomes :
              /\ Faults!Apply(next, p, outcome)
              /\ p = "after" => pc = "acknowledging"
        BY <2>2, Calls
      <3>3. LateFaults(binding, journal)' = {} <=>
              /\ LateFaults(binding, journal) = {}
              /\ \/ outcome = "none"
                 \/ next # "export_artifact" /\ ~(next = "commit_artifact" /\ p = "after")
        BY <3>1, <3>2, Struck
      <3> QED
        BY <1>1, <3>2, <3>3 DEF PlaceInv, CommittedInv
    <2> QED
      BY <2>1, <2>2
  <1> QED
    BY <1>2, <1>3, <1>4 DEF CommittedInv

\* A committed artifact means that the graph is on the way to its end, or that a
\* fault struck late.
LEMMA PathStep ==
    ASSUME IInv, Bound, EndInv, PathInv, [Next]_vars
    PROVE  PathInv'
  <1> USE Reads, Framed
  <1> SUFFICES ASSUME Undisturbed', artifact', LateFaults(binding, journal)' = {}
               PROVE  OnPath'
    BY DEF PathInv
  <1>1. Undisturbed /\ LateFaults(binding, journal) = {}
    BY Accounts
  <1>2. artifact => OnPath
    BY <1>1 DEF PathInv
  <1>3. ASSUME NEW p \in Phases, NEW outcome, Faults!Apply(next, p, outcome), next \in Tools,
               next = "export_artifact" \/ (next = "commit_artifact" /\ p = "after")
        PROVE  outcome = "none"
    BY <1>1, <1>3, Struck
  <1>4. ~Kill /\ ~FailWrite /\ ~Damage
    <2>1. /\ crashes = 0 /\ errors = 0 /\ damages = 0
          /\ crashes' = 0 /\ errors' = 0 /\ damages' = 0
      BY <1>1 DEF Undisturbed
    <2> QED
      BY <2>1 DEF Kill, FailWrite, Damage, DamageFile
  <1>5. CASE UNCHANGED vars
    BY <1>2, <1>5 DEF vars, OnPath
  <1>6. CASE Start \/ Resume \/ EnterNode
    BY <1>2, <1>6 DEF Start, Resume, EnterNode, storeVars, business, OnPath
  <1>7. CASE Before \/ After
    <2>1. /\ next \in Tools /\ artifact' = artifact /\ UNCHANGED <<next, retained>>
          /\ pc \in {"boundary", "acknowledging"}
      BY <1>7, CallEffect DEF Before, After, storeVars, business
    <2>2. \/ next = "export_artifact"
          \/ next = "commit_artifact" /\ After
      BY <1>2, <1>7, <2>1 DEF OnPath, Before, Tools
    <2>3. pc' \in {"acting", "acknowledging", "storing"}
      BY <1>3, <1>7, <2>1, <2>2 DEF Before, After
    <2>4. pc' \in {"storing"} \/ next = "export_artifact"
      BY <2>2, <1>3, <2>1 DEF After
    <2> QED
      BY <1>2, <2>1, <2>2, <2>3, <2>4 DEF OnPath
  <1>8. CASE Commit
    <2>1. ~retained /\ UNCHANGED retained
      BY <1>8 DEF Commit, RejectInv, Ended, business
    <2> QED
      BY <1>8, <2>1 DEF Commit, OnPath
  <1>9. CASE CheckFile \/ ReadFile \/ WriteFile
    <2>1. /\ next = "export_artifact" /\ artifact' = artifact /\ UNCHANGED <<next, retained>>
      BY <1>9 DEF CheckFile, ReadFile, WriteFile, OpenTemporary, ReplaceTarget, storeVars,
         business, PlaceInv
    <2>2. pc' \in {"comparing", "writing", "acknowledging"}
      BY <1>1, <1>9 DEF CheckFile, ReadFile, WriteFile, Exists, EndInv, Undisturbed
    <2> QED
      BY <1>2, <2>1, <2>2 DEF OnPath
  <1>10. CASE Retry \/ Reject \/ Retain
    BY <1>2, <1>10 DEF Retry, Reject, Retain, storeVars, OnPath, PlaceInv, Tools
  <1>11. CASE Store
    BY <1>2, <1>11 DEF Store, storeVars, OnPath, PlaceInv
  <1>12. CASE Checkpoint
    BY <1>2, <1>12, NodeFacts DEF Checkpoint, storeVars, business, OnPath, PlaceInv
  <1>13. CASE Rerun
    <2>1. pc \in Ended /\ UNCHANGED <<artifact, next, retained>>
      BY <1>13 DEF Rerun, storeVars, business
    <2>2. next = "end"
      BY <1>2, <2>1 DEF OnPath, Ended
    <2> QED
      BY <1>2, <2>1, <2>2 DEF OnPath
  <1> QED
    BY <1>4, <1>5, <1>6, <1>7, <1>8, <1>9, <1>10, <1>11, <1>12, <1>13 DEF Next, Step

\* Attempts and invocations stay within what was suffered.
LEMMA BudgetStep ==
    ASSUME IInv, Bound, EndInv, BudgetInv, [Next]_vars
    PROVE  BudgetInv'
  <1> USE Reads
  <1> DEFINE Working(p) == p \in {"node", "boundary", "acting", "comparing", "writing",
                                  "acknowledging"}
  <1> DEFINE Kept ==
        /\ ~retained' /\ pc' \notin {"rejecting", "retaining"}
        /\ next' # "end" => runs' <= Broken' + IF pc' \in {"idle", "interrupted"} THEN 0 ELSE 1
        /\ \A t \in Tools : next' = t =>
            /\ Working(pc') => attempt' <= Retried(t)' + 1
            /\ pc' = "retrying" => attempt' <= Retried(t)'
  <1>0. ASSUME Kept PROVE BudgetInv'
    <2>1. CASE next' \notin Tools
      BY <1>0, <2>1, StepIInv DEF BudgetInv, IInv, PlaceInv
    <2>2. ASSUME NEW t \in Tools, next' = t PROVE BudgetInv'
      BY <1>0, <2>2 DEF BudgetInv
    <2> QED
      BY <2>1, <2>2
  <1> SUFFICES ASSUME Tolerable, Undisturbed' PROVE Kept
    BY <1>0, Accounts DEF BudgetInv
  <1>1. Undisturbed
    BY Accounts
  <1>2. /\ ~retained /\ pc \notin {"rejecting", "retaining"}
        /\ next # "end" => runs <= Broken + IF pc \in {"idle", "interrupted"} THEN 0 ELSE 1
        /\ \A t \in Tools : next = t =>
            /\ Working(pc) => attempt <= Retried(t) + 1
            /\ pc = "retrying" => attempt <= Retried(t)
    BY <1>1 DEF BudgetInv
  <1>3. /\ \A t \in Tools : Retried(t) \in Nat /\ Retried(t)' \in Nat /\ Retried(t) < MaxAttempts
        /\ Broken \in Nat /\ Broken' \in Nat /\ MaxAttempts \in Nat
        /\ \A t \in Tools, p \in Phases : ~Faults!Apply(t, p, "permanent")
    BY WithinBudgets, Accounts, GraphAssumption
  <1>4. UNCHANGED faultVars => Broken' = Broken /\ \A t \in Tools : Retried(t)' = Retried(t)
    BY Accounts
  <1>5. ~Kill /\ ~FailWrite /\ ~Damage
    BY <1>1, Framed DEF Undisturbed, Kill, FailWrite
  <1>6. CASE UNCHANGED vars
    BY <1>2, <1>4, <1>6 DEF vars, faultVars
  <1>7. CASE Start
    BY <1>2, <1>3, <1>4, <1>7 DEF Start, business
  <1>8. CASE Resume
    <2>1. /\ runs' = runs /\ retained' = retained /\ pc = "resuming"
          /\ Broken' = Broken
          /\ \/ next = "end" /\ next' = "end" /\ pc' = "complete"
             \/ next # "end" /\ pc' = "node" /\ attempt' = 1
      BY <1>2, <1>4, <1>8 DEF Resume, business
    <2> QED
      BY <1>2, <1>3, <2>1
  <1>9. CASE EnterNode \/ Commit \/ CheckFile \/ ReadFile \/ WriteFile
    <2>1. /\ UNCHANGED <<next, retained, attempt, runs>> /\ Broken' = Broken
          /\ \A t \in Tools : Retried(t)' = Retried(t)
          /\ Working(pc)
          /\ pc' \in {"storing", "boundary", "acknowledging", "comparing", "writing", "error"}
      BY <1>4, <1>9 DEF EnterNode, Commit, CheckFile, ReadFile, WriteFile, business
    <2> QED
      BY <1>2, <2>1
  <1>10. CASE Before \/ After
    <2>1. PICK t \in Tools : t = next
      BY <1>10, CallEffect
    <2>2. PICK p \in Phases : \E outcome \in Faults!Outcomes :
            /\ Faults!Apply(t, p, outcome)
            /\ \/ outcome = "none" /\ pc' \in {"acting", "acknowledging", "storing"}
               \/ outcome \in {"retryable", "malformed"} /\ pc' = "retrying"
               \/ outcome = "interrupted" /\ pc' = "interrupted"
               \/ outcome = "permanent"
      BY <1>10, <2>1 DEF Before, After
    <2>3. PICK outcome \in Faults!Outcomes :
            /\ Faults!Apply(t, p, outcome)
            /\ \/ outcome = "none" /\ pc' \in {"acting", "acknowledging", "storing"}
               \/ outcome \in {"retryable", "malformed"} /\ pc' = "retrying"
               \/ outcome = "interrupted" /\ pc' = "interrupted"
               \/ outcome = "permanent"
      BY <2>2
    <2>4. outcome # "permanent"
      BY <1>3, <2>3
    <2>5. /\ Retried(t)' = Retried(t) + IF outcome \in {"retryable", "malformed"} THEN 1 ELSE 0
          /\ Broken' = Broken + IF outcome = "interrupted" THEN 1 ELSE 0
      BY <2>3, Costs
    <2>6. /\ UNCHANGED <<next, retained, attempt, runs>>
          /\ pc \in {"boundary", "acknowledging"} /\ t # "end"
      BY <1>10, CallEffect DEF Before, After, business, Tools
    <2>7. Retried(t) \in Nat /\ attempt <= Retried(t) + 1 /\ runs <= Broken + 1
      BY <1>2, <1>3, <2>1, <2>6
    <2> QED
      BY <1>2, <1>3, <2>1, <2>3, <2>4, <2>5, <2>6, <2>7
  <1>11. CASE Retry
    <2>1. PICK t \in Tools : t = next
      BY <1>11 DEF Retry, PlaceInv
    <2>2. attempt # MaxAttempts
      BY <1>2, <1>3, <1>11, <2>1 DEF Retry
    <2>3. /\ UNCHANGED <<next, retained, runs>> /\ attempt' = attempt + 1
          /\ Broken' = Broken /\ Retried(t)' = Retried(t) /\ pc = "retrying" /\ pc' = "node"
      BY <1>4, <1>11, <2>2 DEF Retry, business
    <2> QED
      BY <1>2, <1>3, <2>1, <2>3
  <1>12. CASE Store \/ Checkpoint
    <2>1. /\ retained' = retained /\ runs' = runs /\ Broken' = Broken
          /\ pc \in {"storing", "returning"}
          /\ \/ next' = next /\ pc' = "returning"
             \/ attempt' = 1 /\ pc' \in {"node", "complete"}
      BY <1>4, <1>12 DEF Store, Checkpoint, business
    <2>2. next # "end"
      BY <2>1 DEF PlaceInv
    <2> QED
      BY <1>2, <1>3, <2>1, <2>2
  <1>13. CASE Reject \/ Retain
    BY <1>2, <1>13 DEF Reject, Retain
  <1>14. CASE Rerun
    <2>1. /\ UNCHANGED <<next, retained, runs>> /\ Broken' = Broken
          /\ pc' = "idle" /\ pc \in Ended
      BY <1>4, <1>14 DEF Rerun, business
    <2>2. pc = "interrupted" \/ next = "end"
      BY <1>1, <1>2, <2>1 DEF EndInv, Undisturbed, Ended
    <2> QED
      BY <1>2, <2>1, <2>2
  <1> QED
    BY <1>5, <1>6, <1>7, <1>8, <1>9, <1>10, <1>11, <1>12, <1>13, <1>14 DEF Next, Step

\* Whoever runs was started.
LEMMA RunStep == IInv /\ RunInv /\ [Next]_vars => RunInv'
  <1> SUFFICES ASSUME IInv, RunInv, [Next]_vars PROVE RunInv'
    OBVIOUS
  <1>1. CASE Start \/ Rerun
    BY <1>1, Reads DEF Start, Rerun, RunInv
  <1>2. CASE UNCHANGED vars
    BY <1>2 DEF vars, RunInv
  <1>3. CASE ~Start /\ ~Rerun /\ Next
    <2>1. (runs' = runs /\ pc # "idle") \/ UNCHANGED <<runs, pc>>
      BY <1>3 DEF Next, Step, Resume, EnterNode, Before, Commit, CheckFile, ReadFile, WriteFile,
         FailWrite, After, Retry, Store, Checkpoint, Reject, Retain, Kill, Damage, Ended
    <2> QED
      BY <2>1 DEF RunInv
  <1> QED
    BY <1>1, <1>2, <1>3

\* Every step keeps the accounts and the evidence.
LEMMA StepVerdict == IInv /\ Bound /\ VerdictInv /\ [Next]_vars => Bound' /\ VerdictInv'
  <1> SUFFICES ASSUME IInv, Bound, VerdictInv, [Next]_vars PROVE Bound' /\ VerdictInv'
    OBVIOUS
  <1>1. EndInv' /\ RunInv' /\ CommittedInv' /\ BudgetInv' /\ PathInv'
    BY EndStep, RunStep, CommittedStep, BudgetStep, PathStep DEF VerdictInv
  <1>2. calls' \in [Faults!Rules -> Nat] /\ binding' = binding
    BY StoreTypeStep DEF Faults!TypeOK
  <1> QED
    BY <1>1, <1>2 DEF Bound, VerdictInv

\* Nothing has been suffered in a fresh directory.
LEMMA InitVerdict == Init => Bound /\ VerdictInv
  <1> SUFFICES ASSUME Init PROVE Bound /\ VerdictInv
    OBVIOUS
  <1>1. IInv /\ DistinctTargets(binding)
    BY InitIInv DEF Init
  <1>2. Bound
    BY <1>1, BoundIs
  <1>3. CommittedInv /\ PathInv /\ EndInv /\ RunInv
    BY DEF Init, StoreInit, CommittedInv, PathInv, LateFaults, EndInv, RunInv
  <1>4. BudgetInv
    <2>1. Broken \in Nat
      BY <1>2, CostTypes DEF Broken
    <2> QED
      BY <2>1 DEF Init, BudgetInv, Tools
  <1> QED
    BY <1>2, <1>3, <1>4 DEF VerdictInv

\* What the oracle concludes follows.
LEMMA Verdicts == IInv /\ Bound /\ VerdictInv => OracleVerdict
  <1> SUFFICES ASSUME IInv, Bound, VerdictInv PROVE OracleVerdict
    OBVIOUS
  <1> USE Reads
  <1>1. EndInv /\ RunInv /\ CommittedInv /\ BudgetInv /\ PathInv
    BY DEF VerdictInv
  <1>2. Undisturbed => pc \notin {"killed", "error"}
    BY <1>1 DEF EndInv, Undisturbed
  <1>3. BudgetSuffices
    <2> SUFFICES ASSUME Tolerable, Undisturbed, Finished PROVE Completed <=> mode = "normal"
      BY DEF BudgetSuffices
    <2>1. /\ ~retained
          /\ next # "end" => runs <= Broken + IF pc \in {"idle", "interrupted"} THEN 0 ELSE 1
      BY <1>1 DEF BudgetInv
    <2>2. Broken \in Nat /\ Broken < IF "interrupted" \in Operated.rerun THEN Operated.runs ELSE 1
      BY WithinBudgets
    <2>3. pc \in {"complete", "interrupted"} /\ runs \in Nat \ {0}
      BY <1>1, <1>2, <2>1 DEF Finished, Ended, EndInv, RunInv
    <2>4. pc = "interrupted" => next # "end"
      BY DEF PlaceInv
    <2>5. pc = "complete" /\ next = "end"
      BY <1>1, <2>1, <2>2, <2>3, <2>4 DEF Finished, EndInv
    <2>6. records /\ complete /\ commits = 1 /\ artifact /\ Materialized
      BY <1>1, <2>5 DEF EndInv, CheckpointBacked, Undisturbed
    <2> QED
      BY <2>5, <2>6 DEF Completed
  <1>4. RejectionVerdict
    <2> SUFFICES ASSUME Undisturbed, pc = "failed"
                 PROVE  SafelyRejected <=> LateFaults(binding, journal) = {}
      BY DEF RejectionVerdict
    <2>1. retained /\ rejected /\ next \in Tools
      BY <1>1 DEF EndInv, RejectInv
    <2>2. artifact => LateFaults(binding, journal) # {}
      BY <1>1, <2>1 DEF PathInv, OnPath
    <2> QED
      BY <1>1, <2>1, <2>2 DEF CommittedInv, SafelyRejected, Tools
  <1> QED
    BY <1>3, <1>4 DEF OracleVerdict

\* As long as only the schedule acts on the task: within the budgets the graph
\* completes it, and a rejection is safe exactly if every fault struck before the
\* commit (_run_graph_once, LangGraphAdapter.assess).
THEOREM Oracle == Spec => []OracleVerdict
  <1> QED
    BY Invariance, InitVerdict, StepVerdict, Verdicts, PTL DEF Spec

=============================================================================

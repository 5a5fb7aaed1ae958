------------------------ MODULE ArtifactWorkflowProofs ------------------------
(* Theorems about ArtifactWorkflow for any workers, settings and schedules:    *)
(* its invariant, that it implements ArtifactPromise, and the verdict of its   *)
(* oracle.                                                                     *)
EXTENDS ArtifactWorkflow, FiniteSetTheorems, SequenceTheorems, TLAPS

writing == {w \in Workers : pc[w] = "writing"}

\* The row and its event were inserted together, and every temporary file that
\* no writer owns was left by a kill.
StoreInv ==
    /\ binding \in Operated.schedules
    /\ commits = IF artifact THEN 1 ELSE 0
    /\ Cardinality(writing) <= temps
    /\ temps <= crashes + Cardinality(writing)

\* Where a worker is tells what the directory already holds.
Staged(w) ==
    /\ stage[w] = "export_artifact" => artifact
    /\ stage[w] \in {"commit_artifact", "export_artifact"} => content
    /\ stage[w] # "retrieve_records" => records
    /\ pc[w] = "acting" => stage[w] \in {"commit_artifact", "export_artifact"}
    /\ pc[w] \in {"comparing", "writing"} => stage[w] = "export_artifact"
    /\ pc[w] = "comparing" => file # "absent" \/ damages > 0
    /\ pc[w] \in {"acknowledging", "saving"} =>
        /\ stage[w] = "commit_artifact" => artifact
        /\ stage[w] = "export_artifact" => file = "current" \/ damages > 0
    /\ pc[w] = "error" => errors > 0 \/ damages > 0

\* The inductive invariant.
IInv == TypeOK /\ StoreInv /\ \A w \in Workers : Staged(w)

-----------------------------------------------------------------------------
(* Types                                                                     *)

\* The part of the type invariant that is about the workers and the bounds.
LocalTypes ==
    /\ setting \in DOMAIN Settings
    /\ {records, content, complete, rejected} \subseteq BOOLEAN
    /\ pc \in [Workers -> States]
    /\ stage \in [Workers -> Tools]
    /\ attempt \in [Workers -> 0..MaxAttempts]
    /\ runs \in [Workers -> 0..Operated.runs]
    /\ crashes \in 0..Operated.crashes
    /\ errors \in 0..Operated.errors
    /\ damages <= Operated.damages

\* The type invariant speaks of the store, the journal and the workers.
LEMMA TypeParts == TypeOK <=> StoreTypeOK /\ Faults!TypeOK /\ LocalTypes
BY DEF TypeOK, LocalTypes

\* The same in the next state.
LEMMA TypePartsNext == StoreTypeOK' /\ (Faults!TypeOK)' /\ LocalTypes' => TypeOK'
BY DEF TypeOK, LocalTypes

\* The bounds of a setting are numbers.
LEMMA SettingFacts ==
    ASSUME setting \in DOMAIN Settings
    PROVE  /\ Operated.runs \in Nat /\ Operated.crashes \in Nat
           /\ Operated.damages \in Nat /\ Operated.errors \in Nat
           /\ Operated.schedules \subseteq Schedules
BY WorkflowAssumption DEF Operated, IsSetting, Schedules

\* A bound schedule has rules within the bound, so it indexes the counters.
LEMMA ScheduleFacts ==
    ASSUME setting \in DOMAIN Settings, binding \in Operated.schedules
    PROVE  binding \in Schedules /\ DOMAIN binding \subseteq Faults!Rules
<1>1. binding \in Schedules
  BY SettingFacts
<1>2. PICK n \in 0..MaxRules : DOMAIN binding = 1..n
  BY <1>1, WorkflowAssumption DEF IsSchedule
<1> QED
  BY <1>1, <1>2, WorkflowAssumption DEF Faults!Rules

\* Counting a call and recording its injection keeps the journal well typed.
LEMMA ApplyType ==
    ASSUME Faults!TypeOK, DOMAIN binding \subseteq Faults!Rules,
           NEW tool, NEW phase, NEW outcome, Faults!Apply(tool, phase, outcome)
    PROVE  (Faults!TypeOK)' /\ UNCHANGED binding
  <1> DEFINE S == [rule : Faults!Rules, occurrence : Nat]
  <1>1. CASE UNCHANGED faultVars
    BY <1>1 DEF faultVars, Faults!TypeOK
  <1>2. ASSUME NEW i \in DOMAIN binding, Faults!Claim(i)
        PROVE  (Faults!TypeOK)' /\ UNCHANGED binding
    <2> DEFINE e == Faults!Record(i, calls[i] + 1)
    <2>1. i \in Faults!Rules
      OBVIOUS
    <2>2. /\ calls \in [Faults!Rules -> Nat] /\ journal \in Seq(S)
          /\ calls' = [calls EXCEPT ![i] = calls[i] + 1] /\ UNCHANGED binding
          /\ journal' = Append(journal, e) \/ journal' = journal
      BY <1>2 DEF Faults!TypeOK, Faults!Claim
    <2>3. calls' \in [Faults!Rules -> Nat] /\ e \in S
      BY <2>1, <2>2 DEF Faults!Record
    <2> HIDE DEF S, e
    <2>4. journal' \in Seq(S)
      BY <2>2, <2>3, AppendProperties
    <2> QED
      BY <2>2, <2>3, <2>4 DEF Faults!TypeOK, S
  <1> QED
    BY <1>1, <1>2 DEF Faults!Apply, Faults!Matching, Faults!journalVars, faultVars

\* The journal keeps its types when nothing is called.
LEMMA JournalFrame == Faults!TypeOK /\ UNCHANGED faultVars => (Faults!TypeOK)'
BY DEF Faults!TypeOK, faultVars

-----------------------------------------------------------------------------
(* Writers and their temporary files                                         *)

\* A worker that goes on is in the set of writers exactly if it writes.
LEMMA Writers ==
    ASSUME pc \in [Workers -> States], NEW w \in Workers, NEW s \in States, Goto(w, s)
    PROVE  /\ pc' \in [Workers -> States]
           /\ pc'[w] = s /\ \A v \in Workers \ {w} : pc'[v] = pc[v]
           /\ IsFiniteSet(writing) /\ Cardinality(writing) \in Nat
           /\ s = "writing" /\ pc[w] # "writing" =>
                Cardinality(writing)' = Cardinality(writing) + 1
           /\ s # "writing" /\ pc[w] = "writing" =>
                Cardinality(writing)' = Cardinality(writing) - 1
           /\ s # "writing" /\ pc[w] # "writing" =>
                Cardinality(writing)' = Cardinality(writing)
<1>1. /\ pc' \in [Workers -> States]
      /\ pc'[w] = s /\ \A v \in Workers \ {w} : pc'[v] = pc[v]
  BY DEF Goto
<1>2. IsFiniteSet(writing) /\ Cardinality(writing) \in Nat
  BY FS_Subset, FS_CardinalityType, WorkflowAssumption DEF writing
<1>3. ASSUME s = "writing", pc[w] # "writing"
      PROVE  Cardinality(writing)' = Cardinality(writing) + 1
  <2>1. writing' = writing \cup {w} /\ w \notin writing
    BY <1>1, <1>3 DEF writing
  <2> QED
    BY <1>2, <2>1, FS_AddElement
<1>4. ASSUME s # "writing", pc[w] = "writing"
      PROVE  Cardinality(writing)' = Cardinality(writing) - 1
  <2>1. writing' = writing \ {w} /\ w \in writing
    BY <1>1, <1>4 DEF writing
  <2> QED
    BY <1>2, <2>1, FS_RemoveElement
<1>5. ASSUME s # "writing", pc[w] # "writing"
      PROVE  Cardinality(writing)' = Cardinality(writing)
  <2>1. writing' = writing
    BY <1>1, <1>5 DEF writing
  <2> QED
    BY <2>1
<1> QED
  BY <1>1, <1>2, <1>3, <1>4, <1>5

-----------------------------------------------------------------------------
(* The inductive step                                                        *)

\* What every step does to the evidence other workers rely on: it is never
\* taken back, except that damage to the file is counted.
Progress ==
    /\ artifact => artifact'
    /\ content => content'
    /\ records => records'
    /\ file' = file \/ file' = "current" \/ damages' > 0
    /\ errors <= errors' /\ damages <= damages'

\* A worker that does not move stays backed.
LEMMA OthersStaged ==
    ASSUME StoreTypeOK, LocalTypes, StoreTypeOK', errors' \in Nat, Progress,
           NEW v \in Workers, Staged(v), pc'[v] = pc[v], stage'[v] = stage[v]
    PROVE  Staged(v)'
<1>1. /\ errors \in Nat /\ damages \in Nat /\ damages' \in Nat
  BY SettingFacts DEF LocalTypes, StoreTypeOK
<1>2. /\ errors > 0 => errors' > 0
      /\ damages > 0 => damages' > 0
  BY <1>1 DEF Progress
<1>3. /\ file # "absent" \/ damages > 0 => file' # "absent" \/ damages' > 0
      /\ file = "current" \/ damages > 0 => file' = "current" \/ damages' > 0
  BY <1>2 DEF Progress
<1> QED
  BY <1>2, <1>3 DEF Staged, Progress

\* How a step of w moves temporary files and kills along with w's place.
Temporary(w, s) ==
    \/ /\ s = "writing" /\ pc[w] # "writing"
       /\ temps' = temps + 1 /\ crashes' = crashes
    \/ /\ s # "writing" /\ pc[w] = "writing"
       /\ temps' = temps - 1 /\ crashes' = crashes
    \/ /\ s # "writing" /\ pc[w] # "writing"
       /\ temps' = temps /\ crashes' = crashes
    \/ s # "writing" /\ temps' = temps /\ crashes' = crashes + 1

\* A step that moves one worker keeps the invariant if it keeps the types, takes
\* nothing back, accounts for its temporary file and backs the worker's place.
LEMMA Moved ==
    ASSUME IInv, NEW w \in Workers, NEW s \in States, Goto(w, s),
           UNCHANGED <<setting, binding, damages>>,
           artifact' \in BOOLEAN, file' \in {"absent", "torn", "current"},
           (Faults!TypeOK)',
           {records', content', complete', rejected'} \subseteq BOOLEAN,
           stage' \in [Workers -> Tools],
           \A v \in Workers \ {w} : stage'[v] = stage[v],
           attempt' \in [Workers -> 0..MaxAttempts],
           runs' \in [Workers -> 0..Operated.runs],
           crashes' \in 0..Operated.crashes, errors' \in 0..Operated.errors,
           commits' = IF artifact' THEN 1 ELSE 0,
           Progress, Temporary(w, s), Staged(w)'
    PROVE  IInv'
<1>1. StoreTypeOK /\ LocalTypes /\ StoreInv
  BY TypeParts DEF IInv
<1>2. /\ Operated.crashes \in Nat /\ Operated.errors \in Nat /\ Operated' = Operated
      /\ crashes \in Nat /\ crashes' \in Nat /\ errors' \in Nat
  BY <1>1, SettingFacts DEF LocalTypes, Operated
<1>3. /\ pc' \in [Workers -> States]
      /\ \A v \in Workers \ {w} : pc'[v] = pc[v]
  BY <1>1, Writers DEF LocalTypes
<1>4. LocalTypes'
  BY <1>1, <1>2, <1>3 DEF LocalTypes
<1>5. /\ temps' \in Nat
      /\ Cardinality(writing)' <= temps' /\ temps' <= crashes' + Cardinality(writing)'
  <2> DEFINE n == Cardinality(writing)
  <2> DEFINE m == Cardinality(writing)'
  <2>1. /\ n \in Nat
        /\ s = "writing" /\ pc[w] # "writing" => m = n + 1
        /\ s # "writing" /\ pc[w] = "writing" => m = n - 1
        /\ s # "writing" /\ pc[w] # "writing" => m = n
    BY <1>1, Writers DEF LocalTypes
  <2>2. n <= temps /\ temps <= crashes + n /\ temps \in Nat
    BY <1>1 DEF StoreInv, StoreTypeOK
  <2>3. pc[w] = "writing" => n >= 1
    <3>1. IsFiniteSet(writing)
      BY <1>1, Writers DEF LocalTypes
    <3>2. pc[w] = "writing" => writing # {}
      BY DEF writing
    <3> QED
      BY <2>1, <3>1, <3>2, FS_EmptySet
  <2> HIDE DEF n, m
  <2>4. temps' \in Nat /\ m <= temps' /\ temps' <= crashes' + m
    BY <1>2, <2>1, <2>2, <2>3 DEF Temporary
  <2> QED
    BY <2>4 DEF m
<1>6. StoreTypeOK'
  BY <1>1, <1>5 DEF StoreTypeOK
<1>7. StoreInv'
  BY <1>1, <1>2, <1>5 DEF StoreInv
<1>8. \A v \in Workers : Staged(v)'
  BY <1>1, <1>2, <1>3, <1>6, OthersStaged DEF IInv
<1> QED
  BY <1>4, <1>6, <1>7, <1>8, TypePartsNext DEF IInv

\* The invariant, part by part.
LEMMA Parts ==
    ASSUME IInv
    PROVE  /\ StoreTypeOK /\ Faults!TypeOK /\ LocalTypes /\ StoreInv
           /\ Operated.runs \in Nat /\ Operated.crashes \in Nat /\ Operated.errors \in Nat
           /\ DOMAIN binding \subseteq Faults!Rules
           /\ crashes \in Nat /\ errors \in Nat /\ MaxAttempts \in Nat \ {0}
<1>1. StoreTypeOK /\ Faults!TypeOK /\ LocalTypes /\ StoreInv
  BY TypeParts DEF IInv
<1> QED
  BY <1>1, SettingFacts, ScheduleFacts, WorkflowAssumption DEF LocalTypes, StoreInv

\* A step of w that touches no file, commits nothing and takes no checkpoint.
LEMMA QuietMove ==
    ASSUME IInv, NEW w \in Workers, NEW s \in States \ {"writing"}, Goto(w, s),
           pc[w] # "writing", UNCHANGED <<storeVars, bounds, checkpoints>>,
           (Faults!TypeOK)', UNCHANGED binding, rejected' \in BOOLEAN,
           stage' \in [Workers -> Tools],
           \A v \in Workers \ {w} : stage'[v] = stage[v],
           attempt' \in [Workers -> 0..MaxAttempts],
           runs' \in [Workers -> 0..Operated.runs],
           Staged(w)'
    PROVE  IInv'
<1>1. /\ UNCHANGED <<artifact, commits, file, temps, damages, setting, crashes, errors>>
      /\ UNCHANGED <<records, content, complete>>
  BY DEF storeVars, bounds, checkpoints
<1>2. Progress
  BY <1>1, Parts DEF Progress, StoreTypeOK
<1>3. Temporary(w, s)
  BY <1>1 DEF Temporary
<1>4. /\ artifact' \in BOOLEAN /\ file' \in {"absent", "torn", "current"}
      /\ {records', content', complete', rejected'} \subseteq BOOLEAN
      /\ crashes' \in 0..Operated.crashes /\ errors' \in 0..Operated.errors
      /\ commits' = IF artifact' THEN 1 ELSE 0
  BY <1>1, Parts DEF StoreTypeOK, LocalTypes, StoreInv
<1> QED
  BY <1>1, <1>2, <1>3, <1>4, Moved

\* A worker starts at the first stage.
LEMMA StartStep == ASSUME IInv, NEW w \in Workers, Start(w) PROVE IInv'
<1>1. /\ pc[w] = "idle" /\ runs[w] < Operated.runs
      /\ runs' = [runs EXCEPT ![w] = @ + 1]
      /\ stage' = [stage EXCEPT ![w] = "retrieve_records"]
      /\ Goto(w, "entering")
      /\ UNCHANGED <<storeVars, bounds, checkpoints, faultVars, rejected, attempt>>
  BY DEF Start
<1>2. /\ stage' \in [Workers -> Tools] /\ stage'[w] = "retrieve_records"
      /\ \A v \in Workers \ {w} : stage'[v] = stage[v]
      /\ runs' \in [Workers -> 0..Operated.runs]
  BY <1>1, Parts DEF LocalTypes, Tools
<1>3. pc'[w] = "entering"
  BY <1>1, Parts, Writers DEF LocalTypes, States
<1>4. Staged(w)'
  BY <1>2, <1>3 DEF Staged
<1>5. (Faults!TypeOK)' /\ UNCHANGED binding
  BY <1>1, Parts, JournalFrame DEF faultVars
<1>6. rejected' \in BOOLEAN /\ attempt' \in [Workers -> 0..MaxAttempts]
  BY <1>1, Parts DEF LocalTypes
<1> QED
  BY <1>1, <1>2, <1>4, <1>5, <1>6, QuietMove DEF States

\* A stage is entered, or skipped because its output is checkpointed.
LEMMA EnterStep == ASSUME IInv, NEW w \in Workers, Enter(w) PROVE IInv'
<1>1. /\ pc[w] = "entering"
      /\ UNCHANGED <<storeVars, bounds, checkpoints, faultVars, rejected, runs>>
      /\ UNCHANGED <<artifact, content, records, file, errors, damages>>
  BY DEF Enter, storeVars, bounds, checkpoints
<1>2. /\ pc \in [Workers -> States] /\ stage \in [Workers -> Tools]
      /\ attempt \in [Workers -> 0..MaxAttempts] /\ rejected' \in BOOLEAN
      /\ runs' \in [Workers -> 0..Operated.runs]
      /\ (Faults!TypeOK)' /\ UNCHANGED binding /\ Staged(w)
  BY <1>1, Parts, JournalFrame DEF LocalTypes, IInv, faultVars
<1>3. CASE Saved(stage[w])
  <2>1. /\ stage' = [stage EXCEPT ![w] = Following[stage[w]]]
        /\ UNCHANGED <<pc, attempt>>
    BY <1>3 DEF Enter
  <2>2. \/ stage[w] = "retrieve_records" /\ records /\ Following[stage[w]] = "build_artifact"
        \/ stage[w] = "build_artifact" /\ content /\ Following[stage[w]] = "commit_artifact"
    BY <1>3 DEF Saved, Following
  <2>3. /\ stage' \in [Workers -> Tools] /\ stage'[w] = Following[stage[w]]
        /\ \A v \in Workers \ {w} : stage'[v] = stage[v]
    BY <1>2, <2>1, <2>2 DEF Tools
  <2>4. Goto(w, "entering") /\ pc'[w] = "entering"
    BY <1>1, <1>2, <2>1 DEF Goto
  <2>5. Staged(w)'
    BY <1>1, <1>2, <2>2, <2>3, <2>4 DEF Staged
  <2> QED
    BY <1>1, <1>2, <2>1, <2>3, <2>4, <2>5, QuietMove DEF States
<1>4. CASE ~Saved(stage[w])
  <2>1. /\ attempt' = [attempt EXCEPT ![w] = 1] /\ Goto(w, "boundary")
        /\ UNCHANGED stage
    BY <1>4 DEF Enter
  <2>2. attempt' \in [Workers -> 0..MaxAttempts]
    BY <1>2, <2>1, Parts
  <2>3. pc'[w] = "boundary"
    BY <1>2, <2>1 DEF Goto
  <2>4. Staged(w)'
    BY <1>1, <1>2, <2>1, <2>3 DEF Staged
  <2> QED
    BY <1>1, <1>2, <2>1, <2>2, <2>4, QuietMove DEF States
<1> QED
  BY <1>3, <1>4

\* A move that leaves the stage, the files and the checkpoints alone.
LEMMA PlainMove ==
    ASSUME IInv, NEW w \in Workers, NEW s \in States \ {"writing"}, Goto(w, s),
           pc[w] # "writing", UNCHANGED <<storeVars, bounds, checkpoints, stage, runs>>,
           (Faults!TypeOK)', UNCHANGED binding, rejected' \in BOOLEAN,
           attempt' \in [Workers -> 0..MaxAttempts],
           s = "acting" => stage[w] \in {"commit_artifact", "export_artifact"},
           s # "comparing", s # "error",
           s \in {"acknowledging", "saving"} =>
              \/ stage[w] \notin {"commit_artifact", "export_artifact"}
              \/ pc[w] = "acknowledging"
    PROVE  IInv'
<1>1. /\ UNCHANGED <<artifact, content, records, file, errors, damages, stage>>
      /\ stage' \in [Workers -> Tools] /\ runs' \in [Workers -> 0..Operated.runs]
  BY Parts DEF storeVars, bounds, checkpoints, LocalTypes
<1>2. pc'[w] = s /\ Staged(w)
  BY Parts DEF Goto, LocalTypes, IInv
<1>3. Staged(w)'
  BY <1>1, <1>2 DEF Staged
<1> QED
  BY <1>1, <1>3, QuietMove

\* The boundary before a tool.
LEMMA BeforeStep == ASSUME IInv, NEW w \in Workers, Before(w) PROVE IInv'
<1>1. PICK outcome \in Faults!Outcomes :
        /\ Faults!Apply(stage[w], "before", outcome)
        /\ \/ /\ outcome = "none"
              /\ Goto(w, IF stage[w] \in {"commit_artifact", "export_artifact"}
                           THEN "acting" ELSE "acknowledging")
           \/ outcome = "retryable" /\ Goto(w, "retrying")
           \/ outcome = "interrupted" /\ Goto(w, "interrupted")
           \/ outcome = "permanent" /\ Goto(w, "rejecting")
  BY DEF Before
<1>2. /\ pc[w] = "boundary"
      /\ UNCHANGED <<storeVars, bounds, checkpoints, stage, runs>>
      /\ UNCHANGED <<rejected, attempt>>
  BY DEF Before
<1>3. /\ (Faults!TypeOK)' /\ UNCHANGED binding
      /\ rejected' \in BOOLEAN /\ attempt' \in [Workers -> 0..MaxAttempts]
  BY <1>1, <1>2, Parts, ApplyType DEF LocalTypes
<1>4. PICK s \in {"acting", "acknowledging", "retrying", "interrupted", "rejecting"} :
        /\ Goto(w, s)
        /\ s = "acting" => stage[w] \in {"commit_artifact", "export_artifact"}
        /\ s = "acknowledging" => stage[w] \notin {"commit_artifact", "export_artifact"}
  BY <1>1
<1> QED
  BY <1>2, <1>3, <1>4, PlainMove DEF States, Ended

\* The boundary after a tool.
LEMMA AfterStep == ASSUME IInv, NEW w \in Workers, After(w) PROVE IInv'
<1>1. PICK outcome \in Faults!Outcomes :
        /\ Faults!Apply(stage[w], "after", outcome)
        /\ \/ outcome = "none" /\ Goto(w, "saving")
           \/ outcome \in {"retryable", "malformed"} /\ Goto(w, "retrying")
           \/ outcome = "interrupted" /\ Goto(w, "interrupted")
  BY DEF After
<1>2. /\ pc[w] = "acknowledging"
      /\ UNCHANGED <<storeVars, bounds, checkpoints, stage, runs>>
      /\ UNCHANGED <<rejected, attempt>>
  BY DEF After
<1>3. /\ (Faults!TypeOK)' /\ UNCHANGED binding
      /\ rejected' \in BOOLEAN /\ attempt' \in [Workers -> 0..MaxAttempts]
  BY <1>1, <1>2, Parts, ApplyType DEF LocalTypes
<1>4. PICK s \in {"saving", "retrying", "interrupted"} : Goto(w, s)
  BY <1>1
<1> QED
  BY <1>2, <1>3, <1>4, PlainMove DEF States, Ended

\* A retry, a rejection and a new start of an ended run.
LEMMA ResetStep ==
    ASSUME IInv, NEW w \in Workers, Retry(w) \/ Reject(w) \/ Rerun(w)
    PROVE  IInv'
<1>1. /\ UNCHANGED <<storeVars, bounds, checkpoints, stage, runs>> /\ UNCHANGED faultVars
      /\ pc[w] # "writing"
  BY Parts, WorkflowAssumption DEF Retry, Reject, Rerun, IsSetting, Operated, LocalTypes, Ended
<1>2. (Faults!TypeOK)' /\ UNCHANGED binding
  BY <1>1, Parts, JournalFrame DEF faultVars
<1>3. attempt \in [Workers -> 0..MaxAttempts] /\ rejected \in BOOLEAN
  BY Parts DEF LocalTypes
<1>4. CASE Retry(w)
  <2>1. attempt' \in [Workers -> 0..MaxAttempts] /\ UNCHANGED rejected
    <3>1. CASE attempt[w] = MaxAttempts
      BY <1>3, <1>4, <3>1 DEF Retry
    <3>2. CASE attempt[w] # MaxAttempts
      <4>1. attempt[w] + 1 \in 0..MaxAttempts
        BY <1>3, <3>2, Parts
      <4>2. attempt' = [attempt EXCEPT ![w] = attempt[w] + 1]
        BY <1>4, <3>2 DEF Retry
      <4> QED
        BY <1>3, <1>4, <4>1, <4>2 DEF Retry
    <3> QED
      BY <3>1, <3>2
  <2>2. PICK s \in {"rejecting", "boundary"} : Goto(w, s)
    BY <1>4 DEF Retry
  <2> QED
    BY <1>1, <1>2, <1>3, <2>1, <2>2, PlainMove DEF States
<1>5. CASE Reject(w)
  <2>1. Goto(w, "failed") /\ rejected' \in BOOLEAN /\ UNCHANGED attempt
    BY <1>5 DEF Reject
  <2> QED
    BY <1>1, <1>2, <1>3, <2>1, PlainMove DEF States, Ended
<1>6. CASE Rerun(w)
  <2>1. /\ Goto(w, "idle") /\ UNCHANGED rejected
        /\ attempt' = [attempt EXCEPT ![w] = 0]
    BY <1>6 DEF Rerun
  <2>2. attempt' \in [Workers -> 0..MaxAttempts]
    BY <1>3, <2>1, Parts
  <2> QED
    BY <1>1, <1>2, <1>3, <2>1, <2>2, PlainMove DEF States
<1> QED
  BY <1>4, <1>5, <1>6

\* A step on the store, of a worker whose stage, checkpoints and calls stay.
LEMMA StoreMove ==
    ASSUME IInv, NEW w \in Workers, NEW s \in States, Goto(w, s),
           UNCHANGED <<checkpoints, rejected, faultVars, stage, attempt, runs, setting, damages>>,
           artifact' \in BOOLEAN, file' \in {"absent", "torn", "current"},
           artifact => artifact', file' \in {file, "current"},
           commits' = IF artifact' THEN 1 ELSE 0,
           crashes' \in 0..Operated.crashes, errors' \in 0..Operated.errors,
           errors <= errors',
           Temporary(w, s),
           s = "acting" => stage[w] \in {"commit_artifact", "export_artifact"},
           s \in {"comparing", "writing"} => stage[w] = "export_artifact",
           s = "comparing" => file' # "absent",
           s \in {"acknowledging", "saving"} =>
             /\ stage[w] = "commit_artifact" => artifact'
             /\ stage[w] = "export_artifact" => file' = "current" \/ damages > 0,
           s = "error" => errors' > 0 \/ damages > 0
    PROVE  IInv'
<1>1. /\ UNCHANGED <<records, content, complete, rejected, stage, attempt, runs, setting>>
      /\ UNCHANGED <<binding, calls, journal, damages>>
  BY DEF checkpoints, faultVars
<1>2. /\ (Faults!TypeOK)'
      /\ {records', content', complete', rejected'} \subseteq BOOLEAN
      /\ stage' \in [Workers -> Tools] /\ attempt' \in [Workers -> 0..MaxAttempts]
      /\ runs' \in [Workers -> 0..Operated.runs] /\ damages \in Nat
      /\ pc'[w] = s /\ Staged(w)
  BY <1>1, Parts, JournalFrame DEF faultVars, LocalTypes, StoreTypeOK, Goto, IInv
<1>3. Staged(w)'
  BY <1>1, <1>2 DEF Staged
<1>4. Progress
  BY <1>1, <1>2 DEF Progress
<1> QED
  BY <1>1, <1>2, <1>3, <1>4, Moved

\* commit() inserts the row and its event together.
LEMMA CommitStep == ASSUME IInv, NEW w \in Workers, Commit(w) PROVE IInv'
<1>1. /\ pc[w] = "acting" /\ stage[w] = "commit_artifact" /\ Goto(w, "acknowledging")
      /\ UNCHANGED <<checkpoints, rejected, faultVars, stage, attempt, runs, setting, damages>>
      /\ UNCHANGED <<crashes, errors, temps, file>>
      /\ artifact' = TRUE /\ commits' = IF artifact THEN commits ELSE commits + 1
  BY DEF Commit, CommitArtifact, bounds
<1>2. /\ commits = IF artifact THEN 1 ELSE 0
      /\ file' \in {"absent", "torn", "current"}
      /\ crashes' \in 0..Operated.crashes /\ errors' \in 0..Operated.errors
      /\ errors <= errors'
  BY <1>1, Parts DEF StoreInv, StoreTypeOK, LocalTypes
<1>3. Temporary(w, "acknowledging")
  BY <1>1 DEF Temporary
<1> QED
  BY <1>1, <1>2, <1>3, StoreMove DEF States

\* export() up to the temporary file, and its rename.
LEMMA ExportStep ==
    ASSUME IInv, NEW w \in Workers, CheckFile(w) \/ ReadFile(w) \/ WriteFile(w)
    PROVE  IInv'
<1>1. /\ UNCHANGED <<checkpoints, rejected, faultVars, stage, attempt, runs, setting, crashes>>
      /\ UNCHANGED <<errors, artifact, commits, damages>>
  BY DEF CheckFile, ReadFile, WriteFile, bounds, storeVars, OpenTemporary, ReplaceTarget
<1>2. /\ artifact' \in BOOLEAN /\ file \in {"absent", "torn", "current"}
      /\ commits' = IF artifact' THEN 1 ELSE 0
      /\ crashes' \in 0..Operated.crashes /\ errors' \in 0..Operated.errors
      /\ errors <= errors' /\ Staged(w)
  BY <1>1, Parts DEF StoreInv, StoreTypeOK, LocalTypes, IInv
<1>3. stage[w] = "export_artifact"
  BY <1>2 DEF CheckFile, ReadFile, WriteFile, Staged
<1>4. CASE CheckFile(w)
  <2>1. CASE Exists
    <3>1. Goto(w, "comparing") /\ UNCHANGED <<temps, file>> /\ file # "absent"
          /\ pc[w] = "acting"
      BY <1>4, <2>1 DEF CheckFile, Exists, storeVars
    <3>2. Temporary(w, "comparing")
      BY <1>1, <3>1 DEF Temporary
    <3> QED
      BY <1>1, <1>2, <1>3, <3>1, <3>2, StoreMove DEF States
  <2>2. CASE ~Exists
    <3>1. /\ Goto(w, "writing") /\ UNCHANGED file /\ temps' = temps + 1
          /\ pc[w] = "acting"
      BY <1>4, <2>2 DEF CheckFile, OpenTemporary
    <3>2. Temporary(w, "writing")
      BY <1>1, <3>1 DEF Temporary
    <3> QED
      BY <1>1, <1>2, <1>3, <3>1, <3>2, StoreMove DEF States
  <2> QED
    BY <2>1, <2>2
<1>5. CASE ReadFile(w)
  <2>1. pc[w] = "comparing"
    BY <1>5 DEF ReadFile
  <2>2. CASE ~Exists /\ Goto(w, "error") /\ UNCHANGED storeVars
    <3>1. Temporary(w, "error") /\ UNCHANGED file
      BY <1>1, <2>1, <2>2 DEF Temporary, storeVars
    <3>2. damages > 0
      BY <1>2, <2>1, <2>2 DEF Staged, Exists
    <3> QED
      BY <1>1, <1>2, <1>3, <2>2, <3>1, <3>2, StoreMove DEF States, Ended
  <2>3. CASE Materialized /\ Goto(w, "acknowledging") /\ UNCHANGED storeVars
    <3>1. Temporary(w, "acknowledging") /\ UNCHANGED file /\ file = "current"
      BY <1>1, <2>1, <2>3 DEF Temporary, storeVars, Materialized
    <3> QED
      BY <1>1, <1>2, <1>3, <2>3, <3>1, StoreMove DEF States
  <2>4. CASE Goto(w, "writing") /\ OpenTemporary
    <3>1. Temporary(w, "writing") /\ UNCHANGED file
      BY <1>1, <2>1, <2>4 DEF Temporary, OpenTemporary
    <3> QED
      BY <1>1, <1>2, <1>3, <2>4, <3>1, StoreMove DEF States
  <2> QED
    BY <1>5, <2>2, <2>3, <2>4 DEF ReadFile
<1>6. CASE WriteFile(w)
  <2>1. /\ pc[w] = "writing" /\ Goto(w, "acknowledging")
        /\ file' = "current" /\ temps' = temps - 1
    BY <1>6 DEF WriteFile, ReplaceTarget
  <2>2. Temporary(w, "acknowledging")
    BY <1>1, <2>1 DEF Temporary
  <2> QED
    BY <1>1, <1>2, <1>3, <2>1, <2>2, StoreMove DEF States
<1> QED
  BY <1>4, <1>5, <1>6

\* A failed write unlinks the temporary file, a kill leaves it.
LEMMA StopStep == ASSUME IInv, NEW w \in Workers, FailWrite(w) \/ Kill(w) PROVE IInv'
<1>1. /\ UNCHANGED <<checkpoints, rejected, faultVars, stage, attempt, runs, setting>>
      /\ UNCHANGED <<artifact, commits, file, damages>>
  BY DEF FailWrite, Kill, storeVars, DropTemporary
<1>2. /\ artifact' \in BOOLEAN /\ file' \in {"absent", "torn", "current"}
      /\ commits' = IF artifact' THEN 1 ELSE 0
      /\ crashes \in 0..Operated.crashes /\ errors \in 0..Operated.errors
  BY <1>1, Parts DEF StoreInv, StoreTypeOK, LocalTypes
<1>3. CASE FailWrite(w)
  <2>1. /\ pc[w] = "writing" /\ Goto(w, "error") /\ temps' = temps - 1
        /\ errors < Operated.errors /\ errors' = errors + 1 /\ UNCHANGED crashes
    BY <1>3 DEF FailWrite, DropTemporary
  <2>2. Temporary(w, "error")
    BY <2>1 DEF Temporary
  <2>3. errors' \in 0..Operated.errors /\ errors <= errors' /\ errors' > 0
    BY <1>2, <2>1, Parts
  <2> QED
    BY <1>1, <1>2, <2>1, <2>2, <2>3, StoreMove DEF States, Ended
<1>4. CASE Kill(w)
  <2>1. /\ Goto(w, "killed") /\ UNCHANGED <<temps, errors>>
        /\ crashes < Operated.crashes /\ crashes' = crashes + 1
    BY <1>4 DEF Kill, storeVars
  <2>2. Temporary(w, "killed")
    BY <2>1 DEF Temporary
  <2>3. crashes' \in 0..Operated.crashes /\ errors <= errors'
    BY <1>2, <2>1, Parts
  <2> QED
    BY <1>1, <1>2, <2>1, <2>2, <2>3, StoreMove DEF States, Ended
<1> QED
  BY <1>3, <1>4

\* The checkpoint of a tool's output, and the step to the next stage.
LEMMA SaveStep == ASSUME IInv, NEW w \in Workers, Save(w) PROVE IInv'
<1> DEFINE t == stage[w]
<1>1. /\ pc[w] = "saving"
      /\ UNCHANGED <<storeVars, rejected, faultVars, attempt, runs, bounds>>
      /\ UNCHANGED <<artifact, commits, file, temps, damages, setting, crashes, errors>>
      /\ records' = (records \/ t = "retrieve_records")
      /\ content' = (content \/ t = "build_artifact")
      /\ complete' = (complete \/ t = "export_artifact")
  BY DEF Save, storeVars, bounds
<1>2. /\ artifact' \in BOOLEAN /\ file' \in {"absent", "torn", "current"}
      /\ commits' = IF artifact' THEN 1 ELSE 0
      /\ crashes' \in 0..Operated.crashes /\ errors' \in 0..Operated.errors
      /\ attempt' \in [Workers -> 0..MaxAttempts] /\ runs' \in [Workers -> 0..Operated.runs]
      /\ pc \in [Workers -> States] /\ stage \in [Workers -> Tools] /\ t \in Tools
      /\ UNCHANGED <<setting, binding, damages>>
  BY <1>1, Parts DEF StoreInv, StoreTypeOK, LocalTypes, faultVars
<1>9. (Faults!TypeOK)' /\ Staged(w) /\ errors <= errors' /\ damages <= damages'
  BY <1>1, Parts, JournalFrame DEF IInv, StoreTypeOK
<1>3. {records', content', complete', rejected'} \subseteq BOOLEAN
  <2>1. records' \in BOOLEAN /\ content' \in BOOLEAN /\ complete' \in BOOLEAN
    BY <1>1
  <2>2. rejected' \in BOOLEAN
    BY <1>1, Parts DEF LocalTypes
  <2> QED
    BY <2>1, <2>2
<1>4. (records => records') /\ (content => content')
  BY <1>1
<1>5. (t = "retrieve_records" => records') /\ (t = "build_artifact" => content')
  BY <1>1
<1>6. Progress
  BY <1>1, <1>9, <1>4 DEF Progress
<1>7. CASE t = "export_artifact"
  <2>1. Goto(w, "complete") /\ UNCHANGED stage
    BY <1>7 DEF Save
  <2>2. Staged(w)' /\ Temporary(w, "complete")
    <3>1. pc'[w] = "complete"
      BY <1>2, <2>1 DEF Goto
    <3> QED
      BY <1>1, <1>9, <1>4, <2>1, <3>1 DEF Staged, Temporary
  <2> QED
    <3>1. "complete" \in States /\ stage' \in [Workers -> Tools]
          /\ \A v \in Workers \ {w} : stage'[v] = stage[v]
      BY <1>2, <2>1 DEF States, Ended
    <3> HIDE DEF t
    <3> QED
      BY <1>2, <1>9, <1>3, <1>6, <2>1, <2>2, <3>1, Moved
<1>8. CASE t # "export_artifact"
  <2>1. Goto(w, "entering") /\ stage' = [stage EXCEPT ![w] = Following[t]]
    BY <1>8 DEF Save
  <2>2. \/ t = "retrieve_records" /\ Following[t] = "build_artifact"
        \/ t = "build_artifact" /\ Following[t] = "commit_artifact"
        \/ t = "commit_artifact" /\ Following[t] = "export_artifact"
    <3>1. t \in {"retrieve_records", "build_artifact", "commit_artifact"}
      BY <1>2, <1>8 DEF Tools
    <3> HIDE DEF t
    <3> QED
      BY <3>1 DEF Following
  <2>3. /\ stage' \in [Workers -> Tools] /\ stage'[w] = Following[t]
        /\ \A v \in Workers \ {w} : stage'[v] = stage[v]
    BY <1>2, <2>1, <2>2 DEF Tools
  <2>4. Staged(w)' /\ Temporary(w, "entering")
    <3>1. pc'[w] = "entering"
      BY <1>2, <2>1 DEF Goto
    <3> QED
      BY <1>1, <1>9, <1>4, <1>5, <2>2, <2>3, <3>1 DEF Staged, Temporary
  <2> QED
    <3>1. "entering" \in States
      BY DEF States
    <3> HIDE DEF t
    <3> QED
      BY <1>2, <1>9, <1>3, <1>6, <2>1, <2>3, <2>4, <3>1, Moved
<1> QED
  BY <1>7, <1>8

\* Somebody removes or truncates the exported file.
LEMMA DamageStep == ASSUME IInv, Damage PROVE IInv'
<1>1. /\ damages < Operated.damages /\ damages' = damages + 1
      /\ file' \in {"absent", "torn"}
      /\ UNCHANGED <<artifact, commits, temps, setting, crashes, errors, records, content>>
      /\ UNCHANGED <<complete, rejected, pc, stage, attempt, runs, binding>>
      /\ UNCHANGED faultVars
  BY DEF Damage, DamageFile, bounds, checkpoints, faultVars
<1>2. StoreTypeOK /\ LocalTypes /\ StoreInv /\ Faults!TypeOK
      /\ Operated.damages \in Nat /\ Operated' = Operated
  BY <1>1, Parts, SettingFacts DEF LocalTypes, Operated
<1>3. StoreTypeOK'
  BY <1>1, <1>2 DEF StoreTypeOK
<1>4. damages' <= Operated.damages /\ damages' > 0
  BY <1>1, <1>2 DEF StoreTypeOK
<1>5. LocalTypes'
  BY <1>1, <1>2, <1>4 DEF LocalTypes
<1>6. StoreInv'
  BY <1>1, <1>2 DEF StoreInv, writing
<1>7. Progress
  BY <1>1, <1>2, <1>4, Parts DEF Progress, StoreTypeOK
<1>8. \A v \in Workers : Staged(v)'
  BY <1>1, <1>2, <1>3, <1>7, Parts, OthersStaged DEF IInv
<1>9. (Faults!TypeOK)'
  BY <1>1, <1>2, JournalFrame
<1> QED
  BY <1>3, <1>5, <1>6, <1>8, <1>9, TypePartsNext DEF IInv

\* Nothing moves.
LEMMA StutterStep == IInv /\ UNCHANGED vars => IInv'
<1> SUFFICES ASSUME IInv, UNCHANGED vars PROVE IInv'
  OBVIOUS
<1>1. StoreTypeOK' /\ (Faults!TypeOK)' /\ LocalTypes'
  BY Parts DEF vars, StoreTypeOK, Faults!TypeOK, LocalTypes, Operated
<1>2. StoreInv' /\ \A w \in Workers : Staged(w)'
  BY Parts DEF vars, StoreInv, Staged, writing, Operated, IInv
<1> QED
  BY <1>1, <1>2, TypePartsNext DEF IInv

\* Every step keeps the invariant.
LEMMA StepIInv == IInv /\ [Next]_vars => IInv'
<1> SUFFICES ASSUME IInv, [Next]_vars PROVE IInv'
  OBVIOUS
<1>1. CASE UNCHANGED vars
  BY <1>1, StutterStep
<1>2. CASE Damage
  BY <1>2, DamageStep
<1>3. ASSUME NEW w \in Workers, Step(w) \/ FailWrite(w) \/ Rerun(w) \/ Kill(w) PROVE IInv'
  BY <1>3, StartStep, EnterStep, BeforeStep, CommitStep, ExportStep, AfterStep, ResetStep,
     SaveStep, StopStep DEF Step
<1> QED
  BY <1>1, <1>2, <1>3 DEF Next

\* The invariant holds in a fresh directory.
LEMMA InitIInv == Init => IInv
<1> SUFFICES ASSUME Init PROVE IInv
  OBVIOUS
<1>1. /\ setting \in DOMAIN Settings /\ binding \in Operated.schedules
      /\ Operated.runs \in Nat /\ Operated.crashes \in Nat /\ Operated.damages \in Nat
      /\ Operated.errors \in Nat /\ binding \in Schedules
      /\ MaxAttempts \in Nat \ {0}
  BY SettingFacts, WorkflowAssumption DEF Init
<1>2. StoreTypeOK
  BY DEF Init, StoreInit, StoreTypeOK
<1>3. Faults!TypeOK
  <2>1. calls \in [Faults!Rules -> Nat]
    BY DEF Init
  <2>2. journal \in Seq([rule : Faults!Rules, occurrence : Nat])
    BY DEF Init
  <2> QED
    BY <1>1, <2>1, <2>2 DEF Faults!TypeOK
<1>4. LocalTypes
  <2>1. {records, content, complete, rejected} \subseteq BOOLEAN
    BY DEF Init
  <2>2. /\ pc \in [Workers -> States] /\ stage \in [Workers -> Tools]
        /\ attempt \in [Workers -> 0..MaxAttempts] /\ runs \in [Workers -> 0..Operated.runs]
    BY <1>1 DEF Init, States, Tools
  <2>3. /\ crashes \in 0..Operated.crashes /\ errors \in 0..Operated.errors
        /\ damages <= Operated.damages
    BY <1>1 DEF Init, StoreInit
  <2> QED
    BY <1>1, <2>1, <2>2, <2>3 DEF LocalTypes
<1>5. StoreInv
  <2>1. writing = {}
    BY DEF Init, writing
  <2>2. Cardinality(writing) = 0
    BY <2>1, FS_EmptySet
  <2> HIDE DEF writing
  <2> QED
    BY <1>1, <2>2 DEF Init, StoreInit, StoreInv
<1>6. \A w \in Workers : Staged(w)
  BY DEF Init, Staged
<1> QED
  BY <1>2, <1>3, <1>4, <1>5, <1>6, TypeParts DEF IInv

\* The inductive invariant holds throughout.
THEOREM Invariance == Spec => []IInv
BY InitIInv, StepIInv, PTL DEF Spec

-----------------------------------------------------------------------------
(* What follows                                                              *)

\* Whatever the workers, the schedule, the kills and the damage: a temporary
\* file is left behind only by a kill, a worker acts only on what is durable,
\* and an exception has a cause outside the workflow (run_workflow, export).
THEOREM WorkflowKept == Spec => []WorkflowInv
<1>1. IInv => WorkflowInv
  <2> SUFFICES ASSUME IInv PROVE WorkflowInv
    OBVIOUS
  <2>1. TypeOK
    BY DEF IInv
  <2>2. TempsAccounted
    BY DEF IInv, StoreInv, TempsAccounted, writing
  <2>3. StagesBacked
    BY DEF IInv, Staged, StagesBacked
  <2>4. ErrorsExplained
    BY DEF IInv, Staged, ErrorsExplained
  <2> QED
    BY <2>1, <2>2, <2>3, <2>4 DEF WorkflowInv
<1> QED
  BY <1>1, Invariance, PTL

\* What a step does to the promise: a commit, a publication, a completion after
\* publication, damage, or nothing.
LEMMA PromiseStep == IInv /\ [Next]_vars => [Promise!Next]_(Promise!promiseVars)
<1> SUFFICES ASSUME IInv, [Next]_vars PROVE [Promise!Next]_(Promise!promiseVars)
  OBVIOUS
<1> DEFINE Same == UNCHANGED <<commits, file, damages, complete>>
<1>1. /\ commits = IF artifact THEN 1 ELSE 0
      /\ artifact \in BOOLEAN /\ damages \in Nat
  BY Parts DEF StoreInv, StoreTypeOK
<1>2. CASE Same
  <2>1. (damages' > 0) = (damages > 0)
    BY <1>2
  <2> QED
    BY <1>2, <2>1 DEF Promise!promiseVars
<1>3. CASE UNCHANGED vars
  BY <1>2, <1>3 DEF vars
<1>4. CASE Damage
  <2>1. /\ file' \in {"absent", "torn"} /\ damages' = damages + 1
        /\ commits' = commits /\ complete' = complete
    BY <1>4 DEF Damage, DamageFile, checkpoints
  <2>2. damages' > 0
    BY <1>1, <2>1
  <2> QED
    BY <2>1, <2>2 DEF Promise!Damage, Promise!Next
<1>5. ASSUME NEW w \in Workers, Step(w) \/ FailWrite(w) \/ Rerun(w) \/ Kill(w)
      PROVE  [Promise!Next]_(Promise!promiseVars)
  <2>1. Staged(w)
    BY DEF IInv
  <2>2. CASE Commit(w)
    <3>1. /\ artifact' = TRUE /\ commits' = IF artifact THEN commits ELSE commits + 1
          /\ UNCHANGED <<file, damages, complete>>
      BY <2>2 DEF Commit, CommitArtifact, checkpoints
    <3>2. CASE artifact
      BY <1>2, <3>1, <3>2
    <3>3. CASE ~artifact
      <4>1. commits = 0 /\ commits' = 1
        BY <1>1, <3>1, <3>3
      <4>2. (damages' > 0) = (damages > 0)
        BY <3>1
      <4> QED
        BY <3>1, <4>1, <4>2 DEF Promise!Commit, Promise!Next
    <3> QED
      BY <3>2, <3>3
  <2>3. CASE WriteFile(w)
    <3>1. /\ file' = "current" /\ pc[w] = "writing" /\ UNCHANGED <<commits, damages, complete>>
      BY <2>3 DEF WriteFile, ReplaceTarget, checkpoints
    <3>2. commits = 1
      BY <1>1, <2>1, <3>1 DEF Staged
    <3> QED
      BY <3>1, <3>2 DEF Promise!Publish, Promise!Next
  <2>4. CASE Save(w)
    <3>1. /\ complete' = (complete \/ stage[w] = "export_artifact") /\ pc[w] = "saving"
          /\ UNCHANGED <<commits, file, damages>>
      BY <2>4 DEF Save, storeVars
    <3>2. CASE stage[w] = "export_artifact"
      <4>1. commits = 1 /\ (file = "current" \/ damages > 0)
        BY <1>1, <2>1, <3>1, <3>2 DEF Staged
      <4>2. complete' = TRUE
        BY <3>1, <3>2
      <4> QED
        BY <3>1, <4>1, <4>2 DEF Promise!Complete, Promise!Next
    <3>3. CASE stage[w] # "export_artifact"
      <4>1. complete \in BOOLEAN
        BY Parts DEF LocalTypes
      <4>2. complete' = complete
        BY <3>1, <3>3, <4>1
      <4> QED
        BY <1>2, <3>1, <4>2
    <3> QED
      BY <3>2, <3>3
  <2>5. CASE \/ Start(w) \/ Enter(w) \/ Before(w) \/ After(w) \/ Retry(w) \/ Reject(w)
             \/ Rerun(w) \/ Kill(w)
    <3>1. Same
      BY <2>5 DEF Start, Enter, Before, After, Retry, Reject, Rerun, Kill, storeVars, checkpoints
    <3> QED
      BY <1>2, <3>1
  <2>6. CASE CheckFile(w) \/ ReadFile(w) \/ FailWrite(w)
    <3>1. Same
      BY <2>6 DEF CheckFile, ReadFile, FailWrite, OpenTemporary, DropTemporary, storeVars,
         checkpoints
    <3> QED
      BY <1>2, <3>1
  <2> QED
    BY <1>5, <2>2, <2>3, <2>4, <2>5, <2>6 DEF Step
<1> QED
  BY <1>3, <1>4, <1>5 DEF Next

\* The workflow implements the artifact promise: one commit, a file that only
\* ever shows committed bytes, completion only after publication.
THEOREM Refinement == Spec => PromiseSpec
<1>1. Init => Promise!Init
  BY DEF Init, StoreInit, Promise!Init
<1> QED
  BY <1>1, PromiseStep, Invariance, PTL DEF Spec, PromiseSpec, Promise!Spec

-----------------------------------------------------------------------------
(* The verdict of the oracle. It reads the end of a task; the invariant         *)
(* accounts for the schedule on the way. Delivered reads injections off the     *)
(* call counters, so that no step has to count the journal.                     *)

\* How many of its injections rule i has delivered.
Delivered(i) ==
    LET n == calls[i] + 1 - binding[i].occurrence
    IN  IF n <= 0 THEN 0 ELSE IF n <= binding[i].repeat THEN n ELSE binding[i].repeat

\* How many tool t was dealt at one boundary with one of the outcomes; Hits is
\* their number in the end.
Suffered(t, phase, outcomes) ==
    LET hit == {i \in Faults!Matching(binding, t, phase) :
                    Outcome(binding[i].kind) \in outcomes}
    IN  IF hit = {} THEN 0 ELSE Delivered(CHOOSE i \in hit : TRUE)

\* The same at both boundaries.
Cost(t, outcomes) == Suffered(t, "before", outcomes) + Suffered(t, "after", outcomes)

\* Faults that cost tool t an attempt.
Retried(t) == Cost(t, {"retryable", "malformed"})

\* Faults that cost a run.
Broken ==
    Cost("retrieve_records", {"interrupted"}) + Cost("build_artifact", {"interrupted"})
    + Cost("commit_artifact", {"interrupted"}) + Cost("export_artifact", {"interrupted"})

\* How a worker ended leaves its trace; an empty schedule stops nobody.
EndInv(w) ==
    /\ pc[w] # "idle" => w \in Operated.workers /\ runs[w] > 0
    /\ pc[w] = "killed" => crashes > 0
    /\ pc[w] = "failed" => rejected
    /\ pc[w] = "complete" => complete /\ records /\ (file = "current" \/ damages > 0)
    /\ binding = <<>> => pc[w] \notin {"retrying", "rejecting", "failed", "interrupted"}

\* Nothing is published, completed or struck late before the commit.
CommittedInv ==
    /\ complete => artifact
    /\ file # "absent" => artifact
    /\ LateFaults(binding, journal) # {} => artifact

\* Within the budgets, attempts and runs beyond the first are owed to faults
\* that cost one.
BudgetInv(w) ==
    (Supervised(Operated) /\ Tolerable /\ Undisturbed) =>
        /\ pc[w] \notin {"rejecting", "failed"}
        /\ runs[w] <= Broken + IF pc[w] \in {"idle", "interrupted"} THEN 0 ELSE 1
        /\ pc[w] \in {"boundary", "acting", "comparing", "writing", "acknowledging"} =>
              attempt[w] <= Retried(stage[w]) + 1
        /\ pc[w] = "retrying" => attempt[w] <= Retried(stage[w])

\* From the commit to the completion without a fault.
OnPath(w) ==
    \/ stage[w] = "commit_artifact" /\ pc[w] \in {"acknowledging", "saving"}
    \/ /\ stage[w] = "export_artifact"
       /\ pc[w] \in {"entering", "boundary", "acting", "comparing", "writing",
                     "acknowledging", "saving", "complete"}

\* A committed artifact that no fault struck late is on its way to completion.
PathInv ==
    (Supervised(Operated) /\ Undisturbed /\ artifact) =>
        LateFaults(binding, journal) # {} \/ \E w \in Operated.workers : OnPath(w)

\* What the verdicts rest on, with Bound and IInv.
VerdictInv == CommittedInv /\ PathInv /\ \A w \in Workers : EndInv(w) /\ BudgetInv(w)

\* A bound schedule with one rule per boundary, and its call counters.
Bound ==
    /\ calls \in [Faults!Rules -> Nat]
    /\ IsSchedule(binding, MaxRules)
    /\ DistinctTargets(binding)

\* A schedule with distinct targets has at most one rule per boundary.
LEMMA OneRule ==
    ASSUME Bound, NEW t, NEW phase \in Phases
    PROVE  \/ Faults!Matching(binding, t, phase) = {}
           \/ \E i \in DOMAIN binding : Faults!Matching(binding, t, phase) = {i}
  BY DEF Faults!Matching, DistinctTargets, Bound

\* A bound rule is valid, and its call counter is a number.
LEMMA RuleTypes ==
    ASSUME Bound, NEW i \in DOMAIN binding
    PROVE  /\ i \in Faults!Rules /\ calls[i] \in Nat /\ ValidRule(binding[i])
           /\ binding[i].occurrence \in Nat /\ binding[i].repeat \in Nat
           /\ binding[i].kind \in Allowed[binding[i].phase] /\ binding[i].phase \in Phases
  <1>1. calls \in [Faults!Rules -> Nat]
    BY DEF Bound
  <1>2. IsSchedule(binding, MaxRules) /\ MaxRules \in Nat
    BY WorkflowAssumption DEF Bound
  <1>3. PICK n \in 0..MaxRules : DOMAIN binding = 1..n /\ \A j \in 1..n : ValidRule(binding[j])
    BY <1>2 DEF IsSchedule
  <1>4. i \in Faults!Rules
    BY <1>2, <1>3 DEF Faults!Rules
  <1>5. ValidRule(binding[i]) /\ calls[i] \in Nat
    BY <1>1, <1>3, <1>4
  <1> QED
    BY <1>4, <1>5 DEF ValidRule, MaxField

\* A claim delivers one more injection of the claimed rule, or none.
LEMMA ClaimCounts ==
    ASSUME Bound, NEW i \in DOMAIN binding, Faults!Claim(i)
    PROVE  /\ \A j \in DOMAIN binding :
                Delivered(j)' = Delivered(j) + IF j = i /\ Faults!Fires(binding[i], calls[i] + 1)
                                                 THEN 1 ELSE 0
           /\ \A j \in DOMAIN binding : Delivered(j) \in 0..binding[j].repeat
           /\ binding' = binding
  <1>1. /\ binding' = binding /\ calls \in [Faults!Rules -> Nat]
        /\ calls' = [calls EXCEPT ![i] = calls[i] + 1]
    BY DEF Faults!Claim, Bound
  <1>2. ASSUME NEW j \in DOMAIN binding
        PROVE  /\ Delivered(j)' = Delivered(j) + IF j = i /\ Faults!Fires(binding[i], calls[i] + 1)
                                                 THEN 1 ELSE 0
               /\ Delivered(j) \in 0..binding[j].repeat
    BY <1>1, RuleTypes DEF Delivered, Faults!Fires
  <1> QED
    BY <1>1, <1>2

\* With one matching rule, what was suffered is what that rule has delivered.
LEMMA SufferedIs ==
    ASSUME NEW t, NEW phase, NEW outcomes, NEW i \in DOMAIN binding,
           Faults!Matching(binding, t, phase) = {i}
    PROVE  /\ Suffered(t, phase, outcomes) =
                IF Outcome(binding[i].kind) \in outcomes THEN Delivered(i) ELSE 0
           /\ Faults!Hits(t, phase, outcomes) =
                IF Outcome(binding[i].kind) \in outcomes THEN binding[i].repeat ELSE 0
           /\ binding' = binding =>
                Suffered(t, phase, outcomes)' =
                  IF Outcome(binding[i].kind) \in outcomes THEN Delivered(i)' ELSE 0
  <1> DEFINE hit == {j \in Faults!Matching(binding, t, phase) :
                        Outcome(binding[j].kind) \in outcomes}
  <1> DEFINE c == CHOOSE j \in hit : TRUE
  <1>1. hit = IF Outcome(binding[i].kind) \in outcomes THEN {i} ELSE {}
    OBVIOUS
  <1>2. hit # {} => c = i /\ (binding' = binding => c' = i)
    BY <1>1 DEF Faults!Matching
  <1>3. Suffered(t, phase, outcomes) = IF hit = {} THEN 0 ELSE Delivered(c)
    BY DEF Suffered
  <1>4. Faults!Hits(t, phase, outcomes) = IF hit = {} THEN 0 ELSE binding[c].repeat
    BY DEF Faults!Hits, Outcome, Faults!Outcome
  <1>5. binding' = binding =>
          Suffered(t, phase, outcomes)' = IF hit = {} THEN 0 ELSE Delivered(c)'
    BY DEF Suffered, Faults!Matching
  <1>6. hit = {} <=> Outcome(binding[i].kind) \notin outcomes
    BY <1>1
  <1> HIDE DEF hit, c
  <1>7. CASE hit = {}
    BY <1>3, <1>4, <1>5, <1>6, <1>7
  <1>8. CASE hit # {}
    <2>1. c = i /\ (binding' = binding => c' = i)
      BY <1>2, <1>8
    <2>2. Delivered(c) = Delivered(i) /\ (binding' = binding => Delivered(c)' = Delivered(i)')
      BY <2>1 DEF Delivered
    <2> QED
      BY <1>3, <1>4, <1>5, <1>6, <1>8, <2>1, <2>2
  <1> QED
    BY <1>7, <1>8

\* Without a matching rule nothing is suffered.
LEMMA SufferedNone ==
    ASSUME NEW t, NEW phase, NEW outcomes, Faults!Matching(binding, t, phase) = {}
    PROVE  /\ Suffered(t, phase, outcomes) = 0 /\ Faults!Hits(t, phase, outcomes) = 0
           /\ binding' = binding => Suffered(t, phase, outcomes)' = 0
  BY DEF Suffered, Faults!Hits, Faults!Matching

\* No more is suffered than the schedule holds in the end (Hits).
LEMMA SufferedTypes ==
    ASSUME Bound,
           NEW t, NEW phase \in Phases, NEW outcomes
    PROVE  Suffered(t, phase, outcomes) \in Nat /\ Faults!Hits(t, phase, outcomes) \in Nat
           /\ Suffered(t, phase, outcomes) <= Faults!Hits(t, phase, outcomes)
  <1>1. CASE Faults!Matching(binding, t, phase) = {}
    BY <1>1, SufferedNone
  <1>2. ASSUME NEW i \in DOMAIN binding, Faults!Matching(binding, t, phase) = {i}
        PROVE  Suffered(t, phase, outcomes) \in Nat /\ Faults!Hits(t, phase, outcomes) \in Nat
           /\ Suffered(t, phase, outcomes) <= Faults!Hits(t, phase, outcomes)
    <2>1. calls[i] \in Nat /\ binding[i].occurrence \in Nat /\ binding[i].repeat \in Nat
      BY RuleTypes
    <2>2. Delivered(i) \in Nat /\ Delivered(i) <= binding[i].repeat
      BY <2>1 DEF Delivered
    <2> QED
      BY <1>2, <2>1, <2>2, SufferedIs
  <1> QED
    BY <1>1, <1>2, OneRule

\* A call at a boundary adds its outcome to what was suffered there, once.
LEMMA SufferedStep ==
    ASSUME Bound, NEW tool, NEW phase \in Phases, NEW outcome, Faults!Apply(tool, phase, outcome),
           NEW t, NEW p \in Phases, NEW outcomes, "none" \notin outcomes
    PROVE  Suffered(t, p, outcomes)' = Suffered(t, p, outcomes)
             + IF t = tool /\ p = phase /\ outcome \in outcomes THEN 1 ELSE 0
  <1>1. CASE Faults!Matching(binding, tool, phase) = {}
    <2>1. outcome = "none" /\ UNCHANGED <<binding, calls>>
      BY <1>1 DEF Faults!Apply, Faults!journalVars
    <2>2. Suffered(t, p, outcomes)' = Suffered(t, p, outcomes)
      BY <2>1 DEF Suffered, Delivered, Faults!Matching
    <2> QED
      BY <2>1, <2>2, SufferedTypes
  <1>2. ASSUME NEW k \in DOMAIN binding, Faults!Matching(binding, tool, phase) = {k}
        PROVE  Suffered(t, p, outcomes)' = Suffered(t, p, outcomes)
                 + IF t = tool /\ p = phase /\ outcome \in outcomes THEN 1 ELSE 0
    <2>1. /\ Faults!Claim(k)
          /\ outcome = IF Faults!Fires(binding[k], calls[k] + 1)
                         THEN Outcome(binding[k].kind) ELSE "none"
      BY <1>2 DEF Faults!Apply, Outcome, Faults!Outcome
    <2>2. binding' = binding
      BY <2>1, ClaimCounts
    <2>3. CASE Faults!Matching(binding, t, p) = {}
      BY <1>2, <2>2, <2>3, SufferedNone
    <2>4. ASSUME NEW i \in DOMAIN binding, Faults!Matching(binding, t, p) = {i}
          PROVE  Suffered(t, p, outcomes)' = Suffered(t, p, outcomes)
                   + IF t = tool /\ p = phase /\ outcome \in outcomes THEN 1 ELSE 0
      <3>1. i = k <=> t = tool /\ p = phase
        BY <1>2, <2>4 DEF Faults!Matching
      <3>2. Delivered(i)' = Delivered(i) + IF i = k /\ Faults!Fires(binding[k], calls[k] + 1)
                                             THEN 1 ELSE 0
        BY <2>1, ClaimCounts
      <3>3. Delivered(i) \in Nat
        BY <2>1, ClaimCounts, RuleTypes
      <3>4. /\ Suffered(t, p, outcomes) =
                 IF Outcome(binding[i].kind) \in outcomes THEN Delivered(i) ELSE 0
            /\ Suffered(t, p, outcomes)' =
                 IF Outcome(binding[i].kind) \in outcomes THEN Delivered(i)' ELSE 0
        BY <2>2, <2>4, SufferedIs
      <3> QED
        BY <2>1, <3>1, <3>2, <3>3, <3>4
    <2> QED
      BY <2>3, <2>4, OneRule
  <1> QED
    BY <1>1, <1>2, OneRule

\* What was suffered at a tool is bounded by the hits of the schedule.
LEMMA CostTypes ==
    ASSUME Bound, NEW t, NEW outcomes
    PROVE  Cost(t, outcomes) \in Nat /\ Hits(t, outcomes) \in Nat
           /\ Cost(t, outcomes) <= Hits(t, outcomes)
  <1>1. "before" \in Phases /\ "after" \in Phases
    BY DEF Phases
  <1> QED
    BY <1>1, SufferedTypes DEF Cost, Hits

\* A call at a boundary costs what its outcome says.
LEMMA CostStep ==
    ASSUME Bound, NEW tool, NEW phase \in Phases, NEW outcome, Faults!Apply(tool, phase, outcome),
           NEW t, NEW outcomes, "none" \notin outcomes
    PROVE  Cost(t, outcomes)' =
             Cost(t, outcomes) + IF t = tool /\ outcome \in outcomes THEN 1 ELSE 0
  <1>1. /\ "before" \in Phases /\ "after" \in Phases /\ "before" # "after"
        /\ phase \in {"before", "after"}
    BY DEF Phases
  <1>2. /\ Suffered(t, "before", outcomes) \in Nat /\ Suffered(t, "after", outcomes) \in Nat
        /\ Suffered(t, "before", outcomes)' = Suffered(t, "before", outcomes)
             + IF t = tool /\ "before" = phase /\ outcome \in outcomes THEN 1 ELSE 0
        /\ Suffered(t, "after", outcomes)' = Suffered(t, "after", outcomes)
             + IF t = tool /\ "after" = phase /\ outcome \in outcomes THEN 1 ELSE 0
    BY <1>1, SufferedTypes, SufferedStep
  <1> QED
    BY <1>1, <1>2 DEF Cost

\* Steps without a call cost nothing.
LEMMA CostKept ==
    ASSUME UNCHANGED <<binding, calls>>
    PROVE  /\ \A t, outcomes : Cost(t, outcomes)' = Cost(t, outcomes)
           /\ Broken' = Broken
  <1>1. \A t, outcomes : Cost(t, outcomes)' = Cost(t, outcomes)
    BY DEF Cost, Suffered, Delivered, Faults!Matching
  <1> QED
    BY <1>1 DEF Broken

\* What a call at a boundary costs in attempts and runs.
LEMMA Costs ==
    ASSUME Bound, NEW tool \in Tools, NEW phase \in Phases, NEW outcome,
           Faults!Apply(tool, phase, outcome)
    PROVE  /\ \A t \in Tools : /\ Retried(t) \in Nat
                               /\ Retried(t)' = Retried(t) +
                                    IF t = tool /\ outcome \in {"retryable", "malformed"}
                                      THEN 1 ELSE 0
           /\ Broken \in Nat
           /\ Broken' = Broken + IF outcome = "interrupted" THEN 1 ELSE 0
  <1>1. \A t \in Tools : /\ Retried(t) \in Nat
                         /\ Retried(t)' = Retried(t) +
                              IF t = tool /\ outcome \in {"retryable", "malformed"}
                                THEN 1 ELSE 0
    BY CostTypes, CostStep DEF Retried
  <1>2. \A t : /\ Cost(t, {"interrupted"}) \in Nat
               /\ Cost(t, {"interrupted"})' = Cost(t, {"interrupted"}) +
                    IF t = tool /\ outcome = "interrupted" THEN 1 ELSE 0
    BY CostTypes, CostStep
  <1> QED
    BY <1>1, <1>2 DEF Broken, Tools

\* Within a tolerable schedule neither attempts nor runs are used up, and
\* nothing permanent is ever injected.
LEMMA WithinBudgets ==
    ASSUME Bound, Tolerable, Operated.runs \in Nat
    PROVE  /\ \A t \in Tools : Retried(t) \in Nat /\ Retried(t) < MaxAttempts
           /\ Broken \in Nat
           /\ Broken < IF "interrupted" \in Operated.rerun THEN Operated.runs ELSE 1
           /\ \A t \in Tools, p \in Phases : ~Faults!Apply(t, p, "permanent")
  <1>1. \A t \in Tools : /\ Hits(t, {"permanent"}) = 0
                         /\ Hits(t, {"retryable", "malformed"}) < MaxAttempts
    BY DEF Tolerable
  <1>2. \A t \in Tools : Retried(t) \in Nat /\ Retried(t) < MaxAttempts
    BY <1>1, CostTypes, WorkflowAssumption DEF Retried
  <1>3. Broken \in Nat /\ Broken < IF "interrupted" \in Operated.rerun THEN Operated.runs ELSE 1
    <2>1. \A t \in Tools : /\ Cost(t, {"interrupted"}) \in Nat /\ Hits(t, {"interrupted"}) \in Nat
                           /\ Cost(t, {"interrupted"}) <= Hits(t, {"interrupted"})
      BY CostTypes
    <2> QED
      BY <2>1 DEF Broken, Tolerable, Interruptions, Tools
  <1>4. ASSUME NEW t \in Tools, NEW p \in Phases, Faults!Apply(t, p, "permanent")
        PROVE  FALSE
    <2>1. PICK k \in Faults!Matching(binding, t, p) :
            /\ Faults!Claim(k)
            /\ "permanent" = IF Faults!Fires(binding[k], calls[k] + 1)
                               THEN Outcome(binding[k].kind) ELSE "none"
      BY <1>4 DEF Faults!Apply, Outcome, Faults!Outcome
    <2>2. k \in DOMAIN binding /\ Outcome(binding[k].kind) = "permanent"
      BY <2>1 DEF Faults!Matching
    <2>3. binding[k].repeat \in Nat /\ binding[k].repeat > 0
      BY <2>2, RuleTypes DEF ValidRule, MaxField
    <2>4. Faults!Matching(binding, t, p) = {k}
      BY <2>1, OneRule
    <2>5. Faults!Hits(t, p, {"permanent"}) = binding[k].repeat
      BY <2>2, <2>4, SufferedIs
    <2>6. "before" \in Phases /\ "after" \in Phases /\ p \in {"before", "after"}
      BY DEF Phases
    <2>7. /\ Faults!Hits(t, "before", {"permanent"}) \in Nat
          /\ Faults!Hits(t, "after", {"permanent"}) \in Nat
      BY <2>6, SufferedTypes
    <2> QED
      BY <1>1, <2>3, <2>5, <2>6, <2>7 DEF Hits
  <1> QED
    BY <1>2, <1>3, <1>4

\* The invariant provides what the accounts need.
LEMMA BoundIs == IInv /\ DistinctTargets(binding) => Bound
  <1> SUFFICES ASSUME IInv, DistinctTargets(binding) PROVE Bound
    OBVIOUS
  <1>1. calls \in [Faults!Rules -> Nat] /\ binding \in Schedules
    BY Parts, ScheduleFacts DEF Faults!TypeOK, LocalTypes, StoreInv
  <1> QED
    BY <1>1, WorkflowAssumption DEF Bound

\* What a call leaves in the journal: a late fault exactly if it injects one.
LEMMA Injected ==
    ASSUME IInv, Bound, NEW tool \in Tools, NEW phase \in Phases, NEW outcome,
           Faults!Apply(tool, phase, outcome)
    PROVE  /\ binding' = binding
           /\ LateFaults(binding, journal)' = {} <=>
                /\ LateFaults(binding, journal) = {}
                /\ \/ outcome = "none"
                   \/ tool # "export_artifact" /\ ~(tool = "commit_artifact" /\ phase = "after")
  <1> DEFINE late(r) == \/ r.tool = "export_artifact"
                        \/ r.tool = "commit_artifact" /\ r.phase = "after"
  <1> DEFINE S == [rule : Faults!Rules, occurrence : Nat]
  <1>1. journal \in Seq(S) /\ DOMAIN journal = 1..Len(journal) /\ Len(journal) \in Nat
    BY Parts, LenProperties DEF Faults!TypeOK
  <1>2. \A j : LateFaults(binding, j) = {k \in DOMAIN j : late(binding[j[k].rule])}
    BY DEF LateFaults
  <1>3. CASE Faults!Matching(binding, tool, phase) = {}
    <2>1. outcome = "none" /\ UNCHANGED <<binding, journal>>
      BY <1>3 DEF Faults!Apply, Faults!journalVars
    <2> QED
      BY <2>1
  <1>4. ASSUME NEW k \in Faults!Matching(binding, tool, phase), Faults!Claim(k),
               outcome = IF Faults!Fires(binding[k], calls[k] + 1)
                           THEN Faults!Outcome(binding[k].kind) ELSE "none"
        PROVE  /\ binding' = binding
               /\ LateFaults(binding, journal)' = {} <=>
                    /\ LateFaults(binding, journal) = {}
                    /\ outcome = "none" \/ ~late(binding[k])
    <2>1. k \in DOMAIN binding /\ binding' = binding
      BY <1>4 DEF Faults!Matching, Faults!Claim
    <2>2. Faults!Outcome(binding[k].kind) # "none" /\ k \in Faults!Rules
      BY <2>1, RuleTypes DEF Faults!Outcome, Allowed, Phases
    <2> DEFINE e == Faults!Record(k, calls[k] + 1)
    <2>3. e.rule = k
      BY DEF Faults!Record
    <2>4. IF outcome = "none" THEN journal' = journal ELSE journal' = Append(journal, e)
      BY <1>4, <2>2 DEF Faults!Claim
    <2> HIDE DEF e, late, S
    <2>5. CASE outcome = "none"
      BY <2>1, <2>4, <2>5
    <2>6. CASE outcome # "none"
      <3>1. journal' = Append(journal, e)
        BY <2>4, <2>6
      <3>2. /\ DOMAIN journal' = 1..Len(journal) + 1
            /\ \A n \in 1..Len(journal) : journal'[n] = journal[n]
            /\ journal'[Len(journal) + 1] = e
        BY <1>1, <3>1
      <3>3. LateFaults(binding, journal)' =
              {n \in DOMAIN journal' : late(binding[journal'[n].rule])}
        BY <1>2, <2>1 DEF LateFaults, late
      <3>4. LateFaults(binding, journal)' = {} <=>
              LateFaults(binding, journal) = {} /\ ~late(binding[k])
        <4>1. LateFaults(binding, journal)' = {} <=>
                \A n \in 1..Len(journal) + 1 : ~late(binding[journal'[n].rule])
          BY <3>2, <3>3
        <4>2. LateFaults(binding, journal) = {} <=>
                \A n \in 1..Len(journal) : ~late(binding[journal[n].rule])
          BY <1>1, <1>2
        <4>3. 1..Len(journal) + 1 = 1..Len(journal) \union {Len(journal) + 1}
          BY <1>1
        <4> QED
          BY <2>3, <3>2, <4>1, <4>2, <4>3
      <3> QED
        BY <2>1, <2>6, <3>4
    <2> QED
      BY <2>5, <2>6
  <1>5. ASSUME NEW k \in Faults!Matching(binding, tool, phase)
        PROVE  late(binding[k]) <=>
                 tool = "export_artifact" \/ (tool = "commit_artifact" /\ phase = "after")
    BY <1>5 DEF Faults!Matching
  <1> QED
    BY <1>3, <1>4, <1>5 DEF Faults!Apply

\* The types of what a step reads.
LEMMA Reads ==
    ASSUME IInv, NEW w \in Workers
    PROVE  /\ pc \in [Workers -> States] /\ stage \in [Workers -> Tools]
           /\ attempt \in [Workers -> 0..MaxAttempts] /\ runs \in [Workers -> 0..Operated.runs]
           /\ attempt[w] \in Nat /\ runs[w] \in Nat /\ stage[w] \in Tools
           /\ crashes \in Nat /\ errors \in Nat /\ damages \in Nat /\ Operated.runs \in Nat
           /\ {records, content, complete, rejected, artifact} \subseteq BOOLEAN
           /\ "before" \in Phases /\ "after" \in Phases
  <1>1. /\ pc \in [Workers -> States] /\ stage \in [Workers -> Tools]
        /\ attempt \in [Workers -> 0..MaxAttempts] /\ runs \in [Workers -> 0..Operated.runs]
        /\ {records, content, complete, rejected} \subseteq BOOLEAN
    BY Parts DEF LocalTypes
  <1>2. /\ crashes \in Nat /\ errors \in Nat /\ damages \in Nat /\ Operated.runs \in Nat
        /\ artifact \in BOOLEAN /\ MaxAttempts \in Nat
    BY Parts DEF StoreTypeOK
  <1> QED
    BY <1>1, <1>2 DEF Phases

\* What a step of w leaves alone, and what it never takes back.
LEMMA Framed ==
    ASSUME IInv, NEW w \in Workers, Step(w) \/ FailWrite(w) \/ Rerun(w) \/ Kill(w)
    PROVE  /\ UNCHANGED <<setting, damages>>
           /\ \A v \in Workers \ {w} : /\ pc'[v] = pc[v] /\ stage'[v] = stage[v]
                                       /\ attempt'[v] = attempt[v] /\ runs'[v] = runs[v]
           /\ crashes' \in {crashes, crashes + 1} /\ errors' \in {errors, errors + 1}
           /\ (records => records') /\ (complete => complete') /\ (rejected => rejected')
           /\ (artifact => artifact') /\ file' \in {file, "current"}
  <1> USE Reads
  <1>1. CASE Start(w) \/ Enter(w)
    BY <1>1 DEF Start, Enter, Goto, storeVars, checkpoints, bounds
  <1>2. CASE Before(w) \/ After(w)
    BY <1>2 DEF Before, After, Goto, storeVars, checkpoints, bounds
  <1>3. CASE Commit(w) \/ CheckFile(w) \/ ReadFile(w)
    BY <1>3 DEF Commit, CommitArtifact, CheckFile, ReadFile, OpenTemporary, Goto,
                storeVars, checkpoints, bounds
  <1>4. CASE WriteFile(w) \/ FailWrite(w)
    BY <1>4 DEF WriteFile, FailWrite, ReplaceTarget, DropTemporary, Goto,
                storeVars, checkpoints, bounds
  <1>5. CASE Retry(w) \/ Save(w) \/ Reject(w)
    BY <1>5 DEF Retry, Save, Reject, Goto, storeVars, checkpoints, bounds
  <1>6. CASE Rerun(w) \/ Kill(w)
    BY <1>6 DEF Rerun, Kill, Goto, storeVars, checkpoints, bounds
  <1> QED
    BY <1>1, <1>2, <1>3, <1>4, <1>5, <1>6 DEF Step

\* A step is a call at a boundary or none.
LEMMA Calls ==
    ASSUME NEW w \in Workers, Step(w) \/ FailWrite(w) \/ Rerun(w) \/ Kill(w)
    PROVE  \/ UNCHANGED faultVars
           \/ \E p \in {"before", "after"}, outcome \in Faults!Outcomes :
                Faults!Apply(stage[w], p, outcome)
  BY DEF Step, Start, Enter, Before, After, Commit, CheckFile, ReadFile, WriteFile, FailWrite,
         Retry, Save, Reject, Rerun, Kill

\* What a step of w does to the accounts: they are never taken back, and the
\* verdict on a schedule stays.
LEMMA Accounts ==
    ASSUME IInv, Bound, NEW w \in Workers, Step(w) \/ FailWrite(w) \/ Rerun(w) \/ Kill(w)
    PROVE  /\ binding' = binding /\ Operated' = Operated
           /\ \A t \in Tools : /\ Retried(t) \in Nat /\ Retried(t)' \in Nat
                               /\ Retried(t) <= Retried(t)'
           /\ Broken \in Nat /\ Broken' \in Nat /\ Broken <= Broken'
           /\ LateFaults(binding, journal) # {} => LateFaults(binding, journal)' # {}
           /\ (Supervised(Operated)' <=> Supervised(Operated)) /\ (Tolerable' <=> Tolerable)
           /\ Undisturbed' => Undisturbed
  <1>1. ASSUME UNCHANGED faultVars
        PROVE  /\ binding' = binding
               /\ \A t \in Tools : /\ Retried(t) \in Nat /\ Retried(t)' \in Nat
                                   /\ Retried(t) <= Retried(t)'
               /\ Broken \in Nat /\ Broken' \in Nat /\ Broken <= Broken'
               /\ LateFaults(binding, journal) # {} => LateFaults(binding, journal)' # {}
    <2>1. /\ binding' = binding /\ calls' = calls /\ journal' = journal
      BY <1>1 DEF faultVars
    <2>2. \A t \in Tools : Retried(t) \in Nat /\ Retried(t)' = Retried(t)
      BY <2>1, CostKept, CostTypes DEF Retried
    <2>3. Broken \in Nat /\ Broken' = Broken
      BY <2>1, CostKept, CostTypes DEF Broken, Tools
    <2>4. LateFaults(binding, journal)' = LateFaults(binding, journal)
      BY <2>1
    <2> QED
      BY <2>1, <2>2, <2>3, <2>4
  <1>2. ASSUME NEW p \in {"before", "after"}, NEW outcome \in Faults!Outcomes,
               Faults!Apply(stage[w], p, outcome)
        PROVE  /\ binding' = binding
               /\ \A t \in Tools : /\ Retried(t) \in Nat /\ Retried(t)' \in Nat
                                   /\ Retried(t) <= Retried(t)'
               /\ Broken \in Nat /\ Broken' \in Nat /\ Broken <= Broken'
               /\ LateFaults(binding, journal) # {} => LateFaults(binding, journal)' # {}
    <2>1. stage[w] \in Tools /\ p \in Phases
      BY Reads
    <2> QED
      BY <1>2, <2>1, Costs, Injected
  <1>3. /\ binding' = binding
        /\ \A t \in Tools : /\ Retried(t) \in Nat /\ Retried(t)' \in Nat
                            /\ Retried(t) <= Retried(t)'
        /\ Broken \in Nat /\ Broken' \in Nat /\ Broken <= Broken'
        /\ LateFaults(binding, journal) # {} => LateFaults(binding, journal)' # {}
    <2>1. \A t \in Tools : Retried(t) \in Nat => Retried(t) <= Retried(t)
      OBVIOUS
    <2> QED
      BY <1>1, <1>2, Calls
  <1>4. Operated' = Operated
    BY Framed DEF Operated
  <1>5. Undisturbed' => Undisturbed
    BY Framed, Reads DEF Undisturbed
  <1>6. Tolerable' <=> Tolerable
    BY <1>3, <1>4 DEF Tolerable, Interruptions, Hits, Faults!Hits, Faults!Matching
  <1>7. Supervised(Operated)' <=> Supervised(Operated)
    BY <1>4 DEF Supervised
  <1> QED
    BY <1>3, <1>4, <1>5, <1>6, <1>7

\* How a worker ended leaves its trace.
LEMMA EndStep ==
    ASSUME IInv, Bound, NEW w \in Workers, EndInv(w),
           Step(w) \/ FailWrite(w) \/ Rerun(w) \/ Kill(w)
    PROVE  EndInv(w)'
  <1> USE Reads
  <1>1. Staged(w)
    BY DEF IInv
  <1>2. /\ Operated' = Operated /\ binding' = binding
        /\ damages' = damages /\ crashes' \in {crashes, crashes + 1}
        /\ (records => records') /\ (complete => complete') /\ (rejected => rejected')
        /\ file' \in {file, "current"}
    BY Accounts, Framed
  <1>3. \A s : Goto(w, s) => pc'[w] = s
    BY DEF Goto
  <1>4. ASSUME binding = <<>>, NEW p, NEW outcome, Faults!Apply(stage[w], p, outcome)
        PROVE  outcome = "none"
    <2>1. Faults!Matching(binding, stage[w], p) = {}
      BY <1>4 DEF Faults!Matching
    <2> QED
      BY <1>4, <2>1 DEF Faults!Apply
  <1>5. CASE Start(w) \/ Enter(w)
    BY <1>2, <1>3, <1>5 DEF Start, Enter, EndInv
  <1>6. CASE Before(w)
    BY <1>2, <1>3, <1>4, <1>6 DEF Before, EndInv
  <1>7. CASE After(w)
    BY <1>2, <1>3, <1>4, <1>7 DEF After, EndInv
  <1>8. CASE Commit(w) \/ CheckFile(w) \/ ReadFile(w) \/ WriteFile(w) \/ FailWrite(w)
    BY <1>2, <1>3, <1>8 DEF Commit, CheckFile, ReadFile, WriteFile, FailWrite, EndInv
  <1>9. CASE Retry(w)
    BY <1>2, <1>3, <1>9 DEF Retry, EndInv
  <1>10. CASE Save(w)
    BY <1>1, <1>2, <1>3, <1>10 DEF Save, Staged, EndInv, Tools
  <1>11. CASE Reject(w) \/ Rerun(w) \/ Kill(w)
    BY <1>2, <1>3, <1>11 DEF Reject, Rerun, Kill, EndInv, Ended
  <1> QED
    BY <1>5, <1>6, <1>7, <1>8, <1>9, <1>10, <1>11 DEF Step

\* Nothing is published, completed or struck late before the commit.
LEMMA CommittedStep ==
    ASSUME IInv, Bound, NEW w \in Workers, CommittedInv,
           Step(w) \/ FailWrite(w) \/ Rerun(w) \/ Kill(w)
    PROVE  CommittedInv'
  <1> USE Reads
  <1>1. Staged(w)
    BY DEF IInv
  <1>2. artifact => artifact'
    BY Framed
  <1>3. complete' => artifact'
    <2>1. CASE Save(w)
      BY <1>1, <1>2, <2>1 DEF Save, Staged, CommittedInv
    <2>2. CASE ~Save(w)
      <3>1. complete' = complete
        BY <2>2 DEF Step, Start, Enter, Before, After, Commit, CheckFile, ReadFile, WriteFile,
                    FailWrite, Retry, Reject, Rerun, Kill, checkpoints
      <3> QED
        BY <1>2, <3>1 DEF CommittedInv
    <2> QED
      BY <2>1, <2>2
  <1>4. file' # "absent" => artifact'
    <2>1. CASE WriteFile(w)
      BY <1>1, <1>2, <2>1 DEF WriteFile, Staged
    <2>2. CASE ~WriteFile(w)
      <3>1. file' = file
        BY <2>2 DEF Step, Start, Enter, Before, After, Commit, CommitArtifact, CheckFile, ReadFile,
                    OpenTemporary, DropTemporary, FailWrite, Retry, Save, Reject, Rerun, Kill,
                    storeVars
      <3> QED
        BY <1>2, <3>1 DEF CommittedInv
    <2> QED
      BY <2>1, <2>2
  <1>5. LateFaults(binding, journal)' # {} => artifact'
    <2>1. CASE UNCHANGED faultVars
      BY <1>2, <2>1 DEF faultVars, CommittedInv
    <2>2. CASE ~UNCHANGED faultVars
      <3>1. Before(w) \/ After(w)
        BY <2>2 DEF Step, Start, Enter, Commit, CheckFile, ReadFile, WriteFile, FailWrite, Retry,
                    Save, Reject, Rerun, Kill
      <3>2. PICK p \in {"before", "after"}, outcome \in Faults!Outcomes :
              /\ Faults!Apply(stage[w], p, outcome)
              /\ p = "after" => pc[w] = "acknowledging"
        BY <3>1 DEF Before, After
      <3>3. LateFaults(binding, journal)' = {} <=>
              /\ LateFaults(binding, journal) = {}
              /\ \/ outcome = "none"
                 \/ stage[w] # "export_artifact" /\ ~(stage[w] = "commit_artifact" /\ p = "after")
        BY <3>2, Injected
      <3> QED
        BY <1>1, <1>2, <3>2, <3>3 DEF Staged, CommittedInv
    <2> QED
      BY <2>1, <2>2
  <1> QED
    BY <1>3, <1>4, <1>5 DEF CommittedInv

\* Supervised, a committed artifact means that its worker is on the way to
\* completion, or that a fault struck late.
LEMMA PathStep ==
    ASSUME IInv, Bound, NEW w \in Workers, \A v \in Workers : EndInv(v), PathInv,
           EndInv(w)', Step(w) \/ FailWrite(w) \/ Rerun(w) \/ Kill(w)
    PROVE  PathInv'
  <1> USE Reads
  <1> SUFFICES ASSUME Supervised(Operated), Undisturbed', artifact',
                      LateFaults(binding, journal)' = {}
               PROVE  w \in Operated.workers /\ OnPath(w)'
    BY Accounts DEF PathInv
  <1>1. Staged(w) /\ Undisturbed /\ LateFaults(binding, journal) = {}
    BY Accounts DEF IInv
  <1>2. \A s : Goto(w, s) => pc'[w] = s
    BY DEF Goto
  <1>3. w \in Operated.workers
    <2>1. CASE Rerun(w)
      <3>1. Operated.rerun \subseteq Ended
        BY Parts, WorkflowAssumption DEF IsSetting, Operated, LocalTypes
      <3> QED
        BY <2>1, <3>1 DEF Rerun, Ended, EndInv
    <2>2. CASE ~Rerun(w)
      BY <2>2 DEF Step, Start, Enter, Before, After, Commit, CheckFile, ReadFile, WriteFile,
                  FailWrite, Retry, Save, Reject, Kill, EndInv
    <2> QED
      BY <2>1, <2>2
  <1>4. artifact => OnPath(w)
    BY <1>1, <1>3 DEF PathInv, Supervised
  <1>5. ASSUME NEW p \in {"before", "after"}, NEW outcome, Faults!Apply(stage[w], p, outcome),
               stage[w] = "export_artifact" \/ (stage[w] = "commit_artifact" /\ p = "after")
        PROVE  outcome = "none"
    BY <1>1, <1>5, Injected
  <1>6. ~Kill(w) /\ ~FailWrite(w)
    BY <1>1 DEF Undisturbed, Kill, FailWrite
  <1>7. CASE Start(w) \/ Enter(w)
    BY <1>3, <1>2, <1>4, <1>7 DEF Start, Enter, storeVars, OnPath, Saved
  <1>8. CASE Before(w)
    BY <1>3, <1>2, <1>4, <1>5, <1>8 DEF Before, storeVars, OnPath
  <1>9. CASE After(w)
    BY <1>3, <1>2, <1>4, <1>5, <1>9 DEF After, storeVars, OnPath
  <1>10. CASE Commit(w)
    BY <1>3, <1>2, <1>10 DEF Commit, OnPath
  <1>11. CASE CheckFile(w) \/ ReadFile(w) \/ WriteFile(w)
    <2>1. /\ pc[w] \in {"acting", "comparing", "writing"} /\ stage'[w] = stage[w]
          /\ artifact' = artifact
      BY <1>11 DEF CheckFile, ReadFile, WriteFile, OpenTemporary, ReplaceTarget, storeVars
    <2>2. stage[w] = "export_artifact"
      BY <1>4, <2>1 DEF OnPath
    <2>3. pc[w] = "comparing" => file # "absent"
      BY <1>1 DEF Staged, Undisturbed
    <2>4. pc'[w] \in {"comparing", "writing", "acknowledging"}
      BY <1>2, <1>11, <2>3 DEF CheckFile, ReadFile, WriteFile, Exists
    <2> QED
      BY <1>3, <2>1, <2>2, <2>4 DEF OnPath
  <1>12. CASE Retry(w) \/ Reject(w)
    BY <1>3, <1>4, <1>12 DEF Retry, Reject, storeVars, OnPath
  <1>13. CASE Save(w)
    BY <1>3, <1>2, <1>4, <1>13 DEF Save, storeVars, OnPath, Following
  <1>14. CASE Rerun(w)
    <2>1. Operated.rerun \subseteq Ended
      BY Parts, WorkflowAssumption DEF IsSetting, Operated, LocalTypes
    <2> QED
      BY <1>3, <1>4, <1>14, <2>1 DEF Rerun, storeVars, OnPath, Supervised, Ended
  <1> QED
    BY <1>3, <1>6, <1>7, <1>8, <1>9, <1>10, <1>11, <1>12, <1>13, <1>14 DEF Step

\* Attempts and runs stay within what was suffered.
LEMMA BudgetStep ==
    ASSUME IInv, Bound, NEW w \in Workers, EndInv(w), BudgetInv(w),
           Step(w) \/ FailWrite(w) \/ Rerun(w) \/ Kill(w)
    PROVE  BudgetInv(w)'
  <1> USE Reads
  <1> SUFFICES ASSUME Supervised(Operated), Tolerable, Undisturbed'
               PROVE  BudgetInv(w)'
    BY Accounts DEF BudgetInv
  <1>1. Staged(w) /\ Undisturbed /\ Operated' = Operated
    BY Accounts DEF IInv
  <1>2. \A s : Goto(w, s) => pc'[w] = s
    BY DEF Goto
  <1>3. /\ pc[w] \notin {"rejecting", "failed"}
        /\ runs[w] <= Broken + IF pc[w] \in {"idle", "interrupted"} THEN 0 ELSE 1
        /\ pc[w] \in {"boundary", "acting", "comparing", "writing", "acknowledging"} =>
              attempt[w] <= Retried(stage[w]) + 1
        /\ pc[w] = "retrying" => attempt[w] <= Retried(stage[w])
    BY <1>1 DEF BudgetInv
  <1>4. /\ \A t \in Tools : Retried(t) \in Nat /\ Retried(t) < MaxAttempts
        /\ Broken \in Nat
        /\ \A t \in Tools, p \in Phases : ~Faults!Apply(t, p, "permanent")
    BY WithinBudgets
  <1>5. UNCHANGED faultVars =>
          Broken' = Broken /\ \A t \in Tools : Retried(t)' = Retried(t)
    BY CostKept DEF faultVars, Retried
  <1>6. ~Kill(w) /\ ~FailWrite(w)
    BY <1>1 DEF Undisturbed, Kill, FailWrite
  <1>7. CASE Start(w)
    <2>1. /\ runs'[w] = runs[w] + 1 /\ pc[w] = "idle" /\ pc'[w] = "entering" /\ Broken' = Broken
      BY <1>2, <1>5, <1>7 DEF Start
    <2> QED
      BY <1>3, <1>4, <2>1 DEF BudgetInv
  <1>8. CASE Enter(w)
    <2>1. /\ runs'[w] = runs[w] /\ pc[w] = "entering" /\ Broken' = Broken
          /\ \/ pc'[w] = "entering"
             \/ pc'[w] = "boundary" /\ attempt'[w] = 1 /\ stage'[w] = stage[w]
                /\ Retried(stage[w])' = Retried(stage[w])
      BY <1>2, <1>5, <1>8 DEF Enter
    <2> QED
      BY <1>3, <1>4, <2>1 DEF BudgetInv
  <1>9. CASE Before(w) \/ After(w)
    <2>1. PICK t \in Tools, p \in Phases, outcome \in Faults!Outcomes :
            /\ t = stage[w] /\ Faults!Apply(t, p, outcome)
            /\ \/ outcome = "none" /\ pc'[w] \in {"acting", "acknowledging", "saving"}
               \/ outcome \in {"retryable", "malformed"} /\ pc'[w] = "retrying"
               \/ outcome = "interrupted" /\ pc'[w] = "interrupted"
               \/ outcome = "permanent"
      BY <1>2, <1>9 DEF Before, After
    <2>2. /\ Retried(t)' = Retried(t) + IF outcome \in {"retryable", "malformed"} THEN 1 ELSE 0
          /\ Broken' = Broken + IF outcome = "interrupted" THEN 1 ELSE 0
      BY <2>1, Costs
    <2>3. outcome # "permanent"
      BY <1>4, <2>1
    <2>4. /\ runs'[w] = runs[w] /\ attempt'[w] = attempt[w] /\ stage'[w] = t
          /\ pc[w] \in {"boundary", "acknowledging"}
      BY <1>9, <2>1 DEF Before, After
    <2>5. Retried(t) \in Nat /\ attempt[w] <= Retried(t) + 1 /\ runs[w] <= Broken + 1
      BY <1>3, <1>4, <2>1, <2>4
    <2> QED
      BY <1>4, <2>1, <2>2, <2>3, <2>4, <2>5 DEF BudgetInv
  <1>10. CASE Commit(w) \/ CheckFile(w) \/ ReadFile(w) \/ WriteFile(w)
    <2>1. /\ runs'[w] = runs[w] /\ attempt'[w] = attempt[w] /\ stage'[w] = stage[w]
          /\ Broken' = Broken /\ Retried(stage[w])' = Retried(stage[w])
          /\ pc[w] \in {"acting", "comparing", "writing"}
          /\ pc'[w] \in {"comparing", "writing", "acknowledging", "error"}
      BY <1>2, <1>5, <1>10 DEF Commit, CheckFile, ReadFile, WriteFile
    <2> QED
      BY <1>3, <1>4, <2>1 DEF BudgetInv
  <1>11. CASE Retry(w)
    <2>1. attempt[w] # MaxAttempts
      BY <1>3, <1>4, <1>11, WorkflowAssumption DEF Retry
    <2>2. /\ runs'[w] = runs[w] /\ attempt'[w] = attempt[w] + 1 /\ stage'[w] = stage[w]
          /\ Broken' = Broken /\ Retried(stage[w])' = Retried(stage[w])
          /\ pc[w] = "retrying" /\ pc'[w] = "boundary"
      BY <1>2, <1>5, <1>11, <2>1 DEF Retry
    <2> QED
      BY <1>3, <1>4, <2>2 DEF BudgetInv
  <1>12. CASE Save(w)
    <2>1. /\ runs'[w] = runs[w] /\ Broken' = Broken /\ pc[w] = "saving"
          /\ pc'[w] \in {"complete", "entering"}
      BY <1>2, <1>5, <1>12 DEF Save
    <2> QED
      BY <1>3, <1>4, <2>1 DEF BudgetInv
  <1>13. CASE Reject(w)
    BY <1>3, <1>13 DEF Reject
  <1>14. CASE Rerun(w)
    <2>1. /\ runs'[w] = runs[w] /\ Broken' = Broken /\ pc'[w] = "idle"
          /\ pc[w] \in Operated.rerun
      BY <1>2, <1>5, <1>14 DEF Rerun
    <2>2. pc[w] = "interrupted"
      <3>1. Operated.rerun \subseteq Ended /\ "complete" \notin Operated.rerun
        BY Parts, WorkflowAssumption DEF IsSetting, Operated, LocalTypes, Supervised
      <3> QED
        BY <1>1, <1>3, <2>1, <3>1 DEF Ended, EndInv, Staged, Undisturbed
    <2> QED
      BY <1>3, <1>4, <2>1, <2>2 DEF BudgetInv
  <1> QED
    BY <1>6, <1>7, <1>8, <1>9, <1>10, <1>11, <1>12, <1>13, <1>14 DEF Step

\* A worker that does not move keeps its part.
LEMMA OthersKept ==
    ASSUME IInv, Bound, NEW w \in Workers, Step(w) \/ FailWrite(w) \/ Rerun(w) \/ Kill(w),
           NEW v \in Workers \ {w}, EndInv(v), BudgetInv(v)
    PROVE  EndInv(v)' /\ BudgetInv(v)'
  <1>1. /\ pc'[v] = pc[v] /\ stage'[v] = stage[v] /\ attempt'[v] = attempt[v]
        /\ runs'[v] = runs[v]
        /\ damages' = damages /\ crashes' \in {crashes, crashes + 1}
        /\ (records => records') /\ (complete => complete') /\ (rejected => rejected')
        /\ file' \in {file, "current"}
    BY Framed
  <1>2. EndInv(v)'
    BY <1>1, Accounts, Reads DEF EndInv
  <1>3. BudgetInv(v)'
    <2>1. PICK t \in Tools : t = stage[v]
      BY Reads
    <2>2. /\ attempt[v] \in Nat /\ runs[v] \in Nat
          /\ Retried(t) \in Nat /\ Retried(t)' \in Nat /\ Retried(t) <= Retried(t)'
          /\ Broken \in Nat /\ Broken' \in Nat /\ Broken <= Broken'
      BY Accounts, Reads
    <2> SUFFICES ASSUME Supervised(Operated), Tolerable, Undisturbed' PROVE BudgetInv(v)'
      BY Accounts DEF BudgetInv
    <2>3. /\ pc[v] \notin {"rejecting", "failed"}
          /\ runs[v] <= Broken + IF pc[v] \in {"idle", "interrupted"} THEN 0 ELSE 1
          /\ pc[v] \in {"boundary", "acting", "comparing", "writing", "acknowledging"} =>
                attempt[v] <= Retried(t) + 1
          /\ pc[v] = "retrying" => attempt[v] <= Retried(t)
      BY <2>1, Accounts DEF BudgetInv
    <2> QED
      BY <1>1, <2>1, <2>2, <2>3 DEF BudgetInv
  <1> QED
    BY <1>2, <1>3

\* Damage moves nobody.
LEMMA DamageKept ==
    ASSUME IInv, Bound, VerdictInv, Damage
    PROVE  VerdictInv' /\ Bound'
  <1>1. /\ damages' = damages + 1 /\ file # "absent"
        /\ UNCHANGED <<checkpoints, rejected, faultVars, pc, stage, attempt, runs, bounds>>
        /\ UNCHANGED artifact
    BY DEF Damage, DamageFile
  <1>2. damages' > 0
    BY <1>1, Parts DEF StoreTypeOK
  <1>3. ~Undisturbed'
    BY <1>2 DEF Undisturbed
  <1>4. CommittedInv'
    BY <1>1 DEF VerdictInv, CommittedInv, checkpoints, faultVars
  <1>5. \A w \in Workers : EndInv(w)' /\ BudgetInv(w)'
    <2>1. UNCHANGED <<checkpoints, rejected, binding, pc, runs, setting, crashes>>
      BY <1>1 DEF faultVars, bounds
    <2>2. ASSUME NEW w \in Workers PROVE EndInv(w)'
      BY <1>2, <2>1 DEF VerdictInv, EndInv, Operated, checkpoints
    <2>3. ASSUME NEW w \in Workers PROVE BudgetInv(w)'
      BY <1>3 DEF BudgetInv
    <2> QED
      BY <2>2, <2>3
  <1>6. Bound'
    BY <1>1 DEF Bound, faultVars
  <1> QED
    BY <1>3, <1>4, <1>5, <1>6 DEF VerdictInv, PathInv

\* Every step keeps the accounts and the evidence.
LEMMA StepVerdict == IInv /\ Bound /\ VerdictInv /\ [Next]_vars => Bound' /\ VerdictInv'
  <1> SUFFICES ASSUME IInv, Bound, VerdictInv, [Next]_vars PROVE Bound' /\ VerdictInv'
    OBVIOUS
  <1>1. CASE UNCHANGED vars
    <2>1. Bound' /\ CommittedInv' /\ PathInv' /\ \A w \in Workers : EndInv(w)'
      BY <1>1 DEF vars, VerdictInv, CommittedInv, PathInv, EndInv, Bound, OnPath,
                   Undisturbed, Operated
    <2>2. \A w \in Workers : BudgetInv(w)'
      <3>1. Broken' = Broken /\ \A t : Retried(t)' = Retried(t)
        BY <1>1, CostKept DEF vars, Retried
      <3>2. Tolerable' <=> Tolerable
        BY <1>1 DEF vars, Operated, Tolerable, Interruptions, Hits, Faults!Hits, Faults!Matching
      <3>3. UNCHANGED <<pc, stage, attempt, runs>> /\ Operated' = Operated
            /\ (Undisturbed' <=> Undisturbed)
        BY <1>1 DEF vars, Operated, Undisturbed
      <3> QED
        BY <3>1, <3>2, <3>3 DEF VerdictInv, BudgetInv
    <2> QED
      BY <2>1, <2>2 DEF VerdictInv
  <1>2. CASE Damage
    BY <1>2, DamageKept
  <1>3. ASSUME NEW w \in Workers, Step(w) \/ FailWrite(w) \/ Rerun(w) \/ Kill(w)
        PROVE  Bound' /\ VerdictInv'
    <2>1. /\ CommittedInv /\ PathInv /\ \A v \in Workers : EndInv(v) /\ BudgetInv(v)
      BY DEF VerdictInv
    <2>2. EndInv(w)' /\ CommittedInv' /\ BudgetInv(w)'
      BY <1>3, <2>1, EndStep, CommittedStep, BudgetStep
    <2>3. PathInv'
      BY <1>3, <2>1, <2>2, PathStep
    <2>4. \A v \in Workers : EndInv(v)' /\ BudgetInv(v)'
      BY <1>3, <2>1, <2>2, OthersKept
    <2>5. IInv' /\ binding' = binding
      BY <1>3, StepIInv, Accounts DEF Next
    <2>6. Bound'
      <3>1. calls' \in [Faults!Rules -> Nat]
        BY <2>5, Parts DEF IInv, TypeOK, Faults!TypeOK
      <3> QED
        BY <2>5, <3>1 DEF Bound
    <2> QED
      BY <2>2, <2>3, <2>4, <2>6 DEF VerdictInv
  <1> QED
    BY <1>1, <1>2, <1>3 DEF Next

\* Nothing has been suffered in a fresh directory.
LEMMA InitVerdict == Init => Bound /\ VerdictInv
  <1> SUFFICES ASSUME Init PROVE Bound /\ VerdictInv
    OBVIOUS
  <1>1. IInv /\ DistinctTargets(binding)
    BY InitIInv DEF Init
  <1>2. Bound
    BY <1>1, BoundIs
  <1>3. CommittedInv /\ PathInv
    BY DEF Init, StoreInit, CommittedInv, PathInv, LateFaults
  <1>4. \A w \in Workers : EndInv(w)
    BY DEF Init, EndInv
  <1>5. \A w \in Workers : BudgetInv(w)
    <2>1. Broken \in Nat
      BY <1>2, CostTypes DEF Broken
    <2> QED
      BY <2>1 DEF Init, BudgetInv
  <1> QED
    BY <1>2, <1>3, <1>4, <1>5 DEF VerdictInv

\* What the oracle concludes follows.
LEMMA Verdicts == IInv /\ Bound /\ VerdictInv => OracleVerdict
  <1> SUFFICES ASSUME IInv, Bound, VerdictInv, Supervised(Operated) \/ binding = <<>>
               PROVE  BudgetSuffices /\ RejectionVerdict
    BY DEF OracleVerdict
  <1> USE Reads
  <1>1. /\ CommittedInv /\ PathInv /\ \A w \in Workers : EndInv(w) /\ BudgetInv(w) /\ Staged(w)
        /\ commits = IF artifact THEN 1 ELSE 0
    BY Parts DEF VerdictInv, IInv, StoreInv
  <1>2. ASSUME NEW w \in Workers, Undisturbed
        PROVE  pc[w] \notin {"killed", "error"}
    BY <1>1, <1>2 DEF EndInv, Staged, Undisturbed
  <1>3. BudgetSuffices
    <2> SUFFICES ASSUME Tolerable, Undisturbed, NEW w \in Workers, Finished(w)
                 PROVE  Completed(w)
      BY DEF BudgetSuffices
    <2>1. pc[w] \in {"complete", "failed", "interrupted"} /\ runs[w] \in Nat \ {0}
      BY <1>1, <1>2 DEF Finished, Ended, EndInv
    <2>2. CASE binding = <<>>
      BY <1>1, <2>1, <2>2 DEF EndInv, CommittedInv, Completed, Undisturbed, Materialized
    <2>3. CASE Supervised(Operated)
      <3>1. pc[w] # "failed" /\ (pc[w] = "interrupted" => runs[w] <= Broken)
        BY <1>1, <2>3, CostTypes DEF BudgetInv, Broken
      <3>2. Broken \in Nat /\ Broken < IF "interrupted" \in Operated.rerun THEN Operated.runs ELSE 1
        BY WithinBudgets
      <3>3. pc[w] # "interrupted"
        BY <2>1, <3>1, <3>2 DEF Finished
      <3> QED
        BY <1>1, <2>1, <3>1, <3>3 DEF EndInv, CommittedInv, Completed, Undisturbed, Materialized
    <2> QED
      BY <2>2, <2>3
  <1>4. RejectionVerdict
    <2> SUFFICES ASSUME Undisturbed, NEW w \in Workers, Finished(w), pc[w] = "failed"
                 PROVE  SafelyRejected(w) <=> LateFaults(binding, journal) = {}
      BY DEF RejectionVerdict
    <2>1. rejected /\ binding # <<>> /\ w \in Operated.workers
      BY <1>1 DEF EndInv
    <2>2. artifact => LateFaults(binding, journal) # {}
      BY <1>1, <2>1 DEF PathInv, OnPath, Supervised
    <2> QED
      BY <1>1, <2>1, <2>2 DEF CommittedInv, SafelyRejected
  <1> QED
    BY <1>3, <1>4

\* As long as only the schedule acts on the task: within the budgets it completes,
\* and a rejection is safe exactly if every fault struck before the commit
\* (run_workflow, assess_artifacts).
THEOREM Oracle == Spec => []OracleVerdict
  <1> QED
    BY Invariance, InitVerdict, StepVerdict, Verdicts, PTL DEF Spec

=============================================================================

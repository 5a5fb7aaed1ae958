------------------------ MODULE CodeValidationProofs ------------------------
(* Theorems about CodeValidation for any gates, candidates and prefixes, and   *)
(* any number of commands that go wrong.                                       *)
EXTENDS CodeValidation, FiniteSetTheorems, TLAPS

Early == {"snapshot", "policy", "check_patch", "apply_patch"}
Staging == {"create_staging", "copy", "commit", "remove_staging"}
Gating == {"create", "start", "attached", "inspect", "remove"}
Late == {"resolve", "remove_image"} \union Staging \union Gating

\* What a gate's container leaves behind when it ran the candidate's own files
\* to a clean exit.
Clean(g) == [gate |-> g, files |-> "candidate", code |-> "zero"]
FailedRun(g) == \E r \in ran : r.gate = g /\ r.code # "zero"

\* Gates whose entry in the snapshot is complete when no exception is on its way.
Reported ==
    IF pc = "remove" THEN {Gates[i] : i \in 1..gate}
    ELSE IF pc = "remove_image" THEN Required
    ELSE IF pc \in Gating THEN {Gates[i] : i \in 1..(gate - 1)}
    ELSE {}

\* Where the run stands: the gate it is at, and an exception on its way.
ControlInv ==
    /\ pc \in Gating => gate \in 1..Len(Gates)
    /\ pc \in Early \union Staging \union {"resolve"} => gate = 0
    /\ pc # "done" => receipt = "none"
    /\ raised => pc \in {"remove_staging", "remove", "remove_image", "done"}

HostVerbs ==
    {"git_tree", "git_init", "git_check", "git_apply", "image_inspect", "inspect"}
Verbs == HostVerbs \union {"create", "cp", "commit", "start", "rm", "image_rm"}
Commands == [verb : Verbs, object : Containers \union {"image", "host"}]

TypeInv ==
    /\ TypeOK
    /\ IsFiniteSet(mishaps)
    /\ mishaps \subseteq Commands
    /\ requests \subseteq mishaps
    /\ ControlInv

\* The commit has been looked at and the policy passed before anything is asked
\* of the daemon.
PolicyInv ==
    /\ pc \in {"policy", "check_patch", "apply_patch"} => Patch.regular
    /\ pc \in {"check_patch", "apply_patch"} => PatchPaths(Patch.lines) \subseteq Allowed
    /\ pc = "apply_patch" => Patch.applies
    /\ policyPassed =>
         /\ Patch.regular /\ Patch.applies
         /\ Patch.edits = PatchPaths(Patch.lines) /\ Patch.edits \subseteq Allowed
    /\ pc \in Late => policyPassed
    /\ pc \in Early => ~policyPassed
    /\ ~policyPassed =>
         /\ image = "absent" /\ requests = {} /\ ran = {} /\ gates = <<>>
         /\ \A c \in Containers : containers[c] = "absent"

\* The image holds the candidate's files, and so does every container made of
\* it; a container that ended ran them.
ImageInv ==
    /\ image \in {"absent", "candidate"}
    /\ \A g \in Required : containers[g] # "absent" => image = "candidate"
    /\ pc = "commit" => staged = "candidate"
    /\ \A r \in requests : r.verb = "commit" => staged = "candidate"

RunInv ==
    /\ \A g \in Required : containers[g] = "succeeded" => Clean(g) \in ran
    /\ \A g \in Required : containers[g] = "failed" => FailedRun(g)
    /\ \A r \in ran : r.gate = Patch.defect => r.code # "zero"

\* No request can change the container of the gate under way once it exists,
\* and none is for a gate to come.
PendingInv ==
    \A r \in requests, i \in DOMAIN Gates :
        (r.verb \in {"create", "start", "rm"} /\ r.object = Gates[i]) =>
            /\ i <= gate
            /\ i = gate => pc # "create"
            /\ (i = gate /\ pc \in {"start", "attached", "inspect"}) => r.verb = "start"

\* A container or image that exists is in use, or some command went wrong.
InUse(c) ==
    \/ c = "staging" /\ pc \in {"copy", "commit", "remove_staging"}
    \/ c \in Required /\ pc \in {"start", "attached", "inspect", "remove"} /\ c = Current

Blamed(c) == {Request("create", c), Request("rm", c)} \cap mishaps # {}

ContainerInv ==
    \A c \in Containers : containers[c] # "absent" => InUse(c) \/ Blamed(c)

LeftImageInv ==
    /\ pc \in {"resolve", "create_staging", "copy", "commit"} =>
         image = "absent" /\ \A r \in requests : r.verb # "commit"
    /\ image # "absent" =>
         \/ pc \in {"remove_staging", "remove_image"} \union Gating
         \/ Wrong("commit") \/ Wrong("image_rm") \/ \E g \in Required : Blamed(g)
    /\ (image # "absent" /\ pc = "remove_staging" /\ raised) => Wrong("commit")

\* The snapshot's entries say what the containers did, and the return code at
\* hand says it of the current one.
CodeInv ==
    pc = "inspect" =>
        /\ returncode \in {"zero", "nonzero", "timeout"}
        /\ returncode = "zero" => containers[Current] = "succeeded"
        /\ returncode = "nonzero" => Wrong("start") \/ FailedRun(Current)

EntryInv ==
    \A g \in DOMAIN gates :
        /\ gates[g].passed \in BOOLEAN
        /\ gates[g].passed => /\ gates[g].returncode = "zero" /\ gates[g].exitCode = "zero"
                              /\ Clean(g) \in ran
        /\ ~gates[g].passed =>
             gates[g].returncode = "timeout" \/ Wrong("start") \/ FailedRun(g)

ReportInv == (pc # "done" /\ ~raised) => DOMAIN gates = Reported

Errors ==
    {"git_tree", "git_init", "image_inspect", "create", "cp", "commit", "inspect"}

\* An exception that passes a cleanup block comes from a command that went
\* wrong; the only other one is for what the commit holds.
ExceptionInv ==
    /\ raised => \E v \in Errors : Wrong(v)
    /\ receipt = "error" => ~Patch.regular \/ \E v \in Errors : Wrong(v)

\* A verdict has what the grader asks of it.
VerdictInv ==
    /\ receipt = "accepted" =>
         policyPassed /\ DOMAIN gates = Required /\ \A g \in Required : gates[g].passed
    /\ receipt = "rejected" =>
         \/ ~policyPassed /\ (Refusable \/ Wrong("git_check") \/ Wrong("git_apply"))
         \/ DOMAIN gates = Required /\ \E g \in Required : ~gates[g].passed

IInv ==
    /\ TypeInv /\ PolicyInv /\ ImageInv /\ RunInv
    /\ PendingInv /\ ContainerInv /\ LeftImageInv /\ CodeInv /\ EntryInv /\ ReportInv
    /\ ExceptionInv /\ VerdictInv

-----------------------------------------------------------------------------
\* The gates are a nonempty sequence of distinct names, none of them staging.
LEMMA GateFacts ==
    /\ Len(Gates) \in Nat \ {0} /\ DOMAIN Gates = 1..Len(Gates)
    /\ \A i \in DOMAIN Gates : Gates[i] \in Required /\ Gates[i] \in STRING
    /\ \A i, j \in DOMAIN Gates : Gates[i] = Gates[j] => i = j
    /\ Required \subseteq Containers /\ "staging" \in Containers /\ "staging" \notin Required
    /\ Required \subseteq STRING /\ Required # {}
  <1>1. Gates \in Seq(STRING) /\ Gates # <<>>
    BY ValidationAssumption
  <1>2. Len(Gates) \in Nat \ {0} /\ DOMAIN Gates = 1..Len(Gates)
        /\ \A i \in DOMAIN Gates : Gates[i] \in STRING
    BY <1>1
  <1> QED
    BY <1>2, ValidationAssumption DEF Required, Containers

\* One more command may go wrong within the bound.
LEMMA RoomForOne ==
    ASSUME IsFiniteSet(mishaps), Cardinality(mishaps) < MaxMishaps, NEW r
    PROVE  IsFiniteSet(mishaps \union {r}) /\ Cardinality(mishaps \union {r}) <= MaxMishaps
  <1>1. Cardinality(mishaps) \in Nat /\ MaxMishaps \in Nat
    BY FS_CardinalityType, ValidationAssumption
  <1>2. /\ IsFiniteSet(mishaps \union {r})
        /\ Cardinality(mishaps \union {r}) =
             IF r \in mishaps THEN Cardinality(mishaps) ELSE Cardinality(mishaps) + 1
    BY FS_AddElement
  <1> QED
    BY <1>1, <1>2

\* What serving a request, late or not, does to the daemon.
Effect(r) ==
    /\ containers' \in [Containers -> {"absent", "created", "running", "succeeded", "failed"}]
    /\ staged' \in {staged, "candidate"}
    /\ \/ containers' = containers /\ image' = image
       \/ r.verb = "commit" /\ containers' = containers /\ image' = staged
       \/ /\ r.verb = "image_rm" /\ containers' = containers /\ image' = "absent"
          /\ \A g \in Required : containers[g] = "absent"
       \/ /\ image' = image
          /\ \A c \in Containers \ {r.object} : containers'[c] = containers[c]
          /\ r.object \in Containers =>
               \/ /\ r.verb = "create" /\ containers'[r.object] = "created"
                  /\ r.object # "staging" => image # "absent"
               \/ /\ r.verb = "start" /\ containers'[r.object] = "running"
                  /\ containers[r.object] = "created"
               \/ r.verb = "rm" /\ containers'[r.object] = "absent"

\* Serving a request, or dropping it, has one of its effects.
LEMMA ServeEffect ==
    ASSUME TypeInv, NEW r, Serve(r) \/ UNCHANGED <<containers, staged, image>>
    PROVE  Effect(r)
  <1> USE DEF TypeInv, TypeOK
  <1>1. CASE UNCHANGED <<containers, staged, image>>
    BY <1>1 DEF Effect
  <1>2. CASE Serve(r) /\ ~Blocked(r)
    <2>1. CASE r.verb = "create"
      BY <1>2, <2>1 DEF Effect, Serve, Blocked, SetContainer
    <2>2. CASE r.verb = "start"
      BY <1>2, <2>2 DEF Effect, Serve, Blocked, SetContainer
    <2>3. CASE r.verb = "rm"
      BY <1>2, <2>3 DEF Effect, Serve, Blocked, SetContainer
    <2>4. CASE r.verb \notin {"create", "start", "rm"}
      BY <1>2, <2>4 DEF Effect, Serve, Blocked
    <2> QED
      BY <2>1, <2>2, <2>3, <2>4
  <1>3. CASE Serve(r) /\ Blocked(r)
    BY <1>3, <1>1 DEF Serve
  <1> QED
    BY <1>1, <1>2, <1>3

\* The request each place in the code makes.
Issued(r) ==
    \/ pc = "create_staging" /\ r = Request("create", "staging")
    \/ pc = "copy" /\ r = Request("cp", "staging")
    \/ pc = "commit" /\ r = Request("commit", "image")
    \/ pc = "remove_staging" /\ r = Request("rm", "staging")
    \/ pc = "create" /\ r = Request("create", Current)
    \/ pc = "start" /\ r = Request("start", Current)
    \/ pc = "remove" /\ r = Request("rm", Current)
    \/ pc = "remove_image" /\ r = Request("image_rm", "image")

Commanded(r) ==
    /\ Effect(r)
    /\ requests' \subseteq requests \union {r}
    /\ mishaps' \in {mishaps, mishaps \union {r}}
    /\ Cardinality(mishaps') <= MaxMishaps
    /\ requests' \subseteq mishaps'

\* So has a command, whether it succeeds or goes wrong.
LEMMA CommandEffect ==
    ASSUME TypeInv, NEW r, Succeed(r) \/ GoWrong(r)
    PROVE  Commanded(r)
  <1>1. CASE Succeed(r)
    BY <1>1, ServeEffect DEF Succeed, Commanded, TypeInv, TypeOK
  <1>2. CASE GoWrong(r)
    <2>1. Effect(r) /\ requests' \subseteq requests \union {r} /\ mishaps' = mishaps \union {r}
      BY <1>2, ServeEffect DEF GoWrong, daemon
    <2>2. Cardinality(mishaps') <= MaxMishaps
      <3>1. IsFiniteSet(mishaps) /\ Cardinality(mishaps) < MaxMishaps
        BY <1>2 DEF TypeInv, GoWrong
      <3> QED
        BY <2>1, <3>1, RoomForOne
    <2> QED
      BY <2>1, <2>2 DEF Commanded, TypeInv
  <1> QED
    BY <1>1, <1>2

\* A step of the host alone may go wrong too.
HostMishap ==
    /\ Cardinality(mishaps') <= MaxMishaps
    /\ \E v \in HostVerbs : mishaps' = mishaps \union {Request(v, "host")}

HostOnly ==
    /\ UNCHANGED <<daemon, ran>>
    /\ UNCHANGED mishaps \/ HostMishap

\* A command of the host that fails is recorded, and stays within the bound.
LEMMA HostFailure ==
    ASSUME TypeInv, NEW v \in HostVerbs, HostFails(v)
    PROVE  HostMishap /\ Wrong(v)'
  <1>1. /\ Cardinality(mishaps) < MaxMishaps
        /\ mishaps' = mishaps \union {Request(v, "host")}
    BY DEF HostFails
  <1>2. Cardinality(mishaps') <= MaxMishaps
    BY <1>1, RoomForOne DEF TypeInv
  <1>3. Wrong(v)'
    <2>1. Request(v, "host") \in mishaps' /\ Request(v, "host").verb = v
      BY <1>1 DEF Request
    <2> QED
      BY <2>1 DEF Wrong
  <1> QED
    BY <1>1, <1>2, <1>3 DEF HostMishap

\* Every step is one of the host, a command, a late request or the end of a
\* container.
LEMMA StepKinds ==
    ASSUME TypeInv, [Next]_vars
    PROVE  /\ UNCHANGED candidate
           /\ \/ HostOnly
              \/ \E r : Issued(r) /\ Commanded(r) /\ UNCHANGED ran
              \/ \E r \in requests :
                   /\ Effect(r) /\ requests' = requests \ {r}
                   /\ UNCHANGED <<host, history>>
              \/ \E g \in Required, code \in {"zero", "nonzero"} : Exit(g, code)
  <1>1. CASE UNCHANGED vars
    BY <1>1 DEF vars, daemon, history, HostOnly
  <1>20. CASE Snapshot
    <2>1. UNCHANGED <<candidate, daemon, ran>> /\ (mishaps' = mishaps \/ HostFails("git_tree"))
      BY <1>20 DEF Snapshot
    <2> QED
      BY <2>1, HostFailure DEF HostOnly, HostVerbs
  <1>21. CASE Policy
    <2>1. UNCHANGED <<candidate, daemon, ran>> /\ (mishaps' = mishaps \/ HostFails("git_init"))
      BY <1>21 DEF Policy, HostStep
    <2> QED
      BY <2>1, HostFailure DEF HostOnly, HostVerbs
  <1>22. CASE CheckPatch
    <2>1. UNCHANGED <<candidate, daemon, ran>> /\ (mishaps' = mishaps \/ HostFails("git_check"))
      BY <1>22 DEF CheckPatch, HostStep
    <2> QED
      BY <2>1, HostFailure DEF HostOnly, HostVerbs
  <1>23. CASE ApplyPatch
    <2>1. UNCHANGED <<candidate, daemon, ran>> /\ (mishaps' = mishaps \/ HostFails("git_apply"))
      BY <1>23 DEF ApplyPatch, HostStep
    <2> QED
      BY <2>1, HostFailure DEF HostOnly, HostVerbs
  <1>24. CASE Resolve
    <2>1. UNCHANGED <<candidate, daemon, ran>> /\ (mishaps' = mishaps \/ HostFails("image_inspect"))
      BY <1>24 DEF Resolve, HostStep
    <2> QED
      BY <2>1, HostFailure DEF HostOnly, HostVerbs
  <1>4. CASE Inspect
    <2>1. UNCHANGED <<candidate, daemon, ran>> /\ (mishaps' = mishaps \/ HostFails("inspect"))
      BY <1>4 DEF Inspect, InspectOr, gateVars
    <2> QED
      BY <2>1, HostFailure DEF HostOnly, HostVerbs
  <1>5. CASE Attached
    BY <1>5 DEF Attached, HostOnly, gateVars
  <1>6. CASE CreateStaging
    BY <1>6, CommandEffect DEF CreateStaging, Stage, Issued, stagingVars
  <1>7. CASE Copy
    BY <1>7, CommandEffect DEF Copy, Stage, Issued, stagingVars
  <1>8. CASE CommitImage
    BY <1>8, CommandEffect DEF CommitImage, Stage, Issued, stagingVars
  <1>9. CASE RemoveStaging
    BY <1>9, CommandEffect DEF RemoveStaging, Remove, Issued
  <1>10. CASE CreateGate
    BY <1>10, CommandEffect DEF CreateGate, Issued, gateVars
  <1>11. CASE Start
    BY <1>11, CommandEffect DEF Start, Issued, gateVars
  <1>12. CASE RemoveGate
    BY <1>12, CommandEffect DEF RemoveGate, Leave, Remove, Issued
  <1>13. CASE RemoveImage
    BY <1>13, CommandEffect DEF RemoveImage, HostOnly, Issued
  <1>14. CASE ServeLate
    BY <1>14, ServeEffect DEF ServeLate
  <1>15. ASSUME NEW g \in Required, NEW code \in {"zero", "nonzero"}, Exit(g, code)
         PROVE  UNCHANGED candidate
    BY <1>15 DEF Exit
  <1> QED
    BY <1>1, <1>20, <1>21, <1>22, <1>23, <1>24, <1>4, <1>5, <1>6, <1>7, <1>8, <1>9, <1>10, <1>11,
       <1>12, <1>13,
       <1>14, <1>15
    DEF Next, Execute

\* A step that is none of the host's leaves its state and the mishaps alone.
LEMMA Others ==
    ASSUME [Next]_vars, ~Execute
    PROVE  UNCHANGED <<host, mishaps>>
  BY DEF Next, vars, host, history, ServeLate, Exit

HostTypes ==
    /\ pc \in Steps
    /\ gate \in 0..Len(Gates)
    /\ raised \in BOOLEAN /\ policyPassed \in BOOLEAN
    /\ returncode \in {"none", "zero", "nonzero", "timeout"}
    /\ DOMAIN gates \subseteq Required
    /\ receipt \in {"none", "accepted", "rejected", "error"}

\* Every step of the host keeps the place and the gate together.
LEMMA ControlStep ==
    ASSUME HostTypes, ControlInv, [Next]_vars
    PROVE  ControlInv'
  <1>0. Len(Gates) \in Nat /\ Len(Gates) >= 1
    BY GateFacts
  <1> USE <1>0 DEF HostTypes, ControlInv, Early, Staging, Gating
  <1>1. CASE Snapshot
    BY <1>1 DEF Snapshot, Goto, Finish
  <1>2. CASE Policy
    BY <1>2 DEF Policy, HostStep, Goto, Finish
  <1>3. CASE CheckPatch
    BY <1>3 DEF CheckPatch, HostStep, Goto, Finish
  <1>4. CASE ApplyPatch
    BY <1>4 DEF ApplyPatch, HostStep, Goto, Finish
  <1>5. CASE Resolve
    BY <1>5 DEF Resolve, HostStep, Goto, Finish
  <1>6. CASE CreateStaging
    BY <1>6 DEF CreateStaging, Stage, stagingVars, Goto
  <1>7. CASE Copy
    BY <1>7 DEF Copy, Stage, stagingVars, Goto
  <1>8. CASE CommitImage
    BY <1>8 DEF CommitImage, Stage, stagingVars, Goto
  <1>9. CASE RemoveStaging
    BY <1>9 DEF RemoveStaging, Goto, Finish
  <1>10. CASE CreateGate
    BY <1>10 DEF CreateGate, gateVars, Goto
  <1>11. CASE Start
    BY <1>11 DEF Start, gateVars, Goto
  <1>12. CASE Attached
    BY <1>12 DEF Attached, gateVars, Goto
  <1>13. CASE Inspect
    BY <1>13 DEF Inspect, InspectOr, Report, gateVars, Goto
  <1>14. CASE RemoveGate
    BY <1>14 DEF RemoveGate, Leave, Goto
  <1>15. CASE RemoveImage
    BY <1>15 DEF RemoveImage, Finish
  <1>16. CASE UNCHANGED <<host, mishaps>>
    BY <1>16 DEF host
  <1> QED
    BY <1>1, <1>2, <1>3, <1>4, <1>5, <1>6, <1>7, <1>8, <1>9, <1>10, <1>11, <1>12,
        <1>13, <1>14, <1>15, <1>16, Others DEF Execute

\* Every step keeps the types of the host's state.
LEMMA HostTypesStep ==
    ASSUME HostTypes, ControlInv, [Next]_vars
    PROVE  HostTypes'
  <1>0. Len(Gates) \in Nat /\ Len(Gates) >= 1
    BY GateFacts
  <1> USE <1>0 DEF HostTypes, Steps
  <1>1. CASE Snapshot
    BY <1>1 DEF Snapshot, Goto, Finish
  <1>2. CASE Policy
    BY <1>2 DEF Policy, HostStep, Goto, Finish
  <1>3. CASE CheckPatch
    BY <1>3 DEF CheckPatch, HostStep, Goto, Finish
  <1>4. CASE ApplyPatch
    BY <1>4 DEF ApplyPatch, HostStep, Goto, Finish
  <1>5. CASE Resolve
    BY <1>5 DEF Resolve, HostStep, Goto, Finish
  <1>6. CASE CreateStaging
    BY <1>6 DEF CreateStaging, Stage, stagingVars, Goto
  <1>7. CASE Copy
    BY <1>7 DEF Copy, Stage, stagingVars, Goto
  <1>8. CASE CommitImage
    BY <1>8 DEF CommitImage, Stage, stagingVars, Goto
  <1>9. CASE RemoveStaging
    BY <1>9 DEF RemoveStaging, Goto, Finish
  <1>10. CASE CreateGate
    BY <1>10 DEF CreateGate, gateVars, Goto
  <1>11. CASE Start
    BY <1>11 DEF Start, gateVars, Goto
  <1>12. CASE Attached
    BY <1>12 DEF Attached, gateVars, Goto
  <1>13. CASE Inspect
    BY GateFacts, <1>13
    DEF Inspect, InspectOr, Report, gateVars, Goto, Current, ControlInv, Gating
  <1>14. CASE RemoveGate
    BY <1>14 DEF RemoveGate, Leave, Goto, ControlInv, Gating
  <1>15. CASE RemoveImage
    BY <1>15 DEF RemoveImage, Finish
  <1>16. CASE UNCHANGED <<host, mishaps>>
    BY <1>16 DEF host
  <1> QED
    BY <1>1, <1>2, <1>3, <1>4, <1>5, <1>6, <1>7, <1>8, <1>9, <1>10, <1>11, <1>12,
        <1>13, <1>14, <1>15, <1>16, Others DEF Execute

\* What the code asks of the daemon is one of its commands.
LEMMA IssuedTyped ==
    ASSUME TypeInv, NEW r, Issued(r)
    PROVE  r \in Commands
  <1>1. pc \in Gating => Current \in Containers
    BY GateFacts DEF TypeInv, ControlInv, Current
  <1>2. "staging" \in Containers
    BY GateFacts
  <1> QED
    BY <1>1, <1>2 DEF Issued, Request, Commands, Verbs, Gating

\* Every step's effect on the mishaps and the daemon is typed.
LEMMA DaemonTypesStep ==
    ASSUME TypeInv, [Next]_vars
    PROVE  /\ candidate' \in DOMAIN Candidates
           /\ containers' \in
                [Containers -> {"absent", "created", "running", "succeeded", "failed"}]
           /\ staged' \in {"base", "candidate"}
           /\ image' \in {"absent", "base", "candidate"}
           /\ Cardinality(mishaps') <= MaxMishaps
           /\ IsFiniteSet(mishaps')
           /\ mishaps' \subseteq Commands
           /\ requests' \subseteq mishaps'
  <1> USE DEF TypeInv, TypeOK
  <1>1. candidate' \in DOMAIN Candidates
    BY StepKinds
  <1>2. CASE HostOnly
    <2>1. UNCHANGED <<containers, staged, image, requests>>
      BY <1>2 DEF HostOnly, daemon
    <2>2. CASE UNCHANGED mishaps
      BY <2>1, <2>2, <1>1
    <2>3. CASE HostMishap
      <3>1. PICK v \in HostVerbs : mishaps' = mishaps \union {Request(v, "host")}
        BY <2>3 DEF HostMishap
      <3>2. Request(v, "host") \in Commands
        BY DEF Commands, Verbs, Request
      <3>3. IsFiniteSet(mishaps')
        BY <3>1, FS_AddElement
      <3> QED
        BY <1>1, <2>1, <2>3, <3>1, <3>2, <3>3 DEF HostMishap
    <2> QED
      BY <1>2, <2>2, <2>3 DEF HostOnly
  <1>3. ASSUME NEW r, Issued(r), Commanded(r)
        PROVE  /\ image' \in {"absent", "base", "candidate"}
               /\ IsFiniteSet(mishaps') /\ mishaps' \subseteq Commands
    <2>1. IsFiniteSet(mishaps')
      BY <1>3, FS_AddElement DEF Commanded
    <2>2. mishaps' \subseteq Commands
      BY <1>3, IssuedTyped DEF Commanded
    <2> QED
      BY <1>3, <2>1, <2>2 DEF Commanded, Effect
  <1>4. ASSUME NEW r, Issued(r), Commanded(r)
        PROVE  /\ containers' \in
                    [Containers -> {"absent", "created", "running", "succeeded", "failed"}]
               /\ staged' \in {"base", "candidate"}
               /\ Cardinality(mishaps') <= MaxMishaps /\ requests' \subseteq mishaps'
    BY <1>4 DEF Commanded, Effect
  <1>5. ASSUME NEW r \in requests, Effect(r), requests' = requests \ {r},
               UNCHANGED <<host, history>>
        PROVE  /\ containers' \in
                    [Containers -> {"absent", "created", "running", "succeeded", "failed"}]
               /\ staged' \in {"base", "candidate"}
               /\ image' \in {"absent", "base", "candidate"}
               /\ UNCHANGED mishaps /\ requests' \subseteq mishaps'
    BY <1>5 DEF Effect, history
  <1>6. ASSUME NEW g \in Required, NEW code \in {"zero", "nonzero"}, Exit(g, code)
        PROVE  /\ containers' \in
                    [Containers -> {"absent", "created", "running", "succeeded", "failed"}]
               /\ UNCHANGED <<staged, image, requests, mishaps>>
    BY <1>6 DEF Exit, SetContainer
  <1> QED
    BY <1>1, <1>2, <1>3, <1>4, <1>5, <1>6, StepKinds

\* Every step keeps the types.
LEMMA TypeStep ==
    ASSUME TypeInv, [Next]_vars
    PROVE  TypeInv'
  <1>1. HostTypes /\ ControlInv
    BY DEF TypeInv, TypeOK, HostTypes
  <1>2. HostTypes' /\ ControlInv'
    BY <1>1, HostTypesStep, ControlStep
  <1> QED
    BY <1>2, DaemonTypesStep DEF TypeInv, TypeOK, HostTypes

\* The patch policy decides before the daemon is asked for anything.
LEMMA PolicyDecides ==
    ASSUME PolicyInv, HostTypes, [Next]_vars
    PROVE  /\ pc' \in {"policy", "check_patch", "apply_patch"} => Patch.regular
           /\ pc' \in {"check_patch", "apply_patch"} =>
                PatchPaths(Patch.lines) \subseteq Allowed
           /\ pc' = "apply_patch" => Patch.applies
           /\ policyPassed' =>
                /\ Patch.regular /\ Patch.applies
                /\ Patch.edits = PatchPaths(Patch.lines)
                /\ Patch.edits \subseteq Allowed
           /\ pc' \in Late => policyPassed'
           /\ pc' \in Early => ~policyPassed'
           /\ policyPassed => policyPassed'
           /\ ~policyPassed' => gates' = gates
  <1> USE DEF PolicyInv, HostTypes, Late, Early, Staging, Gating
  <1>1. CASE Snapshot
    BY <1>1 DEF Snapshot, Goto, Finish
  <1>2. CASE Policy
    BY <1>2 DEF Policy, HostStep, Goto, Finish
  <1>3. CASE CheckPatch
    BY <1>3 DEF CheckPatch, HostStep, Goto, Finish
  <1>4. CASE ApplyPatch
    BY <1>4 DEF ApplyPatch, HostStep, Goto, Finish
  <1>5. CASE Resolve
    BY <1>5 DEF Resolve, HostStep, Goto, Finish
  <1>6. CASE CreateStaging
    BY <1>6 DEF CreateStaging, Stage, stagingVars, Goto
  <1>7. CASE Copy
    BY <1>7 DEF Copy, Stage, stagingVars, Goto
  <1>8. CASE CommitImage
    BY <1>8 DEF CommitImage, Stage, stagingVars, Goto
  <1>9. CASE RemoveStaging
    BY <1>9 DEF RemoveStaging, Goto, Finish
  <1>10. CASE CreateGate
    BY <1>10 DEF CreateGate, gateVars, Goto
  <1>11. CASE Start
    BY <1>11 DEF Start, gateVars, Goto
  <1>12. CASE Attached
    BY <1>12 DEF Attached, gateVars, Goto
  <1>13. CASE Inspect
    BY <1>13 DEF Inspect, InspectOr, Report, gateVars, Goto
  <1>14. CASE RemoveGate
    BY <1>14 DEF RemoveGate, Leave, Goto
  <1>15. CASE RemoveImage
    BY <1>15 DEF RemoveImage, Finish
  <1>16. CASE UNCHANGED <<host, mishaps>>
    BY <1>16 DEF host
  <1> QED
    BY <1>1, <1>2, <1>3, <1>4, <1>5, <1>6, <1>7, <1>8, <1>9, <1>10, <1>11, <1>12,
        <1>13, <1>14, <1>15, <1>16, Others DEF Execute

\* Every step keeps the policy ahead of the daemon.
LEMMA PolicyStep ==
    ASSUME TypeInv, PolicyInv, [Next]_vars
    PROVE  PolicyInv'
  <1>1. Patch' = Patch
    BY StepKinds DEF Patch
  <1>2. HostTypes
    BY DEF TypeInv, TypeOK, HostTypes
  <1>3. ASSUME ~policyPassed'
        PROVE  /\ image' = "absent" /\ requests' = {} /\ ran' = {} /\ gates' = <<>>
               /\ \A c \in Containers : containers'[c] = "absent"
    <2>1. ~policyPassed /\ gates' = gates /\ pc \notin Late
      BY <1>2, <1>3, PolicyDecides DEF PolicyInv
    <2>2. \A r : ~Issued(r)
      BY <2>1 DEF Issued, Late, Staging, Gating
    <2>3. requests = {} /\ \A g \in Required, code \in {"zero", "nonzero"} : ~Exit(g, code)
      BY <2>1, GateFacts DEF PolicyInv, Exit
    <2>4. HostOnly
      BY <2>2, <2>3, StepKinds
    <2> QED
      BY <2>1, <2>4 DEF PolicyInv, HostOnly, daemon
  <1> QED
    BY <1>1, <1>2, <1>3, PolicyDecides DEF PolicyInv

\* The commit is asked for only after the copy, which nothing undoes.
LEMMA CommitReady ==
    ASSUME TypeInv, ImageInv, [Next]_vars, pc' = "commit"
    PROVE  staged' = "candidate"
  <1>1. CASE Copy
    <2>1. Succeed(Request("cp", "staging"))
      BY <1>1 DEF Copy, Stage, Goto
    <2> QED
      BY <2>1 DEF Succeed, Serve, Blocked, Request
  <1>2. CASE Execute /\ ~Copy
    <2>1. pc' # "commit"
      BY <1>2
      DEF Execute, Snapshot, Policy, CheckPatch, ApplyPatch, Resolve, HostStep,
          CreateStaging, CommitImage, Stage, RemoveStaging, CreateGate, Start, Attached,
          Inspect, InspectOr, RemoveGate, Leave, RemoveImage, Goto, Finish
    <2> QED
      BY <2>1
  <1>3. CASE ~Execute
    <2>1. pc = "commit" /\ staged = "candidate"
      BY <1>3, Others DEF host, ImageInv
    <2>2. staged' \in {staged, "candidate"}
      BY StepKinds DEF HostOnly, daemon, Commanded, Effect, Exit
    <2> QED
      BY <2>1, <2>2
  <1> QED
    BY <1>1, <1>2, <1>3

\* No image or gate's container is ever made of other files than the candidate's.
LEMMA ImageStep ==
    ASSUME TypeInv, ImageInv, [Next]_vars
    PROVE  ImageInv'
  <1>1. pc' = "commit" => staged' = "candidate"
    BY CommitReady
  <1>2. ASSUME NEW r, r.verb = "commit" => staged = "candidate", Effect(r)
        PROVE  /\ image' \in {"absent", "candidate"}
               /\ \A g \in Required : containers'[g] # "absent" => image' = "candidate"
               /\ staged = "candidate" => staged' = "candidate"
    BY <1>2, GateFacts DEF ImageInv, Effect
  <1>3. CASE HostOnly
    BY <1>1, <1>3 DEF HostOnly, daemon, ImageInv
  <1>4. ASSUME NEW r, Issued(r), Commanded(r) PROVE ImageInv'
    <2>1. r.verb = "commit" => staged = "candidate"
      BY <1>4 DEF Issued, Request, ImageInv
    <2>2. Effect(r) /\ requests' \subseteq requests \union {r}
      BY <1>4 DEF Commanded
    <2> QED
      BY <1>1, <1>2, <2>1, <2>2 DEF ImageInv
  <1>5. ASSUME NEW r \in requests, Effect(r), requests' = requests \ {r} PROVE ImageInv'
    <2>1. r.verb = "commit" => staged = "candidate"
      BY DEF ImageInv
    <2> QED
      BY <1>1, <1>2, <1>5, <2>1 DEF ImageInv
  <1>6. ASSUME NEW g \in Required, NEW code \in {"zero", "nonzero"}, Exit(g, code)
        PROVE  ImageInv'
    BY <1>1, <1>6, GateFacts DEF ImageInv, Exit, SetContainer, TypeInv, TypeOK
  <1> QED
    BY <1>3, <1>4, <1>5, <1>6, StepKinds

\* A container that ended ran the candidate's files, and one that met its defect
\* did not end well.
LEMMA RunStep ==
    ASSUME TypeInv, ImageInv, RunInv, [Next]_vars
    PROVE  RunInv'
  <1>1. Patch' = Patch
    BY StepKinds DEF Patch
  <1>2. ASSUME NEW r, Effect(r), UNCHANGED ran PROVE RunInv'
    BY <1>1, <1>2, GateFacts DEF Effect, RunInv, Clean, FailedRun
  <1>3. CASE HostOnly
    BY <1>1, <1>3 DEF HostOnly, daemon, RunInv, Clean, FailedRun
  <1>4. ASSUME NEW g \in Required, NEW code \in {"zero", "nonzero"}, Exit(g, code)
        PROVE  RunInv'
    <2> DEFINE e == [gate |-> g, files |-> "candidate", code |-> code]
    <2>1. containers[g] = "running" /\ image = "candidate"
      BY <1>4 DEF Exit, ImageInv
    <2>2. /\ containers' = [containers EXCEPT ![g] = IF code = "zero" THEN "succeeded"
                                                                      ELSE "failed"]
          /\ ran' = ran \union {e}
      BY <1>4, <2>1 DEF Exit, SetContainer
    <2>3. g = Patch.defect => code # "zero"
      BY <1>4, <2>1 DEF Exit, CanExit
    <2>4. g \in Containers /\ Required \subseteq Containers
      BY GateFacts
    <2>5. \A q \in Required : containers'[q] = "succeeded" => Clean(q) \in ran'
      BY <2>2, <2>4 DEF RunInv, Clean, TypeInv, TypeOK
    <2>6. ASSUME NEW q \in Required, containers'[q] = "failed" PROVE FailedRun(q)'
      <3>1. CASE q = g
        <4>1. e \in ran' /\ e.gate = q /\ e.code # "zero"
          BY <2>2, <2>4, <2>6, <3>1 DEF TypeInv, TypeOK
        <4> QED
          BY <4>1 DEF FailedRun
      <3>2. CASE q # g
        <4>1. containers[q] = "failed"
          BY <2>2, <2>4, <2>6, <3>2 DEF TypeInv, TypeOK
        <4> QED
          BY <2>2, <4>1 DEF RunInv, FailedRun
      <3> QED
        BY <3>1, <3>2
    <2>7. \A r \in ran' : r.gate = Patch.defect => r.code # "zero"
      BY <2>2, <2>3 DEF RunInv
    <2> QED
      BY <1>1, <2>5, <2>6, <2>7 DEF RunInv, Clean
  <1> QED
    BY <1>2, <1>3, <1>4, StepKinds DEF Commanded, history

\* Once a gate's container exists, nothing but its own start is still to come.
LEMMA PendingStep ==
    ASSUME TypeInv, PendingInv, [Next]_vars
    PROVE  PendingInv'
  <1>0. /\ \A i, k \in DOMAIN Gates : Gates[i] = Gates[k] => i = k
        /\ DOMAIN Gates = 1..Len(Gates) /\ Len(Gates) \in Nat
        /\ \A i \in DOMAIN Gates : Gates[i] # "staging"
        /\ gate \in 0..Len(Gates)
    BY GateFacts DEF TypeInv, TypeOK
  <1> USE <1>0 DEF PendingInv, TypeInv, ControlInv, Early, Staging, Gating
  <1>1. CASE Snapshot
    BY <1>1 DEF Snapshot, Goto, Finish, daemon
  <1>2. CASE Policy
    BY <1>2 DEF Policy, HostStep, Goto, Finish, daemon
  <1>3. CASE CheckPatch
    BY <1>3 DEF CheckPatch, HostStep, Goto, Finish, daemon
  <1>4. CASE ApplyPatch
    BY <1>4 DEF ApplyPatch, HostStep, Goto, Finish, daemon
  <1>5. CASE Resolve
    BY <1>5 DEF Resolve, HostStep, Goto, Finish, daemon
  <1>6. CASE CreateStaging
    BY <1>6
    DEF CreateStaging, Stage, stagingVars, Goto, Succeed, GoWrong, Request, Current,
        daemon
  <1>7. CASE Copy
    BY <1>7
    DEF Copy, Stage, stagingVars, Goto, Succeed, GoWrong, Request, Current, daemon
  <1>8. CASE CommitImage
    BY <1>8
    DEF CommitImage, Stage, stagingVars, Goto, Succeed, GoWrong, Request, Current,
        daemon
  <1>9. CASE RemoveStaging
    BY <1>9
    DEF RemoveStaging, Goto, Finish, Remove, Succeed, GoWrong, Request, Current, daemon
  <1>10. CASE CreateGate
    BY <1>10 DEF CreateGate, gateVars, Goto, Succeed, GoWrong, Request, Current, daemon
  <1>11. CASE Start
    BY <1>11 DEF Start, gateVars, Goto, Succeed, GoWrong, Request, Current, daemon
  <1>12. CASE Attached
    BY <1>12 DEF Attached, gateVars, Goto, daemon
  <1>13. CASE Inspect
    BY <1>13 DEF Inspect, InspectOr, Report, gateVars, Goto, daemon
  <1>14. CASE RemoveGate
    <2>1. requests' \subseteq requests \union {Request("rm", Current)}
      BY <1>14 DEF RemoveGate, Leave, Remove, Succeed, GoWrong, daemon
    <2>2. \/ pc' = "create" /\ gate' = gate + 1
          \/ pc' = "remove_image" /\ gate' = gate
      BY <1>14 DEF RemoveGate, Leave, Goto
    <2>3. pc = "remove" /\ gate \in 1..Len(Gates)
      BY <1>14 DEF RemoveGate, Leave
    <2>4. ASSUME NEW r \in requests', NEW i \in DOMAIN Gates,
                 r.verb \in {"create", "start", "rm"}, r.object = Gates[i]
          PROVE  i <= gate
      BY <2>1, <2>3, <2>4 DEF Request, Current
    <2> QED
      BY <2>2, <2>3, <2>4
  <1>15. CASE RemoveImage
    BY <1>15 DEF RemoveImage, Finish, Succeed, GoWrong, Request, Current, daemon
  <1>16. CASE ~Execute
    <2>1. requests' \subseteq requests
      BY <1>16 DEF Next, vars, daemon, ServeLate, Exit
    <2> QED
      BY <1>16, <2>1, Others DEF host
  <1> QED
    BY <1>1, <1>2, <1>3, <1>4, <1>5, <1>6, <1>7, <1>8, <1>9, <1>10, <1>11, <1>12,
        <1>13, <1>14, <1>15, <1>16 DEF Execute

\* Neither a mishap nor a run of a container is ever taken back.
LEMMA Histories ==
    ASSUME TypeInv, [Next]_vars
    PROVE  /\ mishaps \subseteq mishaps' /\ ran \subseteq ran'
           /\ \A v : Wrong(v) => Wrong(v)'
           /\ \A g : FailedRun(g) => FailedRun(g)'
           /\ \A g : Clean(g) \in ran => Clean(g) \in ran'
  <1>1. mishaps \subseteq mishaps' /\ ran \subseteq ran'
    BY StepKinds DEF HostOnly, HostMishap, Commanded, history, Exit
  <1>2. \A v : Wrong(v) => Wrong(v)'
    BY <1>1 DEF Wrong
  <1>3. \A g : FailedRun(g) => FailedRun(g)'
    BY <1>1 DEF FailedRun
  <1> QED
    BY <1>1, <1>2, <1>3

\* The return code keeps saying what became of the container, which nothing can
\* change any more once it ended.
LEMMA CodeStep ==
    ASSUME TypeInv, RunInv, PendingInv, CodeInv, [Next]_vars, pc' = "inspect"
    PROVE  CodeInv'
  <1>1. CASE Start
    <2>1. /\ returncode' \in {"nonzero", "timeout"}
          /\ Request("start", Current) \in mishaps'
      BY <1>1 DEF Start, GoWrong, Goto
    <2>2. Wrong("start")'
      BY <2>1 DEF Wrong, Request
    <2> QED
      BY <2>1, <2>2 DEF CodeInv
  <1>2. CASE Attached
    <2>1. UNCHANGED <<gate, containers, mishaps, ran>>
      BY <1>2 DEF Attached, gateVars, daemon
    <2>2. Current \in Required /\ Current' = Current
      BY <1>2, <2>1, GateFacts DEF TypeInv, ControlInv, Gating, Attached, Current
    <2>3. \/ containers[Current] = "succeeded" /\ returncode' = "zero"
          \/ containers[Current] = "failed" /\ returncode' = "nonzero"
          \/ returncode' = "timeout"
      BY <1>2 DEF Attached
    <2>4. containers[Current] = "failed" => FailedRun(Current)
      BY <2>2 DEF RunInv
    <2> QED
      BY <2>1, <2>2, <2>3, <2>4 DEF CodeInv, FailedRun, Wrong
  <1>3. CASE Execute /\ ~Start /\ ~Attached
    <2>1. pc' # "inspect"
      BY <1>3
      DEF Execute, Snapshot, Policy, CheckPatch, ApplyPatch, Resolve, HostStep,
          CreateStaging, Copy, CommitImage, Stage, RemoveStaging, CreateGate,
          Inspect, InspectOr, RemoveGate, Leave, RemoveImage, Goto, Finish
    <2> QED
      BY <2>1
  <1>4. CASE ~Execute
    <2>1. UNCHANGED <<pc, gate, returncode, mishaps>>
      BY <1>4, Others DEF host
    <2>2. /\ Current' = Current /\ gate \in DOMAIN Gates
          /\ Current \in Required /\ Current \in Containers /\ Current = Gates[gate]
      BY <2>1, GateFacts DEF Current, TypeInv, ControlInv, Gating
    <2>3. ASSUME containers[Current] = "succeeded" PROVE containers'[Current] = "succeeded"
      <3>1. CASE UNCHANGED vars
        BY <2>3, <3>1 DEF vars, daemon
      <3>2. ASSUME NEW r \in requests, Serve(r) \/ UNCHANGED <<containers, staged, image>>
            PROVE  containers'[Current] = "succeeded"
        <4>1. Effect(r)
          BY <3>2, ServeEffect
        <4>2. r.object = Current => r.verb \notin {"create", "rm"}
          BY <2>1, <2>2 DEF PendingInv
        <4> QED
          BY <2>2, <2>3, <4>1, <4>2 DEF Effect
      <3>3. ASSUME NEW g \in Required, NEW code \in {"zero", "nonzero"}, Exit(g, code)
            PROVE  containers'[Current] = "succeeded"
        BY <2>2, <2>3, <3>3 DEF Exit, SetContainer, TypeInv, TypeOK
      <3> QED
        BY <1>4, <3>1, <3>2, <3>3 DEF Next, ServeLate
    <2> QED
      BY <2>1, <2>2, <2>3, Histories DEF CodeInv
  <1> QED
    BY <1>1, <1>2, <1>3, <1>4

\* A gate's entry is what its container did, or tells why that is not known.
LEMMA EntryStep ==
    ASSUME TypeInv, RunInv, CodeInv, EntryInv, [Next]_vars
    PROVE  EntryInv'
  <1>1. CASE gates' = gates
    BY <1>1, Histories DEF EntryInv
  <1>2. CASE Inspect /\ gates' # gates
    <2> DEFINE passed == Passed(containers[Current], returncode)
               entry == [passed |-> passed, returncode |-> returncode,
                         exitCode |-> ExitCode(containers[Current])]
    <2>1. gates' = [g \in DOMAIN gates \union {Current} |->
                       IF g = Current THEN entry ELSE gates[g]]
      BY <1>2 DEF Inspect, InspectOr, Report
    <2>2. Current \in Required
      BY <1>2, GateFacts DEF Inspect, InspectOr, TypeInv, ControlInv, Gating, Current
    <2>3. /\ returncode \in {"zero", "nonzero", "timeout"}
          /\ returncode = "zero" => containers[Current] = "succeeded"
          /\ returncode = "nonzero" => Wrong("start") \/ FailedRun(Current)
      BY <1>2 DEF CodeInv, Inspect, InspectOr
    <2>4. entry.passed \in BOOLEAN /\ (entry.passed <=> returncode = "zero")
      BY <2>3 DEF Passed, LooksClean
    <2>5. entry.passed => /\ entry.returncode = "zero" /\ entry.exitCode = "zero"
                          /\ Clean(Current) \in ran
      BY <2>2, <2>3, <2>4 DEF ExitCode, RunInv
    <2>6. ~entry.passed =>
             entry.returncode = "timeout" \/ Wrong("start") \/ FailedRun(Current)
      BY <2>3, <2>4
    <2> HIDE DEF entry
    <2>7. ASSUME NEW g \in DOMAIN gates'
          PROVE  \/ gates'[g] = entry /\ g = Current
                 \/ g \in DOMAIN gates /\ gates'[g] = gates[g]
      BY <2>1
    <2> QED
      BY <2>4, <2>5, <2>6, <2>7, Histories DEF EntryInv
  <1>3. CASE ~Inspect
    <2>1. gates' = gates
      BY <1>3, Others
      DEF Execute, Snapshot, Policy, CheckPatch, ApplyPatch, Resolve, HostStep,
          CreateStaging, Copy, CommitImage, Stage, stagingVars, RemoveStaging,
          CreateGate, Start, Attached, gateVars, RemoveGate, Leave, RemoveImage, host
    <2> QED
      BY <1>1, <2>1
  <1> QED
    BY <1>1, <1>2, <1>3

\* Without an exception, every gate so far has its entry.
LEMMA ReportStep ==
    ASSUME TypeInv, PolicyInv, ReportInv, [Next]_vars
    PROVE  ReportInv'
  <1> USE DEF TypeInv, ControlInv, ReportInv, Reported, Early, Staging, Gating
  <1>1. CASE Snapshot
    BY <1>1 DEF Snapshot, Goto, Finish
  <1>2. CASE Policy
    BY <1>2 DEF Policy, HostStep, Goto, Finish
  <1>3. CASE CheckPatch
    BY <1>3 DEF CheckPatch, HostStep, Goto, Finish
  <1>4. CASE ApplyPatch
    BY <1>4 DEF ApplyPatch, HostStep, Goto, Finish
  <1>5. CASE Resolve
    BY <1>5 DEF Resolve, HostStep, Goto, Finish
  <1>6. CASE CreateStaging
    BY <1>6 DEF CreateStaging, Stage, stagingVars, Goto
  <1>7. CASE Copy
    BY <1>7 DEF Copy, Stage, stagingVars, Goto
  <1>8. CASE CommitImage
    BY <1>8 DEF CommitImage, Stage, stagingVars, Goto
  <1>9. CASE RemoveStaging
    BY <1>9 DEF RemoveStaging, Goto, Finish
  <1>10. CASE CreateGate
    BY <1>10 DEF CreateGate, gateVars, Goto
  <1>11. CASE Start
    BY <1>11 DEF Start, gateVars, Goto
  <1>12. CASE Attached
    BY <1>12 DEF Attached, gateVars, Goto
  <1>13. CASE Inspect
    <2> SUFFICES ASSUME ~raised' PROVE DOMAIN gates' = {Gates[i] : i \in 1..gate}
      BY <1>13 DEF Inspect, InspectOr, gateVars, Goto
    <2>1. DOMAIN gates' = DOMAIN gates \union {Gates[gate]}
      BY <1>13 DEF Inspect, InspectOr, Report, Current
    <2>2. DOMAIN gates = {Gates[i] : i \in 1..(gate - 1)}
      BY <1>13 DEF Inspect, InspectOr
    <2>3. gate \in 1..Len(Gates) /\ Len(Gates) \in Nat
      BY <1>13, GateFacts DEF Inspect, InspectOr
    <2>4. 1..gate = (1..(gate - 1)) \union {gate}
      BY <2>3
    <2> QED
      BY <2>1, <2>2, <2>4
  <1>14. CASE RemoveGate
    <2> SUFFICES ASSUME ~raised' PROVE DOMAIN gates' = Reported'
      OBVIOUS
    <2>1. ~raised /\ pc = "remove" /\ gates' = gates /\ DOMAIN gates = {Gates[i] : i \in 1..gate}
      BY <1>14 DEF RemoveGate, Leave
    <2>2. /\ gate \in Nat /\ DOMAIN Gates = 1..Len(Gates)
          /\ Required = {Gates[i] : i \in 1..Len(Gates)}
      BY <2>1, GateFacts DEF TypeOK, Required
    <2>3. CASE gate = Len(Gates)
      <3>1. pc' = "remove_image"
        BY <1>14, <2>1, <2>3 DEF RemoveGate, Leave, Goto
      <3> QED
        BY <2>1, <2>2, <2>3, <3>1
    <2>4. CASE gate # Len(Gates)
      <3>1. pc' = "create" /\ gate' = gate + 1
        BY <1>14, <2>1, <2>4 DEF RemoveGate, Leave, Goto
      <3>2. gate' - 1 = gate
        BY <2>2, <3>1
      <3> QED
        BY <2>1, <3>1, <3>2
    <2> QED
      BY <2>3, <2>4
  <1>15. CASE RemoveImage
    BY <1>15 DEF RemoveImage, Finish
  <1>16. CASE UNCHANGED <<host, mishaps>>
    BY <1>16 DEF host
  <1> QED
    BY <1>1, <1>2, <1>3, <1>4, <1>5, <1>6, <1>7, <1>8, <1>9, <1>10, <1>11, <1>12,
        <1>13, <1>14, <1>15, <1>16, Others DEF Execute

\* An exception is raised only where a command went wrong, or for a commit with
\* more than regular files.
LEMMA ExceptionStep ==
    ASSUME TypeInv, ExceptionInv, [Next]_vars
    PROVE  ExceptionInv'
  <1> USE DEF ExceptionInv
  <1>0. Patch' = Patch
    BY StepKinds DEF Patch
  <1>1. CASE Snapshot
    <2>1. /\ raised' = raised
          /\ receipt' = receipt \/ ~Patch.regular \/ HostFails("git_tree")
      BY <1>1 DEF Snapshot, Finish
    <2> QED
      BY <1>0, <2>1, Histories, HostFailure DEF HostVerbs, Errors
  <1>2. CASE Policy
    <2>1. raised' = raised /\ (receipt' \in {receipt, "rejected"} \/ HostFails("git_init"))
      BY <1>2 DEF Policy, HostStep, Finish
    <2> QED
      BY <1>0, <2>1, Histories, HostFailure DEF HostVerbs, Errors
  <1>3. CASE CheckPatch
    BY <1>0, Histories, <1>3 DEF CheckPatch, HostStep, Goto, Finish
  <1>4. CASE ApplyPatch
    BY <1>0, Histories, <1>4 DEF ApplyPatch, HostStep, Goto, Finish
  <1>5. CASE Resolve
    <2>1. raised' = raised /\ (receipt' \in {receipt, "rejected"} \/ HostFails("image_inspect"))
      BY <1>5 DEF Resolve, HostStep, Finish
    <2> QED
      BY <1>0, <2>1, Histories, HostFailure DEF HostVerbs, Errors
  <1>6. CASE CreateStaging
    BY <1>0, Histories, <1>6
    DEF CreateStaging, Stage, stagingVars, Goto, GoWrong, Wrong, Request, Errors
  <1>7. CASE Copy
    BY <1>0, Histories, <1>7
    DEF Copy, Stage, stagingVars, Goto, GoWrong, Wrong, Request, Errors
  <1>8. CASE CommitImage
    BY <1>0, Histories, <1>8
    DEF CommitImage, Stage, stagingVars, Goto, GoWrong, Wrong, Request, Errors
  <1>9. CASE RemoveStaging
    BY <1>0, Histories, <1>9 DEF RemoveStaging, Goto, Finish
  <1>10. CASE CreateGate
    BY <1>0, Histories, <1>10 DEF CreateGate, gateVars, Goto, GoWrong, Wrong, Request, Errors
  <1>11. CASE Start
    BY <1>0, Histories, <1>11 DEF Start, gateVars, Goto
  <1>12. CASE Attached
    BY <1>0, Histories, <1>12 DEF Attached, gateVars, Goto
  <1>13. CASE Inspect
    <2>1. receipt' = receipt /\ (raised' = raised \/ HostFails("inspect"))
      BY <1>13 DEF Inspect, InspectOr, gateVars
    <2> QED
      BY <1>0, <2>1, Histories, HostFailure DEF HostVerbs, Errors
  <1>14. CASE RemoveGate
    BY <1>0, Histories, <1>14 DEF RemoveGate, Leave, Goto
  <1>15. CASE RemoveImage
    BY <1>0, Histories, <1>15 DEF RemoveImage, Finish
  <1>16. CASE UNCHANGED <<host, mishaps>>
    BY <1>0, Histories, <1>16 DEF host
  <1> QED
    BY <1>1, <1>2, <1>3, <1>4, <1>5, <1>6, <1>7, <1>8, <1>9, <1>10, <1>11, <1>12,
        <1>13, <1>14, <1>15, <1>16, Others DEF Execute

\* An acceptance has every gate's pass, and a rejection its failure or refusal.
LEMMA VerdictStep ==
    ASSUME TypeInv, PolicyInv, ReportInv, VerdictInv, [Next]_vars
    PROVE  VerdictInv'
  <1>0. Refusable' = Refusable
    BY StepKinds DEF Refusable, Patch
  <1> USE DEF VerdictInv
  <1>1. CASE Snapshot
    <2>1. receipt' \in {"none", "error"}
      BY <1>1 DEF Snapshot, Finish, TypeInv, ControlInv
    <2> QED
      BY <2>1
  <1>2. CASE Policy
    <2>1. ~policyPassed /\ receipt = "none"
      BY <1>2 DEF Policy, HostStep, PolicyInv, Early, TypeInv, ControlInv
    <2>2. receipt' \in {"none", "rejected", "error"}
      BY <1>2, <2>1 DEF Policy, HostStep, Finish
    <2>3. receipt' = "rejected" => ~policyPassed' /\ (Refusable)
      BY <1>2, <2>1, HostFailure DEF Policy, HostStep, Finish, Refusable, HostVerbs
    <2> QED
      BY <1>0, <2>2, <2>3
  <1>3. CASE CheckPatch
    <2>1. ~policyPassed /\ receipt = "none"
      BY <1>3 DEF CheckPatch, HostStep, PolicyInv, Early, TypeInv, ControlInv
    <2>2. receipt' \in {"none", "rejected"}
      BY <1>3, <2>1 DEF CheckPatch, HostStep, Finish
    <2>3. receipt' = "rejected" => ~policyPassed' /\ (Refusable \/ Wrong("git_check")')
      BY <1>3, <2>1, HostFailure DEF CheckPatch, HostStep, Finish, Refusable, HostVerbs
    <2> QED
      BY <1>0, <2>2, <2>3
  <1>4. CASE ApplyPatch
    <2>1. ~policyPassed /\ receipt = "none"
      BY <1>4 DEF ApplyPatch, HostStep, PolicyInv, Early, TypeInv, ControlInv
    <2>2. receipt' \in {"none", "rejected"}
      BY <1>4, <2>1 DEF ApplyPatch, HostStep, Finish
    <2>3. receipt' = "rejected" => ~policyPassed' /\ (Refusable \/ Wrong("git_apply")')
      BY <1>4, <2>1, HostFailure DEF ApplyPatch, HostStep, Finish, Refusable, HostVerbs
    <2> QED
      BY <1>0, <2>2, <2>3
  <1>5. CASE Resolve
    <2>1. receipt' \in {"none", "error"}
      BY <1>5 DEF Resolve, HostStep, Finish, TypeInv, ControlInv
    <2> QED
      BY <2>1
  <1>6. CASE CreateStaging
    BY <1>6 DEF CreateStaging, Stage, stagingVars, Goto, TypeInv, ControlInv
  <1>7. CASE Copy
    BY <1>7 DEF Copy, Stage, stagingVars, Goto, TypeInv, ControlInv
  <1>8. CASE CommitImage
    BY <1>8 DEF CommitImage, Stage, stagingVars, Goto, TypeInv, ControlInv
  <1>9. CASE RemoveStaging
    BY <1>9 DEF RemoveStaging, Goto, Finish, TypeInv, ControlInv
  <1>10. CASE CreateGate
    BY <1>10 DEF CreateGate, gateVars, Goto, TypeInv, ControlInv
  <1>11. CASE Start
    BY <1>11 DEF Start, gateVars, Goto, TypeInv, ControlInv
  <1>12. CASE Attached
    BY <1>12 DEF Attached, gateVars, Goto, TypeInv, ControlInv
  <1>13. CASE Inspect
    BY <1>13 DEF Inspect, InspectOr, Report, gateVars, Goto, TypeInv, ControlInv
  <1>14. CASE RemoveGate
    BY <1>14 DEF RemoveGate, Leave, Goto, TypeInv, ControlInv
  <1>15. CASE RemoveImage
    <2>1. policyPassed /\ policyPassed' = policyPassed /\ gates' = gates
      BY <1>15 DEF RemoveImage, PolicyInv, Late
    <2>2. receipt' \in {"accepted", "rejected"} => ~raised
      BY <1>15 DEF RemoveImage, Finish
    <2>3. ~raised => DOMAIN gates = Required
      BY <1>15 DEF RemoveImage, ReportInv, Reported, Gating
    <2>4. receipt' = "accepted" => \A g \in DOMAIN gates : gates[g].passed
      BY <1>15 DEF RemoveImage, Finish
    <2>5. receipt' = "rejected" => \E g \in DOMAIN gates : ~gates[g].passed
      BY <1>15 DEF RemoveImage, Finish
    <2> QED
      BY <2>1, <2>2, <2>3, <2>4, <2>5
  <1>16. CASE UNCHANGED <<host, mishaps>>
    BY <1>0, <1>16 DEF host, Wrong
  <1> QED
    BY <1>1, <1>2, <1>3, <1>4, <1>5, <1>6, <1>7, <1>8, <1>9, <1>10, <1>11, <1>12,
        <1>13, <1>14, <1>15, <1>16, Others DEF Execute

\* A container appears only by its creation.
LEMMA Appears ==
    ASSUME NEW r, Effect(r), NEW c \in Containers,
           containers[c] = "absent", containers'[c] # "absent"
    PROVE  r.verb = "create" /\ r.object = c
  BY DEF Effect

\* A container is gone after its removal, unless that went wrong.
LEMMA Removes ==
    ASSUME TypeInv, NEW c \in Containers,
           Succeed(Request("rm", c)) \/ GoWrong(Request("rm", c))
    PROVE  containers'[c] = "absent" \/ Blamed(c)'
  <1>1. CASE Succeed(Request("rm", c))
    BY <1>1 DEF Succeed, Serve, Blocked, Request, SetContainer, TypeInv, TypeOK
  <1>2. CASE GoWrong(Request("rm", c))
    BY <1>2 DEF GoWrong, Blamed
  <1> QED
    BY <1>1, <1>2

\* A container that exists is in use, or its creation or removal went wrong.
LEMMA ContainerStep ==
    ASSUME TypeInv, ContainerInv, [Next]_vars
    PROVE  ContainerInv'
  <1>1. \A c \in Containers : Blamed(c) => Blamed(c)'
    BY Histories DEF Blamed
  <1>2. ASSUME \A c \in Containers : containers'[c] # "absent" =>
                 \/ containers[c] # "absent" /\ (InUse(c) => InUse(c)')
                 \/ InUse(c)' \/ Blamed(c)'
        PROVE  ContainerInv'
    BY <1>1, <1>2 DEF ContainerInv
  <1>17. CASE Snapshot
    <2>1. containers' = containers /\ \A c \in Containers : ~InUse(c)
      BY <1>17 DEF Snapshot, daemon, InUse
    <2> QED
      BY <2>1, <1>2
  <1>18. CASE Policy
    <2>1. containers' = containers /\ \A c \in Containers : ~InUse(c)
      BY <1>18 DEF Policy, HostStep, daemon, InUse
    <2> QED
      BY <2>1, <1>2
  <1>3. CASE CheckPatch
    <2>1. containers' = containers /\ \A c \in Containers : ~InUse(c)
      BY <1>3 DEF CheckPatch, HostStep, daemon, InUse
    <2> QED
      BY <2>1, <1>2
  <1>4. CASE ApplyPatch
    <2>1. containers' = containers /\ \A c \in Containers : ~InUse(c)
      BY <1>4 DEF ApplyPatch, HostStep, daemon, InUse
    <2> QED
      BY <2>1, <1>2
  <1>5. CASE Resolve
    <2>1. containers' = containers /\ \A c \in Containers : ~InUse(c)
      BY <1>5 DEF Resolve, HostStep, daemon, InUse
    <2> QED
      BY <2>1, <1>2
  <1>6. CASE CreateStaging
    <2>1. Effect(Request("create", "staging"))
      BY <1>6, CommandEffect DEF CreateStaging, Stage, stagingVars, Commanded
    <2>2. \A c \in Containers : containers'[c] # "absent" =>
            containers[c] # "absent" \/ c = "staging"
      BY <2>1, Appears DEF Request
    <2>3. \A c \in Containers : (c = "staging" => InUse(c)') /\ ~InUse(c)
      BY <1>6, GateFacts
      DEF CreateStaging, Stage, stagingVars, InUse, Current, Goto, TypeInv, ControlInv, Gating
    <2> QED
      BY <1>2, <2>2, <2>3
  <1>7. CASE Copy
    <2>1. Effect(Request("cp", "staging"))
      BY <1>7, CommandEffect DEF Copy, Stage, stagingVars, Commanded
    <2>2. \A c \in Containers : containers'[c] # "absent" =>
            containers[c] # "absent" \/ FALSE
      BY <2>1, Appears DEF Request
    <2>3. \A c \in Containers : InUse(c) => InUse(c)'
      BY <1>7, GateFacts
      DEF Copy, Stage, stagingVars, InUse, Current, Goto, TypeInv, ControlInv, Gating
    <2> QED
      BY <1>2, <2>2, <2>3
  <1>8. CASE CommitImage
    <2>1. Effect(Request("commit", "image"))
      BY <1>8, CommandEffect DEF CommitImage, Stage, stagingVars, Commanded
    <2>2. \A c \in Containers : containers'[c] # "absent" =>
            containers[c] # "absent" \/ FALSE
      BY <2>1, Appears DEF Request
    <2>3. \A c \in Containers : InUse(c) => InUse(c)'
      BY <1>8, GateFacts
      DEF CommitImage, Stage, stagingVars, InUse, Current, Goto, TypeInv, ControlInv, Gating
    <2> QED
      BY <1>2, <2>2, <2>3
  <1>9. CASE RemoveStaging
    <2>0. PICK q \in Containers : q = "staging"
      BY GateFacts
    <2>1. Succeed(Request("rm", q)) \/ GoWrong(Request("rm", q))
      BY <1>9, <2>0 DEF RemoveStaging, Remove
    <2>2. Effect(Request("rm", q)) /\ (containers'[q] = "absent" \/ Blamed(q)')
      BY <2>1, CommandEffect, Removes DEF Commanded
    <2>3. \A c \in Containers : containers'[c] # "absent" => containers[c] # "absent"
      BY <2>2, Appears DEF Request
    <2>4. \A c \in Containers : InUse(c) => c = q
      BY <1>9, <2>0, GateFacts DEF RemoveStaging, InUse
    <2> QED
      BY <1>2, <2>2, <2>3, <2>4
  <1>10. CASE CreateGate
    <2>1. Effect(Request("create", Current))
      BY <1>10, CommandEffect DEF CreateGate, gateVars, Commanded
    <2>2. \A c \in Containers : containers'[c] # "absent" =>
            containers[c] # "absent" \/ c = Current
      BY <2>1, Appears DEF Request
    <2>3. \A c \in Containers : (c = Current => InUse(c)') /\ ~InUse(c)
      BY <1>10, GateFacts
      DEF CreateGate, gateVars, InUse, Current, Goto, TypeInv, ControlInv, Gating
    <2> QED
      BY <1>2, <2>2, <2>3
  <1>11. CASE Start
    <2>1. Effect(Request("start", Current))
      BY <1>11, CommandEffect DEF Start, gateVars, Commanded
    <2>2. \A c \in Containers : containers'[c] # "absent" =>
            containers[c] # "absent" \/ FALSE
      BY <2>1, Appears DEF Request
    <2>3. \A c \in Containers : InUse(c) => InUse(c)'
      BY <1>11, GateFacts DEF Start, gateVars, InUse, Current, Goto, TypeInv, ControlInv, Gating
    <2> QED
      BY <1>2, <2>2, <2>3
  <1>12. CASE Attached
    <2>1. containers' = containers /\ \A c \in Containers : InUse(c) => InUse(c)'
      BY <1>12 DEF Attached, gateVars, Goto, daemon, InUse, Current
    <2> QED
      BY <2>1, <1>2
  <1>13. CASE Inspect
    <2>1. containers' = containers /\ \A c \in Containers : InUse(c) => InUse(c)'
      BY <1>13 DEF Inspect, InspectOr, gateVars, Goto, daemon, InUse, Current
    <2> QED
      BY <2>1, <1>2
  <1>14. CASE RemoveGate
    <2>0. PICK q \in Containers : q = Current
      BY <1>14, GateFacts DEF RemoveGate, Leave, Current, TypeInv, ControlInv, Gating
    <2>1. Succeed(Request("rm", q)) \/ GoWrong(Request("rm", q))
      BY <1>14, <2>0 DEF RemoveGate, Leave, Remove
    <2>2. Effect(Request("rm", q)) /\ (containers'[q] = "absent" \/ Blamed(q)')
      BY <2>1, CommandEffect, Removes DEF Commanded
    <2>3. \A c \in Containers : containers'[c] # "absent" => containers[c] # "absent"
      BY <2>2, Appears DEF Request
    <2>4. \A c \in Containers : InUse(c) => c = q
      BY <1>14, <2>0, GateFacts DEF RemoveGate, Leave, InUse
    <2> QED
      BY <1>2, <2>2, <2>3, <2>4
  <1>15. CASE RemoveImage
    <2>1. Effect(Request("image_rm", "image")) \/ containers' = containers
      BY <1>15, CommandEffect DEF RemoveImage, Commanded, daemon
    <2>2. \A c \in Containers : containers'[c] # "absent" => containers[c] # "absent"
      BY <2>1, Appears DEF Request
    <2>3. \A c \in Containers : ~InUse(c)
      BY <1>15 DEF RemoveImage, InUse
    <2> QED
      BY <1>2, <2>2, <2>3
  <1>16. CASE ~Execute
    <2>1. \A c \in Containers : InUse(c) => InUse(c)'
      BY <1>16, Others DEF host, InUse, Current
    <2>2. \A c \in Containers : containers'[c] # "absent" =>
            containers[c] # "absent" \/ Request("create", c) \in mishaps'
      <3>1. CASE UNCHANGED vars
        BY <3>1 DEF vars, daemon
      <3>2. ASSUME NEW r \in requests, Effect(r), NEW c \in Containers,
                   containers'[c] # "absent", containers[c] = "absent"
            PROVE  Request("create", c) \in mishaps'
        <4>1. r.verb = "create" /\ r.object = c
          BY <3>2, Appears
        <4>2. r = Request("create", c) /\ r \in mishaps
          BY <4>1 DEF TypeInv, Commands, Request
        <4> QED
          BY <4>2, Histories
      <3>3. ASSUME NEW g \in Required, NEW code \in {"zero", "nonzero"}, Exit(g, code),
                   NEW c \in Containers, containers'[c] # "absent"
            PROVE  containers[c] # "absent"
        BY <3>3 DEF Exit, SetContainer, TypeInv, TypeOK
      <3> QED
        BY <1>16, <3>1, <3>2, <3>3, ServeEffect DEF Next, ServeLate
    <2> QED
      BY <1>2, <2>1, <2>2 DEF Blamed
  <1> QED
    BY <1>17, <1>18, <1>3, <1>4, <1>5, <1>6, <1>7, <1>8, <1>9, <1>10, <1>11, <1>12,
        <1>13, <1>14, <1>15, <1>16 DEF Execute

\* The image appears only by its commit, and stays only if a command went wrong.
LEMMA LeftImageStep ==
    ASSUME TypeInv, PolicyInv, ContainerInv, LeftImageInv, [Next]_vars
    PROVE  LeftImageInv'
  <1>1. /\ Wrong("commit") => Wrong("commit")'
        /\ Wrong("image_rm") => Wrong("image_rm")'
        /\ \A g \in Required : Blamed(g) => Blamed(g)'
    BY Histories DEF Blamed
  <1>2. \A c \in Containers : Blamed(c) => Blamed(c)'
    BY Histories DEF Blamed
  <1> USE DEF LeftImageInv
  <1>21. CASE Snapshot
    <2>1. ~policyPassed /\ UNCHANGED <<image, requests>> /\ pc' \in {"policy", "done"}
      BY <1>21 DEF Snapshot, Goto, Finish, PolicyInv, Early, daemon
    <2> QED
      BY <2>1 DEF PolicyInv
  <1>22. CASE Policy
    <2>1. ~policyPassed /\ UNCHANGED <<image, requests>> /\ pc' \in {"check_patch", "done"}
      BY <1>22 DEF Policy, HostStep, Goto, Finish, PolicyInv, Early, daemon
    <2> QED
      BY <2>1 DEF PolicyInv
  <1>23. CASE CheckPatch
    <2>1. ~policyPassed /\ UNCHANGED <<image, requests>> /\ pc' \in {"apply_patch", "done"}
      BY <1>23 DEF CheckPatch, HostStep, Goto, Finish, PolicyInv, Early, daemon
    <2> QED
      BY <2>1 DEF PolicyInv
  <1>24. CASE ApplyPatch
    <2>1. ~policyPassed /\ UNCHANGED <<image, requests>> /\ pc' \in {"resolve", "done"}
      BY <1>24 DEF ApplyPatch, HostStep, Goto, Finish, PolicyInv, Early, daemon
    <2> QED
      BY <2>1 DEF PolicyInv
  <1>25. CASE Resolve
    <2>1. /\ UNCHANGED <<image, requests>> /\ pc = "resolve"
          /\ pc' \in {"create_staging", "done"}
      BY <1>25 DEF Resolve, HostStep, Goto, Finish, daemon
    <2> QED
      BY <2>1
  <1>26. CASE CreateStaging
    <2> DEFINE r == Request("create", "staging")
    <2>1. Effect(r) /\ requests' \subseteq requests \union {r}
      BY <1>26, CommandEffect DEF CreateStaging, Stage, Commanded
    <2>2. pc = "create_staging" /\ pc' \in {"copy", "remove_staging"}
      BY <1>26 DEF CreateStaging, Stage, Goto
    <2>3. image' = "absent" /\ r.verb # "commit"
      BY <2>1, <2>2 DEF Effect, Request
    <2> QED
      BY <2>1, <2>2, <2>3
  <1>27. CASE Copy
    <2> DEFINE r == Request("cp", "staging")
    <2>1. Effect(r) /\ requests' \subseteq requests \union {r}
      BY <1>27, CommandEffect DEF Copy, Stage, Commanded
    <2>2. pc = "copy" /\ pc' \in {"commit", "remove_staging"}
      BY <1>27 DEF Copy, Stage, Goto
    <2>3. image' = "absent" /\ r.verb # "commit"
      BY <2>1, <2>2 DEF Effect, Request
    <2> QED
      BY <2>1, <2>2, <2>3
  <1>28. CASE CommitImage
    <2>1. pc' = "remove_staging"
      BY <1>28 DEF CommitImage, Stage, Goto
    <2>2. raised' => Wrong("commit")'
      <3>1. ~raised
        BY <1>28 DEF CommitImage, Stage, TypeInv, ControlInv
      <3>2. ASSUME GoWrong(Request("commit", "image"))
            PROVE  Wrong("commit")'
        BY <3>2 DEF GoWrong, Wrong, Request
      <3>3. UNCHANGED raised \/ GoWrong(Request("commit", "image"))
        BY <1>28 DEF CommitImage, Stage
      <3> QED
        BY <3>1, <3>2, <3>3
    <2> QED
      BY <2>1, <2>2
  <1>29. CASE RemoveStaging
    <2>1. image' # "absent" => image # "absent"
      BY <1>29, CommandEffect DEF RemoveStaging, Remove, Commanded, Effect, Request
    <2>2. /\ pc = "remove_staging"
          /\ \/ raised /\ pc' = "done"
             \/ pc' = "create"
      BY <1>29 DEF RemoveStaging, Goto, Finish
    <2> QED
      BY <1>1, <2>1, <2>2 DEF Gating
  <1>30. CASE CreateGate
    <2>1. pc' \in (Gating \ {"remove_staging"}) \union {"remove_image"}
      BY <1>30 DEF CreateGate, Goto, Gating
    <2> QED
      BY <2>1 DEF Gating
  <1>31. CASE Start
    <2>1. pc' \in (Gating \ {"remove_staging"}) \union {"remove_image"}
      BY <1>31 DEF Start, Goto, Gating
    <2> QED
      BY <2>1 DEF Gating
  <1>32. CASE Attached
    <2>1. pc' \in (Gating \ {"remove_staging"}) \union {"remove_image"}
      BY <1>32 DEF Attached, Goto, Gating
    <2> QED
      BY <2>1 DEF Gating
  <1>33. CASE Inspect
    <2>1. pc' \in (Gating \ {"remove_staging"}) \union {"remove_image"}
      BY <1>33 DEF Inspect, InspectOr, Goto, Gating
    <2> QED
      BY <2>1 DEF Gating
  <1>34. CASE RemoveGate
    <2>1. pc' \in (Gating \ {"remove_staging"}) \union {"remove_image"}
      BY <1>34 DEF RemoveGate, Leave, Goto, Gating
    <2> QED
      BY <2>1 DEF Gating
  <1>35. CASE RemoveImage
    <2> DEFINE r == Request("image_rm", "image")
    <2>1. pc = "remove_image" /\ pc' = "done"
      BY <1>35 DEF RemoveImage, Finish
    <2>2. CASE Succeed(r)
      <3>1. image' = "absent"
        BY <2>2 DEF Succeed, Serve, Request
      <3> QED
        BY <2>1, <3>1
    <2>3. CASE Blocked(r) /\ UNCHANGED mishaps
      <3>1. PICK g \in Required : containers[g] # "absent"
        BY <2>3 DEF Blocked, Request
      <3>2. Blamed(g)'
        BY <1>2, <2>1, <3>1, GateFacts DEF ContainerInv, InUse
      <3> QED
        BY <2>1, <3>2
    <2>4. CASE GoWrong(r)
      <3>1. Wrong("image_rm")'
        BY <2>4 DEF GoWrong, Wrong, Request
      <3> QED
        BY <2>1, <3>1
    <2> QED
      BY <1>35, <2>2, <2>3, <2>4 DEF RemoveImage
  <1>36. CASE ~Execute
    <2>1. UNCHANGED <<pc, raised>>
      BY <1>36, Others DEF host
    <2>2. requests' \subseteq requests
      BY <1>36 DEF Next, vars, daemon, ServeLate, Exit
    <2>3. image' # "absent" =>
             image # "absent" \/ \E r \in requests : r.verb = "commit"
      BY <1>36, ServeEffect DEF Next, vars, daemon, ServeLate, Effect, Exit
    <2>4. (\E r \in requests : r.verb = "commit") => Wrong("commit")
      BY DEF Wrong, TypeInv
    <2> QED
      BY <1>1, <2>1, <2>2, <2>3, <2>4
  <1> QED
    BY <1>21, <1>22, <1>23, <1>24, <1>25, <1>26, <1>27, <1>28, <1>29, <1>30, <1>31,
        <1>32, <1>33, <1>34, <1>35, <1>36 DEF Execute

-----------------------------------------------------------------------------
(* The invariant, and what follows from it                                   *)

\* A run starts with nothing asked, recorded or left behind.
LEMMA InitIInv == Init => IInv
  <1> SUFFICES ASSUME Init PROVE IInv
    OBVIOUS
  <1>1. IsFiniteSet(mishaps) /\ Cardinality(mishaps) <= MaxMishaps
    BY FS_EmptySet, ValidationAssumption DEF Init
  <1>2. DOMAIN gates = {}
    BY DEF Init
  <1>3. TypeInv
    <2>1. ControlInv
      BY DEF Init, ControlInv, Gating
    <2>2. containers \in
            [Containers -> {"absent", "created", "running", "succeeded", "failed"}]
      BY DEF Init
    <2>3. TypeOK
      <3>1. gate \in 0..Len(Gates)
        BY GateFacts DEF Init
      <3>2. raised \in BOOLEAN /\ policyPassed \in BOOLEAN
        BY Zenon DEF Init
      <3>3. /\ candidate \in DOMAIN Candidates /\ pc \in Steps
            /\ returncode \in {"none", "zero", "nonzero", "timeout"}
            /\ receipt \in {"none", "accepted", "rejected", "error"}
            /\ staged \in {"base", "candidate"} /\ image \in {"absent", "base", "candidate"}
        BY DEF Init, Steps
      <3> QED
        BY <1>1, <1>2, <2>2, <3>1, <3>2, <3>3 DEF TypeOK
    <2>4. mishaps = {} /\ requests = {}
      BY DEF Init
    <2> QED
      BY <1>1, <2>1, <2>3, <2>4 DEF TypeInv
  <1>4. PolicyInv /\ ImageInv /\ RunInv
    BY GateFacts
    DEF Init, PolicyInv, ImageInv, RunInv, Late, Early, Staging, Gating
  <1>5. PendingInv /\ ContainerInv /\ LeftImageInv /\ CodeInv
    BY DEF Init, PendingInv, ContainerInv, LeftImageInv, CodeInv
  <1>6. EntryInv /\ ReportInv /\ ExceptionInv /\ VerdictInv
    BY <1>2 DEF Init, EntryInv, ReportInv, Reported, Gating, ExceptionInv, VerdictInv
  <1> QED
    BY <1>3, <1>4, <1>5, <1>6 DEF IInv

\* Every step of the host, the daemon and the containers keeps the invariant.
LEMMA StepIInv == IInv /\ [Next]_vars => IInv'
  <1> SUFFICES ASSUME IInv, [Next]_vars PROVE IInv'
    OBVIOUS
  <1> USE DEF IInv
  <1>1. TypeInv' /\ PolicyInv' /\ ImageInv' /\ RunInv'
    BY TypeStep, PolicyStep, ImageStep, RunStep
  <1>2. PendingInv' /\ ContainerInv' /\ LeftImageInv'
    BY PendingStep, ContainerStep, LeftImageStep
  <1>3. CodeInv'
    <2>1. CASE pc' = "inspect"
      BY <2>1, CodeStep
    <2>2. CASE pc' # "inspect"
      BY <2>2 DEF CodeInv
    <2> QED
      BY <2>1, <2>2
  <1>4. EntryInv' /\ ReportInv' /\ ExceptionInv' /\ VerdictInv'
    BY EntryStep, ReportStep, ExceptionStep, VerdictStep
  <1> QED
    BY <1>1, <1>2, <1>3, <1>4

\* The strengthened invariant holds throughout a validation.
LEMMA Invariance == Spec => []IInv
  BY InitIInv, StepIInv, PTL DEF Spec

\* A candidate is accepted only if its patch keeps to the allowed files and
\* every gate ran the candidate's own files to a clean exit (_execute,
\* _check_candidate): whatever requests the daemon serves late, and however
\* many gates there are.
THEOREM Earned == Spec => []AcceptedIsEarned
  <1>1. IInv => AcceptedIsEarned
    BY DEF IInv, VerdictInv, PolicyInv, EntryInv, Clean, AcceptedIsEarned
  <1> QED
    BY <1>1, Invariance, PTL

\* The gate a defect is meant for catches it, and what the policy or the look at
\* the commit refuses never reaches a container (patch_paths, _check_candidate).
THEOREM Caught == Spec => []DefectsCaught
  <1>1. IInv => DefectsCaught
    <2> SUFFICES ASSUME IInv PROVE DefectsCaught
      OBVIOUS
    <2>1. ~(Patch.regular /\ Patch.edits \subseteq Allowed) => ran = {} /\ image = "absent"
      BY DEF IInv, PolicyInv
    <2>2. ASSUME receipt \in {"accepted", "rejected"}, gates # <<>>,
                 Patch.defect \in Required
          PROVE  receipt = "rejected" /\ ~gates[Patch.defect].passed
      <3>1. DOMAIN gates = Required
        BY <2>2 DEF IInv, PolicyInv, VerdictInv
      <3>2. Clean(Patch.defect) \notin ran
        BY DEF IInv, RunInv, Clean
      <3>3. ~gates[Patch.defect].passed
        BY <2>2, <3>1, <3>2 DEF IInv, EntryInv
      <3> QED
        BY <2>2, <3>3 DEF IInv, VerdictInv
    <2> QED
      BY <2>1, <2>2 DEF DefectsCaught
  <1> QED
    BY <1>1, Invariance, PTL

\* Every rejection, exception and leftover of a validation has its reason, and
\* the grader's own verdict is the receipt's (assess, the finally blocks).
THEOREM Explained == Spec => []ValidationInv
  <1>1. IInv => ValidationInv
    <2> SUFFICES ASSUME IInv PROVE ValidationInv
      OBVIOUS
    <2>1. TypeOK
      BY DEF IInv, TypeInv
    <2>2. VerdictExplained
      <3>1. receipt = "error" => ~Patch.regular \/ \E v \in Errors : Wrong(v)
        BY DEF IInv, ExceptionInv
      <3>2. ASSUME receipt = "rejected", ~Refusable
            PROVE  \/ \E v \in {"git_check", "git_apply", "start"} : Wrong(v)
                   \/ \E g \in Required :
                        gates[g].returncode = "timeout" \/ FailedRun(g)
        BY <3>2 DEF IInv, VerdictInv, EntryInv
      <3> QED
        BY <3>1, <3>2 DEF VerdictExplained, Errors, FailedRun
    <2>3. GraderAgrees
      <3>1. receipt = "accepted" => Accepted
        BY DEF IInv, VerdictInv, EntryInv, Accepted
      <3>2. receipt = "rejected" => ~Accepted /\ Rejected
        BY DEF IInv, VerdictInv, Accepted, Rejected
      <3> QED
        BY <3>1, <3>2 DEF GraderAgrees, Valid
    <2>4. LeftoversExplained
      <3>1. ASSUME pc = "done", NEW c \in Containers, containers[c] # "absent"
            PROVE  Blamed(c)
        BY <3>1 DEF IInv, ContainerInv, InUse
      <3>2. ASSUME pc = "done", image # "absent"
            PROVE  Wrong("commit") \/ Wrong("image_rm") \/ \E g \in Required : Blamed(g)
        BY <3>2 DEF IInv, LeftImageInv, Gating
      <3> QED
        BY <3>1, <3>2 DEF LeftoversExplained, Blamed
    <2> QED
      BY <2>1, <2>2, <2>3, <2>4 DEF ValidationInv
  <1> QED
    BY <1>1, Invariance, PTL
=============================================================================

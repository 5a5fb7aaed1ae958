--------------------------- MODULE CodeValidation ---------------------------
(* CodeValidationAdapter of src/agent_reliability/code_validation.py: a       *)
(* candidate patch is applied to a snapshot of the committed files, copied    *)
(* into a disposable image and put through every gate in a container of its   *)
(* own, by a sequence of git and docker commands with cleanup blocks.         *)
(*                                                                            *)
(* The docker daemon is external.  A command whose client fails or is killed  *)
(* by its timeout has a nonzero return code, whatever became of its request:  *)
(* the daemon may have served it, may serve it later, or never sees it.       *)
EXTENDS Integers, FiniteSets, Sequences

CONSTANTS
    Gates,          \* the gates in the order of self.checks (REQUIRED)
    Candidates,     \* the candidates of the cases: a diff, see Policy, over the commit of
                    \* its adapter's repository, see Snapshot
    Allowed,        \* committed files under an allowed prefix
    Unsafe,         \* paths that patch_paths refuses
    MaxMishaps      \* bound: git and docker commands that go wrong in a run

ASSUME ValidationAssumption ==
    /\ Gates \in Seq(STRING) /\ Gates # <<>>
    /\ \A i, j \in DOMAIN Gates : Gates[i] = Gates[j] => i = j
    /\ \A i \in DOMAIN Gates : Gates[i] # "staging"
    /\ \A n \in DOMAIN Candidates :
         /\ Candidates[n].applies \in BOOLEAN /\ Candidates[n].regular \in BOOLEAN
         /\ Candidates[n].defect \in {"none", "any"} \union {Gates[i] : i \in DOMAIN Gates}
    /\ MaxMishaps \in Nat

Required == {Gates[i] : i \in DOMAIN Gates}
Containers == Required \union {"staging"}

VARIABLES
    candidate,      \* the case's candidate, of DOMAIN Candidates
    pc, gate,       \* the next command, and the number of the gate it is for
    raised,         \* an exception is on its way out of the cleanup blocks
    returncode,     \* of the last `docker start --attach`
    policyPassed, gates,        \* the snapshot handed to the grader
    receipt,                    \* "none" before the end, or "error" for an exception
    containers,     \* daemon: the status of each container
    staged, image,  \* daemon: the files in the staging container and in the image
    requests,       \* daemon: requests whose client is gone
    mishaps,        \* history: the commands that went wrong
    ran             \* history: what each gate's container ran and how it ended

host == <<pc, gate, raised, returncode, policyPassed, gates, receipt>>
daemon == <<containers, staged, image, requests>>
history == <<mishaps, ran>>
vars == <<candidate, host, daemon, history>>

Current == Gates[gate]
Patch == Candidates[candidate]

Init ==
    /\ candidate \in DOMAIN Candidates
    /\ pc = "snapshot"
    /\ gate = 0
    /\ raised = FALSE
    /\ returncode = "none"
    /\ policyPassed = FALSE
    /\ gates = <<>>
    /\ receipt = "none"
    /\ containers = [c \in Containers |-> "absent"]
    /\ staged = "base"
    /\ image = "absent"
    /\ requests = {}
    /\ mishaps = {}
    /\ ran = {}

-----------------------------------------------------------------------------
(* The daemon                                                                *)

Request(verb, object) == [verb |-> verb, object |-> object]

\* An image with a container left cannot be removed, and a container that is
\* gone cannot be committed.
Blocked(r) ==
    \/ r.verb = "create" /\ r.object # "staging" /\ image = "absent"
    \/ r.verb = "commit" /\ containers["staging"] = "absent"
    \/ r.verb = "start" /\ containers[r.object] # "created"
    \/ r.verb = "image_rm" /\ \E c \in Required : containers[c] # "absent"

SetContainer(c, status) == containers' = [containers EXCEPT ![c] = status]

\* What a request does to the daemon, if anything.
Serve(r) ==
    IF Blocked(r) THEN UNCHANGED <<containers, staged, image>>
    ELSE /\ CASE r.verb = "create" -> SetContainer(r.object, "created")
              [] r.verb = "start"  -> SetContainer(r.object, "running")
              [] r.verb = "rm"     -> SetContainer(r.object, "absent")
              [] OTHER             -> UNCHANGED containers
         /\ staged' = IF r.verb = "cp" THEN "candidate" ELSE staged
         /\ image' = CASE r.verb = "commit"   -> staged
                       [] r.verb = "image_rm" -> "absent"
                       [] OTHER               -> image

\* A request is served although its client is gone, or dropped.
ServeLate ==
    \E r \in requests :
        /\ requests' = requests \ {r}
        /\ Serve(r) \/ UNCHANGED <<containers, staged, image>>
        /\ UNCHANGED <<candidate, host, history>>

\* What the candidate's files can do to a gate: a known defect fails its gate,
\* and may fail or hang others.
CanExit(c, code) ==
    image = "candidate" =>
        /\ Patch.defect = "none" => code = "zero"
        /\ Patch.defect = c => code = "nonzero"

\* A gate's container ends by itself.  One that hangs never takes this step.
Exit(c, code) ==
    /\ containers[c] = "running"
    /\ CanExit(c, code)
    /\ SetContainer(c, IF code = "zero" THEN "succeeded" ELSE "failed")
    /\ ran' = ran \union {[gate |-> c, files |-> image, code |-> code]}
    /\ UNCHANGED <<candidate, host, staged, image, requests, mishaps>>

-----------------------------------------------------------------------------
(* command()                                                                 *)

\* The command is served and its client returns 0.
Succeed(r) ==
    /\ ~Blocked(r)
    /\ Serve(r)
    /\ UNCHANGED <<requests, mishaps>>

\* Its client fails or is killed by the timeout.
GoWrong(r) ==
    /\ Cardinality(mishaps) < MaxMishaps
    /\ mishaps' = mishaps \union {r}
    /\ \/ Serve(r) /\ UNCHANGED requests
       \/ requests' = requests \union {r} /\ UNCHANGED <<containers, staged, image>>
       \/ UNCHANGED daemon

\* A command on the host, without the daemon: only its return code counts.
HostFails(verb) ==
    /\ Cardinality(mishaps) < MaxMishaps
    /\ mishaps' = mishaps \union {Request(verb, "host")}

\* docker rm --force, whose return code nobody looks at.
Remove(c) == Succeed(Request("rm", c)) \/ GoWrong(Request("rm", c))

Goto(s) == pc' = s
Finish(r) == pc' = "done" /\ receipt' = r

-----------------------------------------------------------------------------
(* The snapshot and the patch policy                                         *)

\* patch_paths.  A diff is abstracted to its lines: file headers with their
\* path, extended headers (renames, modes, binary data) and other text.  A line
\* of a hunk that reads like a header is taken for one.
Headers(lines) == SelectSeq(lines, LAMBDA l : l.kind = "header")

PatchPaths(lines) == {Headers(lines)[i].path : i \in DOMAIN Headers(lines)}

Unpaired(h) ==
    \/ h = <<>> \/ Len(h) % 2 = 1
    \/ \E i \in 1..(Len(h) \div 2) : h[2 * i - 1].path # h[2 * i].path

PathsRefused(lines) ==
    \/ \E i \in DOMAIN lines : lines[i].kind = "extended"
    \/ PatchPaths(lines) \cap Unsafe # {}
    \/ Unpaired(Headers(lines))

\* One step on the host: it may refuse the patch, and its command may fail,
\* which is a rejection or an error.
HostStep(at, refuses, verb, failure, next) ==
    /\ pc = at
    /\ \/ /\ refuses /\ Finish("rejected")
          /\ UNCHANGED <<mishaps, policyPassed>>
       \/ /\ ~refuses /\ Goto(next)
          /\ IF at = "apply_patch" THEN policyPassed' = TRUE ELSE UNCHANGED policyPassed
          /\ UNCHANGED <<receipt, mishaps>>
       \/ /\ ~refuses /\ HostFails(verb) /\ Finish(failure)
          /\ UNCHANGED policyPassed
    /\ UNCHANGED <<candidate, gate, raised, returncode, gates, daemon, ran>>

\* The committed files are read by check_output, which raises.  A commit with
\* anything but regular files (a link, a submodule) raises as well, and outside
\* the block that turns a ValueError into a rejection.
Snapshot ==
    /\ pc = "snapshot"
    /\ \/ Patch.regular /\ Goto("policy") /\ UNCHANGED <<receipt, mishaps>>
       \/ ~Patch.regular /\ Finish("error") /\ UNCHANGED mishaps
       \/ HostFails("git_tree") /\ Finish("error")
    /\ UNCHANGED <<candidate, gate, raised, returncode, policyPassed, gates, daemon, ran>>

\* Seeded bug: only the paths are looked at, not what the prefixes allow.
PolicyAnyFile ==
    HostStep("policy", PathsRefused(Patch.lines), "git_init", "error", "check_patch")

\* patch_paths and the allowed prefixes; then git init.
Policy ==
    HostStep("policy",
             PathsRefused(Patch.lines) \/ ~(PatchPaths(Patch.lines) \subseteq Allowed),
             "git_init", "error", "check_patch")

\* git apply --check: any failure, a timeout included, is a rejection.
CheckPatch ==
    HostStep("check_patch", ~Patch.applies, "git_check", "rejected", "apply_patch")

\* git apply, and the comparison of what it changed with what was declared.
ApplyPatch ==
    HostStep("apply_patch", Patch.edits # PatchPaths(Patch.lines),
             "git_apply", "rejected", "resolve")

\* docker image inspect, by check_output: no docker or no image is an error.
Resolve == HostStep("resolve", FALSE, "image_inspect", "error", "create_staging")

-----------------------------------------------------------------------------
(* The candidate image                                                       *)

stagingVars == <<candidate, gate, returncode, policyPassed, gates, receipt, ran>>

\* One command of the first try block, with the next command if it succeeds.
Stage(at, r, next) ==
    /\ pc = at
    /\ \/ Succeed(r) /\ Goto(next) /\ UNCHANGED raised
       \/ GoWrong(r) /\ Goto("remove_staging") /\ raised' = TRUE
    /\ UNCHANGED stagingVars

\* Seeded bug: the copy's return code is not looked at.
CopyUnchecked ==
    /\ pc = "copy"
    /\ Succeed(Request("cp", "staging")) \/ GoWrong(Request("cp", "staging"))
    /\ Goto("commit")
    /\ UNCHANGED <<stagingVars, raised>>

CreateStaging == Stage("create_staging", Request("create", "staging"), "copy")
Copy == Stage("copy", Request("cp", "staging"), "commit")
CommitImage == Stage("commit", Request("commit", "image"), "remove_staging")

\* The first finally block.
RemoveStaging ==
    /\ pc = "remove_staging"
    /\ Remove("staging")
    /\ IF raised THEN Finish("error") /\ UNCHANGED gate
                 ELSE Goto("create") /\ gate' = 1 /\ UNCHANGED receipt
    /\ UNCHANGED <<candidate, raised, returncode, policyPassed, gates, ran>>

-----------------------------------------------------------------------------
(* _check_candidate                                                          *)

gateVars == <<candidate, gate, policyPassed, receipt, ran>>

CreateGate ==
    LET r == Request("create", Current)
    IN  /\ pc = "create"
        /\ \/ Succeed(r) /\ Goto("start") /\ UNCHANGED raised
           \/ GoWrong(r) /\ Goto("remove") /\ raised' = TRUE
        /\ UNCHANGED <<gateVars, returncode, gates>>

\* docker start --attach is sent; a client that fails here has a return code
\* all the same, and the container's state is inspected.
Start ==
    LET r == Request("start", Current)
    IN  /\ pc = "start"
        /\ \/ Succeed(r) /\ Goto("attached") /\ UNCHANGED returncode
           \/ GoWrong(r) /\ Goto("inspect") /\ returncode' \in {"nonzero", "timeout"}
        /\ UNCHANGED <<gateVars, raised, gates>>

\* Seeded bug: nothing bounds the wait for the container.
AttachedForEver ==
    /\ pc = "attached"
    /\ returncode' = (IF containers[Current] = "succeeded" THEN "zero" ELSE "nonzero")
    /\ containers[Current] # "running"
    /\ Goto("inspect")
    /\ UNCHANGED <<gateVars, raised, gates, daemon, mishaps>>

\* The client returns the container's exit code, or the timeout comes first
\* and the container is left as it is.
Attached ==
    /\ pc = "attached"
    /\ \/ containers[Current] = "succeeded" /\ returncode' = "zero"
       \/ containers[Current] = "failed" /\ returncode' = "nonzero"
       \/ returncode' = "timeout"
    /\ Goto("inspect")
    /\ UNCHANGED <<gateVars, raised, gates, daemon, mishaps>>

\* The ExitCode of a container that has not ended is 0.
ExitCode(status) == IF status = "failed" THEN "nonzero" ELSE "zero"

\* A container that never ran looks as clean as one that succeeded.
LooksClean(status) == status \in {"created", "succeeded"}

\* result["passed"]
Passed(status, code) == code = "zero" /\ LooksClean(status)

\* The gate's entry in the snapshot.
Report(passed, exitCode) ==
    gates' = [g \in DOMAIN gates \union {Current} |->
                IF g = Current
                  THEN [passed |-> passed, returncode |-> returncode, exitCode |-> exitCode]
                  ELSE gates[g]]

\* docker inspect, with what follows when the state is unavailable.
InspectOr(Unavailable) ==
    LET status == containers[Current]
    IN  /\ pc = "inspect"
        /\ \/ /\ Report(Passed(status, returncode), ExitCode(status))
              /\ UNCHANGED <<raised, mishaps>>
           \/ HostFails("inspect") /\ Unavailable
        /\ Goto("remove")
        /\ UNCHANGED <<gateVars, returncode, daemon>>

\* Seeded bug: a gate whose container's state is unavailable has failed.
InspectTolerant == InspectOr(Report(FALSE, "nonzero") /\ UNCHANGED raised)

Inspect == InspectOr(raised' = TRUE /\ UNCHANGED gates)

\* The gate's cleanup, and the next gate unless an exception is on its way.
Leave(Cleanup) ==
    /\ pc = "remove"
    /\ Cleanup
    /\ IF raised \/ gate = Len(Gates)
         THEN Goto("remove_image") /\ UNCHANGED gate
         ELSE Goto("create") /\ gate' = gate + 1
    /\ UNCHANGED <<candidate, raised, returncode, policyPassed, gates, receipt, ran>>

\* The gate's finally block.
RemoveGate == Leave(Remove(Current))

\* The second finally block.  Its failure, a container that still uses the
\* image included, goes unnoticed.
RemoveImage ==
    LET r == Request("image_rm", "image")
        accepted == \A g \in DOMAIN gates : gates[g].passed
    IN  /\ pc = "remove_image"
        /\ \/ Succeed(r)
           \/ Blocked(r) /\ UNCHANGED <<daemon, mishaps>>
           \/ GoWrong(r)
        /\ Finish(IF raised THEN "error" ELSE IF accepted THEN "accepted" ELSE "rejected")
        /\ UNCHANGED <<candidate, gate, raised, returncode, policyPassed, gates, ran>>

Execute ==
    \/ Snapshot \/ Policy \/ CheckPatch \/ ApplyPatch \/ Resolve
    \/ CreateStaging \/ Copy \/ CommitImage \/ RemoveStaging
    \/ CreateGate \/ Start \/ Attached \/ Inspect \/ RemoveGate \/ RemoveImage

Next ==
    \/ Execute
    \/ ServeLate
    \/ \E c \in Required, code \in {"zero", "nonzero"} : Exit(c, code)

Spec == Init /\ [][Next]_vars

\* Every command returns by its timeout.  Nothing is assumed of the daemon or
\* of the containers.
FairSpec == Spec /\ WF_vars(Execute)

-----------------------------------------------------------------------------
(* assess()                                                                  *)

Accepted ==
    /\ policyPassed
    /\ DOMAIN gates = Required
    /\ \A g \in Required : /\ gates[g].passed
                           /\ gates[g].returncode = "zero"
                           /\ gates[g].exitCode = "zero"

Rejected ==
    \/ ~policyPassed /\ receipt = "rejected"
    \/ DOMAIN gates = Required /\ \E g \in Required : ~gates[g].passed

\* checks: receipt_matches_gates and complete_evidence.
Valid ==
    /\ receipt = (IF Accepted THEN "accepted" ELSE "rejected")
    /\ Accepted \/ Rejected

-----------------------------------------------------------------------------
(* Properties                                                                *)

Steps ==
    {"snapshot", "policy", "check_patch", "apply_patch", "resolve", "create_staging",
     "copy", "commit", "remove_staging", "create", "start", "attached", "inspect",
     "remove", "remove_image", "done"}

\* Type correctness of the run, the snapshot, the daemon and the histories.
TypeOK ==
    /\ candidate \in DOMAIN Candidates
    /\ pc \in Steps
    /\ gate \in 0..Len(Gates)
    /\ raised \in BOOLEAN /\ policyPassed \in BOOLEAN
    /\ returncode \in {"none", "zero", "nonzero", "timeout"}
    /\ DOMAIN gates \subseteq Required
    /\ receipt \in {"none", "accepted", "rejected", "error"}
    /\ containers \in [Containers -> {"absent", "created", "running", "succeeded", "failed"}]
    /\ staged \in {"base", "candidate"}
    /\ image \in {"absent", "base", "candidate"}
    /\ Cardinality(mishaps) <= MaxMishaps

Wrong(verb) == \E r \in mishaps : r.verb = verb

\* A candidate is accepted only if its patch changes allowed files alone and
\* every gate ran the candidate's own files to a clean exit and said so in
\* time, whatever the daemon did: neither a container that never started nor
\* an image without the patch can pass (_execute, _check_candidate).
AcceptedIsEarned ==
    receipt = "accepted" =>
        /\ Patch.regular /\ Patch.applies /\ Patch.edits \subseteq Allowed
        /\ \A g \in Required : [gate |-> g, files |-> "candidate", code |-> "zero"] \in ran

\* Every defect is caught by the gate it is meant for, and not only by some
\* other one; what the policy refuses, and a candidate for a commit that is no
\* set of regular files, never reaches a container (code_demo.py, expected_gate
\* and its protected candidate; the check of the tree entries in _execute).
DefectsCaught ==
    /\ (receipt \in {"accepted", "rejected"} /\ gates # <<>> /\ Patch.defect \in Required) =>
         receipt = "rejected" /\ ~gates[Patch.defect].passed
    /\ ~(Patch.regular /\ Patch.edits \subseteq Allowed) => ran = {} /\ image = "absent"

Refusable ==
    \/ PathsRefused(Patch.lines)
    \/ ~(PatchPaths(Patch.lines) \subseteq Allowed)
    \/ ~Patch.applies
    \/ Patch.edits # PatchPaths(Patch.lines)

\* A good candidate fails only for a reason: a rejection means a patch outside
\* the policy, a gate that ended with an error or outran its timeout, or a
\* command of the policy or a start gone wrong; and an exception means that the
\* commit holds more than regular files or that some other command went wrong
\* (docs/code-validation.md: "errors, never passes").
VerdictExplained ==
    /\ receipt = "error" =>
         \/ ~Patch.regular
         \/ \E v \in {"git_tree", "git_init", "image_inspect", "create", "cp", "commit",
                      "inspect"} : Wrong(v)
    /\ (receipt = "rejected" /\ ~Refusable) =>
         \/ \E v \in {"git_check", "git_apply", "start"} : Wrong(v)
         \/ \E g \in Required :
              gates[g].returncode = "timeout" \/ \E r \in ran : r.gate = g /\ r.code # "zero"

\* The grader recomputes the verdict from the recorded gates and always
\* agrees with the receipt of a run that ended without an exception (assess).
GraderAgrees == receipt \in {"accepted", "rejected"} => Valid

\* What stays behind is accounted for: a container only if its own creation
\* or removal went wrong, the image only if its commit or removal did or a
\* gate's container held it (the finally blocks).
LeftoversExplained ==
    pc = "done" =>
        /\ \A c \in Containers :
             containers[c] # "absent" =>
                 Request("create", c) \in mishaps \/ Request("rm", c) \in mishaps
        /\ image # "absent" =>
             \/ Wrong("commit") \/ Wrong("image_rm")
             \/ \E g \in Required : {Request("create", g), Request("rm", g)} \cap mishaps # {}

\* The invariant of a validation: types, and a reason for every verdict, every
\* exception and everything that is left behind.
ValidationInv == TypeOK /\ VerdictExplained /\ GraderAgrees /\ LeftoversExplained

\* A gate that hangs for ever delays the run only by its timeout (command()).
ValidationEnds == <>(pc = "done")

\* docs/code-validation.md, "Execution boundary": "Containers and the
\* temporary image are removed after execution, including failures and
\* timeouts."  Read here for the image, in the runs whose removals all succeeded.
ImageRemovedAfterExecution ==
    (pc = "done" /\ ~Wrong("rm") /\ ~Wrong("image_rm")) => image = "absent"
=============================================================================

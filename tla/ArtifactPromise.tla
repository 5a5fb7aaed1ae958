---------------------------- MODULE ArtifactPromise ----------------------------
(* What an artifact task promises, whoever carries it out and wherever it is   *)
(* stopped: the summary is committed once, the exported file only ever holds   *)
(* the committed content unless somebody damaged it, and the task is recorded  *)
(* as complete only after the file was published.                              *)
EXTENDS Naturals

VARIABLES
    commits,     \* artifact rows ever inserted
    file,        \* "absent", "torn" or "current"
    damaged,     \* the file was tampered with from outside
    complete

promiseVars == <<commits, file, damaged, complete>>

Init ==
    /\ commits = 0
    /\ file = "absent"
    /\ damaged = FALSE
    /\ complete = FALSE

Commit == commits = 0 /\ commits' = 1 /\ UNCHANGED <<file, damaged, complete>>

Publish == commits = 1 /\ file' = "current" /\ UNCHANGED <<commits, damaged, complete>>

Damage ==
    /\ file' \in {"absent", "torn"}
    /\ damaged' = TRUE
    /\ UNCHANGED <<commits, complete>>

Complete ==
    /\ commits = 1
    /\ file = "current" \/ damaged
    /\ complete' = TRUE
    /\ UNCHANGED <<commits, file, damaged>>

Next == Commit \/ Publish \/ Damage \/ Complete

Spec == Init /\ [][Next]_promiseVars
=============================================================================

----------------------------- MODULE ArtifactStore -----------------------------
(* The business state of src/agent_reliability/artifacts.py, shared by the     *)
(* plain workflow (ArtifactWorkflow) and the LangGraph one (LangGraphRun): the *)
(* one artifact row with its commit event, and the exported summary.json.      *)
(* RECORDS is a constant of the program, so there is one content and commit()  *)
(* never sees another under its key.                                           *)
EXTENDS Integers, FiniteSets, Sequences
LOCAL INSTANCE FiniteSetsExt

VARIABLES
    artifact,    \* the row 'summary' exists
    commits,     \* artifact_committed events
    file,        \* summary.json: "absent", "torn" or "current"
    temps,       \* .export-* files in the directory
    damages      \* times somebody removed or truncated summary.json

storeVars == <<artifact, commits, file, temps, damages>>

StoreInit ==
    /\ artifact = FALSE
    /\ commits = 0
    /\ file = "absent"
    /\ temps = 0
    /\ damages = 0

\* Seeded bug: the prior row is not looked up.
CommitArtifactAgain ==
    /\ artifact' = TRUE
    /\ commits' = commits + 1
    /\ UNCHANGED <<file, temps, damages>>

\* commit(): the row and its event in one transaction, once.
CommitArtifact ==
    /\ artifact' = TRUE
    /\ commits' = IF artifact THEN commits ELSE commits + 1
    /\ UNCHANGED <<file, temps, damages>>

\* export(): the file is there, and it holds the committed bytes.
Exists == file # "absent"
Materialized == file = "current"

\* Seeded bug: the content is written into summary.json itself.
OpenTemporaryInPlace ==
    /\ file' = "torn"
    /\ temps' = temps + 1
    /\ UNCHANGED <<artifact, commits, damages>>

\* mkstemp in the same directory, and the write up to fsync.
OpenTemporary ==
    /\ temps' = temps + 1
    /\ UNCHANGED <<artifact, commits, file, damages>>

\* os.replace(temporary, target)
ReplaceTarget ==
    /\ file' = "current"
    /\ temps' = temps - 1
    /\ UNCHANGED <<artifact, commits, damages>>

\* Seeded bug: no `finally` around the write.
KeepTemporary == UNCHANGED storeVars

\* An OSError on the way: the `finally` block unlinks the temporary file.
DropTemporary ==
    /\ temps' = temps - 1
    /\ UNCHANGED <<artifact, commits, file, damages>>

\* The missing or partial file that export() is written to reconcile.
DamageFile ==
    /\ file # "absent"
    /\ file' \in {"absent", "torn"} \ {file}
    /\ damages' = damages + 1
    /\ UNCHANGED <<artifact, commits, temps>>

\* Injections that struck when the artifact was already committed.
LateFaults(schedule, injections) ==
    {k \in DOMAIN injections :
        LET r == schedule[injections[k].rule]
        IN  \/ r.tool = "export_artifact"
            \/ r.tool = "commit_artifact" /\ r.phase = "after"}

-----------------------------------------------------------------------------
(* How a task is operated, with the bounds of its exploration: its          *)
(* schedules, how a run may have ended when the task is started again, the     *)
(* runs there are, kills, tampering with summary.json and failed writes.       *)

Ended == {"complete", "failed", "interrupted", "error", "killed"}

IsSetting(s) ==
    /\ s.rerun \subseteq Ended
    /\ {s.runs, s.crashes, s.damages, s.errors} \subseteq Nat

\* There are runs left for whatever may stop one.
Patient(s, schedule) ==
    /\ {"failed", "interrupted", "error", "killed"} \subseteq s.rerun
    /\ MapThenSumSet(LAMBDA i : schedule[i].repeat, DOMAIN schedule)
         + s.crashes + s.errors + s.damages < s.runs

StoreTypeOK ==
    /\ artifact \in BOOLEAN
    /\ commits \in Nat
    /\ file \in {"absent", "torn", "current"}
    /\ temps \in Nat
    /\ damages \in Nat
=============================================================================

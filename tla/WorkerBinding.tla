---------------------------- MODULE WorkerBinding ----------------------------
(* How the `worker` command of src/agent_reliability/cli.py ties a database to *)
(* one scenario and mode: it reads worker_config, compares, and writes it in a  *)
(* transaction of its own, unlike FaultEngine and ArtifactStore.bind, which     *)
(* compare and insert under one lock.                                           *)
EXTENDS Naturals, FiniteSets

CONSTANTS
    Workers,
    Configs,      \* scenario and mode a worker is started with
    NoConfig,     \* worker_config is not set
    MaxStarts     \* bound: processes started over a behaviour

VARIABLES
    stored,       \* the worker_config row
    pc,           \* "down", "starting", "read", "running", "refused"
    config,       \* what each process was started with
    prior,        \* what it read
    admitted,     \* configurations of every process that got to run
    starts

vars == <<stored, pc, config, prior, admitted, starts>>

Goto(w, s) == pc' = [pc EXCEPT ![w] = s]

Init ==
    /\ stored = NoConfig
    /\ pc = [w \in Workers |-> "down"]
    /\ config = [w \in Workers |-> NoConfig]
    /\ prior = [w \in Workers |-> NoConfig]
    /\ admitted = {}
    /\ starts = 0

\* A process is launched with its arguments.
Launch(w) ==
    /\ pc[w] = "down"
    /\ starts < MaxStarts
    /\ config' \in {[config EXCEPT ![w] = c] : c \in Configs}
    /\ starts' = starts + 1
    /\ Goto(w, "starting")
    /\ UNCHANGED <<stored, prior, admitted>>

\* prior = store.get("worker_config")
ReadConfig(w) ==
    /\ pc[w] = "starting"
    /\ prior' = [prior EXCEPT ![w] = stored]
    /\ Goto(w, "read")
    /\ UNCHANGED <<stored, config, admitted, starts>>

\* Refuse a different configuration, else store.set("worker_config", binding)
\* and run.
WriteConfig(w) ==
    /\ pc[w] = "read"
    /\ IF prior[w] \notin {NoConfig, config[w]}
         THEN Goto(w, "refused") /\ UNCHANGED <<stored, admitted>>
         ELSE /\ Goto(w, "running")
              /\ stored' = config[w]
              /\ admitted' = admitted \union {config[w]}
    /\ UNCHANGED <<config, prior, starts>>

\* The process ends, or is killed at any point.
End(w) ==
    /\ pc[w] # "down"
    /\ Goto(w, "down")
    /\ UNCHANGED <<stored, config, prior, admitted, starts>>

Next == \E w \in Workers : Launch(w) \/ ReadConfig(w) \/ WriteConfig(w) \/ End(w)

Spec == Init /\ [][Next]_vars

\* Reusing a database with a different scenario or mode is rejected: every
\* process that ever got to run over it was started with one configuration
\* (docs/refunds.md; the comparison in worker()).
OneConfiguration == Cardinality(admitted) <= 1
=============================================================================

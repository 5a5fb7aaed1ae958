--------------------------- MODULE MCWorkerBinding ---------------------------
(* Three workers and two configurations, launched one after the other or at   *)
(* the same time.                                                             *)
EXTENDS WorkerBinding

CONSTANTS w1, w2, w3, guarded, baseline, none
=============================================================================

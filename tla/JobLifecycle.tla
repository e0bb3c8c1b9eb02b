---------------------------- MODULE JobLifecycle ----------------------------
(***************************************************************************)
(* What the status of a job promises to those who watch it: it moves       *)
(* forward through the stages, may skip some, and ends in an outcome that  *)
(* it never leaves.                                                        *)
(***************************************************************************)
EXTENDS Naturals

VARIABLE job

Order == [submitted |-> 0, starting |-> 1, workers |-> 2, frontend |-> 3,
          benchmark |-> 4, completed |-> 5, failed |-> 5]
Outcome == {"completed", "failed"}

LInit == job \in {"submitted", "starting"}

Advance ==
    /\ job' \in DOMAIN Order
    /\ Order[job] < Order[job']

(* A job succeeds only out of its benchmark.                               *)
OnlyBenchmarkCompletes == job' = "completed" => job = "benchmark"

LNext == Advance /\ OnlyBenchmarkCompletes

LSpec == LInit /\ [][LNext]_job
=============================================================================

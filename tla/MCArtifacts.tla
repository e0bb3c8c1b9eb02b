------------------------------ MODULE MCArtifacts ------------------------------
(* Artifacts with one worker of two data-parallel ranks that have one name,    *)
(* so that the handle of the first is lost, and one of a single process; four *)
(* environments that differ in one respect each, and a re-run.                *)
EXTENDS Artifacts

CONSTANTS t1, t2, t3

MCScalars == {"os", "cuda_version", "nccl_version", "python_version"}
MCLower == [x \in {"torch", "Torch", "vllm", "numpy"} |-> IF x = "Torch" THEN "torch" ELSE x]
MCRecipes == {<<"key", "blank", "key", "banner">>}
MCVariants == {"a", "b"}
MCTasks == {t1, t2, t3}
MCWorkerOf == t1 :> 1 @@ t2 :> 1 @@ t3 :> 2
MCServes == {t1, t2, t3}
MCReplaced == {t1}
\* Before the lock is written and after it.
MCLateAt == {"copy", "compare"}
MCCuts == {10}
MCCaptures == <<{[env |-> "plain", failing |-> {}], [env |-> "build", failing |-> {}]},
                {[env |-> "model", failing |-> {"pip"}]}>>

Line(n, v) == [name |-> n, version |-> v]

\* The virtual environment and the system list torch in different versions and
\* spellings; only the virtual environment has vllm, and its torch another NCCL.
Plain ==
    [ scalar |-> [os |-> "ubuntu", cuda_version |-> [release |-> "12.8", build |-> "12.8.61"]],
      python |-> [worker |-> [scalar |-> [nccl_version |-> "2.21", python_version |-> "3.12"],
                              frameworks |-> [vllm |-> "0.9"]],
                  srtctl |-> [scalar |-> [nccl_version |-> "2.26", python_version |-> "3.12"],
                              frameworks |-> << >>]],
      gpus |-> <<[name |-> "H100", driver |-> "550"], [name |-> "H100", driver |-> "550"]>>,
      vars |-> [NCCL_DEBUG |-> "INFO"],
      model |-> [repo |-> "none", id |-> "m", revision |-> "c1"],
      pip |-> [venv |-> <<Line("Torch", "2.6"), Line("vllm", "0.9")>>,
               python3 |-> <<Line("torch", "2.7")>>, pip |-> <<Line("numpy", "1")>>, uv |-> << >>] ]
OtherBuild == [Plain EXCEPT !.scalar.cuda_version.build = "12.8.93"]
OtherTorch == [Plain EXCEPT !.pip.python3 = <<Line("torch", "2.8"), Line("numpy", "2")>>]
OtherModel == [Plain EXCEPT !.model.id = "none", !.vars = << >>, !.gpus = << >>]

MCEnvironments == [plain |-> Plain, build |-> OtherBuild, torch |-> OtherTorch, model |-> OtherModel]
MCIdentity == [repo |-> "m", commit |-> "c1", length |-> 8, image |-> "img",
               frameworks |-> [vllm |-> "0.9", sglang |-> "0.4"]]
================================================================================

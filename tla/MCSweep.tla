------------------------------- MODULE MCSweep -------------------------------
(* One handle for the infrastructure, two workers, one frontend; the       *)
(* configurations choose the rest.                                         *)
EXTENDS Sweep, TLC

CONSTANTS infra, worker1, worker2, frontend, exporter, bench, download,
          nInfra, nWorker1, nWorker2, nFrontend, nExporter, nOther

MCThread == {"main", "monitor"}
MCProc == {infra, worker1, worker2, frontend, exporter, bench, download}
MCName == {nInfra, nWorker1, nWorker2, nFrontend, nExporter, nOther}

(* Distinct names, as sglang and trtllm give them.                         *)
DistinctNames ==
    infra :> nInfra @@ worker1 :> nWorker1 @@ worker2 :> nWorker2 @@ frontend :> nFrontend
    @@ exporter :> nExporter @@ bench :> nOther @@ download :> nOther
=============================================================================

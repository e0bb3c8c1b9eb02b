----------------------------- MODULE MCPlacement -----------------------------
(* Every resources block over small numbers of nodes, workers and GPUs: a  *)
(* disaggregated topology, an aggregated one, or fields of both; and one   *)
(* with more than a hundred processes.                                     *)
EXTENDS Frontends, TLC

CONSTANTS
    GpuCounts, NodeCounts, WorkerCounts, ExplicitCounts, DataParallel

PerMode(prefill, decode, agg) == "prefill" :> prefill @@ "decode" :> decode @@ "agg" :> agg

Block(gpus, nodes, workersOf, explicit, launch) ==
    [gpus_per_node |-> gpus, nodes |-> nodes, workers |-> workersOf,
     explicit |-> explicit, dp |-> launch.dp, mpi |-> launch.mpi]

(* One srun per process, one per GPU in data-parallel modes, or one per    *)
(* endpoint.                                                               *)
Launches == [dp : DataParallel, mpi : {FALSE}] \cup {[dp |-> {}, mpi |-> TRUE]}

DisaggregatedBlocks ==
    {Block(gpus, PerMode(pn, dn, None), PerMode(pw, dw, None), PerMode(pg, dg, None), launch) :
        gpus \in GpuCounts, pn, dn \in NodeCounts, pw, dw \in WorkerCounts,
        pg, dg \in ExplicitCounts, launch \in Launches}

AggregatedBlocks ==
    {Block(gpus, PerMode(None, None, n), PerMode(None, None, w), PerMode(None, None, g), launch) :
        gpus \in GpuCounts, n \in NodeCounts, w \in WorkerCounts, g \in ExplicitCounts,
        launch \in Launches}

MixedBlocks ==
    {Block(4, PerMode(1, 1, n), PerMode(pw, dw, aw), PerMode(g, g, g),
           [dp |-> {}, mpi |-> FALSE]) : n, pw, dw, aw \in {None, 1, 2}, g \in {None, 1}}

(* A data-parallel worker on each of thirteen nodes of eight GPUs.         *)
LargeBlock ==
    Block(8, PerMode(None, None, 13), PerMode(None, None, 13), PerMode(None, None, None),
          [dp |-> {"agg"}, mpi |-> FALSE])

MCResources == DisaggregatedBlocks \cup AggregatedBlocks \cup MixedBlocks \cup {LargeBlock}

ALayout(frontend, backend, multiple, additional, kvbm) ==
    [frontend |-> frontend, backend |-> backend, multiple |-> multiple, additional |-> additional,
     dedicated |-> FALSE, kvbm |-> kvbm, dcgm |-> 9400, node_exporter |-> 9100]

MCLayouts ==
    {ALayout("sglang", "sglang", TRUE, 1, FALSE), ALayout("sglang", "sglang", FALSE, 9, FALSE),
     ALayout("dynamo", "sglang", TRUE, 0, FALSE), ALayout("dynamo", "vllm", TRUE, 12, TRUE),
     ALayout("dynamo", "trtllm", TRUE, 9, TRUE)}
=============================================================================

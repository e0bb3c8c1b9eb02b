------------------------------ MODULE Placement ------------------------------
(***************************************************************************)
(* Which GPUs, ports and names the workers of a run are given              *)
(* (core/topology.py, the resources block of core/schema.py, the vLLM      *)
(* backend's one process per GPU, start_all_workers).                      *)
(*                                                                         *)
(* A resources block that validate_topology() accepts is submitted; on the *)
(* nodes Slurm grants, allocate_endpoints() places the workers one by one, *)
(* mode by mode, endpoints_to_processes() gives ports to each endpoint's   *)
(* processes, and start_all_workers() starts them and keeps the handles by *)
(* name.  A worker that finds no node left ends the run.                   *)
(***************************************************************************)
EXTENDS Integers, Sequences, FiniteSets

CONSTANTS
    None,       \* a field the resources block leaves out
    Resources   \* the resources blocks submitted

Modes == {"prefill", "decode", "agg"}

(* nodes, workers and explicit hold the fields prefill_nodes, decode_nodes,*)
(* agg_nodes and so on; explicit is gpus_per_prefill and its like; dp is   *)
(* the set of modes whose vLLM configuration sets data-parallel-size, and  *)
(* mpi says that the backend starts one srun per endpoint (TRT-LLM).       *)
ResourceConfig ==
    [gpus_per_node : Nat \ {0}, nodes : [Modes -> Nat \cup {None}],
     workers : [Modes -> Nat \cup {None}], explicit : [Modes -> Nat \cup {None}],
     dp : SUBSET Modes, mpi : BOOLEAN]

ASSUME ResourcesAssumption ==
    /\ None \notin Nat
    /\ Resources \subseteq ResourceConfig
    /\ \A r \in Resources : r.mpi => r.dp = {}

Or0(x) == IF x = None THEN 0 ELSE x

-----------------------------------------------------------------------------
(* The resources block.                                                    *)

Disaggregated == {"prefill", "decode"}

Workers(r, m) == Or0(r.workers[m])

(* A mode's own size: given, or its nodes' GPUs shared out evenly, rounded *)
(* down, or a node.                                                        *)
OwnGpus(r, m) ==
    IF r.explicit[m] # None THEN r.explicit[m]
    ELSE IF Or0(r.nodes[m]) > 0 /\ Workers(r, m) > 0
         THEN (r.nodes[m] * r.gpus_per_node) \div Workers(r, m)
         ELSE r.gpus_per_node

(* decode_nodes = 0 makes a decode worker as large as a prefill worker.    *)
GpusPerWorker(r, m) ==
    IF m = "decode" /\ r.explicit[m] = None /\ r.nodes[m] = 0 /\ Workers(r, m) > 0
    THEN OwnGpus(r, "prefill")
    ELSE OwnGpus(r, m)

TotalNodes(r) ==
    IF \E m \in Disaggregated : r.nodes[m] # None
    THEN Or0(r.nodes["prefill"]) + Or0(r.nodes["decode"])
    ELSE IF Or0(r.nodes["agg"]) = 0 THEN 1 ELSE r.nodes["agg"]

Uses(r, ms) == \E m \in ms : r.nodes[m] # None \/ r.workers[m] # None

(* Mutant of Valid: the two topologies are not kept apart.                 *)
ValidEvenMixed(r) ==
    \A m \in Modes : Uses(r, {m}) => Workers(r, m) > 0

(* What validate_topology() lets through.                                  *)
Valid(r) ==
    \/ /\ Uses(r, Disaggregated) /\ ~Uses(r, {"agg"})
       /\ \A m \in Disaggregated : Workers(r, m) > 0
    \/ /\ Uses(r, {"agg"}) /\ ~Uses(r, Disaggregated)
       /\ Workers(r, "agg") > 0 /\ Or0(r.nodes["agg"]) > 0

-----------------------------------------------------------------------------
VARIABLES
    res,            \* the resources block of this run
    stage,          \* the mode being placed, then "ports", "start", "running"; or "failed"
    index,          \* how many workers, endpoints or processes the stage has dealt with
    node_idx,       \* the worker node the allocator has reached
    gpu_offset,     \* and the first GPU of it not given out
    endpoints,      \* the endpoints placed, in order
    http_ports,     \* NodePortAllocator._http_ports: the next port of each node
    bootstrap_ports,
    processes,      \* the processes of the endpoints, in order
    workers         \* start_all_workers(): the process kept under each name

pvars == <<res, stage, index, node_idx, gpu_offset, endpoints, http_ports,
           bootstrap_ports, processes, workers>>
allocator == <<http_ports, bootstrap_ports, processes, workers>>

(* The nodes are numbered in allocation order.  A dedicated infrastructure *)
(* node is asked for on top of these and is none of the worker nodes.      *)
NodeCount == TotalNodes(res)
Node == 0 .. NodeCount - 1
G == res.gpus_per_node

Init ==
    /\ res \in {r \in Resources : Valid(r) /\ TotalNodes(r) > 0}
    /\ stage = "prefill"
    /\ index = 0
    /\ node_idx = 0
    /\ gpu_offset = 0
    /\ endpoints = <<>>
    /\ http_ports = [n \in Node |-> 30000]
    /\ bootstrap_ports = [n \in Node |-> 31000]
    /\ processes = <<>>
    /\ workers = {}

-----------------------------------------------------------------------------
(* allocate_endpoints().                                                   *)

Placing == stage \in Modes /\ index < Workers(res, stage)
WholeNodes(m) == GpusPerWorker(res, m) >= G
NodesPerWorker(m) == (GpusPerWorker(res, m) + G - 1) \div G

(* Mutant of NextSlot: a worker that fits exactly moves on as well.        *)
NextSlotEarly(m) ==
    IF gpu_offset + GpusPerWorker(res, m) >= G
    THEN [node |-> node_idx + 1, gpu |-> 0]
    ELSE [node |-> node_idx, gpu |-> gpu_offset]

(* A worker smaller than a node that no longer fits moves to the next one. *)
NextSlot(m) ==
    IF gpu_offset + GpusPerWorker(res, m) > G
    THEN [node |-> node_idx + 1, gpu |-> 0]
    ELSE [node |-> node_idx, gpu |-> gpu_offset]

Endpoint(nodes, gpus) ==
    [mode |-> stage, index |-> index, nodes |-> nodes, gpus |-> gpus]

PlaceWholeNodes ==
    /\ Placing /\ WholeNodes(stage)
    /\ node_idx + NodesPerWorker(stage) <= NodeCount
    /\ endpoints' = Append(endpoints,
           Endpoint([j \in 1 .. NodesPerWorker(stage) |-> node_idx + j - 1], 0 .. G - 1))
    /\ node_idx' = node_idx + NodesPerWorker(stage)
    /\ index' = index + 1
    /\ UNCHANGED <<res, stage, gpu_offset, allocator>>

PlacePartOfNode ==
    /\ Placing /\ ~WholeNodes(stage)
    /\ LET at == NextSlot(stage)
           end == at.gpu + GpusPerWorker(res, stage)
       IN  /\ at.node < NodeCount
           /\ endpoints' = Append(endpoints, Endpoint(<<at.node>>, at.gpu .. end - 1))
           /\ node_idx' = IF end >= G THEN at.node + 1 ELSE at.node
           /\ gpu_offset' = IF end >= G THEN 0 ELSE end
    /\ index' = index + 1
    /\ UNCHANGED <<res, stage, allocator>>

(* available_nodes[...] raises IndexError.                                 *)
OutOfNodes ==
    /\ Placing
    /\ IF WholeNodes(stage) THEN node_idx + NodesPerWorker(stage) > NodeCount
                            ELSE NextSlot(stage).node >= NodeCount
    /\ stage' = "failed"
    /\ UNCHANGED <<res, index, node_idx, gpu_offset, endpoints, allocator>>

(* Mutant of LeaveNode: decode starts where prefill stopped.               *)
NeverLeaveNode(next) == FALSE

(* Between prefill and decode a partly used node is left, if one remains.  *)
LeaveNode(next) ==
    /\ next = "decode" /\ Workers(res, "decode") > 0
    /\ gpu_offset > 0 /\ node_idx + 1 < NodeCount

StageAfter(m) ==
    IF m = "prefill" THEN "decode" ELSE IF m = "decode" THEN "agg" ELSE "ports"

ModePlaced ==
    /\ stage \in Modes /\ index = Workers(res, stage)
    /\ stage' = StageAfter(stage)
    /\ index' = 0
    /\ node_idx' = IF LeaveNode(stage') THEN node_idx + 1 ELSE node_idx
    /\ gpu_offset' = IF LeaveNode(stage') THEN 0 ELSE gpu_offset
    /\ UNCHANGED <<res, endpoints, allocator>>

-----------------------------------------------------------------------------
(* endpoints_to_processes(): one process per node of an endpoint, or, in a *)
(* data-parallel mode, one per GPU.                                        *)

Lowest(S) == CHOOSE g \in S : \A h \in S : g <= h

Slots(e) ==
    LET size == Cardinality(e.gpus)
    IN  IF e.mode \in res.dp
        THEN [k \in 1 .. Len(e.nodes) * size |->
                 [node |-> e.nodes[(k - 1) \div size + 1],
                  gpus |-> {Lowest(e.gpus) + ((k - 1) % size)}]]
        ELSE [k \in 1 .. Len(e.nodes) |-> [node |-> e.nodes[k], gpus |-> e.gpus]]

AnyDataParallel == \E i \in DOMAIN endpoints : endpoints[i].mode \in res.dp

(* The port a process is given for prefill/decode coordination: that of    *)
(* its endpoint's leader; the vLLM backend gives it to the leader only.    *)
BootstrapPort(e, rank) ==
    IF e.mode = "prefill" /\ (rank = 0 \/ ~AnyDataParallel)
    THEN bootstrap_ports[e.nodes[1]] ELSE None

(* count is how many processes came before: the sys, kv_events and nixl    *)
(* counters are one for all nodes and each process takes one of each.      *)
Process(e, slot, rank, count) ==
    [node |-> slot.node, gpus |-> slot.gpus, mode |-> e.mode, index |-> e.index,
     rank |-> rank, http |-> IF rank = 0 THEN http_ports[slot.node] ELSE 0,
     bootstrap |-> BootstrapPort(e, rank),
     sys |-> 8081 + count, kv_events |-> 5550 + count, nixl |-> 6550 + count]

AssignPorts ==
    /\ stage = "ports" /\ index < Len(endpoints)
    /\ LET e == endpoints[index + 1]
           s == Slots(e)
           leader == e.nodes[1]
       IN  /\ processes' = processes \o
                  [k \in DOMAIN s |-> Process(e, s[k], k - 1, Len(processes) + k - 1)]
           /\ http_ports' = IF Len(s) = 0 THEN http_ports
                            ELSE [http_ports EXCEPT ![leader] = @ + 1000]
           /\ bootstrap_ports' = IF Len(s) = 0 \/ e.mode # "prefill" THEN bootstrap_ports
                                 ELSE [bootstrap_ports EXCEPT ![leader] = @ + 1]
    /\ index' = index + 1
    /\ UNCHANGED <<res, stage, node_idx, gpu_offset, endpoints, workers>>

PortsAssigned ==
    /\ stage = "ports" /\ index = Len(endpoints)
    /\ stage' = "start" /\ index' = 0
    /\ UNCHANGED <<res, node_idx, gpu_offset, endpoints, allocator>>

-----------------------------------------------------------------------------
(* start_all_workers(): one srun per process, or one per endpoint; the     *)
(* handles go into a dict by name.                                         *)
WorkerName(p) == <<p.mode, p.index, p.node>>

StartWorker ==
    /\ stage = "start" /\ index < Len(processes)
    /\ LET p == processes[index + 1]
       IN  workers' = IF res.mpi /\ p.rank # 0 THEN workers
                      ELSE {w \in workers : w.name # WorkerName(p)}
                           \cup {[name |-> WorkerName(p), process |-> index + 1]}
    /\ index' = index + 1
    /\ UNCHANGED <<res, stage, node_idx, gpu_offset, endpoints, http_ports,
                   bootstrap_ports, processes>>

WorkersStarted ==
    /\ stage = "start" /\ index = Len(processes)
    /\ stage' = "running"
    /\ UNCHANGED <<res, index, node_idx, gpu_offset, endpoints, allocator>>

Ended == stage \in {"running", "failed"} /\ UNCHANGED pvars

Next ==
    \/ PlaceWholeNodes \/ PlacePartOfNode \/ OutOfNodes \/ ModePlaced
    \/ AssignPorts \/ PortsAssigned
    \/ StartWorker \/ WorkersStarted
    \/ Ended

Spec == Init /\ [][Next]_pvars

-----------------------------------------------------------------------------
EndpointType ==
    [mode : Modes, index : Nat, nodes : Seq(Node), gpus : SUBSET (0 .. G - 1)]

(* Every endpoint is on GPUs and nodes that exist, and the allocator's     *)
(* cursor stays within them.                                               *)
TypeOK ==
    /\ res \in ResourceConfig
    /\ stage \in Modes \cup {"ports", "start", "running", "failed"}
    /\ index \in Nat
    /\ node_idx \in 0 .. NodeCount
    /\ gpu_offset \in 0 .. G - 1
    /\ endpoints \in Seq(EndpointType)
    /\ http_ports \in [Node -> Nat]
    /\ bootstrap_ports \in [Node -> Nat]

Overlap(e, f) ==
    {n \in Node : /\ \E i \in DOMAIN e.nodes : e.nodes[i] = n
                  /\ \E j \in DOMAIN f.nodes : f.nodes[j] = n
                  /\ e.gpus \cap f.gpus # {}}

(* Two endpoints are given one GPU in one case only: prefill workers       *)
(* smaller than a node have spilled onto the last node, and a decode       *)
(* worker that takes whole nodes is placed there as well.                  *)
SharedGpuOnlyOnLastNode ==
    \A i, j \in DOMAIN endpoints : \A n \in Overlap(endpoints[i], endpoints[j]) :
        i < j => /\ n = NodeCount - 1
                 /\ endpoints[i].mode = "prefill" /\ ~WholeNodes("prefill")
                 /\ endpoints[j].mode = "decode" /\ WholeNodes("decode")

EvenSplit(m) ==
    LET size == GpusPerWorker(res, m)
    IN  /\ res.explicit[m] = None /\ Or0(res.nodes[m]) > 0
        /\ (res.nodes[m] * G) % Workers(res, m) = 0
        /\ size > 0 /\ (G % size = 0 \/ size % G = 0)

(* When the GPUs of a mode's nodes divide evenly among its workers, every  *)
(* worker is placed, and on the nodes its mode asked for.                  *)
EvenSplitPlaced ==
    (\A m \in Modes : Workers(res, m) > 0 => EvenSplit(m)) =>
        /\ stage # "failed"
        /\ \A i \in DOMAIN endpoints : \A k \in DOMAIN endpoints[i].nodes :
               LET own == endpoints[i].nodes[k] < Or0(res.nodes["prefill"])
               IN  endpoints[i].mode = "prefill" <=> own

Leaders(ms) ==
    Cardinality({i \in DOMAIN processes : processes[i].rank = 0 /\ processes[i].mode \in ms})

(* What run_benchmark() waits for, aggregated workers counted as decode.   *)
ExpectedPrefill == IF Workers(res, "agg") > 0 THEN 0 ELSE Workers(res, "prefill")
ExpectedDecode == IF Workers(res, "agg") > 0 THEN Workers(res, "agg") ELSE Workers(res, "decode")

(* Every worker is accounted for.  The health check waits for exactly the  *)
(* leaders that serve, neither for one that was not started nor for fewer  *)
(* than were, unless the workers of a mode come out with no GPU at all;    *)
(* and outside data-parallel modes every process is kept, and so watched,  *)
(* under a name of its own, or its leader's when an endpoint is one srun.  *)
EveryWorkerAccountedFor ==
    /\ (/\ stage \in {"start", "running"}
        /\ \A m \in Modes : Workers(res, m) > 0 => GpusPerWorker(res, m) > 0)
       => /\ Leaders({"prefill"}) = ExpectedPrefill
          /\ Leaders({"decode", "agg"}) = ExpectedDecode
    /\ (stage = "running" /\ res.dp = {}) =>
          \A i \in DOMAIN processes :
              (res.mpi => processes[i].rank = 0) => \E w \in workers : w.process = i
=============================================================================

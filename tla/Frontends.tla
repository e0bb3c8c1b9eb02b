------------------------------ MODULE Frontends ------------------------------
(***************************************************************************)
(* The network of a run: what listens on which port of which node once     *)
(* the workers of Placement, the frontends, nginx, the infrastructure and  *)
(* the exporters are up, and which of these addresses the routers, nginx,  *)
(* the profiler and the telemetry scraper are given.                       *)
(*                                                                         *)
(* All of it is computed from the placed processes and the rest of the     *)
(* recipe, here a layout, so it is a set of operators over the state of    *)
(* Placement.  Node 0 is the head node.                                    *)
(***************************************************************************)
EXTENDS Placement, FiniteSetsExt

CONSTANT Layouts    \* the recipe fields beyond resources that matter here

Layout ==
    [frontend : {"dynamo", "sglang"}, backend : {"sglang", "vllm", "trtllm"},
     multiple : BOOLEAN,     \* enable_multiple_frontends
     additional : Nat,       \* num_additional_frontends
     dedicated : BOOLEAN,    \* etcd_nats_dedicated_node
     kvbm : BOOLEAN,         \* DYN_CONNECTOR is kvbm
     dcgm : Nat, node_exporter : Nat]   \* telemetry is enabled

(* The SGLang router talks to SGLang servers only.                         *)
ASSUME LayoutAssumption ==
    /\ Layouts \subseteq Layout
    /\ \A l \in Layouts : l.frontend = "sglang" => l.backend = "sglang"

(* The layouts that a resources block can come with.                       *)
Fits(l) == /\ (l.backend = "trtllm") = res.mpi
           /\ res.dp # {} => l.backend = "vllm"

-----------------------------------------------------------------------------
(* Frontends and nginx.                                                    *)

(* _compute_frontend_topology().                                           *)
Topology(l) ==
    IF NodeCount = 1 \/ ~l.multiple
    THEN [nginx |-> None, nodes |-> <<0>>, port |-> 8000]
    ELSE [nginx |-> 0, nodes |-> [i \in 1 .. Min({l.additional + 1, NodeCount - 1}) |-> i],
          port |-> 8180]

PublicPort == 8000

(* Mutant of Upstreams: nginx is told the public port.                     *)
UpstreamsPublic(l) == {<<n, PublicPort>> : n \in Range(Topology(l).nodes)}

Upstreams(l) ==
    IF Topology(l).nginx = None THEN {}
    ELSE {<<Topology(l).nodes[i], Topology(l).port>> : i \in DOMAIN Topology(l).nodes}

-----------------------------------------------------------------------------
(* Who listens where.                                                      *)

Socket(node, port, use, of) == [node |-> node, port |-> port, use |-> use, of |-> of]

(* With TRT-LLM the other processes of an endpoint are tasks of the        *)
(* leader's srun.                                                          *)
Started(i) == ~res.mpi \/ processes[i].rank = 0

LeaderSet == {i \in DOMAIN processes : processes[i].rank = 0}

When(condition, socket) == IF condition THEN {socket} ELSE {}

EndpointNodes(i) == {processes[j].node : j \in {k \in DOMAIN processes :
                        /\ processes[k].mode = processes[i].mode
                        /\ processes[k].index = processes[i].index}}

(* An SGLang server: the leader's HTTP port, the bootstrap port behind the *)
(* SGLang router, and where the processes of an endpoint find each other.  *)
SglangSockets(l, i) ==
    LET p == processes[i]
        leader == p.rank = 0
    IN  IF l.backend # "sglang" THEN {}
        ELSE When(leader, Socket(p.node, p.http, "http", i))
             \cup When(l.frontend = "sglang" /\ p.mode = "prefill" /\ leader /\ p.bootstrap # None,
                       Socket(p.node, p.bootstrap, "bootstrap", i))
             \cup When(leader /\ Cardinality(EndpointNodes(i)) > 1,
                       Socket(p.node, 29500, "dist_init", i))
             \cup {Socket(p.node, p.kv_events, "kv_events", i)}

VllmEnvironment(l, i) ==
    LET p == processes[i]
    IN  IF l.backend # "vllm" THEN {}
        ELSE {Socket(p.node, p.kv_events, "kv_events", i), Socket(p.node, p.nixl, "nixl", i)}

(* The ranks of a vLLM endpoint meet at a fixed port of the leader's node, *)
(* in data-parallel modes the recipe's or 13345, otherwise vLLM's own.     *)
VllmRendezvous(l, i) ==
    LET p == processes[i]
    IN  IF l.backend # "vllm" \/ p.rank # 0 THEN {}
        ELSE When(p.mode \in res.dp, Socket(p.node, 13345, "dp_rpc", i))
             \cup When(p.mode \notin res.dp /\ Cardinality(EndpointNodes(i)) > 1,
                       Socket(p.node, 29501, "master", i))

(* start_worker(): Dynamo's runtime in the worker takes the system port.   *)
SystemSockets(l, i) ==
    When(l.frontend = "dynamo" /\ Started(i), Socket(processes[i].node, processes[i].sys, "sys", i))

WorkerSockets(l, i) ==
    SglangSockets(l, i) \cup VllmEnvironment(l, i) \cup VllmRendezvous(l, i) \cup SystemSockets(l, i)

(* Mutant of KvbmSockets: one port an endpoint instead of two.             *)
KvbmSocketsClose(l, i) ==
    IF ~l.kvbm THEN {}
    ELSE {Socket(processes[i].node, 56001 + (processes[i].kv_events - 5550) + k, "kvbm", <<i, k>>) :
             k \in {0, 1}}

(* _apply_kvbm_endpoint_env(): two ports an endpoint, or KVBM's defaults   *)
(* when the numbers run out.                                               *)
KvbmSockets(l, i) ==
    LET pub == 56001 + 2 * (processes[i].kv_events - 5550)
        base == IF pub + 1 <= 65535 THEN pub ELSE 56001
    IN  IF ~l.kvbm THEN {}
        ELSE {Socket(processes[i].node, base + k, "kvbm", <<i, k>>) : k \in {0, 1}}

FrontendSockets(l) ==
    {Socket(Topology(l).nodes[i], Topology(l).port, "frontend", i) : i \in DOMAIN Topology(l).nodes}
    \cup (IF Topology(l).nginx = None THEN {} ELSE {Socket(0, PublicPort, "nginx", 0)})

InfraSockets(l) ==
    IF l.dedicated THEN {}
    ELSE {Socket(0, 2379, "etcd", 0), Socket(0, 2380, "etcd", 1), Socket(0, 4222, "nats", 0)}

(* start_telemetry(): two exporters on every node with workers.            *)
WorkerNodes == {processes[i].node : i \in DOMAIN processes}
ExporterSockets(l) ==
    {Socket(n, l.dcgm, "dcgm", n) : n \in WorkerNodes}
        \cup {Socket(n, l.node_exporter, "node_exporter", n) : n \in WorkerNodes}

Sockets(l) ==
    (UNION {WorkerSockets(l, i) : i \in DOMAIN processes})
        \cup (UNION {KvbmSockets(l, i) : i \in LeaderSet})
        \cup FrontendSockets(l) \cup InfraSockets(l) \cup ExporterSockets(l)

-----------------------------------------------------------------------------
(* What the routers, the profiler and the scraper are told.                *)

(* The workers of a mode on the command line of each SGLang router.        *)
Routes(m) ==
    {[node |-> processes[i].node, http |-> processes[i].http,
      bootstrap |-> processes[i].bootstrap] :
        i \in {j \in LeaderSet : processes[j].mode = m}}

(* PROFILE_*_ENDPOINTS.                                                    *)
Profiled(l) ==
    {<<processes[i].node, IF l.frontend = "dynamo" THEN processes[i].sys ELSE processes[i].http>> :
        i \in LeaderSet}

(* generate_telemetry_config(): the exporters, every process by its system *)
(* port, the frontends; an entry has a name and a URL.                     *)
ScrapedWorkers == {[name |-> <<processes[i].mode, processes[i].index, processes[i].rank>>,
                    url |-> <<processes[i].node, processes[i].sys>>] : i \in DOMAIN processes}

ScrapedFrontends(l) ==
    {[name |-> <<"frontend", i>>, url |-> <<Topology(l).nodes[i], Topology(l).port>>] :
        i \in DOMAIN Topology(l).nodes}
ScrapedExporters(l) ==
    UNION {{[name |-> <<"dcgm", n>>, url |-> <<n, l.dcgm>>],
            [name |-> <<"node_exporter", n>>, url |-> <<n, l.node_exporter>>]} : n \in WorkerNodes}
Scraped(l) == ScrapedWorkers \cup ScrapedFrontends(l) \cup ScrapedExporters(l)

(* Mutant of GpuLabel: a node's GPUs are put down to its first process.    *)
GpuLabelFirst(n, g) ==
    LET sharers == {i \in DOMAIN processes : processes[i].node = n}
    IN  IF sharers = {} THEN None ELSE Min(sharers)

(* The process that the metrics of GPU g of node n are attributed to: the  *)
(* last one in the list that has it.                                       *)
GpuLabel(n, g) ==
    LET sharers == {i \in DOMAIN processes : processes[i].node = n /\ g \in processes[i].gpus}
    IN  IF sharers = {} THEN None ELSE Max(sharers)

-----------------------------------------------------------------------------
(* Properties.                                                             *)

Launched == stage = "running"
Address(s) == <<s.node, s.port>>

(* Two that are known to meet: the HTTP port of a node's second leader and *)
(* the bootstrap port of its first prefill leader, although the ranges are *)
(* called non-overlapping (topology.py:37); and the data-parallel          *)
(* endpoints that share a leader's node and have no port of their own.     *)
MeetByDesign(a, b) ==
    \/ {a.use, b.use} = {"http", "bootstrap"} /\ a.port = 31000
    \/ a.use = "dp_rpc" /\ b.use = "dp_rpc"

(* How far the counters may go before the range of one reaches the next:   *)
(* the KV-events ports are 1000 below the NIXL ports, and the HTTP ports,  *)
(* 1000 apart, come up to those of KVBM.                                   *)
WithinRanges ==
    /\ Len(processes) <= 1000
    /\ \A n \in Node : http_ports[n] <= 57000

(* The recipe gives the exporters ports that nothing else may be given.    *)
ExportersApart(l) ==
    /\ l.dcgm # l.node_exporter
    /\ \A p \in {l.dcgm, l.node_exporter} :
          /\ p \notin {2379, 2380, 4222, 8000, 8180, 13345, 29500, 29501}
          /\ p < 5550 \/ 7549 < p
          /\ p < 8081 \/ 9080 < p
          /\ p < 30000 \/ 58000 < p

(* No two listeners of a node have the same port, those two cases apart,   *)
(* as long as a run has fewer than 100 processes; from then on the system  *)
(* port of a worker is the port of a frontend.  Beyond 1000 processes, or  *)
(* 27 workers led from one node, other ranges meet.                        *)
ListenersDistinct ==
    Launched /\ WithinRanges => \A l \in {x \in Layouts : Fits(x) /\ ExportersApart(x)} :
        \A a, b \in Sockets(l) : a # b /\ Address(a) = Address(b) =>
            \/ MeetByDesign(a, b)
            \/ {a.use, b.use} = {"sys", "frontend"} /\ a.port = 8180 /\ Len(processes) >= 100

(* A request to port 8000 of the head node gets to a frontend, directly or *)
(* through nginx, which passes to every frontend and never to itself; and  *)
(* an SGLang router can go on to each of the workers that the run waits    *)
(* for, at ports these listen on.  The profiler calls each worker where it *)
(* listens, which is another port behind another frontend.                 *)
EveryPathArrives ==
    Launched => \A l \in {x \in Layouts : Fits(x)} :
        LET listening == {<<Address(s), s.use>> : s \in Sockets(l)}
            frontends == {x[1] : x \in {y \in listening : y[2] = "frontend"}}
        IN  /\ \/ <<0, PublicPort>> \in frontends /\ Upstreams(l) = {}
               \/ /\ <<<<0, PublicPort>>, "nginx">> \in listening
                  /\ Upstreams(l) = frontends /\ frontends # {}
                  /\ <<0, PublicPort>> \notin frontends
            /\ l.frontend = "sglang" =>
                /\ \A m \in Modes : \A r \in Routes(m) :
                      /\ <<<<r.node, r.http>>, "http">> \in listening
                      /\ m = "prefill" => <<<<r.node, r.bootstrap>>, "bootstrap">> \in listening
                /\ \A m \in Modes : Cardinality(Routes(m)) = Leaders({m})
            /\ \A a \in Profiled(l) : \E use \in {"http", "sys"} : <<a, use>> \in listening

(* Every process, frontend and node is scraped under a name of its own,    *)
(* and what is scraped listens, except behind the SGLang router and for    *)
(* the processes that TRT-LLM has as tasks of another.  The metrics of a   *)
(* GPU are attributed to the worker that uses it; where two share it, to   *)
(* the decode worker.                                                      *)
TelemetryIsFaithful ==
    Launched =>
    /\ \A l \in {x \in Layouts : Fits(x)} :
        /\ \A x, y \in Scraped(l) : x.name = y.name => x = y
        /\ (l.frontend = "dynamo" /\ ~res.mpi) =>
              {x.url : x \in Scraped(l)} \subseteq {Address(s) : s \in Sockets(l)}
        /\ \A s \in Sockets(l) : s.use \in {"sys", "frontend", "dcgm", "node_exporter"} =>
              \E x \in Scraped(l) : x.url = Address(s)
    /\ \A i \in DOMAIN processes : \A g \in processes[i].gpus :
        LET label == processes[GpuLabel(processes[i].node, g)]
        IN  \/ label = processes[i]
            \/ label.mode = "decode" /\ processes[i].mode = "prefill"
               /\ processes[i].node = NodeCount - 1
=============================================================================

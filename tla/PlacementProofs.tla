--------------------------- MODULE PlacementProofs ---------------------------
(***************************************************************************)
(* Proofs about Placement: the allocator stays within the nodes and GPUs   *)
(* it was given, and gives a GPU to two endpoints only on the last node.   *)
(***************************************************************************)
EXTENDS Placement, TLAPS

(* Everything placed lies before the allocator's cursor.                   *)
BehindCursor ==
    \A i \in DOMAIN endpoints : \A k \in DOMAIN endpoints[i].nodes :
        \/ endpoints[i].nodes[k] < node_idx
        \/ /\ endpoints[i].nodes[k] = node_idx
           /\ \A g \in endpoints[i].gpus : g < gpu_offset

(* Workers that take whole nodes have all their GPUs, and the modes are    *)
(* placed in order.                                                        *)
PlacedByMode ==
    \A i \in DOMAIN endpoints :
        /\ WholeNodes(endpoints[i].mode) => endpoints[i].gpus = 0 .. G - 1
        /\ stage = "prefill" => endpoints[i].mode = "prefill"
        /\ stage = "decode" => endpoints[i].mode \in Disaggregated

(* Where workers take whole nodes, a partly used node is met only by       *)
(* decode workers and is then the last one.                                *)
CursorOnBoundary ==
    /\ (stage \in Modes /\ Workers(res, stage) > 0 /\ WholeNodes(stage) /\ gpu_offset > 0)
          => stage = "decode" /\ node_idx + 1 >= NodeCount
    /\ (Workers(res, "agg") > 0 /\ stage \in Disaggregated) => gpu_offset = 0

PInv ==
    /\ TypeOK
    /\ Valid(res)
    /\ BehindCursor
    /\ PlacedByMode
    /\ CursorOnBoundary
    /\ SharedGpuOnlyOnLastNode

-----------------------------------------------------------------------------
LEMMA DivIsNat == \A x \in Nat, w \in Nat \ {0} : x \div w \in Nat
  BY SMT

LEMMA TimesIsNat == \A x, y \in Nat : x * y \in Nat
  BY SMT

(* The numbers read off a resources block are natural.                     *)
LEMMA BlockNumbers ==
    ASSUME NEW r \in ResourceConfig, NEW m \in Modes
    PROVE  /\ Workers(r, m) \in Nat
           /\ GpusPerWorker(r, m) \in Nat
           /\ TotalNodes(r) \in Nat
           /\ r.gpus_per_node \in Nat \ {0}
<1>1. /\ r.gpus_per_node \in Nat \ {0}
      /\ \A n \in Modes : /\ r.nodes[n] \in Nat \cup {None}
                          /\ r.workers[n] \in Nat \cup {None}
                          /\ r.explicit[n] \in Nat \cup {None}
  BY DEF ResourceConfig
<1>2. \A n \in Modes : Workers(r, n) \in Nat
  BY <1>1 DEF Workers, Or0
<1>3. \A n \in Modes : OwnGpus(r, n) \in Nat
  <2> TAKE n \in Modes
  <2>1. CASE r.explicit[n] # None
    BY <2>1, <1>1 DEF OwnGpus
  <2>2. CASE r.explicit[n] = None /\ Or0(r.nodes[n]) > 0 /\ Workers(r, n) > 0
    <3>1. r.nodes[n] \in Nat
      BY <2>2, <1>1 DEF Or0
    <3>2. r.nodes[n] * r.gpus_per_node \in Nat
      BY <3>1, <1>1, TimesIsNat
    <3>3. Workers(r, n) \in Nat \ {0}
      BY <2>2, <1>2
    <3>4. (r.nodes[n] * r.gpus_per_node) \div Workers(r, n) \in Nat
      BY <3>2, <3>3, DivIsNat
    <3> QED
      BY <2>2, <3>4 DEF OwnGpus
  <2>3. CASE r.explicit[n] = None /\ ~(Or0(r.nodes[n]) > 0 /\ Workers(r, n) > 0)
    BY <2>3, <1>1 DEF OwnGpus
  <2> QED
    BY <2>1, <2>2, <2>3
<1>4. GpusPerWorker(r, m) \in Nat
  BY <1>3 DEF GpusPerWorker, Modes
<1>5. TotalNodes(r) \in Nat
  BY <1>1 DEF TotalNodes, Or0, Modes
<1> QED
  BY <1>1, <1>2, <1>4, <1>5

(* Where the allocator's cursor is, in numbers.                            *)
LEMMA CursorNumbers ==
    ASSUME TypeOK
    PROVE  /\ G \in Nat \ {0}
           /\ NodeCount \in Nat
           /\ node_idx \in Nat /\ node_idx <= NodeCount
           /\ gpu_offset \in Nat /\ gpu_offset < G
           /\ index \in Nat
           /\ \A m \in Modes : /\ GpusPerWorker(res, m) \in Nat
                               /\ NodesPerWorker(m) \in Nat
                               /\ Workers(res, m) \in Nat
<1>1. /\ G \in Nat \ {0}
      /\ NodeCount \in Nat
      /\ \A m \in Modes : GpusPerWorker(res, m) \in Nat /\ Workers(res, m) \in Nat
  BY BlockNumbers DEF TypeOK, G, NodeCount, Modes
<1>2. \A m \in Modes : GpusPerWorker(res, m) + G - 1 \in Nat
  BY <1>1
<1>3. \A m \in Modes : NodesPerWorker(m) \in Nat
  BY <1>1, <1>2, DivIsNat DEF NodesPerWorker
<1> QED
  BY <1>1, <1>3 DEF TypeOK

-----------------------------------------------------------------------------
THEOREM InitEstablishesPInv ==
    ASSUME Init
    PROVE  PInv
<1>1. res \in ResourceConfig /\ Valid(res) /\ TotalNodes(res) > 0
  BY ResourcesAssumption DEF Init
<1>2. TotalNodes(res) \in Nat /\ G \in Nat \ {0}
  BY <1>1, BlockNumbers DEF G, Modes
<1>3. TypeOK
  BY <1>1, <1>2 DEF Init, TypeOK, NodeCount, Node, Modes, EndpointType
<1> QED
  BY <1>1, <1>3 DEF Init, PInv, BehindCursor, PlacedByMode, CursorOnBoundary,
     SharedGpuOnlyOnLastNode

-----------------------------------------------------------------------------
(* What a step that places a worker appends to the endpoints.              *)
LEMMA PlacedWhole ==
    ASSUME TypeOK, PlaceWholeNodes
    PROVE  /\ endpoints' = Append(endpoints, endpoints'[Len(endpoints) + 1])
           /\ endpoints'[Len(endpoints) + 1] \in EndpointType
           /\ endpoints'[Len(endpoints) + 1].mode = stage
           /\ endpoints'[Len(endpoints) + 1].gpus = 0 .. G - 1
           /\ \A k \in DOMAIN endpoints'[Len(endpoints) + 1].nodes :
                 /\ endpoints'[Len(endpoints) + 1].nodes[k] >= node_idx
                 /\ endpoints'[Len(endpoints) + 1].nodes[k] < node_idx'
<1> DEFINE count == NodesPerWorker(stage)
           nodes == [j \in 1 .. count |-> node_idx + j - 1]
           new == Endpoint(nodes, 0 .. G - 1)
<1>1. count \in Nat /\ node_idx \in Nat /\ NodeCount \in Nat /\ index \in Nat
  BY CursorNumbers DEF PlaceWholeNodes, Placing
<1>2. node_idx + count <= NodeCount /\ node_idx' = node_idx + count
  BY DEF PlaceWholeNodes
<1>3. endpoints' = Append(endpoints, new) /\ endpoints \in Seq(EndpointType)
  BY DEF PlaceWholeNodes, TypeOK
<1> HIDE DEF count
<1>4. nodes \in Seq(Node)
  BY <1>1, <1>2 DEF Node
<1>5. new \in EndpointType
  BY <1>1, <1>4 DEF Endpoint, EndpointType, PlaceWholeNodes, Placing
<1>6. endpoints'[Len(endpoints) + 1] = new
  <2> HIDE DEF new
  <2> QED
    BY <1>3
<1>7. /\ new.mode = stage /\ new.gpus = 0 .. G - 1 /\ new.nodes = nodes
  BY DEF Endpoint
<1>8. \A k \in DOMAIN nodes : nodes[k] >= node_idx /\ nodes[k] < node_idx'
  BY <1>1, <1>2
<1> HIDE DEF new
<1> QED
  BY <1>3, <1>5, <1>6, <1>7, <1>8

LEMMA PlacedPart ==
    ASSUME TypeOK, PlacePartOfNode
    PROVE  LET at == NextSlot(stage)
               end == at.gpu + GpusPerWorker(res, stage)
           IN  /\ endpoints' = Append(endpoints, Endpoint(<<at.node>>, at.gpu .. end - 1))
               /\ Endpoint(<<at.node>>, at.gpu .. end - 1) \in EndpointType
               /\ \/ at.node = node_idx /\ at.gpu = gpu_offset
                  \/ at.node = node_idx + 1 /\ at.gpu = 0
               /\ at.node \in Nat /\ at.node < NodeCount
               /\ end \in Nat /\ at.gpu <= end /\ end <= G
               /\ \/ end = G /\ node_idx' = at.node + 1 /\ gpu_offset' = 0
                  \/ end < G /\ node_idx' = at.node /\ gpu_offset' = end
<1> DEFINE at == NextSlot(stage)
           size == GpusPerWorker(res, stage)
           end == at.gpu + size
<1>1. /\ size \in Nat /\ size < G /\ G \in Nat \ {0}
      /\ node_idx \in Nat /\ gpu_offset \in Nat /\ gpu_offset < G
      /\ NodeCount \in Nat /\ index \in Nat /\ stage \in Modes
  BY CursorNumbers DEF PlacePartOfNode, Placing, WholeNodes
<1>2. /\ \/ at.node = node_idx /\ at.gpu = gpu_offset /\ gpu_offset + size <= G
         \/ at.node = node_idx + 1 /\ at.gpu = 0
  BY <1>1 DEF NextSlot
<1>3. /\ endpoints' = Append(endpoints, Endpoint(<<at.node>>, at.gpu .. end - 1))
      /\ at.node < NodeCount
      /\ node_idx' = IF end >= G THEN at.node + 1 ELSE at.node
      /\ gpu_offset' = IF end >= G THEN 0 ELSE end
  BY DEF PlacePartOfNode
<1> HIDE DEF at, size
<1>4. end \in Nat /\ at.gpu \in Nat /\ at.gpu <= end /\ end <= G /\ at.node \in Nat
  BY <1>1, <1>2
<1>5. /\ \/ end = G /\ node_idx' = at.node + 1 /\ gpu_offset' = 0
         \/ end < G /\ node_idx' = at.node /\ gpu_offset' = end
  BY <1>1, <1>3, <1>4
<1>6. Endpoint(<<at.node>>, at.gpu .. end - 1) \in EndpointType
  <2>1. <<at.node>> \in Seq(Node)
    BY <1>1, <1>3, <1>4 DEF Node
  <2>2. (at.gpu .. end - 1) \in SUBSET (0 .. G - 1)
    BY <1>1, <1>4
  <2> HIDE DEF end
  <2>3. QED
    BY <1>1, <2>1, <2>2 DEF Endpoint, EndpointType
<1> QED
  BY <1>2, <1>3, <1>4, <1>5, <1>6 DEF at, size

(* An endpoint appended to those placed becomes the last one.              *)
LEMMA Appended ==
    ASSUME NEW S, NEW s \in Seq(S), NEW e \in S, NEW t, t = Append(s, e)
    PROVE  /\ t \in Seq(S)
           /\ DOMAIN t = DOMAIN s \cup {Len(s) + 1}
           /\ t[Len(s) + 1] = e
           /\ \A i \in DOMAIN s : t[i] = s[i] /\ i < Len(s) + 1 /\ i \in Nat
<1>1. DOMAIN s = 1 .. Len(s) /\ Len(s) \in Nat
  OBVIOUS
<1> QED
  BY <1>1

(* The block of the run, and with it the nodes and the sizes, never change.*)
LEMMA BlockIsFixed ==
    ASSUME [Next]_pvars
    PROVE  /\ res' = res
           /\ G' = G /\ NodeCount' = NodeCount /\ Node' = Node
           /\ EndpointType' = EndpointType
           /\ \A m \in Modes : WholeNodes(m)' <=> WholeNodes(m)
<1>1. res' = res
  BY DEF Next, pvars, PlaceWholeNodes, PlacePartOfNode, OutOfNodes, ModePlaced,
     AssignPorts, PortsAssigned, StartWorker, WorkersStarted, Ended
<1> QED
  BY <1>1 DEF G, NodeCount, Node, EndpointType, WholeNodes

LEMMA TypeOKStep ==
    ASSUME TypeOK, [Next]_pvars
    PROVE  TypeOK'
<1> USE BlockIsFixed
<1>0. res \in ResourceConfig /\ endpoints \in Seq(EndpointType)
  BY DEF TypeOK
<1>1. CASE PlaceWholeNodes
  <2>1. endpoints' \in Seq(EndpointType)
    BY <1>0, <1>1, PlacedWhole, Appended
  <2>2. node_idx' \in 0 .. NodeCount /\ index' \in Nat
    BY <1>1, CursorNumbers DEF PlaceWholeNodes, Placing
  <2>3. UNCHANGED <<res, stage, gpu_offset, http_ports, bootstrap_ports>>
    BY <1>1 DEF PlaceWholeNodes, allocator
  <2> QED
    BY <2>1, <2>2, <2>3 DEF TypeOK
<1>2. CASE PlacePartOfNode
  <2>1. endpoints' \in Seq(EndpointType)
    BY <1>0, <1>2, PlacedPart, Appended, ZenonT(60)
  <2>2. node_idx' \in 0 .. NodeCount /\ gpu_offset' \in 0 .. G - 1
    <3> DEFINE at == NextSlot(stage)
               end == at.gpu + GpusPerWorker(res, stage)
    <3>1. /\ at.node \in Nat /\ at.node < NodeCount /\ end \in Nat
          /\ \/ end = G /\ node_idx' = at.node + 1 /\ gpu_offset' = 0
             \/ end < G /\ node_idx' = at.node /\ gpu_offset' = end
      BY <1>2, PlacedPart
    <3>2. G \in Nat \ {0} /\ NodeCount \in Nat
      BY CursorNumbers
    <3> HIDE DEF at, end
    <3> QED
      BY <3>1, <3>2
  <2>3. index' \in Nat
    BY <1>2, CursorNumbers DEF PlacePartOfNode
  <2>4. UNCHANGED <<res, stage, http_ports, bootstrap_ports>>
    BY <1>2 DEF PlacePartOfNode, allocator
  <2> QED
    BY <2>1, <2>2, <2>3, <2>4 DEF TypeOK
<1>3. CASE OutOfNodes
  BY <1>3 DEF TypeOK, OutOfNodes, allocator
<1>4. CASE ModePlaced
  <2>1. node_idx' \in 0 .. NodeCount /\ gpu_offset' \in 0 .. G - 1
    BY <1>4, CursorNumbers DEF ModePlaced, LeaveNode
  <2>2. stage' \in Modes \cup {"ports"} /\ index' \in Nat
    BY <1>4 DEF ModePlaced, StageAfter, Modes
  <2> QED
    BY <1>4, <2>1, <2>2 DEF TypeOK, ModePlaced, allocator
<1>5. CASE AssignPorts
  <2>1. http_ports' \in [Node -> Nat] /\ bootstrap_ports' \in [Node -> Nat]
    <3> DEFINE leader == endpoints[index + 1].nodes[1]
    <3>1. /\ \/ http_ports' = http_ports
             \/ http_ports' = [http_ports EXCEPT ![leader] = @ + 1000]
          /\ \/ bootstrap_ports' = bootstrap_ports
             \/ bootstrap_ports' = [bootstrap_ports EXCEPT ![leader] = @ + 1]
      BY <1>5, Zenon DEF AssignPorts
    <3> HIDE DEF leader
    <3>2. http_ports \in [Node -> Nat] /\ bootstrap_ports \in [Node -> Nat]
      BY DEF TypeOK
    <3> QED
      BY <3>1, <3>2
  <2>2. index' \in Nat
    BY <1>5, CursorNumbers DEF AssignPorts
  <2> QED
    BY <1>5, <2>1, <2>2 DEF TypeOK, AssignPorts
<1>6. CASE PortsAssigned
  BY <1>6 DEF TypeOK, PortsAssigned, allocator
<1>7. CASE StartWorker
  BY <1>7, CursorNumbers DEF TypeOK, StartWorker
<1>8. CASE WorkersStarted
  BY <1>8 DEF TypeOK, WorkersStarted, allocator
<1>9. CASE Ended \/ UNCHANGED pvars
  BY <1>9 DEF TypeOK, Ended, pvars
<1> QED
  BY <1>1, <1>2, <1>3, <1>4, <1>5, <1>6, <1>7, <1>8, <1>9 DEF Next

-----------------------------------------------------------------------------
(* A block with aggregated workers has no others.                          *)
LEMMA OneTopology ==
    ASSUME Valid(res), Workers(res, "agg") > 0
    PROVE  \A m \in Disaggregated : Workers(res, m) = 0
  BY DEF Valid, Uses, Workers, Or0, Disaggregated

LEMMA EndpointShape ==
    ASSUME TypeOK, NEW i \in DOMAIN endpoints
    PROVE  /\ endpoints[i].mode \in Modes
           /\ endpoints[i].gpus \subseteq 0 .. G - 1
           /\ \A k \in DOMAIN endpoints[i].nodes : endpoints[i].nodes[k] \in Node
<1>1. endpoints[i] \in EndpointType
  BY DEF TypeOK
<1>2. /\ endpoints[i].mode \in Modes /\ endpoints[i].nodes \in Seq(Node)
      /\ endpoints[i].gpus \subseteq 0 .. G - 1
  BY <1>1 DEF EndpointType
<1> QED
  BY <1>2

(* Steps that place no worker leave everything behind the cursor.          *)
LEMMA NothingPlaced ==
    ASSUME PInv, [Next]_pvars, UNCHANGED <<endpoints, node_idx, gpu_offset>>,
           stage' = stage \/ stage' \notin Modes
    PROVE  PInv'
<1>1. /\ TypeOK' /\ res' = res /\ G' = G /\ NodeCount' = NodeCount /\ Node' = Node
      /\ \A m \in Modes : WholeNodes(m)' <=> WholeNodes(m)
  BY BlockIsFixed, TypeOKStep DEF PInv
<1>2. \A i \in DOMAIN endpoints : endpoints[i].mode \in Modes
  BY EndpointShape DEF PInv
<1>3. PlacedByMode'
  BY <1>1, <1>2 DEF PInv, PlacedByMode, Modes, WholeNodes
<1>4. BehindCursor'
  BY DEF PInv, BehindCursor
<1>5. CursorOnBoundary'
  BY <1>1 DEF PInv, CursorOnBoundary, Modes, Disaggregated, WholeNodes
<1>6. SharedGpuOnlyOnLastNode'
  BY <1>1 DEF PInv, SharedGpuOnlyOnLastNode, Overlap, Modes, WholeNodes
<1> QED
  BY <1>1, <1>3, <1>4, <1>5, <1>6 DEF PInv

LEMMA BetweenModes ==
    ASSUME PInv, [Next]_pvars, ModePlaced
    PROVE  PInv'
<1>1. /\ TypeOK' /\ res' = res /\ G' = G /\ NodeCount' = NodeCount /\ Node' = Node
      /\ \A m \in Modes : WholeNodes(m)' <=> WholeNodes(m)
  BY BlockIsFixed, TypeOKStep DEF PInv
<1>2. /\ endpoints' = endpoints /\ stage \in Modes
      /\ stage' = IF stage = "prefill" THEN "decode"
                  ELSE IF stage = "decode" THEN "agg" ELSE "ports"
      /\ \/ node_idx' = node_idx + 1 /\ gpu_offset' = 0
         \/ node_idx' = node_idx /\ gpu_offset' = gpu_offset /\ ~LeaveNode(stage')
  BY DEF ModePlaced, StageAfter
<1>3. \A i \in DOMAIN endpoints : endpoints[i].mode \in Modes
  BY EndpointShape DEF PInv
<1>4. PlacedByMode'
  BY <1>1, <1>2, <1>3 DEF PInv, PlacedByMode, Modes, Disaggregated, WholeNodes
<1>5. BehindCursor'
  <2> SUFFICES ASSUME NEW i \in DOMAIN endpoints, NEW k \in DOMAIN endpoints[i].nodes
               PROVE  \/ endpoints[i].nodes[k] < node_idx'
                      \/ /\ endpoints[i].nodes[k] = node_idx'
                         /\ \A g \in endpoints[i].gpus : g < gpu_offset'
    BY <1>2 DEF BehindCursor
  <2>1. endpoints[i].nodes[k] \in Nat /\ node_idx \in Nat
    BY CursorNumbers, EndpointShape DEF PInv, Node
  <2>2. \/ endpoints[i].nodes[k] < node_idx
        \/ /\ endpoints[i].nodes[k] = node_idx
           /\ \A g \in endpoints[i].gpus : g < gpu_offset
    BY DEF PInv, BehindCursor
  <2> QED
    BY <1>2, <2>1, <2>2
<1>6. CursorOnBoundary'
  <2>1. node_idx \in Nat /\ gpu_offset \in Nat /\ NodeCount \in Nat
    BY CursorNumbers DEF PInv
  <2>2. CursorOnBoundary
    BY DEF PInv
  <2>3. ASSUME stage' = "decode" PROVE CursorOnBoundary'
    BY <1>1, <1>2, <2>1, <2>2, <2>3 DEF CursorOnBoundary, LeaveNode, Modes, Disaggregated
  <2>4. ASSUME stage' = "agg" PROVE CursorOnBoundary'
    BY <1>1, <1>2, <2>1, <2>2, <2>4 DEF CursorOnBoundary, Modes, Disaggregated
  <2>5. ASSUME stage' = "ports" PROVE CursorOnBoundary'
    BY <2>5 DEF CursorOnBoundary, Modes, Disaggregated
  <2> QED
    BY <1>2, <2>3, <2>4, <2>5
<1>7. SharedGpuOnlyOnLastNode'
  BY <1>1, <1>2 DEF PInv, SharedGpuOnlyOnLastNode, Overlap, Modes, WholeNodes
<1> QED
  BY <1>1, <1>4, <1>5, <1>6, <1>7 DEF PInv

(* A worker placed shares no GPU with the earlier ones, or they are as     *)
(* SharedGpuOnlyOnLastNode says: enough for it to hold afterwards.         *)
LEMMA OnlyTheLastMatters ==
    ASSUME PInv, [Next]_pvars, NEW e \in EndpointType, endpoints' = Append(endpoints, e),
           \A i \in DOMAIN endpoints : \A n \in Overlap(endpoints[i], e) :
               /\ n = NodeCount - 1
               /\ endpoints[i].mode = "prefill" /\ ~WholeNodes("prefill")
               /\ e.mode = "decode" /\ WholeNodes("decode")
    PROVE  SharedGpuOnlyOnLastNode'
<1>1. /\ NodeCount' = NodeCount /\ Node' = Node
      /\ WholeNodes("prefill")' <=> WholeNodes("prefill")
      /\ WholeNodes("decode")' <=> WholeNodes("decode")
  BY BlockIsFixed DEF Modes
<1>2. /\ DOMAIN endpoints' = DOMAIN endpoints \cup {Len(endpoints) + 1}
      /\ endpoints'[Len(endpoints) + 1] = e
      /\ \A i \in DOMAIN endpoints :
            endpoints'[i] = endpoints[i] /\ i < Len(endpoints) + 1 /\ i \in Nat
      /\ Len(endpoints) \in Nat
  BY Appended DEF PInv, TypeOK
<1>3. \A x, y : Overlap(x, y)' = Overlap(x, y)
  BY <1>1 DEF Overlap
<1> SUFFICES ASSUME NEW i \in DOMAIN endpoints', NEW j \in DOMAIN endpoints',
                    NEW n \in Overlap(endpoints'[i], endpoints'[j]), i < j
             PROVE  /\ n = NodeCount - 1
                    /\ endpoints'[i].mode = "prefill" /\ ~WholeNodes("prefill")
                    /\ endpoints'[j].mode = "decode" /\ WholeNodes("decode")
  BY <1>1 DEF SharedGpuOnlyOnLastNode, Overlap
<1>4. i \in DOMAIN endpoints
  BY <1>2
<1>5. CASE j \in DOMAIN endpoints
  BY <1>2, <1>4, <1>5 DEF PInv, SharedGpuOnlyOnLastNode
<1>6. CASE j = Len(endpoints) + 1
  BY <1>2, <1>4, <1>6
<1> QED
  BY <1>2, <1>5, <1>6

LEMMA WholeNodesStep ==
    ASSUME PInv, PlaceWholeNodes
    PROVE  PInv'
<1> DEFINE last == Len(endpoints) + 1
           new == endpoints'[last]
<1>0. [Next]_pvars
  BY DEF Next
<1>1. /\ TypeOK' /\ res' = res /\ G' = G /\ NodeCount' = NodeCount /\ Node' = Node
      /\ \A m \in Modes : WholeNodes(m)' <=> WholeNodes(m)
  BY <1>0, BlockIsFixed, TypeOKStep DEF PInv
<1>2. /\ endpoints' = Append(endpoints, new)
      /\ new \in EndpointType /\ new.mode = stage /\ new.gpus = 0 .. G - 1
      /\ \A k \in DOMAIN new.nodes : new.nodes[k] >= node_idx /\ new.nodes[k] < node_idx'
  BY PlacedWhole DEF PInv
<1> HIDE DEF new
<1>3. /\ DOMAIN endpoints' = DOMAIN endpoints \cup {last}
      /\ endpoints'[last] = new
      /\ \A i \in DOMAIN endpoints : endpoints'[i] = endpoints[i]
  BY <1>2, Appended DEF PInv, TypeOK
<1>4. /\ stage \in Modes /\ Workers(res, stage) > 0 /\ WholeNodes(stage)
      /\ stage' = stage /\ gpu_offset' = gpu_offset
      /\ node_idx' = node_idx + NodesPerWorker(stage)
      /\ node_idx' <= NodeCount
      /\ index \in Nat /\ node_idx \in Nat /\ gpu_offset \in Nat /\ gpu_offset < G
      /\ G \in Nat /\ NodeCount \in Nat /\ NodesPerWorker(stage) \in Nat
      /\ node_idx' \in Nat /\ node_idx' >= node_idx
  BY CursorNumbers DEF PInv, PlaceWholeNodes, Placing
<1>5. \A i \in DOMAIN endpoints :
         /\ endpoints[i].mode \in Modes /\ endpoints[i].gpus \subseteq 0 .. G - 1
         /\ \A k \in DOMAIN endpoints[i].nodes : endpoints[i].nodes[k] \in Nat
  BY EndpointShape DEF PInv, Node
<1>6. BehindCursor'
  <2> SUFFICES ASSUME NEW i \in DOMAIN endpoints', NEW k \in DOMAIN endpoints'[i].nodes
               PROVE  \/ endpoints'[i].nodes[k] < node_idx'
                      \/ /\ endpoints'[i].nodes[k] = node_idx'
                         /\ \A g \in endpoints'[i].gpus : g < gpu_offset'
    BY DEF BehindCursor
  <2>1. CASE i \in DOMAIN endpoints
    <3>1. \/ endpoints[i].nodes[k] < node_idx
          \/ /\ endpoints[i].nodes[k] = node_idx
             /\ \A g \in endpoints[i].gpus : g < gpu_offset
      BY <1>3, <2>1 DEF PInv, BehindCursor
    <3>2. endpoints[i].nodes[k] \in Nat
      BY <1>3, <1>5, <2>1
    <3>3. endpoints'[i] = endpoints[i]
      BY <1>3, <2>1
    <3>4. endpoints[i].nodes[k] < node_idx'
          \/ (endpoints[i].nodes[k] = node_idx' /\ node_idx' = node_idx)
      BY <1>4, <3>1, <3>2
    <3> QED
      BY <1>4, <3>1, <3>3, <3>4
  <2>2. CASE i = last
    BY <1>2, <1>3, <2>2
  <2> QED
    BY <1>3, <2>1, <2>2
<1>7. PlacedByMode'
  BY <1>1, <1>2, <1>3, <1>4, <1>5 DEF PInv, PlacedByMode, Disaggregated, WholeNodes
<1>8. CursorOnBoundary'
  <2>1. CursorOnBoundary
    BY DEF PInv
  <2> QED
    BY <1>1, <1>4, <2>1 DEF CursorOnBoundary, WholeNodes
<1>9. SharedGpuOnlyOnLastNode'
  <2> SUFFICES ASSUME NEW i \in DOMAIN endpoints, NEW n \in Overlap(endpoints[i], new)
               PROVE  /\ n = NodeCount - 1
                      /\ endpoints[i].mode = "prefill" /\ ~WholeNodes("prefill")
                      /\ new.mode = "decode" /\ WholeNodes("decode")
    BY <1>0, <1>2, OnlyTheLastMatters
  <2>1. PICK k \in DOMAIN endpoints[i].nodes, l \in DOMAIN new.nodes :
           endpoints[i].nodes[k] = n /\ new.nodes[l] = n
    BY DEF Overlap
  <2>2. n >= node_idx /\ n \in Nat /\ n < NodeCount
    BY <1>2, <1>4, <2>1 DEF Overlap, Node
  <2>3. n = node_idx /\ \A g \in endpoints[i].gpus : g < gpu_offset
    BY <1>4, <2>1, <2>2 DEF PInv, BehindCursor
  <2>4. PICK g \in endpoints[i].gpus : g \in Nat
    BY <1>5 DEF Overlap
  <2>5. gpu_offset > 0
    BY <1>4, <2>3, <2>4
  <2>6. stage = "decode" /\ n = NodeCount - 1
    BY <1>4, <2>2, <2>3, <2>5 DEF PInv, CursorOnBoundary
  <2>7. ~WholeNodes(endpoints[i].mode)
    <3> SUFFICES ASSUME WholeNodes(endpoints[i].mode) PROVE FALSE
      OBVIOUS
    <3>1. endpoints[i].gpus = 0 .. G - 1
      BY DEF PInv, PlacedByMode
    <3>2. G - 1 \in endpoints[i].gpus
      BY <1>4, <3>1
    <3> QED
      BY <1>4, <2>3, <3>2
  <2>8. endpoints[i].mode = "prefill"
    BY <1>4, <2>6, <2>7 DEF PInv, PlacedByMode, Disaggregated
  <2> QED
    BY <1>2, <1>4, <2>6, <2>7, <2>8
<1> QED
  BY <1>1, <1>6, <1>7, <1>8, <1>9 DEF PInv

LEMMA PartOfNodeStep ==
    ASSUME PInv, PlacePartOfNode
    PROVE  PInv'
<1> DEFINE last == Len(endpoints) + 1
           at == NextSlot(stage)
           end == at.gpu + GpusPerWorker(res, stage)
           new == Endpoint(<<at.node>>, at.gpu .. end - 1)
<1>0. [Next]_pvars
  BY DEF Next
<1>1. /\ TypeOK' /\ res' = res /\ G' = G /\ NodeCount' = NodeCount /\ Node' = Node
      /\ \A m \in Modes : WholeNodes(m)' <=> WholeNodes(m)
  BY <1>0, BlockIsFixed, TypeOKStep DEF PInv
<1>2. /\ endpoints' = Append(endpoints, new) /\ new \in EndpointType
      /\ \/ at.node = node_idx /\ at.gpu = gpu_offset
         \/ at.node = node_idx + 1 /\ at.gpu = 0
      /\ at.node \in Nat /\ at.node < NodeCount
      /\ end \in Nat /\ at.gpu <= end /\ end <= G
      /\ \/ end = G /\ node_idx' = at.node + 1 /\ gpu_offset' = 0
         \/ end < G /\ node_idx' = at.node /\ gpu_offset' = end
  BY PlacedPart DEF PInv
<1>3. new.mode = stage /\ new.gpus = at.gpu .. end - 1 /\ new.nodes = <<at.node>>
  BY DEF Endpoint
<1> HIDE DEF new, end, at
<1>4. /\ DOMAIN endpoints' = DOMAIN endpoints \cup {last}
      /\ endpoints'[last] = new
      /\ \A i \in DOMAIN endpoints : endpoints'[i] = endpoints[i]
  BY <1>2, Appended DEF PInv, TypeOK
<1>5. /\ stage \in Modes /\ Workers(res, stage) > 0 /\ ~WholeNodes(stage) /\ stage' = stage
      /\ node_idx \in Nat /\ gpu_offset \in Nat /\ gpu_offset < G /\ G \in Nat \ {0}
      /\ NodeCount \in Nat
  BY CursorNumbers DEF PInv, PlacePartOfNode, Placing
<1>6. \A i \in DOMAIN endpoints :
         /\ endpoints[i].mode \in Modes /\ endpoints[i].gpus \subseteq 0 .. G - 1
         /\ \A k \in DOMAIN endpoints[i].nodes :
               /\ endpoints[i].nodes[k] \in Nat
               /\ \/ endpoints[i].nodes[k] < node_idx
                  \/ /\ endpoints[i].nodes[k] = node_idx
                     /\ \A g \in endpoints[i].gpus : g < gpu_offset
  BY EndpointShape DEF PInv, Node, BehindCursor
<1>7. BehindCursor'
  <2> SUFFICES ASSUME NEW i \in DOMAIN endpoints', NEW k \in DOMAIN endpoints'[i].nodes
               PROVE  \/ endpoints'[i].nodes[k] < node_idx'
                      \/ /\ endpoints'[i].nodes[k] = node_idx'
                         /\ \A g \in endpoints'[i].gpus : g < gpu_offset'
    BY DEF BehindCursor
  <2>1. CASE i \in DOMAIN endpoints
    <3> DEFINE x == endpoints[i].nodes[k]
    <3>1. /\ x \in Nat
          /\ x < node_idx \/ (x = node_idx /\ \A g \in endpoints[i].gpus : g < gpu_offset)
      BY <1>4, <1>6, <2>1
    <3>2. \A g \in endpoints[i].gpus : g \in Nat
      BY <1>6, <2>1
    <3> HIDE DEF x
    <3>3. x < node_idx' \/ (x = node_idx' /\ \A g \in endpoints[i].gpus : g < gpu_offset')
      <4>1. CASE at.node = node_idx /\ at.gpu = gpu_offset /\ end = G
        BY <1>2, <1>5, <3>1, <4>1
      <4>2. CASE at.node = node_idx /\ at.gpu = gpu_offset /\ end < G
        BY <1>2, <1>5, <3>1, <3>2, <4>2
      <4>3. CASE at.node = node_idx + 1
        BY <1>2, <1>5, <3>1, <4>3
      <4> QED
        BY <1>2, <1>5, <4>1, <4>2, <4>3
    <3> QED
      BY <1>4, <2>1, <3>3 DEF x
  <2>2. CASE i = last
    <3>1. endpoints'[i].nodes[k] = at.node
      BY <1>3, <1>4, <2>2
    <3>2. \A g \in endpoints'[i].gpus : g < end
      BY <1>2, <1>3, <1>4, <1>5, <2>2
    <3> QED
      BY <1>2, <3>1, <3>2
  <2> QED
    BY <1>4, <2>1, <2>2
<1>8. PlacedByMode'
  BY <1>1, <1>3, <1>4, <1>5, <1>6 DEF PInv, PlacedByMode, Disaggregated, WholeNodes
<1>9. CursorOnBoundary'
  <2>1. CursorOnBoundary /\ Valid(res)
    BY DEF PInv
  <2>2. stage \in Disaggregated => ~(Workers(res, "agg") > 0)
    BY <1>5, <2>1, OneTopology
  <2> QED
    BY <1>1, <1>5, <2>1, <2>2 DEF CursorOnBoundary, WholeNodes
<1>10. SharedGpuOnlyOnLastNode'
  <2>1. \A i \in DOMAIN endpoints : Overlap(endpoints[i], new) = {}
    <3> SUFFICES ASSUME NEW i \in DOMAIN endpoints, NEW n \in Overlap(endpoints[i], new)
                 PROVE  FALSE
      OBVIOUS
    <3>1. PICK k \in DOMAIN endpoints[i].nodes : endpoints[i].nodes[k] = at.node
      BY <1>3 DEF Overlap
    <3>2. PICK g \in endpoints[i].gpus : g \in at.gpu .. end - 1
      BY <1>3 DEF Overlap
    <3>3. endpoints[i].nodes[k] <= node_idx
      BY <1>5, <1>6
    <3>4. at.node = node_idx /\ at.gpu = gpu_offset
      BY <1>2, <1>5, <3>1, <3>3
    <3>5. g < gpu_offset
      BY <1>5, <1>6, <3>1, <3>4
    <3>6. gpu_offset <= g
      BY <1>2, <1>5, <3>2, <3>4
    <3>7. g \in Nat
      BY <1>6
    <3> QED
      BY <1>5, <3>5, <3>6, <3>7
  <2> QED
    BY <1>0, <1>2, <2>1, OnlyTheLastMatters
<1> QED
  BY <1>1, <1>7, <1>8, <1>9, <1>10 DEF PInv

-----------------------------------------------------------------------------
(* The inductive invariant of the allocator, for every resources block:    *)
(* what is placed lies behind the cursor, and a partly used node is met by *)
(* a worker that takes whole nodes in the one case the code allows.        *)
THEOREM PlacementInvariant == Spec => []PInv
<1>1. Init => PInv
  BY InitEstablishesPInv
<1>2. PInv /\ [Next]_pvars => PInv'
  <2> SUFFICES ASSUME PInv, [Next]_pvars
               PROVE  PInv'
    OBVIOUS
  <2>1. CASE PlaceWholeNodes
    BY <2>1, WholeNodesStep
  <2>2. CASE PlacePartOfNode
    BY <2>2, PartOfNodeStep
  <2>3. CASE ModePlaced
    BY <2>3, BetweenModes
  <2>4. CASE OutOfNodes
    BY <2>4, NothingPlaced DEF OutOfNodes, Modes
  <2>5. CASE AssignPorts
    BY <2>5, NothingPlaced DEF AssignPorts
  <2>6. CASE PortsAssigned
    BY <2>6, NothingPlaced DEF PortsAssigned, Modes
  <2>7. CASE StartWorker
    BY <2>7, NothingPlaced DEF StartWorker
  <2>8. CASE WorkersStarted
    BY <2>8, NothingPlaced DEF WorkersStarted, Modes
  <2>9. CASE Ended \/ UNCHANGED pvars
    BY <2>9, NothingPlaced DEF Ended, pvars
  <2> QED
    BY <2>1, <2>2, <2>3, <2>4, <2>5, <2>6, <2>7, <2>8, <2>9 DEF Next
<1> QED
  BY <1>1, <1>2, PTL DEF Spec

(* Every endpoint is on nodes and GPUs that exist, and the allocator's     *)
(* cursor never leaves them, whatever the sizes: TypeOK always holds.      *)
THEOREM PlacementTypeOK == Spec => []TypeOK
<1>1. PInv => TypeOK
  BY DEF PInv
<1> QED
  BY <1>1, PlacementInvariant, PTL

(* No GPU is given to two endpoints, for any number of nodes, GPUs and     *)
(* workers, except on the last node, where prefill workers smaller than a  *)
(* node have spilled into the place of a decode worker that takes all of   *)
(* it.                                                                     *)
THEOREM PlacementSharesNoGpu == Spec => []SharedGpuOnlyOnLastNode
<1>1. PInv => SharedGpuOnlyOnLastNode
  BY DEF PInv
<1> QED
  BY <1>1, PlacementInvariant, PTL

-----------------------------------------------------------------------------
(* Blocks whose GPUs divide evenly among their workers.                    *)
Even == \A m \in Modes : Workers(res, m) > 0 => EvenSplit(m)

(* The first node a mode has asked for.                                    *)
Base(m) == IF m = "decode" THEN Or0(res.nodes["prefill"]) ELSE 0

(* With an even block the cursor is as many GPUs past the first node of    *)
(* the mode as its workers placed so far take, and so no node is missing   *)
(* and none is entered that the mode did not ask for.                      *)
EvenlyPlaced ==
    Even =>
    /\ stage # "failed"
    /\ stage \in Modes =>
          /\ index <= Workers(res, stage)
          /\ Workers(res, stage) > 0 =>
                node_idx * G + gpu_offset = Base(stage) * G + index * GpusPerWorker(res, stage)
          /\ Workers(res, "agg") > 0 /\ stage # "agg" => node_idx = 0 /\ gpu_offset = 0
    /\ \A i \in DOMAIN endpoints : \A k \in DOMAIN endpoints[i].nodes :
          endpoints[i].mode = "prefill" <=> endpoints[i].nodes[k] < Or0(res.nodes["prefill"])

(* Arithmetic: sharing GPUs out evenly, in whole nodes or in parts of one. *)
LEMMA DivMod ==
    \A x \in Nat, w \in Nat \ {0} : x = w * (x \div w) + (x % w) /\ x \div w \in Nat
  BY SMT

LEMMA TimesGrows == \A a, b, c \in Nat : a < b => a * c + c <= b * c
  BY SMT

LEMMA NodeBoundary ==
    \A a, b, o \in Nat, g \in Nat \ {0} :
        o < g => /\ a * g + o = b * g => a = b /\ o = 0
                 /\ b * g <= a * g + o => b <= a
                 /\ a * g < b * g => a < b
  BY SMT

LEMMA ModZero == \A x \in Nat, w \in Nat \ {0} : x % w = 0 => \E q \in Nat : x = q * w
  BY SMT

LEMMA SmallMod == \A x \in Nat, w \in Nat \ {0} : x < w => x % w = x
  BY SMT

LEMMA RoundedUp == \A q \in Nat, w \in Nat \ {0} : (q * w + w - 1) \div w = q
  BY SMT

(* On a node of q workers of size s a worker fits behind each but the last.*)
LEMMA FitsBehind ==
    ASSUME NEW n \in Nat, NEW b \in Nat, NEW i \in Nat, NEW q \in Nat, NEW s \in Nat \ {0},
           NEW o \in Nat, n * (q * s) + o = b * (q * s) + i * s, o < q * s
    PROVE  o + s <= q * s
<1> DEFINE c == b * q + i - n * q
<1>1. b * q \in Nat /\ n * q \in Nat /\ q * s \in Nat /\ i * s \in Nat
  BY TimesIsNat
<1>2. c \in Int
  BY <1>1
<1>3. c * s = (b * q) * s + i * s - (n * q) * s
  BY <1>1
<1>4. (b * q) * s = b * (q * s) /\ (n * q) * s = n * (q * s)
  BY SMT
<1>5. b * (q * s) \in Nat /\ n * (q * s) \in Nat
  BY <1>1, TimesIsNat
<1>6. o = c * s
  <2> HIDE DEF c
  <2> QED
    BY <1>1, <1>3, <1>4, <1>5
<1> HIDE DEF c
<1>7. c < q
  BY <1>2, <1>6
<1>8. c * s + s <= q * s
  BY <1>2, <1>7
<1> QED
  BY <1>6, <1>8

(* What an even block says of a mode that has workers.                     *)
LEMMA EvenFacts ==
    ASSUME TypeOK, Valid(res), Even, NEW m \in Modes, Workers(res, m) > 0
    PROVE  /\ res.nodes[m] \in Nat \ {0}
           /\ Base(m) \in Nat /\ Base(m) + res.nodes[m] <= NodeCount
           /\ GpusPerWorker(res, m) \in Nat \ {0}
           /\ Workers(res, m) * GpusPerWorker(res, m) = res.nodes[m] * G
           /\ WholeNodes(m) => GpusPerWorker(res, m) = NodesPerWorker(m) * G
           /\ ~WholeNodes(m) => \E q \in Nat : G = q * GpusPerWorker(res, m)
<1> DEFINE size == GpusPerWorker(res, m)
           W == Workers(res, m)
           n == res.nodes[m]
<1>1. /\ size \in Nat /\ W \in Nat \ {0} /\ G \in Nat \ {0} /\ NodeCount \in Nat
      /\ \A x \in Modes : res.nodes[x] \in Nat \cup {None}
  BY CursorNumbers DEF TypeOK, ResourceConfig
<1>2. /\ res.explicit[m] = None /\ Or0(n) > 0
      /\ (n * G) % W = 0
      /\ size > 0 /\ (G % size = 0 \/ size % G = 0)
  BY DEF Even, EvenSplit
<1>3. n \in Nat \ {0}
  BY <1>1, <1>2 DEF Or0
<1>4. size = (n * G) \div W
  BY <1>2, <1>3 DEF GpusPerWorker, OwnGpus, G
<1> HIDE DEF size, W, n
<1>5. W * size = n * G
  <2>1. n * G \in Nat
    BY <1>1, <1>3, TimesIsNat
  <2>2. n * G = W * ((n * G) \div W) + ((n * G) % W) /\ (n * G) \div W \in Nat
    BY <1>1, <2>1, DivMod
  <2>3. W * ((n * G) \div W) \in Nat
    BY <1>1, <2>2, TimesIsNat
  <2> QED
    BY <1>2, <1>4, <2>2, <2>3
<1>6. ASSUME size >= G PROVE size = NodesPerWorker(m) * G
  <2>1. size % G = 0
    BY <1>1, <1>2, <1>6, SmallMod
  <2>2. PICK q \in Nat : size = q * G
    BY <1>1, <2>1, ModZero
  <2>3. NodesPerWorker(m) = q
    BY <1>1, <2>2, RoundedUp DEF NodesPerWorker, size
  <2> QED
    BY <2>2, <2>3
<1>7. ASSUME size < G PROVE \E q \in Nat : G = q * size
  <2>1. G % size = 0
    BY <1>1, <1>2, <1>7, SmallMod
  <2>2. size \in Nat \ {0} /\ G \in Nat
    BY <1>1, <1>2
  <2> QED
    BY <2>1, <2>2, ModZero
<1>8. Base(m) \in Nat /\ Base(m) + n <= NodeCount
  <2>1. CASE m = "agg"
    <3>1. \A x \in Disaggregated : res.nodes[x] = None
      BY <2>1, <1>3, ResourcesAssumption DEF Valid, Uses, n
    <3>2. NodeCount = n
      BY <2>1, <3>1, <1>3, ResourcesAssumption DEF NodeCount, TotalNodes, Or0, n
    <3> QED
      BY <2>1, <3>2, <1>3 DEF Base
  <2>2. CASE m \in Disaggregated
    <3>1. NodeCount = Or0(res.nodes["prefill"]) + Or0(res.nodes["decode"])
      BY <2>2, <1>3, ResourcesAssumption DEF NodeCount, TotalNodes, n
    <3>2. Or0(res.nodes["prefill"]) \in Nat /\ Or0(res.nodes["decode"]) \in Nat /\ Or0(n) = n
      BY <1>1, <1>3, ResourcesAssumption DEF Or0, Modes
    <3> QED
      BY <2>2, <3>1, <3>2 DEF Base, Disaggregated, n
  <2> QED
    BY <2>1, <2>2 DEF Modes, Disaggregated
<1> QED
  BY <1>1, <1>2, <1>3, <1>5, <1>6, <1>7, <1>8 DEF WholeNodes, size, W, n

(* Placing one more worker is possible, and leaves the cursor where the    *)
(* formula of EvenlyPlaced has it.                                         *)
LEMMA EvenRoom ==
    ASSUME TypeOK, Valid(res), Even, EvenlyPlaced, Placing
    PROVE  LET size == GpusPerWorker(res, stage)
               end == node_idx * G + gpu_offset + size
           IN  /\ end = Base(stage) * G + (index + 1) * size
               /\ end <= (Base(stage) + res.nodes[stage]) * G
               /\ Base(stage) <= node_idx /\ node_idx < Base(stage) + res.nodes[stage]
               /\ WholeNodes(stage) => /\ gpu_offset = 0
                                       /\ (node_idx + NodesPerWorker(stage)) * G = end
                                       /\ node_idx + NodesPerWorker(stage) <= Base(stage) + res.nodes[stage]
               /\ ~WholeNodes(stage) => gpu_offset + size <= G
<1> DEFINE size == GpusPerWorker(res, stage)
           W == Workers(res, stage)
           n == res.nodes[stage]
           b == Base(stage)
           end == node_idx * G + gpu_offset + size
<1>1. /\ stage \in Modes /\ W \in Nat /\ W > 0 /\ index \in Nat /\ index < W
      /\ node_idx \in Nat /\ gpu_offset \in Nat /\ gpu_offset < G /\ G \in Nat \ {0}
      /\ NodesPerWorker(stage) \in Nat
  BY CursorNumbers DEF Placing
<1>2. /\ n \in Nat \ {0} /\ b \in Nat /\ size \in Nat \ {0} /\ W * size = n * G
      /\ WholeNodes(stage) => size = NodesPerWorker(stage) * G
      /\ ~WholeNodes(stage) => \E q \in Nat : G = q * size
  BY <1>1, EvenFacts
<1>3. node_idx * G + gpu_offset = b * G + index * size
  BY <1>1 DEF EvenlyPlaced
<1> HIDE DEF size, W, n, b
<1>4. /\ node_idx * G \in Nat /\ b * G \in Nat /\ index * size \in Nat /\ n * G \in Nat
      /\ (b + n) * G = b * G + n * G
      /\ (index + 1) * size = index * size + size
  BY <1>1, <1>2, TimesIsNat
<1>5. index * size + size <= n * G
  BY <1>1, <1>2, TimesGrows
<1>6. end = b * G + (index + 1) * size /\ end <= (b + n) * G
  BY <1>1, <1>2, <1>3, <1>4, <1>5
<1>7. b <= node_idx
  BY <1>1, <1>2, <1>3, <1>4, NodeBoundary
<1>8. node_idx < b + n
  <2>1. node_idx * G < (b + n) * G /\ b + n \in Nat
    BY <1>1, <1>2, <1>4, <1>6
  <2> QED
    BY <1>1, <2>1, NodeBoundary
<1>9. ASSUME WholeNodes(stage)
      PROVE  /\ gpu_offset = 0 /\ (node_idx + NodesPerWorker(stage)) * G = end
             /\ node_idx + NodesPerWorker(stage) <= b + n
  <2> DEFINE k == NodesPerWorker(stage)
  <2>1. k \in Nat /\ size = k * G
    BY <1>1, <1>2, <1>9
  <2> HIDE DEF k
  <2>2. index * (k * G) = (index * k) * G /\ index * k \in Nat
    BY <1>1, <2>1, TimesIsNat
  <2>3. (b + index * k) * G = b * G + (index * k) * G /\ b + index * k \in Nat
    BY <1>1, <1>2, <2>1, <2>2
  <2>4. node_idx * G + gpu_offset = (b + index * k) * G
    BY <1>3, <2>1, <2>2, <2>3
  <2>5. gpu_offset = 0
    <3> DEFINE c == b + index * k
    <3>1. node_idx \in Nat /\ c \in Nat /\ gpu_offset \in Nat /\ G \in Nat \ {0}
      BY <1>1, <2>3
    <3>2. gpu_offset < G /\ node_idx * G + gpu_offset = c * G
      BY <1>1, <2>4
    <3> HIDE DEF c
    <3> QED
      BY <3>1, <3>2, NodeBoundary
  <2>6. (node_idx + k) * G = node_idx * G + k * G
    BY <1>1, <2>1
  <2>7. (node_idx + k) * G = end
    BY <1>1, <1>2, <1>4, <2>1, <2>5, <2>6
  <2>8. node_idx + k \in Nat /\ b + n \in Nat /\ 0 \in Nat /\ (node_idx + k) * G <= (b + n) * G + 0
    BY <1>1, <1>2, <1>4, <1>6, <2>1, <2>7
  <2>9. node_idx + k <= b + n
    BY <1>1, <2>8, NodeBoundary
  <2> QED
    BY <2>5, <2>7, <2>9 DEF k
<1>10. ASSUME ~WholeNodes(stage) PROVE gpu_offset + size <= G
  <2>1. PICK q \in Nat : G = q * size
    BY <1>2, <1>10
  <2> QED
    BY <1>1, <1>2, <1>3, <2>1, FitsBehind
<1> QED
  BY <1>6, <1>7, <1>8, <1>9, <1>10 DEF size, n, b

(* Every step keeps an even block evenly placed.                           *)
LEMMA EvenlyStep ==
    ASSUME PInv, EvenlyPlaced, [Next]_pvars
    PROVE  EvenlyPlaced'
<1> SUFFICES ASSUME Even PROVE EvenlyPlaced'
  <2>1. Even' <=> Even
    BY BlockIsFixed DEF Even, EvenSplit
  <2> QED
    BY <2>1 DEF EvenlyPlaced
<1>1. /\ TypeOK /\ Valid(res) /\ res' = res /\ G' = G
      /\ \A m \in Modes : Workers(res, m) \in Nat
      /\ index \in Nat /\ endpoints \in Seq(EndpointType)
  BY BlockIsFixed, CursorNumbers DEF PInv, TypeOK
<1>2. Or0(res.nodes["prefill"]) \in Nat
  BY <1>1, ResourcesAssumption DEF TypeOK, ResourceConfig, Or0, Modes
<1> DEFINE Own(e) == \A k \in DOMAIN e.nodes :
                        e.mode = "prefill" <=> e.nodes[k] < Or0(res.nodes["prefill"])
<1>3. \A i \in DOMAIN endpoints : Own(endpoints[i])
  BY DEF EvenlyPlaced
<1>4. ASSUME Placing
      PROVE  /\ stage = "prefill" => Base(stage) + res.nodes[stage] = Or0(res.nodes["prefill"])
             /\ stage # "prefill" => Or0(res.nodes["prefill"]) <= Base(stage)
  <2>1. stage \in Modes /\ Workers(res, stage) > 0
    BY <1>1, <1>4 DEF Placing
  <2>2. res.nodes[stage] \in Nat \ {0}
    BY <1>1, <2>1, EvenFacts
  <2>3. CASE stage = "prefill"
    BY <2>2, <2>3, ResourcesAssumption DEF Base, Or0
  <2>4. CASE stage = "decode"
    BY <1>2, <2>4 DEF Base
  <2>5. CASE stage = "agg"
    <3>1. res.nodes["prefill"] = None
      BY <1>1, <2>2, <2>5, ResourcesAssumption DEF Valid, Uses, Disaggregated
    <3> QED
      BY <2>5, <3>1 DEF Base, Or0
  <2> QED
    BY <2>1, <2>3, <2>4, <2>5 DEF Modes
<1>5. ASSUME NEW e \in EndpointType, endpoints' = Append(endpoints, e), Own(e)
      PROVE  \A i \in DOMAIN endpoints' : Own(endpoints'[i])
  BY <1>1, <1>3, <1>5, Appended
<1>6. CASE PlaceWholeNodes
  <2> DEFINE size == GpusPerWorker(res, stage)
             k == NodesPerWorker(stage)
             new == endpoints'[Len(endpoints) + 1]
  <2>1. /\ Placing /\ WholeNodes(stage) /\ node_idx' = node_idx + k /\ index' = index + 1
        /\ UNCHANGED <<stage, gpu_offset>>
    BY <1>6 DEF PlaceWholeNodes
  <2>2. /\ stage \in Modes /\ Workers(res, stage) > 0 /\ index < Workers(res, stage)
        /\ gpu_offset \in Nat /\ node_idx \in Nat /\ k \in Nat /\ G \in Nat \ {0} /\ size \in Nat
        /\ Base(stage) \in Nat /\ res.nodes[stage] \in Nat
    BY <1>1, <2>1, CursorNumbers, EvenFacts DEF Placing
  <2>3. /\ gpu_offset = 0 /\ (node_idx + k) * G = Base(stage) * G + (index + 1) * size
        /\ Base(stage) <= node_idx /\ node_idx + k <= Base(stage) + res.nodes[stage]
    BY <1>1, <2>1, EvenRoom
  <2>4. /\ endpoints' = Append(endpoints, new) /\ new \in EndpointType /\ new.mode = stage
        /\ \A j \in DOMAIN new.nodes : new.nodes[j] >= node_idx /\ new.nodes[j] < node_idx'
    BY <1>1, <1>6, PlacedWhole
  <2> HIDE DEF new, k
  <2>5. \A j \in DOMAIN new.nodes : new.nodes[j] \in Nat
    <3>1. new.nodes \in Seq(Node)
      BY <2>4 DEF EndpointType
    <3>2. \A j \in DOMAIN new.nodes : new.nodes[j] \in Node
      BY <3>1
    <3>3. NodeCount \in Nat
      BY <1>1, CursorNumbers
    <3> QED
      BY <3>2, <3>3 DEF Node
  <2>6. Own(new)
    BY <1>2, <1>4, <2>1, <2>2, <2>3, <2>4, <2>5
  <2>7. \A i \in DOMAIN endpoints' : Own(endpoints'[i])
    BY <1>5, <2>4, <2>6
  <2>8. ~(Workers(res, "agg") > 0 /\ stage # "agg")
    BY <1>1, <2>2, OneTopology DEF Modes, Disaggregated
  <2>9. node_idx' * G + gpu_offset' = Base(stage) * G + index' * size
    BY <2>1, <2>2, <2>3, TimesIsNat
  <2> HIDE DEF size
  <2> QED
    BY <1>1, <2>1, <2>2, <2>7, <2>8, <2>9 DEF EvenlyPlaced, Base, Modes, size
<1>7. CASE PlacePartOfNode
  <2> DEFINE size == GpusPerWorker(res, stage)
             at == NextSlot(stage)
             end == at.gpu + size
             new == Endpoint(<<at.node>>, at.gpu .. end - 1)
  <2>1. Placing /\ ~WholeNodes(stage) /\ index' = index + 1 /\ UNCHANGED stage
    BY <1>7 DEF PlacePartOfNode
  <2>2. /\ stage \in Modes /\ Workers(res, stage) > 0 /\ index < Workers(res, stage)
        /\ gpu_offset \in Nat /\ node_idx \in Nat /\ G \in Nat \ {0} /\ size \in Nat
        /\ Base(stage) \in Nat /\ res.nodes[stage] \in Nat
    BY <1>1, <2>1, CursorNumbers, EvenFacts DEF Placing
  <2>3. /\ gpu_offset + size <= G
        /\ node_idx * G + gpu_offset + size = Base(stage) * G + (index + 1) * size
        /\ Base(stage) <= node_idx /\ node_idx < Base(stage) + res.nodes[stage]
    BY <1>1, <2>1, EvenRoom
  <2>4. at.node = node_idx /\ at.gpu = gpu_offset /\ end = gpu_offset + size
    BY <2>2, <2>3 DEF NextSlot
  <2>5. /\ endpoints' = Append(endpoints, new) /\ new \in EndpointType
        /\ \/ end = G /\ node_idx' = at.node + 1 /\ gpu_offset' = 0
           \/ end < G /\ node_idx' = at.node /\ gpu_offset' = end
    BY <1>1, <1>7, PlacedPart
  <2> HIDE DEF at, end
  <2>6. \/ gpu_offset + size = G /\ node_idx' = node_idx + 1 /\ gpu_offset' = 0
        \/ gpu_offset + size < G /\ node_idx' = node_idx /\ gpu_offset' = gpu_offset + size
    BY <2>4, <2>5
  <2>7. new.mode = stage /\ new.nodes = <<node_idx>>
    BY <2>4 DEF Endpoint
  <2> HIDE DEF new
  <2>8. Own(new)
    BY <1>2, <1>4, <2>1, <2>2, <2>3, <2>7
  <2>9. \A i \in DOMAIN endpoints' : Own(endpoints'[i])
    BY <1>5, <2>5, <2>8
  <2>10. ~(Workers(res, "agg") > 0 /\ stage # "agg")
    BY <1>1, <2>2, OneTopology DEF Modes, Disaggregated
  <2>11. node_idx' * G + gpu_offset' = Base(stage) * G + index' * size
    <3> HIDE DEF size
    <3>1. /\ (node_idx + 1) * G = node_idx * G + G /\ node_idx * G \in Nat
          /\ Base(stage) * G \in Nat /\ (index + 1) * size \in Nat
      BY <1>1, <2>2, TimesIsNat
    <3>2. CASE gpu_offset + size = G /\ node_idx' = node_idx + 1 /\ gpu_offset' = 0
      <4>1. node_idx' * G + gpu_offset' = node_idx * G + G
        BY <2>2, <3>1, <3>2
      <4>2. node_idx * G + G = Base(stage) * G + (index + 1) * size
        BY <2>2, <2>3, <3>1, <3>2
      <4> QED
        BY <2>1, <4>1, <4>2
    <3>3. CASE node_idx' = node_idx /\ gpu_offset' = gpu_offset + size
      <4>1. node_idx' * G + gpu_offset' = node_idx * G + gpu_offset + size
        BY <2>2, <3>1, <3>3
      <4> QED
        BY <2>1, <2>3, <4>1
    <3> QED
      BY <2>6, <3>2, <3>3
  <2> HIDE DEF size
  <2> QED
    BY <1>1, <2>1, <2>2, <2>9, <2>10, <2>11 DEF EvenlyPlaced, Base, Modes, size
<1>8. ~OutOfNodes
  <2> SUFFICES ASSUME OutOfNodes PROVE FALSE
    OBVIOUS
  <2>1. Placing /\ stage \in Modes /\ Workers(res, stage) > 0
    BY <1>1 DEF OutOfNodes, Placing
  <2>2. /\ gpu_offset \in Nat /\ node_idx \in Nat /\ G \in Nat \ {0} /\ NodeCount \in Nat
        /\ NodesPerWorker(stage) \in Nat /\ GpusPerWorker(res, stage) \in Nat
        /\ Base(stage) \in Nat /\ res.nodes[stage] \in Nat
        /\ Base(stage) + res.nodes[stage] <= NodeCount
    BY <1>1, <2>1, CursorNumbers, EvenFacts
  <2>3. CASE WholeNodes(stage)
    <3>1. node_idx + NodesPerWorker(stage) <= Base(stage) + res.nodes[stage]
      BY <1>1, <2>1, <2>3, EvenRoom
    <3> QED
      BY <2>2, <2>3, <3>1 DEF OutOfNodes
  <2>4. CASE ~WholeNodes(stage)
    <3>1. gpu_offset + GpusPerWorker(res, stage) <= G /\ node_idx < Base(stage) + res.nodes[stage]
      BY <1>1, <2>1, <2>4, EvenRoom
    <3> QED
      BY <2>2, <2>4, <3>1 DEF OutOfNodes, NextSlot
  <2> QED
    BY <2>3, <2>4
<1>9. CASE ModePlaced
  <2>1. /\ stage \in Modes /\ index = Workers(res, stage) /\ index' = 0
        /\ stage' = StageAfter(stage) /\ endpoints' = endpoints
        /\ node_idx' = IF LeaveNode(stage') THEN node_idx + 1 ELSE node_idx
        /\ gpu_offset' = IF LeaveNode(stage') THEN 0 ELSE gpu_offset
        /\ node_idx \in Nat /\ gpu_offset \in Nat /\ gpu_offset < G /\ G \in Nat \ {0}
    BY <1>1, <1>9, CursorNumbers DEF ModePlaced
  <2>2. CASE Workers(res, "agg") > 0
    <3>1. Workers(res, "prefill") = 0 /\ Workers(res, "decode") = 0
      BY <1>1, <2>2, OneTopology DEF Disaggregated
    <3>2. stage # "agg" => node_idx = 0 /\ gpu_offset = 0
      BY <2>1, <2>2 DEF EvenlyPlaced
    <3>3. stage # "agg" => node_idx' = 0 /\ gpu_offset' = 0
      BY <2>1, <3>2 DEF LeaveNode
    <3>4. Base("agg") = 0 /\ 0 * G = 0 /\ GpusPerWorker(res, "agg") \in Nat
      BY <1>1, <2>1, CursorNumbers DEF Base, Modes
    <3>5. 0 * GpusPerWorker(res, "agg") = 0
      BY <3>4
    <3> QED
      BY <1>1, <1>3, <2>1, <3>1, <3>3, <3>4, <3>5 DEF EvenlyPlaced, StageAfter, Modes, Base
  <2>3. CASE ~(Workers(res, "agg") > 0)
    <3>1. stage' # "decode" => EvenlyPlaced'
      BY <1>1, <1>3, <2>1, <2>3 DEF EvenlyPlaced, StageAfter, Modes
    <3>2. ASSUME stage' = "decode" PROVE EvenlyPlaced'
      <4>1. stage = "prefill" /\ Workers(res, "prefill") > 0
        BY <1>1, <2>1, <2>3, <3>2 DEF StageAfter, Modes, Valid, Disaggregated
      <4>2. /\ res.nodes["prefill"] \in Nat \ {0}
            /\ Workers(res, "prefill") * GpusPerWorker(res, "prefill") = res.nodes["prefill"] * G
        BY <1>1, <4>1, EvenFacts DEF Modes
      <4>3. node_idx * G + gpu_offset = 0 * G + index * GpusPerWorker(res, "prefill")
        BY <2>1, <4>1 DEF EvenlyPlaced, Base
      <4>4. node_idx * G + gpu_offset = res.nodes["prefill"] * G
        BY <2>1, <4>1, <4>2, <4>3, TimesIsNat
      <4>5. gpu_offset = 0 /\ node_idx = res.nodes["prefill"]
        BY <2>1, <4>2, <4>4, NodeBoundary, ZenonT(60)
      <4>6. gpu_offset' = 0 /\ node_idx' = Or0(res.nodes["prefill"])
        BY <2>1, <4>2, <4>5, ResourcesAssumption DEF LeaveNode, Or0
      <4>7. GpusPerWorker(res, "decode") \in Nat /\ 0 * GpusPerWorker(res, "decode") = 0
            /\ Or0(res.nodes["prefill"]) * G \in Nat
        BY <1>1, <1>2, <2>1, CursorNumbers, TimesIsNat, SMTT(30) DEF Modes
      <4>8. node_idx' * G + gpu_offset' = Or0(res.nodes["prefill"]) * G + index' * GpusPerWorker(res, "decode")
        BY <2>1, <4>6, <4>7
      <4> QED
        BY <1>1, <1>3, <2>1, <2>3, <3>2, <4>8 DEF EvenlyPlaced, Base, Modes
    <3> QED
      BY <3>1, <3>2
  <2> QED
    BY <2>2, <2>3
<1>10. CASE PortsAssigned \/ WorkersStarted \/ AssignPorts \/ StartWorker
  BY <1>1, <1>3, <1>10
  DEF PortsAssigned, WorkersStarted, AssignPorts, StartWorker, EvenlyPlaced, Modes
<1>11. CASE Ended \/ UNCHANGED pvars
  BY <1>11 DEF Ended, pvars, EvenlyPlaced, Even, EvenSplit, G, Base, WholeNodes
<1> QED
  BY <1>6, <1>7, <1>8, <1>9, <1>10, <1>11 DEF Next

(* A block whose GPUs divide evenly among its workers is placed as a whole,*)
(* each mode on the nodes it asked for, whatever the numbers are.          *)
THEOREM PlacementEvenSplitPlaced == Spec => []EvenSplitPlaced
<1>1. Init => EvenlyPlaced
  <2> SUFFICES ASSUME Init PROVE EvenlyPlaced
    OBVIOUS
  <2>1. PInv
    BY InitEstablishesPInv
  <2>2. /\ G \in Nat /\ \A m \in Modes : GpusPerWorker(res, m) \in Nat /\ Workers(res, m) \in Nat
    BY <2>1, CursorNumbers DEF PInv
  <2>3. 0 * G + 0 = 0 * G + 0 * GpusPerWorker(res, "prefill")
    BY <2>2 DEF Modes
  <2> QED
    BY <2>2, <2>3 DEF Init, EvenlyPlaced, Base, Modes
<1>2. PInv /\ EvenlyPlaced /\ [Next]_pvars => EvenlyPlaced'
  BY EvenlyStep
<1>3. EvenlyPlaced => EvenSplitPlaced
  BY DEF EvenlyPlaced, EvenSplitPlaced, Even
<1> QED
  BY <1>1, <1>2, <1>3, PlacementInvariant, PTL DEF Spec

=============================================================================

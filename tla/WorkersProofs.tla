---------------------------- MODULE WorkersProofs ----------------------------
(***************************************************************************)
(* Proofs about the processes of the placed workers: each worker has one   *)
(* leader, each process a name, ports and GPUs of its own, and so the      *)
(* addresses and the labels that Frontends derives from them are right.    *)
(***************************************************************************)
EXTENDS Frontends, PlacementProofs, FiniteSetTheorems

-----------------------------------------------------------------------------
(* The endpoints: a mode has as many as it has workers placed.             *)

(* How many workers of a mode have been placed.                            *)
PlacedOf(m) ==
    IF stage = m THEN index
    ELSE IF stage = "prefill" \/ (stage = "decode" /\ m = "agg") THEN 0
    ELSE Workers(res, m)

(* An endpoint has a node, no node twice, and GPUs side by side.           *)
Shaped(e) ==
    /\ Len(e.nodes) > 0
    /\ \A k, l \in DOMAIN e.nodes : e.nodes[k] = e.nodes[l] => k = l
    /\ \E a, b \in 0 .. G : a <= b /\ e.gpus = a .. b - 1
    /\ GpusPerWorker(res, e.mode) > 0 => e.gpus # {}

EndpointsShaped ==
    /\ \A i \in DOMAIN endpoints : Shaped(endpoints[i])
    /\ \A i, j \in DOMAIN endpoints :
          i < j /\ endpoints[j].mode = "prefill" => endpoints[i].mode = "prefill"
    /\ \A i, j \in DOMAIN endpoints :
          endpoints[i].mode = endpoints[j].mode /\ endpoints[i].index = endpoints[j].index
             => i = j

OfMode(m) == {i \in DOMAIN endpoints : endpoints[i].mode = m}

EndpointsCounted ==
    stage # "failed" =>
        /\ stage \in Modes => index <= Workers(res, stage)
        /\ \A i \in DOMAIN endpoints : endpoints[i].index < PlacedOf(endpoints[i].mode)
        /\ \A m \in Modes : Cardinality(OfMode(m)) = PlacedOf(m)

LEMMA WholeNodesAreSome ==
    \A s, g \in Nat : s >= g /\ g > 0 => (s + g - 1) \div g > 0
<1> TAKE s, g \in Nat
<1> SUFFICES ASSUME s >= g, g > 0 PROVE (s + g - 1) \div g > 0
  OBVIOUS
<1> DEFINE x == s + g - 1
           d == x \div g
<1>1. x \in Nat /\ x >= g /\ g \in Nat \ {0}
  OBVIOUS
<1> HIDE DEF x
<1>2. x = g * d + (x % g) /\ d \in Nat /\ x % g < g
  BY <1>1, DivMod
<1>3. d # 0
  <2> HIDE DEF d
  <2> QED
    BY <1>1, <1>2
<1> QED
  BY <1>2, <1>3 DEF x

(* A worker placed becomes the last endpoint, under the mode and the index *)
(* the allocator is at.                                                    *)
LEMMA PlacedEndpoint ==
    ASSUME TypeOK, PlaceWholeNodes \/ PlacePartOfNode
    PROVE  \E e \in EndpointType :
              /\ endpoints' = Append(endpoints, e)
              /\ e.mode = stage /\ e.index = index /\ Shaped(e)
<1>1. CASE PlaceWholeNodes
  <2> DEFINE count == NodesPerWorker(stage)
             nodes == [j \in 1 .. count |-> node_idx + j - 1]
             new == Endpoint(nodes, 0 .. G - 1)
  <2>1. /\ count \in Nat /\ node_idx \in Nat /\ G \in Nat \ {0} /\ stage \in Modes
        /\ GpusPerWorker(res, stage) \in Nat /\ GpusPerWorker(res, stage) >= G
    BY <1>1, CursorNumbers DEF PlaceWholeNodes, Placing, WholeNodes
  <2>2. count > 0
    BY <2>1, WholeNodesAreSome DEF NodesPerWorker
  <2>3. endpoints' = Append(endpoints, new) /\ endpoints \in Seq(EndpointType)
    BY <1>1 DEF PlaceWholeNodes, TypeOK
  <2>4. new \in EndpointType
    <3>1. endpoints'[Len(endpoints) + 1] = new
      <4> HIDE DEF new
      <4> QED
        BY <2>3
    <3> QED
      BY <1>1, <3>1, PlacedWhole
  <2>5. /\ new.mode = stage /\ new.index = index /\ new.nodes = nodes
        /\ new.gpus = 0 .. G - 1
    BY DEF Endpoint
  <2> HIDE DEF new, count
  <2>6. Len(nodes) > 0 /\ DOMAIN nodes = 1 .. count
    BY <2>1, <2>2
  <2>7. \A k, l \in DOMAIN nodes : nodes[k] = nodes[l] => k = l
    BY <2>1
  <2>8. (0 .. G - 1) # {} /\ 0 \in 0 .. G /\ G \in 0 .. G /\ 0 <= G
    BY <2>1
  <2> HIDE DEF nodes
  <2>9. Shaped(new)
    BY <2>5, <2>6, <2>7, <2>8 DEF Shaped
  <2> QED
    BY <2>3, <2>4, <2>5, <2>9
<1>2. CASE PlacePartOfNode
  <2> DEFINE at == NextSlot(stage)
             end == at.gpu + GpusPerWorker(res, stage)
             nodes == <<at.node>>
             gpus == at.gpu .. end - 1
             new == Endpoint(nodes, gpus)
  <2>1. /\ endpoints' = Append(endpoints, new) /\ new \in EndpointType
        /\ end \in Nat /\ at.gpu <= end /\ end <= G
        /\ at.gpu = gpu_offset \/ at.gpu = 0
    BY <1>2, PlacedPart
  <2>2. /\ G \in Nat \ {0} /\ gpu_offset \in Nat /\ stage \in Modes
        /\ GpusPerWorker(res, stage) \in Nat
    BY <1>2, CursorNumbers DEF PlacePartOfNode, Placing
  <2>3. /\ new.mode = stage /\ new.index = index /\ new.nodes = nodes /\ new.gpus = gpus
    BY DEF Endpoint
  <2> HIDE DEF new
  <2>4. Len(nodes) > 0 /\ \A k, l \in DOMAIN nodes : nodes[k] = nodes[l] => k = l
    OBVIOUS
  <2> HIDE DEF nodes, at
  <2>5. at.gpu \in 0 .. G /\ end \in 0 .. G /\ at.gpu <= end
    BY <2>1, <2>2
  <2>6. GpusPerWorker(res, stage) > 0 => gpus # {}
    <3> SUFFICES ASSUME GpusPerWorker(res, stage) > 0 PROVE at.gpu \in gpus
      OBVIOUS
    <3> QED
      BY <2>2, <2>5
  <2>7. \E a, b \in 0 .. G : a <= b /\ gpus = a .. b - 1
    BY <2>5
  <2> HIDE DEF gpus
  <2>8. Shaped(new)
    BY <2>3, <2>4, <2>6, <2>7 DEF Shaped
  <2> QED
    BY <2>1, <2>3, <2>8
<1> QED
  BY <1>1, <1>2

LEMMA EndpointsStep ==
    ASSUME PInv, EndpointsShaped, EndpointsCounted, [Next]_pvars
    PROVE  EndpointsShaped' /\ EndpointsCounted'
<1>1. /\ TypeOK /\ endpoints \in Seq(EndpointType) /\ index \in Nat /\ res' = res
      /\ \A m \in Modes : Workers(res, m) \in Nat
      /\ \A e : Shaped(e)' <=> Shaped(e)
  BY BlockIsFixed, CursorNumbers DEF PInv, TypeOK, Shaped
<1>2. /\ \A i \in DOMAIN endpoints : endpoints[i].mode \in Modes
      /\ DOMAIN endpoints = 1 .. Len(endpoints) /\ Len(endpoints) \in Nat
  BY <1>1, EndpointShape
<1>3. \A i \in DOMAIN endpoints : endpoints[i].index \in Nat
  <2> TAKE i \in DOMAIN endpoints
  <2>1. endpoints[i] \in EndpointType
    BY <1>1
  <2> QED
    BY <2>1 DEF EndpointType
<1>4. \A m \in Modes : IsFiniteSet(OfMode(m)) /\ OfMode(m) \subseteq DOMAIN endpoints
  <2>1. IsFiniteSet(DOMAIN endpoints)
    BY <1>2, FS_Interval
  <2>2. \A m \in Modes : OfMode(m) \subseteq DOMAIN endpoints
    BY DEF OfMode
  <2> QED
    BY <2>1, <2>2, FS_Subset
<1>5. CASE PlaceWholeNodes \/ PlacePartOfNode
  <2> DEFINE last == Len(endpoints) + 1
  <2>1. PICK e \in EndpointType : /\ endpoints' = Append(endpoints, e)
                                  /\ e.mode = stage /\ e.index = index /\ Shaped(e)
    BY <1>1, <1>5, PlacedEndpoint
  <2>2. /\ DOMAIN endpoints' = DOMAIN endpoints \cup {last} /\ endpoints'[last] = e
        /\ \A i \in DOMAIN endpoints : endpoints'[i] = endpoints[i] /\ i < last /\ i \in Nat
        /\ last \notin DOMAIN endpoints /\ last \in Nat
    BY <1>1, <1>2, <2>1, Appended
  <2>3. /\ stage \in Modes /\ stage' = stage /\ index' = index + 1
        /\ index < Workers(res, stage) /\ stage # "failed"
    BY <1>5 DEF PlaceWholeNodes, PlacePartOfNode, Placing, Modes
  <2>4. \A i \in DOMAIN endpoints : endpoints[i].index < PlacedOf(endpoints[i].mode)
    BY <2>3 DEF EndpointsCounted
  <2>5. \A m \in Modes : PlacedOf(m)' = IF m = stage THEN index + 1 ELSE PlacedOf(m)
    BY <1>1, <2>3 DEF PlacedOf
  <2>6. PlacedOf(stage) = index
    BY DEF PlacedOf
  <2> HIDE DEF last
  <2>7. \A i \in DOMAIN endpoints' : Shaped(endpoints[i])'
    BY <1>1, <2>1, <2>2 DEF EndpointsShaped
  <2>8. \A i, j \in DOMAIN endpoints' :
           i < j /\ endpoints'[j].mode = "prefill" => endpoints'[i].mode = "prefill"
    <3> SUFFICES ASSUME NEW i \in DOMAIN endpoints', NEW j \in DOMAIN endpoints',
                        i < j, endpoints'[j].mode = "prefill"
                 PROVE  endpoints'[i].mode = "prefill"
      OBVIOUS
    <3>1. i \in DOMAIN endpoints /\ endpoints'[i] = endpoints[i]
      BY <2>2
    <3>2. CASE j \in DOMAIN endpoints
      BY <2>2, <3>1, <3>2 DEF EndpointsShaped
    <3>3. CASE j = last
      BY <2>1, <2>2, <3>1, <3>3 DEF PInv, PlacedByMode
    <3> QED
      BY <2>2, <3>2, <3>3
  <2>9. \A i, j \in DOMAIN endpoints' :
           endpoints'[i].mode = endpoints'[j].mode /\ endpoints'[i].index = endpoints'[j].index
              => i = j
    <3>1. \A i \in DOMAIN endpoints : ~(endpoints[i].mode = e.mode /\ endpoints[i].index = e.index)
      BY <1>1, <1>3, <2>1, <2>4, <2>6
    <3> QED
      BY <2>2, <3>1 DEF EndpointsShaped
  <2>10. \A i \in DOMAIN endpoints' : endpoints'[i].index < PlacedOf(endpoints[i].mode)'
    <3> TAKE i \in DOMAIN endpoints'
    <3>1. CASE i \in DOMAIN endpoints
      <4>1. endpoints'[i] = endpoints[i] /\ endpoints[i].mode \in Modes /\ endpoints[i].index \in Nat
        BY <1>2, <1>3, <2>2, <3>1
      <4>2. endpoints[i].index < PlacedOf(endpoints[i].mode)'
        BY <1>1, <2>4, <2>5, <2>6, <3>1, <4>1
      <4> QED
        BY <4>1, <4>2
    <3>2. CASE i = last
      BY <1>1, <2>1, <2>2, <2>3, <2>5, <3>2
    <3> QED
      BY <2>2, <3>1, <3>2
  <2>11. \A m \in Modes : Cardinality(OfMode(m)') = PlacedOf(m)'
    <3> TAKE m \in Modes
    <3>1. Cardinality(OfMode(m)) = PlacedOf(m)
      BY <2>3 DEF EndpointsCounted
    <3>2. CASE m = stage
      <4>1. OfMode(m)' = OfMode(m) \cup {last}
        BY <2>1, <2>2, <3>2 DEF OfMode
      <4>2. last \notin OfMode(m)
        BY <2>2 DEF OfMode
      <4> QED
        BY <1>4, <2>5, <2>6, <3>1, <3>2, <4>1, <4>2, FS_AddElement
    <3>3. CASE m # stage
      <4>1. OfMode(m)' = OfMode(m)
        BY <2>1, <2>2, <3>3 DEF OfMode
      <4> QED
        BY <2>5, <3>1, <3>3, <4>1
    <3> QED
      BY <3>2, <3>3
  <2>12. index' <= Workers(res, stage)
    BY <1>1, <2>3
  <2>13. EndpointsShaped'
    BY <2>7, <2>8, <2>9 DEF EndpointsShaped
  <2> QED
    BY <1>1, <2>3, <2>10, <2>11, <2>12, <2>13 DEF EndpointsCounted
<1>6. CASE ModePlaced
  <2>1. /\ stage \in Modes /\ index = Workers(res, stage) /\ index' = 0 /\ endpoints' = endpoints
        /\ stage' = IF stage = "prefill" THEN "decode" ELSE IF stage = "decode" THEN "agg" ELSE "ports"
    BY <1>6 DEF ModePlaced, StageAfter
  <2>2. \A m \in Modes : PlacedOf(m)' = PlacedOf(m)
    BY <1>1, <2>1 DEF PlacedOf, Modes
  <2>3. stage # "failed" /\ (stage' \in Modes => 0 <= Workers(res, stage'))
    BY <1>1, <2>1 DEF Modes
  <2>4. \A m \in Modes : OfMode(m)' = OfMode(m)
    BY <2>1 DEF OfMode
  <2>5. EndpointsShaped'
    BY <1>1, <2>1 DEF EndpointsShaped
  <2> QED
    BY <1>1, <1>2, <2>1, <2>2, <2>3, <2>4, <2>5 DEF EndpointsCounted
<1>7. CASE OutOfNodes
  BY <1>1, <1>7 DEF OutOfNodes, EndpointsShaped, EndpointsCounted
<1>8. CASE ~(stage \in Modes) /\ ~(stage' \in Modes) /\ endpoints' = endpoints
           /\ (stage = "failed" => stage' = "failed")
  <2>1. \A m \in Modes : PlacedOf(m)' = PlacedOf(m) /\ OfMode(m)' = OfMode(m)
    BY <1>1, <1>8 DEF PlacedOf, OfMode, Modes
  <2> QED
    BY <1>1, <1>2, <1>8, <2>1 DEF EndpointsShaped, EndpointsCounted
<1>9. CASE UNCHANGED pvars
  BY <1>1, <1>9 DEF pvars, EndpointsShaped, EndpointsCounted, PlacedOf, OfMode
<1>10. ASSUME AssignPorts \/ PortsAssigned \/ StartWorker \/ WorkersStarted
       PROVE  ~(stage \in Modes) /\ ~(stage' \in Modes) /\ endpoints' = endpoints
              /\ (stage = "failed" => stage' = "failed")
  BY <1>10 DEF AssignPorts, PortsAssigned, StartWorker, WorkersStarted, Modes
<1> QED
  BY <1>5, <1>6, <1>7, <1>8, <1>9, <1>10 DEF Next, Ended

-----------------------------------------------------------------------------
(* The slots of an endpoint, one for each of its processes.                *)

LEMMA Quotients ==
    ASSUME NEW n \in Nat, NEW s \in Nat \ {0}, NEW x \in Nat, x < n * s
    PROVE  x \div s \in 0 .. n - 1 /\ x % s \in 0 .. s - 1
<1> DEFINE q == x \div s
<1>1. x = s * q + (x % s) /\ q \in Nat /\ x % s \in 0 .. s - 1
  BY DivMod
<1> HIDE DEF q
<1>2. q * s \in Nat /\ n * s \in Nat /\ q * s <= x
  BY <1>1, TimesIsNat
<1>3. q < n
  BY <1>1, <1>2, NodeBoundary
<1> QED
  BY <1>1, <1>3 DEF q

LEMMA LowestOfInterval ==
    ASSUME NEW a \in Nat, NEW b \in Nat, a < b
    PROVE  Lowest(a .. b - 1) = a
<1>1. a \in a .. b - 1 /\ \A h \in a .. b - 1 : a <= h
  OBVIOUS
<1>2. \A g \in a .. b - 1 : (\A h \in a .. b - 1 : g <= h) => g = a
  BY <1>1
<1> QED
  BY <1>1, <1>2 DEF Lowest

LEMMA SlotFacts ==
    ASSUME TypeOK, NEW e \in EndpointType, Shaped(e)
    PROVE  /\ Len(Slots(e)) \in Nat /\ DOMAIN Slots(e) = 1 .. Len(Slots(e))
           /\ \A k \in DOMAIN Slots(e) :
                 Slots(e)[k].node \in Node /\ Slots(e)[k].gpus \subseteq e.gpus
           /\ \A k, l \in DOMAIN Slots(e) :
                 /\ Slots(e)[k].node = Slots(e)[l].node
                 /\ e.mode \notin res.dp \/ Slots(e)[k].gpus \cap Slots(e)[l].gpus # {}
                 => k = l
           /\ e.gpus # {} => 1 \in DOMAIN Slots(e)
           /\ 1 \in DOMAIN Slots(e) => Slots(e)[1].node = e.nodes[1]
           /\ \A k \in DOMAIN Slots(e) : \E j \in DOMAIN e.nodes : Slots(e)[k].node = e.nodes[j]
<1> DEFINE n == Len(e.nodes)
           size == Cardinality(e.gpus)
<1>1. /\ e.nodes \in Seq(Node) /\ n \in Nat /\ n > 0 /\ DOMAIN e.nodes = 1 .. n
      /\ \A k \in 1 .. n : e.nodes[k] \in Node
      /\ \A k, l \in 1 .. n : e.nodes[k] = e.nodes[l] => k = l
  BY DEF EndpointType, Shaped
<1>2. CASE e.mode \notin res.dp
  <2>1. Slots(e) = [k \in 1 .. n |-> [node |-> e.nodes[k], gpus |-> e.gpus]]
    BY <1>2 DEF Slots
  <2>2. /\ Len(Slots(e)) = n /\ DOMAIN Slots(e) = 1 .. n
        /\ \A k \in 1 .. n : Slots(e)[k].node = e.nodes[k] /\ Slots(e)[k].gpus = e.gpus
    BY <1>1, <2>1
  <2>3. 1 \in 1 .. n
    BY <1>1
  <2> HIDE DEF n
  <2> QED
    BY <1>1, <2>2, <2>3
<1>3. CASE e.mode \in res.dp
  <2>1. PICK a, b \in 0 .. G : a <= b /\ e.gpus = a .. b - 1
    BY DEF Shaped
  <2>2. G \in Nat /\ a \in Nat /\ b \in Nat
    BY <2>1, CursorNumbers
  <2>3. size = b - a
    <3>1. Cardinality(a .. b - 1) = IF a > b - 1 THEN 0 ELSE (b - 1) - a + 1
      BY <2>2, FS_Interval
    <3> QED
      BY <2>1, <2>2, <3>1
  <2>4. Slots(e) = [k \in 1 .. n * size |->
                       [node |-> e.nodes[(k - 1) \div size + 1],
                        gpus |-> {Lowest(e.gpus) + ((k - 1) % size)}]]
    BY <1>3 DEF Slots
  <2> HIDE DEF n, size
  <2>5. size \in Nat /\ n * size \in Nat
    BY <1>1, <2>1, <2>2, <2>3, TimesIsNat
  <2> DEFINE count == n * size
  <2>6. /\ Len(Slots(e)) = count /\ DOMAIN Slots(e) = 1 .. count
        /\ \A k \in 1 .. count :
              /\ Slots(e)[k].node = e.nodes[(k - 1) \div size + 1]
              /\ Slots(e)[k].gpus = {Lowest(e.gpus) + ((k - 1) % size)}
    <3> HIDE DEF count
    <3> QED
      BY <2>4, <2>5 DEF count
  <2>7. CASE size = 0
    <3>1. count = 0 /\ e.gpus = {}
      BY <1>1, <2>1, <2>2, <2>3, <2>7
    <3> QED
      BY <2>5, <2>6, <3>1
  <2>8. CASE size > 0
    <3>1. a < b /\ Lowest(e.gpus) = a
      BY <2>1, <2>2, <2>3, <2>8, LowestOfInterval
    <3>2. \A k \in 1 .. count : /\ (k - 1) \div size \in 0 .. n - 1
                                /\ (k - 1) % size \in 0 .. size - 1
                                /\ k - 1 = size * ((k - 1) \div size) + ((k - 1) % size)
      <4> TAKE k \in 1 .. count
      <4>1. k - 1 \in Nat /\ k - 1 < n * size /\ size \in Nat \ {0}
        BY <2>5, <2>8
      <4> QED
        BY <1>1, <4>1, Quotients, DivMod
    <3>3. \A k \in 1 .. count : Slots(e)[k].node \in Node /\ Slots(e)[k].gpus \subseteq e.gpus
      <4> TAKE k \in 1 .. count
      <4>1. (k - 1) \div size + 1 \in 1 .. n
        BY <1>1, <3>2
      <4>2. a + ((k - 1) % size) \in a .. b - 1
        BY <2>2, <2>3, <3>2
      <4> QED
        BY <1>1, <2>1, <2>6, <3>1, <4>1, <4>2
    <3>4. ASSUME NEW k \in 1 .. count, NEW l \in 1 .. count,
                 Slots(e)[k].node = Slots(e)[l].node, Slots(e)[k].gpus \cap Slots(e)[l].gpus # {}
          PROVE  k = l
      <4> DEFINE qk == (k - 1) \div size
                 ql == (l - 1) \div size
                 rk == (k - 1) % size
                 rl == (l - 1) % size
      <4>1. /\ qk \in 0 .. n - 1 /\ ql \in 0 .. n - 1 /\ rk \in 0 .. size - 1 /\ rl \in 0 .. size - 1
            /\ k - 1 = size * qk + rk /\ l - 1 = size * ql + rl
        BY <3>2
      <4>2. e.nodes[qk + 1] = e.nodes[ql + 1] /\ {a + rk} \cap {a + rl} # {}
        BY <2>6, <3>1, <3>4
      <4> HIDE DEF qk, ql, rk, rl
      <4>3. qk + 1 \in 1 .. n /\ ql + 1 \in 1 .. n
        BY <1>1, <4>1
      <4>4. qk + 1 = ql + 1 /\ a + rk = a + rl
        BY <1>1, <4>2, <4>3
      <4>5. qk = ql /\ rk = rl
        BY <1>1, <2>2, <2>5, <4>1, <4>4
      <4>6. k - 1 = l - 1
        BY <4>1, <4>5
      <4> QED
        BY <2>5, <4>6
    <3>5. 1 \in 1 .. count
      BY <1>1, <2>5, <2>8, NodeBoundary
    <3>6. Slots(e)[1].node = e.nodes[1]
      <4>1. 0 \div size = 0
        BY <2>5, <2>8
      <4> QED
        BY <2>6, <3>5, <4>1
    <3>7. \A k \in 1 .. count : \E j \in 1 .. n : Slots(e)[k].node = e.nodes[j]
      <4> TAKE k \in 1 .. count
      <4>1. (k - 1) \div size + 1 \in 1 .. n
        BY <1>1, <3>2
      <4> QED
        BY <2>6, <4>1
    <3> HIDE DEF count
    <3> QED
      BY <1>1, <1>3, <2>5, <2>6, <3>3, <3>4, <3>5, <3>6, <3>7 DEF count
  <2> QED
    BY <2>5, <2>7, <2>8
<1> QED
  BY <1>2, <1>3

-----------------------------------------------------------------------------
(* The processes: each belongs to an endpoint and to a slot of it.         *)

ProcessType ==
    [node : Node, gpus : SUBSET (0 .. G - 1), mode : Modes, index : Nat, rank : Nat, http : Nat,
     bootstrap : Nat \cup {None}, sys : Nat, kv_events : Nat, nixl : Nat]

(* How many endpoints have been given their processes.                     *)
Assigned ==
    IF stage = "ports" THEN index
    ELSE IF stage \in {"start", "running"} THEN Len(endpoints) ELSE 0

From(p, e) ==
    /\ p.mode = e.mode /\ p.index = e.index
    /\ \E k \in DOMAIN Slots(e) :
          p.rank = k - 1 /\ p.node = Slots(e)[k].node /\ p.gpus = Slots(e)[k].gpus

Entry(p, i) ==
    /\ \E e \in 1 .. Assigned : From(p, endpoints[e])
    /\ p.sys = 8080 + i
    /\ p.rank = 0 => p.http \in Nat /\ p.http < http_ports[p.node]
    /\ (p.rank = 0 /\ p.mode = "prefill") => p.bootstrap # None

(* What two entries have in common only if they are one.                   *)
Apart(p, q) ==
    /\ ~(p.mode = q.mode /\ p.index = q.index /\ p.rank = q.rank)
    /\ ~(p.rank = 0 /\ q.rank = 0 /\ p.node = q.node /\ p.http = q.http)
    /\ q.mode = "prefill" => p.mode = "prefill"

ProcessesAssigned ==
    /\ Assigned \in 0 .. Len(endpoints)
    /\ processes \in Seq(ProcessType)
    /\ \A i \in DOMAIN processes : Entry(processes[i], i)
    /\ \A i, j \in DOMAIN processes : i < j => Apart(processes[i], processes[j])

LeadersOf(ms) == {i \in DOMAIN processes : processes[i].rank = 0 /\ processes[i].mode \in ms}

AssignedOf(ms) == {i \in 1 .. Assigned : endpoints[i].mode \in ms}

Sized == \A m \in Modes : Workers(res, m) > 0 => GpusPerWorker(res, m) > 0

LeadersCounted ==
    Sized => \A ms \in SUBSET Modes : Cardinality(LeadersOf(ms)) = Cardinality(AssignedOf(ms))

WInv ==
    /\ PInv
    /\ EndpointsShaped
    /\ EndpointsCounted
    /\ ProcessesAssigned
    /\ LeadersCounted

LEMMA Concatenated ==
    ASSUME NEW S, NEW s \in Seq(S), NEW t \in Seq(S), NEW r, r = s \o t
    PROVE  /\ r \in Seq(S) /\ DOMAIN r = 1 .. Len(s) + Len(t)
           /\ \A i \in 1 .. Len(s) : r[i] = s[i]
           /\ \A i \in Len(s) + 1 .. Len(s) + Len(t) : r[i] = t[i - Len(s)]
  OBVIOUS

(* What endpoints_to_processes() adds for one endpoint.                    *)
LEMMA Added ==
    ASSUME WInv, AssignPorts
    PROVE  LET e == endpoints[index + 1]
               s == Slots(e)
               n == Len(processes)
           IN  /\ index + 1 \in DOMAIN endpoints /\ e \in EndpointType /\ Shaped(e)
               /\ n \in Nat /\ Len(s) \in Nat /\ DOMAIN s = 1 .. Len(s)
               /\ DOMAIN processes = 1 .. n
               /\ processes' \in Seq(ProcessType)
               /\ DOMAIN processes' = 1 .. n + Len(s)
               /\ \A i \in 1 .. n : processes'[i] = processes[i]
               /\ \A i \in n + 1 .. n + Len(s) :
                     processes'[i] = Process(e, s[i - n], i - n - 1, i - 1)
<1> DEFINE e == endpoints[index + 1]
           s == Slots(e)
           n == Len(processes)
           more == [k \in DOMAIN s |-> Process(e, s[k], k - 1, n + k - 1)]
<1>1. /\ TypeOK /\ index \in Nat /\ endpoints \in Seq(EndpointType) /\ index < Len(endpoints)
      /\ processes \in Seq(ProcessType) /\ processes' = processes \o more
      /\ http_ports \in [Node -> Nat] /\ bootstrap_ports \in [Node -> Nat]
  BY CursorNumbers, SMTT(30) DEF WInv, PInv, TypeOK, AssignPorts, ProcessesAssigned
<1>2. index + 1 \in DOMAIN endpoints
  BY <1>1
<1>3. e \in EndpointType /\ Shaped(e)
  BY <1>1, <1>2 DEF WInv, EndpointsShaped
<1>4. n \in Nat /\ DOMAIN processes = 1 .. n
  BY <1>1
<1>5. /\ e.mode \in Modes /\ e.index \in Nat /\ e.nodes \in Seq(Node) /\ Len(e.nodes) > 0
      /\ e.gpus \in SUBSET (0 .. G - 1)
  BY <1>3 DEF EndpointType, Shaped
<1>6. /\ Len(s) \in Nat /\ DOMAIN s = 1 .. Len(s)
      /\ \A k \in DOMAIN s : s[k].node \in Node /\ s[k].gpus \subseteq e.gpus
  BY <1>1, <1>3, SlotFacts
<1> HIDE DEF e, s, n
<1>7. \A k \in DOMAIN s : Process(e, s[k], k - 1, n + k - 1) \in ProcessType
  <2> TAKE k \in DOMAIN s
  <2>1. k - 1 \in Nat /\ n + k - 1 \in Nat
    BY <1>4, <1>6
  <2>2. http_ports[s[k].node] \in Nat
    BY <1>1, <1>6
  <2>3. bootstrap_ports[e.nodes[1]] \in Nat
    <3>1. e.nodes[1] \in Node
      BY <1>5
    <3> QED
      BY <1>1, <3>1
  <2>4. BootstrapPort(e, k - 1) \in Nat \cup {None}
    BY <2>3 DEF BootstrapPort
  <2>5. (IF k - 1 = 0 THEN http_ports[s[k].node] ELSE 0) \in Nat
    BY <2>2
  <2>6. /\ 8081 + (n + k - 1) \in Nat /\ 5550 + (n + k - 1) \in Nat /\ 6550 + (n + k - 1) \in Nat
    BY <2>1
  <2> QED
    BY <1>5, <1>6, <2>1, <2>4, <2>5, <2>6 DEF Process, ProcessType
<1>8. more \in Seq(ProcessType) /\ Len(more) = Len(s) /\ DOMAIN more = 1 .. Len(s)
  BY <1>6, <1>7
<1>9. /\ processes' \in Seq(ProcessType) /\ DOMAIN processes' = 1 .. n + Len(s)
      /\ \A i \in 1 .. n : processes'[i] = processes[i]
      /\ \A i \in n + 1 .. n + Len(s) : processes'[i] = more[i - n]
  <2> HIDE DEF more
  <2>1. /\ processes \in Seq(ProcessType) /\ more \in Seq(ProcessType)
        /\ processes' = processes \o more
    BY <1>1, <1>8
  <2>2. /\ processes' \in Seq(ProcessType)
        /\ DOMAIN processes' = 1 .. Len(processes) + Len(more)
        /\ \A i \in 1 .. Len(processes) : processes'[i] = processes[i]
        /\ \A i \in Len(processes) + 1 .. Len(processes) + Len(more) :
              processes'[i] = more[i - Len(processes)]
    BY <2>1, Concatenated
  <2> QED
    BY <1>8, <2>2 DEF n
<1>10. \A i \in n + 1 .. n + Len(s) : processes'[i] = Process(e, s[i - n], i - n - 1, i - 1)
  <2> TAKE i \in n + 1 .. n + Len(s)
  <2>1. i - n \in DOMAIN s /\ n + (i - n) - 1 = i - 1
    BY <1>4, <1>6
  <2> QED
    BY <1>9, <2>1
<1> QED
  BY <1>2, <1>3, <1>4, <1>6, <1>9, <1>10 DEF e, s, n

(* The endpoint's processes are apart from the earlier ones and from each  *)
(* other.                                                                  *)
LEMMA AssignStep ==
    ASSUME WInv, AssignPorts
    PROVE  ProcessesAssigned'
<1> DEFINE e == endpoints[index + 1]
           s == Slots(e)
           n == Len(processes)
           leader == e.nodes[1]
<1>1. [Next]_pvars
  BY DEF Next
<1>2. /\ TypeOK /\ res' = res /\ ProcessType' = ProcessType
      /\ stage = "ports" /\ stage' = "ports" /\ index' = index + 1 /\ endpoints' = endpoints
      /\ index \in Nat /\ Len(endpoints) \in Nat /\ index < Len(endpoints)
      /\ endpoints \in Seq(EndpointType)
      /\ http_ports \in [Node -> Nat] /\ bootstrap_ports \in [Node -> Nat]
  <2>1. TypeOK /\ res' = res /\ Node' = Node /\ G' = G
    BY <1>1, BlockIsFixed DEF WInv, PInv
  <2>2. /\ stage = "ports" /\ stage' = stage /\ index' = index + 1 /\ endpoints' = endpoints
        /\ index < Len(endpoints)
    BY DEF AssignPorts
  <2>3. ProcessType' = ProcessType
    BY <2>1 DEF ProcessType
  <2> QED
    BY <2>1, <2>2, <2>3 DEF TypeOK
<1>3. /\ index + 1 \in DOMAIN endpoints /\ e \in EndpointType /\ Shaped(e)
      /\ n \in Nat /\ Len(s) \in Nat /\ DOMAIN s = 1 .. Len(s) /\ DOMAIN processes = 1 .. n
      /\ processes' \in Seq(ProcessType) /\ DOMAIN processes' = 1 .. n + Len(s)
      /\ \A i \in 1 .. n : processes'[i] = processes[i]
      /\ \A i \in n + 1 .. n + Len(s) : processes'[i] = Process(e, s[i - n], i - n - 1, i - 1)
  BY Added
<1>4. /\ e.mode \in Modes /\ e.index \in Nat /\ leader \in Node
      /\ \A k \in DOMAIN s : s[k].node \in Node
      /\ 1 \in DOMAIN s => s[1].node = leader
  <2>1. e.nodes \in Seq(Node) /\ Len(e.nodes) > 0
    BY <1>3 DEF EndpointType, Shaped
  <2>2. leader \in Node
    BY <2>1
  <2> QED
    BY <1>2, <1>3, <2>2, SlotFacts DEF EndpointType
<1>5. http_ports' = IF Len(s) = 0 THEN http_ports ELSE [http_ports EXCEPT ![leader] = @ + 1000]
  BY DEF AssignPorts
<1>6. \A i \in DOMAIN processes : Entry(processes[i], i) /\ processes[i].node \in Node
                                  /\ processes[i].rank \in Nat
  <2> TAKE i \in DOMAIN processes
  <2>1. processes[i] \in ProcessType
    BY DEF WInv, ProcessesAssigned
  <2> QED
    BY <2>1 DEF WInv, ProcessesAssigned, ProcessType
<1> HIDE DEF e, s, n, leader
<1>7. \A i \in n + 1 .. n + Len(s) :
         /\ i - n \in DOMAIN s /\ i \in Nat
         /\ processes'[i].mode = e.mode /\ processes'[i].index = e.index
         /\ processes'[i].rank = (i - n) - 1
         /\ processes'[i].node = s[i - n].node /\ processes'[i].gpus = s[i - n].gpus
         /\ processes'[i].http = IF i = n + 1 THEN http_ports[s[1].node] ELSE 0
         /\ processes'[i].bootstrap = BootstrapPort(e, (i - n) - 1)
         /\ processes'[i].sys = 8080 + i
  <2> TAKE i \in n + 1 .. n + Len(s)
  <2>1. processes'[i] = Process(e, s[i - n], i - n - 1, i - 1) /\ i \in Nat /\ i - n \in 1 .. Len(s)
    BY <1>3
  <2> QED
    <3> DEFINE k == i - n
    <3>1. /\ k \in DOMAIN s /\ (k - 1 = 0 <=> i = n + 1) /\ (k - 1 = 0 => s[k] = s[1])
          /\ 8081 + (i - 1) = 8080 + i
      BY <1>3, <2>1
    <3>2. processes'[i] = Process(e, s[k], k - 1, i - 1)
      BY <2>1
    <3> HIDE DEF k
    <3>3. /\ processes'[i].mode = e.mode /\ processes'[i].index = e.index
          /\ processes'[i].rank = k - 1
          /\ processes'[i].node = s[k].node /\ processes'[i].gpus = s[k].gpus
          /\ processes'[i].http = IF k - 1 = 0 THEN http_ports[s[k].node] ELSE 0
          /\ processes'[i].bootstrap = BootstrapPort(e, k - 1)
          /\ processes'[i].sys = 8081 + (i - 1)
      BY <3>2 DEF Process
    <3> QED
      BY <2>1, <3>1, <3>3 DEF k
<1>8. Assigned = index /\ Assigned' = index + 1
  BY <1>2 DEF Assigned
<1>9. \A x \in Node : http_ports[x] \in Nat /\ http_ports'[x] \in Nat
                        /\ http_ports'[x] >= http_ports[x]
  <2>1. CASE Len(s) = 0
    BY <1>2, <1>5, <2>1
  <2>2. CASE Len(s) # 0
    BY <1>2, <1>4, <1>5, <2>2
  <2> QED
    BY <2>1, <2>2
<1>f. \A p, x : From(p, x)' <=> From(p, x)
  BY <1>2 DEF From, Slots
<1>10. ASSUME NEW i \in n + 1 .. n + Len(s) PROVE Entry(processes[i], i)'
  <2>1. From(processes'[i], e)
    BY <1>7 DEF From, s
  <2>3. (\E x \in 1 .. Assigned : From(processes[i], endpoints[x]))'
    BY <1>2, <1>8, <1>f, <2>1 DEF e
  <2>4. ASSUME processes'[i].rank = 0
        PROVE  /\ i = n + 1 /\ processes'[i].node = leader
               /\ processes'[i].http = http_ports[leader]
               /\ http_ports'[leader] = http_ports[leader] + 1000
    <3>1. i = n + 1
      BY <1>3, <1>7, <2>4
    <3>2. 1 \in DOMAIN s /\ s[1].node = leader /\ Len(s) # 0 /\ i - n = 1
      BY <1>3, <1>4, <1>7, <3>1
    <3> QED
      BY <1>2, <1>4, <1>5, <1>7, <3>1, <3>2
  <2>5. processes'[i].rank = 0 =>
           processes'[i].http \in Nat /\ processes'[i].http < http_ports'[processes'[i].node]
    BY <1>4, <1>9, <2>4
  <2>6. (processes'[i].rank = 0 /\ processes'[i].mode = "prefill") => processes'[i].bootstrap # None
    <3>1. bootstrap_ports[leader] # None
      BY <1>2, <1>4, ResourcesAssumption
    <3> QED
      BY <1>7, <3>1 DEF BootstrapPort, leader
  <2> QED
    BY <1>7, <2>3, <2>5, <2>6 DEF Entry
<1>11. ASSUME NEW i \in 1 .. n PROVE Entry(processes[i], i)'
  <2>1. /\ processes'[i] = processes[i] /\ Entry(processes[i], i) /\ processes[i].node \in Node
    BY <1>3, <1>6
  <2>2. PICK x \in 1 .. Assigned : From(processes[i], endpoints[x])
    BY <2>1 DEF Entry
  <2>4. (\E y \in 1 .. Assigned : From(processes[i], endpoints[y]))'
    BY <1>2, <1>8, <1>f, <2>1, <2>2
  <2>5. processes[i].rank = 0 =>
           processes[i].http \in Nat /\ processes[i].http < http_ports'[processes[i].node]
    BY <1>9, <2>1 DEF Entry
  <2> QED
    BY <2>1, <2>4, <2>5 DEF Entry
<1>12. ASSUME NEW i \in 1 .. n, NEW j \in n + 1 .. n + Len(s)
       PROVE  Apart(processes'[i], processes'[j])
  <2>1. /\ processes'[i] = processes[i] /\ Entry(processes[i], i)
    BY <1>3, <1>6
  <2>2. PICK x \in 1 .. index : From(processes[i], endpoints[x])
    BY <1>8, <2>1 DEF Entry
  <2>3. x \in DOMAIN endpoints /\ x < index + 1
    BY <1>2, <2>2
  <2>4. ~(processes[i].mode = e.mode /\ processes[i].index = e.index)
    BY <1>3, <2>2, <2>3 DEF From, WInv, EndpointsShaped, e
  <2>5. e.mode = "prefill" => processes[i].mode = "prefill"
    BY <1>3, <2>2, <2>3 DEF From, WInv, EndpointsShaped, e
  <2>6. ASSUME processes[i].rank = 0, processes'[j].rank = 0,
               processes[i].node = processes'[j].node, processes[i].http = processes'[j].http
        PROVE  FALSE
    <3>1. j = n + 1
      BY <1>3, <1>7, <2>6, SMTT(30)
    <3>2. processes'[j].http = http_ports[s[1].node] /\ processes'[j].node = s[1].node
      BY <1>3, <1>7, <3>1
    <3>3. processes[i].http < http_ports[processes[i].node] /\ processes[i].http \in Nat
      BY <2>1, <2>6 DEF Entry
    <3> QED
      BY <2>6, <3>2, <3>3
  <2> QED
    BY <1>7, <2>1, <2>4, <2>5, <2>6 DEF Apart
<1>13. ASSUME NEW i \in n + 1 .. n + Len(s), NEW j \in n + 1 .. n + Len(s), i < j
       PROVE  Apart(processes'[i], processes'[j])
  <2>1. /\ processes'[i].rank = (i - n) - 1 /\ processes'[j].rank = (j - n) - 1
        /\ processes'[i].mode = e.mode /\ processes'[j].mode = e.mode
    BY <1>7
  <2>2. processes'[i].rank # processes'[j].rank
    BY <1>3, <1>13, <2>1
  <2> QED
    BY <2>1, <2>2 DEF Apart
<1>14. ASSUME NEW i \in DOMAIN processes', NEW j \in DOMAIN processes', i < j
       PROVE  Apart(processes'[i], processes'[j])
  <2>1. CASE i \in 1 .. n /\ j \in 1 .. n
    BY <1>3, <1>14, <2>1 DEF WInv, ProcessesAssigned
  <2>2. CASE i \in 1 .. n /\ j \in n + 1 .. n + Len(s)
    BY <1>12, <2>2
  <2>3. CASE i \in n + 1 .. n + Len(s) /\ j \in n + 1 .. n + Len(s)
    BY <1>13, <1>14, <2>3
  <2> QED
    BY <1>3, <1>14, <2>1, <2>2, <2>3
<1>15. \A i \in DOMAIN processes' : Entry(processes[i], i)'
  <2>1. \A i \in DOMAIN processes' : i \in 1 .. n \/ i \in n + 1 .. n + Len(s)
    BY <1>3
  <2> QED
    BY <1>10, <1>11, <2>1
<1>16. \A i, j \in DOMAIN processes' : i < j => Apart(processes[i], processes[j])'
  BY <1>14 DEF Apart
<1> QED
  BY <1>2, <1>3, <1>8, <1>15, <1>16 DEF ProcessesAssigned

(* A mode that has an endpoint has workers.                                *)
LEMMA EndpointsHaveWorkers ==
    ASSUME WInv, stage \notin Modes, stage # "failed", NEW i \in DOMAIN endpoints
    PROVE  endpoints[i].mode \in Modes /\ Workers(res, endpoints[i].mode) > 0
<1>1. endpoints[i] \in EndpointType /\ TypeOK
  BY DEF WInv, PInv, TypeOK
<1>2. endpoints[i].mode \in Modes /\ endpoints[i].index \in Nat
  BY <1>1 DEF EndpointType
<1>3. endpoints[i].index < PlacedOf(endpoints[i].mode)
  BY DEF WInv, EndpointsCounted
<1>4. PlacedOf(endpoints[i].mode) = Workers(res, endpoints[i].mode)
  BY <1>2 DEF PlacedOf, Modes
<1>5. Workers(res, endpoints[i].mode) \in Nat
  BY <1>1, <1>2, CursorNumbers
<1> QED
  BY <1>2, <1>3, <1>4, <1>5

(* Each endpoint adds one leader.                                          *)
LEMMA LeaderStep ==
    ASSUME WInv, AssignPorts
    PROVE  LeadersCounted'
<1> DEFINE e == endpoints[index + 1]
           s == Slots(e)
           n == Len(processes)
<1>1. [Next]_pvars
  BY DEF Next
<1>2. res' = res /\ TypeOK
  BY <1>1, BlockIsFixed DEF WInv, PInv
<1>3. /\ stage = "ports" /\ stage' = stage /\ index' = index + 1 /\ endpoints' = endpoints
      /\ index \in Nat
  BY <1>2, CursorNumbers DEF AssignPorts
<1>4. Sized' <=> Sized
  BY <1>2 DEF Sized
<1> SUFFICES ASSUME Sized, NEW ms \in SUBSET Modes
             PROVE  Cardinality(LeadersOf(ms)') = Cardinality(AssignedOf(ms)')
  BY <1>4 DEF LeadersCounted
<1>5. /\ index + 1 \in DOMAIN endpoints /\ e \in EndpointType /\ Shaped(e)
      /\ n \in Nat /\ Len(s) \in Nat /\ DOMAIN s = 1 .. Len(s) /\ DOMAIN processes = 1 .. n
      /\ DOMAIN processes' = 1 .. n + Len(s)
      /\ \A i \in 1 .. n : processes'[i] = processes[i]
      /\ \A i \in n + 1 .. n + Len(s) : processes'[i] = Process(e, s[i - n], i - n - 1, i - 1)
  BY Added
<1>6. 1 \in DOMAIN s
  <2>1. e.mode \in Modes /\ Workers(res, e.mode) > 0
    BY <1>3, <1>5, EndpointsHaveWorkers DEF Modes
  <2>2. e.gpus # {}
    BY <1>5, <2>1 DEF Sized, Shaped
  <2> QED
    BY <1>2, <1>5, <2>2, SlotFacts
<1>7. Assigned = index /\ Assigned' = index + 1
  BY <1>3 DEF Assigned
<1> HIDE DEF e, s, n
<1>8. \A i \in n + 1 .. n + Len(s) :
         processes'[i].mode = e.mode /\ (processes'[i].rank = 0 <=> i = n + 1)
  <2> TAKE i \in n + 1 .. n + Len(s)
  <2>1. processes'[i].mode = e.mode /\ processes'[i].rank = i - n - 1
    <3>1. processes'[i] = Process(e, s[i - n], i - n - 1, i - 1)
      BY <1>5
    <3> QED
      BY <3>1 DEF Process
  <2> QED
    BY <1>5, <2>1
<1>9. IsFiniteSet(LeadersOf(ms)) /\ LeadersOf(ms) \subseteq 1 .. n
  <2>1. LeadersOf(ms) \subseteq 1 .. n
    BY <1>5 DEF LeadersOf
  <2> QED
    <3>1. IsFiniteSet(1 .. n)
      BY <1>5, FS_Interval
    <3> QED
      BY <2>1, <3>1, FS_Subset
<1>10. IsFiniteSet(AssignedOf(ms)) /\ AssignedOf(ms) \subseteq 1 .. index
  <2>1. AssignedOf(ms) \subseteq 1 .. index
    BY <1>7 DEF AssignedOf
  <2> QED
    <3>1. IsFiniteSet(1 .. index)
      BY <1>3, FS_Interval
    <3> QED
      BY <2>1, <3>1, FS_Subset
<1>11. Cardinality(LeadersOf(ms)) = Cardinality(AssignedOf(ms))
  BY DEF WInv, LeadersCounted
<1>12. n + 1 \notin LeadersOf(ms) /\ index + 1 \notin AssignedOf(ms)
  BY <1>3, <1>5, <1>9, <1>10
<1>13. CASE e.mode \in ms
  <2>1. LeadersOf(ms)' = LeadersOf(ms) \cup {n + 1}
    BY <1>5, <1>6, <1>8, <1>13 DEF LeadersOf
  <2>2. AssignedOf(ms)' = AssignedOf(ms) \cup {index + 1}
    BY <1>3, <1>7, <1>13 DEF AssignedOf, e
  <2> QED
    <3>1. Cardinality(LeadersOf(ms) \cup {n + 1}) = Cardinality(LeadersOf(ms)) + 1
      BY <1>9, <1>12, FS_AddElement
    <3>2. Cardinality(AssignedOf(ms) \cup {index + 1}) = Cardinality(AssignedOf(ms)) + 1
      BY <1>10, <1>12, FS_AddElement
    <3> QED
      BY <1>11, <2>1, <2>2, <3>1, <3>2
<1>14. CASE e.mode \notin ms
  <2>1. LeadersOf(ms)' = LeadersOf(ms)
    BY <1>5, <1>6, <1>8, <1>14 DEF LeadersOf
  <2>2. AssignedOf(ms)' = AssignedOf(ms)
    BY <1>3, <1>7, <1>14 DEF AssignedOf, e
  <2> QED
    BY <1>11, <2>1, <2>2
<1> QED
  BY <1>13, <1>14

(* No other step touches the processes or the ports.                       *)
LEMMA ProcessesKept ==
    ASSUME WInv, [Next]_pvars, ~AssignPorts
    PROVE  ProcessesAssigned' /\ LeadersCounted'
<1>1. /\ TypeOK /\ res' = res /\ ProcessType' = ProcessType
      /\ endpoints \in Seq(EndpointType) /\ Len(endpoints) \in Nat
  <2>1. TypeOK /\ res' = res /\ Node' = Node /\ G' = G
    BY BlockIsFixed DEF WInv, PInv
  <2>2. ProcessType' = ProcessType
    BY <2>1 DEF ProcessType
  <2> QED
    BY <2>1, <2>2 DEF TypeOK
<1>2. /\ processes' = processes /\ http_ports' = http_ports
      /\ \/ endpoints' = endpoints
         \/ stage \in Modes /\ stage' = stage
  BY DEF Next, pvars, allocator, PlaceWholeNodes, PlacePartOfNode, OutOfNodes, ModePlaced,
     PortsAssigned, StartWorker, WorkersStarted, Ended, Placing
<1>3. Assigned' = Assigned
  <2>1. /\ stage \in Modes => stage' \in Modes \cup {"failed"} \/ (stage' = "ports" /\ index' = 0)
        /\ stage = "ports" => \/ stage' = "ports" /\ index' = index
                              \/ stage' = "start" /\ index = Len(endpoints)
        /\ stage \in {"start", "running"} => stage' \in {"start", "running"}
        /\ stage = "failed" => stage' = "failed"
    BY DEF Next, pvars, PlaceWholeNodes, PlacePartOfNode, OutOfNodes, ModePlaced, StageAfter,
       PortsAssigned, StartWorker, WorkersStarted, Ended, Placing, Modes
  <2>2. stage \in Modes \cup {"ports", "start", "running", "failed"}
    BY <1>1 DEF TypeOK
  <2> QED
    BY <1>2, <2>1, <2>2 DEF Assigned, Modes
<1>4. Assigned \in 0 .. Len(endpoints)
  BY DEF WInv, ProcessesAssigned
<1>5. Assigned \in 0 .. Len(endpoints)'
  <2>1. CASE endpoints' = endpoints
    BY <1>4, <2>1
  <2>2. CASE stage \in Modes /\ stage' = stage
    <3>1. Assigned = 0
      BY <2>2 DEF Assigned, Modes
    <3>2. TypeOK'
      BY TypeOKStep DEF WInv, PInv
    <3>3. Len(endpoints') \in Nat
      BY <3>2 DEF TypeOK
    <3> QED
      BY <3>1, <3>3
  <2> QED
    BY <1>2, <2>1, <2>2
<1>6. \A x \in 1 .. Assigned : endpoints'[x] = endpoints[x]
  <2>1. CASE endpoints' = endpoints
    BY <2>1
  <2>2. CASE stage \in Modes /\ stage' = stage
    <3>1. Assigned = 0
      BY <2>2 DEF Assigned, Modes
    <3> QED
      BY <3>1
  <2> QED
    BY <1>2, <2>1, <2>2
<1>7. \A p, x : From(p, x)' <=> From(p, x)
  BY <1>1 DEF From, Slots
<1>8. \A i \in DOMAIN processes : Entry(processes[i], i)'
  <2> TAKE i \in DOMAIN processes
  <2>1. Entry(processes[i], i)
    BY DEF WInv, ProcessesAssigned
  <2>2. (\E x \in 1 .. Assigned : From(processes[i], endpoints[x]))'
    BY <1>2, <1>3, <1>6, <1>7, <2>1 DEF Entry
  <2> QED
    BY <1>2, <2>1, <2>2 DEF Entry
<1>9. \A i, j \in DOMAIN processes : i < j => Apart(processes[i], processes[j])'
  BY <1>2 DEF WInv, ProcessesAssigned, Apart
<1>10. ProcessesAssigned'
  BY <1>1, <1>2, <1>3, <1>5, <1>8, <1>9 DEF ProcessesAssigned, WInv
<1>11. \A ms \in SUBSET Modes : LeadersOf(ms)' = LeadersOf(ms) /\ AssignedOf(ms)' = AssignedOf(ms)
  BY <1>2, <1>3, <1>6 DEF LeadersOf, AssignedOf
<1>12. LeadersCounted'
  BY <1>1, <1>11 DEF WInv, LeadersCounted, Sized
<1> QED
  BY <1>10, <1>12

(* The inductive invariant of the endpoints and their processes.           *)
THEOREM ProcessesInvariant == Spec => []WInv
<1>1. Init => WInv
  <2> SUFFICES ASSUME Init PROVE WInv
    OBVIOUS
  <2>1. PInv
    BY InitEstablishesPInv
  <2>2. /\ stage = "prefill" /\ index = 0 /\ endpoints = <<>> /\ processes = <<>>
        /\ Assigned = 0
    BY DEF Init, Assigned
  <2>3. \A m \in Modes : Workers(res, m) \in Nat
    BY <2>1, CursorNumbers DEF PInv
  <2>4. EndpointsShaped
    BY <2>2 DEF EndpointsShaped
  <2>5. \A m \in Modes : OfMode(m) = {} /\ PlacedOf(m) = 0
    BY <2>2 DEF OfMode, PlacedOf, Modes
  <2>6. EndpointsCounted
    <3>1. 0 <= Workers(res, "prefill")
      BY <2>3 DEF Modes
    <3>2. \A m \in Modes : Cardinality(OfMode(m)) = PlacedOf(m)
      BY <2>5, FS_EmptySet
    <3>3. DOMAIN endpoints = {}
      BY <2>2
    <3> QED
      BY <2>2, <3>1, <3>2, <3>3 DEF EndpointsCounted
  <2>7. ProcessesAssigned
    BY <2>2 DEF ProcessesAssigned
  <2>8. \A ms \in SUBSET Modes : LeadersOf(ms) = {} /\ AssignedOf(ms) = {}
    BY <2>2 DEF LeadersOf, AssignedOf
  <2>9. LeadersCounted
    BY <2>8 DEF LeadersCounted
  <2> QED
    BY <2>1, <2>4, <2>6, <2>7, <2>9 DEF WInv
<1>2. PInv' /\ WInv /\ [Next]_pvars => WInv'
  BY EndpointsStep, AssignStep, LeaderStep, ProcessesKept DEF WInv
<1> QED
  BY <1>1, <1>2, PlacementInvariant, PTL DEF Spec

-----------------------------------------------------------------------------
(* The workers started are those of the endpoints.                         *)

(* Two processes of one endpoint have the slots that their ranks say.      *)
LEMMA OneEndpoint ==
    ASSUME WInv, NEW i \in DOMAIN processes, NEW j \in DOMAIN processes,
           processes[i].mode = processes[j].mode, processes[i].index = processes[j].index
    PROVE  \E x \in DOMAIN endpoints :
              /\ From(processes[i], endpoints[x]) /\ From(processes[j], endpoints[x])
              /\ endpoints[x] \in EndpointType /\ Shaped(endpoints[x])
<1>1. /\ endpoints \in Seq(EndpointType) /\ Len(endpoints) \in Nat
      /\ Assigned \in 0 .. Len(endpoints)
  BY DEF WInv, PInv, TypeOK, ProcessesAssigned
<1>2. PICK x \in 1 .. Assigned : From(processes[i], endpoints[x])
  BY DEF WInv, ProcessesAssigned, Entry
<1>3. PICK y \in 1 .. Assigned : From(processes[j], endpoints[y])
  BY DEF WInv, ProcessesAssigned, Entry
<1>4. x \in DOMAIN endpoints /\ y \in DOMAIN endpoints
  BY <1>1
<1>5. x = y
  BY <1>2, <1>3, <1>4 DEF WInv, EndpointsShaped, From
<1> QED
  BY <1>1, <1>2, <1>3, <1>4, <1>5 DEF WInv, EndpointsShaped

(* Endpoint and rank are those of one process, and so are, on one node,    *)
(* endpoint and GPU.                                                       *)
LEMMA OneProcess ==
    ASSUME WInv, NEW i \in DOMAIN processes, NEW j \in DOMAIN processes,
           processes[i].mode = processes[j].mode, processes[i].index = processes[j].index,
           \/ processes[i].rank = processes[j].rank
           \/ /\ processes[i].node = processes[j].node
              /\ processes[i].mode \notin res.dp \/ processes[i].gpus \cap processes[j].gpus # {}
    PROVE  i = j
<1>1. PICK x \in DOMAIN endpoints :
         /\ From(processes[i], endpoints[x]) /\ From(processes[j], endpoints[x])
         /\ endpoints[x] \in EndpointType /\ Shaped(endpoints[x])
  BY OneEndpoint
<1> DEFINE e == endpoints[x]
<1>2. processes[i].rank = processes[j].rank
  <2> SUFFICES ASSUME processes[i].node = processes[j].node,
                      \/ processes[i].mode \notin res.dp
                      \/ processes[i].gpus \cap processes[j].gpus # {}
               PROVE  processes[i].rank = processes[j].rank
    OBVIOUS
  <2>1. PICK k \in DOMAIN Slots(e) :
           /\ processes[i].rank = k - 1 /\ processes[i].node = Slots(e)[k].node
           /\ processes[i].gpus = Slots(e)[k].gpus
    BY <1>1 DEF From
  <2>2. PICK l \in DOMAIN Slots(e) :
           /\ processes[j].rank = l - 1 /\ processes[j].node = Slots(e)[l].node
           /\ processes[j].gpus = Slots(e)[l].gpus
    BY <1>1 DEF From
  <2>3. processes[i].mode = e.mode
    BY <1>1 DEF From
  <2>4. TypeOK /\ e \in EndpointType /\ Shaped(e)
    BY <1>1 DEF WInv, PInv
  <2> HIDE DEF e
  <2>5. \A u, v \in DOMAIN Slots(e) :
           /\ Slots(e)[u].node = Slots(e)[v].node
           /\ e.mode \notin res.dp \/ Slots(e)[u].gpus \cap Slots(e)[v].gpus # {}
           => u = v
    BY <2>4, SlotFacts
  <2>6. k = l
    BY <2>1, <2>2, <2>3, <2>5
  <2> QED
    BY <2>1, <2>2, <2>6
<1>3. i \in Nat /\ j \in Nat
  BY DEF WInv, ProcessesAssigned
<1>4. ~(i < j) /\ ~(j < i)
  BY <1>2 DEF WInv, ProcessesAssigned, Apart
<1> QED
  BY <1>3, <1>4

(* Outside data-parallel modes, all the processes dealt with are kept.     *)
WorkersKept ==
    stage \in {"start", "running"} =>
        /\ index <= Len(processes)
        /\ stage = "running" => index = Len(processes)
        /\ res.dp = {} =>
              \A i \in 1 .. index : (res.mpi => processes[i].rank = 0) =>
                  \E w \in workers : w.process = i /\ w.name = WorkerName(processes[i])

LEMMA WorkersStep ==
    ASSUME WInv, WorkersKept, [Next]_pvars
    PROVE  WorkersKept'
<1>1. /\ res' = res /\ index \in Nat
      /\ Len(processes) \in Nat /\ DOMAIN processes = 1 .. Len(processes)
  BY BlockIsFixed, CursorNumbers DEF WInv, PInv, ProcessesAssigned
<1>2. CASE StartWorker
  <2> DEFINE p == processes[index + 1]
             entry == [name |-> WorkerName(p), process |-> index + 1]
  <2>1. /\ stage = "start" /\ stage' = stage /\ index < Len(processes) /\ index' = index + 1
        /\ processes' = processes
        /\ workers' = IF res.mpi /\ p.rank # 0 THEN workers
                      ELSE {w \in workers : w.name # WorkerName(p)} \cup {entry}
    BY <1>2 DEF StartWorker
  <2>2. ASSUME res.dp = {}, NEW i \in 1 .. index + 1, res.mpi => processes[i].rank = 0
        PROVE  \E w \in workers' : w.process = i /\ w.name = WorkerName(processes[i])
    <3>1. i \in DOMAIN processes /\ index + 1 \in DOMAIN processes
      BY <1>1, <2>1
    <3>2. CASE i = index + 1
      <4>1. entry \in workers'
        BY <2>1, <2>2, <3>2
      <4>2. entry.process = i /\ entry.name = WorkerName(processes[i])
        BY <3>2
      <4> HIDE DEF entry
      <4> QED
        BY <4>1, <4>2
    <3>3. CASE i \in 1 .. index
      <4>1. PICK w \in workers : w.process = i /\ w.name = WorkerName(processes[i])
        BY <2>1, <2>2, <3>3 DEF WorkersKept
      <4>2. WorkerName(processes[i]) # WorkerName(p)
        <5> SUFFICES ASSUME WorkerName(processes[i]) = WorkerName(p) PROVE FALSE
          OBVIOUS
        <5>1. /\ processes[i].mode = p.mode /\ processes[i].index = p.index
              /\ processes[i].node = p.node
          BY DEF WorkerName
        <5>2. i = index + 1
          BY <2>2, <3>1, <5>1, OneProcess
        <5> QED
          BY <1>1, <3>3, <5>2
      <4> HIDE DEF p, entry
      <4>3. w \in workers'
        BY <2>1, <4>1, <4>2
      <4> QED
        BY <4>1, <4>3
    <3> QED
      BY <1>1, <3>2, <3>3
  <2> HIDE DEF p, entry
  <2>3. index' <= Len(processes')
    BY <1>1, <2>1
  <2>4. \A i : WorkerName(processes[i])' = WorkerName(processes[i])
    BY <2>1 DEF WorkerName
  <2> QED
    BY <1>1, <2>1, <2>2, <2>3, <2>4 DEF WorkersKept
<1>3. CASE PortsAssigned
  <2>1. index' = 0 /\ stage' = "start" /\ processes' = processes /\ workers' = workers
    BY <1>3 DEF PortsAssigned, allocator
  <2>2. index' <= Len(processes')
    BY <1>1, <2>1
  <2> QED
    BY <2>1, <2>2 DEF WorkersKept
<1>4. CASE WorkersStarted
  <2>1. /\ index' = index /\ index = Len(processes) /\ stage = "start" /\ stage' = "running"
        /\ processes' = processes /\ workers' = workers
    BY <1>4 DEF WorkersStarted, allocator
  <2> QED
    BY <1>1, <2>1 DEF WorkersKept, WorkerName
<1>5. CASE Ended \/ UNCHANGED pvars
  BY <1>5 DEF Ended, pvars, WorkersKept, WorkerName
<1>6. CASE PlaceWholeNodes \/ PlacePartOfNode \/ OutOfNodes \/ ModePlaced \/ AssignPorts
  <2>1. stage' \notin {"start", "running"}
    BY <1>6 DEF PlaceWholeNodes, PlacePartOfNode, OutOfNodes, ModePlaced, AssignPorts, Placing,
       StageAfter, Modes
  <2> QED
    BY <2>1 DEF WorkersKept
<1> QED
  BY <1>2, <1>3, <1>4, <1>5, <1>6 DEF Next

(* Once every endpoint has its processes, a mode has as many leaders as    *)
(* workers.                                                                *)
LEMMA LeadersAreWorkers ==
    ASSUME WInv, Sized, stage \in {"start", "running"}
    PROVE  /\ Leaders({"prefill"}) = ExpectedPrefill
           /\ Leaders({"decode", "agg"}) = ExpectedDecode
<1>1. /\ TypeOK /\ Valid(res) /\ \A m \in Modes : Workers(res, m) \in Nat
      /\ endpoints \in Seq(EndpointType) /\ DOMAIN endpoints = 1 .. Len(endpoints)
      /\ Len(endpoints) \in Nat
  BY CursorNumbers DEF WInv, PInv, TypeOK
<1>2. \A ms \in SUBSET Modes : Leaders(ms) = Cardinality(AssignedOf(ms))
  BY DEF WInv, LeadersCounted, LeadersOf, Leaders
<1>3. Assigned = Len(endpoints)
  BY DEF Assigned
<1>4. \A m \in Modes : Cardinality(OfMode(m)) = Workers(res, m) /\ IsFiniteSet(OfMode(m))
  <2> TAKE m \in Modes
  <2>1. Cardinality(OfMode(m)) = PlacedOf(m)
    BY DEF WInv, EndpointsCounted
  <2>2. PlacedOf(m) = Workers(res, m)
    BY DEF PlacedOf, Modes
  <2>3. IsFiniteSet(1 .. Len(endpoints)) /\ OfMode(m) \subseteq 1 .. Len(endpoints)
    BY <1>1, FS_Interval DEF OfMode
  <2>4. IsFiniteSet(OfMode(m))
    BY <2>3, FS_Subset
  <2> QED
    BY <2>1, <2>2, <2>4
<1>5. /\ AssignedOf({"prefill"}) = OfMode("prefill")
      /\ AssignedOf({"decode", "agg"}) = OfMode("decode") \cup OfMode("agg")
  BY <1>1, <1>3 DEF AssignedOf, OfMode
<1>6. \A m \in Modes : Workers(res, m) = 0 => OfMode(m) = {}
  BY <1>4, FS_EmptySet
<1>7. Leaders({"prefill"}) = Workers(res, "prefill")
  BY <1>2, <1>4, <1>5 DEF Modes
<1>8. CASE Workers(res, "agg") > 0
  <2>1. Workers(res, "prefill") = 0 /\ Workers(res, "decode") = 0
    BY <1>1, <1>8, OneTopology DEF Disaggregated
  <2>2. AssignedOf({"decode", "agg"}) = OfMode("agg")
    BY <1>5, <1>6, <2>1 DEF Modes
  <2> QED
    BY <1>2, <1>4, <1>7, <1>8, <2>1, <2>2 DEF ExpectedPrefill, ExpectedDecode, Modes
<1>9. CASE ~(Workers(res, "agg") > 0)
  <2>1. Workers(res, "agg") = 0
    BY <1>1, <1>9 DEF Modes
  <2>2. AssignedOf({"decode", "agg"}) = OfMode("decode")
    BY <1>5, <1>6, <2>1 DEF Modes
  <2> QED
    BY <1>2, <1>4, <1>7, <1>9, <2>2 DEF ExpectedPrefill, ExpectedDecode, Modes
<1> QED
  BY <1>8, <1>9

(* Every worker is accounted for, for any numbers of nodes, GPUs and       *)
(* workers: the health check waits for as many leaders as there are, and   *)
(* outside data-parallel modes no worker's handle replaces another's.      *)
THEOREM WorkersAccountedFor == Spec => []EveryWorkerAccountedFor
<1>1. Init => WorkersKept
  BY DEF Init, WorkersKept
<1>2. WInv /\ WorkersKept /\ [Next]_pvars => WorkersKept'
  BY WorkersStep
<1>3. WInv /\ WorkersKept => EveryWorkerAccountedFor
  <2> SUFFICES ASSUME WInv, WorkersKept PROVE EveryWorkerAccountedFor
    OBVIOUS
  <2>1. ASSUME stage = "running", res.dp = {}, NEW i \in DOMAIN processes,
               res.mpi => processes[i].rank = 0
        PROVE  \E w \in workers : w.process = i
    <3>1. i \in 1 .. index
      BY <2>1 DEF WInv, ProcessesAssigned, WorkersKept
    <3> QED
      BY <2>1, <3>1 DEF WorkersKept
  <2>2. (stage \in {"start", "running"} /\ Sized) =>
           /\ Leaders({"prefill"}) = ExpectedPrefill
           /\ Leaders({"decode", "agg"}) = ExpectedDecode
    BY LeadersAreWorkers
  <2> QED
    BY <2>1, <2>2 DEF EveryWorkerAccountedFor, Sized
<1> QED
  BY <1>1, <1>2, <1>3, ProcessesInvariant, PTL DEF Spec

-----------------------------------------------------------------------------
(* What listens, by what it is for.                                        *)

LEMMA SocketFields ==
    ASSUME NEW n, NEW p, NEW u, NEW o
    PROVE  /\ Socket(n, p, u, o).node = n /\ Socket(n, p, u, o).port = p
           /\ Socket(n, p, u, o).use = u
  BY DEF Socket

LEMMA WorkerUses ==
    ASSUME NEW l, NEW i, NEW s \in WorkerSockets(l, i)
    PROVE  \/ s.use \in {"http", "bootstrap", "dist_init", "kv_events", "nixl", "dp_rpc", "master"}
           \/ s = Socket(processes[i].node, processes[i].sys, "sys", i)
<1>1. CASE s \in SglangSockets(l, i)
  BY <1>1, SocketFields DEF SglangSockets, When
<1>2. CASE s \in VllmEnvironment(l, i)
  BY <1>2, SocketFields DEF VllmEnvironment
<1>3. CASE s \in VllmRendezvous(l, i)
  BY <1>3, SocketFields DEF VllmRendezvous, When
<1>4. CASE s \in SystemSockets(l, i)
  BY <1>4 DEF SystemSockets, When
<1> QED
  BY <1>1, <1>2, <1>3, <1>4 DEF WorkerSockets

(* The listeners that telemetry or nginx is told of.                       *)
LEMMA SocketKinds ==
    ASSUME NEW l, NEW s \in Sockets(l)
    PROVE  /\ s.use = "frontend" => \E i \in DOMAIN Topology(l).nodes :
                  s.node = Topology(l).nodes[i] /\ s.port = Topology(l).port
           /\ s.use = "sys" => \E i \in DOMAIN processes :
                  s.node = processes[i].node /\ s.port = processes[i].sys
           /\ s.use = "dcgm" => s.node \in WorkerNodes /\ s.port = l.dcgm
           /\ s.use = "node_exporter" => s.node \in WorkerNodes /\ s.port = l.node_exporter
<1>1. CASE \E i \in DOMAIN processes : s \in WorkerSockets(l, i)
  <2>1. PICK i \in DOMAIN processes : s \in WorkerSockets(l, i)
    BY <1>1
  <2>2. \/ s.use \in {"http", "bootstrap", "dist_init", "kv_events", "nixl", "dp_rpc", "master"}
        \/ s = Socket(processes[i].node, processes[i].sys, "sys", i)
    BY <2>1, WorkerUses
  <2> QED
    BY <2>2, SocketFields
<1>2. CASE \E i \in LeaderSet : s \in KvbmSockets(l, i)
  <2>1. s.use = "kvbm"
    BY <1>2, SocketFields DEF KvbmSockets
  <2> QED
    BY <2>1
<1>3. CASE s \in FrontendSockets(l)
  <2>1. CASE \E i \in DOMAIN Topology(l).nodes :
                s = Socket(Topology(l).nodes[i], Topology(l).port, "frontend", i)
    BY <2>1, SocketFields
  <2>2. CASE s = Socket(0, PublicPort, "nginx", 0)
    BY <2>2, SocketFields
  <2> QED
    BY <1>3, <2>1, <2>2 DEF FrontendSockets
<1>4. CASE s \in InfraSockets(l)
  BY <1>4, SocketFields DEF InfraSockets
<1>5. CASE s \in ExporterSockets(l)
  <2>1. CASE \E n \in WorkerNodes : s = Socket(n, l.dcgm, "dcgm", n)
    BY <2>1, SocketFields
  <2>2. CASE \E n \in WorkerNodes : s = Socket(n, l.node_exporter, "node_exporter", n)
    BY <2>2, SocketFields
  <2> QED
    BY <1>5, <2>1, <2>2 DEF ExporterSockets
<1> QED
  BY <1>1, <1>2, <1>3, <1>4, <1>5 DEF Sockets

(* nginx and the frontends.                                                *)
LEMMA FrontendPlaces ==
    ASSUME NEW l \in Layouts, NodeCount \in Nat, NodeCount > 0
    PROVE  \/ /\ Topology(l).nginx = None /\ Topology(l).nodes = <<0>> /\ Topology(l).port = 8000
           \/ /\ Topology(l).nginx = 0 /\ Topology(l).port = 8180
              /\ 1 \in DOMAIN Topology(l).nodes
<1>1. CASE NodeCount = 1 \/ ~l.multiple
  BY <1>1 DEF Topology
<1>2. CASE ~(NodeCount = 1 \/ ~l.multiple)
  <2> DEFINE S == {l.additional + 1, NodeCount - 1}
  <2>1. l.additional \in Nat
    BY LayoutAssumption DEF Layout
  <2>2. Topology(l) = [nginx |-> 0, nodes |-> [i \in 1 .. Min(S) |-> i], port |-> 8180]
    BY <1>2 DEF Topology
  <2>3. \E x \in S : \A y \in S : x <= y
    <3>1. CASE l.additional + 1 <= NodeCount - 1
      BY <2>1, <3>1
    <3>2. CASE NodeCount - 1 <= l.additional + 1
      BY <2>1, <3>2
    <3> QED
      BY <2>1, <3>1, <3>2
  <2>4. Min(S) \in S
    BY <2>3 DEF Min
  <2>5. Min(S) \in Nat /\ Min(S) > 0
    BY <1>2, <2>1, <2>4
  <2>6. 1 \in 1 .. Min(S)
    BY <2>5
  <2> HIDE DEF S
  <2> QED
    BY <2>2, <2>6
<1> QED
  BY <1>1, <1>2

(* Leaders with one address are one, and a route is drawn to each.         *)
LEMMA RoutesAreLeaders ==
    ASSUME WInv, NEW m \in Modes
    PROVE  Cardinality(Routes(m)) = Leaders({m})
<1> DEFINE S == {j \in LeaderSet : processes[j].mode = m}
           route(i) == [node |-> processes[i].node, http |-> processes[i].http,
                        bootstrap |-> processes[i].bootstrap]
           f == [i \in S |-> route(i)]
<1>1. /\ DOMAIN processes = 1 .. Len(processes) /\ Len(processes) \in Nat
      /\ \A i, j \in DOMAIN processes : i < j => Apart(processes[i], processes[j])
  BY DEF WInv, ProcessesAssigned
<1>2. S = {i \in DOMAIN processes : processes[i].rank = 0 /\ processes[i].mode \in {m}}
  BY DEF LeaderSet
<1>3. \A i \in S : i \in DOMAIN processes /\ i \in Nat /\ processes[i].rank = 0
  BY <1>1, <1>2
<1>4. Routes(m) = {route(i) : i \in S}
  BY DEF Routes
<1>5. IsFiniteSet(S)
  <2>1. IsFiniteSet(1 .. Len(processes)) /\ S \subseteq 1 .. Len(processes)
    BY <1>1, <1>2, FS_Interval
  <2> QED
    BY <2>1, FS_Subset
<1>6. \A i, j \in S : route(i) = route(j) => i = j
  <2> SUFFICES ASSUME NEW i \in S, NEW j \in S, route(i) = route(j) PROVE i = j
    OBVIOUS
  <2>1. processes[i].node = processes[j].node /\ processes[i].http = processes[j].http
    OBVIOUS
  <2>2. ~(i < j) /\ ~(j < i)
    BY <1>1, <1>3, <2>1 DEF Apart
  <2> QED
    BY <1>3, <2>2
<1> HIDE DEF S, route
<1>7. f \in Bijection(S, Routes(m))
  BY <1>4, <1>6 DEF Bijection, Injection, Surjection, IsInjective
<1>8. ExistsBijection(S, Routes(m))
  BY <1>7 DEF ExistsBijection
<1>9. Cardinality(Routes(m)) = Cardinality(S)
  BY <1>5, <1>8, FS_Bijection
<1> QED
  BY <1>2, <1>9 DEF Leaders

HasNodes == NodeCount \in Nat /\ NodeCount > 0

LEMMA NodesRemain == Spec => []HasNodes
<1>1. Init => HasNodes
  BY InitEstablishesPInv, CursorNumbers DEF Init, HasNodes, PInv, NodeCount
<1>2. HasNodes /\ [Next]_pvars => HasNodes'
  BY BlockIsFixed DEF HasNodes
<1> QED
  BY <1>1, <1>2, PTL DEF Spec

(* A leader's HTTP and bootstrap ports, or its system port, are listened   *)
(* on, as the frontend needs.                                              *)
LEMMA LeaderListens ==
    ASSUME WInv, NEW l \in Layouts, Fits(l), NEW i \in LeaderSet
    PROVE  /\ l.frontend = "sglang" =>
                /\ Socket(processes[i].node, processes[i].http, "http", i) \in Sockets(l)
                /\ processes[i].mode = "prefill" =>
                      Socket(processes[i].node, processes[i].bootstrap, "bootstrap", i) \in Sockets(l)
           /\ l.frontend = "dynamo" =>
                Socket(processes[i].node, processes[i].sys, "sys", i) \in Sockets(l)
<1>1. /\ i \in DOMAIN processes /\ processes[i].rank = 0
      /\ processes[i].mode = "prefill" => processes[i].bootstrap # None
  BY DEF LeaderSet, WInv, ProcessesAssigned, Entry
<1>2. WorkerSockets(l, i) \subseteq Sockets(l)
  BY <1>1 DEF Sockets
<1>3. CASE l.frontend = "sglang"
  <2>1. l.backend = "sglang"
    BY <1>3, LayoutAssumption
  <2>2. Socket(processes[i].node, processes[i].http, "http", i) \in SglangSockets(l, i)
    BY <1>1, <2>1 DEF SglangSockets, When
  <2>3. processes[i].mode = "prefill" =>
           Socket(processes[i].node, processes[i].bootstrap, "bootstrap", i) \in SglangSockets(l, i)
    BY <1>1, <1>3, <2>1 DEF SglangSockets, When
  <2> QED
    BY <1>2, <1>3, <2>2, <2>3 DEF WorkerSockets
<1>4. CASE l.frontend = "dynamo"
  <2>1. Socket(processes[i].node, processes[i].sys, "sys", i) \in SystemSockets(l, i)
    BY <1>1, <1>4 DEF SystemSockets, When, Started
  <2> QED
    BY <1>2, <1>4, <2>1 DEF WorkerSockets
<1> QED
  BY <1>3, <1>4

(* Requests find their way from port 8000 of the head node to a frontend,  *)
(* from an SGLang router to every leader, and the profiler's to every      *)
(* worker, for any numbers of nodes, workers and frontends.                *)
THEOREM WorkersAreReached == Spec => []EveryPathArrives
<1>1. WInv /\ HasNodes => EveryPathArrives
  <2> SUFFICES ASSUME WInv, HasNodes, NEW l \in Layouts, Fits(l)
               PROVE  LET listening == {<<Address(s), s.use>> : s \in Sockets(l)}
                          frontends == {x[1] : x \in {y \in listening : y[2] = "frontend"}}
                      IN  /\ \/ <<0, PublicPort>> \in frontends /\ Upstreams(l) = {}
                             \/ /\ <<<<0, PublicPort>>, "nginx">> \in listening
                                /\ Upstreams(l) = frontends /\ frontends # {}
                                /\ <<0, PublicPort>> \notin frontends
                          /\ l.frontend = "sglang" =>
                              /\ \A m \in Modes : \A r \in Routes(m) :
                                    /\ <<<<r.node, r.http>>, "http">> \in listening
                                    /\ m = "prefill" =>
                                          <<<<r.node, r.bootstrap>>, "bootstrap">> \in listening
                              /\ \A m \in Modes : Cardinality(Routes(m)) = Leaders({m})
                          /\ \A a \in Profiled(l) : \E use \in {"http", "sys"} : <<a, use>> \in listening
    BY DEF EveryPathArrives
  <2> DEFINE listening == {<<Address(s), s.use>> : s \in Sockets(l)}
             frontends == {x[1] : x \in {y \in listening : y[2] = "frontend"}}
             nodes == Topology(l).nodes
             port == Topology(l).port
  <2>1. \A n, p, u, o : Socket(n, p, u, o) \in Sockets(l) => <<<<n, p>>, u>> \in listening
    <3> SUFFICES ASSUME NEW n, NEW p, NEW u, NEW o, Socket(n, p, u, o) \in Sockets(l)
                 PROVE  <<<<n, p>>, u>> \in listening
      OBVIOUS
    <3>1. <<Address(Socket(n, p, u, o)), Socket(n, p, u, o).use>> = <<<<n, p>>, u>>
      BY SocketFields DEF Address
    <3> QED
      BY <3>1
  <2>2. FrontendSockets(l) \subseteq Sockets(l)
    BY DEF Sockets
  <2>3. frontends = {<<nodes[i], port>> : i \in DOMAIN nodes}
    <3>1. ASSUME NEW i \in DOMAIN nodes PROVE <<nodes[i], port>> \in frontends
      <4>1. Socket(nodes[i], port, "frontend", i) \in Sockets(l)
        BY <2>2 DEF FrontendSockets
      <4>2. <<<<nodes[i], port>>, "frontend">> \in listening
        BY <2>1, <4>1
      <4> HIDE DEF listening
      <4> QED
        BY <4>2
    <3>2. ASSUME NEW x \in frontends PROVE \E i \in DOMAIN nodes : x = <<nodes[i], port>>
      <4>1. PICK s \in Sockets(l) : x = Address(s) /\ s.use = "frontend"
        OBVIOUS
      <4> QED
        BY <4>1, SocketKinds DEF Address
    <3> HIDE DEF frontends, nodes, port
    <3> QED
      BY <3>1, <3>2
  <2>4. \/ /\ Topology(l).nginx = None /\ nodes = <<0>> /\ port = 8000
        \/ /\ Topology(l).nginx = 0 /\ port = 8180 /\ 1 \in DOMAIN nodes
    BY FrontendPlaces DEF HasNodes
  <2> HIDE DEF frontends
  <2>5. \/ <<0, PublicPort>> \in frontends /\ Upstreams(l) = {}
        \/ /\ <<<<0, PublicPort>>, "nginx">> \in listening
           /\ Upstreams(l) = frontends /\ frontends # {}
           /\ <<0, PublicPort>> \notin frontends
    <3>1. CASE Topology(l).nginx = None /\ nodes = <<0>> /\ port = 8000
      <4>1. 1 \in DOMAIN nodes /\ nodes[1] = 0
        BY <3>1
      <4> HIDE DEF nodes, port
      <4> QED
        BY <2>3, <3>1, <4>1 DEF PublicPort, Upstreams
    <3>2. CASE Topology(l).nginx = 0 /\ port = 8180 /\ 1 \in DOMAIN nodes
      <4>1. Topology(l).nginx # None
        BY <3>2, ResourcesAssumption
      <4>2. Socket(0, PublicPort, "nginx", 0) \in Sockets(l)
        BY <2>2, <4>1 DEF FrontendSockets
      <4>3. <<<<0, PublicPort>>, "nginx">> \in listening
        BY <2>1, <4>2
      <4>4. Upstreams(l) = frontends
        BY <2>3, <4>1 DEF Upstreams
      <4>5. <<0, PublicPort>> \notin frontends
        <5> HIDE DEF nodes, port
        <5>1. \A i \in DOMAIN nodes : <<nodes[i], port>> # <<0, PublicPort>>
          BY <3>2 DEF PublicPort
        <5> QED
          BY <2>3, <5>1
      <4>6. frontends # {}
        <5> HIDE DEF nodes, port
        <5>1. <<nodes[1], port>> \in frontends
          BY <2>3, <3>2
        <5> QED
          BY <5>1
      <4> QED
        BY <4>3, <4>4, <4>5, <4>6
    <3> QED
      BY <2>4, <3>1, <3>2
  <2> HIDE DEF nodes, port, listening
  <2>6. ASSUME l.frontend = "sglang", NEW m \in Modes, NEW r \in Routes(m)
        PROVE  /\ <<<<r.node, r.http>>, "http">> \in listening
               /\ m = "prefill" => <<<<r.node, r.bootstrap>>, "bootstrap">> \in listening
    <3>1. PICK i \in LeaderSet : /\ processes[i].mode = m
                                 /\ r = [node |-> processes[i].node, http |-> processes[i].http,
                                         bootstrap |-> processes[i].bootstrap]
      BY DEF Routes
    <3>2. /\ r.node = processes[i].node /\ r.http = processes[i].http
          /\ r.bootstrap = processes[i].bootstrap
      BY <3>1
    <3> QED
      BY <2>1, <2>6, <3>1, <3>2, LeaderListens
  <2>7. ASSUME NEW a \in Profiled(l) PROVE \E use \in {"http", "sys"} : <<a, use>> \in listening
    <3>1. PICK i \in LeaderSet :
             a = <<processes[i].node,
                   IF l.frontend = "dynamo" THEN processes[i].sys ELSE processes[i].http>>
      BY DEF Profiled
    <3>2. CASE l.frontend = "dynamo"
      BY <2>1, <3>1, <3>2, LeaderListens
    <3>3. CASE l.frontend # "dynamo"
      <4>1. l.frontend = "sglang"
        BY <3>3, LayoutAssumption DEF Layout
      <4> QED
        BY <2>1, <3>1, <3>3, <4>1, LeaderListens
    <3> QED
      BY <3>2, <3>3
  <2> QED
    BY <2>5, <2>6, <2>7, RoutesAreLeaders DEF listening, frontends
<1> QED
  BY <1>1, ProcessesInvariant, NodesRemain, PTL

-----------------------------------------------------------------------------
(* What telemetry is told.                                                 *)

(* Where a GPU has two processes, the later one is a decode worker.        *)
LEMMA LaterSharerIsDecode ==
    ASSUME WInv, NEW i \in DOMAIN processes, NEW j \in DOMAIN processes, i < j,
           processes[i].node = processes[j].node,
           processes[i].gpus \cap processes[j].gpus # {}
    PROVE  /\ processes[j].mode = "decode" /\ processes[i].mode = "prefill"
           /\ processes[i].node = NodeCount - 1
<1>1. /\ TypeOK /\ endpoints \in Seq(EndpointType) /\ Len(endpoints) \in Nat
      /\ Assigned \in 0 .. Len(endpoints)
      /\ processes[i] \in ProcessType /\ i \in Nat /\ j \in Nat
  BY DEF WInv, PInv, TypeOK, ProcessesAssigned
<1>2. \A k \in DOMAIN processes : \E x \in DOMAIN endpoints :
         /\ From(processes[k], endpoints[x])
         /\ \E u \in DOMAIN endpoints[x].nodes : processes[k].node = endpoints[x].nodes[u]
         /\ processes[k].gpus \subseteq endpoints[x].gpus
  <2> TAKE k \in DOMAIN processes
  <2>1. PICK x \in 1 .. Assigned : From(processes[k], endpoints[x])
    BY DEF WInv, ProcessesAssigned, Entry
  <2>2. x \in DOMAIN endpoints
    BY <1>1
  <2> DEFINE e == endpoints[x]
  <2>3. e \in EndpointType /\ Shaped(e) /\ From(processes[k], e)
    BY <1>1, <2>1, <2>2 DEF WInv, EndpointsShaped
  <2> HIDE DEF e
  <2>4. PICK v \in DOMAIN Slots(e) :
           processes[k].node = Slots(e)[v].node /\ processes[k].gpus = Slots(e)[v].gpus
    BY <2>3 DEF From
  <2>5. /\ \E u \in DOMAIN e.nodes : Slots(e)[v].node = e.nodes[u]
        /\ Slots(e)[v].gpus \subseteq e.gpus
    BY <1>1, <2>3, SlotFacts
  <2> QED
    BY <2>2, <2>3, <2>4, <2>5 DEF e
<1>3. PICK x \in DOMAIN endpoints :
         /\ From(processes[i], endpoints[x])
         /\ \E u \in DOMAIN endpoints[x].nodes : processes[i].node = endpoints[x].nodes[u]
         /\ processes[i].gpus \subseteq endpoints[x].gpus
  BY <1>2
<1>4. PICK y \in DOMAIN endpoints :
         /\ From(processes[j], endpoints[y])
         /\ \E u \in DOMAIN endpoints[y].nodes : processes[j].node = endpoints[y].nodes[u]
         /\ processes[j].gpus \subseteq endpoints[y].gpus
  BY <1>2
<1>5. x # y
  <2> SUFFICES ASSUME x = y PROVE FALSE
    OBVIOUS
  <2>1. processes[i].mode = processes[j].mode /\ processes[i].index = processes[j].index
    BY <1>3, <1>4 DEF From
  <2>2. i = j
    BY <2>1, OneProcess
  <2> QED
    BY <1>1, <2>2
<1>6. processes[i].node \in Node
  BY <1>1 DEF ProcessType
<1>7. /\ processes[i].node \in Overlap(endpoints[x], endpoints[y])
      /\ processes[i].node \in Overlap(endpoints[y], endpoints[x])
  BY <1>3, <1>4, <1>6 DEF Overlap
<1>8. x \in Nat /\ y \in Nat
  BY <1>1
<1>9. CASE x < y
  BY <1>3, <1>4, <1>7, <1>9 DEF WInv, PInv, SharedGpuOnlyOnLastNode, From
<1>10. CASE y < x
  <2>1. processes[j].mode = "prefill" /\ processes[i].mode = "decode"
    BY <1>3, <1>4, <1>7, <1>10 DEF WInv, PInv, SharedGpuOnlyOnLastNode, From
  <2>2. Apart(processes[i], processes[j])
    BY DEF WInv, ProcessesAssigned
  <2> QED
    BY <2>1, <2>2 DEF Apart
<1> QED
  BY <1>5, <1>8, <1>9, <1>10

(* A finite set of numbers has a largest one.                              *)
LEMMA FiniteHasLast ==
    ASSUME NEW S \in SUBSET Nat, IsFiniteSet(S), S # {}
    PROVE  \E x \in S : \A y \in S : x >= y
<1> DEFINE Above(x) == {y \in S : y >= x}
           T == {Above(x) : x \in S}
           R == StrictSubsetOrdering(S)
<1>1. IsWellFoundedOn(R, FiniteSubsetsOf(S)) /\ FiniteSubsetsOf(S) = SUBSET S
  BY FS_StrictSubsetOrderingWellFounded, FS_FiniteSubsetsOfFinite
<1>2. T \subseteq SUBSET S /\ T # {}
  OBVIOUS
<1>3. PICK t \in T : \A u \in T : <<u, t>> \notin R
  <2> HIDE DEF R, T
  <2>1. IsWellFoundedOn(R, SUBSET S)
    BY <1>1
  <2>2. \E t \in T : \A u \in T : ~(<<u, t>> \in R)
    BY <1>2, <2>1, WFMin, Zenon
  <2> QED
    BY <2>2
<1>4. PICK x \in S : t = Above(x)
  OBVIOUS
<1>5. ASSUME NEW y \in S, ~(x >= y) PROVE FALSE
  <2>1. y > x /\ x \in Nat /\ y \in Nat
    BY <1>5
  <2>a. \A z \in S : z \in Nat /\ (z >= y => z >= x)
    BY <2>1
  <2>2. Above(y) \in T /\ Above(y) \subseteq Above(x) /\ x \in Above(x) /\ x \notin Above(y)
    <3>1. Above(y) \subseteq Above(x)
      BY <2>a
    <3> QED
      BY <2>1, <3>1
  <2>3. <<Above(y), Above(x)>> \in R
    BY <2>2 DEF StrictSubsetOrdering
  <2> QED
    BY <1>3, <1>4, <2>2, <2>3
<1> QED
  BY <1>5

(* The label of a GPU is the last process that has it.                     *)
LEMMA LabelIsLast ==
    ASSUME WInv, NEW i \in DOMAIN processes, NEW g \in processes[i].gpus
    PROVE  LET last == GpuLabel(processes[i].node, g)
           IN  /\ last \in DOMAIN processes /\ last >= i
               /\ processes[last].node = processes[i].node /\ g \in processes[last].gpus
<1> DEFINE S == {k \in DOMAIN processes : processes[k].node = processes[i].node /\ g \in processes[k].gpus}
<1>1. DOMAIN processes = 1 .. Len(processes) /\ Len(processes) \in Nat
  BY DEF WInv, ProcessesAssigned
<1>2. i \in S
  OBVIOUS
<1>3. IsFiniteSet(S) /\ S \subseteq Nat
  <2>1. IsFiniteSet(1 .. Len(processes)) /\ S \subseteq 1 .. Len(processes)
    BY <1>1, FS_Interval
  <2> QED
    BY <2>1, FS_Subset
<1>4. \E x \in S : \A y \in S : x >= y
  BY <1>2, <1>3, FiniteHasLast
<1>5. Max(S) \in S /\ \A y \in S : Max(S) >= y
  BY <1>4 DEF Max
<1>6. GpuLabel(processes[i].node, g) = Max(S)
  BY <1>2 DEF GpuLabel
<1> QED
  BY <1>2, <1>5, <1>6

(* No two scraped targets have one name.                                   *)
LEMMA NamesOfTargets ==
    ASSUME WInv, NEW l, NEW x \in Scraped(l), NEW y \in Scraped(l), x.name = y.name
    PROVE  x = y
<1> DEFINE worker(i) == [name |-> <<processes[i].mode, processes[i].index, processes[i].rank>>,
                         url |-> <<processes[i].node, processes[i].sys>>]
           frontend(i) == [name |-> <<"frontend", i>>,
                           url |-> <<Topology(l).nodes[i], Topology(l).port>>]
           dcgm(n) == [name |-> <<"dcgm", n>>, url |-> <<n, l.dcgm>>]
           exporter(n) == [name |-> <<"node_exporter", n>>, url |-> <<n, l.node_exporter>>]
<1>1. \A t \in Scraped(l) :
         \/ \E i \in DOMAIN processes : t = worker(i)
         \/ \E i : t = frontend(i)
         \/ \E n : t = dcgm(n)
         \/ \E n : t = exporter(n)
  BY DEF Scraped, ScrapedWorkers, ScrapedFrontends, ScrapedExporters
<1>2. \A a, b, c, d, e : <<a, b, c>> # <<d, e>>
  <2> SUFFICES ASSUME NEW a, NEW b, NEW c, NEW d, NEW e, <<a, b, c>> = <<d, e>> PROVE FALSE
    OBVIOUS
  <2>1. Len(<<a, b, c>>) = 3 /\ Len(<<d, e>>) = 2
    OBVIOUS
  <2> QED
    BY <2>1
<1>3. ASSUME NEW i \in DOMAIN processes, NEW j \in DOMAIN processes, worker(i).name = worker(j).name
      PROVE  i = j
  <2>1. /\ processes[i].mode = processes[j].mode /\ processes[i].index = processes[j].index
        /\ processes[i].rank = processes[j].rank
    BY <1>3
  <2> QED
    BY <2>1, OneProcess
<1>4. \A i, n : /\ worker(i).name # frontend(n).name /\ worker(i).name # dcgm(n).name
                /\ worker(i).name # exporter(n).name
  BY <1>2
<1>5. \A a, b : /\ frontend(a).name # dcgm(b).name /\ frontend(a).name # exporter(b).name
                /\ dcgm(a).name # exporter(b).name
                /\ frontend(a).name = frontend(b).name => a = b
                /\ dcgm(a).name = dcgm(b).name => a = b
                /\ exporter(a).name = exporter(b).name => a = b
  OBVIOUS
<1> HIDE DEF worker, frontend, dcgm, exporter
<1>6. CASE \E i \in DOMAIN processes : x = worker(i)
  BY <1>1, <1>3, <1>4, <1>6
<1>7. CASE \E i : x = frontend(i)
  BY <1>1, <1>4, <1>5, <1>7
<1>8. CASE \E n : x = dcgm(n)
  BY <1>1, <1>4, <1>5, <1>8
<1>9. CASE \E n : x = exporter(n)
  BY <1>1, <1>4, <1>5, <1>9
<1> QED
  BY <1>1, <1>6, <1>7, <1>8, <1>9

(* Behind Dynamo, and without MPI, what is scraped listens.                *)
LEMMA TargetsListen ==
    ASSUME NEW l \in Layouts, l.frontend = "dynamo", ~res.mpi, NEW x \in Scraped(l)
    PROVE  \E s \in Sockets(l) : x.url = Address(s)
<1>1. \A n, p, u, o : Address(Socket(n, p, u, o)) = <<n, p>>
  BY SocketFields DEF Address
<1>2. CASE x \in ScrapedWorkers
  <2>1. PICK i \in DOMAIN processes : x.url = <<processes[i].node, processes[i].sys>>
    BY <1>2 DEF ScrapedWorkers
  <2> DEFINE s == Socket(processes[i].node, processes[i].sys, "sys", i)
  <2>2. s \in WorkerSockets(l, i)
    BY DEF WorkerSockets, SystemSockets, When, Started
  <2>3. s \in Sockets(l)
    BY <2>2 DEF Sockets
  <2> QED
    BY <1>1, <2>1, <2>3
<1>3. CASE x \in ScrapedFrontends(l)
  <2>1. PICK i \in DOMAIN Topology(l).nodes : x.url = <<Topology(l).nodes[i], Topology(l).port>>
    BY <1>3 DEF ScrapedFrontends
  <2>2. Socket(Topology(l).nodes[i], Topology(l).port, "frontend", i) \in Sockets(l)
    BY DEF Sockets, FrontendSockets
  <2> QED
    BY <1>1, <2>1, <2>2
<1>4. CASE x \in ScrapedExporters(l)
  <2>1. PICK n \in WorkerNodes : x.url = <<n, l.dcgm>> \/ x.url = <<n, l.node_exporter>>
    BY <1>4 DEF ScrapedExporters
  <2>2. /\ Socket(n, l.dcgm, "dcgm", n) \in Sockets(l)
        /\ Socket(n, l.node_exporter, "node_exporter", n) \in Sockets(l)
    BY DEF Sockets, ExporterSockets
  <2> QED
    BY <1>1, <2>1, <2>2
<1> QED
  BY <1>2, <1>3, <1>4 DEF Scraped

(* What exports metrics is scraped.                                        *)
LEMMA ListenersScraped ==
    ASSUME NEW l, NEW s \in Sockets(l), s.use \in {"sys", "frontend", "dcgm", "node_exporter"}
    PROVE  \E x \in Scraped(l) : x.url = Address(s)
<1>1. CASE s.use = "sys"
  <2>1. PICK i \in DOMAIN processes : s.node = processes[i].node /\ s.port = processes[i].sys
    BY <1>1, SocketKinds
  <2> DEFINE x == [name |-> <<processes[i].mode, processes[i].index, processes[i].rank>>,
                   url |-> <<processes[i].node, processes[i].sys>>]
  <2>2. x \in Scraped(l)
    BY DEF Scraped, ScrapedWorkers
  <2>3. x.url = Address(s)
    BY <2>1 DEF Address
  <2> QED
    BY <2>2, <2>3
<1>2. CASE s.use = "frontend"
  <2>1. PICK i \in DOMAIN Topology(l).nodes :
           s.node = Topology(l).nodes[i] /\ s.port = Topology(l).port
    BY <1>2, SocketKinds
  <2> DEFINE x == [name |-> <<"frontend", i>>, url |-> <<Topology(l).nodes[i], Topology(l).port>>]
  <2>2. x \in Scraped(l)
    BY DEF Scraped, ScrapedFrontends
  <2>3. x.url = Address(s)
    BY <2>1 DEF Address
  <2> QED
    BY <2>2, <2>3
<1>3. CASE s.use = "dcgm"
  <2>1. s.node \in WorkerNodes /\ s.port = l.dcgm
    BY <1>3, SocketKinds
  <2> DEFINE x == [name |-> <<"dcgm", s.node>>, url |-> <<s.node, l.dcgm>>]
  <2>2. x \in Scraped(l)
    BY <2>1 DEF Scraped, ScrapedExporters
  <2>3. x.url = Address(s)
    BY <2>1 DEF Address
  <2> QED
    BY <2>2, <2>3
<1>4. CASE s.use = "node_exporter"
  <2>1. s.node \in WorkerNodes /\ s.port = l.node_exporter
    BY <1>4, SocketKinds
  <2> DEFINE x == [name |-> <<"node_exporter", s.node>>, url |-> <<s.node, l.node_exporter>>]
  <2>2. x \in Scraped(l)
    BY <2>1 DEF Scraped, ScrapedExporters
  <2>3. x.url = Address(s)
    BY <2>1 DEF Address
  <2> QED
    BY <2>2, <2>3
<1> QED
  BY <1>1, <1>2, <1>3, <1>4

(* Each target has a name of its own and listens, none is left out, and a  *)
(* GPU's metrics are those of the worker that has it, for any numbers of   *)
(* nodes, GPUs and workers.                                                *)
THEOREM TelemetryTargets == Spec => []TelemetryIsFaithful
<1>1. WInv => TelemetryIsFaithful
  <2> SUFFICES ASSUME WInv PROVE TelemetryIsFaithful
    OBVIOUS
  <2>1. ASSUME NEW l \in Layouts, l.frontend = "dynamo", ~res.mpi
        PROVE  {x.url : x \in Scraped(l)} \subseteq {Address(s) : s \in Sockets(l)}
    BY <2>1, TargetsListen
  <2>2. ASSUME NEW i \in DOMAIN processes, NEW g \in processes[i].gpus
        PROVE  LET label == processes[GpuLabel(processes[i].node, g)]
               IN  \/ label = processes[i]
                   \/ label.mode = "decode" /\ processes[i].mode = "prefill"
                      /\ processes[i].node = NodeCount - 1
    <3> DEFINE last == GpuLabel(processes[i].node, g)
    <3>1. /\ last \in DOMAIN processes /\ last >= i
          /\ processes[last].node = processes[i].node /\ g \in processes[last].gpus
      BY LabelIsLast
    <3>2. i \in Nat /\ last \in Nat
      BY <3>1 DEF WInv, ProcessesAssigned
    <3> HIDE DEF last
    <3>3. CASE last = i
      BY <3>3 DEF last
    <3>4. CASE i < last
      <4>1. processes[last].mode = "decode" /\ processes[i].mode = "prefill"
            /\ processes[i].node = NodeCount - 1
        BY <3>1, <3>4, LaterSharerIsDecode
      <4> QED
        BY <4>1 DEF last
    <3> QED
      BY <3>1, <3>2, <3>3, <3>4
  <2> QED
    BY <2>1, <2>2, NamesOfTargets, ListenersScraped DEF TelemetryIsFaithful
<1> QED
  BY <1>1, ProcessesInvariant, PTL


-----------------------------------------------------------------------------
(* The ports.                                                              *)

(* The HTTP ports, and the counters of a node after some leaders on it.    *)
HttpCounted(p) == \E j \in Nat : p = 30000 + 1000 * j
CountersAt(x) == \E j \in Nat :
                    http_ports[x] = 30000 + 1000 * j /\ bootstrap_ports[x] \in 31000 .. 31000 + j

(* What a process takes from the counters.                                 *)
Counted(p, i) ==
    /\ p.kv_events = 5549 + i /\ p.nixl = 6549 + i
    /\ p.rank = 0 => HttpCounted(p.http)
    /\ (p.rank = 0 /\ p.mode = "prefill") => p.bootstrap \in 31000 .. bootstrap_ports[p.node] - 1

(* Each leader of a node has an HTTP port, 1000 behind the one before, and *)
(* those of prefill have a bootstrap port as well.  A worker on several    *)
(* nodes has them whole.                                                   *)
PortsCounted ==
    /\ \A x \in Node : CountersAt(x)
    /\ \A i \in DOMAIN processes : Counted(processes[i], i)
    /\ \A i, k \in DOMAIN processes :
          /\ i < k /\ processes[i].rank = 0 /\ processes[k].rank = 0
          /\ processes[i].mode = "prefill" /\ processes[k].mode = "prefill"
          /\ processes[i].node = processes[k].node
          => processes[i].bootstrap # processes[k].bootstrap

WideIsWhole ==
    \A i \in DOMAIN endpoints : Len(endpoints[i].nodes) > 1 => WholeNodes(endpoints[i].mode)

(* An endpoint takes a port of either kind on the node of its leader.      *)
LEMMA CountedStep ==
    ASSUME WInv, PortsCounted, AssignPorts
    PROVE  PortsCounted'
<1> DEFINE e == endpoints[index + 1]
           s == Slots(e)
           n == Len(processes)
           leader == e.nodes[1]
<1>1. /\ TypeOK /\ Node' = Node
      /\ http_ports \in [Node -> Nat] /\ bootstrap_ports \in [Node -> Nat]
  BY BlockIsFixed DEF WInv, PInv, TypeOK, Next
<1>2. /\ e \in EndpointType /\ Shaped(e)
      /\ n \in Nat /\ Len(s) \in Nat /\ DOMAIN s = 1 .. Len(s) /\ DOMAIN processes = 1 .. n
      /\ DOMAIN processes' = 1 .. n + Len(s)
      /\ \A i \in 1 .. n : processes'[i] = processes[i]
      /\ \A i \in n + 1 .. n + Len(s) : processes'[i] = Process(e, s[i - n], i - n - 1, i - 1)
  BY Added
<1>3. /\ leader \in Node /\ (1 \in DOMAIN s => s[1].node = leader)
  <2>1. e.nodes \in Seq(Node) /\ Len(e.nodes) > 0
    BY <1>2 DEF EndpointType, Shaped
  <2>2. leader \in Node
    BY <2>1
  <2> QED
    BY <1>1, <1>2, <2>2, SlotFacts
<1>4. /\ http_ports' = IF Len(s) = 0 THEN http_ports ELSE [http_ports EXCEPT ![leader] = @ + 1000]
      /\ bootstrap_ports' = IF Len(s) = 0 \/ e.mode # "prefill" THEN bootstrap_ports
                            ELSE [bootstrap_ports EXCEPT ![leader] = @ + 1]
  BY DEF AssignPorts
<1>5. \A i \in 1 .. n : processes[i].node \in Node
  <2>1. processes \in Seq(ProcessType)
    BY DEF WInv, ProcessesAssigned
  <2>2. \A i \in 1 .. n : processes[i] \in ProcessType
    BY <2>1
  <2> QED
    BY <2>2 DEF ProcessType
<1> HIDE DEF e, s, n
<1>6. \A x \in Node : CountersAt(x)'
  <2> TAKE x \in Node
  <2> CountersAt(x)
    BY DEF PortsCounted
  <2>1. PICK j \in Nat :
           http_ports[x] = 30000 + 1000 * j /\ bootstrap_ports[x] \in 31000 .. 31000 + j
    BY DEF CountersAt
  <2>2. CASE Len(s) = 0 \/ x # leader
    <3>1. http_ports'[x] = http_ports[x] /\ bootstrap_ports'[x] = bootstrap_ports[x]
      BY <1>1, <1>4, <2>2
    <3> QED
      BY <2>1, <3>1 DEF CountersAt
  <2>3. CASE Len(s) # 0 /\ x = leader
    <3>1. /\ http_ports'[x] = http_ports[x] + 1000
          /\ bootstrap_ports'[x] \in {bootstrap_ports[x], bootstrap_ports[x] + 1}
      BY <1>1, <1>4, <2>3
    <3>2. /\ j + 1 \in Nat /\ http_ports'[x] = 30000 + 1000 * (j + 1)
          /\ bootstrap_ports'[x] \in 31000 .. 31000 + (j + 1)
      BY <1>1, <2>1, <3>1
    <3> QED
      BY <3>2 DEF CountersAt
  <2> QED
    BY <2>2, <2>3
<1>7. \A x \in Node : bootstrap_ports'[x] \in Nat /\ bootstrap_ports[x] \in Nat
                      /\ bootstrap_ports'[x] >= bootstrap_ports[x] /\ bootstrap_ports[x] >= 31000
  <2> TAKE x \in Node
  <2>1. bootstrap_ports[x] \in Nat /\ bootstrap_ports[x] >= 31000
    BY <1>1 DEF PortsCounted, CountersAt
  <2>2. bootstrap_ports'[x] \in {bootstrap_ports[x], bootstrap_ports[x] + 1}
    BY <1>1, <1>3, <1>4
  <2> QED
    BY <2>1, <2>2
<1>8. ASSUME NEW i \in 1 .. n PROVE Counted(processes[i], i)'
  <2>1. Counted(processes[i], i) /\ processes'[i] = processes[i] /\ processes[i].node \in Node
    BY <1>2, <1>5 DEF PortsCounted
  <2>2. bootstrap_ports'[processes[i].node] >= bootstrap_ports[processes[i].node]
        /\ bootstrap_ports'[processes[i].node] \in Nat /\ bootstrap_ports[processes[i].node] \in Nat
    BY <1>7, <2>1
  <2> QED
    BY <2>1, <2>2 DEF Counted
<1>9. ASSUME NEW i \in n + 1 .. n + Len(s)
      PROVE  /\ processes'[i].mode = e.mode /\ (processes'[i].rank = 0 => i = n + 1)
             /\ processes'[i].kv_events = 5549 + i /\ processes'[i].nixl = 6549 + i
             /\ i = n + 1 => /\ processes'[i].node = leader
                             /\ processes'[i].http = http_ports[leader]
                             /\ e.mode = "prefill" => processes'[i].bootstrap = bootstrap_ports[leader]
  <2> DEFINE k == i - n
  <2>1. /\ i \in Nat /\ k \in DOMAIN s /\ (k - 1 = 0 <=> i = n + 1) /\ (i = n + 1 => s[k] = s[1])
        /\ 5550 + (i - 1) = 5549 + i /\ 6550 + (i - 1) = 6549 + i
    BY <1>2
  <2>2. processes'[i] = Process(e, s[k], k - 1, i - 1)
    BY <1>2
  <2> HIDE DEF k
  <2>3. /\ processes'[i].mode = e.mode /\ processes'[i].rank = k - 1
        /\ processes'[i].node = s[k].node
        /\ processes'[i].http = IF k - 1 = 0 THEN http_ports[s[k].node] ELSE 0
        /\ processes'[i].bootstrap = BootstrapPort(e, k - 1)
        /\ processes'[i].kv_events = 5550 + (i - 1) /\ processes'[i].nixl = 6550 + (i - 1)
    BY <2>2 DEF Process
  <2>4. i = n + 1 => s[k].node = leader
    <3>1. i = n + 1 => 1 \in DOMAIN s
      BY <1>2, <2>1
    <3> QED
      BY <1>3, <2>1, <3>1
  <2>5. (i = n + 1 /\ e.mode = "prefill") => BootstrapPort(e, k - 1) = bootstrap_ports[leader]
    BY <2>1 DEF BootstrapPort, leader
  <2> HIDE DEF leader
  <2> QED
    BY <2>1, <2>3, <2>4, <2>5
<1>10. ASSUME NEW i \in n + 1 .. n + Len(s) PROVE Counted(processes[i], i)'
  <2>1. ASSUME processes'[i].rank = 0
        PROVE  /\ HttpCounted(processes'[i].http)
               /\ processes'[i].mode = "prefill" =>
                     processes'[i].bootstrap \in 31000 .. bootstrap_ports'[processes'[i].node] - 1
    <3>1. /\ i = n + 1 /\ Len(s) # 0 /\ processes'[i].node = leader
          /\ processes'[i].http = http_ports[leader] /\ processes'[i].mode = e.mode
          /\ e.mode = "prefill" => processes'[i].bootstrap = bootstrap_ports[leader]
      BY <1>2, <1>9, <2>1
    <3>2. HttpCounted(http_ports[leader])
      <4> HIDE DEF leader
      <4>1. leader \in Node
        BY <1>3
      <4> QED
        BY <4>1 DEF PortsCounted, CountersAt, HttpCounted
    <3>3. e.mode = "prefill" => bootstrap_ports'[leader] = bootstrap_ports[leader] + 1
      BY <1>1, <1>3, <1>4, <3>1
    <3>4. bootstrap_ports[leader] \in Nat /\ bootstrap_ports[leader] >= 31000
      BY <1>3, <1>7
    <3> QED
      BY <3>1, <3>2, <3>3, <3>4
  <2> QED
    BY <1>9, <2>1 DEF Counted
<1>11. ASSUME NEW i \in DOMAIN processes', NEW k \in DOMAIN processes', i < k,
              processes'[i].rank = 0, processes'[k].rank = 0,
              processes'[i].mode = "prefill", processes'[k].mode = "prefill",
              processes'[i].node = processes'[k].node
       PROVE  processes'[i].bootstrap # processes'[k].bootstrap
  <2>1. CASE k \in 1 .. n
    <3>1. i \in 1 .. n
      BY <1>2, <1>11, <2>1
    <3> QED
      BY <1>2, <1>11, <2>1, <3>1 DEF PortsCounted
  <2>2. CASE k \notin 1 .. n
    <3>1. k \in n + 1 .. n + Len(s)
      BY <1>2, <2>2
    <3>2. /\ k = n + 1 /\ processes'[k].node = leader
          /\ processes'[k].bootstrap = bootstrap_ports[leader]
      BY <1>9, <1>11, <3>1
    <3>3. i \in 1 .. n
      BY <1>2, <1>11, <3>2
    <3>4. processes[i].bootstrap \in 31000 .. bootstrap_ports[leader] - 1
      BY <1>2, <1>11, <3>2, <3>3 DEF PortsCounted, Counted
    <3> QED
      BY <1>2, <1>3, <1>7, <3>2, <3>3, <3>4
  <2> QED
    BY <2>1, <2>2
<1>12. \A i \in DOMAIN processes' : Counted(processes[i], i)'
  <2>1. \A i \in DOMAIN processes' : i \in 1 .. n \/ i \in n + 1 .. n + Len(s)
    BY <1>2
  <2> QED
    BY <1>8, <1>10, <2>1
<1> QED
  BY <1>1, <1>6, <1>11, <1>12 DEF PortsCounted

LEMMA WideStep ==
    ASSUME WInv, WideIsWhole, [Next]_pvars
    PROVE  WideIsWhole'
<1>1. TypeOK /\ endpoints \in Seq(EndpointType)
  BY DEF WInv, PInv, TypeOK
<1>2. \A m \in Modes : WholeNodes(m)' <=> WholeNodes(m)
  BY BlockIsFixed
<1>3. \A i \in DOMAIN endpoints : endpoints[i].mode \in Modes
  BY <1>1, EndpointShape
<1>4. CASE endpoints' = endpoints
  BY <1>2, <1>3, <1>4 DEF WideIsWhole
<1>5. CASE PlaceWholeNodes \/ PlacePartOfNode
  <2>1. \E e \in EndpointType : /\ endpoints' = Append(endpoints, e)
                                /\ Len(e.nodes) > 1 => WholeNodes(e.mode)
    <3>1. CASE PlaceWholeNodes
      <4> DEFINE new == endpoints'[Len(endpoints) + 1]
      <4>1. WholeNodes(stage)
        BY <3>1 DEF PlaceWholeNodes
      <4>2. endpoints' = Append(endpoints, new) /\ new \in EndpointType /\ new.mode = stage
        BY <1>1, <3>1, PlacedWhole
      <4> HIDE DEF new
      <4> QED
        BY <4>1, <4>2
    <3>2. CASE PlacePartOfNode
      <4> DEFINE at == NextSlot(stage)
                 end == at.gpu + GpusPerWorker(res, stage)
                 new == Endpoint(<<at.node>>, at.gpu .. end - 1)
      <4>1. TypeOK
        BY <1>1
      <4>2. endpoints' = Append(endpoints, new) /\ new \in EndpointType
            /\ end \in Nat /\ at.gpu <= end /\ end <= G
        BY <3>2, <4>1, PlacedPart
      <4>3. new.nodes = <<at.node>>
        BY DEF Endpoint
      <4> HIDE DEF new, at
      <4>4. ~(Len(new.nodes) > 1)
        BY <4>3
      <4> QED
        BY <4>2, <4>4
    <3> QED
      BY <1>5, <3>1, <3>2
  <2>2. PICK e \in EndpointType : /\ endpoints' = Append(endpoints, e)
                                  /\ Len(e.nodes) > 1 => WholeNodes(e.mode)
    BY <2>1
  <2>3. endpoints \in Seq(EndpointType) /\ endpoints' = Append(endpoints, e)
    BY <1>1, <2>2
  <2>4. /\ DOMAIN endpoints' = DOMAIN endpoints \cup {Len(endpoints) + 1}
        /\ endpoints'[Len(endpoints) + 1] = e
        /\ \A i \in DOMAIN endpoints :
              endpoints'[i] = endpoints[i] /\ i < Len(endpoints) + 1 /\ i \in Nat
    BY <2>3, Appended
  <2>5. e.mode \in Modes
    BY DEF EndpointType
  <2>6. ASSUME NEW i \in DOMAIN endpoints', Len(endpoints'[i].nodes) > 1
        PROVE  WholeNodes(endpoints[i].mode)'
    <3>1. CASE i \in DOMAIN endpoints
      <4>1. endpoints'[i] = endpoints[i] /\ endpoints[i].mode \in Modes
        BY <1>3, <2>4, <3>1
      <4>2. WholeNodes(endpoints[i].mode)
        BY <2>6, <3>1, <4>1 DEF WideIsWhole
      <4>3. WholeNodes(endpoints[i].mode)' <=> WholeNodes(endpoints[i].mode)
        BY <4>1, BlockIsFixed DEF WholeNodes, GpusPerWorker, OwnGpus, Workers, G
      <4> QED
        BY <4>2, <4>3
    <3>2. CASE i = Len(endpoints) + 1
      <4>1. endpoints'[i] = e
        BY <2>4, <3>2
      <4>2. WholeNodes(e.mode)
        BY <2>2, <2>6, <4>1
      <4>3. WholeNodes(endpoints[i].mode)' <=> WholeNodes(e.mode)
        BY <4>1, BlockIsFixed DEF WholeNodes, GpusPerWorker, OwnGpus, Workers, G
      <4> QED
        BY <4>2, <4>3
    <3> QED
      BY <2>4, <3>1, <3>2
  <2> QED
    BY <2>6 DEF WideIsWhole
<1> QED
  BY <1>4, <1>5 DEF Next, pvars, OutOfNodes, ModePlaced, AssignPorts, PortsAssigned, StartWorker,
     WorkersStarted, Ended

(* The counters, of any resources block.                                   *)
LEMMA PortsAreCounted == Spec => [](PortsCounted /\ WideIsWhole)
<1>1. Init => PortsCounted /\ WideIsWhole
  <2> SUFFICES ASSUME Init PROVE PortsCounted /\ WideIsWhole
    OBVIOUS
  <2>1. DOMAIN processes = {} /\ DOMAIN endpoints = {}
    BY DEF Init
  <2>2. \A x \in Node : http_ports[x] = 30000 + 1000 * 0 /\ bootstrap_ports[x] \in 31000 .. 31000 + 0
    BY DEF Init
  <2> QED
    BY <2>1, <2>2 DEF PortsCounted, CountersAt, WideIsWhole
<1>2. ASSUME WInv, PortsCounted /\ WideIsWhole, [Next]_pvars
      PROVE  (PortsCounted /\ WideIsWhole)'
  <2>1. CASE AssignPorts
    BY <1>2, <2>1, CountedStep, WideStep
  <2>2. CASE ~AssignPorts
    <3>1. processes' = processes /\ http_ports' = http_ports /\ bootstrap_ports' = bootstrap_ports
      BY <1>2, <2>2 DEF Next, pvars, allocator, PlaceWholeNodes, PlacePartOfNode, OutOfNodes,
         ModePlaced, PortsAssigned, StartWorker, WorkersStarted, Ended
    <3>2. Node' = Node
      BY <1>2, BlockIsFixed
    <3> QED
      BY <1>2, <3>1, <3>2, WideStep DEF PortsCounted, CountersAt, Counted
  <2> QED
    BY <2>1, <2>2
<1> QED
  BY <1>1, <1>2, ProcessesInvariant, PTL DEF Spec

(* Two endpoints on several nodes each do not have their first in common.  *)
LEMMA WideApart ==
    ASSUME WInv, WideIsWhole, NEW i \in LeaderSet, NEW j \in LeaderSet,
           Cardinality(EndpointNodes(i)) > 1, Cardinality(EndpointNodes(j)) > 1,
           processes[i].node = processes[j].node
    PROVE  i = j
<1>1. /\ TypeOK /\ endpoints \in Seq(EndpointType) /\ DOMAIN processes = 1 .. Len(processes)
      /\ Len(processes) \in Nat /\ Assigned \in 0 .. Len(endpoints)
  BY DEF WInv, PInv, TypeOK, ProcessesAssigned
<1>2. \A q \in DOMAIN processes : \E x \in 1 .. Assigned : From(processes[q], endpoints[x])
  <2>1. \A q \in DOMAIN processes : Entry(processes[q], q)
    BY DEF WInv, ProcessesAssigned
  <2> QED
    BY <2>1 DEF Entry
<1>14. ASSUME NEW k \in LeaderSet, Cardinality(EndpointNodes(k)) > 1
      PROVE  \E x \in DOMAIN endpoints :
                /\ From(processes[k], endpoints[x]) /\ Len(endpoints[x].nodes) > 1
                /\ endpoints[x] \in EndpointType /\ Shaped(endpoints[x])
                /\ processes[k].node = endpoints[x].nodes[1]
  <2>1. k \in DOMAIN processes /\ processes[k].rank = 0
    BY DEF LeaderSet
  <2>2. PICK x \in 1 .. Assigned : From(processes[k], endpoints[x])
    BY <1>2, <2>1
  <2>3. x \in DOMAIN endpoints /\ endpoints[x] \in EndpointType /\ Shaped(endpoints[x])
    BY <1>1, <2>2 DEF WInv, EndpointsShaped
  <2>4. processes[k].node = endpoints[x].nodes[1]
    <3>1. PICK y \in DOMAIN endpoints[x].nodes, z \in DOMAIN Slots(endpoints[x]) :
             processes[k].rank = z - 1 /\ processes[k].node = Slots(endpoints[x])[z].node
      BY <2>2, <2>3 DEF From, Shaped, EndpointType
    <3>2. z = 1
      BY <1>1, <2>1, <2>3, <3>1, SlotFacts
    <3> QED
      BY <1>1, <2>3, <3>1, <3>2, SlotFacts
  <2>5. ASSUME ~(Len(endpoints[x].nodes) > 1) PROVE FALSE
    <3>1. DOMAIN endpoints[x].nodes = {1}
      <4>1. endpoints[x].nodes \in Seq(Node) /\ Len(endpoints[x].nodes) > 0
            /\ Len(endpoints[x].nodes) \in Nat
        BY <2>3 DEF Shaped, EndpointType
      <4>2. Len(endpoints[x].nodes) = 1
        <5> DEFINE size == Len(endpoints[x].nodes)
        <5>1. size \in Nat /\ size > 0 /\ ~(size > 1)
          BY <2>5, <4>1
        <5> HIDE DEF size
        <5>2. size = 1
          BY <5>1
        <5> QED
          BY <5>2 DEF size
      <4> QED
        BY <4>1, <4>2
    <3>2. ASSUME NEW q \in DOMAIN processes, processes[q].mode = processes[k].mode,
                 processes[q].index = processes[k].index
          PROVE  processes[q].node = endpoints[x].nodes[1]
      <4>1. PICK y \in 1 .. Assigned : From(processes[q], endpoints[y])
        BY <1>2
      <4>2. y = x
        <5>1. /\ endpoints[y].mode = processes[q].mode /\ endpoints[y].index = processes[q].index
              /\ endpoints[x].mode = processes[k].mode /\ endpoints[x].index = processes[k].index
          BY <2>2, <4>1 DEF From
        <5>2. x \in DOMAIN endpoints /\ y \in DOMAIN endpoints
          BY <1>1, <2>3
        <5> QED
          BY <3>2, <5>1, <5>2 DEF WInv, EndpointsShaped
      <4>3. \E r \in DOMAIN endpoints[x].nodes : processes[q].node = endpoints[x].nodes[r]
        BY <1>1, <2>3, <4>1, <4>2, SlotFacts DEF From
      <4> QED
        BY <3>1, <4>3
    <3>3. EndpointNodes(k) \subseteq {endpoints[x].nodes[1]}
      BY <3>2 DEF EndpointNodes
    <3>4. /\ IsFiniteSet({endpoints[x].nodes[1]}) /\ Cardinality({endpoints[x].nodes[1]}) = 1
      BY FS_Singleton
    <3>5. Cardinality(EndpointNodes(k)) <= 1 /\ Cardinality(EndpointNodes(k)) \in Nat
      BY <3>3, <3>4, FS_Subset, FS_CardinalityType
    <3> QED
      BY <1>14, <3>5
  <2> QED
    BY <2>2, <2>3, <2>4, <2>5
<1>3. PICK x \in DOMAIN endpoints :
         /\ From(processes[i], endpoints[x]) /\ Len(endpoints[x].nodes) > 1
         /\ endpoints[x] \in EndpointType /\ Shaped(endpoints[x])
         /\ processes[i].node = endpoints[x].nodes[1]
  BY <1>14
<1>4. PICK y \in DOMAIN endpoints :
         /\ From(processes[j], endpoints[y]) /\ Len(endpoints[y].nodes) > 1
         /\ endpoints[y] \in EndpointType /\ Shaped(endpoints[y])
         /\ processes[j].node = endpoints[y].nodes[1]
  BY <1>14
<1>5. G \in Nat \ {0}
  BY <1>1, CursorNumbers
<1>6. /\ endpoints[x].nodes \in Seq(Node) /\ endpoints[y].nodes \in Seq(Node)
      /\ WholeNodes(endpoints[x].mode) /\ WholeNodes(endpoints[y].mode)
      /\ endpoints[x].gpus = 0 .. G - 1 /\ endpoints[y].gpus = 0 .. G - 1
  BY <1>3, <1>4 DEF WideIsWhole, WInv, PInv, PlacedByMode, EndpointType
<1>7. /\ 1 \in DOMAIN endpoints[x].nodes /\ 1 \in DOMAIN endpoints[y].nodes
      /\ endpoints[x].nodes[1] \in Node
  BY <1>3, <1>4, <1>6
<1>8. 0 \in 0 .. G - 1
  BY <1>5
<1>9. /\ endpoints[x].nodes[1] \in Overlap(endpoints[x], endpoints[y])
      /\ endpoints[x].nodes[1] \in Overlap(endpoints[y], endpoints[x])
  BY <1>3, <1>4, <1>6, <1>7, <1>8 DEF Overlap
<1>10. ~(x < y) /\ ~(y < x)
  BY <1>6, <1>9 DEF WInv, PInv, SharedGpuOnlyOnLastNode
<1>11. x = y
  BY <1>1, <1>3, <1>4, <1>10
<1>12. /\ processes[i].mode = processes[j].mode /\ processes[i].index = processes[j].index
       /\ processes[i].rank = 0 /\ processes[j].rank = 0 /\ i \in 1 .. Len(processes)
       /\ j \in 1 .. Len(processes)
  BY <1>1, <1>3, <1>4, <1>11 DEF From, LeaderSet
<1>13. ~(i < j) /\ ~(j < i)
  BY <1>1, <1>12 DEF WInv, ProcessesAssigned, Apart
<1> QED
  BY <1>1, <1>12, <1>13

(* What a socket of a worker says of the worker.                           *)
OfWorker(s) ==
    /\ s.of \in DOMAIN processes /\ s.node = processes[s.of].node
    /\ \/ s.use = "http" /\ s.of \in LeaderSet /\ s.port = processes[s.of].http
       \/ /\ s.use = "bootstrap" /\ s.of \in LeaderSet /\ processes[s.of].mode = "prefill"
          /\ s.port = processes[s.of].bootstrap
       \/ /\ s.use = "dist_init" /\ s.of \in LeaderSet /\ s.port = 29500
          /\ Cardinality(EndpointNodes(s.of)) > 1
       \/ /\ s.use = "master" /\ s.of \in LeaderSet /\ s.port = 29501
          /\ Cardinality(EndpointNodes(s.of)) > 1
       \/ s.use = "dp_rpc" /\ s.port = 13345
       \/ s.use = "kv_events" /\ s.port = processes[s.of].kv_events
       \/ s.use = "nixl" /\ s.port = processes[s.of].nixl
       \/ s.use = "sys" /\ s.port = processes[s.of].sys

(* And the others of what they belong to.                                  *)
KvbmPort(i, k) == 56001 + 2 * (i - 1) + k

OfKvbm(s) ==
    \E i \in LeaderSet, k \in {0, 1} :
        s.use = "kvbm" /\ s.of = <<i, k>> /\ s.port = KvbmPort(i, k)

OfNode(l, s) ==
    \/ /\ s.use = "frontend" /\ s.of \in DOMAIN Topology(l).nodes
       /\ s.node = Topology(l).nodes[s.of] /\ s.port = Topology(l).port
    \/ s.use = "nginx" /\ s.node = 0 /\ s.port = 8000 /\ s.of = 0 /\ Topology(l).nginx # None
    \/ s.use = "etcd" /\ s.port = 2379 + s.of /\ s.of \in {0, 1}
    \/ s.use = "nats" /\ s.port = 4222 /\ s.of = 0
    \/ s.use = "dcgm" /\ s.port = l.dcgm /\ s.of = s.node
    \/ s.use = "node_exporter" /\ s.port = l.node_exporter /\ s.of = s.node

Whole(s) == s = Socket(s.node, s.port, s.use, s.of)

LEMMA SocketIsWhole ==
    ASSUME NEW n, NEW p, NEW u, NEW o, NEW s, s = Socket(n, p, u, o)
    PROVE  Whole(s) /\ s.node = n /\ s.port = p /\ s.use = u /\ s.of = o
  BY DEF Socket, Whole

LEMMA WorkerSocket ==
    ASSUME NEW l, NEW i \in DOMAIN processes, NEW s \in WorkerSockets(l, i)
    PROVE  Whole(s) /\ OfWorker(s)
<1> DEFINE p == processes[i]
<1>1. CASE s \in SglangSockets(l, i)
  <2>1. \/ i \in LeaderSet /\ s = Socket(p.node, p.http, "http", i)
        \/ i \in LeaderSet /\ p.mode = "prefill" /\ s = Socket(p.node, p.bootstrap, "bootstrap", i)
        \/ /\ i \in LeaderSet /\ Cardinality(EndpointNodes(i)) > 1
           /\ s = Socket(p.node, 29500, "dist_init", i)
        \/ s = Socket(p.node, p.kv_events, "kv_events", i)
    BY <1>1 DEF SglangSockets, When, LeaderSet
  <2> QED
    BY <2>1, SocketIsWhole DEF OfWorker
<1>2. CASE s \in VllmEnvironment(l, i)
  <2>1. \/ s = Socket(p.node, p.kv_events, "kv_events", i)
        \/ s = Socket(p.node, p.nixl, "nixl", i)
    BY <1>2 DEF VllmEnvironment
  <2> QED
    BY <2>1, SocketIsWhole DEF OfWorker
<1>3. CASE s \in VllmRendezvous(l, i)
  <2>1. \/ s = Socket(p.node, 13345, "dp_rpc", i)
        \/ /\ i \in LeaderSet /\ Cardinality(EndpointNodes(i)) > 1
           /\ s = Socket(p.node, 29501, "master", i)
    BY <1>3 DEF VllmRendezvous, When, LeaderSet
  <2> QED
    BY <2>1, SocketIsWhole DEF OfWorker
<1>4. CASE s \in SystemSockets(l, i)
  <2>1. s = Socket(p.node, p.sys, "sys", i)
    BY <1>4 DEF SystemSockets, When
  <2> QED
    BY <2>1, SocketIsWhole DEF OfWorker
<1> QED
  BY <1>1, <1>2, <1>3, <1>4 DEF WorkerSockets

LEMMA KvbmSocket ==
    ASSUME PortsCounted, WInv, WithinRanges, NEW l, NEW i \in LeaderSet, NEW s \in KvbmSockets(l, i)
    PROVE  Whole(s) /\ OfKvbm(s)
<1>1. i \in DOMAIN processes /\ i \in Nat /\ 1 <= i /\ i <= 1000
  <2>1. DOMAIN processes = 1 .. Len(processes) /\ Len(processes) \in Nat /\ Len(processes) <= 1000
    BY DEF WithinRanges, WInv, ProcessesAssigned
  <2> QED
    BY <2>1 DEF LeaderSet
<1>2. processes[i].kv_events = 5549 + i
  BY <1>1 DEF PortsCounted, Counted
<1> DEFINE pub == 56001 + 2 * (processes[i].kv_events - 5550)
<1>3. pub = 56001 + 2 * (i - 1) /\ pub + 1 <= 65535
  BY <1>1, <1>2
<1>4. PICK k \in {0, 1} :
         s = Socket(processes[i].node, (IF pub + 1 <= 65535 THEN pub ELSE 56001) + k, "kvbm", <<i, k>>)
  BY DEF KvbmSockets
<1> HIDE DEF pub
<1>5. s = Socket(processes[i].node, pub + k, "kvbm", <<i, k>>)
  BY <1>3, <1>4
<1>6. Whole(s) /\ s.use = "kvbm" /\ s.of = <<i, k>> /\ s.port = pub + k
  BY <1>5, SocketIsWhole
<1>7. s.port = KvbmPort(i, k)
  BY <1>3, <1>6 DEF KvbmPort
<1> QED
  BY <1>6, <1>7 DEF OfKvbm

LEMMA NodeSocket ==
    ASSUME NEW l, NEW s \in FrontendSockets(l) \cup InfraSockets(l) \cup ExporterSockets(l)
    PROVE  Whole(s) /\ OfNode(l, s)
<1>1. CASE s \in FrontendSockets(l)
  <2>1. CASE \E i \in DOMAIN Topology(l).nodes :
                s = Socket(Topology(l).nodes[i], Topology(l).port, "frontend", i)
    BY <2>1, SocketIsWhole DEF OfNode
  <2>2. CASE s = Socket(0, PublicPort, "nginx", 0) /\ Topology(l).nginx # None
    BY <2>2, SocketIsWhole DEF OfNode, PublicPort
  <2> QED
    BY <1>1, <2>1, <2>2 DEF FrontendSockets
<1>2. CASE s \in InfraSockets(l)
  <2>1. \/ s = Socket(0, 2379, "etcd", 0) \/ s = Socket(0, 2380, "etcd", 1)
        \/ s = Socket(0, 4222, "nats", 0)
    BY <1>2 DEF InfraSockets
  <2>2. CASE s = Socket(0, 2379, "etcd", 0)
    BY <2>2, SocketIsWhole DEF OfNode
  <2>3. CASE s = Socket(0, 2380, "etcd", 1)
    BY <2>3, SocketIsWhole DEF OfNode
  <2>4. CASE s = Socket(0, 4222, "nats", 0)
    BY <2>4, SocketIsWhole DEF OfNode
  <2> QED
    BY <2>1, <2>2, <2>3, <2>4
<1>3. CASE s \in ExporterSockets(l)
  <2>1. CASE \E n \in WorkerNodes : s = Socket(n, l.dcgm, "dcgm", n)
    BY <2>1, SocketIsWhole DEF OfNode
  <2>2. CASE \E n \in WorkerNodes : s = Socket(n, l.node_exporter, "node_exporter", n)
    BY <2>2, SocketIsWhole DEF OfNode
  <2> QED
    BY <1>3, <2>1, <2>2 DEF ExporterSockets
<1> QED
  BY <1>1, <1>2, <1>3

LEMMA EverySocket ==
    ASSUME PortsCounted, WInv, WithinRanges, NEW l, NEW s \in Sockets(l)
    PROVE  Whole(s) /\ (OfWorker(s) \/ OfKvbm(s) \/ OfNode(l, s))
<1>1. CASE \E i \in DOMAIN processes : s \in WorkerSockets(l, i)
  BY <1>1, WorkerSocket
<1>2. CASE \E i \in LeaderSet : s \in KvbmSockets(l, i)
  BY <1>2, KvbmSocket
<1>3. CASE s \in FrontendSockets(l) \cup InfraSockets(l) \cup ExporterSockets(l)
  BY <1>3, NodeSocket
<1> QED
  BY <1>1, <1>2, <1>3 DEF Sockets

(* The ports of each use lie apart from those of the others, but for the   *)
(* HTTP and bootstrap ports, and the system ports and 8180.                *)
Between(p, a, b) == a <= p /\ p <= b

Bands(l, s) ==
    /\ s.port \in Nat
    /\ s.use = "etcd" <=> Between(s.port, 2379, 2380)
    /\ s.use = "nats" <=> s.port = 4222
    /\ s.use = "kv_events" <=> Between(s.port, 5550, 6549)
    /\ s.use = "nixl" <=> Between(s.port, 6550, 7549)
    /\ s.use = "dp_rpc" <=> s.port = 13345
    /\ s.use = "dist_init" <=> s.port = 29500
    /\ s.use = "master" <=> s.port = 29501
    /\ s.use \in {"http", "bootstrap"} <=> Between(s.port, 30000, 56000)
    /\ s.use = "kvbm" <=> Between(s.port, 56001, 58000)
    /\ s.use = "http" => HttpCounted(s.port)
    /\ s.use = "bootstrap" => Between(s.port, 31000, 31026)
    /\ s.use = "sys" => Between(s.port, 8081, 9080) /\ s.port <= 8080 + Len(processes)
    /\ s.use = "frontend" => \/ s.port = 8000 /\ Topology(l).nginx = None
                             \/ s.port = 8180
    /\ s.use = "nginx" => s.port = 8000 /\ Topology(l).nginx # None
    /\ s.use = "dcgm" => s.port = l.dcgm
    /\ s.use = "node_exporter" => s.port = l.node_exporter
    /\ s.use \in {"etcd", "nats", "kv_events", "nixl", "dp_rpc", "dist_init", "master", "http",
                  "bootstrap", "kvbm", "sys", "frontend", "nginx", "dcgm", "node_exporter"}

(* The ports of a leader, within the ranges.                               *)
LEMMA LeaderPorts ==
    ASSUME PortsCounted, WInv, WithinRanges, NEW i \in LeaderSet
    PROVE  /\ processes[i].http \in Nat /\ Between(processes[i].http, 30000, 56000)
           /\ HttpCounted(processes[i].http)
           /\ processes[i].mode = "prefill" =>
                 processes[i].bootstrap \in Nat /\ Between(processes[i].bootstrap, 31000, 31026)
<1>1. i \in DOMAIN processes /\ processes[i].rank = 0
  BY DEF LeaderSet
<1>2. processes[i].node \in Node
  <2>1. processes \in Seq(ProcessType)
    BY DEF WInv, ProcessesAssigned
  <2>2. processes[i] \in ProcessType
    BY <1>1, <2>1
  <2> QED
    BY <2>2 DEF ProcessType
<1> DEFINE x == processes[i].node
<1> HIDE DEF x
<1> CountersAt(x)
  BY <1>2 DEF PortsCounted, x
<1>3. PICK j \in Nat : http_ports[x] = 30000 + 1000 * j /\ bootstrap_ports[x] \in 31000 .. 31000 + j
  BY DEF CountersAt
<1>4. http_ports[x] <= 57000
  BY <1>2 DEF WithinRanges, x
<1>5. Counted(processes[i], i) /\ Entry(processes[i], i)
  BY <1>1 DEF PortsCounted, WInv, ProcessesAssigned
<1>6. processes[i].http < http_ports[x] /\ HttpCounted(processes[i].http)
  BY <1>1, <1>5 DEF Counted, Entry, x
<1>7. processes[i].mode = "prefill" => processes[i].bootstrap \in 31000 .. bootstrap_ports[x] - 1
  BY <1>1, <1>5 DEF Counted, x
<1>8. j <= 27
  BY <1>3, <1>4
<1>9. bootstrap_ports[x] - 1 <= 31026 /\ bootstrap_ports[x] \in Nat
  BY <1>3, <1>8
<1>10. PICK k \in Nat : processes[i].http = 30000 + 1000 * k
  BY <1>6 DEF HttpCounted
<1>11. k <= 26
  BY <1>3, <1>6, <1>8, <1>10
<1>12. processes[i].http \in Nat /\ Between(processes[i].http, 30000, 56000)
  BY <1>10, <1>11 DEF Between
<1>13. ASSUME processes[i].mode = "prefill"
       PROVE  processes[i].bootstrap \in Nat /\ Between(processes[i].bootstrap, 31000, 31026)
  BY <1>7, <1>9, <1>13 DEF Between
<1> QED
  BY <1>6, <1>12, <1>13

LEMMA SocketBands ==
    ASSUME PortsCounted, WInv, WithinRanges, HasNodes, NEW l \in Layouts, ExportersApart(l),
           NEW s \in Sockets(l)
    PROVE  Bands(l, s)
<1>1. OfWorker(s) \/ OfKvbm(s) \/ OfNode(l, s)
  BY EverySocket
<1>2. CASE OfWorker(s)
  <2> DEFINE i == s.of
  <2>1. /\ i \in DOMAIN processes /\ i \in Nat /\ 1 <= i /\ i <= 1000 /\ i <= Len(processes)
        /\ Len(processes) \in Nat
    <3>1. i \in DOMAIN processes
      BY <1>2 DEF OfWorker
    <3>2. DOMAIN processes = 1 .. Len(processes) /\ Len(processes) \in Nat /\ Len(processes) <= 1000
      BY DEF WithinRanges, WInv, ProcessesAssigned
    <3> QED
      BY <3>1, <3>2
  <2>2. Counted(processes[i], i) /\ Entry(processes[i], i)
    BY <2>1 DEF PortsCounted, WInv, ProcessesAssigned
  <2>3. /\ processes[i].kv_events = 5549 + i /\ processes[i].nixl = 6549 + i
        /\ processes[i].sys = 8080 + i
    BY <2>2 DEF Counted, Entry
  <2>4. CASE s.use = "http"
    <3>1. i \in LeaderSet /\ s.port = processes[i].http
      BY <1>2, <2>4 DEF OfWorker
    <3>2. s.port \in Nat /\ Between(s.port, 30000, 56000) /\ HttpCounted(s.port)
      BY <3>1, LeaderPorts
    <3> QED
      BY <2>4, <3>2 DEF Bands, Between
  <2>5. CASE s.use = "bootstrap"
    <3>1. i \in LeaderSet /\ s.port = processes[i].bootstrap /\ processes[i].mode = "prefill"
      BY <1>2, <2>5 DEF OfWorker
    <3>2. s.port \in Nat /\ Between(s.port, 31000, 31026)
      BY <3>1, LeaderPorts
    <3> QED
      BY <2>5, <3>2 DEF Bands, Between
  <2>6. CASE s.use \notin {"http", "bootstrap"}
    <3>1. \/ s.use = "dist_init" /\ s.port = 29500
          \/ s.use = "master" /\ s.port = 29501
          \/ s.use = "dp_rpc" /\ s.port = 13345
          \/ s.use = "kv_events" /\ s.port = 5549 + i
          \/ s.use = "nixl" /\ s.port = 6549 + i
          \/ s.use = "sys" /\ s.port = 8080 + i
      BY <1>2, <2>3, <2>6 DEF OfWorker
    <3> HIDE DEF i
    <3>2. /\ 5550 <= 5549 + i /\ 5549 + i <= 6549 /\ 6550 <= 6549 + i /\ 6549 + i <= 7549
          /\ 8081 <= 8080 + i /\ 8080 + i <= 9080 /\ 8080 + i <= 8080 + Len(processes)
          /\ s.port \in Nat
      BY <2>1, <3>1
    <3>3. CASE s.use \in {"dist_init", "master", "dp_rpc"}
      <4>1. CASE s.use = "dist_init"
        BY <3>1, <4>1 DEF Bands, Between
      <4>2. CASE s.use = "master"
        BY <3>1, <4>2 DEF Bands, Between
      <4>3. CASE s.use = "dp_rpc"
        BY <3>1, <4>3 DEF Bands, Between
      <4> QED
        BY <3>3, <4>1, <4>2, <4>3
    <3>4. CASE s.use = "kv_events"
      BY <3>1, <3>2, <3>4 DEF Bands, Between
    <3>5. CASE s.use = "nixl"
      BY <3>1, <3>2, <3>5 DEF Bands, Between
    <3>6. CASE s.use = "sys"
      BY <3>1, <3>2, <3>6 DEF Bands, Between
    <3> QED
      BY <3>1, <3>3, <3>4, <3>5, <3>6
  <2> QED
    BY <2>4, <2>5, <2>6
<1>3. CASE OfKvbm(s)
  <2>1. PICK i \in LeaderSet, k \in {0, 1} : s.use = "kvbm" /\ s.port = KvbmPort(i, k)
    BY <1>3 DEF OfKvbm
  <2>2. i \in Nat /\ 1 <= i /\ i <= 1000
    <3>1. DOMAIN processes = 1 .. Len(processes) /\ Len(processes) \in Nat /\ Len(processes) <= 1000
      BY DEF WithinRanges, WInv, ProcessesAssigned
    <3> QED
      BY <3>1 DEF LeaderSet
  <2>3. s.port \in Nat /\ Between(s.port, 56001, 58000)
    BY <2>1, <2>2 DEF Between, KvbmPort
  <2> QED
    BY <2>1, <2>3 DEF Bands, Between
<1>4. CASE OfNode(l, s)
  <2>1. l.dcgm \in Nat /\ l.node_exporter \in Nat
    BY LayoutAssumption DEF Layout
  <2>2. \/ Topology(l).nginx = None /\ Topology(l).port = 8000
        \/ Topology(l).port = 8180
    BY FrontendPlaces DEF HasNodes
  <2>3. CASE s.use = "frontend"
    <3>1. (s.port = 8000 /\ Topology(l).nginx = None) \/ s.port = 8180
      BY <1>4, <2>2, <2>3 DEF OfNode
    <3>2. CASE s.port = 8000 /\ Topology(l).nginx = None
      BY <2>3, <3>2 DEF Bands, Between
    <3>3. CASE s.port = 8180
      BY <2>3, <3>3 DEF Bands, Between
    <3> QED
      BY <3>1, <3>2, <3>3
  <2>4. CASE s.use = "nginx"
    BY <1>4, <2>4 DEF OfNode, Bands, Between
  <2>5. CASE s.use \in {"etcd", "nats"}
    <3>1. \/ s.use = "etcd" /\ (s.port = 2379 \/ s.port = 2380)
          \/ s.use = "nats" /\ s.port = 4222
      BY <1>4, <2>5 DEF OfNode
    <3>2. CASE s.use = "etcd" /\ s.port = 2379
      BY <3>2 DEF Bands, Between
    <3>3. CASE s.use = "etcd" /\ s.port = 2380
      BY <3>3 DEF Bands, Between
    <3>4. CASE s.use = "nats" /\ s.port = 4222
      BY <3>4 DEF Bands, Between
    <3> QED
      BY <3>1, <3>2, <3>3, <3>4
  <2>6. CASE s.use \in {"dcgm", "node_exporter"}
    <3>1. s.port \in {l.dcgm, l.node_exporter} /\ s.port \in Nat
      BY <1>4, <2>1, <2>6 DEF OfNode
    <3>2. /\ s.port \notin {2379, 2380, 4222, 8000, 8180, 13345, 29500, 29501}
          /\ ~Between(s.port, 5550, 7549) /\ ~Between(s.port, 8081, 9080)
          /\ ~Between(s.port, 30000, 58000)
      BY <3>1 DEF ExportersApart, Between
    <3>3. s.use = "dcgm" => s.port = l.dcgm
      BY <1>4 DEF OfNode
    <3>4. s.use = "node_exporter" => s.port = l.node_exporter
      BY <1>4 DEF OfNode
    <3>5. /\ s.port # 2379 /\ s.port # 2380 /\ s.port # 4222 /\ s.port # 13345
          /\ s.port # 29500 /\ s.port # 29501
          /\ ~Between(s.port, 2379, 2380) /\ ~Between(s.port, 5550, 6549)
          /\ ~Between(s.port, 6550, 7549) /\ ~Between(s.port, 30000, 56000)
          /\ ~Between(s.port, 56001, 58000)
      BY <3>1, <3>2 DEF Between
    <3>6. CASE s.use = "dcgm"
      BY <3>1, <3>3, <3>5, <3>6 DEF Bands
    <3>7. CASE s.use = "node_exporter"
      BY <3>1, <3>4, <3>5, <3>7 DEF Bands
    <3> QED
      BY <2>6, <3>6, <3>7
  <2> QED
    BY <1>4, <2>3, <2>4, <2>5, <2>6 DEF OfNode
<1> QED
  BY <1>1, <1>2, <1>3, <1>4

LEMMA WorkerPlace ==
    ASSUME WInv, NEW s, OfWorker(s)
    PROVE  s.of \in DOMAIN processes /\ s.of \in Nat /\ s.node = processes[s.of].node
<1>1. DOMAIN processes = 1 .. Len(processes) /\ Len(processes) \in Nat
  BY DEF WInv, ProcessesAssigned
<1>2. s.of \in DOMAIN processes /\ s.node = processes[s.of].node
  BY DEF OfWorker
<1> QED
  BY <1>1, <1>2

LEMMA KvbmPortsDistinct ==
    ASSUME NEW i \in Nat, NEW j \in Nat, NEW k \in {0, 1}, NEW m \in {0, 1},
           KvbmPort(i, k) = KvbmPort(j, m)
    PROVE  i = j /\ k = m
  BY DEF KvbmPort

(* Two of one use with one address belong to one thing.                    *)
LEMMA OneListener ==
    ASSUME PortsCounted, WideIsWhole, WInv, WithinRanges, HasNodes, NEW l \in Layouts,
           NEW a \in Sockets(l), NEW b \in Sockets(l),
           a.use = b.use, a.node = b.node, a.port = b.port, a.use # "dp_rpc"
    PROVE  a = b
<1>1. /\ Whole(a) /\ (OfWorker(a) \/ OfKvbm(a) \/ OfNode(l, a))
      /\ Whole(b) /\ (OfWorker(b) \/ OfKvbm(b) \/ OfNode(l, b))
  BY EverySocket
<1>2. SUFFICES a.of = b.of
  BY <1>1 DEF Whole
<1>3. CASE OfWorker(a)
  <2>1. OfWorker(b)
    BY <1>1, <1>3 DEF OfWorker, OfKvbm, OfNode
  <2> DEFINE i == a.of
             j == b.of
  <2>2. /\ i \in DOMAIN processes /\ j \in DOMAIN processes /\ i \in Nat /\ j \in Nat
        /\ processes[i].node = processes[j].node
    <3>1. a.of \in DOMAIN processes /\ a.of \in Nat /\ a.node = processes[a.of].node
      BY <1>3, WorkerPlace
    <3>2. b.of \in DOMAIN processes /\ b.of \in Nat /\ b.node = processes[b.of].node
      BY <2>1, WorkerPlace
    <3> QED
      BY <3>1, <3>2
  <2>3. \A k \in DOMAIN processes : Counted(processes[k], k) /\ Entry(processes[k], k)
    BY DEF PortsCounted, WInv, ProcessesAssigned
  <2>4. \A k \in DOMAIN processes : /\ processes[k].kv_events = 5549 + k
                                    /\ processes[k].nixl = 6549 + k /\ processes[k].sys = 8080 + k
    BY <2>3 DEF Counted, Entry
  <2>5. CASE a.use = "http"
    <3>1. /\ i \in LeaderSet /\ j \in LeaderSet /\ processes[i].http = processes[j].http
      BY <1>3, <2>1, <2>5 DEF OfWorker
    <3>2. processes[i].rank = 0 /\ processes[j].rank = 0
      BY <3>1 DEF LeaderSet
    <3>3. ~(i < j) /\ ~(j < i)
      BY <2>2, <3>1, <3>2 DEF WInv, ProcessesAssigned, Apart
    <3> QED
      BY <2>2, <3>3
  <2>6. CASE a.use = "bootstrap"
    <3>1. /\ i \in LeaderSet /\ j \in LeaderSet /\ processes[i].mode = "prefill"
          /\ processes[j].mode = "prefill" /\ processes[i].bootstrap = processes[j].bootstrap
      BY <1>3, <2>1, <2>6 DEF OfWorker
    <3>2. processes[i].rank = 0 /\ processes[j].rank = 0
      BY <3>1 DEF LeaderSet
    <3>3. ~(i < j) /\ ~(j < i)
      BY <2>2, <3>1, <3>2 DEF PortsCounted
    <3> QED
      BY <2>2, <3>3
  <2>7. CASE a.use \in {"dist_init", "master"}
    <3>1. /\ i \in LeaderSet /\ j \in LeaderSet
          /\ Cardinality(EndpointNodes(i)) > 1 /\ Cardinality(EndpointNodes(j)) > 1
      BY <1>3, <2>1, <2>7 DEF OfWorker
    <3> QED
      BY <2>2, <3>1, WideApart
  <2>8. CASE a.use \in {"kv_events", "nixl", "sys"}
    <3>1. \/ processes[i].kv_events = processes[j].kv_events
          \/ processes[i].nixl = processes[j].nixl
          \/ processes[i].sys = processes[j].sys
      BY <1>3, <2>1, <2>8 DEF OfWorker
    <3> QED
      BY <2>2, <2>4, <3>1
  <2> QED
    BY <1>3, <2>5, <2>6, <2>7, <2>8 DEF OfWorker
<1>4. CASE OfKvbm(a)
  <2>1. OfKvbm(b)
    BY <1>1, <1>4 DEF OfWorker, OfKvbm, OfNode
  <2>2. PICK i \in LeaderSet, k \in {0, 1} : a.of = <<i, k>> /\ a.port = KvbmPort(i, k)
    BY <1>4 DEF OfKvbm
  <2>3. PICK j \in LeaderSet, m \in {0, 1} : b.of = <<j, m>> /\ b.port = KvbmPort(j, m)
    BY <2>1 DEF OfKvbm
  <2>4. i \in Nat /\ j \in Nat
    <3>1. DOMAIN processes = 1 .. Len(processes) /\ Len(processes) \in Nat
      BY DEF WInv, ProcessesAssigned
    <3> QED
      BY <3>1 DEF LeaderSet
  <2>5. i = j /\ k = m
    BY <2>2, <2>3, <2>4, KvbmPortsDistinct, ZenonT(60)
  <2> QED
    BY <2>2, <2>3, <2>5
<1>5. CASE OfNode(l, a)
  <2>1. OfNode(l, b)
    BY <1>1, <1>5 DEF OfWorker, OfKvbm, OfNode
  <2>2. CASE a.use = "frontend"
    <3>1. /\ a.of \in DOMAIN Topology(l).nodes /\ b.of \in DOMAIN Topology(l).nodes
          /\ Topology(l).nodes[a.of] = Topology(l).nodes[b.of]
      BY <1>5, <2>1, <2>2 DEF OfNode
    <3>2. \A x, y \in DOMAIN Topology(l).nodes : Topology(l).nodes[x] = Topology(l).nodes[y] => x = y
      BY DEF Topology
    <3> QED
      BY <3>1, <3>2
  <2>3. CASE a.use # "frontend"
    BY <1>5, <2>1, <2>3 DEF OfNode
  <2> QED
    BY <2>2, <2>3
<1> QED
  BY <1>1, <1>3, <1>4, <1>5

(* No two listeners of a node are given one port, whatever the resources   *)
(* block and the layout, as long as the counters stay within their ranges  *)
(* (topology.py: NodePortAllocator, ports.py, the backends).               *)
THEOREM WorkersListenersDistinct == Spec => []ListenersDistinct
<1>1. (WInv /\ HasNodes /\ PortsCounted /\ WideIsWhole) => ListenersDistinct
  <2> SUFFICES ASSUME WInv, HasNodes, PortsCounted, WideIsWhole, WithinRanges,
                      NEW l \in Layouts, ExportersApart(l),
                      NEW a \in Sockets(l), NEW b \in Sockets(l), a # b, Address(a) = Address(b)
               PROVE  \/ MeetByDesign(a, b)
                      \/ /\ {a.use, b.use} = {"sys", "frontend"} /\ a.port = 8180
                         /\ Len(processes) >= 100
    BY DEF ListenersDistinct
  <2>1. a.node = b.node /\ a.port = b.port
    BY DEF Address
  <2>2. Bands(l, a) /\ Bands(l, b)
    BY SocketBands
  <2>3. CASE a.use = b.use
    BY <2>1, <2>3, OneListener DEF MeetByDesign
  <2>4. CASE a.use # b.use
    <3>1. CASE Between(a.port, 30000, 56000)
      <4>1. a.use \in {"http", "bootstrap"} /\ b.use \in {"http", "bootstrap"}
        BY <2>1, <2>2, <3>1 DEF Bands, Between
      <4>2. /\ HttpCounted(a.port)
            /\ a.port \in Nat /\ Between(a.port, 31000, 31026)
        BY <2>1, <2>2, <2>4, <4>1 DEF Bands, Between
      <4>3. a.port = 31000
        BY <4>2 DEF Between, HttpCounted
      <4>4. {a.use, b.use} = {"http", "bootstrap"}
        BY <2>4, <4>1
      <4> QED
        BY <4>3, <4>4 DEF MeetByDesign
    <3>2. CASE ~Between(a.port, 30000, 56000)
      <4>1. /\ a.use \in {"sys", "frontend", "nginx", "dcgm", "node_exporter"}
            /\ b.use \in {"sys", "frontend", "nginx", "dcgm", "node_exporter"}
        BY <2>1, <2>2, <2>4, <3>2 DEF Bands, Between
      <4>2. CASE a.use \in {"dcgm", "node_exporter"} \/ b.use \in {"dcgm", "node_exporter"}
        <5>1. ASSUME NEW x, NEW y, Bands(l, x), Bands(l, y), x.port = y.port, x.use # y.use,
                     x.use \in {"dcgm", "node_exporter"},
                     y.use \in {"sys", "frontend", "nginx", "dcgm", "node_exporter"}
              PROVE  FALSE
          <6>1. x.port \in {l.dcgm, l.node_exporter} /\ x.port \in Nat
            BY <5>1 DEF Bands
          <6>2. x.port # 8000 /\ x.port # 8180 /\ (x.port < 8081 \/ 9080 < x.port)
            BY <6>1 DEF ExportersApart
          <6>3. CASE y.use \in {"dcgm", "node_exporter"}
            BY <5>1, <6>3 DEF Bands, ExportersApart
          <6>4. CASE y.use = "sys"
            BY <5>1, <6>1, <6>2, <6>4 DEF Bands, Between
          <6>5. CASE y.use \in {"frontend", "nginx"}
            BY <5>1, <6>1, <6>2, <6>5 DEF Bands
          <6> QED
            BY <5>1, <6>3, <6>4, <6>5
        <5> QED
          BY <2>1, <2>2, <2>4, <4>1, <4>2, <5>1
      <4>3. ASSUME NEW x \in Sockets(l), NEW y \in Sockets(l), Bands(l, x), Bands(l, y),
                   x.use = "sys", y.use = "frontend", x.port = y.port
            PROVE  x.port = 8180 /\ Len(processes) >= 100
        <5>1. x.port = 8180 /\ x.port <= 8080 + Len(processes)
          BY <4>3 DEF Bands, Between
        <5>2. Len(processes) \in Nat
          BY DEF WInv, ProcessesAssigned
        <5> QED
          BY <5>1, <5>2
      <4>4. CASE a.use = "sys" /\ b.use = "frontend"
        <5>1. a.port = 8180 /\ Len(processes) >= 100
          BY <2>1, <2>2, <4>3, <4>4
        <5> QED
          BY <4>4, <5>1
      <4>5. CASE a.use = "frontend" /\ b.use = "sys"
        <5>1. a.port = 8180 /\ Len(processes) >= 100
          BY <2>1, <2>2, <4>3, <4>5
        <5>2. {a.use, b.use} = {"sys", "frontend"}
          BY <4>5
        <5> QED
          BY <5>1, <5>2
      <4>6. CASE a.use = "nginx" /\ b.use \in {"sys", "frontend"}
        BY <2>1, <2>2, <4>6 DEF Bands, Between
      <4>7. CASE b.use = "nginx" /\ a.use \in {"sys", "frontend"}
        BY <2>1, <2>2, <4>7 DEF Bands, Between
      <4>8. CASE a.use \in {"sys", "frontend", "nginx"} /\ b.use \in {"sys", "frontend", "nginx"}
        BY <2>4, <4>4, <4>5, <4>6, <4>7, <4>8
      <4>9. \/ a.use \in {"dcgm", "node_exporter"} \/ b.use \in {"dcgm", "node_exporter"}
            \/ a.use \in {"sys", "frontend", "nginx"} /\ b.use \in {"sys", "frontend", "nginx"}
        BY <4>1
      <4> QED
        BY <4>2, <4>8, <4>9
    <3> QED
      BY <3>1, <3>2
  <2> QED
    BY <2>3, <2>4
<1> QED
  BY <1>1, ProcessesInvariant, PortsAreCounted, NodesRemain, PTL
=============================================================================

---------------------------- MODULE ServingProofs ----------------------------
(***************************************************************************)
(* Proofs about Serving and the infrastructure under it: for any stack,    *)
(* any number of polls and of failures.                                    *)
(***************************************************************************)
EXTENDS Serving, FiniteSetTheorems, TLAPS

(* The step of the orchestrator and of setup_head.py, one of the servers,  *)
(* or a step of the stack above them.                                      *)
InfraStep ==
    SetupStep \/ Interrupt \/ ServerStep \/ StartInfra \/ PortOpens \/ PortTimesOut \/ TerminateStep

Above ==
    \/ StartWorkers \/ StartFrontends \/ StackStep \/ WaitStep \/ MonitorDetects
    \/ UNCHANGED vars

LEMMA StepKinds == Next => (InfraStep /\ UNCHANGED svars) \/ Above
BY DEF Next, InfraStep, Above, CleansUp, Ended

-----------------------------------------------------------------------------
(* The infrastructure by itself.                                           *)

(* Where setup_head.py is says which servers it has not started yet and    *)
(* which it has asked to stop, of those it has the handles of.             *)
Startup ==
    /\ setup \in {"none", "start_nats"} => server["nats"] = "none"
    /\ setup \in {"none", "start_nats", "nats_launched", "start_etcd"} => server["etcd"] = "none"
    /\ run = "infra" => setup = "none"

Shutdown ==
    /\ setup \in {"stopping_nats", "stop_etcd", "stopping_etcd"} /\ "nats" \in held =>
          server["nats"] \notin Undisturbed
    /\ setup = "stopping_nats" => server["nats"] \in {"stopping", "dead"}
    /\ setup = "stopping_etcd" => server["etcd"] \notin Undisturbed

(* Only a SIGINT keeps the handle of a server that has been started from   *)
(* its variable, once setup_head.py has left the point between the two.    *)
Handles ==
    /\ server["nats"] # "none" /\ "nats" \notin held => interrupted \/ setup \in {"nats_launched", "exited"}
    /\ server["etcd"] # "none" /\ "etcd" \notin held => interrupted \/ setup \in {"etcd_launched", "exited"}

(* Until something fails each wait means what it says.                     *)
Awaited ==
    setup \in InTry /\ faults = 0 /\ foreign = {} =>
        /\ run \notin {"infra", "await_nats", "failed"} => server["nats"] = "listening"
        /\ run \notin {"infra", "await_nats", "await_etcd", "failed"} => server["etcd"] = "listening"

IInv == Startup /\ Shutdown /\ Handles /\ Awaited

LEMMA AboveKeepsInfra ==
    ASSUME Above
    PROVE  /\ UNCHANGED <<setup, held, code, server, foreign, interrupted, terminated>>
           /\ run' = run \/ (run = "workers" /\ run' = "frontends") \/ (run = "frontends" /\ run' = "health")
           /\ faults' = faults \/ (faults < MaxFaults /\ faults' = faults + 1)
<1>1. CASE StartWorkers \/ StartFrontends
  BY <1>1 DEF StartWorkers, StartFrontends
<1>2. CASE StackStep
  BY <1>2 DEF StackStep, ComesUp, Announces, RankDies, LeaseExpires, FrontendUp, FrontendDies,
              Learns, ivars
<1>3. CASE WaitStep \/ MonitorDetects
  BY <1>3 DEF WaitStep, Aborts, TimesOut, PollAgain, AnswerReady, AnswerNotReady, WaitsUnchanged,
              MonitorDetects, ivars
<1>4. CASE UNCHANGED vars
  BY <1>4 DEF vars, ivars
<1>. QED
  BY <1>1, <1>2, <1>3, <1>4 DEF Above

LEMMA ITypeStep ==
    ASSUME ITypeOK, InfraStep \/ Above PROVE ITypeOK'
<1>. USE DEF ITypeOK, Alive, Undisturbed, InTry, InFinally
<1>0. MaxFaults \in Nat
  BY InfrastructureAssumption
<1>1. CASE SetupStep
  <2>1. CASE StartNats \/ StartEtcd \/ StartRaises
    BY <2>1 DEF StartNats, StartEtcd, StartRaises, Launches, SetupAt, Leaves
  <2>2. CASE Served \/ WaitTimesOut \/ Supervise
    BY <2>2 DEF Served, WaitTimesOut, Supervise, SetupAt, Leaves
  <2>3. CASE StopNats \/ StopEtcd
    BY <2>3 DEF StopNats, StopEtcd, Asks
  <2>4. CASE Stopped \/ StopTimesOut
    BY <2>4 DEF Stopped, StopTimesOut, SetupAt
  <2>5. CASE Assigned
    BY <2>5 DEF Assigned, SetupAt, Service
  <2>. QED
    BY <1>1, <2>1, <2>2, <2>3, <2>4, <2>5 DEF SetupStep
<1>2. CASE Interrupt
  BY <1>0, <1>2 DEF Interrupt, Leaves, SetupAt
<1>3. CASE ServerStep
  <2>1. CASE \E s \in Service : Listens(s) \/ AddressInUse(s) \/ Dies(s) \/ Stops(s)
    BY <1>0, <2>1 DEF Listens, AddressInUse, Dies, Stops, Becomes
  <2>2. CASE StepEnds
    BY <2>2 DEF StepEnds
  <2>. QED
    BY <1>3, <2>1, <2>2 DEF ServerStep
<1>4. CASE StartInfra \/ PortOpens \/ PortTimesOut \/ TerminateStep
  BY <1>4 DEF StartInfra, PortOpens, PortTimesOut, TerminateStep, SetupAt
<1>5. CASE Above
  BY <1>0, <1>5, AboveKeepsInfra
<1>. QED
  BY <1>1, <1>2, <1>3, <1>4, <1>5 DEF InfraStep

LEMMA IInvStep ==
    ASSUME ITypeOK, IInv, InfraStep \/ Above PROVE IInv'
<1>. USE DEF ITypeOK, IInv, Alive, Undisturbed, InTry, InFinally, Service
<1>0. MaxFaults \in Nat
  BY InfrastructureAssumption
<1>1. CASE SetupStep
  <2>1. CASE StartNats \/ StartEtcd \/ Assigned \/ StartRaises
    BY <2>1
    DEF StartNats, StartEtcd, Assigned, StartRaises, Launches, SetupAt, Leaves,
        Startup, Shutdown, Handles, Awaited
  <2>2. CASE Served \/ WaitTimesOut \/ Supervise
    BY <2>2 DEF Served, WaitTimesOut, Supervise, SetupAt, Leaves, Startup, Shutdown, Handles, Awaited
  <2>3. CASE StopNats \/ StopEtcd
    BY <2>3 DEF StopNats, StopEtcd, Asks, Startup, Shutdown, Handles, Awaited
  <2>4. CASE Stopped \/ StopTimesOut
    BY <2>4 DEF Stopped, StopTimesOut, SetupAt, Startup, Shutdown, Handles, Awaited
  <2>. QED
    BY <1>1, <2>1, <2>2, <2>3, <2>4 DEF SetupStep
<1>2. CASE Interrupt
  BY <1>2 DEF Interrupt, Leaves, SetupAt, Startup, Shutdown, Handles, Awaited
<1>3. CASE ServerStep
  <2>1. ASSUME NEW s \in Service, Listens(s) \/ AddressInUse(s) \/ Dies(s) \/ Stops(s) PROVE IInv'
    <3>1. UNCHANGED <<setup, held, foreign, run, interrupted>>
      BY <2>1 DEF Listens, AddressInUse, Dies, Stops, Becomes
    <3>2. Startup'
      BY <2>1, <3>1 DEF Startup, Listens, AddressInUse, Dies, Stops, Becomes
    <3>3. Shutdown'
      BY <2>1, <3>1 DEF Shutdown, Listens, AddressInUse, Dies, Stops, Becomes
    <3>4. Handles'
      BY <2>1, <3>1 DEF Handles, Listens, AddressInUse, Dies, Stops, Becomes
    <3>5. Awaited'
      BY <1>0, <2>1, <3>1 DEF Awaited, Listens, AddressInUse, Dies, Stops, Becomes
    <3>. QED
      BY <3>2, <3>3, <3>4, <3>5
  <2>2. CASE StepEnds
    BY <2>2 DEF StepEnds, Startup, Shutdown, Handles, Awaited
  <2>. QED
    BY <1>3, <2>1, <2>2 DEF ServerStep
<1>4. CASE StartInfra \/ TerminateStep
  BY <1>4 DEF StartInfra, TerminateStep, SetupAt, Startup, Shutdown, Handles, Awaited
<1>5. CASE PortOpens \/ PortTimesOut
  BY <1>5 DEF PortOpens, PortTimesOut, Open, Startup, Shutdown, Handles, Awaited
<1>6. CASE Above
  BY <1>0, <1>6, AboveKeepsInfra DEF Startup, Shutdown, Handles, Awaited
<1>. QED
  BY <1>1, <1>2, <1>3, <1>4, <1>5, <1>6 DEF InfraStep

(* What setup_head.py leaves undisturbed as it exits.                      *)
ForgottenFor(s) ==
    \/ s \notin held /\ interrupted
    \/ s = "etcd" /\ server'["nats"] = "stopping"
    \/ faults' # faults /\ (s = "nats" => setup = "stop_nats")

LEMMA ExitStep ==
    ASSUME ITypeOK, IInv, InfraStep \/ Above, setup # "exited", setup' = "exited", terminated' = FALSE,
           NEW s \in Service, server'[s] \in Undisturbed
    PROVE  ForgottenFor(s)
<1>. USE DEF ITypeOK, IInv, Alive, Undisturbed, Service, ForgottenFor
<1>1. CASE SetupStep
  <2>1. CASE StartNats \/ StartEtcd \/ Assigned \/ StartRaises \/ Served \/ WaitTimesOut \/ Supervise
    BY <2>1
    DEF StartNats, StartEtcd, Assigned, StartRaises, Launches, Served, WaitTimesOut, Supervise, SetupAt, Leaves
  <2>2. CASE StopNats \/ StopEtcd
    <3>1. /\ setup = "stop_etcd" /\ UNCHANGED <<server, held, interrupted>>
          /\ ~("etcd" \in held /\ server["etcd"] \in Undisturbed)
      BY <2>2 DEF StopNats, StopEtcd, Asks
    <3>2. s \notin held
      BY <3>1 DEF Shutdown
    <3>. QED
      BY <3>1, <3>2 DEF Handles
  <2>3. CASE Stopped \/ StopTimesOut
    <3>1. UNCHANGED <<server, held, interrupted>> /\ setup \in {"stopping_nats", "stopping_etcd"}
      BY <2>3 DEF Stopped, StopTimesOut, SetupAt
    <3>2. CASE setup = "stopping_etcd"
      BY <3>1, <3>2 DEF Shutdown, Handles
    <3>3. CASE setup = "stopping_nats"
      BY <2>3, <3>1, <3>3 DEF Stopped, StopTimesOut, SetupAt, Shutdown
    <3>. QED
      BY <3>1, <3>2, <3>3
  <2>. QED
    BY <1>1, <2>1, <2>2, <2>3 DEF SetupStep
<1>2. CASE Interrupt
  <2>1. faults' = faults + 1 /\ faults \in Nat /\ server' = server
    BY <1>2, InfrastructureAssumption DEF Interrupt
  <2>2. setup \in {"start_nats"} \cup InFinally
    BY <1>2 DEF Interrupt, Leaves, SetupAt
  <2>3. CASE setup \in {"start_nats", "stop_nats"}
    BY <2>1, <2>3 DEF Startup
  <2>4. CASE setup \in {"stopping_nats", "stop_etcd", "stopping_etcd"}
    <3>1. s = "nats" => s \notin held /\ interrupted
      BY <2>1, <2>4 DEF Shutdown, Handles
    <3>. QED
      BY <2>1, <3>1
  <2>. QED
    BY <2>2, <2>3, <2>4 DEF InFinally
<1>3. CASE ServerStep
  BY <1>3 DEF ServerStep, Listens, AddressInUse, Dies, Stops, Becomes, StepEnds
<1>4. CASE StartInfra \/ PortOpens \/ PortTimesOut \/ TerminateStep
  BY <1>4 DEF StartInfra, PortOpens, PortTimesOut, TerminateStep, SetupAt
<1>5. CASE Above
  BY <1>5, AboveKeepsInfra
<1>. QED
  BY <1>1, <1>2, <1>3, <1>4, <1>5 DEF InfraStep

-----------------------------------------------------------------------------
(* Type correctness.                                                       *)

LEMMA InitTypes == Init => TypeOK /\ IInv
<1>. SUFFICES ASSUME Init PROVE TypeOK /\ IInv
  OBVIOUS
<1>0. 0 \in 0 .. MaxFaults /\ 0 \in 0 .. MaxPolls
  BY InfrastructureAssumption, ServingAssumption
<1>1. ITypeOK
  <2>1. server \in [Service -> Alive \cup {"none", "dead"}]
    BY DEF Init, IInit
  <2>2. foreign \subseteq Service
    BY InfrastructureAssumption DEF Init, IInit
  <2>. QED
    BY <1>0, <2>1, <2>2 DEF Init, IInit, ITypeOK
<1>2. TypeOK
  BY <1>0, <1>1 DEF Init, TypeOK, State
<1>3. IInv
  BY DEF Init, IInit, IInv, Startup, Shutdown, Handles, Awaited, InTry, Service
<1>. QED
  BY <1>2, <1>3

LEMMA TypeAbove ==
    ASSUME TypeOK, Above PROVE TypeOK'
<1>1. ITypeOK'
  BY ITypeStep DEF TypeOK
<1>2. CASE StartWorkers \/ StartFrontends
  BY <1>1, <1>2 DEF TypeOK, StartWorkers, StartFrontends, State
<1>3. CASE StackStep
  <2>1. ASSUME NEW r \in Rank, ComesUp(r) \/ Announces(r) \/ RankDies(r) \/ LeaseExpires(r)
        PROVE TypeOK'
    BY <1>1, <2>1 DEF TypeOK, ComesUp, Announces, RankDies, LeaseExpires, State
  <2>2. ASSUME NEW f \in Frontend, FrontendUp(f) \/ FrontendDies(f) \/ Learns(f) PROVE TypeOK'
    BY <1>1, <2>2 DEF TypeOK, FrontendUp, FrontendDies, Learns, State
  <2>. QED
    BY <1>3, <2>1, <2>2 DEF StackStep
<1>4. CASE WaitStep
  <2>1. polls' \in 0 .. MaxPolls
    BY <1>4, ServingAssumption DEF TypeOK, WaitStep, Aborts, TimesOut, PollAgain, AnswerReady,
                                   AnswerNotReady
  <2>. QED
    BY <1>1, <1>4, <2>1 DEF TypeOK, WaitStep, Aborts, TimesOut, PollAgain, AnswerReady,
                            AnswerNotReady, WaitsUnchanged
<1>5. CASE MonitorDetects
  BY <1>1, <1>5 DEF TypeOK, MonitorDetects
<1>6. CASE UNCHANGED vars
  BY <1>1, <1>6 DEF TypeOK, vars, svars
<1>. QED
  BY <1>2, <1>3, <1>4, <1>5, <1>6 DEF Above

LEMMA TypeStep == TypeOK /\ IInv /\ [Next]_vars => TypeOK' /\ IInv'
<1>. SUFFICES ASSUME TypeOK, IInv, [Next]_vars PROVE TypeOK' /\ IInv'
  OBVIOUS
<1>1. (InfraStep /\ UNCHANGED svars) \/ Above
  BY StepKinds DEF Above
<1>2. IInv' /\ ITypeOK'
  BY <1>1, IInvStep, ITypeStep DEF TypeOK
<1>3. CASE InfraStep /\ UNCHANGED svars
  BY <1>2, <1>3 DEF TypeOK, svars
<1>4. CASE Above
  BY <1>2, <1>4, TypeAbove
<1>. QED
  BY <1>1, <1>2, <1>3, <1>4

-----------------------------------------------------------------------------
(* What has been registered, and what frontends have seen of it.           *)

(* Of a worker that registers as one, its leader does, after all its ranks.*)
Known ==
    /\ \A r \in Rank : rank[r] = "up" => r \in everUp
    /\ registered \subseteq everRegistered
    /\ \A f \in Frontend : seen[f] \subseteq everRegistered
    /\ ~stack.dp => \A r \in everRegistered : r \in Leaders /\ WorkerOf(r) \subseteq everUp

ReadyIsKnown == wait = "ready" /\ ~stack.dp => Leaders \subseteq everRegistered

LEMMA KnownStep ==
    ASSUME TypeOK, Known, [Next]_vars PROVE Known' /\ stack' = stack /\ everRegistered \subseteq everRegistered'
<1>0. (InfraStep /\ UNCHANGED svars) \/ Above
  BY StepKinds DEF Above
<1>1. CASE UNCHANGED svars
  BY <1>1 DEF Known, svars, Leaders, WorkerOf
<1>2. CASE StartWorkers \/ StartFrontends \/ WaitStep \/ MonitorDetects
  BY <1>2 DEF Known, StartWorkers, StartFrontends, WaitStep, Aborts, TimesOut, PollAgain,
              AnswerReady, AnswerNotReady, WaitsUnchanged, MonitorDetects, Leaders, WorkerOf, TypeOK
<1>3. ASSUME NEW r \in Rank, ComesUp(r) \/ Announces(r) \/ RankDies(r) \/ LeaseExpires(r)
      PROVE Known' /\ stack' = stack /\ everRegistered \subseteq everRegistered'
  <2>1. CASE ComesUp(r) \/ RankDies(r) \/ LeaseExpires(r)
    BY <2>1 DEF Known, ComesUp, RankDies, LeaseExpires, Leaders, WorkerOf, TypeOK
  <2>2. CASE Announces(r)
    <3>0. stack \in Stack
      BY ServingAssumption DEF TypeOK
    <3>1. WorkerOf(r) \subseteq Rank
      BY <3>0 DEF WorkerOf, Stack
    <3>2. ~stack.dp => r \in Leaders /\ WorkerOf(r) \subseteq everUp
      BY <2>2, <3>1 DEF Announces, MayRegister, Known
    <3>. QED
      BY <2>2, <3>2 DEF Known, Announces, Leaders, WorkerOf, TypeOK
  <2>. QED
    BY <1>3, <2>1, <2>2
<1>4. ASSUME NEW f \in Frontend, FrontendUp(f) \/ FrontendDies(f) \/ Learns(f)
      PROVE Known' /\ stack' = stack /\ everRegistered \subseteq everRegistered'
  BY <1>4 DEF Known, FrontendUp, FrontendDies, Learns, Leaders, WorkerOf, TypeOK
<1>5. CASE UNCHANGED vars
  BY <1>1, <1>5 DEF vars
<1>. QED
  BY <1>0, <1>1, <1>2, <1>3, <1>4, <1>5 DEF Above, StackStep

-----------------------------------------------------------------------------
(* Counting.  The instances counted are those of leaders, each once: if    *)
(* there are as many of them as leaders, they are all of the leaders.      *)

LEMMA AllCounted ==
    ASSUME NEW S, IsFiniteSet(S), NEW T, T \subseteq S, Cardinality(T) >= Cardinality(S)
    PROVE  T = S
<1>1. /\ IsFiniteSet(T) /\ Cardinality(T) <= Cardinality(S)
      /\ Cardinality(S) = Cardinality(T) => S = T
  BY FS_Subset
<1>2. Cardinality(S) \in Nat /\ Cardinality(T) \in Nat
  BY <1>1, FS_CardinalityType
<1>. QED
  BY <1>1, <1>2

LEMMA OnceEach ==
    ASSUME NEW S, IsFiniteSet(S), NEW x PROVE Cardinality(S \X {x}) = Cardinality(S)
<1>1. IsFiniteSet({x}) /\ Cardinality({x}) = 1
  BY FS_Singleton
<1>2. Cardinality(S \X {x}) = Cardinality(S) * Cardinality({x})
  BY <1>1, FS_Product
<1>3. Cardinality(S) \in Nat
  BY FS_CardinalityType
<1>. QED
  BY <1>1, <1>2, <1>3

(* The instances that an answer counts, by the kind of their workers.      *)
LEMMA DynamoCountsLeaders ==
    ASSUME TypeOK, NEW f \in Frontend, seen[f] \subseteq stack.ranks
    PROVE  /\ DynamoCounts(f).prefill = Cardinality({r \in seen[f] : stack.mode[r] = "prefill"})
           /\ DynamoCounts(f).decode = Cardinality({r \in seen[f] : stack.mode[r] # "prefill"})
<1>. DEFINE P == {r \in seen[f] : stack.mode[r] = "prefill"}
            D == {r \in seen[f] : stack.mode[r] # "prefill"}
            IP == {i \in Instances(f) : i[2] = "generate" /\ stack.component[i[1]] \in {"prefill"}}
            ID == {i \in Instances(f) : i[2] = "generate" /\
                                        stack.component[i[1]] \in {"decode", "tensorrt_llm", "backend"}}
<1>1. \A r \in seen[f] : /\ stack.mode[r] = "prefill" <=> stack.component[r] = "prefill"
                         /\ stack.component[r] \in Component
  <2>1. stack \in Stacks /\ stack \in Stack
    BY ServingAssumption DEF TypeOK
  <2>. QED
    BY <2>1, ServingAssumption DEF Stack
<1>2. IP = P \X {"generate"}
  BY <1>1 DEF Instances
<1>3. ID = D \X {"generate"}
  BY <1>1 DEF Instances, Component
<1>4. IsFiniteSet(P) /\ IsFiniteSet(D)
  <2>1. P \subseteq Rank /\ D \subseteq Rank
    BY DEF TypeOK
  <2>. QED
    BY <2>1, ServingAssumption, FS_Subset
<1>5. DynamoCounts(f).prefill = Cardinality(IP) /\ DynamoCounts(f).decode = Cardinality(ID)
  BY Zenon DEF DynamoCounts, Enough
<1>6. Cardinality(IP) = Cardinality(P) /\ Cardinality(ID) = Cardinality(D)
  <2>. HIDE DEF P, D, IP, ID
  <2>1. Cardinality(P \X {"generate"}) = Cardinality(P)
    BY <1>4, OnceEach
  <2>2. Cardinality(D \X {"generate"}) = Cardinality(D)
    BY <1>4, OnceEach
  <2>. QED
    BY <1>2, <1>3, <2>1, <2>2
<1>. QED
  BY <1>5, <1>6, Zenon

(* Decode workers are counted with the aggregated ones, but a stack has no *)
(* mixture of them.                                                        *)
LEMMA RouterCountsLeaders ==
    ASSUME TypeOK, NEW f \in Frontend, seen[f] \subseteq stack.ranks
    PROVE  /\ RouterCounts(f).prefill = Cardinality({r \in seen[f] : stack.mode[r] = "prefill"})
           /\ RouterCounts(f).decode = Cardinality({r \in seen[f] : stack.mode[r] # "prefill"})
<1>. DEFINE P == {r \in seen[f] : stack.mode[r] \in {"prefill"}}
            D == {r \in seen[f] : stack.mode[r] \in {"decode"}}
            A == {r \in seen[f] : stack.mode[r] \in {"agg"}}
            O == {r \in seen[f] : stack.mode[r] # "prefill"}
<1>1. stack \in Stacks /\ stack \in Stack
  BY ServingAssumption DEF TypeOK
<1>2. \A r \in seen[f] : stack.mode[r] \in Mode
  BY <1>1 DEF Stack
<1>3. (D = O /\ A = {}) \/ (A = O /\ D = {})
  BY <1>1, <1>2, ServingAssumption DEF Mode
<1>4. IsFiniteSet(D) /\ IsFiniteSet(A)
  <2>1. D \subseteq Rank /\ A \subseteq Rank
    BY DEF TypeOK
  <2>. QED
    BY <2>1, ServingAssumption, FS_Subset
<1>5. Cardinality(D) + Cardinality(A) = Cardinality(O)
  <2>1. Cardinality(D) \in Nat /\ Cardinality(A) \in Nat
    BY <1>4, FS_CardinalityType
  <2>2. Cardinality({}) = 0
    BY FS_EmptySet
  <2>3. \/ Cardinality(D) = Cardinality(O) /\ Cardinality(A) = 0
        \/ Cardinality(A) = Cardinality(O) /\ Cardinality(D) = 0
    BY <1>3, <2>2, Zenon
  <2>. HIDE DEF D, A, O
  <2>. QED
    BY <2>1, <2>3
<1>6. P = {r \in seen[f] : stack.mode[r] = "prefill"}
  OBVIOUS
<1>7. RouterCounts(f).prefill = Cardinality(P)
  BY Zenon DEF RouterCounts, Enough
<1>8. RouterCounts(f).decode = Cardinality(D) + Cardinality(A)
  BY Zenon DEF RouterCounts, Enough
<1>. QED
  BY <1>5, <1>6, <1>7, <1>8, Zenon

LEMMA ExpectedLeaders ==
    ASSUME TypeOK
    PROVE  /\ Expected.prefill = Cardinality({r \in Leaders : stack.mode[r] = "prefill"})
           /\ Expected.decode = Cardinality({r \in Leaders : stack.mode[r] # "prefill"})
<1>. DEFINE P == {r \in Leaders : stack.mode[r] = "prefill"}
            O == {r \in Leaders : stack.mode[r] # "prefill"}
<1>1. stack \in Stacks /\ stack \in Stack
  BY ServingAssumption DEF TypeOK
<1>2. \A r \in Leaders : r \in stack.ranks /\ stack.mode[r] \in Mode
  BY <1>1 DEF Stack, Leaders
<1>3. LeadersOf({"prefill"}) = P
  BY DEF LeadersOf
<1>4. CASE LeadersOf({"agg"}) # {}
  <2>1. P = {} /\ LeadersOf({"agg"}) = O
    BY <1>1, <1>2, <1>4, ServingAssumption DEF LeadersOf, Mode
  <2>2. Expected = Enough(0, Cardinality(O))
    BY <1>4, <2>1 DEF Expected
  <2>3. Cardinality(P) = 0
    BY <2>1, FS_EmptySet
  <2>. QED
    BY <2>2, <2>3, Zenon DEF Enough
<1>5. CASE LeadersOf({"agg"}) = {}
  <2>1. LeadersOf({"decode"}) = O
    BY <1>2, <1>5 DEF LeadersOf, Mode
  <2>2. Expected = Enough(Cardinality(P), Cardinality(O))
    BY <1>3, <1>5, <2>1 DEF Expected
  <2>. QED
    BY <2>2, Zenon DEF Enough
<1>. QED
  BY <1>4, <1>5

(* A frontend with enough instances knows every leader.                    *)
LEMMA SatisfiedKnowsLeaders ==
    ASSUME TypeOK, NEW f \in Frontend, seen[f] \subseteq Leaders, Satisfied(f)
    PROVE  Leaders \subseteq seen[f]
<1>. DEFINE SP == {r \in seen[f] : stack.mode[r] = "prefill"}
            SO == {r \in seen[f] : stack.mode[r] # "prefill"}
            LP == {r \in Leaders : stack.mode[r] = "prefill"}
            LO == {r \in Leaders : stack.mode[r] # "prefill"}
<1>1. seen[f] \subseteq stack.ranks
  BY DEF Leaders
<1>2. Counts(f).prefill = Cardinality(SP) /\ Counts(f).decode = Cardinality(SO)
  BY <1>1, DynamoCountsLeaders, RouterCountsLeaders, Zenon DEF Counts
<1>3. Expected.prefill = Cardinality(LP) /\ Expected.decode = Cardinality(LO)
  BY ExpectedLeaders, Zenon
<1>4. Cardinality(SP) >= Cardinality(LP) /\ Cardinality(SO) >= Cardinality(LO)
  BY <1>2, <1>3, Zenon DEF Satisfied
<1>5. SP \subseteq LP /\ SO \subseteq LO
  OBVIOUS
<1>6. IsFiniteSet(LP) /\ IsFiniteSet(LO)
  <2>1. stack \in Stack
    BY ServingAssumption DEF TypeOK
  <2>2. LP \subseteq Rank /\ LO \subseteq Rank
    BY <2>1 DEF Stack, Leaders
  <2>. QED
    BY <2>2, ServingAssumption, FS_Subset
<1>7. SP = LP /\ SO = LO
  <2>. HIDE DEF SP, SO, LP, LO
  <2>. QED
    BY <1>4, <1>5, <1>6, AllCounted
<1>. QED
  BY <1>7

LEMMA ReadyStep ==
    ASSUME TypeOK, Known, ReadyIsKnown, [Next]_vars PROVE ReadyIsKnown'
<1>0. stack' = stack /\ everRegistered \subseteq everRegistered'
  BY KnownStep
<1>1. CASE wait' = wait
  BY <1>0, <1>1 DEF ReadyIsKnown, Leaders
<1>2. CASE wait' # wait
  <2>1. WaitStep
    BY <1>2, StepKinds DEF svars, vars, Above, StartWorkers, StartFrontends, MonitorDetects,
       StackStep, ComesUp, Announces, RankDies, LeaseExpires, FrontendUp, FrontendDies, Learns
  <2>2. CASE AnswerReady
    <3>1. PICK f \in Frontend : Satisfied(f)
      BY <2>2 DEF AnswerReady
    <3>2. ~stack.dp => Leaders \subseteq seen[f]
      BY <3>1, SatisfiedKnowsLeaders DEF Known
    <3>. QED
      BY <1>0, <3>1, <3>2 DEF ReadyIsKnown, Known, Leaders
  <2>3. CASE Aborts \/ TimesOut \/ PollAgain \/ AnswerNotReady
    BY <2>3 DEF ReadyIsKnown, Aborts, TimesOut, PollAgain, AnswerNotReady
  <2>. QED
    BY <2>1, <2>2, <2>3 DEF WaitStep
<1>. QED
  BY <1>1, <1>2

-----------------------------------------------------------------------------
(* The theorems.                                                           *)

(* Each of the waits means what it says in every reachable state, for any  *)
(* stack that the assumption admits.                                       *)
THEOREM ServingInvariant == Spec => [](TypeOK /\ IInv /\ Known /\ ReadyIsKnown)
<1>1. Init => TypeOK /\ IInv /\ Known /\ ReadyIsKnown
  <2>1. Init => Known /\ ReadyIsKnown
    BY DEF Init, Known, ReadyIsKnown, State
  <2>. QED
    BY <2>1, InitTypes
<1>2. (TypeOK /\ IInv /\ Known /\ ReadyIsKnown) /\ [Next]_vars
      => (TypeOK /\ IInv /\ Known /\ ReadyIsKnown)'
  BY TypeStep, KnownStep, ReadyStep
<1>. QED
  BY <1>1, <1>2, PTL DEF Spec

(* Every variable keeps its type, for any ranks, frontends and stacks.     *)
THEOREM ServingTypeOK == Spec => []TypeOK
BY ServingInvariant, PTL

(* When wait_for_model() calls the stack ready every worker has announced  *)
(* itself, and every rank has been up, also those that announce nothing.   *)
THEOREM ServingReadyMeansEveryWorker == Spec => []ReadyMeansEveryWorker
<1>1. TypeOK /\ Known /\ ReadyIsKnown => ReadyMeansEveryWorker
  <2>. SUFFICES ASSUME TypeOK, Known, ReadyIsKnown, wait = "ready", ~stack.dp,
                       NEW q \in stack.ranks
                PROVE  q \in everUp
    BY DEF ReadyIsKnown, ReadyMeansEveryWorker
  <2>1. stack.leader[q] \in Leaders /\ q \in WorkerOf(stack.leader[q])
    BY ServingAssumption DEF TypeOK, Leaders, WorkerOf
  <2>. QED
    BY <2>1 DEF Known, ReadyIsKnown
<1>. QED
  BY <1>1, ServingInvariant, PTL

(* Workers are started only when both servers listen.                      *)
THEOREM ServingWorkersHaveInfra == Spec => []WorkersHaveInfra
<1>1. IInv => WorkersHaveInfra
  BY DEF IInv, Awaited, WorkersHaveInfra, Service
<1>. QED
  BY <1>1, ServingInvariant, PTL

(* setup_head.py asks every server to stop that it has the handle of,      *)
(* unless NATS or a SIGINT takes it out of its finally block.              *)
THEOREM ServingServersAskedToStop == Spec => ServersAskedToStop
<1>1. (TypeOK /\ IInv) /\ [Next]_vars =>
        [setup # "exited" /\ setup' = "exited" /\ ~terminated' =>
            \A s \in Service : server'[s] \in Undisturbed => ForgottenFor(s)]_vars
  <2>. SUFFICES ASSUME TypeOK, IInv, Next, setup # "exited", setup' = "exited", ~terminated',
                       NEW s \in Service, server'[s] \in Undisturbed
                PROVE  ForgottenFor(s)
    OBVIOUS
  <2>1. InfraStep \/ Above
    BY StepKinds
  <2>2. terminated' = FALSE
    BY <2>1, ITypeStep DEF TypeOK, ITypeOK
  <2>. QED
    BY <2>1, <2>2, ExitStep DEF TypeOK
<1>. QED
  BY <1>1, ServingInvariant, PTL DEF Spec, ServersAskedToStop, ForgottenFor

(* The address that etcd is told to advertise is of use to other nodes     *)
(* unless nothing that setup_head.py asks knows one that is.               *)
THEOREM ServingEtcdAdvertisesReachable == Spec => []EtcdAdvertisesReachable
<1>1. ASSUME NEW a \in Answers
      PROVE  /\ LocalIp(a) \notin Useful => (a.hostname \cup {a.route, a.name}) \cap Useful = {}
             /\ "private" \in a.hostname => LocalIp(a) = "private"
  <2>1. a.hostname \subseteq {"private", "public", "useless"}
    BY DEF Answers, Address
  <2>2. CASE "private" \in a.hostname
    BY <2>2 DEF LocalIp, Useful
  <2>3. CASE "private" \notin a.hostname /\ "public" \in a.hostname
    <3>1. a.hostname \cap Useful = {"public"}
      BY <2>1, <2>3 DEF Useful
    <3>. QED
      BY <2>3, <3>1 DEF LocalIp, Useful
  <2>4. CASE a.hostname \cap Useful = {}
    BY <2>4 DEF LocalIp, Useful
  <2>. QED
    BY <2>2, <2>3, <2>4 DEF Useful
<1>2. EtcdAdvertisesReachable
  BY <1>1 DEF EtcdAdvertisesReachable
<1>. QED
  BY <1>2, PTL

==============================================================================

------------------------------- MODULE Serving -------------------------------
(***************************************************************************)
(* The serving stack of a run while the orchestrator waits for it: the     *)
(* ranks of the workers come up, register and die, frontends learn of them *)
(* with a delay, and wait_for_model() polls the public port and counts     *)
(* (core/health.py, run_benchmark).  The registry's monitor sees the death *)
(* of any of the processes and sets stop_event.                            *)
(*                                                                         *)
(* Dynamo, the SGLang router and nginx are not in the repository.  Ranks   *)
(* and frontends stand for what the run takes them to do.                  *)
(***************************************************************************)
EXTENDS Infrastructure

CONSTANTS
    Rank, Frontend,
    Stacks,     \* the stacks that may be served
    MaxPolls    \* health_check.max_attempts

(* A stack says which worker a rank belongs to, the mode of a worker, its  *)
(* leader, and the Dynamo component under which a leader registers.        *)
Mode == {"prefill", "decode", "agg"}
Component == {"prefill", "decode", "backend", "tensorrt_llm"}

Stack ==
    [router : BOOLEAN,          \* frontend.type is sglang
     dp : BOOLEAN,              \* every rank registers for itself
     ranks : SUBSET Rank, frontends : SUBSET Frontend,
     leader : [Rank -> Rank],   \* of the worker of a rank
     mode : [Rank -> Mode],
     component : [Rank -> Component]]

ASSUME ServingAssumption ==
    /\ Stacks \subseteq Stack
    /\ IsFiniteSet(Rank)
    /\ MaxPolls \in Nat \ {0}
    /\ \A k \in Stacks :
        /\ \A r \in k.ranks : k.leader[r] \in k.ranks /\ k.leader[k.leader[r]] = k.leader[r]
        /\ \A r \in k.ranks : k.mode[r] = "prefill" <=> k.component[r] = "prefill"
        \* validate_topology() refuses a mixture.
        /\ \A r, q \in k.ranks : k.mode[r] = "agg" => k.mode[q] = "agg"

VARIABLES
    stack,
    rank,           \* the state of every rank
    registered,     \* the ranks registered with etcd, or known to answer the router
    frontend,       \* the state of every frontend
    seen,           \* the ranks a frontend knows of
    wait, polls,    \* where wait_for_model() is, and the polls it has made
    stop,           \* stop_event
    everUp,         \* history: the ranks that have been up
    everRegistered  \* history: the ranks that have been registered

svars == <<stack, rank, registered, frontend, seen, wait, polls, stop, everUp, everRegistered>>
vars == <<ivars, svars>>

State == {"none", "starting", "up", "dead"}

TypeOK ==
    /\ ITypeOK
    /\ stack \in Stacks
    /\ rank \in [Rank -> State] /\ frontend \in [Frontend -> State]
    /\ registered \subseteq Rank /\ seen \in [Frontend -> SUBSET Rank]
    /\ wait \in {"check", "fetch", "ready", "failed"}
    /\ polls \in 0 .. MaxPolls
    /\ stop \in BOOLEAN
    /\ everUp \subseteq Rank /\ everRegistered \subseteq Rank

Init ==
    /\ IInit
    /\ stack \in Stacks
    /\ rank = [r \in Rank |-> "none"] /\ frontend = [f \in Frontend |-> "none"]
    /\ registered = {} /\ seen = [f \in Frontend |-> {}]
    /\ wait = "check" /\ polls = 0 /\ stop = FALSE
    /\ everUp = {} /\ everRegistered = {}

Leaders == {r \in stack.ranks : stack.leader[r] = r}
LeadersOf(modes) == {r \in Leaders : stack.mode[r] \in modes}
WorkerOf(r) == {q \in stack.ranks : stack.leader[q] = stack.leader[r]}

-----------------------------------------------------------------------------
(* The stages before the health check.                                     *)

StartWorkers ==
    /\ run = "workers" /\ run' = "frontends"
    /\ rank' = [r \in Rank |-> IF r \in stack.ranks THEN "starting" ELSE "none"]
    /\ UNCHANGED <<setup, held, code, server, foreign, faults, interrupted, terminated>>
    /\ UNCHANGED <<stack, registered, frontend, seen, wait, polls, stop, everUp, everRegistered>>

StartFrontends ==
    /\ run = "frontends" /\ run' = "health"
    /\ frontend' = [f \in Frontend |-> IF f \in stack.frontends THEN "starting" ELSE "none"]
    /\ UNCHANGED <<setup, held, code, server, foreign, faults, interrupted, terminated>>
    /\ UNCHANGED <<stack, rank, registered, seen, wait, polls, stop, everUp, everRegistered>>

-----------------------------------------------------------------------------
(* Ranks and frontends.                                                    *)

ComesUp(r) ==
    /\ rank[r] = "starting"
    /\ rank' = [rank EXCEPT ![r] = "up"]
    /\ everUp' = everUp \cup {r}
    /\ UNCHANGED <<ivars, stack, registered, frontend, seen, wait, polls, stop, everRegistered>>

(* A leader has a server to announce once its ranks have met, or a rank by *)
(* itself in data-parallel mode.  Dynamo needs etcd for it.                *)
MayRegister(r) ==
    /\ rank[r] = "up" /\ r \notin registered
    /\ stack.dp \/ (r \in Leaders /\ \A q \in WorkerOf(r) : rank[q] = "up")
    /\ stack.router \/ Open("etcd")

Announces(r) ==
    /\ MayRegister(r)
    /\ registered' = registered \cup {r}
    /\ everRegistered' = everRegistered \cup {r}
    /\ UNCHANGED <<ivars, stack, rank, frontend, seen, wait, polls, stop, everUp>>

RankDies(r) ==
    /\ rank[r] \in {"starting", "up"} /\ faults < MaxFaults
    /\ faults' = faults + 1
    /\ rank' = [rank EXCEPT ![r] = "dead"]
    /\ UNCHANGED <<setup, held, code, server, foreign, run, interrupted, terminated>>
    /\ UNCHANGED <<stack, registered, frontend, seen, wait, polls, stop, everUp, everRegistered>>

(* The lease of a dead rank runs out, or the last one of everyone when     *)
(* etcd has died.  The SGLang router goes on counting a server that no     *)
(* longer answers.                                                         *)
LeaseExpires(r) ==
    /\ r \in registered /\ ~stack.router
    /\ rank[r] = "dead" \/ ~Open("etcd")
    /\ registered' = registered \ {r}
    /\ UNCHANGED <<ivars, stack, rank, frontend, seen, wait, polls, stop, everUp, everRegistered>>

FrontendUp(f) ==
    /\ frontend[f] = "starting"
    /\ frontend' = [frontend EXCEPT ![f] = "up"]
    /\ UNCHANGED <<ivars, stack, rank, registered, seen, wait, polls, stop, everUp, everRegistered>>

FrontendDies(f) ==
    /\ frontend[f] \in {"starting", "up"} /\ faults < MaxFaults
    /\ faults' = faults + 1
    /\ frontend' = [frontend EXCEPT ![f] = "dead"]
    /\ UNCHANGED <<setup, held, code, server, foreign, run, interrupted, terminated>>
    /\ UNCHANGED <<stack, rank, registered, seen, wait, polls, stop, everUp, everRegistered>>

Learns(f) ==
    /\ frontend[f] = "up" /\ seen[f] # registered
    /\ seen' = [seen EXCEPT ![f] = registered]
    /\ UNCHANGED <<ivars, stack, rank, registered, frontend, wait, polls, stop, everUp, everRegistered>>

(* The stack is followed until the health wait is over.                    *)
StackStep ==
    /\ run # "failed" /\ wait \in {"check", "fetch"}
    /\ \/ \E r \in Rank : ComesUp(r) \/ Announces(r) \/ RankDies(r) \/ LeaseExpires(r)
       \/ \E f \in Frontend : FrontendUp(f) \/ FrontendDies(f) \/ Learns(f)

-----------------------------------------------------------------------------
(* What a poll makes of the answer.                                        *)

Enough(prefills, decodes) == [prefill |-> prefills, decode |-> decodes]

(* run_benchmark(): the counts to wait for.                                *)
Expected ==
    IF LeadersOf({"agg"}) # {}
    THEN Enough(0, Cardinality(LeadersOf({"agg"})))
    ELSE Enough(Cardinality(LeadersOf({"prefill"})), Cardinality(LeadersOf({"decode"})))

(* The instances in Dynamo's answer: every registered rank has several     *)
(* endpoints, of which "generate" is one.                                  *)
Instances(f) == seen[f] \X {"generate", "clear_kv_blocks"}

(* Mutant of DynamoCounts: whatever the endpoint is called.                *)
DynamoCountsAll(f) ==
    LET Of(cs) == {i \in Instances(f) : stack.component[i[1]] \in cs}
    IN  Enough(Cardinality(Of({"prefill"})),
               Cardinality(Of({"decode", "tensorrt_llm", "backend"})))

DynamoCounts(f) ==
    LET Of(cs) == {i \in Instances(f) : i[2] = "generate" /\ stack.component[i[1]] \in cs}
    IN  Enough(Cardinality(Of({"prefill"})),
               Cardinality(Of({"decode", "tensorrt_llm", "backend"})))

RouterCounts(f) ==
    LET Of(modes) == {r \in seen[f] : stack.mode[r] \in modes}
    IN  Enough(Cardinality(Of({"prefill"})),
               Cardinality(Of({"decode"})) + Cardinality(Of({"agg"})))

Counts(f) == IF stack.router THEN RouterCounts(f) ELSE DynamoCounts(f)

Satisfied(f) ==
    /\ Counts(f).prefill >= Expected.prefill
    /\ Counts(f).decode >= Expected.decode

-----------------------------------------------------------------------------
(* wait_for_model().                                                       *)

WaitsUnchanged == UNCHANGED <<ivars, stack, rank, registered, frontend, seen, stop, everUp, everRegistered>>

Aborts ==
    /\ run = "health" /\ wait = "check" /\ stop
    /\ wait' = "failed" /\ UNCHANGED polls /\ WaitsUnchanged

(* A poll takes at least its interval, and up to the five seconds of the   *)
(* request more.                                                           *)
TimesOut ==
    /\ run = "health" /\ wait = "check" /\ ~stop /\ polls > 0
    /\ wait' = "failed" /\ UNCHANGED polls /\ WaitsUnchanged

PollAgain ==
    /\ run = "health" /\ wait = "check" /\ ~stop /\ polls < MaxPolls
    /\ wait' = "fetch" /\ polls' = polls + 1 /\ WaitsUnchanged

(* The answer of one frontend, the only one or one that nginx has picked.  *)
AnswerReady ==
    /\ wait = "fetch" /\ \E f \in Frontend : frontend[f] = "up" /\ Satisfied(f)
    /\ wait' = "ready" /\ UNCHANGED polls /\ WaitsUnchanged

(* Too few, or the request fails, which it may do whoever is up.           *)
AnswerNotReady ==
    /\ wait = "fetch"
    /\ wait' = "check" /\ UNCHANGED polls /\ WaitsUnchanged

WaitStep == Aborts \/ TimesOut \/ PollAgain \/ AnswerReady \/ AnswerNotReady

-----------------------------------------------------------------------------
(* The registry: the infrastructure step, the workers and the frontends    *)
(* are in it, the first from the moment its ports have opened.             *)

Failed ==
    \/ run \notin {"infra", "await_nats", "await_etcd", "failed"} /\ setup = "exited" /\ code # 0
    \/ \E r \in Rank : rank[r] = "dead"
    \/ \E f \in Frontend : frontend[f] = "dead"

MonitorDetects ==
    /\ ~stop /\ Failed
    /\ stop' = TRUE
    /\ UNCHANGED <<ivars, stack, rank, registered, frontend, seen, wait, polls, everUp, everRegistered>>

(* cleanup(), after the monitor's find or the health check's end.          *)
CleansUp ==
    /\ run \in {"workers", "frontends", "health"}
    /\ stop \/ wait = "failed"
    /\ TerminateStep
    /\ UNCHANGED svars

Ended == (run = "failed" \/ wait \in {"ready", "failed"}) /\ UNCHANGED vars

Next ==
    \/ (SetupStep \/ Interrupt \/ ServerStep \/ StartInfra \/ PortOpens \/ PortTimesOut)
       /\ UNCHANGED svars
    \/ StartWorkers \/ StartFrontends
    \/ StackStep
    \/ WaitStep
    \/ MonitorDetects \/ CleansUp
    \/ Ended

Spec == Init /\ [][Next]_vars

(* The loops of setup_head.py, of the orchestrator and of its monitor go   *)
(* on.  Nothing makes a server, a rank or a frontend come up.              *)
Fairness ==
    /\ WF_vars(SetupStep /\ UNCHANGED svars)
    /\ WF_vars((StartInfra \/ PortOpens \/ PortTimesOut) /\ UNCHANGED svars)
    /\ WF_vars(StartWorkers) /\ WF_vars(StartFrontends)
    /\ WF_vars(WaitStep)
    /\ WF_vars(MonitorDetects)

FairSpec == Spec /\ Fairness

-----------------------------------------------------------------------------
(* Properties.                                                             *)

(* The benchmark starts only when every worker has registered: the counts  *)
(* are taken from one answer of one frontend, may be old, and are compared *)
(* by kind only.  Then each rank has got past the preamble that writes its *)
(* fingerprint, also those that register nothing, and the fingerprints are *)
(* collected (benchmark_stage.py:99).  With a rank per instance the counts *)
(* may be reached by ranks of one worker.                                  *)
ReadyMeansEveryWorker ==
    wait = "ready" /\ ~stack.dp => Leaders \subseteq everRegistered /\ stack.ranks \subseteq everUp

(* A server that setup_head.py leaves undisturbed when it exits by itself  *)
(* is one whose handle a SIGINT has lost on its way from Popen, or etcd    *)
(* behind a NATS that took more than five seconds to stop; or a SIGINT has *)
(* ended the finally block before it got there.                            *)
ServersAskedToStop ==
    [][setup # "exited" /\ setup' = "exited" /\ ~terminated' =>
        \A s \in Service : server'[s] \in Undisturbed =>
            \/ s \notin held /\ interrupted
            \/ s = "etcd" /\ server'["nats"] = "stopping"
            \/ faults' # faults /\ (s = "nats" => setup = "stop_nats")]_vars

(* Workers are started only with both servers listening, which stay so as  *)
(* long as nothing fails and nothing else has had their ports: neither     *)
(* wait mistakes one server for the other or goes on without one.          *)
WorkersHaveInfra ==
    run \in {"workers", "frontends", "health"} /\ setup \in InTry /\ faults = 0 /\ foreign = {} =>
        \A s \in Service : server[s] = "listening"

(* etcd advertises an address of no use only on a node that has no other,  *)
(* and its private one if hostname knows it (setup_head.py:203: "Must be   *)
(* reachable IP").                                                         *)
EtcdAdvertisesReachable ==
    setup = "start_etcd" => \A a \in Answers :
        /\ LocalIp(a) \notin Useful => (a.hostname \cup {a.route, a.name}) \cap Useful = {}
        /\ "private" \in a.hostname => LocalIp(a) = "private"

(* The death of a server the workers rely on reaches the orchestrator:     *)
(* setup_head.py notices at whatever point it is, exits with an error even *)
(* when stopping the other server fails, and the monitor sees the step     *)
(* end.  A SIGINT makes the same end look like a success.                  *)
InfraDeathStopsRun ==
    (run = "health" /\ \E s \in Service : server[s] = "dead")
        ~> (stop \/ terminated \/ interrupted)
=============================================================================

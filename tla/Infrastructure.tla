--------------------------- MODULE Infrastructure ---------------------------
(***************************************************************************)
(* NATS and etcd on the infrastructure node.  setup_head.py, one srun      *)
(* step, starts the two servers, waits until they listen, watches them and *)
(* stops them; the orchestrator waits for the same ports from outside and  *)
(* goes on to the workers (start_head_infrastructure).                     *)
(*                                                                         *)
(* Only a server itself knows that the port it wants is taken: both waits  *)
(* are content with anything that listens there.                           *)
(***************************************************************************)
EXTENDS Naturals, FiniteSets

CONSTANTS
    Occupied,       \* the sets of ports that something else may have
    MaxFaults       \* bound: failures of processes, and SIGINTs to setup_head.py

Service == {"nats", "etcd"}

ASSUME InfrastructureAssumption ==
    /\ Occupied \subseteq SUBSET Service
    /\ MaxFaults \in Nat

VARIABLES
    setup,      \* where main() of setup_head.py is
    held,       \* the servers it has the handles of, in nats_proc and etcd_proc
    code,       \* and its exit code
    server,     \* the two servers it starts
    foreign,    \* the ports that something else listens on
    run,        \* where the orchestrator is
    faults, interrupted,
    terminated  \* the orchestrator has sent SIGTERM to the step

ivars == <<setup, held, code, server, foreign, run, faults, interrupted, terminated>>

InTry == {"start_nats", "nats_launched", "start_etcd", "etcd_launched", "wait_nats", "wait_etcd", "watch"}
InFinally == {"stop_nats", "stopping_nats", "stop_etcd", "stopping_etcd"}
Alive == {"starting", "listening", "stopping"}
Undisturbed == {"starting", "listening"}

ITypeOK ==
    /\ setup \in {"none"} \cup InTry \cup InFinally \cup {"exited"}
    /\ held \subseteq Service
    /\ code \in {0, 1}
    /\ server \in [Service -> Alive \cup {"none", "dead"}]
    /\ foreign \subseteq Service
    /\ run \in {"infra", "await_nats", "await_etcd", "workers", "frontends", "health", "failed"}
    /\ faults \in 0 .. MaxFaults
    /\ interrupted \in BOOLEAN
    /\ terminated \in BOOLEAN

IInit ==
    /\ setup = "none" /\ held = {} /\ code = 0
    /\ server = [s \in Service |-> "none"]
    /\ foreign \in Occupied
    /\ run = "infra"
    /\ faults = 0 /\ interrupted = FALSE
    /\ terminated = FALSE

(* get_local_ip(): the address etcd advertises is the best one of those    *)
(* hostname gives, else that of the default route, else that of the host's *)
(* name.  An address is private, public or of no use to another node.      *)
Address == {"private", "public", "useless"}
Answers == [hostname : SUBSET Address, route : Address \cup {"none"}, name : Address \cup {"none"}]

Useful == {"private", "public"}

(* Mutant of LocalIp: the source of the default route is not looked at.    *)
LocalIpUnchecked(a) ==
    CASE "private" \in a.hostname -> "private"
      [] a.hostname \cap Useful = {"public"} -> "public"
      [] a.hostname \cap Useful = {} /\ a.route # "none" -> a.route
      [] OTHER -> IF a.name \in Useful THEN a.name ELSE "useless"

LocalIp(a) ==
    CASE "private" \in a.hostname -> "private"
      [] a.hostname \cap Useful = {"public"} -> "public"
      [] a.hostname \cap Useful = {} /\ a.route \in Useful -> a.route
      [] OTHER -> IF a.name \in Useful THEN a.name ELSE "useless"

Open(s) == server[s] = "listening" \/ s \in foreign

-----------------------------------------------------------------------------
(* setup_head.py.                                                          *)

SetupAt(here, there) == setup = here /\ setup' = there

(* Popen returns, and then its result gets to nats_proc or etcd_proc.      *)
Launches(s, here, next) ==
    /\ SetupAt(here, next)
    /\ server' = [server EXCEPT ![s] = "starting"]
    /\ UNCHANGED <<held, code, foreign, run, faults, interrupted, terminated>>

StartNats == Launches("nats", "start_nats", "nats_launched")
StartEtcd == Launches("etcd", "start_etcd", "etcd_launched")

Assigned ==
    /\ \/ SetupAt("nats_launched", "start_etcd") /\ held' = held \cup {"nats"}
       \/ SetupAt("etcd_launched", "wait_nats") /\ held' = held \cup {"etcd"}
    /\ UNCHANGED <<code, server, foreign, run, faults, interrupted, terminated>>

Leaves(with) == setup' = "stop_nats" /\ code' = with

(* The binary is missing, or the data directory of an earlier run cannot   *)
(* be replaced.                                                            *)
StartRaises ==
    /\ setup \in {"start_nats", "start_etcd"}
    /\ Leaves(1)
    /\ UNCHANGED <<held, server, foreign, run, faults, interrupted, terminated>>

(* wait_for_service().                                                     *)
Served ==
    /\ \/ Open("nats") /\ SetupAt("wait_nats", "wait_etcd")
       \/ Open("etcd") /\ SetupAt("wait_etcd", "watch")
    /\ UNCHANGED <<held, code, server, foreign, run, faults, interrupted, terminated>>

WaitTimesOut ==
    /\ \/ setup = "wait_nats" /\ ~Open("nats")
       \/ setup = "wait_etcd" /\ ~Open("etcd")
    /\ Leaves(1)
    /\ UNCHANGED <<held, server, foreign, run, faults, interrupted, terminated>>

(* Mutant of Supervise: only etcd is watched.                              *)
SuperviseEtcd ==
    /\ setup = "watch" /\ server["etcd"] = "dead"
    /\ Leaves(1)
    /\ UNCHANGED <<held, server, foreign, run, faults, interrupted, terminated>>

Supervise ==
    /\ setup = "watch" /\ \E s \in Service : server[s] = "dead"
    /\ Leaves(1)
    /\ UNCHANGED <<held, server, foreign, run, faults, interrupted, terminated>>

(* SIGINT.  The try block catches KeyboardInterrupt, an ending like any    *)
(* other, with exit code 0; from before it and from the finally block it   *)
(* leaves main() at once, from an except clause by way of the finally.     *)
Interrupt ==
    /\ faults < MaxFaults
    /\ faults' = faults + 1 /\ interrupted' = TRUE
    /\ \/ setup \in InTry /\ Leaves(0)
       \/ setup \in {"start_nats"} \cup InFinally /\ setup' = "exited" /\ code' = 1
       \/ SetupAt("stop_nats", "stop_nats") /\ code' = 1
    /\ UNCHANGED <<held, server, foreign, run, terminated>>

(* The finally block.                                                      *)
(* Mutant of Asks: a server that is still starting is not stopped.         *)
AsksNothing(s, here, wait, next) ==
    /\ setup = here
    /\ IF s \in held /\ server[s] = "listening"
       THEN setup' = wait /\ server' = [server EXCEPT ![s] = "stopping"]
       ELSE setup' = next /\ UNCHANGED server
    /\ UNCHANGED <<held, code, foreign, run, faults, interrupted, terminated>>

Asks(s, here, wait, next) ==
    /\ setup = here
    /\ IF s \in held /\ server[s] \in Undisturbed
       THEN setup' = wait /\ server' = [server EXCEPT ![s] = "stopping"]
       ELSE setup' = next /\ UNCHANGED server
    /\ UNCHANGED <<held, code, foreign, run, faults, interrupted, terminated>>

StopNats == Asks("nats", "stop_nats", "stopping_nats", "stop_etcd")
StopEtcd == Asks("etcd", "stop_etcd", "stopping_etcd", "exited")

Stopped ==
    /\ \/ server["nats"] = "dead" /\ SetupAt("stopping_nats", "stop_etcd")
       \/ server["etcd"] = "dead" /\ SetupAt("stopping_etcd", "exited")
    /\ UNCHANGED <<held, code, server, foreign, run, faults, interrupted, terminated>>

(* wait(timeout=5) raises out of the finally block.                        *)
StopTimesOut ==
    /\ \/ setup = "stopping_nats" /\ server["nats"] # "dead"
       \/ setup = "stopping_etcd" /\ server["etcd"] # "dead"
    /\ setup' = "exited" /\ code' = 1
    /\ UNCHANGED <<held, server, foreign, run, faults, interrupted, terminated>>

SetupStep ==
    \/ StartNats \/ StartEtcd \/ Assigned \/ StartRaises \/ Served \/ WaitTimesOut \/ Supervise
    \/ StopNats \/ StopEtcd \/ Stopped \/ StopTimesOut

-----------------------------------------------------------------------------
(* The servers.                                                            *)

Becomes(s, state) ==
    /\ server' = [server EXCEPT ![s] = state]
    /\ UNCHANGED <<setup, held, code, foreign, run, interrupted, terminated>>

Listens(s) ==
    /\ server[s] = "starting" /\ s \notin foreign
    /\ Becomes(s, "listening") /\ UNCHANGED faults

AddressInUse(s) ==
    /\ server[s] = "starting" /\ s \in foreign
    /\ Becomes(s, "dead") /\ UNCHANGED faults

Dies(s) ==
    /\ server[s] \in Undisturbed /\ faults < MaxFaults
    /\ faults' = faults + 1
    /\ Becomes(s, "dead")

Stops(s) ==
    /\ server[s] = "stopping"
    /\ Becomes(s, "dead") /\ UNCHANGED faults

(* Slurm ends what is left of a step whose task has exited.                *)
StepEnds ==
    /\ setup = "exited" /\ \E s \in Service : server[s] \in Alive
    /\ server' = [s \in Service |-> IF server[s] \in Alive THEN "dead" ELSE server[s]]
    /\ UNCHANGED <<setup, held, code, foreign, run, faults, interrupted, terminated>>

ServerStep ==
    \/ \E s \in Service : Listens(s) \/ AddressInUse(s) \/ Dies(s) \/ Stops(s)
    \/ StepEnds

-----------------------------------------------------------------------------
(* The orchestrator's side of it.                                          *)

StartInfra ==
    /\ run = "infra" /\ run' = "await_nats"
    /\ SetupAt("none", "start_nats")
    /\ UNCHANGED <<held, code, server, foreign, faults, interrupted, terminated>>

(* Mutant of PortOpens: one open port is taken for both.                   *)
PortOpensOnce ==
    /\ \/ run = "await_nats" /\ Open("nats") /\ run' = "await_etcd"
       \/ run = "await_etcd" /\ Open("nats") /\ run' = "workers"
    /\ UNCHANGED <<setup, held, code, server, foreign, faults, interrupted, terminated>>

PortOpens ==
    /\ \/ run = "await_nats" /\ Open("nats") /\ run' = "await_etcd"
       \/ run = "await_etcd" /\ Open("etcd") /\ run' = "workers"
    /\ UNCHANGED <<setup, held, code, server, foreign, faults, interrupted, terminated>>

PortTimesOut ==
    /\ \/ run = "await_nats" /\ ~Open("nats")
       \/ run = "await_etcd" /\ ~Open("etcd")
    /\ run' = "failed"
    /\ UNCHANGED <<setup, held, code, server, foreign, faults, interrupted, terminated>>

(* cleanup() sends SIGTERM to the step, for which setup_head.py has no     *)
(* handler: it ends where it is, the servers with the step.                *)
TerminateStep ==
    /\ setup \notin {"none", "exited"}
    /\ setup' = "exited" /\ code' = 1 /\ terminated' = TRUE
    /\ UNCHANGED <<held, server, foreign, run, faults, interrupted>>
=============================================================================

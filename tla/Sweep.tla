-------------------------------- MODULE Sweep --------------------------------
(***************************************************************************)
(* SweepOrchestrator.run (cli/do_sweep.py): the main thread brings the     *)
(* serving stack up stage by stage, runs the benchmark and cleans up; the  *)
(* ProcessMonitor thread polls the registry; SIGTERM and SIGINT run a      *)
(* handler on top of whatever the main thread is doing.  They share the    *)
(* ProcessRegistry and `stop`, the threading.Event.                        *)
(***************************************************************************)
EXTENDS ProcessRegistry

CONSTANTS
    Infra, Workers, Frontends, Telemetry,   \* the handles each stage starts
    Bench, Download,    \* the handles of the benchmark and the pre-download
    Manual,             \* benchmark.type is "manual"
    PreDownload,        \* the model is a HuggingFace id
    Uploads,            \* S3 is configured
    MaxPolls,           \* health polls that fit in the timeout
    MaxSignals,         \* bound: signals delivered to the orchestrator
    LateSignals         \* whether they come at any time, or only outside
                        \* the registry lock and before the final cleanup

Managed == Infra \cup Workers \cup Frontends \cup Telemetry

ASSUME SweepAssumption ==
    /\ Thread = {"main", "monitor"}
    /\ Managed \cup {Bench, Download} \subseteq Proc
    /\ {Bench, Download} \cap Managed = {} /\ Bench # Download
    /\ Manual \in BOOLEAN /\ PreDownload \in BOOLEAN /\ Uploads \in BOOLEAN
    /\ MaxPolls \in Nat /\ MaxSignals \in Nat /\ LateSignals \in BOOLEAN

VARIABLES
    main,       \* where the main thread is in run()
    stage,      \* the stage it is bringing up
    batch,      \* handles started in this stage and not yet registered
    polls,      \* health polls made by wait_for_model
    exitCode,   \* exit_code
    mon,        \* where the monitor thread is in monitor_loop()
    stop,       \* stop_event
    handling,   \* the main thread is in signal_handler
    signals,    \* signals delivered so far
    status,     \* the last status the orchestrator has reported
    escaped     \* an exception has left run() from its finally block

svars == <<main, stage, batch, polls, exitCode, mon, stop, handling, signals, status, escaped>>
vars == <<rvars, svars>>

Stage == {"infra", "workers", "frontend", "telemetry"}
Launch(s) == {p \in Managed :
                \/ s = "infra" /\ p \in Infra
                \/ s = "workers" /\ p \in Workers
                \/ s = "frontend" /\ p \in Frontends
                \/ s = "telemetry" /\ p \in Telemetry}

(* The points of the try block of run(), and of its finally block.         *)
InTry == {"begin", "spawn", "ports", "register", "download", "fetching", "fetchkill",
          "health", "poll", "serve", "manual", "checked", "bench", "benchstop", "except"}
InFinally == {"finally", "cleaning", "details", "post", "report"}

NoBatch == [n \in Name |-> NoProc]

TypeOK ==
    /\ RTypeOK
    /\ main \in InTry \cup InFinally \cup {"done", "hung"}
    /\ stage \in Stage
    /\ batch \in [Name -> Managed \cup {NoProc}]
    /\ polls \in Nat
    /\ exitCode \in {0, 1}
    /\ mon \in {"loop", "check", "cleanup", "done"}
    /\ stop \in BOOLEAN /\ handling \in BOOLEAN
    /\ signals \in Nat
    /\ status \in {"starting", "workers", "frontend", "benchmark", "completed", "failed"}
    /\ escaped \in BOOLEAN

(* run() once report_started has been called, the signal handlers are      *)
(* installed and the monitor thread has started.                           *)
Init ==
    /\ RInit
    /\ main = "begin" /\ stage = "infra" /\ batch = NoBatch
    /\ polls = 0 /\ exitCode = 1
    /\ mon = "loop" /\ stop = FALSE
    /\ handling = FALSE /\ signals = 0
    /\ status = "starting" /\ escaped = FALSE

(* The main thread runs its own code at point l.                           *)
At(l) == main = l /\ ~InCall("main") /\ ~handling

-----------------------------------------------------------------------------
(* Bringing the stack up.                                                  *)

BeginStage ==
    /\ At("begin")
    /\ main' = "spawn"
    /\ status' = IF stage \in {"workers", "frontend"} THEN stage ELSE status
    /\ UNCHANGED <<rvars, stage, batch, polls, exitCode, mon, stop, handling, signals, escaped>>

Unstarted == {p \in Launch(stage) : proc[p] = "none"}

(* start_srun_process: a handle with the name of one started before takes  *)
(* its place in the dictionary of the stage.                               *)
StartProcess ==
    /\ At("spawn")
    /\ \E p \in Unstarted :
         /\ Spawn(p)
         /\ batch' = [batch EXCEPT ![NameOf[p]] = p]
    /\ UNCHANGED <<main, stage, polls, exitCode, mon, stop, handling, signals, status, escaped>>

(* Starting a process raises: what the stage has started is lost with it.  *)
StartRaises ==
    /\ At("spawn") /\ Unstarted # {}
    /\ main' = "except" /\ batch' = NoBatch
    /\ UNCHANGED <<rvars, stage, polls, exitCode, mon, stop, handling, signals, status, escaped>>

AllStarted ==
    /\ At("spawn") /\ Unstarted = {}
    /\ main' = IF stage = "infra" THEN "ports" ELSE "register"
    /\ UNCHANGED <<rvars, stage, batch, polls, exitCode, mon, stop, handling, signals, status, escaped>>

PortsOpen ==
    /\ At("ports")
    /\ main' = "register"
    /\ UNCHANGED <<rvars, stage, batch, polls, exitCode, mon, stop, handling, signals, status, escaped>>

PortsTimeout ==
    /\ At("ports")
    /\ main' = "except" /\ batch' = NoBatch
    /\ UNCHANGED <<rvars, stage, polls, exitCode, mon, stop, handling, signals, status, escaped>>

Register ==
    /\ At("register")
    /\ \E n \in Name :
         /\ batch[n] # NoProc
         /\ CallAdd("main", batch[n])
         /\ batch' = [batch EXCEPT ![n] = NoProc]
    /\ UNCHANGED <<main, stage, polls, exitCode, mon, stop, handling, signals, status, escaped>>

(* Mutant of StageUp: the next stage begins whatever is registered.        *)
StageUpAnyway ==
    /\ At("register")
    /\ \/ stage = "infra" /\ stage' = "workers"
          /\ main' = IF PreDownload THEN "download" ELSE "begin"
       \/ stage = "workers" /\ stage' = "frontend" /\ main' = "begin"
       \/ stage = "frontend" /\ stage' = "telemetry" /\ main' = "begin"
       \/ stage = "telemetry" /\ stage' = stage /\ main' = "health"
    /\ UNCHANGED <<rvars, batch, polls, exitCode, mon, stop, handling, signals, status, escaped>>

StageUp ==
    /\ At("register") /\ batch = NoBatch
    /\ \/ stage = "infra" /\ stage' = "workers"
          /\ main' = IF PreDownload THEN "download" ELSE "begin"
       \/ stage = "workers" /\ stage' = "frontend" /\ main' = "begin"
       \/ stage = "frontend" /\ stage' = "telemetry" /\ main' = "begin"
       \/ stage = "telemetry" /\ stage' = stage /\ main' = "health"
    /\ UNCHANGED <<rvars, batch, polls, exitCode, mon, stop, handling, signals, status, escaped>>

-----------------------------------------------------------------------------
(* _ensure_model_cached: every failure is logged and ignored.              *)

StartDownload ==
    /\ At("download")
    /\ Spawn(Download)
    /\ main' = "fetching"
    /\ UNCHANGED <<stage, batch, polls, exitCode, mon, stop, handling, signals, status, escaped>>

SkipDownload ==
    /\ At("download")
    /\ main' = "begin"
    /\ UNCHANGED <<rvars, stage, batch, polls, exitCode, mon, stop, handling, signals, status, escaped>>

DownloadEnds ==
    /\ At("fetching") \/ At("fetchkill")
    /\ proc[Download] \notin Alive
    /\ main' = "begin"
    /\ UNCHANGED <<rvars, stage, batch, polls, exitCode, mon, stop, handling, signals, status, escaped>>

DownloadTimeout ==
    /\ At("fetching") /\ proc[Download] \in Alive
    /\ proc' = Killed(Download)
    /\ main' = "fetchkill"
    /\ UNCHANGED <<reg, failed, lock, call, found>>
    /\ UNCHANGED <<stage, batch, polls, exitCode, mon, stop, handling, signals, status, escaped>>

-----------------------------------------------------------------------------
(* run_benchmark: wait_for_model, then the manual loop or the script.      *)

HealthFails ==
    /\ At("health") /\ (stop \/ polls = MaxPolls)
    /\ main' = "finally" /\ exitCode' = 1 /\ status' = "failed"
    /\ UNCHANGED <<rvars, stage, batch, polls, mon, stop, handling, signals, escaped>>

HealthPoll ==
    /\ At("health") /\ ~stop /\ polls < MaxPolls
    /\ main' = "poll" /\ polls' = polls + 1
    /\ UNCHANGED <<rvars, stage, batch, exitCode, mon, stop, handling, signals, status, escaped>>

NotReady ==
    /\ At("poll")
    /\ main' = "health"
    /\ UNCHANGED <<rvars, stage, batch, polls, exitCode, mon, stop, handling, signals, status, escaped>>

Ready ==
    /\ At("poll")
    /\ main' = "serve" /\ status' = "benchmark"
    /\ UNCHANGED <<rvars, stage, batch, polls, exitCode, mon, stop, handling, signals, escaped>>

(* The test of the manual loop; a failure it finds itself ends the run.    *)
ManualStopped ==
    /\ Manual /\ (At("serve") \/ At("manual")) /\ stop
    /\ main' = "finally" /\ exitCode' = 0
    /\ UNCHANGED <<rvars, stage, batch, polls, mon, stop, handling, signals, status, escaped>>

ManualCheck ==
    /\ Manual /\ (At("serve") \/ At("manual")) /\ ~stop
    /\ CallCheck("main")
    /\ main' = "checked"
    /\ UNCHANGED <<stage, batch, polls, exitCode, mon, stop, handling, signals, status, escaped>>

ManualChecked ==
    /\ At("checked")
    /\ IF found["main"] THEN main' = "finally" /\ exitCode' = 1
                        ELSE main' = "manual" /\ UNCHANGED exitCode
    /\ UNCHANGED <<rvars, stage, batch, polls, mon, stop, handling, signals, status, escaped>>

(* get_runner or validate_config refuses the configuration.                *)
BadBenchmark ==
    /\ ~Manual /\ At("serve")
    /\ main' = "finally" /\ exitCode' = 1
    /\ UNCHANGED <<rvars, stage, batch, polls, mon, stop, handling, signals, status, escaped>>

BenchmarkRaises ==
    /\ ~Manual /\ At("serve")
    /\ main' = "except"
    /\ UNCHANGED <<rvars, stage, batch, polls, exitCode, mon, stop, handling, signals, status, escaped>>

StartBenchmark ==
    /\ ~Manual /\ At("serve")
    /\ Spawn(Bench)
    /\ main' = "bench"
    /\ UNCHANGED <<stage, batch, polls, exitCode, mon, stop, handling, signals, status, escaped>>

BenchmarkEnds ==
    /\ At("bench") /\ proc[Bench] \notin Alive
    /\ main' = "finally"
    /\ exitCode' = IF proc[Bench] = "ok" THEN 0 ELSE 1
    /\ UNCHANGED <<rvars, stage, batch, polls, mon, stop, handling, signals, status, escaped>>

BenchmarkRuns ==
    /\ At("bench") /\ proc[Bench] \in Alive
    /\ main' = "benchstop"
    /\ UNCHANGED <<rvars, stage, batch, polls, exitCode, mon, stop, handling, signals, status, escaped>>

(* Mutant: a benchmark that is stopped counts as a success.                *)
StoppedIsSuccess ==
    /\ At("benchstop") /\ stop
    /\ proc' = Terminated(Bench)
    /\ main' = "finally" /\ exitCode' = 0
    /\ UNCHANGED <<reg, failed, lock, call, found>>
    /\ UNCHANGED <<stage, batch, polls, mon, stop, handling, signals, status, escaped>>

(* Mutant: the benchmark is left to itself.                                *)
StoppedNotTerminated ==
    /\ At("benchstop") /\ stop
    /\ main' = "finally" /\ exitCode' = 1
    /\ UNCHANGED <<rvars, stage, batch, polls, mon, stop, handling, signals, status, escaped>>

(* The benchmark is sent SIGTERM and not waited for.                       *)
BenchmarkStopped ==
    /\ At("benchstop") /\ stop
    /\ proc' = Terminated(Bench)
    /\ main' = "finally" /\ exitCode' = 1
    /\ UNCHANGED <<reg, failed, lock, call, found>>
    /\ UNCHANGED <<stage, batch, polls, mon, stop, handling, signals, status, escaped>>

BenchmarkGoesOn ==
    /\ At("benchstop") /\ ~stop
    /\ main' = "bench"
    /\ UNCHANGED <<rvars, stage, batch, polls, exitCode, mon, stop, handling, signals, status, escaped>>

-----------------------------------------------------------------------------
(* except, finally and the return of run().                                *)

ReportError ==
    /\ At("except")
    /\ main' = "finally" /\ exitCode' = 1 /\ status' = "failed"
    /\ UNCHANGED <<rvars, stage, batch, polls, mon, stop, handling, signals, escaped>>

(* Mutant: the finally block cleans up without setting the event first.    *)
CleanupBeforeStop ==
    /\ At("finally")
    /\ CallCleanup("main")
    /\ main' = "cleaning"
    /\ UNCHANGED <<stage, batch, polls, exitCode, mon, stop, handling, signals, status, escaped>>

StopAndCleanup ==
    /\ At("finally")
    /\ stop' = TRUE
    /\ CallCleanup("main")
    /\ main' = "cleaning"
    /\ UNCHANGED <<stage, batch, polls, exitCode, mon, handling, signals, status, escaped>>

PrintFailures ==
    /\ At("cleaning") /\ exitCode # 0
    /\ CallDetails("main")
    /\ main' = "details"
    /\ UNCHANGED <<stage, batch, polls, exitCode, mon, stop, handling, signals, status, escaped>>

NothingToPrint ==
    /\ At("cleaning") /\ (exitCode = 0 \/ failed = {})
    /\ main' = "post"
    /\ UNCHANGED <<rvars, stage, batch, polls, exitCode, mon, stop, handling, signals, status, escaped>>

FailuresPrinted ==
    /\ At("details")
    /\ main' = "post"
    /\ UNCHANGED <<rvars, stage, batch, polls, exitCode, mon, stop, handling, signals, status, escaped>>

(* Mutant: the upload of a run that passed is reported as its completion.  *)
UploadCompletes ==
    /\ At("post")
    /\ main' = "report"
    /\ status' = status \/ (Uploads /\ status' = IF exitCode = 0 THEN "completed" ELSE "benchmark")
    /\ UNCHANGED <<rvars, stage, batch, polls, exitCode, mon, stop, handling, signals, escaped>>

(* run_postprocess: an upload that succeeds is reported at once, with the  *)
(* status "benchmark".                                                     *)
Postprocess ==
    /\ At("post")
    /\ main' = "report"
    /\ status' = status \/ (Uploads /\ status' = "benchmark")
    /\ UNCHANGED <<rvars, stage, batch, polls, exitCode, mon, stop, handling, signals, escaped>>

(* It raises out of the finally block when a file of results cannot be     *)
(* read, or, after the upload of a failed run, when the prompt of the      *)
(* analysis does not format: report_completed is skipped.                  *)
PostprocessRaises ==
    /\ At("post")
    /\ main' = "done" /\ escaped' = TRUE
    /\ status' = status \/ (Uploads /\ exitCode # 0 /\ status' = "benchmark")
    /\ UNCHANGED <<rvars, stage, batch, polls, exitCode, mon, stop, handling, signals>>

(* Mutant: every run that gets here is reported as completed.              *)
ReportAlwaysCompleted ==
    /\ At("report")
    /\ main' = "done" /\ status' = "completed"
    /\ UNCHANGED <<rvars, stage, batch, polls, exitCode, mon, stop, handling, signals, escaped>>

ReportCompleted ==
    /\ At("report")
    /\ main' = "done"
    /\ status' = IF exitCode = 0 THEN "completed" ELSE "failed"
    /\ UNCHANGED <<rvars, stage, batch, polls, exitCode, mon, stop, handling, signals, escaped>>

-----------------------------------------------------------------------------
(* Inside registry calls, and signals.                                     *)

MainWaits == main # "hung" /\ Acquire("main") /\ UNCHANGED svars
MainWalks == main # "hung" /\ Walk("main") /\ UNCHANGED svars

(* Mutant: the handler sets the event and exits without cleaning up.       *)
SignalWithoutCleanup ==
    /\ main \notin {"done", "hung"} /\ lock # "main"
    /\ signals < MaxSignals
    /\ signals' = signals + 1 /\ stop' = TRUE
    /\ handling' = TRUE /\ call' = [call EXCEPT !["main"] = NoCall]
    /\ UNCHANGED <<proc, reg, failed, lock, found>>
    /\ UNCHANGED <<main, stage, batch, polls, exitCode, mon, status, escaped>>

(* signal_handler sets the event and calls cleanup() on top of the frame   *)
(* it interrupts.  If that frame holds the lock, which is not reentrant,   *)
(* the main thread waits for itself.                                       *)
Signal ==
    /\ main \notin {"done", "hung"}
    /\ signals < MaxSignals
    /\ LateSignals \/ (main \in InTry /\ lock # "main")
    /\ signals' = signals + 1 /\ stop' = TRUE
    /\ IF lock = "main"
       THEN main' = "hung" /\ UNCHANGED <<rvars, handling>>
       ELSE handling' = TRUE /\ CleanupInstead("main") /\ UNCHANGED main
    /\ UNCHANGED <<stage, batch, polls, exitCode, mon, status, escaped>>

(* sys.exit(1) in the handler: SystemExit is no Exception, so it goes from *)
(* the try block to the finally block, and from there out of run().        *)
HandlerExits ==
    /\ handling /\ main # "hung" /\ ~InCall("main")
    /\ handling' = FALSE
    /\ main' = IF main \in InTry THEN "finally" ELSE "done"
    /\ batch' = NoBatch
    /\ escaped' = (main \notin InTry)
    /\ UNCHANGED <<rvars, stage, polls, exitCode, mon, stop, signals, status>>

-----------------------------------------------------------------------------
(* monitor_loop, a daemon thread: it ends with the main thread.            *)

MonAt(l) == mon = l /\ ~InCall("monitor") /\ main # "done"

MonitorStops ==
    /\ MonAt("loop") /\ stop
    /\ mon' = "done"
    /\ UNCHANGED <<rvars, main, stage, batch, polls, exitCode, stop, handling, signals, status, escaped>>

MonitorChecks ==
    /\ MonAt("loop") /\ ~stop
    /\ CallCheck("monitor")
    /\ mon' = "check"
    /\ UNCHANGED <<main, stage, batch, polls, exitCode, stop, handling, signals, status, escaped>>

MonitorSleeps ==
    /\ MonAt("check") /\ ~found["monitor"]
    /\ mon' = "loop"
    /\ UNCHANGED <<rvars, main, stage, batch, polls, exitCode, stop, handling, signals, status, escaped>>

(* Mutant: the monitor cleans up and tells nobody.                         *)
DetectsWithoutStop ==
    /\ MonAt("check") /\ found["monitor"]
    /\ CallCleanup("monitor")
    /\ mon' = "cleanup"
    /\ UNCHANGED <<main, stage, batch, polls, exitCode, stop, handling, signals, status, escaped>>

MonitorDetects ==
    /\ MonAt("check") /\ found["monitor"]
    /\ stop' = TRUE
    /\ CallCleanup("monitor")
    /\ mon' = "cleanup"
    /\ UNCHANGED <<main, stage, batch, polls, exitCode, handling, signals, status, escaped>>

MonitorExits ==
    /\ MonAt("cleanup")
    /\ mon' = "done"
    /\ UNCHANGED <<rvars, main, stage, batch, polls, exitCode, stop, handling, signals, status, escaped>>

MonitorWaits == main # "done" /\ Acquire("monitor") /\ UNCHANGED svars
MonitorWalks == main # "done" /\ Walk("monitor") /\ UNCHANGED svars

-----------------------------------------------------------------------------
ProcessExits == main # "done" /\ (\E p \in Proc : Exit(p)) /\ UNCHANGED svars

Ended == main = "done" /\ UNCHANGED vars

MainStep ==
    \/ BeginStage \/ StartProcess \/ StartRaises \/ AllStarted
    \/ PortsOpen \/ PortsTimeout \/ Register \/ StageUp
    \/ StartDownload \/ SkipDownload \/ DownloadEnds \/ DownloadTimeout
    \/ HealthFails \/ HealthPoll \/ NotReady \/ Ready
    \/ ManualStopped \/ ManualCheck \/ ManualChecked
    \/ BadBenchmark \/ BenchmarkRaises \/ StartBenchmark
    \/ BenchmarkEnds \/ BenchmarkRuns \/ BenchmarkStopped \/ BenchmarkGoesOn
    \/ ReportError \/ StopAndCleanup \/ PrintFailures \/ NothingToPrint
    \/ FailuresPrinted \/ Postprocess \/ PostprocessRaises \/ ReportCompleted
    \/ HandlerExits

MonitorStep ==
    \/ MonitorStops \/ MonitorChecks \/ MonitorSleeps \/ MonitorDetects \/ MonitorExits

Next ==
    \/ MainStep \/ MainWaits \/ MainWalks
    \/ MonitorStep \/ MonitorWaits \/ MonitorWalks
    \/ Signal
    \/ ProcessExits
    \/ Ended

Spec == Init /\ [][Next]_vars

(* Both threads run; a blocked acquire() is woken when the lock is free;   *)
(* SIGKILL ends a process.  Nothing else makes a process end: a benchmark  *)
(* may run forever.                                                        *)
Fairness ==
    /\ WF_vars(MainStep) /\ WF_vars(MainWalks) /\ SF_vars(MainWaits)
    /\ WF_vars(MonitorStep) /\ WF_vars(MonitorWalks) /\ SF_vars(MonitorWaits)
    /\ \A p \in Proc : WF_vars(main # "done" /\ proc[p] = "killing" /\ Exit(p) /\ UNCHANGED svars)

FairSpec == Spec /\ Fairness
-----------------------------------------------------------------------------
(* Properties.                                                             *)

(* Nothing that was ever registered is left running undisturbed when run() *)
(* returns or is left by SystemExit, although the monitor, the handler and *)
(* the finally block clean up at different times and the main thread goes  *)
(* on starting and registering processes after the monitor's cleanup.      *)
NoRegisteredSurvivor ==
    main = "done" => \A n \in Registered : proc[reg[n]] # "running"

(* A process is called failed before anyone has asked the run to stop only *)
(* if it exited by itself: stop_event is set before the first terminate(), *)
(* in the monitor, the handler and the finally block alike.                *)
FailureBeforeStopIsGenuine ==
    [][\A n \in failed' \ failed : ~stop => proc[reg[n]] = "failed"]_vars

(* Exit code 0 of a scripted benchmark means that the script exited with 0,*)
(* on every path out of run_benchmark and with failures racing its end.    *)
SuccessMeansBenchmarkPassed ==
    main = "done" /\ ~Manual /\ exitCode = 0 => proc[Bench] = "ok"

(* No benchmark is left running undisturbed by a run that ends without a   *)
(* signal: it has ended or has been sent SIGTERM.                          *)
BenchmarkNotAbandoned ==
    main = "done" /\ signals = 0 => proc[Bench] # "running"

(* The last status reported is the outcome of the run, whatever was        *)
(* reported before it (do_sweep.py:436: "Runs before report_completed").   *)
(* A run that an exception leaves while it cleans up or post-processes     *)
(* reports no outcome: it is never left as completed, and one whose        *)
(* benchmark passed is left as if it were still running it.                *)
OutcomeReported ==
    main = "done" =>
        IF escaped THEN status # "completed" /\ (exitCode = 0 => status = "benchmark")
        ELSE status = IF exitCode = 0 THEN "completed" ELSE "failed"

(* What a run leaves running undisturbed is of the stage it was bringing   *)
(* up when it ended: a stage that came up is in the registry as a whole,   *)
(* and is taken down (processes.py:10: "Graceful cleanup on exit or        *)
(* failure"; handles of a stage that raises are lost with it).             *)
OnlyItsStageIsLeft ==
    main = "done" => \A p \in Managed : proc[p] = "running" => p \in Launch(stage)

(* A registered critical process that exits with a non-zero code ends the  *)
(* run: the monitor or the manual loop sees it, and no stage, health wait  *)
(* or benchmark that never ends holds the main thread for ever             *)
(* (processes.py:34: "critical: If True, failure triggers full cleanup").  *)
FailureEndsRun ==
    \A n \in Name : (reg[n] \in Critical /\ proc[reg[n]] = "failed") ~> main = "done"

(* A signal ends the run: its handler and the finally block get the lock   *)
(* (processes.py:77: "Graceful cleanup on signal or failure").             *)
SignalEndsRun == signals > 0 ~> main = "done"

(* The statuses reported are those of a job lifecycle: the sweep           *)
(* implements it, the job being in the state last reported.                *)
Lifecycle == INSTANCE JobLifecycle WITH job <- status
LifecycleSpec == Lifecycle!LSpec
=============================================================================

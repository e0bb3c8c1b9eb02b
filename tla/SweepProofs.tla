----------------------------- MODULE SweepProofs -----------------------------
(* The run's guarantees for any handles, names and bounds.                 *)
EXTENDS Sweep, ProcessRegistryProofs

Quiet == \A n \in Registered : proc[reg[n]] # "running"

(* Which registry call a thread may be in, by where its own code is.       *)
CallSites ==
    /\ call["monitor"].op \in {"none", "check", "cleanup"}
    /\ call["main"].op = "add" => main \in {"register", "hung"} /\ call["main"].arg \in Managed
    /\ call["main"].op = "cleanup" => handling \/ main \in {"cleaning", "hung"}
    /\ handling => call["main"].op \in {"none", "cleanup"}
    /\ main = "cleaning" => call["main"].op \in {"none", "cleanup"}

(* Only handles of the stages are registered.                              *)
OnlyManaged == \A n \in Name : reg[n] \in Managed \cup {NoProc}

(* Once a cleanup by the main thread has returned and nothing can be       *)
(* registered any more, everything registered stays quiet.                 *)
QuietAfterCleanup ==
    /\ main \in {"details", "post", "report", "done"} => Quiet
    /\ main = "cleaning" /\ ~InCall("main") => Quiet
    /\ handling /\ ~InCall("main") => Quiet

(* Every cleanup comes after stop_event was set, so until then no handle   *)
(* of a stage has been sent a signal.                                      *)
StopFirst ==
    /\ (\E t \in Thread : call[t].op = "cleanup") => stop
    /\ handling => stop
    /\ ~stop => \A p \in Managed : proc[p] \in {"none", "running", "ok", "failed"}

(* The exit code becomes 0 only when the benchmark has exited with 0.      *)
ExitCodeOfBenchmark == ~Manual /\ exitCode = 0 => proc[Bench] = "ok"

SInv == /\ RInv /\ TypeOK /\ CallSites /\ OnlyManaged
        /\ QuietAfterCleanup /\ StopFirst /\ ExitCodeOfBenchmark

(* Every step of the run is a step of the registry or leaves it alone.     *)
LEMMA StepIsRegistryStep ==
    ASSUME TypeOK, OnlyManaged, [Next]_vars
    PROVE  [RNext]_rvars
<1> USE SweepAssumption, NamesAssumption
<1>1. ASSUME UNCHANGED rvars PROVE [RNext]_rvars
  BY <1>1
<1>2. ASSUME NEW p \in Proc, Spawn(p) \/ Exit(p) PROVE RNext
  BY <1>2 DEF RNext
<1>3. ASSUME NEW t \in Thread,
             (\E p \in Proc : CallAdd(t, p)) \/ CallCheck(t) \/ CallCleanup(t) \/ CallDetails(t)
             \/ CleanupInstead(t) \/ Acquire(t) \/ Walk(t)
      PROVE  RNext
  BY <1>3 DEF RNext
<1>4. "main" \in Thread /\ "monitor" \in Thread /\ Bench \in Proc /\ Download \in Proc
  OBVIOUS
<1>5. ASSUME NEW p \in {Bench, Download}, proc' \in {Terminated(p), Killed(p)},
             UNCHANGED <<reg, failed, lock, call, found>>
      PROVE  RNext
  BY <1>4, <1>5 DEF RNext, SignalUnregistered, OnlyManaged
<1>6. CASE MainStep
  <2>1. CASE StartProcess \/ StartDownload \/ StartBenchmark
    BY <2>1, <1>2, <1>4 DEF StartProcess, Unstarted, Launch, StartDownload, StartBenchmark
  <2>2. CASE Register
    BY <2>2, <1>3, <1>4 DEF Register, TypeOK
  <2>3. CASE ManualCheck \/ StopAndCleanup \/ PrintFailures
    BY <2>3, <1>3, <1>4 DEF ManualCheck, StopAndCleanup, PrintFailures
  <2>4. CASE DownloadTimeout \/ BenchmarkStopped
    BY <2>4, <1>5 DEF DownloadTimeout, BenchmarkStopped
  <2>. QED
    BY <1>6, <2>1, <2>2, <2>3, <2>4, <1>1
    DEF MainStep, BeginStage, StartRaises, AllStarted, PortsOpen, PortsTimeout, StageUp,
        SkipDownload, DownloadEnds, HealthFails, HealthPoll, NotReady, Ready, ManualStopped,
        ManualChecked, BadBenchmark, BenchmarkRaises, BenchmarkEnds, BenchmarkRuns, BenchmarkGoesOn,
        ReportError, NothingToPrint, FailuresPrinted, Postprocess, PostprocessRaises, ReportCompleted, HandlerExits
<1>7. CASE MonitorStep
  BY <1>7, <1>1, <1>3, <1>4
  DEF MonitorStep, MonitorStops, MonitorChecks, MonitorSleeps, MonitorDetects, MonitorExits
<1>8. CASE MainWaits \/ MainWalks \/ MonitorWaits \/ MonitorWalks
  BY <1>8, <1>3, <1>4 DEF MainWaits, MainWalks, MonitorWaits, MonitorWalks
<1>9. CASE Signal
  BY <1>9, <1>1, <1>3, <1>4 DEF Signal
<1>10. CASE ProcessExits
  BY <1>10, <1>2 DEF ProcessExits
<1>. QED
  BY <1>1, <1>6, <1>7, <1>8, <1>9, <1>10 DEF Next, Ended, vars

(* Every step of the run keeps the types.                                  *)
LEMMA TypeStep ==
    ASSUME RTypeOK, CallShape, TypeOK, OnlyManaged, [Next]_vars
    PROVE  TypeOK'
<1> USE SweepAssumption, NamesAssumption
<1>1. RTypeOK'
  BY StepIsRegistryStep, RTypeStep
<1> DEFINE Own == /\ main \in InTry \cup InFinally \cup {"done", "hung"}
                  /\ stage \in Stage
                  /\ batch \in [Name -> Managed \cup {NoProc}]
                  /\ polls \in Nat
                  /\ exitCode \in {0, 1}
                  /\ mon \in {"loop", "check", "cleanup", "done"}
                  /\ stop \in BOOLEAN /\ handling \in BOOLEAN
                  /\ signals \in Nat
                  /\ status \in {"starting", "workers", "frontend", "benchmark", "completed", "failed"}
                  /\ escaped \in BOOLEAN
<1>2. Own
  BY DEF TypeOK
<1>3. SUFFICES Own'
  BY <1>1, <1>3 DEF TypeOK
<1>4. CASE UNCHANGED svars
  BY <1>2, <1>4 DEF svars
<1>5. CASE BeginStage \/ StartRaises \/ AllStarted \/ PortsOpen \/ PortsTimeout \/ StageUp
  BY <1>2, <1>5
  DEF BeginStage, StartRaises, AllStarted, PortsOpen, PortsTimeout, StageUp, NoBatch, Stage, InTry
<1>6. CASE StartProcess \/ Register
  BY <1>2, <1>6 DEF StartProcess, Unstarted, Launch, Register
<1>7. CASE StartDownload \/ SkipDownload \/ DownloadEnds \/ DownloadTimeout
  BY <1>2, <1>7 DEF StartDownload, SkipDownload, DownloadEnds, DownloadTimeout, InTry
<1>8. CASE HealthFails \/ HealthPoll \/ NotReady \/ Ready
  BY <1>2, <1>8 DEF HealthFails, HealthPoll, NotReady, Ready, InTry, InFinally
<1>9. CASE ManualStopped \/ ManualCheck \/ ManualChecked \/ BadBenchmark \/ BenchmarkRaises
  BY <1>2, <1>9
  DEF ManualStopped, ManualCheck, ManualChecked, BadBenchmark, BenchmarkRaises, InTry, InFinally
<1>10. CASE StartBenchmark \/ BenchmarkEnds \/ BenchmarkRuns \/ BenchmarkStopped \/ BenchmarkGoesOn
  BY <1>2, <1>10
  DEF StartBenchmark, BenchmarkEnds, BenchmarkRuns, BenchmarkStopped, BenchmarkGoesOn, InTry, InFinally
<1>11. CASE ReportError \/ StopAndCleanup \/ PrintFailures \/ NothingToPrint
  BY <1>2, <1>11 DEF ReportError, StopAndCleanup, PrintFailures, NothingToPrint, InFinally
<1>12. CASE FailuresPrinted \/ Postprocess \/ PostprocessRaises \/ ReportCompleted \/ HandlerExits
  BY <1>2, <1>12
  DEF FailuresPrinted, Postprocess, PostprocessRaises, ReportCompleted, HandlerExits, NoBatch, InFinally
<1>13. CASE MonitorStep
  BY <1>2, <1>13
  DEF MonitorStep, MonitorStops, MonitorChecks, MonitorSleeps, MonitorDetects, MonitorExits
<1>14. CASE Signal
  <2>1. CASE lock = "main"
    BY <1>2, <1>14, <2>1 DEF Signal
  <2>2. CASE lock # "main"
    BY <1>2, <1>14, <2>2 DEF Signal
  <2>. QED
    BY <2>1, <2>2
<1>. QED
  BY <1>4, <1>5, <1>6, <1>7, <1>8, <1>9, <1>10, <1>11, <1>12, <1>13, <1>14
  DEF Next, MainStep, MainWaits, MainWalks, MonitorWaits, MonitorWalks, ProcessExits, Ended, vars

(* A registry step by thread t leaves the other thread's call alone.       *)
LEMMA OtherCalls ==
    ASSUME RTypeOK, NEW t \in Thread, NEW u \in Thread \ {t}
    PROVE  /\ Acquire(t) => call'[u] = call[u]
           /\ Walk(t) => call'[u] = call[u]
           /\ CleanupInstead(t) => call'[u] = call[u]
           /\ \A op, arg : Begin(t, op, arg) => call'[u] = call[u]
BY DEF Acquire, Moves, Walk, AddProcess, Poll, CheckReturn, SkipExited, Terminate, WaitReturns,
       TermTimeout, KillTimeout, CleanupReturn, DetailsReturn, Release, CleanupInstead, Begin, RTypeOK

(* What a registry step does to the kind of the call of its own thread.    *)
LEMMA OwnCall ==
    ASSUME RTypeOK, NEW t \in Thread
    PROVE  /\ Acquire(t) => call'[t].op = call[t].op /\ call'[t].arg = call[t].arg
           /\ Walk(t) => \/ call'[t] = NoCall
                         \/ call'[t].op = call[t].op /\ call[t].op \in {"check", "cleanup"}
                         \/ call[t].at \in {"term", "kill"} /\ call'[t].op = call[t].op
           /\ CleanupInstead(t) => call'[t] = CallTo("cleanup", NoProc)
           /\ \A op, arg : Begin(t, op, arg) => call[t].op = "none" /\ call'[t] = CallTo(op, arg)
BY DEF Acquire, Moves, Walk, AddProcess, Poll, CheckReturn, SkipExited, Terminate, WaitReturns, Holding,
       TermTimeout, KillTimeout, CleanupReturn, DetailsReturn, Release, CleanupInstead, Begin, InCall, RTypeOK

(* Every step keeps the calls at their sites.                              *)
LEMMA CallSitesStep ==
    ASSUME RTypeOK, CallShape, TypeOK, CallSites, [Next]_vars
    PROVE  CallSites'
<1> USE SweepAssumption
<1>1. "main" \in Thread /\ "monitor" \in Thread \ {"main"} /\ "main" \in Thread \ {"monitor"}
  OBVIOUS
<1>2. ASSUME UNCHANGED call PROVE call'["main"] = call["main"] /\ call'["monitor"] = call["monitor"]
  BY <1>2
(* Steps of the main thread outside the registry.                          *)
<1>3. CASE UNCHANGED <<call, main, handling>>
  BY <1>3 DEF CallSites
<1>4. CASE MainStep
  <2>1. CASE Register
    <3>1. PICK n \in Name : batch[n] # NoProc /\ CallAdd("main", batch[n])
      BY <2>1 DEF Register
    <3>2. call'["main"] = CallTo("add", batch[n]) /\ call'["monitor"] = call["monitor"]
      BY <3>1, <1>1, OwnCall, OtherCalls DEF CallAdd
    <3>3. batch[n] \in Managed
      BY <3>1 DEF TypeOK
    <3>. QED
      BY <3>2, <3>3, <2>1 DEF Register, At, CallTo, CallSites
  <2>2. CASE ManualCheck \/ PrintFailures \/ StopAndCleanup
    <3>1. PICK op \in {"check", "cleanup", "details"} :
             Begin("main", op, NoProc) /\ (op = "cleanup" <=> StopAndCleanup)
      BY <2>2 DEF ManualCheck, PrintFailures, StopAndCleanup, CallCheck, CallDetails, CallCleanup, At
    <3>2. call'["main"] = CallTo(op, NoProc) /\ call'["monitor"] = call["monitor"]
      BY <3>1, <1>1, OwnCall, OtherCalls
    <3>. QED
      BY <3>1, <3>2, <2>2 DEF ManualCheck, PrintFailures, StopAndCleanup, At, CallTo, CallSites
  <2>3. CASE ~InCall("main") /\ UNCHANGED call /\ (handling' = handling \/ handling' = FALSE)
    BY <2>3, <1>1 DEF InCall, CallSites
  <2>. QED
    BY <1>4, <2>1, <2>2, <2>3
    DEF MainStep, At, rvars, BeginStage, StartProcess, StartRaises, AllStarted, PortsOpen, PortsTimeout, StageUp,
        StartDownload, SkipDownload, DownloadEnds, DownloadTimeout, HealthFails, HealthPoll, NotReady, Ready,
        ManualStopped, ManualChecked, BadBenchmark, BenchmarkRaises, StartBenchmark, BenchmarkEnds,
        BenchmarkRuns, BenchmarkStopped, BenchmarkGoesOn, ReportError, NothingToPrint, FailuresPrinted,
        Postprocess, PostprocessRaises, ReportCompleted, HandlerExits, Spawn
(* Steps of the main thread inside the registry.                           *)
<1>5. CASE MainWaits
  <2>1. call'["main"].op = call["main"].op /\ call'["main"].arg = call["main"].arg
        /\ call'["monitor"] = call["monitor"]
    BY <1>5, <1>1, OwnCall, OtherCalls DEF MainWaits
  <2>. QED
    BY <2>1, <1>5 DEF MainWaits, svars, CallSites
<1>6. CASE MainWalks
  <2>1. call'["monitor"] = call["monitor"] /\
          \/ call'["main"].op = "none"
          \/ call'["main"].op = call["main"].op /\ call["main"].op # "add"
    BY <1>6, <1>1, OwnCall, OtherCalls DEF MainWalks, NoCall, CallShape
  <2>. QED
    BY <2>1, <1>6 DEF MainWalks, svars, CallSites
<1>7. CASE Signal
  <2>1. CASE lock = "main"
    BY <2>1, <1>7, <1>2 DEF Signal, rvars, CallSites
  <2>2. CASE lock # "main"
    <3>1. call'["main"] = CallTo("cleanup", NoProc) /\ call'["monitor"] = call["monitor"] /\ handling'
      BY <2>2, <1>7, <1>1, OwnCall, OtherCalls DEF Signal
    <3>. QED
      BY <3>1 DEF CallTo, CallSites
  <2>. QED
    BY <2>1, <2>2
(* Steps of the monitor.                                                   *)
<1>8. CASE MonitorStep
  <2>1. UNCHANGED <<main, handling>> /\ call'["main"] = call["main"]
        /\ call'["monitor"].op \in {"none", "check", "cleanup"}
    <3>1. CASE MonitorChecks \/ MonitorDetects
      <4>1. PICK op \in {"check", "cleanup"} : Begin("monitor", op, NoProc)
        BY <3>1 DEF MonitorChecks, MonitorDetects, CallCheck, CallCleanup
      <4>2. call'["monitor"] = CallTo(op, NoProc) /\ call'["main"] = call["main"]
        BY <4>1, <1>1, OwnCall, OtherCalls
      <4>. QED
        BY <4>2, <3>1 DEF MonitorChecks, MonitorDetects, CallTo
    <3>2. CASE MonitorStops \/ MonitorSleeps \/ MonitorExits
      BY <3>2 DEF MonitorStops, MonitorSleeps, MonitorExits, rvars, CallSites
    <3>. QED
      BY <1>8, <3>1, <3>2 DEF MonitorStep
  <2>. QED
    BY <2>1 DEF CallSites
<1>9. CASE MonitorWaits \/ MonitorWalks
  <2>1. call'["main"] = call["main"] /\ (call'["monitor"].op = "none" \/ call'["monitor"].op = call["monitor"].op)
    BY <1>9, <1>1, OwnCall, OtherCalls DEF MonitorWaits, MonitorWalks, NoCall
  <2>. QED
    BY <2>1, <1>9 DEF MonitorWaits, MonitorWalks, svars, CallSites
<1>. QED
  BY <1>3, <1>4, <1>5, <1>6, <1>7, <1>8, <1>9 DEF Next, ProcessExits, Exit, Ended, vars, rvars, svars

(* Every step registers handles of the stages only.                        *)
LEMMA OnlyManagedStep ==
    ASSUME RTypeOK, LockOwner, CallShape, TypeOK, CallSites, OnlyManaged, [Next]_vars
    PROVE  OnlyManaged'
<1>1. [RNext]_rvars
  BY StepIsRegistryStep
<1>2. CASE reg' = reg
  BY <1>2 DEF OnlyManaged
<1>3. ASSUME NEW t \in Thread, AddProcess(t) PROVE OnlyManaged'
  <2>1. call[t].arg \in Managed
    BY <1>3, SweepAssumption DEF AddProcess, Holding, CallSites
  <2>. QED
    BY <2>1, <1>3, NamesAssumption DEF AddProcess, OnlyManaged, RTypeOK
<1>. QED
  BY <1>1, <1>2, <1>3, TableStep

(* The table changes only while the main thread registers a stage.         *)
LEMMA TableIsFixed ==
    ASSUME RTypeOK, LockOwner, CallShape, TypeOK, CallSites, OnlyManaged, [Next]_vars,
           call["main"].op # "add"
    PROVE  reg' = reg
<1>1. [RNext]_rvars
  BY StepIsRegistryStep
<1>2. \A t \in Thread : ~AddProcess(t)
  BY SweepAssumption DEF AddProcess, Holding, CallSites
<1>. QED
  BY <1>1, <1>2, TableStep

(* A table that does not change stays quiet: no process comes back.        *)
LEMMA QuietStable ==
    ASSUME RTypeOK, CallShape, RegisteredStarted, [RNext]_rvars, reg' = reg, Quiet
    PROVE  Quiet'
BY NoResurrection DEF Quiet, Registered, RegisteredStarted, RTypeOK

(* A cleanup() by the main thread ends in a quiet table.                   *)
LEMMA ReturnIsQuiet ==
    ASSUME RInv, NEW t \in Thread, CleanupReturn(t)
    PROVE  Quiet'
BY DEF CleanupReturn, Holding, RInv, CleanupProgress, Quiet, Registered

(* Every step keeps the table quiet after the cleanup of the main thread.  *)
LEMMA QuietStep ==
    ASSUME RInv, TypeOK, CallSites, OnlyManaged, QuietAfterCleanup, [Next]_vars
    PROVE  QuietAfterCleanup'
<1> USE SweepAssumption DEF RInv
<1>0. [RNext]_rvars /\ "main" \in Thread /\ "monitor" \in Thread \ {"main"} /\ "main" \in Thread \ {"monitor"}
  BY StepIsRegistryStep
<1>1. CASE call["main"].op = "add"
  <2>1. main \in {"register", "hung"} /\ ~handling
    BY <1>1 DEF CallSites
  <2>2. CASE Signal
    <3>1. CASE lock = "main"
      BY <2>1, <2>2, <3>1 DEF Signal, QuietAfterCleanup
    <3>2. CASE lock # "main"
      <4>1. call'["main"] = CallTo("cleanup", NoProc) /\ main' = main
        BY <3>2, <2>2, <1>0, OwnCall DEF Signal
      <4>. QED
        BY <4>1, <2>1 DEF CallTo, InCall, QuietAfterCleanup
    <3>. QED
      BY <3>1, <3>2
  <2>3. CASE ~Signal
    <3>1. ~MainStep
      BY <1>1, <2>1
      DEF MainStep, At, InCall, BeginStage, StartProcess, StartRaises, AllStarted, PortsOpen, PortsTimeout, Register,
          StageUp, StartDownload, SkipDownload, DownloadEnds, DownloadTimeout, HealthFails, HealthPoll, NotReady,
          Ready, ManualStopped, ManualCheck, ManualChecked, BadBenchmark, BenchmarkRaises, StartBenchmark,
          BenchmarkEnds, BenchmarkRuns, BenchmarkStopped, BenchmarkGoesOn, ReportError, StopAndCleanup,
          PrintFailures, NothingToPrint, FailuresPrinted, Postprocess, PostprocessRaises, ReportCompleted, HandlerExits
    <3>2. main' = main /\ handling' = handling
      BY <3>1, <2>3
      DEF Next, MainWaits, MainWalks, MonitorStep, MonitorStops, MonitorChecks, MonitorSleeps, MonitorDetects,
          MonitorExits, MonitorWaits, MonitorWalks, ProcessExits, Ended, vars, svars
    <3>. QED
      BY <2>1, <3>2 DEF QuietAfterCleanup
  <2>. QED
    BY <2>2, <2>3
<1>2. CASE call["main"].op # "add"
  <2>1. reg' = reg
    BY <1>2, TableIsFixed
  <2>2. Quiet => Quiet'
    BY <2>1, <1>0, QuietStable
  <2>3. CASE UNCHANGED <<main, handling>> /\ call'["main"] = call["main"]
    BY <2>2, <2>3 DEF QuietAfterCleanup, InCall
  <2>4. CASE MainStep
    <3>1. CASE StopAndCleanup
      <4>1. InCall("main")' /\ main' = "cleaning" /\ ~handling'
        BY <3>1, <1>0, OwnCall DEF StopAndCleanup, CallCleanup, CallTo, At, InCall
      <4>. QED
        BY <4>1 DEF QuietAfterCleanup
    <3>2. CASE PrintFailures \/ NothingToPrint \/ FailuresPrinted \/ Postprocess \/ PostprocessRaises \/ ReportCompleted
      BY <3>2, <2>2
      DEF PrintFailures, NothingToPrint, FailuresPrinted, Postprocess, PostprocessRaises, ReportCompleted, At,
          QuietAfterCleanup
    <3>3. CASE HandlerExits
      BY <3>3, <2>2 DEF HandlerExits, QuietAfterCleanup, InTry
    <3>4. CASE /\ main' \notin {"cleaning", "details", "post", "report", "done"}
               /\ ~handling /\ handling' = handling
      BY <3>4 DEF QuietAfterCleanup
    <3>. QED
      BY <2>4, <3>1, <3>2, <3>3, <3>4
      DEF MainStep, At, BeginStage, StartProcess, StartRaises, AllStarted, PortsOpen, PortsTimeout, Register,
          StageUp, StartDownload, SkipDownload, DownloadEnds, DownloadTimeout, HealthFails, HealthPoll, NotReady,
          Ready, ManualStopped, ManualCheck, ManualChecked, BadBenchmark, BenchmarkRaises, StartBenchmark,
          BenchmarkEnds, BenchmarkRuns, BenchmarkStopped, BenchmarkGoesOn, ReportError
  <2>5. CASE MainWaits
    <3>1. call'["main"].op = call["main"].op /\ main' = main /\ handling' = handling
      BY <2>5, <1>0, OwnCall DEF MainWaits, svars
    <3>. QED
      BY <3>1, <2>2 DEF QuietAfterCleanup, InCall
  <2>6. CASE MainWalks
    <3>1. main' = main /\ handling' = handling /\ Walk("main")
      BY <2>6 DEF MainWalks, svars
    <3>2. CASE CleanupReturn("main")
      BY <3>1, <3>2, <1>0, ReturnIsQuiet DEF QuietAfterCleanup
    <3>3. CASE AddProcess("main") \/ CheckReturn("main") \/ DetailsReturn("main") \/ Poll("main")
      <4>1. call["main"].op \notin {"none", "cleanup"}
        BY <3>3 DEF AddProcess, CheckReturn, DetailsReturn, Poll, Holding
      <4>2. ~handling /\ main # "cleaning"
        BY <4>1 DEF CallSites
      <4>. QED
        BY <4>2, <3>1, <2>2 DEF QuietAfterCleanup
    <3>4. CASE SkipExited("main") \/ Terminate("main") \/ WaitReturns("main") \/ TermTimeout("main")
               \/ KillTimeout("main")
      <4>1. call["main"].op = "cleanup"
        BY <3>4, <1>0 DEF SkipExited, Terminate, WaitReturns, TermTimeout, KillTimeout, Holding, CallShape
      <4>2. call'["main"].op = "cleanup"
        BY <4>1, <3>4, <1>0
        DEF SkipExited, Terminate, WaitReturns, TermTimeout, KillTimeout, Moves, RTypeOK
      <4>. QED
        BY <4>2, <3>1, <2>2 DEF QuietAfterCleanup, InCall
    <3>. QED
      BY <3>1, <3>2, <3>3, <3>4 DEF Walk
  <2>7. CASE Signal
    <3>1. CASE lock = "main"
      <4>1. ~InCall("main") => FALSE
        BY <3>1, <1>0 DEF LockOwner
      <4>. QED
        BY <4>1, <3>1, <2>7 DEF Signal, rvars, QuietAfterCleanup, InCall
    <3>2. CASE lock # "main"
      <4>1. call'["main"] = CallTo("cleanup", NoProc) /\ main' = main
        BY <3>2, <2>7, <1>0, OwnCall DEF Signal
      <4>. QED
        BY <4>1, <2>2 DEF CallTo, InCall, QuietAfterCleanup
    <3>. QED
      BY <3>1, <3>2
  <2>8. CASE MonitorStep \/ MonitorWaits \/ MonitorWalks
    <3>1. call'["main"] = call["main"]
      BY <2>8, <1>0, OtherCalls
      DEF MonitorStep, MonitorStops, MonitorChecks, MonitorSleeps, MonitorDetects, MonitorExits,
          MonitorWaits, MonitorWalks, CallCheck, CallCleanup, rvars
    <3>2. UNCHANGED <<main, handling>>
      BY <2>8
      DEF MonitorStep, MonitorStops, MonitorChecks, MonitorSleeps, MonitorDetects, MonitorExits,
          MonitorWaits, MonitorWalks, svars
    <3>. QED
      BY <3>1, <3>2, <2>3
  <2>. QED
    BY <2>3, <2>4, <2>5, <2>6, <2>7, <2>8 DEF Next, ProcessExits, Exit, Ended, vars, rvars, svars
<1>. QED
  BY <1>1, <1>2

(* stop_event is never cleared, and it is set before cleanup() is called.  *)
LEMMA StopStep ==
    ASSUME RInv, TypeOK, CallSites, OnlyManaged, StopFirst, [Next]_vars
    PROVE  StopFirst'
<1> USE SweepAssumption, NamesAssumption DEF RInv
<1>1. "main" \in Thread /\ "monitor" \in Thread \ {"main"} /\ "main" \in Thread \ {"monitor"}
  OBVIOUS
<1>2. CASE stop
  <2>1. stop'
    BY <1>2
    DEF Next, MainStep, BeginStage, StartProcess, StartRaises, AllStarted, PortsOpen, PortsTimeout, Register,
        StageUp, StartDownload, SkipDownload, DownloadEnds, DownloadTimeout, HealthFails, HealthPoll, NotReady,
        Ready, ManualStopped, ManualCheck, ManualChecked, BadBenchmark, BenchmarkRaises, StartBenchmark,
        BenchmarkEnds, BenchmarkRuns, BenchmarkStopped, BenchmarkGoesOn, ReportError, StopAndCleanup,
        PrintFailures, NothingToPrint, FailuresPrinted, Postprocess, PostprocessRaises, ReportCompleted, HandlerExits,
        MainWaits, MainWalks, MonitorStep, MonitorStops, MonitorChecks, MonitorSleeps, MonitorDetects,
        MonitorExits, MonitorWaits, MonitorWalks, Signal, ProcessExits, Ended, vars, svars
  <2>. QED
    BY <2>1 DEF StopFirst
<1>3. CASE ~stop
  <2>1. ~handling /\ \A t \in Thread : call[t].op # "cleanup" /\ call[t].at \notin {"term", "kill"}
    BY <1>3 DEF StopFirst, CallShape
  <2>2. CASE StopAndCleanup \/ MonitorDetects \/ Signal
    BY <2>2 DEF StopAndCleanup, MonitorDetects, Signal, StopFirst
  <2>3. CASE ~(StopAndCleanup \/ MonitorDetects \/ Signal)
    <3>1. handling' = handling
      BY <2>1, <2>3
      DEF Next, MainStep, BeginStage, StartProcess, StartRaises, AllStarted, PortsOpen, PortsTimeout, Register,
          StageUp, StartDownload, SkipDownload, DownloadEnds, DownloadTimeout, HealthFails, HealthPoll, NotReady,
          Ready, ManualStopped, ManualCheck, ManualChecked, BadBenchmark, BenchmarkRaises, StartBenchmark,
          BenchmarkEnds, BenchmarkRuns, BenchmarkStopped, BenchmarkGoesOn, ReportError,
          PrintFailures, NothingToPrint, FailuresPrinted, Postprocess, PostprocessRaises, ReportCompleted, HandlerExits,
          MainWaits, MainWalks, MonitorStep, MonitorStops, MonitorChecks, MonitorSleeps,
          MonitorExits, MonitorWaits, MonitorWalks, ProcessExits, Ended, vars, svars
    <3>2. ASSUME NEW t \in Thread PROVE call'[t].op # "cleanup"
      <4>1. CASE UNCHANGED call
        BY <2>1, <4>1
      <4>2. ASSUME NEW u \in Thread, Acquire(u) \/ Walk(u) PROVE call'[t].op # "cleanup"
        BY <4>2, <2>1, OwnCall, OtherCalls DEF NoCall
      <4>3. ASSUME NEW u \in Thread, NEW op \in {"add", "check", "details"}, NEW arg, Begin(u, op, arg)
            PROVE  call'[t].op # "cleanup"
        <5>1. call'[u] = CallTo(op, arg)
          BY <4>3, OwnCall
        <5>2. call'[u].op # "cleanup"
          BY <5>1 DEF CallTo
        <5>3. t # u => call'[t] = call[t]
          BY <4>3, OtherCalls
        <5>. QED
          BY <5>2, <5>3, <2>1
      <4>. QED
        BY <2>1, <2>3, <1>1, <4>1, <4>2, <4>3
        DEF Next, MainStep, BeginStage, StartProcess, StartRaises, AllStarted, PortsOpen, PortsTimeout, Register,
            StageUp, StartDownload, SkipDownload, DownloadEnds, DownloadTimeout, HealthFails, HealthPoll, NotReady,
            Ready, ManualStopped, ManualCheck, ManualChecked, BadBenchmark, BenchmarkRaises, StartBenchmark,
            BenchmarkEnds, BenchmarkRuns, BenchmarkStopped, BenchmarkGoesOn, ReportError,
            PrintFailures, NothingToPrint, FailuresPrinted, Postprocess, PostprocessRaises, ReportCompleted, HandlerExits,
            MainWaits, MainWalks, MonitorStep, MonitorStops, MonitorChecks, MonitorSleeps,
            MonitorExits, MonitorWaits, MonitorWalks, ProcessExits, Ended, vars, rvars,
            Spawn, Exit, CallAdd, CallCheck, CallDetails
    <3>3. ASSUME NEW p \in Managed PROVE proc'[p] \in {"none", "running", "ok", "failed"}
      <4>1. proc[p] \in {"none", "running", "ok", "failed"} /\ p \in Proc /\ p \notin {Bench, Download}
        BY <1>3 DEF StopFirst
      <4>2. CASE UNCHANGED proc
        BY <4>1, <4>2
      <4>3. ASSUME NEW q \in Proc, Spawn(q) \/ Exit(q) PROVE proc'[p] \in {"none", "running", "ok", "failed"}
        BY <4>1, <4>3 DEF Spawn, Exit, Ends, RTypeOK
      <4>4. ASSUME NEW q \in {Bench, Download}, proc' \in {Terminated(q), Killed(q)}
            PROVE  proc'[p] \in {"none", "running", "ok", "failed"}
        BY <4>1, <4>4 DEF Terminated, Killed, RTypeOK
      <4>5. ASSUME NEW u \in Thread, Acquire(u) \/ Walk(u) PROVE UNCHANGED proc
        BY <4>5, <2>1
        DEF Acquire, Walk, AddProcess, Poll, CheckReturn, SkipExited, Terminate, WaitReturns, TermTimeout,
            KillTimeout, CleanupReturn, DetailsReturn, Holding
      <4>. QED
        BY <2>1, <2>3, <1>1, <4>2, <4>3, <4>4, <4>5
        DEF Next, MainStep, BeginStage, StartProcess, Unstarted, Launch, StartRaises, AllStarted, PortsOpen,
            PortsTimeout, Register, StageUp, StartDownload, SkipDownload, DownloadEnds, DownloadTimeout,
            HealthFails, HealthPoll, NotReady,
            Ready, ManualStopped, ManualCheck, ManualChecked, BadBenchmark, BenchmarkRaises, StartBenchmark,
            BenchmarkEnds, BenchmarkRuns, BenchmarkStopped, BenchmarkGoesOn, ReportError,
            PrintFailures, NothingToPrint, FailuresPrinted, Postprocess, PostprocessRaises, ReportCompleted, HandlerExits,
            MainWaits, MainWalks, MonitorStep, MonitorStops, MonitorChecks, MonitorSleeps,
            MonitorExits, MonitorWaits, MonitorWalks, ProcessExits, Ended, vars, rvars,
            CallAdd, CallCheck, CallDetails
    <3>. QED
      BY <2>1, <3>1, <3>2, <3>3 DEF StopFirst
  <2>. QED
    BY <2>2, <2>3
<1>. QED
  BY <1>2, <1>3 DEF TypeOK

(* A process that has exited with 0 stays so, and only the end of the      *)
(* benchmark sets the exit code of a scripted run to 0.                    *)
LEMMA ExitStep ==
    ASSUME RTypeOK, CallShape, TypeOK, OnlyManaged, ExitCodeOfBenchmark, [Next]_vars
    PROVE  ExitCodeOfBenchmark'
<1> USE SweepAssumption
<1>1. proc[Bench] = "ok" => proc'[Bench] = "ok"
  BY StepIsRegistryStep, ExitIsFinal DEF Exited
<1>2. CASE BenchmarkEnds
  BY <1>2, <1>1 DEF BenchmarkEnds, ExitCodeOfBenchmark
<1>3. CASE ManualStopped
  BY <1>3 DEF ManualStopped, ExitCodeOfBenchmark
<1>4. CASE exitCode' = exitCode \/ exitCode' = 1
  BY <1>4, <1>1 DEF ExitCodeOfBenchmark
<1>. QED
  BY <1>2, <1>3, <1>4
  DEF Next, MainStep, BeginStage, StartProcess, StartRaises, AllStarted, PortsOpen, PortsTimeout, Register,
      StageUp, StartDownload, SkipDownload, DownloadEnds, DownloadTimeout, HealthFails, HealthPoll, NotReady,
      Ready, ManualCheck, ManualChecked, BadBenchmark, BenchmarkRaises, StartBenchmark,
      BenchmarkRuns, BenchmarkStopped, BenchmarkGoesOn, ReportError, StopAndCleanup,
      PrintFailures, NothingToPrint, FailuresPrinted, Postprocess, PostprocessRaises, ReportCompleted, HandlerExits,
      MainWaits, MainWalks, MonitorStep, MonitorStops, MonitorChecks, MonitorSleeps, MonitorDetects,
      MonitorExits, MonitorWaits, MonitorWalks, Signal, ProcessExits, Ended, vars, svars

(* The strengthened invariant holds when run() enters its try block.       *)
LEMMA SInvInit == Init => SInv
<1> SUFFICES ASSUME Init PROVE SInv
  OBVIOUS
<1> USE SweepAssumption, NamesAssumption
<1>1. RInv
  BY RInvInit DEF Init
<1>2. TypeOK
  BY <1>1 DEF Init, TypeOK, RInv, InTry, Stage, NoBatch
<1>3. \A t \in Thread : call[t].op = "none"
  BY DEF Init, RInit, NoCall
<1>4. CallSites /\ OnlyManaged /\ QuietAfterCleanup /\ StopFirst /\ ExitCodeOfBenchmark
  BY <1>3 DEF Init, RInit, CallSites, OnlyManaged, QuietAfterCleanup, StopFirst, ExitCodeOfBenchmark
<1>. QED
  BY <1>1, <1>2, <1>4 DEF SInv

(* Every step of the run keeps the strengthened invariant.                 *)
LEMMA SInvStep == SInv /\ [Next]_vars => SInv'
<1> SUFFICES ASSUME SInv, [Next]_vars PROVE SInv'
  OBVIOUS
<1> USE DEF SInv
<1>1. RInv'
  BY StepIsRegistryStep, RInvStep
<1>2. TypeOK'
  BY TypeStep DEF RInv
<1>3. CallSites'
  BY CallSitesStep DEF RInv
<1>4. OnlyManaged'
  BY OnlyManagedStep DEF RInv
<1>5. QuietAfterCleanup' /\ StopFirst'
  BY QuietStep, StopStep
<1>6. ExitCodeOfBenchmark'
  BY ExitStep DEF RInv
<1>. QED
  BY <1>1, <1>2, <1>3, <1>4, <1>5, <1>6

(* The inductive invariant of the run, for any number of processes, names, *)
(* health polls and signals, at whatever point the signals arrive.         *)
THEOREM SweepInvariant == Spec => []SInv
BY SInvInit, SInvStep, PTL DEF Spec

(* The run uses the registry as its own specification allows: what is      *)
(* proved of the registry alone holds of it inside the run.                *)
THEOREM SweepImplementsRegistry == Spec => RSpec
<1>1. Init => RInit
  BY DEF Init
<1>2. SInv /\ [Next]_vars => [RNext]_rvars
  BY StepIsRegistryStep DEF SInv
<1>. QED
  BY <1>1, <1>2, SweepInvariant, PTL DEF Spec, RSpec

(* Type correctness of the run.                                            *)
THEOREM SweepTypeOK == Spec => []TypeOK
BY SweepInvariant, PTL DEF SInv

(* When run() is over nothing that was registered runs undisturbed.        *)
THEOREM SweepNoRegisteredSurvivor == Spec => []NoRegisteredSurvivor
<1>1. SInv => NoRegisteredSurvivor
  BY DEF SInv, QuietAfterCleanup, NoRegisteredSurvivor, Quiet
<1>. QED
  BY <1>1, SweepInvariant, PTL

(* Exit code 0 of a scripted run means its benchmark exited with 0.        *)
THEOREM SweepSuccessMeansBenchmarkPassed == Spec => []SuccessMeansBenchmarkPassed
<1>1. SInv => SuccessMeansBenchmarkPassed
  BY DEF SInv, ExitCodeOfBenchmark, SuccessMeansBenchmarkPassed
<1>. QED
  BY <1>1, SweepInvariant, PTL

(* Before stop_event is set only a process that exited by itself with a    *)
(* non-zero code is called failed.                                         *)
THEOREM SweepFailureBeforeStopIsGenuine == Spec => FailureBeforeStopIsGenuine
<1> DEFINE A == \A n \in failed' \ failed : ~stop => proc[reg[n]] = "failed"
<1>1. SInv /\ [Next]_vars => [A]_vars
  <2> SUFFICES ASSUME SInv, [Next]_vars, NEW n \in failed' \ failed, ~stop
               PROVE  proc[reg[n]] = "failed"
    OBVIOUS
  <2>1. [RNext]_rvars
    BY StepIsRegistryStep DEF SInv
  <2>2. \E t \in Thread : Poll(t)
    BY <2>1
    DEF RNext, rvars, Spawn, Exit, SignalUnregistered, CallAdd, CallCheck, CallCleanup, CallDetails,
        CleanupInstead, Acquire, Walk, AddProcess, CheckReturn, SkipExited, Terminate, WaitReturns,
        TermTimeout, KillTimeout, CleanupReturn, DetailsReturn
  <2>3. n \in Name /\ HasFailed(n)
    BY <2>2 DEF Poll, SInv, RInv, CallShape, RTypeOK, Call
  <2>4. reg[n] \in Managed
    BY <2>3, NamesAssumption DEF HasFailed, SInv, OnlyManaged
  <2>. QED
    BY <2>3, <2>4 DEF HasFailed, NonZero, SInv, StopFirst
<1>. QED
  BY <1>1, SweepInvariant, PTL DEF Spec, FailureBeforeStopIsGenuine

-----------------------------------------------------------------------------
(* The status the run has reported, by where the main thread is.           *)
StatusByPlace ==
    /\ main = "begin" =>
          status = [infra |-> "starting", workers |-> "starting",
                    frontend |-> "workers", telemetry |-> "frontend"][stage]
    /\ main \in {"spawn", "ports", "register"} =>
          status = [infra |-> "starting", workers |-> "workers",
                    frontend |-> "frontend", telemetry |-> "frontend"][stage]
    /\ main = "ports" => stage = "infra"
    /\ main \in {"download", "fetching", "fetchkill"} => status = "starting" /\ stage = "workers"
    /\ main \in {"health", "poll"} => status = "frontend"
    /\ main \in {"serve", "manual", "checked", "bench", "benchstop"} => status = "benchmark"
    /\ main \in InTry => exitCode = 1 /\ status \notin {"completed", "failed"}
    /\ main \in InFinally =>
          status # "completed" /\ (exitCode = 0 => status = "benchmark")

(* Every step keeps the status in its place and is a step of the lifecycle *)
(* or leaves the status alone, unless an upload reports it again.          *)
LEMMA StatusStep ==
    ASSUME TypeOK, StatusByPlace, [Next]_vars, ~Uploads
    PROVE  StatusByPlace' /\ [Lifecycle!LNext]_status
<1> USE DEF StatusByPlace, TypeOK, Stage, InTry, InFinally,
            Lifecycle!LNext, Lifecycle!Advance, Lifecycle!OnlyBenchmarkCompletes, Lifecycle!Order
<1>1. CASE UNCHANGED svars
  BY <1>1 DEF svars
<1>2. CASE BeginStage
  BY <1>2 DEF BeginStage, At
<1>3. CASE StartProcess \/ StartRaises \/ AllStarted \/ PortsOpen \/ PortsTimeout \/ Register
  BY <1>3 DEF StartProcess, StartRaises, AllStarted, PortsOpen, PortsTimeout, Register, At
<1>4. CASE StageUp
  BY <1>4 DEF StageUp, At
<1>5. CASE StartDownload \/ SkipDownload \/ DownloadEnds \/ DownloadTimeout
  BY <1>5 DEF StartDownload, SkipDownload, DownloadEnds, DownloadTimeout, At
<1>6. CASE HealthFails \/ HealthPoll \/ NotReady \/ Ready
  BY <1>6 DEF HealthFails, HealthPoll, NotReady, Ready, At
<1>7. CASE ManualStopped \/ ManualCheck \/ ManualChecked \/ BadBenchmark \/ BenchmarkRaises
  BY <1>7 DEF ManualStopped, ManualCheck, ManualChecked, BadBenchmark, BenchmarkRaises, At
<1>8. CASE StartBenchmark \/ BenchmarkEnds \/ BenchmarkRuns \/ BenchmarkStopped \/ BenchmarkGoesOn
  BY <1>8 DEF StartBenchmark, BenchmarkEnds, BenchmarkRuns, BenchmarkStopped, BenchmarkGoesOn, At
<1>9. CASE ReportError \/ StopAndCleanup \/ PrintFailures \/ NothingToPrint \/ FailuresPrinted
  BY <1>9 DEF ReportError, StopAndCleanup, PrintFailures, NothingToPrint, FailuresPrinted, At
<1>10. CASE Postprocess \/ PostprocessRaises \/ ReportCompleted
  BY <1>10 DEF Postprocess, PostprocessRaises, ReportCompleted, At
<1>11. CASE HandlerExits
  BY <1>11 DEF HandlerExits
<1>12. CASE Signal
  <2>1. CASE lock = "main"
    BY <1>12, <2>1 DEF Signal
  <2>2. CASE lock # "main"
    BY <1>12, <2>2 DEF Signal
  <2>. QED
    BY <2>1, <2>2
<1>13. CASE MonitorStep
  BY <1>13
  DEF MonitorStep, MonitorStops, MonitorChecks, MonitorSleeps, MonitorDetects, MonitorExits
<1>. QED
  BY <1>1, <1>2, <1>3, <1>4, <1>5, <1>6, <1>7, <1>8, <1>9, <1>10, <1>11, <1>12, <1>13
  DEF Next, MainStep, MainWaits, MainWalks, MonitorWaits, MonitorWalks, ProcessExits, Ended, vars

(* Without uploads the statuses the run reports follow the lifecycle,      *)
(* whatever fails, whatever is signalled and whenever.                     *)
THEOREM SweepFollowsLifecycle == ~Uploads => (Spec => LifecycleSpec)
<1> SUFFICES ASSUME ~Uploads PROVE Spec => LifecycleSpec
  OBVIOUS
<1>1. Init => StatusByPlace /\ Lifecycle!LInit
  BY DEF Init, StatusByPlace, Lifecycle!LInit, InTry, InFinally
<1>2. TypeOK /\ StatusByPlace /\ [Next]_vars => StatusByPlace' /\ [Lifecycle!LNext]_status
  BY StatusStep
<1>. QED
  BY <1>1, <1>2, SweepTypeOK, PTL DEF Spec, LifecycleSpec, Lifecycle!LSpec

-----------------------------------------------------------------------------
(* Only a signal can take the main thread away from a running benchmark.   *)
BenchmarkWatched ==
    /\ handling \/ main = "hung" => signals > 0
    /\ signals = 0 /\ main \notin {"bench", "benchstop"} => proc[Bench] # "running"

(* Every step keeps the benchmark watched.                                 *)
LEMMA WatchedStep ==
    ASSUME SInv, BenchmarkWatched, [Next]_vars
    PROVE  BenchmarkWatched'
<1> USE SweepAssumption DEF SInv, TypeOK, BenchmarkWatched
<1>0. [RNext]_rvars /\ CallShape /\ RTypeOK
  BY StepIsRegistryStep DEF RInv
<1>1. CASE StartBenchmark
  BY <1>1 DEF StartBenchmark, At
<1>2. CASE BenchmarkEnds \/ BenchmarkStopped \/ BenchmarkRuns \/ BenchmarkGoesOn
  BY <1>2, <1>0
  DEF BenchmarkEnds, BenchmarkStopped, BenchmarkRuns, BenchmarkGoesOn, Alive, Terminated, At, rvars, RTypeOK
<1>3. CASE Signal
  BY <1>3 DEF Signal
<1>4. ASSUME proc'[Bench] = "running" => proc[Bench] = "running",
             main' = main \/ ~handling \/ signals > 0,
             main \in {"bench", "benchstop"} => main' = main \/ signals > 0,
             signals' = signals, handling' => handling, main' = "hung" => main = "hung"
      PROVE  BenchmarkWatched'
  BY <1>4
<1>5. ~StartBenchmark => (proc'[Bench] = "running" => proc[Bench] = "running")
  <2> SUFFICES ASSUME proc[Bench] = "none", ~StartBenchmark PROVE proc'[Bench] # "running"
    BY <1>0, NoResurrection DEF RTypeOK
  <2>1. ASSUME NEW p \in Managed \cup {Download}, Spawn(p) PROVE proc'[Bench] # "running"
    BY <2>1 DEF Spawn, RTypeOK
  <2>2. ASSUME NEW p \in Proc, Exit(p) PROVE proc'[Bench] # "running"
    BY <2>2 DEF Exit, Exited, NonZero, RTypeOK
  <2>3. ASSUME NEW p \in Proc, proc' \in {Terminated(p), Killed(p)} PROVE proc'[Bench] # "running"
    BY <2>3 DEF Terminated, Killed, RTypeOK
  <2>4. ASSUME NEW t \in Thread, Acquire(t) \/ Walk(t) PROVE proc'[Bench] # "running"
    BY <2>4, <1>0
    DEF Acquire, Walk, AddProcess, Poll, CheckReturn, SkipExited, Terminate, WaitReturns, TermTimeout,
        KillTimeout, CleanupReturn, DetailsReturn, Holding, Terminated, Killed, RTypeOK
  <2>. QED
    BY <2>1, <2>2, <2>3, <2>4
    DEF Next, MainStep, BeginStage, StartProcess, Unstarted, Launch, StartRaises, AllStarted, PortsOpen,
        PortsTimeout, Register, StageUp, StartDownload, SkipDownload, DownloadEnds, DownloadTimeout,
        HealthFails, HealthPoll, NotReady, Ready, ManualStopped, ManualCheck, ManualChecked, BadBenchmark,
        BenchmarkRaises, BenchmarkEnds, BenchmarkRuns, BenchmarkStopped, BenchmarkGoesOn, ReportError,
        StopAndCleanup, PrintFailures, NothingToPrint, FailuresPrinted, Postprocess, PostprocessRaises, ReportCompleted,
        HandlerExits, MainWaits, MainWalks, MonitorStep, MonitorStops, MonitorChecks, MonitorSleeps,
        MonitorDetects, MonitorExits, MonitorWaits, MonitorWalks, Signal, CleanupInstead, ProcessExits,
        Ended, vars, rvars, CallAdd, CallCheck, CallCleanup, CallDetails
<1>. QED
  BY <1>1, <1>2, <1>3, <1>4, <1>5
  DEF Next, MainStep, At, BeginStage, StartProcess, StartRaises, AllStarted, PortsOpen, PortsTimeout, Register,
      StageUp, StartDownload, SkipDownload, DownloadEnds, DownloadTimeout, HealthFails, HealthPoll, NotReady,
      Ready, ManualStopped, ManualCheck, ManualChecked, BadBenchmark, BenchmarkRaises, ReportError,
      StopAndCleanup, PrintFailures, NothingToPrint, FailuresPrinted, Postprocess, PostprocessRaises, ReportCompleted,
      HandlerExits, MainWaits, MainWalks, MonitorStep, MonitorStops, MonitorChecks, MonitorSleeps,
      MonitorDetects, MonitorExits, MonitorWaits, MonitorWalks, ProcessExits, Ended, vars, svars

(* A run that no signal reaches leaves no benchmark running undisturbed.   *)
THEOREM SweepBenchmarkNotAbandoned == Spec => []BenchmarkNotAbandoned
<1>1. Init => BenchmarkWatched
  BY SweepAssumption DEF Init, RInit, BenchmarkWatched
<1>2. SInv /\ BenchmarkWatched /\ [Next]_vars => BenchmarkWatched'
  BY WatchedStep
<1>3. BenchmarkWatched => BenchmarkNotAbandoned
  BY DEF BenchmarkWatched, BenchmarkNotAbandoned
<1>. QED
  BY <1>1, <1>2, <1>3, SweepInvariant, PTL DEF Spec

-----------------------------------------------------------------------------
(* Until the outcome is reported no status is an outcome that the run does *)
(* not have, and a benchmark that passed is still reported as running.     *)
LastReport ==
    /\ StatusByPlace
    /\ escaped => main = "done"
    /\ handling => main # "done"
    /\ OutcomeReported

(* Every step keeps it.                                                    *)
LEMMA LastReportStep ==
    ASSUME TypeOK, LastReport, [Next]_vars
    PROVE  LastReport'
<1> USE DEF LastReport, OutcomeReported, StatusByPlace, TypeOK, Stage, InTry, InFinally
<1>1. CASE UNCHANGED svars
  BY <1>1 DEF svars
<1>2. CASE BeginStage
  BY <1>2 DEF BeginStage, At
<1>3. CASE StartProcess \/ StartRaises \/ AllStarted \/ PortsOpen \/ PortsTimeout \/ Register
  BY <1>3 DEF StartProcess, StartRaises, AllStarted, PortsOpen, PortsTimeout, Register, At
<1>4. CASE StageUp
  BY <1>4 DEF StageUp, At
<1>5. CASE StartDownload \/ SkipDownload \/ DownloadEnds \/ DownloadTimeout
  BY <1>5 DEF StartDownload, SkipDownload, DownloadEnds, DownloadTimeout, At
<1>6. CASE HealthFails \/ HealthPoll \/ NotReady \/ Ready
  BY <1>6 DEF HealthFails, HealthPoll, NotReady, Ready, At
<1>7. CASE ManualStopped \/ ManualCheck \/ ManualChecked \/ BadBenchmark \/ BenchmarkRaises
  BY <1>7 DEF ManualStopped, ManualCheck, ManualChecked, BadBenchmark, BenchmarkRaises, At
<1>8. CASE StartBenchmark \/ BenchmarkEnds \/ BenchmarkRuns \/ BenchmarkStopped \/ BenchmarkGoesOn
  BY <1>8 DEF StartBenchmark, BenchmarkEnds, BenchmarkRuns, BenchmarkStopped, BenchmarkGoesOn, At
<1>9. CASE ReportError \/ StopAndCleanup \/ PrintFailures \/ NothingToPrint \/ FailuresPrinted
  BY <1>9 DEF ReportError, StopAndCleanup, PrintFailures, NothingToPrint, FailuresPrinted, At
<1>10. CASE Postprocess \/ PostprocessRaises \/ ReportCompleted
  BY <1>10 DEF Postprocess, PostprocessRaises, ReportCompleted, At
<1>11. CASE HandlerExits
  <2>1. CASE main \in InTry
    <3>1. main' = "finally" /\ ~escaped' /\ ~handling' /\ UNCHANGED <<stage, exitCode, status>>
      BY <1>11, <2>1 DEF HandlerExits
    <3>. QED
      BY <2>1, <3>1
  <2>2. CASE main \in InFinally
    <3>1. main' = "done" /\ escaped' /\ ~handling' /\ UNCHANGED <<stage, exitCode, status>>
      BY <1>11, <2>2 DEF HandlerExits
    <3>. QED
      BY <2>2, <3>1
  <2>. QED
    BY <1>11, <2>1, <2>2 DEF HandlerExits
<1>12. CASE Signal
  <2>1. CASE lock = "main"
    BY <1>12, <2>1 DEF Signal
  <2>2. CASE lock # "main"
    BY <1>12, <2>2 DEF Signal
  <2>. QED
    BY <2>1, <2>2
<1>13. CASE MonitorStep
  BY <1>13
  DEF MonitorStep, MonitorStops, MonitorChecks, MonitorSleeps, MonitorDetects, MonitorExits
<1>. QED
  BY <1>1, <1>2, <1>3, <1>4, <1>5, <1>6, <1>7, <1>8, <1>9, <1>10, <1>11, <1>12, <1>13
  DEF Next, MainStep, MainWaits, MainWalks, MonitorWaits, MonitorWalks, ProcessExits, Ended, vars

(* run() reports its outcome last, unless an exception leaves its finally  *)
(* block: then no outcome is reported that the run does not have.          *)
THEOREM SweepOutcomeReported == Spec => []OutcomeReported
<1>1. Init => LastReport
  BY DEF Init, LastReport, OutcomeReported, StatusByPlace, InTry, InFinally
<1>2. TypeOK /\ LastReport /\ [Next]_vars => LastReport'
  BY LastReportStep
<1>3. LastReport => OutcomeReported
  BY DEF LastReport
<1>. QED
  BY <1>1, <1>2, <1>3, SweepTypeOK, PTL DEF Spec

-----------------------------------------------------------------------------
(* The handle of each started process is in the table, with the stage that *)
(* started it, or on its way from the one to the other.                    *)
Held(p) ==
    \/ reg[NameOf[p]] = p
    \/ batch[NameOf[p]] = p
    \/ call["main"].op = "add" /\ call["main"].arg = p

BringingUp ==
    /\ ~handling
    /\ main \in {"begin", "spawn", "ports", "register", "download", "fetching", "fetchkill"}

(* As long as stages are brought up no handle is lost, and those of the    *)
(* stages before the present one are in the table.                         *)
StagesHeld ==
    /\ \A n \in Name : batch[n] # NoProc => NameOf[batch[n]] = n
    /\ BringingUp => \A p \in Managed : proc[p] # "none" => Held(p)
    /\ \A p \in Managed : proc[p] # "none" => p \in Launch(stage) \/ reg[NameOf[p]] = p

(* No two handles of the stages have one name: what the data-parallel      *)
(* ranks of a vLLM worker on one node do not give (worker_stage.py:218).   *)
NamesDiffer == \A p, q \in Managed : NameOf[p] = NameOf[q] => p = q

(* A process of a stage is started where the stages start theirs.          *)
LEMMA OnlyStarted ==
    ASSUME SInv, [Next]_vars, NEW p \in Managed, proc[p] = "none", proc'[p] # "none"
    PROVE  StartProcess
<1> USE SweepAssumption DEF SInv, RInv, TypeOK
<1> SUFFICES ASSUME ~StartProcess PROVE proc'[p] = "none"
  OBVIOUS
<1>1. ASSUME NEW q \in {Bench, Download}, Spawn(q) PROVE proc'[p] = "none"
  BY <1>1 DEF Spawn, RTypeOK
<1>2. ASSUME NEW q \in Proc, Exit(q) PROVE proc'[p] = "none"
  BY <1>2 DEF Exit, Ends, RTypeOK
<1>3. ASSUME NEW q \in Proc, proc' \in {Terminated(q), Killed(q)} PROVE proc'[p] = "none"
  BY <1>3 DEF Terminated, Killed, Alive, RTypeOK
<1>4. ASSUME NEW t \in Thread, Acquire(t) \/ Walk(t) PROVE proc'[p] = "none"
  BY <1>4
  DEF Acquire, Walk, AddProcess, Poll, CheckReturn, SkipExited, Terminate, WaitReturns, TermTimeout,
      KillTimeout, CleanupReturn, DetailsReturn, Holding, Terminated, Killed, Alive, RTypeOK
<1>. QED
  BY <1>1, <1>2, <1>3, <1>4
  DEF Next, MainStep, BeginStage, StartRaises, AllStarted, PortsOpen,
      PortsTimeout, Register, StageUp, StartDownload, SkipDownload, DownloadEnds, DownloadTimeout,
      HealthFails, HealthPoll, NotReady, Ready, ManualStopped, ManualCheck, ManualChecked, BadBenchmark,
      BenchmarkRaises, StartBenchmark, BenchmarkEnds, BenchmarkRuns, BenchmarkStopped, BenchmarkGoesOn,
      ReportError, StopAndCleanup, PrintFailures, NothingToPrint, FailuresPrinted, Postprocess, PostprocessRaises,
      ReportCompleted, HandlerExits, MainWaits, MainWalks, MonitorStep, MonitorStops, MonitorChecks,
      MonitorSleeps, MonitorDetects, MonitorExits, MonitorWaits, MonitorWalks, Signal, CleanupInstead,
      ProcessExits, Ended, vars, rvars, CallAdd, CallCheck, CallCleanup, CallDetails

(* With names that differ, what is in the table stays there.               *)
LEMMA RegisteredStays ==
    ASSUME NamesDiffer, SInv, [Next]_vars, NEW p \in Managed, reg[NameOf[p]] = p
    PROVE  reg'[NameOf[p]] = p
<1> USE SweepAssumption, NamesAssumption
<1>1. reg' = reg \/ \E t \in Thread : AddProcess(t)
  BY StepIsRegistryStep, TableStep DEF SInv, RInv
<1>2. ASSUME NEW t \in Thread, AddProcess(t) PROVE reg'[NameOf[p]] = p
  <2>1. call[t].arg \in Managed /\ reg' = [reg EXCEPT ![NameOf[call[t].arg]] = call[t].arg]
    BY <1>2 DEF AddProcess, Holding, SInv, CallSites
  <2>. QED
    BY <2>1 DEF NamesDiffer, SInv, RInv, RTypeOK
<1>. QED
  BY <1>1, <1>2

(* What a step does to the handle the main thread is registering.          *)
LEMMA AddStep ==
    ASSUME SInv, [Next]_vars, call["main"].op = "add", ~Signal
    PROVE  \/ call'["main"].op = "add" /\ call'["main"].arg = call["main"].arg
           \/ reg'[NameOf[call["main"].arg]] = call["main"].arg
<1> USE SweepAssumption, NamesAssumption DEF SInv, RInv
<1>0. "main" \in Thread /\ "monitor" \in Thread \ {"main"} /\ "main" \in Thread \ {"monitor"}
      /\ InCall("main") /\ ~handling /\ call["main"].at \notin {"term", "kill"}
  BY DEF InCall, CallSites, CallShape
<1>1. CASE call'["main"] = call["main"]
  BY <1>1
<1>2. CASE MainWaits
  BY <1>0, <1>2, OwnCall DEF MainWaits
<1>3. CASE MainWalks
  <2>1. AddProcess("main")
    BY <1>0, <1>3
    DEF MainWalks, Walk, Poll, CheckReturn, SkipExited, Terminate, WaitReturns, TermTimeout, KillTimeout,
        CleanupReturn, DetailsReturn, Holding
  <2>2. call["main"].arg \in Proc
    BY DEF CallSites
  <2>. QED
    BY <2>1, <2>2 DEF AddProcess, RTypeOK
<1>4. CASE MonitorStep \/ MonitorWaits \/ MonitorWalks
  <2>1. call'["main"] = call["main"]
    BY <1>0, <1>4, OtherCalls
    DEF MonitorStep, MonitorStops, MonitorChecks, MonitorSleeps, MonitorDetects, MonitorExits,
        MonitorWaits, MonitorWalks, CallCheck, CallCleanup, rvars
  <2>. QED
    BY <2>1
<1>5. CASE MainStep
  BY <1>0, <1>5
  DEF MainStep, At, BeginStage, StartProcess, StartRaises, AllStarted, PortsOpen, PortsTimeout, Register,
      StageUp, StartDownload, SkipDownload, DownloadEnds, DownloadTimeout, HealthFails, HealthPoll, NotReady,
      Ready, ManualStopped, ManualCheck, ManualChecked, BadBenchmark, BenchmarkRaises, StartBenchmark,
      BenchmarkEnds, BenchmarkRuns, BenchmarkStopped, BenchmarkGoesOn, ReportError, StopAndCleanup,
      PrintFailures, NothingToPrint, FailuresPrinted, Postprocess, PostprocessRaises, ReportCompleted, HandlerExits
<1>. QED
  BY <1>1, <1>2, <1>3, <1>4, <1>5 DEF Next, ProcessExits, Exit, Ended, vars, rvars

(* Every step keeps the handles of the stages held.                        *)
LEMMA HeldStep ==
    ASSUME NamesDiffer, SInv, StagesHeld, [Next]_vars
    PROVE  StagesHeld'
<1> USE SweepAssumption, NamesAssumption
<1>0. TypeOK /\ RTypeOK /\ CallSites
  BY DEF SInv, RInv
<1>1. \A p \in Managed : reg[NameOf[p]] = p => reg'[NameOf[p]] = p
  BY RegisteredStays
<1>2. \A p \in Managed : proc[p] = "none" => proc'[p] = "none" \/ StartProcess
  BY OnlyStarted
<1>3. ASSUME batch' = batch \/ batch' = NoBatch, stage' = stage, ~StartProcess,
             BringingUp' => BringingUp /\ batch' = batch /\ ~Signal
                            /\ (call["main"].op = "add" \/ UNCHANGED call \/ ~Register)
      PROVE  StagesHeld'
  <2>1. \A n \in Name : batch'[n] # NoProc => NameOf[batch'[n]] = n
    BY <1>3 DEF StagesHeld, NoBatch
  <2>2. \A p \in Managed : proc'[p] # "none" => p \in Launch(stage)' \/ reg'[NameOf[p]] = p
    BY <1>1, <1>2, <1>3 DEF StagesHeld, Launch
  <2>3. ASSUME BringingUp', NEW p \in Managed, proc'[p] # "none" PROVE Held(p)'
    <3>1. Held(p)
      BY <1>2, <1>3, <2>3 DEF StagesHeld
    <3>. QED
      BY <3>1, <1>1, <1>3, <2>3, AddStep DEF Held
  <2>. QED
    BY <2>1, <2>2, <2>3 DEF StagesHeld
<1>4. CASE StartProcess
  <2>1. PICK p \in Launch(stage) : Spawn(p) /\ batch' = [batch EXCEPT ![NameOf[p]] = p]
    BY <1>4 DEF StartProcess, Unstarted
  <2>2. p \in Managed /\ NameOf[p] \in Name /\ BringingUp /\ UNCHANGED <<stage, reg, call>>
    BY <1>4, <2>1 DEF StartProcess, At, BringingUp, Spawn, Launch
  <2>3. \A q \in Managed \ {p} : proc'[q] = proc[q] /\ batch'[NameOf[q]] = batch[NameOf[q]]
    BY <1>0, <2>1, <2>2 DEF Spawn, NamesDiffer, TypeOK, RTypeOK
  <2>4. batch'[NameOf[p]] = p /\ \A n \in Name \ {NameOf[p]} : batch'[n] = batch[n]
    BY <1>0, <2>1, <2>2 DEF TypeOK
  <2>. QED
    BY <2>1, <2>2, <2>3, <2>4 DEF StagesHeld, Held, Launch
<1>5. CASE Register
  <2>1. PICK n \in Name : batch[n] # NoProc /\ CallAdd("main", batch[n])
                          /\ batch' = [batch EXCEPT ![n] = NoProc]
    BY <1>5 DEF Register
  <2>2. call["main"].op = "none" /\ call'["main"] = CallTo("add", batch[n]) /\ UNCHANGED <<reg, proc, stage>>
    BY <1>0, <1>5, <2>1, OwnCall DEF CallAdd, Register
  <2>3. BringingUp /\ UNCHANGED <<main, handling>> /\ NameOf[batch[n]] = n
    BY <1>5, <2>1 DEF Register, At, BringingUp, StagesHeld
  <2>4. batch'[n] = NoProc /\ \A m \in Name \ {n} : batch'[m] = batch[m]
    BY <1>0, <2>1 DEF TypeOK
  <2>5. ASSUME NEW p \in Managed, proc[p] # "none" PROVE Held(p)'
    <3>1. Held(p)
      BY <2>3, <2>5 DEF StagesHeld
    <3>2. NameOf[p] \in Name
      OBVIOUS
    <3>. QED
      BY <2>1, <2>2, <2>4, <3>1, <3>2 DEF Held, CallTo
  <2>. QED
    BY <2>2, <2>3, <2>4, <2>5 DEF StagesHeld, Launch
<1>6. CASE StageUp
  <2>1. /\ BringingUp /\ call["main"].op = "none" /\ UNCHANGED <<reg, proc, call, batch>>
        /\ \A n \in Name : batch[n] = NoProc
    BY <1>6 DEF StageUp, At, InCall, BringingUp, rvars, NoBatch
  <2>2. \A p \in Managed : proc[p] # "none" => reg[NameOf[p]] = p
    BY <2>1 DEF StagesHeld, Held
  <2>. QED
    BY <2>1, <2>2 DEF StagesHeld, Held
<1>7. CASE BeginStage \/ AllStarted \/ PortsOpen \/ StartDownload \/ SkipDownload
           \/ DownloadEnds \/ DownloadTimeout
  BY <1>3, <1>7
  DEF BeginStage, AllStarted, PortsOpen, StartDownload, SkipDownload, DownloadEnds, DownloadTimeout,
      At, BringingUp, InCall, Signal, StartProcess, Register
<1>8. ASSUME ~BringingUp', batch' = batch \/ batch' = NoBatch, stage' = stage, ~StartProcess
      PROVE  StagesHeld'
  BY <1>3, <1>8
<1>9. CASE MainStep
  BY <1>4, <1>5, <1>6, <1>7, <1>8, <1>9
  DEF MainStep, At, BringingUp, StartRaises, PortsTimeout, HealthFails, HealthPoll, NotReady,
      Ready, ManualStopped, ManualCheck, ManualChecked, BadBenchmark, BenchmarkRaises, StartBenchmark,
      BenchmarkEnds, BenchmarkRuns, BenchmarkStopped, BenchmarkGoesOn, ReportError, StopAndCleanup,
      PrintFailures, NothingToPrint, FailuresPrinted, Postprocess, PostprocessRaises, ReportCompleted, HandlerExits, InTry
<1>10. CASE Signal
  <2>1. ~BringingUp' /\ stage' = stage /\ batch' = batch
    BY <1>10 DEF Signal, BringingUp
  <2>2. ~StartProcess \/ StagesHeld'
    BY <1>4
  <2>. QED
    BY <2>1, <2>2, <1>8
<1>11. CASE UNCHANGED svars \/ MonitorStep
  <2>1. UNCHANGED <<main, stage, batch, handling>>
    BY <1>11
    DEF svars, MonitorStep, MonitorStops, MonitorChecks, MonitorSleeps, MonitorDetects, MonitorExits
  <2>2. ~Signal \/ StagesHeld'
    BY <1>10
  <2>3. ~StartProcess \/ StagesHeld'
    BY <1>4
  <2>4. ~Register \/ StagesHeld'
    BY <1>5
  <2>. QED
    BY <2>1, <2>2, <2>3, <2>4, <1>3 DEF BringingUp
<1>. QED
  BY <1>9, <1>10, <1>11
  DEF Next, MainWaits, MainWalks, MonitorWaits, MonitorWalks, ProcessExits, Ended, vars

(* Whatever fails and whatever is signalled, a run whose names differ      *)
(* leaves no process running undisturbed but of the stage it was at.       *)
THEOREM SweepOnlyItsStageIsLeft == NamesDiffer => (Spec => []OnlyItsStageIsLeft)
<1> SUFFICES ASSUME NamesDiffer PROVE Spec => []OnlyItsStageIsLeft
  OBVIOUS
<1>1. Init => StagesHeld
  BY SweepAssumption, NamesAssumption DEF Init, RInit, StagesHeld, NoBatch
<1>2. SInv /\ StagesHeld /\ [Next]_vars => StagesHeld'
  BY HeldStep
<1>3. SInv /\ StagesHeld => OnlyItsStageIsLeft
  BY SweepAssumption, NamesAssumption
  DEF SInv, QuietAfterCleanup, Quiet, Registered, StagesHeld, OnlyItsStageIsLeft
<1>. QED
  BY <1>1, <1>2, <1>3, SweepInvariant, PTL DEF Spec

=============================================================================

------------------------------- MODULE Artifacts -------------------------------
(***************************************************************************)
(* What a job leaves behind: the lock file, the fingerprints of its        *)
(* workers, the reproduction report, the upload and its pointer, and how a *)
(* lock file is used as the recipe of a next job.                          *)
(*                                                                         *)
(* Sources: core/lockfile.py, core/fingerprint.py, the identity check of   *)
(* cli/mixins/benchmark_stage.py, cli/mixins/postprocess_stage.py.  Actors *)
(* are the orchestrator (pc), the worker tasks, which write fingerprints   *)
(* on other nodes, and the container or analyzer that post-processing      *)
(* waits for (proc).  The stages between the launch of the workers and the *)
(* end of the run are those of Sweep and reduced to a step.                *)
(*                                                                         *)
(* The text of a lock file is a sequence of kinds of lines; "key" is a     *)
(* line of the recipe that means something.  A file that is being written, *)
(* or whose writer was killed, holds a prefix of its text.                 *)
(***************************************************************************)
EXTENDS Fingerprint, FiniteSetsExt

CONSTANTS Recipes,      \* the recipes a first job may have: texts
          Variants,     \* the variants of an override file
          Environments, \* name -> an environment of a worker (see Fingerprint)
          Captures,     \* worker -> what it may capture: [env, failing probes]
          Tasks,        \* the processes of all workers; several may be one worker's
          WorkerOf,     \* the worker (a number) of a task
          Serves,       \* the tasks that register with the frontend; the health check
          Expected,     \*   waits until it has heard of so many of them
          Replaced,     \* the tasks whose handle another of the same name has replaced
          Identity,     \* the identity that the recipe declares
          Cuts,         \* after how many lines a write may stop half way
          Configured,   \* the jobs run where S3 and the analyzer are configured
          LateAt,       \* bound: where in post-processing a task may still write
          LateJobs,     \* bound: the jobs that leave tasks running
          MaxJobs       \* bound: jobs in a row, each from the lock of the last

ASSUME ArtifactsAssumption ==
    /\ WorkerOf \in [Tasks -> Nat]
    /\ Serves \subseteq Tasks /\ Replaced \subseteq Tasks /\ Expected \in Nat
    /\ MaxJobs \in Nat /\ Cuts \subseteq Nat
    /\ \A r \in Recipes : r \in Seq({"key", "base", "blank", "banner"})

VARIABLES
    pc,           \* where the orchestrator is
    job,          \* how many jobs there have been
    conf,         \* config.yaml in the output directory
    variant,      \* the configuration the job runs
    loaded,       \* the lock section its recipe came with
    task,         \* what each worker task does about its fingerprint
    file,         \* the fingerprint file of each worker
    verification, \* the results of the identity check
    lock,         \* recipe.lock.yaml
    logs,         \* what post-processing has put in the log directory
    proc,         \* the process that post-processing waits for
    url,          \* whether run_postprocess has the URL of the upload
    told,         \* which of the reports had the URL: "artifacts", "completed"
    \* history
    author,       \* the recipe of the first job
    uploaded,     \* the artifacts of the log directory in a complete upload, and "end"
    settled,      \* the workers that had no fingerprint to write any more at the check
    origin        \* the lock file and variant of the job this one is a re-run of; and
                  \* whether every lock file since the first job was whole

vars == <<pc, job, conf, variant, loaded, task, file, verification, lock, logs, proc, url, told, author, uploaded, origin, settled>>

Workers == {WorkerOf[t] : t \in Tasks}

\* An environment is one that the probes can find: the driver is the kernel's, so
\* all GPUs of a machine report the same one; "?" is no version of a framework.  Only
\* what is asked of an interpreter may have two answers.
ASSUME EnvironmentsAssumption ==
    /\ DriverField \notin Scalars
    /\ \A w \in Workers : \A c \in Captures[w] : c.env \in DOMAIN Environments
    /\ \A name \in DOMAIN Environments :
          LET e == Environments[name] IN
          /\ e.gpus \in Seq([name : STRING, driver : STRING])
          /\ \A i, j \in DOMAIN e.gpus : e.gpus[i].driver = e.gpus[j].driver
          /\ LET frameworks == e.python["worker"].frameworks
             IN  \A n \in DOMAIN frameworks : frameworks[n] # "?"
          /\ e.pip \in [ToSet(Sources) -> Seq([name : DOMAIN Lower, version : STRING])]

--------------------------------------------------------------------------------
(* Fingerprint files.  The fingerprint of a capture c is what the worker's   *)
(* script finds in the environment c.env when the probes c.failing fail.     *)

FpOf(c) == WorkerCapture(Environments[c.env], c.failing)
Absent == [kind |-> "absent"]
Half   == [kind |-> "half"]
Written(c) == [kind |-> "whole", capture |-> c]

\* A mutant of Collect: a file that is not complete counts as an empty capture.
CollectHalves(files) ==
    [w \in {w \in Workers : files[w].kind # "absent"} |->
        IF files[w].kind = "whole" THEN files[w].capture
        ELSE CHOOSE c \in Captures[w] : TRUE]

\* collect_worker_fingerprints: files that are missing or do not parse are skipped.
Collect(files) == [w \in {w \in Workers : files[w].kind = "whole"} |-> files[w].capture]

Fingerprints(captures) == [w \in DOMAIN captures |-> FpOf(captures[w])]

--------------------------------------------------------------------------------
(* The text of a lock file.                                                 *)

WithoutTrailing(text, kinds) == SubSeq(text, 1, Max({0} \cup {i \in DOMAIN text : text[i] \notin kinds}))

LockSection == <<"blank", "banner", "marker", "banner", "lock", "entry", "integrity">>

\* A mutant of StripLock: the old section stays.
StripNothing(text) == text

\* _strip_lock_section: everything from the marker or `lock:` on, and the blank
\* lines and the banner before it.
StripLock(text) ==
    LET at == SelectInSeq(text, LAMBDA l : l \in {"marker", "lock"})
    IN  IF at = 0 THEN text
        ELSE WithoutTrailing(SubSeq(text, 1, at - 1), {"blank", "banner"})

\* write_lockfile: the recipe without an earlier lock section, and the new one.
\* (The job has read its configuration from the same directory, so config.yaml
\* is there; the fallback for a directory without one is left out.)
LockText(text) == WithoutTrailing(StripLock(text), {"blank"}) \o LockSection

\* A mutant of IntegrityHolds: a section without a hash is taken for good.
IntegrityUnlessMissing(text) == "lock" \in ToSet(text)

\* verify_lock_integrity: the hash is the last entry; without it the check fails.
IntegrityHolds(text) == "integrity" \in ToSet(text)

NoLock == [text |-> << >>, job |-> 0, captures |-> << >>, results |-> {}]
NoOrigin == [whole |-> FALSE, unbroken |-> TRUE, captures |-> << >>, variant |-> "none"]

\* load_config on a lock file: its lock section, kept for the comparison.
NotLoaded == [verified |-> FALSE, captures |-> << >>, given |-> FALSE]
Section(l) == IF "lock" \in ToSet(l.text)
              THEN [verified |-> IntegrityHolds(l.text), given |-> TRUE,
                    captures |-> IF "entry" \in ToSet(l.text) THEN l.captures ELSE << >>]
              ELSE NotLoaded

\* An override file: apply submits its variants, each merged from `base`.
IsOverrideFile(text) == "base" \in ToSet(text)

Whole(l) == l.text # << >> /\ Last(l.text) = "integrity"

--------------------------------------------------------------------------------
(* A job starts: from a recipe, or from the lock file of the job before it. *)

NoTasks == [t \in Tasks |-> "idle"]
NoFiles == [w \in Workers |-> Absent]

\* What a text makes apply submit: a plain recipe is loaded with its lock
\* section; of an override file each variant is a job, and what load_config
\* loads is the merged variant, which has no lock section.
Submits(l, v, section) ==
    IF IsOverrideFile(l.text) THEN v \in Variants /\ section = NotLoaded
    ELSE v = "recipe" /\ section = Section(l)

Init ==
    /\ pc = "submitted" /\ job = 1
    /\ author \in Recipes /\ conf = author
    /\ \E v \in Variants \cup {"recipe"} :
          Submits([NoLock EXCEPT !.text = author], v, NotLoaded) /\ variant = v
    /\ loaded = NotLoaded /\ origin = NoOrigin
    /\ task = NoTasks /\ file = NoFiles /\ verification = {} /\ lock = NoLock /\ logs = {}
    /\ proc = "none" /\ url = FALSE /\ told = {} /\ uploaded = {} /\ settled = {}

\* apply -f recipe.lock.yaml, after the job is over; what is left of an empty
\* file or of one without a key of the recipe is refused.
Rerun ==
    /\ pc \in {"over", "killed"} /\ job < MaxJobs
    /\ ToSet(lock.text) \cap {"key", "base"} # {}
    /\ \E v \in Variants \cup {"recipe"}, s \in {NotLoaded, Section(lock)} :
          Submits(lock, v, s) /\ variant' = v /\ loaded' = s
    /\ pc' = "submitted" /\ job' = job + 1 /\ conf' = lock.text
    /\ origin' = [whole |-> Whole(lock), unbroken |-> Whole(lock) /\ origin.unbroken,
                  captures |-> IF Whole(lock) THEN lock.captures ELSE << >>, variant |-> variant]
    /\ task' = NoTasks /\ file' = NoFiles /\ verification' = {} /\ lock' = NoLock /\ logs' = {}
    /\ proc' = "none" /\ url' = FALSE /\ told' = {} /\ uploaded' = {} /\ settled' = {}
    /\ UNCHANGED author

--------------------------------------------------------------------------------
(* write_lockfile, in place: the file is truncated, then filled; the writer *)
(* may be killed or fail in between, which leaves a prefix.                  *)

NewLock(results) ==
    [text |-> LockText(conf), job |-> job, results |-> results,
     captures |-> IF pc = "submitted" THEN << >> ELSE Collect(file)]

Torn(text) == {SubSeq(text, 1, n) : n \in {n \in Cuts : n < Len(text)}}

\* Both writes go through it: `next` is where the orchestrator is afterwards.
WriteLock(next) ==
    /\ \/ lock' = lock                                    \* it failed before the file was opened
       \/ lock' = NewLock(verification)
       \/ \E p \in Torn(LockText(conf)) : lock' = [NewLock(verification) EXCEPT !.text = p]
    /\ pc' = next
    /\ UNCHANGED <<job, conf, variant, loaded, task, file, verification, logs, proc,
                   url, told, author, uploaded, origin, settled>>

StartRun == pc = "submitted" /\ WriteLock("workers")

--------------------------------------------------------------------------------
(* The workers capture and write their fingerprints before they serve: all  *)
(* the processes of a worker write the same file.  One that is not stopped  *)
(* may still do so after the run, until the end of the job stops all.       *)

Running == pc \in {"workers", "serving"} \cup (LateAt \ {"submitted", "over", "killed"})

OpenFile(t) ==
    /\ Running /\ task[t] = "idle"
    /\ task' = [task EXCEPT ![t] = "open"]
    /\ file' = [file EXCEPT ![WorkerOf[t]] = Half]
    /\ UNCHANGED <<pc, job, conf, variant, loaded, verification, lock, logs, proc, url,
                   told, author, uploaded, origin, settled>>

\* Over another process's text the new one may be shorter: then the rest of
\* the old one follows it, and the file is not JSON.
WriteFile(t) ==
    /\ Running /\ task[t] = "open"
    /\ task' = [task EXCEPT ![t] = "done"]
    /\ LET w == WorkerOf[t] IN
       \E c \in Captures[w], clean \in BOOLEAN :
          /\ file[w].kind = "half" => clean
          /\ file' = [file EXCEPT ![w] = IF clean THEN Written(c) ELSE Half]
    /\ UNCHANGED <<pc, job, conf, variant, loaded, verification, lock, logs, proc, url,
                   told, author, uploaded, origin, settled>>

\* The script fails (`|| true`): the worker goes on without it.  (After the run nobody
\* asks whether a task has failed or is about to write.)
CaptureFails(t) ==
    /\ pc \in {"workers", "serving"} /\ task[t] \in {"idle", "open"}
    /\ task' = [task EXCEPT ![t] = "failed"]
    /\ UNCHANGED <<pc, job, conf, variant, loaded, file, verification, lock, logs, proc,
                   url, told, author, uploaded, origin, settled>>

--------------------------------------------------------------------------------
(* The run.                                                                 *)

\* A worker registers after its preamble.  wait_for_model counts what registers, and
\* asks neither the other nodes of a worker nor who it is that it has counted.
PastPreamble(t) == task[t] \in {"done", "failed"}
Healthy == Cardinality({t \in Serves : PastPreamble(t)}) >= Expected

\* The identity check, between the health check and the benchmark.
VerifyAndServe ==
    /\ pc = "workers" /\ Healthy
    /\ pc' = "serving"
    /\ verification' = VerifyIdentity(Identity, Fingerprints(Collect(file)))
    /\ settled' = {w \in Workers : \A t \in Tasks : WorkerOf[t] = w => PastPreamble(t)}
    /\ UNCHANGED <<job, conf, variant, loaded, task, file, lock, logs, proc, url, told,
                   author, uploaded, origin>>

\* The sweep ends, with whatever exit code; the cleanup of its registry stops the
\* workers it knows.  It does not know one whose handle was replaced, and none if the
\* stage that starts them raised.  (A task that is past its preamble has nothing to
\* write and counts as stopped.)
EndRun ==
    /\ pc \in {"workers", "serving"} /\ pc' = "copy"
    /\ \E lost \in IF job \in LateJobs THEN {Replaced} \cup If(pc = "workers", Tasks) ELSE {{}} :
          task' = [t \in Tasks |-> IF t \in lost /\ ~PastPreamble(t) THEN task[t] ELSE "stopped"]
    /\ UNCHANGED <<job, conf, variant, loaded, file, verification, lock, logs, proc, url,
                   told, author, uploaded, origin, settled>>

--------------------------------------------------------------------------------
(* run_postprocess: one step after the other, in this order.                *)

After ==
    [copy |-> "rollup", rollup |-> "extract", extract |-> "lock", lock |-> "compare",
     compare |-> "container", container |-> "artifacts", artifacts |-> "analysis", analysis |-> "completed"]

\* _copy_config_to_logs: best effort.
CopyConfig ==
    /\ pc = "copy" /\ pc' = After[pc]
    /\ logs' \in {logs, logs \cup {"config"}}
    /\ UNCHANGED <<job, conf, variant, loaded, task, file, verification, lock, proc, url,
                   told, author, uploaded, origin, settled>>

\* _generate_rollup: the script may have none, fail, or be killed after 30 s.
Rollup ==
    /\ pc = "rollup" /\ pc' = After[pc]
    /\ logs' \in {logs, logs \cup {"rollup"}}
    /\ UNCHANGED <<job, conf, variant, loaded, task, file, verification, lock, proc, url,
                   told, author, uploaded, origin, settled>>

\* _extract_benchmark_results: half a rollup is not JSON and the raw output is
\* read instead; a file that cannot be read at all raises, which skips all the
\* rest, the last report included.
Extract ==
    /\ pc = "extract"
    /\ \/ pc' = After[pc]
       \/ pc' = "over"
    /\ UNCHANGED <<job, conf, variant, loaded, task, file, verification, lock, logs, proc,
                   url, told, author, uploaded, origin, settled>>

RewriteLock == pc = "lock" /\ WriteLock(After[pc])

\* What generate_reproduction_report finds, of the captures that the recipe was locked
\* with against those of this run.
NewIssues == Issues(Fingerprints(loaded.captures), Fingerprints(Collect(file)))

\* A re-run that has fingerprints writes its report, which lists NewIssues (or says that
\* there is nothing to compare with); never raises.
Compare ==
    /\ pc = "compare" /\ pc' = After[pc]
    /\ logs' \in {logs, logs \cup If(loaded.given /\ DOMAIN Collect(file) # {}, "report")}
    /\ UNCHANGED <<job, conf, variant, loaded, task, file, verification, lock, proc, url,
                   told, author, uploaded, origin, settled>>

--------------------------------------------------------------------------------
(* The container that parses and uploads, and the analyzer.                 *)

\* A process that was sent SIGKILL is not waited for.
Idle == proc \in {"none", "exited", "killed"}

StartContainer ==
    /\ pc = "container" /\ Idle
    /\ \/ /\ job \in Configured
          /\ proc' = "installing" /\ pc' = "wait" /\ logs' = logs \cup {"postprocess log"}
       \/ proc' = "none" /\ pc' = After["container"] /\ logs' = logs   \* or srun fails
    /\ UNCHANGED <<job, conf, variant, loaded, task, file, verification, lock, url,
                   told, author, uploaded, origin, settled>>

\* The script: install (exit 11), parse (a failure is remembered, and noted in a file),
\* sync (exit 11), exit 20 if only the parser failed.
Install ==
    /\ proc = "installing" /\ proc' \in {"exit 11", "parsing"}
    /\ UNCHANGED <<pc, job, conf, variant, loaded, task, file, verification, lock, logs,
                   url, told, author, uploaded, origin, settled>>

Parse ==
    /\ proc = "parsing"
    /\ \/ proc' = "syncing" /\ logs' = logs \cup {"postprocess status", "cached_assets"}
       \/ proc' = "syncing raw" /\ logs' = logs \cup {"postprocess status"}
    /\ UNCHANGED <<pc, job, conf, variant, loaded, task, file, verification, lock,
                   url, told, author, uploaded, origin, settled>>

Sync ==
    /\ proc \in {"syncing", "syncing raw"}
    /\ \/ proc' = "exit 11" /\ UNCHANGED uploaded
       \/ /\ proc' = IF proc = "syncing" THEN "exit 0" ELSE "exit 20"
          /\ uploaded' = logs \cup {"end"}
    /\ UNCHANGED <<pc, job, conf, variant, loaded, task, file, verification, lock, logs,
                   url, told, author, origin, settled>>

\* Install, parser, sync or analyzer hang.
Hang ==
    /\ proc \in {"installing", "parsing", "syncing", "syncing raw", "analyzing"}
    /\ proc' = "hung"
    /\ UNCHANGED <<pc, job, conf, variant, loaded, task, file, verification, lock, logs,
                   url, told, author, uploaded, origin, settled>>

\* A mutant of Uploaded: the code of a failed upload is taken for a parse failure.
UploadedOrFailed == proc \in {"exit 0", "exit 20", "exit 11"}

Uploaded == proc \in {"exit 0", "exit 20"}

ContainerEnded ==
    /\ pc = "wait" /\ proc \in {"exit 0", "exit 20", "exit 11"}
    /\ url' = Uploaded /\ proc' = "exited"
    /\ pc' = After["container"]
    /\ UNCHANGED <<job, conf, variant, loaded, task, file, verification, lock, logs, told,
                   author, uploaded, origin, settled>>

\* A mutant of TimedOut: a container that hangs is waited for.
TimedOutUnlessHung == proc \notin {"exit 0", "exit 20", "exit 11", "hung"}

\* After 600 s the container is killed, wherever it is.
TimedOut == proc \notin {"exit 0", "exit 20", "exit 11"}

ContainerTimeout ==
    /\ pc = "wait" /\ TimedOut
    /\ proc' = "killed" /\ pc' = After["container"]
    /\ UNCHANGED <<job, conf, variant, loaded, task, file, verification, lock, logs, url,
                   told, author, uploaded, origin, settled>>

ReportArtifacts ==
    /\ pc = "artifacts" /\ pc' = After[pc]
    /\ told' = told \cup If(url, "artifacts")
    /\ UNCHANGED <<job, conf, variant, loaded, task, file, verification, lock, logs, proc,
                   url, author, uploaded, origin, settled>>

\* A failed run is analysed, if the cluster enables it and has a key.  What is printed
\* goes to a log of its own, and the analysis to a file: both in the log directory.  A
\* prompt that the cluster configures and that does not format raises here.
AnalysisFiles == {"analysis log", "analysis text"}

StartAnalysis ==
    /\ pc = "analysis" /\ Idle
    /\ \/ /\ job \in Configured
          /\ proc' = "analyzing" /\ pc' = "analyze" /\ logs' = logs \cup {"analysis log"}
       \/ job \in Configured /\ proc' = proc /\ pc' = "over" /\ logs' = logs
       \/ proc' = proc /\ pc' = After["analysis"] /\ logs' = logs
    /\ UNCHANGED <<job, conf, variant, loaded, task, file, verification, lock, url,
                   told, author, uploaded, origin, settled>>

\* It ends with or without an analysis, or is still at it when it is terminated.
AnalyzerWrites ==
    /\ proc = "analyzing" /\ logs' = logs \cup {"analysis text"}
    /\ UNCHANGED <<pc, job, conf, variant, loaded, task, file, verification, lock, proc, url,
                   told, author, uploaded, origin, settled>>

AnalyzerExits ==
    /\ proc = "analyzing" /\ proc' = "exited"
    /\ UNCHANGED <<pc, job, conf, variant, loaded, task, file, verification, lock, logs, url,
                   told, author, uploaded, origin, settled>>

AnalysisEnded ==
    /\ pc = "analyze" /\ proc = "exited" /\ pc' = After["analysis"]
    /\ UNCHANGED <<job, conf, variant, loaded, task, file, verification, lock, logs, proc,
                   url, told, author, uploaded, origin, settled>>

\* After 900 s: terminate, wait 10 s, kill.
TerminateAnalyzer ==
    /\ pc = "analyze" /\ proc \in {"analyzing", "hung"}
    /\ proc' \in {"exited", "deaf"}
    /\ UNCHANGED <<pc, job, conf, variant, loaded, task, file, verification, lock, logs,
                   url, told, author, uploaded, origin, settled>>

KillAnalyzer ==
    /\ pc = "analyze" /\ proc = "deaf"
    /\ proc' = "killed" /\ pc' = After["analysis"]
    /\ UNCHANGED <<job, conf, variant, loaded, task, file, verification, lock, logs, url,
                   told, author, uploaded, origin, settled>>

\* The last report of the run repeats the pointer.
ReportCompleted ==
    /\ pc = "completed" /\ pc' = "over"
    /\ told' = told \cup {IF url THEN "completed" ELSE "completed without"}
    /\ UNCHANGED <<job, conf, variant, loaded, task, file, verification, lock, logs, proc,
                   url, author, uploaded, origin, settled>>

\* The job is cancelled or its node lost.  (A signal that the handler turns into
\* an exit is in Sweep.)
Kill ==
    /\ pc \notin {"over", "killed"} /\ pc' = "killed"
    /\ proc' = IF Idle THEN proc ELSE "exited"
    /\ UNCHANGED <<job, conf, variant, loaded, task, file, verification, lock, logs, url,
                   told, author, uploaded, origin, settled>>

Post == \/ CopyConfig \/ Rollup \/ Extract \/ RewriteLock \/ Compare
        \/ StartContainer \/ ContainerEnded \/ ContainerTimeout \/ ReportArtifacts
        \/ StartAnalysis \/ AnalysisEnded \/ TerminateAnalyzer \/ KillAnalyzer
        \/ ReportCompleted
Outside == Install \/ Parse \/ Sync \/ Hang \/ AnalyzerWrites \/ AnalyzerExits

Next == \/ Rerun \/ StartRun \/ VerifyAndServe \/ EndRun \/ Kill
        \/ \E t \in Tasks : OpenFile(t) \/ WriteFile(t) \/ CaptureFails(t)
        \/ Post \/ Outside

\* The orchestrator goes on and its clock runs; nothing else is promised.
Spec == Init /\ [][Next]_vars /\ WF_<<pc, proc>>(Post)
--------------------------------------------------------------------------------
(* Properties.                                                              *)

\* The fingerprints in a lock file were written to the end in that job: neither half a
\* file nor the garbled text of two processes gets into it, and of a worker whose
\* processes were all stopped in time it is the one that stays on disk.  The identity
\* check that it records is about these fingerprints - nothing changed between the
\* check, before the benchmark, and the lock, after it - if the first worker with a
\* fingerprint, and those before it, had passed their preambles when it was made; the
\* health check does not see to that.
LockIsOfThisJob ==
    /\ lock.captures # << >> =>
        /\ lock.job = job
        /\ \A w \in DOMAIN lock.captures :
              (\A t \in Tasks : WorkerOf[t] = w => task[t] = "stopped")
                 => file[w] = Written(lock.captures[w])
    /\ (/\ pc = "compare" /\ lock.results # {}
        /\ \A w \in Workers : (\A v \in DOMAIN lock.captures : w <= v) => w \in settled)
          => lock.results = VerifyIdentity(Identity, Fingerprints(lock.captures))

\* From job to job, each from the whole lock file of the last, the recipe stays as the
\* author wrote it, but for blank lines and banners at its end, and there is one lock
\* section.
RecipeSurvives ==
    Whole(lock) /\ origin.unbroken =>
        \E n \in 0 .. Len(author) :
            /\ lock.text = SubSeq(author, 1, n) \o LockSection
            /\ \A i \in n + 1 .. Len(author) : author[i] \in {"blank", "banner"}

\* A lock section that passes the integrity check was written to the end.
IntegrityMeansWhole ==
    loaded.verified => origin.whole /\ loaded.captures = origin.captures

\* A URL is only ever reported for an upload that ended - a container that failed,
\* hung or was killed while it copied has none - and that has all that post-processing
\* puts in the log directory, the analysis excepted: it is made after the upload and
\* stays behind.  The URL is reported before the analyzer runs, for up to 15 minutes,
\* and the last report agrees with that one.
PointerMeansUploaded ==
    /\ url \/ told \cap {"artifacts", "completed"} # {} =>
          "end" \in uploaded /\ logs \ AnalysisFiles \subseteq uploaded
    /\ pc = "analyze" /\ url => "artifacts" \in told
    /\ "completed" \in told => "artifacts" \in told
    /\ "completed without" \in told => "artifacts" \notin told

\* What the report shows of a worker's capture, said directly: of nvcc the release and
\* not the build, of the GPUs their number and the first, of a package that several
\* commands list the version in the last of the lists.
LastOf(all) ==
    {i \in DOMAIN all :
        \A j \in DOMAIN all : Lower[all[j].name] = Lower[all[i].name] => j <= i}
Listed(e, from) ==
    LET List(s) == IF s \in ToSet(from) THEN e.pip[s] ELSE << >>
        all == List("venv") \o (List("python3") \o (List("pip") \o List("uv")))
    IN  {<<"package", Lower[all[i].name], all[i].version>> : i \in LastOf(all)}
VersionOf(e, f) ==
    IF f \in AskedOfPython THEN e.python["worker"].scalar[f]
    ELSE IF f = "cuda_version" THEN e.scalar[f].release ELSE e.scalar[f]
Shows(c) ==
    LET e == Environments[c.env]
        frameworks == e.python["worker"].frameworks
    IN  {<<"scalar", f, VersionOf(e, f)>> : f \in Scalars \ c.failing}
        \cup {<<"framework", n, frameworks[n]>> : n \in DOMAIN frameworks}
        \cup {<<"env", e.vars>>}
        \cup If("gpu" \notin c.failing /\ e.gpus # << >>,
                <<"gpu", Len(e.gpus), e.gpus[1].name, e.gpus[1].driver>>)
        \cup IF "pip" \in c.failing THEN {} ELSE Listed(e, Sources)

\* The reproduction report, of this run against the one that its recipe was locked in.
ReportIsExact ==
    LET now == Collect(file)
        same == /\ DOMAIN now = DOMAIN loaded.captures
                /\ \A w \in DOMAIN now : Shows(now[w]) = Shows(loaded.captures[w])
    IN  {} \notin {DOMAIN now, DOMAIN loaded.captures} => (NewIssues = {} <=> same)

\* `srtctl diff` on what a lock file has of a worker and a capture.
DiffedExactly(c, name) ==
    LET a == FpOf(c)
        b == Capture(Environments[name], {})
        la == IF "pip" \in c.failing THEN {} ELSE Listed(Environments[c.env], Sources)
        lb == Listed(Environments[name], Tail(Sources))
        Swap(s) == CASE s = "missing" -> "extra" [] s = "extra" -> "missing" [] OTHER -> s
        d == Diff(a, b)
        r == Diff(b, a)
    IN  /\ DOMAIN d.packages = {x[2] : x \in (la \cup lb) \ (la \cap lb)}
        /\ d.matched = Cardinality(la \cap lb) /\ r.matched = d.matched
        /\ DOMAIN r.packages = DOMAIN d.packages
        /\ \A p \in DOMAIN d.packages : r.packages[p] = Swap(d.packages[p])
        /\ d.changes = r.changes

\* `srtctl check` of it in the environment that it was captured in, if all probes answer.
CheckedInPlace(c) ==
    LET e == Environments[c.env]
        elsewhere == {x[2] : x \in Listed(e, Tail(Sources))}
    IN  c.failing = {} =>
        \A r \in Check(FpOf(c), Capture(e, {})) :
            \/ r[1] = <<"field", "cuda_version">>
            \/ \E f \in AskedOfPython :
                  /\ r = <<<<"field", f>>, "mismatch">>
                  /\ e.python["worker"].scalar[f] # e.python["srtctl"].scalar[f]
            \/ \E l \in ToSet(e.pip["venv"]) :
                  /\ r = <<<<"pip", Lower[l.name]>>, "missing">>
                  /\ Lower[l.name] \notin elsewhere

\* The captures on which both do what they should: constants, which TLC works out once.
AllCaptures   == UNION {Captures[w] : w \in Workers}
DiffsExactly  == {c \in AllCaptures : \A name \in DOMAIN Environments : DiffedExactly(c, name)}
ChecksInPlace == {c \in AllCaptures : CheckedInPlace(c)}

\* The comparisons report exactly what differs.  The report has issues exactly if a
\* worker is in one of the runs only or shows something else in the other - of CUDA
\* that is the release, so that two builds of one release are the same to it.  diff
\* names the packages that only one side has or has in another version, and swapping
\* the sides swaps "missing" and "extra" and nothing else.  And where nothing has
\* changed since, check reports nothing but the CUDA version, which the two captures
\* ask for in two forms, versions for which they ask two interpreters that differ, and
\* packages that only the virtual environment of the container has.
ComparisonsAreExact ==
    pc = "compare" =>
        /\ ReportIsExact
        /\ \A w \in DOMAIN lock.captures : lock.captures[w] \in DiffsExactly \cap ChecksInPlace

\* Post-processing ends, although what it waits for may hang, and then every container
\* or analyzer of it has ended or was sent SIGKILL.
PostprocessEnds == (pc = "copy") ~> (pc \in {"over", "killed"} /\ Idle)

================================================================================

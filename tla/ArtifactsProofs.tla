---------------------------- MODULE ArtifactsProofs ----------------------------
(***************************************************************************)
(* Proofs about Artifacts, for any recipe, any number of workers and of    *)
(* re-runs, and wherever a write of the lock file stops: what a lock file  *)
(* says of the run it is from, that its integrity check recognises a whole *)
(* one, that a pointer to an upload is only told of a complete one, and    *)
(* that the comparisons of fingerprints report exactly what differs.       *)
(***************************************************************************)
EXTENDS Artifacts, SequenceTheorems, FiniteSetTheorems, TLAPS

(* The order of run_postprocess, step by step.                             *)
LEMMA AfterIs ==
    /\ After["copy"] = "rollup"         /\ After["rollup"] = "extract"
    /\ After["extract"] = "lock"        /\ After["lock"] = "compare"
    /\ After["compare"] = "container"   /\ After["container"] = "artifacts"
    /\ After["artifacts"] = "analysis"  /\ After["analysis"] = "completed"
BY DEF After

-----------------------------------------------------------------------------
(* A set of numbers has a first one.                                       *)
LEMMA FirstOf ==
    ASSUME NEW S \in SUBSET Nat, S # {}
    PROVE  \E x \in S : \A y \in S : x <= y
<1> DEFINE R == OpToRel(<, Nat)
<1>1. IsWellFoundedOn(R, Nat)
  BY NatLessThanWellFounded
<1>2. \A x, y \in Nat : x < y => <<x, y>> \in R
  BY DEF OpToRel
<1> HIDE DEF R
<1>3. PICK x \in S : \A y \in S : ~(<<y, x>> \in R)
  BY <1>1, WFMin
<1>4. \A y \in S : x <= y
  <2> TAKE y \in S
  <2>1. ~(y < x)
    BY <1>2, <1>3
  <2> QED
    BY <2>1
<1> QED
  BY <1>4

(* What the lock file says of its run.                                     *)

(* The orchestrator has written the second lock file, or is gone.          *)
Late == {"compare", "container", "wait", "artifacts", "analysis", "analyze", "completed", "over", "killed"}

(* What the workers' files may be.                                         *)
Shaped(files) ==
    /\ DOMAIN files = Workers
    /\ \A w \in Workers : files[w] \in {Absent, Half} \/ \E c \in Captures[w] : files[w] = Written(c)

OfWorkers(captures) == \A w \in DOMAIN captures : w \in Workers /\ captures[w] \in Captures[w]

(* A worker whose tasks are all past their preambles, or were stopped,     *)
(* writes no more.                                                         *)
Quiet(w)   == \A t \in Tasks : WorkerOf[t] = w => task[t] \in {"done", "failed", "stopped"}
Stopped(w) == \A t \in Tasks : WorkerOf[t] = w => task[t] = "stopped"

CheckOf(files) == VerifyIdentity(Identity, Fingerprints(Collect(files)))

(* The identity check is about the files as they were when it was made,    *)
(* and those of the settled workers have not changed since.                *)
Verified ==
    /\ pc \in {"submitted", "workers"} => verification = {} /\ settled = {}
    /\ settled \subseteq Workers /\ \A w \in settled : Quiet(w)
    /\ verification # {} =>
          \E files : /\ Shaped(files) /\ verification = CheckOf(files)
                     /\ \A w \in settled : files[w] = file[w]

(* Only the second lock file has captures or results.  Of a worker that    *)
(* was stopped the capture is still on disk, and of one that had settled   *)
(* it is what the identity check had.                                      *)
Locked ==
    /\ OfWorkers(lock.captures)
    /\ lock.captures # << >> =>
          /\ pc \in Late /\ lock.job = job
          /\ \A w \in DOMAIN lock.captures : Stopped(w) => file[w] = Written(lock.captures[w])
    /\ lock.results # {} =>
          /\ pc \in Late
          /\ \E files : /\ Shaped(files) /\ lock.results = CheckOf(files)
                        /\ \A w \in settled : w \in DOMAIN lock.captures <=> w \in DOMAIN Collect(files)
                        /\ \A w \in settled : w \in DOMAIN lock.captures =>
                              Collect(files)[w] = lock.captures[w]

LockInv == Shaped(file) /\ Verified /\ Locked

LEMMA CollectOf ==
    ASSUME NEW files, Shaped(files)
    PROVE  /\ DOMAIN Collect(files) = {w \in Workers : files[w].kind = "whole"}
           /\ \A w \in DOMAIN Collect(files) :
                 /\ w \in Workers /\ Collect(files)[w] \in Captures[w]
                 /\ files[w] = Written(Collect(files)[w])
<1> SUFFICES ASSUME NEW w \in DOMAIN Collect(files)
             PROVE  /\ w \in Workers /\ Collect(files)[w] \in Captures[w]
                    /\ files[w] = Written(Collect(files)[w])
  BY DEF Collect
<1>1. w \in Workers /\ files[w].kind = "whole" /\ Collect(files)[w] = files[w].capture
  BY DEF Collect
<1>2. PICK c \in Captures[w] : files[w] = Written(c)
  BY <1>1 DEF Shaped, Absent, Half
<1> QED
  BY <1>1, <1>2 DEF Written

LEMMA CollectOfWorkers == \A files : Shaped(files) => OfWorkers(Collect(files))
BY CollectOf DEF OfWorkers

(* The steps after the run: only one of them writes the lock file, and     *)
(* none touches a fingerprint.  The end of the run stops tasks, or leaves  *)
(* them as they are.                                                       *)
LEMMA LaterSteps ==
    ASSUME EndRun \/ Kill \/ Post \/ Outside
    PROVE  /\ UNCHANGED <<job, conf, loaded, file, verification, author, origin, settled>>
           /\ RewriteLock \/ UNCHANGED lock
           /\ \/ pc \notin Late /\ pc' = "copy"
                 /\ \A t \in Tasks : task'[t] \in {task[t], "stopped"}
              \/ UNCHANGED task
           /\ pc' \notin {"submitted", "workers"} \/ UNCHANGED pc
           /\ pc \in Late => pc' \in Late
<1>1. CASE EndRun
  BY <1>1 DEF EndRun, Late
<1>2. CASE CopyConfig \/ Rollup \/ Extract \/ Compare \/ Kill
  BY <1>2, AfterIs DEF CopyConfig, Rollup, Extract, Compare, Kill, Late
<1>3. CASE RewriteLock
  BY <1>3, AfterIs DEF RewriteLock, WriteLock, Late
<1>4. CASE StartContainer \/ ContainerEnded \/ ContainerTimeout \/ ReportArtifacts
  BY <1>4, AfterIs DEF StartContainer, ContainerEnded, ContainerTimeout, ReportArtifacts, Late
<1>5. CASE StartAnalysis \/ AnalysisEnded \/ TerminateAnalyzer \/ KillAnalyzer \/ ReportCompleted
  BY <1>5, AfterIs DEF StartAnalysis, AnalysisEnded, TerminateAnalyzer, KillAnalyzer, ReportCompleted, Late
<1>6. CASE Outside
  BY <1>6 DEF Outside, Install, Parse, Sync, Hang, AnalyzerWrites, AnalyzerExits
<1> QED
  BY <1>1, <1>2, <1>3, <1>4, <1>5, <1>6 DEF Post

LEMMA LockInvInit == Init => LockInv
<1> SUFFICES ASSUME Init PROVE LockInv
  OBVIOUS
<1>1. Shaped(file)
  BY DEF Init, Shaped, NoFiles
<1>2. Verified /\ Locked
  BY DEF Init, Verified, Locked, NoLock, OfWorkers
<1> QED
  BY <1>1, <1>2 DEF LockInv

LEMMA LockInvRerun == ASSUME Rerun PROVE LockInv'
<1>1. Shaped(file)'
  BY DEF Rerun, Shaped, NoFiles, Workers
<1>2. Verified' /\ Locked'
  BY DEF Rerun, Verified, Locked, NoLock, OfWorkers
<1> QED
  BY <1>1, <1>2 DEF LockInv

(* A step of a task changes only the file of its worker, which is then     *)
(* neither quiet nor stopped.                                              *)
LEMMA TaskStep ==
    ASSUME LockInv, NEW t \in Tasks, OpenFile(t) \/ WriteFile(t) \/ CaptureFails(t)
    PROVE  /\ UNCHANGED <<pc, job, loaded, verification, lock, settled>>
           /\ WorkerOf[t] \in Workers /\ ~Quiet(WorkerOf[t]) /\ Shaped(file)'
           /\ \A u \in Tasks : u # t => task'[u] = task[u]
           /\ task'[t] # "stopped" \/ UNCHANGED task
           /\ \A w \in Workers : w # WorkerOf[t] => file'[w] = file[w]
<1>1. WorkerOf[t] \in Workers
  BY DEF Workers
<1>2. DOMAIN file = Workers
  BY DEF LockInv, Shaped
<1>3. CASE OpenFile(t)
  <2>1. task[t] = "idle" /\ task' = [task EXCEPT ![t] = "open"] /\ file' = [file EXCEPT ![WorkerOf[t]] = Half]
    BY <1>3 DEF OpenFile
  <2>2. Shaped(file)'
    BY <1>1, <2>1 DEF LockInv, Shaped, Workers
  <2> QED
    BY <1>1, <1>2, <1>3, <2>1, <2>2 DEF OpenFile, Quiet
<1>4. CASE WriteFile(t)
  <2>1. PICK c \in Captures[WorkerOf[t]], clean \in BOOLEAN :
          file' = [file EXCEPT ![WorkerOf[t]] = IF clean THEN Written(c) ELSE Half]
    BY <1>4 DEF WriteFile
  <2>2. task[t] = "open" /\ task' = [task EXCEPT ![t] = "done"]
    BY <1>4 DEF WriteFile
  <2>3. Shaped(file)'
    BY <1>1, <2>1 DEF LockInv, Shaped, Workers
  <2> QED
    BY <1>1, <1>2, <1>4, <2>1, <2>2, <2>3 DEF WriteFile, Quiet
<1>5. CASE CaptureFails(t)
  <2>1. task[t] \in {"idle", "open"} /\ task' = [task EXCEPT ![t] = "failed"] /\ UNCHANGED file
    BY <1>5 DEF CaptureFails
  <2>2. Shaped(file)'
    BY <2>1 DEF LockInv, Shaped, Workers
  <2> QED
    BY <1>1, <1>5, <2>1, <2>2 DEF CaptureFails, Quiet
<1> QED
  BY <1>3, <1>4, <1>5

(* So neither a settled nor a stopped worker's file changes.               *)
LEMMA LockInvTask ==
    ASSUME LockInv, NEW t \in Tasks, OpenFile(t) \/ WriteFile(t) \/ CaptureFails(t)
    PROVE  LockInv'
<1>1. /\ UNCHANGED <<pc, job, loaded, verification, lock, settled>>
      /\ WorkerOf[t] \in Workers /\ ~Quiet(WorkerOf[t]) /\ Shaped(file)'
      /\ \A u \in Tasks : u # t => task'[u] = task[u]
      /\ task'[t] # "stopped" \/ UNCHANGED task
      /\ \A w \in Workers : w # WorkerOf[t] => file'[w] = file[w]
  BY TaskStep
<1>2. \A w \in settled : Quiet(w) /\ w \in Workers /\ w # WorkerOf[t]
  BY <1>1 DEF LockInv, Verified
<1>3. \A w : w # WorkerOf[t] => (Quiet(w)' <=> Quiet(w)) /\ (Stopped(w)' <=> Stopped(w))
  BY <1>1 DEF Quiet, Stopped
<1>4. ~Stopped(WorkerOf[t])'
  <2>1. task[t] # "stopped" \/ ~UNCHANGED task \/ ~Stopped(WorkerOf[t])
    BY <1>1 DEF Quiet, Stopped
  <2> QED
    BY <1>1, <2>1 DEF Stopped, Quiet
<1>5. Verified'
  <2>1. \A w \in settled' : Quiet(w)' /\ file'[w] = file[w] /\ w \in Workers
    BY <1>1, <1>2, <1>3
  <2>2. settled' \subseteq Workers'
    BY <2>1 DEF Workers
  <2>3. ASSUME verification' # {}
        PROVE  \E files : /\ Shaped(files) /\ verification' = CheckOf(files)
                          /\ \A w \in settled' : files[w] = file'[w]
    <3>1. PICK files : /\ Shaped(files) /\ verification = CheckOf(files)
                       /\ \A w \in settled : files[w] = file[w]
      BY <1>1, <2>3 DEF LockInv, Verified
    <3> QED
      BY <1>1, <2>1, <3>1
  <2> QED
    BY <1>1, <2>1, <2>2, <2>3 DEF LockInv, Verified
<1>6. Locked'
  <2>1. OfWorkers(lock.captures)'
    BY <1>1 DEF LockInv, Locked, OfWorkers, Workers
  <2>2. ASSUME NEW w \in DOMAIN lock.captures, Stopped(w)', lock.captures # << >>
        PROVE  file'[w] = Written(lock.captures[w])
    <3>1. w # WorkerOf[t] /\ w \in Workers
      BY <1>4, <2>2 DEF LockInv, Locked, OfWorkers
    <3> QED
      BY <1>1, <1>3, <2>2, <3>1 DEF LockInv, Locked
  <2> QED
    BY <1>1, <2>1, <2>2 DEF LockInv, Locked
<1> QED
  BY <1>1, <1>5, <1>6 DEF LockInv

(* The first lock file has nothing of the run, the second all of it.       *)
LEMMA LockInvWrite ==
    ASSUME LockInv, StartRun \/ RewriteLock
    PROVE  LockInv'
<1>1. /\ UNCHANGED <<task, file, verification, settled, job>>
      /\ \/ pc = "submitted" /\ pc' = "workers"
         \/ pc = "lock" /\ pc' = "compare"
  BY AfterIs DEF StartRun, RewriteLock, WriteLock
<1>2. Shaped(file)' /\ \A w : (Quiet(w)' <=> Quiet(w)) /\ (Stopped(w)' <=> Stopped(w))
  BY <1>1 DEF LockInv, Shaped, Quiet, Stopped, Workers
<1>3. Verified'
  BY <1>1, <1>2 DEF LockInv, Verified, Workers
<1>4. lock.captures = << >> /\ lock.results = {}
  BY <1>1 DEF LockInv, Locked, Late
<1>5. CASE StartRun
  <2>1. lock' = lock \/ (lock'.captures = << >> /\ lock'.results = {})
    BY <1>5 DEF StartRun, WriteLock, NewLock, LockInv, Verified
  <2> QED
    BY <1>2, <1>3, <1>4, <2>1 DEF LockInv, Locked, OfWorkers
<1>6. CASE RewriteLock
  <2>1. /\ pc' = "compare"
        /\ \/ lock' = lock
           \/ lock'.captures = Collect(file) /\ lock'.results = verification /\ lock'.job = job
    BY <1>6, AfterIs DEF RewriteLock, WriteLock, NewLock
  <2>2. CASE lock' = lock
    <3>1. lock'.captures = << >> /\ lock'.results = {}
      BY <1>4, <2>2
    <3> QED
      BY <1>2, <1>3, <3>1 DEF LockInv, Locked, OfWorkers
  <2>3. CASE lock'.captures = Collect(file) /\ lock'.results = verification /\ lock'.job = job
    <3>1. /\ OfWorkers(lock.captures)'
          /\ \A w \in DOMAIN lock'.captures : file'[w] = Written(lock'.captures[w])
      <4>1. \A w \in DOMAIN Collect(file) :
               /\ w \in Workers /\ Collect(file)[w] \in Captures[w]
               /\ file[w] = Written(Collect(file)[w])
        BY CollectOf DEF LockInv
      <4> QED
        BY <1>1, <2>3, <4>1 DEF OfWorkers, Workers
    <3>2. ASSUME verification # {}
          PROVE  \E files : /\ Shaped(files) /\ lock'.results = CheckOf(files)
                            /\ \A w \in settled' : w \in DOMAIN lock'.captures <=> w \in DOMAIN Collect(files)
                            /\ \A w \in settled' : w \in DOMAIN lock'.captures =>
                                  Collect(files)[w] = lock'.captures[w]
      <4>1. PICK files : /\ Shaped(files) /\ verification = CheckOf(files)
                         /\ \A w \in settled : files[w] = file[w]
        BY <3>2 DEF LockInv, Verified
      <4>2. \A w \in settled : w \in DOMAIN Collect(file) <=> w \in DOMAIN Collect(files)
        BY <4>1 DEF Collect
      <4>3. \A w \in settled : w \in DOMAIN Collect(file) => Collect(files)[w] = Collect(file)[w]
        BY <4>1, <4>2 DEF Collect
      <4> QED
        BY <1>1, <2>3, <4>1, <4>2, <4>3
    <3> QED
      BY <1>1, <1>2, <1>3, <2>1, <2>3, <3>1, <3>2 DEF LockInv, Locked, Late
  <2> QED
    BY <2>1, <2>2, <2>3
<1> QED
  BY <1>5, <1>6

LEMMA LockInvStep == LockInv /\ [Next]_vars => LockInv'
<1> SUFFICES ASSUME LockInv, [Next]_vars PROVE LockInv'
  OBVIOUS
<1>1. CASE Rerun
  BY <1>1, LockInvRerun
<1>2. CASE StartRun \/ RewriteLock
  BY <1>2, LockInvWrite
<1>3. CASE VerifyAndServe
  <2>1. /\ pc = "workers" /\ pc' = "serving" /\ UNCHANGED <<task, file, job, lock>>
        /\ verification' = CheckOf(file)
        /\ settled' = {w \in Workers : \A t \in Tasks : WorkerOf[t] = w => PastPreamble(t)}
    BY <1>3 DEF VerifyAndServe, CheckOf
  <2>2. lock.captures = << >> /\ lock.results = {}
    BY <2>1 DEF LockInv, Locked, Late
  <2>3. Shaped(file)' /\ \A w : Quiet(w)' <=> Quiet(w)
    BY <2>1 DEF LockInv, Shaped, Quiet, Workers
  <2>4. \A w \in settled' : w \in Workers /\ Quiet(w)
    BY <2>1 DEF Quiet, PastPreamble
  <2>5. Verified'
    BY <2>1, <2>3, <2>4 DEF LockInv, Verified, Workers
  <2> QED
    BY <2>1, <2>2, <2>3, <2>5 DEF LockInv, Locked, OfWorkers
<1>4. CASE \E t \in Tasks : OpenFile(t) \/ WriteFile(t) \/ CaptureFails(t)
  BY <1>4, LockInvTask
<1>5. CASE (EndRun \/ Kill \/ Post \/ Outside) /\ ~RewriteLock
  <2>1. /\ UNCHANGED <<job, file, verification, lock, settled>> /\ (pc \in Late => pc' \in Late)
        /\ \/ pc \notin Late /\ \A t \in Tasks : task'[t] \in {task[t], "stopped"}
           \/ UNCHANGED task
        /\ pc' \notin {"submitted", "workers"} \/ UNCHANGED pc
    BY <1>5, LaterSteps
  <2>2. \A w : Quiet(w) => Quiet(w)'
    BY <2>1 DEF Quiet
  <2>3. pc \in Late => \A w : Stopped(w)' <=> Stopped(w)
    BY <2>1 DEF Stopped
  <2>4. Shaped(file)' /\ Verified'
    BY <2>1, <2>2 DEF LockInv, Shaped, Verified, Workers
  <2>5. OfWorkers(lock.captures)'
    BY <2>1 DEF LockInv, Locked, OfWorkers, Workers
  <2> QED
    BY <2>1, <2>3, <2>4, <2>5 DEF LockInv, Locked
<1>6. CASE UNCHANGED vars
  <2>1. UNCHANGED <<pc, job, task, file, verification, lock, settled>>
    BY <1>6 DEF vars
  <2>2. \A w : (Quiet(w)' <=> Quiet(w)) /\ (Stopped(w)' <=> Stopped(w))
    BY <2>1 DEF Quiet, Stopped
  <2>3. Shaped(file)' /\ Verified'
    BY <2>1, <2>2 DEF LockInv, Shaped, Verified, Workers
  <2>4. OfWorkers(lock.captures)'
    BY <2>1 DEF LockInv, Locked, OfWorkers, Workers
  <2> QED
    BY <2>1, <2>2, <2>3, <2>4 DEF LockInv, Locked
<1> QED
  BY <1>1, <1>2, <1>3, <1>4, <1>5, <1>6 DEF Next

(* In every reachable state the lock file has captures only after its      *)
(* second write, those of stopped workers are still on disk, and those of  *)
(* the workers that had settled by the identity check are what it had.     *)
THEOREM ArtifactsLock == Spec => []LockInv
BY LockInvInit, LockInvStep, PTL DEF Spec

(* The first of two sets of workers that have the same members up to there. *)
LEMMA SameFirst ==
    ASSUME NEW A \in SUBSET Nat, NEW B \in SUBSET Nat, A # {},
           \A w \in A \cup B : (\A v \in A : w <= v) => (w \in A <=> w \in B)
    PROVE  First(A) \in A \cap B /\ First(A) = First(B) /\ \A v \in A : First(A) <= v
<1>1. PICK x \in A : \A y \in A : x <= y
  BY FirstOf
<1>2. x \in B
  BY <1>1
<1>3. \A y \in B : x <= y
  <2> SUFFICES ASSUME NEW y \in B, ~(x <= y) PROVE FALSE
    OBVIOUS
  <2>1. \A v \in A : y <= v
    BY <1>1
  <2>2. y \in A
    BY <2>1
  <2> QED
    BY <1>1, <2>2
<1>4. \A y \in A : (\A v \in A : y <= v) => y = x
  BY <1>1
<1>5. \A y \in B : (\A v \in B : y <= v) => y = x
  BY <1>2, <1>3
<1>6. First(A) = x
  BY <1>1, <1>4 DEF First
<1>7. First(B) = x
  BY <1>2, <1>3, <1>5 DEF First
<1> QED
  BY <1>1, <1>2, <1>6, <1>7

(* A lock file's fingerprints are of its own job and, of the workers that  *)
(* were stopped in time, the files that stay; its identity results are     *)
(* about them if the first workers had settled: for any workers and        *)
(* processes, whichever of them go on, and wherever a write stops.         *)
THEOREM ArtifactsLockIsOfThisJob == Spec => []LockIsOfThisJob
<1>1. LockInv => LockIsOfThisJob
  <2> SUFFICES ASSUME LockInv PROVE LockIsOfThisJob
    OBVIOUS
  <2>1. ASSUME lock.results # {},
               \A w \in Workers : (\A v \in DOMAIN lock.captures : w <= v) => w \in settled
        PROVE  lock.results = VerifyIdentity(Identity, Fingerprints(lock.captures))
    <3>1. PICK files :
            /\ Shaped(files) /\ lock.results = CheckOf(files)
            /\ \A w \in settled : w \in DOMAIN lock.captures <=> w \in DOMAIN Collect(files)
            /\ \A w \in settled : w \in DOMAIN lock.captures => Collect(files)[w] = lock.captures[w]
      BY <2>1 DEF LockInv, Locked
    <3> DEFINE A == DOMAIN lock.captures
               B == DOMAIN Collect(files)
    <3>2. DOMAIN Fingerprints(lock.captures) = A /\ DOMAIN Fingerprints(Collect(files)) = B
      BY DEF Fingerprints
    <3>3. A \subseteq Workers /\ B \subseteq Workers /\ Workers \subseteq Nat
      BY <3>1, CollectOf, ArtifactsAssumption DEF LockInv, Locked, OfWorkers, Workers
    <3>4. B # {}
      BY <2>1, <3>1, <3>2 DEF CheckOf, VerifyIdentity
    <3>5. \A w \in A \cup B : (\A v \in A : w <= v) => (w \in A <=> w \in B)
      BY <2>1, <3>1, <3>3
    <3>6. A # {}
      BY <3>4, <3>5
    <3>7. First(A) \in A \cap B /\ First(A) = First(B) /\ \A v \in A : First(A) <= v
      <4> HIDE DEF A, B
      <4> QED
        BY <3>3, <3>5, <3>6, SameFirst
    <3>8. Collect(files)[First(B)] = lock.captures[First(A)]
      BY <2>1, <3>1, <3>3, <3>7
    <3>9. Fingerprints(Collect(files))[First(B)] = Fingerprints(lock.captures)[First(A)]
      BY <3>7, <3>8 DEF Fingerprints
    <3> QED
      BY <3>1, <3>2, <3>4, <3>6, <3>9 DEF CheckOf, VerifyIdentity
  <2> QED
    BY <2>1 DEF LockInv, Locked, LockIsOfThisJob, Stopped
<1> QED
  BY <1>1, ArtifactsLock, PTL

-----------------------------------------------------------------------------
(* The text of a lock file.                                                *)

RecipeKinds  == {"key", "base", "blank", "banner"}
SectionKinds == {"marker", "lock", "entry", "integrity"}
Kinds        == RecipeKinds \cup SectionKinds

(* A prefix of what write_lockfile writes: nothing of the section without  *)
(* its beginning, and the hash only at the very end.                       *)
WellFormed(text) ==
    /\ text \in Seq(Kinds)
    /\ \A i \in DOMAIN text : text[i] \notin RecipeKinds => \E j \in 1 .. i : text[j] \in {"marker", "lock"}
    /\ \A i \in DOMAIN text : text[i] = "integrity" => i = Len(text) /\ {"lock", "entry"} \subseteq ToSet(text)

Texts == WellFormed(conf) /\ WellFormed(lock.text) /\ IntegrityMeansWhole

(* A set of positions has a first and a last one.                          *)
LEMMA Extremes ==
    ASSUME NEW n \in Nat, NEW S \in SUBSET (0 .. n), S # {}
    PROVE  /\ Min(S) \in S /\ \A y \in S : Min(S) <= y
           /\ Max(S) \in S /\ \A y \in S : Max(S) >= y
<1>1. \E x \in S : \A y \in S : x <= y
  BY FirstOf
<1>2. \E x \in S : \A y \in S : x >= y
  <2> DEFINE U == {n - x : x \in S}
  <2>1. U \subseteq Nat /\ U # {}
    <3>1. \A x \in S : n - x \in Nat
      OBVIOUS
    <3>2. \A u \in U : u \in Nat
      BY <3>1
    <3> QED
      BY <3>2
  <2>2. PICK u \in U : \A v \in U : u <= v
    <3> HIDE DEF U
    <3> QED
      BY <2>1, FirstOf
  <2>3. PICK x \in S : u = n - x
    OBVIOUS
  <2>4. \A y \in S : n - x <= n - y
    BY <2>2, <2>3
  <2> QED
    BY <2>4
<1> QED
  BY <1>1, <1>2 DEF Min, Max

(* The first n lines of a text.                                            *)
LEMMA FirstLines ==
    ASSUME NEW S, NEW text, NEW n \in Nat, \A i \in 1 .. n : text[i] \in S
    PROVE  /\ SubSeq(text, 1, n) \in Seq(S) /\ Len(SubSeq(text, 1, n)) = n
           /\ \A i \in 1 .. n : SubSeq(text, 1, n)[i] = text[i]
<1>1. n \in Int /\ 1 \in Int
  OBVIOUS
<1>2. /\ SubSeq(text, 1, n) \in Seq(S) /\ Len(SubSeq(text, 1, n)) = IF 1 <= n THEN n - 1 + 1 ELSE 0
      /\ \A i \in 1 .. n - 1 + 1 : SubSeq(text, 1, n)[i] = text[1 + i - 1]
  BY <1>1, SubSeqProperties
<1> QED
  BY <1>2

(* Cutting off trailing lines leaves a prefix, up to the last line that is *)
(* of another kind.                                                        *)
LEMMA WithoutTrailingCuts ==
    ASSUME NEW S, NEW text \in Seq(S), NEW kinds
    PROVE  \E m \in 0 .. Len(text) :
              /\ WithoutTrailing(text, kinds) \in Seq(S)
              /\ Len(WithoutTrailing(text, kinds)) = m
              /\ \A i \in 1 .. m : WithoutTrailing(text, kinds)[i] = text[i]
              /\ \A i \in m + 1 .. Len(text) : text[i] \in kinds
              /\ m > 0 => text[m] \notin kinds
<1> DEFINE I == {0} \cup {i \in DOMAIN text : text[i] \notin kinds}
           m == Max(I)
<1>1. Len(text) \in Nat /\ I \in SUBSET (0 .. Len(text)) /\ I # {}
  OBVIOUS
<1>2. m \in I /\ \A y \in I : m >= y
  <2> HIDE DEF I
  <2> QED
    BY <1>1, Extremes
<1>3. WithoutTrailing(text, kinds) = SubSeq(text, 1, m)
  BY DEF WithoutTrailing
<1> HIDE DEF m
<1>4. m \in 0 .. Len(text) /\ (m > 0 => text[m] \notin kinds)
  BY <1>1, <1>2
<1>5. \A i \in m + 1 .. Len(text) : text[i] \in kinds
  <2> TAKE i \in m + 1 .. Len(text)
  <2>1. i \in 1 .. Len(text) /\ ~(m >= i)
    BY <1>4
  <2>2. i \notin I
    BY <1>2, <2>1
  <2> QED
    BY <2>1, <2>2
<1> HIDE DEF I
<1>6. \A i \in 1 .. m : text[i] \in S
  BY <1>4
<1>7. /\ SubSeq(text, 1, m) \in Seq(S) /\ Len(SubSeq(text, 1, m)) = m
      /\ \A i \in 1 .. m : SubSeq(text, 1, m)[i] = text[i]
  BY <1>4, <1>6, FirstLines
<1> QED
  BY <1>3, <1>4, <1>5, <1>7

LEMMA WithoutTrailingType ==
    ASSUME NEW S, NEW text \in Seq(S), NEW kinds
    PROVE  WithoutTrailing(text, kinds) \in Seq(S)
BY WithoutTrailingCuts

(* A text without a section stays; of one with a section what is before    *)
(* the first line of it is left, without the decoration at its end.        *)
LEMMA StripPlain ==
    ASSUME NEW text, \A i \in 1 .. Len(text) : text[i] \notin {"marker", "lock"}
    PROVE  StripLock(text) = text
<1> DEFINE at == SelectInSeq(text, LAMBDA l : l \in {"marker", "lock"})
<1>1. at = 0
  BY DEF SelectInSeq
<1>2. StripLock(text) = IF at = 0 THEN text
                        ELSE WithoutTrailing(SubSeq(text, 1, at - 1), {"blank", "banner"})
  BY DEF StripLock
<1> HIDE DEF at
<1> QED
  BY <1>1, <1>2

LEMMA StripFrom ==
    ASSUME NEW text, Len(text) \in Nat, NEW p \in 1 .. Len(text), text[p] \in {"marker", "lock"},
           \A i \in 1 .. p - 1 : text[i] \notin {"marker", "lock"}
    PROVE  StripLock(text) = WithoutTrailing(SubSeq(text, 1, p - 1), {"blank", "banner"})
<1> DEFINE I == {i \in 1 .. Len(text) : text[i] \in {"marker", "lock"}}
           at == SelectInSeq(text, LAMBDA l : l \in {"marker", "lock"})
<1>1. at = IF I # {} THEN Min(I) ELSE 0
  BY DEF SelectInSeq
<1>2. StripLock(text) = IF at = 0 THEN text
                        ELSE WithoutTrailing(SubSeq(text, 1, at - 1), {"blank", "banner"})
  BY DEF StripLock
<1> HIDE DEF at
<1>3. /\ I \in SUBSET (0 .. Len(text)) /\ p \in I /\ 0 \notin I
      /\ \A i \in 1 .. p - 1 : i \notin I
  OBVIOUS
<1> HIDE DEF I
<1>4. Min(I) \in I /\ \A y \in I : Min(I) <= y
  BY <1>3, Extremes
<1>5. at = Min(I) /\ at \in I /\ at <= p
  BY <1>1, <1>3, <1>4
<1>6. at \in Nat /\ at # 0 /\ ~(at \in 1 .. p - 1)
  BY <1>3, <1>5
<1>7. at = p
  BY <1>5, <1>6
<1> QED
  BY <1>2, <1>6, <1>7

(* A text has no section, or a first line of it.                           *)
LEMMA SectionStarts ==
    ASSUME NEW text, Len(text) \in Nat
    PROVE  \/ \A i \in 1 .. Len(text) : text[i] \notin {"marker", "lock"}
           \/ \E p \in 1 .. Len(text) :
                 /\ text[p] \in {"marker", "lock"}
                 /\ \A i \in 1 .. p - 1 : text[i] \notin {"marker", "lock"}
<1> DEFINE I == {i \in 1 .. Len(text) : text[i] \in {"marker", "lock"}}
<1>1. ASSUME I # {} PROVE \E p \in I : \A i \in I : p <= i
  <2>1. I \in SUBSET Nat
    OBVIOUS
  <2> HIDE DEF I
  <2> QED
    BY <1>1, <2>1, FirstOf
<1>2. ASSUME NEW p \in I, \A i \in I : p <= i, NEW i \in 1 .. p - 1 PROVE i \notin I
  <2>1. p \in 1 .. Len(text) /\ ~(p <= i)
    OBVIOUS
  <2> HIDE DEF I
  <2> QED
    BY <1>2, <2>1
<1>3. ASSUME NEW p \in I, NEW i \in 1 .. p - 1 PROVE i \in 1 .. Len(text)
  OBVIOUS
<1> QED
  BY <1>1, <1>2, <1>3

(* Stripping leaves lines of the recipe only.                              *)
LEMMA StripLockType ==
    ASSUME NEW text, WellFormed(text)
    PROVE  StripLock(text) \in Seq(RecipeKinds)
<1>1. text \in Seq(Kinds) /\ Len(text) \in Nat
  BY DEF WellFormed
<1>2. CASE \A i \in 1 .. Len(text) : text[i] \notin {"marker", "lock"}
  <2>1. \A i \in 1 .. Len(text) : text[i] \in RecipeKinds
    BY <1>1, <1>2 DEF WellFormed
  <2>2. text \in Seq(RecipeKinds)
    BY <1>1, <2>1
  <2> QED
    BY <1>2, <2>2, StripPlain
<1>3. ASSUME NEW p \in 1 .. Len(text), text[p] \in {"marker", "lock"},
             \A i \in 1 .. p - 1 : text[i] \notin {"marker", "lock"}
      PROVE  StripLock(text) \in Seq(RecipeKinds)
  <2>1. \A i \in 1 .. p - 1 : text[i] \in RecipeKinds
    BY <1>1, <1>3 DEF WellFormed
  <2>2. p - 1 \in Nat
    BY <1>1
  <2>3. SubSeq(text, 1, p - 1) \in Seq(RecipeKinds)
    BY <2>1, <2>2, FirstLines
  <2>4. StripLock(text) = WithoutTrailing(SubSeq(text, 1, p - 1), {"blank", "banner"})
    BY <1>1, <1>3, StripFrom
  <2> QED
    BY <2>3, <2>4, WithoutTrailingType
<1> QED
  BY <1>1, <1>2, <1>3, SectionStarts

(* Wherever the write of a lock file stops, what is there is well formed.  *)
LEMMA LockTextWellFormed ==
    ASSUME NEW text, WellFormed(text), NEW n \in 0 .. Len(LockText(text))
    PROVE  WellFormed(SubSeq(LockText(text), 1, n))
<1> DEFINE r == WithoutTrailing(StripLock(text), {"blank"})
           full == LockText(text)
           t == SubSeq(full, 1, n)
<1>1. r \in Seq(RecipeKinds) /\ Len(r) \in Nat
  BY StripLockType, WithoutTrailingType
<1>2. full = r \o LockSection
  BY DEF LockText
<1>3. LockSection \in Seq(Kinds) /\ Len(LockSection) = 7
  BY DEF LockSection, Kinds, RecipeKinds, SectionKinds
<1> HIDE DEF r
<1>4. /\ r \o LockSection \in Seq(Kinds) /\ Len(r \o LockSection) = Len(r) + 7
      /\ \A i \in 1 .. Len(r) + 7 :
            (r \o LockSection)[i] = IF i <= Len(r) THEN r[i] ELSE LockSection[i - Len(r)]
  <2>1. r \in Seq(Kinds)
    BY <1>1 DEF Kinds
  <2>2. /\ r \o LockSection \in Seq(Kinds) /\ Len(r \o LockSection) = Len(r) + Len(LockSection)
        /\ \A i \in 1 .. Len(r) + Len(LockSection) :
              (r \o LockSection)[i] = IF i <= Len(r) THEN r[i] ELSE LockSection[i - Len(r)]
    BY <1>3, <2>1, ConcatProperties
  <2> QED
    BY <1>3, <2>2
<1>5. n \in 0 .. Len(r) + 7
  BY <1>2, <1>4
<1>6. /\ t \in Seq(Kinds) /\ Len(t) = n /\ DOMAIN t = 1 .. n
      /\ \A i \in 1 .. n : t[i] = full[i]
  <2>1. \A i \in 1 .. n : full[i] \in Kinds
    BY <1>1, <1>2, <1>4, <1>5
  <2> HIDE DEF full
  <2>2. n \in Nat
    BY <1>1, <1>5
  <2> QED
    BY <2>1, <2>2, FirstLines
<1>7. /\ \A i \in 1 .. n : i <= Len(r) => t[i] \in RecipeKinds
      /\ \A i \in 1 .. n : i > Len(r) => t[i] = LockSection[i - Len(r)] /\ i - Len(r) \in 1 .. 7
  <2>1. \A i \in 1 .. n : full[i] = IF i <= Len(r) THEN r[i] ELSE LockSection[i - Len(r)]
    BY <1>1, <1>2, <1>4, <1>5
  <2> HIDE DEF t, full
  <2>2. \A i \in 1 .. n : t[i] = IF i <= Len(r) THEN r[i] ELSE LockSection[i - Len(r)]
    BY <1>6, <2>1
  <2>3. \A i \in 1 .. n : i <= Len(r) => r[i] \in RecipeKinds
    BY <1>1
  <2>4. ASSUME NEW i \in 1 .. n, i <= Len(r) PROVE t[i] \in RecipeKinds
    BY <2>2, <2>3, <2>4
  <2>5. ASSUME NEW i \in 1 .. n, i > Len(r)
        PROVE  t[i] = LockSection[i - Len(r)] /\ i - Len(r) \in 1 .. 7
    <3>1. i \in Int /\ Len(r) \in Int /\ n \in Int /\ i <= n /\ n <= Len(r) + 7
      BY <1>1, <1>5
    <3>2. ~(i <= Len(r)) /\ i - Len(r) \in 1 .. 7
      BY <2>5, <3>1
    <3> QED
      BY <2>2, <3>2
  <2> QED
    BY <2>4, <2>5
<1>8. /\ LockSection[1] = "blank" /\ LockSection[2] = "banner" /\ LockSection[3] = "marker"
      /\ LockSection[4] = "banner" /\ LockSection[5] = "lock" /\ LockSection[6] = "entry"
      /\ LockSection[7] = "integrity"
  BY DEF LockSection
<1> HIDE DEF t, full
<1>9. ASSUME NEW i \in 1 .. n, t[i] \notin RecipeKinds
      PROVE  Len(r) + 3 \in 1 .. i /\ t[Len(r) + 3] = "marker"
  <2>1. i > Len(r)
    BY <1>1, <1>5, <1>7, <1>9
  <2>2. i - Len(r) \notin {1, 2}
    BY <1>7, <1>8, <1>9, <2>1 DEF RecipeKinds
  <2>3. Len(r) + 3 \in 1 .. i /\ Len(r) + 3 \in 1 .. n /\ Len(r) + 3 > Len(r)
    BY <1>1, <1>5, <2>1, <2>2
  <2>4. t[Len(r) + 3] = LockSection[Len(r) + 3 - Len(r)]
    BY <1>7, <2>3
  <2> QED
    BY <1>1, <1>8, <2>3, <2>4
<1>10. ASSUME NEW i \in 1 .. n, t[i] = "integrity"
       PROVE  i = n /\ t[n - 2] = "lock" /\ t[n - 1] = "entry" /\ n - 2 \in 1 .. n /\ n - 1 \in 1 .. n
  <2>1. i > Len(r)
    BY <1>1, <1>5, <1>7, <1>10 DEF RecipeKinds
  <2>2. t[i] = LockSection[i - Len(r)] /\ i - Len(r) \in 1 .. 7
    BY <1>7, <2>1
  <2>3. i - Len(r) = 7
    <3>1. \A k \in 1 .. 7 : k \in {1, 2, 3, 4, 5, 6, 7}
      OBVIOUS
    <3>2. \A k \in {1, 2, 3, 4, 5, 6, 7} : LockSection[k] = "integrity" => k = 7
      BY <1>8
    <3> QED
      BY <1>10, <2>2, <3>1, <3>2
  <2>4. i = n /\ n = Len(r) + 7
    BY <1>1, <1>5, <2>3
  <2>5. t[n - 2] = LockSection[n - 2 - Len(r)] /\ t[n - 1] = LockSection[n - 1 - Len(r)]
    BY <1>1, <1>7, <2>4
  <2>6. n - 2 - Len(r) = 5 /\ n - 1 - Len(r) = 6
    BY <1>1, <2>4
  <2> QED
    BY <1>1, <1>8, <2>4, <2>5, <2>6
<1>11. WellFormed(t)
  <2>1. \A i \in DOMAIN t : t[i] \notin RecipeKinds => \E j \in 1 .. i : t[j] \in {"marker", "lock"}
    BY <1>6, <1>9
  <2>2. \A i \in DOMAIN t : t[i] = "integrity" => i = Len(t) /\ {"lock", "entry"} \subseteq ToSet(t)
    BY <1>6, <1>10 DEF ToSet
  <2> QED
    BY <1>6, <2>1, <2>2 DEF WellFormed
<1> QED
  BY <1>11 DEF t, full

LEMMA EmptyWellFormed == WellFormed(<< >>)
BY DEF WellFormed

LEMMA RecipeWellFormed == \A r \in Recipes : WellFormed(r)
<1> TAKE r \in Recipes
<1>1. r \in Seq(RecipeKinds)
  BY ArtifactsAssumption DEF RecipeKinds
<1>2. \A i \in DOMAIN r : r[i] \in RecipeKinds
  BY <1>1
<1>3. "integrity" \notin RecipeKinds
  BY DEF RecipeKinds
<1>4. r \in Seq(Kinds)
  BY <1>1 DEF Kinds
<1> QED
  BY <1>2, <1>3, <1>4 DEF WellFormed

(* A hash stands at the end of a whole lock file, or nowhere.              *)
LEMMA IntegrityIsWhole ==
    ASSUME WellFormed(lock.text), Section(lock).verified
    PROVE  Whole(lock) /\ Section(lock).captures = lock.captures
<1>1. "integrity" \in ToSet(lock.text)
  BY DEF Section, NotLoaded, IntegrityHolds
<1>2. PICK i \in DOMAIN lock.text : lock.text[i] = "integrity"
  BY <1>1 DEF ToSet
<1>3. i = Len(lock.text) /\ {"lock", "entry"} \subseteq ToSet(lock.text)
  BY <1>2 DEF WellFormed
<1>4. lock.text # << >>
  BY <1>2
<1> QED
  BY <1>2, <1>3, <1>4 DEF Whole, Last, Section

LEMMA WriteLockTexts ==
    ASSUME WellFormed(conf), WellFormed(lock.text), StartRun \/ RewriteLock
    PROVE  WellFormed(lock.text)'
<1> DEFINE full == LockText(conf)
<1>1. CASE lock' = lock
  BY <1>1
<1>2. CASE lock'.text = full
  <2>1. full \in Seq(Kinds) /\ Len(full) \in Nat
    BY StripLockType, WithoutTrailingType, ConcatProperties
       DEF LockText, LockSection, Kinds, RecipeKinds, SectionKinds
  <2>2. SubSeq(full, 1, Len(full)) = full
    BY <2>1, SubSeqFull
  <2>3. Len(full) \in 0 .. Len(full)
    BY <2>1
  <2> QED
    BY <1>2, <2>2, <2>3, LockTextWellFormed
<1>3. CASE \E p \in Torn(full) : lock'.text = p
  <2>1. PICK n \in Cuts : n < Len(full) /\ lock'.text = SubSeq(full, 1, n)
    BY <1>3 DEF Torn
  <2>2. full \in Seq(Kinds) /\ Len(full) \in Nat
    BY StripLockType, WithoutTrailingType, ConcatProperties
       DEF LockText, LockSection, Kinds, RecipeKinds, SectionKinds
  <2>3. n \in 0 .. Len(full)
    BY <2>1, <2>2, ArtifactsAssumption
  <2> QED
    BY <2>1, <2>3, LockTextWellFormed
<1> QED
  BY <1>1, <1>2, <1>3 DEF StartRun, RewriteLock, WriteLock, NewLock

LEMMA TextsInit == Init => Texts
<1> SUFFICES ASSUME Init PROVE Texts
  OBVIOUS
<1>1. WellFormed(conf)
  BY RecipeWellFormed DEF Init
<1>2. WellFormed(lock.text) /\ IntegrityMeansWhole
  BY EmptyWellFormed DEF Init, NoLock, NotLoaded, IntegrityMeansWhole
<1> QED
  BY <1>1, <1>2 DEF Texts

LEMMA TextsStep == Texts /\ [Next]_vars => Texts'
<1> SUFFICES ASSUME Texts, [Next]_vars PROVE Texts'
  OBVIOUS
<1>1. CASE Rerun
  <2>1. conf' = lock.text /\ lock' = NoLock
    BY <1>1 DEF Rerun
  <2>2. WellFormed(conf)' /\ WellFormed(lock.text)'
    BY <2>1, EmptyWellFormed DEF Texts, NoLock
  <2>3. /\ loaded' = NotLoaded \/ loaded' = Section(lock)
        /\ Whole(lock) => origin'.whole /\ origin'.captures = lock.captures
    BY <1>1 DEF Rerun
  <2>4. IntegrityMeansWhole'
    <3>1. CASE loaded' = NotLoaded
      BY <3>1 DEF IntegrityMeansWhole, NotLoaded
    <3>2. CASE loaded' = Section(lock)
      BY <2>3, <3>2, IntegrityIsWhole DEF IntegrityMeansWhole, Texts
    <3> QED
      BY <2>3, <3>1, <3>2
  <2> QED
    BY <2>2, <2>4 DEF Texts
<1>2. CASE StartRun \/ RewriteLock
  <2>1. WellFormed(lock.text)'
    BY <1>2, WriteLockTexts DEF Texts
  <2>2. UNCHANGED <<conf, loaded, origin>>
    BY <1>2 DEF StartRun, RewriteLock, WriteLock
  <2> QED
    BY <2>1, <2>2 DEF Texts, IntegrityMeansWhole
<1>3. CASE UNCHANGED <<conf, loaded, origin, lock>>
  BY <1>3 DEF Texts, IntegrityMeansWhole
<1>4. CASE VerifyAndServe \/ \E t \in Tasks : OpenFile(t) \/ WriteFile(t) \/ CaptureFails(t)
  BY <1>3, <1>4 DEF VerifyAndServe, OpenFile, WriteFile, CaptureFails
<1>5. CASE EndRun \/ Kill \/ Post \/ Outside
  BY <1>2, <1>3, <1>5, LaterSteps
<1>6. CASE UNCHANGED vars
  BY <1>3, <1>6 DEF vars
<1> QED
  BY <1>1, <1>2, <1>4, <1>5, <1>6 DEF Next

THEOREM ArtifactsTexts == Spec => []Texts
BY TextsInit, TextsStep, PTL DEF Spec

(* A lock section that passes the integrity check was written to the end,  *)
(* and has the captures of the job it is from: for any recipe and any      *)
(* number of re-runs, wherever the earlier writes stopped.                 *)
THEOREM ArtifactsIntegrityMeansWhole == Spec => []IntegrityMeansWhole
<1>1. Texts => IntegrityMeansWhole
  BY DEF Texts
<1> QED
  BY <1>1, ArtifactsTexts, PTL

-----------------------------------------------------------------------------
(* The recipe, from job to job.                                            *)

(* After its first n lines the author's recipe has nothing but decoration. *)
EndsAt(n) ==
    /\ n \in 0 .. Len(author)
    /\ \A i \in n + 1 .. Len(author) : author[i] \in {"blank", "banner"}

LockOf(text) == \E n \in 0 .. Len(author) : EndsAt(n) /\ text = SubSeq(author, 1, n) \o LockSection

(* As long as no lock file was torn, a job reads the author's recipe or    *)
(* the whole lock file of one; a lock file with a hash is all that the     *)
(* last write meant to write.                                              *)
Survives ==
    /\ author \in Recipes
    /\ origin.unbroken => conf = author \/ LockOf(conf)
    /\ Whole(lock) => lock.text = LockText(conf)

LEMMA AuthorType ==
    ASSUME Survives
    PROVE  author \in Seq(RecipeKinds) /\ author \in Seq(Kinds) /\ Len(author) \in Nat
<1>1. author \in Seq(RecipeKinds)
  BY ArtifactsAssumption DEF Survives, RecipeKinds
<1> QED
  BY <1>1 DEF Kinds

(* A line-wise copy of the author's recipe is one.                         *)
LEMMA CopyIsPrefix ==
    ASSUME author \in Seq(Kinds), NEW n \in 0 .. Len(author), NEW text \in Seq(Kinds),
           Len(text) = n, \A i \in 1 .. n : text[i] = author[i]
    PROVE  text = SubSeq(author, 1, n)
<1>1. n \in Nat /\ \A i \in 1 .. n : author[i] \in Kinds
  OBVIOUS
<1>2. /\ SubSeq(author, 1, n) \in Seq(Kinds) /\ Len(SubSeq(author, 1, n)) = n
      /\ \A i \in 1 .. n : SubSeq(author, 1, n)[i] = author[i]
  BY <1>1, FirstLines
<1> QED
  BY <1>2, SeqEqual

(* Cutting decoration off the end of a copy leaves one that is cut at      *)
(* decoration, and what follows the copy goes with it if it is decoration. *)
LEMMA TrimmedCopy ==
    ASSUME author \in Seq(Kinds), NEW n, EndsAt(n), NEW text \in Seq(Kinds),
           Len(text) >= n, \A i \in 1 .. n : text[i] = author[i],
           NEW kinds \in SUBSET {"blank", "banner"},
           \A i \in n + 1 .. Len(text) : text[i] \in kinds
    PROVE  \E m : /\ EndsAt(m)
                  /\ WithoutTrailing(text, kinds) \in Seq(Kinds)
                  /\ Len(WithoutTrailing(text, kinds)) = m
                  /\ \A i \in 1 .. m : WithoutTrailing(text, kinds)[i] = author[i]
<1> DEFINE t == WithoutTrailing(text, kinds)
<1>1. PICK m \in 0 .. Len(text) :
        /\ t \in Seq(Kinds) /\ Len(t) = m
        /\ \A i \in 1 .. m : t[i] = text[i]
        /\ \A i \in m + 1 .. Len(text) : text[i] \in kinds
        /\ m > 0 => text[m] \notin kinds
  BY WithoutTrailingCuts
<1> HIDE DEF t
<1>2. n \in 0 .. Len(author) /\ Len(text) \in Nat /\ Len(author) \in Nat
  BY DEF EndsAt
<1>3. m <= n
  <2>1. ASSUME m > n PROVE FALSE
    <3>1. m \in n + 1 .. Len(text) /\ m > 0
      BY <1>1, <1>2, <2>1
    <3> QED
      BY <1>1, <3>1
  <2> QED
    BY <1>1, <1>2, <2>1
<1>4. EndsAt(m)
  <2>1. ASSUME NEW i \in m + 1 .. Len(author) PROVE author[i] \in {"blank", "banner"}
    <3>1. CASE i > n
      <4>1. i \in n + 1 .. Len(author)
        BY <1>2, <3>1
      <4> QED
        BY <4>1 DEF EndsAt
    <3>2. CASE i <= n
      <4>1. i \in m + 1 .. Len(text) /\ i \in 1 .. n
        BY <1>1, <1>2, <3>2
      <4> QED
        BY <1>1, <4>1
    <3> QED
      BY <1>1, <1>2, <3>1, <3>2
  <2>2. m \in 0 .. Len(author)
    BY <1>1, <1>2, <1>3
  <2> QED
    BY <2>1, <2>2 DEF EndsAt
<1>5. \A i \in 1 .. m : t[i] = author[i]
  BY <1>1, <1>2, <1>3
<1> QED
  BY <1>1, <1>4, <1>5 DEF t

(* What follows a copy of the recipe in a lock file is the section, which  *)
(* is stripped with the blank line and the banner it begins with.          *)
LEMMA StripSection ==
    ASSUME author \in Seq(RecipeKinds), author \in Seq(Kinds), NEW n, EndsAt(n)
    PROVE  \E body \in Seq(Kinds) :
              /\ StripLock(SubSeq(author, 1, n) \o LockSection) = WithoutTrailing(body, {"blank", "banner"})
              /\ Len(body) = n + 2 /\ \A i \in 1 .. n : body[i] = author[i]
              /\ body[n + 1] = "blank" /\ body[n + 2] = "banner"
<1> DEFINE copy == SubSeq(author, 1, n)
           text == copy \o LockSection
           body == SubSeq(text, 1, n + 2)
<1>1. n \in Nat /\ n <= Len(author) /\ Len(author) \in Nat
  BY DEF EndsAt
<1>2. copy \in Seq(Kinds) /\ Len(copy) = n /\ \A i \in 1 .. n : copy[i] = author[i]
  <2>1. \A i \in 1 .. n : author[i] \in Kinds
    BY <1>1
  <2> QED
    BY <1>1, <2>1, FirstLines
<1>3. /\ LockSection \in Seq(Kinds) /\ Len(LockSection) = 7
      /\ LockSection[1] = "blank" /\ LockSection[2] = "banner" /\ LockSection[3] = "marker"
  BY DEF LockSection, Kinds, RecipeKinds, SectionKinds
<1> HIDE DEF copy
<1>4. /\ text \in Seq(Kinds) /\ Len(text) = n + 7
      /\ \A i \in 1 .. n + 7 : text[i] = IF i <= n THEN copy[i] ELSE LockSection[i - n]
  <2>1. /\ text \in Seq(Kinds)
        /\ Len(text) = Len(copy) + Len(LockSection)
        /\ \A i \in 1 .. Len(copy) + Len(LockSection) :
              text[i] = IF i <= Len(copy) THEN copy[i] ELSE LockSection[i - Len(copy)]
    BY <1>2, <1>3, ConcatProperties, ZenonT(60)
  <2> HIDE DEF text
  <2> QED
    BY <1>2, <1>3, <2>1
<1> HIDE DEF text
<1>5. /\ \A i \in 1 .. n : text[i] = author[i] /\ author[i] \in RecipeKinds
      /\ text[n + 1] = "blank" /\ text[n + 2] = "banner" /\ text[n + 3] = "marker"
  <2>1. \A i \in 1 .. n : text[i] = author[i] /\ author[i] \in RecipeKinds
    BY <1>1, <1>2, <1>4
  <2>2. /\ text[n + 1] = LockSection[n + 1 - n] /\ text[n + 2] = LockSection[n + 2 - n]
        /\ text[n + 3] = LockSection[n + 3 - n]
    BY <1>1, <1>4
  <2>3. n + 1 - n = 1 /\ n + 2 - n = 2 /\ n + 3 - n = 3
    BY <1>1
  <2> QED
    BY <1>3, <2>1, <2>2, <2>3
<1>6. n + 3 \in 1 .. Len(text) /\ n + 2 \in Nat /\ Len(text) \in Nat
  BY <1>1, <1>4
<1>7. \A i \in 1 .. n + 2 : text[i] \notin {"marker", "lock"} /\ text[i] \in Kinds
  <2> TAKE i \in 1 .. n + 2
  <2>1. CASE i \in 1 .. n
    BY <1>5, <2>1 DEF RecipeKinds, Kinds
  <2>2. CASE i = n + 1 \/ i = n + 2
    BY <1>5, <2>2 DEF RecipeKinds, Kinds
  <2> QED
    BY <1>1, <2>1, <2>2
<1>8. StripLock(text) = WithoutTrailing(SubSeq(text, 1, n + 2), {"blank", "banner"})
  <2>1. PICK p \in 1 .. Len(text) : p = n + 3
    BY <1>6
  <2>2. p - 1 = n + 2 /\ text[p] \in {"marker", "lock"}
    BY <1>1, <1>5, <2>1
  <2>3. \A i \in 1 .. p - 1 : text[i] \notin {"marker", "lock"}
    BY <1>7, <2>2
  <2>4. StripLock(text) = WithoutTrailing(SubSeq(text, 1, p - 1), {"blank", "banner"})
    <3> HIDE DEF body
    <3> QED
      BY <1>6, <2>2, <2>3, StripFrom
  <2> QED
    BY <2>2, <2>4
<1>9. body \in Seq(Kinds) /\ Len(body) = n + 2 /\ \A i \in 1 .. n + 2 : body[i] = text[i]
  BY <1>6, <1>7, FirstLines
<1>10. StripLock(text) = WithoutTrailing(body, {"blank", "banner"})
  BY <1>6, <1>8
<1> HIDE DEF body
<1>11. /\ \A i \in 1 .. n : body[i] = author[i]
       /\ body[n + 1] = "blank" /\ body[n + 2] = "banner"
  BY <1>1, <1>5, <1>9
<1>12. StripLock(SubSeq(author, 1, n) \o LockSection) = WithoutTrailing(body, {"blank", "banner"})
  BY <1>10 DEF text, copy
<1> QED
  BY <1>9, <1>11, <1>12

(* The lock file of the author's recipe, or of a lock file of it, has the  *)
(* author's lines and one section.                                         *)
LEMMA LockTextIsLockOf ==
    ASSUME Survives, origin.unbroken
    PROVE  LockOf(LockText(conf))
<1>1. author \in Seq(RecipeKinds) /\ author \in Seq(Kinds) /\ Len(author) \in Nat
  BY AuthorType
<1>2. \E n : /\ EndsAt(n) /\ StripLock(conf) \in Seq(Kinds) /\ Len(StripLock(conf)) = n
             /\ \A i \in 1 .. n : StripLock(conf)[i] = author[i]
  <2>1. CASE conf = author
    <3>1. \A i \in 1 .. Len(conf) : conf[i] \notin {"marker", "lock"}
      <4>1. \A i \in 1 .. Len(conf) : conf[i] \in RecipeKinds
        BY <1>1, <2>1
      <4> QED
        BY <4>1 DEF RecipeKinds
    <3>2. StripLock(conf) = author
      BY <2>1, <3>1, StripPlain
    <3>3. EndsAt(Len(author))
      BY <1>1 DEF EndsAt
    <3> QED
      BY <1>1, <3>2, <3>3
  <2>2. CASE LockOf(conf)
    <3>1. PICK n : EndsAt(n) /\ conf = SubSeq(author, 1, n) \o LockSection
      BY <2>2 DEF LockOf
    <3>2. PICK body \in Seq(Kinds) :
            /\ StripLock(SubSeq(author, 1, n) \o LockSection) = WithoutTrailing(body, {"blank", "banner"})
            /\ Len(body) = n + 2 /\ \A i \in 1 .. n : body[i] = author[i]
            /\ body[n + 1] = "blank" /\ body[n + 2] = "banner"
      BY <1>1, <3>1, StripSection
    <3>3. n \in Nat
      BY <1>1, <3>1 DEF EndsAt
    <3>4. \A i \in n + 1 .. Len(body) : body[i] \in {"blank", "banner"}
      BY <3>2, <3>3
    <3>5. Len(body) >= n
      BY <3>2, <3>3
    <3> DEFINE decoration == {"blank", "banner"}
    <3>6. StripLock(conf) = WithoutTrailing(body, decoration)
      BY <3>1, <3>2
    <3>7. /\ decoration \in SUBSET {"blank", "banner"} /\ author \in Seq(Kinds) /\ EndsAt(n)
          /\ \A i \in n + 1 .. Len(body) : body[i] \in decoration
          /\ \A i \in 1 .. n : body[i] = author[i]
      BY <1>1, <3>1, <3>2, <3>4
    <3> HIDE DEF decoration
    <3>8. \E m : /\ EndsAt(m) /\ WithoutTrailing(body, decoration) \in Seq(Kinds)
                 /\ Len(WithoutTrailing(body, decoration)) = m
                 /\ \A i \in 1 .. m : WithoutTrailing(body, decoration)[i] = author[i]
      BY <3>5, <3>7, TrimmedCopy
    <3> QED
      BY <3>6, <3>8
  <2> QED
    BY <2>1, <2>2 DEF Survives
<1>3. PICK n : /\ EndsAt(n) /\ StripLock(conf) \in Seq(Kinds) /\ Len(StripLock(conf)) = n
               /\ \A i \in 1 .. n : StripLock(conf)[i] = author[i]
  BY <1>2
<1> DEFINE t == WithoutTrailing(StripLock(conf), {"blank"})
<1>4. PICK m : EndsAt(m) /\ t \in Seq(Kinds) /\ Len(t) = m /\ \A i \in 1 .. m : t[i] = author[i]
  <2>1. n \in Nat
    BY <1>1, <1>3 DEF EndsAt
  <2>2. Len(StripLock(conf)) >= n /\ \A i \in n + 1 .. Len(StripLock(conf)) : StripLock(conf)[i] \in {"blank"}
    BY <1>3, <2>1
  <2> QED
    BY <1>1, <1>3, <2>2, TrimmedCopy
<1> HIDE DEF t
<1>5. m \in 0 .. Len(author)
  BY <1>4 DEF EndsAt
<1>6. t = SubSeq(author, 1, m)
  BY <1>1, <1>4, <1>5, CopyIsPrefix
<1>7. LockText(conf) = SubSeq(author, 1, m) \o LockSection
  BY <1>6 DEF LockText, t
<1> QED
  BY <1>4, <1>5, <1>7 DEF LockOf

(* What is torn does not end in a hash, so it does not count as whole.     *)
LEMMA TornIsNotWhole ==
    ASSUME WellFormed(conf), NEW p \in Torn(LockText(conf)), p # << >>
    PROVE  Last(p) # "integrity"
<1> DEFINE full == LockText(conf)
<1>1. full \in Seq(Kinds) /\ Len(full) \in Nat
  BY StripLockType, WithoutTrailingType, ConcatProperties
     DEF LockText, LockSection, Kinds, RecipeKinds, SectionKinds
<1>2. PICK n \in Cuts : n < Len(full) /\ p = SubSeq(full, 1, n)
  BY DEF Torn
<1>3. WellFormed(full)
  <2>1. SubSeq(full, 1, Len(full)) = full
    BY <1>1, SubSeqFull
  <2>2. Len(full) \in 0 .. Len(full)
    BY <1>1
  <2> QED
    BY <2>1, <2>2, LockTextWellFormed
<1> HIDE DEF full
<1>4. n \in Nat /\ n \in 0 .. Len(full)
  BY <1>1, <1>2, ArtifactsAssumption
<1>5. Len(p) = n /\ \A i \in 1 .. n : p[i] = full[i]
  <2>1. \A i \in 1 .. n : full[i] \in Kinds
    BY <1>1, <1>4
  <2> QED
    BY <1>2, <1>4, <2>1, FirstLines
<1>6. n # 0
  BY <1>1, <1>2, SubSeqEmpty
<1>7. Last(p) = full[n] /\ n \in DOMAIN full /\ n # Len(full)
  BY <1>1, <1>2, <1>4, <1>5, <1>6 DEF Last
<1> QED
  BY <1>3, <1>7 DEF WellFormed

LEMMA SurvivesInit == Init => Survives
<1> SUFFICES ASSUME Init PROVE Survives
  OBVIOUS
<1>1. author \in Recipes /\ conf = author /\ lock.text = << >>
  BY DEF Init, NoLock
<1> QED
  BY <1>1 DEF Survives, Whole

LEMMA SurvivesStep == Survives /\ Texts /\ [Next]_vars => Survives'
<1> SUFFICES ASSUME Survives, Texts, [Next]_vars PROVE Survives'
  OBVIOUS
<1>1. CASE Rerun
  <2>1. /\ conf' = lock.text /\ author' = author /\ lock'.text = << >>
        /\ origin'.unbroken => Whole(lock) /\ origin.unbroken
    BY <1>1 DEF Rerun, NoLock
  <2>2. ASSUME Whole(lock), origin.unbroken PROVE LockOf(lock.text)
    BY <2>2, LockTextIsLockOf DEF Survives
  <2>3. ~Whole(lock)'
    BY <2>1 DEF Whole
  <2>4. ASSUME origin'.unbroken PROVE LockOf(conf)'
    <3>1. LockOf(lock.text)
      BY <2>1, <2>2, <2>4
    <3> QED
      BY <2>1, <3>1 DEF LockOf, EndsAt
  <2> QED
    BY <2>1, <2>3, <2>4 DEF Survives
<1>2. CASE StartRun \/ RewriteLock
  <2>1. /\ UNCHANGED <<author, conf, origin>>
        /\ lock'.text = LockText(conf) \/ lock'.text \in Torn(LockText(conf)) \/ lock' = lock
    BY <1>2 DEF StartRun, RewriteLock, WriteLock, NewLock
  <2>2. Whole(lock)' => lock'.text = LockText(conf)
    <3>1. CASE lock'.text \in Torn(LockText(conf))
      BY <3>1, TornIsNotWhole DEF Whole, Texts
    <3>2. CASE lock' = lock
      BY <3>2 DEF Survives, Whole
    <3> QED
      BY <2>1, <3>1, <3>2
  <2>3. LockText(conf)' = LockText(conf) /\ LockOf(conf)' = LockOf(conf)
    BY <2>1 DEF LockOf, EndsAt
  <2> QED
    BY <2>1, <2>2, <2>3 DEF Survives
<1>3. CASE UNCHANGED <<author, conf, origin, lock>>
  <2>1. LockText(conf)' = LockText(conf) /\ LockOf(conf)' = LockOf(conf) /\ Whole(lock)' = Whole(lock)
    BY <1>3 DEF LockOf, EndsAt
  <2> QED
    BY <1>3, <2>1 DEF Survives
<1>4. CASE VerifyAndServe \/ \E t \in Tasks : OpenFile(t) \/ WriteFile(t) \/ CaptureFails(t)
  BY <1>3, <1>4 DEF VerifyAndServe, OpenFile, WriteFile, CaptureFails
<1>5. CASE EndRun \/ Kill \/ Post \/ Outside
  BY <1>2, <1>3, <1>5, LaterSteps
<1>6. CASE UNCHANGED vars
  BY <1>3, <1>6 DEF vars
<1> QED
  BY <1>1, <1>2, <1>4, <1>5, <1>6 DEF Next

THEOREM ArtifactsSurvives == Spec => []Survives
BY SurvivesInit, SurvivesStep, ArtifactsTexts, PTL DEF Spec

(* For any recipe and any number of re-runs, each from the whole lock file *)
(* of the one before: the author's lines are all there, in their order,    *)
(* but for decoration at the end, and there is one lock section.           *)
THEOREM ArtifactsRecipeSurvives == Spec => []RecipeSurvives
<1>1. Survives => RecipeSurvives
  <2> SUFFICES ASSUME Survives, Whole(lock), origin.unbroken PROVE LockOf(lock.text)
    BY DEF RecipeSurvives, LockOf, EndsAt
  <2> QED
    BY LockTextIsLockOf DEF Survives
<1> QED
  BY <1>1, ArtifactsSurvives, PTL

-----------------------------------------------------------------------------
(* The upload and its pointer.                                             *)

ContainerStates == {"installing", "parsing", "syncing", "syncing raw", "exit 0", "exit 11", "exit 20", "hung"}
AnalyzerStates == {"analyzing", "hung", "deaf", "exited"}

(* Where the orchestrator does not wait for a process, there is none.      *)
Waiting ==
    /\ pc \notin {"wait", "analyze"} => Idle
    /\ pc = "wait" => proc \in ContainerStates
    /\ pc = "analyze" => proc \in AnalyzerStates

(* After a complete upload nothing more is put in the log directory but    *)
(* the analysis.                                                           *)
Complete == "end" \in uploaded /\ logs \ AnalysisFiles \subseteq uploaded
Delivered ==
    /\ url \in BOOLEAN
    /\ proc \in {"exit 0", "exit 20"} => Complete
    /\ url => /\ pc \in {"artifacts", "analysis", "analyze", "completed", "over", "killed"}
              /\ Complete

(* The reports are made in their order, and agree on the URL.              *)
Reported ==
    /\ told # {} => pc \in {"analysis", "analyze", "completed", "over", "killed"}
    /\ told \ {"artifacts"} # {} => pc \in {"over", "killed"}
    /\ "artifacts" \in told => url
    /\ pc \in {"analysis", "analyze", "completed"} /\ url => "artifacts" \in told
    /\ "completed" \in told => "artifacts" \in told
    /\ "completed without" \in told => ~url

UploadInv == Waiting /\ Delivered /\ Reported

LEMMA UploadInvInit == Init => UploadInv
BY DEF Init, UploadInv, Waiting, Delivered, Reported, Idle

(* Before the container the upload and the reports are as at the start.    *)
LEMMA UploadInvBefore ==
    ASSUME UploadInv, pc \in {"submitted", "workers", "serving", "copy", "rollup", "extract", "lock", "compare"},
           UNCHANGED <<proc, url, told, uploaded>>, pc' \notin {"wait", "analyze"}
    PROVE  UploadInv'
<1>1. Idle /\ ~url /\ told = {}
  BY DEF UploadInv, Waiting, Delivered, Reported
<1>2. proc \notin {"exit 0", "exit 20"}
  BY <1>1 DEF Idle
<1> QED
  BY <1>1, <1>2 DEF UploadInv, Waiting, Delivered, Reported, Idle

LEMMA UploadInvStep == UploadInv /\ [Next]_vars => UploadInv'
<1> SUFFICES ASSUME UploadInv, [Next]_vars PROVE UploadInv'
  OBVIOUS
<1>0. ASSUME pc \in {"submitted", "workers", "serving", "copy", "rollup", "extract", "lock", "compare"},
             UNCHANGED <<proc, url, told, uploaded>>, pc' \notin {"wait", "analyze"}
      PROVE  UploadInv'
  BY <1>0, UploadInvBefore
<1>1. CASE Rerun
  BY <1>1 DEF Rerun, UploadInv, Waiting, Delivered, Reported, Idle
<1>2. CASE StartRun \/ VerifyAndServe \/ EndRun
  BY <1>0, <1>2 DEF StartRun, WriteLock, VerifyAndServe, EndRun
<1>3. CASE \/ UNCHANGED vars
           \/ \E t \in Tasks : OpenFile(t) \/ WriteFile(t) \/ CaptureFails(t)
  <2>1. UNCHANGED <<pc, proc, url, told, logs, uploaded>>
    BY <1>3 DEF vars, OpenFile, WriteFile, CaptureFails
  <2> QED
    BY <2>1 DEF UploadInv, Waiting, Delivered, Complete, Reported, Idle
<1>4. CASE CopyConfig \/ Rollup \/ Extract \/ RewriteLock \/ Compare
  BY <1>0, <1>4, AfterIs DEF CopyConfig, Rollup, Extract, RewriteLock, WriteLock, Compare
<1>5. CASE Kill
  BY <1>5 DEF Kill, UploadInv, Waiting, Delivered, Complete, Reported, Idle
<1>6. CASE StartContainer \/ ContainerEnded \/ ContainerTimeout
  <2>1. Waiting'
    BY <1>6, AfterIs DEF StartContainer, ContainerEnded, ContainerTimeout, Waiting, Idle, ContainerStates
  <2>2. /\ pc \in {"container", "wait"} /\ pc' \in {"wait", "artifacts"}
        /\ UNCHANGED <<told, uploaded>> /\ proc' \notin {"exit 0", "exit 20"}
        /\ \/ UNCHANGED url
           \/ url' = (proc \in {"exit 0", "exit 20"}) /\ pc' = "artifacts" /\ UNCHANGED logs
    BY <1>6, AfterIs DEF StartContainer, ContainerEnded, ContainerTimeout, Uploaded
  <2>3. ~url /\ told = {}
    BY <2>2 DEF UploadInv, Delivered, Reported
  <2>4. Delivered'
    <3>1. CASE UNCHANGED url
      BY <2>2, <2>3, <3>1 DEF UploadInv, Delivered
    <3>2. CASE url' = (proc \in {"exit 0", "exit 20"}) /\ pc' = "artifacts" /\ UNCHANGED logs
      <4>1. (proc \in {"exit 0", "exit 20"}) \in BOOLEAN
        OBVIOUS
      <4>2. url' => proc \in {"exit 0", "exit 20"}
        BY <3>2
      <4>3. url' => Complete'
        BY <2>2, <3>2, <4>2 DEF UploadInv, Delivered, Complete
      <4> QED
        BY <2>2, <3>2, <4>1, <4>3 DEF Delivered
    <3> QED
      BY <2>2, <3>1, <3>2
  <2> QED
    BY <2>1, <2>2, <2>3, <2>4 DEF UploadInv, Reported
<1>7. CASE ReportArtifacts \/ ReportCompleted
  <2>1. /\ UNCHANGED <<proc, url, logs, uploaded>>
        /\ \/ pc = "artifacts" /\ pc' = "analysis" /\ told' = told \cup If(url, "artifacts")
           \/ pc = "completed" /\ pc' = "over"
              /\ told' = told \cup {IF url THEN "completed" ELSE "completed without"}
    BY <1>7, AfterIs DEF ReportArtifacts, ReportCompleted
  <2>2. Waiting' /\ Delivered'
    BY <2>1 DEF UploadInv, Waiting, Delivered, Complete, Idle
  <2>3. Reported'
    <3>1. CASE url
      BY <2>1, <3>1 DEF UploadInv, Delivered, Reported, If
    <3>2. CASE ~url
      BY <2>1, <3>2 DEF UploadInv, Delivered, Reported, If
    <3> QED
      BY <3>1, <3>2
  <2> QED
    BY <2>2, <2>3 DEF UploadInv
<1>8. CASE StartAnalysis \/ AnalysisEnded \/ TerminateAnalyzer \/ KillAnalyzer
  <2>1. UNCHANGED <<url, told, uploaded>> /\ pc' \in {"analyze", "completed", "over"}
        /\ pc \in {"analysis", "analyze"} /\ logs' \ AnalysisFiles = logs \ AnalysisFiles
    BY <1>8, AfterIs DEF StartAnalysis, AnalysisEnded, TerminateAnalyzer, KillAnalyzer, AnalysisFiles
  <2>2. Waiting' /\ proc' \notin {"exit 0", "exit 20"}
    BY <1>8, AfterIs DEF StartAnalysis, AnalysisEnded, TerminateAnalyzer, KillAnalyzer,
         UploadInv, Waiting, Idle, AnalyzerStates
  <2> QED
    BY <2>1, <2>2 DEF UploadInv, Delivered, Complete, Reported
<1>9. CASE Outside
  <2>1. UNCHANGED <<pc, url, told>> /\ pc \in {"wait", "analyze"}
    BY <1>9 DEF Outside, Install, Parse, Sync, Hang, AnalyzerWrites, AnalyzerExits, UploadInv, Waiting, Idle
  <2>2. Waiting'
    BY <1>9, <2>1 DEF Outside, Install, Parse, Sync, Hang, AnalyzerWrites, AnalyzerExits, UploadInv,
         Waiting, ContainerStates, AnalyzerStates
  <2>3. Delivered'
    <3>1. CASE Install \/ Hang \/ AnalyzerExits \/ AnalyzerWrites
      <4>1. /\ logs' \ AnalysisFiles = logs \ AnalysisFiles /\ UNCHANGED uploaded
            /\ proc' \notin {"exit 0", "exit 20"}
        BY <3>1 DEF Install, Hang, AnalyzerExits, AnalyzerWrites, AnalysisFiles
      <4> QED
        BY <2>1, <4>1 DEF UploadInv, Delivered, Complete
    <3>2. CASE Parse
      <4>1. pc = "wait" /\ url = FALSE
        BY <2>1, <3>2 DEF Parse, UploadInv, Waiting, Delivered, AnalyzerStates
      <4> QED
        BY <2>1, <3>2, <4>1 DEF Parse, Delivered
    <3>3. CASE Sync
      <4>1. pc = "wait" /\ url = FALSE
        BY <2>1, <3>3 DEF Sync, UploadInv, Waiting, Delivered, AnalyzerStates
      <4> QED
        BY <2>1, <3>3, <4>1 DEF Sync, UploadInv, Delivered, Complete
    <3> QED
      BY <1>9, <3>1, <3>2, <3>3 DEF Outside
  <2> QED
    BY <2>1, <2>2, <2>3 DEF UploadInv, Reported
<1> QED
  BY <1>1, <1>2, <1>3, <1>4, <1>5, <1>6, <1>7, <1>8, <1>9 DEF Next, Post

(* A process of post-processing runs only while the orchestrator waits for *)
(* it: when it is over, or was killed, every container and analyzer has    *)
(* ended or was sent SIGKILL.  Once there is a URL only the analysis is    *)
(* still added to the log directory.                                       *)
THEOREM ArtifactsUpload == Spec => []UploadInv
BY UploadInvInit, UploadInvStep, PTL DEF Spec

(* A URL is only reported for an upload that ended and that has all that   *)
(* there is in the log directory but the analysis, before the analyzer     *)
(* runs, and the last report agrees.                                       *)
THEOREM ArtifactsPointerMeansUploaded == Spec => []PointerMeansUploaded
<1>1. UploadInv => PointerMeansUploaded
  BY DEF UploadInv, Delivered, Complete, Reported, PointerMeansUploaded
<1> QED
  BY <1>1, ArtifactsUpload, PTL

-----------------------------------------------------------------------------
(* The packages of a fingerprint.                                          *)

(* The dictionary after the first lines, up to a last one.                 *)
Table(lines, k, f) ==
    f = [i \in 0 .. k |-> IF i = 0 THEN [n \in NamesIn(lines) |-> ""]
                          ELSE [f[i - 1] EXCEPT ![Lower[lines[i].name]] = lines[i].version]]

LEMMA TableExists ==
    ASSUME NEW lines, NEW last \in Nat
    PROVE  \E f : Table(lines, last, f)
<1> DEFINE Bad == {k \in Nat : ~ \E f : Table(lines, k, f)}
<1>1. SUFFICES ASSUME Bad # {} PROVE FALSE
  OBVIOUS
<1>2. PICK k \in Bad : \A y \in Bad : k <= y
  <2>1. Bad \in SUBSET Nat
    OBVIOUS
  <2> HIDE DEF Bad
  <2> QED
    BY <1>1, <2>1, FirstOf
<1>3. CASE k = 0
  <2> DEFINE f == [i \in 0 .. 0 |-> [n \in NamesIn(lines) |-> ""]]
  <2>1. \A i \in 0 .. 0 : i = 0
    OBVIOUS
  <2>2. Table(lines, 0, f)
    BY <2>1 DEF Table
  <2> QED
    BY <1>2, <1>3, <2>2
<1>4. CASE k # 0
  <2>1. k - 1 \in Nat /\ k - 1 \notin Bad
    BY <1>2, <1>4
  <2>2. PICK g : Table(lines, k - 1, g)
    BY <2>1
  <2> DEFINE f == [i \in 0 .. k |-> IF i = k THEN [g[k - 1] EXCEPT ![Lower[lines[k].name]] = lines[k].version] ELSE g[i]]
             Entry(h, i) == IF i = 0 THEN [n \in NamesIn(lines) |-> ""]
                          ELSE [h[i - 1] EXCEPT ![Lower[lines[i].name]] = lines[i].version]
  <2>3. ASSUME NEW i \in 0 .. k PROVE f[i] = Entry(f, i)
    <3>1. CASE i = k
      <4>1. f[k - 1] = g[k - 1] /\ k - 1 \in 0 .. k
        BY <2>1
      <4> QED
        BY <1>4, <3>1, <4>1
    <3>2. CASE i # k
      <4>1. i \in 0 .. k - 1 /\ f[i] = g[i] /\ (i # 0 => f[i - 1] = g[i - 1])
        BY <2>1, <3>2, SMTT(30)
      <4>2. g[i] = Entry(g, i)
        BY <2>2, <4>1 DEF Table
      <4> QED
        BY <4>1, <4>2
    <3> QED
      BY <3>1, <3>2
  <2>4. f = [i \in 0 .. k |-> Entry(f, i)]
    <3>1. f = [i \in 0 .. k |-> f[i]]
      OBVIOUS
    <3> HIDE DEF f, Entry
    <3> QED
      BY <2>3, <3>1
  <2>5. Table(lines, k, f)
    BY <2>4 DEF Table
  <2> QED
    BY <1>2, <2>5
<1> QED
  BY <1>3, <1>4

LEMMA ParsedTable ==
    ASSUME NEW lines, Len(lines) \in Nat
    PROVE  \E f : Table(lines, Len(lines), f) /\ Parsed(lines) = f[Len(lines)]
<1>1. \E f : Table(lines, Len(lines), f)
  BY TableExists
<1> QED
  BY <1>1 DEF Parsed, Table

(* _parse_pip_packages: every package that a line names, in the version of *)
(* the last line that does.                                                *)
LEMMA ParsedIs ==
    ASSUME NEW S, NEW lines \in Seq(S)
    PROVE  /\ Parsed(lines) = [n \in NamesIn(lines) |-> Parsed(lines)[n]]
           /\ \A i \in LastOf(lines) : Parsed(lines)[Lower[lines[i].name]] = lines[i].version
<1> DEFINE last == Len(lines)
           Name(i) == Lower[lines[i].name]
           names == NamesIn(lines)
<1>1. last \in Nat /\ DOMAIN lines = 1 .. last
  OBVIOUS
<1>2. PICK after : Table(lines, last, after) /\ Parsed(lines) = after[last]
  BY <1>1, ParsedTable
<1>3. /\ after[0] = [n \in names |-> ""]
      /\ \A i \in 1 .. last : after[i] = [after[i - 1] EXCEPT ![Name(i)] = lines[i].version]
  <2>1. \A i \in 0 .. last :
          after[i] = IF i = 0 THEN [n \in names |-> ""] ELSE [after[i - 1] EXCEPT ![Name(i)] = lines[i].version]
    BY <1>2 DEF Table
  <2>2. 0 \in 0 .. last /\ \A i \in 1 .. last : i \in 0 .. last /\ i # 0
    BY <1>1
  <2> HIDE DEF last, Name, names
  <2> QED
    BY <2>1, <2>2
<1>4. \A i \in 1 .. last : Name(i) \in names
  BY <1>1 DEF NamesIn
<1> DEFINE Good(k) == /\ after[k] = [n \in names |-> after[k][n]]
                      /\ \A i \in 1 .. k : (\A j \in i + 1 .. k : Name(j) # Name(i)) => after[k][Name(i)] = lines[i].version
<1> HIDE DEF last, Name, names
<1>5. ASSUME NEW k \in 1 .. last, Good(k - 1) PROVE Good(k)
  <2>1. after[k] = [n \in names |-> IF n = Name(k) THEN lines[k].version ELSE after[k - 1][n]]
    BY <1>3, <1>5
  <2>2. ASSUME NEW i \in 1 .. k, \A j \in i + 1 .. k : Name(j) # Name(i)
        PROVE  after[k][Name(i)] = lines[i].version
    <3>1. CASE i = k
      BY <1>4, <2>1, <3>1
    <3>2. CASE i # k
      <4>1. i \in 1 .. k - 1 /\ k \in i + 1 .. k /\ i \in 1 .. last
        BY <1>1, <3>2
      <4>2. after[k - 1][Name(i)] = lines[i].version
        BY <1>1, <1>5, <2>2, <4>1
      <4>3. Name(k) # Name(i)
        BY <2>2, <4>1
      <4> QED
        BY <1>4, <2>1, <4>1, <4>2, <4>3
    <3> QED
      BY <3>1, <3>2
  <2> QED
    BY <2>1, <2>2
<1>6. \A k \in 0 .. last : Good(k)
  <2> DEFINE Bad == {k \in 0 .. last : ~Good(k)}
  <2>1. SUFFICES ASSUME Bad # {} PROVE FALSE
    OBVIOUS
  <2>2. PICK k \in Bad : \A y \in Bad : k <= y
    <3>1. Bad \in SUBSET Nat
      BY <1>1
    <3> HIDE DEF Bad
    <3> QED
      BY <2>1, <3>1, FirstOf
  <2>3. CASE k = 0
    <3>1. after[0] = [n \in names |-> after[0][n]]
      BY <1>3
    <3>2. \A i \in 1 .. 0 : FALSE
      OBVIOUS
    <3>3. Good(0)
      BY <3>1, <3>2
    <3> HIDE DEF Good
    <3> QED
      BY <2>2, <2>3, <3>3
  <2>4. CASE k # 0
    <3>1. k \in 1 .. last /\ k - 1 \in 0 .. last /\ ~(k <= k - 1)
      BY <1>1, <2>2, <2>4
    <3>2. k - 1 \notin Bad
      BY <2>2, <3>1
    <3> HIDE DEF Good
    <3>3. Good(k - 1)
      BY <3>1, <3>2
    <3> QED
      BY <1>5, <2>2, <3>1, <3>3
  <2> QED
    BY <2>3, <2>4
<1>7. Good(last)
  BY <1>1, <1>6
<1>8. ASSUME NEW i \in LastOf(lines) PROVE Parsed(lines)[Name(i)] = lines[i].version
  <2>1. i \in 1 .. last /\ \A j \in 1 .. last : Name(j) = Name(i) => j <= i
    BY <1>1 DEF LastOf, Name
  <2>2. \A j \in i + 1 .. last : Name(j) # Name(i)
    BY <1>1, <2>1
  <2> QED
    BY <1>2, <1>7, <2>1, <2>2
<1> QED
  BY <1>2, <1>7, <1>8 DEF Name, names

(* A package that some line names has a last line.                         *)
LEMMA LastLine ==
    ASSUME NEW S, NEW lines \in Seq(S), NEW n \in NamesIn(lines)
    PROVE  \E i \in LastOf(lines) : Lower[lines[i].name] = n
<1> DEFINE I == {i \in DOMAIN lines : Lower[lines[i].name] = n}
<1>1. Len(lines) \in Nat /\ DOMAIN lines = 1 .. Len(lines) /\ I # {}
  BY DEF NamesIn
<1>2. I \in SUBSET (0 .. Len(lines)) /\ \A i \in I : i \in DOMAIN lines /\ Lower[lines[i].name] = n
  BY <1>1
<1>3. \A i \in DOMAIN lines : Lower[lines[i].name] = n => i \in I
  OBVIOUS
<1> HIDE DEF I
<1>4. Max(I) \in I /\ \A i \in I : Max(I) >= i
  BY <1>1, <1>2, Extremes
<1>5. \A j \in DOMAIN lines : Lower[lines[j].name] = Lower[lines[Max(I)].name] => j <= Max(I)
  <2> TAKE j \in DOMAIN lines
  <2> HAVE Lower[lines[j].name] = Lower[lines[Max(I)].name]
  <2>1. j \in I
    BY <1>2, <1>3, <1>4
  <2> QED
    BY <1>1, <1>2, <1>4, <2>1
<1>6. Max(I) \in LastOf(lines)
  BY <1>2, <1>4, <1>5 DEF LastOf
<1> QED
  BY <1>2, <1>4, <1>6

(* What ComparisonsAreExact says is listed is what the code has parsed.    *)
PackagesOf(p) == {<<"package", n, p[n]>> : n \in DOMAIN p}
LastLines(lines) == {<<"package", Lower[lines[i].name], lines[i].version>> : i \in LastOf(lines)}

LEMMA ParsedIsListed ==
    ASSUME NEW S, NEW lines \in Seq(S)
    PROVE  PackagesOf(Parsed(lines)) = LastLines(lines)
<1>1. DOMAIN Parsed(lines) = NamesIn(lines)
  BY ParsedIs
<1>2. \A i \in LastOf(lines) : /\ Parsed(lines)[Lower[lines[i].name]] = lines[i].version
                               /\ Lower[lines[i].name] \in NamesIn(lines)
  BY ParsedIs DEF LastOf, NamesIn
<1>3. ASSUME NEW x \in PackagesOf(Parsed(lines)) PROVE x \in LastLines(lines)
  <2>1. PICK n \in NamesIn(lines) : x = <<"package", n, Parsed(lines)[n]>>
    BY <1>1 DEF PackagesOf
  <2>2. PICK i \in LastOf(lines) : Lower[lines[i].name] = n
    BY LastLine
  <2> QED
    BY <1>2, <2>1, <2>2 DEF LastLines
<1>4. ASSUME NEW x \in LastLines(lines) PROVE x \in PackagesOf(Parsed(lines))
  <2>1. PICK i \in LastOf(lines) : x = <<"package", Lower[lines[i].name], lines[i].version>>
    BY DEF LastLines
  <2> QED
    BY <1>1, <1>2, <2>1 DEF PackagesOf
<1> QED
  BY <1>3, <1>4

(* The dictionaries are functions: two that list the same are the same.    *)
LEMMA SamePackages ==
    ASSUME NEW S, NEW one \in Seq(S), NEW two \in Seq(S),
           PackagesOf(Parsed(one)) = PackagesOf(Parsed(two))
    PROVE  Parsed(one) = Parsed(two)
<1> DEFINE p == Parsed(one)
           q == Parsed(two)
<1>1. p = [n \in DOMAIN p |-> p[n]] /\ q = [n \in DOMAIN q |-> q[n]]
  BY ParsedIs
<1> HIDE DEF p, q
<1>2. ASSUME NEW n \in DOMAIN p PROVE n \in DOMAIN q /\ q[n] = p[n]
  <2>1. <<"package", n, p[n]>> \in PackagesOf(q)
    BY DEF PackagesOf, p, q
  <2> QED
    BY <2>1 DEF PackagesOf
<1>3. ASSUME NEW n \in DOMAIN q PROVE n \in DOMAIN p
  <2>1. <<"package", n, q[n]>> \in PackagesOf(p)
    BY DEF PackagesOf, p, q
  <2> QED
    BY <2>1 DEF PackagesOf
<1>4. DOMAIN p = DOMAIN q
  BY <1>2, <1>3
<1>5. p = q
  BY <1>1, <1>2, <1>4
<1> QED
  BY <1>5 DEF p, q

(* The lines of all the pip commands of an environment, and of those that  *)
(* are not the virtual environment's.                                      *)
SystemLines(e) == e.pip["python3"] \o (e.pip["pip"] \o e.pip["uv"])
AllLines(e) == e.pip["venv"] \o SystemLines(e)
Entries == [name : DOMAIN Lower, version : STRING]

LEMMA SourcesAre ==
    /\ ToSet(Sources) = {"venv", "python3", "pip", "uv"}
    /\ ToSet(Tail(Sources)) = {"python3", "pip", "uv"}
<1>1. /\ DOMAIN Sources = 1 .. 4 /\ Sources[1] = "venv" /\ Sources[2] = "python3"
      /\ Sources[3] = "pip" /\ Sources[4] = "uv"
  BY DEF Sources
<1>2. 1 .. 4 = {1, 2, 3, 4} /\ 1 .. 3 = {1, 2, 3}
  OBVIOUS
<1>3. ToSet(Sources) = {Sources[1], Sources[2], Sources[3], Sources[4]}
  BY <1>1, <1>2 DEF ToSet
<1> DEFINE T == <<"python3", "pip", "uv">>
<1>4. Tail(Sources) = T
  BY DEF Sources
<1>5. DOMAIN T = 1 .. 3 /\ T[1] = "python3" /\ T[2] = "pip" /\ T[3] = "uv"
  OBVIOUS
<1> HIDE DEF T
<1>6. ToSet(T) = {T[1], T[2], T[3]}
  BY <1>2, <1>5 DEF ToSet
<1> QED
  BY <1>1, <1>3, <1>4, <1>5, <1>6

LEMMA LinesAre ==
    ASSUME NEW name \in DOMAIN Environments
    PROVE  LET e == Environments[name] IN
           /\ \A s \in {"venv", "python3", "pip", "uv"} : e.pip[s] \in Seq(Entries)
           /\ SystemLines(e) \in Seq(Entries) /\ AllLines(e) \in Seq(Entries)
<1> DEFINE e == Environments[name]
<1>1. e.pip \in [ToSet(Sources) -> Seq(Entries)]
  BY EnvironmentsAssumption DEF Entries
<1> HIDE DEF e
<1>2. \A s \in {"venv", "python3", "pip", "uv"} : e.pip[s] \in Seq(Entries)
  BY <1>1, SourcesAre
<1>3. e.pip["pip"] \o e.pip["uv"] \in Seq(Entries)
  BY <1>2, ConcatProperties
<1>4. SystemLines(e) \in Seq(Entries)
  BY <1>2, <1>3, ConcatProperties DEF SystemLines
<1>5. AllLines(e) \in Seq(Entries)
  BY <1>2, <1>4, ConcatProperties DEF AllLines
<1> QED
  BY <1>2, <1>4, <1>5 DEF e

(* What the packages of a capture are parsed from.                         *)
LEMMA WorkerPackages ==
    ASSUME NEW name \in DOMAIN Environments, NEW failing
    PROVE  LET e == Environments[name] IN
           Packages(WorkerCapture(e, failing)) = Parsed(IF "pip" \in failing THEN << >> ELSE AllLines(e))
<1> DEFINE e == Environments[name]
           lists == IF "pip" \in failing THEN << >> ELSE PipOf(e, Sources)
<1>1. Packages(WorkerCapture(e, failing)) = Parsed(Lines(lists))
  BY DEF Packages, WorkerCapture
<1>2. Lines(<< >>) = << >>
  <2>1. \A s : Get(<< >>, s, << >>) = IF s \in {} THEN << >>[s] ELSE << >>
    BY DEF Get
  <2>2. << >> \o << >> = << >>
    OBVIOUS
  <2> QED
    BY <2>1, <2>2 DEF Lines
<1>3. Lines(PipOf(e, Sources)) = AllLines(e)
  <2>1. \A s \in {"venv", "python3", "pip", "uv"} : Get(PipOf(e, Sources), s, << >>) = e.pip[s]
    BY SourcesAre DEF Get, PipOf
  <2> QED
    BY <2>1 DEF Lines, AllLines, SystemLines
<1> QED
  BY <1>1, <1>2, <1>3

LEMMA SystemPackages ==
    ASSUME NEW name \in DOMAIN Environments
    PROVE  LET e == Environments[name] IN Packages(Capture(e, {})) = Parsed(SystemLines(e))
<1> DEFINE e == Environments[name]
           found == PipOf(e, Tail(Sources))
<1>1. Lines(found) = SystemLines(e)
  <2>1. /\ \A s \in {"python3", "pip", "uv"} : Get(found, s, << >>) = e.pip[s]
        /\ Get(found, "venv", << >>) = << >>
    BY SourcesAre DEF Get, PipOf
  <2>2. << >> \o SystemLines(e) = SystemLines(e)
    BY LinesAre, ConcatEmptySeq
  <2> QED
    BY <2>1, <2>2 DEF Lines, SystemLines
<1>2. CASE DOMAIN found = {}
  <2>1. Packages(Capture(e, {})) = Parsed(<< >>)
    BY <1>2 DEF Packages, Capture
  <2>2. Lines(found) = << >>
    <3>1. \A s \in {"venv", "python3", "pip", "uv"} : Get(found, s, << >>) = << >>
      BY <1>2 DEF Get
    <3>2. << >> \o << >> = << >>
      OBVIOUS
    <3> HIDE DEF found
    <3> QED
      BY <3>1, <3>2 DEF Lines
  <2> QED
    BY <1>1, <2>1, <2>2
<1>3. CASE DOMAIN found # {}
  BY <1>1, <1>3 DEF Packages, Capture
<1> QED
  BY <1>2, <1>3

(* What is listed is what was parsed.                                      *)
LEMMA ListedIs ==
    ASSUME NEW name \in DOMAIN Environments
    PROVE  LET e == Environments[name] IN
           /\ Listed(e, Sources) = PackagesOf(Parsed(AllLines(e)))
           /\ Listed(e, Tail(Sources)) = PackagesOf(Parsed(SystemLines(e)))
<1> DEFINE e == Environments[name]
<1>1. Listed(e, Sources) = LastLines(AllLines(e))
  BY SourcesAre, ZenonT(60) DEF Listed, LastLines, AllLines, SystemLines
<1>2. Listed(e, Tail(Sources)) = LastLines(SystemLines(e))
  <2>1. << >> \o SystemLines(e) = SystemLines(e)
    BY LinesAre, ConcatEmptySeq
  <2> QED
    BY <2>1, SourcesAre DEF Listed, LastLines, SystemLines
<1> QED
  BY <1>1, <1>2, LinesAre, ParsedIsListed

(* A capture shows facts of five kinds.                                    *)
ShownScalars(c) == {<<"scalar", f, VersionOf(Environments[c.env], f)>> : f \in Scalars \ c.failing}
ShownFrameworks(c) ==
    LET frameworks == Environments[c.env].python["worker"].frameworks
    IN  {<<"framework", n, frameworks[n]>> : n \in DOMAIN frameworks}
ShownVars(c) == {<<"env", Environments[c.env].vars>>}
ShownGpus(c) ==
    LET e == Environments[c.env] IN
    If("gpu" \notin c.failing /\ e.gpus # << >>, <<"gpu", Len(e.gpus), e.gpus[1].name, e.gpus[1].driver>>)
ShownPackages(c) ==
    IF "pip" \in c.failing THEN {} ELSE PackagesOf(Parsed(AllLines(Environments[c.env])))

LEMMA ShowsIs ==
    ASSUME NEW c, c.env \in DOMAIN Environments
    PROVE  Shows(c) = ShownScalars(c) \cup ShownFrameworks(c) \cup ShownVars(c)
                      \cup ShownGpus(c) \cup ShownPackages(c)
BY ListedIs DEF Shows, ShownScalars, ShownFrameworks, ShownVars, ShownGpus, ShownPackages

LEMMA ShownByKind ==
    ASSUME NEW c, c.env \in DOMAIN Environments
    PROVE  /\ ShownScalars(c) = {x \in Shows(c) : x[1] = "scalar"}
           /\ ShownFrameworks(c) = {x \in Shows(c) : x[1] = "framework"}
           /\ ShownVars(c) = {x \in Shows(c) : x[1] = "env"}
           /\ ShownGpus(c) = {x \in Shows(c) : x[1] = "gpu"}
           /\ ShownPackages(c) = {x \in Shows(c) : x[1] = "package"}
<1>1. /\ \A x \in ShownScalars(c) : x[1] = "scalar"
      /\ \A x \in ShownFrameworks(c) : x[1] = "framework"
      /\ \A x \in ShownVars(c) : x[1] = "env"
      /\ \A x \in ShownGpus(c) : x[1] = "gpu"
      /\ \A x \in ShownPackages(c) : x[1] = "package"
  BY DEF ShownScalars, ShownFrameworks, ShownVars, ShownGpus, ShownPackages, PackagesOf, If
<1> QED
  BY <1>1, ShowsIs

LEMMA SameShows ==
    ASSUME NEW one, NEW two, one.env \in DOMAIN Environments, two.env \in DOMAIN Environments
    PROVE  Shows(one) = Shows(two) <=>
              /\ ShownScalars(one) = ShownScalars(two) /\ ShownFrameworks(one) = ShownFrameworks(two)
              /\ ShownVars(one) = ShownVars(two) /\ ShownGpus(one) = ShownGpus(two)
              /\ ShownPackages(one) = ShownPackages(two)
BY ShowsIs, ShownByKind

(* What the report compares of the probes with a scalar answer.            *)
LEMMA ScalarField ==
    ASSUME NEW c, NEW f \in Scalars
    PROVE  Short(FieldOf(FpOf(c), f)) =
              IF f \in c.failing THEN Unavailable ELSE Found(VersionOf(Environments[c.env], f))
<1> DEFINE e == Environments[c.env]
<1>1. FieldOf(FpOf(c), f) = IF f \in c.failing THEN Unavailable ELSE Answer(e, "worker", f)
  BY EnvironmentsAssumption DEF FieldOf, FpOf, WorkerCapture, ScalarsOf
<1>2. /\ \A text : Short(Found(text)) = Found(text) /\ Short(Tuple(text)) = Found(text)
      /\ \A cuda : Short(ReleaseLine(cuda)) = Found(cuda.release)
      /\ Short(Unavailable) = Unavailable
  BY DEF Short, Found, Tuple, ReleaseLine, Unavailable
<1> HIDE DEF e
<1>3. Short(Answer(e, "worker", f)) = Found(VersionOf(e, f))
  <2>1. CASE f = "cuda_version"
    <3>1. f \notin AskedOfPython
      BY <2>1 DEF AskedOfPython
    <3> QED
      BY <1>2, <2>1, <3>1 DEF Answer, VersionOf
  <2>2. CASE f = "nccl_version"
    <3>1. f \in AskedOfPython
      BY <2>2 DEF AskedOfPython
    <3> QED
      BY <1>2, <2>2, <3>1 DEF Answer, VersionOf
  <2>3. CASE f = "python_version"
    <3>1. f \in AskedOfPython
      BY <2>3 DEF AskedOfPython
    <3> QED
      BY <1>2, <2>3, <3>1 DEF Answer, VersionOf
  <2>4. CASE f \notin {"cuda_version", "nccl_version", "python_version"}
    <3>1. f \notin AskedOfPython
      BY <2>4 DEF AskedOfPython
    <3> QED
      BY <1>2, <2>4, <3>1 DEF Answer, VersionOf
  <2> QED
    BY <2>1, <2>2, <2>3, <2>4
<1> QED
  BY <1>1, <1>2, <1>3 DEF e

LEMMA SameScalars ==
    ASSUME NEW one, NEW two
    PROVE  (\A f \in Scalars : Short(FieldOf(FpOf(one), f)) = Short(FieldOf(FpOf(two), f)))
              <=> ShownScalars(one) = ShownScalars(two)
<1> DEFINE Value(c, f) == VersionOf(Environments[c.env], f)
<1>1. ASSUME NEW f \in Scalars
      PROVE  Short(FieldOf(FpOf(one), f)) = Short(FieldOf(FpOf(two), f))
                <=> /\ f \in one.failing <=> f \in two.failing
                    /\ f \notin one.failing => Value(one, f) = Value(two, f)
  <2>1. \A x, y : Found(x) # Unavailable /\ (Found(x) = Found(y) <=> x = y)
    BY DEF Found, Unavailable
  <2> QED
    BY <2>1, ScalarField
<1>2. \A c : ShownScalars(c) = {<<"scalar", f, Value(c, f)>> : f \in Scalars \ c.failing}
  BY DEF ShownScalars
<1> HIDE DEF Value
<1>3. ASSUME ShownScalars(one) = ShownScalars(two), NEW f \in Scalars
      PROVE  /\ f \in one.failing <=> f \in two.failing
             /\ f \notin one.failing => Value(one, f) = Value(two, f)
  <2>1. f \notin one.failing => <<"scalar", f, Value(one, f)>> \in ShownScalars(two)
    BY <1>2, <1>3
  <2>2. f \notin two.failing => <<"scalar", f, Value(two, f)>> \in ShownScalars(one)
    BY <1>2, <1>3
  <2> QED
    BY <1>2, <2>1, <2>2
<1>4. ASSUME \A f \in Scalars : /\ f \in one.failing <=> f \in two.failing
                                /\ f \notin one.failing => Value(one, f) = Value(two, f)
      PROVE  ShownScalars(one) = ShownScalars(two)
  <2>1. ASSUME NEW x \in ShownScalars(one) PROVE x \in ShownScalars(two)
    <3>1. PICK f \in Scalars \ one.failing : x = <<"scalar", f, Value(one, f)>>
      BY <1>2, <2>1
    <3>2. f \in Scalars /\ f \notin one.failing /\ f \notin two.failing
      BY <1>4, <3>1
    <3>3. Value(one, f) = Value(two, f)
      BY <1>4, <3>2
    <3>4. x = <<"scalar", f, Value(two, f)>>
      BY <3>1, <3>3
    <3> QED
      BY <1>2, <3>2, <3>4
  <2>2. ASSUME NEW x \in ShownScalars(two) PROVE x \in ShownScalars(one)
    <3>1. PICK f \in Scalars \ two.failing : x = <<"scalar", f, Value(two, f)>>
      BY <1>2, <2>2
    <3>2. f \in Scalars /\ f \notin one.failing /\ f \notin two.failing
      BY <1>4, <3>1
    <3>3. Value(one, f) = Value(two, f)
      BY <1>4, <3>2
    <3>4. x = <<"scalar", f, Value(one, f)>>
      BY <3>1, <3>3
    <3> QED
      BY <1>2, <3>2, <3>4
  <2> QED
    BY <2>1, <2>2
<1> QED
  BY <1>1, <1>3, <1>4

(* What it compares of the GPUs: how many, the first one's name, the driver. *)
GpusFound(c) == IF "gpu" \in c.failing THEN << >> ELSE Environments[c.env].gpus

LEMMA GpusAre ==
    ASSUME NEW c, c.env \in DOMAIN Environments
    PROVE  /\ GpusFound(c) \in Seq([name : STRING, driver : STRING])
           /\ GpuLabel(FpOf(c)) =
                 <<Len(GpusFound(c)), IF GpusFound(c) = << >> THEN "?" ELSE GpusFound(c)[1].name>>
           /\ Short(FieldOf(FpOf(c), DriverField)) =
                 IF GpusFound(c) = << >> THEN Unavailable ELSE Found(GpusFound(c)[1].driver)
<1> DEFINE gpus == GpusFound(c)
           names == [i \in DOMAIN gpus |-> gpus[i].name]
<1>1. gpus \in Seq([name : STRING, driver : STRING])
  BY EnvironmentsAssumption DEF GpusFound
<1>2. /\ FpOf(c).gpu.ok = TRUE /\ FpOf(c).gpu.names = names
      /\ FpOf(c).gpu.driver = IF gpus = << >> THEN Unavailable ELSE Found(Head(gpus).driver)
  BY DEF FpOf, WorkerCapture, GpusFound
<1> HIDE DEF gpus
<1>3. Len(gpus) \in Nat /\ DOMAIN gpus = 1 .. Len(gpus) /\ (gpus # << >> => 1 \in DOMAIN gpus /\ Head(gpus) = gpus[1])
  BY <1>1
<1>4. Len(names) = Len(gpus) /\ (names = << >> <=> gpus = << >>)
  BY <1>1, <1>3
<1>5. GpuLabel(FpOf(c)) = <<Len(gpus), IF gpus = << >> THEN "?" ELSE gpus[1].name>>
  BY <1>2, <1>3, <1>4 DEF GpuLabel
<1>6. FieldOf(FpOf(c), DriverField) = IF gpus = << >> THEN Unavailable ELSE Found(gpus[1].driver)
  BY <1>2, <1>3 DEF FieldOf, Driver
<1>7. \A text : Short(Found(text)) = Found(text)
  BY DEF Short, Found
<1>8. Short(Unavailable) = Unavailable
  BY DEF Short, Unavailable
<1> QED
  BY <1>1, <1>5, <1>6, <1>7, <1>8 DEF gpus

LEMMA SameGpus ==
    ASSUME NEW one, NEW two, one.env \in DOMAIN Environments, two.env \in DOMAIN Environments
    PROVE  (/\ GpuLabel(FpOf(one)) = GpuLabel(FpOf(two))
            /\ Short(FieldOf(FpOf(one), DriverField)) = Short(FieldOf(FpOf(two), DriverField)))
              <=> ShownGpus(one) = ShownGpus(two)
<1> DEFINE g == GpusFound(one)
           h == GpusFound(two)
<1>1. /\ ShownGpus(one) = IF g = << >> THEN {} ELSE {<<"gpu", Len(g), g[1].name, g[1].driver>>}
      /\ ShownGpus(two) = IF h = << >> THEN {} ELSE {<<"gpu", Len(h), h[1].name, h[1].driver>>}
  BY DEF ShownGpus, GpusFound, If
<1>2. /\ g \in Seq([name : STRING, driver : STRING]) /\ h \in Seq([name : STRING, driver : STRING])
      /\ GpuLabel(FpOf(one)) = <<Len(g), IF g = << >> THEN "?" ELSE g[1].name>>
      /\ GpuLabel(FpOf(two)) = <<Len(h), IF h = << >> THEN "?" ELSE h[1].name>>
      /\ Short(FieldOf(FpOf(one), DriverField)) = IF g = << >> THEN Unavailable ELSE Found(g[1].driver)
      /\ Short(FieldOf(FpOf(two), DriverField)) = IF h = << >> THEN Unavailable ELSE Found(h[1].driver)
  BY GpusAre
<1> HIDE DEF g, h
<1>3. \A x, y : Found(x) # Unavailable /\ (Found(x) = Found(y) <=> x = y)
  BY DEF Found, Unavailable
<1>4. CASE g = << >> \/ h = << >>
  <2>1. CASE g = << >> /\ h = << >>
    <3>1. ShownGpus(one) = ShownGpus(two)
      BY <1>1, <2>1
    <3>2. GpuLabel(FpOf(one)) = GpuLabel(FpOf(two))
      BY <1>2, <2>1
    <3>3. Short(FieldOf(FpOf(one), DriverField)) = Short(FieldOf(FpOf(two), DriverField))
      BY <1>2, <2>1
    <3> QED
      BY <3>1, <3>2, <3>3
  <2>2. CASE g = << >> /\ h # << >>
    <3>1. ShownGpus(one) # ShownGpus(two)
      BY <1>1, <2>2
    <3>2. Short(FieldOf(FpOf(one), DriverField)) # Short(FieldOf(FpOf(two), DriverField))
      BY <1>2, <1>3, <2>2
    <3> QED
      BY <3>1, <3>2
  <2>3. CASE g # << >> /\ h = << >>
    <3>1. ShownGpus(one) # ShownGpus(two)
      BY <1>1, <2>3
    <3>2. Short(FieldOf(FpOf(one), DriverField)) # Short(FieldOf(FpOf(two), DriverField))
      BY <1>2, <1>3, <2>3
    <3> QED
      BY <3>1, <3>2
  <2> QED
    BY <1>4, <2>1, <2>2, <2>3
<1>5. CASE g # << >> /\ h # << >>
  <2>1. GpuLabel(FpOf(one)) = GpuLabel(FpOf(two)) <=> Len(g) = Len(h) /\ g[1].name = h[1].name
    BY <1>2, <1>5
  <2>2. Short(FieldOf(FpOf(one), DriverField)) = Short(FieldOf(FpOf(two), DriverField))
           <=> g[1].driver = h[1].driver
    BY <1>2, <1>3, <1>5
  <2>3. ShownGpus(one) = ShownGpus(two)
           <=> Len(g) = Len(h) /\ g[1].name = h[1].name /\ g[1].driver = h[1].driver
    <3>1. /\ ShownGpus(one) = {<<"gpu", Len(g), g[1].name, g[1].driver>>}
          /\ ShownGpus(two) = {<<"gpu", Len(h), h[1].name, h[1].driver>>}
      BY <1>1, <1>5
    <3>2. \A x, y : {x} = {y} <=> x = y
      OBVIOUS
    <3>3. <<"gpu", Len(g), g[1].name, g[1].driver>> = <<"gpu", Len(h), h[1].name, h[1].driver>>
             <=> Len(g) = Len(h) /\ g[1].name = h[1].name /\ g[1].driver = h[1].driver
      OBVIOUS
    <3> QED
      BY <3>1, <3>2, <3>3
  <2> QED
    BY <2>1, <2>2, <2>3
<1> QED
  BY <1>4, <1>5

(* Of a framework that a worker does not have it shows "?", which is no    *)
(* version.                                                                *)
LEMMA SameFrameworks ==
    ASSUME NEW one, NEW two, one.env \in DOMAIN Environments, two.env \in DOMAIN Environments
    PROVE  (\A n \in DOMAIN FpOf(one).frameworks \cup DOMAIN FpOf(two).frameworks :
              Get(FpOf(one).frameworks, n, "?") = Get(FpOf(two).frameworks, n, "?"))
              <=> ShownFrameworks(one) = ShownFrameworks(two)
<1> DEFINE p == Environments[one.env].python["worker"].frameworks
           q == Environments[two.env].python["worker"].frameworks
<1>1. FpOf(one).frameworks = p /\ FpOf(two).frameworks = q
  BY DEF FpOf, WorkerCapture
<1>2. (\A n \in DOMAIN p : p[n] # "?") /\ (\A n \in DOMAIN q : q[n] # "?")
  BY EnvironmentsAssumption
<1>3. /\ ShownFrameworks(one) = {<<"framework", n, p[n]>> : n \in DOMAIN p}
      /\ ShownFrameworks(two) = {<<"framework", n, q[n]>> : n \in DOMAIN q}
  BY DEF ShownFrameworks
<1> HIDE DEF p, q
<1>4. (\A n \in DOMAIN p \cup DOMAIN q : Get(p, n, "?") = Get(q, n, "?"))
         <=> DOMAIN p = DOMAIN q /\ \A n \in DOMAIN p : p[n] = q[n]
  BY <1>2 DEF Get
<1>5. ASSUME ShownFrameworks(one) = ShownFrameworks(two)
      PROVE  DOMAIN p = DOMAIN q /\ \A n \in DOMAIN p : p[n] = q[n]
  <2>1. \A n \in DOMAIN p : <<"framework", n, p[n]>> \in ShownFrameworks(two)
    BY <1>3, <1>5
  <2>2. \A n \in DOMAIN q : <<"framework", n, q[n]>> \in ShownFrameworks(one)
    BY <1>3, <1>5
  <2>3. \A n \in DOMAIN p : n \in DOMAIN q /\ p[n] = q[n]
    BY <1>3, <2>1
  <2>4. \A n \in DOMAIN q : n \in DOMAIN p
    BY <1>3, <2>2
  <2> QED
    BY <2>3, <2>4
<1>6. ASSUME DOMAIN p = DOMAIN q, \A n \in DOMAIN p : p[n] = q[n]
      PROVE  ShownFrameworks(one) = ShownFrameworks(two)
  BY <1>3, <1>6
<1> QED
  BY <1>1, <1>4, <1>5, <1>6

LEMMA NothingParsed == PackagesOf(Parsed(<< >>)) = {}
<1>1. << >> \in Seq(Entries) /\ DOMAIN << >> = {}
  OBVIOUS
<1>2. DOMAIN Parsed(<< >>) = NamesIn(<< >>)
  BY <1>1, ParsedIs
<1> QED
  BY <1>1, <1>2 DEF NamesIn, PackagesOf

LEMMA SamePackagesShown ==
    ASSUME NEW one, NEW two, one.env \in DOMAIN Environments, two.env \in DOMAIN Environments
    PROVE  Packages(FpOf(one)) = Packages(FpOf(two)) <=> ShownPackages(one) = ShownPackages(two)
<1> DEFINE LinesOf(c) == IF "pip" \in c.failing THEN << >> ELSE AllLines(Environments[c.env])
<1>1. ASSUME NEW c, c.env \in DOMAIN Environments
      PROVE  /\ LinesOf(c) \in Seq(Entries) /\ Packages(FpOf(c)) = Parsed(LinesOf(c))
             /\ ShownPackages(c) = PackagesOf(Parsed(LinesOf(c)))
  <2>1. LinesOf(c) \in Seq(Entries)
    BY <1>1, LinesAre
  <2>2. Packages(FpOf(c)) = Parsed(LinesOf(c))
    BY <1>1, WorkerPackages DEF FpOf
  <2>3. PackagesOf(Parsed(<< >>)) = {}
    BY NothingParsed
  <2>4. ShownPackages(c) = PackagesOf(Parsed(LinesOf(c)))
    BY <2>3 DEF ShownPackages
  <2> QED
    BY <2>1, <2>2, <2>4
<1> HIDE DEF LinesOf
<1> QED
  BY <1>1, SamePackages

(* A worker has no issues exactly if its captures show the same.           *)
LEMMA NoIssuesOfWorker ==
    ASSUME NEW w, NEW one, NEW two, one.env \in DOMAIN Environments, two.env \in DOMAIN Environments
    PROVE  WorkerIssues(w, FpOf(one), FpOf(two)) = {} <=> Shows(one) = Shows(two)
<1> DEFINE p == FpOf(one)
           n == FpOf(two)
           Fws == DOMAIN p.frameworks \cup DOMAIN n.frameworks
<1>1. WorkerIssues(w, p, n) = {} <=>
         /\ GpuLabel(p) = GpuLabel(n)
         /\ \A f \in Fields : Short(FieldOf(p, f)) = Short(FieldOf(n, f))
         /\ \A x \in Fws : Get(p.frameworks, x, "?") = Get(n.frameworks, x, "?")
         /\ p.vars = n.vars
         /\ Packages(p) = Packages(n)
  <2> HIDE DEF p, n
  <2>1. \A condition, x : If(condition, x) = {} <=> ~condition
    BY DEF If
  <2> QED
    BY <2>1 DEF WorkerIssues
<1>2. (\A f \in Fields : Short(FieldOf(p, f)) = Short(FieldOf(n, f))) <=>
         /\ \A f \in Scalars : Short(FieldOf(p, f)) = Short(FieldOf(n, f))
         /\ Short(FieldOf(p, DriverField)) = Short(FieldOf(n, DriverField))
  BY DEF Fields
<1>3. p.vars = n.vars <=> ShownVars(one) = ShownVars(two)
  <2>1. p.vars = Environments[one.env].vars /\ n.vars = Environments[two.env].vars
    BY DEF FpOf, WorkerCapture
  <2>2. ShownVars(one) = {<<"env", p.vars>>} /\ ShownVars(two) = {<<"env", n.vars>>}
    BY <2>1 DEF ShownVars
  <2>3. \A x, y : {<<"env", x>>} = {<<"env", y>>} <=> x = y
    <3>1. \A x, y : {x} = {y} <=> x = y
      OBVIOUS
    <3>2. \A x, y : <<"env", x>> = <<"env", y>> <=> x = y
      OBVIOUS
    <3> QED
      BY <3>1, <3>2
  <2> HIDE DEF p, n
  <2> QED
    BY <2>2, <2>3
<1> QED
  BY <1>1, <1>2, <1>3, SameScalars, SameGpus, SameFrameworks, SamePackagesShown, SameShows

-----------------------------------------------------------------------------
(* The report of a re-run, and the captures that its recipe came with.     *)

LEMMA EnvOfCapture ==
    ASSUME NEW captures, OfWorkers(captures), NEW w \in DOMAIN captures
    PROVE  captures[w].env \in DOMAIN Environments
BY EnvironmentsAssumption DEF OfWorkers

LEMMA NoIssues ==
    ASSUME NEW prev, NEW new, OfWorkers(prev), OfWorkers(new), DOMAIN prev # {}, DOMAIN new # {}
    PROVE  Issues(Fingerprints(prev), Fingerprints(new)) = {} <=>
              DOMAIN new = DOMAIN prev /\ \A w \in DOMAIN new : Shows(new[w]) = Shows(prev[w])
<1> DEFINE p == Fingerprints(prev)
           n == Fingerprints(new)
<1>1. /\ DOMAIN p = DOMAIN prev /\ DOMAIN n = DOMAIN new
      /\ \A w \in DOMAIN prev : p[w] = FpOf(prev[w])
      /\ \A w \in DOMAIN new : n[w] = FpOf(new[w])
  BY DEF Fingerprints
<1> HIDE DEF p, n
<1>2. Issues(p, n) = {} <=>
         DOMAIN p = DOMAIN n /\ \A w \in DOMAIN p : WorkerIssues(w, p[w], n[w]) = {}
  <2>1. {} \notin {DOMAIN p, DOMAIN n}
    BY <1>1
  <2>2. \A condition, x : If(condition, x) = {} <=> ~condition
    BY DEF If
  <2>3. Issues(p, n) =
           If(DOMAIN p # DOMAIN n, <<0, "topology">>)
             \cup UNION {WorkerIssues(w, p[w], n[w]) : w \in DOMAIN p \cap DOMAIN n}
             \cup {<<w, "removed">> : w \in DOMAIN p \ DOMAIN n}
             \cup {<<w, "added">> : w \in DOMAIN n \ DOMAIN p}
    BY <2>1 DEF Issues
  <2>4. UNION {WorkerIssues(w, p[w], n[w]) : w \in DOMAIN p \cap DOMAIN n} = {} <=>
           \A w \in DOMAIN p \cap DOMAIN n : WorkerIssues(w, p[w], n[w]) = {}
    OBVIOUS
  <2>5. Issues(p, n) = {} => DOMAIN p = DOMAIN n
    BY <2>2, <2>3
  <2>6. DOMAIN p = DOMAIN n => /\ {<<w, "removed">> : w \in DOMAIN p \ DOMAIN n} = {}
                               /\ {<<w, "added">> : w \in DOMAIN n \ DOMAIN p} = {}
    OBVIOUS
  <2> QED
    BY <2>2, <2>3, <2>4, <2>5, <2>6
<1>3. \A w \in DOMAIN prev \cap DOMAIN new :
         WorkerIssues(w, p[w], n[w]) = {} <=> Shows(prev[w]) = Shows(new[w])
  BY <1>1, EnvOfCapture, NoIssuesOfWorker
<1> QED
  BY <1>1, <1>2, <1>3 DEF p, n

(* What a recipe is loaded with are captures of its workers.               *)
LEMMA LoadedOfWorkers == Spec => []OfWorkers(loaded.captures)
<1>1. Init => OfWorkers(loaded.captures)
  BY DEF Init, OfWorkers, NotLoaded
<1>2. OfWorkers(loaded.captures) /\ LockInv /\ [Next]_vars => OfWorkers(loaded.captures)'
  <2> SUFFICES ASSUME OfWorkers(loaded.captures), LockInv, [Next]_vars
               PROVE  OfWorkers(loaded.captures)'
    OBVIOUS
  <2>1. CASE Rerun
    <3>1. loaded'.captures \in {<< >>, lock.captures}
      BY <2>1 DEF Rerun, NotLoaded, Section
    <3> QED
      BY <3>1 DEF LockInv, Locked, OfWorkers, Workers
  <2>2. CASE UNCHANGED loaded
    BY <2>2 DEF OfWorkers, Workers
  <2>3. CASE StartRun \/ VerifyAndServe \/ \E t \in Tasks : OpenFile(t) \/ WriteFile(t) \/ CaptureFails(t)
    BY <2>2, <2>3 DEF StartRun, WriteLock, VerifyAndServe, OpenFile, WriteFile, CaptureFails
  <2>4. CASE EndRun \/ Kill \/ Post \/ Outside
    BY <2>2, <2>4, LaterSteps
  <2>5. CASE UNCHANGED vars
    BY <2>2, <2>5 DEF vars
  <2> QED
    BY <2>1, <2>3, <2>4, <2>5 DEF Next
<1> QED
  BY <1>1, <1>2, ArtifactsLock, PTL DEF Spec

LEMMA ExactReport == OfWorkers(loaded.captures) /\ LockInv => ReportIsExact
<1> SUFFICES ASSUME OfWorkers(loaded.captures), LockInv, {} \notin {DOMAIN Collect(file), DOMAIN loaded.captures}
             PROVE  NewIssues = {} <=>
                       /\ DOMAIN Collect(file) = DOMAIN loaded.captures
                       /\ \A w \in DOMAIN Collect(file) : Shows(Collect(file)[w]) = Shows(loaded.captures[w])
  BY DEF ReportIsExact
<1>1. OfWorkers(Collect(file))
  BY CollectOfWorkers DEF LockInv
<1> QED
  BY <1>1, NoIssues DEF NewIssues

-----------------------------------------------------------------------------
(* Two fingerprints side by side.                                          *)

(* What diff_fingerprints says of a package: "ok" if it matches.           *)
StatusOf(p, q, n) ==
    IF n \notin DOMAIN q THEN "missing"
    ELSE IF n \notin DOMAIN p THEN "extra"
    ELSE IF p[n] # q[n] THEN "mismatch" ELSE "ok"

Differing(p, q) == {n \in DOMAIN p \cup DOMAIN q : StatusOf(p, q, n) # "ok"}
Matching(p, q)  == {n \in DOMAIN p \cup DOMAIN q : StatusOf(p, q, n) = "ok"}

LEMMA DiffIs ==
    ASSUME NEW a, NEW b
    PROVE  LET p == Packages(a)
               q == Packages(b)
           IN  /\ Diff(a, b).changes = {f \in Fields : FieldOf(a, f) # FieldOf(b, f)}
               /\ Diff(a, b).packages = [n \in Differing(p, q) |-> StatusOf(p, q, n)]
               /\ Diff(a, b).matched = Cardinality(Matching(p, q))
BY DEF Diff, Differing, Matching, StatusOf

(* The packages that differ are those in one list only.                    *)
LEMMA DifferingIs ==
    ASSUME NEW p, NEW q
    PROVE  LET l == PackagesOf(p)
               m == PackagesOf(q)
           IN  Differing(p, q) = {x[2] : x \in (l \cup m) \ (l \cap m)}
<1> DEFINE l == PackagesOf(p)
           m == PackagesOf(q)
           D == {x[2] : x \in (l \cup m) \ (l \cap m)}
<1>1. /\ \A n, v : <<"package", n, v>> \in l <=> n \in DOMAIN p /\ v = p[n]
      /\ \A n, v : <<"package", n, v>> \in m <=> n \in DOMAIN q /\ v = q[n]
      /\ \A x \in l \cup m : \E n, v : x = <<"package", n, v>>
  BY DEF PackagesOf
<1> HIDE DEF l, m
<1>2. ASSUME NEW n \in Differing(p, q) PROVE n \in D
  <2>1. CASE n \in DOMAIN p
    <3>1. <<"package", n, p[n]>> \in l /\ <<"package", n, p[n]>> \notin m
      BY <1>1, <2>1 DEF Differing, StatusOf
    <3>2. <<"package", n, p[n]>>[2] = n
      OBVIOUS
    <3> QED
      BY <3>1, <3>2
  <2>2. CASE n \notin DOMAIN p
    <3>1. n \in DOMAIN q
      BY <2>2 DEF Differing
    <3>2. <<"package", n, q[n]>> \in m /\ <<"package", n, q[n]>> \notin l
      BY <1>1, <2>2, <3>1
    <3>3. <<"package", n, q[n]>>[2] = n
      OBVIOUS
    <3> QED
      BY <3>2, <3>3
  <2> QED
    BY <2>1, <2>2
<1>3. ASSUME NEW n \in D PROVE n \in Differing(p, q)
  <2>1. PICK x \in (l \cup m) \ (l \cap m) : n = x[2]
    BY <1>3
  <2>2. PICK k, v : x = <<"package", k, v>>
    BY <1>1
  <2>3. k = n
    BY <2>1, <2>2
  <2> QED
    BY <1>1, <2>1, <2>2, <2>3 DEF Differing, StatusOf
<1> HIDE DEF D
<1>4. Differing(p, q) = D
  BY <1>2, <1>3
<1> QED
  BY <1>4 DEF D, l, m

(* As many match as both lists have.                                       *)
LEMMA MatchingIs ==
    ASSUME NEW p, NEW q, IsFiniteSet(DOMAIN p)
    PROVE  Cardinality(Matching(p, q)) = Cardinality(PackagesOf(p) \cap PackagesOf(q))
<1> DEFINE M == Matching(p, q)
           both == PackagesOf(p) \cap PackagesOf(q)
           f == [n \in M |-> <<"package", n, p[n]>>]
<1>1. \A n : n \in M <=> n \in DOMAIN p /\ n \in DOMAIN q /\ p[n] = q[n]
  BY DEF Matching, StatusOf
<1>2. \A x : x \in both <=> \E n : n \in DOMAIN p /\ n \in DOMAIN q /\ p[n] = q[n] /\ x = <<"package", n, p[n]>>
  <2> TAKE x
  <2>1. x \in PackagesOf(p) <=> \E n \in DOMAIN p : x = <<"package", n, p[n]>>
    BY DEF PackagesOf
  <2>2. x \in PackagesOf(q) <=> \E n \in DOMAIN q : x = <<"package", n, q[n]>>
    BY DEF PackagesOf
  <2>3. \A j, k, v, u : <<"package", j, v>> = <<"package", k, u>> <=> j = k /\ v = u
    OBVIOUS
  <2> QED
    BY <2>1, <2>2, <2>3
<1> HIDE DEF M, both
<1>3. IsFiniteSet(M)
  <2>1. M \subseteq DOMAIN p
    BY <1>1
  <2> QED
    BY <2>1, FS_Subset
<1>4. f \in [M -> both]
  <2>1. \A n \in M : <<"package", n, p[n]>> \in both
    BY <1>1, <1>2
  <2> QED
    BY <2>1
<1>5. \A n, k \in M : f[n] = f[k] => n = k
  OBVIOUS
<1>6. \A x \in both : \E n \in M : f[n] = x
  BY <1>1, <1>2
<1> HIDE DEF f
<1>7. ExistsBijection(M, both)
  <2>1. f \in Bijection(M, both)
    BY <1>4, <1>5, <1>6 DEF Bijection, Injection, Surjection, IsInjective
  <2> QED
    BY <2>1 DEF ExistsBijection
<1>8. Cardinality(both) = Cardinality(M)
  BY <1>3, <1>7, FS_Bijection
<1> QED
  BY <1>8 DEF M, both

LEMMA PackagesFinite ==
    ASSUME NEW S, NEW lines \in Seq(S)
    PROVE  IsFiniteSet(DOMAIN Parsed(lines))
<1> DEFINE f == [i \in 1 .. Len(lines) |-> Lower[lines[i].name]]
<1>1. Len(lines) \in Nat /\ DOMAIN lines = 1 .. Len(lines) /\ DOMAIN Parsed(lines) = NamesIn(lines)
  BY ParsedIs
<1>2. f \in [1 .. Len(lines) -> NamesIn(lines)] /\ \A n \in NamesIn(lines) : \E i \in 1 .. Len(lines) : f[i] = n
  BY <1>1 DEF NamesIn
<1> HIDE DEF f
<1>3. f \in Surjection(1 .. Len(lines), NamesIn(lines))
  BY <1>2 DEF Surjection
<1>4. IsFiniteSet(1 .. Len(lines))
  BY <1>1, FS_Interval
<1> QED
  BY <1>1, <1>3, <1>4, FS_Surjection

(* `srtctl diff`, in either order.                                         *)
LEMMA DiffBothWays ==
    ASSUME NEW a, NEW b, IsFiniteSet(DOMAIN Packages(a)), IsFiniteSet(DOMAIN Packages(b))
    PROVE  LET d == Diff(a, b)
               r == Diff(b, a)
               la == PackagesOf(Packages(a))
               lb == PackagesOf(Packages(b))
           IN  /\ DOMAIN d.packages = {x[2] : x \in (la \cup lb) \ (la \cap lb)}
               /\ d.matched = Cardinality(la \cap lb) /\ r.matched = d.matched
               /\ DOMAIN r.packages = DOMAIN d.packages
               /\ \A p \in DOMAIN d.packages :
                     r.packages[p] = CASE d.packages[p] = "missing" -> "extra"
                                       [] d.packages[p] = "extra" -> "missing"
                                       [] OTHER -> d.packages[p]
               /\ d.changes = r.changes
<1> DEFINE p == Packages(a)
           q == Packages(b)
           d == Diff(a, b)
           r == Diff(b, a)
<1>1. /\ d.packages = [n \in Differing(p, q) |-> StatusOf(p, q, n)] /\ d.matched = Cardinality(Matching(p, q))
      /\ r.packages = [n \in Differing(q, p) |-> StatusOf(q, p, n)] /\ r.matched = Cardinality(Matching(q, p))
  BY DiffIs
<1>2. d.changes = r.changes
  <2>1. /\ d.changes = {f \in Fields : FieldOf(a, f) # FieldOf(b, f)}
        /\ r.changes = {f \in Fields : FieldOf(b, f) # FieldOf(a, f)}
    BY DEF Diff
  <2> HIDE DEF d, r
  <2>2. \A f : f \in d.changes <=> f \in r.changes
    BY <2>1
  <2>3. d.changes = {f \in Fields : f \in d.changes} /\ r.changes = {f \in Fields : f \in r.changes}
    BY <2>1
  <2> QED
    BY <2>2, <2>3
<1>3. IsFiniteSet(DOMAIN p) /\ IsFiniteSet(DOMAIN q)
  OBVIOUS
<1> HIDE DEF p, q, d, r
<1>4. Differing(p, q) = Differing(q, p) /\ Matching(p, q) = Matching(q, p)
  <2>1. \A n \in DOMAIN p \cup DOMAIN q : StatusOf(p, q, n) = "ok" <=> StatusOf(q, p, n) = "ok"
    <3> TAKE n \in DOMAIN p \cup DOMAIN q
    <3>1. CASE n \in DOMAIN p /\ n \in DOMAIN q
      BY <3>1 DEF StatusOf
    <3>2. CASE n \notin DOMAIN p \/ n \notin DOMAIN q
      BY <3>2 DEF StatusOf
    <3> QED
      BY <3>1, <3>2
  <2> QED
    BY <2>1 DEF Differing, Matching
<1>5. \A n \in Differing(p, q) :
         r.packages[n] = CASE d.packages[n] = "missing" -> "extra"
                           [] d.packages[n] = "extra" -> "missing"
                           [] OTHER -> d.packages[n]
  <2> TAKE n \in Differing(p, q)
  <2>1. d.packages[n] = StatusOf(p, q, n) /\ r.packages[n] = StatusOf(q, p, n)
    BY <1>1, <1>4
  <2>2. CASE n \notin DOMAIN q
    <3>1. n \in DOMAIN p
      BY <2>2 DEF Differing
    <3>2. StatusOf(p, q, n) = "missing" /\ StatusOf(q, p, n) = "extra"
      BY <2>2, <3>1 DEF StatusOf
    <3> QED
      BY <2>1, <3>2
  <2>3. CASE n \notin DOMAIN p
    <3>1. n \in DOMAIN q
      BY <2>3 DEF Differing
    <3>2. StatusOf(p, q, n) = "extra" /\ StatusOf(q, p, n) = "missing"
      BY <2>3, <3>1 DEF StatusOf
    <3> QED
      BY <2>1, <3>2
  <2>4. CASE n \in DOMAIN p /\ n \in DOMAIN q
    <3>1. StatusOf(p, q, n) = "mismatch" /\ StatusOf(q, p, n) = "mismatch"
      BY <2>4 DEF Differing, StatusOf
    <3> QED
      BY <2>1, <3>1
  <2> QED
    BY <2>2, <2>3, <2>4
<1>6. DOMAIN d.packages = Differing(p, q) /\ DOMAIN r.packages = Differing(p, q)
  BY <1>1, <1>4
<1>7. d.matched = Cardinality(PackagesOf(p) \cap PackagesOf(q)) /\ r.matched = d.matched
  BY <1>1, <1>3, <1>4, MatchingIs
<1>8. Differing(p, q) = {x[2] : x \in (PackagesOf(p) \cup PackagesOf(q)) \ (PackagesOf(p) \cap PackagesOf(q))}
  BY DifferingIs
<1> QED
  BY <1>2, <1>5, <1>6, <1>7, <1>8 DEF p, q, d, r

(* What a lock file has of a worker, and a capture on the machine.         *)
LEMMA BothPackages ==
    ASSUME NEW c, c.env \in DOMAIN Environments, NEW name \in DOMAIN Environments
    PROVE  LET a == Packages(FpOf(c))
               b == Packages(Capture(Environments[name], {}))
           IN  /\ IsFiniteSet(DOMAIN a) /\ IsFiniteSet(DOMAIN b)
               /\ PackagesOf(a) = IF "pip" \in c.failing THEN {} ELSE Listed(Environments[c.env], Sources)
               /\ PackagesOf(b) = Listed(Environments[name], Tail(Sources))
<1> DEFINE lines == IF "pip" \in c.failing THEN << >> ELSE AllLines(Environments[c.env])
<1>1. lines \in Seq(Entries) /\ SystemLines(Environments[name]) \in Seq(Entries)
  BY LinesAre
<1>2. Packages(FpOf(c)) = Parsed(lines)
  BY WorkerPackages DEF FpOf
<1>3. Packages(Capture(Environments[name], {})) = Parsed(SystemLines(Environments[name]))
  BY SystemPackages
<1>4. PackagesOf(Parsed(lines)) = IF "pip" \in c.failing THEN {} ELSE Listed(Environments[c.env], Sources)
  <2>1. CASE "pip" \in c.failing
    <3>1. PackagesOf(Parsed(<< >>)) = {}
      BY NothingParsed
    <3> QED
      BY <2>1, <3>1
  <2>2. CASE "pip" \notin c.failing
    BY <2>2, ListedIs
  <2> QED
    BY <2>1, <2>2
<1>5. PackagesOf(Parsed(SystemLines(Environments[name]))) = Listed(Environments[name], Tail(Sources))
  BY ListedIs
<1> HIDE DEF lines
<1>6. IsFiniteSet(DOMAIN Parsed(lines)) /\ IsFiniteSet(DOMAIN Parsed(SystemLines(Environments[name])))
  BY <1>1, PackagesFinite
<1> QED
  BY <1>2, <1>3, <1>4, <1>5, <1>6

LEMMA ExactDiff ==
    ASSUME NEW c, c.env \in DOMAIN Environments, NEW name \in DOMAIN Environments
    PROVE  DiffedExactly(c, name)
<1> DEFINE a == FpOf(c)
           b == Capture(Environments[name], {})
<1>1. /\ IsFiniteSet(DOMAIN Packages(a)) /\ IsFiniteSet(DOMAIN Packages(b))
      /\ PackagesOf(Packages(a)) = IF "pip" \in c.failing THEN {} ELSE Listed(Environments[c.env], Sources)
      /\ PackagesOf(Packages(b)) = Listed(Environments[name], Tail(Sources))
  BY BothPackages
<1> HIDE DEF a, b
<1> DEFINE la == IF "pip" \in c.failing THEN {} ELSE Listed(Environments[c.env], Sources)
           lb == Listed(Environments[name], Tail(Sources))
           d == Diff(a, b)
           r == Diff(b, a)
<1>2. /\ DOMAIN d.packages = {x[2] : x \in (la \cup lb) \ (la \cap lb)}
      /\ d.matched = Cardinality(la \cap lb) /\ r.matched = d.matched
      /\ DOMAIN r.packages = DOMAIN d.packages
      /\ \A p \in DOMAIN d.packages :
            r.packages[p] = CASE d.packages[p] = "missing" -> "extra"
                              [] d.packages[p] = "extra" -> "missing"
                              [] OTHER -> d.packages[p]
      /\ d.changes = r.changes
  <2>1. PackagesOf(Packages(a)) = la /\ PackagesOf(Packages(b)) = lb
    BY <1>1
  <2> HIDE DEF la, lb
  <2> QED
    BY <1>1, <2>1, DiffBothWays
<1> QED
  BY <1>2 DEF a, b, DiffedExactly

(* A package that the later lists have is in the version they have.        *)
LEMMA LaterListsCount ==
    ASSUME NEW S, NEW first \in Seq(S), NEW rest \in Seq(S)
    PROVE  LET all == first \o rest IN
           /\ \A n \in NamesIn(rest) : n \in NamesIn(all) /\ Parsed(all)[n] = Parsed(rest)[n]
           /\ \A n \in NamesIn(all) \ NamesIn(rest) : \E l \in ToSet(first) : n = Lower[l.name]
<1> DEFINE all == first \o rest
           k == Len(first)
           m == Len(rest)
<1>1. /\ all \in Seq(S) /\ k \in Nat /\ m \in Nat /\ Len(all) = k + m
      /\ DOMAIN all = 1 .. k + m /\ DOMAIN first = 1 .. k /\ DOMAIN rest = 1 .. m
      /\ \A i \in 1 .. k + m : all[i] = IF i <= k THEN first[i] ELSE rest[i - k]
  BY ConcatProperties
<1> HIDE DEF all, k, m
<1>2. \A i \in 1 .. m : i + k \in 1 .. k + m /\ all[i + k] = rest[i]
  <2> TAKE i \in 1 .. m
  <2>1. i + k \in 1 .. k + m /\ ~(i + k <= k) /\ (i + k) - k = i
    BY <1>1
  <2> QED
    BY <1>1, <2>1
<1>3. \A i \in 1 .. k + m : i <= k \/ (i - k \in 1 .. m /\ all[i] = rest[i - k])
  BY <1>1
<1>4. ASSUME NEW n \in NamesIn(rest) PROVE n \in NamesIn(all) /\ Parsed(all)[n] = Parsed(rest)[n]
  <2>1. PICK i \in LastOf(rest) : Lower[rest[i].name] = n
    BY LastLine
  <2>2. /\ i \in 1 .. m
        /\ \A j \in 1 .. m : Lower[rest[j].name] = n => j <= i
    BY <1>1, <2>1 DEF LastOf
  <2>3. \A j \in 1 .. k + m : Lower[all[j].name] = n => j <= i + k
    <3> TAKE j \in 1 .. k + m
    <3> HAVE Lower[all[j].name] = n
    <3>1. CASE j <= k
      BY <1>1, <2>2, <3>1
    <3>2. CASE j - k \in 1 .. m /\ all[j] = rest[j - k]
      <4>1. j - k <= i
        BY <2>2, <3>2
      <4> QED
        BY <1>1, <2>2, <4>1
    <3> QED
      BY <1>3, <3>1, <3>2
  <2>4. i + k \in LastOf(all) /\ all[i + k].version = rest[i].version /\ Lower[all[i + k].name] = n
    BY <1>1, <1>2, <2>1, <2>2, <2>3 DEF LastOf
  <2>5. Parsed(all)[n] = rest[i].version /\ Parsed(rest)[n] = rest[i].version
    BY <1>1, <2>1, <2>4, ParsedIs
  <2> QED
    BY <2>4, <2>5 DEF NamesIn, LastOf
<1>5. ASSUME NEW n \in NamesIn(all) \ NamesIn(rest) PROVE \E l \in ToSet(first) : n = Lower[l.name]
  <2>1. PICK i \in 1 .. k + m : n = Lower[all[i].name]
    BY <1>1 DEF NamesIn
  <2>2. i <= k
    BY <1>1, <1>3, <2>1 DEF NamesIn
  <2>3. i \in DOMAIN first /\ all[i] = first[i]
    BY <1>1, <2>2
  <2> QED
    BY <2>1, <2>3 DEF ToSet
<1> QED
  BY <1>4, <1>5 DEF all

(* `srtctl check` in the environment of the capture: of the fields only    *)
(* the CUDA version and what is asked of two interpreters can differ, of   *)
(* the packages only those of the virtual environment.                     *)
LEMMA FieldsInPlace ==
    ASSUME NEW name \in DOMAIN Environments, NEW f \in Fields, f # "cuda_version", f \notin AskedOfPython
    PROVE  LET e == Environments[name] IN
           FieldOf(WorkerCapture(e, {}), f) = FieldOf(Capture(e, {}), f)
<1> DEFINE e == Environments[name]
<1>1. CASE f = DriverField
  <2>1. /\ Driver(WorkerCapture(e, {})) = IF e.gpus = << >> THEN Unavailable ELSE Found(Head(e.gpus).driver)
        /\ Driver(Capture(e, {})) = IF e.gpus = << >> THEN Unavailable ELSE Found(Last(e.gpus).driver)
    BY DEF Driver, WorkerCapture, Capture
  <2>2. ASSUME e.gpus # << >> PROVE Head(e.gpus).driver = Last(e.gpus).driver
    <3>1. e.gpus \in Seq([name : STRING, driver : STRING])
      BY EnvironmentsAssumption
    <3>2. \A i, j \in DOMAIN e.gpus : e.gpus[i].driver = e.gpus[j].driver
      BY EnvironmentsAssumption
    <3> HIDE DEF e
    <3>3. 1 \in DOMAIN e.gpus /\ Len(e.gpus) \in DOMAIN e.gpus
      BY <2>2, <3>1
    <3>4. Head(e.gpus) = e.gpus[1] /\ Last(e.gpus) = e.gpus[Len(e.gpus)]
      BY <2>2, <3>1 DEF Last
    <3> QED
      BY <3>2, <3>3, <3>4
  <2> QED
    BY <1>1, <2>1, <2>2 DEF FieldOf
<1>2. CASE f \in Scalars /\ f # DriverField
  BY <1>2 DEF FieldOf, WorkerCapture, Capture, ScalarsOf, Answer, AskedOfPython
<1> QED
  BY <1>1, <1>2 DEF Fields

LEMMA NamesOfPackages ==
    ASSUME NEW p
    PROVE  {x[2] : x \in PackagesOf(p)} = DOMAIN p
<1>1. ASSUME NEW n \in DOMAIN p PROVE n \in {x[2] : x \in PackagesOf(p)}
  <2>1. <<"package", n, p[n]>> \in PackagesOf(p) /\ <<"package", n, p[n]>>[2] = n
    BY DEF PackagesOf
  <2> QED
    BY <2>1
<1>2. ASSUME NEW n \in {x[2] : x \in PackagesOf(p)} PROVE n \in DOMAIN p
  BY <1>2 DEF PackagesOf
<1> QED
  BY <1>1, <1>2

(* What an interpreter is asked for is found, and differs only if the two  *)
(* interpreters do.                                                        *)
LEMMA AskedInPlace ==
    ASSUME NEW name \in DOMAIN Environments, NEW f \in AskedOfPython
    PROVE  LET e == Environments[name]
               v == e.python["worker"].scalar[f]
               x == e.python["srtctl"].scalar[f]
           IN  /\ FieldOf(WorkerCapture(e, {}), f) # Unavailable
               /\ FieldOf(Capture(e, {}), f) # Unavailable
               /\ FieldOf(WorkerCapture(e, {}), f) # FieldOf(Capture(e, {}), f) => v # x
<1> DEFINE e == Environments[name]
<1>1. f \in Scalars /\ f # DriverField /\ f \in {"python_version", "nccl_version"}
  BY EnvironmentsAssumption DEF AskedOfPython
<1>2. /\ FieldOf(WorkerCapture(e, {}), f) = Answer(e, "worker", f)
      /\ FieldOf(Capture(e, {}), f) = Answer(e, "srtctl", f)
  BY <1>1 DEF FieldOf, WorkerCapture, Capture, ScalarsOf
<1> HIDE DEF e
<1>3. /\ \A who : Answer(e, who, f) = IF f = "nccl_version" THEN Tuple(e.python[who].scalar[f])
                                     ELSE Found(e.python[who].scalar[f])
  BY <1>1 DEF Answer
<1>4. \A text : Tuple(text) # Unavailable /\ Found(text) # Unavailable
  BY DEF Tuple, Found, Unavailable
<1> QED
  BY <1>2, <1>3, <1>4 DEF e

LEMMA InPlace == ASSUME NEW c, c.env \in DOMAIN Environments PROVE CheckedInPlace(c)
<1> SUFFICES ASSUME c.failing = {}, NEW r \in Check(FpOf(c), Capture(Environments[c.env], {}))
             PROVE  LET e == Environments[c.env]
                        elsewhere == {x[2] : x \in Listed(e, Tail(Sources))}
                    IN  \/ r[1] = <<"field", "cuda_version">>
                        \/ \E f \in AskedOfPython :
                              /\ r = <<<<"field", f>>, "mismatch">>
                              /\ e.python["worker"].scalar[f] # e.python["srtctl"].scalar[f]
                        \/ \E l \in ToSet(e.pip["venv"]) :
                              /\ r = <<<<"pip", Lower[l.name]>>, "missing">>
                              /\ Lower[l.name] \notin elsewhere
  BY DEF CheckedInPlace
<1> DEFINE name == c.env
           e == Environments[name]
           a == WorkerCapture(e, {})
           b == Capture(e, {})
           p == Packages(a)
           q == Packages(b)
           elsewhere == {x[2] : x \in Listed(e, Tail(Sources))}
<1>1. name \in DOMAIN Environments /\ r \in Check(a, b)
  BY DEF FpOf
<1>2. /\ e.pip["venv"] \in Seq(Entries) /\ SystemLines(e) \in Seq(Entries) /\ AllLines(e) \in Seq(Entries)
      /\ p = Parsed(AllLines(e)) /\ q = Parsed(SystemLines(e))
  BY <1>1, LinesAre, WorkerPackages, SystemPackages
<1>3. /\ DOMAIN p = NamesIn(AllLines(e)) /\ DOMAIN q = NamesIn(SystemLines(e))
      /\ \A n \in DOMAIN q : n \in DOMAIN p /\ p[n] = q[n]
      /\ \A n \in DOMAIN p \ DOMAIN q : \E l \in ToSet(e.pip["venv"]) : n = Lower[l.name]
  <2>1. DOMAIN p = NamesIn(AllLines(e)) /\ DOMAIN q = NamesIn(SystemLines(e))
    BY <1>2, ParsedIs
  <2> HIDE DEF p, q, e
  <2> QED
    BY <1>2, <2>1, LaterListsCount DEF AllLines
<1>4. elsewhere = DOMAIN q
  <2>1. Listed(e, Tail(Sources)) = PackagesOf(q)
    BY <1>1, <1>2, ListedIs
  <2> HIDE DEF q, e
  <2> QED
    BY <2>1, NamesOfPackages
<1>5. Diff(a, b).changes = {f \in Fields : FieldOf(a, f) # FieldOf(b, f)}
  BY DEF Diff
<1>6. Diff(a, b).packages = [n \in Differing(p, q) |-> StatusOf(p, q, n)]
  BY DiffIs
<1>7. ASSUME NEW f \in Diff(a, b).changes
      PROVE  \/ f = "cuda_version"
             \/ /\ f \in AskedOfPython
                /\ FieldOf(a, f) # Unavailable /\ FieldOf(b, f) # Unavailable
                /\ e.python["worker"].scalar[f] # e.python["srtctl"].scalar[f]
  <2>1. f \in Fields /\ FieldOf(a, f) # FieldOf(b, f)
    <3> HIDE DEF a, b
    <3> QED
      BY <1>5
  <2>2. f = "cuda_version" \/ f \in AskedOfPython
    BY <1>1, <2>1, FieldsInPlace
  <2>3. CASE f \in AskedOfPython
    BY <1>1, <2>1, <2>3, AskedInPlace
  <2> QED
    BY <2>2, <2>3
<1> HIDE DEF a, b
<1>8. \/ \E f \in Diff(a, b).changes :
            r = <<<<"field", f>>, IF Unavailable \in {FieldOf(a, f), FieldOf(b, f)} THEN "error" ELSE "mismatch">>
      \/ \E n \in DOMAIN Diff(a, b).packages : r = <<<<"pip", n>>, Diff(a, b).packages[n]>>
  BY <1>1 DEF Check
<1> HIDE DEF p, q, elsewhere, e
<1>9. ASSUME NEW f \in Diff(a, b).changes,
             r = <<<<"field", f>>, IF Unavailable \in {FieldOf(a, f), FieldOf(b, f)} THEN "error" ELSE "mismatch">>
      PROVE  \/ r[1] = <<"field", "cuda_version">>
             \/ \E g \in AskedOfPython :
                   /\ r = <<<<"field", g>>, "mismatch">>
                   /\ e.python["worker"].scalar[g] # e.python["srtctl"].scalar[g]
  <2>1. CASE f = "cuda_version"
    BY <1>9, <2>1
  <2>2. CASE f # "cuda_version"
    <3>1. /\ f \in AskedOfPython /\ Unavailable \notin {FieldOf(a, f), FieldOf(b, f)}
          /\ e.python["worker"].scalar[f] # e.python["srtctl"].scalar[f]
      BY <1>7, <2>2
    <3> QED
      BY <1>9, <3>1
  <2> QED
    BY <2>1, <2>2
<1>10. ASSUME NEW n \in Differing(p, q), r = <<<<"pip", n>>, StatusOf(p, q, n)>>
       PROVE  \E l \in ToSet(e.pip["venv"]) :
                 r = <<<<"pip", Lower[l.name]>>, "missing">> /\ Lower[l.name] \notin elsewhere
  <2>1. n \in DOMAIN p /\ n \notin DOMAIN q /\ StatusOf(p, q, n) = "missing"
    BY <1>3 DEF Differing, StatusOf
  <2> QED
    BY <1>3, <1>4, <1>10, <2>1
<1> QED
  BY <1>6, <1>8, <1>9, <1>10 DEF e, elsewhere

(* All three comparisons report exactly what differs: the reproduction     *)
(* report in what it shows, `srtctl diff` and `srtctl check`, for any      *)
(* environments, captures and re-runs.                                     *)
THEOREM ArtifactsComparisonsAreExact == Spec => []ComparisonsAreExact
<1>1. \A c : c.env \in DOMAIN Environments => CheckedInPlace(c) /\
                 \A name \in DOMAIN Environments : DiffedExactly(c, name)
  BY ExactDiff, InPlace
<1>2. ASSUME LockInv, NEW w \in DOMAIN lock.captures
      PROVE  lock.captures[w] \in DiffsExactly \cap ChecksInPlace
  <2>1. /\ OfWorkers(lock.captures)
        /\ lock.captures[w].env \in DOMAIN Environments /\ lock.captures[w] \in AllCaptures
    BY <1>2, EnvOfCapture DEF LockInv, Locked, OfWorkers, AllCaptures
  <2> QED
    BY <1>1, <2>1 DEF DiffsExactly, ChecksInPlace
<1>3. LockInv /\ OfWorkers(loaded.captures) => ComparisonsAreExact
  BY <1>2, ExactReport DEF ComparisonsAreExact
<1> QED
  BY <1>3, ArtifactsLock, LoadedOfWorkers, PTL

================================================================================

--------------------------- MODULE SubmissionProofs ---------------------------
(***************************************************************************)
(* Proofs about Submission: whatever is submitted and whatever fails, a    *)
(* job runs what it was accepted for, a recorded job is complete, and      *)
(* every batch that was reached has one job.                               *)
(***************************************************************************)
EXTENDS Submission, FiniteSetTheorems, TLAPS

NoFile == {"absent", "empty"}

(* What the step reached says about the batch and the exit code.           *)
AtStep ==
    /\ pc \in Steps => MoreBatches /\ ~cmd.dry_run
    /\ pc \in Steps \ {"check"} => Len(Current.configs) > 0
    /\ pc # "ended" => exit = None
    /\ exit = 0 => file > Len(Files)

(* Past sbatch the submitter holds the job of the batch it is at.          *)
HoldsItsJob ==
    pc \in Writing \cup {"record", "return"} =>
        /\ job \in Job
        /\ origin[job] = [file |-> file, batch |-> batch, config |-> Chosen(Current)]

(* What is on disk for that job, and that it is recorded last.             *)
WrittenBeforeRecorded ==
    /\ pc \in Writing \cup {"record"} => job \notin submissions
    /\ pc \in {"metadata", "record", "return"} => saved[job] \notin NoFile
    /\ pc \in {"record", "return"} => metadata[job]

(* Nothing is known of a job that was not accepted.                        *)
UnusedJobs ==
    \A j \in Job : origin[j] = None =>
        saved[j] = "absent" /\ loaded[j] = None /\ j \notin submissions

Owns(j, content) ==
    \/ content = origin[j].config
    \/ content = Edited /\ KindOf(j) = "single"

SavedItsOwn == \A j \in Job : saved[j] \in NoFile \/ Owns(j, saved[j])

(* The batches whose submission has been recorded unless it failed.        *)
Behind(f, b) ==
    \/ f < file
    \/ f = file /\ (b < batch \/ (b = batch /\ pc = "return"))

RecordedAreBehind == \A j \in submissions : Behind(origin[j].file, origin[j].batch)

RecordedFor(j, f, b) == j \in submissions /\ origin[j].file = f /\ origin[j].batch = b

BehindAreRecorded ==
    ~cmd.dry_run =>
        \A f \in DOMAIN Files \ failed : \A b \in DOMAIN Files[f] : Behind(f, b) =>
            \E j \in Job : /\ RecordedFor(j, f, b)
                           /\ \A k \in Job : RecordedFor(k, f, b) => k = j

TemporaryFiles ==
    /\ pc \in {"next", "check", "script", "ended"} => script = FALSE
    /\ pc \in {"next", "ended"} => temp = FALSE
    /\ kept \subseteq {"write", "sbatch"}

SubInv ==
    /\ TypeOK /\ AtStep /\ HoldsItsJob /\ WrittenBeforeRecorded
    /\ UnusedJobs /\ SavedItsOwn /\ RunsItsOwn /\ RecordedAreReady
    /\ RecordedAreBehind /\ BehindAreRecorded /\ TemporaryFiles

-----------------------------------------------------------------------------
LEMMA CommandShape ==
    ASSUME TypeOK
    PROVE  /\ Files \in Seq(Seq(Batch)) /\ Len(Files) \in Nat
           /\ cmd.dry_run \in BOOLEAN /\ cmd.directory \in BOOLEAN
           /\ \A f \in 1 .. Len(Files) : Files[f] \in Seq(Batch) /\ Len(Files[f]) \in Nat
           /\ file \in 1 .. Len(Files) + 1 /\ file \in Nat
           /\ BatchesOf(file) \in Nat /\ batch \in 1 .. BatchesOf(file) + 1 /\ batch \in Nat \ {0}
           /\ file # 0
<1>1. cmd \in Command
  BY CommandsAssumption DEF TypeOK
<1>2. /\ Files \in Seq(Seq(Batch)) /\ cmd.dry_run \in BOOLEAN /\ cmd.directory \in BOOLEAN
  BY <1>1 DEF Command, Files
<1>3. Len(Files) \in Nat /\ \A f \in 1 .. Len(Files) : Files[f] \in Seq(Batch) /\ Len(Files[f]) \in Nat
  BY <1>2
<1>4. /\ file \in 1 .. Len(Files) + 1
      /\ batch \in 1 .. BatchesOf(file) + 1
  BY Zenon DEF TypeOK
<1>5. BatchesOf(file) \in Nat
  <2>1. CASE file <= Len(Files)
    BY <1>3, <1>4, <2>1 DEF BatchesOf
  <2>2. CASE ~(file <= Len(Files))
    BY <2>2 DEF BatchesOf
  <2> QED BY <2>1, <2>2
<1>6. file \in Nat /\ batch \in Nat \ {0} /\ file # 0
  BY <1>3, <1>4, <1>5
<1> QED BY <1>2, <1>3, <1>4, <1>5, <1>6

(* The batch that is under way, and the configuration chosen from it.      *)
LEMMA CurrentShape ==
    ASSUME TypeOK, MoreBatches
    PROVE  /\ file \in 1 .. Len(Files) /\ batch \in 1 .. BatchesOf(file)
           /\ Current \in Batch /\ Current.configs \in Seq(Config)
           /\ Len(Current.configs) > 0 => Chosen(Current) \in Config
<1>1. file \in 1 .. Len(Files) /\ batch \in 1 .. Len(Files[file]) /\ Files[file] \in Seq(Batch)
  BY CommandShape DEF MoreBatches
<1>2. Current \in Batch
  BY <1>1 DEF Current
<1>3. Current.configs \in Seq(Config)
  BY <1>2 DEF Batch
<1>4. Len(Current.configs) > 0 => Current.configs[Len(Current.configs)] \in Config
  BY <1>3
<1> QED BY <1>1, <1>2, <1>3, <1>4 DEF Chosen, BatchesOf

(* The order of the steps. *)
LEMMA StepOrder ==
    /\ At("check") => pc = "check" /\ pc' = "script"
    /\ At("script") => pc = "script" /\ pc' = "write"
    /\ At("write") => pc = "write" /\ pc' = "sbatch"
    /\ At("sbatch") => pc = "sbatch" /\ pc' = "mkdir"
    /\ At("mkdir") => pc = "mkdir" /\ pc' = "open"
    /\ At("open") => pc = "open" /\ pc' = "fill"
    /\ At("fill") => pc = "fill" /\ pc' = "metadata"
    /\ At("metadata") => pc = "metadata" /\ pc' = "record"
    /\ At("record") => pc = "record" /\ pc' = "return"
  BY DEF At, StepAfter

(* What the submitter changes outside of its own state, and where it is    *)
(* when it does.                                                           *)
LEMMA StepKinds ==
    ASSUME [Next]_vars
    PROVE  /\ UNCHANGED cmd
           /\ \/ UNCHANGED <<submissions, jobs>>
              \/ SbatchAccepts \/ OpenConfig \/ FillConfig \/ WriteMetadata \/ RecordSubmission
              \/ \E j \in Job : StartJob(j) \/ NoConfig(j) \/ LoadConfig(j)
  BY DEF Next, vars, cli, TakeBatch, DryRun, FileDone, CommandDone, Checked, SetupMissing,
         CreateScript, WriteScript, SbatchAccepts, MakeDirectory, OpenConfig, FillConfig,
         WriteMetadata, RecordSubmission, Return, Raise, EditFile, StartJob, NoConfig,
         LoadConfig, Ended

(* A failure goes on with the next file or ends the command.               *)
LEMMA FailedFile ==
    ASSUME TypeOK, FailFile, UNCHANGED cmd, file \in 1 .. Len(Files)
    PROVE  /\ failed' = failed \cup {file} /\ failed' \subseteq 1 .. Len(Files')
           /\ \/ pc' = "next" /\ exit' = exit /\ file' = file + 1 /\ batch' = 1
              \/ pc' = "ended" /\ exit' = 1 /\ file' = file /\ batch' = batch
           /\ file' \in 1 .. Len(Files') + 1 /\ batch' \in 1 .. BatchesOf(file)' + 1
<1>1. /\ failed' = failed \cup {file}
      /\ \/ pc' = "next" /\ exit' = exit /\ file' = file + 1 /\ batch' = 1
         \/ pc' = "ended" /\ exit' = 1 /\ file' = file /\ batch' = batch
  BY DEF FailFile, NextFile
<1>2. /\ Len(Files) \in Nat /\ \A f \in 1 .. Len(Files) : Len(Files[f]) \in Nat
      /\ file \in Nat /\ batch \in 1 .. BatchesOf(file) + 1
  BY CommandShape
<1>3. Files' = Files
  BY DEF Files
<1>4. failed' \subseteq 1 .. Len(Files)
  BY <1>1 DEF TypeOK
<1>5. file' \in 1 .. Len(Files) + 1
  BY <1>1, <1>2
<1>6. BatchesOf(file)' = BatchesOf(file')
  BY <1>3 DEF BatchesOf
<1>7. BatchesOf(file + 1) \in Nat
  BY <1>2 DEF BatchesOf
<1>8. batch' \in 1 .. BatchesOf(file') + 1
  <2>1. CASE file' = file /\ batch' = batch
    BY <1>2, <2>1
  <2>2. CASE file' = file + 1 /\ batch' = 1
    BY <1>7, <2>2
  <2> QED BY <1>1, <2>1, <2>2
<1> QED BY <1>1, <1>3, <1>4, <1>5, <1>6, <1>8

-----------------------------------------------------------------------------
(* The position of the submitter stays within the command.                 *)
LEMMA PositionStep ==
    ASSUME SubInv, [Next]_vars
    PROVE  /\ failed' \subseteq 1 .. Len(Files')
           /\ file' \in 1 .. Len(Files') + 1 /\ batch' \in 1 .. BatchesOf(file)' + 1
<1> DEFINE Here == /\ failed' \subseteq 1 .. Len(Files')
                   /\ file' \in 1 .. Len(Files') + 1 /\ batch' \in 1 .. BatchesOf(file)' + 1
<1> HIDE DEF Here
<1>1. UNCHANGED cmd /\ Files' = Files
  BY StepKinds DEF Files
<1>2. /\ TypeOK /\ (pc \in Steps => MoreBatches)
      /\ Len(Files) \in Nat /\ \A f \in 1 .. Len(Files) : Len(Files[f]) \in Nat
      /\ file \in 1 .. Len(Files) + 1 /\ file \in Nat /\ batch \in Nat
      /\ BatchesOf(file) \in Nat /\ batch \in 1 .. BatchesOf(file) + 1
  BY CommandShape DEF SubInv, AtStep
<1>3. failed \subseteq 1 .. Len(Files)
  BY <1>2 DEF TypeOK
<1>4. BatchesOf(file)' = BatchesOf(file')
  BY <1>1 DEF BatchesOf
<1>5. CASE UNCHANGED <<file, batch, failed>>
  BY <1>1, <1>2, <1>3, <1>4, <1>5 DEF Here
<1>6. CASE FailFile /\ file \in 1 .. Len(Files)
  BY <1>1, <1>2, <1>6, FailedFile DEF Here
<1>7. MoreBatches => file \in 1 .. Len(Files) /\ batch \in 1 .. BatchesOf(file)
  BY <1>2, CurrentShape
<1>8. ASSUME MoreBatches, batch' = batch + 1, UNCHANGED <<file, failed>>
      PROVE  Here
  <2>1. batch' \in 1 .. BatchesOf(file) + 1
    BY <1>2, <1>7, <1>8
  <2> QED BY <1>1, <1>2, <1>3, <1>4, <1>8, <2>1 DEF Here
<1>9. CASE DryRun
  <2>1. MoreBatches
    BY <1>9 DEF DryRun
  <2>2. CASE FailFile
    BY <1>6, <1>7, <2>1, <2>2
  <2>3. CASE batch' = batch + 1 /\ UNCHANGED <<file, pc, failed, exit>>
    BY <1>8, <2>1, <2>3 DEF Here
  <2> QED BY <1>9, <2>2, <2>3 DEF DryRun
<1>10. CASE FileDone
  <2>1. file <= Len(Files) /\ file' = file + 1 /\ batch' = 1 /\ failed' = failed
    BY <1>10 DEF FileDone, NextFile
  <2>2. BatchesOf(file + 1) \in Nat
    BY <1>2 DEF BatchesOf
  <2>3. file' \in 1 .. Len(Files) + 1 /\ batch' \in 1 .. BatchesOf(file') + 1
    BY <1>2, <2>1, <2>2
  <2> QED BY <1>1, <1>3, <1>4, <2>1, <2>3 DEF Here
<1>11. CASE Return
  <2>1. pc \in Steps
    BY <1>11 DEF Return, Steps
  <2> QED BY <1>2, <1>8, <1>11, <2>1 DEF Return, Here
<1>12. CASE Raise
  <2>1. pc \in Steps
    BY <1>12 DEF Raise, Steps
  <2> QED BY <1>2, <1>6, <1>7, <1>12, <2>1 DEF Raise
<1>13. \/ UNCHANGED <<file, batch, failed>>
       \/ DryRun \/ FileDone \/ Return \/ Raise
  BY DEF Next, vars, cli, TakeBatch, CommandDone, Checked, SetupMissing,
         CreateScript, WriteScript, SbatchAccepts, MakeDirectory, OpenConfig, FillConfig,
         WriteMetadata, RecordSubmission, EditFile, StartJob, NoConfig, LoadConfig, Ended
<1> QED BY <1>5, <1>9, <1>10, <1>11, <1>12, <1>13

(* What is on disk for a job comes from its batch.                         *)
LEMMA ContentShape ==
    ASSUME TypeOK, MoreBatches, Len(Current.configs) > 0
    PROVE  /\ Chosen(Current) \in Config /\ Content(Current) \in Config \cup {Edited}
           /\ Content(Current) \notin NoFile
           /\ \/ Content(Current) = Chosen(Current)
              \/ Content(Current) = Edited /\ Current.kind = "single"
  BY CurrentShape, CommandsAssumption DEF Content, NoFile

(* The jobs' variables keep their types.                                   *)
LEMMA JobTypesStep ==
    ASSUME SubInv, [Next]_vars
    PROVE  /\ submissions' \subseteq Job
           /\ origin' \in [Job -> Origin \cup {None}]
           /\ state' \in [Job -> {"none", "queued", "running", "no config", "sweep"}]
           /\ saved' \in [Job -> Config \cup {"absent", "empty", Edited}]
           /\ metadata' \in [Job -> BOOLEAN]
           /\ loaded' \in [Job -> Config \cup {None, Edited}]
<1>1. /\ submissions \subseteq Job
      /\ origin \in [Job -> Origin \cup {None}]
      /\ state \in [Job -> {"none", "queued", "running", "no config", "sweep"}]
      /\ saved \in [Job -> Config \cup {"absent", "empty", Edited}]
      /\ metadata \in [Job -> BOOLEAN]
      /\ loaded \in [Job -> Config \cup {None, Edited}]
  BY DEF SubInv, TypeOK
<1>2. CASE UNCHANGED <<submissions, jobs>>
  BY <1>1, <1>2 DEF jobs
<1>3. CASE SbatchAccepts
  <2>1. pc = "sbatch" /\ MoreBatches /\ Len(Current.configs) > 0
    BY <1>3, StepOrder DEF SbatchAccepts, SubInv, AtStep, Steps
  <2>2. [file |-> file, batch |-> batch, config |-> Chosen(Current)] \in Origin
    BY <2>1, CommandShape, ContentShape DEF SubInv, Origin
  <2> QED BY <1>1, <1>3, <2>2 DEF SbatchAccepts
<1>4. CASE OpenConfig
  BY <1>1, <1>4 DEF OpenConfig
<1>5. CASE FillConfig
  <2>1. pc = "fill" /\ MoreBatches /\ Len(Current.configs) > 0
    BY <1>5, StepOrder DEF FillConfig, SubInv, AtStep, Steps, Writing
  <2>2. Content(Current) \in Config \cup {Edited}
    BY <2>1, ContentShape DEF SubInv
  <2> QED BY <1>1, <1>5, <2>2 DEF FillConfig
<1>6. CASE WriteMetadata
  BY <1>1, <1>6 DEF WriteMetadata
<1>7. CASE RecordSubmission
  <2>1. pc = "record" /\ job \in Job
    BY <1>7, StepOrder DEF RecordSubmission, SubInv, HoldsItsJob
  <2> QED BY <1>1, <1>7, <2>1 DEF RecordSubmission, jobs
<1>8. ASSUME NEW j \in Job, StartJob(j) \/ NoConfig(j)
      PROVE  UNCHANGED <<submissions, origin, saved, metadata, loaded>>
             /\ state' \in [Job -> {"none", "queued", "running", "no config", "sweep"}]
  BY <1>1, <1>8 DEF StartJob, NoConfig, cli
<1>9. ASSUME NEW j \in Job, LoadConfig(j)
      PROVE  /\ UNCHANGED <<submissions, origin, saved, metadata>>
             /\ state' \in [Job -> {"none", "queued", "running", "no config", "sweep"}]
             /\ loaded' \in [Job -> Config \cup {None, Edited}]
  <2>1. saved[j] \in Config \cup {Edited}
    BY <1>1, <1>9 DEF LoadConfig
  <2> QED BY <1>1, <1>9, <2>1 DEF LoadConfig, cli
<1> QED BY <1>1, <1>2, <1>3, <1>4, <1>5, <1>6, <1>7, <1>8, <1>9, StepKinds

(* How the step reached moves on, and with what.                           *)
LEMMA StepMoves ==
    ASSUME SubInv, [Next]_vars
    PROVE  /\ UNCHANGED cmd
           /\ \/ UNCHANGED <<file, batch, pc, job, failed, exit>>
              \/ /\ pc = "next" /\ pc' = "check" /\ MoreBatches /\ ~cmd.dry_run
                 /\ UNCHANGED <<file, batch, job, failed, exit>>
              \/ /\ pc \in Steps \ {"return"} /\ pc' = StepAfter[pc] /\ pc' \in Steps \ {"check"}
                 /\ Len(Current.configs) > 0
                 /\ job' = job \/ (pc = "sbatch" /\ SbatchAccepts)
                 /\ UNCHANGED <<file, batch, failed, exit>>
              \/ Return \/ FileDone \/ CommandDone \/ SetupMissing \/ Raise \/ DryRun
<1>1. SubInv => (pc \in Steps \ {"check"} => Len(Current.configs) > 0)
  BY DEF SubInv, AtStep
<1>2. CASE Checked \/ CreateScript \/ WriteScript \/ SbatchAccepts \/ MakeDirectory
           \/ OpenConfig \/ FillConfig \/ WriteMetadata \/ RecordSubmission
  <2>1. \/ At("check") \/ At("script") \/ At("write") \/ At("sbatch") \/ At("mkdir")
        \/ At("open") \/ At("fill") \/ At("metadata") \/ At("record")
    BY <1>2 DEF Checked, CreateScript, WriteScript, SbatchAccepts, MakeDirectory,
                OpenConfig, FillConfig, WriteMetadata, RecordSubmission
  <2>2. pc \in Steps \ {"return"} /\ pc' = StepAfter[pc] /\ pc' \in Steps \ {"check"}
    BY <2>1, StepOrder DEF At, Steps, Writing
  <2>3. pc = "check" => Checked
    BY <1>2, <2>1, StepOrder
    DEF CreateScript, WriteScript, SbatchAccepts, MakeDirectory,
        OpenConfig, FillConfig, WriteMetadata, RecordSubmission
  <2>4. Len(Current.configs) > 0
    BY <1>1, <2>2, <2>3 DEF Checked
  <2>5. /\ UNCHANGED <<file, batch, failed, exit>>
        /\ job' = job \/ (pc = "sbatch" /\ SbatchAccepts)
    BY <1>2, StepOrder
    DEF Checked, CreateScript, WriteScript, SbatchAccepts, MakeDirectory,
        OpenConfig, FillConfig, WriteMetadata, RecordSubmission
  <2> QED BY <2>2, <2>4, <2>5, StepKinds
<1>3. CASE TakeBatch
  BY <1>3, StepKinds DEF TakeBatch
<1>4. CASE EditFile \/ Ended \/ UNCHANGED vars
           \/ \E j \in Job : StartJob(j) \/ NoConfig(j) \/ LoadConfig(j)
  BY <1>4, StepKinds DEF EditFile, Ended, vars, cli, StartJob, NoConfig, LoadConfig
<1> QED BY <1>2, <1>3, <1>4, StepKinds DEF Next

LEMMA AtStepStep ==
    ASSUME SubInv, [Next]_vars
    PROVE  AtStep'
<1>1. /\ AtStep /\ Files' = Files /\ UNCHANGED cmd
      /\ TypeOK /\ file \in 1 .. Len(Files) + 1 /\ Len(Files) \in Nat
  BY StepMoves, CommandShape DEF SubInv, Files
<1>2. UNCHANGED <<file, batch>> => MoreBatches' = MoreBatches /\ Current' = Current
  BY <1>1 DEF MoreBatches, Current
<1>3. None # 0
  BY CommandsAssumption
<1>4. CASE UNCHANGED <<file, batch, pc, job, failed, exit>>
  BY <1>1, <1>2, <1>4 DEF AtStep
<1>5. CASE /\ pc = "next" /\ pc' = "check" /\ MoreBatches /\ ~cmd.dry_run
           /\ UNCHANGED <<file, batch, job, failed, exit>>
  BY <1>1, <1>2, <1>5 DEF AtStep
<1>6. CASE /\ pc \in Steps \ {"return"} /\ pc' \in Steps \ {"check"} /\ Len(Current.configs) > 0
           /\ UNCHANGED <<file, batch, failed, exit>>
  BY <1>1, <1>2, <1>6 DEF AtStep, Steps, Writing
<1>7. CASE pc' = "next" /\ exit' = exit /\ pc # "ended"
  BY <1>1, <1>3, <1>7 DEF AtStep, Steps, Writing
<1>8. CASE pc' = "ended" /\ (exit' = 0 => file' > Len(Files))
  BY <1>1, <1>8 DEF AtStep, Steps, Writing
<1>9. Return => pc' = "next" /\ exit' = exit /\ pc # "ended"
  BY DEF Return
<1>10. FileDone => pc' = "next" /\ exit' = exit /\ pc # "ended"
  BY DEF FileDone
<1>11. CommandDone \/ SetupMissing => pc' = "ended" /\ (exit' = 0 => file' > Len(Files))
  BY <1>1 DEF CommandDone, SetupMissing
<1>12. FailFile => \/ pc' = "next" /\ exit' = exit
                   \/ pc' = "ended" /\ (exit' = 0 => file' > Len(Files))
  BY DEF FailFile
<1>13. CASE Raise
  BY <1>7, <1>8, <1>12, <1>13 DEF Raise, Writing
<1>14. CASE DryRun
  BY <1>7, <1>8, <1>12, <1>14 DEF DryRun
<1> QED BY <1>4, <1>5, <1>6, <1>7, <1>8, <1>9, <1>10, <1>11, <1>13, <1>14, StepMoves

LEMMA HoldsItsJobStep ==
    ASSUME SubInv, [Next]_vars
    PROVE  HoldsItsJob'
<1>1. HoldsItsJob /\ Files' = Files
  BY StepMoves DEF SubInv, Files
<1>2. SUFFICES ASSUME pc' \in Writing \cup {"record", "return"}
      PROVE  HoldsItsJob'
  BY DEF HoldsItsJob
<1>3. UNCHANGED <<file, batch>> /\ Current' = Current
      /\ \/ pc \in Writing \cup {"record", "return"} /\ job' = job
         \/ SbatchAccepts
  <2>1. Return \/ FileDone \/ CommandDone \/ SetupMissing \/ Raise \/ DryRun
           => pc' \in {"next", "ended"}
    BY DEF Return, FileDone, CommandDone, SetupMissing, Raise, DryRun, FailFile
  <2>2. UNCHANGED <<file, batch>>
        /\ \/ pc' = pc /\ job' = job
           \/ pc \in Steps /\ pc' = StepAfter[pc] /\ (job' = job \/ SbatchAccepts)
    BY <1>2, <2>1, StepMoves DEF Writing
  <2>3. (pc \in Steps /\ pc' = StepAfter[pc]) => pc \in Writing \cup {"sbatch", "record", "return"}
    BY <1>2 DEF Steps, StepAfter, Writing
  <2>4. (pc = "sbatch" /\ pc' = "mkdir") => SbatchAccepts
    BY StepOrder DEF Next, vars, cli, TakeBatch, DryRun, FileDone, CommandDone, Checked,
       SetupMissing, CreateScript, WriteScript, MakeDirectory, OpenConfig, FillConfig,
       WriteMetadata, RecordSubmission, Return, Raise, FailFile, EditFile, StartJob, NoConfig,
       LoadConfig, Ended
  <2>5. pc = "sbatch" => StepAfter[pc] = "mkdir" /\ pc' # pc
    BY <1>2 DEF StepAfter, Writing
  <2> QED BY <1>1, <1>2, <2>2, <2>3, <2>4, <2>5 DEF Current
<1>4. CASE SbatchAccepts
  <2>1. /\ job' \in Job
        /\ origin' = [origin EXCEPT ![job'] =
               [file |-> file, batch |-> batch, config |-> Chosen(Current)]]
    BY <1>4 DEF SbatchAccepts
  <2>2. origin \in [Job -> Origin \cup {None}]
    BY DEF SubInv, TypeOK
  <2>3. Chosen(Current)' = Chosen(Current)
    BY <1>3 DEF Chosen
  <2> QED BY <1>3, <2>1, <2>2, <2>3 DEF HoldsItsJob
<1>5. CASE pc \in Writing \cup {"record", "return"} /\ job' = job
  <2>1. origin' = origin \/ SbatchAccepts
    BY StepKinds DEF jobs, OpenConfig, FillConfig, WriteMetadata, RecordSubmission,
       StartJob, NoConfig, LoadConfig
  <2> QED BY <1>1, <1>3, <1>4, <1>5, <2>1 DEF HoldsItsJob, Chosen
<1> QED BY <1>3, <1>4, <1>5

(* What each step that touches a job does, at which job. *)
LEMMA JobSteps ==
    ASSUME SubInv, [Next]_vars
    PROVE  \/ UNCHANGED <<submissions, origin, saved, metadata, loaded>>
           \/ /\ pc = "sbatch" /\ pc' = "mkdir" /\ job' \in Job /\ origin[job'] = None
              /\ origin' = [origin EXCEPT ![job'] =
                     [file |-> file, batch |-> batch, config |-> Chosen(Current)]]
              /\ UNCHANGED <<submissions, saved, metadata, loaded>>
           \/ /\ pc = "open" /\ pc' = "fill" /\ job' = job /\ job \in Job
              /\ saved' = [saved EXCEPT ![job] = "empty"]
              /\ UNCHANGED <<submissions, origin, metadata, loaded>>
           \/ /\ pc = "fill" /\ pc' = "metadata" /\ job' = job /\ job \in Job
              /\ saved' = [saved EXCEPT ![job] = Content(Current)]
              /\ UNCHANGED <<submissions, origin, metadata, loaded>>
           \/ /\ pc = "metadata" /\ pc' = "record" /\ job' = job /\ job \in Job
              /\ metadata' = [metadata EXCEPT ![job] = TRUE]
              /\ UNCHANGED <<submissions, origin, saved, loaded>>
           \/ /\ pc = "record" /\ pc' = "return" /\ job' = job /\ job \in Job
              /\ submissions' = submissions \cup {job}
              /\ UNCHANGED <<origin, saved, metadata, loaded>>
           \/ /\ \E j \in Job : /\ saved[j] \notin NoFile
                                /\ loaded' = [loaded EXCEPT ![j] = saved[j]]
              /\ UNCHANGED <<submissions, origin, saved, metadata, pc, job, file, batch>>
<1>1. pc \in Writing \cup {"record", "return"} => job \in Job
  BY DEF SubInv, HoldsItsJob
<1>2. CASE UNCHANGED <<submissions, jobs>>
  BY <1>2 DEF jobs
<1>3. CASE SbatchAccepts
  BY <1>3, StepOrder DEF SbatchAccepts
<1>4. CASE OpenConfig
  BY <1>1, <1>4, StepOrder DEF OpenConfig, Writing
<1>5. CASE FillConfig
  BY <1>1, <1>5, StepOrder DEF FillConfig, Writing
<1>6. CASE WriteMetadata
  BY <1>1, <1>6, StepOrder DEF WriteMetadata, Writing
<1>7. CASE RecordSubmission
  BY <1>1, <1>7, StepOrder DEF RecordSubmission, jobs
<1>8. ASSUME NEW j \in Job, StartJob(j) \/ NoConfig(j)
      PROVE  UNCHANGED <<submissions, origin, saved, metadata, loaded>>
  BY <1>8 DEF StartJob, NoConfig, cli
<1>9. ASSUME NEW j \in Job, LoadConfig(j)
      PROVE  /\ saved[j] \notin NoFile /\ loaded' = [loaded EXCEPT ![j] = saved[j]]
             /\ UNCHANGED <<submissions, origin, saved, metadata, pc, job, file, batch>>
  BY <1>9 DEF LoadConfig, cli, NoFile
<1> QED BY <1>2, <1>3, <1>4, <1>5, <1>6, <1>7, <1>8, <1>9, StepKinds

(* Which job is held after which step.                                     *)
LEMMA HeldBefore ==
    ASSUME SubInv, [Next]_vars
    PROVE  /\ pc' \in Writing \ {"mkdir"} => pc \in Writing /\ job' = job /\ (pc' = pc \/ pc' = StepAfter[pc])
           /\ pc' = "mkdir" => (pc = "mkdir" /\ job' = job) \/ SbatchAccepts
           /\ pc' = "record" => pc \in {"metadata", "record"} /\ job' = job
           /\ pc' = "return" => pc \in {"record", "return"} /\ job' = job
<1>1. Return \/ FileDone \/ CommandDone \/ SetupMissing \/ Raise \/ DryRun
         => pc' \in {"next", "ended"}
  BY DEF Return, FileDone, CommandDone, SetupMissing, Raise, DryRun, FailFile
<1>2. pc' \in Writing \cup {"record", "return"} =>
         \/ pc' = pc /\ job' = job
         \/ /\ pc \in Steps \ {"return"} /\ pc' = StepAfter[pc]
            /\ job' = job \/ (pc = "sbatch" /\ SbatchAccepts)
  BY <1>1, StepMoves DEF Writing
<1>3. pc \in Steps \ {"return"} =>
         /\ StepAfter[pc] = "mkdir" => pc = "sbatch"
         /\ StepAfter[pc] \in Writing \ {"mkdir"} => pc \in Writing
         /\ StepAfter[pc] = "record" => pc = "metadata"
         /\ StepAfter[pc] = "return" => pc = "record"
  BY DEF Steps, StepAfter, Writing
<1>4. (pc = "sbatch" /\ pc' = "mkdir") => SbatchAccepts
  BY StepOrder DEF Next, vars, cli, TakeBatch, DryRun, FileDone, CommandDone, Checked,
     SetupMissing, CreateScript, WriteScript, MakeDirectory, OpenConfig, FillConfig,
     WriteMetadata, RecordSubmission, Return, Raise, FailFile, EditFile, StartJob, NoConfig,
     LoadConfig, Ended
<1>5. "sbatch" \notin Writing /\ "record" \notin Writing
  BY DEF Writing
<1> QED BY <1>2, <1>3, <1>4, <1>5 DEF Writing

LEMMA WrittenStep ==
    ASSUME SubInv, [Next]_vars
    PROVE  WrittenBeforeRecorded'
<1>1. /\ WrittenBeforeRecorded /\ HoldsItsJob /\ UnusedJobs
      /\ saved \in [Job -> Config \cup {"absent", "empty", Edited}]
      /\ metadata \in [Job -> BOOLEAN]
  BY DEF SubInv, TypeOK
<1>2. pc' \in Writing \cup {"record"} => job' \notin submissions'
  <2>1. CASE pc' = "mkdir"
    <3>1. CASE SbatchAccepts
      BY <1>1, <3>1 DEF SbatchAccepts, UnusedJobs
    <3>2. CASE pc = "mkdir" /\ job' = job
      BY <1>1, <2>1, <3>2, JobSteps DEF WrittenBeforeRecorded, Writing
    <3> QED BY <2>1, <3>1, <3>2, HeldBefore
  <2>2. CASE pc' \in (Writing \ {"mkdir"}) \cup {"record"}
    <3>1. pc \in Writing \cup {"record"} /\ job' = job
      BY <2>2, HeldBefore DEF Writing
    <3>2. submissions' = submissions
      BY <2>2, JobSteps DEF Writing
    <3> QED BY <1>1, <3>1, <3>2 DEF WrittenBeforeRecorded
  <2> QED BY <2>1, <2>2
<1>3. pc' \in {"metadata", "record", "return"} => saved'[job'] \notin NoFile
  <2>1. SUFFICES ASSUME pc' \in {"metadata", "record", "return"}
        PROVE  saved'[job'] \notin NoFile
    OBVIOUS
  <2>2. job' = job /\ job \in Job
    BY <1>1, <2>1, HeldBefore DEF HoldsItsJob, Writing
  <2>3. CASE pc = "fill"
    <3>1. saved' = [saved EXCEPT ![job] = Content(Current)]
      <4>1. FillConfig
        BY <2>1, <2>3, StepOrder DEF Next, vars, cli, TakeBatch, DryRun, FileDone, CommandDone,
           Checked, SetupMissing, CreateScript, WriteScript, SbatchAccepts, MakeDirectory,
           OpenConfig, WriteMetadata, RecordSubmission, Return, Raise, FailFile, EditFile,
           StartJob, NoConfig, LoadConfig, Ended
      <4> QED BY <4>1 DEF FillConfig
    <3>2. Content(Current) \notin NoFile
      BY <2>3, ContentShape DEF SubInv, AtStep, Steps, Writing
    <3> QED BY <1>1, <2>2, <3>1, <3>2
  <2>4. CASE pc \in {"metadata", "record", "return"}
    <3>1. saved' = saved
      BY <2>4, <2>1, JobSteps
    <3> QED BY <1>1, <2>2, <2>4, <3>1 DEF WrittenBeforeRecorded
  <2>5. pc \in {"fill", "metadata", "record", "return"}
    <3>1. (pc \in Writing /\ StepAfter[pc] = "metadata") => pc = "fill"
      BY DEF StepAfter, Writing
    <3> QED BY <2>1, <3>1, HeldBefore DEF Writing
  <2> QED BY <2>3, <2>4, <2>5
<1>4. pc' \in {"record", "return"} => metadata'[job']
  <2>1. SUFFICES ASSUME pc' \in {"record", "return"}
        PROVE  metadata'[job']
    OBVIOUS
  <2>2. job' = job /\ job \in Job /\ pc \in {"metadata", "record", "return"}
    BY <1>1, <2>1, HeldBefore DEF HoldsItsJob, Writing
  <2>3. CASE pc = "metadata"
    <3>1. WriteMetadata
      BY <2>1, <2>3, StepOrder DEF Next, vars, cli, TakeBatch, DryRun, FileDone, CommandDone,
         Checked, SetupMissing, CreateScript, WriteScript, SbatchAccepts, MakeDirectory,
         OpenConfig, FillConfig, RecordSubmission, Return, Raise, FailFile, EditFile,
         StartJob, NoConfig, LoadConfig, Ended
    <3> QED BY <1>1, <2>2, <3>1 DEF WriteMetadata
  <2>4. CASE pc \in {"record", "return"}
    <3>1. metadata' = metadata
      BY <2>4, JobSteps
    <3> QED BY <1>1, <2>2, <2>4, <3>1 DEF WrittenBeforeRecorded
  <2> QED BY <2>2, <2>3, <2>4
<1> QED BY <1>2, <1>3, <1>4 DEF WrittenBeforeRecorded

(* An accepted job stays what it was accepted for, and so does what it     *)
(* owns; a job accepted in this step has nothing yet.                      *)
LEMMA AcceptedStay ==
    ASSUME SubInv, [Next]_vars, NEW j \in Job
    PROVE  /\ origin[j] # None => origin'[j] = origin[j]
           /\ origin[j] # None => \A content : Owns(j, content) => Owns(j, content)'
           /\ origin'[j] = None => origin[j] = None
           /\ (origin[j] = None /\ origin'[j] # None) => UNCHANGED <<submissions, saved, loaded>>
<1>1. Files' = Files /\ origin \in [Job -> Origin \cup {None}]
  BY StepKinds DEF SubInv, TypeOK, Files
<1>2. /\ origin[j] # None => origin'[j] = origin[j]
      /\ origin'[j] = None => origin[j] = None
      /\ (origin[j] = None /\ origin'[j] # None) => UNCHANGED <<submissions, saved, loaded>>
  <2>1. CASE UNCHANGED origin
    BY <2>1
  <2>2. CASE SbatchAccepts
    <3>1. /\ job' \in Job /\ origin[job'] = None /\ UNCHANGED <<submissions, saved, loaded>>
          /\ origin' = [origin EXCEPT ![job'] =
                 [file |-> file, batch |-> batch, config |-> Chosen(Current)]]
      BY <2>2 DEF SbatchAccepts
    <3>2. pc = "sbatch" /\ MoreBatches /\ Len(Current.configs) > 0
      BY <2>2, StepOrder DEF SbatchAccepts, SubInv, AtStep, Steps
    <3>3. [file |-> file, batch |-> batch, config |-> Chosen(Current)] \in Origin
      BY <3>2, CommandShape, ContentShape DEF SubInv, Origin
    <3>4. [file |-> file, batch |-> batch, config |-> Chosen(Current)] # None
      BY <3>3, CommandsAssumption
    <3> QED BY <1>1, <3>1, <3>4
  <2> QED BY <2>1, <2>2, StepKinds
          DEF jobs, OpenConfig, FillConfig, WriteMetadata, RecordSubmission,
              StartJob, NoConfig, LoadConfig
<1>3. origin[j] # None => \A content : Owns(j, content) => Owns(j, content)'
  BY <1>1, <1>2 DEF Owns, KindOf
<1> QED BY <1>2, <1>3

LEMMA UnusedJobsStep ==
    ASSUME SubInv, [Next]_vars
    PROVE  UnusedJobs'
<1>1. SUFFICES ASSUME NEW j \in Job, origin'[j] = None
      PROVE  saved'[j] = "absent" /\ loaded'[j] = None /\ j \notin submissions'
  BY DEF UnusedJobs
<1>2. origin[j] = None /\ saved[j] = "absent" /\ loaded[j] = None /\ j \notin submissions
  BY <1>1, AcceptedStay DEF SubInv, UnusedJobs
<1>3. /\ saved \in [Job -> Config \cup {"absent", "empty", Edited}]
      /\ loaded \in [Job -> Config \cup {None, Edited}]
  BY DEF SubInv, TypeOK
<1>4. pc \in Writing \cup {"record"} => job # j
  <2>1. SUFFICES ASSUME pc \in Writing \cup {"record"}, job = j
        PROVE  FALSE
    OBVIOUS
  <2>2. origin[j] = [file |-> file, batch |-> batch, config |-> Chosen(Current)]
    BY <2>1 DEF SubInv, HoldsItsJob
  <2>3. origin[j] \in Origin
    BY <2>1, <2>2, CommandShape, ContentShape DEF SubInv, AtStep, Origin, Steps, Writing
  <2> QED BY <1>2, <2>3, CommandsAssumption
<1> QED BY <1>2, <1>3, <1>4, JobSteps DEF NoFile, Writing

LEMMA SavedItsOwnStep ==
    ASSUME SubInv, [Next]_vars
    PROVE  SavedItsOwn'
<1>1. SUFFICES ASSUME NEW j \in Job, saved'[j] \notin NoFile
      PROVE  Owns(j, saved[j])'
  BY DEF SavedItsOwn
<1>2. /\ saved \in [Job -> Config \cup {"absent", "empty", Edited}]
      /\ SavedItsOwn /\ UnusedJobs /\ HoldsItsJob
  BY DEF SubInv, TypeOK
<1>3. CASE saved'[j] = saved[j]
  <2>1. Owns(j, saved[j]) /\ origin[j] # None
    BY <1>1, <1>2, <1>3 DEF SavedItsOwn, UnusedJobs, NoFile
  <2>2. \A content : Owns(j, content) => Owns(j, content)'
    BY <2>1, AcceptedStay
  <2>3. (origin'[j] = origin[j]) /\ Files' = Files
    BY <2>1, AcceptedStay, StepKinds DEF Files
  <2> QED BY <1>3, <2>1, <2>3 DEF Owns, KindOf
<1>4. CASE saved'[j] # saved[j]
  <2>1. pc = "fill" /\ j = job /\ saved'[j] = Content(Current)
    BY <1>1, <1>2, <1>4, JobSteps DEF NoFile
  <2>2. UNCHANGED origin /\ Files' = Files
    BY <1>4, <2>1, JobSteps, StepKinds DEF Files
  <2>3. origin[j] = [file |-> file, batch |-> batch, config |-> Chosen(Current)]
    BY <1>2, <2>1 DEF HoldsItsJob, Writing
  <2>4. \/ Content(Current) = Chosen(Current)
        \/ Content(Current) = Edited /\ Current.kind = "single"
    BY <2>1, ContentShape DEF SubInv, AtStep, Steps, Writing
  <2> QED BY <2>1, <2>2, <2>3, <2>4 DEF Owns, KindOf, Current
<1> QED BY <1>3, <1>4

LEMMA RunsItsOwnStep ==
    ASSUME SubInv, [Next]_vars
    PROVE  RunsItsOwn'
<1>1. SUFFICES ASSUME NEW j \in Job, loaded'[j] # None
      PROVE  Owns(j, loaded[j])'
  BY DEF RunsItsOwn, Owns
<1>2. /\ loaded \in [Job -> Config \cup {None, Edited}]
      /\ SavedItsOwn /\ UnusedJobs /\ \A i \in Job : loaded[i] # None => Owns(i, loaded[i])
  BY DEF SubInv, TypeOK, RunsItsOwn, Owns
<1>3. Files' = Files
  BY StepKinds DEF Files
<1>4. CASE loaded'[j] = loaded[j]
  <2>1. Owns(j, loaded[j]) /\ origin[j] # None
    BY <1>1, <1>2, <1>4 DEF UnusedJobs
  <2> QED BY <1>3, <1>4, <2>1, AcceptedStay DEF Owns, KindOf
<1>5. CASE loaded'[j] # loaded[j]
  <2>1. saved[j] \notin NoFile /\ loaded'[j] = saved[j]
    BY <1>2, <1>5, JobSteps
  <2>2. Owns(j, saved[j]) /\ origin[j] # None
    BY <1>2, <2>1 DEF SavedItsOwn, UnusedJobs, NoFile
  <2> QED BY <1>3, <2>1, <2>2, AcceptedStay DEF Owns, KindOf
<1> QED BY <1>4, <1>5

LEMMA RecordedAreReadyStep ==
    ASSUME SubInv, [Next]_vars
    PROVE  RecordedAreReady'
<1>1. SUFFICES ASSUME NEW j \in submissions'
      PROVE  metadata'[j] /\ saved'[j] \notin NoFile
  BY DEF RecordedAreReady, NoFile
<1>2. /\ RecordedAreReady /\ WrittenBeforeRecorded /\ submissions \subseteq Job
      /\ saved \in [Job -> Config \cup {"absent", "empty", Edited}]
      /\ metadata \in [Job -> BOOLEAN]
  BY DEF SubInv, TypeOK
<1>3. CASE j \in submissions
  <2>1. metadata[j] /\ saved[j] \notin NoFile /\ j \in Job
    BY <1>2, <1>3 DEF RecordedAreReady, NoFile
  <2>2. pc \in Writing => j # job
    BY <1>2, <1>3 DEF WrittenBeforeRecorded
  <2>3. saved'[j] = saved[j]
    BY <1>2, <2>1, <2>2, JobSteps DEF Writing
  <2>4. metadata'[j]
    BY <1>2, <2>1, <2>2, JobSteps DEF Writing
  <2> QED BY <2>1, <2>3, <2>4
<1>4. CASE j \notin submissions
  <2>1. j = job /\ pc = "record" /\ UNCHANGED <<saved, metadata>>
    BY <1>1, <1>4, JobSteps
  <2> QED BY <1>2, <2>1 DEF WrittenBeforeRecorded
<1> QED BY <1>3, <1>4

LEMMA TemporaryFilesStep ==
    ASSUME SubInv, [Next]_vars
    PROVE  TemporaryFiles'
<1>1. TemporaryFiles
  BY DEF SubInv
<1>2. CASE TakeBatch \/ DryRun \/ FileDone \/ CommandDone \/ EditFile \/ Ended \/ UNCHANGED vars
           \/ \E j \in Job : StartJob(j) \/ NoConfig(j) \/ LoadConfig(j)
  BY <1>1, <1>2 DEF TemporaryFiles, TakeBatch, DryRun, FileDone, CommandDone, EditFile, Ended,
     StartJob, NoConfig, LoadConfig, FailFile, vars, cli
<1>3. CASE Checked \/ CreateScript \/ WriteScript \/ SbatchAccepts \/ MakeDirectory
           \/ OpenConfig \/ FillConfig \/ WriteMetadata \/ RecordSubmission
  BY <1>1, <1>3, StepOrder DEF TemporaryFiles, Checked, CreateScript, WriteScript, SbatchAccepts,
     MakeDirectory, OpenConfig, FillConfig, WriteMetadata, RecordSubmission
<1>4. CASE SetupMissing \/ Return
  BY <1>1, <1>4 DEF TemporaryFiles, SetupMissing, Return
<1>5. CASE Raise
  BY <1>1, <1>5 DEF TemporaryFiles, Raise, Kept
<1> QED BY <1>2, <1>3, <1>4, <1>5 DEF Next

-----------------------------------------------------------------------------
(* What lies behind the submitter stays behind it, and only a recorded     *)
(* batch, or one of a file that has failed, comes to lie behind it.        *)
LEMMA BehindGrows ==
    ASSUME SubInv, [Next]_vars, NEW f \in Nat, NEW b \in Nat \ {0}
    PROVE  /\ Behind(f, b) => Behind(f, b)'
           /\ (Behind(f, b)' /\ ~Behind(f, b) /\ ~cmd.dry_run) =>
                 \/ f = file /\ f \in failed'
                 \/ f = file /\ b = batch /\ pc = "record" /\ pc' = "return"
                 \/ f = file /\ b >= batch /\ FileDone
           /\ failed \subseteq failed'
<1>1. file \in Nat /\ batch \in Nat
  BY CommandShape DEF SubInv
<1>2. CASE UNCHANGED <<file, batch, failed>> /\ pc' # "return" /\ pc # "return"
  BY <1>2 DEF Behind
<1>3. CASE UNCHANGED <<file, batch, pc, failed>>
  BY <1>3 DEF Behind
<1>4. CASE UNCHANGED <<file, batch, failed>> /\ pc = "record" /\ pc' = "return"
  BY <1>1, <1>4 DEF Behind
<1>5. CASE Return
  BY <1>1, <1>5 DEF Behind, Return
<1>6. CASE FileDone
  <2>1. pc = "next" /\ file' = file + 1 /\ batch' = 1 /\ failed' = failed
    BY <1>6 DEF FileDone, NextFile
  <2>2. Behind(f, b)' <=> f < file \/ f = file
    <3>1. pc' = "next"
      BY <1>6 DEF FileDone
    <3> QED BY <1>1, <2>1, <3>1 DEF Behind
  <2>3. Behind(f, b) <=> f < file \/ (f = file /\ b < batch)
    BY <2>1 DEF Behind
  <2> QED BY <1>1, <1>6, <2>1, <2>2, <2>3
<1>7. CASE FailFile /\ pc # "return"
  <2>1. /\ failed' = failed \cup {file} /\ pc' # "return"
        /\ (file' = file + 1 /\ batch' = 1) \/ UNCHANGED <<file, batch>>
    BY <1>7 DEF FailFile, NextFile
  <2>2. Behind(f, b) <=> f < file \/ (f = file /\ b < batch)
    BY <1>7 DEF Behind
  <2>3. CASE UNCHANGED <<file, batch>>
    BY <1>7, <2>1, <2>2, <2>3 DEF Behind
  <2>4. CASE file' = file + 1 /\ batch' = 1
    <3>1. Behind(f, b)' <=> f < file \/ f = file
      BY <1>1, <2>1, <2>4 DEF Behind
    <3> QED BY <1>1, <2>1, <2>2, <3>1
  <2> QED BY <2>1, <2>3, <2>4
<1>8. CASE DryRun
  <2>1. pc = "next" /\ cmd.dry_run
    BY <1>8 DEF DryRun
  <2>2. CASE batch' = batch + 1 /\ UNCHANGED <<file, pc, failed, exit>>
    BY <1>1, <2>1, <2>2 DEF Behind
  <2> QED BY <1>7, <1>8, <2>1, <2>2 DEF DryRun
<1>9. CASE Raise
  BY <1>7, <1>9 DEF Raise, Writing
<1>10. CASE CommandDone \/ SetupMissing
  BY <1>2, <1>10 DEF CommandDone, SetupMissing
<1>11. CASE /\ pc \in Steps \ {"return"} /\ pc' = StepAfter[pc]
            /\ UNCHANGED <<file, batch, failed>>
  <2>1. pc' = "return" => pc = "record"
    BY <1>11 DEF StepAfter, Steps, Writing
  <2> QED BY <1>2, <1>4, <1>11, <2>1
<1>12. CASE pc = "next" /\ pc' = "check" /\ UNCHANGED <<file, batch, failed>>
  BY <1>2, <1>12
<1> QED BY <1>3, <1>5, <1>6, <1>8, <1>9, <1>10, <1>11, <1>12, StepMoves

(* Where the batch of a recorded job is. *)
LEMMA RecordedShape ==
    ASSUME SubInv, NEW j \in submissions
    PROVE  j \in Job /\ origin[j] \in Origin /\ origin[j].file \in Nat /\ origin[j].batch \in Nat \ {0}
<1>1. j \in Job /\ origin[j] \in Origin \cup {None} /\ origin[j] # None
  BY DEF SubInv, TypeOK, UnusedJobs
<1> QED BY <1>1 DEF Origin

LEMMA RecordedAreBehindStep ==
    ASSUME SubInv, [Next]_vars
    PROVE  RecordedAreBehind'
<1>1. SUFFICES ASSUME NEW j \in submissions'
      PROVE  Behind(origin[j].file, origin[j].batch)'
  BY DEF RecordedAreBehind
<1>2. CASE j \in submissions
  <2>1. Behind(origin[j].file, origin[j].batch)
    BY <1>2 DEF SubInv, RecordedAreBehind
  <2>2. origin'[j] = origin[j]
    BY <1>2, RecordedShape, AcceptedStay, CommandsAssumption
  <2>3. origin[j].file \in Nat /\ origin[j].batch \in Nat \ {0}
    BY <1>2, RecordedShape
  <2>4. \A f \in Nat, b \in Nat \ {0} : Behind(f, b) => Behind(f, b)'
    BY BehindGrows
  <2> QED BY <2>1, <2>2, <2>3, <2>4 DEF Behind
<1>3. CASE j \notin submissions
  <2>1. j = job /\ pc = "record" /\ pc' = "return" /\ origin' = origin
    BY <1>1, <1>3, JobSteps
  <2>2. origin[j].file = file /\ origin[j].batch = batch
    BY <2>1 DEF SubInv, HoldsItsJob
  <2>3. UNCHANGED <<file, batch>>
    BY <2>1, StepMoves DEF Return, FileDone, CommandDone, SetupMissing, Raise, DryRun, Writing
  <2> QED BY <2>1, <2>2, <2>3 DEF Behind
<1> QED BY <1>2, <1>3

LEMMA BehindAreRecordedStep ==
    ASSUME SubInv, [Next]_vars
    PROVE  BehindAreRecorded'
<1>1. Files' = Files /\ UNCHANGED cmd
  BY StepMoves DEF Files
<1>2. SUFFICES ASSUME ~cmd.dry_run, NEW f \in DOMAIN Files \ failed',
                      NEW b \in DOMAIN Files[f], Behind(f, b)'
      PROVE  \E j \in Job : /\ RecordedFor(j, f, b)'
                            /\ \A k \in Job : RecordedFor(k, f, b)' => k = j
  BY <1>1 DEF BehindAreRecorded
<1>3. /\ f \in Nat /\ f \in 1 .. Len(Files) /\ b \in Nat \ {0} /\ b \in 1 .. Len(Files[f])
      /\ file \in Nat /\ batch \in Nat /\ Len(Files[f]) \in Nat
  BY <1>2, CommandShape DEF SubInv
<1>4. \A k \in Job : (k \in submissions /\ RecordedFor(k, f, b)') => RecordedFor(k, f, b)
  BY RecordedShape, AcceptedStay, CommandsAssumption DEF RecordedFor
<1>5. \A k \in Job : RecordedFor(k, f, b) => RecordedFor(k, f, b)'
  <2>1. submissions \subseteq submissions'
    BY JobSteps
  <2> QED BY <2>1, RecordedShape, AcceptedStay, CommandsAssumption DEF RecordedFor
<1>6. \A k \in Job : (k \in submissions' /\ k \notin submissions) =>
         k = job /\ pc = "record" /\ origin' = origin /\ origin[k].file = file /\ origin[k].batch = batch
  BY JobSteps DEF SubInv, HoldsItsJob
<1>7. pc = "record" => ~Behind(file, batch)
  BY <1>3 DEF Behind
<1>8. CASE Behind(f, b)
  <2>1. f \notin failed
    BY <1>2, <1>3, BehindGrows
  <2>2. PICK j \in Job : /\ RecordedFor(j, f, b)
                         /\ \A k \in Job : RecordedFor(k, f, b) => k = j
    BY <1>2, <1>8, <2>1 DEF SubInv, BehindAreRecorded
  <2>3. ASSUME NEW k \in Job, RecordedFor(k, f, b)'
        PROVE  k = j
    <3>1. k \in submissions
      BY <1>6, <1>7, <1>8, <2>3 DEF RecordedFor
    <3> QED BY <1>4, <2>2, <2>3, <3>1
  <2> QED BY <1>5, <2>2, <2>3
<1>9. CASE ~Behind(f, b)
  <2>1. \/ f = file /\ b = batch /\ pc = "record" /\ pc' = "return"
        \/ f = file /\ b >= batch /\ FileDone
    BY <1>2, <1>3, <1>9, BehindGrows
  <2>2. ~FileDone \/ f # file \/ ~(b >= batch)
    BY <1>3 DEF FileDone, MoreBatches
  <2>3. f = file /\ b = batch /\ pc = "record" /\ pc' = "return"
    BY <2>1, <2>2
  <2>4. RecordSubmission
    BY <2>3, StepOrder DEF Next, vars, cli, TakeBatch, DryRun, FileDone, CommandDone,
       Checked, SetupMissing, CreateScript, WriteScript, SbatchAccepts, MakeDirectory,
       OpenConfig, FillConfig, WriteMetadata, Return, Raise, FailFile, EditFile,
       StartJob, NoConfig, LoadConfig, Ended
  <2>5. /\ job \in Job /\ submissions' = submissions \cup {job} /\ origin' = origin
        /\ origin[job].file = f /\ origin[job].batch = b
    BY <2>3, <2>4 DEF RecordSubmission, jobs, SubInv, HoldsItsJob
  <2>6. ASSUME NEW k \in Job, RecordedFor(k, f, b)'
        PROVE  k = job
    <3>1. RecordedFor(k, f, b) => Behind(f, b)
      BY DEF RecordedFor, SubInv, RecordedAreBehind
    <3> QED BY <1>4, <1>6, <1>9, <2>6, <3>1 DEF RecordedFor
  <2> QED BY <2>5, <2>6 DEF RecordedFor
<1> QED BY <1>8, <1>9

LEMMA TypeStep ==
    ASSUME SubInv, [Next]_vars
    PROVE  TypeOK'
<1>1. /\ pc \in Steps \cup {"next", "ended"} /\ job \in Job \cup {None}
      /\ edited \in BOOLEAN /\ temp \in BOOLEAN /\ script \in BOOLEAN
      /\ kept \subseteq Steps /\ exit \in {0, 1, None}
      /\ cmd \in Commands
  BY DEF SubInv, TypeOK
<1>2. (Current.kind = "sweep") \in BOOLEAN
  OBVIOUS
<1>3. /\ pc' \in Steps \cup {"next", "ended"} /\ exit' \in {0, 1, None}
  <2>1. Return \/ FileDone \/ CommandDone \/ SetupMissing \/ Raise \/ DryRun
           => pc' \in {"next", "ended"} /\ exit' \in {0, 1, None}
    BY <1>1 DEF Return, FileDone, CommandDone, SetupMissing, Raise, DryRun, FailFile
  <2>2. "check" \in Steps
    BY DEF Steps
  <2> QED BY <1>1, <2>1, <2>2, StepMoves
<1>4. /\ job' \in Job \cup {None}
  <2>1. Return \/ FileDone \/ CommandDone \/ SetupMissing \/ Raise \/ DryRun
           => job' = job \/ job' = None
    BY DEF Return, FileDone, CommandDone, SetupMissing, Raise, DryRun
  <2>2. SbatchAccepts => job' \in Job
    BY DEF SbatchAccepts
  <2> QED BY <1>1, <2>1, <2>2, StepMoves
<1>5. edited' \in BOOLEAN /\ temp' \in BOOLEAN /\ script' \in BOOLEAN
  <2>1. /\ edited' \in {edited, TRUE, FALSE}
        /\ temp' \in {temp, FALSE, (Current.kind = "sweep")}
        /\ script' \in {script, TRUE, FALSE}
    BY DEF Next, vars, cli, TakeBatch, DryRun, FileDone, CommandDone, Checked, SetupMissing,
       CreateScript, WriteScript, SbatchAccepts, MakeDirectory, OpenConfig, FillConfig,
       WriteMetadata, RecordSubmission, Return, Raise, EditFile, StartJob, NoConfig,
       LoadConfig, Ended
  <2> QED BY <1>1, <1>2, <2>1
<1>6. kept' \subseteq Steps
  BY TemporaryFilesStep DEF TemporaryFiles, Steps
<1>7. Files' = Files /\ cmd' \in Commands
  BY <1>1, StepKinds DEF Files
<1> QED BY <1>3, <1>4, <1>5, <1>6, <1>7, PositionStep, JobTypesStep DEF TypeOK

LEMMA SubInvInit == Init => SubInv
<1> SUFFICES ASSUME Init
    PROVE  SubInv
  OBVIOUS
<1>1. /\ cmd \in Commands /\ file = 1 /\ batch = 1 /\ pc = "next" /\ job = None
      /\ edited = FALSE /\ temp = FALSE /\ script = FALSE /\ kept = {}
      /\ failed = {} /\ exit = None /\ submissions = {}
      /\ origin = [j \in Job |-> None]
      /\ state = [j \in Job |-> "none"]
      /\ saved = [j \in Job |-> "absent"]
      /\ metadata = [j \in Job |-> FALSE]
      /\ loaded = [j \in Job |-> None]
  BY DEF Init
<1>2. TypeOK
  <2>1. cmd \in Command
    BY <1>1, CommandsAssumption
  <2>2. Len(Files) \in Nat /\ \A f \in 1 .. Len(Files) : Len(Files[f]) \in Nat
    <3>1. Files \in Seq(Seq(Batch))
      BY <2>1 DEF Command, Files
    <3> QED BY <3>1
  <2>3. BatchesOf(1) \in Nat
    BY <2>2 DEF BatchesOf
  <2>4. file \in 1 .. Len(Files) + 1 /\ batch \in 1 .. BatchesOf(file) + 1
    BY <1>1, <2>2, <2>3
  <2> QED BY <1>1, <2>4 DEF TypeOK
<1>3. AtStep /\ HoldsItsJob /\ WrittenBeforeRecorded /\ TemporaryFiles
  BY <1>1, CommandsAssumption DEF AtStep, HoldsItsJob, WrittenBeforeRecorded, TemporaryFiles,
     Steps, Writing
<1>4. UnusedJobs /\ SavedItsOwn /\ RunsItsOwn /\ RecordedAreReady /\ RecordedAreBehind
  BY <1>1 DEF UnusedJobs, SavedItsOwn, RunsItsOwn, RecordedAreReady, RecordedAreBehind, NoFile
<1>5. BehindAreRecorded
  <2>1. ASSUME NEW f \in DOMAIN Files, NEW b \in DOMAIN Files[f], Behind(f, b)
        PROVE  FALSE
    <3>1. f \in Nat /\ f # 0 /\ b \in Nat /\ b # 0
      BY <1>2, CommandShape
    <3> QED BY <1>1, <2>1, <3>1 DEF Behind
  <2> QED BY <2>1 DEF BehindAreRecorded
<1> QED BY <1>2, <1>3, <1>4, <1>5 DEF SubInv

LEMMA SubInvStep == SubInv /\ [Next]_vars => SubInv'
<1> SUFFICES ASSUME SubInv, [Next]_vars
    PROVE  SubInv'
  OBVIOUS
<1> QED BY TypeStep, AtStepStep, HoldsItsJobStep, WrittenStep, UnusedJobsStep, SavedItsOwnStep,
           RunsItsOwnStep, RecordedAreReadyStep, RecordedAreBehindStep, BehindAreRecordedStep,
           TemporaryFilesStep DEF SubInv

-----------------------------------------------------------------------------
(* The inductive invariant of a submission, for any commands and jobs.     *)
THEOREM SubmissionInvariant == Spec => []SubInv
<1> QED BY SubInvInit, SubInvStep, PTL DEF Spec

(* The variables have their types, and the submitter stays within the      *)
(* command: at a batch of a file, or just behind the last.                 *)
THEOREM SubmissionTypeOK == Spec => []TypeOK
<1>1. SubInv => TypeOK
  BY DEF SubInv
<1> QED BY <1>1, SubmissionInvariant, PTL

(* A job that finds a configuration finds the one it was accepted for, or, *)
(* if it is a plain file's, what the user made of that file (submit.py:569 *)
(* and 573).                                                               *)
THEOREM SubmissionRunsItsOwn == Spec => []RunsItsOwn
<1>1. SubInv => RunsItsOwn
  BY DEF SubInv
<1> QED BY <1>1, SubmissionInvariant, PTL

(* What a caller learns as submitted is complete on disk, and stays so     *)
(* (submit.py:623 comes after all the writing).                            *)
THEOREM SubmissionRecordedAreReady == Spec => []RecordedAreReady
<1>1. SubInv => RecordedAreReady
  BY DEF SubInv
<1> QED BY <1>1, SubmissionInvariant, PTL

(* No temporary file outlives a submission but the scripts that were       *)
(* refused or could not be written (submit.py:544 and 659).                *)
THEOREM SubmissionNothingTemporaryLeft == Spec => []NothingTemporaryLeft
<1>1. SubInv => NothingTemporaryLeft
  <2>1. SubInv => /\ pc \in {"next", "ended"} => temp = FALSE /\ script = FALSE
                  /\ kept \subseteq {"write", "sbatch"}
    BY DEF SubInv, TemporaryFiles
  <2>2. (temp = FALSE => ~temp) /\ (script = FALSE => ~script)
    OBVIOUS
  <2> QED BY Zenon, <2>1, <2>2 DEF NothingTemporaryLeft
<1> QED BY <1>1, SubmissionInvariant, PTL

(* A command that ends with 0 has submitted every batch of every file not  *)
(* listed as failed, once (submit.py:901).                                 *)
THEOREM SubmissionFilesSubmitted == Spec => []FilesSubmitted
<1>1. SubInv => FilesSubmitted
  <2>1. SUFFICES ASSUME SubInv, exit = 0, ~cmd.dry_run,
                        NEW f \in DOMAIN Files \ failed, NEW b \in DOMAIN Files[f]
        PROVE  Cardinality({j \in submissions : origin[j].file = f /\ origin[j].batch = b}) = 1
    BY DEF FilesSubmitted
  <2>2. Behind(f, b)
    <3>1. file > Len(Files) /\ file \in Nat /\ f \in 1 .. Len(Files) /\ Len(Files) \in Nat
      BY <2>1, CommandShape DEF SubInv, AtStep
    <3> QED BY <3>1 DEF Behind
  <2>3. PICK j \in Job : /\ RecordedFor(j, f, b)
                         /\ \A k \in Job : RecordedFor(k, f, b) => k = j
    BY <2>1, <2>2 DEF SubInv, BehindAreRecorded
  <2>4. submissions \subseteq Job
    BY <2>1 DEF SubInv, TypeOK
  <2>5. {k \in submissions : origin[k].file = f /\ origin[k].batch = b} = {j}
    BY <2>3, <2>4 DEF RecordedFor
  <2> QED BY <2>5, FS_Singleton
<1> QED BY <1>1, SubmissionInvariant, PTL
=============================================================================

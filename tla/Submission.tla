------------------------------ MODULE Submission ------------------------------
(***************************************************************************)
(* `srtctl apply` (cli/submit.py) against Slurm and the jobs it starts.    *)
(*                                                                         *)
(* A command names one file or a directory of them.  A file holds batches: *)
(* a plain file one single configuration, a sweep file one sweep, an       *)
(* override file its variants, which may be sweeps themselves.  Each batch *)
(* is checked, turned into a script and handed to sbatch; after sbatch has *)
(* accepted it the submitter writes the job's output directory, while      *)
(* Slurm may already run the job, which reads its configuration there.     *)
(***************************************************************************)
EXTENDS Naturals, Sequences, FiniteSets

CONSTANTS
    Config,     \* resolved configurations
    Job,        \* the job ids Slurm may assign
    Commands,   \* the command lines
    None,       \* "nothing"
    Edited      \* what a file holds after the user has edited it

(* A single is submitted from the user's file, a variant from the text     *)
(* resolved from it, a sweep from a temporary file for a configuration.    *)
Batch == {b \in [kind : {"single", "variant", "sweep"}, configs : Seq(Config)] :
             b.kind # "sweep" => Len(b.configs) = 1}

Command == [directory : BOOLEAN, dry_run : BOOLEAN, files : Seq(Seq(Batch))]

(* What a job is accepted for. *)
Origin == [file : Nat \ {0}, batch : Nat \ {0}, config : Config]

ASSUME CommandsAssumption ==
    /\ Commands \subseteq Command
    /\ {None, Edited, "absent", "empty"} \cap Config = {}
    /\ Edited \notin {None, "absent", "empty"}
    /\ None \notin {0, 1} \cup Origin

VARIABLES
    cmd,            \* the command
    file, batch,    \* the file and the batch of it that is next or under way
    pc,             \* the step of submit_with_orchestrator it has reached
    job,            \* the job id sbatch has answered
    edited,         \* the user has edited the file since it was loaded
    temp,           \* temporary configuration files are on disk
    script,         \* the temporary script is on disk
    kept,           \* why scripts of earlier submissions still are
    failed,         \* the files that have failed
    exit,           \* the exit code of the command
    submissions,    \* _submissions
    origin,         \* what each job was accepted for
    state,          \* what has become of it
    saved,          \* the configuration file in its output directory
    metadata,       \* whether <job_id>.json is there
    loaded          \* the configuration do_sweep has loaded

cli == <<cmd, file, batch, pc, job, edited, temp, script, kept, failed, exit, submissions>>
jobs == <<origin, state, saved, metadata, loaded>>
vars == <<cli, jobs>>

Files == cmd.files
Current == Files[file][batch]

(* sbatch is followed by the writing of the output directory, and that by  *)
(* the record of the submission.                                           *)
Writing == {"mkdir", "open", "fill", "metadata"}
Steps == {"check", "script", "write", "sbatch"} \cup Writing \cup {"record", "return"}

(* submit_sweep builds a temporary configuration after its loop over the   *)
(* expanded ones, from the last of them.                                   *)
Chosen(b) == b.configs[Len(b.configs)]

Init ==
    /\ cmd \in Commands
    /\ file = 1 /\ batch = 1 /\ pc = "next" /\ job = None
    /\ edited = FALSE /\ temp = FALSE /\ script = FALSE /\ kept = {}
    /\ failed = {} /\ exit = None /\ submissions = {}
    /\ origin = [j \in Job |-> None]
    /\ state = [j \in Job |-> "none"]
    /\ saved = [j \in Job |-> "absent"]
    /\ metadata = [j \in Job |-> FALSE]
    /\ loaded = [j \in Job |-> None]

-----------------------------------------------------------------------------
(* Going through the files.                                                *)

MoreBatches == file <= Len(Files) /\ batch <= Len(Files[file])

(* The file is loaded; a sweep goes on from a temporary one.               *)
TakeBatch ==
    /\ pc = "next" /\ MoreBatches /\ ~cmd.dry_run
    /\ pc' = "check"
    /\ edited' = FALSE
    /\ temp' = (Current.kind = "sweep")
    /\ UNCHANGED <<cmd, file, batch, job, script, kept, failed, exit, submissions, jobs>>

NextFile == file' = file + 1 /\ batch' = 1

FileDone ==
    /\ pc = "next" /\ file <= Len(Files) /\ ~MoreBatches
    /\ NextFile
    /\ UNCHANGED <<cmd, pc, job, edited, temp, script, kept, failed, exit, submissions, jobs>>

(* A directory's command ends with 0 whatever has failed.                  *)
CommandDone ==
    /\ pc = "next" /\ file > Len(Files)
    /\ pc' = "ended" /\ exit' = 0
    /\ UNCHANGED <<cmd, file, batch, job, edited, temp, script, kept, failed, submissions, jobs>>

-----------------------------------------------------------------------------
(* One submission.                                                         *)

(* Mutant of StepAfter: the submission is recorded as soon as it is        *)
(* accepted, before its directory is written.                              *)
StepAfterRecordsFirst ==
    [check |-> "script", script |-> "write", write |-> "sbatch", sbatch |-> "record",
     record |-> "mkdir", mkdir |-> "open", open |-> "fill", fill |-> "metadata", metadata |-> "return"]

StepAfter ==
    [check |-> "script", script |-> "write", write |-> "sbatch", sbatch |-> "mkdir",
     mkdir |-> "open", open |-> "fill", fill |-> "metadata", metadata |-> "record", record |-> "return"]

At(s) == pc = s /\ pc' = StepAfter[s]

(* The configuration is loaded, validated and found to be available.       *)
Checked ==
    /\ At("check") /\ Len(Current.configs) > 0
    /\ UNCHANGED <<cmd, file, batch, job, edited, temp, script, kept, failed, exit, submissions, jobs>>

(* validate_setup leaves by SystemExit, which no handler of Exception on   *)
(* the way catches.                                                        *)
SetupMissing ==
    /\ pc = "check" /\ Len(Current.configs) > 0
    /\ pc' = "ended" /\ exit' = 1 /\ temp' = FALSE
    /\ UNCHANGED <<cmd, file, batch, job, edited, script, kept, failed, submissions, jobs>>

CreateScript ==
    /\ At("script")
    /\ script' = TRUE
    /\ UNCHANGED <<cmd, file, batch, job, edited, temp, kept, failed, exit, submissions, jobs>>

WriteScript ==
    /\ At("write")
    /\ UNCHANGED <<cmd, file, batch, job, edited, temp, script, kept, failed, exit, submissions, jobs>>

SbatchAccepts ==
    /\ At("sbatch")
    /\ \E j \in Job :
         /\ origin[j] = None
         /\ job' = j
         /\ origin' = [origin EXCEPT ![j] =
                [file |-> file, batch |-> batch, config |-> Chosen(Current)]]
         /\ state' = [state EXCEPT ![j] = "queued"]
    /\ UNCHANGED <<cmd, file, batch, edited, temp, script, kept, failed, exit, submissions,
                   saved, metadata, loaded>>

MakeDirectory ==
    /\ At("mkdir")
    /\ UNCHANGED <<cmd, file, batch, job, edited, temp, script, kept, failed, exit, submissions, jobs>>

(* The file do_sweep will read is opened for writing, and then filled.     *)
OpenConfig ==
    /\ At("open")
    /\ saved' = [saved EXCEPT ![job] = "empty"]
    /\ UNCHANGED <<cmd, file, batch, job, edited, temp, script, kept, failed, exit, submissions,
                   origin, state, metadata, loaded>>

(* Mutant of Content: a variant's file is the user's file as well.         *)
ContentFromSource(b) ==
    IF b.kind # "sweep" /\ edited THEN Edited ELSE Chosen(b)

(* config.yaml is a copy of the user's file or of the sweep's temporary    *)
(* one; the file of a variant holds the text resolved from it.             *)
Content(b) == IF b.kind = "single" /\ edited THEN Edited ELSE Chosen(b)

FillConfig ==
    /\ At("fill")
    /\ saved' = [saved EXCEPT ![job] = Content(Current)]
    /\ UNCHANGED <<cmd, file, batch, job, edited, temp, script, kept, failed, exit, submissions,
                   origin, state, metadata, loaded>>

WriteMetadata ==
    /\ At("metadata")
    /\ metadata' = [metadata EXCEPT ![job] = TRUE]
    /\ UNCHANGED <<cmd, file, batch, job, edited, temp, script, kept, failed, exit, submissions,
                   origin, state, saved, loaded>>

RecordSubmission ==
    /\ At("record")
    /\ submissions' = submissions \cup {job}
    /\ UNCHANGED <<cmd, file, batch, job, edited, temp, script, kept, failed, exit, jobs>>

(* The job's record is created at the collectors, or is not; the finally   *)
(* clauses remove the script and the temporary configuration.              *)
Return ==
    /\ pc = "return"
    /\ pc' = "next" /\ batch' = batch + 1
    /\ job' = None /\ script' = FALSE /\ temp' = FALSE
    /\ UNCHANGED <<cmd, file, edited, kept, failed, exit, submissions, jobs>>

(* Mutant of Kept: whatever fails, the script stays.                       *)
KeptOnAnyFailure(refused) == script

(* The script stays if sbatch has refused it (CalledProcessError), or if   *)
(* it could not be written, which happens before the try block.            *)
Kept(refused) == (pc = "sbatch" /\ refused) \/ pc = "write"

(* Mutant of FailFile: the error of a variant does not leave the loop over *)
(* the variants.                                                           *)
FailBatchOnly ==
    IF cmd.directory
    THEN pc' = "next" /\ batch' = batch + 1 /\ UNCHANGED <<failed, exit, file>>
    ELSE pc' = "ended" /\ exit' = 1 /\ UNCHANGED <<failed, file, batch>>

(* submit_directory goes on with the next file; main reports and exits.    *)
FailFile ==
    IF cmd.directory
    THEN pc' = "next" /\ failed' = failed \cup {file} /\ NextFile /\ UNCHANGED exit
    ELSE pc' = "ended" /\ exit' = 1 /\ failed' = failed \cup {file} /\ UNCHANGED <<file, batch>>

(* A dry run goes as far as the checks, which may raise.                   *)
DryRun ==
    /\ pc = "next" /\ MoreBatches /\ cmd.dry_run
    /\ \/ batch' = batch + 1 /\ UNCHANGED <<file, pc, failed, exit>>
       \/ FailFile
    /\ UNCHANGED <<cmd, job, edited, temp, script, kept, submissions, jobs>>

(* A step raises.  A sweep without configurations raises in any case, and  *)
(* nothing does any more once the job is recorded.                         *)
Raise ==
    /\ pc \in {"check", "script", "write", "sbatch"} \cup Writing
    /\ \E refused \in BOOLEAN :
         kept' = IF Kept(refused) THEN kept \cup {pc} ELSE kept
    /\ FailFile
    /\ job' = None /\ script' = FALSE /\ temp' = FALSE
    /\ UNCHANGED <<cmd, edited, submissions, jobs>>

-----------------------------------------------------------------------------
(* The user, Slurm and the jobs.                                           *)

EditFile ==
    /\ pc \in Steps /\ ~edited
    /\ edited' = TRUE
    /\ UNCHANGED <<cmd, file, batch, pc, job, temp, script, kept, failed, exit, submissions, jobs>>

StartJob(j) ==
    /\ state[j] = "queued"
    /\ state' = [state EXCEPT ![j] = "running"]
    /\ UNCHANGED <<cli, origin, saved, metadata, loaded>>

(* main() of do_sweep: the file is missing or empty.                       *)
NoConfig(j) ==
    /\ state[j] = "running" /\ saved[j] \in {"absent", "empty"}
    /\ state' = [state EXCEPT ![j] = "no config"]
    /\ UNCHANGED <<cli, origin, saved, metadata, loaded>>

LoadConfig(j) ==
    /\ state[j] = "running" /\ saved[j] \notin {"absent", "empty"}
    /\ state' = [state EXCEPT ![j] = "sweep"]
    /\ loaded' = [loaded EXCEPT ![j] = saved[j]]
    /\ UNCHANGED <<cli, origin, saved, metadata>>

Ended == pc = "ended" /\ UNCHANGED vars

Next ==
    \/ TakeBatch \/ DryRun \/ FileDone \/ CommandDone
    \/ Checked \/ SetupMissing \/ CreateScript \/ WriteScript \/ SbatchAccepts
    \/ MakeDirectory \/ OpenConfig \/ FillConfig \/ WriteMetadata
    \/ RecordSubmission \/ Return
    \/ Raise
    \/ EditFile
    \/ \E j \in Job : StartJob(j) \/ NoConfig(j) \/ LoadConfig(j)
    \/ Ended

Spec == Init /\ [][Next]_vars
-----------------------------------------------------------------------------
BatchesOf(f) == IF f <= Len(Files) THEN Len(Files[f]) ELSE 0

(* The submitter is at a batch of the command, and at most one behind the  *)
(* last of a file.                                                         *)
TypeOK ==
    /\ cmd \in Commands
    /\ file \in 1 .. Len(Files) + 1
    /\ batch \in 1 .. BatchesOf(file) + 1
    /\ pc \in Steps \cup {"next", "ended"}
    /\ job \in Job \cup {None}
    /\ edited \in BOOLEAN /\ temp \in BOOLEAN /\ script \in BOOLEAN
    /\ kept \subseteq Steps
    /\ failed \subseteq 1 .. Len(Files)
    /\ exit \in {0, 1, None}
    /\ submissions \subseteq Job
    /\ origin \in [Job -> Origin \cup {None}]
    /\ state \in [Job -> {"none", "queued", "running", "no config", "sweep"}]
    /\ saved \in [Job -> Config \cup {"absent", "empty", Edited}]
    /\ metadata \in [Job -> BOOLEAN]
    /\ loaded \in [Job -> Config \cup {None, Edited}]

KindOf(j) == Files[origin[j].file][origin[j].batch].kind

(* A job never runs another configuration than the one it was accepted     *)
(* for, although it reads it from a file written later: not after other    *)
(* submissions, and, unless it is a plain file's, not when the user edits  *)
(* the file meanwhile (submit.py:573 writes the resolved text).            *)
RunsItsOwn ==
    \A j \in Job : loaded[j] # None =>
        \/ loaded[j] = origin[j].config
        \/ loaded[j] = Edited /\ KindOf(j) = "single"

(* A recorded submission, which --json prints and the mock worker starts   *)
(* from, is complete: the job's configuration and metadata are on disk.    *)
RecordedAreReady ==
    \A j \in submissions : metadata[j] /\ saved[j] \notin {"absent", "empty"}

(* When a command ends with 0, every batch of every file that is not       *)
(* listed as failed has one recorded job, also when others failed before.  *)
FilesSubmitted ==
    (exit = 0 /\ ~cmd.dry_run) =>
        \A f \in DOMAIN Files \ failed : \A b \in DOMAIN Files[f] :
            Cardinality({j \in submissions : origin[j].file = f /\ origin[j].batch = b}) = 1

(* Between submissions no temporary file is left, except scripts that      *)
(* sbatch refused (submit.py:657) and scripts that could not be written.   *)
NothingTemporaryLeft ==
    pc \in {"next", "ended"} => ~temp /\ ~script /\ kept \subseteq {"write", "sbatch"}

(* docs/sweeps.md:65: a sweep submits one job for each configuration.      *)
SweepSubmitsAll ==
    (exit = 0 /\ failed = {} /\ ~cmd.dry_run) =>
        \A f \in DOMAIN Files : \A b \in DOMAIN Files[f] :
            Files[f][b].kind = "sweep" =>
                \A k \in DOMAIN Files[f][b].configs :
                    \E j \in submissions : /\ origin[j].file = f /\ origin[j].batch = b
                                           /\ origin[j].config = Files[f][b].configs[k]
=============================================================================

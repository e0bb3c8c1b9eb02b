------------------------------ MODULE Fingerprint ------------------------------
(***************************************************************************)
(* Fingerprints of the environment a worker runs in (core/fingerprint.py): *)
(* two ways to capture one, how two of them are compared, and how the      *)
(* identity that a recipe declares is verified against one.                *)
(*                                                                         *)
(* An environment e is a record                                            *)
(*   scalar     : what each scalar probe finds that asks no Python; of     *)
(*                "cuda_version" the [release, build] that nvcc prints,    *)
(*   python     : what the interpreters of a "worker" and of "srtctl"      *)
(*                answer: [scalar, frameworks], the frameworks a function  *)
(*                from those that are installed to their versions,         *)
(*   gpus       : the sequence of its GPUs, [name, driver],                *)
(*   vars       : the captured environment variables,                      *)
(*   model      : [repo, id, revision], each of them possibly None,        *)
(*   pip        : what each pip command prints, a function of Sources to   *)
(*                sequences of [name, version].                            *)
(* The text of a value is abstracted except where the code depends on it:  *)
(* what is asked of nvcc, how the NCCL version is written and the spelling *)
(* of package names.  Workers are numbers, in the order of their names.    *)
(***************************************************************************)
EXTENDS Naturals, Sequences, FiniteSets, TLC, SequencesExt

CONSTANTS Scalars,      \* the probes with a scalar answer
          Lower         \* the spellings of package names -> their lower case

None == "none"

\* What a probe returns: a text, and the form it is in.
Found(text) == <<"plain", text>>
Tuple(text) == <<"tuple", text>>             \* NCCL's version, a tuple of Python
Unavailable == <<"unavailable", "">>

\* nvcc's version as `srtctl check` asks for it, the build alone, and as the worker's
\* script does, the line with the release and the build.
Build(cuda)       == <<"V", cuda.build>>
ReleaseLine(cuda) == <<"release", <<cuda.release, cuda.build>>>>

\* The pip commands in the order they are tried; capture_fingerprint has no venv.
Sources == <<"venv", "python3", "pip", "uv">>

Get(f, k, default) == IF k \in DOMAIN f THEN f[k] ELSE default
If(condition, x) == IF condition THEN {x} ELSE {}

--------------------------------------------------------------------------------
(* Capturing.  A probe that fails never affects the others: `failing` are   *)
(* the probes that do.                                                      *)

PipOf(e, from) == [s \in {s \in ToSet(from) : e.pip[s] # << >>} |-> e.pip[s]]

\* The probes that ask an interpreter, and not the same: python_version is that of
\* the process itself, nccl_version is asked of the container's virtual environment
\* by a worker and of python3 by srtctl.
AskedOfPython == Scalars \cap {"python_version", "nccl_version"}

\* What who, a "worker" or "srtctl", finds when a probe does not fail.
Answer(e, who, f) ==
    CASE f = "cuda_version"   -> IF who = "worker" THEN ReleaseLine(e.scalar[f]) ELSE Build(e.scalar[f])
      [] f = "nccl_version"   -> Tuple(e.python[who].scalar[f])
      [] f = "python_version" -> Found(e.python[who].scalar[f])
      [] OTHER                -> Found(e.scalar[f])

ScalarsOf(e, who, failing) ==
    [f \in Scalars |-> IF f \in failing THEN Unavailable ELSE Answer(e, who, f)]

\* capture_fingerprint: on the machine that runs srtctl.  ok = FALSE is the
\* sentinel of a failed probe.
Capture(e, failing) ==
    [ scalar |-> ScalarsOf(e, "srtctl", failing),
      gpu |-> [ok |-> "gpu" \notin failing,
               driver |-> IF "gpu" \in failing \/ e.gpus = << >> THEN Unavailable
                          ELSE Found(Last(e.gpus).driver),
               names |-> IF "gpu" \in failing THEN << >>
                         ELSE [i \in DOMAIN e.gpus |-> e.gpus[i].name]],
      frameworks |-> e.python["srtctl"].frameworks,
      vars |-> << >>,
      model |-> [repo |-> None, id |-> None, revision |-> None],
      pip |-> LET found == PipOf(e, Tail(Sources)) IN
              [ok |-> "pip" \notin failing /\ DOMAIN found # {},
               lists |-> IF "pip" \in failing THEN << >> ELSE found] ]

\* The script a worker runs in its container before it starts.  It has no
\* sentinel for packages, and a machine without GPUs has no driver.
WorkerCapture(e, failing) ==
    [ scalar |-> ScalarsOf(e, "worker", failing),
      gpu |-> LET found == IF "gpu" \in failing THEN << >> ELSE e.gpus IN
              [ok |-> TRUE,
               driver |-> IF found = << >> THEN Unavailable ELSE Found(Head(found).driver),
               names |-> [i \in DOMAIN found |-> found[i].name]],
      frameworks |-> e.python["worker"].frameworks,
      vars |-> e.vars,
      model |-> e.model,
      pip |-> [ok |-> TRUE,
               lists |-> IF "pip" \in failing THEN << >> ELSE PipOf(e, Sources)] ]

--------------------------------------------------------------------------------
(* Comparing two fingerprints.                                              *)

\* The lists one after the other, in the order of Sources.
Lines(lists) ==
    LET List(s) == Get(lists, s, << >>) IN
    List("venv") \o (List("python3") \o (List("pip") \o List("uv")))

\* _parse_pip_packages: line by line, each overwrites what an earlier one said of
\* its package.  (The dictionary has a place for every package from the start.)
NamesIn(lines) == {Lower[lines[i].name] : i \in DOMAIN lines}
Parsed(lines) ==
    LET after[i \in 0 .. Len(lines)] ==
            IF i = 0 THEN [n \in NamesIn(lines) |-> ""]
            ELSE [after[i - 1] EXCEPT ![Lower[lines[i].name]] = lines[i].version]
    IN  after[Len(lines)]

\* name -> version.  A failed probe has no packages.
Packages(fp) == Parsed(IF fp.pip.ok THEN Lines(fp.pip.lists) ELSE << >>)

\* _extract_driver
Driver(fp) == IF fp.gpu.ok THEN fp.gpu.driver ELSE Unavailable

DriverField == "gpu.driver"
Fields == Scalars \cup {DriverField}
FieldOf(fp, f) == IF f = DriverField THEN Driver(fp) ELSE fp.scalar[f]

\* A mutant of Diff: only the packages of the reference are looked at.
DiffReferenceOnly(a, b) ==
    LET pa == Packages(a)
        pb == Packages(b)
        Status(p) == IF p \notin DOMAIN pb THEN "missing"
                     ELSE IF pa[p] # pb[p] THEN "mismatch" ELSE "ok"
    IN  [ changes |-> {f \in Fields : FieldOf(a, f) # FieldOf(b, f)},
          packages |-> [p \in {p \in DOMAIN pa : Status(p) # "ok"} |-> Status(p)],
          matched |-> Cardinality({p \in DOMAIN pa : Status(p) = "ok"}) ]

\* diff_fingerprints: the fields that changed (the others match), the packages
\* that differ, and the number of those that match.
Diff(a, b) ==
    LET pa == Packages(a)
        pb == Packages(b)
        all == DOMAIN pa \cup DOMAIN pb
        Status(p) == IF p \notin DOMAIN pb THEN "missing"
                     ELSE IF p \notin DOMAIN pa THEN "extra"
                     ELSE IF pa[p] # pb[p] THEN "mismatch" ELSE "ok"
    IN  [ changes |-> {f \in Fields : FieldOf(a, f) # FieldOf(b, f)},
          packages |-> [p \in {p \in all : Status(p) # "ok"} |-> Status(p)],
          matched |-> Cardinality({p \in all : Status(p) = "ok"}) ]

\* check_against_fingerprint: what differs, and how.
Check(reference, current) ==
    LET diff == Diff(reference, current)
        Blind(f) == Unavailable \in {FieldOf(reference, f), FieldOf(current, f)}
    IN  {<<<<"field", f>>, IF Blind(f) THEN "error" ELSE "mismatch">> : f \in diff.changes}
        \cup {<<<<"pip", p>>, diff.packages[p]>> : p \in DOMAIN diff.packages}

--------------------------------------------------------------------------------
(* verify_identity: what a recipe declares against the fingerprint of the   *)
(* first worker.  identity = [repo, commit, length, image, frameworks]; the *)
(* declared revision is the first `length` characters of a commit.          *)

First(workers) == CHOOSE w \in workers : \A v \in workers : w <= v

\* Shorter prefixes of a commit are not looked at.
MinRevision == 7

Result(field, passed, verifiable) ==
    [field |-> field, passed |-> passed, verifiable |-> verifiable]

\* A repository the model does not name, and every container image, are
\* recorded as declared: passed, but not verifiable.
VerifyOne(identity, fp) ==
    LET repo == IF fp.model.repo # None THEN fp.model.repo ELSE fp.model.id IN
    If(identity.repo # None,
       Result(<<"model.repo">>, repo \in {None, identity.repo}, repo # None))
    \cup If(identity.length >= MinRevision,
            Result(<<"model.revision">>, fp.model.revision = identity.commit, TRUE))
    \cup If(identity.image # None, Result(<<"container.image">>, TRUE, FALSE))
    \cup {Result(<<"frameworks", n>>,
                 Get(fp.frameworks, n, None) = identity.frameworks[n], TRUE)
            : n \in DOMAIN identity.frameworks}

VerifyIdentity(identity, fps) ==
    IF DOMAIN fps = {} THEN {} ELSE VerifyOne(identity, fps[First(DOMAIN fps)])

\* The summary that a lock file keeps of it.
Summary(results) ==
    [ verified |-> Cardinality({r \in results : r.passed /\ r.verifiable}),
      declared |-> Cardinality({r \in results : r.passed /\ ~r.verifiable}),
      failed   |-> Cardinality({r \in results : ~r.passed}) ]

--------------------------------------------------------------------------------
(* generate_reproduction_report: the issues between two runs (core/lockfile). *)

\* _short: of nvcc's line only the release, and NCCL's version without the tuple.
Short(value) == CASE value[1] = "release" -> Found(value[2][1])
                  [] value[1] = "tuple"   -> Found(value[2])
                  [] OTHER -> value

\* How many GPUs, and the name of the first: what the report shows of them.
GpuLabel(fp) == <<Len(fp.gpu.names), IF fp.gpu.names = << >> THEN "?" ELSE fp.gpu.names[1]>>

WorkerIssues(w, prev, new) ==
    If(GpuLabel(prev) # GpuLabel(new), <<w, "gpu">>)
    \cup {<<w, f>> : f \in {f \in Fields : Short(FieldOf(prev, f)) # Short(FieldOf(new, f))}}
    \cup {<<w, n>> : n \in {n \in DOMAIN prev.frameworks \cup DOMAIN new.frameworks :
                            Get(prev.frameworks, n, "?") # Get(new.frameworks, n, "?")}}
    \cup If(prev.vars # new.vars, <<w, "env">>)
    \cup If(Packages(prev) # Packages(new), <<w, "pip">>)

Issues(prev, new) ==
    IF {} \in {DOMAIN prev, DOMAIN new} THEN {}
    ELSE If(DOMAIN prev # DOMAIN new, <<0, "topology">>)
         \cup UNION {WorkerIssues(w, prev[w], new[w]) : w \in DOMAIN prev \cap DOMAIN new}
         \cup {<<w, "removed">> : w \in DOMAIN prev \ DOMAIN new}
         \cup {<<w, "added">> : w \in DOMAIN new \ DOMAIN prev}
================================================================================

------------------------------- MODULE Results -------------------------------
(***************************************************************************)
(* The results of one job and those who look at them.  The benchmark       *)
(* writes a file for each concurrency, one after the other; dashboards     *)
(* (RunLoader, analysis/srtlog) load the run at any time, parse the files, *)
(* keep what they parsed in a cache beside them, and edit the tags in the  *)
(* run's record.  All of it is shared files and nothing is locked.         *)
(*                                                                         *)
(* A cache file that is missing, empty or garbled is as good as none: {}   *)
(* stands for each of them.                                                *)
(***************************************************************************)
EXTENDS Naturals, FiniteSets

CONSTANTS
    Conc,           \* the concurrencies of the benchmark
    Order,          \* and the order of the list
    Reader,         \* dashboards, each a process with its own memory
    Tag,
    Layouts,        \* where the result directory may be, and the list of
                    \* concurrencies that the record then names
    MaxEdits,       \* bound: edits of the tags
    MaxCrashes      \* bound: dashboards killed and started again

ASSUME ResultsAssumption ==
    /\ Order \in [Conc -> Nat]
    /\ \A c, d \in Conc : Order[c] = Order[d] => c = d
    /\ Layouts \subseteq [place : {"run", "logs"}, expected : SUBSET Conc]
    /\ MaxEdits \in Nat /\ MaxCrashes \in Nat

VARIABLES
    file,               \* the result files
    place, expected,
    parquet,            \* the rows of benchmark_results.parquet
    meta,               \* the hashes that cache_metadata.json has for it
    record,             \* the tags in {jobid}.json, if it can be read
    pc,                 \* where each dashboard is
    todo, rows,         \* files it has yet to parse, rows it has
    copy,               \* the cache metadata in its hands
    view,               \* the run in its memory (st.cache_data)
    draft,              \* the tags it is about to write
    mixed,              \* dashboards whose write has met another's
    edits, crashes

(* History variables.                                                      *)
VARIABLES
    opened,     \* what a load has to show: files that were ready, or shown
    raced,      \* files finished between someone's parse and hash
    shown,      \* files that some view has shown
    intended,   \* the tags as the edits leave them
    foreign,    \* dashboards whose view is older than another's edit
    spoiled     \* an edit from such a view, met by another, or killed

jobvars == <<file, place, expected>>
cachevars == <<parquet, meta, mixed>>
tagvars == <<record, draft, edits, intended, foreign, spoiled>>
loadvars == <<todo, rows, copy, view, opened, shown>>
vars == <<jobvars, cachevars, tagvars, loadvars, pc, crashes, raced>>

FileState == {"none", "partial", "done"}
Done == {c \in Conc : file[c] = "done"}
Exists == {c \in Conc : file[c] # "none"}

Option(S) == {{}} \cup {{x} : x \in S}

(* The hashes of the files that the patterns match, which are looked for   *)
(* in the run's directory only.                                            *)
Hash == UNION {[D -> FileState] : D \in SUBSET Conc}

(* Mutant of Hashes: the patterns match nothing.                           *)
HashesOfNothing == [c \in {} |-> "none"]

Hashes == [c \in IF place = "run" THEN Exists ELSE {} |-> file[c]]

View == [rows : SUBSET Conc, tags : SUBSET Tag, complete : BOOLEAN]

TypeOK ==
    /\ file \in [Conc -> FileState]
    /\ [place |-> place, expected |-> expected] \in Layouts
    /\ parquet \subseteq Conc /\ meta \in Option(Hash) /\ record \in Option(SUBSET Tag)
    /\ pc \in [Reader -> {"idle", "meta", "hash", "cached", "parse", "parquet", "rehash",
                          "writemeta", "show", "other", "tagging"}]
    /\ todo \in [Reader -> SUBSET Conc] /\ rows \in [Reader -> SUBSET Conc]
    /\ copy \in [Reader -> Option(Hash)]
    /\ view \in [Reader -> Option(View)]
    /\ draft \in [Reader -> SUBSET Tag]
    /\ mixed \subseteq Reader
    /\ edits \in 0 .. MaxEdits /\ crashes \in 0 .. MaxCrashes
    /\ opened \in [Reader -> SUBSET Conc]
    /\ raced \subseteq Conc /\ shown \subseteq Conc
    /\ intended \subseteq Tag /\ foreign \subseteq Reader /\ spoiled \in BOOLEAN

Init ==
    /\ file = [c \in Conc |-> "none"]
    /\ \E l \in Layouts : place = l.place /\ expected = l.expected
    /\ parquet = {} /\ meta = {} /\ record = {{}}
    /\ pc = [r \in Reader |-> "idle"]
    /\ todo = [r \in Reader |-> {}] /\ rows = [r \in Reader |-> {}]
    /\ copy = [r \in Reader |-> {}]
    /\ view = [r \in Reader |-> {}]
    /\ draft = [r \in Reader |-> {}]
    /\ mixed = {} /\ edits = 0 /\ crashes = 0
    /\ opened = [r \in Reader |-> {}] /\ raced = {} /\ shown = {}
    /\ intended = {} /\ foreign = {} /\ spoiled = FALSE

At(r, here) == pc[r] = here
Goes(r, there) == pc' = [pc EXCEPT ![r] = there]

(* What a load has in its hands is gone when it is over.                   *)
Forgets(r) ==
    /\ todo' = [todo EXCEPT ![r] = {}] /\ rows' = [rows EXCEPT ![r] = {}]
    /\ copy' = [copy EXCEPT ![r] = {}] /\ draft' = [draft EXCEPT ![r] = {}]
    /\ mixed' = mixed \ {r}

-----------------------------------------------------------------------------
(* The benchmark: bench.sh goes through its list, benchmark_serving.py     *)
(* writes one file for each.  A benchmark that fails or is killed just     *)
(* takes no further step.                                                  *)

JobOnly == UNCHANGED <<place, expected, cachevars, tagvars, loadvars, pc, crashes>>

WriteResult(c) ==
    /\ file[c] = "none"
    /\ \A d \in Conc : Order[d] < Order[c] => file[d] = "done"
    /\ file' = [file EXCEPT ![c] = "partial"]
    /\ UNCHANGED raced /\ JobOnly

Parsing == {"parse", "parquet", "rehash"}

FinishResult(c) ==
    /\ file[c] = "partial"
    /\ file' = [file EXCEPT ![c] = "done"]
    /\ raced' = IF \E r \in Reader : pc[r] \in Parsing THEN raced \cup {c} ELSE raced
    /\ JobOnly

-----------------------------------------------------------------------------
(* load_data(): what is in memory is shown without another look, and a run *)
(* whose record cannot be read is skipped.                                 *)

Owed == IF place = "run" THEN Done ELSE shown

Load(r) ==
    /\ At(r, "idle") /\ view[r] = {} /\ record # {}
    /\ \E tags \in record : draft' = [draft EXCEPT ![r] = tags]
    /\ opened' = [opened EXCEPT ![r] = Owed]
    /\ foreign' = foreign \ {r}
    /\ Goes(r, "meta")
    /\ UNCHANGED <<jobvars, cachevars, record, edits, intended, spoiled>>
    /\ UNCHANGED <<todo, rows, copy, view, shown, crashes, raced>>

LoadStep(r) ==
    /\ UNCHANGED <<jobvars, tagvars, view, opened, shown, crashes, raced>>

StartsParse(r) ==
    /\ todo' = [todo EXCEPT ![r] = Exists]
    /\ rows' = [rows EXCEPT ![r] = {}]
    /\ Goes(r, "parse")

(* is_cache_valid(): the metadata, then the hashes of the files.           *)
ReadMeta(r) ==
    /\ At(r, "meta")
    /\ IF parquet = {} \/ meta = {}
       THEN StartsParse(r) /\ UNCHANGED copy
       ELSE copy' = [copy EXCEPT ![r] = meta] /\ Goes(r, "hash") /\ UNCHANGED <<todo, rows>>
    /\ LoadStep(r) /\ UNCHANGED cachevars

CompareHashes(r) ==
    /\ At(r, "hash")
    /\ IF copy[r] = {Hashes}
       THEN Goes(r, "cached") /\ UNCHANGED <<todo, rows>>
       ELSE StartsParse(r)
    /\ LoadStep(r) /\ UNCHANGED <<copy, cachevars>>

(* load_from_cache().                                                      *)
LoadCached(r) ==
    /\ At(r, "cached")
    /\ IF parquet = {}
       THEN StartsParse(r)
       ELSE rows' = [rows EXCEPT ![r] = parquet] /\ Goes(r, "show") /\ UNCHANGED todo
    /\ LoadStep(r) /\ UNCHANGED <<copy, cachevars>>

(* _parse_profiler_results(): a file that is not JSON is skipped.          *)
(* Mutant of Parsed: it is shown with what it has.                         *)
ParsedPartly(c) == Exists \cap {c}

Parsed(c) == Done \cap {c}

ParseFile(r) ==
    /\ At(r, "parse")
    /\ \E c \in todo[r] :
         /\ todo' = [todo EXCEPT ![r] = @ \ {c}]
         /\ rows' = [rows EXCEPT ![r] = @ \cup Parsed(c)]
    /\ LoadStep(r) /\ UNCHANGED <<copy, cachevars, pc>>

(* save_to_cache().  Two who write one file at the same time may leave     *)
(* either's content or garbage.                                            *)
Meets(r, there) ==
    LET others == {q \in Reader \ {r} : pc[q] = there}
    IN  mixed' = IF others = {} THEN mixed \ {r} ELSE mixed \cup others \cup {r}

Outcomes(r, content) == {content} \cup IF r \in mixed THEN {{}} ELSE {}

ParseEnds(r) ==
    /\ At(r, "parse") /\ todo[r] = {}
    /\ IF rows[r] = {}
       THEN Goes(r, "show") /\ UNCHANGED <<parquet, mixed>>
       ELSE parquet' = {} /\ Goes(r, "parquet") /\ Meets(r, "parquet")
    /\ LoadStep(r) /\ UNCHANGED <<todo, rows, copy, meta>>

WriteParquet(r) ==
    /\ At(r, "parquet")
    /\ parquet' \in Outcomes(r, rows[r])
    /\ Goes(r, "rehash")
    /\ LoadStep(r) /\ UNCHANGED <<todo, rows, copy, meta, mixed>>

Rehash(r) ==
    /\ At(r, "rehash")
    /\ copy' = [copy EXCEPT ![r] = {Hashes}]
    /\ meta' = {} /\ Goes(r, "writemeta") /\ Meets(r, "writemeta")
    /\ LoadStep(r) /\ UNCHANGED <<todo, rows, parquet>>

WriteMeta(r) ==
    /\ At(r, "writemeta")
    /\ meta' \in Outcomes(r, copy[r])
    /\ IF rows[r] # {}
       THEN Goes(r, "show") /\ UNCHANGED <<todo, rows, copy, draft, mixed>>
       ELSE Goes(r, "idle") /\ Forgets(r)
    /\ UNCHANGED <<jobvars, parquet, record, edits, intended, foreign, spoiled>>
    /\ UNCHANGED <<view, opened, shown, crashes, raced>>

(* parse_run_logs() and parse_command_line_from_err() have caches of their *)
(* own with entries in the same metadata file, which they write as a whole.*)
OtherCacheLoads(r) ==
    /\ At(r, "idle") /\ view[r] # {}
    /\ copy' = [copy EXCEPT ![r] = meta]
    /\ Goes(r, "other")
    /\ LoadStep(r) /\ UNCHANGED <<todo, rows, cachevars>>

OtherCacheSaves(r) ==
    /\ At(r, "other")
    /\ meta' = {} /\ Goes(r, "writemeta") /\ Meets(r, "writemeta")
    /\ LoadStep(r) /\ UNCHANGED <<todo, rows, copy, parquet>>

(* check_completeness().                                                   *)
(* Mutant of Complete: some result is enough.                              *)
CompleteIfAny(found) == expected = {} \/ expected \cap found # {}

Complete(found) == expected \subseteq found

Show(r) ==
    /\ At(r, "show")
    /\ view' = [view EXCEPT ![r] =
          {[rows |-> rows[r], tags |-> draft[r], complete |-> Complete(rows[r])]}]
    /\ shown' = shown \cup rows[r]
    /\ Goes(r, "idle") /\ Forgets(r)
    /\ UNCHANGED <<jobvars, parquet, meta, record, edits, intended, foreign, spoiled>>
    /\ UNCHANGED <<opened, crashes, raced>>

-----------------------------------------------------------------------------
(* update_tags(), from the tags in the dashboard's memory; a run without   *)
(* rows is not offered for selection.  Afterwards load_data.clear().       *)

Edited(tags, t) == IF t \in tags THEN tags \ {t} ELSE tags \cup {t}

EditTags(r) ==
    /\ At(r, "idle") /\ edits < MaxEdits /\ record # {}
    /\ \E v \in view[r], t \in Tag :
         /\ v.rows # {}
         /\ draft' = [draft EXCEPT ![r] = Edited(v.tags, t)]
         /\ intended' = Edited(intended, t)
    /\ record' = {} /\ Goes(r, "tagging") /\ Meets(r, "tagging")
    /\ edits' = edits + 1
    /\ spoiled' = (spoiled \/ r \in foreign \/ \E q \in Reader : pc[q] = "tagging")
    /\ foreign' = foreign \cup (Reader \ {r})
    /\ UNCHANGED <<jobvars, parquet, meta, loadvars, crashes, raced>>

(* Mutant of WriteTags: the memory is kept.                                *)
WriteTagsOnly(r) ==
    /\ At(r, "tagging")
    /\ record' \in Outcomes(r, {draft[r]})
    /\ Goes(r, "idle") /\ Forgets(r)
    /\ UNCHANGED <<jobvars, parquet, meta, edits, intended, foreign, spoiled>>
    /\ UNCHANGED <<view, opened, shown, crashes, raced>>

WriteTags(r) ==
    /\ At(r, "tagging")
    /\ record' \in Outcomes(r, {draft[r]})
    /\ view' = [view EXCEPT ![r] = {}]
    /\ opened' = [opened EXCEPT ![r] = {}]
    /\ Goes(r, "idle") /\ Forgets(r)
    /\ UNCHANGED <<jobvars, parquet, meta, edits, intended, foreign, spoiled>>
    /\ UNCHANGED <<shown, crashes, raced>>

(* A dashboard is killed, with whatever it was writing half written, and   *)
(* started again with an empty memory.                                     *)
Crash(r) ==
    /\ crashes < MaxCrashes /\ (pc[r] # "idle" \/ view[r] # {})
    /\ crashes' = crashes + 1
    /\ view' = [view EXCEPT ![r] = {}]
    /\ opened' = [opened EXCEPT ![r] = {}]
    /\ spoiled' = (spoiled \/ pc[r] = "tagging")
    /\ Goes(r, "idle") /\ Forgets(r)
    /\ UNCHANGED <<jobvars, parquet, meta, record, edits, intended, foreign, shown, raced>>

Idles == (\A r \in Reader : At(r, "idle")) /\ UNCHANGED vars

JobStep == \E c \in Conc : WriteResult(c) \/ FinishResult(c)

ReaderStep(r) ==
    \/ Load(r) \/ ReadMeta(r) \/ CompareHashes(r) \/ LoadCached(r)
    \/ ParseFile(r) \/ ParseEnds(r) \/ WriteParquet(r) \/ Rehash(r) \/ WriteMeta(r) \/ Show(r)
    \/ OtherCacheLoads(r) \/ OtherCacheSaves(r)
    \/ EditTags(r) \/ WriteTags(r) \/ Crash(r)

Next == JobStep \/ (\E r \in Reader : ReaderStep(r)) \/ Idles

Spec == Init /\ [][Next]_vars

-----------------------------------------------------------------------------
(* Properties.                                                             *)

(* Nothing is shown, or kept in the cache, of a file that was not complete *)
(* when it was read, whatever half-written file is met, whoever writes to  *)
(* the cache at the same time and whoever is killed at it.                 *)
NoInventedRows ==
    /\ parquet \subseteq Done
    /\ \A r \in Reader : \A v \in view[r] : v.rows \subseteq Done

(* A run without a warning (app.py: "is incomplete") has every result that *)
(* its record names.                                                       *)
CompleteMeansComplete ==
    \A r \in Reader : \A v \in view[r] : v.complete => expected \subseteq Done

(* A view has every result that was ready when it was loaded, cached or    *)
(* not (cache_manager.py:95: valid means that "source files haven't        *)
(* changed"), except one finished while somebody was between parsing the   *)
(* files and hashing them.  Of results under logs/, whose hashes are never *)
(* taken, it has at least those that were shown before.                    *)
ViewMissesOnlyRaced ==
    \A r \in Reader : \A v \in view[r] : opened[r] \ v.rows \subseteq raced

(* The record keeps the tags of every edit, and stays readable, as long as *)
(* no edit is made from a view older than another dashboard's edit, meets  *)
(* one or is killed: one dashboard alone never loses a tag.                *)
TagsKept ==
    (~spoiled /\ \A r \in Reader : pc[r] # "tagging") => record = {intended}
=============================================================================

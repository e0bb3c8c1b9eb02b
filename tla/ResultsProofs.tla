---------------------------- MODULE ResultsProofs ----------------------------
(***************************************************************************)
(* Proofs about Results: whatever dashboards load, save, edit or are       *)
(* killed, in whatever order and while the benchmark still runs, what they *)
(* show is of finished files, and what they miss was finished in the       *)
(* middle of somebody's load.                                              *)
(***************************************************************************)
EXTENDS Results, TLAPS

(* The inductive invariant.                                                *)

Ready(h) == {c \in DOMAIN h : h[c] = "done"}

(* S is in a set of rows, but for what was raced.                          *)
Covers(found, S) == S \subseteq found \cup raced

(* All that anybody has of the results is of finished files.               *)
RowsReal ==
    /\ parquet \subseteq Done /\ shown \subseteq Done
    /\ \A r \in Reader : rows[r] \subseteq Done /\ opened[r] \subseteq Done
    /\ \A r \in Reader : \A v \in view[r] :
          v.rows \subseteq Done /\ (v.complete => expected \subseteq v.rows)

Phases ==
    \A r \in Reader :
        /\ pc[r] \in {"parquet", "rehash"} => rows[r] # {} /\ todo[r] = {}
        /\ pc[r] \in {"idle", "other", "tagging"} => rows[r] = {}

(* Who parses has, or has yet to read, all that is finished.               *)
ParseCovers ==
    \A r \in Reader : pc[r] \in Parsing => Covers(rows[r] \cup todo[r], Done)

(* A usable cache file has all that anybody may expect of it.              *)
CacheCovers ==
    parquet # {} =>
        /\ Covers(parquet, shown)
        /\ \A r \in Reader :
              /\ pc[r] = "rehash" => Covers(parquet, Done)
              /\ pc[r] = "cached" => Covers(parquet, opened[r])
              /\ pc[r] \in {"writemeta", "show"} => Covers(parquet, rows[r])

(* Above all, those who hold hashes of it.                                 *)
HashesCovered ==
    /\ \A h \in meta : Ready(h) \subseteq Done /\ (parquet # {} => Covers(parquet, Ready(h)))
    /\ \A r \in Reader : \A h \in copy[r] :
          Ready(h) \subseteq Done /\ (parquet # {} => Covers(parquet, Ready(h)))

ViewCovers ==
    \A r \in Reader :
        /\ pc[r] = "show" => Covers(rows[r], opened[r])
        /\ pc[r] = "writemeta" /\ rows[r] # {} => Covers(rows[r], opened[r])
        /\ \A v \in view[r] : Covers(v.rows, opened[r])
        /\ place = "logs" => opened[r] \subseteq shown

RInv == RowsReal /\ Phases /\ ParseCovers /\ CacheCovers /\ HashesCovered /\ ViewCovers

(* Until an edit is spoiled the tags are in order: one dashboard at most   *)
(* writes them, and whoever is not behind has the tags as intended.        *)
Loading(r) ==
    \/ pc[r] \in {"meta", "hash", "cached", "parse", "parquet", "rehash", "show"}
    \/ pc[r] = "writemeta" /\ rows[r] # {}

TagsFollow ==
    spoiled = FALSE =>
        /\ (\A r \in Reader : pc[r] # "tagging") => record = {intended}
        /\ \A r \in Reader : pc[r] = "tagging" =>
              /\ record = {} /\ r \notin mixed /\ draft[r] = intended
              /\ \A q \in Reader \ {r} : pc[q] # "tagging"
        /\ \A r \in Reader \ foreign :
              /\ Loading(r) => draft[r] = intended
              /\ pc[r] # "tagging" => \A v \in view[r] : v.tags = intended

-----------------------------------------------------------------------------
(* Type correctness.                                                       *)

LEMMA HashesAreHashes ==
    ASSUME TypeOK PROVE Hashes \in Hash /\ Done \subseteq Conc /\ Exists \subseteq Conc
<1>1. Exists \subseteq Conc /\ Done \subseteq Conc
  BY DEF Exists, Done
<1>2. (IF place = "run" THEN Exists ELSE {}) \in SUBSET Conc
  BY <1>1
<1>3. Hashes \in [(IF place = "run" THEN Exists ELSE {}) -> FileState]
  BY <1>2 DEF Hashes, TypeOK
<1>. QED
  BY <1>1, <1>2, <1>3 DEF Hash

LEMMA InitTypeOK == Init => TypeOK
<1>. SUFFICES ASSUME Init PROVE TypeOK
  OBVIOUS
<1>1. [place |-> place, expected |-> expected] \in Layouts
  <2>1. PICK l \in Layouts : place = l.place /\ expected = l.expected
    BY DEF Init
  <2>2. l \in [place : {"run", "logs"}, expected : SUBSET Conc]
    BY <2>1, ResultsAssumption
  <2>. QED
    BY <2>1, <2>2
<1>2. 0 \in 0 .. MaxEdits /\ 0 \in 0 .. MaxCrashes
  BY ResultsAssumption
<1>. QED
  BY <1>1, <1>2 DEF Init, TypeOK, Option, FileState

LEMMA TypeJob ==
    ASSUME TypeOK, NEW c \in Conc, WriteResult(c) \/ FinishResult(c) PROVE TypeOK'
BY DEF TypeOK, WriteResult, FinishResult, JobOnly, FileState, cachevars, tagvars, loadvars

LEMMA TypeLoad ==
    ASSUME TypeOK, NEW r \in Reader, Load(r) \/ ReadMeta(r) \/ OtherCacheLoads(r) PROVE TypeOK'
<1>. Done \subseteq Conc /\ Exists \subseteq Conc
  BY HashesAreHashes
<1>1. CASE Load(r)
  <2>1. Owed \subseteq Conc
    BY DEF TypeOK, Owed
  <2>2. draft' \in [Reader -> SUBSET Tag]
    BY <1>1 DEF Load, TypeOK, Option
  <2>. QED
    BY <1>1, <2>1, <2>2 DEF Load, TypeOK, Goes, jobvars, cachevars
<1>2. CASE ReadMeta(r)
  BY <1>2 DEF ReadMeta, TypeOK, Goes, LoadStep, StartsParse, jobvars, cachevars, tagvars
<1>3. CASE OtherCacheLoads(r)
  BY <1>3 DEF OtherCacheLoads, TypeOK, Goes, LoadStep, jobvars, cachevars, tagvars
<1>. QED
  BY <1>1, <1>2, <1>3

LEMMA TypeParse ==
    ASSUME TypeOK, NEW r \in Reader,
           CompareHashes(r) \/ LoadCached(r) \/ ParseFile(r) \/ ParseEnds(r)
    PROVE TypeOK'
<1>. Done \subseteq Conc /\ Exists \subseteq Conc
  BY HashesAreHashes
<1>1. CASE CompareHashes(r)
  BY <1>1 DEF CompareHashes, TypeOK, Goes, LoadStep, StartsParse, jobvars, cachevars, tagvars
<1>2. CASE LoadCached(r)
  BY <1>2 DEF LoadCached, TypeOK, Goes, LoadStep, StartsParse, jobvars, cachevars, tagvars
<1>3. CASE ParseFile(r)
  BY <1>3 DEF ParseFile, Parsed, TypeOK, Goes, LoadStep, jobvars, cachevars, tagvars
<1>4. CASE ParseEnds(r)
  BY <1>4 DEF ParseEnds, Meets, TypeOK, Goes, LoadStep, jobvars, cachevars, tagvars
<1>. QED
  BY <1>1, <1>2, <1>3, <1>4

LEMMA TypeSave ==
    ASSUME TypeOK, NEW r \in Reader,
           WriteParquet(r) \/ Rehash(r) \/ WriteMeta(r) \/ OtherCacheSaves(r)
    PROVE TypeOK'
<1>0. {} \in Option(Hash)
  BY DEF Option
<1>1. CASE WriteParquet(r)
  BY <1>1 DEF WriteParquet, Outcomes, TypeOK, Goes, LoadStep, jobvars, cachevars, tagvars
<1>2. CASE Rehash(r)
  <2>1. {Hashes} \in Option(Hash)
    BY HashesAreHashes DEF Option
  <2>. QED
    BY <1>2, <1>0, <2>1 DEF Rehash, Meets, TypeOK, Goes, LoadStep, jobvars, cachevars, tagvars
<1>3. CASE WriteMeta(r)
  <2>1. meta' \in Option(Hash)
    BY <1>3 DEF WriteMeta, Outcomes, TypeOK, Option
  <2>2. /\ UNCHANGED <<file, place, expected, parquet, record, edits, intended, foreign, spoiled>>
        /\ UNCHANGED <<view, opened, shown, crashes, raced>>
    BY <1>3 DEF WriteMeta, jobvars
  <2>3. CASE rows[r] # {}
    BY <1>3, <2>1, <2>2, <2>3 DEF WriteMeta, TypeOK, Goes
  <2>4. CASE rows[r] = {}
    <3>1. pc' = [pc EXCEPT ![r] = "idle"] /\ Forgets(r)
      BY <1>3, <2>4 DEF WriteMeta, Goes
    <3>. QED
      BY <1>0, <2>1, <2>2, <3>1 DEF Forgets, TypeOK
  <2>. QED
    BY <2>3, <2>4
<1>4. CASE OtherCacheSaves(r)
  BY <1>4, <1>0 DEF OtherCacheSaves, Meets, TypeOK, Goes, LoadStep, jobvars, cachevars, tagvars
<1>. QED
  BY <1>1, <1>2, <1>3, <1>4

LEMMA TypeViews ==
    ASSUME TypeOK, NEW r \in Reader, Show(r) \/ EditTags(r) \/ WriteTags(r) \/ Crash(r)
    PROVE TypeOK'
<1>0. {} \in Option(Hash) /\ {} \in Option(View) /\ {} \in Option(SUBSET Tag)
  BY DEF Option
<1>1. CASE Show(r)
  <2>1. {[rows |-> rows[r], tags |-> draft[r], complete |-> Complete(rows[r])]} \in Option(View)
    BY DEF TypeOK, View, Complete, Option
  <2>. QED
    BY <1>1, <1>0, <2>1 DEF Show, Forgets, TypeOK, Goes, jobvars
<1>2. CASE EditTags(r)
  <2>1. PICK v \in view[r], t \in Tag :
          draft' = [draft EXCEPT ![r] = Edited(v.tags, t)] /\ intended' = Edited(intended, t)
    BY <1>2 DEF EditTags
  <2>2. v.tags \subseteq Tag
    BY DEF TypeOK, View, Option
  <2>3. Edited(v.tags, t) \subseteq Tag /\ Edited(intended, t) \subseteq Tag
    BY <2>2 DEF Edited, TypeOK
  <2>4. edits + 1 \in 0 .. MaxEdits
    BY <1>2, ResultsAssumption DEF EditTags, TypeOK
  <2>. QED
    BY <1>2, <1>0, <2>1, <2>3, <2>4 DEF EditTags, Meets, TypeOK, Goes, jobvars, loadvars
<1>3. CASE WriteTags(r)
  <2>1. record' \in Option(SUBSET Tag)
    BY <1>3 DEF WriteTags, Outcomes, TypeOK, Option
  <2>. QED
    BY <1>3, <1>0, <2>1 DEF WriteTags, Forgets, TypeOK, Goes, jobvars
<1>4. CASE Crash(r)
  <2>1. crashes + 1 \in 0 .. MaxCrashes
    BY <1>4, ResultsAssumption DEF Crash, TypeOK
  <2>. QED
    BY <1>4, <1>0, <2>1 DEF Crash, Forgets, TypeOK, Goes, jobvars
<1>. QED
  BY <1>1, <1>2, <1>3, <1>4

LEMMA StepTypeOK == TypeOK /\ [Next]_vars => TypeOK'
<1>. SUFFICES ASSUME TypeOK, [Next]_vars PROVE TypeOK'
  OBVIOUS
<1>1. CASE JobStep
  BY <1>1, TypeJob DEF JobStep
<1>2. ASSUME NEW r \in Reader, ReaderStep(r) PROVE TypeOK'
  BY <1>2, TypeLoad, TypeParse, TypeSave, TypeViews DEF ReaderStep
<1>3. CASE UNCHANGED vars
  BY <1>3 DEF vars, jobvars, cachevars, tagvars, loadvars, TypeOK
<1>. QED
  BY <1>1, <1>2, <1>3 DEF Next, Idles

(* Every variable keeps its type, for any list of concurrencies, any       *)
(* number of dashboards and any number of edits and crashes.               *)
THEOREM ResultsTypeOK == Spec => []TypeOK
BY InitTypeOK, StepTypeOK, PTL DEF Spec
-----------------------------------------------------------------------------
(* The step of a reader leaves the files alone; that of the job only adds  *)
(* to what is finished, and what it adds in somebody's load is raced.      *)

LEMMA ReaderLeavesFiles ==
    ASSUME NEW r \in Reader, ReaderStep(r)
    PROVE  /\ file' = file /\ place' = place /\ expected' = expected /\ raced' = raced
           /\ Done' = Done /\ Hashes' = Hashes
<1>1. file' = file /\ place' = place /\ expected' = expected /\ raced' = raced
  BY DEF ReaderStep, Load, ReadMeta, CompareHashes, LoadCached, ParseFile, ParseEnds,
         WriteParquet, Rehash, WriteMeta, Show, OtherCacheLoads, OtherCacheSaves,
         EditTags, WriteTags, Crash, LoadStep, jobvars
<1>. QED
  BY <1>1 DEF Done, Hashes, Exists

LEMMA JobAddsResults ==
    ASSUME TypeOK, NEW c \in Conc, WriteResult(c) \/ FinishResult(c)
    PROVE  /\ Done \subseteq Done' /\ raced \subseteq raced'
           /\ \A r \in Reader : pc[r] \in Parsing => Done' \ Done \subseteq raced'
           /\ \A h : Ready(h)' = Ready(h)
<1>1. \A h : Ready(h)' = Ready(h)
  BY DEF Ready
<1>2. CASE WriteResult(c)
  BY <1>1, <1>2 DEF WriteResult, Done, TypeOK
<1>3. CASE FinishResult(c)
  BY <1>1, <1>3 DEF FinishResult, Done, TypeOK
<1>. QED
  BY <1>2, <1>3

LEMMA JobKeepsRInv ==
    ASSUME TypeOK, RInv, NEW c \in Conc, WriteResult(c) \/ FinishResult(c) PROVE RInv'
<1>. USE JobAddsResults DEF RInv
<1>0. UNCHANGED <<expected, place, parquet, meta, rows, todo, opened, copy, view, shown, pc>>
  BY DEF WriteResult, FinishResult, JobOnly, cachevars, loadvars
<1>1. RowsReal'
  BY <1>0 DEF RowsReal
<1>2. Phases'
  BY <1>0 DEF Phases
<1>3. ParseCovers'
  BY <1>0 DEF ParseCovers, Covers
<1>4. CacheCovers'
  BY <1>0 DEF CacheCovers, Covers, Parsing
<1>5. HashesCovered'
  BY <1>0 DEF HashesCovered, Covers
<1>6. ViewCovers'
  BY <1>0 DEF ViewCovers, Covers
<1>. QED
  BY <1>1, <1>2, <1>3, <1>4, <1>5, <1>6

LEMMA HashesReady == TypeOK => Ready(Hashes) = IF place = "run" THEN Done ELSE {}
<1>. SUFFICES ASSUME TypeOK PROVE Ready(Hashes) = IF place = "run" THEN Done ELSE {}
  OBVIOUS
<1>. QED
  BY DEF Ready, Hashes, Done, Exists

LEMMA Places == TypeOK => place \in {"run", "logs"}
<1>. SUFFICES ASSUME TypeOK PROVE place \in {"run", "logs"}
  OBVIOUS
<1>1. [place |-> place, expected |-> expected] \in [place : {"run", "logs"}, expected : SUBSET Conc]
  BY ResultsAssumption DEF TypeOK
<1>. QED
  BY <1>1

-----------------------------------------------------------------------------
(* A dashboard loads.                                                      *)

LEMMA LoadKeepsRInv ==
    ASSUME TypeOK, RInv, NEW r \in Reader, Load(r) PROVE RInv'
<1>. USE DEF RInv
<1>0. /\ UNCHANGED <<expected, place, raced, parquet, meta, rows, todo, copy, view, shown>>
      /\ Done' = Done /\ \A h : Ready(h)' = Ready(h)
      /\ pc[r] = "idle" /\ view[r] = {}
      /\ pc' = [pc EXCEPT ![r] = "meta"] /\ opened' = [opened EXCEPT ![r] = Owed]
  BY DEF Load, jobvars, cachevars, Done, Ready, At, Goes
<1>a. Owed \subseteq Done /\ (place = "logs" => Owed \subseteq shown)
  BY DEF Owed, RowsReal
<1>1. RowsReal'
  BY <1>0, <1>a DEF RowsReal, TypeOK
<1>2. Phases'
  BY <1>0 DEF Phases, TypeOK
<1>3. ParseCovers'
  BY <1>0 DEF ParseCovers, Covers, TypeOK, Parsing
<1>4. CacheCovers'
  BY <1>0 DEF CacheCovers, Covers, TypeOK
<1>5. HashesCovered'
  BY <1>0 DEF HashesCovered, Covers
<1>6. ViewCovers'
  BY <1>0, <1>a DEF ViewCovers, Covers, TypeOK
<1>. QED
  BY <1>1, <1>2, <1>3, <1>4, <1>5, <1>6

(* Who starts to parse has yet to read every file there is.                *)
LEMMA StartsParseKeepsRInv ==
    ASSUME TypeOK, RInv, NEW r \in Reader, StartsParse(r), LoadStep(r),
           copy' = copy, cachevars' = cachevars
    PROVE RInv'
<1>. USE DEF RInv
<1>0. /\ UNCHANGED <<expected, place, raced, parquet, meta, copy, view, shown, opened>>
      /\ Done' = Done /\ \A h : Ready(h)' = Ready(h)
      /\ pc' = [pc EXCEPT ![r] = "parse"]
      /\ rows' = [rows EXCEPT ![r] = {}] /\ todo' = [todo EXCEPT ![r] = Exists]
  BY DEF LoadStep, StartsParse, jobvars, cachevars, Done, Ready, Goes
<1>a. Done \subseteq Exists
  BY DEF Done, Exists
<1>1. RowsReal'
  BY <1>0 DEF RowsReal, TypeOK
<1>2. Phases'
  BY <1>0 DEF Phases, TypeOK
<1>3. ParseCovers'
  BY <1>0, <1>a DEF ParseCovers, Covers, TypeOK, Parsing
<1>4. CacheCovers'
  BY <1>0 DEF CacheCovers, Covers, TypeOK
<1>5. HashesCovered'
  BY <1>0 DEF HashesCovered, Covers
<1>6. ViewCovers'
  BY <1>0 DEF ViewCovers, Covers, TypeOK
<1>. QED
  BY <1>1, <1>2, <1>3, <1>4, <1>5, <1>6

(* The metadata is read, by this cache or by another of the run's.         *)
LEMMA MetaReadKeepsRInv ==
    ASSUME TypeOK, RInv, NEW r \in Reader, LoadStep(r), UNCHANGED <<todo, rows, cachevars>>,
           copy' = [copy EXCEPT ![r] = meta],
           \/ pc[r] = "meta" /\ pc' = [pc EXCEPT ![r] = "hash"]
           \/ pc[r] = "idle" /\ pc' = [pc EXCEPT ![r] = "other"]
    PROVE RInv'
<1>. USE DEF RInv
<1>0. /\ UNCHANGED <<expected, place, raced, parquet, meta, view, shown, opened, todo, rows>>
      /\ Done' = Done /\ \A h : Ready(h)' = Ready(h)
  BY DEF LoadStep, jobvars, cachevars, Done, Ready
<1>1. RowsReal'
  BY <1>0 DEF RowsReal
<1>2. Phases'
  BY <1>0 DEF Phases, TypeOK
<1>3. ParseCovers'
  BY <1>0 DEF ParseCovers, Covers, TypeOK, Parsing
<1>4. CacheCovers'
  BY <1>0 DEF CacheCovers, Covers, TypeOK
<1>5. HashesCovered'
  BY <1>0 DEF HashesCovered, Covers, TypeOK
<1>6. ViewCovers'
  BY <1>0 DEF ViewCovers, Covers, TypeOK
<1>. QED
  BY <1>1, <1>2, <1>3, <1>4, <1>5, <1>6

LEMMA ReadMetaKeepsRInv ==
    ASSUME TypeOK, RInv, NEW r \in Reader, ReadMeta(r) \/ OtherCacheLoads(r) PROVE RInv'
<1>1. CASE ReadMeta(r) /\ (parquet = {} \/ meta = {})
  BY <1>1, StartsParseKeepsRInv DEF ReadMeta
<1>2. CASE ReadMeta(r) /\ ~(parquet = {} \/ meta = {})
  BY <1>2, MetaReadKeepsRInv DEF ReadMeta, At, Goes
<1>3. CASE OtherCacheLoads(r)
  BY <1>3, MetaReadKeepsRInv DEF OtherCacheLoads, At, Goes
<1>. QED
  BY <1>1, <1>2, <1>3

(* If the hashes are those of the metadata, what the load has to show has  *)
(* been covered since they were taken.                                     *)
LEMMA CompareHashesKeepsRInv ==
    ASSUME TypeOK, RInv, NEW r \in Reader, CompareHashes(r) PROVE RInv'
<1>. USE DEF RInv
<1>1. CASE copy[r] # {Hashes}
  BY <1>1, StartsParseKeepsRInv DEF CompareHashes
<1>2. CASE copy[r] = {Hashes}
  <2>0. /\ UNCHANGED <<expected, place, raced, parquet, meta, copy, view, shown, opened, todo, rows>>
        /\ Done' = Done /\ \A h : Ready(h)' = Ready(h)
        /\ pc[r] = "hash" /\ pc' = [pc EXCEPT ![r] = "cached"]
    BY <1>2 DEF CompareHashes, LoadStep, jobvars, cachevars, Done, Ready, At, Goes
  <2>a. parquet # {} => Covers(parquet, opened[r])
    <3>1. CASE place = "run"
      <4>1. parquet # {} => Covers(parquet, Done)
        BY <1>2, <3>1, HashesReady DEF HashesCovered
      <4>2. opened[r] \subseteq Done
        BY DEF RowsReal
      <4>. QED
        BY <4>1, <4>2 DEF Covers
    <3>2. CASE place = "logs"
      BY <3>2 DEF ViewCovers, CacheCovers, Covers
    <3>. QED
      BY <3>1, <3>2, Places
  <2>1. RowsReal'
    BY <2>0 DEF RowsReal
  <2>2. Phases'
    BY <2>0 DEF Phases, TypeOK
  <2>3. ParseCovers'
    BY <2>0 DEF ParseCovers, Covers, TypeOK, Parsing
  <2>4. CacheCovers'
    BY <2>0, <2>a DEF CacheCovers, Covers, TypeOK
  <2>5. HashesCovered'
    BY <2>0 DEF HashesCovered, Covers
  <2>6. ViewCovers'
    BY <2>0 DEF ViewCovers, Covers, TypeOK
  <2>. QED
    BY <2>1, <2>2, <2>3, <2>4, <2>5, <2>6
<1>. QED
  BY <1>1, <1>2

LEMMA LoadCachedKeepsRInv ==
    ASSUME TypeOK, RInv, NEW r \in Reader, LoadCached(r) PROVE RInv'
<1>. USE DEF RInv
<1>1. CASE parquet = {}
  BY <1>1, StartsParseKeepsRInv DEF LoadCached
<1>2. CASE parquet # {}
  <2>0. /\ UNCHANGED <<expected, place, raced, parquet, meta, copy, view, shown, opened, todo>>
        /\ Done' = Done /\ \A h : Ready(h)' = Ready(h)
        /\ rows' = [rows EXCEPT ![r] = parquet]
        /\ pc[r] = "cached" /\ pc' = [pc EXCEPT ![r] = "show"]
    BY <1>2 DEF LoadCached, LoadStep, jobvars, cachevars, Done, Ready, At, Goes
  <2>1. RowsReal'
    BY <2>0 DEF RowsReal, TypeOK
  <2>2. Phases'
    BY <2>0 DEF Phases, TypeOK
  <2>3. ParseCovers'
    BY <2>0 DEF ParseCovers, Covers, TypeOK, Parsing
  <2>4. CacheCovers'
    BY <2>0 DEF CacheCovers, Covers, TypeOK
  <2>5. HashesCovered'
    BY <2>0 DEF HashesCovered, Covers
  <2>6. ViewCovers'
    BY <1>2, <2>0 DEF ViewCovers, CacheCovers, Covers, TypeOK
  <2>. QED
    BY <2>1, <2>2, <2>3, <2>4, <2>5, <2>6
<1>. QED
  BY <1>1, <1>2

-----------------------------------------------------------------------------
(* A dashboard parses.                                                     *)

LEMMA ParseFileKeepsRInv ==
    ASSUME TypeOK, RInv, NEW r \in Reader, ParseFile(r) PROVE RInv'
<1>. USE DEF RInv
<1>0. /\ UNCHANGED <<expected, place, raced, parquet, meta, copy, view, shown, opened, pc>>
      /\ Done' = Done /\ \A h : Ready(h)' = Ready(h)
      /\ pc[r] = "parse"
  BY DEF ParseFile, LoadStep, jobvars, cachevars, Done, Ready, At
<1>a. PICK c \in todo[r] : /\ todo' = [todo EXCEPT ![r] = @ \ {c}]
                           /\ rows' = [rows EXCEPT ![r] = @ \cup Parsed(c)]
  BY DEF ParseFile
<1>1. RowsReal'
  BY <1>0, <1>a DEF RowsReal, Parsed, TypeOK
<1>2. Phases'
  BY <1>0, <1>a DEF Phases, TypeOK
<1>3. ParseCovers'
  BY <1>0, <1>a DEF ParseCovers, Covers, Parsed, TypeOK
<1>4. CacheCovers'
  BY <1>0, <1>a DEF CacheCovers, Covers, TypeOK
<1>5. HashesCovered'
  BY <1>0 DEF HashesCovered, Covers
<1>6. ViewCovers'
  BY <1>0, <1>a DEF ViewCovers, Covers, TypeOK
<1>. QED
  BY <1>1, <1>2, <1>3, <1>4, <1>5, <1>6

(* Nothing was parsed: all there is to show was finished meanwhile.        *)
LEMMA ParseEndsKeepsRInv ==
    ASSUME TypeOK, RInv, NEW r \in Reader, ParseEnds(r) PROVE RInv'
<1>. USE DEF RInv
<1>0. /\ UNCHANGED <<expected, place, raced, meta, copy, view, shown, opened, todo, rows>>
      /\ Done' = Done /\ \A h : Ready(h)' = Ready(h)
      /\ pc[r] = "parse" /\ todo[r] = {}
  BY DEF ParseEnds, LoadStep, jobvars, Done, Ready, At
<1>1. CASE rows[r] = {}
  <2>0. parquet' = parquet /\ pc' = [pc EXCEPT ![r] = "show"]
    BY <1>1 DEF ParseEnds, Goes
  <2>a. Done \subseteq raced
    BY <1>0, <1>1 DEF ParseCovers, Covers, Parsing
  <2>1. RowsReal'
    BY <1>0, <2>0 DEF RowsReal
  <2>2. Phases'
    BY <1>0, <2>0 DEF Phases, TypeOK
  <2>3. ParseCovers'
    BY <1>0, <2>0 DEF ParseCovers, Covers, TypeOK, Parsing
  <2>4. CacheCovers'
    BY <1>0, <1>1, <2>0 DEF CacheCovers, Covers, TypeOK
  <2>5. HashesCovered'
    BY <1>0, <2>0 DEF HashesCovered, Covers
  <2>6. ViewCovers'
    BY <1>0, <2>0, <2>a DEF ViewCovers, Covers, RowsReal, TypeOK
  <2>. QED
    BY <2>1, <2>2, <2>3, <2>4, <2>5, <2>6
<1>2. CASE rows[r] # {}
  <2>0. parquet' = {} /\ pc' = [pc EXCEPT ![r] = "parquet"]
    BY <1>2 DEF ParseEnds, Goes
  <2>1. RowsReal'
    BY <1>0, <2>0 DEF RowsReal
  <2>2. Phases'
    BY <1>0, <1>2, <2>0 DEF Phases, TypeOK
  <2>3. ParseCovers'
    BY <1>0, <2>0 DEF ParseCovers, Covers, TypeOK, Parsing
  <2>4. CacheCovers'
    BY <2>0 DEF CacheCovers
  <2>5. HashesCovered'
    BY <1>0, <2>0 DEF HashesCovered
  <2>6. ViewCovers'
    BY <1>0, <2>0 DEF ViewCovers, Covers, TypeOK
  <2>. QED
    BY <2>1, <2>2, <2>3, <2>4, <2>5, <2>6
<1>. QED
  BY <1>1, <1>2

-----------------------------------------------------------------------------
(* A dashboard saves.                                                      *)

(* What is written covers all that is finished, so it covers whatever      *)
(* anybody else may expect of the file.                                    *)
LEMMA WriteParquetKeepsRInv ==
    ASSUME TypeOK, RInv, NEW r \in Reader, WriteParquet(r) PROVE RInv'
<1>. USE DEF RInv
<1>0. /\ UNCHANGED <<expected, place, raced, meta, copy, view, shown, opened, todo, rows>>
      /\ Done' = Done /\ \A h : Ready(h)' = Ready(h)
      /\ pc[r] = "parquet" /\ pc' = [pc EXCEPT ![r] = "rehash"]
      /\ parquet' = rows[r] \/ parquet' = {}
  BY DEF WriteParquet, Outcomes, LoadStep, jobvars, Done, Ready, At, Goes
<1>a. Covers(rows[r], Done)
  BY <1>0 DEF ParseCovers, Phases, Parsing
<1>b. parquet' # {} => \A S \in SUBSET Done : S \subseteq parquet' \cup raced
  BY <1>0, <1>a DEF Covers
<1>1. RowsReal'
  BY <1>0 DEF RowsReal
<1>2. Phases'
  BY <1>0 DEF Phases, TypeOK
<1>3. ParseCovers'
  BY <1>0 DEF ParseCovers, Covers, TypeOK, Parsing
<1>4. CacheCovers'
  BY <1>0, <1>b DEF CacheCovers, Covers, RowsReal
<1>5. HashesCovered'
  BY <1>0, <1>b DEF HashesCovered, Covers
<1>6. ViewCovers'
  BY <1>0 DEF ViewCovers, Covers, TypeOK
<1>. QED
  BY <1>1, <1>2, <1>3, <1>4, <1>5, <1>6

LEMMA RehashKeepsRInv ==
    ASSUME TypeOK, RInv, NEW r \in Reader, Rehash(r) PROVE RInv'
<1>. USE DEF RInv
<1>0. /\ UNCHANGED <<expected, place, raced, parquet, view, shown, opened, todo, rows>>
      /\ Done' = Done /\ \A h : Ready(h)' = Ready(h)
      /\ meta' = {} /\ copy' = [copy EXCEPT ![r] = {Hashes}]
      /\ pc[r] = "rehash" /\ pc' = [pc EXCEPT ![r] = "writemeta"]
  BY DEF Rehash, LoadStep, jobvars, Done, Ready, At, Goes
<1>a. Covers(rows[r], Done)
  BY <1>0 DEF ParseCovers, Phases, Parsing
<1>b. Ready(Hashes) \subseteq Done
  BY HashesReady
<1>1. RowsReal'
  BY <1>0 DEF RowsReal
<1>2. Phases'
  BY <1>0 DEF Phases, TypeOK
<1>3. ParseCovers'
  BY <1>0 DEF ParseCovers, Covers, TypeOK, Parsing
<1>4. CacheCovers'
  BY <1>0 DEF CacheCovers, RowsReal, Covers, TypeOK
<1>5. HashesCovered'
  BY <1>0, <1>b DEF HashesCovered, CacheCovers, Covers, TypeOK
<1>6. ViewCovers'
  BY <1>0, <1>a DEF ViewCovers, RowsReal, Covers, TypeOK
<1>. QED
  BY <1>1, <1>2, <1>3, <1>4, <1>5, <1>6

LEMMA OtherSavesKeepsRInv ==
    ASSUME TypeOK, RInv, NEW r \in Reader, OtherCacheSaves(r) PROVE RInv'
<1>. USE DEF RInv
<1>0. /\ UNCHANGED <<expected, place, raced, parquet, view, shown, opened, todo, rows, copy>>
      /\ Done' = Done /\ \A h : Ready(h)' = Ready(h)
      /\ meta' = {}
      /\ pc[r] = "other" /\ pc' = [pc EXCEPT ![r] = "writemeta"]
  BY DEF OtherCacheSaves, LoadStep, jobvars, Done, Ready, At, Goes
<1>a. rows[r] = {}
  BY <1>0 DEF Phases
<1>1. RowsReal'
  BY <1>0 DEF RowsReal
<1>2. Phases'
  BY <1>0 DEF Phases, TypeOK
<1>3. ParseCovers'
  BY <1>0 DEF ParseCovers, Covers, TypeOK, Parsing
<1>4. CacheCovers'
  BY <1>0, <1>a DEF CacheCovers, Covers, TypeOK
<1>5. HashesCovered'
  BY <1>0 DEF HashesCovered, Covers
<1>6. ViewCovers'
  BY <1>0, <1>a DEF ViewCovers, Covers, TypeOK
<1>. QED
  BY <1>1, <1>2, <1>3, <1>4, <1>5, <1>6

LEMMA WriteMetaKeepsRInv ==
    ASSUME TypeOK, RInv, NEW r \in Reader, WriteMeta(r) PROVE RInv'
<1>. USE DEF RInv
<1>0. /\ UNCHANGED <<expected, place, raced, parquet, view, shown, opened>>
      /\ Done' = Done /\ \A h : Ready(h)' = Ready(h)
      /\ meta' = copy[r] \/ meta' = {}
      /\ pc[r] = "writemeta"
  BY DEF WriteMeta, Outcomes, jobvars, Done, Ready, At
<1>1. CASE rows[r] # {}
  <2>0. UNCHANGED <<todo, rows, copy>> /\ pc' = [pc EXCEPT ![r] = "show"]
    BY <1>1 DEF WriteMeta, Goes
  <2>1. RowsReal'
    BY <1>0, <2>0 DEF RowsReal
  <2>2. Phases'
    BY <1>0, <2>0 DEF Phases, TypeOK
  <2>3. ParseCovers'
    BY <1>0, <2>0 DEF ParseCovers, Covers, TypeOK, Parsing
  <2>4. CacheCovers'
    BY <1>0, <2>0 DEF CacheCovers, Covers, TypeOK
  <2>5. HashesCovered'
    BY <1>0, <2>0 DEF HashesCovered, Covers
  <2>6. ViewCovers'
    BY <1>0, <1>1, <2>0 DEF ViewCovers, Covers, TypeOK
  <2>. QED
    BY <2>1, <2>2, <2>3, <2>4, <2>5, <2>6
<1>2. CASE rows[r] = {}
  <2>0. /\ pc' = [pc EXCEPT ![r] = "idle"]
        /\ todo' = [todo EXCEPT ![r] = {}] /\ rows' = [rows EXCEPT ![r] = {}]
        /\ copy' = [copy EXCEPT ![r] = {}]
    BY <1>2 DEF WriteMeta, Goes, Forgets
  <2>1. RowsReal'
    BY <1>0, <2>0 DEF RowsReal, TypeOK
  <2>2. Phases'
    BY <1>0, <2>0 DEF Phases, TypeOK
  <2>3. ParseCovers'
    BY <1>0, <2>0 DEF ParseCovers, Covers, TypeOK, Parsing
  <2>4. CacheCovers'
    BY <1>0, <2>0 DEF CacheCovers, Covers, TypeOK
  <2>5. HashesCovered'
    BY <1>0, <2>0 DEF HashesCovered, Covers, TypeOK
  <2>6. ViewCovers'
    BY <1>0, <2>0 DEF ViewCovers, Covers, TypeOK
  <2>. QED
    BY <2>1, <2>2, <2>3, <2>4, <2>5, <2>6
<1>. QED
  BY <1>1, <1>2

-----------------------------------------------------------------------------
(* A dashboard shows the run, edits its tags, or is killed.                *)

LEMMA ShowKeepsRInv ==
    ASSUME TypeOK, RInv, NEW r \in Reader, Show(r) PROVE RInv'
<1>. USE DEF RInv
<1>0. /\ UNCHANGED <<expected, place, raced, parquet, meta, opened>>
      /\ Done' = Done /\ \A h : Ready(h)' = Ready(h)
      /\ pc[r] = "show" /\ pc' = [pc EXCEPT ![r] = "idle"]
      /\ todo' = [todo EXCEPT ![r] = {}] /\ rows' = [rows EXCEPT ![r] = {}]
      /\ copy' = [copy EXCEPT ![r] = {}]
      /\ shown' = shown \cup rows[r]
  BY DEF Show, Forgets, jobvars, Done, Ready, At, Goes
<1>. DEFINE v == [rows |-> rows[r], tags |-> draft[r], complete |-> Complete(rows[r])]
<1>a. /\ v.rows = rows[r]
      /\ v.complete => expected \subseteq rows[r]
      /\ view' = [view EXCEPT ![r] = {v}]
  BY DEF Show, Complete
<1>. HIDE DEF v
<1>1. RowsReal'
  BY <1>0, <1>a DEF RowsReal, TypeOK
<1>2. Phases'
  BY <1>0 DEF Phases, TypeOK
<1>3. ParseCovers'
  BY <1>0 DEF ParseCovers, Covers, TypeOK, Parsing
<1>4. CacheCovers'
  BY <1>0 DEF CacheCovers, Covers, TypeOK
<1>5. HashesCovered'
  BY <1>0 DEF HashesCovered, Covers, TypeOK
<1>6. ViewCovers'
  BY <1>0, <1>a DEF ViewCovers, Covers, TypeOK
<1>. QED
  BY <1>1, <1>2, <1>3, <1>4, <1>5, <1>6

LEMMA EditTagsKeepsRInv ==
    ASSUME TypeOK, RInv, NEW r \in Reader, EditTags(r) PROVE RInv'
<1>. USE DEF RInv
<1>0. /\ UNCHANGED <<expected, place, raced, parquet, meta, todo, rows, copy, view, opened, shown>>
      /\ Done' = Done /\ \A h : Ready(h)' = Ready(h)
      /\ pc[r] = "idle" /\ pc' = [pc EXCEPT ![r] = "tagging"]
  BY DEF EditTags, jobvars, loadvars, Done, Ready, At, Goes
<1>1. RowsReal'
  BY <1>0 DEF RowsReal
<1>2. Phases'
  BY <1>0 DEF Phases, TypeOK
<1>3. ParseCovers'
  BY <1>0 DEF ParseCovers, Covers, TypeOK, Parsing
<1>4. CacheCovers'
  BY <1>0 DEF CacheCovers, Covers, TypeOK
<1>5. HashesCovered'
  BY <1>0 DEF HashesCovered, Covers
<1>6. ViewCovers'
  BY <1>0 DEF ViewCovers, Covers, TypeOK
<1>. QED
  BY <1>1, <1>2, <1>3, <1>4, <1>5, <1>6

(* The memory of a dashboard is emptied, by itself or with it.             *)
LEMMA ForgettingKeepsRInv ==
    ASSUME TypeOK, RInv, NEW r \in Reader, WriteTags(r) \/ Crash(r) PROVE RInv'
<1>. USE DEF RInv
<1>0. /\ UNCHANGED <<expected, place, raced, parquet, meta, shown>>
      /\ Done' = Done /\ \A h : Ready(h)' = Ready(h)
      /\ pc' = [pc EXCEPT ![r] = "idle"]
      /\ todo' = [todo EXCEPT ![r] = {}] /\ rows' = [rows EXCEPT ![r] = {}]
      /\ copy' = [copy EXCEPT ![r] = {}]
      /\ view' = [view EXCEPT ![r] = {}] /\ opened' = [opened EXCEPT ![r] = {}]
  BY DEF WriteTags, Crash, Forgets, jobvars, Done, Ready, Goes
<1>1. RowsReal'
  BY <1>0 DEF RowsReal, TypeOK
<1>2. Phases'
  BY <1>0 DEF Phases, TypeOK
<1>3. ParseCovers'
  BY <1>0 DEF ParseCovers, Covers, TypeOK, Parsing
<1>4. CacheCovers'
  BY <1>0 DEF CacheCovers, Covers, TypeOK
<1>5. HashesCovered'
  BY <1>0 DEF HashesCovered, Covers, TypeOK
<1>6. ViewCovers'
  BY <1>0 DEF ViewCovers, Covers, TypeOK
<1>. QED
  BY <1>1, <1>2, <1>3, <1>4, <1>5, <1>6

LEMMA InitRInv == Init => RInv
<1>. SUFFICES ASSUME Init PROVE RInv
  OBVIOUS
<1>. QED
  BY DEF Init, RInv, RowsReal, Phases, ParseCovers, CacheCovers, HashesCovered,
         ViewCovers, Covers, Parsing

LEMMA StepRInv == TypeOK /\ RInv /\ [Next]_vars => RInv'
<1>. SUFFICES ASSUME TypeOK, RInv, [Next]_vars PROVE RInv'
  OBVIOUS
<1>1. CASE JobStep
  BY <1>1, JobKeepsRInv DEF JobStep
<1>2. ASSUME NEW r \in Reader, ReaderStep(r) PROVE RInv'
  <2>1. CASE Load(r) \/ ReadMeta(r) \/ OtherCacheLoads(r) \/ CompareHashes(r) \/ LoadCached(r)
    BY <2>1, LoadKeepsRInv, ReadMetaKeepsRInv, CompareHashesKeepsRInv, LoadCachedKeepsRInv
  <2>2. CASE ParseFile(r) \/ ParseEnds(r) \/ WriteParquet(r) \/ Rehash(r)
    BY <2>2, ParseFileKeepsRInv, ParseEndsKeepsRInv, WriteParquetKeepsRInv, RehashKeepsRInv
  <2>3. CASE OtherCacheSaves(r) \/ WriteMeta(r) \/ Show(r)
    BY <2>3, OtherSavesKeepsRInv, WriteMetaKeepsRInv, ShowKeepsRInv
  <2>4. CASE EditTags(r) \/ WriteTags(r) \/ Crash(r)
    BY <2>4, EditTagsKeepsRInv, ForgettingKeepsRInv
  <2>. QED
    BY <1>2, <2>1, <2>2, <2>3, <2>4 DEF ReaderStep
<1>3. CASE UNCHANGED vars
  <2>1. /\ UNCHANGED <<file, place, expected, parquet, meta, pc, todo, rows, copy, view, opened>>
        /\ UNCHANGED <<raced, shown>>
    BY <1>3 DEF vars, jobvars, cachevars, loadvars
  <2>2. Done' = Done /\ \A h : Ready(h)' = Ready(h)
    BY <2>1 DEF Done, Ready
  <2>. QED
    BY <2>1, <2>2 DEF RInv, RowsReal, Phases, ParseCovers, CacheCovers, HashesCovered,
                      ViewCovers, Covers, Parsing
<1>. QED
  BY <1>1, <1>2, <1>3 DEF Next, Idles

-----------------------------------------------------------------------------
(* The tags.                                                               *)

LEMMA InitTagsFollow == Init => TagsFollow
BY DEF Init, TagsFollow, Loading

(* A step that leaves the tags, and who edits them, as they are.           *)
LEMMA QuietKeepsTags ==
    ASSUME TypeOK, TagsFollow, UNCHANGED <<record, draft, intended, foreign, spoiled, view>>,
           \A q \in Reader : (pc'[q] = "tagging") = (pc[q] = "tagging"),
           \A q \in Reader : Loading(q)' => Loading(q),
           \A q \in Reader : pc[q] = "tagging" /\ q \in mixed' => q \in mixed
    PROVE TagsFollow'
BY DEF TagsFollow

LEMMA LoadStepKeepsTags ==
    ASSUME TypeOK, RInv, TagsFollow, NEW r \in Reader, LoadStep(r),
           \/ ReadMeta(r) \/ CompareHashes(r) \/ LoadCached(r) \/ ParseFile(r) \/ ParseEnds(r)
           \/ WriteParquet(r) \/ Rehash(r) \/ OtherCacheLoads(r) \/ OtherCacheSaves(r)
    PROVE TagsFollow'
<1>0. UNCHANGED <<record, draft, intended, foreign, spoiled, view>>
  BY DEF LoadStep, tagvars
<1>1. \A q \in Reader : (pc'[q] = "tagging") = (pc[q] = "tagging")
  BY DEF ReadMeta, CompareHashes, LoadCached, ParseFile, ParseEnds, WriteParquet, Rehash,
         OtherCacheLoads, OtherCacheSaves, StartsParse, Goes, At, TypeOK
<1>2. \A q \in Reader : Loading(q)' => Loading(q)
  <2>1. CASE ReadMeta(r) \/ CompareHashes(r) \/ LoadCached(r)
    BY <2>1 DEF ReadMeta, CompareHashes, LoadCached, StartsParse, Goes, At, TypeOK, Loading
  <2>2. CASE ParseFile(r) \/ ParseEnds(r) \/ WriteParquet(r) \/ Rehash(r)
    BY <2>2 DEF ParseFile, ParseEnds, WriteParquet, Rehash, Goes, At, TypeOK, Loading
  <2>3. CASE OtherCacheLoads(r) \/ OtherCacheSaves(r)
    BY <2>3 DEF OtherCacheLoads, OtherCacheSaves, Goes, At, TypeOK, Loading, RInv, Phases
  <2>. QED
    BY <2>1, <2>2, <2>3
<1>3. \A q \in Reader : pc[q] = "tagging" /\ q \in mixed' => q \in mixed
  BY DEF ReadMeta, CompareHashes, LoadCached, ParseFile, ParseEnds, WriteParquet, Rehash,
         OtherCacheLoads, OtherCacheSaves, StartsParse, Goes, At, TypeOK, Meets, cachevars
<1>. QED
  BY <1>0, <1>1, <1>2, <1>3, QuietKeepsTags

(* Who loads reads the tags that the last edit left.                       *)
LEMMA LoadKeepsTags ==
    ASSUME TypeOK, TagsFollow, NEW r \in Reader, Load(r) PROVE TagsFollow'
<1>0. /\ UNCHANGED <<record, intended, spoiled, view, mixed, rows>>
      /\ pc[r] = "idle" /\ pc' = [pc EXCEPT ![r] = "meta"] /\ view[r] = {}
      /\ record # {} /\ foreign' = foreign \ {r}
  BY DEF Load, cachevars, At, Goes
<1>1. PICK tags \in record : draft' = [draft EXCEPT ![r] = tags]
  BY DEF Load
<1>2. spoiled = FALSE => tags = intended
  BY <1>0, <1>1 DEF TagsFollow
<1>. QED
  BY <1>0, <1>1, <1>2 DEF TagsFollow, Loading, TypeOK

LEMMA WriteMetaKeepsTags ==
    ASSUME TypeOK, TagsFollow, NEW r \in Reader, WriteMeta(r) PROVE TagsFollow'
<1>0. /\ UNCHANGED <<record, intended, foreign, spoiled, view>> /\ pc[r] = "writemeta"
  BY DEF WriteMeta, At
<1>1. CASE rows[r] # {}
  <2>1. UNCHANGED <<rows, draft, mixed>> /\ pc' = [pc EXCEPT ![r] = "show"]
    BY <1>1 DEF WriteMeta, Goes
  <2>. QED
    BY <1>0, <1>1, <2>1 DEF TagsFollow, Loading, TypeOK
<1>2. CASE rows[r] = {}
  <2>1. /\ rows' = [rows EXCEPT ![r] = {}] /\ draft' = [draft EXCEPT ![r] = {}]
        /\ mixed' = mixed \ {r} /\ pc' = [pc EXCEPT ![r] = "idle"]
    BY <1>2 DEF WriteMeta, Goes, Forgets
  <2>. QED
    BY <1>0, <2>1 DEF TagsFollow, Loading, TypeOK
<1>. QED
  BY <1>1, <1>2

LEMMA ShowKeepsTags ==
    ASSUME TypeOK, TagsFollow, NEW r \in Reader, Show(r) PROVE TagsFollow'
<1>0. /\ UNCHANGED <<record, intended, foreign, spoiled>>
      /\ rows' = [rows EXCEPT ![r] = {}] /\ draft' = [draft EXCEPT ![r] = {}]
      /\ mixed' = mixed \ {r}
      /\ pc[r] = "show" /\ pc' = [pc EXCEPT ![r] = "idle"]
  BY DEF Show, Forgets, At, Goes
<1>1. PICK v : v.tags = draft[r] /\ view' = [view EXCEPT ![r] = {v}]
  BY DEF Show
<1>. QED
  BY <1>0, <1>1 DEF TagsFollow, Loading, TypeOK

(* An edit that spoils nothing starts from the tags as intended.           *)
LEMMA EditTagsKeepsTags ==
    ASSUME TypeOK, TagsFollow, NEW r \in Reader, EditTags(r) PROVE TagsFollow'
<1>. SUFFICES ASSUME spoiled' = FALSE PROVE TagsFollow'
  BY DEF TagsFollow
<1>0. /\ UNCHANGED view /\ pc' = [pc EXCEPT ![r] = "tagging"]
      /\ record' = {} /\ Meets(r, "tagging")
      /\ foreign' = foreign \cup (Reader \ {r})
      /\ pc[r] = "idle"
  BY DEF EditTags, loadvars, At, Goes
<1>1. spoiled' = (spoiled \/ r \in foreign \/ \E q \in Reader : pc[q] = "tagging")
  BY DEF EditTags
<1>2. spoiled = FALSE /\ r \notin foreign /\ \A q \in Reader : pc[q] # "tagging"
  BY <1>1 DEF TypeOK
<1>3. PICK v \in view[r], t \in Tag :
        draft' = [draft EXCEPT ![r] = Edited(v.tags, t)] /\ intended' = Edited(intended, t)
  BY DEF EditTags
<1>4. v.tags = intended
  BY <1>0, <1>2 DEF TagsFollow
<1>5. draft'[r] = intended'
  BY <1>3, <1>4 DEF TypeOK
<1>6. r \notin mixed'
  BY <1>0, <1>2 DEF Meets
<1>. QED
  BY <1>0, <1>2, <1>5, <1>6 DEF TagsFollow, Loading, TypeOK

LEMMA WriteTagsKeepsTags ==
    ASSUME TypeOK, TagsFollow, NEW r \in Reader, WriteTags(r) PROVE TagsFollow'
<1>0. /\ UNCHANGED <<intended, foreign, spoiled>>
      /\ pc[r] = "tagging" /\ pc' = [pc EXCEPT ![r] = "idle"]
      /\ rows' = [rows EXCEPT ![r] = {}] /\ draft' = [draft EXCEPT ![r] = {}]
      /\ mixed' = mixed \ {r} /\ view' = [view EXCEPT ![r] = {}]
      /\ record' \in Outcomes(r, {draft[r]})
  BY DEF WriteTags, Forgets, At, Goes
<1>1. spoiled = FALSE => record' = {intended} /\ \A q \in Reader \ {r} : pc[q] # "tagging"
  BY <1>0 DEF TagsFollow, Outcomes
<1>. QED
  BY <1>0, <1>1 DEF TagsFollow, Loading, TypeOK

LEMMA CrashKeepsTags ==
    ASSUME TypeOK, TagsFollow, NEW r \in Reader, Crash(r) PROVE TagsFollow'
<1>. SUFFICES ASSUME spoiled' = FALSE PROVE TagsFollow'
  BY DEF TagsFollow
<1>0. /\ UNCHANGED <<record, intended, foreign>> /\ pc' = [pc EXCEPT ![r] = "idle"]
      /\ rows' = [rows EXCEPT ![r] = {}] /\ draft' = [draft EXCEPT ![r] = {}]
      /\ mixed' = mixed \ {r} /\ view' = [view EXCEPT ![r] = {}]
      /\ spoiled' = (spoiled \/ pc[r] = "tagging")
  BY DEF Crash, Forgets, Goes
<1>1. spoiled = FALSE /\ pc[r] # "tagging"
  BY <1>0 DEF TypeOK
<1>. QED
  BY <1>0, <1>1 DEF TagsFollow, Loading, TypeOK

LEMMA StepTagsFollow == TypeOK /\ RInv /\ TagsFollow /\ [Next]_vars => TagsFollow'
<1>. SUFFICES ASSUME TypeOK, RInv, TagsFollow, [Next]_vars PROVE TagsFollow'
  OBVIOUS
<1>1. CASE JobStep \/ UNCHANGED vars
  <2>1. UNCHANGED <<record, draft, intended, foreign, spoiled, view, pc, mixed, rows>>
    BY <1>1 DEF JobStep, WriteResult, FinishResult, JobOnly, vars, cachevars, tagvars, loadvars
  <2>. QED
    BY <2>1 DEF TagsFollow, Loading
<1>2. ASSUME NEW r \in Reader, ReaderStep(r) PROVE TagsFollow'
  <2>1. CASE \/ ReadMeta(r) \/ CompareHashes(r) \/ LoadCached(r) \/ ParseFile(r) \/ ParseEnds(r)
             \/ WriteParquet(r) \/ Rehash(r) \/ OtherCacheLoads(r) \/ OtherCacheSaves(r)
    <3>1. LoadStep(r)
      BY <2>1 DEF ReadMeta, CompareHashes, LoadCached, ParseFile, ParseEnds, WriteParquet, Rehash,
                  OtherCacheLoads, OtherCacheSaves
    <3>. QED
      BY <2>1, <3>1, LoadStepKeepsTags
  <2>2. CASE Load(r) \/ WriteMeta(r) \/ Show(r) \/ EditTags(r) \/ WriteTags(r) \/ Crash(r)
    BY <2>2, LoadKeepsTags, WriteMetaKeepsTags, ShowKeepsTags, EditTagsKeepsTags,
       WriteTagsKeepsTags, CrashKeepsTags
  <2>. QED
    BY <1>2, <2>1, <2>2 DEF ReaderStep
<1>. QED
  BY <1>1, <1>2 DEF Next, Idles

-----------------------------------------------------------------------------
(* The theorems.                                                           *)

(* What everybody holds of the results, the cache and the hashes in it are *)
(* consistent with each other in every reachable state.                    *)
THEOREM ResultsInvariant == Spec => [](TypeOK /\ RInv /\ TagsFollow)
<1>1. Init => TypeOK /\ RInv /\ TagsFollow
  BY InitTypeOK, InitRInv, InitTagsFollow
<1>2. (TypeOK /\ RInv /\ TagsFollow) /\ [Next]_vars => (TypeOK /\ RInv /\ TagsFollow)'
  BY StepTypeOK, StepRInv, StepTagsFollow
<1>. QED
  BY <1>1, <1>2, PTL DEF Spec

(* No row is invented, whatever half-written file is read and however the  *)
(* writers of the cache meet.                                              *)
THEOREM ResultsNoInventedRows == Spec => []NoInventedRows
<1>1. RInv => NoInventedRows
  BY DEF RInv, RowsReal, NoInventedRows
<1>. QED
  BY <1>1, ResultsInvariant, PTL

(* A view without the warning has every result that the record names.      *)
THEOREM ResultsCompleteMeansComplete == Spec => []CompleteMeansComplete
<1>1. RInv => CompleteMeansComplete
  BY DEF RInv, RowsReal, CompleteMeansComplete
<1>. QED
  BY <1>1, ResultsInvariant, PTL

(* A view misses only what was finished between a parse and its hash.      *)
THEOREM ResultsViewMissesOnlyRaced == Spec => []ViewMissesOnlyRaced
<1>1. RInv => ViewMissesOnlyRaced
  BY DEF RInv, ViewCovers, Covers, ViewMissesOnlyRaced
<1>. QED
  BY <1>1, ResultsInvariant, PTL

(* The record has the tags of every edit, for any number of dashboards.    *)
THEOREM ResultsTagsKept == Spec => []TagsKept
<1>1. TypeOK /\ TagsFollow => TagsKept
  BY DEF TagsFollow, TagsKept, TypeOK
<1>. QED
  BY <1>1, ResultsInvariant, PTL
=============================================================================

---------------------------- MODULE Configuration ----------------------------
(***************************************************************************)
(* What srtctl does with a configuration file: validating it, writing or   *)
(* submitting its variants, and loading in the job what was submitted.     *)
(*                                                                         *)
(* An override file has a base, overrides and zip groups; a sweep file has *)
(* a configuration and its parameters; a plain file has a configuration,   *)
(* with a lock section if it is the lock file of an earlier run.           *)
(***************************************************************************)
EXTENDS Overrides

CONSTANTS
    Files,      \* the files
    Clusters,   \* the cluster configurations
    Selectors,  \* the selectors
    Required    \* the paths the schema requires

VARIABLES
    file, cluster, verb, selector,
    pc,         \* how far the command is
    variants,   \* what generate_override_configs or the sweep returned
    done,       \* the variants dealt with
    errors,     \* the suffixes validate_config_file complains about
    written,    \* the files resolve-override has written, by suffix
    submitted,  \* the configuration texts that jobs were submitted with
    loaded      \* the configuration each job has loaded

vars == <<file, cluster, verb, selector, pc, variants, done, errors, written, submitted, loaded>>
input == <<file, cluster, verb, selector>>

Verb == {"validate", "resolve", "apply", "dry-run"}

IsOverrideFile == Has(file, "base")
IsSweepFile == Has(file, "sweep")

RECURSIVE At(_, _)
At(v, path) == IF path = << >> THEN v ELSE At(v.d[Head(path)], Tail(path))

RECURSIVE HasPath(_, _)
HasPath(v, path) ==
    \/ path = << >>
    \/ IsDict(v) /\ Has(v.d, Head(path)) /\ HasPath(v.d[Head(path)], Tail(path))

SchemaAccepts(config) ==
    \A path \in Required : HasPath(Dict(config), path) /\ IsScalar(At(Dict(config), path))

(* load_config once the file is read: the lock section is taken off, the   *)
(* cluster's defaults and aliases are applied, the schema has its say.     *)
Resolved(text) ==
    LET config == [k \in DOMAIN text \ {"lock"} |-> text[k]]
    IN  IF cluster = NoCluster THEN config ELSE WithDefaults(config, cluster)

Loads(text) ==
    /\ cluster # NoCluster => ~DefaultsRaise(text)
    /\ SchemaAccepts(Resolved(text))

Load(text) == SchemaFill(Resolved(text))

Init ==
    /\ file \in Files /\ cluster \in Clusters /\ verb \in Verb
    /\ selector \in (IF Has(file, "base") THEN Selectors ELSE {All})
    /\ verb = "validate" => selector = All
    /\ verb = "resolve" => Has(file, "base")
    /\ pc = "start" /\ variants = << >> /\ done = 0
    /\ errors = {} /\ written = << >> /\ submitted = << >> /\ loaded = << >>

Fails ==
    /\ pc' = "failed"
    /\ UNCHANGED <<input, variants, done, errors, written, submitted, loaded>>

(* The variants of an override file; ValueError ends the command.          *)
Expand ==
    /\ pc = "start" /\ IsOverrideFile
    /\ IF ExpandRaises(file, selector) THEN Fails
       ELSE /\ variants' = GenerateOverrideConfigs(file, selector)
            /\ pc' = "variants"
            /\ UNCHANGED <<input, done, errors, written, submitted, loaded>>

(* The configurations of a sweep, each checked as it is generated.         *)
ExpandSweep ==
    /\ pc = "start" /\ IsSweepFile /\ verb # "validate"
    /\ IF \/ cluster # NoCluster /\ DefaultsRaise(file.config)
          \/ \E i \in 1 .. Len(SweepConfigs(file, cluster)) :
                ~SchemaAccepts(SweepConfigs(file, cluster)[i])
       THEN Fails
       ELSE /\ variants' = [i \in 1 .. Len(SweepConfigs(file, cluster)) |->
                              [suffix |-> << >>, config |-> SweepConfigs(file, cluster)[i]]]
            /\ pc' = "variants"
            /\ UNCHANGED <<input, done, errors, written, submitted, loaded>>

(* A plain file is one configuration, submitted as it stands.              *)
OnePlain ==
    /\ pc = "start" /\ ~IsOverrideFile /\ (IsSweepFile => verb = "validate")
    /\ variants' = <<[suffix |-> << >>, config |-> file.config]>>
    /\ pc' = "variants"
    /\ UNCHANGED <<input, done, errors, written, submitted, loaded>>

Variant == variants[done + 1]
More == pc = "variants" /\ done < Len(variants)

(* validate_config_file: the variants as generated.  To the schema the     *)
(* parameters of a sweep file are an unknown field.  Of the variants of an *)
(* override file one to which the defaults do not apply ends it.           *)
Validate ==
    /\ More /\ verb = "validate"
    /\ IF IsOverrideFile /\ cluster # NoCluster /\ DefaultsRaise(Variant.config) THEN Fails
       ELSE /\ errors' = errors \cup (IF ~IsSweepFile /\ Loads(Variant.config) THEN {} ELSE {Variant.suffix})
            /\ done' = done + 1
            /\ UNCHANGED <<input, pc, variants, written, submitted, loaded>>

(* The text of a variant.                                                  *)
Emitted(v) == IF IsOverrideFile THEN ResolveVariant(file, v) ELSE v.config

(* resolve_override_cmd: a file for every variant, named by the suffix.    *)
WriteFile ==
    /\ More /\ verb = "resolve"
    /\ written' = Put(written, Variant.suffix, Emitted(Variant))
    /\ done' = done + 1
    /\ UNCHANGED <<input, pc, variants, errors, submitted, loaded>>

(* apply: a variant is checked when its turn comes.  A sweep has its jobs  *)
(* submitted after the loop over the configurations: the last one only.    *)
SubmitVariant ==
    /\ More /\ verb = "apply" /\ (IsSweepFile => done + 1 = Len(variants))
    /\ IF ~Loads(Emitted(Variant)) THEN Fails
       ELSE /\ submitted' = Append(submitted, Emitted(Variant))
            /\ done' = done + 1
            /\ UNCHANGED <<input, pc, variants, errors, written, loaded>>

SkipConfig ==
    /\ More /\ verb = "apply" /\ IsSweepFile /\ done + 1 < Len(variants)
    /\ done' = done + 1
    /\ UNCHANGED <<input, pc, variants, errors, written, submitted, loaded>>

(* A dry run goes the same way and submits nothing.                        *)
DryRun ==
    /\ More /\ verb = "dry-run"
    /\ IF ~IsSweepFile /\ ~Loads(Emitted(Variant)) THEN Fails
       ELSE /\ done' = done + 1
            /\ UNCHANGED <<input, pc, variants, errors, written, submitted, loaded>>

Finish ==
    /\ pc = "variants" /\ done = Len(variants)
    /\ pc' = "ended"
    /\ UNCHANGED <<input, variants, done, errors, written, submitted, loaded>>

(* do_sweep loads what is in its output directory, in order of submission. *)
JobLoads ==
    /\ Len(loaded) < Len(submitted)
    /\ loaded' = Append(loaded, Load(submitted[Len(loaded) + 1]))
    /\ UNCHANGED <<input, pc, variants, done, errors, written, submitted>>

Ended ==
    /\ pc \in {"ended", "failed"} /\ Len(loaded) = Len(submitted)
    /\ UNCHANGED vars

Next ==
    \/ Expand \/ ExpandSweep \/ OnePlain \/ Validate \/ WriteFile \/ SubmitVariant
    \/ SkipConfig \/ DryRun \/ Finish \/ JobLoads \/ Ended

Spec == Init /\ [][Next]_vars
-----------------------------------------------------------------------------
(* Reference definitions: what a mapping says at its paths.                *)

RECURSIVE Leaves(_)
Leaves(dict) ==
    {<<k>> : k \in {x \in DOMAIN dict : ~IsDict(dict[x])}}
        \cup UNION {{<<k>> \o p : p \in Leaves(dict[k].d)} : k \in {x \in DOMAIN dict : IsDict(dict[x])}}

Get(dict, path) == At(Dict(dict), path)
Says(dict, path, v) == HasPath(Dict(dict), path) /\ Get(dict, path) = v
Above(path) == {SubSeq(path, 1, n) : n \in 1 .. Len(path) - 1}

(* A value of the override stands; a null removes what merging reaches; a  *)
(* value of the base stands where the override says nothing; there is      *)
(* nothing else.                                                           *)
MergedByPath(base, override, merged) ==
    LET Reached(p) == \A q \in Above(p) : HasPath(Dict(base), q) /\ IsDict(Get(base, q))
        Untouched(p) == /\ ~HasPath(Dict(override), p)
                        /\ Above(p) \cap Leaves(override) = {}
    IN  /\ \A p \in Leaves(override) :
             IF Get(override, p) # Null THEN Says(merged, p, Get(override, p))
             ELSE Reached(p) => ~HasPath(Dict(merged), p)
        /\ \A p \in Leaves(base) : Untouched(p) => Says(merged, p, Get(base, p))
        /\ \A p \in Leaves(merged) : \E from \in {base, override} :
               p \in Leaves(from) /\ Says(from, p, Get(merged, p))

(* An override changes what it names and nothing else, whichever of the    *)
(* two merges is used (deep_merge, comment_aware_merge).                   *)
MergeByPath ==
    pc # "start" /\ IsOverrideFile =>
        \A s \in DOMAIN file.overrides :
            /\ MergedByPath(file.base, file.overrides[s], DeepMerge(file.base, file.overrides[s]))
            /\ MergedByPath(file.base, file.overrides[s],
                            CommentAwareMerge(file.base, file.overrides[s]))

(* The i-th variant of a zip group has the i-th element of each list, or   *)
(* the only one, and every element of every list is in some variant        *)
(* (_apply_zip_slice, _determine_zip_length).                              *)
ZipColumns ==
    pc \in {"variants", "ended"} /\ IsOverrideFile /\ selector.by \in {"all", "zip"} =>
        \A g \in DOMAIN file.zips : selector = All \/ selector.key = g =>
            LET zip == file.zips[g]
                Lists == {p \in Leaves(zip) : IsList(Get(zip, p))}
                Is(i) == {v \in ToSet(variants) : v.suffix = g \o <<Digit[i]>>}
                Column(i, p) == LET l == Get(zip, p).l IN l[IF Len(l) = 1 THEN 1 ELSE i]
            IN  \A p \in Lists : \A n \in 1 .. Len(Get(zip, p).l) :
                    \E i \in 1 .. Len(variants) :
                        /\ Is(i) # {} /\ Get(zip, p).l[n] = Column(i, p)
                        /\ \A q \in Lists : Column(i, q) # Null =>
                              \E v \in Is(i) : Says(v.config, q, Column(i, q))

(* Two keys of a file may stand for one suffix: override_g_0 and the first *)
(* variant of zip_override_g, or override_base and the base.               *)
Clash(suffix) ==
    \/ suffix = <<"base">> /\ selector # Base
    \/ Has(file.overrides, suffix)
          /\ \E g \in DOMAIN file.zips : \E i \in DOMAIN Digit : suffix = g \o <<Digit[i]>>

(* Whatever a selector picks is what "all" makes of it, in the same order: *)
(* the five ways through generate_override_configs agree.  And unless two  *)
(* of them have one suffix, resolve-override leaves a file for each.       *)
SelectorsAgree ==
    /\ pc \in {"variants", "ended"} /\ IsOverrideFile /\ selector # Base /\ ~ExpandRaises(file, All)
       => LET all == GenerateOverrideConfigs(file, All)
          IN  \/ variants = SelectSeq(all, LAMBDA v : v \in ToSet(variants))
              \/ /\ ToSet(variants) \subseteq ToSet(all)
                 /\ \E v \in ToSet(variants) : Clash(v.suffix)
    /\ verb = "resolve" /\ pc = "ended" /\ (\A v \in ToSet(variants) : ~Clash(v.suffix))
       => Cardinality(DOMAIN written) = Len(variants)

(* What is submitted for an override is what the expansion gave.  For a    *)
(* variant of a zip group it says all that the expansion says, and beyond  *)
(* it only what the base says and the group has deleted: deletions are     *)
(* lost when the expanded variant is merged into the base once more.  And  *)
(* what validation accepts, looking at the expansion, is still accepted.   *)
SubmittedAsExpanded ==
    /\ verb = "apply" /\ IsOverrideFile =>
        \A i \in 1 .. Len(submitted) :
            LET config == variants[i].config
                Set(f) == {p \in Leaves(f) : Get(f, p) # Null}
            IN  ~Clash(variants[i].suffix) =>
                   IF Has(file.overrides, variants[i].suffix) \/ selector = Base
                   THEN submitted[i] = config
                   ELSE /\ \A p \in Set(config) : Says(submitted[i], p, Get(config, p))
                        /\ \A p \in Set(submitted[i]) \ Set(config) :
                              Says(file.base, p, Get(submitted[i], p)) /\ ~HasPath(Dict(config), p)
    /\ verb = "validate" /\ pc = "ended" /\ errors = {} /\ IsOverrideFile =>
        \A v \in ToSet(variants) : v.suffix # <<"base">> => Loads(Emitted(v))

(* The words of a configuration's texts.                                   *)
RECURSIVE Words(_)
Words(v) ==
    IF IsScalar(v) THEN ToSet(v.s)
    ELSE IF IsList(v) THEN UNION {Words(v.l[i]) : i \in 1 .. Len(v.l)}
    ELSE IF IsDict(v) THEN UNION {Words(v.d[k]) : k \in DOMAIN v.d}
    ELSE {}

(* No alias stands for another alias, and the default container of nginx   *)
(* is not the name of one.                                                 *)
AliasesAreFinal ==
    cluster # NoCluster =>
        /\ \A a \in DOMAIN cluster.model_paths : ~Has(cluster.model_paths, cluster.model_paths[a].s)
        /\ \A a \in DOMAIN cluster.containers : ~Has(cluster.containers, cluster.containers[a].s)
        /\ ~Has(cluster.containers, DefaultNginx.s)

(* A sweep has one configuration for each combination of its values, no    *)
(* placeholder is left in any of them, and its job loads what it would had *)
(* the configuration been written by hand, although the cluster's defaults *)
(* are applied both before the expansion and in the job.                   *)
SweepCoversGrid ==
    pc = "variants" /\ IsSweepFile /\ verb # "validate" =>
        LET Combos == {c \in [1 .. Len(file.sweep) -> UNION {DOMAIN p.values : p \in ToSet(file.sweep)}] :
                          \A j \in DOMAIN c : c[j] \in DOMAIN file.sweep[j].values}
            Setting(c, j) == [placeholder |-> file.sweep[j].placeholder, key |-> file.sweep[j].key,
                              value |-> file.sweep[j].values[c[j]]]
            Params(c) == [j \in DOMAIN c |-> Setting(c, j)]
        IN  /\ Len(variants) = Cardinality(Combos)
            /\ \A c \in Combos : \E v \in ToSet(variants) :
                 ExpandTemplate(file.config["swept"], Params(c)) = v.config["swept"]
            /\ \A v \in ToSet(variants) : \A p \in ToSet(file.sweep) :
                 p.placeholder \notin Words(v.config["swept"]) \cup Words(v.config["model"])
            /\ AliasesAreFinal => \A i \in 1 .. Len(variants) :
                 Load(variants[i].config) =
                     Load(Put(ExpandTemplate(Dict(file.config), Grid(file.sweep)[i]).d, "name",
                              variants[i].config["name"]))
=============================================================================

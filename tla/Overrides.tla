------------------------------ MODULE Overrides ------------------------------
(***************************************************************************)
(* The configuration algebra of srtctl: merging an override over a base,   *)
(* zipping lists into variants, selecting variants, expanding parameter    *)
(* sweeps, and applying the cluster's defaults (core/config.py,            *)
(* core/yaml_utils.py, core/sweep.py).                                     *)
(*                                                                         *)
(* A mapping is a function from keys to values.  A value is a scalar [s],  *)
(* a list [l], a mapping [d] or Null.  A scalar is a sequence of words, so *)
(* that names can be put together and placeholders replaced.  The order of *)
(* keys and the comments of a file are layout and left out.                *)
(***************************************************************************)
EXTENDS Naturals, Sequences, FiniteSets, SequencesExt

CONSTANTS
    OverrideOrder,  \* suffixes of override_* keys, as sorted() orders them
    ZipOrder,       \* groups of zip_override_* keys, likewise
    Digit,          \* Digit[i] is the word for the number i - 1
    NoCluster,      \* there is no srtslurm.yaml, or it is not valid
    DefaultNginx    \* the schema's default container of nginx

Scalar(words) == [s |-> words]
List(seq) == [l |-> seq]
Dict(f) == [d |-> f]
Null == [null |-> TRUE]

IsScalar(v) == "s" \in DOMAIN v
IsList(v) == "l" \in DOMAIN v
IsDict(v) == "d" \in DOMAIN v

Has(dict, k) == k \in DOMAIN dict
HasDict(dict, k) == Has(dict, k) /\ IsDict(dict[k])
Put(dict, k, v) == [x \in DOMAIN dict \cup {k} |-> IF x = k THEN v ELSE dict[x]]

-----------------------------------------------------------------------------
(* Merging.                                                                *)

(* Mutant of DeepMerge: a null overwrites instead of deleting.             *)
RECURSIVE MergeKeepsNull(_, _)
MergeKeepsNull(base, override) ==
    [k \in DOMAIN base \cup DOMAIN override |->
        IF ~Has(override, k) THEN base[k]
        ELSE IF HasDict(base, k) /\ IsDict(override[k])
        THEN Dict(MergeKeepsNull(base[k].d, override[k].d))
        ELSE override[k]]

RECURSIVE DeepMerge(_, _)
DeepMerge(base, override) ==
    LET Kept == {k \in DOMAIN base \cup DOMAIN override :
                    Has(override, k) => override[k] # Null}
        Merged(k) == IF HasDict(base, k) /\ IsDict(override[k])
                     THEN Dict(DeepMerge(base[k].d, override[k].d))
                     ELSE override[k]
    IN  [k \in Kept |-> IF Has(override, k) THEN Merged(k) ELSE base[k]]

(* The same over the two files as ruamel reads them, in two passes: the    *)
(* keys of the base, then the new ones.                                    *)
RECURSIVE CommentAwareMerge(_, _)
CommentAwareMerge(base, override) ==
    LET BaseKeys == {k \in DOMAIN base : Has(override, k) => override[k] # Null}
        NewKeys == {k \in DOMAIN override \ DOMAIN base : override[k] # Null}
        Updated(k) == IF ~Has(override, k) THEN base[k]
                      ELSE IF IsDict(base[k]) /\ IsDict(override[k])
                      THEN Dict(CommentAwareMerge(base[k].d, override[k].d))
                      ELSE override[k]
    IN  [k \in BaseKeys \cup NewKeys |-> IF k \in NewKeys THEN override[k] ELSE Updated(k)]

-----------------------------------------------------------------------------
(* Variants.                                                               *)

NameOf(base) == IF Has(base, "name") THEN base["name"].s ELSE <<"unnamed">>
AutoName(base, suffix) == Scalar(NameOf(base) \o suffix)

OverrideVariant(raw, suffix) ==
    LET merged == DeepMerge(raw.base, raw.overrides[suffix])
    IN  [suffix |-> suffix,
         config |-> IF Has(raw.overrides[suffix], "name") THEN merged
                    ELSE Put(merged, "name", AutoName(raw.base, suffix))]

RECURSIVE ListLengths(_)
ListLengths(dict) ==
    {Len(dict[k].l) : k \in {x \in DOMAIN dict : IsList(dict[x])}}
        \cup UNION {ListLengths(dict[k].d) : k \in {x \in DOMAIN dict : IsDict(dict[x])}}

(* _determine_zip_length raises unless this holds.                         *)
Zippable(dict) ==
    LET lengths == ListLengths(dict)
    IN  lengths # {} /\ 0 \notin lengths /\ Cardinality(lengths \ {1}) <= 1

ZipLength(dict) ==
    IF ListLengths(dict) = {1} THEN 1
    ELSE CHOOSE n \in ListLengths(dict) : n # 1

(* Mutant of ZipSlice: a list shorter than the others starts again.        *)
RECURSIVE SliceFirstOnly(_, _)
SliceFirstOnly(dict, i) ==
    [k \in DOMAIN dict |->
        IF IsList(dict[k]) THEN dict[k].l[1]
        ELSE IF IsDict(dict[k]) THEN Dict(SliceFirstOnly(dict[k].d, i))
        ELSE dict[k]]

RECURSIVE ZipSlice(_, _)
ZipSlice(dict, i) ==
    [k \in DOMAIN dict |->
        IF IsList(dict[k]) THEN dict[k].l[IF Len(dict[k].l) = 1 THEN 1 ELSE i]
        ELSE IF IsDict(dict[k]) THEN Dict(ZipSlice(dict[k].d, i))
        ELSE dict[k]]

ZipVariants(raw, group) ==
    LET zip == raw.zips[group]
        Named == Has(zip, "name") /\ IsList(zip["name"])
        Variant(i) ==
            LET merged == DeepMerge(raw.base, ZipSlice(zip, i))
                suffix == group \o <<Digit[i]>>
            IN  [suffix |-> suffix,
                 config |-> IF Named THEN merged
                            ELSE Put(merged, "name", AutoName(raw.base, suffix))]
    IN  [i \in 1 .. ZipLength(zip) |-> Variant(i)]

-----------------------------------------------------------------------------
(* Selectors: what comes after the colon of -f.  A glob is represented by  *)
(* the keys it matches, of the overrides and of the zip groups.            *)

All == [by |-> "all"]
Base == [by |-> "base"]
OneOverride(suffix) == [by |-> "override", key |-> suffix]
OneZip(group) == [by |-> "zip", key |-> group]
OneOfZip(group, n) == [by |-> "index", key |-> group, index |-> n]
Glob(suffixes, groups) == [by |-> "glob", overrides |-> suffixes, zips |-> groups]

Sorted(order, keys) == SelectSeq(order, LAMBDA k : k \in keys)

ExpandKeys(raw, suffixes, groups) ==
    LET o == Sorted(OverrideOrder, suffixes)
        z == Sorted(ZipOrder, groups)
    IN  [i \in 1 .. Len(o) |-> OverrideVariant(raw, o[i])]
            \o FlattenSeq([i \in 1 .. Len(z) |-> ZipVariants(raw, z[i])])

Matched(raw, sel) == [overrides |-> sel.overrides \cap DOMAIN raw.overrides,
                      zips |-> sel.zips \cap DOMAIN raw.zips]

(* When generate_override_configs raises ValueError.                       *)
ExpandRaises(raw, sel) ==
    LET Bad(groups) == \E g \in groups : ~Zippable(raw.zips[g])
    IN  \/ sel.by = "all" /\ Bad(DOMAIN raw.zips)
        \/ sel.by = "override" /\ ~Has(raw.overrides, sel.key)
        \/ sel.by \in {"zip", "index"} /\ (~Has(raw.zips, sel.key) \/ Bad({sel.key}))
        \/ sel.by = "index" /\ sel.index >= ZipLength(raw.zips[sel.key])
        \/ sel.by = "glob" /\ LET m == Matched(raw, sel)
                              IN  m.overrides \cup m.zips = {} \/ Bad(m.zips)

(* Mutant of SingleOverride: the variant keeps the name of the base.       *)
SingleUnnamed(raw, suffix) ==
    <<[suffix |-> suffix, config |-> DeepMerge(raw.base, raw.overrides[suffix])]>>

SingleOverride(raw, suffix) == <<OverrideVariant(raw, suffix)>>

GenerateOverrideConfigs(raw, sel) ==
    CASE sel.by = "all" -> ExpandKeys(raw, DOMAIN raw.overrides, DOMAIN raw.zips)
      [] sel.by = "index" -> <<ZipVariants(raw, sel.key)[sel.index + 1]>>
      [] sel.by = "base" -> <<[suffix |-> <<"base">>, config |-> raw.base]>>
      [] sel.by = "glob" -> LET m == Matched(raw, sel) IN ExpandKeys(raw, m.overrides, m.zips)
      [] sel.by = "zip" -> ZipVariants(raw, sel.key)
      [] sel.by = "override" -> SingleOverride(raw, sel.key)

(* Mutant of ResolveVariant: the name made up for the variant is lost.     *)
ResolveUnnamed(raw, variant) ==
    IF Has(raw.overrides, variant.suffix)
    THEN CommentAwareMerge(raw.base, raw.overrides[variant.suffix])
    ELSE CommentAwareMerge(raw.base, variant.config)

(* One variant of resolve_override_yaml: the text that is submitted.  It   *)
(* goes by the suffix alone.                                               *)
ResolveVariant(raw, variant) ==
    LET merged == CommentAwareMerge(raw.base, raw.overrides[variant.suffix])
    IN  IF variant.suffix = <<"base">> THEN raw.base
        ELSE IF ~Has(raw.overrides, variant.suffix)
        THEN CommentAwareMerge(raw.base, variant.config)
        ELSE IF Has(variant.config, "name")
        THEN Put(merged, "name", variant.config["name"])
        ELSE merged

-----------------------------------------------------------------------------
(* Cluster defaults.  A cluster configuration has default values for the   *)
(* slurm section, aliases of models and of containers, and it may have a   *)
(* reporting section.                                                      *)

Alias(table, dict, k) ==
    IF Has(dict, k) /\ IsScalar(dict[k]) /\ Has(table, dict[k].s)
    THEN Put(dict, k, table[dict[k].s]) ELSE dict

DefaultsRaise(config) ==
    \E k \in {"slurm", "model", "frontend"} : Has(config, k) /\ ~IsDict(config[k])

Section(config, k) == IF Has(config, k) THEN config[k].d ELSE << >>

WithDefaults(config, cluster) ==
    LET slurm == Section(config, "slurm")
        filled == [k \in DOMAIN slurm \cup DOMAIN cluster.slurm |->
                      IF Has(slurm, k) THEN slurm[k] ELSE cluster.slurm[k]]
        model == Alias(cluster.containers,
                       Alias(cluster.model_paths, Section(config, "model"), "path"), "container")
        frontend == Alias(cluster.containers, Section(config, "frontend"), "nginx_container")
        Filled(k) == IF k = "slurm" THEN Dict(filled)
                     ELSE IF k = "model" THEN Dict(model)
                     ELSE IF k = "frontend" THEN Dict(frontend)
                     ELSE IF Has(config, k) THEN config[k] ELSE cluster.reporting["reporting"]
    IN  [k \in DOMAIN config \cup {"slurm"} \cup DOMAIN cluster.reporting |-> Filled(k)]

-----------------------------------------------------------------------------
(* Sweeps.  The parameters are a sequence of names with their values; the  *)
(* placeholder of a parameter is a word of its own.                        *)

(* str() of a value: a list is joined with commas.                         *)
Text(v) ==
    IF IsScalar(v) THEN v.s
    ELSE FlattenSeq([i \in 1 .. Len(v.l) |-> IF i = 1 THEN v.l[i].s ELSE <<",">> \o v.l[i].s])

ReplaceWord(words, placeholder, by) ==
    FlattenSeq([i \in 1 .. Len(words) |-> IF words[i] = placeholder THEN by ELSE <<words[i]>>])

(* The parameters are replaced one after the other; a string that is just  *)
(* the placeholder of a list becomes the list, and is then left alone.     *)
ExpandWords(words, params) ==
    LET Step(v, p) == IF ~IsScalar(v) THEN v
                      ELSE IF IsList(p.value) /\ v.s = <<p.placeholder>> THEN p.value
                      ELSE Scalar(ReplaceWord(v.s, p.placeholder, Text(p.value)))
    IN  FoldLeft(Step, Scalar(words), params)

RECURSIVE ExpandTemplate(_, _)
ExpandTemplate(v, params) ==
    IF IsDict(v) THEN Dict([k \in DOMAIN v.d |-> ExpandTemplate(v.d[k], params)])
    ELSE IF IsList(v) THEN List([i \in 1 .. Len(v.l) |-> ExpandTemplate(v.l[i], params)])
    ELSE IF IsScalar(v) THEN ExpandWords(v.s, params)
    ELSE v

(* Mutant of Grid: zip instead of product.                                 *)
GridDiagonal(sweep) ==
    [i \in 1 .. Len(sweep[1].values) |->
        [j \in 1 .. Len(sweep) |->
            [placeholder |-> sweep[j].placeholder, key |-> sweep[j].key,
             value |-> sweep[j].values[((i - 1) % Len(sweep[j].values)) + 1]]]]

(* The grid, the last parameter running fastest (itertools.product).       *)
Grid(sweep) ==
    LET Settings(p) == [i \in 1 .. Len(p.values) |->
                           [placeholder |-> p.placeholder, key |-> p.key, value |-> p.values[i]]]
        Extend(combos, p) == FlattenSeq([i \in 1 .. Len(combos) |->
                                [j \in 1 .. Len(p.values) |-> Append(combos[i], Settings(p)[j])]])
    IN  FoldLeft(Extend, <<<< >>>>, sweep)

(* Loading through the schema makes the default values of absent fields    *)
(* explicit; the one that a later step can mistake for something else is   *)
(* the container of nginx.                                                 *)
SchemaFill(config) ==
    LET frontend == Section(config, "frontend")
    IN  IF Has(frontend, "nginx_container") THEN config
        ELSE Put(config, "frontend", Dict(Put(frontend, "nginx_container", DefaultNginx)))

(* generate_sweep_configs: the cluster's defaults are applied before the   *)
(* expansion, and the result goes through the schema and back.             *)
SweepConfigs(file, cluster) ==
    LET defaults == IF cluster = NoCluster THEN file.config
                    ELSE WithDefaults(file.config, cluster)
        grid == Grid(file.sweep)
        Suffix(params) == FlattenSeq([i \in 1 .. Len(params) |->
                             <<params[i].key>> \o Text(params[i].value)])
    IN  [i \in 1 .. Len(grid) |->
            SchemaFill(Put(ExpandTemplate(Dict(defaults), grid[i]).d, "name",
                           Scalar(file.config["name"].s \o Suffix(grid[i]))))]
=============================================================================

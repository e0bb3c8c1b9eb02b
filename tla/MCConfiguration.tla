--------------------------- MODULE MCConfiguration ---------------------------
(* Bounds for Configuration: three bases, all overrides and zip groups     *)
(* that can be put together from a few values for three fields, and sweeps *)
(* of two parameters.                                                      *)
EXTENDS Configuration

S(word) == Scalar(<<word>>)
Model(path) == Dict([path |-> path, container |-> S("sqsh")])
None == << >>

(* Each field is left out or has one of its values.                        *)
Fields(values) ==
    UNION {{[k \in keys |-> f[k]] : f \in {g \in [keys -> UNION {values[k] : k \in keys}] :
                                             \A k \in keys : g[k] \in values[k]}} :
           keys \in SUBSET DOMAIN values}

Bases == {[name |-> S("job"), model |-> Model(S("r1")), opt |-> S("v")],
          [name |-> S("job"), model |-> Model(S("r1")), opt |-> Null],
          [model |-> Model(S("/r1")), opt |-> Dict([x |-> S("v"), y |-> S("v")])]}

OverrideDicts == Fields(
    [name |-> {S("own")},
     model |-> {Null, Dict([path |-> S("/r2")]), Dict([path |-> Null])},
     opt |-> {Null, S("w"), List(<<S("w"), S("v")>>), Dict([x |-> Null, z |-> Null]),
              Dict([x |-> S("w")])}])

ZipDicts == Fields(
    [name |-> {S("own"), List(<<S("n0"), S("n1")>>)},
     model |-> {Dict([path |-> List(<<S("/r2"), S("r1")>>)]), Dict([path |-> List(<<S("/r2")>>)])},
     opt |-> {Null, List(<<S("w"), Null>>), List(<<S("w"), S("v"), S("w")>>), List(<< >>),
              Dict([x |-> List(<<List(<<S("v")>>), S("w")>>), y |-> S("w")]),
              Dict([x |-> List(<<Null, S("w")>>)])}])

AnOverride == [model |-> Dict([path |-> S("/r2")]), opt |-> Null]

OverrideFiles ==
    {[base |-> b, overrides |-> <<"x">> :> o, zips |-> None] : b \in Bases, o \in OverrideDicts}
    \cup {[base |-> b, overrides |-> <<"base">> :> AnOverride, zips |-> None] : b \in Bases}
    \cup {[base |-> b, overrides |-> o, zips |-> <<"g">> :> z] :
             b \in Bases, z \in ZipDicts,
             o \in {None, <<"x">> :> AnOverride, <<"g", "0">> :> AnOverride}}

Parameter(key, values) == [key |-> key, placeholder |-> "{" \o key \o "}", values |-> values]

SweepFiles ==
    {[config |-> [name |-> S("job"), model |-> Model(path), swept |-> List(t)], sweep |-> p] :
        path \in {S("r1"), S("{a}"), S("/r1")},
        t \in {<<S("{a}"), S("{b}")>>, <<Scalar(<<"{a}", "-", "{b}">>), Scalar(<<"{b}", "{a}">>)>>},
        p \in {<<Parameter("a", <<S("r1"), S("/r2")>>), Parameter("b", <<S("1"), S("2"), S("3")>>)>>,
               <<Parameter("b", <<List(<<S("1"), S("2")>>), S("3")>>), Parameter("a", <<S("r1")>>)>>}}

PlainFiles ==
    {[config |-> c] : c \in {[name |-> S("job"), model |-> Model(S("r1")), lock |-> S("hash")],
                             [name |-> S("job"), model |-> Model(S("r1")),
                              slurm |-> Dict([account |-> S("mine")])],
                             [name |-> S("job"), model |-> Dict([container |-> S("sqsh")])]}}

MCFiles == OverrideFiles \cup SweepFiles \cup PlainFiles

ACluster(model_paths, containers) ==
    [slurm |-> [account |-> S("theirs"), time_limit |-> S("1h")],
     model_paths |-> model_paths, containers |-> containers,
     reporting |-> [reporting |-> S("collector")]]

(* Without a cluster, with plain aliases, and with aliases of aliases.     *)
MCClusters == {NoCluster,
               ACluster(<<"r1">> :> S("/models/r1"), <<"sqsh">> :> S("/images/sglang")),
               ACluster(<<"r1">> :> S("r1b") @@ <<"r1b">> :> S("/models/r1b"),
                        <<"nginx">> :> S("/images/nginx"))}

MCSelectors == {All, Base, OneOverride(<<"x">>), OneZip(<<"g">>), OneOfZip(<<"g">>, 0),
                OneOfZip(<<"g">>, 1), Glob({<<"x">>}, {}), Glob({<<"x">>}, {<<"g">>})}
MCRequired == {<<"name">>, <<"model", "path">>, <<"model", "container">>}
MCOverrideOrder == <<<<"base">>, <<"g", "0">>, <<"x">>>>
MCZipOrder == <<<<"g">>>>
MCDigit == <<"0", "1", "2">>
MCNoCluster == [none |-> TRUE]
MCDefaultNginx == S("nginx")
=============================================================================

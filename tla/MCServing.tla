------------------------------ MODULE MCServing ------------------------------
(* Five small stacks: one prefill worker of two ranks and one decode worker*)
(* of a rank; an aggregated TRT-LLM worker behind nginx and two frontends; *)
(* two aggregated workers; the SGLang router; a data-parallel worker of    *)
(* two ranks.                                                              *)
EXTENDS Serving, TLC

CONSTANTS r1, r2, r3, f1, f2

MCRank == {r1, r2, r3}
MCFrontend == {f1, f2}

By3(a, b, c) == r1 :> a @@ r2 :> b @@ r3 :> c

MCStacks ==
    {[router |-> FALSE, dp |-> FALSE, ranks |-> {r1, r2, r3}, frontends |-> {f1},
      leader |-> By3(r1, r1, r3), mode |-> By3("prefill", "prefill", "decode"),
      component |-> By3("prefill", "prefill", "backend")],
     [router |-> FALSE, dp |-> FALSE, ranks |-> {r1}, frontends |-> {f1, f2},
      leader |-> By3(r1, r2, r3), mode |-> By3("agg", "agg", "agg"),
      component |-> By3("tensorrt_llm", "tensorrt_llm", "backend")],
     [router |-> FALSE, dp |-> FALSE, ranks |-> {r1, r2}, frontends |-> {f1},
      leader |-> By3(r1, r2, r3), mode |-> By3("agg", "agg", "agg"),
      component |-> By3("backend", "backend", "backend")],
     [router |-> TRUE, dp |-> FALSE, ranks |-> {r1, r3}, frontends |-> {f1},
      leader |-> By3(r1, r2, r3), mode |-> By3("prefill", "prefill", "decode"),
      component |-> By3("prefill", "prefill", "decode")],
     [router |-> FALSE, dp |-> TRUE, ranks |-> {r1, r2}, frontends |-> {f1},
      leader |-> By3(r1, r1, r3), mode |-> By3("agg", "agg", "agg"),
      component |-> By3("backend", "backend", "backend")]}
==============================================================================

------------------------------ MODULE MCResults ------------------------------
(* Two results and two dashboards, with one tag to set and to clear.       *)
EXTENDS Results, TLC

CONSTANTS c1, c2, d1, d2

MCConc == {c1, c2}
MCOrder == c1 :> 1 @@ c2 :> 2
MCReader == {d1, d2}

(* The records of srtctl apply name no concurrencies, and their results are*)
(* under logs/.                                                            *)
MCLayouts == {[place |-> "run", expected |-> MCConc], [place |-> "logs", expected |-> {}]}
Dashboards == Permutations(MCReader)
==============================================================================

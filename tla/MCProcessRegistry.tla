-------------------------- MODULE MCProcessRegistry --------------------------
(* The registry with two client threads that call anything at any time.    *)
(* Two of the three handles have the same name, so registering the second  *)
(* replaces the first.                                                     *)
EXTENDS ProcessRegistry, TLC

CONSTANTS p1, p2, p3, a, b
MCThread == {"main", "monitor"}
MCProc == {p1, p2, p3}
MCName == {a, b}
MCNameOf == p1 :> a @@ p2 :> a @@ p3 :> b
MCCritical == {p1, p2}
==============================================================================

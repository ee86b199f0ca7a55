----------------------------- MODULE MCDmsMissionSync -----------------------------
(* Two clients with an application each, or one with two. *)
EXTENDS DmsMissionSync, TLC
CONSTANTS c1, c2, a1, a2
TwoClients == a1 :> c1 @@ a2 :> c2
OneClient == a1 :> c1 @@ a2 :> c1
(* The two applications of one client are interchangeable. *)
Symmetric == Permutations({a1, a2})
=============================================================================

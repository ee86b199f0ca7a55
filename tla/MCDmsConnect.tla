----------------------------- MODULE MCDmsConnect -----------------------------
(* DmsConnect on a small instance: up to three connects, two processes, one uid. *)
EXTENDS DmsConnect, TLC

CONSTANTS c1, c2, c3, p1, p2, u1, t1, t2

SharedOwner == c1 :> p1 @@ c2 :> p1
OwnerOfThree == c1 :> p1 @@ c2 :> p2 @@ c3 :> p2
OwnerOfOne == c1 :> p1
UidDef   == p1 :> u1 @@ p2 :> u1

(* Threads are interchangeable; so are the two connects of p2. *)
Symmetric == {p @@ q : p \in Permutations({t1, t2}), q \in Permutations({c2, c3})}
=============================================================================

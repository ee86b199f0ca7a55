----------------------------- MODULE MCDmsWire -----------------------------
EXTENDS DmsWire
(* Every case that is out of the ordinary in at most two facts. *)
TwoOddFacts ==
    {c \in Cases \ {GoodCase} : Cardinality({f \in DOMAIN c : c[f] # GoodCase[f]}) <= 2}
=============================================================================

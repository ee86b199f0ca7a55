---------------------------- MODULE MCDmsFreeInstall ----------------------------
(* A small instance of DmsFreeInstall: a start and a continuation, each on its own device. *)
EXTENDS DmsFreeInstall

CONSTANTS t1, t2, d1, d2

RacesDeviceOf == [t \in Tasks |-> IF t = t1 THEN d1 ELSE d2]
=============================================================================

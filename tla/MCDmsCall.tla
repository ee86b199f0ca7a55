------------------------------- MODULE MCDmsCall -------------------------------
(* DmsCall on a small instance: devices, connects and threads from the configuration. *)
EXTENDS DmsCall
CONSTANTS c1, d1, d2, t1, t2
=============================================================================

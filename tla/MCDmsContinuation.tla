--------------------------- MODULE MCDmsContinuation ---------------------------
(***************************************************************************)
(* Small instances of DmsContinuation: requests r1 and r2 (and r3) for one *)
(* mission, on two devices, and bounds on what would grow without end.     *)
(***************************************************************************)
EXTENDS DmsContinuation

CONSTANTS r1, r2, r3, m1, d1, d2

RacesMissionOf == [r \in Requests |-> m1]
RacesDeviceOf == [r \in Requests |-> IF r = r2 THEN d2 ELSE d1]
=============================================================================

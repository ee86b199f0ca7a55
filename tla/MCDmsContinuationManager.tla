---------------------- MODULE MCDmsContinuationManager ----------------------
EXTENDS DmsContinuationManager, TLC
TwoApps == 1 .. 2
AnyThread == Permutations(Threads)
(* One application has registered both callbacks at first, the other has yet to register. *)
ReadyApps == [a \in TwoApps |-> IF a = 1 THEN CbTypes ELSE {}]
=============================================================================

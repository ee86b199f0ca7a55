---------------------------- MODULE MCDmsSnapshots ----------------------------
EXTENDS DmsSnapshots, TLC
TwoMissions == 1 .. 2
Budget(device, mission_, service, application) ==
    [k \in Kinds |-> CASE k = "device" -> device [] k = "mission" -> mission_
                       [] k = "service" -> service [] k = "application" -> application]
EachBudget == {Budget(1, 2, 0, 1), Budget(1, 1, 0, 2), Budget(5, 0, 0, 2), Budget(1, 1, 1, 1)}
SameNetIds == Permutations(NetIds)
=============================================================================

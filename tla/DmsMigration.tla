----------------------------- MODULE DmsMigration -----------------------------
(***************************************************************************)
(* What the source device promises about continuing missions elsewhere: a  *)
(* mission is continued for one request at a time, and a request that was  *)
(* taken on ends once, with one outcome.                                   *)
(***************************************************************************)
CONSTANTS
    Missions, Requests, None,
    MissionOf        \* the mission a request is for

VARIABLES
    current,         \* mission -> the request it is being continued for
    outcome          \* request -> how it ended

(* "dropped": nobody is told; the call that asked for it returns an error. *)
Outcomes == {"ok", "failed", "dropped"}

MigrationInit ==
    /\ current = [m \in Missions |-> None]
    /\ outcome = [r \in Requests |-> "none"]

(* A mission that is not being continued is taken on. *)
Begin(r) ==
    /\ current[MissionOf[r]] = None /\ outcome[r] = "none"
    /\ current' = [current EXCEPT ![MissionOf[r]] = r]
    /\ UNCHANGED outcome

(* The request a mission is being continued for ends. *)
End(m, result) ==
    /\ current[m] # None
    /\ outcome' = [outcome EXCEPT ![current[m]] = result]
    /\ current' = [current EXCEPT ![m] = None]

MigrationNext ==
    \/ \E r \in Requests : Begin(r)
    \/ \E m \in Missions, result \in Outcomes : End(m, result)

MigrationSpec == MigrationInit /\ [][MigrationNext]_<<current, outcome>>
=============================================================================

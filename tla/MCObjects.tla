----------------------------- MODULE MCObjects -----------------------------
(***************************************************************************)
(* What a node does to its monitored objects: a service processes its check *)
(* results, and downtimes are scheduled for a host and its child. The       *)
(* checkable sees a downtime as a flag and a downtime sees a problem as a   *)
(* call, so the initial state chooses the one that runs.                    *)
(***************************************************************************)
EXTENDS Checkable, MCDowntime

\* The names of downtimes are interchangeable.
NameSymmetry == Permutations(Names)

VARIABLE part

objectsVars == <<part, vars, downtimeVars>>

ObjectsInit == /\ part \in {"Checkable", "Downtime"}
               /\ Init /\ DowntimeInit

RunCheckable == /\ part = "Checkable" /\ Next
                /\ UNCHANGED <<part, downtimeVars>>

RunDowntime == /\ part = "Downtime" /\ DowntimeNext
               /\ UNCHANGED <<part, vars>>

ObjectsNext == RunCheckable \/ RunDowntime

ObjectsSpec == ObjectsInit /\ [][ObjectsNext]_objectsVars
=============================================================================

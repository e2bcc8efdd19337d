------------------------------ MODULE MCSystem ------------------------------
(***************************************************************************)
(* Parts of the system that share no state: the initial state chooses the   *)
(* one that runs. The cluster has two masters, two satellites below them    *)
(* and an agent below these; runtime objects are synchronised by a pair of  *)
(* nodes; a zone of two shares the authority over an object; Icinga DB       *)
(* writes a host and its dependency to Redis; and two files find their way  *)
(* from a config master over a satellite to an agent.                       *)
(***************************************************************************)
EXTENDS ClusterEvents, ConfigSync, ObjectAuthority, IcingaDB, FileSync, TLC

MCParent == ("master" :> NoZone) @@ ("satellite" :> "master") @@ ("agent" :> "satellite")
MCEndpoints == ("master" :> <<1, 2>>) @@ ("satellite" :> <<3, 4>>) @@ ("agent" :> <<5>>)

\* Downwards by one and by two zones, for a host of the agent's zone or of one above, to
\* the node itself, and upwards, which does not get there.
MCRequests == {<<2, "satellite", 5>>, <<2, "agent", 4>>, <<3, "satellite", 5>>,
               <<1, "master", 5>>, <<4, "satellite", 4>>, <<3, "satellite", 1>>}

\* The two nodes of ConfigSync are interchangeable.
ServerSymmetry == Permutations(Servers)

\* The deployments differ in one file and the other is in one of them only. The first file
\* of the larger one cannot be loaded without the second. Or zones.d is emptied.
MCDeployments == {<<1, 1>>, <<2, 0>>, <<0, 0>>}
MCLoadable == {<<0, 0>>, <<2, 0>>, <<1, 1>>}

\* Either the host is created several times, or once with a dependency that is.
OneIsRecreated ==
    hosts \in {0, MaxObjects - 1} /\ depGroups = IF hosts = 0 THEN MaxDependencies ELSE 0

VARIABLE part

vars == <<part, clusterVars, configVars, authorityVars, icingadbVars, fileSyncVars>>

Init == /\ part \in {"ClusterEvents", "ConfigSync", "ObjectAuthority", "IcingaDB", "FileSync"}
        /\ ClusterInit /\ ConfigInit /\ AuthorityInit /\ IcingaDBInit /\ FileSyncInit
        /\ part # "ClusterEvents" => links = {}
        /\ part # "IcingaDB" => hosts = 0
        /\ OneIsRecreated

RunCluster == /\ part = "ClusterEvents" /\ ClusterNext
              /\ UNCHANGED <<part, configVars, authorityVars, icingadbVars, fileSyncVars>>

RunConfigSync == /\ part = "ConfigSync" /\ ConfigNext
                 /\ UNCHANGED <<part, clusterVars, authorityVars, icingadbVars, fileSyncVars>>

RunAuthority == /\ part = "ObjectAuthority" /\ AuthorityNext
                /\ UNCHANGED <<part, clusterVars, configVars, icingadbVars, fileSyncVars>>

RunIcingaDB == /\ part = "IcingaDB" /\ IcingaDBNext
               /\ UNCHANGED <<part, clusterVars, configVars, authorityVars, fileSyncVars>>

RunFileSync == /\ part = "FileSync" /\ FileSyncNext
               /\ UNCHANGED <<part, clusterVars, configVars, authorityVars, icingadbVars>>

Next == RunCluster \/ RunConfigSync \/ RunAuthority \/ RunIcingaDB \/ RunFileSync

Spec == Init /\ [][Next]_vars
=============================================================================

-------------------------- MODULE ObjectAuthority --------------------------
(***************************************************************************)
(* Which node of a high-availability zone runs an object: ApiListener::     *)
(* UpdateObjectAuthority() (lib/remote/apilistener-authority.cpp) on every  *)
(* node of one zone. It is called by a timer, after a replay and when the   *)
(* hello of another node of the zone arrives, without a lock: each call     *)
(* looks at the connected endpoints and then sets the authority of the      *)
(* objects. Nodes stop and start again, possibly with a version that pins   *)
(* the objects of a host to the node of the host, and connections break.    *)
(***************************************************************************)
EXTENDS Naturals, FiniteSets

CONSTANTS Members,      \* the endpoints of the zone, in the order of their names
          HostHash,     \* SDBM() of the name of the object's host
          NameHash,     \* SDBM() of the full name of the object
          MaxChanges    \* bound: connections that change, nodes that stop

ASSUME AuthorityAssumption == /\ Members \subseteq Nat /\ Members # {} /\ IsFiniteSet(Members)
                              /\ HostHash \in Nat /\ NameHash \in Nat /\ MaxChanges \in Nat

\* Threads that call UpdateObjectAuthority(): the timer and a connection.
Callers == {"timer", "connection"}

VARIABLES alive,     \* nodes that run
          upgraded,  \* nodes whose version has HostChildrenInheritObjectAuthority
          up,        \* pairs of members between which a connection is possible
          clients,   \* node -> members it is connected to
          capable,   \* node -> members known to be upgraded
          inbox,     \* node -> what it still has to do for new connections:
                     \* <<member, "hello">> to receive, <<member, "replay">> to end
          warm,      \* nodes that started more than 30 seconds ago
          authority, \* node -> the object is not paused
          update,    \* node, caller -> the value it is about to set, or "idle"
          changes

authorityVars ==
    <<alive, upgraded, up, clients, capable, inbox, warm, authority, update, changes>>

Pairs == UNION {{{m, n} : n \in Members \ {m}} : m \in Members}

AuthorityInit ==
    /\ alive = {} /\ upgraded = {}
    /\ up = Pairs
    /\ clients = [n \in Members |-> {}]
    /\ capable = [n \in Members |-> {}]
    /\ inbox = [n \in Members |-> {}]
    /\ warm = {}
    /\ authority = [n \in Members |-> FALSE]
    /\ update = [n \in Members |-> [c \in Callers |-> "idle"]]
    /\ changes = 0
----------------------------------------------------------------------------
\* The endpoints vector, sorted by name: the k-th member, counting from 0.
Sorted(list, k) == CHOOSE m \in list : Cardinality({x \in list : x < m}) = k

\* Mutation of Computed: only the own version decides whether the host is hashed.
ComputedOwnVersion(n, known) ==
    LET list == {n} \cup clients[n]
        hash == IF n \in upgraded THEN HostHash ELSE NameHash
    IN Sorted(list, hash % Cardinality(list)) = n

\* The object's node: the hash of its name, or of its host's name if every connected
\* endpoint does so too, picks one of them.
Computed(n, known) ==
    LET list == {n} \cup clients[n]
        pinned == n \in upgraded /\ clients[n] \subseteq known
        hash == IF pinned THEN HostHash ELSE NameHash
    IN Sorted(list, hash % Cardinality(list)) = n

\* 30 seconds cold startup
Cold(n) == Members # {n} /\ clients[n] = {} /\ n \notin warm

\* What a call is about to set, decided from the endpoints it has seen.
Begin(n, c, known) ==
    IF Cold(n) THEN update
    ELSE [update EXCEPT ![n][c] = IF Computed(n, known) THEN "run" ELSE "pause"]

UpdateTimer(n) ==
    /\ n \in alive
    /\ update[n]["timer"] = "idle"
    /\ update' = Begin(n, "timer", capable[n])
    /\ UNCHANGED <<alive, upgraded, up, clients, capable, inbox, warm, authority, changes>>

\* ConfigObject::SetAuthority(), at the end of the call.
SetAuthority(n, c) ==
    /\ update[n][c] # "idle"
    /\ authority' = [authority EXCEPT ![n] = update[n][c] = "run"]
    /\ update' = [update EXCEPT ![n][c] = "idle"]
    /\ UNCHANGED <<alive, upgraded, up, clients, capable, inbox, warm, changes>>

HelloAPIHandler(n, m) ==
    /\ <<m, "hello">> \in inbox[n]
    /\ update[n]["connection"] = "idle"
    /\ inbox' = [inbox EXCEPT ![n] = @ \ {<<m, "hello">>}]
    /\ capable' = [capable EXCEPT ![n] = IF m \in upgraded THEN @ \cup {m} ELSE @ \ {m}]
    /\ update' = Begin(n, "connection", capable'[n])
    /\ UNCHANGED <<alive, upgraded, up, clients, warm, authority, changes>>

\* The end of SyncClient().
ReplayEnds(n, m) ==
    /\ <<m, "replay">> \in inbox[n]
    /\ update[n]["connection"] = "idle"
    /\ inbox' = [inbox EXCEPT ![n] = @ \ {<<m, "replay">>}]
    /\ update' = Begin(n, "connection", capable[n])
    /\ UNCHANGED <<alive, upgraded, up, clients, capable, warm, authority, changes>>

\* Endpoint::AddClient(); the other side says hello.
AddClient(n, m) ==
    /\ {n, m} \subseteq alive /\ {n, m} \in up
    /\ m \notin clients[n]
    /\ clients' = [clients EXCEPT ![n] = @ \cup {m}]
    /\ inbox' = [inbox EXCEPT ![n] = @ \cup {<<m, "hello">>, <<m, "replay">>}]
    /\ UNCHANGED <<alive, upgraded, up, capable, warm, authority, update, changes>>

\* Endpoint::RemoveClient(): the authority waits for the timer.
RemoveClient(n, m) ==
    /\ n \in alive /\ m \in clients[n]
    /\ m \notin alive \/ {n, m} \notin up
    /\ clients' = [clients EXCEPT ![n] = @ \ {m}]
    /\ inbox' = [inbox EXCEPT ![n] = {x \in @ : x[1] # m}]
    /\ UNCHANGED <<alive, upgraded, up, capable, warm, authority, update, changes>>

WarmUp(n) ==
    /\ n \in alive \ warm
    /\ warm' = warm \cup {n}
    /\ UNCHANGED <<alive, upgraded, up, clients, capable, inbox, authority, update, changes>>

\* A node starts, with its old or with a new version; all objects are paused until
\* the first call, at the end of the startup.
StartNode(n, version) ==
    /\ n \notin alive /\ \A m \in Members : n \notin clients[m]
    /\ version = "new" \/ n \notin upgraded
    /\ alive' = alive \cup {n}
    /\ upgraded' = IF version = "new" THEN upgraded \cup {n} ELSE upgraded
    /\ UNCHANGED <<up, clients, capable, inbox, warm, authority, update, changes>>

StopNode(n) ==
    /\ n \in alive /\ changes < MaxChanges
    /\ changes' = changes + 1
    /\ alive' = alive \ {n}
    /\ warm' = warm \ {n}
    /\ clients' = [clients EXCEPT ![n] = {}]
    /\ capable' = [capable EXCEPT ![n] = {}]
    /\ inbox' = [inbox EXCEPT ![n] = {}]
    /\ authority' = [authority EXCEPT ![n] = FALSE]
    /\ update' = [update EXCEPT ![n] = [c \in Callers |-> "idle"]]
    /\ UNCHANGED <<upgraded, up>>

NetworkChanges(pair) ==
    /\ alive # {} /\ changes < MaxChanges
    /\ changes' = changes + 1
    /\ up' = IF pair \in up THEN up \ {pair} ELSE up \cup {pair}
    /\ UNCHANGED <<alive, upgraded, clients, capable, inbox, warm, authority, update>>

AuthorityNext ==
    \/ \E n \in Members : UpdateTimer(n) \/ WarmUp(n) \/ StopNode(n)
    \/ \E n \in Members, c \in Callers : SetAuthority(n, c)
    \/ \E n, m \in Members : \/ HelloAPIHandler(n, m) \/ ReplayEnds(n, m)
                            \/ AddClient(n, m) \/ RemoveClient(n, m)
    \/ \E n \in Members, version \in {"old", "new"} : StartNode(n, version)
    \/ \E pair \in Pairs : NetworkChanges(pair)

AuthoritySpec == AuthorityInit /\ [][AuthorityNext]_authorityVars

AuthorityTypeOK ==
    /\ alive \subseteq Members /\ upgraded \subseteq Members /\ warm \subseteq alive
    /\ up \subseteq Pairs
    /\ \A n \in Members : \A m \in clients[n] : {n, m} \in Pairs
    /\ \A n \in Members : inbox[n] \subseteq clients[n] \X {"hello", "replay"}
    /\ authority \in [Members -> BOOLEAN]
    /\ update \in [Members -> [Callers -> {"idle", "run", "pause"}]]
    /\ changes \in 0..MaxChanges
----------------------------------------------------------------------------
\* Nothing is left to do: connections are what they can be, the cold startup is over,
\* and the timer has set what it would set again.
Settled == \A n \in alive :
    /\ clients[n] = {m \in alive : {n, m} \in up}
    /\ inbox[n] = {} /\ ~Cold(n)
    /\ update[n] = [c \in Callers |-> "idle"]
    /\ authority[n] = Computed(n, capable[n])

Together(n) == {m \in alive : m = n \/ {n, m} \in up}

\* However calls of UpdateObjectAuthority() overlapped and nodes came, went and changed
\* their version: once that is over, exactly one of the members that are connected runs
\* the object, although each decides it on its own.
OneRuns == Settled => \A n \in alive : Cardinality({m \in Together(n) : authority[m]}) = 1
=============================================================================

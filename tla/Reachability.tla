---------------------------- MODULE Reachability ----------------------------
(***************************************************************************)
(* Whether an object can be reached, and thus whether its checks are        *)
(* executed and its notifications sent: DependencyStateChecker              *)
(* (lib/icinga/dependency-state.cpp) and Dependency::IsAvailable, evaluated *)
(* while parents change their states and dependencies come and go.          *)
(*                                                                          *)
(* An evaluation is one step here, while no object is between two groups:   *)
(* it needs the mutex of every object whose groups it takes. (The code      *)
(* looks into a group after it gave up the mutex; should the object have    *)
(* left the group by then, it finds no dependencies in it.)                 *)
(***************************************************************************)
EXTENDS Dependency, TLC

CONSTANTS
    Results,        \* [Objects -> the states its check results bring it into]
    DisableChecks, DisableNotifications,
    MaxLevel        \* Dependency::MaxDependencyRecursionLevel

ASSUME ReachabilityAssumption ==
    /\ Results \in [Objects -> SUBSET {"Up", "SoftDown", "Down"}]
    /\ DisableChecks \cup DisableNotifications \subseteq Dependencies
    /\ MaxLevel \in Nat

VARIABLES
    objectState,    \* [Objects -> state and state type, "Pending" without a check result]
    inside          \* the time period is active

reachabilityVars == <<dependencyVars, objectState, inside>>

ObjectStates == {"Pending", "Up", "SoftDown", "Down"}
DependencyTypes == {"State", "CheckExecution", "Notification"}

ReachabilityInit ==
    /\ DependencyInit
    /\ objectState = [o \in Objects |-> "Pending"]
    /\ inside = TRUE

-----------------------------------------------------------------------------
IsAvailable(d, type) ==
    LET s == objectState[Parent[d]] IN
    \/ Parent[d] = Child[d]
    \/ s = "Pending"
    \/ d \in IgnoreSoft /\ s = "SoftDown"
    \/ (IF s = "Up" THEN "Up" ELSE "Down") \in ParentStates[d]
    \/ d \in HasPeriod /\ ~inside
    \/ type = "CheckExecution" /\ d \notin DisableChecks
    \/ type = "Notification" /\ d \notin DisableNotifications

\* The implicit dependency of a service on its host
HostFailed(o, type) ==
    /\ HostOf[o] # NoObject
    /\ type # "CheckExecution"
    /\ objectState[HostOf[o]] = "Down"

\* Mutation of GroupState: parents that cannot be reached count as well.
GroupStateAll(g, ds, reachable, type) ==
    LET available == {d \in ds : IsAvailable(d, type)}
    IN IF g[1] # NoGroup THEN available # {} ELSE available = ds

\* Whether the state of a group is Ok for a child with these dependencies in it
GroupState(g, ds, reachable, type) ==
    LET available == {d \in reachable : IsAvailable(d, type)}
    IN IF g[1] # NoGroup THEN available # {} ELSE reachable = ds /\ available = ds

GetDependencyGroups(o) == Range(groups[o])

\* IsReachable with m_Cache: the object counts as unreachable until it is known. Every
\* result comes with the cache it leaves behind. GroupsOk goes through groups until one
\* is not Ok, ReachableIn (GetState) through the parents of a group.
RECURSIVE IsReachable(_, _, _, _), GroupsOk(_, _, _, _, _), ReachableIn(_, _, _, _)

IsReachable(o, type, cache, level) ==
    IF o \in DOMAIN cache THEN [ok |-> cache[o], cache |-> cache]
    ELSE IF level > MaxLevel \/ HostFailed(o, type)
    THEN [ok |-> FALSE, cache |-> (o :> FALSE) @@ cache]
    ELSE LET r == GroupsOk(o, GetDependencyGroups(o), type, (o :> FALSE) @@ cache, level + 1)
         IN [ok |-> r.ok, cache |-> IF r.ok THEN (o :> TRUE) @@ r.cache ELSE r.cache]

GroupsOk(o, gs, type, cache, level) ==
    IF gs = {} THEN [ok |-> TRUE, cache |-> cache]
    ELSE LET g == CHOOSE h \in gs : TRUE
             ds == GetDependenciesForChild(registry, g, o)
             r == ReachableIn(ds, type, cache, level)
         IN IF GroupState(g, ds, r.reachable, type)
            THEN GroupsOk(o, gs \ {g}, type, r.cache, level)
            ELSE [ok |-> FALSE, cache |-> r.cache]

ReachableIn(ds, type, cache, level) ==
    IF ds = {} THEN [reachable |-> {}, cache |-> cache]
    ELSE LET d == CHOOSE e \in ds : TRUE
             r == IsReachable(Parent[d], type, cache, level)
             rest == ReachableIn(ds \ {d}, type, r.cache, level)
         IN [rest EXCEPT !.reachable = IF r.ok THEN @ \cup {d} ELSE @]

-----------------------------------------------------------------------------
\* A check result of a parent; the time period begins or ends.
StateChanges(o, s) ==
    /\ started = Objects
    /\ s # objectState[o]
    /\ objectState' = [objectState EXCEPT ![o] = s]
    /\ UNCHANGED <<dependencyVars, inside>>

PeriodChanges ==
    /\ started = Objects
    /\ HasPeriod # {}
    /\ inside' = ~inside
    /\ UNCHANGED <<dependencyVars, objectState>>

DependencyChanges == DependencyNext /\ UNCHANGED <<objectState, inside>>

ReachabilityNext ==
    \/ DependencyChanges
    \/ \E o \in Objects : \E s \in Results[o] : StateChanges(o, s)
    \/ PeriodChanges

ReachabilitySpec == ReachabilityInit /\ [][ReachabilityNext]_reachabilityVars

-----------------------------------------------------------------------------
\* Every variable has its type.
ReachabilityTypeOK ==
    /\ DependencyTypeOK
    /\ objectState \in [Objects -> ObjectStates]
    /\ inside \in BOOLEAN

\* What the documentation says of an object o, given what is reachable (f): the host of a
\* service is not down; of each redundancy group one parent is reachable and available,
\* and so are all the parents outside of such groups.
Serves(d, type, f) == f[Parent[d]] /\ IsAvailable(d, type)

ShouldBeReachable(o, type, f) ==
    LET ds == {d \in InGroups : Child[d] = o} IN
    /\ ~HostFailed(o, type)
    /\ \A d \in ds : IF GroupName[d] = NoGroup THEN Serves(d, type, f)
                     ELSE \E e \in ds : GroupName[e] = GroupName[d] /\ Serves(e, type, f)

\* In a graph without cycles there is one function that says so of all objects.
Reference(type) ==
    CHOOSE f \in [Objects -> BOOLEAN] : \A o \in Objects : f[o] <=> ShouldBeReachable(o, type, f)

\* An evaluation returns what the dependencies say for every object, although groups
\* are shared and change, and although it caches what it knows and counts what it does
\* not know yet as unreachable. Excused: requests whose cycle checks did not see each
\* other have closed a cycle.
ReachabilityRight ==
    \/ started # Objects
    \/ \E o \in Objects : InChange(o)
    \/ raced # {} /\ Cyclic(InGroups)
    \/ \A type \in DependencyTypes :
          LET f == Reference(type) IN \A o \in Objects :
             IsReachable(o, type, Empty, 0).ok <=> f[o]
=============================================================================

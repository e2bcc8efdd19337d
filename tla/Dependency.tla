----------------------------- MODULE Dependency -----------------------------
(***************************************************************************)
(* Dependencies between hosts and services (lib/icinga/dependency.cpp) and  *)
(* the groups they form: checkables that depend on the same parents in the  *)
(* same way share a group of a global registry (dependency-group.cpp,       *)
(* checkable-dependency.cpp).                                               *)
(*                                                                          *)
(* Groups are compared by their name and the composite keys of their        *)
(* members, neither of which ever changes, so that is what they are here.   *)
(* A dependency is created and deleted by one thread at a time. A           *)
(* checkable's m_DependencyMutex is held while its dependencies leave one   *)
(* group and enter another, the mutex of the registry only for each of the  *)
(* two steps.                                                               *)
(***************************************************************************)
EXTENDS Naturals, FiniteSets, Functions

CONSTANTS
    Objects,        \* hosts and services
    NoObject,
    HostOf,         \* [Objects -> Objects \cup {NoObject}], the host of a service
    Dependencies,
    Child, Parent,  \* [Dependencies -> Objects]
    ParentStates,    \* [Dependencies -> set of states], of the parent: "Up", "Down"
    IgnoreSoft,     \* dependencies with ignore_soft_states
    HasPeriod,      \* dependencies with a time period
    GroupName,      \* [Dependencies -> redundancy_group, or NoGroup]
    NoGroup,
    Configured,     \* dependencies that are part of the configuration
    MaxChanges      \* bound: dependencies that are created or deleted at a time

ASSUME DependencyAssumption ==
    /\ NoObject \notin Objects
    /\ HostOf \in [Objects -> Objects \cup {NoObject}]
    /\ {Child, Parent} \subseteq [Dependencies -> Objects]
    /\ ParentStates \in [Dependencies -> SUBSET {"Up", "Down"}]
    /\ IgnoreSoft \cup HasPeriod \subseteq Dependencies
    /\ DOMAIN GroupName = Dependencies
    /\ NoGroup \notin Objects /\ \A d \in Dependencies : GroupName[d] \notin Objects
    /\ Configured \subseteq Dependencies
    /\ MaxChanges \in Nat

VARIABLES
    life,           \* [Dependencies -> Lives]
    pending,        \* [Objects -> set of dependencies], m_PendingDependencies
    started,        \* the objects that have no m_PendingDependencies any more
    groups,         \* [Objects -> [some keys -> groups]], m_DependencyGroups
    registry,       \* [some groups -> set of dependencies], m_Registry
    taken,          \* [Objects -> set of dependencies] that are between two groups
    raced           \* dependencies whose cycle check could not see each other

dependencyVars == <<life, pending, started, groups, registry, taken, raced>>

\* An object is found free of cycles, then in m_ReverseDependencies of its parent, then
\* in a group. When it is deleted it leaves them in the same order.
Lives == {"none", "checked", "linked", "adding", "active", "unlinked", "removing"}

Empty == [x \in {} |-> x]

DependencyInit ==
    /\ life = [d \in Dependencies |-> IF d \in Configured THEN "active" ELSE "none"]
    /\ pending = [o \in Objects |-> {d \in Configured : Child[d] = o}]
    /\ started = {}
    /\ groups = [o \in Objects |-> Empty]
    /\ registry = Empty
    /\ taken = [o \in Objects |-> {}]
    /\ raced = {}

-----------------------------------------------------------------------------
(* Groups                                                                    *)

\* What a checkable finds the group of a dependency by
GetDependencyGroupKey(d) == IF GroupName[d] # NoGroup THEN GroupName[d] ELSE Parent[d]

MakeCompositeKeyFor(d) == <<Parent[d], d \in HasPeriod, ParentStates[d], d \in IgnoreSoft>>

Group(name, ds) == <<name, {MakeCompositeKeyFor(d) : d \in ds}>>

\* The registry after the group of these dependencies was inserted or merged.
Register(r, name, ds) ==
    LET g == Group(name, ds) IN
    [h \in DOMAIN r \cup {g} |-> (IF h \in DOMAIN r THEN r[h] ELSE {})
                                 \cup (IF h = g THEN ds ELSE {})]

GetDependenciesForChild(r, g, o) == {d \in r[g] : Child[d] = o}

Unregister(r, g, o) ==
    LET rest == r[g] \ GetDependenciesForChild(r, g, o)
    IN IF rest = {} THEN Restrict(r, DOMAIN r \ {g}) ELSE [r EXCEPT ![g] = rest]

\* PushDependencyGroupsToRegistry, when the object starts: one group per key.
PushDependencyGroupsToRegistry(o) ==
    LET keys == {GetDependencyGroupKey(d) : d \in pending[o]}
        Of(k) == {d \in pending[o] : GetDependencyGroupKey(d) = k}
        GroupOf(k) == Group(GroupName[CHOOSE d \in Of(k) : TRUE], Of(k))
        new == {GroupOf(k) : k \in keys}
    IN /\ o \notin started
       /\ started' = started \cup {o}
       /\ groups' = [groups EXCEPT ![o] = [k \in keys |-> GroupOf(k)]]
       /\ registry' = [g \in DOMAIN registry \cup new |->
                          (IF g \in DOMAIN registry THEN registry[g] ELSE {})
                          \cup UNION {Of(k) : k \in {l \in keys : GroupOf(l) = g}}]
       /\ pending' = [pending EXCEPT ![o] = {}]
       /\ UNCHANGED <<life, taken, raced>>

-----------------------------------------------------------------------------
(* Creation: CommitNewItems calls BeforeOnAllConfigLoadedHandler and then     *)
(* OnAllConfigLoaded, with nothing that keeps other requests away in between. *)

\* The mutex of the object is held.
InChange(o) == \E d \in Dependencies : Child[d] = o /\ life[d] \in {"adding", "removing"}

\* GetDependencies: what is in the groups of the objects
InGroups == {d \in Dependencies : life[d] \in {"active", "unlinked"}}

\* The parents of an object that the cycle checker follows
ParentsIn(ds, o) == {Parent[d] : d \in {e \in ds : Child[e] = o}}
                    \cup (IF HostOf[o] = NoObject THEN {} ELSE {HostOf[o]})

\* Some objects depend on each other in a circle: each of them on another of them.
Cyclic(ds) ==
    \E os \in SUBSET Objects \ {{}} : \A o \in os : ParentsIn(ds, o) \cap os # {}

AssertNoCycle(d) == ~Cyclic(InGroups \cup {d})

UnderWay == {d \in Dependencies : life[d] \notin {"none", "active"}}

\* A dependency that would close a cycle is refused. The ones of other requests that
\* passed but are in no group yet are not seen.
BeforeOnAllConfigLoadedHandler(d) ==
    LET unseen == {e \in Dependencies : life[e] \in {"checked", "linked"}} IN
    /\ started = Objects
    /\ life[d] = "none"
    /\ Cardinality(UnderWay) < MaxChanges
    /\ \A o \in Objects : ~InChange(o)
    /\ AssertNoCycle(d)
    /\ life' = [life EXCEPT ![d] = "checked"]
    /\ raced' = IF unseen = {} THEN raced ELSE raced \cup unseen \cup {d}
    /\ UNCHANGED <<pending, started, groups, registry, taken>>

AddReverseDependency(d) ==
    /\ life[d] = "checked"
    /\ life' = [life EXCEPT ![d] = "linked"]
    /\ UNCHANGED <<pending, started, groups, registry, taken, raced>>

\* The dependencies of the object with the same key leave their group ...
LeaveGroup(d) ==
    LET o == Child[d]
        k == GetDependencyGroupKey(d)
    IN IF k \in DOMAIN groups[o]
       THEN /\ taken' = [taken EXCEPT ![o] =
                            GetDependenciesForChild(registry, groups[o][k], o)]
            /\ registry' = Unregister(registry, groups[o][k], o)
            /\ groups' = [groups EXCEPT ![o] = Restrict(@, DOMAIN @ \ {k})]
       ELSE UNCHANGED <<taken, registry, groups>>

\* ... and with or without this one they enter another, or the same again.
EnterGroup(d, ds) ==
    LET o == Child[d] IN
    /\ IF ds = {} THEN UNCHANGED <<registry, groups>>
       ELSE /\ registry' = Register(registry, GroupName[d], ds)
            /\ groups' = [groups EXCEPT ![o] =
                             [k \in DOMAIN @ \cup {GetDependencyGroupKey(d)} |->
                                IF k = GetDependencyGroupKey(d) THEN Group(GroupName[d], ds)
                                                                ELSE @[k]]]
    /\ taken' = [taken EXCEPT ![o] = {}]

\* Checkable::AddDependency, its two steps
AddUnregister(d) ==
    /\ life[d] = "linked"
    /\ ~InChange(Child[d])
    /\ LeaveGroup(d)
    /\ life' = [life EXCEPT ![d] = "adding"]
    /\ UNCHANGED <<pending, started, raced>>

\* Mutation of AddRegister: the others of the group are forgotten.
AddRegisterAlone(d) ==
    /\ life[d] = "adding"
    /\ EnterGroup(d, {d})
    /\ life' = [life EXCEPT ![d] = "active"]
    /\ UNCHANGED <<pending, started, raced>>

AddRegister(d) ==
    /\ life[d] = "adding"
    /\ EnterGroup(d, taken[Child[d]] \cup {d})
    /\ life' = [life EXCEPT ![d] = "active"]
    /\ UNCHANGED <<pending, started, raced>>

-----------------------------------------------------------------------------
(* Deletion: Dependency::Stop                                                *)

RemoveReverseDependency(d) ==
    /\ started = Objects
    /\ life[d] = "active"
    /\ Cardinality(UnderWay) < MaxChanges
    /\ life' = [life EXCEPT ![d] = "unlinked"]
    /\ UNCHANGED <<pending, started, groups, registry, taken, raced>>

\* Checkable::RemoveDependency, its two steps
RemoveUnregister(d) ==
    /\ life[d] = "unlinked"
    /\ ~InChange(Child[d])
    /\ LeaveGroup(d)
    /\ life' = [life EXCEPT ![d] = "removing"]
    /\ UNCHANGED <<pending, started, raced>>

RemoveRegister(d) ==
    /\ life[d] = "removing"
    /\ EnterGroup(d, taken[Child[d]] \ {d})
    /\ life' = [life EXCEPT ![d] = "none"]
    /\ raced' = raced \ {d}
    /\ UNCHANGED <<pending, started>>

DependencyNext ==
    \/ \E o \in Objects : PushDependencyGroupsToRegistry(o)
    \/ \E d \in Dependencies :
          \/ BeforeOnAllConfigLoadedHandler(d) \/ AddReverseDependency(d)
          \/ AddUnregister(d) \/ AddRegister(d)
          \/ RemoveReverseDependency(d) \/ RemoveUnregister(d) \/ RemoveRegister(d)

DependencySpec == DependencyInit /\ [][DependencyNext]_dependencyVars

-----------------------------------------------------------------------------
\* Every variable has its type.
DependencyTypeOK ==
    /\ life \in [Dependencies -> Lives]
    /\ pending \in [Objects -> SUBSET Dependencies]
    /\ started \subseteq Objects
    /\ DOMAIN groups = Objects
    /\ \A g \in DOMAIN registry : registry[g] \subseteq Dependencies
    /\ taken \in [Objects -> SUBSET Dependencies]
    /\ raced \subseteq Dependencies

\* However the dependencies of several children enter, leave, split and share groups at
\* the same time: the groups an object refers to are in the registry and hold exactly its
\* dependencies with their key; all children of a group depend on all of its parents in
\* the same way, and no group is left without children.
GroupsMatch ==
    /\ \A o \in started : ~InChange(o) =>
          /\ DOMAIN groups[o] = {GetDependencyGroupKey(d) : d \in {e \in InGroups : Child[e] = o}}
          /\ \A k \in DOMAIN groups[o] :
                /\ groups[o][k] \in DOMAIN registry
                /\ GetDependenciesForChild(registry, groups[o][k], o)
                      = {d \in InGroups : Child[d] = o /\ GetDependencyGroupKey(d) = k}
    /\ \A g \in DOMAIN registry :
          /\ registry[g] # {}
          /\ \A d \in registry[g] :
                g = Group(GroupName[d], GetDependenciesForChild(registry, g, Child[d]))
=============================================================================

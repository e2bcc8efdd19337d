---------------------------- MODULE FilterProofs ----------------------------
(***************************************************************************)
(* What decides whether and when users are told, proved for any             *)
(* configuration: the registry of dependency groups and the objects agree   *)
(* (Dependency), flapping begins and ends as documented (Flapping), users   *)
(* know what the notification object is meant to tell them (Notification),  *)
(* and now is inside a time period if the configuration says so             *)
(* (TimePeriod).                                                            *)
(***************************************************************************)
EXTENDS Dependency, Flapping, Notification, TimePeriod, Integers,
        SequenceTheorems, WellFoundedInduction, TLAPS

-----------------------------------------------------------------------------
(* Dependency. The invariant speaks of pairs of an object and a key. A pair  *)
(* is in change while a dependency with that key is between two groups; of   *)
(* all other pairs the group is known from the life of the dependencies.     *)

Key(d) == GetDependencyGroupKey(d)
Keys == {Key(d) : d \in Dependencies}

\* The dependencies of an object with a key that are in its groups, or are on their way
\* from one to another
Mine(o, k) == {d \in InGroups : Child[d] = o /\ Key(d) = k}

Changing(d) == life[d] \in {"adding", "removing"}
PairChanging(o, k) == \E d \in Dependencies : Changing(d) /\ Child[d] = o /\ Key(d) = k

\* The dependency is in the group.
In(r, g, d) == g \in DOMAIN r /\ d \in r[g]

\* Objects start with what the configuration has for them, before anything changes.
StartOK ==
    /\ started # Objects => \A d \in Dependencies : life[d] \in {"none", "active"}
    /\ \A o \in Objects \ started : /\ pending[o] = {d \in InGroups : Child[d] = o}
                                    /\ DOMAIN groups[o] = {}

\* The mutex of an object lets one dependency change at a time, which holds the others of
\* its group.
ChangesOK ==
    /\ \A d, e \in Dependencies : Changing(d) /\ Changing(e) /\ Child[d] = Child[e] => d = e
    /\ \A d \in Dependencies : Changing(d) =>
          /\ life[d] = "adding" => taken[Child[d]] = Mine(Child[d], Key(d))
          /\ life[d] = "removing" => taken[Child[d]] \ {d} = Mine(Child[d], Key(d))
    /\ \A o \in Objects : ~InChange(o) => taken[o] = {}

\* An object has a group for each of its keys that is not in change.
GroupsOK ==
    \A o \in started :
        /\ DOMAIN groups[o] = {k \in Keys : Mine(o, k) # {} /\ ~PairChanging(o, k)}
        /\ \A d \in InGroups : Child[d] = o /\ ~PairChanging(o, Key(d)) =>
              groups[o][Key(d)] = Group(GroupName[d], Mine(o, Key(d)))

\* The registry has what the objects refer to, and nothing else.
RegistryOK ==
    /\ \A g \in DOMAIN registry :
          /\ registry[g] # {}
          /\ \A d \in registry[g] :
                /\ d \in InGroups /\ Child[d] \in started /\ ~PairChanging(Child[d], Key(d))
                /\ groups[Child[d]][Key(d)] = g
    /\ \A d \in InGroups : Child[d] \in started /\ ~PairChanging(Child[d], Key(d)) =>
          In(registry, groups[Child[d]][Key(d)], d)

IInv == DependencyTypeOK /\ StartOK /\ ChangesOK /\ GroupsOK /\ RegistryOK

-----------------------------------------------------------------------------
(* Keys and groups                                                           *)

\* What has the same key has the same redundancy group, or none.
LEMMA SameKey ==
    ASSUME NEW d \in Dependencies, NEW e \in Dependencies, Key(d) = Key(e)
    PROVE  GroupName[d] = GroupName[e]
<1>1. Parent[d] \in Objects /\ Parent[e] \in Objects
  BY DependencyAssumption
<1> QED
  BY <1>1, DependencyAssumption DEF Key, GetDependencyGroupKey

\* The dependencies of an object with different keys make different groups.
LEMMA GroupsDiffer ==
    ASSUME NEW o, NEW d \in InGroups, NEW e \in InGroups, Child[d] = o, Child[e] = o,
           Group(GroupName[d], Mine(o, Key(d))) = Group(GroupName[e], Mine(o, Key(e)))
    PROVE  Key(d) = Key(e)
<1>1. /\ d \in Dependencies /\ e \in Dependencies
      /\ GroupName[d] = GroupName[e]
      /\ {MakeCompositeKeyFor(f) : f \in Mine(o, Key(d))} = {MakeCompositeKeyFor(f) : f \in Mine(o, Key(e))}
  BY DEF Group, InGroups
<1>2. CASE GroupName[d] # NoGroup
  BY <1>1, <1>2 DEF Key, GetDependencyGroupKey
<1>3. CASE GroupName[d] = NoGroup
  <2>1. d \in Mine(o, Key(d))
    BY DEF Mine
  <2>2. PICK f \in Mine(o, Key(e)) : MakeCompositeKeyFor(f) = MakeCompositeKeyFor(d)
    BY <1>1, <2>1
  <2>3. Parent[f] = Parent[d] /\ f \in Dependencies /\ Key(f) = Key(e)
    BY <2>2 DEF MakeCompositeKeyFor, Mine, InGroups
  <2>4. GroupName[f] = NoGroup
    BY <1>1, <1>3, <2>3, SameKey
  <2> QED
    BY <1>3, <2>3, <2>4 DEF Key, GetDependencyGroupKey
<1> QED
  BY <1>2, <1>3

\* The group of a pair holds the dependencies of the pair, and no other of the object.
LEMMA GroupMembers ==
    ASSUME IInv, NEW o \in started, NEW k \in DOMAIN groups[o]
    PROVE  /\ groups[o][k] \in DOMAIN registry
           /\ GetDependenciesForChild(registry, groups[o][k], o) = Mine(o, k)
           /\ \A d \in Mine(o, k) : groups[o][k] = Group(GroupName[d], Mine(o, k))
           /\ Mine(o, k) # {} /\ ~PairChanging(o, k)
<1>1. k \in Keys /\ Mine(o, k) # {} /\ ~PairChanging(o, k)
  BY DEF IInv, GroupsOK
<1>2. ASSUME NEW d \in Mine(o, k)
      PROVE  /\ groups[o][k] = Group(GroupName[d], Mine(o, k)) /\ In(registry, groups[o][k], d)
             /\ Child[d] = o
  <2>1. d \in InGroups /\ Child[d] = o /\ Key(d) = k
    BY DEF Mine
  <2> QED
    BY <1>1, <2>1 DEF IInv, GroupsOK, RegistryOK
<1>3. groups[o][k] \in DOMAIN registry
  BY <1>1, <1>2 DEF In
<1>4. ASSUME NEW d \in registry[groups[o][k]], Child[d] = o PROVE d \in Mine(o, k)
  <2>1. /\ d \in InGroups /\ ~PairChanging(o, Key(d)) /\ groups[o][Key(d)] = groups[o][k]
    BY <1>3, <1>4 DEF IInv, RegistryOK
  <2>2. groups[o][Key(d)] = Group(GroupName[d], Mine(o, Key(d)))
    BY <1>4, <2>1 DEF IInv, GroupsOK
  <2>3. PICK e \in Mine(o, k) : TRUE
    BY <1>1
  <2>4. e \in InGroups /\ Child[e] = o /\ Key(e) = k
    BY <2>3 DEF Mine
  <2>5. Key(d) = Key(e)
    BY <1>2, <1>4, <2>1, <2>2, <2>3, <2>4, GroupsDiffer
  <2> QED
    BY <1>4, <2>1, <2>4, <2>5 DEF Mine
<1>5. GetDependenciesForChild(registry, groups[o][k], o) = Mine(o, k)
  BY <1>2, <1>4 DEF GetDependenciesForChild, In
<1> QED
  BY <1>1, <1>2, <1>3, <1>5

-----------------------------------------------------------------------------
(* The two halves of a change                                                *)

\* The dependencies of a pair leave their group: none of them is in the registry any more,
\* all others are where they were.
LEMMA Left ==
    ASSUME IInv, NEW d \in Dependencies, Child[d] \in started, ~InChange(Child[d]), LeaveGroup(d)
    PROVE  /\ taken' = [taken EXCEPT ![Child[d]] = Mine(Child[d], Key(d))]
           /\ \A g \in DOMAIN registry' : registry'[g] # {}
           /\ \A g, e : In(registry', g, e)
                           <=> In(registry, g, e) /\ ~(Child[e] = Child[d] /\ Key(e) = Key(d))
           /\ DOMAIN groups' = Objects /\ \A x \in Objects \ {Child[d]} : groups'[x] = groups[x]
           /\ DOMAIN groups'[Child[d]] = DOMAIN groups[Child[d]] \ {Key(d)}
           /\ \A l \in DOMAIN groups'[Child[d]] : groups'[Child[d]][l] = groups[Child[d]][l]
<1>1. PICK o, k : o = Child[d] /\ k = Key(d)
  OBVIOUS
<1>2. /\ o \in Objects /\ o \in started /\ ~PairChanging(o, k) /\ k \in Keys
      /\ DOMAIN groups = Objects /\ taken \in [Objects -> SUBSET Dependencies]
      /\ taken[o] = {}
  BY <1>1 DEF IInv, DependencyTypeOK, ChangesOK, InChange, PairChanging, Changing, Keys
<1>3. ASSUME NEW g, NEW e, In(registry, g, e), Child[e] = o
      PROVE  k \in DOMAIN groups[o] /\ Key(e) = k => g = groups[o][k] /\ e \in Mine(o, k)
  BY <1>3 DEF In, IInv, RegistryOK, Mine
<1>4. CASE k \in DOMAIN groups[o]
  <2>1. PICK g : g = groups[o][k]
    OBVIOUS
  <2>2. /\ g \in DOMAIN registry /\ GetDependenciesForChild(registry, g, o) = Mine(o, k)
    BY <1>2, <1>4, <2>1, GroupMembers
  <2>3. /\ taken' = [taken EXCEPT ![o] = Mine(o, k)]
        /\ registry' = Unregister(registry, g, o)
        /\ groups' = [groups EXCEPT ![o] = Restrict(@, DOMAIN @ \ {k})]
    BY <1>1, <1>4, <2>1, <2>2 DEF LeaveGroup, Key
  <2>4. PICK rest : rest = registry[g] \ Mine(o, k)
    OBVIOUS
  <2>5. /\ DOMAIN registry' = IF rest = {} THEN DOMAIN registry \ {g} ELSE DOMAIN registry
        /\ \A h \in DOMAIN registry' : registry'[h] = IF h = g THEN rest ELSE registry[h]
    BY <2>2, <2>3, <2>4 DEF Unregister, Restrict
  <2>6. \A h \in DOMAIN registry' : registry'[h] # {}
    BY <2>5 DEF IInv, RegistryOK
  <2>7. ASSUME NEW h, NEW e
        PROVE  In(registry', h, e) <=> In(registry, h, e) /\ ~(Child[e] = o /\ Key(e) = k)
    <3>1. e \in Mine(o, k) => Child[e] = o /\ Key(e) = k
      BY DEF Mine
    <3>2. In(registry, h, e) /\ Child[e] = o /\ Key(e) = k => h = g /\ e \in Mine(o, k)
      BY <1>3, <1>4, <2>1
    <3>3. In(registry', h, e) <=> In(registry, h, e) /\ ~(h = g /\ e \in Mine(o, k))
      BY <2>2, <2>4, <2>5 DEF In
    <3> QED
      BY <3>1, <3>2, <3>3
  <2>8. /\ DOMAIN groups' = Objects /\ \A x \in Objects \ {o} : groups'[x] = groups[x]
        /\ DOMAIN groups'[o] = DOMAIN groups[o] \ {k}
        /\ \A l \in DOMAIN groups'[o] : groups'[o][l] = groups[o][l]
    BY <1>2, <2>3 DEF Restrict
  <2> QED
    BY <1>1, <2>3, <2>6, <2>7, <2>8
<1>5. CASE k \notin DOMAIN groups[o]
  <2>1. UNCHANGED <<taken, registry, groups>>
    BY <1>1, <1>5 DEF LeaveGroup, Key
  <2>2. Mine(o, k) = {}
    BY <1>2, <1>5 DEF IInv, GroupsOK
  <2>3. taken' = [taken EXCEPT ![o] = Mine(o, k)]
    BY <1>2, <2>1, <2>2
  <2>4. \A g, e : In(registry, g, e) => ~(Child[e] = o /\ Key(e) = k)
    BY <2>2 DEF In, IInv, RegistryOK, Mine
  <2>5. \A g \in DOMAIN registry : registry[g] # {}
    BY DEF IInv, RegistryOK
  <2> QED
    BY <1>1, <1>2, <1>5, <2>1, <2>3, <2>4, <2>5
<1> QED
  BY <1>4, <1>5

\* The dependencies of a pair enter their group.
LEMMA Entered ==
    ASSUME IInv, NEW d \in Dependencies, NEW ds \in SUBSET Dependencies, EnterGroup(d, ds)
    PROVE  /\ taken' = [taken EXCEPT ![Child[d]] = {}]
           /\ \A g \in DOMAIN registry' : registry'[g] # {}
           /\ \A g, e : In(registry', g, e)
                           <=> In(registry, g, e) \/ (g = Group(GroupName[d], ds) /\ e \in ds)
           /\ DOMAIN groups' = Objects /\ \A x \in Objects \ {Child[d]} : groups'[x] = groups[x]
           /\ DOMAIN groups'[Child[d]] = DOMAIN groups[Child[d]] \cup (IF ds = {} THEN {} ELSE {Key(d)})
           /\ \A l \in DOMAIN groups[Child[d]] \ {Key(d)} : groups'[Child[d]][l] = groups[Child[d]][l]
           /\ ds # {} => groups'[Child[d]][Key(d)] = Group(GroupName[d], ds)
<1>1. PICK o, k : o = Child[d] /\ k = Key(d)
  OBVIOUS
<1>2. o \in Objects /\ DOMAIN groups = Objects /\ \A g \in DOMAIN registry : registry[g] # {}
  BY <1>1, DependencyAssumption DEF IInv, DependencyTypeOK, RegistryOK
<1>3. taken' = [taken EXCEPT ![o] = {}]
  BY <1>1 DEF EnterGroup
<1>4. CASE ds = {}
  BY <1>1, <1>2, <1>3, <1>4 DEF EnterGroup
<1>5. CASE ds # {}
  <2>1. PICK g : g = Group(GroupName[d], ds)
    OBVIOUS
  <2>2. registry' = Register(registry, GroupName[d], ds)
    BY <1>5 DEF EnterGroup
  <2>3. groups' = [groups EXCEPT ![o] = [l \in DOMAIN groups[o] \cup {k} |-> IF l = k THEN g ELSE groups[o][l]]]
    BY <1>1, <1>5, <2>1 DEF EnterGroup, Key
  <2>4. /\ DOMAIN registry' = DOMAIN registry \cup {g}
        /\ \A h \in DOMAIN registry' : registry'[h] = (IF h \in DOMAIN registry THEN registry[h] ELSE {})
                                                      \cup (IF h = g THEN ds ELSE {})
    BY <2>1, <2>2 DEF Register
  <2>5. \A h \in DOMAIN registry' : registry'[h] # {}
    BY <1>2, <1>5, <2>4
  <2>6. \A h, e : In(registry', h, e) <=> In(registry, h, e) \/ (h = g /\ e \in ds)
    BY <2>4 DEF In
  <2>7. /\ DOMAIN groups' = Objects /\ \A x \in Objects \ {o} : groups'[x] = groups[x]
        /\ DOMAIN groups'[o] = DOMAIN groups[o] \cup {k}
        /\ \A l \in DOMAIN groups[o] \ {k} : groups'[o][l] = groups[o][l]
        /\ groups'[o][k] = g
    BY <1>2, <2>3
  <2> QED
    BY <1>1, <1>3, <1>5, <2>1, <2>5, <2>6, <2>7
<1> QED
  BY <1>4, <1>5

-----------------------------------------------------------------------------
(* The steps                                                                 *)

\* At first no object has started and no dependency is being created or deleted.
LEMMA Initially == DependencyInit => IInv
<1> SUFFICES ASSUME DependencyInit PROVE IInv
  OBVIOUS
<1>1. \A d \in Dependencies : life[d] = (IF d \in Configured THEN "active" ELSE "none")
  BY DEF DependencyInit
<1>2. InGroups = Configured
  BY <1>1, DependencyAssumption DEF InGroups
<1>3. \A d \in Dependencies : ~Changing(d)
  BY <1>1 DEF Changing
<1>4. DOMAIN registry = {} /\ started = {}
  BY DEF DependencyInit, Empty
<1>5. DependencyTypeOK
  BY <1>4, DependencyAssumption DEF DependencyInit, DependencyTypeOK, Lives
<1>6. StartOK
  <2>1. \A o \in Objects : DOMAIN groups[o] = {}
    BY DEF DependencyInit, Empty
  <2>2. \A o \in Objects : pending[o] = {d \in InGroups : Child[d] = o}
    BY <1>2 DEF DependencyInit
  <2> QED
    BY <1>1, <2>1, <2>2 DEF StartOK
<1>7. ChangesOK
  BY <1>3 DEF ChangesOK, DependencyInit
<1>8. GroupsOK
  BY <1>4 DEF GroupsOK
<1>9. RegistryOK
  BY <1>4 DEF RegistryOK
<1> QED
  BY <1>5, <1>6, <1>7, <1>8, <1>9 DEF IInv

\* Steps of a dependency that concern the cycle check and the parent only
LEMMA QuietStep ==
    ASSUME IInv, NEW d \in Dependencies, NEW v \in {"checked", "linked", "unlinked"},
           \/ life[d] \in {"none", "checked"} /\ v \in {"checked", "linked"}
           \/ life[d] = "active" /\ v = "unlinked",
           started = Objects, life' = [life EXCEPT ![d] = v], raced' \subseteq Dependencies,
           UNCHANGED <<pending, started, groups, registry, taken>>
    PROVE  IInv'
<1>1. life \in [Dependencies -> Lives]
  BY DEF IInv, DependencyTypeOK
<1>2. \A e \in Dependencies : life'[e] = IF e = d THEN v ELSE life[e]
  BY <1>1
<1>3. InGroups' = InGroups
  BY <1>2 DEF InGroups
<1>4. \A e \in Dependencies : /\ life'[e] = "adding" <=> life[e] = "adding"
                              /\ life'[e] = "removing" <=> life[e] = "removing"
  BY <1>2
<1>5. \A e \in Dependencies : Changing(e)' <=> Changing(e)
  BY <1>4 DEF Changing
<1>6. \A o, k : Mine(o, k)' = Mine(o, k)
  BY <1>3 DEF Mine
<1>7. \A o, k : PairChanging(o, k)' <=> PairChanging(o, k)
  BY <1>5 DEF PairChanging
<1>8. \A o : InChange(o)' <=> InChange(o)
  BY <1>4 DEF InChange
<1>9. DependencyTypeOK'
  BY <1>1 DEF IInv, DependencyTypeOK, Lives
<1>10. StartOK'
  BY DEF StartOK
<1>11. ChangesOK'
  BY <1>4, <1>5, <1>6, <1>8 DEF IInv, ChangesOK
<1>12. GroupsOK'
  BY <1>3, <1>6, <1>7 DEF IInv, GroupsOK
<1>13. RegistryOK'
  BY <1>3, <1>7 DEF IInv, RegistryOK, In
<1> QED
  BY <1>9, <1>10, <1>11, <1>12, <1>13 DEF IInv

\* The first half of a change: the pair is in change, all others keep their group.
LEMMA LeaveStep ==
    ASSUME IInv, NEW d \in Dependencies, NEW v,
           \/ life[d] = "linked" /\ v = "adding"
           \/ life[d] = "unlinked" /\ v = "removing",
           ~InChange(Child[d]), LeaveGroup(d), life' = [life EXCEPT ![d] = v],
           UNCHANGED <<pending, started, raced>>
    PROVE  IInv'
<1>1. PICK o, k : o = Child[d] /\ k = Key(d)
  OBVIOUS
<1>2. /\ life \in [Dependencies -> Lives] /\ taken \in [Objects -> SUBSET Dependencies]
      /\ o \in Objects /\ o \in started /\ started = Objects
  BY <1>1, DependencyAssumption DEF IInv, DependencyTypeOK, StartOK
<1>3. \A e \in Dependencies : life'[e] = IF e = d THEN v ELSE life[e]
  BY <1>2
<1>4. /\ taken' = [taken EXCEPT ![o] = Mine(o, k)]
      /\ \A g \in DOMAIN registry' : registry'[g] # {}
      /\ \A g, e : In(registry', g, e) <=> In(registry, g, e) /\ ~(Child[e] = o /\ Key(e) = k)
      /\ DOMAIN groups' = Objects /\ \A x \in Objects \ {o} : groups'[x] = groups[x]
      /\ DOMAIN groups'[o] = DOMAIN groups[o] \ {k}
      /\ \A l \in DOMAIN groups'[o] : groups'[o][l] = groups[o][l]
  BY <1>1, <1>2, Left
<1>5. InGroups' = InGroups \ {d} /\ (v = "adding" => d \notin InGroups)
  BY <1>3 DEF InGroups
<1>6. \A e \in Dependencies : Changing(e)' <=> Changing(e) \/ e = d
  BY <1>3 DEF Changing
<1>7. \A e \in Dependencies : Changing(e) => Child[e] # o
  BY <1>1 DEF InChange, Changing
<1>8. \A x, l : PairChanging(x, l)' <=> PairChanging(x, l) \/ (x = o /\ l = k)
  BY <1>1, <1>6 DEF PairChanging
<1>9. \A x, l : ~(x = o /\ l = k) => Mine(x, l)' = Mine(x, l)
  BY <1>1, <1>5 DEF Mine
<1>10. Mine(o, k)' = Mine(o, k) \ {d} /\ (v = "adding" => d \notin Mine(o, k))
  BY <1>5 DEF Mine
<1>11. \A l : ~PairChanging(o, l)
  BY <1>7 DEF PairChanging
<1>12. Mine(o, k) \subseteq Dependencies
  BY DEF Mine, InGroups
<1>13. DependencyTypeOK'
  <2>1. life' \in [Dependencies -> Lives]
    BY <1>2 DEF Lives
  <2>2. taken' \in [Objects -> SUBSET Dependencies]
    BY <1>2, <1>4, <1>12
  <2>3. \A g \in DOMAIN registry' : registry'[g] \subseteq Dependencies
    BY <1>4 DEF In, IInv, DependencyTypeOK
  <2> QED
    BY <1>4, <2>1, <2>2, <2>3 DEF IInv, DependencyTypeOK
<1>14. StartOK'
  BY <1>2 DEF StartOK
<1>15. ChangesOK'
  <2>1. ASSUME NEW e \in Dependencies, NEW f \in Dependencies, Changing(e)', Changing(f)', Child[e] = Child[f]
        PROVE  e = f
    BY <1>1, <1>6, <1>7, <2>1 DEF IInv, ChangesOK
  <2>2. ASSUME NEW e \in Dependencies, Changing(e)'
        PROVE  /\ life'[e] = "adding" => taken'[Child[e]] = Mine(Child[e], Key(e))'
               /\ life'[e] = "removing" => taken'[Child[e]] \ {e} = Mine(Child[e], Key(e))'
    <3>1. CASE e = d
      <4>1. Mine(Child[e], Key(e))' = Mine(o, k) \ {d} /\ Child[e] = o
        BY <1>1, <1>10, <3>1 DEF Mine, Key, GetDependencyGroupKey
      <4>2. taken'[o] = Mine(o, k) /\ life'[e] = v
        BY <1>2, <1>3, <1>4, <3>1
      <4> QED
        BY <1>10, <3>1, <4>1, <4>2
    <3>2. CASE e # d
      <4>1. Changing(e) /\ Child[e] # o /\ life'[e] = life[e]
        BY <1>3, <1>6, <1>7, <2>2, <3>2
      <4>2. Child[e] \in Objects /\ taken'[Child[e]] = taken[Child[e]]
        BY <1>2, <1>4, <4>1, DependencyAssumption
      <4>3. Mine(Child[e], Key(e))' = Mine(Child[e], Key(e))
        BY <1>9, <4>1 DEF Mine
      <4> QED
        BY <4>1, <4>2, <4>3 DEF IInv, ChangesOK
    <3> QED
      BY <3>1, <3>2
  <2>3. ASSUME NEW x \in Objects, ~InChange(x)' PROVE taken'[x] = {}
    <3>1. x # o
      BY <1>1, <1>3, <2>3 DEF InChange
    <3>2. ~InChange(x)
      BY <1>3, <2>3 DEF InChange
    <3> QED
      BY <1>2, <1>4, <3>1, <3>2 DEF IInv, ChangesOK
  <2> QED
    BY <2>1, <2>2, <2>3 DEF ChangesOK, Key, GetDependencyGroupKey
<1>16. GroupsOK'
  <2>1. ASSUME NEW x \in started
        PROVE  DOMAIN groups'[x] = {l \in Keys : Mine(x, l)' # {} /\ ~PairChanging(x, l)'}
    <3>1. DOMAIN groups[x] = {l \in Keys : Mine(x, l) # {} /\ ~PairChanging(x, l)}
      BY DEF IInv, GroupsOK
    <3>2. CASE x = o
      BY <1>4, <1>8, <1>9, <3>1, <3>2
    <3>3. CASE x # o
      BY <1>2, <1>4, <1>8, <1>9, <3>1, <3>3
    <3> QED
      BY <3>2, <3>3
  <2>2. ASSUME NEW e \in InGroups', ~PairChanging(Child[e], Key(e))'
        PROVE  groups'[Child[e]][Key(e)] = Group(GroupName[e], Mine(Child[e], Key(e))')
    <3>1. PICK x, l : x = Child[e] /\ l = Key(e)
      OBVIOUS
    <3>2. e \in InGroups /\ e \in Dependencies /\ ~(x = o /\ l = k) /\ ~PairChanging(x, l)
      BY <1>5, <1>8, <2>2, <3>1 DEF InGroups, PairChanging
    <3>3. x \in Objects
      BY <3>1, <3>2, DependencyAssumption
    <3>4. groups[x][l] = Group(GroupName[e], Mine(x, l))
      BY <1>2, <3>1, <3>2, <3>3 DEF IInv, GroupsOK
    <3>5. Mine(x, l)' = Mine(x, l) /\ e \in Mine(x, l) /\ l \in Keys
      BY <1>9, <3>1, <3>2 DEF Mine, Keys
    <3>6. l \in DOMAIN groups[x]
      BY <1>2, <3>2, <3>3, <3>5 DEF IInv, GroupsOK
    <3>7. groups'[x][l] = groups[x][l]
      BY <1>4, <3>2, <3>3, <3>6
    <3> QED
      BY <3>1, <3>4, <3>5, <3>7 DEF Mine
  <2> QED
    BY <2>1, <2>2 DEF GroupsOK, Key, GetDependencyGroupKey, Keys
<1>17. RegistryOK'
  <2>1. ASSUME NEW g \in DOMAIN registry', NEW e \in registry'[g]
        PROVE  /\ e \in InGroups' /\ Child[e] \in started /\ ~PairChanging(Child[e], Key(e))'
               /\ groups'[Child[e]][Key(e)] = g
    <3>1. PICK x, l : x = Child[e] /\ l = Key(e)
      OBVIOUS
    <3>2. In(registry, g, e) /\ ~(x = o /\ l = k)
      BY <1>4, <2>1, <3>1 DEF In
    <3>3. e \in InGroups /\ x \in started /\ ~PairChanging(x, l) /\ groups[x][l] = g
      BY <3>1, <3>2 DEF In, IInv, RegistryOK, PairChanging
    <3>4. e \in InGroups' /\ ~PairChanging(x, l)'
      BY <1>1, <1>5, <1>8, <3>1, <3>2, <3>3
    <3>5. l \in DOMAIN groups[x]
      BY <3>1, <3>3 DEF IInv, GroupsOK, Mine, Keys, InGroups
    <3>6. groups'[x][l] = groups[x][l]
      BY <1>2, <1>4, <3>2, <3>3, <3>5
    <3> QED
      BY <3>1, <3>3, <3>4, <3>6 DEF PairChanging
  <2>2. ASSUME NEW e \in InGroups', ~PairChanging(Child[e], Key(e))'
        PROVE  In(registry', groups'[Child[e]][Key(e)], e)
    <3>1. PICK x, l : x = Child[e] /\ l = Key(e)
      OBVIOUS
    <3>2. e \in InGroups /\ e \in Dependencies /\ ~(x = o /\ l = k) /\ ~PairChanging(x, l)
      BY <1>5, <1>8, <2>2, <3>1 DEF InGroups, PairChanging
    <3>3. x \in started
      BY <1>2, <3>1, <3>2, DependencyAssumption
    <3>4. In(registry, groups[x][l], e)
      BY <3>1, <3>2, <3>3 DEF IInv, RegistryOK
    <3>5. l \in DOMAIN groups[x]
      BY <3>1, <3>2, <3>3 DEF IInv, GroupsOK, Mine, Keys
    <3>6. groups'[x][l] = groups[x][l]
      BY <1>2, <1>4, <3>2, <3>3, <3>5
    <3> QED
      BY <1>4, <3>1, <3>2, <3>4, <3>6
  <2> QED
    BY <1>4, <2>1, <2>2 DEF RegistryOK, In, Key, GetDependencyGroupKey
<1> QED
  BY <1>13, <1>14, <1>15, <1>16, <1>17 DEF IInv

\* The second half of a change: the dependencies of the pair are in one group.
LEMMA EnterStep ==
    ASSUME IInv, NEW d \in Dependencies, NEW v, NEW ds,
           \/ life[d] = "adding" /\ v = "active" /\ ds = taken[Child[d]] \cup {d}
           \/ life[d] = "removing" /\ v = "none" /\ ds = taken[Child[d]] \ {d},
           EnterGroup(d, ds), life' = [life EXCEPT ![d] = v],
           raced' \subseteq Dependencies, UNCHANGED <<pending, started>>
    PROVE  IInv'
<1>1. PICK o, k, g : o = Child[d] /\ k = Key(d) /\ g = Group(GroupName[d], ds)
  OBVIOUS
<1>2. /\ life \in [Dependencies -> Lives] /\ taken \in [Objects -> SUBSET Dependencies]
      /\ o \in Objects /\ o \in started /\ started = Objects
  BY <1>1, DependencyAssumption DEF IInv, DependencyTypeOK, StartOK
<1>3. \A e \in Dependencies : life'[e] = IF e = d THEN v ELSE life[e]
  BY <1>2
<1>4. ds \in SUBSET Dependencies
  BY <1>1, <1>2
<1>5. /\ taken' = [taken EXCEPT ![o] = {}]
      /\ \A h \in DOMAIN registry' : registry'[h] # {}
      /\ \A h, e : In(registry', h, e) <=> In(registry, h, e) \/ (h = g /\ e \in ds)
      /\ DOMAIN groups' = Objects /\ \A x \in Objects \ {o} : groups'[x] = groups[x]
      /\ DOMAIN groups'[o] = DOMAIN groups[o] \cup (IF ds = {} THEN {} ELSE {k})
      /\ \A l \in DOMAIN groups[o] \ {k} : groups'[o][l] = groups[o][l]
      /\ ds # {} => groups'[o][k] = g
  BY <1>1, <1>4, Entered
<1>6. InGroups' = IF v = "active" THEN InGroups \cup {d} ELSE InGroups
  BY <1>3 DEF InGroups
<1>7. Changing(d) /\ \A e \in Dependencies : Changing(e)' <=> Changing(e) /\ e # d
  BY <1>3 DEF Changing
<1>8. \A e \in Dependencies : Changing(e) /\ Child[e] = o => e = d
  BY <1>1, <1>7 DEF IInv, ChangesOK
<1>9. PairChanging(o, k) /\ \A l : ~PairChanging(o, l)' /\ (l # k => ~PairChanging(o, l))
  BY <1>1, <1>7, <1>8 DEF PairChanging
<1>10. \A x, l : x # o => (PairChanging(x, l)' <=> PairChanging(x, l))
  BY <1>1, <1>7 DEF PairChanging
<1>11. \A x, l : ~(x = o /\ l = k) => Mine(x, l)' = Mine(x, l)
  BY <1>1, <1>6 DEF Mine
<1>12. Mine(o, k)' = ds
  <2>1. CASE v = "active"
    <3>1. ds = Mine(o, k) \cup {d}
      BY <1>1, <1>7, <2>1 DEF IInv, ChangesOK
    <3> QED
      BY <1>1, <1>6, <2>1, <3>1 DEF Mine
  <2>2. CASE v = "none"
    <3>1. ds = Mine(o, k)
      BY <1>1, <1>7, <2>2 DEF IInv, ChangesOK
    <3> QED
      BY <1>1, <1>6, <2>2, <3>1 DEF Mine
  <2> QED
    BY <2>1, <2>2
<1>13. /\ k \in Keys
       /\ \A e \in ds : e \in InGroups' /\ Child[e] = o /\ Key(e) = k /\ GroupName[e] = GroupName[d]
  <2>1. \A e \in ds : e \in InGroups' /\ Child[e] = o /\ Key(e) = k /\ e \in Dependencies
    BY <1>4, <1>12 DEF Mine, Key, GetDependencyGroupKey
  <2> QED
    BY <1>1, <2>1, SameKey DEF Keys
<1>14. DependencyTypeOK'
  <2>1. life' \in [Dependencies -> Lives]
    BY <1>2 DEF Lives
  <2>2. taken' \in [Objects -> SUBSET Dependencies]
    BY <1>2, <1>5
  <2>3. \A h \in DOMAIN registry' : registry'[h] \subseteq Dependencies
    BY <1>4, <1>5 DEF In, IInv, DependencyTypeOK
  <2> QED
    BY <1>5, <2>1, <2>2, <2>3 DEF IInv, DependencyTypeOK
<1>15. StartOK'
  BY <1>2 DEF StartOK
<1>16. ChangesOK'
  <2>1. ASSUME NEW e \in Dependencies, NEW f \in Dependencies, Changing(e)', Changing(f)', Child[e] = Child[f]
        PROVE  e = f
    BY <1>7, <2>1 DEF IInv, ChangesOK
  <2>2. ASSUME NEW e \in Dependencies, Changing(e)'
        PROVE  /\ life'[e] = "adding" => taken'[Child[e]] = Mine(Child[e], Key(e))'
               /\ life'[e] = "removing" => taken'[Child[e]] \ {e} = Mine(Child[e], Key(e))'
    <3>1. Changing(e) /\ Child[e] # o /\ life'[e] = life[e]
      BY <1>3, <1>7, <1>8, <2>2
    <3>2. Child[e] \in Objects /\ taken'[Child[e]] = taken[Child[e]]
      BY <1>2, <1>5, <3>1, DependencyAssumption
    <3>3. Mine(Child[e], Key(e))' = Mine(Child[e], Key(e))
      BY <1>11, <3>1 DEF Mine
    <3> QED
      BY <3>1, <3>2, <3>3 DEF IInv, ChangesOK
  <2>3. ASSUME NEW x \in Objects, ~InChange(x)' PROVE taken'[x] = {}
    <3>1. CASE x = o
      BY <1>2, <1>5, <3>1
    <3>2. CASE x # o
      <4>1. ~InChange(x)
        BY <1>1, <1>3, <2>3, <3>2 DEF InChange
      <4> QED
        BY <1>2, <1>5, <3>2, <4>1 DEF IInv, ChangesOK
    <3> QED
      BY <3>1, <3>2
  <2> QED
    BY <2>1, <2>2, <2>3 DEF ChangesOK, Key, GetDependencyGroupKey
<1>17. GroupsOK'
  <2>1. ASSUME NEW x \in started
        PROVE  DOMAIN groups'[x] = {l \in Keys : Mine(x, l)' # {} /\ ~PairChanging(x, l)'}
    <3>1. DOMAIN groups[x] = {l \in Keys : Mine(x, l) # {} /\ ~PairChanging(x, l)}
      BY DEF IInv, GroupsOK
    <3>2. CASE x = o
      BY <1>5, <1>9, <1>11, <1>12, <1>13, <3>1, <3>2
    <3>3. CASE x # o
      BY <1>2, <1>5, <1>10, <1>11, <3>1, <3>3
    <3> QED
      BY <3>2, <3>3
  <2>2. ASSUME NEW e \in InGroups', ~PairChanging(Child[e], Key(e))'
        PROVE  groups'[Child[e]][Key(e)] = Group(GroupName[e], Mine(Child[e], Key(e))')
    <3>1. PICK x, l : x = Child[e] /\ l = Key(e)
      OBVIOUS
    <3>2. e \in Mine(x, l)' /\ e \in Dependencies /\ x \in Objects
      BY <3>1, DependencyAssumption DEF Mine, InGroups, Key, GetDependencyGroupKey
    <3>3. CASE x = o /\ l = k
      <4>1. e \in ds
        BY <1>12, <3>2, <3>3
      <4> QED
        BY <1>1, <1>5, <1>12, <1>13, <3>1, <3>3, <4>1 DEF Mine
    <3>4. CASE ~(x = o /\ l = k)
      <4>1. Mine(x, l)' = Mine(x, l) /\ ~PairChanging(x, l)
        BY <1>9, <1>10, <1>11, <2>2, <3>1, <3>4 DEF PairChanging
      <4>2. e \in InGroups
        BY <3>2, <4>1 DEF Mine
      <4>3. groups[x][l] = Group(GroupName[e], Mine(x, l)) /\ l \in DOMAIN groups[x]
        BY <1>2, <3>1, <3>2, <4>1, <4>2 DEF IInv, GroupsOK, Keys
      <4>4. groups'[x][l] = groups[x][l]
        BY <1>5, <3>2, <3>4, <4>3
      <4> QED
        BY <3>1, <4>1, <4>3, <4>4 DEF Mine
    <3> QED
      BY <3>3, <3>4
  <2> QED
    BY <2>1, <2>2 DEF GroupsOK, Key, GetDependencyGroupKey, Keys
<1>18. RegistryOK'
  <2>1. ASSUME NEW h \in DOMAIN registry', NEW e \in registry'[h]
        PROVE  /\ e \in InGroups' /\ Child[e] \in started /\ ~PairChanging(Child[e], Key(e))'
               /\ groups'[Child[e]][Key(e)] = h
    <3>1. CASE h = g /\ e \in ds
      BY <1>2, <1>5, <1>9, <1>13, <3>1 DEF PairChanging
    <3>2. CASE In(registry, h, e)
      <4>1. PICK x, l : x = Child[e] /\ l = Key(e)
        OBVIOUS
      <4>2. e \in InGroups /\ x \in started /\ ~PairChanging(x, l) /\ groups[x][l] = h
        BY <3>2, <4>1 DEF In, IInv, RegistryOK, PairChanging
      <4>3. ~(x = o /\ l = k) /\ e \in InGroups' /\ ~PairChanging(x, l)'
        BY <1>6, <1>9, <1>10, <4>2
      <4>4. l \in DOMAIN groups[x]
        BY <4>1, <4>2 DEF IInv, GroupsOK, Mine, Keys, InGroups
      <4>5. groups'[x][l] = groups[x][l]
        BY <1>2, <1>5, <4>2, <4>3, <4>4
      <4> QED
        BY <4>1, <4>2, <4>3, <4>5 DEF PairChanging
    <3> QED
      BY <1>5, <2>1, <3>1, <3>2 DEF In
  <2>2. ASSUME NEW e \in InGroups', ~PairChanging(Child[e], Key(e))'
        PROVE  In(registry', groups'[Child[e]][Key(e)], e)
    <3>1. PICK x, l : x = Child[e] /\ l = Key(e)
      OBVIOUS
    <3>2. e \in Mine(x, l)' /\ e \in Dependencies /\ x \in Objects
      BY <3>1, DependencyAssumption DEF Mine, InGroups, Key, GetDependencyGroupKey
    <3>3. CASE x = o /\ l = k
      <4>1. e \in ds
        BY <1>12, <3>2, <3>3
      <4> QED
        BY <1>5, <3>1, <3>3, <4>1
    <3>4. CASE ~(x = o /\ l = k)
      <4>1. Mine(x, l)' = Mine(x, l) /\ ~PairChanging(x, l)
        BY <1>9, <1>10, <1>11, <2>2, <3>1, <3>4 DEF PairChanging
      <4>2. e \in InGroups
        BY <3>2, <4>1 DEF Mine
      <4>3. In(registry, groups[x][l], e) /\ l \in DOMAIN groups[x]
        BY <1>2, <3>1, <3>2, <4>1, <4>2 DEF IInv, RegistryOK, GroupsOK, Keys
      <4>4. groups'[x][l] = groups[x][l]
        BY <1>5, <3>2, <3>4, <4>3
      <4> QED
        BY <1>5, <3>1, <4>3, <4>4
    <3> QED
      BY <3>3, <3>4
  <2> QED
    BY <1>5, <2>1, <2>2 DEF RegistryOK, In, Key, GetDependencyGroupKey
<1> QED
  BY <1>14, <1>15, <1>16, <1>17, <1>18 DEF IInv

\* An object starts: its dependencies enter one group for each key.
LEMMA StartStep ==
    ASSUME IInv, NEW o \in Objects, PushDependencyGroupsToRegistry(o)
    PROVE  IInv'
<1> DEFINE keys == {GetDependencyGroupKey(d) : d \in pending[o]}
           Of(k) == {d \in pending[o] : GetDependencyGroupKey(d) = k}
           GroupOf(k) == Group(GroupName[CHOOSE d \in Of(k) : TRUE], Of(k))
           new == {GroupOf(k) : k \in keys}
<1>1. /\ o \notin started
      /\ started' = started \cup {o}
      /\ groups' = [groups EXCEPT ![o] = [k \in keys |-> GroupOf(k)]]
      /\ registry' = [g \in DOMAIN registry \cup new |->
                         (IF g \in DOMAIN registry THEN registry[g] ELSE {})
                         \cup UNION {Of(k) : k \in {l \in keys : GroupOf(l) = g}}]
      /\ pending' = [pending EXCEPT ![o] = {}]
      /\ life' = life /\ taken' = taken /\ raced' = raced
  BY DEF PushDependencyGroupsToRegistry
<1>2. /\ started \subseteq Objects /\ pending \in [Objects -> SUBSET Dependencies]
      /\ DOMAIN groups = Objects
  BY DEF IInv, DependencyTypeOK
<1>3. \A d \in Dependencies : ~Changing(d)
  BY <1>1 DEF IInv, StartOK, Changing
<1>4. \A x, l : ~PairChanging(x, l) /\ ~PairChanging(x, l)'
  BY <1>1, <1>3 DEF PairChanging, Changing
<1>5. InGroups' = InGroups /\ InGroups \subseteq Dependencies
  BY <1>1 DEF InGroups
<1>6. \A x, l : Mine(x, l)' = Mine(x, l)
  BY <1>5 DEF Mine
<1>7. pending[o] = {d \in InGroups : Child[d] = o}
  BY <1>1 DEF IInv, StartOK
<1>8. \A k : Of(k) = Mine(o, k)
  BY <1>7 DEF Mine, Key
<1>9. keys = {k \in Keys : Mine(o, k) # {}}
  BY <1>5, <1>7 DEF Mine, Key, Keys
<1>10. ASSUME NEW d \in InGroups, Child[d] = o
       PROVE  GroupOf(Key(d)) = Group(GroupName[d], Mine(o, Key(d)))
  <2>1. d \in Mine(o, Key(d))
    BY <1>10 DEF Mine
  <2>2. PICK e : e = CHOOSE f \in Of(Key(d)) : TRUE
    OBVIOUS
  <2>3. e \in Of(Key(d))
    BY <1>8, <2>1, <2>2
  <2>4. e \in Dependencies /\ Key(e) = Key(d)
    BY <1>5, <1>8, <2>3 DEF Mine
  <2>5. GroupName[e] = GroupName[d]
    BY <1>5, <2>4, SameKey
  <2> QED
    BY <1>8, <2>2, <2>5
<1> HIDE DEF GroupOf
<1>11. \A g \in DOMAIN registry : registry[g] \subseteq Dependencies /\ registry[g] # {}
  BY DEF IInv, DependencyTypeOK, RegistryOK
<1>12. ASSUME NEW g, NEW e
       PROVE  In(registry', g, e) <=> \/ In(registry, g, e)
                                      \/ e \in InGroups /\ Child[e] = o /\ g = GroupOf(Key(e))
  <2>1. In(registry', g, e) <=> \/ In(registry, g, e)
                                \/ \E k \in keys : GroupOf(k) = g /\ e \in Of(k)
    BY <1>1 DEF In
  <2>2. (\E k \in keys : GroupOf(k) = g /\ e \in Of(k))
           <=> e \in InGroups /\ Child[e] = o /\ g = GroupOf(Key(e))
    BY <1>8, <1>7 DEF Mine, Key
  <2> QED
    BY <2>1, <2>2
<1>13. \A g \in DOMAIN registry' : registry'[g] # {}
  <2> SUFFICES ASSUME NEW g \in DOMAIN registry' PROVE \E e : In(registry', g, e)
    BY DEF In
  <2>1. CASE g \in DOMAIN registry
    BY <1>11, <1>12, <2>1 DEF In
  <2>2. CASE g \in new
    <3>1. PICK k \in keys : g = GroupOf(k)
      BY <2>2
    <3>2. PICK e \in pending[o] : k = Key(e)
      BY <3>1 DEF Key
    <3> QED
      BY <1>7, <1>12, <3>1, <3>2
  <2> QED
    BY <1>1, <2>1, <2>2
<1>14. /\ DOMAIN groups' = Objects /\ \A x \in Objects \ {o} : groups'[x] = groups[x]
       /\ DOMAIN groups'[o] = keys /\ \A k \in keys : groups'[o][k] = GroupOf(k)
  BY <1>1, <1>2
<1>15. \A e \in InGroups : Child[e] = o =>
          Key(e) \in keys /\ groups'[o][Key(e)] = Group(GroupName[e], Mine(o, Key(e)))
  BY <1>7, <1>10, <1>14 DEF Key
<1>16. DependencyTypeOK'
  <2>1. \A g \in DOMAIN registry' : registry'[g] \subseteq Dependencies
    BY <1>5, <1>11, <1>12 DEF In
  <2> QED
    BY <1>1, <1>2, <1>14, <2>1 DEF IInv, DependencyTypeOK
<1>17. StartOK'
  <2>1. \A x \in Objects \ started' : x # o /\ x \notin started
    BY <1>1
  <2>2. \A x \in Objects \ started' : pending'[x] = pending[x] /\ groups'[x] = groups[x]
    BY <1>1, <1>2, <1>14, <2>1
  <2>3. \A d \in Dependencies : life'[d] \in {"none", "active"}
    BY <1>1, <1>2 DEF IInv, StartOK
  <2> QED
    BY <1>5, <2>1, <2>2, <2>3 DEF IInv, StartOK
<1>18. ChangesOK'
  <2>1. \A d \in Dependencies : ~Changing(d)'
    BY <1>1, <1>3 DEF Changing
  <2>2. \A x : ~InChange(x)
    BY <1>3 DEF InChange, Changing
  <2> QED
    BY <1>1, <2>1, <2>2 DEF IInv, ChangesOK
<1>19. GroupsOK'
  <2>1. ASSUME NEW x \in started'
        PROVE  /\ DOMAIN groups'[x] = {k \in Keys : Mine(x, k) # {}}
               /\ \A d \in InGroups : Child[d] = x => groups'[x][Key(d)] = Group(GroupName[d], Mine(x, Key(d)))
    <3>1. CASE x = o
      BY <1>9, <1>14, <1>15, <3>1
    <3>2. CASE x # o
      <4>1. x \in started /\ groups'[x] = groups[x]
        BY <1>1, <1>2, <1>14, <3>2
      <4> QED
        BY <1>4, <4>1 DEF IInv, GroupsOK
    <3> QED
      BY <3>1, <3>2
  <2> QED
    BY <1>4, <1>5, <1>6, <2>1 DEF GroupsOK
<1>20. RegistryOK'
  <2>1. ASSUME NEW g \in DOMAIN registry', NEW e \in registry'[g]
        PROVE  e \in InGroups /\ Child[e] \in started' /\ groups'[Child[e]][Key(e)] = g
    <3>1. CASE e \in InGroups /\ Child[e] = o /\ g = GroupOf(Key(e))
      BY <1>1, <1>14, <1>15, <3>1
    <3>2. CASE In(registry, g, e)
      <4>1. e \in InGroups /\ Child[e] \in started /\ groups[Child[e]][Key(e)] = g
        BY <3>2 DEF In, IInv, RegistryOK
      <4> QED
        BY <1>1, <1>2, <1>14, <4>1
    <3> QED
      BY <1>12, <2>1, <3>1, <3>2 DEF In
  <2>2. ASSUME NEW e \in InGroups, Child[e] \in started'
        PROVE  In(registry', groups'[Child[e]][Key(e)], e)
    <3>1. CASE Child[e] = o
      BY <1>12, <1>14, <1>15, <3>1
    <3>2. CASE Child[e] # o
      <4>1. Child[e] \in started /\ groups'[Child[e]] = groups[Child[e]]
        BY <1>1, <1>2, <1>14, <2>2, <3>2
      <4> QED
        BY <1>4, <1>12, <4>1 DEF IInv, RegistryOK
    <3> QED
      BY <3>1, <3>2
  <2> QED
    BY <1>4, <1>5, <1>13, <2>1, <2>2 DEF RegistryOK
<1> QED
  BY <1>16, <1>17, <1>18, <1>19, <1>20 DEF IInv

\* Every step of a dependency is quiet or half of a change.
LEMMA Inductive == IInv /\ [DependencyNext]_dependencyVars => IInv'
<1> SUFFICES ASSUME IInv, [DependencyNext]_dependencyVars PROVE IInv'
  OBVIOUS
<1>1. ASSUME NEW o \in Objects, PushDependencyGroupsToRegistry(o) PROVE IInv'
  BY <1>1, StartStep
<1>2. raced \subseteq Dependencies
  BY DEF IInv, DependencyTypeOK
<1>3. ASSUME NEW d \in Dependencies, BeforeOnAllConfigLoadedHandler(d) PROVE IInv'
  BY <1>2, <1>3, QuietStep DEF BeforeOnAllConfigLoadedHandler
<1>4. ASSUME NEW d \in Dependencies, AddReverseDependency(d) PROVE IInv'
  <2>1. started = Objects
    BY <1>4 DEF AddReverseDependency, IInv, StartOK
  <2> QED
    BY <1>2, <1>4, <2>1, QuietStep DEF AddReverseDependency
<1>5. ASSUME NEW d \in Dependencies, AddUnregister(d) PROVE IInv'
  BY <1>5, LeaveStep DEF AddUnregister
<1>6. ASSUME NEW d \in Dependencies, AddRegister(d) PROVE IInv'
  BY <1>2, <1>6, EnterStep DEF AddRegister
<1>7. ASSUME NEW d \in Dependencies, RemoveReverseDependency(d) PROVE IInv'
  BY <1>2, <1>7, QuietStep DEF RemoveReverseDependency
<1>8. ASSUME NEW d \in Dependencies, RemoveUnregister(d) PROVE IInv'
  BY <1>8, LeaveStep DEF RemoveUnregister
<1>9. ASSUME NEW d \in Dependencies, RemoveRegister(d) PROVE IInv'
  BY <1>2, <1>9, EnterStep DEF RemoveRegister
<1>10. ASSUME UNCHANGED dependencyVars PROVE IInv'
  <2>1. /\ life' = life /\ pending' = pending /\ started' = started /\ groups' = groups
        /\ registry' = registry /\ taken' = taken /\ raced' = raced
    BY <1>10 DEF dependencyVars
  <2>2. InGroups' = InGroups /\ \A d \in Dependencies : Changing(d)' <=> Changing(d)
    BY <2>1 DEF InGroups, Changing
  <2>3. \A o, k : /\ Mine(o, k)' = Mine(o, k)
                  /\ PairChanging(o, k)' <=> PairChanging(o, k)
                  /\ InChange(o)' <=> InChange(o)
    BY <2>1, <2>2 DEF Mine, PairChanging, InChange
  <2>4. DependencyTypeOK' /\ StartOK'
    BY <2>1, <2>2 DEF IInv, DependencyTypeOK, StartOK
  <2>5. ChangesOK'
    BY <2>1, <2>2, <2>3 DEF IInv, ChangesOK
  <2>6. GroupsOK'
    BY <2>1, <2>2, <2>3 DEF IInv, GroupsOK
  <2>7. RegistryOK'
    BY <2>1, <2>2, <2>3 DEF IInv, RegistryOK, In
  <2> QED
    BY <2>4, <2>5, <2>6, <2>7 DEF IInv
<1> QED
  BY <1>1, <1>3, <1>4, <1>5, <1>6, <1>7, <1>8, <1>9, <1>10 DEF DependencyNext

\* However the dependencies of several children enter, leave and share groups at the same
\* time (Checkable::AddDependency, RemoveDependency, DependencyGroup::Register, Unregister):
\* objects and registry agree on the groups.
THEOREM GroupsAgree == DependencySpec => []GroupsMatch
<1>1. IInv => GroupsMatch
  <2> SUFFICES ASSUME IInv PROVE GroupsMatch
    OBVIOUS
  <2>1. ASSUME NEW o \in started, ~InChange(o)
        PROVE  DOMAIN groups[o] = {GetDependencyGroupKey(d) : d \in {e \in InGroups : Child[e] = o}}
    <3>1. \A k : ~PairChanging(o, k)
      BY <2>1 DEF InChange, PairChanging, Changing
    <3>2. DOMAIN groups[o] = {k \in Keys : Mine(o, k) # {}}
      BY <3>1 DEF IInv, GroupsOK
    <3> QED
      BY <3>2 DEF Mine, Keys, Key, InGroups
  <2>2. ASSUME NEW o \in started, NEW k \in DOMAIN groups[o]
        PROVE  /\ groups[o][k] \in DOMAIN registry
               /\ GetDependenciesForChild(registry, groups[o][k], o)
                     = {d \in InGroups : Child[d] = o /\ GetDependencyGroupKey(d) = k}
    BY GroupMembers DEF Mine, Key
  <2>3. ASSUME NEW g \in DOMAIN registry, NEW d \in registry[g]
        PROVE  g = Group(GroupName[d], GetDependenciesForChild(registry, g, Child[d]))
    <3>1. PICK o, k : o = Child[d] /\ k = Key(d)
      OBVIOUS
    <3>2. d \in InGroups /\ o \in started /\ ~PairChanging(o, k) /\ groups[o][k] = g
      BY <3>1 DEF IInv, RegistryOK
    <3>3. d \in Mine(o, k) /\ k \in DOMAIN groups[o]
      BY <3>1, <3>2 DEF IInv, GroupsOK, Mine, Keys, InGroups
    <3>4. GetDependenciesForChild(registry, g, o) = Mine(o, k) /\ g = Group(GroupName[d], Mine(o, k))
      BY <3>2, <3>3, GroupMembers
    <3> QED
      BY <3>1, <3>4
  <2>4. \A g \in DOMAIN registry : registry[g] # {}
    BY DEF IInv, RegistryOK
  <2> QED
    BY <2>1, <2>2, <2>3, <2>4 DEF GroupsMatch
<1> QED
  BY <1>1, Initially, Inductive, PTL DEF DependencySpec

-----------------------------------------------------------------------------
(* Induction over data: the loops of Flapping and Notification              *)

\* A set of natural numbers has a least element: what holds of 0 and of every successor
\* has no least exception.
LEMMA NatMin ==
  ASSUME NEW T, T \subseteq Nat, T # {}
  PROVE  \E m \in T : \A k \in T : m <= k
<1> DEFINE R == OpToRel(<, Nat)
<1>1. IsWellFoundedOn(R, Nat)
  BY NatLessThanWellFounded
<1>2. PICK m \in T : \A k \in T : ~(<<k, m>> \in R)
  <2> HIDE DEF R
  <2> QED BY <1>1, WFMin
<1>3. \A k \in T : ~(k < m)
  <2> TAKE k \in T
  <2>1. <<k, m>> \notin R BY <1>2
  <2>2. <<k, m>> \in Nat \X Nat OBVIOUS
  <2>3. SUFFICES ASSUME k < m PROVE FALSE OBVIOUS
  <2>4. <<k, m>> \in R BY <2>2, <2>3 DEF OpToRel
  <2> QED BY <2>1, <2>4
<1> QED BY <1>3

-----------------------------------------------------------------------------
(* Flapping                                                                  *)

\* The types of the variables
FlappingTypeOK ==
    /\ flappingBuffer \in [0..(Bits - 1) -> BOOLEAN]
    /\ flappingIndex \in 0..(Bits - 1)
    /\ recent \in [1..Bits -> BOOLEAN]
    /\ isFlapping \in BOOLEAN

\* Read from the oldest bit on, the ring buffer has the last results, the oldest first.
RingOK == \A i \in 0..(Bits - 1) : flappingBuffer[(flappingIndex + i) % Bits] = recent[Bits - i]

\* The inductive invariant of flapping detection
FlappingInv == FlappingTypeOK /\ RingOK

\* An index below twice the length wraps around at most once.
LEMMA Wraps ==
  /\ Bits \in Nat /\ Bits > 0
  /\ \A a \in Nat : a < 2 * Bits => a % Bits = IF a < Bits THEN a ELSE a - Bits
  BY FlappingAssumption


\* What a loop over k rounds adds up.
Sums(f, window, k) ==
    f = [i \in 0..k |-> IF i = 0 THEN 0 ELSE f[i - 1] + IF window[i - 1] THEN 78 + 2 * i ELSE 0]

\* The loop's sum is well defined, for any number of rounds.
LEMMA SumExists ==
  ASSUME NEW window, NEW k \in Nat
  PROVE  \E f : Sums(f, window, k)
<1> DEFINE add(i) == IF window[i - 1] THEN 78 + 2 * i ELSE 0
<1> DEFINE Bad == {m \in Nat : ~\E f : Sums(f, window, m)}
<1>1. SUFFICES ASSUME Bad # {} PROVE FALSE OBVIOUS
<1>2. PICK m \in Bad : \A j \in Bad : m <= j BY <1>1, NatMin
<1>3. CASE m = 0
  <2> DEFINE g == [i \in 0..m |-> 0]
  <2>1. Sums(g, window, m) BY <1>3 DEF Sums
  <2> QED BY <2>1
<1>4. CASE m # 0
  <2>1. m - 1 \in Nat /\ m \in Nat BY <1>4
  <2>2. m - 1 \notin Bad BY <2>1, <1>2
  <2>3. PICK f : Sums(f, window, m - 1) BY <2>1, <2>2
  <2> DEFINE g == [i \in 0..m |-> IF i = m THEN f[m - 1] + add(m) ELSE f[i]]
  <2>4. ASSUME NEW i \in 0..m
        PROVE  g[i] = IF i = 0 THEN 0 ELSE g[i - 1] + add(i)
    <3>1. CASE i = m
      BY <3>1, <1>4, <2>1
    <3>2. CASE i # m
      <4>1. i \in 0..(m - 1) BY <3>2, <2>1
      <4>2. g[i] = f[i] BY <3>2
      <4>3. f[i] = IF i = 0 THEN 0 ELSE f[i - 1] + add(i) BY <4>1, <2>3 DEF Sums
      <4>4. i # 0 => i - 1 \in 0..m /\ i - 1 # m BY <4>1, <2>1
      <4>5. i # 0 => g[i - 1] = f[i - 1] BY <4>4
      <4> QED BY <4>2, <4>3, <4>5
    <3> QED BY <3>1, <3>2
  <2>6. g = [i \in 0..m |-> g[i]] OBVIOUS
  <2> HIDE DEF g
  <2>7. Sums(g, window, m) BY <2>4, <2>6 DEF Sums
  <2> QED BY <2>7
<1> QED BY <1>3, <1>4

\* It is a natural number after every round.
LEMMA SumIsNatural ==
  ASSUME NEW window, NEW k \in Nat, NEW f, Sums(f, window, k)
  PROVE  \A i \in 0..k : f[i] \in Nat
<1> DEFINE Bad == {i \in 0..k : f[i] \notin Nat}
<1>1. SUFFICES ASSUME Bad # {} PROVE FALSE OBVIOUS
<1>2. PICK m \in Bad : \A j \in Bad : m <= j
  <2>1. Bad \subseteq Nat OBVIOUS
  <2> HIDE DEF Bad
  <2> QED BY <1>1, <2>1, NatMin
<1>3. m \in 0..k /\ f[m] \notin Nat OBVIOUS
<1>4. f[m] = IF m = 0 THEN 0 ELSE f[m - 1] + IF window[m - 1] THEN 78 + 2 * m ELSE 0
  BY <1>3 DEF Sums
<1>5. m # 0 => m - 1 \in 0..k /\ ~(m <= m - 1) BY <1>3
<1>6. m # 0 => f[m - 1] \in Nat BY <1>5, <1>2
<1> HIDE DEF Bad
<1> QED BY <1>3, <1>4, <1>6

\* The weighted total of a window is a natural number.
LEMMA TotalIsNatural == ASSUME NEW window PROVE Total(window) \in Nat
<1> DEFINE F == CHOOSE f : Sums(f, window, Bits)
<1>1. Sums(F, window, Bits) BY SumExists, Wraps
<1>2. Total(window) = F[Bits] BY DEF Total, Sums
<1>3. Bits \in 0..Bits BY Wraps
<1> HIDE DEF F
<1>4. F[Bits] \in Nat BY <1>1, <1>3, SumIsNatural, Wraps
<1> QED BY <1>2, <1>4

\* The newest bit overwrites the oldest one; the window moves by one.
LEMMA RingStep ==
  ASSUME FlappingInv, NEW new \in FlappingStates, UpdateFlappingStatus(new)
  PROVE  FlappingInv' /\ Share(recent') = Current(flappingBuffer', flappingIndex')
<1> DEFINE c == StateChanged(new)
<1>b. Bits \in Nat /\ Bits > 0 BY Wraps
<1>t. /\ flappingBuffer \in [0..(Bits - 1) -> BOOLEAN] /\ flappingIndex \in 0..(Bits - 1)
      /\ recent \in [1..Bits -> BOOLEAN]
  BY DEF FlappingInv, FlappingTypeOK
<1>c. c \in BOOLEAN BY DEF StateChanged
<1> HIDE DEF c
<1>1. /\ flappingBuffer' = [flappingBuffer EXCEPT ![flappingIndex] = c]
      /\ flappingIndex' = (flappingIndex + 1) % Bits
      /\ recent' = <<c>> \o SubSeq(recent, 1, Bits - 1)
  BY DEF UpdateFlappingStatus, c
<1>2. flappingIndex' = IF flappingIndex + 1 < Bits THEN flappingIndex + 1 ELSE 0
  <2>1. flappingIndex + 1 \in Nat /\ flappingIndex + 1 < 2 * Bits BY <1>b, <1>t
  <2>2. (flappingIndex + 1) % Bits
          = IF flappingIndex + 1 < Bits THEN flappingIndex + 1 ELSE flappingIndex + 1 - Bits
    <3>1. PICK a \in Nat : a = flappingIndex + 1 BY <2>1
    <3>2. a % Bits = IF a < Bits THEN a ELSE a - Bits BY <2>1, <3>1, Wraps
    <3> QED BY <3>1, <3>2, <2>1, <1>t, <1>b
  <2> QED BY <2>2, <1>1, <1>b, <1>t
<1>3. recent' = [k \in 1..Bits |-> IF k = 1 THEN c ELSE recent[k - 1]]
  <2>1. recent \in Seq(BOOLEAN) /\ Len(recent) = Bits BY <1>b, <1>t
  <2>2. /\ SubSeq(recent, 1, Bits - 1) = [k \in 1..(Bits - 1) |-> recent[k]]
    BY <2>1, <1>b
  <2>3. SubSeq(recent, 1, Bits - 1) \in Seq(BOOLEAN) /\ Len(SubSeq(recent, 1, Bits - 1)) = Bits - 1
    BY <2>1, <1>b
  <2>4. <<c>> \in Seq(BOOLEAN) /\ Len(<<c>>) = 1 /\ <<c>>[1] = c BY <1>c
  <2>5. <<c>> \o SubSeq(recent, 1, Bits - 1) 
          = [k \in 1..Bits |-> IF k = 1 THEN c ELSE recent[k - 1]]
    BY <2>2, <2>3, <2>4, <1>b
  <2> QED BY <2>5, <1>1
<1>4. FlappingTypeOK'
  <2>1. isFlapping' \in BOOLEAN BY DEF UpdateFlappingStatus, Exceeds
  <2>2. recent' \in [1..Bits -> BOOLEAN]
    BY <1>3, <1>c, <1>t, <1>b
  <2>3. flappingIndex' \in 0..(Bits - 1) BY <1>2, <1>t, <1>b
  <2>4. flappingBuffer' \in [0..(Bits - 1) -> BOOLEAN] BY <1>1, <1>t, <1>c
  <2> QED BY <2>1, <2>2, <2>3, <2>4 DEF FlappingTypeOK
<1>5. ASSUME NEW i \in 0..(Bits - 1)
      PROVE  flappingBuffer'[(flappingIndex' + i) % Bits] = recent'[Bits - i]
  <2>1. flappingIndex' + i \in Nat /\ flappingIndex' + i < 2 * Bits BY <1>2, <1>t, <1>b
  <2>2. (flappingIndex' + i) % Bits
          = IF flappingIndex' + i < Bits THEN flappingIndex' + i ELSE flappingIndex' + i - Bits
    <3>1. PICK a \in Nat : a = flappingIndex' + i BY <2>1
    <3>2. a % Bits = IF a < Bits THEN a ELSE a - Bits BY <2>1, <3>1, Wraps
    <3> QED BY <3>1, <3>2, <2>1, <1>2, <1>t, <1>b
  <2>3. CASE i = Bits - 1
    <3>1. (flappingIndex' + i) % Bits = flappingIndex BY <2>2, <2>3, <1>2, <1>t, <1>b
    <3>2. recent'[Bits - i] = c BY <2>3, <1>3, <1>b
    <3> QED BY <3>1, <3>2, <1>1, <1>t
  <2>4. CASE i # Bits - 1
    <3>1. i + 1 \in 0..(Bits - 1) BY <2>4, <1>b
    <3>2. flappingIndex + (i + 1) \in Nat /\ flappingIndex + (i + 1) < 2 * Bits BY <1>t, <1>b, <3>1
    <3>3. (flappingIndex + (i + 1)) % Bits
            = IF flappingIndex + (i + 1) < Bits THEN flappingIndex + (i + 1)
                                                ELSE flappingIndex + (i + 1) - Bits
      <4>1. PICK a \in Nat : a = flappingIndex + (i + 1) BY <3>2
      <4>2. a % Bits = IF a < Bits THEN a ELSE a - Bits BY <3>2, <4>1, Wraps
      <4> QED BY <4>1, <4>2, <3>2, <1>t, <1>b
    <3>4. (flappingIndex' + i) % Bits = (flappingIndex + (i + 1)) % Bits
      BY <3>3, <2>2, <1>2, <1>t, <1>b
    <3>5. (flappingIndex + (i + 1)) % Bits \in 0..(Bits - 1) /\ (flappingIndex + (i + 1)) % Bits # flappingIndex
      BY <3>3, <3>1, <1>t, <1>b
    <3>6. flappingBuffer'[(flappingIndex + (i + 1)) % Bits] = flappingBuffer[(flappingIndex + (i + 1)) % Bits]
      BY <3>5, <1>1, <1>t
    <3>7. flappingBuffer[(flappingIndex + (i + 1)) % Bits] = recent[Bits - (i + 1)]
      BY <3>1 DEF FlappingInv, RingOK
    <3>8. recent'[Bits - i] = recent[Bits - (i + 1)]
      BY <1>3, <2>4, <1>b
    <3> QED BY <3>4, <3>6, <3>7, <3>8
  <2> QED BY <2>3, <2>4
<1>6. RingOK' BY <1>5 DEF RingOK
<1>7. [i \in 0..(Bits - 1) |-> recent'[Bits - i]]
        = [i \in 0..(Bits - 1) |-> flappingBuffer'[(flappingIndex' + i) % Bits]]
  BY <1>5
<1>8. Share(recent') = Current(flappingBuffer', flappingIndex')
  BY <1>7 DEF Share, Current
<1> QED BY <1>4, <1>6, <1>8 DEF FlappingInv

\* The empty ring buffer has the results before the first one: none was a change.
LEMMA FlappingStart == FlappingInit => FlappingInv
<1> SUFFICES ASSUME FlappingInit PROVE FlappingInv OBVIOUS
<1>1. Bits \in Nat /\ Bits > 0 BY Wraps
<1>2. FlappingTypeOK
  <2>1. /\ flappingBuffer \in [0..(Bits - 1) -> BOOLEAN]
        /\ recent \in [1..Bits -> BOOLEAN]
        /\ isFlapping \in BOOLEAN
    BY DEF FlappingInit
  <2>2. flappingIndex \in 0..(Bits - 1) BY <1>1 DEF FlappingInit
  <2> QED BY <2>1, <2>2 DEF FlappingTypeOK
<1>3. RingOK
  <2> SUFFICES ASSUME NEW i \in 0..(Bits - 1)
               PROVE  flappingBuffer[(flappingIndex + i) % Bits] = recent[Bits - i]
    BY DEF RingOK
  <2>1. flappingIndex + i \in Nat /\ flappingIndex + i < 2 * Bits /\ flappingIndex + i < Bits
    BY <1>1 DEF FlappingInit
  <2>2. (flappingIndex + i) % Bits \in 0..(Bits - 1) BY <2>1, Wraps
  <2>3. Bits - i \in 1..Bits BY <1>1
  <2> QED BY <2>2, <2>3 DEF FlappingInit
<1> QED BY <1>2, <1>3 DEF FlappingInv

\* The step of FlappingFollows, of one result.
FlapStep ==
    /\ isFlapping' # isFlapping =>
         IF isFlapping THEN ~Exceeds(Share(recent'), ThresholdLow)
                       ELSE Exceeds(Share(recent'), ThresholdHigh)
    /\ Exceeds(Share(recent'), ThresholdHigh) => isFlapping'
    /\ ~Exceeds(Share(recent'), ThresholdLow) => ~isFlapping'

\* Flapping begins and ends as documented (FlappingFollows), for a ring buffer of any length
\* and any thresholds of which the low one is not above the high one.
THEOREM FlapsAsDocumented ==
  ASSUME ThresholdLow <= ThresholdHigh
  PROVE  FlappingSpec => FlappingFollows
<1>1. ASSUME FlappingInv, [FlappingNext]_flappingVars
      PROVE  FlappingInv' /\ [FlapStep]_flappingVars
  <2>1. CASE UNCHANGED flappingVars
    BY <1>1, <2>1 DEF flappingVars, FlappingInv, FlappingTypeOK, RingOK
  <2>2. ASSUME NEW new \in FlappingStates, UpdateFlappingStatus(new)
        PROVE  FlappingInv' /\ FlapStep
    <3>1. FlappingInv' /\ Share(recent') = Current(flappingBuffer', flappingIndex')
      BY <1>1, <2>2, RingStep
    <3>2. isFlapping' = Exceeds(Share(recent'), IF isFlapping THEN ThresholdLow ELSE ThresholdHigh)
      BY <2>2, <3>1 DEF UpdateFlappingStatus
    <3>3. Exceeds(Share(recent'), ThresholdHigh) => Exceeds(Share(recent'), ThresholdLow)
      <4>1. PICK total \in Nat : total = Share(recent') BY TotalIsNatural DEF Share
      <4>2. {Bits, ThresholdLow, ThresholdHigh} \subseteq Nat BY FlappingAssumption
      <4>3. ThresholdLow * Bits <= ThresholdHigh * Bits
        BY <4>2, SMTT(20)
      <4>4. ThresholdLow * Bits \in Nat /\ ThresholdHigh * Bits \in Nat BY <4>2
      <4>5. total > ThresholdHigh * Bits => total > ThresholdLow * Bits BY <4>3, <4>4
      <4> QED BY <4>1, <4>5 DEF Exceeds
    <3> QED BY <3>1, <3>2, <3>3, <1>1 DEF FlapStep, FlappingInv, FlappingTypeOK
  <2> QED BY <1>1, <2>1, <2>2 DEF FlappingNext
<1> QED BY <1>1, FlappingStart, PTL DEF FlappingSpec, FlappingFollows, FlapStep

-----------------------------------------------------------------------------
(* Notification: BeginExecuteNotification                                    *)

\* The users a recovery is told to if they were told of the problem. When a service flaps
\* its end does the same, but passes the filter on states.
Hears ==
    {u \in Users \ PeriodUsers :
        UserTypes[u] = Types /\ (EnableFlapping => UserStates[u] = States)}

\* What a user is known to be told is what they were told last.
LastStateTold(r) == \A u \in Users : r.lastState[u] # "OK" => r.told[u] = r.lastState[u]

\* Who was told of a problem is among those who are told of its end.
ToldIsNotified(r) == \A u \in Hears : r.told[u] # "OK" => u \in r.notified

\* No notification is withheld together with the one that ends what it reports.
Unconflicted(types) == \A c \in Conflicts : ~(c \subseteq types)

\* An object of which this holds
Good(r) == r \in NotificationRecord /\ Unconflicted(r.suppressed) /\ LastStateTold(r) /\ ToldIsNotified(r)

\* The state of the service and the users' periods, which BeginExecuteNotification reads.
Env == state \in States /\ away \subseteq PeriodUsers /\ inPeriod \in BOOLEAN
       /\ phase \in {"before", "within", "after"} /\ (TimesEnd \/ phase # "after")
       /\ (Period \/ inPeriod)

\* A record is a notification object if its fields are of their types.
LEMMA RecordIntro ==
  ASSUME NEW s \in SUBSET Types, NEW m \in BOOLEAN, NEW d \in BOOLEAN, NEW nn \in SUBSET Users,
         NEW l \in [Users -> States], NEW t \in [Users -> States],
         NEW se \in SUBSET (Users \X Types \X BOOLEAN), NEW dd \in BOOLEAN,
         NEW lo \in SUBSET {"neutralized", "stale", "early"}
  PROVE  [suppressed |-> s, noMore |-> m, due |-> d, notified |-> nn, lastState |-> l, told |-> t,
          sent |-> se, delayed |-> dd, lost |-> lo] \in NotificationRecord
  BY DEF NotificationRecord

\* The fields of a notification object and their types
LEMMA RecordElim ==
  ASSUME NEW r \in NotificationRecord
  PROVE  /\ r.suppressed \in SUBSET Types /\ r.noMore \in BOOLEAN /\ r.due \in BOOLEAN
         /\ r.notified \in SUBSET Users /\ r.lastState \in [Users -> States]
         /\ r.told \in [Users -> States] /\ r.sent \in SUBSET (Users \X Types \X BOOLEAN)
         /\ r.delayed \in BOOLEAN /\ r.lost \in SUBSET {"neutralized", "stale", "early"}
         /\ r = [suppressed |-> r.suppressed, noMore |-> r.noMore, due |-> r.due, notified |-> r.notified,
            lastState |-> r.lastState, told |-> r.told, sent |-> r.sent, delayed |-> r.delayed,
            lost |-> r.lost]
  BY DEF NotificationRecord

\* What Execute does to the object and to its users
Executed(e, r, type, cr, reminder) ==
    LET to == Recipients(r, type, reminder)
    IN /\ e \in NotificationRecord
       /\ to \subseteq Users
       /\ e.suppressed = r.suppressed /\ e.lost = r.lost /\ ~e.delayed
       /\ e.sent = r.sent \cup {<<u, type, reminder>> : u \in to}
       /\ e.notified = IF Ends(type, cr) THEN {}
                       ELSE IF type = "Problem" THEN r.notified \cup to ELSE r.notified
       /\ \A u \in Users :
             /\ e.lastState[u] = IF type = "Problem" /\ u \in to THEN state ELSE r.lastState[u]
             /\ e.told[u] = IF u \notin to THEN r.told[u]
                            ELSE IF type = "Problem" THEN state
                            ELSE IF Ends(type, cr) THEN "OK" ELSE r.told[u]

\* Execute, field by field
LEMMA ExecuteFields ==
  ASSUME NEW r \in NotificationRecord, NEW type \in Types, NEW cr \in States,
         NEW reminder \in BOOLEAN, state \in States
  PROVE  Executed(Execute(r, type, cr, reminder), r, type, cr, reminder)
<1> DEFINE to == Recipients(r, type, reminder)
           e == Execute(r, type, cr, reminder)
           m == IF type = "Problem" /\ ~Interval THEN TRUE
                ELSE IF Ends(type, cr) THEN FALSE ELSE r.noMore
           d == IF type = "Problem" /\ Interval THEN FALSE ELSE r.due
           l == [u \in Users |-> IF type = "Problem" /\ u \in to THEN state ELSE r.lastState[u]]
           no == IF Ends(type, cr) THEN {} ELSE IF type = "Problem" THEN r.notified \cup to ELSE r.notified
           t == [u \in Users |-> IF u \notin to THEN r.told[u]
                                 ELSE IF type = "Problem" THEN state
                                 ELSE IF Ends(type, cr) THEN "OK" ELSE r.told[u]]
           se == r.sent \cup {<<u, type, reminder>> : u \in to}
<1>1. to \subseteq Users BY DEF Recipients
<1>2. e = [suppressed |-> r.suppressed, noMore |-> m, due |-> d, notified |-> no, lastState |-> l, told |-> t,
           sent |-> se, delayed |-> FALSE, lost |-> r.lost]
  <2> HIDE DEF to, m, d, l, no, t, se
  <2>1. e = [r EXCEPT !.noMore = m, !.due = d, !.lastState = l, !.notified = no, !.told = t,
                      !.sent = se, !.delayed = FALSE]
    BY DEF Execute, to, m, d, l, no, t, se
  <2> HIDE DEF e
  <2> QED BY <2>1 DEF NotificationRecord
<1>3. "OK" \in States BY NotificationAssumption
<1>t. /\ r.suppressed \in SUBSET Types /\ r.noMore \in BOOLEAN /\ r.due \in BOOLEAN
      /\ r.notified \in SUBSET Users /\ r.lastState \in [Users -> States]
      /\ r.told \in [Users -> States] /\ r.sent \in SUBSET (Users \X Types \X BOOLEAN)
      /\ r.delayed \in BOOLEAN /\ r.lost \in SUBSET {"neutralized", "stale", "early"}
  BY RecordElim
<1>4. m \in BOOLEAN /\ d \in BOOLEAN BY <1>t
<1>5. no \in SUBSET Users BY <1>t, <1>1
<1>6. l \in [Users -> States] /\ t \in [Users -> States] BY <1>t, <1>3
<1>7. se \in SUBSET (Users \X Types \X BOOLEAN) BY <1>t, <1>1
<1> HIDE DEF to, m, d, l, no, t, se, e
<1>8. e \in NotificationRecord BY <1>2, <1>t, <1>4, <1>5, <1>6, <1>7, RecordIntro
<1>9. /\ e.suppressed = r.suppressed /\ e.lost = r.lost /\ ~e.delayed /\ e.sent = se
      /\ e.notified = no /\ e.lastState = l /\ e.told = t
  BY <1>2
<1> QED BY <1>1, <1>8, <1>9 DEF Executed, to, e, l, no, t, se

\* ForgetStates changes nothing but the states that are known.
LEMMA ForgetFields ==
  ASSUME NEW r \in NotificationRecord, NEW type \in Types, NEW cr \in States
  PROVE  LET e == ForgetStates(r, type, cr)
         IN /\ e \in NotificationRecord
            /\ e.suppressed = r.suppressed /\ e.notified = r.notified /\ e.told = r.told
            /\ e.sent = r.sent /\ e.delayed = r.delayed /\ e.lost = r.lost /\ e.due = r.due
            /\ \A u \in Users : e.lastState[u] = IF Ends(type, cr) THEN "OK" ELSE r.lastState[u]
<1> DEFINE l == [u \in Users |-> "OK"]
           x == [r EXCEPT !.lastState = l]
<1>1. l \in [Users -> States] BY NotificationAssumption
<1>2. /\ r.suppressed \in SUBSET Types /\ r.noMore \in BOOLEAN /\ r.due \in BOOLEAN
      /\ r.notified \in SUBSET Users /\ r.lastState \in [Users -> States]
      /\ r.told \in [Users -> States] /\ r.sent \in SUBSET (Users \X Types \X BOOLEAN)
      /\ r.delayed \in BOOLEAN /\ r.lost \in SUBSET {"neutralized", "stale", "early"}
  BY RecordElim
<1>3. CASE Ends(type, cr)
  <2>1. ForgetStates(r, type, cr) = x BY <1>3 DEF ForgetStates
  <2> HIDE DEF l
  <2>2. x = [suppressed |-> r.suppressed, noMore |-> r.noMore, due |-> r.due, notified |-> r.notified,
             lastState |-> l, told |-> r.told, sent |-> r.sent, delayed |-> r.delayed, lost |-> r.lost]
    BY DEF NotificationRecord
  <2> HIDE DEF x
  <2>3. x \in NotificationRecord BY <2>2, <1>1, <1>2, RecordIntro
  <2>4. /\ x.suppressed = r.suppressed /\ x.notified = r.notified /\ x.told = r.told
        /\ x.sent = r.sent /\ x.delayed = r.delayed /\ x.lost = r.lost /\ x.due = r.due /\ x.lastState = l
    BY <2>2
  <2>5. \A u \in Users : x.lastState[u] = "OK" BY <2>4 DEF l
  <2> QED BY <2>1, <2>3, <2>4, <2>5, <1>3
<1>4. CASE ~Ends(type, cr)
  BY <1>4 DEF ForgetStates
<1> QED BY <1>3, <1>4

\* Of the two that would conflict neither is kept, and nothing else is dropped.
LEMMA NeutralizeFacts ==
  ASSUME NEW types \in SUBSET Types, NEW type \in Types, Unconflicted(types)
  PROVE  LET new == Neutralize(types \cup {type})
         IN /\ new \in SUBSET Types /\ new \subseteq types \cup {type} /\ Unconflicted(new)
            /\ type \notin new => /\ type = "Recovery" => "Problem" \in types
                                  /\ type = "Problem" => "Recovery" \in types
<1> DEFINE all == types \cup {type}
           hit == UNION {c \in Conflicts : c \subseteq all}
<1>1. Neutralize(all) = all \ hit BY DEF Neutralize
<1>2. ASSUME NEW c \in Conflicts, c \subseteq all \ hit PROVE FALSE
  <2>1. c \subseteq all /\ c \subseteq hit BY <1>2
  <2>2. c # {} BY <1>2 DEF Conflicts
  <2> QED BY <1>2, <2>1, <2>2
<1>3. Unconflicted(all \ hit) BY <1>2 DEF Unconflicted
<1>4. ASSUME type \notin all \ hit
      PROVE  /\ type = "Recovery" => "Problem" \in types
             /\ type = "Problem" => "Recovery" \in types
  <2>1. PICK c \in Conflicts : c \subseteq all /\ type \in c BY <1>4
  <2>2. c = {"Problem", "Recovery"} \/ c = {"FlappingStart", "FlappingEnd"} BY DEF Conflicts
  <2> QED BY <2>1, <2>2
<1>5. all \ hit \in SUBSET Types OBVIOUS
<1> HIDE DEF hit
<1> QED BY <1>1, <1>3, <1>4, <1>5

\* What Suppress does to the object
Withheld(e, r, type, reminder) ==
    /\ e \in NotificationRecord /\ Unconflicted(e.suppressed)
    /\ e.notified = r.notified /\ e.told = r.told /\ e.lastState = r.lastState
    /\ e.sent = r.sent /\ e.delayed = r.delayed /\ r.lost \subseteq e.lost
    /\ e.suppressed \subseteq r.suppressed \cup {type}
    /\ reminder => e = r
    /\ ~reminder /\ type \notin e.suppressed /\ e.lost = {} /\ type \in {"Problem", "Recovery"}
         => type = "Recovery" /\ r.notified = {}

\* Suppress, field by field
LEMMA SuppressFields ==
  ASSUME NEW r \in NotificationRecord, NEW type \in Types, NEW reminder \in BOOLEAN,
         Unconflicted(r.suppressed)
  PROVE  Withheld(Suppress(r, type, reminder), r, type, reminder)
<1> DEFINE new == Neutralize(r.suppressed \cup {type})
           lo == IF type \notin new /\ (type # "Recovery" \/ r.notified # {})
                 THEN r.lost \cup {"neutralized"} ELSE r.lost
           x == [r EXCEPT !.suppressed = new, !.lost = lo]
<1>2. /\ r.suppressed \in SUBSET Types /\ r.noMore \in BOOLEAN /\ r.due \in BOOLEAN
      /\ r.notified \in SUBSET Users /\ r.lastState \in [Users -> States]
      /\ r.told \in [Users -> States] /\ r.sent \in SUBSET (Users \X Types \X BOOLEAN)
      /\ r.delayed \in BOOLEAN /\ r.lost \in SUBSET {"neutralized", "stale", "early"}
  BY RecordElim
<1>3. new \in SUBSET Types /\ new \subseteq r.suppressed \cup {type} /\ Unconflicted(new)
  BY <1>2, NeutralizeFacts
<1>4. lo \in SUBSET {"neutralized", "stale", "early"} BY <1>2
<1>5. CASE ~reminder
  <2>1. Suppress(r, type, reminder) = x BY <1>5 DEF Suppress
  <2>7. lo = {} /\ type \notin new => type = "Recovery" /\ r.notified = {} OBVIOUS
  <2>8. r.lost \subseteq lo OBVIOUS
  <2> HIDE DEF lo, new
  <2>4. /\ x \in NotificationRecord
        /\ x.suppressed = new /\ x.notified = r.notified /\ x.told = r.told
        /\ x.sent = r.sent /\ x.delayed = r.delayed /\ x.lost = lo /\ x.lastState = r.lastState
    <3>1. x \in NotificationRecord BY <1>3, <1>4 DEF NotificationRecord
    <3>2. x.suppressed = new /\ x.lost = lo BY DEF NotificationRecord
    <3>3. x.delayed = r.delayed BY DEF NotificationRecord
    <3>4. x.notified = r.notified /\ x.lastState = r.lastState /\ x.told = r.told /\ x.sent = r.sent
      BY DEF NotificationRecord
    <3> QED BY <3>1, <3>2, <3>3, <3>4
  <2> HIDE DEF x
  <2> QED BY <2>1, <2>4, <2>7, <2>8, <1>3, <1>5 DEF Withheld
<1>6. CASE reminder
  <2>1. Suppress(r, type, reminder) = r BY <1>6 DEF Suppress
  <2> QED BY <2>1, <1>6 DEF Withheld
<1> QED BY <1>5, <1>6

\* The three fields a problem before times.begin sets.
LEMMA DelayFields ==
  ASSUME NEW r \in NotificationRecord
  PROVE  LET x == [r EXCEPT !.due = FALSE, !.noMore = FALSE, !.delayed = TRUE]
         IN /\ x \in NotificationRecord
            /\ x.suppressed = r.suppressed /\ x.lost = r.lost /\ x.delayed
            /\ x.notified = r.notified /\ x.lastState = r.lastState /\ x.told = r.told
            /\ x.sent = r.sent
<1> DEFINE x == [r EXCEPT !.due = FALSE, !.noMore = FALSE, !.delayed = TRUE]
<1>1. x \in NotificationRecord BY DEF NotificationRecord
<1>2. x.delayed BY DEF NotificationRecord
<1>3. /\ x.suppressed = r.suppressed /\ x.lost = r.lost
      /\ x.notified = r.notified /\ x.lastState = r.lastState /\ x.told = r.told
      /\ x.sent = r.sent
  BY DEF NotificationRecord
<1> QED BY <1>1, <1>2, <1>3

\* What a filtered end of a problem resets
LEMMA NoMoreFields ==
  ASSUME NEW r \in NotificationRecord
  PROVE  LET x == [r EXCEPT !.noMore = FALSE]
         IN /\ x \in NotificationRecord
            /\ x.suppressed = r.suppressed /\ x.lost = r.lost /\ x.delayed = r.delayed
            /\ x.notified = r.notified /\ x.lastState = r.lastState /\ x.told = r.told
            /\ x.sent = r.sent
<1> DEFINE x == [r EXCEPT !.noMore = FALSE]
<1>1. x \in NotificationRecord BY DEF NotificationRecord
<1>2. x.delayed = r.delayed BY DEF NotificationRecord
<1>3. /\ x.suppressed = r.suppressed /\ x.lost = r.lost
      /\ x.notified = r.notified /\ x.lastState = r.lastState /\ x.told = r.told
      /\ x.sent = r.sent
  BY DEF NotificationRecord
<1> QED BY <1>1, <1>2, <1>3

\* The ways through BeginExecuteNotification, after the states were forgotten
Begun(e, r, type, cr, reminder) ==
    \/ ~inPeriod /\ e = Suppress(r, type, reminder)
    \/ /\ inPeriod /\ type = "Problem" /\ phase = "before"
       /\ e = [r EXCEPT !.due = FALSE, !.noMore = FALSE, !.delayed = TRUE]
    \/ /\ inPeriod
       /\ \/ type = "Problem" /\ phase = "after"
          \/ type \notin TypeFilter
          \/ type = "Problem" /\ state \notin StateFilter
       /\ e = r \/ e = [r EXCEPT !.noMore = FALSE]
    \/ /\ inPeriod /\ type \in TypeFilter
       /\ type = "Problem" => phase = "within" /\ state \in StateFilter
       /\ e = Execute(r, type, cr, reminder)

\* BeginExecuteNotification takes one of these ways.
LEMMA BeginCases ==
  ASSUME NEW r0, NEW type \in Types, NEW cr \in States, NEW reminder \in BOOLEAN, Env
  PROVE  Begun(BeginExecuteNotification(r0, type, cr, reminder), ForgetStates(r0, type, cr),
               type, cr, reminder)
<1> DEFINE r == ForgetStates(r0, type, cr)
           e == BeginExecuteNotification(r0, type, cr, reminder)
<1>0. phase \in {"before", "within", "after"} /\ inPeriod \in BOOLEAN BY DEF Env
<1> HIDE DEF r
<1>1. CASE ~inPeriod
  <2>1. e = Suppress(r, type, reminder) BY <1>1 DEF BeginExecuteNotification, r
  <2> QED BY <1>1, <2>1 DEF r, Begun
<1>2. CASE inPeriod /\ type = "Problem" /\ phase = "before"
  <2>1. e = [r EXCEPT !.due = FALSE, !.noMore = FALSE, !.delayed = TRUE]
    BY <1>2 DEF BeginExecuteNotification, r
  <2> QED BY <1>2, <2>1 DEF r, Begun
<1>3. CASE inPeriod /\ type = "Problem" /\ phase = "after"
  <2>1. e = r BY <1>3 DEF BeginExecuteNotification, r
  <2> QED BY <1>3, <2>1 DEF r, Begun
<1>4. CASE inPeriod /\ ~(type = "Problem" /\ phase # "within") /\ type \notin TypeFilter
  <2>1. e = r \/ e = [r EXCEPT !.noMore = FALSE]
    BY <1>4 DEF BeginExecuteNotification, r
  <2> QED BY <1>4, <2>1 DEF r, Begun
<1>5. CASE inPeriod /\ type = "Problem" /\ phase = "within" /\ type \in TypeFilter /\ state \notin StateFilter
  <2>1. e = r BY <1>5 DEF BeginExecuteNotification, r
  <2> QED BY <1>5, <2>1 DEF r, Begun
<1>6. CASE inPeriod /\ ~(type = "Problem" /\ phase # "within") /\ type \in TypeFilter
           /\ ~(type = "Problem" /\ state \notin StateFilter)
  <2>1. e = Execute(r, type, cr, reminder) BY <1>6 DEF BeginExecuteNotification, r
  <2> QED BY <1>6, <2>1 DEF r, Begun
<1> QED BY <1>0, <1>1, <1>2, <1>3, <1>4, <1>5, <1>6

\* What BeginExecuteNotification leaves alone, adds or keeps consistent
Keeps(e, r0, type, reminder) ==
    /\ Good(e)
    /\ r0.lost \subseteq e.lost
    /\ e.suppressed \subseteq r0.suppressed \cup {type}
    /\ e.sent \subseteq r0.sent \cup {<<u, type, reminder>> : u \in Users}
    /\ inPeriod => e.suppressed = r0.suppressed /\ e.lost = r0.lost

\* Whatever is executed, withheld or dropped: who is told what stays consistent.
LEMMA BeginGood ==
  ASSUME NEW r0, Good(r0), NEW type \in Types, NEW cr \in States,
         NEW reminder \in BOOLEAN, Env, EnableFlapping \/ type \in {"Problem", "Recovery"}
  PROVE  Keeps(BeginExecuteNotification(r0, type, cr, reminder), r0, type, reminder)
<1> DEFINE r == ForgetStates(r0, type, cr)
           e == BeginExecuteNotification(r0, type, cr, reminder)
<1>1. r0 \in NotificationRecord /\ Unconflicted(r0.suppressed) /\ LastStateTold(r0) /\ ToldIsNotified(r0)
  BY DEF Good
<1>2. /\ r \in NotificationRecord
      /\ r.suppressed = r0.suppressed /\ r.notified = r0.notified /\ r.told = r0.told
      /\ r.lost = r0.lost /\ r.sent = r0.sent
      /\ \A u \in Users : r.lastState[u] = IF Ends(type, cr) THEN "OK" ELSE r0.lastState[u]
  BY <1>1, ForgetFields
<1>3. Begun(e, r, type, cr, reminder) BY <1>1, BeginCases
<1> HIDE DEF r, e
<1>4. LastStateTold(r) /\ ToldIsNotified(r) /\ Unconflicted(r.suppressed)
  BY <1>1, <1>2 DEF LastStateTold, ToldIsNotified
<1>5. CASE ~inPeriod /\ e = Suppress(r, type, reminder)
  <2>1. /\ e \in NotificationRecord /\ Unconflicted(e.suppressed)
        /\ e.notified = r.notified /\ e.told = r.told /\ e.lastState = r.lastState
        /\ r.lost \subseteq e.lost /\ e.sent = r.sent /\ e.suppressed \subseteq r.suppressed \cup {type}
    <3>1. Withheld(e, r, type, reminder) BY <1>2, <1>4, <1>5, SuppressFields
    <3> QED BY <3>1 DEF Withheld
  <2>2. LastStateTold(e) /\ ToldIsNotified(e) BY <2>1, <1>4 DEF LastStateTold, ToldIsNotified
  <2> QED BY <1>2, <1>5, <2>1, <2>2 DEF Keeps, Good, e
<1>6. CASE /\ inPeriod /\ e \in NotificationRecord
           /\ e.suppressed = r.suppressed /\ e.lost = r.lost /\ e.sent = r.sent
           /\ e.notified = r.notified /\ e.lastState = r.lastState /\ e.told = r.told
  <2>2. LastStateTold(e) /\ ToldIsNotified(e) BY <1>6, <1>4 DEF LastStateTold, ToldIsNotified
  <2> QED BY <1>2, <1>6, <1>4, <2>2 DEF Keeps, Good, e
<1>7. CASE inPeriod /\ e = [r EXCEPT !.due = FALSE, !.noMore = FALSE, !.delayed = TRUE]
  BY <1>6, <1>7, <1>2, DelayFields
<1>8. CASE inPeriod /\ (e = r \/ e = [r EXCEPT !.noMore = FALSE])
  BY <1>6, <1>8, <1>2, NoMoreFields
<1>9. CASE inPeriod /\ type \in TypeFilter /\ e = Execute(r, type, cr, reminder)
  <2> DEFINE to == Recipients(r, type, reminder)
  <2>0. state \in States /\ away \subseteq PeriodUsers BY DEF Env
  <2>1. /\ e \in NotificationRecord /\ to \subseteq Users
        /\ e.suppressed = r.suppressed /\ e.lost = r.lost
        /\ e.sent = r.sent \cup {<<u, type, reminder>> : u \in to}
        /\ e.notified = IF Ends(type, cr) THEN {}
                        ELSE IF type = "Problem" THEN r.notified \cup to ELSE r.notified
        /\ \A u \in Users :
              /\ e.lastState[u] = IF type = "Problem" /\ u \in to THEN state ELSE r.lastState[u]
              /\ e.told[u] = IF u \notin to THEN r.told[u]
                             ELSE IF type = "Problem" THEN state
                             ELSE IF Ends(type, cr) THEN "OK" ELSE r.told[u]
    <3>1. Executed(e, r, type, cr, reminder) BY <2>0, <1>2, <1>9, ExecuteFields
    <3> QED BY <3>1 DEF Executed
  <2> HIDE DEF to
  <2>2. Ends(type, cr) => type # "Problem" BY DEF Ends
  <2>3. LastStateTold(e)
    <3> SUFFICES ASSUME NEW u \in Users, e.lastState[u] # "OK" PROVE e.told[u] = e.lastState[u]
      BY DEF LastStateTold
    <3>1. CASE Ends(type, cr) BY <3>1, <2>1, <2>2, <1>2
    <3>2. CASE ~Ends(type, cr) BY <3>2, <2>1, <1>4 DEF LastStateTold
    <3> QED BY <3>1, <3>2
  <2>4. ToldIsNotified(e)
    <3> SUFFICES ASSUME NEW u \in Hears, e.told[u] # "OK" PROVE u \in e.notified
      BY DEF ToldIsNotified
    <3>1. u \in Users /\ u \notin away /\ UserTypes[u] = Types /\ (EnableFlapping => UserStates[u] = States)
      BY <2>0 DEF Hears
    <3>2. r.told[u] # "OK" => u \in r.notified BY <1>4 DEF ToldIsNotified
    <3>3. CASE Ends(type, cr)
      <4>1. u \notin to /\ e.told[u] = r.told[u] BY <3>3, <3>1, <2>1, <2>2
      <4>2. u \in r.notified BY <4>1, <3>2
      <4>3. type # "Problem" BY <3>3, <2>2
      <4>4. ~UserAccepts(u, type) BY <4>1, <4>2, <4>3, <3>1 DEF to, Recipients
      <4>5. type # "Recovery" /\ state \notin UserStates[u] BY <4>4, <3>1 DEF UserAccepts
      <4>6. EnableFlapping BY <4>5, <4>3
      <4> QED BY <4>5, <4>6, <3>1, <2>0
    <3>4. CASE ~Ends(type, cr) BY <3>4, <3>1, <3>2, <2>1
    <3> QED BY <3>3, <3>4
  <2> QED BY <1>2, <1>4, <1>9, <2>1, <2>3, <2>4 DEF Keeps, Good, e
<1> QED BY <1>3, <1>5, <1>7, <1>8, <1>9 DEF Begun

-----------------------------------------------------------------------------
\* A notification object without filters and end, for a service that does not flap.
Unfiltered ==
    /\ {"Problem", "Recovery"} \subseteq TypeFilter
    /\ States \ {"OK"} \subseteq StateFilter
    /\ ~TimesEnd /\ ~EnableFlapping

\* A problem is told to plain users, or is known to be late.
LEMMA ProblemTells ==
  ASSUME NEW r0, Good(r0), NEW cr \in States, NEW reminder \in BOOLEAN, Env, Unfiltered,
         state # "OK", NEW e, e = BeginExecuteNotification(r0, "Problem", cr, reminder), e.lost = {},
         NEW u \in PlainUsers
  PROVE  e.told[u] = state \/ e.delayed \/ "Problem" \in e.suppressed \/ (reminder /\ e = r0)
<1> DEFINE type == "Problem"
           r == ForgetStates(r0, type, cr)
<1>1. r0 \in NotificationRecord /\ Unconflicted(r0.suppressed) /\ LastStateTold(r0) /\ ToldIsNotified(r0)
  BY DEF Good
<1>2. r = r0 BY DEF ForgetStates, Ends
<1>3. type \in Types BY DEF Types
<1>4. Begun(e, r, type, cr, reminder) BY <1>3, BeginCases
<1> HIDE DEF r, type
<1>t. type = "Problem" BY DEF type
<1>5. /\ inPeriod \in BOOLEAN /\ phase \in {"before", "within", "after"} /\ phase # "after"
      /\ type \in TypeFilter /\ state \in StateFilter /\ state \in States
      /\ away \subseteq PeriodUsers
  BY <1>t DEF Env, Unfiltered
<1>6. CASE ~inPeriod /\ e = Suppress(r, type, reminder)
  <2>1. Withheld(e, r, type, reminder) BY <1>6, <1>1, <1>2, <1>3, SuppressFields
  <2> QED BY <2>1, <1>2, <1>t DEF Withheld
<1>7. CASE e = [r EXCEPT !.due = FALSE, !.noMore = FALSE, !.delayed = TRUE]
  BY <1>7, <1>1, <1>2, DelayFields
<1>8. CASE e = Execute(r, type, cr, reminder)
  <2>1. Executed(e, r, type, cr, reminder) BY <1>8, <1>1, <1>2, <1>3, <1>5, ExecuteFields
  <2>2. u \in Users /\ u \notin away /\ UserTypes[u] = Types /\ UserStates[u] = States
    BY <1>5 DEF PlainUsers
  <2>3. CASE u \in Recipients(r, type, reminder)
    BY <2>1, <2>2, <2>3, <1>t DEF Executed
  <2>4. CASE u \notin Recipients(r, type, reminder)
    <3>1. UserAccepts(u, type) BY <2>2, <1>3, <1>5, <1>t DEF UserAccepts
    <3>2. state = r.lastState[u] BY <2>4, <2>2, <3>1, <1>t DEF Recipients
    <3>3. r.told[u] = state BY <3>2, <2>2, <1>1, <1>2 DEF LastStateTold
    <3>4. e.told[u] = r.told[u] BY <2>1, <2>2, <2>4 DEF Executed
    <3> QED BY <3>3, <3>4
  <2> QED BY <2>3, <2>4
<1> QED BY <1>4, <1>5, <1>6, <1>7, <1>8, <1>t DEF Begun

\* A recovery is told to everybody who was told of the problem, or waits.
LEMMA RecoveryTells ==
  ASSUME NEW r0, Good(r0), NEW cr \in States, Env, "Recovery" \in TypeFilter,
         NEW e, e = BeginExecuteNotification(r0, "Recovery", cr, FALSE), e.lost = {},
         NEW u \in Hears
  PROVE  e.told[u] = "OK" \/ "Recovery" \in e.suppressed
<1> DEFINE type == "Recovery"
           r == ForgetStates(r0, type, cr)
<1>1. r0 \in NotificationRecord /\ Unconflicted(r0.suppressed) /\ LastStateTold(r0) /\ ToldIsNotified(r0)
  BY DEF Good
<1>3. type \in Types /\ Ends(type, cr) BY DEF Types, Ends
<1>2. /\ r \in NotificationRecord
      /\ r.suppressed = r0.suppressed /\ r.notified = r0.notified /\ r.told = r0.told
  BY <1>1, <1>3, ForgetFields
<1>4. Begun(e, r, type, cr, FALSE) BY <1>3, BeginCases
<1> HIDE DEF r, type
<1>t. type = "Recovery" BY DEF type
<1>5. /\ inPeriod \in BOOLEAN /\ state \in States /\ away \subseteq PeriodUsers
  BY DEF Env
<1>9. r.told[u] # "OK" => u \in r.notified BY <1>1, <1>2 DEF ToldIsNotified
<1>6. CASE ~inPeriod /\ e = Suppress(r, type, FALSE)
  <2>1. Unconflicted(r.suppressed) BY <1>1, <1>2
  <2>2. /\ e.told = r.told
        /\ type \notin e.suppressed /\ e.lost = {} /\ type \in {"Problem", "Recovery"} => r.notified = {}
    <3>1. Withheld(e, r, type, FALSE) BY <1>6, <2>1, <1>2, <1>3, SuppressFields
    <3> QED BY <3>1 DEF Withheld
  <2> QED BY <2>2, <1>9, <1>t
<1>8. CASE e = Execute(r, type, cr, FALSE)
  <2>1. Executed(e, r, type, cr, FALSE) BY <1>8, <1>2, <1>3, <1>5, ExecuteFields
  <2>2. u \in Users /\ u \notin away /\ UserTypes[u] = Types
    BY <1>5 DEF Hears
  <2>3. CASE u \in Recipients(r, type, FALSE)
    BY <2>1, <2>2, <2>3, <1>t, <1>3 DEF Executed
  <2>4. CASE u \notin Recipients(r, type, FALSE)
    <3>1. UserAccepts(u, type) BY <2>2, <1>3, <1>t DEF UserAccepts
    <3>2. u \notin r.notified BY <2>4, <2>2, <3>1, <1>t DEF Recipients
    <3>4. e.told[u] = r.told[u] BY <2>1, <2>2, <2>4 DEF Executed
    <3> QED BY <3>2, <3>4, <1>9
  <2> QED BY <2>3, <2>4
<1> QED BY <1>4, <1>5, <1>6, <1>8, <1>t DEF Begun

\* Without a time period the states are forgotten when the problem ends and not before.
Forgets == ~Period /\ {"Recovery", "FlappingEnd"} \subseteq TypeFilter

\* What a plain user was told is known.
Known(r) == \A u \in PlainUsers : r.told[u] # "OK" => r.lastState[u] = r.told[u]

\* What is known stays what was told, and nobody is told again what is known.
LEMMA BeginKnown ==
  ASSUME NEW r0, Good(r0), Known(r0), NEW type \in Types, NEW cr \in States,
         NEW reminder \in BOOLEAN, Env, Forgets,
         NEW e, e = BeginExecuteNotification(r0, type, cr, reminder)
  PROVE  /\ Known(e)
         /\ \A u \in PlainUsers : <<u, "Problem", FALSE>> \in e.sent
               => <<u, "Problem", FALSE>> \in r0.sent \/ e.told[u] # r0.told[u] \/ e.told[u] = "OK"
<1> DEFINE r == ForgetStates(r0, type, cr)
<1>1. r0 \in NotificationRecord /\ ToldIsNotified(r0)
  BY DEF Good
<1>2. /\ r \in NotificationRecord
      /\ r.notified = r0.notified /\ r.told = r0.told /\ r.sent = r0.sent
      /\ \A u \in Users : r.lastState[u] = IF Ends(type, cr) THEN "OK" ELSE r0.lastState[u]
  BY <1>1, ForgetFields
<1>4. Begun(e, r, type, cr, reminder) BY BeginCases
<1> HIDE DEF r
<1>5. /\ inPeriod /\ state \in States /\ away \subseteq PeriodUsers
  BY DEF Env, Forgets
<1>6. Ends(type, cr) => type \in TypeFilter /\ type # "Problem" BY DEF Ends, Forgets
<1>u. ASSUME NEW u \in PlainUsers
      PROVE  u \in Users /\ u \notin away /\ UserTypes[u] = Types /\ UserStates[u] = States /\ u \in Hears
  BY <1>5 DEF PlainUsers, Hears
<1>7. CASE /\ ~Ends(type, cr) \/ type \notin TypeFilter
           /\ e.lastState = r.lastState /\ e.told = r.told /\ e.sent = r.sent
  BY <1>7, <1>2, <1>6, <1>u DEF Known
<1>8. CASE type = "Problem" /\ e = [r EXCEPT !.due = FALSE, !.noMore = FALSE, !.delayed = TRUE]
  <2>1. e.lastState = r.lastState /\ e.told = r.told /\ e.sent = r.sent BY <1>8, <1>2, DelayFields
  <2> QED BY <2>1, <1>7, <1>8, <1>6
<1>9. CASE (type = "Problem" \/ type \notin TypeFilter) /\ (e = r \/ e = [r EXCEPT !.noMore = FALSE])
  <2>1. e.lastState = r.lastState /\ e.told = r.told /\ e.sent = r.sent BY <1>9, <1>2, NoMoreFields
  <2> QED BY <2>1, <1>7, <1>9, <1>6
<1>10. CASE e = Execute(r, type, cr, reminder)
  <2> DEFINE to == Recipients(r, type, reminder)
  <2>1. Executed(e, r, type, cr, reminder) BY <1>10, <1>2, <1>5, ExecuteFields
  <2> HIDE DEF to
  <2>2. /\ e.sent = r.sent \cup {<<u, type, reminder>> : u \in to}
        /\ \A u \in Users :
             /\ e.lastState[u] = IF type = "Problem" /\ u \in to THEN state ELSE r.lastState[u]
             /\ e.told[u] = IF u \notin to THEN r.told[u]
                            ELSE IF type = "Problem" THEN state
                            ELSE IF Ends(type, cr) THEN "OK" ELSE r.told[u]
    BY <2>1 DEF Executed, to
  <2>3. ASSUME NEW u \in PlainUsers, e.told[u] # "OK" PROVE e.lastState[u] = e.told[u]
    <3>0. u \in Users /\ u \notin away /\ UserTypes[u] = Types /\ UserStates[u] = States /\ u \in Hears
      BY <1>u
    <3>1. CASE Ends(type, cr)
      <4>1. u \notin to /\ e.told[u] = r.told[u] BY <3>1, <3>0, <2>2, <2>3, <1>6
      <4>2. u \in r.notified BY <4>1, <2>3, <3>0, <1>1, <1>2 DEF ToldIsNotified
      <4>3. UserAccepts(u, type) BY <3>0, <1>5 DEF UserAccepts
      <4>4. u \in to BY <4>2, <4>3, <3>0, <3>1, <1>6 DEF to, Recipients
      <4> QED BY <4>1, <4>4
    <3>2. CASE ~Ends(type, cr)
      BY <3>2, <3>0, <2>2, <2>3, <1>2 DEF Known
    <3> QED BY <3>1, <3>2
  <2>4. ASSUME NEW u \in PlainUsers, <<u, "Problem", FALSE>> \in e.sent, <<u, "Problem", FALSE>> \notin r0.sent,
               e.told[u] = r0.told[u], e.told[u] # "OK"
        PROVE  FALSE
    <3>0. u \in Users BY <1>u
    <3>1. type = "Problem" /\ ~reminder /\ u \in to BY <2>4, <2>2, <1>2
    <3>2. e.told[u] = state BY <3>0, <3>1, <2>2
    <3>3. state # r.lastState[u] BY <3>1 DEF to, Recipients
    <3>4. ~Ends(type, cr) BY <3>1, <1>6
    <3>5. r.lastState[u] = r0.lastState[u] BY <3>4, <3>0, <1>2
    <3> QED BY <2>4, <3>2, <3>3, <3>5 DEF Known
  <2> QED BY <2>3, <2>4 DEF Known
<1> QED BY <1>4, <1>5, <1>8, <1>9, <1>10 DEF Begun

-----------------------------------------------------------------------------
\* The types that occur
Allowed == IF EnableFlapping THEN Types ELSE {"Problem", "Recovery"}

\* An object between two steps: the types it withholds occur, and without a time period
\* it withholds none and knows what was told.
Fine(r) ==
    /\ Good(r)
    /\ r.suppressed \subseteq Allowed
    /\ Forgets => Known(r) /\ r.suppressed = {}

\* What occurs is a type, and without flapping it is about the state.
LEMMA AllowedTypes ==
  ASSUME NEW type \in Allowed
  PROVE  type \in Types /\ (EnableFlapping \/ type \in {"Problem", "Recovery"})
  BY DEF Allowed, Types

\* BeginExecuteNotification leaves such an object.
LEMMA BeginFine ==
  ASSUME NEW r0, Fine(r0), NEW type \in Allowed, NEW cr \in States, NEW reminder \in BOOLEAN, Env
  PROVE  /\ Fine(BeginExecuteNotification(r0, type, cr, reminder))
         /\ Keeps(BeginExecuteNotification(r0, type, cr, reminder), r0, type, reminder)
<1> DEFINE e == BeginExecuteNotification(r0, type, cr, reminder)
<1>1. type \in Types /\ (EnableFlapping \/ type \in {"Problem", "Recovery"}) BY AllowedTypes
<1>2. Keeps(e, r0, type, reminder) BY <1>1, BeginGood DEF Fine
<1>3. e.suppressed \subseteq Allowed BY <1>2 DEF Keeps, Fine
<1>4. ASSUME Forgets PROVE Known(e) /\ e.suppressed = {}
  <2>1. inPeriod BY <1>4 DEF Forgets, Env
  <2>2. e.suppressed = {} BY <2>1, <1>2, <1>4 DEF Keeps, Fine
  <2>3. Known(e) BY <1>1, <1>4, BeginKnown DEF Fine
  <2> QED BY <2>2, <2>3
<1> QED BY <1>2, <1>3, <1>4 DEF Fine, Keeps



\* The stash is worked off: what there is after each of its entries.
Accumulates(f, r, k) ==
    f = [i \in 0..k |->
           IF i = 0 THEN r
           ELSE BeginExecuteNotification(f[i - 1], stash[i].type, stash[i].cr, FALSE)]

\* The recursion is well defined for a stash of any length.
LEMMA AccumulatesExists ==
  ASSUME NEW r, NEW k \in Nat
  PROVE  \E f : Accumulates(f, r, k)
<1> DEFINE begin(x, i) == BeginExecuteNotification(x, stash[i].type, stash[i].cr, FALSE)
<1> HIDE DEF begin
<1>0. \A f, m : Accumulates(f, r, m) <=> f = [i \in 0..m |-> IF i = 0 THEN r ELSE begin(f[i - 1], i)]
  BY DEF Accumulates, begin
<1> DEFINE Bad == {m \in Nat : ~\E f : f = [i \in 0..m |-> IF i = 0 THEN r ELSE begin(f[i - 1], i)]}
<1>1. SUFFICES ASSUME Bad # {} PROVE FALSE
  <2>1. Bad = {} => \E f : f = [i \in 0..k |-> IF i = 0 THEN r ELSE begin(f[i - 1], i)] OBVIOUS
  <2> HIDE DEF Bad
  <2> QED BY <2>1, <1>0
<1>2. PICK m \in Bad : \A j \in Bad : m <= j BY <1>1, NatMin
<1>3. CASE m = 0
  <2> DEFINE g == [i \in 0..m |-> r]
  <2>1. g = [i \in 0..m |-> IF i = 0 THEN r ELSE begin(g[i - 1], i)] BY <1>3
  <2> QED BY <2>1
<1>4. CASE m # 0
  <2>1. m - 1 \in Nat /\ m \in Nat BY <1>4
  <2>2. m - 1 \notin Bad BY <2>1, <1>2
  <2>3. PICK f : f = [i \in 0..(m - 1) |-> IF i = 0 THEN r ELSE begin(f[i - 1], i)] BY <2>1, <2>2
  <2> DEFINE g == [i \in 0..m |-> IF i = m THEN begin(f[m - 1], m) ELSE f[i]]
  <2>4. ASSUME NEW i \in 0..m
        PROVE  g[i] = IF i = 0 THEN r ELSE begin(g[i - 1], i)
    <3>1. CASE i = m
      BY <3>1, <1>4, <2>1
    <3>2. CASE i # m
      <4>1. i \in 0..(m - 1) BY <3>2, <2>1
      <4>2. g[i] = f[i] BY <3>2
      <4>3. f[i] = IF i = 0 THEN r ELSE begin(f[i - 1], i) BY <4>1, <2>3
      <4>4. i # 0 => i - 1 \in 0..m /\ i - 1 # m BY <4>1, <2>1
      <4>5. i # 0 => g[i - 1] = f[i - 1] BY <4>4
      <4> QED BY <4>2, <4>3, <4>5
    <3> QED BY <3>1, <3>2
  <2>6. g = [i \in 0..m |-> g[i]] OBVIOUS
  <2> HIDE DEF g
  <2>7. g = [i \in 0..m |-> IF i = 0 THEN r ELSE begin(g[i - 1], i)] BY <2>4, <2>6
  <2> QED BY <2>7
<1> QED BY <1>3, <1>4

\* A stashed problem is executed when the service is in another state.
Stale == \E i \in DOMAIN stash : stash[i].type = "Problem" /\ stash[i].cr # state

\* The object before the first entry
Started(r) == [r EXCEPT !.lost = IF Stale THEN @ \cup {"stale"} ELSE @]

\* Unstash is the object after the last entry.
LEMMA UnstashIs ==
  ASSUME NEW r, stash \in Seq([type: Types, cr: States])
  PROVE  \E f : Accumulates(f, Started(r), Len(stash)) /\ Unstash(r) = f[Len(stash)]
<1> DEFINE F == CHOOSE f : Accumulates(f, Started(r), Len(stash))
<1>1. Len(stash) \in Nat OBVIOUS
<1>2. PICK x : x = Started(r) OBVIOUS
<1>3. \E f : Accumulates(f, x, Len(stash)) BY <1>1, AccumulatesExists
<1>4. Accumulates(F, Started(r), Len(stash)) BY <1>2, <1>3
<1>5. Unstash(r) = F[Len(stash)] BY DEF Unstash, Accumulates, Started, Stale
<1> QED BY <1>4, <1>5

\* The history of losses is no part of the object's behaviour.
LEMMA LostFields ==
  ASSUME NEW r \in NotificationRecord, NEW b \in SUBSET {"neutralized", "stale", "early"}
  PROVE  LET x == [r EXCEPT !.lost = b]
         IN /\ x \in NotificationRecord
            /\ x.suppressed = r.suppressed /\ x.lost = b /\ x.delayed = r.delayed
            /\ x.notified = r.notified /\ x.lastState = r.lastState /\ x.told = r.told
            /\ x.sent = r.sent
<1> DEFINE x == [r EXCEPT !.lost = b]
<1>1. x \in NotificationRecord BY DEF NotificationRecord
<1>2. x.delayed = r.delayed BY DEF NotificationRecord
<1>3. /\ x.suppressed = r.suppressed /\ x.lost = b
      /\ x.notified = r.notified /\ x.lastState = r.lastState /\ x.told = r.told
      /\ x.sent = r.sent
  BY DEF NotificationRecord
<1> QED BY <1>1, <1>2, <1>3

\* Of all that matters to users the two have the same.
Same(x, r) == /\ x \in NotificationRecord
              /\ x.delayed = r.delayed
              /\ x.notified = r.notified /\ x.lastState = r.lastState /\ x.told = r.told
              /\ x.sent = r.sent

\* To withhold less keeps an object fine.
LEMMA SameFine ==
  ASSUME NEW r, NEW x, Fine(r), Same(x, r), x.suppressed \subseteq r.suppressed
  PROVE  Fine(x)
<1>1. Unconflicted(x.suppressed) BY DEF Fine, Good, Unconflicted
<1>2. LastStateTold(x) /\ ToldIsNotified(x) BY DEF Fine, Good, Same, LastStateTold, ToldIsNotified
<1>3. Forgets => Known(x) BY DEF Fine, Same, Known
<1> QED BY <1>1, <1>2, <1>3 DEF Fine, Good, Same

\* The object before the first entry is the one before the round, but for the losses.
LEMMA StartedFine ==
  ASSUME NEW r, Fine(r)
  PROVE  /\ Fine(Started(r)) /\ Same(Started(r), r) /\ Started(r).suppressed = r.suppressed
         /\ Started(r).lost = IF Stale THEN r.lost \cup {"stale"} ELSE r.lost
<1> DEFINE b == IF Stale THEN r.lost \cup {"stale"} ELSE r.lost
<1>1. r \in NotificationRecord BY DEF Fine, Good
<1>2. b \in SUBSET {"neutralized", "stale", "early"} BY <1>1, RecordElim
<1>3. Started(r) = [r EXCEPT !.lost = b] BY DEF Started
<1>4. PICK c \in SUBSET {"neutralized", "stale", "early"} : c = b BY <1>2
<1>5. Started(r) = [r EXCEPT !.lost = c] BY <1>3, <1>4
<1> HIDE DEF b
<1>6. Same(Started(r), r) /\ Started(r).suppressed = r.suppressed /\ Started(r).lost = c
  BY <1>1, <1>5, LostFields DEF Same
<1>7. Fine(Started(r)) BY <1>6, SameFine
<1> QED BY <1>4, <1>6, <1>7 DEF b

\* What is stashed occurs.
StashTyped ==
    /\ stash \in Seq([type: Types, cr: States])
    /\ \A i \in DOMAIN stash : stash[i].type \in Allowed

\* The same of one entry
LEMMA StashEntry ==
  ASSUME StashTyped, NEW i \in 1..Len(stash)
  PROVE  stash[i].type \in Allowed /\ stash[i].cr \in States
<1>1. i \in DOMAIN stash BY DEF StashTyped
<1>2. stash[i].type \in Allowed BY <1>1 DEF StashTyped
<1>3. PICK S : S = [type: Types, cr: States] OBVIOUS
<1>4. stash[i] \in S
  <2>1. stash \in Seq(S) BY <1>3 DEF StashTyped
  <2> QED BY <2>1, ElementOfSeq
<1> QED BY <1>2, <1>3, <1>4

\* Every entry of the stash leaves a consistent object.
LEMMA UnstashFine ==
  ASSUME NEW r, Fine(r), Env, StashTyped, NEW f, Accumulates(f, Started(r), Len(stash))
  PROVE  \A i \in 0..Len(stash) : Fine(f[i]) /\ Started(r).lost \subseteq f[i].lost
<1> DEFINE P(i) == Fine(f[i]) /\ Started(r).lost \subseteq f[i].lost
           Bad == {i \in 0..Len(stash) : ~P(i)}
<1>0. Len(stash) \in Nat /\ DOMAIN stash = 1..Len(stash) BY DEF StashTyped
<1>1. SUFFICES ASSUME Bad # {} PROVE FALSE OBVIOUS
<1>2. PICK m \in Bad : \A j \in Bad : m <= j
  <2>1. Bad \subseteq Nat BY <1>0
  <2> HIDE DEF Bad
  <2> QED BY <1>1, <2>1, NatMin
<1>3. m \in 0..Len(stash) /\ ~P(m) OBVIOUS
<1>4. f[m] = IF m = 0 THEN Started(r)
             ELSE BeginExecuteNotification(f[m - 1], stash[m].type, stash[m].cr, FALSE)
  BY <1>3 DEF Accumulates
<1>5. CASE m = 0 BY <1>3, <1>4, <1>5, StartedFine
<1>6. CASE m # 0
  <2>1. m - 1 \in 0..Len(stash) /\ m \in 1..Len(stash) /\ ~(m <= m - 1) BY <1>0, <1>3, <1>6
  <2>2. P(m - 1) BY <2>1, <1>2
  <2>3. stash[m].type \in Allowed /\ stash[m].cr \in States BY <2>1, StashEntry
  <2>4. f[m] = BeginExecuteNotification(f[m - 1], stash[m].type, stash[m].cr, FALSE) BY <1>4, <1>6
  <2> HIDE DEF Bad
  <2>5. Fine(f[m]) /\ Keeps(f[m], f[m - 1], stash[m].type, FALSE) BY <2>2, <2>3, <2>4, BeginFine
  <2>6. Started(r).lost \subseteq f[m].lost BY <2>2, <2>5 DEF Keeps
  <2> QED BY <1>3, <2>5, <2>6
<1> QED BY <1>5, <1>6

-----------------------------------------------------------------------------
\* The users know the state that was reported, or a notification of it is late.
Told(r, rep) ==
    Unfiltered /\ r.lost = {} => \A u \in PlainUsers :
        r.told[u] = rep \/ r.delayed \/ StateNotification(rep) \in r.suppressed

\* The same of a recovery, whatever is filtered.
Recovered(r, rep) ==
    ~EnableFlapping /\ "Recovery" \in TypeFilter /\ r.lost = {} /\ rep = "OK" =>
        \A u \in Hears : r.told[u] = "OK" \/ "Recovery" \in r.suppressed

\* Who filters nothing is told recoveries.
LEMMA PlainHears == PlainUsers \subseteq Hears
  BY DEF PlainUsers, Hears

\* Executing what a state requires tells it, or the notification is known to be late.
LEMMA StateTells ==
  ASSUME NEW r0, Good(r0), Env, NEW rep \in States, NEW cr \in States, rep # "OK" => state = rep,
         NEW e, e = BeginExecuteNotification(r0, StateNotification(rep), cr, FALSE)
  PROVE  Told(e, rep) /\ Recovered(e, rep)
<1>1. CASE rep = "OK"
  <2>1. e = BeginExecuteNotification(r0, "Recovery", cr, FALSE) /\ StateNotification(rep) = "Recovery"
    BY <1>1 DEF StateNotification
  <2>2. ASSUME "Recovery" \in TypeFilter, e.lost = {}, NEW u \in Hears
        PROVE  e.told[u] = "OK" \/ "Recovery" \in e.suppressed
    BY <2>1, <2>2, RecoveryTells
  <2>3. Recovered(e, rep) BY <2>2 DEF Recovered
  <2>4. Told(e, rep) BY <2>1, <2>2, <1>1, PlainHears DEF Told, Unfiltered
  <2> QED BY <2>3, <2>4
<1>2. CASE rep # "OK"
  <2>1. e = BeginExecuteNotification(r0, "Problem", cr, FALSE) /\ StateNotification(rep) = "Problem"
        /\ state = rep
    BY <1>2 DEF StateNotification
  <2>2. ASSUME Unfiltered, e.lost = {}, NEW u \in PlainUsers
        PROVE  e.told[u] = state \/ e.delayed \/ "Problem" \in e.suppressed
    <3>1. state # "OK" BY <2>1, <1>2
    <3>2. PICK no \in BOOLEAN : no = FALSE OBVIOUS
    <3>3. e = BeginExecuteNotification(r0, "Problem", cr, no) BY <2>1, <3>2
    <3>4. e.told[u] = state \/ e.delayed \/ "Problem" \in e.suppressed \/ (no /\ e = r0)
      BY <2>2, <3>1, <3>3, ProblemTells
    <3> QED BY <3>2, <3>4
  <2>3. Told(e, rep) BY <2>1, <2>2 DEF Told
  <2>4. Recovered(e, rep) BY <1>2 DEF Recovered
  <2> QED BY <2>3, <2>4
<1> QED BY <1>1, <1>2

\* The last entry of the stash is about the state that was reported last.
LastStashed ==
    ~EnableFlapping /\ stash # <<>> =>
        /\ stash[Len(stash)].type = StateNotification(reported)
        /\ stash[Len(stash)].cr = reported

\* After the stash is worked off the users know the reported state.
LEMMA UnstashTells ==
  ASSUME NEW r, Fine(r), Env, StashTyped, LastStashed, reported \in States,
         stash = <<>> => Told(r, reported) /\ Recovered(r, reported)
  PROVE  /\ Fine(Unstash(r)) /\ Told(Unstash(r), reported) /\ Recovered(Unstash(r), reported)
         /\ stash = <<>> => Unstash(r).sent = r.sent
<1>0. stash \in Seq([type: Types, cr: States]) /\ Len(stash) \in Nat BY DEF StashTyped
<1>1. PICK f : Accumulates(f, Started(r), Len(stash)) /\ Unstash(r) = f[Len(stash)]
  BY <1>0, UnstashIs
<1>2. \A i \in 0..Len(stash) : Fine(f[i]) /\ Started(r).lost \subseteq f[i].lost
  BY <1>1, UnstashFine
<1>3. Len(stash) \in 0..Len(stash) BY <1>0
<1>4. Fine(Unstash(r)) /\ Started(r).lost \subseteq Unstash(r).lost BY <1>1, <1>2, <1>3
<1>5. CASE stash = <<>>
  <2>1. Len(stash) = 0 BY <1>5
  <2>2. Unstash(r) = Started(r) BY <1>1, <1>3, <2>1 DEF Accumulates
  <2>3. ~Stale BY <1>5 DEF Stale
  <2>4. Same(Unstash(r), r) /\ Unstash(r).lost = r.lost /\ Unstash(r).suppressed = r.suppressed
    BY <2>2, <2>3, StartedFine
  <2>5. Told(Unstash(r), reported) /\ Recovered(Unstash(r), reported)
    BY <2>4, <1>5 DEF Same, Told, Recovered
  <2> QED BY <1>4, <2>4, <2>5 DEF Same
<1>6. CASE stash # <<>> /\ EnableFlapping
  BY <1>4, <1>6 DEF Told, Recovered, Unfiltered
<1>7. CASE stash # <<>> /\ ~EnableFlapping
  <2> DEFINE k == Len(stash)
  <2>1. k \in 1..Len(stash) /\ k # 0 /\ k - 1 \in 0..Len(stash) BY <1>0, <1>7
  <2>2. f[k] = BeginExecuteNotification(f[k - 1], stash[k].type, stash[k].cr, FALSE)
    BY <1>1, <1>3, <2>1 DEF Accumulates
  <2>3. stash[k].type = StateNotification(reported) /\ stash[k].cr = reported
    BY <1>7 DEF LastStashed
  <2>4. Good(f[k - 1]) BY <1>2, <2>1 DEF Fine
  <2>5. Unstash(r) = BeginExecuteNotification(f[k - 1], StateNotification(reported), reported, FALSE)
    BY <1>1, <2>2, <2>3
  <2> HIDE DEF k
  <2>6. CASE reported # "OK" => state = reported
    <3>1. Told(Unstash(r), reported) /\ Recovered(Unstash(r), reported)
      BY <2>4, <2>5, <2>6, StateTells
    <3> QED BY <3>1, <1>4, <1>7
  <2>7. CASE reported # "OK" /\ state # reported
    <3>1. k \in DOMAIN stash BY <2>1, <1>0
    <3>2. stash[k].type = "Problem" /\ stash[k].cr # state BY <2>3, <2>7 DEF StateNotification
    <3>3. Stale BY <3>1, <3>2 DEF Stale
    <3>4. "stale" \in Started(r).lost BY <3>3, StartedFine
    <3>5. Unstash(r).lost # {} BY <3>4, <1>4
    <3> QED BY <3>5, <1>4, <1>7 DEF Told, Recovered
  <2> QED BY <2>6, <2>7
<1> QED BY <1>5, <1>6, <1>7

-----------------------------------------------------------------------------
\* What FireType makes of the object before it executes.
Released(r, type) ==
    [r EXCEPT !.suppressed = @ \ {type}, !.lost = IF reported # state THEN @ \cup {"early"} ELSE @]

\* Released, field by field
LEMMA ReleasedFine ==
  ASSUME NEW r, Fine(r), NEW type
  PROVE  LET q == Released(r, type)
         IN /\ Fine(q) /\ Same(q, r) /\ q.suppressed = r.suppressed \ {type}
            /\ r.lost \subseteq q.lost /\ (q.lost = {} => reported = state)
<1> DEFINE a == r.suppressed \ {type}
           b == IF reported # state THEN r.lost \cup {"early"} ELSE r.lost
           q == [r EXCEPT !.suppressed = a, !.lost = b]
<1>1. r \in NotificationRecord BY DEF Fine, Good
<1>2. a \in SUBSET Types /\ b \in SUBSET {"neutralized", "stale", "early"} BY <1>1, RecordElim
<1>3. Released(r, type) = q BY DEF Released
<1>4. r.lost \subseteq b /\ (b = {} => reported = state) OBVIOUS
<1>5. a \subseteq r.suppressed OBVIOUS
<1> HIDE DEF a, b
<1>6. q \in NotificationRecord BY <1>1, <1>2 DEF NotificationRecord
<1>7. q.suppressed = a /\ q.lost = b BY <1>1 DEF NotificationRecord
<1>8. q.delayed = r.delayed BY <1>1 DEF NotificationRecord
<1>9. q.notified = r.notified /\ q.lastState = r.lastState /\ q.told = r.told /\ q.sent = r.sent
  BY <1>1 DEF NotificationRecord
<1> HIDE DEF q
<1>10. Same(q, r) BY <1>6, <1>8, <1>9 DEF Same
<1>11. Fine(q) BY <1>10, <1>7, <1>5, SameFine
<1> QED BY <1>3, <1>4, <1>7, <1>10, <1>11 DEF a

\* What the timer keeps of an object
UpToDate(r) == Fine(r) /\ Told(r, reported) /\ Recovered(r, reported)

\* Firing one type that was withheld keeps the users up to date.
LEMMA FireKeeps ==
  ASSUME NEW r, UpToDate(r), Env, reported \in States, NEW type \in Allowed
  PROVE  UpToDate(FireType(r, type))
<1> DEFINE q == Released(r, type)
<1>0. Fine(r) /\ Told(r, reported) /\ Recovered(r, reported) BY DEF UpToDate
<1>1. /\ Fine(q) /\ Same(q, r) /\ q.suppressed = r.suppressed \ {type}
      /\ r.lost \subseteq q.lost /\ (q.lost = {} => reported = state)
  BY <1>0, ReleasedFine
<1>2. \/ FireType(r, type) = r
      \/ ~ReasonApplies(type) /\ FireType(r, type) = q
      \/ ReasonApplies(type) /\ FireType(r, type) = BeginExecuteNotification(q, type, state, FALSE)
  BY DEF FireType, Released
<1>3. type \in Types /\ (EnableFlapping \/ type \in {"Problem", "Recovery"}) BY AllowedTypes
<1>4. state \in States BY DEF Env
<1> HIDE DEF q
<1>5. CASE FireType(r, type) = r BY <1>5
<1>6. CASE ~ReasonApplies(type) /\ FireType(r, type) = q
  <2>1. ASSUME ~EnableFlapping, q.lost = {} PROVE type # StateNotification(reported)
    <3>1. reported = state BY <2>1, <1>1
    <3>2. CASE type = "Problem" BY <3>1, <3>2, <1>6 DEF ReasonApplies, StateNotification
    <3>3. CASE type = "Recovery" BY <3>1, <3>3, <1>6 DEF ReasonApplies, StateNotification
    <3> QED BY <2>1, <1>3, <3>2, <3>3
  <2>2. q.lost = {} => r.lost = {} BY <1>1
  <2>3. Told(q, reported) BY <2>1, <2>2, <1>0, <1>1 DEF Told, Same, Unfiltered
  <2>4. Recovered(q, reported) BY <2>1, <2>2, <1>0, <1>1 DEF Recovered, Same, StateNotification
  <2> QED BY <1>1, <1>6, <2>3, <2>4 DEF UpToDate
<1>7. CASE ReasonApplies(type) /\ FireType(r, type) = BeginExecuteNotification(q, type, state, FALSE)
  <2> DEFINE e == FireType(r, type)
  <2>1. Fine(e) /\ Keeps(e, q, type, FALSE) BY <1>1, <1>4, <1>7, BeginFine
  <2>2. CASE EnableFlapping BY <2>1, <2>2 DEF UpToDate, Told, Recovered, Unfiltered
  <2>3. CASE ~EnableFlapping /\ e.lost # {} BY <2>1, <2>3 DEF UpToDate, Told, Recovered
  <2>4. CASE ~EnableFlapping /\ e.lost = {}
    <3>1. q.lost = {} BY <2>1, <2>4 DEF Keeps
    <3>2. reported = state BY <3>1, <1>1
    <3>3. type = StateNotification(reported)
      <4>2. CASE type = "Problem" BY <3>2, <4>2, <1>7 DEF ReasonApplies, StateNotification
      <4>3. CASE type = "Recovery" BY <3>2, <4>3, <1>7 DEF ReasonApplies, StateNotification
      <4> QED BY <2>4, <1>3, <4>2, <4>3
    <3>4. e = BeginExecuteNotification(q, StateNotification(reported), state, FALSE) BY <3>3, <1>7
    <3> HIDE DEF e
    <3>5. Good(q) BY <1>1 DEF Fine
    <3>6. Told(e, reported) /\ Recovered(e, reported) BY <3>2, <3>4, <3>5, <1>4, StateTells
    <3> QED BY <2>1, <3>6 DEF UpToDate, e
  <2> QED BY <2>2, <2>3, <2>4
<1> QED BY <1>0, <1>2, <1>5, <1>6, <1>7

\* Firing all of them does, and there is nothing to fire when nothing is withheld.
LEMMA FireAllKeeps ==
  ASSUME NEW r, UpToDate(r), Env, reported \in States, NEW soon
  PROVE  /\ UpToDate(FireSuppressedNotifications(r, soon))
         /\ r.suppressed = {} => FireSuppressedNotifications(r, soon) = r
<1> DEFINE fire(acc, type) == IF type \in r.suppressed THEN FireType(acc, type) ELSE acc
           r1 == fire(r, "Problem")
           r2 == fire(r1, "Recovery")
           r3 == fire(r2, "FlappingStart")
           r4 == fire(r3, "FlappingEnd")
<1>0. r.suppressed \subseteq Allowed BY DEF UpToDate, Fine
<1>1. ASSUME NEW acc, UpToDate(acc), NEW type PROVE UpToDate(fire(acc, type))
  BY <1>0, <1>1, FireKeeps
<1>2. r.suppressed = {} => r4 = r OBVIOUS
<1>3. FireSuppressedNotifications(r, soon) = IF ~inPeriod \/ soon THEN r ELSE r4
  BY DEF FireSuppressedNotifications
<1> HIDE DEF fire
<1>4. UpToDate(r1) BY <1>1
<1> HIDE DEF r1
<1>5. UpToDate(r2) BY <1>4, <1>1
<1> HIDE DEF r2
<1>6. UpToDate(r3) BY <1>5, <1>1
<1> HIDE DEF r3
<1>7. UpToDate(r4) BY <1>6, <1>1
<1> QED BY <1>2, <1>3, <1>7

\* next_notification is not seen by users.
LEMMA DueFields ==
  ASSUME NEW r \in NotificationRecord, NEW d \in BOOLEAN
  PROVE  LET x == [r EXCEPT !.due = d]
         IN Same(x, r) /\ x.suppressed = r.suppressed /\ x.lost = r.lost
<1> DEFINE x == [r EXCEPT !.due = d]
<1>1. x \in NotificationRecord BY DEF NotificationRecord
<1>2. x.delayed = r.delayed BY DEF NotificationRecord
<1>3. /\ x.suppressed = r.suppressed /\ x.lost = r.lost
      /\ x.notified = r.notified /\ x.lastState = r.lastState /\ x.told = r.told
      /\ x.sent = r.sent
  BY DEF NotificationRecord
<1> QED BY <1>1, <1>2, <1>3 DEF Same

\* What users see is what the object has for them.
LEMMA SameUpToDate ==
  ASSUME NEW r, NEW x, UpToDate(r), Same(x, r), x.suppressed = r.suppressed, x.lost = r.lost
  PROVE  UpToDate(x)
<1>1. Fine(x) BY SameFine DEF UpToDate
<1> QED BY <1>1 DEF UpToDate, Told, Recovered, Same

\* A reminder tells nothing new to who knows, and sends nothing but reminders.
LEMMA RemindKeeps ==
  ASSUME NEW r, UpToDate(r), Env, reported \in States
  PROVE  /\ UpToDate(Remind(r))
         /\ \A u \in Users : <<u, "Problem", FALSE>> \in Remind(r).sent => <<u, "Problem", FALSE>> \in r.sent
         /\ held # "no" => Remind(r).told = r.told
<1> DEFINE q == [r EXCEPT !.due = ~Interval]
<1>0. Fine(r) /\ Told(r, reported) /\ Recovered(r, reported) /\ r \in NotificationRecord
  BY DEF UpToDate, Fine, Good
<1>1. Same(q, r) /\ q.suppressed = r.suppressed /\ q.lost = r.lost
  <2>1. PICK d \in BOOLEAN : d = ~Interval OBVIOUS
  <2>2. q = [r EXCEPT !.due = d] BY <2>1
  <2> HIDE DEF q
  <2> QED BY <1>0, <2>2, DueFields
<1>2. \/ Remind(r) = r
      \/ Remind(r) = q
      \/ /\ Remind(r) = BeginExecuteNotification(q, "Problem", state, TRUE)
         /\ state # "OK" /\ reported = state /\ held = "no"
  BY DEF Remind
<1> HIDE DEF q
<1>3. UpToDate(q) BY <1>1, SameUpToDate
<1>4. CASE Remind(r) = r BY <1>4
<1>5. CASE Remind(r) = q BY <1>5, <1>3, <1>1 DEF Same
<1>6. CASE /\ Remind(r) = BeginExecuteNotification(q, "Problem", state, TRUE)
           /\ state # "OK" /\ reported = state /\ held = "no"
  <2> DEFINE e == Remind(r)
  <2>0. state \in States /\ "Problem" \in Allowed BY DEF Env, Allowed, Types
  <2>1. Fine(e) /\ Keeps(e, q, "Problem", TRUE)
    <3>1. Fine(q) BY <1>3 DEF UpToDate
    <3> QED BY <3>1, <2>0, <1>6, BeginFine
  <2>2. Told(e, reported)
    <3> SUFFICES ASSUME Unfiltered, e.lost = {}, NEW u \in PlainUsers
                 PROVE  e.told[u] = reported \/ e.delayed \/ StateNotification(reported) \in e.suppressed
      BY DEF Told
    <3>1. PICK yes \in BOOLEAN : yes = TRUE OBVIOUS
    <3>2. e = BeginExecuteNotification(q, "Problem", state, yes) BY <1>6, <3>1
    <3>3. Good(q) BY <1>3 DEF UpToDate, Fine
    <3> HIDE DEF e
    <3>4. e.told[u] = state \/ e.delayed \/ "Problem" \in e.suppressed \/ (yes /\ e = q)
      BY <3>2, <3>3, <2>0, <1>6, ProblemTells
    <3>5. CASE e = q BY <3>5, <1>3 DEF UpToDate, Told
    <3>6. StateNotification(reported) = "Problem" BY <1>6 DEF StateNotification
    <3> QED BY <3>4, <3>5, <3>6, <1>6
  <2>3. Recovered(e, reported) BY <1>6 DEF Recovered
  <2>4. ASSUME NEW u \in Users, <<u, "Problem", FALSE>> \in e.sent PROVE <<u, "Problem", FALSE>> \in r.sent
    <3>1. e.sent \subseteq q.sent \cup {<<v, "Problem", TRUE>> : v \in Users} BY <2>1 DEF Keeps
    <3>2. q.sent = r.sent BY <1>1 DEF Same
    <3> HIDE DEF e
    <3> QED BY <2>4, <3>1, <3>2
  <2> QED BY <1>6, <2>1, <2>2, <2>3, <2>4 DEF UpToDate
<1> QED BY <1>2, <1>4, <1>5, <1>6

-----------------------------------------------------------------------------
\* A record that sends nothing and is otherwise as before
Quiet(x, r) ==
    /\ x \in NotificationRecord
    /\ x.suppressed = r.suppressed /\ x.lost = r.lost /\ x.delayed = r.delayed
    /\ x.notified = r.notified /\ x.lastState = r.lastState /\ x.told = r.told
    /\ x.sent = {}

\* A record that sends nothing keeps all of this.
LEMMA QuietFine ==
  ASSUME NEW r, NEW x, Fine(r), Quiet(x, r)
  PROVE  /\ Fine(x)
         /\ \A rep : Told(r, rep) => Told(x, rep)
         /\ \A rep : Recovered(r, rep) => Recovered(x, rep)
<1>1. Unconflicted(x.suppressed) BY DEF Fine, Good, Quiet
<1>2. LastStateTold(x) /\ ToldIsNotified(x) BY DEF Fine, Good, Quiet, LastStateTold, ToldIsNotified
<1>3. Forgets => Known(x) BY DEF Fine, Quiet, Known
<1>4. Fine(x) BY <1>1, <1>2, <1>3 DEF Fine, Good, Quiet
<1>5. ASSUME NEW rep, Told(r, rep) PROVE Told(x, rep) BY <1>5 DEF Told, Quiet
<1>6. ASSUME NEW rep, Recovered(r, rep) PROVE Recovered(x, rep) BY <1>6 DEF Recovered, Quiet
<1> QED BY <1>4, <1>5, <1>6

\* At the beginning of a step nothing is sent yet.
LEMMA FreshQuiet ==
  ASSUME Fine(n)
  PROVE  Quiet(Fresh, n) /\ Quiet([Fresh EXCEPT !.due = TRUE], n)
<1>1. n \in NotificationRecord BY DEF Fine, Good
<1>2. Fresh \in NotificationRecord BY <1>1 DEF NotificationRecord, Fresh
<1>3. Fresh.delayed = n.delayed BY <1>1 DEF NotificationRecord, Fresh
<1>4. /\ Fresh.suppressed = n.suppressed /\ Fresh.lost = n.lost
      /\ Fresh.notified = n.notified /\ Fresh.lastState = n.lastState /\ Fresh.told = n.told
      /\ Fresh.sent = {}
  BY <1>1 DEF NotificationRecord, Fresh
<1>5. PICK x : x = Fresh OBVIOUS
<1>6. Same([x EXCEPT !.due = TRUE], x) /\ [x EXCEPT !.due = TRUE].suppressed = x.suppressed
      /\ [x EXCEPT !.due = TRUE].lost = x.lost
  <2>1. PICK d \in BOOLEAN : d = TRUE OBVIOUS
  <2>2. x \in NotificationRecord BY <1>2, <1>5
  <2>3. Same([x EXCEPT !.due = d], x) /\ [x EXCEPT !.due = d].suppressed = x.suppressed
      /\ [x EXCEPT !.due = d].lost = x.lost
    BY <2>2, DueFields
  <2> QED BY <2>1, <2>3
<1>7. Quiet(Fresh, n) BY <1>2, <1>3, <1>4 DEF Quiet
<1>8. Quiet([x EXCEPT !.due = TRUE], n) BY <1>6, <1>3, <1>4, <1>5 DEF Quiet, Same
<1> QED BY <1>5, <1>7, <1>8

-----------------------------------------------------------------------------
(* The inductive invariant                                                   *)

\* The types of the variables besides stash and n, and what never happens without an end
\* of the window, without a time period and without flapping.
Typed ==
    /\ state \in States /\ reported \in States
    /\ flapping \in BOOLEAN /\ flappingReported \in BOOLEAN
    /\ held \in Holds \cup {"no"}
    /\ processing \in {"nothing", "state", "flapping"}
    /\ updatedAuthority \in BOOLEAN
    /\ inPeriod \in BOOLEAN
    /\ away \subseteq PeriodUsers
    /\ phase \in {"before", "within", "after"}
    /\ TimesEnd \/ phase # "after"
    /\ Period \/ inPeriod
    /\ ~EnableFlapping => ~flapping /\ ~flappingReported /\ processing # "flapping"

\* The stash has room for what is about to be requested.
StashOK ==
    /\ StashTyped /\ LastStashed
    /\ Len(stash) <= MaxStash /\ (processing # "nothing" => Len(stash) < MaxStash)

\* Nothing is sent before the authority is known and while something is stashed.
Untold == ~updatedAuthority \/ stash # <<>> => \A u \in Users : n.told[u] = "OK"

\* What was told agrees with what was reported, once nothing is stashed.
KnowsOK ==
    /\ Fine(n)
    /\ stash = <<>> => Told(n, reported) /\ Recovered(n, reported)
    /\ Untold

\* The inductive invariant
NotificationInv == Typed /\ StashOK /\ KnowsOK

\* What BeginExecuteNotification reads is of its type.
LEMMA TypedEnv == Typed => Env
  BY DEF Typed, Env

\* A step that sends nothing and leaves the stash and what was reported alone.
LEMMA SilentStep ==
  ASSUME NotificationInv, Quiet(n', n), stash' = stash, Typed',
         ~EnableFlapping => reported' = reported,
         updatedAuthority => updatedAuthority',
         processing' # "nothing" => Len(stash) < MaxStash
  PROVE  NotificationInv'
<1>1. Fine(n) /\ Untold /\ StashTyped /\ LastStashed /\ Len(stash) <= MaxStash
      /\ (stash = <<>> => Told(n, reported) /\ Recovered(n, reported))
  BY DEF NotificationInv, StashOK, KnowsOK
<1>2. /\ Fine(n')
      /\ \A rep : Told(n, rep) => Told(n', rep)
      /\ \A rep : Recovered(n, rep) => Recovered(n', rep)
  BY <1>1, QuietFine
<1>3. StashTyped' BY <1>1 DEF StashTyped
<1>4. LastStashed' BY <1>1 DEF LastStashed
<1>5. StashOK' BY <1>1, <1>3, <1>4 DEF StashOK
<1>6. Untold' BY <1>1 DEF Untold, Quiet
<1>7. stash' = <<>> => Told(n', reported') /\ Recovered(n', reported')
  <2>1. CASE EnableFlapping BY <2>1 DEF Told, Recovered, Unfiltered
  <2>2. CASE ~EnableFlapping BY <2>2, <1>1, <1>2
  <2> QED BY <2>1, <2>2
<1>8. KnowsOK' BY <1>2, <1>6, <1>7 DEF KnowsOK
<1> QED BY <1>5, <1>8 DEF NotificationInv

\* The invariant holds in the beginning.
LEMMA Starts == Init => NotificationInv
<1> SUFFICES ASSUME Init PROVE NotificationInv OBVIOUS
<1>0. "OK" \in States /\ MaxStash \in Nat BY NotificationAssumption
<1>1. Typed BY <1>0 DEF Init, Typed, FirstPhase
<1>2. stash = <<>> /\ processing = "nothing" /\ reported = "OK" BY DEF Init
<1>3. StashTyped
  <2>1. stash \in Seq([type: Types, cr: States]) BY <1>2
  <2>2. DOMAIN stash = {} BY <1>2
  <2> QED BY <2>1, <2>2 DEF StashTyped
<1>4. Len(stash) = 0 BY <1>2
<1>5. StashOK BY <1>0, <1>2, <1>3, <1>4 DEF StashOK, LastStashed
<1>6. n \in NotificationRecord BY <1>0 DEF Init, NotificationRecord
<1>7. /\ n.suppressed = {} /\ \A u \in Users : n.told[u] = "OK" /\ n.lastState[u] = "OK" BY DEF Init
<1>8. Unconflicted(n.suppressed) BY <1>7 DEF Unconflicted, Conflicts
<1>9. Fine(n)
  BY <1>6, <1>7, <1>8 DEF Fine, Good, LastStateTold, ToldIsNotified, Known, Hears, PlainUsers
<1>10. Told(n, reported) /\ Recovered(n, reported)
  BY <1>2, <1>7 DEF Told, Recovered, Hears, PlainUsers
<1>11. KnowsOK BY <1>7, <1>9, <1>10 DEF KnowsOK, Untold
<1> QED BY <1>1, <1>5, <1>11 DEF NotificationInv

\* A notification is requested: stashed, or executed at once.
LEMMA SendStep ==
  ASSUME NotificationInv, NEW type \in Allowed, NEW cr \in States, SendNotifications(type, cr),
         Typed', updatedAuthority' = updatedAuthority, Len(stash) < MaxStash,
         processing' # "nothing" => Len(stash) + 1 < MaxStash,
         ~EnableFlapping => type = StateNotification(state) /\ cr = state /\ reported' = state
  PROVE  NotificationInv' /\ (Forgets => TellsNews)
<1>0. /\ Fine(n) /\ Untold /\ StashTyped /\ LastStashed /\ Len(stash) <= MaxStash /\ Typed
      /\ (stash = <<>> => Told(n, reported) /\ Recovered(n, reported))
  BY DEF NotificationInv, StashOK, KnowsOK
<1>1. Env /\ state \in States /\ reported' \in States BY <1>0, TypedEnv DEF Typed
<1>2. Quiet(Fresh, n) BY <1>0, FreshQuiet
<1>3. Fine(Fresh) BY <1>0, <1>2, QuietFine
<1>4. MaxStash \in Nat /\ Len(stash) \in Nat BY <1>0, NotificationAssumption DEF StashTyped
<1>5. CASE ~updatedAuthority \/ stash # <<>>
  <2> DEFINE x == [type |-> type, cr |-> cr]
             S == [type: Types, cr: States]
  <2>1. stash' = Append(stash, x) /\ n' = Fresh BY <1>5 DEF SendNotifications
  <2>2. x \in S BY AllowedTypes
  <2>3. x.type = type /\ x.cr = cr OBVIOUS
  <2>4. stash \in Seq(S) /\ \A i \in 1..Len(stash) : stash[i].type \in Allowed BY <1>0 DEF StashTyped
  <2> HIDE DEF x, S
  <2>5. stash' \in Seq(S) /\ Len(stash') = Len(stash) + 1 /\ stash'[Len(stash')] = x
        /\ \A i \in 1..Len(stash) : stash'[i] = stash[i]
    BY <2>1, <2>2, <2>4
  <2>6. DOMAIN stash' = 1..(Len(stash) + 1) BY <2>5
  <2>7. ASSUME NEW i \in DOMAIN stash' PROVE stash'[i].type \in Allowed
    <3>1. i \in 1..Len(stash) \/ i = Len(stash') BY <1>4, <2>5, <2>6
    <3>2. CASE i \in 1..Len(stash) BY <3>2, <2>4, <2>5
    <3>3. CASE i = Len(stash') BY <3>3, <2>3, <2>5
    <3> QED BY <3>1, <3>2, <3>3
  <2>8. StashTyped' BY <2>5, <2>7 DEF StashTyped, S
  <2>9. LastStashed' BY <2>3, <2>5 DEF LastStashed
  <2>10. Len(stash') <= MaxStash /\ (processing' # "nothing" => Len(stash') < MaxStash)
    BY <1>4, <2>5
  <2>11. stash' # <<>> BY <1>4, <2>5
  <2>12. StashOK' BY <2>8, <2>9, <2>10 DEF StashOK
  <2>13. \A u \in Users : n'.told[u] = "OK" BY <1>0, <1>2, <1>5, <2>1 DEF Untold, Quiet
  <2>14. KnowsOK' BY <1>3, <2>1, <2>11, <2>13 DEF KnowsOK, Untold
  <2>15. TellsNews BY <1>2, <2>1 DEF TellsNews, Quiet
  <2> QED BY <2>12, <2>14, <2>15 DEF NotificationInv
<1>6. CASE updatedAuthority /\ stash = <<>>
  <2> DEFINE r == Fresh
  <2>1. stash' = stash /\ n' = BeginExecuteNotification(r, type, cr, FALSE)
    BY <1>6 DEF SendNotifications
  <2> HIDE DEF r
  <2>2. Fine(r) BY <1>3 DEF r
  <2>3. Fine(n') BY <1>1, <2>1, <2>2, BeginFine
  <2>4. Told(n', reported') /\ Recovered(n', reported')
    <3>1. CASE EnableFlapping BY <3>1 DEF Told, Recovered, Unfiltered
    <3>2. CASE ~EnableFlapping
      <4>1. n' = BeginExecuteNotification(r, StateNotification(state), state, FALSE) BY <2>1, <3>2
      <4>2. Good(r) BY <2>2 DEF Fine
      <4>3. Told(n', state) /\ Recovered(n', state) BY <4>1, <4>2, <1>1, StateTells
      <4> QED BY <4>3, <3>2
    <3> QED BY <3>1, <3>2
  <2>5. StashOK'
    <3>1. StashTyped' BY <1>0, <2>1 DEF StashTyped
    <3>2. LastStashed' BY <1>6, <2>1 DEF LastStashed
    <3> QED BY <3>1, <3>2, <1>4, <2>1 DEF StashOK
  <2>6. KnowsOK' BY <1>6, <2>1, <2>3, <2>4 DEF KnowsOK, Untold
  <2>7. ASSUME Forgets PROVE TellsNews
    <3>1. Good(r) /\ Known(r) BY <2>2, <2>7 DEF Fine
    <3>2. type \in Types BY AllowedTypes
    <3>3. \A u \in PlainUsers : <<u, "Problem", FALSE>> \in n'.sent
             => <<u, "Problem", FALSE>> \in r.sent \/ n'.told[u] # r.told[u] \/ n'.told[u] = "OK"
      BY <3>1, <3>2, <2>1, <2>7, <1>1, BeginKnown
    <3>4. r.sent = {} /\ r.told = n.told BY <1>2 DEF r, Quiet
    <3> QED BY <3>3, <3>4 DEF TellsNews
  <2> QED BY <2>5, <2>6, <2>7 DEF NotificationInv
<1>7. updatedAuthority \in BOOLEAN BY <1>0 DEF Typed
<1> QED BY <1>5, <1>6, <1>7

\* While notifications are held back no reminder is sent.
LEMMA HeldQuiet ==
  ASSUME Fine(n), held # "no"
  PROVE  Quiet(Remind(Fresh), n)
<1> DEFINE r == Fresh
           q == [r EXCEPT !.due = ~Interval]
<1>1. Remind(r) = r \/ Remind(r) = q BY DEF Remind
<1>2. Quiet(r, n) BY FreshQuiet
<1> HIDE DEF r
<1>3. r \in NotificationRecord BY <1>2 DEF Quiet
<1>4. PICK d \in BOOLEAN : d = ~Interval OBVIOUS
<1>5. q = [r EXCEPT !.due = d] BY <1>4
<1> HIDE DEF q
<1>6. Same(q, r) /\ q.suppressed = r.suppressed /\ q.lost = r.lost BY <1>3, <1>5, DueFields
<1>7. Quiet(q, n) BY <1>2, <1>6 DEF Quiet, Same
<1> QED BY <1>1, <1>2, <1>7 DEF r

\* A round of the timer
LEMMA TimerStep ==
  ASSUME NotificationInv, NEW soon, NotificationTimerHandler(soon)
  PROVE  NotificationInv' /\ (Forgets => TellsNews)
<1>0. /\ Fine(n) /\ Untold /\ StashTyped /\ LastStashed /\ Len(stash) <= MaxStash /\ Typed
      /\ (stash = <<>> => Told(n, reported) /\ Recovered(n, reported))
  BY DEF NotificationInv, StashOK, KnowsOK
<1>1. Env /\ reported \in States BY <1>0, TypedEnv DEF Typed
<1>2. Typed'
  BY <1>0 DEF Typed, NotificationTimerHandler, svcVars, clockVars
<1>3. reported' = reported /\ processing' = processing /\ updatedAuthority' = updatedAuthority
      /\ processing = "nothing" /\ updatedAuthority
  BY DEF NotificationTimerHandler, svcVars
<1>4. CASE held = "unreachable"
  <2>1. n' = Remind(Fresh) /\ stash' = stash BY <1>4 DEF NotificationTimerHandler
  <2>2. Quiet(n', n) BY <1>0, <1>4, <2>1, HeldQuiet
  <2>3. NotificationInv' BY <1>2, <1>3, <2>1, <2>2, SilentStep
  <2>4. TellsNews BY <2>2 DEF TellsNews, Quiet
  <2> QED BY <2>3, <2>4
<1>5. CASE held # "unreachable"
  <2> DEFINE r == Fresh
             r1 == Unstash(r)
             r2 == FireSuppressedNotifications(r1, soon)
  <2>1. n' = Remind(r2) /\ stash' = <<>> BY <1>5 DEF NotificationTimerHandler
  <2>2. Quiet(r, n) BY <1>0, FreshQuiet
  <2> HIDE DEF r
  <2>3. Fine(r) /\ (stash = <<>> => Told(r, reported) /\ Recovered(r, reported))
    BY <1>0, <2>2, QuietFine
  <2>4. UpToDate(r1) /\ (stash = <<>> => r1.sent = r.sent)
    BY <1>0, <1>1, <2>3, UnstashTells DEF UpToDate
  <2> HIDE DEF r1
  <2>5. UpToDate(r2) /\ (r1.suppressed = {} => r2 = r1) BY <1>1, <2>4, FireAllKeeps
  <2> HIDE DEF r2
  <2>6. /\ UpToDate(n')
        /\ \A u \in Users : <<u, "Problem", FALSE>> \in n'.sent => <<u, "Problem", FALSE>> \in r2.sent
    BY <1>1, <2>1, <2>5, RemindKeeps
  <2>7. StashOK'
    <3>1. StashTyped'
      <4>1. stash' \in Seq([type: Types, cr: States]) /\ DOMAIN stash' = {} BY <2>1
      <4> QED BY <4>1 DEF StashTyped
    <3>2. LastStashed' BY <2>1 DEF LastStashed
    <3>3. Len(stash') = 0 /\ MaxStash \in Nat BY <2>1, NotificationAssumption
    <3> QED BY <1>3, <3>1, <3>2, <3>3 DEF StashOK
  <2>8. KnowsOK' BY <1>3, <2>1, <2>6 DEF KnowsOK, Untold, UpToDate
  <2>9. ASSUME Forgets PROVE TellsNews
    <3>1. SUFFICES ASSUME NEW u \in PlainUsers, <<u, "Problem", FALSE>> \in n'.sent
                   PROVE  n'.told[u] # n.told[u] \/ n'.told[u] = "OK"
      BY DEF TellsNews
    <3>2. u \in Users BY DEF PlainUsers
    <3>3. CASE stash # <<>> BY <3>2, <3>3, <1>0 DEF Untold
    <3>4. CASE stash = <<>>
      <4>1. r1.suppressed = {} BY <2>4, <2>9 DEF UpToDate, Fine
      <4>2. r2.sent = {} BY <4>1, <3>4, <2>2, <2>4, <2>5 DEF Quiet
      <4> QED BY <4>2, <2>6, <3>1, <3>2
    <3> QED BY <3>3, <3>4
  <2> QED BY <1>2, <2>7, <2>8, <2>9 DEF NotificationInv
<1> QED BY <1>4, <1>5

\* A change of the state is requested.
LEMMA StateRequested ==
  ASSUME NotificationInv, RequestState
  PROVE  NotificationInv' /\ (Forgets => TellsNews)
<1>0. Typed /\ StashTyped /\ (processing # "nothing" => Len(stash) < MaxStash)
  BY DEF NotificationInv, StashOK
<1>1. Typed' BY <1>0 DEF Typed, RequestState, clockVars
<1>2. StateNotification(state) \in Allowed /\ state \in States
  BY <1>0 DEF Typed, StateNotification, Allowed, Types
<1>3. Len(stash) < MaxStash /\ (processing' # "nothing" => Len(stash) + 1 < MaxStash)
  <2>1. MaxStash \in Nat /\ Len(stash) \in Nat BY <1>0, NotificationAssumption DEF StashTyped
  <2> QED BY <1>0, <2>1 DEF RequestState, Room
<1>4. PICK type \in Allowed : type = StateNotification(state) BY <1>2
<1>5. SendNotifications(type, state) /\ updatedAuthority' = updatedAuthority /\ reported' = state
  BY <1>4 DEF RequestState
<1> QED BY <1>1, <1>2, <1>3, <1>4, <1>5, SendStep

\* Flapping that begins or ends is requested.
LEMMA FlappingRequested ==
  ASSUME NotificationInv, RequestFlapping
  PROVE  NotificationInv' /\ (Forgets => TellsNews)
<1>0. Typed /\ StashTyped /\ (processing # "nothing" => Len(stash) < MaxStash)
  BY DEF NotificationInv, StashOK
<1>1. Typed' BY <1>0 DEF Typed, RequestFlapping, clockVars
<1>2. EnableFlapping BY <1>0 DEF Typed, RequestFlapping
<1>6. FlappingNotification(flapping) \in Allowed /\ state \in States
  BY <1>0, <1>2 DEF Typed, FlappingNotification, Allowed, Types
<1>3. Len(stash) < MaxStash /\ (processing' # "nothing" => Len(stash) + 1 < MaxStash)
  <2>1. MaxStash \in Nat /\ Len(stash) \in Nat BY <1>0, NotificationAssumption DEF StashTyped
  <2> QED BY <1>0, <2>1 DEF RequestFlapping, Room
<1>4. PICK type \in Allowed : type = FlappingNotification(flapping) BY <1>6
<1>5. SendNotifications(type, state) /\ updatedAuthority' = updatedAuthority
  BY <1>4 DEF RequestFlapping
<1> QED BY <1>1, <1>2, <1>3, <1>4, <1>5, <1>6, SendStep

\* What sends nothing
QuietNext ==
    \/ \E s \in States : ChangeState(s)
    \/ ChangeFlapping
    \/ \E h \in Holds \cup {"no"} : Hold(h)
    \/ UpdateObjectAuthority
    \/ SetPeriod
    \/ \E u \in PeriodUsers : SetUserPeriod(u)
    \/ NextNotificationReached
    \/ TimesReached

\* What they have in common
Silent ==
    /\ Quiet(n', n) /\ stash' = stash /\ Typed' /\ (~EnableFlapping => reported' = reported)
    /\ updatedAuthority => updatedAuthority'
    /\ processing' # "nothing" => Len(stash) < MaxStash

\* These steps keep the invariant and tell nobody anything.
LEMMA QuietNextStep ==
  ASSUME NotificationInv, QuietNext
  PROVE  NotificationInv' /\ TellsNews
<1>0. Typed /\ Fine(n) /\ Len(stash) <= MaxStash /\ (processing # "nothing" => Len(stash) < MaxStash)
  BY DEF NotificationInv, StashOK, KnowsOK
<1>1. Quiet(Fresh, n) /\ Quiet([Fresh EXCEPT !.due = TRUE], n) BY <1>0, FreshQuiet
<1>q. Silent
  <2>1. ASSUME NEW s \in States, ChangeState(s) PROVE Silent
    BY <2>1, <1>0, <1>1 DEF Silent, ChangeState, Typed, FirstPhase
  <2>2. CASE ChangeFlapping
    BY <2>2, <1>0, <1>1 DEF Silent, ChangeFlapping, Typed, clockVars
  <2>3. ASSUME NEW h \in Holds \cup {"no"}, Hold(h) PROVE Silent
    BY <2>3, <1>0, <1>1 DEF Silent, Hold, Typed, clockVars
  <2>4. CASE UpdateObjectAuthority
    BY <2>4, <1>0, <1>1 DEF Silent, UpdateObjectAuthority, Typed, svcVars, clockVars
  <2>5. CASE SetPeriod
    BY <2>5, <1>0, <1>1 DEF Silent, SetPeriod, Typed, svcVars
  <2>6. ASSUME NEW u \in PeriodUsers, SetUserPeriod(u) PROVE Silent
    BY <2>6, <1>0, <1>1 DEF Silent, SetUserPeriod, Typed, svcVars
  <2>7. CASE NextNotificationReached
    BY <2>7, <1>0, <1>1 DEF Silent, NextNotificationReached, Typed, svcVars, clockVars
  <2>8. CASE TimesReached
    BY <2>8, <1>0, <1>1 DEF Silent, TimesReached, Typed, svcVars
  <2> QED BY <2>1, <2>2, <2>3, <2>4, <2>5, <2>6, <2>7, <2>8 DEF QuietNext
<1>2. NotificationInv' BY <1>q, SilentStep DEF Silent
<1>3. TellsNews BY <1>q DEF Silent, TellsNews, Quiet
<1> QED BY <1>2, <1>3

\* Every step keeps the invariant; without a time period it tells nothing twice.
LEMMA NextStep ==
  ASSUME NotificationInv, Next
  PROVE  NotificationInv' /\ (Forgets => TellsNews)
<1>1. CASE QuietNext BY <1>1, QuietNextStep
<1>2. CASE RequestState BY <1>2, StateRequested
<1>3. CASE RequestFlapping BY <1>3, FlappingRequested
<1>4. ASSUME NEW soon \in BOOLEAN, NotificationTimerHandler(soon)
      PROVE  NotificationInv' /\ (Forgets => TellsNews)
  BY <1>4, TimerStep
<1> QED BY <1>1, <1>2, <1>3, <1>4 DEF Next, QuietNext

\* A step that changes nothing keeps the invariant.
LEMMA Stutters ==
  ASSUME NotificationInv, UNCHANGED vars
  PROVE  NotificationInv'
  BY DEF vars, NotificationInv, Typed, StashOK, StashTyped, LastStashed, KnowsOK, Untold

\* What the notification object remembers agrees with what users were told, in every state:
\* the invariant is inductive, for any filters, users, periods and intervals.
THEOREM Consistent == Spec => []NotificationInv
<1>1. NotificationInv /\ [Next]_vars => NotificationInv' BY NextStep, Stutters
<1> QED BY Starts, <1>1, PTL DEF Spec

\* The variables of the notification object have their types, and no notification is withheld
\* together with its opposite.
THEOREM NotificationTypes == Spec => []TypeOK
<1>1. NotificationInv => TypeOK
  BY DEF NotificationInv, Typed, StashOK, StashTyped, KnowsOK, Fine, Good, Unconflicted, TypeOK
<1> QED BY Consistent, <1>1, PTL

\* Whatever is stashed, withheld, delayed, fired and reminded of, once nothing is on its way
\* every user that filters nothing was told the current state (UsersKnow): for a
\* notification object without filters and without an end of its window. With an end,
\* BeginExecuteNotification drops a problem after it for good.
THEOREM UsersAreTold ==
  ASSUME Unfiltered
  PROVE  Spec => []UsersKnow
<1>1. NotificationInv => UsersKnow
  <2> SUFFICES ASSUME NotificationInv, Done, n.lost = {}, NEW u \in PlainUsers PROVE n.told[u] = state
    BY DEF UsersKnow
  <2>1. Told(n, reported) /\ reported = state /\ n.suppressed = {} /\ ~n.delayed
    BY DEF NotificationInv, KnowsOK, Done
  <2> QED BY <2>1 DEF Told
<1> QED BY Consistent, <1>1, PTL

\* Nobody who was told of a problem is left with it after the recovery (RecoveryFollows),
\* whatever the filters on states, the periods and the window are, for a service that does not flap.
THEOREM RecoveryIsTold ==
  ASSUME ~EnableFlapping
  PROVE  Spec => []RecoveryFollows
<1>1. NotificationInv => RecoveryFollows
  <2> SUFFICES ASSUME NotificationInv, Done, n.lost = {}, state = "OK", "Recovery" \in TypeFilter,
                      NEW u \in Users \ PeriodUsers, Types \subseteq UserTypes[u]
               PROVE  n.told[u] = "OK"
    BY DEF RecoveryFollows
  <2>1. Recovered(n, reported) /\ reported = state /\ n.suppressed = {}
    BY DEF NotificationInv, KnowsOK, Done
  <2>2. UserTypes[u] = Types BY NotificationAssumption
  <2>3. u \in Hears BY <2>2 DEF Hears
  <2> QED BY <2>1, <2>3 DEF Recovered
<1> QED BY Consistent, <1>1, PTL

\* Without a time period, and if the ends of problems are not filtered, nobody is told of
\* the same problem state twice in a row except by a reminder (TellsNews).
THEOREM NothingTwice ==
  ASSUME Forgets
  PROVE  Spec => [][TellsNews]_vars
<1>1. NotificationInv /\ [Next]_vars => [TellsNews]_vars BY NextStep
<1> QED BY Consistent, <1>1, PTL DEF Spec

-----------------------------------------------------------------------------
(* TimePeriod: arrays of segments                                            *)

\* What the loop behind Concat has after each round
Gathers(f, arrays, k) == f = [i \in 0..k |-> IF i = 0 THEN <<>> ELSE f[i - 1] \o arrays[i]]

\* The loop is well defined, for any number of rounds.
LEMMA GathersExists ==
  ASSUME NEW arrays, NEW k \in Nat
  PROVE  \E f : Gathers(f, arrays, k)
<1> DEFINE Bad == {m \in Nat : ~\E f : Gathers(f, arrays, m)}
<1>1. SUFFICES ASSUME Bad # {} PROVE FALSE OBVIOUS
<1>2. PICK m \in Bad : \A j \in Bad : m <= j BY <1>1, NatMin
<1>3. CASE m = 0
  <2> DEFINE g == [i \in 0..m |-> <<>>]
  <2>1. Gathers(g, arrays, m) BY <1>3 DEF Gathers
  <2> QED BY <2>1
<1>4. CASE m # 0
  <2>1. m - 1 \in Nat /\ m \in Nat BY <1>4
  <2>2. m - 1 \notin Bad BY <2>1, <1>2
  <2>3. PICK f : Gathers(f, arrays, m - 1) BY <2>1, <2>2
  <2> DEFINE g == [i \in 0..m |-> IF i = m THEN f[m - 1] \o arrays[m] ELSE f[i]]
  <2>4. ASSUME NEW i \in 0..m
        PROVE  g[i] = IF i = 0 THEN <<>> ELSE g[i - 1] \o arrays[i]
    <3>1. CASE i = m
      BY <3>1, <1>4, <2>1
    <3>2. CASE i # m
      <4>1. i \in 0..(m - 1) BY <3>2, <2>1
      <4>2. g[i] = f[i] BY <3>2
      <4>3. f[i] = IF i = 0 THEN <<>> ELSE f[i - 1] \o arrays[i] BY <4>1, <2>3 DEF Gathers
      <4>4. i # 0 => i - 1 \in 0..m /\ i - 1 # m BY <4>1, <2>1
      <4>5. i # 0 => g[i - 1] = f[i - 1] BY <4>4
      <4> QED BY <4>2, <4>3, <4>5
    <3> QED BY <3>1, <3>2
  <2>6. g = [i \in 0..m |-> g[i]] OBVIOUS
  <2> HIDE DEF g
  <2>7. Gathers(g, arrays, m) BY <2>4, <2>6 DEF Gathers
  <2> QED BY <2>7
<1> QED BY <1>3, <1>4

\* An entry of an array
Has(array, x) == \E k \in DOMAIN array : array[k] = x

\* The entries of two arrays one after the other are those of both.
LEMMA HasBoth ==
  ASSUME NEW S, NEW a \in Seq(S), NEW b \in Seq(S), NEW x
  PROVE  a \o b \in Seq(S) /\ (Has(a \o b, x) <=> Has(a, x) \/ Has(b, x))
<1> DEFINE c == a \o b
<1>1. c \in Seq(S) /\ Len(c) = Len(a) + Len(b) /\ Len(a) \in Nat /\ Len(b) \in Nat OBVIOUS
<1>2. DOMAIN c = 1..(Len(a) + Len(b)) /\ DOMAIN a = 1..Len(a) /\ DOMAIN b = 1..Len(b) OBVIOUS
<1>3. \A i \in 1..Len(a) : c[i] = a[i] OBVIOUS
<1>4. \A i \in 1..(Len(a) + Len(b)) : i > Len(a) => c[i] = b[i - Len(a)] OBVIOUS
<1> HIDE DEF c
<1>5. ASSUME Has(c, x) PROVE Has(a, x) \/ Has(b, x)
  <2>1. PICK i \in 1..(Len(a) + Len(b)) : c[i] = x BY <1>5, <1>2 DEF Has
  <2>2. CASE i <= Len(a) BY <2>1, <2>2, <1>1, <1>2, <1>3 DEF Has
  <2>3. CASE i > Len(a)
    <3>1. i - Len(a) \in 1..Len(b) BY <2>3, <1>1
    <3>2. b[i - Len(a)] = x BY <2>1, <2>3, <1>4
    <3> QED BY <3>1, <3>2, <1>2 DEF Has
  <2> QED BY <2>2, <2>3, <1>1
<1>6. ASSUME Has(a, x) PROVE Has(c, x)
  <2>1. PICK i \in 1..Len(a) : a[i] = x BY <1>6, <1>2 DEF Has
  <2>2. i \in DOMAIN c /\ c[i] = x BY <2>1, <1>1, <1>2, <1>3
  <2> QED BY <2>2 DEF Has
<1>7. ASSUME Has(b, x) PROVE Has(c, x)
  <2>1. PICK i \in 1..Len(b) : b[i] = x BY <1>7, <1>2 DEF Has
  <2>2. PICK j \in Nat : j = Len(a) + i BY <1>1
  <2>3. j \in 1..(Len(a) + Len(b)) /\ j > Len(a) /\ j - Len(a) = i BY <2>2, <1>1
  <2>4. c[j] = x BY <2>1, <2>3, <1>4
  <2> QED BY <2>3, <2>4, <1>2 DEF Has
<1> QED BY <1>1, <1>5, <1>6, <1>7 DEF c

\* The entries of Concat are those of all arrays.
LEMMA ConcatHas ==
  ASSUME NEW S, NEW arrays \in Seq(Seq(S))
  PROVE  /\ Concat(arrays) \in Seq(S)
         /\ \A x : Has(Concat(arrays), x) <=> \E i \in DOMAIN arrays : Has(arrays[i], x)
<1> DEFINE F == CHOOSE f : Gathers(f, arrays, Len(arrays))
           N == Len(arrays)
<1>0. N \in Nat /\ DOMAIN arrays = 1..N OBVIOUS
<1>1. Gathers(F, arrays, N)
  <2>1. \E f : Gathers(f, arrays, N) BY <1>0, GathersExists
  <2> QED BY <2>1
<1>2. Concat(arrays) = F[N] BY DEF Concat, Gathers
<1>a. \A i \in 1..N : arrays[i] \in Seq(S) BY ElementOfSeq
<1> HIDE DEF F, N
<1> DEFINE P(i) == F[i] \in Seq(S) /\ \A x : Has(F[i], x) <=> \E j \in 1..i : Has(arrays[j], x)
           Bad == {i \in 0..N : ~P(i)}
<1>3. SUFFICES ASSUME Bad # {} PROVE FALSE
  <2>1. Bad = {} BY <1>3
  <2>2. N \in 0..N BY <1>0
  <2>3. P(N) BY <2>1, <2>2
  <2> QED BY <2>3, <1>0, <1>2
<1>4. PICK m \in Bad : \A j \in Bad : m <= j
  <2>1. Bad \subseteq Nat BY <1>0
  <2> HIDE DEF Bad
  <2> QED BY <1>3, <2>1, NatMin
<1>5. m \in 0..N /\ ~P(m) OBVIOUS
<1>6. F[m] = IF m = 0 THEN <<>> ELSE F[m - 1] \o arrays[m] BY <1>1, <1>5 DEF Gathers
<1>7. CASE m = 0
  <2>1. F[m] = <<>> BY <1>6, <1>7
  <2>2. \A x : ~Has(F[m], x) BY <2>1 DEF Has
  <2>3. F[m] \in Seq(S) BY <2>1
  <2> QED BY <1>5, <1>7, <2>2, <2>3
<1>8. CASE m # 0
  <2>1. m - 1 \in 0..N /\ ~(m <= m - 1) /\ m \in 1..N /\ m \in Nat BY <1>0, <1>5, <1>8
  <2>2. P(m - 1) BY <2>1, <1>4
  <2>3. F[m] = F[m - 1] \o arrays[m] BY <1>6, <1>8
  <2>4. F[m - 1] \in Seq(S) /\ arrays[m] \in Seq(S) BY <2>1, <2>2, <1>a
  <2>5. F[m] \in Seq(S) BY <2>3, <2>4, HasBoth
  <2>6. ASSUME NEW x PROVE Has(F[m], x) <=> \E j \in 1..m : Has(arrays[j], x)
    <3>1. Has(F[m], x) <=> Has(F[m - 1], x) \/ Has(arrays[m], x) BY <2>3, <2>4, HasBoth
    <3>2. Has(F[m - 1], x) <=> \E j \in 1..(m - 1) : Has(arrays[j], x) BY <2>2
    <3>3. \A j : j \in 1..m <=> j \in 1..(m - 1) \/ j = m BY <2>1
    <3> QED BY <3>1, <3>2, <3>3
  <2> QED BY <1>5, <2>5, <2>6
<1> QED BY <1>7, <1>8

-----------------------------------------------------------------------------
(* TimePeriod: segments                                                      *)

Segments == [begin: Nat, end: Nat]

\* What a time period consists of
TimePeriodRecords ==
    [validBegin: Int, validEnd: Int, segments: Seq(Segments), uncut: SUBSET Int, merged: SUBSET Int]

Within(s, ts) == s.begin <= ts /\ ts < s.end

\* A time in one of the segments
Covers(segments, ts) == \E s \in Segments : Has(segments, s) /\ Within(s, ts)

\* No segment ends before it begins.
Proper(segments) ==
    segments \in Seq(Segments) /\ \A s \in Segments : Has(segments, s) => s.begin <= s.end

Sane(tp) ==
    tp \in TimePeriodRecords /\ Proper(tp.segments) /\ Unset <= tp.validBegin /\ Unset <= tp.validEnd

\* Nothing is known of the time after the limit.
EndsBy(segments, limit) == \A s \in Segments : Has(segments, s) => s.end <= limit
Bounded(tp, limit) == tp.validEnd <= limit /\ EndsBy(tp.segments, limit)

\* The valid region is extended by a segment.
Extended(e, tp, s) ==
    /\ e.validEnd = Upper(tp.validEnd, s.end)
    /\ e.validBegin = IF tp.validBegin = Unset THEN s.begin ELSE Lower(tp.validBegin, s.begin)

\* The parts of a time period
LEMMA PeriodFields ==
  ASSUME NEW tp \in TimePeriodRecords
  PROVE  /\ tp.validBegin \in Int /\ tp.validEnd \in Int /\ tp.segments \in Seq(Segments)
         /\ tp.uncut \in SUBSET Int /\ tp.merged \in SUBSET Int
  BY DEF TimePeriodRecords

\* Extend changes nothing but the valid region.
LEMMA ExtendFields ==
  ASSUME NEW tp \in TimePeriodRecords, NEW s \in Segments
  PROVE  /\ Extend(tp, s) \in TimePeriodRecords /\ Extended(Extend(tp, s), tp, s)
         /\ Extend(tp, s).segments = tp.segments /\ Extend(tp, s).uncut = tp.uncut
         /\ Extend(tp, s).merged = tp.merged
<1> DEFINE b == IF tp.validBegin = Unset THEN s.begin ELSE Lower(tp.validBegin, s.begin)
           v == Upper(tp.validEnd, s.end)
           e == [tp EXCEPT !.validBegin = b, !.validEnd = v]
<1>1. b \in Int /\ v \in Int BY DEF TimePeriodRecords, Segments, Lower, Upper
<1>2. Extend(tp, s) = e BY DEF Extend
<1> HIDE DEF b, v
<1>3. e \in TimePeriodRecords BY <1>1 DEF TimePeriodRecords
<1>4. /\ e.validBegin = b /\ e.validEnd = v /\ e.segments = tp.segments /\ e.uncut = tp.uncut
      /\ e.merged = tp.merged
  BY DEF TimePeriodRecords
<1> HIDE DEF e
<1> QED BY <1>2, <1>3, <1>4 DEF b, v, Extended

\* The parts of e
Parts(e, begin, end, segs, u, m) ==
    /\ e \in TimePeriodRecords /\ e.validBegin = begin /\ e.validEnd = end /\ e.segments = segs
    /\ e.uncut = u /\ e.merged = m

\* What the setters change
LEMMA SetSegments ==
  ASSUME NEW tp \in TimePeriodRecords, NEW segs \in Seq(Segments)
  PROVE  Parts([tp EXCEPT !.segments = segs], tp.validBegin, tp.validEnd, segs, tp.uncut, tp.merged)
  BY DEF TimePeriodRecords, Parts

LEMMA SetUncut ==
  ASSUME NEW tp \in TimePeriodRecords, NEW segs \in Seq(Segments), NEW u \in SUBSET Int
  PROVE  Parts([tp EXCEPT !.segments = segs, !.uncut = u],
               tp.validBegin, tp.validEnd, segs, u, tp.merged)
  BY DEF TimePeriodRecords, Parts

LEMMA SetMerged ==
  ASSUME NEW tp \in TimePeriodRecords, NEW m \in SUBSET Int
  PROVE  Parts([tp EXCEPT !.merged = m], tp.validBegin, tp.validEnd, tp.segments, tp.uncut, m)
  BY DEF TimePeriodRecords, Parts

LEMMA SetPurged ==
  ASSUME NEW tp \in TimePeriodRecords, NEW segs \in Seq(Segments), NEW u \in SUBSET Int, NEW b \in Int
  PROVE  Parts([tp EXCEPT !.validBegin = b, !.segments = segs, !.uncut = u],
               b, tp.validEnd, segs, u, tp.merged)
  BY DEF TimePeriodRecords, Parts

\* A proper segment of an array
LEMMA ProperEntry ==
  ASSUME NEW segs, Proper(segs), NEW k \in DOMAIN segs
  PROVE  segs[k] \in Segments /\ segs[k].begin <= segs[k].end /\ Has(segs, segs[k])
<1>1. segs \in Seq(Segments) BY DEF Proper
<1>2. k \in 1..Len(segs) BY <1>1
<1>3. segs[k] \in Segments BY <1>1, <1>2, ElementOfSeq
<1>4. Has(segs, segs[k]) BY DEF Has
<1> QED BY <1>3, <1>4 DEF Proper

\* What AddSegment does
Added(e, tp, s) ==
    /\ Sane(e) /\ Extended(e, tp, s) /\ e.uncut = tp.uncut /\ e.merged = tp.merged
    /\ \A ts \in Nat : Covers(e.segments, ts) <=> Covers(tp.segments, ts) \/ Within(s, ts)
    /\ \A limit \in Nat : Bounded(tp, limit) /\ s.end <= limit => Bounded(e, limit)

\* A segment that overlaps or touches another one and is merged into it covers both.
LEMMA AddIsUnion ==
  ASSUME NEW tp, Sane(tp), NEW s \in Segments, s.begin <= s.end
  PROVE  Added(AddSegment(tp, s), tp, s)
<1> DEFINE segs == tp.segments
           Touches(k) == segs[k].begin <= s.end /\ s.begin <= segs[k].end
           first == CHOOSE k \in DOMAIN segs : Touches(k) /\ \A l \in 1..(k - 1) : ~Touches(l)
           joint == Segment(Lower(segs[first].begin, s.begin), Upper(segs[first].end, s.end))
           new == IF \E k \in DOMAIN segs : Touches(k) THEN [segs EXCEPT ![first] = joint]
                  ELSE Append(segs, s)
           e == AddSegment(tp, s)
<1>0. tp \in TimePeriodRecords /\ Proper(segs) /\ segs \in Seq(Segments) BY DEF Sane, Proper
<1>d. Len(segs) \in Nat /\ DOMAIN segs = 1..Len(segs) BY <1>0
<1>s. s.begin \in Nat /\ s.end \in Nat BY DEF Segments
<1>x. PICK x : x = Extend(tp, s) OBVIOUS
<1>y. x \in TimePeriodRecords /\ Extended(x, tp, s) /\ x.segments = segs /\ x.uncut = tp.uncut
      /\ x.merged = tp.merged
  BY <1>0, <1>x, ExtendFields
<1>1. e = [x EXCEPT !.segments = new]
  BY <1>x, <1>y DEF AddSegment
<1>2. /\ new \in Seq(Segments) /\ Proper(new)
      /\ \A ts \in Nat : Covers(new, ts) <=> Covers(segs, ts) \/ Within(s, ts)
      /\ \A limit \in Nat : EndsBy(segs, limit) /\ s.end <= limit => EndsBy(new, limit)
  <2>1. CASE \E k \in DOMAIN segs : Touches(k)
    <3>1. first \in DOMAIN segs /\ Touches(first)
      <4> DEFINE T == {k \in DOMAIN segs : Touches(k)}
      <4>1. T # {} BY <2>1
      <4>2. T \subseteq Nat BY <1>d
      <4>3. PICK m \in T : \A k \in T : m <= k
        <5> HIDE DEF T
        <5> QED BY <4>1, <4>2, NatMin
      <4>4. m \in DOMAIN segs /\ Touches(m) OBVIOUS
      <4>5. ASSUME NEW l \in 1..(m - 1) PROVE ~Touches(l)
        <5>1. l \in DOMAIN segs /\ ~(m <= l) BY <1>d, <4>4
        <5> QED BY <5>1, <4>3
      <4> HIDE DEF T, Touches
      <4> QED BY <4>4, <4>5
    <3> HIDE DEF first
    <3>2. PICK old : old = segs[first] OBVIOUS
    <3>3. old \in Segments /\ old.begin <= old.end /\ Has(segs, old) BY <3>1, <3>2, <1>0, ProperEntry
    <3>4. old.begin <= s.end /\ s.begin <= old.end BY <3>1, <3>2
    <3>5. /\ joint \in Segments /\ joint.begin <= joint.end
          /\ \A ts \in Nat : Within(joint, ts) <=> Within(old, ts) \/ Within(s, ts)
          /\ \A limit \in Nat : old.end <= limit /\ s.end <= limit => joint.end <= limit
      BY <3>2, <3>3, <3>4, <1>s DEF Segments, Segment, Lower, Upper, Within
    <3> HIDE DEF joint
    <3>6. new = [segs EXCEPT ![first] = joint] BY <2>1
    <3>7. /\ new \in Seq(Segments) /\ DOMAIN new = DOMAIN segs
          /\ \A j \in DOMAIN segs : new[j] = IF j = first THEN joint ELSE segs[j]
      BY <3>1, <3>5, <3>6, <1>0
    <3> HIDE DEF new
    <3>8. ASSUME NEW y, Has(new, y) PROVE Has(segs, y) \/ y = joint BY <3>7, <3>8 DEF Has
    <3>9. ASSUME NEW y, Has(segs, y) PROVE Has(new, y) \/ y = old BY <3>2, <3>7, <3>9 DEF Has
    <3>10. Has(new, joint) BY <3>1, <3>7 DEF Has
    <3>11. Proper(new) BY <3>5, <3>7, <3>8, <1>0 DEF Proper
    <3>12. ASSUME NEW ts \in Nat PROVE Covers(new, ts) <=> Covers(segs, ts) \/ Within(s, ts)
      <4>1. ASSUME Covers(new, ts) PROVE Covers(segs, ts) \/ Within(s, ts)
        BY <4>1, <3>3, <3>5, <3>8 DEF Covers
      <4>2. ASSUME Covers(segs, ts) \/ Within(s, ts) PROVE Covers(new, ts)
        <5>1. CASE Within(joint, ts) BY <5>1, <3>5, <3>10 DEF Covers
        <5>2. CASE ~Within(joint, ts)
          <6>1. ~Within(old, ts) /\ ~Within(s, ts) BY <5>2, <3>5
          <6>2. PICK y \in Segments : Has(segs, y) /\ Within(y, ts) BY <4>2, <6>1 DEF Covers
          <6>3. Has(new, y) BY <6>1, <6>2, <3>9
          <6> QED BY <6>2, <6>3 DEF Covers
        <5> QED BY <5>1, <5>2
      <4> QED BY <4>1, <4>2
    <3>13. ASSUME NEW limit \in Nat, EndsBy(segs, limit), s.end <= limit PROVE EndsBy(new, limit)
      <4>1. joint.end <= limit BY <3>3, <3>5, <3>13 DEF EndsBy
      <4>2. ASSUME NEW y \in Segments, Has(new, y) PROVE y.end <= limit
        <5>1. Has(segs, y) \/ y = joint BY <4>2, <3>8
        <5> QED BY <5>1, <4>1, <3>13 DEF EndsBy
      <4> QED BY <4>2 DEF EndsBy
    <3> QED BY <3>7, <3>11, <3>12, <3>13
  <2>2. CASE ~\E k \in DOMAIN segs : Touches(k)
    <3>1. new = Append(segs, s) BY <2>2
    <3>2. new \in Seq(Segments) /\ DOMAIN new = 1..(Len(segs) + 1) /\ new[Len(segs) + 1] = s
          /\ \A j \in 1..Len(segs) : new[j] = segs[j]
      BY <3>1, <1>0
    <3> HIDE DEF new
    <3>3. ASSUME NEW y PROVE Has(new, y) <=> Has(segs, y) \/ y = s
      <4>1. \A j : j \in DOMAIN new <=> j \in DOMAIN segs \/ j = Len(segs) + 1 BY <3>2, <1>d
      <4> QED BY <4>1, <3>2, <1>d DEF Has
    <3>4. Proper(new) BY <3>2, <3>3, <1>0 DEF Proper
    <3>5. \A ts \in Nat : Covers(new, ts) <=> Covers(segs, ts) \/ Within(s, ts) BY <3>3 DEF Covers
    <3>6. \A limit \in Nat : EndsBy(segs, limit) /\ s.end <= limit => EndsBy(new, limit)
      BY <3>3 DEF EndsBy
    <3> QED BY <3>2, <3>4, <3>5, <3>6
  <2> QED BY <2>1, <2>2
<1> HIDE DEF new
<1>3. Parts(e, x.validBegin, x.validEnd, new, x.uncut, x.merged)
  BY <1>1, <1>2, <1>y, SetSegments
<1> HIDE DEF e
<1>4. Extended(e, tp, s) BY <1>3, <1>y DEF Extended, Parts
<1>5. Unset <= e.validBegin /\ Unset <= e.validEnd
      /\ \A limit \in Nat : tp.validEnd <= limit /\ s.end <= limit => e.validEnd <= limit
  BY <1>0, <1>4, <1>s, PeriodFields DEF Extended, Sane, Unset, Lower, Upper
<1> QED BY <1>2, <1>3, <1>4, <1>5, <1>y DEF Added, Sane, Bounded, Parts, e

\* What RemoveSegment does
Removed(e, tp, r) ==
    /\ Sane(e) /\ Extended(e, tp, r) /\ tp.uncut \subseteq e.uncut /\ e.merged = tp.merged
    /\ \A ts \in Nat : /\ Covers(e.segments, ts) => Covers(tp.segments, ts)
                       /\ Covers(tp.segments, ts) /\ ~Within(r, ts) => Covers(e.segments, ts)
                       /\ Covers(e.segments, ts) /\ Within(r, ts) => ts \in e.uncut
    /\ \A limit \in Nat : Bounded(tp, limit) /\ r.end <= limit => Bounded(e, limit)

\* The rest of one segment
LEMMA RestIsDifference ==
  ASSUME NEW s \in Segments, s.begin <= s.end, NEW r \in Segments, r.begin <= r.end
  PROVE  /\ Rest(s, r) \in Seq(Segments)
         /\ \A y : Has(Rest(s, r), y) => /\ y.begin <= y.end /\ y.end <= s.end
                                         /\ \A ts \in Nat : Within(y, ts) => Within(s, ts)
         /\ \A ts \in Nat : Within(s, ts) /\ ~Within(r, ts)
               => \E y \in Segments : Has(Rest(s, r), y) /\ Within(y, ts)
         /\ \A ts \in Nat : \A y : Has(Rest(s, r), y) /\ Within(y, ts) /\ Within(r, ts)
               => (s.begin = r.begin /\ s.end > r.end) \/ (s.end = r.end /\ s.begin < r.begin)
<1>0. s.begin \in Nat /\ s.end \in Nat /\ r.begin \in Nat /\ r.end \in Nat BY DEF Segments
<1>h. /\ \A y : ~Has(<<>>, y)
      /\ \A a, y : Has(<<a>>, y) <=> y = a
      /\ \A a, b, y : Has(<<a, b>>, y) <=> y = a \/ y = b
  <2>1. \A y : ~Has(<<>>, y) BY DEF Has
  <2>2. ASSUME NEW a, NEW y PROVE Has(<<a>>, y) <=> y = a
    <3>1. DOMAIN <<a>> = {1} OBVIOUS
    <3> QED BY <3>1 DEF Has
  <2>3. ASSUME NEW a, NEW b, NEW y PROVE Has(<<a, b>>, y) <=> y = a \/ y = b
    <3>1. DOMAIN <<a, b>> = {1, 2} OBVIOUS
    <3> QED BY <3>1 DEF Has
  <2> QED BY <2>1, <2>2, <2>3
<1>1. CASE s.begin >= r.begin /\ s.end <= r.end
  <2>1. Rest(s, r) = <<>> BY <1>1 DEF Rest
  <2>2. ASSUME NEW ts \in Nat, Within(s, ts) PROVE Within(r, ts) BY <1>0, <1>1, <2>2 DEF Within
  <2> QED BY <2>1, <2>2, <1>h
<1>2. CASE s.begin < r.begin /\ s.end > r.end
  <2> DEFINE a == Segment(s.begin, r.begin)
             b == Segment(r.end, s.end)
  <2>1. Rest(s, r) = <<a, b>> BY <1>0, <1>2 DEF Rest
  <2>2. a \in Segments /\ b \in Segments /\ a.begin <= a.end /\ b.begin <= b.end /\ a.end <= s.end /\ b.end <= s.end
    BY <1>0, <1>2 DEF Segments, Segment
  <2>3. \A ts \in Nat : /\ Within(a, ts) <=> s.begin <= ts /\ ts < r.begin
                        /\ Within(b, ts) <=> r.end <= ts /\ ts < s.end
    BY DEF Within, Segment
  <2> HIDE DEF a, b
  <2>4. \A ts \in Nat : /\ Within(a, ts) \/ Within(b, ts) => Within(s, ts) /\ ~Within(r, ts)
                        /\ Within(s, ts) /\ ~Within(r, ts) => Within(a, ts) \/ Within(b, ts)
    BY <2>3, <1>0, <1>2 DEF Within
  <2>5. <<a, b>> \in Seq(Segments) BY <2>2
  <2> QED BY <2>1, <2>2, <2>4, <2>5, <1>h
<1>3. CASE ~(s.begin >= r.begin /\ s.end <= r.end) /\ ~(s.begin < r.begin /\ s.end > r.end)
  <2> DEFINE a == Segment(IF s.begin > r.begin /\ s.begin < r.end THEN r.end ELSE s.begin,
                          IF s.end > r.begin /\ s.end < r.end THEN r.begin ELSE s.end)
  <2>1. Rest(s, r) = <<a>> BY <1>3 DEF Rest
  <2>2. a \in Segments /\ a.begin <= a.end /\ a.end <= s.end BY <1>0, <1>3 DEF Segments, Segment
  <2>3. \A ts \in Nat : /\ Within(a, ts) => Within(s, ts)
                        /\ Within(s, ts) /\ ~Within(r, ts) => Within(a, ts)
                        /\ Within(a, ts) /\ Within(r, ts) =>
                             (s.begin = r.begin /\ s.end > r.end) \/ (s.end = r.end /\ s.begin < r.begin)
    BY <1>0, <1>3 DEF Within, Segment
  <2> HIDE DEF a
  <2>4. <<a>> \in Seq(Segments) BY <2>2
  <2> QED BY <2>1, <2>2, <2>3, <2>4, <1>h
<1> QED BY <1>0, <1>1, <1>2, <1>3

\* RemoveSegment takes away what is within r, but for a segment that shares an end with it.
LEMMA RemoveIsDifference ==
  ASSUME NEW tp, Sane(tp), NEW r \in Segments, r.begin <= r.end
  PROVE  Removed(RemoveSegment(tp, r), tp, r)
<1> DEFINE segs == tp.segments
           rests == [k \in DOMAIN segs |-> Rest(segs[k], r)]
           new == Concat(rests)
           Shares(s) == (s.begin = r.begin /\ s.end > r.end) \/ (s.end = r.end /\ s.begin < r.begin)
           u == IF \E k \in DOMAIN segs : Shares(segs[k])
                THEN tp.uncut \cup (r.begin..(r.end - 1)) ELSE tp.uncut
           e == RemoveSegment(tp, r)
<1>0. tp \in TimePeriodRecords /\ Proper(segs) /\ segs \in Seq(Segments) BY DEF Sane, Proper
<1>d. Len(segs) \in Nat /\ DOMAIN segs = 1..Len(segs) BY <1>0
<1>r. r.begin \in Nat /\ r.end \in Nat BY DEF Segments
<1>x. PICK x : x = Extend(tp, r) OBVIOUS
<1>y. x \in TimePeriodRecords /\ Extended(x, tp, r) /\ x.segments = segs /\ x.uncut = tp.uncut
      /\ x.merged = tp.merged
  BY <1>0, <1>x, ExtendFields
<1>1. e = [x EXCEPT !.segments = new, !.uncut = u]
  BY <1>x, <1>y DEF RemoveSegment
<1>2. u \in SUBSET Int /\ tp.uncut \subseteq u BY <1>0, <1>r, PeriodFields
<1>3. ASSUME NEW k \in DOMAIN segs
      PROVE  /\ segs[k] \in Segments /\ segs[k].begin <= segs[k].end /\ Has(segs, segs[k])
             /\ rests[k] = Rest(segs[k], r)
  BY <1>0, ProperEntry
<1>4. rests \in Seq(Seq(Segments)) /\ DOMAIN rests = DOMAIN segs
  <2>1. \A k \in DOMAIN segs : Rest(segs[k], r) \in Seq(Segments) BY <1>3, RestIsDifference
  <2> QED BY <2>1, <1>d
<1> HIDE DEF rests
<1>5. /\ new \in Seq(Segments)
      /\ \A y : Has(new, y) <=> \E k \in DOMAIN segs : Has(rests[k], y)
  BY <1>4, ConcatHas
<1> HIDE DEF new
<1>6. ASSUME NEW y, Has(new, y)
      PROVE  \E k \in DOMAIN segs :
                 /\ y.begin <= y.end /\ y.end <= segs[k].end
                 /\ \A ts \in Nat : Within(y, ts) => Within(segs[k], ts)
                 /\ \A ts \in Nat : Within(y, ts) /\ Within(r, ts) => Shares(segs[k])
  <2>1. PICK k \in DOMAIN segs : Has(rests[k], y) BY <1>5, <1>6
  <2>2. Has(Rest(segs[k], r), y) BY <2>1, <1>3
  <2>3. segs[k] \in Segments /\ segs[k].begin <= segs[k].end BY <1>3
  <2>4. /\ y.begin <= y.end /\ y.end <= segs[k].end
        /\ \A ts \in Nat : Within(y, ts) => Within(segs[k], ts)
        /\ \A ts \in Nat : Within(y, ts) /\ Within(r, ts) => Shares(segs[k])
    BY <2>2, <2>3, RestIsDifference
  <2> HIDE DEF Shares
  <2> QED BY <2>4
<1>7. ASSUME NEW k \in DOMAIN segs, NEW ts \in Nat, Within(segs[k], ts), ~Within(r, ts)
      PROVE  Covers(new, ts)
  <2>1. segs[k] \in Segments /\ segs[k].begin <= segs[k].end BY <1>3
  <2>2. PICK y \in Segments : Has(Rest(segs[k], r), y) /\ Within(y, ts)
    BY <2>1, <1>7, RestIsDifference
  <2>3. Has(new, y) BY <2>2, <1>3, <1>5
  <2> QED BY <2>2, <2>3 DEF Covers
<1>8. Proper(new) BY <1>5, <1>6 DEF Proper
<1>9. \A limit \in Nat : EndsBy(segs, limit) => EndsBy(new, limit)
  <2> SUFFICES ASSUME NEW limit \in Nat, EndsBy(segs, limit), NEW y \in Segments, Has(new, y)
               PROVE  y.end <= limit
    BY DEF EndsBy
  <2>1. PICK k \in DOMAIN segs : y.end <= segs[k].end BY <1>6
  <2>2. segs[k] \in Segments /\ segs[k].end <= limit BY <1>3 DEF EndsBy
  <2> QED BY <2>1, <2>2 DEF Segments
<1>10. ASSUME NEW ts \in Nat
       PROVE  /\ Covers(new, ts) => Covers(segs, ts)
              /\ Covers(segs, ts) /\ ~Within(r, ts) => Covers(new, ts)
              /\ Covers(new, ts) /\ Within(r, ts) => ts \in u
  <2>1. ASSUME Covers(new, ts) PROVE Covers(segs, ts) /\ (Within(r, ts) => ts \in u)
    <3>1. PICK y \in Segments : Has(new, y) /\ Within(y, ts) BY <2>1 DEF Covers
    <3>2. PICK k \in DOMAIN segs :
                 /\ \A t \in Nat : Within(y, t) => Within(segs[k], t)
                 /\ \A t \in Nat : Within(y, t) /\ Within(r, t) => Shares(segs[k])
      <4> HIDE DEF Shares
      <4> QED BY <3>1, <1>6
    <3>3. Covers(segs, ts) BY <3>1, <3>2, <1>3 DEF Covers
    <3>4. ASSUME Within(r, ts) PROVE ts \in u
      <4>1. Shares(segs[k])
        <5> HIDE DEF Shares
        <5> QED BY <3>1, <3>2, <3>4
      <4>2. u = tp.uncut \cup (r.begin..(r.end - 1))
        <5> HIDE DEF Shares
        <5> QED BY <4>1
      <4>3. ts \in r.begin..(r.end - 1) BY <3>4, <1>r DEF Within
      <4> HIDE DEF u
      <4> QED BY <4>2, <4>3
    <3> QED BY <3>3, <3>4
  <2>2. ASSUME Covers(segs, ts), ~Within(r, ts) PROVE Covers(new, ts)
    <3>1. PICK k \in DOMAIN segs : Within(segs[k], ts) BY <2>2 DEF Covers, Has
    <3> QED BY <3>1, <2>2, <1>7
  <2> QED BY <2>1, <2>2
<1> HIDE DEF u
<1>11. Parts(e, x.validBegin, x.validEnd, new, u, x.merged)
  <2>1. u \in SUBSET Int /\ new \in Seq(Segments) /\ x \in TimePeriodRecords BY <1>2, <1>5, <1>y
  <2>2. Parts([x EXCEPT !.segments = new, !.uncut = u],
              x.validBegin, x.validEnd, new, u, x.merged)
    BY <2>1, SetUncut
  <2> HIDE DEF e
  <2> QED BY <1>1, <2>2
<1> HIDE DEF e
<1>12. Extended(e, tp, r) BY <1>11, <1>y DEF Extended, Parts
<1>13. Unset <= e.validBegin /\ Unset <= e.validEnd
       /\ \A limit \in Nat : tp.validEnd <= limit /\ r.end <= limit => e.validEnd <= limit
  BY <1>0, <1>12, <1>r, PeriodFields DEF Extended, Sane, Unset, Lower, Upper
<1> QED BY <1>2, <1>8, <1>9, <1>10, <1>11, <1>12, <1>13, <1>y DEF Removed, Sane, Bounded, Parts, e

-----------------------------------------------------------------------------
(* TimePeriod: merging                                                       *)

\* What the loop of Merge has after each round
Merges(f, tp, segs, include, k) ==
    f = [i \in 0..k |-> IF i = 0 THEN tp
                        ELSE IF include THEN AddSegment(f[i - 1], segs[i])
                             ELSE RemoveSegment(f[i - 1], segs[i])]

\* The loop is well defined.
LEMMA MergesExists ==
  ASSUME NEW tp, NEW segs, NEW include, NEW k \in Nat
  PROVE  \E f : Merges(f, tp, segs, include, k)
<1> DEFINE Bad == {m \in Nat : ~\E f : Merges(f, tp, segs, include, m)}
<1>1. SUFFICES ASSUME Bad # {} PROVE FALSE OBVIOUS
<1>2. PICK m \in Bad : \A j \in Bad : m <= j BY <1>1, NatMin
<1>3. CASE m = 0
  <2> DEFINE g == [i \in 0..m |-> tp]
  <2>1. Merges(g, tp, segs, include, m) BY <1>3 DEF Merges
  <2> QED BY <2>1
<1>4. CASE m # 0
  <2>1. m - 1 \in Nat /\ m \in Nat BY <1>4
  <2>2. m - 1 \notin Bad BY <2>1, <1>2
  <2>3. PICK f : Merges(f, tp, segs, include, m - 1) BY <2>1, <2>2
  <2> DEFINE last == IF include THEN AddSegment(f[m - 1], segs[m])
                     ELSE RemoveSegment(f[m - 1], segs[m])
             g == [i \in 0..m |-> IF i = m THEN last ELSE f[i]]
  <2>4. ASSUME NEW i \in 0..m
        PROVE  g[i] = IF i = 0 THEN tp
                      ELSE IF include THEN AddSegment(g[i - 1], segs[i])
                           ELSE RemoveSegment(g[i - 1], segs[i])
    <3>1. CASE i = m
      <4>1. g[i] = last BY <3>1
      <4>2. g[i - 1] = f[m - 1] BY <3>1, <2>1
      <4> HIDE DEF g
      <4> QED BY <3>1, <4>1, <4>2, <1>4
    <3>2. CASE i # m
      <4>1. i \in 0..(m - 1) BY <3>2, <2>1
      <4>2. g[i] = f[i] BY <3>2
      <4>3. f[i] = IF i = 0 THEN tp
                   ELSE IF include THEN AddSegment(f[i - 1], segs[i])
                        ELSE RemoveSegment(f[i - 1], segs[i])
        BY <4>1, <2>3 DEF Merges
      <4>4. i # 0 => i - 1 \in 0..m /\ i - 1 # m BY <4>1, <2>1
      <4>5. i # 0 => g[i - 1] = f[i - 1] BY <4>4
      <4> HIDE DEF g, last
      <4> QED BY <4>2, <4>3, <4>5
    <3> QED BY <3>1, <3>2
  <2>6. g = [i \in 0..m |-> g[i]] OBVIOUS
  <2> HIDE DEF g
  <2>7. Merges(g, tp, segs, include, m) BY <2>4, <2>6 DEF Merges
  <2> QED BY <2>7
<1> QED BY <1>3, <1>4

\* The valid region only grows.
Grown(e, tp) ==
    /\ tp.validEnd <= e.validEnd
    /\ 0 <= tp.validBegin => 0 <= e.validBegin /\ e.validBegin <= tp.validBegin

LEMMA ExtendedGrows ==
  ASSUME NEW e, NEW tp, Sane(tp), NEW s \in Segments, Extended(e, tp, s)
  PROVE  Grown(e, tp)
  BY DEF Grown, Extended, Sane, TimePeriodRecords, Segments, Unset, Lower, Upper

LEMMA GrownTransitive ==
  ASSUME NEW a, NEW b, NEW c, Sane(a), Sane(b), Sane(c), Grown(c, b), Grown(b, a)
  PROVE  Grown(c, a)
  BY DEF Grown, Sane, TimePeriodRecords

\* e is tp with segments added, or removed from it
Included(e, tp, segs) ==
    /\ Sane(e) /\ Grown(e, tp) /\ e.uncut = tp.uncut /\ e.merged = tp.merged
    /\ \A ts \in Nat : Covers(e.segments, ts) <=> Covers(tp.segments, ts) \/ Covers(segs, ts)
    /\ \A limit \in Nat : Bounded(tp, limit) /\ EndsBy(segs, limit) => Bounded(e, limit)

Excluded(e, tp, segs) ==
    /\ Sane(e) /\ Grown(e, tp) /\ tp.uncut \subseteq e.uncut /\ e.merged = tp.merged
    /\ \A ts \in Nat : /\ Covers(e.segments, ts) => Covers(tp.segments, ts)
                       /\ Covers(tp.segments, ts) /\ ~Covers(segs, ts) => Covers(e.segments, ts)
                       /\ Covers(e.segments, ts) /\ Covers(segs, ts) => ts \in e.uncut
    /\ \A limit \in Nat : Bounded(tp, limit) /\ EndsBy(segs, limit) => Bounded(e, limit)

\* Each round of the loop does to the period what its segment says.
MergeBy(f, tp, segs, include) ==
    /\ Merge(tp, segs, include) = f[Len(segs)]
    /\ f[0] = tp
    /\ \A i \in 1..Len(segs) : f[i] = IF include THEN AddSegment(f[i - 1], segs[i])
                                      ELSE RemoveSegment(f[i - 1], segs[i])

LEMMA MergeRounds ==
  ASSUME NEW tp, NEW segs, Proper(segs), NEW include \in BOOLEAN
  PROVE  \E f : MergeBy(f, tp, segs, include)
<1> DEFINE N == Len(segs)
           F == CHOOSE f : Merges(f, tp, segs, include, N)
<1>0. N \in Nat BY DEF Proper
<1>1. Merges(F, tp, segs, include, N)
  <2>1. \E f : Merges(f, tp, segs, include, N) BY <1>0, MergesExists
  <2> QED BY <2>1
<1>2. Merge(tp, segs, include) = F[N] BY DEF Merge, Merges
<1> HIDE DEF F
<1>3. F[0] = tp BY <1>0, <1>1 DEF Merges
<1>4. ASSUME NEW i \in 1..N
      PROVE  F[i] = IF include THEN AddSegment(F[i - 1], segs[i])
                    ELSE RemoveSegment(F[i - 1], segs[i])
  <2>1. i \in 0..N /\ i # 0 BY <1>0
  <2>2. F[i] = IF i = 0 THEN tp ELSE IF include THEN AddSegment(F[i - 1], segs[i])
                                  ELSE RemoveSegment(F[i - 1], segs[i])
    BY <2>1, <1>1 DEF Merges
  <2> QED BY <2>1, <2>2
<1>5. MergeBy(F, tp, segs, include) BY <1>2, <1>3, <1>4 DEF MergeBy
<1> QED BY <1>5

\* The first segments of an array
First(segs, k, ts) == \E j \in 1..k : Within(segs[j], ts)

LEMMA FirstFacts ==
  ASSUME NEW segs, Proper(segs), NEW ts
  PROVE  /\ Len(segs) \in Nat /\ DOMAIN segs = 1..Len(segs)
         /\ First(segs, Len(segs), ts) <=> Covers(segs, ts)
         /\ ~First(segs, 0, ts)
         /\ \A k \in 1..Len(segs) : First(segs, k, ts) <=> First(segs, k - 1, ts) \/ Within(segs[k], ts)
<1>1. Len(segs) \in Nat /\ DOMAIN segs = 1..Len(segs) BY DEF Proper
<1>2. \A k \in 1..Len(segs) : segs[k] \in Segments /\ Has(segs, segs[k]) BY <1>1, ProperEntry
<1>3. First(segs, Len(segs), ts) => Covers(segs, ts) BY <1>2 DEF First, Covers
<1>4. Covers(segs, ts) => First(segs, Len(segs), ts) BY <1>1 DEF First, Covers, Has
<1>5. ~First(segs, 0, ts) BY DEF First
<1>6. ASSUME NEW k \in 1..Len(segs)
      PROVE  First(segs, k, ts) <=> First(segs, k - 1, ts) \/ Within(segs[k], ts)
  <2>1. \A j : j \in 1..k <=> j \in 1..(k - 1) \/ j = k BY <1>1
  <2> QED BY <2>1 DEF First
<1> QED BY <1>1, <1>3, <1>4, <1>5, <1>6

LEMMA MergeIncludes ==
  ASSUME NEW tp, Sane(tp), NEW segs, Proper(segs)
  PROVE  Included(Merge(tp, segs, TRUE), tp, segs)
<1>1. PICK f : /\ Merge(tp, segs, TRUE) = f[Len(segs)]
               /\ f[0] = tp
               /\ \A i \in 1..Len(segs) : f[i] = AddSegment(f[i - 1], segs[i])
  <2>1. PICK include \in BOOLEAN : include = TRUE OBVIOUS
  <2>2. PICK f : MergeBy(f, tp, segs, include) BY MergeRounds
  <2>3. Merge(tp, segs, TRUE) = f[Len(segs)] /\ f[0] = tp BY <2>1, <2>2 DEF MergeBy
  <2>4. \A i \in 1..Len(segs) : f[i] = AddSegment(f[i - 1], segs[i])
    BY <2>1, <2>2 DEF MergeBy
  <2> QED BY <2>3, <2>4
<1>2. Len(segs) \in Nat /\ DOMAIN segs = 1..Len(segs) BY FirstFacts
<1> DEFINE P(i) ==
             /\ Sane(f[i]) /\ Grown(f[i], tp) /\ f[i].uncut = tp.uncut /\ f[i].merged = tp.merged
             /\ \A ts \in Nat : Covers(f[i].segments, ts) <=> Covers(tp.segments, ts) \/ First(segs, i, ts)
             /\ \A limit \in Nat : Bounded(tp, limit) /\ EndsBy(segs, limit) => Bounded(f[i], limit)
           Bad == {i \in 0..Len(segs) : ~P(i)}
<1>3. SUFFICES ASSUME Bad # {} PROVE FALSE
  <2>1. Bad = {} BY <1>3
  <2>2. P(Len(segs)) BY <1>2, <2>1
  <2> QED BY <2>2, <1>1, FirstFacts DEF Included
<1>4. PICK m \in Bad : \A j \in Bad : m <= j
  <2>1. Bad \subseteq Nat BY <1>2
  <2> HIDE DEF Bad
  <2> QED BY <1>3, <2>1, NatMin
<1>5. m \in 0..Len(segs) /\ ~P(m) OBVIOUS
<1>6. CASE m = 0
  <2>1. Grown(tp, tp) BY DEF Grown, Sane, TimePeriodRecords
  <2>2. \A ts \in Nat : ~First(segs, 0, ts) BY DEF First
  <2> QED BY <1>1, <1>5, <1>6, <2>1, <2>2
<1>7. CASE m # 0
  <2>1. m - 1 \in 0..Len(segs) /\ ~(m <= m - 1) /\ m \in 1..Len(segs) BY <1>2, <1>5, <1>7
  <2>2. P(m - 1) BY <2>1, <1>4
  <2> HIDE DEF Bad
  <2>3. PICK a, s : a = f[m - 1] /\ s = segs[m] OBVIOUS
  <2>4. s \in Segments /\ s.begin <= s.end /\ Has(segs, s) BY <2>1, <2>3, <1>2, ProperEntry
  <2>5. f[m] = AddSegment(a, s) BY <2>1, <2>3, <1>1
  <2>6. Added(f[m], a, s) BY <2>2, <2>3, <2>4, <2>5, AddIsUnion
  <2>7. Sane(f[m]) /\ Grown(f[m], a) BY <2>2, <2>3, <2>4, <2>6, ExtendedGrows DEF Added
  <2>8. Grown(f[m], tp) BY <2>2, <2>3, <2>7, GrownTransitive
  <2>9. f[m].uncut = tp.uncut /\ f[m].merged = tp.merged BY <2>2, <2>3, <2>6 DEF Added
  <2>10. ASSUME NEW ts \in Nat
         PROVE  Covers(f[m].segments, ts) <=> Covers(tp.segments, ts) \/ First(segs, m, ts)
    <3>1. First(segs, m, ts) <=> First(segs, m - 1, ts) \/ Within(s, ts) BY <2>1, <2>3, FirstFacts
    <3>2. Covers(a.segments, ts) <=> Covers(tp.segments, ts) \/ First(segs, m - 1, ts)
      BY <2>2, <2>3
    <3>3. Covers(f[m].segments, ts) <=> Covers(a.segments, ts) \/ Within(s, ts) BY <2>6 DEF Added
    <3> QED BY <3>1, <3>2, <3>3
  <2>11. ASSUME NEW limit \in Nat, Bounded(tp, limit), EndsBy(segs, limit)
         PROVE  Bounded(f[m], limit)
    <3>1. s.end <= limit BY <2>4, <2>11 DEF EndsBy
    <3>2. Bounded(a, limit) BY <2>2, <2>3, <2>11
    <3> QED BY <3>1, <3>2, <2>6 DEF Added
  <2> QED BY <1>5, <2>7, <2>8, <2>9, <2>10, <2>11
<1> QED BY <1>6, <1>7

LEMMA MergeExcludes ==
  ASSUME NEW tp, Sane(tp), NEW segs, Proper(segs)
  PROVE  Excluded(Merge(tp, segs, FALSE), tp, segs)
<1>1. PICK f : /\ Merge(tp, segs, FALSE) = f[Len(segs)]
               /\ f[0] = tp
               /\ \A i \in 1..Len(segs) : f[i] = RemoveSegment(f[i - 1], segs[i])
  <2>1. PICK include \in BOOLEAN : include = FALSE OBVIOUS
  <2>2. PICK f : MergeBy(f, tp, segs, include) BY MergeRounds
  <2>3. Merge(tp, segs, FALSE) = f[Len(segs)] /\ f[0] = tp BY <2>1, <2>2 DEF MergeBy
  <2>4. \A i \in 1..Len(segs) : f[i] = RemoveSegment(f[i - 1], segs[i])
    BY <2>1, <2>2 DEF MergeBy
  <2> QED BY <2>3, <2>4
<1>2. Len(segs) \in Nat /\ DOMAIN segs = 1..Len(segs) BY FirstFacts
<1> DEFINE P(i) ==
             /\ Sane(f[i]) /\ Grown(f[i], tp) /\ tp.uncut \subseteq f[i].uncut
             /\ f[i].merged = tp.merged
             /\ \A ts \in Nat :
                  /\ Covers(f[i].segments, ts) => Covers(tp.segments, ts)
                  /\ Covers(tp.segments, ts) /\ ~First(segs, i, ts) => Covers(f[i].segments, ts)
                  /\ Covers(f[i].segments, ts) /\ First(segs, i, ts) => ts \in f[i].uncut
             /\ \A limit \in Nat : Bounded(tp, limit) /\ EndsBy(segs, limit) => Bounded(f[i], limit)
           Bad == {i \in 0..Len(segs) : ~P(i)}
<1>3. SUFFICES ASSUME Bad # {} PROVE FALSE
  <2>1. Bad = {} BY <1>3
  <2>2. P(Len(segs)) BY <1>2, <2>1
  <2> QED BY <2>2, <1>1, FirstFacts DEF Excluded
<1>4. PICK m \in Bad : \A j \in Bad : m <= j
  <2>1. Bad \subseteq Nat BY <1>2
  <2> HIDE DEF Bad
  <2> QED BY <1>3, <2>1, NatMin
<1>5. m \in 0..Len(segs) /\ ~P(m) OBVIOUS
<1>6. CASE m = 0
  <2>1. Grown(tp, tp) BY DEF Grown, Sane, TimePeriodRecords
  <2>2. \A ts \in Nat : ~First(segs, 0, ts) BY DEF First
  <2> QED BY <1>1, <1>5, <1>6, <2>1, <2>2
<1>7. CASE m # 0
  <2>1. m - 1 \in 0..Len(segs) /\ ~(m <= m - 1) /\ m \in 1..Len(segs) BY <1>2, <1>5, <1>7
  <2>2. P(m - 1) BY <2>1, <1>4
  <2> HIDE DEF Bad
  <2>3. PICK a, s : a = f[m - 1] /\ s = segs[m] OBVIOUS
  <2>4. s \in Segments /\ s.begin <= s.end /\ Has(segs, s) BY <2>1, <2>3, <1>2, ProperEntry
  <2>5. f[m] = RemoveSegment(a, s) BY <2>1, <2>3, <1>1
  <2>6. Removed(f[m], a, s) BY <2>2, <2>3, <2>4, <2>5, RemoveIsDifference
  <2>7. Sane(f[m]) /\ Grown(f[m], a) BY <2>2, <2>3, <2>4, <2>6, ExtendedGrows DEF Removed
  <2>8. Grown(f[m], tp) BY <2>2, <2>3, <2>7, GrownTransitive
  <2>9. a.uncut \subseteq f[m].uncut /\ f[m].merged = tp.merged BY <2>2, <2>3, <2>6 DEF Removed
  <2>10. ASSUME NEW ts \in Nat
         PROVE  /\ Covers(f[m].segments, ts) => Covers(tp.segments, ts)
                /\ Covers(tp.segments, ts) /\ ~First(segs, m, ts) => Covers(f[m].segments, ts)
                /\ Covers(f[m].segments, ts) /\ First(segs, m, ts) => ts \in f[m].uncut
    <3>1. First(segs, m, ts) <=> First(segs, m - 1, ts) \/ Within(s, ts) BY <2>1, <2>3, FirstFacts
    <3>2. /\ Covers(a.segments, ts) => Covers(tp.segments, ts)
          /\ Covers(tp.segments, ts) /\ ~First(segs, m - 1, ts) => Covers(a.segments, ts)
          /\ Covers(a.segments, ts) /\ First(segs, m - 1, ts) => ts \in a.uncut
      BY <2>2, <2>3
    <3>3. /\ Covers(f[m].segments, ts) => Covers(a.segments, ts)
          /\ Covers(a.segments, ts) /\ ~Within(s, ts) => Covers(f[m].segments, ts)
          /\ Covers(f[m].segments, ts) /\ Within(s, ts) => ts \in f[m].uncut
      BY <2>6 DEF Removed
    <3> QED BY <3>1, <3>2, <3>3, <2>9
  <2>11. ASSUME NEW limit \in Nat, Bounded(tp, limit), EndsBy(segs, limit)
         PROVE  Bounded(f[m], limit)
    <3>1. s.end <= limit BY <2>4, <2>11 DEF EndsBy
    <3>2. Bounded(a, limit) BY <2>2, <2>3, <2>11
    <3> QED BY <3>1, <3>2, <2>6 DEF Removed
  <2>12. tp.uncut \subseteq f[m].uncut BY <2>2, <2>3, <2>9
  <2> QED BY <1>5, <2>7, <2>8, <2>9, <2>10, <2>11, <2>12
<1> QED BY <1>6, <1>7

-----------------------------------------------------------------------------
(* TimePeriod: days                                                          *)

DayOf(ts) == ts \div Day

\* The end of the last day of a region that ends at the given time
LastEnd(end) == (DayOf(end) + 1) * Day

LEMMA DaysOK == Day \in Nat /\ Day > 0 /\ Week \in Nat /\ Week > 0 /\ Hour \in Nat
  BY TimePeriodAssumption

LEMMA DayFacts ==
  ASSUME NEW ts \in Nat
  PROVE  /\ DayOf(ts) \in Nat /\ ts % Day \in 0..(Day - 1) /\ ts = DayOf(ts) * Day + (ts % Day)
         /\ DayOf(ts) * Day \in Nat /\ LastEnd(ts) \in Nat /\ ts < LastEnd(ts)
         /\ DayOf(ts) % Week \in 0..(Week - 1)
<1>1. PICK q \in Nat : q = ts \div Day BY DaysOK
<1>2. PICK r \in Nat : r = ts % Day BY DaysOK
<1>3. r \in 0..(Day - 1) BY <1>2, DaysOK
<1>4. ts = q * Day + r BY <1>1, <1>2, DaysOK, SMTT(20)
<1>5. q * Day \in Nat /\ (q + 1) * Day \in Nat /\ (q + 1) * Day = q * Day + Day BY DaysOK
<1>6. ts < (q + 1) * Day BY <1>3, <1>4, <1>5, DaysOK
<1>7. q % Week \in 0..(Week - 1) BY DaysOK
<1> QED BY <1>1, <1>2, <1>3, <1>4, <1>5, <1>6, <1>7 DEF DayOf, LastEnd

LEMMA DayAhead ==
  ASSUME NEW c \in Nat
  PROVE  c + Day \in Nat /\ LastEnd(c + Day) \in Nat /\ c + Day < LastEnd(c + Day)
<1>1. PICK t \in Nat : t = c + Day BY DaysOK
<1> QED BY <1>1, DayFacts

\* A later time is not on an earlier day.
LEMMA DayMonotone ==
  ASSUME NEW x \in Nat, NEW y \in Nat, x <= y
  PROVE  DayOf(x) <= DayOf(y) /\ LastEnd(x) <= LastEnd(y)
<1>1. DayOf(x) <= DayOf(y) BY DaysOK DEF DayOf
<1>2. ASSUME NEW a \in Nat, NEW b \in Nat, a <= b PROVE (a + 1) * Day <= (b + 1) * Day
  BY <1>2, DaysOK
<1> QED BY <1>1, <1>2, DayFacts DEF LastEnd

\* A day has the times from its beginning to before its end.
LEMMA DayUnique ==
  ASSUME NEW d \in Nat, NEW ts \in Nat, d * Day <= ts, ts < d * Day + Day
  PROVE  DayOf(ts) = d /\ ts % Day = ts - d * Day
<1>1. d * Day \in Nat BY DaysOK
<1>2. PICK a \in 0..(Day - 1) : a = ts - d * Day BY <1>1, DaysOK
<1>3. ts = d * Day + a BY <1>1, <1>2
<1>4. (d * Day + a) \div Day = d /\ (d * Day + a) % Day = a BY DaysOK
<1> QED BY <1>2, <1>3, <1>4 DEF DayOf

\* A time before the end of a later day is on that day or before.
LEMMA DayBefore ==
  ASSUME NEW ts \in Nat, NEW end \in Nat, ts < LastEnd(end)
  PROVE  DayOf(ts) <= DayOf(end)
<1>1. ASSUME NEW a \in Nat, NEW b \in Nat, a < b PROVE (a + 1) * Day <= b * Day BY <1>1, DaysOK
<1>2. SUFFICES ASSUME DayOf(end) < DayOf(ts) PROVE FALSE BY DayFacts
<1>3. LastEnd(end) <= DayOf(ts) * Day BY <1>1, <1>2, DayFacts DEF LastEnd
<1> QED BY <1>3, DayFacts

-----------------------------------------------------------------------------
(* TimePeriod: the ranges                                                    *)

RangesOK == \A p \in TimePeriods : ranges[p] \in Ranges[p]

\* The ranges of a day
LEMMA RangeFacts ==
  ASSUME RangesOK, NEW p \in TimePeriods, NEW d \in 0..(Week - 1)
  PROVE  /\ ranges[p][d] \in Seq([begin: 0..Day, end: 0..Day])
         /\ DOMAIN ranges[p][d] = 1..Len(ranges[p][d]) /\ Len(ranges[p][d]) \in Nat
         /\ \A k \in DOMAIN ranges[p][d] :
               /\ ranges[p][d][k] \in [begin: 0..Day, end: 0..Day]
               /\ ranges[p][d][k].begin <= ranges[p][d][k].end
<1>1. PICK r : r = ranges[p] OBVIOUS
<1>2. r \in Ranges[p] BY <1>1 DEF RangesOK
<1>3. /\ r \in [0..(Week - 1) -> Seq([begin: 0..Day, end: 0..Day])]
      /\ \A k \in DOMAIN r[d] : r[d][k].begin <= r[d][k].end
  BY <1>2, TimePeriodAssumption
<1>4. PICK s : s = r[d] OBVIOUS
<1>5. s \in Seq([begin: 0..Day, end: 0..Day]) BY <1>3, <1>4
<1>6. DOMAIN s = 1..Len(s) /\ Len(s) \in Nat BY <1>5
<1>7. \A k \in 1..Len(s) : s[k] \in [begin: 0..Day, end: 0..Day] BY <1>5, ElementOfSeq
<1> QED BY <1>1, <1>3, <1>4, <1>5, <1>6, <1>7

SegmentsOf(p, d) == [k \in DOMAIN ranges[p][d % Week] |->
                        Segment(d * Day + ranges[p][d % Week][k].begin,
                                d * Day + ranges[p][d % Week][k].end)]

\* The segments of one day are what the period has of it.
LEMMA DaySegments ==
  ASSUME RangesOK, NEW p \in TimePeriods, NEW d \in Nat
  PROVE  /\ SegmentsOf(p, d) \in Seq(Segments)
         /\ \A s : Has(SegmentsOf(p, d), s) => s.begin <= s.end /\ s.end <= (d + 1) * Day
         /\ \A ts \in Nat : (\E s \in Segments : Has(SegmentsOf(p, d), s) /\ Within(s, ts))
                               <=> DayOf(ts) = d /\ InOwn(p, ts)
<1>1. PICK w \in 0..(Week - 1) : w = d % Week BY DaysOK
<1>2. PICK rs : rs = ranges[p][w] OBVIOUS
<1>3. /\ rs \in Seq([begin: 0..Day, end: 0..Day])
      /\ DOMAIN rs = 1..Len(rs) /\ Len(rs) \in Nat
      /\ \A k \in DOMAIN rs : rs[k] \in [begin: 0..Day, end: 0..Day] /\ rs[k].begin <= rs[k].end
  BY <1>2, RangeFacts
<1>4. PICK b \in Nat : b = d * Day BY DaysOK
<1>5. (d + 1) * Day = b + Day BY <1>4, DaysOK
<1> DEFINE at(k) == Segment(b + rs[k].begin, b + rs[k].end)
           segs == [k \in DOMAIN rs |-> at(k)]
<1>6. SegmentsOf(p, d) = segs BY <1>1, <1>2, <1>4 DEF SegmentsOf
<1>7. ASSUME NEW k \in DOMAIN rs
      PROVE  /\ at(k) \in Segments /\ at(k).begin <= at(k).end /\ at(k).end <= b + Day
             /\ \A ts \in Nat : Within(at(k), ts) <=> b + rs[k].begin <= ts /\ ts < b + rs[k].end
  BY <1>3, DaysOK DEF Segment, Segments, Within
<1> HIDE DEF at
<1>8. segs \in Seq(Segments) /\ DOMAIN segs = DOMAIN rs BY <1>3, <1>7
<1>9. \A s : Has(segs, s) <=> \E k \in DOMAIN rs : s = at(k) BY DEF Has
<1> HIDE DEF segs
<1>10. ASSUME NEW ts \in Nat
       PROVE  (\E s \in Segments : Has(segs, s) /\ Within(s, ts)) <=> DayOf(ts) = d /\ InOwn(p, ts)
  <2>1. InOwn(p, ts) <=> LET own == ranges[p][DayOf(ts) % Week]
                         IN \E k \in DOMAIN own : own[k].begin <= ts % Day /\ ts % Day < own[k].end
    BY DEF InOwn, DayOf
  <2>2. ASSUME DayOf(ts) = d
        PROVE  InOwn(p, ts) <=> \E k \in DOMAIN rs : rs[k].begin <= ts % Day /\ ts % Day < rs[k].end
    BY <2>1, <2>2, <1>1, <1>2
  <2>3. ASSUME NEW k \in DOMAIN rs, Within(at(k), ts)
        PROVE  DayOf(ts) = d /\ rs[k].begin <= ts % Day /\ ts % Day < rs[k].end
    <3>1. b + rs[k].begin <= ts /\ ts < b + rs[k].end BY <1>7, <2>3
    <3>2. rs[k].begin \in 0..Day /\ rs[k].end \in 0..Day BY <1>3
    <3>3. b <= ts /\ ts < b + Day BY <3>1, <3>2, DaysOK
    <3>4. DayOf(ts) = d /\ ts % Day = ts - b BY <3>3, <1>4, DayUnique
    <3> QED BY <3>1, <3>2, <3>4
  <2>4. ASSUME NEW k \in DOMAIN rs, DayOf(ts) = d, rs[k].begin <= ts % Day, ts % Day < rs[k].end
        PROVE  Within(at(k), ts)
    <3>1. ts = b + (ts % Day) /\ ts % Day \in Nat BY <2>4, <1>4, DayFacts
    <3>2. rs[k].begin \in 0..Day /\ rs[k].end \in 0..Day BY <1>3
    <3>3. b + rs[k].begin <= ts /\ ts < b + rs[k].end BY <2>4, <3>1, <3>2, DaysOK
    <3> QED BY <3>3, <1>7
  <2> QED BY <2>2, <2>3, <2>4, <1>7, <1>9
<1> QED BY <1>5, <1>6, <1>7, <1>8, <1>9, <1>10

\* What ScriptFunc gives: the ranges of all days of the region, and no others
Scripted(segs, p, begin, end) ==
    /\ Proper(segs) /\ EndsBy(segs, LastEnd(end))
    /\ \A ts \in Nat : Covers(segs, ts) <=> /\ DayOf(begin) <= DayOf(ts) /\ DayOf(ts) <= DayOf(end)
                                            /\ InOwn(p, ts)

LEMMA ScriptFacts ==
  ASSUME RangesOK, NEW p \in TimePeriods, NEW begin \in Nat, NEW end \in Nat, begin <= end
  PROVE  Scripted(ScriptFunc(p, begin, end), p, begin, end)
<1>1. PICK a \in Nat : a = DayOf(begin) BY DayFacts
<1>2. PICK z \in Nat : z = DayOf(end) BY DayFacts
<1>3. a <= z BY <1>1, <1>2, DayMonotone
<1> DEFINE days == [k \in 1..(z - a + 1) |-> SegmentsOf(p, a + k - 1)]
           segs == ScriptFunc(p, begin, end)
<1>4. segs = Concat(days) BY <1>1, <1>2 DEF ScriptFunc, SegmentsOf, DayOf
<1>5. \A k \in 1..(z - a + 1) : a + k - 1 \in Nat /\ SegmentsOf(p, a + k - 1) \in Seq(Segments)
  <2> TAKE k \in 1..(z - a + 1)
  <2>1. PICK d \in Nat : d = a + k - 1 BY <1>3
  <2>2. SegmentsOf(p, d) \in Seq(Segments) BY DaySegments
  <2> QED BY <2>1, <2>2
<1>6. days \in Seq(Seq(Segments)) /\ DOMAIN days = 1..(z - a + 1)
  <2>1. PICK len \in Nat : len = z - a + 1 BY <1>3
  <2>2. PICK S : S = Seq(Segments) OBVIOUS
  <2>3. \A k \in 1..len : SegmentsOf(p, a + k - 1) \in S BY <2>1, <2>2, <1>5
  <2>4. days = [k \in 1..len |-> SegmentsOf(p, a + k - 1)] BY <2>1
  <2> HIDE DEF days
  <2>5. days \in Seq(S) /\ DOMAIN days = 1..len BY <2>3, <2>4
  <2> QED BY <2>1, <2>2, <2>5
<1>7. \A k \in 1..(z - a + 1) : days[k] = SegmentsOf(p, a + k - 1) OBVIOUS
<1> HIDE DEF days, segs
<1>8. segs \in Seq(Segments) /\ \A s : Has(segs, s) <=> \E k \in 1..(z - a + 1) : Has(days[k], s)
  BY <1>4, <1>6, ConcatHas
<1>9. \A s : Has(segs, s) <=> \E d \in a..z : Has(SegmentsOf(p, d), s)
  <2> TAKE s
  <2>1. ASSUME NEW k \in 1..(z - a + 1) PROVE a + k - 1 \in a..z BY <1>3
  <2>2. ASSUME NEW d \in a..z PROVE \E k \in 1..(z - a + 1) : days[k] = SegmentsOf(p, d)
    <3>1. PICK k \in 1..(z - a + 1) : a + k - 1 = d BY <1>3
    <3> QED BY <3>1, <1>7
  <2> QED BY <2>1, <2>2, <1>7, <1>8
<1>10. ASSUME NEW s, Has(segs, s) PROVE s.begin <= s.end /\ (s \in Segments => s.end <= LastEnd(end))
  <2>1. PICK d \in a..z : Has(SegmentsOf(p, d), s) BY <1>9, <1>10
  <2>2. s.begin <= s.end /\ s.end <= (d + 1) * Day BY <2>1, DaySegments
  <2>3. (d + 1) * Day <= (z + 1) * Day /\ (d + 1) * Day \in Nat /\ (z + 1) * Day \in Nat
    BY DaysOK
  <2> QED BY <2>2, <2>3, <1>2 DEF LastEnd, Segments
<1>11. Proper(segs) /\ EndsBy(segs, LastEnd(end)) BY <1>8, <1>10 DEF Proper, EndsBy
<1>12. ASSUME NEW ts \in Nat
       PROVE  Covers(segs, ts) <=> a <= DayOf(ts) /\ DayOf(ts) <= z /\ InOwn(p, ts)
  <2>1. \A d \in a..z : (\E s \in Segments : Has(SegmentsOf(p, d), s) /\ Within(s, ts))
                            <=> DayOf(ts) = d /\ InOwn(p, ts)
    BY DaySegments
  <2>2. Covers(segs, ts) <=> \E d \in a..z : DayOf(ts) = d /\ InOwn(p, ts)
    BY <2>1, <1>9 DEF Covers
  <2>3. DayOf(ts) \in Nat BY DayFacts
  <2>4. (\E d \in a..z : DayOf(ts) = d) <=> a <= DayOf(ts) /\ DayOf(ts) <= z BY <2>3
  <2> QED BY <2>2, <2>4
<1> QED BY <1>1, <1>2, <1>11, <1>12 DEF Scripted, segs

-----------------------------------------------------------------------------
(* TimePeriod: what a period is at a time c                                  *)

\* Nothing is in the segments but what the period has or includes.
OnlyOwn(tp, p) ==
    \A ts \in Nat : Covers(tp.segments, ts) => InOwn(p, ts) \/ InAny(Includes[p], ts)

\* What the period has from c to the limit and does not exclude is in the segments.
KeepsOwn(tp, p, c, limit) ==
    \A ts \in Nat : c <= ts /\ ts < limit /\ InOwn(p, ts) /\ ~InAny(Excludes[p], ts)
        => Covers(tp.segments, ts)

\* From c to the end of the valid region the segments are as configured, or excused.
AsMeant(tp, p, c) ==
    \A ts \in Nat : c <= ts /\ ts < tp.validEnd =>
        \/ ts \in tp.uncut
        \/ \E end \in tp.merged : ts >= end
        \/ Covers(tp.segments, ts) <=> Intended(p, ts)

\* What others may rely on
Reliable(tp, p, c) ==
    /\ Sane(tp) /\ Bounded(tp, LastEnd(c + Day))
    /\ OnlyOwn(tp, p) /\ KeepsOwn(tp, p, c, tp.validEnd)

KnownEnds(tps, names) == {tps[names[k]].validEnd : k \in DOMAIN names}
SegmentsOfAll(tps, names) == Concat([k \in DOMAIN names |-> tps[names[k]].segments])

\* The included or excluded periods of p can be relied on.
Sources(tps, names, c) ==
    /\ names \in Seq(TimePeriods)
    /\ \A k \in DOMAIN names : /\ Reliable(tps[names[k]], names[k], c)
                               /\ Includes[names[k]] = <<>> /\ Excludes[names[k]] = <<>>

\* The segments of the others are theirs, and all of them where they are known.
Sourced(segs, ends, names, c) ==
    /\ Proper(segs) /\ EndsBy(segs, LastEnd(c + Day)) /\ ends \in SUBSET Int
    /\ \A ts \in Nat : /\ Covers(segs, ts) => InAny(names, ts)
                       /\ c <= ts /\ InAny(names, ts) /\ ~(\E end \in ends : ts >= end)
                             => Covers(segs, ts)

LEMMA SourceFacts ==
  ASSUME NEW tps, NEW names, NEW c \in Nat, Sources(tps, names, c)
  PROVE  Sourced(SegmentsOfAll(tps, names), KnownEnds(tps, names), names, c)
<1> DEFINE arrays == [k \in DOMAIN names |-> tps[names[k]].segments]
           segs == SegmentsOfAll(tps, names)
           ends == KnownEnds(tps, names)
<1>1. names \in Seq(TimePeriods) /\ Len(names) \in Nat /\ DOMAIN names = 1..Len(names)
  BY DEF Sources
<1>2. ASSUME NEW k \in DOMAIN names
      PROVE  /\ tps[names[k]].segments \in Seq(Segments) /\ Proper(tps[names[k]].segments)
             /\ EndsBy(tps[names[k]].segments, LastEnd(c + Day))
             /\ tps[names[k]].validEnd \in Int
             /\ arrays[k] = tps[names[k]].segments
  BY DEF Sources, Reliable, Sane, Bounded, TimePeriodRecords
<1>3. arrays \in Seq(Seq(Segments)) /\ DOMAIN arrays = DOMAIN names
  <2>1. PICK len \in Nat : len = Len(names) BY <1>1
  <2>2. PICK S : S = Seq(Segments) OBVIOUS
  <2>3. \A k \in 1..len : tps[names[k]].segments \in S BY <2>1, <2>2, <1>1, <1>2
  <2>4. arrays = [k \in 1..len |-> tps[names[k]].segments] BY <2>1, <1>1
  <2>5. arrays \in Seq(S) /\ DOMAIN arrays = 1..len BY <2>3, <2>4
  <2> QED BY <2>1, <2>2, <2>5, <1>1
<1>4. segs = Concat(arrays) BY DEF SegmentsOfAll
<1> HIDE DEF arrays, segs
<1>5. segs \in Seq(Segments) /\ \A s : Has(segs, s) <=> \E k \in DOMAIN names : Has(arrays[k], s)
  BY <1>3, <1>4, ConcatHas
<1>6. \A s : Has(segs, s) <=> \E k \in DOMAIN names : Has(tps[names[k]].segments, s)
  BY <1>2, <1>5
<1>7. Proper(segs) /\ EndsBy(segs, LastEnd(c + Day)) BY <1>2, <1>5, <1>6 DEF Proper, EndsBy
<1>8. ends \in SUBSET Int BY <1>2 DEF KnownEnds
<1>9. \A ts : Covers(segs, ts) <=> \E k \in DOMAIN names : Covers(tps[names[k]].segments, ts)
  BY <1>6 DEF Covers
<1>10. ASSUME NEW k \in DOMAIN names, NEW ts \in Nat
       PROVE  /\ Covers(tps[names[k]].segments, ts) => InOwn(names[k], ts)
              /\ c <= ts /\ ts < tps[names[k]].validEnd /\ InOwn(names[k], ts)
                   => Covers(tps[names[k]].segments, ts)
  <2>1. ~InAny(<<>>, ts) BY DEF InAny
  <2>2. /\ OnlyOwn(tps[names[k]], names[k])
        /\ KeepsOwn(tps[names[k]], names[k], c, tps[names[k]].validEnd)
        /\ Includes[names[k]] = <<>> /\ Excludes[names[k]] = <<>>
    BY DEF Sources, Reliable
  <2> QED BY <2>1, <2>2 DEF OnlyOwn, KeepsOwn
<1>11. ASSUME NEW ts \in Nat
       PROVE  /\ Covers(segs, ts) => InAny(names, ts)
              /\ c <= ts /\ InAny(names, ts) /\ ~(\E end \in ends : ts >= end) => Covers(segs, ts)
  <2>1. Covers(segs, ts) => InAny(names, ts) BY <1>9, <1>10 DEF InAny
  <2>2. ASSUME c <= ts, InAny(names, ts), ~(\E end \in ends : ts >= end) PROVE Covers(segs, ts)
    <3>1. PICK k \in DOMAIN names : InOwn(names[k], ts) BY <2>2 DEF InAny
    <3>2. ts < tps[names[k]].validEnd
      <4>1. PICK v \in Int : v = tps[names[k]].validEnd BY <1>2
      <4>2. v \in ends BY <4>1 DEF KnownEnds
      <4>3. ~(ts >= v) BY <4>2, <2>2
      <4> QED BY <4>1, <4>3
    <3> QED BY <3>1, <3>2, <2>2, <1>9, <1>10
  <2> QED BY <2>1, <2>2
<1> QED BY <1>7, <1>8, <1>11 DEF Sourced, segs

-----------------------------------------------------------------------------
\* What MergeAll does, whether it includes or excludes
Past(ends, ts) == \E end \in ends : ts >= end

Joined(e, tp, ends, c) ==
    /\ Sane(e) /\ Grown(e, tp) /\ tp.uncut \subseteq e.uncut /\ e.merged = tp.merged \cup ends
    /\ Bounded(tp, LastEnd(c + Day)) => Bounded(e, LastEnd(c + Day))

IncludesAll(e, tp, names, ends, c) ==
    /\ Joined(e, tp, ends, c)
    /\ \A ts \in Nat :
          /\ Covers(tp.segments, ts) => Covers(e.segments, ts)
          /\ Covers(e.segments, ts) => Covers(tp.segments, ts) \/ InAny(names, ts)
          /\ c <= ts /\ InAny(names, ts) /\ ~Past(ends, ts) => Covers(e.segments, ts)

ExcludesAll(e, tp, names, ends, c) ==
    /\ Joined(e, tp, ends, c)
    /\ \A ts \in Nat :
          /\ Covers(e.segments, ts) => Covers(tp.segments, ts)
          /\ Covers(tp.segments, ts) /\ ~InAny(names, ts) => Covers(e.segments, ts)
          /\ c <= ts /\ Covers(e.segments, ts) /\ InAny(names, ts) /\ ~Past(ends, ts) => ts \in e.uncut

LEMMA AllIncluded ==
  ASSUME NEW tp, Sane(tp), NEW tps, NEW names, NEW c \in Nat, Sources(tps, names, c),
         NEW e, e = MergeAll(tp, tps, names, TRUE)
  PROVE  IncludesAll(e, tp, names, KnownEnds(tps, names), c)
<1> DEFINE segs == SegmentsOfAll(tps, names)
           ends == KnownEnds(tps, names)
<1>1. Sourced(segs, ends, names, c) BY SourceFacts
<1>2. tp \in TimePeriodRecords /\ tp.merged \in SUBSET Int BY PeriodFields DEF Sane
<1>3. PICK m \in SUBSET Int : m = tp.merged \cup ends BY <1>1, <1>2 DEF Sourced
<1>4. PICK x : x = [tp EXCEPT !.merged = m] OBVIOUS
<1>5. Parts(x, tp.validBegin, tp.validEnd, tp.segments, tp.uncut, m) BY <1>2, <1>4, SetMerged
<1>6. Sane(x) BY <1>5 DEF Sane, Parts
<1>7. e = Merge(x, segs, TRUE)
  BY <1>3, <1>4 DEF MergeAll, SegmentsOfAll, KnownEnds
<1> HIDE DEF segs, ends
<1>8. Included(e, x, segs) BY <1>1, <1>6, <1>7, MergeIncludes DEF Sourced
<1>9. LastEnd(c + Day) \in Nat BY DayAhead
<1>10. Joined(e, tp, ends, c)
  BY <1>1, <1>3, <1>5, <1>8, <1>9 DEF Included, Parts, Joined, Grown, Bounded, Sourced
<1>11. \A ts \in Nat : Covers(e.segments, ts) <=> Covers(tp.segments, ts) \/ Covers(segs, ts)
  BY <1>5, <1>8 DEF Included, Parts
<1> QED BY <1>1, <1>10, <1>11 DEF Sourced, Past, IncludesAll, ends

LEMMA AllExcluded ==
  ASSUME NEW tp, Sane(tp), NEW tps, NEW names, NEW c \in Nat, Sources(tps, names, c),
         NEW e, e = MergeAll(tp, tps, names, FALSE)
  PROVE  ExcludesAll(e, tp, names, KnownEnds(tps, names), c)
<1> DEFINE segs == SegmentsOfAll(tps, names)
           ends == KnownEnds(tps, names)
<1>1. Sourced(segs, ends, names, c) BY SourceFacts
<1>2. tp \in TimePeriodRecords /\ tp.merged \in SUBSET Int BY PeriodFields DEF Sane
<1>3. PICK m \in SUBSET Int : m = tp.merged \cup ends BY <1>1, <1>2 DEF Sourced
<1>4. PICK x : x = [tp EXCEPT !.merged = m] OBVIOUS
<1>5. Parts(x, tp.validBegin, tp.validEnd, tp.segments, tp.uncut, m) BY <1>2, <1>4, SetMerged
<1>6. Sane(x) BY <1>5 DEF Sane, Parts
<1>7. e = Merge(x, segs, FALSE)
  BY <1>3, <1>4 DEF MergeAll, SegmentsOfAll, KnownEnds
<1> HIDE DEF segs, ends
<1>8. Excluded(e, x, segs) BY <1>1, <1>6, <1>7, MergeExcludes DEF Sourced
<1>9. LastEnd(c + Day) \in Nat BY DayAhead
<1>10. Joined(e, tp, ends, c)
  BY <1>1, <1>3, <1>5, <1>8, <1>9 DEF Excluded, Parts, Joined, Grown, Bounded, Sourced
<1>11. \A ts \in Nat :
         /\ Covers(e.segments, ts) => Covers(tp.segments, ts)
         /\ Covers(tp.segments, ts) /\ ~Covers(segs, ts) => Covers(e.segments, ts)
         /\ Covers(e.segments, ts) /\ Covers(segs, ts) => ts \in e.uncut
  BY <1>5, <1>8 DEF Excluded, Parts
<1> QED BY <1>1, <1>10, <1>11 DEF Sourced, Past, ExcludesAll, ends

-----------------------------------------------------------------------------
\* What a period may be without being updated
Fit(tp, p, c) == Reliable(tp, p, c) /\ AsMeant(tp, p, c)

\* A period that has all of its own ranges is as configured once the others are merged.
LEMMA MergedFacts ==
  ASSUME NEW p \in TimePeriods, NEW c \in Nat, NEW tps, NEW tp, NEW e, e = Merged(tp, tps, p),
         Sources(tps, Includes[p], c), Sources(tps, Excludes[p], c),
         Sane(tp), Bounded(tp, LastEnd(c + Day)), OnlyOwn(tp, p),
         KeepsOwn(tp, p, c, LastEnd(c + Day)), preferIncludes \in BOOLEAN
  PROVE  Fit(e, p, c) /\ Grown(e, tp)
<1> DEFINE Inc(ts) == InAny(Includes[p], ts)
           Exc(ts) == InAny(Excludes[p], ts)
           inEnds == KnownEnds(tps, Includes[p])
           exEnds == KnownEnds(tps, Excludes[p])
<1>1. PICK fresh : fresh = [tp EXCEPT !.merged = {}] OBVIOUS
<1>2. Parts(fresh, tp.validBegin, tp.validEnd, tp.segments, tp.uncut, {})
  <2>1. PICK m \in SUBSET Int : m = {} OBVIOUS
  <2>2. tp \in TimePeriodRecords BY DEF Sane
  <2> QED BY <2>1, <2>2, <1>1, SetMerged
<1>3. Sane(fresh) /\ Grown(fresh, tp) /\ Bounded(fresh, LastEnd(c + Day))
  BY <1>2 DEF Parts, Sane, Grown, Bounded, TimePeriodRecords
<1>4. LastEnd(c + Day) \in Nat BY DayAhead
<1>5. CASE preferIncludes
  <2>1. PICK d : d = MergeAll(fresh, tps, Excludes[p], FALSE) OBVIOUS
  <2>2. e = MergeAll(d, tps, Includes[p], TRUE) BY <1>1, <1>5, <2>1 DEF Merged
  <2>3. /\ Joined(d, fresh, exEnds, c)
        /\ \A ts \in Nat :
              /\ Covers(d.segments, ts) => Covers(fresh.segments, ts)
              /\ Covers(fresh.segments, ts) /\ ~Exc(ts) => Covers(d.segments, ts)
              /\ c <= ts /\ Covers(d.segments, ts) /\ Exc(ts) /\ ~Past(exEnds, ts) => ts \in d.uncut
    <3>1. Sane(fresh) BY <1>3
    <3>2. ExcludesAll(d, fresh, Excludes[p], KnownEnds(tps, Excludes[p]), c) BY <2>1, <3>1, AllExcluded
    <3> QED BY <3>2 DEF ExcludesAll
  <2>4. Sane(d) BY <2>3 DEF Joined
  <2>5. /\ Joined(e, d, inEnds, c)
        /\ \A ts \in Nat :
              /\ Covers(d.segments, ts) => Covers(e.segments, ts)
              /\ Covers(e.segments, ts) => Covers(d.segments, ts) \/ Inc(ts)
              /\ c <= ts /\ Inc(ts) /\ ~Past(inEnds, ts) => Covers(e.segments, ts)
    BY <2>2, <2>4, AllIncluded DEF IncludesAll
  <2> HIDE DEF Inc, Exc, inEnds, exEnds
  <2>6. Sane(e) /\ Grown(e, tp) /\ Bounded(e, LastEnd(c + Day)) /\ d.uncut \subseteq e.uncut
        /\ e.merged = exEnds \cup inEnds
    <3>1. Grown(e, d) /\ Grown(d, fresh) /\ Sane(e) BY <2>3, <2>5 DEF Joined
    <3>2. Grown(e, fresh) BY <3>1, <2>4, <1>3, GrownTransitive
    <3>3. Grown(e, tp) BY <3>1, <3>2, <1>3, GrownTransitive
    <3> QED BY <3>1, <3>3, <2>3, <2>5, <1>2, <1>3 DEF Joined, Parts
  <2>7. ASSUME NEW ts \in Nat
        PROVE  /\ Covers(e.segments, ts) => InOwn(p, ts) \/ Inc(ts)
               /\ c <= ts /\ ts < LastEnd(c + Day) /\ InOwn(p, ts) /\ ~Exc(ts) => Covers(e.segments, ts)
               /\ c <= ts /\ ts < LastEnd(c + Day) =>
                    \/ ts \in e.uncut \/ Past(e.merged, ts)
                    \/ Covers(e.segments, ts) <=> (InOwn(p, ts) /\ ~Exc(ts)) \/ Inc(ts)
    <3>1. Covers(tp.segments, ts) => InOwn(p, ts) \/ Inc(ts) BY DEF OnlyOwn, Inc
    <3>2. c <= ts /\ ts < LastEnd(c + Day) /\ InOwn(p, ts) /\ ~Exc(ts) => Covers(tp.segments, ts)
      BY DEF KeepsOwn, Exc
    <3>3. fresh.segments = tp.segments BY <1>2 DEF Parts
    <3>4. ~Past(e.merged, ts) => ~Past(inEnds, ts) /\ ~Past(exEnds, ts) BY <2>6 DEF Past
    <3> QED BY <3>1, <3>2, <3>3, <3>4, <2>3, <2>5, <2>6
  <2>8. e.validEnd <= LastEnd(c + Day) /\ e.validEnd \in Int
    BY <2>6, PeriodFields DEF Bounded, Sane
  <2>9. OnlyOwn(e, p) BY <2>7 DEF OnlyOwn, Inc
  <2>10. KeepsOwn(e, p, c, e.validEnd)
    <3>1. \A ts \in Nat : ts < e.validEnd => ts < LastEnd(c + Day) BY <2>8, <1>4
    <3> QED BY <3>1, <2>7 DEF KeepsOwn, Exc
  <2>11. AsMeant(e, p, c)
    <3>1. \A ts \in Nat : ts < e.validEnd => ts < LastEnd(c + Day) BY <2>8, <1>4
    <3>2. \A ts \in Nat : Intended(p, ts) <=> (InOwn(p, ts) /\ ~Exc(ts)) \/ Inc(ts)
      BY <1>5 DEF Intended, Exc, Inc
    <3> QED BY <3>1, <3>2, <2>7 DEF AsMeant, Past
  <2> QED BY <2>6, <2>9, <2>10, <2>11 DEF Fit, Reliable
<1>6. CASE ~preferIncludes
  <2>1. PICK d : d = MergeAll(fresh, tps, Includes[p], TRUE) OBVIOUS
  <2>2. e = MergeAll(d, tps, Excludes[p], FALSE) BY <1>1, <1>6, <2>1 DEF Merged
  <2>3. /\ Joined(d, fresh, inEnds, c)
        /\ \A ts \in Nat :
              /\ Covers(fresh.segments, ts) => Covers(d.segments, ts)
              /\ Covers(d.segments, ts) => Covers(fresh.segments, ts) \/ Inc(ts)
              /\ c <= ts /\ Inc(ts) /\ ~Past(inEnds, ts) => Covers(d.segments, ts)
    <3>1. Sane(fresh) BY <1>3
    <3>2. IncludesAll(d, fresh, Includes[p], KnownEnds(tps, Includes[p]), c) BY <2>1, <3>1, AllIncluded
    <3> QED BY <3>2 DEF IncludesAll
  <2>4. Sane(d) BY <2>3 DEF Joined
  <2>5. /\ Joined(e, d, exEnds, c)
        /\ \A ts \in Nat :
              /\ Covers(e.segments, ts) => Covers(d.segments, ts)
              /\ Covers(d.segments, ts) /\ ~Exc(ts) => Covers(e.segments, ts)
              /\ c <= ts /\ Covers(e.segments, ts) /\ Exc(ts) /\ ~Past(exEnds, ts) => ts \in e.uncut
    BY <2>2, <2>4, AllExcluded DEF ExcludesAll
  <2> HIDE DEF Inc, Exc, inEnds, exEnds
  <2>6. Sane(e) /\ Grown(e, tp) /\ Bounded(e, LastEnd(c + Day))
        /\ e.merged = inEnds \cup exEnds
    <3>1. Grown(e, d) /\ Grown(d, fresh) /\ Sane(e) BY <2>3, <2>5 DEF Joined
    <3>2. Grown(e, fresh) BY <3>1, <2>4, <1>3, GrownTransitive
    <3>3. Grown(e, tp) BY <3>1, <3>2, <1>3, GrownTransitive
    <3> QED BY <3>1, <3>3, <2>3, <2>5, <1>2, <1>3 DEF Joined, Parts
  <2>7. ASSUME NEW ts \in Nat
        PROVE  /\ Covers(e.segments, ts) => InOwn(p, ts) \/ Inc(ts)
               /\ c <= ts /\ ts < LastEnd(c + Day) /\ InOwn(p, ts) /\ ~Exc(ts) => Covers(e.segments, ts)
               /\ c <= ts /\ ts < LastEnd(c + Day) =>
                    \/ ts \in e.uncut \/ Past(e.merged, ts)
                    \/ Covers(e.segments, ts) <=> (InOwn(p, ts) \/ Inc(ts)) /\ ~Exc(ts)
    <3>1. Covers(tp.segments, ts) => InOwn(p, ts) \/ Inc(ts) BY DEF OnlyOwn, Inc
    <3>2. c <= ts /\ ts < LastEnd(c + Day) /\ InOwn(p, ts) /\ ~Exc(ts) => Covers(tp.segments, ts)
      BY DEF KeepsOwn, Exc
    <3>3. fresh.segments = tp.segments BY <1>2 DEF Parts
    <3>4. ~Past(e.merged, ts) => ~Past(inEnds, ts) /\ ~Past(exEnds, ts) BY <2>6 DEF Past
    <3> QED BY <3>1, <3>2, <3>3, <3>4, <2>3, <2>5, <2>6
  <2>8. e.validEnd <= LastEnd(c + Day) /\ e.validEnd \in Int
    BY <2>6, PeriodFields DEF Bounded, Sane
  <2>9. OnlyOwn(e, p) BY <2>7 DEF OnlyOwn, Inc
  <2>10. KeepsOwn(e, p, c, e.validEnd)
    <3>1. \A ts \in Nat : ts < e.validEnd => ts < LastEnd(c + Day) BY <2>8, <1>4
    <3> QED BY <3>1, <2>7 DEF KeepsOwn, Exc
  <2>11. AsMeant(e, p, c)
    <3>1. \A ts \in Nat : ts < e.validEnd => ts < LastEnd(c + Day) BY <2>8, <1>4
    <3>2. \A ts \in Nat : Intended(p, ts) <=> (InOwn(p, ts) \/ Inc(ts)) /\ ~Exc(ts)
      BY <1>6 DEF Intended, Exc, Inc
    <3> QED BY <3>1, <3>2, <2>7 DEF AsMeant, Past
  <2> QED BY <2>6, <2>9, <2>10, <2>11 DEF Fit, Reliable
<1> QED BY <1>5, <1>6

\* UpdateRegion makes the period what it has to be until a day ahead.
LEMMA RegionUpdated ==
  ASSUME RangesOK, NEW p \in TimePeriods, NEW c \in Nat, NEW begin \in Nat, begin <= c + Day,
         NEW tps, Sources(tps, Includes[p], c), Sources(tps, Excludes[p], c),
         Sane(tps[p]), Bounded(tps[p], LastEnd(c + Day)), OnlyOwn(tps[p], p),
         KeepsOwn(tps[p], p, c, begin), preferIncludes \in BOOLEAN,
         NEW e, e = UpdateRegion(tps, p, begin, c + Day)
  PROVE  /\ Fit(e, p, c) /\ c + Day <= e.validEnd
         /\ 0 <= e.validBegin /\ e.validBegin <= begin
         /\ 0 <= tps[p].validBegin => e.validBegin <= tps[p].validBegin
<1>0. c + Day \in Nat /\ LastEnd(c + Day) \in Nat /\ c + Day < LastEnd(c + Day) BY DayAhead
<1>1. PICK tp, r : tp = tps[p] /\ r = Segment(begin, c + Day) OBVIOUS
<1>2. r \in Segments /\ r.begin = begin /\ r.end = c + Day /\ r.begin <= r.end
  BY <1>0, <1>1 DEF Segment, Segments
<1>3. PICK a : a = RemoveSegment(tp, r) OBVIOUS
<1>4. Removed(a, tp, r) BY <1>1, <1>2, <1>3, RemoveIsDifference
<1>5. PICK segs : segs = ScriptFunc(p, begin, c + Day) OBVIOUS
<1>6. Scripted(segs, p, begin, c + Day) BY <1>0, <1>5, ScriptFacts
<1>7. PICK b : b = Merge(a, segs, TRUE) OBVIOUS
<1>8. Included(b, a, segs) BY <1>4, <1>6, <1>7, MergeIncludes DEF Removed, Scripted
<1>9. e = Merged(b, tps, p) BY <1>1, <1>3, <1>5, <1>7 DEF UpdateRegion
<1>10. Sane(a) /\ Sane(b) /\ Bounded(b, LastEnd(c + Day))
  <2>1. Bounded(a, LastEnd(c + Day)) BY <1>0, <1>1, <1>2, <1>4 DEF Removed
  <2> QED BY <2>1, <1>0, <1>4, <1>6, <1>8 DEF Removed, Included, Scripted
<1>11. ASSUME NEW ts \in Nat
       PROVE  Covers(b.segments, ts) <=> \/ Covers(a.segments, ts)
                                         \/ /\ DayOf(begin) <= DayOf(ts) /\ DayOf(ts) <= DayOf(c + Day)
                                            /\ InOwn(p, ts)
  BY <1>6, <1>8 DEF Included, Scripted
<1>12. OnlyOwn(b, p)
  <2>1. \A ts \in Nat : Covers(a.segments, ts) => Covers(tp.segments, ts) BY <1>4 DEF Removed
  <2> QED BY <2>1, <1>1, <1>11 DEF OnlyOwn
<1>13. KeepsOwn(b, p, c, LastEnd(c + Day))
  <2> SUFFICES ASSUME NEW ts \in Nat, c <= ts, ts < LastEnd(c + Day), InOwn(p, ts),
                      ~InAny(Excludes[p], ts)
               PROVE  Covers(b.segments, ts)
    BY DEF KeepsOwn
  <2>1. CASE ts < begin
    <3>1. Covers(tp.segments, ts) BY <2>1, <1>1 DEF KeepsOwn
    <3>2. ~Within(r, ts) BY <2>1, <1>2 DEF Within
    <3>3. Covers(a.segments, ts) BY <3>1, <3>2, <1>4 DEF Removed
    <3> QED BY <3>3, <1>11
  <2>2. CASE begin <= ts
    <3>1. DayOf(begin) <= DayOf(ts) BY <2>2, DayMonotone
    <3>2. DayOf(ts) <= DayOf(c + Day) BY <1>0, DayBefore
    <3> QED BY <3>1, <3>2, <1>11
  <2> QED BY <2>1, <2>2
<1>14. Fit(e, p, c) /\ Grown(e, b) BY <1>9, <1>10, <1>12, <1>13, MergedFacts
<1>15. Sane(e) /\ Grown(e, a)
  <2>1. Sane(e) BY <1>14 DEF Fit, Reliable
  <2>2. Grown(b, a) BY <1>8 DEF Included
  <2> QED BY <2>1, <2>2, <1>10, <1>14, GrownTransitive
<1>16. Extended(a, tp, r) /\ Sane(tp) BY <1>1, <1>4 DEF Removed
<1>17. c + Day <= a.validEnd /\ 0 <= a.validBegin /\ a.validBegin <= begin
       /\ (0 <= tp.validBegin => a.validBegin <= tp.validBegin)
  BY <1>0, <1>2, <1>16 DEF Extended, Sane, TimePeriodRecords, Unset, Lower, Upper
<1>18. /\ c + Day <= e.validEnd /\ 0 <= e.validBegin /\ e.validBegin <= begin
       /\ 0 <= tp.validBegin => e.validBegin <= tp.validBegin
  <2>1. /\ e.validEnd \in Int /\ a.validEnd \in Int /\ e.validBegin \in Int /\ a.validBegin \in Int
        /\ tp.validBegin \in Int
    BY <1>10, <1>15, <1>16, PeriodFields DEF Sane
  <2>2. a.validEnd <= e.validEnd /\ 0 <= e.validBegin /\ e.validBegin <= a.validBegin
    BY <1>15, <1>17 DEF Grown
  <2> QED BY <2>1, <2>2, <1>0, <1>17
<1> QED BY <1>1, <1>14, <1>18

-----------------------------------------------------------------------------
(* TimePeriod: the steps                                                     *)

\* What has ended is of no use any more; PurgeSegments leaves the rest.
LEMMA Purges ==
  ASSUME NEW p \in TimePeriods, NEW c \in Nat, NEW tp, Fit(tp, p, c),
         0 <= tp.validBegin, tp.validBegin <= c,
         NEW e, e = PurgeSegments(tp, c - Hour)
  PROVE  /\ Fit(e, p, c) /\ e.validEnd = tp.validEnd
         /\ 0 <= e.validBegin /\ e.validBegin <= c
<1> DEFINE end == c - Hour
<1>0. Sane(tp) /\ tp \in TimePeriodRecords /\ Proper(tp.segments) /\ end \in Int /\ end <= c
  BY DaysOK DEF Fit, Reliable, Sane
<1>f. tp.validBegin \in Int /\ tp.validEnd \in Int /\ tp.segments \in Seq(Segments)
      /\ tp.uncut \in SUBSET Int /\ tp.merged \in SUBSET Int
  BY <1>0, PeriodFields
<1>1. CASE end < tp.validBegin
  <2>1. e = tp BY <1>1 DEF PurgeSegments
  <2> QED BY <2>1
<1>2. CASE ~(end < tp.validBegin)
  <2> DEFINE segs == tp.segments
             arrays == [k \in DOMAIN segs |-> IF segs[k].end >= end THEN <<segs[k]>> ELSE <<>>]
             u == {ts \in tp.uncut : ts >= end}
             new == Concat(arrays)
  <2>1. tp.validBegin # Unset BY <1>f DEF Unset
  <2>2. e = [tp EXCEPT !.validBegin = end, !.segments = new, !.uncut = u]
    BY <1>2, <2>1 DEF PurgeSegments
  <2>3. PICK len \in Nat : len = Len(segs) /\ DOMAIN segs = 1..len BY <1>f
  <2>4. \A k \in 1..len : segs[k] \in Segments /\ Has(segs, segs[k])
    BY <2>3, <1>0, ProperEntry
  <2>5. ASSUME NEW k \in 1..len
        PROVE  /\ arrays[k] \in Seq(Segments)
               /\ \A s : Has(arrays[k], s) <=> s = segs[k] /\ s.end >= end
    <3>1. PICK s : s = segs[k] OBVIOUS
    <3>2. arrays[k] = IF s.end >= end THEN <<s>> ELSE <<>> BY <3>1, <2>3
    <3>3. s \in Segments BY <3>1, <2>4
    <3> HIDE DEF arrays
    <3>4. CASE s.end >= end
      <4>1. arrays[k] = <<s>> BY <3>2, <3>4
      <4>2. DOMAIN <<s>> = {1} /\ <<s>> \in Seq(Segments) BY <3>3
      <4>3. \A y : Has(<<s>>, y) <=> y = s BY <4>2 DEF Has
      <4> QED BY <4>1, <4>2, <4>3, <3>1, <3>4
    <3>5. CASE ~(s.end >= end)
      <4>1. arrays[k] = <<>> BY <3>2, <3>5
      <4>2. \A y : ~Has(<<>>, y) BY DEF Has
      <4> QED BY <4>1, <4>2, <3>1, <3>5
    <3> QED BY <3>4, <3>5
  <2>6. arrays \in Seq(Seq(Segments)) /\ DOMAIN arrays = 1..len
    <3>1. PICK S : S = Seq(Segments) OBVIOUS
    <3>2. DOMAIN arrays = 1..len /\ arrays = [k \in 1..len |-> arrays[k]] BY <2>3
    <3>3. \A k \in 1..len : arrays[k] \in S BY <3>1, <2>5
    <3> HIDE DEF arrays
    <3>4. arrays \in Seq(S) BY <3>2, <3>3
    <3> QED BY <3>1, <3>2, <3>4
  <2> HIDE DEF arrays
  <2>7. new \in Seq(Segments) /\ \A s : Has(new, s) <=> \E k \in 1..len : Has(arrays[k], s)
    BY <2>6, ConcatHas
  <2>8. \A s : Has(new, s) <=> Has(segs, s) /\ s.end >= end
    <3> TAKE s
    <3>1. Has(new, s) <=> \E k \in 1..len : s = segs[k] /\ s.end >= end BY <2>5, <2>7
    <3>2. Has(segs, s) <=> \E k \in 1..len : s = segs[k] BY <2>3 DEF Has
    <3> QED BY <3>1, <3>2
  <2>9. u \in SUBSET Int BY <1>f
  <2> HIDE DEF new, u, end
  <2>10. Parts(e, end, tp.validEnd, new, u, tp.merged)
    <3>1. PICK b \in Int : b = end BY <1>0
    <3>2. PICK sg \in Seq(Segments) : sg = new BY <2>7
    <3>3. PICK v \in SUBSET Int : v = u BY <2>9
    <3>4. e = [tp EXCEPT !.validBegin = b, !.segments = sg, !.uncut = v] BY <2>2, <3>1, <3>2, <3>3
    <3>5. Parts([tp EXCEPT !.validBegin = b, !.segments = sg, !.uncut = v],
                b, tp.validEnd, sg, v, tp.merged)
      BY <1>0, SetPurged
    <3> QED BY <3>1, <3>2, <3>3, <3>4, <3>5
  <2>11. Unset <= end /\ 0 <= end BY <1>0, <1>2, <1>f DEF Unset
  <2>12. Sane(e)
    <3>1. Proper(new) BY <2>7, <2>8, <1>0 DEF Proper
    <3> QED BY <3>1, <2>10, <2>11, <1>0 DEF Parts, Sane
  <2>13. Bounded(e, LastEnd(c + Day))
    BY <2>8, <2>10 DEF Fit, Reliable, Bounded, EndsBy, Parts
  <2>14. \A ts \in Nat : Covers(new, ts) => Covers(segs, ts) BY <2>8 DEF Covers
  <2>15. ASSUME NEW ts \in Nat, c <= ts
         PROVE  (Covers(new, ts) <=> Covers(segs, ts)) /\ (ts \in u <=> ts \in tp.uncut)
    <3>1. ASSUME NEW s \in Segments, Within(s, ts) PROVE s.end >= end
      BY <3>1, <2>15, <1>0 DEF Within, Segments
    <3>2. Covers(new, ts) <=> Covers(segs, ts) BY <3>1, <2>8 DEF Covers
    <3>3. ts >= end BY <2>15, <1>0
    <3> QED BY <3>2, <3>3 DEF u
  <2>16. OnlyOwn(e, p) BY <2>10, <2>14 DEF Fit, Reliable, OnlyOwn, Parts
  <2>17. KeepsOwn(e, p, c, e.validEnd) BY <2>10, <2>15 DEF Fit, Reliable, KeepsOwn, Parts
  <2>18. AsMeant(e, p, c) BY <2>10, <2>15 DEF Fit, AsMeant, Parts
  <2> QED BY <2>10, <2>11, <2>12, <2>13, <2>16, <2>17, <2>18, <1>0 DEF Fit, Reliable, Parts
<1> QED BY <1>1, <1>2

\* The included and excluded periods are others, and leaves.
LEMMA FlatSources ==
  ASSUME Flat, NEW p \in TimePeriods, NEW names \in {Includes[p], Excludes[p]}, NEW c \in Nat, NEW tps,
         \A q \in TimePeriods : q # p => Reliable(tps[q], q, c)
  PROVE  Sources(tps, names, c)
<1>1. names \in Seq(TimePeriods) BY TimePeriodAssumption
<1>2. ASSUME NEW k \in DOMAIN names
      PROVE  /\ Reliable(tps[names[k]], names[k], c)
             /\ Includes[names[k]] = <<>> /\ Excludes[names[k]] = <<>>
  <2>1. names[k] \in TimePeriods
    <3>1. k \in 1..Len(names) BY <1>1
    <3> QED BY <3>1, <1>1, ElementOfSeq
  <2>2. Includes[names[k]] = <<>> /\ Excludes[names[k]] = <<>> BY DEF Flat
  <2>3. names[k] # p
    <3>1. SUFFICES ASSUME names[k] = p PROVE FALSE OBVIOUS
    <3>2. names = <<>> BY <2>2, <3>1
    <3> QED BY <3>2
  <2> QED BY <2>1, <2>2, <2>3
<1> QED BY <1>1, <1>2 DEF Sources

\* What a round of the timer's loop starts with and ends with
Regular(tps, c) ==
    /\ tps = [p \in TimePeriods |-> tps[p]]
    /\ \A p \in TimePeriods : /\ Fit(tps[p], p, c) /\ 0 <= tps[p].validEnd
                              /\ 0 <= tps[p].validBegin /\ tps[p].validBegin <= c

LEMMA RoundFacts ==
  ASSUME Flat, RangesOK, preferIncludes \in BOOLEAN, clock \in Nat, NEW tps, Regular(tps, clock),
         NEW p \in TimePeriods, NEW e, e = Updated(tps, p)
  PROVE  /\ Fit(e, p, clock) /\ clock < e.validEnd
         /\ 0 <= e.validBegin /\ e.validBegin <= clock
<1>1. PICK tp : tp = PurgeSegments(tps[p], clock - Hour) OBVIOUS
<1>2. /\ Fit(tp, p, clock) /\ tp.validEnd = tps[p].validEnd
      /\ 0 <= tp.validBegin /\ tp.validBegin <= clock
  BY <1>1, Purges DEF Regular
<1>3. tp.validEnd \in Int /\ tp.validBegin \in Int /\ Sane(tp) BY <1>2, PeriodFields DEF Fit, Reliable, Sane
<1>4. PICK v \in Nat : v = tp.validEnd BY <1>2, <1>3 DEF Regular
<1>5. CASE clock + Day < tp.validEnd
  <2>1. e = tp BY <1>1, <1>5 DEF Updated
  <2> QED BY <2>1, <1>2, <1>4, <1>5, DaysOK
<1>6. CASE ~(clock + Day < tp.validEnd)
  <2>1. PICK g : g = [tps EXCEPT ![p] = tp] OBVIOUS
  <2>2. e = UpdateRegion(g, p, v, clock + Day) BY <1>1, <1>4, <1>6, <2>1 DEF Updated
  <2>3. g[p] = tp /\ \A q \in TimePeriods : q # p => g[q] = tps[q] BY <2>1 DEF Regular
  <2>4. \A q \in TimePeriods : q # p => Reliable(g[q], q, clock) BY <2>3 DEF Regular, Fit
  <2>5. Sources(g, Includes[p], clock) /\ Sources(g, Excludes[p], clock) BY <2>4, FlatSources
  <2>6. v <= clock + Day BY <1>4, <1>6, DaysOK
  <2>7. /\ Sane(g[p]) /\ Bounded(g[p], LastEnd(clock + Day)) /\ OnlyOwn(g[p], p)
        /\ KeepsOwn(g[p], p, clock, v)
    BY <2>3, <1>2, <1>4 DEF Fit, Reliable
  <2>8. /\ Fit(e, p, clock) /\ clock + Day <= e.validEnd
        /\ 0 <= e.validBegin
        /\ 0 <= g[p].validBegin => e.validBegin <= g[p].validBegin
    BY <2>2, <2>5, <2>6, <2>7, RegionUpdated
  <2>9. e.validEnd \in Int /\ e.validBegin \in Int BY <2>8, PeriodFields DEF Fit, Reliable, Sane
  <2> QED BY <2>3, <2>8, <2>9, <1>2, <1>3, DaysOK
<1> QED BY <1>5, <1>6

\* What the loop of the timer has after each round
Rounds(f, k) ==
    f = [i \in 0..k |-> IF i = 0 THEN period
                        ELSE [f[i - 1] EXCEPT ![Order[i]] = Updated(f[i - 1], Order[i])]]

LEMMA RoundsExists ==
  ASSUME NEW k \in Nat
  PROVE  \E f : Rounds(f, k)
<1> DEFINE RoundOf(g, i) == [g EXCEPT ![Order[i]] = Updated(g, Order[i])]
           Bad == {m \in Nat : ~\E f : Rounds(f, m)}
<1>r. \A f, m : Rounds(f, m) <=> f = [i \in 0..m |-> IF i = 0 THEN period ELSE RoundOf(f[i - 1], i)]
  BY DEF Rounds
<1> HIDE DEF RoundOf
<1>1. SUFFICES ASSUME Bad # {} PROVE FALSE OBVIOUS
<1>2. PICK m \in Bad : \A j \in Bad : m <= j BY <1>1, NatMin
<1>3. CASE m = 0
  <2> DEFINE g == [i \in 0..m |-> period]
  <2>1. g = [i \in 0..m |-> IF i = 0 THEN period ELSE RoundOf(g[i - 1], i)] BY <1>3
  <2>2. Rounds(g, m) BY <2>1, <1>r
  <2> QED BY <2>2
<1>4. CASE m # 0
  <2>1. m - 1 \in Nat /\ m \in Nat BY <1>4
  <2>2. m - 1 \notin Bad BY <2>1, <1>2
  <2>3. PICK f : Rounds(f, m - 1) BY <2>1, <2>2
  <2>f. f = [i \in 0..(m - 1) |-> IF i = 0 THEN period ELSE RoundOf(f[i - 1], i)] BY <2>3, <1>r
  <2> DEFINE g == [i \in 0..m |-> IF i = m THEN RoundOf(f[m - 1], m) ELSE f[i]]
  <2>4. ASSUME NEW i \in 0..m
        PROVE  g[i] = IF i = 0 THEN period ELSE RoundOf(g[i - 1], i)
    <3>1. CASE i = m
      BY <3>1, <1>4, <2>1
    <3>2. CASE i # m
      <4>1. i \in 0..(m - 1) BY <3>2, <2>1
      <4>2. g[i] = f[i] BY <3>2
      <4>3. f[i] = IF i = 0 THEN period ELSE RoundOf(f[i - 1], i) BY <4>1, <2>f
      <4>4. i # 0 => i - 1 \in 0..m /\ i - 1 # m BY <4>1, <2>1
      <4>5. i # 0 => g[i - 1] = f[i - 1] BY <4>4
      <4> QED BY <4>2, <4>3, <4>5
    <3> QED BY <3>1, <3>2
  <2>6. g = [i \in 0..m |-> g[i]] OBVIOUS
  <2> HIDE DEF g
  <2>7. Rounds(g, m) BY <2>4, <2>6, <1>r
  <2> QED BY <2>7
<1> QED BY <1>3, <1>4

\* The timer leaves every period valid until after now.
LEMMA TimerFacts ==
  ASSUME Flat, RangesOK, preferIncludes \in BOOLEAN, clock \in Nat, Regular(period, clock),
         UpdateTimerHandler
  PROVE  Regular(period', clock) /\ \A p \in TimePeriods : clock < period'[p].validEnd
<1> DEFINE N == Len(Order)
           F == CHOOSE f : Rounds(f, N)
<1>0. N \in Nat /\ DOMAIN Order = 1..N /\ \A i \in 1..N : Order[i] \in TimePeriods
  BY TimePeriodAssumption, ElementOfSeq
<1>1. Rounds(F, N)
  <2>1. \E f : Rounds(f, N) BY <1>0, RoundsExists
  <2> QED BY <2>1
<1>2. period' = F[N] BY DEF UpdateTimerHandler, Rounds
<1> HIDE DEF F, N
<1> DEFINE P(i) == Regular(F[i], clock) /\ \A j \in 1..i : clock < F[i][Order[j]].validEnd
           Bad == {i \in 0..N : ~P(i)}
<1>3. SUFFICES ASSUME Bad # {} PROVE FALSE
  <2>1. Bad = {} BY <1>3
  <2>2. P(N) BY <1>0, <2>1
  <2>3. \A p \in TimePeriods : \E j \in 1..N : p = Order[j] BY <1>0 DEF TimePeriods
  <2> QED BY <2>2, <2>3, <1>2
<1>4. PICK m \in Bad : \A j \in Bad : m <= j
  <2>1. Bad \subseteq Nat BY <1>0
  <2> HIDE DEF Bad
  <2> QED BY <1>3, <2>1, NatMin
<1>5. m \in 0..N /\ ~P(m) OBVIOUS
<1>6. CASE m = 0
  <2>1. F[m] = period BY <1>0, <1>1, <1>6 DEF Rounds
  <2> QED BY <2>1, <1>5, <1>6
<1>7. CASE m # 0
  <2>1. m - 1 \in 0..N /\ ~(m <= m - 1) /\ m \in 1..N BY <1>0, <1>5, <1>7
  <2>2. P(m - 1) BY <2>1, <1>4
  <2> HIDE DEF Bad
  <2>3. PICK g, p : g = F[m - 1] /\ p = Order[m] OBVIOUS
  <2>4. p \in TimePeriods /\ Regular(g, clock) BY <2>1, <2>2, <2>3, <1>0
  <2>5. PICK e : e = Updated(g, p) OBVIOUS
  <2>6. /\ Fit(e, p, clock) /\ clock < e.validEnd
        /\ 0 <= e.validBegin /\ e.validBegin <= clock
    BY <2>4, <2>5, RoundFacts
  <2>7. F[m] = [g EXCEPT ![p] = e] BY <2>1, <2>3, <2>5, <1>1, <1>7 DEF Rounds
  <2>8. /\ F[m] = [q \in TimePeriods |-> F[m][q]]
        /\ \A q \in TimePeriods : F[m][q] = IF q = p THEN e ELSE g[q]
    BY <2>4, <2>7 DEF Regular
  <2>9. 0 <= e.validEnd
    <3>1. e.validEnd \in Int BY <2>6, PeriodFields DEF Fit, Reliable, Sane
    <3> QED BY <3>1, <2>6
  <2>10. Regular(F[m], clock) BY <2>4, <2>6, <2>8, <2>9 DEF Regular
  <2>11. ASSUME NEW j \in 1..m PROVE clock < F[m][Order[j]].validEnd
    <3>1. Order[j] \in TimePeriods BY <1>0, <2>1
    <3>2. CASE Order[j] = p BY <3>1, <3>2, <2>6, <2>8
    <3>3. CASE Order[j] # p
      <4>1. j \in 1..(m - 1) BY <3>3, <2>1, <2>3, <1>0
      <4>2. clock < g[Order[j]].validEnd BY <4>1, <2>2, <2>3
      <4> QED BY <3>1, <3>3, <4>2, <2>8
    <3> QED BY <3>2, <3>3
  <2> QED BY <1>5, <2>10, <2>11
<1> QED BY <1>6, <1>7

-----------------------------------------------------------------------------
\* Every period is as configured from now to the end of its valid region, which begins
\* before now and, once the timer has run, ends after now.
TimePeriodInv ==
    /\ clock \in Nat /\ ticked \in BOOLEAN /\ running \subseteq TimePeriods
    /\ preferIncludes \in BOOLEAN /\ RangesOK
    /\ period = [p \in TimePeriods |-> period[p]]
    /\ \A p \in TimePeriods : Fit(period[p], p, clock)
    /\ \A p \in running :
          /\ 0 <= period[p].validEnd /\ 0 <= period[p].validBegin /\ period[p].validBegin <= clock
          /\ ticked \/ clock < period[p].validEnd

LEMMA TimePeriodInitInv ==
  ASSUME TimePeriodInit PROVE TimePeriodInv
<1>1. clock \in Nat /\ ticked \in BOOLEAN /\ running = {} /\ preferIncludes \in BOOLEAN /\ RangesOK
      /\ period = [p \in TimePeriods |-> NewPeriod]
  BY DEF TimePeriodInit, RangesOK
<1>2. Parts(NewPeriod, Unset, Unset, <<>>, {}, {})
  BY DEF NewPeriod, Parts, TimePeriodRecords, Unset
<1>3. \A s : ~Has(<<>>, s) BY DEF Has
<1>4. Sane(NewPeriod) BY <1>2, <1>3 DEF Sane, Parts, Proper, TimePeriodRecords, Unset
<1>5. LastEnd(clock + Day) \in Nat BY <1>1, DayAhead
<1>6. Bounded(NewPeriod, LastEnd(clock + Day)) BY <1>2, <1>3, <1>5 DEF Bounded, EndsBy, Parts, Unset
<1>7. \A ts \in Nat : ~Covers(NewPeriod.segments, ts) /\ ~(ts < NewPeriod.validEnd)
  BY <1>2, <1>3 DEF Covers, Parts, Unset
<1>8. \A p \in TimePeriods : Fit(NewPeriod, p, clock)
  BY <1>4, <1>6, <1>7 DEF Fit, Reliable, OnlyOwn, KeepsOwn, AsMeant
<1> QED BY <1>1, <1>8 DEF TimePeriodInv

\* Time that passes takes nothing away from what is known of the future.
LEMMA FitLater ==
  ASSUME NEW tp, NEW p, NEW c \in Nat, Fit(tp, p, c) PROVE Fit(tp, p, c + 1)
<1>1. PICK a \in Nat : a = c + Day BY DaysOK
<1>2. PICK b \in Nat : b = c + 1 + Day BY DaysOK
<1>3. LastEnd(a) <= LastEnd(b) /\ LastEnd(a) \in Nat /\ LastEnd(b) \in Nat
  <2>1. a <= b BY <1>1, <1>2, DaysOK
  <2> QED BY <2>1, DayFacts, DayMonotone
<1>4. Sane(tp) /\ Bounded(tp, LastEnd(a)) BY <1>1 DEF Fit, Reliable
<1>5. Bounded(tp, LastEnd(b))
  <2>1. tp.validEnd <= LastEnd(b) BY <1>3, <1>4 DEF Bounded, Sane, TimePeriodRecords
  <2>2. EndsBy(tp.segments, LastEnd(b)) BY <1>3, <1>4 DEF Bounded, EndsBy, Segments
  <2> QED BY <2>1, <2>2 DEF Bounded
<1>6. \A ts \in Nat : c + 1 <= ts => c <= ts OBVIOUS
<1> QED BY <1>2, <1>4, <1>5, <1>6 DEF Fit, Reliable, KeepsOwn, AsMeant

\* What is configured does not change.
LEMMA SameConfiguration ==
  ASSUME ranges' = ranges, preferIncludes' = preferIncludes, NEW tp, NEW p, NEW c, Fit(tp, p, c)
  PROVE  Fit(tp, p, c)'
<1>1. \A q, ts : InOwn(q, ts)' <=> InOwn(q, ts) BY DEF InOwn
<1>2. \A names, ts : InAny(names, ts)' <=> InAny(names, ts) BY <1>1 DEF InAny
<1>3. \A ts : Intended(p, ts)' <=> Intended(p, ts) BY <1>1, <1>2 DEF Intended
<1>4. OnlyOwn(tp, p)' BY <1>1, <1>2 DEF Fit, Reliable, OnlyOwn
<1>5. KeepsOwn(tp, p, c, tp.validEnd)' BY <1>1, <1>2 DEF Fit, Reliable, KeepsOwn
<1>6. AsMeant(tp, p, c)' BY <1>3 DEF Fit, AsMeant
<1>7. Sane(tp)' /\ Bounded(tp, LastEnd(c + Day))' BY DEF Fit, Reliable
<1> QED BY <1>4, <1>5, <1>6, <1>7 DEF Fit, Reliable

LEMMA TimePeriodStep ==
  ASSUME Flat, TimePeriodInv, [TimePeriodNext]_timePeriodVars PROVE TimePeriodInv'
<1>b. ranges' = ranges /\ preferIncludes' = preferIncludes
  BY DEF TimePeriodNext, StartPeriod, UpdateTimerHandler, StopAll, PassTime, timePeriodVars
<1>a. RangesOK' BY <1>b DEF RangesOK, TimePeriodInv
<1>i. clock \in Nat /\ ticked \in BOOLEAN /\ running \subseteq TimePeriods
      /\ preferIncludes \in BOOLEAN /\ RangesOK
  BY DEF TimePeriodInv
<1>s. SUFFICES /\ clock' \in Nat /\ ticked' \in BOOLEAN /\ running' \subseteq TimePeriods
               /\ period' = [p \in TimePeriods |-> period'[p]]
               /\ \A p \in TimePeriods : Fit(period'[p], p, clock')
               /\ \A p \in running' :
                     /\ 0 <= period'[p].validEnd /\ 0 <= period'[p].validBegin
                     /\ period'[p].validBegin <= clock'
                     /\ ticked' \/ clock' < period'[p].validEnd
  <2>1. ASSUME NEW p \in TimePeriods PROVE Fit(period[p], p, clock)'
    <3>1. PICK tp, c : tp = period'[p] /\ c = clock' OBVIOUS
    <3>2. Fit(tp, p, c) BY <3>1, <1>s
    <3>3. Fit(tp, p, c)' BY <3>2, <1>b, SameConfiguration
    <3> QED BY <3>1, <3>3
  <2> QED BY <2>1, <1>a, <1>b, <1>i, <1>s DEF TimePeriodInv
<1>1. ASSUME NEW p \in TimePeriods, StartPeriod(p)
      PROVE  /\ clock' \in Nat /\ ticked' \in BOOLEAN /\ running' \subseteq TimePeriods
             /\ period' = [q \in TimePeriods |-> period'[q]]
             /\ \A q \in TimePeriods : Fit(period'[q], q, clock')
             /\ \A q \in running' :
                   /\ 0 <= period'[q].validEnd /\ 0 <= period'[q].validBegin
                   /\ period'[q].validBegin <= clock'
                   /\ ticked' \/ clock' < period'[q].validEnd
  <2>1. PICK g : g = [period EXCEPT ![p].segments = <<>>, ![p].uncut = {}] OBVIOUS
  <2>2. PICK e : e = UpdateRegion(g, p, clock, clock + Day) OBVIOUS
  <2>3. /\ clock' = clock /\ ticked' = ticked /\ running' = running \cup {p}
        /\ period' = [period EXCEPT ![p] = e]
    BY <1>1, <2>1, <2>2 DEF StartPeriod
  <2>4. period = [q \in TimePeriods |-> period[q]] /\ \A q \in TimePeriods : Fit(period[q], q, clock)
    BY DEF TimePeriodInv
  <2>5. PICK tp : tp = period[p] OBVIOUS
  <2>6. Sane(tp) /\ tp \in TimePeriodRecords /\ Bounded(tp, LastEnd(clock + Day))
    BY <2>4, <2>5 DEF Fit, Reliable, Sane
  <2>7. Parts(g[p], tp.validBegin, tp.validEnd, <<>>, {}, tp.merged)
        /\ \A q \in TimePeriods : q # p => g[q] = period[q]
    <3>e. <<>> \in Seq(Segments) OBVIOUS
    <3>0. PICK segs \in Seq(Segments) : segs = <<>> BY <3>e
    <3>1. PICK u \in SUBSET Int : u = {} OBVIOUS
    <3>2. Parts([tp EXCEPT !.segments = segs, !.uncut = u],
                tp.validBegin, tp.validEnd, segs, u, tp.merged)
      BY <2>6, SetUncut
    <3>3. g[p] = [tp EXCEPT !.segments = segs, !.uncut = u] BY <2>1, <2>4, <2>5, <3>0, <3>1
    <3>4. \A q \in TimePeriods : q # p => g[q] = period[q] BY <2>1, <2>4
    <3> QED BY <3>0, <3>1, <3>2, <3>3, <3>4
  <2>8. \A s : ~Has(<<>>, s) BY DEF Has
  <2>9. Sane(g[p]) /\ Bounded(g[p], LastEnd(clock + Day))
    BY <2>6, <2>7, <2>8 DEF Parts, Sane, Proper, TimePeriodRecords, Bounded, EndsBy
  <2>10. OnlyOwn(g[p], p) BY <2>7, <2>8 DEF Parts, OnlyOwn, Covers
  <2>11. KeepsOwn(g[p], p, clock, clock) BY <1>i DEF KeepsOwn
  <2>12. Sources(g, Includes[p], clock) /\ Sources(g, Excludes[p], clock)
    <3>1. \A q \in TimePeriods : q # p => Reliable(g[q], q, clock) BY <2>4, <2>7 DEF Fit
    <3> QED BY <3>1, <1>i, FlatSources
  <2>13. /\ Fit(e, p, clock) /\ clock + Day <= e.validEnd
         /\ 0 <= e.validBegin /\ e.validBegin <= clock
    <3>1. clock <= clock + Day BY <1>i, DaysOK
    <3> QED BY <3>1, <1>i, <2>2, <2>9, <2>10, <2>11, <2>12, RegionUpdated
  <2>14. 0 <= e.validEnd /\ clock < e.validEnd
    <3>1. e.validEnd \in Int BY <2>13, PeriodFields DEF Fit, Reliable, Sane
    <3> QED BY <3>1, <2>13, <1>i, DaysOK
  <2>15. /\ period' = [q \in TimePeriods |-> period'[q]]
         /\ \A q \in TimePeriods : period'[q] = IF q = p THEN e ELSE period[q]
    BY <2>3, <2>4
  <2>16. ASSUME NEW q \in running'
         PROVE  /\ 0 <= period'[q].validEnd /\ 0 <= period'[q].validBegin
                /\ period'[q].validBegin <= clock'
                /\ ticked' \/ clock' < period'[q].validEnd
    <3>1. CASE q = p BY <3>1, <2>3, <2>13, <2>14, <2>15
    <3>2. CASE q # p
      <4>1. q \in running /\ q \in TimePeriods BY <3>2, <2>3, <1>i
      <4> QED BY <3>2, <4>1, <2>3, <2>15 DEF TimePeriodInv
    <3> QED BY <3>1, <3>2
  <2> QED BY <2>3, <2>4, <2>13, <2>15, <2>16, <1>i
<1>2. CASE UpdateTimerHandler
  <2>1. Regular(period, clock) BY <1>2 DEF Regular, TimePeriodInv, UpdateTimerHandler
  <2>2. Regular(period', clock) /\ \A p \in TimePeriods : clock < period'[p].validEnd
    BY <2>1, <1>2, <1>i, TimerFacts
  <2> QED BY <2>2, <1>2, <1>i DEF Regular, UpdateTimerHandler
<1>3. CASE StopAll
  BY <1>3 DEF StopAll, TimePeriodInv
<1>4. CASE PassTime
  <2>1. clock' = clock + 1 /\ ticked' = TRUE /\ period' = period /\ running' = running
    BY <1>4 DEF PassTime
  <2>2. \A p \in TimePeriods : Fit(period'[p], p, clock') BY <2>1, FitLater DEF TimePeriodInv
  <2>3. ASSUME NEW p \in running PROVE period[p].validBegin <= clock + 1
    <3>1. period[p].validBegin \in Int /\ period[p].validBegin <= clock
      BY <1>i, PeriodFields DEF TimePeriodInv, Fit, Reliable, Sane
    <3> QED BY <3>1, <1>i
  <2>4. /\ period = [p \in TimePeriods |-> period[p]]
        /\ \A p \in running : 0 <= period[p].validEnd /\ 0 <= period[p].validBegin
    BY DEF TimePeriodInv
  <2>5. period' = [p \in TimePeriods |-> period'[p]] BY <2>1, <2>4
  <2>6. clock' \in Nat BY <2>1, <1>i
  <2> QED BY <2>1, <2>2, <2>3, <2>4, <2>5, <2>6, <1>i
<1>5. CASE UNCHANGED timePeriodVars
  BY <1>5 DEF timePeriodVars, TimePeriodInv
<1> QED BY <1>1, <1>2, <1>3, <1>4, <1>5 DEF TimePeriodNext

\* What is in the segments now is what the configuration says.
LEMMA TimePeriodRight ==
  ASSUME TimePeriodInv PROVE InsideRight
<1> SUFFICES ASSUME NEW p \in running, ~ticked, clock \notin period[p].uncut,
                    ~(\E end \in period[p].merged : clock >= end)
             PROVE  IsInside(period[p], clock) <=> Intended(p, clock)
  BY DEF InsideRight
<1>1. p \in TimePeriods /\ clock \in Nat BY DEF TimePeriodInv
<1>2. PICK tp : tp = period[p] OBVIOUS
<1>3. Fit(tp, p, clock) /\ 0 <= tp.validBegin /\ tp.validBegin <= clock /\ clock < tp.validEnd
  BY <1>1, <1>2 DEF TimePeriodInv
<1>4. tp.validBegin \in Int /\ tp.validEnd \in Int /\ Proper(tp.segments)
  BY <1>3, PeriodFields DEF Fit, Reliable, Sane
<1>5. Covers(tp.segments, clock) <=> Intended(p, clock) BY <1>1, <1>2, <1>3 DEF Fit, AsMeant
<1>6. Covers(tp.segments, clock)
        <=> \E k \in DOMAIN tp.segments : Within(tp.segments[k], clock)
  BY <1>4, ProperEntry DEF Covers, Has
<1>7. tp.validBegin # Unset /\ ~(clock < tp.validBegin) /\ ~(clock > tp.validEnd)
  BY <1>1, <1>3, <1>4 DEF Unset
<1> QED BY <1>2, <1>5, <1>6, <1>7 DEF IsInside, Within

\* TimePeriod::IsInside says of now what the ranges, the includes and the excludes say,
\* however often segments were added, cut, purged and merged, and whatever restarts came
\* in between; for time periods whose includes and excludes have none of their own.
THEOREM InsideIsRight ==
  ASSUME Flat PROVE TimePeriodSpec => []InsideRight
<1>1. TimePeriodInit => TimePeriodInv BY TimePeriodInitInv
<1>2. TimePeriodInv /\ [TimePeriodNext]_timePeriodVars => TimePeriodInv' BY TimePeriodStep
<1>3. TimePeriodInv => InsideRight BY TimePeriodRight
<1> QED BY <1>1, <1>2, <1>3, PTL DEF TimePeriodSpec
=============================================================================

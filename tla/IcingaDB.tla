------------------------------ MODULE IcingaDB ------------------------------
(***************************************************************************)
(* How Icinga DB keeps Redis up to date (lib/icingadb): the initial dump of *)
(* all objects, the handlers that enqueue what has changed and the worker   *)
(* that processes the pending items one by one, oldest first, each with the *)
(* state its object has by then. A change of something that is pending is   *)
(* merged into the item, which keeps its place in the queue. There is one   *)
(* host, which is deleted and created again, with groups and a dependency   *)
(* on a parent that stays. The dump and the worker read an object, give its *)
(* dependency group an identifier and write what they have read later:      *)
(* handlers run in between. The streams of runtime updates, the history and *)
(* the minimum age of an item are left out, and queries that are under way  *)
(* when the connection breaks arrive.                                       *)
(***************************************************************************)
EXTENDS Naturals, Sequences, FiniteSets, SequencesExt

CONSTANTS Groups,           \* what the host may be a member of
          MaxObjects,       \* bound: how often the host is created
          MaxDependencies,  \* bound: how often the dependency is created
          MaxDisconnects,   \* bound: how often the connection breaks
          MaxUpdates        \* bound: changes of the objects

\* A group is not mistaken for another relation of the host.
ASSUME IcingaDBAssumption ==
    /\ {MaxObjects, MaxDependencies, MaxDisconnects, MaxUpdates} \subseteq Nat
    /\ IsFiniteSet(Groups)
    /\ Groups \cap {"config", "state", "nextUpdate", "childNode", "parentNode", "edge",
                    "edgeState", "child", "parent", "edgeId", "edgeStateId"} = {}

\* Objects and dependency groups are pointers: a new one for each creation.
Hosts == 1..MaxObjects
ParentHost == 0
DependencyGroups == 1..MaxDependencies

DependencyEntries == {"childNode", "parentNode", "edge", "edgeState"}
Entries == {"config", "state", "nextUpdate"} \cup DependencyEntries \cup Groups

VARIABLES host,        \* the host object, 0 if it is deleted
          hosts,       \* how many there were
          groups,      \* groups of each of them
          depGroup,    \* the dependency group, 0 if there is none
          depGroups,   \* how many there were
          identified,  \* dependency groups with an IcingaDBIdentifier
          updates,
          result,      \* the host object whose check result is being processed, or 0
          connected,   \* m_RconWorker is connected
          reconnected, \* m_ReconnectCount has changed since the dump began
          redisBreaks,
          dump,        \* where OnConnectedHandler() is
          unread,      \* the hosts it has listed and not read yet
          reading,     \* the host it is reading, or 0
          dumped,      \* what it has read
          serializing, \* the dependency group that was read and gets its identifier, or 0
          queue,       \* m_PendingItems
          item,        \* what the worker has taken out of it
          redis,       \* what is in Redis
          stale,       \* of the host's entries, those last read with an outdated value
          unsent,      \* ghost: a change was not enqueued for lack of a connection
          late,        \* ghost: something about a host was enqueued after its deletion
          overtaken,   \* ghost: entries whose deletion is pending behind the update
          leftover     \* ghost: entries of a registration that was cancelled halfway

objectVars == <<host, hosts, groups, depGroup, depGroups, updates, result>>
connVars == <<connected, reconnected, redisBreaks>>
dumpVars == <<dump, unread, reading, dumped>>
icingadbVars == <<objectVars, identified, connVars, dumpVars, serializing, queue, item, redis,
                  stale, unsent, late, overtaken, leftover>>

NoItem == [kind |-> "none", key |-> 0, what |-> {}]
ConfigItem(k, bits) == [kind |-> "config", key |-> k, what |-> bits]
EdgeItem(d, child) == [kind |-> "edge", key |-> d, what |-> {child}]
GroupStateItem(d) == [kind |-> "groupState", key |-> d, what |-> {}]
RelationsDeletion(id, entries) == [kind |-> "relations", key |-> id, what |-> entries]
Relation(g) == RelationsDeletion(g, {g})

\* What the worker has made of an item: the queries it is going to send.
Queries(deletes, writes) == [kind |-> "queries", deletes |-> deletes, what |-> writes]

\* The fewer objects there were, the more are created.
IcingaDBInit ==
    /\ hosts \in 0..MaxObjects
    /\ depGroups \in 0..MaxDependencies
    /\ host = 0 /\ groups = [k \in Hosts |-> {}]
    /\ depGroup = 0 /\ identified = {}
    /\ updates = 0 /\ result = 0
    /\ connected = FALSE /\ reconnected = FALSE /\ redisBreaks = 0
    /\ dump = "idle" /\ unread = {} /\ reading = 0 /\ dumped = {}
    /\ serializing = 0
    /\ queue = <<>> /\ item = NoItem
    /\ redis = {} /\ stale = {}
    /\ unsent = FALSE /\ late = FALSE /\ overtaken = {} /\ leftover = {}
----------------------------------------------------------------------------
(* The pending items                                                        *)

\* The items are found by what they are about.
Same(i, j) == i.kind = j.kind /\ i.key = j.key
Pending(q, i) == \E n \in DOMAIN q : Same(q[n], i)

Erase(q, i) == IF Pending(q, i) THEN RemoveAt(q, CHOOSE n \in DOMAIN q : Same(q[n], i)) ELSE q

\* Mutation of MergeBits: a deletion leaves the bits of a pending update alone.
MergeBitsKeep(old, bits) == IF "ConfigUpdate" \in bits THEN (old \ {"ConfigDelete"}) \cup bits
                            ELSE old \cup bits

\* A deletion of the object cancels its update, and the other way round.
MergeBits(old, bits) ==
    bits \cup IF "ConfigDelete" \in bits THEN old \ {"ConfigUpdate", "VolatileState"}
             ELSE IF "ConfigUpdate" \in bits THEN old \ {"ConfigDelete"}
             ELSE old

Merge(old, new) ==
    CASE old.kind = "config" -> [old EXCEPT !.what = MergeBits(@, new.what)]
      [] old.kind = "relations" -> [old EXCEPT !.what = @ \cup new.what]
      [] OTHER -> old

\* EnqueueConfigObject(), EnqueueRelationsDeletion() and the like
Enqueue(q, new) ==
    IF Pending(q, new)
    THEN [n \in DOMAIN q |-> IF Same(q[n], new) THEN Merge(q[n], new) ELSE q[n]]
    ELSE Append(q, new)

EnqueueAll(q, items) ==
    LET after[n \in 0..Len(items)] == IF n = 0 THEN q ELSE Enqueue(after[n - 1], items[n])
    IN after[Len(items)]

\* What is to be deleted by the items behind the n-th.
DeletedBehind(q, n) ==
    UNION {q[m].what : m \in {m \in DOMAIN q : m > n /\ q[m].kind = "relations"}}

\* InsertObjectDependencies(): what an update of host k writes besides its own entry.
Written(k) ==
    IF k = ParentHost THEN IF depGroup = 0 THEN {} ELSE {"parentNode"}
    ELSE groups[k] \cup IF depGroup = 0 \/ k # host THEN {} ELSE {"childNode", "edge"}

\* Of the entries that the updates among the items write, those for which the update
\* has been merged into an item in front of the deletion.
Overtakes(q, items) ==
    UNION {UNION {Written(i.key)' \cap DeletedBehind(q, n) : n \in {n \in DOMAIN q : Same(q[n], i)}} :
             i \in {j \in ToSet(items) : j.kind = "config" /\ "ConfigUpdate" \in j.what}}

\* Nothing is enqueued without a connection.
Post(q, items) ==
    IF connected
    THEN /\ queue' = EnqueueAll(q, items)
         /\ overtaken' = overtaken \cup Overtakes(queue', items)
         /\ UNCHANGED unsent
    ELSE unsent' = TRUE /\ UNCHANGED <<queue, overtaken>>
----------------------------------------------------------------------------
(* Handlers of the signals                                                  *)

Change == updates < MaxUpdates /\ updates' = updates + 1

AllBits == {"ConfigUpdate", "VolatileState", "NextUpdate"}

handlerVars == <<connVars, dumpVars, serializing, item, redis>>

\* VersionChangedHandler() for a new object
CreateHost ==
    /\ Change
    /\ host = 0 /\ hosts < MaxObjects
    /\ host' = hosts + 1 /\ hosts' = host'
    /\ stale' = {"config", "state"}
    /\ UNCHANGED <<groups, depGroup, depGroups, result, identified, handlerVars,
                   late, leftover>>
    /\ Post(queue, <<ConfigItem(host', AllBits)>>)

\* SendGroupsChanged() and its kin for the groups it leaves, then VersionChangedHandler()
ModifyHost(new) ==
    /\ Change
    /\ host # 0 /\ new # groups[host]
    /\ groups' = [groups EXCEPT ![host] = new]
    /\ stale' = stale \cup {"config"}
    /\ UNCHANGED <<host, hosts, depGroup, depGroups, result, identified, handlerVars,
                   late, leftover>>
    /\ LET left == SetToSeq(groups[host] \ new)
       IN Post(queue, [i \in DOMAIN left |-> Relation(left[i])]
                      \o <<ConfigItem(host, AllBits)>>)

\* SendConfigDelete(). The dependencies of the host were deleted before.
DeleteHost ==
    /\ Change
    /\ host # 0 /\ depGroup = 0
    /\ host' = 0
    /\ stale' = {}
    /\ UNCHANGED <<hosts, groups, depGroup, depGroups, result, identified, handlerVars,
                   late, leftover>>
    /\ LET left == SetToSeq(groups[host])
       IN Post(queue, <<RelationsDeletion("child", {"state"}),
                        ConfigItem(host, {"ConfigDelete", "NextUpdate"})>>
                      \o [i \in DOMAIN left |-> Relation(left[i])])

\* The host gets a check result, ...
ResultProcessed ==
    /\ Change
    /\ host # 0 /\ result = 0
    /\ result' = host
    /\ stale' = stale \cup {"state"}
    /\ UNCHANGED <<host, hosts, groups, depGroup, depGroups, identified, handlerVars, queue,
                   unsent, late, overtaken, leftover>>

\* ... NextCheckChangedHandler(), NewCheckResultHandler()
NewCheckResultHandler ==
    /\ result # 0
    /\ result' = 0
    /\ late' = (late \/ (connected /\ result # host))
    /\ UNCHANGED <<host, hosts, groups, depGroup, depGroups, updates, identified,
                   handlerVars, stale, leftover>>
    /\ Post(queue, <<ConfigItem(result, {"VolatileState", "NextUpdate"}),
                     ConfigItem(result, {"VolatileState"})>>)

DependencyGroupChildRegisteredHandler ==
    /\ Change
    /\ host # 0 /\ depGroup = 0 /\ depGroups < MaxDependencies
    /\ depGroup' = depGroups + 1 /\ depGroups' = depGroup'
    /\ UNCHANGED <<host, hosts, groups, result, identified, handlerVars, stale, late, leftover>>
    /\ Post(queue, <<ConfigItem(host, {"VolatileState"}), EdgeItem(depGroup', host),
                     GroupStateItem(depGroup'),
                     ConfigItem(ParentHost, {"ConfigUpdate", "VolatileState"})>>)

\* What there may be of a dependency without an identifier: its parent's node, in Redis
\* or read by the dump or the worker, and what is read before the identifier is set.
NotDeleted ==
    LET unwritten == dumped \cup IF item.kind = "queries" THEN item.what ELSE {}
    IN ((redis \cup unwritten) \cap {"parentNode"})
       \cup IF serializing = depGroup THEN unwritten \cap {"edge", "edgeState"} ELSE {}

\* EnqueueDependencyChildRemoved(): a registration that is pending is cancelled. Nothing is
\* deleted then if the group has no identifier.
DependencyGroupChildRemovedHandler ==
    /\ Change
    /\ depGroup # 0
    /\ depGroup' = 0
    /\ UNCHANGED <<host, hosts, groups, depGroups, result, handlerVars, stale, late>>
    /\ LET cancelled == Pending(queue, EdgeItem(depGroup, host))
           rest == IF cancelled THEN Erase(Erase(queue, EdgeItem(depGroup, host)),
                                           GroupStateItem(depGroup))
                                ELSE queue
           node == <<RelationsDeletion("child", {"childNode"})>>
       IN IF cancelled /\ depGroup \notin identified
          THEN /\ Post(rest, node)
               /\ leftover' = IF connected THEN leftover \cup NotDeleted ELSE leftover
               /\ UNCHANGED identified
          ELSE /\ Post(rest, node \o <<RelationsDeletion("edgeId", {"edge"}),
                                       ConfigItem(ParentHost, {"ConfigUpdate"}),
                                       RelationsDeletion("parent", {"parentNode"}),
                                       RelationsDeletion("edgeStateId", {"edgeState"})>>)
               /\ identified' = IF connected THEN identified \cup {depGroup} ELSE identified
               /\ UNCHANGED leftover
----------------------------------------------------------------------------
(* The initial dump                                                         *)

\* What should be in Redis.
Actual == (IF host = 0 THEN {} ELSE {"config", "state", "nextUpdate"} \cup groups[host])
          \cup (IF depGroup = 0 THEN {} ELSE DependencyEntries)

\* OnConnectedHandler() and the beginning of UpdateAllConfigObjects()
DumpBegin ==
    /\ dump = "idle" /\ connected
    /\ dump' = "begun"
    /\ reconnected' = FALSE
    /\ redis' = redis \cap {"config"}
    /\ leftover' = {}
    /\ UNCHANGED <<objectVars, identified, connected, redisBreaks, unread, reading, dumped,
                   serializing, queue, item, stale, unsent, late, overtaken>>

\* The objects there are. The dump makes up for changes that were not enqueued, unless
\* something older is pending.
DumpList ==
    /\ dump = "begun"
    /\ dump' = "listed"
    /\ unread' = {ParentHost, host}
    /\ unsent' = (unsent /\ queue # <<>>)
    /\ UNCHANGED <<objectVars, identified, connVars, reading, dumped, serializing, queue, item,
                   redis, stale, late, overtaken, leftover>>

\* Objects are read in any order, and skipped if they are not active any more.
DumpReadParent ==
    /\ dump = "listed" /\ ParentHost \in unread
    /\ unread' = unread \ {ParentHost}
    /\ dumped' = dumped \cup Written(ParentHost)
    /\ UNCHANGED <<objectVars, identified, connVars, dump, reading, serializing, queue, item,
                   redis, stale, unsent, late, overtaken, leftover>>

DumpReadHost(k) ==
    /\ dump = "listed" /\ k \in unread \ {ParentHost}
    /\ unread' = unread \ {k}
    /\ IF k # host THEN UNCHANGED <<reading, dumped, serializing, stale>>
       ELSE /\ reading' = k
            /\ dumped' = dumped \cup (Actual \ {"nextUpdate", "parentNode"})
            /\ serializing' = depGroup
            /\ stale' = {}
    /\ UNCHANGED <<objectVars, identified, connVars, dump, queue, item, redis, unsent, late,
                   overtaken, leftover>>

\* SerializeDependencyEdgeState() sets the identifier.
Serialized == identified' = identified \cup ({serializing} \ {0}) /\ serializing' = 0

\* Without a connection the dump is going to be repeated.
DumpReadEnd ==
    /\ reading # 0
    /\ reading' = 0
    /\ Serialized
    /\ queue' = IF connected THEN Enqueue(queue, ConfigItem(reading, {"NextUpdate"})) ELSE queue
    /\ late' = (late \/ (connected /\ reading # host))
    /\ UNCHANGED <<objectVars, connVars, dump, unread, dumped, item, redis, stale, unsent,
                   overtaken, leftover>>

\* Only what differs is written, which makes no difference.
DumpWrite ==
    /\ dump = "listed" /\ unread = {} /\ reading = 0
    /\ dump' = "written"
    /\ redis' = IF connected THEN dumped ELSE redis
    /\ dumped' = {}
    /\ UNCHANGED <<objectVars, identified, connVars, unread, reading, serializing, queue, item,
                   stale, unsent, late, overtaken, leftover>>

\* The dump is repeated if the connection broke.
DumpEnd ==
    /\ dump = "written"
    /\ dump' = IF connected /\ ~reconnected THEN "done" ELSE "idle"
    /\ UNCHANGED <<objectVars, identified, connVars, unread, reading, dumped, serializing, queue,
                   item, redis, stale, unsent, late, overtaken, leftover>>

RedisConnect ==
    /\ ~connected
    /\ connected' = TRUE
    /\ reconnected' = (dump \in {"begun", "listed", "written"})
    /\ UNCHANGED <<objectVars, identified, redisBreaks, dumpVars, serializing, queue, item, redis,
                   stale, unsent, late, overtaken, leftover>>

RedisDisconnect ==
    /\ connected /\ redisBreaks < MaxDisconnects
    /\ connected' = FALSE /\ redisBreaks' = redisBreaks + 1
    /\ UNCHANGED <<objectVars, identified, reconnected, dumpVars, serializing, queue, item, redis,
                   stale, unsent, late, overtaken, leftover>>
----------------------------------------------------------------------------
(* The worker: PendingItemsThreadProc()                                     *)

WorkerTake ==
    /\ dump = "done" /\ connected
    /\ item = NoItem /\ queue # <<>>
    /\ item' = Head(queue) /\ queue' = Tail(queue)
    /\ UNCHANGED <<objectVars, identified, connVars, dumpVars, serializing, redis, stale, unsent,
                   late, overtaken, leftover>>

\* ProcessQueueItem(PendingConfigItem): what is written and what is deleted
ConfigWrites(k, bits) ==
    (IF "ConfigUpdate" \in bits THEN Written(k) ELSE {})
    \cup (IF k = ParentHost THEN {} ELSE
          (IF "ConfigUpdate" \in bits THEN {"config"} ELSE {})
          \cup (IF "VolatileState" \in bits THEN {"state"} ELSE {})
          \cup (IF "NextUpdate" \in bits /\ k = host THEN {"nextUpdate"} ELSE {}))

ConfigDeletes(k, bits) ==
    (IF "ConfigDelete" \in bits THEN {"config"} ELSE {})
    \cup (IF "NextUpdate" \in bits /\ k # host THEN {"nextUpdate"} ELSE {})

\* The other ProcessQueueItem(): a dependency that is gone is not written any more.
Writes(i) ==
    CASE i.kind = "config" -> ConfigWrites(i.key, i.what)
      [] i.kind = "edge" -> (IF depGroup # 0 /\ host \in i.what THEN {"childNode"} ELSE {})
                            \cup (IF depGroup = i.key THEN {"edge"} ELSE {})
      [] i.kind = "groupState" -> IF depGroup = i.key THEN {"edgeState"} ELSE {}
      [] OTHER -> {}

Deletes(i) == CASE i.kind = "config" -> ConfigDeletes(i.key, i.what)
                [] i.kind = "relations" -> i.what
                [] OTHER -> {}

\* ProcessQueueItem() reads the object, ...
WorkerRead ==
    /\ item.kind \notin {"none", "queries"}
    /\ item' = Queries(Deletes(item), Writes(item))
    /\ serializing' = IF Writes(item) \cap {"edge", "edgeState"} = {} THEN 0 ELSE depGroup
    /\ stale' = IF item.kind # "config" THEN stale
                ELSE IF item.key = host THEN stale \ Writes(item)
                ELSE stale \cup (Writes(item) \cap {"config", "state"})
    /\ UNCHANGED <<objectVars, identified, connVars, dumpVars, queue, redis, unsent, late,
                   overtaken, leftover>>

\* ... serializes the edges of its dependency group ...
WorkerSerialize ==
    /\ item.kind = "queries" /\ serializing # 0
    /\ Serialized
    /\ UNCHANGED <<objectVars, connVars, dumpVars, queue, item, redis, stale, unsent, late,
                   overtaken, leftover>>

\* ... and sends the queries.
WorkerSend ==
    /\ item.kind = "queries" /\ serializing = 0
    /\ item' = NoItem
    /\ IF connected
       THEN /\ redis' = (redis \ item.deletes) \cup item.what
            /\ overtaken' = overtaken \ (item.what \ DeletedBehind(queue, 0))
            /\ leftover' = leftover \ item.deletes
            /\ UNCHANGED unsent
       ELSE unsent' = TRUE /\ UNCHANGED <<redis, overtaken, leftover>>
    /\ UNCHANGED <<objectVars, identified, connVars, dumpVars, serializing, queue, stale, late>>

IcingaDBNext ==
    \/ CreateHost \/ (\E new \in SUBSET Groups : ModifyHost(new)) \/ DeleteHost
    \/ ResultProcessed \/ NewCheckResultHandler
    \/ DependencyGroupChildRegisteredHandler \/ DependencyGroupChildRemovedHandler
    \/ RedisConnect \/ RedisDisconnect
    \/ DumpBegin \/ DumpList \/ DumpReadParent \/ (\E k \in Hosts : DumpReadHost(k))
    \/ DumpReadEnd \/ DumpWrite \/ DumpEnd
    \/ WorkerTake \/ WorkerRead \/ WorkerSerialize \/ WorkerSend

IcingaDBSpec == IcingaDBInit /\ [][IcingaDBNext]_icingadbVars

IcingaDBTypeOK ==
    /\ {host, result, hosts, reading} \cup unread \subseteq Hosts \cup {0}
    /\ {depGroup, depGroups, serializing} \subseteq DependencyGroups \cup {0}
    /\ identified \subseteq DependencyGroups
    /\ groups \in [Hosts -> SUBSET Groups]
    /\ {connected, reconnected, unsent, late} \subseteq BOOLEAN
    /\ redisBreaks \in 0..MaxDisconnects
    /\ updates \in 0..MaxUpdates
    /\ dump \in {"idle", "begun", "listed", "written", "done"}
    /\ dumped \cup redis \cup overtaken \cup leftover \subseteq Entries
    /\ stale \subseteq {"config", "state"}
    /\ \A i, j \in DOMAIN queue :
          i # j => queue[i].kind # queue[j].kind \/ queue[i].key # queue[j].key
----------------------------------------------------------------------------
\* Everything has been processed.
Processed == dump = "done" /\ queue = <<>> /\ item = NoItem /\ result = 0

\* Once the pending items are processed, Redis has what the objects say, whatever was
\* changed, merged and cancelled meanwhile and during the dump. Exceptions are changes
\* without a connection that no dump makes up for (one does if nothing is pending that
\* is older), results of a host that was deleted while they were processed or while the
\* dump was reading it, entries whose update was merged into an item older than the one
\* for their deletion, and what was read of a dependency whose registration was cancelled
\* before its group had an identifier.
RedisInSync ==
    Processed /\ ~unsent /\ ~late =>
        /\ redis \subseteq Actual \cup leftover
        /\ Actual \ overtaken \subseteq redis
        /\ host # 0 => stale = {}
=============================================================================

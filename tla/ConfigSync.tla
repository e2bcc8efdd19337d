----------------------------- MODULE ConfigSync -----------------------------
(***************************************************************************)
(* Runtime objects in a zone of two nodes: lib/remote/                      *)
(* apilistener-configsync.cpp with the API handlers that create, modify and *)
(* delete objects and the lock of an object's name. One object; both nodes  *)
(* accept configuration, and what one can load the other can load too.      *)
(* A request looks at the clock or at the object before it gets the lock of *)
(* the name, and a cluster update looks at the deletion timestamp before.   *)
(* What is done under the lock is one step. The clocks agree.               *)
(* Updates are not logged: every connection starts with all objects.        *)
(* Deletions are logged and replayed afterwards.                            *)
(***************************************************************************)
EXTENDS Integers, Sequences, FiniteSets

CONSTANTS Servers,      \* the two nodes of the zone
          MaxTime,      \* bound: how often the time is taken
          MaxRequests,  \* bound: API requests that wait for the lock
          MaxBreaks,    \* bound: how often the connection breaks
          LogDuration   \* log_duration of the endpoints; with 0 there would be no replay

ASSUME ConfigAssumption == /\ \E a \in Servers : \E b \in Servers \ {a} : Servers = {a, b}
                           /\ {MaxTime, MaxRequests, MaxBreaks, LogDuration} \subseteq Nat
                           /\ LogDuration # 0

NoObject == [version |-> 0]

VARIABLES clock,
          object,     \* node -> its object; config is what its file was created with
          deletion,   \* node -> GetRuntimeObjectDeletionTs(), 0 if there is none
          requests,   \* API requests that wait for the lock
          hand,       \* node -> a cluster update that waits for the lock
          linked,     \* the nodes are connected
          breaks,
          wire,       \* node -> messages it has sent
          sync,       \* node -> SyncClient(): idle, start, sending
          snapshot,   \* node -> what SyncClient() is about to send
          log,        \* node -> deletions in its replay log
          buried,     \* ghost: node -> its latest deletion, pruned or not
          missed,     \* ghost: nodes whose update was not sent during SyncClient()
          raced       \* ghost: nodes on which something looked up before is outdated

configVars == <<clock, object, deletion, requests, hand, linked, breaks, wire, sync,
                snapshot, log, buried, missed, raced>>

Exists(n) == object[n] # NoObject
Other(n) == CHOOSE m \in Servers : m # n

ConfigInit ==
    /\ clock = 0
    /\ object = [n \in Servers |-> NoObject]
    /\ deletion = [n \in Servers |-> 0]
    /\ requests = {}
    /\ hand = [n \in Servers |-> <<>>]
    /\ linked = FALSE /\ breaks = 0
    /\ wire = [n \in Servers |-> <<>>]
    /\ sync = [n \in Servers |-> "idle"]
    /\ snapshot = [n \in Servers |-> <<>>]
    /\ log = [n \in Servers |-> <<>>]
    /\ buried = [n \in Servers |-> 0]
    /\ missed = {} /\ raced = {}
----------------------------------------------------------------------------
UpdateMessage(o) ==
    [type |-> "update", version |-> o.version, config |-> o.config, attrs |-> o.attrs]
DeleteMessage(ts) == [type |-> "delete", version |-> ts]

\* RelayMessage() to the other node: SyncSendMessage() sends nothing while SyncClient()
\* runs; a message is logged if it may be and the other node is not connected.
RelayConfig(n, msg) ==
    /\ wire' = IF linked /\ sync[n] # "sending" THEN [wire EXCEPT ![n] = Append(@, msg)] ELSE wire
    /\ log' = IF msg.type = "delete" /\ ~linked THEN [log EXCEPT ![n] = Append(@, msg)] ELSE log
    /\ missed' = IF linked /\ sync[n] = "sending" THEN missed \cup {n} ELSE missed

SetDeletion(n, ts) ==
    /\ deletion' = [deletion EXCEPT ![n] = IF @ > ts THEN @ ELSE ts]
    /\ buried' = [buried EXCEPT ![n] = IF @ > ts THEN @ ELSE ts]

\* Requests that hold a pointer to the object of n; it does not exist any more.
Outdated(n, rs) == {IF r.node = n /\ r.op # "create" THEN [r EXCEPT !.arg = 0] ELSE r : r \in rs}
----------------------------------------------------------------------------
\* PUT: CreateObjectConfig() puts the current time into the new file.
CreateObjectConfig(n) ==
    /\ clock < MaxTime /\ Cardinality(requests) < MaxRequests
    /\ clock' = clock + 1
    /\ requests' = requests \cup {[node |-> n, op |-> "create", arg |-> clock']}
    /\ UNCHANGED <<object, deletion, hand, linked, breaks, wire, sync, snapshot, log,
                   buried, missed, raced>>

\* POST and DELETE find their object first.
FindObject(n, op) ==
    /\ Exists(n) /\ Cardinality(requests) < MaxRequests
    /\ requests' = requests \cup {[node |-> n, op |-> op, arg |-> 1]}
    /\ UNCHANGED <<clock, object, deletion, hand, linked, breaks, wire, sync, snapshot,
                   log, buried, missed, raced>>

\* ConfigObjectUtility::CreateObject(), which announces the object.
CreateObject(n, version) ==
    LET r == [node |-> n, op |-> "create", arg |-> version]
        new == [version |-> version, config |-> version, attrs |-> 0]
    IN /\ r \in requests
       /\ requests' = requests \ {r}
       /\ IF Exists(n) THEN UNCHANGED <<object, wire, log, missed, raced>>
          ELSE /\ object' = [object EXCEPT ![n] = new]
               /\ raced' = IF deletion[n] >= version THEN raced \cup {n} ELSE raced
               /\ RelayConfig(n, UpdateMessage(new))
       /\ UNCHANGED <<clock, deletion, hand, linked, breaks, sync, snapshot, buried>>

\* ModifyAttribute(), or RestoreAttribute(), which does nothing unless the attribute is
\* modified. An object that was deleted in between is not active and announces nothing.
ModifyObject(n, live, restore) ==
    LET r == [node |-> n, op |-> "modify", arg |-> live]
    IN /\ r \in requests
       /\ requests' = requests \ {r}
       /\ IF live = 0 \/ (restore /\ object[n].attrs = 0)
          THEN UNCHANGED <<clock, object, wire, log, missed>>
          ELSE /\ clock < MaxTime /\ clock' = clock + 1
               /\ object' = [object EXCEPT ![n].version = clock',
                                           ![n].attrs = IF restore THEN 0 ELSE clock']
               /\ RelayConfig(n, UpdateMessage(object'[n]))
       /\ UNCHANGED <<deletion, hand, linked, breaks, sync, snapshot, buried, raced>>

\* ConfigObjectUtility::DeleteObject(); if the object was deleted in between nothing is
\* announced, but an object that has its name now loses its registration and file.
DeleteObject(n, live) ==
    LET r == [node |-> n, op |-> "delete", arg |-> live]
    IN /\ r \in requests
       /\ requests' = Outdated(n, requests \ {r})
       /\ object' = [object EXCEPT ![n] = NoObject]
       /\ IF live = 0
          THEN /\ raced' = IF Exists(n) THEN raced \cup {n} ELSE raced
               /\ UNCHANGED <<clock, deletion, buried, wire, log, missed>>
          ELSE /\ clock < MaxTime /\ clock' = clock + 1
               /\ SetDeletion(n, clock')
               /\ RelayConfig(n, DeleteMessage(clock'))
               /\ UNCHANGED raced
       /\ UNCHANGED <<hand, linked, breaks, sync, snapshot>>
----------------------------------------------------------------------------
\* Mutation of UpdateIsDeleted: an update for a deleted object is not recognised.
UpdateNeverDeleted(n, msg) == FALSE

UpdateIsDeleted(n, msg) == deletion[n] >= msg.version

\* The next message of the other node, if none is waiting for the lock.
Next1(n) == Head(wire[Other(n)])
Incoming(n, type) == /\ hand[n] = <<>>
                     /\ wire[Other(n)] # <<>>
                     /\ Next1(n).type = type
                     /\ wire' = [wire EXCEPT ![Other(n)] = Tail(@)]

\* ConfigUpdateObjectAPIHandler(), up to the lock.
ReceiveUpdate(n) ==
    /\ Incoming(n, "update")
    /\ hand' = IF UpdateIsDeleted(n, Next1(n)) THEN hand ELSE [hand EXCEPT ![n] = <<Next1(n)>>]
    /\ UNCHANGED <<clock, object, deletion, requests, linked, breaks, sync, snapshot, log,
                   buried, missed, raced>>

\* Mutation of Updated: an older version replaces a newer one.
UpdatedAlways(n, msg) ==
    IF Exists(n) THEN [object[n] EXCEPT !.version = msg.version, !.attrs = msg.attrs]
    ELSE [version |-> msg.version, config |-> msg.config, attrs |-> 0]

\* What an update makes of the object. A new object takes the version of the update and
\* the content of the file; the modified attributes are for existing objects only.
Updated(n, msg) ==
    IF ~Exists(n) THEN [version |-> msg.version, config |-> msg.config, attrs |-> 0]
    ELSE IF msg.version <= object[n].version THEN object[n]
    ELSE [object[n] EXCEPT !.version = msg.version, !.attrs = msg.attrs]

\* ConfigUpdateObjectAPIHandler(), with the lock. The origin keeps what it announces
\* from going back.
UpdateObject(n) ==
    /\ hand[n] # <<>>
    /\ object' = [object EXCEPT ![n] = Updated(n, Head(hand[n]))]
    /\ raced' = IF UpdateIsDeleted(n, Head(hand[n])) THEN raced \cup {n} ELSE raced
    /\ hand' = [hand EXCEPT ![n] = <<>>]
    /\ UNCHANGED <<clock, deletion, requests, linked, breaks, wire, sync, snapshot, log,
                   buried, missed>>

\* What is left of a log once the message is confirmed.
Unconfirmed(msgs, msg) ==
    LET confirmed == {i \in 1..Len(msgs) : msgs[i] = msg}
    IN IF confirmed = {} THEN msgs ELSE SubSeq(msgs, 1 + CHOOSE i \in confirmed : TRUE, Len(msgs))

\* ConfigDeleteObjectAPIHandler(). The other node drops what is confirmed before the
\* connection breaks, and what is before it, from its log, and replays the rest again.
ReceiveDelete(n) ==
    /\ Incoming(n, "delete")
    /\ \/ UNCHANGED log
       \/ log' = [log EXCEPT ![Other(n)] = Unconfirmed(@, Next1(n))]
    /\ IF Exists(n) /\ Next1(n).version < object[n].version
       THEN UNCHANGED <<object, deletion, buried, requests>>
       ELSE /\ SetDeletion(n, Next1(n).version)
            /\ object' = [object EXCEPT ![n] = NoObject]
            /\ requests' = IF Exists(n) THEN Outdated(n, requests) ELSE requests
    /\ UNCHANGED <<clock, hand, linked, breaks, sync, snapshot, missed, raced>>

PruneDeletedRuntimeObjects(n) ==
    /\ deletion[n] # 0 /\ deletion[n] < clock - LogDuration
    /\ deletion' = [deletion EXCEPT ![n] = 0]
    /\ UNCHANGED <<clock, object, requests, hand, linked, breaks, wire, sync, snapshot,
                   log, buried, missed, raced>>
----------------------------------------------------------------------------
Connect ==
    /\ ~linked
    /\ linked' = TRUE
    /\ sync' = [n \in Servers |-> "start"]
    /\ UNCHANGED <<clock, object, deletion, requests, hand, breaks, wire, snapshot, log,
                   buried, missed, raced>>

\* Messages that were sent and not read are lost.
Disconnect ==
    /\ linked /\ breaks < MaxBreaks
    /\ linked' = FALSE /\ breaks' = breaks + 1
    /\ wire' = [n \in Servers |-> <<>>]
    /\ sync' = [n \in Servers |-> "idle"]
    /\ snapshot' = [n \in Servers |-> <<>>]
    /\ UNCHANGED <<clock, object, deletion, requests, hand, log, buried, missed, raced>>

\* SyncClient(): SendRuntimeConfigObjects() reads the object ...
SendRuntimeConfigObjects(n) ==
    /\ sync[n] = "start"
    /\ sync' = [sync EXCEPT ![n] = "sending"]
    /\ snapshot' = [snapshot EXCEPT ![n] =
                       IF Exists(n) THEN <<UpdateMessage(object[n])>> ELSE <<>>]
    /\ missed' = missed \ {n}
    /\ UNCHANGED <<clock, object, deletion, requests, hand, linked, breaks, wire, log,
                   buried, raced>>

\* ... and sends it, the deletions in the log follow.
FinishSync(n) ==
    /\ sync[n] = "sending"
    /\ sync' = [sync EXCEPT ![n] = "idle"]
    /\ wire' = [wire EXCEPT ![n] = @ \o snapshot[n] \o log[n]]
    /\ snapshot' = [snapshot EXCEPT ![n] = <<>>]
    /\ UNCHANGED <<clock, object, deletion, requests, hand, linked, breaks, log, buried,
                   missed, raced>>

ConfigNext ==
    \/ \E n \in Servers :
        \/ CreateObjectConfig(n)
        \/ \E op \in {"modify", "delete"} : FindObject(n, op)
        \/ \E version \in 1..MaxTime : CreateObject(n, version)
        \/ \E live \in {0, 1}, restore \in BOOLEAN : ModifyObject(n, live, restore)
        \/ \E live \in {0, 1} : DeleteObject(n, live)
        \/ ReceiveUpdate(n) \/ UpdateObject(n) \/ ReceiveDelete(n)
        \/ PruneDeletedRuntimeObjects(n)
        \/ SendRuntimeConfigObjects(n) \/ FinishSync(n)
    \/ Connect \/ Disconnect

ConfigSpec == ConfigInit /\ [][ConfigNext]_configVars

ConfigTypeOK ==
    /\ clock \in 0..MaxTime /\ linked \in BOOLEAN /\ breaks \in 0..MaxBreaks
    /\ \A n \in Servers :
        /\ Exists(n) => /\ object[n].version \in 1..clock
                        /\ object[n].config \in 1..clock
                        /\ object[n].attrs \in 0..clock
        /\ deletion[n] \in 0..clock /\ buried[n] \in deletion[n]..clock
        /\ sync[n] \in {"idle", "start", "sending"}
        /\ ~linked => wire[n] = <<>> /\ sync[n] = "idle"
        /\ sync[n] # "sending" => snapshot[n] = <<>>
    /\ \A r \in requests : r.op # "create" /\ r.arg = 1 => Exists(r.node)
    /\ missed \subseteq Servers /\ raced \subseteq Servers
----------------------------------------------------------------------------
\* The nodes are connected and nothing is on its way.
InSync == /\ linked /\ requests = {}
          /\ \A n \in Servers : wire[n] = <<>> /\ hand[n] = <<>> /\ sync[n] = "idle"

\* Whatever was created, modified, deleted, sent twice or lost: what one node has, the
\* other has in the same version or has deleted. Two things can spoil it: updates that
\* come up while a connection is being synced, and requests that raced on a node.
Converges ==
    InSync /\ missed = {} /\ raced = {} =>
        \A n, m \in Servers :
            Exists(n) => \/ Exists(m) /\ object[m].version >= object[n].version
                         \/ buried[m] >= object[n].version

\* The deletion timestamp protects against endpoints that sync back a deleted object:
\* an object that is not younger than the last deletion exists only if a request or an
\* update made up its mind before the deletion got the lock.
DeletedStaysDeleted ==
    \A n \in Servers : Exists(n) /\ object[n].version <= deletion[n] => n \in raced

\* "update object attributes if version was changed or if this is a new object": nodes
\* that have created the object from the same file and have the same version of it have
\* the same attributes.
SameVersionSameAttributes ==
    InSync /\ (\A n \in Servers : Exists(n)) =>
        \A n, m \in Servers :
            object[n].config = object[m].config /\ object[n].version = object[m].version
                => object[n].attrs = object[m].attrs
=============================================================================
